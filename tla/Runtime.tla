------------------------------ MODULE Runtime ------------------------------
(***************************************************************************)
(* The sandboxes of one player: Player::step and the second half of         *)
(* Unit::step (loading, running, crashing and restarting the RISC-V         *)
(* machines) and the ecalls log, send_msg, recv_msg and abort.              *)
(*                                                                          *)
(* A device is the base or a unit.  In a turn the base runs first, then     *)
(* every unit once; _units is kept in any order.  What a program does is    *)
(* any sequence of ecalls; it ends its turn by using up its cycles, by      *)
(* abort or by an exception.                                                *)
(***************************************************************************)
EXTENDS Integers, Sequences

CONSTANTS
    Base, UnitDevices,    \* the base and the unit ids
    InitialUnits,         \* the units the game starts with
    Broken,               \* devices whose ELF does not load
    MessageLengths,       \* the lengths passed to send_msg and recv_msg
    PacketSize,           \* MessagePacket::packet_size
    LogLengths,           \* the lengths passed to log
    LengthLimit,          \* LENGTH_LIMIT of ecall_log
    InitialQuota, Refill, MaxQuota, \* the log quota
    Nobody,               \* no device is running
    MaxTurn               \* bound on the number of turns

Devices == {Base} \cup UnitDevices

ASSUME DeviceAssumption ==
    /\ Base \notin UnitDevices /\ Nobody \notin Devices
    /\ InitialUnits \subseteq UnitDevices /\ Broken \subseteq Devices
ASSUME LengthAssumption ==
    /\ MessageLengths \subseteq Int /\ LogLengths \subseteq Int
    /\ PacketSize \in Nat /\ LengthLimit \in Nat /\ MaxTurn \in Nat
    /\ InitialQuota \in Nat /\ Refill \in Nat /\ MaxQuota \in Nat
    /\ InitialQuota <= MaxQuota

VARIABLES
    turn,
    present,      \* the base and the units in play
    todo,         \* the devices whose step of this turn is still to come
    running,      \* the device inside RuntimeECallContext::simulate
    loaded,       \* the devices with a machine
    quota,        \* log_quota of each context
    msgIdx,       \* msg_idx of each context
    sendFlag,     \* contexts with flags.send_msg
    incoming, outgoing,  \* Player::incoming_messages, outgoing_messages
    crashFlags,   \* which of base_elf_crash_flag, unit_elf_crash_flag is set
    crashed,      \* history: devices that crashed or failed to load this turn
    sentNow, sentBefore, \* history: successful senders of this turn and the last
    runs, logged  \* history: simulate calls of an instance, bytes it has logged

mail == <<incoming, outgoing, sentNow, sentBefore>>
logging == <<quota, runs, logged>>
sandbox == <<present, todo, running, loaded, crashFlags, crashed>>
vars == <<turn, sandbox, mail, logging, msgIdx, sendFlag>>

Init ==
    /\ turn = 0
    /\ present = {Base} \cup InitialUnits
    /\ todo = {}
    /\ running = Nobody
    /\ loaded = {}
    /\ quota = [d \in Devices |-> InitialQuota]
    /\ msgIdx = [d \in Devices |-> 0]
    /\ sendFlag = {}
    /\ incoming = <<>> /\ outgoing = <<>>
    /\ crashFlags = {}
    /\ crashed = {} /\ sentNow = {} /\ sentBefore = {}
    /\ runs = [d \in Devices |-> 0] /\ logged = [d \in Devices |-> 0]

-----------------------------------------------------------------------------
(* The engine.                                                              *)

\* Player::step starts by turning the outgoing messages into incoming ones.
Delivered == incoming' = outgoing /\ outgoing' = <<>>

\* A turn in which the units in `dead` have been destroyed.
BeginTurn(dead) ==
    /\ todo = {} /\ running = Nobody
    /\ turn < MaxTurn
    /\ turn' = turn + 1
    /\ present' = present \ dead
    /\ loaded' = loaded \ dead
    /\ todo' = present'
    /\ Delivered
    /\ sentBefore' = sentNow /\ sentNow' = {}
    /\ crashed' = {}
    /\ UNCHANGED <<running, crashFlags, logging, msgIdx, sendFlag>>

Ready(d) == running = Nobody /\ d \in todo /\ (Base \in todo => d = Base)

CrashFlag(d) == IF d = Base THEN "base_elf" ELSE "unit_elf"

\* createMachineFromELF fails: logged, flagged, skipped for this turn.
FailToLoad(d) ==
    /\ Ready(d)
    /\ d \notin loaded /\ d \in Broken
    /\ todo' = todo \ {d}
    /\ crashFlags' = crashFlags \cup {CrashFlag(d)}
    /\ crashed' = crashed \cup {d}
    /\ UNCHANGED <<turn, present, running, loaded, mail, logging, msgIdx, sendFlag>>

Refilled(n) == IF n + Refill > MaxQuota THEN MaxQuota ELSE n + Refill

\* Load a machine if there is none, then simulate.
Run(d) ==
    /\ Ready(d)
    /\ d \in loaded \/ d \notin Broken
    /\ loaded' = loaded \cup {d}
    /\ running' = d
    /\ todo' = todo \ {d}
    /\ msgIdx' = [msgIdx EXCEPT ![d] = 0]
    /\ sendFlag' = sendFlag \ {d}
    /\ quota' = [quota EXCEPT ![d] = Refilled(@)]
    /\ runs' = [runs EXCEPT ![d] = @ + 1]
    /\ UNCHANGED <<turn, present, crashFlags, crashed, mail, logged>>

\* The cycles of this turn are used up.
Pause(d) ==
    /\ running = d
    /\ running' = Nobody
    /\ UNCHANGED <<turn, present, todo, loaded, crashFlags, crashed, mail,
                   logging, msgIdx, sendFlag>>

\* Mutant of WithoutMachine: the stopped machine is kept.
WithoutMachine_Not(d) == loaded

WithoutMachine(d) == loaded \ {d}

\* Mutant of ContextAfterCrash: the restarted program gets a new context.
ContextAfterCrash_New(d) == quota' = [quota EXCEPT ![d] = InitialQuota]

\* The context, and with it the log quota, outlives the machine.
ContextAfterCrash(d) == UNCHANGED quota

\* ecall_abort or an exception.
Crash(d) ==
    /\ running = d
    /\ running' = Nobody
    /\ loaded' = WithoutMachine(d)
    /\ crashFlags' = crashFlags \cup {CrashFlag(d)}
    /\ crashed' = crashed \cup {d}
    /\ ContextAfterCrash(d)
    /\ UNCHANGED <<turn, present, todo, mail, runs, logged, msgIdx, sendFlag>>

\* The base manufactures a unit, with a new context; it runs in this turn.
Manufacture(d) ==
    /\ running = Base
    /\ d \in UnitDevices \ present
    /\ present' = present \cup {d}
    /\ todo' = todo \cup {d}
    /\ quota' = [quota EXCEPT ![d] = InitialQuota]
    /\ runs' = [runs EXCEPT ![d] = 0]
    /\ logged' = [logged EXCEPT ![d] = 0]
    /\ UNCHANGED <<turn, running, loaded, crashFlags, crashed, mail, msgIdx, sendFlag>>

-----------------------------------------------------------------------------
(* ecalls of the running device.  `readable` says whether the pointer that  *)
(* the program passes can be accessed.                                      *)

\* Mutant of MaySend: one message per turn is not enforced.
MaySend_Always(d) == TRUE

MaySend(d) == d \notin sendFlag

\* The length is stored in a uint8_t; the flag is set before the copy.
SendMsg(d, len, readable) ==
    /\ running = d
    /\ len \in 1 .. PacketSize
    /\ MaySend(d)
    /\ sendFlag' = sendFlag \cup {d}
    /\ IF readable
       THEN /\ outgoing' = Append(outgoing, [from |-> d, length |-> len % 256])
            /\ sentNow' = sentNow \cup {d}
       ELSE UNCHANGED <<outgoing, sentNow>>
    /\ UNCHANGED <<turn, sandbox, incoming, sentBefore, logging, msgIdx>>

\* The index moves on whether or not the message can be copied.
RecvMsg(d) ==
    /\ running = d
    /\ msgIdx[d] < Len(incoming)
    /\ msgIdx' = [msgIdx EXCEPT ![d] = @ + 1]
    /\ UNCHANGED <<turn, sandbox, mail, logging, sendFlag>>

\* Mutant of MayLog: the quota is only asked to be non-empty.
MayLog_IfAny(d, len) == len \in 1 .. LengthLimit /\ quota[d] > 0

MayLog(d, len) == len \in 1 .. LengthLimit /\ len <= quota[d]

\* The quota is charged before the copy.
Log(d, len, readable) ==
    /\ running = d
    /\ MayLog(d, len)
    /\ quota' = [quota EXCEPT ![d] = @ - len]
    /\ logged' = [logged EXCEPT ![d] = IF readable THEN @ + len ELSE @]
    /\ UNCHANGED <<turn, sandbox, mail, runs, msgIdx, sendFlag>>

Next ==
    \/ \E dead \in SUBSET (present \ {Base}) : BeginTurn(dead)
    \/ \E d \in Devices :
          \/ FailToLoad(d)
          \/ Run(d)
          \/ Pause(d)
          \/ Crash(d)
          \/ Manufacture(d)
          \/ RecvMsg(d)
          \/ \E len \in MessageLengths, readable \in BOOLEAN : SendMsg(d, len, readable)
          \/ \E len \in LogLengths, readable \in BOOLEAN : Log(d, len, readable)

Spec == Init /\ [][Next]_vars

-----------------------------------------------------------------------------
(* Properties.                                                              *)

Message == [from : Devices, length : 0 .. 255]

(* Types; the range of quota says that the 16-bit log_quota never wraps.    *)
TypeOK ==
    /\ turn \in Nat
    /\ Base \in present /\ present \subseteq Devices
    /\ todo \subseteq present
    /\ running \in Devices \cup {Nobody}
    /\ loaded \subseteq Devices
    /\ quota \in [Devices -> 0 .. MaxQuota]
    /\ msgIdx \in [Devices -> Nat]
    /\ sendFlag \subseteq Devices
    /\ incoming \in Seq(Message) /\ outgoing \in Seq(Message)
    /\ crashed \subseteq Devices
    /\ sentNow \subseteq Devices /\ sentBefore \subseteq Devices
    /\ runs \in [Devices -> Nat] /\ logged \in [Devices -> Nat]

Carries(queue, senders) ==
    /\ {queue[i].from : i \in 1 .. Len(queue)} = senders
    /\ \A i, j \in 1 .. Len(queue) : queue[i].from = queue[j].from => i = j

(* "If a program sends a message at turn t, the message can be read by the  *)
(* programs of the same player at turn t+1" and "Each program can send at   *)
(* most one message per turn" (docs/rule-spec.md): what can be read in a    *)
(* turn is exactly one message from every device that sent in the turn      *)
(* before, whether or not the sender crashed, restarted or was destroyed    *)
(* in between.                                                              *)
MessagesArriveNextTurn == Carries(incoming, sentBefore) /\ Carries(outgoing, sentNow)

(* The log quota of docs/api-spec.md: an instance never logs more than its  *)
(* initial quota and one refill per turn it ran, crashes and restarts       *)
(* included.                                                                *)
LogBudget == \A d \in Devices : logged[d] + quota[d] <= InitialQuota + Refill * runs[d]

(* A crash costs a program the rest of its turn and its memory, nothing     *)
(* more: a device whose step of this turn is over has a machine, unless it  *)
(* crashed in this very turn.                                               *)
CrashCostsOneTurn ==
    running = Nobody =>
        \A d \in present \ todo : turn > 0 => (d \in loaded <=> d \notin crashed)
=============================================================================
