--------------------------- MODULE RuntimeProofs ---------------------------
(***************************************************************************)
(* Proofs about what a program meets in its sandbox: Runtime, for every set *)
(* of devices, every broken ELF, every quota and every limit on lengths;    *)
(* then Vision, what its sensor shows; then Scheduler, the async runtime    *)
(* of the programs written in Rust.                                         *)
(***************************************************************************)
EXTENDS Runtime, Vision, Scheduler, TLAPS

\* A device whose step is over has a machine unless it crashed; the one that
\* runs has a machine and has not crashed.
MachineInv ==
    /\ turn = 0 => todo = {} /\ running = Nobody
    /\ crashed \subseteq present \ todo
    /\ running # Nobody => running \in loaded \ crashed /\ running \in present \ todo
    /\ \A d \in present \ todo :
          turn > 0 /\ d # running => (d \in loaded <=> d \notin crashed)

\* A device that has sent in this turn is over, or runs with its flag set.
SendInv ==
    /\ sentNow \subseteq present \ todo
    /\ running # Nobody /\ running \in sentNow => running \in sendFlag

IInv ==
    /\ TypeOK
    /\ MachineInv
    /\ SendInv
    /\ MessagesArriveNextTurn
    /\ LogBudget

-----------------------------------------------------------------------------
(* The invariant holds at the start.                                        *)
LEMMA InitIInv == Init => IInv
<1> SUFFICES ASSUME Init PROVE IInv
  OBVIOUS
<1> USE DeviceAssumption, LengthAssumption DEF Init
<1>1. TypeOK
  BY DEF TypeOK, Devices
<1>2. MachineInv /\ SendInv
  BY DEF MachineInv, SendInv
<1>3. MessagesArriveNextTurn
  BY DEF MessagesArriveNextTurn, Carries
<1>4. LogBudget
  BY DEF LogBudget
<1>5. QED
  BY <1>1, <1>2, <1>3, <1>4 DEF IInv

(* A message that is appended is carried along with its sender.             *)
LEMMA CarriesOneMore ==
    ASSUME NEW box \in Seq(Message), NEW senders, NEW m \in Message,
           Carries(box, senders), m.from \notin senders
    PROVE  Carries(Append(box, m), senders \cup {m.from})
<1> DEFINE q == Append(box, m)
<1>1. Len(q) = Len(box) + 1 /\ q[Len(box) + 1] = m
      /\ \A i \in 1 .. Len(box) : q[i] = box[i]
  OBVIOUS
<1>2. {q[i].from : i \in 1 .. Len(q)} = senders \cup {m.from}
  BY <1>1 DEF Carries
<1>3. \A i \in 1 .. Len(box) : q[i].from # m.from
  BY <1>1 DEF Carries
<1>4. \A i, j \in 1 .. Len(q) : q[i].from = q[j].from => i = j
  BY <1>1, <1>3 DEF Carries
<1>5. QED
  BY <1>2, <1>4 DEF Carries

(* What the budget grows by when a device runs once more.                   *)
LEMMA OneMoreRun ==
    ASSUME NEW n \in Nat
    PROVE  Refill * (n + 1) = Refill * n + Refill /\ Refill * n \in Nat
  BY LengthAssumption

(* The invariant is inductive: one step per action of Next.                 *)
LEMMA StepIInv ==
    ASSUME IInv, [Next]_vars
    PROVE  IInv'
<1> USE DeviceAssumption, LengthAssumption
<1>1. ASSUME NEW dead \in SUBSET (present \ {Base}), BeginTurn(dead)
      PROVE  IInv'
  <2> USE <1>1 DEF BeginTurn, Delivered, logging
  <2>1. TypeOK'
    BY DEF IInv, TypeOK
  <2>2. MachineInv' /\ SendInv'
    BY DEF IInv, TypeOK, MachineInv, SendInv
  <2>3. MessagesArriveNextTurn'
    <3>1. Carries(incoming', sentBefore')
      BY DEF IInv, MessagesArriveNextTurn
    <3>2. Carries(outgoing', sentNow')
      BY DEF Carries
    <3>3. QED
      BY <3>1, <3>2 DEF MessagesArriveNextTurn, Carries
  <2>4. LogBudget'
    BY DEF IInv, LogBudget
  <2>5. QED
    BY <2>1, <2>2, <2>3, <2>4 DEF IInv
<1>2. ASSUME NEW d \in Devices, FailToLoad(d)
      PROVE  IInv'
  <2> USE <1>2 DEF FailToLoad, Ready, logging, mail
  <2>1. TypeOK'
    BY DEF IInv, TypeOK
  <2>2. MachineInv' /\ SendInv'
    BY DEF IInv, TypeOK, MachineInv, SendInv
  <2>3. MessagesArriveNextTurn' /\ LogBudget'
    BY DEF IInv, MessagesArriveNextTurn, Carries, LogBudget
  <2>4. QED
    BY <2>1, <2>2, <2>3 DEF IInv
<1>3. ASSUME NEW d \in Devices, Run(d)
      PROVE  IInv'
  <2> USE <1>3 DEF Run, Ready, mail
  <2>1. Refilled(quota[d]) \in 0 .. MaxQuota /\ Refilled(quota[d]) <= quota[d] + Refill
    BY DEF IInv, TypeOK, Refilled
  <2>2. TypeOK'
    <3>1. quota' \in [Devices -> 0 .. MaxQuota]
      BY <2>1 DEF IInv, TypeOK
    <3>2. runs' \in [Devices -> Nat] /\ msgIdx' \in [Devices -> Nat]
      BY DEF IInv, TypeOK
    <3>3. QED
      BY <3>1, <3>2 DEF IInv, TypeOK
  <2>3. MachineInv' /\ SendInv'
    BY DEF IInv, TypeOK, MachineInv, SendInv
  <2>4. MessagesArriveNextTurn'
    BY DEF IInv, MessagesArriveNextTurn, Carries
  <2>5. LogBudget'
    <3>1. SUFFICES ASSUME NEW e \in Devices
                   PROVE  logged'[e] + quota'[e] <= InitialQuota + Refill * runs'[e]
      BY DEF LogBudget
    <3>2. CASE e = d
      <4>1. runs'[e] = runs[e] + 1 /\ quota'[e] = Refilled(quota[e]) /\ logged'[e] = logged[e]
        BY <3>2 DEF IInv, TypeOK
      <4>2. logged[e] + quota[e] <= InitialQuota + Refill * runs[e]
        BY DEF IInv, LogBudget
      <4>3. runs[e] \in Nat /\ logged[e] \in Nat /\ quota[e] \in Nat
        BY DEF IInv, TypeOK
      <4>4. Refill * (runs[e] + 1) = Refill * runs[e] + Refill /\ Refill * runs[e] \in Nat
        BY <4>3, OneMoreRun
      <4>5. QED
        BY <2>1, <3>2, <4>1, <4>2, <4>3, <4>4
    <3>3. CASE e # d
      BY <3>3 DEF IInv, TypeOK, LogBudget
    <3>4. QED
      BY <3>2, <3>3
  <2>6. QED
    BY <2>2, <2>3, <2>4, <2>5 DEF IInv
<1>4. ASSUME NEW d \in Devices, Pause(d)
      PROVE  IInv'
  <2> USE <1>4 DEF Pause, logging, mail
  <2>1. TypeOK'
    BY DEF IInv, TypeOK
  <2>2. MachineInv' /\ SendInv'
    BY DEF IInv, TypeOK, MachineInv, SendInv
  <2>3. MessagesArriveNextTurn' /\ LogBudget'
    BY DEF IInv, MessagesArriveNextTurn, Carries, LogBudget
  <2>4. QED
    BY <2>1, <2>2, <2>3 DEF IInv
<1>5. ASSUME NEW d \in Devices, Crash(d)
      PROVE  IInv'
  <2> USE <1>5 DEF Crash, WithoutMachine, ContextAfterCrash, mail
  <2>1. TypeOK'
    BY DEF IInv, TypeOK
  <2>2. MachineInv' /\ SendInv'
    BY DEF IInv, TypeOK, MachineInv, SendInv
  <2>3. MessagesArriveNextTurn' /\ LogBudget'
    BY DEF IInv, MessagesArriveNextTurn, Carries, LogBudget
  <2>4. QED
    BY <2>1, <2>2, <2>3 DEF IInv
<1>6. ASSUME NEW d \in Devices, Manufacture(d)
      PROVE  IInv'
  <2> USE <1>6 DEF Manufacture, mail
  <2>1. TypeOK'
    BY DEF IInv, TypeOK, Devices
  <2>2. MachineInv' /\ SendInv'
    BY DEF IInv, TypeOK, MachineInv, SendInv, Devices
  <2>3. MessagesArriveNextTurn'
    BY DEF IInv, MessagesArriveNextTurn, Carries
  <2>4. LogBudget'
    BY DEF IInv, TypeOK, LogBudget
  <2>5. QED
    BY <2>1, <2>2, <2>3, <2>4 DEF IInv
<1>7. ASSUME NEW d \in Devices, RecvMsg(d)
      PROVE  IInv'
  <2> USE <1>7 DEF RecvMsg, sandbox, logging, mail
  <2>1. TypeOK'
    BY DEF IInv, TypeOK
  <2>2. MachineInv' /\ SendInv'
    BY DEF IInv, MachineInv, SendInv
  <2>3. MessagesArriveNextTurn' /\ LogBudget'
    BY DEF IInv, MessagesArriveNextTurn, Carries, LogBudget
  <2>4. QED
    BY <2>1, <2>2, <2>3 DEF IInv
<1>8. ASSUME NEW d \in Devices, NEW len \in MessageLengths, NEW readable \in BOOLEAN,
             SendMsg(d, len, readable)
      PROVE  IInv'
  <2> DEFINE m == [from |-> d, length |-> len % 256]
  <2> USE <1>8 DEF SendMsg, MaySend, sandbox, logging
  <2>1. m \in Message /\ m.from = d
    BY DEF Message
  <2>2. d \notin sentNow /\ d \in present \ todo
    BY DEF IInv, MachineInv, SendInv
  <2>3. \/ outgoing' = Append(outgoing, m) /\ sentNow' = sentNow \cup {d}
        \/ outgoing' = outgoing /\ sentNow' = sentNow
    OBVIOUS
  <2> HIDE DEF m
  <2>4. TypeOK'
    <3>1. outgoing \in Seq(Message) /\ sentNow \subseteq Devices
      BY DEF IInv, TypeOK
    <3>2. outgoing' \in Seq(Message) /\ sentNow' \subseteq Devices
      BY ONLY <1>8, <2>1, <2>3, <3>1
    <3>3. QED
      BY <3>2 DEF IInv, TypeOK
  <2>5. MachineInv' /\ SendInv'
    BY <2>2, <2>3 DEF IInv, MachineInv, SendInv
  <2>6. MessagesArriveNextTurn'
    <3>1. Carries(outgoing', sentNow')
      <4>1. outgoing \in Seq(Message) /\ Carries(outgoing, sentNow)
        BY DEF IInv, TypeOK, MessagesArriveNextTurn
      <4>2. CASE outgoing' = Append(outgoing, m) /\ sentNow' = sentNow \cup {d}
        <5>1. Carries(Append(outgoing, m), sentNow \cup {m.from})
          BY <2>1, <2>2, <4>1, CarriesOneMore
        <5>2. QED
          BY <2>1, <4>2, <5>1
      <4>3. CASE outgoing' = outgoing /\ sentNow' = sentNow
        BY <4>1, <4>3
      <4>4. QED
        BY <2>3, <4>2, <4>3
    <3>2. Carries(incoming', sentBefore')
      BY DEF IInv, MessagesArriveNextTurn
    <3>3. QED
      BY <3>1, <3>2 DEF MessagesArriveNextTurn, Carries
  <2>7. LogBudget'
    BY DEF IInv, LogBudget
  <2>8. QED
    BY <2>4, <2>5, <2>6, <2>7 DEF IInv
<1>9. ASSUME NEW d \in Devices, NEW len \in LogLengths, NEW readable \in BOOLEAN,
             Log(d, len, readable)
      PROVE  IInv'
  <2> USE <1>9 DEF Log, MayLog, sandbox, mail
  <2>1. len \in Nat /\ len <= quota[d]
    OBVIOUS
  <2>2. quota' = [quota EXCEPT ![d] = quota[d] - len]
    OBVIOUS
  <2>3. PICK n \in {0, len} : logged' = [logged EXCEPT ![d] = logged[d] + n]
    <3>1. logged[d] \in Nat
      BY DEF IInv, TypeOK
    <3>2. CASE readable
      BY <3>2
    <3>3. CASE ~readable
      <4>1. logged' = [logged EXCEPT ![d] = logged[d]]
        BY <3>3
      <4>2. logged[d] + 0 = logged[d]
        BY <3>1
      <4>3. QED
        BY ONLY <4>1, <4>2
    <3>4. QED
      BY <3>2, <3>3
  <2>4. TypeOK'
    <3>1. quota \in [Devices -> 0 .. MaxQuota] /\ quota[d] - len \in 0 .. MaxQuota
      BY <2>1 DEF IInv, TypeOK
    <3>2. quota' \in [Devices -> 0 .. MaxQuota]
      BY ONLY <1>9, <2>2, <3>1
    <3>3. logged' \in [Devices -> Nat]
      BY ONLY <1>9, <2>1, <2>3, IInv DEF IInv, TypeOK
    <3>4. QED
      BY <3>2, <3>3 DEF IInv, TypeOK
  <2>5. MachineInv' /\ SendInv'
    BY DEF IInv, MachineInv, SendInv
  <2>6. MessagesArriveNextTurn'
    BY DEF IInv, MessagesArriveNextTurn, Carries
  <2>7. LogBudget'
    <3>1. SUFFICES ASSUME NEW e \in Devices
                   PROVE  logged'[e] + quota'[e] <= InitialQuota + Refill * runs'[e]
      BY DEF LogBudget
    <3>2. /\ logged[e] + quota[e] <= InitialQuota + Refill * runs[e]
          /\ runs[e] \in Nat /\ logged[e] \in Nat /\ quota[e] \in Nat
      BY DEF IInv, LogBudget, TypeOK
    <3>3. logged'[e] + quota'[e] <= logged[e] + quota[e] /\ runs'[e] = runs[e]
          /\ logged'[e] \in Nat /\ quota'[e] \in Nat
      <4>1. CASE e = d
        <5>1. logged'[e] = logged[e] + n /\ quota'[e] = quota[e] - len /\ runs'[e] = runs[e]
          BY <2>2, <2>3, <4>1 DEF IInv, TypeOK
        <5>2. n \in Nat /\ n <= len
          BY <2>1, <2>3
        <5>3. QED
          BY ONLY <2>1, <3>2, <4>1, <5>1, <5>2
      <4>2. CASE e # d
        <5>1. logged'[e] = logged[e] /\ quota'[e] = quota[e] /\ runs'[e] = runs[e]
          BY <2>2, <2>3, <4>2 DEF IInv, TypeOK
        <5>2. QED
          BY ONLY <3>2, <5>1
      <4>3. QED
        BY <4>1, <4>2
    <3>4. Refill * runs[e] \in Nat
      BY <3>2, OneMoreRun
    <3>5. QED
      BY <3>2, <3>3, <3>4
  <2>8. QED
    BY <2>4, <2>5, <2>6, <2>7 DEF IInv
<1>10. CASE UNCHANGED vars
  <2> USE <1>10 DEF vars, sandbox, mail, logging
  <2>1. TypeOK'
    BY DEF IInv, TypeOK
  <2>2. MachineInv' /\ SendInv'
    BY DEF IInv, MachineInv, SendInv
  <2>3. MessagesArriveNextTurn' /\ LogBudget'
    BY DEF IInv, MessagesArriveNextTurn, Carries, LogBudget
  <2>4. QED
    BY <2>1, <2>2, <2>3 DEF IInv
<1>11. QED
  BY <1>1, <1>2, <1>3, <1>4, <1>5, <1>6, <1>7, <1>8, <1>9, <1>10 DEF Next

(* The inductive invariant.                                                 *)
LEMMA InvariantHolds == Spec => []IInv
  BY InitIInv, StepIInv, PTL DEF Spec

(* The types of the sandbox state hold for every device and limit: log_quota *)
(* never leaves the range 0 .. MaxQuota, so its 16 bits never wrap.          *)
THEOREM TypeCorrect == Spec => []TypeOK
<1>1. IInv => TypeOK
  BY DEF IInv
<1>2. QED
  BY <1>1, InvariantHolds, PTL

(* send_msg and recv_msg: for every number of devices, what can be read in a *)
(* turn is exactly one message of every device that sent in the turn before. *)
THEOREM Messages == Spec => []MessagesArriveNextTurn
<1>1. IInv => MessagesArriveNextTurn
  BY DEF IInv
<1>2. QED
  BY <1>1, InvariantHolds, PTL

(* ecall_log: no sequence of crashes, restarts and unreadable pointers lets  *)
(* an instance log more than its quota and one refill per turn it ran.       *)
THEOREM Logging == Spec => []LogBudget
<1>1. IInv => LogBudget
  BY DEF IInv
<1>2. QED
  BY <1>1, InvariantHolds, PTL

(* Player::step, Unit::step: whatever happens in a turn, at its end exactly  *)
(* the devices that crashed in it are without a machine.                     *)
THEOREM Crashes == Spec => []CrashCostsOneTurn
<1>1. IInv => CrashCostsOneTurn
  BY DeviceAssumption DEF IInv, TypeOK, MachineInv, CrashCostsOneTurn
<1>2. QED
  BY <1>1, InvariantHolds, PTL

-----------------------------------------------------------------------------
(***************************************************************************)
(* What a unit's program reads from its sensor: Vision, for every map and   *)
(* every pair of ranges.  The cache belongs to the context of the program,  *)
(* so the search is proved here; the three share no state.                  *)
(***************************************************************************)
\* The cell where the search starts.
Middle == <<visionRange \div 2, visionRange \div 2>>

\* The cells next to a cell in the window, and the cells that wait to be visited.
Neighbours(c) == Next4(c) \cap Cells
Cellset(s) == {s[i] : i \in 1 .. Len(s)}
Queued == Cellset(queue)

\* What every set that is closed under seeing contains.
MustSee(t) == \A V \in SUBSET Window : SeesOn(V) => t \in V

\* The search: what it has marked visible are the cells it has visited, it leaves
\* nothing behind a visited cell unseen, and it never goes where the rule does not.
SearchInv ==
    /\ queue \in Seq(Cells) /\ visited \subseteq Cells
    /\ Middle \in Queued \cup visited
    /\ visible = {Index(c) : c \in {x \in visited : TileOf(x) \in Tiles}}
    /\ \A c \in visited :
          TileOf(c) \in Tiles \ walls => Neighbours(c) \subseteq Queued \cup visited
    /\ \A c \in Queued \cup visited : TileOf(c) \in Tiles => MustSee(TileOf(c))

LookInv ==
    /\ walls \subseteq Tiles /\ at \in Tiles \ walls /\ upgraded \in BOOLEAN
    /\ phase \in {"look", "program"} => SearchInv
    /\ phase = "program" => queue = <<>>

(* The window has a middle, and that is where the unit stands.              *)
LEMMA TheRange ==
    /\ visionRange \in Nat \ {0}
    /\ visionRange \div 2 \in 0 .. visionRange - 1
<1>1. visionRange \in Nat \ {0}
  BY VisionAssumption DEF visionRange
<1>2. QED
  BY <1>1

(* A cell of the cache stands for one tile of the window.                   *)
LEMMA CellsAreTiles ==
    ASSUME at \in Tiles
    PROVE  /\ \A c, d \in Cells : TileOf(c) = TileOf(d) => c = d
           /\ Middle \in Cells /\ TileOf(Middle) = at
           /\ \A c \in Cells : TileOf(c) \in Int \X Int
<1> DEFINE h == visionRange \div 2
           r == visionRange
<1>1. r \in Nat /\ h \in 0 .. r - 1 /\ h \in Int
  BY TheRange
<1>2. at \in Int \X Int
  BY VisionAssumption DEF Tiles
<1>3. Cells = (0 .. r - 1) \X (0 .. r - 1) /\ Middle = <<h, h>>
  BY DEF Cells, Middle
<1>4. \A c : TileOf(c) = <<at[1] - h + c[1], at[2] - h + c[2]>>
  BY DEF TileOf
<1> HIDE DEF h, r
<1>5. PICK a1 \in Int, a2 \in Int : at = <<a1, a2>>
  BY <1>2
<1>6. \A c1, c2 : TileOf(<<c1, c2>>) = <<a1 - h + c1, a2 - h + c2>>
  BY <1>4, <1>5
<1>7. Middle \in Cells /\ TileOf(Middle) = at
  BY <1>1, <1>3, <1>5, <1>6
<1>8. ASSUME NEW c \in Cells, NEW d \in Cells
      PROVE  TileOf(c) \in Int \X Int /\ (TileOf(c) = TileOf(d) => c = d)
  <2>1. PICK c1 \in 0 .. r - 1, c2 \in 0 .. r - 1, d1 \in 0 .. r - 1, d2 \in 0 .. r - 1 :
          c = <<c1, c2>> /\ d = <<d1, d2>>
    BY <1>3
  <2>2. TileOf(c) = <<a1 - h + c1, a2 - h + c2>> /\ TileOf(d) = <<a1 - h + d1, a2 - h + d2>>
    BY <1>6, <2>1
  <2>3. QED
    BY <1>1, <2>1, <2>2
<1>9. QED
  BY <1>7, <1>8

(* Two cells of the window have two places in the flat vector.              *)
LEMMA IndexInjective ==
    ASSUME NEW c \in Cells, NEW d \in Cells,
           Index(c) = Index(d)
    PROVE  c = d
<1> DEFINE r == visionRange
<1>1. r \in Nat
  BY TheRange
<1>2. PICK c1 \in 0 .. r - 1, c2 \in 0 .. r - 1, d1 \in 0 .. r - 1, d2 \in 0 .. r - 1 :
        c = <<c1, c2>> /\ d = <<d1, d2>>
  BY DEF Cells
<1>3. c2 * r + c1 = d2 * r + d1
  BY <1>2 DEF Index
<1> HIDE DEF r
<1>4. \A x, y \in 0 .. r - 1 : x < y => x * r + r <= y * r
  <2> SUFFICES ASSUME NEW x \in 0 .. r - 1, NEW y \in 0 .. r - 1, x < y
               PROVE  x * r + r <= y * r
    OBVIOUS
  <2>1. (y - x - 1) * r \in Nat
    BY <1>1
  <2>2. (y - x - 1) * r = y * r - (x * r + r)
    BY <1>1
  <2>3. QED
    BY <1>1, <2>1, <2>2
<1>5. c2 = d2
  <2>1. c2 * r \in Int /\ d2 * r \in Int
    BY <1>1
  <2>2. QED
    BY <1>1, <1>3, <1>4, <2>1
<1>6. c1 = d1
  <2>1. c2 * r \in Int
    BY <1>1
  <2>2. QED
    BY <1>3, <1>5, <2>1
<1>7. QED
  BY <1>2, <1>5, <1>6

(* Next to each other in the window is next to each other on the map.       *)
LEMMA NeighboursAreNext ==
    ASSUME at \in Tiles, NEW c \in Cells, NEW d \in Cells
    PROVE  d \in Neighbours(c) <=> TileOf(d) \in Next4(TileOf(c))
<1> DEFINE h == visionRange \div 2
           r == visionRange
<1>1. r \in Nat /\ h \in Int
  BY TheRange
<1>2. at \in Int \X Int
  BY VisionAssumption DEF Tiles
<1>3. PICK c1 \in 0 .. r - 1, c2 \in 0 .. r - 1, d1 \in 0 .. r - 1, d2 \in 0 .. r - 1 :
        c = <<c1, c2>> /\ d = <<d1, d2>>
  BY DEF Cells
<1>4. \A x : TileOf(x) = <<at[1] - h + x[1], at[2] - h + x[2]>>
  BY DEF TileOf
<1>5. d \in Neighbours(c) <=> d \in Next4(c)
  BY DEF Neighbours
<1> HIDE DEF h, r
<1>6. PICK a1 \in Int, a2 \in Int : at = <<a1, a2>>
  BY <1>2
<1>7. TileOf(c) = <<a1 - h + c1, a2 - h + c2>> /\ TileOf(d) = <<a1 - h + d1, a2 - h + d2>>
  BY <1>3, <1>4, <1>6
<1>8. QED
  BY <1>1, <1>3, <1>5, <1>7 DEF Next4

(* Appending to a queue adds the appended cells and no others.              *)
LEMMA Appended ==
    ASSUME NEW S, NEW s \in Seq(S), NEW t \in Seq(S)
    PROVE  s \o t \in Seq(S) /\ Cellset(s \o t) = Cellset(s) \cup Cellset(t)
<1>1. /\ s \o t \in Seq(S) /\ Len(s \o t) = Len(s) + Len(t)
      /\ Len(s) \in Nat /\ Len(t) \in Nat
      /\ \A i \in 1 .. Len(s) : (s \o t)[i] = s[i]
      /\ \A i \in 1 .. Len(t) : (s \o t)[Len(s) + i] = t[i]
  OBVIOUS
<1>2. ASSUME NEW i \in 1 .. Len(s \o t) PROVE (s \o t)[i] \in Cellset(s) \cup Cellset(t)
  <2>1. CASE i <= Len(s)
    BY <1>1, <2>1 DEF Cellset
  <2>2. CASE i > Len(s)
    <3>1. i - Len(s) \in 1 .. Len(t) /\ Len(s) + (i - Len(s)) = i
      BY <1>1, <2>2
    <3>2. (s \o t)[i] = t[i - Len(s)]
      BY <1>1, <3>1
    <3>3. QED
      BY <3>1, <3>2 DEF Cellset
  <2>3. QED
    BY <1>1, <2>1, <2>2
<1>3. ASSUME NEW i \in 1 .. Len(s) PROVE s[i] \in Cellset(s \o t)
  <2>1. i \in 1 .. Len(s \o t) /\ (s \o t)[i] = s[i]
    BY <1>1
  <2>2. QED
    BY <2>1 DEF Cellset
<1>4. ASSUME NEW i \in 1 .. Len(t) PROVE t[i] \in Cellset(s \o t)
  <2>1. Len(s) + i \in 1 .. Len(s \o t) /\ (s \o t)[Len(s) + i] = t[i]
    BY <1>1
  <2>2. QED
    BY <2>1 DEF Cellset
<1>5. Cellset(s \o t) \subseteq Cellset(s) \cup Cellset(t)
  BY <1>2 DEF Cellset
<1>6. Cellset(s) \subseteq Cellset(s \o t)
  BY <1>3 DEF Cellset
<1>7. Cellset(t) \subseteq Cellset(s \o t)
  BY <1>4 DEF Cellset
<1>8. QED
  BY <1>1, <1>5, <1>6, <1>7

(* Taking the head off the queue.                                           *)
LEMMA HeadAndTail ==
    ASSUME NEW S, NEW s \in Seq(S), s # <<>>
    PROVE  /\ Head(s) \in S /\ Tail(s) \in Seq(S)
           /\ Cellset(s) = {Head(s)} \cup Cellset(Tail(s))
<1>1. /\ Head(s) \in S /\ Tail(s) \in Seq(S) /\ Len(s) \in Nat /\ Len(s) >= 1
      /\ Head(s) = s[1] /\ Len(Tail(s)) = Len(s) - 1
      /\ \A i \in 1 .. Len(s) - 1 : Tail(s)[i] = s[i + 1]
  OBVIOUS
<1>2. ASSUME NEW i \in 1 .. Len(s) PROVE s[i] \in {Head(s)} \cup Cellset(Tail(s))
  <2>1. CASE i = 1
    BY <1>1, <2>1
  <2>2. CASE i # 1
    <3>1. i - 1 \in 1 .. Len(Tail(s)) /\ (i - 1) + 1 = i
      BY <1>1, <2>2
    <3>2. Tail(s)[i - 1] = s[i]
      BY <1>1, <3>1
    <3>3. QED
      BY <3>1, <3>2 DEF Cellset
  <2>3. QED
    BY <2>1, <2>2
<1>3. ASSUME NEW i \in 1 .. Len(Tail(s)) PROVE Tail(s)[i] \in Cellset(s)
  <2>1. i + 1 \in 1 .. Len(s) /\ Tail(s)[i] = s[i + 1]
    BY <1>1
  <2>2. QED
    BY <2>1 DEF Cellset
<1>4. Head(s) \in Cellset(s)
  BY <1>1 DEF Cellset
<1>5. Cellset(s) \subseteq {Head(s)} \cup Cellset(Tail(s))
  BY <1>2 DEF Cellset
<1>6. Cellset(Tail(s)) \subseteq Cellset(s)
  BY <1>3 DEF Cellset
<1>7. QED
  BY <1>1, <1>4, <1>5, <1>6

(* What an iteration queues: the neighbours in the window not yet visited.  *)
LEMMA WhatIsQueued ==
    ASSUME NEW c
    PROVE  /\ QueueNeighbours(c) \in Seq(Cells)
           /\ Cellset(QueueNeighbours(c)) = Neighbours(c) \ visited
<1>1. ASSUME NEW d
      PROVE  /\ Queueable(d) \in Seq(Cells)
             /\ Cellset(Queueable(d)) = ({d} \cap Cells) \ visited
  <2>1. CASE d \in Cells /\ d \notin visited
    <3>1. Queueable(d) = <<d>> /\ <<d>> \in Seq(Cells)
      BY <2>1 DEF Queueable
    <3>2. Len(<<d>>) = 1 /\ <<d>>[1] = d
      OBVIOUS
    <3>3. Cellset(<<d>>) = {d}
      BY <3>2 DEF Cellset
    <3>4. QED
      BY <2>1, <3>1, <3>3
  <2>2. CASE ~(d \in Cells /\ d \notin visited)
    <3>1. Queueable(d) = <<>> /\ <<>> \in Seq(Cells) /\ Len(<<>>) = 0
      BY <2>2 DEF Queueable
    <3>2. Cellset(<<>>) = {}
      BY <3>1 DEF Cellset
    <3>3. QED
      BY <2>2, <3>1, <3>2
  <2>3. QED
    BY <2>1, <2>2
<1> DEFINE u == <<c[1], c[2] - 1>>
           d == <<c[1], c[2] + 1>>
           l == <<c[1] - 1, c[2]>>
           r == <<c[1] + 1, c[2]>>
           p == Queueable(u) \o Queueable(d)
           q == p \o Queueable(l)
<1>2. QueueNeighbours(c) = q \o Queueable(r) /\ Next4(c) = {u, d, l, r}
  BY DEF QueueNeighbours, Next4
<1> HIDE DEF u, d, l, r
<1>3. p \in Seq(Cells) /\ Cellset(p) = Cellset(Queueable(u)) \cup Cellset(Queueable(d))
  BY <1>1, Appended
<1> HIDE DEF p
<1>4. q \in Seq(Cells) /\ Cellset(q) = Cellset(p) \cup Cellset(Queueable(l))
  BY <1>1, <1>3, Appended
<1> HIDE DEF q
<1>5. /\ q \o Queueable(r) \in Seq(Cells)
      /\ Cellset(q \o Queueable(r)) = Cellset(q) \cup Cellset(Queueable(r))
  BY <1>1, <1>4, Appended
<1>6. Cellset(q \o Queueable(r)) = ({u, d, l, r} \cap Cells) \ visited
  BY <1>1, <1>3, <1>4, <1>5
<1>7. QED
  BY <1>2, <1>5, <1>6 DEF Neighbours

(* Skipping a cell that was visited before keeps the invariant.             *)
LEMMA SkipSearch ==
    ASSUME SearchInv, SkipCell
    PROVE  SearchInv'
<1>1. /\ queue # <<>> /\ Head(queue) \in visited /\ queue' = Tail(queue)
      /\ UNCHANGED <<walls, at, upgraded, visited, visible>>
  BY DEF SkipCell, Popped
<1>2. queue \in Seq(Cells)
  BY DEF SearchInv
<1>3. queue' \in Seq(Cells) /\ Queued = {Head(queue)} \cup Queued'
  BY <1>1, <1>2, HeadAndTail DEF Queued
<1>4. Queued' \cup visited' = Queued \cup visited /\ visited' = visited
  BY <1>1, <1>3
<1>5. /\ Cells' = Cells /\ Middle' = Middle
      /\ \A x : /\ TileOf(x)' = TileOf(x) /\ Index(x)' = Index(x)
                /\ Neighbours(x)' = Neighbours(x)
                /\ MustSee(x)' <=> MustSee(x)
  BY <1>1 DEF visionRange, Cells, Middle, Window, TileOf, Index,
       Neighbours, MustSee, SeesOn
<1>6. QED
  BY <1>1, <1>3, <1>4, <1>5 DEF SearchInv, Tiles

(* Visiting a cell keeps the invariant.                                     *)
LEMMA VisitSearch ==
    ASSUME at \in Tiles, SearchInv, VisitCell
    PROVE  SearchInv'
<1> DEFINE c == Head(queue)
<1>1. /\ queue # <<>> /\ c \notin visited /\ visited' = visited \cup {c}
      /\ visible' = IF TileOf(c) \in Tiles THEN visible \cup {Index(c)} ELSE visible
      /\ queue' = IF TileOf(c) \in Tiles \ walls THEN Tail(queue) \o QueueNeighbours(c)
                                                 ELSE Tail(queue)
      /\ UNCHANGED <<walls, at, upgraded>>
  BY DEF VisitCell, Popped
<1>2. /\ visionRange' = visionRange /\ Cells' = Cells /\ Middle' = Middle
      /\ Window' = Window
      /\ \A x : /\ TileOf(x)' = TileOf(x) /\ Index(x)' = Index(x)
                /\ Neighbours(x)' = Neighbours(x)
                /\ MustSee(x)' <=> MustSee(x)
  BY <1>1 DEF visionRange, Cells, Middle, Window, TileOf, Index,
       Neighbours, MustSee, SeesOn
<1>3. /\ c \in Cells /\ Tail(queue) \in Seq(Cells)
      /\ Queued = {c} \cup Cellset(Tail(queue))
  BY <1>1, HeadAndTail DEF SearchInv, Queued
<1> HIDE DEF c
<1>4. /\ queue' \in Seq(Cells)
      /\ Queued' = Cellset(Tail(queue)) \cup
             (IF TileOf(c) \in Tiles \ walls THEN Neighbours(c) \ visited ELSE {})
  <2>1. CASE TileOf(c) \in Tiles \ walls
    <3>1. queue' = Tail(queue) \o QueueNeighbours(c)
      BY <1>1, <2>1
    <3>2. /\ QueueNeighbours(c) \in Seq(Cells)
          /\ Cellset(QueueNeighbours(c)) = Neighbours(c) \ visited
      BY WhatIsQueued
    <3>3. /\ queue' \in Seq(Cells)
          /\ Cellset(queue') = Cellset(Tail(queue)) \cup Cellset(QueueNeighbours(c))
      BY <1>3, <3>1, <3>2, Appended
    <3>4. QED
      BY <2>1, <3>2, <3>3 DEF Queued, Cellset
  <2>2. CASE ~(TileOf(c) \in Tiles \ walls)
    <3>1. queue' = Tail(queue)
      BY <1>1, <2>2
    <3>2. QED
      BY <1>3, <2>2, <3>1 DEF Queued, Cellset
  <2>3. QED
    BY <2>1, <2>2
<1>5. Queued \cup visited \subseteq Queued' \cup visited' /\ visited' \subseteq Cells
  BY <1>1, <1>3, <1>4 DEF SearchInv
<1>6. visible' = {Index(x) : x \in {y \in visited' : TileOf(y) \in Tiles}}
  BY <1>1 DEF SearchInv
<1>7. \A x \in visited' :
        TileOf(x) \in Tiles \ walls => Neighbours(x) \subseteq Queued' \cup visited'
  BY <1>1, <1>4, <1>5 DEF SearchInv
<1>8. ASSUME NEW x \in Queued' \cup visited', TileOf(x) \in Tiles
      PROVE  MustSee(TileOf(x))
  <2>1. CASE x \in Queued \cup visited
    BY <1>8, <2>1 DEF SearchInv
  <2>2. CASE x \notin Queued \cup visited
    <3>1. x \in Neighbours(c) /\ TileOf(c) \in Tiles \ walls
      BY <1>1, <1>3, <1>4, <1>8, <2>2
    <3>2. x \in Cells /\ TileOf(x) \in Next4(TileOf(c))
      <4>1. x \in Cells
        BY <3>1 DEF Neighbours
      <4>2. QED
        BY <1>3, <3>1, <4>1, NeighboursAreNext
    <3>3. TileOf(x) \in Window
      BY <1>8, <3>2 DEF Window
    <3>4. MustSee(TileOf(c))
      BY <1>3, <3>1 DEF SearchInv
    <3>5. ASSUME NEW V \in SUBSET Window, SeesOn(V) PROVE TileOf(x) \in V
      <4>1. TileOf(c) \in V \ walls
        BY <3>1, <3>4, <3>5 DEF MustSee
      <4>2. QED
        BY <3>2, <3>3, <3>5, <4>1 DEF SeesOn
    <3>6. QED
      BY <3>5 DEF MustSee
  <2>3. QED
    BY <2>1, <2>2
<1>9. Middle \in Queued' \cup visited'
  BY <1>5 DEF SearchInv
<1>10. QED
  BY <1>1, <1>2, <1>4, <1>5, <1>6, <1>7, <1>8, <1>9 DEF SearchInv, Tiles

(* The invariant of the search is inductive.                                *)
LEMMA StepLookInv ==
    ASSUME LookInv, [LookNext]_lookVars
    PROVE  LookInv'
<1> USE DEF LookInv
<1>1. CASE UpgradeVision
  <2>1. phase = "base" /\ upgraded' = TRUE /\ UNCHANGED <<walls, at, phase>>
    BY <1>1 DEF UpgradeVision, MayUpgrade
  <2>2. QED
    BY <2>1 DEF Tiles
<1>2. CASE BeginLook
  <2>1. /\ phase' = "look" /\ queue' = <<Middle>> /\ visited' = {} /\ visible' = {}
        /\ UNCHANGED <<walls, at, upgraded>>
    BY <1>2 DEF BeginLook, Middle
  <2>2. /\ Middle' = Middle /\ Cells' = Cells /\ TileOf(Middle)' = TileOf(Middle)
    BY <2>1 DEF visionRange, Cells, Middle, TileOf
  <2>3. Middle \in Cells /\ TileOf(Middle) = at
    BY CellsAreTiles
  <2>4. MustSee(at)'
    BY <2>1 DEF MustSee, SeesOn
  <2>5. queue' \in Seq(Cells) /\ Queued' = {Middle}
    <3>1. /\ <<Middle>> \in Seq(Cells) /\ Len(<<Middle>>) = 1
          /\ \A i \in 1 .. 1 : <<Middle>>[i] = Middle
      BY <2>3
    <3>2. Queued' = {queue'[i] : i \in 1 .. Len(queue')}
      BY DEF Queued, Cellset
    <3>3. Queued' = {<<Middle>>[i] : i \in 1 .. 1}
      BY <2>1, <3>1, <3>2
    <3>4. {<<Middle>>[i] : i \in 1 .. 1} = {Middle}
      BY <3>1
    <3>5. QED
      BY <2>1, <3>1, <3>3, <3>4
  <2>6. SearchInv'
    BY <2>1, <2>2, <2>3, <2>4, <2>5 DEF SearchInv
  <2>7. QED
    BY <2>1, <2>6 DEF Tiles
<1>3. CASE SkipCell \/ VisitCell
  <2>1. phase = "look" /\ UNCHANGED <<walls, at, upgraded, phase>>
    BY <1>3 DEF SkipCell, VisitCell
  <2>2. SearchInv'
    BY <1>3, <2>1, SkipSearch, VisitSearch
  <2>3. QED
    BY <2>1, <2>2 DEF Tiles
<1>4. CASE EndLook
  <2>1. /\ phase = "look" /\ queue = <<>> /\ phase' = "program"
        /\ UNCHANGED <<walls, at, upgraded, queue, visited, visible>>
    BY <1>4 DEF EndLook
  <2>2. SearchInv' <=> SearchInv
    BY <2>1 DEF SearchInv, Middle, MustSee, visionRange, Cells, Window, TileOf,
         Index, Neighbours, Queued, Cellset, SeesOn, Tiles
  <2>3. QED
    BY <2>1, <2>2 DEF Tiles
<1>5. CASE NextTurn
  <2>1. /\ phase' = "base" /\ at' \in {at} \cup (Next4(at) \cap (Tiles \ walls))
        /\ UNCHANGED <<walls, upgraded>>
    BY <1>5 DEF NextTurn
  <2>2. QED
    BY <2>1 DEF Tiles
<1>6. CASE UNCHANGED lookVars
  <2>1. UNCHANGED <<walls, at, upgraded, phase, queue, visited, visible>>
    BY <1>6 DEF lookVars
  <2>2. SearchInv' <=> SearchInv
    BY <2>1 DEF SearchInv, Middle, MustSee, visionRange, Cells, Window, TileOf,
         Index, Neighbours, Queued, Cellset, SeesOn, Tiles
  <2>3. QED
    BY <2>1, <2>2 DEF Tiles
<1>7. QED
  BY <1>1, <1>2, <1>3, <1>4, <1>5, <1>6 DEF LookNext

(* When the queue is empty, what the sensor shows is itself closed under    *)
(* seeing, and so is the least such set.                                    *)
LEMMA SearchIsRight ==
    ASSUME LookInv
    PROVE  VisionFollowsTheRule
<1> SUFFICES ASSUME phase = "program"
             PROVE  SensorView = {t \in Window : MustSee(t)}
  BY DEF VisionFollowsTheRule, MustSee
<1>1. SearchInv /\ Queued = {} /\ at \in Tiles
  <2>1. SearchInv /\ queue = <<>> /\ at \in Tiles
    BY DEF LookInv
  <2>2. Cellset(<<>>) = {}
    BY DEF Cellset
  <2>3. QED
    BY <2>1, <2>2 DEF Queued
<1>2. ASSUME NEW c \in Cells PROVE Index(c) \in visible /\ TileOf(c) \in Tiles
                                       <=> c \in visited /\ TileOf(c) \in Tiles
  <2>1. visited \subseteq Cells
        /\ visible = {Index(x) : x \in {y \in visited : TileOf(y) \in Tiles}}
    BY <1>1 DEF SearchInv
  <2>2. QED
    BY <2>1, IndexInjective
<1>3. SensorView = {TileOf(c) : c \in {x \in visited : TileOf(x) \in Tiles}}
  BY <1>1, <1>2 DEF SensorView, SearchInv
<1>4. SensorView \subseteq Window
  BY <1>1, <1>3 DEF Window, SearchInv
<1>5. \A t \in SensorView : MustSee(t)
  BY <1>1, <1>3 DEF SearchInv
<1>6. SeesOn(SensorView)
  <2>1. at \in SensorView
    BY <1>1, <1>3, CellsAreTiles DEF SearchInv
  <2>2. ASSUME NEW t \in SensorView \ walls, NEW u \in Next4(t) \cap Window
        PROVE  u \in SensorView
    <3>1. PICK c \in visited : TileOf(c) = t /\ t \in Tiles
      BY <1>3, <2>2
    <3>2. PICK d \in Cells : TileOf(d) = u /\ u \in Tiles
      BY <2>2 DEF Window
    <3>3. c \in Cells /\ Neighbours(c) \subseteq visited
      BY <1>1, <2>2, <3>1 DEF SearchInv
    <3>4. d \in visited
      BY <1>1, <2>2, <3>1, <3>2, <3>3, NeighboursAreNext
    <3>5. QED
      BY <1>3, <3>2, <3>4
  <2>3. QED
    BY <2>1, <2>2 DEF SeesOn
<1>7. QED
  BY <1>4, <1>5, <1>6 DEF MustSee

(* Whatever the map, the walls, the ranges and the upgrades, a unit that    *)
(* reads its sensor is shown the tiles of docs/rule-spec.md and no others,  *)
(* for the range it has now and the place it is at now.                     *)
THEOREM SensorIsRight == LookSpec => []VisionFollowsTheRule
<1>1. LookInit => LookInv
  BY DEF LookInit, LookInv
<1>2. LookInv /\ [LookNext]_lookVars => LookInv'
  BY StepLookInv
<1>3. LookInv => VisionFollowsTheRule
  BY SearchIsRight
<1>4. QED
  BY <1>1, <1>2, <1>3, PTL DEF LookSpec

-----------------------------------------------------------------------------
(***************************************************************************)
(* The scheduler that Rust programs run in the sandbox: Scheduler, for      *)
(* every set of tasks.                                                      *)
(***************************************************************************)
\* A task is in the list at most once, and is not there while it may be spawned.
ListInv ==
    /\ tasks \in Seq(Tasks) /\ new \subseteq Tasks /\ inTick \subseteq Tasks
    /\ polls \in [Tasks -> Nat]
    /\ \A i, j \in 1 .. Len(tasks) : tasks[i] = tasks[j] => i = j
    /\ \A i \in 1 .. Len(tasks) : tasks[i] \notin new

\* In the middle of a tick the tasks before idx have been polled, those from idx
\* on have not, and whoever was there and is gone has been polled as well.
TickInv ==
    pc = "polling" =>
        /\ idx \in 1 .. Len(tasks) + 1
        /\ \A i \in 1 .. Len(tasks) :
              tasks[i] \in inTick /\ polls[tasks[i]] = IF i < idx THEN 1 ELSE 0
        /\ \A t \in inTick : polls[t] = 1 \/ \E i \in idx .. Len(tasks) : tasks[i] = t
        /\ \A t \in Tasks \ inTick : polls[t] = 0

SchedInv == ListInv /\ TickInv /\ EachTaskOnce

(* What Vec::swap_remove leaves.                                            *)
LEMMA SwapRemoveIs ==
    ASSUME NEW s \in Seq(Tasks), NEW i \in 1 .. Len(s)
    PROVE  /\ SwapRemove(s, i) \in Seq(Tasks)
           /\ Len(SwapRemove(s, i)) = Len(s) - 1
           /\ \A j \in 1 .. Len(s) - 1 :
                 SwapRemove(s, i)[j] = IF j = i THEN s[Len(s)] ELSE s[j]
<1> DEFINE r == [s EXCEPT ![i] = s[Len(s)]]
<1>1. /\ r \in Seq(Tasks) /\ Len(r) = Len(s)
      /\ \A j \in 1 .. Len(s) : r[j] = IF j = i THEN s[Len(s)] ELSE s[j]
  OBVIOUS
<1>2. SwapRemove(s, i) = SubSeq(r, 1, Len(r) - 1)
  BY DEF SwapRemove, Front, Last
<1> HIDE DEF r
<1>3. Len(s) - 1 \in Nat /\ Len(r) - 1 <= Len(r)
  BY <1>1
<1>4. QED
  BY <1>1, <1>2, <1>3

(* Every step of the scheduler keeps its invariant: one step per action.    *)
LEMMA StepSchedInv ==
    ASSUME SchedInv, [SchedNext]_schedVars
    PROVE  SchedInv'
<1> USE DEF SchedInv
<1>1. CASE AdvanceTurn
  BY <1>1 DEF AdvanceTurn, ListInv, TickInv, EachTaskOnce
<1>2. ASSUME NEW t \in Tasks, Spawn(t)
      PROVE  SchedInv'
  <2>1. /\ pc = "idle" /\ t \in new /\ tasks' = Append(tasks, t) /\ new' = new \ {t}
        /\ UNCHANGED <<pc, inTick, polls, failed>>
    BY <1>2 DEF Spawn
  <2>2. /\ tasks' \in Seq(Tasks) /\ Len(tasks') = Len(tasks) + 1
        /\ tasks'[Len(tasks) + 1] = t
        /\ \A i \in 1 .. Len(tasks) : tasks'[i] = tasks[i]
    BY <2>1 DEF ListInv
  <2>3. ListInv'
    BY <2>1, <2>2 DEF ListInv
  <2>4. TickInv' /\ EachTaskOnce'
    BY <2>1 DEF TickInv, EachTaskOnce
  <2>5. QED
    BY <2>3, <2>4
<1>3. CASE BeginTick
  <2>1. /\ idx' = 1 /\ pc' = "polling" /\ UNCHANGED <<tasks, new>>
        /\ polls' = [t \in Tasks |-> 0]
        /\ inTick' = {tasks[i] : i \in 1 .. Len(tasks)}
    BY <1>3 DEF BeginTick, ToSet, ListInv
  <2>2. QED
    BY <2>1 DEF ListInv, TickInv, EachTaskOnce
<1>4. ASSUME NEW outcome \in Outcomes, PollTask(outcome)
      PROVE  SchedInv'
  <2> DEFINE n == Len(tasks)
             t == tasks[idx]
  <2>1. /\ pc = "polling" /\ idx <= n /\ n \in Nat /\ idx \in 1 .. n /\ t \in Tasks
        /\ \A i \in 1 .. n : tasks[i] \in Tasks
    BY <1>4 DEF PollTask, ListInv, TickInv
  <2>2. /\ inTick' = inTick /\ pc' = IF outcome = "error" THEN "idle" ELSE "polling"
        /\ outcome = "error" => failed'
    BY <1>4 DEF PollTask
  <2>3. t \in inTick /\ polls[t] = 0
    BY <2>1 DEF TickInv
  <2>4. /\ polls' \in [Tasks -> Nat] /\ polls'[t] = 1
        /\ \A u \in Tasks \ {t} : polls'[u] = polls[u]
    BY <1>4, <2>1, <2>3 DEF PollTask, ListInv
  <2>5. CASE outcome = "pending"
    <3>1. tasks' = tasks /\ new' = new /\ idx' = idx + 1 /\ pc' = "polling" /\ inTick' = inTick
      BY <1>4, <2>5 DEF PollTask, AfterPoll
    <3>2. ListInv'
      BY <2>4, <3>1 DEF ListInv
    <3>3. TickInv'
      <4>1. \A i \in 1 .. n : i # idx => tasks[i] # t
        BY <2>1 DEF ListInv
      <4>2. \A i \in 1 .. n : polls'[tasks[i]] = IF i < idx + 1 THEN 1 ELSE 0
        BY <2>1, <2>4, <4>1 DEF TickInv
      <4>3. \A u \in inTick : polls'[u] = 1 \/ \E i \in idx + 1 .. n : tasks[i] = u
        BY <2>1, <2>4 DEF ListInv, TickInv
      <4>4. \A u \in Tasks \ inTick : polls'[u] = 0
        BY <2>1, <2>3, <2>4 DEF TickInv
      <4>5. QED
        BY <2>1, <3>1, <4>2, <4>3, <4>4 DEF TickInv
    <3>4. QED
      BY <3>1, <3>2, <3>3 DEF EachTaskOnce
  <2>6. CASE outcome # "pending"
    <3>1. tasks' = SwapRemove(tasks, idx) /\ new' = new \cup {t} /\ idx' = idx
      BY <1>4, <2>6 DEF PollTask, AfterPoll
    <3>2. /\ tasks' \in Seq(Tasks) /\ Len(tasks') = n - 1
          /\ \A j \in 1 .. n - 1 : tasks'[j] = IF j = idx THEN tasks[n] ELSE tasks[j]
      BY <2>1, <3>1, SwapRemoveIs DEF ListInv
    <3>3. ListInv'
      <4> DEFINE From(j) == IF j = idx THEN n ELSE j
      <4>1. \A j \in 1 .. n - 1 : From(j) \in 1 .. n /\ From(j) # idx
        BY <2>1
      <4>2. \A i, j \in 1 .. n - 1 : From(i) = From(j) => i = j
        BY <2>1
      <4>3. \A j \in 1 .. n - 1 : tasks'[j] = tasks[From(j)]
        BY <3>2
      <4> HIDE DEF From
      <4>4. \A j \in 1 .. n - 1 : tasks'[j] # t
        BY <2>1, <4>1, <4>3 DEF ListInv
      <4>5. \A i, j \in 1 .. n - 1 : tasks'[i] = tasks'[j] => i = j
        BY <4>1, <4>2, <4>3 DEF ListInv
      <4>6. \A j \in 1 .. n - 1 : tasks'[j] \notin new'
        BY <3>1, <4>1, <4>3, <4>4 DEF ListInv
      <4>7. QED
        BY <2>1, <2>2, <2>4, <3>1, <3>2, <4>5, <4>6 DEF ListInv
    <3>4. CASE outcome = "ready"
      <4>1. pc' = "polling"
        BY <2>2, <3>4
      <4>2. idx' \in 1 .. Len(tasks') + 1
        BY <2>1, <3>1, <3>2
      <4>3. \A j \in 1 .. n - 1 :
              tasks'[j] \in inTick /\ polls'[tasks'[j]] = IF j < idx THEN 1 ELSE 0
        <5> SUFFICES ASSUME NEW j \in 1 .. n - 1
                     PROVE  tasks'[j] \in inTick /\ polls'[tasks'[j]] = IF j < idx THEN 1 ELSE 0
          OBVIOUS
        <5>1. PICK k \in 1 .. n : tasks'[j] = tasks[k] /\ (k < idx <=> j < idx) /\ k # idx
          BY <2>1, <3>2
        <5>2. tasks[k] # t
          BY <2>1, <5>1 DEF ListInv
        <5>3. QED
          BY <2>1, <2>4, <5>1, <5>2 DEF TickInv
      <4>4. ASSUME NEW u \in inTick
            PROVE  polls'[u] = 1 \/ \E j \in idx .. n - 1 : tasks'[j] = u
        <5>1. CASE u = t
          BY <2>4, <5>1
        <5>2. CASE u # t /\ polls[u] = 1
          BY <2>4, <5>2 DEF ListInv
        <5>3. CASE u # t /\ polls[u] # 1
          <6>1. PICK k \in idx .. n : tasks[k] = u
            BY <2>1, <5>3 DEF TickInv
          <6>2. CASE k < n
            <7>1. tasks'[k] = u /\ k \in idx .. n - 1
              BY <2>1, <3>2, <5>3, <6>1, <6>2
            <7>2. QED
              BY <7>1
          <6>3. CASE k = n
            <7>1. idx \in 1 .. n - 1 /\ tasks'[idx] = u
              BY <2>1, <3>2, <5>3, <6>1, <6>3
            <7>2. QED
              BY <7>1
          <6>4. QED
            BY <2>1, <6>1, <6>2, <6>3
        <5>4. QED
          BY <5>1, <5>2, <5>3
      <4>5. \A u \in Tasks \ inTick : polls'[u] = 0
        BY <2>1, <2>3, <2>4 DEF TickInv
      <4>6. TickInv'
        BY <2>2, <3>1, <3>2, <4>2, <4>3, <4>4, <4>5 DEF TickInv
      <4>7. QED
        BY <3>3, <4>1, <4>6 DEF EachTaskOnce
    <3>5. CASE outcome = "error"
      BY <2>2, <3>3, <3>5 DEF TickInv, EachTaskOnce
    <3>6. QED
      BY <2>6, <3>4, <3>5 DEF Outcomes
  <2>7. QED
    BY <2>5, <2>6
<1>5. CASE EndTick
  <2>1. /\ pc = "polling" /\ idx > Len(tasks) /\ pc' = "idle"
        /\ UNCHANGED <<tasks, new, inTick, polls>>
    BY <1>5 DEF EndTick
  <2>2. QED
    BY <2>1 DEF ListInv, TickInv, EachTaskOnce
<1>6. CASE UNCHANGED schedVars
  BY <1>6 DEF schedVars, ListInv, TickInv, EachTaskOnce
<1>7. QED
  BY <1>1, <1>2, <1>3, <1>4, <1>5, <1>6 DEF SchedNext, Tick

(* "Poll all tasks once if turn advanced": for any number of tasks, and     *)
(* wherever in a tick the turn advances, a tick that returns no error has   *)
(* polled each task that was there exactly once.                            *)
THEOREM PollsOnce == SchedSpec => []EachTaskOnce
<1>1. SchedInit => SchedInv
  BY DEF SchedInit, SchedInv, ListInv, TickInv, EachTaskOnce
<1>2. SchedInv => EachTaskOnce
  BY DEF SchedInv
<1>3. QED
  BY <1>1, <1>2, StepSchedInv, PTL DEF SchedSpec
=============================================================================
