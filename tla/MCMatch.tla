------------------------------ MODULE MCMatch ------------------------------
(* The events a turn may raise besides the capture condition: none, any one  *)
(* of them, or a small and a large one at once.                              *)
EXTENDS Match

MCEventSets ==
    {{}} \cup {{e} : e \in Events \ {"base_entered_capture_condition"}}
         \cup {{"unit_left_base", "unit_destroyed"}}
=============================================================================
