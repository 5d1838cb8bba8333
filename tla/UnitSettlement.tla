--------------------------- MODULE UnitSettlement ---------------------------
(***************************************************************************)
(* What the execution of a stage promises: every unit asked for gets one   *)
(* answer, one that its own behaviour allows, and keeps it; how the other  *)
(* units behave does not matter.  A stage that is over, or abandoned with  *)
(* its process, is forgotten.                                              *)
(***************************************************************************)
CONSTANTS Units, Answers, NoAnswer

VARIABLES
  asked,     \* the units of the stage
  may,       \* the answers the behaviour of each unit allows
  answer

vars == <<asked, may, answer>>

Unanswered == [u \in Units |-> NoAnswer]

Init ==
  /\ asked = {}
  /\ may \in [Units -> SUBSET Answers]
  /\ answer = Unanswered

Ask ==
  /\ asked' \subseteq Units
  /\ may' \in [Units -> SUBSET Answers]
  /\ answer' = Unanswered

Settle ==
  /\ answer' \in [Units -> Answers \cup {NoAnswer}]
  /\ \A u \in Units : answer'[u] # answer[u] =>
       u \in asked /\ answer[u] = NoAnswer /\ answer'[u] \in may[u]
  /\ UNCHANGED <<asked, may>>

Next == Ask \/ Settle

Spec == Init /\ [][Next]_vars
=============================================================================
