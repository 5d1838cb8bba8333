---------------------------- MODULE MCStageRunner ----------------------------
(* Instances of StageRunner for TLC: the values that need an expression.   *)
EXTENDS StageRunner

\* rule 1 raises or crashes at times, the prepare of rule 2 may be unable to
\* answer and its check always crashes, the others do their work
SomeCrash ==
  [s \in Stages |-> [r \in Rules |->
     CASE r = 1 /\ s = "prepare" -> {"good", "raises", "flaky"}
       [] r = 1 /\ s = "inspect" -> {"good", "flaky"}
       [] r = 2 /\ s = "prepare" -> {"good", "unsendable"}
       [] r = 2 /\ s = "inspect" -> {"kills"}
       [] OTHER -> {"good"}]]

OneFlaky == [s \in Stages |-> [r \in Rules |-> IF r = 1 THEN {"good", "flaky"} ELSE {"good"}]]

AllMatch == [r \in Rules |-> {"some"}]
\* the patterns of the second rule may be rejected, those of the last find nothing
SomeMatch ==
  [r \in Rules |-> IF r = 2 THEN {"some", "bad"} ELSE IF r = N THEN {"some", "none"} ELSE {"some"}]
=============================================================================
