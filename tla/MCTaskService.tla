--------------------------- MODULE MCTaskService ---------------------------
(* Instances of TaskService for TLC: the values that need an expression.   *)
EXTENDS TaskService, TLC

AllRequests       == RequestKinds
CreateOnly        == {"create"}
CreateFull        == {"create", "full"}
CreateDeleteFull  == {"create", "delete", "full"}
CreateIncremental == {"create", "delete", "incremental"}
Repeats           == {"create", "rerun", "rules", "full", "device"}

AllFaults     == FaultKinds
NoFaults      == {}
NoCopyFault   == FaultKinds \ {"copy"}
NoDeleteFault == FaultKinds \ {"delete"}

\* handlers are interchangeable, and so are tasks
HandlerSymmetry == Permutations(Handlers)
TaskSymmetry    == Permutations(Tasks)
=============================================================================
