------------------------------ MODULE MCLogger ------------------------------
(***************************************************************************)
(* The logger, its streams in memory and the files of one stream: these    *)
(* two share no state, and each behaviour is one of one of them.  The      *)
(* other stays as it begins, except that the worker, which is fair, goes   *)
(* to sleep before the files begin: then fairness asks nothing of it.      *)
(***************************************************************************)
EXTENDS LogWorker, LogRotate

VARIABLE side

allVars == <<side, vars, rotateVars>>

LoggerInit ==
    /\ side \in {"memory", "files"}
    /\ Init /\ RotateInit
    /\ side = "memory" => compress

LoggerNext ==
    \/ side = "memory" /\ Next /\ UNCHANGED <<side, rotateVars>>
    \/ side = "files" /\ ~is_wait /\ Worker /\ UNCHANGED <<side, rotateVars>>
    \/ side = "files" /\ is_wait /\ RotateNext /\ UNCHANGED <<side, vars>>

LoggerSpec == LoggerInit /\ [][LoggerNext]_allVars /\ Fairness /\ RotateFairness
=============================================================================
