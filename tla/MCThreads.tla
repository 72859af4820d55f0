------------------------------ MODULE MCThreads ------------------------------
(* Instances of Threads: a manager, two workers and the idle thread.       *)
(* Worker w2 is not started at boot.                                       *)
EXTENDS Threads

CONSTANTS mgr, w1, w2, idle

\* The manager is more urgent than its workers.
AbovePrio == (mgr :> 0) @@ (w1 :> 1) @@ (w2 :> 1) @@ (idle :> 2)
AboveReady == (0 :> <<mgr>>) @@ (1 :> <<w1>>) @@ (2 :> <<idle>>)

\* The manager shares its priority with one worker.
LevelPrio == (mgr :> 1) @@ (w1 :> 1) @@ (w2 :> 0) @@ (idle :> 2)
LevelReady == (0 :> <<>>) @@ (1 :> <<mgr, w1>>) @@ (2 :> <<idle>>)
=============================================================================
