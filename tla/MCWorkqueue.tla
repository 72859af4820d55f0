----------------------------- MODULE MCWorkqueue -----------------------------
(* Instances of Workqueue: the work thread above two clients.              *)
EXTENDS Workqueue

CONSTANTS worker, a, b, idle, q

MCInitPrio == (worker :> 0) @@ (a :> 1) @@ (b :> 1) @@ (idle :> 2)

TwoClients == (0 :> <<worker>>) @@ (1 :> <<a, b>>) @@ (2 :> <<idle>>)
=============================================================================
