------------------------------- MODULE MCMutex -------------------------------
(* Instances of Mutex: one thread per priority, the idle thread lowest.    *)
EXTENDS Mutex

CONSTANTS high, mid, low, idle, m1, m2

MCInitPrio == (high :> 0) @@ (mid :> 1) @@ (low :> 2) @@ (idle :> 3)
MCBootReady == (0 :> <<high>>) @@ (1 :> <<mid>>) @@ (2 :> <<low>>) @@ (3 :> <<idle>>)
=============================================================================
