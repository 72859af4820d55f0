----------------------------- MODULE MCSemaphore -----------------------------
(* Instances of Semaphore: an urgent thread and two of equal priority, so  *)
(* that the time slice matters, above the idle thread; and one without b.  *)
EXTENDS Semaphore

CONSTANTS high, a, b, idle, s1

FullPrio == (high :> 0) @@ (a :> 1) @@ (b :> 1) @@ (idle :> 2)
FullReady == (0 :> <<high>>) @@ (1 :> <<a, b>>) @@ (2 :> <<idle>>)

SmallPrio == (high :> 0) @@ (a :> 1) @@ (idle :> 2)
SmallReady == (0 :> <<high>>) @@ (1 :> <<a>>) @@ (2 :> <<idle>>)
=============================================================================
