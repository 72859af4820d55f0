------------------------------ MODULE MCTimer ------------------------------
(* Instances of Timer: hard timers h1 and h2, soft timers s1 and s2, one *)
(* caller that does not preempt the timer thread.                         *)
EXTENDS Timer, TLC

CONSTANTS h1, h2, s1, s2, c, tt

OneOrTwo == (h1 :> {1, 2}) @@ (h2 :> {2}) @@ (s1 :> {1}) @@ (s2 :> {2})

FirstPeriodic == [t \in Timers |-> IF t \in {h2, s2} THEN {{}} ELSE {{}, {"PERIODIC"}}]

HardAndOwn == {<<h1, h1>>, <<h1, h2>>, <<h2, h2>>, <<s1, s1>>}
SoftOther == {<<s1, s2>>}
=============================================================================
