----------------------------- MODULE MCServices -----------------------------
(* Instances of Services: an urgent thread, another one below it, and one  *)
(* object of each kind.                                                    *)
EXTENDS Services

CONSTANTS high, a, idle, b1, q1, e1, p1, c1, d1

SmallPrio == (high :> 0) @@ (a :> 1) @@ (idle :> 2)
SmallReady == (0 :> <<high>>) @@ (1 :> <<a>>) @@ (2 :> <<idle>>)

KernelObjects == {b1, q1, e1, p1, d1, c1}
KernelLists == {b1, <<b1, "send">>, q1, e1, p1, c1, <<d1, "pop">>, <<d1, "push">>}

TwoBitAsks == {[set |-> {1, 2}, op |-> "AND", clear |-> TRUE],
               [set |-> {1}, op |-> "OR", clear |-> TRUE],
               [set |-> {1, 2}, op |-> "OR", clear |-> FALSE]}
=============================================================================
