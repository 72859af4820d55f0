-------------------------------- MODULE Event --------------------------------
(***************************************************************************)
(* The event set of src/ipc.c.  A receiver waits for all (AND) or any (OR) *)
(* of some bits and may ask for them to be cleared (CLEAR).  A send walks  *)
(* the waiters in list order, and what it clears for one of them is gone   *)
(* for those behind.                                                       *)
(***************************************************************************)
EXTENDS Retry

CONSTANTS
    Events,      \* the objects that are events
    Bits,        \* the bits of event->set
    EvSends,     \* the sets given to rt_event_send
    EvAsks,      \* what receivers ask for: set, AND or OR, with or without CLEAR
    EvFlag,      \* RT_IPC_FLAG_FIFO or RT_IPC_FLAG_PRIO
    EvTimes      \* waiting times given to rt_event_recv

Ask == [set : SUBSET Bits, op : {"AND", "OR"}, clear : BOOLEAN]

ASSUME EventAssumption ==
    /\ Events \subseteq Objects \intersect WaitLists
    /\ EvSends \subseteq (SUBSET Bits) \ {{}}
    /\ EvAsks \subseteq {a \in Ask : a.set # {}}
    /\ EvFlag \in {"FIFO", "PRIO"}
    /\ EvTimes \subseteq Times

VARIABLES
    set,     \* event->set
    info,    \* thread->event_set and thread->event_info, of use during a call
    owed     \* per bit: times it was raised minus times a receiver cleared it

EvPlaces == {"ev_sched", "ev_woken", "evd_test", "evd_wake"}

Nothing == [set |-> {}, op |-> "OR", clear |-> FALSE]

\* rt_event_init and rt_event_create.
EvInit ==
    /\ set = [e \in Events |-> {}]
    /\ info = [t \in Threads |-> Nothing]
    /\ owed = [e \in Events |-> [b \in Bits |-> 0]]

evVars == <<set, info, owed>>

Satisfied(ask, bits) ==
    IF ask.op = "AND" THEN ask.set \subseteq bits ELSE ask.set \intersect bits # {}

\* t was woken by a send and has yet to return from rt_event_recv.
Notified(t, e) ==
    /\ pc[t] \in {"ev_sched", "ev_woken"}
    /\ arg[t] = e
    /\ k.err[t] = "EOK"
    /\ t \notin ToSet(k.wait[e])

\* The receivers that cleared bit b for themselves and have yet to return.
Holding(e, b) == {t \in Threads : Notified(t, e) /\ info[t].clear /\ b \in info[t].set}

-----------------------------------------------------------------------------
(* rt_event_send                                                           *)

\* Mutation: the walk does not clear what it gives away.
Visit_KeepsBits(w, t) ==
    LET got == IF w.info[t].op = "AND" THEN w.info[t].set ELSE w.info[t].set \intersect w.set
    IN  IF Satisfied(w.info[t], w.set)
        THEN [ks   |-> rt_thread_resume(w.ks, t),
              set  |-> w.set,
              info |-> [w.info EXCEPT ![t].set = got]]
        ELSE w

\* One turn of the walk: a satisfied waiter remembers what it got (OR), clears
\* it if it asked to, and is resumed.
Visit(w, t) ==
    LET got == IF w.info[t].op = "AND" THEN w.info[t].set ELSE w.info[t].set \intersect w.set
    IN  IF Satisfied(w.info[t], w.set)
        THEN [ks   |-> rt_thread_resume(w.ks, t),
              set  |-> IF w.info[t].clear THEN w.set \ got ELSE w.set,
              info |-> [w.info EXCEPT ![t].set = got]]
        ELSE w

\* Mutation: the walk ends at the first waiter.
Walk_First(e, bits) ==
    LET from == [ks |-> k, set |-> set[e] \union bits, info |-> info]
    IN  IF k.wait[e] = <<>> THEN from ELSE Visit(from, Head(k.wait[e]))

\* The walk along the list of waiters as it was when the send began; turn[n] is
\* the state after n waiters.
Walk(e, bits) ==
    LET turn[n \in 0 .. Len(k.wait[e])] ==
            IF n = 0 THEN [ks |-> k, set |-> set[e] \union bits, info |-> info]
            ELSE Visit(turn[n - 1], k.wait[e][n])
    IN  turn[Len(k.wait[e])]

\* The bits that were not up already count as raised.
Raise(e, bits) ==
    LET w == Walk(e, bits)
    IN  /\ set' = [set EXCEPT ![e] = w.set]
        /\ info' = w.info
        /\ owed' = [owed EXCEPT ![e] = [b \in Bits |->
                       IF b \in bits \ set[e] THEN @[b] + 1 ELSE @[b]]]

rt_event_send(t, e, bits) ==
    /\ Calls(t, e)
    /\ Raise(e, bits)
    /\ k' = Walk(e, bits).ks
    /\ IF k' # k THEN Go(t, "ret_sched") ELSE UNCHANGED pc
    /\ UNCHANGED <<isr, arg, alive>>

IsrSendEvent(e, bits) ==
    /\ isr = "none"
    /\ e \in alive
    /\ Raise(e, bits)
    /\ k' = IF Walk(e, bits).ks # k THEN rt_schedule(Walk(e, bits).ks) ELSE k
    /\ UNCHANGED <<isr, pc, arg, alive>>

-----------------------------------------------------------------------------
(* rt_event_recv                                                           *)

\* The bits the caller got, if it asked for CLEAR, count as cleared.
Clears(e, ask, got) ==
    owed' = [owed EXCEPT ![e] = [b \in Bits |->
                IF ask.clear /\ b \in got THEN @[b] - 1 ELSE @[b]]]

RecvNow(t, e, ask) ==
    /\ Satisfied(ask, set[e])
    /\ set' = IF ask.clear THEN [set EXCEPT ![e] = @ \ ask.set] ELSE set
    /\ Clears(e, ask, ask.set \intersect set[e])
    /\ k' = ResetError(t)
    /\ UNCHANGED <<pc, arg, info>>

RecvNothing(t, e, ask, time) ==
    /\ ~Satisfied(ask, set[e])
    /\ time = "zero"
    /\ k' = [k EXCEPT !.err[t] = "ETIMEOUT"]
    /\ UNCHANGED <<pc, arg, set, info, owed>>

EvBlock(t, e, ask, time) ==
    /\ ~Satisfied(ask, set[e])
    /\ time # "zero"
    /\ info' = [info EXCEPT ![t] = ask]
    /\ k' = WaitOn(k, e, t, EvFlag, time)
    /\ Proceed(t, e, "ev_sched")
    /\ UNCHANGED <<set, owed>>

rt_event_recv(t, e, ask, time) ==
    /\ Calls(t, e)
    /\ \/ RecvNow(t, e, ask)
       \/ RecvNothing(t, e, ask, time)
       \/ EvBlock(t, e, ask, time)
    /\ UNCHANGED <<isr, alive>>

\* What the thread got was decided by the send that woke it.
EvReturn(t) ==
    /\ At(t, "ev_woken")
    /\ IF k.err[t] = "EOK"
       THEN Clears(arg[t], info[t], info[t].set)
       ELSE UNCHANGED owed
    /\ info' = [info EXCEPT ![t] = Nothing]
    /\ Return(t)
    /\ UNCHANGED <<k, isr, alive, set>>

-----------------------------------------------------------------------------
\* rt_event_control(RT_IPC_CMD_RESET).
rt_event_control(t, e) ==
    /\ Calls(t, e)
    /\ k' = rt_ipc_list_resume_all(k, e)
    /\ set' = [set EXCEPT ![e] = {}]
    /\ owed' = [owed EXCEPT ![e] = [b \in Bits |-> Cardinality(Holding(e, b))]]
    /\ Go(t, "ret_sched")
    /\ UNCHANGED <<isr, arg, alive, info>>

\* rt_event_detach and rt_event_delete.
rt_event_detach(t, e) == DetachCall(t, e, "evd_test")

EvDetachSteps(t) ==
    \/ ResumeAllTest(t, arg[t], "evd_test", "evd_wake", "det_object")
    \/ ResumeAllWake(t, arg[t], "evd_wake", "evd_test")

-----------------------------------------------------------------------------
EvCall(t) ==
    \E e \in Events :
        \/ \E bits \in EvSends : rt_event_send(t, e, bits)
        \/ \E ask \in EvAsks, time \in EvTimes : rt_event_recv(t, e, ask, time)
        \/ rt_event_control(t, e)
        \/ rt_event_detach(t, e) /\ UNCHANGED evVars

EvStep(t) ==
    \/ EvReturn(t)
    \/ (Resched(t, "ev_sched", "ev_woken") \/ EvDetachSteps(t)) /\ UNCHANGED evVars

EvIsr == \E e \in Events, bits \in EvSends : IsrSendEvent(e, bits)

-----------------------------------------------------------------------------
EvTypeOK ==
    /\ set \in [Events -> SUBSET Bits]
    /\ info \in [Threads -> Ask]
    /\ owed \in [Events -> [Bits -> Nat]]

\* No waiter is left behind: a thread on the list never waits for bits that
\* are there, although a send clears bits while it walks the list and waiters
\* leave by timeout.
NoSatisfiedWaiter ==
    \A e \in Events : \A t \in ToSet(k.wait[e]) : ~Satisfied(info[t], set[e])

\* An event is used up once: a bit that was raised is still up, or was cleared
\* for exactly one receiver that asked for CLEAR, on its way back or returned.
BitsConserved ==
    \A e \in Events, b \in Bits :
        owed[e][b] = (IF b \in set[e] THEN 1 ELSE 0) + Cardinality(Holding(e, b))
=============================================================================
