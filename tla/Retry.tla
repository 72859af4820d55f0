-------------------------------- MODULE Retry --------------------------------
(***************************************************************************)
(* Blocking calls that loop: rt_mb_send_wait, rt_mb_recv, rt_mq_recv,      *)
(* rt_mp_alloc, rt_data_queue_push and rt_data_queue_pop.  A thread that   *)
(* is woken owns nothing yet: it disables interrupts again, looks whether  *)
(* what it waits for is still there, and otherwise waits for what is left  *)
(* of its time.                                                            *)
(***************************************************************************)
EXTENDS Ipc

VARIABLES
    left,    \* the waiting time of the call in progress, as far as it matters
    item     \* the mail, message, block or data in a thread's hands, or None

Times == {"zero", "finite", "forever"}

RetryInit ==
    /\ left = [t \in Threads |-> "zero"]
    /\ item = [t \in Threads |-> None]

\* timeout -= rt_tick_get() - tick_delta, not below 0: a finite time may be
\* used up by now or not, forever stays forever.
TimeLeft(time) == IF time = "finite" THEN {"finite", "zero"} ELSE {time}

\* One turn of the loop: error code reset, suspended on w, timer started.
WaitOn(ks, w, t, flag, time) ==
    StartTimer(rt_ipc_list_suspend([ks EXCEPT !.err[t] = "EOK"], w, t, flag), t, time)

\* Thread t, in a call on o, waits on list w with v in its hands.
Block(t, o, w, flag, time, v, p) ==
    /\ time # "zero"
    /\ k' = WaitOn(k, w, t, flag, time)
    /\ Proceed(t, o, p)
    /\ left' = [left EXCEPT ![t] = time]
    /\ item' = [item EXCEPT ![t] = v]

\* The call is over, but for what is done at p.
LeaveVia(t, p) ==
    /\ Proceed(t, None, p)
    /\ left' = [left EXCEPT ![t] = "zero"]
    /\ item' = [item EXCEPT ![t] = None]

Leave(t) == LeaveVia(t, "run")

\* The end of a call that made something available to the threads on w: one of
\* them is woken, interrupts are enabled and rt_schedule is called.
WakeAndLeave(t, w) ==
    IF k.wait[w] # <<>>
    THEN k' = rt_ipc_list_resume(k, w) /\ LeaveVia(t, "ret_sched")
    ELSE UNCHANGED k /\ Leave(t)

\* The same from an interrupt handler.
IsrWake(w) ==
    k' = IF k.wait[w] # <<>> THEN rt_schedule(rt_ipc_list_resume(k, w)) ELSE k

\* The code after rt_schedule: an error code ends the call.
Failed(t) == k.err[t] # "EOK" /\ Leave(t) /\ UNCHANGED k

\* The time is up when the woken thread finds nothing.
TimedOut(t, time) ==
    /\ time = "zero"
    /\ k' = [k EXCEPT !.err[t] = "ETIMEOUT"]
    /\ Leave(t)

\* Threads of a call on o that were woken to look again and have not yet done
\* so; places are the call's places from the suspension to the next look.
Looking(o, places) ==
    {t \in Threads : /\ pc[t] \in places
                     /\ arg[t] = o
                     /\ k.err[t] = "EOK"
                     /\ \A w \in WaitLists : t \notin ToSet(k.wait[w])}
=============================================================================
