------------------------------- MODULE Kernel -------------------------------
(***************************************************************************)
(* The uniprocessor kernel core of RT-Thread: the ready queue and bitmap   *)
(* of src/scheduler.c, the thread states of src/thread.c, the intrusive    *)
(* list node `tlist' by which a thread sits on one list at a time, the     *)
(* suspend/resume helpers of src/ipc.c and the tick interrupt.             *)
(*                                                                         *)
(* The whole control-block state is one record k.  Every C function that   *)
(* runs with interrupts disabled is an operator from kernel states to      *)
(* kernel states, so that a caller which makes several such calls inside   *)
(* one critical section composes the operators into one atomic step.       *)
(*                                                                         *)
(*   k.stat[t]   thread->stat & RT_THREAD_STAT_MASK                        *)
(*   k.prio[t]   thread->current_priority                                  *)
(*   k.err[t]    thread->error                                             *)
(*   k.ready[p]  rt_thread_priority_table[p], head first                   *)
(*   k.group     rt_thread_ready_priority_group, as the set of its bits    *)
(*   k.wait[w]   the suspend_thread list of IPC object (or queue end) w    *)
(*   k.defunct   rt_thread_defunct                                         *)
(*   k.timers    threads whose thread_timer is linked and ACTIVATED        *)
(*   k.cur       rt_current_thread                                         *)
(*   k.lock      rt_scheduler_lock_nest                                    *)
(*                                                                         *)
(* isr is the tick interrupt's progress: "none" when no interrupt is being *)
(* served, "tick" while rt_timer_check walks the expired timers, "timeout" *)
(* inside the timeout function of one.  Threads take steps only when isr   *)
(* is "none".                                                              *)
(***************************************************************************)
EXTENDS Integers, SequencesExt

CONSTANTS
    Threads,                 \* thread control blocks, Idle among them
    Idle,                    \* the idle thread of src/idle.c
    WaitLists,               \* list heads of the IPC objects in the model
    RT_THREAD_PRIORITY_MAX,  \* number of priorities; 0 is the most urgent
    InitPrio,                \* thread->init_priority
    BootReady                \* the ready queues when the scheduler starts

Prio == 0 .. (RT_THREAD_PRIORITY_MAX - 1)

ASSUME KernelAssumption ==
    /\ RT_THREAD_PRIORITY_MAX \in Nat \ {0}
    /\ IsFiniteSet(Threads)
    /\ Idle \in Threads
    /\ InitPrio \in [Threads -> Prio]
    /\ InitPrio[Idle] = RT_THREAD_PRIORITY_MAX - 1
    /\ BootReady \in [Prio -> Seq(Threads)]
    /\ \A p \in Prio : IsInjective(BootReady[p])
    /\ \A p \in Prio : \A t \in ToSet(BootReady[p]) : InitPrio[t] = p
    /\ Idle \in ToSet(BootReady[InitPrio[Idle]])

VARIABLES k, isr

Stat == {"init", "ready", "suspend", "running", "close"}

Errno == {"EOK", "ETIMEOUT", "ERROR", "EINTR"}

KernelState ==
    [stat : [Threads -> Stat], prio : [Threads -> Prio],
     err : [Threads -> Errno],
     ready : [Prio -> Seq(Threads)], group : SUBSET Prio,
     wait : [WaitLists -> Seq(Threads)], defunct : Seq(Threads),
     timers : SUBSET Threads, cur : Threads, lock : Nat]

-----------------------------------------------------------------------------
(* Lists.                                                                  *)

\* rt_list_remove(&thread->tlist): the node leaves whichever list it is on.
Unlink(ks, t) ==
    [ks EXCEPT !.ready   = [p \in Prio |-> RemoveFirst(ks.ready[p], t)],
               !.wait    = [w \in WaitLists |-> RemoveFirst(ks.wait[w], t)],
               !.defunct = RemoveFirst(ks.defunct, t)]

-----------------------------------------------------------------------------
(* src/scheduler.c                                                         *)

rt_schedule_insert_thread(ks, t) ==
    IF t = ks.cur
    THEN [ks EXCEPT !.stat[t] = "running"]
    ELSE [ks EXCEPT !.stat[t] = "ready",
                    !.ready[ks.prio[t]] = Append(@, t),
                    !.group = @ \union {ks.prio[t]}]

rt_schedule_remove_thread(ks, t) ==
    LET u == Unlink(ks, t)
    IN  IF u.ready[ks.prio[t]] = <<>>
        THEN [u EXCEPT !.group = @ \ {ks.prio[t]}]
        ELSE u

\* _get_highest_priority_thread: __rt_ffs of the bitmap gives the priority,
\* the head of that queue is the thread.
HighestThread(ks) == Head(ks.ready[Min(ks.group)])

\* rt_system_scheduler_start: the first switch, from no thread.
rt_system_scheduler_start(ks) ==
    LET to == HighestThread(ks)
    IN  [rt_schedule_remove_thread([ks EXCEPT !.cur = to], to)
            EXCEPT !.stat[to] = "running"]

\* The current thread keeps the processor if it is still running and more
\* urgent than every ready thread.
Stays(ks) ==
    ks.stat[ks.cur] = "running" /\ ks.prio[ks.cur] < Min(ks.group)

\* The switch inside rt_schedule: a running thread goes back to the tail of
\* its queue, and thread `to' leaves its own.
SwitchTo(ks, to) ==
    LET away == [ks EXCEPT !.cur = to]
        back == IF ks.stat[ks.cur] = "running"
                THEN rt_schedule_insert_thread(away, ks.cur)
                ELSE away
    IN  [rt_schedule_remove_thread(back, to) EXCEPT !.stat[to] = "running"]

rt_schedule(ks) ==
    IF ks.lock # 0 \/ ks.group = {}
    THEN ks
    ELSE LET to == IF Stays(ks) THEN ks.cur ELSE HighestThread(ks)
         IN  IF to # ks.cur
             THEN SwitchTo(ks, to)
             ELSE [rt_schedule_remove_thread(ks, to)
                      EXCEPT !.stat[to] = "running"]

\* The system as rt_system_scheduler_start leaves it: the threads started
\* during the boot are ready in the order of their startup, the first of the
\* most urgent ones runs.
Booted ==
    rt_system_scheduler_start(
        [stat |-> [t \in Threads |-> IF t \in ToSet(BootReady[InitPrio[t]])
                                     THEN "ready" ELSE "init"],
         prio |-> InitPrio, err |-> [t \in Threads |-> "EOK"],
         ready |-> BootReady, group |-> {p \in Prio : BootReady[p] # <<>>},
         wait |-> [w \in WaitLists |-> <<>>], defunct |-> <<>>,
         timers |-> {}, cur |-> Idle, lock |-> 0])

-----------------------------------------------------------------------------
(* src/thread.c                                                            *)

\* rt_thread_suspend: refused unless the thread is ready or running.
rt_thread_suspend(ks, t) ==
    IF ks.stat[t] \in {"ready", "running"}
    THEN [rt_schedule_remove_thread(ks, t)
             EXCEPT !.stat[t] = "suspend", !.timers = @ \ {t}]
    ELSE ks

\* Mutation: rt_timer_stop is forgotten.
rt_thread_resume_KeepsTimer(ks, t) ==
    IF ks.stat[t] = "suspend"
    THEN rt_schedule_insert_thread(Unlink(ks, t), t)
    ELSE ks

\* rt_thread_resume: refused unless the thread is suspended.
rt_thread_resume(ks, t) ==
    IF ks.stat[t] = "suspend"
    THEN rt_schedule_insert_thread(
            [Unlink(ks, t) EXCEPT !.timers = @ \ {t}], t)
    ELSE ks

\* Mutation: rt_list_remove is forgotten, the waiter stays on its list.
rt_thread_timeout_StaysLinked(ks, t) ==
    rt_schedule_insert_thread(
        [ks EXCEPT !.err[t] = "ETIMEOUT", !.timers = @ \ {t}], t)

\* rt_thread_timeout up to its call of rt_schedule; rt_timer_check has taken
\* the timer off its list.
rt_thread_timeout(ks, t) ==
    rt_schedule_insert_thread(
        [Unlink(ks, t) EXCEPT !.err[t] = "ETIMEOUT", !.timers = @ \ {t}], t)

\* Mutation: a ready thread is left on the queue of its old priority.
ChangePriority_InPlace(ks, t, p) == [ks EXCEPT !.prio[t] = p]

\* rt_thread_control(RT_THREAD_CTRL_CHANGE_PRIORITY).
ChangePriority(ks, t, p) ==
    IF ks.stat[t] = "ready"
    THEN rt_schedule_insert_thread(
            [rt_schedule_remove_thread(ks, t) EXCEPT !.prio[t] = p], t)
    ELSE [ks EXCEPT !.prio[t] = p]

-----------------------------------------------------------------------------
(* Suspend lists of src/ipc.c                                              *)

\* Mutation: the comparison of the priorities is the wrong way round.
Position_Reversed(ks, s, p, flag) ==
    LET later == {i \in 1 .. Len(s) : p > ks.prio[s[i]]}
    IN  IF flag = "FIFO" \/ later = {} THEN Len(s) + 1 ELSE Min(later)

\* Where rt_ipc_list_suspend puts a thread of priority p: at the tail
\* (RT_IPC_FLAG_FIFO), or before the first less urgent waiter
\* (RT_IPC_FLAG_PRIO).
Position(ks, s, p, flag) ==
    LET later == {i \in 1 .. Len(s) : p < ks.prio[s[i]]}
    IN  IF flag = "FIFO" \/ later = {}
        THEN Len(s) + 1
        ELSE Min(later)

rt_ipc_list_suspend(ks, w, t, flag) ==
    LET s == rt_thread_suspend(ks, t)
    IN  [s EXCEPT !.wait[w] =
            InsertAt(s.wait[w], Position(s, s.wait[w], s.prio[t], flag), t)]

rt_ipc_list_resume(ks, w) == rt_thread_resume(ks, Head(ks.wait[w]))

\* Mutation: the error code is not set, the waiter believes it was served.
ResumeWithError_Silent(ks, w) == rt_ipc_list_resume(ks, w)

\* One turn of the loop in rt_ipc_list_resume_all.
ResumeWithError(ks, w) ==
    rt_ipc_list_resume([ks EXCEPT !.err[Head(ks.wait[w])] = "ERROR"], w)

\* Mutation: rt_timer_start is forgotten.
StartTimer_Never(ks, t, time) == ks

\* rt_timer_control(SET_TIME) and rt_timer_start on the thread's own timer,
\* done only for a finite, non-zero time.
StartTimer(ks, t, time) ==
    IF time = "finite" THEN [ks EXCEPT !.timers = @ \union {t}] ELSE ks

-----------------------------------------------------------------------------
(* The tick interrupt of src/clock.c.  Which timers are due, and whether   *)
(* the running thread's slice ends, are left open: every assignment of     *)
(* times is covered.  The interrupt runs to completion before any thread   *)
(* moves, and rt_current_thread changes as soon as rt_schedule says so.    *)

\* rt_tick_increase up to the timer check: the slice of the running thread
\* may have ended, in which case rt_thread_yield is called.
TickEnter ==
    /\ isr = "none"
    /\ isr' = "tick"
    /\ k' \in {k, rt_schedule(k)}

\* One turn of the loop in rt_timer_check, on the timer of thread t.
TickExpire(t) ==
    /\ isr = "tick"
    /\ t \in k.timers
    /\ k' = rt_thread_timeout(k, t)
    /\ isr' = "timeout"

\* The call of rt_schedule that ends rt_thread_timeout.
TickSchedule ==
    /\ isr = "timeout"
    /\ k' = rt_schedule(k)
    /\ isr' = "tick"

TickLeave ==
    /\ isr = "tick"
    /\ isr' = "none"
    /\ UNCHANGED k

Tick == TickEnter \/ (\E t \in Threads : TickExpire(t)) \/ TickSchedule \/ TickLeave

-----------------------------------------------------------------------------
(* What every kernel operation must preserve.                              *)

\* A ready queue holds exactly the ready threads of its priority, once each,
\* and the bitmap has exactly the bits of the non-empty queues.
ReadyOK(ks) ==
    /\ \A p \in Prio : IsInjective(ks.ready[p])
    /\ \A p \in Prio, t \in Threads :
          t \in ToSet(ks.ready[p]) <=> ks.stat[t] = "ready" /\ ks.prio[t] = p
    /\ \A p \in Prio : p \in ks.group <=> ks.ready[p] # <<>>

\* A thread on a suspend list is suspended, and on that list only.
WaitOK(ks) ==
    /\ \A w \in WaitLists : IsInjective(ks.wait[w])
    /\ \A w \in WaitLists : \A t \in ToSet(ks.wait[w]) : ks.stat[t] = "suspend"
    /\ \A v, w \in WaitLists : \A t \in ToSet(ks.wait[v]) :
          t \in ToSet(ks.wait[w]) => v = w

\* A thread on the defunct list is closed.
DefunctOK(ks) ==
    /\ IsInjective(ks.defunct)
    /\ \A t \in ToSet(ks.defunct) : ks.stat[t] = "close"

\* A thread timer runs only while its thread is suspended: the assertion at
\* the top of rt_thread_timeout.
TimersOK(ks) == \A t \in ks.timers : ks.stat[t] = "suspend"

\* Only the current thread is RUNNING, and it is on no ready queue.
CurOK(ks) ==
    /\ \A t \in Threads : ks.stat[t] = "running" => t = ks.cur
    /\ ks.stat[ks.cur] \in {"running", "suspend", "close"}

QueueOK(ks) ==
    /\ ks \in KernelState
    /\ ReadyOK(ks)
    /\ WaitOK(ks)
    /\ DefunctOK(ks)
    /\ TimersOK(ks)

KernelOK(ks) == QueueOK(ks) /\ CurOK(ks)
=============================================================================
