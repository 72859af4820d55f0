------------------------------- MODULE Threads -------------------------------
(***************************************************************************)
(* The life cycle of threads: src/thread.c, the scheduler lock of          *)
(* src/scheduler.c and the reaper of src/idle.c.  Kernel objects are the   *)
(* thread control blocks themselves; arg[t] is the thread t operates on.   *)
(*                                                                         *)
(* Module Kernel treats rt_thread_resume and rt_thread_suspend as atomic,  *)
(* which they are when the IPC code calls them with interrupts disabled.   *)
(* Here an application calls them with interrupts enabled, so each is cut  *)
(* at every place where an interrupt can come.                             *)
(***************************************************************************)
EXTENDS Ipc

CONSTANTS
    Managers,    \* threads that create, start, suspend, resume, delete others
    Workers,     \* the threads they do this to, which may also exit
    Sleepers,    \* threads that call rt_thread_sleep
    Static,      \* control blocks set up by rt_thread_init: system objects
    Operations,  \* which of the managers' calls are made
    NewPrios,    \* priorities given to RT_THREAD_CTRL_CHANGE_PRIORITY
    MaxLock      \* bound: nesting of rt_enter_critical

ASSUME ThreadsAssumption ==
    /\ Objects = Threads
    /\ WaitLists = {}
    /\ Managers \union Workers \union Sleepers \subseteq Users
    /\ Static \subseteq Threads
    /\ Operations \subseteq {"startup", "suspend", "resume", "priority", "delete"}
    /\ NewPrios \subseteq Prio
    /\ MaxLock \in Nat

vars == <<k, isr, pc, arg, alive>>

Places == {"run", "st_test", "st_unlink", "st_insert", "st_sched",
           "res_test", "res_unlink", "res_insert",
           "sus_do", "sus_sched", "yield_sched", "sleep_sched", "slept",
           "del_remove", "del_timer", "del_close", "del_defunct",
           "exit_sched", "dead", "crit_sched", "reap_take", "reap_free"}

\* Control blocks that exist at boot: the started ones.
Init ==
    /\ k = Booted
    /\ isr = "none"
    /\ pc = [t \in Threads |-> "run"]
    /\ arg = [t \in Threads |-> None]
    /\ alive = {t \in Threads : Booted.stat[t] # "init"}

\* t makes the call op on thread u, another one.
Manages(t, u, op) ==
    /\ op \in Operations
    /\ t \in Managers
    /\ u \in Workers \ {t}
    /\ Calls(t, u)

-----------------------------------------------------------------------------
(* rt_thread_create, rt_thread_init and rt_thread_startup                  *)

rt_thread_create(t, u) ==
    /\ "startup" \in Operations
    /\ At(t, "run")
    /\ t \in Managers
    /\ u \in Workers \ alive
    /\ k' = [k EXCEPT !.stat[u] = "init", !.prio[u] = InitPrio[u],
                      !.err[u] = "EOK"]
    /\ pc' = [pc EXCEPT ![u] = "run"]
    /\ alive' = alive \union {u}
    /\ UNCHANGED <<isr, arg>>

\* The state is made SUSPEND so that rt_thread_resume, which follows, accepts
\* the thread.  The fields are written with interrupts enabled, and in one step
\* here: the control block is on no list yet, and the thread that starts it is
\* the only one to use it.
rt_thread_startup(t, u) ==
    /\ Manages(t, u, "startup")
    /\ k.stat[u] = "init"
    /\ k' = [k EXCEPT !.prio[u] = InitPrio[u], !.stat[u] = "suspend"]
    /\ Proceed(t, u, "st_test")
    /\ UNCHANGED <<isr, alive>>

-----------------------------------------------------------------------------
(* rt_thread_resume: the state is read, then the thread is unlinked in one *)
(* critical section and inserted into the ready queue in another.          *)

\* Mutation: the state of the thread is not looked at.
ResumeTest_Always(t, test, unlink, refused) ==
    /\ At(t, test)
    /\ Go(t, unlink)
    /\ UNCHANGED <<k, isr, arg, alive>>

ResumeTest(t, test, unlink, refused) ==
    /\ At(t, test)
    /\ IF k.stat[arg[t]] = "suspend"
       THEN Go(t, unlink) /\ UNCHANGED arg
       ELSE Proceed(t, None, refused)
    /\ UNCHANGED <<k, isr, alive>>

ResumeUnlink(t, unlink, insert) ==
    /\ At(t, unlink)
    /\ k' = [Unlink(k, arg[t]) EXCEPT !.timers = @ \ {arg[t]}]
    /\ Go(t, insert)
    /\ UNCHANGED <<isr, arg, alive>>

ResumeInsert(t, insert, done) ==
    /\ At(t, insert)
    /\ k' = rt_schedule_insert_thread(k, arg[t])
    /\ Proceed(t, None, done)
    /\ UNCHANGED <<isr, alive>>

ResumeCall(t, u) ==
    /\ Manages(t, u, "resume")
    /\ Proceed(t, u, "res_test")
    /\ UNCHANGED <<k, isr, alive>>

-----------------------------------------------------------------------------
(* rt_thread_suspend: of another thread, or of the caller, which then      *)
(* calls rt_schedule and must not hold the scheduler lock.                 *)

SuspendCall(t, u) ==
    /\ "suspend" \in Operations
    /\ t \in Managers
    /\ u \in Workers \union {t}
    /\ u = t => k.lock = 0
    /\ Calls(t, u)
    /\ k.stat[u] \in {"ready", "running"}
    /\ Proceed(t, u, "sus_do")
    /\ UNCHANGED <<k, isr, alive>>

SuspendDo(t) ==
    /\ At(t, "sus_do")
    /\ k' = [rt_schedule_remove_thread(k, arg[t])
                EXCEPT !.stat[arg[t]] = "suspend", !.timers = @ \ {arg[t]}]
    /\ Proceed(t, None, IF arg[t] = t THEN "sus_sched" ELSE "run")
    /\ UNCHANGED <<isr, alive>>

-----------------------------------------------------------------------------
\* rt_thread_control(RT_THREAD_CTRL_CHANGE_PRIORITY), one critical section.
ControlPriority(t, u, p) ==
    /\ Manages(t, u, "priority")
    /\ k' = ChangePriority(k, u, p)
    /\ UNCHANGED <<isr, pc, arg, alive>>

rt_thread_yield(t) ==
    /\ t \in Users
    /\ At(t, "run")
    /\ Go(t, "yield_sched")
    /\ UNCHANGED <<k, isr, arg, alive>>

-----------------------------------------------------------------------------
(* rt_thread_delete and rt_thread_detach: off the ready queue, timer off,  *)
(* state CLOSE and onto the defunct list, each on its own.                 *)

\* Mutation: a thread that was started is not taken off its list.
DeleteCall_Linked(t, u) ==
    /\ Manages(t, u, "delete")
    /\ k.stat[u] # "close"
    /\ Proceed(t, u, "del_timer")
    /\ UNCHANGED <<k, isr, alive>>

DeleteCall(t, u) ==
    /\ Manages(t, u, "delete")
    /\ k.stat[u] # "close"
    /\ Proceed(t, u, IF k.stat[u] # "init" THEN "del_remove" ELSE "del_timer")
    /\ UNCHANGED <<k, isr, alive>>

DeleteRemove(t) ==
    /\ At(t, "del_remove")
    /\ k' = rt_schedule_remove_thread(k, arg[t])
    /\ Go(t, "del_timer")
    /\ UNCHANGED <<isr, arg, alive>>

DeleteTimer(t) ==
    /\ At(t, "del_timer")
    /\ k' = [k EXCEPT !.timers = @ \ {arg[t]}]
    /\ Go(t, "del_close")
    /\ UNCHANGED <<isr, arg, alive>>

DeleteClose(t) ==
    /\ At(t, "del_close")
    /\ k' = [k EXCEPT !.stat[arg[t]] = "close"]
    /\ Go(t, "del_defunct")
    /\ UNCHANGED <<isr, arg, alive>>

\* What becomes of a closed control block: a system object without cleanup
\* function is detached at once, another one is left to the idle thread.
Bury(u) ==
    IF u \in Static
    THEN alive' = alive \ {u} /\ UNCHANGED k
    ELSE k' = [k EXCEPT !.defunct = Cons(u, @)] /\ UNCHANGED alive

DeleteDefunct(t) ==
    /\ At(t, "del_defunct")
    /\ Bury(arg[t])
    /\ Return(t)
    /\ UNCHANGED isr

\* rt_thread_exit, where a thread's entry function returns: one critical
\* section, then rt_schedule.
rt_thread_exit(t) ==
    /\ t \in Workers
    /\ At(t, "run")
    /\ k.lock = 0
    /\ LET gone == [rt_schedule_remove_thread(k, t)
                       EXCEPT !.stat[t] = "close", !.timers = @ \ {t}]
       IN  IF t \in Static
           THEN k' = gone /\ alive' = alive \ {t}
           ELSE k' = [gone EXCEPT !.defunct = Cons(t, @)] /\ UNCHANGED alive
    /\ Go(t, "exit_sched")
    /\ UNCHANGED <<isr, arg>>

-----------------------------------------------------------------------------
(* The scheduler lock.                                                     *)

rt_enter_critical(t) ==
    /\ t \in Managers
    /\ At(t, "run")
    /\ k.lock < MaxLock
    /\ k' = [k EXCEPT !.lock = @ + 1]
    /\ UNCHANGED <<isr, pc, arg, alive>>

\* Mutation: an unbalanced call drives the nesting count below zero.
rt_exit_critical_Negative(t) ==
    /\ t \in Managers
    /\ At(t, "run")
    /\ k' = [k EXCEPT !.lock = @ - 1]
    /\ IF k.lock <= 1 THEN Go(t, "crit_sched") ELSE UNCHANGED pc
    /\ UNCHANGED <<isr, arg, alive>>

rt_exit_critical(t) ==
    /\ t \in Managers
    /\ At(t, "run")
    /\ k' = [k EXCEPT !.lock = IF @ <= 1 THEN 0 ELSE @ - 1]
    /\ IF k.lock <= 1 THEN Go(t, "crit_sched") ELSE UNCHANGED pc
    /\ UNCHANGED <<isr, arg, alive>>

-----------------------------------------------------------------------------
(* rt_thread_idle_excute: the list is tested, tested again with interrupts *)
(* disabled, and the memory is given back outside the critical section.    *)

ReapTest ==
    /\ At(Idle, "run")
    /\ k.defunct # <<>>
    /\ Go(Idle, "reap_take")
    /\ UNCHANGED <<k, isr, arg, alive>>

\* Mutation: the dead thread is not removed from the defunct list.
ReapTake_Linked ==
    /\ At(Idle, "reap_take")
    /\ IF k.defunct = <<>>
       THEN Return(Idle) /\ UNCHANGED k
       ELSE k' = rt_schedule(k) /\ Proceed(Idle, Head(k.defunct), "reap_free")
    /\ UNCHANGED <<isr, alive>>

\* rt_exit_critical at the end of the section calls rt_schedule.
ReapTake ==
    /\ At(Idle, "reap_take")
    /\ IF k.defunct = <<>>
       THEN Return(Idle) /\ UNCHANGED k
       ELSE /\ k' = rt_schedule(Unlink(k, Head(k.defunct)))
            /\ Proceed(Idle, Head(k.defunct), "reap_free")
    /\ UNCHANGED <<isr, alive>>

ReapFree ==
    /\ At(Idle, "reap_free")
    /\ alive' = alive \ {arg[Idle]}
    /\ Return(Idle)
    /\ UNCHANGED <<k, isr>>

Reap == ReapTest \/ ReapTake \/ ReapFree

-----------------------------------------------------------------------------
KernelStep(t) ==
    \/ ResumeTest(t, "st_test", "st_unlink", "st_sched")
    \/ ResumeUnlink(t, "st_unlink", "st_insert")
    \/ ResumeInsert(t, "st_insert", "st_sched")
    \/ Resched(t, "st_sched", "run")
    \/ ResumeTest(t, "res_test", "res_unlink", "run")
    \/ ResumeUnlink(t, "res_unlink", "res_insert")
    \/ ResumeInsert(t, "res_insert", "run")
    \/ SuspendDo(t)
    \/ Resched(t, "sus_sched", "run")
    \/ Resched(t, "yield_sched", "run")
    \/ SleepSteps(t)
    \/ DeleteRemove(t)
    \/ DeleteTimer(t)
    \/ DeleteClose(t)
    \/ DeleteDefunct(t)
    \/ Resched(t, "exit_sched", "dead")
    \/ Resched(t, "crit_sched", "run")

Call(t) ==
    \/ \E u \in Threads :
          \/ rt_thread_create(t, u)
          \/ rt_thread_startup(t, u)
          \/ ResumeCall(t, u)
          \/ SuspendCall(t, u)
          \/ \E p \in NewPrios : ControlPriority(t, u, p)
          \/ DeleteCall(t, u)
    \/ rt_thread_yield(t)
    \/ t \in Sleepers /\ k.lock = 0 /\ rt_thread_sleep(t)
    \/ rt_thread_exit(t)
    \/ rt_enter_critical(t)
    \/ rt_exit_critical(t)

Outside == UNCHANGED <<pc, arg, alive>>

Next ==
    \/ Tick /\ Outside
    \/ Reap
    \/ \E t \in Threads : KernelStep(t) \/ Call(t)

Spec == Init /\ [][Next]_vars

-----------------------------------------------------------------------------
TypeOK ==
    /\ k \in KernelState
    /\ isr \in {"none", "tick", "timeout"}
    /\ pc \in [Threads -> Places]
    /\ arg \in [Threads -> Threads \union {None}]
    /\ alive \subseteq Threads

\* Threads that a delete in progress has taken off the lists and not closed.
Deleting == {arg[t] : t \in {u \in Threads : pc[u] \in {"del_timer", "del_close"}}}

\* Lists, bitmap and thread states agree at every point where an interrupt can
\* come and call rt_schedule, also in the middle of rt_thread_resume,
\* rt_thread_suspend and rt_thread_delete; a thread being deleted is on no list
\* whatever its state still says.
QueuesSound ==
    KernelOK([k EXCEPT !.stat = [u \in Threads |->
                 IF u \in Deleting THEN "init" ELSE @[u]]])

\* A thread that was closed never runs or becomes ready again, unless its
\* control block is created anew (rt_thread_exit, rt_thread_delete).
ClosedStaysClosed ==
    [][\A t \in Threads : k.stat[t] = "close" => k'.stat[t] \in {"close", "init"}]_vars

\* A control block that was given back or detached is on no kernel list and has
\* no timer running: nothing in the kernel points at it any more.
FreedIsUnlinked ==
    \A t \in Threads \ alive :
        /\ k.stat[t] \in {"init", "close"}
        /\ \A p \in Prio : t \notin ToSet(k.ready[p])
        /\ t \notin ToSet(k.defunct)
        /\ t \notin k.timers
=============================================================================
