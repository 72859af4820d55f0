------------------------------ MODULE Semaphore ------------------------------
(***************************************************************************)
(* The counting semaphore of src/ipc.c, taken by threads, released by      *)
(* threads and by interrupt handlers, reset and detached.                  *)
(***************************************************************************)
EXTENDS Ipc

CONSTANTS
    Flag,         \* RT_IPC_FLAG_FIFO or RT_IPC_FLAG_PRIO
    TakeTimes,    \* the waiting times passed to rt_sem_take
    InitValue,    \* the value given to rt_sem_init
    ValueMod,     \* 2^16: sem->value is an rt_uint16_t
    MaxValue,     \* bound: no release beyond this value
    ResetValues   \* values given to rt_sem_control(RT_IPC_CMD_RESET)

ASSUME SemaphoreAssumption ==
    /\ Objects = WaitLists
    /\ Flag \in {"FIFO", "PRIO"}
    /\ TakeTimes \subseteq {"zero", "finite", "forever"}
    /\ ValueMod \in Nat \ {0}
    /\ InitValue \in 0 .. (ValueMod - 1)
    /\ MaxValue \in Nat
    /\ ResetValues \subseteq 0 .. (ValueMod - 1)

VARIABLES
    value,   \* sem->value
    net      \* tokens put by callers of release minus tokens got by takers

vars == <<k, isr, pc, arg, alive, value, net>>

Places == {"run", "take_sched", "take_woken", "rel_sched", "ctl_sched",
           "sleep_sched", "slept", "det_test", "det_wake", "det_object"}

Init ==
    /\ IpcInit
    /\ value = [s \in Objects |-> InitValue]
    /\ net = [s \in Objects |-> InitValue]

\* t was woken by a release of s and has yet to return from rt_sem_take.
Granted(t, s) ==
    /\ pc[t] \in {"take_sched", "take_woken"}
    /\ arg[t] = s
    /\ k.err[t] = "EOK"
    /\ t \notin ToSet(k.wait[s])

-----------------------------------------------------------------------------
(* rt_sem_take                                                             *)

\* Mutation: the value is not tested.
TakeNow_Untested(t, s) ==
    /\ value' = [value EXCEPT ![s] = @ - 1]
    /\ net' = [net EXCEPT ![s] = @ - 1]
    /\ UNCHANGED <<k, pc, arg>>

TakeNow(t, s) ==
    /\ value[s] > 0
    /\ value' = [value EXCEPT ![s] = @ - 1]
    /\ net' = [net EXCEPT ![s] = @ - 1]
    /\ UNCHANGED <<k, pc, arg>>

TakeFail(t, s, time) ==
    /\ value[s] = 0
    /\ time = "zero"
    /\ UNCHANGED <<k, pc, arg, value, net>>

TakeBlock(t, s, time) ==
    /\ value[s] = 0
    /\ time # "zero"
    /\ k' = StartTimer(rt_ipc_list_suspend(ResetError(t), s, t, Flag), t, time)
    /\ Proceed(t, s, "take_sched")
    /\ UNCHANGED <<value, net>>

rt_sem_take(t, s, time) ==
    /\ Calls(t, s)
    /\ \/ TakeNow(t, s)
       \/ TakeFail(t, s, time)
       \/ TakeBlock(t, s, time)
    /\ UNCHANGED <<isr, alive>>

TakeReturn(t) ==
    /\ At(t, "take_woken")
    /\ net' = IF k.err[t] = "EOK" THEN [net EXCEPT ![arg[t]] = @ - 1] ELSE net
    /\ Return(t)
    /\ UNCHANGED <<k, isr, alive, value>>

-----------------------------------------------------------------------------
(* rt_sem_release                                                          *)

\* Mutation: the value is incremented although a waiter gets the token.
Wake_Counts(s) ==
    /\ k.wait[s] # <<>>
    /\ value' = [value EXCEPT ![s] = (@ + 1) % ValueMod]

\* A waiter gets the token: it is resumed, the value stays as it is.
Wake(s) ==
    /\ k.wait[s] # <<>>
    /\ UNCHANGED value

\* Nobody waits: the token is counted.
Count(s) ==
    /\ k.wait[s] = <<>>
    /\ value[s] < MaxValue
    /\ value' = [value EXCEPT ![s] = (@ + 1) % ValueMod]

Put(s) == net' = [net EXCEPT ![s] = @ + 1]

rt_sem_release(t, s) ==
    /\ Calls(t, s)
    /\ \/ Wake(s) /\ k' = rt_ipc_list_resume(k, s) /\ Go(t, "rel_sched")
       \/ Count(s) /\ UNCHANGED <<k, pc>>
    /\ Put(s)
    /\ UNCHANGED <<isr, arg, alive>>

\* Mutation: no rt_schedule when an interrupt handler wakes a thread.
IsrRelease_NoSchedule(s) ==
    /\ isr = "none"
    /\ s \in alive
    /\ \/ Wake(s) /\ k' = rt_ipc_list_resume(k, s)
       \/ Count(s) /\ UNCHANGED k
    /\ Put(s)
    /\ UNCHANGED <<isr, pc, arg, alive>>

\* The same call from the handler of a device interrupt, which threads cannot
\* interleave with.  rt_timer_check keeps interrupts disabled, and a device
\* interrupt in the rest of the tick handler has the effect of one before it.
IsrRelease(s) ==
    /\ isr = "none"
    /\ s \in alive
    /\ \/ Wake(s) /\ k' = rt_schedule(rt_ipc_list_resume(k, s))
       \/ Count(s) /\ UNCHANGED k
    /\ Put(s)
    /\ UNCHANGED <<isr, pc, arg, alive>>

-----------------------------------------------------------------------------
\* rt_sem_control(RT_IPC_CMD_RESET): all waiters fail, the value is set.  The
\* tokens of woken takers that have not returned yet stay theirs.
rt_sem_control(t, s, v) ==
    /\ Calls(t, s)
    /\ k' = rt_ipc_list_resume_all(k, s)
    /\ value' = [value EXCEPT ![s] = v]
    /\ net' = [net EXCEPT ![s] = v + Cardinality({u \in Threads : Granted(u, s)})]
    /\ Go(t, "ctl_sched")
    /\ UNCHANGED <<isr, arg, alive>>

\* rt_sem_detach and rt_sem_delete.
rt_sem_detach(t, s) == DetachCall(t, s, "det_test")

DetachSteps(t) ==
    \/ ResumeAllTest(t, arg[t], "det_test", "det_wake", "det_object")
    \/ ResumeAllWake(t, arg[t], "det_wake", "det_test")
    \/ DetachObject(t)

-----------------------------------------------------------------------------
KernelStep(t) ==
    \/ TakeReturn(t)
    \/ /\ \/ Resched(t, "take_sched", "take_woken")
          \/ Resched(t, "rel_sched", "run")
          \/ Resched(t, "ctl_sched", "run")
          \/ DetachSteps(t)
          \/ SleepSteps(t)
       /\ UNCHANGED <<value, net>>

Call(t) ==
    \/ \E s \in Objects, time \in TakeTimes : rt_sem_take(t, s, time)
    \/ \E s \in Objects : rt_sem_release(t, s)
    \/ \E s \in Objects, v \in ResetValues : rt_sem_control(t, s, v)
    \/ /\ \/ \E s \in Objects : rt_sem_detach(t, s)
          \/ rt_thread_sleep(t)
       /\ UNCHANGED <<value, net>>

Outside == UNCHANGED <<pc, arg, alive, value, net>>

Next ==
    \/ Tick /\ Outside
    \/ \E s \in Objects : IsrRelease(s)
    \/ \E t \in Threads : KernelStep(t) \/ Call(t)

Spec == Init /\ [][Next]_vars

\* The tick keeps coming and its handler ends, and a timer that stays active
\* is due at some tick.  Threads need not run at all.
FairSpec ==
    /\ Spec
    /\ WF_vars((TickEnter \/ TickSchedule \/ TickLeave) /\ Outside)
    /\ \A t \in Users : SF_vars(TickExpire(t) /\ Outside)

-----------------------------------------------------------------------------
TypeOK ==
    /\ k \in KernelState
    /\ isr \in {"none", "tick", "timeout"}
    /\ pc \in [Threads -> Places]
    /\ arg \in [Threads -> Objects \union {None}]
    /\ alive \subseteq Objects
    /\ value \in [Objects -> 0 .. (ValueMod - 1)]
    /\ net \in [Objects -> Int]

\* Lists, bitmap and thread states agree although waiters are taken off the
\* suspend list by release, interrupt, timeout, reset and detach.
KernelConsistent == KernelOK(k)

\* No token is lost or made: what callers of rt_sem_release put minus what
\* callers of rt_sem_take got is the value plus the wake-ups still on their way
\* to a taker, in whatever order release, interrupt and timeout come.
TokensConserved ==
    \A s \in Objects :
        net[s] = value[s] + Cardinality({t \in Threads : Granted(t, s)})

\* No lost wake-up and no overtaking: while a thread waits there is no token
\* for a later caller of rt_sem_take to pick up.
NoTokenWhileWaiting ==
    \A s \in Objects : k.wait[s] # <<>> => value[s] = 0

\* When every take has a timeout, every wait ends, even if no thread ever
\* releases the semaphore and the waiter is not scheduled again.
TimedWaitEnds ==
    "forever" \notin TakeTimes =>
        \A t \in Users, s \in Objects :
            t \in ToSet(k.wait[s]) ~> t \notin ToSet(k.wait[s])

\* In rt_ipc_list_resume_all, "get next suspend thread" finds a thread: the
\* list that the loop's test saw with interrupts enabled still has a waiter when
\* the detaching thread comes to take one off.
DetachFindsWaiter ==
    \A t \in Threads : At(t, "det_wake") => k.wait[arg[t]] # <<>>
=============================================================================
