-------------------------------- MODULE Mutex --------------------------------
(***************************************************************************)
(* The recursive mutex of src/ipc.c with its priority inheritance, under   *)
(* the preemptive scheduler and the tick interrupt of module Kernel.       *)
(***************************************************************************)
EXTENDS Ipc

CONSTANTS
    Flag,         \* RT_IPC_FLAG_FIFO or RT_IPC_FLAG_PRIO, for every mutex
    TakeTimes,    \* the waiting times passed to rt_mutex_take
    HoldMod,      \* 2^8: mutex->hold is an rt_uint8_t
    MaxNest       \* bound: how often one thread takes a mutex it already has

ASSUME MutexAssumption ==
    /\ Objects = WaitLists
    /\ Flag \in {"FIFO", "PRIO"}
    /\ TakeTimes \subseteq {"zero", "finite", "forever"}
    /\ HoldMod \in Nat /\ HoldMod > 1
    /\ MaxNest \in Nat

VARIABLES
    mutex,   \* per mutex: value, owner, original_priority, hold
    held     \* takes that returned RT_EOK minus releases, as the caller counts

vars == <<k, isr, pc, arg, alive, mutex, held>>

\* mutex->original_priority when nobody owns it: 0xFF, above every priority.
NoPrio == RT_THREAD_PRIORITY_MAX

MutexState ==
    [value : 0 .. 1, owner : Threads \union {None}, orig : Prio \union {NoPrio},
     hold : 0 .. (HoldMod - 1)]

Places == {"run", "take_sched", "take_woken", "rel_sched", "sleep_sched",
           "slept", "det_test", "det_wake", "det_object"}

\* After rt_mutex_init or rt_mutex_create.
FreshMutex == [value |-> 1, owner |-> None, orig |-> NoPrio, hold |-> 0]

Init ==
    /\ IpcInit
    /\ mutex = [m \in Objects |-> FreshMutex]
    /\ held = [t \in Threads |-> [m \in Objects |-> 0]]

-----------------------------------------------------------------------------
\* mutex->owner = thread, with the priority it has at that moment.
Owned(mu, t, ks) ==
    [mu EXCEPT !.owner = t, !.orig = ks.prio[t], !.hold = (@ + 1) % HoldMod]

\* Mutation: no priority inheritance.
Inherit_Never(ks, o, t) == ks

\* The priority of the owner is raised to that of the thread about to wait.
Inherit(ks, o, t) ==
    IF ks.prio[t] < ks.prio[o] THEN ChangePriority(ks, o, ks.prio[t]) ELSE ks

-----------------------------------------------------------------------------
(* rt_mutex_take                                                           *)

\* Mutation: a nested take is not counted.
TakeAgain_NotCounted(t, m) ==
    /\ mutex[m].owner = t
    /\ held[t][m] < MaxNest
    /\ held' = [held EXCEPT ![t][m] = @ + 1]
    /\ k' = ResetError(t)
    /\ UNCHANGED <<pc, arg, mutex>>

\* The caller already owns the mutex.
TakeAgain(t, m) ==
    /\ mutex[m].owner = t
    /\ held[t][m] < MaxNest
    /\ mutex' = [mutex EXCEPT ![m].hold = (@ + 1) % HoldMod]
    /\ held' = [held EXCEPT ![t][m] = @ + 1]
    /\ k' = ResetError(t)
    /\ UNCHANGED <<pc, arg>>

\* Mutation: mutex->value is not decremented.
TakeFree_KeepsValue(t, m) ==
    /\ mutex[m].owner # t
    /\ mutex[m].value > 0
    /\ mutex' = [mutex EXCEPT ![m] = Owned(@, t, k)]
    /\ held' = [held EXCEPT ![t][m] = @ + 1]
    /\ k' = ResetError(t)
    /\ UNCHANGED <<pc, arg>>

\* The mutex is available.
TakeFree(t, m) ==
    /\ mutex[m].owner # t
    /\ mutex[m].value > 0
    /\ mutex' = [mutex EXCEPT ![m] = Owned([mutex[m] EXCEPT !.value = @ - 1], t, k)]
    /\ held' = [held EXCEPT ![t][m] = @ + 1]
    /\ k' = ResetError(t)
    /\ UNCHANGED <<pc, arg>>

\* Not available, and the caller does not wait.
TakeFail(t, m, time) ==
    /\ mutex[m].owner # t
    /\ mutex[m].value = 0
    /\ time = "zero"
    /\ k' = [k EXCEPT !.err[t] = "ETIMEOUT"]
    /\ UNCHANGED <<mutex, pc, arg, held>>

\* Not available: boost the owner, suspend, start the thread timer.
TakeBlock(t, m, time) ==
    /\ mutex[m].owner # t
    /\ mutex[m].value = 0
    /\ time # "zero"
    /\ LET boosted == Inherit(ResetError(t), mutex[m].owner, t)
           waiting == rt_ipc_list_suspend(boosted, m, t, Flag)
       IN  k' = StartTimer(waiting, t, time)
    /\ Proceed(t, m, "take_sched")
    /\ UNCHANGED <<mutex, held>>

rt_mutex_take(t, m, time) ==
    /\ Calls(t, m)
    /\ \/ TakeAgain(t, m)
       \/ TakeFree(t, m)
       \/ TakeFail(t, m, time)
       \/ TakeBlock(t, m, time)
    /\ UNCHANGED <<isr, alive>>

\* Back from rt_schedule: the error code tells how the wait ended.
TakeReturn(t) ==
    /\ At(t, "take_woken")
    /\ held' = IF k.err[t] = "EOK"
               THEN [held EXCEPT ![t][arg[t]] = @ + 1]
               ELSE held
    /\ Return(t)
    /\ UNCHANGED <<k, isr, alive, mutex>>

-----------------------------------------------------------------------------
(* rt_mutex_release                                                        *)

\* The caller is not the owner.
ReleaseRefused(t, m) ==
    /\ mutex[m].owner # t
    /\ k' = [k EXCEPT !.err[t] = "ERROR"]
    /\ UNCHANGED <<mutex, pc, held>>

\* One of several holds is given back.
ReleaseInner(t, m) ==
    /\ mutex[m].owner = t
    /\ mutex[m].hold # 1
    /\ mutex' = [mutex EXCEPT ![m].hold = (@ + HoldMod - 1) % HoldMod]
    /\ held' = [held EXCEPT ![t][m] = @ - 1]
    /\ UNCHANGED <<k, pc>>

\* Mutation: the owner keeps the inherited priority.
Restored_Never(t, m) == k

\* The priority the owner had when it took the mutex.
Restored(t, m) ==
    IF mutex[m].orig # k.prio[t] THEN ChangePriority(k, t, mutex[m].orig) ELSE k

\* The last hold, and a thread waits: it becomes the owner at once.
ReleaseHandOver(t, m) ==
    /\ mutex[m].owner = t
    /\ mutex[m].hold = 1
    /\ k.wait[m] # <<>>
    /\ LET ks   == Restored(t, m)
           next == Head(ks.wait[m])
       IN  /\ mutex' = [mutex EXCEPT ![m] = Owned([mutex[m] EXCEPT !.hold = 0], next, ks)]
           /\ k' = rt_ipc_list_resume(ks, m)
    /\ held' = [held EXCEPT ![t][m] = @ - 1]
    /\ Go(t, "rel_sched")

\* Mutation: the suspend list is not looked at.
ReleaseFree_Always(t, m) ==
    /\ mutex[m].owner = t
    /\ mutex[m].hold = 1
    /\ k' = Restored(t, m)
    /\ mutex' = [mutex EXCEPT ![m] = FreshMutex]
    /\ held' = [held EXCEPT ![t][m] = @ - 1]
    /\ UNCHANGED pc

\* The last hold, and nobody waits.
ReleaseFree(t, m) ==
    /\ mutex[m].owner = t
    /\ mutex[m].hold = 1
    /\ k.wait[m] = <<>>
    /\ k' = Restored(t, m)
    /\ mutex' = [mutex EXCEPT ![m] =
                    [mutex[m] EXCEPT !.value = @ + 1, !.owner = None,
                                     !.orig = NoPrio, !.hold = 0]]
    /\ held' = [held EXCEPT ![t][m] = @ - 1]
    /\ UNCHANGED pc

rt_mutex_release(t, m) ==
    /\ Calls(t, m)
    /\ \/ ReleaseRefused(t, m)
       \/ ReleaseInner(t, m)
       \/ ReleaseHandOver(t, m)
       \/ ReleaseFree(t, m)
    /\ UNCHANGED <<isr, arg, alive>>

-----------------------------------------------------------------------------
(* rt_mutex_detach and rt_mutex_delete.  rt_schedule is not called.        *)

rt_mutex_detach(t, m) == DetachCall(t, m, "det_test")

DetachSteps(t) ==
    \/ ResumeAllTest(t, arg[t], "det_test", "det_wake", "det_object")
    \/ ResumeAllWake(t, arg[t], "det_wake", "det_test")
    \/ DetachObject(t)

-----------------------------------------------------------------------------
\* What a thread does inside the kernel once it has called it.
KernelStep(t) ==
    \/ TakeReturn(t)
    \/ /\ \/ Resched(t, "take_sched", "take_woken")
          \/ Resched(t, "rel_sched", "run")
          \/ DetachSteps(t)
          \/ SleepSteps(t)
       /\ UNCHANGED <<mutex, held>>

\* The calls an application makes.
Call(t) ==
    \/ \E m \in Objects, time \in TakeTimes : rt_mutex_take(t, m, time)
    \/ \E m \in Objects : rt_mutex_release(t, m)
    \/ /\ \/ \E m \in Objects : rt_mutex_detach(t, m)
          \/ rt_thread_sleep(t)
       /\ UNCHANGED <<mutex, held>>

Outside == UNCHANGED <<pc, arg, alive, mutex, held>>

Next ==
    \/ Tick /\ Outside
    \/ \E t \in Threads : KernelStep(t) \/ Call(t)

Spec == Init /\ [][Next]_vars

\* The processor executes: a thread that is current again and again gets
\* through the kernel call it is in, the tick handler ends, and a timer that
\* stays active is due at some tick.  An owner that runs again and again
\* releases what it owns.  No thread has to make any other call: one outside
\* the kernel may compute forever.
Fairness ==
    /\ \A t \in Users : SF_vars(KernelStep(t))
    /\ WF_vars((TickEnter \/ TickSchedule \/ TickLeave) /\ Outside)
    /\ \A t \in Users : SF_vars(TickExpire(t) /\ Outside)
    /\ \A t \in Users, m \in Objects :
          SF_vars(mutex[m].owner = t /\ rt_mutex_release(t, m))

FairSpec == Spec /\ Fairness

-----------------------------------------------------------------------------
TypeOK ==
    /\ k \in KernelState
    /\ isr \in {"none", "tick", "timeout"}
    /\ pc \in [Threads -> Places]
    /\ arg \in [Threads -> Objects \union {None}]
    /\ alive \subseteq Objects
    /\ mutex \in [Objects -> MutexState]
    /\ held \in [Threads -> [Objects -> Nat]]

\* The scheduler's queues, bitmap, suspend lists and thread states agree in
\* every reachable state, whatever take, release, detach, sleep and timeout do
\* to a thread's list node (rt_list_remove and rt_list_insert in
\* rt_thread_suspend, rt_thread_resume, rt_thread_timeout).
KernelConsistent == KernelOK(k)

\* rt_mutex_release has handed m over to t, which has yet to return with it
\* from rt_mutex_take.
Handed(t, m) ==
    /\ pc[t] \in {"take_sched", "take_woken"}
    /\ arg[t] = m
    /\ k.err[t] = "EOK"
    /\ t \notin ToSet(k.wait[m])

\* Takes of m that have succeeded for t.
Granted(t, m) == held[t][m] + (IF Handed(t, m) THEN 1 ELSE 0)

\* rt_mutex_take and rt_mutex_release keep mutex->hold equal to the number of
\* takes granted to the owner, and nobody else has been granted one: so no two
\* threads are ever inside, a free mutex is free, and a hand-over is neither
\* lost nor given to a waiter that timed out.
MutualExclusion ==
    \A m \in Objects :
       /\ mutex[m].owner = None <=> mutex[m].value = 1
       /\ mutex[m].value = 1 => mutex[m].hold = 0
       /\ \A t \in Threads :
             Granted(t, m) = IF mutex[m].owner = t THEN mutex[m].hold ELSE 0

\* Nobody waits for a mutex that is free or its own.
WaitersBlocked ==
    \A m \in Objects : k.wait[m] # <<>> =>
        mutex[m].owner # None /\ mutex[m].owner \notin ToSet(k.wait[m])

\* Priority inheritance of rt_mutex_take: a waiter is never more urgent than
\* the owner it waits for.
Inherited ==
    \A m \in Objects : \A t \in ToSet(k.wait[m]) :
        k.prio[mutex[m].owner] <= k.prio[t]

\* A thread that owns no mutex runs at its own priority: the boost ends with
\* the release ("change the owner thread to original priority").
BoostEnds ==
    \A t \in Threads :
        (\A m \in Objects : mutex[m].owner # t) => k.prio[t] = InitPrio[t]

\* RT_IPC_FLAG_PRIO: the thread that rt_mutex_release makes the new owner is
\* the most urgent waiter at that moment.
UrgentFirst == Flag = "PRIO" => \A m \in Objects : Sorted(m)

\* The most urgent thread, once it waits without timeout for a mutex, comes to
\* own it, although less urgent threads may compute forever: the owner runs
\* with the waiter's priority until rt_mutex_release hands the mutex over.
UrgentServed ==
    \A t \in Users, m \in Objects :
        (\A u \in Users \ {t} : InitPrio[t] < InitPrio[u]) =>
            (t \in ToSet(k.wait[m]) ~> mutex[m].owner = t)
=============================================================================
