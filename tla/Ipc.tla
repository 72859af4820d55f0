--------------------------------- MODULE Ipc ---------------------------------
(***************************************************************************)
(* What the IPC objects of src/ipc.c share: how a thread moves through a   *)
(* kernel call, the call of rt_schedule that ends it, the loop that wakes  *)
(* every waiter when an object is detached or deleted, and rt_thread_sleep *)
(* by which an application thread leaves the processor between two calls.  *)
(*                                                                         *)
(* A call is cut where the code enables interrupts.  Between two of its    *)
(* steps the tick interrupt, or a thread that it wakes up, may run.        *)
(***************************************************************************)
EXTENDS Kernel

CONSTANTS
    Users,        \* the application's threads
    Objects,      \* the IPC objects of the model
    Detachable,   \* those that some thread may detach or delete
    None          \* RT_NULL

ASSUME IpcAssumption ==
    /\ Users \subseteq Threads \ {Idle}
    /\ Detachable \subseteq Objects
    /\ None \notin Threads
    /\ None \notin Objects

VARIABLES
    pc,      \* where each thread is in the kernel API, "run" if outside
    arg,     \* the object of the call in progress
    alive    \* the objects that are not detached

ipcVars == <<pc, arg, alive>>

IpcInit ==
    /\ k = Booted
    /\ isr = "none"
    /\ pc = [t \in Threads |-> "run"]
    /\ arg = [t \in Threads |-> None]
    /\ alive = Objects

-----------------------------------------------------------------------------
\* Thread t executes: it is the current thread and no interrupt is served.
At(t, p) == isr = "none" /\ k.cur = t /\ pc[t] = p

Go(t, p) == pc' = [pc EXCEPT ![t] = p]

\* A user thread calls an operation of object o, whose type is asserted.
Calls(t, o) == At(t, "run") /\ t \in Users /\ o \in alive

\* The call goes on after its first critical section.
Proceed(t, o, p) == Go(t, p) /\ arg' = [arg EXCEPT ![t] = o]

\* The call returns to the application.
Return(t) == Go(t, "run") /\ arg' = [arg EXCEPT ![t] = None]

ResetError(t) == [k EXCEPT !.err[t] = "EOK"]

\* The call of rt_schedule that ends a blocking or waking call.
Resched(t, from, to) ==
    /\ At(t, from)
    /\ k' = rt_schedule(k)
    /\ Go(t, to)
    /\ UNCHANGED <<isr, arg, alive>>

-----------------------------------------------------------------------------
(* rt_ipc_list_resume_all on list w: the list is tested with interrupts    *)
(* enabled, then one waiter is woken with interrupts disabled.             *)

ResumeAllTest(t, w, test, wake, done) ==
    /\ At(t, test)
    /\ Go(t, IF k.wait[w] = <<>> THEN done ELSE wake)
    /\ UNCHANGED <<k, isr, arg, alive>>

\* On a list that has become empty since the test the code takes the list head
\* for a thread control block.  The error code goes to memory behind the object,
\* which is outside the model, and rt_thread_resume refuses what does not look
\* like a suspended thread, so that the loop goes on (RT_ASSERT compiled out).
ResumeAllWake(t, w, wake, test) ==
    /\ At(t, wake)
    /\ k' = IF k.wait[w] = <<>> THEN k ELSE ResumeWithError(k, w)
    /\ Go(t, test)
    /\ UNCHANGED <<isr, arg, alive>>

\* The same loop inside a caller's critical section, as rt_xxx_control(RESET)
\* runs it: one turn for each waiter, all in one step.
rt_ipc_list_resume_all(ks, w) ==
    LET turn[n \in 0 .. Len(ks.wait[w])] ==
            IF n = 0 THEN ks ELSE ResumeWithError(turn[n - 1], w)
    IN  turn[Len(ks.wait[w])]

\* A thread enters rt_xxx_detach or rt_xxx_delete.
DetachCall(t, o, p) ==
    /\ Calls(t, o)
    /\ o \in Detachable
    /\ Proceed(t, o, p)
    /\ UNCHANGED <<k, isr, alive>>

\* rt_object_detach or rt_object_delete, the last thing a detach does.
DetachObject(t) ==
    /\ At(t, "det_object")
    /\ alive' = alive \ {arg[t]}
    /\ Return(t)
    /\ UNCHANGED <<k, isr>>

-----------------------------------------------------------------------------
(* rt_thread_sleep                                                         *)

rt_thread_sleep(t) ==
    /\ At(t, "run")
    /\ t \in Users
    /\ k' = StartTimer(rt_thread_suspend(k, t), t, "finite")
    /\ Go(t, "sleep_sched")
    /\ UNCHANGED <<isr, arg, alive>>

SleepReturn(t) ==
    /\ At(t, "slept")
    /\ k' = IF k.err[t] = "ETIMEOUT" THEN ResetError(t) ELSE k
    /\ Go(t, "run")
    /\ UNCHANGED <<isr, arg, alive>>

SleepSteps(t) == Resched(t, "sleep_sched", "slept") \/ SleepReturn(t)

-----------------------------------------------------------------------------
\* Full preemption: while the processor executes application code, no ready
\* thread is more urgent than the current one (rt_schedule is called wherever
\* a thread becomes ready or the current thread becomes less urgent).
Preemptive ==
    (isr = "none" /\ pc[k.cur] = "run" /\ k.lock = 0) =>
        \A t \in Threads : k.stat[t] = "ready" => k.prio[k.cur] <= k.prio[t]

\* The suspend list of an RT_IPC_FLAG_PRIO object is sorted: when the resource
\* is available, the most urgent waiter gets it.
Sorted(w) ==
    \A i, j \in 1 .. Len(k.wait[w]) :
        i < j => k.prio[k.wait[w][i]] <= k.prio[k.wait[w][j]]
=============================================================================
