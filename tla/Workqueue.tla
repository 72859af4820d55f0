------------------------------ MODULE Workqueue ------------------------------
(***************************************************************************)
(* The work queue of components/drivers/src/workqueue.c: a thread that     *)
(* takes works off a list and calls their functions, which may block.      *)
(* Clients submit works, wake the thread if it does no work, and cancel    *)
(* works, if need be after waiting on the queue's semaphore for the        *)
(* current one to end.  Interrupt handlers submit works, too.  Delayed     *)
(* works, which need a soft timer, are left out.                           *)
(*                                                                         *)
(* The submitting thread calls rt_thread_resume with interrupts enabled,   *)
(* so that call is cut as in module Threads.                               *)
(***************************************************************************)
EXTENDS Ipc

CONSTANTS
    Queue,      \* the work queue: its semaphore's suspend list, and the address
                \* of its list head, which is also that of the control block
    Worker,     \* queue->work_thread
    Clients,    \* the users that submit and cancel works
    Works,      \* the works
    IsrWorks    \* the works that interrupt handlers submit

ASSUME WorkqueueAssumption ==
    /\ Objects = {Queue}
    /\ WaitLists = {Queue}
    /\ Worker \in Threads \ (Users \union {Idle})
    /\ Clients \subseteq Users
    /\ IsrWorks \subseteq Works
    /\ Works \intersect {Queue, None} = {}

VARIABLES
    wq,      \* the control block: work_list, work_current and the semaphore's
             \* value, and the PENDING flags of the works
    work,    \* the caller's work, or `node' in rt_workqueue_cancel_all_work
    next     \* `next' in rt_workqueue_cancel_all_work

vars == <<k, isr, pc, arg, alive, wq, work, next>>

Places == {"run", "ret_sched", "sleep_sched", "slept",
           "wk_test", "wk_suspend", "wk_sched", "wk_take", "wk_work", "wk_rest",
           "wk_rested", "wk_lock", "wk_try", "wk_release", "wk_exit", "wk_unlock", "wk_lost",
           "wq_test", "wq_unlink", "wq_insert", "wqs_woken", "wqa_next", "wqa_remove"}

Nodes == Works \union {Queue, None}

QueueState == [work_list : Seq(Works), work_current : Nodes, sem : Nat, pending : SUBSET Works]

\* rt_workqueue_create; the thread has been started with the others.
Init ==
    /\ k = Booted
    /\ isr = "none"
    /\ pc = [t \in Threads |-> IF t = Worker THEN "wk_test" ELSE "run"]
    /\ arg = [t \in Threads |-> None]
    /\ alive = Objects
    /\ wq = [work_list |-> <<>>, work_current |-> None, sem |-> 0, pending |-> {}]
    /\ work = [t \in Threads |-> None]
    /\ next = [t \in Threads |-> None]

Off(list, w) == SelectSeq(list, LAMBDA x : x # w)

-----------------------------------------------------------------------------
(* _workqueue_thread_entry                                                 *)

\* What every step of the work thread leaves alone.
WorkerElse == UNCHANGED <<isr, arg, alive, work, next>>

\* The list is looked at with interrupts enabled.
WorkTest ==
    /\ At(Worker, "wk_test")
    /\ Go(Worker, IF wq.work_list = <<>> THEN "wk_suspend" ELSE "wk_take")
    /\ UNCHANGED <<k, wq>>
    /\ WorkerElse

WorkSuspend ==
    /\ At(Worker, "wk_suspend")
    /\ k' = rt_thread_suspend(k, Worker)
    /\ Go(Worker, "wk_sched")
    /\ UNCHANGED wq
    /\ WorkerElse

\* On an empty list the list head is taken for a work.  Its work_func is where
\* the queue keeps work_current, the control block itself as of now: what the
\* thread does after that jump is outside the model.
WorkTake ==
    /\ At(Worker, "wk_take")
    /\ IF wq.work_list = <<>>
       THEN /\ wq' = [wq EXCEPT !.work_current = Queue]
            /\ Go(Worker, "wk_lost")
       ELSE /\ wq' = [wq EXCEPT !.work_current = Head(wq.work_list),
                                !.work_list = Tail(@),
                                !.pending = @ \ {Head(wq.work_list)}]
            /\ Go(Worker, "wk_work")
    /\ UNCHANGED k
    /\ WorkerElse

\* The work function calls rt_thread_sleep.
WorkRest ==
    /\ At(Worker, "wk_work")
    /\ k' = StartTimer(rt_thread_suspend(k, Worker), Worker, "finite")
    /\ Go(Worker, "wk_rest")
    /\ UNCHANGED wq
    /\ WorkerElse

WorkRested ==
    /\ At(Worker, "wk_rested")
    /\ k' = IF k.err[Worker] = "ETIMEOUT" THEN ResetError(Worker) ELSE k
    /\ Go(Worker, "wk_work")
    /\ UNCHANGED wq
    /\ WorkerElse

\* The work function returns.
WorkDone ==
    /\ At(Worker, "wk_work")
    /\ wq' = [wq EXCEPT !.work_current = None]
    /\ Go(Worker, "wk_lock")
    /\ UNCHANGED k
    /\ WorkerElse

-----------------------------------------------------------------------------
(* _workqueue_work_completion: under the scheduler lock, rt_sem_trytake    *)
(* and rt_sem_release alternate until the former succeeds.                 *)

AckEnter ==
    /\ At(Worker, "wk_lock")
    /\ k' = [k EXCEPT !.lock = @ + 1]
    /\ Go(Worker, "wk_try")
    /\ UNCHANGED wq
    /\ WorkerElse

\* Mutation: a token is taken without looking whether there is one.
AckTry_Blind ==
    /\ At(Worker, "wk_try")
    /\ wq' = [wq EXCEPT !.sem = @ - 1]
    /\ Go(Worker, "wk_exit")
    /\ UNCHANGED k
    /\ WorkerElse


AckTry ==
    /\ At(Worker, "wk_try")
    /\ IF wq.sem > 0
       THEN wq' = [wq EXCEPT !.sem = @ - 1] /\ Go(Worker, "wk_exit")
       ELSE UNCHANGED wq /\ Go(Worker, "wk_release")
    /\ UNCHANGED k
    /\ WorkerElse

\* Mutation: one release, whatever comes of it, ends the acknowledgement.
AckRelease_Once ==
    /\ At(Worker, "wk_release")
    /\ IF k.wait[Queue] # <<>>
       THEN k' = rt_ipc_list_resume(k, Queue) /\ UNCHANGED wq
       ELSE UNCHANGED <<k, wq>>
    /\ Go(Worker, "wk_exit")
    /\ WorkerElse

AckRelease ==
    /\ At(Worker, "wk_release")
    /\ IF k.wait[Queue] # <<>>
       THEN k' = rt_ipc_list_resume(k, Queue) /\ UNCHANGED wq
       ELSE wq' = [wq EXCEPT !.sem = @ + 1] /\ UNCHANGED k
    /\ Go(Worker, "wk_try")
    /\ WorkerElse

AckExit ==
    /\ At(Worker, "wk_exit")
    /\ k' = [k EXCEPT !.lock = @ - 1]
    /\ Go(Worker, "wk_unlock")
    /\ UNCHANGED wq
    /\ WorkerElse

WorkerStep ==
    \/ WorkTest
    \/ WorkSuspend
    \/ WorkTake
    \/ WorkRest
    \/ WorkRested
    \/ WorkDone
    \/ AckEnter
    \/ AckTry
    \/ AckRelease
    \/ AckExit
    \/ /\ \/ Resched(Worker, "wk_sched", "wk_take")
          \/ Resched(Worker, "wk_rest", "wk_rested")
          \/ Resched(Worker, "wk_unlock", "wk_test")
       /\ UNCHANGED <<wq, work, next>>

-----------------------------------------------------------------------------
(* Submission                                                              *)

\* Mutation: a work that is running is listed again.
Refused_IfPending(w) == w \in wq.pending

\* _workqueue_submit_work answers RT_EBUSY.
Refused(w) == w \in wq.pending \/ wq.work_current = w

\* rt_workqueue_critical_work looks at the current work only.
RefusedCritical(w) == wq.work_current = w

\* The work goes to the tail, from wherever it was on the list.
Enlisted(w, flags) ==
    [wq EXCEPT !.work_list = Append(Off(@, w), w), !.pending = @ \union flags]

\* The rest of a submission: unless a work is being done, the work thread is
\* resumed, with interrupts enabled.
Enlist(t, w, flags) ==
    /\ wq' = Enlisted(w, flags)
    /\ IF wq.work_current = None
       THEN Proceed(t, Queue, "wq_test")
       ELSE UNCHANGED <<pc, arg>>

_workqueue_submit_work(t, w) ==
    /\ Calls(t, Queue)
    /\ ~Refused(w)
    /\ Enlist(t, w, {w})
    /\ UNCHANGED <<k, isr, alive, work, next>>

\* The same without the PENDING flag; the work goes to the tail all the same.
rt_workqueue_critical_work(t, w) ==
    /\ Calls(t, Queue)
    /\ ~RefusedCritical(w)
    /\ Enlist(t, w, {})
    /\ UNCHANGED <<k, isr, alive, work, next>>

\* rt_thread_resume, refused if the work thread is not suspended.
WakeTest(t) ==
    /\ At(t, "wq_test")
    /\ IF k.stat[Worker] = "suspend"
       THEN Go(t, "wq_unlink") /\ UNCHANGED arg
       ELSE Proceed(t, None, "ret_sched")
    /\ UNCHANGED <<k, isr, alive, wq, work, next>>

WakeUnlink(t) ==
    /\ At(t, "wq_unlink")
    /\ k' = [Unlink(k, Worker) EXCEPT !.timers = @ \ {Worker}]
    /\ Go(t, "wq_insert")
    /\ UNCHANGED <<isr, arg, alive, wq, work, next>>

WakeInsert(t) ==
    /\ At(t, "wq_insert")
    /\ k' = rt_schedule_insert_thread(k, Worker)
    /\ Proceed(t, None, "ret_sched")
    /\ UNCHANGED <<isr, alive, wq, work, next>>

\* A submission from an interrupt handler, which threads cannot interleave with.
IsrSubmit(w) ==
    /\ isr = "none"
    /\ \/ ~Refused(w) /\ wq' = Enlisted(w, {w})
       \/ ~RefusedCritical(w) /\ wq' = Enlisted(w, {})
    /\ k' = IF wq.work_current = None THEN rt_schedule(rt_thread_resume(k, Worker)) ELSE k
    /\ UNCHANGED <<isr, pc, arg, alive, work, next>>

-----------------------------------------------------------------------------
(* Cancellation                                                            *)

Withdraw(w) == wq' = [wq EXCEPT !.work_list = Off(@, w), !.pending = @ \ {w}]

\* Refused for the current work.  rt_workqueue_cancel_work_sync does the same with
\* a work that is not the current one.
_workqueue_cancel_work(t, w) ==
    /\ Calls(t, Queue)
    /\ wq.work_current # w
    /\ Withdraw(w)
    /\ UNCHANGED <<k, isr, pc, arg, alive, work, next>>

\* rt_workqueue_cancel_work_sync of the current work: rt_sem_take takes a token
\* or waits, and the switch comes with interrupts still disabled.
CancelSync(t, w) ==
    /\ Calls(t, Queue)
    /\ wq.work_current = w
    /\ IF wq.sem > 0
       THEN wq' = [wq EXCEPT !.sem = @ - 1] /\ UNCHANGED k
       ELSE /\ k' = rt_schedule(rt_ipc_list_suspend(ResetError(t), Queue, t, "FIFO"))
            /\ UNCHANGED wq
    /\ work' = [work EXCEPT ![t] = w]
    /\ Proceed(t, Queue, "wqs_woken")
    /\ UNCHANGED <<isr, alive, next>>

CancelSyncReturn(t) ==
    /\ At(t, "wqs_woken")
    /\ wq' = [wq EXCEPT !.pending = @ \ {work[t]}]
    /\ work' = [work EXCEPT ![t] = None]
    /\ Return(t)
    /\ UNCHANGED <<k, isr, alive, next>>

\* The node that follows n on the list: the head after the last, and a node
\* that is on no list follows itself.
After(n) ==
    IF n \notin ToSet(wq.work_list) THEN n
    ELSE LET i == CHOOSE j \in DOMAIN wq.work_list : wq.work_list[j] = n
         IN  IF i = Len(wq.work_list) THEN Queue ELSE wq.work_list[i + 1]

\* All works leave the list, under the scheduler lock; interrupt handlers may
\* add some on the way.
rt_workqueue_cancel_all_work(t) ==
    /\ Calls(t, Queue)
    /\ k' = [k EXCEPT !.lock = @ + 1]
    /\ work' = [work EXCEPT ![t] = IF wq.work_list = <<>> THEN Queue ELSE Head(wq.work_list)]
    /\ Proceed(t, Queue, "wqa_next")
    /\ UNCHANGED <<isr, alive, wq, next>>

CancelAllNext(t) ==
    /\ At(t, "wqa_next")
    /\ IF work[t] # Queue
       THEN /\ next' = [next EXCEPT ![t] = After(work[t])]
            /\ Go(t, "wqa_remove")
            /\ UNCHANGED <<k, arg, work>>
       ELSE /\ k' = [k EXCEPT !.lock = @ - 1]
            /\ work' = [work EXCEPT ![t] = None]
            /\ Proceed(t, None, "ret_sched")
            /\ UNCHANGED next
    /\ UNCHANGED <<isr, alive, wq>>

\* The works keep their PENDING flags.
CancelAllRemove(t) ==
    /\ At(t, "wqa_remove")
    /\ wq' = [wq EXCEPT !.work_list = Off(@, work[t])]
    /\ work' = [work EXCEPT ![t] = next[t]]
    /\ next' = [next EXCEPT ![t] = None]
    /\ Go(t, "wqa_next")
    /\ UNCHANGED <<k, isr, arg, alive>>

-----------------------------------------------------------------------------
Call(t) ==
    /\ t \in Clients
    /\ \/ \E w \in Works :
            \/ _workqueue_submit_work(t, w)
            \/ rt_workqueue_critical_work(t, w)
            \/ _workqueue_cancel_work(t, w)
            \/ CancelSync(t, w)
       \/ rt_workqueue_cancel_all_work(t)

KernelStep(t) ==
    \/ WakeTest(t)
    \/ WakeUnlink(t)
    \/ WakeInsert(t)
    \/ CancelSyncReturn(t)
    \/ CancelAllNext(t)
    \/ CancelAllRemove(t)
    \/ /\ \/ Resched(t, "ret_sched", "run")
          \/ rt_thread_sleep(t)
          \/ SleepSteps(t)
       /\ UNCHANGED <<wq, work, next>>

Next ==
    \/ Tick /\ UNCHANGED <<pc, arg, alive, wq, work, next>>
    \/ WorkerStep
    \/ \E t \in Threads : Call(t) \/ KernelStep(t)
    \/ \E w \in IsrWorks : IsrSubmit(w)

Spec == Init /\ [][Next]_vars

-----------------------------------------------------------------------------
TypeOK ==
    /\ k \in KernelState
    /\ isr \in {"none", "tick", "timeout"}
    /\ pc \in [Threads -> Places]
    /\ arg \in [Threads -> {Queue, None}]
    /\ wq \in QueueState
    /\ work \in [Threads -> Nodes]
    /\ next \in [Threads -> Nodes]

\* A work is on the list once at most, and not while its function runs: a work
\* function is not entered again for a submission that was already served.
WorkOnce ==
    /\ IsInjective(wq.work_list)
    /\ wq.work_current \notin ToSet(wq.work_list)

Acknowledging == pc[Worker] \in {"wk_lock", "wk_try", "wk_release", "wk_exit"}

\* The acknowledgement reaches every thread that waits in
\* rt_workqueue_cancel_work_sync and leaves no token behind: outside of it the
\* semaphore is 0 and who waits, waits for the current work.
AckExact ==
    ~Acknowledging =>
        /\ wq.sem = 0
        /\ \A t \in ToSet(k.wait[Queue]) : work[t] = wq.work_current

\* rt_workqueue_cancel_work_sync gets past its wait only when the work it waits
\* for does not run: the caller may free what the work function uses.
Waited(t) == pc[t] = "wqs_woken" /\ k.stat[t] # "suspend"


\* The work thread is not suspended over a list with works, unless a client is
\* about to resume it: _workqueue_submit_work's "resume work thread".
NoWorkStranded ==
    /\ pc[Worker] \in {"wk_sched", "wk_take"}
    /\ k.stat[Worker] = "suspend"
    /\ wq.work_list # <<>>
    => \E t \in Clients : pc[t] \in {"wq_test", "wq_unlink", "wq_insert"}

\* A work function that calls rt_thread_sleep sleeps until its timer expires.
WorkUndisturbed ==
    pc[Worker] = "wk_rested" /\ k.stat[Worker] # "suspend" => k.err[Worker] = "ETIMEOUT"

\* "we have work to do with": the work thread takes a work, not the list head.
WorkToDo == pc[Worker] # "wk_lost"

\* A work whose PENDING flag refuses further submissions is on the list.
PendingIsListed == \A w \in wq.pending : w \in ToSet(wq.work_list)
=============================================================================
