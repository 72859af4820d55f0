------------------------------ MODULE DataQueue ------------------------------
(***************************************************************************)
(* The data queue of components/drivers/src/dataqueue.c: a ring with free- *)
(* running 16-bit indices and two suspend lists.  A pop wakes a pusher     *)
(* only when the queue has drained to its low water mark.                  *)
(***************************************************************************)
EXTENDS Retry

CONSTANTS
    DataQueues,  \* the objects that are data queues
    Data,        \* what is pushed
    DqSize,      \* queue->size
    DqLwm,       \* queue->lwm
    IndexMod,    \* 2^16: the indices are of type rt_uint16_t
    DqStart,     \* the indices when the model starts, that many pops ago
    DqMaxPush,   \* bound: pushes during a behaviour
    DqTimes      \* waiting times given to push and pop

suspended_pop_list(d) == <<d, "pop">>
suspended_push_list(d) == <<d, "push">>

ASSUME DataQueueAssumption ==
    /\ DataQueues \subseteq Objects
    /\ \A d \in DataQueues : {suspended_pop_list(d), suspended_push_list(d)} \subseteq WaitLists
    /\ None \notin Data
    /\ IndexMod \in Nat
    /\ DqSize \in 1 .. (IndexMod - 1)
    /\ DqLwm \in 0 .. (DqSize - 1)
    /\ DqStart \in 0 .. (IndexMod - 1)
    /\ DqMaxPush \in Nat
    /\ DqTimes \subseteq Times

VARIABLES
    dq,        \* the control blocks: queue, put_index, get_index
    pushes     \* how often something was pushed, for the bound

dqVars == <<dq, pushes>>

DqPlaces == {"dqp_sched", "dqp_woken", "dqg_sched", "dqg_woken", "dq_got", "dq_got_sched",
             "dqx_test", "dqx_wake", "dqx_test2", "dqx_wake2", "dqx_exit", "dqx_sched"}

Index == 0 .. (IndexMod - 1)

DqState == [queue : [0 .. (DqSize - 1) -> Data \union {None}],
            put_index : Index, get_index : Index]

DqInit ==
    /\ dq = [d \in DataQueues |-> [queue |-> [i \in 0 .. (DqSize - 1) |-> None],
                                   put_index |-> DqStart, get_index |-> DqStart]]
    /\ pushes = 0

\* put_index - get_index, computed as int: negative once put_index has wrapped
\* around and get_index has not.
Filled(q) == q.put_index - q.get_index

-----------------------------------------------------------------------------
(* rt_data_queue_push                                                      *)

Push(t, d, v) ==
    /\ Filled(dq[d]) # DqSize
    /\ pushes < DqMaxPush
    /\ pushes' = pushes + 1
    /\ dq' = [dq EXCEPT ![d].queue[dq[d].put_index % DqSize] = v,
                        ![d].put_index = (@ + 1) % IndexMod]
    /\ WakeAndLeave(t, suspended_pop_list(d))

PushBlock(t, d, v, time) ==
    /\ Filled(dq[d]) = DqSize
    /\ Block(t, d, suspended_push_list(d), "FIFO", time, v, "dqp_sched")
    /\ UNCHANGED dqVars

rt_data_queue_push(t, d, v, time) ==
    /\ Calls(t, d)
    /\ \/ Push(t, d, v)
       \/ PushBlock(t, d, v, time)
       \/ Filled(dq[d]) = DqSize /\ time = "zero" /\ Leave(t) /\ UNCHANGED <<k, dq, pushes>>
    /\ UNCHANGED <<isr, alive>>

\* The next turn of the loop waits for the whole time again.
PushWoken(t) ==
    /\ At(t, "dqp_woken")
    /\ \/ Failed(t) /\ UNCHANGED dqVars
       \/ /\ k.err[t] = "EOK"
          /\ Push(t, arg[t], item[t]) \/ PushBlock(t, arg[t], item[t], left[t])
    /\ UNCHANGED <<isr, alive>>

IsrPush(d, v) ==
    /\ isr = "none"
    /\ d \in alive
    /\ Filled(dq[d]) # DqSize
    /\ pushes < DqMaxPush
    /\ pushes' = pushes + 1
    /\ dq' = [dq EXCEPT ![d].queue[dq[d].put_index % DqSize] = v,
                        ![d].put_index = (@ + 1) % IndexMod]
    /\ IsrWake(suspended_pop_list(d))
    /\ UNCHANGED <<isr, pc, arg, alive, left, item>>

-----------------------------------------------------------------------------
(* rt_data_queue_pop                                                       *)

\* Mutation: the comparison with the low water mark is strict.
AtLowWater_Strict(q) == Filled(q) < DqLwm

\* The queue, from which an item was just taken, is down to its low water mark.
AtLowWater(q) == Filled(q) <= DqLwm

Pop(t, d) ==
    LET taken == [dq[d] EXCEPT !.get_index = (@ + 1) % IndexMod]
        w == suspended_push_list(d)
    IN  /\ dq[d].get_index # dq[d].put_index
        /\ dq' = [dq EXCEPT ![d] = taken]
        /\ item' = [item EXCEPT ![t] = dq[d].queue[dq[d].get_index % DqSize]]
        /\ left' = [left EXCEPT ![t] = "zero"]
        /\ IF AtLowWater(taken) /\ k.wait[w] # <<>>
           THEN k' = rt_ipc_list_resume(k, w) /\ Proceed(t, d, "dq_got_sched")
           ELSE UNCHANGED k /\ Proceed(t, d, "dq_got")
        /\ UNCHANGED pushes

PopBlock(t, d, time) ==
    /\ dq[d].get_index = dq[d].put_index
    /\ Block(t, d, suspended_pop_list(d), "FIFO", time, None, "dqg_sched")
    /\ UNCHANGED dqVars

rt_data_queue_pop(t, d, time) ==
    /\ Calls(t, d)
    /\ \/ Pop(t, d)
       \/ PopBlock(t, d, time)
       \/ /\ dq[d].get_index = dq[d].put_index
          /\ time = "zero"
          /\ Leave(t)
          /\ UNCHANGED <<k, dq, pushes>>
    /\ UNCHANGED <<isr, alive>>

PopWoken(t) ==
    /\ At(t, "dqg_woken")
    /\ \/ Failed(t) /\ UNCHANGED dqVars
       \/ k.err[t] = "EOK" /\ (Pop(t, arg[t]) \/ PopBlock(t, arg[t], left[t]))
    /\ UNCHANGED <<isr, alive>>

\* The call returns RT_EOK and the data.
PopReturn(t) ==
    /\ At(t, "dq_got")
    /\ Leave(t)
    /\ UNCHANGED <<k, isr, alive, dq, pushes>>

-----------------------------------------------------------------------------
(* rt_data_queue_reset: both lists are emptied with the scheduler locked;  *)
(* what is in the queue stays there.                                       *)

rt_data_queue_reset(t, d) ==
    /\ Calls(t, d)
    /\ k' = [k EXCEPT !.lock = @ + 1]
    /\ Proceed(t, d, "dqx_test")
    /\ UNCHANGED <<isr, alive>>

\* rt_exit_critical: its call of rt_schedule is the next step.
ResetUnlock(t) ==
    /\ At(t, "dqx_exit")
    /\ k' = [k EXCEPT !.lock = @ - 1]
    /\ Proceed(t, None, "dqx_sched")
    /\ UNCHANGED <<isr, alive>>

DqResetSteps(t) ==
    \/ ResumeAllTest(t, suspended_pop_list(arg[t]), "dqx_test", "dqx_wake", "dqx_test2")
    \/ ResumeAllWake(t, suspended_pop_list(arg[t]), "dqx_wake", "dqx_test")
    \/ ResumeAllTest(t, suspended_push_list(arg[t]), "dqx_test2", "dqx_wake2", "dqx_exit")
    \/ ResumeAllWake(t, suspended_push_list(arg[t]), "dqx_wake2", "dqx_test2")
    \/ ResetUnlock(t)
    \/ Resched(t, "dqx_sched", "ret_sched")

-----------------------------------------------------------------------------
DqCall(t) ==
    \E d \in DataQueues :
        \/ \E v \in Data, time \in DqTimes : rt_data_queue_push(t, d, v, time)
        \/ \E time \in DqTimes : rt_data_queue_pop(t, d, time)
        \/ rt_data_queue_reset(t, d) /\ UNCHANGED <<left, item, dq, pushes>>

DqStep(t) ==
    \/ PushWoken(t)
    \/ PopWoken(t)
    \/ PopReturn(t)
    \/ /\ \/ Resched(t, "dqp_sched", "dqp_woken")
          \/ Resched(t, "dqg_sched", "dqg_woken")
          \/ Resched(t, "dq_got_sched", "dq_got")
          \/ DqResetSteps(t)
       /\ UNCHANGED <<left, item, dq, pushes>>

DqIsr == \E d \in DataQueues, v \in Data : IsrPush(d, v)

-----------------------------------------------------------------------------
DqTypeOK == dq \in [DataQueues -> DqState] /\ pushes \in 0 .. DqMaxPush

\* The data in the queue, oldest first.
DataIn(d) ==
    [i \in 1 .. ((dq[d].put_index - dq[d].get_index) % IndexMod) |->
        dq[d].queue[((dq[d].get_index + i - 1) % IndexMod) % DqSize]]

\* The data that rt_data_queue_pop has taken out and not yet returned.
DataGot(t) == IF pc[t] \in {"dq_got", "dq_got_sched"} THEN item[t] ELSE None

\* No lost wake-up: while a popper waits, every item is matched by a popper
\* already woken that has yet to look; while a pusher waits, so is every item
\* that the queue is below its low water mark, and one more.
NoDataWhileWaiting ==
    \A d \in DataQueues :
        /\ k.wait[suspended_pop_list(d)] # <<>> =>
              Len(DataIn(d)) <= Cardinality(Looking(d, {"dqg_sched", "dqg_woken"}))
        /\ k.wait[suspended_push_list(d)] # <<>> =>
              DqLwm + 1 - Len(DataIn(d)) <= Cardinality(Looking(d, {"dqp_sched", "dqp_woken"}))
=============================================================================
