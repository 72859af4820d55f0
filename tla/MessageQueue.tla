---------------------------- MODULE MessageQueue ----------------------------
(***************************************************************************)
(* The message queue of src/ipc.c.  Messages live in slots linked by next  *)
(* pointers, on the queue or on the free list; a message is copied while   *)
(* its slot is on neither, with interrupts enabled.  item[t] is the slot   *)
(* in the hands of thread t.                                               *)
(***************************************************************************)
EXTENDS Retry

CONSTANTS
    Queues,      \* the objects that are message queues
    Messages,    \* the contents sent
    MqSize,      \* mq->max_msgs
    MqFlag,      \* RT_IPC_FLAG_FIFO or RT_IPC_FLAG_PRIO
    MqTimes      \* waiting times given to rt_mq_recv

ASSUME MessageQueueAssumption ==
    /\ Queues \subseteq Objects \intersect WaitLists
    /\ None \notin Messages
    /\ MqSize \in Nat \ {0}
    /\ None \notin 1 .. MqSize
    /\ MqFlag \in {"FIFO", "PRIO"}
    /\ MqTimes \subseteq Times

VARIABLE mq   \* the control blocks and pools of the message queues

Slots == 1 .. MqSize
Pointer == Slots \union {None}

MqPlaces == {"mq_filled", "mq_urgent", "mqr_sched", "mqr_woken", "mqr_copy",
             "mqd_test", "mqd_wake"}

MqState ==
    [next : [Slots -> Pointer], data : [Slots -> Messages \union {None}],
     head : Pointer, tail : Pointer, free : Pointer, entry : 0 .. MqSize]

\* rt_mq_init and rt_mq_create push the slots on the free list in order.
MqInit ==
    mq = [m \in Queues |->
            [next |-> [s \in Slots |-> IF s = 1 THEN None ELSE s - 1],
             data |-> [s \in Slots |-> None],
             head |-> None, tail |-> None, free |-> MqSize, entry |-> 0]]

-----------------------------------------------------------------------------
(* The list operations, each inside a critical section of its caller.      *)

Allocated(m) == [m EXCEPT !.free = m.next[m.free]]

\* msg->next = RT_NULL and the copy, on a slot that only the caller knows of,
\* then the link to the tail.
LinkedLast(m, s, v) ==
    LET new == [m EXCEPT !.data[s] = v, !.next[s] = None]
        old == IF new.tail = None THEN new ELSE [new EXCEPT !.next[new.tail] = s]
    IN  [old EXCEPT !.tail = s, !.head = IF @ = None THEN s ELSE @, !.entry = @ + 1]

\* Mutation: the tail is not set when the queue was empty.
LinkedFirst_NoTail(m, s, v) ==
    [m EXCEPT !.data[s] = v, !.next[s] = m.head, !.head = s, !.entry = @ + 1]

LinkedFirst(m, s, v) ==
    [m EXCEPT !.data[s] = v, !.next[s] = m.head, !.head = s,
              !.tail = IF @ = None THEN s ELSE @, !.entry = @ + 1]

Unlinked(m) ==
    [m EXCEPT !.head = m.next[m.head],
              !.tail = IF @ = m.head THEN None ELSE @, !.entry = @ - 1]

Freed(m, s) == [m EXCEPT !.next[s] = m.free, !.free = s]

\* The slots linked from s, in order; a cycle shows as one slot too many.
Chain(m, s) ==
    LET at[i \in 1 .. (MqSize + 1)] ==
            IF i = 1 THEN s
            ELSE IF at[i - 1] = None THEN None ELSE m.next[at[i - 1]]
    IN  [i \in 1 .. Cardinality({j \in 1 .. (MqSize + 1) : at[j] # None}) |-> at[i]]

-----------------------------------------------------------------------------
(* rt_mq_send and rt_mq_urgent: a slot is taken, filled and linked.        *)

Allocate(t, m, place) ==
    /\ Calls(t, m)
    /\ \/ /\ mq[m].free # None
          /\ mq' = [mq EXCEPT ![m] = Allocated(@)]
          /\ Proceed(t, m, place)
          /\ item' = [item EXCEPT ![t] = mq[m].free]
       \/ mq[m].free = None /\ UNCHANGED <<mq, pc, arg, item>>
    /\ UNCHANGED <<k, isr, alive, left>>

rt_mq_send(t, m) == Allocate(t, m, "mq_filled")

rt_mq_urgent(t, m) == Allocate(t, m, "mq_urgent")

\* Mutation: the receiver that waits is not woken.
SendLink_Silent(t, v) ==
    /\ At(t, "mq_filled")
    /\ mq' = [mq EXCEPT ![arg[t]] = LinkedLast(@, item[t], v)]
    /\ Leave(t)
    /\ UNCHANGED <<k, isr, alive>>

SendLink(t, v) ==
    /\ At(t, "mq_filled")
    /\ mq' = [mq EXCEPT ![arg[t]] = LinkedLast(@, item[t], v)]
    /\ WakeAndLeave(t, arg[t])
    /\ UNCHANGED <<isr, alive>>

UrgentLink(t, v) ==
    /\ At(t, "mq_urgent")
    /\ mq' = [mq EXCEPT ![arg[t]] = LinkedFirst(@, item[t], v)]
    /\ WakeAndLeave(t, arg[t])
    /\ UNCHANGED <<isr, alive>>

\* Both calls from an interrupt handler; without a free slot they do nothing.
IsrSendMessage(m, v) ==
    /\ isr = "none"
    /\ m \in alive
    /\ mq[m].free # None
    /\ \/ mq' = [mq EXCEPT ![m] = LinkedLast(Allocated(@), mq[m].free, v)]
       \/ mq' = [mq EXCEPT ![m] = LinkedFirst(Allocated(@), mq[m].free, v)]
    /\ IsrWake(m)
    /\ UNCHANGED <<isr, pc, arg, alive, left, item>>

-----------------------------------------------------------------------------
(* rt_mq_recv                                                              *)

\* The first message leaves the queue and is copied from its slot.
Dequeue(t, m) ==
    /\ mq[m].entry # 0
    /\ mq' = [mq EXCEPT ![m] = Unlinked(@)]
    /\ item' = [item EXCEPT ![t] = mq[m].head]
    /\ left' = [left EXCEPT ![t] = "zero"]
    /\ Proceed(t, m, "mqr_copy")
    /\ UNCHANGED k

MqBlock(t, m, time) ==
    /\ mq[m].entry = 0
    /\ Block(t, m, m, MqFlag, time, None, "mqr_sched")
    /\ UNCHANGED mq

rt_mq_recv(t, m, time) ==
    /\ Calls(t, m)
    /\ \/ Dequeue(t, m)
       \/ MqBlock(t, m, time)
       \/ mq[m].entry = 0 /\ time = "zero" /\ Leave(t) /\ UNCHANGED <<k, mq>>
    /\ UNCHANGED <<isr, alive>>

MqWoken(t) ==
    /\ At(t, "mqr_woken")
    /\ \/ Failed(t) /\ UNCHANGED mq
       \/ /\ k.err[t] = "EOK"
          /\ \E time \in TimeLeft(left[t]) :
                \/ Dequeue(t, arg[t])
                \/ MqBlock(t, arg[t], time)
                \/ mq[arg[t]].entry = 0 /\ TimedOut(t, time) /\ UNCHANGED mq
    /\ UNCHANGED <<isr, alive>>

\* The copy to the caller's buffer is complete, the slot goes back.
RecvFree(t) ==
    /\ At(t, "mqr_copy")
    /\ mq' = [mq EXCEPT ![arg[t]] = Freed(@, item[t])]
    /\ Leave(t)
    /\ UNCHANGED <<k, isr, alive>>

-----------------------------------------------------------------------------
\* The loop of rt_mq_control(RT_IPC_CMD_RESET): while there is a first message,
\* it is unlinked and its slot freed.
Drained(m) ==
    LET turn[n \in 0 .. MqSize] ==
            IF n = 0 THEN m
            ELSE IF turn[n - 1].head = None THEN turn[n - 1]
            ELSE Freed(Unlinked(turn[n - 1]), turn[n - 1].head)
    IN  [turn[MqSize] EXCEPT !.entry = 0]

rt_mq_control(t, m) ==
    /\ Calls(t, m)
    /\ k' = rt_ipc_list_resume_all(k, m)
    /\ mq' = [mq EXCEPT ![m] = Drained(@)]
    /\ LeaveVia(t, "ret_sched")
    /\ UNCHANGED <<isr, alive>>

\* rt_mq_detach and rt_mq_delete.
rt_mq_detach(t, m) == DetachCall(t, m, "mqd_test")

MqDetachSteps(t) ==
    \/ ResumeAllTest(t, arg[t], "mqd_test", "mqd_wake", "det_object")
    \/ ResumeAllWake(t, arg[t], "mqd_wake", "mqd_test")

-----------------------------------------------------------------------------
MqCall(t) ==
    \E m \in Queues :
        \/ rt_mq_send(t, m)
        \/ rt_mq_urgent(t, m)
        \/ \E time \in MqTimes : rt_mq_recv(t, m, time)
        \/ rt_mq_control(t, m)
        \/ rt_mq_detach(t, m) /\ UNCHANGED <<left, item, mq>>

MqStep(t) ==
    \/ \E v \in Messages : SendLink(t, v) \/ UrgentLink(t, v)
    \/ MqWoken(t)
    \/ RecvFree(t)
    \/ /\ Resched(t, "mqr_sched", "mqr_woken") \/ MqDetachSteps(t)
       /\ UNCHANGED <<left, item, mq>>

MqIsr == \E m \in Queues, v \in Messages : IsrSendMessage(m, v)

-----------------------------------------------------------------------------
MqTypeOK == mq \in [Queues -> MqState]

\* The messages on the queue, first to be received first.
MessagesIn(m) == LET c == Chain(mq[m], mq[m].head) IN [i \in 1 .. Len(c) |-> mq[m].data[c[i]]]

\* The message that rt_mq_recv is copying.
MessageGot(t) == IF pc[t] = "mqr_copy" THEN mq[arg[t]].data[item[t]] ELSE None

\* Every slot is on the queue, on the free list or in the hands of one thread
\* that copies to or from it, and on one of them only; the tail pointer and the
\* number of entries agree with the chain.  Senders, receivers and interrupt
\* handlers take and put slots in between, and a reset drains the queue while
\* copies go on.
SlotsAccounted ==
    \A m \in Queues :
        LET queue == Chain(mq[m], mq[m].head)
            free == Chain(mq[m], mq[m].free)
            holders == {t \in Threads : pc[t] \in {"mq_filled", "mq_urgent", "mqr_copy"}
                                        /\ arg[t] = m}
        IN  /\ IsInjective(queue \o free)
            /\ Len(queue) = mq[m].entry
            /\ mq[m].tail = (IF queue = <<>> THEN None ELSE Last(queue))
            /\ \A t \in holders : item[t] \in Slots \ ToSet(queue \o free)
            /\ \A t, u \in holders : item[t] = item[u] => t = u
            /\ Len(queue) + Len(free) + Cardinality(holders) = MqSize

\* No lost wake-up: while a receiver waits, every message on the queue is
\* matched by a receiver already woken that has yet to look.
NoMessageWhileWaiting ==
    \A m \in Queues :
        k.wait[m] # <<>> =>
            mq[m].entry <= Cardinality(Looking(m, {"mqr_sched", "mqr_woken"}))
=============================================================================
