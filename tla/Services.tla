------------------------------ MODULE Services ------------------------------
(***************************************************************************)
(* One kernel with all its communication services.  The services meet in   *)
(* the ready queue, the suspend lists and the thread timers.  An           *)
(* application makes use of some objects, the set `alive' of the initial   *)
(* state; Applications lists the possible choices, so that one check       *)
(* covers each service with every interleaving of its callers, interrupt   *)
(* handlers and the tick.                                                  *)
(***************************************************************************)
EXTENDS Mailbox, MessageQueue, Event, MemPool, Completion, DataQueue

CONSTANTS
    Applications,   \* the sets of objects that an application may use
    Sleepers        \* the users that call rt_thread_sleep between two calls

\* Every object is of one kind, and has its own list heads.
ASSUME ServicesAssumption ==
    /\ Applications \subseteq SUBSET Objects
    /\ Sleepers \subseteq Users
    /\ LET kinds == <<Mailboxes, Queues, Events, Pools, Completions, DataQueues>>
       IN  \A i, j \in 1 .. 6 : i # j => kinds[i] \intersect kinds[j] = {}
    /\ Objects \intersect (Objects \X {"send", "push", "pop"}) = {}

core == <<k, isr, pc, arg, alive>>
retry == <<left, item>>
vars == <<core, retry, mb, mq, evVars, mpVars, completed, dqVars>>

Places == {"run", "ret_sched", "det_object", "sleep_sched", "slept"}
             \union MailPlaces \union MqPlaces \union EvPlaces
             \union MpPlaces \union CpPlaces \union DqPlaces

Init ==
    /\ k = Booted
    /\ isr = "none"
    /\ pc = [t \in Threads |-> "run"]
    /\ arg = [t \in Threads |-> None]
    /\ alive \in Applications
    /\ RetryInit
    /\ MailInit
    /\ MqInit
    /\ EvInit
    /\ MpInit
    /\ CpInit
    /\ DqInit

-----------------------------------------------------------------------------
\* What all services share: the rt_schedule at the end of a call that woke
\* somebody, the end of a detach, sleep.
CommonStep(t) ==
    \/ Resched(t, "ret_sched", "run")
    \/ DetachObject(t)
    \/ t \in Sleepers /\ rt_thread_sleep(t)
    \/ SleepSteps(t)

MailNext == MailIsr \/ \E t \in Threads : MailCall(t) \/ MailStep(t)

MqNext == MqIsr \/ \E t \in Threads : MqCall(t) \/ MqStep(t)

EvNext == EvIsr \/ \E t \in Threads : EvCall(t) \/ EvStep(t)

MpNext == MpIsr \/ \E t \in Threads : MpCall(t) \/ MpStep(t)

CpNext == CpIsr \/ \E t \in Threads : CpCall(t) \/ CpStep(t)

DqNext == DqIsr \/ \E t \in Threads : DqCall(t) \/ DqStep(t)

Outside == UNCHANGED <<retry, mb, mq, evVars, mpVars, completed, dqVars>>

Next ==
    \/ Tick /\ UNCHANGED <<pc, arg, alive>> /\ Outside
    \/ (\E t \in Threads : CommonStep(t)) /\ Outside
    \/ MailNext /\ UNCHANGED <<mq, evVars, mpVars, completed, dqVars>>
    \/ MqNext /\ UNCHANGED <<mb, evVars, mpVars, completed, dqVars>>
    \/ EvNext /\ UNCHANGED <<retry, mb, mq, mpVars, completed, dqVars>>
    \/ MpNext /\ UNCHANGED <<mb, mq, evVars, completed, dqVars>>
    \/ CpNext /\ UNCHANGED <<retry, mb, mq, evVars, mpVars, dqVars>>
    \/ DqNext /\ UNCHANGED <<mb, mq, evVars, mpVars, completed>>

Spec == Init /\ [][Next]_vars

-----------------------------------------------------------------------------
TypeOK ==
    /\ k \in KernelState
    /\ isr \in {"none", "tick", "timeout"}
    /\ pc \in [Threads -> Places]
    /\ arg \in [Threads -> Objects \union {None}]
    /\ alive \subseteq Objects
    /\ left \in [Threads -> Times]
    /\ MailTypeOK
    /\ MqTypeOK
    /\ EvTypeOK
    /\ MpTypeOK
    /\ CpTypeOK
    /\ DqTypeOK

\* Lists, bitmap, thread states and timers agree while all services put threads
\* on their suspend lists and take them off, in their own ways.
KernelConsistent == KernelOK(k)

-----------------------------------------------------------------------------
(* Mailbox, message queue and data queue as channels.                      *)

Held(t) ==
    IF MailGot(t) # None THEN MailGot(t)
    ELSE IF MessageGot(t) # None THEN MessageGot(t) ELSE DataGot(t)

Abstract == INSTANCE Channel WITH
    Channels  <- Mailboxes \union Queues \union DataQueues,
    Receivers <- Threads,
    Payloads  <- Mails \union Messages \union Data,
    Capacity  <- [c \in Mailboxes \union Queues \union DataQueues |->
                    IF c \in Mailboxes THEN MbSize ELSE IF c \in Queues THEN MqSize ELSE DqSize],
    Urgent    <- Queues,
    q         <- [c \in Mailboxes \union Queues \union DataQueues |->
                    IF c \in Mailboxes THEN MailsIn(c)
                    ELSE IF c \in Queues THEN MessagesIn(c) ELSE DataIn(c)],
    got       <- [t \in Threads |-> Held(t)]

\* Each of the three message services is a bounded first-in first-out channel:
\* what was accepted is delivered once, in order, whatever interrupts, retries,
\* timeouts and copies outside the critical sections do.
DeliversInOrder == Abstract!Spec
=============================================================================
