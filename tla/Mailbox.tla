------------------------------- MODULE Mailbox -------------------------------
(***************************************************************************)
(* The mailbox of src/ipc.c: a ring of word-sized mails with two suspend   *)
(* lists, one for receivers and one for senders.  A woken thread owns      *)
(* nothing: it looks at the ring again, and waits for the rest of its time *)
(* if another thread was faster.                                           *)
(***************************************************************************)
EXTENDS Retry

CONSTANTS
    Mailboxes,   \* the objects that are mailboxes
    Mails,       \* the values sent
    MbSize,      \* mb->size
    MbFlag,      \* RT_IPC_FLAG_FIFO or RT_IPC_FLAG_PRIO
    MbTimes      \* waiting times given to rt_mb_send_wait and rt_mb_recv

\* The additional list of suspended senders; the parent's list is b itself.
suspend_sender_thread(b) == <<b, "send">>

ASSUME MailboxAssumption ==
    /\ Mailboxes \subseteq Objects
    /\ \A b \in Mailboxes : {b, suspend_sender_thread(b)} \subseteq WaitLists
    /\ None \notin Mails
    /\ MbSize \in Nat \ {0}
    /\ MbFlag \in {"FIFO", "PRIO"}
    /\ MbTimes \subseteq Times

VARIABLE mb   \* the control blocks of the mailboxes

MailPlaces == {"mbs_sched", "mbs_woken", "mbr_sched", "mbr_woken",
               "mb_got", "mb_got_sched",
               "mbd_test", "mbd_wake", "mbd_test2", "mbd_wake2"}

MailboxState ==
    [msg_pool : [0 .. (MbSize - 1) -> Mails \union {None}],
     entry : 0 .. MbSize, in_offset : 0 .. (MbSize - 1), out_offset : 0 .. (MbSize - 1)]

\* rt_mb_init and rt_mb_create.
MailInit ==
    mb = [b \in Mailboxes |->
            [msg_pool |-> [i \in 0 .. (MbSize - 1) |-> None],
             entry |-> 0, in_offset |-> 0, out_offset |-> 0]]

\* Mutation: the offset wraps one slot too late.
Advance_Late(offset) == IF offset + 1 > MbSize THEN 0 ELSE offset + 1

Advance(offset) == IF offset + 1 >= MbSize THEN 0 ELSE offset + 1

-----------------------------------------------------------------------------
(* rt_mb_send_wait and rt_mb_send                                          *)

\* Mutation: the offset is advanced before the mail is written.
Deposit_Late(b, v) ==
    /\ mb[b].entry # MbSize
    /\ mb' = [mb EXCEPT ![b].msg_pool[Advance(mb[b].in_offset)] = v,
                        ![b].in_offset = Advance(@),
                        ![b].entry = @ + 1]

Deposit(b, v) ==
    /\ mb[b].entry # MbSize
    /\ mb' = [mb EXCEPT ![b].msg_pool[mb[b].in_offset] = v,
                        ![b].in_offset = Advance(@),
                        ![b].entry = @ + 1]

SendMail(t, b, v) == Deposit(b, v) /\ WakeAndLeave(t, b)

SendBlock(t, b, v, time) ==
    /\ mb[b].entry = MbSize
    /\ Block(t, b, suspend_sender_thread(b), MbFlag, time, v, "mbs_sched")
    /\ UNCHANGED mb

\* -RT_EFULL, no time left to wait.
SendFull(t, b, time) ==
    /\ mb[b].entry = MbSize
    /\ time = "zero"
    /\ Leave(t)
    /\ UNCHANGED <<k, mb>>

SendTurn(t, b, v, time) ==
    \/ SendMail(t, b, v)
    \/ SendBlock(t, b, v, time)
    \/ SendFull(t, b, time)

rt_mb_send_wait(t, b, v, time) ==
    /\ Calls(t, b)
    /\ SendTurn(t, b, v, time)
    /\ UNCHANGED <<isr, alive>>

\* The sender runs again: an error ends the call, else one turn of the loop.
SendWoken(t) ==
    /\ At(t, "mbs_woken")
    /\ \/ Failed(t) /\ UNCHANGED mb
       \/ /\ k.err[t] = "EOK"
          /\ \E time \in TimeLeft(left[t]) : SendTurn(t, arg[t], item[t], time)
    /\ UNCHANGED <<isr, alive>>

\* rt_mb_send from an interrupt handler; on a full mailbox it does nothing.
IsrSendMail(b, v) ==
    /\ isr = "none"
    /\ b \in alive
    /\ Deposit(b, v)
    /\ IsrWake(b)
    /\ UNCHANGED <<isr, pc, arg, alive, left, item>>

-----------------------------------------------------------------------------
(* rt_mb_recv                                                              *)

\* Mutation: the senders' list is not looked at.
Collect_KeepsSenders(t, b) ==
    /\ mb[b].entry # 0
    /\ mb' = [mb EXCEPT ![b].out_offset = Advance(@), ![b].entry = @ - 1]
    /\ item' = [item EXCEPT ![t] = mb[b].msg_pool[mb[b].out_offset]]
    /\ left' = [left EXCEPT ![t] = "zero"]
    /\ Proceed(t, b, "mb_got")
    /\ UNCHANGED k

\* The oldest mail leaves the ring, and a sender that waits for room is woken.
Collect(t, b) ==
    /\ mb[b].entry # 0
    /\ mb' = [mb EXCEPT ![b].out_offset = Advance(@), ![b].entry = @ - 1]
    /\ item' = [item EXCEPT ![t] = mb[b].msg_pool[mb[b].out_offset]]
    /\ left' = [left EXCEPT ![t] = "zero"]
    /\ IF k.wait[suspend_sender_thread(b)] # <<>>
       THEN /\ k' = rt_ipc_list_resume(k, suspend_sender_thread(b))
            /\ Proceed(t, b, "mb_got_sched")
       ELSE UNCHANGED k /\ Proceed(t, b, "mb_got")

RecvBlock(t, b, time) ==
    /\ mb[b].entry = 0
    /\ Block(t, b, b, MbFlag, time, None, "mbr_sched")
    /\ UNCHANGED mb

\* A first look that may not wait returns at once and leaves the error code.
rt_mb_recv(t, b, time) ==
    /\ Calls(t, b)
    /\ \/ Collect(t, b)
       \/ RecvBlock(t, b, time)
       \/ mb[b].entry = 0 /\ time = "zero" /\ Leave(t) /\ UNCHANGED <<k, mb>>
    /\ UNCHANGED <<isr, alive>>

RecvWoken(t) ==
    /\ At(t, "mbr_woken")
    /\ \/ Failed(t) /\ UNCHANGED mb
       \/ /\ k.err[t] = "EOK"
          /\ \E time \in TimeLeft(left[t]) :
                \/ Collect(t, arg[t])
                \/ RecvBlock(t, arg[t], time)
                \/ mb[arg[t]].entry = 0 /\ TimedOut(t, time) /\ UNCHANGED mb
    /\ UNCHANGED <<isr, alive>>

\* The call returns RT_EOK and the mail.
RecvReturn(t) ==
    /\ At(t, "mb_got")
    /\ Leave(t)
    /\ UNCHANGED <<k, isr, alive, mb>>

-----------------------------------------------------------------------------
\* rt_mb_control(RT_IPC_CMD_RESET): everyone waiting fails, the mails are lost.
rt_mb_control(t, b) ==
    /\ Calls(t, b)
    /\ k' = rt_ipc_list_resume_all(rt_ipc_list_resume_all(k, b), suspend_sender_thread(b))
    /\ mb' = [mb EXCEPT ![b].entry = 0, ![b].in_offset = 0, ![b].out_offset = 0]
    /\ LeaveVia(t, "ret_sched")
    /\ UNCHANGED <<isr, alive>>

\* rt_mb_detach and rt_mb_delete: first the receivers, then the senders.
rt_mb_detach(t, b) == DetachCall(t, b, "mbd_test")

MailDetachSteps(t) ==
    \/ ResumeAllTest(t, arg[t], "mbd_test", "mbd_wake", "mbd_test2")
    \/ ResumeAllWake(t, arg[t], "mbd_wake", "mbd_test")
    \/ ResumeAllTest(t, suspend_sender_thread(arg[t]), "mbd_test2", "mbd_wake2", "det_object")
    \/ ResumeAllWake(t, suspend_sender_thread(arg[t]), "mbd_wake2", "mbd_test2")

-----------------------------------------------------------------------------
MailCall(t) ==
    \E b \in Mailboxes :
        \/ \E v \in Mails, time \in MbTimes : rt_mb_send_wait(t, b, v, time)
        \/ \E time \in MbTimes : rt_mb_recv(t, b, time)
        \/ rt_mb_control(t, b)
        \/ rt_mb_detach(t, b) /\ UNCHANGED <<left, item, mb>>

MailStep(t) ==
    \/ SendWoken(t)
    \/ RecvWoken(t)
    \/ RecvReturn(t)
    \/ /\ \/ Resched(t, "mbs_sched", "mbs_woken")
          \/ Resched(t, "mbr_sched", "mbr_woken")
          \/ Resched(t, "mb_got_sched", "mb_got")
          \/ MailDetachSteps(t)
       /\ UNCHANGED <<left, item, mb>>

MailIsr == \E b \in Mailboxes, v \in Mails : IsrSendMail(b, v)

-----------------------------------------------------------------------------
MailTypeOK == mb \in [Mailboxes -> MailboxState]

\* The mails in the ring, oldest first: the abstract channel's contents.
MailsIn(b) ==
    [i \in 1 .. mb[b].entry |-> mb[b].msg_pool[(mb[b].out_offset + i - 1) % MbSize]]

\* The mail that rt_mb_recv has taken out of the ring and not yet returned.
MailGot(t) == IF pc[t] \in {"mb_got", "mb_got_sched"} THEN item[t] ELSE None

\* No lost wake-up in either direction.  While a receiver waits, every mail in
\* the ring is matched by a receiver already woken that has yet to look; while
\* a sender waits, so is every free slot.  Interrupts are enabled between the
\* wake-up and the look, so another thread may get there first.
NoMailWhileWaiting ==
    \A b \in Mailboxes :
        /\ k.wait[b] # <<>> =>
              mb[b].entry <= Cardinality(Looking(b, {"mbr_sched", "mbr_woken"}))
        /\ k.wait[suspend_sender_thread(b)] # <<>> =>
              MbSize - mb[b].entry <= Cardinality(Looking(b, {"mbs_sched", "mbs_woken"}))
=============================================================================
