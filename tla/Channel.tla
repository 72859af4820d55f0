------------------------------- MODULE Channel -------------------------------
(***************************************************************************)
(* What RT-Thread's message services promise: bounded first-in first-out   *)
(* channels.  A message that was accepted is delivered once, to one        *)
(* receiver, in the order of acceptance, unless the channel is reset; an   *)
(* urgent one goes to the front.  Mailbox, MessageQueue and DataQueue      *)
(* implement it.                                                           *)
(***************************************************************************)
EXTENDS Integers, Sequences

CONSTANTS
    Channels,     \* the channels
    Receivers,    \* who may receive
    Payloads,     \* what may be sent
    Capacity,     \* per channel, how many messages it holds at most
    Urgent,       \* the channels in which a message may be put in front
    None          \* no message

VARIABLES
    q,     \* per channel, the messages accepted and not yet delivered
    got    \* per receiver, the message it has been given and not yet used

chanVars == <<q, got>>

Init ==
    /\ q = [c \in Channels |-> <<>>]
    /\ got = [t \in Receivers |-> None]

Send(c, v) ==
    /\ Len(q[c]) < Capacity[c]
    /\ q' = [q EXCEPT ![c] = Append(@, v)]
    /\ UNCHANGED got

SendUrgent(c, v) ==
    /\ c \in Urgent
    /\ Len(q[c]) < Capacity[c]
    /\ q' = [q EXCEPT ![c] = <<v>> \o @]
    /\ UNCHANGED got

Receive(c, t) ==
    /\ q[c] # <<>>
    /\ got[t] = None
    /\ q' = [q EXCEPT ![c] = Tail(@)]
    /\ got' = [got EXCEPT ![t] = Head(q[c])]

Use(t) ==
    /\ got[t] # None
    /\ got' = [got EXCEPT ![t] = None]
    /\ UNCHANGED q

Reset(c) ==
    /\ q' = [q EXCEPT ![c] = <<>>]
    /\ UNCHANGED got

Next ==
    \/ \E c \in Channels :
          \/ \E v \in Payloads : Send(c, v) \/ SendUrgent(c, v)
          \/ \E t \in Receivers : Receive(c, t)
          \/ Reset(c)
    \/ \E t \in Receivers : Use(t)

Spec == Init /\ [][Next]_chanVars
=============================================================================
