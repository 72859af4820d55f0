---------------------------- MODULE KernelProofs ----------------------------
(***************************************************************************)
(* Every kernel operation of module Kernel keeps the ready queues, the     *)
(* bitmap, the suspend lists, the timers and the thread states in          *)
(* agreement (KernelOK), for any number of threads, priorities and lists.  *)
(* Each lemma also says what the operation leaves alone.  The second half  *)
(* has the kinds of step that kernel calls are made of: wake, suspend,     *)
(* reschedule or leave everybody where they are.  The proofs about the     *)
(* services are built on these.                                            *)
(***************************************************************************)
EXTENDS Ipc, ListLemmas

\* QueueOK for every thread but t, which is on no list: the state between the
\* removal of a thread's list node and its insertion somewhere else.
FreeOf(ks, t) ==
    /\ ks \in KernelState
    /\ \A p \in Prio : IsInjective(ks.ready[p])
    /\ \A p \in Prio, x \in Threads :
          x \in ToSet(ks.ready[p]) <=> x # t /\ ks.stat[x] = "ready" /\ ks.prio[x] = p
    /\ \A p \in Prio : p \in ks.group <=> ks.ready[p] # <<>>
    /\ \A w \in WaitLists : IsInjective(ks.wait[w])
    /\ \A w \in WaitLists : \A x \in ToSet(ks.wait[w]) : x # t /\ ks.stat[x] = "suspend"
    /\ \A v, w \in WaitLists : \A x \in ToSet(ks.wait[v]) :
          x \in ToSet(ks.wait[w]) => v = w
    /\ IsInjective(ks.defunct)
    /\ \A x \in ToSet(ks.defunct) : x # t /\ ks.stat[x] = "close"
    /\ \A x \in ks.timers : x # t => ks.stat[x] = "suspend"

LEMMA PrioNat == Prio \subseteq Nat
BY KernelAssumption DEF Prio

\* rt_list_remove on every list at once.
LEMMA UnlinkFields ==
    ASSUME NEW ks, NEW t \in Threads, QueueOK(ks)
    PROVE  LET u == Unlink(ks, t) IN
           /\ u \in KernelState
           /\ u.stat = ks.stat /\ u.prio = ks.prio /\ u.err = ks.err
           /\ u.group = ks.group /\ u.timers = ks.timers
           /\ u.cur = ks.cur /\ u.lock = ks.lock
           /\ \A p \in Prio : /\ IsInjective(u.ready[p])
                              /\ ToSet(u.ready[p]) = ToSet(ks.ready[p]) \ {t}
           /\ \A w \in WaitLists : /\ IsInjective(u.wait[w])
                                   /\ ToSet(u.wait[w]) = ToSet(ks.wait[w]) \ {t}
                                   /\ t \notin ToSet(ks.wait[w]) => u.wait[w] = ks.wait[w]
           /\ IsInjective(u.defunct)
           /\ ToSet(u.defunct) = ToSet(ks.defunct) \ {t}
<1>. DEFINE u == Unlink(ks, t)
<1>1. /\ ks \in KernelState
      /\ \A p \in Prio : IsInjective(ks.ready[p])
      /\ \A w \in WaitLists : IsInjective(ks.wait[w])
      /\ IsInjective(ks.defunct)
  BY DEF QueueOK, ReadyOK, WaitOK, DefunctOK
<1>2. /\ \A p \in Prio : ks.ready[p] \in Seq(Threads)
      /\ \A w \in WaitLists : ks.wait[w] \in Seq(Threads)
      /\ ks.defunct \in Seq(Threads)
  BY <1>1 DEF KernelState
<1>3. /\ u.ready = [p \in Prio |-> RemoveFirst(ks.ready[p], t)]
      /\ u.wait = [w \in WaitLists |-> RemoveFirst(ks.wait[w], t)]
      /\ u.defunct = RemoveFirst(ks.defunct, t)
      /\ u.stat = ks.stat /\ u.prio = ks.prio /\ u.err = ks.err
      /\ u.group = ks.group /\ u.timers = ks.timers
      /\ u.cur = ks.cur /\ u.lock = ks.lock
  BY <1>1 DEF Unlink, KernelState
<1>4. \A p \in Prio : /\ u.ready[p] \in Seq(Threads) /\ IsInjective(u.ready[p])
                      /\ ToSet(u.ready[p]) = ToSet(ks.ready[p]) \ {t}
  BY <1>1, <1>2, <1>3, RemoveFacts
<1>5. \A w \in WaitLists : /\ u.wait[w] \in Seq(Threads) /\ IsInjective(u.wait[w])
                           /\ ToSet(u.wait[w]) = ToSet(ks.wait[w]) \ {t}
                           /\ t \notin ToSet(ks.wait[w]) => u.wait[w] = ks.wait[w]
  BY <1>1, <1>2, <1>3, RemoveFacts, RemoveAbsent
<1>6. /\ u.defunct \in Seq(Threads) /\ IsInjective(u.defunct)
      /\ ToSet(u.defunct) = ToSet(ks.defunct) \ {t}
  BY <1>1, <1>2, <1>3, RemoveFacts
<1>7. u \in KernelState
  <2>1. \A p \in Prio : RemoveFirst(ks.ready[p], t) \in Seq(Threads)
    BY <1>3, <1>4
  <2>2. \A w \in WaitLists : RemoveFirst(ks.wait[w], t) \in Seq(Threads)
    BY <1>3, <1>5
  <2>3. RemoveFirst(ks.defunct, t) \in Seq(Threads)
    BY <1>3, <1>6
  <2>. QED BY <1>1, <2>1, <2>2, <2>3 DEF Unlink, KernelState
<1>. QED BY <1>3, <1>4, <1>5, <1>6, <1>7

\* A thread that is not ready leaves the lists without touching the bitmap.
LEMMA UnlinkFrees ==
    ASSUME NEW ks, NEW t \in Threads, QueueOK(ks), ks.stat[t] # "ready"
    PROVE  FreeOf(Unlink(ks, t), t)
<1>. DEFINE u == Unlink(ks, t)
<1>1. /\ ks \in KernelState
      /\ \A p \in Prio : p \in ks.group <=> ks.ready[p] # <<>>
      /\ \A p \in Prio, x \in Threads :
            x \in ToSet(ks.ready[p]) <=> ks.stat[x] = "ready" /\ ks.prio[x] = p
      /\ \A w \in WaitLists : \A x \in ToSet(ks.wait[w]) : ks.stat[x] = "suspend"
      /\ \A v, w \in WaitLists : \A x \in ToSet(ks.wait[v]) :
            x \in ToSet(ks.wait[w]) => v = w
      /\ \A x \in ToSet(ks.defunct) : ks.stat[x] = "close"
      /\ \A x \in ks.timers : ks.stat[x] = "suspend"
  BY DEF QueueOK, ReadyOK, WaitOK, DefunctOK, TimersOK
<1>2. /\ u \in KernelState
      /\ u.stat = ks.stat /\ u.prio = ks.prio
      /\ u.group = ks.group /\ u.timers = ks.timers
      /\ \A p \in Prio : /\ IsInjective(u.ready[p])
                         /\ ToSet(u.ready[p]) = ToSet(ks.ready[p]) \ {t}
      /\ \A w \in WaitLists : /\ IsInjective(u.wait[w])
                              /\ ToSet(u.wait[w]) = ToSet(ks.wait[w]) \ {t}
      /\ IsInjective(u.defunct)
      /\ ToSet(u.defunct) = ToSet(ks.defunct) \ {t}
  BY UnlinkFields
<1>. HIDE DEF u
<1>3. \A p \in Prio : u.ready[p] # <<>> <=> ks.ready[p] # <<>>
  <2>. SUFFICES ASSUME NEW p \in Prio PROVE u.ready[p] # <<>> <=> ks.ready[p] # <<>>
    OBVIOUS
  <2>1. u.ready[p] \in Seq(Threads) /\ ks.ready[p] \in Seq(Threads)
    BY <1>1, <1>2 DEF KernelState
  <2>2. t \notin ToSet(ks.ready[p]) /\ ToSet(u.ready[p]) = ToSet(ks.ready[p]) \ {t}
    BY <1>1, <1>2
  <2>3. ToSet(u.ready[p]) = ToSet(ks.ready[p])
    BY <2>2, Zenon
  <2>. QED BY <2>1, <2>3, NonEmptyMono
<1>4. \A p \in Prio : p \in u.group <=> u.ready[p] # <<>>
  BY <1>1, <1>2, <1>3
<1>5. \A p \in Prio, x \in Threads :
         x \in ToSet(u.ready[p]) <=> x # t /\ u.stat[x] = "ready" /\ u.prio[x] = p
  BY <1>1, <1>2
<1>6. \A w \in WaitLists : \A x \in ToSet(u.wait[w]) : x # t /\ u.stat[x] = "suspend"
  <2>. SUFFICES ASSUME NEW w \in WaitLists, NEW x \in ToSet(u.wait[w])
                PROVE  x # t /\ u.stat[x] = "suspend"
    OBVIOUS
  <2>1. x \in ToSet(ks.wait[w]) /\ x # t
    BY <1>1, <1>2
  <2>. QED BY <1>1, <1>2, <2>1
<1>6a. \A v, w \in WaitLists : \A x \in ToSet(u.wait[v]) :
          x \in ToSet(u.wait[w]) => v = w
  <2>. SUFFICES ASSUME NEW v \in WaitLists, NEW w \in WaitLists,
                       NEW x \in ToSet(u.wait[v]), x \in ToSet(u.wait[w])
                PROVE  v = w
    OBVIOUS
  <2>1. x \in ToSet(ks.wait[v]) /\ x \in ToSet(ks.wait[w])
    BY <1>1, <1>2
  <2>. QED BY <1>1, <2>1
<1>7. \A x \in ToSet(u.defunct) : x # t /\ u.stat[x] = "close"
  BY <1>1, <1>2
<1>8. FreeOf(u, t)
  BY <1>1, <1>2, <1>4, <1>5, <1>6, <1>6a, <1>7 DEF FreeOf
<1>. QED BY <1>8 DEF u

\* rt_schedule_remove_thread clears the bit of the queue it empties, and no
\* other bit.
LEMMA RemoveFrees ==
    ASSUME NEW ks, NEW t \in Threads, QueueOK(ks)
    PROVE  LET r == rt_schedule_remove_thread(ks, t) IN
           /\ FreeOf(r, t)
           /\ r.stat = ks.stat /\ r.prio = ks.prio /\ r.err = ks.err
           /\ r.timers = ks.timers /\ r.cur = ks.cur /\ r.lock = ks.lock
           /\ \A w \in WaitLists : /\ ToSet(r.wait[w]) = ToSet(ks.wait[w]) \ {t}
                                   /\ t \notin ToSet(ks.wait[w]) => r.wait[w] = ks.wait[w]
<1>. DEFINE u == Unlink(ks, t)
            r == rt_schedule_remove_thread(ks, t)
            q == ks.prio[t]
<1>1. /\ ks \in KernelState
      /\ \A p \in Prio : p \in ks.group <=> ks.ready[p] # <<>>
      /\ \A p \in Prio, x \in Threads :
            x \in ToSet(ks.ready[p]) <=> ks.stat[x] = "ready" /\ ks.prio[x] = p
      /\ \A w \in WaitLists : \A x \in ToSet(ks.wait[w]) : ks.stat[x] = "suspend"
      /\ \A v, w \in WaitLists : \A x \in ToSet(ks.wait[v]) :
            x \in ToSet(ks.wait[w]) => v = w
      /\ \A x \in ToSet(ks.defunct) : ks.stat[x] = "close"
      /\ \A x \in ks.timers : ks.stat[x] = "suspend"
  BY DEF QueueOK, ReadyOK, WaitOK, DefunctOK, TimersOK
<1>2. /\ u \in KernelState
      /\ u.stat = ks.stat /\ u.prio = ks.prio /\ u.err = ks.err
      /\ u.group = ks.group /\ u.timers = ks.timers
      /\ u.cur = ks.cur /\ u.lock = ks.lock
      /\ \A p \in Prio : /\ IsInjective(u.ready[p])
                         /\ ToSet(u.ready[p]) = ToSet(ks.ready[p]) \ {t}
      /\ \A w \in WaitLists : /\ IsInjective(u.wait[w])
                              /\ ToSet(u.wait[w]) = ToSet(ks.wait[w]) \ {t}
                              /\ t \notin ToSet(ks.wait[w]) => u.wait[w] = ks.wait[w]
      /\ IsInjective(u.defunct)
      /\ ToSet(u.defunct) = ToSet(ks.defunct) \ {t}
  BY UnlinkFields
<1>3. r = IF u.ready[q] = <<>> THEN [u EXCEPT !.group = @ \ {q}] ELSE u
  BY DEF rt_schedule_remove_thread
<1>. HIDE DEF u, r
<1>4. /\ r \in KernelState
      /\ r.stat = u.stat /\ r.prio = u.prio /\ r.err = u.err
      /\ r.timers = u.timers /\ r.cur = u.cur /\ r.lock = u.lock
      /\ r.ready = u.ready /\ r.wait = u.wait /\ r.defunct = u.defunct
      /\ r.group = IF u.ready[q] = <<>> THEN u.group \ {q} ELSE u.group
  BY <1>2, <1>3 DEF KernelState
<1>5. q \in Prio
  BY <1>1 DEF KernelState
<1>6. \A p \in Prio \ {q} : u.ready[p] # <<>> <=> ks.ready[p] # <<>>
  <2>. SUFFICES ASSUME NEW p \in Prio, p # q PROVE u.ready[p] # <<>> <=> ks.ready[p] # <<>>
    OBVIOUS
  <2>1. u.ready[p] \in Seq(Threads) /\ ks.ready[p] \in Seq(Threads)
    BY <1>1, <1>2 DEF KernelState
  <2>2. t \notin ToSet(ks.ready[p]) /\ ToSet(u.ready[p]) = ToSet(ks.ready[p]) \ {t}
    BY <1>1, <1>2
  <2>3. ToSet(u.ready[p]) = ToSet(ks.ready[p])
    BY <2>2, Zenon
  <2>. QED BY <2>1, <2>3, NonEmptyMono
<1>7. u.ready[q] # <<>> => ks.ready[q] # <<>>
  <2>1. u.ready[q] \in Seq(Threads) /\ ks.ready[q] \in Seq(Threads)
    BY <1>1, <1>2, <1>5 DEF KernelState
  <2>2. ToSet(u.ready[q]) \subseteq ToSet(ks.ready[q])
    BY <1>2, <1>5
  <2>. QED BY <2>1, <2>2, NonEmptyMono
<1>8. \A p \in Prio : p \in r.group <=> r.ready[p] # <<>>
  BY <1>1, <1>2, <1>4, <1>5, <1>6, <1>7
<1>9. \A p \in Prio, x \in Threads :
         x \in ToSet(r.ready[p]) <=> x # t /\ r.stat[x] = "ready" /\ r.prio[x] = p
  BY <1>1, <1>2, <1>4
<1>10. \A w \in WaitLists : \A x \in ToSet(r.wait[w]) : x # t /\ r.stat[x] = "suspend"
  <2>. SUFFICES ASSUME NEW w \in WaitLists, NEW x \in ToSet(r.wait[w])
                PROVE  x # t /\ r.stat[x] = "suspend"
    OBVIOUS
  <2>1. x \in ToSet(ks.wait[w]) /\ x # t
    BY <1>1, <1>2, <1>4
  <2>. QED BY <1>1, <1>2, <1>4, <2>1
<1>10a. \A v, w \in WaitLists : \A x \in ToSet(r.wait[v]) :
          x \in ToSet(r.wait[w]) => v = w
  <2>. SUFFICES ASSUME NEW v \in WaitLists, NEW w \in WaitLists,
                       NEW x \in ToSet(r.wait[v]), x \in ToSet(r.wait[w])
                PROVE  v = w
    OBVIOUS
  <2>1. x \in ToSet(ks.wait[v]) /\ x \in ToSet(ks.wait[w])
    BY <1>1, <1>2, <1>4
  <2>. QED BY <1>1, <2>1
<1>11. \A x \in ToSet(r.defunct) : x # t /\ r.stat[x] = "close"
  BY <1>1, <1>2, <1>4
<1>12. FreeOf(r, t)
  BY <1>1, <1>2, <1>4, <1>8, <1>9, <1>10, <1>10a, <1>11 DEF FreeOf
<1>. QED BY <1>2, <1>4, <1>12 DEF r

\* A thread on no list that is neither ready nor closed nor suspended, or that
\* has just been given such a state, is where it belongs.
LEMMA PutState ==
    ASSUME NEW ks, NEW t \in Threads, FreeOf(ks, t),
           NEW s \in Stat \ {"ready"}, t \in ks.timers => s = "suspend"
    PROVE  LET r == [ks EXCEPT !.stat[t] = s] IN
           /\ QueueOK(r)
           /\ r.stat = [ks.stat EXCEPT ![t] = s]
           /\ r.prio = ks.prio /\ r.err = ks.err /\ r.wait = ks.wait
           /\ r.timers = ks.timers /\ r.cur = ks.cur /\ r.lock = ks.lock
<1>. DEFINE r == [ks EXCEPT !.stat[t] = s]
<1>1. /\ r \in KernelState
      /\ r.stat = [ks.stat EXCEPT ![t] = s]
      /\ r.prio = ks.prio /\ r.err = ks.err /\ r.wait = ks.wait
      /\ r.ready = ks.ready /\ r.group = ks.group /\ r.defunct = ks.defunct
      /\ r.timers = ks.timers /\ r.cur = ks.cur /\ r.lock = ks.lock
  BY DEF FreeOf, KernelState
<1>. HIDE DEF r
<1>2. \A x \in Threads : r.stat[x] = IF x = t THEN s ELSE ks.stat[x]
  BY <1>1 DEF FreeOf, KernelState
<1>3. /\ \A w \in WaitLists : ToSet(ks.wait[w]) \subseteq Threads
      /\ ToSet(ks.defunct) \subseteq Threads /\ ks.timers \subseteq Threads
  <2>1. /\ \A w \in WaitLists : ks.wait[w] \in Seq(Threads)
        /\ ks.defunct \in Seq(Threads) /\ ks.timers \subseteq Threads
    BY DEF FreeOf, KernelState
  <2>. QED BY <2>1, ToSetDef
<1>4. ReadyOK(r)
  BY <1>1, <1>2 DEF FreeOf, ReadyOK
<1>5. WaitOK(r)
  <2>1. \A w \in WaitLists : \A x \in ToSet(r.wait[w]) : r.stat[x] = "suspend"
    BY <1>1, <1>2, <1>3 DEF FreeOf
  <2>. QED BY <1>1, <2>1 DEF FreeOf, WaitOK
<1>6. DefunctOK(r)
  BY <1>1, <1>2, <1>3 DEF FreeOf, DefunctOK
<1>7. TimersOK(r)
  BY <1>1, <1>2, <1>3 DEF FreeOf, TimersOK
<1>. QED BY <1>1, <1>4, <1>5, <1>6, <1>7 DEF QueueOK, r

\* rt_schedule_insert_thread: a thread on no list becomes ready at the tail of
\* its queue and its bit is set, or running if it is the current thread.
LEMMA InsertOK ==
    ASSUME NEW ks, NEW t \in Threads, FreeOf(ks, t), t \notin ks.timers
    PROVE  LET r == rt_schedule_insert_thread(ks, t) IN
           /\ QueueOK(r)
           /\ r.stat = [ks.stat EXCEPT ![t] = IF t = ks.cur THEN "running" ELSE "ready"]
           /\ r.prio = ks.prio /\ r.err = ks.err /\ r.wait = ks.wait
           /\ r.timers = ks.timers /\ r.cur = ks.cur /\ r.lock = ks.lock
<1>. DEFINE r == rt_schedule_insert_thread(ks, t)
            q == ks.prio[t]
<1>1. CASE t = ks.cur
  <2>1. r = [ks EXCEPT !.stat[t] = "running"]
    BY <1>1 DEF rt_schedule_insert_thread
  <2>2. "running" \in Stat \ {"ready"}
    BY DEF Stat
  <2>. QED BY <1>1, <2>1, <2>2, PutState
<1>2. CASE t # ks.cur
  <2>. DEFINE A == Append(ks.ready[q], t)
  <2>1. /\ ks \in KernelState /\ q \in Prio /\ ks.ready[q] \in Seq(Threads)
        /\ IsInjective(ks.ready[q]) /\ t \notin ToSet(ks.ready[q])
    BY DEF FreeOf, KernelState
  <2>2. A \in Seq(Threads) /\ IsInjective(A) /\ ToSet(A) = ToSet(ks.ready[q]) \union {t}
    BY <2>1, AppendFacts
  <2>3. A # <<>>
    <3>1. ToSet(A) # {}
      BY <2>2
    <3>. HIDE DEF A
    <3>. QED BY <2>2, <3>1, ToSetDef
  <2>4. r = [ks EXCEPT !.stat[t] = "ready", !.ready[q] = A, !.group = @ \union {q}]
    BY <1>2 DEF rt_schedule_insert_thread
  <2>. HIDE DEF A, r
  <2>5. /\ r \in KernelState
        /\ r.stat = [ks.stat EXCEPT ![t] = "ready"]
        /\ r.ready = [ks.ready EXCEPT ![q] = A]
        /\ r.group = ks.group \union {q}
        /\ r.prio = ks.prio /\ r.err = ks.err /\ r.wait = ks.wait
        /\ r.defunct = ks.defunct
        /\ r.timers = ks.timers /\ r.cur = ks.cur /\ r.lock = ks.lock
    BY <2>1, <2>2, <2>4 DEF KernelState, Stat
  <2>6. /\ \A x \in Threads : r.stat[x] = IF x = t THEN "ready" ELSE ks.stat[x]
        /\ \A p \in Prio : r.ready[p] = IF p = q THEN A ELSE ks.ready[p]
    BY <2>1, <2>5 DEF KernelState
  <2>7. /\ \A w \in WaitLists : ToSet(ks.wait[w]) \subseteq Threads
        /\ ToSet(ks.defunct) \subseteq Threads /\ ks.timers \subseteq Threads
    <3>1. /\ \A w \in WaitLists : ks.wait[w] \in Seq(Threads)
          /\ ks.defunct \in Seq(Threads) /\ ks.timers \subseteq Threads
      BY <2>1 DEF KernelState
    <3>. QED BY <3>1, ToSetDef
  <2>8. ReadyOK(r)
    <3>1. \A p \in Prio : IsInjective(r.ready[p])
      BY <2>2, <2>6 DEF FreeOf
    <3>2. ASSUME NEW p \in Prio, NEW x \in Threads
          PROVE  x \in ToSet(r.ready[p]) <=> r.stat[x] = "ready" /\ r.prio[x] = p
      <4>1. x \in ToSet(ks.ready[p]) <=> x # t /\ ks.stat[x] = "ready" /\ ks.prio[x] = p
        BY DEF FreeOf
      <4>2. CASE p = q
        BY <4>1, <4>2, <2>2, <2>5, <2>6
      <4>3. CASE p # q
        BY <4>1, <4>3, <2>5, <2>6
      <4>. QED BY <4>2, <4>3
    <3>3. \A p \in Prio : p \in r.group <=> r.ready[p] # <<>>
      BY <2>3, <2>5, <2>6 DEF FreeOf
    <3>. QED BY <3>1, <3>2, <3>3 DEF ReadyOK
  <2>9. WaitOK(r)
    <3>1. \A w \in WaitLists : \A x \in ToSet(r.wait[w]) : r.stat[x] = "suspend"
      BY <2>5, <2>6, <2>7 DEF FreeOf
    <3>. QED BY <2>5, <3>1 DEF FreeOf, WaitOK
  <2>10. DefunctOK(r)
    BY <2>5, <2>6, <2>7 DEF FreeOf, DefunctOK
  <2>11. TimersOK(r)
    BY <2>5, <2>6, <2>7 DEF FreeOf, TimersOK
  <2>. QED BY <1>2, <2>5, <2>8, <2>9, <2>10, <2>11 DEF QueueOK, r
<1>. QED BY <1>1, <1>2

\* FreeOf does not speak of the thread's own priority, error and timer.
LEMMA FreeOfFrame ==
    ASSUME NEW ks, NEW r, NEW t \in Threads, FreeOf(ks, t), r \in KernelState,
           r.stat = ks.stat, r.ready = ks.ready, r.group = ks.group,
           r.wait = ks.wait, r.defunct = ks.defunct,
           r.timers \subseteq ks.timers \union {t},
           \A x \in Threads \ {t} : r.prio[x] = ks.prio[x]
    PROVE  FreeOf(r, t)
<1>1. \A p \in Prio, x \in Threads :
         x \in ToSet(r.ready[p]) <=> x # t /\ r.stat[x] = "ready" /\ r.prio[x] = p
  BY DEF FreeOf
<1>2. \A x \in r.timers : x # t => r.stat[x] = "suspend"
  BY DEF FreeOf
<1>. QED BY <1>1, <1>2 DEF FreeOf

-----------------------------------------------------------------------------
(* src/thread.c                                                            *)

\* Thread t has left the ready queue, and waits on no list yet.
Suspended(ks, r, t) ==
    /\ KernelOK(r) /\ FreeOf(r, t)
    /\ r.stat = [ks.stat EXCEPT ![t] = "suspend"]
    /\ r.prio = ks.prio /\ r.err = ks.err /\ r.timers = ks.timers \ {t}
    /\ r.cur = ks.cur /\ r.lock = ks.lock
    /\ \A w \in WaitLists : r.wait[w] = ks.wait[w]

\* rt_thread_suspend.
LEMMA SuspendOK ==
    ASSUME NEW ks, NEW t \in Threads, KernelOK(ks), ks.stat[t] \in {"ready", "running"}
    PROVE  Suspended(ks, rt_thread_suspend(ks, t), t)
<1>. DEFINE d == rt_schedule_remove_thread(ks, t)
            e == [d EXCEPT !.timers = @ \ {t}]
            r == [e EXCEPT !.stat[t] = "suspend"]
<1>1. QueueOK(ks) /\ CurOK(ks)
  BY DEF KernelOK
<1>2. /\ FreeOf(d, t)
      /\ d.stat = ks.stat /\ d.prio = ks.prio /\ d.err = ks.err
      /\ d.timers = ks.timers /\ d.cur = ks.cur /\ d.lock = ks.lock
      /\ \A w \in WaitLists : t \notin ToSet(ks.wait[w]) => d.wait[w] = ks.wait[w]
  BY <1>1, RemoveFrees
<1>3. \A w \in WaitLists : t \notin ToSet(ks.wait[w])
  BY <1>1 DEF QueueOK, WaitOK
<1>. HIDE DEF d
<1>4. /\ e \in KernelState
      /\ e.stat = d.stat /\ e.ready = d.ready /\ e.group = d.group
      /\ e.wait = d.wait /\ e.defunct = d.defunct /\ e.prio = d.prio
      /\ e.err = d.err /\ e.cur = d.cur /\ e.lock = d.lock
      /\ e.timers = d.timers \ {t}
  BY <1>2 DEF FreeOf, KernelState
<1>5. rt_thread_suspend(ks, t) = r
  <2>1. rt_thread_suspend(ks, t) = [d EXCEPT !.stat[t] = "suspend", !.timers = @ \ {t}]
    BY DEF rt_thread_suspend, d
  <2>2. d \in KernelState
    BY <1>2 DEF FreeOf
  <2>. QED BY <2>1, <2>2 DEF KernelState
<1>. HIDE DEF e
<1>6. FreeOf(e, t)
  BY <1>2, <1>4, FreeOfFrame
<1>7. /\ QueueOK(r)
      /\ r.stat = [e.stat EXCEPT ![t] = "suspend"]
      /\ r.prio = e.prio /\ r.err = e.err /\ r.wait = e.wait
      /\ r.timers = e.timers /\ r.cur = e.cur /\ r.lock = e.lock
  <2>1. "suspend" \in Stat \ {"ready"}
    BY DEF Stat
  <2>. QED BY <1>6, <2>1, PutState
<1>8. r \in KernelState /\ r.ready = e.ready /\ r.group = e.group /\ r.defunct = e.defunct
  BY <1>4, <1>7 DEF QueueOK, KernelState
<1>. HIDE DEF r
<1>9. FreeOf(r, t)
  <2>1. \A x \in Threads : r.stat[x] = IF x = t THEN "suspend" ELSE e.stat[x]
    BY <1>4, <1>7 DEF KernelState
  <2>2. \A w \in WaitLists : \A x \in ToSet(r.wait[w]) : x # t /\ r.stat[x] = "suspend"
    BY <1>6, <1>7 DEF FreeOf, QueueOK, WaitOK
  <2>3. \A x \in ToSet(r.defunct) : x # t /\ r.stat[x] = "close"
    BY <1>6, <1>7, <1>8 DEF FreeOf, QueueOK, DefunctOK
  <2>4. \A x \in r.timers : x # t => r.stat[x] = "suspend"
    BY <1>7 DEF QueueOK, TimersOK
  <2>5. \A p \in Prio, x \in Threads :
           x \in ToSet(r.ready[p]) <=> x # t /\ r.stat[x] = "ready" /\ r.prio[x] = p
    BY <1>6, <1>7, <1>8, <2>1 DEF FreeOf
  <2>. QED BY <1>7, <1>8, <2>2, <2>3, <2>4, <2>5
           DEF FreeOf, QueueOK, ReadyOK, WaitOK, DefunctOK
<1>10. CurOK(r)
  <2>1. \A x \in Threads : r.stat[x] = IF x = t THEN "suspend" ELSE ks.stat[x]
    BY <1>1, <1>2, <1>4, <1>7 DEF QueueOK, KernelState
  <2>2. r.cur = ks.cur /\ ks.cur \in Threads
    BY <1>1, <1>2, <1>4, <1>7 DEF QueueOK, KernelState
  <2>. QED BY <1>1, <2>1, <2>2 DEF CurOK
<1>11. KernelOK(r)
  BY <1>7, <1>10 DEF KernelOK
<1>. QED BY <1>2, <1>3, <1>4, <1>5, <1>7, <1>9, <1>11 DEF Suspended

\* Thread t has left its suspend list, its timer is stopped, and it can run.
Woken(ks, r, t) ==
    /\ KernelOK(r)
    /\ r.stat = [ks.stat EXCEPT ![t] = IF t = ks.cur THEN "running" ELSE "ready"]
    /\ r.prio = ks.prio /\ r.err = ks.err /\ r.timers = ks.timers \ {t}
    /\ r.cur = ks.cur /\ r.lock = ks.lock
    /\ \A w \in WaitLists : ToSet(r.wait[w]) = ToSet(ks.wait[w]) \ {t}

\* rt_thread_resume of a suspended thread.
LEMMA ResumeOK ==
    ASSUME NEW ks, NEW t \in Threads, KernelOK(ks), ks.stat[t] = "suspend"
    PROVE  Woken(ks, rt_thread_resume(ks, t), t)
<1>. DEFINE u == Unlink(ks, t)
            e == [u EXCEPT !.timers = @ \ {t}]
            r == rt_schedule_insert_thread(e, t)
<1>1. QueueOK(ks) /\ CurOK(ks)
  BY DEF KernelOK
<1>2. /\ FreeOf(u, t)
      /\ u.stat = ks.stat /\ u.prio = ks.prio /\ u.err = ks.err
      /\ u.timers = ks.timers /\ u.cur = ks.cur /\ u.lock = ks.lock
      /\ \A w \in WaitLists : ToSet(u.wait[w]) = ToSet(ks.wait[w]) \ {t}
  <2>1. FreeOf(u, t)
    BY <1>1, UnlinkFrees
  <2>. QED BY <1>1, <2>1, UnlinkFields
<1>3. rt_thread_resume(ks, t) = r
  BY DEF rt_thread_resume
<1>. HIDE DEF u
<1>4. /\ e \in KernelState
      /\ e.stat = u.stat /\ e.ready = u.ready /\ e.group = u.group
      /\ e.wait = u.wait /\ e.defunct = u.defunct /\ e.prio = u.prio
      /\ e.err = u.err /\ e.cur = u.cur /\ e.lock = u.lock
      /\ e.timers = u.timers \ {t}
  BY <1>2 DEF FreeOf, KernelState
<1>. HIDE DEF e
<1>5. FreeOf(e, t) /\ t \notin e.timers
  BY <1>2, <1>4, FreeOfFrame
<1>6. /\ QueueOK(r)
      /\ r.stat = [e.stat EXCEPT ![t] = IF t = e.cur THEN "running" ELSE "ready"]
      /\ r.prio = e.prio /\ r.err = e.err /\ r.wait = e.wait
      /\ r.timers = e.timers /\ r.cur = e.cur /\ r.lock = e.lock
  BY <1>5, InsertOK
<1>. HIDE DEF r
<1>7. CurOK(r)
  <2>1. \A x \in Threads :
           r.stat[x] = IF x = t THEN IF t = ks.cur THEN "running" ELSE "ready" ELSE ks.stat[x]
    BY <1>1, <1>2, <1>4, <1>6 DEF QueueOK, KernelState
  <2>2. r.cur = ks.cur /\ ks.cur \in Threads
    BY <1>1, <1>2, <1>4, <1>6 DEF QueueOK, KernelState
  <2>. QED BY <1>1, <2>1, <2>2 DEF CurOK
<1>8. KernelOK(r)
  BY <1>6, <1>7 DEF KernelOK
<1>. QED BY <1>2, <1>3, <1>4, <1>6, <1>8 DEF Woken

\* As Woken, with the error code that tells the thread why.
Expired(ks, r, t) ==
    /\ KernelOK(r)
    /\ r.stat = [ks.stat EXCEPT ![t] = IF t = ks.cur THEN "running" ELSE "ready"]
    /\ r.err = [ks.err EXCEPT ![t] = "ETIMEOUT"]
    /\ r.prio = ks.prio /\ r.timers = ks.timers \ {t}
    /\ r.cur = ks.cur /\ r.lock = ks.lock
    /\ \A w \in WaitLists : ToSet(r.wait[w]) = ToSet(ks.wait[w]) \ {t}

\* rt_thread_timeout: as rt_thread_resume, and the thread learns why.
LEMMA TimeoutOK ==
    ASSUME NEW ks, NEW t \in Threads, KernelOK(ks), ks.stat[t] = "suspend"
    PROVE  Expired(ks, rt_thread_timeout(ks, t), t)
<1>. DEFINE u == Unlink(ks, t)
            e == [u EXCEPT !.err[t] = "ETIMEOUT", !.timers = @ \ {t}]
            r == rt_schedule_insert_thread(e, t)
<1>1. QueueOK(ks) /\ CurOK(ks)
  BY DEF KernelOK
<1>2. /\ FreeOf(u, t)
      /\ u.stat = ks.stat /\ u.prio = ks.prio /\ u.err = ks.err
      /\ u.timers = ks.timers /\ u.cur = ks.cur /\ u.lock = ks.lock
      /\ \A w \in WaitLists : ToSet(u.wait[w]) = ToSet(ks.wait[w]) \ {t}
  <2>1. FreeOf(u, t)
    BY <1>1, UnlinkFrees
  <2>. QED BY <1>1, <2>1, UnlinkFields
<1>3. rt_thread_timeout(ks, t) = r
  BY DEF rt_thread_timeout
<1>. HIDE DEF u
<1>4. /\ e \in KernelState
      /\ e.stat = u.stat /\ e.ready = u.ready /\ e.group = u.group
      /\ e.wait = u.wait /\ e.defunct = u.defunct /\ e.prio = u.prio
      /\ e.err = [u.err EXCEPT ![t] = "ETIMEOUT"] /\ e.cur = u.cur /\ e.lock = u.lock
      /\ e.timers = u.timers \ {t}
  BY <1>2 DEF FreeOf, KernelState, Errno
<1>. HIDE DEF e
<1>5. FreeOf(e, t) /\ t \notin e.timers
  BY <1>2, <1>4, FreeOfFrame
<1>6. /\ QueueOK(r)
      /\ r.stat = [e.stat EXCEPT ![t] = IF t = e.cur THEN "running" ELSE "ready"]
      /\ r.prio = e.prio /\ r.err = e.err /\ r.wait = e.wait
      /\ r.timers = e.timers /\ r.cur = e.cur /\ r.lock = e.lock
  BY <1>5, InsertOK
<1>. HIDE DEF r
<1>7. CurOK(r)
  <2>1. \A x \in Threads :
           r.stat[x] = IF x = t THEN IF t = ks.cur THEN "running" ELSE "ready" ELSE ks.stat[x]
    BY <1>1, <1>2, <1>4, <1>6 DEF QueueOK, KernelState
  <2>2. r.cur = ks.cur /\ ks.cur \in Threads
    BY <1>1, <1>2, <1>4, <1>6 DEF QueueOK, KernelState
  <2>. QED BY <1>1, <2>1, <2>2 DEF CurOK
<1>8. KernelOK(r)
  BY <1>6, <1>7 DEF KernelOK
<1>. QED BY <1>2, <1>3, <1>4, <1>6, <1>8 DEF Expired

\* Only the priority of t has changed, and the ready queue it is on.
Requeued(ks, r, t, p) ==
    /\ KernelOK(r)
    /\ r.prio = [ks.prio EXCEPT ![t] = p]
    /\ r.stat = ks.stat /\ r.err = ks.err /\ r.timers = ks.timers
    /\ r.cur = ks.cur /\ r.lock = ks.lock
    /\ \A w \in WaitLists : r.wait[w] = ks.wait[w]

\* rt_thread_control(RT_THREAD_CTRL_CHANGE_PRIORITY): a ready thread moves to
\* the queue of its new priority.
LEMMA ChangePriorityOK ==
    ASSUME NEW ks, NEW t \in Threads, NEW p \in Prio, KernelOK(ks)
    PROVE  Requeued(ks, ChangePriority(ks, t, p), t, p)
<1>1. QueueOK(ks) /\ CurOK(ks) /\ ks \in KernelState
  BY DEF KernelOK, QueueOK
<1>2. CASE ks.stat[t] = "ready"
  <2>. DEFINE d == rt_schedule_remove_thread(ks, t)
              e == [d EXCEPT !.prio[t] = p]
              r == rt_schedule_insert_thread(e, t)
  <2>1. /\ FreeOf(d, t)
        /\ d.stat = ks.stat /\ d.prio = ks.prio /\ d.err = ks.err
        /\ d.timers = ks.timers /\ d.cur = ks.cur /\ d.lock = ks.lock
        /\ \A w \in WaitLists : t \notin ToSet(ks.wait[w]) => d.wait[w] = ks.wait[w]
    BY <1>1, RemoveFrees
  <2>2. ChangePriority(ks, t, p) = r
    BY <1>2 DEF ChangePriority
  <2>3. /\ \A w \in WaitLists : t \notin ToSet(ks.wait[w])
        /\ t \notin ks.timers
    BY <1>1, <1>2 DEF QueueOK, WaitOK, TimersOK
  <2>4. t # ks.cur
    BY <1>1, <1>2 DEF CurOK
  <2>. HIDE DEF d
  <2>5. /\ e \in KernelState
        /\ e.stat = d.stat /\ e.ready = d.ready /\ e.group = d.group
        /\ e.wait = d.wait /\ e.defunct = d.defunct
        /\ e.prio = [d.prio EXCEPT ![t] = p]
        /\ e.err = d.err /\ e.cur = d.cur /\ e.lock = d.lock
        /\ e.timers = d.timers
    BY <2>1 DEF FreeOf, KernelState
  <2>. HIDE DEF e
  <2>6. FreeOf(e, t) /\ t \notin e.timers
    <3>1. \A x \in Threads \ {t} : e.prio[x] = d.prio[x]
      BY <2>1, <2>5 DEF FreeOf, KernelState
    <3>. QED BY <2>1, <2>3, <2>5, <3>1, FreeOfFrame
  <2>7. /\ QueueOK(r)
        /\ r.stat = [e.stat EXCEPT ![t] = IF t = e.cur THEN "running" ELSE "ready"]
        /\ r.prio = e.prio /\ r.err = e.err /\ r.wait = e.wait
        /\ r.timers = e.timers /\ r.cur = e.cur /\ r.lock = e.lock
    BY <2>6, InsertOK
  <2>. HIDE DEF r
  <2>8. r.stat = ks.stat
    BY <1>1, <1>2, <2>1, <2>4, <2>5, <2>7 DEF KernelState
  <2>9. CurOK(r)
    BY <1>1, <2>1, <2>5, <2>7, <2>8 DEF CurOK
  <2>10. KernelOK(r)
    BY <2>7, <2>9 DEF KernelOK
  <2>. QED BY <2>1, <2>2, <2>3, <2>5, <2>7, <2>8, <2>10 DEF Requeued
<1>3. CASE ks.stat[t] # "ready"
  <2>. DEFINE r == [ks EXCEPT !.prio[t] = p]
  <2>1. ChangePriority(ks, t, p) = r
    BY <1>3 DEF ChangePriority
  <2>2. /\ r \in KernelState
        /\ r.stat = ks.stat /\ r.ready = ks.ready /\ r.group = ks.group
        /\ r.wait = ks.wait /\ r.defunct = ks.defunct
        /\ r.prio = [ks.prio EXCEPT ![t] = p]
        /\ r.err = ks.err /\ r.cur = ks.cur /\ r.lock = ks.lock
        /\ r.timers = ks.timers
    BY <1>1 DEF KernelState
  <2>. HIDE DEF r
  <2>3. \A x \in Threads \ {t} : r.prio[x] = ks.prio[x]
    BY <1>1, <2>2 DEF KernelState
  <2>4. ReadyOK(r)
    BY <1>1, <1>3, <2>2, <2>3 DEF QueueOK, ReadyOK
  <2>5. WaitOK(r) /\ DefunctOK(r) /\ TimersOK(r)
    BY <1>1, <2>2 DEF QueueOK, WaitOK, DefunctOK, TimersOK
  <2>6. CurOK(r)
    BY <1>1, <2>2 DEF CurOK
  <2>7. KernelOK(r)
    BY <2>2, <2>4, <2>5, <2>6 DEF KernelOK, QueueOK
  <2>. QED BY <2>1, <2>2, <2>7 DEF Requeued
<1>. QED BY <1>2, <1>3 DEF Requeued

-----------------------------------------------------------------------------
(* src/scheduler.c                                                         *)

\* _get_highest_priority_thread finds a ready thread in a non-empty bitmap,
\* and no ready thread is more urgent.
LEMMA HighestReady ==
    ASSUME NEW ks, QueueOK(ks), ks.group # {}
    PROVE  /\ HighestThread(ks) \in Threads
           /\ ks.stat[HighestThread(ks)] = "ready"
           /\ \A x \in Threads :
                 ks.stat[x] = "ready" => ks.prio[HighestThread(ks)] <= ks.prio[x]
           /\ ks.prio[HighestThread(ks)] = Min(ks.group)
<1>. DEFINE q == Min(ks.group)
<1>1. ks \in KernelState /\ ReadyOK(ks)
  BY DEF QueueOK
<1>2. ks.group \in SUBSET Nat /\ ks.group \subseteq Prio
  BY <1>1, PrioNat DEF KernelState
<1>3. q \in ks.group /\ \A x \in ks.group : q <= x
  BY <1>2, MinExists
<1>. HIDE DEF q
<1>4. q \in Prio /\ ks.ready[q] # <<>> /\ ks.ready[q] \in Seq(Threads)
  BY <1>1, <1>2, <1>3 DEF ReadyOK, KernelState
<1>5. Head(ks.ready[q]) \in ToSet(ks.ready[q]) /\ ToSet(ks.ready[q]) \subseteq Threads
  BY <1>4, HeadIn, ToSetDef
<1>6. HighestThread(ks) = Head(ks.ready[q])
  BY DEF HighestThread, q
<1>7. /\ HighestThread(ks) \in Threads
      /\ ks.stat[HighestThread(ks)] = "ready" /\ ks.prio[HighestThread(ks)] = q
  BY <1>1, <1>4, <1>5, <1>6 DEF ReadyOK
<1>8. ASSUME NEW x \in Threads, ks.stat[x] = "ready"
      PROVE  q <= ks.prio[x]
  <2>1. ks.prio[x] \in Prio
    BY <1>1 DEF KernelState
  <2>2. x \in ToSet(ks.ready[ks.prio[x]]) /\ ks.ready[ks.prio[x]] \in Seq(Threads)
    BY <1>1, <1>8, <2>1 DEF ReadyOK, KernelState
  <2>3. ks.ready[ks.prio[x]] # <<>>
    BY <2>2, ToSetDef
  <2>4. ks.prio[x] \in ks.group
    BY <1>1, <2>1, <2>3 DEF ReadyOK
  <2>. QED BY <1>3, <2>4
<1>. QED BY <1>7, <1>8 DEF q

\* A thread that is neither ready, suspended nor closed is on no list.
LEMMA RunningFree ==
    ASSUME NEW ks, NEW t \in Threads, QueueOK(ks), ks.stat[t] = "running"
    PROVE  FreeOf(ks, t) /\ t \notin ks.timers
BY DEF QueueOK, ReadyOK, WaitOK, DefunctOK, TimersOK, FreeOf

\* Ready and running threads may have changed places, nothing else has.
Switched(ks, r) ==
    /\ KernelOK(r)
    /\ r.prio = ks.prio /\ r.err = ks.err /\ r.timers = ks.timers
    /\ r.lock = ks.lock
    /\ \A w \in WaitLists : r.wait[w] = ks.wait[w]
    /\ \A x \in Threads : \/ r.stat[x] = ks.stat[x]
                          \/ /\ ks.stat[x] \in {"ready", "running"}
                             /\ r.stat[x] \in {"ready", "running"}
    /\ ks.stat[ks.cur] = "running" => r.stat[r.cur] = "running"
    /\ ks.lock = 0 /\ ks.group # {} => r.stat[r.cur] = "running"

\* No ready thread is more urgent than the current one.
MostUrgent(ks) ==
    \A t \in Threads : ks.stat[t] = "ready" => ks.prio[ks.cur] <= ks.prio[t]

\* rt_schedule keeps the kernel consistent; with the scheduler unlocked and a
\* thread ready, the current thread is running afterwards and none is more
\* urgent.
LEMMA ScheduleOK ==
    ASSUME NEW ks, KernelOK(ks)
    PROVE  /\ Switched(ks, rt_schedule(ks))
           /\ ks.lock = 0 => MostUrgent(rt_schedule(ks))
<1>1. QueueOK(ks) /\ CurOK(ks) /\ ks \in KernelState /\ ks.cur \in Threads
  BY DEF KernelOK, QueueOK, KernelState
<1>2. CASE ks.lock # 0 \/ ks.group = {}
  <2>1. rt_schedule(ks) = ks
    BY <1>2 DEF rt_schedule
  <2>2. ASSUME ks.group = {}, NEW t \in Threads PROVE ks.stat[t] # "ready"
    <3>1. ks.prio[t] \in Prio /\ ks.ready[ks.prio[t]] = <<>>
      BY <1>1, <2>2 DEF KernelState, QueueOK, ReadyOK
    <3>2. ToSet(ks.ready[ks.prio[t]]) = {}
      BY <3>1 DEF ToSet
    <3>. QED BY <1>1, <3>1, <3>2 DEF QueueOK, ReadyOK
  <2>. QED BY <1>1, <1>2, <2>1, <2>2 DEF Switched, MostUrgent
<1>0. ASSUME ks.group # {}, NEW t \in Threads, ks.stat[t] = "ready"
      PROVE  /\ Min(ks.group) <= ks.prio[t] /\ Min(ks.group) \in Nat
             /\ ks.prio[t] \in Nat /\ ks.prio[ks.cur] \in Nat
  BY <1>0, <1>1, HighestReady, PrioNat DEF KernelState
<1>3. CASE ~(ks.lock # 0 \/ ks.group = {}) /\ Stays(ks)
  <2>. DEFINE d == rt_schedule_remove_thread(ks, ks.cur)
              r == [d EXCEPT !.stat[ks.cur] = "running"]
  <2>1. rt_schedule(ks) = r
    BY <1>3 DEF rt_schedule
  <2>2. ks.stat[ks.cur] = "running"
    BY <1>3 DEF Stays
  <2>3. /\ FreeOf(d, ks.cur)
        /\ d.stat = ks.stat /\ d.prio = ks.prio /\ d.err = ks.err
        /\ d.timers = ks.timers /\ d.cur = ks.cur /\ d.lock = ks.lock
        /\ \A w \in WaitLists : ks.cur \notin ToSet(ks.wait[w]) => d.wait[w] = ks.wait[w]
    BY <1>1, RemoveFrees
  <2>4. /\ \A w \in WaitLists : ks.cur \notin ToSet(ks.wait[w])
        /\ ks.cur \notin ks.timers
    BY <1>1, <2>2 DEF QueueOK, WaitOK, TimersOK
  <2>. HIDE DEF d
  <2>5. /\ QueueOK(r)
        /\ r.stat = [d.stat EXCEPT ![ks.cur] = "running"]
        /\ r.prio = d.prio /\ r.err = d.err /\ r.wait = d.wait
        /\ r.timers = d.timers /\ r.cur = d.cur /\ r.lock = d.lock
    <3>1. "running" \in Stat \ {"ready"}
      BY DEF Stat
    <3>. QED BY <1>1, <2>3, <2>4, <3>1, PutState
  <2>. HIDE DEF r
  <2>6. r.stat = ks.stat
    BY <1>1, <2>2, <2>3, <2>5 DEF KernelState
  <2>7. CurOK(r)
    BY <1>1, <2>3, <2>5, <2>6 DEF CurOK
  <2>8. KernelOK(r)
    BY <2>5, <2>7 DEF KernelOK
  <2>9. MostUrgent(r)
    <3>. SUFFICES ASSUME NEW t \in Threads, ks.stat[t] = "ready"
                  PROVE  ks.prio[ks.cur] <= ks.prio[t]
      BY <2>3, <2>5, <2>6 DEF MostUrgent
    <3>. QED BY <1>0, <1>3 DEF Stays
  <2>. QED BY <2>1, <2>2, <2>3, <2>4, <2>5, <2>6, <2>8, <2>9 DEF Switched
<1>4. CASE ~(ks.lock # 0 \/ ks.group = {}) /\ ~Stays(ks)
  <2>. DEFINE to == HighestThread(ks)
              away == [ks EXCEPT !.cur = to]
              back == IF ks.stat[ks.cur] = "running"
                      THEN rt_schedule_insert_thread(away, ks.cur) ELSE away
              d == rt_schedule_remove_thread(back, to)
              r == [d EXCEPT !.stat[to] = "running"]
  <2>1. to \in Threads /\ ks.stat[to] = "ready"
    BY <1>1, <1>4, HighestReady
  <2>2. to # ks.cur
    BY <1>1, <2>1 DEF CurOK
  <2>3. rt_schedule(ks) = r
    BY <1>4, <2>2 DEF rt_schedule, SwitchTo
  <2>. HIDE DEF to
  <2>4. /\ away \in KernelState
        /\ away.stat = ks.stat /\ away.ready = ks.ready /\ away.group = ks.group
        /\ away.wait = ks.wait /\ away.defunct = ks.defunct /\ away.prio = ks.prio
        /\ away.err = ks.err /\ away.cur = to /\ away.lock = ks.lock
        /\ away.timers = ks.timers
    BY <1>1, <2>1 DEF KernelState
  <2>. HIDE DEF away
  <2>5. QueueOK(away)
    BY <1>1, <2>4 DEF QueueOK, ReadyOK, WaitOK, DefunctOK, TimersOK
  <2>6. /\ QueueOK(back)
        /\ back.stat = IF ks.stat[ks.cur] = "running"
                       THEN [ks.stat EXCEPT ![ks.cur] = "ready"] ELSE ks.stat
        /\ back.prio = ks.prio /\ back.err = ks.err /\ back.wait = ks.wait
        /\ back.timers = ks.timers /\ back.cur = to /\ back.lock = ks.lock
    <3>1. CASE ks.stat[ks.cur] = "running"
      <4>1. FreeOf(away, ks.cur) /\ ks.cur \notin away.timers
        BY <1>1, <2>4, <2>5, <3>1, RunningFree
      <4>2. back = rt_schedule_insert_thread(away, ks.cur)
        BY <3>1
      <4>. HIDE DEF back
      <4>. QED BY <1>1, <2>2, <2>4, <3>1, <4>1, <4>2, InsertOK
    <3>2. CASE ks.stat[ks.cur] # "running"
      BY <2>4, <2>5, <3>2
    <3>. QED BY <3>1, <3>2
  <2>. HIDE DEF back
  <2>7. back.stat[to] = "ready"
    BY <1>1, <2>1, <2>2, <2>6 DEF KernelState
  <2>8. /\ \A w \in WaitLists : to \notin ToSet(back.wait[w])
        /\ to \notin back.timers
    BY <2>6, <2>7 DEF QueueOK, WaitOK, TimersOK
  <2>9. /\ FreeOf(d, to)
        /\ d.stat = back.stat /\ d.prio = back.prio /\ d.err = back.err
        /\ d.timers = back.timers /\ d.cur = back.cur /\ d.lock = back.lock
        /\ \A w \in WaitLists : to \notin ToSet(back.wait[w]) => d.wait[w] = back.wait[w]
    BY <2>1, <2>6, RemoveFrees
  <2>. HIDE DEF d
  <2>10. /\ QueueOK(r)
         /\ r.stat = [d.stat EXCEPT ![to] = "running"]
         /\ r.prio = d.prio /\ r.err = d.err /\ r.wait = d.wait
         /\ r.timers = d.timers /\ r.cur = d.cur /\ r.lock = d.lock
    <3>1. "running" \in Stat \ {"ready"}
      BY DEF Stat
    <3>. QED BY <2>1, <2>8, <2>9, <3>1, PutState
  <2>. HIDE DEF r
  <2>11. /\ r.cur = to /\ r.stat[to] = "running"
         /\ \A x \in Threads \ {to} :
               r.stat[x] = IF x = ks.cur /\ ks.stat[x] = "running" THEN "ready" ELSE ks.stat[x]
    BY <1>1, <2>1, <2>2, <2>6, <2>9, <2>10 DEF KernelState
  <2>12. CurOK(r)
    BY <1>1, <2>1, <2>11 DEF CurOK
  <2>13. KernelOK(r)
    BY <2>10, <2>12 DEF KernelOK
  <2>14. \A w \in WaitLists : r.wait[w] = ks.wait[w]
    BY <2>6, <2>8, <2>9, <2>10
  <2>15. \A x \in Threads : \/ r.stat[x] = ks.stat[x]
                            \/ /\ ks.stat[x] \in {"ready", "running"}
                               /\ r.stat[x] \in {"ready", "running"}
    BY <2>1, <2>11
  <2>16. MostUrgent(r)
    <3>. SUFFICES ASSUME NEW t \in Threads, r.stat[t] = "ready"
                  PROVE  ks.prio[to] <= ks.prio[t]
      BY <2>6, <2>9, <2>10, <2>11 DEF MostUrgent
    <3>1. /\ ks.prio[to] = Min(ks.group) /\ Min(ks.group) \in Nat
          /\ ks.prio[t] \in Nat /\ ks.prio[ks.cur] \in Nat
      BY <1>0, <1>1, <1>4, <2>1, HighestReady, PrioNat DEF to, KernelState
    <3>2. CASE ks.stat[t] = "ready"
      BY <1>0, <1>4, <3>1, <3>2
    <3>3. CASE t = ks.cur /\ ks.stat[t] = "running"
      BY <1>4, <3>1, <3>3 DEF Stays
    <3>. QED BY <2>11, <3>2, <3>3
  <2>. QED BY <2>3, <2>6, <2>9, <2>10, <2>11, <2>13, <2>14, <2>15, <2>16 DEF Switched
<1>. QED BY <1>2, <1>3, <1>4

-----------------------------------------------------------------------------
(* Suspend lists of src/ipc.c                                              *)

\* Only the error code of t has changed.
ErrorSet(ks, r, t, e) ==
    /\ KernelOK(r)
    /\ r.err = [ks.err EXCEPT ![t] = e]
    /\ r.stat = ks.stat /\ r.prio = ks.prio /\ r.timers = ks.timers
    /\ r.group = ks.group /\ r.wait = ks.wait
    /\ r.cur = ks.cur /\ r.lock = ks.lock

\* The error code of a thread is independent of the lists.
LEMMA SetErrorOK ==
    ASSUME NEW ks, NEW t \in Threads, NEW e \in Errno, KernelOK(ks)
    PROVE  ErrorSet(ks, [ks EXCEPT !.err[t] = e], t, e)
<1>. DEFINE r == [ks EXCEPT !.err[t] = e]
<1>1. /\ r \in KernelState
      /\ r.err = [ks.err EXCEPT ![t] = e]
      /\ r.stat = ks.stat /\ r.prio = ks.prio /\ r.timers = ks.timers
      /\ r.group = ks.group /\ r.wait = ks.wait /\ r.ready = ks.ready
      /\ r.defunct = ks.defunct /\ r.cur = ks.cur /\ r.lock = ks.lock
  BY DEF KernelOK, QueueOK, KernelState
<1>. HIDE DEF r
<1>2. KernelOK(r)
  BY <1>1 DEF KernelOK, QueueOK, ReadyOK, WaitOK, DefunctOK, TimersOK, CurOK
<1>. QED BY <1>1, <1>2 DEF r, ErrorSet

\* At most a timer has been started.
TimerSet(ks, r) ==
    /\ KernelOK(r)
    /\ r.stat = ks.stat /\ r.prio = ks.prio /\ r.err = ks.err
    /\ r.wait = ks.wait /\ r.cur = ks.cur /\ r.lock = ks.lock

\* The thread timer is started for a suspended thread.
LEMMA StartTimerOK ==
    ASSUME NEW ks, NEW t \in Threads, NEW time, KernelOK(ks), ks.stat[t] = "suspend"
    PROVE  TimerSet(ks, StartTimer(ks, t, time))
<1>. DEFINE r == [ks EXCEPT !.timers = @ \union {t}]
<1>1. /\ r \in KernelState
      /\ r.timers = ks.timers \union {t}
      /\ r.stat = ks.stat /\ r.prio = ks.prio /\ r.err = ks.err
      /\ r.group = ks.group /\ r.wait = ks.wait /\ r.ready = ks.ready
      /\ r.defunct = ks.defunct /\ r.cur = ks.cur /\ r.lock = ks.lock
  BY DEF KernelOK, QueueOK, KernelState
<1>2. StartTimer(ks, t, time) = r \/ StartTimer(ks, t, time) = ks
  BY DEF StartTimer
<1>. HIDE DEF r
<1>3. KernelOK(r)
  BY <1>1 DEF KernelOK, QueueOK, ReadyOK, WaitOK, DefunctOK, TimersOK, CurOK
<1>. QED BY <1>1, <1>2, <1>3 DEF TimerSet

LEMMA PositionInRange ==
    ASSUME NEW ks, NEW s \in Seq(Threads), NEW p, NEW flag
    PROVE  Position(ks, s, p, flag) \in 1 .. Len(s) + 1
<1>1. ASSUME NEW later \in SUBSET (1 .. Len(s)), later # {}
      PROVE  Min(later) \in 1 .. Len(s) + 1
  <2>1. later \in SUBSET Nat /\ Len(s) \in Nat
    OBVIOUS
  <2>2. Min(later) \in later
    BY <1>1, <2>1, MinExists
  <2>3. Min(later) \in 1 .. Len(s)
    BY <1>1, <2>2, Zenon
  <2>4. \A n \in Nat : \A x \in 1 .. n : x \in 1 .. n + 1
    OBVIOUS
  <2>. QED BY <2>1, <2>3, <2>4, Zenon
<1>2. Len(s) + 1 \in 1 .. Len(s) + 1
  OBVIOUS
<1>. QED BY <1>1, <1>2 DEF Position

\* Thread t waits on list w.
Queued(ks, r, w, t) ==
    /\ KernelOK(r)
    /\ r.stat = [ks.stat EXCEPT ![t] = "suspend"]
    /\ r.prio = ks.prio /\ r.err = ks.err /\ r.timers = ks.timers \ {t}
    /\ r.cur = ks.cur /\ r.lock = ks.lock
    /\ ToSet(r.wait[w]) = ToSet(ks.wait[w]) \union {t}
    /\ \A v \in WaitLists \ {w} : r.wait[v] = ks.wait[v]

\* A ready or running thread is suspended and put somewhere on list w.
LEMMA QueueThread ==
    ASSUME NEW ks, NEW w \in WaitLists, NEW t \in Threads, NEW q \in Seq(Threads),
           KernelOK(ks), ks.stat[t] \in {"ready", "running"},
           IsInjective(q), ToSet(q) = ToSet(ks.wait[w]) \union {t}
    PROVE  Queued(ks, [rt_thread_suspend(ks, t) EXCEPT !.wait[w] = q], w, t)
<1>. DEFINE s == rt_thread_suspend(ks, t)
            r == [s EXCEPT !.wait[w] = q]
<1>1. /\ KernelOK(s) /\ FreeOf(s, t)
      /\ s.stat = [ks.stat EXCEPT ![t] = "suspend"]
      /\ s.prio = ks.prio /\ s.err = ks.err /\ s.timers = ks.timers \ {t}
      /\ s.cur = ks.cur /\ s.lock = ks.lock
      /\ \A v \in WaitLists : s.wait[v] = ks.wait[v]
  BY SuspendOK, SMTT(30) DEF Suspended
<1>2. s \in KernelState /\ ks \in KernelState /\ s.stat[t] = "suspend"
  BY <1>1 DEF KernelOK, QueueOK, KernelState
<1>. HIDE DEF s
<1>3. q \in Seq(Threads) /\ IsInjective(q) /\ ToSet(q) = ToSet(s.wait[w]) \union {t}
  BY <1>1
<1>4. /\ r \in KernelState
      /\ r.wait = [s.wait EXCEPT ![w] = q]
      /\ r.stat = s.stat /\ r.prio = s.prio /\ r.err = s.err
      /\ r.group = s.group /\ r.timers = s.timers /\ r.ready = s.ready
      /\ r.defunct = s.defunct /\ r.cur = s.cur /\ r.lock = s.lock
  BY <1>2, <1>3 DEF KernelState
<1>. HIDE DEF r
<1>5. \A v \in WaitLists : r.wait[v] = IF v = w THEN q ELSE s.wait[v]
  BY <1>2, <1>4 DEF KernelState
<1>6. WaitOK(r)
  <2>1. \A v \in WaitLists : IsInjective(r.wait[v])
    BY <1>1, <1>3, <1>5 DEF FreeOf
  <2>2. ASSUME NEW v \in WaitLists, NEW x \in ToSet(r.wait[v])
        PROVE  r.stat[x] = "suspend"
    <3>1. CASE x = t
      BY <1>2, <1>4, <3>1
    <3>2. CASE x # t
      <4>1. x \in ToSet(s.wait[v])
        BY <1>3, <1>5, <3>2
      <4>. QED BY <1>1, <1>4, <4>1 DEF FreeOf
    <3>. QED BY <3>1, <3>2
  <2>3. ASSUME NEW u \in WaitLists, NEW v \in WaitLists, NEW x \in ToSet(r.wait[u]),
               x \in ToSet(r.wait[v])
        PROVE  u = v
    <3>1. CASE x = t
      <4>1. \A z \in WaitLists : t \notin ToSet(s.wait[z])
        BY <1>1 DEF FreeOf
      <4>. QED BY <1>5, <2>3, <3>1, <4>1
    <3>2. CASE x # t
      <4>1. x \in ToSet(s.wait[u]) /\ x \in ToSet(s.wait[v])
        BY <1>3, <1>5, <2>3, <3>2
      <4>. QED BY <1>1, <4>1 DEF FreeOf
    <3>. QED BY <3>1, <3>2
  <2>. QED BY <2>1, <2>2, <2>3 DEF WaitOK
<1>7. KernelOK(r)
  BY <1>1, <1>4, <1>6 DEF KernelOK, QueueOK, ReadyOK, DefunctOK, TimersOK, CurOK
<1>. QED BY <1>1, <1>3, <1>4, <1>5, <1>7 DEF Queued, r, s

\* rt_ipc_list_suspend of a ready or running thread.
LEMMA ListSuspendOK ==
    ASSUME NEW ks, NEW w \in WaitLists, NEW t \in Threads, NEW flag,
           KernelOK(ks), ks.stat[t] \in {"ready", "running"}
    PROVE  Queued(ks, rt_ipc_list_suspend(ks, w, t, flag), w, t)
<1>. DEFINE s == rt_thread_suspend(ks, t)
            n == Position(s, s.wait[w], s.prio[t], flag)
            q == InsertAt(s.wait[w], n, t)
<1>1. FreeOf(s, t) /\ KernelOK(s) /\ \A v \in WaitLists : s.wait[v] = ks.wait[v]
  BY SuspendOK, ZenonT(60) DEF Suspended
<1>2. rt_ipc_list_suspend(ks, w, t, flag) = [s EXCEPT !.wait[w] = q]
  BY DEF rt_ipc_list_suspend
<1>3. s \in KernelState
  BY <1>1 DEF KernelOK, QueueOK
<1>. HIDE DEF s
<1>4. s.wait[w] \in Seq(Threads) /\ IsInjective(s.wait[w]) /\ t \notin ToSet(s.wait[w])
  BY <1>1, <1>3 DEF FreeOf, KernelState
<1>5. n \in 1 .. Len(s.wait[w]) + 1
  BY <1>4, PositionInRange
<1>. HIDE DEF n
<1>6. q \in Seq(Threads) /\ IsInjective(q) /\ ToSet(q) = ToSet(s.wait[w]) \union {t}
  BY <1>4, <1>5, InsertAtFacts
<1>. HIDE DEF q
<1>7. ToSet(q) = ToSet(ks.wait[w]) \union {t}
  BY <1>1, <1>6
<1>8. Queued(ks, [s EXCEPT !.wait[w] = q], w, t)
  BY <1>6, <1>7, QueueThread DEF s
<1>. QED BY <1>2, <1>8

\* rt_ipc_list_resume: the first waiter of a non-empty list, and only it,
\* leaves the list.
LEMMA ListResumeOK ==
    ASSUME NEW ks, NEW w \in WaitLists, KernelOK(ks), ks.wait[w] # <<>>
    PROVE  LET t == Head(ks.wait[w]) IN
           /\ t \in Threads /\ t \in ToSet(ks.wait[w]) /\ ks.stat[t] = "suspend"
           /\ Woken(ks, rt_ipc_list_resume(ks, w), t)
<1>1. ks.wait[w] \in Seq(Threads) /\ WaitOK(ks)
  BY DEF KernelOK, QueueOK, KernelState
<1>2. ToSet(ks.wait[w]) \subseteq Threads
  BY <1>1, ToSetDef
<1>3. PICK t \in Threads : t = Head(ks.wait[w]) /\ t \in ToSet(ks.wait[w])
  BY <1>1, <1>2, HeadIn
<1>4. ks.stat[t] = "suspend"
  BY <1>1, <1>3 DEF WaitOK
<1>5. rt_ipc_list_resume(ks, w) = rt_thread_resume(ks, t)
  BY <1>3 DEF rt_ipc_list_resume
<1>6. Woken(ks, rt_thread_resume(ks, t), t)
  BY <1>4, ResumeOK
<1>. QED BY <1>3, <1>4, <1>5, <1>6

-----------------------------------------------------------------------------
\* The system starts consistent: the threads started before the scheduler are
\* ready, the most urgent of them runs.
LEMMA BootedOK ==
    /\ KernelOK(Booted)
    /\ Booted.lock = 0
    /\ Booted.stat[Idle] \in {"ready", "running"}
    /\ Booted.stat[Booted.cur] = "running"
    /\ \A t \in Threads : Booted.err[t] = "EOK"
    /\ \A w \in WaitLists : ToSet(Booted.wait[w]) = {}
    /\ Booted.prio = InitPrio /\ Booted.timers = {}
    /\ \A t \in Threads : Booted.stat[t] \in {"init", "ready", "running"}
    /\ MostUrgent(Booted)
<1>. DEFINE
       st == [t \in Threads |-> IF t \in ToSet(BootReady[InitPrio[t]])
                                THEN "ready" ELSE "init"]
       ks == [stat |-> st,
              prio |-> InitPrio, err |-> [t \in Threads |-> "EOK"],
              ready |-> BootReady, group |-> {p \in Prio : BootReady[p] # <<>>},
              wait |-> [w \in WaitLists |-> <<>>], defunct |-> <<>>,
              timers |-> {}, cur |-> Idle, lock |-> 0]
       to == HighestThread(ks)
       on == [ks EXCEPT !.cur = to]
       d == rt_schedule_remove_thread(on, to)
       r == [d EXCEPT !.stat[to] = "running"]
<1>1. Booted = r
  BY DEF Booted, rt_system_scheduler_start
<1>2. /\ ks.stat = st /\ ks.prio = InitPrio /\ ks.err = [t \in Threads |-> "EOK"]
      /\ ks.ready = BootReady /\ ks.group = {p \in Prio : BootReady[p] # <<>>}
      /\ ks.wait = [w \in WaitLists |-> <<>>] /\ ks.defunct = <<>>
      /\ ks.timers = {} /\ ks.cur = Idle /\ ks.lock = 0
  OBVIOUS
<1>3. ToSet(<<>>) = {} /\ IsInjective(<<>>) /\ <<>> \in Seq(Threads)
  BY DEF ToSet, IsInjective
<1>4. ks \in KernelState
  <2>1. st \in [Threads -> Stat]
    BY DEF Stat
  <2>2. [t \in Threads |-> "EOK"] \in [Threads -> Errno]
    BY DEF Errno
  <2>3. [w \in WaitLists |-> <<>>] \in [WaitLists -> Seq(Threads)]
    BY <1>3
  <2>. HIDE DEF st
  <2>. QED BY <1>3, <2>1, <2>2, <2>3, KernelAssumption DEF KernelState
<1>5. \A p \in Prio, t \in Threads :
         t \in ToSet(BootReady[p]) <=> st[t] = "ready" /\ InitPrio[t] = p
  BY KernelAssumption
<1>. HIDE DEF ks, st
<1>6. QueueOK(ks)
  <2>1. ReadyOK(ks)
    BY <1>2, <1>5, KernelAssumption DEF ReadyOK
  <2>2. WaitOK(ks) /\ DefunctOK(ks) /\ TimersOK(ks)
    BY <1>2, <1>3 DEF WaitOK, DefunctOK, TimersOK
  <2>. QED BY <1>4, <2>1, <2>2 DEF QueueOK
<1>7. ks.group # {} /\ ks.stat[Idle] = "ready"
  <2>1. /\ InitPrio[Idle] \in Prio /\ BootReady[InitPrio[Idle]] \in Seq(Threads)
        /\ Idle \in ToSet(BootReady[InitPrio[Idle]])
    BY KernelAssumption
  <2>2. BootReady[InitPrio[Idle]] # <<>>
    BY <2>1, ToSetDef
  <2>. QED BY <1>2, <1>5, <2>1, <2>2, KernelAssumption
<1>8. /\ to \in Threads /\ ks.stat[to] = "ready"
      /\ \A x \in Threads : ks.stat[x] = "ready" => ks.prio[to] <= ks.prio[x]
  BY <1>6, <1>7, HighestReady
<1>. HIDE DEF to
<1>9. /\ on \in KernelState
      /\ on.stat = ks.stat /\ on.ready = ks.ready /\ on.group = ks.group
      /\ on.wait = ks.wait /\ on.defunct = ks.defunct /\ on.prio = ks.prio
      /\ on.err = ks.err /\ on.cur = to /\ on.lock = ks.lock
      /\ on.timers = ks.timers
  BY <1>4, <1>8 DEF KernelState
<1>. HIDE DEF on
<1>10. QueueOK(on)
  BY <1>6, <1>9 DEF QueueOK, ReadyOK, WaitOK, DefunctOK, TimersOK
<1>11. /\ FreeOf(d, to)
       /\ d.stat = on.stat /\ d.prio = on.prio /\ d.err = on.err
       /\ d.timers = on.timers /\ d.cur = on.cur /\ d.lock = on.lock
       /\ \A w \in WaitLists : ToSet(d.wait[w]) = ToSet(on.wait[w]) \ {to}
  <2>1. /\ FreeOf(d, to)
        /\ d.stat = on.stat /\ d.prio = on.prio /\ d.err = on.err
    BY <1>8, <1>10, RemoveFrees
  <2>2. d.timers = on.timers /\ d.cur = on.cur /\ d.lock = on.lock
    BY <1>8, <1>10, RemoveFrees
  <2>3. \A w \in WaitLists : ToSet(d.wait[w]) = ToSet(on.wait[w]) \ {to}
    BY <1>8, <1>10, RemoveFrees
  <2>. QED BY <2>1, <2>2, <2>3
<1>. HIDE DEF d
<1>12. /\ QueueOK(r)
       /\ r.stat = [d.stat EXCEPT ![to] = "running"]
       /\ r.prio = d.prio /\ r.err = d.err /\ r.wait = d.wait
       /\ r.timers = d.timers /\ r.cur = d.cur /\ r.lock = d.lock
  <2>1. "running" \in Stat \ {"ready"} /\ to \notin d.timers
    BY <1>2, <1>9, <1>11 DEF Stat
  <2>. QED BY <1>8, <1>11, <2>1, PutState
<1>. HIDE DEF r
<1>13. \A x \in Threads : r.stat[x] = IF x = to THEN "running" ELSE ks.stat[x]
  BY <1>4, <1>8, <1>9, <1>11, <1>12 DEF KernelState
<1>14. r.cur = to
  BY <1>9, <1>11, <1>12
<1>15. CurOK(r)
  <2>1. \A x \in Threads : ks.stat[x] # "running"
    BY <1>2 DEF st
  <2>. QED BY <1>8, <1>13, <1>14, <2>1 DEF CurOK
<1>16. KernelOK(r)
  BY <1>12, <1>15 DEF KernelOK
<1>17. r.stat[Idle] \in {"ready", "running"} /\ r.stat[r.cur] = "running"
  BY <1>7, <1>8, <1>13, <1>14, KernelAssumption
<1>18. r.lock = 0 /\ \A t \in Threads : r.err[t] = "EOK"
  BY <1>2, <1>9, <1>11, <1>12
<1>19. \A w \in WaitLists : ToSet(r.wait[w]) = {}
  <2>. SUFFICES ASSUME NEW w \in WaitLists
                PROVE  ToSet(r.wait[w]) = {}
    OBVIOUS
  <2>1. ToSet(on.wait[w]) = {}
    BY <1>2, <1>3, <1>9
  <2>2. ToSet(d.wait[w]) = ToSet(on.wait[w]) \ {to}
    BY <1>11
  <2>. QED BY <1>12, <2>1, <2>2
<1>20. r.prio = InitPrio /\ r.timers = {}
  BY <1>2, <1>9, <1>11, <1>12
<1>21. \A t \in Threads : r.stat[t] \in {"init", "ready", "running"}
  BY <1>2, <1>13 DEF st
<1>22. MostUrgent(r)
  BY <1>2, <1>8, <1>13, <1>14, <1>20 DEF MostUrgent
<1>. QED BY <1>1, <1>16, <1>17, <1>18, <1>19, <1>20, <1>21, <1>22

-----------------------------------------------------------------------------
(* The steps of kernel calls.                                              *)

\* Nobody is suspended or woken, and only c's error code may have changed.
Quiet(ks, r, c) ==
    /\ KernelOK(r)
    /\ r.lock = ks.lock
    /\ \A w \in WaitLists : ToSet(r.wait[w]) = ToSet(ks.wait[w])
    /\ \A x \in Threads : \/ r.stat[x] = ks.stat[x]
                          \/ /\ ks.stat[x] \in {"ready", "running"}
                             /\ r.stat[x] \in {"ready", "running"}
    /\ \A x \in Threads : x # c => r.err[x] = ks.err[x]
    /\ \/ r.stat[r.cur] = "running"
       \/ r.cur = ks.cur /\ r.stat[r.cur] = ks.stat[ks.cur]
    /\ ks.lock = 0 \/ r.cur = ks.cur

\* Thread t has been taken off its list and can run.
Wakes(ks, r, t) ==
    /\ KernelOK(r)
    /\ r.lock = ks.lock /\ r.cur = ks.cur
    /\ \A w \in WaitLists : ToSet(r.wait[w]) = ToSet(ks.wait[w]) \ {t}
    /\ r.stat[t] \in {"ready", "running"}
    /\ \A x \in Threads : x # t => r.stat[x] = ks.stat[x] /\ r.err[x] = ks.err[x]

\* Thread t has been suspended.
Suspends(ks, r, t) ==
    /\ KernelOK(r)
    /\ r.lock = ks.lock /\ r.cur = ks.cur
    /\ r.stat[t] = "suspend"
    /\ \A x \in Threads : x # t => r.stat[x] = ks.stat[x] /\ r.err[x] = ks.err[x]

\* Thread t has been suspended on list w.
Joins(ks, r, w, t) ==
    /\ Suspends(ks, r, t)
    /\ r.err = ks.err
    /\ \A v \in WaitLists :
          ToSet(r.wait[v]) = ToSet(ks.wait[v]) \union (IF v = w THEN {t} ELSE {})

LEMMA QuietSame ==
    ASSUME NEW ks, NEW c, KernelOK(ks)
    PROVE  Quiet(ks, ks, c)
BY DEF Quiet

LEMMA QuietError ==
    ASSUME NEW ks, NEW c \in Threads, NEW e \in Errno, KernelOK(ks)
    PROVE  /\ Quiet(ks, [ks EXCEPT !.err[c] = e], c)
           /\ [ks EXCEPT !.err[c] = e].err[c] = e
           /\ [ks EXCEPT !.err[c] = e].prio = ks.prio
           /\ [ks EXCEPT !.err[c] = e].stat = ks.stat
           /\ [ks EXCEPT !.err[c] = e].cur = ks.cur
           /\ [ks EXCEPT !.err[c] = e].wait = ks.wait
<1>. DEFINE r == [ks EXCEPT !.err[c] = e]
<1>1. ErrorSet(ks, r, c, e)
  BY SetErrorOK
<1>2. ks \in KernelState
  BY DEF KernelOK, QueueOK
<1>. HIDE DEF r
<1>3. Quiet(ks, r, c) /\ r.err[c] = e /\ r.prio = ks.prio /\ r.stat = ks.stat
      /\ r.cur = ks.cur /\ r.wait = ks.wait
  BY <1>1, <1>2 DEF ErrorSet, Quiet, KernelState
<1>. QED BY <1>3 DEF r

LEMMA QuietPrio ==
    ASSUME NEW ks, NEW t \in Threads, NEW p \in Prio, NEW c, KernelOK(ks)
    PROVE  Quiet(ks, ChangePriority(ks, t, p), c)
<1>. DEFINE r == ChangePriority(ks, t, p)
<1>1. Requeued(ks, r, t, p)
  BY ChangePriorityOK
<1>. HIDE DEF r
<1>2. Quiet(ks, r, c)
  BY <1>1 DEF Requeued, Quiet
<1>. QED BY <1>2 DEF r

\* Because the idle thread is always runnable, rt_schedule finds a thread.
LEMMA QuietSchedule ==
    ASSUME NEW ks, NEW c, KernelOK(ks), ks.lock = 0,
           ks.stat[Idle] \in {"ready", "running"}
    PROVE  /\ Quiet(ks, rt_schedule(ks), c)
           /\ rt_schedule(ks).stat[rt_schedule(ks).cur] = "running"
           /\ rt_schedule(ks).err = ks.err
<1>. DEFINE r == rt_schedule(ks)
<1>1. Switched(ks, r)
  BY ScheduleOK
<1>. HIDE DEF r
<1>2. ks \in KernelState /\ ReadyOK(ks) /\ CurOK(ks) /\ Idle \in Threads
  BY KernelAssumption DEF KernelOK, QueueOK
<1>3. r.stat[r.cur] = "running"
  <2>1. CASE ks.stat[Idle] = "running"
    <3>1. ks.cur = Idle
      BY <1>2, <2>1 DEF CurOK
    <3>. QED BY <1>1, <2>1, <3>1 DEF Switched
  <2>2. CASE ks.stat[Idle] = "ready"
    <3>. DEFINE p == ks.prio[Idle]
    <3>1. p \in Prio /\ ks.ready[p] \in Seq(Threads)
      BY <1>2 DEF KernelState
    <3>2. Idle \in ToSet(ks.ready[p])
      BY <1>2, <2>2, <3>1 DEF ReadyOK
    <3>. HIDE DEF p
    <3>3. ks.ready[p] # <<>>
      BY <3>1, <3>2, ToSetDef
    <3>4. ks.group # {}
      BY <1>2, <3>1, <3>3 DEF ReadyOK
    <3>. QED BY <1>1, <3>4 DEF Switched
  <2>. QED BY <2>1, <2>2
<1>4. Quiet(ks, r, c) /\ r.err = ks.err
  BY <1>1, <1>3 DEF Switched, Quiet
<1>. QED BY <1>3, <1>4 DEF r

LEMMA WakesTimeout ==
    ASSUME NEW ks, NEW t \in Threads, KernelOK(ks), ks.stat[t] = "suspend"
    PROVE  /\ Wakes(ks, rt_thread_timeout(ks, t), t)
           /\ rt_thread_timeout(ks, t).err[t] = "ETIMEOUT"
<1>. DEFINE r == rt_thread_timeout(ks, t)
<1>1. Expired(ks, r, t)
  BY TimeoutOK
<1>. HIDE DEF r
<1>2. ks \in KernelState
  BY DEF KernelOK, QueueOK
<1>3. Wakes(ks, r, t) /\ r.err[t] = "ETIMEOUT"
  BY <1>1, <1>2 DEF Expired, Wakes, KernelState
<1>. QED BY <1>3 DEF r

LEMMA WakesHead ==
    ASSUME NEW ks, NEW w \in WaitLists, KernelOK(ks), ks.wait[w] # <<>>
    PROVE  LET t == Head(ks.wait[w]) IN
           /\ t \in Threads /\ t \in ToSet(ks.wait[w]) /\ ks.stat[t] = "suspend"
           /\ Wakes(ks, rt_ipc_list_resume(ks, w), t)
           /\ rt_ipc_list_resume(ks, w).err = ks.err
<1>. DEFINE r == rt_ipc_list_resume(ks, w)
<1>1. PICK t \in Threads : /\ t = Head(ks.wait[w]) /\ t \in ToSet(ks.wait[w])
                           /\ ks.stat[t] = "suspend" /\ Woken(ks, r, t)
  BY ListResumeOK
<1>. HIDE DEF r
<1>2. ks \in KernelState
  BY DEF KernelOK, QueueOK
<1>3. Wakes(ks, r, t) /\ r.err = ks.err
  BY <1>1, <1>2 DEF Woken, Wakes, KernelState
<1>. QED BY <1>1, <1>3 DEF r


LEMMA WakesError ==
    ASSUME NEW ks, NEW w \in WaitLists, KernelOK(ks), ks.wait[w] # <<>>
    PROVE  \E t \in ToSet(ks.wait[w]) :
              /\ t \in Threads
              /\ Wakes(ks, ResumeWithError(ks, w), t)
              /\ ResumeWithError(ks, w).err[t] = "ERROR"
<1>1. PICK t \in Threads : t = Head(ks.wait[w]) /\ t \in ToSet(ks.wait[w])
  BY WakesHead
<1>. DEFINE e == [ks EXCEPT !.err[t] = "ERROR"]
            r == rt_ipc_list_resume(e, w)
<1>2. ResumeWithError(ks, w) = r
  BY <1>1 DEF ResumeWithError
<1>3. Quiet(ks, e, t) /\ e.err[t] = "ERROR" /\ e.stat = ks.stat /\ e.cur = ks.cur
      /\ e.wait = ks.wait
  <2>1. "ERROR" \in Errno
    BY DEF Errno
  <2>. QED BY <2>1, QuietError
<1>. HIDE DEF e
<1>4. KernelOK(e) /\ e.wait[w] # <<>> /\ Head(e.wait[w]) = t
  BY <1>1, <1>3 DEF Quiet
<1>5. Wakes(e, r, t) /\ r.err = e.err
  BY <1>4, WakesHead
<1>. HIDE DEF r
<1>6. Wakes(ks, r, t) /\ r.err[t] = "ERROR"
  BY <1>3, <1>5 DEF Wakes, Quiet
<1>. QED BY <1>1, <1>2, <1>6

LEMMA SleepBlocks ==
    ASSUME NEW ks, NEW t \in Threads, NEW time, KernelOK(ks),
           ks.stat[t] \in {"ready", "running"}
    PROVE  LET r == StartTimer(rt_thread_suspend(ks, t), t, time) IN
           /\ Suspends(ks, r, t)
           /\ \A w \in WaitLists : ToSet(r.wait[w]) = ToSet(ks.wait[w])
<1>. DEFINE s == rt_thread_suspend(ks, t)
            r == StartTimer(s, t, time)
<1>1. Suspended(ks, s, t)
  BY SuspendOK
<1>. HIDE DEF s
<1>2. ks \in KernelState
  BY DEF KernelOK, QueueOK
<1>3. KernelOK(s) /\ s.stat[t] = "suspend"
  BY <1>1, <1>2 DEF Suspended, KernelState
<1>4. TimerSet(s, r)
  BY <1>3, StartTimerOK
<1>. HIDE DEF r
<1>5. Suspends(ks, r, t) /\ \A w \in WaitLists : ToSet(r.wait[w]) = ToSet(ks.wait[w])
  BY <1>1, <1>2, <1>4 DEF Suspended, TimerSet, Suspends, KernelState
<1>. QED BY <1>5 DEF r, s

LEMMA TakeBlocks ==
    ASSUME NEW ks, NEW w \in WaitLists, NEW t \in Threads, NEW flag, NEW time,
           KernelOK(ks), ks.stat[t] \in {"ready", "running"}
    PROVE  Joins(ks, StartTimer(rt_ipc_list_suspend(ks, w, t, flag), t, time), w, t)
<1>. DEFINE s == rt_ipc_list_suspend(ks, w, t, flag)
            r == StartTimer(s, t, time)
<1>1. Queued(ks, s, w, t)
  BY ListSuspendOK
<1>. HIDE DEF s
<1>2. ks \in KernelState
  BY DEF KernelOK, QueueOK
<1>3. KernelOK(s) /\ s.stat[t] = "suspend"
  BY <1>1, <1>2 DEF Queued, KernelState
<1>4. TimerSet(s, r)
  BY <1>3, StartTimerOK
<1>. HIDE DEF r
<1>5. Suspends(ks, r, t) /\ r.err = ks.err
  BY <1>1, <1>2, <1>4 DEF Queued, TimerSet, Suspends, KernelState
<1>6. ASSUME NEW v \in WaitLists
      PROVE  ToSet(r.wait[v]) = ToSet(ks.wait[v]) \union (IF v = w THEN {t} ELSE {})
  <2>1. CASE v = w
    BY <1>1, <1>4, <2>1 DEF Queued, TimerSet
  <2>2. CASE v # w
    <3>1. r.wait[v] = ks.wait[v]
      BY <1>1, <1>4, <2>2 DEF Queued, TimerSet
    <3>. QED BY <2>2, <3>1
  <2>. QED BY <2>1, <2>2
<1>. QED BY <1>5, <1>6 DEF r, s, Joins

\* The threads on a suspend list are threads.
LEMMA WaitersAreThreads ==
    ASSUME NEW ks, KernelOK(ks), NEW w \in WaitLists
    PROVE  ToSet(ks.wait[w]) \subseteq Threads
<1>1. ks.wait[w] \in Seq(Threads)
  BY DEF KernelOK, QueueOK, KernelState
<1>. QED BY <1>1, ToSetDef

-----------------------------------------------------------------------------
(* rt_ipc_list_resume_all inside a critical section.                       *)

\* The threads of S have been taken off their lists, with an error.
WakesAll(ks, r, S) ==
    /\ KernelOK(r)
    /\ r.lock = ks.lock /\ r.cur = ks.cur
    /\ \A w \in WaitLists : ToSet(r.wait[w]) = ToSet(ks.wait[w]) \ S
    /\ \A x \in S : r.stat[x] \in {"ready", "running"} /\ r.err[x] = "ERROR"
    /\ \A x \in Threads \ S : r.stat[x] = ks.stat[x] /\ r.err[x] = ks.err[x]

\* Each turn of the loop makes the list shorter by one.
LEMMA TurnShortens ==
    ASSUME NEW ks, NEW w \in WaitLists, KernelOK(ks), ks.wait[w] # <<>>
    PROVE  Len(ResumeWithError(ks, w).wait[w]) = Len(ks.wait[w]) - 1
<1>. DEFINE t == Head(ks.wait[w])
            e == [ks EXCEPT !.err[t] = "ERROR"]
            u == Unlink(e, t)
            v == [u EXCEPT !.timers = @ \ {t}]
<1>1. /\ t \in Threads /\ t \in ToSet(ks.wait[w]) /\ ks.stat[t] = "suspend"
  BY ListResumeOK
<1>2. ks \in KernelState /\ ks.wait[w] \in Seq(Threads) /\ IsInjective(ks.wait[w])
  BY DEF KernelOK, QueueOK, KernelState, WaitOK
<1>. HIDE DEF t
<1>3. e \in KernelState /\ e.wait = ks.wait /\ e.stat = ks.stat
  BY <1>1, <1>2 DEF KernelState, Errno
<1>4. ResumeWithError(ks, w) = rt_schedule_insert_thread(v, t)
  <2>1. ResumeWithError(ks, w) = rt_ipc_list_resume(e, w)
    BY DEF ResumeWithError, t
  <2>2. rt_ipc_list_resume(e, w) = rt_thread_resume(e, t)
    BY <1>3 DEF rt_ipc_list_resume, t
  <2>. QED BY <1>1, <1>3, <2>1, <2>2 DEF rt_thread_resume
<1>. HIDE DEF e
<1>5. v.wait[w] = RemoveFirst(ks.wait[w], t)
  BY <1>3 DEF Unlink, KernelState
<1>. HIDE DEF v
<1>6. rt_schedule_insert_thread(v, t).wait = v.wait
  BY DEF rt_schedule_insert_thread
<1>7. Len(RemoveFirst(ks.wait[w], t)) = Len(ks.wait[w]) - 1
  BY <1>1, <1>2, RemoveFacts
<1>. QED BY <1>4, <1>5, <1>6, <1>7

\* One turn of the loop after some.
LEMMA TurnWakes ==
    ASSUME NEW ks, NEW r, NEW w \in WaitLists, NEW S \in SUBSET ToSet(ks.wait[w]),
           KernelOK(ks), WakesAll(ks, r, S), r.wait[w] # <<>>
    PROVE  \E T \in SUBSET ToSet(ks.wait[w]) : WakesAll(ks, ResumeWithError(r, w), T)
<1>. DEFINE n == ResumeWithError(r, w)
<1>1. KernelOK(r)
  BY DEF WakesAll
<1>2. PICK t \in ToSet(r.wait[w]) : t \in Threads /\ Wakes(r, n, t) /\ n.err[t] = "ERROR"
  BY <1>1, WakesError
<1>. HIDE DEF n
<1>3. t \in ToSet(ks.wait[w]) /\ t \notin S
  BY <1>2 DEF WakesAll
<1>4. S \subseteq Threads
  BY WaitersAreThreads
<1>5. WakesAll(ks, n, S \union {t})
  BY <1>2, <1>3, <1>4, SMTT(30) DEF WakesAll, Wakes
<1>. QED BY <1>3, <1>5 DEF n

\* rt_ipc_list_resume_all takes everybody off the list, and touches no one else.
LEMMA ResumeAllOK ==
    ASSUME NEW ks, NEW w \in WaitLists, KernelOK(ks)
    PROVE  WakesAll(ks, rt_ipc_list_resume_all(ks, w), ToSet(ks.wait[w]))
<1>. DEFINE N == Len(ks.wait[w])
            W == ToSet(ks.wait[w])
            S == {s \in KernelState : KernelOK(s)}
            h == [s \in S |-> IF s.wait[w] = <<>> THEN s ELSE ResumeWithError(s, w)]
            g == [n \in 1 .. N |-> h]
            F(f) == [n \in 0 .. N |-> IF n = 0 THEN ks ELSE ResumeWithError(f[n - 1], w)]
            turn == CHOOSE f : f = F(f)
<1>1. rt_ipc_list_resume_all(ks, w) = turn[N]
  BY Zenon DEF rt_ipc_list_resume_all
<1>2. ks \in KernelState /\ ks \in S /\ ks.wait[w] \in Seq(Threads) /\ N \in Nat
  BY DEF KernelOK, QueueOK, KernelState
<1>3. WakesAll(ks, ks, {})
  BY DEF WakesAll
<1>4. ASSUME NEW s \in S, s.wait[w] # <<>>
      PROVE  ResumeWithError(s, w) \in S
  <2>1. \E t \in ToSet(s.wait[w]) : Wakes(s, ResumeWithError(s, w), t)
    BY <1>4, WakesError
  <2>2. KernelOK(ResumeWithError(s, w))
    BY <2>1 DEF Wakes
  <2>3. ResumeWithError(s, w) \in KernelState
    BY <2>2 DEF KernelOK, QueueOK
  <2>. QED BY <2>2, <2>3
<1>5. h \in [S -> S]
  BY <1>4
<1>6. PICK f \in [0 .. N -> S] : f[0] = ks /\ \A n \in 1 .. N : f[n] = h[f[n - 1]]
  <2>. HIDE DEF h, S, N
  <2>1. ks \in S /\ N \in Nat /\ g \in [1 .. N -> [S -> S]]
    BY <1>2, <1>5
  <2>2. Histories(S, ks, g, N) # {}
    <3>. HIDE DEF g
    <3>. QED BY <2>1, Iterates
  <2>. QED BY <2>2 DEF Histories
<1>. DEFINE P == {n \in 0 .. N : Len(f[n].wait[w]) = N - n}
<1>7. 0 .. N \subseteq P
  <2>1. 0 \in P
    BY <1>2, <1>6
  <2>2. ASSUME NEW n \in 0 .. N - 1, n \in P
        PROVE  n + 1 \in P
    <3>1. /\ f[n] \in S /\ n + 1 \in 1 .. N /\ n \in 0 .. N
          /\ f[n + 1] = h[f[n]]
      <4>1. n + 1 \in 1 .. N /\ n \in 0 .. N /\ (n + 1) - 1 = n
        BY <1>2
      <4>. QED BY <1>6, <4>1
    <3>2. Len(f[n].wait[w]) = N - n /\ N - n > 0
      BY <1>2, <2>2
    <3>3. f[n].wait[w] # <<>>
      BY <3>2
    <3>4. f[n + 1] = ResumeWithError(f[n], w)
      BY <3>1, <3>3
    <3>5. Len(ResumeWithError(f[n], w).wait[w]) = N - n - 1
      BY <3>1, <3>2, <3>3, TurnShortens
    <3>6. Len(f[n + 1].wait[w]) = N - (n + 1) /\ n + 1 \in 0 .. N
      BY <1>2, <3>1, <3>4, <3>5
    <3>. QED BY <3>6
  <2>. HIDE DEF P
  <2>. QED BY <1>2, <2>1, <2>2, UpTo
<1>8. f = F(f)
  <2>1. ASSUME NEW n \in 0 .. N, n # 0
        PROVE  f[n] = ResumeWithError(f[n - 1], w)
    <3>1. n \in 1 .. N /\ n - 1 \in 0 .. N /\ N - (n - 1) > 0
      BY <1>2, <2>1
    <3>2. f[n - 1] \in S /\ Len(f[n - 1].wait[w]) = N - (n - 1)
      BY <1>6, <1>7, <3>1
    <3>3. f[n - 1].wait[w] # <<>>
      BY <3>1, <3>2
    <3>. QED BY <1>6, <3>1, <3>2, <3>3
  <2>2. \A n \in 0 .. N : f[n] = IF n = 0 THEN ks ELSE ResumeWithError(f[n - 1], w)
    BY <1>6, <2>1
  <2>. QED BY <1>6, <2>2
<1>9. turn = F(turn)
  BY <1>8, Zenon
<1>. HIDE DEF turn
<1>10. /\ turn[0] = ks
       /\ \A n \in 0 .. N - 1 : turn[n + 1] = ResumeWithError(turn[n], w)
  <2>1. \A n \in 0 .. N : turn[n] = IF n = 0 THEN ks ELSE ResumeWithError(turn[n - 1], w)
    BY <1>9
  <2>2. turn[0] = ks
    BY <1>2, <2>1
  <2>3. ASSUME NEW n \in 0 .. N - 1
        PROVE  turn[n + 1] = ResumeWithError(turn[n], w)
    <3>1. n + 1 \in 0 .. N /\ n + 1 # 0 /\ (n + 1) - 1 = n
      BY <1>2
    <3>. QED BY <2>1, <3>1
  <2>. QED BY <2>2, <2>3
<1>. DEFINE Q == {n \in 0 .. N : /\ Len(turn[n].wait[w]) = N - n
                                 /\ \E T \in SUBSET W : WakesAll(ks, turn[n], T)}
<1>11. 0 .. N \subseteq Q
  <2>1. 0 \in Q
    BY <1>2, <1>3, <1>10
  <2>2. ASSUME NEW n \in 0 .. N - 1, n \in Q
        PROVE  n + 1 \in Q
    <3>1. PICK T \in SUBSET W : WakesAll(ks, turn[n], T)
      BY <2>2
    <3>2. Len(turn[n].wait[w]) = N - n /\ N - n > 0 /\ n + 1 \in 0 .. N
      BY <1>2, <2>2
    <3>3. turn[n].wait[w] # <<>> /\ KernelOK(turn[n])
      BY <3>1, <3>2 DEF WakesAll
    <3>4. turn[n + 1] = ResumeWithError(turn[n], w)
      BY <1>10
    <3>5. \E U \in SUBSET W : WakesAll(ks, turn[n + 1], U)
      BY <3>1, <3>3, <3>4, TurnWakes
    <3>6. Len(turn[n + 1].wait[w]) = N - (n + 1)
      <4>1. Len(turn[n + 1].wait[w]) = Len(turn[n].wait[w]) - 1
        BY <3>3, <3>4, TurnShortens
      <4>. QED BY <1>2, <3>2, <4>1
    <3>. QED BY <3>2, <3>5, <3>6
  <2>. HIDE DEF Q
  <2>. QED BY <1>2, <2>1, <2>2, UpTo
<1>12. N \in Q
  <2>. HIDE DEF Q, N
  <2>1. N \in 0 .. N
    BY <1>2
  <2>. QED BY <1>11, <2>1
<1>13. PICK T \in SUBSET W : WakesAll(ks, turn[N], T)
  BY <1>12
<1>14. T = W
  <2>1. turn[N].wait[w] \in Seq(Threads)
    BY <1>13 DEF WakesAll, KernelOK, QueueOK, KernelState
  <2>2. Len(turn[N].wait[w]) = 0
    BY <1>2, <1>12
  <2>3. turn[N].wait[w] = <<>>
    BY <2>1, <2>2
  <2>4. ToSet(turn[N].wait[w]) = {}
    <3>. DEFINE q == turn[N].wait[w]
    <3>1. q \in Seq(Threads) /\ q = <<>>
      BY <2>1, <2>3
    <3>. HIDE DEF q
    <3>2. ToSet(q) = {}
      BY <3>1, ToSetDef
    <3>. QED BY <3>2 DEF q
  <2>. QED BY <1>13, <2>4 DEF WakesAll
<1>. QED BY <1>1, <1>13, <1>14

-----------------------------------------------------------------------------
(* Walks along a suspend list that wake some of its threads.               *)

LEMMA ResumeKeeps ==
    ASSUME NEW ks, NEW t \in Threads, KernelOK(ks)
    PROVE  KernelOK(rt_thread_resume(ks, t))
<1>1. CASE ks.stat[t] = "suspend"
  BY <1>1, ResumeOK DEF Woken
<1>2. CASE ks.stat[t] # "suspend"
  BY <1>2 DEF rt_thread_resume
<1>. QED BY <1>1, <1>2

\* The threads of T have been taken off their lists, with no word of an error.
Serves(ks, r, T) ==
    /\ KernelOK(r)
    /\ r.lock = ks.lock /\ r.cur = ks.cur /\ r.err = ks.err
    /\ \A w \in WaitLists : ToSet(r.wait[w]) = ToSet(ks.wait[w]) \ T
    /\ \A x \in T : r.stat[x] \in {"ready", "running"}
    /\ \A x \in Threads : x \notin T => r.stat[x] = ks.stat[x]

LEMMA ServesNobody ==
    ASSUME NEW ks, KernelOK(ks)
    PROVE  Serves(ks, ks, {})
BY DEF Serves

\* One more thread is resumed.
LEMMA ServesOneMore ==
    ASSUME NEW ks, NEW m, NEW T \in SUBSET Threads, NEW t \in Threads,
           KernelOK(ks), Serves(ks, m, T), t \notin T, ks.stat[t] = "suspend"
    PROVE  Serves(ks, rt_thread_resume(m, t), T \union {t})
<1>. DEFINE r == rt_thread_resume(m, t)
<1>1. KernelOK(m) /\ m \in KernelState /\ m.stat[t] = "suspend"
  BY DEF Serves, KernelOK, QueueOK
<1>2. Woken(m, r, t)
  BY <1>1, ResumeOK
<1>. HIDE DEF r
<1>3. /\ KernelOK(r) /\ r.lock = ks.lock /\ r.cur = ks.cur /\ r.err = ks.err
      /\ r.stat[t] \in {"ready", "running"}
      /\ \A x \in Threads : x # t => r.stat[x] = m.stat[x]
  BY <1>1, <1>2 DEF Woken, Serves, KernelState
<1>4. ASSUME NEW w \in WaitLists
      PROVE  ToSet(r.wait[w]) = ToSet(ks.wait[w]) \ (T \union {t})
  BY <1>2 DEF Woken, Serves
<1>5. Serves(ks, r, T \union {t})
  BY <1>3, <1>4 DEF Serves
<1>. QED BY <1>5 DEF r

\* With the scheduler locked nothing happens.
LEMMA QuietTrySchedule ==
    ASSUME NEW ks, NEW c, KernelOK(ks), ks.lock = 0 \/ ks.stat[ks.cur] = "running",
           ks.stat[Idle] \in {"ready", "running"}
    PROVE  /\ Quiet(ks, rt_schedule(ks), c)
           /\ rt_schedule(ks).stat[rt_schedule(ks).cur] = "running"
           /\ rt_schedule(ks).err = ks.err
<1>1. CASE ks.lock = 0
  BY <1>1, QuietSchedule
<1>2. CASE ks.lock # 0 /\ ks.stat[ks.cur] = "running"
  <2>1. rt_schedule(ks) = ks
    BY <1>2 DEF rt_schedule
  <2>. QED BY <1>2, <2>1, QuietSame
<1>. QED BY <1>1, <1>2

-----------------------------------------------------------------------------
(* The invariant that all services share, and the steps that keep it.      *)

Ready == {"ready", "running"}

\* W[w] is the set of pairs of a place and an object at which a thread may be
\* while it is on list w, S the set of places at which the current thread may
\* be suspended, on its way to rt_schedule, and L the set of places at which a
\* thread has locked the scheduler.
\*
\* The processor is never left without a thread to run; a thread that has the
\* scheduler locked keeps the processor; a thread is on a list only while it
\* waits there, with its error code untouched; and once off the list it is
\* runnable.
KernelInv(S, L, W) ==
    /\ KernelOK(k)
    /\ k.lock = (IF pc[k.cur] \in L THEN 1 ELSE 0)
    /\ \A t \in Threads : pc[t] \in L => t = k.cur /\ k.stat[t] = "running"
    /\ k.stat[Idle] \in Ready
    /\ k.stat[k.cur] = "running" \/ (k.stat[k.cur] = "suspend" /\ pc[k.cur] \in S)
    /\ \A w \in WaitLists : \A t \in ToSet(k.wait[w]) :
          <<pc[t], arg[t]>> \in W[w] /\ k.err[t] = "EOK"
    /\ \A t \in Threads, w \in WaitLists :
          <<pc[t], arg[t]>> \in W[w] /\ t \notin ToSet(k.wait[w]) => k.stat[t] \in Ready

\* t has been taken off list w by somebody who had something for it, and has yet
\* to find out.
Served(t, w, W) ==
    /\ <<pc[t], arg[t]>> \in W[w]
    /\ k.err[t] = "EOK"
    /\ t \notin ToSet(k.wait[w])

\* The threads of T have been taken off their lists and can run; nobody else
\* has been suspended or woken, and of the others only c's error code may have
\* changed.
Frees(ks, r, T, c) ==
    /\ KernelOK(r)
    /\ r.lock = ks.lock
    /\ \A w \in WaitLists : ToSet(r.wait[w]) = ToSet(ks.wait[w]) \ T
    /\ \A x \in T : r.stat[x] \in Ready
    /\ \A x \in Threads :
          x \notin T => r.stat[x] = ks.stat[x] \/ (ks.stat[x] \in Ready /\ r.stat[x] \in Ready)
    /\ \A x \in Threads : x \notin T /\ x # c => r.err[x] = ks.err[x]
    /\ \/ r.stat[r.cur] = "running"
       \/ r.cur = ks.cur /\ r.stat[r.cur] = ks.stat[ks.cur]
    /\ ks.lock = 0 \/ r.cur = ks.cur

LEMMA QuietFrees ==
    ASSUME NEW ks, NEW r, NEW c, Quiet(ks, r, c)
    PROVE  Frees(ks, r, {}, c)
BY DEF Quiet, Frees, Ready

LEMMA WakesFrees ==
    ASSUME NEW ks, NEW r, NEW c, NEW t \in Threads, KernelOK(ks), Wakes(ks, r, t)
    PROVE  Frees(ks, r, {t}, c)
<1>1. r \in KernelState /\ CurOK(r) /\ r.cur \in Threads /\ ks.cur = r.cur
  BY DEF Wakes, KernelOK, QueueOK, KernelState
<1>2. \/ r.stat[r.cur] = "running"
      \/ r.cur = ks.cur /\ r.stat[r.cur] = ks.stat[ks.cur]
  BY <1>1 DEF Wakes, CurOK
<1>. QED BY <1>2 DEF Wakes, Frees, Ready

LEMMA WakesAllFrees ==
    ASSUME NEW ks, NEW r, NEW c, NEW T \in SUBSET Threads, KernelOK(ks), WakesAll(ks, r, T)
    PROVE  Frees(ks, r, T, c)
<1>1. r \in KernelState /\ CurOK(r) /\ r.cur \in Threads /\ ks.cur = r.cur
  BY DEF WakesAll, KernelOK, QueueOK, KernelState
<1>2. \/ r.stat[r.cur] = "running"
      \/ r.cur = ks.cur /\ r.stat[r.cur] = ks.stat[ks.cur]
  BY <1>1 DEF WakesAll, CurOK
<1>. QED BY <1>2 DEF WakesAll, Frees, Ready

LEMMA ServesFrees ==
    ASSUME NEW ks, NEW r, NEW c, NEW T \in SUBSET Threads, KernelOK(ks), Serves(ks, r, T)
    PROVE  Frees(ks, r, T, c)
<1>1. r \in KernelState /\ CurOK(r) /\ r.cur \in Threads /\ ks.cur = r.cur
  BY DEF Serves, KernelOK, QueueOK, KernelState
<1>2. \/ r.stat[r.cur] = "running"
      \/ r.cur = ks.cur /\ r.stat[r.cur] = ks.stat[ks.cur]
  BY <1>1 DEF Serves, CurOK
<1>. QED BY <1>1, <1>2 DEF Serves, Frees, Ready

\* Two such calls in one critical section.
LEMMA FreesTwice ==
    ASSUME NEW ks, NEW m, NEW r, NEW c, NEW T \in SUBSET Threads, NEW U \in SUBSET Threads,
           KernelOK(ks), Frees(ks, m, T, c), Frees(m, r, U, c)
    PROVE  Frees(ks, r, T \union U, c)
<1>1. /\ ks.cur \in Threads /\ m.cur \in Threads /\ r.cur \in Threads
      /\ CurOK(r) /\ CurOK(m) /\ KernelOK(r)
  BY DEF Frees, KernelOK, QueueOK, KernelState
<1>2. ASSUME NEW w \in WaitLists
      PROVE  ToSet(r.wait[w]) = ToSet(ks.wait[w]) \ (T \union U)
  BY DEF Frees
<1>3. ASSUME NEW x \in T \union U
      PROVE  r.stat[x] \in Ready
  BY DEF Frees
<1>4. ASSUME NEW x \in Threads, x \notin T \union U
      PROVE  r.stat[x] = ks.stat[x] \/ (ks.stat[x] \in Ready /\ r.stat[x] \in Ready)
  BY <1>4 DEF Frees
<1>5. ASSUME NEW x \in Threads, x \notin T \union U, x # c
      PROVE  r.err[x] = ks.err[x]
  BY <1>5 DEF Frees
<1>6. \/ r.stat[r.cur] = "running"
      \/ r.cur = ks.cur /\ r.stat[r.cur] = ks.stat[ks.cur]
  <2>1. CASE r.cur = m.cur /\ m.stat[m.cur] = "running"
    BY <1>1, <2>1 DEF Frees
  <2>2. CASE r.cur = m.cur /\ m.cur = ks.cur
    BY <2>2 DEF Frees
  <2>. QED BY <2>1, <2>2 DEF Frees
<1>7. r.lock = ks.lock /\ (ks.lock = 0 \/ r.cur = ks.cur)
  BY DEF Frees
<1>. QED BY <1>1, <1>2, <1>3, <1>4, <1>5, <1>6, <1>7 DEF Frees

\* The current thread, or any thread when no place changes, takes a step that
\* at most takes threads off lists.
LEMMA FreesInv ==
    ASSUME NEW CONSTANT S, NEW CONSTANT L, NEW CONSTANT W, KernelInv(S, L, W),
           NEW c \in Threads, NEW T \in SUBSET Threads, Frees(k, k', T, c),
           \A x \in Threads : x # c => pc'[x] = pc[x] /\ arg'[x] = arg[x],
           \A w \in WaitLists :
              <<pc'[c], arg'[c]>> \in W[w] => <<pc[c], arg[c]>> \in W[w],
           \/ \A w \in WaitLists : c \notin ToSet(k.wait[w])
           \/ /\ \A w \in WaitLists : <<pc[c], arg[c]>> \in W[w] => <<pc'[c], arg'[c]>> \in W[w]
              /\ c \notin T => k'.err[c] = k.err[c],
           k'.stat[k'.cur] = "running" \/ pc' = pc,
           pc'[c] \in L <=> pc[c] \in L
    PROVE  /\ KernelInv(S, L, W)'
           /\ \A w \in WaitLists : ToSet(k'.wait[w]) = ToSet(k.wait[w]) \ T
           /\ \A x \in Threads, w \in WaitLists :
                 x \notin T /\ x # c => (Served(x, w, W)' <=> Served(x, w, W))
<1>1. /\ KernelOK(k') /\ k'.lock = k.lock
      /\ \A w \in WaitLists : ToSet(k'.wait[w]) = ToSet(k.wait[w]) \ T
      /\ \A x \in T : k'.stat[x] \in Ready
      /\ \A x \in Threads :
           x \notin T => k'.stat[x] = k.stat[x] \/ (k.stat[x] \in Ready /\ k'.stat[x] \in Ready)
      /\ \A x \in Threads : x \notin T /\ x # c => k'.err[x] = k.err[x]
      /\ \/ k'.stat[k'.cur] = "running"
         \/ k'.cur = k.cur /\ k'.stat[k'.cur] = k.stat[k.cur]
      /\ k.lock = 0 \/ k'.cur = k.cur
  BY DEF Frees
<1>0. /\ k'.lock = (IF pc'[k'.cur] \in L THEN 1 ELSE 0)
      /\ \A x \in Threads : pc'[x] \in L => x = k'.cur /\ k'.stat[x] = "running"
  <2>1. /\ k.cur \in Threads /\ k'.cur \in Threads
        /\ \A x \in Threads : pc'[x] \in L <=> pc[x] \in L
    BY <1>1 DEF KernelInv, KernelOK, QueueOK, KernelState
  <2>2. CASE k.lock = 0
    BY <1>1, <2>1, <2>2 DEF KernelInv
  <2>3. CASE k'.cur = k.cur
    BY <1>1, <2>1, <2>3 DEF KernelInv
  <2>. QED BY <1>1, <2>2, <2>3
<1>2. /\ k'.stat[Idle] \in Ready
      /\ \/ k'.stat[k'.cur] = "running"
         \/ k'.stat[k'.cur] = "suspend" /\ pc'[k'.cur] \in S
  <2>1. Idle \in Threads
    BY KernelAssumption
  <2>. QED BY <1>1, <2>1 DEF KernelInv
<1>3. ASSUME NEW w \in WaitLists, NEW x \in ToSet(k'.wait[w])
      PROVE  <<pc'[x], arg'[x]>> \in W[w] /\ k'.err[x] = "EOK"
  <2>1. x \in ToSet(k.wait[w]) /\ x \notin T
    BY <1>1
  <2>2. x \in Threads
    BY <1>1, WaitersAreThreads
  <2>3. <<pc[x], arg[x]>> \in W[w] /\ k.err[x] = "EOK"
    BY <2>1 DEF KernelInv
  <2>4. CASE x # c
    BY <1>1, <2>1, <2>2, <2>3, <2>4
  <2>5. CASE x = c
    BY <2>1, <2>3, <2>5
  <2>. QED BY <2>4, <2>5
<1>4. ASSUME NEW x \in Threads, NEW w \in WaitLists,
             <<pc'[x], arg'[x]>> \in W[w], x \notin ToSet(k'.wait[w])
      PROVE  k'.stat[x] \in Ready
  <2>1. CASE x \in T
    BY <1>1, <2>1
  <2>2. CASE x \notin T
    <3>1. x \notin ToSet(k.wait[w])
      BY <1>1, <1>4, <2>2
    <3>2. <<pc[x], arg[x]>> \in W[w]
      BY <1>4
    <3>3. k.stat[x] \in Ready
      BY <3>1, <3>2 DEF KernelInv
    <3>. QED BY <1>1, <2>2, <3>3
  <2>. QED BY <2>1, <2>2
<1>5. KernelInv(S, L, W)'
  BY <1>0, <1>1, <1>2, <1>3, <1>4 DEF KernelInv
<1>6. ASSUME NEW x \in Threads, NEW w \in WaitLists, x \notin T, x # c
      PROVE  Served(x, w, W)' <=> Served(x, w, W)
  BY <1>1, <1>6 DEF Served
<1>. QED BY <1>1, <1>5, <1>6

\* The current thread suspends itself, on list v or on none, and no error code
\* but its own changes.
LEMMA BlocksInv ==
    ASSUME NEW CONSTANT S, NEW CONSTANT L, NEW CONSTANT W, KernelInv(S, L, W), NEW t \in Threads \ {Idle}, t = k.cur,
           Suspends(k, k', t), k.stat[t] = "running",
           pc[t] \notin L, pc'[t] \in S, pc'[t] \notin L,
           \A x \in Threads : x # t => pc'[x] = pc[x] /\ arg'[x] = arg[x],
           \A w \in WaitLists : <<pc'[t], arg'[t]>> \in W[w] => k'.err[t] = "EOK",
           \A w \in WaitLists :
              ToSet(k'.wait[w]) = ToSet(k.wait[w]) \union
                 (IF <<pc'[t], arg'[t]>> \in W[w] THEN {t} ELSE {})
    PROVE  /\ KernelInv(S, L, W)'
           /\ \A x \in Threads, w \in WaitLists :
                 x # t => (Served(x, w, W)' <=> Served(x, w, W))
           /\ \A w \in WaitLists : ~Served(t, w, W)'
<1>1. /\ KernelOK(k') /\ k'.lock = k.lock /\ k'.cur = k.cur
      /\ k'.stat[t] = "suspend"
      /\ \A x \in Threads : x # t => k'.stat[x] = k.stat[x] /\ k'.err[x] = k.err[x]
  BY DEF Suspends
<1>2. t \in Threads /\ t # Idle /\ Idle \in Threads
  BY KernelAssumption
<1>3. \A w \in WaitLists : t \notin ToSet(k.wait[w])
  BY DEF KernelInv, KernelOK, QueueOK, WaitOK
<1>4. /\ k'.lock = (IF pc'[k'.cur] \in L THEN 1 ELSE 0)
      /\ \A x \in Threads : pc'[x] \notin L
      /\ k'.stat[Idle] \in Ready
      /\ k'.stat[k'.cur] = "suspend" /\ pc'[k'.cur] \in S
  BY <1>1, <1>2 DEF KernelInv
<1>5. ASSUME NEW w \in WaitLists, NEW x \in ToSet(k'.wait[w])
      PROVE  <<pc'[x], arg'[x]>> \in W[w] /\ k'.err[x] = "EOK"
  <2>1. CASE x = t
    <3>1. <<pc'[t], arg'[t]>> \in W[w]
      BY <1>3, <2>1
    <3>. QED BY <2>1, <3>1
  <2>2. CASE x # t
    <3>1. x \in ToSet(k.wait[w])
      BY <2>2
    <3>2. x \in Threads
      BY <1>1, WaitersAreThreads
    <3>3. <<pc[x], arg[x]>> \in W[w] /\ k.err[x] = "EOK"
      BY <3>1 DEF KernelInv
    <3>. QED BY <1>1, <2>2, <3>2, <3>3
  <2>. QED BY <2>1, <2>2
<1>6. ASSUME NEW x \in Threads, NEW w \in WaitLists,
             <<pc'[x], arg'[x]>> \in W[w], x \notin ToSet(k'.wait[w])
      PROVE  k'.stat[x] \in Ready
  <2>1. x # t
    BY <1>6
  <2>2. <<pc[x], arg[x]>> \in W[w] /\ x \notin ToSet(k.wait[w])
    BY <1>6, <2>1
  <2>. QED BY <1>1, <2>1, <2>2 DEF KernelInv
<1>7. KernelInv(S, L, W)'
  BY <1>1, <1>4, <1>5, <1>6 DEF KernelInv
<1>8. ASSUME NEW x \in Threads, NEW w \in WaitLists, x # t
      PROVE  Served(x, w, W)' <=> Served(x, w, W)
  <2>1. x \in ToSet(k'.wait[w]) <=> x \in ToSet(k.wait[w])
    BY <1>8
  <2>. QED BY <1>1, <1>8, <2>1 DEF Served
<1>9. ASSUME NEW w \in WaitLists
      PROVE  ~Served(t, w, W)'
  <2>1. CASE <<pc'[t], arg'[t]>> \in W[w]
    BY <2>1 DEF Served
  <2>2. CASE <<pc'[t], arg'[t]>> \notin W[w]
    BY <2>2 DEF Served
  <2>. QED BY <2>1, <2>2
<1>. QED BY <1>7, <1>8, <1>9

\* The tick interrupt wakes threads whose time is over; none of them had been
\* served.
LEMMA TickInv ==
    ASSUME NEW CONSTANT S, NEW CONSTANT L, NEW CONSTANT W, KernelInv(S, L, W), Tick, UNCHANGED <<pc, arg>>
    PROVE  /\ KernelInv(S, L, W)'
           /\ \A w \in WaitLists : ToSet(k'.wait[w]) \subseteq ToSet(k.wait[w])
           /\ \A x \in Threads, w \in WaitLists : Served(x, w, W)' <=> Served(x, w, W)
           /\ isr' \in {"none", "tick", "timeout"}
<1>. DEFINE c == k.cur
<1>1. /\ KernelOK(k) /\ c \in Threads /\ k.stat[Idle] \in Ready
      /\ k.lock = 0 \/ k.stat[k.cur] = "running"
      /\ TimersOK(k) /\ pc' = pc /\ arg' = arg
  BY DEF KernelInv, KernelOK, QueueOK, KernelState
<1>. HIDE DEF c
<1>2. isr' \in {"none", "tick", "timeout"}
  BY DEF Tick, TickEnter, TickExpire, TickSchedule, TickLeave
<1>3. CASE TickEnter \/ TickSchedule \/ TickLeave
  <2>1. k' = k \/ k' = rt_schedule(k)
    BY <1>3 DEF TickEnter, TickSchedule, TickLeave
  <2>2. Quiet(k, k', c) /\ k'.err = k.err
    <3>1. CASE k' = k
      BY <1>1, <3>1, QuietSame
    <3>2. CASE k' = rt_schedule(k)
      BY <1>1, <3>2, QuietTrySchedule DEF Ready
    <3>. QED BY <2>1, <3>1, <3>2
  <2>3. Frees(k, k', {}, c)
    BY <2>2, QuietFrees
  <2>4. /\ KernelInv(S, L, W)'
        /\ \A w \in WaitLists : ToSet(k'.wait[w]) = ToSet(k.wait[w]) \ {}
    <3>. DEFINE N == {}
    <3>1. N \in SUBSET Threads /\ Frees(k, k', N, c)
      BY <2>3
    <3>2. /\ \A x \in Threads : x # c => pc'[x] = pc[x] /\ arg'[x] = arg[x]
          /\ \A w \in WaitLists :
                <<pc'[c], arg'[c]>> \in W[w] <=> <<pc[c], arg[c]>> \in W[w]
          /\ k'.err[c] = k.err[c]
      BY <1>1, <2>2
    <3>. HIDE DEF N
    <3>3. KernelInv(S, L, W)' /\ \A w \in WaitLists : ToSet(k'.wait[w]) = ToSet(k.wait[w]) \ N
      BY <1>1, <3>1, <3>2, FreesInv
    <3>. QED BY <3>3 DEF N
  <2>5. \A x \in Threads, w \in WaitLists : Served(x, w, W)' <=> Served(x, w, W)
    BY <1>1, <2>2, <2>4 DEF Served
  <2>. QED BY <1>2, <2>4, <2>5
<1>4. ASSUME NEW t \in Threads, TickExpire(t)
      PROVE  /\ KernelInv(S, L, W)'
             /\ \A w \in WaitLists : ToSet(k'.wait[w]) = ToSet(k.wait[w]) \ {t}
             /\ \A x \in Threads, w \in WaitLists : Served(x, w, W)' <=> Served(x, w, W)
  <2>1. k.stat[t] = "suspend" /\ k' = rt_thread_timeout(k, t)
    BY <1>1, <1>4 DEF TickExpire, TimersOK
  <2>2. Wakes(k, k', t) /\ k'.err[t] = "ETIMEOUT"
    BY <1>1, <2>1, WakesTimeout
  <2>3. Frees(k, k', {t}, t)
    BY <1>1, <2>2, WakesFrees
  <2>4. /\ KernelInv(S, L, W)'
        /\ \A w \in WaitLists : ToSet(k'.wait[w]) = ToSet(k.wait[w]) \ {t}
        /\ \A x \in Threads, w \in WaitLists :
                 x \notin {t} /\ x # t => (Served(x, w, W)' <=> Served(x, w, W))
    <3>. DEFINE N == {t}
    <3>1. N \in SUBSET Threads /\ Frees(k, k', N, t) /\ t \in N
      BY <2>3
    <3>2. /\ \A x \in Threads : x # t => pc'[x] = pc[x] /\ arg'[x] = arg[x]
          /\ \A w \in WaitLists :
                <<pc'[t], arg'[t]>> \in W[w] <=> <<pc[t], arg[t]>> \in W[w]
      BY <1>1
    <3>. HIDE DEF N
    <3>3. /\ KernelInv(S, L, W)'
          /\ \A w \in WaitLists : ToSet(k'.wait[w]) = ToSet(k.wait[w]) \ N
          /\ \A x \in Threads, w \in WaitLists :
                 x \notin N /\ x # t => (Served(x, w, W)' <=> Served(x, w, W))
      BY <1>1, <3>1, <3>2, FreesInv
    <3>. QED BY <3>3 DEF N
  <2>5. ASSUME NEW w \in WaitLists
        PROVE  ~Served(t, w, W)' /\ ~Served(t, w, W)
    <3>1. ~Served(t, w, W)'
      BY <2>2 DEF Served
    <3>2. ~Served(t, w, W)
      BY <2>1 DEF Served, KernelInv, Ready
    <3>. QED BY <3>1, <3>2
  <2>. QED BY <2>4, <2>5
<1>. QED BY <1>2, <1>3, <1>4 DEF Tick

\* The current thread takes a step that at most takes other threads off lists,
\* and waits on no list afterwards.
LEMMA CurStepInv ==
    ASSUME NEW CONSTANT S, NEW CONSTANT L, NEW CONSTANT W, KernelInv(S, L, W),
           NEW c \in Threads, c = k.cur, k.stat[c] = "running",
           NEW T \in SUBSET Threads, Frees(k, k', T, c),
           \A x \in Threads : x # c => pc'[x] = pc[x] /\ arg'[x] = arg[x],
           \A w \in WaitLists : <<pc'[c], arg'[c]>> \notin W[w],
           pc'[c] \in L <=> pc[c] \in L
    PROVE  /\ KernelInv(S, L, W)'
           /\ \A w \in WaitLists : ToSet(k'.wait[w]) = ToSet(k.wait[w]) \ T
           /\ \A x \in Threads, w \in WaitLists :
                 x \notin T /\ x # c => (Served(x, w, W)' <=> Served(x, w, W))
           /\ \A w \in WaitLists : ~Served(c, w, W)'
<1>1. \A w \in WaitLists : c \notin ToSet(k.wait[w])
  BY DEF KernelInv, KernelOK, QueueOK, WaitOK
<1>2. k'.stat[k'.cur] = "running"
  BY DEF Frees
<1>3. \A w \in WaitLists : ~Served(c, w, W)'
  BY DEF Served
<1>4. \A w \in WaitLists :
         <<pc'[c], arg'[c]>> \in W[w] => <<pc[c], arg[c]>> \in W[w]
  OBVIOUS
<1>5. /\ KernelInv(S, L, W)'
      /\ \A w \in WaitLists : ToSet(k'.wait[w]) = ToSet(k.wait[w]) \ T
      /\ \A x \in Threads, w \in WaitLists :
            x \notin T /\ x # c => (Served(x, w, W)' <=> Served(x, w, W))
  BY <1>1, <1>2, <1>4, FreesInv
<1>. QED BY <1>3, <1>5

\* The call of rt_schedule inside a kernel call of thread c.
LEMMA ReschedInv ==
    ASSUME NEW CONSTANT S, NEW CONSTANT L, NEW CONSTANT W, KernelInv(S, L, W),
           NEW c \in Threads, k' = rt_schedule(k),
           \A x \in Threads : x # c => pc'[x] = pc[x],
           arg' = arg, pc'[c] \in L <=> pc[c] \in L,
           \A w \in WaitLists :
              <<pc'[c], arg[c]>> \in W[w] <=> <<pc[c], arg[c]>> \in W[w]
    PROVE  /\ KernelInv(S, L, W)'
           /\ \A w \in WaitLists : ToSet(k'.wait[w]) = ToSet(k.wait[w])
           /\ \A x \in Threads, w \in WaitLists : Served(x, w, W)' <=> Served(x, w, W)
<1>. DEFINE N == {}
<1>1. /\ KernelOK(k) /\ k.stat[Idle] \in {"ready", "running"}
      /\ k.lock = 0 \/ k.stat[k.cur] = "running"
  BY DEF KernelInv, Ready, KernelOK, QueueOK, KernelState
<1>2. Quiet(k, k', c) /\ k'.stat[k'.cur] = "running" /\ k'.err = k.err
  BY <1>1, QuietTrySchedule
<1>3. N \in SUBSET Threads /\ Frees(k, k', N, c)
  BY <1>2, QuietFrees
<1>. HIDE DEF N
<1>4. KernelInv(S, L, W)' /\ \A w \in WaitLists : ToSet(k'.wait[w]) = ToSet(k.wait[w]) \ N
  BY <1>2, <1>3, FreesInv
<1>5. \A w \in WaitLists : ToSet(k'.wait[w]) = ToSet(k.wait[w])
  BY <1>4 DEF N
<1>6. ASSUME NEW x \in Threads, NEW w \in WaitLists
      PROVE  Served(x, w, W)' <=> Served(x, w, W)
  BY <1>2, <1>5 DEF Served
<1>. QED BY <1>4, <1>5, <1>6

\* Thread u was the one on list w that got what was made available.
Hands(u, w, W) ==
    /\ u \in Threads /\ u \in ToSet(k.wait[w]) /\ k.stat[u] = "suspend"
    /\ \A v \in WaitLists : ToSet(k'.wait[v]) = ToSet(k.wait[v]) \ {u}
    /\ Served(u, w, W)'
    /\ \A v \in WaitLists : ~Served(u, v, W)
    /\ \A x \in Threads, v \in WaitLists :
          x # u /\ x # k.cur => (Served(x, v, W)' <=> Served(x, v, W))

\* A suspended thread has not been served.
LEMMA SuspendedUnserved ==
    ASSUME NEW CONSTANT S, NEW CONSTANT L, NEW CONSTANT W, KernelInv(S, L, W),
           NEW u \in Threads, k.stat[u] = "suspend", NEW v \in WaitLists
    PROVE  ~Served(u, v, W)
BY DEF Served, KernelInv, Ready

\* rt_ipc_list_resume by the current thread, which goes on.
LEMMA WakeInv ==
    ASSUME NEW CONSTANT S, NEW CONSTANT L, NEW CONSTANT W, KernelInv(S, L, W),
           NEW c \in Threads, c = k.cur, k.stat[c] = "running",
           NEW w \in WaitLists, k.wait[w] # <<>>, k' = rt_ipc_list_resume(k, w),
           \A x \in Threads : x # c => pc'[x] = pc[x] /\ arg'[x] = arg[x],
           \A v \in WaitLists : <<pc'[c], arg'[c]>> \notin W[v],
           pc'[c] \in L <=> pc[c] \in L
    PROVE  /\ KernelInv(S, L, W)'
           /\ \A v \in WaitLists : ~Served(c, v, W)'
           /\ \E u \in Threads : u # c /\ Hands(u, w, W)
<1>1. KernelOK(k)
  BY DEF KernelInv
<1>2. PICK u \in Threads :
         /\ u \in ToSet(k.wait[w]) /\ k.stat[u] = "suspend"
         /\ Wakes(k, k', u) /\ k'.err = k.err
  BY <1>1, WakesHead
<1>. DEFINE N == {u}
<1>3. N \in SUBSET Threads /\ Frees(k, k', N, c)
  BY <1>1, <1>2, WakesFrees
<1>. HIDE DEF N
<1>4. /\ KernelInv(S, L, W)'
      /\ \A v \in WaitLists : ToSet(k'.wait[v]) = ToSet(k.wait[v]) \ N
      /\ \A x \in Threads, v \in WaitLists :
            x \notin N /\ x # c => (Served(x, v, W)' <=> Served(x, v, W))
      /\ \A v \in WaitLists : ~Served(c, v, W)'
  BY <1>3, CurStepInv
<1>5. u # c /\ pc'[u] = pc[u] /\ arg'[u] = arg[u]
  BY <1>2
<1>6. Served(u, w, W)'
  <2>1. <<pc[u], arg[u]>> \in W[w] /\ k.err[u] = "EOK"
    BY <1>2 DEF KernelInv
  <2>2. u \notin ToSet(k'.wait[w])
    BY <1>4 DEF N
  <2>. QED BY <1>2, <1>5, <2>1, <2>2 DEF Served
<1>7. Hands(u, w, W)
  BY <1>2, <1>4, <1>6, SuspendedUnserved DEF N, Hands
<1>. QED BY <1>4, <1>5, <1>7

\* rt_ipc_list_resume and rt_schedule by an interrupt handler.
LEMMA IsrWakeInv ==
    ASSUME NEW CONSTANT S, NEW CONSTANT L, NEW CONSTANT W, KernelInv(S, L, W),
           NEW w \in WaitLists, k.wait[w] # <<>>,
           k' = rt_schedule(rt_ipc_list_resume(k, w)), UNCHANGED <<pc, arg>>
    PROVE  /\ KernelInv(S, L, W)'
           /\ \E u \in Threads : /\ Hands(u, w, W)
                                 /\ \A x \in Threads, v \in WaitLists :
                                       x # u => (Served(x, v, W)' <=> Served(x, v, W))
<1>. DEFINE m == rt_ipc_list_resume(k, w)
            c == k.cur
<1>1. /\ KernelOK(k) /\ k.stat[Idle] \in {"ready", "running"}
      /\ k.lock = 0 \/ k.stat[k.cur] = "running"
      /\ c \in Threads /\ Idle \in Threads /\ c = k.cur
  BY KernelAssumption DEF KernelInv, KernelOK, QueueOK, KernelState, Ready
<1>2. PICK u \in Threads :
         /\ u \in ToSet(k.wait[w]) /\ k.stat[u] = "suspend"
         /\ Wakes(k, m, u) /\ m.err = k.err
  BY <1>1, WakesHead
<1>3. k' = rt_schedule(m)
  OBVIOUS
<1>. HIDE DEF m, c
<1>4. /\ KernelOK(m) /\ m.stat[Idle] \in {"ready", "running"}
      /\ m.lock = 0 \/ m.stat[m.cur] = "running"
  BY <1>1, <1>2 DEF Wakes
<1>5. Quiet(m, k', c) /\ k'.err = m.err
  BY <1>3, <1>4, QuietTrySchedule
<1>. DEFINE N == {u}
            E == {}
<1>6. N \in SUBSET Threads /\ E \in SUBSET Threads /\ N \union E = N
  OBVIOUS
<1>7. Frees(k, m, N, c)
  BY <1>1, <1>2, WakesFrees
<1>8. Frees(m, k', E, c)
  BY <1>5, QuietFrees
<1>. HIDE DEF N, E
<1>9. Frees(k, k', N, c)
  BY <1>1, <1>6, <1>7, <1>8, FreesTwice
<1>10. pc' = pc /\ arg' = arg /\ k'.err = k.err
  BY <1>2, <1>5
<1>11. /\ KernelInv(S, L, W)'
       /\ \A v \in WaitLists : ToSet(k'.wait[v]) = ToSet(k.wait[v]) \ N
  BY <1>1, <1>6, <1>9, <1>10, FreesInv
<1>12. \A x \in Threads, v \in WaitLists :
          x # u => (Served(x, v, W)' <=> Served(x, v, W))
  BY <1>10, <1>11 DEF Served, N
<1>13. Served(u, w, W)'
  <2>1. <<pc[u], arg[u]>> \in W[w] /\ k.err[u] = "EOK"
    BY <1>2 DEF KernelInv
  <2>2. u \notin ToSet(k'.wait[w])
    BY <1>11 DEF N
  <2>. QED BY <1>10, <2>1, <2>2 DEF Served
<1>14. Hands(u, w, W)
  BY <1>2, <1>11, <1>12, <1>13, SuspendedUnserved DEF N, Hands
<1>. QED BY <1>11, <1>12, <1>14

\* The current thread wakes the threads T of list w, and goes on.
LEMMA GrantInv ==
    ASSUME NEW CONSTANT S, NEW CONSTANT L, NEW CONSTANT W, KernelInv(S, L, W),
           NEW c \in Threads, c = k.cur, k.stat[c] = "running",
           NEW w \in WaitLists, NEW T \in SUBSET ToSet(k.wait[w]), Serves(k, k', T),
           \A x \in Threads : x # c => pc'[x] = pc[x] /\ arg'[x] = arg[x],
           \A v \in WaitLists : <<pc'[c], arg'[c]>> \notin W[v],
           pc'[c] \in L <=> pc[c] \in L
    PROVE  /\ KernelInv(S, L, W)'
           /\ \A v \in WaitLists : ToSet(k'.wait[v]) = ToSet(k.wait[v]) \ T
           /\ \A x \in T : Served(x, w, W)'
           /\ \A x \in Threads, v \in WaitLists :
                 x \notin T /\ x # c => (Served(x, v, W)' <=> Served(x, v, W))
           /\ \A v \in WaitLists : ~Served(c, v, W)'
<1>1. KernelOK(k) /\ T \in SUBSET Threads
  BY WaitersAreThreads DEF KernelInv
<1>2. Frees(k, k', T, c)
  BY <1>1, ServesFrees
<1>3. /\ KernelInv(S, L, W)'
      /\ \A v \in WaitLists : ToSet(k'.wait[v]) = ToSet(k.wait[v]) \ T
      /\ \A x \in Threads, v \in WaitLists :
            x \notin T /\ x # c => (Served(x, v, W)' <=> Served(x, v, W))
      /\ \A v \in WaitLists : ~Served(c, v, W)'
  BY <1>1, <1>2, CurStepInv
<1>4. ASSUME NEW x \in T
      PROVE  Served(x, w, W)'
  <2>1. <<pc[x], arg[x]>> \in W[w] /\ k.err[x] = "EOK"
    BY DEF KernelInv
  <2>2. k.stat[x] = "suspend" /\ x \in Threads
    BY <1>1 DEF KernelOK, QueueOK, WaitOK
  <2>3. x # c /\ k'.err = k.err
    BY <2>2 DEF Serves
  <2>4. x \notin ToSet(k'.wait[w])
    BY <1>3
  <2>. QED BY <2>1, <2>2, <2>3, <2>4 DEF Served
<1>. QED BY <1>3, <1>4

\* An interrupt handler wakes the threads T of list w and calls rt_schedule.
LEMMA IsrGrantInv ==
    ASSUME NEW CONSTANT S, NEW CONSTANT L, NEW CONSTANT W, KernelInv(S, L, W),
           NEW w \in WaitLists, NEW T \in SUBSET ToSet(k.wait[w]), NEW m, Serves(k, m, T),
           k' = rt_schedule(m), UNCHANGED <<pc, arg>>
    PROVE  /\ KernelInv(S, L, W)'
           /\ \A v \in WaitLists : ToSet(k'.wait[v]) = ToSet(k.wait[v]) \ T
           /\ \A x \in T : Served(x, w, W)'
           /\ \A x \in Threads, v \in WaitLists :
                 x \notin T => (Served(x, v, W)' <=> Served(x, v, W))
<1>. DEFINE c == k.cur
            E == {}
<1>1. /\ KernelOK(k) /\ k.stat[Idle] \in {"ready", "running"}
      /\ k.lock = 0 \/ k.stat[k.cur] = "running"
      /\ c \in Threads /\ Idle \in Threads /\ c = k.cur /\ T \in SUBSET Threads
  BY KernelAssumption, WaitersAreThreads DEF KernelInv, KernelOK, QueueOK, KernelState, Ready
<1>. HIDE DEF c
<1>2. /\ KernelOK(m) /\ m.stat[Idle] \in {"ready", "running"}
      /\ m.lock = 0 \/ m.stat[m.cur] = "running"
  <2>1. c \in T => m.stat[c] = "running"
    BY <1>1 DEF Serves, KernelOK, QueueOK, KernelState, ReadyOK, CurOK
  <2>. QED BY <1>1, <2>1 DEF Serves
<1>3. Quiet(m, k', c) /\ k'.err = m.err
  BY <1>2, QuietTrySchedule
<1>4. Frees(k, m, T, c)
  BY <1>1, ServesFrees
<1>5. E \in SUBSET Threads /\ Frees(m, k', E, c) /\ T \union E = T
  BY <1>3, QuietFrees
<1>. HIDE DEF E
<1>6. Frees(k, k', T, c)
  BY <1>1, <1>4, <1>5, FreesTwice
<1>7. pc' = pc /\ arg' = arg /\ k'.err = k.err
  BY <1>3 DEF Serves
<1>8. /\ KernelInv(S, L, W)'
      /\ \A v \in WaitLists : ToSet(k'.wait[v]) = ToSet(k.wait[v]) \ T
  BY <1>1, <1>6, <1>7, FreesInv
<1>9. \A x \in Threads, v \in WaitLists :
         x \notin T => (Served(x, v, W)' <=> Served(x, v, W))
  BY <1>7, <1>8 DEF Served
<1>10. ASSUME NEW x \in T
       PROVE  Served(x, w, W)'
  <2>1. <<pc[x], arg[x]>> \in W[w] /\ k.err[x] = "EOK"
    BY DEF KernelInv
  <2>2. x \notin ToSet(k'.wait[w])
    BY <1>8
  <2>. QED BY <1>7, <2>1, <2>2 DEF Served
<1>. QED BY <1>8, <1>9, <1>10

\* Everyone who waits on w leaves it with an error; nobody is served.
Evicts(w, T, c, W) ==
    /\ T \subseteq ToSet(k.wait[w])
    /\ \A v \in WaitLists : ToSet(k'.wait[v]) = ToSet(k.wait[v]) \ T
    /\ \A x \in Threads, v \in WaitLists :
          x # c => (Served(x, v, W)' <=> Served(x, v, W))
    /\ \A v \in WaitLists : ~Served(c, v, W)'

LEMMA EvictInv ==
    ASSUME NEW CONSTANT S, NEW CONSTANT L, NEW CONSTANT W, KernelInv(S, L, W),
           NEW c \in Threads, c = k.cur, k.stat[c] = "running",
           NEW w \in WaitLists, NEW T \in SUBSET ToSet(k.wait[w]),
           Frees(k, k', T, c), \A x \in T : k'.err[x] # "EOK",
           \A x \in Threads : x # c => pc'[x] = pc[x] /\ arg'[x] = arg[x],
           \A v \in WaitLists : <<pc'[c], arg'[c]>> \notin W[v],
           pc'[c] \in L <=> pc[c] \in L
    PROVE  KernelInv(S, L, W)' /\ Evicts(w, T, c, W)
<1>1. KernelOK(k) /\ T \in SUBSET Threads
  BY WaitersAreThreads DEF KernelInv
<1>2. /\ KernelInv(S, L, W)'
      /\ \A v \in WaitLists : ToSet(k'.wait[v]) = ToSet(k.wait[v]) \ T
      /\ \A x \in Threads, v \in WaitLists :
            x \notin T /\ x # c => (Served(x, v, W)' <=> Served(x, v, W))
      /\ \A v \in WaitLists : ~Served(c, v, W)'
  BY <1>1, CurStepInv
<1>3. ASSUME NEW x \in T, NEW v \in WaitLists
      PROVE  ~Served(x, v, W)' /\ ~Served(x, v, W)
  <2>1. x \in Threads /\ k.stat[x] = "suspend"
    BY <1>1 DEF KernelOK, QueueOK, WaitOK
  <2>2. ~Served(x, v, W)
    BY <2>1, SuspendedUnserved
  <2>3. ~Served(x, v, W)'
    BY DEF Served
  <2>. QED BY <2>2, <2>3
<1>. QED BY <1>2, <1>3 DEF Evicts

\* One turn of rt_ipc_list_resume_all.
LEMMA WakeErrorInv ==
    ASSUME NEW CONSTANT S, NEW CONSTANT L, NEW CONSTANT W, KernelInv(S, L, W),
           NEW c \in Threads, c = k.cur, k.stat[c] = "running",
           NEW w \in WaitLists, k.wait[w] # <<>>, k' = ResumeWithError(k, w),
           \A x \in Threads : x # c => pc'[x] = pc[x] /\ arg'[x] = arg[x],
           \A v \in WaitLists : <<pc'[c], arg'[c]>> \notin W[v],
           pc'[c] \in L <=> pc[c] \in L
    PROVE  KernelInv(S, L, W)' /\ \E T \in SUBSET Threads : Evicts(w, T, c, W)
<1>1. KernelOK(k)
  BY DEF KernelInv
<1>2. PICK t \in ToSet(k.wait[w]) : t \in Threads /\ Wakes(k, k', t) /\ k'.err[t] = "ERROR"
  BY <1>1, WakesError
<1>. DEFINE N == {t}
<1>3. /\ N \in SUBSET ToSet(k.wait[w]) /\ N \in SUBSET Threads
      /\ \A x \in N : k'.err[x] # "EOK"
  BY <1>2
<1>4. Frees(k, k', N, c)
  BY <1>1, <1>2, WakesFrees
<1>. HIDE DEF N
<1>. QED BY <1>3, <1>4, EvictInv

\* The whole loop in one critical section.
LEMMA WakeAllInv ==
    ASSUME NEW CONSTANT S, NEW CONSTANT L, NEW CONSTANT W, KernelInv(S, L, W),
           NEW c \in Threads, c = k.cur, k.stat[c] = "running",
           NEW w \in WaitLists, k' = rt_ipc_list_resume_all(k, w),
           \A x \in Threads : x # c => pc'[x] = pc[x] /\ arg'[x] = arg[x],
           \A v \in WaitLists : <<pc'[c], arg'[c]>> \notin W[v],
           pc'[c] \in L <=> pc[c] \in L
    PROVE  /\ KernelInv(S, L, W)' /\ Evicts(w, ToSet(k.wait[w]), c, W)
           /\ ToSet(k'.wait[w]) = {}
<1>. DEFINE T == ToSet(k.wait[w])
<1>1. KernelOK(k) /\ T \in SUBSET Threads /\ T \in SUBSET ToSet(k.wait[w])
  BY WaitersAreThreads DEF KernelInv
<1>2. WakesAll(k, k', T)
  BY <1>1, ResumeAllOK
<1>3. Frees(k, k', T, c)
  BY <1>1, <1>2, WakesAllFrees
<1>4. \A x \in T : k'.err[x] # "EOK"
  BY <1>2 DEF WakesAll
<1>5. KernelInv(S, L, W)' /\ Evicts(w, T, c, W)
  <2>. HIDE DEF T
  <2>. QED BY <1>1, <1>3, <1>4, EvictInv
<1>. QED BY <1>5 DEF Evicts

\* The current thread waits on list w.
LEMMA WaitInv ==
    ASSUME NEW CONSTANT S, NEW CONSTANT L, NEW CONSTANT W, KernelInv(S, L, W),
           NEW t \in Threads \ {Idle}, t = k.cur, k.stat[t] = "running",
           NEW w \in WaitLists, NEW flag, NEW time,
           k' = StartTimer(rt_ipc_list_suspend(ResetError(t), w, t, flag), t, time),
           \A x \in Threads : x # t => pc'[x] = pc[x] /\ arg'[x] = arg[x],
           pc[t] \notin L, pc'[t] \in S, pc'[t] \notin L,
           \A v \in WaitLists : <<pc'[t], arg'[t]>> \in W[v] <=> v = w
    PROVE  /\ KernelInv(S, L, W)'
           /\ \A v \in WaitLists :
                 ToSet(k'.wait[v]) = ToSet(k.wait[v]) \union (IF v = w THEN {t} ELSE {})
           /\ \A x \in Threads, v \in WaitLists :
                 x # t => (Served(x, v, W)' <=> Served(x, v, W))
           /\ \A v \in WaitLists : ~Served(t, v, W)'
<1>. DEFINE e == [k EXCEPT !.err[t] = "EOK"]
<1>1. KernelOK(k) /\ "EOK" \in Errno /\ t \in Threads
  BY DEF KernelInv, Errno
<1>2. /\ Quiet(k, e, t) /\ e.err[t] = "EOK" /\ e.stat = k.stat /\ e.cur = k.cur
      /\ e.wait = k.wait
  BY ONLY <1>1, QuietError, ZenonT(60)
<1>3. k' = StartTimer(rt_ipc_list_suspend(e, w, t, flag), t, time)
  BY DEF ResetError
<1>. HIDE DEF e
<1>4. KernelOK(e) /\ e.stat[t] \in {"ready", "running"}
  BY <1>2 DEF Quiet
<1>5. Joins(e, k', w, t)
  BY <1>3, <1>4, TakeBlocks
<1>6. Suspends(k, k', t) /\ k'.err[t] = "EOK"
  BY <1>2, <1>5 DEF Joins, Suspends, Quiet
<1>7. ASSUME NEW v \in WaitLists
      PROVE  ToSet(k'.wait[v]) = ToSet(k.wait[v]) \union (IF v = w THEN {t} ELSE {})
  BY <1>2, <1>5 DEF Joins
<1>8. \A v \in WaitLists :
         ToSet(k'.wait[v]) = ToSet(k.wait[v]) \union
            (IF <<pc'[t], arg'[t]>> \in W[v] THEN {t} ELSE {})
  BY <1>7
<1>. QED BY <1>6, <1>7, <1>8, BlocksInv

\* The current thread suspends itself without waiting on a list.
LEMMA SleepInv ==
    ASSUME NEW CONSTANT S, NEW CONSTANT L, NEW CONSTANT W, KernelInv(S, L, W),
           NEW t \in Threads \ {Idle}, t = k.cur, k.stat[t] = "running", NEW time,
           k' = StartTimer(rt_thread_suspend(k, t), t, time),
           \A x \in Threads : x # t => pc'[x] = pc[x] /\ arg'[x] = arg[x],
           pc[t] \notin L, pc'[t] \in S, pc'[t] \notin L,
           \A v \in WaitLists : <<pc'[t], arg'[t]>> \notin W[v]
    PROVE  /\ KernelInv(S, L, W)'
           /\ \A v \in WaitLists : ToSet(k'.wait[v]) = ToSet(k.wait[v])
           /\ \A x \in Threads, v \in WaitLists :
                 x # t => (Served(x, v, W)' <=> Served(x, v, W))
           /\ \A v \in WaitLists : ~Served(t, v, W)'
<1>1. KernelOK(k) /\ k.stat[t] \in {"ready", "running"}
  BY DEF KernelInv
<1>2. Suspends(k, k', t) /\ \A v \in WaitLists : ToSet(k'.wait[v]) = ToSet(k.wait[v])
  BY <1>1, SleepBlocks
<1>3. \A v \in WaitLists :
         ToSet(k'.wait[v]) = ToSet(k.wait[v]) \union
            (IF <<pc'[t], arg'[t]>> \in W[v] THEN {t} ELSE {})
  BY <1>2
<1>. QED BY <1>2, <1>3, BlocksInv

\* A current thread at a place where it cannot be suspended is running.
LEMMA CurRuns ==
    ASSUME NEW CONSTANT S, NEW CONSTANT L, NEW CONSTANT W, KernelInv(S, L, W), pc[k.cur] \notin S
    PROVE  /\ k.cur \in Threads /\ k.stat[k.cur] = "running"
           /\ \A w \in WaitLists : k.cur \notin ToSet(k.wait[w])
<1>1. k.cur \in Threads /\ k.stat[k.cur] = "running"
  BY DEF KernelInv, KernelOK, QueueOK, KernelState
<1>. QED BY <1>1 DEF KernelInv, KernelOK, QueueOK, WaitOK

=============================================================================
