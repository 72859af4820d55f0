---------------------------- MODULE ServicesProofs ----------------------------
(***************************************************************************)
(* Completion, event and memory pool: what their steps do, and what        *)
(* follows for their own state.  Then the theorems about all services on   *)
(* one kernel: a step of one of them leaves the invariants of the others   *)
(* alone, and keeps the kernel consistent; and mailbox, message queue and  *)
(* data queue together implement the channels of Channel.                  *)
(***************************************************************************)
EXTENDS ChannelProofs

-----------------------------------------------------------------------------
(* Completion.                                                             *)

\* What a step may do with completion c.
CpDid(c) ==
    \/ completed' = [completed EXCEPT ![c] = TRUE] /\ Offered({}, c)
    \/ completed' = [completed EXCEPT ![c] = FALSE] /\ Quits(CpWaiter, c)
    \/ ~completed[c] /\ completed' = completed /\ Enters(CpWaiter, c)
    \/ completed' = completed /\ Kept({})

LEMMA CpFits ==
    ASSUME NEW t \in Threads, t # Idle, NEW c \in Completions, NEW p \in CpPlaces,
           p = "cp_done" \/ t = CpWaiter
    PROVE  Fits(t, p, c) /\ p \notin SvcLocked
BY CompletionAssumption
   DEF Fits, Places, MailPlaces, MqPlaces, EvPlaces, MpPlaces, CpPlaces, DqPlaces,
       SvcLocked

LEMMA CpCallDid ==
    ASSUME SvcInv, NEW t, CpCall(t)
    PROVE  \E c \in Completions : CpDid(c)
<1>1. PICK c \in Completions :
         (\E time \in CpTimes : rt_completion_wait(t, c, time)) \/ rt_completion_done(t, c)
  BY DEF CpCall
<1>2. Calls(t, c) /\ c \in WaitLists
  BY <1>1, CompletionAssumption DEF rt_completion_wait, rt_completion_done
<1>3. /\ Calling(t) /\ t \in Threads /\ t # Idle
      /\ \A v \in WaitLists : t \notin Takers(v)
  BY <1>2, CallsCalling
<1>4. CASE rt_completion_done(t, c)
  <2>1. k' = k /\ completed' = completed /\ Goes(t, "cp_done", c)
    BY <1>4, ProceedGoes DEF rt_completion_done
  <2>2. Fits(t, "cp_done", c) /\ "cp_done" \notin SvcLocked /\ "cp_done" \notin WaitPlaces
    BY <1>3, CpFits DEF CpPlaces, WaitPlaces
  <2>3. k.cur = t /\ pc[t] \notin SvcSched /\ pc[t] \notin SvcLocked
    BY <1>3 DEF Calling
  <2>4. Kept({})
    BY <1>3, <2>1, <2>2, <2>3, StepOK, KeptNone
  <2>. QED BY <2>1, <2>4 DEF CpDid
<1>5. ASSUME NEW time, rt_completion_wait(t, c, time)
      PROVE  CpDid(c)
  <2>1. t = CpWaiter /\ UNCHANGED <<isr, alive>> /\ Only({t}, c)
    BY <1>3, <1>5, OnlyUnserved DEF rt_completion_wait
  <2>2. CASE CpTake(c)
    <3>1. Kept({})
      BY <2>1, <2>2, StillOK DEF CpTake
    <3>2. Kept({t})
      BY <1>3, <3>1 DEF Kept
    <3>. QED BY <2>1, <2>2, <3>2 DEF CpTake, CpDid, Quits
  <2>3. CASE CpFail(c, time)
    <3>1. Kept({})
      BY <2>1, <2>3, StillOK DEF CpFail
    <3>. QED BY <2>3, <3>1 DEF CpFail, CpDid
  <2>4. CASE CpBlock(t, c, time)
    <3>1. Fits(t, "cp_sched", c) /\ Waits("cp_sched", c, c) /\ "cp_sched" \in SvcSched
      BY <1>3, <2>1, CpFits DEF CpPlaces, Waits, SvcSched
    <3>2. Joined(t, c)
      BY <1>2, <1>3, <2>1, <2>4, <3>1, BlockOK DEF CpBlock
    <3>. QED BY <2>1, <2>4, <3>2 DEF CpBlock, CpDid, Enters
  <2>. QED BY <1>5, <2>2, <2>3, <2>4 DEF rt_completion_wait
<1>. QED BY <1>1, <1>4, <1>5

LEMMA CpStepDid ==
    ASSUME SvcInv, NEW t, CpStep(t)
    PROVE  \E c \in Completions : CpDid(c)
<1>. DEFINE c == arg[t]
<1>1. ASSUME NEW p \in CpPlaces, At(t, p)
      PROVE  /\ t \in Threads /\ t # Idle /\ pc[t] = p /\ k.cur = t
             /\ c \in Completions /\ c \in WaitLists /\ (p # "cp_done" => t = CpWaiter)
  <2>1. t \in Threads /\ pc[t] = p /\ k.cur = t /\ Fits(t, p, arg[t])
    BY <1>1, AtFits
  <2>. QED BY <1>1, <2>1, CompletionAssumption DEF Fits, CpPlaces
<1>2. {"cp_sched", "cp_woken", "cp_done"} \subseteq CpPlaces
  BY DEF CpPlaces
<1>3. ASSUME NEW p \in {"cp_woken", "cp_done"}, At(t, p)
      PROVE  Calling(t)
  <2>1. p # "run" /\ p \notin SvcSched /\ p \notin SvcLocked
    BY DEF SvcSched, SvcLocked
  <2>. QED BY <1>3, <2>1, AtCalling
<1>4. CASE CpReturn(t)
  <2>1. At(t, "cp_woken") /\ UNCHANGED <<k, isr, alive>> /\ Return(t)
        /\ completed' = [completed EXCEPT ![c] = FALSE]
    BY <1>4 DEF CpReturn
  <2>2. t = CpWaiter /\ t \in Threads /\ c \in Completions /\ c \in WaitLists /\ pc[t] = "cp_woken"
    BY <1>1, <1>2, <2>1
  <2>3. Kept({t})
    BY <1>3, <2>1, LeaveOK
  <2>4. Only({t}, c)
    BY <2>2, OnlyOwn DEF Waits
  <2>. QED BY <2>1, <2>2, <2>3, <2>4 DEF CpDid, Quits
<1>5. CASE DoneSet(t)
  <2>1. At(t, "cp_done") /\ UNCHANGED <<isr, alive>> /\ completed' = [completed EXCEPT ![c] = TRUE]
    BY <1>5 DEF DoneSet, Complete
  <2>2. /\ t \in Threads /\ t # Idle /\ c \in Completions /\ c \in WaitLists
        /\ pc[t] = "cp_done" /\ k.cur = t /\ Calling(t)
    BY <1>1, <1>2, <1>3, <2>1
  <2>3. \A v \in WaitLists : t \notin Takers(v)
    BY <2>2, NotTaker DEF WaitPlaces
  <2>4. Offered({t}, c)
    <3>1. CASE k.wait[c] # <<>>
      <4>1. k' = rt_ipc_list_resume(k, c) /\ Goes(t, "ret_sched", None)
        BY <1>5, <3>1, ProceedGoes DEF DoneSet
      <4>2. None \in Objects \union {None}
        OBVIOUS
      <4>3. Fits(t, "ret_sched", None) /\ "ret_sched" \notin WaitPlaces
            /\ "ret_sched" \notin SvcLocked
        BY <2>2, <4>2, CommonFits
      <4>4. pc[t] \notin SvcSched /\ pc[t] \notin SvcLocked
        BY <2>2 DEF Calling
      <4>. QED BY <2>2, <3>1, <4>1, <4>3, <4>4, WakeOK DEF Offered
    <3>2. CASE k.wait[c] = <<>>
      <4>1. k' = k /\ Return(t)
        BY <1>5, <3>2 DEF DoneSet
      <4>2. Kept({t})
        BY <2>1, <2>2, <4>1, LeaveOK
      <4>3. Waiters(c) = {}
        BY <3>2 DEF Waiters, ToSet
      <4>. QED BY <4>2, <4>3 DEF Offered
    <3>. QED BY <3>1, <3>2
  <2>5. Offered({}, c)
    BY <2>3, <2>4, OfferedNone
  <2>. QED BY <2>1, <2>2, <2>5 DEF CpDid
<1>6. CASE Resched(t, "cp_sched", "cp_woken") /\ completed' = completed
  <2>1. /\ t \in Threads /\ t # Idle /\ c \in Completions /\ t = CpWaiter
    BY <1>1, <1>2, <1>6 DEF Resched
  <2>2. Fits(t, "cp_woken", arg[t]) /\ "cp_woken" \notin SvcLocked /\ "cp_sched" \notin SvcLocked
    BY <1>2, <2>1, CpFits
  <2>3. \A v : Waits("cp_woken", arg[t], v) <=> Waits("cp_sched", arg[t], v)
    BY DEF Waits
  <2>4. Kept({})
    BY <1>6, <2>2, <2>3, ReschedStepOK
  <2>. QED BY <1>6, <2>1, <2>4 DEF CpDid
<1>. QED BY <1>4, <1>5, <1>6 DEF CpStep

LEMMA CpNextDid ==
    ASSUME SvcInv, CpNext
    PROVE  \E c \in Completions : CpDid(c)
<1>1. CASE CpIsr
  <2>1. PICK c \in Completions : IsrDone(c)
    BY <1>1 DEF CpIsr
  <2>2. Offered({}, c)
    BY <2>1, CompletionAssumption, IsrWakeAnyOK DEF IsrDone
  <2>. QED BY <2>1, <2>2 DEF IsrDone, Complete, CpDid
<1>. QED BY <1>1, CpCallDid, CpStepDid DEF CpNext

LEMMA CpActs ==
    ASSUME NEW c, CpDid(c), NEW A, c \in A
    PROVE  Acts(A)
BY OnlyNobody, KeptDrops DEF CpDid, Acts, Passes

\* The flag is down while the waiter waits, and up when it was woken.
CpRight(c, done) == (Waiters(c) # {} => ~done) /\ (Takers(c) # {} => done)

CpInv ==
    /\ completed \in [Completions -> BOOLEAN]
    /\ \A c \in Completions : CpRight(c, completed[c])

LEMMA OneWaiter ==
    ASSUME SvcInv, NEW c \in Completions
    PROVE  Waiters(c) \subseteq {CpWaiter} /\ Takers(c) \subseteq {CpWaiter}
<1>1. c \in WaitLists
  BY CompletionAssumption
<1>2. ASSUME NEW t \in Threads, Waits(pc[t], arg[t], c)
      PROVE  t = CpWaiter
  <2>1. Waits(pc[t], arg[t], c) <=> pc[t] \in {"cp_sched", "cp_woken"} /\ arg[t] = c
    BY WhoWaits
  <2>. QED BY <1>2, <2>1 DEF SvcInv, Fits
<1>. QED BY <1>1, <1>2, WaiterWaits, TakerWaits

LEMMA CpInvSays ==
    ASSUME SvcInv, CpInv
    PROVE  CompletionSeen
<1>. SUFFICES ASSUME NEW c \in Completions
              PROVE  /\ k.wait[c] # <<>> => ~completed[c]
                     /\ Looking(c, {"cp_sched", "cp_woken"}) # {} => completed[c]
  BY DEF CompletionSeen
<1>1. c \in WaitLists /\ CpRight(c, completed[c])
  BY CompletionAssumption DEF CpInv
<1>2. \A q, x : Waits(q, x, c) <=> q \in {"cp_sched", "cp_woken"} /\ x = c
  BY WhoWaits
<1>3. Looking(c, {"cp_sched", "cp_woken"}) = Takers(c)
  BY <1>1, <1>2, LookingIsTakers
<1>4. k.wait[c] = <<>> <=> Waiters(c) = {}
  BY <1>1, NobodyWaits
<1>. QED BY <1>1, <1>3, <1>4 DEF CpRight

LEMMA CpKeep ==
    ASSUME SvcInv, CpInv, NEW c \in Completions, CpDid(c)
    PROVE  CpInv'
<1>1. c \in WaitLists /\ Waiters(c) \subseteq {CpWaiter} /\ Takers(c) \subseteq {CpWaiter}
  BY OneWaiter, CompletionAssumption
<1>2. Foot({c})
  <2>1. c \in {c}
    OBVIOUS
  <2>. QED BY <2>1, CpActs, FootOK
<1>3. completed \in [Completions -> BOOLEAN]
  BY DEF CpInv
<1>4. /\ completed' \in [Completions -> BOOLEAN]
      /\ \A x \in Completions : x # c => completed'[x] = completed[x]
  BY <1>3 DEF CpDid
<1>5. CpRight(c, completed[c])
  BY DEF CpInv
<1>6. CpRight(c, completed[c])'
  <2>1. CASE completed' = [completed EXCEPT ![c] = TRUE] /\ Offered({}, c)
    <3>1. Waiters(c)' = {}
      BY <1>1, <2>1 DEF Offered, Kept, Woke
    <3>. QED BY <1>3, <2>1, <3>1 DEF CpRight
  <2>2. CASE completed' = [completed EXCEPT ![c] = FALSE] /\ Quits(CpWaiter, c)
    <3>1. Takers(c)' = {}
      BY <1>1, <2>2 DEF Quits, Kept
    <3>. QED BY <1>3, <2>2, <3>1 DEF CpRight
  <2>3. CASE ~completed[c] /\ completed' = completed /\ Enters(CpWaiter, c)
    <3>1. Takers(c)' = {}
      BY <1>1, <2>3 DEF Enters, Joined
    <3>. QED BY <2>3, <3>1 DEF CpRight
  <2>4. CASE completed' = completed /\ Kept({})
    <3>1. Waiters(c)' = Waiters(c) /\ Takers(c)' = Takers(c)
      BY <1>1, <2>4 DEF Kept
    <3>. QED BY <1>5, <2>4, <3>1 DEF CpRight
  <2>. QED BY <2>1, <2>2, <2>3, <2>4 DEF CpDid
<1>7. ASSUME NEW x \in Completions, x # c
      PROVE  CpRight(x, completed[x])'
  <2>1. x \in WaitLists \ {c}
    BY <1>7, CompletionAssumption
  <2>2. Waiters(x)' \subseteq Waiters(x) /\ Takers(x)' = Takers(x)
    BY <1>2, <2>1 DEF Foot
  <2>3. CpRight(x, completed[x]) /\ completed'[x] = completed[x]
    BY <1>4, <1>7 DEF CpInv
  <2>. QED BY <2>2, <2>3 DEF CpRight
<1>. QED BY <1>4, <1>6, <1>7 DEF CpInv

\* Steps of other services, and the tick.
LEMMA CpFrame ==
    ASSUME CpInv, NEW A, Foot(A), A \intersect Completions = {}, completed' = completed
    PROVE  CpInv'
<1>1. ASSUME NEW x \in Completions
      PROVE  CpRight(x, completed[x])'
  <2>1. x \in WaitLists \ A
    BY CompletionAssumption
  <2>2. Waiters(x)' \subseteq Waiters(x) /\ Takers(x)' = Takers(x)
    BY <2>1 DEF Foot
  <2>. QED BY <2>2 DEF CpInv, CpRight
<1>. QED BY <1>1 DEF CpInv

-----------------------------------------------------------------------------
(* Event: the walk of rt_event_send.                                       *)

EvShape == set \in [Events -> SUBSET Bits] /\ info \in [Threads -> Ask]

WalkSpace ==
    [ks : {s \in KernelState : KernelOK(s)}, set : SUBSET Bits, info : [Threads -> Ask]]

\* The threads of T that cleared bit b for themselves.
Cleared(f, T, b) == {x \in T : f[x].clear /\ b \in f[x].set}

\* The walk that began at `from' has come to r: of the threads seen it has
\* resumed T, none of the others is satisfied by what is left, and each bit
\* that has gone was cleared for one of T.
Visited(from, r, T, seen) ==
    /\ r \in WalkSpace
    /\ T \subseteq seen
    /\ Serves(from.ks, r.ks, T)
    /\ r.set \subseteq from.set
    /\ \A x \in Threads \ T : r.info[x] = from.info[x]
    /\ \A x \in seen \ T : ~Satisfied(r.info[x], r.set)
    /\ \A b \in Bits : IF b \in from.set \ r.set
                       THEN \E x \in T : Cleared(r.info, T, b) = {x}
                       ELSE Cleared(r.info, T, b) = {}

LEMMA SatisfiedByMore ==
    ASSUME NEW ask, NEW A, NEW B, A \subseteq B, Satisfied(ask, A)
    PROVE  Satisfied(ask, B)
BY DEF Satisfied

LEMMA VisitSpace ==
    ASSUME NEW r \in WalkSpace, NEW t \in Threads
    PROVE  Visit(r, t) \in WalkSpace
<1>. DEFINE got == IF r.info[t].op = "AND" THEN r.info[t].set ELSE r.info[t].set \intersect r.set
            new == [r.info EXCEPT ![t].set = got]
            s == IF r.info[t].clear THEN r.set \ got ELSE r.set
<1>1. /\ r.info \in [Threads -> Ask] /\ r.set \in SUBSET Bits
      /\ KernelOK(r.ks) /\ r.ks \in KernelState
  BY DEF WalkSpace
<1>2. CASE Satisfied(r.info[t], r.set)
  <2>1. Visit(r, t) = [ks |-> rt_thread_resume(r.ks, t), set |-> s, info |-> new]
    BY <1>2 DEF Visit
  <2>2. KernelOK(rt_thread_resume(r.ks, t))
    BY <1>1, ResumeKeeps
  <2>3. rt_thread_resume(r.ks, t) \in KernelState
    BY <2>2 DEF KernelOK, QueueOK
  <2>4. got \in SUBSET Bits /\ s \in SUBSET Bits
    BY <1>1 DEF Ask
  <2>5. new \in [Threads -> Ask]
    <3>. HIDE DEF got
    <3>. QED BY <1>1, <2>4 DEF Ask
  <2>. HIDE DEF new, s
  <2>. QED BY <2>1, <2>2, <2>3, <2>4, <2>5 DEF WalkSpace
<1>3. CASE ~Satisfied(r.info[t], r.set)
  BY <1>3 DEF Visit
<1>. QED BY <1>2, <1>3

LEMMA VisitOK ==
    ASSUME NEW from, KernelOK(from.ks), NEW r, NEW seen \in SUBSET Threads, NEW T,
           Visited(from, r, T, seen), NEW t \in Threads, t \notin seen,
           from.ks.stat[t] = "suspend"
    PROVE  \E U : Visited(from, Visit(r, t), U, seen \union {t})
<1>. DEFINE got == IF r.info[t].op = "AND" THEN r.info[t].set ELSE r.info[t].set \intersect r.set
            s == IF r.info[t].clear THEN r.set \ got ELSE r.set
            U == T \union {t}
<1>1. r \in WalkSpace /\ T \subseteq seen /\ Serves(from.ks, r.ks, T) /\ r.set \subseteq from.set
  BY DEF Visited
<1>2. r.info \in [Threads -> Ask] /\ r.set \in SUBSET Bits
  BY <1>1 DEF WalkSpace
<1>3. Visit(r, t) \in WalkSpace
  BY <1>1, VisitSpace
<1>4. CASE Satisfied(r.info[t], r.set)
  <2>1. PICK new : new = [r.info EXCEPT ![t].set = got]
    OBVIOUS
  <2>2. Visit(r, t) = [ks |-> rt_thread_resume(r.ks, t), set |-> s, info |-> new]
    BY <1>4, <2>1 DEF Visit
  <2>3. got \subseteq r.set /\ got \subseteq r.info[t].set
    BY <1>4 DEF Satisfied
  <2>. HIDE DEF got
  <2>4. /\ \A x \in Threads : x # t => new[x] = r.info[x]
        /\ new[t].clear = r.info[t].clear /\ new[t].set = got /\ new[t].op = r.info[t].op
    BY <1>2, <2>1 DEF Ask
  <2>5. Serves(from.ks, rt_thread_resume(r.ks, t), U)
    BY <1>1, ServesOneMore
  <2>6. s \subseteq r.set
    OBVIOUS
  <2>7. \A x \in Threads \ U : new[x] = from.info[x]
    BY <2>4 DEF Visited
  <2>8. ASSUME NEW x \in (seen \union {t}) \ U
        PROVE  ~Satisfied(new[x], s)
    <3>1. x \in seen \ T /\ x # t /\ x \in Threads
      BY <2>8
    <3>2. ~Satisfied(r.info[x], r.set)
      BY <3>1 DEF Visited
    <3>. HIDE DEF s
    <3>. QED BY <2>4, <2>6, <3>1, <3>2, SatisfiedByMore
  <2>9. ASSUME NEW b \in Bits
        PROVE  IF b \in from.set \ s
               THEN \E x \in U : Cleared(new, U, b) = {x}
               ELSE Cleared(new, U, b) = {}
    <3>1. IF b \in from.set \ r.set
          THEN \E x \in T : Cleared(r.info, T, b) = {x}
          ELSE Cleared(r.info, T, b) = {}
      BY DEF Visited
    <3>2. Cleared(new, T, b) = Cleared(r.info, T, b)
      BY <1>1, <2>4 DEF Cleared
    <3>3. Cleared(new, U, b) =
             Cleared(new, T, b) \union (IF r.info[t].clear /\ b \in got THEN {t} ELSE {})
      BY <2>4 DEF Cleared
    <3>4. CASE r.info[t].clear /\ b \in got
      <4>1. b \in r.set /\ b \in from.set /\ b \notin s
        BY <1>1, <2>3, <3>4
      <4>2. Cleared(new, U, b) = {t}
        BY <3>1, <3>2, <3>3, <3>4, <4>1
      <4>. QED BY <4>1, <4>2
    <3>5. CASE ~(r.info[t].clear /\ b \in got)
      <4>1. b \in s <=> b \in r.set
        BY <3>5
      <4>2. Cleared(new, U, b) = Cleared(r.info, T, b)
        BY <3>2, <3>3, <3>5
      <4>. HIDE DEF s
      <4>. QED BY <3>1, <4>1, <4>2
    <3>. QED BY <3>4, <3>5
  <2>10. U \subseteq seen \union {t} /\ s \subseteq from.set
    BY <1>1, <2>6
  <2>11. PICK q : q = Visit(r, t)
    OBVIOUS
  <2>12. q.ks = rt_thread_resume(r.ks, t) /\ q.set = s /\ q.info = new /\ q \in WalkSpace
    BY <1>3, <2>2, <2>11
  <2>. HIDE DEF U, s
  <2>13. Visited(from, q, U, seen \union {t})
    BY <2>5, <2>7, <2>8, <2>9, <2>10, <2>12 DEF Visited
  <2>. QED BY <2>11, <2>13
<1>5. CASE ~Satisfied(r.info[t], r.set)
  <2>1. Visit(r, t) = r
    BY <1>5 DEF Visit
  <2>2. Visited(from, r, T, seen \union {t})
    BY <1>5 DEF Visited
  <2>. QED BY <2>1, <2>2
<1>. QED BY <1>4, <1>5

\* What a send begins with, and what it comes to.
WalkFrom(e, bits) == [ks |-> k, set |-> set[e] \union bits, info |-> info]

LEMMA WalkOK ==
    ASSUME SvcInv, EvShape, NEW e \in Events, NEW bits \in SUBSET Bits
    PROVE  \E T : Visited(WalkFrom(e, bits), Walk(e, bits), T, Waiters(e))
<1>. DEFINE L == k.wait[e]
            N == Len(L)
            S == WalkSpace
            a == WalkFrom(e, bits)
            g == [n \in 1 .. N |-> [s \in S |-> Visit(s, L[n])]]
            F(f) == [n \in 0 .. N |-> IF n = 0 THEN a ELSE Visit(f[n - 1], L[n])]
            turn == CHOOSE f : f = F(f)
            seen(n) == {L[i] : i \in 1 .. n}
<1>1. Walk(e, bits) = turn[N]
  BY Zenon DEF Walk, WalkFrom
<1>2. KernelOK(k) /\ e \in WaitLists
  BY EventAssumption DEF SvcInv, SvcKernel, KernelInv
<1>3. /\ k \in KernelState /\ L \in Seq(Threads) /\ N \in Nat /\ IsInjective(L)
      /\ \A x \in ToSet(L) : k.stat[x] = "suspend"
  BY <1>2 DEF KernelOK, QueueOK, WaitOK, KernelState
<1>4. a \in S /\ a.ks = k /\ a.set = set[e] \union bits /\ a.info = info
  BY <1>2, <1>3 DEF WalkFrom, WalkSpace, EvShape
<1>5. ASSUME NEW n \in 1 .. N
      PROVE  L[n] \in Threads /\ k.stat[L[n]] = "suspend"
  <2>1. L[n] \in Threads
    BY <1>3
  <2>2. L[n] \in ToSet(L)
    BY <1>3, ToSetDef
  <2>. QED BY <1>3, <2>1, <2>2
<1>6. g \in [1 .. N -> [S -> S]]
  BY <1>5, VisitSpace
<1>. HIDE DEF a
<1>7. PICK f \in [0 .. N -> S] : f[0] = a /\ \A n \in 1 .. N : f[n] = g[n][f[n - 1]]
  <2>. HIDE DEF g, S, N
  <2>1. Histories(S, a, g, N) # {}
    BY <1>3, <1>4, <1>6, Iterates
  <2>. QED BY <2>1 DEF Histories
<1>8. \A n \in 1 .. N : n - 1 \in 0 .. N /\ f[n] = Visit(f[n - 1], L[n])
  <2>1. ASSUME NEW n \in 1 .. N
        PROVE  n - 1 \in 0 .. N /\ f[n] = Visit(f[n - 1], L[n])
    <3>1. n - 1 \in 0 .. N
      BY <1>3
    <3>2. f[n - 1] \in S
      BY <1>7, <3>1
    <3>. QED BY <1>7, <3>1, <3>2
  <2>. QED BY <2>1
<1>9. f = F(f)
  <2>1. \A n \in 0 .. N : f[n] = IF n = 0 THEN a ELSE Visit(f[n - 1], L[n])
    BY <1>3, <1>7, <1>8
  <2>. QED BY <1>7, <2>1
<1>10. turn = F(turn)
  BY <1>9, Zenon
<1>. HIDE DEF turn
<1>11. turn[0] = a /\ \A n \in 1 .. N : turn[n] = Visit(turn[n - 1], L[n])
  <2>1. \A n \in 0 .. N : F(turn)[n] = IF n = 0 THEN a ELSE Visit(turn[n - 1], L[n])
    OBVIOUS
  <2>2. \A n \in 0 .. N : turn[n] = IF n = 0 THEN a ELSE Visit(turn[n - 1], L[n])
    BY <1>10, <2>1
  <2>. QED BY <1>3, <2>2
<1>. DEFINE P == {n \in 0 .. N : seen(n) \subseteq Threads
                                 /\ \E T : Visited(a, turn[n], T, seen(n))}
<1>12. 0 .. N \subseteq P
  <2>1. 0 \in P
    <3>1. seen(0) = {} /\ 0 \in 0 .. N
      BY <1>3
    <3>2. Serves(a.ks, a.ks, {})
      BY <1>2, <1>4, ServesNobody
    <3>3. Visited(a, a, {}, {})
      BY <1>4, <3>2 DEF Visited, Cleared
    <3>. HIDE DEF seen
    <3>4. Visited(a, turn[0], {}, seen(0)) /\ seen(0) \subseteq Threads
      BY <1>11, <3>1, <3>3
    <3>. QED BY <3>1, <3>4
  <2>2. ASSUME NEW n \in 0 .. N - 1, n \in P
        PROVE  n + 1 \in P
    <3>1. n + 1 \in 1 .. N /\ (n + 1) - 1 = n /\ n + 1 \in 0 .. N
      BY <1>3
    <3>2. turn[n + 1] = Visit(turn[n], L[n + 1])
      BY <1>11, <3>1
    <3>3. L[n + 1] \notin seen(n)
      <4>1. \A i \in 1 .. n : i \in 1 .. N /\ i # n + 1
        BY <1>3
      <4>2. \A i \in 1 .. n : L[i] # L[n + 1]
        BY <1>3, <3>1, <4>1 DEF IsInjective
      <4>. QED BY <4>2
    <3>4. seen(n + 1) = seen(n) \union {L[n + 1]}
      <4>1. 1 .. n + 1 = (1 .. n) \union {n + 1}
        OBVIOUS
      <4>. QED BY <4>1
    <3>. HIDE DEF seen
    <3>5. PICK T : Visited(a, turn[n], T, seen(n))
      BY <2>2
    <3>6. seen(n) \in SUBSET Threads
      BY <2>2
    <3>7. L[n + 1] \in Threads /\ a.ks.stat[L[n + 1]] = "suspend" /\ KernelOK(a.ks)
      BY <1>2, <1>4, <1>5, <3>1
    <3>8. \E U : Visited(a, Visit(turn[n], L[n + 1]), U, seen(n) \union {L[n + 1]})
      BY <3>3, <3>5, <3>6, <3>7, VisitOK
    <3>9. \E U : Visited(a, turn[n + 1], U, seen(n + 1))
      BY <3>2, <3>4, <3>8
    <3>10. seen(n + 1) \subseteq Threads
      BY <3>4, <3>6, <3>7
    <3>. QED BY <3>1, <3>9, <3>10
  <2>. HIDE DEF P
  <2>. QED BY <1>3, <2>1, <2>2, UpTo
<1>13. \E T : Visited(a, turn[N], T, seen(N))
  <2>1. N \in P
    <3>. HIDE DEF P, N
    <3>. QED BY <1>3, <1>12
  <2>. HIDE DEF seen
  <2>. QED BY <2>1
<1>14. seen(N) = Waiters(e)
  <2>1. \A x : x \in ToSet(L) <=> \E i \in 1 .. N : L[i] = x
    BY <1>3, ToSetDef
  <2>. QED BY <2>1 DEF Waiters
<1>. QED BY <1>1, <1>13, <1>14 DEF a

-----------------------------------------------------------------------------
(* Event: the operations.                                                  *)

\* A send has walked the list and resumed T.
EvSent(e, bits, T) ==
    /\ Raise(e, bits)
    /\ Visited(WalkFrom(e, bits), Walk(e, bits), T, Waiters(e))
    /\ Gave(e, T)

\* The caller found what it asked for.
EvTook(e, ask) ==
    /\ Satisfied(ask, set[e])
    /\ set' = IF ask.clear THEN [set EXCEPT ![e] = @ \ ask.set] ELSE set
    /\ Clears(e, ask, ask.set \intersect set[e])
    /\ info' = info
    /\ Kept({})

\* Thread t waits for what it asked for.
EvWaited(e, t, ask) ==
    /\ t \in Threads /\ \A v \in WaitLists : t \notin Waiters(v) /\ t \notin Takers(v)
    /\ ~Satisfied(ask, set[e])
    /\ info' = [info EXCEPT ![t] = ask]
    /\ UNCHANGED <<set, owed>>
    /\ Joined(t, e)

\* Thread t returns, with what it was given if it was.
EvEnded(e, t) ==
    /\ t \in Threads /\ \A v \in WaitLists : t \notin Waiters(v)
    /\ info' = [info EXCEPT ![t] = Nothing]
    /\ set' = set
    /\ IF t \in Takers(e) THEN Clears(e, info[t], info[t].set) ELSE owed' = owed
    /\ Quits(t, e)

EvEmptied(e) ==
    /\ set' = [set EXCEPT ![e] = {}]
    /\ owed' = [owed EXCEPT ![e] = [b \in Bits |-> Cardinality(Holding(e, b))]]
    /\ info' = info
    /\ Dropped({}, Waiters(e))

\* What a step may do with event e.
EvDid(e) ==
    \/ \E bits \in SUBSET Bits : \E T : EvSent(e, bits, T)
    \/ \E ask \in Ask : EvTook(e, ask)
    \/ \E t \in Threads, ask \in Ask : EvWaited(e, t, ask)
    \/ \E t : EvEnded(e, t)
    \/ EvEmptied(e)
    \/ UNCHANGED evVars /\ \E T : Dropped({}, T)

LEMMA EvFits ==
    ASSUME NEW t \in Threads, t # Idle, NEW e \in Events, NEW p \in EvPlaces
    PROVE  Fits(t, p, e) /\ p \notin SvcLocked
BY EventAssumption
   DEF Fits, Places, MailPlaces, MqPlaces, EvPlaces, MpPlaces, CpPlaces, DqPlaces,
       SvcLocked

\* A thread that executes waits nowhere.
LEMMA CurrentWaitsNot ==
    ASSUME SvcInv, NEW t, Calling(t), NEW v \in WaitLists
    PROVE  t \notin Waiters(v)
<1>1. k.stat[t] = "running"
  BY CurrentRuns DEF Calling
<1>. QED BY <1>1, WaiterWaits

LEMMA SendEventDid ==
    ASSUME SvcInv, EvShape, NEW t, NEW e \in Events, NEW bits \in SUBSET Bits,
           rt_event_send(t, e, bits)
    PROVE  EvDid(e)
<1>1. Calls(t, e) /\ e \in WaitLists
  BY EventAssumption DEF rt_event_send
<1>2. /\ Calling(t) /\ t \in Threads /\ t # Idle /\ pc[t] = "run"
      /\ arg[t] \in Objects \union {None} /\ \A v \in WaitLists : t \notin Takers(v)
  BY <1>1, CallsCalling
<1>3. k.cur = t /\ pc[t] \notin SvcSched /\ pc[t] \notin SvcLocked
  BY <1>2 DEF Calling
<1>4. PICK T : Visited(WalkFrom(e, bits), Walk(e, bits), T, Waiters(e))
  BY WalkOK
<1>5. T \in SUBSET Waiters(e) /\ Serves(k, k', T)
  BY <1>4 DEF Visited, WalkFrom, rt_event_send
<1>6. PICK p \in {"run", "ret_sched"} : Goes(t, p, arg[t])
  <2>1. CASE Go(t, "ret_sched")
    BY <1>2, <2>1, GoGoes DEF rt_event_send
  <2>2. CASE UNCHANGED pc
    <3>1. pc' = [pc EXCEPT ![t] = "run"] /\ arg' = [arg EXCEPT ![t] = arg[t]]
          /\ isr' = isr /\ alive' = alive
      BY <1>2, <2>2 DEF SvcInv, rt_event_send
    <3>2. Goes(t, "run", arg[t])
      BY <3>1 DEF Goes
    <3>. QED BY <3>2
  <2>. QED BY <2>1, <2>2 DEF rt_event_send
<1>7. Fits(t, p, arg[t]) /\ p \notin WaitPlaces /\ p \notin SvcLocked
  BY <1>2, CommonFits
<1>8. /\ SvcInv' /\ t \notin T
      /\ \A v \in WaitLists :
            /\ \A u \in T : u \notin Takers(v)
            /\ Waiters(v)' = Waiters(v) \ T
            /\ Takers(v)' = (Takers(v) \ {t}) \union (IF v = e THEN T ELSE {})
  BY <1>1, <1>3, <1>5, <1>6, <1>7, GrantOK
<1>9. Gave(e, T)
  BY <1>2, <1>5, <1>8 DEF Gave
<1>. QED BY <1>4, <1>9 DEF rt_event_send, EvSent, EvDid

LEMMA IsrSendEventDid ==
    ASSUME SvcInv, EvShape, NEW e \in Events, NEW bits \in SUBSET Bits, IsrSendEvent(e, bits)
    PROVE  EvDid(e)
<1>1. e \in WaitLists /\ UNCHANGED <<isr, pc, arg, alive>>
  BY EventAssumption DEF IsrSendEvent
<1>2. PICK T : Visited(WalkFrom(e, bits), Walk(e, bits), T, Waiters(e))
  BY WalkOK
<1>. DEFINE m == Walk(e, bits).ks
<1>3. T \in SUBSET Waiters(e) /\ Serves(k, m, T)
  BY <1>2 DEF Visited, WalkFrom
<1>4. CASE m # k
  <2>1. k' = rt_schedule(m)
    BY <1>4 DEF IsrSendEvent
  <2>. HIDE DEF m
  <2>2. /\ SvcInv'
        /\ \A v \in WaitLists :
              /\ \A u \in T : u \notin Takers(v)
              /\ Waiters(v)' = Waiters(v) \ T
              /\ Takers(v)' = Takers(v) \union (IF v = e THEN T ELSE {})
    BY <1>1, <1>3, <2>1, IsrGrantOK
  <2>3. Gave(e, T)
    BY <1>3, <2>2 DEF Gave
  <2>. QED BY <1>2, <2>3 DEF IsrSendEvent, EvSent, EvDid
<1>5. CASE m = k
  <2>1. T = {}
    <3>1. Waiters(e) = Waiters(e) \ T
      BY <1>1, <1>3, <1>5 DEF Serves, Waiters
    <3>. QED BY <1>3, <3>1
  <2>2. Kept({})
    BY <1>1, <1>5, StillOK DEF IsrSendEvent
  <2>3. Gave(e, T)
    BY <2>1, <2>2 DEF Gave, Kept
  <2>. QED BY <1>2, <2>3 DEF IsrSendEvent, EvSent, EvDid
<1>. QED BY <1>4, <1>5

LEMMA EvRecvDid ==
    ASSUME SvcInv, NEW t, NEW e \in Events, NEW ask \in Ask, NEW time,
           rt_event_recv(t, e, ask, time)
    PROVE  EvDid(e)
<1>1. Calls(t, e) /\ e \in WaitLists /\ UNCHANGED <<isr, alive>>
  BY EventAssumption DEF rt_event_recv
<1>2. /\ Calling(t) /\ t \in Threads /\ t # Idle /\ pc[t] = "run"
      /\ arg[t] \in Objects \union {None} /\ \A v \in WaitLists : t \notin Takers(v)
  BY <1>1, CallsCalling
<1>3. k.cur = t /\ pc[t] \notin SvcSched /\ pc[t] \notin SvcLocked
  BY <1>2 DEF Calling
<1>4. ASSUME UNCHANGED <<pc, arg>>, NEW x \in Errno, k' = [k EXCEPT !.err[t] = x]
      PROVE  Kept({})
  <2>1. pc' = [pc EXCEPT ![t] = "run"] /\ arg' = [arg EXCEPT ![t] = arg[t]]
        /\ isr' = isr /\ alive' = alive
    BY <1>1, <1>2, <1>4 DEF SvcInv
  <2>2. Goes(t, "run", arg[t])
    BY <2>1 DEF Goes
  <2>3. Fits(t, "run", arg[t]) /\ "run" \notin WaitPlaces /\ "run" \notin SvcLocked
    BY <1>2, CommonFits
  <2>4. Kept({t})
    BY <1>3, <1>4, <2>2, <2>3, ErrorOK
  <2>. QED BY <1>2, <2>4, KeptNone
<1>5. CASE RecvNow(t, e, ask)
  <2>1. "EOK" \in Errno
    BY DEF Errno
  <2>2. Kept({})
    BY <1>4, <1>5, <2>1 DEF RecvNow, ResetError
  <2>. QED BY <1>5, <2>2 DEF RecvNow, EvTook, EvDid
<1>6. CASE RecvNothing(t, e, ask, time)
  <2>1. "ETIMEOUT" \in Errno
    BY DEF Errno
  <2>2. Kept({})
    BY <1>4, <1>6, <2>1 DEF RecvNothing
  <2>3. UNCHANGED evVars
    BY <1>6 DEF RecvNothing, evVars
  <2>. QED BY <2>2, <2>3, KeptDrops DEF EvDid
<1>7. CASE EvBlock(t, e, ask, time)
  <2>1. Fits(t, "ev_sched", e) /\ Waits("ev_sched", e, e) /\ "ev_sched" \in SvcSched
    BY <1>2, EvFits DEF EvPlaces, Waits, SvcSched
  <2>2. Joined(t, e)
    BY <1>1, <1>2, <1>7, <2>1, BlockOK DEF EvBlock
  <2>3. \A v \in WaitLists : t \notin Waiters(v) /\ t \notin Takers(v)
    BY <1>2, CurrentWaitsNot
  <2>4. EvWaited(e, t, ask)
    BY <1>2, <1>7, <2>2, <2>3 DEF EvBlock, EvWaited
  <2>. QED BY <1>2, <2>4 DEF EvDid
<1>. QED BY <1>5, <1>6, <1>7 DEF rt_event_recv

LEMMA EvCallDid ==
    ASSUME SvcInv, EvShape, NEW t, EvCall(t)
    PROVE  \E e \in Events : EvDid(e)
<1>1. PICK e \in Events :
         \/ \E bits \in EvSends : rt_event_send(t, e, bits)
         \/ \E ask \in EvAsks, time \in EvTimes : rt_event_recv(t, e, ask, time)
         \/ rt_event_control(t, e)
         \/ rt_event_detach(t, e) /\ UNCHANGED evVars
  BY DEF EvCall
<1>2. EvSends \subseteq SUBSET Bits /\ EvAsks \subseteq Ask /\ e \in WaitLists
  BY EventAssumption
<1>3. ASSUME Calls(t, e)
      PROVE  /\ Calling(t) /\ t \in Threads /\ t # Idle
             /\ arg[t] \in Objects \union {None} /\ \A v \in WaitLists : t \notin Takers(v)
             /\ k.cur = t /\ pc[t] \notin SvcSched /\ pc[t] \notin SvcLocked
  BY <1>3, CallsCalling DEF Calling
<1>4. CASE rt_event_control(t, e)
  <2>1. Calls(t, e) /\ k' = rt_ipc_list_resume_all(k, e) /\ Go(t, "ret_sched")
        /\ UNCHANGED <<isr, arg, alive>>
    BY <1>4 DEF rt_event_control
  <2>2. Goes(t, "ret_sched", arg[t])
    BY <1>3, <2>1, GoGoes
  <2>3. Fits(t, "ret_sched", arg[t]) /\ "ret_sched" \notin WaitPlaces
        /\ "ret_sched" \notin SvcLocked
    BY <1>3, <2>1, CommonFits
  <2>4. Dropped({t}, Waiters(e))
    BY <1>2, <1>3, <2>1, <2>2, <2>3, DropAll
  <2>5. Dropped({}, Waiters(e))
    BY <1>3, <2>1, <2>4 DEF Dropped
  <2>. QED BY <1>4, <2>5 DEF rt_event_control, EvEmptied, EvDid
<1>5. CASE rt_event_detach(t, e) /\ UNCHANGED evVars
  <2>1. Calls(t, e)
    BY <1>5 DEF rt_event_detach, DetachCall
  <2>2. Fits(t, "evd_test", e) /\ "evd_test" \notin SvcLocked /\ "evd_test" \notin WaitPlaces
    BY <1>3, <2>1, EvFits DEF EvPlaces, WaitPlaces
  <2>3. Kept({})
    BY <1>5, <2>2, DetachCallOK DEF rt_event_detach
  <2>. QED BY <1>5, <2>3, KeptDrops DEF EvDid
<1>. QED BY <1>1, <1>2, <1>4, <1>5, SendEventDid, EvRecvDid

LEMMA EvStepDid ==
    ASSUME SvcInv, NEW t, EvStep(t)
    PROVE  \E e \in Events : EvDid(e)
<1>. DEFINE e == arg[t]
<1>1. ASSUME NEW p \in EvPlaces, At(t, p)
      PROVE  /\ t \in Threads /\ e \in Events /\ e \in WaitLists /\ pc[t] = p
             /\ t # Idle
  <2>1. t \in Threads /\ Fits(t, p, arg[t]) /\ pc[t] = p
    BY <1>1, AtFits
  <2>. QED BY <1>1, <2>1, EventAssumption DEF Fits, EvPlaces
<1>2. {"ev_sched", "ev_woken", "evd_test", "evd_wake"} \subseteq EvPlaces
  BY DEF EvPlaces
<1>3. CASE EvReturn(t)
  <2>1. At(t, "ev_woken") /\ UNCHANGED <<k, isr, alive, set>> /\ Return(t)
        /\ info' = [info EXCEPT ![t] = Nothing]
    BY <1>3 DEF EvReturn
  <2>2. t \in Threads /\ e \in Events /\ e \in WaitLists /\ pc[t] = "ev_woken"
    BY <1>1, <1>2, <2>1
  <2>3. /\ "ev_woken" # "run" /\ "ev_woken" \notin SvcSched /\ "ev_woken" \notin SvcLocked
    BY DEF SvcSched, SvcLocked
  <2>4. Calling(t)
    BY <2>1, <2>3, AtCalling
  <2>5. Kept({t}) /\ \A v \in WaitLists : t \notin Waiters(v)
    BY <2>1, <2>4, LeaveOK, CurrentWaitsNot
  <2>6. Waits(pc[t], arg[t], e)
    BY <2>2 DEF Waits
  <2>7. Only({t}, e)
    BY <2>2, <2>6, OnlyOwn
  <2>8. t \in Takers(e) <=> k.err[t] = "EOK"
    BY <2>2, <2>5, <2>6, PairWaits DEF Takers, Served, Waiters
  <2>9. EvEnded(e, t)
    BY <1>3, <2>1, <2>2, <2>5, <2>7, <2>8 DEF EvReturn, EvEnded, Quits
  <2>. QED BY <2>2, <2>9 DEF EvDid
<1>4. \A q \in EvPlaces \union {"det_object"}, p \in EvPlaces :
         At(t, p) /\ Fits(t, p, arg[t]) => Fits(t, q, arg[t])
  <2>1. ASSUME NEW p \in EvPlaces, At(t, p)
        PROVE  arg[t] \in Objects \union {None}
    BY <1>1, <2>1, EventAssumption
  <2>. QED BY <1>1, <2>1, EvFits, CommonFits
<1>5. CASE Resched(t, "ev_sched", "ev_woken") /\ UNCHANGED evVars
  <2>1. At(t, "ev_sched")
    BY <1>5 DEF Resched
  <2>2. \A v : Waits("ev_woken", arg[t], v) <=> Waits("ev_sched", arg[t], v)
    BY DEF Waits
  <2>3. "ev_woken" \in SvcLocked <=> "ev_sched" \in SvcLocked
    BY DEF SvcLocked
  <2>4. Kept({})
    BY <1>2, <1>4, <1>5, <2>1, <2>2, <2>3, ReschedStepOK
  <2>. QED BY <1>1, <1>2, <1>5, <2>1, <2>4, KeptDrops DEF EvDid
<1>6. CASE EvDetachSteps(t) /\ UNCHANGED evVars
  <2>1. \A p \in {"evd_test", "evd_wake", "det_object"} :
           p \notin SvcSched /\ p \notin WaitPlaces /\ p \notin SvcLocked
    BY DEF SvcSched, WaitPlaces, SvcLocked
  <2>2. CASE ResumeAllTest(t, e, "evd_test", "evd_wake", "det_object")
    <3>1. At(t, "evd_test")
      BY <2>2 DEF ResumeAllTest
    <3>2. Kept({})
      BY <1>2, <1>4, <2>1, <2>2, <3>1, ResumeAllTestOK
    <3>. QED BY <1>1, <1>2, <1>6, <3>1, <3>2, KeptDrops DEF EvDid
  <2>3. CASE ResumeAllWake(t, e, "evd_wake", "evd_test")
    <3>1. At(t, "evd_wake")
      BY <2>3 DEF ResumeAllWake
    <3>2. e \in Events /\ e \in WaitLists
      BY <1>1, <1>2, <3>1
    <3>3. \E T : Dropped({}, T)
      BY <1>2, <1>4, <2>1, <2>3, <3>1, <3>2, ResumeAllWakeOK
    <3>. QED BY <1>6, <3>2, <3>3 DEF EvDid
  <2>. QED BY <1>6, <2>2, <2>3 DEF EvDetachSteps
<1>. QED BY <1>3, <1>5, <1>6 DEF EvStep

LEMMA EvNextDid ==
    ASSUME SvcInv, EvShape, EvNext
    PROVE  \E e \in Events : EvDid(e)
<1>1. CASE EvIsr
  <2>1. PICK e \in Events, bits \in EvSends : IsrSendEvent(e, bits)
    BY <1>1 DEF EvIsr
  <2>2. bits \in SUBSET Bits
    BY EventAssumption
  <2>. QED BY <2>1, <2>2, IsrSendEventDid
<1>. QED BY <1>1, EvCallDid, EvStepDid DEF EvNext

LEMMA EvActs ==
    ASSUME SvcInv, NEW e, EvDid(e), NEW A, e \in A
    PROVE  Acts(A)
<1>1. ASSUME NEW t, NEW ask, EvWaited(e, t, ask)
      PROVE  Acts(A)
  BY <1>1, OnlyUnserved DEF EvWaited, Enters, Acts
<1>2. ASSUME NEW t, EvEnded(e, t)
      PROVE  Acts(A)
  BY <1>2 DEF EvEnded, Acts
<1>3. ASSUME NEW bits, NEW T, EvSent(e, bits, T)
      PROVE  Acts(A)
  BY <1>3 DEF EvSent, Acts
<1>. QED BY <1>1, <1>2, <1>3, KeptDrops DEF EvDid, EvTook, EvEmptied, Acts

-----------------------------------------------------------------------------
(* Event: no satisfied waiter, and every bit accounted for.                *)

\* Nobody on the list of e is satisfied, when the bits are s and the threads
\* ask for f; and o counts the bits that are up or in a receiver's hands.
EvRight(e, s, f, o) ==
    /\ \A t \in Waiters(e) : ~Satisfied(f[t], s)
    /\ \A b \in Bits :
          o[b] = (IF b \in s THEN 1 ELSE 0) + Cardinality(Cleared(f, Takers(e), b))

EvInv ==
    /\ EvShape
    /\ owed \in [Events -> [Bits -> Int]]
    /\ \A e \in Events : EvRight(e, set[e], info, owed[e])

LEMMA HoldingIsCleared ==
    ASSUME NEW e \in Events, NEW b
    PROVE  Holding(e, b) = Cleared(info, Takers(e), b)
<1>1. e \in WaitLists
  BY EventAssumption
<1>2. ASSUME NEW t \in Threads
      PROVE  Notified(t, e) <=> t \in Takers(e)
  <2>1. Waits(pc[t], arg[t], e) <=> pc[t] \in {"ev_sched", "ev_woken"} /\ arg[t] = e
    BY WhoWaits
  <2>2. <<pc[t], arg[t]>> \in SvcWait[e] <=> Waits(pc[t], arg[t], e)
    BY <1>1, PairWaits
  <2>. QED BY <2>1, <2>2 DEF Notified, Takers, Served
<1>3. Takers(e) \subseteq Threads
  BY DEF Takers
<1>. QED BY <1>2, <1>3 DEF Holding, Cleared

LEMMA EvInvSays ==
    ASSUME EvInv
    PROVE  NoSatisfiedWaiter /\ BitsConserved
<1>1. NoSatisfiedWaiter
  BY DEF NoSatisfiedWaiter, EvInv, EvRight, Waiters
<1>2. BitsConserved
  <2>. SUFFICES ASSUME NEW e \in Events, NEW b \in Bits
                PROVE  owed[e][b] = (IF b \in set[e] THEN 1 ELSE 0) + Cardinality(Holding(e, b))
    BY DEF BitsConserved
  <2>1. Holding(e, b) = Cleared(info, Takers(e), b)
    BY HoldingIsCleared
  <2>2. EvRight(e, set[e], info, owed[e])
    BY DEF EvInv
  <2>. QED BY <2>1, <2>2 DEF EvRight
<1>. QED BY <1>1, <1>2

LEMMA ClearedCount ==
    ASSUME NEW e, NEW f, NEW b
    PROVE  /\ IsFiniteSet(Cleared(f, Takers(e), b))
           /\ Cardinality(Cleared(f, Takers(e), b)) \in Nat
<1>1. Cleared(f, Takers(e), b) \subseteq Takers(e) /\ IsFiniteSet(Takers(e))
  BY TakersFinite DEF Cleared
<1>. QED BY <1>1, FS_Subset, FS_CardinalityType

\* The threads that matter for e ask for the same, and none is new.
LEMMA EvRightStill ==
    ASSUME NEW e, NEW s, NEW f, NEW g, NEW o, EvRight(e, s, f, o),
           Waiters(e)' \subseteq Waiters(e), Takers(e)' = Takers(e),
           \A t : t \in Waiters(e) \/ t \in Takers(e) => g[t] = f[t]
    PROVE  EvRight(e, s, g, o)'
<1>1. \A t \in Waiters(e)' : ~Satisfied(g[t], s)
  BY DEF EvRight
<1>2. \A b : Cleared(g, Takers(e)', b) = Cleared(f, Takers(e), b)
  BY DEF Cleared
<1>. QED BY <1>1, <1>2 DEF EvRight, Cleared

LEMMA EvInit_Inv ==
    ASSUME Init
    PROVE  /\ EvShape /\ owed \in [Events -> [Bits -> Int]]
           /\ \A e \in Events : set[e] = {} /\ \A b \in Bits : owed[e][b] = 0
BY DEF Init, EvInit, EvShape, Nothing, Ask

\* The other events are not touched.
EvSpares(e) ==
    /\ \A x \in Events : x # e => set'[x] = set[x] /\ owed'[x] = owed[x]
    /\ \A x \in Events, t \in Threads :
          x # e /\ (t \in Waiters(x) \/ t \in Takers(x)) => info'[t] = info[t]

LEMMA EvOthers ==
    ASSUME SvcInv, EvInv, NEW e, NEW A, Foot(A), EvSpares(e),
           NEW x \in Events, x # e, x \notin A
    PROVE  EvRight(x, set[x], info, owed[x])'
<1>1. PICK s, f, g, o : s = set[x] /\ f = info /\ g = info' /\ o = owed[x]
  OBVIOUS
<1>2. set'[x] = s /\ info' = g /\ owed'[x] = o
  BY <1>1 DEF EvSpares
<1>3. EvRight(x, s, f, o)
  BY <1>1 DEF EvInv
<1>4. x \in WaitLists \ A
  BY EventAssumption
<1>5. Waiters(x)' \subseteq Waiters(x) /\ Takers(x)' = Takers(x)
  BY <1>4 DEF Foot
<1>6. \A t : t \in Waiters(x) \/ t \in Takers(x) => t \in Threads
  BY <1>4, WaiterWaits, TakerWaits
<1>7. \A t : t \in Waiters(x) \/ t \in Takers(x) => g[t] = f[t]
  BY <1>1, <1>6 DEF EvSpares
<1>8. EvRight(x, s, g, o)'
  BY <1>3, <1>5, <1>7, EvRightStill
<1>. QED BY <1>2, <1>8 DEF EvRight, Cleared

\* Event e is right again, and the others were spared.
LEMMA EvInvAgain ==
    ASSUME SvcInv, EvInv, NEW e \in Events, Foot({e}), EvSpares(e), EvShape',
           owed' \in [Events -> [Bits -> Int]], EvRight(e, set[e], info, owed[e])'
    PROVE  EvInv'
<1>1. ASSUME NEW x \in Events
      PROVE  EvRight(x, set[x], info, owed[x])'
  <2>1. CASE x = e
    BY <2>1
  <2>2. CASE x # e
    <3>1. x \notin {e}
      BY <2>2
    <3>. QED BY <2>2, <3>1, EvOthers
  <2>. QED BY <2>1, <2>2
<1>. QED BY <1>1 DEF EvInv


LEMMA EvSentKeeps ==
    ASSUME SvcInv, EvInv, NEW e \in Events, NEW bits \in SUBSET Bits, NEW T,
           EvSent(e, bits, T)
    PROVE  EvInv'
<1>1. PICK r, s, f, o, tk, wt : /\ r = Walk(e, bits) /\ s = set[e] /\ f = info /\ o = owed[e]
                                /\ tk = Takers(e) /\ wt = Waiters(e)
  OBVIOUS
<1>2. e \in WaitLists /\ e \in {e}
  BY EventAssumption
<1>3. Foot({e})
  <2>1. EvDid(e)
    BY DEF EvDid
  <2>. QED BY <1>2, <2>1, EvActs, FootOK
<1>4. /\ r.set \in SUBSET Bits /\ r.info \in [Threads -> Ask]
      /\ T \subseteq wt /\ r.set \subseteq s \union bits
      /\ \A x \in Threads \ T : r.info[x] = f[x]
      /\ \A x \in wt \ T : ~Satisfied(r.info[x], r.set)
      /\ \A b \in Bits : IF b \in (s \union bits) \ r.set
                         THEN \E x \in T : Cleared(r.info, T, b) = {x}
                         ELSE Cleared(r.info, T, b) = {}
  BY <1>1 DEF EvSent, Visited, WalkSpace, WalkFrom
<1>5. /\ set' = [set EXCEPT ![e] = r.set] /\ info' = r.info
      /\ owed' = [owed EXCEPT ![e] = [b \in Bits |->
                     IF b \in bits \ s THEN o[b] + 1 ELSE o[b]]]
  BY <1>1 DEF EvSent, Raise
<1>6. /\ set \in [Events -> SUBSET Bits] /\ f \in [Threads -> Ask]
      /\ owed \in [Events -> [Bits -> Int]] /\ o \in [Bits -> Int]
      /\ \A b \in Bits : o[b] = (IF b \in s THEN 1 ELSE 0) + Cardinality(Cleared(f, tk, b))
  BY <1>1 DEF EvInv, EvShape, EvRight
<1>7. EvShape' /\ owed' \in [Events -> [Bits -> Int]]
  BY <1>4, <1>5, <1>6 DEF EvShape
<1>8. EvSpares(e)
  <2>1. ASSUME NEW x \in Events, x # e
        PROVE  set'[x] = set[x] /\ owed'[x] = owed[x]
    BY <1>5, <1>6, <2>1
  <2>2. ASSUME NEW x \in Events, x # e, NEW t \in Threads, t \in Waiters(x) \/ t \in Takers(x)
        PROVE  info'[t] = info[t]
    <3>1. x \in WaitLists
      BY EventAssumption
    <3>2. t \notin T
      <4>1. SUFFICES ASSUME t \in T PROVE FALSE
        OBVIOUS
      <4>2. t \in Waiters(e)
        BY <1>1, <1>4, <4>1
      <4>3. Waits(pc[t], arg[t], e) /\ t \notin Takers(x)
        BY <1>2, <3>1, <4>2, WaiterWaits
      <4>4. Waits(pc[t], arg[t], x)
        BY <2>2, <3>1, <4>3, WaiterWaits
      <4>. QED BY <2>2, <4>3, <4>4, WaitsOnce
    <3>. QED BY <1>1, <1>4, <1>5, <3>2
  <2>. QED BY <2>1, <2>2 DEF EvSpares
<1>9. Waiters(e)' = wt \ T /\ Takers(e)' = tk \union T /\ T \intersect tk = {}
  BY <1>1, <1>2 DEF EvSent, Gave
<1>10. tk \subseteq Threads
  BY <1>1 DEF Takers
<1>11. set'[e] = r.set /\ \A b \in Bits : owed'[e][b] = IF b \in bits \ s THEN o[b] + 1 ELSE o[b]
  BY <1>5, <1>6
<1>12. ASSUME NEW b \in Bits
       PROVE  owed'[e][b] =
                 (IF b \in r.set THEN 1 ELSE 0) + Cardinality(Cleared(r.info, tk \union T, b))
  <2>. DEFINE C == Cleared(f, tk, b)
  <2>1. Cleared(r.info, tk \union T, b) = C \union Cleared(r.info, T, b)
    BY <1>4, <1>9, <1>10 DEF Cleared
  <2>2. IsFiniteSet(C) /\ Cardinality(C) \in Nat
    BY <1>1, ClearedCount
  <2>3. o[b] = (IF b \in s THEN 1 ELSE 0) + Cardinality(C)
    BY <1>6
  <2>4. C \subseteq tk
    BY DEF Cleared
  <2>5. CASE b \in (s \union bits) \ r.set
    <3>1. PICK x \in T : Cleared(r.info, T, b) = {x}
      BY <1>4, <2>5
    <3>2. x \notin C
      BY <1>9, <2>4, <3>1
    <3>3. Cardinality(C \union {x}) = Cardinality(C) + 1
      BY <2>2, <3>2, FS_AddElement
    <3>. HIDE DEF C
    <3>4. Cardinality(Cleared(r.info, tk \union T, b)) = Cardinality(C) + 1
      BY ONLY <2>1, <3>1, <3>3
    <3>. QED BY ONLY <1>11, <2>2, <2>3, <2>5, <3>4, b \in Bits
  <2>6. CASE b \notin (s \union bits) \ r.set
    <3>1. Cleared(r.info, tk \union T, b) = C
      BY <1>4, <2>1, <2>6
    <3>. HIDE DEF C
    <3>. QED BY <1>4, <1>11, <2>2, <2>3, <2>6, <3>1
  <2>. QED BY <2>5, <2>6
<1>13. EvRight(e, set[e], info, owed[e])'
  BY <1>4, <1>5, <1>9, <1>11, <1>12 DEF EvRight, Cleared
<1>. QED BY <1>3, <1>7, <1>8, <1>13, EvInvAgain


LEMMA EvTookKeeps ==
    ASSUME SvcInv, EvInv, NEW e \in Events, NEW ask \in Ask, EvTook(e, ask)
    PROVE  EvInv'
<1>1. PICK s, f, o, tk, wt : /\ s = set[e] /\ f = info /\ o = owed[e]
                             /\ tk = Takers(e) /\ wt = Waiters(e)
  OBVIOUS
<1>2. e \in WaitLists /\ e \in {e}
  BY EventAssumption
<1>3. Foot({e})
  <2>1. EvDid(e)
    BY DEF EvDid
  <2>. QED BY <1>2, <2>1, EvActs, FootOK
<1>4. /\ set' = (IF ask.clear THEN [set EXCEPT ![e] = s \ ask.set] ELSE set)
      /\ owed' = [owed EXCEPT ![e] = [b \in Bits |->
                     IF ask.clear /\ b \in ask.set \intersect s THEN o[b] - 1 ELSE o[b]]]
      /\ info' = f
  BY <1>1 DEF EvTook, Clears
<1>5. /\ set \in [Events -> SUBSET Bits] /\ f \in [Threads -> Ask]
      /\ owed \in [Events -> [Bits -> Int]] /\ o \in [Bits -> Int] /\ s \in SUBSET Bits
      /\ \A b \in Bits : o[b] = (IF b \in s THEN 1 ELSE 0) + Cardinality(Cleared(f, tk, b))
      /\ \A t \in wt : ~Satisfied(f[t], s)
  BY <1>1 DEF EvInv, EvShape, EvRight
<1>6. EvShape' /\ owed' \in [Events -> [Bits -> Int]]
  BY <1>4, <1>5 DEF EvShape
<1>7. EvSpares(e)
  BY <1>1, <1>4, <1>5 DEF EvSpares
<1>8. Waiters(e)' = wt /\ Takers(e)' = tk
  BY <1>1, <1>2 DEF EvTook, Kept
<1>9. /\ set'[e] = IF ask.clear THEN s \ ask.set ELSE s
      /\ \A b \in Bits :
            owed'[e][b] = IF ask.clear /\ b \in ask.set \intersect s THEN o[b] - 1 ELSE o[b]
  BY <1>1, <1>4, <1>5
<1>10. \A t \in wt : ~Satisfied(f[t], set'[e])
  <2>1. set'[e] \subseteq s
    BY <1>9
  <2>. QED BY <1>5, <2>1, SatisfiedByMore
<1>11. ASSUME NEW b \in Bits
       PROVE  owed'[e][b] =
                 (IF b \in set'[e] THEN 1 ELSE 0) + Cardinality(Cleared(f, tk, b))
  <2>1. Cardinality(Cleared(f, tk, b)) \in Nat
    BY <1>1, ClearedCount
  <2>2. o[b] = (IF b \in s THEN 1 ELSE 0) + Cardinality(Cleared(f, tk, b)) /\ o[b] \in Int
    BY <1>5
  <2>. QED BY ONLY <1>9, <2>1, <2>2, b \in Bits
<1>12. EvRight(e, set[e], info, owed[e])'
  BY <1>4, <1>8, <1>10, <1>11 DEF EvRight, Cleared
<1>. QED BY <1>3, <1>6, <1>7, <1>12, EvInvAgain

LEMMA EvWaitedKeeps ==
    ASSUME SvcInv, EvInv, NEW e \in Events, NEW t, NEW ask \in Ask, EvWaited(e, t, ask)
    PROVE  EvInv'
<1>1. PICK s, f, o, tk, wt : /\ s = set[e] /\ f = info /\ o = owed[e]
                             /\ tk = Takers(e) /\ wt = Waiters(e)
  OBVIOUS
<1>2. e \in WaitLists /\ e \in {e} /\ t \in Threads
  BY EventAssumption DEF EvWaited
<1>3. Foot({e})
  <2>1. EvDid(e)
    BY <1>2 DEF EvDid
  <2>. QED BY <1>2, <2>1, EvActs, FootOK
<1>4. set' = set /\ owed' = owed /\ info' = [f EXCEPT ![t] = ask] /\ ~Satisfied(ask, s)
  BY <1>1 DEF EvWaited
<1>5. /\ set \in [Events -> SUBSET Bits] /\ f \in [Threads -> Ask]
      /\ owed \in [Events -> [Bits -> Int]]
      /\ \A b \in Bits : o[b] = (IF b \in s THEN 1 ELSE 0) + Cardinality(Cleared(f, tk, b))
      /\ \A x \in wt : ~Satisfied(f[x], s)
  BY <1>1 DEF EvInv, EvShape, EvRight
<1>6. EvShape' /\ owed' \in [Events -> [Bits -> Int]]
  BY <1>2, <1>4, <1>5 DEF EvShape
<1>7. info'[t] = ask /\ \A x \in Threads : x # t => info'[x] = f[x]
  BY <1>2, <1>4, <1>5
<1>8. EvSpares(e)
  <2>1. ASSUME NEW x \in Events
        PROVE  t \notin Waiters(x) /\ t \notin Takers(x)
    BY EventAssumption DEF EvWaited
  <2>. QED BY <1>1, <1>4, <1>7, <2>1 DEF EvSpares
<1>9. Waiters(e)' = wt \union {t} /\ Takers(e)' = tk /\ t \notin tk
  BY <1>1, <1>2 DEF EvWaited, Joined
<1>10. wt \subseteq Threads /\ tk \subseteq Threads
  BY <1>1, <1>2, WaiterWaits, TakerWaits
<1>11. \A x \in wt \union {t} : ~Satisfied(info'[x], s)
  BY <1>4, <1>5, <1>7, <1>10
<1>12. \A b : Cleared(info', tk, b) = Cleared(f, tk, b)
  BY <1>7, <1>9, <1>10 DEF Cleared
<1>13. EvRight(e, set[e], info, owed[e])'
  BY <1>1, <1>4, <1>5, <1>9, <1>11, <1>12 DEF EvRight, Cleared
<1>. QED BY <1>3, <1>6, <1>8, <1>13, EvInvAgain

LEMMA EvEndedKeeps ==
    ASSUME SvcInv, EvInv, NEW e \in Events, NEW t, EvEnded(e, t)
    PROVE  EvInv'
<1>1. PICK s, f, o, tk, wt : /\ s = set[e] /\ f = info /\ o = owed[e]
                             /\ tk = Takers(e) /\ wt = Waiters(e)
  OBVIOUS
<1>2. e \in WaitLists /\ e \in {e} /\ t \in Threads
  BY EventAssumption DEF EvEnded
<1>3. Foot({e})
  <2>1. EvDid(e)
    BY <1>2 DEF EvDid
  <2>. QED BY <1>2, <2>1, EvActs, FootOK
<1>4. /\ set' = set /\ info' = [f EXCEPT ![t] = Nothing]
      /\ owed' = IF t \in tk
                 THEN [owed EXCEPT ![e] = [b \in Bits |->
                         IF f[t].clear /\ b \in f[t].set THEN o[b] - 1 ELSE o[b]]]
                 ELSE owed
  BY <1>1 DEF EvEnded, Clears
<1>5. /\ set \in [Events -> SUBSET Bits] /\ f \in [Threads -> Ask]
      /\ owed \in [Events -> [Bits -> Int]] /\ o \in [Bits -> Int]
      /\ \A b \in Bits : o[b] = (IF b \in s THEN 1 ELSE 0) + Cardinality(Cleared(f, tk, b))
      /\ \A x \in wt : ~Satisfied(f[x], s)
  BY <1>1 DEF EvInv, EvShape, EvRight
<1>6. EvShape' /\ owed' \in [Events -> [Bits -> Int]]
  <2>1. Nothing \in Ask
    BY DEF Nothing, Ask
  <2>. QED BY <1>2, <1>4, <1>5, <2>1 DEF EvShape
<1>7. \A x \in Threads : x # t => info'[x] = f[x]
  BY <1>4, <1>5
<1>8. EvSpares(e)
  <2>1. ASSUME NEW x \in Events, x # e
        PROVE  t \notin Waiters(x) /\ t \notin Takers(x)
    BY <2>1, EventAssumption DEF EvEnded, Quits, Only
  <2>2. ASSUME NEW x \in Events, x # e
        PROVE  set'[x] = set[x] /\ owed'[x] = owed[x]
    BY <1>4, <1>5, <2>2
  <2>. QED BY <1>1, <1>7, <2>1, <2>2 DEF EvSpares
<1>9. Waiters(e)' = wt /\ Takers(e)' = tk \ {t} /\ t \notin wt
  BY <1>1, <1>2 DEF EvEnded, Quits, Kept
<1>10. wt \subseteq Threads /\ tk \subseteq Threads
  BY <1>1, <1>2, WaiterWaits, TakerWaits
<1>11. \A x \in wt : ~Satisfied(info'[x], s)
  BY <1>5, <1>7, <1>9, <1>10
<1>12. ASSUME NEW b \in Bits
       PROVE  owed'[e][b] =
                 (IF b \in s THEN 1 ELSE 0) + Cardinality(Cleared(info', tk \ {t}, b))
  <2>. DEFINE C == Cleared(f, tk, b)
              D == Cleared(info', tk \ {t}, b)
  <2>1. IsFiniteSet(C) /\ Cardinality(C) \in Nat
    BY <1>1, ClearedCount
  <2>2. o[b] = (IF b \in s THEN 1 ELSE 0) + Cardinality(C) /\ o[b] \in Int
    BY <1>5
  <2>3. D = C \ {t}
    BY <1>7, <1>10 DEF Cleared
  <2>4. CASE t \in C
    <3>1. t \in tk /\ f[t].clear /\ b \in f[t].set
      BY <2>4 DEF Cleared
    <3>2. owed'[e][b] = o[b] - 1
      BY <1>4, <1>5, <3>1
    <3>. HIDE DEF C, D
    <3>3. Cardinality(D) = Cardinality(C) - 1
      BY <2>1, <2>3, <2>4, FS_RemoveElement
    <3>. QED BY ONLY <2>1, <2>2, <3>2, <3>3 DEF D
  <2>5. CASE t \notin C
    <3>1. ~(t \in tk /\ f[t].clear /\ b \in f[t].set)
      BY <2>5 DEF Cleared
    <3>2. owed'[e][b] = o[b]
      BY <1>1, <1>4, <1>5, <3>1
    <3>. HIDE DEF C, D
    <3>3. D = C
      BY <2>3, <2>5
    <3>. QED BY ONLY <2>2, <3>2, <3>3 DEF D
  <2>. QED BY <2>4, <2>5
<1>13. EvRight(e, set[e], info, owed[e])'
  BY <1>1, <1>4, <1>9, <1>11, <1>12 DEF EvRight, Cleared
<1>. QED BY <1>3, <1>6, <1>8, <1>13, EvInvAgain

LEMMA EvEmptiedKeeps ==
    ASSUME SvcInv, EvInv, NEW e \in Events, EvEmptied(e)
    PROVE  EvInv'
<1>1. PICK f, tk : f = info /\ tk = Takers(e)
  OBVIOUS
<1>2. e \in WaitLists /\ e \in {e}
  BY EventAssumption
<1>3. Foot({e})
  <2>1. EvDid(e)
    BY DEF EvDid
  <2>. QED BY <1>2, <2>1, EvActs, FootOK
<1>4. /\ set' = [set EXCEPT ![e] = {}] /\ info' = f
      /\ owed' = [owed EXCEPT ![e] = [b \in Bits |-> Cardinality(Cleared(f, tk, b))]]
  BY <1>1, HoldingIsCleared DEF EvEmptied
<1>5. /\ set \in [Events -> SUBSET Bits] /\ f \in [Threads -> Ask]
      /\ owed \in [Events -> [Bits -> Int]]
  BY <1>1 DEF EvInv, EvShape
<1>6. \A b : Cardinality(Cleared(f, tk, b)) \in Nat
  BY <1>1, ClearedCount
<1>7. EvShape' /\ owed' \in [Events -> [Bits -> Int]]
  BY <1>4, <1>5, <1>6 DEF EvShape
<1>8. EvSpares(e)
  BY <1>1, <1>4, <1>5 DEF EvSpares
<1>9. Waiters(e)' = {} /\ Takers(e)' = tk
  BY <1>1, <1>2 DEF EvEmptied, Dropped
<1>10. set'[e] = {} /\ \A b \in Bits : owed'[e][b] = Cardinality(Cleared(f, tk, b))
  BY <1>4, <1>5
<1>11. \A b \in Bits :
          owed'[e][b] = (IF b \in set'[e] THEN 1 ELSE 0) + Cardinality(Cleared(f, tk, b))
  BY <1>6, <1>10
<1>12. EvRight(e, set[e], info, owed[e])'
  BY <1>4, <1>9, <1>11 DEF EvRight, Cleared
<1>. QED BY <1>3, <1>7, <1>8, <1>12, EvInvAgain

\* A step of another service, on lists A of its own.
LEMMA EvFrame ==
    ASSUME SvcInv, EvInv, NEW A, Foot(A), A \intersect Events = {}, UNCHANGED evVars
    PROVE  EvInv'
<1>1. EvSpares(None) /\ EvShape' /\ owed' \in [Events -> [Bits -> Int]]
  BY DEF EvSpares, evVars, EvInv, EvShape
<1>2. ASSUME NEW x \in Events
      PROVE  EvRight(x, set[x], info, owed[x])'
  <2>1. x # None /\ x \notin A
    BY IpcAssumption, EventAssumption
  <2>. QED BY <1>1, <2>1, EvOthers
<1>. QED BY <1>1, <1>2 DEF EvInv

LEMMA EvKeep ==
    ASSUME SvcInv, EvInv, NEW e \in Events, EvDid(e)
    PROVE  EvInv'
<1>1. ASSUME UNCHANGED evVars, NEW T, Dropped({}, T)
      PROVE  EvInv'
  <2>1. Foot({})
    BY <1>1 DEF Dropped, Foot
  <2>. QED BY <1>1, <2>1, EvFrame
<1>. QED BY <1>1, EvSentKeeps, EvTookKeeps, EvWaitedKeeps, EvEndedKeeps, EvEmptiedKeeps DEF EvDid


-----------------------------------------------------------------------------
(* Memory pool: the operations.                                            *)

\* What a step may do with pool p.
MpTook(p, t) ==
    /\ pool[p].block_free_count # 0
    /\ pool' = [pool EXCEPT ![p].block_free_count = @ - 1, ![p].block_list = Tail(@)]
    /\ used' = [used EXCEPT ![p] = @ \union {Head(pool[p].block_list)}]
    /\ Quits(t, p)

MpWaited(p, t) ==
    /\ pool[p].block_free_count = 0
    /\ pool' = [pool EXCEPT ![p].suspend_thread_count = @ + 1]
    /\ used' = used
    /\ t \in Threads /\ t \notin Waiters(p)
    /\ Enters(t, p)

MpGaveUp(p, t) ==
    /\ pool[p].block_free_count = 0
    /\ UNCHANGED mpVars
    /\ Quits(t, p)

MpFreed(p, b) ==
    /\ PutBack(p, b)
    /\ IF pool[p].suspend_thread_count # 0 THEN Offered({}, p) ELSE Kept({})

MpLost(p) ==
    /\ ~InService(p)
    /\ pool' = [pool EXCEPT ![p].suspend_thread_count = @ - 1]
    /\ used' = used
    /\ \E T : Dropped({}, T)

MpDid(p) ==
    \/ \E t : MpTook(p, t) \/ MpWaited(p, t) \/ MpGaveUp(p, t)
    \/ MpLost(p)
    \/ \E b \in 1 .. Blocks : MpFreed(p, b)
    \/ UNCHANGED mpVars /\ Kept({})

LEMMA MpFits ==
    ASSUME NEW t \in Threads, t # Idle, NEW p \in Pools, NEW q \in MpPlaces
    PROVE  Fits(t, q, p) /\ q \notin SvcLocked
BY MemPoolAssumption
   DEF Fits, Places, MailPlaces, MqPlaces, EvPlaces, MpPlaces, CpPlaces, DqPlaces,
       SvcLocked

LEMMA MpTurnDid ==
    ASSUME SvcInv, NEW t, Calling(t), NEW p \in Pools, NEW time, MpTurn(t, p, time),
           UNCHANGED <<isr, alive>>, Only({t}, p)
    PROVE  MpDid(p)
<1>1. p \in WaitLists /\ t \in Threads /\ t # Idle /\ k.cur = t
  BY MemPoolAssumption DEF Calling
<1>2. CASE Grant(t, p)
  <2>1. k' = k /\ Return(t)
    BY <1>2, LeaveReturns DEF Grant
  <2>2. Kept({t})
    BY <2>1, LeaveOK
  <2>. QED BY <1>2, <2>2 DEF Grant, MpTook, Quits, MpDid
<1>3. CASE MpBlock(t, p, time)
  <2>1. /\ k' = StartTimer(SuspendFirst(k, p, t), t, time) /\ Proceed(t, p, "mp_sched")
        /\ used' = used
    BY <1>3 DEF MpBlock
  <2>2. Goes(t, "mp_sched", p)
    BY <2>1, ProceedGoes
  <2>3. Fits(t, "mp_sched", p) /\ Waits("mp_sched", p, p) /\ "mp_sched" \in SvcSched
    BY <1>1, MpFits DEF MpPlaces, Waits, SvcSched
  <2>4. KernelOK(k) /\ k.stat[t] = "running"
    BY <1>1, CurrentRuns DEF Calling
  <2>5. Parks(k, k', p, t)
    BY <1>1, <2>1, <2>4, FrontParks
  <2>6. Joined(t, p)
    BY <1>1, <2>2, <2>3, <2>5, ParkOK
  <2>7. t \notin Waiters(p)
    BY <1>1, CurrentWaitsNot
  <2>. QED BY <1>1, <1>3, <2>6, <2>7 DEF MpBlock, MpWaited, Enters, MpDid
<1>4. CASE pool[p].block_free_count = 0 /\ TimedOut(t, time) /\ UNCHANGED mpVars
  <2>1. Kept({t})
    BY <1>4, TimedOutOK
  <2>. QED BY <1>4, <2>1 DEF MpGaveUp, Quits, MpDid
<1>. QED BY <1>2, <1>3, <1>4 DEF MpTurn

\* The first on the list has no error code to be cleared.
LEMMA HeadUntouched ==
    ASSUME SvcInv, NEW w \in WaitLists, k.wait[w] # <<>>
    PROVE  [k EXCEPT !.err[Head(k.wait[w])] = "EOK"] = k
<1>1. k \in KernelState
  BY DEF SvcInv, SvcKernel, KernelInv, KernelOK, QueueOK
<1>2. k.wait[w] \in Seq(Threads)
  BY <1>1 DEF KernelState
<1>3. Head(k.wait[w]) \in Waiters(w)
  BY <1>2, HeadIn DEF Waiters
<1>4. k.err[Head(k.wait[w])] = "EOK"
  BY <1>3, WaiterWaits
<1>. QED BY <1>1, <1>4 DEF KernelState

\* The thread that the count promises, if the list has one.
LEMMA CountedWake ==
    ASSUME SvcInv, NEW w \in WaitLists
    PROVE  WakeCounted(w) = IF k.wait[w] = <<>> THEN k ELSE rt_ipc_list_resume(k, w)
BY HeadUntouched DEF WakeCounted

LEMMA MpFreeDid ==
    ASSUME SvcInv, NEW t, NEW p \in Pools, NEW b \in 1 .. Blocks, rt_mp_free(t, p, b)
    PROVE  MpDid(p)
<1>1. Calls(t, p) /\ p \in WaitLists /\ UNCHANGED <<isr, alive>> /\ PutBack(p, b)
  BY MemPoolAssumption DEF rt_mp_free
<1>2. /\ Calling(t) /\ t \in Threads /\ t # Idle
      /\ \A v \in WaitLists : t \notin Takers(v)
  BY <1>1, CallsCalling
<1>3. CASE /\ pool[p].suspend_thread_count # 0
           /\ k' = WakeCounted(p)
           /\ LeaveVia(t, "ret_sched")
  <2>1. Goes(t, "ret_sched", None)
    BY <1>1, <1>3, ProceedGoes DEF LeaveVia
  <2>2. None \in Objects \union {None}
    OBVIOUS
  <2>3. Fits(t, "ret_sched", None) /\ "ret_sched" \notin WaitPlaces
        /\ "ret_sched" \notin SvcLocked
    BY <1>2, <2>2, CommonFits
  <2>4. k.cur = t /\ pc[t] \notin SvcSched /\ pc[t] \notin SvcLocked
    BY <1>2 DEF Calling
  <2>5. CASE k.wait[p] = <<>>
    <3>1. k' = k
      BY <1>1, <1>3, <2>5, CountedWake
    <3>2. Kept({})
      BY <1>2, <2>1, <2>3, <2>4, <3>1, StepOK, KeptNone
    <3>3. Waiters(p) = {}
      BY <1>1, <2>5, NobodyWaits
    <3>. QED BY <1>1, <1>3, <3>2, <3>3 DEF MpFreed, MpDid, Offered
  <2>6. CASE k.wait[p] # <<>>
    <3>1. k' = rt_ipc_list_resume(k, p)
      BY <1>1, <1>3, <2>6, CountedWake
    <3>2. Woke({t}, p)
      BY <1>1, <2>1, <2>3, <2>4, <2>6, <3>1, WakeOK
    <3>3. Woke({}, p)
      BY <1>2, <3>2 DEF Woke
    <3>. QED BY <1>1, <1>3, <3>3 DEF MpFreed, MpDid, Offered
  <2>. QED BY <2>5, <2>6
<1>4. CASE pool[p].suspend_thread_count = 0 /\ UNCHANGED <<k, pc, arg, left, item>>
  <2>1. Kept({})
    BY <1>1, <1>4, StillOK
  <2>. QED BY <1>1, <1>4, <2>1 DEF MpFreed, MpDid
<1>. QED BY <1>3, <1>4 DEF rt_mp_free

\* rt_schedule at the end of an interrupt that woke nobody.
LEMMA IsrSchedOK ==
    ASSUME SvcInv, k' = rt_schedule(k), UNCHANGED <<isr, pc, arg, alive>>
    PROVE  Kept({})
<1>1. PICK t \in Threads : t = k.cur
  BY DEF SvcInv, SvcKernel, KernelInv, KernelOK, QueueOK, KernelState
<1>2. PICK q : q = pc[t]
  OBVIOUS
<1>3. pc' = [pc EXCEPT ![t] = q] /\ Fits(t, q, arg[t])
  BY <1>1, <1>2 DEF SvcInv
<1>. QED BY <1>1, <1>2, <1>3, ReschedOK

LEMMA IsrFreeDid ==
    ASSUME SvcInv, NEW p \in Pools, NEW b \in 1 .. Blocks, IsrFree(p, b)
    PROVE  MpDid(p)
<1>1. p \in WaitLists /\ UNCHANGED <<isr, pc, arg, alive>> /\ PutBack(p, b)
  BY MemPoolAssumption DEF IsrFree
<1>2. CASE pool[p].suspend_thread_count # 0
  <2>1. k' = rt_schedule(WakeCounted(p))
    BY <1>2 DEF IsrFree
  <2>2. CASE k.wait[p] = <<>>
    <3>1. k' = rt_schedule(k)
      BY <1>1, <2>1, <2>2, CountedWake
    <3>2. Kept({})
      BY <1>1, <3>1, IsrSchedOK
    <3>3. Waiters(p) = {}
      BY <1>1, <2>2, NobodyWaits
    <3>. QED BY <1>1, <1>2, <3>2, <3>3 DEF MpFreed, MpDid, Offered
  <2>3. CASE k.wait[p] # <<>>
    <3>1. k' = rt_schedule(rt_ipc_list_resume(k, p))
      BY <1>1, <2>1, <2>3, CountedWake
    <3>2. Woke({}, p)
      BY <1>1, <2>3, <3>1, IsrWakeOK
    <3>. QED BY <1>1, <1>2, <3>2 DEF MpFreed, MpDid, Offered
  <2>. QED BY <2>2, <2>3
<1>3. CASE pool[p].suspend_thread_count = 0
  <2>1. k' = k
    BY <1>3 DEF IsrFree
  <2>2. Kept({})
    BY <1>1, <2>1, StillOK
  <2>. QED BY <1>1, <1>3, <2>1, <2>2 DEF MpFreed, MpDid
<1>. QED BY <1>2, <1>3

LEMMA MpCallDid ==
    ASSUME SvcInv, NEW t, MpCall(t)
    PROVE  \E p \in Pools : MpDid(p)
<1>1. PICK p \in Pools :
         \/ \E time \in MpTimes : rt_mp_alloc(t, p, time)
         \/ \E b \in 1 .. Blocks : rt_mp_free(t, p, b)
         \/ rt_mp_detach(t, p) /\ UNCHANGED <<left, item, pool, used>>
  BY DEF MpCall
<1>2. ASSUME NEW time, rt_mp_alloc(t, p, time)
      PROVE  MpDid(p)
  <2>1. Calls(t, p) /\ MpTurn(t, p, time) /\ UNCHANGED <<isr, alive>>
    BY <1>2 DEF rt_mp_alloc
  <2>2. Calling(t) /\ Only({t}, p)
    BY <2>1, CallsCalling, OnlyUnserved
  <2>. QED BY <2>1, <2>2, MpTurnDid
<1>3. CASE rt_mp_detach(t, p) /\ UNCHANGED <<left, item, pool, used>>
  <2>1. t # Idle /\ t \in Threads
    BY <1>3, CallsCalling DEF rt_mp_detach, DetachCall
  <2>2. Fits(t, "mpd_test", p) /\ "mpd_test" \notin SvcLocked /\ "mpd_test" \notin WaitPlaces
    BY <2>1, MpFits DEF MpPlaces, WaitPlaces
  <2>3. Kept({})
    BY <1>3, <2>2, DetachCallOK DEF rt_mp_detach
  <2>. QED BY <1>3, <2>3 DEF MpDid, mpVars
<1>. QED BY <1>1, <1>2, <1>3, MpFreeDid

LEMMA MpStepDid ==
    ASSUME SvcInv, NEW t, MpStep(t)
    PROVE  \E p \in Pools : MpDid(p)
<1>. DEFINE p == arg[t]
<1>1. ASSUME NEW q \in MpPlaces, At(t, q)
      PROVE  /\ t \in Threads /\ t # Idle /\ pc[t] = q
             /\ p \in Pools /\ p \in WaitLists /\ p \in Objects \union {None}
  <2>1. t \in Threads /\ pc[t] = q /\ Fits(t, q, arg[t])
    BY <1>1, AtFits
  <2>. QED BY <1>1, <2>1, MemPoolAssumption DEF Fits, MpPlaces
<1>2. {"mp_sched", "mp_woken", "mpd_test", "mpd_wake"} \subseteq MpPlaces
  BY DEF MpPlaces
<1>3. CASE MpWoken(t)
  <2>1. At(t, "mp_woken") /\ UNCHANGED <<isr, alive>>
    BY <1>3 DEF MpWoken
  <2>2. p \in Pools /\ p \in WaitLists /\ t \in Threads /\ pc[t] = "mp_woken"
    BY <1>1, <1>2, <2>1
  <2>3. "mp_woken" # "run" /\ "mp_woken" \notin SvcSched /\ "mp_woken" \notin SvcLocked
    BY DEF SvcSched, SvcLocked
  <2>4. Calling(t)
    BY <2>1, <2>3, AtCalling
  <2>5. CASE Failed(t) /\ UNCHANGED mpVars
    <3>1. Kept({})
      BY <2>1, <2>4, <2>5, FailedOK
    <3>. QED BY <2>2, <2>5, <3>1 DEF MpDid
  <2>6. ASSUME NEW time, MpTurn(t, p, time)
        PROVE  MpDid(p)
    <3>1. Only({t}, p)
      BY <2>2, OnlyOwn DEF Waits
    <3>. QED BY <2>1, <2>2, <2>4, <2>6, <3>1, MpTurnDid
  <2>. QED BY <1>3, <2>2, <2>5, <2>6 DEF MpWoken
<1>4. \A q \in MpPlaces \union {"det_object"}, r \in MpPlaces :
         At(t, r) => Fits(t, q, arg[t])
  BY <1>1, MpFits, CommonFits
<1>5. CASE Resched(t, "mp_sched", "mp_woken") /\ UNCHANGED <<left, item, pool, used>>
  <2>1. At(t, "mp_sched")
    BY <1>5 DEF Resched
  <2>2. \A v : Waits("mp_woken", arg[t], v) <=> Waits("mp_sched", arg[t], v)
    BY DEF Waits
  <2>3. "mp_woken" \in SvcLocked <=> "mp_sched" \in SvcLocked
    BY DEF SvcLocked
  <2>4. Kept({})
    BY <1>2, <1>4, <1>5, <2>1, <2>2, <2>3, ReschedStepOK
  <2>. QED BY <1>1, <1>2, <1>5, <2>1, <2>4 DEF MpDid, mpVars
<1>6. CASE MpDetachSteps(t) /\ UNCHANGED <<left, item, used>>
  <2>1. \A q \in {"mpd_test", "mpd_wake", "det_object"} :
           q \notin SvcSched /\ q \notin WaitPlaces /\ q \notin SvcLocked
    BY DEF SvcSched, WaitPlaces, SvcLocked
  <2>2. CASE ResumeAllTest(t, p, "mpd_test", "mpd_wake", "det_object") /\ UNCHANGED pool
    <3>1. At(t, "mpd_test")
      BY <2>2 DEF ResumeAllTest
    <3>2. Kept({})
      BY <1>2, <1>4, <2>1, <2>2, <3>1, ResumeAllTestOK
    <3>. QED BY <1>1, <1>2, <1>6, <2>2, <3>1, <3>2 DEF MpDid, mpVars
  <2>3. CASE /\ ResumeAllWake(t, p, "mpd_wake", "mpd_test")
             /\ pool' = [pool EXCEPT ![p].suspend_thread_count = @ - 1]
    <3>1. At(t, "mpd_wake")
      BY <2>3 DEF ResumeAllWake
    <3>2. p \in Pools /\ p \in WaitLists
      BY <1>1, <1>2, <3>1
    <3>3. \E T : Dropped({}, T)
      BY <1>2, <1>4, <2>1, <2>3, <3>1, <3>2, ResumeAllWakeOK
    <3>4. ~InService(p)
      BY <1>1, <1>2, <3>1 DEF InService
    <3>. QED BY <1>6, <2>3, <3>2, <3>3, <3>4 DEF MpLost, MpDid
  <2>. QED BY <1>6, <2>2, <2>3 DEF MpDetachSteps
<1>. QED BY <1>3, <1>5, <1>6 DEF MpStep

LEMMA MpNextDid ==
    ASSUME SvcInv, MpNext
    PROVE  \E p \in Pools : MpDid(p)
<1>1. CASE MpIsr
  BY <1>1, IsrFreeDid DEF MpIsr
<1>. QED BY <1>1, MpCallDid, MpStepDid DEF MpNext

LEMMA MpActs ==
    ASSUME NEW p, MpDid(p), NEW A, p \in A
    PROVE  Acts(A)
<1>1. ASSUME NEW b, MpFreed(p, b)
      PROVE  Acts(A)
  BY <1>1, OnlyNobody, KeptDrops DEF MpFreed, Passes, Offered, Acts
<1>. QED BY <1>1, KeptDrops DEF MpDid, MpTook, MpWaited, MpGaveUp, MpLost, Acts


-----------------------------------------------------------------------------
(* Memory pool: no block while a thread waits.                             *)

\* The free list and its count are right for a pool q of which u are in use.
BlocksOK(q, u) ==
    /\ q \in PoolState
    /\ u \subseteq 1 .. Blocks
    /\ IsInjective(q.block_list)
    /\ ToSet(q.block_list) = (1 .. Blocks) \ u
    /\ q.block_free_count = Len(q.block_list)

\* A count of c misses none of those who wait on p.  A waiter that leaves by
\* timeout stays in the count, so that it may say more.
Counted(c, p) == Cardinality(Waiters(p)) <= c

\* While it is in service, pool p with control block q owes nothing to those who
\* wait.
Sound(q, p) ==
    InService(p) => Matched(q.block_free_count, p) /\ Counted(q.suspend_thread_count, p)

MpInv ==
    /\ MpTypeOK
    /\ \A p \in Pools : BlocksOK(pool[p], used[p]) /\ Sound(pool[p], p)

LEMMA InjectiveCount ==
    ASSUME NEW S, NEW s \in Seq(S), IsInjective(s)
    PROVE  Cardinality(ToSet(s)) = Len(s)
<1>1. Len(s) \in Nat /\ DOMAIN s = 1 .. Len(s)
  OBVIOUS
<1>2. \A x : x \in ToSet(s) <=> \E i \in 1 .. Len(s) : s[i] = x
  BY ToSetDef
<1>3. s \in [1 .. Len(s) -> ToSet(s)]
  BY <1>1, <1>2
<1>4. s \in Bijection(1 .. Len(s), ToSet(s))
  BY <1>1, <1>2, <1>3 DEF IsInjective, Bijection, Injection, Surjection
<1>5. ExistsBijection(1 .. Len(s), ToSet(s))
  BY <1>4 DEF ExistsBijection
<1>. QED BY <1>1, <1>5, FS_CountingElements

LEMMA MpInvSays ==
    ASSUME SvcInv, MpInv
    PROVE  NoBlockWhileWaiting
<1>. SUFFICES ASSUME NEW p \in Pools
              PROVE  /\ IsInjective(pool[p].block_list)
                     /\ ToSet(pool[p].block_list) = (1 .. Blocks) \ used[p]
                     /\ pool[p].block_free_count = Len(pool[p].block_list)
                     /\ InService(p) /\ k.wait[p] # <<>> =>
                          /\ Len(k.wait[p]) <= pool[p].suspend_thread_count
                          /\ Len(pool[p].block_list) <=
                                Cardinality(Looking(p, {"mp_sched", "mp_woken"}))
  BY DEF NoBlockWhileWaiting
<1>1. BlocksOK(pool[p], used[p]) /\ p \in WaitLists
  BY MemPoolAssumption DEF MpInv
<1>2. \A q, x : Waits(q, x, p) <=> q \in {"mp_sched", "mp_woken"} /\ x = p
  BY WhoWaits
<1>3. ASSUME InService(p), k.wait[p] # <<>>
      PROVE  /\ pool[p].block_free_count <= Cardinality(Looking(p, {"mp_sched", "mp_woken"}))
             /\ Len(k.wait[p]) <= pool[p].suspend_thread_count
  <2>1. Matched(pool[p].block_free_count, p) /\ Counted(pool[p].suspend_thread_count, p)
    BY <1>3 DEF MpInv, Sound
  <2>2. k.wait[p] \in Seq(Threads) /\ IsInjective(k.wait[p])
    BY <1>1 DEF SvcInv, SvcKernel, KernelInv, KernelOK, QueueOK, WaitOK, KernelState
  <2>3. Cardinality(Waiters(p)) = Len(k.wait[p])
    BY <2>2, InjectiveCount DEF Waiters
  <2>. QED BY <1>1, <1>2, <1>3, <2>1, <2>3, MatchedSays DEF Counted
<1>. QED BY <1>1, <1>3 DEF BlocksOK

LEMMA WaitersFinite ==
    ASSUME SvcInv, NEW w \in WaitLists
    PROVE  IsFiniteSet(Waiters(w)) /\ Cardinality(Waiters(w)) \in Nat
<1>1. Waiters(w) \subseteq Threads
  BY WaiterWaits
<1>. QED BY <1>1, KernelAssumption, FS_Subset, FS_CardinalityType

\* Writing the fields of a control block.
PoolWith(q, n, l, c) ==
    [q EXCEPT !.block_free_count = n, !.block_list = l, !.suspend_thread_count = c]

LEMMA BlockTaken ==
    ASSUME NEW q, NEW u, BlocksOK(q, u), q.block_free_count # 0,
           NEW r, r = [q EXCEPT !.block_free_count = q.block_free_count - 1,
                                !.block_list = Tail(q.block_list)]
    PROVE  /\ BlocksOK(r, u \union {Head(q.block_list)})
           /\ r.block_free_count = q.block_free_count - 1
           /\ r.suspend_thread_count = q.suspend_thread_count
<1>1. /\ q.block_list \in Seq(1 .. Blocks) /\ q.block_list # <<>>
      /\ q.block_free_count \in Nat /\ q.suspend_thread_count \in Int
  BY DEF BlocksOK, PoolState
<1>2. /\ Tail(q.block_list) \in Seq(1 .. Blocks)
      /\ Len(Tail(q.block_list)) = Len(q.block_list) - 1
      /\ IsInjective(Tail(q.block_list))
      /\ ToSet(Tail(q.block_list)) = ToSet(q.block_list) \ {Head(q.block_list)}
      /\ Head(q.block_list) \in ToSet(q.block_list)
  BY <1>1, TailFacts DEF BlocksOK
<1>3. PICK l, n, c : /\ l = Tail(q.block_list) /\ n = q.block_free_count - 1
                     /\ c = q.suspend_thread_count
  OBVIOUS
<1>4. r = PoolWith(q, n, l, c)
  <2>1. q \in PoolState
    BY DEF BlocksOK
  <2>2. r = [q EXCEPT !.block_free_count = n, !.block_list = l]
    BY ONLY <1>3, r = [q EXCEPT !.block_free_count = q.block_free_count - 1,
                                !.block_list = Tail(q.block_list)]
  <2>. QED BY ONLY <1>3, <2>1, <2>2 DEF PoolState, PoolWith
<1>5. n \in Nat /\ n = Len(l)
  BY ONLY <1>1, <1>2, <1>3, BlocksOK(q, u), q.block_free_count # 0 DEF BlocksOK
<1>6. /\ r \in PoolState
      /\ r.block_list = l /\ r.block_free_count = n /\ r.suspend_thread_count = c
  <2>1. /\ PoolWith(q, n, l, c) \in PoolState
        /\ PoolWith(q, n, l, c).block_list = l
        /\ PoolWith(q, n, l, c).block_free_count = n
        /\ PoolWith(q, n, l, c).suspend_thread_count = c
    <3>1. q \in PoolState /\ l \in Seq(1 .. Blocks) /\ n \in Nat /\ c \in Int
      BY ONLY <1>1, <1>2, <1>3, <1>5, BlocksOK(q, u) DEF BlocksOK
    <3>. QED BY ONLY <3>1 DEF PoolState, PoolWith
  <2>. QED BY ONLY <1>4, <2>1
<1>. QED BY ONLY <1>2, <1>3, <1>5, <1>6, BlocksOK(q, u) DEF BlocksOK

LEMMA BlockFreed ==
    ASSUME NEW q, NEW u, BlocksOK(q, u), NEW b, b \in u, NEW c \in Int,
           NEW r, r = PoolWith(q, q.block_free_count + 1, Cons(b, q.block_list), c)
    PROVE  /\ BlocksOK(r, u \ {b}) /\ r.block_free_count = q.block_free_count + 1
           /\ r.suspend_thread_count = c
<1>0. PICK l, n : l = Cons(b, q.block_list) /\ n = q.block_free_count + 1
  OBVIOUS
<1>1. /\ q.block_list \in Seq(1 .. Blocks) /\ b \in 1 .. Blocks /\ b \notin ToSet(q.block_list)
      /\ q.block_free_count \in Nat /\ IsInjective(q.block_list) /\ q \in PoolState
  BY ONLY BlocksOK(q, u), b \in u DEF BlocksOK, PoolState
<1>2. l = Cons(b, q.block_list) /\ n = q.block_free_count + 1 /\ c \in Int
  BY ONLY <1>0, c \in Int
<1>3. l \in Seq(1 .. Blocks) /\ IsInjective(l) /\ ToSet(l) = ToSet(q.block_list) \union {b}
  <2>1. PICK S, s : S = 1 .. Blocks /\ s = q.block_list
    OBVIOUS
  <2>2. s \in Seq(S) /\ b \in S /\ b \notin ToSet(s) /\ IsInjective(s)
    BY ONLY <1>1, <2>1
  <2>3. /\ Cons(b, s) \in Seq(S) /\ IsInjective(Cons(b, s))
        /\ ToSet(Cons(b, s)) = ToSet(s) \union {b}
    BY ONLY <2>2, ConsFacts
  <2>. QED BY ONLY <1>2, <2>1, <2>3
<1>4. Len(l) = Len(q.block_list) + 1
  BY ONLY <1>1, <1>2 DEF Cons
<1>5. n \in Nat /\ n = Len(l)
  BY ONLY <1>1, <1>2, <1>4, BlocksOK(q, u) DEF BlocksOK
<1>6. r = PoolWith(q, n, l, c)
  BY <1>0
<1>7. /\ r \in PoolState
      /\ r.block_list = l /\ r.block_free_count = n /\ r.suspend_thread_count = c
  <2>1. /\ PoolWith(q, n, l, c) \in PoolState
        /\ PoolWith(q, n, l, c).block_list = l
        /\ PoolWith(q, n, l, c).block_free_count = n
        /\ PoolWith(q, n, l, c).suspend_thread_count = c
    <3>1. q \in PoolState /\ l \in Seq(1 .. Blocks) /\ n \in Nat /\ c \in Int
      BY ONLY <1>1, <1>2, <1>3, <1>5
    <3>. QED BY ONLY <3>1 DEF PoolState, PoolWith
  <2>. QED BY ONLY <1>6, <2>1
<1>. QED BY ONLY <1>1, <1>2, <1>3, <1>5, <1>7, BlocksOK(q, u), b \in u DEF BlocksOK

LEMMA WaiterCounted ==
    ASSUME NEW q, NEW u, BlocksOK(q, u), NEW c \in Int,
           NEW r, r = [q EXCEPT !.suspend_thread_count = c]
    PROVE  /\ BlocksOK(r, u) /\ r.block_free_count = q.block_free_count
           /\ r.suspend_thread_count = c
BY DEF BlocksOK, PoolState

\* A pool out of service does not come back.
Lasts == \A p \in Pools : InService(p)' => InService(p)

\* What was sound stays so when waiters only leave.
LEMMA SoundStill ==
    ASSUME SvcInv, Lasts, NEW p \in Pools, NEW q, NEW u, BlocksOK(q, u), Sound(q, p),
           Waiters(p)' \subseteq Waiters(p), Takers(p)' = Takers(p)
    PROVE  Sound(q, p)'
<1>. SUFFICES ASSUME InService(p)'
              PROVE  Matched(q.block_free_count, p)' /\ Counted(q.suspend_thread_count, p)'
  BY DEF Sound
<1>1. Matched(q.block_free_count, p) /\ Counted(q.suspend_thread_count, p)
  BY DEF Lasts, Sound
<1>2. p \in WaitLists
  BY MemPoolAssumption
<1>3. Matched(q.block_free_count, p)'
  BY <1>1, <1>2, MatchedStill
<1>4. Cardinality(Waiters(p)') <= q.suspend_thread_count
  <2>1. IsFiniteSet(Waiters(p)) /\ Cardinality(Waiters(p)) \in Nat
    BY <1>2, WaitersFinite
  <2>2. Cardinality(Waiters(p)') \in Nat /\ Cardinality(Waiters(p)') <= Cardinality(Waiters(p))
    BY <2>1, FS_Subset, FS_CardinalityType
  <2>3. q.suspend_thread_count \in Int
    BY DEF BlocksOK, PoolState
  <2>. QED BY <1>1, <2>1, <2>2, <2>3 DEF Counted
<1>. QED BY <1>3, <1>4 DEF Counted

\* Pool p is right again, the others untouched.
LEMMA MpInvAgain ==
    ASSUME MpInv, NEW p \in Pools, Foot({p}), NEW r, NEW u,
           pool' = [pool EXCEPT ![p] = r], used' = [used EXCEPT ![p] = u],
           BlocksOK(r, u), Sound(r, p)', SvcInv, Lasts
    PROVE  MpInv'
<1>1. MpTypeOK'
  BY DEF MpInv, MpTypeOK, BlocksOK
<1>2. pool'[p] = r /\ used'[p] = u
  BY DEF MpInv, MpTypeOK
<1>3. ASSUME NEW x \in Pools, x # p
      PROVE  BlocksOK(pool'[x], used'[x]) /\ Sound(pool[x], x)'
  <2>1. PICK q, y : q = pool[x] /\ y = used[x]
    OBVIOUS
  <2>2. pool'[x] = q /\ used'[x] = y
    BY <1>3, <2>1 DEF MpInv, MpTypeOK
  <2>3. BlocksOK(q, y) /\ Sound(q, x)
    BY <2>1 DEF MpInv
  <2>4. x \in WaitLists \ {p}
    BY <1>3, MemPoolAssumption
  <2>5. Waiters(x)' \subseteq Waiters(x) /\ Takers(x)' = Takers(x)
    BY <2>4 DEF Foot
  <2>6. Sound(q, x)'
    BY <2>3, <2>5, SoundStill
  <2>. QED BY <2>2, <2>3, <2>6 DEF Sound, Matched, Counted
<1>4. BlocksOK(pool'[p], used'[p]) /\ Sound(pool[p], p)'
  BY <1>2 DEF Sound, Matched, Counted
<1>. QED BY <1>1, <1>3, <1>4 DEF MpInv

LEMMA MpTookKeeps ==
    ASSUME SvcInv, MpInv, Lasts, NEW p \in Pools, NEW t, MpTook(p, t)
    PROVE  MpInv'
<1>1. PICK q, u : q = pool[p] /\ u = used[p]
  OBVIOUS
<1>2. p \in WaitLists /\ p \in {p} /\ Foot({p})
  <2>1. MpDid(p) /\ p \in {p}
    BY DEF MpDid
  <2>. QED BY <2>1, MemPoolAssumption, MpActs, FootOK
<1>3. BlocksOK(q, u) /\ Sound(q, p)
  BY <1>1 DEF MpInv
<1>4. PICK r : r = [q EXCEPT !.block_free_count = q.block_free_count - 1,
                             !.block_list = Tail(q.block_list)]
  OBVIOUS
<1>5. /\ pool' = [pool EXCEPT ![p] = r]
      /\ used' = [used EXCEPT ![p] = u \union {Head(q.block_list)}]
      /\ q.block_free_count # 0 /\ Quits(t, p)
  BY <1>1, <1>4 DEF MpTook
<1>6. /\ BlocksOK(r, u \union {Head(q.block_list)})
      /\ r.block_free_count = q.block_free_count - 1
      /\ r.suspend_thread_count = q.suspend_thread_count
  BY ONLY <1>3, <1>4, <1>5, BlockTaken
<1>7. q.block_free_count \in Int /\ r.block_free_count \in Int
      /\ r.block_free_count <= q.block_free_count - 1
  BY <1>3, <1>6 DEF BlocksOK, PoolState
<1>8. ASSUME InService(p)'
      PROVE  Matched(r.block_free_count, p)' /\ Counted(r.suspend_thread_count, p)'
  <2>1. Matched(q.block_free_count, p) /\ Counted(q.suspend_thread_count, p)
    BY <1>3, <1>8 DEF Lasts, Sound
  <2>2. Matched(r.block_free_count, p)'
    BY ONLY <1>2, <1>5, <1>7, <2>1, MatchedQuit
  <2>3. Counted(r.suspend_thread_count, p)'
    BY <1>2, <1>5, <1>6, <2>1 DEF Counted, Quits, Kept
  <2>. QED BY <2>2, <2>3
<1>9. Sound(r, p)'
  BY <1>8 DEF Sound
<1>. QED BY <1>2, <1>5, <1>6, <1>9, MpInvAgain

LEMMA MpWaitedKeeps ==
    ASSUME SvcInv, MpInv, Lasts, NEW p \in Pools, NEW t, MpWaited(p, t)
    PROVE  MpInv'
<1>1. PICK q, u, c : q = pool[p] /\ u = used[p] /\ c = q.suspend_thread_count + 1
  OBVIOUS
<1>2. p \in WaitLists /\ p \in {p} /\ Foot({p})
  <2>1. MpDid(p) /\ p \in {p}
    BY DEF MpDid
  <2>. QED BY <2>1, MemPoolAssumption, MpActs, FootOK
<1>3. BlocksOK(q, u) /\ Sound(q, p)
  BY <1>1 DEF MpInv
<1>4. q.suspend_thread_count \in Int /\ c \in Int
  BY <1>1, <1>3 DEF BlocksOK, PoolState
<1>5. PICK r : r = [q EXCEPT !.suspend_thread_count = c]
  OBVIOUS
<1>6. pool' = [pool EXCEPT ![p] = r] /\ used' = [used EXCEPT ![p] = u] /\ q.block_free_count = 0
  BY <1>1, <1>5 DEF MpWaited, MpInv, MpTypeOK
<1>7. /\ BlocksOK(r, u) /\ r.block_free_count = q.block_free_count
      /\ r.suspend_thread_count = c
  BY ONLY <1>3, <1>4, <1>5, WaiterCounted
<1>8. Matched(r.block_free_count, p)'
  <2>1. r.block_free_count \in Int /\ r.block_free_count <= 0
    BY <1>6, <1>7
  <2>. QED BY <2>1, MatchedNone
<1>9. ASSUME InService(p)'
      PROVE  Counted(r.suspend_thread_count, p)'
  <2>1. Waiters(p)' = Waiters(p) \union {t} /\ t \notin Waiters(p)
    BY <1>2 DEF MpWaited, Enters, Joined
  <2>2. IsFiniteSet(Waiters(p)) /\ Cardinality(Waiters(p)) \in Nat
    BY <1>2, WaitersFinite
  <2>3. Cardinality(Waiters(p)') = Cardinality(Waiters(p)) + 1
    BY <2>1, <2>2, FS_AddElement
  <2>4. Counted(q.suspend_thread_count, p)
    BY <1>3, <1>9 DEF Lasts, Sound
  <2>5. Cardinality(Waiters(p)') <= c
    BY <1>1, <1>4, <2>2, <2>3, <2>4 DEF Counted
  <2>. QED BY <1>7, <2>5 DEF Counted
<1>10. Sound(r, p)'
  BY <1>8, <1>9 DEF Sound
<1>. QED BY <1>2, <1>6, <1>7, <1>10, MpInvAgain

\* rt_mp_detach counts down without looking, but then the pool is out of
\* service.
LEMMA MpLostKeeps ==
    ASSUME SvcInv, MpInv, Lasts, NEW p \in Pools, MpLost(p)
    PROVE  MpInv'
<1>1. PICK q, u, c : q = pool[p] /\ u = used[p] /\ c = q.suspend_thread_count - 1
  OBVIOUS
<1>2. p \in {p} /\ Foot({p})
  <2>1. MpDid(p) /\ p \in {p}
    BY DEF MpDid
  <2>. QED BY <2>1, MpActs, FootOK
<1>3. BlocksOK(q, u)
  BY <1>1 DEF MpInv
<1>4. c \in Int
  BY <1>1, <1>3 DEF BlocksOK, PoolState
<1>5. PICK r : r = [q EXCEPT !.suspend_thread_count = c]
  OBVIOUS
<1>6. pool' = [pool EXCEPT ![p] = r] /\ used' = [used EXCEPT ![p] = u]
  BY <1>1, <1>5 DEF MpLost, MpInv, MpTypeOK
<1>7. BlocksOK(r, u)
  BY ONLY <1>3, <1>4, <1>5, WaiterCounted
<1>8. Sound(r, p)'
  BY DEF MpLost, Lasts, Sound
<1>. QED BY <1>2, <1>6, <1>7, <1>8, MpInvAgain

LEMMA MpFreedKeeps ==
    ASSUME SvcInv, MpInv, Lasts, NEW p \in Pools, NEW b \in 1 .. Blocks, MpFreed(p, b)
    PROVE  MpInv'
<1>1. PICK q, u, n, x : q = pool[p] /\ u = used[p] /\ n = q.suspend_thread_count /\ x = b
  OBVIOUS
<1>2. p \in WaitLists /\ p \in {p} /\ Foot({p})
  <2>1. MpDid(p) /\ p \in {p}
    BY DEF MpDid
  <2>. QED BY <2>1, MemPoolAssumption, MpActs, FootOK
<1>3. BlocksOK(q, u) /\ Sound(q, p) /\ n \in Int
  BY <1>1 DEF MpInv, BlocksOK, PoolState
<1>4. PICK c : c = IF n # 0 THEN n - 1 ELSE n
  OBVIOUS
<1>5. PICK r, l, m : /\ r = PoolWith(q, m, l, c)
                     /\ l = Cons(x, q.block_list) /\ m = q.block_free_count + 1
  OBVIOUS
<1>6. pool' = [pool EXCEPT ![p] = r] /\ used' = [used EXCEPT ![p] = u \ {x}] /\ x \in u
  BY <1>1, <1>4, <1>5 DEF MpFreed, PutBack, PoolWith
<1>7. /\ BlocksOK(r, u \ {x}) /\ r.block_free_count = m /\ r.suspend_thread_count = c
  <2>1. BlocksOK(q, u) /\ x \in u /\ c \in Int
    BY <1>3, <1>4, <1>6
  <2>2. r = PoolWith(q, q.block_free_count + 1, Cons(x, q.block_list), c)
    BY ONLY <1>5
  <2>3. /\ BlocksOK(r, u \ {x}) /\ r.block_free_count = q.block_free_count + 1
        /\ r.suspend_thread_count = c
    BY ONLY <2>1, <2>2, BlockFreed
  <2>. QED BY ONLY <1>5, <2>3
<1>8. IsFiniteSet(Waiters(p)) /\ Cardinality(Waiters(p)) \in Nat
  BY <1>2, WaitersFinite
<1>9. q.block_free_count \in Int /\ r.block_free_count \in Int
      /\ r.block_free_count <= q.block_free_count + 1
  BY <1>3, <1>5, <1>7 DEF BlocksOK, PoolState
<1>10. ASSUME InService(p)'
       PROVE  Matched(r.block_free_count, p)' /\ Counted(r.suspend_thread_count, p)'
  <2>1. Matched(q.block_free_count, p) /\ Counted(n, p)
    BY <1>1, <1>3, <1>10 DEF Lasts, Sound
  <2>2. n \in Nat
    BY <1>3, <1>8, <2>1 DEF Counted
  <2>3. Offered({}, p) /\ Cardinality(Waiters(p)') <= c
    <3>1. CASE n = 0
      <4>1. Kept({}) /\ c = 0
        BY <1>1, <1>4, <3>1 DEF MpFreed
      <4>2. Cardinality(Waiters(p)) = 0
        BY <1>8, <2>1, <3>1 DEF Counted
      <4>3. Waiters(p) = {}
        BY <1>8, <4>2, FS_EmptySet
      <4>4. Waiters(p)' = Waiters(p)
        BY <1>2, <4>1 DEF Kept
      <4>. QED BY <4>1, <4>2, <4>3, <4>4 DEF Offered
    <3>2. CASE n # 0
      <4>1. Offered({}, p) /\ c = n - 1 /\ c \in Nat
        BY <1>1, <1>4, <2>2, <3>2 DEF MpFreed
      <4>2. CASE Waiters(p) = {} /\ Kept({})
        <5>1. Waiters(p)' = {}
          BY <1>2, <4>2 DEF Kept
        <5>. QED BY <4>1, <5>1, FS_EmptySet
      <4>3. CASE Woke({}, p)
        <5>1. PICK y \in Waiters(p) : Waiters(p)' = Waiters(p) \ {y}
          BY <1>2, <4>3 DEF Woke
        <5>2. Cardinality(Waiters(p)') = Cardinality(Waiters(p)) - 1
          BY <1>8, <5>1, FS_RemoveElement
        <5>. QED BY <1>8, <2>1, <2>2, <4>1, <5>2 DEF Counted
      <4>. QED BY <4>1, <4>2, <4>3 DEF Offered
    <3>. QED BY <3>1, <3>2
  <2>4. Matched(r.block_free_count, p)'
    BY ONLY <1>2, <1>9, <2>1, <2>3, MatchedOffer
  <2>5. Counted(r.suspend_thread_count, p)'
    BY <1>7, <2>3 DEF Counted
  <2>. QED BY <2>4, <2>5
<1>11. Sound(r, p)'
  BY <1>10 DEF Sound
<1>. QED BY <1>2, <1>6, <1>7, <1>11, MpInvAgain

\* A step on other lists.
LEMMA MpFrame ==
    ASSUME SvcInv, MpInv, Lasts, NEW A, Foot(A), A \intersect Pools = {}, UNCHANGED mpVars
    PROVE  MpInv'
<1>1. pool' = pool /\ used' = used
  BY DEF mpVars
<1>2. ASSUME NEW x \in Pools
      PROVE  BlocksOK(pool[x], used[x])' /\ Sound(pool[x], x)'
  <2>1. PICK q, u : q = pool[x] /\ u = used[x]
    OBVIOUS
  <2>2. pool'[x] = q /\ used'[x] = u
    BY <1>1, <2>1
  <2>3. BlocksOK(q, u) /\ Sound(q, x)
    BY <2>1 DEF MpInv
  <2>4. x \in WaitLists \ A
    BY MemPoolAssumption
  <2>5. Waiters(x)' \subseteq Waiters(x) /\ Takers(x)' = Takers(x)
    BY <2>4 DEF Foot
  <2>6. Sound(q, x)'
    BY <2>3, <2>5, SoundStill
  <2>7. BlocksOK(pool[x], used[x])'
    BY <2>2, <2>3 DEF BlocksOK
  <2>. QED BY <2>2, <2>6, <2>7 DEF Sound, Matched, Counted
<1>3. MpTypeOK'
  BY <1>1 DEF MpInv, MpTypeOK
<1>. QED BY <1>2, <1>3 DEF MpInv

LEMMA MpKeep ==
    ASSUME SvcInv, MpInv, Lasts, NEW p \in Pools, MpDid(p)
    PROVE  MpInv'
<1>1. ASSUME UNCHANGED mpVars, Kept({})
      PROVE  MpInv'
  <2>1. Foot({})
    BY <1>1 DEF Kept, Foot
  <2>. QED BY <1>1, <2>1, MpFrame
<1>2. ASSUME NEW t, MpGaveUp(p, t)
      PROVE  MpInv'
  <2>1. PICK q, u : q = pool[p] /\ u = used[p]
    OBVIOUS
  <2>2. p \in WaitLists /\ p \in {p} /\ Foot({p})
    BY MemPoolAssumption, MpActs, FootOK
  <2>3. BlocksOK(q, u) /\ Sound(q, p)
    BY <2>1 DEF MpInv
  <2>4. pool' = [pool EXCEPT ![p] = q] /\ used' = [used EXCEPT ![p] = u]
        /\ q.block_free_count = 0
    BY <1>2, <2>1 DEF MpGaveUp, MpInv, MpTypeOK, mpVars
  <2>5. Matched(q.block_free_count, p)'
    <3>1. q.block_free_count \in Int /\ q.block_free_count <= 0
      BY <2>4
    <3>. QED BY <3>1, MatchedNone
  <2>6. InService(p)' => Counted(q.suspend_thread_count, p)'
    BY <1>2, <2>2, <2>3 DEF Counted, MpGaveUp, Quits, Kept, Lasts, Sound
  <2>7. Sound(q, p)'
    BY <2>5, <2>6 DEF Sound
  <2>. QED BY <2>2, <2>3, <2>4, <2>7, MpInvAgain
<1>. QED BY <1>1, <1>2, MpTookKeeps, MpWaitedKeeps, MpLostKeeps, MpFreedKeeps DEF MpDid

LEMMA MpInit_Inv ==
    ASSUME Init
    PROVE  MpTypeOK /\ \A p \in Pools : BlocksOK(pool[p], used[p])
<1>. DEFINE l == [i \in 1 .. Blocks |-> i]
<1>1. /\ pool = [p \in Pools |-> [block_list |-> l, block_free_count |-> Blocks,
                                  suspend_thread_count |-> 0]]
      /\ used = [p \in Pools |-> {}]
  BY DEF Init, MpInit
<1>2. Blocks \in Nat
  BY MemPoolAssumption
<1>3. l \in Seq(1 .. Blocks) /\ Len(l) = Blocks
  BY <1>2
<1>4. IsInjective(l) /\ ToSet(l) = 1 .. Blocks
  BY <1>2 DEF IsInjective, ToSet
<1>. HIDE DEF l
<1>5. PICK q : q = [block_list |-> l, block_free_count |-> Blocks, suspend_thread_count |-> 0]
  OBVIOUS
<1>6. q \in PoolState /\ BlocksOK(q, {})
  BY <1>2, <1>3, <1>4, <1>5 DEF PoolState, BlocksOK
<1>7. \A p \in Pools : pool[p] = q /\ used[p] = {}
  BY <1>1, <1>5
<1>8. pool = [p \in Pools |-> q]
  BY <1>1, <1>5
<1>. QED BY <1>1, <1>6, <1>7, <1>8 DEF MpTypeOK


-----------------------------------------------------------------------------
(* What all services share.                                                *)

LEMMA CommonDid ==
    ASSUME SvcInv, NEW t \in Threads, CommonStep(t)
    PROVE  Kept({})
<1>1. ASSUME NEW p \in {"run", "ret_sched", "det_object", "sleep_sched", "slept"}, At(t, p),
             p # "run" \/ t \in Users
      PROVE  /\ t # Idle /\ pc[t] = p /\ k.cur = t /\ p \notin SvcLocked
             /\ (p # "sleep_sched" => p \notin SvcSched)
             /\ \A q \in {"run", "ret_sched", "det_object", "sleep_sched", "slept"},
                   o \in {arg[t], None} : /\ Fits(t, q, o)
                                          /\ q \notin WaitPlaces /\ q \notin SvcLocked
             /\ \A v \in WaitLists : t \notin Takers(v)
  <2>1. Fits(t, p, arg[t]) /\ pc[t] = p /\ k.cur = t
    BY <1>1, AtFits
  <2>2. p \notin WaitPlaces /\ p \notin SvcLocked
        /\ (p # "sleep_sched" => p \notin SvcSched)
    BY DEF WaitPlaces, SvcLocked, SvcSched
  <2>3. t # Idle
    BY <1>1, <2>1, <2>2, IpcAssumption DEF Fits
  <2>4. arg[t] \in Objects \union {None} /\ None \in Objects \union {None}
    BY <2>1 DEF Fits
  <2>5. \A v \in WaitLists : t \notin Takers(v)
    BY <2>1, <2>2, NotTaker
  <2>. QED BY <2>1, <2>2, <2>3, <2>4, <2>5, CommonFits
<1>2. ASSUME NEW p \in {"ret_sched", "sleep_sched"}, NEW q \in {"run", "slept"}, Resched(t, p, q)
      PROVE  Kept({})
  <2>1. At(t, p)
    BY <1>2 DEF Resched
  <2>2. Fits(t, q, arg[t]) /\ q \notin SvcLocked /\ p \notin SvcLocked
    BY <1>1, <2>1
  <2>3. \A v : Waits(q, arg[t], v) <=> Waits(p, arg[t], v)
    BY DEF Waits
  <2>. QED BY <1>2, <2>2, <2>3, ReschedStepOK
<1>3. CASE DetachObject(t)
  <2>1. At(t, "det_object") /\ k' = k
    BY <1>3 DEF DetachObject
  <2>2. Goes(t, "run", None)
    BY <1>3 DEF DetachObject, Return, Go, Goes
  <2>3. /\ k.cur = t /\ pc[t] \notin SvcSched /\ pc[t] \notin SvcLocked
        /\ Fits(t, "run", None) /\ "run" \notin WaitPlaces /\ "run" \notin SvcLocked
        /\ \A v \in WaitLists : t \notin Takers(v)
    BY <1>1, <2>1
  <2>. QED BY <2>1, <2>2, <2>3, StepOK, KeptNone
<1>4. CASE rt_thread_sleep(t)
  <2>1. /\ At(t, "run") /\ t \in Users /\ Go(t, "sleep_sched") /\ UNCHANGED <<isr, arg, alive>>
        /\ k' = StartTimer(rt_thread_suspend(k, t), t, "finite")
    BY <1>4 DEF rt_thread_sleep
  <2>2. Goes(t, "sleep_sched", arg[t])
    BY <2>1, GoGoes
  <2>3. /\ k.cur = t /\ t # Idle /\ pc[t] \notin SvcSched /\ pc[t] \notin SvcLocked
        /\ Fits(t, "sleep_sched", arg[t]) /\ "sleep_sched" \notin WaitPlaces
        /\ \A v \in WaitLists : t \notin Takers(v)
    BY <1>1, <2>1
  <2>4. "sleep_sched" \in SvcSched
    BY DEF SvcSched
  <2>. QED BY <2>1, <2>2, <2>3, <2>4, SleepOK, KeptNone
<1>5. CASE SleepReturn(t)
  <2>1. At(t, "slept") /\ Go(t, "run") /\ UNCHANGED <<isr, arg, alive>>
    BY <1>5 DEF SleepReturn
  <2>2. Goes(t, "run", arg[t])
    BY <2>1, GoGoes
  <2>3. /\ k.cur = t /\ pc[t] \notin SvcSched /\ pc[t] \notin SvcLocked
        /\ Fits(t, "run", arg[t]) /\ "run" \notin WaitPlaces /\ "run" \notin SvcLocked
        /\ \A v \in WaitLists : t \notin Takers(v)
    BY <1>1, <2>1
  <2>4. k' = [k EXCEPT !.err[t] = "EOK"] \/ k' = k
    BY <1>5 DEF SleepReturn, ResetError
  <2>5. "EOK" \in Errno
    BY DEF Errno
  <2>. QED BY <2>2, <2>3, <2>4, <2>5, StepOK, ErrorOK, KeptNone
<1>. QED BY <1>2, <1>3, <1>4, <1>5 DEF CommonStep, SleepSteps


-----------------------------------------------------------------------------
(* A pool that a thread began to detach stays out of service, whatever     *)
(* step the system takes: only that thread leaves the places of detach.    *)

Closing == {"mpd_test", "mpd_wake", "det_object"}

\* Thread t, which detaches no pool, goes on with its call or begins one.
Turned(t) ==
    /\ pc[t] \notin Closing
    /\ pc' = pc \/ \E p : Go(t, p)
    /\ arg' = arg \/ \E o : arg' = [arg EXCEPT ![t] = o]
    /\ alive' = alive

LEMMA TurnedLasts ==
    ASSUME SvcInv, NEW t \in Threads, Turned(t)
    PROVE  Lasts
<1>. SUFFICES ASSUME NEW p \in Pools, ~InService(p)
              PROVE  ~InService(p)'
  BY DEF Lasts
<1>1. CASE p \notin alive
  BY <1>1 DEF Turned, InService
<1>2. ASSUME NEW u \in Threads, arg[u] = p, pc[u] \in Closing
      PROVE  ~InService(p)'
  <2>1. u # t
    BY <1>2 DEF Turned
  <2>2. pc'[u] = pc[u] /\ arg'[u] = arg[u]
    BY <2>1 DEF Turned, Go, SvcInv
  <2>. QED BY <1>2, <2>2 DEF InService, Closing
<1>. QED BY <1>1, <1>2 DEF InService, Closing

\* The ways in which a call goes on from a place p.
LEMMA WaysTurn ==
    ASSUME NEW t, NEW p, At(t, p), p \notin Closing, alive' = alive,
           \/ \E q : Go(t, q) /\ arg' = arg
           \/ \E o, q : Proceed(t, o, q)
           \/ \E q : LeaveVia(t, q)
           \/ Return(t) \/ Leave(t) \/ Failed(t)
           \/ \E w : WakeAndLeave(t, w)
           \/ \E time : TimedOut(t, time)
           \/ \E o, w, flag, time, v, q : Block(t, o, w, flag, time, v, q)
           \/ UNCHANGED <<pc, arg>>
    PROVE  Turned(t)
<1>1. pc[t] \notin Closing
  BY DEF At
<1>2. \/ \E q : Go(t, q) /\ arg' = arg
      \/ \E o, q : Proceed(t, o, q)
      \/ UNCHANGED <<pc, arg>>
  <2>1. \A q : LeaveVia(t, q) => Proceed(t, None, q)
    BY DEF LeaveVia
  <2>2. Leave(t) => Proceed(t, None, "run")
    BY <2>1 DEF Leave
  <2>3. (\E w : WakeAndLeave(t, w)) => Leave(t) \/ LeaveVia(t, "ret_sched")
    BY DEF WakeAndLeave
  <2>4. Failed(t) \/ (\E time : TimedOut(t, time)) => Leave(t)
    BY DEF Failed, TimedOut
  <2>5. Return(t) => Proceed(t, None, "run")
    BY DEF Return, Proceed
  <2>6. \A o, w, flag, time, v, q : Block(t, o, w, flag, time, v, q) => Proceed(t, o, q)
    BY DEF Block
  <2>. QED BY <2>1, <2>2, <2>3, <2>4, <2>5, <2>6
<1>. QED BY <1>1, <1>2 DEF Turned, Proceed

LEMMA CallTurns ==
    ASSUME NEW t, NEW o, Calls(t, o), alive' = alive,
           \/ \E q : Go(t, q) /\ arg' = arg
           \/ \E x, q : Proceed(t, x, q)
           \/ \E q : LeaveVia(t, q)
           \/ Return(t) \/ Leave(t)
           \/ \E w : WakeAndLeave(t, w)
           \/ \E time : TimedOut(t, time)
           \/ \E x, w, flag, time, v, q : Block(t, x, w, flag, time, v, q)
           \/ UNCHANGED <<pc, arg>>
    PROVE  Turned(t)
<1>1. At(t, "run") /\ "run" \notin Closing
  BY DEF Calls, Closing
<1>. QED BY <1>1, WaysTurn

LEMMA DetachTurns ==
    ASSUME NEW t, NEW o, NEW p, DetachCall(t, o, p)
    PROVE  Turned(t)
BY CallTurns DEF DetachCall

LEMMA ReschedTurns ==
    ASSUME NEW t, NEW p, NEW q, p \notin Closing, Resched(t, p, q)
    PROVE  Turned(t)
<1>1. At(t, p) /\ alive' = alive /\ arg' = arg /\ \E x : Go(t, x)
  BY DEF Resched
<1>. QED BY <1>1, WaysTurn

LEMMA TestTurns ==
    ASSUME NEW t, NEW w, NEW p, NEW q, NEW r, p \notin Closing,
           ResumeAllTest(t, w, p, q, r)
    PROVE  Turned(t)
<1>1. At(t, p) /\ alive' = alive /\ arg' = arg /\ \E x : Go(t, x)
  BY DEF ResumeAllTest
<1>. QED BY <1>1, WaysTurn

LEMMA WakeTurns ==
    ASSUME NEW t, NEW w, NEW p, NEW q, p \notin Closing, ResumeAllWake(t, w, p, q)
    PROVE  Turned(t)
<1>1. At(t, p) /\ alive' = alive /\ arg' = arg /\ \E x : Go(t, x)
  BY DEF ResumeAllWake
<1>. QED BY <1>1, WaysTurn

LEMMA StillLasts ==
    ASSUME UNCHANGED <<pc, arg, alive>>
    PROVE  Lasts
BY DEF Lasts, InService

LEMMA MailLasts ==
    ASSUME SvcInv, MailNext
    PROVE  Lasts
<1>1. CASE MailIsr
  BY <1>1, StillLasts DEF MailIsr, IsrSendMail
<1>2. ASSUME NEW t, NEW b, NEW v, NEW time,
             SendTurn(t, b, v, time) \/ Collect(t, b) \/ RecvBlock(t, b, time)
      PROVE  \/ \E o, q : Proceed(t, o, q)
             \/ \E w : WakeAndLeave(t, w)
             \/ Leave(t)
             \/ \E o, w, flag, x, y, q : Block(t, o, w, flag, x, y, q)
  BY <1>2 DEF SendTurn, SendMail, SendBlock, SendFull, Collect, RecvBlock
<1>3. ASSUME NEW t \in Threads, MailCall(t)
      PROVE  Turned(t)
  <2>1. PICK b \in Mailboxes :
           \/ \E v \in Mails, time \in MbTimes : rt_mb_send_wait(t, b, v, time)
           \/ \E time \in MbTimes : rt_mb_recv(t, b, time)
           \/ rt_mb_control(t, b)
           \/ rt_mb_detach(t, b)
    BY <1>3 DEF MailCall
  <2>2. CASE rt_mb_detach(t, b)
    BY <2>2, DetachTurns DEF rt_mb_detach
  <2>3. CASE rt_mb_control(t, b)
    BY <2>3, CallTurns DEF rt_mb_control
  <2>4. CASE \/ \E v \in Mails, time \in MbTimes : rt_mb_send_wait(t, b, v, time)
             \/ \E time \in MbTimes : rt_mb_recv(t, b, time)
    <3>1. /\ Calls(t, b) /\ alive' = alive
          /\ \/ \E v, time : SendTurn(t, b, v, time) \/ Collect(t, b) \/ RecvBlock(t, b, time)
             \/ Leave(t)
      BY <2>4 DEF rt_mb_send_wait, rt_mb_recv
    <3>. QED BY <1>2, <3>1, CallTurns
  <2>. QED BY <2>1, <2>2, <2>3, <2>4
<1>4. ASSUME NEW t \in Threads, MailStep(t)
      PROVE  Turned(t)
  <2>1. CASE SendWoken(t) \/ RecvWoken(t) \/ RecvReturn(t)
    <3>1. PICK p \in {"mbs_woken", "mbr_woken", "mb_got"} : At(t, p) /\ alive' = alive
      BY <2>1 DEF SendWoken, RecvWoken, RecvReturn
    <3>2. \/ \E v, time : \/ SendTurn(t, arg[t], v, time) \/ Collect(t, arg[t])
                          \/ RecvBlock(t, arg[t], time) \/ TimedOut(t, time)
          \/ Failed(t) \/ Leave(t)
      BY <2>1 DEF SendWoken, RecvWoken, RecvReturn
    <3>3. p \notin Closing
      BY DEF Closing
    <3>. QED BY <1>2, <3>1, <3>2, <3>3, WaysTurn
  <2>2. CASE \/ Resched(t, "mbs_sched", "mbs_woken") \/ Resched(t, "mbr_sched", "mbr_woken")
             \/ Resched(t, "mb_got_sched", "mb_got")
    BY <2>2, ReschedTurns DEF Closing
  <2>3. CASE MailDetachSteps(t)
    <3>1. CASE ResumeAllTest(t, arg[t], "mbd_test", "mbd_wake", "mbd_test2")
      BY <3>1, TestTurns DEF Closing
    <3>2. CASE ResumeAllWake(t, arg[t], "mbd_wake", "mbd_test")
      BY <3>2, WakeTurns DEF Closing
    <3>3. CASE ResumeAllTest(t, suspend_sender_thread(arg[t]), "mbd_test2", "mbd_wake2",
                             "det_object")
      BY <3>3, TestTurns DEF Closing
    <3>4. CASE ResumeAllWake(t, suspend_sender_thread(arg[t]), "mbd_wake2", "mbd_test2")
      BY <3>4, WakeTurns DEF Closing
    <3>. QED BY <2>3, <3>1, <3>2, <3>3, <3>4 DEF MailDetachSteps
  <2>. QED BY <1>4, <2>1, <2>2, <2>3 DEF MailStep
<1>. QED BY <1>1, <1>3, <1>4, TurnedLasts DEF MailNext

LEMMA MqLasts ==
    ASSUME SvcInv, MqNext
    PROVE  Lasts
<1>1. CASE MqIsr
  BY <1>1, StillLasts DEF MqIsr, IsrSendMessage
<1>2. ASSUME NEW t \in Threads, MqCall(t)
      PROVE  Turned(t)
  <2>1. PICK m \in Queues :
           \/ rt_mq_send(t, m) \/ rt_mq_urgent(t, m)
           \/ \E time \in MqTimes : rt_mq_recv(t, m, time)
           \/ rt_mq_control(t, m)
           \/ rt_mq_detach(t, m)
    BY <1>2 DEF MqCall
  <2>2. CASE rt_mq_detach(t, m)
    BY <2>2, DetachTurns DEF rt_mq_detach
  <2>3. CASE rt_mq_send(t, m) \/ rt_mq_urgent(t, m)
    BY <2>3, CallTurns DEF rt_mq_send, rt_mq_urgent, Allocate
  <2>4. CASE rt_mq_control(t, m)
    BY <2>4, CallTurns DEF rt_mq_control
  <2>5. CASE \E time \in MqTimes : rt_mq_recv(t, m, time)
    BY <2>5, CallTurns DEF rt_mq_recv, Dequeue, MqBlock
  <2>. QED BY <2>1, <2>2, <2>3, <2>4, <2>5
<1>3. ASSUME NEW t \in Threads, MqStep(t)
      PROVE  Turned(t)
  <2>1. CASE \E v \in Messages : SendLink(t, v) \/ UrgentLink(t, v)
    BY <2>1, WaysTurn DEF SendLink, UrgentLink, Closing
  <2>2. CASE MqWoken(t)
    <3>1. /\ At(t, "mqr_woken") /\ alive' = alive /\ "mqr_woken" \notin Closing
          /\ \/ Failed(t)
             \/ \E time : \/ Dequeue(t, arg[t]) \/ MqBlock(t, arg[t], time)
                          \/ TimedOut(t, time)
      BY <2>2 DEF MqWoken, Closing
    <3>2. CASE Failed(t) \/ \E time : TimedOut(t, time)
      BY <3>1, <3>2, WaysTurn
    <3>3. CASE Dequeue(t, arg[t])
      BY <3>1, <3>3, WaysTurn DEF Dequeue
    <3>4. CASE \E time : MqBlock(t, arg[t], time)
      BY <3>1, <3>4, WaysTurn DEF MqBlock
    <3>. QED BY <3>1, <3>2, <3>3, <3>4
  <2>3. CASE RecvFree(t)
    BY <2>3, WaysTurn DEF RecvFree, Closing
  <2>4. CASE Resched(t, "mqr_sched", "mqr_woken")
    BY <2>4, ReschedTurns DEF Closing
  <2>5. CASE MqDetachSteps(t)
    <3>1. CASE ResumeAllTest(t, arg[t], "mqd_test", "mqd_wake", "det_object")
      BY <3>1, TestTurns DEF Closing
    <3>2. CASE ResumeAllWake(t, arg[t], "mqd_wake", "mqd_test")
      BY <3>2, WakeTurns DEF Closing
    <3>. QED BY <2>5, <3>1, <3>2 DEF MqDetachSteps
  <2>. QED BY <1>3, <2>1, <2>2, <2>3, <2>4, <2>5 DEF MqStep
<1>. QED BY <1>1, <1>2, <1>3, TurnedLasts DEF MqNext

LEMMA EvLasts ==
    ASSUME SvcInv, EvNext
    PROVE  Lasts
<1>1. CASE EvIsr
  BY <1>1, StillLasts DEF EvIsr, IsrSendEvent
<1>2. ASSUME NEW t \in Threads, EvCall(t)
      PROVE  Turned(t)
  <2>1. PICK e \in Events :
           \/ \E bits \in EvSends : rt_event_send(t, e, bits)
           \/ \E ask \in EvAsks, time \in EvTimes : rt_event_recv(t, e, ask, time)
           \/ rt_event_control(t, e)
           \/ rt_event_detach(t, e)
    BY <1>2 DEF EvCall
  <2>2. CASE rt_event_detach(t, e)
    BY <2>2, DetachTurns DEF rt_event_detach
  <2>3. CASE \E bits \in EvSends : rt_event_send(t, e, bits)
    BY <2>3, CallTurns DEF rt_event_send
  <2>4. CASE \E ask \in EvAsks, time \in EvTimes : rt_event_recv(t, e, ask, time)
    BY <2>4, CallTurns DEF rt_event_recv, RecvNow, RecvNothing, EvBlock
  <2>5. CASE rt_event_control(t, e)
    BY <2>5, CallTurns DEF rt_event_control
  <2>. QED BY <2>1, <2>2, <2>3, <2>4, <2>5
<1>3. ASSUME NEW t \in Threads, EvStep(t)
      PROVE  Turned(t)
  <2>1. CASE EvReturn(t)
    BY <2>1, WaysTurn DEF EvReturn, Closing
  <2>2. CASE Resched(t, "ev_sched", "ev_woken")
    BY <2>2, ReschedTurns DEF Closing
  <2>3. CASE EvDetachSteps(t)
    BY <2>3, TestTurns, WakeTurns DEF EvDetachSteps, Closing
  <2>. QED BY <1>3, <2>1, <2>2, <2>3 DEF EvStep
<1>. QED BY <1>1, <1>2, <1>3, TurnedLasts DEF EvNext

LEMMA CpLasts ==
    ASSUME SvcInv, CpNext
    PROVE  Lasts
<1>1. CASE CpIsr
  BY <1>1, StillLasts DEF CpIsr, IsrDone
<1>2. ASSUME NEW t \in Threads, CpCall(t)
      PROVE  Turned(t)
  BY <1>2, CallTurns
     DEF CpCall, rt_completion_wait, rt_completion_done, CpTake, CpFail, CpBlock
<1>3. ASSUME NEW t \in Threads, CpStep(t)
      PROVE  Turned(t)
  <2>1. CASE CpReturn(t)
    BY <2>1, WaysTurn DEF CpReturn, Closing
  <2>2. CASE DoneSet(t)
    BY <2>2, WaysTurn DEF DoneSet, Closing
  <2>3. CASE Resched(t, "cp_sched", "cp_woken")
    BY <2>3, ReschedTurns DEF Closing
  <2>. QED BY <1>3, <2>1, <2>2, <2>3 DEF CpStep
<1>. QED BY <1>1, <1>2, <1>3, TurnedLasts DEF CpNext

LEMMA DqLasts ==
    ASSUME SvcInv, DqNext
    PROVE  Lasts
<1>1. CASE DqIsr
  BY <1>1, StillLasts DEF DqIsr, IsrPush
<1>2. ASSUME NEW t, NEW d, NEW v, NEW time,
             Push(t, d, v) \/ PushBlock(t, d, v, time) \/ Pop(t, d) \/ PopBlock(t, d, time)
      PROVE  \/ \E o, q : Proceed(t, o, q)
             \/ \E w : WakeAndLeave(t, w)
             \/ \E o, w, flag, x, y, q : Block(t, o, w, flag, x, y, q)
  BY <1>2 DEF Push, PushBlock, Pop, PopBlock
<1>3. ASSUME NEW t \in Threads, DqCall(t)
      PROVE  Turned(t)
  <2>1. PICK d \in DataQueues :
           \/ \E v \in Data, time \in DqTimes : rt_data_queue_push(t, d, v, time)
           \/ \E time \in DqTimes : rt_data_queue_pop(t, d, time)
           \/ rt_data_queue_reset(t, d)
    BY <1>3 DEF DqCall
  <2>2. CASE rt_data_queue_reset(t, d)
    BY <2>2, CallTurns DEF rt_data_queue_reset
  <2>3. CASE \E v, time : rt_data_queue_push(t, d, v, time) \/ rt_data_queue_pop(t, d, time)
    <3>1. /\ Calls(t, d) /\ alive' = alive
          /\ \/ \E v, time : \/ Push(t, d, v) \/ PushBlock(t, d, v, time)
                             \/ Pop(t, d) \/ PopBlock(t, d, time)
             \/ Leave(t)
      BY <2>3 DEF rt_data_queue_push, rt_data_queue_pop
    <3>. QED BY <1>2, <3>1, CallTurns
  <2>. QED BY <2>1, <2>2, <2>3
<1>4. ASSUME NEW t \in Threads, DqStep(t)
      PROVE  Turned(t)
  <2>1. CASE PushWoken(t) \/ PopWoken(t) \/ PopReturn(t)
    <3>1. PICK p \in {"dqp_woken", "dqg_woken", "dq_got"} : At(t, p) /\ alive' = alive
      BY <2>1 DEF PushWoken, PopWoken, PopReturn
    <3>2. \/ \E v, time : \/ Push(t, arg[t], v) \/ PushBlock(t, arg[t], v, time)
                          \/ Pop(t, arg[t]) \/ PopBlock(t, arg[t], time)
          \/ Failed(t) \/ Leave(t)
      BY <2>1 DEF PushWoken, PopWoken, PopReturn
    <3>3. p \notin Closing
      BY DEF Closing
    <3>. QED BY <1>2, <3>1, <3>2, <3>3, WaysTurn
  <2>2. CASE \/ Resched(t, "dqp_sched", "dqp_woken") \/ Resched(t, "dqg_sched", "dqg_woken")
             \/ Resched(t, "dq_got_sched", "dq_got")
    BY <2>2, ReschedTurns DEF Closing
  <2>3. CASE DqResetSteps(t)
    <3>1. CASE ResetUnlock(t)
      BY <3>1, WaysTurn DEF ResetUnlock, Closing
    <3>2. CASE ResumeAllTest(t, suspended_pop_list(arg[t]), "dqx_test", "dqx_wake", "dqx_test2")
      BY <3>2, TestTurns DEF Closing
    <3>3. CASE ResumeAllWake(t, suspended_pop_list(arg[t]), "dqx_wake", "dqx_test")
      BY <3>3, WakeTurns DEF Closing
    <3>4. CASE ResumeAllTest(t, suspended_push_list(arg[t]), "dqx_test2", "dqx_wake2", "dqx_exit")
      BY <3>4, TestTurns DEF Closing
    <3>5. CASE ResumeAllWake(t, suspended_push_list(arg[t]), "dqx_wake2", "dqx_test2")
      BY <3>5, WakeTurns DEF Closing
    <3>6. CASE Resched(t, "dqx_sched", "ret_sched")
      BY <3>6, ReschedTurns DEF Closing
    <3>. QED BY <2>3, <3>1, <3>2, <3>3, <3>4, <3>5, <3>6 DEF DqResetSteps
  <2>. QED BY <1>4, <2>1, <2>2, <2>3 DEF DqStep
<1>. QED BY <1>1, <1>3, <1>4, TurnedLasts DEF DqNext

LEMMA MpLasts ==
    ASSUME SvcInv, MpNext
    PROVE  Lasts
<1>1. CASE MpIsr
  BY <1>1, StillLasts DEF MpIsr, IsrFree
<1>2. ASSUME NEW t, NEW p, NEW time, MpTurn(t, p, time)
      PROVE  Leave(t) \/ TimedOut(t, time) \/ Proceed(t, p, "mp_sched")
  BY <1>2 DEF MpTurn, Grant, MpBlock
<1>3. ASSUME NEW t \in Threads, MpCall(t)
      PROVE  Turned(t)
  <2>1. PICK p \in Pools :
           \/ \E time \in MpTimes : rt_mp_alloc(t, p, time)
           \/ \E b \in 1 .. Blocks : rt_mp_free(t, p, b)
           \/ rt_mp_detach(t, p)
    BY <1>3 DEF MpCall
  <2>2. CASE \E time \in MpTimes : rt_mp_alloc(t, p, time)
    BY <1>2, <2>2, CallTurns DEF rt_mp_alloc
  <2>3. CASE \E b \in 1 .. Blocks : rt_mp_free(t, p, b)
    BY <2>3, CallTurns DEF rt_mp_free
  <2>4. CASE rt_mp_detach(t, p)
    BY <2>4, DetachTurns DEF rt_mp_detach
  <2>. QED BY <2>1, <2>2, <2>3, <2>4
<1>4. ASSUME NEW t \in Threads, MpStep(t)
      PROVE  Lasts
  <2>1. CASE MpWoken(t)
    <3>1. Turned(t)
      BY <1>2, <2>1, WaysTurn DEF MpWoken, Closing
    <3>. QED BY <3>1, TurnedLasts
  <2>2. CASE Resched(t, "mp_sched", "mp_woken")
    <3>1. Turned(t)
      BY <2>2, ReschedTurns DEF Closing
    <3>. QED BY <3>1, TurnedLasts
  <2>3. CASE MpDetachSteps(t)
    <3>1. PICK q \in Closing : pc' = [pc EXCEPT ![t] = q] /\ UNCHANGED <<arg, alive>>
      BY <2>3 DEF MpDetachSteps, ResumeAllTest, ResumeAllWake, Go, Closing
    <3>2. \A u \in Threads : pc[u] \in Closing => pc'[u] \in Closing
      BY <3>1 DEF SvcInv
    <3>. QED BY <3>1, <3>2 DEF Lasts, InService, Closing
  <2>. QED BY <1>4, <2>1, <2>2, <2>3 DEF MpStep
<1>. QED BY <1>1, <1>3, <1>4, TurnedLasts DEF MpNext

LEMMA CommonLasts ==
    ASSUME SvcInv, NEW t \in Threads, CommonStep(t)
    PROVE  Lasts
<1>1. CASE DetachObject(t)
  <2>1. /\ pc' = [pc EXCEPT ![t] = "run"] /\ arg' = [arg EXCEPT ![t] = None]
        /\ alive' = alive \ {arg[t]}
    BY <1>1 DEF DetachObject, Return, Go
  <2>2. \A u \in Threads : u # t => pc'[u] = pc[u] /\ arg'[u] = arg[u]
    BY <2>1 DEF SvcInv
  <2>. QED BY <2>1, <2>2 DEF Lasts, InService
<1>2. CASE rt_thread_sleep(t) \/ SleepReturn(t)
  <2>1. Turned(t)
    BY <1>2, WaysTurn DEF rt_thread_sleep, SleepReturn, Closing
  <2>. QED BY <2>1, TurnedLasts
<1>3. CASE Resched(t, "ret_sched", "run") \/ Resched(t, "sleep_sched", "slept")
  <2>1. Turned(t)
    BY <1>3, ReschedTurns DEF Closing
  <2>. QED BY <2>1, TurnedLasts
<1>. QED BY <1>1, <1>2, <1>3 DEF CommonStep, SleepSteps

LEMMA NextLasts ==
    ASSUME SvcInv, [Next]_vars
    PROVE  Lasts
<1>1. CASE UNCHANGED vars \/ (Tick /\ UNCHANGED <<pc, arg, alive>> /\ Outside)
  BY <1>1, StillLasts DEF vars, core
<1>. QED BY <1>1, CommonLasts, MailLasts, MqLasts, EvLasts, MpLasts, CpLasts, DqLasts DEF Next

-----------------------------------------------------------------------------
(* All services together.                                                  *)

\* The inductive invariant: the kernel is consistent and, service by service,
\* what the control block says agrees with who waits and who was served.
IInv == SvcInv /\ MailInv /\ MqInv /\ EvInv /\ MpInv /\ CpInv

\* The services use lists of their own.
LEMMA ListsApart ==
    /\ MailLists \intersect Events = {} /\ MailLists \intersect Pools = {}
    /\ MailLists \intersect Completions = {} /\ MailLists \intersect DqLists = {}
    /\ MailLists \intersect Queues = {}
    /\ DqLists \intersect Events = {} /\ DqLists \intersect Pools = {}
    /\ DqLists \intersect Completions = {} /\ DqLists \intersect Queues = {}
    /\ Queues \intersect Events = {} /\ Queues \intersect Pools = {}
    /\ Queues \intersect Completions = {}
    /\ Events \intersect Pools = {} /\ Events \intersect Completions = {}
    /\ Pools \intersect Completions = {}
<1>1. /\ Mailboxes \subseteq Objects /\ Queues \subseteq Objects /\ Events \subseteq Objects
      /\ Pools \subseteq Objects /\ Completions \subseteq Objects
      /\ DataQueues \subseteq Objects
  BY MailboxAssumption, MessageQueueAssumption, EventAssumption, MemPoolAssumption,
     CompletionAssumption, DataQueueAssumption
<1>2. /\ Queues \intersect Events = {} /\ Queues \intersect Pools = {}
      /\ Queues \intersect Completions = {}
      /\ Events \intersect Pools = {} /\ Events \intersect Completions = {}
      /\ Pools \intersect Completions = {}
  BY OneKind
<1>3. ASSUME NEW x \in MailLists
      PROVE  x \in Mailboxes \/ \E b \in Mailboxes : x = <<b, "send">>
  BY DEF MailLists, suspend_sender_thread
<1>4. ASSUME NEW x \in DqLists
      PROVE  \E d \in DataQueues : x = <<d, "pop">> \/ x = <<d, "push">>
  BY DEF DqLists, suspended_pop_list, suspended_push_list
<1>5. \A o \in Objects, x \in Objects :
         o # <<x, "send">> /\ o # <<x, "push">> /\ o # <<x, "pop">>
  BY KindsApart
<1>6. ASSUME NEW x \in Objects
      PROVE  x \notin DqLists /\ (x \in MailLists => x \in Mailboxes)
  BY <1>1, <1>3, <1>4, <1>5
<1>7. MailLists \intersect DqLists = {}
  <2>. SUFFICES ASSUME NEW x \in MailLists, x \in DqLists PROVE FALSE
    OBVIOUS
  <2>1. x \notin Mailboxes
    BY <1>1, <1>6
  <2>2. PICK b \in Mailboxes : x = <<b, "send">>
    BY <1>3, <2>1
  <2>3. PICK d \in DataQueues : x = <<d, "pop">> \/ x = <<d, "push">>
    BY <1>4
  <2>. QED BY <2>2, <2>3
<1>8. ASSUME NEW x \in Objects
      PROVE  x \in MailLists => /\ x \notin Queues /\ x \notin Events /\ x \notin Pools
                                /\ x \notin Completions
  BY <1>6, OneKind
<1>. QED BY <1>1, <1>2, <1>6, <1>7, <1>8

\* What a step of the system may be.
OthersStill == UNCHANGED <<mb, mq, evVars, mpVars, completed, dqVars>>

LEMMA StepIs ==
    ASSUME SvcInv, EvShape, [Next]_vars
    PROVE  \/ OthersStill /\ Foot({})
           \/ /\ Foot(MailLists) /\ \E b \in Mailboxes : MailDid(b)
              /\ UNCHANGED <<mq, evVars, mpVars, completed, dqVars>>
           \/ /\ Foot(Queues) /\ \E m \in Queues : MqDid(m)
              /\ UNCHANGED <<mb, evVars, mpVars, completed, dqVars>>
           \/ /\ Foot(Events) /\ \E e \in Events : EvDid(e)
              /\ UNCHANGED <<mb, mq, mpVars, completed, dqVars>>
           \/ /\ Foot(Pools) /\ \E p \in Pools : MpDid(p)
              /\ UNCHANGED <<mb, mq, evVars, completed, dqVars>>
           \/ /\ Foot(Completions) /\ \E c \in Completions : CpDid(c)
              /\ UNCHANGED <<mb, mq, evVars, mpVars, dqVars>>
           \/ /\ Foot(DqLists) /\ \E d \in DataQueues : DqDid(d)
              /\ UNCHANGED <<mb, mq, evVars, mpVars, completed>>
<1>1. ASSUME Kept({})
      PROVE  Foot({})
  BY <1>1 DEF Kept, Foot
<1>2. CASE UNCHANGED vars
  <2>1. UNCHANGED <<k, isr, pc, arg, alive>> /\ OthersStill
    BY <1>2 DEF vars, core, OthersStill
  <2>. QED BY <1>1, <2>1, StillOK
<1>3. CASE Tick /\ UNCHANGED <<pc, arg, alive>> /\ Outside
  <2>1. OthersStill /\ Foot({})
    BY <1>3, TickOK DEF Outside, OthersStill, Timed, Foot
  <2>. QED BY <2>1
<1>4. CASE (\E t \in Threads : CommonStep(t)) /\ Outside
  <2>1. OthersStill
    BY <1>4 DEF Outside, OthersStill
  <2>. QED BY <1>1, <1>4, <2>1, CommonDid
<1>5. CASE MailNext /\ UNCHANGED <<mq, evVars, mpVars, completed, dqVars>>
  <2>1. PICK b \in Mailboxes : MailDid(b)
    BY <1>5, MailNextDid
  <2>2. Foot(MailLists)
    BY <2>1, MailActs, FootOK
  <2>. QED BY <1>5, <2>1, <2>2
<1>6. CASE MqNext /\ UNCHANGED <<mb, evVars, mpVars, completed, dqVars>>
  <2>1. PICK m \in Queues : MqDid(m)
    BY <1>6, MqNextDid
  <2>2. Foot(Queues)
    BY <2>1, MqActs, FootOK
  <2>. QED BY <1>6, <2>1, <2>2
<1>7. CASE EvNext /\ UNCHANGED <<retry, mb, mq, mpVars, completed, dqVars>>
  <2>1. PICK e \in Events : EvDid(e)
    BY <1>7, EvNextDid
  <2>2. Foot(Events)
    BY <2>1, EvActs, FootOK
  <2>. QED BY <1>7, <2>1, <2>2
<1>8. CASE MpNext /\ UNCHANGED <<mb, mq, evVars, completed, dqVars>>
  <2>1. PICK p \in Pools : MpDid(p)
    BY <1>8, MpNextDid
  <2>2. Foot(Pools)
    BY <2>1, MpActs, FootOK
  <2>. QED BY <1>8, <2>1, <2>2
<1>9. CASE CpNext /\ UNCHANGED <<retry, mb, mq, evVars, mpVars, dqVars>>
  <2>1. PICK c \in Completions : CpDid(c)
    BY <1>9, CpNextDid
  <2>2. Foot(Completions)
    BY <2>1, CpActs, FootOK
  <2>. QED BY <1>9, <2>1, <2>2
<1>10. CASE DqNext /\ UNCHANGED <<mb, mq, evVars, mpVars, completed>>
  <2>1. CASE DqStill
    <3>1. Foot({}) /\ OthersStill
      BY <1>10, <2>1 DEF DqStill, Dropped, Foot, OthersStill
    <3>. QED BY <3>1
  <2>2. ASSUME NEW d \in DataQueues, DqDid(d)
        PROVE  Foot(DqLists)
    <3>1. suspended_pop_list(d) \in DqLists /\ suspended_push_list(d) \in DqLists
      BY DEF DqLists
    <3>. QED BY <2>2, <3>1, DqActs, FootOK
  <2>. QED BY <1>10, <2>1, <2>2, DqNextDid
<1>. QED BY <1>2, <1>3, <1>4, <1>5, <1>6, <1>7, <1>8, <1>9, <1>10 DEF Next

\* Slots change hands in steps of the message queue only.
LEMMA HandsAre ==
    ASSUME SvcInv, ItemShape, [Next]_vars
    PROVE  (HandsStill /\ mq' = mq) \/ \E m \in Queues : MqMoves(m)
<1>. /\ \A H : MqHold \subseteq H /\ Steady(H) => HandsStill
     /\ MqHold \subseteq Laden /\ MqHold \subseteq BesideMail /\ MqHold \subseteq BesideDq
  BY SteadyHands DEF Laden, BesideMail, BesideDq
<1>1. CASE UNCHANGED vars
  BY <1>1, SameHands DEF vars, core, retry
<1>2. CASE Tick /\ UNCHANGED <<pc, arg, alive>> /\ Outside
  BY <1>2, SameHands DEF Outside, retry
<1>3. CASE (\E t \in Threads : CommonStep(t)) /\ Outside
  BY <1>3, CommonHands DEF Outside, retry
<1>4. CASE MailNext /\ UNCHANGED <<mq, evVars, mpVars, completed, dqVars>>
  BY <1>4, MailHands
<1>5. CASE MqNext
  BY <1>5, MqNextMoves
<1>6. CASE EvNext /\ UNCHANGED <<retry, mb, mq, mpVars, completed, dqVars>>
  BY <1>6, EvHands DEF retry
<1>7. CASE MpNext /\ UNCHANGED <<mb, mq, evVars, completed, dqVars>>
  BY <1>7, MpHands
<1>8. CASE CpNext /\ UNCHANGED <<retry, mb, mq, evVars, mpVars, dqVars>>
  BY <1>8, CpHands DEF retry
<1>9. CASE DqNext /\ UNCHANGED <<mb, mq, evVars, mpVars, completed>>
  BY <1>9, DqHands
<1>. QED BY <1>1, <1>2, <1>3, <1>4, <1>5, <1>6, <1>7, <1>8, <1>9 DEF Next

\* A step that touches lists of A only, and is no business of the others.
LEMMA NextOK ==
    ASSUME IInv, [Next]_vars
    PROVE  IInv'
<1>1. /\ SvcInv /\ MailInv /\ SlotInv /\ MqMatched /\ EvInv /\ MpInv /\ CpInv
      /\ EvShape /\ ItemShape
  BY DEF IInv, EvInv, MqInv, SlotInv
<1>2. SvcInv'
  BY <1>1, StepIs DEF Foot
<1>3. MailInv'
  <2>1. ASSUME NEW A, Foot(A), A \intersect MailLists = {}, mb' = mb
        PROVE  MailInv'
    BY <1>1, <2>1, MailFrame
  <2>. QED BY <1>1, <2>1, StepIs, ListsApart, MailKeep DEF OthersStill
<1>4. EvInv'
  <2>1. ASSUME NEW A, Foot(A), A \intersect Events = {}, UNCHANGED evVars
        PROVE  EvInv'
    BY <1>1, <2>1, EvFrame
  <2>. QED BY <1>1, <2>1, StepIs, ListsApart, EvKeep DEF OthersStill
<1>5. MpInv'
  <2>1. ASSUME NEW A, Foot(A), A \intersect Pools = {}, UNCHANGED mpVars
        PROVE  MpInv'
    BY <1>1, <2>1, NextLasts, MpFrame
  <2>. QED BY <1>1, <2>1, StepIs, NextLasts, ListsApart, MpKeep DEF OthersStill
<1>6. CpInv'
  <2>1. ASSUME NEW A, Foot(A), A \intersect Completions = {}, completed' = completed
        PROVE  CpInv'
    BY <1>1, <2>1, CpFrame
  <2>. QED BY <1>1, <2>1, StepIs, ListsApart, CpKeep DEF OthersStill
<1>7. SlotInv'
  BY <1>1, HandsAre, SlotFrame, SlotKeep
<1>8. MqMatched'
  <2>1. ASSUME NEW A, Foot(A), A \intersect Queues = {}, mq' = mq
        PROVE  MqMatched'
    BY <1>1, <2>1, MqFrame
  <2>. QED BY <1>1, <2>1, StepIs, ListsApart, MqKeep DEF OthersStill
<1>. QED BY <1>2, <1>3, <1>4, <1>5, <1>6, <1>7, <1>8 DEF IInv, MqInv

\* At the start nobody waits, and nobody has been served.
LEMMA InitNobody ==
    ASSUME Init
    PROVE  SvcInv /\ \A w \in WaitLists : Waiters(w) = {} /\ Takers(w) = {}
<1>1. /\ k = Booted /\ isr = "none" /\ alive \in Applications
      /\ pc = [t \in Threads |-> "run"]
      /\ arg = [t \in Threads |-> None]
  BY DEF Init
<1>2. /\ KernelOK(k) /\ k.lock = 0 /\ k.stat[Idle] \in Ready
      /\ k.stat[k.cur] = "running" /\ \A w \in WaitLists : ToSet(k.wait[w]) = {}
  BY <1>1, BootedOK DEF Ready
<1>3. \A t \in Threads : pc[t] = "run" /\ arg[t] = None
  BY <1>1
<1>4. \A t \in Threads : pc[t] \notin WaitPlaces /\ pc[t] \notin SvcLocked
  BY <1>3 DEF WaitPlaces, SvcLocked
<1>5. \A t \in Threads, w \in WaitLists : <<pc[t], arg[t]>> \notin SvcWait[w]
  BY <1>4, PairsElsewhere
<1>6. k.cur \in Threads
  BY <1>2 DEF KernelOK, QueueOK, KernelState
<1>7. SvcKernel
  BY <1>2, <1>4, <1>5, <1>6 DEF SvcKernel, KernelInv
<1>8. ASSUME NEW t \in Threads
      PROVE  Fits(t, pc[t], arg[t])
  BY <1>3 DEF Fits, Places, MailPlaces, MqPlaces, EvPlaces, MpPlaces, CpPlaces, DqPlaces
<1>9. pc \in [Threads -> Places] /\ arg \in [Threads -> Objects \union {None}]
  BY <1>1 DEF Places
<1>10. SvcInv
  BY <1>1, <1>7, <1>8, <1>9, ServicesAssumption DEF SvcInv
<1>11. \A w \in WaitLists : Waiters(w) = {} /\ Takers(w) = {}
  BY <1>2, <1>4, NotTaker DEF Waiters, Takers
<1>. QED BY <1>10, <1>11

LEMMA InitOK ==
    ASSUME Init
    PROVE  IInv
<1>1. SvcInv /\ \A w \in WaitLists : Waiters(w) = {} /\ Takers(w) = {}
  BY InitNobody
<1>2. \A n : \A w \in WaitLists : Matched(n, w)
  BY <1>1 DEF Matched
<1>3. MailInv
  BY <1>2, MailInit_Inv, MailListsOK DEF MailInv, MailMatched
<1>4. Cardinality({}) = 0
  BY FS_EmptySet
<1>5. EvInv
  <2>1. ASSUME NEW e \in Events
        PROVE  EvRight(e, set[e], info, owed[e])
    <3>1. Waiters(e) = {} /\ Takers(e) = {}
      BY <1>1, EventAssumption
    <3>2. set[e] = {} /\ \A b \in Bits : owed[e][b] = 0
      BY EvInit_Inv
    <3>3. \A b \in Bits : Cleared(info, Takers(e), b) = {}
      BY <3>1 DEF Cleared
    <3>. QED BY <1>4, <3>1, <3>2, <3>3 DEF EvRight
  <2>. QED BY <2>1, EvInit_Inv DEF EvInv
<1>6. MpInv
  <2>1. ASSUME NEW p \in Pools
        PROVE  Counted(pool[p].suspend_thread_count, p)
    <3>1. pool[p].suspend_thread_count = 0 /\ Waiters(p) = {}
      BY <1>1, MemPoolAssumption DEF Init, MpInit
    <3>. QED BY <1>4, <3>1 DEF Counted
  <2>. QED BY <1>2, <2>1, MpInit_Inv, MemPoolAssumption DEF MpInv, Sound
<1>7. CpInv
  <2>1. completed \in [Completions -> BOOLEAN]
    BY DEF Init, CpInit
  <2>. QED BY <1>1, <2>1, CompletionAssumption DEF CpInv, CpRight
<1>8. MqInv
  BY <1>2, SlotInit_Inv, MqListsOK DEF MqInv, MqMatched
<1>. QED BY <1>1, <1>3, <1>5, <1>6, <1>7, <1>8 DEF IInv

\* The indices of a data queue wrap around at IndexMod.
LEMMA DqNextOK ==
    ASSUME IInv, DqInv, DqMaxPush < IndexMod, [Next]_vars
    PROVE  DqInv'
<1>1. SvcInv /\ EvShape /\ MpTypeOK
  BY DEF IInv, EvInv, MpInv
<1>2. ASSUME NEW A, Foot(A), A \intersect DqLists = {}, UNCHANGED dqVars
      PROVE  DqInv'
  BY <1>2, DqFrame
<1>. QED BY <1>1, <1>2, StepIs, ListsApart, DqKeep DEF OthersStill

LEMMA DqInitOK ==
    ASSUME Init
    PROVE  DqInv
<1>1. \A w \in WaitLists : Waiters(w) = {}
  BY InitNobody
<1>2. ASSUME NEW d \in DataQueues
      PROVE  suspended_pop_list(d) \in WaitLists /\ suspended_push_list(d) \in WaitLists
  BY DataQueueAssumption
<1>. QED BY <1>1, <1>2, DqInit_Inv DEF DqInv, DqPair, Matched


-----------------------------------------------------------------------------
(* The steps of the three message services as steps of the channels.       *)

Chans == Mailboxes \union Queues \union DataQueues

InChannel(c) ==
    IF c \in Mailboxes THEN MailsIn(c) ELSE IF c \in Queues THEN MessagesIn(c) ELSE DataIn(c)

Capa(c) == IF c \in Mailboxes THEN MbSize ELSE IF c \in Queues THEN MqSize ELSE DqSize

Letters == Mails \union Messages \union Data

ChansBut(c) == \A d \in Chans : d # c => InChannel(d)' = InChannel(d)

ChansSame == \A d \in Chans : InChannel(d)' = InChannel(d)

\* A step of the channels, or none of their business.
ChanStep == [Abstract!Next]_(Abstract!chanVars)

LEMMA ChanRests ==
    ASSUME ChansSame, HeldSame
    PROVE  ChanStep
<1>1. UNCHANGED Abstract!chanVars
  BY DEF Abstract!chanVars, ChansSame, HeldSame, InChannel, Chans
<1>. QED BY <1>1 DEF ChanStep

LEMMA ChanUse ==
    ASSUME ChansSame, NEW t, Uses(t)
    PROVE  ChanStep
<1>. DEFINE q == [d \in Chans |-> InChannel(d)]
            got == [u \in Threads |-> Held(u)]
<1>1. CASE Held(t) = None
  BY <1>1, ChanRests DEF Uses, HeldSame
<1>2. CASE Held(t) # None
  <2>1. t \in Threads /\ q' = q
    BY DEF ChansSame, Uses
  <2>2. got' = [got EXCEPT ![t] = None]
    BY DEF Uses
  <2>3. got[t] # None
    BY <1>2, <2>1
  <2>4. Abstract!Use(t)
    BY <2>1, <2>2, <2>3, Zenon DEF Abstract!Use, Chans, InChannel
  <2>. QED BY <2>1, <2>4, Zenon DEF ChanStep, Abstract!Next
<1>. QED BY <1>1, <1>2

LEMMA ChanReset ==
    ASSUME NEW c \in Chans, ChansBut(c), InChannel(c)' = <<>>, HeldSame
    PROVE  ChanStep
<1>. DEFINE q == [d \in Chans |-> InChannel(d)]
            got == [u \in Threads |-> Held(u)]
<1>1. got' = got
  BY DEF HeldSame
<1>2. q' = [q EXCEPT ![c] = <<>>]
  BY DEF ChansBut
<1>3. Abstract!Reset(c)
  BY <1>1, <1>2, Zenon DEF Abstract!Reset, Chans, InChannel
<1>. QED BY <1>3, Zenon DEF ChanStep, Abstract!Next, Chans

LEMMA ChanSend ==
    ASSUME NEW c \in Chans, ChansBut(c), HeldSame, NEW v \in Letters,
           Len(InChannel(c)) < Capa(c), InChannel(c)' = Append(InChannel(c), v)
    PROVE  ChanStep
<1>. DEFINE q == [d \in Chans |-> InChannel(d)]
            got == [u \in Threads |-> Held(u)]
<1>1. got' = got
  BY DEF HeldSame
<1>2. q' = [q EXCEPT ![c] = Append(@, v)]
  BY DEF ChansBut
<1>3. [d \in Chans |-> Capa(d)][c] = Capa(c) /\ q[c] = InChannel(c)
  OBVIOUS
<1>4. Len(q[c]) < [d \in Chans |-> Capa(d)][c]
  BY <1>3
<1>5. Abstract!Send(c, v)
  BY <1>1, <1>2, <1>4, Zenon DEF Abstract!Send, Capa, Chans, InChannel
<1>. QED BY <1>5, Zenon DEF ChanStep, Abstract!Next, Chans, Letters

LEMMA ChanUrgent ==
    ASSUME NEW c \in Chans, ChansBut(c), HeldSame, NEW v \in Letters, c \in Queues,
           Len(InChannel(c)) < Capa(c), InChannel(c)' = <<v>> \o InChannel(c)
    PROVE  ChanStep
<1>. DEFINE q == [d \in Chans |-> InChannel(d)]
            got == [u \in Threads |-> Held(u)]
<1>1. got' = got
  BY DEF HeldSame
<1>2. q' = [q EXCEPT ![c] = <<v>> \o @]
  BY DEF ChansBut
<1>3. [d \in Chans |-> Capa(d)][c] = Capa(c) /\ q[c] = InChannel(c)
  OBVIOUS
<1>4. Len(q[c]) < [d \in Chans |-> Capa(d)][c]
  BY <1>3
<1>5. Abstract!SendUrgent(c, v)
  BY <1>1, <1>2, <1>4, Zenon DEF Abstract!SendUrgent, Capa, Chans, InChannel
<1>. QED BY <1>5, Zenon DEF ChanStep, Abstract!Next, Chans, Letters

LEMMA ChanReceive ==
    ASSUME NEW c \in Chans, ChansBut(c), InChannel(c) # <<>>, InChannel(c)' = Tail(InChannel(c)),
           NEW t, NEW x, x = Head(InChannel(c)), Gets(t, x)
    PROVE  ChanStep
<1>. DEFINE q == [d \in Chans |-> InChannel(d)]
            got == [u \in Threads |-> Held(u)]
<1>1. t \in Threads /\ got[t] = None
  BY DEF Gets
<1>2. q[c] = InChannel(c)
  OBVIOUS
<1>3. q' = [q EXCEPT ![c] = Tail(@)]
  BY DEF ChansBut
<1>4. got' = [got EXCEPT ![t] = Head(q[c])]
  BY <1>2 DEF Gets
<1>5. q[c] # <<>>
  BY <1>2
<1>6. Abstract!Receive(c, t)
  BY <1>1, <1>3, <1>4, <1>5, Zenon DEF Abstract!Receive, Chans, InChannel
<1>. QED BY <1>1, <1>6, Zenon DEF ChanStep, Abstract!Next, Chans

\* Which channel is of which kind.
LEMMA ChanKinds ==
    /\ \A b \in Mailboxes : /\ b \in Chans /\ b \notin Queues /\ b \notin DataQueues
                            /\ InChannel(b) = MailsIn(b) /\ InChannel(b)' = MailsIn(b)'
                            /\ Capa(b) = MbSize
    /\ \A m \in Queues : /\ m \in Chans /\ m \notin Mailboxes /\ m \notin DataQueues
                         /\ InChannel(m) = MessagesIn(m) /\ InChannel(m)' = MessagesIn(m)'
                         /\ Capa(m) = MqSize
    /\ \A d \in DataQueues : /\ d \in Chans /\ d \notin Mailboxes /\ d \notin Queues
                             /\ InChannel(d) = DataIn(d) /\ InChannel(d)' = DataIn(d)'
                             /\ Capa(d) = DqSize
BY OneKind DEF Chans, InChannel, Capa

\* The kinds of channels one by one.
LEMMA ChansOneByOne ==
    ASSUME NEW c, \A b \in Mailboxes : b # c => MailsIn(b)' = MailsIn(b),
           \A m \in Queues : m # c => MessagesIn(m)' = MessagesIn(m),
           \A d \in DataQueues : d # c => DataIn(d)' = DataIn(d)
    PROVE  ChansBut(c)
<1>1. ASSUME NEW d \in Chans, d # c
      PROVE  InChannel(d)' = InChannel(d)
  BY <1>1, ChanKinds DEF Chans
<1>. QED BY <1>1 DEF ChansBut

LEMMA AllChansSame ==
    ASSUME mb' = mb, mq' = mq, UNCHANGED dqVars
    PROVE  ChansSame
<1>1. /\ \A b \in Mailboxes : MailsIn(b)' = MailsIn(b)
      /\ \A m \in Queues : MessagesIn(m)' = MessagesIn(m)
      /\ \A d \in DataQueues : DataIn(d)' = DataIn(d)
  BY MailsSame, MessagesSame, DataSame
<1>2. ASSUME NEW d \in Chans
      PROVE  InChannel(d)' = InChannel(d)
  BY <1>1, ChanKinds DEF Chans
<1>. QED BY <1>2 DEF ChansSame

\* Where the next message is written, and what is about to be sent.
OrderInv == LoadInv /\ DqOrder /\ \A b \in Mailboxes : MailOrder(b)

\* A step of the mailboxes.
LEMMA MailSteps ==
    ASSUME SvcInv, ItemShape, MailShape, OrderInv, MailNext, mq' = mq, UNCHANGED dqVars
    PROVE  OrderInv' /\ ChanStep
<1>1. LoadInv' /\ DqOrder'
  BY MailNextMoves, DataSame DEF OrderInv
<1>2. PICK b \in Mailboxes : MailMoves(b)
  BY MailNextMoves DEF OrderInv
<1>3. ASSUME MailsBut(b), MailOrder(b)'
      PROVE  OrderInv' /\ ChansBut(b)
  <2>1. OrderInv'
    BY <1>1, <1>3 DEF OrderInv, MailsBut
  <2>. QED BY <1>3, <2>1, MessagesSame, DataSame, ChansOneByOne DEF MailsBut
<1>4. b \in Chans /\ InChannel(b) = MailsIn(b) /\ InChannel(b)' = MailsIn(b)' /\ Capa(b) = MbSize
  BY ChanKinds
<1>5. CASE mb' = mb /\ (HeldSame \/ \E t : Uses(t))
  <2>1. OrderInv'
    BY <1>1, <1>5, MailsSame DEF OrderInv
  <2>. QED BY <1>5, <2>1, AllChansSame, ChanRests, ChanUse
<1>6. ASSUME NEW v \in Mails, Deposit(b, v), HeldSame
      PROVE  OrderInv' /\ ChanStep
  <2>1. /\ MailOrder(b)' /\ MailsBut(b)
        /\ MailsIn(b)' = Append(MailsIn(b), v) /\ Len(MailsIn(b)) < MbSize
    BY <1>6, DepositOrder DEF OrderInv
  <2>2. v \in Letters
    BY DEF Letters
  <2>. QED BY <1>3, <1>4, <1>6, <2>1, <2>2, ChanSend
<1>7. ASSUME NEW t, Collected(b), Gets(t, mb[b].msg_pool[mb[b].out_offset])
      PROVE  OrderInv' /\ ChanStep
  <2>1. /\ MailOrder(b)' /\ MailsBut(b)
        /\ MailsIn(b) # <<>> /\ MailsIn(b)' = Tail(MailsIn(b))
        /\ Head(MailsIn(b)) = mb[b].msg_pool[mb[b].out_offset]
    BY <1>7, CollectOrder DEF OrderInv
  <2>2. Gets(t, Head(InChannel(b)))
    BY <1>4, <1>7, <2>1
  <2>. QED BY <1>3, <1>4, <2>1, <2>2, ChanReceive
<1>8. CASE Emptied(b) /\ HeldSame
  <2>1. MailOrder(b)' /\ MailsBut(b) /\ MailsIn(b)' = <<>>
    BY <1>8, EmptyOrder
  <2>. QED BY <1>3, <1>4, <1>8, <2>1, ChanReset
<1>. QED BY <1>2, <1>5, <1>6, <1>7, <1>8 DEF MailMoves

\* A step of the message queues.
LEMMA MqSteps ==
    ASSUME SvcInv, SlotInv, OrderInv, MqNext, mb' = mb, UNCHANGED dqVars
    PROVE  OrderInv' /\ ChanStep
<1>1. PICK m \in Queues : MqMoves(m)
  BY MqNextMoves DEF SlotInv
<1>2. LoadInv' /\ MessagesBut(m) /\ MqFlows(m)
  BY <1>1, MqMovesFlow DEF OrderInv
<1>3. OrderInv'
  BY <1>2, MailsSame, DataSame DEF OrderInv
<1>4. ChansBut(m)
  BY <1>2, MailsSame, DataSame, ChansOneByOne DEF MessagesBut
<1>5. m \in Chans /\ InChannel(m) = MessagesIn(m) /\ InChannel(m)' = MessagesIn(m)'
      /\ Capa(m) = MqSize
  BY ChanKinds
<1>6. CASE MessagesIn(m)' = MessagesIn(m) /\ (HeldSame \/ \E t : Uses(t))
  <2>1. ChansSame
    BY <1>4, <1>5, <1>6 DEF ChansSame, ChansBut
  <2>. QED BY <1>3, <1>6, <2>1, ChanRests, ChanUse
<1>7. CASE MessagesIn(m)' = <<>> /\ HeldSame
  BY <1>3, <1>4, <1>5, <1>7, ChanReset
<1>8. ASSUME NEW v \in Messages, Len(MessagesIn(m)) < MqSize, HeldSame,
             \/ MessagesIn(m)' = Append(MessagesIn(m), v)
             \/ MessagesIn(m)' = <<v>> \o MessagesIn(m)
      PROVE  OrderInv' /\ ChanStep
  <2>1. v \in Letters
    BY DEF Letters
  <2>2. CASE MessagesIn(m)' = Append(MessagesIn(m), v)
    BY <1>3, <1>4, <1>5, <1>8, <2>1, <2>2, ChanSend
  <2>3. CASE MessagesIn(m)' = <<v>> \o MessagesIn(m)
    BY <1>3, <1>4, <1>5, <1>8, <2>1, <2>3, ChanUrgent
  <2>. QED BY <1>8, <2>2, <2>3
<1>9. ASSUME NEW t, MessagesIn(m) # <<>>, MessagesIn(m)' = Tail(MessagesIn(m)),
             Gets(t, Head(MessagesIn(m)))
      PROVE  OrderInv' /\ ChanStep
  <2>1. Gets(t, Head(InChannel(m)))
    BY <1>5, <1>9
  <2>. QED BY <1>3, <1>4, <1>5, <1>9, <2>1, ChanReceive
<1>. QED BY <1>2, <1>6, <1>7, <1>8, <1>9 DEF MqFlows

\* A step of the data queues.
LEMMA DqSteps ==
    ASSUME NoWrap, SvcInv, ItemShape, DqShape, OrderInv, DqNext, mb' = mb, mq' = mq
    PROVE  OrderInv' /\ ChanStep
<1>1. LoadInv' /\ \A b \in Mailboxes : MailOrder(b)'
  BY DqNextMoves, MailsSame DEF OrderInv
<1>2. CASE DqRests
  <2>1. OrderInv'
    BY <1>1, <1>2, DataSame DEF OrderInv, DqRests
  <2>. QED BY <1>2, <2>1, AllChansSame, ChanRests, ChanUse DEF DqRests
<1>3. ASSUME NEW d \in DataQueues, DqMoves(d), ~DqRests
      PROVE  OrderInv' /\ ChanStep
  <2>1. d \in Chans /\ InChannel(d) = DataIn(d) /\ InChannel(d)' = DataIn(d)' /\ Capa(d) = DqSize
    BY ChanKinds
  <2>2. DqOrder' /\ DataBut(d) => OrderInv' /\ ChansBut(d)
    BY <1>1, MailsSame, MessagesSame, ChansOneByOne DEF OrderInv, DataBut
  <2>3. ASSUME NEW v \in Data, Pushed(d, v), HeldSame
        PROVE  OrderInv' /\ ChanStep
    <3>1. /\ DqOrder' /\ DataBut(d)
          /\ DataIn(d)' = Append(DataIn(d), v) /\ Len(DataIn(d)) < DqSize
      BY <2>3, PushOrder DEF OrderInv
    <3>2. v \in Letters
      BY DEF Letters
    <3>. QED BY <2>1, <2>2, <2>3, <3>1, <3>2, ChanSend
  <2>4. ASSUME NEW t, Popped(d), pushes' = pushes,
               Gets(t, dq[d].queue[dq[d].get_index % DqSize])
        PROVE  OrderInv' /\ ChanStep
    <3>1. /\ DqOrder' /\ DataBut(d)
          /\ DataIn(d) # <<>> /\ DataIn(d)' = Tail(DataIn(d))
          /\ Head(DataIn(d)) = dq[d].queue[dq[d].get_index % DqSize]
      BY <2>4, PopOrder DEF OrderInv
    <3>2. Gets(t, Head(InChannel(d)))
      BY <2>1, <2>4, <3>1
    <3>. QED BY <2>1, <2>2, <3>1, <3>2, ChanReceive
  <2>. QED BY <1>3, <2>3, <2>4 DEF DqMoves
<1>. QED BY <1>2, <1>3, DqNextMoves DEF OrderInv

\* The steps of the other services.
LEMMA OtherSteps ==
    ASSUME OrderInv, Steady(Laden), mb' = mb, mq' = mq, UNCHANGED dqVars
    PROVE  OrderInv' /\ ChanStep
<1>1. HeldSame /\ LoadInv'
  BY SteadyHeld DEF OrderInv
<1>2. OrderInv'
  BY <1>1, MailsSame, DataSame DEF OrderInv
<1>. QED BY <1>1, <1>2, AllChansSame, ChanRests

LEMMA OrderKeep ==
    ASSUME NoWrap, IInv, DqInv, OrderInv, [Next]_vars
    PROVE  OrderInv' /\ ChanStep
<1>1. SvcInv /\ ItemShape /\ SlotInv /\ MailShape /\ DqShape
  BY DEF IInv, MqInv, SlotInv, MailInv, DqInv
<1>2. CASE UNCHANGED vars
  BY <1>1, <1>2, SameHands, OtherSteps DEF vars, core, retry
<1>3. CASE Tick /\ UNCHANGED <<pc, arg, alive>> /\ Outside
  BY <1>1, <1>3, SameHands, OtherSteps DEF Outside, retry
<1>4. CASE (\E t \in Threads : CommonStep(t)) /\ Outside
  BY <1>1, <1>4, CommonHands, OtherSteps DEF Outside, retry
<1>5. CASE MailNext /\ UNCHANGED <<mq, evVars, mpVars, completed, dqVars>>
  BY <1>1, <1>5, MailSteps
<1>6. CASE MqNext /\ UNCHANGED <<mb, evVars, mpVars, completed, dqVars>>
  BY <1>1, <1>6, MqSteps
<1>7. CASE EvNext /\ UNCHANGED <<retry, mb, mq, mpVars, completed, dqVars>>
  BY <1>1, <1>7, EvHands, OtherSteps DEF retry
<1>8. CASE MpNext /\ UNCHANGED <<mb, mq, evVars, completed, dqVars>>
  BY <1>1, <1>8, MpHands, OtherSteps
<1>9. CASE CpNext /\ UNCHANGED <<retry, mb, mq, evVars, mpVars, dqVars>>
  BY <1>1, <1>9, CpHands, OtherSteps DEF retry
<1>10. CASE DqNext /\ UNCHANGED <<mb, mq, evVars, mpVars, completed>>
  BY <1>1, <1>10, DqSteps
<1>. QED BY <1>2, <1>3, <1>4, <1>5, <1>6, <1>7, <1>8, <1>9, <1>10 DEF Next

\* At the start the channels are empty.
LEMMA OrderInit_Inv ==
    ASSUME Init
    PROVE  OrderInv /\ Abstract!Init
<1>1. pc = [t \in Threads |-> "run"]
  BY DEF Init
<1>2. ASSUME NEW t \in Threads
      PROVE  Load(t) /\ Held(t) = None
  <2>1. pc[t] = "run"
    BY <1>1
  <2>2. pc[t] \notin Received
    BY <2>1 DEF Received, GotPlaces
  <2>. QED BY <2>1, <2>2, HeldIs DEF Load
<1>3. ASSUME NEW b \in Mailboxes
      PROVE  MailOrder(b) /\ MailsIn(b) = <<>>
  <2>1. mb[b].entry = 0 /\ mb[b].in_offset = 0 /\ mb[b].out_offset = 0
    BY DEF Init, MailInit
  <2>2. MailOrder(b)
    BY <2>1, MailboxAssumption DEF MailOrder
  <2>3. MailsIn(b) \in [1 .. 0 -> {}]
    BY <2>1 DEF MailsIn
  <2>. QED BY <2>2, <2>3, EmptyIs
<1>4. ASSUME NEW m \in Queues
      PROVE  MessagesIn(m) = <<>>
  <2>1. PICK c, f : Accounted(m, c, f)
    BY SlotInit_Inv DEF SlotInv
  <2>2. mq[m].entry = 0
    BY DEF Init, MqInit
  <2>3. c \in Seq(Slots) /\ Len(c) = 0
    BY <2>1, <2>2, HoldsFacts DEF Accounted, Holds
  <2>4. c = <<>>
    BY <2>3
  <2>. QED BY <2>1, <2>4, MessagesAre, ContentsEmpty
<1>5. ASSUME NEW d \in DataQueues
      PROVE  DqRun(d) /\ DataIn(d) = <<>>
  <2>1. dq[d].put_index = DqStart /\ dq[d].get_index = DqStart /\ pushes = 0
    BY DEF Init, DqInit
  <2>2. DqStart \in Nat /\ DqSize \in Nat /\ IndexMod \in Nat \ {0}
    BY DataQueueAssumption
  <2>3. DqStart <= DqStart /\ DqStart <= DqStart + 0 /\ DqStart - DqStart = 0 /\ 0 <= DqSize
    BY <2>2
  <2>4. DqRun(d)
    BY <2>1, <2>3 DEF DqRun
  <2>5. (dq[d].put_index - dq[d].get_index) % IndexMod = 0
    BY <2>1, <2>2
  <2>6. DataIn(d) \in [1 .. 0 -> {}]
    BY <2>5 DEF DataIn
  <2>. QED BY <2>4, <2>6, EmptyIs
<1>6. OrderInv
  BY <1>2, <1>3, <1>5 DEF OrderInv, LoadInv, DqOrder
<1>7. \A c \in Chans : InChannel(c) = <<>>
  BY <1>3, <1>4, <1>5, ChanKinds DEF Chans
<1>8. [c \in Chans |-> InChannel(c)] = [c \in Chans |-> <<>>]
  BY <1>7
<1>9. [t \in Threads |-> Held(t)] = [t \in Threads |-> None]
  BY <1>2
<1>10. Abstract!Init
  BY <1>8, <1>9, Zenon DEF Abstract!Init, Chans, InChannel
<1>. QED BY <1>6, <1>10

-----------------------------------------------------------------------------
(* The theorems.                                                           *)

\* IInv holds always: the kernel is consistent, every thread is at a place of a
\* call on an object of the right kind, and mailboxes, message queues, events,
\* pools and completions owe nothing to those who wait.
THEOREM Invariance == Spec => []IInv
<1>1. Init => IInv
  BY InitOK
<1>2. IInv /\ [Next]_vars => IInv'
  BY NextOK
<1>. QED BY <1>1, <1>2, PTL DEF Spec

\* Ready queues, bitmap, suspend lists, timers and thread states agree while
\* mailboxes, message queues, events, memory pools, completions and data queues
\* suspend and resume threads, each in its own way.
THEOREM KernelStaysConsistent == Spec => []KernelConsistent
<1>1. IInv => KernelConsistent
  BY DEF IInv, SvcInv, SvcKernel, KernelInv, KernelConsistent
<1>. QED BY <1>1, Invariance, PTL

\* rt_mb_send_wait and rt_mb_recv lose no wake-up: while receivers wait, every
\* mail is matched by a thread that was woken for it and has yet to look, and
\* while senders wait, so is every free place.
THEOREM NoMailLeftBehind == Spec => []NoMailWhileWaiting
<1>1. IInv => NoMailWhileWaiting
  BY MailInvSays DEF IInv, MailInv
<1>. QED BY <1>1, Invariance, PTL

\* rt_mq_send, rt_mq_urgent and rt_mq_recv take a slot out of the lists, copy
\* with interrupts enabled and put it back: at every moment each slot of the
\* pool is on the queue, on the free list or in the hands of one thread, and
\* tail and entry agree with the links, whoever comes in between, an interrupt
\* handler that sends or a reset that drains the queue.
THEOREM SlotsStayAccounted == Spec => []SlotsAccounted
<1>1. IInv => SlotsAccounted
  BY SlotInvSays DEF IInv, MqInv
<1>. QED BY <1>1, Invariance, PTL

\* rt_mq_recv loses no wake-up: while receivers wait, every message on the
\* queue is matched by a receiver that was woken and has yet to look.
THEOREM NoMessageLeftBehind == Spec => []NoMessageWhileWaiting
<1>1. IInv => NoMessageWhileWaiting
  BY MqMatchedSays DEF IInv, MqInv
<1>. QED BY <1>1, Invariance, PTL

\* rt_event_send leaves nobody on the list who could go, although it clears
\* bits as it walks and waiters time out behind it.
THEOREM NobodySatisfiedWaits == Spec => []NoSatisfiedWaiter
<1>1. IInv => NoSatisfiedWaiter
  BY EvInvSays DEF IInv
<1>. QED BY <1>1, Invariance, PTL

\* A bit that rt_event_send raised is used up by one receiver with CLEAR.
THEOREM BitsAreConserved == Spec => []BitsConserved
<1>1. IInv => BitsConserved
  BY EvInvSays DEF IInv
<1>. QED BY <1>1, Invariance, PTL

\* rt_mp_alloc and rt_mp_free keep every block on the free list or in use, and
\* until a thread begins to detach the pool no block lies free for a waiter that
\* nobody woke and the count misses no waiter, although waiters time out and the
\* count is not corrected for them.
THEOREM NoBlockLeftBehind == Spec => []NoBlockWhileWaiting
<1>1. IInv => NoBlockWhileWaiting
  BY MpInvSays DEF IInv
<1>. QED BY <1>1, Invariance, PTL

\* rt_completion_wait does not sleep through rt_completion_done, and does not
\* come back before it.
THEOREM CompletionIsSeen == Spec => []CompletionSeen
<1>1. IInv => CompletionSeen
  BY CpInvSays DEF IInv
<1>. QED BY <1>1, Invariance, PTL

\* rt_data_queue_push and rt_data_queue_pop lose no wake-up while the free
\* running indices cannot go all the way round: fewer pushes than IndexMod.
THEOREM NoDataLeftBehind ==
    ASSUME DqMaxPush < IndexMod
    PROVE  Spec => []NoDataWhileWaiting
<1>1. Init => IInv /\ DqInv
  BY InitOK, DqInitOK
<1>2. (IInv /\ DqInv) /\ [Next]_vars => (IInv /\ DqInv)'
  BY NextOK, DqNextOK
<1>3. IInv /\ DqInv => NoDataWhileWaiting
  BY DqInvSays DEF IInv
<1>. QED BY <1>1, <1>2, <1>3, PTL DEF Spec

\* The refinement.  Mailbox, message queue and data queue deliver what was
\* accepted once, to one receiver and in order, for every number of threads,
\* objects and messages and every capacity: each step of the services maps to a
\* step of the bounded channels of Channel, or to none.  Of the data queue this
\* is said for runs in which put_index does not wrap around: afterwards the int
\* difference that rt_data_queue_push compares with the size is negative, and a
\* push may overwrite an item that is still queued.
THEOREM ChannelsDeliver ==
    ASSUME DqStart + DqMaxPush < IndexMod
    PROVE  Spec => DeliversInOrder
<1>0. NoWrap /\ DqMaxPush < IndexMod
  <2>1. DqStart \in Nat /\ DqMaxPush \in Nat /\ IndexMod \in Nat
    BY DataQueueAssumption
  <2>. QED BY <2>1 DEF NoWrap
<1>1. Init => IInv /\ DqInv /\ OrderInv /\ Abstract!Init
  BY InitOK, DqInitOK, OrderInit_Inv
<1>2. (IInv /\ DqInv /\ OrderInv) /\ [Next]_vars => (IInv /\ DqInv /\ OrderInv)'
  BY <1>0, NextOK, DqNextOK, OrderKeep
<1>3. (IInv /\ DqInv /\ OrderInv) /\ [Next]_vars => [Abstract!Next]_(Abstract!chanVars)
  BY <1>0, OrderKeep DEF ChanStep
<1>. QED BY <1>1, <1>2, <1>3, PTL DEF Spec, DeliversInOrder, Abstract!Spec
===============================================================================
