---------------------------- MODULE ChannelProofs ----------------------------
(***************************************************************************)
(* First, what the services do to the kernel they share, for any threads   *)
(* and objects.  Each kind of step of which their calls are made (wait on  *)
(* a list, wake a waiter, wake everyone with an error, call rt_schedule,   *)
(* return to the application) has one lemma that says what it does to the  *)
(* waiters of every list and to those already served.                      *)
(*                                                                         *)
(* Then the services that carry data from one thread to another: mailbox,  *)
(* message queue and data queue.  For each, what its steps do to its own   *)
(* control block and to its waiters, and from this that no wake-up is      *)
(* lost; then what they do to the sequence of its messages and to what     *)
(* threads have received, for the refinement.  Module ServicesProofs does  *)
(* the other services and puts all together.                               *)
(***************************************************************************)
EXTENDS Services, KernelProofs, FiniteSetTheorems

-----------------------------------------------------------------------------
(* The inductive invariant.                                                *)

\* The places between a suspension and the next look, and the list on which a
\* thread at such a place of a call on o may be.
Waits(p, o, w) ==
    \/ p \in {"mbr_sched", "mbr_woken"} /\ o \in Mailboxes /\ w = o
    \/ p \in {"mbs_sched", "mbs_woken"} /\ o \in Mailboxes /\ w = suspend_sender_thread(o)
    \/ p \in {"mqr_sched", "mqr_woken"} /\ o \in Queues /\ w = o
    \/ p \in {"ev_sched", "ev_woken"} /\ o \in Events /\ w = o
    \/ p \in {"mp_sched", "mp_woken"} /\ o \in Pools /\ w = o
    \/ p \in {"cp_sched", "cp_woken"} /\ o \in Completions /\ w = o
    \/ p \in {"dqg_sched", "dqg_woken"} /\ o \in DataQueues /\ w = suspended_pop_list(o)
    \/ p \in {"dqp_sched", "dqp_woken"} /\ o \in DataQueues /\ w = suspended_push_list(o)

SvcWait == [w \in WaitLists |-> {x \in Places \X Objects : Waits(x[1], x[2], w)}]

\* Where the current thread may be suspended, on its way to rt_schedule.
SvcSched == {"mbr_sched", "mbs_sched", "mqr_sched", "ev_sched", "mp_sched", "cp_sched",
             "dqg_sched", "dqp_sched", "sleep_sched"}

\* Where a thread has locked the scheduler: in rt_data_queue_reset.
SvcLocked == {"dqx_test", "dqx_wake", "dqx_test2", "dqx_wake2", "dqx_exit"}

\* Thread t may be at place p of a call on o: the object of a call is of the
\* right kind, the idle thread makes no calls, and one thread only waits for
\* completions.
Fits(t, p, o) ==
    /\ p \in Places
    /\ o \in Objects \union {None}
    /\ p \in MailPlaces => o \in Mailboxes
    /\ p \in MqPlaces => o \in Queues
    /\ p \in EvPlaces => o \in Events
    /\ p \in MpPlaces => o \in Pools
    /\ p \in CpPlaces => o \in Completions
    /\ p \in DqPlaces \ {"dqx_sched"} => o \in DataQueues
    /\ p \in {"cp_sched", "cp_woken"} => t = CpWaiter
    /\ t = Idle => p = "run"

SvcKernel == KernelInv(SvcSched, SvcLocked, SvcWait)

SvcInv ==
    /\ SvcKernel
    /\ isr \in {"none", "tick", "timeout"}
    /\ pc \in [Threads -> Places]
    /\ arg \in [Threads -> Objects \union {None}]
    /\ alive \subseteq Objects
    /\ \A t \in Threads : Fits(t, pc[t], arg[t])

\* The threads on list w, and those that were taken off it with something for
\* them and have yet to look.
Waiters(w) == ToSet(k.wait[w])
Takers(w) == {t \in Threads : Served(t, w, SvcWait)}

-----------------------------------------------------------------------------
(* Places and lists.                                                       *)

WaitPlaces == {"mbr_sched", "mbr_woken", "mbs_sched", "mbs_woken", "mqr_sched", "mqr_woken",
               "ev_sched", "ev_woken", "mp_sched", "mp_woken", "cp_sched", "cp_woken",
               "dqg_sched", "dqg_woken", "dqp_sched", "dqp_woken"}

LEMMA WaitsPlace ==
    ASSUME NEW p, NEW o, NEW w, Waits(p, o, w)
    PROVE  p \in WaitPlaces /\ o \in Objects
BY MailboxAssumption, MessageQueueAssumption, EventAssumption, MemPoolAssumption,
   CompletionAssumption, DataQueueAssumption DEF Waits, WaitPlaces

\* A thread in a call waits on one list only.
LEMMA WaitsOnce ==
    ASSUME NEW p, NEW o, NEW v, NEW w, Waits(p, o, v), Waits(p, o, w)
    PROVE  v = w
BY DEF Waits

LEMMA WaitPlacesArePlaces == WaitPlaces \subseteq Places
BY DEF WaitPlaces, Places, MailPlaces, MqPlaces, EvPlaces, MpPlaces, CpPlaces, DqPlaces

LEMMA PairWaits ==
    ASSUME NEW p, NEW o, NEW w \in WaitLists
    PROVE  <<p, o>> \in SvcWait[w] <=> Waits(p, o, w)
<1>1. Waits(p, o, w) => p \in Places /\ o \in Objects
  BY WaitsPlace, WaitPlacesArePlaces
<1>. QED BY <1>1 DEF SvcWait

LEMMA PairsElsewhere ==
    ASSUME NEW p, NEW o, p \notin WaitPlaces
    PROVE  \A w \in WaitLists : <<p, o>> \notin SvcWait[w]
BY PairWaits, WaitsPlace

LEMMA TakersFinite ==
    ASSUME NEW w
    PROVE  IsFiniteSet(Takers(w)) /\ Cardinality(Takers(w)) \in Nat
<1>1. Takers(w) \in SUBSET Threads /\ IsFiniteSet(Threads)
  BY KernelAssumption DEF Takers
<1>. QED BY <1>1, FS_Subset, FS_CardinalityType

LEMMA TakerWaits ==
    ASSUME NEW w \in WaitLists, NEW t \in Takers(w)
    PROVE  t \in Threads /\ Waits(pc[t], arg[t], w) /\ k.err[t] = "EOK"
BY PairWaits DEF Takers, Served

LEMMA WaiterWaits ==
    ASSUME SvcInv, NEW w \in WaitLists, NEW t \in Waiters(w)
    PROVE  /\ t \in Threads /\ Waits(pc[t], arg[t], w) /\ k.err[t] = "EOK"
           /\ k.stat[t] = "suspend" /\ \A v \in WaitLists : t \notin Takers(v)
<1>1. KernelInv(SvcSched, SvcLocked, SvcWait) /\ KernelOK(k)
  BY DEF SvcInv, SvcKernel, KernelInv
<1>2. t \in Threads /\ k.stat[t] = "suspend"
  BY <1>1, WaitersAreThreads DEF Waiters, KernelOK, QueueOK, WaitOK
<1>3. Waits(pc[t], arg[t], w) /\ k.err[t] = "EOK"
  BY <1>1, PairWaits DEF Waiters, KernelInv
<1>4. ASSUME NEW v \in WaitLists
      PROVE  t \notin Takers(v)
  BY <1>1, <1>2, SuspendedUnserved DEF Takers
<1>. QED BY <1>2, <1>3, <1>4

\* Looking of module Retry, for the calls that wait on w.
LEMMA LookingIsTakers ==
    ASSUME SvcInv, NEW w \in WaitLists, NEW o, NEW P,
           \A q, x : Waits(q, x, w) <=> q \in P /\ x = o
    PROVE  Looking(o, P) = Takers(w)
<1>1. KernelInv(SvcSched, SvcLocked, SvcWait)
  BY DEF SvcInv, SvcKernel
<1>2. ASSUME NEW t \in Threads
      PROVE  t \in Takers(w) <=> pc[t] \in P /\ arg[t] = o /\ k.err[t] = "EOK"
                                 /\ t \notin ToSet(k.wait[w])
  BY PairWaits DEF Takers, Served
<1>3. ASSUME NEW t \in Takers(w), NEW v \in WaitLists
      PROVE  t \notin ToSet(k.wait[v])
  <2>1. Waits(pc[t], arg[t], w)
    BY TakerWaits
  <2>2. t \in ToSet(k.wait[v]) => Waits(pc[t], arg[t], v)
    BY WaiterWaits DEF Waiters
  <2>3. t \notin ToSet(k.wait[w])
    BY DEF Takers, Served
  <2>. QED BY <2>1, <2>2, <2>3, WaitsOnce
<1>. QED BY <1>2, <1>3 DEF Looking, Takers

-----------------------------------------------------------------------------
(* What the steps of the services do to waiters and takers.                *)

\* Thread t executes a call, with interrupts enabled and the scheduler free.
Calling(t) ==
    /\ t \in Threads /\ t # Idle
    /\ k.cur = t
    /\ pc[t] \notin SvcSched /\ pc[t] \notin SvcLocked

\* Thread t goes to place p of a call on o.
Goes(t, p, o) ==
    /\ pc' = [pc EXCEPT ![t] = p]
    /\ arg' = [arg EXCEPT ![t] = o]
    /\ isr' = isr
    /\ alive' \subseteq alive

\* The threads of C look, and take or leave what they find.
Kept(C) ==
    /\ SvcInv'
    /\ \A v \in WaitLists : Waiters(v)' = Waiters(v) /\ Takers(v)' = Takers(v) \ C

\* One waiter of w is served.
Woke(C, w) ==
    /\ SvcInv'
    /\ \E u \in Threads :
          /\ u \in Waiters(w) /\ u \notin C
          /\ \A v \in WaitLists :
                /\ u \notin Takers(v)
                /\ Waiters(v)' = Waiters(v) \ {u}
                /\ Takers(v)' = (Takers(v) \ C) \union (IF v = w THEN {u} ELSE {})

\* t waits on w.
Joined(t, w) ==
    /\ SvcInv'
    /\ \A v \in WaitLists :
          /\ Waiters(v)' = Waiters(v) \union (IF v = w THEN {t} ELSE {})
          /\ Takers(v)' = Takers(v) \ {t}

\* Some waiters leave with an error.
Dropped(C, T) ==
    /\ SvcInv'
    /\ \A v \in WaitLists : Waiters(v)' = Waiters(v) \ T /\ Takers(v)' = Takers(v) \ C

LEMMA GoesInv ==
    ASSUME SvcInv, NEW t \in Threads, NEW p, NEW o, Fits(t, p, o), Goes(t, p, o), SvcKernel'
    PROVE  SvcInv'
<1>1. p \in Places /\ o \in Objects \union {None}
  BY DEF Fits
<1>2. /\ pc \in [Threads -> Places] /\ arg \in [Threads -> Objects \union {None}]
      /\ pc' = [pc EXCEPT ![t] = p] /\ arg' = [arg EXCEPT ![t] = o]
      /\ isr' = isr /\ alive' \subseteq alive
  BY DEF SvcInv, Goes
<1>3. pc' \in [Threads -> Places] /\ arg' \in [Threads -> Objects \union {None}]
  BY <1>1, <1>2
<1>4. ASSUME NEW x \in Threads
      PROVE  Fits(x, pc'[x], arg'[x])
  <2>1. CASE x = t
    BY <1>2, <2>1
  <2>2. CASE x # t
    BY <1>2, <2>2 DEF SvcInv
  <2>. QED BY <2>1, <2>2
<1>5. alive \subseteq Objects /\ isr \in {"none", "tick", "timeout"}
  BY DEF SvcInv
<1>. QED BY <1>2, <1>3, <1>4, <1>5 DEF SvcInv

\* The pc and arg of the thread that moves, and of the others.
LEMMA GoesFrame ==
    ASSUME SvcInv, NEW t \in Threads, NEW p, NEW o, Goes(t, p, o)
    PROVE  /\ pc'[t] = p /\ arg'[t] = o
           /\ \A x \in Threads : x # t => pc'[x] = pc[x] /\ arg'[x] = arg[x]
BY DEF SvcInv, Goes

\* The current thread is RUNNING unless it is about to call rt_schedule.
LEMMA CurrentRuns ==
    ASSUME SvcInv, NEW t, k.cur = t, pc[t] \notin SvcSched
    PROVE  /\ t \in Threads /\ k.stat[t] = "running"
           /\ KernelInv(SvcSched, SvcLocked, SvcWait)
           /\ KernelOK(k)
BY CurRuns DEF SvcInv, SvcKernel, KernelInv

LEMMA MoveOK ==
    ASSUME SvcInv, NEW t, k.cur = t, pc[t] \notin SvcSched,
           NEW p, NEW o, Goes(t, p, o), Fits(t, p, o),
           p \notin WaitPlaces, p \in SvcLocked <=> pc[t] \in SvcLocked,
           Quiet(k, k', t), k'.stat = k.stat, k'.cur = k.cur
    PROVE  Kept({t})
<1>1. t \in Threads /\ k.stat[t] = "running" /\ KernelInv(SvcSched, SvcLocked, SvcWait)
  BY CurrentRuns
<1>2. /\ pc'[t] = p /\ arg'[t] = o
      /\ \A x \in Threads : x # t => pc'[x] = pc[x] /\ arg'[x] = arg[x]
  BY <1>1, GoesFrame
<1>3. \A v \in WaitLists : <<pc'[t], arg'[t]>> \notin SvcWait[v]
  BY <1>2, PairsElsewhere
<1>. DEFINE N == {}
<1>4. N \in SUBSET Threads /\ Frees(k, k', N, t)
  BY QuietFrees
<1>. HIDE DEF N
<1>5. /\ SvcKernel'
      /\ \A v \in WaitLists : ToSet(k'.wait[v]) = ToSet(k.wait[v]) \ N
      /\ \A x \in Threads, v \in WaitLists :
            x \notin N /\ x # t => (Served(x, v, SvcWait)' <=> Served(x, v, SvcWait))
      /\ \A v \in WaitLists : ~Served(t, v, SvcWait)'
  BY <1>1, <1>2, <1>3, <1>4, CurStepInv DEF SvcKernel
<1>6. SvcInv'
  BY <1>1, <1>5, GoesInv
<1>7. ASSUME NEW v \in WaitLists
      PROVE  Waiters(v)' = Waiters(v) /\ Takers(v)' = Takers(v) \ {t}
  BY <1>5 DEF Waiters, Takers, N
<1>. QED BY <1>6, <1>7 DEF Kept

\* The same with an untouched kernel.
LEMMA StepOK ==
    ASSUME SvcInv, NEW t, k.cur = t, pc[t] \notin SvcSched, k' = k,
           NEW p, NEW o, Goes(t, p, o), Fits(t, p, o),
           p \notin WaitPlaces, p \in SvcLocked <=> pc[t] \in SvcLocked
    PROVE  Kept({t})
<1>1. KernelOK(k)
  BY CurrentRuns
<1>2. Quiet(k, k', t)
  BY <1>1, QuietSame
<1>. QED BY <1>2, MoveOK

\* The same with a change of the thread's error code.
LEMMA ErrorOK ==
    ASSUME SvcInv, NEW t, k.cur = t, pc[t] \notin SvcSched,
           NEW e \in Errno, k' = [k EXCEPT !.err[t] = e],
           NEW p, NEW o, Goes(t, p, o), Fits(t, p, o),
           p \notin WaitPlaces, p \in SvcLocked <=> pc[t] \in SvcLocked
    PROVE  Kept({t})
<1>1. KernelOK(k) /\ t \in Threads
  BY CurrentRuns
<1>2. Quiet(k, [k EXCEPT !.err[t] = e], t) /\ [k EXCEPT !.err[t] = e].stat = k.stat
      /\ [k EXCEPT !.err[t] = e].cur = k.cur
  BY ONLY <1>1, e \in Errno, QuietError
<1>3. Quiet(k, k', t) /\ k'.stat = k.stat /\ k'.cur = k.cur
  BY <1>2
<1>. QED BY <1>3, MoveOK

\* The current thread serves the threads T of list w.
LEMMA GrantOK ==
    ASSUME SvcInv, NEW t, k.cur = t, pc[t] \notin SvcSched,
           NEW w \in WaitLists, NEW T \in SUBSET Waiters(w), Serves(k, k', T),
           NEW p, NEW o, Goes(t, p, o), Fits(t, p, o),
           p \notin WaitPlaces, p \in SvcLocked <=> pc[t] \in SvcLocked
    PROVE  /\ SvcInv' /\ t \notin T
           /\ \A v \in WaitLists :
                 /\ \A u \in T : u \notin Takers(v)
                 /\ Waiters(v)' = Waiters(v) \ T
                 /\ Takers(v)' = (Takers(v) \ {t}) \union (IF v = w THEN T ELSE {})
<1>1. t \in Threads /\ k.stat[t] = "running" /\ KernelInv(SvcSched, SvcLocked, SvcWait)
  BY CurrentRuns
<1>2. /\ pc'[t] = p /\ arg'[t] = o
      /\ \A x \in Threads : x # t => pc'[x] = pc[x] /\ arg'[x] = arg[x]
  BY <1>1, GoesFrame
<1>3. \A v \in WaitLists : <<pc'[t], arg'[t]>> \notin SvcWait[v]
  BY <1>2, PairsElsewhere
<1>4. T \in SUBSET ToSet(k.wait[w])
  BY DEF Waiters
<1>5. /\ SvcKernel'
      /\ \A v \in WaitLists : ToSet(k'.wait[v]) = ToSet(k.wait[v]) \ T
      /\ \A x \in T : Served(x, w, SvcWait)'
      /\ \A x \in Threads, v \in WaitLists :
            x \notin T /\ x # t => (Served(x, v, SvcWait)' <=> Served(x, v, SvcWait))
      /\ \A v \in WaitLists : ~Served(t, v, SvcWait)'
  BY <1>1, <1>2, <1>3, <1>4, GrantInv DEF SvcKernel
<1>6. SvcInv'
  BY <1>1, <1>5, GoesInv
<1>7. ASSUME NEW u \in T
      PROVE  /\ u \in Threads /\ u # t /\ Waits(pc[u], arg[u], w)
             /\ \A v \in WaitLists : u \notin Takers(v)
  BY <1>1, WaiterWaits
<1>8. ASSUME NEW u \in T, NEW v \in WaitLists
      PROVE  Served(u, v, SvcWait)' <=> v = w
  <2>1. pc'[u] = pc[u] /\ arg'[u] = arg[u]
    BY <1>2, <1>7
  <2>2. Served(u, v, SvcWait)' => Waits(pc[u], arg[u], v)
    BY <2>1, PairWaits DEF Served
  <2>. QED BY <1>5, <1>7, <2>2, WaitsOnce
<1>9. ASSUME NEW v \in WaitLists
      PROVE  /\ Waiters(v)' = Waiters(v) \ T
             /\ Takers(v)' = (Takers(v) \ {t}) \union (IF v = w THEN T ELSE {})
  <2>1. Waiters(v)' = Waiters(v) \ T
    BY <1>5 DEF Waiters
  <2>2. ASSUME NEW x \in Threads
        PROVE  x \in Takers(v)' <=>
                  x \in (Takers(v) \ {t}) \union (IF v = w THEN T ELSE {})
    <3>1. CASE x \in T
      BY <1>7, <1>8, <3>1 DEF Takers
    <3>2. CASE x = t
      BY <1>5, <1>7, <3>2 DEF Takers
    <3>3. CASE x \notin T /\ x # t
      BY <1>5, <3>3 DEF Takers
    <3>. QED BY <3>1, <3>2, <3>3
  <2>3. T \subseteq Threads
    BY <1>7
  <2>. QED BY <2>1, <2>2, <2>3 DEF Takers
<1>. QED BY <1>6, <1>7, <1>9

\* An interrupt handler serves the threads T of list w.
LEMMA IsrGrantOK ==
    ASSUME SvcInv, NEW w \in WaitLists, NEW T \in SUBSET Waiters(w),
           NEW m, Serves(k, m, T), k' = rt_schedule(m), UNCHANGED <<isr, pc, arg, alive>>
    PROVE  /\ SvcInv'
           /\ \A v \in WaitLists :
                 /\ \A u \in T : u \notin Takers(v)
                 /\ Waiters(v)' = Waiters(v) \ T
                 /\ Takers(v)' = Takers(v) \union (IF v = w THEN T ELSE {})
<1>1. KernelInv(SvcSched, SvcLocked, SvcWait) /\ pc' = pc /\ arg' = arg
  BY DEF SvcInv, SvcKernel
<1>2. T \in SUBSET ToSet(k.wait[w])
  BY DEF Waiters
<1>3. /\ SvcKernel'
      /\ \A v \in WaitLists : ToSet(k'.wait[v]) = ToSet(k.wait[v]) \ T
      /\ \A x \in T : Served(x, w, SvcWait)'
      /\ \A x \in Threads, v \in WaitLists :
            x \notin T => (Served(x, v, SvcWait)' <=> Served(x, v, SvcWait))
  BY <1>1, <1>2, IsrGrantInv DEF SvcKernel
<1>4. SvcInv'
  BY <1>3 DEF SvcInv, Fits
<1>5. ASSUME NEW u \in T
      PROVE  /\ u \in Threads /\ Waits(pc[u], arg[u], w)
             /\ \A v \in WaitLists : u \notin Takers(v)
  BY WaiterWaits
<1>6. ASSUME NEW u \in T, NEW v \in WaitLists
      PROVE  Served(u, v, SvcWait)' <=> v = w
  <2>1. Served(u, v, SvcWait)' => Waits(pc[u], arg[u], v)
    BY <1>1, PairWaits DEF Served
  <2>. QED BY <1>3, <1>5, <2>1, WaitsOnce
<1>7. ASSUME NEW v \in WaitLists
      PROVE  /\ Waiters(v)' = Waiters(v) \ T
             /\ Takers(v)' = Takers(v) \union (IF v = w THEN T ELSE {})
  <2>1. Waiters(v)' = Waiters(v) \ T
    BY <1>3 DEF Waiters
  <2>2. ASSUME NEW x \in Threads
        PROVE  x \in Takers(v)' <=> x \in Takers(v) \union (IF v = w THEN T ELSE {})
    <3>1. CASE x \in T
      BY <1>5, <1>6, <3>1 DEF Takers
    <3>2. CASE x \notin T
      BY <1>3, <3>2 DEF Takers
    <3>. QED BY <3>1, <3>2
  <2>3. T \subseteq Threads
    BY <1>5
  <2>. QED BY <2>1, <2>2, <2>3 DEF Takers
<1>. QED BY <1>4, <1>5, <1>7

\* rt_ipc_list_resume serves the first waiter.
LEMMA ListResumeServes ==
    ASSUME SvcInv, NEW w \in WaitLists, k.wait[w] # <<>>
    PROVE  \E u \in Waiters(w) : u \in Threads /\ Serves(k, rt_ipc_list_resume(k, w), {u})
<1>1. KernelOK(k)
  BY DEF SvcInv, SvcKernel, KernelInv
<1>2. PICK u \in Threads : /\ u \in ToSet(k.wait[w])
                           /\ Wakes(k, rt_ipc_list_resume(k, w), u)
                           /\ rt_ipc_list_resume(k, w).err = k.err
  BY <1>1, WakesHead
<1>3. Serves(k, rt_ipc_list_resume(k, w), {u})
  BY <1>2 DEF Wakes, Serves
<1>. QED BY <1>2, <1>3 DEF Waiters

LEMMA WakeOK ==
    ASSUME SvcInv, NEW t, k.cur = t, pc[t] \notin SvcSched,
           NEW w \in WaitLists, k.wait[w] # <<>>, k' = rt_ipc_list_resume(k, w),
           NEW p, NEW o, Goes(t, p, o), Fits(t, p, o),
           p \notin WaitPlaces, p \in SvcLocked <=> pc[t] \in SvcLocked
    PROVE  Woke({t}, w)
<1>1. PICK u \in Waiters(w) : u \in Threads /\ Serves(k, k', {u})
  BY ListResumeServes
<1>. DEFINE T == {u}
<1>2. T \in SUBSET Waiters(w) /\ Serves(k, k', T)
  BY <1>1
<1>. HIDE DEF T
<1>3. /\ SvcInv' /\ t \notin T
      /\ \A v \in WaitLists :
            /\ \A x \in T : x \notin Takers(v)
            /\ Waiters(v)' = Waiters(v) \ T
            /\ Takers(v)' = (Takers(v) \ {t}) \union (IF v = w THEN T ELSE {})
  BY <1>2, GrantOK
<1>. QED BY <1>1, <1>3 DEF Woke, T

LEMMA IsrWakeOK ==
    ASSUME SvcInv, NEW w \in WaitLists, k.wait[w] # <<>>,
           k' = rt_schedule(rt_ipc_list_resume(k, w)), UNCHANGED <<isr, pc, arg, alive>>
    PROVE  Woke({}, w)
<1>. DEFINE m == rt_ipc_list_resume(k, w)
<1>1. PICK u \in Waiters(w) : u \in Threads /\ Serves(k, m, {u})
  BY ListResumeServes
<1>. DEFINE T == {u}
<1>2. T \in SUBSET Waiters(w) /\ Serves(k, m, T) /\ k' = rt_schedule(m)
  BY <1>1
<1>. HIDE DEF T, m
<1>3. /\ SvcInv'
      /\ \A v \in WaitLists :
            /\ \A x \in T : x \notin Takers(v)
            /\ Waiters(v)' = Waiters(v) \ T
            /\ Takers(v)' = Takers(v) \union (IF v = w THEN T ELSE {})
  BY <1>2, IsrGrantOK
<1>. QED BY <1>1, <1>3 DEF Woke, T


-----------------------------------------------------------------------------
(* Waiting, sleeping, leaving with an error.                               *)

\* Thread t has been suspended on list w, with its error code reset.
Parks(ks, r, w, t) ==
    /\ Suspends(ks, r, t)
    /\ r.err[t] = "EOK"
    /\ \A v \in WaitLists :
          ToSet(r.wait[v]) = ToSet(ks.wait[v]) \union (IF v = w THEN {t} ELSE {})

\* rt_ipc_list_suspend and the timer, as most services use them.
LEMMA WaitOnParks ==
    ASSUME NEW ks, NEW w \in WaitLists, NEW t \in Threads, NEW flag, NEW time,
           KernelOK(ks), ks.stat[t] \in {"ready", "running"}
    PROVE  Parks(ks, WaitOn(ks, w, t, flag, time), w, t)
<1>. DEFINE e == [ks EXCEPT !.err[t] = "EOK"]
            r == StartTimer(rt_ipc_list_suspend(e, w, t, flag), t, time)
<1>1. "EOK" \in Errno
  BY DEF Errno
<1>2. /\ Quiet(ks, e, t) /\ e.err[t] = "EOK" /\ e.stat = ks.stat /\ e.cur = ks.cur
      /\ e.wait = ks.wait
  BY ONLY <1>1, t \in Threads, KernelOK(ks), QuietError
<1>. HIDE DEF e
<1>3. Joins(e, r, w, t)
  BY <1>2, TakeBlocks DEF Quiet
<1>. HIDE DEF r
<1>4. Parks(ks, r, w, t)
  BY <1>2, <1>3 DEF Parks, Joins, Suspends, Quiet
<1>. QED BY <1>4 DEF WaitOn, r, e

\* The list of a memory pool, on which the last to come is the first.
LEMMA FrontParks ==
    ASSUME NEW ks, NEW w \in WaitLists, NEW t \in Threads, NEW time,
           KernelOK(ks), ks.stat[t] \in {"ready", "running"}
    PROVE  Parks(ks, StartTimer(SuspendFirst(ks, w, t), t, time), w, t)
<1>. DEFINE e == [ks EXCEPT !.err[t] = "EOK"]
            s == rt_thread_suspend(e, t)
            q == Cons(t, s.wait[w])
            m == [s EXCEPT !.wait[w] = q]
            r == StartTimer(m, t, time)
<1>1. "EOK" \in Errno
  BY DEF Errno
<1>2. /\ Quiet(ks, e, t) /\ e.err[t] = "EOK" /\ e.stat = ks.stat /\ e.cur = ks.cur
      /\ e.wait = ks.wait
  BY ONLY <1>1, t \in Threads, KernelOK(ks), QuietError
<1>3. SuspendFirst(ks, w, t) = m
  <2>1. SuspendFirst(ks, w, t) = [s EXCEPT !.wait[w] = Cons(t, @)]
    BY DEF SuspendFirst
  <2>2. [s EXCEPT !.wait[w] = Cons(t, @)] = m
    OBVIOUS
  <2>. QED BY <2>1, <2>2
<1>. HIDE DEF e
<1>4. KernelOK(e) /\ e.stat[t] \in {"ready", "running"}
  BY <1>2 DEF Quiet
<1>5. KernelOK(s) /\ FreeOf(s, t) /\ \A v \in WaitLists : s.wait[v] = e.wait[v]
  <2>1. Suspended(e, rt_thread_suspend(e, t), t)
    BY ONLY <1>4, t \in Threads, SuspendOK
  <2>. HIDE DEF m, q, r
  <2>. QED BY ONLY <2>1 DEF Suspended, s
<1>. HIDE DEF s
<1>6. s.wait[w] \in Seq(Threads) /\ IsInjective(s.wait[w]) /\ t \notin ToSet(s.wait[w])
  BY <1>5 DEF FreeOf, KernelOK, QueueOK, KernelState
<1>7. q \in Seq(Threads) /\ IsInjective(q) /\ ToSet(q) = ToSet(s.wait[w]) \union {t}
  BY <1>6, ConsFacts
<1>. HIDE DEF q
<1>8. ToSet(q) = ToSet(e.wait[w]) \union {t}
  BY <1>5, <1>7
<1>9. Queued(e, m, w, t)
  BY <1>4, <1>7, <1>8, QueueThread DEF s
<1>. HIDE DEF m
<1>10. e \in KernelState /\ KernelOK(m) /\ m.stat[t] = "suspend"
  BY <1>4, <1>9 DEF Queued, KernelOK, QueueOK, KernelState
<1>11. TimerSet(m, r)
  BY <1>10, StartTimerOK
<1>. HIDE DEF r
<1>12. Suspends(e, r, t) /\ r.err = e.err
  BY <1>9, <1>10, <1>11 DEF Queued, TimerSet, Suspends, KernelState
<1>13. ASSUME NEW v \in WaitLists
       PROVE  ToSet(r.wait[v]) = ToSet(ks.wait[v]) \union (IF v = w THEN {t} ELSE {})
  <2>1. CASE v = w
    BY <1>2, <1>9, <1>11, <2>1 DEF Queued, TimerSet
  <2>2. CASE v # w
    <3>1. r.wait[v] = ks.wait[v]
      BY <1>2, <1>9, <1>11, <2>2 DEF Queued, TimerSet
    <3>. QED BY <2>2, <3>1
  <2>. QED BY <2>1, <2>2
<1>14. Parks(ks, r, w, t)
  BY <1>2, <1>12, <1>13 DEF Parks, Suspends, Quiet
<1>. QED BY <1>3, <1>14 DEF r

\* The current thread, in a call, waits on w.
LEMMA ParkOK ==
    ASSUME SvcInv, NEW t, Calling(t), NEW w \in WaitLists, Parks(k, k', w, t),
           NEW p, NEW o, Goes(t, p, o), Fits(t, p, o), Waits(p, o, w), p \in SvcSched
    PROVE  Joined(t, w)
<1>1. /\ t \in Threads \ {Idle} /\ t = k.cur /\ k.stat[t] = "running"
      /\ KernelInv(SvcSched, SvcLocked, SvcWait) /\ pc[t] \notin SvcLocked
  BY CurrentRuns DEF Calling
<1>2. /\ pc'[t] = p /\ arg'[t] = o
      /\ \A x \in Threads : x # t => pc'[x] = pc[x] /\ arg'[x] = arg[x]
  BY <1>1, GoesFrame
<1>3. p \notin SvcLocked
  BY DEF SvcSched, SvcLocked
<1>4. ASSUME NEW v \in WaitLists
      PROVE  <<pc'[t], arg'[t]>> \in SvcWait[v] <=> v = w
  BY <1>2, PairWaits, WaitsOnce
<1>5. /\ Suspends(k, k', t) /\ k'.err[t] = "EOK"
      /\ \A v \in WaitLists :
            ToSet(k'.wait[v]) = ToSet(k.wait[v]) \union
               (IF <<pc'[t], arg'[t]>> \in SvcWait[v] THEN {t} ELSE {})
  BY <1>4 DEF Parks
<1>6. /\ SvcKernel'
      /\ \A x \in Threads, v \in WaitLists :
            x # t => (Served(x, v, SvcWait)' <=> Served(x, v, SvcWait))
      /\ \A v \in WaitLists : ~Served(t, v, SvcWait)'
  BY <1>1, <1>2, <1>3, <1>5, BlocksInv DEF SvcKernel
<1>7. SvcInv'
  BY <1>1, <1>6, GoesInv
<1>8. ASSUME NEW v \in WaitLists
      PROVE  /\ Waiters(v)' = Waiters(v) \union (IF v = w THEN {t} ELSE {})
             /\ Takers(v)' = Takers(v) \ {t}
  BY <1>4, <1>5, <1>6 DEF Waiters, Takers
<1>. QED BY <1>7, <1>8 DEF Joined

\* The current thread sleeps.
LEMMA SleepOK ==
    ASSUME SvcInv, NEW t, t # Idle, k.cur = t, pc[t] \notin SvcSched, pc[t] \notin SvcLocked,
           NEW time, k' = StartTimer(rt_thread_suspend(k, t), t, time),
           NEW p, NEW o, Goes(t, p, o), Fits(t, p, o), p \notin WaitPlaces, p \in SvcSched
    PROVE  Kept({t})
<1>1. /\ t \in Threads \ {Idle} /\ k.stat[t] = "running"
      /\ KernelInv(SvcSched, SvcLocked, SvcWait)
  BY CurrentRuns
<1>2. /\ pc'[t] = p /\ arg'[t] = o
      /\ \A x \in Threads : x # t => pc'[x] = pc[x] /\ arg'[x] = arg[x]
  BY <1>1, GoesFrame
<1>3. p \notin SvcLocked
  BY DEF SvcSched, SvcLocked
<1>4. \A v \in WaitLists : <<pc'[t], arg'[t]>> \notin SvcWait[v]
  BY <1>2, PairsElsewhere
<1>5. /\ SvcKernel'
      /\ \A v \in WaitLists : ToSet(k'.wait[v]) = ToSet(k.wait[v])
      /\ \A x \in Threads, v \in WaitLists :
            x # t => (Served(x, v, SvcWait)' <=> Served(x, v, SvcWait))
      /\ \A v \in WaitLists : ~Served(t, v, SvcWait)'
  BY <1>1, <1>2, <1>3, <1>4, SleepInv DEF SvcKernel
<1>6. SvcInv'
  BY <1>1, <1>5, GoesInv
<1>7. ASSUME NEW v \in WaitLists
      PROVE  Waiters(v)' = Waiters(v) /\ Takers(v)' = Takers(v) \ {t}
  BY <1>5 DEF Waiters, Takers
<1>. QED BY <1>6, <1>7 DEF Kept

\* Suspended threads T leave their lists with an error.
LEMMA DropOK ==
    ASSUME SvcInv, NEW t, k.cur = t, pc[t] \notin SvcSched,
           NEW T \in SUBSET Threads, Frees(k, k', T, t),
           \A x \in T : k.stat[x] = "suspend" /\ k'.err[x] # "EOK",
           NEW p, NEW o, Goes(t, p, o), Fits(t, p, o),
           p \notin WaitPlaces, p \in SvcLocked <=> pc[t] \in SvcLocked
    PROVE  Dropped({t}, T)
<1>1. t \in Threads /\ k.stat[t] = "running" /\ KernelInv(SvcSched, SvcLocked, SvcWait)
  BY CurrentRuns
<1>2. /\ pc'[t] = p /\ arg'[t] = o
      /\ \A x \in Threads : x # t => pc'[x] = pc[x] /\ arg'[x] = arg[x]
  BY <1>1, GoesFrame
<1>3. \A v \in WaitLists : <<pc'[t], arg'[t]>> \notin SvcWait[v]
  BY <1>2, PairsElsewhere
<1>4. /\ SvcKernel'
      /\ \A v \in WaitLists : ToSet(k'.wait[v]) = ToSet(k.wait[v]) \ T
      /\ \A x \in Threads, v \in WaitLists :
            x \notin T /\ x # t => (Served(x, v, SvcWait)' <=> Served(x, v, SvcWait))
      /\ \A v \in WaitLists : ~Served(t, v, SvcWait)'
  BY <1>1, <1>2, <1>3, CurStepInv DEF SvcKernel
<1>5. SvcInv'
  BY <1>1, <1>4, GoesInv
<1>6. ASSUME NEW x \in T, NEW v \in WaitLists
      PROVE  ~Served(x, v, SvcWait)' /\ ~Served(x, v, SvcWait)
  <2>1. ~Served(x, v, SvcWait)
    BY <1>1, SuspendedUnserved
  <2>2. ~Served(x, v, SvcWait)'
    BY DEF Served
  <2>. QED BY <2>1, <2>2
<1>7. ASSUME NEW v \in WaitLists
      PROVE  Waiters(v)' = Waiters(v) \ T /\ Takers(v)' = Takers(v) \ {t}
  <2>1. Waiters(v)' = Waiters(v) \ T
    BY <1>4 DEF Waiters
  <2>2. ASSUME NEW x \in Threads
        PROVE  Served(x, v, SvcWait)' <=> Served(x, v, SvcWait) /\ x # t
    <3>1. CASE x \in T
      BY <1>6, <3>1
    <3>2. CASE x = t
      BY <1>4, <3>2
    <3>3. CASE x \notin T /\ x # t
      BY <1>4, <3>3
    <3>. QED BY <3>1, <3>2, <3>3
  <2>. QED BY <2>1, <2>2 DEF Takers
<1>. QED BY <1>5, <1>7 DEF Dropped

\* One turn of rt_ipc_list_resume_all.
LEMMA DropFirst ==
    ASSUME SvcInv, NEW t, k.cur = t, pc[t] \notin SvcSched,
           NEW w \in WaitLists, k.wait[w] # <<>>, k' = ResumeWithError(k, w),
           NEW p, NEW o, Goes(t, p, o), Fits(t, p, o),
           p \notin WaitPlaces, p \in SvcLocked <=> pc[t] \in SvcLocked
    PROVE  \E u \in Waiters(w) : Dropped({t}, {u})
<1>1. KernelOK(k)
  BY CurrentRuns
<1>2. PICK u \in ToSet(k.wait[w]) : /\ u \in Threads
                                    /\ Wakes(k, k', u)
                                    /\ k'.err[u] = "ERROR"
  BY <1>1, WakesError
<1>3. k.stat[u] = "suspend"
  BY <1>1, <1>2 DEF KernelOK, QueueOK, WaitOK
<1>. DEFINE T == {u}
<1>4. T \in SUBSET Threads /\ Frees(k, k', T, t)
      /\ \A x \in T : k.stat[x] = "suspend" /\ k'.err[x] # "EOK"
  BY <1>1, <1>2, <1>3, WakesFrees
<1>. HIDE DEF T
<1>5. Dropped({t}, T)
  BY <1>4, DropOK
<1>. QED BY <1>2, <1>5 DEF T, Waiters

\* The whole loop.
LEMMA DropAll ==
    ASSUME SvcInv, NEW t, k.cur = t, pc[t] \notin SvcSched,
           NEW w \in WaitLists, k' = rt_ipc_list_resume_all(k, w),
           NEW p, NEW o, Goes(t, p, o), Fits(t, p, o),
           p \notin WaitPlaces, p \in SvcLocked <=> pc[t] \in SvcLocked
    PROVE  Dropped({t}, Waiters(w))
<1>1. KernelOK(k)
  BY CurrentRuns
<1>. DEFINE T == ToSet(k.wait[w])
<1>2. WakesAll(k, k', T)
  BY <1>1, ResumeAllOK
<1>3. T \in SUBSET Threads
  BY <1>1, WaitersAreThreads
<1>4. \A x \in T : k.stat[x] = "suspend"
  BY <1>1 DEF KernelOK, QueueOK, WaitOK
<1>. HIDE DEF T
<1>5. Frees(k, k', T, t) /\ \A x \in T : k.stat[x] = "suspend" /\ k'.err[x] # "EOK"
  <2>1. Frees(k, k', T, t)
    BY <1>1, <1>2, <1>3, WakesAllFrees
  <2>2. \A x \in T : k'.err[x] = "ERROR"
    BY <1>2 DEF WakesAll
  <2>. QED BY <1>4, <2>1, <2>2
<1>6. Dropped({t}, T)
  BY <1>3, <1>5, DropOK
<1>. QED BY <1>6 DEF T, Waiters

\* The loop on two lists, one after the other, in one critical section.
LEMMA DropBoth ==
    ASSUME SvcInv, NEW t, k.cur = t, pc[t] \notin SvcSched,
           NEW v \in WaitLists, NEW w \in WaitLists,
           k' = rt_ipc_list_resume_all(rt_ipc_list_resume_all(k, v), w),
           NEW p, NEW o, Goes(t, p, o), Fits(t, p, o),
           p \notin WaitPlaces, p \in SvcLocked <=> pc[t] \in SvcLocked
    PROVE  Dropped({t}, Waiters(v) \union Waiters(w))
<1>1. KernelOK(k)
  BY CurrentRuns
<1>. DEFINE m == rt_ipc_list_resume_all(k, v)
            A == ToSet(k.wait[v])
            B == ToSet(m.wait[w])
            T == A \union B
<1>2. WakesAll(k, m, A) /\ A \in SUBSET Threads
  BY <1>1, ResumeAllOK, WaitersAreThreads
<1>. HIDE DEF m
<1>3. KernelOK(m) /\ k' = rt_ipc_list_resume_all(m, w)
  BY <1>2 DEF WakesAll, m
<1>4. WakesAll(m, k', B) /\ B \in SUBSET Threads
  BY <1>3, ResumeAllOK, WaitersAreThreads
<1>5. A \union ToSet(k.wait[w]) = T
  BY <1>2 DEF WakesAll
<1>6. \A x \in T : k.stat[x] = "suspend"
  BY <1>1, <1>5 DEF KernelOK, QueueOK, WaitOK
<1>. HIDE DEF A, B
<1>7. Frees(k, m, A, t) /\ Frees(m, k', B, t)
  BY <1>1, <1>2, <1>3, <1>4, WakesAllFrees
<1>8. T \in SUBSET Threads /\ Frees(k, k', T, t)
  BY <1>1, <1>2, <1>4, <1>7, FreesTwice
<1>9. \A x \in T : k'.err[x] # "EOK"
  <2>1. ASSUME NEW x \in B PROVE k'.err[x] # "EOK"
    BY <1>4 DEF WakesAll
  <2>2. ASSUME NEW x \in A, x \notin B PROVE k'.err[x] # "EOK"
    <3>1. x \in Threads /\ m.err[x] = "ERROR"
      BY <1>2 DEF WakesAll
    <3>. QED BY <1>4, <2>2, <3>1 DEF WakesAll
  <2>. QED BY <2>1, <2>2
<1>. HIDE DEF T
<1>10. Dropped({t}, T)
  BY <1>6, <1>8, <1>9, DropOK
<1>. QED BY <1>5, <1>10 DEF Waiters, A

-----------------------------------------------------------------------------
(* rt_schedule, the tick, the scheduler lock.                              *)

\* rt_schedule inside a call: thread t goes on at q, when it runs again.
LEMMA ReschedOK ==
    ASSUME SvcInv, NEW t \in Threads, k' = rt_schedule(k),
           NEW q, pc' = [pc EXCEPT ![t] = q], UNCHANGED <<isr, arg, alive>>,
           Fits(t, q, arg[t]), q \in SvcLocked <=> pc[t] \in SvcLocked,
           \A v \in WaitLists : Waits(q, arg[t], v) <=> Waits(pc[t], arg[t], v)
    PROVE  Kept({})
<1>1. KernelInv(SvcSched, SvcLocked, SvcWait) /\ pc \in [Threads -> Places]
      /\ arg \in [Threads -> Objects \union {None}]
  BY DEF SvcInv, SvcKernel
<1>2. Goes(t, q, arg[t])
  BY <1>1 DEF Goes
<1>3. /\ pc'[t] = q
      /\ \A x \in Threads : x # t => pc'[x] = pc[x]
  BY <1>2, GoesFrame
<1>4. \A v \in WaitLists : <<pc'[t], arg[t]>> \in SvcWait[v] <=> <<pc[t], arg[t]>> \in SvcWait[v]
  BY <1>3, PairWaits
<1>5. /\ SvcKernel'
      /\ \A v \in WaitLists : ToSet(k'.wait[v]) = ToSet(k.wait[v])
      /\ \A x \in Threads, v \in WaitLists : Served(x, v, SvcWait)' <=> Served(x, v, SvcWait)
  BY <1>1, <1>3, <1>4, ReschedInv DEF SvcKernel
<1>6. SvcInv'
  BY <1>2, <1>5, GoesInv
<1>7. ASSUME NEW v \in WaitLists
      PROVE  Waiters(v)' = Waiters(v) /\ Takers(v)' = Takers(v) \ {}
  BY <1>5 DEF Waiters, Takers
<1>. QED BY <1>6, <1>7 DEF Kept

\* Waiters may have left by timeout, and nothing else has happened.
Timed ==
    /\ SvcInv'
    /\ \A v \in WaitLists : Waiters(v)' \subseteq Waiters(v) /\ Takers(v)' = Takers(v)

LEMMA TickOK ==
    ASSUME SvcInv, Tick, UNCHANGED <<pc, arg, alive>>
    PROVE  Timed
<1>1. KernelInv(SvcSched, SvcLocked, SvcWait) /\ pc' = pc /\ arg' = arg /\ alive' = alive
  BY DEF SvcInv, SvcKernel
<1>2. /\ SvcKernel'
      /\ \A w \in WaitLists : ToSet(k'.wait[w]) \subseteq ToSet(k.wait[w])
      /\ \A x \in Threads, w \in WaitLists : Served(x, w, SvcWait)' <=> Served(x, w, SvcWait)
      /\ isr' \in {"none", "tick", "timeout"}
  BY <1>1, TickInv DEF SvcKernel
<1>3. SvcInv'
  BY <1>1, <1>2 DEF SvcInv, Fits
<1>. QED BY <1>2, <1>3 DEF Timed, Waiters, Takers

\* A step that touches none of this.
LEMMA StillOK ==
    ASSUME SvcInv, UNCHANGED <<k, isr, pc, arg, alive>>
    PROVE  Kept({})
<1>1. SvcInv'
  BY DEF SvcInv, SvcKernel, KernelInv, Fits
<1>2. \A v \in WaitLists : Waiters(v)' = Waiters(v) /\ Takers(v)' = Takers(v)
  BY DEF Waiters, Takers, Served
<1>. QED BY <1>1, <1>2 DEF Kept

\* rt_enter_critical and rt_exit_critical, by the current thread.
LEMMA LockOK ==
    ASSUME SvcInv, NEW t, k.cur = t, pc[t] \notin SvcSched, pc[t] \notin WaitPlaces,
           NEW p, NEW o, Goes(t, p, o), Fits(t, p, o), p \notin WaitPlaces,
           NEW n, n = (IF p \in SvcLocked THEN 1 ELSE 0), k' = [k EXCEPT !.lock = n]
    PROVE  Kept({t})
<1>1. /\ t \in Threads /\ k.stat[t] = "running" /\ KernelInv(SvcSched, SvcLocked, SvcWait)
      /\ KernelOK(k)
  BY CurrentRuns
<1>2. /\ pc'[t] = p /\ arg'[t] = o
      /\ \A x \in Threads : x # t => pc'[x] = pc[x] /\ arg'[x] = arg[x]
  BY <1>1, GoesFrame
<1>3. k \in KernelState /\ n \in Nat
  BY <1>1 DEF KernelOK, QueueOK
<1>4. /\ k' \in KernelState /\ k'.lock = n /\ k'.stat = k.stat /\ k'.prio = k.prio
      /\ k'.err = k.err /\ k'.ready = k.ready /\ k'.group = k.group /\ k'.wait = k.wait
      /\ k'.defunct = k.defunct /\ k'.timers = k.timers /\ k'.cur = k.cur
  BY <1>3 DEF KernelState
<1>5. KernelOK(k')
  BY <1>1, <1>4 DEF KernelOK, QueueOK, ReadyOK, WaitOK, DefunctOK, TimersOK, CurOK
<1>6. \A v \in WaitLists : /\ <<pc'[t], arg'[t]>> \notin SvcWait[v]
                           /\ <<pc[t], arg[t]>> \notin SvcWait[v]
  BY <1>2, PairsElsewhere
<1>7. SvcKernel'
  <2>1. k'.lock = IF pc'[k'.cur] \in SvcLocked THEN 1 ELSE 0
    BY <1>2, <1>4
  <2>2. ASSUME NEW x \in Threads, pc'[x] \in SvcLocked
        PROVE  x = k'.cur /\ k'.stat[x] = "running"
    <3>1. CASE x = t
      BY <1>1, <1>4, <3>1
    <3>2. CASE x # t
      BY <1>1, <1>2, <1>4, <2>2, <3>2 DEF KernelInv
    <3>. QED BY <3>1, <3>2
  <2>3. k'.stat[Idle] \in Ready /\ k'.stat[k'.cur] = "running"
    BY <1>1, <1>4 DEF KernelInv
  <2>4. ASSUME NEW w \in WaitLists, NEW x \in ToSet(k'.wait[w])
        PROVE  <<pc'[x], arg'[x]>> \in SvcWait[w] /\ k'.err[x] = "EOK"
    <3>1. x \in ToSet(k.wait[w]) /\ x \in Threads
      BY <1>1, <1>4, WaitersAreThreads
    <3>2. <<pc[x], arg[x]>> \in SvcWait[w] /\ k.err[x] = "EOK"
      BY <1>1, <3>1 DEF KernelInv
    <3>3. x # t
      BY <1>6, <3>2
    <3>. QED BY <1>2, <1>4, <3>1, <3>2, <3>3
  <2>5. ASSUME NEW x \in Threads, NEW w \in WaitLists,
               <<pc'[x], arg'[x]>> \in SvcWait[w], x \notin ToSet(k'.wait[w])
        PROVE  k'.stat[x] \in Ready
    <3>1. x # t
      BY <1>6, <2>5
    <3>. QED BY <1>1, <1>2, <1>4, <2>5, <3>1 DEF KernelInv
  <2>. QED BY <1>5, <2>1, <2>2, <2>3, <2>4, <2>5 DEF SvcKernel, KernelInv
<1>8. SvcInv'
  BY <1>1, <1>7, GoesInv
<1>9. ASSUME NEW v \in WaitLists
      PROVE  Waiters(v)' = Waiters(v) /\ Takers(v)' = Takers(v) \ {t}
  <2>1. ASSUME NEW x \in Threads
        PROVE  Served(x, v, SvcWait)' <=> Served(x, v, SvcWait) /\ x # t
    BY <1>2, <1>4, <1>6 DEF Served
  <2>2. Waiters(v)' = Waiters(v)
    BY <1>4 DEF Waiters
  <2>. QED BY <2>1, <2>2 DEF Takers
<1>. QED BY <1>8, <1>9 DEF Kept

-----------------------------------------------------------------------------
(* The steps of which the calls are made.                                  *)

\* Something was made available to the threads on w.
Offered(C, w) == (Waiters(w) = {} /\ Kept(C)) \/ Woke(C, w)

LEMMA CommonFits ==
    ASSUME NEW t \in Threads, t # Idle, NEW o \in Objects \union {None},
           NEW p \in {"run", "ret_sched", "det_object", "sleep_sched", "slept", "dqx_sched"}
    PROVE  Fits(t, p, o) /\ p \notin WaitPlaces /\ p \notin SvcLocked
BY DEF Fits, Places, MailPlaces, MqPlaces, EvPlaces, MpPlaces, CpPlaces, DqPlaces,
       WaitPlaces, SvcLocked

LEMMA NotTaker ==
    ASSUME NEW t, pc[t] \notin WaitPlaces \/ k.err[t] # "EOK", NEW v \in WaitLists
    PROVE  t \notin Takers(v)
BY TakerWaits, WaitsPlace

LEMMA KeptNone ==
    ASSUME NEW t, Kept({t}), \A v \in WaitLists : t \notin Takers(v)
    PROVE  Kept({})
BY DEF Kept

LEMMA CallsCalling ==
    ASSUME SvcInv, NEW t, NEW o, Calls(t, o)
    PROVE  /\ Calling(t) /\ t \in Threads /\ t # Idle /\ pc[t] = "run"
           /\ o \in Objects /\ arg[t] \in Objects \union {None}
           /\ pc[t] \notin WaitPlaces
           /\ \A v \in WaitLists : t \notin Takers(v)
<1>1. t \in Threads /\ t # Idle /\ pc[t] = "run" /\ k.cur = t
  BY IpcAssumption DEF Calls, At
<1>2. "run" \notin SvcSched /\ "run" \notin SvcLocked /\ "run" \notin WaitPlaces
  BY DEF SvcSched, SvcLocked, WaitPlaces
<1>3. o \in Objects /\ arg[t] \in Objects \union {None}
  BY <1>1 DEF SvcInv, Calls
<1>. QED BY <1>1, <1>2, <1>3, NotTaker DEF Calling

LEMMA AtCalling ==
    ASSUME SvcInv, NEW t, NEW p, At(t, p), p # "run",
           p \notin SvcSched, p \notin SvcLocked
    PROVE  /\ Calling(t) /\ t \in Threads /\ t # Idle /\ pc[t] = p
           /\ Fits(t, p, arg[t]) /\ arg[t] \in Objects \union {None}
<1>1. KernelOK(k) /\ k.cur = t /\ pc[t] = p
  BY DEF SvcInv, SvcKernel, KernelInv, At
<1>2. t \in Threads
  BY <1>1 DEF KernelOK, QueueOK, KernelState
<1>3. Fits(t, p, arg[t]) /\ arg[t] \in Objects \union {None}
  BY <1>1, <1>2 DEF SvcInv
<1>4. t # Idle
  BY <1>3 DEF Fits
<1>. QED BY <1>1, <1>2, <1>3, <1>4 DEF Calling

LEMMA ProceedGoes ==
    ASSUME NEW t, NEW o, NEW p, Proceed(t, o, p), UNCHANGED <<isr, alive>>
    PROVE  Goes(t, p, o)
BY DEF Proceed, Go, Goes

LEMMA GoGoes ==
    ASSUME SvcInv, NEW t \in Threads, NEW p, Go(t, p), UNCHANGED <<isr, arg, alive>>
    PROVE  Goes(t, p, arg[t])
<1>1. arg \in [Threads -> Objects \union {None}]
  BY DEF SvcInv
<1>. QED BY <1>1 DEF Go, Goes

\* The call is over and the kernel untouched.
LEMMA LeaveOK ==
    ASSUME SvcInv, NEW t, Calling(t), k' = k, Return(t), UNCHANGED <<isr, alive>>
    PROVE  Kept({t})
<1>1. /\ t \in Threads /\ t # Idle /\ k.cur = t
      /\ pc[t] \notin SvcSched /\ pc[t] \notin SvcLocked
  BY DEF Calling
<1>2. Goes(t, "run", None)
  BY DEF Return, Go, Goes
<1>3. Fits(t, "run", None) /\ "run" \notin WaitPlaces /\ "run" \notin SvcLocked
  BY <1>1, CommonFits
<1>. QED BY <1>1, <1>2, <1>3, StepOK

LEMMA LeaveReturns ==
    ASSUME NEW t, Leave(t)
    PROVE  Return(t)
BY DEF Leave, LeaveVia, Proceed, Return

LEMMA WakeAndLeaveOK ==
    ASSUME SvcInv, NEW t, Calling(t), NEW w \in WaitLists, WakeAndLeave(t, w),
           UNCHANGED <<isr, alive>>
    PROVE  Offered({t}, w)
<1>1. /\ t \in Threads /\ t # Idle /\ k.cur = t
      /\ pc[t] \notin SvcSched /\ pc[t] \notin SvcLocked
  BY DEF Calling
<1>2. CASE k.wait[w] # <<>>
  <2>1. k' = rt_ipc_list_resume(k, w) /\ Goes(t, "ret_sched", None)
    BY <1>2, ProceedGoes DEF WakeAndLeave, LeaveVia
  <2>2. Fits(t, "ret_sched", None) /\ "ret_sched" \notin WaitPlaces /\ "ret_sched" \notin SvcLocked
    BY <1>1, CommonFits
  <2>3. Woke({t}, w)
    BY <1>1, <1>2, <2>1, <2>2, WakeOK
  <2>. QED BY <2>3 DEF Offered
<1>3. CASE k.wait[w] = <<>>
  <2>1. k' = k /\ Return(t)
    BY <1>3, LeaveReturns DEF WakeAndLeave
  <2>2. Kept({t})
    BY <2>1, LeaveOK
  <2>3. Waiters(w) = {}
    BY <1>3 DEF Waiters, ToSet
  <2>. QED BY <2>2, <2>3 DEF Offered
<1>. QED BY <1>2, <1>3

LEMMA IsrWakeAnyOK ==
    ASSUME SvcInv, NEW w \in WaitLists, IsrWake(w), UNCHANGED <<isr, pc, arg, alive>>
    PROVE  Offered({}, w)
<1>1. CASE k.wait[w] # <<>>
  <2>1. k' = rt_schedule(rt_ipc_list_resume(k, w))
    BY <1>1 DEF IsrWake
  <2>2. Woke({}, w)
    BY <1>1, <2>1, IsrWakeOK
  <2>. QED BY <2>2 DEF Offered
<1>2. CASE k.wait[w] = <<>>
  <2>1. k' = k
    BY <1>2 DEF IsrWake
  <2>2. Kept({})
    BY <2>1, StillOK
  <2>3. Waiters(w) = {}
    BY <1>2 DEF Waiters, ToSet
  <2>. QED BY <2>2, <2>3 DEF Offered
<1>. QED BY <1>1, <1>2

LEMMA FailedOK ==
    ASSUME SvcInv, NEW t, Calling(t), Failed(t), UNCHANGED <<isr, alive>>
    PROVE  Kept({})
<1>1. k' = k /\ Return(t) /\ k.err[t] # "EOK"
  BY LeaveReturns DEF Failed
<1>2. Kept({t})
  BY <1>1, LeaveOK
<1>3. \A v \in WaitLists : t \notin Takers(v)
  BY <1>1, NotTaker
<1>. QED BY <1>2, <1>3, KeptNone

LEMMA TimedOutOK ==
    ASSUME SvcInv, NEW t, Calling(t), NEW time, TimedOut(t, time), UNCHANGED <<isr, alive>>
    PROVE  Kept({t})
<1>1. /\ t \in Threads /\ t # Idle /\ k.cur = t
      /\ pc[t] \notin SvcSched /\ pc[t] \notin SvcLocked
  BY DEF Calling
<1>2. Goes(t, "run", None) /\ k' = [k EXCEPT !.err[t] = "ETIMEOUT"]
  BY LeaveReturns DEF TimedOut, Return, Go, Goes
<1>3. Fits(t, "run", None) /\ "run" \notin WaitPlaces /\ "run" \notin SvcLocked
  BY <1>1, CommonFits
<1>4. "ETIMEOUT" \in Errno
  BY DEF Errno
<1>. QED BY <1>1, <1>2, <1>3, <1>4, ErrorOK

\* A call that waits, at a place of its own.
LEMMA BlockOK ==
    ASSUME SvcInv, NEW t, Calling(t), NEW o, NEW w \in WaitLists, NEW flag, NEW time, NEW p,
           k' = WaitOn(k, w, t, flag, time), Proceed(t, o, p), UNCHANGED <<isr, alive>>,
           Fits(t, p, o), Waits(p, o, w), p \in SvcSched
    PROVE  Joined(t, w)
<1>1. t \in Threads /\ k.cur = t /\ pc[t] \notin SvcSched
  BY DEF Calling
<1>2. KernelOK(k) /\ k.stat[t] \in {"ready", "running"}
  BY <1>1, CurrentRuns
<1>3. Parks(k, k', w, t)
  BY <1>1, <1>2, WaitOnParks
<1>4. Goes(t, p, o)
  BY ProceedGoes
<1>. QED BY <1>3, <1>4, ParkOK

\* A thread enters rt_xxx_detach or rt_xxx_delete.
LEMMA DetachCallOK ==
    ASSUME SvcInv, NEW t, NEW o, NEW p, DetachCall(t, o, p),
           t # Idle => Fits(t, p, o), p \notin WaitPlaces, p \notin SvcLocked
    PROVE  Kept({})
<1>1. /\ Calling(t) /\ t # Idle
      /\ \A v \in WaitLists : t \notin Takers(v)
  BY CallsCalling DEF DetachCall
<1>2. Goes(t, p, o) /\ k' = k
  BY ProceedGoes DEF DetachCall
<1>3. k.cur = t /\ pc[t] \notin SvcSched /\ pc[t] \notin SvcLocked
  BY <1>1 DEF Calling
<1>4. Kept({t})
  BY <1>1, <1>2, <1>3, StepOK
<1>. QED BY <1>1, <1>4, KeptNone

\* The loop of rt_ipc_list_resume_all with interrupts enabled: the test.
LEMMA ResumeAllTestOK ==
    ASSUME SvcInv, NEW t, NEW w, NEW test, NEW wake, NEW done,
           ResumeAllTest(t, w, test, wake, done),
           test \notin SvcSched, test \notin WaitPlaces,
           Fits(t, test, arg[t]) => Fits(t, wake, arg[t]) /\ Fits(t, done, arg[t]),
           wake \notin WaitPlaces, done \notin WaitPlaces,
           wake \in SvcLocked <=> test \in SvcLocked,
           done \in SvcLocked <=> test \in SvcLocked
    PROVE  Kept({})
<1>1. k.cur = t /\ pc[t] = test /\ k' = k
  BY DEF ResumeAllTest, At
<1>2. t \in Threads
  BY <1>1, CurrentRuns
<1>3. Fits(t, test, arg[t])
  BY <1>1, <1>2 DEF SvcInv
<1>4. PICK p \in {wake, done} : Go(t, p) /\ UNCHANGED <<isr, arg, alive>>
  BY DEF ResumeAllTest
<1>5. Goes(t, p, arg[t])
  BY <1>2, <1>4, GoGoes
<1>6. Fits(t, p, arg[t]) /\ p \notin WaitPlaces /\ (p \in SvcLocked <=> pc[t] \in SvcLocked)
  BY <1>1, <1>3, <1>4
<1>7. Kept({t})
  BY <1>1, <1>5, <1>6, StepOK
<1>8. \A v \in WaitLists : t \notin Takers(v)
  BY <1>1, NotTaker
<1>. QED BY <1>7, <1>8, KeptNone

\* The loop of rt_ipc_list_resume_all with interrupts enabled: one waiter, or
\* nobody when the list has become empty since the test.
LEMMA ResumeAllWakeOK ==
    ASSUME SvcInv, NEW t, NEW w \in WaitLists, NEW wake, NEW test,
           ResumeAllWake(t, w, wake, test),
           wake \notin SvcSched, wake \notin WaitPlaces, test \notin WaitPlaces,
           Fits(t, wake, arg[t]) => Fits(t, test, arg[t]),
           wake \in SvcLocked <=> test \in SvcLocked
    PROVE  /\ Kept({}) \/ \E u \in Waiters(w) : Dropped({}, {u})
           /\ \E T : Dropped({}, T)
<1>1. /\ k.cur = t /\ pc[t] = wake
      /\ k' = IF k.wait[w] = <<>> THEN k ELSE ResumeWithError(k, w)
  BY DEF ResumeAllWake, At
<1>2. t \in Threads
  BY <1>1, CurrentRuns
<1>3. Fits(t, test, arg[t])
  BY <1>1, <1>2 DEF SvcInv
<1>4. Goes(t, test, arg[t])
  BY <1>2, GoGoes DEF ResumeAllWake
<1>5. \A v \in WaitLists : t \notin Takers(v)
  BY <1>1, NotTaker
<1>6. CASE k.wait[w] = <<>>
  <2>1. Kept({t})
    BY <1>1, <1>3, <1>4, <1>6, StepOK
  <2>2. Kept({})
    BY <1>5, <2>1, KeptNone
  <2>3. Dropped({}, {})
    BY <2>2 DEF Kept, Dropped
  <2>. QED BY <2>2, <2>3
<1>7. CASE k.wait[w] # <<>>
  <2>1. PICK u \in Waiters(w) : Dropped({t}, {u})
    BY <1>1, <1>3, <1>4, <1>7, DropFirst
  <2>2. Dropped({}, {u})
    BY <1>5, <2>1 DEF Dropped
  <2>. QED BY <2>2
<1>. QED BY <1>6, <1>7

-----------------------------------------------------------------------------
(* What a step of a service is for the others: it serves, suspends and     *)
(* drops threads of its own lists only.                                    *)

\* C is empty or has one thread, which has been served on w if anywhere.
Only(C, w) ==
    /\ C = {} \/ \E t \in Threads : C = {t}
    /\ \A v \in WaitLists : v # w => C \intersect Takers(v) = {}

\* Having looked on v, C offers something to the threads on w.
Passes(C, v, w) == Only(C, v) /\ Offered(C, w)

\* Having looked on w, t waits there.
Enters(t, w) == Only({t}, w) /\ Joined(t, w)

\* Having looked on w, t ends its call.
Quits(t, w) == Only({t}, w) /\ Kept({t})

\* The threads T of list w are served at once.
Gave(w, T) ==
    /\ SvcInv'
    /\ T \subseteq Waiters(w)
    /\ \A v \in WaitLists :
          /\ T \intersect Takers(v) = {}
          /\ Waiters(v)' = Waiters(v) \ T
          /\ Takers(v)' = Takers(v) \union (IF v = w THEN T ELSE {})

Acts(A) ==
    \/ \E v \in A, w \in A : \E C : Passes(C, v, w)
    \/ \E w \in A : \E t : Enters(t, w) \/ Quits(t, w)
    \/ \E w \in A : \E T : Gave(w, T)
    \/ \E T : Dropped({}, T)

Foot(A) ==
    /\ SvcInv'
    /\ \A v \in WaitLists \ A : Waiters(v)' \subseteq Waiters(v) /\ Takers(v)' = Takers(v)

LEMMA FootOK ==
    ASSUME NEW A, Acts(A)
    PROVE  Foot(A)
<1>1. ASSUME NEW v \in A, NEW w \in A, NEW C, Passes(C, v, w)
      PROVE  Foot(A)
  <2>1. CASE Kept(C)
    BY <1>1, <2>1 DEF Passes, Only, Kept, Foot
  <2>2. CASE Woke(C, w)
    BY <1>1, <2>2 DEF Passes, Only, Woke, Foot
  <2>. QED BY <1>1, <2>1, <2>2 DEF Passes, Offered
<1>2. ASSUME NEW w \in A, NEW t, Enters(t, w)
      PROVE  Foot(A)
  BY <1>2 DEF Enters, Only, Joined, Foot
<1>3. ASSUME NEW w \in A, NEW t, Quits(t, w)
      PROVE  Foot(A)
  BY <1>3 DEF Quits, Only, Kept, Foot
<1>4. ASSUME NEW w \in A, NEW T, Gave(w, T)
      PROVE  Foot(A)
  BY <1>4 DEF Gave, Foot
<1>5. ASSUME NEW T, Dropped({}, T)
      PROVE  Foot(A)
  BY <1>5 DEF Dropped, Foot
<1>. QED BY <1>1, <1>2, <1>3, <1>4, <1>5 DEF Acts

\* A thread that is in no call, or waits nowhere, has been served nowhere.
LEMMA OnlyNobody ==
    ASSUME NEW w
    PROVE  Only({}, w)
BY DEF Only

LEMMA OnlyUnserved ==
    ASSUME NEW t \in Threads, \A v \in WaitLists : t \notin Takers(v), NEW w
    PROVE  Only({t}, w)
BY DEF Only

\* A thread between its wake-up and its look has been served on its own list.
LEMMA OnlyOwn ==
    ASSUME NEW t \in Threads, NEW w \in WaitLists, Waits(pc[t], arg[t], w)
    PROVE  Only({t}, w)
<1>1. ASSUME NEW v \in WaitLists, v # w
      PROVE  t \notin Takers(v)
  BY <1>1, TakerWaits, WaitsOnce
<1>. QED BY <1>1 DEF Only

\* A step that leaves everyone where they are.
LEMMA KeptDrops ==
    ASSUME Kept({})
    PROVE  Dropped({}, {})
BY DEF Kept, Dropped

-----------------------------------------------------------------------------
(* No lost wake-up, for any service: while threads wait on w, the n things *)
(* that they could take are matched by threads served but yet to look.     *)

Matched(n, w) == Waiters(w) # {} => n <= Cardinality(Takers(w))

LEMMA MatchedMore ==
    ASSUME NEW n \in Int, NEW v, NEW w \in WaitLists, v # w, NEW C, Passes(C, v, w),
           Matched(n, w), NEW m \in Int, m <= n + 1
    PROVE  Matched(m, w)'
<1>1. CASE Waiters(w) = {} /\ Kept(C)
  BY <1>1 DEF Matched, Kept
<1>2. CASE Woke(C, w)
  <2>1. PICK u \in Threads : /\ u \in Waiters(w) /\ u \notin Takers(w)
                             /\ Takers(w)' = (Takers(w) \ C) \union {u}
    BY <1>2 DEF Woke
  <2>2. C \intersect Takers(w) = {}
    BY DEF Passes, Only
  <2>3. Takers(w)' = Takers(w) \union {u}
    BY <2>1, <2>2
  <2>4. IsFiniteSet(Takers(w)) /\ Cardinality(Takers(w)) \in Nat
    BY TakersFinite
  <2>5. Cardinality(Takers(w)') = Cardinality(Takers(w)) + 1
    BY <2>1, <2>3, <2>4, FS_AddElement
  <2>6. n <= Cardinality(Takers(w))
    BY <2>1 DEF Matched
  <2>. QED BY <2>4, <2>5, <2>6 DEF Matched
<1>. QED BY <1>1, <1>2 DEF Passes, Offered

\* At most one of those who were served has looked.
LEMMA CountLess ==
    ASSUME NEW w \in WaitLists, NEW C, Only(C, w)
    PROVE  /\ Cardinality(Takers(w)) \in Nat /\ Cardinality(Takers(w) \ C) \in Nat
           /\ Cardinality(Takers(w)) - 1 <= Cardinality(Takers(w) \ C)
<1>1. IsFiniteSet(Takers(w)) /\ Cardinality(Takers(w)) \in Nat
  BY TakersFinite
<1>2. CASE C = {}
  <2>1. Takers(w) \ C = Takers(w)
    BY <1>2
  <2>. QED BY <1>1, <2>1
<1>3. ASSUME NEW t \in Threads, C = {t}
      PROVE  /\ Cardinality(Takers(w) \ C) \in Nat
             /\ Cardinality(Takers(w)) - 1 <= Cardinality(Takers(w) \ C)
  <2>1. CASE t \in Takers(w)
    <3>1. Cardinality(Takers(w) \ {t}) = Cardinality(Takers(w)) - 1
          /\ IsFiniteSet(Takers(w) \ {t})
      BY <1>1, <2>1, FS_RemoveElement
    <3>2. Cardinality(Takers(w) \ {t}) \in Nat
      BY <3>1, FS_CardinalityType
    <3>. QED BY <1>1, <1>3, <3>1, <3>2
  <2>2. CASE t \notin Takers(w)
    <3>1. Takers(w) \ C = Takers(w)
      BY <1>3, <2>2
    <3>. QED BY <1>1, <3>1
  <2>. QED BY <2>1, <2>2
<1>. QED BY <1>1, <1>2, <1>3 DEF Only

LEMMA MatchedLess ==
    ASSUME NEW n \in Int, NEW v \in WaitLists, NEW w, v # w, NEW C,
           Passes(C, v, w), Matched(n, v), NEW m \in Int, m <= n - 1
    PROVE  Matched(m, v)'
<1>1. Waiters(v)' \subseteq Waiters(v) /\ Takers(v)' = Takers(v) \ C
  <2>1. CASE Kept(C)
    BY <2>1 DEF Kept
  <2>2. CASE Woke(C, w)
    BY <2>2 DEF Woke
  <2>. QED BY <2>1, <2>2 DEF Passes, Offered
<1>2. /\ Cardinality(Takers(v)) \in Nat /\ Cardinality(Takers(v) \ C) \in Nat
      /\ Cardinality(Takers(v)) - 1 <= Cardinality(Takers(v) \ C)
  BY CountLess DEF Passes
<1>. QED BY <1>1, <1>2 DEF Matched

\* Nothing to take.
LEMMA MatchedNone ==
    ASSUME NEW w, NEW m \in Int, m <= 0
    PROVE  Matched(m, w)'
<1>1. (IsFiniteSet(Takers(w)) /\ Cardinality(Takers(w)) \in Nat)'
  <2>1. (Takers(w) \in SUBSET Threads)' /\ IsFiniteSet(Threads)
    BY KernelAssumption DEF Takers
  <2>. QED BY <2>1, FS_Subset, FS_CardinalityType
<1>2. Cardinality(Takers(w)') \in Nat
  BY <1>1
<1>. QED BY <1>2 DEF Matched

\* Nobody waits who did not wait before, and nobody has looked.
LEMMA MatchedStill ==
    ASSUME NEW n, NEW w, Waiters(w)' \subseteq Waiters(w), Takers(w)' = Takers(w),
           Matched(n, w), NEW m, m = n
    PROVE  Matched(m, w)'
BY DEF Matched

\* The call of rt_schedule inside a call, as the services write it.
LEMMA ReschedStepOK ==
    ASSUME SvcInv, NEW t, NEW from, NEW to, Resched(t, from, to),
           Fits(t, from, arg[t]) => Fits(t, to, arg[t]),
           to \in SvcLocked <=> from \in SvcLocked,
           \A v \in WaitLists : Waits(to, arg[t], v) <=> Waits(from, arg[t], v)
    PROVE  Kept({})
<1>1. KernelOK(k) /\ k.cur = t /\ pc[t] = from
  BY DEF SvcInv, SvcKernel, KernelInv, Resched, At
<1>2. t \in Threads
  BY <1>1 DEF KernelOK, QueueOK, KernelState
<1>3. Fits(t, to, arg[t])
  BY <1>1, <1>2 DEF SvcInv
<1>. QED BY <1>1, <1>2, <1>3, ReschedOK DEF Resched, Go

-----------------------------------------------------------------------------
(* Which calls wait on which list.                                         *)

LEMMA KindsApart ==
    LET kinds == <<Mailboxes, Queues, Events, Pools, Completions, DataQueues>>
    IN  /\ \A i, j \in 1 .. 6 : \A o : o \in kinds[i] /\ o \in kinds[j] => i = j
        /\ \A i \in 1 .. 6 : \A o \in kinds[i] : o \in Objects
        /\ \A o \in Objects, x \in Objects :
              o # <<x, "send">> /\ o # <<x, "push">> /\ o # <<x, "pop">>
<1>. DEFINE kinds == <<Mailboxes, Queues, Events, Pools, Completions, DataQueues>>
<1>1. \A i, j \in 1 .. 6 : i # j => kinds[i] \intersect kinds[j] = {}
  BY ServicesAssumption
<1>2. /\ Mailboxes \subseteq Objects /\ Queues \subseteq Objects /\ Events \subseteq Objects
      /\ Pools \subseteq Objects /\ Completions \subseteq Objects
      /\ DataQueues \subseteq Objects
  BY MailboxAssumption, MessageQueueAssumption, EventAssumption, MemPoolAssumption,
     CompletionAssumption, DataQueueAssumption
<1>3. ASSUME NEW i \in 1 .. 6, NEW o \in kinds[i]
      PROVE  o \in Objects
  <2>1. i \in {1, 2, 3, 4, 5, 6}
    OBVIOUS
  <2>. QED BY <1>2, <1>3, <2>1
<1>4. ASSUME NEW o \in Objects, NEW x \in Objects, NEW s \in {"send", "push", "pop"}
      PROVE  o # <<x, s>>
  <2>1. <<x, s>> \in Objects \X {"send", "push", "pop"}
    OBVIOUS
  <2>. QED BY <2>1, ServicesAssumption
<1>. QED BY <1>1, <1>3, <1>4

\* An object is of one kind.
LEMMA OneKind ==
    ASSUME NEW o
    PROVE  /\ o \in Mailboxes => /\ o \notin Queues /\ o \notin Events /\ o \notin Pools
                                 /\ o \notin Completions /\ o \notin DataQueues
           /\ o \in Queues => /\ o \notin Events /\ o \notin Pools /\ o \notin Completions
                              /\ o \notin DataQueues
           /\ o \in Events => /\ o \notin Pools /\ o \notin Completions
                              /\ o \notin DataQueues
           /\ o \in Pools => /\ o \notin Completions /\ o \notin DataQueues
           /\ o \in Completions => o \notin DataQueues
<1>. DEFINE kinds == <<Mailboxes, Queues, Events, Pools, Completions, DataQueues>>
<1>1. \A i, j \in 1 .. 6 : o \in kinds[i] /\ o \in kinds[j] => i = j
  BY KindsApart
<1>2. /\ kinds[1] = Mailboxes /\ kinds[2] = Queues /\ kinds[3] = Events /\ kinds[4] = Pools
      /\ kinds[5] = Completions /\ kinds[6] = DataQueues
  OBVIOUS
<1>. HIDE DEF kinds
<1>3. /\ o \in Mailboxes => o \notin Queues /\ o \notin Events /\ o \notin Pools
      /\ o \in Mailboxes => o \notin Completions /\ o \notin DataQueues
  BY <1>1, <1>2
<1>4. /\ o \in Queues => o \notin Events /\ o \notin Pools /\ o \notin Completions
      /\ o \in Queues => o \notin DataQueues
  BY <1>1, <1>2
<1>5. /\ o \in Events => o \notin Pools /\ o \notin Completions
      /\ o \in Events => o \notin DataQueues
  BY <1>1, <1>2
<1>6. /\ o \in Pools => o \notin Completions /\ o \notin DataQueues
      /\ o \in Completions => o \notin DataQueues
  BY <1>1, <1>2
<1>. QED BY <1>3, <1>4, <1>5, <1>6

\* Each list belongs to one operation of one object.
LEMMA WhoWaits ==
    ASSUME NEW o, NEW p, NEW x
    PROVE  /\ o \in Mailboxes =>
                 /\ Waits(p, x, o) <=> p \in {"mbr_sched", "mbr_woken"} /\ x = o
                 /\ Waits(p, x, suspend_sender_thread(o)) <=>
                       p \in {"mbs_sched", "mbs_woken"} /\ x = o
           /\ o \in Queues => (Waits(p, x, o) <=> p \in {"mqr_sched", "mqr_woken"} /\ x = o)
           /\ o \in Events => (Waits(p, x, o) <=> p \in {"ev_sched", "ev_woken"} /\ x = o)
           /\ o \in Pools => (Waits(p, x, o) <=> p \in {"mp_sched", "mp_woken"} /\ x = o)
           /\ o \in Completions => (Waits(p, x, o) <=> p \in {"cp_sched", "cp_woken"} /\ x = o)
           /\ o \in DataQueues =>
                 /\ Waits(p, x, suspended_pop_list(o)) <=>
                       p \in {"dqg_sched", "dqg_woken"} /\ x = o
                 /\ Waits(p, x, suspended_push_list(o)) <=>
                       p \in {"dqp_sched", "dqp_woken"} /\ x = o
<1>. DEFINE All == Mailboxes \union Queues \union Events \union Pools \union Completions
                      \union DataQueues
<1>1. All \subseteq Objects
  BY MailboxAssumption, MessageQueueAssumption, EventAssumption, MemPoolAssumption,
     CompletionAssumption, DataQueueAssumption
<1>2. \A a, b \in All : a # <<b, "send">> /\ a # <<b, "push">> /\ a # <<b, "pop">>
  BY <1>1, KindsApart
<1>3. \A a, b : /\ <<a, "send">> # <<b, "push">> /\ <<a, "send">> # <<b, "pop">>
                /\ <<a, "push">> # <<b, "pop">>
                /\ \A s : <<a, s>> = <<b, s>> => a = b
  OBVIOUS
<1>4. /\ suspend_sender_thread(o) = <<o, "send">> /\ suspended_pop_list(o) = <<o, "pop">>
      /\ suspended_push_list(o) = <<o, "push">>
      /\ suspend_sender_thread(x) = <<x, "send">> /\ suspended_pop_list(x) = <<x, "pop">>
      /\ suspended_push_list(x) = <<x, "push">>
  BY DEF suspend_sender_thread, suspended_pop_list, suspended_push_list
<1>5. CASE o \in Mailboxes
  BY <1>2, <1>3, <1>4, <1>5, OneKind DEF Waits
<1>6. CASE o \in Queues \union Events \union Pools
  BY <1>2, <1>3, <1>4, <1>6, OneKind DEF Waits
<1>7. CASE o \in Completions
  BY <1>2, <1>3, <1>4, <1>7, OneKind DEF Waits
<1>8. CASE o \in DataQueues
  BY <1>2, <1>3, <1>4, <1>8, OneKind DEF Waits
<1>. QED BY <1>5, <1>6, <1>7, <1>8

LEMMA NobodyWaits ==
    ASSUME SvcInv, NEW w \in WaitLists
    PROVE  k.wait[w] = <<>> <=> Waiters(w) = {}
<1>1. k.wait[w] \in Seq(Threads)
  BY DEF SvcInv, SvcKernel, KernelInv, KernelOK, QueueOK, KernelState
<1>. QED BY <1>1, ToSetDef DEF Waiters

\* The two ways to say that no wake-up is lost.
LEMMA MatchedSays ==
    ASSUME SvcInv, NEW w \in WaitLists, NEW n, NEW o, NEW P, Matched(n, w),
           \A q, x : Waits(q, x, w) <=> q \in P /\ x = o
    PROVE  k.wait[w] # <<>> => n <= Cardinality(Looking(o, P))
<1>1. Looking(o, P) = Takers(w)
  BY LookingIsTakers
<1>. QED BY <1>1, NobodyWaits DEF Matched

\* The giver had not been served itself.
LEMMA OfferedNone ==
    ASSUME NEW t, NEW w, Offered({t}, w), \A v \in WaitLists : t \notin Takers(v)
    PROVE  Offered({}, w)
<1>1. CASE Kept({t}) /\ Waiters(w) = {}
  BY <1>1, KeptNone DEF Offered
<1>2. CASE Woke({t}, w)
  <2>1. \A v \in WaitLists : Takers(v) \ {t} = Takers(v) /\ Takers(v) \ {} = Takers(v)
    OBVIOUS
  <2>2. Woke({}, w)
    BY <1>2, <2>1 DEF Woke
  <2>. QED BY <2>2 DEF Offered
<1>. QED BY <1>1, <1>2 DEF Offered

LEMMA MatchedOffer ==
    ASSUME NEW n \in Int, NEW w \in WaitLists, Offered({}, w),
           Matched(n, w), NEW m \in Int, m <= n + 1
    PROVE  Matched(m, w)'
<1>1. PICK v : v # w
  <2>1. w # "a" \/ w # "b"
    OBVIOUS
  <2>. QED BY <2>1
<1>2. Passes({}, v, w)
  BY OnlyNobody DEF Passes
<1>. QED BY <1>1, <1>2, MatchedMore

LEMMA MatchedQuit ==
    ASSUME NEW n \in Int, NEW v \in WaitLists, NEW t, Quits(t, v),
           Matched(n, v), NEW m \in Int, m <= n - 1
    PROVE  Matched(m, v)'
<1>1. Waiters(v)' \subseteq Waiters(v) /\ Takers(v)' = Takers(v) \ {t}
  BY DEF Quits, Kept
<1>2. /\ Cardinality(Takers(v)) \in Nat /\ Cardinality(Takers(v) \ {t}) \in Nat
      /\ Cardinality(Takers(v)) - 1 <= Cardinality(Takers(v) \ {t})
  BY CountLess DEF Quits
<1>. QED BY <1>1, <1>2 DEF Matched

\* A thread at a place of its own is a thread, in a call of the right kind.
LEMMA AtFits ==
    ASSUME SvcInv, NEW t, NEW p, At(t, p)
    PROVE  t \in Threads /\ pc[t] = p /\ k.cur = t /\ Fits(t, p, arg[t])
<1>1. KernelOK(k) /\ k.cur = t /\ pc[t] = p
  BY DEF SvcInv, SvcKernel, KernelInv, At
<1>2. t \in Threads
  BY <1>1 DEF KernelOK, QueueOK, KernelState
<1>. QED BY <1>1, <1>2 DEF SvcInv

-----------------------------------------------------------------------------
(* Mailbox.                                                                *)

MailLists == UNION {{b, suspend_sender_thread(b)} : b \in Mailboxes}

Collected(b) ==
    /\ mb[b].entry # 0
    /\ mb' = [mb EXCEPT ![b].out_offset = Advance(@), ![b].entry = @ - 1]

Emptied(b) == mb' = [mb EXCEPT ![b].entry = 0, ![b].in_offset = 0, ![b].out_offset = 0]

\* What a step may do with mailbox b.
MailDid(b) ==
    \/ \E v, C : Deposit(b, v) /\ Passes(C, suspend_sender_thread(b), b)
    \/ \E C : Collected(b) /\ Passes(C, b, suspend_sender_thread(b))
    \/ /\ mb[b].entry = MbSize /\ mb' = mb
       /\ \E t : Enters(t, suspend_sender_thread(b)) \/ Quits(t, suspend_sender_thread(b))
    \/ /\ mb[b].entry = 0 /\ mb' = mb
       /\ \E t : Enters(t, b) \/ Quits(t, b)
    \/ Emptied(b) /\ Dropped({}, Waiters(b) \union Waiters(suspend_sender_thread(b)))
    \/ mb' = mb /\ \E T : Dropped({}, T)

LEMMA MailFits ==
    ASSUME NEW t \in Threads, t # Idle, NEW b \in Mailboxes, NEW p \in MailPlaces
    PROVE  Fits(t, p, b) /\ p \notin SvcLocked
BY MailboxAssumption
   DEF Fits, Places, MailPlaces, MqPlaces, EvPlaces, MpPlaces, CpPlaces, DqPlaces,
       SvcLocked

LEMMA MailListsOK ==
    ASSUME NEW b \in Mailboxes
    PROVE  /\ b \in WaitLists /\ suspend_sender_thread(b) \in WaitLists
           /\ b \in Objects /\ b # suspend_sender_thread(b)
           /\ b \in MailLists /\ suspend_sender_thread(b) \in MailLists
<1>1. b \in WaitLists /\ suspend_sender_thread(b) \in WaitLists /\ b \in Objects
  BY MailboxAssumption
<1>2. b # suspend_sender_thread(b)
  <2>1. suspend_sender_thread(b) \in Objects \X {"send", "push", "pop"}
    BY <1>1 DEF suspend_sender_thread
  <2>. QED BY <1>1, <2>1, ServicesAssumption
<1>. QED BY <1>1, <1>2 DEF MailLists

LEMMA SendTurnDid ==
    ASSUME SvcInv, NEW t, Calling(t), NEW b \in Mailboxes, Only({t}, suspend_sender_thread(b)),
           NEW v, NEW time, SendTurn(t, b, v, time), UNCHANGED <<isr, alive>>
    PROVE  MailDid(b)
<1>1. t \in Threads /\ t # Idle
  BY DEF Calling
<1>2. CASE SendMail(t, b, v)
  <2>1. Offered({t}, b)
    BY <1>2, MailListsOK, WakeAndLeaveOK DEF SendMail
  <2>. QED BY <1>2, <2>1 DEF SendMail, MailDid, Passes
<1>3. CASE SendBlock(t, b, v, time)
  <2>. DEFINE w == suspend_sender_thread(b)
  <2>1. Fits(t, "mbs_sched", b)
    BY <1>1, MailFits DEF MailPlaces
  <2>2. Waits("mbs_sched", b, w) /\ "mbs_sched" \in SvcSched
    BY DEF Waits, SvcSched
  <2>3. w \in WaitLists
    BY MailListsOK
  <2>4. k' = WaitOn(k, w, t, MbFlag, time) /\ Proceed(t, b, "mbs_sched")
    BY <1>3 DEF SendBlock, Block
  <2>. HIDE DEF w
  <2>5. Joined(t, w)
    BY <2>1, <2>2, <2>3, <2>4, BlockOK
  <2>. QED BY <1>3, <2>5 DEF SendBlock, MailDid, Enters, w
<1>4. CASE SendFull(t, b, time)
  <2>1. Kept({t})
    BY <1>4, LeaveReturns, LeaveOK DEF SendFull
  <2>. QED BY <1>4, <2>1 DEF SendFull, MailDid, Quits
<1>. QED BY <1>2, <1>3, <1>4 DEF SendTurn

LEMMA CollectDid ==
    ASSUME SvcInv, NEW t, Calling(t), NEW b \in Mailboxes, Only({t}, b),
           Collect(t, b), UNCHANGED <<isr, alive>>
    PROVE  MailDid(b)
<1>. DEFINE w == suspend_sender_thread(b)
<1>1. /\ t \in Threads /\ t # Idle /\ k.cur = t
      /\ pc[t] \notin SvcSched /\ pc[t] \notin SvcLocked
  BY DEF Calling
<1>2. Collected(b)
  BY DEF Collect, Collected
<1>3. /\ Fits(t, "mb_got", b) /\ Fits(t, "mb_got_sched", b)
      /\ "mb_got" \notin SvcLocked /\ "mb_got_sched" \notin SvcLocked
      /\ "mb_got" \notin WaitPlaces /\ "mb_got_sched" \notin WaitPlaces
  BY <1>1, MailFits DEF MailPlaces, WaitPlaces
<1>4. w \in WaitLists
  BY MailListsOK
<1>5. CASE k.wait[w] # <<>>
  <2>1. k' = rt_ipc_list_resume(k, w) /\ Goes(t, "mb_got_sched", b)
    BY <1>5, ProceedGoes DEF Collect
  <2>. HIDE DEF w
  <2>2. Woke({t}, w)
    BY <1>1, <1>3, <1>4, <1>5, <2>1, WakeOK
  <2>. QED BY <1>2, <2>2 DEF MailDid, Passes, Offered, w
<1>6. CASE k.wait[w] = <<>>
  <2>1. k' = k /\ Goes(t, "mb_got", b)
    BY <1>6, ProceedGoes DEF Collect
  <2>2. Kept({t})
    BY <1>1, <1>3, <2>1, StepOK
  <2>3. Waiters(w) = {}
    BY <1>6 DEF Waiters, ToSet
  <2>. QED BY <1>2, <2>2, <2>3 DEF MailDid, Passes, Offered
<1>. QED BY <1>5, <1>6

LEMMA RecvBlockDid ==
    ASSUME SvcInv, NEW t, Calling(t), NEW b \in Mailboxes, Only({t}, b),
           NEW time, RecvBlock(t, b, time), UNCHANGED <<isr, alive>>
    PROVE  MailDid(b)
<1>1. t \in Threads /\ t # Idle
  BY DEF Calling
<1>2. Fits(t, "mbr_sched", b)
  BY <1>1, MailFits DEF MailPlaces
<1>3. Waits("mbr_sched", b, b) /\ "mbr_sched" \in SvcSched
  BY DEF Waits, SvcSched
<1>4. b \in WaitLists
  BY MailListsOK
<1>5. k' = WaitOn(k, b, t, MbFlag, time) /\ Proceed(t, b, "mbr_sched")
  BY DEF RecvBlock, Block
<1>6. Joined(t, b)
  BY <1>2, <1>3, <1>4, <1>5, BlockOK
<1>. QED BY <1>6 DEF RecvBlock, MailDid, Enters

LEMMA MailCallDid ==
    ASSUME SvcInv, NEW t, MailCall(t)
    PROVE  \E b \in Mailboxes : MailDid(b)
<1>1. PICK b \in Mailboxes :
         \/ \E v \in Mails, time \in MbTimes : rt_mb_send_wait(t, b, v, time)
         \/ \E time \in MbTimes : rt_mb_recv(t, b, time)
         \/ rt_mb_control(t, b)
         \/ rt_mb_detach(t, b) /\ UNCHANGED <<left, item, mb>>
  BY DEF MailCall
<1>2. Calls(t, b)
  BY <1>1 DEF rt_mb_send_wait, rt_mb_recv, rt_mb_control, rt_mb_detach, DetachCall
<1>3. /\ Calling(t) /\ t \in Threads /\ t # Idle
      /\ \A v \in WaitLists : t \notin Takers(v)
  BY <1>2, CallsCalling
<1>4. Only({t}, b) /\ Only({t}, suspend_sender_thread(b))
  BY <1>3, OnlyUnserved
<1>5. ASSUME NEW v \in Mails, NEW time \in MbTimes, rt_mb_send_wait(t, b, v, time)
      PROVE  MailDid(b)
  BY <1>3, <1>4, <1>5, SendTurnDid DEF rt_mb_send_wait
<1>6. ASSUME NEW time \in MbTimes, rt_mb_recv(t, b, time)
      PROVE  MailDid(b)
  <2>1. UNCHANGED <<isr, alive>>
    BY <1>6 DEF rt_mb_recv
  <2>2. CASE Collect(t, b)
    BY <1>3, <1>4, <2>1, <2>2, CollectDid
  <2>3. CASE RecvBlock(t, b, time)
    BY <1>3, <1>4, <2>1, <2>3, RecvBlockDid
  <2>4. CASE mb[b].entry = 0 /\ Leave(t) /\ UNCHANGED <<k, mb>>
    <3>1. Kept({t})
      BY <1>3, <2>1, <2>4, LeaveReturns, LeaveOK
    <3>. QED BY <1>4, <2>4, <3>1 DEF MailDid, Quits
  <2>. QED BY <1>6, <2>2, <2>3, <2>4 DEF rt_mb_recv
<1>7. CASE rt_mb_control(t, b)
  <2>. DEFINE w == suspend_sender_thread(b)
  <2>1. /\ k' = rt_ipc_list_resume_all(rt_ipc_list_resume_all(k, b), w)
        /\ Goes(t, "ret_sched", None) /\ Emptied(b)
    BY <1>7, ProceedGoes DEF rt_mb_control, LeaveVia, Emptied
  <2>2. Fits(t, "ret_sched", None) /\ "ret_sched" \notin WaitPlaces /\ "ret_sched" \notin SvcLocked
    BY <1>3, CommonFits
  <2>3. b \in WaitLists /\ w \in WaitLists
    BY MailListsOK
  <2>4. k.cur = t /\ pc[t] \notin SvcSched /\ pc[t] \notin SvcLocked
    BY <1>3 DEF Calling
  <2>. HIDE DEF w
  <2>5. Dropped({t}, Waiters(b) \union Waiters(w))
    BY <2>1, <2>2, <2>3, <2>4, DropBoth
  <2>6. Dropped({}, Waiters(b) \union Waiters(w))
    BY <1>3, <2>5 DEF Dropped
  <2>. QED BY <2>1, <2>6 DEF MailDid, w
<1>8. CASE rt_mb_detach(t, b) /\ mb' = mb
  <2>1. Fits(t, "mbd_test", b) /\ "mbd_test" \notin SvcLocked /\ "mbd_test" \notin WaitPlaces
    BY <1>3, MailFits DEF MailPlaces, WaitPlaces
  <2>2. Kept({})
    BY <1>8, <2>1, DetachCallOK DEF rt_mb_detach
  <2>. QED BY <1>8, <2>2, KeptDrops DEF MailDid
<1>. QED BY <1>1, <1>5, <1>6, <1>7, <1>8

LEMMA MailArg ==
    ASSUME SvcInv, NEW t, NEW p \in MailPlaces, At(t, p)
    PROVE  t \in Threads /\ arg[t] \in Mailboxes
<1>1. KernelOK(k) /\ k.cur = t /\ pc[t] = p
  BY DEF SvcInv, SvcKernel, KernelInv, At
<1>2. t \in Threads
  BY <1>1 DEF KernelOK, QueueOK, KernelState
<1>. QED BY <1>1, <1>2 DEF SvcInv, Fits

LEMMA MailWokenDid ==
    ASSUME SvcInv, NEW t, SendWoken(t) \/ RecvWoken(t) \/ RecvReturn(t)
    PROVE  \E b \in Mailboxes : MailDid(b)
<1>. DEFINE b == arg[t]
<1>1. CASE SendWoken(t)
  <2>1. At(t, "mbs_woken") /\ UNCHANGED <<isr, alive>>
    BY <1>1 DEF SendWoken
  <2>2. /\ "mbs_woken" \in MailPlaces /\ "mbs_woken" # "run" /\ "mbs_woken" \notin SvcSched
        /\ "mbs_woken" \notin SvcLocked
    BY DEF MailPlaces, SvcSched, SvcLocked
  <2>3. t \in Threads /\ b \in Mailboxes
    BY <2>1, <2>2, MailArg
  <2>4. Calling(t) /\ pc[t] = "mbs_woken"
    BY <2>1, <2>2, AtCalling
  <2>5. Only({t}, suspend_sender_thread(b))
    <3>1. Waits(pc[t], arg[t], suspend_sender_thread(b))
      BY <2>3, <2>4 DEF Waits
    <3>2. suspend_sender_thread(b) \in WaitLists
      BY <2>3, MailListsOK
    <3>. QED BY <2>3, <3>1, <3>2, OnlyOwn
  <2>6. CASE Failed(t) /\ UNCHANGED mb
    <3>1. Kept({})
      BY <2>1, <2>4, <2>6, FailedOK
    <3>. QED BY <2>3, <2>6, <3>1, KeptDrops DEF MailDid
  <2>7. CASE \E time \in TimeLeft(left[t]) : SendTurn(t, arg[t], item[t], time)
    BY <2>1, <2>3, <2>4, <2>5, <2>7, SendTurnDid
  <2>. QED BY <1>1, <2>6, <2>7 DEF SendWoken
<1>2. CASE RecvWoken(t)
  <2>1. At(t, "mbr_woken") /\ UNCHANGED <<isr, alive>>
    BY <1>2 DEF RecvWoken
  <2>2. /\ "mbr_woken" \in MailPlaces /\ "mbr_woken" # "run" /\ "mbr_woken" \notin SvcSched
        /\ "mbr_woken" \notin SvcLocked
    BY DEF MailPlaces, SvcSched, SvcLocked
  <2>3. t \in Threads /\ b \in Mailboxes
    BY <2>1, <2>2, MailArg
  <2>4. Calling(t) /\ pc[t] = "mbr_woken"
    BY <2>1, <2>2, AtCalling
  <2>5. Only({t}, b)
    <3>1. Waits(pc[t], arg[t], b)
      BY <2>3, <2>4 DEF Waits
    <3>2. b \in WaitLists
      BY <2>3, MailListsOK
    <3>. QED BY <2>3, <3>1, <3>2, OnlyOwn
  <2>6. CASE Failed(t) /\ UNCHANGED mb
    <3>1. Kept({})
      BY <2>1, <2>4, <2>6, FailedOK
    <3>. QED BY <2>3, <2>6, <3>1, KeptDrops DEF MailDid
  <2>7. CASE Collect(t, b)
    BY <2>1, <2>3, <2>4, <2>5, <2>7, CollectDid
  <2>8. CASE \E time : RecvBlock(t, b, time)
    BY <2>1, <2>3, <2>4, <2>5, <2>8, RecvBlockDid
  <2>9. CASE \E time : mb[b].entry = 0 /\ TimedOut(t, time) /\ UNCHANGED mb
    <3>1. Kept({t})
      BY <2>1, <2>4, <2>9, TimedOutOK
    <3>. QED BY <2>3, <2>5, <2>9, <3>1 DEF MailDid, Quits
  <2>. QED BY <1>2, <2>6, <2>7, <2>8, <2>9 DEF RecvWoken
<1>3. CASE RecvReturn(t)
  <2>1. At(t, "mb_got") /\ UNCHANGED <<k, isr, alive, mb>> /\ Return(t)
    BY <1>3, LeaveReturns DEF RecvReturn
  <2>2. /\ "mb_got" \in MailPlaces /\ "mb_got" # "run" /\ "mb_got" \notin SvcSched
        /\ "mb_got" \notin SvcLocked /\ "mb_got" \notin WaitPlaces
    BY DEF MailPlaces, SvcSched, SvcLocked, WaitPlaces
  <2>3. t \in Threads /\ b \in Mailboxes
    BY <2>1, <2>2, MailArg
  <2>4. Calling(t) /\ pc[t] = "mb_got"
    BY <2>1, <2>2, AtCalling
  <2>5. Kept({t})
    BY <2>1, <2>4, LeaveOK
  <2>6. Kept({})
    BY <2>2, <2>4, <2>5, NotTaker, KeptNone
  <2>. QED BY <2>1, <2>3, <2>6, KeptDrops DEF MailDid
<1>. QED BY <1>1, <1>2, <1>3

LEMMA MailMoveDid ==
    ASSUME SvcInv, NEW t, UNCHANGED mb,
           \/ Resched(t, "mbs_sched", "mbs_woken")
           \/ Resched(t, "mbr_sched", "mbr_woken")
           \/ Resched(t, "mb_got_sched", "mb_got")
           \/ MailDetachSteps(t)
    PROVE  \E b \in Mailboxes : MailDid(b)
<1>. DEFINE b == arg[t]
<1>1. t \in Threads /\ b \in Mailboxes
  BY MailArg DEF Resched, MailDetachSteps, ResumeAllTest, ResumeAllWake, MailPlaces
<1>2. \A p \in MailPlaces, q \in MailPlaces \union {"det_object"} :
         Fits(t, p, arg[t]) => Fits(t, q, arg[t])
  <2>1. ASSUME NEW p \in MailPlaces, Fits(t, p, arg[t])
        PROVE  t # Idle
    BY <2>1 DEF Fits, MailPlaces
  <2>2. arg[t] \in Objects \union {None}
    BY <1>1, MailListsOK
  <2>. QED BY <1>1, <2>1, <2>2, MailFits, CommonFits
<1>3. \A p \in MailPlaces \union {"det_object"} : p \notin SvcLocked
  BY DEF MailPlaces, SvcLocked
<1>4. CASE \/ Resched(t, "mbs_sched", "mbs_woken")
           \/ Resched(t, "mbr_sched", "mbr_woken")
           \/ Resched(t, "mb_got_sched", "mb_got")
  <2>1. \A v : /\ Waits("mbs_sched", arg[t], v) <=> Waits("mbs_woken", arg[t], v)
               /\ Waits("mbr_sched", arg[t], v) <=> Waits("mbr_woken", arg[t], v)
               /\ Waits("mb_got_sched", arg[t], v) <=> Waits("mb_got", arg[t], v)
    BY DEF Waits
  <2>2. {"mbs_sched", "mbs_woken", "mbr_sched", "mbr_woken", "mb_got", "mb_got_sched"}
           \subseteq MailPlaces
    BY DEF MailPlaces
  <2>3. Kept({})
    BY <1>2, <1>3, <1>4, <2>1, <2>2, ReschedStepOK
  <2>. QED BY <1>1, <2>3, KeptDrops DEF MailDid
<1>5. CASE MailDetachSteps(t)
  <2>. DEFINE D == {"mbd_test", "mbd_wake", "mbd_test2", "mbd_wake2"}
  <2>1. D \subseteq MailPlaces
    BY DEF MailPlaces
  <2>2. \A p \in D \union {"det_object"} :
           p \notin SvcSched /\ p \notin WaitPlaces /\ p \notin SvcLocked
    BY DEF SvcSched, WaitPlaces, SvcLocked
  <2>3. b \in WaitLists /\ suspend_sender_thread(b) \in WaitLists
    BY <1>1, MailListsOK
  <2>4. CASE ResumeAllTest(t, b, "mbd_test", "mbd_wake", "mbd_test2")
    <3>1. Kept({})
      BY <1>2, <2>1, <2>2, <2>4, ResumeAllTestOK
    <3>. QED BY <1>1, <3>1, KeptDrops DEF MailDid
  <2>5. CASE ResumeAllTest(t, suspend_sender_thread(b), "mbd_test2", "mbd_wake2", "det_object")
    <3>1. Kept({})
      BY <1>2, <2>1, <2>2, <2>5, ResumeAllTestOK
    <3>. QED BY <1>1, <3>1, KeptDrops DEF MailDid
  <2>6. CASE ResumeAllWake(t, b, "mbd_wake", "mbd_test")
    <3>1. \E T : Dropped({}, T)
      BY <1>2, <2>1, <2>2, <2>3, <2>6, ResumeAllWakeOK
    <3>. QED BY <1>1, <3>1 DEF MailDid
  <2>7. CASE ResumeAllWake(t, suspend_sender_thread(b), "mbd_wake2", "mbd_test2")
    <3>1. \E T : Dropped({}, T)
      BY <1>2, <2>1, <2>2, <2>3, <2>7, ResumeAllWakeOK
    <3>. QED BY <1>1, <3>1 DEF MailDid
  <2>. QED BY <1>5, <2>4, <2>5, <2>6, <2>7 DEF MailDetachSteps
<1>. QED BY <1>4, <1>5

LEMMA MailNextDid ==
    ASSUME SvcInv, MailNext
    PROVE  \E b \in Mailboxes : MailDid(b)
<1>1. CASE MailIsr
  <2>1. PICK b \in Mailboxes, v \in Mails : IsrSendMail(b, v)
    BY <1>1 DEF MailIsr
  <2>2. Offered({}, b)
    BY <2>1, MailListsOK, IsrWakeAnyOK DEF IsrSendMail
  <2>. QED BY <2>1, <2>2, OnlyNobody DEF IsrSendMail, MailDid, Passes
<1>2. ASSUME NEW t \in Threads, MailCall(t)
      PROVE  \E b \in Mailboxes : MailDid(b)
  BY <1>2, MailCallDid
<1>3. ASSUME NEW t \in Threads, MailStep(t)
      PROVE  \E b \in Mailboxes : MailDid(b)
  BY <1>3, MailWokenDid, MailMoveDid DEF MailStep
<1>. QED BY <1>1, <1>2, <1>3 DEF MailNext

LEMMA MailActs ==
    ASSUME NEW b \in Mailboxes, MailDid(b)
    PROVE  Acts(MailLists)
<1>1. b \in MailLists /\ suspend_sender_thread(b) \in MailLists
  BY MailListsOK
<1>. QED BY <1>1 DEF MailDid, Acts

\* Every mail, and every free slot, is matched.
MailMatched ==
    \A b \in Mailboxes :
        /\ Matched(mb[b].entry, b)
        /\ Matched(MbSize - mb[b].entry, suspend_sender_thread(b))

\* The control blocks, whatever is in the mails.
MailBlock(S) ==
    [msg_pool : [0 .. (MbSize - 1) -> S],
     entry : 0 .. MbSize, in_offset : 0 .. (MbSize - 1), out_offset : 0 .. (MbSize - 1)]

MailShape == \E S : mb \in [Mailboxes -> MailBlock(S)]

MailInv == MailShape /\ MailMatched

\* The invariant is what the property says.
LEMMA MailInvSays ==
    ASSUME SvcInv, MailMatched
    PROVE  NoMailWhileWaiting
<1>. SUFFICES ASSUME NEW b \in Mailboxes
              PROVE  /\ k.wait[b] # <<>> =>
                           mb[b].entry <= Cardinality(Looking(b, {"mbr_sched", "mbr_woken"}))
                     /\ k.wait[suspend_sender_thread(b)] # <<>> =>
                           MbSize - mb[b].entry
                              <= Cardinality(Looking(b, {"mbs_sched", "mbs_woken"}))
  BY DEF NoMailWhileWaiting
<1>. DEFINE w == suspend_sender_thread(b)
<1>1. b \in WaitLists /\ w \in WaitLists
  BY MailListsOK
<1>2. \A q, x : Waits(q, x, b) <=> q \in {"mbr_sched", "mbr_woken"} /\ x = b
  BY WhoWaits
<1>3. \A q, x : Waits(q, x, w) <=> q \in {"mbs_sched", "mbs_woken"} /\ x = b
  BY WhoWaits
<1>4. Matched(mb[b].entry, b) /\ Matched(MbSize - mb[b].entry, w)
  BY DEF MailMatched
<1>. HIDE DEF w
<1>5. k.wait[b] # <<>> => mb[b].entry <= Cardinality(Looking(b, {"mbr_sched", "mbr_woken"}))
  BY <1>1, <1>2, <1>4, MatchedSays
<1>6. k.wait[w] # <<>> =>
         MbSize - mb[b].entry <= Cardinality(Looking(b, {"mbs_sched", "mbs_woken"}))
  BY <1>1, <1>3, <1>4, MatchedSays
<1>. QED BY <1>5, <1>6 DEF w

LEMMA MailInit_Inv ==
    ASSUME Init
    PROVE  MailShape /\ \A b \in Mailboxes : mb[b].entry = 0
<1>1. mb \in [Mailboxes -> MailBlock({None})]
  BY MailboxAssumption DEF Init, MailInit, MailBlock
<1>. QED BY <1>1 DEF MailShape, Init, MailInit

LEMMA AdvanceOK ==
    ASSUME NEW n \in 0 .. (MbSize - 1)
    PROVE  Advance(n) \in 0 .. (MbSize - 1)
BY MailboxAssumption DEF Advance

\* The entries of the mailboxes after a step on mailbox b.
MailEntries(b, n) ==
    /\ MailShape'
    /\ mb'[b].entry = n
    /\ \A c \in Mailboxes : c # b => mb'[c] = mb[c]

LEMMA DepositEntries ==
    ASSUME MailShape, NEW b \in Mailboxes, NEW v, Deposit(b, v)
    PROVE  MailEntries(b, mb[b].entry + 1)
<1>1. PICK S : mb \in [Mailboxes -> MailBlock(S)]
  BY DEF MailShape
<1>. DEFINE X == S \union {v}
            old == mb[b]
            new == [msg_pool |-> [old.msg_pool EXCEPT ![old.in_offset] = v],
                    entry |-> old.entry + 1, in_offset |-> Advance(old.in_offset),
                    out_offset |-> old.out_offset]
<1>2. mb[b].entry # MbSize /\ mb' = [mb EXCEPT ![b] = new]
  <2>1. old = [msg_pool |-> old.msg_pool, entry |-> old.entry,
               in_offset |-> old.in_offset, out_offset |-> old.out_offset]
    BY <1>1 DEF MailBlock
  <2>. QED BY <1>1, <2>1 DEF Deposit, MailBlock
<1>3. new \in MailBlock(X)
  <2>1. old \in MailBlock(S)
    BY <1>1
  <2>2. old.msg_pool \in [0 .. (MbSize - 1) -> X]
    BY <2>1 DEF MailBlock
  <2>3. [old.msg_pool EXCEPT ![old.in_offset] = v] \in [0 .. (MbSize - 1) -> X]
    BY <2>2
  <2>4. old.entry + 1 \in 0 .. MbSize
    BY <1>2, <2>1, MailboxAssumption DEF MailBlock
  <2>5. Advance(old.in_offset) \in 0 .. (MbSize - 1) /\ old.out_offset \in 0 .. (MbSize - 1)
    BY <2>1, AdvanceOK DEF MailBlock
  <2>. QED BY <2>3, <2>4, <2>5 DEF MailBlock
<1>4. mb \in [Mailboxes -> MailBlock(X)]
  <2>1. MailBlock(S) \subseteq MailBlock(X)
    BY DEF MailBlock
  <2>. HIDE DEF X
  <2>. QED BY <1>1, <2>1
<1>. HIDE DEF X
<1>5. mb' \in [Mailboxes -> MailBlock(X)]
  BY <1>2, <1>3, <1>4
<1>6. mb'[b].entry = mb[b].entry + 1 /\ \A c \in Mailboxes : c # b => mb'[c] = mb[c]
  BY <1>1, <1>2
<1>. QED BY <1>5, <1>6 DEF MailEntries, MailShape

LEMMA CollectedEntries ==
    ASSUME MailShape, NEW b \in Mailboxes, Collected(b)
    PROVE  MailEntries(b, mb[b].entry - 1)
<1>1. PICK S : mb \in [Mailboxes -> MailBlock(S)]
  BY DEF MailShape
<1>2. mb[b] \in MailBlock(S) /\ mb[b].entry # 0
  BY <1>1 DEF Collected
<1>3. Advance(mb[b].out_offset) \in 0 .. (MbSize - 1) /\ mb[b].entry - 1 \in 0 .. MbSize
  <2>1. mb[b].out_offset \in 0 .. (MbSize - 1) /\ mb[b].entry \in 0 .. MbSize
    BY <1>2 DEF MailBlock
  <2>2. \A n \in 0 .. MbSize : n # 0 => n - 1 \in 0 .. MbSize
    BY MailboxAssumption
  <2>. QED BY <1>2, <2>1, <2>2, AdvanceOK
<1>4. mb' \in [Mailboxes -> MailBlock(S)]
  BY <1>1, <1>3 DEF Collected, MailBlock
<1>5. mb'[b].entry = mb[b].entry - 1 /\ \A c \in Mailboxes : c # b => mb'[c] = mb[c]
  BY <1>1 DEF Collected, MailBlock
<1>. QED BY <1>4, <1>5 DEF MailEntries, MailShape

LEMMA EmptiedEntries ==
    ASSUME MailShape, NEW b \in Mailboxes, Emptied(b)
    PROVE  MailEntries(b, 0)
<1>1. PICK S : mb \in [Mailboxes -> MailBlock(S)]
  BY DEF MailShape
<1>2. mb' \in [Mailboxes -> MailBlock(S)]
  <2>1. 0 \in 0 .. MbSize /\ 0 \in 0 .. (MbSize - 1)
    BY MailboxAssumption
  <2>. QED BY <1>1, <2>1 DEF Emptied, MailBlock
<1>3. mb'[b].entry = 0 /\ \A c \in Mailboxes : c # b => mb'[c] = mb[c]
  BY <1>1 DEF Emptied, MailBlock
<1>. QED BY <1>2, <1>3 DEF MailEntries, MailShape

\* Both directions of mailbox c are matched, with n mails.
MailPair(c, n) == Matched(n, c) /\ Matched(MbSize - n, suspend_sender_thread(c))

\* The other mailboxes are not touched.
LEMMA MailOthers ==
    ASSUME MailInv, NEW A, Foot(A), NEW c \in Mailboxes,
           c \notin A, suspend_sender_thread(c) \notin A, NEW n, n = mb[c].entry
    PROVE  MailPair(c, n)'
<1>. DEFINE w == suspend_sender_thread(c)
<1>1. c \in WaitLists \ A /\ w \in WaitLists \ A
  BY MailListsOK
<1>2. /\ Waiters(c)' \subseteq Waiters(c) /\ Takers(c)' = Takers(c)
      /\ Waiters(w)' \subseteq Waiters(w) /\ Takers(w)' = Takers(w)
  BY <1>1 DEF Foot
<1>3. Matched(n, c) /\ Matched(MbSize - n, w)
  BY DEF MailInv, MailMatched
<1>. HIDE DEF w
<1>4. Matched(n, c)' /\ Matched(MbSize - n, w)'
  BY <1>2, <1>3, MatchedStill
<1>. QED BY <1>4 DEF MailPair, w

LEMMA MailKeep ==
    ASSUME SvcInv, MailInv, NEW b \in Mailboxes, MailDid(b)
    PROVE  MailInv'
<1>. DEFINE w == suspend_sender_thread(b)
            A == {b, w}
            n == mb[b].entry
<1>1. b \in WaitLists /\ w \in WaitLists /\ b # w
  BY MailListsOK
<1>2. n \in 0 .. MbSize /\ n \in Int /\ MbSize \in Nat
  BY MailboxAssumption DEF MailInv, MailShape, MailBlock
<1>3. Matched(n, b) /\ Matched(MbSize - n, w) /\ MbSize - n \in Int
  BY <1>2 DEF MailInv, MailMatched
<1>4. Foot(A)
  <2>1. Acts(A)
    BY DEF MailDid, Acts
  <2>. HIDE DEF A
  <2>. QED BY <2>1, FootOK
<1>5. ASSUME NEW c \in Mailboxes, c # b, mb'[c] = mb[c]
      PROVE  /\ Matched(mb[c].entry, c)'
             /\ Matched(MbSize - mb[c].entry, suspend_sender_thread(c))'
  <2>1. c \notin A /\ suspend_sender_thread(c) \notin A
    <3>1. b \in Objects /\ c \in Objects
      BY MailListsOK
    <3>2. c # w /\ b # suspend_sender_thread(c)
      BY <3>1, KindsApart DEF suspend_sender_thread
    <3>3. suspend_sender_thread(c) # w
      BY <1>5 DEF suspend_sender_thread
    <3>. QED BY <1>5, <3>2, <3>3
  <2>. HIDE DEF A
  <2>2. PICK m : m = mb[c].entry
    OBVIOUS
  <2>3. MailPair(c, m)'
    BY <1>4, <2>1, <2>2, MailOthers
  <2>. QED BY <1>5, <2>2, <2>3 DEF MailPair
<1>6. ASSUME NEW m, MailEntries(b, m), Matched(m, b)', Matched(MbSize - m, w)'
      PROVE  MailInv'
  <2>1. ASSUME NEW c \in Mailboxes
        PROVE  /\ Matched(mb[c].entry, c)'
               /\ Matched(MbSize - mb[c].entry, suspend_sender_thread(c))'
    <3>1. CASE c = b
      BY <1>6, <3>1 DEF MailEntries
    <3>2. CASE c # b
      BY <1>5, <1>6, <3>2 DEF MailEntries
    <3>. QED BY <3>1, <3>2
  <2>. QED BY <1>6, <2>1 DEF MailInv, MailMatched, MailEntries
<1>. HIDE DEF w
<1>7. ASSUME mb' = mb, NEW m, m = n, Matched(m, b)', Matched(MbSize - m, w)'
      PROVE  MailInv'
  <2>1. MailEntries(b, m)
    BY <1>7 DEF MailEntries, MailInv, MailShape
  <2>. QED BY <1>6, <1>7, <2>1
<1>. HIDE DEF n
<1>8. PICK N : N = n
  OBVIOUS
<1>9. N \in Int /\ MbSize - N \in Int /\ Matched(N, b) /\ Matched(MbSize - N, w)
  BY <1>2, <1>3, <1>8
<1>10. ASSUME NEW v, NEW C, Deposit(b, v), Passes(C, w, b)
       PROVE  MailInv'
  <2>1. MailEntries(b, N + 1)
    BY <1>8, <1>10, DepositEntries DEF n, MailInv
  <2>2. N + 1 \in Int /\ N + 1 <= N + 1 /\ MbSize - (N + 1) \in Int
        /\ MbSize - (N + 1) <= (MbSize - N) - 1
    BY <1>2, <1>9
  <2>3. Matched(N + 1, b)'
    BY <1>1, <1>9, <1>10, <2>2, MatchedMore
  <2>4. Matched(MbSize - (N + 1), w)'
    BY <1>1, <1>9, <1>10, <2>2, MatchedLess
  <2>. QED BY <1>6, <2>1, <2>3, <2>4
<1>11. ASSUME NEW C, Collected(b), Passes(C, b, w)
       PROVE  MailInv'
  <2>1. MailEntries(b, N - 1)
    BY <1>8, <1>11, CollectedEntries DEF n, MailInv
  <2>2. N - 1 \in Int /\ N - 1 <= N - 1 /\ MbSize - (N - 1) \in Int
        /\ MbSize - (N - 1) <= (MbSize - N) + 1
    BY <1>2, <1>9
  <2>3. Matched(N - 1, b)'
    BY <1>1, <1>9, <1>11, <2>2, MatchedLess
  <2>4. Matched(MbSize - (N - 1), w)'
    BY <1>1, <1>9, <1>11, <2>2, MatchedMore
  <2>. QED BY <1>6, <2>1, <2>3, <2>4
<1>12. ASSUME NEW t, N = MbSize, mb' = mb, Enters(t, w) \/ Quits(t, w)
       PROVE  MailInv'
  <2>1. Matched(MbSize - N, w)'
    BY <1>2, <1>9, <1>12, MatchedNone
  <2>2. Waiters(b)' \subseteq Waiters(b) /\ Takers(b)' = Takers(b)
    BY <1>1, <1>12 DEF Enters, Quits, Only, Joined, Kept
  <2>3. Matched(N, b)'
    BY <1>9, <2>2, MatchedStill
  <2>. QED BY <1>7, <1>8, <1>12, <2>1, <2>3
<1>13. ASSUME NEW t, N = 0, mb' = mb, Enters(t, b) \/ Quits(t, b)
       PROVE  MailInv'
  <2>1. Matched(N, b)'
    BY <1>9, <1>13, MatchedNone
  <2>2. Waiters(w)' \subseteq Waiters(w) /\ Takers(w)' = Takers(w)
    BY <1>1, <1>13 DEF Enters, Quits, Only, Joined, Kept
  <2>3. Matched(MbSize - N, w)'
    BY <1>9, <2>2, MatchedStill
  <2>. QED BY <1>7, <1>8, <1>13, <2>1, <2>3
<1>14. ASSUME Emptied(b), Dropped({}, Waiters(b) \union Waiters(w))
       PROVE  MailInv'
  <2>1. MailEntries(b, 0)
    BY <1>14, EmptiedEntries DEF MailInv
  <2>2. Waiters(b)' = {} /\ Waiters(w)' = {}
    BY <1>1, <1>14 DEF Dropped
  <2>3. Matched(0, b)' /\ Matched(MbSize - 0, w)'
    BY <2>2 DEF Matched
  <2>. QED BY <1>6, <2>1, <2>3
<1>15. ASSUME NEW T, mb' = mb, Dropped({}, T)
       PROVE  MailInv'
  <2>1. /\ Waiters(b)' \subseteq Waiters(b) /\ Takers(b)' = Takers(b)
        /\ Waiters(w)' \subseteq Waiters(w) /\ Takers(w)' = Takers(w)
    BY <1>1, <1>15 DEF Dropped
  <2>2. Matched(N, b)' /\ Matched(MbSize - N, w)'
    BY <1>9, <2>1, MatchedStill
  <2>. QED BY <1>7, <1>8, <1>15, <2>2
<1>. QED BY <1>8, <1>10, <1>11, <1>12, <1>13, <1>14, <1>15 DEF MailDid, w, n

\* Steps of other services, and the tick.
LEMMA MailFrame ==
    ASSUME MailInv, NEW A, Foot(A), A \intersect MailLists = {}, mb' = mb
    PROVE  MailInv'
<1>1. ASSUME NEW c \in Mailboxes
      PROVE  /\ Matched(mb[c].entry, c)'
             /\ Matched(MbSize - mb[c].entry, suspend_sender_thread(c))'
  <2>1. c \notin A /\ suspend_sender_thread(c) \notin A
    BY MailListsOK
  <2>2. PICK m : m = mb[c].entry
    OBVIOUS
  <2>3. MailPair(c, m)'
    BY <2>1, <2>2, MailOthers
  <2>. QED BY <2>2, <2>3 DEF MailPair
<1>. QED BY <1>1 DEF MailInv, MailMatched, MailShape

-----------------------------------------------------------------------------
(* Message queue.                                                          *)

\* A message has been linked, by a call or by an interrupt handler.
MsgLinked(m) ==
    \E x \in {mq[m], Allocated(mq[m])} : \E s, v :
        mq' = [mq EXCEPT ![m] = LinkedLast(x, s, v)] \/ mq' = [mq EXCEPT ![m] = LinkedFirst(x, s, v)]

\* A slot has been taken off the free list, or put there.
SlotMoved(m) ==
    \/ mq[m].free # None /\ mq' = [mq EXCEPT ![m] = Allocated(@)]
    \/ \E s : mq' = [mq EXCEPT ![m] = Freed(@, s)]

\* What a step may do with message queue m.
MqDid(m) ==
    \/ MsgLinked(m) /\ Offered({}, m)
    \/ /\ mq[m].entry # 0 /\ mq' = [mq EXCEPT ![m] = Unlinked(@)]
       /\ \E t : Quits(t, m)
    \/ mq[m].entry = 0 /\ mq' = mq /\ \E t : Enters(t, m) \/ Quits(t, m)
    \/ mq' = [mq EXCEPT ![m] = Drained(@)] /\ Dropped({}, Waiters(m))
    \/ (mq' = mq \/ SlotMoved(m)) /\ \E T : Dropped({}, T)

LEMMA MqFits ==
    ASSUME NEW t \in Threads, t # Idle, NEW m \in Queues, NEW p \in MqPlaces
    PROVE  Fits(t, p, m) /\ p \notin SvcLocked
BY MessageQueueAssumption
   DEF Fits, Places, MailPlaces, MqPlaces, EvPlaces, MpPlaces, CpPlaces, DqPlaces,
       SvcLocked

LEMMA MqListsOK ==
    ASSUME NEW m \in Queues
    PROVE  m \in WaitLists /\ m \in Objects
BY MessageQueueAssumption

LEMMA MqLookDid ==
    ASSUME SvcInv, NEW t, Calling(t), NEW m \in Queues, Only({t}, m), UNCHANGED <<isr, alive>>,
           \/ Dequeue(t, m)
           \/ \E time : MqBlock(t, m, time)
           \/ mq[m].entry = 0 /\ Return(t) /\ UNCHANGED <<k, mq>>
           \/ \E time : mq[m].entry = 0 /\ TimedOut(t, time) /\ UNCHANGED mq
    PROVE  MqDid(m)
<1>1. /\ t \in Threads /\ t # Idle /\ k.cur = t
      /\ pc[t] \notin SvcSched /\ pc[t] \notin SvcLocked
  BY DEF Calling
<1>2. CASE Dequeue(t, m)
  <2>1. Fits(t, "mqr_copy", m) /\ "mqr_copy" \notin SvcLocked /\ "mqr_copy" \notin WaitPlaces
    BY <1>1, MqFits DEF MqPlaces, WaitPlaces
  <2>2. k' = k /\ Goes(t, "mqr_copy", m)
    BY <1>2, ProceedGoes DEF Dequeue
  <2>3. Kept({t})
    BY <1>1, <2>1, <2>2, StepOK
  <2>. QED BY <1>2, <2>3 DEF Dequeue, MqDid, Quits
<1>3. ASSUME NEW time, MqBlock(t, m, time)
      PROVE  MqDid(m)
  <2>1. Fits(t, "mqr_sched", m)
    BY <1>1, MqFits DEF MqPlaces
  <2>2. Waits("mqr_sched", m, m) /\ "mqr_sched" \in SvcSched /\ m \in WaitLists
    BY MqListsOK DEF Waits, SvcSched
  <2>3. k' = WaitOn(k, m, t, MqFlag, time) /\ Proceed(t, m, "mqr_sched")
    BY <1>3 DEF MqBlock, Block
  <2>4. Joined(t, m)
    BY <2>1, <2>2, <2>3, BlockOK
  <2>. QED BY <1>3, <2>4 DEF MqBlock, MqDid, Enters
<1>4. CASE mq[m].entry = 0 /\ Return(t) /\ UNCHANGED <<k, mq>>
  <2>1. Kept({t})
    BY <1>4, LeaveOK
  <2>. QED BY <1>4, <2>1 DEF MqDid, Quits
<1>5. ASSUME NEW time, mq[m].entry = 0, TimedOut(t, time), UNCHANGED mq
      PROVE  MqDid(m)
  <2>1. Kept({t})
    BY <1>5, TimedOutOK
  <2>. QED BY <1>5, <2>1 DEF MqDid, Quits
<1>. QED BY <1>2, <1>3, <1>4, <1>5

LEMMA MqCallDid ==
    ASSUME SvcInv, NEW t, MqCall(t)
    PROVE  \E m \in Queues : MqDid(m)
<1>1. PICK m \in Queues :
         \/ rt_mq_send(t, m) \/ rt_mq_urgent(t, m)
         \/ \E time \in MqTimes : rt_mq_recv(t, m, time)
         \/ rt_mq_control(t, m)
         \/ rt_mq_detach(t, m) /\ UNCHANGED <<left, item, mq>>
  BY DEF MqCall
<1>2. Calls(t, m)
  BY <1>1 DEF rt_mq_send, rt_mq_urgent, Allocate, rt_mq_recv, rt_mq_control, rt_mq_detach,
              DetachCall
<1>3. /\ Calling(t) /\ t \in Threads /\ t # Idle
      /\ \A v \in WaitLists : t \notin Takers(v)
  BY <1>2, CallsCalling
<1>4. Only({t}, m)
  BY <1>3, OnlyUnserved
<1>5. k.cur = t /\ pc[t] \notin SvcSched /\ pc[t] \notin SvcLocked
  BY <1>3 DEF Calling
<1>6. ASSUME NEW place \in {"mq_filled", "mq_urgent"}, Allocate(t, m, place)
      PROVE  MqDid(m)
  <2>1. CASE mq[m].free = None /\ UNCHANGED <<k, isr, pc, arg, alive, mq>>
    <3>1. Kept({})
      BY <2>1, StillOK
    <3>. QED BY <2>1, <3>1, KeptDrops DEF MqDid
  <2>2. CASE mq[m].free # None /\ mq' = [mq EXCEPT ![m] = Allocated(@)] /\ Proceed(t, m, place)
    <3>1. Fits(t, place, m) /\ place \notin SvcLocked /\ place \notin WaitPlaces
      BY <1>3, MqFits DEF MqPlaces, WaitPlaces
    <3>2. k' = k /\ Goes(t, place, m)
      BY <1>6, <2>2, ProceedGoes DEF Allocate
    <3>3. Kept({t})
      BY <1>5, <3>1, <3>2, StepOK
    <3>4. Kept({})
      BY <1>3, <3>3, KeptNone
    <3>. QED BY <2>2, <3>4, KeptDrops DEF MqDid, SlotMoved
  <2>. QED BY <1>6, <2>1, <2>2 DEF Allocate
<1>7. ASSUME NEW time \in MqTimes, rt_mq_recv(t, m, time)
      PROVE  MqDid(m)
  BY <1>3, <1>4, <1>7, LeaveReturns, MqLookDid DEF rt_mq_recv
<1>8. CASE rt_mq_control(t, m)
  <2>1. /\ k' = rt_ipc_list_resume_all(k, m) /\ Goes(t, "ret_sched", None)
        /\ mq' = [mq EXCEPT ![m] = Drained(@)]
    BY <1>8, ProceedGoes DEF rt_mq_control, LeaveVia
  <2>2. Fits(t, "ret_sched", None) /\ "ret_sched" \notin WaitPlaces /\ "ret_sched" \notin SvcLocked
    BY <1>3, CommonFits
  <2>3. m \in WaitLists
    BY MqListsOK
  <2>4. Dropped({t}, Waiters(m))
    BY <1>5, <2>1, <2>2, <2>3, DropAll
  <2>5. Dropped({}, Waiters(m))
    BY <1>3, <2>4 DEF Dropped
  <2>. QED BY <2>1, <2>5 DEF MqDid
<1>9. CASE rt_mq_detach(t, m) /\ mq' = mq
  <2>1. Fits(t, "mqd_test", m) /\ "mqd_test" \notin SvcLocked /\ "mqd_test" \notin WaitPlaces
    BY <1>3, MqFits DEF MqPlaces, WaitPlaces
  <2>2. Kept({})
    BY <1>9, <2>1, DetachCallOK DEF rt_mq_detach
  <2>. QED BY <1>9, <2>2, KeptDrops DEF MqDid
<1>. QED BY <1>1, <1>6, <1>7, <1>8, <1>9 DEF rt_mq_send, rt_mq_urgent

LEMMA MqStepDid ==
    ASSUME SvcInv, NEW t, MqStep(t)
    PROVE  \E m \in Queues : MqDid(m)
<1>. DEFINE m == arg[t]
<1>1. ASSUME NEW p \in MqPlaces, At(t, p)
      PROVE  t \in Threads /\ m \in Queues /\ pc[t] = p /\ t # Idle
  <2>1. t \in Threads /\ Fits(t, p, arg[t]) /\ pc[t] = p
    BY <1>1, AtFits
  <2>. QED BY <1>1, <2>1 DEF Fits, MqPlaces
<1>2. ASSUME NEW p \in {"mq_filled", "mq_urgent", "mqr_copy", "mqr_woken"}, At(t, p)
      PROVE  Calling(t) /\ (p # "mqr_woken" => \A v \in WaitLists : t \notin Takers(v))
  <2>1. /\ p # "run" /\ p \notin SvcSched /\ p \notin SvcLocked
        /\ p # "mqr_woken" => p \notin WaitPlaces
    BY <1>2 DEF SvcSched, SvcLocked, WaitPlaces
  <2>2. Calling(t) /\ pc[t] = p
    BY <1>2, <2>1, AtCalling
  <2>. QED BY <2>1, <2>2, NotTaker
<1>3. {"mq_filled", "mq_urgent", "mqr_copy", "mqr_woken", "mqr_sched", "mqd_test", "mqd_wake"}
         \subseteq MqPlaces
  BY DEF MqPlaces
<1>4. ASSUME NEW v \in Messages, SendLink(t, v) \/ UrgentLink(t, v)
      PROVE  m \in Queues /\ MqDid(m)
  <2>1. PICK p \in {"mq_filled", "mq_urgent"} : At(t, p)
    BY <1>4 DEF SendLink, UrgentLink
  <2>2. WakeAndLeave(t, m) /\ UNCHANGED <<isr, alive>>
    BY <1>4 DEF SendLink, UrgentLink
  <2>3. Calling(t) /\ m \in Queues /\ \A w \in WaitLists : t \notin Takers(w)
    BY <1>1, <1>2, <1>3, <2>1
  <2>4. Offered({}, m)
    BY <2>2, <2>3, MqListsOK, WakeAndLeaveOK, OfferedNone
  <2>5. MsgLinked(m)
    BY <1>4 DEF SendLink, UrgentLink, MsgLinked
  <2>. QED BY <2>3, <2>4, <2>5 DEF MqDid
<1>5. CASE MqWoken(t)
  <2>1. At(t, "mqr_woken") /\ UNCHANGED <<isr, alive>>
    BY <1>5 DEF MqWoken
  <2>2. Calling(t) /\ m \in Queues /\ t \in Threads /\ pc[t] = "mqr_woken"
    BY <1>1, <1>2, <1>3, <2>1
  <2>3. Only({t}, m)
    BY <2>2, MqListsOK, OnlyOwn DEF Waits
  <2>4. CASE Failed(t) /\ UNCHANGED mq
    <3>1. Kept({})
      BY <2>1, <2>2, <2>4, FailedOK
    <3>. QED BY <2>2, <2>4, <3>1, KeptDrops DEF MqDid
  <2>5. CASE ~(Failed(t) /\ UNCHANGED mq)
    <3>1. \/ Dequeue(t, m)
          \/ \E time : MqBlock(t, m, time)
          \/ \E time : mq[m].entry = 0 /\ TimedOut(t, time) /\ UNCHANGED mq
      BY <1>5, <2>5 DEF MqWoken
    <3>. QED BY <2>1, <2>2, <2>3, <3>1, MqLookDid
  <2>. QED BY <2>4, <2>5
<1>6. CASE RecvFree(t)
  <2>1. At(t, "mqr_copy") /\ UNCHANGED <<k, isr, alive>> /\ Return(t)
        /\ mq' = [mq EXCEPT ![m] = Freed(@, item[t])]
    BY <1>6, LeaveReturns DEF RecvFree
  <2>2. Calling(t) /\ m \in Queues /\ \A w \in WaitLists : t \notin Takers(w)
    BY <1>1, <1>2, <1>3, <2>1
  <2>3. Kept({t})
    BY <2>1, <2>2, LeaveOK
  <2>4. Kept({})
    BY <2>2, <2>3, KeptNone
  <2>. QED BY <2>1, <2>2, <2>4, KeptDrops DEF MqDid, SlotMoved
<1>7. \A q \in MqPlaces \union {"det_object"}, p \in MqPlaces :
         At(t, p) /\ Fits(t, p, arg[t]) => Fits(t, q, arg[t])
  BY <1>1, MqFits, MqListsOK, CommonFits
<1>8. CASE Resched(t, "mqr_sched", "mqr_woken") /\ mq' = mq
  <2>1. At(t, "mqr_sched")
    BY <1>8 DEF Resched
  <2>2. \A v : Waits("mqr_woken", arg[t], v) <=> Waits("mqr_sched", arg[t], v)
    BY DEF Waits
  <2>3. "mqr_woken" \in SvcLocked <=> "mqr_sched" \in SvcLocked
    BY DEF SvcLocked
  <2>4. Kept({})
    BY <1>3, <1>7, <1>8, <2>1, <2>2, <2>3, ReschedStepOK
  <2>. QED BY <1>1, <1>3, <1>8, <2>1, <2>4, KeptDrops DEF MqDid
<1>9. CASE MqDetachSteps(t) /\ mq' = mq
  <2>1. \A p \in {"mqd_test", "mqd_wake", "det_object"} :
           p \notin SvcSched /\ p \notin WaitPlaces /\ p \notin SvcLocked
    BY DEF SvcSched, WaitPlaces, SvcLocked
  <2>2. CASE ResumeAllTest(t, m, "mqd_test", "mqd_wake", "det_object")
    <3>1. At(t, "mqd_test")
      BY <2>2 DEF ResumeAllTest
    <3>2. Kept({})
      BY <1>3, <1>7, <2>1, <2>2, <3>1, ResumeAllTestOK
    <3>. QED BY <1>1, <1>3, <1>9, <3>1, <3>2, KeptDrops DEF MqDid
  <2>3. CASE ResumeAllWake(t, m, "mqd_wake", "mqd_test")
    <3>1. At(t, "mqd_wake")
      BY <2>3 DEF ResumeAllWake
    <3>2. m \in Queues /\ m \in WaitLists
      BY <1>1, <1>3, <3>1, MqListsOK
    <3>3. \E T : Dropped({}, T)
      BY <1>3, <1>7, <2>1, <2>3, <3>1, <3>2, ResumeAllWakeOK
    <3>. QED BY <1>9, <3>2, <3>3 DEF MqDid
  <2>. QED BY <1>9, <2>2, <2>3 DEF MqDetachSteps
<1>. QED BY <1>4, <1>5, <1>6, <1>8, <1>9 DEF MqStep

LEMMA MqNextDid ==
    ASSUME SvcInv, MqNext
    PROVE  \E m \in Queues : MqDid(m)
<1>1. CASE MqIsr
  <2>1. PICK m \in Queues, v \in Messages : IsrSendMessage(m, v)
    BY <1>1 DEF MqIsr
  <2>2. Offered({}, m)
    BY <2>1, MqListsOK, IsrWakeAnyOK DEF IsrSendMessage
  <2>3. MsgLinked(m)
    BY <2>1 DEF IsrSendMessage, MsgLinked
  <2>. QED BY <2>2, <2>3 DEF MqDid
<1>. QED BY <1>1, MqCallDid, MqStepDid DEF MqNext

LEMMA MqActs ==
    ASSUME NEW m \in Queues, MqDid(m)
    PROVE  Acts(Queues)
BY OnlyNobody DEF MqDid, Acts, Passes

-----------------------------------------------------------------------------
(* The linked slots of a message queue as sequences.                       *)

\* The i-th slot of c, or the null pointer behind the last.
Link(c, i) == IF i \in 1 .. Len(c) THEN c[i] ELSE None

\* The next pointers lead from s along c and end there.
Linked(next, s, c) ==
    /\ c \in Seq(Slots)
    /\ IsInjective(c)
    /\ s = Link(c, 1)
    /\ \A i \in 1 .. Len(c) : next[c[i]] = Link(c, i + 1)

\* MqState, with a counter that nothing bounds.
SlotState ==
    [next : [Slots -> Pointer], data : [Slots -> Messages \union {None}],
     head : Pointer, tail : Pointer, free : Pointer, entry : Nat]

\* Control block m has the messages of c queued and the slots of f free.
Holds(m, c, f) ==
    /\ m \in SlotState
    /\ Linked(m.next, m.head, c)
    /\ Linked(m.next, m.free, f)
    /\ ToSet(c) \intersect ToSet(f) = {}
    /\ m.entry = Len(c)
    /\ m.tail = Link(c, Len(c))

\* One assignment to a field.
WithNext(m, s, x) == [m EXCEPT !.next[s] = x]
WithData(m, s, v) == [m EXCEPT !.data[s] = v]
WithHead(m, x) == [m EXCEPT !.head = x]
WithTail(m, x) == [m EXCEPT !.tail = x]
WithEntry(m, n) == [m EXCEPT !.entry = n]

SameBut(m, r, fields) ==
    /\ r \in SlotState
    /\ "next" \notin fields => r.next = m.next
    /\ "head" \notin fields => r.head = m.head
    /\ "tail" \notin fields => r.tail = m.tail
    /\ "entry" \notin fields => r.entry = m.entry
    /\ "data" \notin fields => r.data = m.data
    /\ r.free = m.free

LEMMA PutNext ==
    ASSUME NEW m \in SlotState, NEW s \in Slots, NEW x \in Pointer
    PROVE  /\ SameBut(m, WithNext(m, s, x), {"next"})
           /\ WithNext(m, s, x).next = [m.next EXCEPT ![s] = x]
BY DEF SlotState, SameBut, WithNext

LEMMA PutData ==
    ASSUME NEW m \in SlotState, NEW s \in Slots, NEW v \in Messages
    PROVE  /\ SameBut(m, WithData(m, s, v), {"data"})
           /\ WithData(m, s, v).data = [m.data EXCEPT ![s] = v]
BY DEF SlotState, SameBut, WithData

LEMMA PutHead ==
    ASSUME NEW m \in SlotState, NEW x \in Pointer
    PROVE  SameBut(m, WithHead(m, x), {"head"}) /\ WithHead(m, x).head = x
BY DEF SlotState, SameBut, WithHead

LEMMA PutTail ==
    ASSUME NEW m \in SlotState, NEW x \in Pointer
    PROVE  SameBut(m, WithTail(m, x), {"tail"}) /\ WithTail(m, x).tail = x
BY DEF SlotState, SameBut, WithTail

LEMMA PutEntry ==
    ASSUME NEW m \in SlotState, NEW n, n \in Nat
    PROVE  SameBut(m, WithEntry(m, n), {"entry"}) /\ WithEntry(m, n).entry = n
BY DEF SlotState, SameBut, WithEntry

\* The operations, field by field.
LEMMA UnlinkedFields ==
    ASSUME NEW m \in SlotState, m.next[m.head] \in Pointer, m.entry - 1 \in Nat
    PROVE  LET r == Unlinked(m)
           IN  /\ r \in SlotState /\ r.next = m.next /\ r.free = m.free
               /\ r.head = m.next[m.head] /\ r.entry = m.entry - 1
               /\ r.tail = IF m.tail = m.head THEN None ELSE m.tail
               /\ r.data = m.data
<1>1. PICK x, y, n : /\ x = m.next[m.head] /\ y = (IF m.tail = m.head THEN None ELSE m.tail)
                     /\ n = m.entry - 1
  OBVIOUS
<1>2. x \in Pointer /\ y \in Pointer /\ n \in Nat
  BY <1>1 DEF SlotState, Pointer
<1>3. Unlinked(m) = WithEntry(WithTail(WithHead(m, x), y), n)
  BY <1>1 DEF Unlinked, WithEntry, WithTail, WithHead
<1>4. PICK a, b : a = WithHead(m, x) /\ b = WithTail(a, y)
  OBVIOUS
<1>5. SameBut(m, a, {"head"}) /\ a.head = x
  BY <1>2, <1>4, PutHead
<1>6. SameBut(a, b, {"tail"}) /\ b.tail = y
  BY <1>2, <1>4, <1>5, PutTail DEF SameBut
<1>7. SameBut(b, Unlinked(m), {"entry"}) /\ Unlinked(m).entry = n
  <2>1. b \in SlotState /\ Unlinked(m) = WithEntry(b, n)
    BY <1>3, <1>4, <1>6 DEF SameBut
  <2>. QED BY <1>2, <2>1, PutEntry
<1>. QED BY <1>1, <1>5, <1>6, <1>7 DEF SameBut

LEMMA FirstFields ==
    ASSUME NEW m \in SlotState, NEW s \in Slots, NEW v \in Messages
    PROVE  LET r == LinkedFirst(m, s, v)
           IN  /\ r \in SlotState /\ r.next = [m.next EXCEPT ![s] = m.head]
               /\ r.free = m.free /\ r.head = s /\ r.entry = m.entry + 1
               /\ r.tail = IF m.tail = None THEN s ELSE m.tail
               /\ r.data = [m.data EXCEPT ![s] = v]
<1>1. PICK x, y, n : /\ x = m.head /\ y = (IF m.tail = None THEN s ELSE m.tail)
                     /\ n = m.entry + 1
  OBVIOUS
<1>2. x \in Pointer /\ y \in Pointer /\ n \in Nat /\ s \in Pointer
  BY <1>1 DEF SlotState, Pointer
<1>3. LinkedFirst(m, s, v) =
        WithEntry(WithTail(WithHead(WithNext(WithData(m, s, v), s, x), s), y), n)
  BY <1>1 DEF LinkedFirst, WithEntry, WithTail, WithHead, WithNext, WithData
<1>4. PICK a, b, c, d : /\ a = WithData(m, s, v) /\ b = WithNext(a, s, x)
                        /\ c = WithHead(b, s) /\ d = WithTail(c, y)
  OBVIOUS
<1>5. SameBut(m, a, {"data"}) /\ a.data = [m.data EXCEPT ![s] = v]
  BY <1>4, PutData
<1>6. SameBut(a, b, {"next"}) /\ b.next = [a.next EXCEPT ![s] = x]
  BY <1>2, <1>4, <1>5, PutNext DEF SameBut
<1>11. b \in SlotState
  BY <1>6 DEF SameBut
<1>7. SameBut(b, c, {"head"}) /\ c.head = s
  BY <1>2, <1>4, <1>11, PutHead
<1>8. SameBut(c, d, {"tail"}) /\ d.tail = y
  BY <1>2, <1>4, <1>7, PutTail, SMTT(30) DEF SameBut
<1>9. SameBut(d, LinkedFirst(m, s, v), {"entry"}) /\ LinkedFirst(m, s, v).entry = n
  BY <1>2, <1>3, <1>4, <1>8, PutEntry DEF SameBut
<1>10. a.next = m.next
  BY <1>5 DEF SameBut
<1>. QED BY <1>1, <1>5, <1>6, <1>7, <1>8, <1>9, <1>10 DEF SameBut

LEMMA LastFields ==
    ASSUME NEW m \in SlotState, NEW s \in Slots, NEW v \in Messages
    PROVE  LET r == LinkedLast(m, s, v)
           IN  /\ r \in SlotState
               /\ r.next = IF m.tail = None THEN [m.next EXCEPT ![s] = None]
                           ELSE [[m.next EXCEPT ![s] = None] EXCEPT ![m.tail] = s]
               /\ r.free = m.free /\ r.head = (IF m.head = None THEN s ELSE m.head)
               /\ r.tail = s /\ r.entry = m.entry + 1
               /\ r.data = [m.data EXCEPT ![s] = v]
<1>1. PICK new : new = WithNext(WithData(m, s, v), s, None)
  OBVIOUS
<1>2. PICK a : a = WithData(m, s, v)
  OBVIOUS
<1>3. SameBut(m, a, {"data"}) /\ a.data = [m.data EXCEPT ![s] = v]
  BY <1>2, PutData
<1>4. None \in Pointer /\ s \in Pointer
  BY DEF Pointer
<1>5. SameBut(a, new, {"next"}) /\ new.next = [a.next EXCEPT ![s] = None]
  BY <1>1, <1>2, <1>3, <1>4, PutNext DEF SameBut
<1>6. /\ new \in SlotState /\ new.tail = m.tail /\ new.next = [m.next EXCEPT ![s] = None]
      /\ new.head = m.head /\ new.entry = m.entry /\ new.free = m.free
      /\ new.data = [m.data EXCEPT ![s] = v]
  <2>1. a.next = m.next
    BY <1>3 DEF SameBut
  <2>. QED BY <1>3, <1>5, <2>1 DEF SameBut
<1>7. PICK old : old = IF new.tail = None THEN new ELSE WithNext(new, new.tail, s)
  OBVIOUS
<1>8. SameBut(new, old, {"next"}) /\ old.next = (IF m.tail = None THEN new.next
                                                 ELSE [new.next EXCEPT ![m.tail] = s])
  <2>1. CASE new.tail = None
    BY <1>6, <1>7, <2>1 DEF SameBut
  <2>2. CASE new.tail # None
    <3>1. new.tail \in Slots
      BY <1>6, <2>2 DEF SlotState, Pointer
    <3>2. old = WithNext(new, new.tail, s)
      BY <1>7, <2>2
    <3>. QED BY <1>4, <1>6, <2>2, <3>1, <3>2, PutNext
  <2>. QED BY <2>1, <2>2
<1>9. PICK x, n : x = (IF old.head = None THEN s ELSE old.head) /\ n = old.entry + 1
  OBVIOUS
<1>10. /\ old \in SlotState /\ old.head = m.head /\ old.entry = m.entry /\ old.free = m.free
       /\ old.data = [m.data EXCEPT ![s] = v]
  BY <1>6, <1>8 DEF SameBut
<1>11. x \in Pointer /\ n \in Nat
  BY <1>9, <1>10 DEF SlotState, Pointer
<1>12. LinkedLast(m, s, v) = WithEntry(WithHead(WithTail(old, s), x), n)
  BY <1>1, <1>7, <1>9 DEF LinkedLast, WithEntry, WithHead, WithTail, WithNext, WithData
<1>13. PICK b, c : b = WithTail(old, s) /\ c = WithHead(b, x)
  OBVIOUS
<1>14. SameBut(old, b, {"tail"}) /\ b.tail = s
  BY <1>4, <1>10, <1>13, PutTail
<1>15. SameBut(b, c, {"head"}) /\ c.head = x
  BY <1>11, <1>13, <1>14, PutHead DEF SameBut
<1>16. SameBut(c, LinkedLast(m, s, v), {"entry"}) /\ LinkedLast(m, s, v).entry = n
  BY <1>11, <1>12, <1>13, <1>15, PutEntry DEF SameBut
<1>17. old.next = IF m.tail = None THEN [m.next EXCEPT ![s] = None]
                  ELSE [[m.next EXCEPT ![s] = None] EXCEPT ![m.tail] = s]
  BY <1>6, <1>8
<1>. QED BY <1>9, <1>10, <1>14, <1>15, <1>16, <1>17 DEF SameBut

LEMMA NotASlot == None \notin Slots
BY MessageQueueAssumption DEF Slots

LEMMA LinkedFacts ==
    ASSUME NEW next, NEW s, NEW c, Linked(next, s, c)
    PROVE  /\ Len(c) \in Nat /\ ToSet(c) \subseteq Slots
           /\ s = None <=> c = <<>>
           /\ c # <<>> => s = Head(c) /\ s \in ToSet(c) /\ next[s] = Link(c, 2)
<1>1. c \in Seq(Slots) /\ Len(c) \in Nat
  BY DEF Linked
<1>2. ToSet(c) \subseteq Slots
  BY <1>1, ToSetDef
<1>3. CASE c = <<>>
  BY <1>1, <1>2, <1>3 DEF Linked, Link
<1>4. CASE c # <<>>
  <2>1. 1 \in 1 .. Len(c) /\ s = c[1] /\ c[1] = Head(c)
    BY <1>1, <1>4 DEF Linked, Link
  <2>2. s \in ToSet(c)
    BY <1>1, <1>4, <2>1, HeadIn
  <2>3. next[c[1]] = Link(c, 1 + 1)
    BY <2>1 DEF Linked
  <2>. QED BY <1>1, <1>2, <1>4, <2>1, <2>2, <2>3, NotASlot
<1>. QED BY <1>3, <1>4

\* Pointers elsewhere do not matter.
LEMMA LinkedStill ==
    ASSUME NEW next, NEW s, NEW c, Linked(next, s, c),
           NEW new, \A x \in ToSet(c) : new[x] = next[x]
    PROVE  Linked(new, s, c)
<1>1. c \in Seq(Slots)
  BY DEF Linked
<1>2. \A i \in 1 .. Len(c) : c[i] \in ToSet(c)
  BY <1>1, ToSetDef
<1>. QED BY <1>2 DEF Linked

\* The list without its first slot.
LEMMA LinkedTail ==
    ASSUME NEW next, NEW s, NEW c, Linked(next, s, c), c # <<>>
    PROVE  Linked(next, next[s], Tail(c))
<1>1. c \in Seq(Slots) /\ IsInjective(c) /\ Len(c) \in Nat \ {0} /\ next[s] = Link(c, 2)
  BY LinkedFacts DEF Linked
<1>2. /\ Tail(c) \in Seq(Slots) /\ IsInjective(Tail(c)) /\ Len(Tail(c)) = Len(c) - 1
      /\ \A i \in 1 .. (Len(c) - 1) : Tail(c)[i] = c[i + 1]
  BY <1>1, TailFacts
<1>. DEFINE r == Tail(c)
<1>. HIDE DEF r
<1>3. \A i \in 1 .. Len(c) : Link(r, i) = Link(c, i + 1)
  BY <1>1, <1>2 DEF Link, r
<1>4. ASSUME NEW i \in 1 .. Len(r)
      PROVE  next[r[i]] = Link(r, i + 1)
  <2>1. i + 1 \in 1 .. Len(c) /\ r[i] = c[i + 1]
    BY <1>1, <1>2 DEF r
  <2>2. next[c[i + 1]] = Link(c, i + 1 + 1)
    BY <2>1 DEF Linked
  <2>. QED BY <1>3, <2>1, <2>2
<1>5. next[s] = Link(r, 1)
  BY <1>1, <1>3
<1>. QED BY <1>2, <1>4, <1>5 DEF Linked, r

\* A slot that points to the first one comes before it.
LEMMA LinkedCons ==
    ASSUME NEW next, NEW s, NEW c, Linked(next, s, c), NEW x \in Slots, x \notin ToSet(c),
           next[x] = s
    PROVE  Linked(next, x, Cons(x, c))
<1>1. c \in Seq(Slots) /\ IsInjective(c) /\ Len(c) \in Nat /\ s = Link(c, 1)
  BY DEF Linked
<1>. DEFINE r == Cons(x, c)
<1>2. r \in Seq(Slots) /\ IsInjective(r)
  BY <1>1, ConsFacts
<1>3. /\ Len(r) = Len(c) + 1
      /\ \A i \in 1 .. Len(c) + 1 : r[i] = IF i = 1 THEN x ELSE c[i - 1]
  BY <1>1 DEF Cons
<1>. HIDE DEF r
<1>4. \A i \in 1 .. Len(c) + 1 : Link(r, i + 1) = Link(c, i)
  BY <1>1, <1>3 DEF Link
<1>5. ASSUME NEW i \in 1 .. Len(r)
      PROVE  next[r[i]] = Link(r, i + 1)
  <2>1. CASE i = 1
    BY <1>1, <1>3, <1>4, <2>1
  <2>2. CASE i # 1
    <3>1. i - 1 \in 1 .. Len(c) /\ r[i] = c[i - 1]
      BY <1>1, <1>3, <2>2
    <3>2. next[c[i - 1]] = Link(c, i - 1 + 1)
      BY <3>1 DEF Linked
    <3>. QED BY <1>1, <1>3, <1>4, <3>1, <3>2
  <2>. QED BY <2>1, <2>2
<1>6. x = Link(r, 1)
  BY <1>1, <1>3 DEF Link
<1>. QED BY <1>2, <1>5, <1>6 DEF Linked, r

\* A slot that the last one points to comes behind it.
LEMMA LinkedAppend ==
    ASSUME NEW next, NEW s, NEW c, Linked(next, s, c), NEW x \in Slots, x \notin ToSet(c),
           NEW new, new[x] = None, c # <<>> => new[c[Len(c)]] = x,
           \A y \in ToSet(c) : c # <<>> /\ y # c[Len(c)] => new[y] = next[y]
    PROVE  Linked(new, IF c = <<>> THEN x ELSE s, Append(c, x))
<1>1. c \in Seq(Slots) /\ IsInjective(c) /\ Len(c) \in Nat /\ s = Link(c, 1)
  BY DEF Linked
<1>. DEFINE r == Append(c, x)
<1>2. r \in Seq(Slots) /\ IsInjective(r)
  BY <1>1, AppendFacts
<1>3. /\ Len(r) = Len(c) + 1
      /\ \A i \in 1 .. Len(c) + 1 : r[i] = IF i = Len(c) + 1 THEN x ELSE c[i]
  BY <1>1
<1>. HIDE DEF r
<1>4. ASSUME NEW i \in 1 .. Len(r)
      PROVE  new[r[i]] = Link(r, i + 1)
  <2>1. CASE i = Len(c) + 1
    BY <1>1, <1>3, <2>1 DEF Link
  <2>2. CASE i = Len(c)
    <3>1. c # <<>> /\ r[i] = c[Len(c)] /\ Link(r, i + 1) = x
      BY <1>1, <1>3, <2>2 DEF Link
    <3>. QED BY <3>1
  <2>3. CASE i \in 1 .. (Len(c) - 1)
    <3>1. /\ i \in 1 .. Len(c) /\ i + 1 \in 1 .. Len(c) /\ i # Len(c) /\ Len(c) \in 1 .. Len(c)
          /\ c # <<>>
      BY <1>1, <2>3
    <3>2. c[i] # c[Len(c)] /\ c[i] \in ToSet(c)
      BY <1>1, <3>1, ToSetDef DEF IsInjective
    <3>3. r[i] = c[i] /\ Link(r, i + 1) = Link(c, i + 1)
      BY <1>1, <1>3, <3>1 DEF Link
    <3>4. next[c[i]] = Link(c, i + 1)
      BY <3>1 DEF Linked
    <3>. QED BY <3>1, <3>2, <3>3, <3>4
  <2>. QED BY <1>1, <1>3, <2>1, <2>2, <2>3
<1>5. (IF c = <<>> THEN x ELSE s) = Link(r, 1)
  <2>1. CASE c = <<>>
    BY <1>1, <1>3, <2>1 DEF Link
  <2>2. CASE c # <<>>
    BY <1>1, <1>3, <2>2 DEF Link
  <2>. QED BY <2>1, <2>2
<1>. QED BY <1>2, <1>4, <1>5 DEF Linked, r

\* A slot in nobody's list.
Spare(s, c, f) == s \in Slots /\ s \notin ToSet(c) /\ s \notin ToSet(f)

LEMMA HoldsFacts ==
    ASSUME NEW m, NEW c, NEW f, Holds(m, c, f)
    PROVE  /\ c \in Seq(Slots) /\ f \in Seq(Slots) /\ IsInjective(c) /\ IsInjective(f)
           /\ Len(c) \in Nat /\ Len(f) \in Nat
           /\ ToSet(c) \subseteq Slots /\ ToSet(f) \subseteq Slots
           /\ m.free = None <=> f = <<>>
           /\ m.head = None <=> c = <<>>
           /\ m.tail = None <=> c = <<>>
           /\ c # <<>> => m.tail = c[Len(c)] /\ m.tail \in ToSet(c)
<1>1. Linked(m.next, m.head, c) /\ Linked(m.next, m.free, f) /\ m.tail = Link(c, Len(c))
  BY DEF Holds
<1>2. c \in Seq(Slots) /\ f \in Seq(Slots) /\ IsInjective(c) /\ IsInjective(f)
  BY <1>1 DEF Linked
<1>3. CASE c = <<>>
  BY <1>1, <1>2, <1>3, LinkedFacts DEF Link
<1>4. CASE c # <<>>
  <2>1. Len(c) \in 1 .. Len(c) /\ m.tail = c[Len(c)]
    BY <1>1, <1>2, <1>4 DEF Link
  <2>2. c[Len(c)] \in ToSet(c)
    BY <1>2, <2>1, ToSetDef
  <2>. QED BY <1>1, <1>2, <1>4, <2>1, <2>2, LinkedFacts, NotASlot
<1>. QED BY <1>3, <1>4

\* rt_mq_send takes the first free slot.
LEMMA AllocatedHolds ==
    ASSUME NEW m, NEW c, NEW f, Holds(m, c, f), m.free # None
    PROVE  /\ Holds(Allocated(m), c, Tail(f)) /\ Spare(m.free, c, Tail(f))
           /\ Len(Tail(f)) = Len(f) - 1 /\ ToSet(f) = ToSet(Tail(f)) \union {m.free}
           /\ Allocated(m).data = m.data
<1>1. /\ m \in SlotState /\ f # <<>> /\ f \in Seq(Slots) /\ IsInjective(f)
      /\ ToSet(c) \intersect ToSet(f) = {} /\ ToSet(f) \subseteq Slots
  BY HoldsFacts DEF Holds
<1>2. Linked(m.next, m.free, f)
  BY DEF Holds
<1>3. m.free = Head(f) /\ m.free \in ToSet(f)
  BY <1>1, <1>2, LinkedFacts
<1>4. Linked(m.next, m.next[m.free], Tail(f))
  BY <1>1, <1>2, LinkedTail
<1>5. Len(Tail(f)) = Len(f) - 1 /\ ToSet(Tail(f)) = ToSet(f) \ {m.free}
  BY <1>1, <1>3, TailFacts
<1>6. m.next[m.free] \in Pointer
  BY <1>1, <1>3 DEF SlotState
<1>7. /\ Allocated(m) \in SlotState /\ Allocated(m).next = m.next
      /\ Allocated(m).free = m.next[m.free] /\ Allocated(m).head = m.head
      /\ Allocated(m).tail = m.tail /\ Allocated(m).entry = m.entry
      /\ Allocated(m).data = m.data
  BY <1>1, <1>6 DEF Allocated, SlotState
<1>8. Holds(Allocated(m), c, Tail(f))
  BY <1>1, <1>4, <1>5, <1>7 DEF Holds
<1>. QED BY <1>1, <1>3, <1>5, <1>7, <1>8 DEF Spare

\* rt_mq_recv and the reset put a slot on the free list.
LEMMA FreedHolds ==
    ASSUME NEW m, NEW c, NEW f, Holds(m, c, f), NEW s, Spare(s, c, f)
    PROVE  /\ Holds(Freed(m, s), c, Cons(s, f)) /\ ToSet(Cons(s, f)) = ToSet(f) \union {s}
           /\ Len(Cons(s, f)) = Len(f) + 1 /\ Freed(m, s).data = m.data
<1>1. /\ m \in SlotState /\ f \in Seq(Slots) /\ IsInjective(f)
      /\ ToSet(c) \intersect ToSet(f) = {}
      /\ s \in Slots /\ s \notin ToSet(c) /\ s \notin ToSet(f) /\ ToSet(f) \subseteq Slots
      /\ ToSet(c) \subseteq Slots
  BY HoldsFacts DEF Holds, Spare
<1>2. PICK next : next = [m.next EXCEPT ![s] = m.free]
  OBVIOUS
<1>3. /\ Freed(m, s) \in SlotState /\ Freed(m, s).next = next
      /\ Freed(m, s).free = s /\ Freed(m, s).head = m.head
      /\ Freed(m, s).tail = m.tail /\ Freed(m, s).entry = m.entry
      /\ Freed(m, s).data = m.data
  BY <1>1, <1>2 DEF Freed, SlotState, Pointer
<1>4. m.next \in [Slots -> Pointer]
  BY <1>1 DEF SlotState
<1>5. next[s] = m.free /\ \A x \in Slots : x # s => next[x] = m.next[x]
  BY <1>1, <1>2, <1>4
<1>6. Linked(next, m.head, c) /\ Linked(next, m.free, f)
  <2>1. Linked(m.next, m.head, c) /\ Linked(m.next, m.free, f)
    BY DEF Holds
  <2>2. \A x \in ToSet(c) : next[x] = m.next[x]
    BY <1>1, <1>5
  <2>3. \A x \in ToSet(f) : next[x] = m.next[x]
    BY <1>1, <1>5
  <2>. QED BY <2>1, <2>2, <2>3, LinkedStill
<1>7. Linked(next, s, Cons(s, f))
  BY <1>1, <1>5, <1>6, LinkedCons
<1>8. ToSet(Cons(s, f)) = ToSet(f) \union {s} /\ Len(Cons(s, f)) = Len(f) + 1
  <2>1. ToSet(Cons(s, f)) = ToSet(f) \union {s}
    BY <1>1, ConsFacts
  <2>2. Len(Cons(s, f)) = Len(f) + 1
    BY <1>1 DEF Cons
  <2>. QED BY <2>1, <2>2
<1>9. Holds(Freed(m, s), c, Cons(s, f))
  BY <1>1, <1>3, <1>6, <1>7, <1>8 DEF Holds
<1>. QED BY <1>3, <1>8, <1>9

\* rt_mq_recv takes the first message.
LEMMA UnlinkedHolds ==
    ASSUME NEW m, NEW c, NEW f, Holds(m, c, f), c # <<>>
    PROVE  /\ Holds(Unlinked(m), Tail(c), f) /\ Spare(m.head, Tail(c), f)
           /\ Len(Tail(c)) = Len(c) - 1 /\ ToSet(c) = ToSet(Tail(c)) \union {m.head}
           /\ Unlinked(m).data = m.data /\ m.head = Head(c)
<1>0. c \in Seq(Slots) /\ Len(c) \in Nat \ {0}
  <2>1. c \in Seq(Slots)
    BY HoldsFacts
  <2>. QED BY <2>1, EmptySeq
<1>1. /\ m \in SlotState /\ c \in Seq(Slots) /\ IsInjective(c) /\ Len(c) \in Nat \ {0}
      /\ ToSet(c) \intersect ToSet(f) = {} /\ ToSet(c) \subseteq Slots
      /\ m.tail = c[Len(c)] /\ m.entry = Len(c)
  BY <1>0, HoldsFacts DEF Holds
<1>2. Linked(m.next, m.head, c)
  BY DEF Holds
<1>3. m.head = Head(c) /\ m.head \in ToSet(c)
  BY <1>1, <1>2, LinkedFacts
<1>4. Linked(m.next, m.next[m.head], Tail(c))
  BY <1>2, LinkedTail
<1>5. /\ Len(Tail(c)) = Len(c) - 1 /\ ToSet(Tail(c)) = ToSet(c) \ {m.head}
      /\ \A i \in 1 .. (Len(c) - 1) : Tail(c)[i] = c[i + 1]
  BY <1>1, <1>3, TailFacts
<1>6. m.next[m.head] \in Pointer
  BY <1>1, <1>3 DEF SlotState
<1>. DEFINE r == Unlinked(m)
<1>7. /\ r \in SlotState /\ r.next = m.next
      /\ r.head = m.next[m.head] /\ r.free = m.free
      /\ r.tail = (IF m.tail = m.head THEN None ELSE m.tail) /\ r.entry = m.entry - 1
      /\ r.data = m.data
  <2>1. m.entry - 1 \in Nat
    BY <1>1
  <2>. QED BY <1>1, <1>6, <2>1, UnlinkedFields
<1>8. m.tail = m.head <=> Len(c) = 1
  <2>1. m.head = c[1] /\ 1 \in DOMAIN c /\ Len(c) \in DOMAIN c
    BY <1>1, <1>3
  <2>. QED BY <1>1, <2>1 DEF IsInjective
<1>9. r.tail = Link(Tail(c), Len(Tail(c)))
  <2>1. CASE Len(c) = 1
    <3>1. Len(Tail(c)) = 0 /\ 0 \notin 1 .. 0
      BY <1>5, <2>1
    <3>. QED BY <1>7, <1>8, <2>1, <3>1 DEF Link
  <2>2. CASE Len(c) # 1
    <3>1. Len(c) - 1 \in 1 .. (Len(c) - 1)
      <4>1. \A n \in Nat \ {0} : n # 1 => n - 1 \in 1 .. (n - 1)
        OBVIOUS
      <4>. QED BY <1>0, <2>2, <4>1
    <3>2. Tail(c)[Len(c) - 1] = c[Len(c)]
      BY <1>1, <1>5, <3>1
    <3>. QED BY <1>1, <1>5, <1>7, <1>8, <2>2, <3>1, <3>2 DEF Link
  <2>. QED BY <2>1, <2>2
<1>. HIDE DEF r
<1>10. Holds(r, Tail(c), f)
  <2>1. Linked(m.next, m.free, f)
    BY DEF Holds
  <2>. QED BY <1>1, <1>4, <1>5, <1>7, <1>9, <2>1 DEF Holds
<1>. QED BY <1>1, <1>3, <1>5, <1>7, <1>10 DEF Spare, Holds, r

\* rt_mq_urgent puts a message before all others.
LEMMA FirstHolds ==
    ASSUME NEW m, NEW c, NEW f, Holds(m, c, f), NEW s, Spare(s, c, f), NEW v \in Messages
    PROVE  /\ Holds(LinkedFirst(m, s, v), Cons(s, c), f)
           /\ ToSet(Cons(s, c)) = ToSet(c) \union {s} /\ Len(Cons(s, c)) = Len(c) + 1
           /\ LinkedFirst(m, s, v).data = [m.data EXCEPT ![s] = v]
<1>1. /\ m \in SlotState /\ c \in Seq(Slots) /\ IsInjective(c) /\ Len(c) \in Nat
      /\ ToSet(c) \intersect ToSet(f) = {} /\ m.entry = Len(c)
      /\ s \in Slots /\ s \notin ToSet(c) /\ s \notin ToSet(f) /\ ToSet(f) \subseteq Slots
      /\ ToSet(c) \subseteq Slots /\ (m.tail = None <=> c = <<>>)
      /\ c # <<>> => m.tail = c[Len(c)]
  BY HoldsFacts DEF Holds, Spare
<1>2. PICK next : next = [m.next EXCEPT ![s] = m.head]
  OBVIOUS
<1>. DEFINE r == LinkedFirst(m, s, v)
<1>3. /\ r \in SlotState /\ r.next = next
      /\ r.free = m.free /\ r.head = s
      /\ r.tail = (IF m.tail = None THEN s ELSE m.tail) /\ r.entry = m.entry + 1
      /\ r.data = [m.data EXCEPT ![s] = v]
  <2>1. m \in SlotState /\ s \in Slots
    BY <1>1
  <2>2. /\ r \in SlotState /\ r.next = [m.next EXCEPT ![s] = m.head]
        /\ r.free = m.free /\ r.head = s /\ r.entry = m.entry + 1
        /\ r.tail = (IF m.tail = None THEN s ELSE m.tail)
        /\ r.data = [m.data EXCEPT ![s] = v]
    BY <2>1, FirstFields
  <2>. HIDE DEF r
  <2>. QED BY <1>2, <2>2
<1>4. m.next \in [Slots -> Pointer]
  BY <1>1 DEF SlotState
<1>5. next[s] = m.head /\ \A x \in Slots : x # s => next[x] = m.next[x]
  BY <1>1, <1>2, <1>4
<1>6. Linked(next, m.head, c) /\ Linked(next, m.free, f)
  <2>1. Linked(m.next, m.head, c) /\ Linked(m.next, m.free, f)
    BY DEF Holds
  <2>2. \A x \in ToSet(c) : next[x] = m.next[x]
    BY <1>1, <1>5
  <2>3. \A x \in ToSet(f) : next[x] = m.next[x]
    BY <1>1, <1>5
  <2>. QED BY <2>1, <2>2, <2>3, LinkedStill
<1>7. Linked(next, s, Cons(s, c))
  BY <1>1, <1>5, <1>6, LinkedCons
<1>8. ToSet(Cons(s, c)) = ToSet(c) \union {s}
  BY <1>1, ConsFacts
<1>9. /\ Len(Cons(s, c)) = Len(c) + 1
      /\ Cons(s, c)[Len(c) + 1] = IF Len(c) = 0 THEN s ELSE c[Len(c)]
  BY <1>1 DEF Cons
<1>. HIDE DEF r
<1>10. r.tail = Link(Cons(s, c), Len(Cons(s, c)))
  BY <1>1, <1>3, <1>9 DEF Link
<1>11. Holds(r, Cons(s, c), f)
  BY <1>1, <1>3, <1>6, <1>7, <1>8, <1>9, <1>10 DEF Holds
<1>. QED BY <1>3, <1>8, <1>9, <1>11 DEF r

\* The same without the contents of the slot.
LEMMA FirstPlaced ==
    ASSUME NEW m, NEW c, NEW f, Holds(m, c, f), NEW s, Spare(s, c, f), NEW v \in Messages
    PROVE  /\ Holds(LinkedFirst(m, s, v), Cons(s, c), f)
           /\ ToSet(Cons(s, c)) = ToSet(c) \union {s} /\ Len(Cons(s, c)) = Len(c) + 1
<1>1. /\ Holds(LinkedFirst(m, s, v), Cons(s, c), f)
      /\ ToSet(Cons(s, c)) = ToSet(c) \union {s} /\ Len(Cons(s, c)) = Len(c) + 1
      /\ LinkedFirst(m, s, v).data = [m.data EXCEPT ![s] = v]
  BY FirstHolds
<1>. QED BY <1>1

\* rt_mq_send puts a message behind all others.
LEMMA LastHolds ==
    ASSUME NEW m, NEW c, NEW f, Holds(m, c, f), NEW s, Spare(s, c, f), NEW v \in Messages
    PROVE  /\ Holds(LinkedLast(m, s, v), Append(c, s), f)
           /\ ToSet(Append(c, s)) = ToSet(c) \union {s} /\ Len(Append(c, s)) = Len(c) + 1
           /\ LinkedLast(m, s, v).data = [m.data EXCEPT ![s] = v]
<1>1. /\ m \in SlotState /\ c \in Seq(Slots) /\ IsInjective(c) /\ Len(c) \in Nat
      /\ ToSet(c) \intersect ToSet(f) = {} /\ m.entry = Len(c)
      /\ s \in Slots /\ s \notin ToSet(c) /\ s \notin ToSet(f) /\ ToSet(f) \subseteq Slots
      /\ ToSet(c) \subseteq Slots /\ (m.tail = None <=> c = <<>>)
      /\ (m.head = None <=> c = <<>>)
      /\ c # <<>> => m.tail = c[Len(c)] /\ m.tail \in ToSet(c)
  BY HoldsFacts DEF Holds, Spare
<1>2. PICK next : next = IF m.tail = None THEN [m.next EXCEPT ![s] = None]
                         ELSE [[m.next EXCEPT ![s] = None] EXCEPT ![m.tail] = s]
  OBVIOUS
<1>. DEFINE r == LinkedLast(m, s, v)
<1>3. /\ r \in SlotState /\ r.next = next
      /\ r.free = m.free /\ r.head = (IF m.head = None THEN s ELSE m.head)
      /\ r.tail = s /\ r.entry = m.entry + 1 /\ r.data = [m.data EXCEPT ![s] = v]
  <2>1. m \in SlotState /\ s \in Slots
    BY <1>1
  <2>2. /\ r \in SlotState
        /\ r.next = IF m.tail = None THEN [m.next EXCEPT ![s] = None]
                    ELSE [[m.next EXCEPT ![s] = None] EXCEPT ![m.tail] = s]
        /\ r.free = m.free /\ r.head = (IF m.head = None THEN s ELSE m.head)
        /\ r.tail = s /\ r.entry = m.entry + 1 /\ r.data = [m.data EXCEPT ![s] = v]
    BY <2>1, LastFields
  <2>. HIDE DEF r
  <2>. QED BY <1>2, <2>2
<1>4. m.next \in [Slots -> Pointer]
  BY <1>1 DEF SlotState
<1>5. /\ next[s] = None /\ (c # <<>> => next[c[Len(c)]] = s)
      /\ \A x \in Slots : x # s /\ (c # <<>> => x # c[Len(c)]) => next[x] = m.next[x]
  <2>1. CASE c = <<>>
    BY <1>1, <1>2, <1>4, <2>1
  <2>2. CASE c # <<>>
    BY <1>1, <1>2, <1>4, <2>2
  <2>. QED BY <2>1, <2>2
<1>6. Linked(next, m.free, f)
  <2>1. \A x \in ToSet(f) : next[x] = m.next[x]
    BY <1>1, <1>5
  <2>. QED BY <2>1, LinkedStill DEF Holds
<1>7. Linked(next, IF c = <<>> THEN s ELSE m.head, Append(c, s))
  <2>1. Linked(m.next, m.head, c)
    BY DEF Holds
  <2>2. \A y \in ToSet(c) : c # <<>> /\ y # c[Len(c)] => next[y] = m.next[y]
    BY <1>1, <1>5
  <2>. QED BY <1>1, <1>5, <2>1, <2>2, LinkedAppend
<1>8. ToSet(Append(c, s)) = ToSet(c) \union {s}
  BY <1>1, AppendFacts
<1>9. Len(Append(c, s)) = Len(c) + 1 /\ Append(c, s)[Len(c) + 1] = s
  BY <1>1
<1>. HIDE DEF r
<1>10. r.tail = Link(Append(c, s), Len(Append(c, s)))
  BY <1>1, <1>3, <1>9 DEF Link
<1>11. Holds(r, Append(c, s), f)
  BY <1>1, <1>3, <1>6, <1>7, <1>8, <1>9, <1>10 DEF Holds
<1>. QED BY <1>3, <1>8, <1>9, <1>11 DEF r

\* The same without the contents of the slot.
LEMMA LastPlaced ==
    ASSUME NEW m, NEW c, NEW f, Holds(m, c, f), NEW s, Spare(s, c, f), NEW v \in Messages
    PROVE  /\ Holds(LinkedLast(m, s, v), Append(c, s), f)
           /\ ToSet(Append(c, s)) = ToSet(c) \union {s} /\ Len(Append(c, s)) = Len(c) + 1
<1>1. /\ Holds(LinkedLast(m, s, v), Append(c, s), f)
      /\ ToSet(Append(c, s)) = ToSet(c) \union {s} /\ Len(Append(c, s)) = Len(c) + 1
      /\ LinkedLast(m, s, v).data = [m.data EXCEPT ![s] = v]
  BY LastHolds
<1>. QED BY <1>1

\* One turn of the loop of a reset.
Drains(m) == IF m.head = None THEN m ELSE Freed(Unlinked(m), m.head)

\* After a turn, the first message of c is free.
DrainedTo(m, c, f, r, d, e) ==
    /\ Holds(r, d, e)
    /\ ToSet(d) \union ToSet(e) = ToSet(c) \union ToSet(f)
    /\ Len(d) + Len(e) = Len(c) + Len(f)
    /\ r.data = m.data

LEMMA DrainsHolds ==
    ASSUME NEW m, NEW c, NEW f, Holds(m, c, f)
    PROVE  \E d, e : /\ DrainedTo(m, c, f, Drains(m), d, e)
                     /\ Len(d) = IF Len(c) = 0 THEN 0 ELSE Len(c) - 1
<1>1. c \in Seq(Slots) /\ f \in Seq(Slots) /\ (m.head = None <=> c = <<>>)
      /\ Len(c) \in Nat /\ Len(f) \in Nat
  BY HoldsFacts
<1>2. CASE c = <<>>
  <2>1. Drains(m) = m /\ Len(c) = 0
    BY <1>1, <1>2 DEF Drains
  <2>2. DrainedTo(m, c, f, Drains(m), c, f)
    BY <2>1 DEF DrainedTo
  <2>. QED BY <2>1, <2>2
<1>3. CASE c # <<>>
  <2>1. /\ Holds(Unlinked(m), Tail(c), f) /\ Spare(m.head, Tail(c), f)
        /\ Len(Tail(c)) = Len(c) - 1 /\ ToSet(c) = ToSet(Tail(c)) \union {m.head}
        /\ Unlinked(m).data = m.data
    BY <1>3, UnlinkedHolds
  <2>2. PICK d, s, u : d = Tail(c) /\ s = m.head /\ u = Unlinked(m)
    OBVIOUS
  <2>3. /\ Holds(Freed(u, s), d, Cons(s, f)) /\ ToSet(Cons(s, f)) = ToSet(f) \union {s}
        /\ Len(Cons(s, f)) = Len(f) + 1 /\ Freed(u, s).data = u.data
    BY <2>1, <2>2, FreedHolds
  <2>4. Drains(m) = Freed(u, s)
    BY <1>1, <1>3, <2>2 DEF Drains
  <2>5. ToSet(d) \union ToSet(Cons(s, f)) = ToSet(c) \union ToSet(f)
    BY <2>1, <2>2, <2>3
  <2>6. Len(d) + Len(Cons(s, f)) = Len(c) + Len(f) /\ Len(d) = Len(c) - 1 /\ Len(c) # 0
    <3>1. Len(d) = Len(c) - 1 /\ Len(c) # 0
      BY <1>1, <1>3, <2>1, <2>2, EmptySeq
    <3>. QED BY <1>1, <2>3, <3>1
  <2>7. DrainedTo(m, c, f, Drains(m), d, Cons(s, f))
    BY <2>1, <2>2, <2>3, <2>4, <2>5, <2>6 DEF DrainedTo
  <2>. QED BY <2>6, <2>7
<1>. QED BY <1>2, <1>3

\* A reset frees every message, in as many turns as there can be messages.
LEMMA DrainedHolds ==
    ASSUME NEW m, NEW c, NEW f, Holds(m, c, f), Len(c) <= MqSize
    PROVE  \E e : DrainedTo(m, c, f, Drained(m), <<>>, e)
<1>. DEFINE N == MqSize
            S == {x \in SlotState : \E d, e : Holds(x, d, e)}
            h == [x \in S |-> Drains(x)]
            g == [n \in 1 .. N |-> h]
            F(t) == [n \in 0 .. N |-> IF n = 0 THEN m
                                      ELSE IF t[n - 1].head = None THEN t[n - 1]
                                      ELSE Freed(Unlinked(t[n - 1]), t[n - 1].head)]
            turn == CHOOSE t : t = F(t)
<1>1. Drained(m) = [turn[N] EXCEPT !.entry = 0]
  BY Zenon DEF Drained
<1>2. N \in Nat /\ m \in S
  BY MessageQueueAssumption DEF Holds
<1>3. \A x \in S : Drains(x) \in S
  <2>1. ASSUME NEW x \in S
        PROVE  Drains(x) \in S
    <3>1. PICK d, e : Holds(x, d, e)
      OBVIOUS
    <3>2. PICK a, b : Holds(Drains(x), a, b)
      BY <3>1, DrainsHolds DEF DrainedTo
    <3>. QED BY <3>2 DEF Holds
  <2>. QED BY <2>1
<1>4. g \in [1 .. N -> [S -> S]]
  <2>1. h \in [S -> S]
    BY <1>3
  <2>. QED BY <2>1
<1>5. PICK t \in [0 .. N -> S] : t[0] = m /\ \A n \in 1 .. N : t[n] = g[n][t[n - 1]]
  <2>. HIDE DEF g, S, N
  <2>1. Histories(S, m, g, N) # {}
    BY <1>2, <1>4, Iterates
  <2>. QED BY <2>1 DEF Histories
<1>6. ASSUME NEW n \in 1 .. N
      PROVE  n - 1 \in 0 .. N /\ t[n] = Drains(t[n - 1])
  <2>1. n - 1 \in 0 .. N
    BY <1>2
  <2>2. t[n - 1] \in S /\ g[n] = h
    BY <1>5, <2>1
  <2>. QED BY <1>5, <2>1, <2>2
<1>7. t = F(t)
  <2>1. \A n \in 0 .. N : t[n] = IF n = 0 THEN m ELSE Drains(t[n - 1])
    BY <1>2, <1>5, <1>6
  <2>. QED BY <1>5, <2>1 DEF Drains
<1>8. turn = F(turn)
  BY <1>7, Zenon
<1>. HIDE DEF turn
<1>9. turn[0] = m /\ \A n \in 1 .. N : turn[n] = Drains(turn[n - 1])
  <2>1. \A n \in 0 .. N : F(turn)[n] = IF n = 0 THEN m ELSE Drains(turn[n - 1])
    BY DEF Drains
  <2>2. \A n \in 0 .. N : turn[n] = IF n = 0 THEN m ELSE Drains(turn[n - 1])
    BY <1>8, <2>1
  <2>. QED BY <1>2, <2>2
<1>. DEFINE P == {n \in 0 .. N : \E d, e : /\ DrainedTo(m, c, f, turn[n], d, e)
                                           /\ Len(d) = 0 \/ Len(d) + n <= N}
<1>10. 0 \in P
  <2>1. DrainedTo(m, c, f, turn[0], c, f) /\ Len(c) + 0 <= N
    BY <1>2, <1>9, HoldsFacts DEF DrainedTo
  <2>. QED BY <1>2, <2>1
<1>11. ASSUME NEW n \in 0 .. N - 1, n \in P
       PROVE  n + 1 \in P
  <2>1. PICK d, e : DrainedTo(m, c, f, turn[n], d, e) /\ (Len(d) = 0 \/ Len(d) + n <= N)
    BY <1>11
  <2>2. PICK x : x = turn[n]
    OBVIOUS
  <2>3. turn[n + 1] = Drains(x)
    BY <1>2, <1>9, <2>2
  <2>4. Holds(x, d, e)
    BY <2>1, <2>2 DEF DrainedTo
  <2>5. PICK a, b : /\ DrainedTo(x, d, e, Drains(x), a, b)
                    /\ Len(a) = IF Len(d) = 0 THEN 0 ELSE Len(d) - 1
    BY <2>4, DrainsHolds
  <2>6. DrainedTo(m, c, f, turn[n + 1], a, b)
    BY <2>1, <2>2, <2>3, <2>5 DEF DrainedTo
  <2>7. Len(a) = 0 \/ Len(a) + (n + 1) <= N
    <3>1. Len(d) \in Nat
      BY <2>4, HoldsFacts
    <3>2. \A p, q, i, j \in Nat :
             (p = 0 \/ p + i <= j) /\ q = (IF p = 0 THEN 0 ELSE p - 1) => q = 0 \/ q + (i + 1) <= j
      OBVIOUS
    <3>3. Len(a) \in Nat /\ n \in Nat /\ N \in Nat
      BY <1>2, <2>5, <3>1
    <3>. QED BY <2>1, <2>5, <3>1, <3>2, <3>3
  <2>8. n + 1 \in 0 .. N
    BY <1>2
  <2>. QED BY <2>6, <2>7, <2>8
<1>. HIDE DEF P
<1>12. N \in P
  <2>1. 0 .. N \subseteq P
    BY <1>2, <1>10, <1>11, UpTo
  <2>. QED BY <1>2, <2>1
<1>13. PICK d, e : DrainedTo(m, c, f, turn[N], d, e) /\ (Len(d) = 0 \/ Len(d) + N <= N)
  BY <1>12 DEF P
<1>14. Holds(turn[N], d, e)
  BY <1>13 DEF DrainedTo
<1>15. d = <<>>
  <2>1. d \in Seq(Slots) /\ Len(d) = 0
    BY <1>2, <1>13, <1>14, HoldsFacts
  <2>. QED BY <2>1, EmptySeq
<1>16. Drained(m) = turn[N]
  <2>1. turn[N].entry = 0 /\ turn[N] \in SlotState
    BY <1>14, <1>15 DEF Holds
  <2>. QED BY <1>1, <2>1 DEF SlotState
<1>. QED BY <1>13, <1>15, <1>16

\* What Chain computes.
LEMMA ChainIs ==
    ASSUME NEW m, NEW s, NEW c, Linked(m.next, s, c), Len(c) <= MqSize
    PROVE  Chain(m, s) = c
<1>. DEFINE N == MqSize + 1
            F(f) == [i \in 1 .. N |-> IF i = 1 THEN s
                                      ELSE IF f[i - 1] = None THEN None ELSE m.next[f[i - 1]]]
            at == CHOOSE f : f = F(f)
            t == [i \in 1 .. N |-> Link(c, i)]
<1>1. Chain(m, s) = [i \in 1 .. Cardinality({j \in 1 .. N : at[j] # None}) |-> at[i]]
  BY Zenon DEF Chain
<1>2. N \in Nat /\ Len(c) \in Nat /\ c \in Seq(Slots) /\ s = Link(c, 1)
  BY MessageQueueAssumption, LinkedFacts DEF Linked
<1>3. ASSUME NEW i \in Nat \ {0}
      PROVE  Link(c, i + 1) = IF Link(c, i) = None THEN None ELSE m.next[Link(c, i)]
  <2>1. CASE i \in 1 .. Len(c)
    <3>1. Link(c, i) = c[i] /\ c[i] \in Slots /\ m.next[c[i]] = Link(c, i + 1)
      BY <1>2, <2>1 DEF Link, Linked
    <3>. QED BY <3>1, NotASlot
  <2>2. CASE i \notin 1 .. Len(c)
    BY <1>2, <2>2 DEF Link
  <2>. QED BY <2>1, <2>2
<1>4. t = F(t)
  <2>1. ASSUME NEW i \in 1 .. N
        PROVE  t[i] = IF i = 1 THEN s
                      ELSE IF t[i - 1] = None THEN None ELSE m.next[t[i - 1]]
    <3>1. CASE i = 1
      BY <1>2, <3>1
    <3>2. CASE i # 1
      <4>1. i - 1 \in Nat \ {0} /\ i - 1 \in 1 .. N /\ i - 1 + 1 = i
        BY <1>2, <3>2
      <4>2. t[i - 1] = Link(c, i - 1) /\ t[i] = Link(c, i)
        BY <4>1
      <4>. QED BY <1>3, <3>2, <4>1, <4>2
    <3>. QED BY <3>1, <3>2
  <2>. QED BY <2>1
<1>5. at = F(at)
  BY <1>4, Zenon
<1>. HIDE DEF at
<1>6. \A i \in 1 .. N : at[i] = IF i = 1 THEN s
                                ELSE IF at[i - 1] = None THEN None ELSE m.next[at[i - 1]]
  <2>1. \A i \in 1 .. N : F(at)[i] = IF i = 1 THEN s
                                     ELSE IF at[i - 1] = None THEN None ELSE m.next[at[i - 1]]
    OBVIOUS
  <2>. QED BY <1>5, <2>1
<1>. DEFINE P == {n \in 0 .. N : n # 0 => at[n] = Link(c, n)}
<1>7. 0 .. N \subseteq P
  <2>1. 0 \in P
    BY <1>2
  <2>2. ASSUME NEW n \in 0 .. N - 1, n \in P
        PROVE  n + 1 \in P
    <3>1. n + 1 \in 1 .. N /\ n + 1 - 1 = n
      BY <1>2
    <3>2. at[n + 1] = IF n + 1 = 1 THEN s ELSE IF at[n] = None THEN None ELSE m.next[at[n]]
      BY <1>6, <3>1
    <3>3. CASE n = 0
      BY <1>2, <3>1, <3>2, <3>3
    <3>4. CASE n # 0
      <4>1. at[n] = Link(c, n) /\ n \in Nat \ {0} /\ n + 1 # 1
        BY <1>2, <2>2, <3>4
      <4>2. at[n + 1] = Link(c, n + 1)
        BY <1>3, <3>2, <4>1
      <4>. QED BY <1>2, <3>1, <4>2
    <3>. QED BY <3>3, <3>4
  <2>. HIDE DEF P
  <2>. QED BY <1>2, <2>1, <2>2, UpTo
<1>8. \A n \in 1 .. N : at[n] = Link(c, n)
  BY <1>2, <1>7
<1>. HIDE DEF t
<1>9. {j \in 1 .. N : at[j] # None} = 1 .. Len(c)
  <2>1. \A j \in 1 .. N : Link(c, j) # None <=> j \in 1 .. Len(c)
    BY <1>2, NotASlot DEF Link
  <2>2. \A l, n \in Nat : l <= n => \A j \in 1 .. l : j \in 1 .. (n + 1)
    OBVIOUS
  <2>3. \A j \in 1 .. Len(c) : j \in 1 .. N
    BY <1>2, <2>2, MessageQueueAssumption
  <2>. QED BY <1>8, <2>1, <2>3
<1>10. Cardinality(1 .. Len(c)) = Len(c)
  <2>1. \A n \in Nat : Cardinality(1 .. n) = n
    BY FS_Interval
  <2>. QED BY <1>2, <2>1
<1>11. Chain(m, s) = [i \in 1 .. Len(c) |-> at[i]]
  BY <1>1, <1>9, <1>10
<1>12. \A i \in 1 .. Len(c) : at[i] = c[i]
  <2>1. \A i \in 1 .. Len(c) : at[i] # None /\ i \in 1 .. N
    BY <1>9
  <2>. QED BY <1>8, <2>1 DEF Link
<1>. QED BY <1>2, <1>11, <1>12

-----------------------------------------------------------------------------
(* What is in the hands of threads.                                        *)

\* Where a thread of a call on a message queue has a slot in its hands.
MqHold == {"mq_filled", "mq_urgent", "mqr_copy"}

\* Where a thread has a mail or a piece of data, to be sent or received.
MailHold == {"mbs_sched", "mbs_woken", "mb_got", "mb_got_sched"}
DqHold == {"dqp_sched", "dqp_woken", "dq_got", "dq_got_sched"}

Laden == MqHold \union MailHold \union DqHold
BesideMail == MqHold \union DqHold
BesideDq == MqHold \union MailHold

Holders(m) == {t \in Threads : pc[t] \in MqHold /\ arg[t] = m}

ItemShape == \E S : item \in [Threads -> S]

\* t goes on with its call, at a place outside of H.
StepsOn(t, H) ==
    /\ \E p : p \notin H /\ Go(t, p)
    /\ arg' = arg \/ \E o : arg' = [arg EXCEPT ![t] = o]
    /\ item' = item \/ \E x : item' = [item EXCEPT ![t] = x]

\* Nothing changes in the hands of the threads at a place of H.
Steady(H) ==
    /\ ItemShape'
    /\ \A u \in Threads : pc[u] \in H \/ pc'[u] \in H =>
                            pc'[u] = pc[u] /\ arg'[u] = arg[u] /\ item'[u] = item[u]

\* No slot changes hands.
HandsStill ==
    /\ ItemShape'
    /\ \A m \in Queues : Holders(m)' = Holders(m) /\ \A u \in Holders(m) : item'[u] = item[u]

LEMMA SteadyHands ==
    ASSUME NEW H, MqHold \subseteq H, Steady(H)
    PROVE  HandsStill
<1>1. ASSUME NEW m
      PROVE  Holders(m)' = Holders(m) /\ \A u \in Holders(m) : item'[u] = item[u]
  BY DEF Steady, Holders
<1>. QED BY <1>1 DEF Steady, HandsStill

\* A call may end outside of H.
Light(H) == "run" \notin H /\ "ret_sched" \notin H

LEMMA LightOK == Light(Laden) /\ Light(BesideMail) /\ Light(BesideDq)
BY DEF Light, Laden, BesideMail, BesideDq, MqHold, MailHold, DqHold

LEMMA SameHands ==
    ASSUME NEW H, ItemShape, UNCHANGED <<pc, arg, item>>
    PROVE  Steady(H)
<1>1. ItemShape'
  BY DEF ItemShape
<1>. QED BY <1>1 DEF Steady

LEMMA ItemPut ==
    ASSUME ItemShape, NEW t \in Threads, NEW x, item' = [item EXCEPT ![t] = x]
    PROVE  ItemShape' /\ item'[t] = x /\ \A u \in Threads : u # t => item'[u] = item[u]
<1>1. PICK S : item \in [Threads -> S]
  BY DEF ItemShape
<1>2. item' \in [Threads -> S \union {x}]
  BY <1>1
<1>. QED BY <1>1, <1>2 DEF ItemShape

LEMMA StepsOnHands ==
    ASSUME NEW H, SvcInv, ItemShape, NEW t, NEW q, At(t, q), q \notin H,
           StepsOn(t, H) \/ UNCHANGED <<pc, arg, item>>
    PROVE  Steady(H)
<1>1. /\ t \in Threads /\ pc[t] = q /\ pc \in [Threads -> Places]
      /\ arg \in [Threads -> Objects \union {None}]
  BY AtFits DEF SvcInv
<1>2. CASE StepsOn(t, H)
  <2>1. PICK p : p \notin H /\ Go(t, p)
    BY <1>2 DEF StepsOn
  <2>2. pc'[t] = p /\ \A u \in Threads : u # t => pc'[u] = pc[u]
    BY <1>1, <2>1 DEF Go
  <2>3. \A u \in Threads : u # t => arg'[u] = arg[u]
    BY <1>1, <1>2 DEF StepsOn
  <2>4. ItemShape' /\ \A u \in Threads : u # t => item'[u] = item[u]
    <3>1. CASE item' = item
      BY <3>1 DEF ItemShape
    <3>2. CASE item' # item
      BY <1>1, <1>2, <3>2, ItemPut DEF StepsOn
    <3>. QED BY <3>1, <3>2
  <2>. QED BY <1>1, <2>1, <2>2, <2>3, <2>4 DEF Steady
<1>. QED BY <1>2, SameHands

\* The ways in which calls go on.
LEMMA WaysOn ==
    ASSUME NEW t, NEW H, Light(H)
    PROVE  /\ \A p : LeaveVia(t, p) /\ p \notin H => StepsOn(t, H)
           /\ Leave(t) \/ Failed(t) => StepsOn(t, H)
           /\ \A w : WakeAndLeave(t, w) => StepsOn(t, H)
           /\ \A time : TimedOut(t, time) => StepsOn(t, H)
           /\ \A o, w, flag, time, v, p :
                 Block(t, o, w, flag, time, v, p) /\ p \notin H => StepsOn(t, H)
           /\ \A o, p : Proceed(t, o, p) /\ p \notin H /\ item' = item => StepsOn(t, H)
           /\ \A o, p, x : Proceed(t, o, p) /\ p \notin H /\ item' = [item EXCEPT ![t] = x]
                           => StepsOn(t, H)
           /\ Return(t) /\ item' = item => StepsOn(t, H)
           /\ \A x : Return(t) /\ item' = [item EXCEPT ![t] = x] => StepsOn(t, H)
           /\ \A p : Go(t, p) /\ p \notin H /\ arg' = arg /\ item' = item => StepsOn(t, H)
<1>1. \A p : LeaveVia(t, p) /\ p \notin H => StepsOn(t, H)
  BY DEF LeaveVia, Proceed, StepsOn
<1>2. Leave(t) => StepsOn(t, H)
  BY <1>1 DEF Leave, Light
<1>3. \A w : WakeAndLeave(t, w) => StepsOn(t, H)
  <2>1. \A w : WakeAndLeave(t, w) => LeaveVia(t, "ret_sched") \/ Leave(t)
    BY DEF WakeAndLeave
  <2>. QED BY <1>1, <1>2, <2>1 DEF Light
<1>4. (Failed(t) => Leave(t)) /\ \A time : TimedOut(t, time) => Leave(t)
  BY DEF Failed, TimedOut
<1>5. \A o, w, flag, time, v, p :
         Block(t, o, w, flag, time, v, p) /\ p \notin H => StepsOn(t, H)
  BY DEF Block, Proceed, StepsOn
<1>6. \A o, p : Proceed(t, o, p) /\ p \notin H /\ item' = item => StepsOn(t, H)
  BY DEF Proceed, StepsOn
<1>7. Return(t) /\ item' = item => StepsOn(t, H)
  BY DEF Return, StepsOn, Light
<1>8. \A p : Go(t, p) /\ p \notin H /\ arg' = arg /\ item' = item => StepsOn(t, H)
  BY DEF StepsOn
<1>9. \A o, p, x : Proceed(t, o, p) /\ p \notin H /\ item' = [item EXCEPT ![t] = x]
                   => StepsOn(t, H)
  BY DEF Proceed, StepsOn
<1>10. \A x : Return(t) /\ item' = [item EXCEPT ![t] = x] => StepsOn(t, H)
  BY DEF Return, StepsOn, Light
<1>. QED BY <1>1, <1>2, <1>3, <1>4, <1>5, <1>6, <1>7, <1>8, <1>9, <1>10

\* A step of thread t from a place outside of H to another one.
Onward(t, H) ==
    /\ \E q : q \notin H /\ At(t, q)
    /\ StepsOn(t, H) \/ UNCHANGED <<pc, arg, item>>

LEMMA OnwardHands ==
    ASSUME NEW H, SvcInv, ItemShape, NEW t, Onward(t, H)
    PROVE  Steady(H)
BY StepsOnHands DEF Onward

LEMMA CallOnward ==
    ASSUME NEW H, Light(H), NEW t, NEW o, Calls(t, o), StepsOn(t, H) \/ UNCHANGED <<pc, arg, item>>
    PROVE  Onward(t, H)
BY DEF Calls, Onward, Light

LEMMA LoopOnward ==
    ASSUME NEW H, Light(H), NEW t, NEW w, NEW p, NEW q, NEW r,
           p \notin H, q \notin H, r \notin H, item' = item,
           \/ Resched(t, p, q) \/ ResumeAllTest(t, w, p, q, r) \/ ResumeAllWake(t, w, p, q)
    PROVE  Onward(t, H)
<1>1. At(t, p) /\ arg' = arg /\ (Go(t, q) \/ Go(t, r))
  BY DEF Resched, ResumeAllTest, ResumeAllWake
<1>2. StepsOn(t, H)
  BY <1>1, WaysOn
<1>. QED BY <1>1, <1>2 DEF Onward

LEMMA DetachOnward ==
    ASSUME NEW H, Light(H), NEW t, NEW o, NEW p, p \notin H, DetachCall(t, o, p), item' = item
    PROVE  Onward(t, H)
<1>1. Calls(t, o) /\ Proceed(t, o, p)
  BY DEF DetachCall
<1>. QED BY <1>1, WaysOn, CallOnward

LEMMA ReschedOnward ==
    ASSUME NEW H, Light(H), NEW t, NEW p, NEW q, p \notin H, q \notin H, item' = item,
           Resched(t, p, q)
    PROVE  Onward(t, H)
BY LoopOnward

LEMMA WalkOnward ==
    ASSUME NEW H, Light(H), NEW t, NEW w, NEW p, NEW q, NEW r,
           p \notin H, q \notin H, r \notin H, item' = item,
           ResumeAllTest(t, w, p, q, r) \/ ResumeAllWake(t, w, q, p)
    PROVE  Onward(t, H)
BY LoopOnward

LEMMA MailPieces ==
    ASSUME NEW t, NEW b, NEW v, NEW time,
           SendTurn(t, b, v, time) \/ Collect(t, b) \/ RecvBlock(t, b, time)
    PROVE  StepsOn(t, BesideMail)
<1>1. SendTurn(t, b, v, time) =>
         \/ WakeAndLeave(t, b) \/ Leave(t)
         \/ Block(t, b, suspend_sender_thread(b), MbFlag, time, v, "mbs_sched")
  BY DEF SendTurn, SendMail, SendBlock, SendFull
<1>2. RecvBlock(t, b, time) => Block(t, b, b, MbFlag, time, None, "mbr_sched")
  BY DEF RecvBlock
<1>3. Collect(t, b) =>
         /\ Proceed(t, b, "mb_got") \/ Proceed(t, b, "mb_got_sched")
         /\ item' = [item EXCEPT ![t] = mb[b].msg_pool[mb[b].out_offset]]
  BY DEF Collect
<1>4. /\ "mbs_sched" \notin BesideMail /\ "mbr_sched" \notin BesideMail
      /\ "mb_got" \notin BesideMail /\ "mb_got_sched" \notin BesideMail
  BY DEF BesideMail, MqHold, DqHold
<1>. QED BY <1>1, <1>2, <1>3, <1>4, WaysOn, LightOK

LEMMA MailHands ==
    ASSUME SvcInv, ItemShape, MailNext
    PROVE  Steady(BesideMail)
<1>1. CASE MailIsr
  BY <1>1, SameHands DEF MailIsr, IsrSendMail
<1>2. ASSUME NEW t \in Threads, MailCall(t)
      PROVE  Onward(t, BesideMail)
  <2>1. PICK b \in Mailboxes :
           \/ \E v \in Mails, time \in MbTimes : rt_mb_send_wait(t, b, v, time)
           \/ \E time \in MbTimes : rt_mb_recv(t, b, time)
           \/ rt_mb_control(t, b)
           \/ rt_mb_detach(t, b) /\ UNCHANGED <<left, item, mb>>
    BY <1>2 DEF MailCall
  <2>2. CASE rt_mb_detach(t, b) /\ UNCHANGED <<left, item, mb>>
    BY <2>2, DetachOnward, LightOK DEF rt_mb_detach, BesideMail, MqHold, DqHold
  <2>3. CASE ~(rt_mb_detach(t, b) /\ UNCHANGED <<left, item, mb>>)
    <3>1. Calls(t, b)
      BY <2>1, <2>3 DEF rt_mb_send_wait, rt_mb_recv, rt_mb_control
    <3>2. CASE rt_mb_control(t, b)
      BY <3>1, <3>2, WaysOn, LightOK, CallOnward DEF rt_mb_control, BesideMail, MqHold, DqHold
    <3>3. CASE ~rt_mb_control(t, b)
      <4>1. \/ \E v, time : SendTurn(t, b, v, time) \/ Collect(t, b) \/ RecvBlock(t, b, time)
            \/ Leave(t)
        BY <2>1, <2>3, <3>3 DEF rt_mb_send_wait, rt_mb_recv
      <4>. QED BY <3>1, <4>1, MailPieces, WaysOn, LightOK, CallOnward
    <3>. QED BY <3>2, <3>3
  <2>. QED BY <2>2, <2>3
<1>3. ASSUME NEW t \in Threads, MailStep(t)
      PROVE  Onward(t, BesideMail)
  <2>1. CASE SendWoken(t) \/ RecvWoken(t) \/ RecvReturn(t)
    <3>1. \E q : q \notin BesideMail /\ At(t, q)
      BY <2>1 DEF SendWoken, RecvWoken, RecvReturn, BesideMail, MqHold, DqHold
    <3>2. \/ \E v, time : \/ SendTurn(t, arg[t], v, time) \/ Collect(t, arg[t])
                          \/ RecvBlock(t, arg[t], time) \/ TimedOut(t, time)
          \/ Failed(t) \/ Leave(t)
      BY <2>1 DEF SendWoken, RecvWoken, RecvReturn
    <3>3. StepsOn(t, BesideMail)
      BY <3>2, WaysOn, LightOK, MailPieces
    <3>. QED BY <3>1, <3>3 DEF Onward
  <2>2. CASE Resched(t, "mbs_sched", "mbs_woken") /\ item' = item
    BY <2>2, ReschedOnward, LightOK DEF BesideMail, MqHold, DqHold
  <2>3. CASE Resched(t, "mbr_sched", "mbr_woken") /\ item' = item
    BY <2>3, ReschedOnward, LightOK DEF BesideMail, MqHold, DqHold
  <2>4. CASE Resched(t, "mb_got_sched", "mb_got") /\ item' = item
    BY <2>4, ReschedOnward, LightOK DEF BesideMail, MqHold, DqHold
  <2>5. CASE MailDetachSteps(t) /\ item' = item
    <3>1. CASE \/ ResumeAllTest(t, arg[t], "mbd_test", "mbd_wake", "mbd_test2")
               \/ ResumeAllWake(t, arg[t], "mbd_wake", "mbd_test")
      BY <2>5, <3>1, WalkOnward, LightOK DEF BesideMail, MqHold, DqHold
    <3>2. CASE \/ ResumeAllTest(t, suspend_sender_thread(arg[t]), "mbd_test2", "mbd_wake2",
                                "det_object")
               \/ ResumeAllWake(t, suspend_sender_thread(arg[t]), "mbd_wake2", "mbd_test2")
      BY <2>5, <3>2, WalkOnward, LightOK DEF BesideMail, MqHold, DqHold
    <3>. QED BY <2>5, <3>1, <3>2 DEF MailDetachSteps
  <2>. QED BY <1>3, <2>1, <2>2, <2>3, <2>4, <2>5 DEF MailStep
<1>. QED BY <1>1, <1>2, <1>3, OnwardHands DEF MailNext


LEMMA MpHands ==
    ASSUME SvcInv, ItemShape, MpNext
    PROVE  Steady(Laden)
<1>1. CASE MpIsr
  BY <1>1, SameHands DEF MpIsr, IsrFree
<1>2. ASSUME NEW t, NEW p, NEW time, MpTurn(t, p, time)
      PROVE  StepsOn(t, Laden)
  <2>1. \/ Leave(t) \/ TimedOut(t, time)
        \/ Proceed(t, p, "mp_sched") /\ item' = item
    BY <1>2 DEF MpTurn, Grant, MpBlock
  <2>2. "mp_sched" \notin Laden
    BY DEF Laden, MqHold, MailHold, DqHold
  <2>. QED BY <2>1, <2>2, WaysOn, LightOK
<1>3. ASSUME NEW t \in Threads, MpCall(t)
      PROVE  Onward(t, Laden)
  <2>1. PICK p \in Pools :
           \/ \E time \in MpTimes : rt_mp_alloc(t, p, time)
           \/ \E b \in 1 .. Blocks : rt_mp_free(t, p, b)
           \/ rt_mp_detach(t, p) /\ UNCHANGED <<left, item, pool, used>>
    BY <1>3 DEF MpCall
  <2>2. CASE \E time \in MpTimes : rt_mp_alloc(t, p, time)
    BY <1>2, <2>2, CallOnward, LightOK DEF rt_mp_alloc
  <2>3. CASE \E b \in 1 .. Blocks : rt_mp_free(t, p, b)
    <3>1. Calls(t, p) /\ (LeaveVia(t, "ret_sched") \/ UNCHANGED <<pc, arg, item>>)
      BY <2>3 DEF rt_mp_free
    <3>2. "ret_sched" \notin Laden
      BY DEF Laden, MqHold, MailHold, DqHold
    <3>. QED BY <3>1, <3>2, WaysOn, LightOK, CallOnward
  <2>4. CASE rt_mp_detach(t, p) /\ UNCHANGED <<left, item, pool, used>>
    BY <2>4, DetachOnward, LightOK DEF rt_mp_detach, Laden, MqHold, MailHold, DqHold
  <2>. QED BY <2>1, <2>2, <2>3, <2>4
<1>4. ASSUME NEW t \in Threads, MpStep(t)
      PROVE  Onward(t, Laden)
  <2>1. CASE MpWoken(t)
    <3>1. "mp_woken" \notin Laden /\ At(t, "mp_woken")
      BY <2>1 DEF MpWoken, Laden, MqHold, MailHold, DqHold
    <3>2. Failed(t) \/ \E time : MpTurn(t, arg[t], time)
      BY <2>1 DEF MpWoken
    <3>. QED BY <1>2, <3>1, <3>2, WaysOn, LightOK DEF Onward
  <2>2. CASE Resched(t, "mp_sched", "mp_woken") /\ item' = item
    BY <2>2, ReschedOnward, LightOK DEF Laden, MqHold, MailHold, DqHold
  <2>3. CASE MpDetachSteps(t) /\ item' = item
    <3>1. \/ ResumeAllTest(t, arg[t], "mpd_test", "mpd_wake", "det_object")
          \/ ResumeAllWake(t, arg[t], "mpd_wake", "mpd_test")
      BY <2>3 DEF MpDetachSteps
    <3>2. "mpd_test" \notin Laden /\ "mpd_wake" \notin Laden /\ "det_object" \notin Laden
      BY DEF Laden, MqHold, MailHold, DqHold
    <3>. QED BY <2>3, <3>1, <3>2, WalkOnward, LightOK
  <2>. QED BY <1>4, <2>1, <2>2, <2>3 DEF MpStep
<1>. QED BY <1>1, <1>3, <1>4, OnwardHands DEF MpNext

LEMMA EvHands ==
    ASSUME SvcInv, ItemShape, EvNext, item' = item
    PROVE  Steady(Laden)
<1>1. CASE EvIsr
  BY <1>1, SameHands DEF EvIsr, IsrSendEvent
<1>2. "ret_sched" \notin Laden /\ "ev_sched" \notin Laden /\ "ev_woken" \notin Laden
  BY DEF Laden, MqHold, MailHold, DqHold
<1>3. ASSUME NEW t \in Threads, EvCall(t)
      PROVE  Onward(t, Laden)
  <2>1. PICK e \in Events :
           \/ \E bits \in EvSends : rt_event_send(t, e, bits)
           \/ \E ask \in EvAsks, time \in EvTimes : rt_event_recv(t, e, ask, time)
           \/ rt_event_control(t, e)
           \/ rt_event_detach(t, e) /\ UNCHANGED evVars
    BY <1>3 DEF EvCall
  <2>2. CASE rt_event_detach(t, e)
    BY <2>2, DetachOnward, LightOK DEF rt_event_detach, Laden, MqHold, MailHold, DqHold
  <2>3. CASE ~rt_event_detach(t, e)
    <3>1. /\ Calls(t, e)
          /\ \/ Go(t, "ret_sched") /\ arg' = arg
             \/ Proceed(t, e, "ev_sched")
             \/ UNCHANGED <<pc, arg>>
      <4>1. CASE \E bits \in EvSends : rt_event_send(t, e, bits)
        BY <4>1 DEF rt_event_send
      <4>2. CASE \E ask \in EvAsks, time \in EvTimes : rt_event_recv(t, e, ask, time)
        BY <4>2 DEF rt_event_recv, RecvNow, RecvNothing, EvBlock
      <4>3. CASE rt_event_control(t, e)
        BY <4>3 DEF rt_event_control
      <4>. QED BY <2>1, <2>3, <4>1, <4>2, <4>3
    <3>. QED BY <1>2, <3>1, WaysOn, LightOK, CallOnward
  <2>. QED BY <2>2, <2>3
<1>4. ASSUME NEW t \in Threads, EvStep(t)
      PROVE  Onward(t, Laden)
  <2>1. CASE EvReturn(t)
    <3>1. At(t, "ev_woken") /\ Return(t)
      BY <2>1 DEF EvReturn
    <3>. QED BY <1>2, <3>1, WaysOn, LightOK DEF Onward
  <2>2. CASE Resched(t, "ev_sched", "ev_woken")
    BY <1>2, <2>2, ReschedOnward, LightOK
  <2>3. CASE EvDetachSteps(t)
    <3>1. \/ ResumeAllTest(t, arg[t], "evd_test", "evd_wake", "det_object")
          \/ ResumeAllWake(t, arg[t], "evd_wake", "evd_test")
      BY <2>3 DEF EvDetachSteps
    <3>2. "evd_test" \notin Laden /\ "evd_wake" \notin Laden /\ "det_object" \notin Laden
      BY DEF Laden, MqHold, MailHold, DqHold
    <3>. QED BY <3>1, <3>2, WalkOnward, LightOK
  <2>. QED BY <1>4, <2>1, <2>2, <2>3 DEF EvStep
<1>. QED BY <1>1, <1>3, <1>4, OnwardHands DEF EvNext

LEMMA CpHands ==
    ASSUME SvcInv, ItemShape, CpNext, item' = item
    PROVE  Steady(Laden)
<1>1. CASE CpIsr
  BY <1>1, SameHands DEF CpIsr, IsrDone
<1>2. /\ "cp_sched" \notin Laden /\ "cp_done" \notin Laden /\ "cp_woken" \notin Laden
      /\ "ret_sched" \notin Laden
  BY DEF Laden, MqHold, MailHold, DqHold
<1>3. ASSUME NEW t \in Threads, CpCall(t)
      PROVE  Onward(t, Laden)
  <2>1. PICK c \in Completions :
           (\E time \in CpTimes : rt_completion_wait(t, c, time)) \/ rt_completion_done(t, c)
    BY <1>3 DEF CpCall
  <2>2. /\ Calls(t, c)
        /\ \/ Proceed(t, c, "cp_sched") \/ Proceed(t, c, "cp_done")
           \/ UNCHANGED <<pc, arg>>
    BY <2>1 DEF rt_completion_wait, rt_completion_done, CpTake, CpFail, CpBlock
  <2>. QED BY <1>2, <2>2, WaysOn, LightOK, CallOnward
<1>4. ASSUME NEW t \in Threads, CpStep(t)
      PROVE  Onward(t, Laden)
  <2>1. CASE CpReturn(t)
    <3>1. At(t, "cp_woken") /\ Return(t)
      BY <2>1 DEF CpReturn
    <3>. QED BY <1>2, <3>1, WaysOn, LightOK DEF Onward
  <2>2. CASE DoneSet(t)
    <3>1. At(t, "cp_done") /\ (Return(t) \/ Proceed(t, None, "ret_sched"))
      BY <2>2 DEF DoneSet
    <3>. QED BY <1>2, <3>1, WaysOn, LightOK DEF Onward
  <2>3. CASE Resched(t, "cp_sched", "cp_woken")
    BY <1>2, <2>3, ReschedOnward, LightOK
  <2>. QED BY <1>4, <2>1, <2>2, <2>3 DEF CpStep
<1>. QED BY <1>1, <1>3, <1>4, OnwardHands DEF CpNext


LEMMA DqHands ==
    ASSUME SvcInv, ItemShape, DqNext
    PROVE  Steady(BesideDq)
<1>1. CASE DqIsr
  BY <1>1, SameHands DEF DqIsr, IsrPush
<1>2. /\ "dqp_sched" \notin BesideDq /\ "dqg_sched" \notin BesideDq /\ "dq_got" \notin BesideDq
      /\ "dq_got_sched" \notin BesideDq /\ "dqp_woken" \notin BesideDq
      /\ "dqg_woken" \notin BesideDq
      /\ "dqx_test" \notin BesideDq /\ "dqx_wake" \notin BesideDq /\ "dqx_test2" \notin BesideDq
      /\ "dqx_wake2" \notin BesideDq /\ "dqx_exit" \notin BesideDq /\ "dqx_sched" \notin BesideDq
      /\ "ret_sched" \notin BesideDq
  BY DEF BesideDq, MqHold, MailHold
<1>3. ASSUME NEW t, NEW d, NEW v, NEW time,
             Push(t, d, v) \/ PushBlock(t, d, v, time) \/ Pop(t, d) \/ PopBlock(t, d, time)
      PROVE  StepsOn(t, BesideDq)
  <2>1. CASE Push(t, d, v)
    BY <2>1, WaysOn, LightOK DEF Push
  <2>2. CASE PushBlock(t, d, v, time)
    BY <1>2, <2>2, WaysOn, LightOK DEF PushBlock
  <2>3. CASE Pop(t, d)
    <3>1. /\ Proceed(t, d, "dq_got") \/ Proceed(t, d, "dq_got_sched")
          /\ item' = [item EXCEPT ![t] = dq[d].queue[dq[d].get_index % DqSize]]
      BY <2>3 DEF Pop
    <3>. QED BY <1>2, <3>1, WaysOn, LightOK
  <2>4. CASE PopBlock(t, d, time)
    BY <1>2, <2>4, WaysOn, LightOK DEF PopBlock
  <2>. QED BY <1>3, <2>1, <2>2, <2>3, <2>4
<1>4. ASSUME NEW t \in Threads, DqCall(t)
      PROVE  Onward(t, BesideDq)
  <2>1. PICK d \in DataQueues :
           \/ \E v \in Data, time \in DqTimes : rt_data_queue_push(t, d, v, time)
           \/ \E time \in DqTimes : rt_data_queue_pop(t, d, time)
           \/ rt_data_queue_reset(t, d) /\ UNCHANGED <<left, item, dq, pushes>>
    BY <1>4 DEF DqCall
  <2>2. CASE rt_data_queue_reset(t, d) /\ UNCHANGED <<left, item, dq, pushes>>
    <3>1. Calls(t, d) /\ Proceed(t, d, "dqx_test")
      BY <2>2 DEF rt_data_queue_reset
    <3>. QED BY <1>2, <2>2, <3>1, WaysOn, LightOK, CallOnward
  <2>3. CASE \E v, time : rt_data_queue_push(t, d, v, time) \/ rt_data_queue_pop(t, d, time)
    <3>1. /\ Calls(t, d)
          /\ \/ \E v, time : \/ Push(t, d, v) \/ PushBlock(t, d, v, time)
                             \/ Pop(t, d) \/ PopBlock(t, d, time)
             \/ Leave(t)
      BY <2>3 DEF rt_data_queue_push, rt_data_queue_pop
    <3>. QED BY <1>3, <3>1, WaysOn, LightOK, CallOnward
  <2>. QED BY <2>1, <2>2, <2>3
<1>5. ASSUME NEW t \in Threads, DqStep(t)
      PROVE  Onward(t, BesideDq)
  <2>1. CASE PushWoken(t) \/ PopWoken(t) \/ PopReturn(t)
    <3>1. At(t, "dqp_woken") \/ At(t, "dqg_woken") \/ At(t, "dq_got")
      BY <2>1 DEF PushWoken, PopWoken, PopReturn
    <3>2. \/ \E v, time : \/ Push(t, arg[t], v) \/ PushBlock(t, arg[t], v, time)
                          \/ Pop(t, arg[t]) \/ PopBlock(t, arg[t], time)
          \/ Failed(t) \/ Leave(t)
      BY <2>1 DEF PushWoken, PopWoken, PopReturn
    <3>3. StepsOn(t, BesideDq)
      BY <1>3, <3>2, WaysOn, LightOK
    <3>. QED BY <1>2, <3>1, <3>3 DEF Onward
  <2>2. CASE Resched(t, "dqp_sched", "dqp_woken") /\ item' = item
    BY <1>2, <2>2, ReschedOnward, LightOK
  <2>3. CASE Resched(t, "dqg_sched", "dqg_woken") /\ item' = item
    BY <1>2, <2>3, ReschedOnward, LightOK
  <2>4. CASE Resched(t, "dq_got_sched", "dq_got") /\ item' = item
    BY <1>2, <2>4, ReschedOnward, LightOK
  <2>5. CASE DqResetSteps(t) /\ item' = item
    <3>1. CASE \/ ResumeAllTest(t, suspended_pop_list(arg[t]), "dqx_test", "dqx_wake", "dqx_test2")
               \/ ResumeAllWake(t, suspended_pop_list(arg[t]), "dqx_wake", "dqx_test")
      BY <1>2, <2>5, <3>1, WalkOnward, LightOK
    <3>2. CASE \/ ResumeAllTest(t, suspended_push_list(arg[t]), "dqx_test2", "dqx_wake2",
                                "dqx_exit")
               \/ ResumeAllWake(t, suspended_push_list(arg[t]), "dqx_wake2", "dqx_test2")
      BY <1>2, <2>5, <3>2, WalkOnward, LightOK
    <3>3. CASE ResetUnlock(t)
      <4>1. At(t, "dqx_exit") /\ Proceed(t, None, "dqx_sched")
        BY <3>3 DEF ResetUnlock
      <4>. QED BY <1>2, <2>5, <4>1, WaysOn, LightOK DEF Onward
    <3>4. CASE Resched(t, "dqx_sched", "ret_sched")
      BY <1>2, <2>5, <3>4, ReschedOnward, LightOK
    <3>. QED BY <2>5, <3>1, <3>2, <3>3, <3>4 DEF DqResetSteps
  <2>. QED BY <1>5, <2>1, <2>2, <2>3, <2>4, <2>5 DEF DqStep
<1>. QED BY <1>1, <1>4, <1>5, OnwardHands DEF DqNext

LEMMA CommonHands ==
    ASSUME SvcInv, ItemShape, NEW t, CommonStep(t), item' = item
    PROVE  Steady(Laden)
<1>1. /\ "ret_sched" \notin Laden /\ "run" \notin Laden /\ "det_object" \notin Laden
      /\ "sleep_sched" \notin Laden /\ "slept" \notin Laden
  BY DEF Laden, MqHold, MailHold, DqHold
<1>2. CASE Resched(t, "ret_sched", "run")
  BY <1>1, <1>2, ReschedOnward, LightOK, OnwardHands
<1>3. CASE DetachObject(t)
  <2>1. At(t, "det_object") /\ Return(t)
    BY <1>3 DEF DetachObject
  <2>. QED BY <1>1, <2>1, WaysOn, LightOK, OnwardHands DEF Onward
<1>4. CASE rt_thread_sleep(t)
  <2>1. At(t, "run") /\ Go(t, "sleep_sched") /\ arg' = arg
    BY <1>4 DEF rt_thread_sleep
  <2>. QED BY <1>1, <2>1, WaysOn, LightOK, OnwardHands DEF Onward
<1>5. CASE Resched(t, "sleep_sched", "slept")
  BY <1>1, <1>5, ReschedOnward, LightOK, OnwardHands
<1>6. CASE SleepReturn(t)
  <2>1. At(t, "slept") /\ Go(t, "run") /\ arg' = arg
    BY <1>6 DEF SleepReturn
  <2>. QED BY <1>1, <2>1, WaysOn, LightOK, OnwardHands DEF Onward
<1>. QED BY <1>2, <1>3, <1>4, <1>5, <1>6 DEF CommonStep, SleepSteps


\* Thread t takes slot s of queue m into its hands and goes to a place of P.
Grabs(t, m, s, P) ==
    /\ ItemShape'
    /\ t \in Threads
    /\ pc[t] \notin Laden /\ pc'[t] \in P /\ arg'[t] = m
    /\ \A u \in Threads : u # t => pc'[u] = pc[u] /\ arg'[u] = arg[u]
    /\ \A n \in Queues : /\ t \notin Holders(n)
                         /\ Holders(n)' = IF n = m THEN Holders(n) \union {t} ELSE Holders(n)
    /\ item'[t] = s
    /\ \A u \in Threads : u # t => item'[u] = item[u]

\* Thread t, at a place of P, gives the slot of queue m out of its hands.
Yields(t, m, P) ==
    /\ ItemShape'
    /\ t \in Holders(m)
    /\ pc[t] \in P /\ pc'[t] \notin Laden
    /\ \A u \in Threads : u # t => pc'[u] = pc[u] /\ arg'[u] = arg[u]
    /\ \A n \in Queues : Holders(n)' = Holders(n) \ {t}
    /\ \A u \in Threads : u # t => item'[u] = item[u]

LEMMA GrabsOK ==
    ASSUME SvcInv, ItemShape, NEW t, NEW m, NEW p, NEW q, NEW s, At(t, q), q \notin Laden,
           NEW P, p \in P, P \subseteq MqHold, Proceed(t, m, p), item' = [item EXCEPT ![t] = s]
    PROVE  Grabs(t, m, s, P)
<1>1. /\ t \in Threads /\ pc[t] = q /\ pc \in [Threads -> Places]
      /\ arg \in [Threads -> Objects \union {None}]
  BY AtFits DEF SvcInv
<1>2. /\ pc'[t] = p /\ arg'[t] = m
      /\ \A u \in Threads : u # t => pc'[u] = pc[u] /\ arg'[u] = arg[u]
  BY <1>1 DEF Proceed, Go
<1>3. ItemShape' /\ item'[t] = s /\ \A u \in Threads : u # t => item'[u] = item[u]
  BY <1>1, ItemPut
<1>4. ASSUME NEW n \in Queues
      PROVE  /\ t \notin Holders(n)
             /\ Holders(n)' = IF n = m THEN Holders(n) \union {t} ELSE Holders(n)
  BY <1>1, <1>2 DEF Holders, Laden
<1>. QED BY <1>1, <1>2, <1>3, <1>4 DEF Grabs

LEMMA YieldsOK ==
    ASSUME SvcInv, ItemShape, NEW t, NEW q, At(t, q), StepsOn(t, Laden),
           NEW P \in SUBSET MqHold, q \in P
    PROVE  Yields(t, arg[t], P)
<1>1. /\ t \in Threads /\ pc[t] = q /\ pc \in [Threads -> Places]
      /\ arg \in [Threads -> Objects \union {None}]
  BY AtFits DEF SvcInv
<1>2. PICK p : p \notin Laden /\ Go(t, p)
  BY DEF StepsOn
<1>3. pc'[t] = p /\ \A u \in Threads : u # t => pc'[u] = pc[u]
  BY <1>1, <1>2 DEF Go
<1>4. \A u \in Threads : u # t => arg'[u] = arg[u]
  BY <1>1 DEF StepsOn
<1>5. ItemShape' /\ \A u \in Threads : u # t => item'[u] = item[u]
  <2>1. CASE item' = item
    BY <2>1 DEF ItemShape
  <2>2. CASE item' # item
    BY <1>1, <2>2, ItemPut DEF StepsOn
  <2>. QED BY <2>1, <2>2
<1>6. \A n \in Queues : Holders(n)' = Holders(n) \ {t}
  BY <1>1, <1>2, <1>3, <1>4 DEF Holders, Laden
<1>7. t \in Holders(arg[t])
  BY <1>1 DEF Holders
<1>. QED BY <1>1, <1>2, <1>3, <1>4, <1>5, <1>6, <1>7 DEF Yields

\* Where the slot is on its way to the queue.
Sending == {"mq_filled", "mq_urgent"}

\* What a step of the message queue does to queue m and to the hands.
MqMoves(m) ==
    \/ mq' = mq /\ Steady(Laden)
    \/ mq' = [mq EXCEPT ![m] = Drained(@)] /\ Steady(Laden)
    \/ /\ mq[m].free # None /\ Steady(Laden)
       /\ \E v \in Messages :
             \/ mq' = [mq EXCEPT ![m] = LinkedLast(Allocated(@), mq[m].free, v)]
             \/ mq' = [mq EXCEPT ![m] = LinkedFirst(Allocated(@), mq[m].free, v)]
    \/ /\ mq[m].free # None /\ mq' = [mq EXCEPT ![m] = Allocated(@)]
       /\ \E t : Grabs(t, m, mq[m].free, Sending)
    \/ /\ mq[m].entry # 0 /\ mq' = [mq EXCEPT ![m] = Unlinked(@)]
       /\ \E t : Grabs(t, m, mq[m].head, {"mqr_copy"})
    \/ \E t : /\ Yields(t, m, Sending)
              /\ \E v \in Messages : \/ mq' = [mq EXCEPT ![m] = LinkedLast(@, item[t], v)]
                                     \/ mq' = [mq EXCEPT ![m] = LinkedFirst(@, item[t], v)]
    \/ \E t : Yields(t, m, {"mqr_copy"}) /\ mq' = [mq EXCEPT ![m] = Freed(@, item[t])]

LEMMA DequeueMoves ==
    ASSUME SvcInv, ItemShape, NEW t, NEW q, At(t, q), q \notin Laden, NEW m,
           \/ Dequeue(t, m)
           \/ \E time : MqBlock(t, m, time)
           \/ (Leave(t) \/ Failed(t) \/ \E time : TimedOut(t, time)) /\ mq' = mq
    PROVE  MqMoves(m)
<1>1. CASE Dequeue(t, m)
  <2>1. /\ mq[m].entry # 0 /\ mq' = [mq EXCEPT ![m] = Unlinked(@)]
        /\ item' = [item EXCEPT ![t] = mq[m].head] /\ Proceed(t, m, "mqr_copy")
    BY <1>1 DEF Dequeue
  <2>2. "mqr_copy" \in {"mqr_copy"} /\ {"mqr_copy"} \subseteq MqHold
    BY DEF MqHold
  <2>3. Grabs(t, m, mq[m].head, {"mqr_copy"})
    BY <2>1, <2>2, GrabsOK
  <2>. QED BY <2>1, <2>3 DEF MqMoves
<1>2. CASE ~Dequeue(t, m)
  <2>1. "mqr_sched" \notin Laden
    BY DEF Laden, MqHold, MailHold, DqHold
  <2>2. StepsOn(t, Laden) /\ mq' = mq
    BY <1>2, <2>1, WaysOn, LightOK DEF MqBlock
  <2>3. Steady(Laden)
    BY <2>2, StepsOnHands
  <2>. QED BY <2>2, <2>3 DEF MqMoves
<1>. QED BY <1>1, <1>2

LEMMA MqNextMoves ==
    ASSUME SvcInv, ItemShape, MqNext
    PROVE  \E m \in Queues : MqMoves(m)
<1>1. CASE MqIsr
  <2>1. PICK m \in Queues, v \in Messages : IsrSendMessage(m, v)
    BY <1>1 DEF MqIsr
  <2>2. Steady(Laden)
    BY <2>1, SameHands DEF IsrSendMessage
  <2>. QED BY <2>1, <2>2 DEF IsrSendMessage, MqMoves
<1>2. "run" \notin Laden /\ "ret_sched" \notin Laden /\ "mqd_test" \notin Laden
      /\ "mqd_wake" \notin Laden /\ "det_object" \notin Laden /\ "mqr_sched" \notin Laden
      /\ "mqr_woken" \notin Laden
  BY DEF Laden, MqHold, MailHold, DqHold
<1>3. ASSUME NEW t \in Threads, MqCall(t)
      PROVE  \E m \in Queues : MqMoves(m)
  <2>1. PICK m \in Queues :
           \/ rt_mq_send(t, m) \/ rt_mq_urgent(t, m)
           \/ \E time \in MqTimes : rt_mq_recv(t, m, time)
           \/ rt_mq_control(t, m)
           \/ rt_mq_detach(t, m) /\ UNCHANGED <<left, item, mq>>
    BY <1>3 DEF MqCall
  <2>2. ASSUME NEW place \in {"mq_filled", "mq_urgent"}, Allocate(t, m, place)
        PROVE  MqMoves(m)
    <3>1. CASE mq[m].free = None /\ UNCHANGED <<mq, pc, arg, item>>
      BY <3>1, SameHands DEF MqMoves
    <3>2. CASE /\ mq[m].free # None /\ mq' = [mq EXCEPT ![m] = Allocated(@)]
               /\ Proceed(t, m, place) /\ item' = [item EXCEPT ![t] = mq[m].free]
      <4>1. At(t, "run") /\ place \in Sending /\ Sending \subseteq MqHold
        BY <2>2 DEF Allocate, Calls, MqHold, Sending
      <4>2. Grabs(t, m, mq[m].free, Sending)
        BY <1>2, <3>2, <4>1, GrabsOK
      <4>. QED BY <3>2, <4>2 DEF MqMoves
    <3>. QED BY <2>2, <3>1, <3>2 DEF Allocate
  <2>3. ASSUME NEW time \in MqTimes, rt_mq_recv(t, m, time)
        PROVE  MqMoves(m)
    <3>1. At(t, "run")
      BY <2>3 DEF rt_mq_recv, Calls
    <3>2. Dequeue(t, m) \/ MqBlock(t, m, time) \/ (Leave(t) /\ mq' = mq)
      BY <2>3, Zenon DEF rt_mq_recv
    <3>. QED BY <1>2, <3>1, <3>2, DequeueMoves
  <2>4. CASE rt_mq_control(t, m)
    <3>1. Calls(t, m) /\ mq' = [mq EXCEPT ![m] = Drained(@)] /\ LeaveVia(t, "ret_sched")
      BY <2>4 DEF rt_mq_control
    <3>2. Steady(Laden)
      BY <1>2, <3>1, WaysOn, LightOK, CallOnward, OnwardHands
    <3>. QED BY <3>1, <3>2 DEF MqMoves
  <2>5. CASE rt_mq_detach(t, m) /\ UNCHANGED <<left, item, mq>>
    <3>1. Steady(Laden)
      BY <1>2, <2>5, DetachOnward, LightOK, OnwardHands DEF rt_mq_detach
    <3>. QED BY <2>5, <3>1 DEF MqMoves
  <2>. QED BY <2>1, <2>2, <2>3, <2>4, <2>5 DEF rt_mq_send, rt_mq_urgent
<1>4. ASSUME NEW t \in Threads, MqStep(t)
      PROVE  \E m \in Queues : MqMoves(m)
  <2>. DEFINE m == arg[t]
  <2>1. ASSUME NEW p \in MqPlaces, At(t, p)
        PROVE  m \in Queues
    <3>1. t \in Threads /\ Fits(t, p, arg[t]) /\ pc[t] = p
      BY <2>1, AtFits
    <3>. QED BY <2>1, <3>1 DEF Fits, MqPlaces
  <2>2. {"mq_filled", "mq_urgent", "mqr_copy", "mqr_woken", "mqr_sched", "mqd_test", "mqd_wake"}
           \subseteq MqPlaces
    BY DEF MqPlaces
  <2>3. ASSUME NEW v \in Messages, SendLink(t, v) \/ UrgentLink(t, v)
        PROVE  m \in Queues /\ MqMoves(m)
    <3>1. PICK p \in {"mq_filled", "mq_urgent"} : At(t, p)
      BY <2>3 DEF SendLink, UrgentLink
    <3>2. StepsOn(t, Laden)
      BY <2>3, WaysOn, LightOK DEF SendLink, UrgentLink
    <3>3. p \in Sending /\ Sending \in SUBSET MqHold
      BY DEF MqHold, Sending
    <3>4. Yields(t, m, Sending)
      BY <3>1, <3>2, <3>3, YieldsOK
    <3>5. \/ mq' = [mq EXCEPT ![m] = LinkedLast(@, item[t], v)]
          \/ mq' = [mq EXCEPT ![m] = LinkedFirst(@, item[t], v)]
      BY <2>3 DEF SendLink, UrgentLink
    <3>. QED BY <2>1, <2>2, <3>1, <3>4, <3>5 DEF MqMoves
  <2>4. CASE MqWoken(t)
    <3>1. At(t, "mqr_woken")
      BY <2>4 DEF MqWoken
    <3>2. \/ Dequeue(t, m)
          \/ \E time : MqBlock(t, m, time)
          \/ (Failed(t) \/ \E time : TimedOut(t, time)) /\ mq' = mq
      BY <2>4 DEF MqWoken
    <3>3. MqMoves(m)
      BY <1>2, <3>1, <3>2, DequeueMoves
    <3>. QED BY <2>1, <2>2, <3>1, <3>3
  <2>5. CASE RecvFree(t)
    <3>1. At(t, "mqr_copy") /\ Leave(t) /\ mq' = [mq EXCEPT ![m] = Freed(@, item[t])]
      BY <2>5 DEF RecvFree
    <3>2. StepsOn(t, Laden) /\ {"mqr_copy"} \in SUBSET MqHold
      BY <3>1, WaysOn, LightOK DEF MqHold
    <3>3. Yields(t, m, {"mqr_copy"})
      BY <3>1, <3>2, YieldsOK
    <3>. QED BY <2>1, <2>2, <3>1, <3>3 DEF MqMoves
  <2>6. CASE Resched(t, "mqr_sched", "mqr_woken") /\ UNCHANGED <<item, mq>>
    <3>1. At(t, "mqr_sched")
      BY <2>6 DEF Resched
    <3>2. Steady(Laden)
      BY <1>2, <2>6, ReschedOnward, LightOK, OnwardHands
    <3>. QED BY <2>1, <2>2, <2>6, <3>1, <3>2 DEF MqMoves
  <2>7. CASE MqDetachSteps(t) /\ UNCHANGED <<item, mq>>
    <3>1. \/ ResumeAllTest(t, m, "mqd_test", "mqd_wake", "det_object")
          \/ ResumeAllWake(t, m, "mqd_wake", "mqd_test")
      BY <2>7 DEF MqDetachSteps
    <3>2. At(t, "mqd_test") \/ At(t, "mqd_wake")
      BY <3>1 DEF ResumeAllTest, ResumeAllWake
    <3>3. Steady(Laden)
      BY <1>2, <2>7, <3>1, WalkOnward, LightOK, OnwardHands
    <3>. QED BY <2>1, <2>2, <2>7, <3>2, <3>3 DEF MqMoves
  <2>. QED BY <1>4, <2>3, <2>4, <2>5, <2>6, <2>7 DEF MqStep
<1>. QED BY <1>1, <1>3, <1>4 DEF MqNext


-----------------------------------------------------------------------------
(* Every slot is accounted for.                                            *)

\* The slots in the hands of threads are none of U, and each in one hand only;
\* with L others they are all.
Owners(m, U, L) ==
    /\ \A t \in Holders(m) : item[t] \in Slots \ U
    /\ \A t, u \in Holders(m) : item[t] = item[u] => t = u
    /\ L + Cardinality(Holders(m)) = MqSize

Accounted(m, c, f) ==
    Holds(mq[m], c, f) /\ Owners(m, ToSet(c) \union ToSet(f), Len(c) + Len(f))

SlotInv ==
    /\ ItemShape
    /\ mq \in [Queues -> SlotState]
    /\ \A m \in Queues : \E c, f : Accounted(m, c, f)

LEMMA HoldersFinite ==
    ASSUME NEW m
    PROVE  IsFiniteSet(Holders(m)) /\ Cardinality(Holders(m)) \in Nat
<1>1. Holders(m) \in SUBSET Threads /\ IsFiniteSet(Threads)
  BY KernelAssumption DEF Holders
<1>. QED BY <1>1, FS_Subset, FS_CardinalityType

\* The hands of queue n did not change.
HandsOf(n) == Holders(n)' = Holders(n) /\ \A u \in Holders(n) : item'[u] = item[u]

LEMMA OwnersStill ==
    ASSUME NEW m, NEW U, NEW L, Owners(m, U, L), HandsOf(m)
    PROVE  Owners(m, U, L)'
BY DEF Owners, HandsOf

LEMMA OwnersGrab ==
    ASSUME NEW m \in Queues, NEW U, NEW L, L \in Nat, Owners(m, U, L), NEW t, NEW s, NEW P,
           Grabs(t, m, s, P), NEW W, NEW l, s \in Slots, s \notin W, U = W \union {s}, L = l + 1,
           l \in Nat
    PROVE  Owners(m, W, l)'
<1>1. /\ Holders(m)' = Holders(m) \union {t} /\ t \notin Holders(m) /\ item'[t] = s
      /\ \A u \in Holders(m) : item'[u] = item[u]
  <2>1. \A u \in Holders(m) : u \in Threads /\ u # t
    BY DEF Grabs, Holders
  <2>. QED BY <2>1 DEF Grabs
<1>2. \A u \in Holders(m)' : item'[u] \in Slots \ W
  BY <1>1 DEF Owners
<1>3. \A u, v \in Holders(m)' : item'[u] = item'[v] => u = v
  <2>1. \A u \in Holders(m) : item[u] # s
    BY DEF Owners
  <2>. QED BY <1>1, <2>1 DEF Owners
<1>4. Cardinality(Holders(m)') = Cardinality(Holders(m)) + 1
  BY <1>1, HoldersFinite, FS_AddElement
<1>5. \A x \in Nat : (l + 1) + x = MqSize => l + (x + 1) = MqSize
  OBVIOUS
<1>6. l + Cardinality(Holders(m)') = MqSize
  BY <1>4, <1>5, HoldersFinite DEF Owners
<1>. QED BY <1>2, <1>3, <1>6 DEF Owners

LEMMA OwnersYield ==
    ASSUME NEW m \in Queues, NEW U, NEW L, L \in Nat, Owners(m, U, L), NEW t, NEW P, Yields(t, m, P)
    PROVE  /\ item[t] \in Slots /\ item[t] \notin U
           /\ \A W, l : W = U \union {item[t]} /\ l = L + 1 => Owners(m, W, l)'
<1>. DEFINE s == item[t]
<1>1. /\ Holders(m)' = Holders(m) \ {t} /\ t \in Holders(m)
      /\ \A u \in Holders(m) : u # t => item'[u] = item[u]
  <2>1. \A u \in Holders(m) : u \in Threads
    BY DEF Holders
  <2>. QED BY <2>1 DEF Yields
<1>2. s \in Slots /\ s \notin U
  BY <1>1 DEF Owners
<1>3. \A u \in Holders(m)' : item'[u] \in Slots \ (U \union {s})
  BY <1>1 DEF Owners
<1>4. \A u, v \in Holders(m)' : item'[u] = item'[v] => u = v
  BY <1>1 DEF Owners
<1>5. Cardinality(Holders(m)') = Cardinality(Holders(m)) - 1
  BY <1>1, HoldersFinite, FS_RemoveElement
<1>6. \A x \in Nat : L + x = MqSize => (L + 1) + (x - 1) = MqSize
  OBVIOUS
<1>7. (L + 1) + Cardinality(Holders(m)') = MqSize
  BY <1>5, <1>6, HoldersFinite DEF Owners
<1>. QED BY <1>2, <1>3, <1>4, <1>7 DEF Owners

LEMMA GrabsHands ==
    ASSUME NEW t, NEW m, NEW s, NEW P, SvcInv,
           Grabs(t, m, s, P) \/ (Yields(t, m, P) /\ m \in Queues)
    PROVE  ItemShape' /\ \A n \in Queues : n # m => HandsOf(n)
<1>1. CASE Grabs(t, m, s, P)
  <2>1. \A n \in Queues : \A u \in Holders(n) : u \in Threads /\ u # t
    BY <1>1 DEF Grabs, Holders
  <2>. QED BY <1>1, <2>1 DEF Grabs, HandsOf
<1>2. CASE Yields(t, m, P)
  <2>1. \A n \in Queues : n # m => t \notin Holders(n)
    BY <1>2 DEF Yields, Holders
  <2>2. \A n \in Queues : \A u \in Holders(n) : u \in Threads
    BY DEF Holders
  <2>. QED BY <1>2, <2>1, <2>2 DEF Yields, HandsOf
<1>. QED BY <1>1, <1>2

LEMMA SlotAgain ==
    ASSUME SlotInv, NEW m \in Queues, ItemShape', \A n \in Queues : n # m => HandsOf(n),
           NEW x, mq' = [mq EXCEPT ![m] = x],
           NEW c, NEW f, Holds(x, c, f), Owners(m, ToSet(c) \union ToSet(f), Len(c) + Len(f))'
    PROVE  SlotInv'
<1>1. x \in SlotState /\ mq \in [Queues -> SlotState]
  BY DEF Holds, SlotInv
<1>2. mq' \in [Queues -> SlotState] /\ mq'[m] = x /\ \A n \in Queues : n # m => mq'[n] = mq[n]
  BY <1>1
<1>3. ASSUME NEW n \in Queues
      PROVE  (\E d, e : Accounted(n, d, e))'
  <2>1. CASE n = m
    <3>1. Accounted(m, c, f)'
      BY <1>2 DEF Accounted
    <3>. QED BY <2>1, <3>1
  <2>2. CASE n # m
    <3>1. PICK d, e : Accounted(n, d, e)
      BY DEF SlotInv
    <3>2. Owners(n, ToSet(d) \union ToSet(e), Len(d) + Len(e))'
      BY <2>2, <3>1, OwnersStill DEF Accounted
    <3>3. Accounted(n, d, e)'
      BY <1>2, <2>2, <3>1, <3>2 DEF Accounted
    <3>. QED BY <3>3
  <2>. QED BY <2>1, <2>2
<1>. QED BY <1>2, <1>3 DEF SlotInv

LEMMA SlotFrame ==
    ASSUME SlotInv, HandsStill, mq' = mq
    PROVE  SlotInv'
<1>1. ASSUME NEW n \in Queues
      PROVE  (\E d, e : Accounted(n, d, e))'
  <2>1. PICK d, e : Accounted(n, d, e)
    BY DEF SlotInv
  <2>2. Owners(n, ToSet(d) \union ToSet(e), Len(d) + Len(e))'
    BY <2>1, OwnersStill DEF Accounted, HandsStill, HandsOf
  <2>3. Accounted(n, d, e)'
    BY <2>1, <2>2 DEF Accounted
  <2>. QED BY <2>3
<1>. QED BY <1>1 DEF SlotInv, HandsStill


LEMMA SlotGrab ==
    ASSUME SvcInv, SlotInv, NEW m \in Queues, NEW t, NEW c, NEW f, Accounted(m, c, f),
           NEW s, NEW P, Grabs(t, m, s, P), NEW x, mq' = [mq EXCEPT ![m] = x],
           NEW d, NEW e, Holds(x, d, e), Spare(s, d, e),
           ToSet(c) \union ToSet(f) = (ToSet(d) \union ToSet(e)) \union {s},
           Len(c) + Len(f) = (Len(d) + Len(e)) + 1
    PROVE  SlotInv'
<1>1. Len(c) \in Nat /\ Len(f) \in Nat /\ Len(d) \in Nat /\ Len(e) \in Nat
  BY HoldsFacts DEF Accounted
<1>2. Len(c) + Len(f) \in Nat /\ Len(d) + Len(e) \in Nat
  BY <1>1
<1>3. PICK U, W, L, l : /\ U = ToSet(c) \union ToSet(f) /\ W = ToSet(d) \union ToSet(e)
                        /\ L = Len(c) + Len(f) /\ l = Len(d) + Len(e)
  OBVIOUS
<1>4. Owners(m, U, L) /\ L \in Nat /\ l \in Nat /\ L = l + 1 /\ U = W \union {s}
  BY <1>2, <1>3 DEF Accounted
<1>5. s \in Slots /\ s \notin W
  BY <1>3 DEF Spare
<1>6. Owners(m, W, l)'
  BY <1>4, <1>5, OwnersGrab
<1>7. Owners(m, ToSet(d) \union ToSet(e), Len(d) + Len(e))'
  BY <1>3, <1>6
<1>8. ItemShape' /\ \A n \in Queues : n # m => HandsOf(n)
  BY GrabsHands
<1>. QED BY <1>7, <1>8, SlotAgain

\* The slot that comes out of the hands of t.
LEMMA SlotYield ==
    ASSUME SvcInv, SlotInv, NEW m \in Queues, NEW t, NEW c, NEW f, Accounted(m, c, f),
           NEW P, Yields(t, m, P)
    PROVE  /\ Spare(item[t], c, f)
           /\ \A x, d, e : /\ mq' = [mq EXCEPT ![m] = x] /\ Holds(x, d, e)
                           /\ ToSet(d) \union ToSet(e) = (ToSet(c) \union ToSet(f)) \union {item[t]}
                           /\ Len(d) + Len(e) = (Len(c) + Len(f)) + 1
                           => SlotInv'
<1>1. Len(c) \in Nat /\ Len(f) \in Nat
  BY HoldsFacts DEF Accounted
<1>2. PICK U, L : U = ToSet(c) \union ToSet(f) /\ L = Len(c) + Len(f)
  OBVIOUS
<1>3. Owners(m, U, L) /\ L \in Nat
  BY <1>1, <1>2 DEF Accounted
<1>4. /\ item[t] \in Slots /\ item[t] \notin U
      /\ \A W, l : W = U \union {item[t]} /\ l = L + 1 => Owners(m, W, l)'
  BY <1>3, OwnersYield
<1>5. ItemShape' /\ \A n \in Queues : n # m => HandsOf(n)
  BY GrabsHands
<1>6. ASSUME NEW x, NEW d, NEW e, mq' = [mq EXCEPT ![m] = x], Holds(x, d, e),
             ToSet(d) \union ToSet(e) = (ToSet(c) \union ToSet(f)) \union {item[t]},
             Len(d) + Len(e) = (Len(c) + Len(f)) + 1
      PROVE  SlotInv'
  <2>1. PICK W, l : W = ToSet(d) \union ToSet(e) /\ l = Len(d) + Len(e)
    OBVIOUS
  <2>2. Owners(m, W, l)'
    BY <1>2, <1>4, <1>6, <2>1
  <2>3. Owners(m, ToSet(d) \union ToSet(e), Len(d) + Len(e))'
    BY <2>1, <2>2
  <2>. QED BY <1>5, <1>6, <2>3, SlotAgain
<1>. QED BY <1>2, <1>4, <1>6 DEF Spare

LEMMA SlotSame ==
    ASSUME SlotInv, NEW m \in Queues, NEW c, NEW f, Accounted(m, c, f), HandsStill,
           NEW x, mq' = [mq EXCEPT ![m] = x], NEW d, NEW e, Holds(x, d, e),
           ToSet(d) \union ToSet(e) = ToSet(c) \union ToSet(f), Len(d) + Len(e) = Len(c) + Len(f)
    PROVE  SlotInv'
<1>1. ItemShape' /\ \A n \in Queues : HandsOf(n)
  BY DEF HandsStill, HandsOf
<1>2. Owners(m, ToSet(c) \union ToSet(f), Len(c) + Len(f))'
  BY <1>1, OwnersStill DEF Accounted
<1>3. Owners(m, ToSet(d) \union ToSet(e), Len(d) + Len(e))'
  BY <1>2
<1>. QED BY <1>1, <1>3, SlotAgain

LEMMA AtMostSize ==
    ASSUME NEW m, NEW c, NEW f, Accounted(m, c, f)
    PROVE  /\ Len(c) \in Nat /\ Len(f) \in Nat /\ Len(c) <= MqSize /\ Len(f) <= MqSize
<1>1. Len(c) \in Nat /\ Len(f) \in Nat /\ Cardinality(Holders(m)) \in Nat
  BY HoldersFinite, HoldsFacts DEF Accounted
<1>2. (Len(c) + Len(f)) + Cardinality(Holders(m)) = MqSize
  BY DEF Accounted, Owners
<1>3. \A x, y, z \in Nat : (x + y) + z = MqSize => x <= MqSize /\ y <= MqSize
  BY MessageQueueAssumption
<1>. QED BY <1>1, <1>2, <1>3

LEMMA SlotKeep ==
    ASSUME SvcInv, SlotInv, NEW m \in Queues, MqMoves(m)
    PROVE  SlotInv'
<1>1. PICK c, f : Accounted(m, c, f)
  BY DEF SlotInv
<1>. DEFINE b == mq[m]
<1>2. Holds(b, c, f) /\ Len(c) \in Nat /\ Len(f) \in Nat /\ Len(c) <= MqSize /\ b.entry = Len(c)
  BY <1>1, AtMostSize DEF Accounted, Holds
<1>. HIDE DEF b
<1>. MqHold \subseteq Laden
  BY DEF Laden
<1>3. CASE mq' = mq /\ Steady(Laden)
  BY <1>3, SteadyHands, SlotFrame
<1>4. CASE mq' = [mq EXCEPT ![m] = Drained(b)] /\ Steady(Laden)
  <2>1. PICK e : DrainedTo(b, c, f, Drained(b), <<>>, e)
    BY <1>2, DrainedHolds
  <2>. QED BY <1>1, <1>4, <2>1, SteadyHands, SlotSame DEF DrainedTo
<1>5. ASSUME NEW v \in Messages, b.free # None, Steady(Laden),
             \/ mq' = [mq EXCEPT ![m] = LinkedLast(Allocated(b), b.free, v)]
             \/ mq' = [mq EXCEPT ![m] = LinkedFirst(Allocated(b), b.free, v)]
      PROVE  SlotInv'
  <2>1. /\ Holds(Allocated(b), c, Tail(f)) /\ Spare(b.free, c, Tail(f))
        /\ Len(Tail(f)) = Len(f) - 1 /\ ToSet(f) = ToSet(Tail(f)) \union {b.free}
    BY <1>2, <1>5, AllocatedHolds
  <2>2. PICK a, s, g : a = Allocated(b) /\ s = b.free /\ g = Tail(f)
    OBVIOUS
  <2>3. /\ Holds(a, c, g) /\ Spare(s, c, g)
        /\ Len(g) = Len(f) - 1 /\ ToSet(f) = ToSet(g) \union {s}
    BY <2>1, <2>2
  <2>4. CASE mq' = [mq EXCEPT ![m] = LinkedLast(a, s, v)]
    <3>1. /\ Holds(LinkedLast(a, s, v), Append(c, s), g)
          /\ ToSet(Append(c, s)) = ToSet(c) \union {s} /\ Len(Append(c, s)) = Len(c) + 1
      BY <2>3, LastPlaced
    <3>2. /\ ToSet(Append(c, s)) \union ToSet(g) = ToSet(c) \union ToSet(f)
          /\ Len(Append(c, s)) + Len(g) = Len(c) + Len(f)
      BY <1>2, <2>3, <3>1
    <3>. QED BY <1>1, <1>5, <2>4, <3>1, <3>2, SteadyHands, SlotSame
  <2>5. CASE mq' = [mq EXCEPT ![m] = LinkedFirst(a, s, v)]
    <3>1. /\ Holds(LinkedFirst(a, s, v), Cons(s, c), g)
          /\ ToSet(Cons(s, c)) = ToSet(c) \union {s} /\ Len(Cons(s, c)) = Len(c) + 1
      BY <2>3, FirstPlaced
    <3>2. /\ ToSet(Cons(s, c)) \union ToSet(g) = ToSet(c) \union ToSet(f)
          /\ Len(Cons(s, c)) + Len(g) = Len(c) + Len(f)
      BY <1>2, <2>3, <3>1
    <3>. QED BY <1>1, <1>5, <2>5, <3>1, <3>2, SteadyHands, SlotSame
  <2>. QED BY <1>5, <2>2, <2>4, <2>5
<1>6. ASSUME NEW t, b.free # None, mq' = [mq EXCEPT ![m] = Allocated(b)],
             Grabs(t, m, b.free, Sending)
      PROVE  SlotInv'
  <2>1. /\ Holds(Allocated(b), c, Tail(f)) /\ Spare(b.free, c, Tail(f))
        /\ Len(Tail(f)) = Len(f) - 1 /\ ToSet(f) = ToSet(Tail(f)) \union {b.free}
    BY <1>2, <1>6, AllocatedHolds
  <2>2. PICK x, s, g : x = Allocated(b) /\ s = b.free /\ g = Tail(f)
    OBVIOUS
  <2>3. /\ Holds(x, c, g) /\ Spare(s, c, g) /\ (\E P : Grabs(t, m, s, P))
        /\ mq' = [mq EXCEPT ![m] = x]
        /\ Len(g) = Len(f) - 1 /\ ToSet(f) = ToSet(g) \union {s}
    BY <1>6, <2>1, <2>2
  <2>4. /\ ToSet(c) \union ToSet(f) = (ToSet(c) \union ToSet(g)) \union {s}
        /\ Len(c) + Len(f) = (Len(c) + Len(g)) + 1
    BY <1>2, <2>3
  <2>. QED BY <1>1, <2>3, <2>4, SlotGrab
<1>7. ASSUME NEW t, b.entry # 0, mq' = [mq EXCEPT ![m] = Unlinked(b)],
             Grabs(t, m, b.head, {"mqr_copy"})
      PROVE  SlotInv'
  <2>1. c # <<>>
    BY <1>2, <1>7
  <2>2. /\ Holds(Unlinked(b), Tail(c), f) /\ Spare(b.head, Tail(c), f)
        /\ Len(Tail(c)) = Len(c) - 1 /\ ToSet(c) = ToSet(Tail(c)) \union {b.head}
    BY <1>2, <2>1, UnlinkedHolds
  <2>3. PICK x, s, d : x = Unlinked(b) /\ s = b.head /\ d = Tail(c)
    OBVIOUS
  <2>4. /\ Holds(x, d, f) /\ Spare(s, d, f) /\ (\E P : Grabs(t, m, s, P))
        /\ mq' = [mq EXCEPT ![m] = x]
        /\ Len(d) = Len(c) - 1 /\ ToSet(c) = ToSet(d) \union {s}
    BY <1>7, <2>2, <2>3
  <2>5. /\ ToSet(c) \union ToSet(f) = (ToSet(d) \union ToSet(f)) \union {s}
        /\ Len(c) + Len(f) = (Len(d) + Len(f)) + 1
    BY <1>2, <2>4
  <2>. QED BY <1>1, <2>4, <2>5, SlotGrab
<1>8. ASSUME NEW t, NEW P, Yields(t, m, P),
             \/ \E v \in Messages : \/ mq' = [mq EXCEPT ![m] = LinkedLast(b, item[t], v)]
                                   \/ mq' = [mq EXCEPT ![m] = LinkedFirst(b, item[t], v)]
             \/ mq' = [mq EXCEPT ![m] = Freed(b, item[t])]
      PROVE  SlotInv'
  <2>1. PICK s : s = item[t]
    OBVIOUS
  <2>2. Spare(s, c, f)
    BY <1>1, <1>8, <2>1, SlotYield
  <2>3. ASSUME NEW x, NEW d, NEW e, mq' = [mq EXCEPT ![m] = x], Holds(x, d, e),
               ToSet(d) \union ToSet(e) = (ToSet(c) \union ToSet(f)) \union {s},
               Len(d) + Len(e) = (Len(c) + Len(f)) + 1
        PROVE  SlotInv'
    BY <1>1, <1>8, <2>1, <2>3, SlotYield
  <2>4. ASSUME NEW v \in Messages, mq' = [mq EXCEPT ![m] = LinkedLast(b, s, v)]
        PROVE  SlotInv'
    <3>1. /\ Holds(LinkedLast(b, s, v), Append(c, s), f)
          /\ ToSet(Append(c, s)) = ToSet(c) \union {s} /\ Len(Append(c, s)) = Len(c) + 1
      BY <1>2, <2>2, LastPlaced
    <3>2. /\ ToSet(Append(c, s)) \union ToSet(f) = (ToSet(c) \union ToSet(f)) \union {s}
          /\ Len(Append(c, s)) + Len(f) = (Len(c) + Len(f)) + 1
      BY <1>2, <3>1
    <3>. QED BY <2>3, <2>4, <3>1, <3>2
  <2>5. ASSUME NEW v \in Messages, mq' = [mq EXCEPT ![m] = LinkedFirst(b, s, v)]
        PROVE  SlotInv'
    <3>1. /\ Holds(LinkedFirst(b, s, v), Cons(s, c), f)
          /\ ToSet(Cons(s, c)) = ToSet(c) \union {s} /\ Len(Cons(s, c)) = Len(c) + 1
      BY <1>2, <2>2, FirstPlaced
    <3>2. /\ ToSet(Cons(s, c)) \union ToSet(f) = (ToSet(c) \union ToSet(f)) \union {s}
          /\ Len(Cons(s, c)) + Len(f) = (Len(c) + Len(f)) + 1
      BY <1>2, <3>1
    <3>. QED BY <2>3, <2>5, <3>1, <3>2
  <2>6. CASE mq' = [mq EXCEPT ![m] = Freed(b, s)]
    <3>1. /\ Holds(Freed(b, s), c, Cons(s, f)) /\ ToSet(Cons(s, f)) = ToSet(f) \union {s}
          /\ Len(Cons(s, f)) = Len(f) + 1
      BY <1>2, <2>2, FreedHolds
    <3>2. /\ ToSet(c) \union ToSet(Cons(s, f)) = (ToSet(c) \union ToSet(f)) \union {s}
          /\ Len(c) + Len(Cons(s, f)) = (Len(c) + Len(f)) + 1
      BY <1>2, <3>1
    <3>. QED BY <2>3, <2>6, <3>1, <3>2
  <2>. QED BY <1>8, <2>1, <2>4, <2>5, <2>6
<1>. QED BY <1>3, <1>4, <1>5, <1>6, <1>7, <1>8 DEF MqMoves, b


LEMMA SlotInit_Inv ==
    ASSUME Init
    PROVE  SlotInv
<1>. DEFINE N == MqSize
            f == [i \in 1 .. N |-> N + 1 - i]
            b == [next |-> [s \in Slots |-> IF s = 1 THEN None ELSE s - 1],
                  data |-> [s \in Slots |-> None],
                  head |-> None, tail |-> None, free |-> N, entry |-> 0]
<1>1. N \in Nat \ {0} /\ Slots = 1 .. N /\ None \notin Slots
  BY MessageQueueAssumption, NotASlot DEF Slots
<1>2. mq = [m \in Queues |-> b] /\ item = [t \in Threads |-> None]
  BY DEF Init, MqInit, RetryInit
<1>3. f \in Seq(Slots) /\ Len(f) = N
  BY <1>1
<1>4. IsInjective(f)
  BY <1>1, <1>3 DEF IsInjective
<1>5. b \in SlotState
  BY <1>1 DEF SlotState, Pointer
<1>6. Linked(b.next, b.free, f)
  <2>1. b.free = Link(f, 1)
    BY <1>1, <1>3 DEF Link
  <2>2. ASSUME NEW i \in 1 .. Len(f)
        PROVE  b.next[f[i]] = Link(f, i + 1)
    <3>1. f[i] = N + 1 - i /\ f[i] \in Slots
      BY <1>1, <1>3
    <3>2. b.next[f[i]] = IF i = N THEN None ELSE N - i
      BY <1>1, <1>3, <3>1
    <3>3. Link(f, i + 1) = IF i = N THEN None ELSE N - i
      BY <1>1, <1>3 DEF Link
    <3>. QED BY <3>2, <3>3
  <2>. QED BY <1>3, <1>4, <2>1, <2>2 DEF Linked
<1>7. Linked(b.next, b.head, <<>>)
  BY DEF Linked, Link, IsInjective
<1>8. ToSet(<<>>) = {}
  BY DEF ToSet
<1>9. b.entry = Len(<<>>) /\ b.tail = Link(<<>>, Len(<<>>))
  BY DEF Link
<1>. HIDE DEF b
<1>10. Holds(b, <<>>, f)
  BY <1>5, <1>6, <1>7, <1>8, <1>9 DEF Holds
<1>11. ASSUME NEW m \in Queues
       PROVE  \E c, g : Accounted(m, c, g)
  <2>1. Holders(m) = {}
    BY DEF Init, Holders, MqHold
  <2>2. Cardinality(Holders(m)) = 0
    BY <2>1, FS_EmptySet
  <2>3. Len(<<>>) + Len(f) + Cardinality(Holders(m)) = N
    BY <1>1, <1>3, <2>2
  <2>4. Owners(m, ToSet(<<>>) \union ToSet(f), Len(<<>>) + Len(f))
    BY <2>1, <2>3 DEF Owners
  <2>5. Accounted(m, <<>>, f)
    BY <1>2, <1>10, <2>4 DEF Accounted
  <2>. QED BY <2>5
<1>12. ItemShape
  BY <1>2 DEF ItemShape
<1>. QED BY <1>2, <1>5, <1>11, <1>12 DEF SlotInv

LEMMA ChainsApart ==
    ASSUME NEW c \in Seq(Slots), NEW f \in Seq(Slots), IsInjective(c), IsInjective(f),
           ToSet(c) \intersect ToSet(f) = {}
    PROVE  IsInjective(c \o f) /\ ToSet(c \o f) = ToSet(c) \union ToSet(f)
<1>1. /\ c \o f \in Seq(Slots) /\ Len(c) \in Nat /\ Len(f) \in Nat
      /\ Len(c \o f) = Len(c) + Len(f)
      /\ \A i \in 1 .. Len(c) + Len(f) : (c \o f)[i] = IF i <= Len(c) THEN c[i] ELSE f[i - Len(c)]
  OBVIOUS
<1>2. PICK l, n \in Nat : l = Len(c) /\ n = Len(f)
  BY <1>1
<1>3. PICK g : g = c \o f
  OBVIOUS
<1>4. g \in Seq(Slots) /\ Len(g) = l + n
      /\ \A i \in 1 .. l + n : g[i] = IF i <= l THEN c[i] ELSE f[i - l]
  BY <1>1, <1>2, <1>3
<1>5. /\ \A i \in 1 .. l : c[i] \in ToSet(c)
      /\ \A i \in 1 .. n : f[i] \in ToSet(f)
      /\ \A s \in ToSet(c) : \E i \in 1 .. l : c[i] = s
      /\ \A s \in ToSet(f) : \E i \in 1 .. n : f[i] = s
  BY <1>2, ToSetDef
<1>6. /\ \A i, j \in 1 .. l : c[i] = c[j] => i = j
      /\ \A i, j \in 1 .. n : f[i] = f[j] => i = j
  BY <1>2 DEF IsInjective
<1>7. ASSUME NEW i \in 1 .. l + n, NEW j \in 1 .. l + n, g[i] = g[j]
      PROVE  i = j
  <2>1. CASE i <= l /\ j <= l
    BY <1>4, <1>6, <1>7, <2>1
  <2>2. CASE i > l /\ j > l
    <3>1. i - l \in 1 .. n /\ j - l \in 1 .. n /\ f[i - l] = f[j - l]
      BY <1>4, <1>7, <2>2
    <3>2. i - l = j - l
      BY <1>6, <3>1
    <3>. QED BY <3>2
  <2>3. CASE i <= l /\ j > l
    <3>1. i \in 1 .. l /\ j - l \in 1 .. n /\ g[i] = c[i] /\ g[j] = f[j - l]
      BY <1>4, <2>3
    <3>. QED BY <1>5, <1>7, <3>1
  <2>4. CASE i > l /\ j <= l
    <3>1. j \in 1 .. l /\ i - l \in 1 .. n /\ g[j] = c[j] /\ g[i] = f[i - l]
      BY <1>4, <2>4
    <3>. QED BY <1>5, <1>7, <3>1
  <2>. QED BY <2>1, <2>2, <2>3, <2>4
<1>8. IsInjective(g)
  BY <1>4, <1>7 DEF IsInjective
<1>9. ToSet(g) = {g[i] : i \in 1 .. l + n}
  <2>1. DOMAIN g = 1 .. l + n
    BY <1>4
  <2>. QED BY <2>1 DEF ToSet
<1>10. ToSet(g) \subseteq ToSet(c) \union ToSet(f)
  <2>1. ASSUME NEW i \in 1 .. l + n
        PROVE  g[i] \in ToSet(c) \union ToSet(f)
    <3>1. CASE i <= l
      <4>1. i \in 1 .. l /\ g[i] = c[i]
        BY <1>4, <3>1
      <4>. QED BY <1>5, <4>1
    <3>2. CASE i > l
      <4>1. i - l \in 1 .. n /\ g[i] = f[i - l]
        BY <1>4, <3>2
      <4>. QED BY <1>5, <4>1
    <3>. QED BY <3>1, <3>2
  <2>. QED BY <1>9, <2>1
<1>11. ToSet(c) \subseteq ToSet(g)
  <2>1. ASSUME NEW i \in 1 .. l
        PROVE  c[i] \in ToSet(g)
    <3>1. i \in 1 .. l + n /\ i <= l
      OBVIOUS
    <3>2. g[i] = c[i]
      BY <1>4, <3>1
    <3>. QED BY <1>9, <3>1, <3>2
  <2>. QED BY <1>5, <2>1
<1>12. ToSet(f) \subseteq ToSet(g)
  <2>1. ASSUME NEW i \in 1 .. n
        PROVE  f[i] \in ToSet(g)
    <3>1. i + l \in 1 .. l + n /\ ~(i + l <= l) /\ (i + l) - l = i
      OBVIOUS
    <3>2. g[i + l] = f[i]
      BY <1>4, <3>1
    <3>. QED BY <1>9, <3>1, <3>2
  <2>. QED BY <1>5, <2>1
<1>. QED BY <1>3, <1>8, <1>10, <1>11, <1>12

LEMMA SlotInvSays ==
    ASSUME SlotInv
    PROVE  SlotsAccounted
<1>1. ASSUME NEW m \in Queues, NEW c, NEW f, Accounted(m, c, f)
      PROVE  LET queue == Chain(mq[m], mq[m].head)
                 free == Chain(mq[m], mq[m].free)
                 holders == {t \in Threads : pc[t] \in {"mq_filled", "mq_urgent", "mqr_copy"}
                                             /\ arg[t] = m}
             IN  /\ IsInjective(queue \o free)
                 /\ Len(queue) = mq[m].entry
                 /\ mq[m].tail = (IF queue = <<>> THEN None ELSE Last(queue))
                 /\ \A t \in holders : item[t] \in Slots \ ToSet(queue \o free)
                 /\ \A t, u \in holders : item[t] = item[u] => t = u
                 /\ Len(queue) + Len(free) + Cardinality(holders) = MqSize
  <2>1. PICK b : b = mq[m]
    OBVIOUS
  <2>2. /\ Holds(b, c, f) /\ Owners(m, ToSet(c) \union ToSet(f), Len(c) + Len(f))
        /\ Len(c) \in Nat /\ Len(f) \in Nat /\ Len(c) <= MqSize /\ Len(f) <= MqSize
    BY <1>1, <2>1, AtMostSize DEF Accounted
  <2>3. Chain(b, b.head) = c /\ Chain(b, b.free) = f
    BY <2>2, ChainIs DEF Holds
  <2>4. /\ c \in Seq(Slots) /\ f \in Seq(Slots)
        /\ IsInjective(c \o f) /\ ToSet(c \o f) = ToSet(c) \union ToSet(f)
    BY <2>2, HoldsFacts, ChainsApart DEF Holds
  <2>5. b.tail = (IF c = <<>> THEN None ELSE Last(c)) /\ b.entry = Len(c)
    <3>1. b.tail = Link(c, Len(c)) /\ b.entry = Len(c)
      BY <2>2 DEF Holds
    <3>2. CASE c = <<>>
      BY <3>1, <3>2 DEF Link
    <3>3. CASE c # <<>>
      <4>1. Len(c) \in 1 .. Len(c)
        BY <2>4, <3>3, EmptySeq
      <4>. QED BY <3>1, <3>3, <4>1 DEF Link, Last
    <3>. QED BY <3>1, <3>2, <3>3
  <2>6. Holders(m) = {t \in Threads : pc[t] \in {"mq_filled", "mq_urgent", "mqr_copy"}
                                      /\ arg[t] = m}
    BY DEF Holders, MqHold
  <2>7. /\ \A t \in Holders(m) : item[t] \in Slots \ ToSet(c \o f)
        /\ \A t, u \in Holders(m) : item[t] = item[u] => t = u
        /\ Len(c) + Len(f) + Cardinality(Holders(m)) = MqSize
    BY <2>2, <2>4 DEF Owners
  <2>. QED BY <2>1, <2>3, <2>4, <2>5, <2>6, <2>7
<1>. QED BY <1>1 DEF SlotInv, SlotsAccounted


-----------------------------------------------------------------------------
(* No message is left behind.                                              *)

MqMatched == \A m \in Queues : Matched(mq[m].entry, m)

MqInv == SlotInv /\ MqMatched

\* SlotState, whatever is in the head of the free list.
SlotsWith(S) ==
    [next : [Slots -> Pointer], data : [Slots -> Messages \union {None}],
     head : Pointer, tail : Pointer, free : S, entry : Nat]

\* What the operations do to the counter.
LEMMA EntryCounts ==
    ASSUME NEW S, NEW m \in SlotsWith(S), NEW s, NEW v
    PROVE  /\ LinkedLast(m, s, v).entry = m.entry + 1
           /\ LinkedFirst(m, s, v).entry = m.entry + 1
           /\ Unlinked(m).entry = m.entry - 1
           /\ Freed(m, s).entry = m.entry
<1>1. Unlinked(m).entry = m.entry - 1
  BY DEF SlotsWith, Unlinked
<1>2. Freed(m, s).entry = m.entry
  BY DEF SlotsWith, Freed
<1>3. LinkedFirst(m, s, v).entry = m.entry + 1
  BY DEF SlotsWith, LinkedFirst
<1>4. LinkedLast(m, s, v).entry = m.entry + 1
  BY DEF SlotsWith, LinkedLast
<1>. QED BY <1>1, <1>2, <1>3, <1>4

LEMMA AllocatedCounts ==
    ASSUME NEW S, NEW m \in SlotsWith(S)
    PROVE  Allocated(m).entry = m.entry /\ Allocated(m) \in SlotsWith({m.next[m.free]})
BY DEF SlotsWith, Allocated

LEMMA MqOthers ==
    ASSUME NEW A, Foot(A), NEW m \in Queues, m \notin A, NEW n, Matched(n, m)
    PROVE  Matched(n, m)'
<1>1. m \in WaitLists
  BY MqListsOK
<1>. QED BY <1>1, MatchedStill DEF Foot

LEMMA MqKeep ==
    ASSUME SvcInv, SlotInv, MqMatched, NEW m \in Queues, MqDid(m)
    PROVE  MqMatched'
<1>. DEFINE b == mq[m]
<1>1. b \in SlotState /\ mq \in [Queues -> SlotState] /\ m \in WaitLists
  BY MqListsOK DEF SlotInv
<1>2. b \in SlotsWith(Pointer) /\ b.entry \in Nat
  BY <1>1 DEF SlotState, SlotsWith
<1>3. Foot({m})
  <2>1. Acts({m})
    BY OnlyNobody DEF MqDid, Acts, Passes
  <2>. QED BY <2>1, FootOK
<1>. HIDE DEF b
<1>4. PICK n : n = b.entry
  OBVIOUS
<1>5. n \in Nat /\ n \in Int /\ Matched(n, m)
  BY <1>2, <1>4 DEF b, MqMatched
<1>6. ASSUME NEW x, mq' = [mq EXCEPT ![m] = x], NEW i, i = x.entry, Matched(i, m)'
      PROVE  MqMatched'
  <2>1. mq'[m] = x /\ \A c \in Queues : c # m => mq'[c] = mq[c]
    BY <1>1, <1>6
  <2>2. ASSUME NEW c \in Queues
        PROVE  Matched(mq[c].entry, c)'
    <3>1. CASE c = m
      BY <1>6, <2>1, <3>1
    <3>2. CASE c # m
      <4>1. PICK j : j = mq[c].entry
        OBVIOUS
      <4>2. Matched(j, c)'
        BY <1>3, <3>2, <4>1, MqOthers DEF MqMatched
      <4>. QED BY <2>1, <3>2, <4>1, <4>2
    <3>. QED BY <3>1, <3>2
  <2>. QED BY <2>2 DEF MqMatched
<1>7. ASSUME mq' = mq, Matched(n, m)'
      PROVE  MqMatched'
  <2>1. mq' = [mq EXCEPT ![m] = b]
    BY <1>1, <1>7 DEF b
  <2>. QED BY <1>4, <1>6, <1>7, <2>1
<1>8. CASE MsgLinked(m) /\ Offered({}, m)
  <2>1. PICK x \in {b, Allocated(b)} : \E s, v :
           mq' = [mq EXCEPT ![m] = LinkedLast(x, s, v)] \/ mq' = [mq EXCEPT ![m] = LinkedFirst(x, s, v)]
    BY <1>8 DEF MsgLinked, b
  <2>2. PICK s, v : mq' = [mq EXCEPT ![m] = LinkedLast(x, s, v)]
                    \/ mq' = [mq EXCEPT ![m] = LinkedFirst(x, s, v)]
    BY <2>1
  <2>3. Allocated(b).entry = b.entry /\ Allocated(b) \in SlotsWith({b.next[b.free]})
    BY <1>2, AllocatedCounts
  <2>4. LinkedLast(x, s, v).entry = n + 1 /\ LinkedFirst(x, s, v).entry = n + 1
    <3>1. PICK S : x \in SlotsWith(S)
      BY <1>2, <2>3
    <3>2. LinkedLast(x, s, v).entry = x.entry + 1 /\ LinkedFirst(x, s, v).entry = x.entry + 1
      BY <3>1, EntryCounts
    <3>3. x.entry = n
      BY <1>4, <2>3
    <3>. QED BY <3>2, <3>3
  <2>5. n + 1 \in Int /\ n + 1 <= n + 1
    BY <1>5
  <2>6. Matched(n + 1, m)'
    BY <1>1, <1>5, <1>8, <2>5, MatchedOffer
  <2>. QED BY <1>6, <2>2, <2>4, <2>6
<1>9. ASSUME n # 0, mq' = [mq EXCEPT ![m] = Unlinked(b)], NEW t, Quits(t, m)
      PROVE  MqMatched'
  <2>1. Unlinked(b).entry = n - 1
    BY <1>2, <1>4, EntryCounts
  <2>2. n - 1 \in Int /\ n - 1 <= n - 1
    BY <1>5
  <2>3. Matched(n - 1, m)'
    BY <1>1, <1>5, <1>9, <2>2, MatchedQuit
  <2>. QED BY <1>6, <1>9, <2>1, <2>3
<1>10. ASSUME n = 0, mq' = mq
       PROVE  MqMatched'
  <2>1. Matched(n, m)'
    BY <1>5, <1>10, MatchedNone
  <2>. QED BY <1>7, <1>10, <2>1
<1>11. ASSUME mq' = [mq EXCEPT ![m] = Drained(b)], Dropped({}, Waiters(m))
       PROVE  MqMatched'
  <2>1. Waiters(m)' = {}
    BY <1>1, <1>11 DEF Dropped
  <2>2. PICK i : i = Drained(b).entry
    OBVIOUS
  <2>3. Matched(i, m)'
    BY <2>1 DEF Matched
  <2>. QED BY <1>6, <1>11, <2>2, <2>3
<1>12. ASSUME mq' = mq \/ SlotMoved(m), NEW T, Dropped({}, T)
       PROVE  MqMatched'
  <2>1. Waiters(m)' \subseteq Waiters(m) /\ Takers(m)' = Takers(m)
    BY <1>1, <1>12 DEF Dropped
  <2>2. Matched(n, m)'
    BY <1>5, <2>1, MatchedStill
  <2>3. CASE mq' = mq
    BY <1>7, <2>2, <2>3
  <2>4. CASE mq' = [mq EXCEPT ![m] = Allocated(b)]
    <3>1. Allocated(b).entry = n
      BY <1>2, <1>4, AllocatedCounts
    <3>. QED BY <1>6, <2>2, <2>4, <3>1
  <2>5. ASSUME NEW s, mq' = [mq EXCEPT ![m] = Freed(b, s)]
        PROVE  MqMatched'
    <3>1. Freed(b, s).entry = n
      BY <1>2, <1>4, EntryCounts
    <3>. QED BY <1>6, <2>2, <2>5, <3>1
  <2>. QED BY <1>12, <2>3, <2>4, <2>5 DEF SlotMoved, b
<1>. QED BY <1>4, <1>8, <1>9, <1>10, <1>11, <1>12 DEF MqDid, b

LEMMA MqFrame ==
    ASSUME MqMatched, NEW A, Foot(A), A \intersect Queues = {}, mq' = mq
    PROVE  MqMatched'
<1>1. ASSUME NEW c \in Queues
      PROVE  Matched(mq[c].entry, c)'
  <2>1. PICK n : n = mq[c].entry
    OBVIOUS
  <2>2. Matched(n, c)'
    BY <2>1, MqOthers DEF MqMatched
  <2>. QED BY <2>1, <2>2
<1>. QED BY <1>1 DEF MqMatched

LEMMA MqMatchedSays ==
    ASSUME SvcInv, MqMatched
    PROVE  NoMessageWhileWaiting
<1>1. ASSUME NEW m \in Queues
      PROVE  k.wait[m] # <<>> =>
                mq[m].entry <= Cardinality(Looking(m, {"mqr_sched", "mqr_woken"}))
  <2>1. m \in WaitLists /\ m \in Objects
    BY MqListsOK
  <2>2. \A q, x : Waits(q, x, m) <=> q \in {"mqr_sched", "mqr_woken"} /\ x = m
    BY <2>1, WhoWaits
  <2>. QED BY <2>1, <2>2, MatchedSays DEF MqMatched
<1>. QED BY <1>1 DEF NoMessageWhileWaiting

-----------------------------------------------------------------------------
(* Data queue.                                                             *)

DqLists == UNION {{suspended_pop_list(d), suspended_push_list(d)} : d \in DataQueues}

Pushed(d, v) ==
    /\ Filled(dq[d]) # DqSize
    /\ pushes < DqMaxPush
    /\ pushes' = pushes + 1
    /\ dq' = [dq EXCEPT ![d].queue[dq[d].put_index % DqSize] = v,
                        ![d].put_index = (@ + 1) % IndexMod]

Popped(d) ==
    /\ dq[d].get_index # dq[d].put_index
    /\ dq' = [dq EXCEPT ![d].get_index = (@ + 1) % IndexMod]

\* Having popped, C offers the free space once the queue is at its low water.
PoppedBy(C, d) ==
    /\ Only(C, suspended_pop_list(d))
    /\ \/ Offered(C, suspended_push_list(d))
       \/ Kept(C) /\ ~AtLowWater([dq[d] EXCEPT !.get_index = (@ + 1) % IndexMod])

\* What a step may do with data queue d.
DqDid(d) ==
    \/ \E v, C : Pushed(d, v) /\ Passes(C, suspended_push_list(d), suspended_pop_list(d))
    \/ Popped(d) /\ pushes' = pushes /\ \E C : PoppedBy(C, d)
    \/ /\ Filled(dq[d]) = DqSize /\ UNCHANGED dqVars
       /\ \E t : Enters(t, suspended_push_list(d)) \/ Quits(t, suspended_push_list(d))
    \/ /\ dq[d].get_index = dq[d].put_index /\ UNCHANGED dqVars
       /\ \E t : Enters(t, suspended_pop_list(d)) \/ Quits(t, suspended_pop_list(d))

\* A step that moves no data.
DqStill == UNCHANGED dqVars /\ \E T : Dropped({}, T)

LEMMA DqFits ==
    ASSUME NEW t \in Threads, t # Idle, NEW d \in DataQueues, NEW p \in DqPlaces
    PROVE  Fits(t, p, d)
BY DataQueueAssumption
   DEF Fits, Places, MailPlaces, MqPlaces, EvPlaces, MpPlaces, CpPlaces, DqPlaces

LEMMA DqListsOK ==
    ASSUME NEW d \in DataQueues
    PROVE  /\ suspended_pop_list(d) \in WaitLists /\ suspended_push_list(d) \in WaitLists
           /\ d \in Objects /\ suspended_pop_list(d) # suspended_push_list(d)
           /\ suspended_pop_list(d) \in DqLists /\ suspended_push_list(d) \in DqLists
<1>1. /\ suspended_pop_list(d) \in WaitLists /\ suspended_push_list(d) \in WaitLists
      /\ d \in Objects
  BY DataQueueAssumption
<1>2. suspended_pop_list(d) # suspended_push_list(d)
  BY DEF suspended_pop_list, suspended_push_list
<1>. QED BY <1>1, <1>2 DEF DqLists

LEMMA PushDid ==
    ASSUME SvcInv, NEW t, Calling(t), NEW d \in DataQueues, Only({t}, suspended_push_list(d)),
           NEW v, UNCHANGED <<isr, alive>>, Push(t, d, v) \/ \E time : PushBlock(t, d, v, time)
    PROVE  DqDid(d)
<1>1. t \in Threads /\ t # Idle
  BY DEF Calling
<1>2. CASE Push(t, d, v)
  <2>1. Offered({t}, suspended_pop_list(d))
    BY <1>2, DqListsOK, WakeAndLeaveOK DEF Push
  <2>2. Pushed(d, v)
    BY <1>2 DEF Push, Pushed
  <2>. QED BY <2>1, <2>2 DEF DqDid, Passes
<1>3. ASSUME NEW time, PushBlock(t, d, v, time)
      PROVE  DqDid(d)
  <2>. DEFINE w == suspended_push_list(d)
  <2>1. Fits(t, "dqp_sched", d)
    BY <1>1, DqFits DEF DqPlaces
  <2>2. Waits("dqp_sched", d, w) /\ "dqp_sched" \in SvcSched
    BY DEF Waits, SvcSched
  <2>3. w \in WaitLists
    BY DqListsOK
  <2>4. k' = WaitOn(k, w, t, "FIFO", time) /\ Proceed(t, d, "dqp_sched")
    BY <1>3 DEF PushBlock, Block
  <2>. HIDE DEF w
  <2>5. Joined(t, w)
    BY <2>1, <2>2, <2>3, <2>4, BlockOK
  <2>. QED BY <1>3, <2>5 DEF PushBlock, DqDid, Enters, w
<1>. QED BY <1>2, <1>3

LEMMA PopDid ==
    ASSUME SvcInv, NEW t, Calling(t), NEW d \in DataQueues, Only({t}, suspended_pop_list(d)),
           UNCHANGED <<isr, alive>>, Pop(t, d) \/ \E time : PopBlock(t, d, time)
    PROVE  DqDid(d)
<1>1. /\ t \in Threads /\ t # Idle /\ k.cur = t
      /\ pc[t] \notin SvcSched /\ pc[t] \notin SvcLocked
  BY DEF Calling
<1>2. CASE Pop(t, d)
  <2>. DEFINE w == suspended_push_list(d)
              taken == [dq[d] EXCEPT !.get_index = (@ + 1) % IndexMod]
  <2>1. Popped(d) /\ pushes' = pushes
    BY <1>2 DEF Pop, Popped
  <2>2. /\ Fits(t, "dq_got", d) /\ Fits(t, "dq_got_sched", d)
        /\ "dq_got" \notin SvcLocked /\ "dq_got_sched" \notin SvcLocked
        /\ "dq_got" \notin WaitPlaces /\ "dq_got_sched" \notin WaitPlaces
    BY <1>1, DqFits DEF DqPlaces, WaitPlaces, SvcLocked
  <2>3. w \in WaitLists
    BY DqListsOK
  <2>4. CASE AtLowWater(taken) /\ k.wait[w] # <<>>
    <3>1. k' = rt_ipc_list_resume(k, w) /\ Goes(t, "dq_got_sched", d)
      BY <1>2, <2>4, ProceedGoes DEF Pop
    <3>. HIDE DEF w, taken
    <3>2. Woke({t}, w)
      BY <1>1, <2>2, <2>3, <2>4, <3>1, WakeOK
    <3>. QED BY <2>1, <3>2 DEF DqDid, PoppedBy, Offered, w
  <2>5. CASE ~(AtLowWater(taken) /\ k.wait[w] # <<>>)
    <3>1. k' = k /\ Goes(t, "dq_got", d)
      BY <1>2, <2>5, ProceedGoes DEF Pop
    <3>2. Kept({t})
      BY <1>1, <2>2, <3>1, StepOK
    <3>3. k.wait[w] = <<>> => Waiters(w) = {}
      BY DEF Waiters, ToSet
    <3>. HIDE DEF w
    <3>4. AtLowWater(taken) => Offered({t}, w)
      BY <2>5, <3>2, <3>3 DEF Offered
    <3>. QED BY <2>1, <3>2, <3>4 DEF DqDid, PoppedBy, w
  <2>. QED BY <2>4, <2>5
<1>3. ASSUME NEW time, PopBlock(t, d, time)
      PROVE  DqDid(d)
  <2>. DEFINE w == suspended_pop_list(d)
  <2>1. Fits(t, "dqg_sched", d)
    BY <1>1, DqFits DEF DqPlaces
  <2>2. Waits("dqg_sched", d, w) /\ "dqg_sched" \in SvcSched
    BY DEF Waits, SvcSched
  <2>3. w \in WaitLists
    BY DqListsOK
  <2>4. k' = WaitOn(k, w, t, "FIFO", time) /\ Proceed(t, d, "dqg_sched")
    BY <1>3 DEF PopBlock, Block
  <2>. HIDE DEF w
  <2>5. Joined(t, w)
    BY <2>1, <2>2, <2>3, <2>4, BlockOK
  <2>. QED BY <1>3, <2>5 DEF PopBlock, DqDid, Enters, w
<1>. QED BY <1>2, <1>3

LEMMA DqCallDid ==
    ASSUME SvcInv, NEW t, DqCall(t)
    PROVE  DqStill \/ \E d \in DataQueues : DqDid(d)
<1>1. PICK d \in DataQueues :
         \/ \E v \in Data, time \in DqTimes : rt_data_queue_push(t, d, v, time)
         \/ \E time \in DqTimes : rt_data_queue_pop(t, d, time)
         \/ rt_data_queue_reset(t, d) /\ UNCHANGED <<left, item, dq, pushes>>
  BY DEF DqCall
<1>2. Calls(t, d)
  BY <1>1 DEF rt_data_queue_push, rt_data_queue_pop, rt_data_queue_reset
<1>3. /\ Calling(t) /\ t \in Threads /\ t # Idle /\ pc[t] \notin WaitPlaces
      /\ \A v \in WaitLists : t \notin Takers(v)
  BY <1>2, CallsCalling
<1>4. Only({t}, suspended_push_list(d)) /\ Only({t}, suspended_pop_list(d))
  BY <1>3, OnlyUnserved
<1>5. ASSUME Leave(t), k' = k, UNCHANGED <<isr, alive>>
      PROVE  Kept({t})
  BY <1>3, <1>5, LeaveReturns, LeaveOK
<1>6. ASSUME NEW v \in Data, NEW time \in DqTimes, rt_data_queue_push(t, d, v, time)
      PROVE  DqDid(d)
  <2>1. CASE Push(t, d, v) \/ PushBlock(t, d, v, time)
    BY <1>3, <1>4, <1>6, <2>1, PushDid DEF rt_data_queue_push
  <2>2. CASE Filled(dq[d]) = DqSize /\ Leave(t) /\ UNCHANGED <<k, dq, pushes>>
    <3>1. Kept({t})
      BY <1>5, <1>6, <2>2 DEF rt_data_queue_push
    <3>. QED BY <1>4, <2>2, <3>1 DEF DqDid, Quits, dqVars
  <2>. QED BY <1>6, <2>1, <2>2 DEF rt_data_queue_push
<1>7. ASSUME NEW time \in DqTimes, rt_data_queue_pop(t, d, time)
      PROVE  DqDid(d)
  <2>1. CASE Pop(t, d) \/ PopBlock(t, d, time)
    BY <1>3, <1>4, <1>7, <2>1, PopDid DEF rt_data_queue_pop
  <2>2. CASE dq[d].get_index = dq[d].put_index /\ Leave(t) /\ UNCHANGED <<k, dq, pushes>>
    <3>1. Kept({t})
      BY <1>5, <1>7, <2>2 DEF rt_data_queue_pop
    <3>. QED BY <1>4, <2>2, <3>1 DEF DqDid, Quits, dqVars
  <2>. QED BY <1>7, <2>1, <2>2 DEF rt_data_queue_pop
<1>8. CASE rt_data_queue_reset(t, d) /\ UNCHANGED dqVars
  <2>1. /\ Fits(t, "dqx_test", d) /\ "dqx_test" \in SvcLocked /\ "dqx_test" \notin WaitPlaces
    BY <1>3, DqFits DEF DqPlaces, SvcLocked, WaitPlaces
  <2>2. k.cur = t /\ pc[t] \notin SvcSched /\ pc[t] \notin SvcLocked
    BY <1>3 DEF Calling
  <2>3. k.lock = 0
    BY <2>2 DEF SvcInv, SvcKernel, KernelInv
  <2>4. k' = [k EXCEPT !.lock = 1] /\ Goes(t, "dqx_test", d)
    BY <1>8, <2>3, ProceedGoes DEF rt_data_queue_reset
  <2>5. Kept({t})
    BY <1>3, <2>1, <2>2, <2>4, LockOK
  <2>6. Kept({})
    BY <1>3, <2>5, KeptNone
  <2>. QED BY <1>8, <2>6, KeptDrops DEF DqStill
<1>. QED BY <1>1, <1>6, <1>7, <1>8 DEF dqVars

LEMMA DqWokenDid ==
    ASSUME SvcInv, NEW t, PushWoken(t) \/ PopWoken(t) \/ PopReturn(t)
    PROVE  DqStill \/ \E d \in DataQueues : DqDid(d)
<1>. DEFINE d == arg[t]
<1>1. PICK p \in {"dqp_woken", "dqg_woken", "dq_got"} :
         At(t, p) /\ (p = "dqp_woken" => PushWoken(t)) /\ (p = "dqg_woken" => PopWoken(t))
                  /\ (p = "dq_got" => PopReturn(t))
  BY DEF PushWoken, PopWoken, PopReturn, At
<1>2. /\ p # "run" /\ p \notin SvcSched /\ p \notin SvcLocked
      /\ p \in DqPlaces \ {"dqx_sched"} /\ (p = "dq_got" => p \notin WaitPlaces)
  BY DEF SvcSched, SvcLocked, DqPlaces, WaitPlaces
<1>3. Calling(t) /\ t \in Threads /\ pc[t] = p /\ Fits(t, p, arg[t])
  BY <1>1, <1>2, AtCalling
<1>4. d \in DataQueues
  BY <1>2, <1>3 DEF Fits
<1>5. UNCHANGED <<isr, alive>>
  BY <1>1 DEF PushWoken, PopWoken, PopReturn
<1>6. suspended_push_list(d) \in WaitLists /\ suspended_pop_list(d) \in WaitLists
  BY <1>4, DqListsOK
<1>7. CASE Failed(t) /\ UNCHANGED dqVars
  <2>1. Kept({})
    BY <1>3, <1>5, <1>7, FailedOK
  <2>. QED BY <1>7, <2>1, KeptDrops DEF DqStill
<1>8. CASE p = "dqp_woken" /\ ~(Failed(t) /\ UNCHANGED dqVars)
  <2>1. Push(t, d, item[t]) \/ \E time : PushBlock(t, d, item[t], time)
    BY <1>1, <1>8 DEF PushWoken
  <2>2. Waits(pc[t], arg[t], suspended_push_list(d))
    BY <1>3, <1>4, <1>8 DEF Waits
  <2>3. Only({t}, suspended_push_list(d))
    BY <1>3, <1>6, <2>2, OnlyOwn
  <2>. QED BY <1>3, <1>4, <1>5, <2>1, <2>3, PushDid
<1>9. CASE p = "dqg_woken" /\ ~(Failed(t) /\ UNCHANGED dqVars)
  <2>1. Pop(t, d) \/ \E time : PopBlock(t, d, time)
    BY <1>1, <1>9 DEF PopWoken
  <2>2. Waits(pc[t], arg[t], suspended_pop_list(d))
    BY <1>3, <1>4, <1>9 DEF Waits
  <2>3. Only({t}, suspended_pop_list(d))
    BY <1>3, <1>6, <2>2, OnlyOwn
  <2>. QED BY <1>3, <1>4, <1>5, <2>1, <2>3, PopDid
<1>10. CASE p = "dq_got"
  <2>1. UNCHANGED <<k, isr, alive, dq, pushes>> /\ Return(t)
    BY <1>1, <1>10, LeaveReturns DEF PopReturn
  <2>2. Kept({t})
    BY <1>3, <2>1, LeaveOK
  <2>3. Kept({})
    BY <1>2, <1>3, <1>10, <2>2, NotTaker, KeptNone
  <2>. QED BY <2>1, <2>3, KeptDrops DEF DqStill, dqVars
<1>. QED BY <1>1, <1>7, <1>8, <1>9, <1>10

LEMMA DqMoveStill ==
    ASSUME SvcInv, NEW t, UNCHANGED dqVars,
           \/ Resched(t, "dqp_sched", "dqp_woken")
           \/ Resched(t, "dqg_sched", "dqg_woken")
           \/ Resched(t, "dq_got_sched", "dq_got")
           \/ DqResetSteps(t)
    PROVE  DqStill
<1>. DEFINE P == DqPlaces \ {"dqx_sched"}
<1>1. ASSUME NEW p \in P, Fits(t, p, arg[t]), NEW q \in P, t \in Threads
      PROVE  Fits(t, q, arg[t]) /\ arg[t] \in DataQueues /\ t # Idle
  <2>1. t # Idle /\ arg[t] \in DataQueues
    BY <1>1 DEF Fits, DqPlaces
  <2>. QED BY <1>1, <2>1, DqFits
<1>2. ASSUME NEW p, At(t, p)
      PROVE  t \in Threads /\ Fits(t, p, arg[t]) /\ pc[t] = p /\ k.cur = t
  BY <1>2, AtFits
<1>3. /\ {"dqp_sched", "dqp_woken", "dqg_sched", "dqg_woken", "dq_got", "dq_got_sched"}
             \subseteq P
      /\ SvcLocked \subseteq P
      /\ \A p \in SvcLocked : p \notin SvcSched /\ p \notin WaitPlaces
      /\ \A p \in {"dqp_sched", "dqp_woken", "dqg_sched", "dqg_woken", "dq_got",
                   "dq_got_sched"} : p \notin SvcLocked
  BY DEF DqPlaces, SvcLocked, SvcSched, WaitPlaces
<1>4. ASSUME NEW from, NEW to, Resched(t, from, to), from \in P, to \in P,
             from \notin SvcLocked, to \notin SvcLocked,
             \A v : Waits(to, arg[t], v) <=> Waits(from, arg[t], v)
      PROVE  Kept({})
  <2>1. t \in Threads
    BY <1>2, <1>4 DEF Resched
  <2>. HIDE DEF P
  <2>. QED BY <1>1, <1>4, <2>1, ReschedStepOK
<1>5. CASE \/ Resched(t, "dqp_sched", "dqp_woken")
           \/ Resched(t, "dqg_sched", "dqg_woken")
           \/ Resched(t, "dq_got_sched", "dq_got")
  <2>1. \A v : /\ Waits("dqp_sched", arg[t], v) <=> Waits("dqp_woken", arg[t], v)
               /\ Waits("dqg_sched", arg[t], v) <=> Waits("dqg_woken", arg[t], v)
               /\ Waits("dq_got_sched", arg[t], v) <=> Waits("dq_got", arg[t], v)
    BY DEF Waits
  <2>. HIDE DEF P
  <2>2. Kept({})
    BY <1>3, <1>4, <1>5, <2>1
  <2>. QED BY <2>2, KeptDrops DEF DqStill
<1>6. ASSUME NEW test \in SvcLocked, NEW wake \in SvcLocked, NEW done \in SvcLocked, NEW w,
             ResumeAllTest(t, w, test, wake, done)
      PROVE  DqStill
  <2>1. t \in Threads
    BY <1>2, <1>6 DEF ResumeAllTest
  <2>. HIDE DEF P
  <2>2. Kept({})
    BY <1>1, <1>3, <1>6, <2>1, ResumeAllTestOK
  <2>. QED BY <2>2, KeptDrops DEF DqStill
<1>7. ASSUME NEW test \in SvcLocked, NEW wake \in SvcLocked, NEW w,
             arg[t] \in DataQueues => w \in WaitLists, ResumeAllWake(t, w, wake, test)
      PROVE  DqStill
  <2>1. t \in Threads /\ Fits(t, wake, arg[t])
    BY <1>2, <1>7 DEF ResumeAllWake
  <2>. HIDE DEF P
  <2>2. w \in WaitLists
    BY <1>1, <1>3, <1>7, <2>1
  <2>3. \E T : Dropped({}, T)
    BY <1>1, <1>3, <1>7, <2>1, <2>2, ResumeAllWakeOK
  <2>. QED BY <2>3 DEF DqStill
<1>8. CASE ResetUnlock(t)
  <2>1. /\ t \in Threads /\ Fits(t, "dqx_exit", arg[t]) /\ pc[t] = "dqx_exit" /\ k.cur = t
        /\ "dqx_exit" \in SvcLocked
    BY <1>2, <1>8 DEF ResetUnlock, SvcLocked
  <2>2. t # Idle
    BY <1>1, <1>3, <2>1
  <2>3. None \in Objects \union {None}
    OBVIOUS
  <2>4. Fits(t, "dqx_sched", None) /\ "dqx_sched" \notin WaitPlaces /\ "dqx_sched" \notin SvcLocked
    BY <2>1, <2>2, <2>3, CommonFits
  <2>5. k.lock = 1
    BY <2>1 DEF SvcInv, SvcKernel, KernelInv
  <2>6. k' = [k EXCEPT !.lock = 0] /\ Goes(t, "dqx_sched", None)
    BY <1>8, <2>5, ProceedGoes DEF ResetUnlock
  <2>7. pc[t] \notin SvcSched /\ pc[t] \notin WaitPlaces
    BY <1>3, <2>1
  <2>8. Kept({t})
    BY <2>1, <2>4, <2>6, <2>7, LockOK
  <2>9. Kept({})
    BY <2>7, <2>8, NotTaker, KeptNone
  <2>. QED BY <2>9, KeptDrops DEF DqStill
<1>9. CASE Resched(t, "dqx_sched", "ret_sched")
  <2>1. t \in Threads /\ Fits(t, "dqx_sched", arg[t]) /\ pc[t] = "dqx_sched"
    BY <1>2, <1>9 DEF Resched
  <2>2. t # Idle /\ arg[t] \in Objects \union {None}
    BY <2>1 DEF Fits
  <2>3. Fits(t, "ret_sched", arg[t])
    BY <2>1, <2>2, CommonFits
  <2>4. \A v : Waits("ret_sched", arg[t], v) <=> Waits("dqx_sched", arg[t], v)
    BY DEF Waits
  <2>5. "ret_sched" \in SvcLocked <=> "dqx_sched" \in SvcLocked
    BY DEF SvcLocked
  <2>6. Kept({})
    BY <1>9, <2>3, <2>4, <2>5, ReschedStepOK
  <2>. QED BY <2>6, KeptDrops DEF DqStill
<1>10. ASSUME arg[t] \in DataQueues
       PROVE  suspended_pop_list(arg[t]) \in WaitLists /\ suspended_push_list(arg[t]) \in WaitLists
  BY <1>10, DqListsOK
<1>11. {"dqx_test", "dqx_wake", "dqx_test2", "dqx_wake2", "dqx_exit"} \subseteq SvcLocked
  BY DEF SvcLocked
<1>. QED BY <1>5, <1>6, <1>7, <1>8, <1>9, <1>10, <1>11 DEF DqResetSteps

LEMMA DqNextDid ==
    ASSUME SvcInv, DqNext
    PROVE  DqStill \/ \E d \in DataQueues : DqDid(d)
<1>1. CASE DqIsr
  <2>1. PICK d \in DataQueues, v \in Data : IsrPush(d, v)
    BY <1>1 DEF DqIsr
  <2>2. Offered({}, suspended_pop_list(d))
    BY <2>1, DqListsOK, IsrWakeAnyOK DEF IsrPush
  <2>3. Pushed(d, v)
    BY <2>1 DEF IsrPush, Pushed
  <2>. QED BY <2>2, <2>3, OnlyNobody DEF DqDid, Passes
<1>. QED BY <1>1, DqCallDid, DqWokenDid, DqMoveStill DEF DqNext, DqStep, dqVars

LEMMA DqActs ==
    ASSUME NEW d \in DataQueues, DqDid(d), NEW A,
           suspended_pop_list(d) \in A, suspended_push_list(d) \in A
    PROVE  Acts(A)
<1>1. ASSUME NEW C, PoppedBy(C, d)
      PROVE  Acts(A)
  <2>1. CASE Offered(C, suspended_push_list(d))
    BY <1>1, <2>1 DEF PoppedBy, Passes, Acts
  <2>2. CASE Kept(C) /\ C = {}
    BY <2>2, KeptDrops DEF Acts
  <2>3. ASSUME NEW t, Kept(C), C = {t}
        PROVE  Acts(A)
    BY <1>1, <2>3 DEF PoppedBy, Quits, Acts
  <2>. QED BY <1>1, <2>1, <2>2, <2>3 DEF PoppedBy, Only
<1>. QED BY <1>1 DEF DqDid, Acts

\* How many items a queue holds, across the wrap of its indices.
DqFill(q) ==
    IF q.put_index >= q.get_index
    THEN q.put_index - q.get_index
    ELSE q.put_index - q.get_index + IndexMod

DqBlock(S) == [queue : [0 .. (DqSize - 1) -> S], put_index : Index, get_index : Index]

\* The control blocks, whatever the data is; no queue holds more than was pushed.
DqShape ==
    /\ pushes \in 0 .. DqMaxPush
    /\ \E S : dq \in [DataQueues -> DqBlock(S)]
    /\ \A d \in DataQueues : DqFill(dq[d]) <= pushes

\* Both directions of queue d are matched, with n items: a popper for each of
\* them, and a pusher for each that is missing at the low water mark.
DqPair(d, n) ==
    Matched(n, suspended_pop_list(d)) /\ Matched(DqLwm + 1 - n, suspended_push_list(d))

DqInv == DqShape /\ \A d \in DataQueues : DqPair(d, DqFill(dq[d]))

\* Indices that wrap around.
LEMMA WrapNext ==
    ASSUME NEW M \in Nat \ {0}, NEW i \in 0 .. (M - 1)
    PROVE  (i + 1) % M = (IF i + 1 = M THEN 0 ELSE i + 1) /\ (i + 1) % M \in 0 .. (M - 1)
OBVIOUS

LEMMA WrapDiff ==
    ASSUME NEW M \in Nat \ {0}, NEW i \in 0 .. (M - 1), NEW j \in 0 .. (M - 1)
    PROVE  (i - j) % M = IF i >= j THEN i - j ELSE i - j + M
OBVIOUS

LEMMA FillCounts ==
    ASSUME DqShape, NEW d \in DataQueues
    PROVE  Len(DataIn(d)) = DqFill(dq[d]) /\ DqFill(dq[d]) \in Nat
<1>1. PICK S : dq \in [DataQueues -> DqBlock(S)]
  BY DEF DqShape
<1>2. dq[d].put_index \in Index /\ dq[d].get_index \in Index /\ IndexMod \in Nat \ {0}
  BY <1>1, DataQueueAssumption DEF DqBlock, Index
<1>3. (dq[d].put_index - dq[d].get_index) % IndexMod = DqFill(dq[d])
  BY <1>2, WrapDiff DEF Index, DqFill
<1>4. DqFill(dq[d]) \in Nat
  BY <1>2 DEF Index, DqFill
<1>. QED BY <1>3, <1>4 DEF DataIn

\* The invariant is what the property says.
LEMMA DqInvSays ==
    ASSUME SvcInv, DqInv
    PROVE  NoDataWhileWaiting
<1>. SUFFICES ASSUME NEW d \in DataQueues
              PROVE  /\ k.wait[suspended_pop_list(d)] # <<>> =>
                           Len(DataIn(d)) <= Cardinality(Looking(d, {"dqg_sched", "dqg_woken"}))
                     /\ k.wait[suspended_push_list(d)] # <<>> =>
                           DqLwm + 1 - Len(DataIn(d))
                              <= Cardinality(Looking(d, {"dqp_sched", "dqp_woken"}))
  BY DEF NoDataWhileWaiting
<1>. DEFINE v == suspended_pop_list(d)
            w == suspended_push_list(d)
            n == Len(DataIn(d))
<1>1. v \in WaitLists /\ w \in WaitLists
  BY DqListsOK
<1>2. \A q, x : Waits(q, x, v) <=> q \in {"dqg_sched", "dqg_woken"} /\ x = d
  BY WhoWaits
<1>3. \A q, x : Waits(q, x, w) <=> q \in {"dqp_sched", "dqp_woken"} /\ x = d
  BY WhoWaits
<1>4. Matched(n, v) /\ Matched(DqLwm + 1 - n, w)
  BY FillCounts DEF DqInv, DqPair
<1>. HIDE DEF v, w, n
<1>5. k.wait[v] # <<>> => n <= Cardinality(Looking(d, {"dqg_sched", "dqg_woken"}))
  BY <1>1, <1>2, <1>4, MatchedSays
<1>6. k.wait[w] # <<>> => DqLwm + 1 - n <= Cardinality(Looking(d, {"dqp_sched", "dqp_woken"}))
  BY <1>1, <1>3, <1>4, MatchedSays
<1>. QED BY <1>5, <1>6 DEF v, w, n

LEMMA DqInit_Inv ==
    ASSUME Init
    PROVE  DqShape
<1>1. 0 \in 0 .. DqMaxPush /\ DqStart \in Index
  BY DataQueueAssumption DEF Index
<1>2. dq \in [DataQueues -> DqBlock({None})] /\ pushes = 0
  BY <1>1 DEF Init, DqInit, DqBlock
<1>3. \A d \in DataQueues : DqFill(dq[d]) <= 0
  BY <1>1, DataQueueAssumption DEF Init, DqInit, DqFill, Index
<1>. QED BY <1>1, <1>2, <1>3 DEF DqShape

\* The queues after a step on queue d.
DqCounts(d, n) ==
    /\ DqShape'
    /\ DqFill(dq'[d]) = n
    /\ \A c \in DataQueues : c # d => dq'[c] = dq[c]

LEMMA PushedIs ==
    ASSUME NEW S, dq \in [DataQueues -> DqBlock(S)], NEW d \in DataQueues, NEW v, Pushed(d, v)
    PROVE  LET old == dq[d]
           IN  dq' = [dq EXCEPT ![d] =
                        [queue |-> [old.queue EXCEPT ![old.put_index % DqSize] = v],
                         put_index |-> (old.put_index + 1) % IndexMod,
                         get_index |-> old.get_index]]
<1>. DEFINE old == dq[d]
<1>1. old = [queue |-> old.queue, put_index |-> old.put_index, get_index |-> old.get_index]
  BY DEF DqBlock
<1>2. PICK i, j : i = old.put_index % DqSize /\ j = (old.put_index + 1) % IndexMod
  OBVIOUS
<1>3. dq' = [dq EXCEPT ![d].queue[i] = v, ![d].put_index = j]
  BY <1>2 DEF Pushed
<1>4. dq' = [dq EXCEPT ![d] = [queue |-> [old.queue EXCEPT ![i] = v], put_index |-> j,
                               get_index |-> old.get_index]]
  <2>. DEFINE one == [old EXCEPT !.queue[i] = v]
              two == [one EXCEPT !.put_index = j]
  <2>1. dq' = [dq EXCEPT ![d] = two]
    BY <1>3
  <2>2. one = [queue |-> [old.queue EXCEPT ![i] = v], put_index |-> old.put_index,
               get_index |-> old.get_index]
    BY <1>1
  <2>. HIDE DEF one
  <2>3. two = [queue |-> [old.queue EXCEPT ![i] = v], put_index |-> j,
               get_index |-> old.get_index]
    BY <2>2
  <2>. QED BY <2>1, <2>3
<1>. QED BY <1>2, <1>4

LEMMA PushedCounts ==
    ASSUME DqShape, DqMaxPush < IndexMod, NEW d \in DataQueues, NEW v, Pushed(d, v)
    PROVE  DqCounts(d, DqFill(dq[d]) + 1)
<1>1. PICK S : dq \in [DataQueues -> DqBlock(S)]
  BY DEF DqShape
<1>. DEFINE X == S \union {v}
            old == dq[d]
            new == [queue |-> [old.queue EXCEPT ![old.put_index % DqSize] = v],
                    put_index |-> (old.put_index + 1) % IndexMod, get_index |-> old.get_index]
<1>2. dq' = [dq EXCEPT ![d] = new]
  BY <1>1, PushedIs
<1>3. /\ old.put_index \in Index /\ old.get_index \in Index /\ IndexMod \in Nat \ {0}
      /\ DqSize \in Nat \ {0}
  BY <1>1, DataQueueAssumption DEF DqBlock, Index
<1>4. (old.put_index + 1) % IndexMod =
         IF old.put_index + 1 = IndexMod THEN 0 ELSE old.put_index + 1
  BY <1>3, WrapNext DEF Index
<1>5. new \in DqBlock(X)
  <2>1. old.queue \in [0 .. (DqSize - 1) -> X]
    BY <1>1 DEF DqBlock
  <2>2. [old.queue EXCEPT ![old.put_index % DqSize] = v] \in [0 .. (DqSize - 1) -> X]
    BY <2>1
  <2>3. (old.put_index + 1) % IndexMod \in Index
    BY <1>3, <1>4 DEF Index
  <2>. QED BY <1>3, <2>2, <2>3 DEF DqBlock
<1>6. dq \in [DataQueues -> DqBlock(X)]
  <2>1. DqBlock(S) \subseteq DqBlock(X)
    BY DEF DqBlock
  <2>. HIDE DEF X
  <2>. QED BY <1>1, <2>1
<1>7. DqFill(old) <= pushes /\ pushes < DqMaxPush /\ pushes \in Nat /\ pushes' = pushes + 1
      /\ DqMaxPush \in Nat
  BY DataQueueAssumption DEF DqShape, Pushed
<1>8. DqFill(new) = DqFill(old) + 1
  BY <1>3, <1>4, <1>7 DEF DqFill, Index
<1>. HIDE DEF X, new
<1>9. dq' \in [DataQueues -> DqBlock(X)]
  BY <1>2, <1>5, <1>6
<1>10. dq'[d] = new /\ \A c \in DataQueues : c # d => dq'[c] = dq[c]
  BY <1>1, <1>2
<1>11. ASSUME NEW c \in DataQueues
       PROVE  DqFill(dq'[c]) <= pushes'
  <2>1. CASE c = d
    BY <1>7, <1>8, <1>10, <2>1, FillCounts
  <2>2. CASE c # d
    BY <1>7, <1>10, <2>2, FillCounts DEF DqShape
  <2>. QED BY <2>1, <2>2
<1>12. pushes' \in 0 .. DqMaxPush
  BY <1>7
<1>. QED BY <1>8, <1>9, <1>10, <1>11, <1>12 DEF DqCounts, DqShape

LEMMA PoppedCounts ==
    ASSUME DqShape, NEW d \in DataQueues, Popped(d), pushes' = pushes
    PROVE  /\ DqCounts(d, DqFill(dq[d]) - 1)
           /\ ~AtLowWater([dq[d] EXCEPT !.get_index = (@ + 1) % IndexMod]) =>
                 DqFill(dq[d]) - 1 > DqLwm
<1>1. PICK S : dq \in [DataQueues -> DqBlock(S)]
  BY DEF DqShape
<1>. DEFINE old == dq[d]
            new == [old EXCEPT !.get_index = (@ + 1) % IndexMod]
<1>2. dq' = [dq EXCEPT ![d] = new]
  BY <1>1 DEF Popped
<1>3. /\ old \in DqBlock(S) /\ old.get_index # old.put_index
      /\ old.put_index \in Index /\ old.get_index \in Index /\ IndexMod \in Nat \ {0}
      /\ DqLwm \in Nat
  BY <1>1, DataQueueAssumption DEF DqBlock, Index, Popped
<1>4. (old.get_index + 1) % IndexMod =
         IF old.get_index + 1 = IndexMod THEN 0 ELSE old.get_index + 1
  BY <1>3, WrapNext DEF Index
<1>5. (old.get_index + 1) % IndexMod \in Index
  BY <1>3, <1>4 DEF Index
<1>6. new \in DqBlock(S) /\ new.put_index = old.put_index
      /\ new.get_index = (old.get_index + 1) % IndexMod
  BY <1>3, <1>5 DEF DqBlock
<1>. HIDE DEF new
<1>7. DqFill(new) = DqFill(old) - 1 /\ DqFill(old) \in Nat
  BY <1>3, <1>4, <1>6 DEF DqFill, Index
<1>8. ~AtLowWater(new) => DqFill(old) - 1 > DqLwm
  BY <1>3, <1>4, <1>6, <1>7 DEF DqFill, Index, AtLowWater, Filled
<1>9. dq' \in [DataQueues -> DqBlock(S)]
  BY <1>1, <1>2, <1>6
<1>10. dq'[d] = new /\ \A c \in DataQueues : c # d => dq'[c] = dq[c]
  BY <1>1, <1>2
<1>11. ASSUME NEW c \in DataQueues
       PROVE  DqFill(dq'[c]) <= pushes'
  BY <1>7, <1>10 DEF DqShape
<1>. QED BY <1>7, <1>8, <1>9, <1>10, <1>11 DEF DqCounts, DqShape, new

\* The other data queues are not touched.
LEMMA DqOthers ==
    ASSUME DqInv, NEW A, Foot(A), NEW c \in DataQueues,
           suspended_pop_list(c) \notin A, suspended_push_list(c) \notin A,
           NEW n, n = DqFill(dq[c])
    PROVE  DqPair(c, n)'
<1>. DEFINE v == suspended_pop_list(c)
            w == suspended_push_list(c)
<1>1. v \in WaitLists \ A /\ w \in WaitLists \ A
  BY DqListsOK
<1>2. /\ Waiters(v)' \subseteq Waiters(v) /\ Takers(v)' = Takers(v)
      /\ Waiters(w)' \subseteq Waiters(w) /\ Takers(w)' = Takers(w)
  BY <1>1 DEF Foot
<1>3. Matched(n, v) /\ Matched(DqLwm + 1 - n, w)
  BY DEF DqInv, DqPair
<1>. HIDE DEF v, w
<1>4. Matched(n, v)' /\ Matched(DqLwm + 1 - n, w)'
  BY <1>2, <1>3, MatchedStill
<1>. QED BY <1>4 DEF DqPair, v, w

LEMMA DqKeep ==
    ASSUME SvcInv, DqInv, DqMaxPush < IndexMod, NEW d \in DataQueues, DqDid(d)
    PROVE  DqInv'
<1>. DEFINE v == suspended_pop_list(d)
            w == suspended_push_list(d)
            A == {v, w}
<1>1. v \in WaitLists /\ w \in WaitLists /\ v # w
  BY DqListsOK
<1>2. DqShape /\ DqLwm \in Nat /\ DqSize \in Nat /\ DqLwm < DqSize
  BY DataQueueAssumption DEF DqInv
<1>3. PICK n : n = DqFill(dq[d])
  OBVIOUS
<1>4. n \in Nat /\ n \in Int /\ DqLwm + 1 - n \in Int
  BY <1>2, <1>3, FillCounts
<1>5. Matched(n, v) /\ Matched(DqLwm + 1 - n, w)
  BY <1>3 DEF DqInv, DqPair
<1>6. Foot(A)
  <2>. HIDE DEF A
  <2>1. suspended_pop_list(d) \in A /\ suspended_push_list(d) \in A
    BY DEF A
  <2>. QED BY <2>1, DqActs, FootOK
<1>7. ASSUME NEW c \in DataQueues, c # d, NEW m, m = DqFill(dq[c])
      PROVE  DqPair(c, m)'
  <2>1. suspended_pop_list(c) \notin A /\ suspended_push_list(c) \notin A
    BY <1>7 DEF suspended_pop_list, suspended_push_list
  <2>. HIDE DEF A
  <2>. QED BY <1>6, <1>7, <2>1, DqOthers
<1>. HIDE DEF A
<1>8. ASSUME NEW m, DqCounts(d, m), Matched(m, v)', Matched(DqLwm + 1 - m, w)'
      PROVE  DqInv'
  <2>1. DqPair(d, m)'
    BY <1>8 DEF DqPair
  <2>2. ASSUME NEW c \in DataQueues
        PROVE  DqPair(c, DqFill(dq[c]))'
    <3>1. CASE c = d
      BY <1>8, <2>1, <3>1 DEF DqCounts, DqPair
    <3>2. CASE c # d
      <4>1. PICK x : x = DqFill(dq[c])
        OBVIOUS
      <4>2. DqPair(c, x)' /\ dq'[c] = dq[c]
        BY <1>7, <1>8, <3>2, <4>1 DEF DqCounts
      <4>. QED BY <4>1, <4>2 DEF DqPair
    <3>. QED BY <3>1, <3>2
  <2>. QED BY <1>8, <2>2 DEF DqInv, DqCounts
<1>9. ASSUME UNCHANGED dqVars, Matched(n, v)', Matched(DqLwm + 1 - n, w)'
      PROVE  DqInv'
  <2>1. DqCounts(d, n)
    BY <1>2, <1>3, <1>9 DEF DqCounts, DqShape, dqVars
  <2>. QED BY <1>8, <1>9, <2>1
<1>. HIDE DEF v, w
<1>10. ASSUME NEW x, NEW C, Pushed(d, x), Passes(C, w, v)
       PROVE  DqInv'
  <2>1. DqCounts(d, n + 1)
    BY <1>2, <1>3, <1>10, PushedCounts
  <2>2. /\ n + 1 \in Int /\ n + 1 <= n + 1 /\ DqLwm + 1 - (n + 1) \in Int
        /\ DqLwm + 1 - (n + 1) <= (DqLwm + 1 - n) - 1
    BY <1>2, <1>4
  <2>3. Matched(n + 1, v)'
    BY <1>1, <1>4, <1>5, <1>10, <2>2, MatchedMore
  <2>4. Matched(DqLwm + 1 - (n + 1), w)'
    BY <1>1, <1>4, <1>5, <1>10, <2>2, MatchedLess
  <2>. QED BY <1>8, <2>1, <2>3, <2>4
<1>11. ASSUME NEW C, Popped(d), pushes' = pushes, PoppedBy(C, d)
       PROVE  DqInv'
  <2>1. DqCounts(d, n - 1)
    BY <1>2, <1>3, <1>11, PoppedCounts
  <2>2. /\ n - 1 \in Int /\ n - 1 <= n - 1 /\ DqLwm + 1 - (n - 1) \in Int
        /\ DqLwm + 1 - (n - 1) <= (DqLwm + 1 - n) + 1
    BY <1>2, <1>4
  <2>3. Only(C, v)
    BY <1>11 DEF PoppedBy, v
  <2>4. CASE Offered(C, w)
    <3>1. Passes(C, v, w)
      BY <2>3, <2>4 DEF Passes
    <3>2. Matched(n - 1, v)'
      BY <1>1, <1>4, <1>5, <2>2, <3>1, MatchedLess
    <3>3. Matched(DqLwm + 1 - (n - 1), w)'
      BY <1>1, <1>4, <1>5, <2>2, <3>1, MatchedMore
    <3>. QED BY <1>8, <2>1, <3>2, <3>3
  <2>5. CASE Kept(C) /\ ~AtLowWater([dq[d] EXCEPT !.get_index = (@ + 1) % IndexMod])
    <3>1. n - 1 > DqLwm
      BY <1>2, <1>3, <1>11, <2>5, PoppedCounts
    <3>2. DqLwm + 1 - (n - 1) <= 0
      BY <1>2, <1>4, <3>1
    <3>3. Matched(DqLwm + 1 - (n - 1), w)'
      BY <2>2, <3>2, MatchedNone
    <3>4. Waiters(v)' = Waiters(v) /\ Takers(v)' = Takers(v) \ C
      BY <1>1, <2>5 DEF Kept
    <3>5. /\ Cardinality(Takers(v)) \in Nat /\ Cardinality(Takers(v) \ C) \in Nat
          /\ Cardinality(Takers(v)) - 1 <= Cardinality(Takers(v) \ C)
      BY <1>1, <2>3, CountLess
    <3>6. Matched(n - 1, v)'
      BY <1>4, <1>5, <3>4, <3>5 DEF Matched
    <3>. QED BY <1>8, <2>1, <3>3, <3>6
  <2>. QED BY <1>11, <2>4, <2>5 DEF PoppedBy, w
<1>12. ASSUME NEW t, Filled(dq[d]) = DqSize, UNCHANGED dqVars, Enters(t, w) \/ Quits(t, w)
       PROVE  DqInv'
  <2>1. n = DqSize
    <3>1. PICK S : dq \in [DataQueues -> DqBlock(S)]
      BY <1>2 DEF DqShape
    <3>2. dq[d].put_index \in Int /\ dq[d].get_index \in Int
      BY <3>1, DataQueueAssumption DEF DqBlock, Index
    <3>. QED BY <1>2, <1>3, <1>12, <3>2 DEF Filled, DqFill
  <2>2. Matched(DqLwm + 1 - n, w)'
    <3>1. DqLwm + 1 - n <= 0
      BY <1>2, <2>1
    <3>. QED BY <1>4, <3>1, MatchedNone
  <2>3. Waiters(v)' \subseteq Waiters(v) /\ Takers(v)' = Takers(v)
    BY <1>1, <1>12 DEF Enters, Quits, Only, Joined, Kept
  <2>4. Matched(n, v)'
    BY <1>5, <2>3, MatchedStill
  <2>. QED BY <1>9, <1>12, <2>2, <2>4
<1>13. ASSUME NEW t, dq[d].get_index = dq[d].put_index, UNCHANGED dqVars,
              Enters(t, v) \/ Quits(t, v)
       PROVE  DqInv'
  <2>1. n = 0
    <3>1. PICK S : dq \in [DataQueues -> DqBlock(S)]
      BY <1>2 DEF DqShape
    <3>2. dq[d].put_index \in Int
      BY <3>1, DataQueueAssumption DEF DqBlock, Index
    <3>. QED BY <1>3, <1>13, <3>2 DEF DqFill
  <2>2. n <= 0
    BY <2>1
  <2>3. Matched(n, v)'
    BY <1>4, <2>2, MatchedNone
  <2>4. Waiters(w)' \subseteq Waiters(w) /\ Takers(w)' = Takers(w)
    BY <1>1, <1>13 DEF Enters, Quits, Only, Joined, Kept
  <2>5. Matched(DqLwm + 1 - n, w)'
    BY <1>5, <2>4, MatchedStill
  <2>. QED BY <1>9, <1>13, <2>3, <2>5
<1>. QED BY <1>10, <1>11, <1>12, <1>13 DEF DqDid, v, w

\* Steps of other services, and the tick.
LEMMA DqFrame ==
    ASSUME DqInv, NEW A, Foot(A), A \intersect DqLists = {}, UNCHANGED dqVars
    PROVE  DqInv'
<1>1. ASSUME NEW c \in DataQueues
      PROVE  DqPair(c, DqFill(dq[c]))'
  <2>1. suspended_pop_list(c) \notin A /\ suspended_push_list(c) \notin A
    BY DqListsOK
  <2>2. PICK m : m = DqFill(dq[c])
    OBVIOUS
  <2>3. DqPair(c, m)'
    BY <2>1, <2>2, DqOthers
  <2>. QED BY <2>2, <2>3 DEF DqPair, dqVars
<1>. QED BY <1>1 DEF DqInv, DqShape, dqVars

-----------------------------------------------------------------------------
(* The mails in the ring as a sequence.                                    *)

LEMMA WrapSum ==
    ASSUME NEW M \in Nat \ {0}, NEW i \in 0 .. (M - 1), NEW j \in 0 .. M
    PROVE  /\ (i + j) % M = (IF i + j < M THEN i + j ELSE i + j - M)
           /\ (i + j) % M \in 0 .. (M - 1)
OBVIOUS

\* The next mail is written behind the last one.
MailOrder(b) == mb[b].in_offset = (mb[b].out_offset + mb[b].entry) % MbSize

\* The mailboxes other than b are as before.
MailsBut(b) ==
    \A c \in Mailboxes : c # b => MailsIn(c)' = MailsIn(c) /\ (MailOrder(c) => MailOrder(c)')

LEMMA MailsButOK ==
    ASSUME NEW b, \A c \in Mailboxes : c # b => mb'[c] = mb[c]
    PROVE  MailsBut(b)
BY DEF MailsBut, MailsIn, MailOrder

LEMMA MailsSame ==
    ASSUME mb' = mb
    PROVE  /\ \A c \in Mailboxes : MailsIn(c)' = MailsIn(c)
           /\ \A c \in Mailboxes : MailOrder(c) => MailOrder(c)'
BY DEF MailsIn, MailOrder

LEMMA DepositOrder ==
    ASSUME MailShape, NEW b \in Mailboxes, MailOrder(b), NEW v, Deposit(b, v)
    PROVE  /\ MailOrder(b)' /\ MailsBut(b)
           /\ MailsIn(b)' = Append(MailsIn(b), v) /\ Len(MailsIn(b)) < MbSize
<1>1. PICK S : mb \in [Mailboxes -> MailBlock(S)]
  BY DEF MailShape
<1>. DEFINE X == S \union {v}
            old == mb[b]
            new == [msg_pool |-> [old.msg_pool EXCEPT ![old.in_offset] = v],
                    entry |-> old.entry + 1, in_offset |-> Advance(old.in_offset),
                    out_offset |-> old.out_offset]
            n == old.entry
            in == old.in_offset
            out == old.out_offset
<1>2. mb[b].entry # MbSize /\ mb' = [mb EXCEPT ![b] = new]
  <2>1. old = [msg_pool |-> old.msg_pool, entry |-> old.entry,
               in_offset |-> old.in_offset, out_offset |-> old.out_offset]
    BY <1>1 DEF MailBlock
  <2>. QED BY <1>1, <2>1 DEF Deposit, MailBlock
<1>3. mb'[b] = new /\ MailsBut(b)
  BY <1>1, <1>2, MailsButOK
<1>4. /\ in \in 0 .. (MbSize - 1) /\ out \in 0 .. (MbSize - 1) /\ n \in 0 .. (MbSize - 1)
      /\ MbSize \in Nat \ {0} /\ old.msg_pool \in [0 .. (MbSize - 1) -> S] /\ n \in Nat
      /\ old \in MailBlock(S)
  BY <1>1, <1>2, MailboxAssumption DEF MailBlock
<1>. DEFINE cells == [old.msg_pool EXCEPT ![in] = v]
            at(i) == (out + i - 1) % MbSize
            g == [i \in 1 .. (n + 1) |-> cells[at(i)]]
            f == [i \in 1 .. n |-> old.msg_pool[at(i)]]
<1>5. MailsIn(b) = f /\ MailsIn(b)' = g
  BY <1>3 DEF MailsIn
<1>6. in = (IF out + n < MbSize THEN out + n ELSE out + n - MbSize)
  <2>1. in = (out + n) % MbSize
    BY DEF MailOrder
  <2>2. n \in 0 .. MbSize
    BY <1>4
  <2>. HIDE DEF in, out, n
  <2>. QED BY <1>4, <2>1, <2>2, WrapSum
<1>7. Advance(in) = (out + (n + 1)) % MbSize
  <2>. HIDE DEF in, out, n
  <2>1. n + 1 \in 0 .. MbSize
    BY <1>4
  <2>2. (out + (n + 1)) % MbSize =
           IF out + (n + 1) < MbSize THEN out + (n + 1) ELSE out + (n + 1) - MbSize
    BY <1>4, <2>1, WrapSum
  <2>. QED BY <1>4, <1>6, <2>2 DEF Advance
<1>8. MailOrder(b)'
  BY <1>3, <1>7 DEF MailOrder
<1>. HIDE DEF in, out, n
<1>9. ASSUME NEW i \in 1 .. (n + 1)
      PROVE  /\ at(i) \in 0 .. (MbSize - 1)
             /\ at(i) = IF out + i - 1 < MbSize THEN out + i - 1 ELSE out + i - 1 - MbSize
  <2>1. i - 1 \in 0 .. MbSize /\ out + i - 1 = out + (i - 1)
    BY <1>4
  <2>. QED BY <1>4, <2>1, WrapSum
<1>10. at(n + 1) = in
  <2>1. n + 1 \in 1 .. (n + 1)
    BY <1>4
  <2>. QED BY <1>4, <1>6, <1>9, <2>1
<1>11. ASSUME NEW i \in 1 .. n
       PROVE  at(i) # in /\ i \in 1 .. (n + 1)
  <2>1. i \in 1 .. (n + 1)
    BY <1>4
  <2>2. at(i) = IF out + i - 1 < MbSize THEN out + i - 1 ELSE out + i - 1 - MbSize
    BY <1>9, <2>1
  <2>. HIDE DEF at
  <2>. QED BY <1>4, <1>6, <2>1, <2>2
<1>12. cells \in [0 .. (MbSize - 1) -> X] /\ old.msg_pool \in [0 .. (MbSize - 1) -> X]
       /\ cells[in] = v /\ \A j \in 0 .. (MbSize - 1) : j # in => cells[j] = old.msg_pool[j]
  BY <1>4
<1>. HIDE DEF cells, at, X
<1>13. g \in [1 .. (n + 1) -> X] /\ f \in [1 .. n -> X]
  BY <1>9, <1>11, <1>12
<1>14. g[n + 1] = v /\ \A i \in 1 .. n : g[i] = f[i]
  <2>1. n + 1 \in 1 .. (n + 1)
    BY <1>4
  <2>. QED BY <1>9, <1>10, <1>11, <1>12, <2>1
<1>15. v \in X
  BY DEF X
<1>. HIDE DEF f, g
<1>16. g = Append(f, v)
  BY <1>4, <1>13, <1>14, <1>15, AppendIs
<1>17. Len(f) = n
  BY <1>4, <1>13, SeqIs
<1>. QED BY <1>3, <1>4, <1>8, <1>5, <1>16, <1>17

LEMMA CollectOrder ==
    ASSUME MailShape, NEW b \in Mailboxes, MailOrder(b), Collected(b)
    PROVE  /\ MailOrder(b)' /\ MailsBut(b)
           /\ MailsIn(b) # <<>> /\ MailsIn(b)' = Tail(MailsIn(b))
           /\ Head(MailsIn(b)) = mb[b].msg_pool[mb[b].out_offset]
<1>1. PICK S : mb \in [Mailboxes -> MailBlock(S)]
  BY DEF MailShape
<1>. DEFINE old == mb[b]
            n == old.entry
            out == old.out_offset
<1>2. /\ n # 0 /\ old \in MailBlock(S)
      /\ mb'[b].entry = n - 1 /\ mb'[b].out_offset = Advance(out)
      /\ mb'[b].in_offset = old.in_offset /\ mb'[b].msg_pool = old.msg_pool
      /\ \A c \in Mailboxes : c # b => mb'[c] = mb[c]
  BY <1>1 DEF Collected, MailBlock
<1>3. /\ out \in 0 .. (MbSize - 1) /\ n \in 1 .. MbSize /\ n \in 0 .. MbSize
      /\ n \in Nat \ {0} /\ n - 1 \in 0 .. MbSize
      /\ MbSize \in Nat \ {0} /\ old.msg_pool \in [0 .. (MbSize - 1) -> S]
  BY <1>2, MailboxAssumption DEF MailBlock
<1>4. Advance(out) = (IF out + 1 < MbSize THEN out + 1 ELSE out + 1 - MbSize)
      /\ Advance(out) \in 0 .. (MbSize - 1)
  BY <1>3 DEF Advance
<1>. DEFINE at(a, i) == (a + i - 1) % MbSize
            g == [i \in 1 .. (n - 1) |-> old.msg_pool[at(Advance(out), i)]]
            f == [i \in 1 .. n |-> old.msg_pool[at(out, i)]]
<1>5. MailsIn(b) = f /\ MailsIn(b)' = g
  BY <1>2 DEF MailsIn
<1>. HIDE DEF out, n
<1>6. MailOrder(b)'
  <2>1. (out + n) % MbSize = IF out + n < MbSize THEN out + n ELSE out + n - MbSize
    BY <1>3, WrapSum
  <2>2. (Advance(out) + (n - 1)) % MbSize =
           IF Advance(out) + (n - 1) < MbSize THEN Advance(out) + (n - 1)
           ELSE Advance(out) + (n - 1) - MbSize
    BY <1>3, <1>4, WrapSum
  <2>3. (Advance(out) + (n - 1)) % MbSize = (out + n) % MbSize
    BY <1>3, <1>4, <2>1, <2>2
  <2>. QED BY <1>2, <2>3 DEF MailOrder, n, out
<1>7. ASSUME NEW a \in 0 .. (MbSize - 1), NEW i \in 1 .. n
      PROVE  /\ at(a, i) \in 0 .. (MbSize - 1)
             /\ at(a, i) = IF a + i - 1 < MbSize THEN a + i - 1 ELSE a + i - 1 - MbSize
  <2>1. i - 1 \in 0 .. MbSize /\ a + i - 1 = a + (i - 1)
    BY <1>3
  <2>. QED BY <1>3, <2>1, WrapSum
<1>8. ASSUME NEW i \in 1 .. (n - 1)
      PROVE  at(Advance(out), i) = at(out, i + 1) /\ i \in 1 .. n /\ i + 1 \in 1 .. n
  <2>1. i \in 1 .. n /\ i + 1 \in 1 .. n
    BY <1>3
  <2>2. /\ at(Advance(out), i) = IF Advance(out) + i - 1 < MbSize THEN Advance(out) + i - 1
                                 ELSE Advance(out) + i - 1 - MbSize
        /\ at(out, i + 1) = IF out + (i + 1) - 1 < MbSize THEN out + (i + 1) - 1
                            ELSE out + (i + 1) - 1 - MbSize
    BY <1>3, <1>4, <1>7, <2>1
  <2>. HIDE DEF at
  <2>. QED BY <1>3, <1>4, <2>1, <2>2
<1>9. at(out, 1) = out
  BY <1>3, <1>7
<1>. HIDE DEF at
<1>10. g \in [1 .. (n - 1) -> S] /\ f \in [1 .. n -> S]
  BY <1>3, <1>4, <1>7, <1>8
<1>11. \A i \in 1 .. (n - 1) : g[i] = f[i + 1]
  BY <1>8
<1>12. f[1] = old.msg_pool[out]
  BY <1>3, <1>9
<1>. HIDE DEF f, g
<1>13. f # <<>> /\ Head(f) = f[1] /\ g = Tail(f)
  BY <1>3, <1>10, <1>11, TailIs
<1>14. MailsBut(b)
  BY <1>2, MailsButOK
<1>. QED BY <1>6, <1>5, <1>12, <1>13, <1>14 DEF out

LEMMA EmptyOrder ==
    ASSUME MailShape, NEW b \in Mailboxes, Emptied(b)
    PROVE  MailOrder(b)' /\ MailsBut(b) /\ MailsIn(b)' = <<>>
<1>1. PICK S : mb \in [Mailboxes -> MailBlock(S)]
  BY DEF MailShape
<1>2. /\ mb'[b].entry = 0 /\ mb'[b].out_offset = 0 /\ mb'[b].in_offset = 0
      /\ \A c \in Mailboxes : c # b => mb'[c] = mb[c]
  BY <1>1 DEF Emptied, MailBlock
<1>3. MailOrder(b)'
  BY <1>2, MailboxAssumption DEF MailOrder
<1>4. MailsIn(b)' = <<>>
  <2>1. MailsIn(b)' \in [1 .. 0 -> {}]
    BY <1>2 DEF MailsIn
  <2>. QED BY <2>1, EmptyIs
<1>. QED BY <1>2, <1>3, <1>4, MailsButOK

-----------------------------------------------------------------------------
(* The messages of a queue as a sequence.                                  *)

\* What the slots of c hold.
Contents(data, c) == [i \in 1 .. Len(c) |-> data[c[i]]]

\* The contents of all slots.
Cells == [Slots -> Messages \union {None}]

\* They are those of data but for v in slot s.
Written(new, data, s, v) ==
    new \in Cells /\ new[s] = v /\ \A y \in Slots : y # s => new[y] = data[y]

LEMMA ContentsOK ==
    ASSUME NEW S, NEW data \in [Slots -> S], NEW c \in Seq(Slots)
    PROVE  /\ Contents(data, c) \in [1 .. Len(c) -> S] /\ Len(c) \in Nat
           /\ Contents(data, c) \in Seq(S) /\ Len(Contents(data, c)) = Len(c)
<1>1. Len(c) \in Nat /\ \A i \in 1 .. Len(c) : c[i] \in Slots
  OBVIOUS
<1>2. Contents(data, c) \in [1 .. Len(c) -> S]
  BY <1>1 DEF Contents
<1>. QED BY <1>1, <1>2, SeqIs

LEMMA ContentsEmpty ==
    ASSUME NEW data
    PROVE  Contents(data, <<>>) = <<>>
<1>1. Contents(data, <<>>) \in [1 .. 0 -> {}]
  BY DEF Contents
<1>. QED BY <1>1, EmptyIs

\* Sequence d is c with x at its end.
Appended(d, c, x) == d = Append(c, x)

LEMMA ContentsLast ==
    ASSUME NEW data \in Cells, NEW c \in Seq(Slots), NEW s \in Slots, s \notin ToSet(c),
           NEW v, NEW new, Written(new, data, s, v), NEW d, Appended(d, c, s)
    PROVE  Appended(Contents(new, d), Contents(data, c), v)
<1>. DEFINE S == Messages \union {None}
            n == Len(c)
            f == Contents(data, c)
            g == Contents(new, d)
<1>0. data \in [Slots -> S] /\ new \in [Slots -> S] /\ v \in S
  BY DEF Cells, Written
<1>. HIDE DEF S
<1>1. /\ new[s] = v /\ \A x \in Slots : x # s => new[x] = data[x]
      /\ n \in Nat /\ d \in Seq(Slots) /\ Len(d) = n + 1 /\ d[n + 1] = s
      /\ \A i \in 1 .. n : d[i] = c[i] /\ c[i] \in Slots
  BY DEF Written, Appended
<1>2. \A i \in 1 .. n : c[i] # s
  BY ToSetDef
<1>3. f \in [1 .. n -> S] /\ g \in [1 .. (n + 1) -> S]
  <2>. HIDE DEF f, g, n
  <2>1. f \in [1 .. n -> S]
    BY <1>0, ContentsOK DEF f, n
  <2>2. g \in [1 .. Len(d) -> S]
    BY <1>0, <1>1, ContentsOK DEF g
  <2>. QED BY <1>1, <2>1, <2>2
<1>. HIDE DEF n
<1>4. g[n + 1] = v
  BY <1>1 DEF Contents
<1>5. \A i \in 1 .. n : g[i] = f[i]
  BY <1>1, <1>2 DEF Contents, n
<1>. HIDE DEF f, g
<1>6. g = Append(f, v)
  BY <1>1, <1>3, <1>4, <1>5, <1>0, AppendIs
<1>. QED BY <1>6 DEF f, g, Appended

LEMMA ContentsFirst ==
    ASSUME NEW data \in Cells, NEW c \in Seq(Slots), NEW s \in Slots, s \notin ToSet(c),
           NEW v, NEW new, Written(new, data, s, v), NEW d, d = Cons(s, c)
    PROVE  Contents(new, d) = <<v>> \o Contents(data, c)
<1>. DEFINE S == Messages \union {None}
            n == Len(c)
            f == Contents(data, c)
            g == Contents(new, d)
<1>0. data \in [Slots -> S] /\ new \in [Slots -> S] /\ v \in S
  BY DEF Cells, Written
<1>. HIDE DEF S
<1>1. /\ new[s] = v /\ \A x \in Slots : x # s => new[x] = data[x]
      /\ n \in Nat /\ \A i \in 1 .. n : c[i] \in Slots
  BY DEF Written
<1>2. /\ d \in Seq(Slots) /\ Len(d) = n + 1 /\ d[1] = s
      /\ \A i \in 1 .. n : d[i + 1] = c[i]
  BY DEF Cons
<1>3. \A i \in 1 .. n : c[i] # s
  BY ToSetDef
<1>4. f \in [1 .. n -> S] /\ g \in [1 .. (n + 1) -> S]
  <2>. HIDE DEF f, g, n
  <2>1. f \in [1 .. n -> S]
    BY <1>0, ContentsOK DEF f, n
  <2>2. g \in [1 .. Len(d) -> S]
    BY <1>0, <1>1, <1>2, ContentsOK DEF g
  <2>. QED BY <1>2, <2>1, <2>2
<1>. HIDE DEF n
<1>5. g[1] = v
  BY <1>1, <1>2 DEF Contents
<1>6. \A i \in 1 .. n : g[i + 1] = f[i]
  <2>1. \A i \in 1 .. n : i + 1 \in 1 .. (n + 1)
    BY <1>1
  <2>. QED BY <1>1, <1>2, <1>3, <2>1 DEF Contents, n
<1>. HIDE DEF f, g
<1>7. g = <<v>> \o f
  BY <1>0, <1>1, <1>4, <1>5, <1>6, FrontIs
<1>. QED BY <1>7 DEF f, g

LEMMA ContentsTail ==
    ASSUME NEW S, NEW data \in [Slots -> S], NEW c \in Seq(Slots), c # <<>>
    PROVE  /\ Contents(data, c) # <<>> /\ Head(Contents(data, c)) = data[Head(c)]
           /\ Contents(data, Tail(c)) = Tail(Contents(data, c))
<1>. DEFINE n == Len(c)
            d == Tail(c)
            f == Contents(data, c)
            g == Contents(data, d)
<1>1. /\ n \in Nat \ {0} /\ d \in Seq(Slots) /\ Len(d) = n - 1 /\ Head(c) = c[1]
      /\ \A i \in 1 .. (n - 1) : d[i] = c[i + 1]
  BY EmptySeq
<1>2. f \in [1 .. n -> S] /\ g \in [1 .. (n - 1) -> S]
  <2>. HIDE DEF f, g, n, d
  <2>1. f \in [1 .. n -> S]
    BY ContentsOK DEF f, n
  <2>2. g \in [1 .. Len(d) -> S]
    BY <1>1, ContentsOK DEF g
  <2>. QED BY <1>1, <2>1, <2>2
<1>. HIDE DEF d, n
<1>3. f[1] = data[Head(c)]
  BY <1>1 DEF Contents, n
<1>4. \A i \in 1 .. (n - 1) : g[i] = f[i + 1]
  <2>1. \A i \in 1 .. (n - 1) : i + 1 \in 1 .. n
    BY <1>1
  <2>. QED BY <1>1, <2>1 DEF Contents, n
<1>. HIDE DEF f, g
<1>5. f # <<>> /\ Head(f) = f[1] /\ g = Tail(f)
  BY <1>1, <1>2, <1>4, TailIs
<1>. QED BY <1>3, <1>5 DEF f, g, d

LEMMA MessagesAre ==
    ASSUME NEW m, NEW c, NEW f, Accounted(m, c, f)
    PROVE  MessagesIn(m) = Contents(mq[m].data, c)
<1>1. Linked(mq[m].next, mq[m].head, c) /\ Len(c) <= MqSize
  BY AtMostSize DEF Accounted, Holds
<1>2. Chain(mq[m], mq[m].head) = c
  BY <1>1, ChainIs
<1>. QED BY <1>2 DEF MessagesIn, Contents

-----------------------------------------------------------------------------
(* What threads have received, and what they are about to send.            *)

\* Where item is what was received from a mailbox or a data queue.
GotPlaces == {"mb_got", "mb_got_sched", "dq_got", "dq_got_sched"}
Received == GotPlaces \union {"mqr_copy"}

LEMMA HeldIs ==
    ASSUME NEW t
    PROVE  /\ pc[t] \in GotPlaces => Held(t) = item[t]
           /\ pc[t] = "mqr_copy" => Held(t) = mq[arg[t]].data[item[t]]
           /\ pc[t] \notin Received => Held(t) = None
           /\ pc'[t] \in GotPlaces => Held(t)' = item'[t]
           /\ pc'[t] = "mqr_copy" => Held(t)' = mq'[arg'[t]].data[item'[t]]
           /\ pc'[t] \notin Received => Held(t)' = None
BY DEF Held, MailGot, MessageGot, DataGot, GotPlaces, Received

HeldSame == \A t \in Threads : Held(t)' = Held(t)

\* Thread t, which had nothing, is given x.
Gets(t, x) ==
    /\ t \in Threads
    /\ Held(t) = None /\ Held(t)' = x
    /\ \A u \in Threads : u # t => Held(u)' = Held(u)

\* Thread t has nothing any more.
Uses(t) ==
    /\ t \in Threads
    /\ Held(t)' = None
    /\ \A u \in Threads : u # t => Held(u)' = Held(u)

\* Thread t has a mail or data to send.
Load(t) ==
    /\ pc[t] \in {"mbs_sched", "mbs_woken"} => item[t] \in Mails
    /\ pc[t] \in {"dqp_sched", "dqp_woken"} => item[t] \in Data

LoadInv == \A t \in Threads : Load(t)

\* Thread t goes from p to q and has x then.
Turns(t, p, q, x) ==
    /\ t \in Threads
    /\ pc[t] = p /\ pc'[t] = q /\ item'[t] = x
    /\ \A u \in Threads : u # t => pc'[u] = pc[u] /\ arg'[u] = arg[u] /\ item'[u] = item[u]

LEMMA TurnsOK ==
    ASSUME SvcInv, ItemShape, NEW t, NEW p, NEW q, NEW x, At(t, p), Go(t, q),
           arg' = arg \/ \E o : arg' = [arg EXCEPT ![t] = o],
           (item' = item /\ x = item[t]) \/ item' = [item EXCEPT ![t] = x]
    PROVE  Turns(t, p, q, x)
<1>1. /\ t \in Threads /\ pc[t] = p /\ pc \in [Threads -> Places]
      /\ arg \in [Threads -> Objects \union {None}]
  BY AtFits DEF SvcInv
<1>2. pc'[t] = q /\ \A u \in Threads : u # t => pc'[u] = pc[u] /\ arg'[u] = arg[u]
  BY <1>1 DEF Go
<1>3. item'[t] = x /\ \A u \in Threads : u # t => item'[u] = item[u]
  <2>1. CASE item' = item /\ x = item[t]
    BY <2>1
  <2>2. CASE item' = [item EXCEPT ![t] = x]
    BY <1>1, <2>2, ItemPut
  <2>. QED BY <2>1, <2>2
<1>. QED BY <1>1, <1>2, <1>3 DEF Turns

LEMMA StepsTurn ==
    ASSUME SvcInv, ItemShape, NEW t, NEW p, At(t, p), NEW H, StepsOn(t, H)
    PROVE  \E q, x : q \notin H /\ Turns(t, p, q, x)
<1>1. PICK q : q \notin H /\ Go(t, q)
  BY DEF StepsOn
<1>2. PICK x : (item' = item /\ x = item[t]) \/ item' = [item EXCEPT ![t] = x]
  BY DEF StepsOn
<1>3. arg' = arg \/ \E o : arg' = [arg EXCEPT ![t] = o]
  BY DEF StepsOn
<1>4. Turns(t, p, q, x)
  BY <1>1, <1>2, <1>3, TurnsOK
<1>. QED BY <1>1, <1>4

\* The threads that do nothing keep what they have.
LEMMA HeldStill ==
    ASSUME NEW u, pc'[u] = pc[u], arg'[u] = arg[u], item'[u] = item[u],
           pc[u] = "mqr_copy" => mq'[arg[u]].data[item[u]] = mq[arg[u]].data[item[u]]
    PROVE  Held(u)' = Held(u) /\ (Load(u) => Load(u)')
<1>1. Load(u) => Load(u)'
  BY DEF Load
<1>2. CASE pc[u] \in GotPlaces
  BY <1>1, <1>2, HeldIs
<1>3. CASE pc[u] = "mqr_copy"
  BY <1>1, <1>3, HeldIs
<1>4. CASE pc[u] \notin Received
  BY <1>1, <1>4, HeldIs
<1>. QED BY <1>2, <1>3, <1>4 DEF Received

LEMMA TurnsDo ==
    ASSUME LoadInv, mq' = mq, NEW t, NEW p, NEW q, NEW x, Turns(t, p, q, x)
    PROVE  /\ q \notin Laden => Uses(t) /\ LoadInv'
           /\ q \notin Received /\ p \notin Received => HeldSame
           /\ q \in {"mbs_sched", "mbs_woken"} /\ x \in Mails => LoadInv'
           /\ q \in {"dqp_sched", "dqp_woken"} /\ x \in Data => LoadInv'
           /\ q \in GotPlaces => LoadInv'
           /\ q \in GotPlaces /\ p \notin Received => Gets(t, x)
           /\ q \in GotPlaces /\ p \in GotPlaces /\ x = item[t] => HeldSame
<1>1. t \in Threads /\ pc[t] = p /\ pc'[t] = q /\ item'[t] = x
  BY DEF Turns
<1>2. \A u \in Threads : u # t => Held(u)' = Held(u) /\ Load(u)'
  BY HeldStill DEF Turns, LoadInv
<1>3. /\ p \notin Received => Held(t) = None
      /\ q \notin Received => Held(t)' = None
      /\ q \in GotPlaces => Held(t)' = x
      /\ p \in GotPlaces => Held(t) = item[t]
  BY <1>1, HeldIs
<1>4. /\ q \in {"mbs_sched", "mbs_woken"} /\ x \in Mails => Load(t)'
      /\ q \in {"dqp_sched", "dqp_woken"} /\ x \in Data => Load(t)'
      /\ q \in GotPlaces \/ q \notin Laden => Load(t)'
  BY <1>1 DEF Load, GotPlaces, Laden, MailHold, DqHold
<1>5. Load(t)' => LoadInv'
  BY <1>2 DEF LoadInv
<1>6. q \notin Laden => q \notin Received
  BY DEF Laden, MailHold, DqHold, MqHold, Received, GotPlaces
<1>. QED BY <1>1, <1>2, <1>3, <1>4, <1>5, <1>6 DEF Uses, Gets, HeldSame

\* Steps of the other services.
LEMMA SteadyHeld ==
    ASSUME LoadInv, mq' = mq, Steady(Laden)
    PROVE  HeldSame /\ LoadInv'
<1>1. ASSUME NEW u \in Threads
      PROVE  Held(u)' = Held(u) /\ Load(u)'
  <2>1. CASE pc[u] \in Laden \/ pc'[u] \in Laden
    BY <2>1, HeldStill DEF Steady, LoadInv
  <2>2. CASE ~(pc[u] \in Laden \/ pc'[u] \in Laden)
    <3>1. pc[u] \notin Received /\ pc'[u] \notin Received
      BY <2>2 DEF Laden, MailHold, DqHold, MqHold, Received, GotPlaces
    <3>2. Load(u)'
      BY <2>2 DEF Load, Laden, MailHold, DqHold
    <3>. QED BY <3>1, <3>2, HeldIs
  <2>. QED BY <2>1, <2>2
<1>. QED BY <1>1 DEF HeldSame, LoadInv

\* What a step of the mailboxes does to mailbox b and to what threads have.
MailMoves(b) ==
    \/ mb' = mb /\ (HeldSame \/ \E t : Uses(t))
    \/ (\E v \in Mails : Deposit(b, v)) /\ HeldSame
    \/ Collected(b) /\ \E t : Gets(t, mb[b].msg_pool[mb[b].out_offset])
    \/ Emptied(b) /\ HeldSame

\* Places at which nothing is received.
LEMMA NothingAt ==
    /\ {"run", "mbs_woken", "mbr_woken", "mbs_sched", "mbr_sched", "dqp_woken", "dqg_woken",
        "dqp_sched", "dqg_sched"} \intersect Received = {}
    /\ {"mbs_sched", "mbs_woken", "dqp_sched", "dqp_woken"} \intersect Received = {}
    /\ \A q : q \notin Laden => q \notin Received
BY DEF Received, GotPlaces, Laden, MailHold, DqHold, MqHold

\* A step to a place where the call has nothing in its hands.
LEMMA EndsHeld ==
    ASSUME SvcInv, ItemShape, LoadInv, mq' = mq, NEW t, NEW p, At(t, p), StepsOn(t, Laden)
    PROVE  LoadInv' /\ Uses(t) /\ (p \notin Received => HeldSame)
<1>1. PICK q, x : q \notin Laden /\ Turns(t, p, q, x)
  BY StepsTurn
<1>. QED BY <1>1, TurnsDo, NothingAt

\* A step from a place where nothing was received.
LEMMA OnwardHeld ==
    ASSUME SvcInv, ItemShape, LoadInv, mq' = mq, NEW t, Onward(t, Laden)
    PROVE  LoadInv' /\ HeldSame
<1>1. Steady(Laden)
  BY OnwardHands
<1>. QED BY <1>1, SteadyHeld

LEMMA MailTurnMoves ==
    ASSUME SvcInv, ItemShape, LoadInv, mq' = mq, NEW t, NEW p, At(t, p), p \notin Received,
           NEW b, NEW time,
           \/ \E v \in Mails : SendTurn(t, b, v, time)
           \/ Collect(t, b) \/ RecvBlock(t, b, time)
    PROVE  LoadInv' /\ MailMoves(b)
<1>1. ASSUME NEW v, v \in Mails, SendMail(t, b, v)
      PROVE  LoadInv' /\ MailMoves(b)
  <2>1. Deposit(b, v) /\ StepsOn(t, Laden)
    BY <1>1, WaysOn, LightOK DEF SendMail
  <2>. QED BY <1>1, <2>1, EndsHeld DEF MailMoves
<1>2. ASSUME NEW v, v \in Mails, SendBlock(t, b, v, time)
      PROVE  LoadInv' /\ MailMoves(b)
  <2>1. mb' = mb /\ Go(t, "mbs_sched") /\ item' = [item EXCEPT ![t] = v]
        /\ arg' = [arg EXCEPT ![t] = b]
    BY <1>2 DEF SendBlock, Block, Proceed
  <2>2. Turns(t, p, "mbs_sched", v)
    BY <2>1, TurnsOK
  <2>. QED BY <1>2, <2>1, <2>2, TurnsDo, NothingAt DEF MailMoves
<1>3. CASE SendFull(t, b, time)
  <2>1. mb' = mb /\ StepsOn(t, Laden)
    BY <1>3, WaysOn, LightOK DEF SendFull
  <2>. QED BY <2>1, EndsHeld DEF MailMoves
<1>4. CASE Collect(t, b)
  <2>. DEFINE x == mb[b].msg_pool[mb[b].out_offset]
  <2>1. Collected(b) /\ item' = [item EXCEPT ![t] = x] /\ arg' = [arg EXCEPT ![t] = b]
        /\ (Go(t, "mb_got") \/ Go(t, "mb_got_sched"))
    BY <1>4 DEF Collect, Collected, Proceed
  <2>2. PICK q : q \in {"mb_got", "mb_got_sched"} /\ Go(t, q)
    BY <2>1
  <2>3. q \in GotPlaces
    BY <2>2 DEF GotPlaces
  <2>4. Turns(t, p, q, x)
    BY <2>1, <2>2, TurnsOK
  <2>5. LoadInv' /\ Gets(t, x)
    BY <2>3, <2>4, TurnsDo
  <2>. QED BY <2>1, <2>5 DEF MailMoves
<1>5. CASE RecvBlock(t, b, time)
  <2>1. mb' = mb /\ StepsOn(t, Laden)
    BY <1>5, WaysOn, LightOK DEF RecvBlock, Laden, MqHold, MailHold, DqHold
  <2>. QED BY <2>1, EndsHeld DEF MailMoves
<1>. QED BY <1>1, <1>2, <1>3, <1>4, <1>5 DEF SendTurn

LEMMA MailCallMoves ==
    ASSUME SvcInv, ItemShape, LoadInv, mq' = mq, NEW t, MailCall(t)
    PROVE  LoadInv' /\ \E b \in Mailboxes : MailMoves(b)
<1>1. PICK b \in Mailboxes :
         \/ \E v \in Mails, time \in MbTimes : rt_mb_send_wait(t, b, v, time)
         \/ \E time \in MbTimes : rt_mb_recv(t, b, time)
         \/ rt_mb_control(t, b)
         \/ rt_mb_detach(t, b) /\ UNCHANGED <<left, item, mb>>
  BY DEF MailCall
<1>2. CASE \E v \in Mails, time \in MbTimes : rt_mb_send_wait(t, b, v, time)
  <2>1. PICK v \in Mails, time \in MbTimes : At(t, "run") /\ SendTurn(t, b, v, time)
    BY <1>2 DEF rt_mb_send_wait, Calls
  <2>. QED BY <2>1, MailTurnMoves, NothingAt
<1>3. CASE \E time \in MbTimes : rt_mb_recv(t, b, time)
  <2>0. PICK time \in MbTimes : rt_mb_recv(t, b, time)
    BY <1>3
  <2>1. /\ At(t, "run")
        /\ Collect(t, b) \/ RecvBlock(t, b, time) \/ (Leave(t) /\ mb' = mb)
    BY <2>0 DEF rt_mb_recv, Calls
  <2>2. CASE Leave(t) /\ mb' = mb
    <3>1. StepsOn(t, Laden)
      BY <2>2, WaysOn, LightOK
    <3>. QED BY <2>1, <2>2, <3>1, EndsHeld, NothingAt DEF MailMoves
  <2>. QED BY <2>1, <2>2, MailTurnMoves, NothingAt
<1>4. CASE rt_mb_control(t, b)
  <2>1. At(t, "run") /\ Emptied(b) /\ LeaveVia(t, "ret_sched")
    BY <1>4 DEF rt_mb_control, Calls, Emptied
  <2>2. StepsOn(t, Laden)
    <3>1. "ret_sched" \notin Laden
      BY LightOK DEF Light
    <3>. QED BY <2>1, <3>1, WaysOn, LightOK
  <2>. QED BY <2>1, <2>2, EndsHeld, NothingAt DEF MailMoves
<1>5. CASE rt_mb_detach(t, b) /\ UNCHANGED <<left, item, mb>>
  <2>1. Onward(t, Laden)
    BY <1>5, DetachOnward, LightOK DEF rt_mb_detach, Laden, MqHold, MailHold, DqHold
  <2>. QED BY <1>5, <2>1, OnwardHeld DEF MailMoves
<1>. QED BY <1>1, <1>2, <1>3, <1>4, <1>5

LEMMA MailStepMoves ==
    ASSUME SvcInv, ItemShape, LoadInv, mq' = mq, NEW t \in Threads, MailStep(t)
    PROVE  LoadInv' /\ \E b \in Mailboxes : MailMoves(b)
<1>. DEFINE b == arg[t]
<1>1. ASSUME NEW p \in MailPlaces, At(t, p)
      PROVE  b \in Mailboxes
  BY <1>1, MailArg
<1>2. {"mbs_sched", "mbs_woken", "mbr_sched", "mbr_woken", "mb_got", "mb_got_sched",
       "mbd_test", "mbd_wake", "mbd_test2", "mbd_wake2"} \subseteq MailPlaces
  BY DEF MailPlaces
<1>. HIDE DEF b
<1>3. CASE SendWoken(t)
  <2>1. /\ At(t, "mbs_woken")
        /\ (Failed(t) /\ mb' = mb) \/ \E time : SendTurn(t, b, item[t], time)
    BY <1>3 DEF SendWoken, b
  <2>2. b \in Mailboxes /\ item[t] \in Mails
    BY <1>1, <1>2, <2>1 DEF LoadInv, Load, At
  <2>3. CASE Failed(t) /\ mb' = mb
    <3>1. StepsOn(t, Laden)
      BY <2>3, WaysOn, LightOK
    <3>. QED BY <2>1, <2>2, <2>3, <3>1, EndsHeld, NothingAt DEF MailMoves
  <2>. QED BY <2>1, <2>2, <2>3, MailTurnMoves, NothingAt
<1>4. CASE RecvWoken(t)
  <2>1. /\ At(t, "mbr_woken")
        /\ \/ (Failed(t) \/ \E time : TimedOut(t, time)) /\ mb' = mb
           \/ \E time : Collect(t, b) \/ RecvBlock(t, b, time)
    BY <1>4 DEF RecvWoken, b
  <2>2. b \in Mailboxes
    BY <1>1, <1>2, <2>1
  <2>3. CASE (Failed(t) \/ \E time : TimedOut(t, time)) /\ mb' = mb
    <3>1. StepsOn(t, Laden)
      BY <2>3, WaysOn, LightOK
    <3>. QED BY <2>1, <2>2, <2>3, <3>1, EndsHeld, NothingAt DEF MailMoves
  <2>. QED BY <2>1, <2>2, <2>3, MailTurnMoves, NothingAt
<1>5. CASE RecvReturn(t)
  <2>1. At(t, "mb_got") /\ mb' = mb /\ StepsOn(t, Laden)
    BY <1>5, WaysOn, LightOK DEF RecvReturn
  <2>. QED BY <1>1, <1>2, <2>1, EndsHeld DEF MailMoves
<1>6. ASSUME NEW p, NEW q, Resched(t, p, q), UNCHANGED <<item, mb>>
      PROVE  At(t, p) /\ Turns(t, p, q, item[t])
  BY <1>6, TurnsOK DEF Resched
<1>7. CASE Resched(t, "mbs_sched", "mbs_woken") /\ UNCHANGED <<item, mb>>
  <2>1. At(t, "mbs_sched") /\ Turns(t, "mbs_sched", "mbs_woken", item[t]) /\ mb' = mb
    BY <1>6, <1>7
  <2>2. item[t] \in Mails /\ b \in Mailboxes
    BY <1>1, <1>2, <2>1 DEF LoadInv, Load, At
  <2>. QED BY <2>1, <2>2, TurnsDo, NothingAt DEF MailMoves
<1>8. CASE Resched(t, "mb_got_sched", "mb_got") /\ UNCHANGED <<item, mb>>
  <2>1. At(t, "mb_got_sched") /\ Turns(t, "mb_got_sched", "mb_got", item[t]) /\ mb' = mb
    BY <1>6, <1>8
  <2>. QED BY <1>1, <1>2, <2>1, TurnsDo DEF MailMoves, GotPlaces
<1>9. ASSUME NEW p \in MailPlaces, At(t, p), Onward(t, Laden), mb' = mb
      PROVE  LoadInv' /\ \E c \in Mailboxes : MailMoves(c)
  BY <1>1, <1>9, OnwardHeld DEF MailMoves
<1>10. /\ "mbr_sched" \notin Laden /\ "mbr_woken" \notin Laden /\ "mbd_test" \notin Laden
       /\ "mbd_wake" \notin Laden /\ "mbd_test2" \notin Laden /\ "mbd_wake2" \notin Laden
       /\ "det_object" \notin Laden
  BY DEF Laden, MqHold, MailHold, DqHold
<1>11. CASE Resched(t, "mbr_sched", "mbr_woken") /\ UNCHANGED <<item, mb>>
  <2>1. At(t, "mbr_sched") /\ Onward(t, Laden) /\ mb' = mb
    BY <1>10, <1>11, ReschedOnward, LightOK DEF Resched
  <2>. QED BY <1>2, <1>9, <2>1
<1>12. CASE MailDetachSteps(t) /\ UNCHANGED <<item, mb>>
  <2>1. CASE \/ ResumeAllTest(t, b, "mbd_test", "mbd_wake", "mbd_test2")
             \/ ResumeAllWake(t, b, "mbd_wake", "mbd_test")
    <3>1. Onward(t, Laden) /\ (At(t, "mbd_test") \/ At(t, "mbd_wake"))
      BY <1>10, <1>12, <2>1, WalkOnward, LightOK DEF ResumeAllTest, ResumeAllWake
    <3>. QED BY <1>2, <1>9, <1>12, <3>1
  <2>2. CASE \/ ResumeAllTest(t, suspend_sender_thread(b), "mbd_test2", "mbd_wake2", "det_object")
             \/ ResumeAllWake(t, suspend_sender_thread(b), "mbd_wake2", "mbd_test2")
    <3>1. Onward(t, Laden) /\ (At(t, "mbd_test2") \/ At(t, "mbd_wake2"))
      BY <1>10, <1>12, <2>2, WalkOnward, LightOK DEF ResumeAllTest, ResumeAllWake
    <3>. QED BY <1>2, <1>9, <1>12, <3>1
  <2>. QED BY <1>12, <2>1, <2>2 DEF MailDetachSteps, b
<1>. QED BY <1>3, <1>4, <1>5, <1>7, <1>8, <1>11, <1>12 DEF MailStep

LEMMA MailNextMoves ==
    ASSUME SvcInv, ItemShape, LoadInv, mq' = mq, MailNext
    PROVE  LoadInv' /\ \E b \in Mailboxes : MailMoves(b)
<1>1. CASE MailIsr
  <2>1. PICK b \in Mailboxes, v \in Mails : IsrSendMail(b, v)
    BY <1>1 DEF MailIsr
  <2>2. Steady(Laden) /\ Deposit(b, v)
    BY <2>1, SameHands DEF IsrSendMail
  <2>. QED BY <2>2, SteadyHeld DEF MailMoves
<1>. QED BY <1>1, MailCallMoves, MailStepMoves DEF MailNext

-----------------------------------------------------------------------------
(* The data in a queue as a sequence, as long as no index wraps around.    *)

LEMMA SmallMultiple ==
    ASSUME NEW n \in Nat \ {0}, NEW j \in Int, n * j > 0, n * j < n
    PROVE  FALSE
<1>1. CASE j <= 0
  <2>1. n * j <= 0
    BY <1>1
  <2>. QED BY <2>1
<1>2. CASE j >= 1
  <2>1. n * j >= n
    BY <1>2
  <2>. QED BY <2>1
<1>. QED BY <1>1, <1>2

LEMMA DivMod ==
    ASSUME NEW n \in Nat \ {0}, NEW x \in Nat
    PROVE  (\E a \in Int : x = n * a + (x % n)) /\ x % n \in 0 .. (n - 1)
<1>1. x \div n \in Int /\ x = n * (x \div n) + (x % n) /\ x % n \in 0 .. (n - 1)
  OBVIOUS
<1>. QED BY <1>1

\* Two of any n successive numbers differ modulo n.
LEMMA ModApart ==
    ASSUME NEW n \in Nat \ {0}, NEW x \in Nat, NEW y \in Nat, x < y, y - x < n
    PROVE  x % n # y % n
<1>. SUFFICES ASSUME x % n = y % n
              PROVE  FALSE
  OBVIOUS
<1>1. PICK a \in Int : x = n * a + (x % n)
  BY DivMod
<1>2. PICK b \in Int : y = n * b + (y % n)
  BY DivMod
<1>3. y - x = n * b - n * a
  <2>1. x % n \in Int /\ n * a \in Int /\ n * b \in Int
    OBVIOUS
  <2>2. PICK u, v, r \in Int : u = n * a /\ v = n * b /\ r = x % n
    BY <2>1
  <2>. QED BY <1>1, <1>2, <2>2
<1>4. n * b - n * a = n * (b - a) /\ b - a \in Int
  OBVIOUS
<1>. QED BY <1>3, <1>4, SmallMultiple

NoWrap == DqStart + DqMaxPush < IndexMod

\* The indices of queue d, counted from the start.
DqRun(d) ==
    /\ dq[d].get_index <= dq[d].put_index
    /\ dq[d].put_index <= DqStart + pushes
    /\ dq[d].put_index - dq[d].get_index <= DqSize

DqOrder == \A d \in DataQueues : DqRun(d)

Ring(r) ==
    [i \in 1 .. (r.put_index - r.get_index) |-> r.queue[(r.get_index + i - 1) % DqSize]]

LEMMA RingIs ==
    ASSUME NEW S, NEW r \in DqBlock(S), r.get_index <= r.put_index
    PROVE  [i \in 1 .. ((r.put_index - r.get_index) % IndexMod) |->
               r.queue[((r.get_index + i - 1) % IndexMod) % DqSize]] = Ring(r)
<1>. DEFINE p == r.put_index
            g == r.get_index
<1>1. p \in 0 .. (IndexMod - 1) /\ g \in 0 .. (IndexMod - 1) /\ IndexMod \in Nat \ {0} /\ g <= p
  BY DataQueueAssumption DEF DqBlock, Index
<1>. HIDE DEF p, g
<1>2. (p - g) % IndexMod = p - g
  BY <1>1
<1>3. \A i \in 1 .. (p - g) : (g + i - 1) % IndexMod = g + i - 1
  <2>. TAKE i \in 1 .. (p - g)
  <2>1. g + i - 1 \in 0 .. (IndexMod - 1)
    BY <1>1
  <2>. QED BY <1>1, <2>1
<1>. QED BY <1>2, <1>3 DEF Ring, p, g

LEMMA RingOK ==
    ASSUME NEW S, NEW r \in DqBlock(S), r.get_index <= r.put_index
    PROVE  /\ Ring(r) \in [1 .. (r.put_index - r.get_index) -> S]
           /\ r.put_index - r.get_index \in Nat
           /\ Len(Ring(r)) = r.put_index - r.get_index
<1>. DEFINE n == r.put_index - r.get_index
<1>1. /\ r.put_index \in Nat /\ r.get_index \in Nat /\ n \in Nat /\ DqSize \in Nat \ {0}
      /\ r.queue \in [0 .. (DqSize - 1) -> S]
  BY DataQueueAssumption DEF DqBlock, Index
<1>2. ASSUME NEW i \in 1 .. n
      PROVE  (r.get_index + i - 1) % DqSize \in 0 .. (DqSize - 1)
  <2>1. r.get_index + i - 1 \in Nat
    BY <1>1
  <2>. QED BY <1>1, <2>1, DivMod
<1>3. Ring(r) \in [1 .. n -> S]
  BY <1>1, <1>2 DEF Ring
<1>. QED BY <1>1, <1>3, SeqIs

LEMMA RingAppend ==
    ASSUME NEW X, NEW r \in DqBlock(X), NEW s \in DqBlock(X), NEW v \in X,
           r.get_index <= r.put_index, r.put_index - r.get_index < DqSize,
           s.queue = [r.queue EXCEPT ![r.put_index % DqSize] = v],
           s.put_index = r.put_index + 1, s.get_index = r.get_index
    PROVE  Ring(s) = Append(Ring(r), v)
<1>1. PICK p, g, n, f, h : /\ p = r.put_index /\ g = r.get_index /\ n = p - g
                           /\ f = Ring(r) /\ h = Ring(s)
  OBVIOUS
<1>2. /\ p \in Nat /\ g \in Nat /\ g <= p /\ n < DqSize /\ n \in Nat /\ DqSize \in Nat \ {0}
      /\ r.queue \in [0 .. (DqSize - 1) -> X] /\ n + 1 = (p + 1) - g
  BY <1>1, DataQueueAssumption, SMTT(30) DEF DqBlock, Index
<1>3. PICK a, b : a = r.queue /\ b = s.queue
  OBVIOUS
<1>4. f = [i \in 1 .. n |-> a[(g + i - 1) % DqSize]]
  BY <1>1, <1>3 DEF Ring
<1>5. h = [i \in 1 .. (n + 1) |-> b[(g + i - 1) % DqSize]]
  <2>1. h = [i \in 1 .. ((p + 1) - g) |-> b[(g + i - 1) % DqSize]]
    BY <1>1, <1>3 DEF Ring
  <2>. QED BY <1>2, <2>1
<1>6. p % DqSize \in 0 .. (DqSize - 1)
  BY <1>2, DivMod
<1>7. b[p % DqSize] = v /\ \A j \in 0 .. (DqSize - 1) : j # p % DqSize => b[j] = a[j]
  BY <1>1, <1>2, <1>3, <1>6
<1>8. h[n + 1] = v
  <2>1. n + 1 \in 1 .. (n + 1) /\ g + (n + 1) - 1 = p
    BY <1>1, <1>2, SMTT(30)
  <2>. QED BY <1>5, <1>7, <2>1
<1>9. ASSUME NEW i \in 1 .. n
      PROVE  h[i] = f[i]
  <2>1. PICK y : y = g + i - 1
    OBVIOUS
  <2>2. i \in 1 .. (n + 1) /\ y \in Nat /\ y < p /\ p - y < DqSize
    <3>1. n = p - g
      BY <1>1
    <3>. QED BY <1>2, <2>1, <3>1
  <2>3. y % DqSize # p % DqSize /\ y % DqSize \in 0 .. (DqSize - 1)
    BY <1>2, <2>2, ModApart, DivMod
  <2>4. h[i] = b[y % DqSize] /\ f[i] = a[y % DqSize]
    BY <1>4, <1>5, <2>1, <2>2
  <2>. QED BY <1>7, <2>3, <2>4
<1>10. f \in [1 .. n -> X] /\ h \in [1 .. (n + 1) -> X]
  <2>1. f \in [1 .. (r.put_index - r.get_index) -> X]
    BY <1>1, RingOK
  <2>2. s.get_index <= s.put_index
    BY <1>1, <1>2
  <2>3. h \in [1 .. (s.put_index - s.get_index) -> X]
    BY <1>1, <2>2, RingOK
  <2>4. s.put_index - s.get_index = n + 1
    BY <1>1, <1>2
  <2>. QED BY <1>1, <2>1, <2>3, <2>4
<1>11. h = Append(f, v)
  BY <1>2, <1>8, <1>9, <1>10, AppendIs
<1>. QED BY <1>1, <1>11

LEMMA RingTail ==
    ASSUME NEW S, NEW r \in DqBlock(S), NEW s \in DqBlock(S), r.get_index < r.put_index,
           s.queue = r.queue, s.put_index = r.put_index, s.get_index = r.get_index + 1
    PROVE  /\ Ring(r) # <<>> /\ Head(Ring(r)) = r.queue[r.get_index % DqSize]
           /\ Ring(s) = Tail(Ring(r))
<1>1. PICK p, g, n, f, h, a : /\ p = r.put_index /\ g = r.get_index /\ n = p - g
                              /\ f = Ring(r) /\ h = Ring(s) /\ a = r.queue
  OBVIOUS
<1>2. /\ p \in Nat /\ g \in Nat /\ g < p /\ g <= p /\ g + 1 <= p /\ n \in Nat \ {0}
      /\ n - 1 = p - (g + 1)
  BY <1>1 DEF DqBlock, Index
<1>3. f = [i \in 1 .. n |-> a[(g + i - 1) % DqSize]]
  BY <1>1 DEF Ring
<1>4. h = [i \in 1 .. (n - 1) |-> a[((g + 1) + i - 1) % DqSize]]
  <2>1. h = [i \in 1 .. (p - (g + 1)) |-> a[((g + 1) + i - 1) % DqSize]]
    BY <1>1 DEF Ring
  <2>. QED BY <1>2, <2>1
<1>5. f[1] = a[g % DqSize]
  <2>1. 1 \in 1 .. n /\ g + 1 - 1 = g
    BY <1>2
  <2>. QED BY <1>3, <2>1
<1>6. ASSUME NEW i \in 1 .. (n - 1)
      PROVE  h[i] = f[i + 1]
  <2>1. i + 1 \in 1 .. n /\ (g + 1) + i - 1 = g + (i + 1) - 1
    BY <1>2
  <2>. QED BY <1>3, <1>4, <2>1
<1>7. f \in [1 .. n -> S] /\ h \in [1 .. (n - 1) -> S]
  <2>1. f \in [1 .. (r.put_index - r.get_index) -> S]
    BY <1>1, <1>2, RingOK
  <2>2. s.get_index <= s.put_index
    BY <1>1, <1>2
  <2>3. h \in [1 .. (s.put_index - s.get_index) -> S]
    BY <1>1, <2>2, RingOK
  <2>4. s.put_index - s.get_index = n - 1
    BY <1>1, <1>2
  <2>. QED BY <1>1, <2>1, <2>3, <2>4
<1>8. f # <<>> /\ Head(f) = f[1] /\ h = Tail(f)
  BY <1>2, <1>6, <1>7, TailIs
<1>. QED BY <1>1, <1>5, <1>8

\* The data queues other than d are as before.
DataBut(d) == \A c \in DataQueues : c # d => DataIn(c)' = DataIn(c)

LEMMA PushOrder ==
    ASSUME DqShape, NoWrap, DqOrder, NEW d \in DataQueues, NEW v, Pushed(d, v)
    PROVE  /\ DqOrder' /\ DataBut(d)
           /\ DataIn(d)' = Append(DataIn(d), v) /\ Len(DataIn(d)) < DqSize
<1>1. PICK S : dq \in [DataQueues -> DqBlock(S)]
  BY DEF DqShape
<1>. DEFINE X == S \union {v}
            old == dq[d]
            p == old.put_index
            g == old.get_index
            cells == [old.queue EXCEPT ![p % DqSize] = v]
            new == [queue |-> cells, put_index |-> p + 1, get_index |-> g]
<1>2. /\ p \in 0 .. (IndexMod - 1) /\ g \in 0 .. (IndexMod - 1) /\ g <= p /\ DqSize \in Nat \ {0}
      /\ IndexMod \in Nat \ {0} /\ p - g <= DqSize /\ p <= DqStart + pushes
      /\ pushes \in Nat /\ DqStart \in Nat /\ DqMaxPush \in Nat /\ old \in DqBlock(S)
      /\ old.queue \in [0 .. (DqSize - 1) -> S]
  BY <1>1, DataQueueAssumption DEF DqBlock, Index, DqOrder, DqRun, DqShape
<1>3. p - g # DqSize /\ pushes < DqMaxPush /\ pushes' = pushes + 1
  BY DEF Pushed, Filled
<1>4. p \in Nat /\ g \in Nat /\ p + 1 < IndexMod /\ (p + 1) % IndexMod = p + 1
  <2>. HIDE DEF p, g
  <2>1. p \in Nat /\ g \in Nat /\ p + 1 < IndexMod
    BY <1>2, <1>3 DEF NoWrap
  <2>2. \A i \in 0 .. (IndexMod - 1) : i + 1 # IndexMod => (i + 1) % IndexMod = i + 1
    BY <1>2, WrapNext
  <2>3. (p + 1) % IndexMod = p + 1
    <3>1. p + 1 # IndexMod /\ p \in 0 .. (IndexMod - 1)
      BY <1>2, <2>1
    <3>. QED BY <2>2, <3>1
  <2>. QED BY <2>1, <2>3
<1>5. dq' = [dq EXCEPT ![d] = new]
  BY <1>1, <1>4, PushedIs
<1>6. dq'[d] = new /\ \A c \in DataQueues : c # d => dq'[c] = dq[c]
  BY <1>1, <1>5
<1>7. DataBut(d)
  BY <1>6 DEF DataBut, DataIn
<1>8. DqOrder'
  <2>1. ASSUME NEW c \in DataQueues, c # d
        PROVE  DqRun(c)'
    <3>1. dq[c].put_index \in Nat /\ dq[c].put_index <= DqStart + pushes
      BY <1>1 DEF DqBlock, Index, DqOrder, DqRun
    <3>2. dq[c].put_index <= DqStart + pushes'
      <4>1. PICK n : n = dq[c].put_index
        OBVIOUS
      <4>. QED BY <1>2, <1>3, <3>1, <4>1
    <3>. QED BY <1>6, <2>1, <3>2 DEF DqOrder, DqRun
  <2>2. DqRun(d)'
    <3>1. dq'[d].put_index = p + 1 /\ dq'[d].get_index = g
      BY <1>6
    <3>. HIDE DEF p, g
    <3>2. g <= p + 1 /\ p + 1 <= DqStart + pushes' /\ p + 1 - g <= DqSize
      BY <1>2, <1>3
    <3>. QED BY <1>2, <1>4, <3>1, <3>2 DEF DqRun
  <2>. QED BY <2>1, <2>2 DEF DqOrder
<1>9. p % DqSize \in 0 .. (DqSize - 1)
  BY <1>2, <1>4, DivMod
<1>10. new \in DqBlock(X) /\ old \in DqBlock(X)
  <2>1. p + 1 \in Index
    <3>. HIDE DEF p
    <3>. QED BY <1>2, <1>4 DEF Index
  <2>2. cells \in [0 .. (DqSize - 1) -> X] /\ old.queue \in [0 .. (DqSize - 1) -> X]
    BY <1>2, <1>9
  <2>3. g \in Index
    BY <1>2 DEF Index
  <2>4. old \in DqBlock(X)
    BY <1>2, <2>2 DEF DqBlock
  <2>. HIDE DEF cells, X, p, g
  <2>. QED BY <2>1, <2>2, <2>3, <2>4 DEF DqBlock
<1>11. DataIn(d) = Ring(old) /\ DataIn(d)' = Ring(new)
  <2>1. new.get_index <= new.put_index /\ old.get_index <= old.put_index
    <3>1. g <= p + 1
      <4>. HIDE DEF p, g
      <4>. QED BY <1>2
    <3>. QED BY <1>2, <3>1
  <2>2. PICK r : r = new
    OBVIOUS
  <2>3. DataIn(d)' = [i \in 1 .. ((r.put_index - r.get_index) % IndexMod) |->
                         r.queue[((r.get_index + i - 1) % IndexMod) % DqSize]]
    BY <1>6, <2>2 DEF DataIn
  <2>4. DataIn(d)' = Ring(r)
    <3>1. r \in DqBlock(X) /\ r.get_index <= r.put_index
      BY <1>10, <2>1, <2>2
    <3>. QED BY <2>3, <3>1, RingIs
  <2>5. DataIn(d) = Ring(old)
    BY <1>2, <2>1, RingIs DEF DataIn
  <2>. QED BY <2>2, <2>4, <2>5
<1>12. Ring(new) = Append(Ring(old), v) /\ Len(Ring(old)) < DqSize
  <2>1. /\ new.queue = cells /\ new.put_index = p + 1 /\ new.get_index = g /\ v \in X
        /\ cells = [old.queue EXCEPT ![p % DqSize] = v]
    OBVIOUS
  <2>2. p - g < DqSize
    <3>. HIDE DEF p, g
    <3>. QED BY <1>2, <1>3
  <2>3. Len(Ring(old)) = p - g
    BY <1>2, RingOK
  <2>4. PICK r, s : r = old /\ s = new
    OBVIOUS
  <2>. HIDE DEF new, cells, X
  <2>5. /\ r \in DqBlock(X) /\ s \in DqBlock(X) /\ v \in X
        /\ r.get_index <= r.put_index /\ r.put_index - r.get_index < DqSize
        /\ s.queue = [r.queue EXCEPT ![r.put_index % DqSize] = v]
        /\ s.put_index = r.put_index + 1 /\ s.get_index = r.get_index
    BY <1>2, <1>10, <2>1, <2>2, <2>4
  <2>6. Ring(s) = Append(Ring(r), v)
    BY <2>5, RingAppend
  <2>. QED BY <2>2, <2>3, <2>4, <2>6
<1>. QED BY <1>7, <1>8, <1>11, <1>12

LEMMA PopOrder ==
    ASSUME DqShape, NoWrap, DqOrder, NEW d \in DataQueues, Popped(d), pushes' = pushes
    PROVE  /\ DqOrder' /\ DataBut(d)
           /\ DataIn(d) # <<>> /\ DataIn(d)' = Tail(DataIn(d))
           /\ Head(DataIn(d)) = dq[d].queue[dq[d].get_index % DqSize]
<1>1. PICK S : dq \in [DataQueues -> DqBlock(S)]
  BY DEF DqShape
<1>2. PICK r, s, p, g : /\ r = dq[d] /\ s = dq'[d]
                        /\ p = r.put_index /\ g = r.get_index
  OBVIOUS
<1>3. /\ r \in DqBlock(S) /\ p \in 0 .. (IndexMod - 1) /\ g \in 0 .. (IndexMod - 1) /\ g <= p
      /\ IndexMod \in Nat \ {0} /\ DqSize \in Nat \ {0}
      /\ p <= DqStart + pushes /\ p - g <= DqSize /\ pushes \in Nat /\ DqStart \in Nat
  BY <1>1, <1>2, DataQueueAssumption DEF DqBlock, Index, DqOrder, DqRun, DqShape
<1>4. /\ g # p /\ s.queue = r.queue /\ s.put_index = p /\ s.get_index = (g + 1) % IndexMod
      /\ \A c \in DataQueues : c # d => dq'[c] = dq[c]
  BY <1>1, <1>2 DEF Popped, DqBlock
<1>5. g < p /\ g + 1 <= p /\ g \in Nat /\ p \in Nat /\ g + 1 \in 0 .. (IndexMod - 1)
  BY <1>3, <1>4
<1>6. (g + 1) % IndexMod = g + 1
  <2>1. \A i \in 0 .. (IndexMod - 1) : i + 1 # IndexMod => (i + 1) % IndexMod = i + 1
    BY <1>3, WrapNext
  <2>2. g + 1 # IndexMod
    BY <1>3, <1>5
  <2>. QED BY <1>3, <2>1, <2>2
<1>7. s \in DqBlock(S)
  <2>1. dq' \in [DataQueues -> DqBlock(S)]
    <3>1. (dq[d].get_index + 1) % IndexMod \in Index
      BY <1>2, <1>5, <1>6 DEF Index
    <3>. QED BY <1>1, <3>1 DEF Popped, DqBlock
  <2>. QED BY <1>2, <2>1
<1>8. DqOrder'
  <2>1. ASSUME NEW c \in DataQueues, c # d
        PROVE  DqRun(c)'
    BY <1>4, <2>1 DEF DqOrder, DqRun
  <2>2. DqRun(d)'
    <3>1. g + 1 <= p /\ p <= DqStart + pushes' /\ p - (g + 1) <= DqSize
      BY <1>3, <1>5
    <3>. QED BY <1>2, <1>4, <1>6, <3>1 DEF DqRun
  <2>. QED BY <2>1, <2>2 DEF DqOrder
<1>9. DataBut(d)
  BY <1>4 DEF DataBut, DataIn
<1>10. DataIn(d) = Ring(r) /\ DataIn(d)' = Ring(s)
  <2>1. DataIn(d) = [i \in 1 .. ((r.put_index - r.get_index) % IndexMod) |->
                        r.queue[((r.get_index + i - 1) % IndexMod) % DqSize]]
    BY <1>2 DEF DataIn
  <2>2. DataIn(d)' = [i \in 1 .. ((s.put_index - s.get_index) % IndexMod) |->
                         s.queue[((s.get_index + i - 1) % IndexMod) % DqSize]]
    BY <1>2 DEF DataIn
  <2>3. r.get_index <= r.put_index /\ s.get_index <= s.put_index
    BY <1>2, <1>3, <1>4, <1>5, <1>6
  <2>. QED BY <1>3, <1>7, <2>1, <2>2, <2>3, RingIs
<1>11. /\ Ring(r) # <<>> /\ Head(Ring(r)) = r.queue[r.get_index % DqSize]
       /\ Ring(s) = Tail(Ring(r))
  BY <1>2, <1>3, <1>4, <1>5, <1>6, <1>7, RingTail, ZenonT(60)
<1>. QED BY <1>2, <1>8, <1>9, <1>10, <1>11

LEMMA DataSame ==
    ASSUME UNCHANGED dqVars
    PROVE  (\A d \in DataQueues : DataIn(d)' = DataIn(d)) /\ (DqOrder => DqOrder')
BY DEF dqVars, DataIn, DqOrder, DqRun

\* What a step of the data queues does to queue d, if to any, and to what threads
\* have.
DqRests == UNCHANGED dqVars /\ (HeldSame \/ \E t : Uses(t))

DqMoves(d) ==
    \/ DqRests
    \/ (\E v \in Data : Pushed(d, v)) /\ HeldSame
    \/ /\ Popped(d) /\ pushes' = pushes
       /\ \E t : Gets(t, dq[d].queue[dq[d].get_index % DqSize])

LEMMA DqTurnMoves ==
    ASSUME SvcInv, ItemShape, LoadInv, mq' = mq, NEW t, NEW p, At(t, p), p \notin Received,
           NEW d, NEW time,
           \/ \E v \in Data : Push(t, d, v) \/ PushBlock(t, d, v, time)
           \/ Pop(t, d) \/ PopBlock(t, d, time)
    PROVE  LoadInv' /\ DqMoves(d)
<1>1. ASSUME NEW v, v \in Data, Push(t, d, v)
      PROVE  LoadInv' /\ DqMoves(d)
  <2>1. Pushed(d, v) /\ StepsOn(t, Laden)
    BY <1>1, WaysOn, LightOK DEF Push, Pushed
  <2>. QED BY <1>1, <2>1, EndsHeld DEF DqMoves, DqRests
<1>2. ASSUME NEW v, v \in Data, PushBlock(t, d, v, time)
      PROVE  LoadInv' /\ DqMoves(d)
  <2>1. UNCHANGED dqVars /\ Go(t, "dqp_sched") /\ item' = [item EXCEPT ![t] = v]
        /\ arg' = [arg EXCEPT ![t] = d]
    BY <1>2 DEF PushBlock, Block, Proceed
  <2>2. Turns(t, p, "dqp_sched", v)
    BY <2>1, TurnsOK
  <2>. QED BY <1>2, <2>1, <2>2, TurnsDo, NothingAt DEF DqMoves, DqRests
<1>3. CASE Pop(t, d)
  <2>. DEFINE x == dq[d].queue[dq[d].get_index % DqSize]
  <2>1. /\ dq[d].get_index # dq[d].put_index
        /\ dq' = [dq EXCEPT ![d] = [dq[d] EXCEPT !.get_index = (@ + 1) % IndexMod]]
        /\ pushes' = pushes
        /\ item' = [item EXCEPT ![t] = x] /\ arg' = [arg EXCEPT ![t] = d]
        /\ Go(t, "dq_got") \/ Go(t, "dq_got_sched")
    BY <1>3 DEF Pop, Proceed
  <2>2. Popped(d)
    BY <2>1, Zenon DEF Popped
  <2>3. PICK q : q \in {"dq_got", "dq_got_sched"} /\ Go(t, q)
    BY <2>1
  <2>4. q \in GotPlaces
    BY <2>3 DEF GotPlaces
  <2>5. Turns(t, p, q, x)
    BY <2>1, <2>3, TurnsOK
  <2>6. LoadInv' /\ Gets(t, x)
    BY <2>4, <2>5, TurnsDo
  <2>. QED BY <2>1, <2>2, <2>6 DEF DqMoves, DqRests
<1>4. CASE PopBlock(t, d, time)
  <2>1. UNCHANGED dqVars /\ StepsOn(t, Laden)
    BY <1>4, WaysOn, LightOK DEF PopBlock, Laden, MqHold, MailHold, DqHold
  <2>. QED BY <2>1, EndsHeld DEF DqMoves, DqRests
<1>. QED BY <1>1, <1>2, <1>3, <1>4

LEMMA DqCallMoves ==
    ASSUME SvcInv, ItemShape, LoadInv, mq' = mq, NEW t, DqCall(t)
    PROVE  LoadInv' /\ (DqRests \/ \E d \in DataQueues : DqMoves(d))
<1>1. PICK d \in DataQueues :
         \/ \E v \in Data, time \in DqTimes : rt_data_queue_push(t, d, v, time)
         \/ \E time \in DqTimes : rt_data_queue_pop(t, d, time)
         \/ rt_data_queue_reset(t, d) /\ UNCHANGED <<left, item, dq, pushes>>
  BY DEF DqCall
<1>2. ASSUME At(t, "run"), Leave(t), UNCHANGED dqVars
      PROVE  LoadInv' /\ DqMoves(d)
  <2>1. StepsOn(t, Laden)
    BY <1>2, WaysOn, LightOK
  <2>. QED BY <1>2, <2>1, EndsHeld, NothingAt DEF DqMoves, DqRests
<1>3. ASSUME NEW v \in Data, NEW time \in DqTimes, rt_data_queue_push(t, d, v, time)
      PROVE  LoadInv' /\ DqMoves(d)
  <2>1. /\ At(t, "run")
        /\ Push(t, d, v) \/ PushBlock(t, d, v, time) \/ (Leave(t) /\ UNCHANGED dqVars)
    BY <1>3 DEF rt_data_queue_push, Calls, dqVars
  <2>. QED BY <1>2, <2>1, DqTurnMoves, NothingAt
<1>4. ASSUME NEW time \in DqTimes, rt_data_queue_pop(t, d, time)
      PROVE  LoadInv' /\ DqMoves(d)
  <2>1. /\ At(t, "run")
        /\ Pop(t, d) \/ PopBlock(t, d, time) \/ (Leave(t) /\ UNCHANGED dqVars)
    BY <1>4 DEF rt_data_queue_pop, Calls, dqVars
  <2>. QED BY <1>2, <2>1, DqTurnMoves, NothingAt
<1>5. CASE rt_data_queue_reset(t, d) /\ UNCHANGED <<left, item, dq, pushes>>
  <2>1. Calls(t, d) /\ Proceed(t, d, "dqx_test") /\ UNCHANGED dqVars
    BY <1>5 DEF rt_data_queue_reset, dqVars
  <2>2. "dqx_test" \notin Laden
    BY DEF Laden, MqHold, MailHold, DqHold
  <2>3. Onward(t, Laden)
    BY <1>5, <2>1, <2>2, WaysOn, LightOK, CallOnward
  <2>. QED BY <2>1, <2>3, OnwardHeld DEF DqMoves, DqRests
<1>. QED BY <1>1, <1>3, <1>4, <1>5

LEMMA DqStepMoves ==
    ASSUME SvcInv, ItemShape, LoadInv, mq' = mq, NEW t \in Threads, DqStep(t)
    PROVE  LoadInv' /\ (DqRests \/ \E d \in DataQueues : DqMoves(d))
<1>. DEFINE d == arg[t]
<1>1. ASSUME NEW p \in DqPlaces, At(t, p), p # "dqx_sched"
      PROVE  d \in DataQueues
  <2>1. t \in Threads /\ Fits(t, p, arg[t]) /\ pc[t] = p
    BY <1>1, AtFits
  <2>. QED BY <1>1, <2>1 DEF Fits, DqPlaces
<1>2. {"dqp_sched", "dqp_woken", "dqg_sched", "dqg_woken", "dq_got", "dq_got_sched"}
         \subseteq DqPlaces
  BY DEF DqPlaces
<1>. HIDE DEF d
<1>3. CASE PushWoken(t)
  <2>1. /\ At(t, "dqp_woken")
        /\ \/ Failed(t) /\ UNCHANGED dqVars
           \/ \E time : Push(t, d, item[t]) \/ PushBlock(t, d, item[t], time)
    BY <1>3 DEF PushWoken, d
  <2>2. d \in DataQueues /\ item[t] \in Data
    BY <1>1, <1>2, <2>1 DEF LoadInv, Load, At
  <2>3. CASE Failed(t) /\ UNCHANGED dqVars
    <3>1. StepsOn(t, Laden)
      BY <2>3, WaysOn, LightOK
    <3>. QED BY <2>1, <2>3, <3>1, EndsHeld, NothingAt DEF DqRests
  <2>. QED BY <2>1, <2>2, <2>3, DqTurnMoves, NothingAt
<1>4. CASE PopWoken(t)
  <2>1. /\ At(t, "dqg_woken")
        /\ \/ Failed(t) /\ UNCHANGED dqVars
           \/ \E time : Pop(t, d) \/ PopBlock(t, d, time)
    BY <1>4 DEF PopWoken, d
  <2>2. d \in DataQueues
    BY <1>1, <1>2, <2>1
  <2>3. CASE Failed(t) /\ UNCHANGED dqVars
    <3>1. StepsOn(t, Laden)
      BY <2>3, WaysOn, LightOK
    <3>. QED BY <2>1, <2>3, <3>1, EndsHeld, NothingAt DEF DqRests
  <2>. QED BY <2>1, <2>2, <2>3, DqTurnMoves, NothingAt
<1>5. CASE PopReturn(t)
  <2>1. At(t, "dq_got") /\ UNCHANGED dqVars /\ StepsOn(t, Laden)
    BY <1>5, WaysOn, LightOK DEF PopReturn, dqVars
  <2>. QED BY <2>1, EndsHeld DEF DqRests
<1>6. ASSUME NEW p, NEW q, Resched(t, p, q), item' = item
      PROVE  At(t, p) /\ Turns(t, p, q, item[t])
  BY <1>6, TurnsOK DEF Resched
<1>7. CASE Resched(t, "dqp_sched", "dqp_woken") /\ item' = item /\ UNCHANGED dqVars
  <2>1. At(t, "dqp_sched") /\ Turns(t, "dqp_sched", "dqp_woken", item[t])
    BY <1>6, <1>7
  <2>2. item[t] \in Data
    BY <2>1 DEF LoadInv, Load, At
  <2>. QED BY <1>7, <2>1, <2>2, TurnsDo, NothingAt DEF DqRests
<1>8. CASE Resched(t, "dq_got_sched", "dq_got") /\ item' = item /\ UNCHANGED dqVars
  <2>1. At(t, "dq_got_sched") /\ Turns(t, "dq_got_sched", "dq_got", item[t])
    BY <1>6, <1>8
  <2>. QED BY <1>8, <2>1, TurnsDo DEF DqRests, GotPlaces
<1>9. ASSUME Onward(t, Laden), UNCHANGED dqVars
      PROVE  LoadInv' /\ DqRests
  BY <1>9, OnwardHeld DEF DqRests
<1>10. /\ "dqg_sched" \notin Laden /\ "dqg_woken" \notin Laden /\ "dqx_test" \notin Laden
       /\ "dqx_wake" \notin Laden /\ "dqx_test2" \notin Laden /\ "dqx_wake2" \notin Laden
       /\ "dqx_exit" \notin Laden /\ "dqx_sched" \notin Laden /\ "ret_sched" \notin Laden
  BY DEF Laden, MqHold, MailHold, DqHold
<1>11. CASE Resched(t, "dqg_sched", "dqg_woken") /\ item' = item /\ UNCHANGED dqVars
  BY <1>9, <1>10, <1>11, ReschedOnward, LightOK
<1>12. CASE DqResetSteps(t) /\ item' = item /\ UNCHANGED dqVars
  <2>1. CASE \/ ResumeAllTest(t, suspended_pop_list(d), "dqx_test", "dqx_wake", "dqx_test2")
             \/ ResumeAllWake(t, suspended_pop_list(d), "dqx_wake", "dqx_test")
    BY <1>9, <1>10, <1>12, <2>1, WalkOnward, LightOK
  <2>2. CASE \/ ResumeAllTest(t, suspended_push_list(d), "dqx_test2", "dqx_wake2", "dqx_exit")
             \/ ResumeAllWake(t, suspended_push_list(d), "dqx_wake2", "dqx_test2")
    BY <1>9, <1>10, <1>12, <2>2, WalkOnward, LightOK
  <2>3. CASE ResetUnlock(t)
    <3>1. At(t, "dqx_exit") /\ Proceed(t, None, "dqx_sched")
      BY <2>3 DEF ResetUnlock
    <3>2. Onward(t, Laden)
      BY <1>10, <1>12, <3>1, WaysOn, LightOK DEF Onward
    <3>. QED BY <1>9, <1>12, <3>2
  <2>4. CASE Resched(t, "dqx_sched", "ret_sched")
    BY <1>9, <1>10, <1>12, <2>4, ReschedOnward, LightOK
  <2>. QED BY <1>12, <2>1, <2>2, <2>3, <2>4 DEF DqResetSteps, d
<1>. QED BY <1>3, <1>4, <1>5, <1>7, <1>8, <1>11, <1>12 DEF DqStep, dqVars

LEMMA DqNextMoves ==
    ASSUME SvcInv, ItemShape, LoadInv, mq' = mq, DqNext
    PROVE  LoadInv' /\ (DqRests \/ \E d \in DataQueues : DqMoves(d))
<1>1. CASE DqIsr
  <2>1. PICK d \in DataQueues, v \in Data : IsrPush(d, v)
    BY <1>1 DEF DqIsr
  <2>2. Steady(Laden) /\ Pushed(d, v)
    BY <2>1, SameHands DEF IsrPush, Pushed
  <2>. QED BY <2>2, SteadyHeld DEF DqMoves
<1>. QED BY <1>1, DqCallMoves, DqStepMoves DEF DqNext

-----------------------------------------------------------------------------
(* What the steps of the message queue do to the sequence of messages.     *)

MessagesBut(m) == \A n \in Queues : n # m => MessagesIn(n)' = MessagesIn(n)

LEMMA MessagesSame ==
    ASSUME mq' = mq
    PROVE  \A n : MessagesIn(n)' = MessagesIn(n)
BY DEF MessagesIn

LEMMA MessagesNow ==
    ASSUME SlotInv, NEW m \in Queues, NEW x, mq' = [mq EXCEPT ![m] = x],
           NEW d, NEW e, Holds(x, d, e), Len(d) <= MqSize
    PROVE  MessagesIn(m)' = Contents(x.data, d) /\ MessagesBut(m)
<1>1. mq'[m] = x /\ \A n \in Queues : n # m => mq'[n] = mq[n]
  BY DEF SlotInv
<1>2. Chain(x, x.head) = d
  BY ChainIs DEF Holds
<1>3. MessagesIn(m)' = Contents(x.data, d)
  BY <1>1, <1>2 DEF MessagesIn, Contents
<1>. QED BY <1>1, <1>3 DEF MessagesBut, MessagesIn

\* Queue m becomes x, which differs in the contents of slot s at most.
Rewrites(m, x, s) ==
    /\ mq' = [mq EXCEPT ![m] = x]
    /\ x.data = mq[m].data \/ \E v : x.data = [mq[m].data EXCEPT ![s] = v]

\* A thread that does nothing keeps what it has, when its slot is not written.
LEMMA HeldBeside ==
    ASSUME SvcInv, SlotInv, NEW m \in Queues, NEW x, NEW s, Rewrites(m, x, s),
           NEW u \in Threads, pc'[u] = pc[u], arg'[u] = arg[u], item'[u] = item[u],
           u \in Holders(m) => item[u] \in Slots /\ item[u] # s
    PROVE  Held(u)' = Held(u) /\ (Load(u) => Load(u)')
<1>1. ASSUME pc[u] = "mqr_copy"
      PROVE  mq'[arg[u]].data[item[u]] = mq[arg[u]].data[item[u]]
  <2>1. pc[u] \in MqPlaces /\ Fits(u, pc[u], arg[u]) /\ pc[u] \in MqHold
    BY <1>1 DEF MqPlaces, SvcInv, MqHold
  <2>2. arg[u] \in Queues
    BY <2>1 DEF Fits, MqPlaces
  <2>3. CASE arg[u] = m
    <3>1. item[u] \in Slots /\ item[u] # s
      BY <2>1, <2>3 DEF Holders
    <3>2. mq'[m] = x /\ mq[m].data \in [Slots -> Messages \union {None}]
      BY DEF SlotInv, SlotState, Rewrites
    <3>3. x.data[item[u]] = mq[m].data[item[u]]
      BY <3>1, <3>2 DEF Rewrites
    <3>. QED BY <2>3, <3>2, <3>3
  <2>4. CASE arg[u] # m
    BY <2>2, <2>4 DEF SlotInv, Rewrites
  <2>. QED BY <2>3, <2>4
<1>. QED BY <1>1, HeldStill

\* Nobody's hands are concerned.
LEMMA HeldSteady ==
    ASSUME SvcInv, SlotInv, LoadInv, NEW m \in Queues, NEW x, NEW s, Rewrites(m, x, s),
           Steady(Laden), NEW c, NEW f, Accounted(m, c, f), s \notin Slots \/ s \in ToSet(f)
    PROVE  HeldSame /\ LoadInv'
<1>1. \A u \in Holders(m) : item[u] \in Slots /\ item[u] # s
  BY DEF Accounted, Owners
<1>2. ASSUME NEW u \in Threads
      PROVE  Held(u)' = Held(u) /\ Load(u)'
  <2>1. CASE pc[u] \in Laden \/ pc'[u] \in Laden
    <3>1. pc'[u] = pc[u] /\ arg'[u] = arg[u] /\ item'[u] = item[u]
      BY <2>1 DEF Steady
    <3>2. Held(u)' = Held(u) /\ (Load(u) => Load(u)')
      BY <1>1, <3>1, HeldBeside
    <3>. QED BY <3>2 DEF LoadInv
  <2>2. CASE ~(pc[u] \in Laden \/ pc'[u] \in Laden)
    <3>1. Load(u)'
      BY <2>2 DEF Load, Laden, MailHold, DqHold
    <3>. QED BY <2>2, <3>1, HeldIs, NothingAt
  <2>. QED BY <2>1, <2>2
<1>. QED BY <1>2 DEF HeldSame, LoadInv

\* Thread t takes slot s into its hands; its contents stay.
LEMMA HeldGrab ==
    ASSUME SvcInv, SlotInv, LoadInv, NEW m \in Queues, NEW x, mq' = [mq EXCEPT ![m] = x],
           x.data = mq[m].data, NEW t, NEW s, NEW P \in SUBSET MqHold, Grabs(t, m, s, P)
    PROVE  /\ LoadInv'
           /\ P = Sending => HeldSame
           /\ P = {"mqr_copy"} => Gets(t, mq[m].data[s])
<1>1. \A u \in Holders(m) : item[u] \in Slots /\ item[u] # None
  BY NotASlot DEF SlotInv, Accounted, Owners
<1>2. Rewrites(m, x, None)
  BY DEF Rewrites
<1>3. ASSUME NEW u \in Threads, u # t
      PROVE  Held(u)' = Held(u) /\ Load(u)'
  <2>1. pc'[u] = pc[u] /\ arg'[u] = arg[u] /\ item'[u] = item[u]
    BY <1>3 DEF Grabs
  <2>2. Held(u)' = Held(u) /\ (Load(u) => Load(u)')
    BY <1>1, <1>2, <2>1, HeldBeside
  <2>. QED BY <2>2 DEF LoadInv
<1>4. /\ t \in Threads /\ pc[t] \notin Laden /\ pc'[t] \in P /\ arg'[t] = m
      /\ item'[t] = s
  BY DEF Grabs
<1>5. Load(t)'
  BY <1>4 DEF Load, MqHold
<1>6. Held(t) = None
  BY <1>4, HeldIs, NothingAt
<1>7. ASSUME P = Sending
      PROVE  Held(t)' = None
  <2>1. pc'[t] \notin Received
    BY <1>4, <1>7 DEF Sending, Received, GotPlaces
  <2>. QED BY <2>1, HeldIs
<1>8. ASSUME P = {"mqr_copy"}
      PROVE  Held(t)' = mq[m].data[s]
  <2>1. pc'[t] = "mqr_copy" /\ mq'[m] = x
    BY <1>4, <1>8 DEF SlotInv
  <2>. QED BY <1>4, <2>1, HeldIs
<1>. QED BY <1>3, <1>4, <1>5, <1>6, <1>7, <1>8 DEF HeldSame, Gets, LoadInv

\* Thread t gives its slot out of its hands, and may have written it.
LEMMA HeldYield ==
    ASSUME SvcInv, SlotInv, LoadInv, NEW m \in Queues, NEW x, NEW t, NEW P, Yields(t, m, P),
           Rewrites(m, x, item[t])
    PROVE  LoadInv' /\ Uses(t) /\ (P = Sending => HeldSame)
<1>1. /\ \A u \in Holders(m) : item[u] \in Slots
      /\ \A u, v \in Holders(m) : item[u] = item[v] => u = v
  BY DEF SlotInv, Accounted, Owners
<1>2. t \in Holders(m) /\ t \in Threads /\ pc[t] \in P /\ pc'[t] \notin Laden
  BY DEF Yields, Holders
<1>3. ASSUME NEW u \in Threads, u # t
      PROVE  Held(u)' = Held(u) /\ Load(u)'
  <2>1. pc'[u] = pc[u] /\ arg'[u] = arg[u] /\ item'[u] = item[u]
    BY <1>3 DEF Yields
  <2>2. u \in Holders(m) => item[u] \in Slots /\ item[u] # item[t]
    BY <1>1, <1>2, <1>3
  <2>3. Held(u)' = Held(u) /\ (Load(u) => Load(u)')
    BY <2>1, <2>2, HeldBeside
  <2>. QED BY <2>3 DEF LoadInv
<1>4. Load(t)'
  BY <1>2 DEF Load, Laden, MailHold, DqHold
<1>5. Held(t)' = None
  BY <1>2, HeldIs, NothingAt
<1>6. ASSUME P = Sending
      PROVE  Held(t) = None
  <2>1. pc[t] \notin Received
    BY <1>2, <1>6 DEF Sending, Received, GotPlaces
  <2>. QED BY <2>1, HeldIs
<1>. QED BY <1>2, <1>3, <1>4, <1>5, <1>6 DEF HeldSame, Uses, LoadInv

\* There is room for a message while a slot is free or in the hands of a thread.
LEMMA Room ==
    ASSUME NEW m, NEW c, NEW f, Accounted(m, c, f), f # <<>> \/ Holders(m) # {}
    PROVE  Len(c) < MqSize
<1>1. /\ c \in Seq(Slots) /\ f \in Seq(Slots) /\ Len(c) \in Nat /\ Len(f) \in Nat
      /\ (Len(c) + Len(f)) + Cardinality(Holders(m)) = MqSize
  BY HoldsFacts DEF Accounted, Owners
<1>2. IsFiniteSet(Holders(m)) /\ Cardinality(Holders(m)) \in Nat
  BY HoldersFinite
<1>3. Len(f) > 0 \/ Cardinality(Holders(m)) > 0
  <2>1. f # <<>> => Len(f) > 0
    BY <1>1, EmptySeq
  <2>2. Holders(m) # {} => Cardinality(Holders(m)) # 0
    BY <1>2, FS_EmptySet
  <2>. QED BY <1>2, <2>1, <2>2
<1>4. \A i, j, n \in Nat : (i + j) + n = MqSize /\ (j > 0 \/ n > 0) => i < MqSize
  OBVIOUS
<1>. QED BY <1>1, <1>2, <1>3, <1>4

\* What a step of the message queues does to the messages of queue m and to what
\* threads have.
MqFlows(m) ==
    \/ MessagesIn(m)' = MessagesIn(m) /\ (HeldSame \/ \E t : Uses(t))
    \/ MessagesIn(m)' = <<>> /\ HeldSame
    \/ /\ Len(MessagesIn(m)) < MqSize /\ HeldSame
       /\ \E v \in Messages : \/ MessagesIn(m)' = Append(MessagesIn(m), v)
                              \/ MessagesIn(m)' = <<v>> \o MessagesIn(m)
    \/ /\ MessagesIn(m) # <<>> /\ MessagesIn(m)' = Tail(MessagesIn(m))
       /\ \E t : Gets(t, Head(MessagesIn(m)))

\* A message put into slot s, at either end of the queue.
LEMMA LinkFlows ==
    ASSUME SlotInv, NEW m \in Queues, NEW b, NEW c, NEW f, NEW s, NEW v \in Messages,
           Holds(b, c, f), Spare(s, c, f), b.data = mq[m].data,
           MessagesIn(m) = Contents(mq[m].data, c), Len(c) < MqSize,
           NEW x, x = LinkedLast(b, s, v) \/ x = LinkedFirst(b, s, v), mq' = [mq EXCEPT ![m] = x]
    PROVE  /\ MessagesBut(m) /\ Rewrites(m, x, s)
           /\ Len(MessagesIn(m)) < MqSize
           /\ \/ MessagesIn(m)' = Append(MessagesIn(m), v)
              \/ MessagesIn(m)' = <<v>> \o MessagesIn(m)
<1>1. PICK data : data = mq[m].data
  OBVIOUS
<1>2. /\ data \in Cells /\ c \in Seq(Slots) /\ s \in Slots
      /\ s \notin ToSet(c) /\ Len(c) \in Nat
  BY <1>1, HoldsFacts DEF SlotInv, SlotState, Spare, Cells
<1>3. Len(MessagesIn(m)) < MqSize
  <2>1. Len(Contents(data, c)) = Len(c)
    BY <1>2, ContentsOK, ZenonT(60) DEF Cells
  <2>. QED BY <1>1, <2>1
<1>4. Len(c) + 1 <= MqSize
  <2>1. \A n \in Nat : n < MqSize => n + 1 <= MqSize
    BY MessageQueueAssumption
  <2>. QED BY <1>2, <2>1
<1>5. CASE x = LinkedLast(b, s, v)
  <2>1. /\ Holds(x, Append(c, s), f) /\ Len(Append(c, s)) = Len(c) + 1
        /\ x.data = [data EXCEPT ![s] = v]
    BY <1>1, <1>5, LastHolds
  <2>2. MessagesIn(m)' = Contents(x.data, Append(c, s)) /\ MessagesBut(m)
    BY <1>4, <2>1, MessagesNow
  <2>3. Contents(x.data, Append(c, s)) = Append(Contents(data, c), v)
    <3>1. PICK new : new = x.data
      OBVIOUS
    <3>2. Written(new, data, s, v)
      BY <1>2, <2>1, <3>1 DEF Written, Cells
    <3>3. \A d : Appended(d, c, s) => Appended(Contents(new, d), Contents(data, c), v)
      BY <1>2, <3>2, ContentsLast
    <3>. QED BY <3>1, <3>3 DEF Appended
  <2>. QED BY <1>1, <1>3, <2>1, <2>2, <2>3 DEF Rewrites
<1>6. CASE x = LinkedFirst(b, s, v)
  <2>1. /\ Holds(x, Cons(s, c), f) /\ Len(Cons(s, c)) = Len(c) + 1
        /\ x.data = [data EXCEPT ![s] = v]
    BY <1>1, <1>6, FirstHolds
  <2>2. MessagesIn(m)' = Contents(x.data, Cons(s, c)) /\ MessagesBut(m)
    BY <1>4, <2>1, MessagesNow
  <2>3. Contents(x.data, Cons(s, c)) = <<v>> \o Contents(data, c)
    <3>1. PICK new : new = x.data
      OBVIOUS
    <3>2. Written(new, data, s, v)
      BY <1>2, <2>1, <3>1 DEF Written, Cells
    <3>3. \A d : d = Cons(s, c) => Contents(new, d) = <<v>> \o Contents(data, c)
      BY <1>2, <3>2, ContentsFirst
    <3>. QED BY <3>1, <3>3
  <2>. QED BY <1>1, <1>3, <2>1, <2>2, <2>3 DEF Rewrites
<1>. QED BY <1>5, <1>6

LEMMA MqMovesFlow ==
    ASSUME SvcInv, SlotInv, LoadInv, NEW m \in Queues, MqMoves(m)
    PROVE  LoadInv' /\ MessagesBut(m) /\ MqFlows(m)
<1>1. PICK c, f : Accounted(m, c, f)
  BY DEF SlotInv
<1>. DEFINE b == mq[m]
<1>2. Holds(b, c, f) /\ Len(c) \in Nat /\ Len(f) \in Nat /\ Len(c) <= MqSize /\ b.entry = Len(c)
  BY <1>1, AtMostSize DEF Accounted, Holds
<1>3. MessagesIn(m) = Contents(b.data, c)
  BY <1>1, MessagesAre
<1>4. b.data \in [Slots -> Messages \union {None}] /\ c \in Seq(Slots) /\ None \notin Slots
  BY <1>2, HoldsFacts, NotASlot DEF SlotInv, SlotState
<1>. HIDE DEF b
<1>5. CASE mq' = mq /\ Steady(Laden)
  BY <1>5, SteadyHeld, MessagesSame DEF MqFlows, MessagesBut
<1>6. CASE mq' = [mq EXCEPT ![m] = Drained(b)] /\ Steady(Laden)
  <2>1. PICK x, e : DrainedTo(b, c, f, x, <<>>, e) /\ x = Drained(b)
    BY <1>2, DrainedHolds
  <2>2. Holds(x, <<>>, e) /\ x.data = b.data /\ mq' = [mq EXCEPT ![m] = x] /\ Len(<<>>) <= MqSize
    BY <1>6, <2>1, MessageQueueAssumption DEF DrainedTo
  <2>3. MessagesIn(m)' = <<>> /\ MessagesBut(m)
    BY <2>2, MessagesNow, ContentsEmpty
  <2>4. Rewrites(m, x, None)
    BY <2>2 DEF Rewrites, b
  <2>5. HeldSame /\ LoadInv'
    BY <1>1, <1>4, <1>6, <2>4, HeldSteady
  <2>. QED BY <2>3, <2>5 DEF MqFlows
<1>7. ASSUME NEW v \in Messages, b.free # None, Steady(Laden),
             \/ mq' = [mq EXCEPT ![m] = LinkedLast(Allocated(b), b.free, v)]
             \/ mq' = [mq EXCEPT ![m] = LinkedFirst(Allocated(b), b.free, v)]
      PROVE  LoadInv' /\ MessagesBut(m) /\ MqFlows(m)
  <2>1. PICK a, s, g : a = Allocated(b) /\ s = b.free /\ g = Tail(f)
    OBVIOUS
  <2>2. /\ Holds(a, c, g) /\ Spare(s, c, g) /\ ToSet(f) = ToSet(g) \union {s} /\ a.data = b.data
    BY <1>2, <1>7, <2>1, AllocatedHolds
  <2>3. PICK x : /\ x = LinkedLast(a, s, v) \/ x = LinkedFirst(a, s, v)
                 /\ mq' = [mq EXCEPT ![m] = x]
    BY <1>7, <2>1
  <2>4. f # <<>>
    BY <1>2, <1>7, HoldsFacts
  <2>5. Len(c) < MqSize
    BY <1>1, <2>4, Room
  <2>6. a.data = mq[m].data /\ MessagesIn(m) = Contents(mq[m].data, c)
    BY <1>3, <2>2 DEF b
  <2>7. /\ MessagesBut(m) /\ Rewrites(m, x, s) /\ Len(MessagesIn(m)) < MqSize
        /\ \/ MessagesIn(m)' = Append(MessagesIn(m), v)
           \/ MessagesIn(m)' = <<v>> \o MessagesIn(m)
    BY <2>2, <2>3, <2>5, <2>6, LinkFlows
  <2>8. HeldSame /\ LoadInv'
    BY <1>1, <1>7, <2>2, <2>7, HeldSteady
  <2>. QED BY <2>7, <2>8 DEF MqFlows
<1>8. ASSUME NEW t, b.free # None, mq' = [mq EXCEPT ![m] = Allocated(b)],
             Grabs(t, m, b.free, Sending)
      PROVE  LoadInv' /\ MessagesBut(m) /\ MqFlows(m)
  <2>1. PICK x, s, g : x = Allocated(b) /\ s = b.free /\ g = Tail(f)
    OBVIOUS
  <2>2. Holds(x, c, g) /\ x.data = b.data /\ Grabs(t, m, s, Sending) /\ mq' = [mq EXCEPT ![m] = x]
    BY <1>2, <1>8, <2>1, AllocatedHolds
  <2>3. MessagesIn(m)' = MessagesIn(m) /\ MessagesBut(m)
    BY <1>2, <1>3, <2>2, MessagesNow
  <2>4. Sending \in SUBSET MqHold /\ x.data = mq[m].data
    BY <2>2 DEF Sending, MqHold, b
  <2>5. HeldSame /\ LoadInv'
    BY <2>2, <2>4, HeldGrab
  <2>. QED BY <2>3, <2>5 DEF MqFlows
<1>9. ASSUME NEW t, b.entry # 0, mq' = [mq EXCEPT ![m] = Unlinked(b)],
             Grabs(t, m, b.head, {"mqr_copy"})
      PROVE  LoadInv' /\ MessagesBut(m) /\ MqFlows(m)
  <2>1. c # <<>>
    BY <1>2, <1>9
  <2>2. PICK x, s, d : x = Unlinked(b) /\ s = b.head /\ d = Tail(c)
    OBVIOUS
  <2>3. /\ Holds(x, d, f) /\ x.data = b.data /\ s = Head(c) /\ Len(d) = Len(c) - 1
        /\ Grabs(t, m, s, {"mqr_copy"}) /\ mq' = [mq EXCEPT ![m] = x]
    BY <1>2, <1>9, <2>1, <2>2, UnlinkedHolds
  <2>4. Len(d) <= MqSize
    <3>1. \A n \in Nat : n <= MqSize => n - 1 <= MqSize
      BY MessageQueueAssumption
    <3>. QED BY <1>2, <2>3, <3>1
  <2>5. MessagesIn(m)' = Contents(b.data, d) /\ MessagesBut(m)
    BY <2>3, <2>4, MessagesNow
  <2>6. /\ MessagesIn(m) # <<>> /\ Head(MessagesIn(m)) = b.data[s]
        /\ MessagesIn(m)' = Tail(MessagesIn(m))
    BY <1>3, <1>4, <2>1, <2>2, <2>3, <2>5, ContentsTail
  <2>7. {"mqr_copy"} \in SUBSET MqHold /\ x.data = mq[m].data
    BY <2>3 DEF MqHold, b
  <2>8. Gets(t, mq[m].data[s]) /\ LoadInv'
    BY <2>3, <2>7, HeldGrab
  <2>9. Gets(t, Head(MessagesIn(m)))
    BY <2>6, <2>8 DEF b
  <2>. QED BY <2>5, <2>6, <2>8, <2>9 DEF MqFlows
<1>10. ASSUME NEW t, Yields(t, m, Sending), NEW v \in Messages,
              \/ mq' = [mq EXCEPT ![m] = LinkedLast(b, item[t], v)]
              \/ mq' = [mq EXCEPT ![m] = LinkedFirst(b, item[t], v)]
       PROVE  LoadInv' /\ MessagesBut(m) /\ MqFlows(m)
  <2>1. PICK s : s = item[t]
    OBVIOUS
  <2>2. Spare(s, c, f)
    BY <1>1, <1>10, <2>1, SlotYield
  <2>3. PICK x : /\ x = LinkedLast(b, s, v) \/ x = LinkedFirst(b, s, v)
                 /\ mq' = [mq EXCEPT ![m] = x]
    BY <1>10, <2>1
  <2>4. Len(c) < MqSize
    BY <1>1, <1>10, Room DEF Yields
  <2>5. b.data = mq[m].data /\ MessagesIn(m) = Contents(mq[m].data, c)
    BY <1>3 DEF b
  <2>6. /\ MessagesBut(m) /\ Rewrites(m, x, s) /\ Len(MessagesIn(m)) < MqSize
        /\ \/ MessagesIn(m)' = Append(MessagesIn(m), v)
           \/ MessagesIn(m)' = <<v>> \o MessagesIn(m)
    BY <1>2, <2>2, <2>3, <2>4, <2>5, LinkFlows
  <2>7. HeldSame /\ LoadInv'
    BY <1>10, <2>1, <2>6, HeldYield
  <2>. QED BY <2>6, <2>7 DEF MqFlows
<1>11. ASSUME NEW t, Yields(t, m, {"mqr_copy"}), mq' = [mq EXCEPT ![m] = Freed(b, item[t])]
       PROVE  LoadInv' /\ MessagesBut(m) /\ MqFlows(m)
  <2>1. PICK s, x : s = item[t] /\ x = Freed(b, s)
    OBVIOUS
  <2>2. Spare(s, c, f)
    BY <1>1, <1>11, <2>1, SlotYield
  <2>3. Holds(x, c, Cons(s, f)) /\ x.data = b.data /\ mq' = [mq EXCEPT ![m] = x]
    BY <1>2, <1>11, <2>1, <2>2, FreedHolds
  <2>4. MessagesIn(m)' = MessagesIn(m) /\ MessagesBut(m)
    BY <1>2, <1>3, <2>3, MessagesNow
  <2>5. Rewrites(m, x, item[t])
    BY <2>3 DEF Rewrites, b
  <2>6. Uses(t) /\ LoadInv'
    BY <1>11, <2>5, HeldYield
  <2>. QED BY <2>4, <2>6 DEF MqFlows
<1>. QED BY <1>5, <1>6, <1>7, <1>8, <1>9, <1>10, <1>11 DEF MqMoves, b
=============================================================================
