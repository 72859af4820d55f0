-------------------------- MODULE SemaphoreProofs --------------------------
(***************************************************************************)
(* The semaphore of module Semaphore keeps the kernel consistent, neither  *)
(* loses nor makes tokens, and has no token left while a thread waits, for *)
(* any number of threads, semaphores and priorities and for either flag.   *)
(***************************************************************************)
EXTENDS Semaphore, KernelProofs, FiniteSetTheorems

\* No semaphore is released so often that the 16-bit sem->value wraps.
ValueBounded == MaxValue < ValueMod

-----------------------------------------------------------------------------
(* The inductive invariant.                                                *)

Waiting == {"take_sched", "take_woken"}

InCall == Waiting \union {"det_test", "det_wake", "det_object"}

\* Where the current thread may be suspended, on its way to rt_schedule.
SemSched == {"take_sched", "sleep_sched"}

\* No semaphore call locks the scheduler.
SemLocked == {}

\* Where a thread on the list of s is: inside rt_sem_take of s.
SemWait == [s \in WaitLists |-> Waiting \X {s}]

\* The woken takers of s.
Takers(s) == {t \in Threads : Served(t, s, SemWait)}

\* TokensConserved and NoTokenWhileWaiting for one semaphore.
SemOK(s) ==
    /\ net[s] = value[s] + Cardinality(Takers(s))
    /\ ToSet(k.wait[s]) # {} => value[s] = 0

IInv ==
    /\ TypeOK
    /\ KernelInv(SemSched, SemLocked, SemWait)
    /\ \A t \in Threads : pc[t] \in InCall => arg[t] \in Objects
    /\ \A s \in Objects : SemOK(s)

-----------------------------------------------------------------------------
LEMMA TakersFinite ==
    ASSUME NEW s
    PROVE  IsFiniteSet(Takers(s)) /\ Cardinality(Takers(s)) \in Nat
<1>1. Takers(s) \in SUBSET Threads /\ IsFiniteSet(Threads)
  BY KernelAssumption DEF Takers
<1>. QED BY <1>1, FS_Subset, FS_CardinalityType

\* The pair of place and object of a thread tells the list it waits on.
LEMMA WaitPlaces ==
    ASSUME NEW p, NEW o, NEW s \in Objects
    PROVE  <<p, o>> \in SemWait[s] <=> p \in Waiting /\ o = s
BY SemaphoreAssumption DEF SemWait

LEMMA NoWaitPlaces ==
    ASSUME NEW p, NEW o, p \notin Waiting
    PROVE  \A w \in WaitLists : <<p, o>> \notin SemWait[w]
BY DEF SemWait

\* A step that serves nobody and changes no count.
LEMMA SemFrame ==
    ASSUME IInv, value' = value, net' = net,
           \A s \in Objects : ToSet(k'.wait[s]) \subseteq ToSet(k.wait[s]),
           \A t \in Threads, s \in Objects :
              Served(t, s, SemWait)' <=> Served(t, s, SemWait)
    PROVE  \A s \in Objects : SemOK(s)'
<1>. SUFFICES ASSUME NEW s \in Objects PROVE SemOK(s)'
  OBVIOUS
<1>1. SemOK(s)
  BY DEF IInv
<1>2. Takers(s)' = Takers(s)
  BY DEF Takers
<1>3. Cardinality(Takers(s))' = Cardinality(Takers(s))
  BY <1>2
<1>. QED BY <1>1, <1>3 DEF SemOK

\* A thread at a place outside rt_sem_take has not been served.
LEMMA OutsideUnserved ==
    ASSUME NEW t \in Threads, pc[t] \notin Waiting, NEW s \in Objects
    PROVE  ~Served(t, s, SemWait)
BY NoWaitPlaces, SemaphoreAssumption DEF Served

\* The tick interrupt.
LEMMA TickKeeps ==
    ASSUME IInv, Tick, Outside
    PROVE  IInv'
<1>1. pc' = pc /\ arg' = arg /\ alive' = alive /\ value' = value /\ net' = net
  BY DEF Outside
<1>2. /\ KernelInv(SemSched, SemLocked, SemWait)'
      /\ \A w \in WaitLists : ToSet(k'.wait[w]) \subseteq ToSet(k.wait[w])
      /\ \A x \in Threads, w \in WaitLists :
            Served(x, w, SemWait)' <=> Served(x, w, SemWait)
      /\ isr' \in {"none", "tick", "timeout"}
  BY <1>1, TickInv DEF IInv
<1>3. \A s \in Objects : SemOK(s)'
  BY <1>1, <1>2, SemFrame, SemaphoreAssumption
<1>4. TypeOK'
  BY <1>1, <1>2 DEF IInv, TypeOK, KernelInv, KernelOK, QueueOK
<1>. QED BY <1>1, <1>2, <1>3, <1>4 DEF IInv

-----------------------------------------------------------------------------
(* The steps of a thread inside the kernel.                                *)

LEMMA ReschedKeeps ==
    ASSUME IInv, NEW t \in Threads, UNCHANGED <<value, net>>,
           \/ Resched(t, "take_sched", "take_woken")
           \/ Resched(t, "rel_sched", "run")
           \/ Resched(t, "ctl_sched", "run")
           \/ Resched(t, "sleep_sched", "slept")
    PROVE  IInv'
<1>1. PICK p \in Places : /\ pc' = [pc EXCEPT ![t] = p]
                          /\ p \in {"take_woken", "run", "slept"}
                          /\ p \in Waiting <=> pc[t] \in Waiting
  BY DEF Resched, At, Go, Places, Waiting
<1>2. /\ k' = rt_schedule(k) /\ isr' = isr /\ arg' = arg /\ alive' = alive
      /\ value' = value /\ net' = net /\ pc \in [Threads -> Places]
  BY DEF Resched, At, IInv, TypeOK
<1>3. pc'[t] = p /\ \A x \in Threads : x # t => pc'[x] = pc[x]
  BY <1>1, <1>2
<1>4. \A w \in WaitLists :
         <<pc'[t], arg[t]>> \in SemWait[w] <=> <<pc[t], arg[t]>> \in SemWait[w]
  BY <1>1, <1>3 DEF SemWait
<1>5. /\ KernelInv(SemSched, SemLocked, SemWait)'
      /\ \A w \in WaitLists : ToSet(k'.wait[w]) = ToSet(k.wait[w])
      /\ \A x \in Threads, w \in WaitLists :
            Served(x, w, SemWait)' <=> Served(x, w, SemWait)
  BY <1>2, <1>3, <1>4, ReschedInv DEF IInv, SemLocked
<1>6. \A s \in Objects : SemOK(s)'
  BY <1>2, <1>5, SemFrame, SemaphoreAssumption
<1>7. TypeOK'
  BY <1>1, <1>2, <1>5 DEF IInv, TypeOK, KernelInv, KernelOK, QueueOK
<1>8. \A x \in Threads : pc'[x] \in InCall => arg'[x] \in Objects
  BY <1>1, <1>2, <1>3 DEF IInv, InCall, Waiting
<1>. QED BY <1>5, <1>6, <1>7, <1>8 DEF IInv

\* The running thread t steps from a place outside rt_sem_take to place p, also
\* outside it, and at most its own error code changes.
LEMMA PlaceKeeps ==
    ASSUME IInv, NEW t \in Threads, NEW p \in Places, k.cur = t,
           pc[t] \notin Waiting, pc[t] # "sleep_sched",
           p \notin Waiting, pc' = [pc EXCEPT ![t] = p],
           arg' \in [Threads -> Objects \union {None}],
           \A x \in Threads : x # t => arg'[x] = arg[x],
           p \in InCall => arg'[t] \in Objects,
           k' = k \/ k' = [k EXCEPT !.err[t] = "EOK"],
           alive' \subseteq Objects, isr' = isr, value' = value, net' = net
    PROVE  IInv'
<1>. DEFINE N == {}
<1>1. KernelOK(k) /\ "EOK" \in Errno /\ pc[k.cur] \notin SemSched
      /\ KernelInv(SemSched, SemLocked, SemWait) /\ pc \in [Threads -> Places]
  BY DEF IInv, KernelInv, Errno, SemSched, Waiting, TypeOK
<1>2. k.stat[t] = "running"
  BY <1>1, CurRuns
<1>3. Quiet(k, k', t)
  <2>1. CASE k' = k
    BY <1>1, <2>1, QuietSame
  <2>2. CASE k' = [k EXCEPT !.err[t] = "EOK"]
    BY <1>1, <2>2, QuietError
  <2>. QED BY <2>1, <2>2
<1>4. N \in SUBSET Threads /\ Frees(k, k', N, t)
  BY <1>3, QuietFrees
<1>5. pc'[t] = p /\ \A x \in Threads : x # t => pc'[x] = pc[x] /\ arg'[x] = arg[x]
  BY <1>1
<1>6. \A w \in WaitLists : <<pc'[t], arg'[t]>> \notin SemWait[w]
  BY <1>5, NoWaitPlaces
<1>. HIDE DEF N
<1>7. /\ KernelInv(SemSched, SemLocked, SemWait)'
      /\ \A w \in WaitLists : ToSet(k'.wait[w]) = ToSet(k.wait[w]) \ N
      /\ \A x \in Threads, w \in WaitLists :
            x \notin N /\ x # t => (Served(x, w, SemWait)' <=> Served(x, w, SemWait))
      /\ \A w \in WaitLists : ~Served(t, w, SemWait)'
  BY <1>1, <1>2, <1>4, <1>5, <1>6, CurStepInv DEF SemLocked
<1>8. \A x \in Threads, s \in Objects : Served(x, s, SemWait)' <=> Served(x, s, SemWait)
  BY <1>7, OutsideUnserved, SemaphoreAssumption DEF N
<1>9. \A s \in Objects : SemOK(s)'
  BY <1>7, <1>8, SemFrame, SemaphoreAssumption
<1>10. TypeOK'
  BY <1>1, <1>7 DEF IInv, TypeOK, KernelInv, KernelOK, QueueOK
<1>11. \A x \in Threads : pc'[x] \in InCall => arg'[x] \in Objects
  BY <1>5 DEF IInv
<1>. QED BY <1>7, <1>9, <1>10, <1>11 DEF IInv

\* rt_ipc_list_resume_all: the test of the loop.
LEMMA DetachTestKeeps ==
    ASSUME IInv, NEW t \in Threads, UNCHANGED <<value, net>>,
           ResumeAllTest(t, arg[t], "det_test", "det_wake", "det_object")
    PROVE  IInv'
<1>1. PICK p \in {"det_wake", "det_object"} : pc' = [pc EXCEPT ![t] = p]
  BY DEF ResumeAllTest, Go
<1>2. /\ k.cur = t /\ pc[t] = "det_test" /\ k' = k /\ isr' = isr /\ arg' = arg
      /\ alive' = alive /\ value' = value /\ net' = net
  BY DEF ResumeAllTest, At
<1>3. /\ p \in Places /\ p \notin Waiting /\ pc[t] \notin Waiting
      /\ arg \in [Threads -> Objects \union {None}] /\ alive \subseteq Objects
      /\ arg[t] \in Objects
  BY <1>2 DEF Places, Waiting, InCall, IInv, TypeOK
<1>. QED BY <1>1, <1>2, <1>3, PlaceKeeps

\* rt_object_detach.
LEMMA DetachObjectKeeps ==
    ASSUME IInv, NEW t \in Threads, UNCHANGED <<value, net>>, DetachObject(t)
    PROVE  IInv'
<1>1. /\ pc' = [pc EXCEPT ![t] = "run"] /\ arg' = [arg EXCEPT ![t] = None]
      /\ k.cur = t /\ pc[t] = "det_object" /\ k' = k /\ isr' = isr
      /\ alive' \subseteq alive /\ value' = value /\ net' = net
  BY DEF DetachObject, At, Return, Go
<1>2. arg \in [Threads -> Objects \union {None}] /\ alive \subseteq Objects
  BY DEF IInv, TypeOK
<1>3. /\ arg' \in [Threads -> Objects \union {None}] /\ alive' \subseteq Objects
      /\ \A x \in Threads : x # t => arg'[x] = arg[x]
  BY <1>1, <1>2
<1>4. /\ "run" \in Places /\ "run" \notin Waiting /\ "run" \notin InCall
      /\ pc[t] \notin Waiting
  BY <1>1 DEF Places, Waiting, InCall
<1>. QED BY <1>1, <1>3, <1>4, PlaceKeeps

LEMMA SleepReturnKeeps ==
    ASSUME IInv, NEW t \in Threads, UNCHANGED <<value, net>>, SleepReturn(t)
    PROVE  IInv'
<1>1. /\ pc' = [pc EXCEPT ![t] = "run"] /\ arg' = arg /\ k.cur = t /\ pc[t] = "slept"
      /\ isr' = isr /\ alive' = alive /\ value' = value /\ net' = net
      /\ k' = k \/ k' = [k EXCEPT !.err[t] = "EOK"]
  BY DEF SleepReturn, At, Go, ResetError
<1>2. arg \in [Threads -> Objects \union {None}] /\ alive \subseteq Objects
  BY DEF IInv, TypeOK
<1>3. /\ "run" \in Places /\ "run" \notin Waiting /\ "run" \notin InCall
      /\ pc[t] \notin Waiting
  BY <1>1 DEF Places, Waiting, InCall
<1>. QED BY <1>1, <1>2, <1>3, PlaceKeeps

\* rt_ipc_list_resume_all: a turn of the loop on a list that has become empty.
LEMMA DetachMissKeeps ==
    ASSUME IInv, NEW t \in Threads, UNCHANGED <<value, net>>, k.wait[arg[t]] = <<>>,
           ResumeAllWake(t, arg[t], "det_wake", "det_test")
    PROVE  IInv'
<1>1. /\ pc' = [pc EXCEPT ![t] = "det_test"] /\ k.cur = t /\ pc[t] = "det_wake"
      /\ k' = k /\ isr' = isr /\ arg' = arg /\ alive' = alive /\ value' = value /\ net' = net
  BY DEF ResumeAllWake, At, Go
<1>2. /\ "det_test" \in Places /\ "det_test" \notin Waiting
      /\ arg \in [Threads -> Objects \union {None}] /\ alive \subseteq Objects
      /\ arg[t] \in Objects /\ pc[t] \notin Waiting
  BY <1>1 DEF Places, Waiting, InCall, IInv, TypeOK
<1>. QED BY <1>1, <1>2, PlaceKeeps

\* rt_ipc_list_resume_all: one turn of the loop.  The waiter learns that it got
\* nothing.
LEMMA DetachWakeKeeps ==
    ASSUME IInv, NEW t \in Threads, UNCHANGED <<value, net>>, k.wait[arg[t]] # <<>>,
           ResumeAllWake(t, arg[t], "det_wake", "det_test")
    PROVE  IInv'
<1>1. /\ pc' = [pc EXCEPT ![t] = "det_test"] /\ k.cur = t /\ pc[t] = "det_wake"
      /\ k.wait[arg[t]] # <<>> /\ k' = ResumeWithError(k, arg[t])
      /\ isr' = isr /\ arg' = arg /\ alive' = alive /\ value' = value /\ net' = net
  BY DEF ResumeAllWake, At, Go
<1>2. /\ KernelInv(SemSched, SemLocked, SemWait) /\ pc \in [Threads -> Places]
      /\ arg[t] \in WaitLists /\ arg[t] \in Objects
  BY <1>1, SemaphoreAssumption DEF IInv, TypeOK, InCall
<1>3. pc[k.cur] \notin SemSched /\ "det_test" \in Places /\ "det_test" \notin Waiting
      /\ pc[t] \notin Waiting
  BY <1>1 DEF SemSched, Places, Waiting
<1>4. k.stat[t] = "running"
  BY <1>1, <1>2, <1>3, CurRuns
<1>5. /\ pc'[t] = "det_test"
      /\ \A x \in Threads : x # t => pc'[x] = pc[x] /\ arg'[x] = arg[x]
  BY <1>1, <1>2
<1>6. \A w \in WaitLists : <<pc'[t], arg'[t]>> \notin SemWait[w]
  BY <1>3, <1>5, NoWaitPlaces
<1>7. /\ KernelInv(SemSched, SemLocked, SemWait)'
      /\ \E T \in SUBSET Threads : Evicts(arg[t], T, t, SemWait)
  BY <1>1, <1>2, <1>4, <1>5, <1>6, WakeErrorInv DEF SemLocked
<1>8. /\ \A s \in Objects : ToSet(k'.wait[s]) \subseteq ToSet(k.wait[s])
      /\ \A x \in Threads, s \in Objects :
            Served(x, s, SemWait)' <=> Served(x, s, SemWait)
  BY <1>3, <1>7, OutsideUnserved, SemaphoreAssumption DEF Evicts
<1>9. \A s \in Objects : SemOK(s)'
  BY <1>1, <1>8, SemFrame
<1>10. TypeOK'
  BY <1>1, <1>2, <1>3, <1>7 DEF IInv, TypeOK, KernelInv, KernelOK, QueueOK
<1>11. \A x \in Threads : pc'[x] \in InCall => arg'[x] \in Objects
  BY <1>1, <1>2, <1>5 DEF IInv
<1>. QED BY <1>7, <1>9, <1>10, <1>11 DEF IInv

\* rt_sem_take returns after a wait, with the token it was given or with an
\* error.
LEMMA TakeReturnKeeps ==
    ASSUME IInv, NEW t \in Threads, TakeReturn(t)
    PROVE  IInv'
<1>. DEFINE N == {}
            s == arg[t]
<1>1. /\ pc' = [pc EXCEPT ![t] = "run"] /\ arg' = [arg EXCEPT ![t] = None]
      /\ k.cur = t /\ pc[t] = "take_woken" /\ k' = k /\ isr' = isr
      /\ alive' = alive /\ value' = value
      /\ net' = IF k.err[t] = "EOK" THEN [net EXCEPT ![s] = @ - 1] ELSE net
  BY DEF TakeReturn, At, Return, Go
<1>2. /\ KernelInv(SemSched, SemLocked, SemWait) /\ KernelOK(k) /\ pc \in [Threads -> Places]
      /\ arg \in [Threads -> Objects \union {None}] /\ s \in Objects
      /\ net \in [Objects -> Int] /\ pc[k.cur] \notin SemSched
  BY <1>1 DEF IInv, TypeOK, KernelInv, InCall, Waiting, SemSched
<1>3. k.stat[t] = "running" /\ \A w \in WaitLists : t \notin ToSet(k.wait[w])
  BY <1>1, <1>2, CurRuns
<1>4. N \in SUBSET Threads /\ Frees(k, k', N, t)
  BY <1>1, <1>2, QuietSame, QuietFrees
<1>5. pc'[t] = "run" /\ \A x \in Threads : x # t => pc'[x] = pc[x] /\ arg'[x] = arg[x]
  BY <1>1, <1>2
<1>6. \A w \in WaitLists : <<pc'[t], arg'[t]>> \notin SemWait[w]
  BY <1>5, NoWaitPlaces DEF Waiting
<1>. HIDE DEF N
<1>7. /\ KernelInv(SemSched, SemLocked, SemWait)'
      /\ \A w \in WaitLists : ToSet(k'.wait[w]) = ToSet(k.wait[w]) \ N
      /\ \A x \in Threads, w \in WaitLists :
            x \notin N /\ x # t => (Served(x, w, SemWait)' <=> Served(x, w, SemWait))
      /\ \A w \in WaitLists : ~Served(t, w, SemWait)'
  BY <1>1, <1>2, <1>3, <1>4, <1>5, <1>6, CurStepInv DEF SemLocked
<1>8. ASSUME NEW o \in Objects
      PROVE  /\ Takers(o)' = Takers(o) \ {t}
             /\ t \in Takers(o) <=> o = s /\ k.err[t] = "EOK"
  <2>1. Takers(o)' = Takers(o) \ {t}
    BY <1>7, SemaphoreAssumption DEF Takers, N
  <2>2. Served(t, o, SemWait) <=> o = s /\ k.err[t] = "EOK"
    BY <1>1, <1>3, WaitPlaces, SemaphoreAssumption DEF Served, Waiting
  <2>. QED BY <2>1, <2>2 DEF Takers
<1>9. ASSUME NEW o \in Objects
      PROVE  SemOK(o)'
  <2>1. SemOK(o) /\ net[o] \in Int /\ value[o] \in Nat
    BY <1>2, SemaphoreAssumption DEF IInv, TypeOK
  <2>2. net'[o] = net[o] - (IF o = s /\ k.err[t] = "EOK" THEN 1 ELSE 0)
    BY <1>1, <1>2
  <2>3. /\ Cardinality(Takers(o) \ {t}) =
              IF t \in Takers(o) THEN Cardinality(Takers(o)) - 1 ELSE Cardinality(Takers(o))
        /\ Cardinality(Takers(o)) \in Nat
    BY TakersFinite, FS_RemoveElement
  <2>4. Cardinality(Takers(o))' =
           Cardinality(Takers(o)) - (IF o = s /\ k.err[t] = "EOK" THEN 1 ELSE 0)
    <3>1. Cardinality(Takers(o))' = Cardinality(Takers(o) \ {t})
      BY <1>8
    <3>. QED BY <1>8, <2>3, <3>1
  <2>. QED BY <1>1, <2>1, <2>2, <2>3, <2>4 DEF SemOK
<1>10. TypeOK'
  <2>1. "run" \in Places
    BY DEF Places
  <2>2. net' \in [Objects -> Int]
    BY <1>1, <1>2
  <2>. QED BY <1>1, <1>2, <2>1, <2>2 DEF IInv, TypeOK
<1>11. \A x \in Threads : pc'[x] \in InCall => arg'[x] \in Objects
  BY <1>5 DEF IInv, InCall, Waiting
<1>. QED BY <1>7, <1>9, <1>10, <1>11 DEF IInv

-----------------------------------------------------------------------------
(* The calls of an application thread and of an interrupt handler.         *)

\* What a caller outside the kernel knows.
LEMMA CallFacts ==
    ASSUME IInv, NEW t \in Threads, NEW s \in Objects, Calls(t, s)
    PROVE  /\ k.cur = t /\ pc[t] = "run" /\ t \in Threads \ {Idle} /\ s \in WaitLists
           /\ k.stat[t] = "running" /\ KernelInv(SemSched, SemLocked, SemWait)
           /\ pc \in [Threads -> Places] /\ arg \in [Threads -> Objects \union {None}]
           /\ alive \subseteq Objects
           /\ value \in [Objects -> 0 .. (ValueMod - 1)] /\ net \in [Objects -> Int]
           /\ isr \in {"none", "tick", "timeout"}
           /\ \A o \in Objects : ~Served(t, o, SemWait)
<1>1. /\ k.cur = t /\ pc[t] = "run" /\ t \in Threads \ {Idle} /\ s \in WaitLists
  BY IpcAssumption, SemaphoreAssumption DEF Calls, At
<1>2. KernelInv(SemSched, SemLocked, SemWait) /\ pc[k.cur] \notin SemSched /\ pc[t] \notin Waiting
  BY <1>1 DEF IInv, SemSched, Waiting
<1>3. k.stat[t] = "running"
  BY <1>1, <1>2, CurRuns
<1>4. \A o \in Objects : ~Served(t, o, SemWait)
  BY <1>2, OutsideUnserved
<1>. QED BY <1>1, <1>2, <1>3, <1>4 DEF IInv, TypeOK

\* The value and net of s change by the same amount, and no thread moves.
LEMMA CountKeeps ==
    ASSUME IInv, NEW s \in Objects, NEW d \in Int,
           UNCHANGED <<k, pc, arg, alive, isr>>,
           value[s] + d \in 0 .. (ValueMod - 1), ToSet(k.wait[s]) # {} => d = 0,
           value' = [value EXCEPT ![s] = @ + d], net' = [net EXCEPT ![s] = @ + d]
    PROVE  IInv'
<1>1. k' = k /\ pc' = pc /\ arg' = arg /\ alive' = alive /\ isr' = isr
  OBVIOUS
<1>2. value \in [Objects -> 0 .. (ValueMod - 1)] /\ net \in [Objects -> Int]
  BY DEF IInv, TypeOK
<1>3. KernelInv(SemSched, SemLocked, SemWait)'
  BY <1>1 DEF IInv, KernelInv
<1>4. ASSUME NEW o \in Objects
      PROVE  SemOK(o)'
  <2>1. SemOK(o) /\ net[o] \in Int /\ value[o] \in Int
    BY <1>2, SemaphoreAssumption DEF IInv
  <2>2. Takers(o)' = Takers(o) /\ Cardinality(Takers(o)) \in Nat
    BY <1>1, TakersFinite DEF Takers, Served
  <2>3. Cardinality(Takers(o))' = Cardinality(Takers(o))
    BY <2>2
  <2>4. /\ net'[o] = net[o] + (IF o = s THEN d ELSE 0)
        /\ value'[o] = value[o] + (IF o = s THEN d ELSE 0)
    BY <1>2
  <2>5. net'[o] = value'[o] + Cardinality(Takers(o))'
    BY <2>1, <2>2, <2>3, <2>4 DEF SemOK
  <2>6. ToSet(k'.wait[o]) # {} => value'[o] = 0
    BY <1>1, <2>1, <2>4 DEF SemOK
  <2>. QED BY <2>5, <2>6 DEF SemOK
<1>5. TypeOK'
  BY <1>1, <1>2 DEF IInv, TypeOK
<1>. QED BY <1>1, <1>3, <1>4, <1>5 DEF IInv

\* A token goes to thread u, the first waiter of s.
LEMMA HandsKeeps ==
    ASSUME IInv, NEW s \in Objects, NEW u \in Threads, Hands(u, s, SemWait),
           NEW c \in Threads, c = k.cur,
           \A o \in Objects : c # u => (Served(c, o, SemWait)' <=> Served(c, o, SemWait)),
           arg'[u] = arg[u], value' = value, net' = [net EXCEPT ![s] = @ + 1]
    PROVE  \A o \in Objects : SemOK(o)'
<1>. SUFFICES ASSUME NEW o \in Objects PROVE SemOK(o)'
  OBVIOUS
<1>1. SemOK(o) /\ net \in [Objects -> Int] /\ value[o] \in Int
  BY SemaphoreAssumption DEF IInv, TypeOK
<1>2. Takers(o)' = IF o = s THEN Takers(o) \union {u} ELSE Takers(o)
  <2>1. Served(u, o, SemWait)' <=> o = s
    <3>1. arg'[u] = s
      BY WaitPlaces DEF Hands, Served
    <3>2. Served(u, o, SemWait)' => o = arg'[u]
      BY WaitPlaces DEF Served
    <3>. QED BY <3>1, <3>2 DEF Hands
  <2>2. ~Served(u, o, SemWait)
    BY SemaphoreAssumption DEF Hands
  <2>3. \A x \in Threads : x # u => (Served(x, o, SemWait)' <=> Served(x, o, SemWait))
    BY SemaphoreAssumption DEF Hands
  <2>. QED BY <2>1, <2>2, <2>3 DEF Takers
<1>3. u \notin Takers(o)
  BY SemaphoreAssumption DEF Hands, Takers
<1>4. Cardinality(Takers(o) \union {u}) = Cardinality(Takers(o)) + 1
      /\ Cardinality(Takers(o)) \in Nat
  BY <1>3, TakersFinite, FS_AddElement
<1>5. Cardinality(Takers(o))' = Cardinality(Takers(o)) + (IF o = s THEN 1 ELSE 0)
  BY <1>2, <1>4
<1>6. ToSet(k'.wait[o]) \subseteq ToSet(k.wait[o])
  BY SemaphoreAssumption DEF Hands
<1>. QED BY <1>1, <1>4, <1>5, <1>6 DEF SemOK

LEMMA TakeKeeps ==
    ASSUME IInv, NEW t \in Threads, NEW s \in Objects, NEW time \in TakeTimes,
           rt_sem_take(t, s, time)
    PROVE  IInv'
<1>1. Calls(t, s) /\ isr' = isr /\ alive' = alive
  BY DEF rt_sem_take
<1>2. /\ k.cur = t /\ pc[t] = "run" /\ t \in Threads \ {Idle} /\ s \in WaitLists
      /\ k.stat[t] = "running" /\ KernelInv(SemSched, SemLocked, SemWait)
      /\ pc \in [Threads -> Places] /\ arg \in [Threads -> Objects \union {None}]
      /\ value \in [Objects -> 0 .. (ValueMod - 1)] /\ net \in [Objects -> Int]
      /\ \A o \in Objects : ~Served(t, o, SemWait)
  BY <1>1, CallFacts
<1>3. CASE TakeNow(t, s)
  <2>1. /\ value[s] > 0 /\ k' = k /\ pc' = pc /\ arg' = arg
        /\ value' = [value EXCEPT ![s] = @ + (-1)] /\ net' = [net EXCEPT ![s] = @ + (-1)]
    BY <1>2, <1>3 DEF TakeNow
  <2>2. value[s] + (-1) \in 0 .. (ValueMod - 1) /\ -1 \in Int
    BY <1>2, <2>1, SemaphoreAssumption
  <2>3. ToSet(k.wait[s]) = {}
    BY <2>1 DEF IInv, SemOK
  <2>. QED BY <1>1, <2>1, <2>2, <2>3, CountKeeps
<1>4. CASE TakeFail(t, s, time)
  <2>1. UNCHANGED vars
    BY <1>1, <1>4 DEF TakeFail, vars
  <2>. QED BY <2>1 DEF vars, IInv, TypeOK, KernelInv, SemOK, Takers, Served
<1>5. CASE TakeBlock(t, s, time)
  <2>1. /\ value[s] = 0
        /\ k' = StartTimer(rt_ipc_list_suspend(ResetError(t), s, t, Flag), t, time)
        /\ pc' = [pc EXCEPT ![t] = "take_sched"] /\ arg' = [arg EXCEPT ![t] = s]
        /\ value' = value /\ net' = net
    BY <1>5 DEF TakeBlock, Proceed, Go
  <2>2. /\ pc'[t] = "take_sched" /\ arg'[t] = s
        /\ \A x \in Threads : x # t => pc'[x] = pc[x] /\ arg'[x] = arg[x]
    BY <1>2, <2>1
  <2>3. pc'[t] \in SemSched /\ "take_sched" \in Places /\ "take_sched" \in Waiting
    BY <2>2 DEF SemSched, Places, Waiting
  <2>4. \A v \in WaitLists : <<pc'[t], arg'[t]>> \in SemWait[v] <=> v = s
    BY <2>2, <2>3, WaitPlaces, SemaphoreAssumption
  <2>5. /\ KernelInv(SemSched, SemLocked, SemWait)'
        /\ \A v \in WaitLists :
              ToSet(k'.wait[v]) = ToSet(k.wait[v]) \union (IF v = s THEN {t} ELSE {})
        /\ \A x \in Threads, v \in WaitLists :
              x # t => (Served(x, v, SemWait)' <=> Served(x, v, SemWait))
        /\ \A v \in WaitLists : ~Served(t, v, SemWait)'
    <3>1. pc[t] \notin SemLocked /\ pc'[t] \notin SemLocked
      BY DEF SemLocked
    <3>. QED BY <1>2, <2>1, <2>2, <2>3, <2>4, <3>1, WaitInv, SMTT(30)
  <2>6. ASSUME NEW o \in Objects
        PROVE  SemOK(o)'
    <3>1. Takers(o)' = Takers(o)
      BY <1>2, <2>5, SemaphoreAssumption DEF Takers
    <3>2. Cardinality(Takers(o))' = Cardinality(Takers(o))
      BY <3>1
    <3>3. ToSet(k'.wait[o]) # {} => value'[o] = 0
      <4>1. CASE o = s
        BY <2>1, <4>1
      <4>2. CASE o # s
        BY <2>1, <2>5, <4>2, SemaphoreAssumption DEF IInv, SemOK
      <4>. QED BY <4>1, <4>2
    <3>. QED BY <2>1, <3>2, <3>3 DEF IInv, SemOK
  <2>7. TypeOK'
    BY <1>1, <1>2, <2>1, <2>3, <2>5 DEF IInv, TypeOK, KernelInv, KernelOK, QueueOK
  <2>8. \A x \in Threads : pc'[x] \in InCall => arg'[x] \in Objects
    BY <2>2 DEF IInv
  <2>. QED BY <2>5, <2>6, <2>7, <2>8 DEF IInv
<1>. QED BY <1>3, <1>4, <1>5 DEF rt_sem_take

LEMMA ModSmall ==
    ASSUME NEW a \in Nat, NEW n \in Nat, a < n
    PROVE  a % n = a
OBVIOUS

\* A release that finds nobody waiting.
LEMMA ReleaseCounts ==
    ASSUME ValueBounded, IInv, NEW s \in Objects, Count(s), Put(s),
           UNCHANGED <<k, pc, arg, alive, isr>>
    PROVE  IInv'
<1>1. /\ k.wait[s] = <<>> /\ value[s] < MaxValue
      /\ value' = [value EXCEPT ![s] = (@ + 1) % ValueMod]
      /\ net' = [net EXCEPT ![s] = @ + 1]
  BY DEF Count, Put
<1>2. value \in [Objects -> 0 .. (ValueMod - 1)] /\ k.wait[s] \in Seq(Threads)
  BY SemaphoreAssumption DEF IInv, TypeOK, KernelState
<1>3. /\ (value[s] + 1) % ValueMod = value[s] + 1
      /\ value[s] + 1 \in 0 .. (ValueMod - 1)
  <2>1. value[s] + 1 \in Nat /\ value[s] + 1 < ValueMod /\ ValueMod \in Nat
    BY <1>1, <1>2, SemaphoreAssumption DEF ValueBounded
  <2>. QED BY <2>1, ModSmall
<1>4. value' = [value EXCEPT ![s] = @ + 1]
  BY <1>1, <1>2, <1>3
<1>5. ToSet(k.wait[s]) = {}
  BY <1>1, <1>2, ToSetDef
<1>6. k' = k /\ pc' = pc /\ arg' = arg /\ alive' = alive /\ isr' = isr /\ 1 \in Int
  OBVIOUS
<1>7. net' = [net EXCEPT ![s] = @ + 1] /\ value[s] + 1 \in 0 .. (ValueMod - 1)
  BY <1>1, <1>3
<1>. QED BY <1>4, <1>5, <1>6, <1>7, CountKeeps

LEMMA ReleaseKeeps ==
    ASSUME ValueBounded, IInv, NEW t \in Threads, NEW s \in Objects, rt_sem_release(t, s)
    PROVE  IInv'
<1>1. Calls(t, s) /\ isr' = isr /\ arg' = arg /\ alive' = alive /\ Put(s)
  BY DEF rt_sem_release
<1>2. /\ k.cur = t /\ pc[t] = "run" /\ t \in Threads \ {Idle} /\ s \in WaitLists
      /\ k.stat[t] = "running" /\ KernelInv(SemSched, SemLocked, SemWait)
      /\ pc \in [Threads -> Places] /\ net \in [Objects -> Int]
      /\ \A o \in Objects : ~Served(t, o, SemWait)
  BY <1>1, CallFacts
<1>3. CASE Count(s) /\ UNCHANGED <<k, pc>>
  BY <1>1, <1>3, ReleaseCounts
<1>4. CASE Wake(s) /\ k' = rt_ipc_list_resume(k, s) /\ Go(t, "rel_sched")
  <2>1. /\ k.wait[s] # <<>> /\ k' = rt_ipc_list_resume(k, s)
        /\ value' = value /\ net' = [net EXCEPT ![s] = @ + 1]
        /\ pc' = [pc EXCEPT ![t] = "rel_sched"]
    BY <1>1, <1>4 DEF Wake, Go, Put
  <2>2. /\ pc'[t] = "rel_sched"
        /\ \A x \in Threads : x # t => pc'[x] = pc[x] /\ arg'[x] = arg[x]
    BY <1>1, <1>2, <2>1
  <2>3. "rel_sched" \in Places /\ "rel_sched" \notin Waiting /\ "rel_sched" \notin InCall
    BY DEF Places, Waiting, InCall
  <2>4. \A v \in WaitLists : <<pc'[t], arg'[t]>> \notin SemWait[v]
    BY <2>2, <2>3, NoWaitPlaces
  <2>5. /\ KernelInv(SemSched, SemLocked, SemWait)'
        /\ \A v \in WaitLists : ~Served(t, v, SemWait)'
        /\ \E u \in Threads : u # t /\ Hands(u, s, SemWait)
    <3>1. pc'[t] \in SemLocked <=> pc[t] \in SemLocked
      BY DEF SemLocked
    <3>2. k.wait[s] # <<>> /\ k' = rt_ipc_list_resume(k, s)
      BY <2>1
    <3>3. \A x \in Threads : x # t => pc'[x] = pc[x] /\ arg'[x] = arg[x]
      BY <2>2
    <3>4. KernelInv(SemSched, SemLocked, SemWait) /\ t = k.cur /\ k.stat[t] = "running"
          /\ s \in WaitLists
      BY <1>2
    <3>. QED BY <2>4, <3>1, <3>2, <3>3, <3>4, WakeInv, SMTT(30)
  <2>6. PICK u \in Threads : u # t /\ Hands(u, s, SemWait)
    BY <2>5
  <2>7. \A o \in Objects : t # u => (Served(t, o, SemWait)' <=> Served(t, o, SemWait))
    BY <1>2, <2>5, SemaphoreAssumption
  <2>8. \A o \in Objects : SemOK(o)'
    BY <1>1, <1>2, <2>1, <2>6, <2>7, HandsKeeps
  <2>9. TypeOK'
    BY <1>1, <1>2, <2>1, <2>3, <2>5 DEF IInv, TypeOK, KernelInv, KernelOK, QueueOK
  <2>10. \A x \in Threads : pc'[x] \in InCall => arg'[x] \in Objects
    BY <1>1, <2>2, <2>3 DEF IInv
  <2>. QED BY <2>5, <2>8, <2>9, <2>10 DEF IInv
<1>. QED BY <1>3, <1>4 DEF rt_sem_release

LEMMA IsrReleaseKeeps ==
    ASSUME ValueBounded, IInv, NEW s \in Objects, IsrRelease(s)
    PROVE  IInv'
<1>1. isr' = isr /\ pc' = pc /\ arg' = arg /\ alive' = alive /\ Put(s)
  BY DEF IsrRelease
<1>2. /\ KernelInv(SemSched, SemLocked, SemWait) /\ k.cur \in Threads /\ s \in WaitLists
      /\ net \in [Objects -> Int]
  BY SemaphoreAssumption DEF IInv, TypeOK, KernelState
<1>3. CASE Count(s) /\ UNCHANGED k
  BY <1>1, <1>3, ReleaseCounts
<1>4. CASE Wake(s) /\ k' = rt_schedule(rt_ipc_list_resume(k, s))
  <2>1. /\ k.wait[s] # <<>> /\ k' = rt_schedule(rt_ipc_list_resume(k, s))
        /\ value' = value /\ net' = [net EXCEPT ![s] = @ + 1]
    BY <1>1, <1>4 DEF Wake, Put
  <2>2. /\ KernelInv(SemSched, SemLocked, SemWait)'
        /\ \E u \in Threads : /\ Hands(u, s, SemWait)
                              /\ \A x \in Threads, v \in WaitLists :
                                   x # u => (Served(x, v, SemWait)' <=> Served(x, v, SemWait))
    BY <1>1, <1>2, <2>1, IsrWakeInv
  <2>3. PICK u \in Threads : /\ Hands(u, s, SemWait)
                             /\ \A x \in Threads, v \in WaitLists :
                                   x # u => (Served(x, v, SemWait)' <=> Served(x, v, SemWait))
    BY <2>2
  <2>4. PICK c \in Threads : c = k.cur
    BY <1>2
  <2>5. \A o \in Objects : c # u => (Served(c, o, SemWait)' <=> Served(c, o, SemWait))
    BY <2>3, SemaphoreAssumption
  <2>6. \A o \in Objects : SemOK(o)'
    BY <1>1, <2>1, <2>3, <2>4, <2>5, HandsKeeps
  <2>7. TypeOK'
    BY <1>1, <1>2, <2>1, <2>2 DEF IInv, TypeOK, KernelInv, KernelOK, QueueOK
  <2>. QED BY <1>1, <2>2, <2>6, <2>7 DEF IInv
<1>. QED BY <1>3, <1>4 DEF IsrRelease

\* RT_IPC_CMD_RESET: the waiters leave with an error, the woken takers keep
\* their tokens.
LEMMA ControlKeeps ==
    ASSUME IInv, NEW t \in Threads, NEW s \in Objects, NEW v \in ResetValues,
           rt_sem_control(t, s, v)
    PROVE  IInv'
<1>. DEFINE G == Cardinality({u \in Threads : Granted(u, s)})
<1>1. /\ Calls(t, s) /\ isr' = isr /\ arg' = arg /\ alive' = alive
      /\ k' = rt_ipc_list_resume_all(k, s)
      /\ value' = [value EXCEPT ![s] = v] /\ net' = [net EXCEPT ![s] = v + G]
      /\ pc' = [pc EXCEPT ![t] = "ctl_sched"]
  BY DEF rt_sem_control, Go
<1>2. /\ k.cur = t /\ pc[t] = "run" /\ t \in Threads \ {Idle} /\ s \in WaitLists
      /\ k.stat[t] = "running" /\ KernelInv(SemSched, SemLocked, SemWait)
      /\ pc \in [Threads -> Places] /\ net \in [Objects -> Int]
      /\ value \in [Objects -> 0 .. (ValueMod - 1)]
      /\ \A o \in Objects : ~Served(t, o, SemWait)
  BY <1>1, CallFacts
<1>3. G = Cardinality(Takers(s)) /\ G \in Nat
  <2>1. \A u \in Threads : Granted(u, s) <=> Served(u, s, SemWait)
    BY WaitPlaces DEF Granted, Served, Waiting
  <2>2. {u \in Threads : Granted(u, s)} = Takers(s)
    BY <2>1 DEF Takers
  <2>. QED BY <2>2, TakersFinite
<1>. HIDE DEF G
<1>4. v \in 0 .. (ValueMod - 1)
  BY SemaphoreAssumption
<1>5. /\ pc'[t] = "ctl_sched"
      /\ \A x \in Threads : x # t => pc'[x] = pc[x] /\ arg'[x] = arg[x]
  BY <1>1, <1>2
<1>6. "ctl_sched" \in Places /\ "ctl_sched" \notin Waiting /\ "ctl_sched" \notin InCall
  BY DEF Places, Waiting, InCall
<1>7. \A w \in WaitLists : <<pc'[t], arg'[t]>> \notin SemWait[w]
  BY <1>5, <1>6, NoWaitPlaces
<1>8. /\ KernelInv(SemSched, SemLocked, SemWait)' /\ Evicts(s, ToSet(k.wait[s]), t, SemWait)
      /\ ToSet(k'.wait[s]) = {}
  <2>1. pc[t] \notin SemLocked /\ pc'[t] \notin SemLocked
    BY DEF SemLocked
  <2>. QED BY <1>1, <1>2, <1>5, <1>7, <2>1, WakeAllInv, SMTT(30)
<1>9. ASSUME NEW o \in Objects
      PROVE  SemOK(o)'
  <2>1. SemOK(o) /\ ToSet(k'.wait[o]) \subseteq ToSet(k.wait[o])
    BY <1>8, SemaphoreAssumption DEF IInv, Evicts
  <2>2. Takers(o)' = Takers(o)
    BY <1>2, <1>8, SemaphoreAssumption DEF Takers, Evicts
  <2>3. Cardinality(Takers(o))' = Cardinality(Takers(o))
    BY <2>2
  <2>4. CASE o = s
    BY <1>1, <1>2, <1>3, <1>8, <2>3, <2>4 DEF SemOK
  <2>5. CASE o # s
    BY <1>1, <1>2, <2>1, <2>3, <2>5 DEF SemOK
  <2>. QED BY <2>4, <2>5
<1>10. TypeOK'
  <2>1. net' \in [Objects -> Int] /\ value' \in [Objects -> 0 .. (ValueMod - 1)]
    <3>1. v + G \in Int
      BY <1>3, <1>4
    <3>. QED BY <1>1, <1>2, <1>4, <3>1
  <2>. QED BY <1>1, <1>2, <1>6, <1>8, <2>1 DEF IInv, TypeOK, KernelInv, KernelOK, QueueOK
<1>11. \A x \in Threads : pc'[x] \in InCall => arg'[x] \in Objects
  BY <1>1, <1>5, <1>6 DEF IInv
<1>. QED BY <1>8, <1>9, <1>10, <1>11 DEF IInv

\* A thread enters rt_sem_detach.
LEMMA DetachCallKeeps ==
    ASSUME IInv, NEW t \in Threads, NEW s \in Objects, rt_sem_detach(t, s),
           UNCHANGED <<value, net>>
    PROVE  IInv'
<1>1. /\ Calls(t, s) /\ pc' = [pc EXCEPT ![t] = "det_test"]
      /\ arg' = [arg EXCEPT ![t] = s] /\ k' = k /\ isr' = isr /\ alive' = alive
      /\ value' = value /\ net' = net
  BY DEF rt_sem_detach, DetachCall, Proceed, Go
<1>2. /\ k.cur = t /\ pc[t] = "run"
      /\ arg \in [Threads -> Objects \union {None}] /\ alive \subseteq Objects
  BY <1>1, CallFacts
<1>3. /\ arg' \in [Threads -> Objects \union {None}] /\ arg'[t] \in Objects
      /\ \A x \in Threads : x # t => arg'[x] = arg[x]
  BY <1>1, <1>2
<1>4. "det_test" \in Places /\ "det_test" \notin Waiting /\ pc[t] \notin Waiting
  BY <1>2 DEF Places, Waiting
<1>. QED BY <1>1, <1>2, <1>3, <1>4, PlaceKeeps

LEMMA SleepKeeps ==
    ASSUME IInv, NEW t \in Threads, rt_thread_sleep(t), UNCHANGED <<value, net>>
    PROVE  IInv'
<1>1. /\ k.cur = t /\ pc[t] = "run" /\ t \in Threads \ {Idle}
      /\ k' = StartTimer(rt_thread_suspend(k, t), t, "finite")
      /\ pc' = [pc EXCEPT ![t] = "sleep_sched"]
      /\ isr' = isr /\ arg' = arg /\ alive' = alive /\ value' = value /\ net' = net
  BY IpcAssumption DEF rt_thread_sleep, At, Go
<1>2. /\ KernelInv(SemSched, SemLocked, SemWait) /\ pc \in [Threads -> Places]
      /\ pc[k.cur] \notin SemSched /\ pc[t] \notin Waiting
  BY <1>1 DEF IInv, TypeOK, SemSched, Waiting
<1>3. k.stat[t] = "running"
  BY <1>1, <1>2, CurRuns
<1>4. /\ pc'[t] = "sleep_sched"
      /\ \A x \in Threads : x # t => pc'[x] = pc[x] /\ arg'[x] = arg[x]
  BY <1>1, <1>2
<1>5. /\ "sleep_sched" \in Places /\ "sleep_sched" \notin Waiting
      /\ "sleep_sched" \notin InCall /\ pc'[t] \in SemSched
  BY <1>4 DEF Places, Waiting, InCall, SemSched
<1>6. \A w \in WaitLists : <<pc'[t], arg'[t]>> \notin SemWait[w]
  BY <1>4, <1>5, NoWaitPlaces
<1>7. /\ KernelInv(SemSched, SemLocked, SemWait)'
      /\ \A v \in WaitLists : ToSet(k'.wait[v]) = ToSet(k.wait[v])
      /\ \A x \in Threads, v \in WaitLists :
            x # t => (Served(x, v, SemWait)' <=> Served(x, v, SemWait))
      /\ \A v \in WaitLists : ~Served(t, v, SemWait)'
  BY <1>1, <1>2, <1>3, <1>4, <1>5, <1>6, SleepInv DEF SemLocked
<1>8. \A x \in Threads, s \in Objects : Served(x, s, SemWait)' <=> Served(x, s, SemWait)
  BY <1>2, <1>7, OutsideUnserved, SemaphoreAssumption
<1>9. \A s \in Objects : SemOK(s)'
  BY <1>1, <1>7, <1>8, SemFrame, SemaphoreAssumption
<1>10. TypeOK'
  BY <1>1, <1>2, <1>5, <1>7 DEF IInv, TypeOK, KernelInv, KernelOK, QueueOK
<1>11. \A x \in Threads : pc'[x] \in InCall => arg'[x] \in Objects
  BY <1>1, <1>4, <1>5 DEF IInv
<1>. QED BY <1>7, <1>9, <1>10, <1>11 DEF IInv

-----------------------------------------------------------------------------
(* The theorems.                                                           *)

LEMMA InitOK == Init => IInv
<1>. SUFFICES ASSUME Init PROVE IInv
  OBVIOUS
<1>1. /\ k = Booted /\ isr = "none" /\ pc = [t \in Threads |-> "run"]
      /\ arg = [t \in Threads |-> None] /\ alive = Objects
      /\ value = [s \in Objects |-> InitValue] /\ net = [s \in Objects |-> InitValue]
  BY DEF Init, IpcInit
<1>2. /\ KernelOK(k) /\ k.lock = 0 /\ k.stat[Idle] \in {"ready", "running"}
      /\ k.stat[k.cur] = "running" /\ \A w \in WaitLists : ToSet(k.wait[w]) = {}
  BY <1>1, BootedOK
<1>3. \A t \in Threads : pc[t] = "run" /\ pc[t] \notin InCall /\ pc[t] \notin Waiting
  BY <1>1 DEF InCall, Waiting
<1>4. \A t \in Threads, w \in WaitLists : <<pc[t], arg[t]>> \notin SemWait[w]
  BY <1>3, NoWaitPlaces
<1>5. KernelInv(SemSched, SemLocked, SemWait)
  BY <1>2, <1>4 DEF KernelInv, Ready, SemLocked
<1>6. TypeOK
  <2>1. k \in KernelState /\ "run" \in Places
    BY <1>2 DEF KernelOK, QueueOK, Places
  <2>2. InitValue \in 0 .. (ValueMod - 1) /\ InitValue \in Int
    BY SemaphoreAssumption
  <2>. QED BY <1>1, <2>1, <2>2 DEF TypeOK
<1>7. ASSUME NEW s \in Objects
      PROVE  SemOK(s)
  <2>1. Takers(s) = {}
    BY <1>4, SemaphoreAssumption DEF Takers, Served
  <2>2. Cardinality(Takers(s)) = 0 /\ InitValue \in Int
    BY <2>1, FS_EmptySet, SemaphoreAssumption
  <2>. QED BY <1>1, <1>2, <2>2, SemaphoreAssumption DEF SemOK
<1>. QED BY <1>3, <1>5, <1>6, <1>7 DEF IInv

LEMMA NextOK ==
    ASSUME ValueBounded, IInv, [Next]_vars
    PROVE  IInv'
<1>1. CASE UNCHANGED vars
  BY <1>1 DEF vars, IInv, TypeOK, KernelInv, SemOK, Takers, Served
<1>2. CASE Tick /\ Outside
  BY <1>2, TickKeeps
<1>3. ASSUME NEW s \in Objects, IsrRelease(s)
      PROVE  IInv'
  BY <1>3, IsrReleaseKeeps
<1>4. ASSUME NEW t \in Threads, KernelStep(t)
      PROVE  IInv'
  <2>1. CASE TakeReturn(t)
    BY <2>1, TakeReturnKeeps
  <2>2. CASE /\ \/ Resched(t, "take_sched", "take_woken")
                \/ Resched(t, "rel_sched", "run")
                \/ Resched(t, "ctl_sched", "run")
                \/ Resched(t, "sleep_sched", "slept")
             /\ UNCHANGED <<value, net>>
    BY <2>2, ReschedKeeps
  <2>3. CASE DetachSteps(t) /\ UNCHANGED <<value, net>>
    BY <2>3, DetachTestKeeps, DetachMissKeeps, DetachWakeKeeps, DetachObjectKeeps DEF DetachSteps
  <2>4. CASE SleepReturn(t) /\ UNCHANGED <<value, net>>
    BY <2>4, SleepReturnKeeps
  <2>. QED BY <1>4, <2>1, <2>2, <2>3, <2>4 DEF KernelStep, SleepSteps
<1>5. ASSUME NEW t \in Threads, Call(t)
      PROVE  IInv'
  <2>1. CASE \E s \in Objects, time \in TakeTimes : rt_sem_take(t, s, time)
    BY <2>1, TakeKeeps
  <2>2. CASE \E s \in Objects : rt_sem_release(t, s)
    BY <2>2, ReleaseKeeps
  <2>3. CASE \E s \in Objects, v \in ResetValues : rt_sem_control(t, s, v)
    BY <2>3, ControlKeeps
  <2>4. CASE (\E s \in Objects : rt_sem_detach(t, s)) /\ UNCHANGED <<value, net>>
    BY <2>4, DetachCallKeeps
  <2>5. CASE rt_thread_sleep(t) /\ UNCHANGED <<value, net>>
    BY <2>5, SleepKeeps
  <2>. QED BY <1>5, <2>1, <2>2, <2>3, <2>4, <2>5 DEF Call
<1>. QED BY <1>1, <1>2, <1>3, <1>4, <1>5 DEF Next

\* The invariant holds throughout, for every number of threads and semaphores,
\* both flags, any reset values, as long as sem->value does not wrap.
THEOREM Invariance ==
    ASSUME ValueBounded
    PROVE  Spec => []IInv
<1>1. Init => IInv
  BY InitOK
<1>2. IInv /\ [Next]_vars => IInv'
  BY NextOK
<1>. QED BY <1>1, <1>2, PTL DEF Spec

\* The control blocks keep their types: sem->value never goes below zero.
THEOREM TypeCorrect ==
    ASSUME ValueBounded
    PROVE  Spec => []TypeOK
<1>1. IInv => TypeOK
  BY DEF IInv
<1>. QED BY <1>1, Invariance, PTL

\* Ready queues, bitmap, suspend lists, timers and thread states agree whatever
\* rt_sem_take, rt_sem_release, an interrupt handler's release, the reset, the
\* detach and the tick interrupt do in any order.
THEOREM KernelStaysConsistent ==
    ASSUME ValueBounded
    PROVE  Spec => []KernelConsistent
<1>1. IInv => KernelConsistent
  BY DEF IInv, KernelInv, KernelConsistent
<1>. QED BY <1>1, Invariance, PTL

\* rt_sem_release and rt_sem_take neither lose nor make a token, whatever a
\* timeout, a reset or a detach does between the wake-up and the return.
THEOREM TokensAreConserved ==
    ASSUME ValueBounded
    PROVE  Spec => []TokensConserved
<1>1. IInv => TokensConserved
  <2>. SUFFICES ASSUME IInv, NEW s \in Objects
                PROVE  net[s] = value[s] + Cardinality({t \in Threads : Granted(t, s)})
    BY DEF TokensConserved
  <2>1. \A t \in Threads : Granted(t, s) <=> Served(t, s, SemWait)
    BY WaitPlaces DEF Granted, Served, Waiting
  <2>2. {t \in Threads : Granted(t, s)} = Takers(s)
    BY <2>1 DEF Takers
  <2>. QED BY <2>2 DEF IInv, SemOK
<1>. QED BY <1>1, Invariance, PTL

\* While a thread waits in rt_sem_take the value is zero: no wake-up is lost
\* and nobody overtakes.
THEOREM NoTokenLeftBehind ==
    ASSUME ValueBounded
    PROVE  Spec => []NoTokenWhileWaiting
<1>1. IInv => NoTokenWhileWaiting
  <2>. SUFFICES ASSUME IInv, NEW s \in Objects, k.wait[s] # <<>>
                PROVE  value[s] = 0
    BY DEF NoTokenWhileWaiting
  <2>1. k.wait[s] \in Seq(Threads)
    BY SemaphoreAssumption DEF IInv, TypeOK, KernelState
  <2>2. ToSet(k.wait[s]) # {}
    BY <2>1, ToSetDef
  <2>. QED BY <2>2 DEF IInv, SemOK
<1>. QED BY <1>1, Invariance, PTL

-----------------------------------------------------------------------------
(* Preemption.                                                             *)

\* No semaphore is detached or deleted: rt_sem_detach wakes the waiters and
\* returns without rt_schedule.
NeverDetached == Detachable = {}

Detaching == {"det_test", "det_wake", "det_object"}

\* Between making a thread ready, or suspending itself, and rt_schedule.
ToSchedule == {"take_sched", "rel_sched", "ctl_sched", "sleep_sched"}

\* Preemptive at every place, also inside calls and in the tick interrupt,
\* except where rt_schedule is still to come.
UrgentInv ==
    /\ \A t \in Threads : pc[t] \notin Detaching
    /\ isr # "timeout" /\ pc[k.cur] \notin ToSchedule => MostUrgent(k)

LEMMA UrgentTick ==
    ASSUME IInv, UrgentInv, Tick, Outside
    PROVE  UrgentInv'
<1>1. pc' = pc /\ KernelOK(k) /\ k.lock = 0
  BY DEF Outside, IInv, KernelInv, SemLocked
<1>2. k' = rt_schedule(k) => MostUrgent(k')
  BY <1>1, ScheduleOK
<1>3. CASE TickEnter
  BY <1>1, <1>2, <1>3 DEF TickEnter, UrgentInv
<1>4. CASE \E t \in Threads : TickExpire(t)
  BY <1>1, <1>4 DEF TickExpire, UrgentInv
<1>5. CASE TickSchedule
  BY <1>1, <1>2, <1>5 DEF TickSchedule, UrgentInv
<1>6. CASE TickLeave
  BY <1>1, <1>6 DEF TickLeave, UrgentInv
<1>. QED BY <1>3, <1>4, <1>5, <1>6 DEF Tick

LEMMA UrgentIsr ==
    ASSUME IInv, UrgentInv, NEW s \in Objects, IsrRelease(s)
    PROVE  UrgentInv'
<1>1. pc' = pc /\ isr' = isr /\ KernelOK(k) /\ k.lock = 0 /\ s \in WaitLists
  BY SemaphoreAssumption DEF IsrRelease, IInv, KernelInv, SemLocked
<1>2. CASE k.wait[s] # <<>> /\ k' = rt_schedule(rt_ipc_list_resume(k, s))
  <2>1. KernelOK(rt_ipc_list_resume(k, s)) /\ rt_ipc_list_resume(k, s).lock = 0
    BY <1>1, <1>2, ListResumeOK DEF Woken
  <2>2. MostUrgent(k')
    BY <1>2, <2>1, ScheduleOK
  <2>. QED BY <1>1, <2>2 DEF UrgentInv
<1>3. CASE k' = k
  BY <1>1, <1>3 DEF UrgentInv
<1>. QED BY <1>2, <1>3 DEF IsrRelease, Wake, Count

\* A thread that is current takes a step to place p.
LEMMA UrgentMove ==
    ASSUME IInv, UrgentInv, NEW t \in Threads, k.cur = t, isr = "none", isr' = isr,
           NEW p \in Places \ Detaching, pc' = [pc EXCEPT ![t] = p],
           \/ k'.cur = t /\ p \in ToSchedule
           \/ k' = rt_schedule(k)
           \/ pc[t] \notin ToSchedule /\ k' = k
           \/ pc[t] \notin ToSchedule /\ k' = ResetError(t)
    PROVE  UrgentInv'
<1>1. pc \in [Threads -> Places] /\ KernelOK(k) /\ k.lock = 0 /\ k \in KernelState
  BY DEF IInv, TypeOK, KernelInv, SemLocked
<1>2. \A x \in Threads : pc'[x] = IF x = t THEN p ELSE pc[x]
  BY <1>1
<1>3. \A x \in Threads : pc'[x] \notin Detaching
  BY <1>2 DEF UrgentInv
<1>4. CASE k'.cur = t /\ p \in ToSchedule
  BY <1>2, <1>3, <1>4 DEF UrgentInv
<1>5. CASE k' = rt_schedule(k)
  BY <1>1, <1>3, <1>5, ScheduleOK DEF UrgentInv
<1>6. CASE pc[t] \notin ToSchedule /\ k' = k
  BY <1>3, <1>6 DEF UrgentInv
<1>7. CASE pc[t] \notin ToSchedule /\ k' = ResetError(t)
  <2>1. k'.stat = k.stat /\ k'.prio = k.prio /\ k'.cur = k.cur
    BY <1>1, <1>7 DEF ResetError, KernelState
  <2>2. MostUrgent(k)
    BY <1>7 DEF UrgentInv
  <2>3. MostUrgent(k')
    BY <2>1, <2>2 DEF MostUrgent
  <2>. QED BY <1>3, <2>3 DEF UrgentInv
<1>. QED BY <1>4, <1>5, <1>6, <1>7

LEMMA UrgentSame ==
    ASSUME UrgentInv, UNCHANGED <<k, pc, isr>>
    PROVE  UrgentInv'
BY DEF UrgentInv

LEMMA UrgentStep ==
    ASSUME IInv, UrgentInv, NEW t \in Threads, KernelStep(t)
    PROVE  UrgentInv'
<1>1. {"run", "take_woken", "slept"} \subseteq Places \ Detaching
  BY DEF Places, Detaching
<1>2. CASE TakeReturn(t)
  <2>1. /\ k.cur = t /\ isr = "none" /\ isr' = isr /\ k' = k
        /\ pc[t] \notin ToSchedule /\ pc' = [pc EXCEPT ![t] = "run"]
    BY <1>2 DEF TakeReturn, At, Return, Go, ToSchedule
  <2>. QED BY <1>1, <2>1, UrgentMove
<1>3. ASSUME NEW from, NEW p \in {"run", "take_woken", "slept"}, Resched(t, from, p)
      PROVE  UrgentInv'
  <2>1. /\ k.cur = t /\ isr = "none" /\ isr' = isr /\ k' = rt_schedule(k)
        /\ pc' = [pc EXCEPT ![t] = p]
    BY <1>3 DEF Resched, At, Go
  <2>. QED BY <1>1, <2>1, UrgentMove
<1>4. CASE SleepReturn(t)
  <2>1. /\ k.cur = t /\ isr = "none" /\ isr' = isr /\ k' \in {k, ResetError(t)}
        /\ pc[t] \notin ToSchedule /\ pc' = [pc EXCEPT ![t] = "run"]
    BY <1>4 DEF SleepReturn, At, Go, ToSchedule
  <2>. QED BY <1>1, <2>1, UrgentMove
<1>5. ~DetachSteps(t)
  BY DEF UrgentInv, Detaching, DetachSteps, ResumeAllTest, ResumeAllWake, DetachObject, At
<1>. QED BY <1>2, <1>3, <1>4, <1>5 DEF KernelStep, SleepSteps

LEMMA UrgentCall ==
    ASSUME NeverDetached, IInv, UrgentInv, NEW t \in Threads, Call(t)
    PROVE  UrgentInv'
<1>1. ToSchedule \subseteq Places \ Detaching
  BY DEF Places, Detaching, ToSchedule
<1>2. /\ KernelInv(SemSched, SemLocked, SemWait) /\ KernelOK(k)
      /\ k \in KernelState /\ k.cur \in Threads
  BY DEF IInv, KernelInv, KernelOK, QueueOK, KernelState
<1>3. ASSUME k.cur = t, pc[t] = "run" PROVE k.stat[t] = "running"
  BY <1>2, <1>3, CurRuns DEF SemSched
<1>4. ASSUME NEW s \in Objects, NEW time \in TakeTimes, rt_sem_take(t, s, time)
      PROVE  UrgentInv'
  <2>1. /\ k.cur = t /\ isr = "none" /\ pc[t] = "run" /\ isr' = isr /\ s \in WaitLists
        /\ t # Idle
    BY <1>4, SemaphoreAssumption, IpcAssumption DEF rt_sem_take, Calls, At
  <2>2. CASE k' = k /\ pc' = pc
    BY <2>1, <2>2, UrgentSame
  <2>3. CASE TakeBlock(t, s, time)
    <3>1. /\ k' = StartTimer(rt_ipc_list_suspend(ResetError(t), s, t, Flag), t, time)
          /\ pc' = [pc EXCEPT ![t] = "take_sched"]
      BY <2>3 DEF TakeBlock, Proceed, Go
    <3>2. k'.cur = t
      <4>. DEFINE e == [k EXCEPT !.err[t] = "EOK"]
      <4>1. KernelOK(e) /\ e.stat = k.stat /\ e.cur = t
        BY <1>2, <2>1, SetErrorOK DEF Errno, ErrorSet
      <4>2. k' = StartTimer(rt_ipc_list_suspend(e, s, t, Flag), t, time)
        BY <3>1 DEF ResetError
      <4>. HIDE DEF e
      <4>3. Joins(e, k', s, t)
        BY <1>3, <2>1, <4>1, <4>2, TakeBlocks
      <4>. QED BY <4>1, <4>3 DEF Joins, Suspends
    <3>3. "take_sched" \in ToSchedule
      BY DEF ToSchedule
    <3>. QED BY <1>1, <2>1, <3>1, <3>2, <3>3, UrgentMove
  <2>. QED BY <1>4, <2>2, <2>3 DEF rt_sem_take, TakeNow, TakeFail
<1>5. ASSUME NEW s \in Objects, rt_sem_release(t, s)
      PROVE  UrgentInv'
  <2>1. k.cur = t /\ isr = "none" /\ isr' = isr /\ s \in WaitLists
    BY <1>5, SemaphoreAssumption DEF rt_sem_release, Calls, At
  <2>2. CASE k' = k /\ pc' = pc
    BY <2>1, <2>2, UrgentSame
  <2>3. CASE Wake(s) /\ k' = rt_ipc_list_resume(k, s) /\ Go(t, "rel_sched")
    <3>1. k'.cur = t
      BY <1>2, <2>1, <2>3, ListResumeOK DEF Wake, Woken
    <3>2. "rel_sched" \in ToSchedule /\ pc' = [pc EXCEPT ![t] = "rel_sched"]
      BY <2>3 DEF ToSchedule, Go
    <3>. QED BY <1>1, <2>1, <3>1, <3>2, UrgentMove
  <2>. QED BY <1>5, <2>2, <2>3 DEF rt_sem_release
<1>6. ASSUME NEW s \in Objects, NEW v \in ResetValues, rt_sem_control(t, s, v)
      PROVE  UrgentInv'
  <2>1. /\ k.cur = t /\ isr = "none" /\ isr' = isr /\ s \in WaitLists
        /\ k' = rt_ipc_list_resume_all(k, s) /\ pc' = [pc EXCEPT ![t] = "ctl_sched"]
    BY <1>6, SemaphoreAssumption DEF rt_sem_control, Calls, At, Go
  <2>2. k'.cur = t
    BY <1>2, <2>1, ResumeAllOK DEF WakesAll
  <2>3. "ctl_sched" \in ToSchedule
    BY DEF ToSchedule
  <2>. QED BY <1>1, <2>1, <2>2, <2>3, UrgentMove
<1>7. \A s \in Objects : ~rt_sem_detach(t, s)
  BY DEF NeverDetached, rt_sem_detach, DetachCall
<1>8. CASE rt_thread_sleep(t)
  <2>1. /\ k.cur = t /\ isr = "none" /\ isr' = isr /\ pc[t] = "run" /\ t # Idle
        /\ k' = StartTimer(rt_thread_suspend(k, t), t, "finite")
        /\ pc' = [pc EXCEPT ![t] = "sleep_sched"]
    BY <1>8, IpcAssumption DEF rt_thread_sleep, At, Go
  <2>2. k'.cur = t
    BY <1>2, <1>3, <2>1, SleepBlocks DEF Suspends
  <2>3. "sleep_sched" \in ToSchedule
    BY DEF ToSchedule
  <2>. QED BY <1>1, <2>1, <2>2, <2>3, UrgentMove
<1>. QED BY <1>4, <1>5, <1>6, <1>7, <1>8 DEF Call

LEMMA UrgentNext ==
    ASSUME NeverDetached, IInv, UrgentInv, [Next]_vars
    PROVE  UrgentInv'
<1>1. CASE UNCHANGED vars
  BY <1>1, UrgentSame DEF vars
<1>. QED BY <1>1, UrgentTick, UrgentIsr, UrgentStep, UrgentCall DEF Next

LEMMA UrgentInit == Init => UrgentInv
<1>. SUFFICES ASSUME Init PROVE UrgentInv
  OBVIOUS
<1>1. MostUrgent(k)
  BY BootedOK DEF Init, IpcInit
<1>2. \A t \in Threads : pc[t] \notin Detaching
  BY DEF Init, IpcInit, Detaching
<1>. QED BY <1>1, <1>2 DEF UrgentInv

\* Application code never runs while a more urgent thread is ready: whoever
\* makes a thread ready, rt_sem_release, an interrupt handler, a timeout or a
\* reset, calls rt_schedule before the processor goes back to the application.
THEOREM AlwaysPreemptive ==
    ASSUME ValueBounded, NeverDetached
    PROVE  Spec => []Preemptive
<1>1. Init => IInv /\ UrgentInv
  BY InitOK, UrgentInit
<1>2. IInv /\ UrgentInv /\ [Next]_vars => IInv' /\ UrgentInv'
  BY NextOK, UrgentNext
<1>3. UrgentInv => Preemptive
  BY DEF UrgentInv, Preemptive, MostUrgent, ToSchedule
<1>. QED BY <1>1, <1>2, <1>3, PTL DEF Spec
=============================================================================
