---------------------------- MODULE ThreadsProofs ----------------------------
(***************************************************************************)
(* Proofs about the life cycle of threads, for any number of threads and   *)
(* priorities.  rt_thread_resume, rt_thread_suspend and rt_thread_delete   *)
(* test the state of a thread in one critical section and act on it in     *)
(* another, so what the runs check needs a discipline in the application.  *)
(* Two are treated together: a manager above all others, or managers that  *)
(* only start threads and change priorities (Disciplined).                 *)
(***************************************************************************)
EXTENDS Threads, KernelProofs, TLAPS

-----------------------------------------------------------------------------
(* The hypothesis.                                                         *)

\* m is the only manager and is more urgent than every other thread, now and
\* after every change of priority; no other thread sleeps.
Commands(m) ==
    /\ Managers \subseteq {m}
    /\ Sleepers \subseteq {m}
    /\ m \notin Workers
    /\ \A t \in Threads \ {m} : InitPrio[m] < InitPrio[t]
    /\ \A p \in NewPrios : InitPrio[m] < p

Commanded == \E m \in Users : Commands(m)

Chief == CHOOSE m \in Users : Commands(m)

\* Any number of managers of any urgency, and any sleepers, but threads are
\* only created, started and given another priority.
StartsOnly == Operations \subseteq {"startup", "priority"}

Disciplined == Commanded \/ StartsOnly

LEMMA ChiefCommands ==
    ASSUME Commanded
    PROVE  Chief \in Users /\ Commands(Chief)
BY DEF Commanded, Chief

-----------------------------------------------------------------------------
(* The inductive invariant.                                                *)

\* Between the change of state in rt_thread_startup and the insertion.
Starting == {"st_test", "st_unlink", "st_insert"}

\* Inside the other calls on a thread.
Managing == {"res_test", "res_unlink", "res_insert", "sus_do",
             "del_remove", "del_timer", "del_close", "del_defunct"}

\* Where the current thread may be suspended or closed, on its way to
\* rt_schedule.
Halting == {"sus_sched", "sleep_sched", "exit_sched"}

\* There is always a thread to run, and nobody leaves the processor with the
\* scheduler locked.
ProcInv ==
    /\ k.stat[k.cur] = "running" \/ pc[k.cur] \in Halting
    /\ k.lock # 0 => k.stat[k.cur] = "running"
    /\ k.stat[Idle] \in Ready
    /\ pc[Idle] \in {"run", "reap_take", "reap_free"}

\* A thread that is being started belongs to the caller: it is on no list, has
\* no timer, and nobody else starts it.
StartInv ==
    \A t \in Threads : pc[t] \in Starting =>
        /\ t \in Managers /\ k.stat[t] \in Ready
        /\ arg[t] \in alive /\ arg[t] \notin k.timers /\ k.stat[arg[t]] = "suspend"
        /\ \A u \in Threads : pc[u] \in Starting /\ arg[u] = arg[t] => u = t

\* A thread inside another management call keeps the processor, so what it has
\* tested of the thread it works on stays true.
Works(t) ==
    /\ Commanded /\ t = Chief /\ t = k.cur /\ k.stat[t] = "running"
    /\ arg[t] \in Users \cap alive /\ (arg[t] = t => pc[t] = "sus_do")
    /\ pc[t] \in {"res_unlink", "res_insert"} => k.stat[arg[t]] = "suspend"
    /\ pc[t] = "sus_do" => k.stat[arg[t]] \in Ready /\ (arg[t] = t => k.lock = 0)
    /\ pc[t] \in {"del_remove", "del_timer", "del_close"} => k.stat[arg[t]] # "close"
    /\ pc[t] = "del_defunct" =>
          /\ k.stat[arg[t]] = "close" /\ arg[t] \notin ToSet(k.defunct)
          /\ ~(pc[Idle] = "reap_free" /\ arg[Idle] = arg[t])

ManageInv == \A t \in Threads : pc[t] \in Managing => Works(t)

\* Only the manager has a timer, and nobody reaches its urgency.
ChiefInv ==
    Commanded =>
        /\ k.timers \subseteq {Chief} /\ k.prio[Chief] = InitPrio[Chief]
        /\ \A t \in Threads \ {Chief} : InitPrio[Chief] < k.prio[t]

\* A control block that is gone is not in use; what waits for the idle thread,
\* or is in its hands, is closed and not given back yet.
FreedInv ==
    /\ \A t \in Threads \ alive : k.stat[t] \in {"init", "close"}
    /\ ToSet(k.defunct) \subseteq alive
    /\ pc[Idle] = "reap_free" =>
          arg[Idle] \in alive \ ToSet(k.defunct) /\ k.stat[arg[Idle]] = "close"

IInv ==
    /\ TypeOK
    /\ QueuesSound
    /\ ProcInv
    /\ StartInv
    /\ ManageInv
    /\ ChiefInv
    /\ FreedInv

\* What ClosedStaysClosed says of one step.
ClosedKept ==
    \A t \in Threads : k.stat[t] = "close" => k'.stat[t] \in {"close", "init"}

-----------------------------------------------------------------------------
(* Kernel operators and the defunct list.                                  *)

LEMMA UnlinkDefunct ==
    ASSUME NEW ks, QueueOK(ks), NEW t \in Threads, ks.stat[t] # "close"
    PROVE  /\ Unlink(ks, t).defunct = ks.defunct
           /\ rt_schedule_remove_thread(ks, t).defunct = ks.defunct
<1>1. ks \in KernelState /\ ks.defunct \in Seq(Threads) /\ t \notin ToSet(ks.defunct)
  BY DEF QueueOK, DefunctOK, KernelState
<1>2. RemoveFirst(ks.defunct, t) = ks.defunct
  BY <1>1, RemoveAbsent
<1>3. Unlink(ks, t).defunct = ks.defunct
  BY <1>1, <1>2 DEF Unlink, KernelState
<1>4. rt_schedule_remove_thread(ks, t).defunct = Unlink(ks, t).defunct
  <2>1. Unlink(ks, t) \in KernelState
    BY UnlinkFields
  <2>. DEFINE u == Unlink(ks, t)
  <2>2. rt_schedule_remove_thread(ks, t) \in {u, [u EXCEPT !.group = @ \ {ks.prio[t]}]}
    BY DEF rt_schedule_remove_thread
  <2>. HIDE DEF u
  <2>3. u \in KernelState
    BY <2>1 DEF u
  <2>4. rt_schedule_remove_thread(ks, t).defunct = u.defunct
    BY <2>2, <2>3 DEF KernelState
  <2>. QED BY <2>4 DEF u
<1>. QED BY <1>3, <1>4

LEMMA InsertDefunct ==
    ASSUME NEW ks \in KernelState, NEW t \in Threads
    PROVE  /\ rt_schedule_insert_thread(ks, t) \in KernelState
           /\ rt_schedule_insert_thread(ks, t).defunct = ks.defunct
<1>. DEFINE p == ks.prio[t]
            a == [ks EXCEPT !.stat[t] = "running"]
            b == [ks EXCEPT !.stat[t] = "ready", !.ready[p] = Append(@, t),
                            !.group = @ \union {p}]
<1>1. p \in Prio /\ Append(ks.ready[p], t) \in Seq(Threads)
  BY DEF KernelState
<1>2. a \in KernelState /\ a.defunct = ks.defunct
  BY DEF KernelState, Stat
<1>. HIDE DEF p
<1>3. b \in KernelState /\ b.defunct = ks.defunct
  BY <1>1 DEF KernelState, Stat
<1>4. rt_schedule_insert_thread(ks, t) \in {a, b}
  BY DEF rt_schedule_insert_thread, p
<1>. QED BY <1>2, <1>3, <1>4

LEMMA ScheduleDefunct ==
    ASSUME NEW ks, KernelOK(ks)
    PROVE  rt_schedule(ks).defunct = ks.defunct
<1>1. QueueOK(ks) /\ CurOK(ks) /\ ks \in KernelState /\ ks.cur \in Threads
  BY DEF KernelOK, QueueOK, KernelState
<1>2. CASE ks.lock # 0 \/ ks.group = {}
  BY <1>2 DEF rt_schedule
<1>3. CASE ~(ks.lock # 0 \/ ks.group = {}) /\ Stays(ks)
  <2>. DEFINE d == rt_schedule_remove_thread(ks, ks.cur)
  <2>1. rt_schedule(ks) = [d EXCEPT !.stat[ks.cur] = "running"]
    BY <1>3 DEF rt_schedule
  <2>2. d.defunct = ks.defunct
    BY <1>1, <1>3, UnlinkDefunct DEF Stays
  <2>3. d \in KernelState
    BY <1>1, RemoveFrees DEF FreeOf
  <2>. HIDE DEF d
  <2>. QED BY <2>1, <2>2, <2>3 DEF KernelState
<1>4. CASE ~(ks.lock # 0 \/ ks.group = {}) /\ ~Stays(ks)
  <2>. DEFINE to == HighestThread(ks)
              away == [ks EXCEPT !.cur = to]
              back == IF ks.stat[ks.cur] = "running"
                      THEN rt_schedule_insert_thread(away, ks.cur) ELSE away
              u == Unlink(back, to)
              d == rt_schedule_remove_thread(back, to)
  <2>1. to \in Threads /\ ks.stat[to] = "ready"
    BY <1>1, <1>4, HighestReady
  <2>2. to # ks.cur
    BY <1>1, <2>1 DEF CurOK
  <2>3. rt_schedule(ks) = [d EXCEPT !.stat[to] = "running"]
    BY <1>4, <2>2 DEF rt_schedule, SwitchTo
  <2>4. d \in {u, [u EXCEPT !.group = @ \ {back.prio[to]}]}
    BY DEF rt_schedule_remove_thread
  <2>5. u.defunct = RemoveFirst(back.defunct, to)
    BY DEF Unlink
  <2>6. away \in KernelState /\ away.defunct = ks.defunct
    <3>. HIDE DEF to
    <3>. QED BY <1>1, <2>1 DEF KernelState
  <2>. HIDE DEF away
  <2>7. back.defunct = ks.defunct
    BY <1>1, <2>6, InsertDefunct
  <2>8. ks.defunct \in Seq(Threads) /\ to \notin ToSet(ks.defunct)
    BY <1>1, <2>1 DEF QueueOK, DefunctOK, KernelState
  <2>9. u.defunct = ks.defunct
    BY <2>5, <2>7, <2>8, RemoveAbsent
  <2>10. [d EXCEPT !.stat[to] = "running"].defunct = u.defunct
    <3>1. back \in KernelState
      BY <1>1, <2>6, InsertDefunct
    <3>. HIDE DEF back, to
    <3>2. d.defunct = u.defunct /\ DOMAIN d = DOMAIN back
      BY <2>4, <3>1 DEF Unlink, KernelState
    <3>3. DOMAIN back = {"stat", "prio", "err", "ready", "group", "wait", "defunct",
                         "timers", "cur", "lock"}
      BY <3>1 DEF KernelState
    <3>. HIDE DEF d, u
    <3>. QED BY <3>2, <3>3
  <2>. QED BY <2>3, <2>9, <2>10
<1>. QED BY <1>2, <1>3, <1>4

\* A running thread that is more urgent than every ready one keeps the
\* processor, and rt_schedule changes nothing at all.  m is the state with
\* threads that are being deleted put aside.
LEMMA ScheduleStays ==
    ASSUME NEW ks \in KernelState, ks.stat[ks.cur] = "running",
           NEW m, QueueOK(m), m.stat[ks.cur] = "running",
           m.ready = ks.ready, m.group = ks.group, m.wait = ks.wait,
           m.defunct = ks.defunct, m.prio = ks.prio,
           \A x \in Threads : m.stat[x] = "ready" => ks.prio[ks.cur] < ks.prio[x]
    PROVE  rt_schedule(ks) = ks
<1>. DEFINE c == ks.cur
<1>1. CASE ks.lock # 0 \/ ks.group = {}
  BY <1>1 DEF rt_schedule
<1>2. CASE ~(ks.lock # 0 \/ ks.group = {})
  <2>1. /\ c \in Threads /\ ks.prio[c] \in Prio /\ ks.group \subseteq Prio
        /\ \A p \in Prio : ks.ready[p] \in Seq(Threads) /\ c \notin ToSet(ks.ready[p])
        /\ \A w \in WaitLists : ks.wait[w] \in Seq(Threads) /\ c \notin ToSet(ks.wait[w])
        /\ ks.defunct \in Seq(Threads) /\ c \notin ToSet(ks.defunct)
    BY DEF KernelState, QueueOK, ReadyOK, WaitOK, DefunctOK
  <2>2. ASSUME NEW p \in ks.group PROVE ks.prio[c] < p
    <3>1. p \in Prio /\ ks.ready[p] # <<>> /\ ks.ready[p] \in Seq(Threads)
      BY <2>1 DEF QueueOK, ReadyOK
    <3>2. Head(ks.ready[p]) \in ToSet(ks.ready[p]) /\ ToSet(ks.ready[p]) \subseteq Threads
      BY <3>1, HeadIn, ToSetDef
    <3>3. /\ m.stat[Head(ks.ready[p])] = "ready" /\ ks.prio[Head(ks.ready[p])] = p
          /\ Head(ks.ready[p]) \in Threads
      BY <3>1, <3>2 DEF QueueOK, ReadyOK
    <3>. QED BY <3>3
  <2>3. Stays(ks)
    <3>1. ks.group \in SUBSET Nat
      BY <2>1, PrioNat
    <3>2. Min(ks.group) \in ks.group
      BY <1>2, <3>1, MinExists
    <3>. QED BY <2>2, <3>2 DEF Stays
  <2>4. Unlink(ks, c) = ks
    <3>1. \A p \in Prio : RemoveFirst(ks.ready[p], c) = ks.ready[p]
      BY <2>1, RemoveAbsent
    <3>2. \A w \in WaitLists : RemoveFirst(ks.wait[w], c) = ks.wait[w]
      BY <2>1, RemoveAbsent
    <3>3. RemoveFirst(ks.defunct, c) = ks.defunct
      BY <2>1, RemoveAbsent
    <3>4. [p \in Prio |-> RemoveFirst(ks.ready[p], c)] = ks.ready
      BY <3>1 DEF KernelState
    <3>5. [w \in WaitLists |-> RemoveFirst(ks.wait[w], c)] = ks.wait
      BY <3>2 DEF KernelState
    <3>. QED BY <3>3, <3>4, <3>5 DEF Unlink, KernelState
  <2>5. ks.group \ {ks.prio[c]} = ks.group
    <3>1. ks.prio[c] \notin ks.group
      <4>1. ks.prio[c] \in Nat
        BY <2>1, PrioNat
      <4>. QED BY <2>2, <4>1
    <3>. QED BY <3>1, Zenon
  <2>6. rt_schedule_remove_thread(ks, c) = ks
    <3>1. [ks EXCEPT !.group = @ \ {ks.prio[c]}] = ks
      BY <2>5 DEF KernelState
    <3>. QED BY <2>4, <3>1 DEF rt_schedule_remove_thread
  <2>7. rt_schedule(ks) = [rt_schedule_remove_thread(ks, c) EXCEPT !.stat[c] = "running"]
    BY <1>2, <2>3 DEF rt_schedule
  <2>8. [ks EXCEPT !.stat[c] = "running"] = ks
    BY <2>1 DEF KernelState
  <2>. QED BY <2>6, <2>7, <2>8
<1>. QED BY <1>1, <1>2

\* A thread on no list that is not marked ready is where it belongs.
LEMMA FreeIsOK ==
    ASSUME NEW ks, NEW t \in Threads, FreeOf(ks, t), ks.stat[t] # "ready",
           t \in ks.timers => ks.stat[t] = "suspend"
    PROVE  QueueOK(ks)
BY DEF FreeOf, QueueOK, ReadyOK, WaitOK, DefunctOK, TimersOK

\* With no IPC object, a thread that is not ready and not dead is on no list.
LEMMA IsFree ==
    ASSUME NEW ks, QueueOK(ks), NEW t \in Threads, ks.stat[t] # "ready",
           t \notin ToSet(ks.defunct)
    PROVE  FreeOf(ks, t)
BY ThreadsAssumption DEF FreeOf, QueueOK, ReadyOK, WaitOK, DefunctOK, TimersOK

-----------------------------------------------------------------------------
(* Threads that are being deleted.                                         *)

\* The kernel state with the threads of D taken for threads not yet started.
Mask(ks, D) == [ks EXCEPT !.stat = [u \in Threads |-> IF u \in D THEN "init" ELSE @[u]]]

LEMMA MaskFields ==
    ASSUME NEW ks \in KernelState, NEW D
    PROVE  /\ Mask(ks, D) \in KernelState
           /\ Mask(ks, D).stat = [u \in Threads |-> IF u \in D THEN "init" ELSE ks.stat[u]]
           /\ Mask(ks, D).prio = ks.prio /\ Mask(ks, D).err = ks.err
           /\ Mask(ks, D).ready = ks.ready /\ Mask(ks, D).group = ks.group
           /\ Mask(ks, D).wait = ks.wait /\ Mask(ks, D).defunct = ks.defunct
           /\ Mask(ks, D).timers = ks.timers /\ Mask(ks, D).cur = ks.cur
           /\ Mask(ks, D).lock = ks.lock
BY DEF Mask, KernelState, Stat

LEMMA MaskNobody ==
    ASSUME NEW ks \in KernelState
    PROVE  Mask(ks, {}) = ks
<1>1. [u \in Threads |-> IF u \in {} THEN "init" ELSE ks.stat[u]] = ks.stat
  BY DEF KernelState
<1>. QED BY <1>1 DEF Mask, KernelState

LEMMA SoundIs == QueuesSound <=> KernelOK(Mask(k, Deleting))
BY DEF QueuesSound, Mask

\* Nobody is being deleted.
LEMMA NobodyDeleted ==
    ASSUME \A t \in Threads : pc[t] \notin {"del_timer", "del_close"}
    PROVE  Deleting = {}
BY DEF Deleting

LEMMA SoundWithout ==
    ASSUME TypeOK, Deleting = {}
    PROVE  QueuesSound <=> KernelOK(k)
<1>1. Mask(k, {}) = k
  BY MaskNobody DEF TypeOK
<1>. QED BY <1>1, SoundIs

\* While the current thread is outside the management calls, so is everybody.
LEMMA Alone ==
    ASSUME IInv, pc[k.cur] \notin Managing
    PROVE  KernelOK(k) /\ \A t \in Threads : pc[t] \notin Managing
<1>1. \A t \in Threads : pc[t] \notin Managing
  BY DEF IInv, ManageInv, Works
<1>2. Deleting = {}
  BY <1>1, NobodyDeleted DEF Managing
<1>. QED BY <1>1, <1>2, SoundWithout DEF IInv

\* The same for the state after a step.
LEMMA SoundAfter ==
    ASSUME KernelOK(k'), \A t \in Threads : pc'[t] \notin {"del_timer", "del_close"}
    PROVE  QueuesSound'
<1>1. Deleting' = {}
  BY NobodyDeleted, Zenon DEF Deleting
<1>2. k' \in KernelState
  BY DEF KernelOK, QueueOK
<1>3. Mask(k', {}) = k'
  BY <1>2, MaskNobody
<1>4. Mask(k', Deleting') = k'
  BY <1>1, <1>3
<1>. QED BY <1>4 DEF QueuesSound, Mask

-----------------------------------------------------------------------------
(* Steps that only pass the processor on.                                  *)

\* Ready and running threads may have changed places, and one is running.
Turned(ks, r) ==
    /\ KernelOK(r)
    /\ r.prio = ks.prio /\ r.timers = ks.timers /\ r.lock = ks.lock
    /\ r.defunct = ks.defunct
    /\ \A x \in Threads :
          r.stat[x] = ks.stat[x] \/ (ks.stat[x] \in Ready /\ r.stat[x] \in Ready)
    /\ r.stat[r.cur] = "running"

LEMMA ScheduleTurns ==
    ASSUME NEW ks, KernelOK(ks), ks.stat[Idle] \in Ready,
           ks.lock # 0 => ks.stat[ks.cur] = "running"
    PROVE  Turned(ks, rt_schedule(ks))
<1>. DEFINE r == rt_schedule(ks)
<1>1. ks.lock = 0 \/ ks.stat[ks.cur] = "running"
  OBVIOUS
<1>2. r.stat[r.cur] = "running"
  BY <1>1, QuietTrySchedule DEF Ready
<1>3. Switched(ks, r)
  BY ScheduleOK
<1>4. r.defunct = ks.defunct
  BY ScheduleDefunct
<1>. HIDE DEF r
<1>5. Turned(ks, r)
  BY <1>2, <1>3, <1>4 DEF Switched, Turned, Ready
<1>. QED BY <1>5 DEF r

LEMMA PlacesDisjoint ==
    /\ Starting \cap Managing = {} /\ Starting \cap Halting = {} /\ Managing \cap Halting = {}
    /\ "run" \notin Starting \union Managing \union Halting
    /\ Starting \union Managing \union Halting \subseteq Places
BY DEF Starting, Managing, Halting, Places

\* rt_schedule, called by the tick interrupt or at the end of a call.
LEMMA TurnKept ==
    ASSUME IInv, Turned(k, k'), \A t \in Threads : pc[t] \notin Managing,
           isr' \in {"none", "tick", "timeout"}, UNCHANGED <<arg, alive>>,
           \/ pc' = pc
           \/ \E q \in {"run", "slept", "dead"} :
                 /\ pc' = [pc EXCEPT ![k.cur] = q]
                 /\ k.cur # Idle /\ pc[k.cur] \notin Starting
    PROVE  IInv' /\ ClosedKept
<1>1. /\ k \in KernelState /\ pc \in [Threads -> Places]
      /\ arg \in [Threads -> Threads \union {None}] /\ alive \subseteq Threads
      /\ k.cur \in Threads /\ Idle \in Threads
  BY KernelAssumption DEF IInv, TypeOK, KernelState
<1>2. k' \in KernelState /\ k'.cur \in Threads
  BY DEF Turned, KernelOK, QueueOK, KernelState
<1>3. \A x \in Threads : pc'[x] = pc[x] \/ (x = k.cur /\ pc'[x] \in {"run", "slept", "dead"})
  BY <1>1
<1>4. pc' \in [Threads -> Places]
  BY <1>1 DEF Places
<1>5. \A x \in Threads : pc'[x] \notin Managing
  BY <1>3 DEF Managing
<1>6. \A x \in Threads : pc'[x] \in Starting => pc[x] \in Starting
  BY <1>3 DEF Starting
<1>7. pc'[Idle] = pc[Idle]
  BY <1>1
<1>8. TypeOK'
  BY <1>1, <1>2, <1>4 DEF TypeOK
<1>9. QueuesSound'
  BY <1>5, SoundAfter DEF Turned, Managing
<1>10. ProcInv'
  BY <1>1, <1>7 DEF IInv, ProcInv, Turned
<1>11. StartInv'
  BY <1>1, <1>6 DEF IInv, StartInv, Turned, Ready
<1>12. ManageInv'
  BY <1>5 DEF ManageInv
<1>13. ChiefInv'
  BY DEF IInv, ChiefInv, Turned
<1>14. FreedInv'
  BY <1>1, <1>7 DEF IInv, FreedInv, Turned, Ready
<1>15. ClosedKept
  BY DEF ClosedKept, Turned, Ready
<1>. QED BY <1>8, <1>9, <1>10, <1>11, <1>12, <1>13, <1>14, <1>15 DEF IInv

LEMMA ReschedKept ==
    ASSUME IInv, NEW t \in Threads, NEW from, NEW to \in {"run", "slept", "dead"},
           from \notin Managing \union Starting \union {"run", "reap_take", "reap_free"},
           Resched(t, from, to)
    PROVE  IInv' /\ ClosedKept
<1>1. k.cur = t /\ pc[t] = from /\ isr = "none" /\ k' = rt_schedule(k)
      /\ pc' = [pc EXCEPT ![t] = to] /\ UNCHANGED <<isr, arg, alive>>
  BY DEF Resched, At, Go
<1>2. KernelOK(k) /\ \A x \in Threads : pc[x] \notin Managing
  BY <1>1, Alone
<1>3. Turned(k, k')
  BY <1>1, <1>2, ScheduleTurns DEF IInv, ProcInv
<1>4. k.cur # Idle
  BY <1>1 DEF IInv, ProcInv
<1>. QED BY <1>1, <1>2, <1>3, <1>4, TurnKept

\* A thread in a management call is the manager, and every interrupt returns to
\* it: nothing is ready that is as urgent, and no timer runs.
LEMMA ManagerStays ==
    ASSUME IInv, NEW t \in Threads, pc[t] \in Managing
    PROVE  rt_schedule(k) = k /\ k.timers = {}
<1>. DEFINE ks == Mask(k, Deleting)
<1>1. /\ Commanded /\ t = Chief /\ t = k.cur /\ k.stat[t] = "running"
      /\ arg[t] = t => pc[t] = "sus_do"
      /\ \A x \in Threads : pc[x] \in Managing => x = t
  BY DEF IInv, ManageInv, Works
<1>2. t \notin Deleting
  <2>. SUFFICES ASSUME NEW x \in Threads, pc[x] \in {"del_timer", "del_close"}, arg[x] = t
                PROVE  FALSE
    BY DEF Deleting
  <2>1. x = t
    BY <1>1 DEF Managing
  <2>. QED BY <1>1, <2>1
<1>3. k \in KernelState
  BY DEF IInv, TypeOK
<1>4. /\ ks \in KernelState /\ ks.cur = k.cur /\ ks.prio = k.prio /\ ks.timers = k.timers
      /\ ks.lock = k.lock /\ ks.group = k.group /\ ks.ready = k.ready
      /\ ks.wait = k.wait /\ ks.defunct = k.defunct
      /\ ks.stat = [u \in Threads |-> IF u \in Deleting THEN "init" ELSE k.stat[u]]
  BY <1>3, MaskFields
<1>5. KernelOK(ks)
  BY SoundIs DEF IInv
<1>. HIDE DEF ks
<1>6. ks.stat[ks.cur] = "running" /\ QueueOK(ks)
  BY <1>1, <1>2, <1>4, <1>5 DEF KernelOK
<1>7. \A x \in Threads : ks.stat[x] = "ready" => ks.prio[ks.cur] < ks.prio[x]
  BY <1>1, <1>4, <1>6 DEF IInv, ChiefInv
<1>8. k.timers = {}
  <2>1. \A x \in k.timers : x = t /\ ks.stat[x] = "suspend"
    BY <1>1, <1>4, <1>6 DEF IInv, ChiefInv, QueueOK, TimersOK
  <2>. QED BY <1>1, <1>4, <1>6, <2>1
<1>9. rt_schedule(k) = k
  <2>1. \A x \in Threads : ks.stat[x] = "ready" => k.prio[k.cur] < k.prio[x]
    BY <1>4, <1>7
  <2>. QED BY <1>1, <1>3, <1>4, <1>6, <2>1, ScheduleStays
<1>. QED BY <1>8, <1>9

-----------------------------------------------------------------------------
(* The tick interrupt.                                                     *)

LEMMA SameKept ==
    ASSUME IInv, isr' \in {"none", "tick", "timeout"}, UNCHANGED <<k, pc, arg, alive>>
    PROVE  IInv' /\ ClosedKept
<1>1. TypeOK'
  BY DEF IInv, TypeOK
<1>2. QueuesSound'
  BY DEF IInv, QueuesSound, Deleting
<1>3. ProcInv' /\ StartInv' /\ ManageInv' /\ ChiefInv' /\ FreedInv'
  BY DEF IInv, ProcInv, StartInv, ManageInv, Works, ChiefInv, FreedInv
<1>4. ClosedKept
  BY DEF ClosedKept
<1>. QED BY <1>1, <1>2, <1>3, <1>4 DEF IInv

LEMMA TimeoutDefunct ==
    ASSUME NEW ks, KernelOK(ks), NEW t \in Threads, ks.stat[t] = "suspend"
    PROVE  rt_thread_timeout(ks, t).defunct = ks.defunct
<1>. DEFINE u == Unlink(ks, t)
            e == [u EXCEPT !.err[t] = "ETIMEOUT", !.timers = @ \ {t}]
<1>1. QueueOK(ks)
  BY DEF KernelOK
<1>2. u \in KernelState /\ u.defunct = ks.defunct
  BY <1>1, UnlinkDefunct, UnlinkFields
<1>3. rt_thread_timeout(ks, t) = rt_schedule_insert_thread(e, t)
  BY DEF rt_thread_timeout
<1>. HIDE DEF u
<1>4. e \in KernelState /\ e.defunct = u.defunct
  BY <1>2 DEF KernelState, Errno
<1>. HIDE DEF e
<1>. QED BY <1>2, <1>3, <1>4, InsertDefunct

\* The timer of a sleeping thread expires.
LEMMA ExpireKept ==
    ASSUME IInv, \A t \in Threads : pc[t] \notin Managing, KernelOK(k),
           NEW x \in k.timers, k' = rt_thread_timeout(k, x),
           isr' \in {"none", "tick", "timeout"}, UNCHANGED <<pc, arg, alive>>
    PROVE  IInv' /\ ClosedKept
<1>1. /\ k \in KernelState /\ pc \in [Threads -> Places]
      /\ arg \in [Threads -> Threads \union {None}] /\ alive \subseteq Threads
      /\ k.cur \in Threads /\ Idle \in Threads /\ x \in Threads
  BY KernelAssumption DEF IInv, TypeOK, KernelState
<1>2. k.stat[x] = "suspend"
  BY DEF KernelOK, QueueOK, TimersOK
<1>3. Expired(k, k', x)
  BY <1>1, <1>2, TimeoutOK
<1>4. k'.defunct = k.defunct
  BY <1>1, <1>2, TimeoutDefunct
<1>5. /\ KernelOK(k') /\ k' \in KernelState
      /\ k'.prio = k.prio /\ k'.timers = k.timers \ {x}
      /\ k'.cur = k.cur /\ k'.lock = k.lock
      /\ \A y \in Threads : y # x => k'.stat[y] = k.stat[y]
      /\ k'.stat[x] \in Ready /\ (x = k.cur => k'.stat[x] = "running")
  BY <1>1, <1>3 DEF Expired, KernelOK, QueueOK, KernelState, Ready
<1>6. TypeOK'
  BY <1>1, <1>5 DEF IInv, TypeOK
<1>7. QueuesSound'
  BY <1>5, SoundAfter DEF Managing
<1>8. ProcInv'
  BY <1>1, <1>5 DEF IInv, ProcInv
<1>9. StartInv'
  BY <1>1, <1>5 DEF IInv, StartInv
<1>10. ManageInv'
  BY DEF ManageInv
<1>11. ChiefInv'
  BY <1>5 DEF IInv, ChiefInv
<1>12. FreedInv'
  BY <1>1, <1>2, <1>4, <1>5 DEF IInv, FreedInv
<1>13. ClosedKept
  BY <1>2, <1>5 DEF ClosedKept
<1>. QED BY <1>6, <1>7, <1>8, <1>9, <1>10, <1>11, <1>12, <1>13 DEF IInv

LEMMA TickKept ==
    ASSUME IInv, Tick, Outside
    PROVE  IInv' /\ ClosedKept
<1>1. isr' \in {"none", "tick", "timeout"} /\ UNCHANGED <<pc, arg, alive>>
  BY DEF Tick, TickEnter, TickExpire, TickSchedule, TickLeave, Outside
<1>2. \/ k' = k \/ k' = rt_schedule(k)
      \/ \E x \in k.timers : k' = rt_thread_timeout(k, x)
  BY DEF Tick, TickEnter, TickExpire, TickSchedule, TickLeave
<1>3. CASE \E t \in Threads : pc[t] \in Managing
  <2>1. rt_schedule(k) = k /\ k.timers = {}
    BY <1>3, ManagerStays
  <2>2. k' = k
    BY <1>2, <2>1
  <2>. QED BY <1>1, <2>2, SameKept
<1>4. CASE \A t \in Threads : pc[t] \notin Managing
  <2>1. KernelOK(k)
    BY <1>4, Alone DEF IInv, TypeOK, KernelState
  <2>2. CASE k' = k
    BY <1>1, <2>2, SameKept
  <2>3. CASE k' = rt_schedule(k)
    <3>1. Turned(k, k')
      BY <2>1, <2>3, ScheduleTurns DEF IInv, ProcInv
    <3>. QED BY <1>1, <1>4, <3>1, TurnKept
  <2>4. CASE \E x \in k.timers : k' = rt_thread_timeout(k, x)
    BY <1>1, <1>4, <2>1, <2>4, ExpireKept
  <2>. QED BY <1>2, <2>2, <2>3, <2>4
<1>. QED BY <1>3, <1>4

-----------------------------------------------------------------------------
(* Steps of the current thread outside the management calls.               *)

LEMMA Caller ==
    ASSUME IInv, NEW t, NEW p, At(t, p), p \notin Halting \union Managing
    PROVE  /\ t \in Threads /\ k.cur = t /\ pc[t] = p /\ isr = "none"
           /\ k.stat[t] = "running"
           /\ KernelOK(k) /\ \A x \in Threads : pc[x] \notin Managing
<1>1. k.cur = t /\ pc[t] = p /\ isr = "none"
  BY DEF At
<1>2. t \in Threads
  BY <1>1 DEF IInv, TypeOK, KernelState
<1>3. k.stat[t] = "running"
  BY <1>1 DEF IInv, ProcInv
<1>. QED BY <1>1, <1>2, <1>3, Alone

\* The lists do not depend on the error codes and the lock.
LEMMA SameLists ==
    ASSUME NEW ks, KernelOK(ks), NEW r \in KernelState,
           r.stat = ks.stat, r.prio = ks.prio, r.ready = ks.ready, r.group = ks.group,
           r.wait = ks.wait, r.defunct = ks.defunct, r.timers = ks.timers, r.cur = ks.cur
    PROVE  KernelOK(r)
BY DEF KernelOK, QueueOK, ReadyOK, WaitOK, DefunctOK, TimersOK, CurOK

\* The current thread moves on, and no thread's state changes.
LEMMA PlaceKept ==
    ASSUME IInv, NEW t \in Threads, t = k.cur, k.stat[t] = "running",
           \A x \in Threads : pc[x] \notin Managing,
           KernelOK(k'), k'.stat = k.stat, k'.prio = k.prio, k'.timers = k.timers,
           ToSet(k'.defunct) = ToSet(k.defunct), k'.cur = k.cur,
           NEW q \in Places \ Managing, pc' = [pc EXCEPT ![t] = q],
           q \in Starting => pc[t] \in Starting,
           t = Idle => q \in {"run", "reap_take"},
           \/ arg' = arg
           \/ arg' = [arg EXCEPT ![t] = None] /\ q \notin Starting,
           UNCHANGED <<isr, alive>>
    PROVE  IInv' /\ ClosedKept
<1>1. /\ k \in KernelState /\ pc \in [Threads -> Places]
      /\ arg \in [Threads -> Threads \union {None}] /\ alive \subseteq Threads
      /\ k' \in KernelState /\ Idle \in Threads
  BY KernelAssumption DEF IInv, TypeOK, KernelOK, QueueOK
<1>2. \A x \in Threads : pc'[x] = IF x = t THEN q ELSE pc[x]
  BY <1>1
<1>3. \A x \in Threads : pc'[x] \notin Managing
  BY <1>2
<1>4. \A x \in Threads : pc'[x] \in Starting => pc[x] \in Starting /\ arg'[x] = arg[x]
  BY <1>1, <1>2
<1>5. TypeOK'
  BY <1>1 DEF IInv, TypeOK
<1>6. QueuesSound'
  BY <1>3, SoundAfter DEF Managing
<1>7. ProcInv'
  BY <1>1, <1>2 DEF IInv, ProcInv
<1>8. StartInv'
  BY <1>1, <1>4 DEF IInv, StartInv
<1>9. ManageInv'
  BY <1>3 DEF ManageInv
<1>10. ChiefInv'
  BY DEF IInv, ChiefInv
<1>11. FreedInv'
  BY <1>1, <1>2 DEF IInv, FreedInv
<1>12. ClosedKept
  BY DEF ClosedKept
<1>. QED BY <1>5, <1>6, <1>7, <1>8, <1>9, <1>10, <1>11, <1>12 DEF IInv

LEMMA YieldKept ==
    ASSUME IInv, NEW t \in Threads, rt_thread_yield(t)
    PROVE  IInv' /\ ClosedKept
<1>1. /\ At(t, "run") /\ pc' = [pc EXCEPT ![t] = "yield_sched"] /\ t # Idle
      /\ UNCHANGED <<k, isr, arg, alive>>
  BY IpcAssumption DEF rt_thread_yield, Go
<1>2. /\ k.cur = t /\ k.stat[t] = "running" /\ KernelOK(k)
      /\ \A x \in Threads : pc[x] \notin Managing
  BY <1>1, Caller DEF Halting, Managing
<1>3. "yield_sched" \in Places \ Managing /\ "yield_sched" \notin Starting
  BY DEF Places, Managing, Starting
<1>. QED BY <1>1, <1>2, <1>3, PlaceKept

LEMMA SleepReturnKept ==
    ASSUME IInv, NEW t \in Threads, SleepReturn(t)
    PROVE  IInv' /\ ClosedKept
<1>1. /\ At(t, "slept") /\ pc' = [pc EXCEPT ![t] = "run"]
      /\ k' = k \/ k' = [k EXCEPT !.err[t] = "EOK"]
      /\ UNCHANGED <<isr, arg, alive>>
  BY DEF SleepReturn, Go, ResetError
<1>2. /\ k.cur = t /\ k.stat[t] = "running" /\ KernelOK(k)
      /\ \A x \in Threads : pc[x] \notin Managing
  BY <1>1, Caller DEF Halting, Managing
<1>3. "run" \in Places \ Managing /\ "run" \notin Starting
  BY DEF Places, Managing, Starting
<1>4. k \in KernelState
  BY DEF IInv, TypeOK
<1>5. /\ k' \in KernelState
      /\ k'.stat = k.stat /\ k'.prio = k.prio /\ k'.ready = k.ready /\ k'.group = k.group
      /\ k'.wait = k.wait /\ k'.defunct = k.defunct /\ k'.timers = k.timers /\ k'.cur = k.cur
  <2>. DEFINE r == [k EXCEPT !.err[t] = "EOK"]
  <2>1. /\ r \in KernelState
        /\ r.stat = k.stat /\ r.prio = k.prio /\ r.ready = k.ready /\ r.group = k.group
        /\ r.wait = k.wait /\ r.defunct = k.defunct /\ r.timers = k.timers /\ r.cur = k.cur
    BY <1>4 DEF KernelState, Errno
  <2>2. k' = k \/ k' = r
    BY <1>1
  <2>. HIDE DEF r
  <2>. QED BY <1>4, <2>1, <2>2
<1>6. KernelOK(k')
  BY <1>2, <1>5, SameLists
<1>. QED BY <1>1, <1>2, <1>3, <1>5, <1>6, PlaceKept

\* rt_enter_critical and rt_exit_critical.
LEMMA LockKept ==
    ASSUME IInv, NEW t \in Threads, rt_enter_critical(t) \/ rt_exit_critical(t)
    PROVE  IInv' /\ ClosedKept
<1>1. t \in Managers /\ At(t, "run") /\ UNCHANGED <<isr, arg, alive>>
  BY DEF rt_enter_critical, rt_exit_critical
<1>2. /\ k.cur = t /\ k.stat[t] = "running" /\ KernelOK(k) /\ pc[t] = "run"
      /\ \A x \in Threads : pc[x] \notin Managing
  BY <1>1, Caller DEF Halting, Managing
<1>3. k \in KernelState /\ k.lock \in Nat /\ pc \in [Threads -> Places]
  BY DEF IInv, TypeOK, KernelState
<1>4. \E n \in Nat : k' = [k EXCEPT !.lock = n]
  BY <1>3 DEF rt_enter_critical, rt_exit_critical
<1>5. pc' = [pc EXCEPT ![t] = "run"] \/ pc' = [pc EXCEPT ![t] = "crit_sched"]
  BY <1>2, <1>3 DEF rt_enter_critical, rt_exit_critical, Go
<1>6. /\ k' \in KernelState
      /\ k'.stat = k.stat /\ k'.prio = k.prio /\ k'.ready = k.ready /\ k'.group = k.group
      /\ k'.wait = k.wait /\ k'.defunct = k.defunct /\ k'.timers = k.timers /\ k'.cur = k.cur
  BY <1>3, <1>4 DEF KernelState
<1>7. KernelOK(k')
  BY <1>2, <1>6, SameLists
<1>8. {"run", "crit_sched"} \subseteq Places \ Managing /\ {"run", "crit_sched"} \cap Starting = {}
  BY DEF Places, Managing, Starting
<1>9. t # Idle
  BY <1>1, IpcAssumption, ThreadsAssumption
<1>. QED BY <1>1, <1>2, <1>5, <1>6, <1>7, <1>8, <1>9, PlaceKept

-----------------------------------------------------------------------------
(* rt_thread_resume, cut into its critical sections.                       *)

LEMMA UnlinkSuspended ==
    ASSUME NEW ks, KernelOK(ks), NEW t \in Threads, ks.stat[t] = "suspend"
    PROVE  LET r == [Unlink(ks, t) EXCEPT !.timers = @ \ {t}] IN
           /\ KernelOK(r)
           /\ r.stat = ks.stat /\ r.prio = ks.prio /\ r.timers = ks.timers \ {t}
           /\ r.defunct = ks.defunct /\ r.cur = ks.cur /\ r.lock = ks.lock
<1>. DEFINE u == Unlink(ks, t)
            r == [u EXCEPT !.timers = @ \ {t}]
<1>1. QueueOK(ks) /\ CurOK(ks)
  BY DEF KernelOK
<1>2. /\ u.stat = ks.stat /\ u.prio = ks.prio /\ u.timers = ks.timers
      /\ u.cur = ks.cur /\ u.lock = ks.lock /\ u.defunct = ks.defunct
      /\ FreeOf(u, t) /\ u \in KernelState
  BY <1>1, UnlinkFields, UnlinkFrees, UnlinkDefunct
<1>. HIDE DEF u
<1>3. /\ r \in KernelState /\ r.stat = u.stat /\ r.prio = u.prio /\ r.ready = u.ready
      /\ r.group = u.group /\ r.wait = u.wait /\ r.defunct = u.defunct
      /\ r.timers = u.timers \ {t} /\ r.cur = u.cur /\ r.lock = u.lock
  BY <1>2 DEF KernelState
<1>. HIDE DEF r
<1>4. FreeOf(r, t)
  BY <1>2, <1>3, FreeOfFrame
<1>5. QueueOK(r)
  BY <1>2, <1>3, <1>4, FreeIsOK
<1>6. CurOK(r)
  BY <1>1, <1>2, <1>3 DEF CurOK
<1>. QED BY <1>2, <1>3, <1>5, <1>6 DEF KernelOK, r, u

LEMMA InsertSuspended ==
    ASSUME NEW ks, KernelOK(ks), NEW t \in Threads, ks.stat[t] = "suspend",
           t \notin ks.timers, t # ks.cur
    PROVE  LET r == rt_schedule_insert_thread(ks, t) IN
           /\ KernelOK(r)
           /\ r.stat = [ks.stat EXCEPT ![t] = "ready"]
           /\ r.prio = ks.prio /\ r.timers = ks.timers
           /\ r.defunct = ks.defunct /\ r.cur = ks.cur /\ r.lock = ks.lock
<1>. DEFINE r == rt_schedule_insert_thread(ks, t)
<1>1. QueueOK(ks) /\ CurOK(ks) /\ ks \in KernelState
  BY DEF KernelOK, QueueOK
<1>2. FreeOf(ks, t)
  BY <1>1, IsFree DEF QueueOK, DefunctOK
<1>3. /\ QueueOK(r) /\ r.stat = [ks.stat EXCEPT ![t] = "ready"]
      /\ r.prio = ks.prio /\ r.timers = ks.timers
      /\ r.cur = ks.cur /\ r.lock = ks.lock
  BY <1>2, InsertOK
<1>4. r.defunct = ks.defunct
  BY <1>1, InsertDefunct
<1>. HIDE DEF r
<1>5. CurOK(r)
  BY <1>1, <1>3 DEF CurOK, KernelState
<1>6. KernelOK(r)
  BY <1>3, <1>5 DEF KernelOK
<1>. QED BY <1>3, <1>4, <1>6 DEF r

LEMMA StartTestKept ==
    ASSUME IInv, NEW t \in Threads, ResumeTest(t, "st_test", "st_unlink", "st_sched")
    PROVE  IInv' /\ ClosedKept
<1>1. At(t, "st_test") /\ UNCHANGED <<k, isr, alive>>
  BY DEF ResumeTest
<1>2. /\ k.cur = t /\ k.stat[t] = "running" /\ KernelOK(k) /\ pc[t] = "st_test"
      /\ \A x \in Threads : pc[x] \notin Managing
  BY <1>1, Caller DEF Halting, Managing
<1>3. k.stat[arg[t]] = "suspend" /\ t \in Managers
  BY <1>2 DEF IInv, StartInv, Starting
<1>4. pc' = [pc EXCEPT ![t] = "st_unlink"] /\ arg' = arg
  BY <1>3 DEF ResumeTest, Go
<1>5. "st_unlink" \in Places \ Managing /\ pc[t] \in Starting
  BY <1>2 DEF Places, Managing, Starting
<1>6. t # Idle
  BY <1>3, IpcAssumption, ThreadsAssumption
<1>. QED BY <1>1, <1>2, <1>4, <1>5, <1>6, PlaceKept

LEMMA StartUnlinkKept ==
    ASSUME IInv, NEW t \in Threads, ResumeUnlink(t, "st_unlink", "st_insert")
    PROVE  IInv' /\ ClosedKept
<1>1. /\ At(t, "st_unlink") /\ pc' = [pc EXCEPT ![t] = "st_insert"]
      /\ k' = [Unlink(k, arg[t]) EXCEPT !.timers = @ \ {arg[t]}]
      /\ UNCHANGED <<isr, arg, alive>>
  BY DEF ResumeUnlink, Go
<1>2. /\ k.cur = t /\ k.stat[t] = "running" /\ KernelOK(k) /\ pc[t] = "st_unlink"
      /\ \A x \in Threads : pc[x] \notin Managing
  BY <1>1, Caller DEF Halting, Managing
<1>3. /\ k.stat[arg[t]] = "suspend" /\ t \in Managers /\ arg[t] \in Threads
      /\ arg[t] \notin k.timers
  BY <1>2 DEF IInv, StartInv, Starting, TypeOK
<1>4. /\ KernelOK(k') /\ k'.stat = k.stat /\ k'.prio = k.prio
      /\ k'.timers = k.timers \ {arg[t]} /\ k'.defunct = k.defunct /\ k'.cur = k.cur
  BY <1>1, <1>2, <1>3, UnlinkSuspended
<1>5. k'.timers = k.timers
  BY <1>3, <1>4
<1>6. "st_insert" \in Places \ Managing /\ pc[t] \in Starting
  BY <1>2 DEF Places, Managing, Starting
<1>7. t # Idle
  BY <1>3, IpcAssumption, ThreadsAssumption
<1>. QED BY <1>1, <1>2, <1>4, <1>5, <1>6, <1>7, PlaceKept

\* The thread that was started is handed over to the ready queue.
LEMMA StartInsertKept ==
    ASSUME IInv, NEW t \in Threads, ResumeInsert(t, "st_insert", "st_sched")
    PROVE  IInv' /\ ClosedKept
<1>. DEFINE u == arg[t]
<1>1. /\ At(t, "st_insert") /\ pc' = [pc EXCEPT ![t] = "st_sched"]
      /\ arg' = [arg EXCEPT ![t] = None]
      /\ k' = rt_schedule_insert_thread(k, u) /\ UNCHANGED <<isr, alive>>
  BY DEF ResumeInsert, Proceed, Go
<1>2. /\ k.cur = t /\ k.stat[t] = "running" /\ KernelOK(k) /\ pc[t] = "st_insert"
      /\ \A x \in Threads : pc[x] \notin Managing
  BY <1>1, Caller DEF Halting, Managing
<1>3. /\ k.stat[u] = "suspend" /\ t \in Managers /\ u \in alive /\ u \in Threads
      /\ u \notin k.timers
      /\ \A x \in Threads : pc[x] \in Starting /\ arg[x] = u => x = t
  BY <1>2 DEF IInv, StartInv, Starting, TypeOK
<1>. HIDE DEF u
<1>4. /\ KernelOK(k') /\ k'.stat = [k.stat EXCEPT ![u] = "ready"] /\ k'.prio = k.prio
      /\ k'.timers = k.timers /\ k'.defunct = k.defunct /\ k'.cur = k.cur
      /\ k'.lock = k.lock
  BY <1>1, <1>2, <1>3, InsertSuspended
<1>5. /\ k \in KernelState /\ pc \in [Threads -> Places]
      /\ arg \in [Threads -> Threads \union {None}] /\ alive \subseteq Threads
      /\ k' \in KernelState /\ Idle \in Threads
  BY <1>4, KernelAssumption DEF IInv, TypeOK, KernelOK, QueueOK
<1>6. t # Idle
  BY <1>3, IpcAssumption, ThreadsAssumption
<1>7. /\ \A x \in Threads : pc'[x] = IF x = t THEN "st_sched" ELSE pc[x]
      /\ \A x \in Threads : x # t => arg'[x] = arg[x]
      /\ \A x \in Threads : k'.stat[x] = IF x = u THEN "ready" ELSE k.stat[x]
  BY <1>1, <1>4, <1>5 DEF KernelState
<1>8. TypeOK'
  BY <1>1, <1>5 DEF IInv, TypeOK, Places
<1>9. \A x \in Threads : pc'[x] \notin Managing
  BY <1>2, <1>7 DEF Managing
<1>10. QueuesSound'
  BY <1>4, <1>9, SoundAfter DEF Managing
<1>11. ProcInv'
  BY <1>2, <1>3, <1>4, <1>6, <1>7, <1>5 DEF IInv, ProcInv, Ready
<1>12. StartInv'
  <2>1. \A x \in Threads : pc'[x] \in Starting => x # t /\ pc[x] \in Starting /\ arg[x] # u
    BY <1>3, <1>7 DEF Starting
  <2>2. \A x \in Threads : pc[x] \in Starting => arg[x] \in Threads
    BY <1>5 DEF IInv, StartInv
  <2>. QED BY <1>1, <1>4, <1>7, <2>1, <2>2 DEF IInv, StartInv, Ready
<1>13. ManageInv'
  BY <1>9 DEF ManageInv
<1>14. ChiefInv'
  BY <1>4 DEF IInv, ChiefInv
<1>15. FreedInv'
  BY <1>1, <1>3, <1>4, <1>5, <1>6, <1>7 DEF IInv, FreedInv
<1>16. ClosedKept
  BY <1>3, <1>7 DEF ClosedKept
<1>. QED BY <1>8, <1>10, <1>11, <1>12, <1>13, <1>14, <1>15, <1>16 DEF IInv

-----------------------------------------------------------------------------
(* rt_thread_create, rt_thread_startup and priorities.                     *)

LEMMA ManagersAre ==
    /\ \A t \in Managers \union Workers \union Sleepers : t \in Users /\ t \in Threads /\ t # Idle
    /\ Commanded =>
          /\ Chief \in Threads /\ Chief # Idle /\ Chief \notin Workers
          /\ \A t \in Managers \union Sleepers : t = Chief
          /\ \A t \in Threads : t # Chief => InitPrio[Chief] < InitPrio[t]
          /\ \A p \in NewPrios : InitPrio[Chief] < p
BY ChiefCommands, IpcAssumption, ThreadsAssumption DEF Commands

\* Thread u gets state s, its initial priority and error code e.
Fresh(ks, u, s, e) ==
    [ks EXCEPT !.stat[u] = s, !.prio[u] = InitPrio[u], !.err[u] = e]

Made(ks, r, u, s) ==
    /\ KernelOK(r)
    /\ r.stat = [ks.stat EXCEPT ![u] = s] /\ r.prio = [ks.prio EXCEPT ![u] = InitPrio[u]]
    /\ r.timers = ks.timers /\ r.defunct = ks.defunct
    /\ r.cur = ks.cur /\ r.lock = ks.lock

\* That is sound for a thread on no list.
LEMMA SetUp ==
    ASSUME NEW ks, KernelOK(ks), NEW u \in Threads, ks.stat[u] \in {"init", "close"},
           u \notin ToSet(ks.defunct), u # ks.cur, NEW s \in {"init", "suspend"}, NEW e \in Errno
    PROVE  Made(ks, Fresh(ks, u, s, e), u, s)
<1>. DEFINE a == [ks EXCEPT !.prio[u] = InitPrio[u], !.err[u] = e]
            b == [a EXCEPT !.stat[u] = s]
            r == Fresh(ks, u, s, e)
<1>1. QueueOK(ks) /\ CurOK(ks) /\ ks \in KernelState /\ InitPrio[u] \in Prio
  BY KernelAssumption DEF KernelOK, QueueOK
<1>2. FreeOf(ks, u) /\ u \notin ks.timers
  BY <1>1, IsFree DEF QueueOK, TimersOK
<1>3. /\ a \in KernelState /\ a.stat = ks.stat /\ a.prio = [ks.prio EXCEPT ![u] = InitPrio[u]]
      /\ a.ready = ks.ready /\ a.group = ks.group /\ a.wait = ks.wait
      /\ a.defunct = ks.defunct /\ a.timers = ks.timers /\ a.cur = ks.cur /\ a.lock = ks.lock
  BY <1>1 DEF KernelState
<1>4. r = b
  BY <1>1 DEF Fresh, KernelState
<1>. HIDE DEF a
<1>5. \A x \in Threads \ {u} : a.prio[x] = ks.prio[x]
  BY <1>1, <1>3 DEF KernelState
<1>6. FreeOf(a, u)
  BY <1>2, <1>3, <1>5, FreeOfFrame
<1>7. s \in Stat \ {"ready"}
  BY DEF Stat
<1>8. /\ QueueOK(b) /\ b.stat = [a.stat EXCEPT ![u] = s] /\ b.prio = a.prio
      /\ b.timers = a.timers /\ b.cur = a.cur /\ b.lock = a.lock
  BY <1>2, <1>3, <1>6, <1>7, PutState
<1>9. b.defunct = a.defunct
  BY <1>3 DEF KernelState
<1>. HIDE DEF b
<1>10. CurOK(b)
  BY <1>1, <1>3, <1>8 DEF CurOK, KernelState
<1>. QED BY <1>3, <1>4, <1>8, <1>9, <1>10 DEF KernelOK, Made

LEMMA CreateKept ==
    ASSUME IInv, NEW t \in Threads, NEW u \in Threads, rt_thread_create(t, u)
    PROVE  IInv' /\ ClosedKept
<1>1. /\ At(t, "run") /\ t \in Managers /\ u \in Workers /\ u \notin alive
      /\ k' = [k EXCEPT !.stat[u] = "init", !.prio[u] = InitPrio[u], !.err[u] = "EOK"]
      /\ pc' = [pc EXCEPT ![u] = "run"] /\ alive' = alive \union {u}
      /\ UNCHANGED <<isr, arg>>
  BY DEF rt_thread_create
<1>2. /\ k.cur = t /\ k.stat[t] = "running" /\ KernelOK(k) /\ pc[t] = "run"
      /\ \A x \in Threads : pc[x] \notin Managing
  BY <1>1, Caller DEF Halting, Managing
<1>3. /\ k \in KernelState /\ pc \in [Threads -> Places]
      /\ arg \in [Threads -> Threads \union {None}] /\ alive \subseteq Threads
      /\ Idle \in Threads
  BY KernelAssumption DEF IInv, TypeOK
<1>4. k.stat[u] \in {"init", "close"} /\ u \notin ToSet(k.defunct) /\ u # t /\ u # Idle
  BY <1>1, <1>2, <1>3, ManagersAre DEF IInv, FreedInv
<1>5. /\ KernelOK(k')
      /\ k'.stat = [k.stat EXCEPT ![u] = "init"] /\ k'.prio = [k.prio EXCEPT ![u] = InitPrio[u]]
      /\ k'.timers = k.timers /\ k'.defunct = k.defunct
      /\ k'.cur = k.cur /\ k'.lock = k.lock
  <2>1. "EOK" \in Errno
    BY DEF Errno
  <2>2. k' = Fresh(k, u, "init", "EOK")
    BY <1>1 DEF Fresh
  <2>3. KernelOK(k) /\ k.stat[u] \in {"init", "close"} /\ u \notin ToSet(k.defunct) /\ u # k.cur
    BY <1>1, <1>2, <1>4
  <2>4. Made(k, k', u, "init")
    BY <2>1, <2>2, <2>3, SetUp
  <2>. QED BY <2>4 DEF Made
<1>6. /\ \A x \in Threads : pc'[x] = IF x = u THEN "run" ELSE pc[x]
      /\ \A x \in Threads : k'.stat[x] = IF x = u THEN "init" ELSE k.stat[x]
      /\ \A x \in Threads : k'.prio[x] = IF x = u THEN InitPrio[u] ELSE k.prio[x]
  BY <1>1, <1>3, <1>5 DEF KernelState
<1>7. TypeOK'
  BY <1>1, <1>3, <1>5 DEF IInv, TypeOK, Places, KernelOK, QueueOK
<1>8. \A x \in Threads : pc'[x] \notin Managing
  BY <1>2, <1>6 DEF Managing
<1>9. QueuesSound'
  BY <1>5, <1>8, SoundAfter DEF Managing
<1>10. ProcInv'
  BY <1>2, <1>3, <1>4, <1>5, <1>6 DEF IInv, ProcInv
<1>11. StartInv'
  <2>1. \A x \in Threads : pc'[x] \in Starting =>
           /\ x # u /\ pc[x] \in Starting /\ arg[x] # u /\ arg[x] \in Threads
    BY <1>1, <1>3, <1>6 DEF IInv, StartInv, Starting
  <2>. QED BY <1>1, <1>5, <1>6, <2>1 DEF IInv, StartInv
<1>12. ManageInv'
  BY <1>8 DEF ManageInv
<1>13. ChiefInv'
  BY <1>1, <1>5, <1>6, ManagersAre DEF IInv, ChiefInv
<1>14. FreedInv'
  BY <1>1, <1>3, <1>4, <1>5, <1>6 DEF IInv, FreedInv
<1>15. ClosedKept
  BY <1>6 DEF ClosedKept
<1>. QED BY <1>7, <1>9, <1>10, <1>11, <1>12, <1>13, <1>14, <1>15 DEF IInv

LEMMA StartupKept ==
    ASSUME IInv, NEW t \in Threads, NEW u \in Threads, rt_thread_startup(t, u)
    PROVE  IInv' /\ ClosedKept
<1>1. /\ At(t, "run") /\ t \in Managers /\ u \in Workers /\ u \in alive /\ k.stat[u] = "init"
      /\ k' = [k EXCEPT !.prio[u] = InitPrio[u], !.stat[u] = "suspend"]
      /\ pc' = [pc EXCEPT ![t] = "st_test"] /\ arg' = [arg EXCEPT ![t] = u]
      /\ UNCHANGED <<isr, alive>>
  BY DEF rt_thread_startup, Manages, Calls, Proceed, Go
<1>2. /\ k.cur = t /\ k.stat[t] = "running" /\ KernelOK(k) /\ pc[t] = "run"
      /\ \A x \in Threads : pc[x] \notin Managing
  BY <1>1, Caller DEF Halting, Managing
<1>3. /\ k \in KernelState /\ pc \in [Threads -> Places]
      /\ arg \in [Threads -> Threads \union {None}] /\ alive \subseteq Threads
      /\ Idle \in Threads
  BY KernelAssumption DEF IInv, TypeOK
<1>4. /\ u \notin ToSet(k.defunct) /\ u # t /\ u # Idle /\ t # Idle /\ u \notin k.timers
  BY <1>1, <1>2, <1>3, ManagersAre DEF KernelOK, QueueOK, DefunctOK, TimersOK
<1>5. /\ KernelOK(k')
      /\ k'.stat = [k.stat EXCEPT ![u] = "suspend"]
      /\ k'.prio = [k.prio EXCEPT ![u] = InitPrio[u]]
      /\ k'.timers = k.timers /\ k'.defunct = k.defunct
      /\ k'.cur = k.cur /\ k'.lock = k.lock
  <2>1. k.err[u] \in Errno
    BY <1>3 DEF KernelState
  <2>2. k' = Fresh(k, u, "suspend", k.err[u])
    BY <1>1, <1>3 DEF Fresh, KernelState
  <2>3. KernelOK(k) /\ k.stat[u] \in {"init", "close"} /\ u \notin ToSet(k.defunct) /\ u # k.cur
    BY <1>1, <1>2, <1>4
  <2>4. Made(k, k', u, "suspend")
    BY <2>1, <2>2, <2>3, SetUp
  <2>. QED BY <2>4 DEF Made
<1>6. /\ \A x \in Threads : pc'[x] = IF x = t THEN "st_test" ELSE pc[x]
      /\ \A x \in Threads : arg'[x] = IF x = t THEN u ELSE arg[x]
      /\ \A x \in Threads : k'.stat[x] = IF x = u THEN "suspend" ELSE k.stat[x]
      /\ \A x \in Threads : k'.prio[x] = IF x = u THEN InitPrio[u] ELSE k.prio[x]
  BY <1>1, <1>3, <1>5 DEF KernelState
<1>7. TypeOK'
  BY <1>1, <1>3, <1>5 DEF IInv, TypeOK, Places, KernelOK, QueueOK
<1>8. \A x \in Threads : pc'[x] \notin Managing
  BY <1>2, <1>6 DEF Managing
<1>9. QueuesSound'
  BY <1>5, <1>8, SoundAfter DEF Managing
<1>10. ProcInv'
  BY <1>2, <1>3, <1>4, <1>5, <1>6 DEF IInv, ProcInv
<1>11. StartInv'
  <2>1. \A x \in Threads : pc[x] \in Starting =>
           /\ x # u /\ arg[x] # u /\ arg[x] \in Threads
    BY <1>1, <1>3 DEF IInv, StartInv, Ready
  <2>. QED BY <1>1, <1>2, <1>4, <1>5, <1>6, <2>1 DEF IInv, StartInv, Ready
<1>12. ManageInv'
  BY <1>8 DEF ManageInv
<1>13. ChiefInv'
  BY <1>1, <1>5, <1>6, ManagersAre DEF IInv, ChiefInv
<1>14. FreedInv'
  BY <1>1, <1>3, <1>4, <1>5, <1>6 DEF IInv, FreedInv
<1>15. ClosedKept
  BY <1>1, <1>6 DEF ClosedKept
<1>. QED BY <1>7, <1>9, <1>10, <1>11, <1>12, <1>13, <1>14, <1>15 DEF IInv

LEMMA RemoveDefunct ==
    ASSUME NEW ks, QueueOK(ks), NEW t \in Threads, ks.stat[t] # "close", NEW p \in Prio
    PROVE  ChangePriority(ks, t, p).defunct = ks.defunct
<1>. DEFINE d == rt_schedule_remove_thread(ks, t)
            e == [d EXCEPT !.prio[t] = p]
<1>1. d \in KernelState /\ d.defunct = ks.defunct /\ ks \in KernelState
  BY RemoveFrees, UnlinkDefunct DEF FreeOf, QueueOK
<1>. HIDE DEF d
<1>2. e \in KernelState /\ e.defunct = d.defunct
  BY <1>1 DEF KernelState
<1>3. [ks EXCEPT !.prio[t] = p].defunct = ks.defunct
  BY <1>1 DEF KernelState
<1>4. \/ ChangePriority(ks, t, p) = rt_schedule_insert_thread(e, t)
      \/ ChangePriority(ks, t, p) = [ks EXCEPT !.prio[t] = p]
  BY DEF ChangePriority, d
<1>. HIDE DEF e
<1>. QED BY <1>1, <1>2, <1>3, <1>4, InsertDefunct

LEMMA PriorityDefunct ==
    ASSUME NEW ks, QueueOK(ks), NEW t \in Threads, NEW p \in Prio
    PROVE  ChangePriority(ks, t, p).defunct = ks.defunct
<1>1. CASE ks.stat[t] = "close"
  BY <1>1 DEF ChangePriority, QueueOK, KernelState
<1>. QED BY <1>1, RemoveDefunct

LEMMA PriorityKept ==
    ASSUME IInv, NEW t \in Threads, NEW u \in Threads, NEW p \in NewPrios,
           ControlPriority(t, u, p)
    PROVE  IInv' /\ ClosedKept
<1>1. /\ At(t, "run") /\ t \in Managers /\ u \in Workers
      /\ k' = ChangePriority(k, u, p) /\ UNCHANGED <<isr, pc, arg, alive>>
  BY DEF ControlPriority, Manages, Calls
<1>2. /\ k.cur = t /\ k.stat[t] = "running" /\ KernelOK(k) /\ pc[t] = "run"
      /\ \A x \in Threads : pc[x] \notin Managing
  BY <1>1, Caller DEF Halting, Managing
<1>3. p \in Prio /\ k \in KernelState
  BY ThreadsAssumption DEF IInv, TypeOK
<1>4. Requeued(k, k', u, p)
  BY <1>1, <1>2, <1>3, ChangePriorityOK
<1>5. /\ KernelOK(k') /\ k' \in KernelState
      /\ k'.prio = [k.prio EXCEPT ![u] = p] /\ k'.stat = k.stat /\ k'.timers = k.timers
      /\ k'.cur = k.cur /\ k'.lock = k.lock
  BY <1>4 DEF Requeued, KernelOK, QueueOK
<1>6. k'.defunct = k.defunct
  BY <1>1, <1>2, <1>3, PriorityDefunct DEF KernelOK
<1>7. \A x \in Threads : k'.prio[x] = IF x = u THEN p ELSE k.prio[x]
  BY <1>3, <1>5 DEF KernelState
<1>8. TypeOK'
  BY <1>1, <1>5 DEF IInv, TypeOK
<1>9. QueuesSound'
  BY <1>1, <1>2, <1>5, SoundAfter DEF Managing
<1>10. ProcInv' /\ StartInv' /\ FreedInv'
  BY <1>1, <1>5, <1>6 DEF IInv, ProcInv, StartInv, FreedInv
<1>11. ManageInv'
  BY <1>1, <1>2 DEF ManageInv
<1>12. ChiefInv'
  BY <1>1, <1>5, <1>7, ManagersAre DEF IInv, ChiefInv
<1>13. ClosedKept
  BY <1>5 DEF ClosedKept
<1>. QED BY <1>8, <1>9, <1>10, <1>11, <1>12, <1>13 DEF IInv

-----------------------------------------------------------------------------
(* rt_thread_sleep and rt_thread_exit.                                     *)

\* Thread t leaves the processor with state s.
Leaves(ks, r, t, s) ==
    /\ KernelOK(r)
    /\ r.stat = [ks.stat EXCEPT ![t] = s]
    /\ r.prio = ks.prio /\ r.cur = ks.cur /\ r.lock = ks.lock

LEMMA SuspendDefunct ==
    ASSUME NEW ks, KernelOK(ks), NEW t \in Threads, ks.stat[t] \in Ready
    PROVE  rt_thread_suspend(ks, t).defunct = ks.defunct
<1>. DEFINE d == rt_schedule_remove_thread(ks, t)
<1>1. QueueOK(ks)
  BY DEF KernelOK
<1>2. d \in KernelState /\ d.defunct = ks.defunct
  BY <1>1, RemoveFrees, UnlinkDefunct DEF FreeOf, Ready
<1>3. rt_thread_suspend(ks, t) = [d EXCEPT !.stat[t] = "suspend", !.timers = @ \ {t}]
  BY DEF rt_thread_suspend, Ready
<1>. HIDE DEF d
<1>. QED BY <1>2, <1>3 DEF KernelState

LEMMA SleepLeaves ==
    ASSUME NEW ks, KernelOK(ks), NEW t \in Threads, ks.stat[t] = "running"
    PROVE  LET r == StartTimer(rt_thread_suspend(ks, t), t, "finite") IN
           /\ Leaves(ks, r, t, "suspend")
           /\ r.timers = ks.timers \union {t} /\ r.defunct = ks.defunct
<1>. DEFINE s == rt_thread_suspend(ks, t)
            r == StartTimer(s, t, "finite")
<1>1. Suspended(ks, s, t)
  BY SuspendOK
<1>2. s.defunct = ks.defunct
  BY SuspendDefunct DEF Ready
<1>. HIDE DEF s
<1>3. ks \in KernelState /\ s \in KernelState
  BY <1>1 DEF Suspended, KernelOK, QueueOK
<1>4. KernelOK(s) /\ s.stat[t] = "suspend"
  BY <1>1, <1>3 DEF Suspended, KernelState
<1>5. TimerSet(s, r)
  BY <1>4, StartTimerOK
<1>6. r.timers = s.timers \union {t} /\ r.defunct = s.defunct
  BY <1>3 DEF StartTimer, KernelState
<1>7. r.timers = ks.timers \union {t}
  BY <1>1, <1>6 DEF Suspended
<1>. HIDE DEF r
<1>8. Leaves(ks, r, t, "suspend")
  BY <1>1, <1>5 DEF Suspended, TimerSet, Leaves
<1>. QED BY <1>2, <1>6, <1>7, <1>8 DEF r, s

LEMMA SleepKept ==
    ASSUME IInv, NEW t \in Threads, t \in Sleepers, k.lock = 0, rt_thread_sleep(t)
    PROVE  IInv' /\ ClosedKept
<1>1. /\ At(t, "run") /\ pc' = [pc EXCEPT ![t] = "sleep_sched"]
      /\ k' = StartTimer(rt_thread_suspend(k, t), t, "finite")
      /\ UNCHANGED <<isr, arg, alive>>
  BY DEF rt_thread_sleep, Go
<1>2. /\ k.cur = t /\ k.stat[t] = "running" /\ KernelOK(k) /\ pc[t] = "run"
      /\ \A x \in Threads : pc[x] \notin Managing
  BY <1>1, Caller DEF Halting, Managing
<1>3. /\ k \in KernelState /\ pc \in [Threads -> Places]
      /\ arg \in [Threads -> Threads \union {None}] /\ alive \subseteq Threads
      /\ Idle \in Threads /\ t # Idle
  BY KernelAssumption, ManagersAre DEF IInv, TypeOK
<1>4. Leaves(k, k', t, "suspend") /\ k'.timers = k.timers \union {t} /\ k'.defunct = k.defunct
  BY <1>1, <1>2, SleepLeaves
<1>5. /\ KernelOK(k') /\ k' \in KernelState
      /\ \A x \in Threads : k'.stat[x] = IF x = t THEN "suspend" ELSE k.stat[x]
      /\ k'.prio = k.prio /\ k'.cur = k.cur /\ k'.lock = k.lock
  BY <1>3, <1>4 DEF Leaves, KernelOK, QueueOK, KernelState
<1>6. \A x \in Threads : pc'[x] = IF x = t THEN "sleep_sched" ELSE pc[x]
  BY <1>1, <1>3
<1>7. TypeOK'
  BY <1>1, <1>3, <1>5 DEF IInv, TypeOK, Places
<1>8. \A x \in Threads : pc'[x] \notin Managing
  BY <1>2, <1>6 DEF Managing
<1>9. QueuesSound'
  BY <1>5, <1>8, SoundAfter DEF Managing
<1>10. ProcInv'
  BY <1>2, <1>3, <1>5, <1>6 DEF IInv, ProcInv, Halting
<1>11. StartInv'
  <2>1. \A x \in Threads : pc'[x] \in Starting =>
           /\ x # t /\ pc[x] \in Starting /\ arg[x] # t /\ arg[x] \in Threads
    BY <1>2, <1>3, <1>6 DEF IInv, StartInv, Starting
  <2>. QED BY <1>1, <1>4, <1>5, <1>6, <2>1 DEF IInv, StartInv
<1>12. ManageInv'
  BY <1>8 DEF ManageInv
<1>13. ChiefInv'
  BY <1>4, <1>5, ManagersAre DEF IInv, ChiefInv
<1>14. FreedInv'
  BY <1>1, <1>2, <1>3, <1>4, <1>5, <1>6 DEF IInv, FreedInv
<1>15. ClosedKept
  BY <1>2, <1>5 DEF ClosedKept
<1>. QED BY <1>7, <1>9, <1>10, <1>11, <1>12, <1>13, <1>14, <1>15 DEF IInv

\* A closed thread is put on the defunct list.
Buried(ks, r, u) ==
    /\ KernelOK(r)
    /\ r.stat = ks.stat /\ r.prio = ks.prio /\ r.timers = ks.timers
    /\ r.cur = ks.cur /\ r.lock = ks.lock
    /\ ToSet(r.defunct) = ToSet(ks.defunct) \union {u}

LEMMA BuryOK ==
    ASSUME NEW ks, KernelOK(ks), NEW u \in Threads, ks.stat[u] = "close",
           u \notin ToSet(ks.defunct)
    PROVE  Buried(ks, [ks EXCEPT !.defunct = Cons(u, @)], u)
<1>. DEFINE c == Cons(u, ks.defunct)
            r == [ks EXCEPT !.defunct = c]
<1>1. ks \in KernelState /\ ks.defunct \in Seq(Threads) /\ IsInjective(ks.defunct)
  BY DEF KernelOK, QueueOK, DefunctOK, KernelState
<1>2. c \in Seq(Threads) /\ IsInjective(c) /\ ToSet(c) = ToSet(ks.defunct) \union {u}
  BY <1>1, ConsFacts
<1>. HIDE DEF c
<1>3. /\ r \in KernelState /\ r.stat = ks.stat /\ r.prio = ks.prio /\ r.ready = ks.ready
      /\ r.group = ks.group /\ r.wait = ks.wait /\ r.defunct = c
      /\ r.timers = ks.timers /\ r.cur = ks.cur /\ r.lock = ks.lock
  BY <1>1, <1>2 DEF KernelState
<1>. HIDE DEF r
<1>4. KernelOK(r)
  BY <1>2, <1>3 DEF KernelOK, QueueOK, ReadyOK, WaitOK, DefunctOK, TimersOK, CurOK
<1>. QED BY <1>2, <1>3, <1>4 DEF Buried, r, c

\* A thread closes itself.
LEMMA CloseLeaves ==
    ASSUME NEW ks, KernelOK(ks), NEW t \in Threads, ks.stat[t] = "running"
    PROVE  LET r == [rt_schedule_remove_thread(ks, t)
                        EXCEPT !.stat[t] = "close", !.timers = @ \ {t}] IN
           /\ Leaves(ks, r, t, "close")
           /\ r.timers = ks.timers \ {t} /\ r.defunct = ks.defunct
<1>. DEFINE d == rt_schedule_remove_thread(ks, t)
            e == [d EXCEPT !.timers = @ \ {t}]
            b == [e EXCEPT !.stat[t] = "close"]
            r == [d EXCEPT !.stat[t] = "close", !.timers = @ \ {t}]
<1>1. QueueOK(ks) /\ CurOK(ks) /\ ks \in KernelState /\ t = ks.cur
  BY DEF KernelOK, QueueOK, CurOK
<1>2. /\ FreeOf(d, t) /\ d \in KernelState
      /\ d.stat = ks.stat /\ d.prio = ks.prio /\ d.timers = ks.timers
      /\ d.cur = ks.cur /\ d.lock = ks.lock /\ d.defunct = ks.defunct
  <2>1. d.defunct = ks.defunct
    BY <1>1, UnlinkDefunct
  <2>2. /\ FreeOf(d, t)
        /\ d.stat = ks.stat /\ d.prio = ks.prio /\ d.timers = ks.timers
        /\ d.cur = ks.cur /\ d.lock = ks.lock
    BY <1>1, RemoveFrees
  <2>. HIDE DEF d
  <2>. QED BY <2>1, <2>2 DEF FreeOf
<1>. HIDE DEF d
<1>3. /\ e \in KernelState /\ e.stat = d.stat /\ e.prio = d.prio /\ e.ready = d.ready
      /\ e.group = d.group /\ e.wait = d.wait /\ e.defunct = d.defunct
      /\ e.timers = d.timers \ {t} /\ e.cur = d.cur /\ e.lock = d.lock
  BY <1>2 DEF KernelState
<1>4. r = b
  BY <1>2 DEF KernelState
<1>. HIDE DEF e
<1>5. FreeOf(e, t) /\ t \notin e.timers
  BY <1>2, <1>3, FreeOfFrame
<1>6. "close" \in Stat \ {"ready"}
  BY DEF Stat
<1>7. /\ QueueOK(b) /\ b.stat = [e.stat EXCEPT ![t] = "close"] /\ b.prio = e.prio
      /\ b.timers = e.timers /\ b.cur = e.cur /\ b.lock = e.lock
  BY <1>5, <1>6, PutState
<1>8. b.defunct = e.defunct
  BY <1>3 DEF KernelState
<1>. HIDE DEF b
<1>9. CurOK(b)
  BY <1>1, <1>2, <1>3, <1>7 DEF CurOK, KernelState
<1>10. Leaves(ks, b, t, "close")
  BY <1>2, <1>3, <1>7, <1>9 DEF Leaves, KernelOK
<1>. QED BY <1>2, <1>3, <1>4, <1>7, <1>8, <1>10 DEF r, d

LEMMA ExitKept ==
    ASSUME IInv, NEW t \in Threads, rt_thread_exit(t)
    PROVE  IInv' /\ ClosedKept
<1>. DEFINE gone == [rt_schedule_remove_thread(k, t)
                        EXCEPT !.stat[t] = "close", !.timers = @ \ {t}]
<1>1. /\ t \in Workers /\ At(t, "run") /\ pc' = [pc EXCEPT ![t] = "exit_sched"] /\ k.lock = 0
      /\ \/ t \in Static /\ k' = gone /\ alive' = alive \ {t}
         \/ t \notin Static /\ k' = [gone EXCEPT !.defunct = Cons(t, @)] /\ alive' = alive
      /\ UNCHANGED <<isr, arg>>
  BY DEF rt_thread_exit, Go
<1>2. /\ k.cur = t /\ k.stat[t] = "running" /\ KernelOK(k) /\ pc[t] = "run"
      /\ \A x \in Threads : pc[x] \notin Managing
  BY <1>1, Caller DEF Halting, Managing
<1>3. /\ k \in KernelState /\ pc \in [Threads -> Places]
      /\ arg \in [Threads -> Threads \union {None}] /\ alive \subseteq Threads
      /\ Idle \in Threads /\ t # Idle
  BY <1>1, KernelAssumption, ManagersAre DEF IInv, TypeOK
<1>4. Leaves(k, gone, t, "close") /\ gone.timers = k.timers \ {t} /\ gone.defunct = k.defunct
  BY <1>2, CloseLeaves
<1>. HIDE DEF gone
<1>5. gone.stat[t] = "close" /\ t \notin ToSet(gone.defunct) /\ t \in alive
  <2>1. gone.stat[t] = "close"
    BY <1>3, <1>4 DEF Leaves, KernelState
  <2>2. t \notin ToSet(k.defunct)
    BY <1>2 DEF KernelOK, QueueOK, DefunctOK
  <2>3. t \in alive
    BY <1>2 DEF IInv, FreedInv
  <2>. QED BY <1>4, <2>1, <2>2, <2>3
<1>6. Buried(gone, [gone EXCEPT !.defunct = Cons(t, @)], t)
  BY <1>4, <1>5, BuryOK DEF Leaves
<1>7. /\ KernelOK(k') /\ k'.stat = gone.stat /\ k'.prio = gone.prio
      /\ k'.timers = gone.timers /\ k'.cur = gone.cur /\ k'.lock = gone.lock
      /\ \/ ToSet(k'.defunct) = ToSet(k.defunct) /\ alive' = alive \ {t}
         \/ ToSet(k'.defunct) = ToSet(k.defunct) \union {t} /\ alive' = alive
  <2>1. CASE t \in Static
    BY <1>1, <1>4, <2>1 DEF Leaves
  <2>2. CASE t \notin Static
    BY <1>1, <1>4, <1>6, <2>2 DEF Buried
  <2>. QED BY <2>1, <2>2
<1>8. /\ k' \in KernelState
      /\ \A x \in Threads : k'.stat[x] = IF x = t THEN "close" ELSE k.stat[x]
      /\ k'.prio = k.prio /\ k'.cur = k.cur /\ k'.lock = k.lock
      /\ k'.timers = k.timers \ {t}
  BY <1>3, <1>4, <1>7, SMTT(30) DEF Leaves, KernelOK, QueueOK, KernelState
<1>9. \A x \in Threads : pc'[x] = IF x = t THEN "exit_sched" ELSE pc[x]
  BY <1>1, <1>3
<1>10. TypeOK'
  BY <1>1, <1>3, <1>7, <1>8 DEF IInv, TypeOK, Places
<1>11. \A x \in Threads : pc'[x] \notin Managing
  BY <1>2, <1>9 DEF Managing
<1>12. QueuesSound'
  BY <1>7, <1>11, SoundAfter DEF Managing
<1>13. ProcInv'
  BY <1>1, <1>2, <1>3, <1>8, <1>9 DEF IInv, ProcInv, Halting
<1>14. StartInv'
  <2>1. \A x \in Threads : pc'[x] \in Starting =>
           /\ x # t /\ pc[x] \in Starting /\ arg[x] # t /\ arg[x] \in Threads
    BY <1>2, <1>3, <1>9 DEF IInv, StartInv, Starting
  <2>. QED BY <1>1, <1>7, <1>8, <1>9, <2>1 DEF IInv, StartInv
<1>15. ManageInv'
  BY <1>11 DEF ManageInv
<1>16. ChiefInv'
  BY <1>8 DEF IInv, ChiefInv
<1>17. FreedInv'
  BY <1>1, <1>2, <1>3, <1>5, <1>7, <1>8, <1>9, <1>4 DEF IInv, FreedInv
<1>18. ClosedKept
  BY <1>8 DEF ClosedKept
<1>. QED BY <1>10, <1>12, <1>13, <1>14, <1>15, <1>16, <1>17, <1>18 DEF IInv

-----------------------------------------------------------------------------
(* The idle thread gives dead threads back.                                *)

LEMMA ReapTestKept ==
    ASSUME IInv, ReapTest
    PROVE  IInv' /\ ClosedKept
<1>1. /\ At(Idle, "run") /\ pc' = [pc EXCEPT ![Idle] = "reap_take"]
      /\ UNCHANGED <<k, isr, arg, alive>>
  BY DEF ReapTest, Go
<1>2. /\ Idle \in Threads /\ k.cur = Idle /\ k.stat[Idle] = "running" /\ KernelOK(k)
      /\ \A x \in Threads : pc[x] \notin Managing
  BY <1>1, Caller DEF Halting, Managing
<1>3. "reap_take" \in Places \ Managing /\ "reap_take" \notin Starting
  BY DEF Places, Managing, Starting
<1>. QED BY <1>1, <1>2, <1>3, PlaceKept

\* A dead thread leaves the defunct list.
LEMMA UnlinkDead ==
    ASSUME NEW ks, KernelOK(ks), NEW h \in Threads, ks.stat[h] = "close"
    PROVE  LET r == Unlink(ks, h) IN
           /\ KernelOK(r)
           /\ r.stat = ks.stat /\ r.prio = ks.prio /\ r.timers = ks.timers
           /\ r.cur = ks.cur /\ r.lock = ks.lock
           /\ ToSet(r.defunct) = ToSet(ks.defunct) \ {h}
<1>. DEFINE r == Unlink(ks, h)
<1>1. QueueOK(ks) /\ CurOK(ks)
  BY DEF KernelOK
<1>2. /\ r.stat = ks.stat /\ r.prio = ks.prio /\ r.timers = ks.timers
      /\ r.cur = ks.cur /\ r.lock = ks.lock
      /\ ToSet(r.defunct) = ToSet(ks.defunct) \ {h}
  BY <1>1, UnlinkFields
<1>3. FreeOf(r, h)
  BY <1>1, UnlinkFrees
<1>. HIDE DEF r
<1>4. h \notin r.timers
  BY <1>1, <1>2 DEF QueueOK, TimersOK
<1>5. QueueOK(r)
  BY <1>2, <1>3, <1>4, FreeIsOK
<1>6. CurOK(r)
  BY <1>1, <1>2 DEF CurOK
<1>. QED BY <1>2, <1>5, <1>6 DEF KernelOK, r

LEMMA ReapTakeKept ==
    ASSUME IInv, ReapTake
    PROVE  IInv' /\ ClosedKept
<1>1. At(Idle, "reap_take") /\ UNCHANGED <<isr, alive>>
  BY DEF ReapTake
<1>2. /\ Idle \in Threads /\ k.cur = Idle /\ k.stat[Idle] = "running" /\ KernelOK(k)
      /\ pc[Idle] = "reap_take"
      /\ \A x \in Threads : pc[x] \notin Managing
  BY <1>1, Caller DEF Halting, Managing
<1>3. CASE k.defunct = <<>>
  <2>1. pc' = [pc EXCEPT ![Idle] = "run"] /\ arg' = [arg EXCEPT ![Idle] = None] /\ k' = k
    BY <1>3 DEF ReapTake, Return, Go
  <2>2. "run" \in Places \ Managing /\ "run" \notin Starting
    BY DEF Places, Managing, Starting
  <2>. QED BY <1>1, <1>2, <2>1, <2>2, PlaceKept
<1>4. CASE k.defunct # <<>>
  <2>. DEFINE h == Head(k.defunct)
              m == Unlink(k, h)
  <2>1. /\ pc' = [pc EXCEPT ![Idle] = "reap_free"] /\ arg' = [arg EXCEPT ![Idle] = h]
        /\ k' = rt_schedule(m)
    BY <1>4 DEF ReapTake, Proceed, Go
  <2>2. /\ k \in KernelState /\ pc \in [Threads -> Places]
        /\ arg \in [Threads -> Threads \union {None}] /\ alive \subseteq Threads
    BY DEF IInv, TypeOK
  <2>3. h \in Threads /\ h \in ToSet(k.defunct) /\ k.stat[h] = "close"
    <3>1. k.defunct \in Seq(Threads)
      BY <2>2 DEF KernelState
    <3>2. h \in ToSet(k.defunct) /\ ToSet(k.defunct) \subseteq Threads
      BY <1>4, <3>1, HeadIn, ToSetDef
    <3>. QED BY <1>2, <3>2 DEF KernelOK, QueueOK, DefunctOK
  <2>. HIDE DEF h
  <2>4. /\ KernelOK(m)
        /\ m.stat = k.stat /\ m.prio = k.prio /\ m.timers = k.timers
        /\ m.cur = k.cur /\ m.lock = k.lock
        /\ ToSet(m.defunct) = ToSet(k.defunct) \ {h}
    BY <1>2, <2>3, UnlinkDead
  <2>. HIDE DEF m
  <2>5. Turned(m, k')
    BY <1>2, <2>1, <2>4, ScheduleTurns DEF Ready
  <2>6. /\ k' \in KernelState /\ KernelOK(k') /\ k'.cur \in Threads
        /\ k'.prio = k.prio /\ k'.timers = k.timers /\ k'.lock = k.lock
        /\ k'.stat[k'.cur] = "running"
        /\ ToSet(k'.defunct) = ToSet(k.defunct) \ {h}
        /\ \A x \in Threads :
              k'.stat[x] = k.stat[x] \/ (k.stat[x] \in Ready /\ k'.stat[x] \in Ready)
    BY <2>4, <2>5 DEF Turned, KernelOK, QueueOK, KernelState
  <2>7. /\ \A x \in Threads : pc'[x] = IF x = Idle THEN "reap_free" ELSE pc[x]
        /\ \A x \in Threads : arg'[x] = IF x = Idle THEN h ELSE arg[x]
    BY <2>1, <2>2
  <2>8. TypeOK'
    BY <1>1, <2>1, <2>2, <2>3, <2>6 DEF IInv, TypeOK, Places
  <2>9. \A x \in Threads : pc'[x] \notin Managing
    BY <1>2, <2>7 DEF Managing
  <2>10. QueuesSound'
    BY <2>6, <2>9, SoundAfter DEF Managing
  <2>11. ProcInv'
    BY <1>2, <2>6, <2>7 DEF IInv, ProcInv
  <2>12. StartInv'
    <3>1. \A x \in Threads : pc'[x] \in Starting => x # Idle /\ pc[x] \in Starting
      BY <2>7 DEF Starting
    <3>2. \A x \in Threads : pc[x] \in Starting => arg[x] \in Threads
      BY <2>2 DEF IInv, StartInv
    <3>. QED BY <1>1, <2>6, <2>7, <3>1, <3>2 DEF IInv, StartInv, Ready
  <2>13. ManageInv'
    BY <2>9 DEF ManageInv
  <2>14. ChiefInv'
    BY <2>6 DEF IInv, ChiefInv
  <2>15. FreedInv'
    BY <1>1, <1>2, <2>2, <2>3, <2>6, <2>7 DEF IInv, FreedInv, Ready
  <2>16. ClosedKept
    BY <2>6 DEF ClosedKept, Ready
  <2>. QED BY <2>8, <2>10, <2>11, <2>12, <2>13, <2>14, <2>15, <2>16 DEF IInv
<1>. QED BY <1>3, <1>4

LEMMA ReapFreeKept ==
    ASSUME IInv, ReapFree
    PROVE  IInv' /\ ClosedKept
<1>1. /\ At(Idle, "reap_free") /\ alive' = alive \ {arg[Idle]}
      /\ pc' = [pc EXCEPT ![Idle] = "run"] /\ arg' = [arg EXCEPT ![Idle] = None]
      /\ UNCHANGED <<k, isr>>
  BY DEF ReapFree, Return, Go
<1>2. /\ Idle \in Threads /\ k.cur = Idle /\ k.stat[Idle] = "running" /\ KernelOK(k)
      /\ pc[Idle] = "reap_free"
      /\ \A x \in Threads : pc[x] \notin Managing
  BY <1>1, Caller DEF Halting, Managing
<1>3. /\ k \in KernelState /\ pc \in [Threads -> Places]
      /\ arg \in [Threads -> Threads \union {None}] /\ alive \subseteq Threads
  BY DEF IInv, TypeOK
<1>4. arg[Idle] \in alive \ ToSet(k.defunct) /\ k.stat[arg[Idle]] = "close"
  BY <1>2 DEF IInv, FreedInv
<1>5. \A x \in Threads : pc'[x] = IF x = Idle THEN "run" ELSE pc[x]
  BY <1>1, <1>3
<1>6. TypeOK'
  BY <1>1, <1>3 DEF IInv, TypeOK, Places
<1>7. \A x \in Threads : pc'[x] \notin Managing
  BY <1>2, <1>5 DEF Managing
<1>8. QueuesSound'
  BY <1>1, <1>2, <1>7, SoundAfter DEF Managing
<1>9. ProcInv'
  BY <1>1, <1>2, <1>5 DEF IInv, ProcInv
<1>10. StartInv'
  <2>1. \A x \in Threads : pc'[x] \in Starting =>
           x # Idle /\ pc[x] \in Starting /\ arg[x] # arg[Idle] /\ arg'[x] = arg[x]
    BY <1>1, <1>3, <1>4, <1>5 DEF IInv, StartInv, Starting
  <2>. QED BY <1>1, <2>1 DEF IInv, StartInv
<1>11. ManageInv'
  BY <1>7 DEF ManageInv
<1>12. ChiefInv'
  BY <1>1 DEF IInv, ChiefInv
<1>13. FreedInv'
  BY <1>1, <1>2, <1>3, <1>4, <1>5 DEF IInv, FreedInv
<1>14. ClosedKept
  BY <1>1 DEF ClosedKept
<1>. QED BY <1>6, <1>8, <1>9, <1>10, <1>11, <1>12, <1>13, <1>14 DEF IInv

-----------------------------------------------------------------------------
(* Management calls: resume, suspend and delete.                           *)

\* They are made only by the manager.
LEMMA OnlyTheChief ==
    ASSUME Disciplined, NEW t \in Managers, NEW op \in Operations \ {"startup", "priority"}
    PROVE  Commanded /\ t = Chief
BY ManagersAre DEF Disciplined, StartsOnly

\* The manager takes a step of such a call: into it, inside it or out of it.
LEMMA DeskKept ==
    ASSUME IInv, Commanded, k.cur = Chief, pc[Chief] \notin Starting,
           NEW q \in Places \ Starting, pc' = [pc EXCEPT ![Chief] = q],
           NEW a \in Threads \union {None}, arg' = [arg EXCEPT ![Chief] = a],
           isr' = isr, alive' \subseteq alive, k' \in KernelState,
           k'.prio = k.prio, k'.timers \subseteq k.timers, k'.cur = k.cur, k'.lock = k.lock,
           k'.stat[Chief] = "running" \/ (q \in Halting /\ k.lock = 0),
           k'.stat[Idle] \in Ready,
           QueuesSound', q \in Managing => Works(Chief)', FreedInv', ClosedKept
    PROVE  IInv' /\ ClosedKept
<1>1. /\ pc \in [Threads -> Places] /\ arg \in [Threads -> Threads \union {None}]
      /\ alive \subseteq Threads /\ Idle \in Threads /\ Chief \in Threads /\ Chief # Idle
  BY KernelAssumption, ManagersAre DEF IInv, TypeOK
<1>2. \A x \in Threads : pc'[x] = IF x = Chief THEN q ELSE pc[x]
  BY <1>1
<1>3. \A x \in Threads : pc'[x] \notin Starting
  <2>1. \A x \in Threads : x # Chief => pc[x] \notin Starting
    BY ManagersAre DEF IInv, StartInv
  <2>. QED BY <1>2, <2>1
<1>4. \A x \in Threads : pc'[x] \in Managing => x = Chief /\ q \in Managing
  BY <1>2 DEF IInv, ManageInv, Works
<1>5. TypeOK'
  BY <1>1 DEF IInv, TypeOK
<1>6. ProcInv'
  BY <1>1, <1>2 DEF IInv, ProcInv
<1>7. StartInv'
  BY <1>3 DEF StartInv
<1>8. ManageInv'
  BY <1>4 DEF ManageInv
<1>9. ChiefInv'
  BY DEF IInv, ChiefInv
<1>. QED BY <1>5, <1>6, <1>7, <1>8, <1>9 DEF IInv

\* What holds when the manager makes a call.
LEMMA ChiefCalls ==
    ASSUME IInv, Disciplined, NEW t \in Threads, t \in Managers, At(t, "run"),
           NEW op \in Operations \ {"startup", "priority"}
    PROVE  /\ Commanded /\ t = Chief /\ k.cur = t /\ k.stat[t] = "running" /\ isr = "none"
           /\ pc[t] = "run" /\ t # Idle /\ t \in Users /\ t \in alive
           /\ KernelOK(k) /\ \A x \in Threads : pc[x] \notin Managing
           /\ k.timers = {}
<1>1. Commanded /\ t = Chief
  BY OnlyTheChief
<1>2. /\ k.cur = t /\ k.stat[t] = "running" /\ KernelOK(k) /\ pc[t] = "run" /\ isr = "none"
      /\ \A x \in Threads : pc[x] \notin Managing
  BY Caller DEF Halting, Managing
<1>3. t \in alive
  BY <1>2 DEF IInv, FreedInv
<1>4. k.timers = {}
  <2>1. \A x \in k.timers : x = t /\ k.stat[x] = "suspend"
    BY <1>1, <1>2 DEF IInv, ChiefInv, KernelOK, QueueOK, TimersOK
  <2>. QED BY <1>2, <2>1
<1>. QED BY <1>1, <1>2, <1>3, <1>4, ManagersAre

\* And inside a call.
LEMMA ChiefInside ==
    ASSUME IInv, NEW t \in Threads, NEW p \in Managing, At(t, p)
    PROVE  /\ Commanded /\ t = Chief /\ k.cur = t /\ k.stat[t] = "running" /\ isr = "none"
           /\ pc[t] = p /\ pc[t] \notin Starting /\ t # Idle /\ Works(t)
           /\ arg[t] \in Threads /\ arg[t] # Idle
           /\ \A x \in Threads : pc[x] \in Managing => x = t
           /\ k.timers = {}
<1>1. k.cur = t /\ pc[t] = p /\ isr = "none"
  BY DEF At
<1>2. Works(t) /\ \A x \in Threads : pc[x] \in Managing => x = t
  BY <1>1 DEF IInv, ManageInv, Works
<1>3. k.timers = {}
  BY <1>1, ManagerStays
<1>4. p \notin Starting
  BY PlacesDisjoint
<1>. QED BY <1>1, <1>2, <1>3, <1>4, ManagersAre, IpcAssumption DEF Works

\* While nothing is being deleted the lists are sound as they are.
LEMMA InsideSound ==
    ASSUME IInv, NEW t \in Threads, NEW p \in Managing \ {"del_timer", "del_close"}, At(t, p)
    PROVE  KernelOK(k)
<1>1. pc[t] = p /\ \A x \in Threads : pc[x] \in Managing => x = t
  BY ChiefInside
<1>2. \A x \in Threads : pc[x] \notin {"del_timer", "del_close"}
  BY <1>1 DEF Managing
<1>. QED BY <1>2, NobodyDeleted, SoundWithout DEF IInv

\* A step that moves the manager on and leaves the states of the threads alone.
LEMMA MoveKept ==
    ASSUME IInv, Commanded, k.cur = Chief, pc[Chief] \notin Starting, k.stat[Chief] = "running",
           \A x \in Threads : pc[x] \in Managing => x = Chief,
           NEW q \in Places \ Starting, pc' = [pc EXCEPT ![Chief] = q],
           q \notin {"del_timer", "del_close"},
           NEW a \in Threads \union {None}, arg' = [arg EXCEPT ![Chief] = a],
           isr' = isr, alive' = alive, KernelOK(k'),
           k'.stat = k.stat, k'.defunct = k.defunct,
           k'.prio = k.prio, k'.timers \subseteq k.timers, k'.cur = k.cur, k'.lock = k.lock,
           q \in Managing => Works(Chief)'
    PROVE  IInv' /\ ClosedKept
<1>1. /\ pc \in [Threads -> Places] /\ arg \in [Threads -> Threads \union {None}]
      /\ Idle \in Threads /\ Chief \in Threads /\ Chief # Idle /\ k' \in KernelState
  BY KernelAssumption, ManagersAre DEF IInv, TypeOK, KernelOK, QueueOK
<1>2. \A x \in Threads : pc'[x] \notin {"del_timer", "del_close"}
  BY <1>1 DEF Managing
<1>3. QueuesSound'
  BY <1>2, SoundAfter
<1>4. FreedInv'
  BY <1>1 DEF IInv, FreedInv
<1>5. ClosedKept
  BY DEF ClosedKept
<1>6. k'.stat[Idle] \in Ready /\ alive' \subseteq alive
  BY DEF IInv, ProcInv
<1>. QED BY <1>1, <1>3, <1>4, <1>5, <1>6, DeskKept

LEMMA ResumeCallKept ==
    ASSUME IInv, Disciplined, NEW t \in Threads, NEW u \in Threads, ResumeCall(t, u)
    PROVE  IInv' /\ ClosedKept
<1>1. /\ "resume" \in Operations /\ t \in Managers /\ u \in Workers \ {t} /\ u \in alive
      /\ At(t, "run") /\ pc' = [pc EXCEPT ![t] = "res_test"] /\ arg' = [arg EXCEPT ![t] = u]
      /\ UNCHANGED <<k, isr, alive>>
  BY DEF ResumeCall, Manages, Calls, Proceed, Go
<1>2. /\ Commanded /\ t = Chief /\ k.cur = t /\ k.stat[t] = "running" /\ KernelOK(k)
      /\ pc[t] = "run" /\ \A x \in Threads : pc[x] \notin Managing
  BY <1>1, ChiefCalls
<1>3. pc'[t] = "res_test" /\ arg'[t] = u
  BY <1>1 DEF IInv, TypeOK
<1>4. Works(t)'
  BY <1>1, <1>2, <1>3, ManagersAre DEF Works
<1>5. "res_test" \in Places \ Starting /\ "run" \notin Starting
  BY DEF Places, Starting
<1>. QED BY <1>1, <1>2, <1>4, <1>5, MoveKept

LEMMA ResumeTestKept ==
    ASSUME IInv, NEW t \in Threads, ResumeTest(t, "res_test", "res_unlink", "run")
    PROVE  IInv' /\ ClosedKept
<1>1. At(t, "res_test") /\ UNCHANGED <<k, isr, alive>>
  BY DEF ResumeTest
<1>2. /\ Commanded /\ t = Chief /\ k.cur = t /\ k.stat[t] = "running"
      /\ pc[t] = "res_test" /\ pc[t] \notin Starting /\ Works(t) /\ arg[t] \in Threads
      /\ \A x \in Threads : pc[x] \in Managing => x = t
  BY <1>1, ChiefInside DEF Managing
<1>3. KernelOK(k)
  BY <1>1, InsideSound DEF Managing
<1>4. pc \in [Threads -> Places] /\ arg \in [Threads -> Threads \union {None}]
  BY DEF IInv, TypeOK
<1>5. {"res_unlink", "run"} \subseteq Places \ Starting /\ "run" \notin Managing
  BY DEF Places, Starting, Managing
<1>6. CASE k.stat[arg[t]] = "suspend"
  <2>1. pc' = [pc EXCEPT ![t] = "res_unlink"] /\ arg' = arg
    BY <1>6 DEF ResumeTest, Go
  <2>2. arg' = [arg EXCEPT ![t] = arg[t]] /\ pc'[t] = "res_unlink"
    BY <1>4, <2>1
  <2>3. Works(t)'
    BY <1>1, <1>2, <1>6, <2>1, <2>2 DEF Works
  <2>. QED BY <1>1, <1>2, <1>3, <1>5, <2>1, <2>2, <2>3, MoveKept
<1>7. CASE k.stat[arg[t]] # "suspend"
  <2>1. pc' = [pc EXCEPT ![t] = "run"] /\ arg' = [arg EXCEPT ![t] = None]
    BY <1>7 DEF ResumeTest, Proceed, Go
  <2>. QED BY <1>1, <1>2, <1>3, <1>5, <2>1, MoveKept
<1>. QED BY <1>6, <1>7

LEMMA ResumeUnlinkKept ==
    ASSUME IInv, NEW t \in Threads, ResumeUnlink(t, "res_unlink", "res_insert")
    PROVE  IInv' /\ ClosedKept
<1>. DEFINE u == arg[t]
<1>1. /\ At(t, "res_unlink") /\ pc' = [pc EXCEPT ![t] = "res_insert"]
      /\ k' = [Unlink(k, u) EXCEPT !.timers = @ \ {u}] /\ UNCHANGED <<isr, arg, alive>>
  BY DEF ResumeUnlink, Go
<1>2. /\ Commanded /\ t = Chief /\ k.cur = t /\ k.stat[t] = "running"
      /\ pc[t] = "res_unlink" /\ pc[t] \notin Starting /\ Works(t) /\ u \in Threads
      /\ \A x \in Threads : pc[x] \in Managing => x = t
  BY <1>1, ChiefInside DEF Managing
<1>3. KernelOK(k) /\ k.stat[u] = "suspend"
  BY <1>1, <1>2, InsideSound DEF Managing, Works
<1>4. /\ KernelOK(k') /\ k'.stat = k.stat /\ k'.prio = k.prio /\ k'.lock = k.lock
      /\ k'.timers = k.timers \ {u} /\ k'.defunct = k.defunct /\ k'.cur = k.cur
  BY <1>1, <1>2, <1>3, UnlinkSuspended
<1>5. arg' = [arg EXCEPT ![t] = u] /\ pc'[t] = "res_insert"
  BY <1>1 DEF IInv, TypeOK
<1>6. Works(t)'
  BY <1>1, <1>2, <1>3, <1>4, <1>5 DEF Works
<1>7. "res_insert" \in Places \ Starting /\ k'.timers \subseteq k.timers
  BY <1>4 DEF Places, Starting
<1>. HIDE DEF u
<1>. QED BY <1>1, <1>2, <1>4, <1>5, <1>6, <1>7, MoveKept

\* The manager makes thread u ready, suspends it or closes it, and the call ends
\* or goes on.
LEMMA ChangeKept ==
    ASSUME IInv, NEW t \in Threads, NEW p \in Managing, At(t, p), NEW u \in Threads, u = arg[t],
           KernelOK(k'), NEW s \in {"ready", "suspend", "close"},
           k'.stat = [k.stat EXCEPT ![u] = s], k.stat[u] # "close",
           k'.prio = k.prio, k'.timers \subseteq k.timers, k'.cur = k.cur, k'.lock = k.lock,
           k'.defunct = k.defunct, isr' = isr, alive' = alive,
           NEW q \in Places \ Starting, pc' = [pc EXCEPT ![t] = q],
           q \notin {"del_timer", "del_close"},
           NEW a \in Threads \union {None}, arg' = [arg EXCEPT ![t] = a],
           u # t \/ (q \in Halting /\ k.lock = 0),
           q \in Managing => Works(t)'
    PROVE  IInv' /\ ClosedKept
<1>1. /\ Commanded /\ t = Chief /\ k.cur = t /\ k.stat[t] = "running" /\ t # Idle
      /\ pc[t] = p /\ pc[t] \notin Starting /\ Works(t) /\ u # Idle
      /\ \A x \in Threads : pc[x] \in Managing => x = t
  BY ChiefInside
<1>2. /\ pc \in [Threads -> Places] /\ arg \in [Threads -> Threads \union {None}]
      /\ Idle \in Threads /\ k' \in KernelState /\ k \in KernelState
  BY KernelAssumption DEF IInv, TypeOK, KernelOK, QueueOK
<1>3. \A x \in Threads : k'.stat[x] = IF x = u THEN s ELSE k.stat[x]
  BY <1>2 DEF KernelState
<1>4. \A x \in Threads : pc'[x] \notin {"del_timer", "del_close"}
  BY <1>1, <1>2 DEF Managing
<1>5. QueuesSound'
  BY <1>4, SoundAfter
<1>6. FreedInv'
  <2>1. u \in alive
    BY <1>1 DEF Works
  <2>2. alive \subseteq Threads
    BY DEF IInv, TypeOK
  <2>3. pc'[Idle] = pc[Idle] /\ arg'[Idle] = arg[Idle]
    BY <1>1, <1>2
  <2>. QED BY <1>3, <2>1, <2>2, <2>3 DEF IInv, FreedInv
<1>7. ClosedKept
  BY <1>3 DEF ClosedKept
<1>8. k'.stat[Idle] \in Ready /\ alive' \subseteq alive
  BY <1>1, <1>2, <1>3 DEF IInv, ProcInv
<1>9. k'.stat[t] = "running" \/ (q \in Halting /\ k.lock = 0)
  BY <1>1, <1>3
<1>. QED BY <1>1, <1>2, <1>5, <1>6, <1>7, <1>8, <1>9, DeskKept

LEMMA ResumeInsertKept ==
    ASSUME IInv, NEW t \in Threads, ResumeInsert(t, "res_insert", "run")
    PROVE  IInv' /\ ClosedKept
<1>. DEFINE u == arg[t]
<1>1. /\ At(t, "res_insert") /\ pc' = [pc EXCEPT ![t] = "run"]
      /\ arg' = [arg EXCEPT ![t] = None]
      /\ k' = rt_schedule_insert_thread(k, u) /\ UNCHANGED <<isr, alive>>
  BY DEF ResumeInsert, Proceed, Go
<1>2. k.cur = t /\ pc[t] = "res_insert" /\ Works(t) /\ u \in Threads /\ k.timers = {}
  BY <1>1, ChiefInside DEF Managing
<1>3. KernelOK(k) /\ k.stat[u] = "suspend" /\ u # t
  BY <1>1, <1>2, InsideSound DEF Managing, Works
<1>. HIDE DEF u
<1>4. /\ KernelOK(k') /\ k'.stat = [k.stat EXCEPT ![u] = "ready"] /\ k'.prio = k.prio
      /\ k'.timers = k.timers /\ k'.defunct = k.defunct /\ k'.cur = k.cur
      /\ k'.lock = k.lock
  BY <1>1, <1>2, <1>3, InsertSuspended
<1>5. "run" \in Places \ Starting /\ "run" \notin Managing /\ "res_insert" \in Managing
  BY DEF Places, Starting, Managing
<1>. QED BY <1>1, <1>2, <1>3, <1>4, <1>5, ChangeKept DEF u

LEMMA SuspendCallKept ==
    ASSUME IInv, Disciplined, NEW t \in Threads, NEW u \in Threads, SuspendCall(t, u)
    PROVE  IInv' /\ ClosedKept
<1>1. /\ "suspend" \in Operations /\ t \in Managers /\ u \in Workers \union {t} /\ u \in alive
      /\ At(t, "run") /\ (u = t => k.lock = 0) /\ k.stat[u] \in Ready
      /\ pc' = [pc EXCEPT ![t] = "sus_do"] /\ arg' = [arg EXCEPT ![t] = u]
      /\ UNCHANGED <<k, isr, alive>>
  BY DEF SuspendCall, Calls, Proceed, Go, Ready
<1>2. /\ Commanded /\ t = Chief /\ k.cur = t /\ k.stat[t] = "running" /\ KernelOK(k)
      /\ pc[t] = "run" /\ t \in Users /\ \A x \in Threads : pc[x] \notin Managing
  BY <1>1, ChiefCalls
<1>3. pc'[t] = "sus_do" /\ arg'[t] = u
  BY <1>1 DEF IInv, TypeOK
<1>4. Works(t)'
  BY <1>1, <1>2, <1>3, ManagersAre DEF Works
<1>5. "sus_do" \in Places \ Starting /\ "run" \notin Starting
  BY DEF Places, Starting
<1>. QED BY <1>1, <1>2, <1>4, <1>5, MoveKept

LEMMA SuspendDoKept ==
    ASSUME IInv, NEW t \in Threads, SuspendDo(t)
    PROVE  IInv' /\ ClosedKept
<1>. DEFINE u == arg[t]
<1>1. /\ At(t, "sus_do")
      /\ pc' = [pc EXCEPT ![t] = IF u = t THEN "sus_sched" ELSE "run"]
      /\ arg' = [arg EXCEPT ![t] = None]
      /\ k' = [rt_schedule_remove_thread(k, u)
                  EXCEPT !.stat[u] = "suspend", !.timers = @ \ {u}]
      /\ UNCHANGED <<isr, alive>>
  BY DEF SuspendDo, Proceed, Go
<1>2. k.cur = t /\ pc[t] = "sus_do" /\ Works(t) /\ u \in Threads /\ k.timers = {}
  BY <1>1, ChiefInside DEF Managing
<1>3. KernelOK(k) /\ k.stat[u] \in Ready /\ (u = t => k.lock = 0)
  BY <1>1, <1>2, InsideSound DEF Managing, Works
<1>. HIDE DEF u
<1>4. k' = rt_thread_suspend(k, u)
  BY <1>1, <1>3 DEF rt_thread_suspend, Ready
<1>5. Suspended(k, k', u)
  BY <1>2, <1>3, <1>4, SuspendOK DEF Ready
<1>6. k'.defunct = k.defunct
  BY <1>2, <1>3, <1>4, SuspendDefunct
<1>7. /\ KernelOK(k') /\ k'.stat = [k.stat EXCEPT ![u] = "suspend"] /\ k'.prio = k.prio
      /\ k'.timers \subseteq k.timers /\ k'.cur = k.cur /\ k'.lock = k.lock
  BY <1>5 DEF Suspended
<1>8. /\ {"run", "sus_sched"} \subseteq Places \ Starting /\ "sus_sched" \in Halting
      /\ {"run", "sus_sched"} \cap Managing = {} /\ "sus_do" \in Managing
      /\ {"run", "sus_sched"} \cap {"del_timer", "del_close"} = {}
  BY DEF Places, Starting, Managing, Halting
<1>9. k.stat[u] # "close"
  BY <1>3 DEF Ready
<1>10. CASE u = t
  <2>1. pc' = [pc EXCEPT ![t] = "sus_sched"]
    BY <1>1, <1>10
  <2>. QED BY <1>1, <1>2, <1>3, <1>6, <1>7, <1>8, <1>9, <1>10, <2>1, ChangeKept DEF u
<1>11. CASE u # t
  <2>1. pc' = [pc EXCEPT ![t] = "run"]
    BY <1>1, <1>11
  <2>. QED BY <1>1, <1>2, <1>6, <1>7, <1>8, <1>9, <1>11, <2>1, ChangeKept, ZenonT(60) DEF u
<1>. QED BY <1>10, <1>11

\* The state with one thread masked.
LEMMA MaskOne ==
    ASSUME NEW ks \in KernelState, NEW u \in Threads
    PROVE  Mask(ks, {u}) = [ks EXCEPT !.stat[u] = "init"]
<1>1. [x \in Threads |-> IF x \in {u} THEN "init" ELSE ks.stat[x]]
        = [ks.stat EXCEPT ![u] = "init"]
  BY DEF KernelState
<1>. QED BY <1>1 DEF Mask, KernelState

LEMMA MaskedSound ==
    ASSUME NEW ks, NEW u \in Threads, FreeOf(ks, u), u \notin ks.timers, CurOK(ks), u # ks.cur
    PROVE  KernelOK(Mask(ks, {u}))
<1>. DEFINE r == [ks EXCEPT !.stat[u] = "init"]
<1>1. ks \in KernelState /\ "init" \in Stat \ {"ready"}
  BY DEF FreeOf, Stat
<1>2. QueueOK(r) /\ r.stat = [ks.stat EXCEPT ![u] = "init"] /\ r.cur = ks.cur
  BY <1>1, PutState
<1>3. Mask(ks, {u}) = r
  BY <1>1, MaskOne
<1>. HIDE DEF r
<1>4. CurOK(r)
  BY <1>1, <1>2 DEF CurOK, KernelState
<1>. QED BY <1>2, <1>3, <1>4 DEF KernelOK

\* Which threads are being deleted after a step of the manager.
LEMMA DeletingAfter ==
    ASSUME NEW t \in Threads, pc \in [Threads -> Places],
           \A x \in Threads : x # t => pc[x] \notin Managing,
           NEW q \in {"del_timer", "del_close"}, pc' = [pc EXCEPT ![t] = q]
    PROVE  Deleting' = {arg'[t]}
<1>1. \A x \in Threads : pc'[x] \in {"del_timer", "del_close"} <=> x = t
  BY DEF Managing
<1>. QED BY <1>1 DEF Deleting

\* The thread being deleted is off the lists.
LEMMA DeletedFree ==
    ASSUME IInv, Commanded, k.cur = Chief, k.stat[Chief] = "running", pc[Chief] \notin Starting,
           \A x \in Threads : pc[x] \in Managing => x = Chief,
           CurOK(k), k.timers = {},
           NEW u \in Users \cap alive, u # Chief, k.stat[u] # "close", FreeOf(k', u),
           k'.stat = k.stat, k'.prio = k.prio, k'.timers = k.timers,
           k'.cur = k.cur, k'.lock = k.lock, k'.defunct = k.defunct,
           pc' = [pc EXCEPT ![Chief] = "del_timer"], arg' = [arg EXCEPT ![Chief] = u],
           UNCHANGED <<isr, alive>>
    PROVE  IInv' /\ ClosedKept
<1>1. /\ pc \in [Threads -> Places] /\ arg \in [Threads -> Threads \union {None}]
      /\ k \in KernelState /\ k' \in KernelState /\ Idle \in Threads
      /\ Chief \in Threads /\ Chief # Idle /\ u \in Threads
  BY KernelAssumption, IpcAssumption, ManagersAre DEF IInv, TypeOK, FreeOf
<1>2. pc'[Chief] = "del_timer" /\ arg'[Chief] = u
  BY <1>1
<1>3. QueuesSound'
  <2>1. Deleting' = {u}
    BY <1>1, <1>2, DeletingAfter
  <2>2. CurOK(k') /\ u # k'.cur /\ u \notin k'.timers
    BY DEF CurOK
  <2>3. KernelOK(Mask(k', {u}))
    BY <1>1, <2>2, MaskedSound
  <2>4. KernelOK(Mask(k', Deleting'))
    BY <2>1, <2>3
  <2>. QED BY <2>4 DEF QueuesSound, Mask
<1>4. Works(Chief)'
  BY <1>2 DEF Works
<1>5. pc'[Idle] = pc[Idle] /\ arg'[Idle] = arg[Idle]
  BY <1>1
<1>6. FreedInv'
  BY <1>5 DEF IInv, FreedInv
<1>7. ClosedKept /\ k'.stat[Idle] \in Ready /\ alive' \subseteq alive
  BY DEF ClosedKept, IInv, ProcInv
<1>8. "del_timer" \in Places \ Starting
  BY DEF Places, Starting
<1>. QED BY <1>1, <1>3, <1>4, <1>6, <1>7, <1>8, DeskKept

LEMMA DeleteCallKept ==
    ASSUME IInv, Disciplined, NEW t \in Threads, NEW u \in Threads, DeleteCall(t, u)
    PROVE  IInv' /\ ClosedKept
<1>1. /\ "delete" \in Operations /\ t \in Managers /\ u \in Workers \ {t} /\ u \in alive
      /\ At(t, "run") /\ k.stat[u] # "close"
      /\ pc' = [pc EXCEPT ![t] = IF k.stat[u] # "init" THEN "del_remove" ELSE "del_timer"]
      /\ arg' = [arg EXCEPT ![t] = u]
      /\ UNCHANGED <<k, isr, alive>>
  BY DEF DeleteCall, Manages, Calls, Proceed, Go
<1>2. /\ Commanded /\ t = Chief /\ k.cur = t /\ k.stat[t] = "running" /\ KernelOK(k)
      /\ pc[t] = "run" /\ t # Idle /\ \A x \in Threads : pc[x] \notin Managing
      /\ k.timers = {}
  BY <1>1, ChiefCalls
<1>3. u \in Users \cap alive
  BY <1>1, ThreadsAssumption
<1>4. {"del_remove", "del_timer"} \subseteq Places \ Starting /\ "run" \notin Starting
  BY DEF Places, Starting
<1>5. CASE k.stat[u] = "init"
  <2>1. FreeOf(k, u)
    BY <1>2, <1>5, IsFree DEF KernelOK, QueueOK, DefunctOK
  <2>2. pc' = [pc EXCEPT ![t] = "del_timer"]
    BY <1>1, <1>5
  <2>. QED BY <1>1, <1>2, <1>3, <1>4, <2>1, <2>2, DeletedFree DEF KernelOK
<1>6. CASE k.stat[u] # "init"
  <2>1. pc' = [pc EXCEPT ![t] = "del_remove"]
    BY <1>1, <1>6
  <2>2. pc'[t] = "del_remove" /\ arg'[t] = u
    BY <1>1, <2>1 DEF IInv, TypeOK
  <2>3. Works(t)'
    BY <1>1, <1>2, <1>3, <2>2 DEF Works
  <2>. QED BY <1>1, <1>2, <1>4, <2>1, <2>3, MoveKept
<1>. QED BY <1>5, <1>6

LEMMA DeleteRemoveKept ==
    ASSUME IInv, NEW t \in Threads, DeleteRemove(t)
    PROVE  IInv' /\ ClosedKept
<1>. DEFINE u == arg[t]
<1>1. /\ At(t, "del_remove") /\ pc' = [pc EXCEPT ![t] = "del_timer"]
      /\ k' = rt_schedule_remove_thread(k, u) /\ UNCHANGED <<isr, arg, alive>>
  BY DEF DeleteRemove, Go
<1>2. /\ Commanded /\ t = Chief /\ k.cur = t /\ k.stat[t] = "running"
      /\ pc[t] = "del_remove" /\ pc[t] \notin Starting /\ Works(t) /\ u \in Threads
      /\ \A x \in Threads : pc[x] \in Managing => x = t
      /\ k.timers = {}
  BY <1>1, ChiefInside DEF Managing
<1>3. KernelOK(k)
  BY <1>1, InsideSound DEF Managing
<1>4. u \in Users \cap alive /\ u # t /\ k.stat[u] # "close"
  BY <1>2 DEF Works
<1>5. arg' = [arg EXCEPT ![t] = u]
  BY <1>1 DEF IInv, TypeOK
<1>. HIDE DEF u
<1>6. QueueOK(k) /\ CurOK(k)
  BY <1>3 DEF KernelOK
<1>7. k'.defunct = k.defunct
  BY <1>1, <1>2, <1>4, <1>6, UnlinkDefunct
<1>8. /\ FreeOf(k', u) /\ k'.stat = k.stat /\ k'.prio = k.prio /\ k'.timers = k.timers
      /\ k'.cur = k.cur /\ k'.lock = k.lock
  BY <1>1, <1>2, <1>6, RemoveFrees
<1>. QED BY <1>1, <1>2, <1>4, <1>5, <1>6, <1>7, <1>8, DeletedFree

LEMMA DeleteTimerKept ==
    ASSUME IInv, NEW t \in Threads, DeleteTimer(t)
    PROVE  IInv' /\ ClosedKept
<1>. DEFINE u == arg[t]
<1>1. /\ At(t, "del_timer") /\ pc' = [pc EXCEPT ![t] = "del_close"]
      /\ k' = [k EXCEPT !.timers = @ \ {u}] /\ UNCHANGED <<isr, arg, alive>>
  BY DEF DeleteTimer, Go
<1>2. /\ Commanded /\ t = Chief /\ k.cur = t /\ k.stat[t] = "running" /\ t # Idle
      /\ pc[t] = "del_timer" /\ pc[t] \notin Starting /\ Works(t) /\ u \in Threads
      /\ \A x \in Threads : pc[x] \in Managing => x = t
      /\ k.timers = {}
  BY <1>1, ChiefInside DEF Managing
<1>3. /\ pc \in [Threads -> Places] /\ arg \in [Threads -> Threads \union {None}]
      /\ k \in KernelState /\ Idle \in Threads
  BY KernelAssumption DEF IInv, TypeOK
<1>4. k' = k
  BY <1>1, <1>2, <1>3 DEF KernelState
<1>5. pc'[t] = "del_close" /\ arg' = [arg EXCEPT ![t] = u]
  BY <1>1, <1>3
<1>6. Deleting' = Deleting
  <2>1. Deleting' = {u}
    BY <1>1, <1>2, <1>3, DeletingAfter
  <2>2. \A x \in Threads : pc[x] \in {"del_timer", "del_close"} <=> x = t
    BY <1>2 DEF Managing
  <2>3. Deleting = {u}
    BY <2>2 DEF Deleting
  <2>. QED BY <2>1, <2>3
<1>7. QueuesSound'
  BY <1>4, <1>6 DEF IInv, QueuesSound
<1>8. Works(t)'
  BY <1>1, <1>2, <1>4, <1>5 DEF Works
<1>9. FreedInv'
  BY <1>1, <1>2, <1>3, <1>4 DEF IInv, FreedInv
<1>10. ClosedKept /\ k'.stat[Idle] \in Ready
  BY <1>4 DEF ClosedKept, IInv, ProcInv
<1>11. "del_close" \in Places \ Starting
  BY DEF Places, Starting
<1>. QED BY <1>1, <1>2, <1>3, <1>4, <1>5, <1>7, <1>8, <1>9, <1>10, <1>11, DeskKept

LEMMA DeleteCloseKept ==
    ASSUME IInv, NEW t \in Threads, DeleteClose(t)
    PROVE  IInv' /\ ClosedKept
<1>. DEFINE u == arg[t]
<1>1. /\ At(t, "del_close") /\ pc' = [pc EXCEPT ![t] = "del_defunct"]
      /\ k' = [k EXCEPT !.stat[u] = "close"] /\ UNCHANGED <<isr, arg, alive>>
  BY DEF DeleteClose, Go
<1>2. /\ k.cur = t /\ k.stat[t] = "running" /\ t # Idle
      /\ pc[t] = "del_close" /\ Works(t) /\ u \in Threads /\ u # Idle
      /\ \A x \in Threads : pc[x] \in Managing => x = t
      /\ k.timers = {}
  BY <1>1, ChiefInside DEF Managing
<1>3. /\ pc \in [Threads -> Places] /\ arg \in [Threads -> Threads \union {None}]
      /\ k \in KernelState /\ Idle \in Threads
  BY KernelAssumption DEF IInv, TypeOK
<1>4. u # t /\ k.stat[u] # "close"
  BY <1>2 DEF Works
<1>. DEFINE m == Mask(k, {u})
            r == [m EXCEPT !.stat[u] = "close"]
<1>5. KernelOK(m)
  <2>1. \A x \in Threads : pc[x] \in {"del_timer", "del_close"} <=> x = t
    BY <1>2 DEF Managing
  <2>2. Deleting = {u}
    BY <2>1 DEF Deleting
  <2>. QED BY <2>2, SoundIs DEF IInv
<1>6. /\ m \in KernelState /\ m.stat = [x \in Threads |-> IF x \in {u} THEN "init" ELSE k.stat[x]]
      /\ m.prio = k.prio /\ m.timers = k.timers /\ m.defunct = k.defunct
      /\ m.cur = k.cur /\ m.lock = k.lock
  BY <1>3, MaskFields
<1>7. k' = r
  <2>1. m = [k EXCEPT !.stat[u] = "init"]
    BY <1>2, <1>3, MaskOne
  <2>. HIDE DEF m, u
  <2>. QED BY <1>1, <1>2, <1>3, <2>1 DEF KernelState
<1>. HIDE DEF m, u
<1>8. FreeOf(m, u) /\ u \notin ToSet(k.defunct)
  BY <1>2, <1>5, <1>6, IsFree DEF KernelOK, QueueOK, DefunctOK
<1>9. QueueOK(r) /\ r.stat = [m.stat EXCEPT ![u] = "close"] /\ r.cur = m.cur
  <2>1. "close" \in Stat \ {"ready"} /\ u \notin m.timers
    BY <1>2, <1>6 DEF Stat
  <2>. QED BY <1>2, <1>8, <2>1, PutState
<1>10. /\ k'.stat = [k.stat EXCEPT ![u] = "close"] /\ k'.prio = k.prio
       /\ k'.timers = k.timers /\ k'.cur = k.cur /\ k'.lock = k.lock
       /\ k'.defunct = k.defunct
  BY <1>1, <1>3 DEF KernelState
<1>11. CurOK(r)
  BY <1>2, <1>4, <1>5, <1>6, <1>9 DEF KernelOK, CurOK, KernelState
<1>12. KernelOK(k')
  BY <1>7, <1>9, <1>11 DEF KernelOK
<1>13. pc'[t] = "del_defunct" /\ arg' = [arg EXCEPT ![t] = u] /\ arg'[t] = u
  BY <1>1, <1>3 DEF u
<1>14. Works(t)'
  <2>1. ~(pc'[Idle] = "reap_free" /\ arg'[Idle] = u)
    BY <1>1, <1>2, <1>3, <1>4 DEF IInv, FreedInv
  <2>2. k'.stat[u] = "close" /\ k'.stat[t] = k.stat[t]
    BY <1>2, <1>3, <1>4, <1>10 DEF KernelState
  <2>. QED BY <1>1, <1>2, <1>4, <1>8, <1>10, <1>13, <2>1, <2>2 DEF Works, u
<1>15. "del_defunct" \in Places \ Starting /\ "del_close" \in Managing
  BY DEF Places, Starting, Managing
<1>. QED BY <1>1, <1>2, <1>4, <1>10, <1>12, <1>13, <1>14, <1>15, ChangeKept DEF u

LEMMA DeleteDefunctKept ==
    ASSUME IInv, NEW t \in Threads, DeleteDefunct(t)
    PROVE  IInv' /\ ClosedKept
<1>. DEFINE u == arg[t]
<1>1. /\ At(t, "del_defunct") /\ pc' = [pc EXCEPT ![t] = "run"]
      /\ arg' = [arg EXCEPT ![t] = None] /\ isr' = isr
      /\ \/ alive' = alive \ {u} /\ k' = k
         \/ k' = [k EXCEPT !.defunct = Cons(u, @)] /\ alive' = alive
  BY DEF DeleteDefunct, Bury, Return, Go
<1>2. /\ Commanded /\ t = Chief /\ k.cur = t /\ k.stat[t] = "running" /\ t # Idle
      /\ pc[t] = "del_defunct" /\ pc[t] \notin Starting /\ Works(t) /\ u \in Threads
      /\ \A x \in Threads : pc[x] \in Managing => x = t
  BY <1>1, ChiefInside DEF Managing
<1>3. /\ pc \in [Threads -> Places] /\ arg \in [Threads -> Threads \union {None}]
      /\ k \in KernelState /\ Idle \in Threads /\ alive \subseteq Threads
  BY KernelAssumption DEF IInv, TypeOK
<1>4. /\ KernelOK(k) /\ k.stat[u] = "close" /\ u \notin ToSet(k.defunct) /\ u \in alive
      /\ ~(pc[Idle] = "reap_free" /\ arg[Idle] = u)
  BY <1>1, <1>2, InsideSound DEF Managing, Works
<1>5. Buried(k, [k EXCEPT !.defunct = Cons(u, @)], u)
  BY <1>2, <1>4, BuryOK
<1>. HIDE DEF u
<1>6. /\ KernelOK(k') /\ k'.stat = k.stat /\ k'.prio = k.prio /\ k'.timers = k.timers
      /\ k'.cur = k.cur /\ k'.lock = k.lock /\ alive' \subseteq alive
      /\ \/ ToSet(k'.defunct) = ToSet(k.defunct) /\ alive' = alive \ {u}
         \/ ToSet(k'.defunct) = ToSet(k.defunct) \union {u} /\ alive' = alive
  <2>1. CASE alive' = alive \ {u} /\ k' = k
    BY <1>4, <2>1
  <2>2. CASE k' = [k EXCEPT !.defunct = Cons(u, @)] /\ alive' = alive
    BY <1>5, <2>2 DEF Buried
  <2>. QED BY <1>1, <2>1, <2>2
<1>7. pc'[Idle] = pc[Idle] /\ arg'[Idle] = arg[Idle]
  BY <1>1, <1>2, <1>3
<1>8. \A x \in Threads : pc'[x] \notin {"del_timer", "del_close"}
  BY <1>1, <1>2, <1>3 DEF Managing
<1>9. QueuesSound'
  BY <1>6, <1>8, SoundAfter
<1>10. FreedInv'
  BY <1>3, <1>4, <1>6, <1>7 DEF IInv, FreedInv
<1>11. ClosedKept /\ k'.stat[Idle] \in Ready /\ k' \in KernelState
  BY <1>6 DEF ClosedKept, IInv, ProcInv, KernelOK, QueueOK
<1>12. "run" \in Places \ Starting /\ "run" \notin Managing
  BY DEF Places, Starting, Managing
<1>. QED BY <1>1, <1>2, <1>6, <1>9, <1>10, <1>11, <1>12, DeskKept

-----------------------------------------------------------------------------
(* Every behaviour.                                                        *)

LEMMA InitInv == Init => IInv
<1>. SUFFICES ASSUME Init PROVE IInv
  OBVIOUS
<1>1. /\ KernelOK(k) /\ k.lock = 0 /\ k.stat[Idle] \in Ready
      /\ k.stat[k.cur] = "running" /\ k.prio = InitPrio /\ k.timers = {}
      /\ \A t \in Threads : k.stat[t] \in {"init", "ready", "running"}
  BY BootedOK DEF Init, Ready
<1>2. isr = "none" /\ alive = {t \in Threads : k.stat[t] # "init"}
  BY DEF Init
<1>3. /\ pc \in [Threads -> Places] /\ \A t \in Threads : pc[t] = "run"
      /\ arg \in [Threads -> Threads \union {None}]
  BY DEF Init, Places
<1>4. k \in KernelState /\ k.cur \in Threads /\ Idle \in Threads
  BY <1>1, KernelAssumption DEF KernelOK, QueueOK, KernelState
<1>5. TypeOK
  BY <1>2, <1>3, <1>4 DEF TypeOK
<1>6. QueuesSound
  <2>1. Deleting = {}
    BY <1>3, NobodyDeleted
  <2>. QED BY <1>1, <1>5, <2>1, SoundWithout
<1>7. ProcInv
  BY <1>1, <1>3, <1>4 DEF ProcInv
<1>8. StartInv /\ ManageInv
  BY <1>3 DEF StartInv, ManageInv, Starting, Managing
<1>9. ChiefInv
  <2>. SUFFICES ASSUME Commanded
                PROVE  /\ k.timers \subseteq {Chief} /\ k.prio[Chief] = InitPrio[Chief]
                       /\ \A t \in Threads \ {Chief} : InitPrio[Chief] < k.prio[t]
    BY DEF ChiefInv
  <2>. QED BY <1>1, ChiefCommands DEF Commands
<1>10. FreedInv
  <2>1. ToSet(k.defunct) \subseteq Threads
    BY <1>4, ToSetDef DEF KernelState
  <2>2. \A t \in ToSet(k.defunct) : k.stat[t] = "close"
    BY <1>1 DEF KernelOK, QueueOK, DefunctOK
  <2>3. ToSet(k.defunct) = {}
    BY <1>1, <2>1, <2>2
  <2>4. pc[Idle] # "reap_free"
    BY <1>3, <1>4
  <2>. QED BY <1>2, <2>3, <2>4 DEF FreedInv
<1>. QED BY <1>5, <1>6, <1>7, <1>8, <1>9, <1>10 DEF IInv

LEMMA KernelStepKept ==
    ASSUME IInv, NEW t \in Threads, KernelStep(t)
    PROVE  IInv' /\ ClosedKept
<1>1. CASE ResumeTest(t, "st_test", "st_unlink", "st_sched")
  BY <1>1, StartTestKept
<1>2. CASE ResumeUnlink(t, "st_unlink", "st_insert")
  BY <1>2, StartUnlinkKept
<1>3. CASE ResumeInsert(t, "st_insert", "st_sched")
  BY <1>3, StartInsertKept
<1>4. CASE ResumeTest(t, "res_test", "res_unlink", "run")
  BY <1>4, ResumeTestKept
<1>5. CASE ResumeUnlink(t, "res_unlink", "res_insert")
  BY <1>5, ResumeUnlinkKept
<1>6. CASE ResumeInsert(t, "res_insert", "run")
  BY <1>6, ResumeInsertKept
<1>7. CASE SuspendDo(t)
  BY <1>7, SuspendDoKept
<1>19. CASE DeleteRemove(t)
  BY <1>19, DeleteRemoveKept
<1>8. CASE DeleteTimer(t)
  BY <1>8, DeleteTimerKept
<1>9. CASE DeleteClose(t)
  BY <1>9, DeleteCloseKept
<1>10. CASE DeleteDefunct(t)
  BY <1>10, DeleteDefunctKept
<1>11. CASE SleepReturn(t)
  BY <1>11, SleepReturnKept
<1>12. \A from \in {"st_sched", "sus_sched", "yield_sched", "sleep_sched",
                    "exit_sched", "crit_sched"} :
          from \notin Managing \union Starting \union {"run", "reap_take", "reap_free"}
  BY DEF Managing, Starting
<1>13. CASE Resched(t, "st_sched", "run")
  BY <1>12, <1>13, ReschedKept
<1>14. CASE Resched(t, "sus_sched", "run")
  BY <1>12, <1>14, ReschedKept
<1>15. CASE Resched(t, "yield_sched", "run")
  BY <1>12, <1>15, ReschedKept
<1>16. CASE Resched(t, "sleep_sched", "slept")
  BY <1>12, <1>16, ReschedKept
<1>17. CASE Resched(t, "exit_sched", "dead")
  BY <1>12, <1>17, ReschedKept
<1>18. CASE Resched(t, "crit_sched", "run")
  BY <1>12, <1>18, ReschedKept
<1>. QED BY <1>1, <1>2, <1>3, <1>4, <1>5, <1>6, <1>7, <1>8, <1>9, <1>10, <1>11,
            <1>13, <1>14, <1>15, <1>16, <1>17, <1>18, <1>19 DEF KernelStep, SleepSteps

LEMMA CallKept ==
    ASSUME IInv, Disciplined, NEW t \in Threads, Call(t)
    PROVE  IInv' /\ ClosedKept
<1>1. ASSUME NEW u \in Threads, rt_thread_create(t, u) PROVE IInv' /\ ClosedKept
  BY <1>1, CreateKept
<1>2. ASSUME NEW u \in Threads, rt_thread_startup(t, u) PROVE IInv' /\ ClosedKept
  BY <1>2, StartupKept
<1>3. ASSUME NEW u \in Threads, ResumeCall(t, u) PROVE IInv' /\ ClosedKept
  BY <1>3, ResumeCallKept
<1>4. ASSUME NEW u \in Threads, SuspendCall(t, u) PROVE IInv' /\ ClosedKept
  BY <1>4, SuspendCallKept
<1>5. ASSUME NEW u \in Threads, NEW p \in NewPrios, ControlPriority(t, u, p)
      PROVE  IInv' /\ ClosedKept
  BY <1>5, PriorityKept
<1>6. ASSUME NEW u \in Threads, DeleteCall(t, u) PROVE IInv' /\ ClosedKept
  BY <1>6, DeleteCallKept
<1>7. CASE rt_thread_yield(t)
  BY <1>7, YieldKept
<1>8. CASE t \in Sleepers /\ k.lock = 0 /\ rt_thread_sleep(t)
  BY <1>8, SleepKept
<1>9. CASE rt_thread_exit(t)
  BY <1>9, ExitKept
<1>10. CASE rt_enter_critical(t) \/ rt_exit_critical(t)
  BY <1>10, LockKept
<1>. QED BY <1>1, <1>2, <1>3, <1>4, <1>5, <1>6, <1>7, <1>8, <1>9, <1>10 DEF Call

LEMMA NextInv ==
    ASSUME IInv, Disciplined, [Next]_vars
    PROVE  IInv' /\ ClosedKept
<1>1. CASE Tick /\ Outside
  BY <1>1, TickKept
<1>2. CASE Reap
  BY <1>2, ReapTestKept, ReapTakeKept, ReapFreeKept DEF Reap
<1>3. ASSUME NEW t \in Threads, KernelStep(t) PROVE IInv' /\ ClosedKept
  BY <1>3, KernelStepKept
<1>4. ASSUME NEW t \in Threads, Call(t) PROVE IInv' /\ ClosedKept
  BY <1>4, CallKept
<1>5. CASE UNCHANGED vars
  BY <1>5, SameKept DEF vars, IInv, TypeOK
<1>. QED BY <1>1, <1>2, <1>3, <1>4, <1>5 DEF Next

\* The inductive invariant holds in every behaviour of a disciplined
\* application: rt_thread_startup, rt_thread_resume, rt_thread_suspend and
\* rt_thread_delete may be interrupted between their critical sections.
THEOREM Invariance ==
    ASSUME Disciplined
    PROVE  Spec => []IInv
<1>1. IInv /\ [Next]_vars => IInv'
  BY NextInv
<1>. QED BY <1>1, InitInv, PTL DEF Spec

\* The state stays well formed under every interleaving of the calls of
\* src/thread.c with the tick and the reaper of src/idle.c.
THEOREM TypeCorrect ==
    ASSUME Disciplined
    PROVE  Spec => []TypeOK
<1>1. IInv => TypeOK
  BY DEF IInv
<1>. QED BY <1>1, Invariance, PTL

\* Wherever an interrupt can come, the ready queues, the bitmap, the thread
\* timers, the defunct list and the thread states agree, also in the middle of
\* rt_thread_startup, rt_thread_resume, rt_thread_suspend, rt_thread_delete.
THEOREM QueuesStaySound ==
    ASSUME Disciplined
    PROVE  Spec => []QueuesSound
<1>1. IInv => QueuesSound
  BY DEF IInv
<1>. QED BY <1>1, Invariance, PTL

\* No kernel list and no running timer refers to a control block that
\* rt_thread_idle_excute gave back or rt_thread_detach removed.
THEOREM FreedStaysUnlinked ==
    ASSUME Disciplined
    PROVE  Spec => []FreedIsUnlinked
<1>1. IInv => FreedIsUnlinked
  <2>. SUFFICES ASSUME IInv, NEW t \in Threads \ alive
                PROVE  /\ k.stat[t] \in {"init", "close"}
                       /\ \A p \in Prio : t \notin ToSet(k.ready[p])
                       /\ t \notin ToSet(k.defunct)
                       /\ t \notin k.timers
    BY DEF FreedIsUnlinked
  <2>. DEFINE m == Mask(k, Deleting)
  <2>1. k.stat[t] \in {"init", "close"} /\ t \notin ToSet(k.defunct)
    BY DEF IInv, FreedInv
  <2>2. m.ready = k.ready /\ m.timers = k.timers /\ m.stat[t] \in {"init", "close"}
    <3>1. k \in KernelState
      BY DEF IInv, TypeOK
    <3>2. /\ m.ready = k.ready /\ m.timers = k.timers
          /\ m.stat = [u \in Threads |-> IF u \in Deleting THEN "init" ELSE k.stat[u]]
      BY <3>1, MaskFields
    <3>. HIDE DEF m
    <3>. QED BY <2>1, <3>2
  <2>3. QueueOK(m)
    <3>1. KernelOK(Mask(k, Deleting))
      BY SoundIs DEF IInv
    <3>. QED BY <3>1 DEF KernelOK
  <2>. HIDE DEF m
  <2>. QED BY <2>1, <2>2, <2>3 DEF QueueOK, ReadyOK, TimersOK
<1>. QED BY <1>1, Invariance, PTL

\* A closed thread does not become ready or running again through any step of
\* the kernel: neither a late rt_thread_resume nor a timer revives it.
THEOREM ClosedForGood ==
    ASSUME Disciplined
    PROVE  Spec => ClosedStaysClosed
<1>1. IInv /\ [Next]_vars =>
          [\A t \in Threads : k.stat[t] = "close" => k'.stat[t] \in {"close", "init"}]_vars
  BY NextInv DEF ClosedKept
<1>. QED BY <1>1, Invariance, PTL DEF Spec, ClosedStaysClosed
=============================================================================
