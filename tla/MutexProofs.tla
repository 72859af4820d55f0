---------------------------- MODULE MutexProofs ----------------------------
(***************************************************************************)
(* The mutex of module Mutex keeps the kernel consistent, excludes, and    *)
(* never leaves a waiter behind, for any number of threads, mutexes and    *)
(* priorities and for either flag.                                         *)
(***************************************************************************)
EXTENDS Mutex, KernelProofs

\* No thread nests so many takes that the 8-bit mutex->hold wraps.
NestBounded == MaxNest < HoldMod

-----------------------------------------------------------------------------
(* The inductive invariant.                                                *)

Waiting == {"take_sched", "take_woken"}

InCall == Waiting \union {"det_test", "det_wake", "det_object"}

\* The processor is never left without a thread to run: the idle thread is
\* always runnable, and a current thread that has suspended itself is on its
\* way to rt_schedule.
Runnable ==
    /\ k.lock = 0
    /\ k.stat[Idle] \in {"ready", "running"}
    /\ \/ k.stat[k.cur] = "running"
       \/ k.stat[k.cur] = "suspend" /\ pc[k.cur] \in {"take_sched", "sleep_sched"}

\* A thread is on a suspend list exactly while it waits inside rt_mutex_take
\* for that mutex: its error code is untouched until it leaves the list, and
\* once off the list it is runnable.
Enlisted ==
    /\ \A t \in Threads : pc[t] \in InCall => arg[t] \in Objects
    /\ \A m \in Objects : \A t \in ToSet(k.wait[m]) :
          pc[t] \in Waiting /\ arg[t] = m /\ k.err[t] = "EOK"
    /\ \A t \in Threads :
          pc[t] \in Waiting /\ t \notin ToSet(k.wait[arg[t]]) =>
              k.stat[t] \in {"ready", "running"}

\* MutualExclusion and WaitersBlocked for one mutex; moreover, an owner has a
\* priority to go back to and at least one hold.
MutexOK(m) ==
    /\ mutex[m].owner = None <=> mutex[m].value = 1
    /\ mutex[m].value = 1 => mutex[m].hold = 0
    /\ mutex[m].owner # None => mutex[m].orig \in Prio /\ mutex[m].hold >= 1
    /\ \A t \in Threads :
          Granted(t, m) = IF mutex[m].owner = t THEN mutex[m].hold ELSE 0
    /\ \A t \in ToSet(k.wait[m]) : mutex[m].owner # None /\ mutex[m].owner # t

IInv ==
    /\ TypeOK
    /\ KernelOK(k)
    /\ Runnable
    /\ Enlisted
    /\ \A m \in Objects : MutexOK(m)

-----------------------------------------------------------------------------
\* Priority inheritance moves the owner between ready queues only.
LEMMA BoostOK ==
    ASSUME NEW ks, NEW t \in Threads, NEW o \in Threads, KernelOK(ks)
    PROVE  LET b == Inherit([ks EXCEPT !.err[t] = "EOK"], o, t) IN
           /\ KernelOK(b)
           /\ b.stat = ks.stat /\ b.cur = ks.cur /\ b.lock = ks.lock
           /\ b.err[t] = "EOK"
           /\ \A x \in Threads : x # t => b.err[x] = ks.err[x]
           /\ \A w \in WaitLists : b.wait[w] = ks.wait[w]
<1>. DEFINE e == [ks EXCEPT !.err[t] = "EOK"]
            b == Inherit(e, o, t)
<1>1. /\ Quiet(ks, e, t) /\ e.err[t] = "EOK" /\ e.stat = ks.stat /\ e.cur = ks.cur
      /\ e.wait = ks.wait
  <2>1. "EOK" \in Errno
    BY DEF Errno
  <2>. QED BY <2>1, QuietError
<1>. HIDE DEF e
<1>2. KernelOK(e) /\ e.prio[t] \in Prio
  BY <1>1 DEF Quiet, KernelOK, QueueOK, KernelState
<1>3. b = e \/ Requeued(e, b, o, e.prio[t])
  <2>1. Requeued(e, ChangePriority(e, o, e.prio[t]), o, e.prio[t])
    BY <1>2, ChangePriorityOK
  <2>. QED BY <2>1 DEF Inherit
<1>. HIDE DEF b
<1>4. /\ KernelOK(b)
      /\ b.stat = ks.stat /\ b.cur = ks.cur /\ b.lock = ks.lock
      /\ b.err[t] = "EOK"
      /\ \A x \in Threads : x # t => b.err[x] = ks.err[x]
      /\ \A w \in WaitLists : b.wait[w] = ks.wait[w]
  BY <1>1, <1>2, <1>3 DEF Quiet, Requeued
<1>. QED BY <1>4 DEF b, e


-----------------------------------------------------------------------------
(* What these calls leave of the invariant.                                *)

\* A current thread that is not on its way to rt_schedule is running, and so
\* on no suspend list.
LEMMA CurrentRuns ==
    ASSUME IInv, pc[k.cur] \notin {"take_sched", "sleep_sched"}
    PROVE  /\ k.stat[k.cur] = "running"
           /\ \A m \in Objects : k.cur \notin ToSet(k.wait[m])
<1>1. k.stat[k.cur] = "running"
  BY DEF IInv, Runnable
<1>2. \A m \in Objects : k.cur \notin ToSet(k.wait[m])
  BY <1>1, MutexAssumption DEF IInv, KernelOK, QueueOK, WaitOK
<1>. QED BY <1>1, <1>2

\* Thread c takes a step that suspends and wakes nobody.
LEMMA QuietKeeps ==
    ASSUME IInv, NEW c \in Threads, Quiet(k, k', c),
           \A x \in Threads : x # c => pc'[x] = pc[x] /\ arg'[x] = arg[x],
           pc'[c] \in InCall => arg'[c] \in Objects,
           pc'[c] \in Waiting => pc[c] \in Waiting /\ arg'[c] = arg[c],
           \/ \A m \in Objects : c \notin ToSet(k.wait[m])
           \/ pc'[c] \in Waiting /\ arg'[c] = arg[c] /\ k'.err[c] = k.err[c],
           k'.stat[k'.cur] = "running" \/ pc' = pc
    PROVE  /\ Runnable' /\ Enlisted'
           /\ \A m \in Objects : ToSet(k'.wait[m]) = ToSet(k.wait[m])
           /\ \A x \in Threads, m \in Objects : x # c => (Handed(x, m)' <=> Handed(x, m))
<1>1. /\ KernelOK(k') /\ k'.lock = k.lock
      /\ \A m \in Objects : ToSet(k'.wait[m]) = ToSet(k.wait[m])
      /\ \A x \in Threads : \/ k'.stat[x] = k.stat[x]
                            \/ /\ k.stat[x] \in {"ready", "running"}
                               /\ k'.stat[x] \in {"ready", "running"}
      /\ \A x \in Threads : x # c => k'.err[x] = k.err[x]
      /\ \/ k'.stat[k'.cur] = "running"
         \/ k'.cur = k.cur /\ k'.stat[k'.cur] = k.stat[k.cur]
  BY MutexAssumption DEF Quiet
<1>2. Runnable'
  <2>1. k'.lock = 0 /\ k'.stat[Idle] \in {"ready", "running"}
    BY <1>1, KernelAssumption DEF IInv, Runnable
  <2>. QED BY <1>1, <2>1 DEF IInv, Runnable
<1>3. ASSUME NEW x \in Threads, pc'[x] \in InCall
      PROVE  arg'[x] \in Objects
  BY <1>3 DEF IInv, Enlisted
<1>4. ASSUME NEW m \in Objects, NEW x \in ToSet(k'.wait[m])
      PROVE  pc'[x] \in Waiting /\ arg'[x] = m /\ k'.err[x] = "EOK"
  <2>1. x \in ToSet(k.wait[m]) /\ x \in Threads
    BY <1>1, <1>4, WaitersAreThreads, MutexAssumption
  <2>2. pc[x] \in Waiting /\ arg[x] = m /\ k.err[x] = "EOK"
    BY <2>1 DEF IInv, Enlisted
  <2>. QED BY <1>1, <2>1, <2>2
<1>5. ASSUME NEW x \in Threads, pc'[x] \in Waiting, x \notin ToSet(k'.wait[arg'[x]])
      PROVE  k'.stat[x] \in {"ready", "running"}
  <2>1. pc[x] \in Waiting /\ arg'[x] = arg[x]
    BY <1>5
  <2>2. arg[x] \in Objects
    BY <2>1 DEF IInv, Enlisted, InCall
  <2>3. x \notin ToSet(k.wait[arg[x]])
    BY <1>1, <1>5, <2>1, <2>2
  <2>4. k.stat[x] \in {"ready", "running"}
    BY <2>1, <2>3 DEF IInv, Enlisted
  <2>. QED BY <1>1, <2>4
<1>6. Enlisted'
  BY <1>3, <1>4, <1>5 DEF Enlisted
<1>7. \A x \in Threads, m \in Objects : x # c => (Handed(x, m)' <=> Handed(x, m))
  BY <1>1 DEF Handed
<1>. QED BY <1>1, <1>2, <1>6, <1>7

\* A waiter is woken, while the current thread goes on.
LEMMA WakesKeeps ==
    ASSUME IInv, NEW t \in Threads, Wakes(k, k', t),
           NEW c \in Threads, c = k.cur,
           \A x \in Threads : x # c => pc'[x] = pc[x] /\ arg'[x] = arg[x],
           arg'[c] = arg[c],
           \/ pc'[c] = pc[c]
           \/ k.stat[c] = "running" /\ t # c /\ pc'[c] \notin Waiting,
           pc'[c] \in InCall => arg'[c] \in Objects
    PROVE  /\ Runnable' /\ Enlisted'
           /\ \A m \in Objects : ToSet(k'.wait[m]) = ToSet(k.wait[m]) \ {t}
           /\ \A x \in Threads \ {t, c}, m \in Objects : Handed(x, m)' <=> Handed(x, m)
<1>1. /\ KernelOK(k') /\ k'.lock = k.lock /\ k'.cur = k.cur
      /\ \A m \in Objects : ToSet(k'.wait[m]) = ToSet(k.wait[m]) \ {t}
      /\ k'.stat[t] \in {"ready", "running"}
      /\ \A x \in Threads : x # t => k'.stat[x] = k.stat[x] /\ k'.err[x] = k.err[x]
  BY MutexAssumption DEF Wakes
<1>2. Runnable'
  <2>1. k'.lock = 0 /\ k'.stat[Idle] \in {"ready", "running"}
    BY <1>1, KernelAssumption DEF IInv, Runnable
  <2>2. CASE t = c
    <3>1. k'.stat[k'.cur] = "running"
      BY <1>1, <2>2 DEF KernelOK, CurOK
    <3>. QED BY <2>1, <3>1 DEF Runnable
  <2>3. CASE t # c
    BY <1>1, <2>1, <2>3 DEF IInv, Runnable
  <2>. QED BY <2>2, <2>3
<1>3. ASSUME NEW x \in Threads, pc'[x] \in InCall
      PROVE  arg'[x] \in Objects
  BY <1>3 DEF IInv, Enlisted
<1>4. ASSUME NEW m \in Objects, NEW x \in ToSet(k'.wait[m])
      PROVE  pc'[x] \in Waiting /\ arg'[x] = m /\ k'.err[x] = "EOK"
  <2>1. x \in ToSet(k.wait[m]) /\ x # t
    BY <1>1, <1>4
  <2>2. x \in Threads
    BY <1>1, <1>4, WaitersAreThreads, MutexAssumption
  <2>3. pc[x] \in Waiting /\ arg[x] = m /\ k.err[x] = "EOK"
    BY <2>1 DEF IInv, Enlisted
  <2>4. k.stat[x] = "suspend"
    BY <2>1, MutexAssumption DEF IInv, KernelOK, QueueOK, WaitOK
  <2>. QED BY <1>1, <2>1, <2>2, <2>3, <2>4
<1>5. ASSUME NEW x \in Threads, pc'[x] \in Waiting, x \notin ToSet(k'.wait[arg'[x]])
      PROVE  k'.stat[x] \in {"ready", "running"}
  <2>1. CASE x = t
    BY <1>1, <2>1
  <2>2. CASE x # t
    <3>1. pc[x] \in Waiting /\ arg'[x] = arg[x]
      BY <1>5
    <3>2. arg[x] \in Objects
      BY <3>1 DEF IInv, Enlisted, InCall
    <3>3. x \notin ToSet(k.wait[arg[x]])
      BY <1>1, <1>5, <2>2, <3>1, <3>2
    <3>4. k.stat[x] \in {"ready", "running"}
      BY <3>1, <3>3 DEF IInv, Enlisted
    <3>. QED BY <1>1, <2>2, <3>4
  <2>. QED BY <2>1, <2>2
<1>6. Enlisted'
  BY <1>3, <1>4, <1>5 DEF Enlisted
<1>7. \A x \in Threads \ {t, c}, m \in Objects : Handed(x, m)' <=> Handed(x, m)
  BY <1>1 DEF Handed
<1>. QED BY <1>1, <1>2, <1>6, <1>7


\* The current thread suspends itself, in rt_thread_sleep or, with a place on
\* a suspend list, in rt_mutex_take.
LEMMA BlocksKeeps ==
    ASSUME IInv, NEW t \in Users, t = k.cur, Suspends(k, k', t), pc[t] = "run",
           pc'[t] \in {"take_sched", "sleep_sched"},
           \A x \in Threads : x # t => pc'[x] = pc[x] /\ arg'[x] = arg[x],
           pc'[t] = "take_sched" => arg'[t] \in Objects /\ k'.err[t] = "EOK",
           \A v \in Objects : ToSet(k'.wait[v]) = ToSet(k.wait[v]) \union
              (IF pc'[t] = "take_sched" /\ v = arg'[t] THEN {t} ELSE {})
    PROVE  /\ Runnable' /\ Enlisted'
           /\ \A x \in Threads, m \in Objects : Handed(x, m)' <=> Handed(x, m)
<1>1. /\ KernelOK(k') /\ k'.lock = k.lock /\ k'.cur = k.cur
      /\ k'.stat[t] = "suspend"
      /\ \A x \in Threads : x # t => k'.stat[x] = k.stat[x] /\ k'.err[x] = k.err[x]
  BY DEF Suspends
<1>2. t \in Threads /\ t # Idle
  BY IpcAssumption
<1>3. \A m \in Objects : t \notin ToSet(k.wait[m])
  BY CurrentRuns
<1>4. Runnable'
  <2>1. k'.lock = 0 /\ k'.stat[Idle] \in {"ready", "running"}
    BY <1>1, <1>2, KernelAssumption DEF IInv, Runnable
  <2>. QED BY <1>1, <2>1 DEF Runnable
<1>5. ASSUME NEW x \in Threads, pc'[x] \in InCall
      PROVE  arg'[x] \in Objects
  BY <1>5 DEF IInv, Enlisted, InCall, Waiting
<1>6. ASSUME NEW m \in Objects, NEW x \in ToSet(k'.wait[m])
      PROVE  pc'[x] \in Waiting /\ arg'[x] = m /\ k'.err[x] = "EOK"
  <2>1. CASE x = t
    <3>1. pc'[t] = "take_sched" /\ m = arg'[t]
      BY <1>3, <1>6, <2>1
    <3>. QED BY <2>1, <3>1 DEF Waiting
  <2>2. CASE x # t
    <3>1. x \in ToSet(k.wait[m])
      BY <1>6, <2>2
    <3>2. x \in Threads
      BY <1>1, <1>6, WaitersAreThreads, MutexAssumption
    <3>3. pc[x] \in Waiting /\ arg[x] = m /\ k.err[x] = "EOK"
      BY <3>1 DEF IInv, Enlisted
    <3>. QED BY <1>1, <2>2, <3>2, <3>3
  <2>. QED BY <2>1, <2>2
<1>7. ASSUME NEW x \in Threads, pc'[x] \in Waiting, x \notin ToSet(k'.wait[arg'[x]])
      PROVE  k'.stat[x] \in {"ready", "running"}
  <2>1. x # t
    BY <1>7 DEF Waiting
  <2>2. pc[x] \in Waiting /\ arg'[x] = arg[x]
    BY <1>7, <2>1
  <2>3. arg[x] \in Objects
    BY <2>2 DEF IInv, Enlisted, InCall
  <2>4. x \notin ToSet(k.wait[arg[x]])
    BY <1>7, <2>2, <2>3
  <2>5. k.stat[x] \in {"ready", "running"}
    BY <2>2, <2>4 DEF IInv, Enlisted
  <2>. QED BY <1>1, <2>1, <2>5
<1>8. Enlisted'
  BY <1>5, <1>6, <1>7 DEF Enlisted
<1>9. ASSUME NEW x \in Threads, NEW m \in Objects
      PROVE  Handed(x, m)' <=> Handed(x, m)
  <2>1. CASE x = t
    <3>1. ~Handed(t, m)
      BY DEF Handed
    <3>2. ~Handed(t, m)'
      BY DEF Handed
    <3>. QED BY <2>1, <3>1, <3>2
  <2>2. CASE x # t
    <3>1. x \in ToSet(k'.wait[m]) <=> x \in ToSet(k.wait[m])
      BY <2>2
    <3>. QED BY <1>1, <2>2, <3>1 DEF Handed
  <2>. QED BY <2>1, <2>2
<1>. QED BY <1>4, <1>8, <1>9

\* A step that does not concern mutex m.
LEMMA MutexFrame ==
    ASSUME NEW m \in Objects, MutexOK(m), mutex'[m] = mutex[m],
           \A x \in Threads : /\ held'[x][m] = held[x][m]
                              /\ Handed(x, m)' <=> Handed(x, m),
           ToSet(k'.wait[m]) \subseteq ToSet(k.wait[m])
    PROVE  MutexOK(m)'
<1>1. \A x \in Threads : Granted(x, m)' = Granted(x, m)
  BY DEF Granted
<1>. QED BY <1>1 DEF MutexOK


\* The current thread takes a step that concerns neither a suspend list nor a
\* mutex.
LEMMA LocalKeeps ==
    ASSUME IInv, NEW c \in Threads, NEW p \in Places, Quiet(k, k', c),
           pc' = [pc EXCEPT ![c] = p],
           arg' \in [Threads -> Objects \union {None}],
           \A x \in Threads : x # c => arg'[x] = arg[x],
           alive' \subseteq Objects, isr' \in {"none", "tick", "timeout"},
           mutex' = mutex, held' = held,
           p \in InCall => arg'[c] \in Objects,
           p \in Waiting => pc[c] \in Waiting /\ arg'[c] = arg[c] /\ k'.err[c] = k.err[c],
           pc[c] \in Waiting => p \in Waiting,
           k'.stat[k'.cur] = "running" \/ pc' = pc
    PROVE  IInv'
<1>1. pc \in [Threads -> Places]
  BY DEF IInv, TypeOK
<1>2. pc'[c] = p /\ \A x \in Threads : x # c => pc'[x] = pc[x]
  BY <1>1
<1>3. \/ \A m \in Objects : c \notin ToSet(k.wait[m])
      \/ pc'[c] \in Waiting /\ arg'[c] = arg[c] /\ k'.err[c] = k.err[c]
  BY <1>2 DEF IInv, Enlisted
<1>4. /\ Runnable' /\ Enlisted'
      /\ \A m \in Objects : ToSet(k'.wait[m]) = ToSet(k.wait[m])
      /\ \A x \in Threads, m \in Objects : x # c => (Handed(x, m)' <=> Handed(x, m))
  <2>1. pc'[c] \in InCall => arg'[c] \in Objects
    BY <1>2
  <2>2. pc'[c] \in Waiting => pc[c] \in Waiting /\ arg'[c] = arg[c]
    BY <1>2
  <2>. QED BY <1>2, <1>3, <2>1, <2>2, QuietKeeps
<1>5. \A m \in Objects : Handed(c, m)' <=> Handed(c, m)
  BY <1>2, <1>4 DEF Handed, Waiting
<1>6. ASSUME NEW m \in Objects
      PROVE  MutexOK(m)'
  <2>1. MutexOK(m) /\ mutex'[m] = mutex[m]
    BY DEF IInv
  <2>2. \A x \in Threads : held'[x][m] = held[x][m] /\ (Handed(x, m)' <=> Handed(x, m))
    BY <1>4, <1>5
  <2>. QED BY <1>4, <2>1, <2>2, MutexFrame
<1>7. KernelOK(k') /\ k' \in KernelState
  BY DEF Quiet, KernelOK, QueueOK
<1>8. TypeOK'
  BY <1>1, <1>7 DEF IInv, TypeOK
<1>. QED BY <1>4, <1>6, <1>7, <1>8 DEF IInv

\* A step of the tick interrupt outside rt_thread_timeout.
LEMMA TickKeeps ==
    ASSUME IInv, k' = k \/ k' = rt_schedule(k), Outside,
           isr' \in {"none", "tick", "timeout"}
    PROVE  IInv'
<1>. DEFINE c == k.cur
<1>1. /\ c \in Threads /\ KernelOK(k) /\ pc \in [Threads -> Places]
      /\ arg \in [Threads -> Objects \union {None}] /\ alive \subseteq Objects
  BY DEF IInv, TypeOK, KernelState
<1>2. k.lock = 0 /\ k.stat[Idle] \in {"ready", "running"}
  BY DEF IInv, Runnable
<1>3. Quiet(k, k', c) /\ k'.err = k.err
  <2>1. CASE k' = k
    BY <1>1, <2>1, QuietSame
  <2>2. CASE k' = rt_schedule(k)
    BY <1>1, <1>2, <2>2, QuietSchedule
  <2>. QED BY <2>1, <2>2
<1>4. pc' = pc /\ arg' = arg /\ alive' = alive /\ mutex' = mutex /\ held' = held
  BY DEF Outside
<1>5. pc' = [pc EXCEPT ![c] = pc[c]] /\ pc[c] \in Places
  BY <1>1, <1>4
<1>6. pc[c] \in InCall => arg'[c] \in Objects
  BY <1>1, <1>4 DEF IInv, Enlisted
<1>. HIDE DEF c
<1>. QED BY <1>1, <1>3, <1>4, <1>5, <1>6, LocalKeeps

\* rt_thread_timeout of a sleeping or waiting thread.
LEMMA ExpireKeeps ==
    ASSUME IInv, NEW t \in Threads, TickExpire(t), Outside
    PROVE  IInv'
<1>1. /\ KernelOK(k) /\ k.cur \in Threads /\ k.stat[t] = "suspend"
      /\ k' = rt_thread_timeout(k, t) /\ isr' = "timeout"
  BY DEF IInv, TypeOK, TickExpire, KernelOK, QueueOK, TimersOK, KernelState
<1>2. Wakes(k, k', t) /\ k'.err[t] = "ETIMEOUT"
  BY <1>1, WakesTimeout
<1>3. pc' = pc /\ arg' = arg /\ alive' = alive /\ mutex' = mutex /\ held' = held
  BY DEF Outside
<1>4. pc[k.cur] \in InCall => arg'[k.cur] \in Objects
  BY <1>1, <1>3 DEF IInv, Enlisted
<1>5. /\ Runnable' /\ Enlisted'
      /\ \A m \in Objects : ToSet(k'.wait[m]) = ToSet(k.wait[m]) \ {t}
      /\ \A x \in Threads \ {t, k.cur}, m \in Objects : Handed(x, m)' <=> Handed(x, m)
  BY <1>1, <1>2, <1>3, <1>4, WakesKeeps
<1>6. ASSUME NEW m \in Objects, NEW x \in Threads
      PROVE  Handed(x, m)' <=> Handed(x, m)
  <2>1. CASE x = t
    <3>1. ~Handed(x, m)'
      BY <1>2, <2>1 DEF Handed
    <3>2. ~Handed(x, m)
      BY <1>1, <2>1 DEF Handed, IInv, Enlisted, Waiting
    <3>. QED BY <3>1, <3>2
  <2>2. CASE x # t
    <3>1. k'.err[x] = k.err[x]
      BY <1>2, <2>2 DEF Wakes
    <3>2. x \in ToSet(k'.wait[m]) <=> x \in ToSet(k.wait[m])
      BY <1>5, <2>2
    <3>. QED BY <1>3, <3>1, <3>2 DEF Handed
  <2>. QED BY <2>1, <2>2
<1>7. ASSUME NEW m \in Objects
      PROVE  MutexOK(m)'
  <2>1. MutexOK(m) /\ mutex'[m] = mutex[m]
    BY <1>3 DEF IInv
  <2>2. \A x \in Threads : held'[x][m] = held[x][m] /\ (Handed(x, m)' <=> Handed(x, m))
    BY <1>3, <1>6
  <2>3. ToSet(k'.wait[m]) \subseteq ToSet(k.wait[m])
    BY <1>5
  <2>. QED BY <2>1, <2>2, <2>3, MutexFrame
<1>8. KernelOK(k') /\ k' \in KernelState
  BY <1>2 DEF Wakes, KernelOK, QueueOK
<1>9. TypeOK'
  BY <1>1, <1>3, <1>8 DEF IInv, TypeOK
<1>. QED BY <1>5, <1>7, <1>8, <1>9 DEF IInv


-----------------------------------------------------------------------------
(* The steps of a thread inside the kernel.                                *)

LEMMA ReschedKeeps ==
    ASSUME IInv, NEW t \in Threads, UNCHANGED <<mutex, held>>,
           \/ Resched(t, "take_sched", "take_woken")
           \/ Resched(t, "rel_sched", "run")
           \/ Resched(t, "sleep_sched", "slept")
    PROVE  IInv'
<1>1. PICK p \in Places : /\ pc' = [pc EXCEPT ![t] = p]
                          /\ p \in {"take_woken", "run", "slept"}
                          /\ p \in Waiting <=> pc[t] \in Waiting
  BY DEF Resched, At, Go, Places, Waiting
<1>2. /\ k.cur = t /\ k' = rt_schedule(k)
      /\ isr' = isr /\ arg' = arg /\ alive' = alive /\ mutex' = mutex /\ held' = held
  BY DEF Resched, At
<1>3. /\ KernelOK(k) /\ k.lock = 0 /\ k.stat[Idle] \in {"ready", "running"}
      /\ arg \in [Threads -> Objects \union {None}] /\ alive \subseteq Objects
      /\ isr \in {"none", "tick", "timeout"}
  BY DEF IInv, TypeOK, Runnable
<1>4. Quiet(k, k', t) /\ k'.stat[k'.cur] = "running" /\ k'.err = k.err
  BY <1>2, <1>3, QuietSchedule
<1>5. p \in InCall => arg'[t] \in Objects
  BY <1>1, <1>2 DEF IInv, Enlisted, InCall, Waiting
<1>. QED BY <1>1, <1>2, <1>3, <1>4, <1>5, LocalKeeps

\* A step of a thread outside rt_mutex_take that changes at most its own error
\* code and its place.
LEMMA PlaceKeeps ==
    ASSUME IInv, NEW t \in Threads, NEW p \in Places, k.cur = t,
           pc[t] \notin {"take_sched", "take_woken", "sleep_sched"},
           p \notin Waiting, pc' = [pc EXCEPT ![t] = p],
           arg' \in [Threads -> Objects \union {None}],
           \A x \in Threads : x # t => arg'[x] = arg[x],
           p \in InCall => arg'[t] \in Objects,
           k' = k \/ \E e \in Errno : k' = [k EXCEPT !.err[t] = e],
           alive' \subseteq Objects, isr' = isr, mutex' = mutex, held' = held
    PROVE  IInv'
<1>1. KernelOK(k) /\ isr' \in {"none", "tick", "timeout"} /\ pc[t] \notin Waiting
  BY DEF IInv, TypeOK, Waiting
<1>2. k.stat[k.cur] = "running"
  BY CurrentRuns
<1>3. Quiet(k, k', t) /\ k'.stat[k'.cur] = "running"
  <2>1. CASE k' = k
    BY <1>1, <1>2, <2>1, QuietSame
  <2>2. ASSUME NEW e \in Errno, k' = [k EXCEPT !.err[t] = e]
        PROVE  Quiet(k, k', t) /\ k'.stat[k'.cur] = "running"
    <3>1. Quiet(k, k', t) /\ k'.stat = k.stat /\ k'.cur = k.cur
      BY <1>1, <2>2, QuietError, SMTT(30)
    <3>. QED BY <1>2, <3>1
  <2>. QED BY <2>1, <2>2
<1>. QED BY <1>1, <1>3, LocalKeeps

\* rt_ipc_list_resume_all: the test of the loop.
LEMMA DetachTestKeeps ==
    ASSUME IInv, NEW t \in Threads, UNCHANGED <<mutex, held>>,
           ResumeAllTest(t, arg[t], "det_test", "det_wake", "det_object")
    PROVE  IInv'
<1>1. PICK p \in {"det_wake", "det_object"} : pc' = [pc EXCEPT ![t] = p]
  BY DEF ResumeAllTest, Go
<1>2. /\ k.cur = t /\ pc[t] = "det_test" /\ k' = k /\ isr' = isr /\ arg' = arg
      /\ alive' = alive /\ mutex' = mutex /\ held' = held
  BY DEF ResumeAllTest, At
<1>3. /\ p \in Places /\ p \notin Waiting
      /\ arg \in [Threads -> Objects \union {None}] /\ alive \subseteq Objects
      /\ arg[t] \in Objects
  BY <1>2 DEF Places, Waiting, InCall, IInv, TypeOK, Enlisted
<1>. QED BY <1>1, <1>2, <1>3, PlaceKeeps

\* rt_object_detach.
LEMMA DetachObjectKeeps ==
    ASSUME IInv, NEW t \in Threads, UNCHANGED <<mutex, held>>, DetachObject(t)
    PROVE  IInv'
<1>1. /\ pc' = [pc EXCEPT ![t] = "run"] /\ arg' = [arg EXCEPT ![t] = None]
      /\ k.cur = t /\ pc[t] = "det_object" /\ k' = k /\ isr' = isr
      /\ alive' \subseteq alive /\ mutex' = mutex /\ held' = held
  BY DEF DetachObject, At, Return, Go
<1>2. arg \in [Threads -> Objects \union {None}] /\ alive \subseteq Objects
  BY DEF IInv, TypeOK
<1>3. /\ arg' \in [Threads -> Objects \union {None}] /\ alive' \subseteq Objects
      /\ \A x \in Threads : x # t => arg'[x] = arg[x]
  BY <1>1, <1>2
<1>4. "run" \in Places /\ "run" \notin Waiting /\ "run" \notin InCall
  BY DEF Places, Waiting, InCall
<1>. QED BY <1>1, <1>3, <1>4, PlaceKeeps

LEMMA SleepReturnKeeps ==
    ASSUME IInv, NEW t \in Threads, UNCHANGED <<mutex, held>>, SleepReturn(t)
    PROVE  IInv'
<1>1. /\ pc' = [pc EXCEPT ![t] = "run"] /\ arg' = arg /\ k.cur = t /\ pc[t] = "slept"
      /\ isr' = isr /\ alive' = alive /\ mutex' = mutex /\ held' = held
      /\ k' = k \/ k' = [k EXCEPT !.err[t] = "EOK"]
  BY DEF SleepReturn, At, Go, ResetError
<1>2. arg \in [Threads -> Objects \union {None}] /\ alive \subseteq Objects
  BY DEF IInv, TypeOK
<1>3. "run" \in Places /\ "run" \notin Waiting /\ "run" \notin InCall /\ "EOK" \in Errno
  BY DEF Places, Waiting, InCall, Errno
<1>4. k' = k \/ \E e \in Errno : k' = [k EXCEPT !.err[t] = e]
  BY <1>1, <1>3
<1>. QED BY <1>1, <1>2, <1>3, <1>4, PlaceKeeps


\* rt_ipc_list_resume_all: a turn of the loop on a list that has become empty.
LEMMA DetachMissKeeps ==
    ASSUME IInv, NEW t \in Threads, UNCHANGED <<mutex, held>>, k.wait[arg[t]] = <<>>,
           ResumeAllWake(t, arg[t], "det_wake", "det_test")
    PROVE  IInv'
<1>1. /\ pc' = [pc EXCEPT ![t] = "det_test"] /\ k.cur = t /\ pc[t] = "det_wake"
      /\ k' = k /\ isr' = isr /\ arg' = arg /\ alive' = alive /\ mutex' = mutex /\ held' = held
  BY DEF ResumeAllWake, At, Go
<1>2. /\ "det_test" \in Places /\ "det_test" \notin Waiting
      /\ arg \in [Threads -> Objects \union {None}] /\ alive \subseteq Objects
      /\ arg[t] \in Objects
  BY <1>1 DEF Places, Waiting, InCall, IInv, TypeOK, Enlisted
<1>. QED BY <1>1, <1>2, PlaceKeeps

\* rt_ipc_list_resume_all: one turn of the loop.
LEMMA DetachWakeKeeps ==
    ASSUME IInv, NEW t \in Threads, UNCHANGED <<mutex, held>>, k.wait[arg[t]] # <<>>,
           ResumeAllWake(t, arg[t], "det_wake", "det_test")
    PROVE  IInv'
<1>1. /\ pc' = [pc EXCEPT ![t] = "det_test"] /\ k.cur = t /\ pc[t] = "det_wake"
      /\ k.wait[arg[t]] # <<>> /\ k' = ResumeWithError(k, arg[t])
      /\ isr' = isr /\ arg' = arg /\ alive' = alive /\ mutex' = mutex /\ held' = held
  BY DEF ResumeAllWake, At, Go
<1>2. /\ KernelOK(k) /\ pc \in [Threads -> Places] /\ arg[t] \in Objects
      /\ arg \in [Threads -> Objects \union {None}] /\ alive \subseteq Objects
  BY <1>1 DEF IInv, TypeOK, Enlisted, InCall
<1>3. PICK u \in Threads : /\ u \in ToSet(k.wait[arg[t]]) /\ Wakes(k, k', u)
                           /\ k'.err[u] = "ERROR"
  BY <1>1, <1>2, WakesError, MutexAssumption
<1>4. k.stat[t] = "running" /\ u # t /\ arg[u] = arg[t]
  BY <1>1, <1>2, <1>3, CurrentRuns DEF IInv, Enlisted
<1>5. pc'[t] = "det_test" /\ \A x \in Threads : x # t => pc'[x] = pc[x]
  BY <1>1, <1>2
<1>6. /\ Runnable' /\ Enlisted'
      /\ \A m \in Objects : ToSet(k'.wait[m]) = ToSet(k.wait[m]) \ {u}
      /\ \A x \in Threads \ {u, t}, m \in Objects : Handed(x, m)' <=> Handed(x, m)
  <2>1. pc'[t] \notin Waiting
    BY <1>5 DEF Waiting
  <2>. QED BY <1>1, <1>2, <1>3, <1>4, <1>5, <2>1, WakesKeeps
<1>7. ASSUME NEW m \in Objects, NEW x \in Threads
      PROVE  Handed(x, m)' <=> Handed(x, m)
  <2>1. CASE x = u
    <3>1. ~Handed(x, m)'
      BY <1>3, <2>1 DEF Handed
    <3>2. ~Handed(x, m)
      BY <1>3, <1>4, <2>1 DEF Handed
    <3>. QED BY <3>1, <3>2
  <2>2. CASE x = t
    <3>1. ~Handed(x, m)'
      BY <1>5, <2>2 DEF Handed
    <3>2. ~Handed(x, m)
      BY <1>1, <2>2 DEF Handed
    <3>. QED BY <3>1, <3>2
  <2>3. CASE x # u /\ x # t
    BY <1>6, <2>3
  <2>. QED BY <2>1, <2>2, <2>3
<1>8. ASSUME NEW m \in Objects
      PROVE  MutexOK(m)'
  <2>1. MutexOK(m) /\ mutex'[m] = mutex[m]
    BY <1>1 DEF IInv
  <2>2. \A x \in Threads : held'[x][m] = held[x][m] /\ (Handed(x, m)' <=> Handed(x, m))
    BY <1>1, <1>7
  <2>3. ToSet(k'.wait[m]) \subseteq ToSet(k.wait[m])
    BY <1>6
  <2>. QED BY <2>1, <2>2, <2>3, MutexFrame
<1>9. KernelOK(k') /\ k' \in KernelState
  BY <1>3 DEF Wakes, KernelOK, QueueOK
<1>10. TypeOK'
  <2>1. "det_test" \in Places
    BY DEF Places
  <2>. QED BY <1>1, <1>2, <1>9, <2>1 DEF IInv, TypeOK
<1>. QED BY <1>6, <1>8, <1>9, <1>10 DEF IInv

\* rt_mutex_take returns after a wait: a mutex that was handed over is counted
\* as held from now on.
LEMMA TakeReturnKeeps ==
    ASSUME IInv, NEW t \in Threads, TakeReturn(t)
    PROVE  IInv'
<1>1. /\ pc' = [pc EXCEPT ![t] = "run"] /\ arg' = [arg EXCEPT ![t] = None]
      /\ k.cur = t /\ pc[t] = "take_woken" /\ k' = k /\ isr' = isr
      /\ alive' = alive /\ mutex' = mutex
      /\ held' = IF k.err[t] = "EOK" THEN [held EXCEPT ![t][arg[t]] = @ + 1] ELSE held
  BY DEF TakeReturn, At, Return, Go
<1>2. /\ KernelOK(k) /\ k \in KernelState /\ pc \in [Threads -> Places]
      /\ arg \in [Threads -> Objects \union {None}] /\ alive \subseteq Objects
      /\ held \in [Threads -> [Objects -> Nat]] /\ arg[t] \in Objects
  BY <1>1 DEF IInv, TypeOK, Enlisted, InCall, Waiting
<1>3. k.stat[k.cur] = "running" /\ \A m \in Objects : t \notin ToSet(k.wait[m])
  BY <1>1, CurrentRuns
<1>4. /\ pc'[t] = "run" /\ \A x \in Threads : x # t => pc'[x] = pc[x] /\ arg'[x] = arg[x]
  BY <1>1, <1>2
<1>5. /\ Runnable' /\ Enlisted'
      /\ \A m \in Objects : ToSet(k'.wait[m]) = ToSet(k.wait[m])
      /\ \A x \in Threads, m \in Objects : x # t => (Handed(x, m)' <=> Handed(x, m))
  <2>1. Quiet(k, k', t)
    BY <1>1, <1>2, QuietSame
  <2>2. pc'[t] \notin InCall /\ pc'[t] \notin Waiting
    BY <1>4 DEF InCall, Waiting
  <2>. QED BY <1>1, <1>3, <1>4, <2>1, <2>2, QuietKeeps
<1>6. held' \in [Threads -> [Objects -> Nat]]
  BY <1>1, <1>2
<1>7. ASSUME NEW m \in Objects, NEW x \in Threads
      PROVE  Granted(x, m)' = Granted(x, m)
  <2>1. CASE x = t
    <3>1. ~Handed(x, m)'
      BY <1>4, <2>1 DEF Handed
    <3>2. Handed(x, m) <=> arg[t] = m /\ k.err[t] = "EOK"
      BY <1>1, <1>3, <2>1 DEF Handed
    <3>3. held'[t][m] = held[t][m] + (IF arg[t] = m /\ k.err[t] = "EOK" THEN 1 ELSE 0)
      BY <1>1, <1>2
    <3>. QED BY <1>2, <2>1, <3>1, <3>2, <3>3 DEF Granted
  <2>2. CASE x # t
    <3>1. held'[x][m] = held[x][m]
      BY <1>1, <1>2, <2>2
    <3>. QED BY <1>5, <2>2, <3>1 DEF Granted
  <2>. QED BY <2>1, <2>2
<1>8. \A m \in Objects : MutexOK(m)'
  BY <1>1, <1>5, <1>7 DEF IInv, MutexOK
<1>9. TypeOK'
  <2>1. "run" \in Places
    BY DEF Places
  <2>. QED BY <1>1, <1>2, <1>6, <2>1 DEF IInv, TypeOK
<1>. QED BY <1>1, <1>2, <1>5, <1>8, <1>9 DEF IInv


-----------------------------------------------------------------------------
(* The calls of an application thread.                                     *)

LEMMA ModSmall ==
    ASSUME NEW a \in Nat, NEW n \in Nat, a < n
    PROVE  a % n = a
OBVIOUS

LEMMA ModOnce ==
    ASSUME NEW a \in Nat, NEW n \in Nat, a < n
    PROVE  (a + n) % n = a
OBVIOUS

\* A thread that takes or gives back mutex m without waiting or waking.
LEMMA AtRunKeeps ==
    ASSUME IInv, NEW t \in Threads, k.cur = t, pc[t] = "run", NEW m \in Objects,
           Quiet(k, k', t), pc' = pc, arg' = arg, alive' = alive, isr' = isr,
           mutex' \in [Objects -> MutexState], held' \in [Threads -> [Objects -> Nat]],
           \A o \in Objects : o # m => mutex'[o] = mutex[o],
           \A x \in Threads, o \in Objects : x # t \/ o # m => held'[x][o] = held[x][o],
           mutex[m].owner \in {t, None}, mutex'[m].owner \in {t, None},
           mutex'[m].owner = None <=> mutex'[m].value = 1,
           mutex'[m].value = 1 => mutex'[m].hold = 0,
           mutex'[m].owner # None => mutex'[m].orig \in Prio /\ mutex'[m].hold >= 1,
           mutex'[m].owner = None => ToSet(k.wait[m]) = {},
           held'[t][m] = IF mutex'[m].owner = t THEN mutex'[m].hold ELSE 0
    PROVE  IInv'
<1>1. k.stat[t] = "running" /\ \A o \in Objects : t \notin ToSet(k.wait[o])
  BY CurrentRuns
<1>2. None \notin Threads
  BY IpcAssumption
<1>3. /\ Runnable' /\ Enlisted'
      /\ \A o \in Objects : ToSet(k'.wait[o]) = ToSet(k.wait[o])
      /\ \A x \in Threads, o \in Objects : x # t => (Handed(x, o)' <=> Handed(x, o))
  <2>1. pc'[t] \notin InCall /\ pc'[t] \notin Waiting
    BY DEF InCall, Waiting
  <2>. QED BY <1>1, <2>1, QuietKeeps
<1>4. \A o \in Objects : ~Handed(t, o) /\ ~Handed(t, o)'
  BY DEF Handed
<1>5. ASSUME NEW o \in Objects, o # m
      PROVE  MutexOK(o)'
  <2>1. MutexOK(o) /\ mutex'[o] = mutex[o]
    BY <1>5 DEF IInv
  <2>2. \A x \in Threads : held'[x][o] = held[x][o] /\ (Handed(x, o)' <=> Handed(x, o))
    BY <1>3, <1>4, <1>5
  <2>. QED BY <1>3, <2>1, <2>2, MutexFrame
<1>6. MutexOK(m)'
  <2>1. ASSUME NEW x \in Threads
        PROVE  Granted(x, m)' = IF mutex'[m].owner = x THEN mutex'[m].hold ELSE 0
    <3>1. CASE x = t
      BY <1>4, <3>1 DEF Granted
    <3>2. CASE x # t
      <4>1. Granted(x, m) = 0
        BY <1>2, <3>2 DEF IInv, MutexOK
      <4>2. Granted(x, m)' = Granted(x, m)
        BY <1>3, <3>2 DEF Granted
      <4>. QED BY <1>2, <3>2, <4>1, <4>2
    <3>. QED BY <3>1, <3>2
  <2>2. \A x \in ToSet(k'.wait[m]) : mutex'[m].owner # None /\ mutex'[m].owner # x
    BY <1>1, <1>3
  <2>. QED BY <2>1, <2>2 DEF MutexOK
<1>7. KernelOK(k') /\ k' \in KernelState
  BY DEF Quiet, KernelOK, QueueOK
<1>8. TypeOK'
  BY <1>7 DEF IInv, TypeOK
<1>. QED BY <1>3, <1>5, <1>6, <1>7, <1>8 DEF IInv

\* What a thread outside the kernel knows of a mutex.
LEMMA AtRunFacts ==
    ASSUME IInv, NEW t \in Threads, NEW m \in Objects, k.cur = t, pc[t] = "run"
    PROVE  /\ mutex[m] \in MutexState /\ held[t][m] \in Nat /\ k.prio[t] \in Prio
           /\ held[t][m] = IF mutex[m].owner = t THEN mutex[m].hold ELSE 0
           /\ mutex[m].owner = None <=> mutex[m].value = 1
           /\ mutex[m].value = 1 => mutex[m].hold = 0
           /\ mutex[m].owner # None => mutex[m].orig \in Prio /\ mutex[m].hold >= 1
           /\ mutex[m].owner = None => ToSet(k.wait[m]) = {}
           /\ k.stat[t] = "running"
<1>1. mutex[m] \in MutexState /\ held[t][m] \in Nat /\ k.prio[t] \in Prio /\ MutexOK(m)
  BY DEF IInv, TypeOK, KernelState
<1>2. Granted(t, m) = held[t][m]
  BY <1>1 DEF Granted, Handed
<1>3. k.stat[t] = "running"
  BY CurrentRuns
<1>. QED BY <1>1, <1>2, <1>3 DEF MutexOK

LEMMA ResetQuiet ==
    ASSUME IInv, NEW t \in Threads
    PROVE  Quiet(k, ResetError(t), t)
<1>1. "EOK" \in Errno /\ KernelOK(k)
  BY DEF Errno, IInv
<1>. QED BY <1>1, QuietError DEF ResetError

LEMMA TakeAgainKeeps ==
    ASSUME IInv, NestBounded, NEW t \in Threads, NEW m \in Objects,
           Calls(t, m), TakeAgain(t, m), UNCHANGED <<isr, alive>>
    PROVE  IInv'
<1>1. /\ k.cur = t /\ pc[t] = "run" /\ mutex[m].owner = t /\ held[t][m] < MaxNest
      /\ mutex' = [mutex EXCEPT ![m].hold = (@ + 1) % HoldMod]
      /\ held' = [held EXCEPT ![t][m] = @ + 1]
      /\ k' = ResetError(t) /\ pc' = pc /\ arg' = arg /\ isr' = isr /\ alive' = alive
  BY DEF Calls, At, TakeAgain
<1>2. /\ mutex[m] \in MutexState /\ held[t][m] = mutex[m].hold
      /\ mutex[m].value # 1 /\ mutex[m].orig \in Prio /\ mutex[m].hold >= 1
  BY <1>1, AtRunFacts, IpcAssumption
<1>3. mutex \in [Objects -> MutexState] /\ held \in [Threads -> [Objects -> Nat]]
  BY DEF IInv, TypeOK
<1>4. (mutex[m].hold + 1) % HoldMod = mutex[m].hold + 1 /\ mutex[m].hold + 1 \in 0 .. HoldMod - 1
  <2>1. mutex[m].hold + 1 \in Nat /\ mutex[m].hold + 1 < HoldMod /\ HoldMod \in Nat
    BY <1>1, <1>2, MutexAssumption DEF NestBounded, MutexState
  <2>. QED BY <2>1, ModSmall
<1>5. mutex' = [mutex EXCEPT ![m].hold = mutex[m].hold + 1]
  BY <1>1, <1>3, <1>4
<1>6. /\ mutex'[m].owner = t /\ mutex'[m].value = mutex[m].value
      /\ mutex'[m].orig = mutex[m].orig /\ mutex'[m].hold = mutex[m].hold + 1
      /\ \A o \in Objects : o # m => mutex'[o] = mutex[o]
  BY <1>1, <1>2, <1>3, <1>5 DEF MutexState
<1>7. mutex' \in [Objects -> MutexState]
  BY <1>2, <1>3, <1>4, <1>5 DEF MutexState
<1>8. /\ held' \in [Threads -> [Objects -> Nat]] /\ held'[t][m] = held[t][m] + 1
      /\ \A x \in Threads, o \in Objects : x # t \/ o # m => held'[x][o] = held[x][o]
  BY <1>1, <1>3
<1>9. Quiet(k, k', t)
  BY <1>1, ResetQuiet
<1>10. mutex'[m].hold >= 1 /\ t # None
  BY <1>2, <1>6, IpcAssumption DEF MutexState
<1>. QED BY <1>1, <1>2, <1>6, <1>7, <1>8, <1>9, <1>10, AtRunKeeps


\* r is mu after t has become its owner.
OwnedBy(mu, r, t, ks) ==
    /\ r \in MutexState
    /\ r.owner = t /\ r.value = mu.value
    /\ r.orig = ks.prio[t] /\ r.hold = (mu.hold + 1) % HoldMod

LEMMA OwnedOK ==
    ASSUME NEW mu \in MutexState, NEW t \in Threads, NEW ks, ks.prio[t] \in Prio
    PROVE  OwnedBy(mu, Owned(mu, t, ks), t, ks)
<1>1. (mu.hold + 1) % HoldMod \in 0 .. HoldMod - 1
  BY MutexAssumption DEF MutexState
<1>. QED BY <1>1 DEF Owned, OwnedBy, MutexState

LEMMA TakeFreeKeeps ==
    ASSUME IInv, NEW t \in Threads, NEW m \in Objects,
           Calls(t, m), TakeFree(t, m), UNCHANGED <<isr, alive>>
    PROVE  IInv'
<1>1. /\ k.cur = t /\ pc[t] = "run" /\ mutex[m].owner # t /\ mutex[m].value > 0
      /\ mutex' = [mutex EXCEPT ![m] = Owned([mutex[m] EXCEPT !.value = @ - 1], t, k)]
      /\ held' = [held EXCEPT ![t][m] = @ + 1]
      /\ k' = ResetError(t) /\ pc' = pc /\ arg' = arg /\ isr' = isr /\ alive' = alive
  BY DEF Calls, At, TakeFree
<1>2. /\ mutex[m] \in MutexState /\ held[t][m] = 0 /\ k.prio[t] \in Prio
      /\ mutex[m].value = 1 /\ mutex[m].owner = None /\ mutex[m].hold = 0
  BY <1>1, AtRunFacts DEF MutexState
<1>3. mutex \in [Objects -> MutexState] /\ held \in [Threads -> [Objects -> Nat]]
  BY DEF IInv, TypeOK
<1>4. 1 % HoldMod = 1 /\ 1 \in 0 .. HoldMod - 1
  BY MutexAssumption, ModSmall
<1>. DEFINE mu == [mutex[m] EXCEPT !.value = @ - 1]
            new == Owned(mu, t, k)
<1>5. /\ mutex'[m] = new
      /\ \A o \in Objects : o # m => mutex'[o] = mutex[o]
  <2>1. mutex' = [mutex EXCEPT ![m] = new]
    BY <1>1, Zenon
  <2>. HIDE DEF new
  <2>. QED BY <1>3, <2>1
<1>6. /\ mutex'[m] \in MutexState
      /\ mutex'[m].owner = t /\ mutex'[m].value = 0
      /\ mutex'[m].orig \in Prio /\ mutex'[m].hold = 1
  <2>1. mu \in MutexState /\ mu.value = 0 /\ mu.hold = 0
    BY <1>2 DEF MutexState
  <2>. HIDE DEF mu
  <2>2. OwnedBy(mu, Owned(mu, t, k), t, k)
    BY <1>2, <2>1, OwnedOK
  <2>. QED BY <1>2, <1>4, <1>5, <2>1, <2>2 DEF OwnedBy
<1>7. mutex' \in [Objects -> MutexState]
  BY <1>1, <1>3, <1>5, <1>6
<1>8. /\ held' \in [Threads -> [Objects -> Nat]] /\ held'[t][m] = 1
      /\ \A x \in Threads, o \in Objects : x # t \/ o # m => held'[x][o] = held[x][o]
  BY <1>1, <1>2, <1>3
<1>9. Quiet(k, k', t)
  BY <1>1, ResetQuiet
<1>10. t # None
  BY IpcAssumption
<1>. QED BY <1>1, <1>2, <1>5, <1>6, <1>7, <1>8, <1>9, <1>10, AtRunKeeps

\* A call that only reports an error to its caller.
LEMMA ErrorKeeps ==
    ASSUME IInv, NEW t \in Threads, NEW m \in Objects, Calls(t, m),
           \/ \E time \in TakeTimes : TakeFail(t, m, time)
           \/ ReleaseRefused(t, m) /\ arg' = arg,
           UNCHANGED <<isr, alive>>
    PROVE  IInv'
<1>1. /\ k.cur = t /\ pc[t] = "run" /\ pc' = pc /\ arg' = arg /\ isr' = isr
      /\ alive' = alive /\ mutex' = mutex /\ held' = held
      /\ k' = [k EXCEPT !.err[t] = "ETIMEOUT"] \/ k' = [k EXCEPT !.err[t] = "ERROR"]
  BY DEF Calls, At, TakeFail, ReleaseRefused
<1>2. "ETIMEOUT" \in Errno /\ "ERROR" \in Errno /\ "run" \in Places
      /\ "run" \notin InCall /\ "run" \notin Waiting
  BY DEF Errno, Places, InCall, Waiting
<1>3. \E e \in Errno : k' = [k EXCEPT !.err[t] = e]
  BY <1>1, <1>2
<1>4. /\ pc' = [pc EXCEPT ![t] = "run"] /\ alive \subseteq Objects
      /\ arg \in [Threads -> Objects \union {None}]
  BY <1>1 DEF IInv, TypeOK
<1>. QED BY <1>1, <1>2, <1>3, <1>4, PlaceKeeps

\* The caller waits behind the owner, which it may have boosted.
LEMMA TakeBlockKeeps ==
    ASSUME IInv, NEW t \in Threads, NEW m \in Objects, NEW time,
           Calls(t, m), TakeBlock(t, m, time), UNCHANGED <<isr, alive>>
    PROVE  IInv'
<1>. DEFINE b == Inherit(ResetError(t), mutex[m].owner, t)
<1>1. /\ k.cur = t /\ t \in Users /\ pc[t] = "run"
      /\ mutex[m].owner # t /\ mutex[m].value = 0
      /\ k' = StartTimer(rt_ipc_list_suspend(b, m, t, Flag), t, time)
      /\ pc' = [pc EXCEPT ![t] = "take_sched"] /\ arg' = [arg EXCEPT ![t] = m]
      /\ mutex' = mutex /\ held' = held /\ isr' = isr /\ alive' = alive
  BY DEF Calls, At, TakeBlock, Proceed, Go
<1>2. /\ mutex[m].owner \in Threads /\ mutex[m].owner # None /\ k.stat[t] = "running"
      /\ KernelOK(k) /\ m \in WaitLists
  BY <1>1, AtRunFacts, MutexAssumption DEF IInv, MutexState
<1>3. /\ pc \in [Threads -> Places] /\ arg \in [Threads -> Objects \union {None}]
      /\ alive \subseteq Objects
  BY DEF IInv, TypeOK
<1>4. /\ KernelOK(b)
      /\ b.stat = k.stat /\ b.cur = k.cur /\ b.lock = k.lock /\ b.err[t] = "EOK"
      /\ \A x \in Threads : x # t => b.err[x] = k.err[x]
      /\ \A w \in WaitLists : b.wait[w] = k.wait[w]
  BY <1>2, BoostOK, SMTT(30) DEF ResetError
<1>. HIDE DEF b
<1>5. Joins(b, k', m, t)
  BY <1>1, <1>2, <1>4, TakeBlocks
<1>6. Suspends(k, k', t) /\ k'.err[t] = "EOK"
  BY <1>4, <1>5 DEF Joins, Suspends
<1>7. /\ pc'[t] = "take_sched" /\ arg'[t] = m
      /\ \A x \in Threads : x # t => pc'[x] = pc[x] /\ arg'[x] = arg[x]
  BY <1>1, <1>3
<1>8. \A v \in Objects : ToSet(k'.wait[v]) = ToSet(k.wait[v]) \union
         (IF pc'[t] = "take_sched" /\ v = arg'[t] THEN {t} ELSE {})
  <2>1. ASSUME NEW v \in Objects
        PROVE  ToSet(k'.wait[v]) = ToSet(k.wait[v]) \union (IF v = m THEN {t} ELSE {})
    BY <1>4, <1>5, MutexAssumption DEF Joins
  <2>. QED BY <1>7, <2>1
<1>9. /\ Runnable' /\ Enlisted'
      /\ \A x \in Threads, o \in Objects : Handed(x, o)' <=> Handed(x, o)
  BY <1>1, <1>6, <1>7, <1>8, BlocksKeeps
<1>10. ASSUME NEW o \in Objects
       PROVE  MutexOK(o)'
  <2>1. \A x \in Threads : Granted(x, o)' = Granted(x, o)
    BY <1>1, <1>9 DEF Granted
  <2>2. \A x \in ToSet(k'.wait[o]) : mutex[o].owner # None /\ mutex[o].owner # x
    <3>1. CASE o = m
      BY <1>1, <1>2, <1>7, <1>8, <3>1 DEF IInv, MutexOK
    <3>2. CASE o # m
      <4>1. ToSet(k'.wait[o]) = ToSet(k.wait[o])
        BY <1>7, <1>8, <3>2
      <4>. QED BY <4>1 DEF IInv, MutexOK
    <3>. QED BY <3>1, <3>2
  <2>. QED BY <1>1, <2>1, <2>2 DEF IInv, MutexOK
<1>11. KernelOK(k') /\ k' \in KernelState
  BY <1>6 DEF Suspends, KernelOK, QueueOK
<1>12. TypeOK'
  <2>1. "take_sched" \in Places
    BY DEF Places
  <2>. QED BY <1>1, <1>3, <1>11, <2>1 DEF IInv, TypeOK
<1>. QED BY <1>9, <1>10, <1>11, <1>12 DEF IInv

\* rt_thread_sleep.
LEMMA SleepKeeps ==
    ASSUME IInv, NEW t \in Threads, rt_thread_sleep(t), UNCHANGED <<mutex, held>>
    PROVE  IInv'
<1>1. /\ k.cur = t /\ t \in Users /\ pc[t] = "run"
      /\ k' = StartTimer(rt_thread_suspend(k, t), t, "finite")
      /\ pc' = [pc EXCEPT ![t] = "sleep_sched"] /\ arg' = arg
      /\ mutex' = mutex /\ held' = held /\ isr' = isr /\ alive' = alive
  BY DEF rt_thread_sleep, At, Go
<1>2. KernelOK(k) /\ k.stat[t] = "running" /\ pc \in [Threads -> Places]
  BY <1>1, CurrentRuns DEF IInv, TypeOK
<1>3. Suspends(k, k', t) /\ \A w \in WaitLists : ToSet(k'.wait[w]) = ToSet(k.wait[w])
  BY <1>1, <1>2, SleepBlocks
<1>4. pc'[t] = "sleep_sched" /\ \A x \in Threads : x # t => pc'[x] = pc[x]
  BY <1>1, <1>2
<1>5. \A v \in Objects : ToSet(k'.wait[v]) = ToSet(k.wait[v])
  BY <1>3, MutexAssumption
<1>6. /\ Runnable' /\ Enlisted'
      /\ \A x \in Threads, o \in Objects : Handed(x, o)' <=> Handed(x, o)
  <2>1. \A v \in Objects : ToSet(k'.wait[v]) = ToSet(k.wait[v]) \union
           (IF pc'[t] = "take_sched" /\ v = arg'[t] THEN {t} ELSE {})
    BY <1>4, <1>5
  <2>2. pc'[t] # "take_sched"
    BY <1>4
  <2>. QED BY <1>1, <1>3, <1>4, <2>1, <2>2, BlocksKeeps
<1>7. ASSUME NEW m \in Objects
      PROVE  MutexOK(m)'
  <2>1. MutexOK(m) /\ mutex'[m] = mutex[m]
    BY <1>1 DEF IInv
  <2>2. \A x \in Threads : held'[x][m] = held[x][m] /\ (Handed(x, m)' <=> Handed(x, m))
    BY <1>1, <1>6
  <2>. QED BY <1>5, <2>1, <2>2, MutexFrame
<1>8. KernelOK(k') /\ k' \in KernelState
  BY <1>3 DEF Suspends, KernelOK, QueueOK
<1>9. TypeOK'
  <2>1. "sleep_sched" \in Places
    BY DEF Places
  <2>. QED BY <1>1, <1>2, <1>8, <2>1 DEF IInv, TypeOK
<1>. QED BY <1>6, <1>7, <1>8, <1>9 DEF IInv

\* rt_mutex_detach is entered.
LEMMA DetachCallKeeps ==
    ASSUME IInv, NEW t \in Threads, NEW m \in Objects, rt_mutex_detach(t, m),
           UNCHANGED <<mutex, held>>
    PROVE  IInv'
<1>1. /\ k.cur = t /\ pc[t] = "run" /\ pc' = [pc EXCEPT ![t] = "det_test"]
      /\ arg' = [arg EXCEPT ![t] = m] /\ k' = k /\ isr' = isr /\ alive' = alive
      /\ mutex' = mutex /\ held' = held
  BY DEF rt_mutex_detach, DetachCall, Calls, At, Proceed, Go
<1>2. arg \in [Threads -> Objects \union {None}] /\ alive \subseteq Objects
  BY DEF IInv, TypeOK
<1>3. /\ arg' \in [Threads -> Objects \union {None}] /\ arg'[t] = m
      /\ \A x \in Threads : x # t => arg'[x] = arg[x]
  BY <1>1, <1>2
<1>4. "det_test" \in Places /\ "det_test" \notin Waiting
  BY DEF Places, Waiting
<1>. QED BY <1>1, <1>2, <1>3, <1>4, PlaceKeeps


LEMMA ReleaseInnerKeeps ==
    ASSUME IInv, NEW t \in Threads, NEW m \in Objects,
           Calls(t, m), ReleaseInner(t, m), UNCHANGED <<isr, arg, alive>>
    PROVE  IInv'
<1>. DEFINE h == (mutex[m].hold + HoldMod - 1) % HoldMod
<1>1. /\ k.cur = t /\ pc[t] = "run" /\ mutex[m].owner = t /\ mutex[m].hold # 1
      /\ mutex' = [mutex EXCEPT ![m].hold = h]
      /\ held' = [held EXCEPT ![t][m] = @ - 1]
      /\ k' = k /\ pc' = pc /\ arg' = arg /\ isr' = isr /\ alive' = alive
  BY DEF Calls, At, ReleaseInner
<1>2. /\ mutex[m] \in MutexState /\ held[t][m] = mutex[m].hold
      /\ mutex[m].value # 1 /\ mutex[m].orig \in Prio /\ mutex[m].hold >= 1
  BY <1>1, AtRunFacts, IpcAssumption
<1>3. mutex \in [Objects -> MutexState] /\ held \in [Threads -> [Objects -> Nat]]
  BY DEF IInv, TypeOK
<1>4. h = mutex[m].hold - 1 /\ h \in 0 .. HoldMod - 1 /\ h >= 1
  <2>. DEFINE a == mutex[m].hold - 1
  <2>1. a \in Nat /\ a + 1 = mutex[m].hold /\ a >= 1
    <3>1. mutex[m].hold \in Nat
      BY <1>2, MutexAssumption DEF MutexState
    <3>. QED BY <1>1, <1>2, <3>1
  <2>2. a < HoldMod /\ HoldMod \in Nat
    BY <1>2, <2>1, MutexAssumption DEF MutexState
  <2>. HIDE DEF a
  <2>3. mutex[m].hold + HoldMod - 1 = a + HoldMod
    BY <2>1, <2>2
  <2>4. h = a
    BY <2>1, <2>2, <2>3, ModOnce
  <2>. QED BY <2>1, <2>2, <2>4
<1>. HIDE DEF h
<1>5. /\ mutex'[m].owner = t /\ mutex'[m].value = mutex[m].value
      /\ mutex'[m].orig = mutex[m].orig /\ mutex'[m].hold = h
      /\ \A o \in Objects : o # m => mutex'[o] = mutex[o]
  BY <1>1, <1>2, <1>3 DEF MutexState
<1>6. mutex' \in [Objects -> MutexState]
  BY <1>1, <1>2, <1>3, <1>4 DEF MutexState
<1>7. held[t][m] - 1 = h /\ h \in Nat
  BY <1>2, <1>4
<1>8. /\ held' \in [Threads -> [Objects -> Nat]] /\ held'[t][m] = h
      /\ \A x \in Threads, o \in Objects : x # t \/ o # m => held'[x][o] = held[x][o]
  BY <1>1, <1>3, <1>7
<1>9. Quiet(k, k', t) /\ t # None
  BY <1>1, QuietSame, IpcAssumption DEF IInv
<1>. QED BY <1>1, <1>2, <1>4, <1>5, <1>6, <1>8, <1>9, AtRunKeeps

\* Giving the owner its priority back changes nothing else.
LEMMA RestoredOK ==
    ASSUME IInv, NEW t \in Threads, NEW m \in Objects, mutex[m].orig \in Prio
    PROVE  LET r == Restored(t, m) IN
           /\ Quiet(k, r, t)
           /\ r.stat = k.stat /\ r.err = k.err /\ r.cur = k.cur /\ r.lock = k.lock
           /\ \A w \in WaitLists : r.wait[w] = k.wait[w]
<1>. DEFINE r == Restored(t, m)
<1>1. KernelOK(k)
  BY DEF IInv
<1>2. r = k \/ (Requeued(k, r, t, mutex[m].orig) /\ Quiet(k, r, t))
  <2>. DEFINE q == ChangePriority(k, t, mutex[m].orig)
  <2>1. Requeued(k, q, t, mutex[m].orig)
    BY <1>1, ChangePriorityOK
  <2>2. Quiet(k, q, t)
    BY <1>1, QuietPrio
  <2>3. r = k \/ r = q
    BY DEF Restored
  <2>. HIDE DEF q, r
  <2>. QED BY <2>1, <2>2, <2>3
<1>. HIDE DEF r
<1>3. Quiet(k, k, t)
  BY <1>1, QuietSame
<1>4. /\ Quiet(k, r, t)
      /\ r.stat = k.stat /\ r.err = k.err /\ r.cur = k.cur /\ r.lock = k.lock
      /\ \A w \in WaitLists : r.wait[w] = k.wait[w]
  BY <1>2, <1>3 DEF Requeued
<1>. QED BY <1>4 DEF r

LEMMA ReleaseFreeKeeps ==
    ASSUME IInv, NEW t \in Threads, NEW m \in Objects,
           Calls(t, m), ReleaseFree(t, m), UNCHANGED <<isr, arg, alive>>
    PROVE  IInv'
<1>. DEFINE new == [mutex[m] EXCEPT !.value = @ + 1, !.owner = None,
                                    !.orig = NoPrio, !.hold = 0]
<1>1. /\ k.cur = t /\ pc[t] = "run" /\ mutex[m].owner = t /\ mutex[m].hold = 1
      /\ k.wait[m] = <<>> /\ k' = Restored(t, m)
      /\ mutex' = [mutex EXCEPT ![m] = new]
      /\ held' = [held EXCEPT ![t][m] = @ - 1]
      /\ pc' = pc /\ arg' = arg /\ isr' = isr /\ alive' = alive
  BY DEF Calls, At, ReleaseFree
<1>2. /\ mutex[m] \in MutexState /\ held[t][m] = 1
      /\ mutex[m].value = 0 /\ mutex[m].orig \in Prio
  BY <1>1, AtRunFacts, IpcAssumption DEF MutexState
<1>3. mutex \in [Objects -> MutexState] /\ held \in [Threads -> [Objects -> Nat]]
  BY DEF IInv, TypeOK
<1>4. /\ new \in MutexState /\ new.owner = None /\ new.value = 1 /\ new.hold = 0
  <2>1. 0 \in 0 .. HoldMod - 1 /\ mutex[m].value + 1 = 1 /\ 1 \in 0 .. 1
    BY <1>2, MutexAssumption
  <2>. QED BY <1>2, <2>1 DEF MutexState
<1>. HIDE DEF new
<1>5. /\ mutex'[m] = new /\ mutex' \in [Objects -> MutexState]
      /\ \A o \in Objects : o # m => mutex'[o] = mutex[o]
  BY <1>1, <1>3, <1>4
<1>6. /\ held' \in [Threads -> [Objects -> Nat]] /\ held'[t][m] = 0
      /\ \A x \in Threads, o \in Objects : x # t \/ o # m => held'[x][o] = held[x][o]
  BY <1>1, <1>2, <1>3
<1>7. Quiet(k, k', t)
  BY <1>1, <1>2, RestoredOK
<1>8. ToSet(k.wait[m]) = {}
  <2>1. k.wait[m] \in Seq(Threads)
    BY MutexAssumption DEF IInv, TypeOK, KernelState
  <2>. QED BY <1>1, <2>1, ToSetDef
<1>9. t # None
  BY IpcAssumption
<1>. QED BY <1>1, <1>4, <1>5, <1>6, <1>7, <1>8, <1>9, AtRunKeeps


\* The mutex passes from the caller to the first waiter.
LEMMA ReleaseHandOverKeeps ==
    ASSUME IInv, NEW t \in Threads, NEW m \in Objects,
           Calls(t, m), ReleaseHandOver(t, m), UNCHANGED <<isr, arg, alive>>
    PROVE  IInv'
<1>. DEFINE r == Restored(t, m)
            mu == [mutex[m] EXCEPT !.hold = 0]
<1>1. /\ k.cur = t /\ pc[t] = "run" /\ mutex[m].owner = t /\ mutex[m].hold = 1
      /\ k.wait[m] # <<>> /\ k' = rt_ipc_list_resume(r, m)
      /\ mutex' = [mutex EXCEPT ![m] = Owned(mu, Head(r.wait[m]), r)]
      /\ held' = [held EXCEPT ![t][m] = @ - 1]
      /\ pc' = [pc EXCEPT ![t] = "rel_sched"]
      /\ arg' = arg /\ isr' = isr /\ alive' = alive
  BY DEF Calls, At, ReleaseHandOver, Go
<1>2. /\ mutex[m] \in MutexState /\ held[t][m] = 1
      /\ mutex[m].value = 0 /\ mutex[m].orig \in Prio /\ k.stat[t] = "running"
  BY <1>1, AtRunFacts, IpcAssumption DEF MutexState
<1>3. /\ mutex \in [Objects -> MutexState] /\ held \in [Threads -> [Objects -> Nat]]
      /\ pc \in [Threads -> Places] /\ m \in WaitLists
  BY MutexAssumption DEF IInv, TypeOK
<1>4. /\ KernelOK(r) /\ r \in KernelState
      /\ r.stat = k.stat /\ r.err = k.err /\ r.cur = k.cur /\ r.lock = k.lock
      /\ \A w \in WaitLists : r.wait[w] = k.wait[w]
  BY <1>2, RestoredOK DEF Quiet, KernelOK, QueueOK
<1>. HIDE DEF r
<1>5. PICK u \in Threads :
         /\ u = Head(r.wait[m]) /\ u \in ToSet(r.wait[m]) /\ r.stat[u] = "suspend"
         /\ Wakes(r, k', u) /\ k'.err = r.err
  BY <1>1, <1>3, <1>4, WakesHead
<1>. DEFINE new == Owned(mu, u, r)
<1>6. /\ Wakes(k, k', u) /\ k'.err = k.err /\ u # t
      /\ pc[u] \in Waiting /\ arg[u] = m /\ k.err[u] = "EOK" /\ u # None
  <2>1. u \in ToSet(k.wait[m]) /\ k.stat[u] = "suspend"
    BY <1>3, <1>4, <1>5
  <2>2. pc[u] \in Waiting /\ arg[u] = m /\ k.err[u] = "EOK"
    BY <2>1 DEF IInv, Enlisted
  <2>3. Wakes(k, k', u)
    BY <1>4, <1>5 DEF Wakes
  <2>. QED BY <1>2, <1>4, <1>5, <2>1, <2>2, <2>3, IpcAssumption
<1>7. pc'[t] = "rel_sched" /\ \A x \in Threads : x # t => pc'[x] = pc[x]
  BY <1>1, <1>3
<1>8. /\ Runnable' /\ Enlisted'
      /\ \A o \in Objects : ToSet(k'.wait[o]) = ToSet(k.wait[o]) \ {u}
      /\ \A x \in Threads \ {u, t}, o \in Objects : Handed(x, o)' <=> Handed(x, o)
  <2>1. pc'[t] \notin Waiting /\ pc'[t] \notin InCall
    BY <1>7 DEF Waiting, InCall
  <2>. QED BY <1>1, <1>2, <1>5, <1>6, <1>7, <2>1, WakesKeeps
<1>9. \A o \in Objects : ~Handed(t, o) /\ ~Handed(t, o)'
  BY <1>1, <1>7 DEF Handed
<1>10. Handed(u, m)' /\ \A o \in Objects : o # m => ~Handed(u, o) /\ ~Handed(u, o)'
  <2>1. u \notin ToSet(k'.wait[m])
    BY <1>8
  <2>2. pc'[u] \in Waiting /\ arg'[u] = m /\ k'.err[u] = "EOK"
    BY <1>1, <1>5, <1>6, <1>7
  <2>3. Handed(u, m)'
    BY <2>1, <2>2 DEF Handed, Waiting
  <2>4. \A o \in Objects : o # m => ~Handed(u, o) /\ ~Handed(u, o)'
    BY <1>6, <2>2 DEF Handed
  <2>. QED BY <2>3, <2>4
<1>11. /\ new \in MutexState /\ new.owner = u /\ new.value = 0
       /\ new.orig \in Prio /\ new.hold = 1
  <2>1. mu \in MutexState /\ mu.value = 0 /\ mu.hold = 0
    <3>1. 0 \in 0 .. HoldMod - 1
      BY MutexAssumption
    <3>. QED BY <1>2, <3>1 DEF MutexState
  <2>. HIDE DEF mu
  <2>2. r.prio[u] \in Prio
    BY <1>4, <1>5 DEF KernelState
  <2>3. OwnedBy(mu, new, u, r)
    BY <1>5, <2>1, <2>2, OwnedOK
  <2>. HIDE DEF new
  <2>4. 1 % HoldMod = 1
    BY MutexAssumption, ModSmall
  <2>. QED BY <2>1, <2>2, <2>3, <2>4 DEF OwnedBy
<1>. HIDE DEF new
<1>12. /\ mutex'[m] = new /\ mutex' \in [Objects -> MutexState]
       /\ \A o \in Objects : o # m => mutex'[o] = mutex[o]
  <2>1. mutex' = [mutex EXCEPT ![m] = new]
    BY <1>1, <1>5 DEF new
  <2>. QED BY <1>3, <1>11, <2>1
<1>13. /\ held' \in [Threads -> [Objects -> Nat]] /\ held'[t][m] = 0
       /\ \A x \in Threads, o \in Objects : x # t \/ o # m => held'[x][o] = held[x][o]
  BY <1>1, <1>2, <1>3
<1>14. ASSUME NEW o \in Objects, o # m
       PROVE  MutexOK(o)'
  <2>1. MutexOK(o) /\ mutex'[o] = mutex[o]
    BY <1>12, <1>14 DEF IInv
  <2>2. \A x \in Threads : held'[x][o] = held[x][o] /\ (Handed(x, o)' <=> Handed(x, o))
    <3>1. \A x \in Threads : held'[x][o] = held[x][o]
      BY <1>13, <1>14
    <3>2. \A x \in Threads : Handed(x, o)' <=> Handed(x, o)
      BY <1>8, <1>9, <1>10, <1>14, Zenon
    <3>. QED BY <3>1, <3>2
  <2>3. ToSet(k'.wait[o]) \subseteq ToSet(k.wait[o])
    BY <1>8
  <2>. QED BY <2>1, <2>2, <2>3, MutexFrame
<1>15. MutexOK(m)'
  <2>1. ASSUME NEW x \in Threads
        PROVE  Granted(x, m)' = IF new.owner = x THEN new.hold ELSE 0
    <3>1. CASE x = t
      BY <1>6, <1>9, <1>11, <1>13, <3>1 DEF Granted
    <3>2. CASE x # t
      <4>1. Granted(x, m) = 0 /\ held[x][m] \in Nat /\ held'[x][m] = held[x][m]
        BY <1>1, <1>3, <1>13, <3>2 DEF IInv, MutexOK
      <4>2. held[x][m] = 0 /\ ~Handed(x, m)
        BY <4>1 DEF Granted
      <4>3. CASE x = u
        <5>1. Granted(x, m)' = held'[x][m] + 1
          BY <1>10, <4>3 DEF Granted
        <5>. QED BY <1>11, <4>1, <4>2, <4>3, <5>1
      <4>4. CASE x # u
        <5>1. ~Handed(x, m)'
          BY <1>8, <3>2, <4>2, <4>4
        <5>. QED BY <1>11, <4>1, <4>2, <4>4, <5>1 DEF Granted
      <4>. QED BY <4>3, <4>4
    <3>. QED BY <3>1, <3>2
  <2>2. \A x \in ToSet(k'.wait[m]) : new.owner # None /\ new.owner # x
    BY <1>6, <1>8, <1>11
  <2>. QED BY <1>6, <1>11, <1>12, <2>1, <2>2 DEF MutexOK
<1>16. KernelOK(k') /\ k' \in KernelState
  BY <1>6 DEF Wakes, KernelOK, QueueOK
<1>17. TypeOK'
  <2>1. "rel_sched" \in Places
    BY DEF Places
  <2>. QED BY <1>1, <1>3, <1>12, <1>13, <1>16, <2>1 DEF IInv, TypeOK
<1>. QED BY <1>8, <1>14, <1>15, <1>16, <1>17 DEF IInv


-----------------------------------------------------------------------------
(* The theorems.                                                           *)

LEMMA InitOK == Init => IInv
<1>. SUFFICES ASSUME Init PROVE IInv
  OBVIOUS
<1>1. /\ k = Booted /\ isr = "none" /\ pc = [t \in Threads |-> "run"]
      /\ arg = [t \in Threads |-> None] /\ alive = Objects
      /\ mutex = [m \in Objects |-> FreshMutex]
      /\ held = [t \in Threads |-> [m \in Objects |-> 0]]
  BY DEF Init, IpcInit
<1>2. /\ KernelOK(k) /\ k.lock = 0 /\ k.stat[Idle] \in {"ready", "running"}
      /\ k.stat[k.cur] = "running" /\ \A m \in Objects : ToSet(k.wait[m]) = {}
  BY <1>1, BootedOK, MutexAssumption
<1>3. \A t \in Threads : pc[t] = "run" /\ pc[t] \notin InCall /\ pc[t] \notin Waiting
  BY <1>1 DEF InCall, Waiting
<1>4. Runnable /\ Enlisted
  BY <1>2, <1>3 DEF Runnable, Enlisted
<1>5. /\ FreshMutex \in MutexState /\ FreshMutex.owner = None
      /\ FreshMutex.value = 1 /\ FreshMutex.hold = 0
  <2>1. 0 \in 0 .. HoldMod - 1 /\ 1 \in 0 .. 1
    BY MutexAssumption
  <2>. QED BY <2>1 DEF FreshMutex, MutexState
<1>6. "run" \in Places
  BY DEF Places
<1>7. TypeOK
  <2>1. k \in KernelState
    BY <1>2 DEF KernelOK, QueueOK
  <2>2. mutex \in [Objects -> MutexState] /\ held \in [Threads -> [Objects -> Nat]]
    BY <1>1, <1>5
  <2>. QED BY <1>1, <1>6, <2>1, <2>2 DEF TypeOK
<1>8. ASSUME NEW m \in Objects
      PROVE  MutexOK(m)
  <2>1. \A t \in Threads : Granted(t, m) = 0
    BY <1>1, <1>3 DEF Granted, Handed, Waiting
  <2>2. mutex[m] = FreshMutex
    BY <1>1
  <2>. QED BY <1>2, <1>5, <2>1, <2>2, IpcAssumption DEF MutexOK
<1>. QED BY <1>2, <1>4, <1>7, <1>8 DEF IInv

LEMMA NextOK ==
    ASSUME NestBounded, IInv, [Next]_vars
    PROVE  IInv'
<1>1. CASE UNCHANGED vars
  BY <1>1 DEF vars, IInv, TypeOK, Runnable, Enlisted, MutexOK, Granted, Handed
<1>2. CASE Tick /\ Outside
  <2>1. CASE TickEnter \/ TickSchedule \/ TickLeave
    <3>1. k' = k \/ k' = rt_schedule(k)
      BY <2>1 DEF TickEnter, TickSchedule, TickLeave
    <3>2. isr' \in {"none", "tick", "timeout"}
      BY <2>1 DEF TickEnter, TickSchedule, TickLeave
    <3>. QED BY <1>2, <3>1, <3>2, TickKeeps
  <2>2. CASE \E t \in Threads : TickExpire(t)
    BY <1>2, <2>2, ExpireKeeps
  <2>. QED BY <1>2, <2>1, <2>2 DEF Tick
<1>3. ASSUME NEW t \in Threads, KernelStep(t)
      PROVE  IInv'
  <2>1. CASE TakeReturn(t)
    BY <2>1, TakeReturnKeeps
  <2>2. CASE /\ \/ Resched(t, "take_sched", "take_woken")
                \/ Resched(t, "rel_sched", "run")
                \/ Resched(t, "sleep_sched", "slept")
             /\ UNCHANGED <<mutex, held>>
    BY <2>2, ReschedKeeps
  <2>3. CASE DetachSteps(t) /\ UNCHANGED <<mutex, held>>
    BY <2>3, DetachTestKeeps, DetachMissKeeps, DetachWakeKeeps, DetachObjectKeeps DEF DetachSteps
  <2>4. CASE SleepReturn(t) /\ UNCHANGED <<mutex, held>>
    BY <2>4, SleepReturnKeeps
  <2>. QED BY <1>3, <2>1, <2>2, <2>3, <2>4 DEF KernelStep, SleepSteps
<1>4. ASSUME NEW t \in Threads, Call(t)
      PROVE  IInv'
  <2>1. ASSUME NEW m \in Objects, NEW time \in TakeTimes, rt_mutex_take(t, m, time)
        PROVE  IInv'
    <3>1. Calls(t, m) /\ UNCHANGED <<isr, alive>>
      BY <2>1 DEF rt_mutex_take
    <3>2. CASE TakeAgain(t, m)
      BY <3>1, <3>2, TakeAgainKeeps
    <3>3. CASE TakeFree(t, m)
      BY <3>1, <3>3, TakeFreeKeeps
    <3>4. CASE TakeFail(t, m, time)
      BY <3>1, <3>4, ErrorKeeps
    <3>5. CASE TakeBlock(t, m, time)
      BY <3>1, <3>5, TakeBlockKeeps
    <3>. QED BY <2>1, <3>2, <3>3, <3>4, <3>5 DEF rt_mutex_take
  <2>2. ASSUME NEW m \in Objects, rt_mutex_release(t, m)
        PROVE  IInv'
    <3>1. Calls(t, m) /\ UNCHANGED <<isr, arg, alive>>
      BY <2>2 DEF rt_mutex_release
    <3>2. CASE ReleaseRefused(t, m)
      BY <3>1, <3>2, ErrorKeeps
    <3>3. CASE ReleaseInner(t, m)
      BY <3>1, <3>3, ReleaseInnerKeeps
    <3>4. CASE ReleaseHandOver(t, m)
      BY <3>1, <3>4, ReleaseHandOverKeeps
    <3>5. CASE ReleaseFree(t, m)
      BY <3>1, <3>5, ReleaseFreeKeeps
    <3>. QED BY <2>2, <3>2, <3>3, <3>4, <3>5 DEF rt_mutex_release
  <2>3. ASSUME NEW m \in Objects, rt_mutex_detach(t, m), UNCHANGED <<mutex, held>>
        PROVE  IInv'
    BY <2>3, DetachCallKeeps
  <2>4. CASE rt_thread_sleep(t) /\ UNCHANGED <<mutex, held>>
    BY <2>4, SleepKeeps
  <2>. QED BY <1>4, <2>1, <2>2, <2>3, <2>4 DEF Call
<1>. QED BY <1>1, <1>2, <1>3, <1>4 DEF Next

\* The invariant holds throughout, for every number of threads and mutexes,
\* both flags, and any nesting that does not wrap mutex->hold.
THEOREM Invariance ==
    ASSUME NestBounded
    PROVE  Spec => []IInv
<1>1. Init => IInv
  BY InitOK
<1>2. IInv /\ [Next]_vars => IInv'
  BY NextOK
<1>. QED BY <1>1, <1>2, PTL DEF Spec

\* The control blocks keep their types: in particular hold and value stay in
\* range, and a caller never gives back a hold it does not have.
THEOREM TypeCorrect ==
    ASSUME NestBounded
    PROVE  Spec => []TypeOK
<1>1. IInv => TypeOK
  BY DEF IInv
<1>. QED BY <1>1, Invariance, PTL

\* The scheduler's queues, the bitmap, the suspend lists, the thread timers and
\* the thread states agree whatever rt_mutex_take, rt_mutex_release,
\* rt_mutex_detach, rt_thread_sleep and the tick interrupt do in any order.
THEOREM KernelStaysConsistent ==
    ASSUME NestBounded
    PROVE  Spec => []KernelConsistent
<1>1. IInv => KernelConsistent
  BY DEF IInv, KernelConsistent
<1>. QED BY <1>1, Invariance, PTL

\* No two threads have taken a mutex of src/ipc.c at the same time, and
\* mutex->hold counts the owner's takes.
THEOREM MutexExcludes ==
    ASSUME NestBounded
    PROVE  Spec => []MutualExclusion
<1>1. IInv => MutualExclusion
  BY DEF IInv, MutexOK, MutualExclusion
<1>. QED BY <1>1, Invariance, PTL

\* rt_mutex_release never leaves a waiter behind a free mutex, and no thread
\* waits for a mutex of its own.
THEOREM NoWaiterLeftBehind ==
    ASSUME NestBounded
    PROVE  Spec => []WaitersBlocked
<1>1. IInv => WaitersBlocked
  <2>. SUFFICES ASSUME IInv, NEW m \in Objects, k.wait[m] # <<>>
                PROVE  mutex[m].owner # None /\ mutex[m].owner \notin ToSet(k.wait[m])
    BY DEF WaitersBlocked
  <2>1. k.wait[m] \in Seq(Threads)
    BY MutexAssumption DEF IInv, TypeOK, KernelState
  <2>2. Head(k.wait[m]) \in ToSet(k.wait[m])
    BY <2>1, HeadIn
  <2>. QED BY <2>2 DEF IInv, MutexOK
<1>. QED BY <1>1, Invariance, PTL

-----------------------------------------------------------------------------
(* Priorities, with one mutex.  With two, a boost can be recorded as the   *)
(* priority to go back to, and none of this holds.                         *)

OneMutex == \A m, n \in Objects : m = n

\* The list s is in order of the priorities f.
InOrder(s, f) == \A i, j \in 1 .. Len(s) : i < j => f[s[i]] <= f[s[j]]

LEMMA InOrderRemove ==
    ASSUME NEW s \in Seq(Threads), NEW t, NEW f, InOrder(s, f)
    PROVE  InOrder(RemoveFirst(s, t), f)
<1>1. CASE t \notin ToSet(s)
  BY <1>1, RemoveAbsent
<1>2. CASE t \in ToSet(s)
  <2>. DEFINE r == RemoveFirst(s, t)
  <2>1. PICK n \in 1 .. Len(s) :
          /\ s[n] = t
          /\ \A i \in 1 .. Len(s) - 1 : r[i] = IF i < n THEN s[i] ELSE s[i + 1]
    BY <1>2, RemoveIndex
  <2>2. Len(r) = Len(s) - 1 /\ Len(s) \in Nat
    BY <1>2, RemoveIndex
  <2>. HIDE DEF r
  <2>3. ASSUME NEW i \in 1 .. Len(r), NEW j \in 1 .. Len(r), i < j
        PROVE  f[r[i]] <= f[r[j]]
    <3>. DEFINE at(x) == IF x < n THEN x ELSE x + 1
    <3>1. /\ at(i) \in 1 .. Len(s) /\ r[i] = s[at(i)]
          /\ at(j) \in 1 .. Len(s) /\ r[j] = s[at(j)] /\ at(i) < at(j)
      BY <2>1, <2>2, <2>3
    <3>. HIDE DEF at
    <3>. QED BY <3>1 DEF InOrder
  <2>. QED BY <2>3 DEF InOrder, r
<1>. QED BY <1>1, <1>2

\* rt_ipc_list_suspend with RT_IPC_FLAG_PRIO: before the first less urgent one.
LEMMA InOrderInsert ==
    ASSUME NEW ks, NEW s \in Seq(Threads), NEW t \in Threads,
           ks.prio \in [Threads -> Prio], InOrder(s, ks.prio)
    PROVE  InOrder(InsertAt(s, Position(ks, s, ks.prio[t], "PRIO"), t), ks.prio)
<1>. DEFINE f == ks.prio
            n == Position(ks, s, f[t], "PRIO")
            r == InsertAt(s, n, t)
            later == {i \in 1 .. Len(s) : f[t] < f[s[i]]}
<1>1. /\ n \in 1 .. Len(s) + 1
      /\ \A i \in 1 .. Len(s) : i < n => ~ (f[t] < f[s[i]])
      /\ n \in 1 .. Len(s) => f[t] < f[s[n]]
  <2>1. n = IF later = {} THEN Len(s) + 1 ELSE Min(later)
    BY DEF Position
  <2>2. n \in 1 .. Len(s) + 1
    BY PositionInRange
  <2>. HIDE DEF n
  <2>3. CASE later = {}
    BY <2>1, <2>2, <2>3
  <2>4. CASE later # {}
    <3>1. later \in SUBSET Nat
      OBVIOUS
    <3>2. Min(later) \in later /\ \A x \in later : Min(later) <= x
      BY <2>4, <3>1, MinExists
    <3>3. n = Min(later) /\ n \in 1 .. Len(s) /\ f[t] < f[s[n]]
      BY <2>1, <2>4, <3>2
    <3>4. \A i \in 1 .. Len(s) : i < n => i \notin later
      BY <2>2, <3>2, <3>3
    <3>. QED BY <2>2, <3>3, <3>4
  <2>. QED BY <2>3, <2>4
<1>. HIDE DEF n
<1>2. /\ Len(r) = Len(s) + 1 /\ Len(s) \in Nat
      /\ \A i \in 1 .. Len(s) + 1 :
            r[i] = IF i < n THEN s[i] ELSE IF i = n THEN t ELSE s[i - 1]
  BY <1>1, InsertAtIndex
<1>. HIDE DEF r
<1>3. f \in [Threads -> Prio] /\ Prio \subseteq Nat /\ \A i \in 1 .. Len(s) : s[i] \in Threads
  BY PrioNat
<1>. HIDE DEF f
<1>4. \A i \in 1 .. Len(s) : f[s[i]] \in Nat /\ f[t] \in Nat
  BY <1>3
<1>5. \A i, j \in 1 .. Len(s) : i < j => f[s[i]] <= f[s[j]]
  BY DEF InOrder, f
<1>6. ASSUME NEW i \in 1 .. Len(r), NEW j \in 1 .. Len(r), i < j
      PROVE  f[r[i]] <= f[r[j]]
  <2>1. CASE i = n
    <3>1. r[i] = t /\ j - 1 \in 1 .. Len(s) /\ r[j] = s[j - 1] /\ n <= j - 1
          /\ n \in 1 .. Len(s)
      BY <1>1, <1>2, <1>6, <2>1
    <3>2. f[t] < f[s[n]] /\ f[s[n]] <= f[s[j - 1]]
      BY <1>1, <1>4, <1>5, <3>1
    <3>. QED BY <1>4, <3>1, <3>2
  <2>2. CASE j = n
    <3>1. r[j] = t /\ i \in 1 .. Len(s) /\ r[i] = s[i] /\ i < n
      BY <1>1, <1>2, <1>6, <2>2
    <3>. QED BY <1>1, <1>4, <3>1
  <2>3. CASE i # n /\ j # n
    <3>. DEFINE at(x) == IF x < n THEN x ELSE x - 1
    <3>1. /\ at(i) \in 1 .. Len(s) /\ r[i] = s[at(i)]
          /\ at(j) \in 1 .. Len(s) /\ r[j] = s[at(j)] /\ at(i) < at(j)
      BY <1>1, <1>2, <1>6, <2>3
    <3>. HIDE DEF at
    <3>. QED BY <1>5, <3>1
  <2>. QED BY <2>1, <2>2, <2>3
<1>7. InOrder(r, f)
  BY <1>6 DEF InOrder
<1>. QED BY <1>7 DEF r, f, n

\* No priority has changed, and at most a thread has left each suspend list.
RanksKept(ks, r) ==
    /\ r.prio = ks.prio
    /\ \A w \in WaitLists : \/ r.wait[w] = ks.wait[w]
                            \/ \E t \in Threads : r.wait[w] = RemoveFirst(ks.wait[w], t)

LEMMA ScheduleRanks ==
    ASSUME NEW ks, KernelOK(ks)
    PROVE  RanksKept(ks, rt_schedule(ks))
<1>1. Switched(ks, rt_schedule(ks))
  BY ScheduleOK
<1>. QED BY <1>1 DEF Switched, RanksKept

LEMMA ErrorRanks ==
    ASSUME NEW ks, KernelOK(ks), NEW t \in Threads, NEW e \in Errno
    PROVE  RanksKept(ks, [ks EXCEPT !.err[t] = e])
<1>1. ErrorSet(ks, [ks EXCEPT !.err[t] = e], t, e)
  BY SetErrorOK
<1>. QED BY <1>1 DEF ErrorSet, RanksKept

\* rt_schedule_insert_thread touches the ready queue only.
LEMMA InsertRanks ==
    ASSUME NEW ks \in KernelState, NEW t \in Threads
    PROVE  /\ rt_schedule_insert_thread(ks, t).prio = ks.prio
           /\ rt_schedule_insert_thread(ks, t).wait = ks.wait
BY DEF rt_schedule_insert_thread, KernelState

LEMMA UnlinkRanks ==
    ASSUME NEW ks, KernelOK(ks), NEW t \in Threads
    PROVE  /\ Unlink(ks, t) \in KernelState /\ Unlink(ks, t).prio = ks.prio
           /\ Unlink(ks, t).wait = [w \in WaitLists |-> RemoveFirst(ks.wait[w], t)]
<1>1. QueueOK(ks) /\ ks \in KernelState
  BY DEF KernelOK, QueueOK
<1>2. Unlink(ks, t) \in KernelState /\ Unlink(ks, t).prio = ks.prio
  BY <1>1, UnlinkFields
<1>3. Unlink(ks, t).wait = [w \in WaitLists |-> RemoveFirst(ks.wait[w], t)]
  BY <1>1 DEF Unlink, KernelState
<1>. QED BY <1>2, <1>3

LEMMA ResumeRanks ==
    ASSUME NEW ks, KernelOK(ks), NEW t \in Threads, ks.stat[t] = "suspend"
    PROVE  /\ rt_thread_resume(ks, t).prio = ks.prio
           /\ rt_thread_resume(ks, t).wait = [w \in WaitLists |-> RemoveFirst(ks.wait[w], t)]
<1>. DEFINE u == Unlink(ks, t)
            e == [u EXCEPT !.timers = @ \ {t}]
<1>1. /\ u \in KernelState /\ u.prio = ks.prio
      /\ u.wait = [w \in WaitLists |-> RemoveFirst(ks.wait[w], t)]
  BY UnlinkRanks
<1>2. rt_thread_resume(ks, t) = rt_schedule_insert_thread(e, t)
  BY DEF rt_thread_resume
<1>. HIDE DEF u
<1>3. e \in KernelState /\ e.prio = u.prio /\ e.wait = u.wait
  BY <1>1 DEF KernelState
<1>. HIDE DEF e
<1>. QED BY <1>1, <1>2, <1>3, InsertRanks

LEMMA TimeoutRanks ==
    ASSUME NEW ks, KernelOK(ks), NEW t \in Threads
    PROVE  RanksKept(ks, rt_thread_timeout(ks, t))
<1>. DEFINE u == Unlink(ks, t)
            e == [u EXCEPT !.err[t] = "ETIMEOUT", !.timers = @ \ {t}]
            r == rt_schedule_insert_thread(e, t)
<1>1. /\ u \in KernelState /\ u.prio = ks.prio
      /\ u.wait = [w \in WaitLists |-> RemoveFirst(ks.wait[w], t)]
  BY UnlinkRanks
<1>2. rt_thread_timeout(ks, t) = r
  BY DEF rt_thread_timeout
<1>. HIDE DEF u
<1>3. e \in KernelState /\ e.prio = u.prio /\ e.wait = u.wait
  BY <1>1 DEF KernelState, Errno
<1>. HIDE DEF e
<1>4. r.prio = e.prio /\ r.wait = e.wait
  BY <1>3, InsertRanks
<1>. HIDE DEF r
<1>5. r.prio = ks.prio /\ \A w \in WaitLists : r.wait[w] = RemoveFirst(ks.wait[w], t)
  BY <1>1, <1>3, <1>4
<1>. QED BY <1>2, <1>5 DEF RanksKept

LEMMA ResumeErrorRanks ==
    ASSUME NEW ks, KernelOK(ks), NEW w \in WaitLists, ks.wait[w] # <<>>
    PROVE  RanksKept(ks, ResumeWithError(ks, w))
<1>1. PICK t \in Threads :
         t = Head(ks.wait[w]) /\ t \in ToSet(ks.wait[w]) /\ ks.stat[t] = "suspend"
  BY WakesHead
<1>. DEFINE e == [ks EXCEPT !.err[t] = "ERROR"]
            r == rt_thread_resume(e, t)
<1>2. ErrorSet(ks, e, t, "ERROR")
  <2>1. "ERROR" \in Errno
    BY DEF Errno
  <2>. QED BY <2>1, SetErrorOK
<1>3. ResumeWithError(ks, w) = rt_ipc_list_resume(e, w)
  BY <1>1 DEF ResumeWithError
<1>. HIDE DEF e
<1>4. ResumeWithError(ks, w) = r
  BY <1>1, <1>2, <1>3 DEF rt_ipc_list_resume, ErrorSet
<1>5. r.prio = e.prio /\ r.wait = [v \in WaitLists |-> RemoveFirst(e.wait[v], t)]
  <2>1. KernelOK(e) /\ e.stat[t] = "suspend"
    BY <1>1, <1>2 DEF ErrorSet
  <2>. QED BY <2>1, ResumeRanks
<1>. HIDE DEF r
<1>6. r.prio = ks.prio /\ \A v \in WaitLists : r.wait[v] = RemoveFirst(ks.wait[v], t)
  BY <1>2, <1>5 DEF ErrorSet
<1>. QED BY <1>4, <1>6 DEF RanksKept

LEMMA SleepRanks ==
    ASSUME NEW ks, KernelOK(ks), NEW t \in Threads, NEW time, ks.stat[t] = "running"
    PROVE  RanksKept(ks, StartTimer(rt_thread_suspend(ks, t), t, time))
<1>. DEFINE s == rt_thread_suspend(ks, t)
<1>1. Suspended(ks, s, t)
  BY SuspendOK
<1>. HIDE DEF s
<1>2. KernelOK(s) /\ s.stat[t] = "suspend"
  BY <1>1 DEF Suspended, KernelOK, QueueOK, KernelState
<1>3. TimerSet(s, StartTimer(s, t, time))
  BY <1>2, StartTimerOK
<1>4. RanksKept(ks, StartTimer(s, t, time))
  BY <1>1, <1>3 DEF Suspended, TimerSet, RanksKept
<1>. QED BY <1>4 DEF s

\* Where rt_ipc_list_suspend puts a thread.
LEMMA WaitRanks ==
    ASSUME NEW ks, KernelOK(ks), NEW w \in WaitLists, NEW t \in Threads, NEW flag, NEW time,
           ks.stat[t] = "running"
    PROVE  LET r == StartTimer(rt_ipc_list_suspend(ks, w, t, flag), t, time) IN
           /\ r.prio = ks.prio
           /\ r.wait[w] = InsertAt(ks.wait[w], Position(ks, ks.wait[w], ks.prio[t], flag), t)
           /\ \A v \in WaitLists \ {w} : r.wait[v] = ks.wait[v]
<1>. DEFINE s == rt_thread_suspend(ks, t)
            q == InsertAt(s.wait[w], Position(s, s.wait[w], s.prio[t], flag), t)
            l == rt_ipc_list_suspend(ks, w, t, flag)
            r == StartTimer(l, t, time)
<1>1. Suspended(ks, s, t)
  BY SuspendOK
<1>2. l = [s EXCEPT !.wait[w] = q]
  BY DEF rt_ipc_list_suspend
<1>3. Queued(ks, l, w, t)
  BY ListSuspendOK
<1>4. KernelOK(l) /\ l.stat[t] = "suspend"
  BY <1>3 DEF Queued, KernelOK, QueueOK, KernelState
<1>5. TimerSet(l, r)
  <2>. HIDE DEF l
  <2>. QED BY <1>4, StartTimerOK
<1>. HIDE DEF s
<1>6. s \in KernelState
  BY <1>1 DEF Suspended, KernelOK, QueueOK
<1>7. q = InsertAt(ks.wait[w], Position(ks, ks.wait[w], ks.prio[t], flag), t)
  BY <1>1 DEF Suspended, Position
<1>8. l.wait[w] = q
  <2>. HIDE DEF q, l
  <2>. QED BY <1>2, <1>6 DEF KernelState
<1>. HIDE DEF l, q, r
<1>9. /\ r.prio = ks.prio /\ r.wait[w] = q
      /\ \A v \in WaitLists \ {w} : r.wait[v] = ks.wait[v]
  BY <1>3, <1>5, <1>8 DEF Queued, TimerSet
<1>. QED BY <1>7, <1>9 DEF r, l

\* What inheritance rests on: the owner goes back to its own priority, everybody
\* else has theirs, and, with RT_IPC_FLAG_PRIO, the list is in order and its
\* members are not more urgent than the owner.
PrioInv ==
    /\ \A m \in Objects : \A t \in Threads :
          mutex[m].owner = t => mutex[m].orig = InitPrio[t]
    /\ BoostEnds
    /\ Flag = "PRIO" => Inherited
    /\ UrgentFirst

\* A step that changes no priority, no owner, and adds nobody to a list.
LEMMA RanksFrame ==
    ASSUME IInv, PrioInv, RanksKept(k, k'),
           \A m \in Objects : mutex'[m].owner = mutex[m].owner /\ mutex'[m].orig = mutex[m].orig
    PROVE  PrioInv'
<1>1. /\ k'.prio = k.prio
      /\ \A m \in Objects : k.wait[m] \in Seq(Threads) /\ IsInjective(k.wait[m])
  BY MutexAssumption DEF RanksKept, IInv, TypeOK, KernelState, KernelOK, QueueOK, WaitOK
<1>2. ASSUME NEW m \in Objects, InOrder(k.wait[m], k.prio)
      PROVE  InOrder(k'.wait[m], k.prio)
  BY <1>1, <1>2, InOrderRemove, MutexAssumption DEF RanksKept
<1>3. ASSUME NEW m \in Objects
      PROVE  ToSet(k'.wait[m]) \subseteq ToSet(k.wait[m])
  <2>1. CASE k'.wait[m] = k.wait[m]
    BY <2>1
  <2>2. ASSUME NEW t \in Threads, k'.wait[m] = RemoveFirst(k.wait[m], t)
        PROVE  ToSet(k'.wait[m]) \subseteq ToSet(k.wait[m])
    <3>1. ToSet(RemoveFirst(k.wait[m], t)) = ToSet(k.wait[m]) \ {t}
      BY <1>1, RemoveFacts
    <3>. QED BY <2>2, <3>1
  <2>. QED BY <2>1, <2>2, MutexAssumption DEF RanksKept
<1>4. UrgentFirst'
  <2>1. \A m \in Objects : Sorted(m) <=> InOrder(k.wait[m], k.prio)
    BY DEF Sorted, InOrder
  <2>2. \A m \in Objects : Sorted(m)' <=> InOrder(k'.wait[m], k.prio)
    BY <1>1 DEF Sorted, InOrder
  <2>. QED BY <1>2, <2>1, <2>2 DEF PrioInv, UrgentFirst
<1>5. BoostEnds'
  BY <1>1 DEF PrioInv, BoostEnds
<1>6. Flag = "PRIO" => Inherited'
  BY <1>1, <1>3 DEF PrioInv, Inherited
<1>. QED BY <1>4, <1>5, <1>6 DEF PrioInv

\* The mutex is free: nobody waits, and the caller has its own priority.
LEMMA TakeFreePrio ==
    ASSUME IInv, PrioInv, OneMutex, NEW t \in Threads, NEW m \in Objects,
           Calls(t, m), TakeFree(t, m)
    PROVE  PrioInv'
<1>1. /\ k.cur = t /\ pc[t] = "run" /\ mutex[m].owner # t /\ mutex[m].value > 0
      /\ mutex' = [mutex EXCEPT ![m] = Owned([mutex[m] EXCEPT !.value = @ - 1], t, k)]
      /\ k' = ResetError(t)
  BY DEF Calls, At, TakeFree
<1>2. /\ mutex[m] \in MutexState /\ k.prio[t] \in Prio
      /\ mutex[m].value = 1 /\ mutex[m].owner = None /\ ToSet(k.wait[m]) = {}
  BY <1>1, AtRunFacts DEF MutexState
<1>3. KernelOK(k) /\ mutex \in [Objects -> MutexState]
  BY DEF IInv, TypeOK
<1>4. k'.prio = k.prio /\ k'.wait = k.wait
  <2>1. "EOK" \in Errno
    BY DEF Errno
  <2>. QED BY <1>1, <1>3, <2>1, SetErrorOK DEF ResetError, ErrorSet
<1>5. mutex'[m].owner = t /\ mutex'[m].orig = k.prio[t]
  <2>. DEFINE mu == [mutex[m] EXCEPT !.value = @ - 1]
  <2>1. mu \in MutexState
    BY <1>2 DEF MutexState
  <2>2. mutex'[m] = Owned(mu, t, k)
    BY <1>1, <1>3
  <2>. HIDE DEF mu
  <2>. QED BY <1>2, <2>1, <2>2, OwnedOK DEF OwnedBy
<1>6. \A o \in Objects : o = m
  BY DEF OneMutex
<1>7. k.prio[t] = InitPrio[t] /\ \A x \in Threads : k.prio[x] = InitPrio[x]
  BY <1>2, <1>6, IpcAssumption DEF PrioInv, BoostEnds
<1>8. UrgentFirst'
  BY <1>4 DEF PrioInv, UrgentFirst, Sorted
<1>9. BoostEnds'
  BY <1>4, <1>7 DEF BoostEnds
<1>10. Inherited'
  BY <1>2, <1>4, <1>6 DEF Inherited
<1>. QED BY <1>5, <1>6, <1>7, <1>8, <1>9, <1>10 DEF PrioInv

\* The owner has at least the urgency of the new waiter, which is put in order.
LEMMA TakeBlockPrio ==
    ASSUME IInv, PrioInv, OneMutex, NEW t \in Threads, NEW m \in Objects, NEW time,
           Calls(t, m), TakeBlock(t, m, time)
    PROVE  PrioInv'
<1>. DEFINE e == ResetError(t)
            o == mutex[m].owner
            b == Inherit(e, o, t)
<1>1. /\ k.cur = t /\ pc[t] = "run" /\ o # t /\ mutex[m].value = 0
      /\ k' = StartTimer(rt_ipc_list_suspend(b, m, t, Flag), t, time)
      /\ mutex' = mutex
  BY DEF Calls, At, TakeBlock
<1>2. /\ o \in Threads /\ k.stat[t] = "running" /\ KernelOK(k) /\ m \in WaitLists
  BY <1>1, AtRunFacts, MutexAssumption DEF IInv, MutexState
<1>3. /\ KernelOK(b) /\ b.stat = k.stat
      /\ \A w \in WaitLists : b.wait[w] = k.wait[w]
  BY <1>2, BoostOK, ZenonT(60) DEF ResetError
<1>4. /\ b.prio \in [Threads -> Prio] /\ k.prio \in [Threads -> Prio] /\ Prio \subseteq Nat
      /\ \A x \in Threads : x # o => b.prio[x] = k.prio[x]
      /\ b.prio[o] <= k.prio[o] /\ b.prio[o] <= b.prio[t]
  <2>1. e.prio = k.prio /\ KernelOK(e)
    <3>1. "EOK" \in Errno
      BY DEF Errno
    <3>. QED BY <1>2, <3>1, SetErrorOK DEF ResetError, ErrorSet
  <2>2. /\ k.prio \in [Threads -> Prio] /\ b.prio \in [Threads -> Prio] /\ Prio \subseteq Nat
    BY <1>2, <1>3, PrioNat DEF KernelOK, QueueOK, KernelState
  <2>. HIDE DEF e
  <2>3. CASE e.prio[t] < e.prio[o]
    <3>1. b = ChangePriority(e, o, e.prio[t])
      BY <2>3 DEF Inherit
    <3>2. e.prio[t] \in Prio
      BY <2>1, <2>2
    <3>3. Requeued(e, b, o, e.prio[t])
      BY <1>2, <2>1, <3>1, <3>2, ChangePriorityOK
    <3>. HIDE DEF b, o
    <3>4. b.prio = [k.prio EXCEPT ![o] = k.prio[t]] /\ o # t
      BY <1>1, <2>1, <3>3 DEF Requeued
    <3>5. k.prio[t] \in Nat /\ k.prio[o] \in Nat /\ k.prio[t] < k.prio[o]
      BY <1>2, <2>1, <2>2, <2>3
    <3>6. b.prio[o] = k.prio[t] /\ b.prio[t] = k.prio[t]
      BY <1>2, <2>2, <3>4
    <3>7. \A x \in Threads : x # o => b.prio[x] = k.prio[x]
      BY <2>2, <3>4
    <3>. QED BY <2>2, <3>5, <3>6, <3>7
  <2>4. CASE ~ (e.prio[t] < e.prio[o])
    <3>1. b = e
      BY <2>4 DEF Inherit
    <3>. HIDE DEF b, o
    <3>2. k.prio[t] \in Nat /\ k.prio[o] \in Nat /\ ~ (k.prio[t] < k.prio[o])
      BY <1>2, <2>1, <2>2, <2>4
    <3>3. b.prio = k.prio
      BY <2>1, <3>1
    <3>. QED BY <2>2, <3>2, <3>3
  <2>. QED BY <2>3, <2>4
<1>. HIDE DEF b
<1>5. /\ k'.prio = b.prio
      /\ k'.wait[m] = InsertAt(b.wait[m], Position(b, b.wait[m], b.prio[t], Flag), t)
  BY <1>1, <1>2, <1>3, WaitRanks
<1>6. \A n \in Objects : n = m
  BY DEF OneMutex
<1>7. /\ k.wait[m] \in Seq(Threads) /\ IsInjective(k.wait[m]) /\ t \notin ToSet(k.wait[m])
      /\ o \notin ToSet(k.wait[m]) /\ ToSet(k.wait[m]) \subseteq Threads
  <2>1. k.wait[m] \in Seq(Threads) /\ IsInjective(k.wait[m])
    BY <1>2 DEF KernelOK, QueueOK, KernelState, WaitOK
  <2>2. t \notin ToSet(k.wait[m])
    BY <1>1, CurrentRuns
  <2>3. o \notin ToSet(k.wait[m])
    BY DEF IInv, MutexOK
  <2>. QED BY <2>1, <2>2, <2>3, ToSetDef
<1>8. ToSet(k'.wait[m]) = ToSet(k.wait[m]) \union {t}
  <2>1. Position(b, b.wait[m], b.prio[t], Flag) \in 1 .. Len(b.wait[m]) + 1
    BY <1>2, <1>3, <1>7, PositionInRange
  <2>. QED BY <1>2, <1>3, <1>5, <1>7, <2>1, InsertAtFacts
<1>9. BoostEnds'
  <2>. HIDE DEF o
  <2>1. \A x \in Threads : x # o => k'.prio[x] = k.prio[x]
    BY <1>4, <1>5
  <2>. QED BY <1>1, <1>6, <2>1 DEF BoostEnds, PrioInv, o
<1>10. ASSUME Flag = "PRIO" PROVE Inherited'
  <2>1. ASSUME NEW x \in ToSet(k'.wait[m]) PROVE k'.prio[o] <= k'.prio[x]
    <3>1. CASE x = t
      BY <1>4, <1>5, <3>1
    <3>2. CASE x # t
      <4>1. x \in ToSet(k.wait[m]) /\ x # o /\ x \in Threads
        BY <1>7, <1>8, <2>1, <3>2
      <4>2. k.prio[o] <= k.prio[x]
        BY <1>10, <4>1 DEF PrioInv, Inherited
      <4>. HIDE DEF o
      <4>3. /\ k.prio[o] \in Nat /\ k.prio[x] \in Nat /\ b.prio[o] \in Nat
            /\ b.prio[o] <= k.prio[o] /\ b.prio[x] = k.prio[x]
        BY <1>2, <1>4, <4>1
      <4>. QED BY <1>5, <4>2, <4>3
    <3>. QED BY <3>1, <3>2
  <2>. QED BY <1>1, <1>6, <2>1 DEF Inherited
<1>11. ASSUME Flag = "PRIO" PROVE Sorted(m)'
  <2>1. InOrder(k.wait[m], k.prio)
    BY <1>11 DEF PrioInv, UrgentFirst, Sorted, InOrder
  <2>2. \A i \in 1 .. Len(k.wait[m]) : b.prio[k.wait[m][i]] = k.prio[k.wait[m][i]]
    <3>1. \A i \in 1 .. Len(k.wait[m]) : k.wait[m][i] \in ToSet(k.wait[m])
      BY <1>7, ToSetDef
    <3>. QED BY <1>4, <1>7, <3>1
  <2>3. InOrder(b.wait[m], b.prio)
    BY <1>2, <1>3, <2>1, <2>2, SMTT(30) DEF InOrder
  <2>4. b.wait[m] \in Seq(Threads)
    BY <1>2, <1>3, <1>7
  <2>5. InOrder(k'.wait[m], k'.prio)
    BY <1>4, <1>5, <1>11, <2>3, <2>4, InOrderInsert
  <2>. QED BY <2>5 DEF InOrder, Sorted
<1>12. UrgentFirst'
  BY <1>6, <1>11 DEF UrgentFirst
<1>. QED BY <1>1, <1>9, <1>10, <1>12 DEF PrioInv

\* The releasing thread is back at its own priority.
LEMMA RestoredPrio ==
    ASSUME IInv, PrioInv, NEW t \in Threads, NEW m \in Objects, mutex[m].owner = t
    PROVE  LET r == Restored(t, m) IN
           /\ KernelOK(r) /\ r.prio[t] = InitPrio[t]
           /\ \A x \in Threads : x # t => r.prio[x] = k.prio[x]
           /\ \A w \in WaitLists : r.wait[w] = k.wait[w]
<1>. DEFINE r == Restored(t, m)
<1>1. /\ KernelOK(k) /\ mutex[m].orig = InitPrio[t] /\ mutex[m].orig \in Prio
      /\ k.prio \in [Threads -> Prio]
  <2>1. KernelOK(k) /\ k.prio \in [Threads -> Prio]
    BY DEF IInv, TypeOK, KernelState
  <2>2. mutex[m].orig = InitPrio[t]
    BY DEF PrioInv
  <2>. QED BY <2>1, <2>2, KernelAssumption
<1>2. CASE mutex[m].orig # k.prio[t]
  <2>1. r = ChangePriority(k, t, mutex[m].orig)
    BY <1>2 DEF Restored
  <2>2. Requeued(k, r, t, mutex[m].orig)
    BY <1>1, <2>1, ChangePriorityOK
  <2>. HIDE DEF r
  <2>3. /\ KernelOK(r) /\ r.prio[t] = InitPrio[t]
        /\ \A x \in Threads : x # t => r.prio[x] = k.prio[x]
        /\ \A w \in WaitLists : r.wait[w] = k.wait[w]
    BY <1>1, <2>2 DEF Requeued
  <2>. QED BY <2>3 DEF r
<1>3. CASE mutex[m].orig = k.prio[t]
  <2>1. r = k
    BY <1>3 DEF Restored
  <2>. QED BY <1>1, <1>3, <2>1
<1>. QED BY <1>2, <1>3

LEMMA ReleaseFreePrio ==
    ASSUME IInv, PrioInv, OneMutex, NEW t \in Threads, NEW m \in Objects,
           Calls(t, m), ReleaseFree(t, m)
    PROVE  PrioInv'
<1>. DEFINE r == Restored(t, m)
            new == [mutex[m] EXCEPT !.value = @ + 1, !.owner = None,
                                    !.orig = NoPrio, !.hold = 0]
<1>1. /\ mutex[m].owner = t /\ k.wait[m] = <<>> /\ k' = r
      /\ mutex' = [mutex EXCEPT ![m] = new]
  BY DEF ReleaseFree
<1>2. /\ KernelOK(r) /\ r.prio[t] = InitPrio[t]
      /\ \A x \in Threads : x # t => r.prio[x] = k.prio[x]
      /\ \A w \in WaitLists : r.wait[w] = k.wait[w]
  BY <1>1, RestoredPrio
<1>. HIDE DEF r
<1>3. mutex'[m].owner = None
  <2>1. mutex \in [Objects -> MutexState]
    BY DEF IInv, TypeOK
  <2>2. new.owner = None
    BY <2>1 DEF MutexState
  <2>. HIDE DEF new
  <2>. QED BY <1>1, <2>1, <2>2
<1>4. \A n \in Objects : n = m
  BY DEF OneMutex
<1>5. \A x \in Threads : k'.prio[x] = InitPrio[x]
  BY <1>1, <1>2, <1>4 DEF PrioInv, BoostEnds
<1>6. k'.wait[m] = <<>>
  BY <1>1, <1>2, MutexAssumption
<1>7. ToSet(k'.wait[m]) = {}
  BY <1>6 DEF ToSet
<1>8. Inherited' /\ UrgentFirst'
  <2>1. Inherited'
    BY <1>4, <1>7 DEF Inherited
  <2>2. Sorted(m)'
    BY <1>6 DEF Sorted
  <2>. QED BY <1>4, <2>1, <2>2 DEF UrgentFirst
<1>9. BoostEnds'
  BY <1>5 DEF BoostEnds
<1>. QED BY <1>3, <1>4, <1>8, <1>9, IpcAssumption DEF PrioInv

\* The first of the list is the most urgent, so the others wait for nobody less
\* urgent than themselves.
LEMMA HandOverPrio ==
    ASSUME IInv, PrioInv, OneMutex, NEW t \in Threads, NEW m \in Objects,
           Calls(t, m), ReleaseHandOver(t, m)
    PROVE  PrioInv'
<1>. DEFINE r == Restored(t, m)
            mu == [mutex[m] EXCEPT !.hold = 0]
<1>1. /\ mutex[m].owner = t /\ k.wait[m] # <<>> /\ k' = rt_ipc_list_resume(r, m)
      /\ mutex' = [mutex EXCEPT ![m] = Owned(mu, Head(r.wait[m]), r)]
  BY DEF ReleaseHandOver
<1>2. /\ KernelOK(r) /\ r.prio[t] = InitPrio[t]
      /\ \A x \in Threads : x # t => r.prio[x] = k.prio[x]
      /\ \A w \in WaitLists : r.wait[w] = k.wait[w]
  BY <1>1, RestoredPrio
<1>. HIDE DEF r
<1>3. m \in WaitLists /\ mutex \in [Objects -> MutexState] /\ r \in KernelState
  BY <1>2, MutexAssumption DEF IInv, TypeOK, KernelOK, QueueOK
<1>4. PICK u \in Threads :
         u = Head(r.wait[m]) /\ u \in ToSet(r.wait[m]) /\ r.stat[u] = "suspend"
  BY <1>1, <1>2, <1>3, WakesHead
<1>5. u # t /\ u \in ToSet(k.wait[m])
  BY <1>1, <1>2, <1>3, <1>4 DEF IInv, MutexOK
<1>6. \A n \in Objects : n = m
  BY DEF OneMutex
<1>7. \A x \in Threads : r.prio[x] = InitPrio[x]
  BY <1>1, <1>2, <1>6 DEF PrioInv, BoostEnds
<1>8. k'.prio = r.prio /\ k'.wait[m] = RemoveFirst(k.wait[m], u)
  <2>1. k' = rt_thread_resume(r, u)
    BY <1>1, <1>4 DEF rt_ipc_list_resume
  <2>2. /\ rt_thread_resume(r, u).prio = r.prio
        /\ rt_thread_resume(r, u).wait = [w \in WaitLists |-> RemoveFirst(r.wait[w], u)]
    BY <1>2, <1>4, ResumeRanks
  <2>. QED BY <1>2, <1>3, <2>1, <2>2
<1>9. mutex'[m].owner = u /\ mutex'[m].orig = InitPrio[u]
  <2>1. mu \in MutexState
    <3>1. 0 \in 0 .. HoldMod - 1 /\ mutex[m] \in MutexState
      BY <1>3, MutexAssumption
    <3>. QED BY <3>1 DEF MutexState
  <2>2. mutex'[m] = Owned(mu, u, r)
    BY <1>1, <1>3, <1>4
  <2>3. r.prio[u] \in Prio
    BY <1>3 DEF KernelState
  <2>. HIDE DEF mu
  <2>. QED BY <1>7, <2>1, <2>2, <2>3, OwnedOK DEF OwnedBy
<1>10. k.wait[m] \in Seq(Threads) /\ IsInjective(k.wait[m])
  BY <1>3 DEF IInv, KernelOK, QueueOK, KernelState, WaitOK
<1>11. \A x \in ToSet(k.wait[m]) : x \in Threads /\ x # t /\ k.prio[x] = r.prio[x]
  <2>1. \A x \in ToSet(k.wait[m]) : x # t
    BY <1>1 DEF IInv, MutexOK
  <2>. QED BY <1>2, <1>10, <2>1, ToSetDef
<1>12. ASSUME Flag = "PRIO" PROVE Inherited' /\ Sorted(m)'
  <2>1. InOrder(k.wait[m], k.prio)
    BY <1>12 DEF PrioInv, UrgentFirst, Sorted, InOrder
  <2>2. \A i \in 1 .. Len(k.wait[m]) : r.prio[k.wait[m][i]] = k.prio[k.wait[m][i]]
    <3>1. \A i \in 1 .. Len(k.wait[m]) : k.wait[m][i] \in ToSet(k.wait[m])
      BY <1>10, ToSetDef
    <3>. QED BY <1>11, <3>1
  <2>3. InOrder(k.wait[m], r.prio)
    BY <2>1, <2>2 DEF InOrder
  <2>4. InOrder(k'.wait[m], k'.prio)
    BY <1>8, <1>10, <2>3, InOrderRemove
  <2>5. ASSUME NEW x \in ToSet(k'.wait[m]) PROVE k'.prio[u] <= k'.prio[x]
    <3>1. x \in ToSet(k.wait[m])
      <4>1. ToSet(RemoveFirst(k.wait[m], u)) = ToSet(k.wait[m]) \ {u}
        BY <1>10, RemoveFacts
      <4>. QED BY <1>8, <2>5, <4>1
    <3>2. PICK i \in 1 .. Len(k.wait[m]) : k.wait[m][i] = x
      BY <1>10, <3>1, ToSetDef
    <3>3. u = k.wait[m][1] /\ 1 \in 1 .. Len(k.wait[m])
      BY <1>1, <1>2, <1>3, <1>4, <1>10
    <3>4. r.prio[u] \in Nat
      BY <1>3, PrioNat DEF KernelState
    <3>5. CASE i = 1
      BY <1>8, <3>2, <3>3, <3>4, <3>5
    <3>6. CASE i # 1
      <4>1. 1 < i
        BY <3>6
      <4>. QED BY <1>8, <2>3, <3>2, <3>3, <4>1 DEF InOrder
    <3>. QED BY <3>5, <3>6
  <2>6. Inherited'
    BY <1>6, <1>9, <2>5 DEF Inherited
  <2>7. Sorted(m)'
    BY <2>4 DEF InOrder, Sorted
  <2>. QED BY <2>6, <2>7
<1>13. UrgentFirst'
  BY <1>6, <1>12 DEF UrgentFirst
<1>14. BoostEnds'
  BY <1>7, <1>8 DEF BoostEnds
<1>. QED BY <1>6, <1>9, <1>12, <1>13, <1>14 DEF PrioInv

LEMMA PrioInit ==
    ASSUME Init
    PROVE  PrioInv
<1>1. /\ k = Booted /\ \A m \in Objects : mutex[m] = FreshMutex
  BY DEF Init, IpcInit
<1>2. k.prio = InitPrio /\ \A w \in WaitLists : k.wait[w] = <<>>
  <2>1. \A w \in WaitLists : k.wait[w] \in Seq(Threads)
    BY <1>1, BootedOK DEF KernelOK, QueueOK, KernelState
  <2>2. ASSUME NEW w \in WaitLists PROVE k.wait[w] = <<>>
    <3>1. ToSet(k.wait[w]) = {}
      BY <1>1, BootedOK
    <3>. QED BY <2>1, <3>1, ToSetDef
  <2>. QED BY <1>1, <2>2, BootedOK
<1>3. \A m \in Objects : k.wait[m] = <<>> /\ ToSet(k.wait[m]) = {}
  BY <1>2, MutexAssumption DEF ToSet
<1>4. BoostEnds /\ Inherited /\ UrgentFirst
  <2>1. BoostEnds
    BY <1>2 DEF BoostEnds
  <2>2. Inherited
    BY <1>3 DEF Inherited
  <2>3. \A m \in Objects : Sorted(m)
    <3>1. \A m \in Objects : Len(k.wait[m]) = 0
      BY <1>3
    <3>. QED BY <3>1 DEF Sorted
  <2>. QED BY <2>1, <2>2, <2>3 DEF UrgentFirst
<1>5. FreshMutex.owner = None
  BY DEF FreshMutex
<1>. QED BY <1>1, <1>4, <1>5, IpcAssumption DEF PrioInv

LEMMA PrioNext ==
    ASSUME IInv, PrioInv, OneMutex, [Next]_vars
    PROVE  PrioInv'
<1>0. KernelOK(k) /\ RanksKept(k, k)
  BY DEF IInv, RanksKept
<1>1. CASE UNCHANGED vars
  BY <1>0, <1>1, RanksFrame DEF vars
<1>2. CASE Tick /\ Outside
  <2>1. RanksKept(k, k')
    <3>1. CASE TickEnter \/ TickSchedule \/ TickLeave
      BY <1>0, <3>1, ScheduleRanks DEF TickEnter, TickSchedule, TickLeave
    <3>2. CASE \E t \in Threads : TickExpire(t)
      BY <1>0, <3>2, TimeoutRanks DEF TickExpire
    <3>. QED BY <1>2, <3>1, <3>2 DEF Tick
  <2>2. mutex' = mutex
    BY <1>2 DEF Outside
  <2>. QED BY <2>1, <2>2, RanksFrame
<1>3. ASSUME NEW t \in Threads, KernelStep(t)
      PROVE  PrioInv'
  <2>1. mutex' = mutex
    BY <1>3 DEF KernelStep, TakeReturn
  <2>2. RanksKept(k, k')
    <3>1. CASE TakeReturn(t)
      BY <1>0, <3>1 DEF TakeReturn
    <3>2. CASE \/ Resched(t, "take_sched", "take_woken")
               \/ Resched(t, "rel_sched", "run")
               \/ Resched(t, "sleep_sched", "slept")
      BY <1>0, <3>2, ScheduleRanks DEF Resched
    <3>3. CASE DetachSteps(t)
      <4>1. CASE ResumeAllWake(t, arg[t], "det_wake", "det_test")
        <5>1. arg[t] \in WaitLists
          BY <4>1, MutexAssumption DEF ResumeAllWake, At, IInv, Enlisted, InCall
        <5>2. CASE k.wait[arg[t]] = <<>>
          <6>1. k' = k
            BY <4>1, <5>2 DEF ResumeAllWake
          <6>. QED BY <1>0, <6>1
        <5>3. CASE k.wait[arg[t]] # <<>>
          <6>1. k' = ResumeWithError(k, arg[t])
            BY <4>1, <5>3 DEF ResumeAllWake
          <6>. QED BY <1>0, <5>1, <5>3, <6>1, ResumeErrorRanks
        <5>. QED BY <5>2, <5>3
      <4>2. CASE ResumeAllTest(t, arg[t], "det_test", "det_wake", "det_object")
        BY <1>0, <4>2 DEF ResumeAllTest
      <4>3. CASE DetachObject(t)
        BY <1>0, <4>3 DEF DetachObject
      <4>. QED BY <3>3, <4>1, <4>2, <4>3 DEF DetachSteps
    <3>4. CASE SleepReturn(t)
      <4>1. "EOK" \in Errno
        BY DEF Errno
      <4>. QED BY <1>0, <3>4, <4>1, ErrorRanks DEF SleepReturn, ResetError
    <3>. QED BY <1>3, <3>1, <3>2, <3>3, <3>4 DEF KernelStep, SleepSteps
  <2>. QED BY <2>1, <2>2, RanksFrame
<1>4. ASSUME NEW t \in Threads, Call(t)
      PROVE  PrioInv'
  <2>0. "EOK" \in Errno /\ "ERROR" \in Errno /\ "ETIMEOUT" \in Errno
    BY DEF Errno
  <2>1. ASSUME NEW m \in Objects, NEW time \in TakeTimes, rt_mutex_take(t, m, time)
        PROVE  PrioInv'
    <3>1. Calls(t, m)
      BY <2>1 DEF rt_mutex_take
    <3>2. CASE TakeAgain(t, m)
      <4>1. RanksKept(k, k')
        BY <1>0, <2>0, <3>2, ErrorRanks DEF TakeAgain, ResetError
      <4>2. \A n \in Objects : mutex'[n].owner = mutex[n].owner /\ mutex'[n].orig = mutex[n].orig
        BY <3>2 DEF TakeAgain, IInv, TypeOK, MutexState
      <4>. QED BY <4>1, <4>2, RanksFrame
    <3>3. CASE TakeFree(t, m)
      BY <3>1, <3>3, TakeFreePrio
    <3>4. CASE TakeFail(t, m, time)
      <4>1. RanksKept(k, k') /\ mutex' = mutex
        BY <1>0, <2>0, <3>4, ErrorRanks DEF TakeFail
      <4>. QED BY <4>1, RanksFrame
    <3>5. CASE TakeBlock(t, m, time)
      BY <3>1, <3>5, TakeBlockPrio
    <3>. QED BY <2>1, <3>2, <3>3, <3>4, <3>5 DEF rt_mutex_take
  <2>2. ASSUME NEW m \in Objects, rt_mutex_release(t, m)
        PROVE  PrioInv'
    <3>1. Calls(t, m)
      BY <2>2 DEF rt_mutex_release
    <3>2. CASE ReleaseRefused(t, m)
      <4>1. RanksKept(k, k') /\ mutex' = mutex
        BY <1>0, <2>0, <3>2, ErrorRanks DEF ReleaseRefused
      <4>. QED BY <4>1, RanksFrame
    <3>3. CASE ReleaseInner(t, m)
      <4>1. RanksKept(k, k')
        BY <1>0, <3>3 DEF ReleaseInner
      <4>2. \A n \in Objects : mutex'[n].owner = mutex[n].owner /\ mutex'[n].orig = mutex[n].orig
        BY <3>3 DEF ReleaseInner, IInv, TypeOK, MutexState
      <4>. QED BY <4>1, <4>2, RanksFrame
    <3>4. CASE ReleaseHandOver(t, m)
      BY <3>1, <3>4, HandOverPrio
    <3>5. CASE ReleaseFree(t, m)
      BY <3>1, <3>5, ReleaseFreePrio
    <3>. QED BY <2>2, <3>2, <3>3, <3>4, <3>5 DEF rt_mutex_release
  <2>3. ASSUME NEW m \in Objects, rt_mutex_detach(t, m), UNCHANGED <<mutex, held>>
        PROVE  PrioInv'
    <3>1. k' = k /\ mutex' = mutex
      BY <2>3 DEF rt_mutex_detach, DetachCall
    <3>. QED BY <1>0, <3>1, RanksFrame
  <2>4. CASE rt_thread_sleep(t) /\ UNCHANGED <<mutex, held>>
    <3>1. k.cur = t /\ pc[t] = "run" /\ mutex' = mutex
          /\ k' = StartTimer(rt_thread_suspend(k, t), t, "finite")
      BY <2>4 DEF rt_thread_sleep, At
    <3>2. k.stat[t] = "running"
      BY <3>1, CurrentRuns
    <3>3. RanksKept(k, k')
      BY <1>0, <3>1, <3>2, SleepRanks
    <3>. QED BY <3>1, <3>3, RanksFrame
  <2>. QED BY <1>4, <2>1, <2>2, <2>3, <2>4 DEF Call
<1>. QED BY <1>1, <1>2, <1>3, <1>4 DEF Next

\* The invariant of the priorities, on top of the one for the lists.
THEOREM PrioInvariance ==
    ASSUME NestBounded, OneMutex
    PROVE  Spec => []PrioInv
<1>1. Init => PrioInv
  BY PrioInit
<1>2. IInv /\ PrioInv /\ [Next]_vars => PrioInv'
  BY PrioNext
<1>. QED BY <1>1, <1>2, Invariance, PTL DEF Spec

\* Priority inheritance of rt_mutex_take works for a single RT_IPC_FLAG_PRIO
\* mutex: no thread ever waits for an owner that is less urgent than itself,
\* also after a hand-over, a timeout or a second waiter.
THEOREM OwnerInherits ==
    ASSUME NestBounded, OneMutex, Flag = "PRIO"
    PROVE  Spec => []Inherited
<1>1. PrioInv => Inherited
  BY DEF PrioInv
<1>. QED BY <1>1, PrioInvariance, PTL

\* With a single mutex the boost ends with rt_mutex_release: a thread without
\* the mutex has its own priority, for either flag.
THEOREM BoostIsTemporary ==
    ASSUME NestBounded, OneMutex
    PROVE  Spec => []BoostEnds
<1>1. PrioInv => BoostEnds
  BY DEF PrioInv
<1>. QED BY <1>1, PrioInvariance, PTL

\* The suspend list of a single RT_IPC_FLAG_PRIO mutex stays sorted although
\* owners change their priority: rt_mutex_release serves the most urgent waiter.
THEOREM UrgentServedFirst ==
    ASSUME NestBounded, OneMutex
    PROVE  Spec => []UrgentFirst
<1>1. PrioInv => UrgentFirst
  BY DEF PrioInv
<1>. QED BY <1>1, PrioInvariance, PTL
=============================================================================
