------------------------------- MODULE MemPool -------------------------------
(***************************************************************************)
(* The memory pool of src/mempool.c: blocks of one size on a free list,    *)
(* threads that wait for a block, and a count of those threads, which a    *)
(* free consults in place of the list.  Blocks are freed by threads and by *)
(* interrupt handlers, not only by the thread that allocated them.         *)
(***************************************************************************)
EXTENDS Retry

CONSTANTS
    Pools,       \* the objects that are memory pools
    Blocks,      \* block_total_count, as a number
    MpTimes,     \* waiting times given to rt_mp_alloc
    MaxCount     \* bound: suspend_thread_count, above and below

ASSUME MemPoolAssumption ==
    /\ Pools \subseteq Objects \intersect WaitLists
    /\ Blocks \in Nat \ {0}
    /\ MpTimes \subseteq Times
    /\ MaxCount \in Nat

VARIABLES
    pool,    \* the control blocks: block_list, block_free_count, and
             \* suspend_thread_count, an unsigned word: -1 is its largest value
    used     \* the blocks that rt_mp_alloc gave out and nobody freed yet

mpVars == <<pool, used>>

MpPlaces == {"mp_sched", "mp_woken", "mpd_test", "mpd_wake"}

PoolState ==
    [block_list : Seq(1 .. Blocks), block_free_count : Nat, suspend_thread_count : Int]

\* rt_mp_init and rt_mp_create link the blocks in the order of their addresses.
MpInit ==
    /\ pool = [p \in Pools |-> [block_list |-> [i \in 1 .. Blocks |-> i],
                                block_free_count |-> Blocks,
                                suspend_thread_count |-> 0]]
    /\ used = [p \in Pools |-> {}]

\* rt_thread_suspend, then rt_list_insert_after: the last to come is the first
\* on the list, whatever its priority.
SuspendFirst(ks, p, t) ==
    LET s == rt_thread_suspend([ks EXCEPT !.err[t] = "EOK"], t)
    IN  [s EXCEPT !.wait[p] = Cons(t, @)]

-----------------------------------------------------------------------------
(* rt_mp_alloc                                                             *)

Grant(t, p) ==
    /\ pool[p].block_free_count # 0
    /\ pool' = [pool EXCEPT ![p].block_free_count = @ - 1, ![p].block_list = Tail(@)]
    /\ used' = [used EXCEPT ![p] = @ \union {Head(pool[p].block_list)}]
    /\ Leave(t)
    /\ UNCHANGED k

\* Mutation: the waiter is not counted.
MpBlock_Uncounted(t, p, time) ==
    /\ pool[p].block_free_count = 0
    /\ time # "zero"
    /\ pool[p].suspend_thread_count < MaxCount
    /\ k' = StartTimer(SuspendFirst(k, p, t), t, time)
    /\ left' = [left EXCEPT ![t] = time]
    /\ Proceed(t, p, "mp_sched")
    /\ UNCHANGED <<item, pool, used>>

MpBlock(t, p, time) ==
    /\ pool[p].block_free_count = 0
    /\ time # "zero"
    /\ pool[p].suspend_thread_count < MaxCount
    /\ k' = StartTimer(SuspendFirst(k, p, t), t, time)
    /\ pool' = [pool EXCEPT ![p].suspend_thread_count = @ + 1]
    /\ left' = [left EXCEPT ![t] = time]
    /\ Proceed(t, p, "mp_sched")
    /\ UNCHANGED <<item, used>>

MpTurn(t, p, time) ==
    \/ Grant(t, p)
    \/ MpBlock(t, p, time)
    \/ pool[p].block_free_count = 0 /\ TimedOut(t, time) /\ UNCHANGED mpVars

rt_mp_alloc(t, p, time) ==
    /\ Calls(t, p)
    /\ MpTurn(t, p, time)
    /\ UNCHANGED <<isr, alive>>

MpWoken(t) ==
    /\ At(t, "mp_woken")
    /\ \/ Failed(t) /\ UNCHANGED mpVars
       \/ /\ k.err[t] = "EOK"
          /\ \E time \in TimeLeft(left[t]) : MpTurn(t, arg[t], time)
    /\ UNCHANGED <<isr, alive>>

-----------------------------------------------------------------------------
(* rt_mp_free                                                              *)

\* The block goes back, and a waiter is counted off if the count says that
\* there is one.
PutBack(p, b) ==
    /\ b \in used[p]
    /\ pool[p].suspend_thread_count > -MaxCount
    /\ used' = [used EXCEPT ![p] = @ \ {b}]
    /\ pool' = [pool EXCEPT ![p].block_free_count = @ + 1,
                            ![p].block_list = Cons(b, @),
                            ![p].suspend_thread_count = IF @ # 0 THEN @ - 1 ELSE @]

\* The thread that the count promises is resumed.  On an empty list the code
\* takes the list head for a thread, with no effect on the model's state, as in
\* ResumeAllWake.
WakeCounted(p) ==
    IF k.wait[p] = <<>>
    THEN k
    ELSE rt_ipc_list_resume([k EXCEPT !.err[Head(k.wait[p])] = "EOK"], p)

rt_mp_free(t, p, b) ==
    /\ Calls(t, p)
    /\ PutBack(p, b)
    /\ \/ /\ pool[p].suspend_thread_count # 0
          /\ k' = WakeCounted(p)
          /\ LeaveVia(t, "ret_sched")
       \/ pool[p].suspend_thread_count = 0 /\ UNCHANGED <<k, pc, arg, left, item>>
    /\ UNCHANGED <<isr, alive>>

IsrFree(p, b) ==
    /\ isr = "none"
    /\ p \in alive
    /\ PutBack(p, b)
    /\ k' = IF pool[p].suspend_thread_count # 0 THEN rt_schedule(WakeCounted(p)) ELSE k
    /\ UNCHANGED <<isr, pc, arg, alive, left, item>>

-----------------------------------------------------------------------------
(* rt_mp_detach and rt_mp_delete                                           *)

rt_mp_detach(t, p) == DetachCall(t, p, "mpd_test")

\* The count goes down with every turn, also when a free has emptied the list
\* after the test and counted the waiter off already.
MpDetachSteps(t) ==
    \/ ResumeAllTest(t, arg[t], "mpd_test", "mpd_wake", "det_object") /\ UNCHANGED pool
    \/ /\ ResumeAllWake(t, arg[t], "mpd_wake", "mpd_test")
       /\ pool[arg[t]].suspend_thread_count > -MaxCount
       /\ pool' = [pool EXCEPT ![arg[t]].suspend_thread_count = @ - 1]

-----------------------------------------------------------------------------
MpCall(t) ==
    \E p \in Pools :
        \/ \E time \in MpTimes : rt_mp_alloc(t, p, time)
        \/ \E b \in 1 .. Blocks : rt_mp_free(t, p, b)
        \/ rt_mp_detach(t, p) /\ UNCHANGED <<left, item, pool, used>>

MpStep(t) ==
    \/ MpWoken(t)
    \/ Resched(t, "mp_sched", "mp_woken") /\ UNCHANGED <<left, item, pool, used>>
    \/ MpDetachSteps(t) /\ UNCHANGED <<left, item, used>>

MpIsr == \E p \in Pools, b \in 1 .. Blocks : IsrFree(p, b)

-----------------------------------------------------------------------------
MpTypeOK == pool \in [Pools -> PoolState] /\ used \in [Pools -> SUBSET (1 .. Blocks)]

\* No thread has begun to detach or delete the pool.
InService(p) ==
    /\ p \in alive
    /\ \A t \in Threads : arg[t] = p => pc[t] \notin {"mpd_test", "mpd_wake", "det_object"}

\* suspend_thread_count is the number of threads on the suspend list, which
\* rt_mp_free relies on when it takes the first of them without looking.
CountExact ==
    \A p \in Pools : pool[p].suspend_thread_count = Len(k.wait[p])

\* A block is free or in use, never both, and block_free_count counts the free
\* ones.  Until the pool is detached, every thread on the suspend list is in
\* suspend_thread_count, by which rt_mp_free decides to wake one, and while a
\* thread waits each free block is matched by a thread already woken that has
\* yet to look, so no wake-up is lost to a faster thread or to a timeout.
NoBlockWhileWaiting ==
    \A p \in Pools :
        /\ IsInjective(pool[p].block_list)
        /\ ToSet(pool[p].block_list) = (1 .. Blocks) \ used[p]
        /\ pool[p].block_free_count = Len(pool[p].block_list)
        /\ InService(p) /\ k.wait[p] # <<>> =>
              /\ Len(k.wait[p]) <= pool[p].suspend_thread_count
              /\ Len(pool[p].block_list) <= Cardinality(Looking(p, {"mp_sched", "mp_woken"}))
=============================================================================
