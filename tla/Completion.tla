----------------------------- MODULE Completion -----------------------------
(***************************************************************************)
(* The completion of components/drivers/src/completion.c: one thread waits *)
(* for a flag that threads and interrupt handlers raise.                   *)
(***************************************************************************)
EXTENDS Retry

CONSTANTS
    Completions,   \* the objects that are completions
    CpWaiter,      \* the one thread that waits for completions
    CpTimes        \* waiting times given to rt_completion_wait

ASSUME CompletionAssumption ==
    /\ Completions \subseteq Objects \intersect WaitLists
    /\ CpWaiter \in Users
    /\ CpTimes \subseteq Times

VARIABLE completed   \* completion->flag = RT_COMPLETED

CpPlaces == {"cp_sched", "cp_woken", "cp_done"}

CpInit == completed = [c \in Completions |-> FALSE]

-----------------------------------------------------------------------------
(* rt_completion_wait                                                      *)

CpTake(c) ==
    /\ completed[c]
    /\ completed' = [completed EXCEPT ![c] = FALSE]
    /\ UNCHANGED <<k, pc, arg>>

CpFail(c, time) ==
    /\ ~completed[c]
    /\ time = "zero"
    /\ UNCHANGED <<k, pc, arg, completed>>

CpBlock(t, c, time) ==
    /\ ~completed[c]
    /\ time # "zero"
    /\ k' = WaitOn(k, c, t, "FIFO", time)
    /\ Proceed(t, c, "cp_sched")
    /\ UNCHANGED completed

\* The assertion that nobody else is on the list is what CpWaiter stands for.
rt_completion_wait(t, c, time) ==
    /\ t = CpWaiter
    /\ Calls(t, c)
    /\ CpTake(c) \/ CpFail(c, time) \/ CpBlock(t, c, time)
    /\ UNCHANGED <<isr, alive>>

\* The flag is cleaned whatever the result of the wait is.
CpReturn(t) ==
    /\ At(t, "cp_woken")
    /\ completed' = [completed EXCEPT ![arg[t]] = FALSE]
    /\ Return(t)
    /\ UNCHANGED <<k, isr, alive>>

-----------------------------------------------------------------------------
(* rt_completion_done: the flag is tested with interrupts enabled.         *)

rt_completion_done(t, c) ==
    /\ Calls(t, c)
    /\ ~completed[c]
    /\ Proceed(t, c, "cp_done")
    /\ UNCHANGED <<k, isr, alive, completed>>

\* Mutation: the waiter is woken before the flag is set, in a section of its own.
Complete_NoFlag(c) == UNCHANGED completed

Complete(c) == completed' = [completed EXCEPT ![c] = TRUE]

DoneSet(t) ==
    /\ At(t, "cp_done")
    /\ Complete(arg[t])
    /\ IF k.wait[arg[t]] # <<>>
       THEN k' = rt_ipc_list_resume(k, arg[t]) /\ Proceed(t, None, "ret_sched")
       ELSE UNCHANGED k /\ Return(t)
    /\ UNCHANGED <<isr, alive>>

IsrDone(c) ==
    /\ isr = "none"
    /\ c \in alive
    /\ ~completed[c]
    /\ Complete(c)
    /\ IsrWake(c)
    /\ UNCHANGED <<isr, pc, arg, alive>>

-----------------------------------------------------------------------------
CpCall(t) ==
    \E c \in Completions :
        \/ \E time \in CpTimes : rt_completion_wait(t, c, time)
        \/ rt_completion_done(t, c)

CpStep(t) ==
    \/ CpReturn(t)
    \/ DoneSet(t)
    \/ Resched(t, "cp_sched", "cp_woken") /\ UNCHANGED completed

CpIsr == \E c \in Completions : IsrDone(c)

-----------------------------------------------------------------------------
CpTypeOK == completed \in [Completions -> BOOLEAN]

\* The waiter and the flag agree: it never sleeps on a completion that is done,
\* and when it comes back with RT_EOK the flag was raised by a done and nobody
\* has taken it, although two dones and the timeout may come at any point.
CompletionSeen ==
    \A c \in Completions :
        /\ k.wait[c] # <<>> => ~completed[c]
        /\ Looking(c, {"cp_sched", "cp_woken"}) # {} => completed[c]
=============================================================================
