------------------------------- MODULE Timer -------------------------------
(***************************************************************************)
(* src/timer.c: timers on a skip list sorted by timeout_tick, hard timers  *)
(* that the tick interrupt expires and soft timers that the timer thread   *)
(* expires.  A tick is an unsigned integer that wraps around.              *)
(*                                                                         *)
(* The tick interrupt holds interrupts off for the whole of                *)
(* rt_timer_check, so that nothing comes between its steps; it comes       *)
(* between any two critical sections of a thread.  Of the threads, the     *)
(* callers in Urgent preempt the timer thread and the others do not.       *)
(***************************************************************************)
EXTENDS Integers, SequencesExt

CONSTANTS
    Timers,
    SoftTimers,         \* the timers created with RT_TIMER_FLAG_SOFT_TIMER
    Callers,            \* the threads that use timers
    Urgent,             \* the callers above the timer thread
    TimerThread,
    TickMod,            \* 2^32: the width of rt_tick_t
    RT_TIMER_SKIP_LIST_LEVEL,
    InitTicks,          \* the times given to rt_timer_init and SET_TIME, by timer
    Modes,              \* the modes a timer may have: {}, one-shot, or {"PERIODIC"}
    Reach,              \* <<t, u>>: the timeout function of t starts and stops u
    ModeChange,         \* the timers whose mode is changed while they are active
    Uses,               \* the sets of timers an application may have
    MaxLag,             \* bound: the ticks by which a timer may be overdue
    None

RT_TICK_MAX == TickMod - 1
Half == RT_TICK_MAX \div 2

ASSUME TimerAssumption ==
    /\ SoftTimers \subseteq Timers
    /\ Urgent \subseteq Callers
    /\ TimerThread \notin Callers
    /\ TickMod \in Nat /\ TickMod > 4
    /\ RT_TIMER_SKIP_LIST_LEVEL \in Nat \ {0}
    /\ InitTicks \in [Timers -> SUBSET (0 .. (Half - 1))]   \* asserted by rt_timer_start
    /\ Modes \in [Timers -> SUBSET {{}, {"PERIODIC"}}]
    /\ Reach \subseteq Timers \X Timers
    /\ ModeChange \subseteq Timers
    /\ Uses \subseteq SUBSET Timers
    /\ MaxLag \in Nat
    /\ None \notin Timers

VARIABLES
    tick,       \* rt_tick
    isr,        \* where the tick interrupt is, and the timer that it expires
    app,        \* the timers of the application, one of Uses
    inuse,      \* those that are initialised
    w,          \* the timers and their lists
    pc, arg,    \* where a thread is, and the timer it works on
    reg,        \* the flag byte a thread has read and not yet written back
    walk        \* the local variables of the timer thread

vars == <<tick, isr, app, inuse, w, pc, arg, reg, walk>>

Lists == {"hard", "soft"}
Rows == 1 .. RT_TIMER_SKIP_LIST_LEVEL
LastRow == RT_TIMER_SKIP_LIST_LEVEL
Processes == Callers \union {TimerThread}
Flags == SUBSET {"PERIODIC", "ACTIVATED"}
Ticks == 0 .. RT_TICK_MAX

\* The control blocks, the rows of the two lists (row LastRow has every timer),
\* and two histories: the ticks left of the time asked for, and the linked
\* timers in the order of their insertion.
TimerState ==
    [timer : [Timers -> [timeout : Ticks, init : Ticks, flag : Flags]],
     rows  : [Lists -> [Rows -> Seq(Timers)]],
     due   : [Timers -> Int],
     order : Seq(Timers)]

Blank == [timeout |-> 0, init |-> 0, flag |-> {}]

Sub(x, y) == (x - y) % TickMod
ListOf(t) == IF t \in SoftTimers THEN "soft" ELSE "hard"
Bottom(l) == w.rows[l][LastRow]
Linked(t) == t \in ToSet(Bottom(ListOf(t)))

-----------------------------------------------------------------------------
(* The lists.                                                              *)

\* The timeout_tick of t is set, and t not yet linked.
Placed(t) == \E p \in Processes : arg[p] = t /\ pc[p] = "start_insert"

\* t leaves all rows.  Nobody reads the timeout_tick of a timer off the list,
\* except a start that has set it and a walk of the timer thread that still
\* points at it (known): otherwise it is forgotten.
Unlink(W, t, known) ==
    [W EXCEPT !.rows = [l \in Lists |-> [i \in Rows |-> RemoveFirst(@[l][i], t)]],
              !.timer[t].timeout = IF known \/ Placed(t) THEN @ ELSE 0,
              !.due[t] = IF Placed(t) THEN @ ELSE 0,
              !.order = RemoveFirst(@, t)]

_rt_timer_remove(W, t) == Unlink(W, t, walk.n = t)

\* Mutant: the flag stays.
Deactivate_Never(W, t) == W

Deactivate(W, t) == [W EXCEPT !.timer[t].flag = @ \ {"ACTIVATED"}]

\* Mutant: the sum is kept in a wider type.
SetTimeout_Wide(W, t) ==
    [W EXCEPT !.timer[t].timeout = tick + W.timer[t].init, !.due[t] = W.timer[t].init]

SetTimeout(W, t) ==
    [W EXCEPT !.timer[t].timeout = (tick + W.timer[t].init) % TickMod,
              !.due[t] = W.timer[t].init]

\* Mutant: a new timer goes before its equals.
Passes_Strict(W, u, t) == ~ (Sub(W.timer[u].timeout, W.timer[t].timeout) < Half)

\* The search for the place of t goes past u.
Passes(W, u, t) ==
    LET d == Sub(W.timer[u].timeout, W.timer[t].timeout)
    IN  d = 0 \/ ~ (d < Half)

\* Where the search for the place of t ends in row s, from position i on.
Reached(W, s, i, t) ==
    CHOOSE j \in i .. Len(s) :
        /\ \A m \in (i + 1) .. j : Passes(W, s[m], t)
        /\ j < Len(s) => ~ Passes(W, s[j + 1], t)

Position(s, u) == IF u \in ToSet(s) THEN CHOOSE m \in DOMAIN s : s[m] = u ELSE 0

\* The timer after which t goes in row s, None for the head of the list, when
\* the search begins at u.
SearchRow(W, s, u, t) ==
    LET j == Reached(W, s, Position(s, u), t)
    IN  IF j = 0 THEN None ELSE s[j]

\* row_head, by row.  The search of a row begins where the one in the row above
\* ended.
RowHead(W, t) ==
    LET head[i \in Rows] ==
            SearchRow(W, W.rows[ListOf(t)][i], IF i = 1 THEN None ELSE head[i - 1], t)
    IN  head

\* t enters the last h rows (in the code random_nr decides on h).
Insert(W, t, h) ==
    LET heads == RowHead(W, t)
    IN  [W EXCEPT
           !.rows[ListOf(t)] = [i \in Rows |->
               IF i > LastRow - h THEN InsertAt(@[i], Position(@[i], heads[i]) + 1, t)
               ELSE @[i]],
           !.timer[t].flag = @ \union {"ACTIVATED"},
           !.order = Append(@, t)]

rt_timer_list_next_timeout(l) ==
    IF Bottom(l) = <<>> THEN RT_TICK_MAX ELSE w.timer[Head(Bottom(l))].timeout

\* Mutant: ticks compared as numbers.
Expired_NoWrap(t, now) == w.timer[t].timeout <= now

Expired(t, now) == Sub(now, w.timer[t].timeout) < Half

-----------------------------------------------------------------------------
(* Who may run.                                                            *)

Asleep == pc[TimerThread] \in {"suspended", "delayed"}

\* walk.locked: between rt_enter_critical and rt_exit_critical.
Runs(p) ==
    /\ isr.at = "none"
    /\ IF p = TimerThread THEN ~ Asleep
       ELSE Asleep \/ (p \in Urgent /\ ~ walk.locked)

At(p, place) == Runs(p) /\ pc[p] = place

Goto(p, place, t) ==
    /\ pc' = [pc EXCEPT ![p] = place]
    /\ arg' = [arg EXCEPT ![p] = t]

\* Where rt_timer_start and rt_timer_stop return to: the timer thread calls them
\* from a timeout function and from rt_soft_timer_check.
Back(p) == IF p = TimerThread THEN walk.ret ELSE "run"

Return(p) == Goto(p, Back(p), None)

\* The application does not make two calls for one timer at the same time.
Untouched(t) == \A p \in Processes : arg[p] # t

-----------------------------------------------------------------------------
(* rt_timer_start in a thread: interrupts are enabled between its parts.   *)

StartRemove(p, t) ==
    /\ w' = Deactivate(_rt_timer_remove(w, t), t)
    /\ Goto(p, "start_tick", t)

StartTick(p) ==
    /\ At(p, "start_tick")
    /\ w' = SetTimeout(w, arg[p])
    /\ Goto(p, "start_insert", arg[p])
    /\ UNCHANGED <<tick, isr, app, inuse, reg, walk>>

StartInsert(p) ==
    /\ At(p, "start_insert")
    /\ \E h \in Rows : w' = Insert(w, arg[p], h)
    /\ IF arg[p] \in SoftTimers THEN Goto(p, "start_resume", arg[p]) ELSE Return(p)
    /\ UNCHANGED <<tick, isr, app, inuse, reg, walk>>

\* Mutant: the timer thread is not told.
ResumeTimerThread_Never == pc

\* The timer thread leaves rt_thread_suspend or rt_thread_delay.
ResumeTimerThread == IF Asleep THEN [pc EXCEPT ![TimerThread] = "check"] ELSE pc

StartResume(p) ==
    /\ At(p, "start_resume")
    /\ pc' = [ResumeTimerThread EXCEPT ![p] = Back(p)]
    /\ arg' = [arg EXCEPT ![p] = None]
    /\ UNCHANGED <<tick, isr, app, inuse, w, reg, walk>>

-----------------------------------------------------------------------------
(* rt_timer_stop in a thread.                                              *)

\* The flag is tested before interrupts are disabled; an inactive timer is an
\* error, and nothing changes.
StopTest(p, t) ==
    /\ "ACTIVATED" \in w.timer[t].flag
    /\ Goto(p, "stop_remove", t)
    /\ UNCHANGED w

StopRemove(p) ==
    /\ At(p, "stop_remove")
    /\ w' = _rt_timer_remove(w, arg[p])
    /\ Goto(p, "stop_clear", arg[p])
    /\ UNCHANGED <<tick, isr, app, inuse, reg, walk>>

StopClear(p) ==
    /\ At(p, "stop_clear")
    /\ w' = Deactivate(w, arg[p])
    /\ Return(p)
    /\ UNCHANGED <<tick, isr, app, inuse, reg, walk>>

CallSteps(p) ==
    StartTick(p) \/ StartInsert(p) \/ StartResume(p) \/ StopRemove(p) \/ StopClear(p)

-----------------------------------------------------------------------------
(* What a caller does.                                                     *)

Free(p, t) == At(p, "run") /\ t \in inuse /\ Untouched(t)

rt_timer_start(p, t) ==
    /\ Free(p, t)
    /\ StartRemove(p, t)
    /\ UNCHANGED <<tick, isr, app, inuse, reg, walk>>

rt_timer_stop(p, t) ==
    /\ Free(p, t)
    /\ StopTest(p, t)
    /\ UNCHANGED <<tick, isr, app, inuse, reg, walk>>

\* rt_timer_control, RT_TIMER_CTRL_SET_TIME
SetTime(p, t, time) ==
    /\ Free(p, t)
    /\ w' = [w EXCEPT !.timer[t].init = time]
    /\ UNCHANGED <<tick, isr, app, inuse, pc, arg, reg, walk>>

\* rt_timer_control, RT_TIMER_CTRL_SET_ONESHOT and SET_PERIODIC: the flag byte is
\* read, changed and written with interrupts enabled.
ModeRead(p, t) ==
    /\ Free(p, t)
    /\ "ACTIVATED" \in w.timer[t].flag => t \in ModeChange
    /\ \E m \in Modes[t] :
           /\ ~ (m = w.timer[t].flag \ {"ACTIVATED"})
           /\ reg' = [reg EXCEPT ![p] = (w.timer[t].flag \ {"PERIODIC"}) \union m]
    /\ Goto(p, "mode_write", t)
    /\ UNCHANGED <<tick, isr, app, inuse, w, walk>>

ModeWrite(p) ==
    /\ At(p, "mode_write")
    /\ w' = [w EXCEPT !.timer[arg[p]].flag = reg[p]]
    /\ reg' = [reg EXCEPT ![p] = {}]
    /\ Goto(p, "run", None)
    /\ UNCHANGED <<tick, isr, app, inuse, walk>>

\* rt_timer_detach and rt_timer_delete; the control block is gone.
rt_timer_detach(p, t) ==
    /\ Free(p, t)
    /\ w' = [_rt_timer_remove(w, t) EXCEPT !.timer[t] = Blank]
    /\ inuse' = inuse \ {t}
    /\ UNCHANGED <<tick, isr, app, pc, arg, reg, walk>>

\* rt_timer_init and rt_timer_create
_rt_timer_init(p, t, time, flag) ==
    /\ At(p, "run")
    /\ t \in app \ inuse
    /\ inuse' = inuse \union {t}
    /\ w' = [w EXCEPT !.timer[t] = [timeout |-> 0, init |-> time, flag |-> flag]]
    /\ UNCHANGED <<tick, isr, app, pc, arg, reg, walk>>

CallerStep(p) ==
    \/ CallSteps(p)
    \/ ModeWrite(p)
    \/ \E t \in Timers :
           \/ rt_timer_start(p, t)
           \/ rt_timer_stop(p, t)
           \/ ModeRead(p, t)
           \/ rt_timer_detach(p, t)
           \/ \E time \in InitTicks[t] :
                  \/ SetTime(p, t, time)
                  \/ \E flag \in Modes[t] : _rt_timer_init(p, t, time, flag)

-----------------------------------------------------------------------------
(* The tick interrupt: rt_tick_increase and rt_timer_check.  Interrupts    *)
(* are disabled, so that calls from a timeout function are made in one go. *)

StartAtOnce(t) ==
    \E W \in {SetTimeout(Deactivate(_rt_timer_remove(w, t), t), t)}, h \in Rows :
        w' = Insert(W, t, h)

StopAtOnce(t) ==
    /\ "ACTIVATED" \in w.timer[t].flag
    /\ w' = Deactivate(_rt_timer_remove(w, t), t)

\* The calls that the timeout function of t may make now.
Called(t) == {u \in inuse : <<t, u>> \in Reach /\ Untouched(u)}

\* History: one tick less for every timer whose timeout_tick is set.
Counting(t) == Linked(t) \/ Placed(t)
Older == [t \in Timers |-> IF Counting(t) THEN w.due[t] - 1 ELSE 0]

\* rt_tick_increase.  The thread timer of the timer thread, a hard timer too, ends
\* its rt_thread_delay.  The bound MaxLag: no thread is kept for longer from what
\* it has to do for a timer.
Tick ==
    /\ isr.at = "none"
    /\ \A t \in Timers : Older[t] >= 0 - MaxLag
    /\ tick' = (tick + 1) % TickMod
    /\ isr' = [at |-> "check", t |-> None]
    /\ w' = [w EXCEPT !.due = Older]
    /\ IF pc[TimerThread] = "delayed"
       THEN IF walk.nap <= 1
            THEN pc' = [pc EXCEPT ![TimerThread] = "check"]
                 /\ walk' = [walk EXCEPT !.nap = 0]
            ELSE walk' = [walk EXCEPT !.nap = @ - 1] /\ UNCHANGED pc
       ELSE UNCHANGED <<pc, walk>>
    /\ UNCHANGED <<app, inuse, arg, reg>>

\* One round of the loop in rt_timer_check: the first timer is unlinked.
Fire ==
    /\ isr.at = "check"
    /\ Bottom("hard") # <<>>
    /\ LET t == Head(Bottom("hard"))
       IN  /\ Expired(t, tick)
           /\ w' = _rt_timer_remove(w, t)
           /\ isr' = [at |-> "callback", t |-> t]
    /\ UNCHANGED <<tick, app, inuse, pc, arg, reg, walk>>

\* Its timeout function makes no call, or one.
FireCallback ==
    /\ isr.at = "callback"
    /\ isr' = [isr EXCEPT !.at = "after"]
    /\ \/ UNCHANGED <<w, pc>>
       \/ \E u \in Called(isr.t) : StopAtOnce(u) /\ UNCHANGED pc
       \/ \E u \in Called(isr.t) :
              /\ StartAtOnce(u)
              /\ pc' = IF u \in SoftTimers THEN ResumeTimerThread ELSE pc
    /\ UNCHANGED <<tick, app, inuse, arg, reg, walk>>

\* A periodic timer that is still active starts again.
Again(t) == {"PERIODIC", "ACTIVATED"} \subseteq w.timer[t].flag

FireDone ==
    /\ isr.at = "after"
    /\ isr' = [at |-> "check", t |-> None]
    /\ IF Again(isr.t) THEN StartAtOnce(isr.t) ELSE w' = Deactivate(w, isr.t)
    /\ UNCHANGED <<tick, app, inuse, pc, arg, reg, walk>>

CheckLeave ==
    /\ isr.at = "check"
    /\ Bottom("hard") # <<>> => ~ Expired(Head(Bottom("hard")), tick)
    /\ isr' = [isr EXCEPT !.at = "none"]
    /\ UNCHANGED <<tick, app, inuse, w, pc, arg, reg, walk>>

TickStep == Fire \/ FireCallback \/ FireDone \/ CheckLeave

-----------------------------------------------------------------------------
(* The timer thread: rt_thread_timer_entry and rt_soft_timer_check.        *)

TT == TimerThread

\* next_timeout is read; RT_TICK_MAX stands for an empty list.
ThreadNext ==
    /\ At(TT, "next")
    /\ walk' = [walk EXCEPT !.next = rt_timer_list_next_timeout("soft")]
    /\ Goto(TT, IF walk'.next = RT_TICK_MAX THEN "suspend" ELSE "delay", None)
    /\ UNCHANGED <<tick, isr, app, inuse, w, reg>>

ThreadSuspend ==
    /\ At(TT, "suspend")
    /\ Goto(TT, "suspended", None)
    /\ walk' = [walk EXCEPT !.next = 0]
    /\ UNCHANGED <<tick, isr, app, inuse, w, reg>>

\* A timeout in the past is not waited for; a delay of 0 lasts to the next tick.
ThreadDelay ==
    LET d == Sub(walk.next, tick) IN
    /\ At(TT, "delay")
    /\ IF d < Half
       THEN walk' = [walk EXCEPT !.next = 0, !.nap = d] /\ Goto(TT, "delayed", None)
       ELSE walk' = [walk EXCEPT !.next = 0] /\ Goto(TT, "check", None)
    /\ UNCHANGED <<tick, isr, app, inuse, w, reg>>

CheckEnter ==
    /\ At(TT, "check")
    /\ walk' = [walk EXCEPT !.now = tick, !.locked = TRUE,
                  !.n = IF Bottom("soft") = <<>> THEN None ELSE Head(Bottom("soft"))]
    /\ Goto(TT, "walk", None)
    /\ UNCHANGED <<tick, isr, app, inuse, w, reg>>

\* n->next: None for the head of the list; a node that was removed points to itself.
NodeAfter(t) ==
    LET s == Bottom("soft")
    IN  IF ~ Linked(t) THEN t
        ELSE IF t = s[Len(s)] THEN None
        ELSE s[Position(s, t) + 1]

\* An expired timer is unlinked, and its timeout function called without the lock.
\* Only the scheduler is locked meanwhile: one step is exact as long as interrupt
\* handlers and the functions of hard timers leave soft timers alone.
WalkFire ==
    /\ At(TT, "walk")
    /\ walk.n # None
    /\ Expired(walk.n, walk.now)
    /\ w' = Unlink(w, walk.n, NodeAfter(walk.n) = walk.n)
    /\ walk' = [walk EXCEPT !.n = NodeAfter(walk.n), !.t = walk.n, !.now = 0, !.locked = FALSE]
    /\ Goto(TT, "callback", None)
    /\ UNCHANGED <<tick, isr, app, inuse, reg>>

WalkLeave ==
    /\ At(TT, "walk")
    /\ walk.n # None => ~ Expired(walk.n, walk.now)
    /\ walk' = [walk EXCEPT !.n = None, !.now = 0, !.locked = FALSE]
    /\ Goto(TT, "next", None)
    /\ UNCHANGED <<tick, isr, app, inuse, w, reg>>

\* The timeout function makes no call, or one.
Callback ==
    /\ At(TT, "callback")
    /\ walk' = [walk EXCEPT !.ret = "after"]
    /\ \/ Goto(TT, "after", None) /\ UNCHANGED w
       \/ \E u \in Called(walk.t) : StartRemove(TT, u) \/ StopTest(TT, u)
    /\ UNCHANGED <<tick, isr, app, inuse, reg>>

\* The flag is examined with the scheduler locked; the same holds of this step.
CallbackDone ==
    /\ At(TT, "after")
    /\ walk' = [walk EXCEPT !.now = tick, !.t = None, !.locked = TRUE, !.ret = "walk"]
    /\ IF Again(walk.t) THEN StartRemove(TT, walk.t)
       ELSE w' = Deactivate(w, walk.t) /\ Goto(TT, "walk", None)
    /\ UNCHANGED <<tick, isr, app, inuse, reg>>

TimerThreadStep ==
    \/ CallSteps(TT) \/ ThreadNext \/ ThreadSuspend \/ ThreadDelay \/ CheckEnter
    \/ WalkFire \/ WalkLeave \/ Callback \/ CallbackDone

-----------------------------------------------------------------------------
\* rt_system_timer_init and rt_system_timer_thread_init.
Init ==
    /\ tick = 0
    /\ isr = [at |-> "none", t |-> None]
    /\ app \in Uses
    /\ inuse = {}
    /\ w = [timer |-> [t \in Timers |-> Blank],
            rows  |-> [l \in Lists |-> [i \in Rows |-> <<>>]],
            due   |-> [t \in Timers |-> 0],
            order |-> <<>>]
    /\ pc = [p \in Processes |-> IF p = TT THEN "next" ELSE "run"]
    /\ arg = [p \in Processes |-> None]
    /\ reg = [p \in Processes |-> {}]
    /\ walk = [next |-> 0, nap |-> 0, now |-> 0, n |-> None, t |-> None,
               locked |-> FALSE, ret |-> "walk"]

Next == Tick \/ TickStep \/ TimerThreadStep \/ \E p \in Callers : CallerStep(p)

Spec == Init /\ [][Next]_vars

\* The clock ticks, interrupt handlers run to their end, and a thread that may
\* run goes on with the call it is in.
FairSpec ==
    /\ Spec
    /\ WF_vars(Tick)
    /\ WF_vars(TickStep)
    /\ WF_vars(TimerThreadStep)
    /\ \A p \in Callers : WF_vars(CallSteps(p))

-----------------------------------------------------------------------------
Places == {"run", "start_tick", "start_insert", "start_resume", "stop_remove",
           "stop_clear", "mode_write", "next", "suspend", "suspended", "delay",
           "delayed", "check", "walk", "callback", "after"}

TypeOK ==
    /\ tick \in Ticks
    /\ isr \in [at : {"none", "check", "callback", "after"}, t : Timers \union {None}]
    /\ app \in Uses
    /\ inuse \subseteq app
    /\ w \in TimerState
    /\ pc \in [Processes -> Places]
    /\ arg \in [Processes -> Timers \union {None}]
    /\ reg \in [Processes -> Flags]
    /\ walk \in [next : Ticks, nap : Ticks, now : Ticks, n : Timers \union {None},
                 t : Timers \union {None}, locked : BOOLEAN, ret : {"after", "walk"}]

\* Before in a row: less time left, or as much and inserted earlier.
Before(t, u) ==
    \/ w.due[t] < w.due[u]
    \/ w.due[t] = w.due[u] /\ Position(w.order, t) < Position(w.order, u)

\* Every row of both lists is sorted by the real time that is left, whatever the
\* tick counter did since: across its wrap-around and after starts that were
\* interrupted.  Timers with the same timeout keep the order of their insertion
\* (the comment in rt_timer_start), and the last row has all that the others have.
RowsSorted ==
    \A l \in Lists, i \in Rows :
        LET s == w.rows[l][i] IN
        /\ \A m, n \in DOMAIN s : m < n => Before(s[m], s[n])
        /\ ToSet(s) \subseteq ToSet(Bottom(l))

\* The timeout function of a started timer is called when the time that was asked
\* for is over, not before, and when the tick interrupt ends no hard timer is left
\* with its time over: across the wrap-around of the tick counter, and whatever
\* interrupts rt_timer_start.
Punctual ==
    [][/\ (isr.at = "check" /\ isr'.at = "callback") => w.due[isr'.t] <= 0
       /\ (isr.at = "check" /\ isr'.at = "none") => \A t \in ToSet(Bottom("hard")) : w.due[t] > 0
       /\ (walk.t = None /\ walk'.t # None) => Linked(walk'.t) /\ w.due[walk'.t] <= 0]_vars

\* rt_soft_timer_check calls the timeout function of a started timer only: a timer
\* that was stopped, or is started again, is silent until its new time is over.
StoppedIsSilent ==
    [][(walk.t = None /\ walk'.t # None) => Linked(walk'.t)]_vars

\* RT_TIMER_FLAG_ACTIVATED outside of a call means that the timer runs: who tests
\* it is not told that a timer runs which will never expire.
ActiveIsLinked ==
    \A t \in inuse :
        (Untouched(t) /\ walk.t # t /\ isr.t # t /\ "ACTIVATED" \in w.timer[t].flag) => Linked(t)

\* A soft timer with this timeout_tick is taken for an empty list.
Marked == \E t \in SoftTimers : Linked(t) /\ w.timer[t].timeout = RT_TICK_MAX

\* rt_timer_check comes to an end, and a started soft timer leaves the list, to
\* expire or because somebody stops it: the timer thread does not oversleep.
Expires ==
    /\ isr.at = "check" ~> isr.at = "none"
    /\ [](~ Marked) => \A t \in SoftTimers : Linked(t) ~> ~ Linked(t)
=============================================================================
