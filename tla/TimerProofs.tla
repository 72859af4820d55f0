---------------------------- MODULE TimerProofs ----------------------------
(***************************************************************************)
(* The timers of src/timer.c keep their order and fire when their time is  *)
(* over, for every number of timers, threads and rows, every width of the  *)
(* tick counter, and starts, stops and detaches that interrupt each other. *)
(***************************************************************************)
EXTENDS Timer, ListLemmas

-----------------------------------------------------------------------------
(* Who is ahead of whom in a list.                                         *)

Ahead(s, x, y) == \E m, n \in 1 .. Len(s) : m < n /\ s[m] = x /\ s[n] = y

LEMMA AheadRemove ==
    ASSUME NEW S, NEW s \in Seq(S), NEW t, IsInjective(s), NEW x, NEW y
    PROVE  Ahead(RemoveFirst(s, t), x, y) <=> Ahead(s, x, y) /\ x # t /\ y # t
<1>. DEFINE r == RemoveFirst(s, t)
<1>1. \A i, j \in 1 .. Len(s) : s[i] = s[j] => i = j
  BY DEF IsInjective
<1>2. CASE t \notin ToSet(s)
  <2>1. r = s /\ \A i \in 1 .. Len(s) : s[i] # t
    BY <1>2, RemoveAbsent, ToSetDef
  <2>. QED BY <2>1 DEF Ahead
<1>3. CASE t \in ToSet(s)
  <2>1. r \in Seq(S) /\ Len(r) = Len(s) - 1 /\ Len(s) \in Nat
    BY <1>3, RemoveIndex
  <2>2. PICK n \in 1 .. Len(s) :
          /\ s[n] = t
          /\ \A i \in 1 .. Len(s) - 1 : r[i] = IF i < n THEN s[i] ELSE s[i + 1]
    BY <1>3, RemoveIndex
  <2>. HIDE DEF r
  <2>3. ASSUME Ahead(r, x, y)
        PROVE  Ahead(s, x, y) /\ x # t /\ y # t
    <3>1. PICK i, j \in 1 .. Len(s) - 1 : i < j /\ r[i] = x /\ r[j] = y
      BY <2>1, <2>3 DEF Ahead
    <3>. DEFINE at(k) == IF k < n THEN k ELSE k + 1
    <3>2. /\ at(i) \in 1 .. Len(s) /\ at(j) \in 1 .. Len(s) /\ at(i) < at(j)
          /\ at(i) # n /\ at(j) # n /\ s[at(i)] = x /\ s[at(j)] = y
      BY <2>1, <2>2, <3>1
    <3>. HIDE DEF at
    <3>. QED BY <1>1, <2>2, <3>2 DEF Ahead
  <2>4. ASSUME Ahead(s, x, y), x # t, y # t
        PROVE  Ahead(r, x, y)
    <3>1. PICK i, j \in 1 .. Len(s) : i < j /\ s[i] = x /\ s[j] = y
      BY <2>4 DEF Ahead
    <3>. DEFINE at(k) == IF k < n THEN k ELSE k - 1
    <3>2. i # n /\ j # n
      BY <2>2, <2>4, <3>1
    <3>3. /\ at(i) \in 1 .. Len(r) /\ at(j) \in 1 .. Len(r) /\ at(i) < at(j)
      BY <2>1, <3>1, <3>2
    <3>4. ASSUME NEW k \in 1 .. Len(s), k # n
          PROVE  r[at(k)] = s[k]
      <4>1. CASE k < n
        BY <2>1, <2>2, <4>1
      <4>2. CASE k > n
        <5>1. k - 1 \in 1 .. Len(s) - 1 /\ ~ (k - 1 < n) /\ (k - 1) + 1 = k
          BY <2>1, <4>2
        <5>2. r[k - 1] = s[k]
          BY <2>2, <5>1
        <5>. QED BY <4>2, <5>2
      <4>. QED BY <3>4, <4>1, <4>2
    <3>5. r[at(i)] = x /\ r[at(j)] = y
      BY <3>1, <3>2, <3>4
    <3>. HIDE DEF at
    <3>. QED BY <3>3, <3>5 DEF Ahead
  <2>. QED BY <2>3, <2>4 DEF r
<1>. QED BY <1>2, <1>3

LEMMA AheadInsert ==
    ASSUME NEW S, NEW s \in Seq(S), NEW t \in S, NEW n \in 1 .. Len(s) + 1, NEW x, NEW y,
           Ahead(InsertAt(s, n, t), x, y)
    PROVE  \/ Ahead(s, x, y)
           \/ x = t /\ \E k \in n .. Len(s) : s[k] = y
           \/ y = t /\ \E k \in 1 .. n - 1 : s[k] = x
<1>a. /\ InsertAt(s, n, t) \in Seq(S) /\ Len(InsertAt(s, n, t)) = Len(s) + 1
      /\ \A i \in 1 .. Len(s) + 1 :
            InsertAt(s, n, t)[i] = IF i < n THEN s[i] ELSE IF i = n THEN t ELSE s[i - 1]
  BY InsertAtIndex, SMTT(30)
<1>b. Len(s) \in Nat
  OBVIOUS
<1>0. PICK r : r = InsertAt(s, n, t)
  OBVIOUS
<1>1. /\ r \in Seq(S) /\ Len(r) = Len(s) + 1 /\ Len(s) \in Nat
      /\ \A i \in 1 .. Len(s) + 1 :
            r[i] = IF i < n THEN s[i] ELSE IF i = n THEN t ELSE s[i - 1]
  BY <1>0, <1>a, <1>b, Zenon
<1>2. Ahead(r, x, y)
  BY <1>0
<1>3. PICK i, j \in 1 .. Len(s) + 1 : i < j /\ r[i] = x /\ r[j] = y
  BY <1>1, <1>2 DEF Ahead
<1>4. CASE i = n
  <2>1. x = t /\ j - 1 \in n .. Len(s) /\ s[j - 1] = y
    BY <1>1, <1>3, <1>4
  <2>. QED BY <2>1
<1>5. CASE j = n
  <2>1. y = t /\ i \in 1 .. n - 1 /\ s[i] = x
    BY <1>1, <1>3, <1>5
  <2>. QED BY <2>1
<1>6. CASE i # n /\ j # n
  <2>. DEFINE at(k) == IF k < n THEN k ELSE k - 1
  <2>1. /\ at(i) \in 1 .. Len(s) /\ at(j) \in 1 .. Len(s) /\ at(i) < at(j)
        /\ s[at(i)] = x /\ s[at(j)] = y
    BY <1>1, <1>3, <1>6
  <2>. HIDE DEF at
  <2>. QED BY <2>1 DEF Ahead
<1>. QED BY <1>4, <1>5, <1>6

LEMMA AheadAppend ==
    ASSUME NEW S, NEW s \in Seq(S), NEW t \in S, NEW x, NEW y
    PROVE  Ahead(Append(s, t), x, y) <=> Ahead(s, x, y) \/ (y = t /\ x \in ToSet(s))
<1>. DEFINE r == Append(s, t)
<1>1. /\ r \in Seq(S) /\ Len(r) = Len(s) + 1 /\ Len(s) \in Nat
      /\ \A i \in 1 .. Len(s) : r[i] = s[i]
      /\ r[Len(s) + 1] = t
  OBVIOUS
<1>2. \A z : z \in ToSet(s) <=> \E i \in 1 .. Len(s) : s[i] = z
  BY ToSetDef
<1>. HIDE DEF r
<1>3. ASSUME Ahead(r, x, y)
      PROVE  Ahead(s, x, y) \/ (y = t /\ x \in ToSet(s))
  <2>1. PICK i, j \in 1 .. Len(s) + 1 : i < j /\ r[i] = x /\ r[j] = y
    BY <1>1, <1>3 DEF Ahead
  <2>2. i \in 1 .. Len(s) /\ s[i] = x
    BY <1>1, <2>1
  <2>3. CASE j = Len(s) + 1
    BY <1>1, <1>2, <2>1, <2>2, <2>3
  <2>4. CASE j # Len(s) + 1
    <3>1. j \in 1 .. Len(s) /\ s[j] = y
      BY <1>1, <2>1, <2>4
    <3>. QED BY <2>1, <2>2, <3>1 DEF Ahead
  <2>. QED BY <2>3, <2>4
<1>4. ASSUME Ahead(s, x, y)
      PROVE  Ahead(r, x, y)
  <2>1. PICK i, j \in 1 .. Len(s) : i < j /\ s[i] = x /\ s[j] = y
    BY <1>4 DEF Ahead
  <2>2. i \in 1 .. Len(r) /\ j \in 1 .. Len(r) /\ r[i] = x /\ r[j] = y
    BY <1>1, <2>1
  <2>. QED BY <2>1, <2>2 DEF Ahead
<1>5. ASSUME y = t, x \in ToSet(s)
      PROVE  Ahead(r, x, y)
  <2>1. PICK i \in 1 .. Len(s) : s[i] = x
    BY <1>2, <1>5
  <2>2. i \in 1 .. Len(r) /\ Len(s) + 1 \in 1 .. Len(r) /\ i < Len(s) + 1 /\ r[i] = x
    BY <1>1, <2>1
  <2>. QED BY <1>1, <1>5, <2>2 DEF Ahead
<1>. QED BY <1>3, <1>4, <1>5 DEF r

LEMMA PositionIs ==
    ASSUME NEW S, NEW s \in Seq(S), NEW x
    PROVE  /\ x \in ToSet(s) => Position(s, x) \in 1 .. Len(s) /\ s[Position(s, x)] = x
           /\ x \notin ToSet(s) => Position(s, x) = 0
<1>1. ASSUME x \in ToSet(s)
      PROVE  Position(s, x) \in 1 .. Len(s) /\ s[Position(s, x)] = x
  <2>1. \E i \in DOMAIN s : s[i] = x
    BY <1>1, ToSetDef
  <2>2. Position(s, x) \in DOMAIN s /\ s[Position(s, x)] = x
    BY <1>1, <2>1 DEF Position
  <2>. QED BY <2>2
<1>2. x \notin ToSet(s) => Position(s, x) = 0
  BY DEF Position
<1>. QED BY <1>1, <1>2

\* Before, as RowsSorted has it.
LEMMA PositionAhead ==
    ASSUME NEW S, NEW s \in Seq(S), NEW x, NEW y, Ahead(s, x, y), IsInjective(s)
    PROVE  Position(s, x) < Position(s, y)
<1>1. PICK i, j \in 1 .. Len(s) : i < j /\ s[i] = x /\ s[j] = y
  BY DEF Ahead
<1>2. x \in ToSet(s) /\ y \in ToSet(s)
  BY <1>1, ToSetDef
<1>3. \A m, n \in 1 .. Len(s) : s[m] = s[n] => m = n
  BY DEF IsInjective
<1>4. Position(s, x) \in 1 .. Len(s) /\ s[Position(s, x)] = x
  BY <1>2, PositionIs
<1>5. Position(s, y) \in 1 .. Len(s) /\ s[Position(s, y)] = y
  BY <1>2, PositionIs
<1>6. Position(s, x) = i /\ Position(s, y) = j
  BY <1>1, <1>3, <1>4, <1>5
<1>. QED BY <1>1, <1>6

-----------------------------------------------------------------------------
(* The skip lists.                                                         *)

On(W, t) == t \in ToSet(W.rows[ListOf(t)][LastRow])

\* A row has no timer twice and only timers of its own kind, and what is in a row
\* is in the rows below; the history order has the timers that are on a list.
Chains(W) ==
    /\ \A l \in Lists, i \in Rows : IsInjective(W.rows[l][i])
    /\ \A l \in Lists, i \in Rows : \A x \in ToSet(W.rows[l][i]) : ListOf(x) = l
    /\ \A l \in Lists, i, j \in Rows :
          i <= j => ToSet(W.rows[l][i]) \subseteq ToSet(W.rows[l][j])
    /\ IsInjective(W.order)
    /\ \A x \in Timers : x \in ToSet(W.order) <=> On(W, x)

\* Before, for every row.
Sorted(W) ==
    \A l \in Lists, i \in Rows, x, y \in Timers :
        Ahead(W.rows[l][i], x, y) =>
            \/ W.due[x] < W.due[y]
            \/ W.due[x] = W.due[y] /\ Ahead(W.order, x, y)

LEMMA RowTypes ==
    /\ LastRow \in Rows /\ LastRow \in Nat /\ 1 \in Rows
    /\ \A i \in Rows : i \in Nat /\ i <= LastRow
    /\ \A t : ListOf(t) \in Lists
BY TimerAssumption DEF Rows, LastRow, Lists, ListOf

LEMMA StateTypes ==
    ASSUME NEW W \in TimerState
    PROVE  /\ \A l \in Lists, i \in Rows : W.rows[l][i] \in Seq(Timers)
           /\ W.order \in Seq(Timers)
           /\ W.timer \in [Timers -> [timeout : Ticks, init : Ticks, flag : Flags]]
           /\ W.due \in [Timers -> Int]
           /\ W.rows \in [Lists -> [Rows -> Seq(Timers)]]
BY DEF TimerState

\* A timer that is in some row is on the list of its kind.
LEMMA InRow ==
    ASSUME NEW W \in TimerState, Chains(W), NEW l \in Lists, NEW i \in Rows,
           NEW x \in ToSet(W.rows[l][i])
    PROVE  x \in Timers /\ ListOf(x) = l /\ On(W, x)
<1>1. ToSet(W.rows[l][i]) \subseteq ToSet(W.rows[l][LastRow])
  BY RowTypes DEF Chains
<1>2. ListOf(x) = l
  BY DEF Chains
<1>3. x \in Timers
  BY StateTypes, ToSetDef
<1>. QED BY <1>1, <1>2, <1>3 DEF On

\* t leaves the lists; nothing else is said of t.
Off(W, r, t) ==
    /\ r \in TimerState /\ Chains(r)
    /\ \A x \in Timers \ {t} : r.timer[x] = W.timer[x] /\ r.due[x] = W.due[x]
    /\ \A x \in Timers : On(r, x) <=> On(W, x) /\ x # t
    /\ \A l \in Lists, i \in Rows, x, y \in Timers :
          Ahead(r.rows[l][i], x, y) => Ahead(W.rows[l][i], x, y) /\ x # t /\ y # t
    /\ \A x, y \in Timers : Ahead(W.order, x, y) /\ x # t /\ y # t => Ahead(r.order, x, y)

\* What the rest of the timers see when t has been taken off.
LEMMA TakenOff ==
    ASSUME NEW W \in TimerState, Chains(W), NEW t \in Timers, NEW r \in TimerState,
           r.rows = [l \in Lists |-> [i \in Rows |-> RemoveFirst(W.rows[l][i], t)]],
           r.order = RemoveFirst(W.order, t),
           \A x \in Timers \ {t} : r.timer[x] = W.timer[x] /\ r.due[x] = W.due[x]
    PROVE  Off(W, r, t)
<1>1. ASSUME NEW l \in Lists, NEW i \in Rows
      PROVE  /\ IsInjective(r.rows[l][i]) /\ ToSet(r.rows[l][i]) = ToSet(W.rows[l][i]) \ {t}
             /\ \A x, y \in Timers :
                   Ahead(r.rows[l][i], x, y) <=> Ahead(W.rows[l][i], x, y) /\ x # t /\ y # t
  <2>1. PICK s : s = W.rows[l][i]
    OBVIOUS
  <2>2. s \in Seq(Timers) /\ IsInjective(s) /\ r.rows[l][i] = RemoveFirst(s, t)
    BY <2>1, StateTypes DEF Chains
  <2>. QED BY <2>1, <2>2, RemoveFacts, AheadRemove
<1>2. /\ IsInjective(r.order) /\ ToSet(r.order) = ToSet(W.order) \ {t}
      /\ \A x, y \in Timers : Ahead(r.order, x, y) <=> Ahead(W.order, x, y) /\ x # t /\ y # t
  <2>1. W.order \in Seq(Timers) /\ IsInjective(W.order)
    BY StateTypes DEF Chains
  <2>. QED BY <2>1, RemoveFacts, AheadRemove
<1>3. ASSUME NEW x \in Timers
      PROVE  On(r, x) <=> On(W, x) /\ x # t
  BY ONLY <1>1, RowTypes DEF On
<1>4. Chains(r)
  <2>0. Chains(W)
    OBVIOUS
  <2>1. \A l \in Lists, i \in Rows : \A x \in ToSet(r.rows[l][i]) : ListOf(x) = l
    BY ONLY <1>1, <2>0 DEF Chains
  <2>2. \A l \in Lists, i, j \in Rows :
          i <= j => ToSet(r.rows[l][i]) \subseteq ToSet(r.rows[l][j])
    BY ONLY <1>1, <2>0 DEF Chains
  <2>3. \A x \in Timers : x \in ToSet(r.order) <=> On(r, x)
    BY <1>2, <1>3 DEF Chains
  <2>. QED BY <1>1, <1>2, <2>1, <2>2, <2>3 DEF Chains
<1>. QED BY <1>1, <1>2, <1>3, <1>4 DEF Off

\* _rt_timer_remove.
LEMMA UnlinkIs ==
    ASSUME NEW W \in TimerState, Chains(W), NEW t \in Timers, NEW known,
           NEW r, r = Unlink(W, t, known)
    PROVE  /\ Off(W, r, t)
           /\ r.timer[t].flag = W.timer[t].flag /\ r.timer[t].init = W.timer[t].init
           /\ Placed(t) => r.timer[t] = W.timer[t] /\ r.due[t] = W.due[t]
<1>1. PICK a, b : /\ a = (IF known \/ Placed(t) THEN W.timer[t].timeout ELSE 0)
                  /\ b = (IF Placed(t) THEN W.due[t] ELSE 0)
  OBVIOUS
<1>2. r = [W EXCEPT !.rows = [l \in Lists |-> [i \in Rows |-> RemoveFirst(W.rows[l][i], t)]],
                    !.timer[t].timeout = a, !.due[t] = b, !.order = RemoveFirst(W.order, t)]
  BY <1>1 DEF Unlink
<1>3. a \in Ticks /\ b \in Int
  BY <1>1, StateTypes, TimerAssumption DEF Ticks, RT_TICK_MAX
<1>4. /\ RemoveFirst(W.order, t) \in Seq(Timers)
      /\ \A l \in Lists, i \in Rows : RemoveFirst(W.rows[l][i], t) \in Seq(Timers)
  <2>1. ASSUME NEW s \in Seq(Timers), IsInjective(s)
        PROVE  RemoveFirst(s, t) \in Seq(Timers)
    BY <2>1, RemoveFacts
  <2>. QED BY <2>1, StateTypes DEF Chains
<1>5. /\ r.rows = [l \in Lists |-> [i \in Rows |-> RemoveFirst(W.rows[l][i], t)]]
      /\ r.order = RemoveFirst(W.order, t)
      /\ r.timer = [W.timer EXCEPT ![t].timeout = a]
      /\ r.due = [W.due EXCEPT ![t] = b]
      /\ r = [timer |-> r.timer, rows |-> r.rows, due |-> r.due, order |-> r.order]
  BY <1>2 DEF TimerState
<1>6. r \in TimerState
  <2>1. r.timer \in [Timers -> [timeout : Ticks, init : Ticks, flag : Flags]]
    <3>1. [W.timer[t] EXCEPT !.timeout = a] \in [timeout : Ticks, init : Ticks, flag : Flags]
      BY <1>3, StateTypes
    <3>2. r.timer = [W.timer EXCEPT ![t] = [W.timer[t] EXCEPT !.timeout = a]]
      BY <1>5
    <3>. QED BY <3>1, <3>2, StateTypes
  <2>2. r.due \in [Timers -> Int]
    BY <1>3, <1>5, StateTypes
  <2>3. r.rows \in [Lists -> [Rows -> Seq(Timers)]]
    BY <1>4, <1>5
  <2>. QED BY <1>4, <1>5, <2>1, <2>2, <2>3 DEF TimerState
<1>7. \A x \in Timers \ {t} : r.timer[x] = W.timer[x] /\ r.due[x] = W.due[x]
  BY <1>5, StateTypes
<1>8. Off(W, r, t)
  BY <1>5, <1>6, <1>7, TakenOff
<1>9. r.timer[t].flag = W.timer[t].flag /\ r.timer[t].init = W.timer[t].init
  BY <1>5, StateTypes
<1>10. Placed(t) => r.timer[t] = W.timer[t] /\ r.due[t] = W.due[t]
  <2>1. ASSUME Placed(t)
        PROVE  r.timer[t] = W.timer[t] /\ r.due[t] = W.due[t]
    <3>1. a = W.timer[t].timeout /\ b = W.due[t]
      BY <1>1, <2>1
    <3>. QED BY <1>5, <3>1, StateTypes
  <2>. QED BY <2>1
<1>. QED BY <1>8, <1>9, <1>10

-----------------------------------------------------------------------------
(* Ticks that wrap around.                                                 *)

LEMMA ModDiv ==
    ASSUME NEW M \in Nat, M > 0, NEW a \in Int
    PROVE  a % M \in 0 .. M - 1 /\ \E q \in Int : a = q * M + (a % M)
<1>1. a % M \in 0 .. M - 1
  OBVIOUS
<1>2. a = (a \div M) * M + (a % M) /\ a \div M \in Int
  OBVIOUS
<1>. QED BY <1>1, <1>2

LEMMA ModUnique ==
    ASSUME NEW M \in Nat, M > 0, NEW a \in Int, NEW q \in Int, NEW x \in 0 .. M - 1,
           a = q * M + x
    PROVE  a % M = x
<1>1. PICK p \in Int : a = p * M + (a % M)
  BY ModDiv
<1>2. PICK y \in 0 .. M - 1 : y = a % M
  BY ModDiv
<1>3. (p - q) * M = x - y
  BY <1>1, <1>2
<1>4. PICK d \in Int : d = p - q
  OBVIOUS
<1>5. d * M = x - y /\ x - y < M /\ 0 - M < x - y
  BY <1>2, <1>3, <1>4
<1>6. ~ d >= 1
  <2>1. ASSUME d >= 1 PROVE d * M >= M
    BY <2>1
  <2>. QED BY <1>5, <2>1
<1>7. ~ d <= 0 - 1
  <2>1. ASSUME d <= 0 - 1 PROVE d * M <= 0 - M
    BY <2>1
  <2>. QED BY <1>5, <2>1
<1>8. d = 0
  BY <1>6, <1>7
<1>. QED BY <1>2, <1>5, <1>8

\* A difference does not depend on where the counter stands.
LEMMA ModSub ==
    ASSUME NEW M \in Nat, M > 0, NEW c \in Int, NEW a \in Int, NEW b \in Int
    PROVE  (((c + a) % M) - ((c + b) % M)) % M = (a - b) % M
<1>1. PICK e, f, g \in Int : e = c + a /\ f = c + b /\ g = a - b
  OBVIOUS
<1>2. PICK u, v, x : u = e % M /\ v = f % M /\ x = g % M
  OBVIOUS
<1>3. u \in 0 .. M - 1 /\ v \in 0 .. M - 1 /\ x \in 0 .. M - 1
  BY <1>2, ModDiv
<1>4. PICK p \in Int : e = p * M + u
  BY <1>2, ModDiv
<1>5. PICK q \in Int : f = q * M + v
  BY <1>2, ModDiv
<1>6. PICK n \in Int : g = n * M + x
  BY <1>2, ModDiv
<1>7. u - v = (n + q - p) * M + x
  BY <1>1, <1>3, <1>4, <1>5, <1>6
<1>8. PICK d, m \in Int : d = u - v /\ m = n + q - p
  BY <1>3
<1>9. d % M = x
  BY <1>3, <1>7, <1>8, ModUnique
<1>10. (c + a) % M = u /\ (c + b) % M = v /\ (a - b) % M = x
  BY <1>1, <1>2, Zenon
<1>11. (u - v) % M = x
  BY <1>8, <1>9, Zenon
<1>. QED BY <1>10, <1>11

\* A difference smaller than the range, as the counter shows it.
LEMMA ModShort ==
    ASSUME NEW M \in Nat, M > 0, NEW a \in Int, a < M, 0 - M <= a
    PROVE  a % M = IF a < 0 THEN M + a ELSE a
<1>1. CASE a < 0
  <2>1. a = (0 - 1) * M + (M + a) /\ M + a \in 0 .. M - 1
    BY <1>1
  <2>. QED BY <1>1, <2>1, ModUnique
<1>2. CASE a >= 0
  <2>1. a = 0 * M + a /\ a \in 0 .. M - 1
    BY <1>2
  <2>. QED BY <1>2, <2>1, ModUnique
<1>. QED BY <1>1, <1>2

\* The counter may be cut to its width before or after an addition.
LEMMA ModAdd ==
    ASSUME NEW M \in Nat, M > 0, NEW c \in Int, NEW b \in Int
    PROVE  ((c % M) + b) % M = (c + b) % M
<1>1. PICK u : u = c % M
  OBVIOUS
<1>2. u \in 0 .. M - 1
  BY <1>1, ModDiv
<1>3. PICK p \in Int : c = p * M + u
  BY <1>1, ModDiv
<1>4. PICK e, f \in Int : e = u + b /\ f = c + b
  BY <1>2
<1>5. PICK y : y = e % M
  OBVIOUS
<1>6. y \in 0 .. M - 1
  BY <1>4, <1>5, ModDiv
<1>7. PICK q \in Int : e = q * M + y
  BY <1>4, <1>5, ModDiv
<1>8. PICK n \in Int : n = p + q
  OBVIOUS
<1>9. f = n * M + y
  BY <1>2, <1>3, <1>4, <1>6, <1>7, <1>8
<1>10. f % M = y
  BY <1>4, <1>6, <1>9, ModUnique
<1>. QED BY <1>1, <1>4, <1>5, <1>10, Zenon

\* No timer is late by so much that the difference of two times reaches half of
\* the range: rt_timer_start asserts as much of the time that is asked for only.
LagBounded ==
    /\ MaxLag < Half
    /\ \A t \in Timers : \A i \in InitTicks[t] : i + MaxLag < Half

LEMMA HalfIs ==
    /\ TickMod \in Nat /\ TickMod > 0 /\ Half \in Nat /\ 2 * Half < TickMod
    /\ MaxLag \in Nat
BY TimerAssumption DEF Half, RT_TICK_MAX

LEMMA SubShift ==
    \A c, a, b \in Int :
        Sub((c + a) % TickMod, (c + b) % TickMod) = (a - b) % TickMod
<1>1. PICK M \in Nat : M = TickMod /\ M > 0
  BY HalfIs
<1>2. \A c, a, b \in Int : (((c + a) % M) - ((c + b) % M)) % M = (a - b) % M
  BY <1>1, ModSub, Zenon
<1>. QED BY <1>1, <1>2, Zenon DEF Sub

\* timeout_tick is the real time of expiry, and the lag in its bounds.
Timely(W, t) ==
    /\ W.timer[t].timeout = (tick + W.due[t]) % TickMod
    /\ 0 - MaxLag <= W.due[t] /\ W.due[t] + MaxLag < Half

\* The search compares by the real time that is left.
LEMMA PassesIs ==
    ASSUME LagBounded, tick \in Ticks, NEW W \in TimerState, NEW u \in Timers,
           NEW t \in Timers, Timely(W, u), Timely(W, t)
    PROVE  Passes(W, u, t) <=> W.due[u] <= W.due[t]
<1>1. PICK a, b \in Int : a = W.due[u] /\ b = W.due[t]
  BY StateTypes
<1>2. tick \in Int
  BY DEF Ticks
<1>3. Sub(W.timer[u].timeout, W.timer[t].timeout) = (a - b) % TickMod
  <2>1. Sub((tick + a) % TickMod, (tick + b) % TickMod) = (a - b) % TickMod
    BY <1>1, <1>2, SubShift, Zenon
  <2>2. W.timer[u].timeout = (tick + a) % TickMod /\ W.timer[t].timeout = (tick + b) % TickMod
    BY <1>1, Zenon DEF Timely
  <2>. QED BY <2>1, <2>2, Zenon
<1>4. a - b < Half /\ 0 - Half < a - b
  BY <1>1, HalfIs DEF Timely
<1>5. (a - b) % TickMod = IF a - b < 0 THEN TickMod + (a - b) ELSE a - b
  BY <1>1, <1>4, HalfIs, ModShort
<1>6. PICK d : d = (a - b) % TickMod
  OBVIOUS
<1>7. d = 0 \/ ~ (d < Half) <=> a <= b
  BY <1>1, <1>4, <1>5, <1>6, HalfIs
<1>. QED BY <1>1, <1>3, <1>6, <1>7 DEF Passes

\* A linked timer is found expired exactly when its time is over.
LEMMA ExpiredIs ==
    ASSUME LagBounded, tick \in Ticks, w \in TimerState, NEW t \in Timers, Timely(w, t)
    PROVE  Expired(t, tick) <=> w.due[t] <= 0
<1>1. PICK a \in Int : a = w.due[t]
  BY StateTypes
<1>2. tick \in Int /\ tick % TickMod = tick /\ tick + 0 = tick
  BY HalfIs, ModShort DEF Ticks, RT_TICK_MAX
<1>3. Sub(tick, w.timer[t].timeout) = (0 - a) % TickMod
  <2>1. Sub((tick + 0) % TickMod, (tick + a) % TickMod) = (0 - a) % TickMod
    <3>1. 0 \in Int
      OBVIOUS
    <3>. QED BY <1>1, <1>2, <3>1, SubShift, Zenon
  <2>2. w.timer[t].timeout = (tick + a) % TickMod /\ (tick + 0) % TickMod = tick
    BY <1>1, <1>2, Zenon DEF Timely
  <2>. QED BY <2>1, <2>2, Zenon
<1>4. 0 - a < Half /\ 0 - Half < 0 - a
  BY <1>1, HalfIs DEF Timely, LagBounded
<1>5. (0 - a) % TickMod = IF 0 - a < 0 THEN TickMod - a ELSE 0 - a
  BY <1>1, <1>4, HalfIs, ModShort
<1>. QED BY <1>1, <1>3, <1>4, <1>5, HalfIs DEF Expired

-----------------------------------------------------------------------------
(* rt_timer_start finds the place of a timer in every row.                 *)

LEMMA ReachedIs ==
    ASSUME NEW W, NEW s \in Seq(Timers), NEW i \in 0 .. Len(s), NEW t, NEW j,
           j = Reached(W, s, i, t)
    PROVE  /\ j \in i .. Len(s)
           /\ \A m \in i + 1 .. j : Passes(W, s[m], t)
           /\ j < Len(s) => ~ Passes(W, s[j + 1], t)
<1>. DEFINE ends == {n \in i .. Len(s) : n < Len(s) => ~ Passes(W, s[n + 1], t)}
<1>0. Len(s) \in Nat /\ i \in Nat
  OBVIOUS
<1>1. ends \in SUBSET Nat /\ Len(s) \in ends
  BY <1>0
<1>2. PICK n \in ends : \A x \in ends : n <= x
  BY <1>1, MinExists
<1>3. n \in i .. Len(s) /\ (n < Len(s) => ~ Passes(W, s[n + 1], t))
  BY <1>2
<1>4. ASSUME NEW m \in i + 1 .. n
      PROVE  Passes(W, s[m], t)
  <2>1. m - 1 \in i .. Len(s) /\ m - 1 < Len(s) /\ m - 1 < n /\ (m - 1) + 1 = m
    BY <1>0, <1>3
  <2>2. m - 1 \notin ends
    BY <1>0, <1>2, <1>3, <2>1
  <2>. QED BY <2>1, <2>2
<1>5. \E k \in i .. Len(s) :
        /\ \A m \in i + 1 .. k : Passes(W, s[m], t)
        /\ k < Len(s) => ~ Passes(W, s[k + 1], t)
  BY <1>3, <1>4
<1>. QED BY <1>5 DEF Reached

LEMMA SearchIs ==
    ASSUME NEW W, NEW s \in Seq(Timers), NEW u, NEW t, NEW h, h = SearchRow(W, s, u, t),
           IsInjective(s)
    PROVE  /\ h \in ToSet(s) \union {None}
           /\ Position(s, h) \in Position(s, u) .. Len(s)
           /\ Position(s, u) \in 0 .. Len(s)
           /\ \A m \in Position(s, u) + 1 .. Position(s, h) : Passes(W, s[m], t)
           /\ Position(s, h) < Len(s) => ~ Passes(W, s[Position(s, h) + 1], t)
<1>1. Len(s) \in Nat /\ \A x : x \in ToSet(s) <=> \E n \in 1 .. Len(s) : s[n] = x
  BY ToSetDef
<1>2. PICK i : i = Position(s, u)
  OBVIOUS
<1>3. i \in 0 .. Len(s)
  BY <1>1, <1>2, PositionIs
<1>4. PICK j : j = Reached(W, s, i, t)
  OBVIOUS
<1>5. /\ j \in i .. Len(s)
      /\ \A m \in i + 1 .. j : Passes(W, s[m], t)
      /\ j < Len(s) => ~ Passes(W, s[j + 1], t)
  BY <1>3, <1>4, ReachedIs
<1>6. h = IF j = 0 THEN None ELSE s[j]
  BY <1>2, <1>4 DEF SearchRow
<1>7. Position(s, h) = j /\ h \in ToSet(s) \union {None}
  <2>1. CASE j = 0
    <3>1. None \notin ToSet(s)
      BY ToSetDef, TimerAssumption
    <3>. QED BY <1>6, <2>1, <3>1, PositionIs
  <2>2. CASE j # 0
    <3>1. j \in 1 .. Len(s) /\ h = s[j] /\ h \in ToSet(s)
      BY <1>1, <1>3, <1>5, <1>6, <2>2
    <3>2. Position(s, h) \in 1 .. Len(s) /\ s[Position(s, h)] = h
      BY <3>1, PositionIs
    <3>3. Position(s, h) = j
      BY <3>1, <3>2 DEF IsInjective
    <3>. QED BY <3>1, <3>3
  <2>. QED BY <2>1, <2>2
<1>. QED BY <1>2, <1>3, <1>5, <1>7

LEMMA RowHeadIs ==
    ASSUME NEW W \in TimerState, Chains(W), NEW t \in Timers, NEW heads, heads = RowHead(W, t)
    PROVE  \A i \in Rows :
              heads[i] = SearchRow(W, W.rows[ListOf(t)][i],
                                   IF i = 1 THEN None ELSE heads[i - 1], t)
<1>. DEFINE N == LastRow
            S == Timers \union {None}
            search(n, u) == SearchRow(W, W.rows[ListOf(t)][n], u, t)
            g == [n \in 1 .. N |-> [u \in S |-> search(n, u)]]
            F(f) == [n \in Rows |-> search(n, IF n = 1 THEN None ELSE f[n - 1])]
            head == CHOOSE f : f = F(f)
<1>1. heads = head
  BY Zenon DEF RowHead
<1>2. N \in Nat /\ None \in S /\ Rows = 1 .. N
  BY RowTypes DEF Rows, LastRow
<1>3. ASSUME NEW n \in Rows, NEW u
      PROVE  search(n, u) \in S
  <2>1. PICK s : s = W.rows[ListOf(t)][n]
    OBVIOUS
  <2>2. s \in Seq(Timers) /\ IsInjective(s)
    BY <2>1, StateTypes, RowTypes DEF Chains
  <2>3. SearchRow(W, s, u, t) \in ToSet(s) \union {None}
    BY <2>2, SearchIs
  <2>. QED BY <2>1, <2>2, <2>3, ToSetDef
<1>. HIDE DEF search
<1>4. g \in [1 .. N -> [S -> S]]
  BY <1>2, <1>3
<1>5. PICK f \in [0 .. N -> S] : f[0] = None /\ \A n \in 1 .. N : f[n] = g[n][f[n - 1]]
  <2>. HIDE DEF g, S, N
  <2>1. Histories(S, None, g, N) # {}
    BY <1>2, <1>4, Iterates
  <2>. QED BY <2>1 DEF Histories
<1>6. ASSUME NEW n \in 1 .. N
      PROVE  n - 1 \in 0 .. N /\ f[n] = search(n, f[n - 1])
  <2>1. n - 1 \in 0 .. N
    BY <1>2
  <2>2. f[n - 1] \in S
    BY <1>5, <2>1
  <2>. QED BY <1>5, <2>1, <2>2
<1>. HIDE DEF g
<1>7. PICK e : e = [n \in Rows |-> f[n]]
  OBVIOUS
<1>8. e = F(e)
  <2>1. ASSUME NEW n \in Rows
        PROVE  f[n] = search(n, IF n = 1 THEN None ELSE e[n - 1])
    <3>1. CASE n = 1
      BY <1>2, <1>5, <1>6, <3>1
    <3>2. CASE n # 1
      <4>1. n - 1 \in Rows /\ e[n - 1] = f[n - 1]
        BY <1>2, <1>7, <3>2
      <4>. QED BY <1>2, <1>6, <3>2, <4>1
    <3>. QED BY <3>1, <3>2
  <2>. QED BY <1>7, <2>1
<1>9. head = F(head)
  <2>. HIDE DEF F
  <2>. QED BY <1>8, Zenon
<1>10. ASSUME NEW n \in Rows
       PROVE  head[n] = search(n, IF n = 1 THEN None ELSE head[n - 1])
  <2>. HIDE DEF head
  <2>. QED BY <1>9
<1>. HIDE DEF head
<1>. QED BY <1>1, <1>10 DEF search

\* The first n of a row are to expire no later than t, the others later.
Splits(W, s, n, t) ==
    /\ n \in 0 .. Len(s)
    /\ \A m \in 1 .. n : W.due[s[m]] <= W.due[t]
    /\ \A m \in n + 1 .. Len(s) : W.due[t] < W.due[s[m]]

\* Everything that an insertion reads is in order.
Fit(W, t) ==
    /\ W \in TimerState /\ Chains(W) /\ Sorted(W) /\ LagBounded /\ tick \in Ticks
    /\ t \in Timers /\ Timely(W, t)
    /\ \A x \in Timers : On(W, x) => Timely(W, x)

LEMMA SearchSplits ==
    ASSUME NEW W, NEW t, Fit(W, t), NEW l \in Lists, NEW i \in Rows,
           NEW s, s = W.rows[l][i], NEW u,
           u # None => u \in ToSet(s) /\ W.due[u] <= W.due[t],
           NEW h, h = SearchRow(W, s, u, t)
    PROVE  /\ Splits(W, s, Position(s, h), t)
           /\ h # None => h \in ToSet(s) /\ W.due[h] <= W.due[t]
<1>1. /\ W \in TimerState /\ Chains(W) /\ Sorted(W) /\ LagBounded /\ tick \in Ticks
      /\ t \in Timers /\ Timely(W, t) /\ \A x \in Timers : On(W, x) => Timely(W, x)
  BY DEF Fit
<1>2. s \in Seq(Timers) /\ IsInjective(s) /\ Len(s) \in Nat
  BY <1>1, StateTypes DEF Chains
<1>3. \A x \in ToSet(s) : x \in Timers /\ On(W, x)
  BY <1>1, InRow
<1>4. ASSUME NEW m \in 1 .. Len(s)
      PROVE  s[m] \in Timers /\ s[m] \in ToSet(s) /\ W.due[s[m]] \in Int
             /\ (Passes(W, s[m], t) <=> W.due[s[m]] <= W.due[t])
  <2>1. s[m] \in ToSet(s)
    BY <1>2, ToSetDef
  <2>2. s[m] \in Timers /\ Timely(W, s[m])
    BY <1>1, <1>3, <2>1
  <2>3. Passes(W, s[m], t) <=> W.due[s[m]] <= W.due[t]
    BY <1>1, <2>2, PassesIs
  <2>. QED BY <1>1, <2>1, <2>2, <2>3, StateTypes
<1>5. ASSUME NEW m \in 1 .. Len(s), NEW n \in 1 .. Len(s), m <= n
      PROVE  W.due[s[m]] <= W.due[s[n]]
  <2>1. CASE m = n
    BY <1>4, <2>1
  <2>2. CASE m < n
    <3>1. Ahead(s, s[m], s[n])
      BY <2>2 DEF Ahead
    <3>2. W.due[s[m]] < W.due[s[n]] \/ W.due[s[m]] = W.due[s[n]]
      BY <1>1, <1>4, <3>1 DEF Sorted
    <3>. QED BY <1>4, <3>2, SMTT(30)
  <2>. QED BY <1>5, <2>1, <2>2
<1>6. PICK p, n : p = Position(s, u) /\ n = Position(s, h)
  OBVIOUS
<1>7. /\ h \in ToSet(s) \union {None} /\ p \in 0 .. Len(s) /\ n \in p .. Len(s)
      /\ \A m \in p + 1 .. n : Passes(W, s[m], t)
      /\ n < Len(s) => ~ Passes(W, s[n + 1], t)
  BY <1>2, <1>6, SearchIs
<1>8. W.due[t] \in Int
  BY <1>1, StateTypes
<1>9. ASSUME NEW m \in 1 .. n
      PROVE  W.due[s[m]] <= W.due[t]
  <2>0. m \in 1 .. Len(s)
    BY <1>2, <1>7
  <2>1. CASE m > p
    BY <1>2, <1>4, <1>7, <2>0, <2>1
  <2>2. CASE m <= p
    <3>1. u \in ToSet(s) /\ u # None
      <4>1. u \in ToSet(s)
        BY <1>2, <1>6, <1>7, <2>0, <2>2, PositionIs
      <4>. QED BY <1>3, <4>1, TimerAssumption
    <3>2. p \in 1 .. Len(s) /\ s[p] = u
      BY <1>2, <1>6, <3>1, PositionIs
    <3>3. W.due[s[m]] <= W.due[s[p]] /\ W.due[s[p]] <= W.due[t]
      BY <1>5, <2>0, <2>2, <3>1, <3>2
    <3>4. W.due[s[m]] \in Int /\ W.due[s[p]] \in Int
      BY <1>4, <2>0, <3>2
    <3>. QED BY <1>8, <3>3, <3>4
  <2>. QED BY <1>7, <2>1, <2>2
<1>10. ASSUME NEW m \in n + 1 .. Len(s)
       PROVE  W.due[t] < W.due[s[m]]
  <2>1. n + 1 \in 1 .. Len(s) /\ m \in 1 .. Len(s) /\ n + 1 <= m /\ n < Len(s)
    BY <1>2, <1>7
  <2>2. ~ (W.due[s[n + 1]] <= W.due[t])
    BY <1>4, <1>7, <2>1
  <2>3. W.due[s[n + 1]] <= W.due[s[m]]
    BY <1>5, <2>1
  <2>. QED BY <1>4, <1>8, <2>1, <2>2, <2>3, SMTT(30)
<1>11. Splits(W, s, n, t)
  <2>1. n \in 0 .. Len(s)
    BY <1>2, <1>7
  <2>. QED BY <1>9, <1>10, <2>1 DEF Splits
<1>12. ASSUME h # None
       PROVE  h \in ToSet(s) /\ W.due[h] <= W.due[t]
  <2>1. h \in ToSet(s)
    BY <1>7, <1>12
  <2>2. n \in 1 .. Len(s) /\ s[n] = h
    BY <1>2, <1>6, <2>1, PositionIs
  <2>. QED BY <1>9, <2>1, <2>2
<1>. QED BY <1>6, <1>11, <1>12

LEMMA HeadsSplit ==
    ASSUME NEW W, NEW t, Fit(W, t), NEW heads, heads = RowHead(W, t), NEW k \in Rows
    PROVE  Splits(W, W.rows[ListOf(t)][k], Position(W.rows[ListOf(t)][k], heads[k]), t)
<1>. DEFINE s(i) == W.rows[ListOf(t)][i]
            found(i) == heads[i] # None => heads[i] \in ToSet(s(i)) /\ W.due[heads[i]] <= W.due[t]
            T == {i \in 0 .. LastRow : i # 0 => found(i)}
<1>1. W \in TimerState /\ Chains(W) /\ t \in Timers /\ ListOf(t) \in Lists
  BY RowTypes DEF Fit
<1>2. Rows = 1 .. LastRow /\ LastRow \in Nat
  BY RowTypes DEF Rows, LastRow
<1>3. \A i \in Rows : heads[i] = SearchRow(W, s(i), IF i = 1 THEN None ELSE heads[i - 1], t)
  BY <1>1, RowHeadIs
<1>4. ASSUME NEW i \in Rows, i - 1 \in T
      PROVE  Splits(W, s(i), Position(s(i), heads[i]), t) /\ found(i)
  <2>1. PICK u : u = (IF i = 1 THEN None ELSE heads[i - 1])
    OBVIOUS
  <2>2. u # None => u \in ToSet(s(i)) /\ W.due[u] <= W.due[t]
    <3>1. CASE i = 1
      BY <2>1, <3>1
    <3>2. CASE i # 1
      <4>1. i - 1 \in Rows /\ i - 1 <= i /\ i - 1 # 0
        BY <1>2, <3>2
      <4>2. ToSet(s(i - 1)) \subseteq ToSet(s(i))
        BY <1>1, <4>1 DEF Chains
      <4>3. found(i - 1)
        BY <1>4, <4>1
      <4>. QED BY <2>1, <3>2, <4>2, <4>3
    <3>. QED BY <3>1, <3>2
  <2>3. heads[i] = SearchRow(W, s(i), u, t)
    BY <1>3, <2>1
  <2>4. PICK q, h : q = s(i) /\ h = heads[i]
    OBVIOUS
  <2>5. Splits(W, q, Position(q, h), t) /\ (h # None => h \in ToSet(q) /\ W.due[h] <= W.due[t])
    BY <1>1, <2>2, <2>3, <2>4, SearchSplits
  <2>. QED BY <2>4, <2>5
<1>5. 0 \in T
  BY <1>2
<1>6. \A n \in 0 .. LastRow - 1 : n \in T => n + 1 \in T
  <2>. SUFFICES ASSUME NEW n \in 0 .. LastRow - 1, n \in T PROVE n + 1 \in T
    OBVIOUS
  <2>1. n + 1 \in Rows /\ n + 1 \in 0 .. LastRow /\ (n + 1) - 1 = n
    BY <1>2
  <2>2. found(n + 1)
    BY <1>4, <2>1
  <2>. QED BY <2>1, <2>2
<1>. HIDE DEF T, s, found
<1>7. 0 .. LastRow \subseteq T
  BY <1>2, <1>5, <1>6, UpTo
<1>8. k - 1 \in T
  BY <1>2, <1>7
<1>. QED BY <1>4, <1>8 DEF s

\* t has been put on the list of its kind.
Put(W, r, t) ==
    /\ r \in TimerState /\ Chains(r)
    /\ r.due = W.due
    /\ \A x \in Timers : /\ r.timer[x].timeout = W.timer[x].timeout
                         /\ r.timer[x].init = W.timer[x].init
                         /\ x # t => r.timer[x] = W.timer[x]
    /\ \A x \in Timers : On(r, x) <=> On(W, x) \/ x = t

\* A row after the insertion.
RowWith(W, t, h, i) ==
    LET s == W.rows[ListOf(t)][i]
    IN  IF i > LastRow - h THEN InsertAt(s, Position(s, RowHead(W, t)[i]) + 1, t) ELSE s

LEMMA InsertFields ==
    ASSUME NEW W \in TimerState, NEW t \in Timers, NEW h \in Rows, NEW r, r = Insert(W, t, h),
           \A i \in Rows : RowWith(W, t, h, i) \in Seq(Timers)
    PROVE  /\ r \in TimerState
           /\ r.due = W.due /\ r.order = Append(W.order, t)
           /\ \A l \in Lists, i \in Rows :
                 r.rows[l][i] = IF l = ListOf(t) THEN RowWith(W, t, h, i) ELSE W.rows[l][i]
           /\ \A x \in Timers : /\ r.timer[x].timeout = W.timer[x].timeout
                                /\ r.timer[x].init = W.timer[x].init
                                /\ x # t => r.timer[x] = W.timer[x]
<1>1. PICK R, a : /\ R = [i \in Rows |-> RowWith(W, t, h, i)]
                  /\ a = W.timer[t].flag \union {"ACTIVATED"}
  OBVIOUS
<1>2. r = [W EXCEPT !.rows[ListOf(t)] = R, !.timer[t].flag = a, !.order = Append(W.order, t)]
  BY <1>1 DEF Insert, RowWith
<1>3. a \in Flags /\ R \in [Rows -> Seq(Timers)] /\ ListOf(t) \in Lists
  BY <1>1, StateTypes, RowTypes DEF Flags
<1>4. /\ r.rows = [W.rows EXCEPT ![ListOf(t)] = R]
      /\ r.order = Append(W.order, t)
      /\ r.timer = [W.timer EXCEPT ![t] = [W.timer[t] EXCEPT !.flag = a]]
      /\ r.due = W.due
      /\ r = [timer |-> r.timer, rows |-> r.rows, due |-> r.due, order |-> r.order]
  BY <1>2 DEF TimerState
<1>5. r \in TimerState
  <2>1. r.timer \in [Timers -> [timeout : Ticks, init : Ticks, flag : Flags]]
    <3>1. PICK c : c = W.timer[t]
      OBVIOUS
    <3>2. c \in [timeout : Ticks, init : Ticks, flag : Flags]
      BY <3>1, StateTypes
    <3>3. [c EXCEPT !.flag = a] \in [timeout : Ticks, init : Ticks, flag : Flags]
      BY ONLY <1>3, <3>2
    <3>. QED BY <1>4, <3>1, <3>3, StateTypes
  <2>2. r.rows \in [Lists -> [Rows -> Seq(Timers)]]
    BY <1>3, <1>4, StateTypes
  <2>3. r.order \in Seq(Timers) /\ r.due \in [Timers -> Int]
    BY <1>4, StateTypes
  <2>. QED BY <1>4, <2>1, <2>2, <2>3 DEF TimerState
<1>6. \A l \in Lists, i \in Rows :
        r.rows[l][i] = IF l = ListOf(t) THEN RowWith(W, t, h, i) ELSE W.rows[l][i]
  BY <1>1, <1>3, <1>4, StateTypes
<1>7. \A x \in Timers : /\ r.timer[x].timeout = W.timer[x].timeout
                        /\ r.timer[x].init = W.timer[x].init
                        /\ x # t => r.timer[x] = W.timer[x]
  BY <1>4, StateTypes
<1>. QED BY <1>4, <1>5, <1>6, <1>7

LEMMA InsertIs ==
    ASSUME NEW W \in TimerState, Chains(W), NEW t \in Timers, ~ On(W, t), NEW h \in Rows,
           NEW r, r = Insert(W, t, h)
    PROVE  Put(W, r, t)
<1>. DEFINE l == ListOf(t)
            s(i) == W.rows[l][i]
            n(i) == Position(s(i), RowHead(W, t)[i]) + 1
<1>1. l \in Lists /\ \A i \in Rows : s(i) \in Seq(Timers) /\ IsInjective(s(i)) /\ t \notin ToSet(s(i))
  <2>1. l \in Lists
    BY RowTypes
  <2>2. \A i \in Rows : t \notin ToSet(s(i))
    BY <2>1, InRow
  <2>. QED BY <2>1, <2>2, StateTypes DEF Chains
<1>2. ASSUME NEW i \in Rows
      PROVE  n(i) \in 1 .. Len(s(i)) + 1
  <2>1. PICK q, u : q = s(i) /\ u = RowHead(W, t)[i]
    OBVIOUS
  <2>2. Position(q, u) \in 0 .. Len(q) /\ Len(q) \in Nat
    BY <1>1, <2>1, PositionIs
  <2>. QED BY <2>1, <2>2
<1>3. ASSUME NEW i \in Rows
      PROVE  /\ RowWith(W, t, h, i) \in Seq(Timers) /\ IsInjective(RowWith(W, t, h, i))
             /\ ToSet(RowWith(W, t, h, i)) =
                   IF i > LastRow - h THEN ToSet(s(i)) \union {t} ELSE ToSet(s(i))
  <2>1. PICK q, m : q = s(i) /\ m = n(i)
    OBVIOUS
  <2>2. q \in Seq(Timers) /\ IsInjective(q) /\ t \notin ToSet(q) /\ m \in 1 .. Len(q) + 1
    BY <1>1, <1>2, <2>1
  <2>3. /\ InsertAt(q, m, t) \in Seq(Timers) /\ IsInjective(InsertAt(q, m, t))
        /\ ToSet(InsertAt(q, m, t)) = ToSet(q) \union {t}
    BY <2>2, InsertAtFacts
  <2>4. RowWith(W, t, h, i) = IF i > LastRow - h THEN InsertAt(q, m, t) ELSE q
    BY <2>1 DEF RowWith
  <2>. QED BY <2>1, <2>2, <2>3, <2>4
<1>. HIDE DEF s, n
<1>4. /\ r \in TimerState
      /\ r.due = W.due /\ r.order = Append(W.order, t)
      /\ \A k \in Lists, i \in Rows :
            r.rows[k][i] = IF k = l THEN RowWith(W, t, h, i) ELSE W.rows[k][i]
      /\ \A x \in Timers : /\ r.timer[x].timeout = W.timer[x].timeout
                           /\ r.timer[x].init = W.timer[x].init
                           /\ x # t => r.timer[x] = W.timer[x]
  BY <1>3, InsertFields
<1>5. ASSUME NEW k \in Lists, NEW i \in Rows
      PROVE  /\ IsInjective(r.rows[k][i])
             /\ ToSet(r.rows[k][i]) = IF k = l /\ i > LastRow - h
                                      THEN ToSet(W.rows[k][i]) \union {t}
                                      ELSE ToSet(W.rows[k][i])
  <2>1. CASE k = l
    BY <1>3, <1>4, <2>1 DEF s
  <2>2. CASE k # l
    BY <1>4, <2>2 DEF Chains
  <2>. QED BY <2>1, <2>2
<1>6. LastRow > LastRow - h /\ LastRow \in Rows /\ LastRow \in Nat
  BY RowTypes DEF Rows
<1>7. ASSUME NEW x \in Timers
      PROVE  On(r, x) <=> On(W, x) \/ x = t
  <2>1. ListOf(x) \in Lists
    BY RowTypes
  <2>. QED BY ONLY <1>5, <1>6, <2>1 DEF On
<1>8. /\ IsInjective(r.order) /\ ToSet(r.order) = ToSet(W.order) \union {t}
  <2>1. W.order \in Seq(Timers) /\ IsInjective(W.order) /\ t \notin ToSet(W.order)
    BY StateTypes DEF Chains
  <2>. QED BY <1>4, <2>1, AppendFacts
<1>9. Chains(r)
  <2>0. Chains(W)
    OBVIOUS
  <2>1. \A k \in Lists, i \in Rows : \A x \in ToSet(r.rows[k][i]) : ListOf(x) = k
    <3>1. ASSUME NEW k \in Lists, NEW i \in Rows, NEW x \in ToSet(r.rows[k][i])
          PROVE  ListOf(x) = k
      <4>1. x \in ToSet(W.rows[k][i]) \/ (k = ListOf(t) /\ x = t)
        BY <1>5, <3>1
      <4>. QED BY <2>0, <4>1 DEF Chains
    <3>. QED BY <3>1
  <2>2. \A k \in Lists, i, j \in Rows :
          i <= j => ToSet(r.rows[k][i]) \subseteq ToSet(r.rows[k][j])
    <3>1. ASSUME NEW k \in Lists, NEW i \in Rows, NEW j \in Rows, i <= j
          PROVE  ToSet(r.rows[k][i]) \subseteq ToSet(r.rows[k][j])
      <4>1. i > LastRow - h => j > LastRow - h
        BY <1>6, <3>1, RowTypes
      <4>2. ToSet(W.rows[k][i]) \subseteq ToSet(W.rows[k][j])
        BY <2>0, <3>1 DEF Chains
      <4>. QED BY <1>5, <4>1, <4>2
    <3>. QED BY <3>1
  <2>3. \A x \in Timers : x \in ToSet(r.order) <=> On(r, x)
    BY ONLY <1>7, <1>8, <2>0 DEF Chains
  <2>. QED BY <1>5, <1>8, <2>1, <2>2, <2>3 DEF Chains
<1>. QED BY <1>4, <1>7, <1>9 DEF Put

LEMMA InsertSorts ==
    ASSUME NEW W, NEW t, Fit(W, t), ~ On(W, t), NEW h \in Rows, NEW r, r = Insert(W, t, h)
    PROVE  Sorted(r)
<1>1. W \in TimerState /\ Chains(W) /\ Sorted(W) /\ t \in Timers
  BY DEF Fit
<1>2. Put(W, r, t)
  BY <1>1, InsertIs
<1>. SUFFICES ASSUME NEW l \in Lists, NEW i \in Rows, NEW x \in Timers, NEW y \in Timers,
                     Ahead(r.rows[l][i], x, y)
              PROVE  \/ r.due[x] < r.due[y]
                     \/ r.due[x] = r.due[y] /\ Ahead(r.order, x, y)
  BY DEF Sorted
<1>3. ASSUME NEW k \in Rows
      PROVE  RowWith(W, t, h, k) \in Seq(Timers)
  <2>1. PICK s, n : s = W.rows[ListOf(t)][k] /\ n = Position(s, RowHead(W, t)[k])
    OBVIOUS
  <2>2. s \in Seq(Timers) /\ n \in 0 .. Len(s) /\ Len(s) \in Nat
    <3>1. s \in Seq(Timers) /\ Len(s) \in Nat
      BY <1>1, <2>1, StateTypes, RowTypes
    <3>. QED BY <2>1, <3>1, PositionIs
  <2>3. n + 1 \in 1 .. Len(s) + 1
    BY <2>2
  <2>4. PICK m \in 1 .. Len(s) + 1 : m = n + 1
    BY <2>3
  <2>5. InsertAt(s, m, t) \in Seq(Timers)
    BY <1>1, <2>2, <2>4, InsertAtIndex
  <2>. QED BY <2>1, <2>2, <2>4, <2>5 DEF RowWith
<1>4. /\ r.due = W.due /\ r.order = Append(W.order, t)
      /\ r.rows[l][i] = IF l = ListOf(t) THEN RowWith(W, t, h, i) ELSE W.rows[l][i]
  BY <1>1, <1>3, InsertFields
<1>5. /\ \A u, v : Ahead(W.order, u, v) => Ahead(r.order, u, v)
      /\ \A u \in ToSet(W.order) : Ahead(r.order, u, t)
  <2>1. W.order \in Seq(Timers)
    BY <1>1, StateTypes
  <2>. QED BY <1>1, <1>4, <2>1, AheadAppend
<1>6. CASE Ahead(W.rows[l][i], x, y)
  BY <1>1, <1>4, <1>5, <1>6 DEF Sorted
<1>7. CASE ~ Ahead(W.rows[l][i], x, y)
  <2>1. PICK s, n : s = W.rows[l][i] /\ n = Position(s, RowHead(W, t)[i])
    OBVIOUS
  <2>2. l = ListOf(t) /\ r.rows[l][i] = InsertAt(s, n + 1, t)
    BY <1>4, <1>7, <2>1 DEF RowWith
  <2>3. Splits(W, s, n, t)
    BY <2>1, <2>2, HeadsSplit
  <2>4. s \in Seq(Timers) /\ Len(s) \in Nat /\ n \in 0 .. Len(s)
    BY <1>1, <2>1, <2>3, StateTypes DEF Splits
  <2>5. PICK m \in 1 .. Len(s) + 1 : m = n + 1
    BY <2>4
  <2>6. \/ x = t /\ \E k \in m .. Len(s) : s[k] = y
        \/ y = t /\ \E k \in 1 .. m - 1 : s[k] = x
    <3>1. Ahead(InsertAt(s, m, t), x, y) /\ ~ Ahead(s, x, y)
      BY <1>7, <2>1, <2>2, <2>5
    <3>. QED BY <1>1, <2>4, <3>1, AheadInsert
  <2>7. CASE x = t /\ \E k \in m .. Len(s) : s[k] = y
    BY <1>4, <2>3, <2>5, <2>7 DEF Splits
  <2>8. CASE y = t /\ \E k \in 1 .. m - 1 : s[k] = x
    <3>1. PICK k \in 1 .. n : s[k] = x
      BY <2>4, <2>5, <2>8
    <3>2. W.due[x] <= W.due[t] /\ W.due[x] \in Int /\ W.due[t] \in Int
      BY <1>1, <2>3, <3>1, StateTypes DEF Splits
    <3>3. x \in ToSet(s)
      BY <2>4, <3>1, ToSetDef
    <3>4. x \in ToSet(W.order)
      BY <1>1, <2>1, <3>3, InRow DEF Chains
    <3>. QED BY <1>4, <1>5, <2>8, <3>2, <3>4
  <2>. QED BY <2>6, <2>7, <2>8
<1>. QED BY <1>6, <1>7

-----------------------------------------------------------------------------
(* The control block of one timer changes, and no list.                    *)

Cell == [timeout : Ticks, init : Ticks, flag : Flags]

Chg(W, r, t) ==
    /\ r \in TimerState /\ r.rows = W.rows /\ r.order = W.order
    /\ \A x \in Timers \ {t} : r.timer[x] = W.timer[x] /\ r.due[x] = W.due[x]

WithCell(W, t, c) == [W EXCEPT !.timer = [W.timer EXCEPT ![t] = c]]

LEMMA ChgIs ==
    ASSUME NEW W \in TimerState, NEW t \in Timers, NEW c \in Cell,
           NEW r, r = WithCell(W, t, c)
    PROVE  Chg(W, r, t) /\ r.timer[t] = c /\ r.due = W.due
<1>1. /\ r.rows = W.rows /\ r.order = W.order /\ r.due = W.due
      /\ r.timer = [W.timer EXCEPT ![t] = c]
      /\ r = [timer |-> r.timer, rows |-> r.rows, due |-> r.due, order |-> r.order]
  BY DEF TimerState, WithCell
<1>2. r.timer \in [Timers -> Cell]
  BY <1>1, StateTypes DEF Cell
<1>3. r \in TimerState
  BY <1>1, <1>2, StateTypes DEF TimerState, Cell
<1>. QED BY <1>1, <1>3, StateTypes DEF Chg

LEMMA CellOf ==
    ASSUME NEW W \in TimerState, NEW t \in Timers
    PROVE  W.timer[t] \in Cell /\ W.due[t] \in Int
BY StateTypes DEF Cell

LEMMA ChgChains ==
    ASSUME NEW W \in TimerState, Chains(W), NEW t, NEW r, Chg(W, r, t)
    PROVE  Chains(r) /\ \A x : On(r, x) <=> On(W, x)
<1>1. r.rows = W.rows /\ r.order = W.order
  BY DEF Chg
<1>2. \A x : On(r, x) <=> On(W, x)
  BY <1>1 DEF On
<1>. QED BY <1>1, <1>2 DEF Chains

\* t leaves the lists, and then its control block changes.
LEMMA OffChg ==
    ASSUME NEW W \in TimerState, NEW V, NEW t, Off(W, V, t), NEW r, Chg(V, r, t)
    PROVE  Off(W, r, t)
<1>1. V \in TimerState /\ Chains(V)
  BY DEF Off
<1>2. Chains(r) /\ \A x : On(r, x) <=> On(V, x)
  BY <1>1, ChgChains
<1>. QED BY <1>2 DEF Off, Chg

Act(W, t) == "ACTIVATED" \in W.timer[t].flag

LEMMA DeactivateIs ==
    ASSUME NEW W \in TimerState, NEW t \in Timers, NEW r, r = Deactivate(W, t)
    PROVE  /\ Chg(W, r, t) /\ r.due = W.due /\ ~ Act(r, t)
           /\ r.timer[t].timeout = W.timer[t].timeout /\ r.timer[t].init = W.timer[t].init
<1>1. PICK a, c : /\ a = W.timer[t]
                  /\ c = [a EXCEPT !.flag = a.flag \ {"ACTIVATED"}]
  OBVIOUS
<1>2. a \in Cell
  BY <1>1, CellOf
<1>3. /\ c \in Cell /\ c.timeout = a.timeout /\ c.init = a.init
      /\ c.flag = a.flag \ {"ACTIVATED"}
  BY ONLY <1>1, <1>2 DEF Cell, Flags
<1>4. r = WithCell(W, t, c)
  BY <1>1 DEF Deactivate, WithCell
<1>5. Chg(W, r, t) /\ r.timer[t] = c /\ r.due = W.due
  BY <1>3, <1>4, ChgIs
<1>. QED BY <1>1, <1>3, <1>5 DEF Act

LEMMA SetTimeoutIs ==
    ASSUME NEW W \in TimerState, NEW t \in Timers, NEW r, r = SetTimeout(W, t), tick \in Ticks
    PROVE  /\ Chg(W, r, t) /\ r.due[t] = W.timer[t].init
           /\ r.timer[t].timeout = (tick + W.timer[t].init) % TickMod
           /\ r.timer[t].init = W.timer[t].init /\ r.timer[t].flag = W.timer[t].flag
<1>1. PICK a, e, c : /\ a = W.timer[t] /\ e = (tick + a.init) % TickMod
                     /\ c = [a EXCEPT !.timeout = e]
  OBVIOUS
<1>2. a \in Cell
  BY <1>1, CellOf
<1>3. a.init \in Int /\ a.init \in Ticks /\ e \in Ticks
  <2>1. a.init \in Ticks
    BY <1>2 DEF Cell
  <2>2. a.init \in Int /\ tick \in Int
    BY <2>1 DEF Ticks
  <2>3. PICK b \in Int : b = tick + a.init
    BY <2>2
  <2>4. b % TickMod \in 0 .. TickMod - 1
    BY HalfIs, ModDiv
  <2>. QED BY <1>1, <2>1, <2>2, <2>3, <2>4 DEF Ticks, RT_TICK_MAX
<1>4. /\ c \in Cell /\ c.timeout = e /\ c.init = a.init /\ c.flag = a.flag
  BY ONLY <1>1, <1>2, <1>3 DEF Cell
<1>5. /\ r.rows = W.rows /\ r.order = W.order
      /\ r.timer = [W.timer EXCEPT ![t] = c] /\ r.due = [W.due EXCEPT ![t] = a.init]
      /\ r = [timer |-> r.timer, rows |-> r.rows, due |-> r.due, order |-> r.order]
  <2>1. r = [W EXCEPT !.timer[t].timeout = e, !.due[t] = a.init]
    BY <1>1, Zenon DEF SetTimeout
  <2>2. e \in Ticks /\ a = W.timer[t] /\ c = [a EXCEPT !.timeout = e] /\ W \in TimerState
    BY <1>1, <1>3
  <2>. QED BY ONLY <2>1, <2>2 DEF TimerState
<1>6. r.timer \in [Timers -> Cell] /\ r.due \in [Timers -> Int]
  BY <1>3, <1>4, <1>5, StateTypes DEF Cell
<1>7. r \in TimerState
  BY <1>5, <1>6, StateTypes DEF TimerState, Cell
<1>8. Chg(W, r, t) /\ r.timer[t] = c /\ r.due[t] = a.init
  BY <1>5, <1>7, StateTypes DEF Chg
<1>. QED BY <1>1, <1>4, <1>8

-----------------------------------------------------------------------------
(* Where the threads and the tick interrupt are.                           *)

InCall == {"start_tick", "start_insert", "start_resume", "stop_remove", "stop_clear"}
InThread == {"next", "suspend", "suspended", "delay", "delayed", "check", "walk",
             "callback", "after"}

\* A process is in a call exactly while it has the timer of the call.
CallerPlace(p) ==
    /\ pc[p] \in InCall \union {"run", "mode_write"}
    /\ arg[p] = None <=> pc[p] = "run"

\* The timer thread has the timer it fires from WalkFire to CallbackDone, and the
\* pointer to the next node while it walks.
ThreadPlace ==
    /\ pc[TT] \in InCall \union InThread
    /\ arg[TT] = None <=> pc[TT] \in InThread
    /\ walk.n \in SoftTimers \union {None} /\ walk.t \in SoftTimers \union {None}
    /\ walk.t # None <=> \/ pc[TT] \in {"callback", "after"}
                         \/ pc[TT] \in InCall /\ walk.ret = "after"
    /\ walk.n # None => pc[TT] \in InCall \union {"walk", "callback", "after"}

IsrPlace ==
    /\ isr.at \in {"callback", "after"} => isr.t \in inuse \ SoftTimers
    /\ isr.at \in {"none", "check"} => isr.t = None

PlaceInv == (\A p \in Callers : CallerPlace(p)) /\ ThreadPlace /\ IsrPlace

\* p has taken t off the lists to put it on again.
Starting(p, t) == arg[p] = t /\ pc[p] \in {"start_tick", "start_insert"}

\* Nobody else puts such a timer on the lists: two callers are not in calls for one
\* timer, and neither the tick interrupt nor the timer thread starts a timer again
\* that is not active.
StartInv ==
    /\ \A p, q \in Callers : arg[p] = arg[q] /\ arg[p] # None => p = q
    /\ \A p, q \in Processes, t \in Timers : Starting(p, t) /\ Starting(q, t) => p = q
    /\ \A p \in Processes, t \in Timers : Starting(p, t) => ~ On(w, t) /\ isr.t # t
    /\ \A p \in Callers, t \in Timers : Starting(p, t) => ~ Act(w, t)

\* Only timers that are initialised are on a list, active or worked on.
UseInv ==
    /\ \A p \in Processes : arg[p] \in inuse \union {None}
    /\ \A t \in Timers : On(w, t) \/ Act(w, t) => t \in inuse

Core == TypeOK /\ Chains(w) /\ PlaceInv /\ StartInv /\ UseInv

LEMMA Processors ==
    /\ TT \in Processes /\ TT \notin Callers /\ Processes = Callers \union {TT}
    /\ Callers \subseteq Processes
    /\ None \notin Timers /\ SoftTimers \subseteq Timers
    /\ TT = TimerThread
BY TimerAssumption DEF Processes, TT

LEMMA LinkedIs == \A t : (Linked(t) <=> On(w, t)) /\ (Linked(t)' <=> On(w', t))
BY DEF Linked, Bottom, On

\* The lists and control blocks after a step that is about t.
Touch(t) ==
    /\ w' \in TimerState /\ Chains(w')
    /\ \A x \in Timers \ {t} : /\ w'.timer[x] = w.timer[x] /\ w'.due[x] = w.due[x]
                               /\ On(w', x) <=> On(w, x)

LEMMA OffTouch ==
    ASSUME NEW t, Off(w, w', t)
    PROVE  Touch(t) /\ (t \in Timers => ~ On(w', t))
BY DEF Off, Touch

LEMMA ChgTouch ==
    ASSUME NEW t, w \in TimerState, Chains(w), Chg(w, w', t)
    PROVE  Touch(t) /\ (On(w', t) <=> On(w, t))
<1>1. Chains(w') /\ \A x : On(w', x) <=> On(w, x)
  BY ChgChains
<1>. QED BY <1>1 DEF Chg, Touch

LEMMA PutTouch ==
    ASSUME NEW t, Put(w, w', t)
    PROVE  Touch(t) /\ (t \in Timers => On(w', t))
BY DEF Put, Touch

LEMMA OffPutTouch ==
    ASSUME NEW t, NEW V, Off(w, V, t), Put(V, w', t)
    PROVE  Touch(t) /\ (t \in Timers => On(w', t))
BY DEF Off, Put, Touch

LEMMA SameTouch ==
    ASSUME NEW t, w' = w, w \in TimerState, Chains(w)
    PROVE  Touch(t)
BY DEF Touch

\* What the calls can tell of such a step.
Seen(t) ==
    /\ w' \in TimerState /\ Chains(w')
    /\ \A x \in Timers \ {t} : (On(w', x) <=> On(w, x)) /\ (Act(w', x) <=> Act(w, x))

LEMMA TouchSeen ==
    ASSUME NEW t, Touch(t)
    PROVE  Seen(t)
BY DEF Touch, Seen, Act

\* The timer thread may have been woken in addition.
Waking(P) ==
    /\ P \in [Processes -> Places]
    /\ \A q \in Processes : \/ P[q] = pc[q]
                            \/ q = TT /\ pc[TT] \in {"suspended", "delayed"} /\ P[q] = "check"

LEMMA WakingIs ==
    ASSUME Core
    PROVE  Waking(pc) /\ Waking(ResumeTimerThread)
<1>1. pc \in [Processes -> Places]
  BY DEF Core, TypeOK
<1>2. Waking(ResumeTimerThread)
  <2>1. CASE Asleep
    <3>1. ResumeTimerThread = [pc EXCEPT ![TT] = "check"]
      BY <2>1 DEF ResumeTimerThread, TT
    <3>2. pc[TT] \in {"suspended", "delayed"}
      BY <2>1 DEF Asleep, TT
    <3>. QED BY <1>1, <3>1, <3>2, Processors DEF Waking, Places
  <2>2. CASE ~ Asleep
    BY <1>1, <2>2 DEF ResumeTimerThread, Waking
  <2>. QED BY <2>1, <2>2
<1>. QED BY <1>1, <1>2 DEF Waking

\* A process goes on with its call for t, or leaves it.
Goes(p, t, place, u) ==
    \/ place = "start_insert" /\ pc[p] = "start_tick" /\ u = t
    \/ place \in InCall \ {"start_tick", "start_insert"} /\ u = t
    \/ place = Back(p) /\ u = None

LEMMA CallKeeps ==
    ASSUME Core, NEW p \in Processes, NEW t \in Timers, arg[p] = t,
           pc[p] \in InCall \union {"mode_write"},
           Seen(t), NEW place, NEW u, NEW P, Waking(P),
           pc' = [P EXCEPT ![p] = place], arg' = [arg EXCEPT ![p] = u],
           Goes(p, t, place, u),
           On(w', t) => On(w, t) \/ (Starting(p, t) /\ place # "start_insert"),
           Act(w', t) => \/ Act(w, t) \/ pc[p] = "mode_write"
                         \/ Starting(p, t) /\ place # "start_insert",
           reg' \in [Processes -> Flags],
           UNCHANGED <<tick, isr, app, inuse, walk>>
    PROVE  Core'
<1>0. /\ pc \in [Processes -> Places] /\ arg \in [Processes -> Timers \union {None}]
      /\ walk.ret \in {"after", "walk"} /\ P \in [Processes -> Places]
      /\ \A q \in Processes : P[q] = pc[q] \/ (q = TT /\ P[q] = "check")
      /\ \A q \in Callers : P[q] = pc[q]
  BY Processors DEF Core, TypeOK, Waking
<1>1. TypeOK'
  <2>1. place \in Places /\ u \in Timers \union {None}
    BY <1>0 DEF InCall, Places, Back, Goes
  <2>2. pc' \in [Processes -> Places] /\ arg' \in [Processes -> Timers \union {None}]
    BY <1>0, <2>1
  <2>. QED BY <2>2 DEF Core, TypeOK, Seen
<1>2. PlaceInv'
  <2>1. ASSUME NEW q \in Callers
        PROVE  CallerPlace(q)'
    <3>1. CASE q # p
      BY <1>0, <3>1, Processors DEF Core, PlaceInv, CallerPlace
    <3>2. CASE q = p
      BY <1>0, <3>2, Processors DEF CallerPlace, Back, InCall, Goes
    <3>. QED BY <3>1, <3>2
  <2>2. ThreadPlace'
    <3>0. ThreadPlace
      BY DEF Core, PlaceInv
    <3>1. CASE p # TT
      <4>1. pc'[TT] = P[TT] /\ arg'[TT] = arg[TT]
        BY <1>0, <3>1, Processors
      <4>2. pc'[TT] = pc[TT] \/ (pc[TT] \in {"suspended", "delayed"} /\ pc'[TT] = "check")
        BY <4>1, Processors DEF Waking
      <4>. QED BY <3>0, <4>1, <4>2 DEF ThreadPlace, InCall, InThread
    <3>2. CASE p = TT
      <4>1. pc'[TT] = place /\ arg'[TT] = u /\ arg[TT] = t /\ u \in {t, None} /\ t # None
            /\ pc[TT] \in InCall
        BY <1>0, <3>0, <3>2, Processors DEF Goes, ThreadPlace, InCall, InThread
      <4>2. pc'[TT] \in InCall \union {"after", "walk"} /\ (u = None <=> place \in {"after", "walk"})
        BY <1>0, <3>2, <4>1, Processors DEF Back, InCall, Goes
      <4>3. place \in {"after", "walk"} => place = walk.ret
        BY <1>0, <3>2, Processors DEF Back, InCall, Goes
      <4>. QED BY <1>0, <3>0, <3>2, <4>1, <4>2, <4>3 DEF ThreadPlace, InCall, InThread
    <3>. QED BY <3>1, <3>2
  <2>3. IsrPlace'
    BY DEF Core, PlaceInv, IsrPlace
  <2>. QED BY <2>1, <2>2, <2>3 DEF PlaceInv
<1>3. ASSUME NEW q \in Processes, NEW x \in Timers, Starting(q, x)'
      PROVE  Starting(q, x) /\ (q = p => x = t /\ place = "start_insert" /\ pc[p] = "start_tick")
  <2>1. arg'[q] = x /\ pc'[q] \in {"start_tick", "start_insert"}
    BY <1>3 DEF Starting
  <2>3. CASE q # p
    BY <1>0, <2>1, <2>3 DEF Starting
  <2>4. CASE q = p
    <3>1. x = u /\ place \in {"start_tick", "start_insert"}
      BY <1>0, <2>1, <2>4
    <3>2. Back(p) \in {"run", "after", "walk"}
      BY <1>0 DEF Back
    <3>3. place = "start_insert" /\ pc[p] = "start_tick" /\ u = t
      BY <3>1, <3>2 DEF Goes
    <3>. QED BY <2>4, <3>1, <3>3 DEF Starting
  <2>. QED BY <2>3, <2>4
<1>4. StartInv'
  <2>1. \A q, r \in Callers : arg'[q] = arg'[r] /\ arg'[q] # None => q = r
    <3>1. u \in {t, None}
      BY DEF Goes
    <3>. QED BY <1>0, <3>1, Processors DEF Core, StartInv
  <2>2. ASSUME NEW q \in Processes, NEW x \in Timers, Starting(q, x)'
        PROVE  ~ On(w', x) /\ isr'.t # x
    <3>1. Starting(q, x) /\ ~ On(w, x) /\ isr.t # x
      BY <1>3, <2>2 DEF Core, StartInv
    <3>2. CASE x = t /\ q # p
      BY <2>2, <3>1, <3>2, <1>3 DEF Core, StartInv
    <3>3. CASE x = t /\ q = p
      BY <2>2, <3>1, <3>3, <1>3
    <3>4. CASE x # t
      BY <3>1, <3>4 DEF Seen
    <3>. QED BY <3>2, <3>3, <3>4
  <2>3. ASSUME NEW q \in Callers, NEW x \in Timers, Starting(q, x)'
        PROVE  ~ Act(w', x)
    <3>0. q \in Processes
      BY Processors
    <3>1. Starting(q, x) /\ ~ Act(w, x)
      BY <1>3, <2>3, <3>0 DEF Core, StartInv
    <3>2. CASE x = t /\ q # p
      <4>1. ~ Starting(p, t)
        BY <3>0, <3>1, <3>2 DEF Core, StartInv
      <4>2. pc[p] # "mode_write"
        <5>1. ASSUME pc[p] = "mode_write" PROVE p \in Callers
          BY <5>1, Processors DEF Core, PlaceInv, ThreadPlace, InCall, InThread
        <5>2. arg[q] = t /\ t # None
          BY <3>1, <3>2, Processors DEF Starting
        <5>. QED BY <3>2, <5>1, <5>2 DEF Core, StartInv
      <4>. QED BY <3>1, <3>2, <4>1, <4>2
    <3>3. CASE x = t /\ q = p
      BY <2>3, <3>0, <3>1, <3>3, <1>3
    <3>4. CASE x # t
      BY <3>1, <3>4 DEF Seen
    <3>. QED BY <3>2, <3>3, <3>4
  <2>4. \A q, r \in Processes, x \in Timers : Starting(q, x)' /\ Starting(r, x)' => q = r
    BY <1>3 DEF Core, StartInv
  <2>. QED BY <2>1, <2>2, <2>3, <2>4 DEF StartInv
<1>5. UseInv'
  <2>1. t \in inuse /\ u \in {t, None}
    BY Processors DEF Core, UseInv, Goes
  <2>2. \A q \in Processes : arg'[q] \in inuse \union {None}
    BY <1>0, <2>1 DEF Core, UseInv
  <2>3. \A x \in Timers : On(w', x) \/ Act(w', x) => x \in inuse
    BY <2>1 DEF Core, UseInv, Seen
  <2>. QED BY <2>2, <2>3 DEF UseInv
<1>. QED BY <1>1, <1>2, <1>4, <1>5 DEF Core, Seen

\* A process begins a call for t.
LEMMA BeginKeeps ==
    ASSUME Core, NEW p \in Processes, NEW t \in Timers, t \in inuse, arg[p] = None,
           NEW place \in {"start_tick", "stop_remove", "mode_write"},
           place = "mode_write" => p \in Callers,
           Seen(t), \A q \in Processes : ~ Starting(q, t),
           p \in Callers => Untouched(t),
           pc' = [pc EXCEPT ![p] = place], arg' = [arg EXCEPT ![p] = t],
           On(w', t) => On(w, t), Act(w', t) => Act(w, t),
           place = "start_tick" => ~ On(w', t) /\ ~ Act(w', t),
           isr.t = None, isr' = isr, inuse' = inuse, TypeOK', ThreadPlace'
    PROVE  Core'
<1>0. /\ pc \in [Processes -> Places] /\ arg \in [Processes -> Timers \union {None}]
      /\ t # None
  BY Processors DEF Core, TypeOK
<1>1. PlaceInv'
  <2>1. ASSUME NEW q \in Callers
        PROVE  CallerPlace(q)'
    <3>1. CASE q # p
      BY <1>0, <3>1, Processors DEF Core, PlaceInv, CallerPlace
    <3>2. CASE q = p
      BY <1>0, <3>2, Processors DEF CallerPlace, InCall
    <3>. QED BY <3>1, <3>2
  <2>2. IsrPlace'
    BY DEF Core, PlaceInv, IsrPlace
  <2>. QED BY <2>1, <2>2 DEF PlaceInv
<1>2. ASSUME NEW q \in Processes, NEW x \in Timers, Starting(q, x)'
      PROVE  \/ q = p /\ x = t /\ place = "start_tick"
             \/ q # p /\ x # t /\ Starting(q, x)
  <2>1. arg'[q] = x /\ pc'[q] \in {"start_tick", "start_insert"}
    BY <1>2 DEF Starting
  <2>2. CASE q = p
    BY <1>0, <2>1, <2>2
  <2>3. CASE q # p
    BY <1>0, <2>1, <2>3 DEF Starting
  <2>. QED BY <2>2, <2>3
<1>3. StartInv'
  <2>1. \A q, r \in Callers : arg'[q] = arg'[r] /\ arg'[q] # None => q = r
    BY <1>0, Processors DEF Core, StartInv, Untouched
  <2>2. ASSUME NEW q \in Processes, NEW x \in Timers, Starting(q, x)'
        PROVE  ~ On(w', x) /\ isr'.t # x
    BY <1>2, <2>2, Processors DEF Core, StartInv, Seen
  <2>3. ASSUME NEW q \in Callers, NEW x \in Timers, Starting(q, x)'
        PROVE  ~ Act(w', x)
    BY <1>2, <2>3, Processors DEF Core, StartInv, Seen
  <2>4. \A q, r \in Processes, x \in Timers : Starting(q, x)' /\ Starting(r, x)' => q = r
    BY <1>2 DEF Core, StartInv
  <2>. QED BY <2>1, <2>2, <2>3, <2>4 DEF StartInv
<1>4. UseInv'
  <2>1. \A q \in Processes : arg'[q] \in inuse \union {None}
    BY <1>0 DEF Core, UseInv
  <2>2. \A x \in Timers : On(w', x) \/ Act(w', x) => x \in inuse
    BY DEF Core, UseInv, Seen
  <2>. QED BY <2>1, <2>2 DEF UseInv
<1>. QED BY <1>1, <1>3, <1>4 DEF Core, Seen

\* The timer thread does something of its own.
LEMMA ThreadKeeps ==
    ASSUME Core, NEW t, NEW place, place \notin {"start_tick", "start_insert"},
           Seen(t), pc' = [pc EXCEPT ![TT] = place], arg' = [arg EXCEPT ![TT] = None],
           On(w', t) => On(w, t), Act(w', t) => Act(w, t),
           isr' = isr, inuse' = inuse, TypeOK', ThreadPlace'
    PROVE  Core'
<1>0. /\ pc \in [Processes -> Places] /\ arg \in [Processes -> Timers \union {None}]
  BY DEF Core, TypeOK
<1>1. PlaceInv'
  <2>1. ASSUME NEW q \in Callers
        PROVE  CallerPlace(q)'
    BY <1>0, Processors DEF Core, PlaceInv, CallerPlace
  <2>2. IsrPlace'
    BY DEF Core, PlaceInv, IsrPlace
  <2>. QED BY <2>1, <2>2 DEF PlaceInv
<1>2. ASSUME NEW q \in Processes, NEW x \in Timers, Starting(q, x)'
      PROVE  Starting(q, x)
  <2>1. arg'[q] = x /\ pc'[q] \in {"start_tick", "start_insert"}
    BY <1>2 DEF Starting
  <2>. QED BY <1>0, <2>1, Processors DEF Starting
<1>3. StartInv'
  <2>1. \A q, r \in Callers : arg'[q] = arg'[r] /\ arg'[q] # None => q = r
    BY <1>0, Processors DEF Core, StartInv
  <2>2. ASSUME NEW q \in Processes, NEW x \in Timers, Starting(q, x)'
        PROVE  ~ On(w', x) /\ isr'.t # x
    BY <1>2, <2>2 DEF Core, StartInv, Seen
  <2>3. ASSUME NEW q \in Callers, NEW x \in Timers, Starting(q, x)'
        PROVE  ~ Act(w', x)
    BY <1>2, <2>3, Processors DEF Core, StartInv, Seen
  <2>4. \A q, r \in Processes, x \in Timers : Starting(q, x)' /\ Starting(r, x)' => q = r
    BY <1>2 DEF Core, StartInv
  <2>. QED BY <2>1, <2>2, <2>3, <2>4 DEF StartInv
<1>4. UseInv'
  <2>1. \A q \in Processes : arg'[q] \in inuse \union {None}
    BY <1>0 DEF Core, UseInv
  <2>2. \A x \in Timers : On(w', x) \/ Act(w', x) => x \in inuse
    BY DEF Core, UseInv, Seen
  <2>. QED BY <2>1, <2>2 DEF UseInv
<1>. QED BY <1>1, <1>3, <1>4 DEF Core, Seen

\* The tick interrupt, or a call that is over at once.
LEMMA AtOnceKeeps ==
    ASSUME Core, NEW t, Seen(t), Waking(pc'), arg' = arg,
           walk'.n = walk.n, walk'.t = walk.t, walk'.ret = walk.ret,
           \/ \A q \in Processes : ~ Starting(q, t)
           \/ (On(w', t) => On(w, t)) /\ (Act(w', t) => Act(w, t)),
           t \in Timers /\ (On(w', t) \/ Act(w', t)) => t \in inuse',
           \A x \in inuse : x \in inuse' \/ (x = t /\ Untouched(t)),
           \A q \in Processes, x \in Timers : Starting(q, x) => isr'.t # x,
           IsrPlace', TypeOK'
    PROVE  Core'
<1>0. /\ pc \in [Processes -> Places] /\ arg \in [Processes -> Timers \union {None}]
      /\ \A q \in Callers : pc'[q] = pc[q]
  BY Processors DEF Core, TypeOK, Waking
<1>1. PlaceInv'
  <2>1. ASSUME NEW q \in Callers
        PROVE  CallerPlace(q)'
    BY <1>0, Processors DEF Core, PlaceInv, CallerPlace
  <2>2. ThreadPlace'
    <3>1. pc'[TT] = pc[TT] \/ (pc[TT] \in {"suspended", "delayed"} /\ pc'[TT] = "check")
      BY Processors DEF Waking
    <3>. QED BY <3>1 DEF Core, PlaceInv, ThreadPlace, InCall, InThread
  <2>. QED BY <2>1, <2>2 DEF PlaceInv
<1>2. ASSUME NEW q \in Processes, NEW x \in Timers, Starting(q, x)'
      PROVE  Starting(q, x)
  <2>1. arg[q] = x /\ pc'[q] \in {"start_tick", "start_insert"}
    BY <1>2 DEF Starting
  <2>. QED BY <2>1 DEF Starting, Waking
<1>3. StartInv'
  <2>1. \A q, r \in Callers : arg'[q] = arg'[r] /\ arg'[q] # None => q = r
    BY DEF Core, StartInv
  <2>2. ASSUME NEW q \in Processes, NEW x \in Timers, Starting(q, x)'
        PROVE  ~ On(w', x) /\ isr'.t # x
    BY <1>2, <2>2 DEF Core, StartInv, Seen
  <2>3. ASSUME NEW q \in Callers, NEW x \in Timers, Starting(q, x)'
        PROVE  ~ Act(w', x)
    BY <1>2, <2>3, Processors DEF Core, StartInv, Seen
  <2>4. \A q, r \in Processes, x \in Timers : Starting(q, x)' /\ Starting(r, x)' => q = r
    BY <1>2 DEF Core, StartInv
  <2>. QED BY <2>1, <2>2, <2>3, <2>4 DEF StartInv
<1>4. UseInv'
  <2>1. \A q \in Processes : arg'[q] \in inuse' \union {None}
    BY DEF Core, UseInv, Untouched
  <2>2. \A x \in Timers : On(w', x) \/ Act(w', x) => x \in inuse'
    BY DEF Core, UseInv, Seen
  <2>. QED BY <2>1, <2>2 DEF UseInv
<1>. QED BY <1>1, <1>3, <1>4 DEF Core, Seen

-----------------------------------------------------------------------------
(* What the steps do to the clock of the timers.                           *)

LEMMA OffSorted ==
    ASSUME NEW W \in TimerState, Sorted(W), NEW t, NEW r, Off(W, r, t)
    PROVE  Sorted(r)
BY DEF Off, Sorted

LEMMA ChgSorted ==
    ASSUME NEW W \in TimerState, Chains(W), Sorted(W), NEW t \in Timers, NEW r, Chg(W, r, t),
           On(W, t) => r.due[t] = W.due[t]
    PROVE  Sorted(r)
<1>1. r.rows = W.rows /\ r.order = W.order
  BY DEF Chg
<1>. SUFFICES ASSUME NEW l \in Lists, NEW i \in Rows, NEW x \in Timers, NEW y \in Timers,
                     Ahead(W.rows[l][i], x, y)
              PROVE  \/ r.due[x] < r.due[y]
                     \/ r.due[x] = r.due[y] /\ Ahead(r.order, x, y)
  BY <1>1 DEF Sorted
<1>2. x \in ToSet(W.rows[l][i]) /\ y \in ToSet(W.rows[l][i])
  <2>1. W.rows[l][i] \in Seq(Timers)
    BY StateTypes
  <2>. QED BY <2>1, ToSetDef DEF Ahead
<1>3. On(W, x) /\ On(W, y)
  BY <1>2, InRow
<1>4. r.due[x] = W.due[x] /\ r.due[y] = W.due[y]
  BY <1>3 DEF Chg
<1>. QED BY <1>1, <1>4 DEF Sorted

\* The lists are sorted by the real time that is left, and timeout_tick tells it.
Clock ==
    /\ Sorted(w)
    /\ \A t \in Timers : w.timer[t].init + MaxLag < Half
    /\ \A t \in Timers : On(w, t) \/ Placed(t) => Timely(w, t)

LEMMA ClockKeeps ==
    ASSUME Clock, tick' = tick, NEW t \in Timers, Touch(t), Sorted(w'),
           w'.timer[t].init + MaxLag < Half,
           On(w', t) \/ Placed(t)' => Timely(w', t),
           \A x \in Timers \ {t} : Placed(x)' => Placed(x)
    PROVE  Clock'
<1>1. ASSUME NEW x \in Timers \ {t}
      PROVE  /\ w'.timer[x].init + MaxLag < Half
             /\ On(w', x) \/ Placed(x)' => Timely(w', x)
  BY DEF Clock, Touch, Timely
<1>2. \A x \in Timers : Timely(w', x) => Timely(w, x)'
  BY DEF Timely
<1>3. \A x \in Timers : On(w', x) <=> On(w, x)'
  BY DEF On
<1>4. Sorted(w)'
  BY DEF Sorted
<1>. QED BY <1>1, <1>2, <1>3, <1>4 DEF Clock

\* Nothing changes for any timer.
LEMMA ClockSame ==
    ASSUME Clock, tick' = tick, w' = w, \A x \in Timers : Placed(x)' => Placed(x)
    PROVE  Clock'
<1>1. Sorted(w)' /\ \A x \in Timers : (On(w, x)' <=> On(w, x)) /\ (Timely(w, x)' <=> Timely(w, x))
  BY DEF Clock, Sorted, On, Timely
<1>. QED BY <1>1 DEF Clock

\* What no step changes for a timer with its time set stays timely.
LEMMA TimelySame ==
    ASSUME NEW t, Timely(w, t), w'.timer[t].timeout = w.timer[t].timeout, w'.due[t] = w.due[t]
    PROVE  Timely(w', t)
BY DEF Timely

LEMMA RemoveIs ==
    ASSUME w \in TimerState, Chains(w), NEW t \in Timers,
           NEW r, r = Deactivate(_rt_timer_remove(w, t), t)
    PROVE  /\ Off(w, r, t) /\ ~ Act(r, t) /\ r.timer[t].init = w.timer[t].init
           /\ Placed(t) => r.timer[t].timeout = w.timer[t].timeout /\ r.due[t] = w.due[t]
<1>1. PICK V : V = _rt_timer_remove(w, t)
  OBVIOUS
<1>2. /\ Off(w, V, t) /\ V.timer[t].init = w.timer[t].init
      /\ Placed(t) => V.timer[t] = w.timer[t] /\ V.due[t] = w.due[t]
  BY <1>1, UnlinkIs DEF _rt_timer_remove
<1>3. r = Deactivate(V, t) /\ V \in TimerState
  BY <1>1, <1>2 DEF Off
<1>4. /\ Chg(V, r, t) /\ r.due = V.due /\ ~ Act(r, t)
      /\ r.timer[t].timeout = V.timer[t].timeout /\ r.timer[t].init = V.timer[t].init
  BY <1>3, DeactivateIs
<1>. QED BY <1>2, <1>4, OffChg

\* rt_timer_start when interrupts are disabled throughout.
LEMMA StartAtOnceIs ==
    ASSUME w \in TimerState, Chains(w), NEW t \in Timers, tick \in Ticks, StartAtOnce(t)
    PROVE  /\ Touch(t) /\ On(w', t) /\ w'.timer[t].init = w.timer[t].init
           /\ LagBounded /\ Clock => Sorted(w') /\ Timely(w', t)
<1>1. PICK U, V : U = Deactivate(_rt_timer_remove(w, t), t) /\ V = SetTimeout(U, t)
  OBVIOUS
<1>0. PICK h \in Rows : w' = Insert(V, t, h)
  BY <1>1 DEF StartAtOnce
<1>2. Off(w, U, t) /\ U.timer[t].init = w.timer[t].init
  BY <1>1, RemoveIs
<1>3. U \in TimerState
  BY <1>2 DEF Off
<1>4. /\ Chg(U, V, t) /\ V.due[t] = U.timer[t].init
      /\ V.timer[t].timeout = (tick + U.timer[t].init) % TickMod
      /\ V.timer[t].init = U.timer[t].init
  BY <1>1, <1>3, SetTimeoutIs
<1>5. Off(w, V, t)
  BY <1>2, <1>4, OffChg
<1>6. V \in TimerState /\ Chains(V) /\ ~ On(V, t)
  BY <1>5 DEF Off
<1>7. Put(V, w', t)
  BY <1>0, <1>6, InsertIs
<1>8. Touch(t) /\ On(w', t) /\ w'.timer[t].init = w.timer[t].init
  BY <1>2, <1>4, <1>5, <1>7, OffPutTouch DEF Put
<1>9. ASSUME LagBounded, Clock
      PROVE  Sorted(w') /\ Timely(w', t)
  <2>1. Sorted(V)
    BY <1>5, <1>9, OffSorted DEF Clock
  <2>2. Timely(V, t)
    <3>1. PICK i \in Int : i = w.timer[t].init
      BY CellOf DEF Cell, Ticks
    <3>2. i + MaxLag < Half /\ i >= 0
      BY <1>9, <3>1, CellOf DEF Cell, Ticks, Clock
    <3>3. V.due[t] = i /\ V.timer[t].timeout = (tick + i) % TickMod
      BY <1>2, <1>4, <3>1
    <3>. QED BY <3>1, <3>2, <3>3, HalfIs DEF Timely
  <2>3. \A x \in Timers : On(V, x) => Timely(V, x)
    BY <1>5, <1>9 DEF Off, Clock, Timely
  <2>4. Fit(V, t)
    BY <1>6, <1>9, <2>1, <2>2, <2>3 DEF Fit
  <2>5. Sorted(w')
    BY <1>0, <1>6, <2>4, InsertSorts
  <2>6. w'.timer[t].timeout = V.timer[t].timeout /\ w'.due[t] = V.due[t]
    BY <1>7 DEF Put
  <2>. QED BY <2>2, <2>5, <2>6 DEF Timely
<1>. QED BY <1>8, <1>9

-----------------------------------------------------------------------------
(* Active timers, and the pointers of the timer thread.                    *)

Clearing(t) == \E p \in Processes : arg[p] = t /\ pc[p] = "stop_clear"

\* An active timer is on a list, unless its timeout function is being called or
\* rt_timer_stop is about to clear the flag; no flag byte that a thread has read
\* has the bit.
Active ==
    /\ \A p \in Processes : "ACTIVATED" \notin reg[p]
    /\ \A t \in Timers : Act(w, t) => On(w, t) \/ walk.t = t \/ isr.t = t \/ Clearing(t)

LEMMA ActiveKeeps ==
    ASSUME Active, NEW t \in Timers, Touch(t), \A p \in Processes : "ACTIVATED" \notin reg'[p],
           \A x \in Timers \ {t} : /\ walk.t = x => walk'.t = x
                                   /\ isr.t = x => isr'.t = x
                                   /\ Clearing(x) => Clearing(x)',
           Act(w', t) => On(w', t) \/ walk'.t = t \/ isr'.t = t \/ Clearing(t)'
    PROVE  Active'
<1>1. \A x \in Timers : (On(w', x) <=> On(w, x)') /\ (Act(w', x) <=> Act(w, x)')
  BY DEF On, Act
<1>2. ASSUME NEW x \in Timers \ {t}, Act(w', x)
      PROVE  On(w', x) \/ walk'.t = x \/ isr'.t = x \/ Clearing(x)'
  <2>1. Act(w, x) /\ (On(w', x) <=> On(w, x))
    BY <1>2 DEF Touch, Act
  <2>. QED BY <2>1 DEF Active
<1>. QED BY <1>1, <1>2 DEF Active

LEMMA ActiveSame ==
    ASSUME Active, w' = w, \A p \in Processes : "ACTIVATED" \notin reg'[p],
           \A x \in Timers : /\ walk.t = x => walk'.t = x
                             /\ isr.t = x => isr'.t = x
                             /\ Clearing(x) => Clearing(x)'
    PROVE  Active'
<1>1. \A x \in Timers : (On(w, x)' <=> On(w, x)) /\ (Act(w, x)' <=> Act(w, x))
  BY DEF On, Act
<1>. QED BY <1>1 DEF Active

\* No thread comes in between the timer thread and its walk, and no timeout
\* function starts or stops a soft timer other than its own.
SoftAlone ==
    /\ Urgent = {}
    /\ \A t, u \in Timers : <<t, u>> \in Reach /\ u \in SoftTimers => t = u

Walking == pc[TT] = "walk" \/ (pc[TT] \in InCall /\ walk.ret = "walk")

\* The node that the walk goes on with is on the list, and the time that the walk
\* compares with is not too old for it.
WalkInv ==
    walk.n # None =>
        /\ On(w, walk.n) /\ walk.n # walk.t /\ walk.n # arg[TT]
        /\ Walking => \E d \in Nat : /\ tick = (walk.now + d) % TickMod
                                     /\ w.due[walk.n] + d < Half

LEMMA WalkKeeps ==
    ASSUME Core, WalkInv, tick' = tick, walk'.n = walk.n, walk'.t = walk.t,
           walk.n # None => /\ On(w', walk.n) /\ w'.due[walk.n] = w.due[walk.n]
                            /\ walk.n # arg'[TT] /\ (Walking' => Walking /\ walk'.now = walk.now)
    PROVE  WalkInv'
<1>1. On(w, walk.n)' <=> On(w', walk.n)
  BY DEF On
<1>. QED BY <1>1 DEF WalkInv

\* A timer that a step is about is another one than the next node.
LEMMA TouchWalk ==
    ASSUME Core, NEW t, Touch(t), walk.n # t, walk.n # None, WalkInv
    PROVE  On(w', walk.n) /\ w'.due[walk.n] = w.due[walk.n]
BY Processors DEF Core, PlaceInv, ThreadPlace, Touch, WalkInv

\* The callers run while the timer thread sleeps, and then there is no walk.
LEMMA CallerWalk ==
    ASSUME Core, SoftAlone, NEW p \in Callers, Runs(p), walk' = walk
    PROVE  WalkInv'
<1>1. pc[TT] \in {"suspended", "delayed"}
  BY Processors DEF SoftAlone, Runs, Asleep
<1>2. walk.n = None
  BY <1>1 DEF Core, PlaceInv, ThreadPlace, InCall
<1>. QED BY <1>2 DEF WalkInv

\* A step in a call for t leaves the other timers alone.
LEMMA CallOthers ==
    ASSUME Core, NEW p \in Processes, NEW t \in Timers, arg[p] = t, Runs(p),
           pc[p] \in InCall \union {"mode_write"}, Touch(t), NEW place, NEW u, NEW P, Waking(P),
           pc' = [P EXCEPT ![p] = place], arg' = [arg EXCEPT ![p] = u], Goes(p, t, place, u),
           UNCHANGED <<tick, walk>>
    PROVE  /\ \A x \in Timers \ {t} : (Placed(x)' => Placed(x)) /\ (Clearing(x) => Clearing(x)')
           /\ Placed(t)' => place = "start_insert" \/ Placed(t)
           /\ SoftAlone /\ WalkInv => WalkInv'
<1>0. /\ pc \in [Processes -> Places] /\ arg \in [Processes -> Timers \union {None}]
      /\ walk.ret \in {"after", "walk"} /\ P \in [Processes -> Places] /\ u \in {t, None}
      /\ \A q \in Processes : pc[q] \in {"start_insert", "stop_clear"} \/
                              P[q] \in {"start_insert", "stop_clear"} => P[q] = pc[q]
      /\ t # None /\ None \notin Timers
  BY Processors DEF Core, TypeOK, Waking, Goes
<1>1. ASSUME NEW x \in Timers \ {t}
      PROVE  (Placed(x)' => Placed(x)) /\ (Clearing(x) => Clearing(x)')
  <2>1. ASSUME NEW q \in Processes, arg'[q] = x \/ arg[q] = x
        PROVE  q # p /\ arg'[q] = arg[q] /\ pc'[q] = P[q]
    BY <1>0, <2>1
  <2>. QED BY <1>0, <2>1 DEF Placed, Clearing
<1>2. Placed(t)' => place = "start_insert" \/ Placed(t)
  <2>1. ASSUME NEW q \in Processes, arg'[q] = t, pc'[q] = "start_insert", q # p
        PROVE  arg[q] = t /\ pc[q] = "start_insert"
    BY <1>0, <2>1
  <2>. QED BY <1>0, <2>1 DEF Placed
<1>3. ASSUME SoftAlone, WalkInv
      PROVE  WalkInv'
  <2>1. CASE p \in Callers
    BY <1>3, <2>1, CallerWalk
  <2>2. CASE p = TT /\ walk.n # None
    <3>1. t # walk.n /\ arg'[TT] # walk.n
      BY <1>0, <1>3, <2>2 DEF WalkInv
    <3>2. Walking' => Walking
      <4>1. pc[TT] \in InCall /\ pc'[TT] = place /\ walk' = walk
        BY <1>0, <2>2, Processors DEF Core, PlaceInv, ThreadPlace, InCall, InThread
      <4>2. place \in InCall \/ place = walk.ret
        BY <2>2, Processors DEF Goes, Back, InCall
      <4>. QED BY <1>0, <4>1, <4>2 DEF Walking, InCall
    <3>. QED BY <1>3, <2>2, <3>1, <3>2, TouchWalk, WalkKeeps
  <2>3. CASE walk.n = None
    BY <2>3 DEF WalkInv
  <2>. QED BY <2>1, <2>2, <2>3, Processors
<1>. QED BY <1>1, <1>2, <1>3

-----------------------------------------------------------------------------
(* The steps of the calls.                                                 *)

\* What every step has to keep.
Kept ==
    /\ Core'
    /\ LagBounded /\ Clock => Clock'
    /\ ModeChange = {} /\ Active => Active'
    /\ SoftAlone /\ LagBounded /\ Clock /\ WalkInv => WalkInv'

LEMMA CallKept ==
    ASSUME Core, NEW p \in Processes, NEW t \in Timers, arg[p] = t, Runs(p),
           pc[p] \in InCall \union {"mode_write"}, Touch(t), NEW place, NEW u, NEW P, Waking(P),
           pc' = [P EXCEPT ![p] = place], arg' = [arg EXCEPT ![p] = u], Goes(p, t, place, u),
           On(w', t) => On(w, t) \/ (Starting(p, t) /\ place # "start_insert"),
           Act(w', t) => \/ Act(w, t) \/ pc[p] = "mode_write"
                         \/ Starting(p, t) /\ place # "start_insert",
           reg' \in [Processes -> Flags], UNCHANGED <<tick, isr, app, inuse, walk>>,
           LagBounded /\ Clock => /\ Sorted(w') /\ w'.timer[t].init + MaxLag < Half
                                  /\ \/ On(w', t) \/ Placed(t) \/ place = "start_insert"
                                     => Timely(w', t),
           Active => /\ \A q \in Processes : "ACTIVATED" \notin reg'[q]
                     /\ Act(w', t) => On(w', t) \/ walk.t = t \/ isr.t = t \/ Clearing(t)'
    PROVE  Kept
<1>1. Core'
  BY TouchSeen, CallKeeps
<1>2. /\ \A x \in Timers \ {t} : (Placed(x)' => Placed(x)) /\ (Clearing(x) => Clearing(x)')
      /\ Placed(t)' => place = "start_insert" \/ Placed(t)
      /\ SoftAlone /\ WalkInv => WalkInv'
  BY CallOthers
<1>3. LagBounded /\ Clock => Clock'
  BY <1>2, ClockKeeps
<1>4. Active => Active'
  BY <1>2, ActiveKeeps
<1>. QED BY <1>1, <1>2, <1>3, <1>4 DEF Kept

LEMMA CallTimer ==
    ASSUME Core, NEW p \in Processes, pc[p] \in InCall \union {"mode_write"}
    PROVE  /\ arg[p] \in Timers /\ arg = [arg EXCEPT ![p] = arg[p]]
           /\ w \in TimerState /\ Chains(w) /\ tick \in Ticks
           /\ reg \in [Processes -> Flags]
BY Processors DEF Core, PlaceInv, CallerPlace, ThreadPlace, TypeOK, InCall, InThread

LEMMA StartTickKept ==
    ASSUME Core, NEW p \in Processes, StartTick(p)
    PROVE  Kept
<1>0. /\ Runs(p) /\ pc[p] = "start_tick" /\ w' = SetTimeout(w, arg[p])
      /\ Goto(p, "start_insert", arg[p]) /\ UNCHANGED <<tick, isr, app, inuse, reg, walk>>
  BY DEF StartTick, At
<1>1. PICK t : t = arg[p]
  OBVIOUS
<1>2. t \in Timers /\ w \in TimerState /\ Chains(w) /\ tick \in Ticks /\ reg \in [Processes -> Flags]
  BY <1>0, <1>1, CallTimer DEF InCall
<1>3. /\ Chg(w, w', t) /\ w'.due[t] = w.timer[t].init
      /\ w'.timer[t].timeout = (tick + w.timer[t].init) % TickMod
      /\ w'.timer[t].init = w.timer[t].init /\ w'.timer[t].flag = w.timer[t].flag
  BY <1>0, <1>1, <1>2, SetTimeoutIs
<1>4. Touch(t) /\ (On(w', t) <=> On(w, t)) /\ (Act(w', t) <=> Act(w, t))
  BY <1>2, <1>3, ChgTouch DEF Act
<1>5. Starting(p, t) /\ ~ On(w, t)
  BY <1>0, <1>1, <1>2 DEF Starting, Core, StartInv
<1>6. ASSUME LagBounded, Clock
      PROVE  Sorted(w') /\ w'.timer[t].init + MaxLag < Half /\ Timely(w', t)
  <2>1. Sorted(w')
    BY <1>2, <1>3, <1>5, <1>6, ChgSorted DEF Clock
  <2>2. PICK i \in Int : i = w.timer[t].init /\ i >= 0
    BY <1>2, CellOf DEF Cell, Ticks
  <2>3. i + MaxLag < Half
    BY <1>2, <1>6, <2>2 DEF Clock
  <2>. QED BY <1>3, <2>1, <2>2, <2>3, HalfIs DEF Timely
<1>7. ASSUME Active
      PROVE  /\ \A q \in Processes : "ACTIVATED" \notin reg'[q]
             /\ Act(w', t) => On(w', t) \/ walk.t = t \/ isr.t = t \/ Clearing(t)'
  <2>1. Clearing(t) => Clearing(t)'
    <3>1. pc \in [Processes -> Places] /\ arg \in [Processes -> Timers \union {None}]
      BY DEF Core, TypeOK
    <3>. QED BY <1>0, <3>1 DEF Clearing, Goto
  <2>. QED BY <1>0, <1>2, <1>4, <1>7, <2>1 DEF Active
<1>8. PICK place : place = "start_insert"
  OBVIOUS
<1>9. /\ Waking(pc) /\ Goes(p, t, place, t) /\ reg' \in [Processes -> Flags]
      /\ pc' = [pc EXCEPT ![p] = place] /\ arg' = [arg EXCEPT ![p] = t]
  BY <1>0, <1>1, <1>2, <1>8, WakingIs DEF Goes, Goto
<1>10. pc[p] \in InCall \union {"mode_write"} /\ arg[p] = t
  BY <1>0, <1>1 DEF InCall
<1>. QED BY <1>0, <1>2, <1>4, <1>5, <1>6, <1>7, <1>9, <1>10, CallKept

LEMMA StartInsertKept ==
    ASSUME Core, NEW p \in Processes, StartInsert(p)
    PROVE  Kept
<1>0. /\ Runs(p) /\ pc[p] = "start_insert" /\ \E h \in Rows : w' = Insert(w, arg[p], h)
      /\ IF arg[p] \in SoftTimers THEN Goto(p, "start_resume", arg[p]) ELSE Return(p)
      /\ UNCHANGED <<tick, isr, app, inuse, reg, walk>>
  BY DEF StartInsert, At
<1>1. PICK t : t = arg[p]
  OBVIOUS
<1>2. t \in Timers /\ w \in TimerState /\ Chains(w) /\ tick \in Ticks /\ reg \in [Processes -> Flags]
  BY <1>0, <1>1, CallTimer DEF InCall
<1>3. PICK h \in Rows : w' = Insert(w, t, h)
  BY <1>0, <1>1
<1>4. Starting(p, t) /\ ~ On(w, t) /\ Placed(t)
  BY <1>0, <1>1, <1>2 DEF Starting, Core, StartInv, Placed
<1>5. Put(w, w', t)
  BY <1>2, <1>3, <1>4, InsertIs
<1>6. Touch(t) /\ On(w', t)
  BY <1>2, <1>5, PutTouch
<1>7. ASSUME LagBounded, Clock
      PROVE  Sorted(w') /\ w'.timer[t].init + MaxLag < Half /\ Timely(w', t)
  <2>1. Timely(w, t) /\ \A x \in Timers : On(w, x) => Timely(w, x)
    BY <1>2, <1>4, <1>7 DEF Clock
  <2>2. Fit(w, t)
    BY <1>2, <1>7, <2>1 DEF Fit, Clock
  <2>3. Sorted(w')
    BY <1>3, <1>4, <2>2, InsertSorts
  <2>. QED BY <1>2, <1>5, <1>7, <2>1, <2>3, TimelySame DEF Put, Clock
<1>8. PICK place, u : /\ place = (IF t \in SoftTimers THEN "start_resume" ELSE Back(p))
                      /\ u = (IF t \in SoftTimers THEN t ELSE None)
  OBVIOUS
<1>9. /\ Goes(p, t, place, u) /\ place # "start_insert" /\ Waking(pc)
      /\ pc' = [pc EXCEPT ![p] = place] /\ arg' = [arg EXCEPT ![p] = u]
  <2>1. walk.ret \in {"after", "walk"}
    BY DEF Core, TypeOK
  <2>. QED BY <1>0, <1>1, <1>8, <2>1, WakingIs DEF Goes, Goto, Return, Back, InCall
<1>10. pc[p] \in InCall \union {"mode_write"} /\ arg[p] = t
  BY <1>0, <1>1 DEF InCall
<1>11. Active => \A q \in Processes : "ACTIVATED" \notin reg'[q]
  BY <1>0 DEF Active
<1>. QED BY <1>0, <1>2, <1>4, <1>6, <1>7, <1>9, <1>10, <1>11, CallKept

LEMMA StartResumeKept ==
    ASSUME Core, NEW p \in Processes, StartResume(p)
    PROVE  Kept
<1>0. /\ Runs(p) /\ pc[p] = "start_resume" /\ pc' = [ResumeTimerThread EXCEPT ![p] = Back(p)]
      /\ arg' = [arg EXCEPT ![p] = None] /\ UNCHANGED <<tick, isr, app, inuse, w, reg, walk>>
  BY DEF StartResume, At
<1>1. PICK t, place, u, P : t = arg[p] /\ place = Back(p) /\ u = None /\ P = ResumeTimerThread
  OBVIOUS
<1>2. /\ t \in Timers /\ w \in TimerState /\ Chains(w) /\ tick \in Ticks
      /\ reg' \in [Processes -> Flags]
  BY <1>0, <1>1, CallTimer DEF InCall
<1>3. Touch(t) /\ (On(w', t) <=> On(w, t)) /\ (Act(w', t) <=> Act(w, t))
  BY <1>0, <1>2, SameTouch
<1>4. /\ Goes(p, t, place, u) /\ place # "start_insert" /\ Waking(P)
      /\ pc' = [P EXCEPT ![p] = place] /\ arg' = [arg EXCEPT ![p] = u]
  <2>1. walk.ret \in {"after", "walk"}
    BY DEF Core, TypeOK
  <2>. QED BY <1>0, <1>1, <2>1, WakingIs DEF Goes, Back
<1>5. ASSUME LagBounded, Clock
      PROVE  /\ Sorted(w') /\ w'.timer[t].init + MaxLag < Half
             /\ On(w', t) \/ Placed(t) => Timely(w', t)
  BY <1>0, <1>2, <1>3, <1>5 DEF Clock
<1>6. ASSUME Active
      PROVE  /\ \A q \in Processes : "ACTIVATED" \notin reg'[q]
             /\ Act(w', t) => On(w', t) \/ walk.t = t \/ isr.t = t \/ Clearing(t)'
  <2>1. Clearing(t) => Clearing(t)'
    <3>1. ASSUME NEW q \in Processes, arg[q] = t, pc[q] = "stop_clear"
          PROVE  arg'[q] = t /\ pc'[q] = "stop_clear"
      <4>1. pc \in [Processes -> Places] /\ arg \in [Processes -> Timers \union {None}]
            /\ P \in [Processes -> Places] /\ P[q] = pc[q] /\ q # p
        BY <1>0, <1>4, <3>1 DEF Core, TypeOK, Waking
      <4>. QED BY <1>4, <3>1, <4>1
    <3>. QED BY <3>1 DEF Clearing
  <2>. QED BY <1>0, <1>2, <1>3, <1>6, <2>1 DEF Active
<1>7. pc[p] \in InCall \union {"mode_write"} /\ arg[p] = t
  BY <1>0, <1>1 DEF InCall
<1>. QED BY <1>0, <1>2, <1>3, <1>4, <1>5, <1>6, <1>7, CallKept

LEMMA StopRemoveKept ==
    ASSUME Core, NEW p \in Processes, StopRemove(p)
    PROVE  Kept
<1>0. /\ Runs(p) /\ pc[p] = "stop_remove" /\ w' = _rt_timer_remove(w, arg[p])
      /\ Goto(p, "stop_clear", arg[p]) /\ UNCHANGED <<tick, isr, app, inuse, reg, walk>>
  BY DEF StopRemove, At
<1>1. PICK t, place : t = arg[p] /\ place = "stop_clear"
  OBVIOUS
<1>2. /\ t \in Timers /\ w \in TimerState /\ Chains(w) /\ tick \in Ticks
      /\ reg' \in [Processes -> Flags]
  BY <1>0, <1>1, CallTimer DEF InCall
<1>3. /\ Off(w, w', t) /\ w'.timer[t].flag = w.timer[t].flag /\ w'.timer[t].init = w.timer[t].init
      /\ Placed(t) => w'.timer[t] = w.timer[t] /\ w'.due[t] = w.due[t]
  BY <1>0, <1>1, <1>2, UnlinkIs DEF _rt_timer_remove
<1>4. Touch(t) /\ ~ On(w', t) /\ (Act(w', t) <=> Act(w, t))
  BY <1>2, <1>3, OffTouch DEF Act
<1>5. /\ Goes(p, t, place, t) /\ place # "start_insert" /\ Waking(pc)
      /\ pc' = [pc EXCEPT ![p] = place] /\ arg' = [arg EXCEPT ![p] = t]
  BY <1>0, <1>1, WakingIs DEF Goes, Goto, InCall
<1>6. ASSUME LagBounded, Clock
      PROVE  /\ Sorted(w') /\ w'.timer[t].init + MaxLag < Half
             /\ On(w', t) \/ Placed(t) => Timely(w', t)
  BY <1>2, <1>3, <1>4, <1>6, OffSorted, TimelySame DEF Clock
<1>7. Clearing(t)'
  <2>1. pc \in [Processes -> Places] /\ arg \in [Processes -> Timers \union {None}]
    BY DEF Core, TypeOK
  <2>2. arg'[p] = t /\ pc'[p] = "stop_clear"
    BY <1>1, <1>5, <2>1
  <2>. QED BY <2>2 DEF Clearing
<1>8. pc[p] \in InCall \union {"mode_write"} /\ arg[p] = t
  BY <1>0, <1>1 DEF InCall
<1>9. Active => \A q \in Processes : "ACTIVATED" \notin reg'[q]
  BY <1>0 DEF Active
<1>. QED BY <1>0, <1>2, <1>4, <1>5, <1>6, <1>7, <1>8, <1>9, CallKept

LEMMA StopClearKept ==
    ASSUME Core, NEW p \in Processes, StopClear(p)
    PROVE  Kept
<1>0. /\ Runs(p) /\ pc[p] = "stop_clear" /\ w' = Deactivate(w, arg[p])
      /\ Return(p) /\ UNCHANGED <<tick, isr, app, inuse, reg, walk>>
  BY DEF StopClear, At
<1>1. PICK t, place, u : t = arg[p] /\ place = Back(p) /\ u = None
  OBVIOUS
<1>2. /\ t \in Timers /\ w \in TimerState /\ Chains(w) /\ tick \in Ticks
      /\ reg' \in [Processes -> Flags]
  BY <1>0, <1>1, CallTimer DEF InCall
<1>3. /\ Chg(w, w', t) /\ w'.due = w.due /\ ~ Act(w', t)
      /\ w'.timer[t].timeout = w.timer[t].timeout /\ w'.timer[t].init = w.timer[t].init
  BY <1>0, <1>1, <1>2, DeactivateIs
<1>4. Touch(t) /\ (On(w', t) <=> On(w, t))
  BY <1>2, <1>3, ChgTouch
<1>5. /\ Goes(p, t, place, u) /\ place # "start_insert" /\ Waking(pc)
      /\ pc' = [pc EXCEPT ![p] = place] /\ arg' = [arg EXCEPT ![p] = u]
  <2>1. walk.ret \in {"after", "walk"}
    BY DEF Core, TypeOK
  <2>. QED BY <1>0, <1>1, <2>1, WakingIs DEF Goes, Back, Return, Goto
<1>6. ASSUME LagBounded, Clock
      PROVE  /\ Sorted(w') /\ w'.timer[t].init + MaxLag < Half
             /\ On(w', t) \/ Placed(t) => Timely(w', t)
  BY <1>2, <1>3, <1>4, <1>6, ChgSorted, TimelySame DEF Clock
<1>7. pc[p] \in InCall \union {"mode_write"} /\ arg[p] = t
  BY <1>0, <1>1 DEF InCall
<1>8. Active => \A q \in Processes : "ACTIVATED" \notin reg'[q]
  BY <1>0 DEF Active
<1>. QED BY <1>0, <1>2, <1>3, <1>4, <1>5, <1>6, <1>7, <1>8, CallKept

LEMMA ModeWriteKept ==
    ASSUME Core, NEW p \in Callers, ModeWrite(p)
    PROVE  Kept
<1>0. /\ Runs(p) /\ pc[p] = "mode_write" /\ w' = [w EXCEPT !.timer[arg[p]].flag = reg[p]]
      /\ Goto(p, "run", None) /\ reg' = [reg EXCEPT ![p] = {}]
      /\ UNCHANGED <<tick, isr, app, inuse, walk>> /\ p \in Processes /\ p # TT /\ p # TimerThread
  BY Processors DEF ModeWrite, At
<1>1. PICK t, place, u, a, f, c : /\ t = arg[p] /\ place = "run" /\ u = None /\ a = w.timer[t]
                                  /\ f = reg[p] /\ c = [a EXCEPT !.flag = f]
  OBVIOUS
<1>2. t \in Timers /\ w \in TimerState /\ Chains(w) /\ tick \in Ticks /\ reg \in [Processes -> Flags]
  BY <1>0, <1>1, CallTimer
<1>3. reg' \in [Processes -> Flags] /\ f \in Flags
  BY <1>0, <1>1, <1>2 DEF Flags
<1>4. /\ Chg(w, w', t) /\ w'.due = w.due /\ w'.timer[t].flag = f
      /\ w'.timer[t].timeout = w.timer[t].timeout /\ w'.timer[t].init = w.timer[t].init
  <2>1. a \in Cell
    BY <1>1, <1>2, CellOf
  <2>2. c \in Cell /\ c.flag = f /\ c.timeout = a.timeout /\ c.init = a.init
    BY ONLY <1>1, <1>3, <2>1 DEF Cell
  <2>3. w' = WithCell(w, t, c)
    BY <1>0, <1>1 DEF WithCell
  <2>4. Chg(w, w', t) /\ w'.timer[t] = c /\ w'.due = w.due
    BY <1>2, <2>2, <2>3, ChgIs
  <2>. QED BY <1>1, <2>2, <2>4
<1>5. Touch(t) /\ (On(w', t) <=> On(w, t))
  BY <1>2, <1>4, ChgTouch
<1>6. /\ Goes(p, t, place, u) /\ place # "start_insert" /\ Waking(pc)
      /\ pc' = [pc EXCEPT ![p] = place] /\ arg' = [arg EXCEPT ![p] = u]
  BY <1>0, <1>1, WakingIs DEF Goes, Back, Goto
<1>7. ASSUME LagBounded, Clock
      PROVE  /\ Sorted(w') /\ w'.timer[t].init + MaxLag < Half
             /\ On(w', t) \/ Placed(t) => Timely(w', t)
  BY <1>2, <1>4, <1>5, <1>7, ChgSorted, TimelySame DEF Clock
<1>8. ASSUME Active
      PROVE  /\ \A q \in Processes : "ACTIVATED" \notin reg'[q]
             /\ ~ Act(w', t)
  BY <1>0, <1>1, <1>2, <1>4, <1>8 DEF Active, Act
<1>9. pc[p] \in InCall \union {"mode_write"} /\ arg[p] = t
  BY <1>0, <1>1
<1>. QED BY <1>0, <1>2, <1>3, <1>5, <1>6, <1>7, <1>8, <1>9, CallKept

-----------------------------------------------------------------------------
(* A call begins.                                                          *)

LEMMA BeginKept ==
    ASSUME Core, NEW p \in Processes, NEW t \in Timers, t \in inuse, arg[p] = None,
           NEW place \in {"start_tick", "stop_remove", "mode_write"},
           place = "mode_write" => p \in Callers,
           Touch(t), \A q \in Processes : ~ Starting(q, t),
           p \in Callers => Untouched(t),
           pc' = [pc EXCEPT ![p] = place], arg' = [arg EXCEPT ![p] = t],
           On(w', t) => On(w, t), Act(w', t) => Act(w, t),
           place = "start_tick" => ~ On(w', t) /\ ~ Act(w', t),
           place # "start_tick" => w' = w, w'.timer[t].init = w.timer[t].init,
           Sorted(w) => Sorted(w'), walk.t \in {walk'.t, t, None},
           isr.t = None, isr' = isr, inuse' = inuse, tick' = tick, TypeOK', ThreadPlace',
           ModeChange = {} /\ Active => \A q \in Processes : "ACTIVATED" \notin reg'[q],
           walk.t = t => place = "start_tick" \/ walk'.t = t,
           SoftAlone /\ LagBounded /\ Clock /\ WalkInv => WalkInv'
    PROVE  Kept
<1>1. Core'
  BY TouchSeen, BeginKeeps
<1>2. \A x \in Timers : (Placed(x)' => Placed(x)) /\ (Clearing(x) => Clearing(x)')
  <2>1. /\ pc \in [Processes -> Places] /\ arg \in [Processes -> Timers \union {None}]
        /\ None \notin Timers
    BY Processors DEF Core, TypeOK
  <2>2. ASSUME NEW x \in Timers, NEW q \in Processes
        PROVE  /\ arg'[q] = x /\ pc'[q] = "start_insert" => arg[q] = x /\ pc[q] = "start_insert"
               /\ arg[q] = x /\ pc[q] = "stop_clear" => arg'[q] = x /\ pc'[q] = "stop_clear"
    BY <2>1
  <2>. QED BY <2>2 DEF Placed, Clearing
<1>3. ~ Placed(t)
  BY DEF Placed, Starting
<1>4. ASSUME LagBounded, Clock
      PROVE  Clock'
  <2>1. On(w', t) => Timely(w', t)
    BY <1>4 DEF Clock
  <2>. QED BY <1>2, <1>3, <1>4, <2>1, ClockKeeps DEF Clock
<1>5. ASSUME Active, \A q \in Processes : "ACTIVATED" \notin reg'[q]
      PROVE  Active'
  <2>1. Act(w', t) => On(w', t) \/ walk'.t = t \/ isr'.t = t \/ Clearing(t)'
    BY <1>2, <1>5 DEF Active
  <2>2. \A x \in Timers \ {t} : (walk.t = x => walk'.t = x) /\ (isr.t = x => isr'.t = x)
    BY Processors
  <2>. QED BY <1>2, <1>5, <2>1, <2>2, ActiveKeeps
<1>. QED BY <1>1, <1>4, <1>5 DEF Kept

\* Nobody is in a call for a timer that no one works on.
LEMMA FreeIs ==
    ASSUME Core, NEW p \in Callers, NEW t \in Timers, Free(p, t)
    PROVE  /\ p \in Processes /\ p # TT /\ Runs(p) /\ pc[p] = "run" /\ arg[p] = None
           /\ t \in inuse /\ Untouched(t) /\ isr.at = "none" /\ isr.t = None
           /\ w \in TimerState /\ Chains(w) /\ \A q \in Processes : ~ Starting(q, t)
           /\ ~ Placed(t) /\ ~ Clearing(t)
BY Processors DEF Core, Free, At, Runs, PlaceInv, CallerPlace, IsrPlace, TypeOK, Untouched,
                  Starting, Placed, Clearing

\* A caller begins a call.
LEMMA CallerBegins ==
    ASSUME Core, NEW p \in Callers, NEW t \in Timers, Free(p, t),
           NEW place \in {"start_tick", "stop_remove", "mode_write"},
           Touch(t), Goto(p, place, t),
           On(w', t) => On(w, t), Act(w', t) => Act(w, t),
           place = "start_tick" => ~ On(w', t) /\ ~ Act(w', t),
           place # "start_tick" => w' = w, w'.timer[t].init = w.timer[t].init,
           Sorted(w) => Sorted(w'), reg' \in [Processes -> Flags],
           ModeChange = {} /\ Active => \A q \in Processes : "ACTIVATED" \notin reg'[q],
           UNCHANGED <<tick, isr, app, inuse, walk>>
    PROVE  Kept
<1>1. /\ p \in Processes /\ p # TT /\ Runs(p) /\ arg[p] = None
      /\ t \in inuse /\ Untouched(t) /\ isr.t = None /\ \A q \in Processes : ~ Starting(q, t)
  BY FreeIs
<1>2. /\ pc \in [Processes -> Places] /\ arg \in [Processes -> Timers \union {None}]
      /\ pc' = [pc EXCEPT ![p] = place] /\ arg' = [arg EXCEPT ![p] = t]
  BY DEF Core, TypeOK, Goto
<1>3. TypeOK'
  <2>1. pc' \in [Processes -> Places] /\ arg' \in [Processes -> Timers \union {None}]
    BY <1>1, <1>2 DEF Places
  <2>. QED BY <2>1 DEF Core, TypeOK, Touch
<1>4. ThreadPlace'
  <2>1. pc'[TT] = pc[TT] /\ arg'[TT] = arg[TT]
    BY <1>1, <1>2, Processors
  <2>. QED BY <2>1 DEF Core, PlaceInv, ThreadPlace
<1>5. SoftAlone => WalkInv'
  BY <1>1, CallerWalk
<1>. QED BY <1>1, <1>2, <1>3, <1>4, <1>5, BeginKept

LEMMA CallerStartKept ==
    ASSUME Core, NEW p \in Callers, NEW t \in Timers, rt_timer_start(p, t)
    PROVE  Kept
<1>1. /\ Free(p, t) /\ Goto(p, "start_tick", t) /\ UNCHANGED <<tick, isr, app, inuse, reg, walk>>
      /\ w' = Deactivate(_rt_timer_remove(w, t), t)
  BY DEF rt_timer_start, StartRemove
<1>2. w \in TimerState /\ Chains(w)
  BY DEF Core, TypeOK
<1>3. Off(w, w', t) /\ ~ Act(w', t) /\ w'.timer[t].init = w.timer[t].init
  BY <1>1, <1>2, RemoveIs
<1>4. Touch(t) /\ ~ On(w', t) /\ (Sorted(w) => Sorted(w'))
  BY <1>2, <1>3, OffTouch, OffSorted
<1>5. reg' \in [Processes -> Flags] /\ (Active => \A q \in Processes : "ACTIVATED" \notin reg'[q])
  BY <1>1 DEF Core, TypeOK, Active
<1>6. PICK place : place = "start_tick"
  OBVIOUS
<1>. QED BY <1>1, <1>3, <1>4, <1>5, <1>6, CallerBegins

LEMMA CallerStopKept ==
    ASSUME Core, NEW p \in Callers, NEW t \in Timers, rt_timer_stop(p, t)
    PROVE  Kept
<1>1. /\ Free(p, t) /\ Goto(p, "stop_remove", t) /\ UNCHANGED <<tick, isr, app, inuse, reg, walk>>
      /\ w' = w
  BY DEF rt_timer_stop, StopTest
<1>2. Touch(t)
  BY <1>1, SameTouch DEF Core, TypeOK
<1>3. reg' \in [Processes -> Flags] /\ (Active => \A q \in Processes : "ACTIVATED" \notin reg'[q])
  BY <1>1 DEF Core, TypeOK, Active
<1>4. PICK place : place = "stop_remove"
  OBVIOUS
<1>. QED BY <1>1, <1>2, <1>3, <1>4, CallerBegins

LEMMA ModeReadKept ==
    ASSUME Core, NEW p \in Callers, NEW t \in Timers, ModeRead(p, t)
    PROVE  Kept
<1>1. /\ Free(p, t) /\ Goto(p, "mode_write", t) /\ UNCHANGED <<tick, isr, app, inuse, walk>>
      /\ w' = w /\ (Act(w, t) => t \in ModeChange)
  BY DEF ModeRead, Act
<1>2. PICK m \in Modes[t] : reg' = [reg EXCEPT ![p] = (w.timer[t].flag \ {"PERIODIC"}) \union m]
  BY DEF ModeRead
<1>3. Touch(t)
  BY <1>1, SameTouch DEF Core, TypeOK
<1>4. m \subseteq {"PERIODIC"} /\ w.timer[t].flag \in Flags
  <2>1. w.timer[t] \in Cell
    BY CellOf DEF Core, TypeOK
  <2>. QED BY <2>1, TimerAssumption DEF Cell
<1>5. reg \in [Processes -> Flags] /\ p \in Processes
  BY Processors DEF Core, TypeOK
<1>6. reg' \in [Processes -> Flags]
  BY <1>2, <1>4, <1>5 DEF Flags
<1>7. ModeChange = {} /\ Active => \A q \in Processes : "ACTIVATED" \notin reg'[q]
  BY <1>1, <1>2, <1>4, <1>5 DEF Active, Act
<1>8. PICK place : place = "mode_write"
  OBVIOUS
<1>. QED BY <1>1, <1>3, <1>6, <1>7, <1>8, CallerBegins

-----------------------------------------------------------------------------
(* The calls that are over at once, and the tick interrupt.                *)

LEMMA AtOnceKept ==
    ASSUME Core, NEW t \in Timers, Touch(t), Waking(pc'), UNCHANGED <<tick, arg, reg, walk>>,
           \/ \A q \in Processes : ~ Starting(q, t)
           \/ (On(w', t) => On(w, t)) /\ (Act(w', t) => Act(w, t)),
           On(w', t) \/ Act(w', t) => t \in inuse',
           \A x \in inuse : x \in inuse' \/ (x = t /\ Untouched(t)),
           \A q \in Processes, x \in Timers : Starting(q, x) => isr'.t # x,
           IsrPlace', TypeOK', isr.t \in {isr'.t, t, None},
           LagBounded /\ Clock => /\ Sorted(w') /\ w'.timer[t].init + MaxLag < Half
                                  /\ On(w', t) \/ Placed(t) => Timely(w', t),
           Active => (Act(w', t) => On(w', t) \/ walk.t = t \/ isr'.t = t \/ Clearing(t)),
           SoftAlone => walk.n = None \/ walk.n # t
    PROVE  Kept
<1>1. Core'
  BY TouchSeen, AtOnceKeeps
<1>2. \A x \in Timers : (Placed(x)' => Placed(x)) /\ (Clearing(x) => Clearing(x)')
  BY DEF Placed, Clearing, Waking
<1>3. LagBounded /\ Clock => Clock'
  BY <1>2, ClockKeeps
<1>4. ASSUME Active
      PROVE  Active'
  <2>1. \A q \in Processes : "ACTIVATED" \notin reg'[q]
    BY <1>4 DEF Active
  <2>2. \A x \in Timers \ {t} : isr.t = x => isr'.t = x
    BY Processors
  <2>. QED BY <1>2, <1>4, <2>1, <2>2, ActiveKeeps
<1>5. ASSUME SoftAlone, WalkInv
      PROVE  WalkInv'
  <2>1. Walking' => Walking
    BY Processors DEF Waking, Walking, InCall
  <2>2. walk.n # None => walk.n # arg'[TT]
    BY <1>5 DEF WalkInv
  <2>. QED BY <1>5, <2>1, <2>2, TouchWalk, WalkKeeps
<1>. QED BY <1>1, <1>3, <1>4, <1>5 DEF Kept

\* A call of a caller that is over at once.
LEMMA CallerAtOnce ==
    ASSUME Core, NEW p \in Callers, Runs(p), NEW t \in Timers, Touch(t), Untouched(t),
           On(w', t) \/ Act(w', t) => t \in inuse', inuse' \subseteq app,
           \A x \in inuse : x \in inuse' \/ x = t,
           UNCHANGED <<tick, isr, app, pc, arg, reg, walk>>,
           LagBounded /\ Clock => /\ Sorted(w') /\ w'.timer[t].init + MaxLag < Half
                                  /\ On(w', t) => Timely(w', t),
           Act(w', t) => \/ Act(w, t) /\ On(w', t)
                         \/ Act(w, t) /\ (On(w', t) <=> On(w, t))
    PROVE  Kept
<1>1. isr.at = "none" /\ isr.t = None
  BY DEF Runs, Core, PlaceInv, IsrPlace
<1>2. (\A q \in Processes : ~ Starting(q, t)) /\ ~ Placed(t)
  BY DEF Untouched, Starting, Placed
<1>3. TypeOK' /\ Waking(pc')
  BY WakingIs DEF Core, TypeOK, Touch
<1>4. IsrPlace' /\ \A q \in Processes, x \in Timers : Starting(q, x) => isr'.t # x
  BY <1>1, Processors DEF IsrPlace
<1>5. SoftAlone => walk.n = None
  <2>1. SoftAlone => pc[TT] \in {"suspended", "delayed"}
    BY Processors DEF SoftAlone, Runs, Asleep
  <2>. QED BY <2>1 DEF Core, PlaceInv, ThreadPlace, InCall
<1>6. Active => (Act(w', t) => On(w', t) \/ walk.t = t \/ isr'.t = t \/ Clearing(t))
  BY DEF Active
<1>. QED BY <1>1, <1>2, <1>3, <1>4, <1>5, <1>6, AtOnceKept

LEMMA SetTimeKept ==
    ASSUME Core, NEW p \in Callers, NEW t \in Timers, NEW time \in InitTicks[t], SetTime(p, t, time)
    PROVE  Kept
<1>0. /\ Free(p, t) /\ w' = [w EXCEPT !.timer[t].init = time]
      /\ UNCHANGED <<tick, isr, app, inuse, pc, arg, reg, walk>>
  BY DEF SetTime
<1>1. /\ Runs(p) /\ t \in inuse /\ Untouched(t) /\ w \in TimerState /\ Chains(w)
      /\ inuse' \subseteq app
  BY <1>0, FreeIs DEF Core, TypeOK
<1>2. PICK a, c : a = w.timer[t] /\ c = [a EXCEPT !.init = time]
  OBVIOUS
<1>3. time \in Ticks
  BY TimerAssumption DEF Ticks, Half, RT_TICK_MAX
<1>4. /\ Chg(w, w', t) /\ w'.due = w.due /\ w'.timer[t].flag = w.timer[t].flag
      /\ w'.timer[t].timeout = w.timer[t].timeout /\ w'.timer[t].init = time
  <2>1. a \in Cell
    BY <1>1, <1>2, CellOf
  <2>2. c \in Cell /\ c.flag = a.flag /\ c.timeout = a.timeout /\ c.init = time
    BY ONLY <1>2, <1>3, <2>1 DEF Cell
  <2>3. w' = WithCell(w, t, c)
    BY <1>0, <1>2 DEF WithCell
  <2>4. Chg(w, w', t) /\ w'.timer[t] = c /\ w'.due = w.due
    BY <1>1, <2>2, <2>3, ChgIs
  <2>. QED BY <1>2, <2>2, <2>4
<1>5. Touch(t) /\ (On(w', t) <=> On(w, t)) /\ (Act(w', t) <=> Act(w, t))
  BY <1>1, <1>4, ChgTouch DEF Act
<1>6. ASSUME LagBounded, Clock
      PROVE  Sorted(w') /\ w'.timer[t].init + MaxLag < Half /\ (On(w', t) => Timely(w', t))
  BY <1>1, <1>4, <1>5, <1>6, ChgSorted, TimelySame DEF Clock, LagBounded
<1>. QED BY <1>0, <1>1, <1>5, <1>6, CallerAtOnce

LEMMA DetachKept ==
    ASSUME Core, NEW p \in Callers, NEW t \in Timers, rt_timer_detach(p, t)
    PROVE  Kept
<1>0. /\ Free(p, t) /\ w' = [_rt_timer_remove(w, t) EXCEPT !.timer[t] = Blank]
      /\ inuse' = inuse \ {t} /\ UNCHANGED <<tick, isr, app, pc, arg, reg, walk>>
  BY DEF rt_timer_detach
<1>1. /\ Runs(p) /\ t \in inuse /\ Untouched(t) /\ w \in TimerState /\ Chains(w)
      /\ inuse' \subseteq app
  BY <1>0, FreeIs DEF Core, TypeOK
<1>2. PICK V, c : V = _rt_timer_remove(w, t) /\ c = Blank
  OBVIOUS
<1>3. Off(w, V, t)
  BY <1>1, <1>2, UnlinkIs DEF _rt_timer_remove
<1>4. V \in TimerState
  BY <1>3 DEF Off
<1>5. Chg(V, w', t) /\ w'.timer[t] = c
  <2>1. c \in Cell
    BY <1>2, HalfIs DEF Blank, Cell, Ticks, Flags, RT_TICK_MAX
  <2>2. w' = WithCell(V, t, c)
    BY <1>0, <1>2 DEF WithCell
  <2>. QED BY <1>4, <2>1, <2>2, ChgIs
<1>6. Off(w, w', t)
  BY <1>1, <1>3, <1>5, OffChg
<1>7. Touch(t) /\ ~ On(w', t) /\ ~ Act(w', t) /\ w'.timer[t].init = 0
  BY <1>2, <1>5, <1>6, OffTouch DEF Act, Blank
<1>8. ASSUME LagBounded, Clock
      PROVE  Sorted(w') /\ w'.timer[t].init + MaxLag < Half
  BY <1>1, <1>6, <1>7, <1>8, OffSorted, HalfIs DEF Clock, LagBounded
<1>. QED BY <1>0, <1>1, <1>7, <1>8, CallerAtOnce

LEMMA TimerInitKept ==
    ASSUME Core, NEW p \in Callers, NEW t \in Timers, NEW time \in InitTicks[t],
           NEW flag \in Modes[t], _rt_timer_init(p, t, time, flag)
    PROVE  Kept
<1>0. /\ Runs(p) /\ t \in app \ inuse /\ inuse' = inuse \union {t}
      /\ w' = [w EXCEPT !.timer[t] = [timeout |-> 0, init |-> time, flag |-> flag]]
      /\ UNCHANGED <<tick, isr, app, pc, arg, reg, walk>>
  BY DEF _rt_timer_init, At
<1>1. /\ w \in TimerState /\ Chains(w) /\ Untouched(t) /\ ~ On(w, t) /\ inuse' \subseteq app
  BY <1>0, Processors DEF Core, TypeOK, UseInv, Untouched
<1>2. PICK c : c = [timeout |-> 0, init |-> time, flag |-> flag]
  OBVIOUS
<1>3. c \in Cell /\ "ACTIVATED" \notin flag
  <2>1. time \in Ticks /\ 0 \in Ticks
    BY TimerAssumption DEF Ticks, Half, RT_TICK_MAX
  <2>2. flag \in Flags /\ "ACTIVATED" \notin flag
    BY TimerAssumption DEF Flags
  <2>. QED BY <1>2, <2>1, <2>2 DEF Cell
<1>4. Chg(w, w', t) /\ w'.timer[t] = c
  <2>1. w' = WithCell(w, t, c)
    BY <1>0, <1>2 DEF WithCell
  <2>. QED BY <1>1, <1>3, <2>1, ChgIs
<1>5. Touch(t) /\ ~ On(w', t) /\ ~ Act(w', t) /\ w'.timer[t].init = time
  BY <1>1, <1>2, <1>3, <1>4, ChgTouch DEF Act
<1>6. ASSUME LagBounded, Clock
      PROVE  Sorted(w') /\ w'.timer[t].init + MaxLag < Half
  BY <1>1, <1>4, <1>5, <1>6, ChgSorted DEF Clock, LagBounded
<1>. QED BY <1>0, <1>1, <1>5, <1>6, CallerAtOnce

LEMMA HeadIs ==
    ASSUME Core, NEW l \in Lists, Bottom(l) # <<>>, NEW t, t = Head(Bottom(l))
    PROVE  /\ t \in Timers /\ On(w, t) /\ ListOf(t) = l /\ t \in inuse
           /\ \A x \in ToSet(Bottom(l)) : x = t \/ Ahead(Bottom(l), t, x)
<1>1. w \in TimerState /\ Chains(w)
  BY DEF Core, TypeOK
<1>2. PICK s : s = Bottom(l)
  OBVIOUS
<1>3. s \in Seq(Timers) /\ s # <<>> /\ s = w.rows[l][LastRow]
  BY <1>1, <1>2, StateTypes, RowTypes DEF Bottom
<1>4. t = s[1] /\ 1 \in 1 .. Len(s) /\ Len(s) \in Nat
  BY <1>2, <1>3
<1>5. t \in ToSet(s)
  BY <1>3, <1>4, ToSetDef
<1>6. t \in Timers /\ On(w, t) /\ ListOf(t) = l
  BY <1>1, <1>3, <1>5, RowTypes, InRow
<1>7. ASSUME NEW x \in ToSet(s)
      PROVE  x = t \/ Ahead(s, t, x)
  <2>1. PICK n \in 1 .. Len(s) : s[n] = x
    BY <1>3, ToSetDef
  <2>. QED BY <1>4, <2>1 DEF Ahead
<1>. QED BY <1>2, <1>6, <1>7 DEF Core, UseInv

\* What the tick interrupt works with.
LEMMA IsrTypes ==
    ASSUME Core
    PROVE  /\ w \in TimerState /\ Chains(w) /\ tick \in Ticks /\ inuse \subseteq Timers
           /\ walk.n \in SoftTimers \union {None}
           /\ isr \in [at : {"none", "check", "callback", "after"}, t : Timers \union {None}]
           /\ isr.at \in {"callback", "after"} => /\ isr.t \in inuse /\ isr.t \in Timers
                                                  /\ isr.t \notin SoftTimers
<1>1. app \subseteq Timers
  BY TimerAssumption DEF Core, TypeOK
<1>. QED BY <1>1 DEF Core, TypeOK, PlaceInv, ThreadPlace, IsrPlace

LEMMA FireKept ==
    ASSUME Core, Fire
    PROVE  Kept
<1>1. PICK t, l : t = Head(Bottom("hard")) /\ l = "hard"
  OBVIOUS
<1>0. /\ isr.at = "check" /\ Bottom(l) # <<>> /\ w' = _rt_timer_remove(w, t)
      /\ isr' = [at |-> "callback", t |-> t] /\ UNCHANGED <<tick, app, inuse, pc, arg, reg, walk>>
  BY <1>1 DEF Fire
<1>2. t \in Timers /\ On(w, t) /\ ListOf(t) = l /\ t \in inuse
  <2>1. l \in Lists /\ t = Head(Bottom(l))
    BY <1>1 DEF Lists
  <2>. QED BY <1>0, <2>1, HeadIs
<1>3. t \notin SoftTimers
  BY <1>1, <1>2 DEF ListOf
<1>4. w \in TimerState /\ Chains(w) /\ walk.n \in SoftTimers \union {None} /\ isr.t = None
  BY <1>0, IsrTypes DEF Core, PlaceInv, IsrPlace
<1>5. /\ Off(w, w', t) /\ w'.timer[t].flag = w.timer[t].flag /\ w'.timer[t].init = w.timer[t].init
      /\ Placed(t) => w'.timer[t] = w.timer[t] /\ w'.due[t] = w.due[t]
  BY <1>0, <1>2, <1>4, UnlinkIs DEF _rt_timer_remove
<1>6. Touch(t) /\ ~ On(w', t) /\ (Act(w', t) <=> Act(w, t))
  BY <1>2, <1>5, OffTouch DEF Act
<1>7. isr'.t = t /\ IsrPlace' /\ Waking(pc')
  BY <1>0, <1>2, <1>3, WakingIs DEF IsrPlace
<1>8. \A q \in Processes, x \in Timers : Starting(q, x) => isr'.t # x
  BY <1>2, <1>7 DEF Core, StartInv
<1>9. TypeOK'
  BY <1>0, <1>2, <1>6 DEF Core, TypeOK, Touch
<1>10. ASSUME LagBounded, Clock
       PROVE  /\ Sorted(w') /\ w'.timer[t].init + MaxLag < Half
              /\ On(w', t) \/ Placed(t) => Timely(w', t)
  BY <1>2, <1>4, <1>5, <1>6, <1>10, OffSorted, TimelySame DEF Clock
<1>. QED BY <1>0, <1>2, <1>3, <1>4, <1>6, <1>7, <1>8, <1>9, <1>10, Processors, AtOnceKept

\* The tick interrupt starts or stops u, and nobody is in a start for u.
LEMMA IsrCallKept ==
    ASSUME Core, NEW u \in Timers, u \in inuse, \A q \in Processes : ~ Starting(q, u),
           StopAtOnce(u) \/ StartAtOnce(u) \/ w' = Deactivate(w, u), Waking(pc'),
           UNCHANGED <<tick, app, inuse, arg, reg, walk>>, isr.t \in {isr'.t, u, None},
           isr'.t \in {isr.t, None}, IsrPlace',
           isr' \in [at : {"none", "check", "callback", "after"}, t : Timers \union {None}],
           SoftAlone => u \notin SoftTimers
    PROVE  Kept
<1>1. w \in TimerState /\ Chains(w) /\ tick \in Ticks /\ walk.n \in SoftTimers \union {None}
  BY IsrTypes
<1>2. ~ Placed(u)
  BY DEF Placed, Starting
<1>3. /\ Touch(u) /\ w'.timer[u].init = w.timer[u].init /\ (Act(w', u) => On(w', u))
      /\ LagBounded /\ Clock => Sorted(w') /\ (On(w', u) => Timely(w', u))
  <2>1. CASE StopAtOnce(u)
    <3>1. Off(w, w', u) /\ ~ Act(w', u) /\ w'.timer[u].init = w.timer[u].init
      BY <1>1, <2>1, RemoveIs DEF StopAtOnce
    <3>2. Touch(u) /\ ~ On(w', u) /\ (Sorted(w) => Sorted(w'))
      BY <1>1, <3>1, OffTouch, OffSorted
    <3>. QED BY <3>1, <3>2 DEF Clock
  <2>2. CASE StartAtOnce(u)
    BY <1>1, <2>2, StartAtOnceIs
  <2>3. CASE w' = Deactivate(w, u)
    <3>1. /\ Chg(w, w', u) /\ w'.due = w.due /\ ~ Act(w', u)
          /\ w'.timer[u].timeout = w.timer[u].timeout /\ w'.timer[u].init = w.timer[u].init
      BY <1>1, <2>3, DeactivateIs
    <3>2. Touch(u) /\ (On(w', u) <=> On(w, u))
      BY <1>1, <3>1, ChgTouch
    <3>3. ASSUME Clock
          PROVE  Sorted(w') /\ (On(w', u) => Timely(w', u))
      BY <1>1, <3>1, <3>2, <3>3, ChgSorted, TimelySame DEF Clock
    <3>. QED BY <3>1, <3>2, <3>3
  <2>. QED BY <2>1, <2>2, <2>3
<1>4. TypeOK'
  BY <1>3 DEF Core, TypeOK, Touch, Waking
<1>5. \A q \in Processes, x \in Timers : Starting(q, x) => isr'.t # x
  BY Processors DEF Core, StartInv
<1>6. SoftAlone => walk.n = None \/ walk.n # u
  BY <1>1
<1>7. LagBounded /\ Clock => w'.timer[u].init + MaxLag < Half
  BY <1>3 DEF Clock
<1>. QED BY <1>2, <1>3, <1>4, <1>5, <1>6, <1>7, AtOnceKept

LEMMA FireCallbackKept ==
    ASSUME Core, FireCallback
    PROVE  Kept
<1>0. /\ isr.at = "callback" /\ isr' = [isr EXCEPT !.at = "after"]
      /\ UNCHANGED <<tick, app, inuse, arg, reg, walk>>
  BY DEF FireCallback
<1>1. /\ w \in TimerState /\ Chains(w) /\ inuse \subseteq Timers
      /\ walk.n \in SoftTimers \union {None} /\ isr.t \in inuse /\ isr.t \notin SoftTimers
      /\ isr \in [at : {"none", "check", "callback", "after"}, t : Timers \union {None}]
  BY <1>0, IsrTypes
<1>2. /\ isr'.t = isr.t /\ isr'.at = "after"
      /\ isr' \in [at : {"none", "check", "callback", "after"}, t : Timers \union {None}]
  BY <1>0, <1>1
<1>3. IsrPlace'
  BY <1>0, <1>1, <1>2 DEF IsrPlace
<1>4. CASE UNCHANGED <<w, pc>>
  <2>1. PICK t \in Timers : t = isr.t
    BY <1>1
  <2>2. Touch(t) /\ (On(w', t) <=> On(w, t)) /\ (Act(w', t) <=> Act(w, t)) /\ Waking(pc')
    BY <1>1, <1>4, SameTouch, WakingIs
  <2>3. TypeOK'
    BY <1>0, <1>2, <1>4 DEF Core, TypeOK
  <2>4. \A q \in Processes, x \in Timers : Starting(q, x) => isr'.t # x
    BY <1>2 DEF Core, StartInv
  <2>5. Clock => /\ Sorted(w') /\ w'.timer[t].init + MaxLag < Half
                 /\ On(w', t) \/ Placed(t) => Timely(w', t)
    BY <1>4, <2>2 DEF Clock
  <2>. QED BY <1>0, <1>1, <1>2, <1>3, <2>1, <2>2, <2>3, <2>4, <2>5, AtOnceKept
<1>5. ASSUME NEW u \in Called(isr.t), StopAtOnce(u) \/ StartAtOnce(u), Waking(pc')
      PROVE  Kept
  <2>1. u \in inuse /\ <<isr.t, u>> \in Reach /\ Untouched(u)
    BY DEF Called
  <2>2. u \in Timers /\ (SoftAlone => u \notin SoftTimers)
    BY <1>1, <2>1 DEF SoftAlone
  <2>3. \A q \in Processes : ~ Starting(q, u)
    BY <2>1 DEF Untouched, Starting
  <2>. QED BY <1>0, <1>2, <1>3, <1>5, <2>1, <2>2, <2>3, IsrCallKept
<1>6. Waking(pc) /\ Waking(ResumeTimerThread)
  BY WakingIs
<1>7. CASE \E u \in Called(isr.t) : StopAtOnce(u) /\ UNCHANGED pc
  BY <1>5, <1>6, <1>7
<1>8. CASE \E u \in Called(isr.t) :
              StartAtOnce(u) /\ pc' = IF u \in SoftTimers THEN ResumeTimerThread ELSE pc
  BY <1>5, <1>6, <1>8
<1>. QED BY <1>4, <1>7, <1>8 DEF FireCallback

LEMMA FireDoneKept ==
    ASSUME Core, FireDone
    PROVE  Kept
<1>0. /\ isr.at = "after" /\ isr' = [at |-> "check", t |-> None]
      /\ UNCHANGED <<tick, app, inuse, pc, arg, reg, walk>>
      /\ StartAtOnce(isr.t) \/ w' = Deactivate(w, isr.t)
  BY DEF FireDone
<1>1. PICK u : u = isr.t
  OBVIOUS
<1>2. u \in Timers /\ u \in inuse /\ u \notin SoftTimers
  BY <1>0, <1>1, IsrTypes
<1>3. \A q \in Processes : ~ Starting(q, u)
  BY <1>1, <1>2 DEF Core, StartInv
<1>4. /\ IsrPlace' /\ isr'.t = None /\ Waking(pc')
      /\ isr' \in [at : {"none", "check", "callback", "after"}, t : Timers \union {None}]
  BY <1>0, WakingIs DEF IsrPlace
<1>. QED BY <1>0, <1>1, <1>2, <1>3, <1>4, IsrCallKept

LEMMA CheckLeaveKept ==
    ASSUME Core, CheckLeave
    PROVE  Kept
<1>0. /\ isr.at = "check" /\ isr' = [isr EXCEPT !.at = "none"]
      /\ UNCHANGED <<tick, app, inuse, w, pc, arg, reg, walk>>
  BY DEF CheckLeave
<1>1. isr.t = None /\ isr'.t = None /\ isr'.at = "none" /\ TypeOK'
  BY <1>0 DEF Core, PlaceInv, IsrPlace, TypeOK
<1>2. Core'
  <2>1. PICK t : t = None
    OBVIOUS
  <2>2. t \notin Timers /\ Seen(t) /\ Waking(pc') /\ IsrPlace'
    BY <1>0, <1>1, <2>1, SameTouch, TouchSeen, WakingIs, Processors DEF Core, TypeOK, IsrPlace
  <2>3. \A q \in Processes, x \in Timers : Starting(q, x) => isr'.t # x
    BY <1>1, Processors
  <2>. QED BY <1>0, <1>1, <2>2, <2>3, AtOnceKeeps
<1>3. \A x : (Placed(x)' <=> Placed(x)) /\ (Clearing(x)' <=> Clearing(x))
  BY <1>0 DEF Placed, Clearing
<1>4. Clock => Clock'
  BY <1>0, <1>3, ClockSame
<1>5. Active => Active'
  BY <1>0, <1>1, <1>3, ActiveSame, Processors DEF Active
<1>6. WalkInv => WalkInv'
  <2>1. Walking' <=> Walking
    BY <1>0 DEF Walking
  <2>. QED BY <1>0, <2>1, WalkKeeps DEF WalkInv
<1>. QED BY <1>2, <1>4, <1>5, <1>6 DEF Kept

\* One tick: the counter goes on, and the time that is left gets less.
LEMMA TickTime ==
    ASSUME tick \in Ticks, tick' = (tick + 1) % TickMod, NEW W \in TimerState, NEW r, NEW t \in Timers,
           Timely(W, t), r.timer = W.timer, r.due[t] = W.due[t] - 1, r.due[t] >= 0 - MaxLag
    PROVE  /\ r.timer[t].timeout = (tick' + r.due[t]) % TickMod
           /\ 0 - MaxLag <= r.due[t] /\ r.due[t] + MaxLag < Half
<1>1. PICK a, b, c, M \in Int : a = W.due[t] /\ b = a - 1 /\ c = tick + 1 /\ M = TickMod
  BY StateTypes, HalfIs DEF Ticks
<1>2. ((c % M) + b) % M = (c + b) % M
  BY <1>1, HalfIs, ModAdd
<1>3. c + b = tick + a
  BY <1>1 DEF Ticks
<1>4. r.timer[t].timeout = (tick + a) % M /\ tick' = c % M /\ r.due[t] = b
  BY <1>1 DEF Timely
<1>5. b >= 0 - MaxLag /\ b + MaxLag < Half
  BY <1>1, <1>4, HalfIs DEF Timely
<1>6. r.timer[t].timeout = (tick' + r.due[t]) % M
  BY <1>2, <1>3, <1>4, Zenon
<1>. QED BY <1>1, <1>4, <1>5, <1>6, HalfIs

\* What a tick does to the timers.
LEMMA TickIs ==
    ASSUME Core, Tick
    PROVE  /\ w' \in TimerState /\ w'.rows = w.rows /\ w'.order = w.order /\ w'.timer = w.timer
           /\ \A t \in Timers : On(w, t) \/ Placed(t) =>
                 w'.due[t] = w.due[t] - 1 /\ w'.due[t] >= 0 - MaxLag
           /\ Waking(pc') /\ isr.t = None
           /\ walk'.n = walk.n /\ walk'.t = walk.t /\ walk'.ret = walk.ret /\ walk'.now = walk.now
           /\ TypeOK'
<1>1. w \in TimerState /\ tick \in Ticks
  BY DEF Core, TypeOK
<1>2. w' = [w EXCEPT !.due = Older] /\ \A t \in Timers : Older[t] >= 0 - MaxLag
  BY DEF Tick
<1>3. Older \in [Timers -> Int]
  BY <1>1, StateTypes DEF Older
<1>4. /\ w' \in TimerState /\ w'.rows = w.rows /\ w'.order = w.order /\ w'.timer = w.timer
      /\ w'.due = Older
  BY <1>1, <1>2, <1>3 DEF TimerState
<1>5. ASSUME NEW t \in Timers, On(w, t) \/ Placed(t)
      PROVE  w'.due[t] = w.due[t] - 1 /\ w'.due[t] >= 0 - MaxLag
  <2>1. Counting(t)
    BY <1>5, LinkedIs DEF Counting
  <2>2. Older[t] = w.due[t] - 1
    BY <2>1 DEF Older
  <2>. QED BY <1>2, <1>4, <2>2
<1>6. /\ Waking(pc') /\ walk'.n = walk.n /\ walk'.t = walk.t /\ walk'.ret = walk.ret
      /\ walk'.now = walk.now
      /\ walk' \in [next : Ticks, nap : Ticks, now : Ticks, n : Timers \union {None},
                    t : Timers \union {None}, locked : BOOLEAN, ret : {"after", "walk"}]
  <2>0. /\ Waking(pc) /\ pc \in [Processes -> Places] /\ 0 \in Ticks
        /\ walk \in [next : Ticks, nap : Ticks, now : Ticks, n : Timers \union {None},
                     t : Timers \union {None}, locked : BOOLEAN, ret : {"after", "walk"}]
    BY WakingIs, HalfIs DEF Core, TypeOK, Ticks, RT_TICK_MAX
  <2>1. CASE pc[TT] = "delayed" /\ walk.nap <= 1
    <3>1. pc' = [pc EXCEPT ![TT] = "check"] /\ walk' = [walk EXCEPT !.nap = 0]
      BY <2>1, Processors DEF Tick
    <3>2. Waking(pc')
      BY <2>0, <2>1, <3>1, Processors DEF Waking, Places
    <3>. QED BY <2>0, <3>1, <3>2
  <2>2. CASE pc[TT] = "delayed" /\ ~ (walk.nap <= 1)
    <3>1. pc' = pc /\ walk' = [walk EXCEPT !.nap = @ - 1]
      BY <2>2, Processors DEF Tick
    <3>2. PICK k, m : k = walk.nap /\ m = RT_TICK_MAX
      OBVIOUS
    <3>3. k \in 0 .. m /\ ~ (k <= 1) /\ m \in Int
      BY <2>0, <2>2, <3>2, HalfIs DEF Ticks, RT_TICK_MAX
    <3>4. k - 1 \in 0 .. m
      BY ONLY <3>3
    <3>5. walk.nap - 1 \in Ticks
      BY <3>2, <3>4 DEF Ticks
    <3>. QED BY <2>0, <3>1, <3>5
  <2>3. CASE pc[TT] # "delayed"
    BY <2>0, <2>3, Processors DEF Tick
  <2>. QED BY <2>1, <2>2, <2>3
<1>7. isr.t = None
  BY DEF Tick, Core, PlaceInv, IsrPlace
<1>8. TypeOK'
  <2>1. tick' \in Ticks
    <3>1. PICK a \in Int : a = tick + 1
      BY <1>1 DEF Ticks
    <3>2. a % TickMod \in 0 .. TickMod - 1
      BY HalfIs, ModDiv
    <3>. QED BY <3>1, <3>2 DEF Tick, Ticks, RT_TICK_MAX
  <2>2. isr' \in [at : {"none", "check", "callback", "after"}, t : Timers \union {None}]
    BY DEF Tick
  <2>3. pc' \in [Processes -> Places]
    BY <1>6 DEF Waking
  <2>4. UNCHANGED <<app, inuse, arg, reg>>
    BY DEF Tick
  <2>. QED BY <1>4, <1>6, <2>1, <2>2, <2>3, <2>4 DEF Core, TypeOK
<1>. QED BY <1>4, <1>5, <1>6, <1>7, <1>8

LEMMA TickKept ==
    ASSUME Core, Tick
    PROVE  Kept
<1>0. /\ w \in TimerState /\ Chains(w) /\ tick \in Ticks /\ tick' = (tick + 1) % TickMod
      /\ isr' = [at |-> "check", t |-> None] /\ UNCHANGED <<app, inuse, arg, reg>>
  BY DEF Core, TypeOK, Tick
<1>1. /\ w' \in TimerState /\ w'.rows = w.rows /\ w'.order = w.order /\ w'.timer = w.timer
      /\ \A t \in Timers : On(w, t) \/ Placed(t) =>
            w'.due[t] = w.due[t] - 1 /\ w'.due[t] >= 0 - MaxLag
      /\ Waking(pc') /\ isr.t = None
      /\ walk'.n = walk.n /\ walk'.t = walk.t /\ walk'.ret = walk.ret /\ walk'.now = walk.now
      /\ TypeOK'
  BY TickIs
<1>2. \A x : (On(w', x) <=> On(w, x)) /\ (On(w, x)' <=> On(w, x)) /\ (Act(w', x) <=> Act(w, x))
             /\ (Act(w, x)' <=> Act(w, x))
  BY <1>1 DEF On, Act
<1>3. Chains(w')
  <2>1. PICK r : r = w' /\ r.rows = w.rows /\ r.order = w.order /\ \A x : On(r, x) <=> On(w, x)
    BY <1>1, <1>2
  <2>2. Chains(r)
    BY ONLY <1>0, <2>1 DEF Chains
  <2>. QED BY <2>1, <2>2
<1>4. \A x : (Placed(x)' <=> Placed(x)) /\ (Clearing(x)' <=> Clearing(x))
  BY <1>0, <1>1 DEF Placed, Clearing, Waking
<1>5. Core'
  <2>1. PICK t : t = None
    OBVIOUS
  <2>2. t \notin Timers /\ Seen(t) /\ IsrPlace' /\ isr'.t = None
    BY <1>0, <1>1, <1>2, <1>3, <2>1, Processors DEF Seen, IsrPlace
  <2>3. \A q \in Processes, x \in Timers : Starting(q, x) => isr'.t # x
    BY <2>2, Processors
  <2>. QED BY <1>0, <1>1, <1>2, <2>2, <2>3, AtOnceKeeps
<1>6. ASSUME Clock
      PROVE  Clock'
  <2>1. ASSUME NEW x \in Timers, On(w, x) \/ Placed(x)
        PROVE  Timely(w, x)'
    <3>1. Timely(w, x)
      BY <1>6, <2>1 DEF Clock
    <3>2. w'.due[x] = w.due[x] - 1 /\ w'.due[x] >= 0 - MaxLag
      BY <1>1, <2>1
    <3>3. /\ w'.timer[x].timeout = (tick' + w'.due[x]) % TickMod
          /\ 0 - MaxLag <= w'.due[x] /\ w'.due[x] + MaxLag < Half
      BY <1>0, <1>1, <3>1, <3>2, TickTime
    <3>. QED BY <3>3 DEF Timely
  <2>2. Sorted(w)'
    <3>. SUFFICES ASSUME NEW l \in Lists, NEW i \in Rows, NEW x \in Timers, NEW y \in Timers,
                         Ahead(w.rows[l][i], x, y)
                  PROVE  \/ w'.due[x] < w'.due[y]
                         \/ w'.due[x] = w'.due[y] /\ Ahead(w.order, x, y)
      BY <1>1 DEF Sorted
    <3>1. x \in ToSet(w.rows[l][i]) /\ y \in ToSet(w.rows[l][i])
      <4>1. w.rows[l][i] \in Seq(Timers)
        BY <1>0, StateTypes
      <4>. QED BY <4>1, ToSetDef DEF Ahead
    <3>2. On(w, x) /\ On(w, y)
      BY <1>0, <3>1, InRow
    <3>3. w'.due[x] = w.due[x] - 1 /\ w'.due[y] = w.due[y] - 1
      BY <1>1, <3>2
    <3>4. w.due[x] \in Int /\ w.due[y] \in Int
      BY <1>0, StateTypes
    <3>5. w.due[x] < w.due[y] \/ (w.due[x] = w.due[y] /\ Ahead(w.order, x, y))
      BY <1>6 DEF Clock, Sorted
    <3>. QED BY <3>3, <3>4, <3>5
  <2>3. \A x \in Timers : w'.timer[x].init + MaxLag < Half
    BY <1>1, <1>6 DEF Clock
  <2>. QED BY <1>2, <1>4, <2>1, <2>2, <2>3 DEF Clock
<1>7. Active => Active'
  BY <1>0, <1>1, <1>2, <1>4, Processors DEF Active
<1>8. ASSUME WalkInv, walk.n # None
      PROVE  WalkInv'
  <2>1. On(w, walk.n) /\ walk.n # walk.t /\ walk.n # arg[TT] /\ walk.n \in Timers
    BY <1>8, Processors DEF WalkInv, Core, PlaceInv, ThreadPlace
  <2>2. ASSUME Walking'
        PROVE  \E d \in Nat : tick' = (walk'.now + d) % TickMod /\ w'.due[walk.n] + d < Half
    <3>1. Walking
      BY <1>1, <2>2, Processors DEF Walking, Waking, InCall
    <3>2. PICK d \in Nat : tick = (walk.now + d) % TickMod /\ w.due[walk.n] + d < Half
      BY <1>8, <3>1 DEF WalkInv
    <3>3. PICK e \in Nat : e = d + 1
      OBVIOUS
    <3>4. walk.now \in Int
      BY DEF Core, TypeOK, Ticks
    <3>5. PICK c \in Int : c = walk.now + d
      BY <3>4
    <3>6. ((c % TickMod) + 1) % TickMod = (c + 1) % TickMod
      <4>1. PICK o \in Int : o = 1
        OBVIOUS
      <4>2. ((c % TickMod) + o) % TickMod = (c + o) % TickMod
        BY HalfIs, ModAdd
      <4>. QED BY <4>1, <4>2, Zenon
    <3>7. c + 1 = walk.now + e /\ walk'.now = walk.now /\ tick = c % TickMod
      BY <1>1, <3>2, <3>3, <3>4, <3>5
    <3>8. tick' = (walk'.now + e) % TickMod
      BY <1>0, <3>6, <3>7, Zenon
    <3>9. w'.due[walk.n] + e < Half
      BY <1>0, <1>1, <2>1, <3>2, <3>3, StateTypes, HalfIs, SMTT(30)
    <3>. QED BY <3>8, <3>9
  <2>. QED BY <1>0, <1>1, <1>2, <2>1, <2>2 DEF WalkInv
<1>9. walk.n = None => WalkInv'
  BY <1>1 DEF WalkInv
<1>. QED BY <1>5, <1>6, <1>7, <1>8, <1>9 DEF Kept

-----------------------------------------------------------------------------
(* The timer thread.                                                       *)

WalkTypes == [next : Ticks, nap : Ticks, now : Ticks, n : Timers \union {None},
              t : Timers \union {None}, locked : BOOLEAN, ret : {"after", "walk"}]

\* A step of the timer thread outside of calls disturbs no call.
LEMMA ThreadOthers ==
    ASSUME Core, pc[TT] \in InThread, NEW place, place \in InThread,
           pc' = [pc EXCEPT ![TT] = place], arg' = [arg EXCEPT ![TT] = None]
    PROVE  /\ \A x \in Timers : (Placed(x)' => Placed(x)) /\ (Clearing(x) => Clearing(x)')
           /\ pc' \in [Processes -> Places] /\ arg' \in [Processes -> Timers \union {None}]
           /\ pc'[TT] = place /\ arg'[TT] = None
<1>1. /\ pc \in [Processes -> Places] /\ arg \in [Processes -> Timers \union {None}]
      /\ TT \in Processes /\ None \notin Timers
  BY Processors DEF Core, TypeOK
<1>2. place \notin {"start_insert", "stop_clear"} /\ place \in Places
      /\ pc[TT] \notin {"start_insert", "stop_clear"}
  BY DEF InThread, Places
<1>3. ASSUME NEW x \in Timers, NEW q \in Processes
      PROVE  /\ arg'[q] = x /\ pc'[q] = "start_insert" => arg[q] = x /\ pc[q] = "start_insert"
             /\ arg[q] = x /\ pc[q] = "stop_clear" => arg'[q] = x /\ pc'[q] = "stop_clear"
  BY <1>1, <1>2
<1>. QED BY <1>1, <1>2, <1>3 DEF Placed, Clearing

LEMMA OwnKept ==
    ASSUME Core, NEW place, pc[TT] \in InThread \ {"callback", "after"},
           place \in InThread \ {"callback", "after"}, Goto(TT, place, None),
           UNCHANGED <<tick, isr, app, inuse, w, reg>>, walk' \in WalkTypes, walk'.t = walk.t,
           walk'.n \in SoftTimers \union {None}, walk'.n # None => place = "walk",
           LagBounded /\ Clock => WalkInv'
    PROVE  Kept
<1>1. pc' = [pc EXCEPT ![TT] = place] /\ arg' = [arg EXCEPT ![TT] = None]
  BY DEF Goto
<1>2. /\ \A x \in Timers : (Placed(x)' => Placed(x)) /\ (Clearing(x) => Clearing(x)')
      /\ pc' \in [Processes -> Places] /\ arg' \in [Processes -> Timers \union {None}]
      /\ pc'[TT] = place /\ arg'[TT] = None
  BY <1>1, ThreadOthers
<1>3. walk.t = None /\ walk'.t = None
  BY DEF Core, PlaceInv, ThreadPlace, InCall, InThread
<1>4. TypeOK'
  BY <1>2 DEF Core, TypeOK, WalkTypes
<1>5. ThreadPlace'
  BY <1>2, <1>3 DEF ThreadPlace, InCall, InThread
<1>6. Core'
  <2>1. PICK t : t = None
    OBVIOUS
  <2>2. Seen(t) /\ (On(w', t) <=> On(w, t)) /\ (Act(w', t) <=> Act(w, t))
    BY SameTouch, TouchSeen DEF Core, TypeOK
  <2>3. place \notin {"start_tick", "start_insert"}
    BY DEF InThread
  <2>. QED BY <1>1, <1>4, <1>5, <2>2, <2>3, ThreadKeeps
<1>7. Clock => Clock'
  BY <1>2, ClockSame
<1>8. Active => Active'
  BY <1>2, <1>3, ActiveSame DEF Active
<1>. QED BY <1>6, <1>7, <1>8 DEF Kept

\* The node after a linked one is linked, and another one.
LEMMA NodeAfterIs ==
    ASSUME Core, NEW t \in SoftTimers
    PROVE  /\ NodeAfter(t) \in SoftTimers \union {None}
           /\ On(w, t) /\ NodeAfter(t) # None => On(w, NodeAfter(t)) /\ NodeAfter(t) # t
<1>1. w \in TimerState /\ Chains(w) /\ t \in Timers
  BY Processors DEF Core, TypeOK
<1>2. PICK s, l : l = "soft" /\ s = Bottom(l)
  OBVIOUS
<1>3. s \in Seq(Timers) /\ s = w.rows[l][LastRow] /\ l \in Lists /\ LastRow \in Rows
      /\ IsInjective(s)
  BY <1>1, <1>2, StateTypes, RowTypes DEF Bottom, Lists, Chains
<1>4. Linked(t) <=> t \in ToSet(s)
  BY <1>2 DEF Linked, ListOf
<1>5. CASE ~ Linked(t)
  BY <1>5, LinkedIs DEF NodeAfter
<1>6. CASE Linked(t) /\ t = s[Len(s)]
  BY <1>2, <1>6 DEF NodeAfter
<1>7. CASE Linked(t) /\ t # s[Len(s)]
  <2>1. PICK k : k = Position(s, t)
    OBVIOUS
  <2>2. k \in 1 .. Len(s) /\ s[k] = t /\ Len(s) \in Nat
    BY <1>3, <1>4, <1>7, <2>1, PositionIs
  <2>3. k + 1 \in 1 .. Len(s)
    BY <1>7, <2>2
  <2>4. PICK m \in 1 .. Len(s) : m = k + 1
    BY <2>3
  <2>5. NodeAfter(t) = s[m]
    BY <1>2, <1>7, <2>1, <2>4 DEF NodeAfter
  <2>6. s[m] \in ToSet(s) /\ s[m] # t
    <3>1. s[m] \in ToSet(s)
      BY <1>3, <2>4, ToSetDef
    <3>2. m # k /\ m \in DOMAIN s /\ k \in DOMAIN s
      BY <1>3, <2>2, <2>4
    <3>. QED BY <1>3, <2>2, <3>1, <3>2 DEF IsInjective
  <2>7. On(w, s[m]) /\ ListOf(s[m]) = l
    BY <1>1, <1>3, <2>6, InRow
  <2>8. s[m] \in SoftTimers
    BY <1>2, <2>7 DEF ListOf
  <2>. QED BY <2>5, <2>6, <2>7, <2>8
<1>. QED BY <1>5, <1>6, <1>7

\* A walk that has just read the tick compares with the real time.
LEMMA NowIs ==
    ASSUME Core, LagBounded, Clock, NEW x \in Timers, On(w, x)
    PROVE  \E d \in Nat : tick = (tick + d) % TickMod /\ w.due[x] + d < Half
<1>1. PICK d, a \in Int : d = 0 /\ a = w.due[x]
  BY StateTypes DEF Core, TypeOK
<1>2. a + MaxLag < Half
  BY <1>1 DEF Clock, Timely
<1>3. tick \in 0 .. TickMod - 1 /\ tick \in Int
  BY DEF Core, TypeOK, Ticks, RT_TICK_MAX
<1>4. tick % TickMod = tick
  BY <1>3, HalfIs, ModShort
<1>5. tick + d = tick
  BY <1>1, <1>3
<1>6. d \in Nat /\ a + d < Half
  BY <1>1, <1>2, HalfIs
<1>. QED BY <1>1, <1>4, <1>5, <1>6, Zenon

LEMMA ThreadNextKept ==
    ASSUME Core, ThreadNext
    PROVE  Kept
<1>0. /\ pc[TT] = "next" /\ UNCHANGED <<tick, isr, app, inuse, w, reg>>
      /\ walk' = [walk EXCEPT !.next = rt_timer_list_next_timeout("soft")]
  BY DEF ThreadNext, At
<1>1. PICK place : place \in {"suspend", "delay"} /\ Goto(TT, place, None)
  BY DEF ThreadNext
<1>2. walk \in WalkTypes /\ walk.n = None
  BY <1>0 DEF Core, TypeOK, WalkTypes, PlaceInv, ThreadPlace, InCall
<1>3. rt_timer_list_next_timeout("soft") \in Ticks
  <2>1. CASE Bottom("soft") = <<>>
    BY <2>1, HalfIs DEF rt_timer_list_next_timeout, Ticks, RT_TICK_MAX
  <2>2. CASE Bottom("soft") # <<>>
    <3>1. PICK t, l : l = "soft" /\ t = Head(Bottom(l))
      OBVIOUS
    <3>2. t \in Timers
      BY <2>2, <3>1, HeadIs DEF Lists
    <3>3. w.timer[t] \in Cell
      BY <3>2, CellOf DEF Core, TypeOK
    <3>. QED BY <2>2, <3>1, <3>3 DEF rt_timer_list_next_timeout, Cell
  <2>. QED BY <2>1, <2>2
<1>4. walk' \in WalkTypes /\ walk'.t = walk.t /\ walk'.n = None
  BY <1>0, <1>2, <1>3 DEF WalkTypes
<1>5. WalkInv'
  BY <1>4 DEF WalkInv
<1>. QED BY <1>0, <1>1, <1>4, <1>5, OwnKept DEF InThread

LEMMA ThreadSuspendKept ==
    ASSUME Core, ThreadSuspend
    PROVE  Kept
<1>0. /\ pc[TT] = "suspend" /\ UNCHANGED <<tick, isr, app, inuse, w, reg>>
      /\ walk' = [walk EXCEPT !.next = 0]
  BY DEF ThreadSuspend, At
<1>1. PICK place : place = "suspended" /\ Goto(TT, place, None)
  BY DEF ThreadSuspend
<1>2. walk \in WalkTypes /\ walk.n = None /\ 0 \in Ticks
  BY <1>0, HalfIs DEF Core, TypeOK, WalkTypes, PlaceInv, ThreadPlace, InCall, Ticks, RT_TICK_MAX
<1>3. walk' \in WalkTypes /\ walk'.t = walk.t /\ walk'.n = None
  BY <1>0, <1>2 DEF WalkTypes
<1>4. WalkInv'
  BY <1>3 DEF WalkInv
<1>. QED BY <1>0, <1>1, <1>3, <1>4, OwnKept DEF InThread

LEMMA ThreadDelayKept ==
    ASSUME Core, ThreadDelay
    PROVE  Kept
<1>1. PICK d : d = Sub(walk.next, tick)
  OBVIOUS
<1>0. /\ pc[TT] = "delay" /\ UNCHANGED <<tick, isr, app, inuse, w, reg>>
      /\ walk' = [walk EXCEPT !.next = 0, !.nap = d] \/ walk' = [walk EXCEPT !.next = 0]
  BY <1>1 DEF ThreadDelay, At
<1>2. PICK place : place \in {"delayed", "check"} /\ Goto(TT, place, None)
  BY DEF ThreadDelay
<1>3. walk \in WalkTypes /\ walk.n = None /\ 0 \in Ticks
  BY <1>0, HalfIs DEF Core, TypeOK, WalkTypes, PlaceInv, ThreadPlace, InCall, Ticks, RT_TICK_MAX
<1>4. d \in Ticks
  <2>1. PICK a \in Int : a = walk.next - tick
    BY <1>3 DEF Core, TypeOK, WalkTypes, Ticks
  <2>2. a % TickMod \in 0 .. TickMod - 1
    BY HalfIs, ModDiv
  <2>. QED BY <1>1, <2>1, <2>2 DEF Sub, Ticks, RT_TICK_MAX
<1>5. walk' \in WalkTypes /\ walk'.t = walk.t /\ walk'.n = None
  BY <1>0, <1>3, <1>4 DEF WalkTypes
<1>6. WalkInv'
  BY <1>5 DEF WalkInv
<1>. QED BY <1>0, <1>2, <1>5, <1>6, OwnKept DEF InThread

LEMMA CheckEnterKept ==
    ASSUME Core, CheckEnter
    PROVE  Kept
<1>1. PICK n, l : l = "soft" /\ n = (IF Bottom(l) = <<>> THEN None ELSE Head(Bottom(l)))
  OBVIOUS
<1>0. /\ pc[TT] = "check" /\ UNCHANGED <<tick, isr, app, inuse, w, reg>>
      /\ walk' = [walk EXCEPT !.now = tick, !.locked = TRUE, !.n = n]
  BY <1>1 DEF CheckEnter, At
<1>2. PICK place : place = "walk" /\ Goto(TT, place, None)
  BY DEF CheckEnter
<1>3. walk \in WalkTypes /\ walk.t = None /\ tick \in Ticks
  BY <1>0 DEF Core, TypeOK, WalkTypes, PlaceInv, ThreadPlace, InCall
<1>4. n # None => n \in SoftTimers /\ n \in Timers /\ On(w, n)
  <2>1. n # None => n \in Timers /\ On(w, n) /\ ListOf(n) = l
    BY <1>1, HeadIs DEF Lists
  <2>. QED BY <1>1, <2>1 DEF ListOf
<1>5. /\ walk' \in WalkTypes /\ walk'.t = walk.t /\ walk'.n = n /\ walk'.now = tick
  BY <1>0, <1>3, <1>4 DEF WalkTypes
<1>6. ASSUME LagBounded, Clock, n # None
      PROVE  WalkInv'
  <2>1. \E d \in Nat : tick = (tick + d) % TickMod /\ w.due[n] + d < Half
    BY <1>4, <1>6, NowIs
  <2>2. arg'[TT] = None
    BY <1>2, Processors DEF Goto, Core, TypeOK
  <2>3. On(w, n)' <=> On(w, n)
    BY <1>0 DEF On
  <2>. QED BY <1>0, <1>3, <1>4, <1>5, <1>6, <2>1, <2>2, <2>3 DEF WalkInv
<1>7. n = None => WalkInv'
  BY <1>5 DEF WalkInv
<1>. QED BY <1>0, <1>2, <1>4, <1>5, <1>6, <1>7, OwnKept DEF InThread

LEMMA WalkLeaveKept ==
    ASSUME Core, WalkLeave
    PROVE  Kept
<1>0. /\ pc[TT] = "walk" /\ UNCHANGED <<tick, isr, app, inuse, w, reg>>
      /\ walk' = [walk EXCEPT !.n = None, !.now = 0, !.locked = FALSE]
  BY DEF WalkLeave, At
<1>1. PICK place : place = "next" /\ Goto(TT, place, None)
  BY DEF WalkLeave
<1>2. walk \in WalkTypes /\ 0 \in Ticks
  BY HalfIs DEF Core, TypeOK, WalkTypes, Ticks, RT_TICK_MAX
<1>3. walk' \in WalkTypes /\ walk'.t = walk.t /\ walk'.n = None
  BY <1>0, <1>2 DEF WalkTypes
<1>4. WalkInv'
  BY <1>3 DEF WalkInv
<1>. QED BY <1>0, <1>1, <1>3, <1>4, OwnKept DEF InThread

LEMMA WalkFireKept ==
    ASSUME Core, WalkFire
    PROVE  Kept
<1>1. PICK t, n, known, place : /\ t = walk.n /\ n = NodeAfter(t) /\ known = (n = t)
                                /\ place = "callback"
  OBVIOUS
<1>0. /\ pc[TT] = "walk" /\ t # None /\ UNCHANGED <<tick, isr, app, inuse, reg>>
      /\ w' = Unlink(w, t, known) /\ Goto(TT, place, None)
      /\ walk' = [walk EXCEPT !.n = n, !.t = t, !.now = 0, !.locked = FALSE]
  BY <1>1 DEF WalkFire, At
<1>2. /\ w \in TimerState /\ Chains(w) /\ t \in SoftTimers /\ t \in Timers /\ walk.t = None
      /\ walk \in WalkTypes /\ 0 \in Ticks /\ SoftTimers \subseteq Timers /\ None \notin Timers
  BY <1>0, <1>1, HalfIs, Processors DEF Core, TypeOK, WalkTypes, PlaceInv, ThreadPlace, InCall,
                                        Ticks, RT_TICK_MAX
<1>3. n \in SoftTimers \union {None} /\ (On(w, t) /\ n # None => On(w, n) /\ n # t)
  BY <1>1, <1>2, NodeAfterIs
<1>4. /\ Off(w, w', t) /\ w'.timer[t].flag = w.timer[t].flag /\ w'.timer[t].init = w.timer[t].init
      /\ Placed(t) => w'.timer[t] = w.timer[t] /\ w'.due[t] = w.due[t]
  BY <1>0, <1>2, UnlinkIs
<1>5. Touch(t) /\ ~ On(w', t) /\ (Act(w', t) <=> Act(w, t))
  BY <1>2, <1>4, OffTouch DEF Act
<1>6. walk' \in WalkTypes /\ walk'.t = t /\ walk'.n = n
  BY <1>0, <1>2, <1>3 DEF WalkTypes
<1>7. /\ pc' = [pc EXCEPT ![TT] = place] /\ arg' = [arg EXCEPT ![TT] = None]
      /\ pc[TT] \in InThread /\ place \in InThread
  BY <1>0, <1>1 DEF Goto, InThread
<1>8. /\ \A x \in Timers : (Placed(x)' => Placed(x)) /\ (Clearing(x) => Clearing(x)')
      /\ pc' \in [Processes -> Places] /\ arg' \in [Processes -> Timers \union {None}]
      /\ pc'[TT] = place /\ arg'[TT] = None
  BY <1>7, ThreadOthers
<1>9. TypeOK'
  BY <1>0, <1>5, <1>6, <1>8 DEF Core, TypeOK, WalkTypes, Touch
<1>10. ThreadPlace'
  BY <1>1, <1>2, <1>3, <1>6, <1>8 DEF ThreadPlace, InCall, InThread
<1>11. Core'
  <2>1. Seen(t) /\ place \notin {"start_tick", "start_insert"}
    BY <1>1, <1>5, TouchSeen
  <2>. QED BY <1>0, <1>5, <1>7, <1>9, <1>10, <2>1, ThreadKeeps
<1>12. ASSUME LagBounded, Clock
       PROVE  Clock'
  <2>1. Sorted(w')
    BY <1>2, <1>4, <1>12, OffSorted DEF Clock
  <2>2. w'.timer[t].init + MaxLag < Half
    BY <1>2, <1>4, <1>12 DEF Clock
  <2>3. Placed(t) => Timely(w', t)
    BY <1>2, <1>4, <1>12, TimelySame DEF Clock
  <2>. QED BY <1>0, <1>2, <1>5, <1>8, <1>12, <2>1, <2>2, <2>3, ClockKeeps
<1>13. ASSUME Active
       PROVE  Active'
  <2>1. \A q \in Processes : "ACTIVATED" \notin reg'[q]
    BY <1>0, <1>13 DEF Active
  <2>2. \A x \in Timers \ {t} : (walk.t = x => walk'.t = x) /\ (isr.t = x => isr'.t = x)
    BY <1>0, <1>2
  <2>. QED BY <1>2, <1>5, <1>6, <1>8, <1>13, <2>1, <2>2, ActiveKeeps
<1>14. ASSUME WalkInv
       PROVE  WalkInv'
  <2>1. On(w, t)
    BY <1>0, <1>1, <1>14 DEF WalkInv
  <2>2. n # None => On(w', n) /\ n # t
    BY <1>2, <1>3, <1>4, <2>1 DEF Off
  <2>3. On(w, n)' <=> On(w', n)
    BY DEF On
  <2>4. ~ Walking'
    BY <1>1, <1>8 DEF Walking, InCall
  <2>5. n # arg'[TT] \/ n = None
    BY <1>8
  <2>. QED BY <1>6, <2>2, <2>3, <2>4, <2>5 DEF WalkInv
<1>. QED BY <1>11, <1>12, <1>13, <1>14 DEF Kept

\* The timeout function of a soft timer, in the timer thread.
LEMMA CallbackKept ==
    ASSUME Core, Callback
    PROVE  Kept
<1>0. /\ Runs(TT) /\ pc[TT] = "callback" /\ UNCHANGED <<tick, isr, app, inuse, reg>>
      /\ walk' = [walk EXCEPT !.ret = "after"]
  BY DEF Callback, At
<1>1. /\ w \in TimerState /\ Chains(w) /\ walk \in WalkTypes /\ inuse \subseteq Timers
      /\ walk.t \in SoftTimers /\ walk.n \in SoftTimers \union {None} /\ arg[TT] = None
      /\ isr.t = None /\ SoftTimers \subseteq Timers /\ TT \in Processes /\ TT \notin Callers
      /\ None \notin Timers
  BY <1>0, IsrTypes, Processors DEF Core, TypeOK, WalkTypes, PlaceInv, ThreadPlace, IsrPlace,
                                    InThread, Runs
<1>2. walk' \in WalkTypes /\ walk'.t = walk.t /\ walk'.n = walk.n /\ walk'.ret = "after"
  BY <1>0, <1>1 DEF WalkTypes
<1>3. pc \in [Processes -> Places] /\ arg \in [Processes -> Timers \union {None}]
  BY DEF Core, TypeOK
<1>4. CASE Goto(TT, "after", None) /\ UNCHANGED w
  <2>1. PICK place, t : place = "after" /\ t = None
    OBVIOUS
  <2>2. /\ pc' = [pc EXCEPT ![TT] = place] /\ arg' = [arg EXCEPT ![TT] = None]
        /\ pc[TT] \in InThread /\ place \in InThread
    BY <1>0, <1>4, <2>1 DEF Goto, InThread
  <2>3. /\ \A x \in Timers : (Placed(x)' => Placed(x)) /\ (Clearing(x) => Clearing(x)')
        /\ pc' \in [Processes -> Places] /\ arg' \in [Processes -> Timers \union {None}]
        /\ pc'[TT] = place /\ arg'[TT] = None
    BY <2>2, ThreadOthers
  <2>4. TypeOK'
    BY <1>0, <1>2, <1>4, <2>3 DEF Core, TypeOK, WalkTypes
  <2>5. ThreadPlace'
    BY <1>1, <1>2, <2>1, <2>3 DEF ThreadPlace, InCall, InThread
  <2>6. /\ Seen(t) /\ place \notin {"start_tick", "start_insert"}
        /\ (On(w', t) <=> On(w, t)) /\ (Act(w', t) <=> Act(w, t))
    BY <1>1, <1>4, <2>1, SameTouch, TouchSeen
  <2>7. Core'
    BY <1>0, <2>2, <2>4, <2>5, <2>6, ThreadKeeps
  <2>8. Clock => Clock'
    BY <1>0, <1>4, <2>3, ClockSame
  <2>9. Active => Active'
    BY <1>0, <1>2, <1>4, <2>3, ActiveSame DEF Active
  <2>10. WalkInv => WalkInv'
    <3>1. ~ Walking'
      BY <2>1, <2>3 DEF Walking, InCall
    <3>. QED BY <1>0, <1>2, <1>4, <2>3, <3>1, WalkKeeps DEF WalkInv
  <2>. QED BY <2>7, <2>8, <2>9, <2>10 DEF Kept
<1>5. ASSUME NEW u \in Called(walk.t), StartRemove(TT, u) \/ StopTest(TT, u)
      PROVE  Kept
  <2>1. u \in inuse /\ <<walk.t, u>> \in Reach /\ Untouched(u) /\ u \in Timers
    BY <1>1 DEF Called
  <2>2. (\A q \in Processes : ~ Starting(q, u)) /\ ~ Placed(u)
    BY <2>1 DEF Untouched, Starting, Placed
  <2>3. PICK place : /\ place \in {"start_tick", "stop_remove"}
                     /\ pc' = [pc EXCEPT ![TT] = place] /\ arg' = [arg EXCEPT ![TT] = u]
                     /\ place = "start_tick" => w' = Deactivate(_rt_timer_remove(w, u), u)
                     /\ place # "start_tick" => w' = w
    BY <1>5 DEF StartRemove, StopTest, Goto
  <2>4. pc'[TT] = place /\ arg'[TT] = u
    BY <1>1, <1>3, <2>3
  <2>5. /\ Touch(u) /\ w'.timer[u].init = w.timer[u].init /\ (Sorted(w) => Sorted(w'))
        /\ On(w', u) => On(w, u)
        /\ Act(w', u) => Act(w, u)
        /\ place = "start_tick" => ~ On(w', u) /\ ~ Act(w', u)
    <3>1. CASE place = "start_tick"
      <4>1. Off(w, w', u) /\ ~ Act(w', u) /\ w'.timer[u].init = w.timer[u].init
        BY <1>1, <2>1, <2>3, <3>1, RemoveIs
      <4>2. Touch(u) /\ ~ On(w', u) /\ (Sorted(w) => Sorted(w'))
        BY <1>1, <2>1, <4>1, OffTouch, OffSorted
      <4>. QED BY <4>1, <4>2
    <3>2. CASE place # "start_tick"
      BY <1>1, <2>3, <3>2, SameTouch
    <3>. QED BY <3>1, <3>2
  <2>6. TypeOK'
    <3>1. pc' \in [Processes -> Places] /\ arg' \in [Processes -> Timers \union {None}]
      BY <1>3, <2>1, <2>3 DEF Places
    <3>. QED BY <1>0, <1>2, <2>5, <3>1 DEF Core, TypeOK, WalkTypes, Touch
  <2>7. ThreadPlace'
    BY <1>1, <1>2, <2>1, <2>3, <2>4 DEF ThreadPlace, InCall, InThread
  <2>8. Active => \A q \in Processes : "ACTIVATED" \notin reg'[q]
    BY <1>0 DEF Active
  <2>9. ASSUME SoftAlone, WalkInv
        PROVE  WalkInv'
    <3>1. walk.n # None => walk.n # u
      BY <1>1, <2>1, <2>9 DEF SoftAlone, WalkInv
    <3>2. ~ Walking'
      BY <1>2, <2>3, <2>4 DEF Walking
    <3>. QED BY <1>0, <1>2, <2>4, <2>5, <2>9, <3>1, <3>2, TouchWalk, WalkKeeps
  <2>. QED BY <1>0, <1>1, <1>2, <2>1, <2>2, <2>3, <2>5, <2>6, <2>7, <2>8, <2>9, BeginKept
<1>. QED BY <1>4, <1>5 DEF Callback

\* A soft timer after its timeout function: it starts again, or is inactive.
LEMMA CallbackDoneKept ==
    ASSUME Core, CallbackDone
    PROVE  Kept
<1>0. /\ Runs(TT) /\ pc[TT] = "after" /\ UNCHANGED <<tick, isr, app, inuse, reg>>
      /\ walk' = [walk EXCEPT !.now = tick, !.t = None, !.locked = TRUE, !.ret = "walk"]
  BY DEF CallbackDone, At
<1>1. PICK t : t = walk.t
  OBVIOUS
<1>2. /\ w \in TimerState /\ Chains(w) /\ walk \in WalkTypes /\ tick \in Ticks
      /\ t \in SoftTimers /\ t \in Timers /\ walk.n \in SoftTimers \union {None} /\ arg[TT] = None
      /\ isr.t = None /\ SoftTimers \subseteq Timers /\ TT \in Processes /\ TT \notin Callers
      /\ None \notin Timers
  BY <1>0, <1>1, IsrTypes, Processors DEF Core, TypeOK, WalkTypes, PlaceInv, ThreadPlace,
                                          IsrPlace, InThread, Runs
<1>3. /\ walk' \in WalkTypes /\ walk'.t = None /\ walk'.n = walk.n /\ walk'.ret = "walk"
      /\ walk'.now = tick
  BY <1>0, <1>2 DEF WalkTypes
<1>4. pc \in [Processes -> Places] /\ arg \in [Processes -> Timers \union {None}]
  BY DEF Core, TypeOK
\* The rest of the walk, when nothing but t has changed.
<1>5. ASSUME LagBounded, Clock, WalkInv, Touch(t), arg'[TT] \in {t, None}
      PROVE  WalkInv'
  <2>1. CASE walk.n = None
    BY <1>3, <2>1 DEF WalkInv
  <2>2. CASE walk.n # None
    <3>1. On(w, walk.n) /\ walk.n # t /\ walk.n \in Timers
      BY <1>1, <1>2, <1>5, <2>2 DEF WalkInv
    <3>2. On(w', walk.n) /\ w'.due[walk.n] = w.due[walk.n]
      BY <1>5, <2>2, <3>1, TouchWalk
    <3>3. \E d \in Nat : tick = (tick + d) % TickMod /\ w.due[walk.n] + d < Half
      BY <1>5, <3>1, NowIs
    <3>4. On(w, walk.n)' <=> On(w', walk.n)
      BY <1>3 DEF On
    <3>. QED BY <1>0, <1>3, <1>5, <2>2, <3>1, <3>2, <3>3, <3>4 DEF WalkInv
  <2>. QED BY <2>1, <2>2
<1>6. CASE Again(walk.t)
  <2>1. w' = Deactivate(_rt_timer_remove(w, t), t) /\ Goto(TT, "start_tick", t)
    BY <1>1, <1>6 DEF CallbackDone, StartRemove
  <2>2. PICK place : /\ place = "start_tick" /\ pc' = [pc EXCEPT ![TT] = place]
                     /\ arg' = [arg EXCEPT ![TT] = t]
    BY <2>1 DEF Goto
  <2>3. pc'[TT] = place /\ arg'[TT] = t
    BY <1>2, <1>4, <2>2
  <2>4. Act(w, t) /\ t \in inuse
    BY <1>1, <1>2, <1>6 DEF Again, Act, Core, UseInv
  <2>5. \A q \in Processes : ~ Starting(q, t)
    <3>1. \A q \in Callers : ~ Starting(q, t)
      BY <1>2, <2>4 DEF Core, StartInv
    <3>2. ~ Starting(TT, t)
      BY <1>2 DEF Starting
    <3>. QED BY <3>1, <3>2, Processors
  <2>6. Off(w, w', t) /\ ~ Act(w', t) /\ w'.timer[t].init = w.timer[t].init
    BY <1>2, <2>1, RemoveIs
  <2>7. Touch(t) /\ ~ On(w', t) /\ (Sorted(w) => Sorted(w'))
    BY <1>2, <2>6, OffTouch, OffSorted
  <2>8. TypeOK'
    <3>1. pc' \in [Processes -> Places] /\ arg' \in [Processes -> Timers \union {None}]
      BY <1>2, <1>4, <2>2 DEF Places
    <3>. QED BY <1>0, <1>3, <2>7, <3>1 DEF Core, TypeOK, WalkTypes, Touch
  <2>9. ThreadPlace'
    BY <1>2, <1>3, <2>2, <2>3 DEF ThreadPlace, InCall, InThread
  <2>10. Active => \A q \in Processes : "ACTIVATED" \notin reg'[q]
    BY <1>0 DEF Active
  <2>. QED BY <1>0, <1>1, <1>2, <1>3, <1>5, <2>2, <2>3, <2>4, <2>5, <2>6, <2>7, <2>8, <2>9,
              <2>10, BeginKept
<1>7. CASE ~ Again(walk.t)
  <2>1. w' = Deactivate(w, t) /\ Goto(TT, "walk", None)
    BY <1>1, <1>7 DEF CallbackDone
  <2>2. PICK place : /\ place = "walk" /\ pc' = [pc EXCEPT ![TT] = place]
                     /\ arg' = [arg EXCEPT ![TT] = None]
    BY <2>1 DEF Goto
  <2>3. /\ \A x \in Timers : (Placed(x)' => Placed(x)) /\ (Clearing(x) => Clearing(x)')
        /\ pc' \in [Processes -> Places] /\ arg' \in [Processes -> Timers \union {None}]
        /\ pc'[TT] = place /\ arg'[TT] = None
    BY <1>0, <2>2, ThreadOthers DEF InThread
  <2>4. /\ Chg(w, w', t) /\ w'.due = w.due /\ ~ Act(w', t)
        /\ w'.timer[t].timeout = w.timer[t].timeout /\ w'.timer[t].init = w.timer[t].init
    BY <1>2, <2>1, DeactivateIs
  <2>5. Touch(t) /\ (On(w', t) <=> On(w, t))
    BY <1>2, <2>4, ChgTouch
  <2>6. TypeOK'
    BY <1>0, <1>3, <2>3, <2>5 DEF Core, TypeOK, WalkTypes, Touch
  <2>7. ThreadPlace'
    BY <1>2, <1>3, <2>2, <2>3 DEF ThreadPlace, InCall, InThread
  <2>8. Core'
    <3>1. Seen(t) /\ place \notin {"start_tick", "start_insert"}
      BY <2>2, <2>5, TouchSeen
    <3>. QED BY <1>0, <2>2, <2>4, <2>5, <2>6, <2>7, <3>1, ThreadKeeps
  <2>9. ASSUME Clock
        PROVE  Clock'
    <3>1. Sorted(w')
      BY <1>2, <2>4, <2>9, ChgSorted DEF Clock
    <3>2. w'.timer[t].init + MaxLag < Half
      BY <1>2, <2>4, <2>9 DEF Clock
    <3>3. On(w', t) \/ Placed(t)' => Timely(w', t)
      BY <1>2, <2>3, <2>4, <2>5, <2>9, TimelySame DEF Clock
    <3>. QED BY <1>0, <1>2, <2>3, <2>5, <2>9, <3>1, <3>2, <3>3, ClockKeeps
  <2>10. ASSUME Active
         PROVE  Active'
    <3>1. \A q \in Processes : "ACTIVATED" \notin reg'[q]
      BY <1>0, <2>10 DEF Active
    <3>2. \A x \in Timers \ {t} : (walk.t = x => walk'.t = x) /\ (isr.t = x => isr'.t = x)
      BY <1>0, <1>1
    <3>. QED BY <1>2, <2>3, <2>4, <2>5, <2>10, <3>1, <3>2, ActiveKeeps
  <2>. QED BY <1>5, <2>3, <2>5, <2>8, <2>9, <2>10 DEF Kept
<1>. QED BY <1>6, <1>7

-----------------------------------------------------------------------------
(* Every step.                                                             *)

LEMMA StutterKept ==
    ASSUME Core, UNCHANGED vars
    PROVE  Kept
<1>0. UNCHANGED <<tick, isr, app, inuse, w, pc, arg, reg, walk>>
  BY DEF vars
<1>1. Core'
  <2>1. PICK t : t = None
    OBVIOUS
  <2>2. t \notin Timers /\ Seen(t) /\ Waking(pc') /\ IsrPlace' /\ TypeOK'
    BY <1>0, <2>1, SameTouch, TouchSeen, WakingIs, Processors
       DEF Core, TypeOK, PlaceInv, IsrPlace
  <2>3. \A q \in Processes, x \in Timers : Starting(q, x) => isr'.t # x
    BY <1>0 DEF Core, StartInv
  <2>. QED BY <1>0, <2>2, <2>3, AtOnceKeeps
<1>2. \A x : (Placed(x)' <=> Placed(x)) /\ (Clearing(x)' <=> Clearing(x))
  BY <1>0 DEF Placed, Clearing
<1>3. Clock => Clock'
  BY <1>0, <1>2, ClockSame
<1>4. Active => Active'
  BY <1>0, <1>2, ActiveSame DEF Active
<1>5. WalkInv => WalkInv'
  <2>1. Walking' <=> Walking
    BY <1>0 DEF Walking
  <2>. QED BY <1>0, <2>1, WalkKeeps DEF WalkInv
<1>. QED BY <1>1, <1>3, <1>4, <1>5 DEF Kept

LEMMA StepKept ==
    ASSUME Core, [Next]_vars
    PROVE  Kept
<1>1. ASSUME NEW p \in Processes, CallSteps(p)
      PROVE  Kept
  BY <1>1, StartTickKept, StartInsertKept, StartResumeKept, StopRemoveKept, StopClearKept
     DEF CallSteps
<1>2. CASE Tick
  BY <1>2, TickKept
<1>3. CASE TickStep
  BY <1>3, FireKept, FireCallbackKept, FireDoneKept, CheckLeaveKept DEF TickStep
<1>4. CASE TimerThreadStep
  BY <1>1, <1>4, Processors, ThreadNextKept, ThreadSuspendKept, ThreadDelayKept, CheckEnterKept,
     WalkFireKept, WalkLeaveKept, CallbackKept, CallbackDoneKept DEF TimerThreadStep
<1>5. ASSUME NEW p \in Callers, CallerStep(p)
      PROVE  Kept
  <2>1. CASE CallSteps(p) \/ ModeWrite(p)
    BY <1>1, <2>1, ModeWriteKept, Processors
  <2>2. ASSUME NEW t \in Timers, \/ rt_timer_start(p, t) \/ rt_timer_stop(p, t)
                                 \/ ModeRead(p, t) \/ rt_timer_detach(p, t)
        PROVE  Kept
    BY <2>2, CallerStartKept, CallerStopKept, ModeReadKept, DetachKept
  <2>3. ASSUME NEW t \in Timers, NEW time \in InitTicks[t],
               \/ SetTime(p, t, time)
               \/ \E flag \in Modes[t] : _rt_timer_init(p, t, time, flag)
        PROVE  Kept
    BY <2>3, SetTimeKept, TimerInitKept
  <2>. QED BY <1>5, <2>1, <2>2, <2>3 DEF CallerStep
<1>6. CASE UNCHANGED vars
  BY <1>6, StutterKept
<1>. QED BY <1>2, <1>3, <1>4, <1>5, <1>6 DEF Next

\* The inductive invariant: the parts that need an assumption carry it.
IInv ==
    /\ Core
    /\ LagBounded => Clock
    /\ ModeChange = {} => Active
    /\ LagBounded /\ SoftAlone => WalkInv

LEMMA InitOK == Init => IInv
<1>. SUFFICES ASSUME Init PROVE IInv
  OBVIOUS
<1>1. /\ tick = 0 /\ isr = [at |-> "none", t |-> None] /\ app \in Uses /\ inuse = {}
      /\ w = [timer |-> [t \in Timers |-> Blank],
              rows  |-> [l \in Lists |-> [i \in Rows |-> <<>>]],
              due   |-> [t \in Timers |-> 0],
              order |-> <<>>]
      /\ pc = [p \in Processes |-> IF p = TT THEN "next" ELSE "run"]
      /\ arg = [p \in Processes |-> None]
      /\ reg = [p \in Processes |-> {}]
      /\ walk = [next |-> 0, nap |-> 0, now |-> 0, n |-> None, t |-> None,
                 locked |-> FALSE, ret |-> "walk"]
  BY DEF Init
<1>2. 0 \in Ticks /\ Blank \in Cell
  BY HalfIs DEF Blank, Cell, Ticks, Flags, RT_TICK_MAX
<1>3. /\ w \in TimerState /\ w.order = <<>> /\ \A l \in Lists, i \in Rows : w.rows[l][i] = <<>>
      /\ \A t \in Timers : w.timer[t] = Blank /\ w.due[t] = 0
  BY <1>1, <1>2 DEF TimerState, Cell
<1>4. ToSet(<<>>) = {} /\ IsInjective(<<>>)
  <2>1. PICK s : s = <<>>
    OBVIOUS
  <2>2. s \in Seq(Timers) /\ Len(s) = 0 /\ DOMAIN s = {}
    BY <2>1
  <2>3. ToSet(s) = {}
    BY <2>1, <2>2, ToSetDef
  <2>4. IsInjective(s)
    BY <2>2 DEF IsInjective
  <2>. QED BY <2>1, <2>3, <2>4
<1>5. \A x : ~ On(w, x)
  BY <1>3, <1>4, RowTypes DEF On
<1>6. Chains(w)
  BY <1>3, <1>4, <1>5 DEF Chains
<1>7. \A p \in Processes : arg[p] = None /\ reg[p] = {} /\ pc[p] = IF p = TT THEN "next" ELSE "run"
  BY <1>1
<1>8. TypeOK
  <2>1. pc \in [Processes -> Places] /\ arg \in [Processes -> Timers \union {None}]
        /\ reg \in [Processes -> Flags]
    BY <1>1 DEF Places, Flags
  <2>. QED BY <1>1, <1>2, <1>3, <2>1 DEF TypeOK
<1>9. PlaceInv
  <2>1. \A p \in Callers : CallerPlace(p)
    BY <1>7, Processors DEF CallerPlace
  <2>2. ThreadPlace
    BY <1>1, <1>7, Processors DEF ThreadPlace, InThread, InCall
  <2>3. IsrPlace
    BY <1>1 DEF IsrPlace
  <2>. QED BY <2>1, <2>2, <2>3 DEF PlaceInv
<1>10. \A p \in Processes, t \in Timers : ~ Starting(p, t)
  BY <1>7, Processors DEF Starting
<1>11. \A t \in Timers : ~ Placed(t) /\ ~ Act(w, t)
  BY <1>3, <1>7, Processors DEF Placed, Act, Blank
<1>12. StartInv /\ UseInv
  BY <1>5, <1>7, <1>10, <1>11, Processors DEF StartInv, UseInv
<1>13. LagBounded => Clock
  <2>1. Sorted(w)
    BY <1>3 DEF Sorted, Ahead
  <2>2. LagBounded => \A t \in Timers : w.timer[t].init + MaxLag < Half
    BY <1>3, HalfIs DEF LagBounded, Blank
  <2>. QED BY <1>5, <1>11, <2>1, <2>2 DEF Clock
<1>14. Active /\ WalkInv
  BY <1>1, <1>7, <1>11 DEF Active, WalkInv
<1>. QED BY <1>3, <1>6, <1>8, <1>9, <1>12, <1>13, <1>14 DEF IInv, Core

\* The inductive invariant holds: the lists agree with the places of the threads,
\* of the tick interrupt and of the walk.
THEOREM Invariance == Spec => []IInv
<1>1. Init => IInv
  BY InitOK
<1>2. IInv /\ [Next]_vars => IInv'
  <2>. SUFFICES ASSUME IInv, [Next]_vars PROVE IInv'
    OBVIOUS
  <2>1. Core
    BY DEF IInv
  <2>2. Kept
    BY <2>1, StepKept
  <2>. QED BY <2>2 DEF IInv, Kept
<1>. QED BY <1>1, <1>2, PTL DEF Spec

\* The control blocks keep their types, and the locals of the timer thread and of
\* the tick interrupt name timers: no tick leaves its width.
THEOREM TypeCorrect == Spec => []TypeOK
<1>1. IInv => TypeOK
  BY DEF IInv, Core
<1>. QED BY <1>1, Invariance, PTL

\* Every row of both lists stays sorted by the real time that is left, first in
\* first out among equals, and has only what the rows below have: across the
\* wrap-around of the tick counter and whatever comes between the parts of
\* rt_timer_start, as long as no time asked for and no lag reach half the range.
THEOREM RowsStaySorted ==
    ASSUME LagBounded
    PROVE  Spec => []RowsSorted
<1>1. IInv => RowsSorted
  <2>. SUFFICES ASSUME IInv, NEW l \in Lists, NEW i \in Rows
                PROVE  /\ \A m, n \in DOMAIN w.rows[l][i] :
                             m < n => Before(w.rows[l][i][m], w.rows[l][i][n])
                       /\ ToSet(w.rows[l][i]) \subseteq ToSet(Bottom(l))
    BY DEF RowsSorted
  <2>1. w \in TimerState /\ Chains(w) /\ Sorted(w)
    BY DEF IInv, Core, TypeOK, Clock
  <2>2. PICK s : s = w.rows[l][i]
    OBVIOUS
  <2>3. s \in Seq(Timers)
    BY <2>1, <2>2, StateTypes
  <2>4. ASSUME NEW m \in DOMAIN s, NEW n \in DOMAIN s, m < n
        PROVE  Before(s[m], s[n])
    <3>1. PICK x, y : x = s[m] /\ y = s[n]
      OBVIOUS
    <3>2. x \in Timers /\ y \in Timers /\ Ahead(s, x, y)
      BY <2>3, <2>4, <3>1 DEF Ahead
    <3>3. w.due[x] < w.due[y] \/ (w.due[x] = w.due[y] /\ Ahead(w.order, x, y))
      BY <2>1, <2>2, <3>2 DEF Sorted
    <3>4. w.order \in Seq(Timers) /\ IsInjective(w.order)
      BY <2>1, StateTypes DEF Chains
    <3>5. Ahead(w.order, x, y) => Position(w.order, x) < Position(w.order, y)
      BY <3>4, PositionAhead
    <3>. QED BY <3>1, <3>3, <3>5 DEF Before
  <2>5. ToSet(s) \subseteq ToSet(Bottom(l))
    BY <2>1, <2>2, RowTypes DEF Chains, Bottom
  <2>. QED BY <2>2, <2>4, <2>5
<1>. QED BY <1>1, Invariance, PTL

\* RT_TIMER_FLAG_ACTIVATED outside of a call means that the timer is on its list,
\* if no rt_timer_control changes the mode of an active timer.
THEOREM ActiveMeansLinked ==
    ASSUME ModeChange = {}
    PROVE  Spec => []ActiveIsLinked
<1>1. IInv => ActiveIsLinked
  <2>. SUFFICES ASSUME IInv, NEW t \in inuse, Untouched(t), walk.t # t, isr.t # t, Act(w, t)
                PROVE  Linked(t)
    BY DEF ActiveIsLinked, Act
  <2>1. t \in Timers
    BY IsrTypes DEF IInv
  <2>2. ~ Clearing(t)
    BY DEF Clearing, Untouched
  <2>. QED BY <2>1, <2>2, LinkedIs DEF IInv, Active
<1>. QED BY <1>1, Invariance, PTL

-----------------------------------------------------------------------------
(* Timers fire when their time is over.                                    *)

\* While the tick interrupt is in rt_timer_check nothing else takes a step.
LEMMA IsrMoves ==
    ASSUME Next, isr.at = "check"
    PROVE  Fire \/ CheckLeave
<1>1. \A p : ~ Runs(p)
  BY DEF Runs
<1>2. \A p : ~ CallSteps(p)
  BY <1>1 DEF CallSteps, StartTick, StartInsert, StartResume, StopRemove, StopClear, At
<1>3. ~ TimerThreadStep
  BY <1>1, <1>2 DEF TimerThreadStep, ThreadNext, ThreadSuspend, ThreadDelay, CheckEnter, WalkFire,
                    WalkLeave, Callback, CallbackDone, At
<1>4. \A p \in Callers : ~ CallerStep(p)
  BY <1>1, <1>2 DEF CallerStep, ModeWrite, rt_timer_start, rt_timer_stop, ModeRead,
                    rt_timer_detach, SetTime, _rt_timer_init, Free, At
<1>5. ~ Tick /\ ~ FireCallback /\ ~ FireDone
  BY DEF Tick, FireCallback, FireDone
<1>. QED BY <1>3, <1>4, <1>5 DEF Next, TickStep

\* Only the walk of rt_soft_timer_check begins to fire a soft timer.
LEMMA WalkMoves ==
    ASSUME Core, Next, walk.t = None, walk'.t # None
    PROVE  WalkFire
<1>1. walk \in WalkTypes
  BY DEF Core, TypeOK, WalkTypes
<1>2. walk' # walk
  OBVIOUS
<1>3. \A p : ~ CallSteps(p)
  BY <1>2 DEF CallSteps, StartTick, StartInsert, StartResume, StopRemove, StopClear
<1>4. \A p \in Callers : ~ CallerStep(p)
  BY <1>2, <1>3 DEF CallerStep, ModeWrite, rt_timer_start, rt_timer_stop, ModeRead,
                    rt_timer_detach, SetTime, _rt_timer_init
<1>5. ~ TickStep
  BY <1>2 DEF TickStep, Fire, FireCallback, FireDone, CheckLeave
<1>6. ~ Tick
  BY TickIs
<1>7. ~ ThreadNext /\ ~ ThreadSuspend /\ ~ ThreadDelay /\ ~ CheckEnter /\ ~ WalkLeave
  BY <1>1 DEF ThreadNext, ThreadSuspend, ThreadDelay, CheckEnter, WalkLeave, WalkTypes
<1>8. ~ Callback /\ ~ CallbackDone
  BY <1>1 DEF Callback, CallbackDone, WalkTypes
<1>. QED BY <1>3, <1>4, <1>5, <1>6, <1>7, <1>8 DEF Next, TimerThreadStep

\* The time that a walk compares with may be old, and still tells no timer expired
\* before its time is over.
LEMMA WalkExpired ==
    ASSUME Core, LagBounded, Clock, WalkInv, pc[TT] = "walk", walk.n # None,
           Expired(walk.n, walk.now)
    PROVE  w.due[walk.n] <= 0
<1>1. PICK n, c : n = walk.n /\ c = walk.now
  OBVIOUS
<1>2. n \in Timers /\ On(w, n) /\ c \in Ticks /\ c \in Int /\ c < TickMod /\ 0 <= c
  BY <1>1, Processors, HalfIs DEF Core, TypeOK, PlaceInv, ThreadPlace, WalkInv, Ticks, RT_TICK_MAX
<1>3. PICK d \in Nat : tick = (c + d) % TickMod /\ w.due[n] + d < Half
  BY <1>1 DEF WalkInv, Walking
<1>4. PICK a, e, b \in Int : a = w.due[n] /\ e = d + a /\ b = c + d
  BY <1>2, StateTypes DEF Core, TypeOK
<1>5. w.timer[n].timeout = (c + e) % TickMod
  <2>1. w.timer[n].timeout = (tick + a) % TickMod
    BY <1>2, <1>4 DEF Clock, Timely
  <2>2. ((b % TickMod) + a) % TickMod = (b + a) % TickMod
    BY <1>4, HalfIs, ModAdd
  <2>3. b + a = c + e
    BY <1>2, <1>4
  <2>. QED BY <1>3, <1>4, <2>1, <2>2, <2>3, Zenon
<1>6. PICK z \in Int : z = 0
  OBVIOUS
<1>7. (c + z) % TickMod = c
  <2>1. c % TickMod = c
    BY <1>2, HalfIs, ModShort
  <2>2. c + z = c
    BY <1>2, <1>6
  <2>. QED BY <2>1, <2>2, Zenon
<1>8. Sub(c, w.timer[n].timeout) = (z - e) % TickMod
  <2>1. Sub((c + z) % TickMod, (c + e) % TickMod) = (z - e) % TickMod
    <3>1. c \in Int /\ z \in Int /\ e \in Int
      BY <1>2, <1>4, <1>6
    <3>. QED BY ONLY <3>1, SubShift, Zenon
  <2>. QED BY <1>5, <1>7, <2>1, Zenon
<1>9. PICK f \in Int : f = z - e
  OBVIOUS
<1>10. f % TickMod < Half
  BY <1>1, <1>8, <1>9 DEF Expired
<1>11. ASSUME a > 0
       PROVE  FALSE
  <2>1. e > 0 /\ e < Half /\ f = 0 - e
    BY <1>3, <1>4, <1>6, <1>9, <1>11, HalfIs
  <2>2. f < 0 /\ f < TickMod /\ 0 - TickMod <= f
    BY <2>1, HalfIs
  <2>3. f % TickMod = TickMod + f
    BY <2>2, HalfIs, ModShort
  <2>. QED BY <1>10, <2>1, <2>3, HalfIs
<1>. QED BY <1>1, <1>4, <1>11

\* When the head of a sorted list has time left, everybody has.
LEMMA NoneLeft ==
    ASSUME Core, Clock, LagBounded, NEW l \in Lists,
           Bottom(l) # <<>> => ~ Expired(Head(Bottom(l)), tick), NEW x \in ToSet(Bottom(l))
    PROVE  w.due[x] > 0
<1>1. w \in TimerState /\ Chains(w) /\ tick \in Ticks
  BY DEF Core, TypeOK
<1>2. Bottom(l) # <<>> /\ x \in Timers
  <2>1. Bottom(l) \in Seq(Timers)
    BY <1>1, StateTypes, RowTypes DEF Bottom
  <2>. QED BY <2>1, ToSetDef
<1>3. PICK t : t = Head(Bottom(l))
  OBVIOUS
<1>4. t \in Timers /\ On(w, t) /\ (x = t \/ Ahead(Bottom(l), t, x))
  BY <1>2, <1>3, HeadIs
<1>5. Timely(w, t)
  BY <1>4 DEF Clock
<1>6. ~ (w.due[t] <= 0)
  BY <1>1, <1>2, <1>3, <1>4, <1>5, ExpiredIs
<1>7. ASSUME Ahead(Bottom(l), t, x)
      PROVE  w.due[t] <= w.due[x]
  <2>1. Ahead(w.rows[l][LastRow], t, x) /\ LastRow \in Rows
    BY <1>7, RowTypes DEF Bottom
  <2>2. w.due[t] < w.due[x] \/ w.due[t] = w.due[x]
    BY <1>2, <1>4, <2>1 DEF Clock, Sorted
  <2>3. w.due[t] \in Int /\ w.due[x] \in Int
    BY <1>1, <1>2, <1>4, StateTypes
  <2>. QED BY <2>2, <2>3
<1>. QED BY <1>1, <1>2, <1>4, <1>6, <1>7, StateTypes

\* No timeout function is called before the time that was asked for is over, and
\* the tick interrupt leaves no hard timer behind whose time is over: across the
\* wrap-around of the tick counter.  For soft timers, if nobody preempts the timer
\* thread and no timeout function starts or stops another soft timer: without that
\* the run of StoppedIsSilent has the counterexample.
THEOREM TimersArePunctual ==
    ASSUME LagBounded, SoftAlone
    PROVE  Spec => Punctual
<1>. DEFINE Step ==
        /\ (isr.at = "check" /\ isr'.at = "callback") => w.due[isr'.t] <= 0
        /\ (isr.at = "check" /\ isr'.at = "none") => \A t \in ToSet(Bottom("hard")) : w.due[t] > 0
        /\ (walk.t = None /\ walk'.t # None) => Linked(walk'.t) /\ w.due[walk'.t] <= 0
<1>1. ASSUME IInv, Next
      PROVE  Step
  <2>0. Core /\ Clock /\ WalkInv
    BY <1>1 DEF IInv
  <2>1. ASSUME isr.at = "check", isr'.at = "callback"
        PROVE  w.due[isr'.t] <= 0
    <3>1. Fire
      <4>1. ~ CheckLeave
        BY <2>0, <2>1 DEF CheckLeave, Core, TypeOK
      <4>. QED BY <1>1, <2>1, <4>1, IsrMoves
    <3>2. PICK t, l : t = Head(Bottom(l)) /\ l = "hard"
      OBVIOUS
    <3>3. Bottom(l) # <<>> /\ Expired(t, tick) /\ isr'.t = t
      BY <3>1, <3>2 DEF Fire
    <3>4. t \in Timers /\ On(w, t)
      BY <2>0, <3>2, <3>3, HeadIs DEF Lists
    <3>5. Timely(w, t) /\ tick \in Ticks /\ w \in TimerState
      BY <2>0, <3>4 DEF Clock, Core, TypeOK
    <3>. QED BY <3>3, <3>4, <3>5, ExpiredIs
  <2>2. ASSUME isr.at = "check", isr'.at = "none", NEW t \in ToSet(Bottom("hard"))
        PROVE  w.due[t] > 0
    <3>1. CheckLeave
      <4>1. ~ Fire
        BY <2>2 DEF Fire
      <4>. QED BY <1>1, <2>2, <4>1, IsrMoves
    <3>2. Bottom("hard") # <<>> => ~ Expired(Head(Bottom("hard")), tick)
      BY <3>1 DEF CheckLeave
    <3>. QED BY <2>0, <2>2, <3>2, NoneLeft DEF Lists
  <2>3. ASSUME walk.t = None, walk'.t # None
        PROVE  Linked(walk'.t) /\ w.due[walk'.t] <= 0
    <3>1. WalkFire
      BY <1>1, <2>0, <2>3, WalkMoves
    <3>2. walk'.t = walk.n /\ walk.n # None /\ pc[TT] = "walk" /\ Expired(walk.n, walk.now)
      BY <2>0, <3>1 DEF WalkFire, At, Core, TypeOK
    <3>3. w.due[walk.n] <= 0
      BY <2>0, <3>2, WalkExpired
    <3>4. On(w, walk.n)
      BY <2>0, <3>2 DEF WalkInv
    <3>. QED BY <3>2, <3>3, <3>4, LinkedIs
  <2>. QED BY <2>1, <2>2, <2>3
<1>2. IInv /\ [Next]_vars => [Step]_vars
  BY <1>1
<1>3. [][Step]_vars => Punctual
  BY DEF Punctual
<1>. HIDE DEF Step
<1>. QED BY <1>2, <1>3, Invariance, PTL DEF Spec
=============================================================================
