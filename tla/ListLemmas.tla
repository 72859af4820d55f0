----------------------------- MODULE ListLemmas -----------------------------
(***************************************************************************)
(* Facts about the lists of the kernel: duplicate-free sequences under     *)
(* removal, appending and insertion, and the least element of a set of     *)
(* priorities.                                                             *)
(***************************************************************************)
EXTENDS SequencesExt, SequenceTheorems, WellFoundedInduction, TLAPS

\* A non-empty set of natural numbers has a least element: what __rt_ffs finds
\* in a non-zero bitmap.
LEMMA MinExists ==
    ASSUME NEW T \in SUBSET Nat, T # {}
    PROVE  Min(T) \in T /\ \A x \in T : Min(T) <= x
<1>1. IsWellFoundedOn(OpToRel(<, Nat), Nat)
  BY NatLessThanWellFounded, Zenon
<1>2. PICK x \in T : \A y \in T : ~(<<y, x>> \in OpToRel(<, Nat))
  BY <1>1, WFMin, Zenon
<1>3. \A y \in T : ~(y < x)
  BY <1>2, Zenon DEF OpToRel
<1>4. \A y \in T : x <= y
  BY <1>3
<1>. QED BY <1>4 DEF Min

\* Induction up to N, over a set: what holds of a loop before its first turn and
\* is kept by every turn holds after each of its N turns.
LEMMA UpTo ==
    ASSUME NEW N \in Nat, NEW T, 0 \in T,
           \A n \in 0 .. N - 1 : n \in T => n + 1 \in T
    PROVE  0 .. N \subseteq T
<1>. DEFINE bad == {n \in 0 .. N : n \notin T}
<1>. SUFFICES ASSUME bad # {} PROVE FALSE
  OBVIOUS
<1>1. bad \in SUBSET Nat
  OBVIOUS
<1>2. PICK m \in bad : \A x \in bad : m <= x
  BY <1>1, MinExists
<1>3. m \in 1 .. N /\ m - 1 \in 0 .. N - 1
  BY <1>2
<1>4. m - 1 \notin bad
  BY <1>2, <1>3
<1>5. m - 1 \in T
  BY <1>3, <1>4
<1>6. m - 1 + 1 \in T
  BY <1>3, <1>5
<1>. QED BY <1>2, <1>3, <1>6

\* The histories of a loop of N turns that starts at a and whose n-th turn is g[n].
Histories(S, a, g, N) ==
    {f \in [0 .. N -> S] : f[0] = a /\ \A n \in 1 .. N : f[n] = g[n][f[n - 1]]}

\* Such a loop has a history.
LEMMA Iterates ==
    ASSUME NEW S, NEW a \in S, NEW N \in Nat, NEW g \in [1 .. N -> [S -> S]]
    PROVE  Histories(S, a, g, N) # {}
<1>. DEFINE H(m) == Histories(S, a, g, m)
            T == {m \in 0 .. N : H(m) # {}}
<1>1. 0 \in T
  <2>. DEFINE f == [n \in 0 .. 0 |-> a]
  <2>1. f \in H(0)
    BY DEF Histories
  <2>. QED BY <2>1
<1>2. ASSUME NEW m \in 0 .. N - 1, m \in T
      PROVE  m + 1 \in T
  <2>1. PICK f \in [0 .. m -> S] : f[0] = a /\ \A n \in 1 .. m : f[n] = g[n][f[n - 1]]
    BY <1>2 DEF Histories
  <2>. DEFINE h == [n \in 0 .. m + 1 |-> IF n <= m THEN f[n] ELSE g[m + 1][f[m]]]
  <2>2. f[m] \in S /\ g[m + 1][f[m]] \in S
    <3>1. m + 1 \in 1 .. N /\ m \in 0 .. m
      OBVIOUS
    <3>2. f[m] \in S /\ g[m + 1] \in [S -> S]
      BY <2>1, <3>1
    <3>. QED BY <3>2
  <2>3. h \in [0 .. m + 1 -> S]
    BY <2>1, <2>2
  <2>4. h[0] = a
    BY <2>1
  <2>5. ASSUME NEW n \in 1 .. m + 1
        PROVE  h[n] = g[n][h[n - 1]]
    <3>1. h[n - 1] = f[n - 1]
      BY <2>1
    <3>2. CASE n <= m
      BY <2>1, <3>1, <3>2
    <3>3. CASE n = m + 1
      BY <2>1, <3>1, <3>3
    <3>. QED BY <3>2, <3>3
  <2>6. h \in H(m + 1)
    BY <2>3, <2>4, <2>5 DEF Histories
  <2>. QED BY <2>6
<1>. HIDE DEF T
<1>3. 0 .. N \subseteq T
  BY <1>1, <1>2, UpTo
<1>4. N \in T
  BY <1>3
<1>. QED BY <1>4 DEF T

\* The elements of a sequence, by their index.
LEMMA ToSetDef ==
    ASSUME NEW S, NEW s \in Seq(S)
    PROVE  /\ \A x : x \in ToSet(s) <=> \E i \in 1 .. Len(s) : s[i] = x
           /\ ToSet(s) \subseteq S
           /\ s = <<>> <=> ToSet(s) = {}
<1>1. DOMAIN s = 1 .. Len(s) /\ Len(s) \in Nat
  OBVIOUS
<1>2. \A x : x \in ToSet(s) <=> \E i \in 1 .. Len(s) : s[i] = x
  BY <1>1 DEF ToSet
<1>3. \A i \in 1 .. Len(s) : s[i] \in S
  OBVIOUS
<1>4. s = <<>> <=> Len(s) = 0
  BY EmptySeq
<1>5. s = <<>> <=> ToSet(s) = {}
  <2>1. CASE Len(s) = 0
    BY <1>2, <1>4, <2>1
  <2>2. CASE Len(s) # 0
    <3>1. 1 \in 1 .. Len(s)
      BY <1>1, <2>2
    <3>. QED BY <1>2, <1>4, <2>2, <3>1
  <2>. QED BY <2>1, <2>2
<1>. QED BY <1>2, <1>3, <1>5

LEMMA NonEmptyMono ==
    ASSUME NEW S, NEW a \in Seq(S), NEW b \in Seq(S), ToSet(a) \subseteq ToSet(b)
    PROVE  a # <<>> => b # <<>>
<1>1. a # <<>> => ToSet(a) # {}
  BY ToSetDef
<1>2. ToSet(b) # {} => b # <<>>
  BY ToSetDef
<1>. QED BY <1>1, <1>2

LEMMA HeadIn ==
    ASSUME NEW S, NEW s \in Seq(S), s # <<>>
    PROVE  Head(s) \in ToSet(s)
BY DEF ToSet

\* rt_list_insert_before on the list head puts a new node at the tail.
LEMMA AppendFacts ==
    ASSUME NEW S, NEW s \in Seq(S), NEW t \in S,
           IsInjective(s), t \notin ToSet(s)
    PROVE  /\ Append(s, t) \in Seq(S)
           /\ IsInjective(Append(s, t))
           /\ ToSet(Append(s, t)) = ToSet(s) \union {t}
<1>1. Append(s, t) \in Seq(S) /\ Len(Append(s, t)) = Len(s) + 1
  OBVIOUS
<1>2. \A i \in 1 .. Len(s) + 1 :
         Append(s, t)[i] = IF i = Len(s) + 1 THEN t ELSE s[i]
  OBVIOUS
<1>3. \A i \in 1 .. Len(s) : s[i] # t
  BY DEF ToSet
<1>4. DOMAIN Append(s, t) = 1 .. Len(s) + 1 /\ DOMAIN s = 1 .. Len(s)
  BY <1>1
<1>5. IsInjective(Append(s, t))
  BY <1>2, <1>3, <1>4 DEF IsInjective
<1>6. ToSet(Append(s, t)) = ToSet(s) \union {t}
  BY <1>2, <1>4 DEF ToSet
<1>. QED BY <1>1, <1>5, <1>6

\* A node inserted at some place of a list, by index.
LEMMA InsertAtIndex ==
    ASSUME NEW S, NEW s \in Seq(S), NEW t \in S, NEW n \in 1 .. Len(s) + 1
    PROVE  /\ InsertAt(s, n, t) \in Seq(S) /\ Len(InsertAt(s, n, t)) = Len(s) + 1
           /\ \A i \in 1 .. Len(s) + 1 :
                 InsertAt(s, n, t)[i] = IF i < n THEN s[i] ELSE IF i = n THEN t ELSE s[i - 1]
<1>. DEFINE pre == SubSeq(s, 1, n - 1)
            post == SubSeq(s, n, Len(s))
            r == InsertAt(s, n, t)
<1>1. /\ pre \in Seq(S) /\ Len(pre) = n - 1
      /\ \A i \in 1 .. n - 1 : pre[i] = s[i]
  BY SubSeqProperties
<1>2. /\ post \in Seq(S) /\ Len(post) = Len(s) - n + 1
      /\ \A i \in 1 .. Len(s) - n + 1 : post[i] = s[n + i - 1]
  BY SubSeqProperties
<1>3. r = (pre \o <<t>>) \o post
  BY DEF InsertAt
<1>. HIDE DEF pre, post, r
<1>4. /\ pre \o <<t>> \in Seq(S) /\ Len(pre \o <<t>>) = n
      /\ \A i \in 1 .. n : (pre \o <<t>>)[i] = IF i = n THEN t ELSE s[i]
  BY <1>1
<1>5. /\ r \in Seq(S) /\ Len(r) = Len(s) + 1
      /\ \A i \in 1 .. Len(s) + 1 :
            r[i] = IF i < n THEN s[i] ELSE IF i = n THEN t ELSE s[i - 1]
  <2>. DEFINE q == pre \o <<t>>
  <2>1. q \in Seq(S) /\ Len(q) = n /\ \A i \in 1 .. n : q[i] = IF i = n THEN t ELSE s[i]
    BY <1>4
  <2>2. r = q \o post
    BY <1>3
  <2>. HIDE DEF q
  <2>3. /\ q \o post \in Seq(S) /\ Len(q \o post) = Len(q) + Len(post)
        /\ \A i \in 1 .. Len(q) + Len(post) :
              (q \o post)[i] = IF i <= Len(q) THEN q[i] ELSE post[i - Len(q)]
    BY <2>1, <1>2, ConcatProperties
  <2>4. \A i \in n + 1 .. Len(s) + 1 : post[i - n] = s[i - 1]
    <3>. SUFFICES ASSUME NEW i \in n + 1 .. Len(s) + 1 PROVE post[i - n] = s[i - 1]
      OBVIOUS
    <3>1. i - n \in 1 .. Len(s) - n + 1 /\ n + (i - n) - 1 = i - 1
      OBVIOUS
    <3>. QED BY <3>1, <1>2
  <2>5. r \in Seq(S) /\ Len(r) = Len(s) + 1
    BY <2>1, <2>2, <2>3, <1>2
  <2>6. ASSUME NEW i \in 1 .. Len(s) + 1
        PROVE  r[i] = IF i < n THEN s[i] ELSE IF i = n THEN t ELSE s[i - 1]
    <3>1. r[i] = IF i <= n THEN q[i] ELSE post[i - n]
      BY <2>1, <2>2, <2>3, <1>2, SMTT(30)
    <3>2. CASE i <= n
      BY <3>1, <3>2, <2>1
    <3>3. CASE i > n
      BY <3>1, <3>3, <2>4
    <3>. QED BY <3>2, <3>3
  <2>. QED BY <2>5, <2>6
<1>. QED BY <1>5 DEF r

\* A node inserted at some place of a list.
LEMMA InsertAtFacts ==
    ASSUME NEW S, NEW s \in Seq(S), NEW t \in S, NEW n \in 1 .. Len(s) + 1,
           IsInjective(s), t \notin ToSet(s)
    PROVE  /\ InsertAt(s, n, t) \in Seq(S)
           /\ IsInjective(InsertAt(s, n, t))
           /\ ToSet(InsertAt(s, n, t)) = ToSet(s) \union {t}
<1>. DEFINE r == InsertAt(s, n, t)
<1>5. /\ r \in Seq(S) /\ Len(r) = Len(s) + 1
      /\ \A i \in 1 .. Len(s) + 1 :
            r[i] = IF i < n THEN s[i] ELSE IF i = n THEN t ELSE s[i - 1]
  BY InsertAtIndex
<1>. HIDE DEF r
<1>6. \A i \in 1 .. Len(s) : s[i] # t
  BY DEF ToSet
<1>7. DOMAIN r = 1 .. Len(s) + 1 /\ DOMAIN s = 1 .. Len(s)
  BY <1>5
<1>8. IsInjective(r)
  <2>. SUFFICES ASSUME NEW i \in 1 .. Len(s) + 1, NEW j \in 1 .. Len(s) + 1, r[i] = r[j]
                PROVE  i = j
    BY <1>7 DEF IsInjective
  <2>. DEFINE at(x) == IF x < n THEN x ELSE x - 1
  <2>1. i = n <=> j = n
    <3>1. ASSUME NEW x \in 1 .. Len(s) + 1, x # n
          PROVE  r[x] # t
      <4>1. at(x) \in 1 .. Len(s) /\ r[x] = s[at(x)]
        BY <3>1, <1>5
      <4>. HIDE DEF at
      <4>. QED BY <4>1, <1>6
    <3>2. n \in 1 .. Len(s) + 1 /\ r[n] = t
      BY <1>5
    <3>. QED BY <3>1, <3>2
  <2>2. CASE i # n /\ j # n
    <3>1. /\ at(i) \in 1 .. Len(s) /\ r[i] = s[at(i)]
          /\ at(j) \in 1 .. Len(s) /\ r[j] = s[at(j)]
      BY <2>2, <1>5
    <3>2. at(i) = at(j)
      BY <3>1, <1>7 DEF IsInjective
    <3>. QED BY <2>2, <3>2
  <2>. QED BY <2>1, <2>2
<1>9. ToSet(r) = ToSet(s) \union {t}
  <2>1. ASSUME NEW x \in ToSet(s) PROVE x \in ToSet(r)
    <3>1. PICK i \in 1 .. Len(s) : s[i] = x
      BY <1>7 DEF ToSet
    <3>2. r[i] = x \/ r[i + 1] = x
      BY <3>1, <1>5
    <3>. QED BY <3>2, <1>7 DEF ToSet
  <2>2. t \in ToSet(r)
    BY <1>5, <1>7 DEF ToSet
  <2>3. ASSUME NEW x \in ToSet(r) PROVE x \in ToSet(s) \union {t}
    BY <1>5, <1>7 DEF ToSet
  <2>. QED BY <2>1, <2>2, <2>3
<1>. QED BY <1>5, <1>8, <1>9 DEF r

\* An element put at the head.
LEMMA ConsFacts ==
    ASSUME NEW S, NEW s \in Seq(S), NEW t \in S, IsInjective(s), t \notin ToSet(s)
    PROVE  /\ Cons(t, s) \in Seq(S)
           /\ IsInjective(Cons(t, s))
           /\ ToSet(Cons(t, s)) = ToSet(s) \union {t}
<1>. DEFINE r == Cons(t, s)
<1>1. /\ r \in Seq(S) /\ Len(r) = Len(s) + 1
      /\ \A i \in 1 .. Len(s) + 1 : r[i] = IF i = 1 THEN t ELSE s[i - 1]
  BY DEF Cons
<1>. HIDE DEF r
<1>2. \A x : x \in ToSet(s) <=> \E i \in 1 .. Len(s) : s[i] = x
  BY ToSetDef
<1>3. \A x : x \in ToSet(r) <=> \E i \in 1 .. Len(r) : r[i] = x
  BY <1>1, ToSetDef
<1>4. ToSet(r) = ToSet(s) \union {t}
  <2>1. ASSUME NEW x \in ToSet(r)
        PROVE  x \in ToSet(s) \union {t}
    <3>1. PICK i \in 1 .. Len(r) : r[i] = x
      BY <1>3
    <3>2. CASE i = 1
      BY <1>1, <3>1, <3>2
    <3>3. CASE i # 1
      <4>1. i - 1 \in 1 .. Len(s) /\ s[i - 1] = x
        BY <1>1, <3>1, <3>3
      <4>. QED BY <1>2, <4>1
    <3>. QED BY <3>2, <3>3
  <2>2. t \in ToSet(r)
    <3>1. 1 \in 1 .. Len(r) /\ r[1] = t
      BY <1>1
    <3>. QED BY <1>3, <3>1
  <2>3. ASSUME NEW x \in ToSet(s)
        PROVE  x \in ToSet(r)
    <3>1. PICK i \in 1 .. Len(s) : s[i] = x
      BY <1>2
    <3>2. i + 1 \in 1 .. Len(r) /\ r[i + 1] = x
      BY <1>1, <3>1
    <3>. QED BY <1>3, <3>2
  <2>. QED BY <2>1, <2>2, <2>3
<1>5. IsInjective(r)
  <2>1. ASSUME NEW i \in 1 .. Len(r), NEW j \in 1 .. Len(r), r[i] = r[j]
        PROVE  i = j
    <3>1. \A n \in 1 .. Len(s) : s[n] # t
      BY <1>2
    <3>2. CASE i = 1 \/ j = 1
      BY <1>1, <2>1, <3>1, <3>2
    <3>3. CASE i # 1 /\ j # 1
      <4>1. i - 1 \in 1 .. Len(s) /\ j - 1 \in 1 .. Len(s) /\ s[i - 1] = s[j - 1]
        BY <1>1, <2>1, <3>3
      <4>2. i - 1 = j - 1
        BY <4>1 DEF IsInjective
      <4>. QED BY <1>1, <4>2
    <3>. QED BY <3>2, <3>3
  <2>. QED BY <1>1, <2>1 DEF IsInjective
<1>. QED BY <1>1, <1>4, <1>5 DEF r

\* rt_list_remove leaves a list alone that the node is not on.
LEMMA RemoveAbsent ==
    ASSUME NEW S, NEW s \in Seq(S), NEW t, t \notin ToSet(s)
    PROVE  RemoveFirst(s, t) = s
<1>1. ~ \E i \in 1 .. Len(s) : s[i] = t
  BY ToSetDef
<1>. QED BY <1>1 DEF RemoveFirst

\* rt_list_remove of a node that is on the list, by index.
LEMMA RemoveIndex ==
    ASSUME NEW S, NEW s \in Seq(S), NEW t, t \in ToSet(s)
    PROVE  /\ RemoveFirst(s, t) \in Seq(S) /\ Len(RemoveFirst(s, t)) = Len(s) - 1
           /\ \E n \in 1 .. Len(s) :
                 /\ s[n] = t
                 /\ \A i \in 1 .. Len(s) - 1 :
                       RemoveFirst(s, t)[i] = IF i < n THEN s[i] ELSE s[i + 1]
<1>0. \E i \in 1 .. Len(s) : s[i] = t
  BY ToSetDef
<1>. DEFINE I == {i \in 1 .. Len(s) : s[i] = t}
            n == Min(I)
            pre == SubSeq(s, 1, n - 1)
            post == SubSeq(s, n + 1, Len(s))
            r == RemoveFirst(s, t)
<1>1. n \in 1 .. Len(s) /\ s[n] = t
  <2>1. I \in SUBSET Nat /\ I # {}
    BY <1>0
  <2>2. n \in I
    BY <2>1, MinExists
  <2>. QED BY <2>2
<1>2. r = pre \o post
  BY <1>0 DEF RemoveFirst, RemoveAt, SelectInSeq
<1>. HIDE DEF I, n
<1>3. /\ pre \in Seq(S) /\ Len(pre) = n - 1
      /\ \A i \in 1 .. n - 1 : pre[i] = s[i]
  BY <1>1, SubSeqProperties
<1>4. /\ post \in Seq(S) /\ Len(post) = Len(s) - n
      /\ \A i \in 1 .. Len(s) - n : post[i] = s[n + i]
  BY <1>1, SubSeqProperties
<1>. HIDE DEF pre, post, r
<1>5. /\ r \in Seq(S) /\ Len(r) = (n - 1) + (Len(s) - n)
      /\ \A i \in 1 .. Len(r) : r[i] = IF i <= n - 1 THEN pre[i] ELSE post[i - (n - 1)]
  <2>1. /\ pre \o post \in Seq(S) /\ Len(pre \o post) = Len(pre) + Len(post)
        /\ \A i \in 1 .. Len(pre) + Len(post) :
              (pre \o post)[i] = IF i <= Len(pre) THEN pre[i] ELSE post[i - Len(pre)]
    BY <1>3, <1>4, ConcatProperties
  <2>. QED BY <1>1, <1>2, <1>3, <1>4, <2>1
<1>6. /\ Len(r) = Len(s) - 1
      /\ \A i \in 1 .. Len(r) : r[i] = IF i < n THEN s[i] ELSE s[i + 1]
  <2>1. Len(r) = Len(s) - 1
    BY <1>1, <1>5
  <2>2. \A i \in n .. Len(s) - 1 : post[i - (n - 1)] = s[i + 1]
    <3>. SUFFICES ASSUME NEW i \in n .. Len(s) - 1 PROVE post[i - (n - 1)] = s[i + 1]
      OBVIOUS
    <3>1. i - (n - 1) \in 1 .. Len(s) - n /\ n + (i - (n - 1)) = i + 1
      BY <1>1
    <3>. QED BY <3>1, <1>4
  <2>. QED BY <1>1, <1>3, <1>5, <2>1, <2>2, SMTT(30)
<1>. QED BY <1>1, <1>5, <1>6 DEF r

\* rt_list_remove: the node goes, the others stay.
LEMMA RemoveFacts ==
    ASSUME NEW S, NEW s \in Seq(S), NEW t, IsInjective(s)
    PROVE  /\ RemoveFirst(s, t) \in Seq(S)
           /\ IsInjective(RemoveFirst(s, t))
           /\ ToSet(RemoveFirst(s, t)) = ToSet(s) \ {t}
           /\ t \in ToSet(s) => Len(RemoveFirst(s, t)) = Len(s) - 1
<1>1. CASE ~ \E i \in 1 .. Len(s) : s[i] = t
  BY <1>1 DEF RemoveFirst, ToSet
<1>2. CASE \E i \in 1 .. Len(s) : s[i] = t
  <2>. DEFINE r == RemoveFirst(s, t)
  <2>0. t \in ToSet(s)
    BY <1>2, ToSetDef
  <2>1. PICK n \in 1 .. Len(s) :
          /\ s[n] = t
          /\ \A i \in 1 .. Len(s) - 1 : r[i] = IF i < n THEN s[i] ELSE s[i + 1]
    BY <2>0, RemoveIndex
  <2>5. r \in Seq(S)
    BY <2>0, RemoveIndex
  <2>6. /\ Len(r) = Len(s) - 1
        /\ \A i \in 1 .. Len(r) : r[i] = IF i < n THEN s[i] ELSE s[i + 1]
    BY <2>0, <2>1, RemoveIndex
  <2>. HIDE DEF r
  <2>7. DOMAIN r = 1 .. Len(s) - 1 /\ DOMAIN s = 1 .. Len(s)
    BY <2>5, <2>6
  <2>8. IsInjective(r)
    <3>. SUFFICES ASSUME NEW i \in 1 .. Len(s) - 1, NEW j \in 1 .. Len(s) - 1, r[i] = r[j]
                  PROVE  i = j
      BY <2>7 DEF IsInjective
    <3>. DEFINE at(x) == IF x < n THEN x ELSE x + 1
    <3>1. /\ at(i) \in 1 .. Len(s) /\ r[i] = s[at(i)]
          /\ at(j) \in 1 .. Len(s) /\ r[j] = s[at(j)]
      BY <2>1, <2>6
    <3>2. at(i) = at(j)
      BY <3>1, <2>7 DEF IsInjective
    <3>. QED BY <3>2, <2>1
  <2>9. ToSet(r) = ToSet(s) \ {t}
    <3>1. ASSUME NEW x \in ToSet(s), x # t PROVE x \in ToSet(r)
      <4>1. PICK i \in 1 .. Len(s) : s[i] = x
        BY <2>7 DEF ToSet
      <4>2. CASE i < n
        BY <4>1, <4>2, <2>1, <2>6, <2>7 DEF ToSet
      <4>3. CASE i > n
        <5>1. i - 1 \in 1 .. Len(r) /\ r[i - 1] = x
          BY <4>1, <4>3, <2>1, <2>6
        <5>. QED BY <5>1, <2>6, <2>7 DEF ToSet
      <4>. QED BY <4>1, <4>2, <4>3, <2>1, <3>1
    <3>2. ASSUME NEW x \in ToSet(r) PROVE x \in ToSet(s) /\ x # t
      <4>1. PICK i \in 1 .. Len(r) : r[i] = x
        BY <2>6, <2>7 DEF ToSet
      <4>2. PICK j \in 1 .. Len(s) : j # n /\ s[j] = x
        BY <4>1, <2>1, <2>6
      <4>. QED BY <4>2, <2>1, <2>7 DEF ToSet, IsInjective
    <3>. QED BY <3>1, <3>2
  <2>. QED BY <2>5, <2>6, <2>8, <2>9 DEF r
<1>. QED BY <1>1, <1>2


\* The node behind the list head is taken off.
LEMMA TailFacts ==
    ASSUME NEW S, NEW s \in Seq(S), IsInjective(s), s # <<>>
    PROVE  /\ Tail(s) \in Seq(S) /\ Len(Tail(s)) = Len(s) - 1
           /\ IsInjective(Tail(s))
           /\ ToSet(Tail(s)) = ToSet(s) \ {Head(s)}
           /\ Head(s) \in ToSet(s)
<1>. DEFINE r == Tail(s)
<1>1. /\ r \in Seq(S) /\ Len(r) = Len(s) - 1 /\ Len(s) \in Nat \ {0}
      /\ \A i \in 1 .. Len(r) : r[i] = s[i + 1] /\ i + 1 \in 1 .. Len(s)
      /\ Head(s) = s[1] /\ 1 \in 1 .. Len(s)
  OBVIOUS
<1>2. /\ \A i, j \in 1 .. Len(s) : s[i] = s[j] => i = j
      /\ DOMAIN r = 1 .. Len(r)
  BY <1>1 DEF IsInjective
<1>3. IsInjective(r)
  <2>. SUFFICES ASSUME NEW i \in 1 .. Len(r), NEW j \in 1 .. Len(r), r[i] = r[j]
                PROVE  i = j
    BY <1>2 DEF IsInjective
  <2>1. i + 1 = j + 1
    BY <1>1, <1>2
  <2>. QED BY <1>1, <2>1
<1>4. /\ \A x : x \in ToSet(s) <=> \E i \in 1 .. Len(s) : s[i] = x
      /\ \A x : x \in ToSet(r) <=> \E i \in 1 .. Len(r) : r[i] = x
  BY <1>1, ToSetDef
<1>. HIDE DEF r
<1>5. ASSUME NEW x
      PROVE  x \in ToSet(r) <=> x \in ToSet(s) /\ x # s[1]
  <2>1. ASSUME x \in ToSet(r)
        PROVE  x \in ToSet(s) /\ x # s[1]
    <3>1. PICK i \in 1 .. Len(r) : r[i] = x
      BY <1>4, <2>1
    <3>2. x = s[i + 1] /\ i + 1 \in 1 .. Len(s) /\ i + 1 # 1
      BY <1>1, <3>1
    <3>. QED BY <1>1, <1>2, <1>4, <3>2
  <2>2. ASSUME x \in ToSet(s), x # s[1]
        PROVE  x \in ToSet(r)
    <3>1. PICK i \in 1 .. Len(s) : s[i] = x
      BY <1>4, <2>2
    <3>2. i - 1 \in 1 .. Len(r) /\ (i - 1) + 1 = i
      BY <1>1, <2>2, <3>1
    <3>3. r[i - 1] = x
      BY <1>1, <3>1, <3>2
    <3>. QED BY <1>4, <3>2, <3>3
  <2>. QED BY <2>1, <2>2
<1>6. ToSet(r) = ToSet(s) \ {s[1]} /\ s[1] \in ToSet(s)
  BY <1>1, <1>4, <1>5
<1>. QED BY <1>1, <1>3, <1>6 DEF r

-----------------------------------------------------------------------------
(* Functions on 1 .. n as sequences.                                       *)

LEMMA EmptyIs ==
    ASSUME NEW S, NEW f \in [1 .. 0 -> S]
    PROVE  f = <<>>
<1>1. f \in Seq(S) /\ Len(f) = 0
  OBVIOUS
<1>. QED BY <1>1

LEMMA SeqIs ==
    ASSUME NEW S, NEW n \in Nat, NEW f \in [1 .. n -> S]
    PROVE  f \in Seq(S) /\ Len(f) = n
<1>1. f \in Seq(S)
  OBVIOUS
<1>. QED BY <1>1

LEMMA AppendIs ==
    ASSUME NEW S, NEW n \in Nat, NEW f \in [1 .. n -> S], NEW v \in S,
           NEW g \in [1 .. (n + 1) -> S], g[n + 1] = v, \A i \in 1 .. n : g[i] = f[i]
    PROVE  g = Append(f, v)
<1>1. f \in Seq(S) /\ Len(f) = n /\ g \in Seq(S) /\ Len(g) = n + 1
  BY SeqIs
<1>2. Append(f, v) \in Seq(S) /\ Len(Append(f, v)) = n + 1
  BY <1>1
<1>3. \A i \in 1 .. (n + 1) : g[i] = Append(f, v)[i]
  BY <1>1
<1>. QED BY <1>1, <1>2, <1>3, SeqEqual

LEMMA TailIs ==
    ASSUME NEW S, NEW n \in Nat \ {0}, NEW f \in [1 .. n -> S],
           NEW g \in [1 .. (n - 1) -> S], \A i \in 1 .. (n - 1) : g[i] = f[i + 1]
    PROVE  f # <<>> /\ Head(f) = f[1] /\ g = Tail(f)
<1>1. f \in Seq(S) /\ Len(f) = n /\ g \in Seq(S) /\ Len(g) = n - 1
  BY SeqIs
<1>2. f # <<>> /\ Head(f) = f[1]
  BY <1>1
<1>3. Tail(f) \in Seq(S) /\ Len(Tail(f)) = n - 1
  BY <1>1, <1>2
<1>4. \A i \in 1 .. (n - 1) : g[i] = Tail(f)[i]
  BY <1>1, <1>2
<1>. QED BY <1>1, <1>2, <1>3, <1>4, SeqEqual

LEMMA FrontIs ==
    ASSUME NEW S, NEW n \in Nat, NEW f \in [1 .. n -> S], NEW v \in S,
           NEW g \in [1 .. (n + 1) -> S], g[1] = v, \A i \in 1 .. n : g[i + 1] = f[i]
    PROVE  g = <<v>> \o f
<1>1. f \in Seq(S) /\ Len(f) = n /\ g \in Seq(S) /\ Len(g) = n + 1
  BY SeqIs
<1>2. <<v>> \in Seq(S) /\ Len(<<v>>) = 1 /\ <<v>>[1] = v
  OBVIOUS
<1>3. <<v>> \o f \in Seq(S) /\ Len(<<v>> \o f) = n + 1
  BY <1>1, <1>2
<1>4. \A i \in 1 .. (n + 1) : g[i] = (<<v>> \o f)[i]
  <2>. TAKE i \in 1 .. (n + 1)
  <2>1. CASE i = 1
    BY <1>1, <1>2, <2>1
  <2>2. CASE i # 1
    <3>1. i - 1 \in 1 .. n /\ (i - 1) + 1 = i
      BY <2>2
    <3>2. (<<v>> \o f)[i] = f[i - 1]
      BY <1>1, <1>2, <3>1
    <3>. QED BY <3>1, <3>2
  <2>. QED BY <2>1, <2>2
<1>. QED BY <1>1, <1>3, <1>4, SeqEqual
=============================================================================
