----------------------- MODULE DashboardVariablesProofs -----------------------
(***************************************************************************)
(* Proofs about the variables of a dashboard, for any variables and any    *)
(* references between them: the graph algorithms compute what they are     *)
(* meant to compute, and the queue never holds a variable twice.           *)
(***************************************************************************)
EXTENDS DashboardVariables, FiniteSetTheorems, TLAPS

-----------------------------------------------------------------------------
(* Induction and recursion. *)

\* A set of numbers that is not empty has a smallest one.
LEMMA Smallest ==
  ASSUME NEW S \in SUBSET Nat, S # {}
  PROVE  \E m \in S : \A k \in S : m <= k
<1> DEFINE T == {1..n : n \in S}
           R == StrictSubsetOrdering(Nat)
<1>1. IsWellFoundedOn(R, FiniteSubsetsOf(Nat))
  BY FS_StrictSubsetOrderingWellFounded
<1>2. T \subseteq FiniteSubsetsOf(Nat) /\ T # {}
  <2>1. ASSUME NEW n \in S PROVE 1..n \in FiniteSubsetsOf(Nat)
    <3>1. IsFiniteSet(1..n) /\ 1..n \subseteq Nat
      BY FS_Interval
    <3> QED
      BY <3>1 DEF FiniteSubsetsOf
  <2> QED
    BY <2>1
<1>3. PICK t \in T : \A u \in T : <<u, t>> \notin R
  <2> HIDE DEF R, T
  <2> QED
    BY <1>1, <1>2, WFMin
<1>4. PICK m \in S : t = 1..m
  OBVIOUS
<1>5. ASSUME NEW k \in S, ~(m <= k)
      PROVE  FALSE
  <2>1. k \in Nat /\ m \in Nat /\ k < m
    BY <1>5
  <2>2. /\ 1..k \subseteq 1..m /\ m \in 1..m /\ m \notin 1..k
        /\ 1..k \subseteq Nat /\ 1..m \subseteq Nat
    BY <2>1
  <2>3. <<1..k, 1..m>> \in R
    BY <2>2 DEF StrictSubsetOrdering
  <2> QED
    BY <1>3, <1>4, <2>3
<1> QED
  BY <1>5

\* Induction, for the set of the numbers that have a property.
LEMMA Induction ==
  ASSUME NEW S, 0 \in S, \A n \in Nat : n \in S => n + 1 \in S
  PROVE  Nat \subseteq S
<1> SUFFICES ASSUME ~(Nat \subseteq S) PROVE FALSE
  OBVIOUS
<1>1. PICK m \in Nat \ S : \A k \in Nat \ S : m <= k
  BY Smallest
<1>2. m - 1 \in Nat /\ ~(m <= m - 1) /\ (m - 1) + 1 = m
  BY <1>1
<1> QED
  BY <1>1, <1>2

\* A function that is defined from its value before exists.
Iterates(f, N, w0, step) == f[0] = w0 /\ \A n \in 1..N : f[n] = step[<<n, f[n - 1]>>]

LEMMA Iterated ==
  ASSUME NEW N \in Nat, NEW W, NEW w0 \in W, NEW step,
         \A n \in 1..N, w \in W : step[<<n, w>>] \in W
  PROVE  \E f \in [0..N -> W] : Iterates(f, N, w0, step)
<1> DEFINE Upto(n) == \E f \in [0..n -> W] :
                        f[0] = w0 /\ \A k \in 1..n : f[k] = step[<<k, f[k - 1]>>]
           S == {n \in Nat : n <= N => Upto(n)}
<1>1. 0 \in S
  <2> DEFINE f == [k \in 0..0 |-> w0]
  <2>1. f \in [0..0 -> W] /\ f[0] = w0 /\ 1..0 = {}
    OBVIOUS
  <2> QED
    BY <2>1
<1>2. ASSUME NEW n \in Nat, n \in S
      PROVE  n + 1 \in S
  <2> SUFFICES ASSUME n + 1 <= N PROVE Upto(n + 1)
    OBVIOUS
  <2>1. PICK f \in [0..n -> W] :
          f[0] = w0 /\ \A k \in 1..n : f[k] = step[<<k, f[k - 1]>>]
    BY <1>2
  <2> DEFINE g == [k \in 0..(n + 1) |-> IF k <= n THEN f[k] ELSE step[<<n + 1, f[n]>>]]
  <2>2. f[n] \in W /\ step[<<n + 1, f[n]>>] \in W
    BY <2>1
  <2>3. g \in [0..(n + 1) -> W] /\ g[0] = w0
    BY <2>1, <2>2
  <2>4. ASSUME NEW k \in 1..(n + 1)
        PROVE  g[k] = step[<<k, g[k - 1]>>]
    <3>1. CASE k = n + 1
      <4>1. g[k] = step[<<n + 1, f[n]>>] /\ g[k - 1] = f[n]
        BY <3>1
      <4> QED
        BY <3>1, <4>1
    <3>2. CASE k # n + 1
      <4>1. k \in 1..n /\ k - 1 \in 0..n
        BY <3>2
      <4>2. g[k] = f[k] /\ g[k - 1] = f[k - 1]
        BY <4>1
      <4> QED
        BY <2>1, <4>1, <4>2
    <3> QED
      BY <3>1, <3>2
  <2> HIDE DEF g
  <2> QED
    BY <2>3, <2>4
<1>3. N \in S
  <2> HIDE DEF S
  <2> QED
    BY <1>1, <1>2, Induction
<1> QED
  BY <1>3 DEF Iterates

-----------------------------------------------------------------------------
(* Filtering a sequence. *)

\* How a filter works through a sequence: its value after each element
OnlySteps(s, S, f) ==
  /\ f[0] = <<>>
  /\ \A n \in 1..Len(s) : f[n] = IF s[n] \in S THEN Append(f[n - 1], s[n]) ELSE f[n - 1]

LEMMA OnlyWalk ==
  ASSUME NEW T, NEW s \in Seq(T), NEW S
  PROVE  \E f \in [0..Len(s) -> Seq(T)] : OnlySteps(s, S, f) /\ Only(s, S) = f[Len(s)]
<1> DEFINE N == Len(s)
           W == Seq(T)
           w0 == <<>>
           step == [x \in (1..N) \X W |-> IF s[x[1]] \in S THEN Append(x[2], s[x[1]]) ELSE x[2]]
           only == CHOOSE only : only = [n \in 0..Len(s) |->
                     IF n = 0 THEN <<>>
                     ELSE IF s[n] \in S THEN Append(only[n - 1], s[n]) ELSE only[n - 1]]
<1>1. N \in Nat /\ w0 \in W /\ \A n \in 1..N : s[n] \in T
  OBVIOUS
<1>2. \A n \in 1..N, w \in W : step[<<n, w>>] \in W
  BY <1>1
<1> HIDE DEF N, W, w0, step
<1>3. PICK f \in [0..N -> W] : Iterates(f, N, w0, step)
  BY <1>1, <1>2, Iterated
<1>4. OnlySteps(s, S, f)
  <2>1. ASSUME NEW n \in 1..N
        PROVE  f[n] = IF s[n] \in S THEN Append(f[n - 1], s[n]) ELSE f[n - 1]
    <3>1. f[n - 1] \in W /\ f[n] = step[<<n, f[n - 1]>>]
      BY <1>1, <1>3 DEF Iterates
    <3> QED
      BY <3>1 DEF step
  <2> QED
    BY <1>3, <2>1 DEF Iterates, OnlySteps, N, w0
<1>5. f = [n \in 0..Len(s) |->
             IF n = 0 THEN <<>>
             ELSE IF s[n] \in S THEN Append(f[n - 1], s[n]) ELSE f[n - 1]]
  <2> DEFINE g == [n \in 0..Len(s) |->
                     IF n = 0 THEN <<>>
                     ELSE IF s[n] \in S THEN Append(f[n - 1], s[n]) ELSE f[n - 1]]
  <2>1. ASSUME NEW n \in 0..Len(s) PROVE f[n] = g[n]
    <3>1. CASE n = 0
      BY <1>4, <3>1 DEF OnlySteps
    <3>2. CASE n # 0
      <4>1. n \in 1..Len(s)
        BY <3>2
      <4> QED
        BY <1>4, <3>2, <4>1 DEF OnlySteps
    <3> QED
      BY <3>1, <3>2
  <2>2. f \in [0..Len(s) -> W]
    BY <1>3 DEF N
  <2> QED
    BY <2>1, <2>2
<1>6. only = [n \in 0..Len(s) |->
             IF n = 0 THEN <<>>
             ELSE IF s[n] \in S THEN Append(only[n - 1], s[n]) ELSE only[n - 1]]
  BY <1>5
<1>7. Only(s, S) = only[N]
  BY DEF Only, N
<1> HIDE DEF only
<1>8. \A n \in 0..N : only[n] = f[n]
  <2> DEFINE P == {n \in Nat : n <= N => only[n] = f[n]}
  <2>1. 0 \in P
    BY <1>1, <1>5, <1>6 DEF N
  <2>2. ASSUME NEW n \in Nat, n \in P
        PROVE  n + 1 \in P
    <3> SUFFICES ASSUME n + 1 <= N PROVE only[n + 1] = f[n + 1]
      OBVIOUS
    <3>1. n + 1 \in 0..Len(s) /\ n + 1 # 0 /\ (n + 1) - 1 = n
      BY <1>1 DEF N
    <3>2. only[n] = f[n]
      BY <1>1, <2>2
    <3>3. only[n + 1] = IF s[n + 1] \in S THEN Append(only[n], s[n + 1]) ELSE only[n]
      <4> HIDE DEF P
      <4> QED
        BY <1>6, <3>1
    <3>4. f[n + 1] = IF s[n + 1] \in S THEN Append(f[n], s[n + 1]) ELSE f[n]
      <4> HIDE DEF P
      <4> QED
        BY <1>5, <3>1
    <3> QED
      BY <3>2, <3>3, <3>4
  <2> HIDE DEF P
  <2>3. Nat \subseteq P
    BY <2>1, <2>2, Induction
  <2> USE DEF P
  <2> QED
    BY <1>1, <2>3
<1> QED
  BY <1>1, <1>4, <1>7, <1>8 DEF N, W

\* e tells where the elements of r are in the first n of s: all that are in S,
\* in their order.
Embeds(e, r, s, n, S) ==
  /\ e \in [1..Len(r) -> 1..n]
  /\ \A i \in 1..Len(r) : r[i] = s[e[i]] /\ s[e[i]] \in S
  /\ \A i, j \in 1..Len(r) : i < j => e[i] < e[j]
  /\ \A k \in 1..n : s[k] \in S => \E i \in 1..Len(r) : e[i] = k

LEMMA EmbedsMore ==
  ASSUME NEW T, NEW s \in Seq(T), NEW S, NEW n \in Nat, n + 1 <= Len(s),
         NEW r \in Seq(T), NEW e, Embeds(e, r, s, n, S)
  PROVE  \E g : Embeds(g, IF s[n + 1] \in S THEN Append(r, s[n + 1]) ELSE r, s, n + 1, S)
<1>1. CASE s[n + 1] \notin S
  <2>1. Embeds(e, r, s, n + 1, S)
    BY <1>1 DEF Embeds
  <2> QED
    BY <1>1, <2>1
<1>2. CASE s[n + 1] \in S
  <2> DEFINE q == Append(r, s[n + 1])
             g == [i \in 1..(Len(r) + 1) |-> IF i = Len(r) + 1 THEN n + 1 ELSE e[i]]
  <2>1. s[n + 1] \in T /\ Len(r) \in Nat
    OBVIOUS
  <2>2. /\ Len(q) = Len(r) + 1 /\ q[Len(r) + 1] = s[n + 1]
        /\ \A i \in 1..Len(r) : q[i] = r[i]
    BY <2>1
  <2>3. e \in [1..Len(r) -> 1..n]
    BY DEF Embeds
  <2>4. /\ g \in [1..Len(q) -> 1..(n + 1)] /\ g[Len(r) + 1] = n + 1
        /\ \A i \in 1..Len(r) : g[i] = e[i]
    BY <2>1, <2>2, <2>3
  <2> HIDE DEF q, g
  <2>5. \A i \in 1..Len(q) : q[i] = s[g[i]] /\ s[g[i]] \in S
    <3> TAKE i \in 1..Len(q)
    <3>1. CASE i = Len(r) + 1
      BY <1>2, <2>2, <2>4, <3>1
    <3>2. CASE i \in 1..Len(r)
      BY <2>2, <2>4, <3>2 DEF Embeds
    <3> QED
      BY <2>1, <2>2, <3>1, <3>2
  <2>6. \A i, j \in 1..Len(q) : i < j => g[i] < g[j]
    <3> SUFFICES ASSUME NEW i \in 1..Len(q), NEW j \in 1..Len(q), i < j
                 PROVE  g[i] < g[j]
      OBVIOUS
    <3>1. i \in 1..Len(r) /\ e[i] \in 1..n
      BY <2>1, <2>2, <2>3
    <3>2. CASE j = Len(r) + 1
      BY <2>4, <3>1, <3>2
    <3>3. CASE j \in 1..Len(r)
      BY <2>4, <3>1, <3>3 DEF Embeds
    <3> QED
      BY <2>1, <2>2, <3>2, <3>3
  <2>7. ASSUME NEW k \in 1..(n + 1), s[k] \in S
        PROVE  \E i \in 1..Len(q) : g[i] = k
    <3>1. CASE k = n + 1
      BY <2>1, <2>2, <2>4, <3>1
    <3>2. CASE k \in 1..n
      <4>1. PICK i \in 1..Len(r) : e[i] = k
        BY <2>7, <3>2 DEF Embeds
      <4> QED
        BY <2>1, <2>2, <2>4, <4>1
    <3> QED
      BY <3>1, <3>2
  <2>8. Embeds(g, q, s, n + 1, S)
    BY <2>4, <2>5, <2>6, <2>7 DEF Embeds
  <2> QED
    BY <1>2, <2>8 DEF q
<1> QED
  BY <1>1, <1>2

\* A filter keeps a subsequence: exactly the elements in S.
LEMMA OnlyEmbeds ==
  ASSUME NEW T, NEW s \in Seq(T), NEW S
  PROVE  /\ Only(s, S) \in Seq(T)
         /\ \E e : Embeds(e, Only(s, S), s, Len(s), S)
<1>1. PICK f \in [0..Len(s) -> Seq(T)] : OnlySteps(s, S, f) /\ Only(s, S) = f[Len(s)]
  BY OnlyWalk
<1> DEFINE P == {n \in Nat : n <= Len(s) => \E e : Embeds(e, f[n], s, n, S)}
<1>2. 0 \in P
  <2>1. f[0] = <<>> /\ Len(f[0]) = 0
    BY <1>1 DEF OnlySteps
  <2> DEFINE e == [i \in 1..0 |-> i]
  <2>2. Embeds(e, f[0], s, 0, S)
    BY <2>1 DEF Embeds
  <2> HIDE DEF e
  <2> QED
    BY <2>2
<1>3. ASSUME NEW n \in Nat, n \in P
      PROVE  n + 1 \in P
  <2> SUFFICES ASSUME n + 1 <= Len(s) PROVE \E e : Embeds(e, f[n + 1], s, n + 1, S)
    OBVIOUS
  <2>1. n \in 0..Len(s) /\ n + 1 \in 1..Len(s) /\ (n + 1) - 1 = n
    OBVIOUS
  <2>2. PICK e : Embeds(e, f[n], s, n, S)
    BY <1>3, <2>1
  <2>3. f[n] \in Seq(T) /\ f[n + 1] = IF s[n + 1] \in S THEN Append(f[n], s[n + 1]) ELSE f[n]
    BY <1>1, <2>1 DEF OnlySteps
  <2> QED
    BY <2>2, <2>3, EmbedsMore
<1> HIDE DEF P
<1>4. Nat \subseteq P
  BY <1>2, <1>3, Induction
<1> USE DEF P
<1>5. Len(s) \in Nat
  OBVIOUS
<1> QED
  BY <1>1, <1>4, <1>5

\* What a filter keeps
LEMMA OnlyElements ==
  ASSUME NEW T, NEW s \in Seq(T), NEW S
  PROVE  Only(s, S) \in Seq(T) /\ ToSet(Only(s, S)) = ToSet(s) \cap S
<1> DEFINE r == Only(s, S)
<1>1. PICK e : Embeds(e, r, s, Len(s), S)
  BY OnlyEmbeds
<1>2. r \in Seq(T)
  BY OnlyEmbeds
<1> HIDE DEF r
<1>3. DOMAIN r = 1..Len(r) /\ DOMAIN s = 1..Len(s)
  BY <1>2
<1>4. ASSUME NEW v \in ToSet(r) PROVE v \in ToSet(s) \cap S
  <2>1. PICK i \in 1..Len(r) : v = r[i]
    BY <1>3 DEF ToSet
  <2> QED
    BY <1>1, <1>3, <2>1 DEF Embeds, ToSet
<1>5. ASSUME NEW v \in ToSet(s) \cap S PROVE v \in ToSet(r)
  <2>1. PICK k \in 1..Len(s) : v = s[k]
    BY <1>3 DEF ToSet
  <2>2. PICK i \in 1..Len(r) : e[i] = k
    BY <1>1, <2>1 DEF Embeds
  <2> QED
    BY <1>1, <1>3, <2>1, <2>2 DEF Embeds, ToSet
<1> QED
  BY <1>2, <1>4, <1>5 DEF r

\* A filter keeps the elements distinct and in their order.
LEMMA OnlyOrder ==
  ASSUME NEW T, NEW s \in Seq(T), NEW S
  PROVE  /\ IsInjective(s) => IsInjective(Only(s, S))
         /\ \A i, j \in 1..Len(Only(s, S)) : i < j =>
              \E k, l \in 1..Len(s) : k < l /\ Only(s, S)[i] = s[k] /\ Only(s, S)[j] = s[l]
<1> DEFINE r == Only(s, S)
<1>1. PICK e : Embeds(e, r, s, Len(s), S)
  BY OnlyEmbeds
<1>2. r \in Seq(T)
  BY OnlyEmbeds
<1> HIDE DEF r
<1>3. Len(r) \in Nat /\ Len(s) \in Nat /\ DOMAIN r = 1..Len(r) /\ DOMAIN s = 1..Len(s)
  BY <1>2
<1>4. \A i, j \in 1..Len(r) : i < j =>
        \E k, l \in 1..Len(s) : k < l /\ r[i] = s[k] /\ r[j] = s[l]
  BY <1>1 DEF Embeds
<1>5. ASSUME IsInjective(s), NEW i \in 1..Len(r), NEW j \in 1..Len(r), r[i] = r[j], i # j
      PROVE  FALSE
  <2>1. /\ e[i] \in 1..Len(s) /\ e[j] \in 1..Len(s) /\ s[e[i]] = s[e[j]]
        /\ i < j => e[i] < e[j]
        /\ j < i => e[j] < e[i]
    BY <1>1, <1>5 DEF Embeds
  <2>2. e[i] = e[j]
    BY <1>3, <1>5, <2>1 DEF IsInjective
  <2> QED
    BY <1>3, <1>5, <2>1, <2>2
<1> QED
  BY <1>3, <1>4, <1>5 DEF r, IsInjective

-----------------------------------------------------------------------------
(* The elements of a sequence. *)

LEMMA ElementsOf ==
  ASSUME NEW T, NEW s \in Seq(T)
  PROVE  /\ ToSet(s) \subseteq T
         /\ DOMAIN s = 1..Len(s) /\ Len(s) \in Nat
         /\ \A v : v \in ToSet(s) <=> \E i \in 1..Len(s) : s[i] = v
         /\ \A i \in 1..Len(s) : s[i] \in ToSet(s)
         /\ IsInjective(s) <=> \A i, j \in 1..Len(s) : s[i] = s[j] => i = j
         /\ ToSet(s) = {} <=> s = <<>>
<1>1. DOMAIN s = 1..Len(s) /\ Len(s) \in Nat /\ \A i \in 1..Len(s) : s[i] \in T
  OBVIOUS
<1>2. \A v : v \in ToSet(s) <=> \E i \in 1..Len(s) : s[i] = v
  BY <1>1 DEF ToSet
<1>3. IsInjective(s) <=> \A i, j \in 1..Len(s) : s[i] = s[j] => i = j
  BY <1>1 DEF IsInjective
<1>4. ASSUME s # <<>> PROVE ToSet(s) # {}
  <2>1. 1 \in 1..Len(s)
    BY <1>4
  <2> QED
    BY <1>2, <2>1
<1>5. s = <<>> => ToSet(s) = {}
  <2>1. s = <<>> => Len(s) = 0
    OBVIOUS
  <2> QED
    BY <1>2, <2>1
<1> QED
  BY <1>1, <1>2, <1>3, <1>4, <1>5

LEMMA SequenceOver ==
  ASSUME NEW T, NEW s \in Seq(T), NEW U, ToSet(s) \subseteq U
  PROVE  s \in Seq(U)
<1>1. DOMAIN s = 1..Len(s) /\ Len(s) \in Nat /\ \A i \in 1..Len(s) : s[i] \in U
  BY ElementsOf
<1> QED
  BY <1>1

LEMMA ConcatElements ==
  ASSUME NEW T, NEW s \in Seq(T), NEW t \in Seq(T)
  PROVE  /\ s \o t \in Seq(T)
         /\ ToSet(s \o t) = ToSet(s) \cup ToSet(t)
         /\ IsInjective(s) /\ IsInjective(t) /\ ToSet(s) \cap ToSet(t) = {} => IsInjective(s \o t)
<1> DEFINE r == s \o t
<1>1. /\ r \in Seq(T) /\ Len(r) = Len(s) + Len(t) /\ Len(s) \in Nat /\ Len(t) \in Nat
      /\ \A i \in 1..Len(r) : r[i] = IF i <= Len(s) THEN s[i] ELSE t[i - Len(s)]
  OBVIOUS
<1> HIDE DEF r
<1>2. /\ \A i \in 1..Len(s) : i \in 1..Len(r) /\ r[i] = s[i]
      /\ \A i \in 1..Len(t) : i + Len(s) \in 1..Len(r) /\ r[i + Len(s)] = t[i]
  <2>1. \A i \in 1..Len(s) : i \in 1..Len(r) /\ r[i] = s[i]
    BY <1>1
  <2>2. ASSUME NEW i \in 1..Len(t)
        PROVE  i + Len(s) \in 1..Len(r) /\ r[i + Len(s)] = t[i]
    <3>1. i + Len(s) \in 1..Len(r) /\ ~(i + Len(s) <= Len(s)) /\ (i + Len(s)) - Len(s) = i
      BY <1>1
    <3>2. r[i + Len(s)] = t[(i + Len(s)) - Len(s)]
      BY <1>1, <3>1
    <3> QED
      BY <3>1, <3>2
  <2> QED
    BY <2>1, <2>2
<1>3. \A i \in 1..Len(r) :
        \/ i \in 1..Len(s) /\ r[i] = s[i]
        \/ i - Len(s) \in 1..Len(t) /\ r[i] = t[i - Len(s)]
  BY <1>1
<1>4. ToSet(r) = ToSet(s) \cup ToSet(t)
  <2>1. /\ \A v : v \in ToSet(r) <=> \E i \in 1..Len(r) : r[i] = v
        /\ \A v : v \in ToSet(s) <=> \E i \in 1..Len(s) : s[i] = v
        /\ \A v : v \in ToSet(t) <=> \E i \in 1..Len(t) : t[i] = v
    BY <1>1, ElementsOf
  <2>2. ASSUME NEW v \in ToSet(r) PROVE v \in ToSet(s) \cup ToSet(t)
    BY <1>3, <2>1, <2>2
  <2>3. ASSUME NEW v \in ToSet(s) \cup ToSet(t) PROVE v \in ToSet(r)
    BY <1>2, <2>1, <2>3
  <2> QED
    BY <2>2, <2>3
<1>5. ASSUME IsInjective(s), IsInjective(t), ToSet(s) \cap ToSet(t) = {},
             NEW i \in 1..Len(r), NEW j \in 1..Len(r), r[i] = r[j]
      PROVE  i = j
  <2>1. ASSUME NEW a \in 1..Len(s), NEW b \in 1..Len(t) PROVE s[a] # t[b]
    BY <1>5, <2>1, ElementsOf
  <2>2. CASE i \in 1..Len(s) /\ j \in 1..Len(s)
    BY <1>2, <1>5, <2>2, ElementsOf
  <2> DEFINE InS(k) == k \in 1..Len(s) /\ r[k] = s[k]
             InT(k) == k - Len(s) \in 1..Len(t) /\ r[k] = t[k - Len(s)]
  <2>3. CASE InT(i) /\ InT(j)
    <3>1. t[i - Len(s)] = t[j - Len(s)]
      BY <1>5, <2>3
    <3>2. \A a, b \in 1..Len(t) : t[a] = t[b] => a = b
      BY <1>5, ElementsOf
    <3>3. i - Len(s) = j - Len(s)
      BY <2>3, <3>1, <3>2
    <3> QED
      BY <1>1, <3>3
  <2>4. ASSUME NEW a, NEW b, r[a] = r[b], InS(a), InT(b) PROVE FALSE
    BY <2>1, <2>4
  <2>5. (InS(i) \/ InT(i)) /\ (InS(j) \/ InT(j))
    BY <1>3
  <2> HIDE DEF InT
  <2> QED
    BY <1>5, <2>2, <2>3, <2>4, <2>5
<1> QED
  BY <1>1, <1>4, <1>5, ElementsOf DEF r

LEMMA AppendElements ==
  ASSUME NEW T, NEW s \in Seq(T), NEW v \in T
  PROVE  /\ Append(s, v) \in Seq(T)
         /\ ToSet(Append(s, v)) = ToSet(s) \cup {v}
         /\ IsInjective(s) /\ v \notin ToSet(s) => IsInjective(Append(s, v))
<1> DEFINE r == Append(s, v)
<1>1. /\ r \in Seq(T) /\ Len(r) = Len(s) + 1 /\ Len(s) \in Nat
      /\ r[Len(s) + 1] = v /\ \A i \in 1..Len(s) : r[i] = s[i]
  OBVIOUS
<1> HIDE DEF r
<1>2. 1..Len(r) = 1..Len(s) \cup {Len(s) + 1}
  BY <1>1
<1>3. ToSet(r) = ToSet(s) \cup {v}
  <2>1. \A x : (\E i \in 1..Len(r) : r[i] = x) <=> (\E i \in 1..Len(s) : s[i] = x) \/ x = v
    BY <1>1, <1>2
  <2> QED
    BY <1>1, <2>1, ElementsOf
<1>4. ASSUME IsInjective(s), v \notin ToSet(s) PROVE IsInjective(r)
  <2>1. \A i \in 1..Len(s) : s[i] # v
    BY <1>4, ElementsOf
  <2>2. \A i, j \in 1..Len(s) : s[i] = s[j] => i = j
    BY <1>4, ElementsOf
  <2>3. \A i, j \in 1..Len(r) : r[i] = r[j] => i = j
    BY <1>1, <1>2, <2>1, <2>2
  <2> QED
    BY <1>1, <2>3, ElementsOf
<1> QED
  BY <1>1, <1>3, <1>4 DEF r

LEMMA TailElements ==
  ASSUME NEW T, NEW s \in Seq(T), s # <<>>
  PROVE  /\ Head(s) \in T /\ Tail(s) \in Seq(T) /\ Head(s) \in ToSet(s)
         /\ ToSet(s) = {Head(s)} \cup ToSet(Tail(s))
         /\ IsInjective(s) => IsInjective(Tail(s)) /\ Head(s) \notin ToSet(Tail(s))
<1> DEFINE t == Tail(s)
<1>1. /\ Len(s) \in Nat /\ Len(s) >= 1 /\ Head(s) = s[1] /\ s[1] \in T
      /\ t \in Seq(T) /\ Len(t) = Len(s) - 1
      /\ \A i \in 1..Len(t) : t[i] = s[i + 1]
  OBVIOUS
<1> HIDE DEF t
<1>2. \A i \in 1..Len(s) : i = 1 \/ (i - 1 \in 1..Len(t) /\ t[i - 1] = s[i])
  BY <1>1
<1>3. \A i \in 1..Len(t) : i + 1 \in 1..Len(s) /\ t[i] = s[i + 1]
  BY <1>1
<1>4. 1 \in 1..Len(s)
  BY <1>1
<1>5. ToSet(s) = {Head(s)} \cup ToSet(t)
  <2>1. /\ \A v : v \in ToSet(s) <=> \E i \in 1..Len(s) : s[i] = v
        /\ \A v : v \in ToSet(t) <=> \E i \in 1..Len(t) : t[i] = v
    BY <1>1, ElementsOf
  <2>2. ASSUME NEW v \in ToSet(s) PROVE v \in {Head(s)} \cup ToSet(t)
    BY <1>1, <1>2, <2>1, <2>2
  <2>3. ASSUME NEW v \in {Head(s)} \cup ToSet(t) PROVE v \in ToSet(s)
    BY <1>1, <1>3, <1>4, <2>1, <2>3
  <2> QED
    BY <2>2, <2>3
<1>6. ASSUME IsInjective(s) PROVE IsInjective(t) /\ Head(s) \notin ToSet(t)
  <2>1. \A i, j \in 1..Len(s) : s[i] = s[j] => i = j
    BY <1>6, ElementsOf
  <2>2. ASSUME NEW i \in 1..Len(t), NEW j \in 1..Len(t), t[i] = t[j] PROVE i = j
    <3>1. i + 1 = j + 1
      BY <1>3, <2>1, <2>2
    <3> QED
      BY <3>1
  <2>3. \A i \in 1..Len(t) : t[i] # s[1]
    <3>1. \A i \in 1..Len(t) : i + 1 # 1
      OBVIOUS
    <3> QED
      BY <1>3, <1>4, <2>1, <3>1
  <2> QED
    BY <1>1, <2>2, <2>3, ElementsOf
<1> QED
  BY <1>1, <1>4, <1>5, <1>6, ElementsOf DEF t

-----------------------------------------------------------------------------
(* The graph of a dashboard. *)

LEMMA NamesFinite == IsFiniteSet(Names) /\ Keys \in Seq(Names)
<1>1. Keys \in Seq(Names)
  BY GraphAssumption
<1>2. DOMAIN Keys = 1..Len(Keys) /\ Len(Keys) \in Nat
  BY <1>1
<1>3. IsFiniteSet({Keys[i] : i \in 1..Len(Keys)})
  <2>1. IsFiniteSet(1..Len(Keys))
    BY <1>2, FS_Interval
  <2> DEFINE f == [i \in 1..Len(Keys) |-> Keys[i]]
  <2>2. f \in Surjection(1..Len(Keys), {Keys[i] : i \in 1..Len(Keys)})
    BY DEF Surjection
  <2> HIDE DEF f
  <2> QED
    BY <2>1, <2>2, FS_Surjection
<1> QED
  BY <1>1, <1>2, <1>3 DEF Names, ToSet

LEMMA Dashboard ==
  ASSUME NEW d, IsDashboard(d)
  PROVE  /\ d.names \subseteq Names /\ d.query \subseteq d.names /\ IsFiniteSet(d.names)
         /\ \A p, c : <<p, c>> \in d.refs => p \in d.names /\ c \in d.query
         /\ \A v : Parents(d, v) \subseteq d.names /\ IsFiniteSet(Parents(d, v))
         /\ \A p, c : p \in Parents(d, c) <=> <<p, c>> \in d.refs
<1>1. d.names \subseteq Names /\ d.query \subseteq d.names /\ d.refs \subseteq d.names \X d.query
  BY DEF IsDashboard
<1>2. IsFiniteSet(d.names)
  BY <1>1, NamesFinite, FS_Subset
<1>3. \A p, c : <<p, c>> \in d.refs => p \in d.names /\ c \in d.query
  BY <1>1
<1>4. \A v : Parents(d, v) \subseteq d.names
  BY DEF Parents
<1> QED
  BY <1>1, <1>2, <1>3, <1>4, FS_Subset DEF Parents

LEMMA ChildrenAre ==
  ASSUME NEW d, IsDashboard(d), NEW v
  PROVE  /\ Children(d, v) \in Seq(d.names) /\ IsInjective(Children(d, v))
         /\ ToSet(Children(d, v)) = {c \in d.query : <<v, c>> \in d.refs}
<1> DEFINE S == {c \in d.query : <<v, c>> \in d.refs}
<1>1. Keys \in Seq(Names) /\ IsInjective(Keys)
  BY GraphAssumption
<1>2. Children(d, v) = Only(Keys, S)
  BY DEF Children
<1>3. S \subseteq ToSet(Keys) /\ S \subseteq d.names
  BY Dashboard DEF Names
<1> HIDE DEF S
<1>4. Only(Keys, S) \in Seq(Names) /\ ToSet(Only(Keys, S)) = ToSet(Keys) \cap S
  BY <1>1, OnlyElements
<1>5. ToSet(Only(Keys, S)) = S
  BY <1>3, <1>4
<1>6. Only(Keys, S) \in Seq(d.names)
  BY <1>3, <1>4, <1>5, SequenceOver
<1>7. IsInjective(Only(Keys, S))
  BY <1>1, OnlyOrder
<1> QED
  BY <1>2, <1>5, <1>6, <1>7 DEF S

-----------------------------------------------------------------------------
(* Kahn's algorithm. *)

\* The queue holds what is ready and not listed yet: all of whose parents are
\* listed; a degree counts the parents that are not.
KahnInvariant(d, k) ==
  /\ IsInjective(k.queue) /\ IsInjective(k.order)
  /\ ToSet(k.queue) \cap ToSet(k.order) = {}
  /\ \A c \in d.names : k.degree[c] = Cardinality(Parents(d, c) \ ToSet(k.order))
  /\ \A c \in d.names :
       c \in ToSet(k.queue) \cup ToSet(k.order) <=> Parents(d, c) \subseteq ToSet(k.order)
  /\ \A i, j \in 1..Len(k.order) : <<k.order[i], k.order[j]>> \in d.refs => i < j

KahnStates(d) ==
  {k \in [queue : Seq(d.names), degree : [d.names -> Int], order : Seq(d.names)] :
     KahnInvariant(d, k)}

\* The number of a variable's parents that are outside S
LEMMA Unlisted ==
  ASSUME NEW d, IsDashboard(d), NEW c \in d.names, NEW S
  PROVE  /\ Cardinality(Parents(d, c) \ S) \in Nat
         /\ Cardinality(Parents(d, c) \ S) = 0 <=> Parents(d, c) \subseteq S
<1>1. IsFiniteSet(Parents(d, c) \ S)
  BY Dashboard, FS_Subset
<1> QED
  BY <1>1, FS_CardinalityType, FS_EmptySet

LEMMA KahnStarts ==
  ASSUME NEW d, IsDashboard(d)
  PROVE  Kahn0(d) \in KahnStates(d)
<1> DEFINE R == {v \in d.names : Parents(d, v) = {}}
           q == Only(Listed(d), R)
           degree == [v \in d.names |-> Cardinality(Parents(d, v))]
<1>1. /\ Keys \in Seq(Names) /\ IsInjective(Keys) /\ d.names \subseteq ToSet(Keys)
      /\ R \subseteq d.names
  BY GraphAssumption, Dashboard DEF Names
<1>2. Listed(d) \in Seq(Names) /\ ToSet(Listed(d)) = d.names /\ IsInjective(Listed(d))
  <2>1. Only(Keys, d.names) \in Seq(Names) /\ ToSet(Only(Keys, d.names)) = ToSet(Keys) \cap d.names
    BY <1>1, OnlyElements
  <2>2. IsInjective(Only(Keys, d.names))
    BY <1>1, OnlyOrder
  <2> QED
    BY <1>1, <2>1, <2>2 DEF Listed
<1>3. q \in Seq(Names) /\ ToSet(q) = R /\ IsInjective(q)
  BY <1>1, <1>2, OnlyElements, OnlyOrder
<1>4. q \in Seq(d.names)
  BY <1>1, <1>3, SequenceOver
<1>5. Kahn0(d) = [queue |-> q, degree |-> degree, order |-> <<>>]
  BY DEF Kahn0
<1>6. \A c \in d.names : Cardinality(Parents(d, c)) \in Nat
  BY Dashboard, FS_CardinalityType
<1>7. degree \in [d.names -> Int]
  BY <1>6
<1>8. <<>> \in Seq(d.names) /\ ToSet(<<>>) = {} /\ IsInjective(<<>>) /\ Len(<<>>) = 0
  <2>1. <<>> \in Seq(d.names) /\ Len(<<>>) = 0
    OBVIOUS
  <2>2. ToSet(<<>>) = {}
    BY <2>1, ElementsOf
  <2>3. IsInjective(<<>>)
    BY <2>1, ElementsOf
  <2> QED
    BY <2>1, <2>2, <2>3
<1>9. \A c \in d.names : degree[c] = Cardinality(Parents(d, c) \ {})
  OBVIOUS
<1>10. \A c \in d.names : c \in R <=> Parents(d, c) \subseteq {}
  OBVIOUS
<1> HIDE DEF q, R, degree
<1>11. KahnInvariant(d, [queue |-> q, degree |-> degree, order |-> <<>>])
  <2> DEFINE k == [queue |-> q, degree |-> degree, order |-> <<>>]
  <2>1. k.queue = q /\ k.degree = degree /\ k.order = <<>>
    OBVIOUS
  <2>2. \A i, j \in 1..Len(<<>>) : FALSE
    BY <1>8
  <2> HIDE DEF k
  <2>3. KahnInvariant(d, k)
    BY <1>3, <1>8, <1>9, <1>10, <2>1, <2>2 DEF KahnInvariant
  <2> QED
    BY <2>3 DEF k
<1> QED
  BY <1>4, <1>5, <1>7, <1>8, <1>11 DEF KahnStates

\* A round lists the head of the queue and queues what that makes ready.
LEMMA KahnGoesOn ==
  ASSUME NEW d, IsDashboard(d), NEW k \in KahnStates(d), k.queue # <<>>
  PROVE  /\ KahnNext(d, k) \in KahnStates(d)
         /\ Len(KahnNext(d, k).order) = Len(k.order) + 1
<1> DEFINE v == Head(k.queue)
           degree == Degrees(d, k, v)
           Z == {c \in d.names : degree[c] = 0}
           more == Only(Children(d, v), Z)
           q == Tail(k.queue) \o more
           order == Append(k.order, v)
           L == ToSet(k.order)
           n == [queue |-> q, degree |-> degree, order |-> order]
<1>1. KahnNext(d, k) = n
  BY DEF KahnNext
<1>2. /\ k.queue \in Seq(d.names) /\ k.order \in Seq(d.names) /\ k.degree \in [d.names -> Int]
      /\ KahnInvariant(d, k)
  BY DEF KahnStates
<1>3. /\ v \in d.names /\ Tail(k.queue) \in Seq(d.names) /\ v \in ToSet(k.queue)
      /\ ToSet(k.queue) = {v} \cup ToSet(Tail(k.queue))
      /\ IsInjective(Tail(k.queue)) /\ v \notin ToSet(Tail(k.queue))
  BY <1>2, TailElements DEF KahnInvariant
<1>4. v \notin L
  BY <1>2, <1>3 DEF KahnInvariant
<1>5. order \in Seq(d.names) /\ ToSet(order) = L \cup {v} /\ IsInjective(order)
  <2>1. IsInjective(k.order)
    BY <1>2 DEF KahnInvariant
  <2>2. k.order \in Seq(d.names) /\ v \in d.names
    BY <1>2, <1>3
  <2> DEFINE s == k.order
  <2> HIDE DEF v, s
  <2>3. s \in Seq(d.names) /\ IsInjective(s) /\ v \notin ToSet(s)
    BY <1>4, <2>1, <2>2 DEF s
  <2>4. /\ Append(s, v) \in Seq(d.names) /\ IsInjective(Append(s, v))
        /\ ToSet(Append(s, v)) = ToSet(s) \cup {v}
    BY <2>2, <2>3, AppendElements
  <2> QED
    BY <2>4 DEF s
<1>6. /\ Children(d, v) \in Seq(d.names) /\ IsInjective(Children(d, v))
      /\ ToSet(Children(d, v)) = {c \in d.query : <<v, c>> \in d.refs}
  BY ChildrenAre
<1>7. ASSUME NEW c \in d.names
      PROVE  degree[c] = Cardinality(Parents(d, c) \ (L \cup {v}))
  <2>1. k.degree[c] = Cardinality(Parents(d, c) \ L)
    BY <1>2 DEF KahnInvariant
  <2>2. CASE <<v, c>> \in d.refs
    <3>1. v \in Parents(d, c) \ L
      BY <1>4, <2>2, Dashboard
    <3>2. IsFiniteSet(Parents(d, c) \ L)
      BY Dashboard, FS_Subset
    <3>3. Cardinality((Parents(d, c) \ L) \ {v}) = Cardinality(Parents(d, c) \ L) - 1
      BY <3>1, <3>2, FS_RemoveElement
    <3>4. (Parents(d, c) \ L) \ {v} = Parents(d, c) \ (L \cup {v})
      OBVIOUS
    <3> QED
      BY <2>1, <2>2, <3>3, <3>4 DEF Degrees
  <2>3. CASE <<v, c>> \notin d.refs
    <3>1. v \notin Parents(d, c)
      BY <2>3, Dashboard
    <3>2. Parents(d, c) \ (L \cup {v}) = Parents(d, c) \ L
      BY <3>1
    <3> QED
      BY <2>1, <2>3, <3>2 DEF Degrees
  <2> QED
    BY <2>2, <2>3
<1>8. degree \in [d.names -> Int]
  BY <1>2 DEF Degrees
<1> HIDE DEF degree, v
<1>9. \A c \in d.names : c \in Z <=> Parents(d, c) \subseteq L \cup {v}
  <2> SUFFICES ASSUME NEW c \in d.names
               PROVE  c \in Z <=> Parents(d, c) \subseteq L \cup {v}
    OBVIOUS
  <2> DEFINE S == L \cup {v}
  <2>1. degree[c] = Cardinality(Parents(d, c) \ S)
    BY <1>7
  <2> HIDE DEF S
  <2>2. degree[c] = 0 <=> Parents(d, c) \subseteq S
    BY <2>1, Unlisted
  <2> QED
    BY <2>2 DEF S
<1> HIDE DEF Z
<1>10. /\ more \in Seq(d.names) /\ IsInjective(more)
       /\ ToSet(more) = {c \in d.query : <<v, c>> \in d.refs} \cap Z
  BY <1>6, OnlyElements, OnlyOrder
<1>11. ASSUME NEW c \in ToSet(more)
       PROVE  c \notin ToSet(k.queue) /\ c \notin L
  <2>1. c \in d.names /\ v \in Parents(d, c)
    BY <1>10, <1>11, Dashboard
  <2>2. ~(Parents(d, c) \subseteq L)
    BY <1>4, <2>1
  <2> QED
    BY <1>2, <2>1, <2>2 DEF KahnInvariant
<1> HIDE DEF more
<1>12. /\ q \in Seq(d.names) /\ ToSet(q) = ToSet(Tail(k.queue)) \cup ToSet(more)
       /\ IsInjective(q)
  <2>1. ToSet(Tail(k.queue)) \cap ToSet(more) = {}
    BY <1>3, <1>11
  <2> QED
    <3> DEFINE s == Tail(k.queue)
    <3>1. s \in Seq(d.names) /\ IsInjective(s) /\ ToSet(s) \cap ToSet(more) = {}
      BY <1>3, <2>1
    <3> HIDE DEF s
    <3>2. /\ s \o more \in Seq(d.names) /\ IsInjective(s \o more)
          /\ ToSet(s \o more) = ToSet(s) \cup ToSet(more)
      BY <1>10, <3>1, ConcatElements
    <3> QED
      BY <3>2 DEF s
<1>13. ToSet(q) \cap (L \cup {v}) = {}
  BY <1>2, <1>3, <1>11, <1>12 DEF KahnInvariant
<1>14. ASSUME NEW c \in d.names
       PROVE  c \in ToSet(q) \cup (L \cup {v}) <=> Parents(d, c) \subseteq L \cup {v}
  <2>1. c \in ToSet(k.queue) \cup L <=> Parents(d, c) \subseteq L
    BY <1>2 DEF KahnInvariant
  <2>2. CASE v \in Parents(d, c)
    <3>1. c \in d.query /\ <<v, c>> \in d.refs /\ ~(Parents(d, c) \subseteq L)
      BY <1>4, <2>2, Dashboard
    <3>2. c \notin ToSet(k.queue) \cup L
      BY <2>1, <3>1
    <3> QED
      BY <1>3, <1>9, <1>10, <1>12, <3>1, <3>2
  <2>3. CASE v \notin Parents(d, c)
    <3>1. c \notin ToSet(more)
      BY <1>10, <2>3, Dashboard
    <3>2. Parents(d, c) \subseteq L \cup {v} <=> Parents(d, c) \subseteq L
      BY <2>3
    <3> QED
      BY <1>3, <1>12, <2>1, <3>1, <3>2
  <2> QED
    BY <2>2, <2>3
<1>15. /\ Len(k.order) \in Nat /\ Len(order) = Len(k.order) + 1 /\ order[Len(k.order) + 1] = v
       /\ \A i \in 1..Len(k.order) : order[i] = k.order[i] /\ k.order[i] \in L
  <2>1. k.order \in Seq(d.names) /\ v \in d.names
    BY <1>2, <1>3
  <2>2. \A i \in 1..Len(k.order) : k.order[i] \in L
    BY <2>1, ElementsOf
  <2> HIDE DEF L
  <2> QED
    BY <2>1, <2>2
<1>16. \A i, j \in 1..Len(order) : <<order[i], order[j]>> \in d.refs => i < j
  <2> SUFFICES ASSUME NEW i \in 1..Len(order), NEW j \in 1..Len(order),
                      <<order[i], order[j]>> \in d.refs
               PROVE  i < j
    OBVIOUS
  <2>1. v \in ToSet(k.queue) \cup L /\ Parents(d, v) \subseteq L
    BY <1>2, <1>3 DEF KahnInvariant
  <2>2. CASE j = Len(k.order) + 1
    <3>1. order[i] \in L
      BY <1>15, <2>1, <2>2, Dashboard
    <3>2. i # Len(k.order) + 1
      BY <1>4, <1>15, <3>1
    <3> QED
      BY <1>15, <2>2, <3>2
  <2>3. CASE j # Len(k.order) + 1
    <3>1. j \in 1..Len(k.order) /\ order[j] = k.order[j] /\ order[j] \in L
      BY <1>15, <2>3
    <3>2. order[j] \in d.names /\ Parents(d, order[j]) \subseteq L
      <4>1. order[j] \in d.names
        BY <1>2, <3>1
      <4> QED
        BY <1>2, <3>1, <4>1 DEF KahnInvariant
    <3>3. order[i] \in L
      BY <3>2, Dashboard
    <3>4. i \in 1..Len(k.order) /\ order[i] = k.order[i]
      BY <1>4, <1>15, <3>3
    <3> QED
      BY <1>2, <3>1, <3>4 DEF KahnInvariant
  <2> QED
    BY <2>2, <2>3
<1> HIDE DEF q, order, L
<1>17. KahnInvariant(d, n)
  <2>1. n.queue = q /\ n.degree = degree /\ n.order = order
    OBVIOUS
  <2> HIDE DEF n
  <2> QED
    BY <1>5, <1>7, <1>12, <1>13, <1>14, <1>16, <2>1 DEF KahnInvariant
<1>18. n \in KahnStates(d)
  BY <1>5, <1>8, <1>12, <1>17 DEF KahnStates
<1> QED
  BY <1>1, <1>15, <1>18

LEMMA KahnRounds ==
  ASSUME NEW d, IsDashboard(d)
  PROVE  \E f \in [0..Cardinality(d.names) -> KahnStates(d)] :
           /\ f[0] = Kahn0(d)
           /\ \A n \in 1..Cardinality(d.names) : f[n] = KahnNext(d, f[n - 1])
           /\ TopologicalOrder(d) = f[Cardinality(d.names)].order
<1> DEFINE N == Cardinality(d.names)
           W == KahnStates(d)
           w0 == Kahn0(d)
           step == [x \in (1..N) \X W |-> KahnNext(d, x[2])]
           kahn == CHOOSE kahn : kahn = [n \in 0..N |->
                     IF n = 0 THEN Kahn0(d) ELSE KahnNext(d, kahn[n - 1])]
<1>1. N \in Nat /\ w0 \in W
  BY Dashboard, FS_CardinalityType, KahnStarts
<1>2. ASSUME NEW w \in W PROVE KahnNext(d, w) \in W
  <2>1. CASE w.queue = <<>>
    BY <2>1 DEF KahnNext
  <2>2. CASE w.queue # <<>>
    BY <2>2, KahnGoesOn
  <2> QED
    BY <2>1, <2>2
<1> HIDE DEF W
<1>3. \A n \in 1..N, w \in W : step[<<n, w>>] = KahnNext(d, w)
  OBVIOUS
<1>4. TopologicalOrder(d) = kahn[N].order
  BY DEF TopologicalOrder
<1> HIDE DEF N, step
<1>5. PICK f \in [0..N -> W] : Iterates(f, N, w0, step)
  <2>1. \A n \in 1..N, w \in W : step[<<n, w>>] \in W
    BY <1>2, <1>3
  <2> HIDE DEF w0
  <2> QED
    BY <1>1, <2>1, Iterated
<1>6. f[0] = w0 /\ \A n \in 1..N : f[n] = KahnNext(d, f[n - 1])
  <2>1. ASSUME NEW n \in 1..N PROVE f[n] = KahnNext(d, f[n - 1])
    <3>1. n - 1 \in 0..N
      BY <1>1
    <3>2. f[n - 1] \in W /\ f[n] = step[<<n, f[n - 1]>>]
      BY <1>5, <3>1 DEF Iterates
    <3> QED
      BY <1>3, <3>2
  <2> QED
    BY <1>5, <2>1 DEF Iterates
<1> HIDE DEF w0
<1>7. f = [n \in 0..N |-> IF n = 0 THEN w0 ELSE KahnNext(d, f[n - 1])]
  <2> DEFINE g == [n \in 0..N |-> IF n = 0 THEN w0 ELSE KahnNext(d, f[n - 1])]
  <2>1. ASSUME NEW n \in 0..N PROVE f[n] = g[n]
    <3>1. n # 0 => n \in 1..N
      BY <1>1
    <3> QED
      BY <1>6, <3>1
  <2> QED
    BY <2>1
<1>8. kahn = [n \in 0..N |-> IF n = 0 THEN w0 ELSE KahnNext(d, kahn[n - 1])]
  BY <1>7 DEF w0
<1> HIDE DEF kahn
<1>9. \A n \in 1..N : n \in 0..N /\ n # 0 /\ n - 1 \in 0..N
  BY <1>1
<1>10. kahn[0] = w0 /\ \A n \in 1..N : kahn[n] = KahnNext(d, kahn[n - 1])
  BY <1>1, <1>8, <1>9
<1>11. \A n \in 0..N : kahn[n] = f[n]
  <2> DEFINE P == {n \in Nat : n <= N => kahn[n] = f[n]}
  <2>1. 0 \in P
    BY <1>6, <1>10
  <2>2. ASSUME NEW n \in Nat, n \in P
        PROVE  n + 1 \in P
    <3> SUFFICES ASSUME n + 1 <= N PROVE kahn[n + 1] = f[n + 1]
      OBVIOUS
    <3>1. n + 1 \in 1..N /\ (n + 1) - 1 = n /\ n <= N
      BY <1>1
    <3>2. kahn[n] = f[n]
      BY <2>2, <3>1
    <3> QED
      BY <1>6, <1>10, <3>1, <3>2
  <2> HIDE DEF P
  <2>3. Nat \subseteq P
    BY <2>1, <2>2, Induction
  <2> USE DEF P
  <2> QED
    BY <1>1, <2>3
<1>12. kahn[N] = f[N]
  BY <1>1, <1>11
<1> QED
  BY <1>4, <1>5, <1>6, <1>12 DEF W, N, w0

\* The algorithm lists exactly the variables whose parents it lists, each once
\* and after its parents.
LEMMA KahnLists ==
  ASSUME NEW d, IsDashboard(d)
  PROVE  LET order == TopologicalOrder(d)
         IN  /\ order \in Seq(d.names) /\ IsInjective(order)
             /\ \A c \in d.names : c \in ToSet(order) <=> Parents(d, c) \subseteq ToSet(order)
             /\ \A i, j \in 1..Len(order) : <<order[i], order[j]>> \in d.refs => i < j
<1> DEFINE N == Cardinality(d.names)
           W == KahnStates(d)
           order == TopologicalOrder(d)
<1>1. PICK f \in [0..N -> W] :
        /\ f[0] = Kahn0(d)
        /\ \A n \in 1..N : f[n] = KahnNext(d, f[n - 1])
        /\ order = f[N].order
  BY KahnRounds
<1>2. N \in Nat
  BY Dashboard, FS_CardinalityType
<1> HIDE DEF order
<1> DEFINE P == {n \in Nat : n <= N => f[n].queue = <<>> \/ Len(f[n].order) = n}
<1>3. 0 \in P
  <2>1. Kahn0(d).order = <<>> /\ Len(<<>>) = 0
    BY DEF Kahn0
  <2> QED
    BY <1>1, <2>1
<1>4. ASSUME NEW n \in Nat, n \in P
      PROVE  n + 1 \in P
  <2> SUFFICES ASSUME n + 1 <= N
               PROVE  f[n + 1].queue = <<>> \/ Len(f[n + 1].order) = n + 1
    OBVIOUS
  <2>1. n + 1 \in 1..N /\ (n + 1) - 1 = n /\ n <= N /\ n \in 0..N
    BY <1>2
  <2>2. /\ f[n + 1] = KahnNext(d, f[n]) /\ f[n] \in W
        /\ f[n].queue = <<>> \/ Len(f[n].order) = n
    BY <1>1, <1>4, <2>1
  <2>3. CASE f[n].queue = <<>>
    BY <2>2, <2>3 DEF KahnNext
  <2>4. CASE f[n].queue # <<>>
    BY <2>2, <2>4, KahnGoesOn
  <2> QED
    BY <2>3, <2>4
<1>5. N \in P
  <2> HIDE DEF P, N
  <2> QED
    BY <1>2, <1>3, <1>4, Induction
<1>6. f[N] \in W /\ (f[N].queue = <<>> \/ Len(order) = N)
  BY <1>1, <1>2, <1>5
<1> DEFINE k == f[N]
<1>7. /\ k.queue \in Seq(d.names) /\ order \in Seq(d.names) /\ k.order = order
      /\ KahnInvariant(d, k)
  BY <1>1, <1>6 DEF KahnStates
<1> HIDE DEF k
<1>8. IsInjective(order) /\ ToSet(k.queue) \cap ToSet(order) = {}
  BY <1>7 DEF KahnInvariant
<1>9. ToSet(k.queue) = {}
  <2>1. CASE k.queue = <<>>
    BY <1>7, <2>1, ElementsOf
  <2>2. CASE Len(order) = N
    <3>1. order \in Bijection(1..N, ToSet(order))
      <4>1. /\ DOMAIN order = 1..N /\ \A i \in 1..N : order[i] \in ToSet(order)
            /\ \A v \in ToSet(order) : \E i \in 1..N : order[i] = v
            /\ \A i, j \in 1..N : order[i] = order[j] => i = j
        BY <1>7, <1>8, <2>2, ElementsOf
      <4>2. order \in [1..N -> ToSet(order)]
        BY <1>7, <4>1
      <4> QED
        BY <4>1, <4>2 DEF Bijection, Injection, Surjection, IsInjective
    <3>2. IsFiniteSet(1..N) /\ Cardinality(1..N) = N
      BY <1>2, FS_Interval
    <3>3. IsFiniteSet(ToSet(order)) /\ Cardinality(ToSet(order)) = N
      <4>1. ExistsBijection(1..N, ToSet(order))
        BY <3>1 DEF ExistsBijection
      <4> QED
        BY <3>2, <4>1, FS_Bijection
    <3>4. ToSet(order) \subseteq d.names /\ ToSet(k.queue) \subseteq d.names
      BY <1>7, ElementsOf
    <3>5. ToSet(order) = d.names
      BY <3>3, <3>4, Dashboard, FS_Subset
    <3> QED
      BY <1>8, <3>4, <3>5
  <2> QED
    BY <1>6, <2>1, <2>2 DEF k
<1>10. \A c \in d.names : c \in ToSet(order) <=> Parents(d, c) \subseteq ToSet(order)
  BY <1>7, <1>9 DEF KahnInvariant
<1>11. \A i, j \in 1..Len(order) : <<order[i], order[j]>> \in d.refs => i < j
  BY <1>7 DEF KahnInvariant
<1> QED
  BY <1>7, <1>8, <1>10, <1>11 DEF order

-----------------------------------------------------------------------------
(* Descendants and cycles. *)

LEMMA DescendantsWithin ==
  ASSUME NEW d, NEW v, NEW S \in SUBSET d.query, Closed(d, S),
         \A c \in d.query : <<v, c>> \in d.refs => c \in S
  PROVE  Descendants(d, v) \subseteq S
BY DEF Descendants

\* Children are descendants, and so are the children of descendants.
LEMMA DescendantsAreClosed ==
  ASSUME NEW d, IsDashboard(d), NEW v
  PROVE  /\ Descendants(d, v) \subseteq d.query
         /\ \A c : <<v, c>> \in d.refs => c \in Descendants(d, v)
         /\ \A p, c : p \in Descendants(d, v) /\ <<p, c>> \in d.refs => c \in Descendants(d, v)
<1>1. \A p, c : <<p, c>> \in d.refs => c \in d.query
  BY Dashboard
<1>2. Descendants(d, v) \subseteq d.query
  BY DEF Descendants
<1>3. ASSUME NEW c, <<v, c>> \in d.refs PROVE c \in Descendants(d, v)
  BY <1>1, <1>3 DEF Descendants
<1>4. ASSUME NEW p, NEW c, p \in Descendants(d, v), <<p, c>> \in d.refs
      PROVE  c \in Descendants(d, v)
  <2>1. c \in d.query
    BY <1>1, <1>4
  <2>2. ASSUME NEW S \in SUBSET d.query, Closed(d, S),
               \A u \in d.query : <<v, u>> \in d.refs => u \in S
        PROVE  c \in S
    <3>1. p \in S
      BY <1>4, <2>2 DEF Descendants
    <3> QED
      BY <1>4, <2>1, <2>2, <3>1 DEF Closed
  <2> QED
    BY <2>1, <2>2 DEF Descendants
<1> QED
  BY <1>2, <1>3, <1>4

\* A descendant is a child, or a child of a descendant.
LEMMA DescendantHasParent ==
  ASSUME NEW d, IsDashboard(d), NEW v, NEW c \in Descendants(d, v)
  PROVE  \E p : <<p, c>> \in d.refs /\ (p = v \/ p \in Descendants(d, v))
<1> DEFINE S == {u \in d.query : \E p : <<p, u>> \in d.refs /\ (p = v \/ p \in Descendants(d, v))}
<1>1. \A u \in S : u \in Descendants(d, v)
  BY DescendantsAreClosed
<1>2. Closed(d, S)
  BY <1>1 DEF Closed
<1>3. \A u \in d.query : <<v, u>> \in d.refs => u \in S
  OBVIOUS
<1>4. S \subseteq d.query
  OBVIOUS
<1> HIDE DEF S
<1>5. Descendants(d, v) \subseteq S
  BY <1>2, <1>3, <1>4, DescendantsWithin
<1> QED
  BY <1>5 DEF S

LEMMA DescendantsOfDescendants ==
  ASSUME NEW d, IsDashboard(d), NEW v, NEW u \in Descendants(d, v)
  PROVE  Descendants(d, u) \subseteq Descendants(d, v)
<1> DEFINE S == Descendants(d, v)
<1>1. S \subseteq d.query /\ Closed(d, S)
  BY DescendantsAreClosed DEF Closed
<1>2. \A c \in d.query : <<u, c>> \in d.refs => c \in S
  BY DescendantsAreClosed
<1> HIDE DEF S
<1> QED
  BY <1>1, <1>2, DescendantsWithin DEF S

\* What the order of a dashboard is, whatever computed it
IsOrder(d, order) ==
  /\ order \in Seq(d.names) /\ IsInjective(order)
  /\ \A c \in d.names : c \in ToSet(order) <=> Parents(d, c) \subseteq ToSet(order)
  /\ \A i, j \in 1..Len(order) : <<order[i], order[j]>> \in d.refs => i < j

LEMMA TopologicalOrderIsOrder ==
  ASSUME NEW d, IsDashboard(d)
  PROVE  IsOrder(d, TopologicalOrder(d))
BY KahnLists DEF IsOrder

\* A descendant comes later in a sequence that lists the parents that are
\* queries, and lists them earlier.
LEMMA DescendantsComeLater ==
  ASSUME NEW d, IsDashboard(d), NEW T, NEW order \in Seq(T),
         \A c \in ToSet(order), p \in d.query : <<p, c>> \in d.refs => p \in ToSet(order),
         \A k, l \in 1..Len(order) : <<order[k], order[l]>> \in d.refs => k < l,
         NEW i \in 1..Len(order), NEW j \in 1..Len(order),
         order[j] \in Descendants(d, order[i])
  PROVE  i < j
<1> DEFINE S == {c \in d.query : \A k \in 1..Len(order) : order[k] = c => i < k}
<1>1. \A k \in 1..Len(order) : order[k] \in ToSet(order)
  BY ElementsOf
<1>2. \A c \in d.query : <<order[i], c>> \in d.refs => c \in S
  OBVIOUS
<1>3. ASSUME NEW p \in S, NEW c \in d.query, <<p, c>> \in d.refs
      PROVE  c \in S
  <2> SUFFICES ASSUME NEW k \in 1..Len(order), order[k] = c
               PROVE  i < k
    OBVIOUS
  <2>1. c \in ToSet(order) /\ p \in d.query
    BY <1>1
  <2>2. p \in ToSet(order)
    BY <1>3, <2>1
  <2>3. PICK l \in 1..Len(order) : order[l] = p
    BY <2>2, ElementsOf
  <2>4. i < l /\ l < k
    BY <1>3, <2>3
  <2>5. i \in Int /\ l \in Int /\ k \in Int
    OBVIOUS
  <2> QED
    BY <2>4, <2>5
<1>4. Closed(d, S)
  BY <1>3 DEF Closed
<1>5. S \subseteq d.query
  OBVIOUS
<1> HIDE DEF S
<1>6. order[j] \in S
  BY <1>2, <1>4, <1>5, DescendantsWithin
<1> QED
  BY <1>6 DEF S

LEMMA OrderListsDescendantsLater ==
  ASSUME NEW d, IsDashboard(d), NEW order, IsOrder(d, order),
         NEW i \in 1..Len(order), NEW j \in 1..Len(order),
         order[j] \in Descendants(d, order[i])
  PROVE  i < j
<1>1. order \in Seq(d.names) /\ ToSet(order) \subseteq d.names
  BY ElementsOf DEF IsOrder
<1>2. \A c \in ToSet(order), p \in d.query : <<p, c>> \in d.refs => p \in ToSet(order)
  <2> SUFFICES ASSUME NEW c \in ToSet(order), NEW p \in d.query, <<p, c>> \in d.refs
               PROVE  p \in ToSet(order)
    OBVIOUS
  <2>1. c \in d.names /\ p \in Parents(d, c)
    BY <1>1, Dashboard
  <2> QED
    BY <2>1 DEF IsOrder
<1>3. \A k, l \in 1..Len(order) : <<order[k], order[l]>> \in d.refs => k < l
  BY DEF IsOrder
<1> QED
  BY <1>1, <1>2, <1>3, DescendantsComeLater

\* The order lists nothing below what it does not list.
LEMMA UnlistedBelow ==
  ASSUME NEW d, IsDashboard(d), NEW order, IsOrder(d, order),
         NEW v, v \notin ToSet(order)
  PROVE  Descendants(d, v) \cap ToSet(order) = {}
<1> DEFINE S == d.query \ ToSet(order)
<1>1. \A p, c : c \in d.query /\ <<p, c>> \in d.refs /\ p \notin ToSet(order) => c \notin ToSet(order)
  BY Dashboard DEF IsOrder
<1>2. S \subseteq d.query /\ Closed(d, S) /\ \A c \in d.query : <<v, c>> \in d.refs => c \in S
  BY <1>1 DEF Closed
<1> HIDE DEF S
<1>3. Descendants(d, v) \subseteq S
  BY <1>2, DescendantsWithin
<1> QED
  BY <1>3 DEF S

\* A variable that the order does not list is on a cycle or fed by one.
LEMMA UnlistedIsCyclic ==
  ASSUME NEW d, IsDashboard(d), NEW order, IsOrder(d, order),
         NEW v \in d.names, v \notin ToSet(order)
  PROVE  v \in Cyclic(d)
<1> DEFINE D(a) == Descendants(d, a)
           A == {a \in d.names \ ToSet(order) : a = v \/ v \in D(a)}
           Rest(a) == d.names \ D(a)
           T == {Rest(a) : a \in A}
           R == StrictSubsetOrdering(d.names)
<1>1. IsWellFoundedOn(R, FiniteSubsetsOf(d.names))
  BY FS_StrictSubsetOrderingWellFounded
<1>2. T \subseteq FiniteSubsetsOf(d.names) /\ T # {}
  <2>1. ASSUME NEW a \in A PROVE Rest(a) \in FiniteSubsetsOf(d.names)
    <3>1. IsFiniteSet(Rest(a))
      BY Dashboard, FS_Subset
    <3> QED
      BY <3>1 DEF FiniteSubsetsOf
  <2>2. v \in A
    OBVIOUS
  <2> QED
    BY <2>1, <2>2
<1>3. PICK t \in T : \A u \in T : <<u, t>> \notin R
  <2> HIDE DEF R, T
  <2> QED
    BY <1>1, <1>2, WFMin
<1>4. PICK a \in A : t = Rest(a)
  OBVIOUS
<1>5. PICK p \in Parents(d, a) : p \notin ToSet(order)
  BY <1>4 DEF IsOrder
<1>6. p \in d.names /\ <<p, a>> \in d.refs
  BY Dashboard
<1>7. a \in D(p) /\ D(a) \subseteq D(p)
  BY <1>6, DescendantsAreClosed, DescendantsOfDescendants
<1>8. p \in A
  <2>1. v \in D(p)
    BY <1>4, <1>7
  <2> QED
    BY <1>5, <1>6, <2>1
<1>9. a \in D(a)
  <2> SUFFICES ASSUME a \notin D(a) PROVE FALSE
    OBVIOUS
  <2> HIDE DEF D
  <2>1. a \in Rest(a) /\ a \notin Rest(p) /\ Rest(p) \subseteq Rest(a)
    BY <1>4, <1>7
  <2>2. Rest(p) \in SUBSET d.names /\ Rest(a) \in SUBSET d.names
    OBVIOUS
  <2> HIDE DEF Rest
  <2>3. <<Rest(p), Rest(a)>> \in R
    BY <2>1, <2>2 DEF StrictSubsetOrdering
  <2> QED
    BY <1>3, <1>4, <1>8, <2>3
<1> QED
  BY <1>4, <1>9 DEF Cyclic

\* The order lists exactly what is outside cycles, and is as long as there
\* are names only when there is no cycle.
LEMMA OrderListsAcyclic ==
  ASSUME NEW d, IsDashboard(d), NEW order, IsOrder(d, order)
  PROVE  /\ ToSet(order) = d.names \ Cyclic(d)
         /\ Len(order) # Cardinality(d.names) <=> Cyclic(d) # {}
<1>1. order \in Seq(d.names)
  BY DEF IsOrder
<1>2. ToSet(order) \subseteq d.names
  BY <1>1, ElementsOf
<1>3. ASSUME NEW v \in d.names, v \notin ToSet(order) PROVE v \in Cyclic(d)
  BY <1>3, UnlistedIsCyclic
<1>4. ASSUME NEW v \in ToSet(order), v \in Cyclic(d) PROVE FALSE
  <2>1. PICK u \in d.names : u \in Descendants(d, u) /\ (v = u \/ v \in Descendants(d, u))
    BY <1>4 DEF Cyclic
  <2>2. u \notin ToSet(order)
    <3> SUFFICES ASSUME u \in ToSet(order) PROVE FALSE
      OBVIOUS
    <3>1. PICK i \in 1..Len(order) : order[i] = u
      BY <1>1, ElementsOf
    <3>2. i < i
      BY <2>1, <3>1, OrderListsDescendantsLater
    <3> QED
      BY <3>2
  <2> QED
    BY <1>4, <2>1, <2>2, UnlistedBelow
<1>5. ToSet(order) = d.names \ Cyclic(d)
  BY <1>2, <1>3, <1>4
<1>6. Len(order) = Cardinality(ToSet(order)) /\ IsFiniteSet(ToSet(order))
  <2> DEFINE N == Len(order)
  <2>1. /\ DOMAIN order = 1..N /\ \A i \in 1..N : order[i] \in ToSet(order)
        /\ \A v \in ToSet(order) : \E i \in 1..N : order[i] = v
        /\ \A i, j \in 1..N : order[i] = order[j] => i = j
    BY <1>1, ElementsOf DEF IsOrder
  <2>2. order \in [1..N -> ToSet(order)]
    BY <1>1, <2>1
  <2>3. order \in Bijection(1..N, ToSet(order))
    BY <2>1, <2>2 DEF Bijection, Injection, Surjection, IsInjective
  <2>4. N \in Nat
    BY <1>1
  <2> HIDE DEF N
  <2>5. IsFiniteSet(1..N) /\ Cardinality(1..N) = N
    BY <2>4, FS_Interval
  <2>6. ExistsBijection(1..N, ToSet(order))
    BY <2>3 DEF ExistsBijection
  <2>7. IsFiniteSet(ToSet(order)) /\ Cardinality(ToSet(order)) = N
    BY <2>5, <2>6, FS_Bijection
  <2> QED
    BY <2>7 DEF N
<1>7. Cyclic(d) \subseteq d.names
  BY DEF Cyclic
<1>8. Cardinality(ToSet(order)) = Cardinality(d.names) <=> ToSet(order) = d.names
  BY <1>2, Dashboard, FS_Subset
<1> QED
  BY <1>5, <1>6, <1>7, <1>8

LEMMA GraphOrderIsTopological == OrderIsTopological
<1> SUFFICES ASSUME NEW d \in Graphs
             PROVE  LET order == TopologicalOrder(d)
                    IN  /\ ToSet(order) = d.names \ Cyclic(d) /\ IsInjective(order)
                        /\ \A i, j \in DOMAIN order : <<order[i], order[j]>> \in d.refs => i < j
                        /\ HasCycle(d) <=> Cyclic(d) # {}
  BY DEF OrderIsTopological
<1>1. IsDashboard(d)
  BY GraphAssumption
<1> DEFINE order == TopologicalOrder(d)
<1>2. IsOrder(d, order) /\ (HasCycle(d) <=> Len(order) # Cardinality(d.names))
  BY <1>1, TopologicalOrderIsOrder DEF HasCycle
<1> HIDE DEF order
<1>3. ToSet(order) = d.names \ Cyclic(d) /\ (Len(order) # Cardinality(d.names) <=> Cyclic(d) # {})
  BY <1>1, <1>2, OrderListsAcyclic
<1>4. DOMAIN order = 1..Len(order)
  BY <1>2 DEF IsOrder
<1>5. /\ IsInjective(order)
      /\ \A i, j \in DOMAIN order : <<order[i], order[j]>> \in d.refs => i < j
  BY <1>2, <1>4 DEF IsOrder
<1> QED
  BY <1>2, <1>3, <1>5 DEF order

-----------------------------------------------------------------------------
(* What a change of value calls back with. *)

\* The order that the selection works with: queries only, each after those
\* among its parents that are queries, which are all listed.
IsQueryOrder(d, order) ==
  /\ order \in Seq(d.query) /\ IsInjective(order)
  /\ \A c \in ToSet(order), p \in d.query : <<p, c>> \in d.refs => p \in ToSet(order)
  /\ \A i, j \in 1..Len(order) : <<order[i], order[j]>> \in d.refs => i < j

LEMMA QueryOrderIsQueryOrder ==
  ASSUME NEW d, IsDashboard(d)
  PROVE  /\ IsQueryOrder(d, QueryOrder(d))
         /\ ToSet(QueryOrder(d)) = ToSet(TopologicalOrder(d)) \cap d.query
<1> DEFINE top == TopologicalOrder(d)
           order == Only(top, d.query)
<1>1. IsOrder(d, top)
  BY TopologicalOrderIsOrder
<1>2. order = QueryOrder(d)
  BY DEF QueryOrder
<1> HIDE DEF top
<1>3. top \in Seq(d.names) /\ IsInjective(top)
  BY <1>1 DEF IsOrder
<1>4. /\ order \in Seq(d.names) /\ ToSet(order) = ToSet(top) \cap d.query
      /\ IsInjective(order)
      /\ \A i, j \in 1..Len(order) : i < j =>
           \E k, l \in 1..Len(top) : k < l /\ order[i] = top[k] /\ order[j] = top[l]
  BY <1>3, OnlyElements, OnlyOrder
<1> HIDE DEF order
<1>5. order \in Seq(d.query)
  BY <1>4, SequenceOver
<1>6. ASSUME NEW c \in ToSet(order), NEW p \in d.query, <<p, c>> \in d.refs
      PROVE  p \in ToSet(order)
  <2>1. c \in ToSet(top) /\ c \in d.names /\ p \in Parents(d, c)
    BY <1>4, <1>6, Dashboard
  <2>2. p \in ToSet(top)
    BY <1>1, <2>1 DEF IsOrder
  <2> QED
    BY <1>4, <2>2
<1>7. ASSUME NEW i \in 1..Len(order), NEW j \in 1..Len(order), <<order[i], order[j]>> \in d.refs
      PROVE  i < j
  <2> SUFFICES ASSUME ~(i < j) PROVE FALSE
    OBVIOUS
  <2>1. PICK k \in 1..Len(top), l \in 1..Len(top) : k <= l /\ order[j] = top[k] /\ order[i] = top[l]
    <3>1. CASE j < i
      BY <1>4, <3>1
    <3>2. CASE j = i
      <4>1. order[j] \in ToSet(top)
        BY <1>4, ElementsOf
      <4>2. PICK k \in 1..Len(top) : top[k] = order[j]
        BY <1>3, <4>1, ElementsOf
      <4> QED
        BY <3>2, <4>2
    <3> QED
      BY <3>1, <3>2
  <2>2. l < k
    BY <1>1, <1>7, <2>1 DEF IsOrder
  <2> QED
    BY <2>1, <2>2
<1> QED
  BY <1>2, <1>4, <1>5, <1>6, <1>7 DEF IsQueryOrder, top

\* How onUpdateVariableNode goes through an order: its state after each node
VisitStates(d) == [visited : SUBSET d.names, called : Seq(d.query)]

LEMMA VisitType ==
  ASSUME NEW d, IsDashboard(d), NEW node, NEW acc \in VisitStates(d), NEW v \in d.query
  PROVE  Visit(d, node, acc, v) \in VisitStates(d)
<1>1. acc.visited \subseteq d.names /\ acc.called \in Seq(d.query)
  BY DEF VisitStates
<1>2. ToSet(Children(d, v)) \subseteq d.names /\ v \in d.names
  <2>1. d.query \subseteq d.names
    BY Dashboard
  <2>2. ToSet(Children(d, v)) \subseteq d.query
    BY ChildrenAre
  <2> QED
    BY <2>1, <2>2
<1>3. Append(acc.called, v) \in Seq(d.query)
  <2> DEFINE s == acc.called
  <2>1. s \in Seq(d.query)
    BY <1>1
  <2> HIDE DEF s
  <2>2. Append(s, v) \in Seq(d.query)
    BY <2>1, AppendElements
  <2> QED
    BY <2>2 DEF s
<1> QED
  BY <1>1, <1>2, <1>3 DEF Visit, VisitStates

LEMMA UpdatedWalk ==
  ASSUME NEW d, IsDashboard(d), NEW order \in Seq(d.query), NEW node
  PROVE  \E f \in [0..Len(order) -> VisitStates(d)] :
           /\ f[0] = [visited |-> {}, called |-> <<>>]
           /\ \A n \in 1..Len(order) : f[n] = Visit(d, node, f[n - 1], order[n])
           /\ UpdatedNodes(d, order, node) = f[Len(order)].called
<1> DEFINE N == Len(order)
           W == VisitStates(d)
           w0 == [visited |-> {}, called |-> <<>>]
           step == [x \in (1..N) \X W |-> Visit(d, node, x[2], order[x[1]])]
           visit == CHOOSE visit : visit = [n \in 0..Len(order) |->
                      IF n = 0 THEN [visited |-> {}, called |-> <<>>]
                      ELSE Visit(d, node, visit[n - 1], order[n])]
<1>1. N \in Nat /\ w0 \in W /\ \A n \in 1..N : order[n] \in d.query
  BY DEF VisitStates
<1>2. \A n \in 1..N, w \in W : Visit(d, node, w, order[n]) \in W
  BY <1>1, VisitType
<1> HIDE DEF W
<1>3. \A n \in 1..N, w \in W : step[<<n, w>>] = Visit(d, node, w, order[n])
  OBVIOUS
<1>4. UpdatedNodes(d, order, node) = visit[N].called
  BY DEF UpdatedNodes
<1> HIDE DEF step
<1>5. PICK f \in [0..N -> W] : Iterates(f, N, w0, step)
  <2>1. \A n \in 1..N, w \in W : step[<<n, w>>] \in W
    BY <1>2, <1>3
  <2> HIDE DEF w0, N
  <2> QED
    BY <1>1, <2>1, Iterated
<1>6. f[0] = w0 /\ \A n \in 1..N : f[n] = Visit(d, node, f[n - 1], order[n])
  <2>1. ASSUME NEW n \in 1..N PROVE f[n] = Visit(d, node, f[n - 1], order[n])
    <3>1. n - 1 \in 0..N
      BY <1>1
    <3>2. f[n - 1] \in W /\ f[n] = step[<<n, f[n - 1]>>]
      BY <1>5, <3>1 DEF Iterates
    <3> QED
      BY <1>3, <3>2
  <2> QED
    BY <1>5, <2>1 DEF Iterates
<1>7. f = [n \in 0..N |-> IF n = 0 THEN w0 ELSE Visit(d, node, f[n - 1], order[n])]
  <2> DEFINE g == [n \in 0..N |-> IF n = 0 THEN w0 ELSE Visit(d, node, f[n - 1], order[n])]
  <2>1. ASSUME NEW n \in 0..N PROVE f[n] = g[n]
    <3>1. n # 0 => n \in 1..N
      BY <1>1
    <3> HIDE DEF w0
    <3> QED
      BY <1>6, <3>1
  <2> HIDE DEF w0
  <2> QED
    BY <2>1
<1>8. visit = [n \in 0..N |-> IF n = 0 THEN w0 ELSE Visit(d, node, visit[n - 1], order[n])]
  BY <1>7
<1> HIDE DEF visit, w0
<1>9. \A n \in 1..N : n \in 0..N /\ n # 0 /\ n - 1 \in 0..N
  BY <1>1
<1>10. visit[0] = w0 /\ \A n \in 1..N : visit[n] = Visit(d, node, visit[n - 1], order[n])
  BY <1>1, <1>8, <1>9
<1>11. \A n \in 0..N : visit[n] = f[n]
  <2> DEFINE P == {n \in Nat : n <= N => visit[n] = f[n]}
  <2>1. 0 \in P
    BY <1>6, <1>10
  <2>2. ASSUME NEW n \in Nat, n \in P
        PROVE  n + 1 \in P
    <3> SUFFICES ASSUME n + 1 <= N PROVE visit[n + 1] = f[n + 1]
      OBVIOUS
    <3>1. n + 1 \in 1..N /\ (n + 1) - 1 = n /\ n <= N
      BY <1>1
    <3>2. visit[n] = f[n]
      BY <2>2, <3>1
    <3> QED
      BY <1>6, <1>10, <3>1, <3>2
  <2> HIDE DEF P
  <2>3. Nat \subseteq P
    BY <2>1, <2>2, Induction
  <2> USE DEF P
  <2> QED
    BY <1>1, <2>3
<1>12. visit[N] = f[N]
  BY <1>1, <1>11
<1> QED
  BY <1>4, <1>5, <1>6, <1>12 DEF W, w0

\* A variable that the order does not list is called back for nothing.
LEMMA UpdatedNothing ==
  ASSUME NEW d, IsDashboard(d), NEW order \in Seq(d.query), NEW node, node \notin ToSet(order)
  PROVE  UpdatedNodes(d, order, node) = <<>>
<1>1. PICK f \in [0..Len(order) -> VisitStates(d)] :
        /\ f[0] = [visited |-> {}, called |-> <<>>]
        /\ \A n \in 1..Len(order) : f[n] = Visit(d, node, f[n - 1], order[n])
        /\ UpdatedNodes(d, order, node) = f[Len(order)].called
  BY UpdatedWalk
<1>2. Len(order) \in Nat /\ \A n \in 1..Len(order) : order[n] # node
  BY ElementsOf
<1> DEFINE P == {n \in Nat : n <= Len(order) => f[n] = [visited |-> {}, called |-> <<>>]}
<1>3. 0 \in P
  BY <1>1
<1>4. ASSUME NEW n \in Nat, n \in P
      PROVE  n + 1 \in P
  <2> SUFFICES ASSUME n + 1 <= Len(order)
               PROVE  f[n + 1] = [visited |-> {}, called |-> <<>>]
    OBVIOUS
  <2>1. n + 1 \in 1..Len(order) /\ (n + 1) - 1 = n /\ n <= Len(order)
    BY <1>2
  <2>2. f[n] = [visited |-> {}, called |-> <<>>] /\ f[n + 1] = Visit(d, node, f[n], order[n + 1])
    BY <1>1, <1>4, <2>1
  <2> QED
    BY <1>2, <2>1, <2>2 DEF Visit
<1> HIDE DEF P
<1>5. Nat \subseteq P
  BY <1>3, <1>4, Induction
<1> USE DEF P
<1> QED
  BY <1>1, <1>2, <1>5

\* A query variable calls back for itself and what is below it, in the order.
LEMMA UpdatedBelow ==
  ASSUME NEW d, IsDashboard(d), NEW order, IsQueryOrder(d, order), NEW node \in ToSet(order)
  PROVE  UpdatedNodes(d, order, node) = Only(order, {node} \cup Descendants(d, node))
<1> DEFINE S == {node} \cup Descendants(d, node)
           N == Len(order)
           Seen(n) == {c \in d.names : \E i \in 1..n : order[i] \in S /\
                                         (c = order[i] \/ <<order[i], c>> \in d.refs)}
<1>1. /\ order \in Seq(d.query) /\ N \in Nat
      /\ \A n \in 1..N : order[n] \in d.query /\ order[n] \in d.names /\ order[n] \in ToSet(order)
  BY ElementsOf, Dashboard DEF IsQueryOrder
<1>2. PICK f \in [0..N -> VisitStates(d)] :
        /\ f[0] = [visited |-> {}, called |-> <<>>]
        /\ \A n \in 1..N : f[n] = Visit(d, node, f[n - 1], order[n])
        /\ UpdatedNodes(d, order, node) = f[N].called
  <2>1. order \in Seq(d.query)
    BY <1>1
  <2> QED
    BY <2>1, UpdatedWalk
<1>3. PICK g \in [0..N -> Seq(d.query)] : OnlySteps(order, S, g) /\ Only(order, S) = g[N]
  BY <1>1, OnlyWalk
<1> DEFINE P == {n \in Nat : n <= N => f[n].called = g[n] /\ f[n].visited = Seen(n)}
<1>4. 0 \in P
  <2>1. Seen(0) = {}
    OBVIOUS
  <2>2. f[0].called = <<>> /\ f[0].visited = {}
    BY <1>2
  <2>3. g[0] = <<>>
    BY <1>3 DEF OnlySteps
  <2> HIDE DEF Seen
  <2> QED
    BY <2>1, <2>2, <2>3
<1> HIDE DEF Seen
<1>5. ASSUME NEW n \in Nat, n \in P
      PROVE  n + 1 \in P
  <2> SUFFICES ASSUME n + 1 <= N
               PROVE  f[n + 1].called = g[n + 1] /\ f[n + 1].visited = Seen(n + 1)
    OBVIOUS
  <2> DEFINE v == order[n + 1]
             acc == f[n]
  <2>1. n + 1 \in 1..N /\ (n + 1) - 1 = n /\ n <= N /\ n \in 0..N
    BY <1>1
  <2>2. /\ acc.called = g[n] /\ acc.visited = Seen(n)
        /\ f[n + 1] = Visit(d, node, acc, v)
        /\ g[n + 1] = IF v \in S THEN Append(g[n], v) ELSE g[n]
    BY <1>2, <1>3, <1>5, <2>1 DEF OnlySteps
  <2>3. v \in d.query /\ v \in d.names /\ v \in ToSet(order)
    BY <1>1, <2>1
  <2>4. v = node \/ v \in acc.visited => v \in S
    <3> SUFFICES ASSUME v \in Seen(n) PROVE v \in S
      BY <2>2
    <3>1. PICK i \in 1..n : order[i] \in S /\ (v = order[i] \/ <<order[i], v>> \in d.refs)
      BY DEF Seen
    <3> QED
      BY <3>1, DescendantsAreClosed
  <2>5. v \in S => v = node \/ v \in acc.visited
    <3> SUFFICES ASSUME v \in Descendants(d, node) PROVE v \in Seen(n)
      BY <2>2
    <3>1. PICK p : <<p, v>> \in d.refs /\ (p = node \/ p \in Descendants(d, node))
      BY DescendantHasParent
    <3>2. p \in d.query /\ p \in S
      <4>1. node \in d.query
        BY <1>1, ElementsOf
      <4> QED
        BY <3>1, <4>1, DescendantsAreClosed
    <3>3. p \in ToSet(order)
      BY <2>3, <3>1, <3>2 DEF IsQueryOrder
    <3>4. PICK i \in 1..N : order[i] = p
      BY <1>1, <3>3, ElementsOf
    <3>5. i < n + 1
      BY <2>1, <3>1, <3>4 DEF IsQueryOrder
    <3>6. i \in 1..n
      BY <1>1, <3>5
    <3> QED
      BY <2>3, <3>1, <3>2, <3>4, <3>6 DEF Seen
  <2>6. 1..(n + 1) = 1..n \cup {n + 1}
    OBVIOUS
  <2>7. Seen(n + 1) = Seen(n) \cup {c \in d.names : v \in S /\ (c = v \/ <<v, c>> \in d.refs)}
    BY <2>6 DEF Seen
  <2>8. {c \in d.names : c = v \/ <<v, c>> \in d.refs} = {v} \cup ToSet(Children(d, v))
    BY <2>3, ChildrenAre, Dashboard
  <2> HIDE DEF S, v, acc
  <2>9. CASE v \in S
    <3>1. Visit(d, node, acc, v) = [visited |-> acc.visited \cup {v} \cup ToSet(Children(d, v)),
                                    called |-> Append(acc.called, v)]
      BY <2>5, <2>9 DEF Visit
    <3>2. f[n + 1].called = g[n + 1]
      BY <2>2, <2>9, <3>1
    <3>3. f[n + 1].visited = acc.visited \cup {v} \cup ToSet(Children(d, v))
      BY <2>2, <3>1
    <3>4. Seen(n + 1) = Seen(n) \cup {c \in d.names : c = v \/ <<v, c>> \in d.refs}
      BY <2>7, <2>9
    <3> QED
      BY <2>2, <2>8, <3>2, <3>3, <3>4
  <2>10. CASE v \notin S
    <3>1. Visit(d, node, acc, v) = acc
      BY <2>4, <2>10 DEF Visit
    <3>2. Seen(n + 1) = Seen(n)
      BY <2>7, <2>10
    <3> QED
      BY <2>2, <2>10, <3>1, <3>2
  <2> QED
    BY <2>9, <2>10
<1> HIDE DEF P
<1>6. Nat \subseteq P
  BY <1>4, <1>5, Induction
<1> USE DEF P
<1> HIDE DEF S
<1>7. f[N].called = g[N]
  BY <1>1, <1>6
<1> QED
  BY <1>2, <1>3, <1>7 DEF S

LEMMA GraphUpdatesReachAllBelow == UpdatesReachAllBelow
<1> SUFFICES ASSUME NEW d \in Graphs, NEW v \in Names
             PROVE  UpdatedNodes(d, QueryOrder(d), v) =
                      IF v \in ToSet(QueryOrder(d))
                      THEN Only(QueryOrder(d), {v} \cup Descendants(d, v))
                      ELSE <<>>
  BY DEF UpdatesReachAllBelow
<1>1. IsDashboard(d)
  BY GraphAssumption
<1>2. IsQueryOrder(d, QueryOrder(d)) /\ QueryOrder(d) \in Seq(d.query)
  BY <1>1, QueryOrderIsQueryOrder DEF IsQueryOrder
<1> QED
  BY <1>1, <1>2, UpdatedNothing, UpdatedBelow

-----------------------------------------------------------------------------
(* The queue. *)

\* A queue: variables, none of them twice
Queues == {q \in Seq(Names) : IsInjective(q)}

Stamps == Names \cup {"time"}

LEMMA DashboardsAre ==
  /\ \A d \in Dashboards : IsDashboard(d) /\ d.names \subseteq Names /\ d.query \subseteq Names
                           /\ d.query \subseteq d.names
  /\ None \notin Dashboards
BY DashboardAssumption, Dashboard

LEMMA WithoutType ==
  ASSUME NEW q \in Queues, NEW v
  PROVE  Without(q, v) \in Queues /\ ToSet(Without(q, v)) = ToSet(q) \ {v}
<1> DEFINE S == ToSet(q) \ {v}
<1>1. q \in Seq(Names) /\ IsInjective(q)
  BY DEF Queues
<1> HIDE DEF S
<1>2. Only(q, S) \in Seq(Names) /\ ToSet(Only(q, S)) = ToSet(q) \cap S /\ IsInjective(Only(q, S))
  BY <1>1, OnlyElements, OnlyOrder
<1> QED
  BY <1>2 DEF Without, Queues, S

LEMMA EnqueueType ==
  ASSUME NEW q \in Queues, NEW nodes \in Queues
  PROVE  Enqueue(q, nodes) \in Queues /\ ToSet(Enqueue(q, nodes)) = ToSet(q) \cup ToSet(nodes)
<1> DEFINE S == ToSet(nodes) \ ToSet(q)
           r == Only(nodes, S)
<1>1. q \in Seq(Names) /\ IsInjective(q) /\ nodes \in Seq(Names) /\ IsInjective(nodes)
  BY DEF Queues
<1>2. r \in Seq(Names) /\ ToSet(r) = ToSet(nodes) \cap S /\ IsInjective(r)
  BY <1>1, OnlyElements, OnlyOrder
<1> HIDE DEF r
<1>3. ToSet(r) = ToSet(nodes) \ ToSet(q)
  BY <1>2
<1>4. q \o r \in Seq(Names) /\ IsInjective(q \o r) /\ ToSet(q \o r) = ToSet(q) \cup ToSet(r)
  BY <1>1, <1>2, <1>3, ConcatElements
<1>5. Enqueue(q, nodes) = q \o r
  BY DEF Enqueue, r
<1> QED
  BY <1>3, <1>4, <1>5 DEF Queues

LEMMA OrderType ==
  ASSUME NEW d \in Dashboards
  PROVE  /\ DependencyData[d].order = QueryOrder(d) /\ QueryOrder(d) \in Queues
         /\ IsQueryOrder(d, QueryOrder(d))
         /\ \A v \in d.names : DependencyData[d].updated[v] = UpdatedNodes(d, QueryOrder(d), v)
<1>1. DependencyData[d] = [order   |-> QueryOrder(d),
                           updated |-> [v \in d.names |-> UpdatedNodes(d, QueryOrder(d), v)]]
  BY DEF DependencyData
<1>2. IsQueryOrder(d, QueryOrder(d))
  BY DashboardsAre, QueryOrderIsQueryOrder
<1>3. QueryOrder(d) \in Seq(Names)
  <2> DEFINE s == QueryOrder(d)
  <2>1. s \in Seq(d.query)
    BY <1>2 DEF IsQueryOrder
  <2> HIDE DEF s
  <2>2. ToSet(s) \subseteq Names
    BY <2>1, ElementsOf, DashboardsAre
  <2> QED
    BY <2>1, <2>2, SequenceOver DEF s
<1>4. \A v \in d.names : DependencyData[d].updated[v] = UpdatedNodes(d, QueryOrder(d), v)
  BY <1>1
<1> QED
  BY <1>1, <1>2, <1>3, <1>4 DEF Queues, IsQueryOrder

\* What a change of v calls back with
LEMMA UpdatedType ==
  ASSUME NEW d \in Dashboards, NEW v
  PROVE  LET nodes == UpdatedNodes(d, QueryOrder(d), v)
         IN  /\ nodes \in Queues
             /\ ToSet(nodes) = IF v \in ToSet(QueryOrder(d))
                               THEN ToSet(QueryOrder(d)) \cap ({v} \cup Descendants(d, v))
                               ELSE {}
<1> DEFINE order == QueryOrder(d)
           S == {v} \cup Descendants(d, v)
<1>1. IsDashboard(d) /\ IsQueryOrder(d, order) /\ order \in Queues /\ order \in Seq(d.query)
  BY DashboardsAre, OrderType DEF IsQueryOrder
<1>2. order \in Seq(Names) /\ IsInjective(order)
  BY <1>1 DEF Queues
<1> HIDE DEF order
<1>3. CASE v \in ToSet(order)
  <2>1. UpdatedNodes(d, order, v) = Only(order, S)
    BY <1>1, <1>3, UpdatedBelow
  <2> HIDE DEF S
  <2>2. Only(order, S) \in Seq(Names) /\ ToSet(Only(order, S)) = ToSet(order) \cap S
        /\ IsInjective(Only(order, S))
    BY <1>2, OnlyElements, OnlyOrder
  <2> QED
    BY <1>3, <2>1, <2>2 DEF Queues, order, S
<1>4. CASE v \notin ToSet(order)
  <2>1. UpdatedNodes(d, order, v) = <<>>
    BY <1>1, <1>4, UpdatedNothing
  <2>2. <<>> \in Seq(Names) /\ Len(<<>>) = 0
    OBVIOUS
  <2>3. ToSet(<<>>) = {} /\ IsInjective(<<>>)
    BY <2>2, ElementsOf
  <2> QED
    BY <1>4, <2>1, <2>2, <2>3 DEF Queues, order
<1> QED
  BY <1>3, <1>4

\* The queue after a value changed
LEMMA QueueAfterType ==
  ASSUME NEW d \in Dashboards, NEW q \in Queues, NEW v \in d.names
  PROVE  /\ QueueAfterValue(q, d, v) \in Queues
         /\ ToSet(QueueAfterValue(q, d, v)) =
              ToSet(q) \cup (IF v \in ToSet(QueryOrder(d))
                             THEN (ToSet(QueryOrder(d)) \cap Descendants(d, v)) \ {v}
                             ELSE {})
<1> DEFINE nodes == UpdatedNodes(d, QueryOrder(d), v)
<1>1. /\ nodes \in Queues
      /\ ToSet(nodes) = IF v \in ToSet(QueryOrder(d))
                        THEN ToSet(QueryOrder(d)) \cap ({v} \cup Descendants(d, v))
                        ELSE {}
  BY UpdatedType
<1>2. QueueAfterValue(q, d, v) = Enqueue(q, Without(nodes, v))
  BY OrderType DEF QueueAfterValue
<1> HIDE DEF nodes
<1>3. Without(nodes, v) \in Queues /\ ToSet(Without(nodes, v)) = ToSet(nodes) \ {v}
  BY <1>1, WithoutType
<1>4. /\ Enqueue(q, Without(nodes, v)) \in Queues
      /\ ToSet(Enqueue(q, Without(nodes, v))) = ToSet(q) \cup ToSet(Without(nodes, v))
  BY <1>3, EnqueueType
<1> QED
  BY <1>1, <1>2, <1>3, <1>4

-----------------------------------------------------------------------------
(* Type correctness. *)

\* Only queries of the open dashboard are fetched for it.
TypeInv == TypeOK /\ (page # None => fetching \subseteq page.query)

LEMMA EnabledType ==
  ASSUME NEW d, NEW q
  PROVE  EnabledSet(d, q) \subseteq d.query
BY DEF EnabledSet

LEMMA InputsType ==
  ASSUME NEW d \in Dashboards, NEW v
  PROVE  Inputs(d, v) \in SUBSET Stamps
BY DashboardsAre DEF Inputs, Parents, Stamps

LEMMA BelowType ==
  ASSUME NEW d, NEW f \in [Names -> SUBSET Stamps], NEW v \in Names
  PROVE  Below(d, f, v) \in [Names -> SUBSET Stamps]
<1>1. \A c \in Names : f[c] \cup {v} \in SUBSET Stamps
  BY DEF Stamps
<1> QED
  BY <1>1 DEF Below

LEMMA RenderType ==
  ASSUME NEW d \in Dashboards, NEW q \in Queues, NEW flying \in SUBSET d.query,
         NEW missing \in [Names -> SUBSET Stamps], Render(d, q, flying, missing)
  PROVE  /\ queue' \in Queues /\ fetching' \subseteq d.query
         /\ missed' \in [Names -> SUBSET Stamps]
<1>1. fetching' \subseteq d.query
  BY EnabledType DEF Render
<1> QED
  BY <1>1 DEF Render

LEMMA RenderKeyType ==
  ASSUME NEW d \in Dashboards, queue \in Queues, NEW joined \in SUBSET d.query,
         RenderKey(d, joined)
  PROVE  /\ queue' \in Queues /\ fetching' \subseteq d.query /\ refetched' = {}
         /\ missed' \in [Names -> SUBSET Stamps]
<1>1. fetching' \subseteq d.query /\ refetched' = {}
  BY EnabledType DEF RenderKey
<1>2. queue' \in Queues
  BY OrderType DEF RenderKey
<1>3. missed' \in [Names -> SUBSET Stamps]
  BY InputsType DEF RenderKey
<1> QED
  BY <1>1, <1>2, <1>3

\* The type invariant in the terms of the lemmas above
LEMMA TypeInvIs ==
  TypeInv <=> /\ page \in Dashboards \cup {None} /\ queue \in Queues
              /\ fetching \subseteq Names /\ refetched \subseteq fetching
              /\ failed \subseteq Names /\ strays \subseteq Names
              /\ missed \in [Names -> SUBSET Stamps] /\ behind \in [Names -> SUBSET Stamps]
              /\ overtaken \in BOOLEAN /\ shuffled \in BOOLEAN
              /\ page = None => fetching = {}
              /\ page # None => fetching \subseteq page.query
BY DEF TypeInv, TypeOK, Queues, Stamps

LEMMA TypeInvNextIs ==
  ASSUME /\ page' \in Dashboards \cup {None} /\ queue' \in Queues
         /\ refetched' \subseteq fetching'
         /\ failed' \subseteq Names /\ strays' \subseteq Names
         /\ missed' \in [Names -> SUBSET Stamps] /\ behind' \in [Names -> SUBSET Stamps]
         /\ overtaken' \in BOOLEAN /\ shuffled' \in BOOLEAN
         /\ page' = None => fetching' = {}
         /\ page' # None => fetching' \subseteq page'.query
  PROVE  TypeInv'
<1>1. fetching' \subseteq Names
  BY DashboardsAre
<1> QED
  BY <1>1 DEF TypeInv, TypeOK, Queues, Stamps

LEMMA TypeStart == Init => TypeInv
<1> SUFFICES ASSUME Init PROVE TypeInv
  OBVIOUS
<1>1. <<>> \in Seq(Names) /\ Len(<<>>) = 0
  OBVIOUS
<1>2. <<>> \in Queues
  BY <1>1, ElementsOf DEF Queues
<1> QED
  BY <1>2, TypeInvIs DEF Init

LEMMA TypeStep == TypeInv /\ [Next]_vars => TypeInv'
<1> SUFFICES ASSUME TypeInv, [Next]_vars PROVE TypeInv'
  OBVIOUS
<1>1. /\ page \in Dashboards \cup {None} /\ queue \in Queues
      /\ fetching \subseteq Names /\ refetched \subseteq fetching
      /\ failed \subseteq Names /\ strays \subseteq Names
      /\ missed \in [Names -> SUBSET Stamps] /\ behind \in [Names -> SUBSET Stamps]
      /\ overtaken \in BOOLEAN /\ shuffled \in BOOLEAN
      /\ page = None => fetching = {}
      /\ page # None => fetching \subseteq page.query
  BY TypeInvIs
<1>2. ASSUME NEW d \in Dashboards, Open(d)
      PROVE  TypeInv'
  <2>1. PICK joined \in SUBSET (strays \cap d.query) :
          RenderKey(d, joined) /\ overtaken' = (HeadHasParents(d) \/ joined # {})
    BY <1>2 DEF Open
  <2>2. /\ queue' \in Queues /\ fetching' \subseteq d.query /\ refetched' = {}
        /\ missed' \in [Names -> SUBSET Stamps]
    BY <1>1, <2>1, RenderKeyType
  <2>3. behind' \in [Names -> SUBSET Stamps]
    BY <1>2, InputsType DEF Open
  <2>4. page' = d /\ failed' = {} /\ strays' = strays /\ d # None
    BY <1>2, DashboardsAre DEF Open
  <2>5. overtaken' \in BOOLEAN /\ shuffled' \in BOOLEAN
    BY <1>2, <2>1 DEF Open
  <2> QED
    BY <1>1, <2>2, <2>3, <2>4, <2>5, TypeInvNextIs
<1>3. CASE Leave
  <2>1. /\ page' = None /\ fetching' = {} /\ refetched' = {} /\ failed' = {}
        /\ strays' = strays \cup fetching
        /\ queue' = queue /\ overtaken' = FALSE /\ shuffled' = FALSE
        /\ missed' = [v \in Names |-> {}] /\ behind' = [v \in Names |-> {}]
    BY <1>3 DEF Leave
  <2> QED
    BY <1>1, <2>1, TypeInvNextIs
<1>4. CASE TimeChange
  <2>1. PICK joined \in SUBSET (strays \cap page.query) :
          RenderKey(page, joined) /\ overtaken' = (HeadHasParents(page) \/ joined # {})
    BY <1>4 DEF TimeChange
  <2>2. /\ queue' \in Queues /\ fetching' \subseteq page.query /\ refetched' = {}
        /\ missed' \in [Names -> SUBSET Stamps]
    <3>1. page \in Dashboards
      BY <1>1, <1>4 DEF TimeChange
    <3> QED
      BY <1>1, <2>1, <3>1, RenderKeyType
  <2>3. behind' \in [Names -> SUBSET Stamps]
    <3>1. \A v \in Names : behind[v] \cup {"time"} \in SUBSET Stamps
      BY <1>1 DEF Stamps
    <3> QED
      BY <1>4, <3>1 DEF TimeChange, Stamps
  <2>4. page' = page /\ failed' = failed /\ strays' = strays \cup fetching /\ page # None
    BY <1>4 DEF TimeChange
  <2>5. overtaken' \in BOOLEAN /\ shuffled' \in BOOLEAN
    BY <1>4, <2>1 DEF TimeChange
  <2> QED
    BY <1>1, <2>2, <2>3, <2>4, <2>5, TypeInvNextIs
<1>5. ASSUME NEW v \in Names, StrayAnswer(v)
      PROVE  TypeInv'
  <2>1. /\ strays' \subseteq Names /\ refetched' = refetched
        /\ page' = page /\ queue' = queue /\ fetching' = fetching /\ missed' = missed
        /\ behind' = behind /\ failed' = failed /\ overtaken' = overtaken /\ shuffled' = shuffled
    BY <1>1, <1>5 DEF StrayAnswer
  <2> QED
    BY <1>1, <2>1, TypeInvNextIs
<1>6. ASSUME NEW v \in Names, Pick(v)
      PROVE  TypeInv'
  <2>1. /\ page # None /\ page \in Dashboards /\ v \in page.names
        /\ Render(page, QueueAfterValue(queue, page, v), fetching, Below(page, missed, v))
    BY <1>1, <1>6 DEF Pick
  <2>2. QueueAfterValue(queue, page, v) \in Queues
    BY <1>1, <2>1, QueueAfterType
  <2>3. /\ queue' \in Queues /\ fetching' \subseteq page.query
        /\ missed' \in [Names -> SUBSET Stamps]
    BY <1>1, <2>1, <2>2, RenderType, BelowType
  <2>7. refetched' \subseteq fetching'
    BY <1>1, <1>6, <2>1 DEF Pick, Render
  <2>4. behind' \in [Names -> SUBSET Stamps]
    BY <1>1, <1>6, BelowType DEF Pick
  <2>5. page' = page /\ failed' = failed /\ strays' = strays
    BY <1>6 DEF Pick
  <2>6. overtaken' \in BOOLEAN /\ shuffled' \in BOOLEAN
    BY <1>1, <1>6 DEF Pick
  <2> QED
    BY <1>1, <2>1, <2>3, <2>4, <2>5, <2>6, <2>7, TypeInvNextIs
<1>7. ASSUME NEW v \in Names, NEW updates \in BOOLEAN, NEW changes \in BOOLEAN,
             Answer(v, updates, changes)
      PROVE  TypeInv'
  <2> DEFINE q == IF updates THEN QueueAfterValue(queue, page, v) ELSE queue
             outdated == [behind EXCEPT ![v] = missed[v]]
             missing == IF changes THEN Below(page, missed, v) ELSE missed
  <2>1. v \in fetching /\ page # None /\ page \in Dashboards /\ v \in page.names
    BY <1>1, <1>7, DashboardsAre DEF Answer
  <2>2. /\ Render(page, Without(q, v), fetching \ {v}, missing)
        /\ behind' = IF changes THEN Below(page, outdated, v) ELSE outdated
        /\ failed' = failed \ {v} /\ page' = page /\ strays' = strays
        /\ refetched' = refetched \ {v}
    BY <1>7 DEF Answer
  <2>8. overtaken' \in BOOLEAN /\ shuffled' \in BOOLEAN
    BY <1>1, <1>7 DEF Answer
  <2>3. q \in Queues
    BY <1>1, <2>1, QueueAfterType
  <2>4. missing \in [Names -> SUBSET Stamps] /\ outdated \in [Names -> SUBSET Stamps]
    BY <1>1, BelowType
  <2> HIDE DEF q, missing, outdated
  <2>5. Without(q, v) \in Queues
    BY <2>3, WithoutType
  <2>6. /\ queue' \in Queues /\ fetching' \subseteq page.query
        /\ missed' \in [Names -> SUBSET Stamps]
    <3>1. fetching \ {v} \in SUBSET page.query
      BY <1>1, <2>1
    <3> QED
      BY <2>1, <2>2, <2>4, <2>5, <3>1, RenderType
  <2>7. behind' \in [Names -> SUBSET Stamps]
    BY <2>2, <2>4, BelowType
  <2>9. refetched' \subseteq fetching'
    BY <1>1, <2>2 DEF Render
  <2> QED
    BY <1>1, <2>1, <2>2, <2>6, <2>7, <2>8, <2>9, TypeInvNextIs
<1>8. ASSUME NEW v \in Names, AnswerError(v)
      PROVE  TypeInv'
  <2>1. v \in fetching /\ page # None /\ page \in Dashboards
    BY <1>1, <1>8 DEF AnswerError
  <2>2. /\ Render(page, Without(queue, v), fetching \ {v}, missed)
        /\ behind' = behind
        /\ failed' = failed \cup {v} /\ page' = page /\ strays' = strays
        /\ refetched' = refetched \ {v} /\ overtaken' = overtaken /\ shuffled' = shuffled
    BY <1>8 DEF AnswerError
  <2>3. Without(queue, v) \in Queues
    BY <1>1, WithoutType
  <2>4. /\ queue' \in Queues /\ fetching' \subseteq page.query
        /\ missed' \in [Names -> SUBSET Stamps]
    <3>1. fetching \ {v} \in SUBSET page.query
      BY <1>1, <2>1
    <3> QED
      BY <1>1, <2>1, <2>2, <2>3, <3>1, RenderType
  <2>5. failed' \subseteq Names /\ refetched' \subseteq fetching'
    BY <1>1, <2>1, <2>2, DashboardsAre DEF Render
  <2> QED
    BY <1>1, <2>1, <2>2, <2>4, <2>5, TypeInvNextIs
<1>9. CASE UNCHANGED vars
  <2>1. /\ strays' = strays /\ refetched' = refetched
        /\ page' = page /\ queue' = queue /\ fetching' = fetching /\ missed' = missed
        /\ behind' = behind /\ failed' = failed /\ overtaken' = overtaken /\ shuffled' = shuffled
    BY <1>9 DEF vars
  <2> QED
    BY <1>1, <2>1, TypeInvNextIs
<1>10. CASE Online
  <2> DEFINE started == EnabledSet(page, queue) \ fetching
  <2>1. /\ page' = page /\ queue' = queue /\ failed' = failed /\ strays' = strays
        /\ behind' = behind /\ overtaken' = overtaken /\ shuffled' = shuffled /\ page # None
        /\ fetching' = fetching \cup started /\ refetched' = refetched \cup started
        /\ missed' = [v \in Names |-> IF v \in started THEN {} ELSE missed[v]]
    BY <1>10 DEF Online
  <2>2. started \subseteq page.query
    BY EnabledType
  <2> HIDE DEF started
  <2>3. missed' \in [Names -> SUBSET Stamps]
    BY <1>1, <2>1
  <2> QED
    BY <1>1, <2>1, <2>2, <2>3, TypeInvNextIs
<1> QED
  BY <1>2, <1>3, <1>4, <1>5, <1>6, <1>7, <1>8, <1>9, <1>10 DEF Next, Arrival

\* The queue of the variables to fetch never holds one of them twice, and
\* only queries of the open dashboard are fetched.
THEOREM TypeCorrect == Spec => []TypeOK
<1>1. TypeInv => TypeOK
  BY DEF TypeInv
<1> QED
  BY <1>1, TypeStart, TypeStep, PTL DEF Spec

\* The order that the variables are fetched in lists those outside cycles, each
\* after its parents; a cycle is noticed exactly when there is one; a changed
\* value reaches everything below it (buildDependencyGraph, onUpdateVariableNode).
THEOREM GraphsAreRightAlways == Spec => []GraphsAreRight
<1>1. GraphsAreRight
  BY GraphOrderIsTopological, GraphUpdatesReachAllBelow DEF GraphsAreRight
<1> QED
  BY <1>1, PTL

-----------------------------------------------------------------------------
(* The order of the queue. *)

\* No element of s comes before one that X pairs it with.
Respects(s, X) == \A i, j \in 1..Len(s) : i < j => <<s[i], s[j]>> \notin X

LEMMA OnlyRespects ==
  ASSUME NEW T, NEW s \in Seq(T), NEW S, NEW X, Respects(s, X)
  PROVE  Respects(Only(s, S), X)
<1> DEFINE r == Only(s, S)
<1>1. \A i, j \in 1..Len(r) : i < j =>
        \E k, l \in 1..Len(s) : k < l /\ r[i] = s[k] /\ r[j] = s[l]
  BY OnlyOrder
<1> HIDE DEF r
<1>2. ASSUME NEW i \in 1..Len(r), NEW j \in 1..Len(r), i < j
      PROVE  <<r[i], r[j]>> \notin X
  <2>1. PICK k, l \in 1..Len(s) : k < l /\ r[i] = s[k] /\ r[j] = s[l]
    BY <1>1, <1>2
  <2>2. <<s[k], s[l]>> \notin X
    BY <2>1 DEF Respects
  <2> QED
    BY <2>1, <2>2
<1>3. Respects(r, X)
  BY <1>2 DEF Respects
<1> QED
  BY <1>3 DEF r

LEMMA ConcatRespects ==
  ASSUME NEW T, NEW s \in Seq(T), NEW t \in Seq(T), NEW X, Respects(s, X), Respects(t, X),
         \A a \in ToSet(s), b \in ToSet(t) : <<a, b>> \notin X
  PROVE  Respects(s \o t, X)
<1> DEFINE r == s \o t
<1>1. /\ Len(r) = Len(s) + Len(t) /\ Len(s) \in Nat /\ Len(t) \in Nat
      /\ \A i \in 1..Len(r) : r[i] = IF i <= Len(s) THEN s[i] ELSE t[i - Len(s)]
  OBVIOUS
<1> HIDE DEF r
<1>2. ASSUME NEW i \in 1..Len(r), NEW j \in 1..Len(r), i < j
      PROVE  <<r[i], r[j]>> \notin X
  <2>1. CASE j <= Len(s)
    <3>1. i \in 1..Len(s) /\ j \in 1..Len(s) /\ r[i] = s[i] /\ r[j] = s[j]
      BY <1>1, <1>2, <2>1
    <3> QED
      BY <1>2, <3>1 DEF Respects
  <2>2. CASE i <= Len(s) /\ ~(j <= Len(s))
    <3>1. i \in 1..Len(s) /\ j - Len(s) \in 1..Len(t)
      BY <1>1, <1>2, <2>2
    <3>2. r[i] = s[i] /\ r[j] = t[j - Len(s)]
      BY <1>1, <2>2
    <3>3. s[i] \in ToSet(s) /\ t[j - Len(s)] \in ToSet(t)
      BY <3>1, ElementsOf
    <3> QED
      BY <3>2, <3>3
  <2>3. CASE ~(i <= Len(s))
    <3>1. i - Len(s) \in 1..Len(t) /\ j - Len(s) \in 1..Len(t) /\ i - Len(s) < j - Len(s)
      BY <1>1, <1>2, <2>3
    <3>2. r[i] = t[i - Len(s)] /\ r[j] = t[j - Len(s)]
      BY <1>1, <1>2, <2>3
    <3> QED
      BY <3>1, <3>2 DEF Respects
  <2> QED
    BY <1>1, <2>1, <2>2, <2>3
<1> QED
  BY <1>2 DEF r, Respects

\* A filter that keeps the first element keeps it first.
LEMMA OnlyHead ==
  ASSUME NEW T, NEW s \in Seq(T), s # <<>>, NEW S, Head(s) \in S
  PROVE  Only(s, S) # <<>> /\ Head(Only(s, S)) = Head(s)
<1> DEFINE r == Only(s, S)
<1>1. r \in Seq(T) /\ \E e : Embeds(e, r, s, Len(s), S)
  BY OnlyEmbeds
<1> HIDE DEF r
<1>2. PICK e : Embeds(e, r, s, Len(s), S)
  BY <1>1
<1>3. 1 \in 1..Len(s) /\ Head(s) = s[1] /\ Len(r) \in Nat
  BY <1>1
<1>4. PICK i \in 1..Len(r) : e[i] = 1
  BY <1>2, <1>3 DEF Embeds
<1>5. 1 \in 1..Len(r) /\ e[1] \in 1..Len(s) /\ r[1] = s[e[1]] /\ (1 < i => e[1] < e[i])
  BY <1>2, <1>3, <1>4 DEF Embeds
<1>6. i = 1
  BY <1>3, <1>4, <1>5
<1>7. r[1] = s[1] /\ r # <<>> /\ Head(r) = r[1]
  BY <1>1, <1>4, <1>5, <1>6
<1> QED
  BY <1>3, <1>7 DEF r

\* A variable that no query decides the options of
Root(d, v) == Parents(d, v) \cap d.query = {}

\* The pairs of a variable and another that its options come from ...
UpsideDown(d) == {x \in Names \X Names : x[1] \in Descendants(d, x[2])}

\* ... that is a root
BelowRoot(d) == {x \in UpsideDown(d) : Root(d, x[2])}

LEMMA RootIsNoDescendant ==
  ASSUME NEW d, IsDashboard(d), NEW v, Root(d, v), NEW p \in d.query
  PROVE  v \notin Descendants(d, p)
<1> SUFFICES ASSUME v \in Descendants(d, p) PROVE FALSE
  OBVIOUS
<1>1. PICK u : <<u, v>> \in d.refs /\ (u = p \/ u \in Descendants(d, p))
  BY DescendantHasParent
<1>2. u \in d.query /\ u \in Parents(d, v)
  BY <1>1, DescendantsAreClosed, Dashboard
<1> QED
  BY <1>2 DEF Root

\* The order lists the roots, and respects the graph.
LEMMA QueryOrderRespects ==
  ASSUME NEW d, IsDashboard(d)
  PROVE  LET order == QueryOrder(d)
         IN  /\ \A v \in d.query : Root(d, v) => v \in ToSet(order)
             /\ ToSet(order) \subseteq d.query
             /\ Respects(order, UpsideDown(d))
             /\ \A v \in ToSet(order) : v \notin Descendants(d, v)
<1> DEFINE order == QueryOrder(d)
           top == TopologicalOrder(d)
<1>1. IsQueryOrder(d, order) /\ ToSet(order) = ToSet(top) \cap d.query
  BY QueryOrderIsQueryOrder
<1>2. IsOrder(d, top)
  BY TopologicalOrderIsOrder
<1> HIDE DEF order, top
<1>3. ASSUME NEW v \in d.query, Root(d, v) PROVE v \in ToSet(order)
  <2>1. ASSUME NEW p \in Parents(d, v) PROVE p \in ToSet(top)
    <3>1. p \in d.names /\ p \notin d.query
      BY <1>3, Dashboard DEF Root
    <3>2. Parents(d, p) = {}
      BY <3>1, Dashboard
    <3> QED
      BY <1>2, <3>1, <3>2 DEF IsOrder
  <2>2. v \in d.names
    BY Dashboard
  <2> QED
    BY <1>1, <1>2, <2>1, <2>2 DEF IsOrder
<1>4. order \in Seq(d.query)
  BY <1>1 DEF IsQueryOrder
<1>5. ASSUME NEW i \in 1..Len(order), NEW j \in 1..Len(order),
             order[j] \in Descendants(d, order[i])
      PROVE  i < j
  BY <1>1, <1>4, <1>5, DescendantsComeLater DEF IsQueryOrder
<1>6. Respects(order, UpsideDown(d))
  <2> SUFFICES ASSUME NEW i \in 1..Len(order), NEW j \in 1..Len(order), i < j,
                      order[i] \in Descendants(d, order[j])
               PROVE  FALSE
    BY DEF Respects, UpsideDown
  <2>1. j < i
    BY <1>5
  <2> QED
    BY <2>1
<1>7. ASSUME NEW v \in ToSet(order), v \in Descendants(d, v) PROVE FALSE
  <2>1. PICK i \in 1..Len(order) : order[i] = v
    BY <1>4, ElementsOf
  <2>2. i < i
    BY <1>5, <1>7, <2>1
  <2> QED
    BY <2>2
<1>8. ToSet(order) \subseteq d.query
  BY <1>1
<1> QED
  BY <1>3, <1>6, <1>7, <1>8 DEF order

\* What a change of v appends to the queue: what is below v, in order
LEMMA QueueAfterIs ==
  ASSUME NEW d \in Dashboards, NEW q \in Queues, NEW v \in d.names
  PROVE  \E r \in Queues :
           /\ QueueAfterValue(q, d, v) = q \o r
           /\ Respects(r, UpsideDown(d))
           /\ ToSet(r) = IF v \in ToSet(QueryOrder(d))
                         THEN ((ToSet(QueryOrder(d)) \cap Descendants(d, v)) \ {v}) \ ToSet(q)
                         ELSE {}
<1> DEFINE order == QueryOrder(d)
           nodes == UpdatedNodes(d, order, v)
           X == UpsideDown(d)
<1>1. /\ nodes \in Queues
      /\ ToSet(nodes) = IF v \in ToSet(order)
                        THEN ToSet(order) \cap ({v} \cup Descendants(d, v))
                        ELSE {}
  BY UpdatedType
<1>2. IsDashboard(d) /\ IsQueryOrder(d, order) /\ order \in Seq(d.query) /\ order \in Seq(Names)
  BY DashboardsAre, OrderType DEF IsQueryOrder, Queues
<1>3. QueueAfterValue(q, d, v) = Enqueue(q, Without(nodes, v))
  BY OrderType DEF QueueAfterValue
<1>4. Respects(nodes, X)
  <2>1. Respects(order, X)
    BY <1>2, QueryOrderRespects
  <2>2. CASE v \in ToSet(order)
    <3> DEFINE S == {v} \cup Descendants(d, v)
    <3>1. nodes = Only(order, S)
      BY <1>2, <2>2, UpdatedBelow
    <3> HIDE DEF S, X, nodes, order
    <3>2. Respects(Only(order, S), X)
      BY <1>2, <2>1, OnlyRespects
    <3> QED
      BY <3>1, <3>2
  <2>3. CASE v \notin ToSet(order)
    <3>1. nodes = <<>> /\ Len(<<>>) = 0
      BY <1>2, <2>3, UpdatedNothing
    <3> HIDE DEF X, nodes
    <3> QED
      BY <3>1 DEF Respects
  <2> QED
    BY <2>2, <2>3
<1> DEFINE rest == Without(nodes, v)
           S == ToSet(rest) \ ToSet(q)
           r == Only(rest, S)
<1> HIDE DEF nodes, X, order
<1>5. rest \in Queues /\ ToSet(rest) = ToSet(nodes) \ {v}
  BY <1>1, WithoutType
<1>6. Respects(rest, X)
  <2>1. nodes \in Seq(Names)
    BY <1>1 DEF Queues
  <2> QED
    BY <1>4, <2>1, OnlyRespects DEF Without
<1>7. Enqueue(q, rest) = q \o r
  BY DEF Enqueue
<1>8. rest \in Seq(Names) /\ IsInjective(rest)
  BY <1>5 DEF Queues
<1> HIDE DEF rest, S
<1>9. r \in Seq(Names) /\ ToSet(r) = ToSet(rest) \cap S /\ IsInjective(r) /\ Respects(r, X)
  BY <1>6, <1>8, OnlyElements, OnlyOrder, OnlyRespects
<1> HIDE DEF r
<1>10. ToSet(r) = ToSet(rest) \ ToSet(q)
  BY <1>9 DEF S
<1>11. QueueAfterValue(q, d, v) = q \o r
  BY <1>3, <1>7 DEF rest
<1>12. r \in Queues
  BY <1>9 DEF Queues
<1>13. ToSet(r) = IF v \in ToSet(order)
                  THEN ((ToSet(order) \cap Descendants(d, v)) \ {v}) \ ToSet(q)
                  ELSE {}
  BY <1>1, <1>5, <1>10
<1> QED
  BY <1>9, <1>11, <1>12, <1>13 DEF X, order

-----------------------------------------------------------------------------
(* What holds of the queue and the requests of an open dashboard. *)

\* The queue: what could have been queued for d, a root before what is below
\* it.  A dashboard without an order keeps whatever was queued before.
QueueGood(d, q) ==
  QueryOrder(d) # <<>> =>
    ToSet(q) \subseteq ToSet(QueryOrder(d)) /\ Respects(q, BelowRoot(d))

\* The head of the queue, unless it waits for no other, is in flight.
HeadFlies(d, q, f) == \A v \in EnabledSet(d, q) : Root(d, v) \/ v \in f

\* The requests in flight: for variables that wait for no other, or for the
\* first queued one; for queued ones only, but for those sent when the browser
\* came online (r), which wait for no other; and nothing they were sent with
\* has changed.
FetchGood(d, q, f, r, m) ==
  /\ f \ r \subseteq ToSet(q)
  /\ \A v \in f : (Root(d, v) \/ v = Head(q)) /\ m[v] = {}
  /\ \A v \in r : Root(d, v)
  /\ QueryOrder(d) = <<>> => f = {}

\* The options: of a variable that neither waits nor failed they are fresh.
Fresh(d, q, b, x) ==
  \A v \in ToSet(QueryOrder(d)) :
    v \in ToSet(q) \/ v \in x \/ b[v] \cap (d.query \cup {"time"}) = {}

\* The queue while no value is picked before it is empty: in the order, and
\* with everything below what it holds
SortGood(d, q) ==
  QueryOrder(d) # <<>> =>
    /\ Respects(q, UpsideDown(d))
    /\ \A v \in ToSet(q) : ToSet(QueryOrder(d)) \cap Descendants(d, v) \subseteq ToSet(q)

PageInv ==
  page # None =>
    /\ QueueGood(page, queue) /\ HeadFlies(page, queue, fetching)
    /\ ~overtaken => /\ FetchGood(page, queue, fetching, refetched, missed)
                     /\ Fresh(page, queue, behind, failed)
    /\ ~overtaken /\ ~shuffled => SortGood(page, queue)

\* The facts about the order that the steps below need
LEMMA OrderFacts ==
  ASSUME NEW d \in Dashboards
  PROVE  /\ \A v \in d.query : Root(d, v) => v \in ToSet(QueryOrder(d))
         /\ ToSet(QueryOrder(d)) \subseteq d.query
         /\ Respects(QueryOrder(d), UpsideDown(d))
         /\ Respects(QueryOrder(d), BelowRoot(d))
         /\ \A v \in ToSet(QueryOrder(d)) : v \notin Descendants(d, v)
         /\ QueryOrder(d) = <<>> <=> ToSet(QueryOrder(d)) = {}
         /\ \A c \in ToSet(QueryOrder(d)), p \in d.query :
              <<p, c>> \in d.refs => p \in ToSet(QueryOrder(d))
<1> DEFINE order == QueryOrder(d)
<1>1. IsDashboard(d)
  BY DashboardsAre
<1>2. /\ \A v \in d.query : Root(d, v) => v \in ToSet(order)
      /\ ToSet(order) \subseteq d.query
      /\ Respects(order, UpsideDown(d))
      /\ \A v \in ToSet(order) : v \notin Descendants(d, v)
  BY <1>1, QueryOrderRespects
<1>3. IsQueryOrder(d, order)
  BY OrderType
<1> HIDE DEF order
<1>4. order \in Seq(d.query)
  BY <1>3 DEF IsQueryOrder
<1>5. order = <<>> <=> ToSet(order) = {}
  BY <1>4, ElementsOf
<1>6. Respects(order, BelowRoot(d))
  BY <1>2 DEF Respects, BelowRoot
<1>7. \A c \in ToSet(order), p \in d.query : <<p, c>> \in d.refs => p \in ToSet(order)
  BY <1>3 DEF IsQueryOrder
<1> QED
  BY <1>2, <1>5, <1>6, <1>7 DEF order

\* A query that runs is a root or the head of the queue.
LEMMA EnabledIs ==
  ASSUME NEW d \in Dashboards, NEW q, NEW v \in EnabledSet(d, q)
  PROVE  v \in d.query /\ (Root(d, v) \/ (q # <<>> /\ v = Head(q)))
BY DEF EnabledSet, Enabled, Root

\* Whatever was queued, a new key leaves the whole order queued.
LEMMA RenderKeyGood ==
  ASSUME NEW d \in Dashboards, queue \in Queues, NEW joined, RenderKey(d, joined)
  PROVE  /\ QueueGood(d, queue') /\ SortGood(d, queue') /\ HeadFlies(d, queue', fetching')
         /\ \A b, x : Fresh(d, queue', b, x)
         /\ ~HeadHasParents(d) /\ joined = {} =>
              FetchGood(d, queue', fetching', refetched', missed')
<1> DEFINE order == QueryOrder(d)
           O == ToSet(order)
<1>1. /\ queue' = IF order = <<>> THEN queue ELSE order
      /\ fetching' = EnabledSet(d, queue) \cup EnabledSet(d, queue') \cup joined
      /\ refetched' = {}
      /\ missed' = [v \in Names |-> IF v \in joined THEN Inputs(d, v) ELSE {}]
  BY OrderType DEF RenderKey
<1>2. /\ \A v \in d.query : Root(d, v) => v \in O
      /\ O \subseteq d.query
      /\ Respects(order, UpsideDown(d)) /\ Respects(order, BelowRoot(d))
      /\ order = <<>> <=> O = {}
  BY OrderFacts
<1>3. d.query \subseteq Names /\ order \in Queues
  BY DashboardsAre, OrderType
<1> HIDE DEF order
<1>4. QueueGood(d, queue')
  BY <1>1, <1>2 DEF QueueGood, order
<1>5. SortGood(d, queue')
  BY <1>1, <1>2 DEF SortGood, order
<1>6. \A b, x : Fresh(d, queue', b, x)
  BY <1>1, <1>2 DEF Fresh, order
<1>7. HeadFlies(d, queue', fetching')
  BY <1>1 DEF HeadFlies
<1>8. ASSUME ~HeadHasParents(d), joined = {}
      PROVE  FetchGood(d, queue', fetching', refetched', missed')
  <2>1. ASSUME NEW v \in EnabledSet(d, queue) PROVE v \in O /\ Root(d, v)
    <3>1. v \in d.query /\ (Root(d, v) \/ (queue # <<>> /\ v = Head(queue)))
      BY EnabledIs
    <3>2. Root(d, v)
      BY <1>8, <3>1 DEF HeadHasParents, Root
    <3> QED
      BY <1>2, <3>1, <3>2
  <2>2. CASE order = <<>>
    <3>1. fetching' = {}
      BY <1>1, <1>2, <1>8, <2>1, <2>2
    <3> QED
      BY <1>1, <3>1, <2>2 DEF FetchGood
  <2>3. CASE order # <<>>
    <3>1. queue' = order
      BY <1>1, <2>3
    <3>2. ASSUME NEW v \in EnabledSet(d, order)
          PROVE  v \in O /\ (Root(d, v) \/ v = Head(order))
      <4>1. v \in d.query /\ (Root(d, v) \/ v = Head(order))
        BY EnabledIs
      <4>2. order \in Seq(Names)
        BY <1>3 DEF Queues
      <4>3. Head(order) \in O
        BY <4>2, <2>3, TailElements
      <4> QED
        BY <1>2, <4>1, <4>3
    <3>3. \A v \in fetching' : v \in O /\ (Root(d, v) \/ v = Head(order))
      BY <1>1, <1>8, <2>1, <3>1, <3>2
    <3>4. \A v \in fetching' : missed'[v] = {}
      BY <1>1, <1>2, <1>3, <1>8, <3>3
    <3> QED
      BY <1>1, <2>3, <3>1, <3>3, <3>4 DEF FetchGood, order
  <2> QED
    BY <2>2, <2>3
<1> QED
  BY <1>4, <1>5, <1>6, <1>7, <1>8

\* What starts when the queue changes is its new head.
LEMMA RenderGood ==
  ASSUME NEW d \in Dashboards, NEW q \in Queues, NEW flying \in SUBSET d.query, NEW missing,
         NEW r, Render(d, q, flying, missing), FetchGood(d, q, flying, r, missing),
         QueryOrder(d) = <<>> => q = queue
  PROVE  FetchGood(d, queue', fetching', r, missed')
<1> DEFINE started == (EnabledSet(d, q) \ EnabledSet(d, queue)) \ flying
<1>1. /\ queue' = q
      /\ fetching' = flying \cup started
      /\ missed' = [v \in Names |-> IF v \in fetching' \ started THEN missing[v] ELSE {}]
  BY DEF Render
<1>2. d.query \subseteq Names
  BY DashboardsAre
<1>3. ASSUME NEW v \in started
      PROVE  v \in d.query /\ v \in ToSet(q) /\ v = Head(q) /\ QueryOrder(d) # <<>>
  <2>1. v \in d.query /\ q # <<>> /\ v = Head(q) /\ q # queue
    BY <1>3 DEF EnabledSet, Enabled
  <2>2. q \in Seq(Names)
    BY DEF Queues
  <2>3. Head(q) \in ToSet(q)
    BY <2>1, <2>2, TailElements
  <2> QED
    BY <2>1, <2>3
<1> HIDE DEF started
<1>4. \A v \in started : v \in Names /\ v \in ToSet(q) /\ v = Head(q) /\ QueryOrder(d) # <<>>
  BY <1>2, <1>3
<1>5. \A v \in fetching' : missed'[v] = IF v \in started THEN {} ELSE missing[v]
  BY <1>1, <1>2, <1>4
<1>6. /\ \A v \in fetching' : (Root(d, v) \/ v = Head(q)) /\ missed'[v] = {}
      /\ fetching' \ r \subseteq ToSet(q) /\ \A v \in r : Root(d, v)
  BY <1>1, <1>4, <1>5 DEF FetchGood
<1>7. QueryOrder(d) = <<>> => fetching' = {}
  BY <1>1, <1>4 DEF FetchGood
<1> QED
  BY <1>1, <1>6, <1>7 DEF FetchGood

\* The new head is in flight, if whatever has landed is off the queue.
LEMMA RenderFlies ==
  ASSUME NEW d \in Dashboards, NEW q \in Queues, NEW flying, NEW missing,
         Render(d, q, flying, missing), HeadFlies(d, queue, fetching),
         (fetching \ flying) \cap ToSet(q) = {}
  PROVE  HeadFlies(d, queue', fetching')
<1>1. queue' = q /\ fetching' = flying \cup ((EnabledSet(d, q) \ EnabledSet(d, queue)) \ flying)
  BY DEF Render
<1>2. ASSUME NEW v \in EnabledSet(d, q), ~Root(d, v), v \notin flying, v \in EnabledSet(d, queue)
      PROVE  FALSE
  <2>1. v \in fetching
    BY <1>2 DEF HeadFlies
  <2>2. q # <<>> /\ v = Head(q) /\ q \in Seq(Names)
    BY <1>2, EnabledIs DEF Queues
  <2>3. v \in ToSet(q)
    BY <2>2, TailElements
  <2> QED
    BY <1>2, <2>1, <2>3
<1> QED
  BY <1>1, <1>2 DEF HeadFlies

\* What a change of v appends keeps the queue good, and leaves its head and
\* the requests in flight alone.
LEMMA AppendedGood ==
  ASSUME NEW d \in Dashboards, NEW q \in Queues, NEW v \in d.names, QueueGood(d, q),
         NEW f, NEW x, NEW m
  PROVE  LET q1 == QueueAfterValue(q, d, v)
         IN  /\ q1 \in Queues /\ QueueGood(d, q1)
             /\ ToSet(q) \subseteq ToSet(q1)
             /\ \A c \in ToSet(QueryOrder(d)) :
                  v \in d.query /\ <<v, c>> \in d.refs => c # v /\ c \in ToSet(q1)
             /\ QueryOrder(d) = <<>> => q1 = q
             /\ FetchGood(d, q, f, x, m) => FetchGood(d, q1, f, x, m)
             /\ q = <<>> => SortGood(d, q1)
             /\ SortGood(d, q) /\ v \in ToSet(q) => q1 = q
<1> DEFINE order == QueryOrder(d)
           O == ToSet(order)
           D == Descendants(d, v)
           q1 == QueueAfterValue(q, d, v)
<1>1. PICK r \in Queues :
        /\ q1 = q \o r
        /\ Respects(r, UpsideDown(d))
        /\ ToSet(r) = IF v \in O THEN ((O \cap D) \ {v}) \ ToSet(q) ELSE {}
  BY QueueAfterIs
<1>2. /\ O \subseteq d.query
      /\ \A u \in O : u \notin Descendants(d, u)
      /\ order = <<>> <=> O = {}
      /\ \A c \in O, p \in d.query : <<p, c>> \in d.refs => p \in O
  BY OrderFacts
<1>3. IsDashboard(d) /\ d.query \subseteq Names
  BY DashboardsAre
<1>4. q1 \in Queues
  BY QueueAfterType
<1>5. q \in Seq(Names) /\ r \in Seq(Names)
  BY DEF Queues
<1>6. ToSet(q1) = ToSet(q) \cup ToSet(r)
  BY <1>1, <1>5, ConcatElements
<1> HIDE DEF order, q1
<1>7. ToSet(r) = {} => q1 = q
  <2>1. ToSet(r) = {} => r = <<>>
    BY <1>5, ElementsOf
  <2>2. q \o <<>> = q
    BY <1>5
  <2> QED
    BY <1>1, <2>1, <2>2
<1>8. QueueGood(d, q1)
  <2>1. CASE O = {}
    BY <1>2, <2>1 DEF QueueGood, order
  <2>2. CASE O # {}
    <3>1. ToSet(q) \subseteq O /\ Respects(q, BelowRoot(d))
      BY <1>2, <2>2 DEF QueueGood, order
    <3>2. Respects(r, BelowRoot(d))
      BY <1>1 DEF Respects, BelowRoot
    <3>3. ASSUME NEW a \in ToSet(q), NEW b \in ToSet(r) PROVE <<a, b>> \notin BelowRoot(d)
      <4>1. b \in D /\ v \in d.query
        BY <1>1, <1>2
      <4>2. ~Root(d, b)
        BY <1>3, <4>1, RootIsNoDescendant
      <4> QED
        BY <4>2 DEF BelowRoot
    <3> DEFINE X == BelowRoot(d)
    <3>4. \A a \in ToSet(q), b \in ToSet(r) : <<a, b>> \notin X
      BY <3>3
    <3> HIDE DEF X
    <3>5. Respects(q, X) /\ Respects(r, X)
      BY <3>1, <3>2 DEF X
    <3>6. Respects(q \o r, X)
      BY <1>5, <3>4, <3>5, ConcatRespects
    <3>7. ToSet(q1) \subseteq O
      BY <1>1, <1>6, <3>1
    <3> QED
      BY <1>1, <3>6, <3>7 DEF QueueGood, X, order
  <2> QED
    BY <2>1, <2>2
<1>9. ASSUME NEW c \in O, v \in d.query, <<v, c>> \in d.refs PROVE c # v /\ c \in ToSet(q1)
  <2>1. c \in D
    BY <1>3, <1>9, DescendantsAreClosed
  <2>2. v \in O
    BY <1>2, <1>9
  <2>3. c # v
    BY <1>2, <2>1
  <2> QED
    BY <1>1, <1>6, <2>1, <2>2, <2>3
<1>10. order = <<>> => q1 = q
  BY <1>1, <1>2, <1>7
<1>11. ASSUME FetchGood(d, q, f, x, m) PROVE FetchGood(d, q1, f, x, m)
  <2>1. CASE q = <<>>
    <3>1. ToSet(q) = {}
      BY <1>5, <2>1, ElementsOf
    <3>2. f \subseteq x
      BY <1>11, <3>1 DEF FetchGood
    <3> QED
      BY <1>11, <3>2 DEF FetchGood
  <2>2. CASE q # <<>>
    <3>1. Head(q \o r) = Head(q)
      BY <1>5, <2>2
    <3> QED
      BY <1>1, <1>6, <1>11, <3>1 DEF FetchGood
  <2> QED
    BY <2>1, <2>2
<1>12. ASSUME q = <<>> PROVE SortGood(d, q1)
  <2>1. ToSet(q) = {} /\ q1 = r
    <3>1. ToSet(q) = {}
      BY <1>5, <1>12, ElementsOf
    <3>2. <<>> \o r = r
      BY <1>5
    <3> QED
      BY <1>1, <1>12, <3>1, <3>2
  <2>2. ASSUME NEW u \in ToSet(r), NEW w \in O \cap Descendants(d, u) PROVE w \in ToSet(r)
    <3>1. v \in O /\ u \in D
      BY <1>1
    <3>2. w \in D
      BY <1>3, <3>1, DescendantsOfDescendants
    <3>3. w # v
      BY <1>2, <3>1, <3>2
    <3> QED
      BY <1>1, <2>1, <3>1, <3>2, <3>3
  <2> QED
    BY <1>1, <2>1, <2>2 DEF SortGood, order
<1>13. ASSUME SortGood(d, q), v \in ToSet(q) PROVE q1 = q
  <2>1. order # <<>> => O \cap D \subseteq ToSet(q)
    BY <1>13 DEF SortGood, order
  <2>2. ToSet(r) = {}
    BY <1>1, <1>2, <2>1
  <2> QED
    BY <1>7, <2>2
<1> QED
  BY <1>4, <1>6, <1>8, <1>9, <1>10, <1>11, <1>12, <1>13 DEF order, q1

\* An answer for v takes it off the queue.
LEMMA DequeuedGood ==
  ASSUME NEW d \in Dashboards, NEW q \in Queues, NEW v \in d.query, NEW f, NEW x, NEW m,
         QueueGood(d, q)
  PROVE  LET q1 == Without(q, v)
         IN  /\ QueueGood(d, q1)
             /\ FetchGood(d, q, f, x, m) => FetchGood(d, q1, f \ {v}, x \ {v}, m)
             /\ SortGood(d, q) /\ (Root(d, v) \/ (q # <<>> /\ v = Head(q))) => SortGood(d, q1)
<1> DEFINE S == ToSet(q) \ {v}
           q1 == Without(q, v)
           O == ToSet(QueryOrder(d))
<1>1. q \in Seq(Names) /\ q1 = Only(q, S)
  BY DEF Queues, Without
<1>2. q1 \in Queues /\ ToSet(q1) = S
  BY WithoutType
<1> HIDE DEF q1
<1>3. ASSUME NEW X, Respects(q, X) PROVE Respects(q1, X)
  <2> HIDE DEF S
  <2>1. Respects(Only(q, S), X)
    BY <1>1, <1>3, OnlyRespects
  <2> QED
    BY <1>1, <2>1
<1>4. QueueGood(d, q1)
  <2>1. Respects(q, BelowRoot(d)) => Respects(q1, BelowRoot(d))
    BY <1>3
  <2> QED
    BY <1>2, <2>1 DEF QueueGood
<1>5. ASSUME FetchGood(d, q, f, x, m) PROVE FetchGood(d, q1, f \ {v}, x \ {v}, m)
  <2>1. ASSUME NEW u \in f \ {v}, ~Root(d, u) PROVE u = Head(q1)
    <3>1. u \in ToSet(q) /\ u = Head(q) /\ u # v
      BY <1>5, <2>1 DEF FetchGood
    <3>2. q # <<>>
      BY <1>1, <3>1, ElementsOf
    <3>3. Head(q) \in S
      BY <3>1
    <3> HIDE DEF S
    <3>4. Head(Only(q, S)) = Head(q)
      BY <1>1, <3>2, <3>3, OnlyHead
    <3> QED
      BY <1>1, <3>1, <3>4
  <2>2. (f \ {v}) \ (x \ {v}) \subseteq ToSet(q1)
    BY <1>2, <1>5 DEF FetchGood
  <2> QED
    BY <1>5, <2>1, <2>2 DEF FetchGood
<1>6. ASSUME SortGood(d, q), Root(d, v) \/ (q # <<>> /\ v = Head(q)), QueryOrder(d) # <<>>
      PROVE  SortGood(d, q1)
  <2>1. /\ Respects(q, UpsideDown(d))
        /\ \A u \in ToSet(q) : O \cap Descendants(d, u) \subseteq ToSet(q)
        /\ ToSet(q) \subseteq O
    BY <1>6 DEF SortGood, QueueGood
  <2>2. O \subseteq d.query
    BY OrderFacts
  <2>3. ASSUME NEW u \in ToSet(q), u # v PROVE v \notin Descendants(d, u)
    <3>1. CASE Root(d, v)
      <4>1. IsDashboard(d) /\ u \in d.query
        BY <2>1, <2>2, DashboardsAre
      <4> QED
        BY <3>1, <4>1, RootIsNoDescendant
    <3>2. CASE q # <<>> /\ v = Head(q)
      <4>1. PICK j \in 1..Len(q) : q[j] = u
        BY <1>1, ElementsOf
      <4>2. 1 \in 1..Len(q) /\ q[1] = v
        BY <1>1, <3>2
      <4>3. 1 < j
        BY <1>1, <2>3, <4>1, <4>2
      <4>4. <<v, u>> \notin UpsideDown(d)
        BY <2>1, <4>1, <4>2, <4>3 DEF Respects
      <4>5. v \in Names /\ u \in Names
        BY <1>1, <4>1, <4>2
      <4> QED
        BY <4>4, <4>5 DEF UpsideDown
    <3> QED
      BY <1>6, <3>1, <3>2
  <2>4. \A u \in ToSet(q1) : O \cap Descendants(d, u) \subseteq ToSet(q1)
    BY <1>2, <2>1, <2>3
  <2>5. Respects(q1, UpsideDown(d))
    BY <1>3, <2>1
  <2> QED
    BY <2>4, <2>5 DEF SortGood
<1>7. QueryOrder(d) = <<>> => SortGood(d, q1)
  BY DEF SortGood
<1> QED
  BY <1>4, <1>5, <1>6, <1>7 DEF q1

\* A request in flight is for a variable of the order, a root or the head.
\* While v is fetched, nothing that is computed from it is, unless its request
\* was sent when the browser came online.
LEMMA FetchedAlone ==
  ASSUME NEW d \in Dashboards, NEW q \in Queues, NEW f, NEW r, NEW m,
         NEW v \in f \cap d.query, QueueGood(d, q), FetchGood(d, q, f, r, m)
  PROVE  /\ v \in ToSet(QueryOrder(d)) /\ QueryOrder(d) # <<>>
         /\ Root(d, v) \/ (q # <<>> /\ v = Head(q))
         /\ v \notin r => v \in ToSet(q) /\ \A u \in f : <<v, u>> \notin d.refs
<1>1. /\ QueryOrder(d) # <<>> /\ (Root(d, v) \/ v = Head(q))
      /\ v \in r => Root(d, v)
      /\ v \notin r => v \in ToSet(q)
  BY DEF FetchGood
<1>2. Respects(q, BelowRoot(d)) /\ ToSet(q) \subseteq ToSet(QueryOrder(d))
  BY <1>1 DEF QueueGood
<1>3. q \in Seq(Names) /\ (q = <<>> => ToSet(q) = {})
  BY ElementsOf DEF Queues
<1>4. v \in ToSet(QueryOrder(d)) /\ (Root(d, v) \/ (q # <<>> /\ v = Head(q)))
  BY <1>1, <1>2, <1>3, OrderFacts
<1>5. ASSUME v \notin r, NEW u \in f, <<v, u>> \in d.refs PROVE FALSE
  <2>1. IsDashboard(d)
    BY DashboardsAre
  <2>2. u \in Descendants(d, v) /\ v \in Parents(d, u)
    BY <1>5, <2>1, DescendantsAreClosed, Dashboard
  <2>3. u # v
    BY <1>4, <2>2, OrderFacts
  <2>4. ~Root(d, u)
    BY <2>2 DEF Root
  <2>5. u = Head(q)
    BY <2>4 DEF FetchGood
  <2>6. Root(d, v)
    BY <1>1, <2>3, <2>5
  <2>7. PICK j \in 1..Len(q) : q[j] = v
    BY <1>1, <1>3, <1>5, ElementsOf
  <2>8. 1 \in 1..Len(q) /\ q[1] = u /\ 1 < j
    BY <1>1, <1>3, <1>5, <2>3, <2>5, <2>7
  <2>9. <<u, v>> \notin BelowRoot(d)
    BY <1>2, <2>7, <2>8 DEF Respects
  <2>10. u \in Names /\ v \in Names
    BY <1>3, <2>7, <2>8
  <2> QED
    BY <2>2, <2>6, <2>9, <2>10 DEF BelowRoot, UpsideDown
<1> QED
  BY <1>1, <1>4, <1>5

\* An answer for v, whose value changes or not, and whose queue grows or not
LEMMA AnswerGood ==
  ASSUME NEW d \in Dashboards, queue \in Queues, NEW v \in fetching,
         fetching \subseteq d.query, NEW updates \in BOOLEAN, NEW missing,
         Render(d, Without(IF updates THEN QueueAfterValue(queue, d, v) ELSE queue, v),
                fetching \ {v}, missing),
         \A u \in Names : <<v, u>> \notin d.refs => missing[u] = missed[u],
         QueueGood(d, queue), HeadFlies(d, queue, fetching)
  PROVE  /\ QueueGood(d, queue') /\ HeadFlies(d, queue', fetching')
         /\ queue' = Without(IF updates THEN QueueAfterValue(queue, d, v) ELSE queue, v)
         /\ ToSet(queue) \ {v} \subseteq ToSet(queue')
         /\ FetchGood(d, queue, fetching, refetched, missed) =>
              /\ (v \in refetched => \A u \in fetching : missing[u] = missed[u]) =>
                   FetchGood(d, queue', fetching', refetched \ {v}, missed')
              /\ SortGood(d, queue) /\ (v \in refetched /\ updates => queue = <<>>) =>
                   SortGood(d, queue')
<1> DEFINE q == IF updates THEN QueueAfterValue(queue, d, v) ELSE queue
<1>1. v \in d.query /\ v \in d.names /\ d.query \subseteq Names
  BY DashboardsAre
<1>2. /\ q \in Queues /\ QueueGood(d, q) /\ ToSet(queue) \subseteq ToSet(q)
      /\ \A m : FetchGood(d, queue, fetching, refetched, m) =>
                FetchGood(d, q, fetching, refetched, m)
      /\ SortGood(d, queue) /\ v \in ToSet(queue) => q = queue
      /\ queue = <<>> /\ SortGood(d, queue) => SortGood(d, q)
      /\ ~updates => q = queue
  BY <1>1, AppendedGood
<1>3. Render(d, Without(q, v), fetching \ {v}, missing)
  OBVIOUS
<1>4. q = IF updates THEN QueueAfterValue(queue, d, v) ELSE queue
  OBVIOUS
<1> HIDE DEF q
<1> DEFINE q1 == Without(q, v)
<1>5. /\ QueueGood(d, q1)
      /\ \A m : FetchGood(d, q, fetching, refetched, m) =>
                FetchGood(d, q1, fetching \ {v}, refetched \ {v}, m)
      /\ SortGood(d, q) /\ (Root(d, v) \/ (q # <<>> /\ v = Head(q))) => SortGood(d, q1)
  BY <1>1, <1>2, DequeuedGood
<1>6. q1 \in Queues /\ ToSet(q1) = ToSet(q) \ {v}
  BY <1>2, WithoutType
<1>7. queue' = q1
  BY <1>3 DEF Render
<1> HIDE DEF q1
<1>8. HeadFlies(d, queue', fetching')
  <2>1. Render(d, q1, fetching \ {v}, missing)
    BY <1>3 DEF q1
  <2>2. (fetching \ (fetching \ {v})) \cap ToSet(q1) = {}
    BY <1>6
  <2> QED
    BY <1>6, <2>1, <2>2, RenderFlies
<1>9. ASSUME FetchGood(d, queue, fetching, refetched, missed)
      PROVE  /\ (v \in refetched => \A u \in fetching : missing[u] = missed[u]) =>
                  FetchGood(d, queue', fetching', refetched \ {v}, missed')
             /\ SortGood(d, queue) /\ (v \in refetched /\ updates => queue = <<>>) =>
                  SortGood(d, queue')
  <2>1. /\ QueryOrder(d) # <<>>
        /\ Root(d, v) \/ (queue # <<>> /\ v = Head(queue))
        /\ v \notin refetched => v \in ToSet(queue) /\ \A u \in fetching : <<v, u>> \notin d.refs
        /\ v \in refetched => Root(d, v)
    BY <1>1, <1>9, FetchedAlone DEF FetchGood
  <2>2. ASSUME v \in refetched => \A u \in fetching : missing[u] = missed[u]
        PROVE  FetchGood(d, queue', fetching', refetched \ {v}, missed')
    <3>1. FetchGood(d, q1, fetching \ {v}, refetched \ {v}, missed)
      BY <1>2, <1>5, <1>9
    <3>2. \A u \in fetching \ {v} : missing[u] = missed[u]
      BY <1>1, <2>1, <2>2
    <3>3. FetchGood(d, q1, fetching \ {v}, refetched \ {v}, missing)
      BY <3>1, <3>2 DEF FetchGood
    <3>4. Render(d, q1, fetching \ {v}, missing)
      BY <1>3 DEF q1
    <3>5. fetching \ {v} \in SUBSET d.query
      OBVIOUS
    <3> QED
      BY <1>6, <2>1, <3>3, <3>4, <3>5, RenderGood
  <2>3. ASSUME SortGood(d, queue), v \in refetched /\ updates => queue = <<>>
        PROVE  SortGood(d, queue')
    <3>1. CASE v \in refetched
      <4>1. SortGood(d, q)
        BY <1>2, <2>3, <3>1
      <4> QED
        BY <1>5, <1>7, <2>1, <3>1, <4>1
    <3>2. CASE v \notin refetched
      BY <1>2, <1>5, <1>7, <2>1, <2>3, <3>2
    <3> QED
      BY <3>1, <3>2
  <2> QED
    BY <2>2, <2>3
<1> QED
  BY <1>2, <1>4, <1>5, <1>6, <1>7, <1>8, <1>9 DEF q1

LEMMA PageInvNextIs ==
  ASSUME page' # None =>
           /\ QueueGood(page', queue') /\ HeadFlies(page', queue', fetching')
           /\ ~overtaken' => /\ FetchGood(page', queue', fetching', refetched', missed')
                             /\ Fresh(page', queue', behind', failed')
           /\ ~overtaken' /\ ~shuffled' => SortGood(page', queue')
  PROVE  PageInv'
BY DEF PageInv

LEMMA PageInvStart == Init => PageInv
BY DEF Init, PageInv

LEMMA OpenKeepsPageInv ==
  ASSUME TypeInv, NEW d \in Dashboards, Open(d)
  PROVE  PageInv'
<1>1. queue \in Queues
  BY TypeInvIs
<1>2. page' = d
  BY DEF Open
<1>3. PICK joined : RenderKey(d, joined) /\ overtaken' = (HeadHasParents(d) \/ joined # {})
  BY DEF Open
<1>4. /\ QueueGood(d, queue') /\ SortGood(d, queue') /\ HeadFlies(d, queue', fetching')
      /\ \A b, x : Fresh(d, queue', b, x)
      /\ ~HeadHasParents(d) /\ joined = {} =>
           FetchGood(d, queue', fetching', refetched', missed')
  BY <1>1, <1>3, RenderKeyGood
<1> QED
  BY <1>2, <1>3, <1>4, PageInvNextIs

LEMMA TimeChangeKeepsPageInv ==
  ASSUME TypeInv, TimeChange
  PROVE  PageInv'
<1>1. queue \in Queues /\ page \in Dashboards
  BY TypeInvIs DEF TimeChange
<1>2. PICK joined : /\ RenderKey(page, joined)
                    /\ overtaken' = (HeadHasParents(page) \/ joined # {})
  BY DEF TimeChange
<1>3. /\ QueueGood(page, queue') /\ SortGood(page, queue') /\ HeadFlies(page, queue', fetching')
      /\ \A b, x : Fresh(page, queue', b, x)
      /\ ~HeadHasParents(page) /\ joined = {} =>
           FetchGood(page, queue', fetching', refetched', missed')
  BY <1>1, <1>2, RenderKeyGood
<1>4. page' = page
  BY DEF TimeChange
<1> QED
  BY <1>2, <1>3, <1>4, PageInvNextIs

\* What is fetched again waits for no other: the head is in flight already.
LEMMA OnlineKeepsPageInv ==
  ASSUME TypeInv, PageInv, Online
  PROVE  PageInv'
<1> DEFINE started == EnabledSet(page, queue) \ fetching
<1>1. page \in Dashboards /\ page # None
  BY TypeInvIs DEF Online
<1>2. /\ page' = page /\ queue' = queue /\ behind' = behind /\ failed' = failed
      /\ overtaken' = overtaken /\ shuffled' = shuffled
      /\ fetching' = fetching \cup started /\ refetched' = refetched \cup started
      /\ missed' = [v \in Names |-> IF v \in started THEN {} ELSE missed[v]]
  BY DEF Online
<1>3. HeadFlies(page, queue, fetching)
  BY <1>1 DEF PageInv
<1>4. \A v \in started : v \in page.query /\ Root(page, v)
  BY <1>3, EnabledType DEF HeadFlies
<1>5. started = {} \/ QueryOrder(page) # <<>>
  BY <1>1, <1>4, OrderFacts
<1> HIDE DEF started
<1>6. page.query \subseteq Names /\ fetching \subseteq page.query
  BY <1>1, DashboardsAre, TypeInvIs
<1>7. ASSUME FetchGood(page, queue, fetching, refetched, missed)
      PROVE  FetchGood(page, queue, fetching', refetched', missed')
  <2>1. \A v \in fetching' : missed'[v] = IF v \in started THEN {} ELSE missed[v]
    BY <1>2, <1>4, <1>6
  <2> QED
    BY <1>2, <1>4, <1>5, <1>7, <2>1 DEF FetchGood
<1>8. HeadFlies(page, queue, fetching')
  BY <1>2, <1>3 DEF HeadFlies
<1>9. PageInv
  OBVIOUS
<1> QED
  BY <1>1, <1>2, <1>7, <1>8, <1>9 DEF PageInv

LEMMA PickKeepsPageInv ==
  ASSUME TypeInv, PageInv, NEW v \in Names, Pick(v)
  PROVE  PageInv'
<1> DEFINE q1 == QueueAfterValue(queue, page, v)
           missing == Below(page, missed, v)
           O == ToSet(QueryOrder(page))
<1>1. /\ queue \in Queues /\ page \in Dashboards /\ v \in page.names
      /\ fetching \in SUBSET page.query
      /\ behind \in [Names -> SUBSET Stamps]
  BY TypeInvIs DEF Pick
<1>2. /\ page' = page /\ refetched' = refetched /\ failed' = failed /\ shuffled' = (queue # <<>>)
      /\ Render(page, q1, fetching, missing)
      /\ behind' = Below(page, behind, v)
      /\ overtaken' = (overtaken \/ \E c \in fetching : <<v, c>> \in page.refs)
  BY DEF Pick
<1>3. QueueGood(page, queue) /\ HeadFlies(page, queue, fetching)
  BY <1>2 DEF PageInv, Pick
<1>4. /\ q1 \in Queues /\ QueueGood(page, q1)
      /\ ToSet(queue) \subseteq ToSet(q1)
      /\ \A c \in O : v \in page.query /\ <<v, c>> \in page.refs => c # v /\ c \in ToSet(q1)
      /\ QueryOrder(page) = <<>> => q1 = queue
      /\ \A m : FetchGood(page, queue, fetching, refetched, m) =>
                FetchGood(page, q1, fetching, refetched, m)
      /\ queue = <<>> => SortGood(page, q1)
  BY <1>1, <1>3, AppendedGood
<1>5. queue' = q1
  BY <1>2 DEF Render
<1>6. page.query \subseteq Names /\ O \subseteq page.query /\ "time" \notin Names
  BY <1>1, DashboardsAre, OrderFacts, DashboardAssumption
<1> HIDE DEF q1
<1>7. ASSUME ~overtaken' PROVE FetchGood(page, queue', fetching', refetched', missed')
  <2>1. FetchGood(page, q1, fetching, refetched, missed)
    BY <1>1, <1>2, <1>4, <1>7 DEF PageInv, Pick
  <2>2. \A c \in fetching : missing[c] = missed[c]
    BY <1>1, <1>2, <1>6, <1>7 DEF Below
  <2> HIDE DEF missing
  <2>3. FetchGood(page, q1, fetching, refetched, missing)
    BY <2>1, <2>2 DEF FetchGood
  <2> QED
    BY <1>1, <1>2, <1>4, <2>3, RenderGood
<1>8. ASSUME ~overtaken' PROVE Fresh(page, queue', behind', failed')
  <2>1. Fresh(page, queue, behind, failed)
    BY <1>2, <1>8 DEF PageInv, Pick
  <2>2. ASSUME NEW c \in O, c \notin ToSet(q1), c \notin failed
        PROVE  behind'[c] \cap (page.query \cup {"time"}) = {}
    <3>1. behind[c] \cap (page.query \cup {"time"}) = {}
      BY <1>4, <2>1, <2>2 DEF Fresh
    <3>2. c \in Names /\ behind'[c] = IF <<v, c>> \in page.refs THEN behind[c] \cup {v} ELSE behind[c]
      BY <1>2, <1>6 DEF Below
    <3>3. <<v, c>> \in page.refs => v \notin page.query /\ v # "time"
      BY <1>4, <1>6, <2>2
    <3> QED
      BY <3>1, <3>2, <3>3
  <2> QED
    BY <1>2, <1>5, <2>2 DEF Fresh
<1>9. ASSUME ~shuffled' PROVE SortGood(page, queue')
  BY <1>2, <1>4, <1>5, <1>9
<1>10. HeadFlies(page, queue', fetching')
  BY <1>1, <1>2, <1>3, <1>4, RenderFlies
<1> QED
  BY <1>2, <1>4, <1>5, <1>7, <1>8, <1>9, <1>10, PageInvNextIs

LEMMA AnswerKeepsPageInv ==
  ASSUME TypeInv, PageInv, NEW v \in Names, NEW updates \in BOOLEAN, NEW changes \in BOOLEAN,
         Answer(v, updates, changes)
  PROVE  PageInv'
<1> DEFINE q == IF updates THEN QueueAfterValue(queue, page, v) ELSE queue
           outdated == [behind EXCEPT ![v] = missed[v]]
           missing == IF changes THEN Below(page, missed, v) ELSE missed
           O == ToSet(QueryOrder(page))
<1>1. /\ queue \in Queues /\ page \in Dashboards /\ page # None /\ v \in fetching
      /\ fetching \subseteq page.query /\ v \in page.names
      /\ behind \in [Names -> SUBSET Stamps]
  BY TypeInvIs, DashboardsAre DEF Answer
<1>2. /\ page' = page /\ failed' = failed \ {v} /\ refetched' = refetched \ {v}
      /\ changes => updates
      /\ Render(page, Without(q, v), fetching \ {v}, missing)
      /\ behind' = IF changes THEN Below(page, outdated, v) ELSE outdated
  BY DEF Answer
<1>10. /\ overtaken' = (overtaken \/ (/\ changes /\ v \in refetched
                                     /\ \E c \in fetching : <<v, c>> \in page.refs))
       /\ shuffled' = (shuffled \/ (updates /\ v \in refetched /\ queue # <<>>))
  BY DEF Answer
<1>3. \A u \in Names : <<v, u>> \notin page.refs => missing[u] = missed[u]
  BY DEF Below
<1>4. QueueGood(page, queue) /\ HeadFlies(page, queue, fetching)
  BY <1>1 DEF PageInv
<1>5. ~changes => missing = missed
  OBVIOUS
<1> HIDE DEF missing
<1>6. /\ QueueGood(page, queue') /\ HeadFlies(page, queue', fetching')
      /\ queue' = Without(q, v)
      /\ ToSet(queue) \ {v} \subseteq ToSet(queue')
      /\ FetchGood(page, queue, fetching, refetched, missed) =>
           /\ (v \in refetched => \A u \in fetching : missing[u] = missed[u]) =>
                FetchGood(page, queue', fetching', refetched \ {v}, missed')
           /\ SortGood(page, queue) /\ (v \in refetched /\ updates => queue = <<>>) =>
                SortGood(page, queue')
  <2>1. Render(page, Without(IF updates THEN QueueAfterValue(queue, page, v) ELSE queue, v),
               fetching \ {v}, missing)
    BY <1>2
  <2>2. queue \in Queues /\ page \in Dashboards /\ v \in fetching /\ fetching \subseteq page.query
    BY <1>1
  <2> QED
    BY <1>3, <1>4, <2>1, <2>2, AnswerGood
<1>7. ASSUME ~overtaken PROVE Fresh(page, queue', behind', failed')
  <2>1. /\ Fresh(page, queue, behind, failed)
        /\ FetchGood(page, queue, fetching, refetched, missed)
    BY <1>1, <1>7 DEF PageInv
  <2>2. v \in O
    BY <1>1, <1>4, <2>1, FetchedAlone
  <2>3. v \in Names /\ O \subseteq page.query /\ page.query \subseteq Names
    BY <1>1, DashboardsAre, OrderFacts
  <2>4. ASSUME NEW c \in O, c \notin ToSet(queue'), c \notin failed'
        PROVE  behind'[c] \cap (page.query \cup {"time"}) = {}
    <3>1. CASE c = v
      <4>1. outdated[v] = {}
        BY <1>1, <2>1, <2>3 DEF FetchGood
      <4>2. <<v, v>> \notin page.refs
        BY <1>1, <2>2, DashboardsAre, OrderFacts, DescendantsAreClosed
      <4>3. behind'[v] = {}
        BY <1>2, <2>3, <4>1, <4>2 DEF Below
      <4> QED
        BY <3>1, <4>3
    <3>2. CASE c # v
      <4>1. behind[c] \cap (page.query \cup {"time"}) = {}
        BY <1>2, <1>6, <2>1, <2>4, <3>2 DEF Fresh
      <4>2. ~(changes /\ <<v, c>> \in page.refs)
        <5>1. SUFFICES ASSUME changes, <<v, c>> \in page.refs PROVE c \in ToSet(queue')
          BY <2>4
        <5>2. q = QueueAfterValue(queue, page, v)
          BY <1>2, <5>1
        <5>3. q \in Queues /\ c \in ToSet(q)
          BY <1>1, <1>4, <5>1, <5>2, AppendedGood
        <5> QED
          BY <1>6, <3>2, <5>3, WithoutType
      <4>3. behind'[c] = behind[c]
        BY <1>1, <1>2, <2>3, <3>2, <4>2 DEF Below
      <4> QED
        BY <4>1, <4>3
    <3> QED
      BY <3>1, <3>2
  <2> QED
    BY <2>4 DEF Fresh
<1>8. ASSUME ~overtaken' PROVE FetchGood(page, queue', fetching', refetched', missed')
  <2>1. FetchGood(page, queue, fetching, refetched, missed)
    BY <1>1, <1>8, <1>10 DEF PageInv
  <2>2. ASSUME v \in refetched, NEW u \in fetching PROVE missing[u] = missed[u]
    <3>1. u \in Names
      BY <1>1, DashboardsAre
    <3> QED
      BY <1>3, <1>5, <1>8, <1>10, <2>2, <3>1
  <2> QED
    BY <1>2, <1>6, <2>1, <2>2
<1>9. ASSUME ~overtaken', ~shuffled' PROVE SortGood(page, queue')
  <2>1. /\ FetchGood(page, queue, fetching, refetched, missed) /\ SortGood(page, queue)
        /\ v \in refetched /\ updates => queue = <<>>
    BY <1>1, <1>9, <1>10 DEF PageInv
  <2> QED
    BY <1>6, <2>1
<1> QED
  BY <1>2, <1>6, <1>7, <1>8, <1>9, <1>10, PageInvNextIs

LEMMA AnswerErrorKeepsPageInv ==
  ASSUME TypeInv, PageInv, NEW v \in Names, AnswerError(v)
  PROVE  PageInv'
<1>1. /\ queue \in Queues /\ page \in Dashboards /\ page # None /\ v \in fetching
      /\ fetching \subseteq page.query
  BY TypeInvIs DEF AnswerError
<1>2. /\ page' = page /\ overtaken' = overtaken /\ shuffled' = shuffled
      /\ refetched' = refetched \ {v} /\ failed' = failed \cup {v} /\ behind' = behind
      /\ Render(page, Without(queue, v), fetching \ {v}, missed)
  BY DEF AnswerError
<1>3. QueueGood(page, queue) /\ HeadFlies(page, queue, fetching)
  BY <1>1 DEF PageInv
<1>4. /\ QueueGood(page, queue') /\ HeadFlies(page, queue', fetching')
      /\ ToSet(queue) \ {v} \subseteq ToSet(queue')
      /\ FetchGood(page, queue, fetching, refetched, missed) =>
           /\ FetchGood(page, queue', fetching', refetched \ {v}, missed')
           /\ SortGood(page, queue) => SortGood(page, queue')
  <2>1. queue = IF FALSE THEN QueueAfterValue(queue, page, v) ELSE queue
    OBVIOUS
  <2> QED
    BY <1>1, <1>2, <1>3, <2>1, AnswerGood
<1>5. ~overtaken => Fresh(page, queue', behind', failed')
  <2>1. ~overtaken => Fresh(page, queue, behind, failed)
    BY <1>1 DEF PageInv
  <2> QED
    BY <1>2, <1>4, <2>1 DEF Fresh
<1>6. ~overtaken => FetchGood(page, queue', fetching', refetched', missed')
  BY <1>1, <1>2, <1>4 DEF PageInv
<1>7. ~overtaken /\ ~shuffled => SortGood(page, queue')
  BY <1>1, <1>4 DEF PageInv
<1> QED
  BY <1>2, <1>4, <1>5, <1>6, <1>7, PageInvNextIs

LEMMA PageInvStep == TypeInv /\ PageInv /\ [Next]_vars => PageInv'
<1>1. SUFFICES ASSUME TypeInv, PageInv, [Next]_vars PROVE PageInv'
  OBVIOUS
<1>2. CASE \E d \in Dashboards : Open(d)
  BY <1>1, <1>2, OpenKeepsPageInv
<1>3. CASE Leave
  <2>1. page' = None
    BY <1>3 DEF Leave
  <2> QED
    BY <2>1, PageInvNextIs
<1>4. CASE TimeChange
  BY <1>1, <1>4, TimeChangeKeepsPageInv
<1>5. CASE (\E v \in Names : StrayAnswer(v)) \/ UNCHANGED vars
  <2>1. /\ page' = page /\ queue' = queue /\ fetching' = fetching /\ missed' = missed
        /\ behind' = behind /\ failed' = failed /\ overtaken' = overtaken /\ shuffled' = shuffled
        /\ refetched' = refetched
    BY <1>5 DEF StrayAnswer, vars
  <2> QED
    BY <1>1, <2>1 DEF PageInv
<1>6. ASSUME NEW v \in Names, Pick(v) PROVE PageInv'
  BY <1>1, <1>6, PickKeepsPageInv
<1>7. ASSUME NEW v \in Names, NEW updates \in BOOLEAN, NEW changes \in BOOLEAN,
             Answer(v, updates, changes)
      PROVE  PageInv'
  BY <1>1, <1>7, AnswerKeepsPageInv
<1>8. ASSUME NEW v \in Names, AnswerError(v) PROVE PageInv'
  BY <1>1, <1>8, AnswerErrorKeepsPageInv
<1>9. CASE Online
  BY <1>1, <1>9, OnlineKeepsPageInv
<1> QED
  BY <1>1, <1>2, <1>3, <1>4, <1>5, <1>6, <1>7, <1>8, <1>9 DEF Next, Arrival

LEMMA PageInvAlways == Spec => [](TypeInv /\ PageInv)
<1>1. Init => TypeInv /\ PageInv
  BY TypeStart, PageInvStart
<1>2. TypeInv /\ PageInv /\ [Next]_vars => (TypeInv /\ PageInv)'
  BY TypeStep, PageInvStep
<1> QED
  BY <1>1, <1>2, PTL DEF Spec

\* When the panels are let go, no variable outside cycles shows options that
\* are out of date, unless its query failed or one of four races occurred since
\* its key changed: the user, or the answer to a request sent when the browser
\* came online, changed a value under a request that uses it; the new key found
\* parents behind the head of the queue, or a request in flight to join.
THEOREM PanelsSeeFreshOptionsAlways == Spec => []PanelsSeeFreshOptions
<1>1. TypeInv /\ PageInv => PanelsSeeFreshOptions
  <2>1. SUFFICES ASSUME TypeInv, PageInv, page # None, queue = <<>>, ~overtaken,
                        NEW v \in ToSet(DependencyData[page].order), v \notin failed
                 PROVE  Outdated(v) = {}
    BY DEF PanelsSeeFreshOptions
  <2>2. page \in Dashboards /\ queue \in Seq(Names)
    BY <2>1, TypeInvIs DEF Queues
  <2>3. v \in ToSet(QueryOrder(page))
    BY <2>1, <2>2, OrderType
  <2>4. v \notin ToSet(queue)
    BY <2>1, <2>2, ElementsOf
  <2>5. Fresh(page, queue, behind, failed)
    BY <2>1 DEF PageInv
  <2> QED
    BY <2>1, <2>3, <2>4, <2>5 DEF Fresh, Outdated
<1> QED
  BY <1>1, PageInvAlways, PTL

\* A variable is fetched only when nothing that its options are computed from
\* is queued or being fetched, requests sent when the browser came online left
\* aside, unless a value was picked, or changed by such an answer, before the
\* queue was empty, or one of the races above occurred.
THEOREM ParentsFirstAlways == Spec => []ParentsFirst
<1>1. TypeInv /\ PageInv => ParentsFirst
  <2>1. SUFFICES ASSUME TypeInv, PageInv, page # None, ~overtaken, ~shuffled,
                        NEW v \in fetching,
                        NEW p \in ToSet(queue) \cup (fetching \ refetched), p # v,
                        v \in Descendants(page, p)
                 PROVE  FALSE
    BY DEF ParentsFirst
  <2>2. page \in Dashboards /\ queue \in Queues /\ queue \in Seq(Names) /\ fetching \subseteq page.query
    BY <2>1, TypeInvIs DEF Queues
  <2>3. /\ QueueGood(page, queue) /\ SortGood(page, queue)
        /\ FetchGood(page, queue, fetching, refetched, missed)
    BY <2>1 DEF PageInv
  <2>4. p \in ToSet(queue) /\ QueryOrder(page) # <<>>
    BY <2>1, <2>3 DEF FetchGood
  <2>5. Root(page, v) \/ (queue # <<>> /\ v = Head(queue))
    BY <2>2, <2>3, FetchedAlone
  <2>6. p \in page.query /\ IsDashboard(page)
    BY <2>2, <2>3, <2>4, OrderFacts, DashboardsAre DEF QueueGood
  <2>7. ~Root(page, v)
    BY <2>1, <2>6, RootIsNoDescendant
  <2>8. PICK j \in 1..Len(queue) : queue[j] = p
    BY <2>2, <2>4, ElementsOf
  <2>9. 1 \in 1..Len(queue) /\ queue[1] = v /\ 1 < j
    BY <2>1, <2>2, <2>5, <2>7, <2>8
  <2>10. <<v, p>> \notin UpsideDown(page)
    BY <2>3, <2>4, <2>8, <2>9 DEF SortGood, Respects
  <2>11. v \in Names /\ p \in Names
    BY <2>2, <2>8, <2>9
  <2> QED
    BY <2>1, <2>10, <2>11 DEF UpsideDown
<1> QED
  BY <1>1, PageInvAlways, PTL
=============================================================================
