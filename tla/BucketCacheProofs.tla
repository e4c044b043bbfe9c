-------------------------- MODULE BucketCacheProofs ---------------------------
(***************************************************************************)
(* Proofs about the cache of query results, for any windows, requests and  *)
(* intervals that satisfy CacheAssumption: whatever is cached is final,    *)
(* and answers have no holes unless missing ranges were shifted again.     *)
(***************************************************************************)
EXTENDS BucketCache, FiniteSetTheorems, TLAPS

-----------------------------------------------------------------------------
\* A multiple of Step
Aligned(t) == t % Step = 0

-----------------------------------------------------------------------------
(* Numbers. *)

LEMMA Constants ==
  /\ Step \in Nat /\ Step > 0 /\ Flux \in Nat /\ Late \in Nat /\ MaxDuration \in Nat
  /\ Start \in Nat /\ MaxTime \in Nat /\ MaxQueries \in Nat
  /\ Late + MaxDuration <= Flux /\ Flux <= Start /\ Start <= MaxTime
BY CacheAssumption

\* A set of numbers that is not empty has a smallest one.
LEMMA Smallest ==
  ASSUME NEW S \in SUBSET Nat, S # {}
  PROVE  \E m \in S : \A k \in S : m <= k
<1> DEFINE T == {1..n : n \in S}
           R == StrictSubsetOrdering(Nat)
<1>1. IsWellFoundedOn(R, FiniteSubsetsOf(Nat))
  BY FS_StrictSubsetOrderingWellFounded
<1>2. T \subseteq FiniteSubsetsOf(Nat) /\ T # {}
  <2>1. ASSUME NEW n \in S PROVE 1..n \in FiniteSubsetsOf(Nat)
    <3>1. IsFiniteSet(1..n) /\ 1..n \subseteq Nat
      BY FS_Interval
    <3> QED
      BY <3>1 DEF FiniteSubsetsOf
  <2> QED
    BY <2>1
<1>3. PICK t \in T : \A u \in T : <<u, t>> \notin R
  <2> HIDE DEF R, T
  <2> QED
    BY <1>1, <1>2, WFMin
<1>4. PICK m \in S : t = 1..m
  OBVIOUS
<1>5. ASSUME NEW k \in S, ~(m <= k)
      PROVE  FALSE
  <2>1. k \in Nat /\ m \in Nat /\ k < m
    BY <1>5
  <2>2. /\ 1..k \subseteq 1..m /\ m \in 1..m /\ m \notin 1..k
        /\ 1..k \subseteq Nat /\ 1..m \subseteq Nat
    BY <2>1
  <2>3. <<1..k, 1..m>> \in R
    BY <2>2 DEF StrictSubsetOrdering
  <2> QED
    BY <1>3, <1>4, <2>3
<1> QED
  BY <1>5

\* Induction, for the set of the numbers that have a property.
LEMMA Induction ==
  ASSUME NEW S, 0 \in S, \A n \in Nat : n \in S => n + 1 \in S
  PROVE  Nat \subseteq S
<1> SUFFICES ASSUME ~(Nat \subseteq S) PROVE FALSE
  OBVIOUS
<1>1. PICK m \in Nat \ S : \A k \in Nat \ S : m <= k
  BY Smallest
<1>2. m - 1 \in Nat /\ ~(m <= m - 1) /\ (m - 1) + 1 = m
  BY <1>1
<1> QED
  BY <1>1, <1>2

\* Multiples of Step are at least a Step apart.
LEMMA NextAligned ==
  ASSUME NEW a \in Nat, NEW b \in Nat, Aligned(a), Aligned(b), a < b
  PROVE  a + Step <= b
<1> DEFINE x == a \div Step  y == b \div Step
<1>1. a = Step * x /\ b = Step * y /\ x \in Int /\ y \in Int
  BY Constants DEF Aligned
<1> HIDE DEF x, y
<1>2. x < y
  BY <1>1, Constants
<1>3. x + 1 <= y
  BY <1>1, <1>2
<1>4. Step * (x + 1) <= Step * y
  BY <1>1, <1>3, Constants
<1> QED
  BY <1>1, <1>4, Constants

LEMMA AlignedPlusStep ==
  ASSUME NEW a \in Nat, Aligned(a)
  PROVE  Aligned(a + Step)
<1> DEFINE x == a \div Step
           y == (a + Step) \div Step
           m == (a + Step) % Step
<1>1. a = Step * x /\ x \in Int
  BY Constants DEF Aligned
<1>2. a + Step = Step * y + m /\ y \in Int /\ m \in 0..(Step - 1)
  BY Constants
<1> HIDE DEF x, y, m
<1>3. m = Step * ((x + 1) - y)
  BY <1>1, <1>2, Constants
<1>4. (x + 1) - y = 0
  <2> DEFINE k == (x + 1) - y
  <2>1. k \in Int /\ m = Step * k
    BY <1>1, <1>2, <1>3
  <2> HIDE DEF k
  <2>2. k >= 1 => m >= Step
    BY <2>1, Constants
  <2>3. k <= -1 => m < 0
    BY <2>1, Constants
  <2>4. k = 0
    BY <1>2, <2>1, <2>2, <2>3, Constants
  <2> QED
    BY <2>4 DEF k
<1>5. m = 0
  BY <1>3, <1>4, Constants
<1> QED
  BY <1>5 DEF Aligned, m

LEMMA LessItsRemainder ==
  ASSUME NEW s \in Nat, s > 0, NEW t \in Nat
  PROVE  (t - (t % s)) % s = 0
OBVIOUS

\* Rounding down and up to a multiple of Step.
LEMMA RoundedDown ==
  ASSUME NEW t \in Nat
  PROVE  /\ Down(t) \in Nat /\ Aligned(Down(t)) /\ Down(t) <= t /\ t < Down(t) + Step
         /\ \A a \in Nat : Aligned(a) /\ a <= t => a <= Down(t)
<1>1. Down(t) \in Nat /\ Aligned(Down(t)) /\ Down(t) <= t /\ t < Down(t) + Step
  <2>1. t % Step \in 0..(Step - 1) /\ t % Step <= t
    BY Constants
  <2>2. (t - (t % Step)) % Step = 0
    BY Constants, LessItsRemainder
  <2> QED
    BY <2>1, <2>2, Constants DEF Down, Aligned
<1>2. ASSUME NEW a \in Nat, Aligned(a), a <= t, ~(a <= Down(t))
      PROVE  FALSE
  <2>1. Down(t) + Step <= a
    BY <1>1, <1>2, NextAligned
  <2> QED
    BY <1>1, <1>2, <2>1, Constants
<1> QED
  BY <1>1, <1>2

LEMMA RoundedUp ==
  ASSUME NEW t \in Nat
  PROVE  /\ Up(t) \in Nat /\ Aligned(Up(t)) /\ t <= Up(t) /\ Up(t) < t + Step
         /\ Aligned(t) => Up(t) = t
         /\ \A a \in Nat : Aligned(a) /\ t <= a => Up(t) <= a
<1>1. Down(t) \in Nat /\ Aligned(Down(t)) /\ Down(t) <= t /\ t < Down(t) + Step
  BY RoundedDown
<1>2. CASE Aligned(t)
  <2>1. Up(t) = t
    BY <1>2 DEF Up, Aligned
  <2> QED
    BY <1>2, <2>1, Constants
<1>3. CASE ~Aligned(t)
  <2>1. Up(t) = Down(t) + Step
    BY <1>3 DEF Up, Aligned
  <2>2. Down(t) # t
    BY <1>1, <1>3
  <2>3. Aligned(Up(t))
    BY <1>1, <2>1, AlignedPlusStep
  <2>4. ASSUME NEW a \in Nat, Aligned(a), t <= a
        PROVE  Up(t) <= a
    BY <1>1, <2>1, <2>2, <2>4, NextAligned, Constants
  <2> QED
    BY <1>1, <1>3, <2>1, <2>2, <2>3, <2>4, Constants
<1> QED
  BY <1>2, <1>3

-----------------------------------------------------------------------------
(* The invariant. *)

\* A set of points has at most one for each time, and one that counts for i.
Single(pts) == \A q, r \in pts : q.ts = r.ts => q = r
Has(pts, i) == \E q \in pts : q.ts = i /\ ~q.partial

\* No more data can arrive for the value, unless a boundary fell in its interval.
Final(q) == q.ts \in edges \/ (q.v = (q.ts \in late) /\ q.ts + Step + Late <= now)

\* Every value in the cache is final, and without a time shift what is cached
\* is full.
Sound(buckets) ==
  /\ IsFiniteSet(buckets) /\ buckets \subseteq Bucket /\ BucketsAreFull(buckets)
  /\ \A b \in buckets : \A q \in b.pts : ~q.partial /\ Final(q)

\* What p asks for is read where it is asked for: there is no time shift, or
\* the whole window is read at once.
Unshifted(p) == shift = 0 \/ proc[p].whole

\* The whole intervals in the window of p, if p is unshifted
Whole(p, i) == Unshifted(p) /\ proc[p].from <= i /\ i + Step <= proc[p].to

\* A value read by p is right if its interval was over, with all that may come
\* late, when p began; and if it counts, the interval is within the window.
Fresh(p, q) ==
  /\ q.ts + Step + Late <= proc[p].started => q.v = (q.ts \in late)
  /\ ~q.partial => q.ts + Step <= proc[p].to

\* A range cuts no interval that the window does not cut.
CutsNothing(p, r) ==
  /\ r[2] <= proc[p].to
  /\ proc[p].from + Step <= proc[p].to =>
       /\ r[1] = proc[p].from \/ Aligned(r[1])
       /\ r[2] = proc[p].to \/ Aligned(r[2])

\* The request has a window and has not taken longer than it may.
InTime(p) ==
  /\ proc[p].from \in Times /\ proc[p].to \in Times /\ proc[p].from < proc[p].to
  /\ proc[p].started \in Start..now
  /\ Active(p) => now <= proc[p].started + MaxDuration

Executing(p) ==
  /\ \A r \in proc[p].todo : CutsNothing(p, r)
  /\ Single(proc[p].cached)
  /\ \A q \in proc[p].cached : ~q.partial /\ Final(q)
  /\ \A q \in proc[p].got : Fresh(p, q)
  /\ \A i \in Intervals : Whole(p, i) =>
       \/ Has(proc[p].cached, i)
       \/ Has(proc[p].got, i)
       \/ \E r \in proc[p].todo : r[1] <= i /\ i + Step <= r[2]

\* The answer of p is complete.
Complete(p) == \A i \in Intervals : Whole(p, i) => Has(proc[p].got, i)

RequestInv(p) ==
  /\ Sound(proc[p].put)
  /\ proc[p].pc # "idle" =>
       /\ InTime(p)
       /\ Single(proc[p].got)
       /\ \A q \in proc[p].got : q.partial => ~Whole(p, q.ts)
  /\ proc[p].pc = "execute" => Executing(p)
  /\ proc[p].pc \in {"put", "set", "done"} => Complete(p)
  /\ proc[p].pc = "put" => \A q \in proc[p].got : Final(q) \/ Fresh(p, q)

CacheInv ==
  /\ now \in Start..MaxTime /\ late \subseteq Intervals /\ edges \subseteq Intervals
  /\ shift \in Shifts
  /\ queries \in 0..MaxQueries
  /\ proc \in [Processes -> Query]
  /\ Sound(cache)
  /\ \A p \in Processes : RequestInv(p)

-----------------------------------------------------------------------------
(* The walk over the buckets. *)

\* A function that is defined from its value before exists.
Iterates(f, N, w0, step) == f[0] = w0 /\ \A n \in 1..N : f[n] = step[<<n, f[n - 1]>>]

LEMMA Iterated ==
  ASSUME NEW N \in Nat, NEW W, NEW w0 \in W, NEW step,
         \A n \in 1..N, w \in W : step[<<n, w>>] \in W
  PROVE  \E f \in [0..N -> W] : Iterates(f, N, w0, step)
<1> DEFINE Upto(n) == \E f \in [0..n -> W] :
                        f[0] = w0 /\ \A k \in 1..n : f[k] = step[<<k, f[k - 1]>>]
           S == {n \in Nat : n <= N => Upto(n)}
<1>1. 0 \in S
  <2> DEFINE f == [k \in 0..0 |-> w0]
  <2>1. f \in [0..0 -> W] /\ f[0] = w0 /\ 1..0 = {}
    OBVIOUS
  <2> QED
    BY <2>1
<1>2. ASSUME NEW n \in Nat, n \in S
      PROVE  n + 1 \in S
  <2> SUFFICES ASSUME n + 1 <= N PROVE Upto(n + 1)
    OBVIOUS
  <2>1. PICK f \in [0..n -> W] :
          f[0] = w0 /\ \A k \in 1..n : f[k] = step[<<k, f[k - 1]>>]
    BY <1>2
  <2> DEFINE g == [k \in 0..(n + 1) |-> IF k <= n THEN f[k] ELSE step[<<n + 1, f[n]>>]]
  <2>2. f[n] \in W /\ step[<<n + 1, f[n]>>] \in W
    BY <2>1
  <2>3. g \in [0..(n + 1) -> W] /\ g[0] = w0
    BY <2>1, <2>2
  <2>4. ASSUME NEW k \in 1..(n + 1)
        PROVE  g[k] = step[<<k, g[k - 1]>>]
    <3>1. CASE k = n + 1
      <4>1. g[k] = step[<<n + 1, f[n]>>] /\ g[k - 1] = f[n]
        BY <3>1
      <4> QED
        BY <3>1, <4>1
    <3>2. CASE k # n + 1
      <4>1. k \in 1..n /\ k - 1 \in 0..n
        BY <3>2
      <4>2. g[k] = f[k] /\ g[k - 1] = f[k - 1]
        BY <4>1
      <4> QED
        BY <2>1, <4>1, <4>2
    <3> QED
      BY <3>1, <3>2
  <2> HIDE DEF g
  <2> QED
    BY <2>3, <2>4
<1>3. N \in S
  <2> HIDE DEF S
  <2> QED
    BY <1>1, <1>2, Induction
<1> QED
  BY <1>3 DEF Iterates

\* What an order of the buckets is
LEMMA Ordered ==
  ASSUME NEW buckets, IsFiniteSet(buckets), NEW order \in Orders(buckets)
  PROVE  /\ Len(order) \in Nat
         /\ \A n \in 1..Len(order) : order[n] \in buckets
<1>1. Cardinality(buckets) \in Nat /\ order \in [1..Cardinality(buckets) -> buckets]
  BY FS_CardinalityType DEF Orders
<1>2. order \in Seq(buckets) /\ Len(order) = Cardinality(buckets)
  BY <1>1
<1> QED
  BY <1>1, <1>2

\* What the walk of findMissingRangesBasic keeps: it stays in the window.
BasicWalks(to) == [cur : 0..to, gaps : SUBSET {r \in Times \X Times : r[2] <= to}]

LEMMA VisitedBasic ==
  ASSUME NEW from \in Times, NEW to \in Times, from < to,
         NEW b \in Bucket, NEW w \in BasicWalks(to)
  PROVE  VisitBasic(w, b, from, to) \in BasicWalks(to)
<1>1. b.s \in Times /\ b.e \in Times /\ b.s \in Nat /\ b.e \in Nat
  BY Constants DEF Bucket, Intervals, Times
<1>2. w.cur \in 0..to /\ w.gaps \subseteq {r \in Times \X Times : r[2] <= to}
  BY DEF BasicWalks
<1>3. CASE b.e <= from \/ b.s >= to
  BY <1>3 DEF VisitBasic
<1>4. CASE ~(b.e <= from \/ b.s >= to)
  <2>1. Higher(w.cur, Lower(b.e, to)) \in 0..to
    BY <1>1, <1>2 DEF Higher, Lower, Times
  <2>2. Gap(w.cur, Lower(b.s, to)) \subseteq {r \in Times \X Times : r[2] <= to}
    <3>1. w.cur \in Times /\ Lower(b.s, to) \in Times /\ Lower(b.s, to) <= to
      BY <1>1, <1>2, Constants DEF Lower, Times
    <3> QED
      BY <3>1 DEF Gap
  <2> QED
    BY <1>2, <1>4, <2>1, <2>2 DEF VisitBasic, BasicWalks
<1> QED
  BY <1>3, <1>4

LEMMA BasicWalk ==
  ASSUME NEW buckets \in SUBSET Bucket, IsFiniteSet(buckets), NEW order \in Orders(buckets),
         NEW from \in Times, NEW to \in Times, from < to
  PROVE  WalkBasic(order, from, to)[Len(order)] \in BasicWalks(to)
<1> DEFINE N == Len(order)
           W == BasicWalks(to)
           w0 == [cur |-> from, gaps |-> {}]
           step == [x \in (1..N) \X W |-> VisitBasic(x[2], order[x[1]], from, to)]
           walk == WalkBasic(order, from, to)
           S == {n \in Nat : n <= N => walk[n] \in W}
<1>1. N \in Nat /\ \A n \in 1..N : order[n] \in Bucket
  BY Ordered
<1>2. w0 \in W
  BY DEF BasicWalks, Times
<1>3. \A n \in 1..N, w \in W : VisitBasic(w, order[n], from, to) \in W
  BY <1>1, VisitedBasic
<1>4. \A n \in 1..N, w \in W : step[<<n, w>>] \in W
  BY <1>3
<1> HIDE DEF N, W, w0, step
<1>5. PICK f \in [0..N -> W] : Iterates(f, N, w0, step)
  BY <1>1, <1>2, <1>4, Iterated
<1>6. f = [n \in 0..N |-> IF n = 0 THEN w0 ELSE VisitBasic(f[n - 1], order[n], from, to)]
  <2>1. ASSUME NEW n \in 1..N
        PROVE  f[n] = VisitBasic(f[n - 1], order[n], from, to)
    <3>1. f[n - 1] \in W /\ f[n] = step[<<n, f[n - 1]>>]
      BY <1>1, <1>5 DEF Iterates
    <3> QED
      BY <3>1 DEF step
  <2> QED
    BY <1>1, <1>5, <2>1 DEF Iterates
<1>7. walk = [n \in 0..N |-> IF n = 0 THEN w0 ELSE VisitBasic(walk[n - 1], order[n], from, to)]
  BY <1>6 DEF WalkBasic, N, w0
<1> HIDE DEF walk
<1>8. 0 \in S
  BY <1>1, <1>2, <1>7
<1>9. ASSUME NEW n \in Nat, n \in S
      PROVE  n + 1 \in S
  <2> SUFFICES ASSUME n + 1 <= N PROVE walk[n + 1] \in W
    OBVIOUS
  <2>1. walk[n] \in W
    BY <1>1, <1>9
  <2>2. walk[n + 1] = VisitBasic(walk[n], order[n + 1], from, to)
    BY <1>1, <1>7
  <2> QED
    BY <1>1, <1>3, <2>1, <2>2
<1>10. N \in S
  <2> HIDE DEF S
  <2> QED
    BY <1>1, <1>8, <1>9, Induction
<1> QED
  BY <1>1, <1>10 DEF N, W, walk

\* What the walk of findMissingRangesWithStep keeps: the ranges cut no interval
\* but at the ends of the window, and every interval up to the cursor is in a
\* range or in a bucket.
StepRanges(from, to) ==
  {r \in Times \X Times : /\ r[2] <= to
                          /\ r[1] = from \/ Aligned(r[1])
                          /\ r[2] = to \/ Aligned(r[2])}

Covered(i, gaps, buckets) ==
  \/ \E r \in gaps : r[1] <= i /\ i + Step <= r[2]
  \/ \E b \in buckets : b.s <= i /\ i < b.e

StepWalks(from, to, buckets) ==
  {w \in [cur : 0..to, gaps : SUBSET StepRanges(from, to)] :
     /\ w.cur = to \/ Aligned(w.cur)
     /\ \A i \in Intervals : from <= i /\ i + Step <= w.cur => Covered(i, w.gaps, buckets)}

LEMMA AlignedBounds ==
  ASSUME NEW t \in Intervals
  PROVE  t \in Nat /\ t \in Times /\ Aligned(t) /\ Down(t) = t /\ Up(t) = t
<1>1. t \in Nat /\ t \in Times /\ t % Step = 0
  BY Constants DEF Intervals, Times
<1> QED
  BY <1>1 DEF Aligned, Down, Up

LEMMA VisitedWithStep ==
  ASSUME NEW from \in Times, NEW to \in Times, NEW buckets \in SUBSET Bucket,
         NEW b \in buckets, NEW w \in StepWalks(from, to, buckets)
  PROVE  Visit(w, b, to) \in StepWalks(from, to, buckets)
<1>1. /\ b.s \in Nat /\ b.e \in Nat /\ b.s \in Times /\ b.e \in Times
      /\ Aligned(b.s) /\ Aligned(b.e) /\ Down(b.e) = b.e /\ Up(b.s) = b.s
  <2>1. b.s \in Intervals /\ b.e \in Intervals
    BY DEF Bucket
  <2> QED
    BY <2>1, AlignedBounds
<1>2. /\ w.cur \in 0..to /\ w.gaps \subseteq StepRanges(from, to)
      /\ w.cur = to \/ Aligned(w.cur)
      /\ \A i \in Intervals : from <= i /\ i + Step <= w.cur => Covered(i, w.gaps, buckets)
  BY DEF StepWalks
<1>3. to \in Nat /\ w.cur \in Nat /\ w.cur \in Times /\ w.cur <= to
  BY <1>2, Constants DEF Times
<1>4. CASE b.e <= w.cur \/ b.s >= to
  BY <1>4 DEF Visit
<1>5. CASE ~(b.e <= w.cur \/ b.s >= to)
  <2> DEFINE cur == IF b.e < to THEN b.e ELSE to
             gap == Gap(w.cur, b.s)
  <2>1. w.cur < b.e /\ b.s < to
    BY <1>1, <1>3, <1>5
  <2>2. Visit(w, b, to) = [cur |-> cur, gaps |-> w.gaps \cup gap]
    <3>1. Lower(Up(b.s), to) = b.s
      BY <1>1, <2>1 DEF Lower
    <3>2. Higher(w.cur, IF b.e < to THEN Down(b.e) ELSE to) = cur
      BY <1>1, <1>3, <2>1 DEF Higher
    <3> QED
      BY <1>5, <3>1, <3>2 DEF Visit
  <2>3. cur \in 0..to /\ (cur = to \/ Aligned(cur))
    BY <1>1, <1>3
  <2>4. gap \subseteq StepRanges(from, to)
    <3>1. w.cur < b.s => Aligned(w.cur)
      BY <1>1, <1>2, <1>3, <2>1
    <3> QED
      BY <1>1, <1>3, <2>1, <3>1 DEF Gap, StepRanges
  <2>5. ASSUME NEW i \in Intervals, from <= i, i + Step <= cur
        PROVE  Covered(i, w.gaps \cup gap, buckets)
    <3>1. i \in Nat /\ Aligned(i)
      BY AlignedBounds
    <3>2. CASE i + Step <= w.cur
      BY <1>2, <2>5, <3>2 DEF Covered
    <3>3. CASE ~(i + Step <= w.cur)
      <4>1. Aligned(w.cur)
        BY <1>1, <1>2, <1>3, <2>5, <3>1, <3>3, Constants
      <4>2. w.cur <= i
        BY <1>3, <3>1, <3>3, <4>1, NextAligned
      <4>3. CASE b.s <= i
        <5>1. i < b.e
          BY <1>1, <1>3, <2>5, <3>1, Constants
        <5> QED
          BY <4>3, <5>1 DEF Covered
      <4>4. CASE ~(b.s <= i)
        <5>1. i + Step <= b.s
          BY <1>1, <3>1, <4>4, NextAligned
        <5>2. w.cur < b.s
          BY <1>1, <1>3, <3>1, <4>2, <4>4
        <5>3. <<w.cur, b.s>> \in gap
          BY <5>2 DEF Gap
        <5> QED
          BY <4>2, <5>1, <5>3 DEF Covered
      <4> QED
        BY <4>3, <4>4
    <3> QED
      BY <3>2, <3>3
  <2> HIDE DEF cur, gap
  <2>6. w.gaps \cup gap \subseteq StepRanges(from, to)
    BY <1>2, <2>4
  <2> DEFINE gaps == w.gaps \cup gap
             v == [cur |-> cur, gaps |-> gaps]
  <2>7. v.cur = cur /\ v.gaps = gaps
    OBVIOUS
  <2>8. v \in [cur : 0..to, gaps : SUBSET StepRanges(from, to)]
    BY <2>3, <2>6
  <2>9. \A i \in Intervals : from <= i /\ i + Step <= cur => Covered(i, gaps, buckets)
    BY <2>5
  <2> HIDE DEF gaps, v
  <2>10. v \in StepWalks(from, to, buckets)
    BY <2>3, <2>7, <2>8, <2>9 DEF StepWalks
  <2> QED
    BY <2>2, <2>10 DEF v, gaps
<1> QED
  BY <1>4, <1>5

LEMMA StepWalk ==
  ASSUME NEW buckets \in SUBSET Bucket, IsFiniteSet(buckets), NEW order \in Orders(buckets),
         NEW from \in Times, NEW to \in Times, from + Step <= to
  PROVE  WalkWithStep(order, from, to)[Len(order)] \in StepWalks(from, to, buckets)
<1> DEFINE N == Len(order)
           W == StepWalks(from, to, buckets)
           w0 == [cur |-> Up(from), gaps |-> Gap(from, Lower(Up(from), to))]
           step == [x \in (1..N) \X W |-> Visit(x[2], order[x[1]], to)]
           walk == WalkWithStep(order, from, to)
           S == {n \in Nat : n <= N => walk[n] \in W}
<1>1. N \in Nat /\ \A n \in 1..N : order[n] \in buckets
  BY Ordered
<1>2. w0 \in W
  <2>1. from \in Nat /\ to \in Nat
    BY Constants DEF Times
  <2>2. Up(from) \in Nat /\ Aligned(Up(from)) /\ from <= Up(from) /\ Up(from) < from + Step
    BY <2>1, RoundedUp
  <2>3. Up(from) \in 0..to /\ Up(from) \in Times /\ Lower(Up(from), to) = Up(from)
    BY <2>1, <2>2, Constants DEF Lower, Times
  <2>4. Gap(from, Up(from)) \subseteq StepRanges(from, to)
    BY <2>1, <2>2, <2>3 DEF Gap, StepRanges
  <2>5. ASSUME NEW i \in Intervals, from <= i, i + Step <= Up(from)
        PROVE  FALSE
    <3>1. i \in Nat /\ Aligned(i)
      BY AlignedBounds
    <3>2. Up(from) <= i
      BY <2>1, <2>5, <3>1, RoundedUp
    <3> QED
      BY <2>2, <2>5, <3>1, <3>2, Constants
  <2> QED
    BY <2>2, <2>3, <2>4, <2>5 DEF StepWalks
<1>3. \A n \in 1..N, w \in W : Visit(w, order[n], to) \in W
  BY <1>1, VisitedWithStep
<1>4. \A n \in 1..N, w \in W : step[<<n, w>>] \in W
  BY <1>3
<1> HIDE DEF N, W, w0, step
<1>5. PICK f \in [0..N -> W] : Iterates(f, N, w0, step)
  BY <1>1, <1>2, <1>4, Iterated
<1>6. f = [n \in 0..N |-> IF n = 0 THEN w0 ELSE Visit(f[n - 1], order[n], to)]
  <2>1. ASSUME NEW n \in 1..N
        PROVE  f[n] = Visit(f[n - 1], order[n], to)
    <3>1. f[n - 1] \in W /\ f[n] = step[<<n, f[n - 1]>>]
      BY <1>1, <1>5 DEF Iterates
    <3> QED
      BY <3>1 DEF step
  <2> QED
    BY <1>1, <1>5, <2>1 DEF Iterates
<1>7. walk = [n \in 0..N |-> IF n = 0 THEN w0 ELSE Visit(walk[n - 1], order[n], to)]
  BY <1>6 DEF WalkWithStep, N, w0
<1> HIDE DEF walk
<1>8. 0 \in S
  BY <1>1, <1>2, <1>7
<1>9. ASSUME NEW n \in Nat, n \in S
      PROVE  n + 1 \in S
  <2> SUFFICES ASSUME n + 1 <= N PROVE walk[n + 1] \in W
    OBVIOUS
  <2>1. walk[n] \in W
    BY <1>1, <1>9
  <2>2. walk[n + 1] = Visit(walk[n], order[n + 1], to)
    BY <1>1, <1>7
  <2> QED
    BY <1>1, <1>3, <2>1, <2>2
<1>10. N \in S
  <2> HIDE DEF S
  <2> QED
    BY <1>1, <1>8, <1>9, Induction
<1> QED
  BY <1>1, <1>10 DEF N, W, walk

\* The missing ranges lie in the window, cut no interval of it, and together
\* with the buckets cover it.
LEMMA Missing ==
  ASSUME now \in Start..MaxTime,
         NEW buckets \in SUBSET Bucket, IsFiniteSet(buckets), NEW order \in Orders(buckets),
         NEW from \in Times, NEW to \in Times, from < to
  PROVE  LET gaps == MissingRanges(order, from, to)
         IN  /\ gaps \subseteq Times \X Times
             /\ \A r \in gaps : r[2] <= to
             /\ from + Step <= to => gaps \subseteq StepRanges(from, to)
             /\ \A i \in Intervals : from <= i /\ i + Step <= to => Covered(i, gaps, buckets)
<1> DEFINE gaps == MissingRanges(order, from, to)
<1>1. from \in Nat /\ to \in Nat /\ to \in Times
  BY Constants DEF Times
<1>2. CASE from + Step > to
  <2> DEFINE end == WalkBasic(order, from, to)[Len(order)]
             flux == Higher(end.cur, Lower(to, now - Flux))
             R == {r \in Times \X Times : r[2] <= to}
  <2>1. end \in BasicWalks(to)
    BY BasicWalk
  <2>2. gaps = end.gaps \cup Gap(end.cur, flux) \cup Gap(flux, to)
    BY <1>2, <1>1, Constants DEF MissingRanges, MissingBasic
  <2> HIDE DEF end, gaps
  <2>3. end.cur \in 0..to /\ end.gaps \subseteq R
    BY <2>1 DEF BasicWalks
  <2>4. flux \in Times /\ flux <= to /\ end.cur \in Times
    BY <1>1, <2>3, Constants DEF Higher, Lower, Times
  <2> HIDE DEF flux
  <2>5. Gap(end.cur, flux) \subseteq R /\ Gap(flux, to) \subseteq R
    BY <1>1, <2>4 DEF Gap
  <2>6. gaps \subseteq R
    BY <2>2, <2>3, <2>5
  <2>7. ASSUME NEW i \in Intervals, from <= i, i + Step <= to
        PROVE  FALSE
    BY <1>1, <1>2, <2>7, Constants, AlignedBounds
  <2>8. ~(from + Step <= to)
    BY <1>1, <1>2, Constants
  <2> QED
    BY <2>6, <2>7, <2>8 DEF gaps
<1>3. CASE ~(from + Step > to)
  <2> DEFINE end == WalkWithStep(order, from, to)[Len(order)]
  <2>1. from + Step <= to
    BY <1>1, <1>3, Constants
  <2>2. end \in StepWalks(from, to, buckets)
    BY <2>1, StepWalk
  <2>3. gaps = end.gaps \cup Gap(end.cur, to)
    BY <1>3 DEF MissingRanges, MissingWithStep
  <2> HIDE DEF end, gaps
  <2>4. /\ end.cur \in 0..to /\ end.gaps \subseteq StepRanges(from, to)
        /\ end.cur = to \/ Aligned(end.cur)
        /\ \A i \in Intervals : from <= i /\ i + Step <= end.cur => Covered(i, end.gaps, buckets)
    BY <2>2 DEF StepWalks
  <2>5. end.cur \in Times /\ end.cur \in Nat /\ end.cur <= to
    BY <1>1, <2>4, Constants DEF Times
  <2>6. Gap(end.cur, to) \subseteq StepRanges(from, to)
    <3>1. end.cur < to => Aligned(end.cur)
      BY <2>4, <2>5, <1>1
    <3> QED
      BY <1>1, <2>5, <3>1 DEF Gap, StepRanges
  <2>7. gaps \subseteq StepRanges(from, to)
    BY <2>3, <2>4, <2>6
  <2>8. ASSUME NEW i \in Intervals, from <= i, i + Step <= to
        PROVE  Covered(i, gaps, buckets)
    <3>1. i \in Nat /\ Aligned(i)
      BY AlignedBounds
    <3>2. CASE i + Step <= end.cur
      BY <2>3, <2>4, <2>8, <3>2 DEF Covered
    <3>3. CASE ~(i + Step <= end.cur)
      <4>1. end.cur < to
        BY <1>1, <2>5, <2>8, <3>1, <3>3, Constants
      <4>2. end.cur <= i
        BY <2>4, <2>5, <3>1, <3>3, <4>1, <1>1, NextAligned
      <4>3. <<end.cur, to>> \in gaps
        BY <2>3, <4>1 DEF Gap
      <4> QED
        BY <2>8, <4>2, <4>3 DEF Covered
    <3> QED
      BY <3>2, <3>3
  <2>9. gaps \subseteq Times \X Times /\ \A r \in gaps : r[2] <= to
    BY <2>7 DEF StepRanges
  <2> QED
    BY <2>1, <2>7, <2>8, <2>9 DEF gaps
<1> QED
  BY <1>2, <1>3

-----------------------------------------------------------------------------
(* What a step may do to the rest. *)

\* Time does not go back, no edge is forgotten, the query's shift stays, and no data arrives for an
\* interval whose late data is complete.
Later ==
  /\ now' \in Start..MaxTime /\ now <= now' /\ edges \subseteq edges' /\ shift' = shift
  /\ \A t \in Nat : t + Step + Late <= now => (t \in late' <=> t \in late)

LEMMA FinalStays ==
  ASSUME now \in Start..MaxTime, Later, NEW q \in Point, Final(q)
  PROVE  Final(q)'
<1>1. q.ts \in Nat /\ now \in Nat /\ now' \in Nat /\ now <= now'
  <2>1. q.ts \in Intervals
    BY DEF Point
  <2> QED
    BY <2>1, AlignedBounds, Constants DEF Later
<1>2. CASE q.ts \in edges
  BY <1>2 DEF Later, Final
<1>3. CASE q.v = (q.ts \in late) /\ q.ts + Step + Late <= now
  <2>1. q.ts \in late' <=> q.ts \in late
    BY <1>1, <1>3 DEF Later
  <2>2. q.ts + Step + Late <= now'
    BY <1>1, <1>3, Constants
  <2> HIDE <1>1
  <2> QED
    BY <1>3, <2>1, <2>2 DEF Final
<1> QED
  BY <1>2, <1>3 DEF Final

LEMMA SoundStays ==
  ASSUME now \in Start..MaxTime, Later, NEW buckets, Sound(buckets)
  PROVE  Sound(buckets)'
<1>1. ASSUME NEW b \in buckets, NEW q \in b.pts
      PROVE  ~q.partial /\ Final(q)'
  <2>1. q \in Point /\ ~q.partial /\ Final(q)
    BY DEF Sound, Bucket
  <2> QED
    BY <2>1, FinalStays
<1> QED
  BY <1>1 DEF Sound, Later, BucketsAreFull

LEMMA SoundPut ==
  ASSUME now \in Start..MaxTime, Later, NEW p, NEW buckets, Sound(buckets),
         proc'[p].put = buckets
  PROVE  Sound(proc[p].put)'
<1>1. Sound(buckets)'
  BY SoundStays
<1> QED
  BY <1>1 DEF Sound, Final, BucketsAreFull

LEMMA SoundCache ==
  ASSUME now \in Start..MaxTime, Later, NEW buckets, Sound(buckets), cache' = buckets
  PROVE  Sound(cache)'
<1>1. Sound(buckets)'
  BY SoundStays
<1> QED
  BY <1>1 DEF Sound, Final, BucketsAreFull

\* The range of the fields of a request
LEMMA QueryFields ==
  ASSUME proc \in [Processes -> Query], NEW p \in Processes
  PROVE  /\ proc[p].pc \in {"idle", "execute", "put", "set", "done"}
         /\ proc[p].from \in Times /\ proc[p].to \in Times /\ proc[p].started \in Times
         /\ proc[p].from \in Nat /\ proc[p].to \in Nat /\ proc[p].started \in Nat
         /\ proc[p].cached \subseteq Point /\ proc[p].got \subseteq Point
         /\ proc[p].todo \subseteq Times \X Times
         /\ proc[p].whole \in BOOLEAN /\ proc[p].put \subseteq Bucket
BY Constants DEF Query, Times

LEMMA FreshStays ==
  ASSUME now \in Start..MaxTime, Later, proc \in [Processes -> Query],
         NEW p \in Processes, proc[p].started <= now, proc'[p].started = proc[p].started,
         proc'[p].to = proc[p].to, NEW q \in Point, Fresh(p, q)
  PROVE  Fresh(p, q)'
<1>1. q.ts \in Nat /\ proc[p].started \in Nat /\ now \in Nat
  <2>1. q.ts \in Intervals
    BY DEF Point
  <2> QED
    BY <2>1, QueryFields, AlignedBounds, Constants
<1>2. ASSUME q.ts + Step + Late <= proc[p].started
      PROVE  q.v = (q.ts \in late')
  <2>1. q.v = (q.ts \in late)
    BY <1>2 DEF Fresh
  <2>2. q.ts + Step + Late <= now
    BY <1>1, <1>2, Constants
  <2>3. q.ts \in late' <=> q.ts \in late
    BY <1>1, <2>2 DEF Later
  <2> HIDE <1>1
  <2> QED
    BY <2>1, <2>3
<1> HIDE <1>1
<1> QED
  BY <1>2 DEF Fresh

\* A request that is not the one at work
LEMMA RequestStays ==
  ASSUME CacheInv, Later, NEW p \in Processes, proc'[p] = proc[p],
         Active(p) => now' <= proc[p].started + MaxDuration
  PROVE  RequestInv(p)'
<1> USE DEF CacheInv
<1>1. RequestInv(p) /\ now \in Start..MaxTime /\ now \in Nat /\ now' \in Start..MaxTime
  BY Constants DEF Later
<1>2. Sound(proc[p].put)'
  BY <1>1, SoundPut DEF RequestInv
<1>3. ASSUME proc[p].pc # "idle"
      PROVE  /\ InTime(p)' /\ Single(proc[p].got)'
             /\ (\A q \in proc[p].got : q.partial => ~Whole(p, q.ts))'
  <2>1. /\ InTime(p) /\ Single(proc[p].got)
        /\ \A q \in proc[p].got : q.partial => ~Whole(p, q.ts)
    BY <1>1, <1>3 DEF RequestInv
  <2>2. InTime(p)'
    <3>1. /\ proc[p].from \in Times /\ proc[p].to \in Times /\ proc[p].from < proc[p].to
          /\ proc[p].started \in Start..now
          /\ Active(p) => now' <= proc[p].started + MaxDuration
      BY <2>1 DEF InTime
    <3>2. proc[p].started \in Start..now'
      BY <1>1, <3>1, Constants DEF Later
    <3> QED
      BY <3>1, <3>2 DEF InTime, Active
  <2> QED
    BY <2>1, <2>2 DEF Single, Whole, Unshifted, Later
<1>4. ASSUME proc[p].pc = "execute" \/ proc[p].pc = "put"
      PROVE  \A q \in proc[p].got : Fresh(p, q) => Fresh(p, q)'
  <2>1. proc[p].started \in Start..now
    BY <1>1, <1>4 DEF RequestInv, InTime
  <2>2. proc[p].started <= now /\ proc[p].got \subseteq Point
    BY <1>1, <2>1, QueryFields, Constants
  <2> QED
    BY <1>1, <2>2, FreshStays
<1>5. ASSUME proc[p].pc = "execute" PROVE Executing(p)'
  <2>1. Executing(p)
    BY <1>1, <1>5 DEF RequestInv
  <2>2. \A q \in proc[p].cached : Final(q) => Final(q)'
    BY <1>1, QueryFields, FinalStays
  <2>3. \A q \in proc[p].got : Fresh(p, q)'
    BY <1>4, <1>5, <2>1 DEF Executing
  <2>4. \A q \in proc[p].cached : ~q.partial /\ Final(q)'
    BY <2>1, <2>2 DEF Executing
  <2>5. (\A q \in proc[p].got : Fresh(p, q))'
    BY <2>3
  <2>6. (\A q \in proc[p].cached : ~q.partial /\ Final(q))'
    BY <2>4
  <2> QED
    BY <2>1, <2>5, <2>6 DEF Executing, CutsNothing, Single, Whole, Unshifted, Has, Later
<1>6. ASSUME proc[p].pc \in {"put", "set", "done"} PROVE Complete(p)'
  <2>1. Complete(p)
    BY <1>1, <1>6 DEF RequestInv
  <2> QED
    BY <2>1 DEF Complete, Whole, Unshifted, Has, Later
<1>7. ASSUME proc[p].pc = "put"
      PROVE  (\A q \in proc[p].got : Final(q) \/ Fresh(p, q))'
  <2>1. \A q \in proc[p].got : Final(q) \/ Fresh(p, q)
    BY <1>1, <1>7 DEF RequestInv
  <2>2. \A q \in proc[p].got : Final(q) => Final(q)'
    BY <1>1, QueryFields, FinalStays
  <2>3. \A q \in proc[p].got : Final(q)' \/ Fresh(p, q)'
    BY <1>4, <1>7, <2>1, <2>2
  <2> QED
    BY <2>3
<1> HIDE DEF CacheInv
<1> QED
  BY <1>2, <1>3, <1>5, <1>6, <1>7 DEF RequestInv

LEMMA OthersStay ==
  ASSUME CacheInv, Later, now' = now, NEW p \in Processes, proc'[p] = proc[p]
  PROVE  RequestInv(p)'
<1>1. Active(p) => now' <= proc[p].started + MaxDuration
  BY DEF CacheInv, RequestInv, InTime, Active
<1> QED
  BY <1>1, RequestStays

\* When neither time nor data changes
LEMMA SameIsLater ==
  ASSUME CacheInv, now' = now, shift' = shift, late' = late, edges \subseteq edges'
  PROVE  Later
BY Constants DEF CacheInv, Later

-----------------------------------------------------------------------------
(* The invariant holds at the start and in every step. *)

LEMMA InitInv == Init => CacheInv
<1> SUFFICES ASSUME Init PROVE CacheInv
  OBVIOUS
<1>1. 0 \in Times /\ 0 \in Nat
  BY Constants DEF Times
<1>2. NoQuery \in Query
  BY <1>1 DEF NoQuery, Query
<1>3. proc \in [Processes -> Query]
  BY <1>2 DEF Init
<1>4. Sound({})
  BY FS_EmptySet DEF Sound, BucketsAreFull
<1>5. ASSUME NEW p \in Processes
      PROVE  RequestInv(p)
  <2>1. proc[p].pc = "idle" /\ proc[p].put = {}
    BY DEF Init, NoQuery
  <2> QED
    BY <1>4, <2>1 DEF RequestInv
<1> QED
  BY <1>3, <1>4, <1>5, Constants DEF Init, CacheInv

LEMMA TickInv == CacheInv /\ Tick => CacheInv'
<1> SUFFICES ASSUME CacheInv, Tick PROVE CacheInv'
  OBVIOUS
<1>1. now \in Start..MaxTime /\ now' \in Start..MaxTime /\ now' = now + 1 /\ now \in Nat
  BY Constants DEF CacheInv, Tick
<1>2. Later
  BY <1>1 DEF Later, Tick
<1>3. ASSUME NEW p \in Processes
      PROVE  RequestInv(p)'
  <2>1. Active(p) => now' <= proc[p].started + MaxDuration
    <3>1. proc[p].started \in Nat
      BY QueryFields DEF CacheInv
    <3> QED
      BY <1>1, <3>1, Constants DEF Tick
  <2>2. proc'[p] = proc[p]
    BY DEF Tick
  <2> QED
    BY <1>2, <2>1, <2>2, RequestStays
<1>4. Sound(cache)'
  BY <1>1, <1>2, SoundCache DEF CacheInv, Tick
<1> QED
  BY <1>1, <1>3, <1>4 DEF CacheInv, Tick

LEMMA EvictInv == CacheInv /\ Evict => CacheInv'
<1> SUFFICES ASSUME CacheInv, Evict PROVE CacheInv'
  OBVIOUS
<1>1. now' = now /\ Later
  BY SameIsLater DEF Evict
<1>2. \A p \in Processes : RequestInv(p)'
  BY <1>1, OthersStay DEF Evict
<1>3. Sound(cache)'
  BY FS_EmptySet DEF Sound, BucketsAreFull, Evict
<1> QED
  BY <1>2, <1>3 DEF CacheInv, Evict

LEMMA ArriveInv == \A i \in Intervals : CacheInv /\ Arrive(i) => CacheInv'
<1> SUFFICES ASSUME NEW i \in Intervals, CacheInv, Arrive(i) PROVE CacheInv'
  OBVIOUS
<1>1. now' = now /\ Later
  <2>1. now \in Start..MaxTime /\ now \in Nat /\ i \in Nat
    BY AlignedBounds, Constants DEF CacheInv
  <2>2. ASSUME NEW t \in Nat, t + Step + Late <= now
        PROVE  t # i
    BY <2>1, <2>2, Constants DEF Arrive
  <2> QED
    BY <2>1, <2>2 DEF Arrive, Later
<1>2. \A p \in Processes : RequestInv(p)'
  BY <1>1, OthersStay DEF Arrive
<1>3. Sound(cache)'
  BY <1>1, SoundCache DEF CacheInv, Arrive
<1> QED
  BY <1>2, <1>3 DEF CacheInv, Arrive

\* The values taken from the cache are final, one for each time, and there is
\* one for every interval in a bucket.
LEMMA Merged ==
  ASSUME Sound(cache), NEW from \in Times, NEW to \in Times,
         NEW merged \in Mergings(Relevant(cache, from, to))
  PROVE  LET hits == {q \in merged : from <= q.ts /\ q.ts < to}
         IN  /\ hits \subseteq Point /\ Single(hits)
             /\ \A q \in hits : ~q.partial /\ Final(q)
             /\ shift = 0 => \A i \in Intervals : from <= i /\ i + Step <= to =>
                  ((\E b \in cache : b.s <= i /\ i < b.e) => Has(hits, i))
<1> DEFINE hits == {q \in merged : from <= q.ts /\ q.ts < to}
           relevant == Relevant(cache, from, to)
<1>1. relevant \subseteq cache /\ \A b \in cache : b \in Bucket
  BY DEF Relevant, Sound
<1>2. /\ merged \subseteq UNION {b.pts : b \in relevant}
      /\ {q.ts : q \in merged} = UNION {{q.ts : q \in b.pts} : b \in relevant}
      /\ \A q, r \in merged : q.ts = r.ts => q = r
  BY DEF Mergings
<1>3. ASSUME NEW q \in merged
      PROVE  q \in Point /\ ~q.partial /\ Final(q)
  <2>1. PICK b \in cache : q \in b.pts
    BY <1>1, <1>2
  <2> QED
    BY <1>1, <2>1 DEF Sound, Bucket
<1>4. ASSUME shift = 0, NEW i \in Intervals, from <= i, i + Step <= to,
             NEW b \in cache, b.s <= i, i < b.e
      PROVE  Has(hits, i)
  <2>1. /\ i \in Nat /\ b.s \in Nat /\ b.e \in Nat /\ from \in Nat /\ to \in Nat
        /\ i < to
    <3>1. i \in Nat /\ b.s \in Nat /\ b.e \in Nat /\ from \in Nat /\ to \in Nat
      BY <1>1, AlignedBounds, Constants DEF Bucket, Times
    <3> QED
      BY <1>4, <3>1, Constants
  <2>2. b \in relevant
    BY <1>4, <2>1 DEF Relevant
  <2>3. PICK q \in b.pts : q.ts = i
    BY <1>4 DEF Sound, BucketsAreFull
  <2>4. PICK r \in merged : r.ts = i
    <3>1. i \in {x.ts : x \in b.pts}
      BY <2>3
    <3>2. i \in UNION {{x.ts : x \in c.pts} : c \in relevant}
      BY <2>2, <3>1
    <3> QED
      BY <1>2, <3>2
  <2>5. r \in hits
    BY <1>4, <2>1, <2>4
  <2> QED
    BY <1>3, <2>4, <2>5 DEF Has
<1> QED
  BY <1>2, <1>3, <1>4 DEF Single

LEMMA GetMissRangesInv ==
  \A p \in Processes, w \in Windows : CacheInv /\ GetMissRanges(p, w[1], w[2]) => CacheInv'
<1> SUFFICES ASSUME NEW p \in Processes, NEW w \in Windows,
                    CacheInv, GetMissRanges(p, w[1], w[2])
             PROVE  CacheInv'
  OBVIOUS
<1> DEFINE from == w[1]
           to == w[2]
<1>1. /\ from \in Nat /\ to \in Nat /\ from < to /\ from \in Times /\ to \in Times
      /\ now \in Start..MaxTime /\ now \in Nat /\ now \in Times
  <2>1. from \in Nat /\ to \in Nat /\ from < to
    BY CacheAssumption
  <2>2. to <= now /\ now \in Start..MaxTime
    <3>1. to + shift <= now /\ now \in Start..MaxTime /\ shift \in Nat
      BY CacheAssumption DEF GetMissRanges, CacheInv
    <3> QED
      BY <2>1, <3>1, Constants
  <2> QED
    BY <2>1, <2>2, Constants DEF Times
<1>2. PICK order \in Orders(cache), merged \in Mergings(Relevant(cache, from, to)) :
        LET gaps == MissingRanges(order, from, to)
            hits == {q \in merged : from <= q.ts /\ q.ts < to}
        IN  proc' = [proc EXCEPT ![p] =
              [pc |-> IF gaps = {} THEN "done" ELSE "execute",
               from |-> from, to |-> to, started |-> now,
               cached |-> hits, todo |-> gaps, got |-> IF gaps = {} THEN hits ELSE {},
               whole |-> Relevant(cache, from, to) = {} /\ gaps = {<<from, to>>},
               put |-> {}]]
  BY DEF GetMissRanges
<1> DEFINE gaps == MissingRanges(order, from, to)
           hits == {q \in merged : from <= q.ts /\ q.ts < to}
           whole == Relevant(cache, from, to) = {} /\ gaps = {<<from, to>>}
           pc == IF gaps = {} THEN "done" ELSE "execute"
           got == IF gaps = {} THEN hits ELSE {}
           new == [pc |-> pc, from |-> from, to |-> to, started |-> now, cached |-> hits,
                   todo |-> gaps, got |-> got, whole |-> whole, put |-> {}]
<1>3. proc' = [proc EXCEPT ![p] = new]
  BY <1>2, Zenon
<1>4. Sound(cache) /\ IsFiniteSet(cache) /\ cache \in SUBSET Bucket /\ proc \in [Processes -> Query]
  BY DEF CacheInv, Sound
<1>5. /\ hits \subseteq Point /\ Single(hits)
      /\ \A q \in hits : ~q.partial /\ Final(q)
      /\ shift = 0 => \A i \in Intervals : from <= i /\ i + Step <= to =>
           ((\E b \in cache : b.s <= i /\ i < b.e) => Has(hits, i))
  BY <1>1, <1>4, Merged
<1>6. /\ gaps \subseteq Times \X Times /\ \A r \in gaps : r[2] <= to
      /\ from + Step <= to => gaps \subseteq StepRanges(from, to)
      /\ \A i \in Intervals : from <= i /\ i + Step <= to => Covered(i, gaps, cache)
  BY <1>1, <1>4, Missing
<1> HIDE DEF from, to, gaps, hits, whole
<1>7. /\ pc \in {"done", "execute"} /\ got \subseteq Point /\ whole \in BOOLEAN
      /\ whole => <<from, to>> \in gaps
  BY <1>5 DEF whole
<1>8. Sound({}) /\ Single({})
  BY FS_EmptySet DEF Sound, BucketsAreFull, Single
<1>9. ASSUME NEW i \in Intervals, from <= i, i + Step <= to, shift = 0 \/ whole
      PROVE  Has(hits, i) \/ \E r \in gaps : r[1] <= i /\ i + Step <= r[2]
  <2>1. CASE whole
    <3>1. <<from, to>>[1] = from /\ <<from, to>>[2] = to
      OBVIOUS
    <3> QED
      BY <1>7, <1>9, <2>1, <3>1
  <2>2. CASE shift = 0
    BY <1>5, <1>6, <1>9, <2>2 DEF Covered
  <2> QED
    BY <1>9, <2>1, <2>2
<1>10. now' = now /\ Later /\ late' = late /\ edges' = edges /\ cache' = cache
       /\ shift' = shift /\ shift \in Shifts
  BY SameIsLater DEF GetMissRanges, CacheInv
<1>11. new \in Query
  BY <1>1, <1>5, <1>6, <1>7 DEF Query
<1>12. proc' \in [Processes -> Query]
  <2> HIDE DEF new
  <2> QED
    BY <1>3, <1>4, <1>11
<1>13. /\ proc'[p].pc = pc /\ proc'[p].from = from /\ proc'[p].to = to
       /\ proc'[p].started = now /\ proc'[p].cached = hits /\ proc'[p].todo = gaps
       /\ proc'[p].got = got /\ proc'[p].put = {} /\ proc'[p].whole = whole
  BY <1>3, <1>4
<1> HIDE DEF new
<1>14. RequestInv(p)'
  <2>1. Sound(proc[p].put)'
    BY <1>4, <1>8, <1>10, <1>13, <1>1, SoundPut
  <2>2. InTime(p)'
    BY <1>1, <1>10, <1>13, Constants DEF InTime
  <2>3. Single(proc[p].got)' /\ (\A q \in proc[p].got : q.partial => ~Whole(p, q.ts))'
    BY <1>5, <1>8, <1>13 DEF Single
  <2>4. ASSUME pc = "execute" PROVE Executing(p)'
    <3>1. gaps # {} /\ got = {}
      BY <2>4
    <3>2. \A r \in gaps : CutsNothing(p, r)'
      BY <1>6, <1>13 DEF CutsNothing, StepRanges
    <3>3. \A q \in hits : ~q.partial /\ Final(q)'
      BY <1>5, <1>10 DEF Final
    <3>4. \A i \in Intervals : Whole(p, i)' =>
            from <= i /\ i + Step <= to /\ (shift = 0 \/ whole)
      BY <1>10, <1>13 DEF Whole, Unshifted, Later
    <3> HIDE DEF pc, got
    <3> QED
      BY <1>5, <1>9, <1>13, <3>1, <3>2, <3>3, <3>4 DEF Executing, Has, Single
  <2>5. ASSUME pc = "done" PROVE Complete(p)'
    <3>1. gaps = {} /\ got = hits
      BY <2>5
    <3> QED
      BY <1>9, <1>10, <1>13, <3>1 DEF Complete, Whole, Unshifted, Later, Has
  <2> QED
    BY <1>7, <1>13, <2>1, <2>2, <2>3, <2>4, <2>5 DEF RequestInv
<1>15. ASSUME NEW o \in Processes
       PROVE  RequestInv(o)'
  <2>1. CASE o = p
    BY <1>14, <2>1
  <2>2. CASE o # p
    <3>1. proc'[o] = proc[o]
      BY <1>3, <1>4, <2>2
    <3> QED
      BY <1>10, <3>1, OthersStay
  <2> QED
    BY <2>1, <2>2
<1>16. Sound(cache)'
  BY <1>1, <1>4, <1>10, SoundCache
<1>17. queries' \in 0..MaxQueries
  BY Constants DEF CacheInv, GetMissRanges
<1> QED
  BY <1>10, <1>12, <1>15, <1>16, <1>17 DEF CacheInv

\* What the database answers for a range that cuts nothing is right, and it is
\* what was asked for if the range is not moved.
LEMMA Answered ==
  ASSUME proc \in [Processes -> Query], NEW p \in Processes,
         NEW range \in Times \X Times, CutsNothing(p, range),
         NEW by \in Nat, Unshifted(p) => by = 0
  PROVE  LET fresh == Executed(range[1] - by, range[2] - by)
         IN  /\ fresh \subseteq Point /\ Single(fresh)
             /\ \A q \in fresh : Fresh(p, q) /\ (q.partial => ~Whole(p, q.ts))
             /\ by = 0 => \A i \in Intervals : range[1] <= i /\ i + Step <= range[2] =>
                  \E q \in fresh : q.ts = i
<1> DEFINE f == range[1] - by
           t == range[2] - by
           part(i) == i < Up(f) \/ (i + Step > t /\ t % Step # 0)
           val(i) == i \in late
           I == {j \in Intervals : j + Step > f /\ j < t}
           fresh == Executed(f, t)
<1>1. /\ f \in Int /\ t \in Int /\ proc[p].from \in Nat /\ proc[p].to \in Nat
      /\ by = 0 => f \in Nat /\ f = range[1] /\ t = range[2]
  <2>1. range[1] \in Nat /\ range[2] \in Nat
    BY Constants DEF Times
  <2> QED
    BY <2>1, QueryFields
<1>2. t <= proc[p].to
  <2>1. range[1] \in Nat /\ range[2] \in Nat /\ range[2] <= proc[p].to
    BY Constants DEF Times, CutsNothing
  <2> QED
    BY <1>1, <2>1
<1>3. fresh = {[ts |-> i, v |-> val(i), partial |-> part(i)] : i \in I}
  BY DEF Executed
<1> HIDE DEF f, t
<1>4. ASSUME NEW i \in I
      PROVE  /\ i \in Nat /\ Aligned(i) /\ i \in Intervals
             /\ part(i) => ~Whole(p, i)
             /\ ~part(i) => i + Step <= proc[p].to
  <2>1. i \in Nat /\ Aligned(i) /\ i \in Intervals /\ i + Step > f /\ i < t
    BY AlignedBounds
  <2>2. ASSUME part(i), Whole(p, i)
        PROVE  FALSE
    <3>1. proc[p].from <= i /\ i + Step <= proc[p].to /\ by = 0
      BY <2>2 DEF Whole
    <3>2. proc[p].from + Step <= proc[p].to
      BY <1>1, <2>1, <3>1, Constants
    <3>3. (f = proc[p].from \/ Aligned(f)) /\ (t = proc[p].to \/ Aligned(t))
      BY <1>1, <3>1, <3>2 DEF CutsNothing
    <3>0. f \in Nat
      BY <1>1, <3>1
    <3>4. CASE i < Up(f)
      <4>1. CASE f = proc[p].from
        <5>1. Up(f) <= i /\ Up(f) \in Nat
          BY <3>0, <2>1, <3>1, <4>1, RoundedUp
        <5> QED
          BY <2>1, <3>4, <5>1
      <4>2. CASE Aligned(f)
        <5>1. Up(f) = f
          BY <3>0, <4>2, RoundedUp
        <5>2. i + Step <= f
          BY <3>0, <2>1, <3>4, <4>2, <5>1, NextAligned
        <5> QED
          BY <1>1, <2>1, <5>2, Constants
      <4> QED
        BY <3>3, <4>1, <4>2
    <3>5. CASE i + Step > t /\ t % Step # 0
      <4>1. t = proc[p].to
        BY <3>3, <3>5 DEF Aligned
      <4> QED
        BY <1>1, <2>1, <3>1, <3>5, <4>1, Constants
    <3> QED
      BY <2>2, <3>4, <3>5
  <2>3. ASSUME ~part(i)
        PROVE  i + Step <= proc[p].to
    <3>1. CASE Aligned(t)
      <4>1. t \in Nat
        BY <1>1, <2>1
      <4>2. i + Step <= t
        BY <2>1, <3>1, <4>1, NextAligned
      <4> QED
        BY <1>1, <1>2, <2>1, <4>2, Constants
    <3>2. CASE ~Aligned(t)
      <4>1. ~(i + Step > t)
        BY <2>3, <3>2 DEF Aligned
      <4> QED
        BY <1>1, <1>2, <2>1, <4>1, Constants
    <3> QED
      BY <3>1, <3>2
  <2> QED
    BY <2>1, <2>2, <2>3
<1>5. ASSUME NEW i \in Intervals, f <= i, i + Step <= t
      PROVE  i \in I
  BY <1>1, <1>5, AlignedBounds, Constants
<1>6. \A i \in I : part(i) \in BOOLEAN /\ val(i) \in BOOLEAN
  OBVIOUS
<1> HIDE DEF part, val, I, fresh
<1>7. fresh \subseteq Point
  BY <1>3, <1>4, <1>6 DEF Point
<1>8. Single(fresh)
  BY <1>3 DEF Single
<1>9. ASSUME NEW q \in fresh
      PROVE  Fresh(p, q) /\ (q.partial => ~Whole(p, q.ts))
  <2>1. PICK i \in I : q = [ts |-> i, v |-> val(i), partial |-> part(i)]
    BY <1>3
  <2>2. q.ts = i /\ q.v = (i \in late) /\ q.partial = part(i)
    BY <2>1 DEF val
  <2> QED
    BY <1>4, <2>2 DEF Fresh
<1>10. ASSUME by = 0, NEW i \in Intervals, range[1] <= i, i + Step <= range[2]
       PROVE  \E q \in fresh : q.ts = i
  <2> DEFINE q == [ts |-> i, v |-> val(i), partial |-> part(i)]
  <2>1. q \in fresh /\ q.ts = i
    BY <1>1, <1>3, <1>5, <1>10
  <2> HIDE DEF q
  <2> QED
    BY <2>1
<1> QED
  BY <1>7, <1>8, <1>9, <1>10 DEF fresh, f, t

\* A merge of two answers keeps one point for each time, and what either counts.
LEMMA Hidden ==
  ASSUME NEW pts, NEW later, Single(pts), Single(later)
  PROVE  /\ Single(Hide(pts, later))
         /\ \A q \in Hide(pts, later) : q \in pts \/ q \in later
         /\ \A i : (\E q \in pts \cup later : q.ts = i) => \E q \in Hide(pts, later) : q.ts = i
BY DEF Single, Hide

LEMMA ExecuteInv ==
  \A p \in Processes : \A range \in proc[p].todo : CacheInv /\ Execute(p, range) => CacheInv'
<1> SUFFICES ASSUME NEW p \in Processes, NEW range \in proc[p].todo,
                    CacheInv, Execute(p, range)
             PROVE  CacheInv'
  OBVIOUS
<1> DEFINE todo == proc[p].todo \ {range}
           by == ShiftAgain(p)
           fresh == Executed(range[1] - by, range[2] - by)
           got == Hide(proc[p].got, fresh)
           pc == IF todo = {} THEN "put" ELSE "execute"
           answer == IF todo = {} THEN Hide(proc[p].cached, got) ELSE got
<1>1. /\ proc \in [Processes -> Query] /\ RequestInv(p) /\ Sound(cache)
      /\ now \in Start..MaxTime /\ by \in Nat /\ (Unshifted(p) => by = 0)
  BY CacheAssumption DEF CacheInv, ShiftAgain, Unshifted
<1>2. /\ proc[p].pc = "execute" /\ Executing(p) /\ Single(proc[p].got) /\ InTime(p)
      /\ \A q \in proc[p].got : q.partial => ~Whole(p, q.ts)
      /\ Sound(proc[p].put)
  BY <1>1 DEF RequestInv, Execute
<1>3. proc' = [proc EXCEPT ![p].pc = pc, ![p].todo = todo, ![p].got = answer]
  BY <1>2 DEF Execute
<1>4. range \in Times \X Times /\ CutsNothing(p, range)
  BY <1>1, <1>2, QueryFields DEF Executing
<1>5. /\ fresh \subseteq Point /\ Single(fresh)
      /\ \A q \in fresh : Fresh(p, q) /\ (q.partial => ~Whole(p, q.ts))
      /\ by = 0 => \A i \in Intervals :
           range[1] <= i /\ i + Step <= range[2] => \E q \in fresh : q.ts = i
  <2> HIDE DEF by
  <2> QED
    BY <1>1, <1>4, Answered
<1>6. /\ proc[p].got \subseteq Point /\ proc[p].cached \subseteq Point
      /\ proc[p].todo \subseteq Times \X Times
  BY <1>1, QueryFields
<1>7. /\ \A r \in proc[p].todo : CutsNothing(p, r)
      /\ Single(proc[p].cached)
      /\ \A q \in proc[p].cached : ~q.partial /\ Final(q)
      /\ \A q \in proc[p].got : Fresh(p, q)
      /\ \A i \in Intervals : Whole(p, i) =>
           \/ Has(proc[p].cached, i)
           \/ Has(proc[p].got, i)
           \/ \E r \in proc[p].todo : r[1] <= i /\ i + Step <= r[2]
  BY <1>2 DEF Executing
<1> HIDE DEF fresh, by
<1>8. /\ Single(got) /\ got \subseteq Point
      /\ \A q \in got : Fresh(p, q) /\ (q.partial => ~Whole(p, q.ts))
      /\ \A i : (\E q \in proc[p].got \cup fresh : q.ts = i) => \E q \in got : q.ts = i
  <2>1. /\ Single(got)
        /\ \A q \in got : q \in proc[p].got \/ q \in fresh
        /\ \A i : (\E q \in proc[p].got \cup fresh : q.ts = i) => \E q \in got : q.ts = i
    BY <1>2, <1>5, Hidden
  <2> HIDE DEF got
  <2> QED
    BY <1>2, <1>5, <1>6, <1>7, <2>1
<1> HIDE DEF got, todo
<1>9. ASSUME NEW i \in Intervals, Whole(p, i)
      PROVE  \/ Has(proc[p].cached, i)
             \/ Has(got, i)
             \/ \E r \in todo : r[1] <= i /\ i + Step <= r[2]
  <2>1. (\E q \in got : q.ts = i) => Has(got, i)
    BY <1>8, <1>9 DEF Has
  <2>2. Has(proc[p].got, i) => Has(got, i)
    BY <1>8, <2>1 DEF Has
  <2>3. range[1] <= i /\ i + Step <= range[2] => Has(got, i)
    <3>1. by = 0
      BY <1>1, <1>9 DEF Whole
    <3> QED
      BY <1>5, <1>8, <2>1, <3>1
  <2> QED
    BY <1>7, <1>9, <2>2, <2>3 DEF todo
<1>10. /\ Single(answer) /\ answer \subseteq Point
       /\ \A q \in answer : q.partial => ~Whole(p, q.ts)
       /\ \A q \in answer : Final(q) \/ Fresh(p, q)
       /\ todo = {} => \A i \in Intervals : Whole(p, i) => Has(answer, i)
  <2>1. CASE todo # {}
    BY <1>8, <2>1
  <2>2. CASE todo = {}
    <3>1. answer = Hide(proc[p].cached, got)
      BY <2>2
    <3>2. /\ Single(answer)
          /\ \A q \in answer : q \in proc[p].cached \/ q \in got
          /\ \A i : (\E q \in proc[p].cached \cup got : q.ts = i) => \E q \in answer : q.ts = i
      BY <1>7, <1>8, <3>1, Hidden
    <3> HIDE DEF answer
    <3>3. \A q \in answer : q.partial => ~Whole(p, q.ts)
      BY <1>7, <1>8, <3>2
    <3>4. ASSUME NEW i \in Intervals, Whole(p, i)
          PROVE  Has(answer, i)
      <4>1. \E q \in proc[p].cached \cup got : q.ts = i
        BY <1>9, <2>2, <3>4 DEF Has
      <4> QED
        BY <3>2, <3>3, <3>4, <4>1 DEF Has
    <3> QED
      BY <1>6, <1>7, <1>8, <3>2, <3>3, <3>4
  <2> QED
    BY <2>1, <2>2
<1>11. now' = now /\ Later /\ late' = late /\ edges' = edges /\ cache' = cache
       /\ queries' = queries /\ shift' = shift /\ shift \in Shifts
  BY SameIsLater DEF Execute, CacheInv
<1>12. pc = "put" \/ (pc = "execute" /\ answer = got)
  OBVIOUS
<1>13. pc = "put" => todo = {}
  OBVIOUS
<1> HIDE DEF pc, answer
<1>14. /\ proc' = [proc EXCEPT ![p] = [@ EXCEPT !.pc = pc, !.todo = todo, !.got = answer]]
       /\ todo \subseteq Times \X Times
  BY <1>3, <1>6 DEF todo
<1>15. proc' \in [Processes -> Query]
  <2> DEFINE new == [proc[p] EXCEPT !.pc = pc, !.todo = todo, !.got = answer]
  <2>1. new \in Query
    <3>1. proc[p] \in Query /\ pc \in {"idle", "execute", "put", "set", "done"}
      BY <1>1, <1>12
    <3>2. todo \in SUBSET (Times \X Times) /\ answer \in SUBSET Point
      BY <1>10, <1>14
    <3> QED
      BY <3>1, <3>2 DEF Query
  <2>2. proc' = [proc EXCEPT ![p] = new]
    BY <1>14
  <2> HIDE DEF new
  <2> QED
    BY <1>1, <2>1, <2>2
<1>16. /\ proc'[p].pc = pc /\ proc'[p].todo = todo /\ proc'[p].got = answer
       /\ proc'[p].from = proc[p].from /\ proc'[p].to = proc[p].to
       /\ proc'[p].started = proc[p].started /\ proc'[p].cached = proc[p].cached
       /\ proc'[p].put = proc[p].put /\ proc'[p].whole = proc[p].whole
  BY <1>1, <1>14 DEF Query
<1>17. RequestInv(p)'
  <2>1. Sound(proc[p].put)'
    BY <1>1, <1>2, <1>11, <1>16, SoundPut
  <2>2. InTime(p)'
    BY <1>2, <1>11, <1>16 DEF InTime, Active
  <2>3. Single(proc[p].got)' /\ (\A q \in proc[p].got : q.partial => ~Whole(p, q.ts))'
    BY <1>10, <1>11, <1>16 DEF Single, Whole, Unshifted
  <2>4. ASSUME pc = "execute" PROVE Executing(p)'
    <3>1. answer = got
      BY <1>12, <2>4
    <3>2. \A r \in todo : CutsNothing(p, r)'
      BY <1>7, <1>16 DEF CutsNothing, todo
    <3>3. \A q \in proc[p].cached : ~q.partial /\ Final(q)'
      BY <1>7, <1>11 DEF Final
    <3>4. \A q \in got : Fresh(p, q)'
      BY <1>8, <1>11, <1>16 DEF Fresh
    <3>5. \A i \in Intervals : Whole(p, i)' => Whole(p, i)
      BY <1>11, <1>16 DEF Whole, Unshifted
    <3> QED
      BY <1>7, <1>9, <1>16, <3>1, <3>2, <3>3, <3>4, <3>5 DEF Executing, Has, Single
  <2>5. ASSUME pc = "put"
        PROVE  Complete(p)' /\ (\A q \in proc[p].got : Final(q) \/ Fresh(p, q))'
    <3>1. \A i \in Intervals : Whole(p, i)' => Whole(p, i)
      BY <1>11, <1>16 DEF Whole, Unshifted
    <3>2. \A i \in Intervals : Whole(p, i) => Has(answer, i)
      BY <1>10, <1>13, <2>5
    <3>3. Complete(p)'
      BY <1>16, <3>1, <3>2 DEF Complete, Has
    <3>4. \A q \in answer : Final(q)' \/ Fresh(p, q)'
      BY <1>10, <1>11, <1>16 DEF Final, Fresh
    <3> QED
      BY <1>16, <3>3, <3>4
  <2> QED
    BY <1>12, <1>16, <2>1, <2>2, <2>3, <2>4, <2>5 DEF RequestInv
<1>18. ASSUME NEW o \in Processes
       PROVE  RequestInv(o)'
  <2>1. CASE o = p
    BY <1>17, <2>1
  <2>2. CASE o # p
    <3>1. proc'[o] = proc[o]
      BY <1>1, <1>14, <2>2
    <3> QED
      BY <1>11, <3>1, OthersStay
  <2> QED
    BY <2>1, <2>2
<1>19. Sound(cache)'
  BY <1>1, <1>11, SoundCache
<1> QED
  BY <1>11, <1>15, <1>18, <1>19 DEF CacheInv

LEMMA ExecuteFailsInv == \A p \in Processes : CacheInv /\ ExecuteFails(p) => CacheInv'
<1> SUFFICES ASSUME NEW p \in Processes, CacheInv, ExecuteFails(p) PROVE CacheInv'
  OBVIOUS
<1> DEFINE all == <<proc[p].from, proc[p].to>>
           again == [proc[p] EXCEPT !.todo = {all}, !.cached = {}, !.got = {}, !.whole = TRUE]
<1>1. /\ proc \in [Processes -> Query] /\ proc[p] \in Query /\ RequestInv(p) /\ Sound(cache)
      /\ now \in Start..MaxTime
  BY DEF CacheInv
<1>2. proc[p].pc = "execute" /\ InTime(p) /\ Sound(proc[p].put)
  BY <1>1 DEF RequestInv, ExecuteFails
<1>3. all \in Times \X Times
  BY <1>1, QueryFields
<1>4. now' = now /\ Later /\ late' = late /\ edges' = edges /\ cache' = cache
      /\ queries' = queries /\ shift' \in Shifts
  BY SameIsLater DEF ExecuteFails, CacheInv
<1>5. Sound({}) /\ Single({})
  BY FS_EmptySet DEF Sound, BucketsAreFull, Single
<1>6. NoQuery \in Query /\ NoQuery.pc = "idle" /\ NoQuery.put = {}
  <2>1. 0 \in Times
    BY Constants DEF Times
  <2> QED
    BY <2>1 DEF NoQuery, Query
<1>7. /\ again \in Query /\ again.pc = "execute" /\ again.put = proc[p].put
      /\ again.from = proc[p].from /\ again.to = proc[p].to
      /\ again.started = proc[p].started /\ again.todo = {all}
      /\ again.cached = {} /\ again.got = {}
  <2> HIDE DEF all
  <2> QED
    BY <1>1, <1>2, <1>3 DEF Query
<1>8. \/ proc' = [proc EXCEPT ![p] = NoQuery]
      \/ proc' = [proc EXCEPT ![p] = again]
  BY DEF ExecuteFails
<1> HIDE DEF again
<1>9. proc' \in [Processes -> Query]
  BY <1>1, <1>6, <1>7, <1>8
<1>10. RequestInv(p)'
  <2>1. CASE proc'[p] = NoQuery
    <3>1. Sound(proc[p].put)'
      BY <1>1, <1>4, <1>5, <1>6, <2>1, SoundPut
    <3> QED
      BY <1>6, <2>1, <3>1 DEF RequestInv
  <2>2. CASE proc'[p] = again
    <3>1. Sound(proc[p].put)'
      BY <1>1, <1>2, <1>4, <1>7, <2>2, SoundPut
    <3>2. InTime(p)'
      BY <1>2, <1>4, <1>7, <2>2 DEF InTime, Active
    <3>3. (\A r \in proc[p].todo : CutsNothing(p, r))'
      <4>1. proc[p].to <= proc[p].to
        BY <1>1, QueryFields
      <4>2. proc[p].todo' = {<<again.from, again.to>>}
        BY <1>7, <2>2
      <4> QED
        BY <1>7, <2>2, <4>1, <4>2 DEF CutsNothing
    <3>4. ASSUME NEW i \in Intervals, Whole(p, i)'
          PROVE  \E r \in {all} : r[1] <= i /\ i + Step <= r[2]
      BY <1>7, <2>2, <3>4 DEF Whole
    <3>5. Executing(p)'
      BY <1>5, <1>7, <2>2, <3>3, <3>4 DEF Executing, Single
    <3> QED
      BY <1>5, <1>7, <2>2, <3>1, <3>2, <3>5 DEF RequestInv, Single
  <2> QED
    BY <1>1, <1>8, <2>1, <2>2
<1>11. ASSUME NEW o \in Processes
       PROVE  RequestInv(o)'
  <2>1. CASE o = p
    BY <1>10, <2>1
  <2>2. CASE o # p
    <3>1. proc'[o] = proc[o]
      BY <1>1, <1>8, <2>2
    <3> QED
      BY <1>4, <3>1, OthersStay
  <2> QED
    BY <2>1, <2>2
<1>12. Sound(cache)'
  BY <1>1, <1>4, SoundCache
<1> QED
  BY <1>4, <1>9, <1>11, <1>12 DEF CacheInv

\* What a put keeps of an answer is final, up to the interval of the boundary.
LEMMA KeptIsFinal ==
  ASSUME CacheInv, NEW p \in Processes, proc[p].pc = "put", Later, now' = now, late' = late,
         proc[p].to <= now - Flux \/ Down(now - Flux) \in edges',
         NEW q \in TrimResultToFluxBoundary(proc[p].got, Lower(proc[p].to, now - Flux))
  PROVE  q \in Point /\ ~q.partial /\ Final(q)'
<1> DEFINE to == proc[p].to
           flux == now - Flux
<1>1. /\ RequestInv(p) /\ now \in Start..MaxTime /\ now \in Nat /\ flux \in Nat
      /\ to \in Nat /\ proc[p].started \in Nat /\ proc[p].got \subseteq Point
  BY QueryFields, Constants DEF CacheInv
<1>2. now <= proc[p].started + MaxDuration
  BY <1>1 DEF RequestInv, InTime, Active
<1>3. q \in proc[p].got /\ ~q.partial /\ q.ts <= Lower(to, flux)
  BY DEF TrimResultToFluxBoundary
<1>4. q \in Point /\ q.ts \in Nat /\ Aligned(q.ts)
  <2>1. q \in Point /\ q.ts \in Intervals
    BY <1>1, <1>3 DEF Point
  <2> QED
    BY <2>1, AlignedBounds
<1>5. Final(q) \/ Fresh(p, q)
  BY <1>1, <1>3 DEF RequestInv
<1>6. CASE Final(q)
  BY <1>1, <1>3, <1>4, <1>6, FinalStays
<1>7. CASE Fresh(p, q)
  <2>1. q.ts + Step <= to
    BY <1>3, <1>7 DEF Fresh
  <2>2. CASE q.ts \in edges'
    BY <1>3, <1>4, <2>2 DEF Final
  <2>3. CASE q.ts \notin edges'
    <3>1. q.ts + Step <= flux
      <4>1. CASE to <= flux
        BY <1>1, <1>4, <2>1, <4>1, Constants
      <4>2. CASE ~(to <= flux)
        <5>1. Lower(to, flux) = flux
          BY <1>1, <4>2 DEF Lower
        <5>2. Down(flux) \in Nat /\ Aligned(Down(flux)) /\ Down(flux) <= flux
              /\ q.ts <= Down(flux)
          BY <1>1, <1>3, <1>4, <5>1, RoundedDown
        <5>3. q.ts # Down(flux)
          BY <2>3, <4>2
        <5>4. q.ts + Step <= Down(flux)
          BY <1>4, <5>2, <5>3, NextAligned
        <5> QED
          BY <1>1, <1>4, <5>2, <5>4, Constants
      <4> QED
        BY <4>1, <4>2
    <3>2. q.ts + Step + Late <= proc[p].started /\ q.ts + Step + Late <= now
      <4>1. now - Flux + Late <= proc[p].started /\ now - Flux + Late <= now
        BY <1>1, <1>2, Constants
      <4> QED
        BY <1>1, <1>4, <3>1, <4>1, Constants
    <3>3. q.v = (q.ts \in late)
      BY <1>7, <3>2 DEF Fresh
    <3> QED
      BY <1>3, <1>4, <3>2, <3>3 DEF Final
  <2> QED
    BY <2>2, <2>3
<1> QED
  BY <1>5, <1>6, <1>7

LEMMA PutGetInv == \A p \in Processes : CacheInv /\ PutGet(p) => CacheInv'
<1> SUFFICES ASSUME NEW p \in Processes, CacheInv, PutGet(p) PROVE CacheInv'
  OBVIOUS
<1> DEFINE from == proc[p].from
           to == proc[p].to
           limit == Lower(to, now - Flux)
           first == Up(from)
           last == Down(limit)
           kept == TrimResultToFluxBoundary(proc[p].got, limit)
           skip == from >= now - Flux \/ first >= last
           fresh == [s |-> first, e |-> last, pts |-> kept]
           pc == IF skip THEN "done" ELSE "set"
           put == IF skip THEN {} ELSE Merge(cache, fresh)
           new == [proc[p] EXCEPT !.pc = pc, !.put = put]
<1>1. /\ proc \in [Processes -> Query] /\ proc[p] \in Query /\ RequestInv(p) /\ Sound(cache)
      /\ now \in Start..MaxTime /\ edges \subseteq Intervals
  BY DEF CacheInv
<1>2. /\ proc[p].pc = "put" /\ InTime(p) /\ Complete(p) /\ Single(proc[p].got)
      /\ \A q \in proc[p].got : q.partial => ~Whole(p, q.ts)
  BY <1>1 DEF RequestInv, PutGet
<1>3. /\ from \in Nat /\ to \in Nat /\ to \in Times /\ to <= MaxTime
      /\ now - Flux \in Nat /\ now - Flux <= MaxTime
      /\ limit \in Nat /\ limit <= to /\ proc[p].got \subseteq Point
  <2>1. from \in Nat /\ to \in Nat /\ to \in Times /\ proc[p].got \subseteq Point
    BY <1>1, QueryFields
  <2>2. now - Flux \in Nat /\ now - Flux <= MaxTime /\ to <= MaxTime
    BY <1>1, <2>1, Constants DEF Times
  <2> QED
    BY <2>1, <2>2 DEF Lower
<1>4. /\ now' = now /\ late' = late /\ cache' = cache /\ queries' = queries
      /\ shift' = shift /\ shift \in Shifts
      /\ edges' = IF skip \/ to <= now - Flux THEN edges ELSE edges \cup {Down(now - Flux)}
      /\ proc' = [proc EXCEPT ![p].pc = pc, ![p].put = put]
  BY DEF PutGet, CachableStart, CachableEnd, CacheInv
<1> HIDE DEF from, to, limit, first, last, kept
<1>5. edges \subseteq edges' /\ edges' \subseteq Intervals
  <2>1. Down(now - Flux) \in Nat /\ Down(now - Flux) <= now - Flux /\ Aligned(Down(now - Flux))
    BY <1>3, RoundedDown
  <2>2. Down(now - Flux) \in Intervals
    BY <1>3, <2>1, Constants DEF Intervals, Times, Aligned
  <2> QED
    BY <1>1, <1>4, <2>2
<1>6. Later
  BY <1>4, <1>5, SameIsLater
<1>7. first \in Nat /\ Aligned(first) /\ from <= first
      /\ last \in Nat /\ Aligned(last) /\ last <= limit
  BY <1>3, RoundedUp, RoundedDown DEF first, last
<1>8. ASSUME ~skip
      PROVE  /\ IsFiniteSet(put) /\ put \subseteq Bucket
             /\ \A b \in put :
                  /\ b.s < b.e
                  /\ shift = 0 => \A i \in Intervals : b.s <= i /\ i < b.e =>
                       \E q \in b.pts : q.ts = i /\ ~q.partial
                  /\ \A q \in b.pts : ~q.partial /\ Final(q)'
  <2>1. first < last
    BY <1>7, <1>8
  <2>2. first \in Intervals /\ last \in Intervals
    BY <1>3, <1>7, <2>1, Constants DEF Intervals, Times, Aligned
  <2>3. \A q \in kept : q \in Point /\ ~q.partial /\ Final(q)'
    <3>1. to <= now - Flux \/ Down(now - Flux) \in edges'
      BY <1>4, <1>8
    <3> QED
      BY <1>2, <1>4, <1>6, <3>1, KeptIsFinal DEF kept, limit, to
  <2>4. fresh \in Bucket
    BY <2>2, <2>3 DEF Bucket
  <2>5. ASSUME shift = 0, NEW i \in Intervals, first <= i, i < last
        PROVE  \E q \in kept : q.ts = i /\ ~q.partial
    <3>1. i \in Nat /\ Aligned(i)
      BY AlignedBounds
    <3>2. i + Step <= last
      BY <1>7, <2>5, <3>1, NextAligned
    <3>3. from <= i /\ i + Step <= to /\ i <= limit
      BY <1>3, <1>7, <2>5, <3>1, <3>2, Constants
    <3>4. Has(proc[p].got, i)
      BY <1>2, <2>5, <3>3 DEF Complete, Whole, Unshifted, from, to
    <3> QED
      BY <3>3, <3>4 DEF Has, kept, TrimResultToFluxBoundary
  <2>6. Sound(cache)'
    BY <1>1, <1>4, <1>6, SoundCache
  <2>7. \A b \in cache :
          /\ b \in Bucket /\ b.s < b.e
          /\ shift = 0 => \A i \in Intervals : b.s <= i /\ i < b.e =>
               \E q \in b.pts : q.ts = i /\ ~q.partial
          /\ \A q \in b.pts : ~q.partial /\ Final(q)'
    BY <1>1, <1>4, <2>6 DEF Sound, BucketsAreFull
  <2>8. /\ fresh.s < fresh.e
        /\ shift = 0 => \A i \in Intervals : fresh.s <= i /\ i < fresh.e =>
             \E q \in fresh.pts : q.ts = i /\ ~q.partial
        /\ \A q \in fresh.pts : ~q.partial /\ Final(q)'
    BY <2>1, <2>3, <2>5
  <2> HIDE DEF fresh
  <2>9. put \subseteq cache \cup {fresh} /\ IsFiniteSet(put)
    <3>1. IsFiniteSet(cache)
      BY <1>1 DEF Sound
    <3>2. IsFiniteSet(cache \cup {fresh})
      BY <3>1, FS_AddElement
    <3>3. put \subseteq cache \cup {fresh}
      BY <1>8 DEF Merge
    <3> QED
      BY <3>2, <3>3, FS_Subset
  <2> HIDE DEF put, skip
  <2>10. \A b \in put :
          /\ b \in Bucket /\ b.s < b.e
          /\ shift = 0 => \A i \in Intervals : b.s <= i /\ i < b.e =>
               \E q \in b.pts : q.ts = i /\ ~q.partial
          /\ \A q \in b.pts : ~q.partial /\ Final(q)'
    BY <2>4, <2>7, <2>8, <2>9
  <2> QED
    BY <2>9, <2>10
<1>9. pc \in {"done", "set"} /\ (skip => put = {}) /\ put \subseteq Bucket
  <2>1. skip => put = {}
    OBVIOUS
  <2>2. pc \in {"done", "set"}
    OBVIOUS
  <2> HIDE DEF put, pc
  <2> QED
    BY <1>8, <2>1, <2>2
<1> HIDE DEF pc, put, skip
<1>10. /\ new \in Query /\ new.pc = pc /\ new.put = put
       /\ new.from = proc[p].from /\ new.to = proc[p].to
       /\ new.started = proc[p].started /\ new.got = proc[p].got /\ new.whole = proc[p].whole
  BY <1>1, <1>9 DEF Query
<1>11. proc' = [proc EXCEPT ![p] = new]
  BY <1>4
<1> HIDE DEF new
<1>12. proc'[p] = new /\ proc' \in [Processes -> Query]
  BY <1>1, <1>10, <1>11
<1>13. RequestInv(p)'
  <2>1. Sound(proc[p].put)'
    <3>1. proc'[p].put = put
      BY <1>10, <1>12
    <3>2. /\ IsFiniteSet(put) /\ put \subseteq Bucket
          /\ \A b \in put :
               /\ b.s < b.e
               /\ shift = 0 => \A i \in Intervals : b.s <= i /\ i < b.e =>
                    \E q \in b.pts : q.ts = i /\ ~q.partial
               /\ \A q \in b.pts : ~q.partial /\ Final(q)'
      BY <1>8, <1>9, FS_EmptySet
    <3> QED
      BY <1>4, <3>1, <3>2 DEF Sound, BucketsAreFull
  <2>2. InTime(p)'
    BY <1>2, <1>4, <1>10, <1>12 DEF InTime, Active
  <2>3. Complete(p)' /\ (\A q \in proc[p].got : q.partial => ~Whole(p, q.ts))'
    BY <1>2, <1>4, <1>10, <1>12 DEF Complete, Whole, Unshifted, Has
  <2> QED
    BY <1>2, <1>9, <1>10, <1>12, <2>1, <2>2, <2>3 DEF RequestInv, Single
<1>14. ASSUME NEW o \in Processes
       PROVE  RequestInv(o)'
  <2>1. CASE o = p
    BY <1>13, <2>1
  <2>2. CASE o # p
    <3>1. proc'[o] = proc[o]
      BY <1>1, <1>11, <2>2
    <3> QED
      BY <1>4, <1>6, <3>1, OthersStay
  <2> QED
    BY <2>1, <2>2
<1>15. Sound(cache)'
  BY <1>1, <1>4, <1>6, SoundCache
<1>16. /\ queries' \in 0..MaxQueries /\ late' \subseteq Intervals /\ now' \in Start..MaxTime
       /\ shift' \in Shifts
  BY <1>4 DEF CacheInv
<1> QED
  BY <1>5, <1>12, <1>14, <1>15, <1>16 DEF CacheInv

LEMMA PutInv == \A p \in Processes : CacheInv /\ Put(p) => CacheInv'
<1> SUFFICES ASSUME NEW p \in Processes, CacheInv, Put(p) PROVE CacheInv'
  OBVIOUS
<1> DEFINE new == [proc[p] EXCEPT !.pc = "done", !.put = {}]
<1>1. /\ proc \in [Processes -> Query] /\ proc[p] \in Query /\ RequestInv(p)
      /\ now \in Start..MaxTime
  BY DEF CacheInv
<1>2. /\ proc[p].pc = "set" /\ InTime(p) /\ Sound(proc[p].put) /\ Complete(p)
      /\ Single(proc[p].got)
      /\ \A q \in proc[p].got : q.partial => ~Whole(p, q.ts)
  BY <1>1 DEF RequestInv, Put
<1>3. now' = now /\ Later /\ late' = late /\ edges' = edges /\ queries' = queries
      /\ cache' = proc[p].put /\ shift' = shift /\ shift \in Shifts
  BY SameIsLater DEF Put, CacheInv
<1>4. Sound({})
  BY FS_EmptySet DEF Sound, BucketsAreFull
<1>5. /\ new \in Query /\ new.pc = "done" /\ new.put = {}
      /\ new.from = proc[p].from /\ new.to = proc[p].to
      /\ new.started = proc[p].started /\ new.got = proc[p].got /\ new.whole = proc[p].whole
  BY <1>1 DEF Query
<1>6. proc' = [proc EXCEPT ![p] = new]
  BY DEF Put
<1> HIDE DEF new
<1>7. proc'[p] = new /\ proc' \in [Processes -> Query]
  BY <1>1, <1>5, <1>6
<1>8. RequestInv(p)'
  <2>1. Sound(proc[p].put)'
    BY <1>1, <1>3, <1>4, <1>5, <1>7, SoundPut
  <2>2. InTime(p)'
    BY <1>2, <1>3, <1>5, <1>7 DEF InTime, Active
  <2>3. Complete(p)' /\ (\A q \in proc[p].got : q.partial => ~Whole(p, q.ts))'
    BY <1>2, <1>3, <1>5, <1>7 DEF Complete, Whole, Unshifted, Has
  <2> QED
    BY <1>2, <1>5, <1>7, <2>1, <2>2, <2>3 DEF RequestInv, Single
<1>9. ASSUME NEW o \in Processes
      PROVE  RequestInv(o)'
  <2>1. CASE o = p
    BY <1>8, <2>1
  <2>2. CASE o # p
    <3>1. proc'[o] = proc[o]
      BY <1>1, <1>6, <2>2
    <3> QED
      BY <1>3, <3>1, OthersStay
  <2> QED
    BY <2>1, <2>2
<1>10. Sound(cache)'
  BY <1>1, <1>2, <1>3, SoundCache
<1> QED
  BY <1>3, <1>7, <1>9, <1>10 DEF CacheInv

THEOREM CacheInvariant == Spec => []CacheInv
<1>1. CacheInv /\ [Next]_vars => CacheInv'
  <2> SUFFICES ASSUME CacheInv, [Next]_vars PROVE CacheInv'
    OBVIOUS
  <2>1. CASE Tick
    BY <2>1, TickInv
  <2>2. CASE Evict
    BY <2>2, EvictInv
  <2>3. ASSUME NEW i \in Intervals, Arrive(i) PROVE CacheInv'
    BY <2>3, ArriveInv
  <2>4. ASSUME NEW p \in Processes, NEW w \in Windows, GetMissRanges(p, w[1], w[2])
        PROVE  CacheInv'
    BY <2>4, GetMissRangesInv
  <2>5. ASSUME NEW p \in Processes, NEW range \in proc[p].todo, Execute(p, range)
        PROVE  CacheInv'
    BY <2>5, ExecuteInv
  <2>6. ASSUME NEW p \in Processes, ExecuteFails(p) PROVE CacheInv'
    BY <2>6, ExecuteFailsInv
  <2>7. ASSUME NEW p \in Processes, PutGet(p) PROVE CacheInv'
    BY <2>7, PutGetInv
  <2>8. ASSUME NEW p \in Processes, Put(p) PROVE CacheInv'
    BY <2>8, PutInv
  <2>9. CASE UNCHANGED vars
    <3>1. now' = now /\ Later /\ cache' = cache
      BY <2>9, SameIsLater DEF vars
    <3>2. \A p \in Processes : RequestInv(p)'
      BY <2>9, <3>1, OthersStay DEF vars
    <3>3. Sound(cache)'
      BY <3>1, SoundCache DEF CacheInv
    <3> QED
      BY <2>9, <3>2, <3>3 DEF CacheInv, vars
  <2> QED
    BY <2>1, <2>2, <2>3, <2>4, <2>5, <2>6, <2>7, <2>8, <2>9 DEF Next
<1> QED
  BY InitInv, <1>1, PTL DEF Spec

-----------------------------------------------------------------------------
(* What the invariant says. *)

\* Every variable has its type, and whatever is in the cache of results of a
\* query without a time shift, or on its way there, has a complete value for
\* every interval in its bounds.
THEOREM TypeCorrect == Spec => []TypeOK
<1>1. CacheInv => TypeOK
  BY DEF CacheInv, TypeOK, Sound, RequestInv
<1> QED
  BY <1>1, CacheInvariant, PTL

\* The ranges that are queried and the buckets that are cached meet without a
\* hole: an answer has one complete value for every whole interval, unless the
\* query has a time shift and only missing ranges were queried.
THEOREM AnswersAreCompleteAlways == Spec => []AnswersAreComplete
<1>1. CacheInv => AnswersAreComplete
  <2> SUFFICES ASSUME CacheInv, NEW p \in Processes, proc[p].pc = "done",
                      shift = 0 \/ proc[p].whole,
                      NEW i \in Intervals, proc[p].from <= i, i + Step <= proc[p].to
               PROVE  /\ Cardinality({q \in proc[p].got : q.ts = i}) = 1
                      /\ \A q \in proc[p].got : q.ts = i => ~q.partial
    BY DEF AnswersAreComplete
  <2>1. /\ Single(proc[p].got) /\ Complete(p)
        /\ \A q \in proc[p].got : q.partial => ~Whole(p, q.ts)
    BY DEF CacheInv, RequestInv
  <2>2. Whole(p, i)
    BY DEF Whole, Unshifted
  <2>3. PICK q \in proc[p].got : q.ts = i
    BY <2>1, <2>2 DEF Complete, Has
  <2>4. {r \in proc[p].got : r.ts = i} = {q}
    BY <2>1, <2>3 DEF Single
  <2>5. Cardinality({q}) = 1
    BY FS_Singleton
  <2> QED
    BY <2>1, <2>2, <2>4, <2>5
<1> QED
  BY <1>1, CacheInvariant, PTL

\* A cached value has all the data of its interval, unless a flux boundary fell
\* in that interval when a result was put: what Put keeps was read when no more
\* data could arrive, and merging keeps it, whatever the time shift.
THEOREM OnlyEdgesAreStaleAlways == Spec => []OnlyEdgesAreStale
<1>1. CacheInv => OnlyEdgesAreStale
  BY DEF CacheInv, Sound, Final, OnlyEdgesAreStale
<1> QED
  BY <1>1, CacheInvariant, PTL
=============================================================================
