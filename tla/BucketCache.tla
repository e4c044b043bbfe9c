----------------------------- MODULE BucketCache -----------------------------
(***************************************************************************)
(* The querier's cache of time series.  A query for a window of time is    *)
(* answered from cached buckets and from queries for the ranges they leave *)
(* out; the merged answer is put back as one more bucket, up to the flux   *)
(* boundary, because data may still arrive for the time after it.          *)
(*                                                                         *)
(* One query text, so one cache key and one time shift, and one series     *)
(* that has a value in every interval of Step.  Windows are those the      *)
(* cache is asked about, so already moved back by the shift.  A value is a *)
(* point [ts, v, partial]: the start of its interval, whether it counts    *)
(* the interval's late data, and whether the queried window cuts it.       *)
(***************************************************************************)
EXTENDS Integers, FiniteSets, Sequences, Functions

CONSTANTS
  Processes,    \* requests that are served at the same time
  Windows,      \* the windows they ask for, pairs <<from, to>>
  Shifts,       \* the time shifts of the query that are tried; 0 is no shift
  Step,         \* the step interval
  Flux,         \* the flux interval
  Late,         \* data arrives at most this long after its interval
  MaxDuration,  \* a query reads at most this long before its result is put
  Start,        \* the time at the beginning
  MaxTime,      \* bound on the time
  MaxQueries    \* bound on the queries

\* What the choice of the flux interval relies on
ASSUME CacheAssumption ==
  /\ {Step, Flux, Late, MaxDuration, Start, MaxTime, MaxQueries} \subseteq Nat
  /\ Step > 0
  /\ Late + MaxDuration <= Flux
  /\ Flux <= Start /\ Start <= MaxTime
  /\ \A w \in Windows : w[1] \in Nat /\ w[2] \in Nat /\ w[1] < w[2]
  /\ Shifts \subseteq Nat /\ \A by \in Shifts, w \in Windows : by <= w[1]

VARIABLES
  now,      \* the time
  shift,    \* the time shift of the query, which never changes
  late,     \* the intervals whose late data has arrived
  cache,    \* the buckets cached for the query
  proc,     \* the progress of each request
  queries,  \* queries so far
  edges     \* ghost: the intervals a flux boundary fell in when a result was put

vars == <<now, shift, late, cache, proc, queries, edges>>

-----------------------------------------------------------------------------
Lower(a, b) == IF a < b THEN a ELSE b
Higher(a, b) == IF a < b THEN b ELSE a
Down(t) == t - (t % Step)
Up(t) == IF t % Step = 0 THEN t ELSE Down(t) + Step

Times == 0..MaxTime
Intervals == {t \in Times : t % Step = 0}
Point == [ts : Intervals, v : BOOLEAN, partial : BOOLEAN]
Bucket == [s : Intervals, e : Intervals, pts : SUBSET Point]

\* What the database answers for the range from f to t, and which values the
\* reader of the rows takes for partial
Executed(f, t) ==
  {[ts |-> i, v |-> i \in late,
    partial |-> i < Up(f) \/ (i + Step > t /\ t % Step # 0)] :
     i \in {j \in Intervals : j + Step > f /\ j < t}}

\* Points of which an earlier one hides later ones of the same time
Hide(pts, later) == pts \cup {p \in later : \A q \in pts : q.ts # p.ts}

-----------------------------------------------------------------------------
(* The missing ranges: a walk over the buckets in the order of their start. *)

\* How a sort by start may leave the buckets; it is not stable.
Orders(buckets) ==
  {o \in [1..Cardinality(buckets) -> buckets] :
     Range(o) = buckets /\ \A i, j \in DOMAIN o : i < j => o[i].s <= o[j].s}

Gap(f, t) == IF f < t THEN {<<f, t>>} ELSE {}

VisitBasic(w, b, from, to) ==
  IF b.e <= from \/ b.s >= to THEN w
  ELSE [cur  |-> Higher(w.cur, Lower(b.e, to)),
        gaps |-> w.gaps \cup Gap(w.cur, Lower(b.s, to))]

\* The walk after each bucket
WalkBasic(order, from, to) ==
  LET walk[n \in 0..Len(order)] ==
        IF n = 0 THEN [cur |-> from, gaps |-> {}]
        ELSE VisitBasic(walk[n - 1], order[n], from, to)
  IN  walk

\* findMissingRangesBasic, for a window that holds no whole step
MissingBasic(order, from, to) ==
  LET end  == WalkBasic(order, from, to)[Len(order)]
      flux == Higher(end.cur, Lower(to, now - Flux))
  IN  end.gaps \cup Gap(end.cur, flux) \cup Gap(flux, to)

Visit(w, b, to) ==
  IF b.e <= w.cur \/ b.s >= to THEN w
  ELSE [cur  |-> Higher(w.cur, IF b.e < to THEN Down(b.e) ELSE to),
        gaps |-> w.gaps \cup Gap(w.cur, Lower(Up(b.s), to))]

\* An unaligned beginning is a range of its own.
WalkWithStep(order, from, to) ==
  LET walk[n \in 0..Len(order)] ==
        IF n = 0 THEN [cur |-> Up(from), gaps |-> Gap(from, Lower(Up(from), to))]
        ELSE Visit(walk[n - 1], order[n], to)
  IN  walk

\* findMissingRangesWithStep
MissingWithStep(order, from, to) ==
  LET end == WalkWithStep(order, from, to)[Len(order)]
  IN  end.gaps \cup Gap(end.cur, to)

MissingRanges(order, from, to) ==
  IF from + Step > to THEN MissingBasic(order, from, to)
  ELSE MissingWithStep(order, from, to)

\* The buckets that overlap the window; a value of the one that begins first
\* hides the others, and of several that begin together any.
Relevant(buckets, from, to) == {b \in buckets : b.e > from /\ b.s < to}

Mergings(buckets) ==
  {ps \in SUBSET UNION {b.pts : b \in buckets} :
     /\ {p.ts : p \in ps} = UNION {{p.ts : p \in b.pts} : b \in buckets}
     /\ \A p, q \in ps : p.ts = q.ts => p = q
     /\ \A p \in ps : \E b \in buckets :
          /\ p \in b.pts
          /\ \A c \in buckets : c.s < b.s => \A q \in c.pts : q.ts # p.ts}

-----------------------------------------------------------------------------
NoQuery == [pc |-> "idle", from |-> 0, to |-> 0, started |-> 0, cached |-> {},
            todo |-> {}, got |-> {}, whole |-> FALSE, put |-> {}]

Init ==
  /\ now = Start
  /\ shift \in Shifts
  /\ late = {}
  /\ cache = {}
  /\ proc = [p \in Processes |-> NoQuery]
  /\ queries = 0
  /\ edges = {}

Active(p) == proc[p].pc \notin {"idle", "done"}

\* Time passes; no request takes longer than MaxDuration.
Tick ==
  /\ now < MaxTime
  /\ \A p \in Processes : Active(p) => now < proc[p].started + MaxDuration
  /\ now' = now + 1
  /\ UNCHANGED <<shift, late, cache, proc, queries, edges>>

\* More data of an interval that has begun, until Late after its end
Arrive(i) ==
  /\ i \notin late
  /\ i <= now /\ now < i + Step + Late
  /\ late' = late \cup {i}
  /\ UNCHANGED <<now, shift, cache, proc, queries, edges>>

\* The cache's entry expires or is evicted.
Evict ==
  /\ cache # {}
  /\ cache' = {}
  /\ UNCHANGED <<now, shift, late, proc, queries, edges>>

\* GetMissRanges: values of the window from the cache, and what they leave out
GetMissRanges(p, from, to) ==
  /\ ~Active(p)
  /\ queries < MaxQueries
  /\ to + shift <= now
  /\ queries' = queries + 1
  /\ \E order \in Orders(cache), merged \in Mergings(Relevant(cache, from, to)) :
       LET gaps == MissingRanges(order, from, to)
           hits == {q \in merged : from <= q.ts /\ q.ts < to}
       IN  proc' = [proc EXCEPT ![p] =
             [pc |-> IF gaps = {} THEN "done" ELSE "execute",
              from |-> from, to |-> to, started |-> now,
              cached |-> hits, todo |-> gaps, got |-> IF gaps = {} THEN hits ELSE {},
              whole |-> Relevant(cache, from, to) = {} /\ gaps = {<<from, to>>},
              put |-> {}]]
  /\ UNCHANGED <<now, shift, late, cache, edges>>

\* createRangedQuery moves a missing range back by the time shift although the
\* window it is a part of has been moved; the whole window is executed as it is.
ShiftAgain(p) == IF proc[p].whole THEN 0 ELSE shift

\* One of the ranges, in any order
Execute(p, range) ==
  /\ proc[p].pc = "execute"
  /\ range \in proc[p].todo
  /\ LET todo == proc[p].todo \ {range}
         by   == ShiftAgain(p)
         got  == Hide(proc[p].got, Executed(range[1] - by, range[2] - by))
     IN  proc' = [proc EXCEPT
           ![p].pc   = IF todo = {} THEN "put" ELSE @,
           ![p].todo = todo,
           ![p].got  = IF todo = {} THEN Hide(proc[p].cached, got) ELSE got]
  /\ UNCHANGED <<now, shift, late, cache, queries, edges>>

\* A range fails: the whole window is queried, unless that was the whole window.
ExecuteFails(p) ==
  /\ proc[p].pc = "execute"
  /\ proc' = [proc EXCEPT ![p] =
       IF proc[p].whole THEN NoQuery
       ELSE [@ EXCEPT !.todo = {<<proc[p].from, proc[p].to>>},
                      !.cached = {}, !.got = {}, !.whole = TRUE]]
  /\ UNCHANGED <<now, shift, late, cache, queries, edges>>

-----------------------------------------------------------------------------
(* Put: the boundary is taken from the time of the put, the values up to it  *)
(* are kept, and the bucket's bounds are rounded to whole intervals.         *)

\* mergeAndDeduplicateBuckets: of two buckets with the same bounds the fresh one
Merge(existing, fresh) ==
  {b \in existing : b.s # fresh.s \/ b.e # fresh.e} \cup {fresh}

TrimKeepsPartial(pts, end) == {q \in pts : q.ts <= end}

TrimKeepsFlux(pts, end) == {q \in pts : ~q.partial}

TrimResultToFluxBoundary(pts, end) == {q \in pts : ~q.partial /\ q.ts <= end}

StartDown(from) == Down(from)

CachableStart(from) == Up(from)

EndUnrounded(to) == Lower(to, now - Flux)

CachableEnd(to) == Down(Lower(to, now - Flux))

\* The existing buckets are read and the fresh one added to them.
PutGet(p) ==
  /\ proc[p].pc = "put"
  /\ LET s == CachableStart(proc[p].from)
         e == CachableEnd(proc[p].to)
         kept == TrimResultToFluxBoundary(proc[p].got, Lower(proc[p].to, now - Flux))
         skip == proc[p].from >= now - Flux \/ s >= e
     IN  /\ proc' = [proc EXCEPT
              ![p].pc  = IF skip THEN "done" ELSE "set",
              ![p].put = IF skip THEN {} ELSE Merge(cache, [s |-> s, e |-> e, pts |-> kept])]
         /\ edges' = IF skip \/ proc[p].to <= now - Flux THEN edges
                     ELSE edges \cup {Down(now - Flux)}
  /\ UNCHANGED <<now, shift, late, cache, queries>>

\* cache.Set: what others have put since the get is written over.
Put(p) ==
  /\ proc[p].pc = "set"
  /\ UNCHANGED <<now, shift, late, queries, edges>>
  /\ cache' = proc[p].put
  /\ proc' = [proc EXCEPT ![p].pc = "done", ![p].put = {}]

Next ==
  \/ Tick \/ Evict
  \/ \E i \in Intervals : Arrive(i)
  \/ \E p \in Processes :
       \/ \E w \in Windows : GetMissRanges(p, w[1], w[2])
       \/ \E range \in proc[p].todo : Execute(p, range)
       \/ ExecuteFails(p) \/ PutGet(p) \/ Put(p)

Spec == Init /\ [][Next]_vars

-----------------------------------------------------------------------------
\* A bucket of a query without a time shift has a complete value for every
\* interval within its bounds, which is what the missing ranges are computed
\* from.  With a time shift it need not: its bounds are those of the ranges
\* that were missing, its values those of other ranges.
BucketsAreFull(buckets) ==
  \A b \in buckets :
    /\ b.s < b.e
    /\ shift = 0 => \A i \in Intervals : b.s <= i /\ i < b.e =>
         \E q \in b.pts : q.ts = i /\ ~q.partial

Query == [pc : {"idle", "execute", "put", "set", "done"},
          from : Times, to : Times, started : Times, cached : SUBSET Point,
          todo : SUBSET (Times \X Times), got : SUBSET Point, whole : BOOLEAN,
          put : SUBSET Bucket]

\* Every variable has its type; whatever is in the cache, or on its way there,
\* is full unless the query has a time shift.
TypeOK ==
  /\ now \in Start..MaxTime
  /\ shift \in Shifts
  /\ late \subseteq Intervals
  /\ cache \subseteq Bucket
  /\ queries \in 0..MaxQueries
  /\ edges \subseteq Intervals
  /\ proc \in [Processes -> Query]
  /\ BucketsAreFull(cache)
  /\ \A p \in Processes : BucketsAreFull(proc[p].put)

\* An answer has one value for every interval that lies in the window, and it
\* is complete: cached and queried ranges meet without a hole and without
\* cutting an interval.  The exception is the answer of a query with a time
\* shift unless the whole window was queried at once, because missing ranges
\* are shifted a second time.
AnswersAreComplete ==
  \A p \in Processes : proc[p].pc = "done" /\ (shift = 0 \/ proc[p].whole) =>
    \A i \in Intervals : proc[p].from <= i /\ i + Step <= proc[p].to =>
      /\ Cardinality({q \in proc[p].got : q.ts = i}) = 1
      /\ \A q \in proc[p].got : q.ts = i => ~q.partial

\* A cached value has all the data of its interval, however the database was
\* read and however often buckets were merged, also of a query with a time
\* shift, whose values lie before the bounds; the only exceptions are the
\* intervals a flux boundary fell in when a result was put.
OnlyEdgesAreStale ==
  \A b \in cache : \A q \in b.pts : q.v = (q.ts \in late) \/ q.ts \in edges

\* Data after the flux boundary is not cached.
NothingInFluxIsCached ==
  \A b \in cache : \A q \in b.pts : q.ts + Step <= now - Flux
=============================================================================
