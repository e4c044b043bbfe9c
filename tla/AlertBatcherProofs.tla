------------------------- MODULE AlertBatcherProofs -------------------------
(***************************************************************************)
(* What is proved of the alert batcher for every Capacity, Size and number *)
(* of alerts.  The runs check the same formulas on small instances.        *)
(***************************************************************************)
EXTENDS AlertBatcher, SequenceTheorems, TLAPS

-----------------------------------------------------------------------------
(* Slices of sequences. *)

\* Dropping the oldest d elements leaves a sequence over the same set, no
\* longer than what d leaves (the slice s[d:] of Add and next).
LEMMA DropOldestType ==
  ASSUME NEW S, NEW s \in Seq(S), NEW d \in Int, d <= Len(s)
  PROVE  /\ DropOldest(s, d) \in Seq(S)
         /\ Len(DropOldest(s, d)) = IF d > 0 THEN Len(s) - d ELSE Len(s)
         /\ \A i \in 1..Len(DropOldest(s, d)) :
              DropOldest(s, d)[i] = IF d > 0 THEN s[d + i] ELSE s[i]
<1>1. CASE d > 0
  <2>1. d + 1 \in 1..(Len(s) + 1)
    BY <1>1
  <2>2. QED
    BY <1>1, <2>1, SubSeqProperties DEF DropOldest
<1>2. CASE ~(d > 0)
  BY <1>2 DEF DropOldest
<1>3. QED
  BY <1>1, <1>2

\* The numbers Add gives to n new alerts form a sequence of alerts.
LEMMA NewAlertsType ==
  ASSUME NEW k \in 0..MaxAlerts, NEW n \in 1..(MaxAlerts - k), MaxAlerts \in Nat
  PROVE  /\ [i \in 1..n |-> k + i] \in Seq(Alert)
         /\ Len([i \in 1..n |-> k + i]) = n
<1>1. \A i \in 1..n : k + i \in Alert
  BY DEF Alert
<1>2. QED
  BY <1>1

\* The empty sequence, at the two types it is used at.
LEMMA EmptyBatches ==
  <<>> \in Seq(Alert) /\ <<>> \in Seq(Seq(Alert)) /\ Len(<<>>) = 0
OBVIOUS

\* next() takes a batch of at most Size alerts and leaves the rest.
LEMMA NextBatchType ==
  ASSUME TypeOK
  PROVE  /\ NextBatch \in Seq(Alert)
         /\ Len(NextBatch) = IF Len(queue) > Size THEN Size ELSE Len(queue)
         /\ \A i \in 1..Len(NextBatch) : NextBatch[i] = queue[i]
         /\ SubSeq(queue, Len(NextBatch) + 1, Len(queue)) \in Seq(Alert)
         /\ Len(SubSeq(queue, Len(NextBatch) + 1, Len(queue)))
              = Len(queue) - Len(NextBatch)
         /\ \A i \in 1..(Len(queue) - Len(NextBatch)) :
              SubSeq(queue, Len(NextBatch) + 1, Len(queue))[i]
                = queue[Len(NextBatch) + i]
<1> USE ConfigAssumption
<1>1. queue \in Seq(Alert) /\ Len(queue) \in Nat
  BY DEF TypeOK
<1>2. /\ NextBatch \in Seq(Alert)
      /\ Len(NextBatch) = IF Len(queue) > Size THEN Size ELSE Len(queue)
      /\ \A i \in 1..Len(NextBatch) : NextBatch[i] = queue[i]
  <2>1. CASE Len(queue) > Size
    <3>1. \A i \in 1..Size : queue[i] \in Alert
      BY <1>1, <2>1
    <3>2. QED
      BY <1>1, <2>1, <3>1, SubSeqProperties DEF NextBatch
  <2>2. CASE ~(Len(queue) > Size)
    BY <1>1, <2>2 DEF NextBatch
  <2>3. QED
    BY <2>1, <2>2
<1>3. Len(NextBatch) \in 0..Len(queue)
  BY <1>1, <1>2
<1>4. \A i \in (Len(NextBatch) + 1)..Len(queue) : queue[i] \in Alert
  BY <1>1, <1>3
<1> DEFINE m    == Len(NextBatch) + 1
           rest == SubSeq(queue, m, Len(queue))
<1>5. m \in Int /\ Len(queue) \in Int /\ \A i \in m..Len(queue) : queue[i] \in Alert
  BY <1>1, <1>3, <1>4
<1> HIDE DEF m
<1>6. /\ rest \in Seq(Alert)
      /\ Len(rest) = IF m <= Len(queue) THEN Len(queue) - m + 1 ELSE 0
      /\ \A i \in 1..(Len(queue) - m + 1) : rest[i] = queue[m + i - 1]
  BY <1>5, SubSeqProperties
<1>7. /\ Len(rest) = Len(queue) - Len(NextBatch)
      /\ \A i \in 1..(Len(queue) - Len(NextBatch)) : rest[i] = queue[Len(NextBatch) + i]
  <2> HIDE DEF rest
  <2>1. QED
    BY <1>1, <1>3, <1>6 DEF m
<1>8. QED
  BY <1>2, <1>6, <1>7 DEF m

-----------------------------------------------------------------------------
(* Type correctness, one step per action. *)

\* Add keeps the queue within Capacity.
LEMMA AddType ==
  ASSUME TypeOK, NEW n \in Alert, Add(n)
  PROVE  TypeOK'
<1> USE ConfigAssumption
<1> DEFINE new  == [i \in 1..n |-> accepted + i]
           kept == DropOldest(new, n - Capacity)
           d    == Len(queue) + Len(kept) - Capacity
<1>1. accepted \in 0..MaxAlerts /\ n \in 1..(MaxAlerts - accepted)
  BY DEF TypeOK, Add
<1>2. new \in Seq(Alert) /\ Len(new) = n
  BY <1>1, NewAlertsType
<1>3. kept \in Seq(Alert) /\ Len(kept) \in 0..Capacity
  <2> HIDE DEF new
  <2>1. n - Capacity \in Int /\ n - Capacity <= Len(new)
    BY <1>1, <1>2
  <2>2. QED
    BY <1>1, <1>2, <2>1, DropOldestType
<1>4. queue \in Seq(Alert) /\ Len(queue) \in 0..Capacity
  BY DEF TypeOK
<1> HIDE DEF new, kept
<1>5. DropOldest(queue, d) \in Seq(Alert)
      /\ Len(DropOldest(queue, d)) = IF d > 0 THEN Len(queue) - d ELSE Len(queue)
  <2>1. d \in Int /\ d <= Len(queue)
    BY <1>3, <1>4
  <2>2. QED
    BY <1>4, <2>1, DropOldestType
<1>6. queue' = DropOldest(queue, d) \o kept
  BY DEF Add, kept, new
<1>7. queue' \in Seq(Alert) /\ Len(queue') <= Capacity
  BY <1>3, <1>4, <1>5, <1>6, ConcatProperties
<1>8. moreC' \in BOOLEAN /\ accepted' \in 0..MaxAlerts
  BY <1>1 DEF Add
<1>9. QED
  BY <1>7, <1>8 DEF Add, TypeOK, dispatcherVars, consumerVars, stopVars

\* next() keeps the batch within Size.
LEMMA TakeType ==
  ASSUME TypeOK, NEW from, NEW to \in DispatcherPC, Take(from, to)
  PROVE  TypeOK'
<1>1. batch' = NextBatch /\ queue' = SubSeq(queue, Len(NextBatch) + 1, Len(queue))
  BY DEF Take
<1>2. batch' \in Seq(Alert) /\ Len(batch') <= Size
  BY <1>1, NextBatchType, ConfigAssumption DEF TypeOK
<1>3. queue' \in Seq(Alert) /\ Len(queue') <= Capacity
  BY <1>1, NextBatchType, ConfigAssumption DEF TypeOK
<1>4. QED
  BY <1>2, <1>3 DEF TypeOK, Take, consumerVars, stopVars

\* A send keeps C within Size batches of at most Size alerts.
LEMMA SendType ==
  ASSUME TypeOK, NEW from, NEW to \in DispatcherPC, Send(from, to)
  PROVE  TypeOK'
<1> USE ConfigAssumption
<1>1. C' = Append(C, batch) /\ Len(C) < Size
  BY DEF Send
<1>2. C' \in Seq(Seq(Alert)) /\ Len(C') = Len(C) + 1
  BY <1>1 DEF TypeOK
<1>3. \A i \in 1..Len(C') : C'[i] = IF i <= Len(C) THEN C[i] ELSE batch
  BY <1>1, <1>2 DEF TypeOK
<1>4. \A i \in 1..Len(C') : Len(C'[i]) <= Size
  <2> SUFFICES ASSUME NEW i \in 1..Len(C')
               PROVE  Len(C'[i]) <= Size
    OBVIOUS
  <2>1. CASE i <= Len(C)
    <3>1. i \in 1..Len(C) /\ C'[i] = C[i]
      BY <1>2, <1>3, <2>1
    <3>2. QED
      BY <3>1 DEF TypeOK
  <2>2. CASE ~(i <= Len(C))
    BY <1>3, <2>2 DEF TypeOK
  <2>3. QED
    BY <2>1, <2>2
<1>5. Len(C') <= Size
  BY <1>1, <1>2 DEF TypeOK
<1>6. batch' \in Seq(Alert) /\ Len(batch') <= Size
  BY DEF Send
<1>7. QED
  BY <1>2, <1>4, <1>5, <1>6 DEF TypeOK, Send, consumerVars, stopVars

\* The provider loop takes one batch at a time.
LEMMA ReceiveType ==
  ASSUME TypeOK, Receive
  PROVE  TypeOK'
<1> USE ConfigAssumption
<1>1. C \in Seq(Seq(Alert)) /\ C # <<>> /\ Len(C) <= Size
  BY DEF TypeOK, Receive
<1>2. /\ Head(C) \in Seq(Alert)
      /\ Tail(C) \in Seq(Seq(Alert))
      /\ Len(Tail(C)) = Len(C) - 1
      /\ \A i \in 1..Len(Tail(C)) : Tail(C)[i] = C[i + 1]
  BY <1>1, HeadTailProperties
<1>3. Len(C') <= Size /\ \A i \in 1..Len(C') : Len(C'[i]) <= Size
  <2>1. C' = Tail(C) /\ Len(C) \in Nat
    BY <1>1 DEF Receive
  <2>2. \A i \in 1..Len(Tail(C)) : i + 1 \in 1..Len(C)
    BY <1>1, <1>2
  <2>3. QED
    BY <1>1, <1>2, <2>1, <2>2 DEF TypeOK
<1>4. received' \in Seq(Alert) /\ inHand' \in Seq(Seq(Alert)) /\ Len(inHand') = 1
  BY <1>2 DEF TypeOK, Receive
<1>5. QED
  BY <1>2, <1>3, <1>4 DEF TypeOK, Receive, dispatcherVars, stopVars

\* Every other step of the dispatcher only moves pc, the token in moreC or
\* neither.
LEMMA DispatchType ==
  ASSUME TypeOK, Dispatch
  PROVE  TypeOK'
<1>1. CASE \/ Start \/ SelectMore \/ SelectStop \/ Check \/ DrainTest \/ CloseC
  BY <1>1 DEF TypeOK, DispatcherPC, consumerVars, stopVars,
              Start, SelectMore, SelectStop, Check, DrainTest, CloseC
<1>2. CASE Take("take", "send") \/ Take("drainTake", "drainSend")
  BY <1>2, TakeType DEF DispatcherPC
<1>3. CASE Send("send", "check") \/ Send("drainSend", "drain")
  BY <1>3, SendType DEF DispatcherPC
<1>4. QED
  BY <1>1, <1>2, <1>3 DEF Dispatch

\* Capacity, batch size and channel bounds hold in every reachable state.
THEOREM TypeCorrect == Spec => []TypeOK
<1> USE ConfigAssumption
<1>1. Init => TypeOK
  <2> SUFFICES ASSUME Init
               PROVE  TypeOK
    OBVIOUS
  <2>1. /\ queue = <<>> /\ C = <<>> /\ batch = <<>> /\ inHand = <<>> /\ received = <<>>
    BY DEF Init
  <2>2. /\ queue \in Seq(Alert) /\ Len(queue) <= Capacity
        /\ batch \in Seq(Alert) /\ Len(batch) <= Size /\ received \in Seq(Alert)
    BY <2>1
  <2>3. /\ C \in Seq(Seq(Alert)) /\ Len(C) = 0
        /\ inHand \in Seq(Seq(Alert)) /\ Len(inHand) <= 1
    BY <2>1
  <2>4. Len(C) <= Size /\ \A i \in 1..Len(C) : Len(C[i]) <= Size
    BY <2>3
  <2>5. /\ moreC \in BOOLEAN /\ stopC \in BOOLEAN /\ orgKnown \in BOOLEAN
        /\ pc \in DispatcherPC /\ stopper \in {"none", "waiting", "returned"}
    BY Zenon DEF Init, DispatcherPC
  <2>6. accepted \in 0..MaxAlerts /\ acceptedAtStop \in 0..MaxAlerts
    <3>1. accepted = 0 /\ acceptedAtStop = 0
      BY DEF Init
    <3>2. QED
      BY <3>1
  <2>7. QED
    BY <2>2, <2>3, <2>4, <2>5, <2>6, Zenon DEF TypeOK
<1>2. TypeOK /\ [Next]_vars => TypeOK'
  <2> SUFFICES ASSUME TypeOK, [Next]_vars
               PROVE  TypeOK'
    OBVIOUS
  <2>1. CASE \E n \in Alert : Add(n)
    BY <2>1, AddType
  <2>2. CASE Dispatch
    BY <2>2, DispatchType
  <2>3. CASE StopCall \/ StopReturn
    BY <2>3 DEF TypeOK, StopCall, StopReturn, dispatcherVars, consumerVars
  <2>4. CASE Receive
    BY <2>4, ReceiveType
  <2>5. CASE OrgLookupFails \/ PutBatch
    <3> inHand' = <<>>
      BY <2>5 DEF OrgLookupFails, PutBatch
    <3>1. inHand' \in Seq(Seq(Alert)) /\ Len(inHand') <= 1
      OBVIOUS
    <3>2. QED
      BY <2>5, <3>1 DEF TypeOK, OrgLookupFails, PutBatch, dispatcherVars, stopVars
  <2>6. CASE UNCHANGED vars
    BY <2>6 DEF TypeOK, vars, dispatcherVars, consumerVars, stopVars
  <2>7. QED
    BY <2>1, <2>2, <2>3, <2>4, <2>5, <2>6 DEF Next, Consume
<1>3. QED
  BY <1>1, <1>2, PTL DEF Spec

-----------------------------------------------------------------------------
(* No lost wakeup.  The formula is inductive once the types are known: the *)
(* dispatcher enters "select" only from Start, where a token covers what   *)
(* was queued before it, and from Check, which puts a token back.          *)

\* Before Start there is a token for whatever Add has queued.
StartInv == /\ (pc = "idle" /\ queue # <<>>) => moreC
            /\ NoLostWakeup

\* Whenever the dispatcher waits in its select and alerts are queued, the
\* token that wakes it is there.
THEOREM NoWakeupIsLost == Spec => []NoLostWakeup
<1>1. Init => StartInv
  BY DEF Init, StartInv, NoLostWakeup
<1>2. TypeOK /\ StartInv /\ [Next]_vars => StartInv'
  <2> SUFFICES ASSUME TypeOK, StartInv, [Next]_vars
               PROVE  StartInv'
    OBVIOUS
  <2> USE DEF StartInv, NoLostWakeup
  <2>1. CASE \E n \in Alert : Add(n)
    BY <2>1 DEF Add
  <2>2. CASE Dispatch
    <3>1. CASE Take("take", "send") \/ Take("drainTake", "drainSend")
      BY <3>1 DEF Take
    <3>2. CASE Send("send", "check") \/ Send("drainSend", "drain")
      BY <3>2 DEF Send
    <3>3. CASE Start \/ SelectMore \/ SelectStop
      BY <3>3 DEF Start, SelectMore, SelectStop
    <3>4. CASE Check
      BY <3>4, Zenon DEF Check
    <3>5. CASE DrainTest \/ CloseC
      BY <3>5 DEF DrainTest, CloseC
    <3>6. QED
      BY <2>2, <3>1, <3>2, <3>3, <3>4, <3>5 DEF Dispatch
  <2>3. CASE StopCall \/ StopReturn
    BY <2>3 DEF StopCall, StopReturn, dispatcherVars
  <2>4. CASE Consume
    BY <2>4 DEF Consume, Receive, OrgLookupFails, PutBatch, dispatcherVars
  <2>5. CASE UNCHANGED vars
    BY <2>5 DEF vars, dispatcherVars
  <2>6. QED
    BY <2>1, <2>2, <2>3, <2>4, <2>5 DEF Next
<1>3. StartInv => NoLostWakeup
  BY DEF StartInv
<1>4. QED
  BY <1>1, <1>2, <1>3, TypeCorrect, PTL DEF Spec

-----------------------------------------------------------------------------
(* Stop drains the queue.  The test that ends the drain finds the queue      *)
(* empty, and everything that Add puts there afterwards is newer than the    *)
(* last alert before Stop.                                                   *)

AfterStop(s) == \A i \in 1..Len(s) : s[i] > acceptedAtStop

DrainInv ==
  /\ stopper = "none" <=> ~stopC
  /\ stopC => acceptedAtStop <= accepted
  /\ pc \in {"drain", "drainTake", "drainSend", "closing", "done"} => stopC
  /\ pc \in {"closing", "done"} => AfterStop(queue)

\* Add to a queue of alerts that came after Stop leaves such a queue.
LEMMA AddAfterStop ==
  ASSUME TypeOK, acceptedAtStop <= accepted, AfterStop(queue), NEW n \in Alert, Add(n)
  PROVE  AfterStop(queue')
<1> USE ConfigAssumption
<1> DEFINE new  == [i \in 1..n |-> accepted + i]
           kept == DropOldest(new, n - Capacity)
           d    == Len(queue) + Len(kept) - Capacity
           old  == DropOldest(queue, d)
<1>1. accepted \in 0..MaxAlerts /\ n \in 1..(MaxAlerts - accepted) /\ acceptedAtStop \in Nat
  BY DEF TypeOK, Add
<1>2. new \in Seq(Alert) /\ Len(new) = n
  BY <1>1, NewAlertsType
<1>3. AfterStop(new)
  BY <1>1, <1>2 DEF AfterStop
<1> HIDE DEF new
<1>4. kept \in Seq(Alert) /\ Len(kept) \in 0..Capacity /\ AfterStop(kept)
  <2>1. n - Capacity \in Int /\ n - Capacity <= Len(new)
    BY <1>1, <1>2
  <2>2. /\ kept \in Seq(Alert)
        /\ Len(kept) = IF n - Capacity > 0 THEN n - (n - Capacity) ELSE n
        /\ \A i \in 1..Len(kept) :
             kept[i] = IF n - Capacity > 0 THEN new[n - Capacity + i] ELSE new[i]
    BY <1>2, <2>1, DropOldestType
  <2> QED
    BY <1>1, <1>2, <1>3, <2>2 DEF AfterStop
<1> HIDE DEF kept
<1>5. old \in Seq(Alert) /\ Len(old) \in Nat /\ AfterStop(old)
  <2>1. queue \in Seq(Alert) /\ Len(queue) \in 0..Capacity
    BY DEF TypeOK
  <2>2. d \in Int /\ d <= Len(queue)
    BY <1>4, <2>1
  <2> QED
    BY <1>1, <2>1, <2>2, DropOldestType DEF AfterStop
<1> HIDE DEF old
<1>6. queue' = old \o kept
  BY DEF Add, old, kept, new
<1>7. /\ Len(queue') = Len(old) + Len(kept)
      /\ \A i \in 1..Len(queue') :
           queue'[i] = IF i <= Len(old) THEN old[i] ELSE kept[i - Len(old)]
  BY <1>4, <1>5, <1>6, ConcatProperties
<1> SUFFICES ASSUME NEW i \in 1..Len(queue') PROVE queue'[i] > acceptedAtStop
  BY DEF AfterStop
<1>8. CASE i <= Len(old)
  BY <1>5, <1>7, <1>8 DEF AfterStop
<1>9. CASE ~(i <= Len(old))
  BY <1>4, <1>5, <1>7, <1>9 DEF AfterStop
<1> QED
  BY <1>8, <1>9

\* What comes in while the dispatcher is gone was accepted after Stop was called:
\* nothing accepted before it is left in the queue.
THEOREM StopDrainsTheQueue == Spec => []DrainedBeforeClose
<1>1. Init => DrainInv
  BY DEF Init, DrainInv
<1>2. TypeOK /\ DrainInv /\ [Next]_vars => DrainInv'
  <2> SUFFICES ASSUME TypeOK, DrainInv, [Next]_vars
               PROVE  DrainInv'
    OBVIOUS
  <2> USE DEF DrainInv
  <2>1. ASSUME NEW n \in Alert, Add(n) PROVE DrainInv'
    <3>1. accepted' = accepted + n /\ accepted \in Nat /\ n \in Nat /\ acceptedAtStop \in Nat
      BY <2>1 DEF Add, TypeOK
    <3>2. UNCHANGED <<pc, stopC, stopper, acceptedAtStop>>
      BY <2>1 DEF Add, dispatcherVars, stopVars
    <3>3. stopC => acceptedAtStop' <= accepted'
      BY <3>1, <3>2
    <3>4. pc \in {"closing", "done"} => AfterStop(queue')
      BY <2>1, AddAfterStop
    <3> QED
      BY <3>2, <3>3, <3>4 DEF AfterStop
  <2>2. CASE Dispatch
    <3>1. CASE Take("take", "send") \/ Take("drainTake", "drainSend")
      BY <3>1 DEF Take, stopVars
    <3>2. CASE Send("send", "check") \/ Send("drainSend", "drain")
      BY <3>2 DEF Send, stopVars
    <3>3. CASE Start \/ SelectMore \/ SelectStop \/ Check
      BY <3>3 DEF Start, SelectMore, SelectStop, Check, stopVars
    <3>4. CASE DrainTest
      BY <3>4 DEF DrainTest, stopVars, AfterStop
    <3>5. CASE CloseC
      BY <3>5 DEF CloseC, stopVars, AfterStop
    <3> QED
      BY <2>2, <3>1, <3>2, <3>3, <3>4, <3>5 DEF Dispatch
  <2>3. CASE StopCall
    <3>1. acceptedAtStop' = accepted' /\ accepted' \in Nat /\ pc' = pc /\ ~stopC
      BY <2>3 DEF StopCall, dispatcherVars, TypeOK
    <3> QED
      BY <2>3, <3>1 DEF StopCall
  <2>4. CASE StopReturn \/ Consume
    BY <2>4 DEF StopReturn, Consume, Receive, OrgLookupFails, PutBatch, dispatcherVars,
                stopVars, AfterStop
  <2>5. CASE UNCHANGED vars
    BY <2>5 DEF vars, dispatcherVars, stopVars, AfterStop
  <2> QED
    BY <2>1, <2>2, <2>3, <2>4, <2>5 DEF Next
<1>3. DrainInv => DrainedBeforeClose
  BY DEF DrainInv, AfterStop, DrainedBeforeClose
<1>4. QED
  BY <1>1, <1>2, <1>3, TypeCorrect, PTL DEF Spec
-----------------------------------------------------------------------------
(***************************************************************************)
(* The alert batcher implements the lossy feed.                            *)
(*                                                                         *)
(* The queue always holds the newest alerts without a gap, so what has     *)
(* left it is a prefix of what was accepted.  Behind it come the batch in  *)
(* the dispatcher's hands and the batches in C, each older than the next.  *)
(***************************************************************************)

(* The invariant. *)

\* The alerts up to this one have left the queue.
Left == accepted - Len(queue)

Increasing(s) == \A i, j \in 1..Len(s) : i < j => s[i] < s[j]

UpTo(s, a) == \A i \in 1..Len(s) : s[i] <= a

Before(s, t) == \A i \in 1..Len(s), j \in 1..Len(t) : s[i] < t[j]

QueueIsNewest == \A i \in 1..Len(queue) : queue[i] = Left + i

BatchIsOlder ==
  /\ pc \notin {"send", "drainSend"} => batch = <<>>
  /\ Increasing(batch) /\ UpTo(batch, Left)

SentIsOlder ==
  \A k \in 1..Len(C) :
    /\ Increasing(C[k]) /\ UpTo(C[k], Left) /\ Before(C[k], batch)
    /\ \A l \in 1..Len(C) : k < l => Before(C[k], C[l])

OrderInv == QueueIsNewest /\ BatchIsOlder /\ SentIsOlder

\* The alerts in the batches of C
InC == UNION {Elements(C[k]) : k \in 1..Len(C)}

-----------------------------------------------------------------------------
(* The queue. *)

\* An alert between two bounds is in the interval.
LEMMA InInterval ==
  ASSUME NEW l \in Int, NEW u \in Int, NEW a \in Int, a > l, a <= u
  PROVE  a \in (l + 1)..u
OBVIOUS

\* An alert too new to be lost has not left when only the lost ones left.
LEMMA PastTheLost ==
  ASSUME NEW l \in Int, NEW u \in Int, NEW c \in Int, NEW a \in Int,
         a > u - c, l <= u - c
  PROVE  a > l
OBVIOUS

\* A queue of the newest alerts has all that have not left it.
LEMMA QueueElements ==
  ASSUME NEW q \in Seq(Alert), NEW a \in Nat, \A i \in 1..Len(q) : q[i] = a - Len(q) + i
  PROVE  Elements(q) = (a - Len(q) + 1)..a
<1>1. ASSUME NEW i \in 1..Len(q)
      PROVE  q[i] \in (a - Len(q) + 1)..a
  <2>1. Len(q) \in Nat /\ i \in 1..Len(q) /\ q[i] = a - Len(q) + i
    OBVIOUS
  <2> QED
    BY <2>1
<1>2. ASSUME NEW b \in (a - Len(q) + 1)..a
      PROVE  \E i \in 1..Len(q) : q[i] = b
  <2> DEFINE i == b - a + Len(q)
  <2>1. i \in 1..Len(q) /\ a - Len(q) + i = b
    OBVIOUS
  <2> QED
    BY <2>1
<1> QED
  BY <1>1, <1>2 DEF Elements

\* Add keeps the newest alerts, as many as fit, and drops the oldest.
LEMMA AddKeepsNewest ==
  ASSUME TypeOK, QueueIsNewest, NEW n \in Alert, Add(n)
  PROVE  /\ QueueIsNewest' /\ Left' >= Left
         /\ accepted' = accepted + n /\ n \in 1..(MaxAlerts - accepted)
         /\ Left' <= Left \/ Left' <= accepted' - Capacity
<1> USE ConfigAssumption
<1> DEFINE new  == [i \in 1..n |-> accepted + i]
           kept == DropOldest(new, n - Capacity)
           d    == Len(queue) + Len(kept) - Capacity
           old  == DropOldest(queue, d)
<1>1. accepted \in 0..MaxAlerts /\ n \in 1..(MaxAlerts - accepted) /\ accepted' = accepted + n
  BY DEF TypeOK, Add
<1>2. new \in Seq(Alert) /\ Len(new) = n /\ \A i \in 1..n : new[i] = accepted + i
  BY <1>1, NewAlertsType
<1> HIDE DEF new
<1>3. /\ kept \in Seq(Alert)
      /\ Len(kept) = IF n > Capacity THEN Capacity ELSE n
      /\ \A i \in 1..Len(kept) : kept[i] = accepted + n - Len(kept) + i
  <2>1. n - Capacity \in Int /\ n - Capacity <= Len(new)
    BY <1>1, <1>2
  <2>2. /\ kept \in Seq(Alert)
        /\ Len(kept) = IF n - Capacity > 0 THEN n - (n - Capacity) ELSE n
        /\ \A i \in 1..Len(kept) :
             kept[i] = IF n - Capacity > 0 THEN new[n - Capacity + i] ELSE new[i]
    BY <1>2, <2>1, DropOldestType
  <2> HIDE DEF kept
  <2>3. Capacity \in Nat /\ Capacity > 0 /\ n \in Nat /\ n > 0 /\ accepted \in Nat
    BY <1>1
  <2>4. CASE n > Capacity
    <3>1. Len(kept) = Capacity /\ \A i \in 1..Capacity : kept[i] = new[n - Capacity + i]
      BY <2>2, <2>3, <2>4
    <3>2. \A i \in 1..Capacity : new[n - Capacity + i] = accepted + n - Capacity + i
      BY <1>2, <2>3, <2>4
    <3> QED
      BY <2>2, <2>4, <3>1, <3>2
  <2>5. CASE ~(n > Capacity)
    BY <1>2, <2>2, <2>3, <2>5
  <2> QED
    BY <2>4, <2>5
<1> HIDE DEF kept
<1>4. queue \in Seq(Alert) /\ Len(queue) \in 0..Capacity
  BY DEF TypeOK
<1>5. /\ old \in Seq(Alert)
      /\ Len(old) = IF Len(queue) + Len(kept) > Capacity THEN Capacity - Len(kept) ELSE Len(queue)
      /\ \A i \in 1..Len(old) : old[i] = accepted - Len(old) + i
  <2>1. d \in Int /\ d <= Len(queue)
    BY <1>1, <1>3, <1>4
  <2>2. /\ old \in Seq(Alert)
        /\ Len(old) = IF d > 0 THEN Len(queue) - d ELSE Len(queue)
        /\ \A i \in 1..Len(old) : old[i] = IF d > 0 THEN queue[d + i] ELSE queue[i]
    BY <1>4, <2>1, DropOldestType
  <2> HIDE DEF old
  <2>3. \A i \in 1..Len(queue) : queue[i] = accepted - Len(queue) + i
    BY DEF QueueIsNewest, Left
  <2>4. Len(kept) \in 0..Capacity /\ accepted \in Nat
    BY <1>1, <1>3
  <2>5. CASE d > 0
    <3>1. Len(old) = Len(queue) - d /\ \A i \in 1..Len(old) : old[i] = queue[d + i]
      BY <2>2, <2>5
    <3>2. \A i \in 1..Len(old) : d + i \in 1..Len(queue)
      BY <1>4, <2>1, <2>5, <3>1
    <3>3. \A i \in 1..Len(old) : old[i] = accepted - Len(queue) + (d + i)
      BY <2>3, <3>1, <3>2
    <3> QED
      BY <1>4, <2>2, <2>4, <2>5, <3>1, <3>3
  <2>6. CASE ~(d > 0)
    BY <1>4, <2>2, <2>3, <2>4, <2>6
  <2> QED
    BY <2>5, <2>6
<1> HIDE DEF old
<1>6. queue' = old \o kept
  BY DEF Add, old, kept, new
<1>7. /\ Len(queue') = Len(old) + Len(kept)
      /\ \A i \in 1..Len(queue') :
           queue'[i] = IF i <= Len(old) THEN old[i] ELSE kept[i - Len(old)]
  <2>1. old \in Seq(Alert) /\ kept \in Seq(Alert) /\ Len(old) \in Nat /\ Len(kept) \in Nat
    BY <1>3, <1>5
  <2> QED
    BY <1>6, <2>1, ConcatProperties
<1>8. Len(old) > 0 => Len(kept) = n
  <2> DEFINE q == Len(queue)  k == Len(kept)  o == Len(old)
  <2>1. q \in 0..Capacity /\ n \in Nat /\ k = (IF n > Capacity THEN Capacity ELSE n)
        /\ o = IF q + k > Capacity THEN Capacity - k ELSE q
    BY <1>1, <1>3, <1>4, <1>5
  <2> HIDE DEF q, k, o
  <2> QED
    BY <2>1 DEF k, o
<1>9. Left' = accepted + n - Len(queue') /\ Left = accepted - Len(queue)
  BY <1>1 DEF Left
<1>10. ASSUME NEW i \in 1..Len(queue')
       PROVE  queue'[i] = Left' + i
  <2> DEFINE k == Len(kept)  o == Len(old)
  <2>1. /\ k \in Nat /\ o \in Nat /\ n \in Nat /\ accepted \in Nat /\ Left' = accepted + n - (o + k)
        /\ (o > 0 => k = n) /\ i \in 1..(o + k)
    <3>1. k \in Nat /\ o \in Nat
      BY <1>3, <1>5
    <3>2. n \in Nat /\ accepted \in Nat
      BY <1>1
    <3>3. Left' = accepted + n - (o + k) /\ i \in 1..(o + k)
      BY <1>7, <1>9, <1>10
    <3> QED
      BY <1>8, <3>1, <3>2, <3>3
  <2>2. CASE i <= o
    <3>1. queue'[i] = old[i] /\ i \in 1..o
      BY <1>7, <1>10, <2>1, <2>2
    <3>2. old[i] = accepted - o + i
      BY <1>5, <3>1
    <3> HIDE DEF k, o
    <3> QED
      BY <2>1, <2>2, <3>1, <3>2
  <2>3. CASE ~(i <= o)
    <3>1. queue'[i] = kept[i - o] /\ i - o \in 1..k
      BY <1>7, <1>10, <2>1, <2>3
    <3>2. kept[i - o] = accepted + n - k + (i - o)
      BY <1>3, <3>1
    <3> HIDE DEF k, o
    <3> QED
      BY <2>1, <2>3, <3>1, <3>2
  <2> QED
    BY <2>2, <2>3
<1>11. QueueIsNewest'
  BY <1>10 DEF QueueIsNewest
<1>12. Left' >= Left /\ (Left' <= Left \/ Left' <= accepted' - Capacity)
  <2> DEFINE q == Len(queue)  k == Len(kept)  o == Len(old)
  <2>1. /\ q \in 0..Capacity /\ n \in Nat /\ accepted \in Nat /\ accepted' = accepted + n
        /\ k = (IF n > Capacity THEN Capacity ELSE n)
        /\ o = (IF q + k > Capacity THEN Capacity - k ELSE q)
        /\ Left' = accepted + n - (o + k) /\ Left = accepted - q
    BY <1>1, <1>3, <1>4, <1>5, <1>7, <1>9
  <2> HIDE DEF q, k, o
  <2> QED
    BY <2>1
<1> QED
  BY <1>1, <1>11, <1>12

\* next() takes the oldest alerts of the queue, which is left with the rest.
LEMMA TakeOldest ==
  ASSUME TypeOK, QueueIsNewest, NEW from, NEW to, Take(from, to)
  PROVE  /\ QueueIsNewest'
         /\ batch' \in Seq(Alert) /\ accepted' = accepted
         /\ Left' = Left + Len(batch')
         /\ \A i \in 1..Len(batch') : batch'[i] = Left + i
<1> DEFINE next == NextBatch
           rest == SubSeq(queue, Len(next) + 1, Len(queue))
<1>1. batch' = next /\ queue' = rest /\ accepted' = accepted
  BY DEF Take
<1>2. /\ next \in Seq(Alert) /\ Len(next) = IF Len(queue) > Size THEN Size ELSE Len(queue)
      /\ \A i \in 1..Len(next) : next[i] = queue[i]
      /\ Len(rest) = Len(queue) - Len(next)
      /\ \A i \in 1..(Len(queue) - Len(next)) : rest[i] = queue[Len(next) + i]
  BY NextBatchType
<1>3. Len(queue) \in Nat /\ accepted \in Nat /\ Size \in Nat
  BY ConfigAssumption DEF TypeOK
<1> HIDE DEF next, rest
<1>4. Left' = Left + Len(next)
  BY <1>1, <1>2, <1>3 DEF Left
<1>5. \A i \in 1..Len(next) : next[i] = Left + i
  BY <1>2, <1>3 DEF QueueIsNewest
<1>6. \A i \in 1..Len(rest) : rest[i] = Left + Len(next) + i
  BY <1>2, <1>3 DEF QueueIsNewest, Left
<1>7. QueueIsNewest'
  BY <1>1, <1>4, <1>6 DEF QueueIsNewest
<1> QED
  BY <1>1, <1>2, <1>4, <1>5, <1>7

\* What a concatenation adds to a sequence
LEMMA AppendedPart ==
  ASSUME NEW s \in Seq(Alert), NEW t \in Seq(Alert)
  PROVE  SubSeq(s \o t, Len(s) + 1, Len(s \o t)) = t
<1> DEFINE u == s \o t
           part == SubSeq(u, Len(s) + 1, Len(u))
<1>1. /\ u \in Seq(Alert) /\ Len(u) = Len(s) + Len(t) /\ Len(s) \in Nat /\ Len(t) \in Nat
      /\ \A i \in 1..Len(u) : u[i] = IF i <= Len(s) THEN s[i] ELSE t[i - Len(s)]
  BY ConcatProperties
<1> HIDE DEF u
<1>2. /\ part \in Seq(Alert) /\ Len(part) = Len(t)
      /\ \A i \in 1..Len(t) : part[i] = u[Len(s) + i]
  BY <1>1
<1> HIDE DEF part
<1>3. ASSUME NEW i \in 1..Len(t)
      PROVE  part[i] = t[i]
  <2>1. Len(s) + i \in 1..Len(u) /\ ~(Len(s) + i <= Len(s)) /\ (Len(s) + i) - Len(s) = i
    BY <1>1
  <2>2. u[Len(s) + i] = t[(Len(s) + i) - Len(s)]
    BY <1>1, <2>1
  <2> QED
    BY <1>2, <2>1, <2>2
<1>4. part = t
  BY <1>2, <1>3, SeqEqual
<1> QED
  BY <1>4 DEF part, u

-----------------------------------------------------------------------------
(* Every step is one of the feed or leaves it alone. *)

Stutter == UNCHANGED <<accepted, Pending, received>>

\* Pending, in the terms of the invariant
LEMMA PendingParts == Pending = Elements(queue) \cup Elements(batch) \cup InC
BY DEF Pending, InC

\* Add: only the oldest may be lost, and only for Capacity newer ones.
LEMMA AddRefines ==
  ASSUME TypeOK, OrderInv, NEW n \in Alert, Add(n)
  PROVE  OrderInv' /\ Feed!Accept(n) /\ n \in 1..(MaxAlerts - accepted)
<1>1. /\ QueueIsNewest' /\ Left' >= Left
      /\ accepted' = accepted + n /\ n \in 1..(MaxAlerts - accepted)
      /\ Left' <= Left \/ Left' <= accepted' - Capacity
  BY AddKeepsNewest DEF OrderInv
<1>2. UNCHANGED <<C, batch, pc, received>> /\ TypeOK'
  BY AddType DEF Add, dispatcherVars, consumerVars
<1>3. /\ Left \in Int /\ Left' \in Int /\ accepted \in Nat /\ accepted' \in Nat
      /\ Capacity \in Nat /\ n \in Nat
  BY <1>2, ConfigAssumption DEF TypeOK, Left, Alert
<1>4. /\ Elements(queue) = (Left + 1)..accepted
      /\ Elements(queue') = (Left' + 1)..accepted'
  <2>1. queue \in Seq(Alert) /\ queue' \in Seq(Alert)
    BY <1>2 DEF TypeOK
  <2>2. /\ \A i \in 1..Len(queue) : queue[i] = accepted - Len(queue) + i
        /\ \A i \in 1..Len(queue') : queue'[i] = accepted' - Len(queue') + i
    BY <1>1 DEF OrderInv, QueueIsNewest, Left
  <2> QED
    BY <1>3, <2>1, <2>2, QueueElements DEF Left
<1>5. \A s \in Seq(Alert) : UpTo(s, Left) => UpTo(s, Left')
  <2> SUFFICES ASSUME NEW s \in Seq(Alert), UpTo(s, Left), NEW i \in 1..Len(s)
               PROVE  s[i] <= Left'
    BY DEF UpTo
  <2>1. s[i] <= Left
    BY DEF UpTo
  <2>2. s[i] \in Alert
    OBVIOUS
  <2>3. s[i] \in Int
    BY <2>2 DEF Alert
  <2> QED
    BY <1>1, <1>3, <2>1, <2>3
<1>6. OrderInv'
  <2>1. BatchIsOlder'
    BY <1>2, <1>5 DEF OrderInv, BatchIsOlder, Increasing, UpTo, TypeOK
  <2>2. \A k \in 1..Len(C) : C[k] \in Seq(Alert)
    BY DEF TypeOK
  <2>3. SentIsOlder'
    <3>1. \A k \in 1..Len(C) :
            /\ Increasing(C[k]) /\ UpTo(C[k], Left) /\ Before(C[k], batch)
            /\ \A l \in 1..Len(C) : k < l => Before(C[k], C[l])
      BY DEF OrderInv, SentIsOlder
    <3>2. \A k \in 1..Len(C) : UpTo(C[k], Left')
      BY <1>5, <2>2, <3>1
    <3>3. C' = C /\ batch' = batch
      BY <1>2
    <3>4. \A k \in 1..Len(C') :
            /\ Increasing(C'[k]) /\ UpTo(C'[k], Left') /\ Before(C'[k], batch')
            /\ \A l \in 1..Len(C') : k < l => Before(C'[k], C'[l])
      BY <3>1, <3>2, <3>3
    <3> QED
      BY <3>4 DEF SentIsOlder, Increasing, UpTo, Before
  <2> QED
    BY <1>1, <2>1, <2>3 DEF OrderInv
<1>7. Pending = Elements(queue) \cup Elements(batch) \cup InC
      /\ Pending' = Elements(queue') \cup Elements(batch) \cup InC
  BY <1>2, PendingParts DEF InC, Elements, Pending
<1> DEFINE known == Pending \cup ((accepted + 1)..accepted')
<1>8. Pending' \subseteq known
  BY <1>1, <1>3, <1>4, <1>7
<1>9. ASSUME NEW a \in known, a > accepted' - Capacity
      PROVE  a \in Pending'
  <2>1. CASE a \in Elements(queue) \cup ((accepted + 1)..accepted')
    <3>1. a \in Int /\ a > Left /\ a <= accepted'
      <4>1. Left <= accepted
        BY <1>3 DEF Left, TypeOK
      <4>2. CASE a \in (Left + 1)..accepted
        BY <1>1, <1>3, <4>2
      <4>3. CASE a \in (accepted + 1)..accepted'
        BY <1>3, <4>1, <4>3
      <4> QED
        BY <1>4, <2>1, <4>2, <4>3
    <3> HIDE DEF known
    <3>2. a \in (Left' + 1)..accepted'
      <4>1. a > accepted' - Capacity
        BY <1>9
      <4>2. Left' <= Left \/ Left' <= accepted' - Capacity
        BY <1>1
      <4>3. a > Left'
        <5>1. /\ a \in Int /\ Left \in Int /\ Left' \in Int /\ accepted' \in Int /\ Capacity \in Int
              /\ a > Left
          BY <1>3, <3>1
        <5>2. CASE Left' <= Left
          BY <5>1, <5>2
        <5>3. CASE Left' <= accepted' - Capacity
          BY <4>1, <5>1, <5>3, PastTheLost
        <5> QED
          BY <4>2, <5>2, <5>3
      <4>4. Left' \in Int /\ accepted' \in Int /\ a \in Int /\ a <= accepted'
        BY <1>3, <3>1
      <4> QED
        BY <4>3, <4>4, InInterval
    <3> QED
      BY <1>4, <1>7, <3>2
  <2>2. CASE a \in Elements(batch) \cup InC
    BY <1>7, <2>2
  <2> QED
    BY <1>7, <1>9, <2>1, <2>2
<1> HIDE DEF known
<1>10. Feed!Accept(n)
  BY <1>1, <1>2, <1>8, <1>9 DEF Feed!Accept, known
<1> QED
  BY <1>1, <1>6, <1>10

\* next() moves alerts from the queue to the batch.
LEMMA TakeRefines ==
  ASSUME TypeOK, OrderInv, NEW from \in {"take", "drainTake"}, NEW to \in {"send", "drainSend"},
         Take(from, to)
  PROVE  OrderInv' /\ Stutter
<1>1. /\ QueueIsNewest'
      /\ batch' \in Seq(Alert) /\ accepted' = accepted
      /\ Left' = Left + Len(batch')
      /\ \A i \in 1..Len(batch') : batch'[i] = Left + i
  BY TakeOldest DEF OrderInv
<1>2. UNCHANGED <<C, received>> /\ batch = <<>> /\ pc' = to /\ TypeOK'
  BY TakeType DEF Take, consumerVars, OrderInv, BatchIsOlder, DispatcherPC
<1>3. Left \in Int /\ Left' \in Int /\ accepted \in Nat /\ Len(batch') \in Nat
      /\ Len(queue) \in Nat /\ Len(queue') \in Nat
  BY <1>1, <1>2 DEF TypeOK, Left
<1>4. BatchIsOlder'
  <2>1. Increasing(batch)' /\ UpTo(batch, Left)'
    BY <1>1, <1>3 DEF Increasing, UpTo
  <2> QED
    BY <1>2, <2>1 DEF BatchIsOlder
<1>5. \A s \in Seq(Alert) : UpTo(s, Left) => UpTo(s, Left') /\ Before(s, batch')
  <2> SUFFICES ASSUME NEW s \in Seq(Alert), UpTo(s, Left), NEW i \in 1..Len(s)
               PROVE  s[i] <= Left' /\ \A j \in 1..Len(batch') : s[i] < batch'[j]
    BY DEF UpTo, Before
  <2>1. s[i] <= Left
    BY DEF UpTo
  <2>2. s[i] \in Alert
    OBVIOUS
  <2>3. s[i] \in Int
    BY <2>2 DEF Alert
  <2> QED
    BY <1>1, <1>3, <2>1, <2>3
<1>6. SentIsOlder'
  <2>1. \A k \in 1..Len(C) : C[k] \in Seq(Alert)
    BY DEF TypeOK
  <2>2. \A k \in 1..Len(C) :
          /\ Increasing(C[k]) /\ UpTo(C[k], Left)
          /\ \A l \in 1..Len(C) : k < l => Before(C[k], C[l])
    BY DEF OrderInv, SentIsOlder
  <2>3. \A k \in 1..Len(C) : UpTo(C[k], Left') /\ Before(C[k], batch')
    BY <1>5, <2>1, <2>2
  <2> QED
    BY <1>2, <2>2, <2>3 DEF SentIsOlder, Increasing, UpTo, Before
<1>7. Elements(queue) = Elements(queue') \cup Elements(batch')
  <2>1. Elements(queue) = (Left + 1)..accepted
    <3>1. queue \in Seq(Alert) /\ \A i \in 1..Len(queue) : queue[i] = accepted - Len(queue) + i
      BY DEF TypeOK, OrderInv, QueueIsNewest, Left
    <3> QED
      BY <1>3, <3>1, QueueElements DEF Left
  <2>2. Elements(queue') = (Left' + 1)..accepted
    <3>1. queue' \in Seq(Alert) /\ \A i \in 1..Len(queue') : queue'[i] = accepted - Len(queue') + i
      BY <1>1, <1>2 DEF TypeOK, QueueIsNewest, Left
    <3>2. Left' = accepted - Len(queue')
      BY <1>1 DEF Left
    <3> QED
      BY <1>3, <3>1, <3>2, QueueElements
  <2>3. Elements(batch') = (Left + 1)..Left'
    <3>1. ASSUME NEW i \in 1..Len(batch')
          PROVE  batch'[i] \in (Left + 1)..Left'
      BY <1>1, <1>3
    <3>2. ASSUME NEW a \in (Left + 1)..Left'
          PROVE  a - Left \in 1..Len(batch') /\ batch'[a - Left] = a
      BY <1>1, <1>3
    <3> QED
      BY <3>1, <3>2 DEF Elements
  <2>4. Left <= Left' /\ Left' <= accepted
    BY <1>1, <1>3 DEF Left
  <2> QED
    BY <1>3, <2>1, <2>2, <2>3, <2>4
<1>8. Elements(batch) = {}
  BY <1>2 DEF Elements
<1>9. Pending' = Pending
  <2>1. Pending' = Elements(queue') \cup Elements(batch') \cup InC
    BY <1>2 DEF Pending, InC, Elements
  <2> QED
    BY <1>7, <1>8, <2>1, PendingParts
<1> QED
  BY <1>1, <1>2, <1>4, <1>6, <1>9 DEF OrderInv, Stutter

\* A send moves the batch to C.
LEMMA SendRefines ==
  ASSUME TypeOK, OrderInv, NEW from, NEW to \in {"check", "drain"}, Send(from, to)
  PROVE  OrderInv' /\ Stutter
<1>1. /\ UNCHANGED <<queue, accepted, received>> /\ C' = Append(C, batch) /\ batch' = <<>>
      /\ pc' = to
  BY DEF Send, consumerVars
<1>2. C \in Seq(Seq(Alert)) /\ batch \in Seq(Alert) /\ Len(C) \in Nat
  BY DEF TypeOK
<1>3. /\ Len(C') = Len(C) + 1
      /\ \A k \in 1..Len(C) : C'[k] = C[k]
      /\ C'[Len(C) + 1] = batch
  BY <1>1, <1>2
<1>4. QueueIsNewest' /\ Left' = Left
  BY <1>1 DEF OrderInv, QueueIsNewest, Left
<1>5. BatchIsOlder'
  BY <1>1 DEF BatchIsOlder, Increasing, UpTo
<1>6. SentIsOlder'
  <2>1. \A k \in 1..Len(C) :
          /\ Increasing(C[k]) /\ UpTo(C[k], Left) /\ Before(C[k], batch)
          /\ \A l \in 1..Len(C) : k < l => Before(C[k], C[l])
    BY DEF OrderInv, SentIsOlder
  <2>2. Increasing(batch) /\ UpTo(batch, Left)
    BY DEF OrderInv, BatchIsOlder
  <2>3. \A s : Before(s, batch')
    BY <1>1 DEF Before
  <2>4. \A k \in 1..Len(C') : k \in 1..Len(C) \/ k = Len(C) + 1
    BY <1>2, <1>3
  <2>5. ASSUME NEW k \in 1..Len(C')
        PROVE  Increasing(C'[k]) /\ UpTo(C'[k], Left)
    BY <1>3, <2>1, <2>2, <2>4
  <2>6. ASSUME NEW k \in 1..Len(C'), NEW l \in 1..Len(C'), k < l
        PROVE  Before(C'[k], C'[l])
    <3>1. k \in 1..Len(C)
      BY <1>2, <1>3, <2>6
    <3>2. CASE l \in 1..Len(C)
      BY <1>3, <2>1, <2>6, <3>1, <3>2
    <3>3. CASE l = Len(C) + 1
      BY <1>3, <2>1, <3>1, <3>3
    <3> QED
      BY <2>4, <3>2, <3>3
  <2> QED
    BY <1>4, <2>3, <2>5, <2>6 DEF SentIsOlder, Increasing, UpTo, Before
<1>7. Pending' = Pending
  <2>1. InC' = InC \cup Elements(batch)
    <3>1. InC' = UNION {Elements(C'[k]) : k \in 1..(Len(C) + 1)}
      BY <1>3 DEF InC, Elements
    <3>2. \A k \in 1..(Len(C) + 1) : k \in 1..Len(C) \/ k = Len(C) + 1
      BY <1>2
    <3>3. \A k \in 1..Len(C) : k \in 1..(Len(C) + 1)
      BY <1>2
    <3>4. Len(C) + 1 \in 1..(Len(C) + 1)
      BY <1>2
    <3> QED
      BY <1>3, <3>1, <3>2, <3>3, <3>4 DEF InC
  <2>2. Elements(batch)' = {} /\ Elements(queue)' = Elements(queue)
    BY <1>1 DEF Elements
  <2>3. Pending' = Elements(queue)' \cup Elements(batch)' \cup InC'
    BY DEF Pending, InC
  <2> QED
    BY <2>1, <2>2, <2>3, PendingParts
<1> QED
  BY <1>1, <1>4, <1>5, <1>6, <1>7 DEF OrderInv, Stutter

\* The loop receives the oldest batch of C, and with it the oldest alerts.
LEMMA ReceiveRefines ==
  ASSUME TypeOK, OrderInv, Receive
  PROVE  OrderInv' /\ Feed!HandOver
<1> DEFINE first == Head(C)
<1>1. /\ UNCHANGED <<queue, accepted, pc, batch>> /\ C # <<>>
      /\ C' = Tail(C) /\ received' = received \o first
  BY DEF Receive, dispatcherVars
<1>2. /\ C \in Seq(Seq(Alert)) /\ batch \in Seq(Alert) /\ queue \in Seq(Alert)
      /\ received \in Seq(Alert) /\ Len(C) \in Nat
  BY DEF TypeOK
<1>3. /\ Len(C) > 0 /\ first = C[1] /\ first \in Seq(Alert) /\ Len(C') = Len(C) - 1
      /\ \A k \in 1..(Len(C) - 1) : C'[k] = C[k + 1]
  BY <1>1, <1>2
<1> HIDE DEF first
<1>4. \A k \in 1..Len(C) :
        /\ Increasing(C[k]) /\ UpTo(C[k], Left) /\ Before(C[k], batch)
        /\ \A l \in 1..Len(C) : k < l => Before(C[k], C[l])
  BY DEF OrderInv, SentIsOlder
<1>5. QueueIsNewest' /\ BatchIsOlder' /\ Left' = Left
  BY <1>1 DEF OrderInv, QueueIsNewest, BatchIsOlder, Left
<1>6. SentIsOlder'
  <2>1. ASSUME NEW k \in 1..Len(C')
        PROVE  k + 1 \in 1..Len(C) /\ C'[k] = C[k + 1]
    BY <1>2, <1>3
  <2>2. ASSUME NEW k \in 1..Len(C'), NEW l \in 1..Len(C'), k < l
        PROVE  Before(C'[k], C'[l])
    <3>1. k + 1 < l + 1 /\ k + 1 \in 1..Len(C) /\ l + 1 \in 1..Len(C)
      BY <2>1, <2>2
    <3> QED
      BY <1>4, <2>1, <3>1
  <2>3. ASSUME NEW k \in 1..Len(C')
        PROVE  Increasing(C'[k]) /\ UpTo(C'[k], Left) /\ Before(C'[k], batch)
    BY <1>4, <2>1
  <2> QED
    BY <1>1, <1>5, <2>2, <2>3 DEF SentIsOlder, Increasing, UpTo, Before
<1>7. InC = Elements(first) \cup InC'
  <2>1. InC' = UNION {Elements(C'[k]) : k \in 1..(Len(C) - 1)}
    BY <1>3 DEF InC, Elements
  <2>2. \A k \in 1..Len(C) : k = 1 \/ (k - 1 \in 1..(Len(C) - 1) /\ C'[k - 1] = C[k])
    <3>1. ASSUME NEW k \in 1..Len(C), k # 1
          PROVE  k - 1 \in 1..(Len(C) - 1) /\ (k - 1) + 1 = k
      BY <1>2, <3>1
    <3> QED
      BY <1>3, <3>1
  <2>3. \A k \in 1..(Len(C) - 1) : k + 1 \in 1..Len(C) /\ C'[k] = C[k + 1]
    BY <1>2, <1>3
  <2>4. 1 \in 1..Len(C)
    BY <1>2, <1>3
  <2>5. InC \subseteq Elements(first) \cup InC'
    BY <1>3, <2>1, <2>2 DEF InC
  <2>6. Elements(first) \cup InC' \subseteq InC
    BY <1>3, <2>1, <2>3, <2>4 DEF InC
  <2> QED
    BY <2>5, <2>6
<1>8. /\ Pending = Elements(queue) \cup Elements(batch) \cup InC
      /\ Pending' = Elements(queue) \cup Elements(batch) \cup InC'
  BY <1>1, PendingParts DEF Pending, InC, Elements
<1>9. ASSUME NEW a \in Elements(first), NEW b \in Pending'
      PROVE  a < b
  <2>1. PICK i \in 1..Len(first) : a = first[i]
    BY DEF Elements
  <2>2. UpTo(first, Left) /\ Before(first, batch)
    BY <1>3, <1>4
  <2>3. a \in Int
    <3>1. first[i] \in Alert
      BY <1>3
    <3> QED
      BY <2>1, <3>1 DEF Alert
  <2>4. CASE b \in Elements(queue)
    <3>1. PICK j \in 1..Len(queue) : b = queue[j]
      BY <2>4 DEF Elements
    <3>2. b = Left + j /\ a <= Left /\ Left \in Int /\ j \in Nat /\ j > 0
      BY <1>2, <2>1, <2>2, <3>1 DEF OrderInv, QueueIsNewest, UpTo, Left, TypeOK
    <3> QED
      BY <2>3, <3>2
  <2>5. CASE b \in Elements(batch)
    BY <2>1, <2>2, <2>5 DEF Elements, Before
  <2>6. CASE b \in InC'
    <3>1. PICK k \in 1..(Len(C) - 1) : b \in Elements(C'[k])
      BY <1>3, <2>6 DEF InC, Elements
    <3>2. C'[k] = C[k + 1] /\ 1 < k + 1 /\ k + 1 \in 1..Len(C) /\ 1 \in 1..Len(C)
      BY <1>2, <1>3
    <3>3. Before(first, C[k + 1])
      BY <1>3, <1>4, <3>2
    <3> QED
      BY <2>1, <3>1, <3>2, <3>3 DEF Elements, Before
  <2> QED
    BY <1>8, <2>4, <2>5, <2>6
<1>10. Pending \ Pending' = Elements(first)
  <2>1. \A a \in Elements(first) : a \notin Pending'
    <3> SUFFICES ASSUME NEW a \in Elements(first), a \in Pending' PROVE FALSE
      OBVIOUS
    <3>1. a \in Int
      <4>1. PICK i \in 1..Len(first) : a = first[i]
        BY DEF Elements
      <4>2. first[i] \in Alert
        BY <1>3
      <4> QED
        BY <4>1, <4>2 DEF Alert
    <3>2. a < a
      BY <1>9
    <3> QED
      BY <3>1, <3>2
  <2> QED
    BY <1>7, <1>8, <2>1
<1>11. Feed!HandedOver = first
  BY <1>1, <1>2, <1>3, AppendedPart DEF Feed!HandedOver
<1>12. Increasing(first)
  BY <1>3, <1>4
<1>13. Pending' \subseteq Pending
  BY <1>7, <1>8
<1>14. Feed!HandOver
  BY <1>1, <1>9, <1>10, <1>11, <1>12, <1>13 DEF Feed!HandOver, Elements, Increasing
<1> QED
  BY <1>5, <1>6, <1>14 DEF OrderInv

\* Every other step leaves the feed and the order alone.
LEMMA QuietSteps ==
  ASSUME OrderInv, UNCHANGED <<queue, C, accepted, batch, received>>,
         pc' = pc \/ (pc \notin {"send", "drainSend"} /\ pc' \notin {"send", "drainSend"})
  PROVE  OrderInv' /\ Stutter
<1>1. OrderInv'
  BY DEF OrderInv, QueueIsNewest, BatchIsOlder, SentIsOlder, Left, Increasing, UpTo, Before
<1>2. Stutter
  BY DEF Stutter, Pending, Elements
<1> QED
  BY <1>1, <1>2

\* No step of the dispatcher is seen by the feed.
LEMMA DispatchRefines ==
  ASSUME TypeOK, OrderInv, Dispatch
  PROVE  OrderInv' /\ Stutter
<1>1. CASE Start \/ SelectMore \/ SelectStop \/ Check \/ DrainTest \/ CloseC
  <2>1. /\ UNCHANGED <<queue, C, accepted, batch, received>>
        /\ pc \notin {"send", "drainSend"} /\ pc' \notin {"send", "drainSend"}
    BY <1>1 DEF Start, SelectMore, SelectStop, Check, DrainTest, CloseC, consumerVars
  <2> QED
    BY <2>1, QuietSteps
<1>2. CASE Take("take", "send") \/ Take("drainTake", "drainSend")
  BY <1>2, TakeRefines
<1>3. CASE Send("send", "check") \/ Send("drainSend", "drain")
  BY <1>3, SendRefines
<1> QED
  BY <1>1, <1>2, <1>3 DEF Dispatch

\* An empty batcher is an empty feed.
LEMMA OrderStart == Init => OrderInv /\ Feed!FeedInit
<1> SUFFICES ASSUME Init PROVE OrderInv /\ Feed!FeedInit
  OBVIOUS
<1>1. queue = <<>> /\ C = <<>> /\ batch = <<>> /\ accepted = 0 /\ received = <<>>
  BY DEF Init
<1>2. OrderInv
  BY <1>1 DEF OrderInv, QueueIsNewest, BatchIsOlder, SentIsOlder, Increasing, UpTo, Before
<1>3. Pending = {}
  BY <1>1 DEF Pending, Elements
<1> QED
  BY <1>1, <1>2, <1>3 DEF Feed!FeedInit

\* An Add is an Accept, a Receive a HandOver, and the rest a stutter.
LEMMA EveryStepRefines ==
  ASSUME TypeOK, OrderInv, [Next]_vars
  PROVE  OrderInv' /\ [Feed!FeedNext]_Feed!feedVars
<1>1. CASE \E n \in Alert : Add(n)
  BY <1>1, AddRefines DEF Feed!FeedNext
<1>2. CASE Receive
  BY <1>2, ReceiveRefines DEF Feed!FeedNext
<1>3. CASE Dispatch
  BY <1>3, DispatchRefines DEF Stutter, Feed!feedVars
<1>4. CASE StopCall \/ StopReturn \/ OrgLookupFails \/ PutBatch
  <2>1. UNCHANGED <<queue, C, accepted, batch, received, pc>>
    BY <1>4 DEF StopCall, StopReturn, OrgLookupFails, PutBatch, dispatcherVars, consumerVars
  <2> QED
    BY <2>1, QuietSteps DEF Stutter, Feed!feedVars
<1>5. CASE UNCHANGED vars
  <2>1. UNCHANGED <<queue, C, accepted, batch, received, pc>>
    BY <1>5 DEF vars, dispatcherVars, consumerVars
  <2> QED
    BY <2>1, QuietSteps DEF Stutter, Feed!feedVars
<1> QED
  BY <1>1, <1>2, <1>3, <1>4, <1>5 DEF Next, Consume

\* The batcher implements the lossy feed: what its queue, channels and
\* goroutine do with the alerts is to hand them over in the order accepted,
\* each at most once, and to lose one only for Capacity newer ones.
THEOREM ImplementsLossyFeed == Spec => ImplementsFeed
<1>1. TypeOK /\ OrderInv /\ [Next]_vars => OrderInv' /\ [Feed!FeedNext]_Feed!feedVars
  BY EveryStepRefines
<1> QED
  BY <1>1, OrderStart, TypeCorrect, PTL DEF Spec, ImplementsFeed, Feed!Spec
=============================================================================
