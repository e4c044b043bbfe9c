---------------------------- MODULE AlertBatcher ----------------------------
(***************************************************************************)
(* The batcher in front of the legacy Alertmanager.  Rule tasks Add alerts *)
(* to a bounded in-memory queue; one dispatcher goroutine moves them, a    *)
(* batch at a time, to the buffered channel C; the provider's Start loop   *)
(* receives batches from C and posts them over HTTP.                       *)
(*                                                                         *)
(* An alert is named by the position at which it was accepted, so the      *)
(* order of acceptance is the order of the numbers.                        *)
(***************************************************************************)
EXTENDS Integers, Sequences

CONSTANTS
  Capacity,   \* Config.Capacity, alerts the queue may hold
  Size,       \* Config.Size, alerts per batch and batches buffered in C
  MaxAlerts   \* bound on the alerts ever accepted

ASSUME ConfigAssumption ==
  /\ Capacity \in Nat \ {0}
  /\ Size \in Nat \ {0}
  /\ MaxAlerts \in Nat

VARIABLES
  queue,      \* batcher.queue
  moreC,      \* TRUE when the one-slot channel moreC holds a token
  stopC,      \* TRUE once stopC is closed
  C,          \* the batches buffered in batcher.C
  pc,         \* where the dispatcher goroutine is
  batch,      \* the batch the dispatcher is about to send on C
  stopper,    \* the caller of Stop: "none", "waiting", "returned"
  inHand,     \* the batches (zero or one) the provider loop is handling
  orgKnown,   \* provider.orgID has been resolved
  accepted,   \* history: how many alerts Add was given
  acceptedAtStop, \* history: accepted when stopC was closed
  received    \* history: the alerts the provider loop took from C, in order

dispatcherVars == <<pc, batch>>
consumerVars == <<inHand, orgKnown, received>>
stopVars == <<stopC, stopper, acceptedAtStop>>
vars == <<queue, moreC, C, accepted, dispatcherVars, consumerVars, stopVars>>

Alert == 1..MaxAlerts

-----------------------------------------------------------------------------
(* Slices of the queue. *)

\* s[d:] when d > 0, s otherwise
DropOldest(s, d) == IF d > 0 THEN SubSeq(s, d + 1, Len(s)) ELSE s

\* The first Size alerts of the queue, or all of it
NextBatch == IF Len(queue) > Size THEN SubSeq(queue, 1, Size) ELSE queue

Init ==
  /\ queue = <<>>
  /\ moreC = FALSE
  /\ stopC = FALSE
  /\ C = <<>>
  /\ pc = "idle"
  /\ batch = <<>>
  /\ stopper = "none"
  /\ inHand = <<>>
  /\ orgKnown = FALSE
  /\ accepted = 0
  /\ acceptedAtStop = 0
  /\ received = <<>>

-----------------------------------------------------------------------------
(* Rule tasks: PutAlerts -> Add, one critical section under queueMtx. *)

\* Plausible faults of Add, used to show that the properties can fail.
AddDropsNewest(n) ==
  /\ n \in 1..(MaxAlerts - accepted)
  /\ LET new == [i \in 1..n |-> accepted + i]
         all == queue \o new
     IN  queue' = IF Len(all) > Capacity THEN SubSeq(all, 1, Capacity) ELSE all
  /\ accepted' = accepted + n
  /\ moreC' = TRUE
  /\ UNCHANGED <<C, dispatcherVars, consumerVars, stopVars>>

AddKeepsOversizedBatch(n) ==
  /\ n \in 1..(MaxAlerts - accepted)
  /\ LET new == [i \in 1..n |-> accepted + i]
         d   == Len(queue) + n - Capacity
     IN  queue' = DropOldest(queue, d) \o new
  /\ accepted' = accepted + n
  /\ moreC' = TRUE
  /\ UNCHANGED <<C, dispatcherVars, consumerVars, stopVars>>

\* Add(n alerts): what does not fit is dropped, oldest first; setMore leaves a
\* token in moreC (a send on the full one-slot channel is skipped).
Add(n) ==
  /\ n \in 1..(MaxAlerts - accepted)
  /\ LET new  == [i \in 1..n |-> accepted + i]
         kept == DropOldest(new, n - Capacity)
         d    == Len(queue) + Len(kept) - Capacity
     IN  queue' = DropOldest(queue, d) \o kept
  /\ accepted' = accepted + n
  /\ moreC' = TRUE
  /\ UNCHANGED <<C, dispatcherVars, consumerVars, stopVars>>

-----------------------------------------------------------------------------
(* The dispatcher goroutine. *)

\* Start launches the goroutine
Start ==
  /\ pc = "idle"
  /\ pc' = "select"
  /\ UNCHANGED <<queue, moreC, C, accepted, batch, consumerVars, stopVars>>

\* case <-moreC; when stopC is closed too the select may still pick this case
SelectMore ==
  /\ pc = "select"
  /\ moreC
  /\ moreC' = FALSE
  /\ pc' = "take"
  /\ UNCHANGED <<queue, C, accepted, batch, consumerVars, stopVars>>

SelectStopSkipsDrain ==
  /\ pc = "select"
  /\ stopC
  /\ pc' = "closing"
  /\ UNCHANGED <<queue, moreC, C, accepted, batch, consumerVars, stopVars>>

\* case <-stopC
SelectStop ==
  /\ pc = "select"
  /\ stopC
  /\ pc' = "drain"
  /\ UNCHANGED <<queue, moreC, C, accepted, batch, consumerVars, stopVars>>

\* next(): one critical section under queueMtx
Take(from, to) ==
  /\ pc = from
  /\ batch' = NextBatch
  /\ queue' = SubSeq(queue, Len(NextBatch) + 1, Len(queue))
  /\ pc' = to
  /\ UNCHANGED <<moreC, C, accepted, consumerVars, stopVars>>

\* batcher.C <- alerts, which blocks while Size batches are buffered
Send(from, to) ==
  /\ pc = from
  /\ Len(C) < Size
  /\ C' = Append(C, batch)
  /\ batch' = <<>>
  /\ pc' = to
  /\ UNCHANGED <<queue, moreC, accepted, consumerVars, stopVars>>

CheckForgetsMore ==
  /\ pc = "check"
  /\ pc' = "select"
  /\ UNCHANGED <<queue, moreC, C, accepted, batch, consumerVars, stopVars>>

\* Items still queued after a send kick off the next iteration.  queueLen and
\* setMore are one step: only this goroutine empties the queue.
Check ==
  /\ pc = "check"
  /\ moreC' = (moreC \/ queue # <<>>)
  /\ pc' = "select"
  /\ UNCHANGED <<queue, C, accepted, batch, consumerVars, stopVars>>

DrainTestForgetsReturn ==
  /\ pc = "drain"
  /\ pc' = IF queue # <<>> THEN "drainTake" ELSE "select"
  /\ UNCHANGED <<queue, moreC, C, accepted, batch, consumerVars, stopVars>>

\* for queueLen() > 0 { next; send }: the emptiness test of the drain loop
DrainTest ==
  /\ pc = "drain"
  /\ pc' = IF queue # <<>> THEN "drainTake" ELSE "closing"
  /\ UNCHANGED <<queue, moreC, C, accepted, batch, consumerVars, stopVars>>

\* close(batcher.C) and return
CloseC ==
  /\ pc = "closing"
  /\ pc' = "done"
  /\ UNCHANGED <<queue, moreC, C, accepted, batch, consumerVars, stopVars>>

Dispatch ==
  \/ Start
  \/ SelectMore
  \/ SelectStop
  \/ Take("take", "send")
  \/ Send("send", "check")
  \/ Check
  \/ DrainTest
  \/ Take("drainTake", "drainSend")
  \/ Send("drainSend", "drain")
  \/ CloseC

-----------------------------------------------------------------------------
(* Stop(): close(stopC), then wait for the goroutine. *)

StopCall ==
  /\ stopper = "none"
  /\ stopper' = "waiting"
  /\ stopC' = TRUE
  /\ acceptedAtStop' = accepted
  /\ UNCHANGED <<queue, moreC, C, accepted, dispatcherVars, consumerVars>>

\* The WaitGroup is at zero before Start and after the goroutine returned.
StopReturn ==
  /\ stopper = "waiting"
  /\ pc \in {"idle", "done"}
  /\ stopper' = "returned"
  /\ UNCHANGED <<queue, moreC, C, accepted, stopC, acceptedAtStop,
                 dispatcherVars, consumerVars>>

-----------------------------------------------------------------------------
(* The provider's loop: for alerts := range batcher.C.  The loop is the    *)
(* goroutine that ran batcher.Start, so it begins after the dispatcher.    *)

Receive ==
  /\ pc # "idle"
  /\ inHand = <<>>
  /\ C # <<>>
  /\ inHand' = <<Head(C)>>
  /\ C' = Tail(C)
  /\ received' = received \o Head(C)
  /\ UNCHANGED <<queue, moreC, accepted, orgKnown, dispatcherVars, stopVars>>

\* Listing the organizations fails or finds none: the batch is dropped.
OrgLookupFails ==
  /\ inHand # <<>>
  /\ ~orgKnown
  /\ inHand' = <<>>
  /\ UNCHANGED <<queue, moreC, C, accepted, orgKnown, received,
                 dispatcherVars, stopVars>>

\* The batch is posted, or the post fails (client timeout 30s) and is logged:
\* there is no retry in either case.
PutBatch ==
  /\ inHand # <<>>
  /\ orgKnown' = TRUE
  /\ inHand' = <<>>
  /\ UNCHANGED <<queue, moreC, C, accepted, received, dispatcherVars, stopVars>>

Consume == Receive \/ OrgLookupFails \/ PutBatch

-----------------------------------------------------------------------------
Next ==
  \/ \E n \in Alert : Add(n)
  \/ Dispatch
  \/ StopCall
  \/ StopReturn
  \/ Consume

\* Goroutines that can run do run; every post ends, with an answer or at the
\* client's timeout.  Nobody is obliged to Add or to Stop.
Fairness ==
  /\ WF_vars(Dispatch)
  /\ WF_vars(Consume)
  /\ WF_vars(StopReturn)

Spec == Init /\ [][Next]_vars /\ Fairness

-----------------------------------------------------------------------------
(* Properties. *)

DispatcherPC == {"idle", "select", "take", "send", "check",
                 "drain", "drainTake", "drainSend", "closing", "done"}

\* The queue never holds more than Capacity alerts, a batch never more than
\* Size, and C never more than Size batches (batcher.go New, Add, next).
TypeOK ==
  /\ queue \in Seq(Alert) /\ Len(queue) <= Capacity
  /\ moreC \in BOOLEAN
  /\ stopC \in BOOLEAN
  /\ C \in Seq(Seq(Alert)) /\ Len(C) <= Size
  /\ \A i \in 1..Len(C) : Len(C[i]) <= Size
  /\ pc \in DispatcherPC
  /\ batch \in Seq(Alert) /\ Len(batch) <= Size
  /\ stopper \in {"none", "waiting", "returned"}
  /\ inHand \in Seq(Seq(Alert)) /\ Len(inHand) <= 1
  /\ orgKnown \in BOOLEAN
  /\ accepted \in 0..MaxAlerts
  /\ acceptedAtStop \in 0..MaxAlerts
  /\ received \in Seq(Alert)

\* No lost wakeup: whenever the dispatcher waits in its select with alerts in
\* the queue, the token that will wake it is in moreC (setMore's comment: "it
\* means the signal already exists and has not been consumed yet").
NoLostWakeup == (pc = "select" /\ queue # <<>>) => moreC

\* Nothing accepted before Stop is left behind: once the dispatcher has gone,
\* what remains in the queue was added after stopC was closed.
DrainedBeforeClose ==
  pc = "done" => \A i \in 1..Len(queue) : queue[i] > acceptedAtStop

\* Stop returns, as long as the provider loop keeps receiving.
StopReturns == (stopper = "waiting") ~> (stopper = "returned")

InQueue(a) == \E i \in 1..Len(queue) : queue[i] = a

\* An accepted alert does not sit in the queue forever while the dispatcher
\* lives: it moves to a batch or is dropped for newer ones.
AlertLeavesQueue ==
  \A a \in Alert : InQueue(a) ~> (~InQueue(a) \/ pc = "done")

\* Nobody waits for ever on the dispatcher, neither Stop nor an alert.
NobodyWaitsForever == StopReturns /\ AlertLeavesQueue

\* What is handed to the consumer and what is still on its way, in the terms
\* of the abstract feed.
Elements(s) == {s[i] : i \in 1..Len(s)}

Pending == Elements(queue) \cup Elements(batch)
           \cup UNION {Elements(C[i]) : i \in 1..Len(C)}

Feed == INSTANCE LossyFeed WITH pending <- Pending,
                                handed  <- received

\* The batcher implements the lossy feed: an alert is dropped only when
\* Capacity newer ones have been accepted, and the rest is handed over in
\* order, each alert once.
ImplementsFeed == Feed!Spec
=============================================================================
