----------------------------- MODULE LossyFeed ------------------------------
(***************************************************************************)
(* What the alert batcher promises, whatever its queue, channels and       *)
(* goroutine do: alerts are handed over in the order they were accepted,   *)
(* each at most once, and one is lost only when Capacity newer alerts have *)
(* been accepted ("the oldest alerts in favor of newer ones").             *)
(***************************************************************************)
EXTENDS Integers, Sequences

CONSTANTS Capacity, MaxAlerts

VARIABLES
  accepted,   \* how many alerts were accepted
  pending,    \* the accepted alerts neither handed over nor lost
  handed      \* the alerts handed over, in the order they were

feedVars == <<accepted, pending, handed>>

FeedInit == accepted = 0 /\ pending = {} /\ handed = <<>>

\* n alerts arrive; any alert but the newest Capacity may be lost for them.
Accept(n) ==
  /\ accepted' = accepted + n
  /\ LET known == pending \cup ((accepted + 1)..accepted')
     IN  /\ pending' \subseteq known
         /\ \A a \in known : a > accepted' - Capacity => a \in pending'
  /\ UNCHANGED handed

\* What a step hands over
HandedOver == SubSeq(handed', Len(handed) + 1, Len(handed'))

\* The oldest pending alerts are handed over together, oldest first.
HandOver ==
  /\ pending' \subseteq pending
  /\ \A a \in pending \ pending', b \in pending' : a < b
  /\ handed' = handed \o HandedOver
  /\ {HandedOver[i] : i \in 1..Len(HandedOver)} = pending \ pending'
  /\ \A i, j \in 1..Len(HandedOver) : i < j => HandedOver[i] < HandedOver[j]
  /\ UNCHANGED accepted

FeedNext == (\E n \in 1..(MaxAlerts - accepted) : Accept(n)) \/ HandOver

Spec == FeedInit /\ [][FeedNext]_feedVars
=============================================================================
