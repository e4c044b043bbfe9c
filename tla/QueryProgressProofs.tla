------------------------- MODULE QueryProgressProofs ------------------------
(***************************************************************************)
(* Proofs about the query progress tracker, for any trackers, subscribers, *)
(* callbacks and buffer.  The three properties need each other, and Fresh: *)
(* who has not subscribed yet has a channel nobody has touched.            *)
(***************************************************************************)
EXTENDS QueryProgress, SequenceTheorems, TLAPS

Fresh ==
  /\ \A s \in Subscribers : stage[s] \in {"idle", "found"} =>
       ~closed[s] /\ ch[s] = <<>> /\ seen[s] = 0
  /\ \A s \in Subscribers : stage[s] = "open" /\ closed[s] => phase[of[s]] = "finished"

-----------------------------------------------------------------------------
(* What a send does to one channel. *)

\* A send keeps a channel a sequence of numbers within its capacity.
LEMMA PushedType ==
  ASSUME NEW c \in Seq(Nat), Len(c) <= Buffer, NEW n \in Nat
  PROVE  Pushed(c, n) \in Seq(Nat) /\ Len(Pushed(c, n)) <= Buffer
  BY ProgressAssumption DEF Pushed

\* A send of an update larger than everything in an increasing channel keeps
\* the channel increasing.
LEMMA PushedGrows ==
  ASSUME NEW c \in Seq(Nat), NEW n \in Nat, NEW low \in Nat, NEW high \in Nat,
         low < n, high < n,
         \A i \in 1..Len(c) : low < c[i] /\ c[i] <= high,
         \A i, j \in 1..Len(c) : i < j => c[i] < c[j]
  PROVE  /\ \A i \in 1..Len(Pushed(c, n)) : low < Pushed(c, n)[i] /\ Pushed(c, n)[i] <= n
         /\ \A i, j \in 1..Len(Pushed(c, n)) : i < j => Pushed(c, n)[i] < Pushed(c, n)[j]
<1>1. CASE Len(c) < Buffer
  <2>1. Pushed(c, n) = Append(c, n)
    BY <1>1 DEF Pushed
  <2>2. /\ Len(Append(c, n)) = Len(c) + 1
        /\ \A i \in 1..Len(c) : Append(c, n)[i] = c[i]
        /\ Append(c, n)[Len(c) + 1] = n
    OBVIOUS
  <2>3. \A i \in 1..(Len(c) + 1) : i \in 1..Len(c) \/ i = Len(c) + 1
    OBVIOUS
  <2>4. \A i \in 1..Len(c) : c[i] \in Nat
    OBVIOUS
  <2> QED
    BY <2>1, <2>2, <2>3, <2>4
<1>2. CASE ~(Len(c) < Buffer)
  <2>1. Pushed(c, n) = c
    BY <1>2 DEF Pushed
  <2>2. \A i \in 1..Len(c) : c[i] \in Nat
    OBVIOUS
  <2> QED
    BY <2>1, <2>2
<1> QED
  BY <1>1, <1>2

\* SendAll keeps the types of the channels.
LEMMA SendAllType ==
  ASSUME TypeOK, NEW S, NEW n \in Nat, SendAll(S, n)
  PROVE  /\ ch' \in [Subscribers -> Seq(Nat)]
         /\ \A s \in Subscribers : Len(ch'[s]) <= Buffer
         /\ missed' \in [Subscribers -> BOOLEAN]
<1>1. ASSUME NEW s \in Subscribers
      PROVE  ch[s] \in Seq(Nat) /\ Len(ch[s]) <= Buffer /\ Len(ch[s]) \in Nat
  BY DEF TypeOK
<1>2. ASSUME NEW s \in Subscribers
      PROVE  Pushed(ch[s], n) \in Seq(Nat) /\ Len(Pushed(ch[s], n)) <= Buffer
  BY <1>1, PushedType
<1>3. ASSUME NEW s \in Subscribers
      PROVE  (Len(ch[s]) >= Buffer) \in BOOLEAN
  OBVIOUS
<1>4. missed \in [Subscribers -> BOOLEAN]
  BY DEF TypeOK
<1> QED
  BY <1>1, <1>2, <1>3, <1>4 DEF SendAll

-----------------------------------------------------------------------------
(* Types. *)

\* The tracker starts with its types.
LEMMA TypeInit == Init => TypeOK
  BY ProgressAssumption DEF Init, TypeOK

\* Every operation of the tracker keeps the types and the capacities.
LEMMA TypeStep ==
  ASSUME TypeOK, [Next]_vars
  PROVE  TypeOK'
<1> USE ProgressAssumption
<1>1. ASSUME NEW t \in Trackers, Start(t)
      PROVE  TypeOK'
  BY <1>1 DEF TypeOK, Start, channelVars, subscriberVars
<1>2. ASSUME NEW t \in Trackers, Unmap(t)
      PROVE  TypeOK'
  BY <1>2 DEF TypeOK, Unmap, channelVars, subscriberVars
<1>3. ASSUME NEW t \in Trackers, Finish(t)
      PROVE  TypeOK'
  BY <1>3 DEF TypeOK, Finish, subscriberVars
<1>4. ASSUME NEW p \in Reporters, LookUpToReport(p)
      PROVE  TypeOK'
  BY <1>4 DEF TypeOK, LookUpToReport, trackerVars, channelVars, subscriberVars
<1>5. ASSUME NEW p \in Reporters, Update(p)
      PROVE  TypeOK'
  <2>1. reporting[p] \in Trackers /\ progress[reporting[p]] \in Nat
    BY <1>5 DEF TypeOK, Update
  <2>2. CASE phase[reporting[p]] = "finished"
    BY <1>5, <2>1, <2>2 DEF TypeOK, Update, subscriberVars
  <2>3. CASE phase[reporting[p]] # "finished"
    <3>1. SendAll(members[reporting[p]], progress[reporting[p]] + 1)
      BY <1>5, <2>3 DEF Update
    <3>2. /\ ch' \in [Subscribers -> Seq(Nat)]
          /\ \A s \in Subscribers : Len(ch'[s]) <= Buffer
          /\ missed' \in [Subscribers -> BOOLEAN]
      BY <2>1, <3>1, SendAllType
    <3>3. progress' \in [Trackers -> Nat]
      <4>1. progress' = [progress EXCEPT ![reporting[p]] = progress[reporting[p]] + 1]
        BY <1>5, <2>3 DEF Update
      <4>2. progress \in [Trackers -> Nat] /\ progress[reporting[p]] + 1 \in Nat
        BY <2>1 DEF TypeOK
      <4> QED
        BY <4>1, <4>2
    <3> QED
      BY <1>5, <3>2, <3>3 DEF TypeOK, Update, subscriberVars
  <2> QED
    BY <2>2, <2>3
<1>6. ASSUME NEW s \in Subscribers, LookUpToSubscribe(s)
      PROVE  TypeOK'
  BY <1>6 DEF TypeOK, LookUpToSubscribe, trackerVars, channelVars
<1>7. ASSUME NEW s \in Subscribers, Subscribe(s)
      PROVE  TypeOK'
  <2>1. of[s] \in Trackers /\ progress[of[s]] \in Nat
    BY <1>7 DEF TypeOK, Subscribe
  <2>2. /\ ch' \in [Subscribers -> Seq(Nat)]
        /\ \A q \in Subscribers : Len(ch'[q]) <= Buffer
        /\ missed' \in [Subscribers -> BOOLEAN]
    <3>1. CASE SendAll({s}, progress[of[s]])
      BY <2>1, <3>1, SendAllType
    <3>2. CASE UNCHANGED <<ch, missed>>
      BY <3>2 DEF TypeOK
    <3> QED
      BY <1>7, <3>1, <3>2 DEF Subscribe
  <2>3. members' \in [Trackers -> SUBSET Subscribers]
    <3>1. \/ members' = members
          \/ members' = [members EXCEPT ![of[s]] = members[of[s]] \cup {s}]
      BY <1>7 DEF Subscribe
    <3>2. members \in [Trackers -> SUBSET Subscribers]
      BY DEF TypeOK
    <3>3. members[of[s]] \cup {s} \subseteq Subscribers
      BY <2>1, <3>2
    <3> QED
      BY <3>1, <3>2, <3>3
  <2>4. /\ stage' \in [Subscribers -> {"idle", "found", "open", "gone"}]
        /\ \A q \in Subscribers : of[q] = None <=> stage'[q] = "idle"
    BY <1>7 DEF TypeOK, Subscribe
  <2> QED
    BY <1>7, <2>2, <2>3, <2>4 DEF TypeOK, Subscribe
<1>8. ASSUME NEW s \in Subscribers, Receive(s)
      PROVE  TypeOK'
  <2>1. ch[s] \in Seq(Nat) /\ ch[s] # <<>> /\ Len(ch[s]) <= Buffer
    BY <1>8 DEF TypeOK, Receive
  <2>2. Head(ch[s]) \in Nat /\ Tail(ch[s]) \in Seq(Nat) /\ Len(Tail(ch[s])) <= Buffer
    BY <2>1
  <2> QED
    BY <1>8, <2>2 DEF TypeOK, Receive, trackerVars
<1>9. ASSUME NEW s \in Subscribers, Unsubscribe(s)
      PROVE  TypeOK'
  <2>1. of[s] \in Trackers
    BY <1>9 DEF TypeOK, Unsubscribe
  <2>2. \/ members' = members /\ closed' = closed
        \/ /\ members' = [members EXCEPT ![of[s]] = members[of[s]] \ {s}]
           /\ closed' = [closed EXCEPT ![s] = TRUE]
    BY <1>9 DEF Unsubscribe
  <2>3. members' \in [Trackers -> SUBSET Subscribers]
    <3>1. members \in [Trackers -> SUBSET Subscribers]
      BY DEF TypeOK
    <3>2. members[of[s]] \ {s} \subseteq Subscribers
      BY <2>1, <3>1
    <3> QED
      BY <2>2, <3>1, <3>2
  <2>4. closed' \in [Subscribers -> BOOLEAN]
    BY <2>2 DEF TypeOK
  <2> QED
    BY <1>9, <2>3, <2>4 DEF TypeOK, Unsubscribe
<1>10. CASE UNCHANGED vars
  BY <1>10 DEF TypeOK, vars, trackerVars, channelVars, subscriberVars
<1>11. CASE Next
  <2>1. CASE \E t \in Trackers : Start(t) \/ Unmap(t) \/ Finish(t)
    BY <2>1, <1>1, <1>2, <1>3
  <2>2. CASE \E p \in Reporters : LookUpToReport(p) \/ Update(p)
    BY <2>2, <1>4, <1>5
  <2>3. CASE \E s \in Subscribers : \/ LookUpToSubscribe(s) \/ Subscribe(s)
                                    \/ Receive(s) \/ Unsubscribe(s)
    BY <2>3, <1>6, <1>7, <1>8, <1>9
  <2> QED
    BY <1>11, <2>1, <2>2, <2>3 DEF Next
<1> QED
  BY <1>10, <1>11

\* Every reachable state is well typed: a channel never holds more than its
\* buffer, and only the running tracker is in the map.
THEOREM TypeCorrect == Spec => []TypeOK
<1>1. TypeOK /\ [Next]_vars => TypeOK'
  BY TypeStep
<1> QED
  BY TypeInit, <1>1, PTL DEF Spec

-----------------------------------------------------------------------------
(* Who is subscribed, and whose channel is closed. *)

\* Nobody has subscribed at the start.
LEMMA MemberInit == Init => OpenIffMember /\ Fresh
  BY DEF Init, OpenIffMember, Fresh

\* Every operation keeps channels open exactly while their tracker has them.
LEMMA MemberStep ==
  ASSUME TypeOK, OpenIffMember, Fresh, [Next]_vars
  PROVE  OpenIffMember' /\ Fresh'
<1> USE ProgressAssumption
<1>1. ASSUME NEW t \in Trackers, Start(t) \/ Unmap(t)
      PROVE  OpenIffMember' /\ Fresh'
  <2>1. \A u \in Trackers : phase[u] # "finished" => phase'[u] # "finished"
    BY <1>1 DEF TypeOK, Start, Unmap
  <2>2. \A u \in Trackers : phase[u] = "finished" => phase'[u] = "finished"
    BY <1>1 DEF TypeOK, Start, Unmap
  <2>3. UNCHANGED <<members, channelVars, subscriberVars>>
    BY <1>1 DEF Start, Unmap
  <2>4. \A s \in Subscribers : stage[s] = "open" => of[s] \in Trackers
    BY DEF TypeOK
  <2> QED
    BY <2>1, <2>2, <2>3, <2>4
       DEF OpenIffMember, Fresh, channelVars, subscriberVars
<1>2. ASSUME NEW t \in Trackers, Finish(t)
      PROVE  OpenIffMember' /\ Fresh'
  <2>1. \A s \in Subscribers : closed'[s] <=> (closed[s] \/ s \in members[t])
    BY <1>2 DEF Finish, TypeOK
  <2>2. /\ members'[t] = {}
        /\ \A u \in Trackers \ {t} : members'[u] = members[u]
    BY <1>2 DEF Finish, TypeOK
  <2>3. /\ phase'[t] = "finished"
        /\ \A u \in Trackers \ {t} : phase'[u] = phase[u]
    BY <1>2 DEF Finish, TypeOK
  <2>4. UNCHANGED <<stage, of, ch, seen>>
    BY <1>2 DEF Finish, subscriberVars
  <2>5. \A s \in Subscribers : stage[s] = "open" => of[s] \in Trackers
    BY DEF TypeOK
  <2>6. OpenIffMember'
    BY <2>1, <2>2, <2>3, <2>4, <2>5 DEF OpenIffMember
  <2>7. Fresh'
    BY <2>1, <2>2, <2>3, <2>4, <2>5 DEF OpenIffMember, Fresh
  <2> QED
    BY <2>6, <2>7
<1>3. ASSUME NEW p \in Reporters, LookUpToReport(p)
      PROVE  OpenIffMember' /\ Fresh'
  BY <1>3 DEF LookUpToReport, OpenIffMember, Fresh, trackerVars, channelVars,
              subscriberVars
<1>4. ASSUME NEW p \in Reporters, Update(p)
      PROVE  OpenIffMember' /\ Fresh'
  <2>1. UNCHANGED <<phase, members, closed, stage, of, seen>>
    BY <1>4 DEF Update, subscriberVars
  <2>2. ASSUME NEW s \in Subscribers, stage[s] \in {"idle", "found"}
        PROVE  ch'[s] = ch[s]
    <3>1. \A t \in Trackers : s \notin members[t]
      BY <2>2 DEF OpenIffMember
    <3>2. reporting[p] \in Trackers
      BY <1>4 DEF TypeOK, Update
    <3> QED
      BY <1>4, <3>1, <3>2 DEF Update, SendAll
  <2> QED
    BY <2>1, <2>2 DEF OpenIffMember, Fresh
<1>5. ASSUME NEW s \in Subscribers, LookUpToSubscribe(s)
      PROVE  OpenIffMember' /\ Fresh'
  <2>1. UNCHANGED <<phase, members, ch, closed, seen>>
    BY <1>5 DEF LookUpToSubscribe, trackerVars, channelVars
  <2>2. /\ stage[s] = "idle" /\ stage'[s] = "found"
        /\ \A q \in Subscribers \ {s} : stage'[q] = stage[q] /\ of'[q] = of[q]
    BY <1>5 DEF TypeOK, LookUpToSubscribe
  <2>3. \A q \in Subscribers : stage'[q] = "open" =>
          q # s /\ stage[q] = "open" /\ of'[q] = of[q]
    BY <2>2
  <2>4. \A t \in Trackers : \A q \in members[t] : q \in Subscribers /\ q # s
    BY <2>2 DEF TypeOK, OpenIffMember
  <2>5. OpenIffMember'
    BY <2>1, <2>2, <2>3, <2>4 DEF OpenIffMember
  <2>6. Fresh'
    BY <2>1, <2>2, <2>3 DEF Fresh
  <2> QED
    BY <2>5, <2>6
<1>6. ASSUME NEW s \in Subscribers, Subscribe(s)
      PROVE  OpenIffMember' /\ Fresh'
  <2>1. /\ stage[s] = "found" /\ stage'[s] \in {"open", "gone"} /\ of[s] \in Trackers
        /\ \A q \in Subscribers \ {s} : stage'[q] = stage[q] /\ ch'[q] = ch[q]
        /\ UNCHANGED <<phase, closed, of, seen>>
    BY <1>6 DEF TypeOK, Subscribe, SendAll
  <2>2. ~closed[s] /\ \A t \in Trackers : s \notin members[t]
    BY <2>1 DEF OpenIffMember, Fresh
  <2>3. CASE phase[of[s]] = "finished"
    <3>1. stage'[s] = "gone" /\ members' = members
      BY <1>6, <2>3 DEF TypeOK, Subscribe
    <3>2. \A q \in Subscribers : stage'[q] = "open" => q # s /\ stage[q] = "open"
      BY <2>1, <3>1
    <3>3. \A t \in Trackers : \A q \in members[t] : q \in Subscribers /\ q # s
      BY <2>2 DEF TypeOK
    <3>4. OpenIffMember'
      BY <2>1, <3>1, <3>2, <3>3 DEF OpenIffMember
    <3>5. Fresh'
      BY <2>1, <3>1, <3>2 DEF Fresh
    <3> QED
      BY <3>4, <3>5
  <2>4. CASE phase[of[s]] # "finished"
    <3>1. /\ stage'[s] = "open"
          /\ members' = [members EXCEPT ![of[s]] = members[of[s]] \cup {s}]
      BY <1>6, <2>4 DEF TypeOK, Subscribe
    <3>2. /\ members'[of[s]] = members[of[s]] \cup {s}
          /\ \A t \in Trackers \ {of[s]} : members'[t] = members[t]
      BY <2>1, <3>1 DEF TypeOK
    <3>3. \A q \in Subscribers : stage[q] = "open" => of[q] \in Trackers
      BY DEF TypeOK
    <3>4. \A t \in Trackers : \A q \in members'[t] :
            (q = s /\ t = of[s]) \/ (q \in Subscribers \ {s} /\ q \in members[t])
      <4>1. \A t \in Trackers : members[t] \subseteq Subscribers
        BY DEF TypeOK
      <4>2. ASSUME NEW t \in Trackers, NEW q \in members'[t]
            PROVE  (q = s /\ t = of[s]) \/ (q \in Subscribers \ {s} /\ q \in members[t])
        <5>1. CASE t = of[s]
          BY <2>2, <3>2, <4>1, <4>2, <5>1
        <5>2. CASE t # of[s]
          BY <2>2, <3>2, <4>1, <4>2, <5>2
        <5> QED
          BY <5>1, <5>2
      <4> QED
        BY <4>2
    <3>5. \A q \in Subscribers \ {s} :
            /\ stage'[q] = stage[q] /\ of'[q] = of[q] /\ closed'[q] = closed[q]
            /\ \A t \in Trackers : q \in members'[t] <=> q \in members[t]
      BY <2>1, <3>2
    <3>6. OpenIffMember'
      <4>1. ASSUME NEW q \in Subscribers, stage'[q] = "open"
            PROVE  /\ ~closed'[q] <=> q \in members'[of'[q]]
                   /\ phase'[of'[q]] = "finished" => closed'[q]
        <5>1. CASE q = s
          BY <2>1, <2>2, <2>4, <3>2, <5>1
        <5>2. CASE q # s
          BY <2>1, <3>3, <3>5, <4>1, <5>2 DEF OpenIffMember
        <5> QED
          BY <5>1, <5>2
      <4>2. \A t \in Trackers : \A q \in members'[t] : stage'[q] = "open" /\ of'[q] = t
        BY <2>1, <3>1, <3>4 DEF OpenIffMember
      <4> QED
        BY <4>1, <4>2 DEF OpenIffMember
    <3>7. Fresh'
      BY <2>1, <2>2, <3>1 DEF Fresh
    <3> QED
      BY <3>6, <3>7
  <2> QED
    BY <2>3, <2>4
<1>7. ASSUME NEW s \in Subscribers, Receive(s)
      PROVE  OpenIffMember' /\ Fresh'
  <2>1. /\ stage[s] = "open" /\ UNCHANGED <<phase, members, closed, stage, of>>
        /\ \A q \in Subscribers \ {s} : ch'[q] = ch[q] /\ seen'[q] = seen[q]
    BY <1>7 DEF TypeOK, Receive, trackerVars
  <2> QED
    BY <2>1 DEF OpenIffMember, Fresh
<1>8. ASSUME NEW s \in Subscribers, Unsubscribe(s)
      PROVE  OpenIffMember' /\ Fresh'
  <2>1. /\ stage[s] = "open" /\ stage'[s] = "gone" /\ of[s] \in Trackers
        /\ \A q \in Subscribers \ {s} : stage'[q] = stage[q]
        /\ UNCHANGED <<phase, ch, of, seen>>
    BY <1>8 DEF TypeOK, Unsubscribe
  <2>2. \A q \in Subscribers \ {s} : closed'[q] = closed[q]
    BY <1>8 DEF TypeOK, Unsubscribe
  <2>3. /\ members'[of[s]] = members[of[s]] \ {s}
        /\ \A t \in Trackers \ {of[s]} : members'[t] = members[t]
    <3>1. CASE phase[of[s]] = "finished" \/ s \notin members[of[s]]
      <4>1. s \notin members[of[s]] /\ members' = members
        BY <1>8, <2>1, <3>1 DEF OpenIffMember, Unsubscribe
      <4> QED
        BY <2>1, <4>1 DEF TypeOK
    <3>2. CASE ~(phase[of[s]] = "finished" \/ s \notin members[of[s]])
      BY <1>8, <2>1, <3>2 DEF TypeOK, Unsubscribe
    <3> QED
      BY <3>1, <3>2
  <2>4. \A t \in Trackers : s \in members[t] => t = of[s]
    BY DEF OpenIffMember
  <2>5. \A q \in Subscribers : stage[q] = "open" => of[q] \in Trackers
    BY DEF TypeOK
  <2>6. \A t \in Trackers : members'[t] = members[t] \ {s}
    BY <2>3, <2>4
  <2>7. \A q \in Subscribers : stage'[q] = "open" => q # s /\ stage[q] = "open"
    BY <2>1
  <2>8. \A t \in Trackers : \A q \in members'[t] : q \in Subscribers \ {s} /\ q \in members[t]
    BY <2>6 DEF TypeOK
  <2>9. OpenIffMember'
    BY <2>1, <2>2, <2>5, <2>6, <2>7, <2>8 DEF OpenIffMember
  <2>10. Fresh'
    BY <2>1, <2>2 DEF Fresh
  <2> QED
    BY <2>9, <2>10
<1>9. CASE UNCHANGED vars
  BY <1>9 DEF OpenIffMember, Fresh, vars, trackerVars, channelVars, subscriberVars
<1>10. CASE Next
  <2>1. CASE \E t \in Trackers : Start(t) \/ Unmap(t) \/ Finish(t)
    BY <2>1, <1>1, <1>2
  <2>2. CASE \E p \in Reporters : LookUpToReport(p) \/ Update(p)
    BY <2>2, <1>3, <1>4
  <2>3. CASE \E s \in Subscribers : \/ LookUpToSubscribe(s) \/ Subscribe(s)
                                    \/ Receive(s) \/ Unsubscribe(s)
    BY <2>3, <1>5, <1>6, <1>7, <1>8
  <2> QED
    BY <1>10, <2>1, <2>2, <2>3 DEF Next
<1> QED
  BY <1>9, <1>10

\* Whatever the interleaving, a subscriber's channel is open exactly while its
\* tracker has it and will close it.
THEOREM NobodyIsLeftWaiting == Spec => []OpenIffMember
<1>1. Init => TypeOK /\ OpenIffMember /\ Fresh
  BY TypeInit, MemberInit
<1>2. TypeOK /\ OpenIffMember /\ Fresh /\ [Next]_vars
        => (TypeOK /\ OpenIffMember /\ Fresh)'
  BY TypeStep, MemberStep
<1> QED
  BY <1>1, <1>2, PTL DEF Spec

-----------------------------------------------------------------------------
(* What a subscriber sees. *)

\* The strengthening of ProgressGrows that survives an empty channel.
SeenIsPast == \A s \in Subscribers : of[s] # None => seen[s] <= progress[of[s]]

\* What a subscriber sees stays in order in a step that touches neither its
\* channel nor what it has looked up, and takes no progress away.
LEMMA UntouchedGrows ==
  ASSUME TypeOK, ProgressGrows, SeenIsPast, NEW s \in Subscribers,
         of[s] \in Trackers, UNCHANGED <<ch[s], seen[s], of[s]>>,
         progress'[of[s]] \in Nat, progress[of[s]] <= progress'[of[s]]
  PROVE  /\ \A i \in 1..Len(ch'[s]) : /\ seen'[s] < ch'[s][i]
                                      /\ ch'[s][i] <= progress'[of'[s]]
         /\ \A i, j \in 1..Len(ch'[s]) : i < j => ch'[s][i] < ch'[s][j]
         /\ seen'[s] <= progress'[of'[s]]
<1>1. /\ ch[s] \in Seq(Nat) /\ seen[s] \in Nat /\ progress[of[s]] \in Nat
      /\ of[s] # None
  BY ProgressAssumption DEF TypeOK
<1>2. \A i \in 1..Len(ch[s]) : ch[s][i] \in Nat
  BY <1>1
<1>3. /\ \A i \in 1..Len(ch[s]) : seen[s] < ch[s][i] /\ ch[s][i] <= progress[of[s]]
      /\ \A i, j \in 1..Len(ch[s]) : i < j => ch[s][i] < ch[s][j]
      /\ seen[s] <= progress[of[s]]
  BY <1>1 DEF ProgressGrows, SeenIsPast
<1>4. /\ \A i \in 1..Len(ch[s]) : seen[s] < ch[s][i] /\ ch[s][i] <= progress'[of[s]]
      /\ seen[s] <= progress'[of[s]]
  <2>1. ASSUME NEW k \in Nat, k <= progress[of[s]]
        PROVE  k <= progress'[of[s]]
    BY <1>1, <2>1
  <2> QED
    BY <1>1, <1>2, <1>3, <2>1
<1>5. ch'[s] = ch[s] /\ seen'[s] = seen[s] /\ of'[s] = of[s]
  OBVIOUS
<1> QED
  BY <1>3, <1>4, <1>5

\* A subscriber that has not looked a tracker up, or gets no update, keeps its
\* part of both invariants when all it depends on is unchanged.
LEMMA GrowsWhenUnchanged ==
  ASSUME TypeOK, ProgressGrows, SeenIsPast, UNCHANGED <<progress, ch, seen>>,
         \A s \in Subscribers : of'[s] = of[s] \/ (ch[s] = <<>> /\ seen[s] = 0),
         of' \in [Subscribers -> Trackers \cup {None}]
  PROVE  ProgressGrows' /\ SeenIsPast'
<1>1. ASSUME NEW s \in Subscribers
      PROVE  /\ \A i \in 1..Len(ch'[s]) : /\ seen'[s] < ch'[s][i]
                                          /\ ch'[s][i] <= progress'[of'[s]]
             /\ \A i, j \in 1..Len(ch'[s]) : i < j => ch'[s][i] < ch'[s][j]
             /\ of'[s] # None => seen'[s] <= progress'[of'[s]]
  <2>1. CASE of'[s] = of[s]
    BY <2>1 DEF ProgressGrows, SeenIsPast
  <2>2. CASE ch[s] = <<>> /\ seen[s] = 0
    <3>1. of'[s] # None => progress[of'[s]] \in Nat
      BY DEF TypeOK
    <3> QED
      BY <2>2, <3>1
  <2> QED
    BY <2>1, <2>2
<1> QED
  BY <1>1 DEF ProgressGrows, SeenIsPast

\* Every operation keeps what was seen below what is buffered.
LEMMA GrowStep ==
  ASSUME TypeOK, OpenIffMember, Fresh, ProgressGrows, SeenIsPast, [Next]_vars
  PROVE  ProgressGrows' /\ SeenIsPast'
<1> USE ProgressAssumption
<1> DEFINE Ordered(s) == /\ \A i \in 1..Len(ch'[s]) : /\ seen'[s] < ch'[s][i]
                                                     /\ ch'[s][i] <= progress'[of'[s]]
                         /\ \A i, j \in 1..Len(ch'[s]) : i < j => ch'[s][i] < ch'[s][j]
                         /\ of'[s] # None => seen'[s] <= progress'[of'[s]]
<1>1. SUFFICES \A s \in Subscribers : Ordered(s)
  BY <1>1 DEF ProgressGrows, SeenIsPast
<1>2. TypeOK'
  BY TypeStep
<1>3. of' \in [Subscribers -> Trackers \cup {None}]
  BY <1>2 DEF TypeOK
<1>4. ASSUME UNCHANGED <<progress, ch, seen, of>>
      PROVE  \A s \in Subscribers : Ordered(s)
  BY <1>3, <1>4, GrowsWhenUnchanged DEF ProgressGrows, SeenIsPast
<1>5. ASSUME NEW s \in Subscribers, LookUpToSubscribe(s)
      PROVE  \A q \in Subscribers : Ordered(q)
  <2>1. UNCHANGED <<progress, ch, seen>>
    BY <1>5 DEF LookUpToSubscribe, trackerVars, channelVars
  <2>2. \A q \in Subscribers : of'[q] = of[q] \/ (ch[q] = <<>> /\ seen[q] = 0)
    BY <1>5 DEF TypeOK, LookUpToSubscribe, Fresh
  <2> QED
    BY <1>3, <2>1, <2>2, GrowsWhenUnchanged DEF ProgressGrows, SeenIsPast
<1>6. ASSUME NEW s \in Subscribers, Subscribe(s)
      PROVE  \A q \in Subscribers : Ordered(q)
  <2>1. /\ of[s] \in Trackers /\ progress[of[s]] \in Nat
        /\ ch[s] = <<>> /\ seen[s] = 0 /\ ~closed[s]
        /\ UNCHANGED <<progress, of, seen>>
        /\ \A q \in Subscribers \ {s} : ch'[q] = ch[q]
    BY <1>6 DEF TypeOK, Fresh, Subscribe, SendAll
  <2>2. ch'[s] = <<>> \/ (progress[of[s]] # 0 /\ ch'[s] = Pushed(<<>>, progress[of[s]]))
    BY <1>6, <2>1 DEF Subscribe, SendAll
  <2>3. Ordered(s)
    <3>1. CASE ch'[s] = <<>>
      BY <2>1, <3>1
    <3>2. CASE progress[of[s]] # 0 /\ ch'[s] = Pushed(<<>>, progress[of[s]])
      <4>1. ch'[s] = <<progress[of[s]]>>
        BY <3>2 DEF Pushed
      <4> QED
        BY <2>1, <3>2, <4>1
    <3> QED
      BY <2>2, <3>1, <3>2
  <2>4. \A q \in Subscribers \ {s} : Ordered(q)
    BY <2>1 DEF ProgressGrows, SeenIsPast
  <2> QED
    BY <2>3, <2>4
<1>7. ASSUME NEW p \in Reporters, Update(p)
      PROVE  \A q \in Subscribers : Ordered(q)
  <2> DEFINE t == reporting[p]
  <2>1. t \in Trackers /\ progress[t] \in Nat /\ UNCHANGED <<of, seen>>
    BY <1>7 DEF TypeOK, Update, subscriberVars
  <2>2. CASE phase[t] = "finished"
    BY <1>4, <1>7, <2>1, <2>2 DEF Update
  <2>3. CASE phase[t] # "finished"
    <3>1. progress' = [progress EXCEPT ![t] = progress[t] + 1]
      BY <1>7, <2>3 DEF Update
    <3>2. /\ progress'[t] = progress[t] + 1
          /\ \A u \in Trackers \ {t} : progress'[u] = progress[u]
      BY <2>1, <3>1 DEF TypeOK
    <3>3. \A u \in Trackers : /\ progress[u] \in Nat /\ progress'[u] \in Nat
                              /\ progress[u] <= progress'[u]
      BY <2>1, <3>2 DEF TypeOK
    <3>4. ASSUME NEW q \in Subscribers, q \in members[t], ~closed[q]
          PROVE  Ordered(q)
      <4>1. of[q] = t /\ ch'[q] = Pushed(ch[q], progress[t] + 1)
        <5>1. of[q] = t
          BY <2>1, <3>4 DEF OpenIffMember
        <5>2. SendAll(members[t], progress[t] + 1)
          BY <1>7, <2>3 DEF Update
        <5>3. ch'[q] = Pushed(ch[q], progress[t] + 1)
          BY <3>4, <5>2 DEF SendAll
        <5> QED
          BY <5>1, <5>3
      <4>2. /\ ch[q] \in Seq(Nat) /\ seen[q] \in Nat /\ t # None
        BY <2>1 DEF TypeOK
      <4>3. /\ seen[q] <= progress[t]
            /\ \A i \in 1..Len(ch[q]) : seen[q] < ch[q][i] /\ ch[q][i] <= progress[t]
            /\ \A i, j \in 1..Len(ch[q]) : i < j => ch[q][i] < ch[q][j]
        BY <4>1, <4>2 DEF ProgressGrows, SeenIsPast
      <4>4. seen[q] < progress[t] + 1 /\ progress[t] < progress[t] + 1
        BY <2>1, <4>2, <4>3
      <4>5. /\ \A i \in 1..Len(ch'[q]) : /\ seen[q] < ch'[q][i]
                                         /\ ch'[q][i] <= progress[t] + 1
            /\ \A i, j \in 1..Len(ch'[q]) : i < j => ch'[q][i] < ch'[q][j]
        <5>1. progress[t] + 1 \in Nat
          BY <2>1
        <5> HIDE DEF t
        <5> QED
          BY <2>1, <4>1, <4>2, <4>3, <4>4, <5>1, PushedGrows
      <4> QED
        BY <2>1, <3>2, <4>1, <4>2, <4>3, <4>5
    <3>5. ASSUME NEW q \in Subscribers, ~(q \in members[t] /\ ~closed[q])
          PROVE  Ordered(q)
      <4>1. ch'[q] = ch[q]
        BY <1>7, <2>3, <3>5 DEF Update, SendAll
      <4>2. CASE of[q] = None
        <5>1. ch[q] = <<>>
          BY <4>2 DEF TypeOK, Fresh
        <5> QED
          BY <2>1, <4>1, <4>2, <5>1
      <4>3. CASE of[q] # None
        <5>1. of[q] \in Trackers
          BY <4>3 DEF TypeOK
        <5> QED
          BY <2>1, <3>3, <4>1, <5>1, UntouchedGrows
      <4> QED
        BY <4>2, <4>3
    <3> QED
      BY <3>4, <3>5
  <2> QED
    BY <2>2, <2>3
<1>8. ASSUME NEW s \in Subscribers, Receive(s)
      PROVE  \A q \in Subscribers : Ordered(q)
  <2>1. /\ UNCHANGED <<progress, of>>
        /\ ch'[s] = Tail(ch[s]) /\ seen'[s] = Head(ch[s])
        /\ \A q \in Subscribers \ {s} : ch'[q] = ch[q] /\ seen'[q] = seen[q]
    BY <1>8 DEF TypeOK, Receive, trackerVars
  <2>2. /\ ch[s] \in Seq(Nat) /\ ch[s] # <<>>
        /\ of[s] \in Trackers /\ progress[of[s]] \in Nat
    BY <1>8 DEF TypeOK, Receive
  <2>3. /\ Len(ch[s]) \in Nat /\ Len(ch[s]) >= 1
        /\ Head(ch[s]) = ch[s][1]
        /\ Len(Tail(ch[s])) = Len(ch[s]) - 1
        /\ \A i \in 1..(Len(ch[s]) - 1) : Tail(ch[s])[i] = ch[s][i + 1]
    BY <2>2
  <2>4. /\ \A i \in 1..Len(ch[s]) : ch[s][i] <= progress[of[s]]
        /\ \A i, j \in 1..Len(ch[s]) : i < j => ch[s][i] < ch[s][j]
    BY DEF ProgressGrows
  <2>5. Ordered(s)
    BY <2>1, <2>2, <2>3, <2>4
  <2>6. \A q \in Subscribers \ {s} : Ordered(q)
    BY <2>1 DEF ProgressGrows, SeenIsPast
  <2> QED
    BY <2>5, <2>6
<1>9. CASE UNCHANGED vars
  BY <1>4, <1>9 DEF vars, trackerVars, channelVars, subscriberVars
<1>10. CASE Next
  <2>1. CASE \E t \in Trackers : Start(t) \/ Unmap(t) \/ Finish(t)
    BY <2>1, <1>4 DEF Start, Unmap, Finish, channelVars, subscriberVars
  <2>2. CASE \E p \in Reporters : LookUpToReport(p) \/ Update(p)
    BY <2>2, <1>4, <1>7 DEF LookUpToReport, trackerVars, channelVars, subscriberVars
  <2>3. CASE \E s \in Subscribers : \/ LookUpToSubscribe(s) \/ Subscribe(s)
                                    \/ Receive(s) \/ Unsubscribe(s)
    BY <2>3, <1>4, <1>5, <1>6, <1>8 DEF Unsubscribe
  <2> QED
    BY <1>10, <2>1, <2>2, <2>3 DEF Next
<1> QED
  BY <1>9, <1>10

\* A subscriber sees progress grow, whatever is dropped and however late it
\* came, for every buffer size and number of concurrent callbacks.
THEOREM ProgressNeverGoesBack == Spec => []ProgressGrows
<1>1. Init => TypeOK /\ OpenIffMember /\ Fresh /\ ProgressGrows /\ SeenIsPast
  <2>1. Init => ProgressGrows /\ SeenIsPast
    BY DEF Init, ProgressGrows, SeenIsPast
  <2> QED
    BY <2>1, TypeInit, MemberInit
<1>2. TypeOK /\ OpenIffMember /\ Fresh /\ ProgressGrows /\ SeenIsPast /\ [Next]_vars
        => (TypeOK /\ OpenIffMember /\ Fresh /\ ProgressGrows /\ SeenIsPast)'
  BY TypeStep, MemberStep, GrowStep
<1> QED
  BY <1>1, <1>2, PTL DEF Spec

-----------------------------------------------------------------------------
(* Which update a subscriber was sent last. *)

\* Every operation leaves subscribers with the latest progress, or drops it.
LEMMA LatestStep ==
  ASSUME TypeOK, OpenIffMember, Fresh, LatestIsSent, [Next]_vars
  PROVE  LatestIsSent'
<1> USE ProgressAssumption
<1> DEFINE Latest(q) == (stage'[q] = "open" /\ ~missed'[q])
                          => LastSent(q)' = progress'[of'[q]]
<1>1. SUFFICES \A q \in Subscribers : Latest(q)
  BY <1>1 DEF LatestIsSent
<1>2. ASSUME NEW q \in Subscribers, UNCHANGED <<ch[q], seen[q], missed[q], of[q]>>,
             stage'[q] = "open" => stage[q] = "open" /\ progress'[of[q]] = progress[of[q]]
      PROVE  Latest(q)
  BY <1>2 DEF LatestIsSent, LastSent
<1>3. ASSUME NEW s \in Subscribers, LookUpToSubscribe(s)
      PROVE  \A q \in Subscribers : Latest(q)
  <2>1. /\ UNCHANGED <<progress, ch, seen, missed>> /\ stage'[s] = "found"
        /\ \A q \in Subscribers \ {s} : stage'[q] = stage[q] /\ of'[q] = of[q]
    BY <1>3 DEF TypeOK, LookUpToSubscribe, trackerVars, channelVars
  <2> QED
    BY <1>2, <2>1
<1>4. ASSUME NEW s \in Subscribers, Subscribe(s)
      PROVE  \A q \in Subscribers : Latest(q)
  <2>1. /\ of[s] \in Trackers /\ progress[of[s]] \in Nat
        /\ ch[s] = <<>> /\ seen[s] = 0 /\ ~closed[s]
        /\ UNCHANGED <<progress, of, seen>>
        /\ \A q \in Subscribers \ {s} : /\ ch'[q] = ch[q] /\ missed'[q] = missed[q]
                                        /\ stage'[q] = stage[q]
    BY <1>4 DEF TypeOK, Fresh, Subscribe, SendAll
  <2>2. Latest(s)
    <3>1. CASE phase[of[s]] = "finished"
      BY <1>4, <3>1 DEF TypeOK, Subscribe
    <3>2. CASE phase[of[s]] # "finished" /\ progress[of[s]] = 0
      BY <1>4, <2>1, <3>2 DEF Subscribe, LastSent
    <3>3. CASE phase[of[s]] # "finished" /\ progress[of[s]] # 0
      <4>1. ch'[s] = Pushed(<<>>, progress[of[s]])
        BY <1>4, <2>1, <3>3 DEF Subscribe, SendAll
      <4>2. ch'[s] = <<progress[of[s]]>>
        BY <4>1 DEF Pushed
      <4> QED
        BY <2>1, <4>2 DEF LastSent
    <3> QED
      BY <3>1, <3>2, <3>3
  <2> QED
    BY <1>2, <2>1, <2>2
<1>5. ASSUME NEW p \in Reporters, Update(p)
      PROVE  \A q \in Subscribers : Latest(q)
  <2> DEFINE t == reporting[p]
  <2>1. t \in Trackers /\ progress[t] \in Nat /\ UNCHANGED <<stage, of, seen>>
    BY <1>5 DEF TypeOK, Update, subscriberVars
  <2>2. CASE phase[t] = "finished"
    <3>1. UNCHANGED <<progress, ch, missed>>
      BY <1>5, <2>2 DEF Update
    <3> QED
      BY <1>2, <2>1, <3>1
  <2>3. CASE phase[t] # "finished"
    <3>1. SendAll(members[t], progress[t] + 1)
      BY <1>5, <2>3 DEF Update
    <3>2. /\ progress'[t] = progress[t] + 1
          /\ \A u \in Trackers \ {t} : progress'[u] = progress[u]
      BY <1>5, <2>1, <2>3 DEF TypeOK, Update
    <3>3. ASSUME NEW q \in Subscribers, q \in members[t], ~closed[q]
          PROVE  Latest(q)
      <4>1. of'[q] = t
        BY <2>1, <3>3 DEF OpenIffMember
      <4>2. /\ ch'[q] = Pushed(ch[q], progress[t] + 1)
            /\ missed'[q] <=> Len(ch[q]) >= Buffer
        BY <3>1, <3>3 DEF SendAll
      <4>3. ch[q] \in Seq(Nat) /\ Len(ch[q]) \in Nat
        BY DEF TypeOK
      <4>4. CASE Len(ch[q]) < Buffer
        <5>1. ch'[q] = Append(ch[q], progress[t] + 1)
          BY <4>2, <4>4 DEF Pushed
        <5>2. /\ ch'[q] # <<>>
              /\ ch'[q][Len(ch'[q])] = progress[t] + 1
          BY <2>1, <4>3, <5>1
        <5> QED
          BY <3>2, <4>1, <5>2 DEF LastSent
      <4>5. CASE Len(ch[q]) >= Buffer
        BY <4>2, <4>5
      <4> QED
        BY <4>3, <4>4, <4>5
    <3>4. ASSUME NEW q \in Subscribers, ~(q \in members[t] /\ ~closed[q])
          PROVE  Latest(q)
      <4>1. ch'[q] = ch[q] /\ missed'[q] = missed[q]
        BY <3>1, <3>4 DEF SendAll
      <4>2. stage[q] = "open" => of[q] \in Trackers \ {t}
        BY <2>3, <3>4 DEF TypeOK, OpenIffMember, Fresh
      <4> QED
        BY <1>2, <2>1, <3>2, <4>1, <4>2
    <3> QED
      BY <3>3, <3>4
  <2> QED
    BY <2>2, <2>3
<1>6. ASSUME NEW s \in Subscribers, Receive(s)
      PROVE  \A q \in Subscribers : Latest(q)
  <2>1. /\ UNCHANGED <<progress, of, stage, missed>>
        /\ ch'[s] = Tail(ch[s]) /\ seen'[s] = Head(ch[s])
        /\ \A q \in Subscribers \ {s} : ch'[q] = ch[q] /\ seen'[q] = seen[q]
    BY <1>6 DEF TypeOK, Receive, trackerVars
  <2>2. ch[s] \in Seq(Nat) /\ ch[s] # <<>>
    BY <1>6 DEF TypeOK, Receive
  <2>3. /\ Len(ch[s]) \in Nat /\ Len(ch[s]) >= 1
        /\ Head(ch[s]) = ch[s][1]
        /\ Len(Tail(ch[s])) = Len(ch[s]) - 1
        /\ \A i \in 1..(Len(ch[s]) - 1) : Tail(ch[s])[i] = ch[s][i + 1]
    BY <2>2
  <2>4. LastSent(s)' = LastSent(s)
    <3>1. CASE Len(ch[s]) = 1
      <4>1. Tail(ch[s]) \in Seq(Nat) /\ Len(Tail(ch[s])) = 0
        BY <2>2, <2>3, <3>1
      <4>2. Tail(ch[s]) = <<>>
        BY <4>1, EmptySeq
      <4> QED
        BY <2>1, <2>2, <2>3, <3>1, <4>2 DEF LastSent
    <3>2. CASE Len(ch[s]) > 1
      <4>1. Tail(ch[s]) # <<>>
        BY <2>3, <3>2
      <4>2. Tail(ch[s])[Len(ch[s]) - 1] = ch[s][Len(ch[s])]
        BY <2>3, <3>2
      <4> QED
        BY <2>1, <2>2, <2>3, <4>1, <4>2 DEF LastSent
    <3>3. Len(ch[s]) = 1 \/ Len(ch[s]) > 1
      <4>1. \A n \in Nat : n >= 1 => n = 1 \/ n > 1
        OBVIOUS
      <4> QED
        BY <2>3, <4>1
    <3> QED
      BY <3>1, <3>2, <3>3
  <2>5. Latest(s)
    BY <2>1, <2>4 DEF LatestIsSent
  <2> QED
    BY <1>2, <2>1, <2>5
<1>7. ASSUME NEW s \in Subscribers, Unsubscribe(s)
      PROVE  \A q \in Subscribers : Latest(q)
  <2>1. /\ UNCHANGED <<progress, ch, missed, of, seen>> /\ stage'[s] = "gone"
        /\ \A q \in Subscribers \ {s} : stage'[q] = stage[q]
    BY <1>7 DEF TypeOK, Unsubscribe
  <2> QED
    BY <1>2, <2>1
<1>8. ASSUME UNCHANGED <<progress, ch, missed, stage, of, seen>>
      PROVE  \A q \in Subscribers : Latest(q)
  BY <1>2, <1>8
<1>9. CASE UNCHANGED vars
  BY <1>8, <1>9 DEF vars, trackerVars, channelVars, subscriberVars
<1>10. CASE Next
  <2>1. CASE \E t \in Trackers : Start(t) \/ Unmap(t) \/ Finish(t)
    BY <2>1, <1>8 DEF Start, Unmap, Finish, channelVars, subscriberVars
  <2>2. CASE \E p \in Reporters : LookUpToReport(p) \/ Update(p)
    BY <2>2, <1>5, <1>8 DEF LookUpToReport, trackerVars, channelVars, subscriberVars
  <2>3. CASE \E s \in Subscribers : \/ LookUpToSubscribe(s) \/ Subscribe(s)
                                    \/ Receive(s) \/ Unsubscribe(s)
    BY <2>3, <1>3, <1>4, <1>6, <1>7
  <2> QED
    BY <1>10, <2>1, <2>2, <2>3 DEF Next
<1> QED
  BY <1>9, <1>10

\* Unless the last update was dropped for want of room, a subscriber has the
\* latest progress or will receive it.
THEOREM LatestProgressIsSent == Spec => []LatestIsSent
<1>1. Init => TypeOK /\ OpenIffMember /\ Fresh /\ LatestIsSent
  <2>1. Init => LatestIsSent
    BY DEF Init, LatestIsSent
  <2> QED
    BY <2>1, TypeInit, MemberInit
<1>2. TypeOK /\ OpenIffMember /\ Fresh /\ LatestIsSent /\ [Next]_vars
        => (TypeOK /\ OpenIffMember /\ Fresh /\ LatestIsSent)'
  BY TypeStep, MemberStep, LatestStep
<1> QED
  BY <1>1, <1>2, PTL DEF Spec
=============================================================================
