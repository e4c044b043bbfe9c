--------------------------- MODULE QueryProgress ---------------------------
(***************************************************************************)
(* The in-memory tracker of query progress: ClickHouse's progress callbacks*)
(* report to it, HTTP handlers subscribe to it, and the goroutine that runs*)
(* the query starts and finishes it.  Everyone looks the queryTracker up   *)
(* under the map's lock and uses it later under the tracker's own lock, so *)
(* it may have finished, and the same id may have been started again, in   *)
(* between.                                                                *)
(*                                                                         *)
(* One query id; each successful start makes a new queryTracker.  Progress *)
(* is the number of updates the tracker has added up.                      *)
(***************************************************************************)
EXTENDS Integers, Sequences

CONSTANTS
  Trackers,     \* the queryTracker objects
  Subscribers,  \* HTTP requests for progress
  Reporters,    \* progress callbacks that may be under way at once
  Buffer,       \* capacity of a subscription's channel
  MaxUpdates,   \* bound on the updates of one tracker
  None          \* no tracker

ASSUME ProgressAssumption ==
  /\ Buffer \in Nat \ {0}
  /\ MaxUpdates \in Nat
  /\ None \notin Trackers

VARIABLES
  current,     \* the map's entry for the query id
  phase,       \* of each tracker: "new", "running", "unmapped", "finished"
  progress,    \* qt.progress, 0 while it is nil
  members,     \* qt.subscriptions
  reporting,   \* the tracker each callback has looked up, or None
  stage,       \* of each subscriber: "idle", "found", "open", "gone"
  of,          \* the tracker each subscriber has looked up
  ch,          \* the updates buffered in its channel
  closed,      \* whether its channel is closed
  seen,        \* history: the last update it received, 0 for none
  missed       \* history: whether the last send to it was dropped

trackerVars == <<current, phase, progress, members>>
channelVars == <<ch, closed, missed>>
subscriberVars == <<stage, of, seen>>
vars == <<trackerVars, channelVars, subscriberVars, reporting>>

Init ==
  /\ current = None
  /\ phase = [t \in Trackers |-> "new"]
  /\ progress = [t \in Trackers |-> 0]
  /\ members = [t \in Trackers |-> {}]
  /\ reporting = [p \in Reporters |-> None]
  /\ stage = [s \in Subscribers |-> "idle"]
  /\ of = [s \in Subscribers |-> None]
  /\ ch = [s \in Subscribers |-> <<>>]
  /\ closed = [s \in Subscribers |-> FALSE]
  /\ seen = [s \in Subscribers |-> 0]
  /\ missed = [s \in Subscribers |-> FALSE]

-----------------------------------------------------------------------------
(* The goroutine of the query. *)

\* ReportQueryStarted; it is refused while the id is in the map.
Start(t) ==
  /\ current = None
  /\ phase[t] = "new"
  /\ current' = t
  /\ phase' = [phase EXCEPT ![t] = "running"]
  /\ UNCHANGED <<progress, members, channelVars, subscriberVars, reporting>>

\* onQueryFinished, under the map's lock
Unmap(t) ==
  /\ current = t
  /\ current' = None
  /\ phase' = [phase EXCEPT ![t] = "unmapped"]
  /\ UNCHANGED <<progress, members, channelVars, subscriberVars, reporting>>

FinishLeavesOpen(t) ==
  /\ phase[t] = "unmapped"
  /\ phase' = [phase EXCEPT ![t] = "finished"]
  /\ UNCHANGED <<current, progress, members, channelVars, subscriberVars, reporting>>

\* onFinished, under the tracker's lock
Finish(t) ==
  /\ phase[t] = "unmapped"
  /\ phase' = [phase EXCEPT ![t] = "finished"]
  /\ closed' = [s \in Subscribers |-> closed[s] \/ s \in members[t]]
  /\ members' = [members EXCEPT ![t] = {}]
  /\ UNCHANGED <<current, progress, ch, missed, subscriberVars, reporting>>

-----------------------------------------------------------------------------
(* Progress callbacks. *)

PushedBeyondBuffer(c, n) == IF Len(c) <= Buffer THEN Append(c, n) ELSE c

\* send: an update that does not fit in the channel is dropped.
Pushed(c, n) == IF Len(c) < Buffer THEN Append(c, n) ELSE c

\* n is sent to every subscriber of S whose channel is open
SendAll(S, n) ==
  /\ ch' = [s \in Subscribers |->
              IF s \in S /\ ~closed[s] THEN Pushed(ch[s], n) ELSE ch[s]]
  /\ missed' = [s \in Subscribers |->
                  IF s \in S /\ ~closed[s] THEN Len(ch[s]) >= Buffer ELSE missed[s]]

\* getQueryTracker
LookUpToReport(p) ==
  /\ reporting[p] = None
  /\ current # None
  /\ reporting' = [reporting EXCEPT ![p] = current]
  /\ UNCHANGED <<trackerVars, channelVars, subscriberVars>>

UpdateSendsPrevious(p) ==
  /\ reporting[p] # None
  /\ LET t == reporting[p]
     IN  IF phase[t] = "finished"
         THEN UNCHANGED <<progress, ch, missed>>
         ELSE /\ progress[t] < MaxUpdates
              /\ progress' = [progress EXCEPT ![t] = @ + 1]
              /\ SendAll(members[t], progress[t])
  /\ reporting' = [reporting EXCEPT ![p] = None]
  /\ UNCHANGED <<current, phase, members, closed, subscriberVars>>

\* handleProgressUpdate; an update for a finished query is ignored.
Update(p) ==
  /\ reporting[p] # None
  /\ LET t == reporting[p]
     IN  IF phase[t] = "finished"
         THEN UNCHANGED <<progress, ch, missed>>
         ELSE /\ progress[t] < MaxUpdates
              /\ progress' = [progress EXCEPT ![t] = @ + 1]
              /\ SendAll(members[t], progress[t] + 1)
  /\ reporting' = [reporting EXCEPT ![p] = None]
  /\ UNCHANGED <<current, phase, members, closed, subscriberVars>>

-----------------------------------------------------------------------------
(* Subscribers. *)

\* getQueryTracker
LookUpToSubscribe(s) ==
  /\ stage[s] = "idle"
  /\ current # None
  /\ stage' = [stage EXCEPT ![s] = "found"]
  /\ of' = [of EXCEPT ![s] = current]
  /\ UNCHANGED <<trackerVars, channelVars, seen, reporting>>

SubscribeUnchecked(s) ==
  /\ stage[s] = "found"
  /\ stage' = [stage EXCEPT ![s] = "open"]
  /\ members' = [members EXCEPT ![of[s]] = @ \cup {s}]
  /\ IF progress[of[s]] # 0 THEN SendAll({s}, progress[of[s]])
                            ELSE UNCHANGED <<ch, missed>>
  /\ UNCHANGED <<current, phase, progress, closed, of, seen, reporting>>

SubscribeSilently(s) ==
  /\ stage[s] = "found"
  /\ IF phase[of[s]] = "finished"
     THEN /\ stage' = [stage EXCEPT ![s] = "gone"]
          /\ UNCHANGED members
     ELSE /\ stage' = [stage EXCEPT ![s] = "open"]
          /\ members' = [members EXCEPT ![of[s]] = @ \cup {s}]
  /\ UNCHANGED <<current, phase, progress, channelVars, of, seen, reporting>>

\* subscribe: refused if the query has finished; the progress so far is sent.
Subscribe(s) ==
  /\ stage[s] = "found"
  /\ IF phase[of[s]] = "finished"
     THEN /\ stage' = [stage EXCEPT ![s] = "gone"]
          /\ UNCHANGED <<members, ch, missed>>
     ELSE /\ stage' = [stage EXCEPT ![s] = "open"]
          /\ members' = [members EXCEPT ![of[s]] = @ \cup {s}]
          /\ IF progress[of[s]] # 0 THEN SendAll({s}, progress[of[s]])
                                    ELSE UNCHANGED <<ch, missed>>
  /\ UNCHANGED <<current, phase, progress, closed, of, seen, reporting>>

\* The handler receives an update and passes it on.
Receive(s) ==
  /\ stage[s] = "open"
  /\ ch[s] # <<>>
  /\ seen' = [seen EXCEPT ![s] = Head(ch[s])]
  /\ ch' = [ch EXCEPT ![s] = Tail(@)]
  /\ UNCHANGED <<trackerVars, closed, missed, stage, of, reporting>>

\* unsubscribe, when the channel is closed or the client has gone.
Unsubscribe(s) ==
  /\ stage[s] = "open"
  /\ stage' = [stage EXCEPT ![s] = "gone"]
  /\ IF phase[of[s]] = "finished" \/ s \notin members[of[s]]
     THEN UNCHANGED <<members, closed>>
     ELSE /\ closed' = [closed EXCEPT ![s] = TRUE]
          /\ members' = [members EXCEPT ![of[s]] = @ \ {s}]
  /\ UNCHANGED <<current, phase, progress, ch, missed, of, seen, reporting>>

-----------------------------------------------------------------------------
Next ==
  \/ \E t \in Trackers : Start(t) \/ Unmap(t) \/ Finish(t)
  \/ \E p \in Reporters : LookUpToReport(p) \/ Update(p)
  \/ \E s \in Subscribers : \/ LookUpToSubscribe(s) \/ Subscribe(s)
                            \/ Receive(s) \/ Unsubscribe(s)

\* The cleanup function is deferred by the query's goroutine, and a query ends.
Fairness == \A t \in Trackers : WF_vars(Unmap(t) \/ Finish(t))

Spec == Init /\ [][Next]_vars /\ Fairness

-----------------------------------------------------------------------------
(* Properties. *)

\* A channel never holds more than Buffer updates, and the map's entry is the
\* one tracker that is running.
TypeOK ==
  /\ current \in Trackers \cup {None}
  /\ phase \in [Trackers -> {"new", "running", "unmapped", "finished"}]
  /\ \A t \in Trackers : phase[t] = "running" <=> current = t
  /\ progress \in [Trackers -> Nat]
  /\ members \in [Trackers -> SUBSET Subscribers]
  /\ reporting \in [Reporters -> Trackers \cup {None}]
  /\ stage \in [Subscribers -> {"idle", "found", "open", "gone"}]
  /\ of \in [Subscribers -> Trackers \cup {None}]
  /\ \A s \in Subscribers : of[s] = None <=> stage[s] = "idle"
  /\ ch \in [Subscribers -> Seq(Nat)]
  /\ \A s \in Subscribers : Len(ch[s]) <= Buffer
  /\ closed \in [Subscribers -> BOOLEAN]
  /\ seen \in [Subscribers -> Nat]
  /\ missed \in [Subscribers -> BOOLEAN]

\* However the lookup and the use of a tracker interleave with its end, a
\* subscriber holds an open channel exactly while its query's tracker will
\* close it: nobody waits on a finished query, and nothing is ever sent on,
\* or closed again through, a channel that is closed ("Must not block or
\* panic in any scenario").
OpenIffMember ==
  /\ \A s \in Subscribers : stage[s] = "open" =>
       /\ ~closed[s] <=> s \in members[of[s]]
       /\ phase[of[s]] = "finished" => closed[s]
  /\ \A t \in Trackers : \A s \in members[t] : stage[s] = "open" /\ of[s] = t

\* A subscriber sees progress grow: what it has seen and what is buffered for
\* it is increasing, and never ahead of its own query's progress.
ProgressGrows ==
  \A s \in Subscribers :
    /\ \A i \in 1..Len(ch[s]) : seen[s] < ch[s][i] /\ ch[s][i] <= progress[of[s]]
    /\ \A i, j \in 1..Len(ch[s]) : i < j => ch[s][i] < ch[s][j]

\* The last update sent to s, received or not
LastSent(s) == IF ch[s] = <<>> THEN seen[s] ELSE ch[s][Len(ch[s])]

\* "instances representing the latest state of query progress stats": unless
\* the last update was dropped, a subscriber has it or will receive it, also
\* when it subscribed late.
LatestIsSent ==
  \A s \in Subscribers :
    (stage[s] = "open" /\ ~missed[s]) => LastSent(s) = progress[of[s]]

\* A subscriber's channel is closed in the end, once its query has.
ChannelCloses ==
  \A s \in Subscribers : (stage[s] = "open") ~> (closed[s] \/ stage[s] = "gone")
=============================================================================
