------------------------------ MODULE AlertRule -----------------------------
(***************************************************************************)
(* One alerting rule and the task that evaluates it: the state of each     *)
(* alert in Active, what is sent to the Alertmanager and when, and what is *)
(* written to the rule state history.  A cycle is two steps, Eval and      *)
(* SendAlerts, taken at every multiple of Frequency; the process may       *)
(* restart between any two steps and the rule may be edited between two    *)
(* cycles.  ThresholdRule and PromRule share this state machine.           *)
(***************************************************************************)
EXTENDS Integers

CONSTANTS
  Setups    \* the rules to look at, and what happens to each

\* One rule: what its definition says, and the bounds of its life.  A series is
\* the labels the query gives it and what the rule's own labels, which may be
\* templates of its value, add to them.
Setup == [series : SUBSET (STRING \X STRING), frequency : Nat \ {0}, resendDelay : Nat,
          retention : Nat, alertOnAbsent : BOOLEAN, absentFor : Nat,
          maxTicks : Nat, maxMisses : Nat, maxRestarts : Nat, maxEdits : Nat,
          notifyFails : BOOLEAN, historyReadFails : BOOLEAN,
          historyWriteFails : BOOLEAN]

ASSUME SetupAssumption == \A s \in Setups : s \in Setup

VARIABLES
  setup,          \* the rule that is looked at, fixed at the start
  now,            \* wall clock, in slots
  pc,             \* the task: "wait" for the next tick, "eval", "send"
  active,         \* r.Active
  lastData,       \* r.lastTimestampWithDatapoints
  handledRestart, \* r.handledRestart
  history,        \* the latest history row of each history fingerprint
  am,             \* the Alertmanager's end time for each alert it was sent
  misses,         \* consecutive cycles that did not complete
  resets,         \* [restart |-> .., edit |-> ..] so far
  dataAt,         \* ghost: when an evaluation last saw data
  lost,           \* ghost: whether rows were ever not saved
  blurred         \* ghost: history fingerprints at whose last change one alert
                  \* resolved while another with the same one was firing

vars == <<setup, now, pc, active, lastData, handledRestart, history, am, misses,
          resets, dataAt, lost, blurred>>

-----------------------------------------------------------------------------
(* The rule's definition and the bounds of its life. *)

Series            == setup.series         \* alerts its query can call for
Frequency         == setup.frequency      \* task frequency
ResendDelay       == setup.resendDelay    \* ManagerOptions.ResendDelay
Retention         == setup.retention      \* ruletypes.ResolvedRetention
AlertOnAbsent     == setup.alertOnAbsent  \* ruleCondition.AlertOnAbsent
AbsentFor         == setup.absentFor      \* ruleCondition.AbsentFor
MaxTicks          == setup.maxTicks       \* bound on time
MaxMisses         == setup.maxMisses      \* bound on consecutive cycles that fail or are skipped
MaxRestarts       == setup.maxRestarts    \* bound on restarts
MaxEdits          == setup.maxEdits       \* bound on edits
NotifyFails       == setup.notifyFails        \* TRUE when PutAlerts may fail
HistoryReadFails  == setup.historyReadFails   \* TRUE when reading the saved history may fail
HistoryWriteFails == setup.historyWriteFails  \* TRUE when writing rows to it may fail

-----------------------------------------------------------------------------
(* Times and fingerprints. *)

\* Go's zero time, earlier than every instant the program computes with.
Zero == 0
StartTime == ResendDelay + Retention + AbsentFor + 1

\* The alerts of the rule, by the hash of all their labels (lbs.Hash()).  A "no
\* data" alert is labelled with the time data was last seen.
FP == ({"series"} \X Series) \cup ({"absent"} \X (0..(StartTime + MaxTicks)))

NoLabels == ""

\* The history knows an alert by the query's labels only (QueryResultLables),
\* so alerts may share a row: those of one series under a label made from its
\* value, and the series of an ungrouped query with the "no data" alert of a
\* process that has not seen data, which both have no labels.
RowOf(fp) ==
  IF fp[1] = "series" THEN <<"labels", fp[2][1]>>
  ELSE IF fp[2] = Zero THEN <<"labels", NoLabels>>
  ELSE <<"seen", fp[2]>>

\* Never assigned from the rule definition, so the zero duration.
HoldDuration == 0

LongerOf(a, b) == IF a > b THEN a ELSE b

\* What is held for each fingerprint once the entries of new have been stored
\* over those of old
Updated(old, new) ==
  [fp \in DOMAIN old \cup DOMAIN new |-> IF fp \in DOMAIN new THEN new[fp] ELSE old[fp]]

Init ==
  /\ setup \in Setups
  /\ now = StartTime
  /\ pc = "wait"
  /\ active = <<>>
  /\ lastData = Zero
  /\ handledRestart = FALSE
  /\ history = <<>>
  /\ am = <<>>
  /\ misses = 0
  /\ resets = [restart |-> 0, edit |-> 0]
  /\ dataAt = Zero
  /\ lost = FALSE
  /\ blurred = {}

-----------------------------------------------------------------------------
(* Eval: the alert state machine. *)

\* arrivedAt is a ghost: when a post of the alert last arrived.
NewAlert == [state |-> "pending", activeAt |-> now, resolvedAt |-> Zero,
             lastSentAt |-> Zero, arrivedAt |-> Zero]

\* buildAndRunQuery: the alerts the query result calls for.  A rule that
\* alerts on absent data reports nothing else once AbsentFor has passed.
FoundBeforeAbsentFor(result, seen) ==
  IF AlertOnAbsent /\ seen # now
  THEN {<<"absent", seen>>}
  ELSE {"series"} \X result

Found(result, seen) ==
  IF AlertOnAbsent /\ seen + AbsentFor < now
  THEN {<<"absent", seen>>}
  ELSE {"series"} \X result

\* An alert already pending or firing keeps its entry; a resolved one is
\* replaced by a new pending alert.
MergedKeepsResolved(found) ==
  [fp \in DOMAIN active \cup found |->
     IF fp \in DOMAIN active THEN active[fp] ELSE NewAlert]

Merged(found) ==
  [fp \in DOMAIN active \cup found |->
     IF fp \in DOMAIN active /\ (fp \notin found \/ active[fp].state # "inactive")
     THEN active[fp] ELSE NewAlert]

\* Gone from the result and never fired, or resolved longer than Retention.
ForgetsAtOnce(a) ==
  a.state = "pending" \/ a.resolvedAt # Zero

Forgets(a) ==
  \/ a.state = "pending"
  \/ a.resolvedAt # Zero /\ now - a.resolvedAt > Retention

Resolves(a) == a.state # "inactive"

Fires(a) == a.state = "pending" /\ now - a.activeAt >= HoldDuration

EvaluatedForgetsResolvedAt(found) ==
  LET m == Merged(found)
  IN  [fp \in {f \in DOMAIN m : f \in found \/ ~Forgets(m[f])} |->
         IF fp \in found
         THEN IF Fires(m[fp]) THEN [m[fp] EXCEPT !.state = "firing"] ELSE m[fp]
         ELSE IF Resolves(m[fp]) THEN [m[fp] EXCEPT !.state = "inactive"]
              ELSE m[fp]]

\* r.Active after the evaluation
Evaluated(found) ==
  LET m == Merged(found)
  IN  [fp \in {f \in DOMAIN m : f \in found \/ ~Forgets(m[f])} |->
         IF fp \in found
         THEN IF Fires(m[fp]) THEN [m[fp] EXCEPT !.state = "firing"] ELSE m[fp]
         ELSE IF Resolves(m[fp])
              THEN [m[fp] EXCEPT !.state = "inactive", !.resolvedAt = now]
              ELSE m[fp]]

\* itemsToAdd: the state change of each alert that changed
Items(found) ==
  LET m == Merged(found)
      fired    == {fp \in found : Fires(m[fp])}
      resolved == {fp \in DOMAIN m \ found : Resolves(m[fp])}
  IN  [fp \in fired \cup resolved |->
         IF fp \in resolved THEN "inactive"
         ELSE IF fp[1] = "absent" THEN "nodata" ELSE "firing"]

\* r.State(): no alert in Active is ever "nodata"
OverallState(act) ==
  IF \E fp \in DOMAIN act : act[fp].state = "firing" THEN "firing"
  ELSE IF \E fp \in DOMAIN act : act[fp].state = "pending" THEN "pending"
  ELSE "inactive"

-----------------------------------------------------------------------------
(* RecordRuleStateHistory. *)

Alerting == {"firing", "nodata"}

Row(state, overall) == [state |-> state, overall |-> overall, at |-> now]

Rows(fps) == {RowOf(fp) : fp \in fps}

\* Of the items that share a history fingerprint one is kept: the first or the
\* last, in the order in which Active was iterated, which Go leaves open.
Kept(items) ==
  {kept \in [Rows(DOMAIN items) -> {"firing", "nodata", "inactive"}] :
     \A k \in DOMAIN kept : \E fp \in DOMAIN items : RowOf(fp) = k /\ items[fp] = kept[k]}

\* What the items leave blurred, where act is Active after the evaluation
Blurs(items, act) ==
  Rows({fp \in DOMAIN items :
          /\ items[fp] = "inactive"
          /\ \E other \in DOMAIN act : /\ RowOf(other) = RowOf(fp)
                                       /\ act[other].state = "firing"})

\* The rows GetLastSavedRuleStateHistory may return first (ORDER BY time DESC)
LatestRows == {k \in DOMAIN history :
                 \A other \in DOMAIN history : history[other].at <= history[k].at}

\* After a restart: saved states that differ from the new items are changed,
\* saved alerting states without an item are taken for resolved, and every
\* change gets the overall state of the changes if the first saved row's
\* overall state is another.
ReconciledIgnoringResolved(kept, overall, first) ==
  [k \in {f \in DOMAIN kept : f \notin DOMAIN history \/ history[f].state # kept[f]}
     |-> Row(kept[k], overall)]

Reconciled(kept, overall, first) ==
  LET saved    == DOMAIN history
      resolved == {k \in saved \ DOMAIN kept : history[k].state \in Alerting}
      changed  == {k \in saved \cap DOMAIN kept : history[k].state # kept[k]}
      new      == DOMAIN kept \ saved
      state    == [k \in resolved \cup changed \cup new |->
                     IF k \in resolved THEN "inactive" ELSE kept[k]]
      newState == IF \E k \in DOMAIN state : state[k] \in Alerting
                  THEN "firing" ELSE "inactive"
  IN  [k \in DOMAIN state |->
         Row(state[k], IF history[first].overall # newState THEN newState
                       ELSE IF k \in new THEN overall
                       ELSE history[k].overall)]

\* RecordRuleStateHistory; its caller ignores the error of a failed read, and
\* a failed write is only logged.
Record(items, overall) ==
  \/ /\ HistoryReadFails
     /\ lost' = TRUE
     /\ UNCHANGED <<handledRestart, history>>
  \/ \E kept \in Kept(items), first \in IF DOMAIN history = {} THEN {<<>>} ELSE LatestRows :
       LET rows == IF ~handledRestart /\ DOMAIN history # {}
                   THEN Reconciled(kept, overall, first)
                   ELSE [k \in DOMAIN kept |-> Row(kept[k], overall)]
       IN  /\ handledRestart' = TRUE
           /\ \/ history' = Updated(history, rows) /\ UNCHANGED lost
              \/ /\ HistoryWriteFails /\ DOMAIN rows # {}
                 /\ lost' = TRUE
                 /\ UNCHANGED history

-----------------------------------------------------------------------------
(* The task's cycle. *)

\* The ticker; an iteration in progress is waited for.
Tick ==
  /\ pc = "wait"
  /\ now < StartTime + MaxTicks
  /\ now' = now + 1
  /\ pc' = IF (now + 1 - StartTime) % Frequency = 0 THEN "eval" ELSE "wait"
  /\ UNCHANGED <<setup, active, lastData, handledRestart, history, am, misses, resets,
                 dataAt, lost, blurred>>

EvalRecordsPreviousState(hasData, result) ==
  /\ pc = "eval"
  /\ hasData \/ result = {}
  /\ lastData' = IF hasData THEN now ELSE lastData
  /\ dataAt' = IF hasData THEN now ELSE dataAt
  /\ LET found == Found(result, lastData')
     IN  /\ active' = Evaluated(found)
         /\ Record(Items(found), OverallState(active))
         /\ blurred' = (blurred \ Rows(DOMAIN Items(found))) \cup Blurs(Items(found), active')
  /\ pc' = "send"
  /\ UNCHANGED <<setup, now, am, misses, resets>>

\* The query answers: result holds the series past the threshold, which is
\* empty when there is no data at all.
Eval(hasData, result) ==
  /\ pc = "eval"
  /\ hasData \/ result = {}
  /\ lastData' = IF hasData THEN now ELSE lastData
  /\ dataAt' = IF hasData THEN now ELSE dataAt
  /\ LET found == Found(result, lastData')
     IN  /\ active' = Evaluated(found)
         /\ Record(Items(found), OverallState(active'))
         /\ blurred' = (blurred \ Rows(DOMAIN Items(found))) \cup Blurs(Items(found), active')
  /\ pc' = "send"
  /\ UNCHANGED <<setup, now, am, misses, resets>>

\* The query fails (or its panic is recovered), the task is paused or the
\* rule is in a maintenance window: neither Eval nor SendAlerts has effect.
NoEval ==
  /\ pc = "eval"
  /\ misses < MaxMisses
  /\ misses' = misses + 1
  /\ pc' = "wait"
  /\ UNCHANGED <<setup, now, active, lastData, handledRestart, history, am, resets,
                 dataAt, lost, blurred>>

NeedsSendingIgnoresResolved(a) ==
  /\ a.state # "pending"
  /\ a.lastSentAt + ResendDelay < now

\* Alert.NeedsSending
NeedsSending(a) ==
  /\ a.state # "pending"
  /\ a.resolvedAt > a.lastSentAt \/ a.lastSentAt + ResendDelay < now

ValidityOfOneInterval == 2 * LongerOf(ResendDelay, Frequency)

\* How long an alert is valid after it was sent
Validity == 4 * LongerOf(ResendDelay, Frequency)

\* ResolvedAt if it is set, ValidUntil otherwise
EndsAt(a) == IF a.resolvedAt # Zero THEN a.resolvedAt ELSE now + Validity

\* SendAlerts: what is due is marked as sent before it is handed to the
\* Alertmanager, so a failed PutAlerts is retried only after ResendDelay.
SendAlerts(delivered) ==
  /\ pc = "send"
  /\ LET due == {fp \in DOMAIN active : NeedsSending(active[fp])}
     IN  /\ active' = [fp \in DOMAIN active |->
                         IF fp \notin due THEN active[fp]
                         ELSE [active[fp] EXCEPT !.lastSentAt = now,
                                                 !.arrivedAt = IF delivered THEN now ELSE @]]
         /\ IF delivered
            THEN am' = Updated(am, [fp \in due |-> EndsAt(active[fp])]) /\ misses' = 0
            ELSE /\ NotifyFails /\ due # {} /\ misses < MaxMisses
                 /\ misses' = misses + 1
                 /\ UNCHANGED am
  /\ pc' = "wait"
  /\ UNCHANGED <<setup, now, lastData, handledRestart, history, resets, dataAt, lost,
                 blurred>>

\* The organization cannot be read: SendAlerts returns before it marks any.
OrgQueryFails ==
  /\ pc = "send"
  /\ misses < MaxMisses
  /\ misses' = misses + 1
  /\ pc' = "wait"
  /\ UNCHANGED <<setup, now, active, lastData, handledRestart, history, am, resets,
                 dataAt, lost, blurred>>

-----------------------------------------------------------------------------
(* Loss and transfer of the rule's memory. *)

\* The process restarts, or the rule is disabled and enabled again.
Restart ==
  /\ resets.restart < MaxRestarts
  /\ resets' = [resets EXCEPT !.restart = @ + 1]
  /\ pc' = "wait"
  /\ active' = <<>>
  /\ lastData' = Zero
  /\ handledRestart' = FALSE
  /\ blurred' = {}
  /\ UNCHANGED <<setup, now, history, am, misses, dataAt, lost>>

\* editTask for the same name and labels: Stop waits for the iteration, then
\* CopyState takes Active and handledRestart to a new rule, and only those.
Edit ==
  /\ pc = "wait"
  /\ resets.edit < MaxEdits
  /\ resets' = [resets EXCEPT !.edit = @ + 1]
  /\ lastData' = Zero
  /\ UNCHANGED <<setup, now, pc, active, handledRestart, history, am, misses, dataAt, lost, blurred>>

Next ==
  \/ Tick
  \/ \E hasData \in BOOLEAN, result \in SUBSET Series : Eval(hasData, result)
  \/ NoEval
  \/ \E delivered \in BOOLEAN : SendAlerts(delivered)
  \/ OrgQueryFails
  \/ Restart
  \/ Edit

Spec == Init /\ [][Next]_vars

-----------------------------------------------------------------------------
(* Properties. *)

Time == 0..(StartTime + MaxTicks)

AlertRecord == [state : {"pending", "firing", "inactive"}, activeAt : Time,
                resolvedAt : Time, lastSentAt : Time, arrivedAt : Time]
HistoryRow == [state : {"firing", "nodata", "inactive"},
               overall : {"firing", "pending", "inactive"}, at : Time]

\* The rule's memory, the history and the Alertmanager's view have their
\* types, and no resolved alert lacks the time at which it resolved.
TypeOK ==
  /\ setup \in Setups
  /\ now \in Time /\ pc \in {"wait", "eval", "send"}
  /\ DOMAIN active \subseteq FP /\ DOMAIN am \subseteq FP
  /\ DOMAIN history \subseteq Rows(FP) /\ blurred \subseteq Rows(FP)
  /\ \A fp \in DOMAIN active :
       /\ active[fp] \in AlertRecord
       /\ (active[fp].state = "inactive") <=> (active[fp].resolvedAt # Zero)
  /\ \A k \in DOMAIN history : history[k] \in HistoryRow
  /\ \A fp \in DOMAIN am : am[fp] \in Nat
  /\ lastData \in Time /\ dataAt \in Time /\ {handledRestart, lost} \subseteq BOOLEAN
  /\ misses \in 0..MaxMisses
  /\ resets \in [restart : 0..MaxRestarts, edit : 0..MaxEdits]

Firing(fp) == fp \in DOMAIN active /\ active[fp].state = "firing"

Live(fp) == fp \in DOMAIN am /\ am[fp] > now

\* The last post of the alert failed.
Unposted(a) == a.arrivedAt # a.lastSentAt

\* After a cycle that completed, the Alertmanager holds each alert the rule
\* keeps exactly as the rule does: firing as live, resolved as resolved.  Only
\* an alert whose last post failed may differ, and that for less than the
\* resend delay and one cycle more: SendAlerts has marked it as sent.
AlertmanagerAgrees ==
  (pc = "wait" /\ misses = 0) =>
    \A fp \in DOMAIN active :
      \/ fp \in DOMAIN am /\ (Live(fp) <=> Firing(fp))
      \/ Unposted(active[fp]) /\ now < active[fp].lastSentAt + ResendDelay + Frequency

\* An alert that the Alertmanager shows as firing, because this process posted
\* it, is not resolved by expiry while the rule keeps it firing: ValidUntil
\* outlives the resend cadence with a missed cycle to spare.  It takes two
\* cycles in a row that do not complete, or a failed post of a rule that is
\* evaluated no more slowly than alerts are resent (one is enough when the two
\* are the same, as they are by default).
NoSpuriousResolve ==
  [][\A fp \in DOMAIN am :
       (Live(fp) /\ Firing(fp) /\ active[fp].arrivedAt # Zero /\ Firing(fp)')
         => \/ Live(fp)'
            \/ misses >= 2
            \/ Unposted(active[fp]) /\ Frequency <= ResendDelay]_vars

\* An evaluation forgets an alert only when the Alertmanager no longer shows
\* it as firing ("keep it around for a given retention time so it is reported
\* as resolved to the AlertManager").  The exception needs an alert that stays
\* valid for longer than the retention, and no post that arrived in all of it.
ForgottenOnlyAfterResolved ==
  [][(pc = "eval" /\ pc' = "send") =>
       \A fp \in DOMAIN active \ DOMAIN active' :
         \/ ~Live(fp)
         \/ /\ Validity > Retention
            /\ active[fp].arrivedAt < active[fp].resolvedAt
            /\ active[fp].resolvedAt < now - Retention]_vars

\* Once a restart has been handled, and unless rows were not saved, the last
\* saved state of a history fingerprint is alerting exactly when an alert with
\* it is firing, although alerts share fingerprints and one row stands for
\* several changes.  Only where one alert resolved while another with its
\* fingerprint was firing (blurred) is it left open which was saved.  And a
\* process that has not restarted saved last the rule's overall state (a restart
\* computes it from the changed rows alone).
HistoryAgrees ==
  (handledRestart /\ ~lost) =>
    /\ \A k \in (DOMAIN history \cup Rows(DOMAIN active)) \ blurred :
         (k \in DOMAIN history /\ history[k].state \in Alerting)
           <=> (\E fp \in DOMAIN active : RowOf(fp) = k /\ Firing(fp))
    /\ resets.restart = 0 =>
         \A k \in LatestRows : history[k].overall = OverallState(active)

\* A "no data" alert is raised only when no evaluation has seen data for
\* AbsentFor ("if the data is missing for `For` duration").
NoDataOnlyAfterAbsentFor ==
  \A fp \in DOMAIN active :
    (fp[1] = "absent" /\ active[fp].state = "firing") =>
      active[fp].activeAt > dataAt + AbsentFor
=============================================================================
