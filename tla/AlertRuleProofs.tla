--------------------------- MODULE AlertRuleProofs --------------------------
(***************************************************************************)
(* Proofs about an alerting rule, for every definition of the rule and     *)
(* every course of its life: the types, the saved history and what the     *)
(* Alertmanager knows.                                                     *)
(***************************************************************************)
EXTENDS AlertRule, TLAPS

-----------------------------------------------------------------------------
(* The invariant. *)

\* A time at which the task evaluates the rule
Due(t) == (t - StartTime) % Frequency = 0

\* No alert stays pending, as there is no hold duration; an alert is sent
\* when a cycle is due, and once per cycle.
AlertInv(fp) ==
  /\ active[fp] \in AlertRecord
  /\ active[fp].state # "pending"
  /\ (active[fp].state = "inactive") <=> (active[fp].resolvedAt # Zero)
  /\ active[fp].resolvedAt <= now /\ active[fp].lastSentAt <= now
  /\ active[fp].lastSentAt # Zero =>
       Due(active[fp].lastSentAt) /\ StartTime <= active[fp].lastSentAt
  /\ pc # "wait" => active[fp].lastSentAt < now

RuleInv ==
  /\ TypeOK
  /\ StartTime <= now
  /\ pc # "wait" => Due(now)
  /\ \A fp \in DOMAIN active : AlertInv(fp)

-----------------------------------------------------------------------------
(* The rule's definition. *)

LEMMA SetupTypes ==
  ASSUME setup \in Setups
  PROVE  /\ Frequency \in Nat /\ Frequency > 0
         /\ ResendDelay \in Nat /\ Retention \in Nat /\ AbsentFor \in Nat
         /\ MaxTicks \in Nat /\ MaxMisses \in Nat /\ MaxRestarts \in Nat /\ MaxEdits \in Nat
         /\ StartTime \in Nat /\ StartTime > 0
BY SetupAssumption
   DEF Setup, Frequency, ResendDelay, Retention, AbsentFor, MaxTicks, MaxMisses,
       MaxRestarts, MaxEdits, StartTime

LEMMA SetupFixed ==
  ASSUME setup' = setup
  PROVE  /\ Series' = Series /\ Frequency' = Frequency /\ ResendDelay' = ResendDelay
         /\ Retention' = Retention /\ MaxTicks' = MaxTicks /\ MaxMisses' = MaxMisses
         /\ MaxRestarts' = MaxRestarts /\ MaxEdits' = MaxEdits /\ StartTime' = StartTime
         /\ Time' = Time /\ FP' = FP /\ AlertRecord' = AlertRecord
         /\ HistoryRow' = HistoryRow /\ NotifyFails' = NotifyFails
         /\ Rows(FP)' = Rows(FP)
         /\ \A t : Due(t)' <=> Due(t)
BY DEF Series, Frequency, ResendDelay, Retention, MaxTicks, MaxMisses, MaxRestarts,
       MaxEdits, StartTime, Time, FP, AlertRecord, HistoryRow, NotifyFails, Due,
       AbsentFor

LEMMA NoDomain == DOMAIN <<>> = {}
OBVIOUS

-----------------------------------------------------------------------------
(* What an evaluation makes of the alerts. *)

\* The alert that is new: it fires at once.
Fresh == [state |-> "firing", activeAt |-> now, resolvedAt |-> Zero,
          lastSentAt |-> Zero, arrivedAt |-> Zero]

\* The alert that has resolved
Resolved(a) == [a EXCEPT !.state = "inactive", !.resolvedAt = now]

LEMMA AlertFields ==
  ASSUME NEW a \in AlertRecord
  PROVE  /\ a.state \in {"pending", "firing", "inactive"}
         /\ a.activeAt \in Time /\ a.resolvedAt \in Time /\ a.lastSentAt \in Time
         /\ a.arrivedAt \in Time
BY DEF AlertRecord

LEMMA ResolvedFields ==
  ASSUME NEW a \in AlertRecord, now \in Time
  PROVE  /\ Resolved(a) \in AlertRecord
         /\ Resolved(a).state = "inactive" /\ Resolved(a).resolvedAt = now
         /\ Resolved(a).lastSentAt = a.lastSentAt /\ Resolved(a).arrivedAt = a.arrivedAt
BY DEF AlertRecord, Resolved

LEMMA FreshFields ==
  ASSUME setup \in Setups, now \in Time
  PROVE  /\ Fresh \in AlertRecord
         /\ Fresh.state = "firing" /\ Fresh.resolvedAt = Zero
         /\ Fresh.lastSentAt = Zero /\ Fresh.arrivedAt = Zero
BY SetupTypes DEF AlertRecord, Fresh, Time, Zero

\* Found alerts fire, the others resolve or are forgotten.
LEMMA EvaluatedAlerts ==
  ASSUME RuleInv, NEW F
  PROVE  /\ DOMAIN Evaluated(F) = F \cup {fp \in DOMAIN active : ~Forgets(active[fp])}
         /\ \A fp \in F :
              Evaluated(F)[fp] = IF Firing(fp) THEN active[fp] ELSE Fresh
         /\ \A fp \in DOMAIN active \ F :
              ~Forgets(active[fp]) =>
                Evaluated(F)[fp] = IF Firing(fp) THEN Resolved(active[fp]) ELSE active[fp]
<1> DEFINE m == Merged(F)
<1>1. /\ DOMAIN m = DOMAIN active \cup F
      /\ \A fp \in DOMAIN active \cup F :
           m[fp] = IF fp \in DOMAIN active /\ (fp \notin F \/ active[fp].state # "inactive")
                   THEN active[fp] ELSE NewAlert
  BY DEF Merged
<1>2. \A fp \in DOMAIN active :
        /\ active[fp] \in AlertRecord
        /\ active[fp].state \in {"firing", "inactive"}
        /\ active[fp].activeAt \in Nat
  BY AlertFields, SetupTypes DEF RuleInv, TypeOK, AlertInv, Time
<1>3. /\ NewAlert.state = "pending" /\ Fires(NewAlert)
      /\ [NewAlert EXCEPT !.state = "firing"] = Fresh
  <2>1. now \in Nat
    BY SetupTypes DEF RuleInv, TypeOK, Time
  <2> QED
    BY <2>1 DEF NewAlert, Fires, Fresh, HoldDuration
<1>4. \A fp \in DOMAIN active : ~Fires(active[fp])
  BY <1>2 DEF Fires
<1>5. DOMAIN Evaluated(F) = {f \in DOMAIN m : f \in F \/ ~Forgets(m[f])}
  BY DEF Evaluated
<1>6. \A fp \in DOMAIN Evaluated(F) :
        Evaluated(F)[fp] =
          IF fp \in F
          THEN IF Fires(m[fp]) THEN [m[fp] EXCEPT !.state = "firing"] ELSE m[fp]
          ELSE IF Resolves(m[fp]) THEN Resolved(m[fp]) ELSE m[fp]
  BY DEF Evaluated, Resolved
<1> HIDE DEF m
<1>7. DOMAIN Evaluated(F) = F \cup {fp \in DOMAIN active : ~Forgets(active[fp])}
  BY <1>1, <1>5
<1>8. ASSUME NEW fp \in F
      PROVE  Evaluated(F)[fp] = IF Firing(fp) THEN active[fp] ELSE Fresh
  <2>1. CASE Firing(fp)
    BY <1>1, <1>4, <1>6, <1>7, <2>1 DEF Firing
  <2>2. CASE ~Firing(fp)
    <3>1. m[fp] = NewAlert
      BY <1>1, <1>2, <2>2 DEF Firing
    <3> QED
      BY <1>3, <1>6, <1>7, <2>2, <3>1
  <2> QED
    BY <2>1, <2>2
<1>9. ASSUME NEW fp \in DOMAIN active \ F, ~Forgets(active[fp])
      PROVE  Evaluated(F)[fp] = IF Firing(fp) THEN Resolved(active[fp]) ELSE active[fp]
  <2>1. m[fp] = active[fp] /\ fp \in DOMAIN Evaluated(F) /\ fp \notin F
    BY <1>1, <1>7, <1>9
  <2>2. Resolves(m[fp]) <=> Firing(fp)
    BY <1>2, <2>1 DEF Resolves, Firing
  <2> QED
    BY <1>6, <2>1, <2>2
<1> QED
  BY <1>7, <1>8, <1>9

\* What changes is recorded.
LEMMA ItemsOfChange ==
  ASSUME RuleInv, NEW F
  PROVE  /\ DOMAIN Items(F) = {fp \in F \cup DOMAIN active : (fp \in F) # Firing(fp)}
         /\ \A fp \in DOMAIN Items(F) :
              Items(F)[fp] \in (IF fp \in F THEN Alerting ELSE {"inactive"})
<1> DEFINE m == Merged(F)
           fired == {fp \in F : Fires(m[fp])}
           resolved == {fp \in DOMAIN m \ F : Resolves(m[fp])}
<1>1. /\ DOMAIN m = DOMAIN active \cup F
      /\ \A fp \in DOMAIN active \cup F :
           m[fp] = IF fp \in DOMAIN active /\ (fp \notin F \/ active[fp].state # "inactive")
                   THEN active[fp] ELSE NewAlert
  BY DEF Merged
<1>2. \A fp \in DOMAIN active : active[fp].state \in {"firing", "inactive"}
  BY AlertFields DEF RuleInv, TypeOK, AlertInv
<1>3. Fires(NewAlert)
  <2>1. now \in Nat
    BY SetupTypes DEF RuleInv, TypeOK, Time
  <2> QED
    BY <2>1 DEF NewAlert, Fires, HoldDuration
<1>4. \A fp \in DOMAIN active : ~Fires(active[fp])
  BY <1>2 DEF Fires
<1>5. /\ DOMAIN Items(F) = fired \cup resolved
      /\ \A fp \in fired \cup resolved :
           Items(F)[fp] = IF fp \in resolved THEN "inactive"
                          ELSE IF fp[1] = "absent" THEN "nodata" ELSE "firing"
  BY DEF Items
<1> HIDE DEF m
<1>6. \A fp \in F : Fires(m[fp]) <=> ~Firing(fp)
  BY <1>1, <1>2, <1>3, <1>4 DEF Firing
<1>7. \A fp \in DOMAIN m \ F : Resolves(m[fp]) <=> Firing(fp)
  BY <1>1, <1>2 DEF Firing, Resolves
<1>8. fired = {fp \in F : ~Firing(fp)} /\ resolved = {fp \in DOMAIN active \ F : Firing(fp)}
  BY <1>1, <1>6, <1>7
<1> HIDE DEF fired, resolved
<1>9. DOMAIN Items(F) = {fp \in F \cup DOMAIN active : (fp \in F) # Firing(fp)}
  <2>1. ASSUME NEW fp PROVE Firing(fp) \in BOOLEAN
    BY DEF Firing
  <2>2. fired \cup resolved = {fp \in F \cup DOMAIN active : (fp \in F) # Firing(fp)}
    BY <1>8, <2>1
  <2> QED
    BY <1>5, <2>2
<1>10. \A fp \in fired \cup resolved :
         Items(F)[fp] \in (IF fp \in F THEN Alerting ELSE {"inactive"})
  BY <1>5, <1>8 DEF Alerting
<1> QED
  BY <1>5, <1>9, <1>10

\* A query finds fingerprints.
LEMMA FoundFingerprints ==
  ASSUME setup \in Setups, NEW seen \in Time, NEW result \in SUBSET Series
  PROVE  Found(result, seen) \subseteq FP
BY SetupTypes DEF Found, FP, Time
-----------------------------------------------------------------------------
(* What is saved of it. *)

RowFacts(rows, fp) ==
  rows[fp] \in HistoryRow /\ rows[fp].at = now

LEMMA RowFields ==
  ASSUME now \in Time, NEW state \in {"firing", "nodata", "inactive"},
         NEW overall \in {"firing", "pending", "inactive"}
  PROVE  /\ Row(state, overall) \in HistoryRow
         /\ Row(state, overall).state = state /\ Row(state, overall).overall = overall
         /\ Row(state, overall).at = now
BY DEF Row, HistoryRow

LEMMA HistoryRowFields ==
  ASSUME NEW row \in HistoryRow
  PROVE  /\ row.state \in {"firing", "nodata", "inactive"}
         /\ row.overall \in {"firing", "pending", "inactive"}
         /\ row.at \in Time
BY DEF HistoryRow

LEMMA OverallStateValue ==
  ASSUME NEW act
  PROVE  OverallState(act) \in {"firing", "pending", "inactive"}
BY DEF OverallState

\* The items that an evaluation may record
ItemsOK(items) ==
  /\ DOMAIN items \subseteq FP
  /\ \A fp \in DOMAIN items : items[fp] \in {"firing", "nodata", "inactive"}

\* The items that are kept, one for each history fingerprint
KeptOK(kept) ==
  /\ DOMAIN kept \subseteq Rows(FP)
  /\ \A k \in DOMAIN kept : kept[k] \in {"firing", "nodata", "inactive"}

LEMMA KeptItems ==
  ASSUME NEW items, ItemsOK(items), NEW kept \in Kept(items)
  PROVE  /\ KeptOK(kept)
         /\ DOMAIN kept = Rows(DOMAIN items)
         /\ \A k \in DOMAIN kept :
              \E fp \in DOMAIN items : RowOf(fp) = k /\ items[fp] = kept[k]
BY DEF Kept, KeptOK, ItemsOK, Rows

\* What differs between the items kept and the rows that were saved last
Differs(kept) ==
  {fp \in DOMAIN history \ DOMAIN kept : history[fp].state \in Alerting}
  \cup {fp \in DOMAIN history \cap DOMAIN kept : history[fp].state # kept[fp]}
  \cup (DOMAIN kept \ DOMAIN history)

\* After a restart a row is saved for what differs from the last row saved.
LEMMA ReconciledRows ==
  ASSUME RuleInv, NEW kept, KeptOK(kept), NEW first,
         NEW overall \in {"firing", "pending", "inactive"}
  PROVE  LET rows == Reconciled(kept, overall, first)
         IN  /\ DOMAIN rows = Differs(kept)
             /\ \A fp \in DOMAIN rows :
                  /\ RowFacts(rows, fp)
                  /\ rows[fp].state = IF fp \in DOMAIN kept THEN kept[fp] ELSE "inactive"
<1> DEFINE rows == Reconciled(kept, overall, first)
           resolved == {fp \in DOMAIN history \ DOMAIN kept :
                          history[fp].state \in Alerting}
           changed == {fp \in DOMAIN history \cap DOMAIN kept :
                         history[fp].state # kept[fp]}
           new == DOMAIN kept \ DOMAIN history
           state == [fp \in resolved \cup changed \cup new |->
                       IF fp \in resolved THEN "inactive" ELSE kept[fp]]
           newState == IF \E fp \in DOMAIN state : state[fp] \in Alerting
                       THEN "firing" ELSE "inactive"
           saved(fp) == IF history[first].overall # newState THEN newState
                        ELSE IF fp \in new THEN overall ELSE history[fp].overall
<1>1. rows = [fp \in DOMAIN state |-> Row(state[fp], saved(fp))]
  BY DEF Reconciled
<1>2. DOMAIN state = resolved \cup changed \cup new
  OBVIOUS
<1>3. ASSUME NEW fp \in resolved \cup changed \cup new
      PROVE  /\ state[fp] = IF fp \in DOMAIN kept THEN kept[fp] ELSE "inactive"
             /\ state[fp] \in {"firing", "nodata", "inactive"}
             /\ saved(fp) \in {"firing", "pending", "inactive"}
  <2>1. fp \in resolved <=> fp \notin DOMAIN kept
    BY <1>3
  <2>2. state[fp] = IF fp \in DOMAIN kept THEN kept[fp] ELSE "inactive"
    BY <1>3, <2>1
  <2>3. state[fp] \in {"firing", "nodata", "inactive"}
    BY <2>2 DEF KeptOK
  <2>4. fp \notin new => history[fp].overall \in {"firing", "pending", "inactive"}
    BY <1>3, HistoryRowFields DEF RuleInv, TypeOK
  <2>5. newState \in {"firing", "inactive"}
    OBVIOUS
  <2> HIDE DEF newState, new
  <2>6. saved(fp) \in {"firing", "pending", "inactive"}
    BY <2>4, <2>5
  <2> QED
    BY <2>2, <2>3, <2>6
<1>4. now \in Time
  BY DEF RuleInv, TypeOK
<1> HIDE DEF state, saved
<1>5. ASSUME NEW fp \in DOMAIN state
      PROVE  /\ RowFacts(rows, fp)
             /\ rows[fp].state = IF fp \in DOMAIN kept THEN kept[fp] ELSE "inactive"
  <2>1. rows[fp] = Row(state[fp], saved(fp))
    BY <1>1
  <2>2. /\ state[fp] = IF fp \in DOMAIN kept THEN kept[fp] ELSE "inactive"
        /\ state[fp] \in {"firing", "nodata", "inactive"}
        /\ saved(fp) \in {"firing", "pending", "inactive"}
    BY <1>2, <1>3
  <2> QED
    BY <1>4, <2>1, <2>2, RowFields DEF RowFacts
<1>6. DOMAIN rows = DOMAIN state
  BY <1>1
<1>7. DOMAIN rows = Differs(kept)
  BY <1>2, <1>6 DEF Differs
<1> QED
  BY <1>5, <1>6, <1>7

\* The rows that are saved for the items kept
SavedRows(rows, kept, overall) ==
  IF ~handledRestart /\ DOMAIN history # {}
  THEN \E first : rows = Reconciled(kept, overall, first)
  ELSE rows = [k \in DOMAIN kept |-> Row(kept[k], overall)]

Saved(items, overall) ==
  \E kept \in Kept(items) : \E rows :
    /\ SavedRows(rows, kept, overall)
    /\ handledRestart' = TRUE /\ lost' = lost
    /\ history' = Updated(history, rows)

\* Rows are saved, or it is known that they were not.
LEMMA RecordSaves ==
  ASSUME NEW items, NEW overall, Record(items, overall), RuleInv
  PROVE  \/ lost' = TRUE /\ history' = history /\ handledRestart' \in {handledRestart, TRUE}
         \/ Saved(items, overall)
<1>1. handledRestart \in BOOLEAN
  BY DEF RuleInv, TypeOK
<1>2. CASE HistoryReadFails /\ lost' = TRUE /\ UNCHANGED <<handledRestart, history>>
  BY <1>1, <1>2
<1>3. ASSUME NEW kept \in Kept(items), NEW first,
             LET rows == IF ~handledRestart /\ DOMAIN history # {}
                         THEN Reconciled(kept, overall, first)
                         ELSE [k \in DOMAIN kept |-> Row(kept[k], overall)]
             IN  /\ handledRestart' = TRUE
                 /\ \/ history' = Updated(history, rows) /\ UNCHANGED lost
                    \/ /\ HistoryWriteFails /\ DOMAIN rows # {}
                       /\ lost' = TRUE
                       /\ UNCHANGED history
      PROVE  \/ lost' = TRUE /\ history' = history /\ handledRestart' \in {handledRestart, TRUE}
             \/ Saved(items, overall)
  <2> DEFINE rows == IF ~handledRestart /\ DOMAIN history # {}
                     THEN Reconciled(kept, overall, first)
                     ELSE [k \in DOMAIN kept |-> Row(kept[k], overall)]
  <2>1. SavedRows(rows, kept, overall)
    BY DEF SavedRows
  <2>2. /\ handledRestart' = TRUE
        /\ \/ history' = Updated(history, rows) /\ UNCHANGED lost
           \/ lost' = TRUE /\ UNCHANGED history
    BY <1>3
  <2> HIDE DEF rows
  <2> QED
    BY <2>1, <2>2 DEF Saved
<1> QED
  BY <1>2, <1>3 DEF Record

LEMMA SavedRowsOK ==
  ASSUME RuleInv, NEW kept, KeptOK(kept), NEW rows,
         NEW overall \in {"firing", "pending", "inactive"}, SavedRows(rows, kept, overall)
  PROVE  /\ DOMAIN rows \subseteq Rows(FP)
         /\ \A fp \in DOMAIN rows : RowFacts(rows, fp)
<1>1. CASE ~handledRestart /\ DOMAIN history # {}
  <2>1. PICK first : rows = Reconciled(kept, overall, first)
    BY <1>1 DEF SavedRows
  <2>2. \A fp \in DOMAIN rows : RowFacts(rows, fp)
    BY <2>1, ReconciledRows
  <2>3. DOMAIN rows \subseteq DOMAIN history \cup DOMAIN kept
    <3>1. DOMAIN rows = Differs(kept)
      BY <2>1, ReconciledRows
    <3> QED
      BY <3>1 DEF Differs
  <2>4. DOMAIN history \subseteq Rows(FP) /\ DOMAIN kept \subseteq Rows(FP)
    BY DEF KeptOK, RuleInv, TypeOK
  <2> QED
    BY <2>2, <2>3, <2>4
<1>2. CASE ~(~handledRestart /\ DOMAIN history # {})
  <2>1. rows = [fp \in DOMAIN kept |-> Row(kept[fp], overall)]
    BY <1>2 DEF SavedRows
  <2>2. now \in Time
    BY DEF RuleInv, TypeOK
  <2> QED
    BY <2>1, <2>2, RowFields DEF KeptOK, RowFacts
<1> QED
  BY <1>1, <1>2

LEMMA ItemsAreOK ==
  ASSUME RuleInv, NEW F \in SUBSET FP
  PROVE  ItemsOK(Items(F))
<1>1. \A fp \in DOMAIN Items(F) : Items(F)[fp] \in {"firing", "nodata", "inactive"}
  BY ItemsOfChange DEF Alerting
<1>2. DOMAIN Items(F) \subseteq FP
  <2>1. DOMAIN Items(F) = {fp \in F \cup DOMAIN active : (fp \in F) # Firing(fp)}
    BY ItemsOfChange
  <2>2. DOMAIN active \subseteq FP
    BY DEF RuleInv, TypeOK
  <2> QED
    BY <2>1, <2>2
<1> QED
  BY <1>1, <1>2 DEF ItemsOK
-----------------------------------------------------------------------------
(* The rule's memory is in order. *)

\* A step that leaves the alerts and the history alone
LEMMA SameAlerts ==
  ASSUME RuleInv, setup' = setup, active' = active, history' = history,
         now' \in Time, now <= now', pc' \in {"wait", "eval", "send"},
         pc' # "wait" => Due(now') /\ (pc = "wait" => now < now'),
         DOMAIN am' \subseteq FP, \A fp \in DOMAIN am' : am'[fp] \in Nat,
         lastData' \in Time, dataAt' \in Time,
         handledRestart' \in BOOLEAN, lost' \in BOOLEAN, blurred' \subseteq Rows(FP),
         misses' \in 0..MaxMisses, resets' \in [restart : 0..MaxRestarts, edit : 0..MaxEdits]
  PROVE  RuleInv'
<1>1. /\ now \in Nat /\ now' \in Nat /\ StartTime \in Nat /\ StartTime <= now
      /\ setup \in Setups
  BY SetupTypes DEF RuleInv, TypeOK, Time
<1>2. TypeOK'
  BY SetupFixed DEF TypeOK, RuleInv
<1>3. StartTime' <= now' /\ (pc' # "wait" => Due(now)' \/ Due(now'))
  BY <1>1, SetupFixed
<1>4. pc' # "wait" => Due(now)'
  BY SetupFixed DEF Due
<1>5. ASSUME NEW fp \in DOMAIN active'
      PROVE  AlertInv(fp)'
  <2>1. AlertInv(fp) /\ active[fp].resolvedAt \in Nat /\ active[fp].lastSentAt \in Nat
    BY AlertFields, SetupTypes DEF RuleInv, AlertInv, Time, TypeOK
  <2>2. /\ active[fp].resolvedAt <= now' /\ active[fp].lastSentAt <= now'
        /\ pc' # "wait" => active[fp].lastSentAt < now'
    BY <1>1, <2>1 DEF AlertInv
  <2>3. active[fp].lastSentAt # Zero =>
          Due(active[fp].lastSentAt)' /\ StartTime' <= active[fp].lastSentAt
    BY <2>1, SetupFixed DEF AlertInv, Due
  <2> QED
    BY <2>1, <2>2, <2>3, SetupFixed DEF AlertInv, Due
<1> QED
  BY <1>2, <1>3, <1>4, <1>5 DEF RuleInv
\* What an evaluation does to memory and history
Evaluates(F) ==
  /\ active' = Evaluated(F)
  /\ blurred' = (blurred \ Rows(DOMAIN Items(F))) \cup Blurs(Items(F), active')
  /\ \/ lost' = TRUE /\ history' = history /\ handledRestart' \in {handledRestart, TRUE}
     \/ Saved(Items(F), OverallState(active'))

LEMMA EvalEvaluates ==
  ASSUME RuleInv, NEW hasData, NEW result \in SUBSET Series, Eval(hasData, result)
  PROVE  \E F \in SUBSET FP : Evaluates(F)
<1>1. now \in Time /\ lastData \in Time /\ setup \in Setups
  BY DEF RuleInv, TypeOK
<1>2. lastData' \in Time
  BY <1>1 DEF Eval
<1> DEFINE F == Found(result, lastData')
<1>3. F \in SUBSET FP
  BY <1>1, <1>2, FoundFingerprints
<1>4. /\ active' = Evaluated(F) /\ Record(Items(F), OverallState(active'))
      /\ blurred' = (blurred \ Rows(DOMAIN Items(F))) \cup Blurs(Items(F), active')
  BY DEF Eval
<1> HIDE DEF F
<1>5. \/ lost' = TRUE /\ history' = history /\ handledRestart' \in {handledRestart, TRUE}
      \/ Saved(Items(F), OverallState(active'))
  BY <1>4, RecordSaves
<1> QED
  BY <1>3, <1>4, <1>5 DEF Evaluates

LEMMA SavedTypes ==
  ASSUME RuleInv, NEW items, ItemsOK(items),
         NEW overall \in {"firing", "pending", "inactive"}, Saved(items, overall)
  PROVE  /\ DOMAIN history' \subseteq Rows(FP)
         /\ \A k \in DOMAIN history' : history'[k] \in HistoryRow
<1>1. PICK kept \in Kept(items) :
        \E rows : SavedRows(rows, kept, overall) /\ history' = Updated(history, rows)
  BY DEF Saved
<1>2. PICK rows : SavedRows(rows, kept, overall) /\ history' = Updated(history, rows)
  BY <1>1
<1>3. KeptOK(kept)
  BY KeptItems
<1>4. DOMAIN rows \subseteq Rows(FP) /\ \A k \in DOMAIN rows : rows[k] \in HistoryRow
  BY <1>2, <1>3, SavedRowsOK DEF RowFacts
<1>5. /\ DOMAIN history \subseteq Rows(FP)
      /\ \A k \in DOMAIN history : history[k] \in HistoryRow
  BY DEF RuleInv, TypeOK
<1> QED
  BY <1>2, <1>4, <1>5 DEF Updated

\* The fingerprints that the items blur are some of the rule's.
LEMMA BlursTypes ==
  ASSUME RuleInv, NEW items, ItemsOK(items), NEW act,
         blurred' = (blurred \ Rows(DOMAIN items)) \cup Blurs(items, act)
  PROVE  blurred' \subseteq Rows(FP)
BY DEF RuleInv, TypeOK, ItemsOK, Blurs, Rows

LEMMA EvalKeepsRuleInv ==
  ASSUME RuleInv, NEW hasData \in BOOLEAN, NEW result \in SUBSET Series,
         Eval(hasData, result)
  PROVE  RuleInv'
<1>1. PICK F \in SUBSET FP : Evaluates(F)
  BY EvalEvaluates
<1>2. /\ setup \in Setups /\ setup' = setup /\ now' = now /\ pc = "eval" /\ pc' = "send"
      /\ UNCHANGED <<am, misses, resets>>
      /\ now \in Time /\ StartTime <= now /\ Due(now)
  BY DEF Eval, RuleInv, TypeOK
<1>3. /\ now \in Nat /\ StartTime \in Nat /\ StartTime > 0 /\ 0 < now
  BY <1>2, SetupTypes DEF Time
<1>4. active' = Evaluated(F)
  BY <1>1 DEF Evaluates
<1>5. ASSUME NEW fp \in DOMAIN active'
      PROVE  /\ active'[fp] \in AlertRecord
             /\ active'[fp].state \in {"firing", "inactive"}
             /\ (active'[fp].state = "inactive") <=> (active'[fp].resolvedAt # Zero)
             /\ active'[fp].resolvedAt <= now
             /\ active'[fp].lastSentAt < now
             /\ active'[fp].lastSentAt # Zero =>
                  Due(active'[fp].lastSentAt) /\ StartTime <= active'[fp].lastSentAt
  <2>1. \/ active'[fp] = Fresh
        \/ fp \in DOMAIN active /\ active'[fp] = Resolved(active[fp])
        \/ fp \in DOMAIN active /\ active'[fp] = active[fp]
    <3>1. DOMAIN active' = F \cup {f \in DOMAIN active : ~Forgets(active[f])}
      BY <1>4, EvaluatedAlerts
    <3>2. fp \in F => active'[fp] = IF Firing(fp) THEN active[fp] ELSE Fresh
      BY <1>4, EvaluatedAlerts
    <3>3. fp \notin F =>
            /\ fp \in DOMAIN active
            /\ active'[fp] = IF Firing(fp) THEN Resolved(active[fp]) ELSE active[fp]
      BY <1>4, <3>1, EvaluatedAlerts
    <3>4. Firing(fp) => fp \in DOMAIN active
      BY DEF Firing
    <3> QED
      BY <3>2, <3>3, <3>4
  <2>2. CASE active'[fp] = Fresh
    BY <1>2, <1>3, <2>2, FreshFields DEF Zero
  <2>3. fp \in DOMAIN active =>
          /\ active[fp] \in AlertRecord /\ active[fp].state \in {"firing", "inactive"}
          /\ (active[fp].state = "inactive") <=> (active[fp].resolvedAt # Zero)
          /\ active[fp].resolvedAt <= now /\ active[fp].lastSentAt < now
          /\ active[fp].lastSentAt # Zero =>
               Due(active[fp].lastSentAt) /\ StartTime <= active[fp].lastSentAt
    BY <1>2, AlertFields DEF RuleInv, AlertInv
  <2>4. CASE fp \in DOMAIN active /\ active'[fp] = Resolved(active[fp])
    BY <1>2, <1>3, <2>3, <2>4, ResolvedFields DEF Zero
  <2>5. CASE fp \in DOMAIN active /\ active'[fp] = active[fp]
    BY <2>3, <2>5
  <2> QED
    BY <2>1, <2>2, <2>4, <2>5
<1>6. DOMAIN active' \subseteq FP
  <2>1. DOMAIN active' = F \cup {fp \in DOMAIN active : ~Forgets(active[fp])}
    BY <1>4, EvaluatedAlerts
  <2>2. DOMAIN active \subseteq FP
    BY DEF RuleInv, TypeOK
  <2> QED
    BY <2>1, <2>2
<1>7. DOMAIN history' \subseteq Rows(FP) /\ \A k \in DOMAIN history' : history'[k] \in HistoryRow
  <2>1. CASE history' = history
    BY <2>1 DEF RuleInv, TypeOK
  <2>2. CASE Saved(Items(F), OverallState(active'))
    BY <2>2, SavedTypes, ItemsAreOK, OverallStateValue
  <2> QED
    BY <1>1, <2>1, <2>2 DEF Evaluates
<1>8. /\ lastData' \in Time /\ dataAt' \in Time
      /\ handledRestart' \in BOOLEAN /\ lost' \in BOOLEAN /\ blurred' \subseteq Rows(FP)
  <2>1. lastData' \in Time /\ dataAt' \in Time
    BY DEF Eval, RuleInv, TypeOK
  <2>2. lost \in BOOLEAN /\ handledRestart \in BOOLEAN
    BY DEF RuleInv, TypeOK
  <2>3. blurred' \subseteq Rows(FP)
    BY <1>1, BlursTypes, ItemsAreOK DEF Evaluates
  <2> QED
    BY <1>1, <2>1, <2>2, <2>3 DEF Evaluates, Saved
<1>9. TypeOK'
  <2>1. /\ DOMAIN am' \subseteq FP /\ \A fp \in DOMAIN am' : am'[fp] \in Nat
        /\ misses' \in 0..MaxMisses
        /\ resets' \in [restart : 0..MaxRestarts, edit : 0..MaxEdits]
    BY <1>2 DEF RuleInv, TypeOK
  <2>2. \A fp \in DOMAIN active' :
          /\ active'[fp] \in AlertRecord
          /\ (active'[fp].state = "inactive") <=> (active'[fp].resolvedAt # Zero)
    BY <1>5
  <2> QED
    BY <1>2, <1>6, <1>7, <1>8, <2>1, <2>2, SetupFixed DEF TypeOK
<1>10. ASSUME NEW fp \in DOMAIN active'
       PROVE  AlertInv(fp)'
  <2>1. /\ active'[fp].lastSentAt \in Time /\ active'[fp].lastSentAt <= now
    BY <1>2, <1>3, <1>5, AlertFields, SetupTypes DEF Time
  <2>2. active'[fp].lastSentAt # Zero =>
          Due(active[fp].lastSentAt)' /\ StartTime' <= active'[fp].lastSentAt
    BY <1>2, <1>5, SetupFixed DEF Due
  <2> QED
    BY <1>2, <1>5, <2>1, <2>2, SetupFixed DEF AlertInv
<1>11. StartTime' <= now' /\ Due(now)'
  BY <1>2, SetupFixed DEF Due
<1> QED
  BY <1>9, <1>10, <1>11 DEF RuleInv
\* What sending does to the alerts and to what the Alertmanager holds
Sent(a, delivered) ==
  [a EXCEPT !.lastSentAt = now, !.arrivedAt = IF delivered THEN now ELSE @]

Sends(delivered) ==
  /\ DOMAIN active' = DOMAIN active
  /\ \A fp \in DOMAIN active :
       active'[fp] = IF NeedsSending(active[fp]) THEN Sent(active[fp], delivered)
                     ELSE active[fp]
  /\ IF delivered
     THEN /\ misses' = 0
          /\ DOMAIN am' = DOMAIN am \cup {fp \in DOMAIN active : NeedsSending(active[fp])}
          /\ \A fp \in DOMAIN am' :
               am'[fp] = IF fp \in DOMAIN active /\ NeedsSending(active[fp])
                         THEN EndsAt(active[fp]) ELSE am[fp]
     ELSE NotifyFails /\ am' = am /\ misses < MaxMisses /\ misses' = misses + 1

LEMMA SendAlertsSends ==
  ASSUME NEW delivered \in BOOLEAN, SendAlerts(delivered)
  PROVE  Sends(delivered)
<1> DEFINE due == {fp \in DOMAIN active : NeedsSending(active[fp])}
           ends == [fp \in due |-> EndsAt(active[fp])]
<1>1. active' = [fp \in DOMAIN active |->
                   IF fp \in due THEN Sent(active[fp], delivered) ELSE active[fp]]
  BY DEF SendAlerts, Sent
<1>2. IF delivered THEN am' = Updated(am, ends) /\ misses' = 0
      ELSE NotifyFails /\ am' = am /\ misses < MaxMisses /\ misses' = misses + 1
  BY DEF SendAlerts
<1>3. /\ DOMAIN ends = due
      /\ \A fp \in due : ends[fp] = EndsAt(active[fp])
  OBVIOUS
<1> HIDE DEF ends
<1>4. ASSUME delivered
      PROVE  /\ DOMAIN am' = DOMAIN am \cup due
             /\ \A fp \in DOMAIN am' :
                  am'[fp] = IF fp \in DOMAIN active /\ NeedsSending(active[fp])
                            THEN EndsAt(active[fp]) ELSE am[fp]
  BY <1>2, <1>3, <1>4 DEF Updated
<1> QED
  BY <1>1, <1>2, <1>4 DEF Sends

LEMMA SentFields ==
  ASSUME NEW a \in AlertRecord, now \in Time, NEW delivered \in BOOLEAN
  PROVE  /\ Sent(a, delivered) \in AlertRecord
         /\ Sent(a, delivered).state = a.state
         /\ Sent(a, delivered).resolvedAt = a.resolvedAt
         /\ Sent(a, delivered).lastSentAt = now
         /\ Sent(a, delivered).arrivedAt = IF delivered THEN now ELSE a.arrivedAt
BY DEF AlertRecord, Sent

LEMMA SendKeepsRuleInv ==
  ASSUME RuleInv, NEW delivered \in BOOLEAN, SendAlerts(delivered)
  PROVE  RuleInv'
<1>1. Sends(delivered)
  BY SendAlertsSends
<1>2. /\ setup \in Setups /\ setup' = setup /\ now' = now /\ pc = "send" /\ pc' = "wait"
      /\ UNCHANGED <<lastData, handledRestart, history, resets, dataAt, lost, blurred>>
      /\ now \in Time /\ StartTime <= now /\ Due(now)
  BY DEF SendAlerts, RuleInv, TypeOK
<1>3. now \in Nat /\ ResendDelay \in Nat /\ Frequency \in Nat /\ MaxMisses \in Nat
  BY <1>2, SetupTypes DEF Time
<1>4. \A fp \in DOMAIN active :
        /\ active[fp] \in AlertRecord /\ active[fp].state # "pending"
        /\ (active[fp].state = "inactive") <=> (active[fp].resolvedAt # Zero)
        /\ active[fp].resolvedAt <= now /\ active[fp].lastSentAt <= now
        /\ active[fp].lastSentAt # Zero =>
             Due(active[fp].lastSentAt) /\ StartTime <= active[fp].lastSentAt
  BY DEF RuleInv, AlertInv
<1>5. ASSUME NEW fp \in DOMAIN active'
      PROVE  /\ active'[fp] \in AlertRecord /\ active'[fp].state # "pending"
             /\ (active'[fp].state = "inactive") <=> (active'[fp].resolvedAt # Zero)
             /\ active'[fp].resolvedAt <= now /\ active'[fp].lastSentAt <= now
             /\ active'[fp].lastSentAt # Zero =>
                  Due(active'[fp].lastSentAt) /\ StartTime <= active'[fp].lastSentAt
  <2>1. fp \in DOMAIN active
        /\ (active'[fp] = Sent(active[fp], delivered) \/ active'[fp] = active[fp])
    BY <1>1 DEF Sends
  <2>2. CASE active'[fp] = Sent(active[fp], delivered)
    BY <1>2, <1>3, <1>4, <2>1, <2>2, SentFields
  <2>3. CASE active'[fp] = active[fp]
    BY <1>4, <2>1, <2>3
  <2> QED
    BY <2>1, <2>2, <2>3
<1>6. DOMAIN am' \subseteq FP /\ \A fp \in DOMAIN am' : am'[fp] \in Nat
  <2>1. DOMAIN am \subseteq FP /\ \A fp \in DOMAIN am : am[fp] \in Nat
    BY DEF RuleInv, TypeOK
  <2>2. DOMAIN active \subseteq FP
    BY DEF RuleInv, TypeOK
  <2>3. ASSUME NEW fp \in DOMAIN active PROVE EndsAt(active[fp]) \in Nat
    <3>1. active[fp].resolvedAt \in Nat
      BY <1>2, <1>4, AlertFields, SetupTypes DEF Time
    <3> QED
      BY <1>3, <3>1 DEF EndsAt, Validity, LongerOf
  <2> QED
    BY <1>1, <2>1, <2>2, <2>3 DEF Sends
<1>7. misses' \in 0..MaxMisses
  BY <1>1, <1>3 DEF Sends, RuleInv, TypeOK
<1>8. TypeOK'
  <2>1. DOMAIN active' \subseteq FP
    BY <1>1 DEF Sends, RuleInv, TypeOK
  <2>2. /\ DOMAIN history' \subseteq Rows(FP) /\ blurred' \subseteq Rows(FP)
        /\ \A fp \in DOMAIN history' : history'[fp] \in HistoryRow
        /\ lastData' \in Time /\ dataAt' \in Time
        /\ handledRestart' \in BOOLEAN /\ lost' \in BOOLEAN
        /\ resets' \in [restart : 0..MaxRestarts, edit : 0..MaxEdits]
    BY <1>2 DEF RuleInv, TypeOK
  <2>3. \A fp \in DOMAIN active' :
          /\ active'[fp] \in AlertRecord
          /\ (active'[fp].state = "inactive") <=> (active'[fp].resolvedAt # Zero)
    BY <1>5
  <2> QED
    BY <1>2, <1>6, <1>7, <2>1, <2>2, <2>3, SetupFixed DEF TypeOK
<1>9. ASSUME NEW fp \in DOMAIN active'
      PROVE  AlertInv(fp)'
  <2>1. active'[fp].lastSentAt # Zero =>
          Due(active[fp].lastSentAt)' /\ StartTime' <= active'[fp].lastSentAt
    BY <1>2, <1>5, SetupFixed DEF Due
  <2> QED
    BY <1>2, <1>5, <2>1, SetupFixed DEF AlertInv
<1>10. StartTime' <= now' /\ pc' = "wait"
  BY <1>2, SetupFixed
<1> QED
  BY <1>8, <1>9, <1>10 DEF RuleInv

\* The process restarts with an empty memory.
LEMMA RestartKeepsRuleInv ==
  ASSUME RuleInv, Restart
  PROVE  RuleInv'
<1>1. /\ setup \in Setups /\ setup' = setup /\ now' = now /\ pc' = "wait" /\ active' = <<>>
      /\ UNCHANGED <<history, am, misses, dataAt, lost>>
      /\ now \in Time /\ StartTime <= now
      /\ lastData' = Zero /\ handledRestart' = FALSE /\ blurred' = {}
  BY DEF Restart, RuleInv, TypeOK
<1>2. DOMAIN active' = {}
  BY <1>1, NoDomain
<1>3. Zero \in Time
  BY <1>1, SetupTypes DEF Time, Zero
<1>4. resets' \in [restart : 0..MaxRestarts, edit : 0..MaxEdits]
  BY <1>1, SetupTypes DEF Restart, RuleInv, TypeOK
<1>5. TypeOK'
  <2>1. /\ DOMAIN history' \subseteq Rows(FP)
        /\ \A fp \in DOMAIN history' : history'[fp] \in HistoryRow
        /\ DOMAIN am' \subseteq FP /\ \A fp \in DOMAIN am' : am'[fp] \in Nat
        /\ dataAt' \in Time /\ lost' \in BOOLEAN /\ misses' \in 0..MaxMisses
    BY <1>1 DEF RuleInv, TypeOK
  <2> QED
    BY <1>1, <1>2, <1>3, <1>4, <2>1, SetupFixed DEF TypeOK
<1>6. StartTime' <= now' /\ pc' = "wait"
  BY <1>1, SetupFixed
<1> QED
  BY <1>2, <1>5, <1>6 DEF RuleInv

LEMMA InitRuleInv == Init => RuleInv
<1> SUFFICES ASSUME Init PROVE RuleInv
  OBVIOUS
<1>1. setup \in Setups /\ now = StartTime /\ pc = "wait"
  BY DEF Init
<1>2. DOMAIN active = {} /\ DOMAIN history = {} /\ DOMAIN am = {}
  BY NoDomain DEF Init
<1>3. now \in Time /\ Zero \in Time
  BY <1>1, SetupTypes DEF Time, Zero
<1>4. 0 \in 0..MaxMisses /\ resets \in [restart : 0..MaxRestarts, edit : 0..MaxEdits]
  BY <1>1, SetupTypes DEF Init
<1>5. TypeOK
  BY <1>1, <1>2, <1>3, <1>4 DEF TypeOK, Init
<1> QED
  BY <1>1, <1>2, <1>3, <1>5, SetupTypes DEF RuleInv

\* The next time the task evaluates is a due one.
LEMMA NextRuleInv == RuleInv /\ [Next]_vars => RuleInv'
<1> SUFFICES ASSUME RuleInv, [Next]_vars PROVE RuleInv'
  OBVIOUS
<1>1. /\ setup \in Setups /\ now \in Time /\ now \in Nat /\ StartTime \in Nat
      /\ MaxTicks \in Nat /\ MaxMisses \in Nat /\ MaxEdits \in Nat
      /\ DOMAIN am \subseteq FP /\ \A fp \in DOMAIN am : am[fp] \in Nat
      /\ lastData \in Time /\ dataAt \in Time
      /\ handledRestart \in BOOLEAN /\ lost \in BOOLEAN /\ blurred \subseteq Rows(FP)
      /\ pc \in {"wait", "eval", "send"}
      /\ misses \in 0..MaxMisses
      /\ resets \in [restart : 0..MaxRestarts, edit : 0..MaxEdits]
      /\ pc # "wait" => Due(now)
  BY SetupTypes DEF RuleInv, TypeOK, Time
<1>2. CASE Tick
  <2>1. now' = now + 1 /\ now' \in Time
    BY <1>1, <1>2 DEF Tick, Time
  <2>2. /\ pc = "wait" /\ pc' \in {"wait", "eval", "send"}
        /\ pc' # "wait" => (now + 1 - StartTime) % Frequency = 0
    BY <1>2 DEF Tick
  <2>3. pc' # "wait" => Due(now')
    BY <1>1, <2>1, <2>2, SetupTypes DEF Due
  <2> QED
    BY <1>1, <1>2, <2>1, <2>2, <2>3, SameAlerts DEF Tick
<1>3. CASE \E hasData \in BOOLEAN, result \in SUBSET Series : Eval(hasData, result)
  BY <1>3, EvalKeepsRuleInv
<1>4. CASE NoEval
  BY <1>1, <1>4, SameAlerts DEF NoEval
<1>5. CASE \E delivered \in BOOLEAN : SendAlerts(delivered)
  BY <1>5, SendKeepsRuleInv
<1>6. CASE OrgQueryFails
  BY <1>1, <1>6, SameAlerts DEF OrgQueryFails
<1>7. CASE Restart
  BY <1>7, RestartKeepsRuleInv
<1>8. CASE Edit
  <2>1. Zero \in Time
    BY <1>1 DEF Time, Zero
  <2>2. resets' \in [restart : 0..MaxRestarts, edit : 0..MaxEdits]
    BY <1>1, <1>8 DEF Edit
  <2> QED
    BY <1>1, <1>8, <2>1, <2>2, SameAlerts DEF Edit
<1>9. CASE UNCHANGED vars
  BY <1>1, <1>9, SameAlerts DEF vars
<1> QED
  BY <1>2, <1>3, <1>4, <1>5, <1>6, <1>7, <1>8, <1>9 DEF Next

THEOREM RuleInvariant == Spec => []RuleInv
BY InitRuleInv, NextRuleInv, PTL DEF Spec

\* Whatever the rule, its alerts, history and times have their types, and no
\* resolved alert lacks the time at which it resolved.
THEOREM TypeCorrect == Spec => []TypeOK
<1>1. RuleInv => TypeOK
  BY DEF RuleInv
<1> QED
  BY <1>1, RuleInvariant, PTL
-----------------------------------------------------------------------------
(* The saved history agrees with the rule. *)

\* Rows are older than the evaluation that comes, memory and history begin
\* empty, and the rows of a handled restart agree with the alerts.
HistoryInv ==
  /\ \A fp \in DOMAIN history :
       history[fp].at <= now /\ (pc = "eval" => history[fp].at < now)
  /\ ~handledRestart /\ ~lost => DOMAIN active = {}
  /\ ~handledRestart /\ resets.restart = 0 => DOMAIN history = {}
  /\ HistoryAgrees

\* The last row saved of the history fingerprint in a history says that it alerts.
Alerts(rows, k) == k \in DOMAIN rows /\ rows[k].state \in Alerting

\* An alert with the history fingerprint fires.
FiresAs(k) == \E fp \in DOMAIN active : RowOf(fp) = k /\ Firing(fp)

StatesAgree == \A k : k \notin blurred => (Alerts(history, k) <=> FiresAs(k))

LEMMA OverallIsFiring ==
  ASSUME NEW act, \A fp \in DOMAIN act : act[fp].state # "pending"
  PROVE  OverallState(act) =
           IF \E fp \in DOMAIN act : act[fp].state = "firing" THEN "firing" ELSE "inactive"
BY DEF OverallState

\* After an evaluation what was found fires, and nothing else.
LEMMA FoundFires ==
  ASSUME RuleInv, NEW F, active' = Evaluated(F)
  PROVE  \A fp : Firing(fp)' <=> fp \in F
<1>1. ASSUME NEW fp \in F
      PROVE  fp \in DOMAIN active' /\ active'[fp].state = "firing"
  <2>1. active'[fp] = IF Firing(fp) THEN active[fp] ELSE Fresh
    BY EvaluatedAlerts
  <2>2. Fresh.state = "firing"
    BY DEF Fresh
  <2> QED
    BY <2>1, <2>2, EvaluatedAlerts DEF Firing
<1>2. ASSUME NEW fp \in DOMAIN active' \ F
      PROVE  active'[fp].state # "firing"
  <2>1. /\ fp \in DOMAIN active /\ ~Forgets(active[fp])
        /\ active'[fp] = IF Firing(fp) THEN Resolved(active[fp]) ELSE active[fp]
    BY <1>2, EvaluatedAlerts
  <2>2. active[fp] \in AlertRecord /\ now \in Time
    BY <2>1 DEF RuleInv, TypeOK
  <2> QED
    BY <2>1, <2>2, ResolvedFields DEF Firing
<1> QED
  BY <1>1, <1>2 DEF Firing

\* What fires after an evaluation is what was found.
LEMMA FoundFiresAs ==
  ASSUME RuleInv, NEW F, active' = Evaluated(F)
  PROVE  \A k : FiresAs(k)' <=> k \in Rows(F)
<1>1. \A fp : Firing(fp)' <=> fp \in F
  BY FoundFires
<1>2. \A fp : Firing(fp)' => fp \in DOMAIN active'
  BY DEF Firing
<1> QED
  BY <1>1, <1>2 DEF FiresAs, Rows

\* Plain rows say of what changed that it changed, if it is not blurred.
LEMMA PlainRowsAgree ==
  ASSUME RuleInv, NEW F \in SUBSET FP, StatesAgree, NEW overall, NEW rows,
         NEW kept \in Kept(Items(F)), active' = Evaluated(F),
         blurred' = (blurred \ Rows(DOMAIN Items(F))) \cup Blurs(Items(F), active'),
         rows = [k \in DOMAIN kept |-> Row(kept[k], overall)]
  PROVE  \A k : k \notin blurred' => (Alerts(Updated(history, rows), k) <=> k \in Rows(F))
<1>1. /\ DOMAIN rows = Rows(DOMAIN Items(F))
      /\ \A k \in DOMAIN rows :
           \E fp \in DOMAIN Items(F) : RowOf(fp) = k /\ Items(F)[fp] = kept[k]
  BY ItemsAreOK, KeptItems
<1>2. /\ DOMAIN Items(F) = {fp \in F \cup DOMAIN active : (fp \in F) # Firing(fp)}
      /\ \A fp \in DOMAIN Items(F) :
           Items(F)[fp] \in (IF fp \in F THEN Alerting ELSE {"inactive"})
  BY ItemsOfChange
<1>3. ASSUME NEW k \in DOMAIN rows, k \notin blurred'
      PROVE  rows[k].state \in Alerting <=> k \in Rows(F)
  <2>1. rows[k].state = kept[k]
    BY DEF Row
  <2>2. PICK fp \in DOMAIN Items(F) : RowOf(fp) = k /\ Items(F)[fp] = kept[k]
    BY <1>1
  <2>3. CASE fp \in F
    <3>1. kept[k] \in Alerting /\ k \in Rows(F)
      BY <1>2, <2>2, <2>3 DEF Rows
    <3> QED
      BY <2>1, <3>1
  <2>4. CASE fp \notin F
    <3>1. kept[k] = "inactive"
      BY <1>2, <2>2, <2>4
    <3>2. ~\E other \in DOMAIN active' :
              RowOf(other) = k /\ active'[other].state = "firing"
      <4>1. k \notin Blurs(Items(F), active')
        BY <1>3
      <4> QED
        BY <2>2, <3>1, <4>1 DEF Blurs, Rows
    <3>3. k \notin Rows(F)
      <4>1. \A other \in F : other \in DOMAIN active' /\ active'[other].state = "firing"
        BY FoundFires DEF Firing
      <4> QED
        BY <3>2, <4>1 DEF Rows
    <3> QED
      BY <2>1, <3>1, <3>3 DEF Alerting
  <2> QED
    BY <2>3, <2>4
<1>4. ASSUME NEW k, k \notin DOMAIN rows, k \notin blurred'
      PROVE  Alerts(history, k) <=> k \in Rows(F)
  <2>1. k \notin blurred
    BY <1>1, <1>4
  <2>2. Alerts(history, k) <=> FiresAs(k)
    BY <2>1 DEF StatesAgree
  <2>3. \A fp : RowOf(fp) = k => (Firing(fp) <=> fp \in F)
    <3>1. \A fp \in F \cup DOMAIN active : RowOf(fp) = k => fp \notin DOMAIN Items(F)
      BY <1>1, <1>4 DEF Rows
    <3>2. \A fp : Firing(fp) => fp \in DOMAIN active
      BY DEF Firing
    <3>3. ASSUME NEW fp PROVE Firing(fp) \in BOOLEAN
      BY DEF Firing
    <3> QED
      BY <1>2, <3>1, <3>2, <3>3
  <2>4. FiresAs(k) <=> k \in Rows(F)
    BY <2>3 DEF FiresAs, Rows, Firing
  <2> QED
    BY <2>2, <2>4
<1> QED
  BY <1>3, <1>4 DEF Alerts, Updated

\* So do reconciled ones, of a memory that began empty.
LEMMA ReconciledRowsAgree ==
  ASSUME RuleInv, NEW F \in SUBSET FP, DOMAIN active = {}, NEW first, NEW rows,
         NEW kept \in Kept(Items(F)), NEW overall \in {"firing", "pending", "inactive"},
         rows = Reconciled(kept, overall, first)
  PROVE  \A k : Alerts(Updated(history, rows), k) <=> k \in Rows(F)
<1>1. DOMAIN Items(F) = F /\ \A fp \in F : Items(F)[fp] \in Alerting
  <2>1. DOMAIN Items(F) = {fp \in F \cup DOMAIN active : (fp \in F) # Firing(fp)}
    BY ItemsOfChange
  <2>2. \A fp : ~Firing(fp)
    BY DEF Firing
  <2>3. DOMAIN Items(F) = F
    BY <2>1, <2>2
  <2>4. \A fp \in DOMAIN Items(F) :
          Items(F)[fp] \in (IF fp \in F THEN Alerting ELSE {"inactive"})
    BY ItemsOfChange
  <2> QED
    BY <2>3, <2>4
<1>2. /\ KeptOK(kept) /\ DOMAIN kept = Rows(F)
      /\ \A k \in DOMAIN kept : \E fp \in F : RowOf(fp) = k /\ Items(F)[fp] = kept[k]
  BY <1>1, ItemsAreOK, KeptItems
<1>3. \A k \in DOMAIN kept : kept[k] \in Alerting
  BY <1>1, <1>2
<1>4. /\ DOMAIN rows = Differs(kept)
      /\ \A k \in DOMAIN rows :
           rows[k].state = IF k \in DOMAIN kept THEN kept[k] ELSE "inactive"
  BY <1>2, ReconciledRows
<1>5. ASSUME NEW k \in DOMAIN rows
      PROVE  rows[k].state \in Alerting <=> k \in Rows(F)
  BY <1>2, <1>3, <1>4 DEF Alerting, Differs
<1>6. ASSUME NEW k, k \notin DOMAIN rows
      PROVE  Alerts(history, k) <=> k \in Rows(F)
  BY <1>2, <1>3, <1>4, <1>6 DEF Alerts, Differs
<1> QED
  BY <1>5, <1>6 DEF Alerts, Updated

\* The latest rows are those that were just saved, if any were.
LEMMA LatestAreNew ==
  ASSUME RuleInv, HistoryInv, pc = "eval", NEW rows, NEW some \in DOMAIN rows,
         \A fp \in DOMAIN rows : rows[fp].at = now,
         history' = Updated(history, rows)
  PROVE  LatestRows' \subseteq DOMAIN rows /\ \A fp \in DOMAIN rows : history'[fp] = rows[fp]
<1>1. now \in Nat /\ \A fp \in DOMAIN history : history[fp].at \in Nat /\ history[fp].at < now
  BY HistoryRowFields, SetupTypes DEF RuleInv, TypeOK, HistoryInv, Time
<1>2. ASSUME NEW fp \in LatestRows', fp \notin DOMAIN rows
      PROVE  FALSE
  <2>1. fp \in DOMAIN history' /\ history'[some].at <= history'[fp].at
    BY DEF LatestRows, Updated
  <2>2. fp \in DOMAIN history /\ history'[fp] = history[fp] /\ history'[some].at = now
    BY <1>2, <2>1 DEF Updated
  <2> QED
    BY <1>1, <2>1, <2>2
<1> QED
  BY <1>2 DEF Updated
\* A process that never restarted saves the overall state with the rows.
LEMMA OverallIsSaved ==
  ASSUME RuleInv, RuleInv', HistoryInv, pc = "eval",
         NEW F \in SUBSET FP, active' = Evaluated(F),
         DOMAIN history = {} \/ handledRestart, ~lost, resets.restart = 0,
         NEW kept \in Kept(Items(F)), NEW rows,
         rows = [k \in DOMAIN kept |-> Row(kept[k], OverallState(active'))],
         history' = Updated(history, rows)
  PROVE  \A fp \in LatestRows' : history'[fp].overall = OverallState(active')
<1>1. /\ DOMAIN rows = Rows(DOMAIN Items(F))
      /\ DOMAIN Items(F) = {fp \in F \cup DOMAIN active : (fp \in F) # Firing(fp)}
  BY ItemsOfChange, ItemsAreOK, KeptItems
<1>2. CASE DOMAIN rows = {}
  <2>1. /\ DOMAIN history' = DOMAIN history
        /\ \A fp \in DOMAIN history : history'[fp] = history[fp]
    BY <1>2 DEF Updated
  <2>2. CASE DOMAIN history = {}
    BY <2>1, <2>2 DEF LatestRows
  <2>3. CASE handledRestart
    <3>1. \A fp : Firing(fp)' <=> Firing(fp)
      <4>1. ASSUME NEW fp PROVE fp \in F <=> Firing(fp)
        <5>1. DOMAIN Items(F) = {}
          BY <1>1, <1>2 DEF Rows
        <5> QED
          BY <1>1, <5>1 DEF Firing
      <4> QED
        BY <4>1, FoundFires
    <3>2. OverallState(active') = OverallState(active)
      <4>1. OverallState(active) =
              IF \E fp \in DOMAIN active : active[fp].state = "firing"
              THEN "firing" ELSE "inactive"
        BY OverallIsFiring DEF RuleInv, AlertInv
      <4>2. \A fp \in DOMAIN active' : active'[fp].state # "pending"
        BY DEF RuleInv, AlertInv
      <4>3. OverallState(active') =
              IF \E fp \in DOMAIN active' : active'[fp].state = "firing"
              THEN "firing" ELSE "inactive"
        BY <4>2, OverallIsFiring
      <4>4. (\E fp \in DOMAIN active' : active'[fp].state = "firing")
              <=> (\E fp \in DOMAIN active : active[fp].state = "firing")
        BY <3>1 DEF Firing
      <4> QED
        BY <4>1, <4>3, <4>4
    <3>3. \A fp \in LatestRows : history[fp].overall = OverallState(active)
      BY <2>3 DEF HistoryInv, HistoryAgrees
    <3>4. LatestRows' \subseteq LatestRows
      BY <2>1 DEF LatestRows
    <3>5. \A fp \in LatestRows' : fp \in DOMAIN history
      BY <2>1 DEF LatestRows
    <3> QED
      BY <2>1, <3>2, <3>3, <3>4, <3>5
  <2> QED
    BY <2>2, <2>3
<1>3. CASE DOMAIN rows # {}
  <2>1. PICK some : some \in DOMAIN rows
    BY <1>3
  <2>2. \A fp \in DOMAIN rows : rows[fp].at = now /\ rows[fp].overall = OverallState(active')
    BY DEF Row
  <2>3. LatestRows' \subseteq DOMAIN rows /\ \A fp \in DOMAIN rows : history'[fp] = rows[fp]
    BY <2>1, <2>2, LatestAreNew
  <2> QED
    BY <2>2, <2>3
<1> QED
  BY <1>2, <1>3

LEMMA EvalKeepsHistoryInv ==
  ASSUME RuleInv, RuleInv', HistoryInv, NEW hasData \in BOOLEAN,
         NEW result \in SUBSET Series, Eval(hasData, result)
  PROVE  HistoryInv'
<1>1. PICK F \in SUBSET FP : Evaluates(F)
  BY EvalEvaluates
<1>2. /\ setup \in Setups /\ now' = now /\ pc = "eval" /\ pc' = "send"
      /\ resets' = resets /\ now \in Nat
      /\ \A fp \in DOMAIN history : history[fp].at \in Nat /\ history[fp].at < now
      /\ active' = Evaluated(F) /\ handledRestart \in BOOLEAN
      /\ blurred' = (blurred \ Rows(DOMAIN Items(F))) \cup Blurs(Items(F), active')
  BY <1>1, HistoryRowFields, SetupTypes
     DEF Eval, Evaluates, RuleInv, TypeOK, HistoryInv, Time
<1>3. CASE lost' = TRUE /\ history' = history /\ handledRestart' \in {handledRestart, TRUE}
  <2>1. ~handledRestart' /\ resets'.restart = 0 => DOMAIN history' = {}
    BY <1>2, <1>3 DEF HistoryInv
  <2>2. \A fp \in DOMAIN history' : history'[fp].at <= now'
    BY <1>2, <1>3
  <2> QED
    BY <1>2, <1>3, <2>1, <2>2 DEF HistoryInv, HistoryAgrees
<1>4. CASE Saved(Items(F), OverallState(active'))
  <2>1. PICK kept \in Kept(Items(F)) :
          \E rows : /\ SavedRows(rows, kept, OverallState(active'))
                    /\ handledRestart' = TRUE /\ lost' = lost
                    /\ history' = Updated(history, rows)
    BY <1>4 DEF Saved
  <2>2. PICK rows : /\ SavedRows(rows, kept, OverallState(active'))
                    /\ handledRestart' = TRUE /\ lost' = lost
                    /\ history' = Updated(history, rows)
    BY <2>1
  <2>3. OverallState(active') \in {"firing", "pending", "inactive"} /\ KeptOK(kept)
    BY OverallStateValue, ItemsAreOK, KeptItems
  <2>4. \A k \in DOMAIN rows : rows[k].at = now
    BY <2>2, <2>3, SavedRowsOK DEF RowFacts
  <2>5. \A k \in DOMAIN history' : history'[k].at <= now'
    BY <1>2, <2>2, <2>4 DEF Updated
  <2>6. ASSUME ~lost, handledRestart \/ DOMAIN history = {}
        PROVE  StatesAgree
    <3>1. CASE handledRestart
      BY <2>6, <3>1 DEF HistoryInv, HistoryAgrees, StatesAgree, Alerts, FiresAs, Rows
    <3>2. CASE ~handledRestart
      BY <2>6, <3>2 DEF HistoryInv, StatesAgree, Alerts, FiresAs
    <3> QED
      BY <3>1, <3>2
  <2>7. ASSUME ~lost
        PROVE  \A k : k \notin blurred' => (FiresAs(k)' <=> Alerts(history', k))
    <3>1. CASE ~handledRestart /\ DOMAIN history # {}
      <4>1. PICK first : rows = Reconciled(kept, OverallState(active'), first)
        BY <2>2, <3>1 DEF SavedRows
      <4>2. DOMAIN active = {}
        BY <2>7, <3>1 DEF HistoryInv
      <4>3. \A k : Alerts(history', k) <=> k \in Rows(F)
        BY <2>2, <2>3, <4>1, <4>2, ReconciledRowsAgree
      <4> QED
        BY <1>2, <4>3, FoundFiresAs
    <3>2. CASE ~(~handledRestart /\ DOMAIN history # {})
      <4>1. rows = [k \in DOMAIN kept |-> Row(kept[k], OverallState(active'))]
        BY <2>2, <3>2 DEF SavedRows
      <4>2. StatesAgree
        BY <2>6, <2>7, <3>2
      <4>3. \A k : k \notin blurred' => (Alerts(history', k) <=> k \in Rows(F))
        BY <1>2, <2>2, <4>1, <4>2, PlainRowsAgree
      <4> QED
        BY <1>2, <4>3, FoundFiresAs
    <3> QED
      BY <3>1, <3>2
  <2>8. ASSUME ~lost, resets.restart = 0
        PROVE  \A k \in LatestRows' : history'[k].overall = OverallState(active')
    <3>1. DOMAIN history = {} \/ handledRestart
      BY <2>8 DEF HistoryInv
    <3>2. rows = [k \in DOMAIN kept |-> Row(kept[k], OverallState(active'))]
      BY <2>2, <3>1 DEF SavedRows
    <3> QED
      BY <1>2, <2>2, <2>8, <3>1, <3>2, OverallIsSaved
  <2>9. HistoryAgrees'
    BY <1>2, <2>2, <2>7, <2>8 DEF HistoryAgrees, Alerts, FiresAs
  <2> QED
    BY <1>2, <2>2, <2>5, <2>9 DEF HistoryInv
<1> QED
  BY <1>1, <1>3, <1>4 DEF Evaluates

\* A step that leaves the states of the alerts and the history alone
LEMMA SameHistory ==
  ASSUME RuleInv, HistoryInv, history' = history, lost' = lost, blurred' = blurred,
         handledRestart' = handledRestart, now' \in Nat, now <= now',
         pc' = "eval" => now < now',
         DOMAIN active' = DOMAIN active,
         \A fp \in DOMAIN active : active'[fp].state = active[fp].state,
         resets'.restart = resets.restart
  PROVE  HistoryInv'
<1>1. now \in Nat /\ \A fp \in DOMAIN history : history[fp].at \in Nat
  BY HistoryRowFields, SetupTypes DEF RuleInv, TypeOK, Time
<1>2. \A fp \in DOMAIN history' :
        history'[fp].at <= now' /\ (pc' = "eval" => history'[fp].at < now')
  BY <1>1 DEF HistoryInv
<1>3. \A fp : Firing(fp)' <=> Firing(fp)
  BY DEF Firing
<1>4. OverallState(active') = OverallState(active)
  BY DEF OverallState
<1>5. LatestRows' = LatestRows
  BY DEF LatestRows
<1>6. HistoryAgrees'
  BY <1>3, <1>4, <1>5 DEF HistoryInv, HistoryAgrees, Alerting
<1> QED
  BY <1>2, <1>6 DEF HistoryInv
LEMMA InitHistoryInv == Init => HistoryInv
BY NoDomain DEF Init, HistoryInv, HistoryAgrees

LEMMA NextHistoryInv == RuleInv /\ HistoryInv /\ [Next]_vars => HistoryInv'
<1> SUFFICES ASSUME RuleInv, HistoryInv, [Next]_vars PROVE HistoryInv'
  OBVIOUS
<1>1. RuleInv'
  BY NextRuleInv
<1>2. now \in Nat
  BY SetupTypes DEF RuleInv, TypeOK, Time
<1>3. CASE Tick
  BY <1>2, <1>3, SameHistory DEF Tick
<1>4. CASE \E hasData \in BOOLEAN, result \in SUBSET Series : Eval(hasData, result)
  BY <1>1, <1>4, EvalKeepsHistoryInv
<1>5. CASE NoEval
  BY <1>2, <1>5, SameHistory DEF NoEval
<1>6. CASE \E delivered \in BOOLEAN : SendAlerts(delivered)
  <2>1. PICK delivered \in BOOLEAN : SendAlerts(delivered)
    BY <1>6
  <2>2. Sends(delivered)
    BY <2>1, SendAlertsSends
  <2>3. /\ DOMAIN active' = DOMAIN active
        /\ \A fp \in DOMAIN active : active'[fp].state = active[fp].state
    <3>1. now \in Time /\ \A fp \in DOMAIN active : active[fp] \in AlertRecord
      BY DEF RuleInv, TypeOK
    <3> QED
      BY <2>2, <3>1, SentFields DEF Sends
  <2>4. /\ history' = history /\ lost' = lost /\ blurred' = blurred
        /\ handledRestart' = handledRestart /\ now' = now /\ pc' = "wait"
        /\ resets' = resets
    BY <2>1 DEF SendAlerts
  <2> QED
    BY <1>2, <2>3, <2>4, SameHistory
<1>7. CASE OrgQueryFails
  BY <1>2, <1>7, SameHistory DEF OrgQueryFails
<1>8. CASE Restart
  <2>1. handledRestart' = FALSE /\ DOMAIN active' = {} /\ history' = history /\ now' = now
        /\ pc' = "wait"
    BY <1>8, NoDomain DEF Restart
  <2>2. resets'.restart # 0
    BY <1>8, SetupTypes DEF Restart, RuleInv, TypeOK
  <2>3. HistoryAgrees'
    BY <2>1 DEF HistoryAgrees
  <2> QED
    BY <2>1, <2>2, <2>3 DEF HistoryInv
<1>9. CASE Edit
  <2>1. resets'.restart = resets.restart
    BY <1>9 DEF Edit, RuleInv, TypeOK
  <2> QED
    BY <1>2, <1>9, <2>1, SameHistory DEF Edit
<1>10. CASE UNCHANGED vars
  BY <1>10 DEF vars, HistoryInv, HistoryAgrees, LatestRows, Firing, Rows, RowOf
<1> QED
  BY <1>3, <1>4, <1>5, <1>6, <1>7, <1>8, <1>9, <1>10 DEF Next

THEOREM HistoryInvariant == Spec => []HistoryInv
BY InitRuleInv, NextRuleInv, InitHistoryInv, NextHistoryInv, PTL DEF Spec

\* However often the process restarts, once it has been handled, and unless
\* rows were not saved, the last saved state of each history fingerprint alerts
\* exactly when an alert with it fires (Eval, RecordRuleStateHistory, CopyState):
\* alerts that share a fingerprint leave it open only as blurred says.
THEOREM HistoryAgreesAlways == Spec => []HistoryAgrees
<1>1. HistoryInv => HistoryAgrees
  BY DEF HistoryInv
<1> QED
  BY <1>1, HistoryInvariant, PTL
-----------------------------------------------------------------------------
(* Multiples of the frequency. *)

LEMMA Quotient ==
  ASSUME NEW x \in Nat, NEW d \in Nat, d > 0
  PROVE  (x % d) \in 0..(d - 1) /\ (x \div d) \in Int /\ x = (d * (x \div d)) + (x % d)
OBVIOUS

LEMMA MultiplesApart ==
  ASSUME NEW d \in Nat, d > 0, NEW q \in Int, NEW p \in Int, q < p
  PROVE  d * q + d <= d * p
OBVIOUS

LEMMA OneRemainder ==
  ASSUME NEW d \in Nat, d > 0, NEW q \in Int, NEW r \in 0..(d - 1),
         NEW p \in Int, NEW s \in 0..(d - 1), d * q + r = d * p + s
  PROVE  r = s
OBVIOUS

LEMMA NextMultiple ==
  ASSUME NEW x \in Nat, NEW y \in Nat, NEW d \in Nat, d > 0,
         x % d = 0, y % d = 0, x < y
  PROVE  x + d <= y
<1> DEFINE q == x \div d
           p == y \div d
<1>1. q \in Int /\ p \in Int /\ x = d * q /\ y = d * p
  BY Quotient
<1> HIDE DEF q, p
<1>2. CASE p <= q
  <2>1. p = q \/ p < q
    BY <1>1, <1>2
  <2> QED
    BY <1>1, <2>1, MultiplesApart
<1>3. CASE q < p
  BY <1>1, <1>3, MultiplesApart
<1> QED
  BY <1>1, <1>2, <1>3

LEMMA NextRemainder ==
  ASSUME NEW x \in Nat, NEW d \in Nat, d > 0
  PROVE  (x + 1) % d = IF x % d = d - 1 THEN 0 ELSE (x % d) + 1
<1> DEFINE q == x \div d
           r == x % d
           p == (x + 1) \div d
           s == (x + 1) % d
<1>1. q \in Int /\ r \in 0..(d - 1) /\ x = d * q + r
  BY Quotient
<1>2. p \in Int /\ s \in 0..(d - 1) /\ x + 1 = d * p + s
  BY Quotient
<1> HIDE DEF q, r, p, s
<1>3. CASE r = d - 1
  <2>1. d * (q + 1) + 0 = d * p + s
    BY <1>1, <1>2, <1>3
  <2>2. q + 1 \in Int /\ 0 \in 0..(d - 1)
    BY <1>1
  <2>3. s = 0
    BY <1>2, <2>1, <2>2, OneRemainder
  <2> QED
    BY <1>3, <2>3 DEF r, s
<1>4. CASE r # d - 1
  <2>1. d * q + (r + 1) = d * p + s
    BY <1>1, <1>2
  <2>2. r + 1 \in 0..(d - 1)
    BY <1>1, <1>4
  <2>3. s = r + 1
    BY <1>1, <1>2, <2>1, <2>2, OneRemainder
  <2> QED
    BY <1>4, <2>3 DEF r, s
<1> QED
  BY <1>3, <1>4

-----------------------------------------------------------------------------
(* Cycles. *)

\* The cycle that is under way or comes next
NextDue ==
  IF pc = "wait" THEN now - ((now - StartTime) % Frequency) + Frequency ELSE now

Longer == LongerOf(ResendDelay, Frequency)

LEMMA LongerBounds ==
  ASSUME setup \in Setups
  PROVE  Longer \in Nat /\ ResendDelay <= Longer /\ Frequency <= Longer
BY SetupTypes DEF Longer, LongerOf

LEMMA DueApart ==
  ASSUME setup \in Setups, NEW s \in Nat, NEW t \in Nat, StartTime <= s,
         Due(s), Due(t), s < t
  PROVE  s + Frequency <= t
<1>1. s - StartTime \in Nat /\ t - StartTime \in Nat /\ s - StartTime < t - StartTime
  BY SetupTypes
<1>2. (s - StartTime) + Frequency <= t - StartTime
  BY <1>1, SetupTypes, NextMultiple DEF Due
<1> QED
  BY <1>1, <1>2, SetupTypes

LEMMA NextDueBounds ==
  ASSUME RuleInv
  PROVE  /\ NextDue \in Nat
         /\ pc = "wait" => now < NextDue
         /\ pc # "wait" => NextDue = now
<1>1. now - StartTime \in Nat /\ now \in Nat /\ setup \in Setups
  BY SetupTypes DEF RuleInv, TypeOK, Time
<1>2. (now - StartTime) % Frequency \in 0..(Frequency - 1)
  BY <1>1, SetupTypes, Quotient
<1>3. (now - StartTime) % Frequency <= now - StartTime
  BY <1>1, SetupTypes
<1> QED
  BY <1>1, <1>2, <1>3, SetupTypes DEF NextDue

\* Time passes within a cycle.
LEMMA TickKeepsNextDue ==
  ASSUME RuleInv, Tick
  PROVE  NextDue' = NextDue
<1> DEFINE x == now - StartTime
<1>1. x \in Nat /\ now \in Nat /\ StartTime \in Nat /\ Frequency \in Nat /\ Frequency > 0
  BY SetupTypes DEF RuleInv, TypeOK, Time
<1>2. /\ pc = "wait" /\ now' = now + 1
      /\ pc' = IF (now + 1 - StartTime) % Frequency = 0 THEN "eval" ELSE "wait"
      /\ Frequency' = Frequency /\ StartTime' = StartTime
  BY SetupFixed DEF Tick
<1>3. now + 1 - StartTime = x + 1
  BY <1>1
<1>4. x % Frequency \in 0..(Frequency - 1)
  BY <1>1, Quotient
<1>5. (x + 1) % Frequency = IF x % Frequency = Frequency - 1 THEN 0 ELSE (x % Frequency) + 1
  BY <1>1, NextRemainder
<1>6. NextDue = now - (x % Frequency) + Frequency
  BY <1>2 DEF NextDue
<1>7. now' - StartTime' = x + 1
  BY <1>1, <1>2, <1>3
<1>8. NextDue' = IF pc' = "wait" THEN now' - ((now' - StartTime') % Frequency') + Frequency'
                 ELSE now'
  BY DEF NextDue
<1>9. NextDue' = IF pc' = "wait" THEN now + 1 - ((x + 1) % Frequency) + Frequency
                 ELSE now + 1
  BY <1>1, <1>2, <1>7, <1>8
<1>10. pc' = IF (x + 1) % Frequency = 0 THEN "eval" ELSE "wait"
  BY <1>2, <1>3
<1> HIDE DEF x
<1>11. CASE x % Frequency = Frequency - 1
  BY <1>1, <1>5, <1>6, <1>9, <1>10, <1>11
<1>12. CASE x % Frequency # Frequency - 1
  <2>1. (x + 1) % Frequency = (x % Frequency) + 1 /\ (x % Frequency) + 1 # 0
    BY <1>4, <1>5, <1>12
  <2> QED
    BY <1>1, <1>4, <1>6, <1>9, <1>10, <2>1
<1> QED
  BY <1>11, <1>12

\* A cycle ends.
LEMMA CycleEnds ==
  ASSUME RuleInv, pc # "wait", pc' = "wait", now' = now, setup' = setup
  PROVE  NextDue' = NextDue + Frequency
<1>1. /\ NextDue' = now - ((now - StartTime) % Frequency) + Frequency
      /\ NextDue = now
  BY SetupFixed DEF NextDue
<1>2. (now - StartTime) % Frequency = 0 /\ now \in Nat /\ Frequency \in Nat
  BY SetupTypes DEF RuleInv, Due, TypeOK, Time
<1> QED
  BY <1>1, <1>2

LEMMA CycleGoesOn ==
  ASSUME now' = now, setup' = setup, pc' = "wait" <=> pc = "wait"
  PROVE  NextDue' = NextDue
BY SetupFixed DEF NextDue
-----------------------------------------------------------------------------
(* What the Alertmanager was told. *)

\* What arrived last is what the Alertmanager holds.
Arrived(fp) ==
  active[fp].arrivedAt # 0 =>
    /\ fp \in DOMAIN am
    /\ am[fp] = IF active[fp].resolvedAt # 0 /\ active[fp].resolvedAt <= active[fp].arrivedAt
                THEN active[fp].resolvedAt
                ELSE active[fp].arrivedAt + 4 * Longer

Completed == pc = "wait" /\ misses = 0

\* A completed cycle leaves nothing that was not marked as sent.
Marked(fp) ==
  Completed => /\ active[fp].lastSentAt # 0
               /\ active[fp].resolvedAt <= active[fp].lastSentAt

\* An alert is sent again ResendDelay after it was sent, but for the cycles
\* that are missed.
Resent(fp) ==
  active[fp].lastSentAt # 0 =>
    NextDue <= active[fp].lastSentAt + ResendDelay + (misses + 1) * Frequency

\* Where the task evaluates more slowly than alerts are sent again, it sends
\* every alert in every cycle, so only the cycles that are missed in a row
\* separate an alert from its last post that arrived.
Reposted(fp) ==
  ResendDelay < Frequency /\ active[fp].arrivedAt # 0 =>
    NextDue <= active[fp].arrivedAt + (misses + 1) * Frequency

\* No post made the Alertmanager show a resolved alert for longer.
Outlived(fp) ==
  active[fp].state = "inactive" /\ fp \in DOMAIN am =>
    am[fp] <= active[fp].resolvedAt + 4 * Longer

DeliveryInv ==
  /\ \A fp \in DOMAIN active :
       /\ active[fp].arrivedAt <= active[fp].lastSentAt
       /\ Arrived(fp) /\ Marked(fp) /\ Resent(fp) /\ Reposted(fp) /\ Outlived(fp)
  /\ \A fp \in DOMAIN am : am[fp] <= now + 4 * Longer

\* The fields of an alert are times that have passed.
LEMMA AlertTimes ==
  ASSUME RuleInv, NEW fp \in DOMAIN active
  PROVE  /\ active[fp].state \in {"firing", "inactive"}
         /\ active[fp].resolvedAt \in Nat /\ active[fp].lastSentAt \in Nat
         /\ active[fp].arrivedAt \in Nat
         /\ active[fp].resolvedAt <= now /\ active[fp].lastSentAt <= now
         /\ active[fp].state = "inactive" <=> active[fp].resolvedAt # 0
         /\ pc # "wait" => active[fp].lastSentAt < now
         /\ active[fp] \in AlertRecord
BY AlertFields, SetupTypes DEF RuleInv, AlertInv, TypeOK, Time, Zero

\* Numbers that the arguments about time are about
LEMMA Numbers ==
  ASSUME RuleInv
  PROVE  /\ now \in Nat /\ now > 0 /\ now > ResendDelay
         /\ Frequency \in Nat /\ Frequency > 0 /\ ResendDelay \in Nat
         /\ misses \in Nat /\ Retention \in Nat
         /\ (misses + 1) * Frequency \in Nat
         /\ ((misses + 1) + 1) * Frequency = (misses + 1) * Frequency + Frequency
         /\ Longer \in Nat /\ ResendDelay <= Longer /\ Frequency <= Longer
<1>1. /\ now \in Nat /\ Frequency \in Nat /\ Frequency > 0 /\ ResendDelay \in Nat
      /\ misses \in Nat /\ Retention \in Nat
      /\ Longer \in Nat /\ ResendDelay <= Longer /\ Frequency <= Longer
  BY SetupTypes, LongerBounds DEF RuleInv, TypeOK, Time
<1>2. now > 0 /\ now > ResendDelay
  BY <1>1, SetupTypes DEF RuleInv, TypeOK, StartTime
<1>3. /\ (misses + 1) * Frequency \in Nat
      /\ ((misses + 1) + 1) * Frequency = (misses + 1) * Frequency + Frequency
  BY <1>1
<1> QED
  BY <1>1, <1>2, <1>3

LEMMA LongerFixed ==
  ASSUME setup' = setup
  PROVE  Longer' = Longer
BY SetupFixed DEF Longer, LongerOf

LEMMA ShownUntil ==
  ASSUME RuleInv
  PROVE  \A fp \in DOMAIN am : am[fp] \in Nat
BY DEF RuleInv, TypeOK

\* Every alert was sent in an earlier cycle or not yet, so all of them are
\* due where alerts are sent again sooner than the task evaluates.
LEMMA AllDue ==
  ASSUME RuleInv, pc = "send", ResendDelay < Frequency, NEW fp \in DOMAIN active
  PROVE  NeedsSending(active[fp])
<1> DEFINE t == active[fp].lastSentAt
<1>1. /\ t \in Nat /\ t < now /\ active[fp].state # "pending"
      /\ now \in Nat /\ ResendDelay \in Nat /\ Frequency \in Nat /\ now > ResendDelay
  BY AlertTimes, Numbers
<1>2. CASE t = 0
  BY <1>1, <1>2 DEF NeedsSending
<1>3. CASE t # 0
  <2>1. Due(t) /\ StartTime <= t /\ Due(now) /\ setup \in Setups
    BY <1>3 DEF RuleInv, TypeOK, AlertInv, Zero
  <2> HIDE DEF t
  <2>2. t + Frequency <= now
    BY <1>1, <2>1, DueApart
  <2>3. t + ResendDelay < now
    BY <1>1, <2>2
  <2> QED
    BY <1>1, <2>3 DEF NeedsSending, t
<1> QED
  BY <1>2, <1>3

\* What an evaluation leaves of an alert: a new one, one that has just
\* resolved, or the alert as it was.
LEMMA EvalCases ==
  ASSUME RuleInv, NEW F, active' = Evaluated(F), NEW fp \in DOMAIN active'
  PROVE  \/ /\ active'[fp].state = "firing" /\ active'[fp].lastSentAt = 0
            /\ active'[fp].arrivedAt = 0
         \/ /\ fp \in DOMAIN active /\ active[fp].state = "firing"
            /\ active'[fp].state = "inactive" /\ active'[fp].resolvedAt = now
            /\ active'[fp].lastSentAt = active[fp].lastSentAt
            /\ active'[fp].arrivedAt = active[fp].arrivedAt
         \/ fp \in DOMAIN active /\ active'[fp] = active[fp]
<1>1. now \in Time /\ setup \in Setups
  BY DEF RuleInv, TypeOK
<1>2. \/ active'[fp] = Fresh
      \/ Firing(fp) /\ active'[fp] = Resolved(active[fp])
      \/ fp \in DOMAIN active /\ active'[fp] = active[fp]
  BY EvaluatedAlerts DEF Firing
<1>3. CASE active'[fp] = Fresh
  BY <1>1, <1>3, FreshFields DEF Zero
<1>4. CASE Firing(fp) /\ active'[fp] = Resolved(active[fp])
  BY <1>1, <1>4, ResolvedFields, AlertTimes DEF Firing
<1> QED
  BY <1>2, <1>3, <1>4

\* What sending does to an alert: it is marked, and where the post arrives the
\* Alertmanager holds when it ends; or it was not due.
LEMMA SendCases ==
  ASSUME RuleInv, NEW delivered \in BOOLEAN, Sends(delivered), NEW fp \in DOMAIN active
  PROVE  /\ fp \in DOMAIN active'
         /\ active'[fp].state = active[fp].state
         /\ active'[fp].resolvedAt = active[fp].resolvedAt
         /\ \/ /\ NeedsSending(active[fp]) /\ active'[fp].lastSentAt = now
               /\ IF delivered
                  THEN /\ active'[fp].arrivedAt = now /\ fp \in DOMAIN am'
                       /\ am'[fp] = IF active[fp].resolvedAt # 0 THEN active[fp].resolvedAt
                                    ELSE now + 4 * Longer
                  ELSE active'[fp].arrivedAt = active[fp].arrivedAt /\ am' = am
            \/ /\ active'[fp] = active[fp]
               /\ active[fp].lastSentAt # 0
               /\ active[fp].resolvedAt <= active[fp].lastSentAt
               /\ now <= active[fp].lastSentAt + ResendDelay
               /\ fp \in DOMAIN am' <=> fp \in DOMAIN am
               /\ fp \in DOMAIN am => am'[fp] = am[fp]
               /\ ~NeedsSending(active[fp])
<1>1. /\ fp \in DOMAIN active'
      /\ active'[fp] = IF NeedsSending(active[fp]) THEN Sent(active[fp], delivered)
                       ELSE active[fp]
  BY DEF Sends
<1>2. active[fp] \in AlertRecord /\ now \in Time
  BY DEF RuleInv, TypeOK
<1>3. CASE NeedsSending(active[fp])
  <2>1. /\ active'[fp].state = active[fp].state
        /\ active'[fp].resolvedAt = active[fp].resolvedAt
        /\ active'[fp].lastSentAt = now
        /\ active'[fp].arrivedAt = IF delivered THEN now ELSE active[fp].arrivedAt
    BY <1>1, <1>2, <1>3, SentFields
  <2>2. IF delivered THEN fp \in DOMAIN am' /\ am'[fp] = EndsAt(active[fp]) ELSE am' = am
    BY <1>3 DEF Sends
  <2>3. EndsAt(active[fp]) = IF active[fp].resolvedAt # 0 THEN active[fp].resolvedAt
                             ELSE now + 4 * Longer
    BY DEF EndsAt, Validity, Longer, Zero
  <2> QED
    BY <1>1, <1>3, <2>1, <2>2, <2>3
<1>4. CASE ~NeedsSending(active[fp])
  <2>1. /\ active[fp].state # "pending" /\ active[fp].resolvedAt \in Nat
        /\ active[fp].lastSentAt \in Nat
        /\ now \in Nat /\ ResendDelay \in Nat /\ now > ResendDelay
    BY AlertTimes, Numbers
  <2>2. active[fp].resolvedAt <= active[fp].lastSentAt
        /\ now <= active[fp].lastSentAt + ResendDelay
    BY <1>4, <2>1 DEF NeedsSending
  <2>3. active[fp].lastSentAt # 0
    BY <2>1, <2>2
  <2>4. /\ fp \in DOMAIN am' <=> fp \in DOMAIN am
        /\ fp \in DOMAIN am => am'[fp] = am[fp]
    BY <1>4 DEF Sends
  <2> QED
    BY <1>1, <1>4, <2>2, <2>3, <2>4
<1> QED
  BY <1>3, <1>4

\* A step that leaves the alerts and the Alertmanager alone: time passes, or a
\* cycle is missed.
LEMMA QuietKeepsDeliveryInv ==
  ASSUME RuleInv, DeliveryInv, active' = active, am' = am, setup' = setup,
         now' \in Nat, now <= now', Completed' => Completed,
         \/ NextDue' = NextDue /\ misses' = misses
         \/ NextDue' = NextDue + Frequency /\ misses' = misses + 1
  PROVE  DeliveryInv'
<1>1. /\ NextDue \in Nat /\ Frequency' = Frequency /\ ResendDelay' = ResendDelay
      /\ Longer' = Longer
      /\ \/ NextDue' = NextDue /\ (misses' + 1) * Frequency = (misses + 1) * Frequency
         \/ /\ NextDue' = NextDue + Frequency
            /\ (misses' + 1) * Frequency = (misses + 1) * Frequency + Frequency
  BY NextDueBounds, Numbers, SetupFixed, LongerFixed
<1>2. ASSUME NEW fp \in DOMAIN active
      PROVE  /\ active[fp].arrivedAt <= active[fp].lastSentAt
             /\ Arrived(fp)' /\ Marked(fp)' /\ Resent(fp)' /\ Reposted(fp)' /\ Outlived(fp)'
  <2>1. /\ active[fp].lastSentAt \in Nat /\ active[fp].arrivedAt \in Nat
        /\ ResendDelay \in Nat /\ Frequency \in Nat /\ (misses + 1) * Frequency \in Nat
    BY AlertTimes, Numbers
  <2>2. /\ active[fp].arrivedAt <= active[fp].lastSentAt
        /\ Arrived(fp)' /\ Marked(fp)' /\ Outlived(fp)'
    BY <1>1 DEF DeliveryInv, Arrived, Marked, Outlived
  <2>3. Resent(fp) /\ Reposted(fp)
    BY DEF DeliveryInv
  <2>4. Resent(fp)'
    BY <1>1, <2>1, <2>3 DEF Resent
  <2>5. Reposted(fp)'
    BY <1>1, <2>1, <2>3 DEF Reposted
  <2> QED
    BY <2>2, <2>4, <2>5
<1>3. \A fp \in DOMAIN am : am[fp] <= now' + 4 * Longer
  BY Numbers, ShownUntil DEF DeliveryInv
<1> QED
  BY <1>1, <1>2, <1>3 DEF DeliveryInv

LEMMA EvalKeepsDeliveryInv ==
  ASSUME RuleInv, DeliveryInv, NEW hasData, NEW result \in SUBSET Series,
         Eval(hasData, result)
  PROVE  DeliveryInv'
<1>1. PICK F \in SUBSET FP : Evaluates(F)
  BY EvalEvaluates
<1>2. /\ active' = Evaluated(F) /\ setup' = setup /\ now' = now /\ am' = am
      /\ misses' = misses /\ pc = "eval" /\ pc' = "send"
  BY <1>1 DEF Eval, Evaluates
<1>3. NextDue' = NextDue /\ NextDue = now /\ Longer' = Longer
      /\ Frequency' = Frequency /\ ResendDelay' = ResendDelay
  BY <1>2, CycleGoesOn, NextDueBounds, LongerFixed, SetupFixed
<1>4. \A fp : Marked(fp)'
  BY <1>2 DEF Completed, Marked
<1>5. ASSUME NEW fp \in DOMAIN active'
      PROVE  /\ active'[fp].arrivedAt <= active'[fp].lastSentAt
             /\ Arrived(fp)' /\ Resent(fp)' /\ Reposted(fp)' /\ Outlived(fp)'
  <2>1. CASE /\ active'[fp].state = "firing" /\ active'[fp].lastSentAt = 0
             /\ active'[fp].arrivedAt = 0
    BY <2>1 DEF Arrived, Resent, Reposted, Outlived
  <2>2. CASE /\ fp \in DOMAIN active /\ active[fp].state = "firing"
             /\ active'[fp].state = "inactive" /\ active'[fp].resolvedAt = now
             /\ active'[fp].lastSentAt = active[fp].lastSentAt
             /\ active'[fp].arrivedAt = active[fp].arrivedAt
    <3>1. /\ active[fp].arrivedAt <= active[fp].lastSentAt
          /\ Arrived(fp) /\ Resent(fp) /\ Reposted(fp)
      BY <2>2 DEF DeliveryInv
    <3>2. /\ active[fp].lastSentAt < now /\ active[fp].arrivedAt < now
          /\ active[fp].resolvedAt = 0 /\ active[fp].arrivedAt \in Nat /\ now \in Nat
      BY <1>2, <2>2, <3>1, AlertTimes, Numbers
    <3>3. Arrived(fp)'
      BY <1>2, <1>3, <2>2, <3>1, <3>2 DEF Arrived
    <3>4. Resent(fp)' /\ Reposted(fp)'
      BY <1>2, <1>3, <2>2, <3>1 DEF Resent, Reposted
    <3>5. Outlived(fp)'
      BY <1>2, <1>3, <2>2 DEF DeliveryInv, Outlived
    <3> QED
      BY <2>2, <3>1, <3>3, <3>4, <3>5
  <2>3. CASE fp \in DOMAIN active /\ active'[fp] = active[fp]
    BY <1>2, <1>3, <2>3 DEF DeliveryInv, Arrived, Resent, Reposted, Outlived
  <2> QED
    BY <1>2, <2>1, <2>2, <2>3, EvalCases
<1> QED
  BY <1>2, <1>3, <1>4, <1>5 DEF DeliveryInv

\* An alert that was due is marked as sent now.
LEMMA DueKeepsDelivery ==
  ASSUME RuleInv, DeliveryInv, NEW delivered \in BOOLEAN, NEW fp \in DOMAIN active,
         setup' = setup, pc' = "wait", NextDue = now, NextDue' = now + Frequency,
         misses' = IF delivered THEN 0 ELSE misses + 1,
         active'[fp].state = active[fp].state,
         active'[fp].resolvedAt = active[fp].resolvedAt, active'[fp].lastSentAt = now,
         IF delivered
         THEN /\ active'[fp].arrivedAt = now /\ fp \in DOMAIN am'
              /\ am'[fp] = IF active[fp].resolvedAt # 0 THEN active[fp].resolvedAt
                           ELSE now + 4 * Longer
         ELSE active'[fp].arrivedAt = active[fp].arrivedAt /\ am' = am
  PROVE  /\ active'[fp].arrivedAt <= active'[fp].lastSentAt
         /\ Arrived(fp)' /\ Marked(fp)' /\ Resent(fp)' /\ Reposted(fp)' /\ Outlived(fp)'
<1>1. /\ active[fp].resolvedAt \in Nat /\ active[fp].resolvedAt <= now
      /\ active[fp].lastSentAt \in Nat /\ active[fp].lastSentAt <= now
      /\ active[fp].arrivedAt \in Nat /\ active[fp].arrivedAt <= active[fp].lastSentAt
      /\ active[fp].state = "inactive" <=> active[fp].resolvedAt # 0
      /\ now \in Nat /\ now > 0 /\ ResendDelay \in Nat /\ Frequency \in Nat /\ Longer \in Nat
      /\ Longer' = Longer /\ Frequency' = Frequency /\ ResendDelay' = ResendDelay
  BY AlertTimes, Numbers, LongerFixed, SetupFixed DEF DeliveryInv
<1>2. /\ (misses + 1) * Frequency \in Nat
      /\ delivered => (misses' + 1) * Frequency' = Frequency
      /\ ~delivered => (misses' + 1) * Frequency' = (misses + 1) * Frequency + Frequency
  BY <1>1, Numbers
<1>3. active'[fp].arrivedAt <= active'[fp].lastSentAt
  BY <1>1
<1>4. Arrived(fp) /\ Outlived(fp)
  BY DEF DeliveryInv
<1>5. Arrived(fp)' /\ Outlived(fp)'
  <2>1. CASE delivered
    BY <1>1, <2>1 DEF Arrived, Outlived
  <2>2. CASE ~delivered
    BY <1>1, <1>4, <2>2 DEF Arrived, Outlived
  <2> QED
    BY <2>1, <2>2
<1>6. Marked(fp)'
  BY <1>1 DEF Marked
<1>7. Resent(fp)'
  BY <1>1, <1>2 DEF Resent
<1>8. Reposted(fp)'
  <2>1. CASE delivered
    BY <1>1, <1>2, <2>1 DEF Reposted
  <2>2. CASE ~delivered
    <3>1. Reposted(fp)
      BY DEF DeliveryInv
    <3> QED
      BY <1>1, <1>2, <2>2, <3>1 DEF Reposted
  <2> QED
    BY <2>1, <2>2
<1> QED
  BY <1>3, <1>5, <1>6, <1>7, <1>8

LEMMA SendKeepsDeliveryInv ==
  ASSUME RuleInv, DeliveryInv, NEW delivered \in BOOLEAN, SendAlerts(delivered)
  PROVE  DeliveryInv'
<1>1. Sends(delivered)
  BY SendAlertsSends
<1>2. setup \in Setups /\ setup' = setup /\ now' = now /\ pc = "send" /\ pc' = "wait"
  BY DEF SendAlerts, RuleInv, TypeOK
<1>3. /\ NextDue' = now + Frequency /\ NextDue = now /\ Longer' = Longer
      /\ Frequency' = Frequency /\ ResendDelay' = ResendDelay
  BY <1>2, CycleEnds, NextDueBounds, LongerFixed, SetupFixed
<1>4. misses' = IF delivered THEN 0 ELSE misses + 1
  BY <1>1 DEF Sends
<1>5. DOMAIN active' = DOMAIN active
  BY <1>1 DEF Sends
<1>6. ASSUME NEW fp \in DOMAIN active
      PROVE  /\ active'[fp].arrivedAt <= active'[fp].lastSentAt
             /\ Arrived(fp)' /\ Marked(fp)' /\ Resent(fp)' /\ Reposted(fp)' /\ Outlived(fp)'
  <2>1. /\ active'[fp].state = active[fp].state
        /\ active'[fp].resolvedAt = active[fp].resolvedAt
    BY <1>1, SendCases
  <2>2. CASE /\ active'[fp].lastSentAt = now
             /\ IF delivered
                THEN /\ active'[fp].arrivedAt = now /\ fp \in DOMAIN am'
                     /\ am'[fp] = IF active[fp].resolvedAt # 0 THEN active[fp].resolvedAt
                                  ELSE now + 4 * Longer
                ELSE active'[fp].arrivedAt = active[fp].arrivedAt /\ am' = am
    BY <1>2, <1>3, <1>4, <2>1, <2>2, DueKeepsDelivery
  <2>3. CASE /\ active'[fp] = active[fp]
             /\ active[fp].lastSentAt # 0
             /\ active[fp].resolvedAt <= active[fp].lastSentAt
             /\ now <= active[fp].lastSentAt + ResendDelay
             /\ fp \in DOMAIN am' <=> fp \in DOMAIN am
             /\ fp \in DOMAIN am => am'[fp] = am[fp]
             /\ ~NeedsSending(active[fp])
    <3>1. /\ active[fp].arrivedAt <= active[fp].lastSentAt
          /\ Arrived(fp)' /\ Outlived(fp)' /\ Marked(fp)'
      BY <1>3, <2>3 DEF DeliveryInv, Arrived, Outlived, Marked
    <3>2. ~(ResendDelay < Frequency)
      BY <1>2, <2>3, AllDue
    <3>3. Reposted(fp)'
      BY <1>3, <3>2 DEF Reposted
    <3>4. Resent(fp)'
      <4>1. Frequency <= (misses' + 1) * Frequency /\ (misses' + 1) * Frequency \in Nat
        BY <1>4, Numbers
      <4>2. now + Frequency
              <= active[fp].lastSentAt + ResendDelay + (misses' + 1) * Frequency
        BY <2>3, <4>1, AlertTimes, Numbers
      <4> QED
        BY <1>3, <2>3, <4>2 DEF Resent
    <3> QED
      BY <2>3, <3>1, <3>3, <3>4
  <2> QED
    BY <1>1, <2>2, <2>3, SendCases
<1>7. \A fp \in DOMAIN am' : am'[fp] <= now + 4 * Longer
  <2>1. ASSUME NEW fp \in DOMAIN am', fp \in DOMAIN active, NeedsSending(active[fp]), delivered
        PROVE  am'[fp] <= now + 4 * Longer
    <3>1. am'[fp] = IF active[fp].resolvedAt # 0 THEN active[fp].resolvedAt
                    ELSE now + 4 * Longer
      BY <1>1, <2>1, SendCases
    <3> QED
      BY <2>1, <3>1, AlertTimes, Numbers
  <2>2. ASSUME NEW fp \in DOMAIN am',
               ~(fp \in DOMAIN active /\ NeedsSending(active[fp]) /\ delivered)
        PROVE  am'[fp] <= now + 4 * Longer
    <3>1. fp \in DOMAIN am /\ am'[fp] = am[fp]
      BY <1>1, <2>2 DEF Sends
    <3> QED
      BY <3>1 DEF DeliveryInv
  <2> QED
    BY <2>1, <2>2
<1> QED
  BY <1>2, <1>3, <1>5, <1>6, <1>7 DEF DeliveryInv

LEMMA NextDeliveryInv == RuleInv /\ DeliveryInv /\ [Next]_vars => DeliveryInv'
<1> SUFFICES ASSUME RuleInv, DeliveryInv, [Next]_vars PROVE DeliveryInv'
  OBVIOUS
<1>1. now \in Nat
  BY Numbers
<1>2. CASE Tick
  BY <1>1, <1>2, TickKeepsNextDue, QuietKeepsDeliveryInv DEF Tick, Completed
<1>3. CASE \E hasData \in BOOLEAN, result \in SUBSET Series : Eval(hasData, result)
  BY <1>3, EvalKeepsDeliveryInv
<1>4. CASE NoEval \/ OrgQueryFails
  <2>1. /\ setup' = setup /\ active' = active /\ am' = am /\ now' = now
        /\ misses' = misses + 1 /\ pc # "wait" /\ pc' = "wait"
    BY <1>4 DEF NoEval, OrgQueryFails
  <2>2. ~Completed'
    BY <2>1, Numbers DEF Completed
  <2> QED
    BY <1>1, <2>1, <2>2, CycleEnds, QuietKeepsDeliveryInv
<1>5. CASE \E delivered \in BOOLEAN : SendAlerts(delivered)
  BY <1>5, SendKeepsDeliveryInv
<1>6. CASE Restart
  <2>1. DOMAIN active' = {} /\ am' = am /\ now' = now /\ setup' = setup
    BY <1>6, NoDomain DEF Restart
  <2> QED
    BY <2>1, LongerFixed DEF DeliveryInv
<1>7. CASE Edit \/ UNCHANGED vars
  <2>1. /\ setup' = setup /\ active' = active /\ am' = am /\ now' = now
        /\ misses' = misses /\ pc' = pc
    BY <1>7 DEF Edit, vars
  <2> QED
    BY <1>1, <2>1, CycleGoesOn, QuietKeepsDeliveryInv DEF Completed
<1> QED
  BY <1>2, <1>3, <1>4, <1>5, <1>6, <1>7 DEF Next

THEOREM DeliveryInvariant == Spec => []DeliveryInv
<1>1. Init => DeliveryInv
  BY NoDomain DEF Init, DeliveryInv
<1> QED
  BY <1>1, InitRuleInv, NextRuleInv, NextDeliveryInv, PTL DEF Spec

\* Whatever frequency, resend delay and number of failed posts and missed
\* cycles: after each completed cycle (Eval and SendAlerts) the Alertmanager
\* holds exactly the alerts that the rule keeps firing as firing, but for those
\* whose last post failed, and for those no longer than until they are due again.
THEOREM AlertmanagerAgreesAlways == Spec => []AlertmanagerAgrees
<1>1. RuleInv /\ DeliveryInv => AlertmanagerAgrees
  <2> SUFFICES ASSUME RuleInv, DeliveryInv, pc = "wait", misses = 0,
                      NEW fp \in DOMAIN active
               PROVE  \/ fp \in DOMAIN am /\ (Live(fp) <=> Firing(fp))
                      \/ /\ Unposted(active[fp])
                         /\ now < active[fp].lastSentAt + ResendDelay + Frequency
    BY DEF AlertmanagerAgrees
  <2>1. /\ Arrived(fp) /\ Resent(fp) /\ active[fp].lastSentAt # 0
        /\ active[fp].resolvedAt <= active[fp].lastSentAt
    BY DEF DeliveryInv, Marked, Completed
  <2>2. /\ now < NextDue /\ NextDue \in Nat
        /\ active[fp].resolvedAt \in Nat /\ active[fp].lastSentAt \in Nat
        /\ active[fp].arrivedAt \in Nat /\ active[fp].resolvedAt <= now
        /\ active[fp].state \in {"firing", "inactive"}
        /\ active[fp].state = "inactive" <=> active[fp].resolvedAt # 0
        /\ now \in Nat /\ ResendDelay \in Nat /\ Frequency \in Nat /\ Frequency > 0
        /\ Longer \in Nat /\ ResendDelay <= Longer /\ Frequency <= Longer
    BY NextDueBounds, AlertTimes, Numbers
  <2>3. (misses + 1) * Frequency = Frequency
    BY <2>2
  <2>4. now < active[fp].lastSentAt + ResendDelay + Frequency
    BY <2>1, <2>2, <2>3 DEF Resent
  <2>5. CASE Unposted(active[fp])
    BY <2>4, <2>5
  <2>6. CASE ~Unposted(active[fp])
    <3>1. /\ active[fp].arrivedAt = active[fp].lastSentAt /\ fp \in DOMAIN am
          /\ am[fp] = IF active[fp].resolvedAt # 0 THEN active[fp].resolvedAt
                      ELSE active[fp].lastSentAt + 4 * Longer
      BY <2>1, <2>6 DEF Arrived, Unposted
    <3>2. CASE active[fp].state = "firing"
      <4>1. now < am[fp]
        BY <2>2, <2>4, <3>1, <3>2
      <4> QED
        BY <3>1, <3>2, <4>1 DEF Live, Firing
    <3>3. CASE active[fp].state = "inactive"
      <4>1. ~(am[fp] > now)
        BY <2>2, <3>1, <3>3
      <4> QED
        BY <3>1, <3>3, <4>1 DEF Live, Firing
    <3> QED
      BY <2>2, <3>2, <3>3
  <2> QED
    BY <2>5, <2>6
<1> QED
  BY <1>1, RuleInvariant, DeliveryInvariant, PTL
-----------------------------------------------------------------------------
(* Nothing is forgotten or resolved by accident. *)

\* An alert that an evaluation forgets has been reported as resolved, or has
\* been valid for longer than it was kept.
LEMMA ForgottenIsResolved ==
  ASSUME RuleInv, DeliveryInv, NEW hasData, NEW result \in SUBSET Series,
         Eval(hasData, result), NEW fp \in DOMAIN active, fp \notin DOMAIN active'
  PROVE  \/ ~Live(fp)
         \/ /\ Validity > Retention
            /\ active[fp].arrivedAt < active[fp].resolvedAt
            /\ active[fp].resolvedAt < now - Retention
<1>1. PICK F \in SUBSET FP : Evaluates(F)
  BY EvalEvaluates
<1>2. Forgets(active[fp])
  BY <1>1, EvaluatedAlerts DEF Evaluates
<1>3. /\ active[fp].resolvedAt \in Nat /\ active[fp].resolvedAt <= now
      /\ active[fp].state = "inactive" /\ active[fp].resolvedAt # 0
      /\ active[fp].arrivedAt \in Nat
      /\ now - active[fp].resolvedAt > Retention
  BY <1>2, AlertTimes DEF Forgets, Zero
<1>4. now \in Nat /\ Retention \in Nat /\ Longer \in Nat /\ Validity = 4 * Longer
  BY Numbers DEF Validity, Longer
<1>5. active[fp].resolvedAt < now - Retention
  BY <1>3, <1>4
<1>6. Arrived(fp) /\ Outlived(fp)
  BY DEF DeliveryInv
<1>7. CASE active[fp].resolvedAt <= active[fp].arrivedAt
  <2>1. am[fp] = active[fp].resolvedAt
    BY <1>3, <1>6, <1>7 DEF Arrived
  <2> QED
    BY <1>3, <1>4, <2>1 DEF Live
<1>8. CASE ~(active[fp].resolvedAt <= active[fp].arrivedAt)
  <2> SUFFICES ASSUME Live(fp) PROVE Validity > Retention
    BY <1>3, <1>5, <1>8
  <2>1. /\ fp \in DOMAIN am /\ now < am[fp] /\ am[fp] \in Nat
        /\ am[fp] <= active[fp].resolvedAt + 4 * Longer
    BY <1>3, <1>6, <1>4, ShownUntil DEF Live, Outlived
  <2> QED
    BY <1>3, <1>4, <2>1
<1> QED
  BY <1>7, <1>8

LEMMA OnlyEvalEvaluates ==
  ASSUME [Next]_vars, pc = "eval", pc' = "send"
  PROVE  \E hasData \in BOOLEAN, result \in SUBSET Series : Eval(hasData, result)
BY DEF Next, Tick, NoEval, SendAlerts, OrgQueryFails, Restart, Edit, vars

\* Whatever its timing, an evaluation forgets an alert (ResolvedRetention in
\* ThresholdRule.Eval) only when the Alertmanager no longer shows it as firing,
\* unless an alert is valid for longer than the retention and no post of it
\* arrived in all of that.
THEOREM ForgottenOnlyAfterResolvedAlways == Spec => ForgottenOnlyAfterResolved
<1>1. RuleInv /\ DeliveryInv /\ [Next]_vars =>
        [(pc = "eval" /\ pc' = "send") =>
           \A fp \in DOMAIN active \ DOMAIN active' :
             \/ ~Live(fp)
             \/ /\ Validity > Retention
                /\ active[fp].arrivedAt < active[fp].resolvedAt
                /\ active[fp].resolvedAt < now - Retention]_vars
  <2> SUFFICES ASSUME RuleInv, DeliveryInv, [Next]_vars, pc = "eval", pc' = "send",
                      NEW fp \in DOMAIN active \ DOMAIN active'
               PROVE  \/ ~Live(fp)
                      \/ /\ Validity > Retention
                         /\ active[fp].arrivedAt < active[fp].resolvedAt
                         /\ active[fp].resolvedAt < now - Retention
    OBVIOUS
  <2>1. PICK hasData \in BOOLEAN, result \in SUBSET Series : Eval(hasData, result)
    BY OnlyEvalEvaluates
  <2> QED
    BY <2>1, ForgottenIsResolved
<1> QED
  BY <1>1, RuleInvariant, DeliveryInvariant, PTL DEF Spec, ForgottenOnlyAfterResolved

\* A firing alert whose post arrived is shown beyond the next cycle.
LEMMA ShownBeyondNextCycle ==
  ASSUME RuleInv, DeliveryInv, pc = "wait", misses <= 1, NEW fp \in DOMAIN am,
         Firing(fp), active[fp].arrivedAt # 0,
         ~Unposted(active[fp]) \/ ResendDelay < Frequency
  PROVE  now + 1 < am[fp]
<1>1. /\ active[fp].resolvedAt = 0 /\ active[fp].arrivedAt \in Nat
      /\ active[fp].lastSentAt \in Nat /\ fp \in DOMAIN active
  BY AlertTimes DEF Firing
<1>2. /\ now \in Nat /\ NextDue \in Nat /\ now < NextDue /\ misses \in Nat
      /\ Frequency \in Nat /\ Frequency > 0 /\ ResendDelay \in Nat
      /\ Longer \in Nat /\ ResendDelay <= Longer /\ Frequency <= Longer
  BY NextDueBounds, Numbers
<1>3. am[fp] = active[fp].arrivedAt + 4 * Longer /\ Resent(fp) /\ Reposted(fp)
  BY <1>1 DEF DeliveryInv, Arrived
<1>4. (misses + 1) * Frequency <= 2 * Frequency /\ (misses + 1) * Frequency \in Nat
  <2>1. misses + 1 = 1 \/ misses + 1 = 2
    BY <1>2
  <2> QED
    BY <1>2, <2>1
<1>5. NextDue <= active[fp].arrivedAt + ResendDelay + (misses + 1) * Frequency
  <2>1. CASE ~Unposted(active[fp])
    <3>1. active[fp].lastSentAt = active[fp].arrivedAt
      BY <2>1 DEF Unposted
    <3> QED
      BY <1>3, <3>1 DEF Resent
  <2>2. CASE ResendDelay < Frequency
    <3>1. NextDue <= active[fp].arrivedAt + (misses + 1) * Frequency
      BY <1>3, <2>2 DEF Reposted
    <3> QED
      BY <1>1, <1>2, <1>4, <3>1
  <2> QED
    BY <2>1, <2>2
<1>6. NextDue <= active[fp].arrivedAt + 3 * Longer
  BY <1>1, <1>2, <1>4, <1>5
<1> QED
  BY <1>1, <1>2, <1>3, <1>6

\* Whatever its timing, the Alertmanager does not resolve by expiry (ValidUntil)
\* an alert that the rule keeps firing, unless two cycles in a row do not
\* complete, or a post fails where alerts are not resent in every cycle.
THEOREM NoSpuriousResolveAlways == Spec => NoSpuriousResolve
<1>1. RuleInv /\ DeliveryInv /\ [Next]_vars =>
        [\A fp \in DOMAIN am :
           (Live(fp) /\ Firing(fp) /\ active[fp].arrivedAt # Zero /\ Firing(fp)')
             => \/ Live(fp)'
                \/ misses >= 2
                \/ Unposted(active[fp]) /\ Frequency <= ResendDelay]_vars
  <2> SUFFICES ASSUME RuleInv, DeliveryInv, [Next]_vars, NEW fp \in DOMAIN am,
                      Live(fp), Firing(fp), active[fp].arrivedAt # 0, ~(misses >= 2),
                      ~(Unposted(active[fp]) /\ Frequency <= ResendDelay)
               PROVE  Live(fp)'
    BY DEF Zero
  <2>1. /\ now \in Nat /\ am[fp] \in Nat /\ misses \in Nat /\ Frequency \in Nat
        /\ ResendDelay \in Nat
    BY Numbers, ShownUntil
  <2>2. CASE Tick
    <3>1. misses <= 1 /\ (~Unposted(active[fp]) \/ ResendDelay < Frequency)
      BY <2>1
    <3>2. now + 1 < am[fp]
      BY <2>2, <3>1, ShownBeyondNextCycle DEF Tick
    <3> QED
      BY <2>2, <3>2 DEF Tick, Live
  <2>3. CASE \E delivered \in BOOLEAN : SendAlerts(delivered)
    <3>1. PICK delivered \in BOOLEAN : SendAlerts(delivered)
      BY <2>3
    <3>2. Sends(delivered) /\ now' = now
      BY <3>1, SendAlertsSends DEF SendAlerts
    <3>3. fp \in DOMAIN active /\ active[fp].state = "firing"
      BY DEF Firing
    <3>4. fp \in DOMAIN am' /\ (am'[fp] = am[fp] \/ am'[fp] = now + 4 * Longer)
      <4>1. CASE delivered
        <5>1. fp \in DOMAIN am'
          BY <3>2, <4>1 DEF Sends
        <5>2. EndsAt(active[fp]) = now + 4 * Longer
          BY <3>3, AlertTimes DEF EndsAt, Validity, Longer, Zero
        <5> QED
          BY <3>2, <4>1, <5>1, <5>2 DEF Sends
      <4>2. CASE ~delivered
        BY <3>2, <4>2 DEF Sends
      <4> QED
        BY <4>1, <4>2
    <3>5. now < now + 4 * Longer
      BY Numbers
    <3> QED
      BY <3>2, <3>4, <3>5, <2>1 DEF Live
  <2>4. CASE am' = am /\ now' = now
    BY <2>4 DEF Live
  <2> QED
    BY <2>2, <2>3, <2>4 DEF Next, Eval, NoEval, OrgQueryFails, Restart, Edit, vars
<1> QED
  BY <1>1, RuleInvariant, DeliveryInvariant, PTL DEF Spec, NoSpuriousResolve
=============================================================================
