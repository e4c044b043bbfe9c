---------------------------- MODULE MCAlertRule -----------------------------
(* The rules that TLC looks at.                                            *)
EXTENDS AlertRule

\* Two series evaluated at every slot, with two missed cycles in a row, a restart
\* and an edit; nothing else fails.  Alerts are forgotten while they would still
\* be valid.
TwoSeries ==
  [series |-> {<<"s1", "">>, <<"s2", "">>}, frequency |-> 1, resendDelay |-> 1,
   retention |-> 1, alertOnAbsent |-> FALSE, absentFor |-> 0,
   maxTicks |-> 6, maxMisses |-> 2, maxRestarts |-> 1, maxEdits |-> 1,
   notifyFails |-> FALSE, historyReadFails |-> FALSE, historyWriteFails |-> FALSE]

\* One series whose alert has a label made from its value: its alerts share one
\* history fingerprint.
Templated == [TwoSeries EXCEPT !.series = {<<"s1", "5">>, <<"s1", "6">>}, !.maxTicks = 5]

\* The default resend delay and frequency, which are the same, and a retention
\* longer than alerts are valid, as by default; posts may fail.
DefaultTiming ==
  [TwoSeries EXCEPT !.series = {<<"s1", "">>}, !.retention = 5, !.maxTicks = 9,
                    !.maxEdits = 0, !.notifyFails = TRUE]

\* Alerting on absent data, evaluated more slowly than alerts are resent, with
\* two missed cycles in a row and failing posts, reads and writes.
AbsentData ==
  [TwoSeries EXCEPT
     !.series = {<<"s1", "">>}, !.frequency = 2, !.retention = 4,
     !.alertOnAbsent = TRUE, !.absentFor = 2,
     !.maxTicks = 14, !.maxRestarts = 0, !.maxEdits = 0,
     !.notifyFails = TRUE, !.historyReadFails = TRUE, !.historyWriteFails = TRUE]

\* The same for an ungrouped query while nothing fails, with a restart and an
\* edit: its series and the first "no data" alert share one history fingerprint.
AbsentMoved ==
  [AbsentData EXCEPT !.series = {<<NoLabels, "">>},
                     !.maxTicks = 10, !.maxMisses = 1, !.maxRestarts = 1, !.maxEdits = 1,
                     !.notifyFails = FALSE, !.historyReadFails = FALSE,
                     !.historyWriteFails = FALSE]

AllRules == {TwoSeries, Templated, DefaultTiming, AbsentData, AbsentMoved}

\* One restart of a rule that alerts on absent data.
AbsentRestarted ==
  {[TwoSeries EXCEPT !.series = {<<"s1", "">>}, !.alertOnAbsent = TRUE, !.absentFor = 2,
                     !.maxMisses = 1, !.maxEdits = 0]}
=============================================================================
