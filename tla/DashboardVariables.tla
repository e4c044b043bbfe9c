------------------------- MODULE DashboardVariables -------------------------
(***************************************************************************)
(* The variables of a dashboard in the browser.  The options of a variable *)
(* of type QUERY come from a request that carries the values of the other  *)
(* variables; a change of value queues the variables below it, the head of *)
(* the queue (variablesToGetUpdated) is fetched, and the panels wait until *)
(* the queue is empty.                                                     *)
(*                                                                         *)
(* Values and options are abstracted to what a variable's options do not   *)
(* yet reflect.  Every action ends with the renders it causes: react-query *)
(* fetches a query when it becomes enabled or gets another key, unless it  *)
(* is being fetched already, and every enabled query when the browser      *)
(* comes online.                                                           *)
(***************************************************************************)
EXTENDS VariableGraph

CONSTANTS
  Dashboards,  \* the dashboards the user opens
  None         \* no dashboard is open

ASSUME DashboardAssumption ==
  /\ \A d \in Dashboards : IsDashboard(d)
  /\ None \notin Dashboards
  /\ "time" \notin Names

VARIABLES
  page,      \* the dashboard that is open
  queue,     \* variablesToGetUpdated, which outlives the dashboard
  fetching,  \* the open dashboard's variables whose request is in flight
  refetched, \* those of them sent when the browser came online
  missed,    \* what changed since such a request was sent
  behind,    \* what changed since a variable's options were computed
  failed,    \* the variables that show an error instead of new options
  strays,    \* the variables with a request left in flight under another key,
             \* of a dashboard since closed or a time range since left
  overtaken, \* a request in flight may be taken for one sent after a change
  shuffled   \* values changed out of turn before the queue was empty again

vars == <<page, queue, fetching, refetched, missed, behind, failed, strays,
          overtaken, shuffled>>

-----------------------------------------------------------------------------
\* What a variable's options are computed from
Inputs(d, v) == Parents(d, v) \cup {"time"}

EnabledOnceQueued(d, q, v) ==
  /\ v \in d.query
  /\ Parents(d, v) = {} \/ v \in ToSet(q)

\* checkAPIInvocation: a variable without parents, or the head of the queue
Enabled(d, q, v) ==
  /\ v \in d.query
  /\ \/ Parents(d, v) = {}
     \/ q # <<>> /\ Head(q) = v

EnabledSet(d, q) == {v \in d.query : Enabled(d, q, v)}

EnqueueAgain(q, nodes) == q \o nodes

\* [...new Set([...prev, ...nodes])]
Enqueue(q, nodes) == q \o Only(nodes, ToSet(nodes) \ ToSet(q))

Without(q, v) == Only(q, ToSet(q) \ {v})

\* dependencyData, computed when a dashboard is opened: the order, and what
\* onUpdateVariableNode calls back with for each variable
DependencyData ==
  [d \in Dashboards |->
     [order   |-> QueryOrder(d),
      updated |-> [v \in d.names |-> UpdatedNodes(d, QueryOrder(d), v)]]]

\* The queue once onValueUpdate(v) has run
QueueAfterValue(q, d, v) == Enqueue(q, Without(DependencyData[d].updated[v], v))

\* v's value changes: the options below it, and the answers on their way to
\* them, do not reflect it
Below(d, f, v) ==
  [c \in Names |-> IF <<v, c>> \in d.refs THEN f[c] \cup {v} ELSE f[c]]

\* The render after the queue became q: what starts is new, the rest goes on.
Render(d, q, flying, missing) ==
  LET started == (EnabledSet(d, q) \ EnabledSet(d, queue)) \ flying
  IN  /\ queue' = q
      /\ fetching' = flying \cup started
      /\ missed' = [v \in Names |-> IF v \in fetching' \ started THEN missing[v] ELSE {}]

\* The head of the queue is fetched at once when the key is new, before the
\* reset puts its parents in front of it.
HeadHasParents(d) == queue # <<>> /\ Parents(d, Head(queue)) \cap d.query # {}

RenderKeyNoReset(d, joined) ==
  /\ queue' = queue
  /\ fetching' = EnabledSet(d, queue) \cup joined
  /\ refetched' = {}
  /\ missed' = [v \in Names |-> IF v \in joined THEN Inputs(d, v) ELSE {}]

\* The first render with another key, still with the old queue, and the one
\* after the queue was reset to the order; an empty order resets nothing.
\* joined: the queries that a request in flight with that key answers, also
\* those that are not enabled.
RenderKey(d, joined) ==
  LET order == DependencyData[d].order
      q == IF order = <<>> THEN queue ELSE order
  IN  /\ queue' = q
      /\ fetching' = EnabledSet(d, queue) \cup EnabledSet(d, q) \cup joined
      /\ refetched' = {}
      /\ missed' = [v \in Names |-> IF v \in joined THEN Inputs(d, v) ELSE {}]

-----------------------------------------------------------------------------
Init ==
  /\ page = None
  /\ queue = <<>>
  /\ fetching = {} /\ refetched = {} /\ strays = {} /\ failed = {}
  /\ missed = [v \in Names |-> {}]
  /\ behind = [v \in Names |-> {}]
  /\ overtaken = FALSE /\ shuffled = FALSE

\* A dashboard opens.  The key of a variable's query names no dashboard, so
\* requests that are left of another one may be taken for its own.
Open(d) ==
  /\ page = None
  /\ page' = d
  /\ \E joined \in SUBSET (strays \cap d.query) :
       /\ RenderKey(d, joined)
       /\ overtaken' = (HeadHasParents(d) \/ joined # {})
  /\ behind' = [v \in Names |-> IF v \in d.query THEN Inputs(d, v) ELSE {}]
  /\ failed' = {} /\ shuffled' = FALSE
  /\ UNCHANGED strays

\* The user leaves: nobody listens to the answers any more.
Leave ==
  /\ page # None
  /\ page' = None
  /\ strays' = strays \cup fetching
  /\ fetching' = {} /\ refetched' = {} /\ failed' = {}
  /\ missed' = [v \in Names |-> {}]
  /\ behind' = [v \in Names |-> {}]
  /\ overtaken' = FALSE /\ shuffled' = FALSE
  /\ UNCHANGED queue

StrayAnswer(v) ==
  /\ v \in strays
  /\ strays' = strays \ {v}
  /\ UNCHANGED <<page, queue, fetching, refetched, missed, behind, failed, overtaken,
                 shuffled>>

\* The user picks another value of variable v (handleChange, onValueUpdate).
Pick(v) ==
  /\ page # None
  /\ v \in page.names
  /\ Render(page, QueueAfterValue(queue, page, v), fetching, Below(page, missed, v))
  /\ behind' = Below(page, behind, v)
  /\ overtaken' = (overtaken \/ \E c \in fetching : <<v, c>> \in page.refs)
  /\ shuffled' = (queue # <<>>)
  /\ UNCHANGED <<page, refetched, failed, strays>>

\* The dashboard's time range changes, by hand, by auto-refresh or by a step
\* back to an earlier range: every variable's query gets another key and leaves
\* the request of the old one, which goes on.  A range that was left before may
\* still have requests in flight.
TimeChange ==
  /\ page # None
  /\ shuffled' = FALSE
  /\ strays' = strays \cup fetching
  /\ behind' = [v \in Names |-> IF v \in page.query THEN behind[v] \cup {"time"} ELSE {}]
  /\ UNCHANGED <<page, failed>>
  /\ \E joined \in SUBSET (strays \cap page.query) :
       /\ RenderKey(page, joined)
       /\ overtaken' = (HeadHasParents(page) \/ joined # {})

\* The browser comes online (refetchOnReconnect): what is enabled is fetched
\* again, whether it is queued or not.
Online ==
  /\ page # None
  /\ LET started == EnabledSet(page, queue) \ fetching
     IN  /\ started # {}
         /\ fetching' = fetching \cup started
         /\ refetched' = refetched \cup started
         /\ missed' = [v \in Names |-> IF v \in started THEN {} ELSE missed[v]]
  /\ UNCHANGED <<page, queue, behind, failed, strays, overtaken, shuffled>>

\* The options for v arrive (onSuccess, getOptions).  updates: they differ
\* from those shown, and v is the head, or shows ALL, or a value that is no
\* longer among them; changes: its value is replaced.
Answer(v, updates, changes) ==
  /\ v \in fetching
  /\ changes => updates
  /\ LET q == IF updates THEN QueueAfterValue(queue, page, v) ELSE queue
         outdated == [behind EXCEPT ![v] = missed[v]]
     IN  /\ Render(page, Without(q, v), fetching \ {v},
                   IF changes THEN Below(page, missed, v) ELSE missed)
         /\ behind' = IF changes THEN Below(page, outdated, v) ELSE outdated
  /\ overtaken' = (overtaken \/ (/\ changes /\ v \in refetched
                                 /\ \E c \in fetching : <<v, c>> \in page.refs))
  /\ shuffled' = (shuffled \/ (updates /\ v \in refetched /\ queue # <<>>))
  /\ refetched' = refetched \ {v}
  /\ failed' = failed \ {v}
  /\ UNCHANGED <<page, strays>>

AnswerErrorKeepsQueue(v) ==
  /\ v \in fetching
  /\ Render(page, queue, fetching \ {v}, missed)
  /\ refetched' = refetched \ {v}
  /\ failed' = failed \cup {v}
  /\ UNCHANGED <<page, behind, strays, overtaken, shuffled>>

\* Its last retry fails (onError): the old options stay.
AnswerError(v) ==
  /\ v \in fetching
  /\ Render(page, Without(queue, v), fetching \ {v}, missed)
  /\ refetched' = refetched \ {v}
  /\ failed' = failed \cup {v}
  /\ UNCHANGED <<page, behind, strays, overtaken, shuffled>>

Arrival(v) ==
  (\E updates, changes \in BOOLEAN : Answer(v, updates, changes)) \/ AnswerError(v)

Next ==
  \/ \E d \in Dashboards : Open(d)
  \/ Leave
  \/ TimeChange
  \/ Online
  \/ \E v \in Names : StrayAnswer(v) \/ Pick(v) \/ Arrival(v)

\* Every request is answered in the end, given up or left: weak fairness of
\* Arrival(v), which a request in flight enables and which ends that request.
Spec == Init /\ [][Next]_vars /\ \A v \in Names : []<>(v \notin fetching)

-----------------------------------------------------------------------------
(* Properties. *)

TypeOK ==
  /\ page \in Dashboards \cup {None}
  /\ queue \in Seq(Names) /\ IsInjective(queue)
  /\ fetching \subseteq Names /\ refetched \subseteq fetching
  /\ failed \subseteq Names /\ strays \subseteq Names
  /\ missed \in [Names -> SUBSET (Names \cup {"time"})]
  /\ behind \in [Names -> SUBSET (Names \cup {"time"})]
  /\ overtaken \in BOOLEAN /\ shuffled \in BOOLEAN
  /\ page = None => fetching = {}

\* What a variable's options should reflect and do not, the values that no
\* query computes (CUSTOM, TEXTBOX, ...) left aside
Outdated(v) == behind[v] \cap (page.query \cup {"time"})

\* When the panels are let go, no variable outside the cycles shows options
\* that are out of date with its parents or the time range, unless it says
\* that its query failed.  Four races are excepted: the user picks a value
\* while a request that uses it is in flight; so does the answer to a request
\* sent when the browser came online; the time range changes (or a dashboard
\* opens) while the head of the queue has parents; and it changes to one whose
\* requests are still in flight.
PanelsSeeFreshOptions ==
  page # None /\ queue = <<>> /\ ~overtaken =>
    \A v \in ToSet(DependencyData[page].order) : Outdated(v) = {} \/ v \in failed

\* Whichever variables the first dashboard has, its order lists the variables
\* outside cycles, each after its parents, a cycle is noticed exactly when
\* there is one, and a changed value reaches everything below it in that order.
GraphsAreRight ==
  page = None /\ queue = <<>> /\ strays = {} => OrderIsTopological /\ UpdatesReachAllBelow

\* Parents first: while a variable is being fetched, nothing that its options
\* are computed from, however indirectly, is queued or being fetched.  Beside
\* the four races, a request sent when the browser came online is excepted, and
\* a value that such an answer or the user changes while variables are queued:
\* what it queues goes behind them, even when they depend on it.
ParentsFirst ==
  page # None /\ ~overtaken /\ ~shuffled =>
    \A v \in fetching, p \in ToSet(queue) \cup (fetching \ refetched) :
      p # v => v \notin Descendants(page, p)

\* The panels do not wait for ever: unless the time range goes on changing
\* for ever, a queued variable leaves the queue of a dashboard that has any
\* query to run.
QueueDrains ==
  <>[][~TimeChange]_vars =>
    \A v \in Names :
      (page # None /\ DependencyData[page].order # <<>> /\ v \in ToSet(queue))
        ~> (v \notin ToSet(queue) \/ page = None)
=============================================================================
