------------------------------ MODULE LiveTail -------------------------------
(***************************************************************************)
(* The live tail of logs: an event source that the page opens, closes when *)
(* the user pauses it, and opens anew after an error, once the session's   *)
(* tokens have been refreshed.  The source is a polyfill that tries again  *)
(* by itself after some errors and closes itself after others; every error *)
(* starts its own error handler.                                           *)
(***************************************************************************)
EXTENDS Session, FiniteSets

CONSTANTS
  Sources,  \* event sources; one that is closed and forgotten is used again
  None

ASSUME SourceAssumption == None \notin Sources

VARIABLES
  page,    \* "shown" or "gone"
  source,  \* eventSourceRef.current
  state,   \* the state of each source
  flags,   \* what the page shows: isConnectionOpen, isConnectionLoading,
           \* isConnectionError and reconnectDueToError
  handling, \* the handlers that belong to the page that is shown
  quiet,   \* the user paused the tail, with no handler of the page at work
  garbled  \* a failed refresh was not answered in the API's error format

tail == <<page, source, state, flags, handling, quiet, garbled>>
vars == <<session, tail>>

-----------------------------------------------------------------------------
Closed == [open |-> FALSE, loading |-> FALSE, error |-> FALSE, reconnect |-> FALSE]

\* The live connections
Alive == {s \in Sources : state[s] # "closed"}

Shown == page = "shown"

CloseNothing == state

CloseSource == IF source = None THEN state ELSE [state EXCEPT ![source] = "closed"]

TailInit ==
  /\ Init
  /\ page = "gone"
  /\ source = None
  /\ state = [s \in Sources |-> "closed"]
  /\ flags = Closed
  /\ handling = {}
  /\ quiet = FALSE /\ garbled = FALSE

UnmountKeepsHandlers ==
  /\ page' = "gone"
  /\ state' = CloseSource
  /\ source' = None
  /\ flags' = Closed
  /\ handling' = handling
  /\ quiet' = FALSE /\ garbled' = FALSE

\* The page goes away, and its provider closes the source.
Unmount ==
  /\ page' = "gone"
  /\ state' = CloseSource
  /\ source' = None
  /\ flags' = Closed
  /\ handling' = {}
  /\ quiet' = FALSE /\ garbled' = FALSE

StartNewKeepsOld ==
  \E s \in Sources \ (Alive \cup {source}) :
    /\ source' = s
    /\ state' = [state EXCEPT ![s] = "connecting"]
    /\ flags' = [flags EXCEPT !.loading = TRUE, !.error = FALSE, !.reconnect = FALSE]

\* handleStartNewConnection: handleCloseConnection, handleStartOpenConnection
StartNew ==
  \E s \in Sources \ ((Alive \ {source}) \cup {source}) :
    /\ source' = s
    /\ state' = [CloseSource EXCEPT ![s] = "connecting"]
    /\ flags' = [Closed EXCEPT !.loading = TRUE]

-----------------------------------------------------------------------------
(* The page and its user. *)

Mount ==
  /\ ~Shown /\ user # 0
  /\ page' = "shown"
  /\ StartNew
  /\ UNCHANGED <<session, handling, quiet, garbled>>

Leave ==
  /\ Shown
  /\ Unmount
  /\ UNCHANGED session

\* onLiveButtonClick, when it reads "Pause": handleCloseConnection, which leaves
\* reconnectDueToError as it is
Pause ==
  /\ Shown
  /\ flags.open \/ flags.loading
  /\ state' = CloseSource
  /\ flags' = [Closed EXCEPT !.reconnect = flags.reconnect]
  /\ quiet' = (handling = {})
  /\ UNCHANGED <<session, page, source, handling, garbled>>

\* The button reads "Resume", or the user searches for something else: the
\* query in the URL is a new one, and a connection is started for it.
NewQuery ==
  /\ Shown
  /\ StartNew
  /\ quiet' = FALSE /\ garbled' = FALSE
  /\ UNCHANGED <<session, page, handling>>

\* The timer that runs while isConnectionError and reconnectDueToError are set
Reconnect ==
  /\ Shown
  /\ flags.error /\ flags.reconnect
  /\ StartNew
  /\ UNCHANGED <<session, page, handling, quiet, garbled>>

-----------------------------------------------------------------------------
(* The source's events. *)

\* handleOpenConnection
Connected(s) ==
  /\ state[s] = "connecting"
  /\ state' = [state EXCEPT ![s] = "open"]
  /\ flags' = [flags EXCEPT !.open = TRUE, !.loading = FALSE]
  /\ UNCHANGED <<session, page, source, handling, quiet, garbled>>

\* handleErrorConnection up to its call of loginApi; the source closes itself
\* when the answer was an error, and tries again when there was none.
Error(s, after) ==
  /\ s \in Alive
  /\ state' = [state EXCEPT ![s] = after]
  /\ flags' = [flags EXCEPT !.open = FALSE, !.loading = TRUE]
  /\ \E h \in Handlers :
       /\ call[h].pc = "idle"
       /\ BeginRefresh(h)
       /\ handling' = handling \cup {h}
  /\ UNCHANGED <<stored, user, logins, cut, page, source, quiet, garbled>>

HandlerRefreshedOnly(h) ==
  /\ Refreshed(h)
  /\ flags' = IF h \in handling THEN [flags EXCEPT !.error = TRUE] ELSE flags
  /\ handling' = handling \ {h}
  /\ UNCHANGED <<page, source, state, quiet, garbled>>

\* The tokens are refreshed: the component is asked to reconnect.
HandlerRefreshed(h) ==
  /\ Refreshed(h)
  /\ flags' = IF h \in handling THEN [flags EXCEPT !.error = TRUE, !.reconnect = TRUE]
              ELSE flags
  /\ handling' = handling \ {h}
  /\ UNCHANGED <<page, source, state, quiet, garbled>>

\* They are not: the source, whichever it is by now, is closed, and the user
\* is logged out and led to the login page.
HandlerFails(h) ==
  /\ RefreshFails(h)
  /\ Unmount

\* An error without the API's error format breaks the error handler itself.
HandlerBreaks(h) ==
  /\ call[h].pc = "refreshing"
  /\ End(h)
  /\ garbled' = (garbled \/ h \in handling)
  /\ handling' = handling \ {h}
  /\ UNCHANGED <<stored, user, logins, cut, page, source, state, flags, quiet>>

-----------------------------------------------------------------------------
\* The steps of the session that are not the tail's own
SessionStep ==
  \/ Login \/ LoginDenied \/ UserLogout
  \/ \E c \in Requests : \/ Send(c) \/ Answered(c) \/ Unauthorized(c)
                         \/ Refreshed(c) \/ RefreshFails(c) \/ RetryUnauthorized(c)

\* A logout leads to the login page.
SessionChanges ==
  /\ SessionStep
  /\ IF user' = 0 THEN Unmount ELSE UNCHANGED tail

ReloadPage == Reload /\ Unmount

HandlerStep(h) ==
  h \in Handlers /\ (HandlerRefreshed(h) \/ HandlerFails(h) \/ HandlerBreaks(h))

Next ==
  \/ SessionChanges \/ ReloadPage
  \/ Mount \/ Leave \/ Pause \/ NewQuery \/ Reconnect
  \/ \E s \in Sources : \/ Connected(s)
                        \/ \E after \in {"connecting", "closed"} : Error(s, after)
  \/ \E h \in Handlers : HandlerStep(h)

\* Calls are answered or fail, and the timer fires.
Fairness ==
  /\ WF_vars(Reconnect)
  /\ \A h \in Handlers : WF_vars(HandlerStep(h))

Spec == TailInit /\ [][Next]_vars /\ Fairness

-----------------------------------------------------------------------------
(* Properties. *)

TypeOK ==
  /\ SessionTypeOK
  /\ page \in {"shown", "gone"}
  /\ source \in Sources \cup {None}
  /\ state \in [Sources -> {"connecting", "open", "closed"}]
  /\ flags \in [open : BOOLEAN, loading : BOOLEAN, error : BOOLEAN, reconnect : BOOLEAN]
  /\ handling \subseteq {h \in Handlers : call[h].pc = "refreshing"}
  /\ {quiet, garbled} \subseteq BOOLEAN

\* At most one connection streams logs, it is the one the page can close, and
\* none outlives the page or the session.
OneConnection ==
  /\ Alive \subseteq {source}
  /\ Shown => user # 0
  /\ ~Shown => Alive = {}

\* A tail that was paused while no error was being handled stays paused, although
\* reconnectDueToError may be left set: nothing is connected, and the page shows
\* neither a connection nor an error that its timer would act on.
PausedStaysPaused ==
  quiet => Alive = {} /\ ~flags.open /\ ~flags.loading /\ ~flags.error

\* If connection attempts cannot fail for ever, the tail is connected in the
\* end, unless the user pauses it, leaves or is logged out.
TailRecovers ==
  (\A s \in Sources : SF_vars(Connected(s))) =>
    (Shown /\ flags.loading ~> flags.open \/ ~flags.loading \/ ~Shown \/ garbled)
=============================================================================
