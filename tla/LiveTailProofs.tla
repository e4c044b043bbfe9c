---------------------------- MODULE LiveTailProofs ----------------------------
(***************************************************************************)
(* Proofs about the session and the live tail, for any number of calls,    *)
(* error handlers, event sources and logins.                               *)
(*                                                                         *)
(* A step of the tail touches the session only through the session's own   *)
(* operations (TailMovesSession), so what is said of the tokens is proved  *)
(* over those operations alone.  What is said of the connection is proved  *)
(* over the actions of the tail.                                           *)
(***************************************************************************)
EXTENDS LiveTail, TLAPS

-----------------------------------------------------------------------------
(* The session. *)

\* What the error handler does to the session besides Refreshed and RefreshFails
HandlerBegins(h) == /\ call[h].pc = "idle" /\ BeginRefresh(h)
                    /\ UNCHANGED <<stored, user, logins, cut>>
HandlerEnds(h) == /\ call[h].pc = "refreshing" /\ End(h)
                  /\ UNCHANGED <<stored, user, logins, cut>>

\* One call's step: a request's or a handler's
RequestMoves(c) == \/ Send(c) \/ Answered(c) \/ Unauthorized(c)
                   \/ Refreshed(c) \/ RefreshFails(c) \/ RetryUnauthorized(c)
HandlerMoves(h) == \/ HandlerBegins(h) \/ HandlerEnds(h)
                   \/ Refreshed(h) \/ RefreshFails(h)

SessionMove ==
  \/ Login \/ LoginDenied \/ UserLogout \/ Reload
  \/ \E c \in Requests : RequestMoves(c)
  \/ \E h \in Handlers : HandlerMoves(h)

\* A call that may still change the session carries a token of the login whose
\* tokens are stored: what makes "the tokens are the user's" inductive.
CallsAreTheUsers ==
  ~cut => \A c \in Calls : Pending(c) => call[c].token = stored

SessionInv == SessionTypeOK /\ TokensAreTheUsers /\ CallsAreTheUsers

\* Every step of the tail is one of the session's or leaves the session alone.
LEMMA TailMovesSession == [Next]_vars => [SessionMove]_session
<1> SUFFICES ASSUME [Next]_vars PROVE SessionMove \/ UNCHANGED session
  OBVIOUS
<1> USE DEF SessionMove
<1>1. CASE SessionChanges
  BY <1>1 DEF SessionChanges, SessionStep, RequestMoves
<1>2. CASE ReloadPage
  BY <1>2 DEF ReloadPage
<1>3. CASE Mount \/ Leave \/ Pause \/ NewQuery \/ Reconnect
  BY <1>3 DEF Mount, Leave, Pause, NewQuery, Reconnect
<1>4. ASSUME NEW s \in Sources, Connected(s)
      PROVE  UNCHANGED session
  BY <1>4 DEF Connected
<1>5. ASSUME NEW s \in Sources, NEW after \in {"connecting", "closed"}, Error(s, after)
      PROVE  SessionMove
  BY <1>5 DEF Error, HandlerMoves, HandlerBegins
<1>6. ASSUME NEW h \in Handlers, HandlerStep(h)
      PROVE  SessionMove
  <2>1. HandlerMoves(h)
    BY <1>6 DEF HandlerStep, HandlerRefreshed, HandlerFails, HandlerBreaks,
                HandlerMoves, HandlerEnds
  <2> QED BY <2>1
<1>7. CASE UNCHANGED vars
  BY <1>7 DEF vars
<1> QED
  BY <1>1, <1>2, <1>3, <1>4, <1>5, <1>6, <1>7 DEF Next

\* A call that has not begun, or that has ended, is of the type of calls.
LEMMA IdleIsTyped ==
  /\ 0 \in 0..MaxLogins
  /\ Idle \in [pc : {"idle", "sent", "refreshing", "retrying"}, token : 0..MaxLogins]
  /\ [c \in Calls |-> Idle] \in
       [Calls -> [pc : {"idle", "sent", "refreshing", "retrying"}, token : 0..MaxLogins]]
<1>1. 0 \in 0..MaxLogins
  BY SessionAssumption
<1> QED BY <1>1 DEF Idle

\* The session's variables stay in their types over every step.
LEMMA SessionTypeStep ==
  ASSUME SessionTypeOK, SessionMove
  PROVE  SessionTypeOK'
<1> USE SessionAssumption DEF SessionTypeOK, Calls, Idle
<1>1. CASE Login
  <2>1. logins' \in 0..MaxLogins /\ stored' = logins' /\ user' = logins'
    BY <1>1 DEF Login
  <2>2. cut' \in BOOLEAN /\ call' = call
    BY <1>1 DEF Login
  <2> QED BY <2>1, <2>2
<1>2. CASE LoginDenied \/ UserLogout
  <2>1. cut' \in BOOLEAN
    BY <1>2 DEF LoginDenied, UserLogout, Logout
  <2> QED BY <1>2, <2>1 DEF LoginDenied, UserLogout, Logout
<1>3. CASE Reload
  <2>1. call' = [c \in Calls |-> Idle]
    BY <1>3 DEF Reload
  <2>2. call' \in [Calls -> [pc : {"idle", "sent", "refreshing", "retrying"},
                             token : 0..MaxLogins]]
    BY <2>1, IdleIsTyped
  <2>3. \A c \in Handlers : call'[c].pc = "idle"
    BY <2>1
  <2> QED BY <1>3, <2>2, <2>3 DEF Reload
<1>4. ASSUME NEW c \in Requests, RequestMoves(c)
      PROVE  SessionTypeOK'
  <2> USE <1>4
  <2>1. CASE Send(c)
    BY <2>1 DEF Send
  <2>2. CASE Answered(c)
    BY <2>2 DEF Answered, End
  <2>3. CASE Unauthorized(c)
    BY <2>3 DEF Unauthorized, BeginRefresh
  <2>4. CASE Refreshed(c)
    BY <2>4 DEF Refreshed, Goto
  <2>5. CASE RefreshFails(c) \/ RetryUnauthorized(c)
    <3>1. cut' \in BOOLEAN
      BY <2>5 DEF RefreshFails, RetryUnauthorized, Logout
    <3> QED BY <2>5, <3>1 DEF RefreshFails, RetryUnauthorized, Logout, End
  <2> QED
    BY <2>1, <2>2, <2>3, <2>4, <2>5 DEF RequestMoves
<1>5. ASSUME NEW h \in Handlers, HandlerMoves(h)
      PROVE  SessionTypeOK'
  <2> USE <1>5
  <2>1. CASE HandlerBegins(h)
    BY <2>1 DEF HandlerBegins, BeginRefresh
  <2>2. CASE HandlerEnds(h)
    BY <2>2 DEF HandlerEnds, End
  <2>3. CASE Refreshed(h)
    BY <2>3 DEF Refreshed, End
  <2>4. CASE RefreshFails(h)
    <3>1. cut' \in BOOLEAN
      BY <2>4 DEF RefreshFails, Logout
    <3> QED BY <2>4, <3>1 DEF RefreshFails, Logout, End
  <2> QED
    BY <2>1, <2>2, <2>3, <2>4 DEF HandlerMoves
<1> QED
  BY <1>1, <1>2, <1>3, <1>4, <1>5 DEF SessionMove

-----------------------------------------------------------------------------
(* The tokens. *)

\* The tokens stay the user's, and the calls stay the tokens', over every step.
LEMMA SessionInvStep ==
  ASSUME SessionInv, SessionMove
  PROVE  SessionInv'
<1>0. SessionTypeOK'
  BY SessionTypeStep DEF SessionInv
<1> SUFFICES ASSUME ~cut'
             PROVE  /\ stored' = user'
                    /\ \A c \in Calls : Pending(c)' => call'[c].token = stored'
  BY <1>0 DEF SessionInv, TokensAreTheUsers, CallsAreTheUsers
<1> USE DEF SessionInv, SessionTypeOK, TokensAreTheUsers, CallsAreTheUsers,
            Pending, Calls, Idle
<1>1. CASE Login
  BY <1>1 DEF Login
<1>2. CASE LoginDenied \/ UserLogout
  BY <1>2 DEF LoginDenied, UserLogout, Logout
<1>3. CASE Reload
  BY <1>3 DEF Reload
<1>4. ASSUME NEW c \in Calls, RefreshFails(c) \/ RetryUnauthorized(c)
      PROVE  /\ stored' = user'
             /\ \A d \in Calls : Pending(d)' => call'[d].token = stored'
  <2>1. stored' = 0 /\ user' = 0 /\ \A d \in Calls \ {c} : ~Pending(d)
    BY <1>4 DEF RefreshFails, RetryUnauthorized, Logout
  <2>2. \A d \in Calls : ~Pending(d)'
    BY <1>4, <2>1 DEF RefreshFails, RetryUnauthorized, End
  <2> QED BY <2>1, <2>2
<1>5. ASSUME NEW c \in Requests, RequestMoves(c)
      PROVE  /\ stored' = user'
             /\ \A d \in Calls : Pending(d)' => call'[d].token = stored'
  <2>1. CASE Send(c)
    BY <2>1 DEF Send
  <2>2. CASE Answered(c)
    BY <2>2 DEF Answered, End
  <2>3. CASE Unauthorized(c)
    BY <2>3 DEF Unauthorized, BeginRefresh
  <2>4. CASE Refreshed(c)
    BY <2>4 DEF Refreshed, Goto
  <2> QED
    BY <1>4, <1>5, <2>1, <2>2, <2>3, <2>4 DEF RequestMoves
<1>6. ASSUME NEW h \in Handlers, HandlerMoves(h)
      PROVE  /\ stored' = user'
             /\ \A d \in Calls : Pending(d)' => call'[d].token = stored'
  <2>1. CASE HandlerBegins(h)
    BY <2>1 DEF HandlerBegins, BeginRefresh
  <2>2. CASE HandlerEnds(h)
    BY <2>2 DEF HandlerEnds, End
  <2>3. CASE Refreshed(h)
    BY <2>3, SessionAssumption DEF Refreshed, End
  <2> QED
    BY <1>4, <1>6, <2>1, <2>2, <2>3 DEF HandlerMoves
<1> QED
  BY <1>1, <1>2, <1>3, <1>5, <1>6 DEF SessionMove

\* No call has begun and nobody is logged in.
LEMMA SessionInvInit == TailInit => SessionInv
<1> SUFFICES ASSUME Init PROVE SessionInv
  BY DEF TailInit
<1>1. call = [c \in Calls |-> Idle]
  BY DEF Init
<1>2. \A c \in Calls : call[c].pc = "idle"
  BY <1>1 DEF Idle
<1>3. SessionTypeOK
  BY <1>1, <1>2, IdleIsTyped DEF SessionTypeOK, Init, Calls
<1>4. TokensAreTheUsers /\ CallsAreTheUsers
  BY <1>2 DEF TokensAreTheUsers, CallsAreTheUsers, Pending, Init
<1> QED BY <1>3, <1>4 DEF SessionInv

\* The tokens are the user's and the calls' in every state of the tail.
LEMMA SessionInvariance == Spec => []SessionInv
<1>1. SessionInv /\ [Next]_vars => SessionInv'
  <2> SUFFICES ASSUME SessionInv, [Next]_vars PROVE SessionInv'
    OBVIOUS
  <2>1. CASE SessionMove
    BY <2>1, SessionInvStep
  <2>2. CASE UNCHANGED session
    BY <2>2 DEF session, SessionInv, SessionTypeOK, TokensAreTheUsers,
                CallsAreTheUsers, Pending
  <2> QED
    BY <2>1, <2>2, TailMovesSession
<1> QED
  BY <1>1, SessionInvInit, PTL DEF Spec

\* Tokens are the user's: however many calls and error handlers refresh tokens
\* at once, local storage holds the tokens of the login that is shown, unless a
\* session ended while a call was refreshing or retrying.
THEOREM TokensAreTheUsersAlways == Spec => []TokensAreTheUsers
<1>1. SessionInv => TokensAreTheUsers
  BY DEF SessionInv
<1> QED
  BY <1>1, SessionInvariance, PTL

\* Ended by its own tokens: a session that its user did not end is ended by a
\* call that was refused with that session's tokens, with the same exception.
\* The call itself may have been sent in an earlier session.
THEOREM EndedByOwnTokensAlways == Spec => EndedByOwnTokens
<1> DEFINE Ended ==
      user # 0 /\ user' = 0 /\ ~UserLogout /\ ~cut =>
        \E c \in Calls : Pending(c) /\ call[c].token = user /\ call'[c] = Idle
<1>1. SessionInv /\ [Next]_vars => [Ended]_session
  <2> SUFFICES ASSUME SessionInv, SessionMove, user # 0, user' = 0, ~UserLogout, ~cut
               PROVE  \E c \in Calls : Pending(c) /\ call[c].token = user /\ call'[c] = Idle
    BY TailMovesSession
  <2> USE DEF SessionInv, SessionTypeOK, TokensAreTheUsers, CallsAreTheUsers, Calls
  <2>1. PICK c \in Calls : RefreshFails(c) \/ RetryUnauthorized(c)
    BY SessionAssumption DEF SessionMove, RequestMoves, HandlerMoves, Login, LoginDenied,
       Reload, Send, Answered, Unauthorized, Refreshed, HandlerBegins, HandlerEnds
  <2>2. Pending(c) /\ call[c].token = user
    BY <2>1 DEF RefreshFails, RetryUnauthorized, Pending
  <2>3. call'[c] = Idle
    BY <2>1 DEF RefreshFails, RetryUnauthorized, End
  <2> QED
    BY <2>2, <2>3
<1> QED
  BY <1>1, SessionInvariance, PTL DEF Spec, EndedByOwnTokens

-----------------------------------------------------------------------------
(* The connection. *)

\* A paused tail stays paused because no handler is left to reconnect it and
\* its page, the only one whose flags can change, is still shown.
QuietTail ==
  quiet => /\ Alive = {} /\ ~flags.open /\ ~flags.loading /\ ~flags.error
           /\ handling = {} /\ Shown

TailInv == TypeOK /\ OneConnection /\ QuietTail

\* The types of what the page keeps, apart from the handlers
PageTypes ==
  /\ page \in {"shown", "gone"}
  /\ source \in Sources \cup {None}
  /\ state \in [Sources -> {"connecting", "open", "closed"}]
  /\ flags \in [open : BOOLEAN, loading : BOOLEAN, error : BOOLEAN, reconnect : BOOLEAN]
  /\ {quiet, garbled} \subseteq BOOLEAN

\* handleCloseConnection leaves no live source, if the page's was the only one.
LEMMA CloseSourceCloses ==
  ASSUME PageTypes, Alive \subseteq {source}
  PROVE  /\ CloseSource \in [Sources -> {"connecting", "open", "closed"}]
         /\ \A s \in Sources : CloseSource[s] = "closed"
<1>1. CASE source = None
  BY <1>1, SourceAssumption DEF CloseSource, PageTypes, Alive
<1>2. CASE source \in Sources
  BY <1>2, SourceAssumption DEF CloseSource, PageTypes, Alive
<1> QED
  BY <1>1, <1>2 DEF PageTypes

\* A page that goes away leaves nothing behind.
LEMMA UnmountStep ==
  ASSUME PageTypes, Alive \subseteq {source}, Unmount
  PROVE  PageTypes' /\ Alive' = {} /\ ~Shown' /\ ~quiet' /\ handling' = {}
<1>1. state' = CloseSource
  BY DEF Unmount
<1>2. state' \in [Sources -> {"connecting", "open", "closed"}] /\ Alive' = {}
  BY <1>1, CloseSourceCloses DEF Alive
<1> QED
  BY <1>2 DEF Unmount, PageTypes, Closed, Shown

\* handleStartNewConnection replaces the page's source by the one it opens.
LEMMA StartNewStep ==
  ASSUME PageTypes, Alive \subseteq {source}, StartNew
  PROVE  /\ source' \in Sources
         /\ state' \in [Sources -> {"connecting", "open", "closed"}]
         /\ flags' \in [open : BOOLEAN, loading : BOOLEAN, error : BOOLEAN, reconnect : BOOLEAN]
         /\ Alive' = {source'}
<1>1. PICK s \in Sources : /\ source' = s
                           /\ state' = [CloseSource EXCEPT ![s] = "connecting"]
                           /\ flags' = [Closed EXCEPT !.loading = TRUE]
  BY DEF StartNew
<1>2. Alive' = {s} /\ state' \in [Sources -> {"connecting", "open", "closed"}]
  BY <1>1, CloseSourceCloses DEF Alive
<1>3. flags' \in [open : BOOLEAN, loading : BOOLEAN, error : BOOLEAN, reconnect : BOOLEAN]
  BY <1>1 DEF Closed
<1> QED
  BY <1>1, <1>2, <1>3

\* The handlers of the page are at work: a step of a request is not theirs.
LEMMA RequestsLeaveHandlers ==
  ASSUME SessionTypeOK, SessionStep, NEW h \in Handlers
  PROVE  call'[h] = call[h]
BY SessionAssumption DEF SessionStep, SessionTypeOK, Calls, Login, LoginDenied, UserLogout,
   Logout, Send, Answered, Unauthorized, Refreshed, RefreshFails, RetryUnauthorized,
   Goto, End, BeginRefresh

\* Every action of the tail keeps its variables in their types, at most one
\* connection alive, and a paused tail paused.
LEMMA TailInvStep ==
  ASSUME TailInv, [Next]_vars
  PROVE  TailInv'
<1>0. SessionTypeOK'
  <2>1. CASE SessionMove
    BY <2>1, SessionTypeStep DEF TailInv, TypeOK
  <2>2. CASE UNCHANGED session
    BY <2>2 DEF TailInv, TypeOK, session, SessionTypeOK
  <2> QED
    BY <2>1, <2>2, TailMovesSession
<1>a. /\ SessionTypeOK /\ PageTypes /\ Alive \subseteq {source}
      /\ handling \subseteq {h \in Handlers : call[h].pc = "refreshing"}
      /\ Shown => user # 0
      /\ ~Shown => Alive = {}
      /\ QuietTail
  BY DEF TailInv, TypeOK, PageTypes, OneConnection
<1>b. SUFFICES /\ PageTypes' /\ Alive' \subseteq {source'}
               /\ handling' \subseteq {h \in Handlers : call'[h].pc = "refreshing"}
               /\ Shown' => user' # 0
               /\ ~Shown' => Alive' = {}
               /\ QuietTail'
  BY <1>0 DEF TailInv, TypeOK, PageTypes, OneConnection
<1> DEFINE Goal == /\ PageTypes' /\ Alive' \subseteq {source'}
                   /\ handling' \subseteq {h \in Handlers : call'[h].pc = "refreshing"}
                   /\ Shown' => user' # 0
                   /\ ~Shown' => Alive' = {}
                   /\ QuietTail'
<1>u. ASSUME Unmount PROVE Goal
  BY <1>a, <1>u, UnmountStep DEF QuietTail
<1>k. ASSUME UNCHANGED tail, \A h \in handling : call'[h] = call[h], user' # 0 \/ user' = user
      PROVE  Goal
  <2>1. PageTypes' /\ Alive' = Alive /\ (Shown' <=> Shown) /\ QuietTail'
    BY <1>a, <1>k DEF tail, PageTypes, Alive, Shown, QuietTail
  <2> QED BY <1>a, <1>k, <2>1 DEF tail
<1>1. CASE SessionChanges
  <2>1. CASE user' = 0
    BY <1>1, <1>u, <2>1 DEF SessionChanges
  <2>2. CASE user' # 0
    <3>1. \A h \in handling : call'[h] = call[h]
      BY <1>1, <1>a, RequestsLeaveHandlers DEF SessionChanges
    <3> QED
      BY <1>1, <1>k, <2>2, <3>1 DEF SessionChanges
  <2> QED BY <2>1, <2>2
<1>2. CASE ReloadPage \/ Leave
  BY <1>2, <1>u DEF ReloadPage, Leave
<1>3. CASE Mount \/ NewQuery \/ Reconnect
  <2>1. StartNew /\ UNCHANGED session /\ handling' = handling
    BY <1>3 DEF Mount, NewQuery, Reconnect
  <2>2. Shown' /\ user # 0 /\ page' \in {"shown", "gone"} /\ {quiet', garbled'} \subseteq BOOLEAN
    BY <1>3, <1>a DEF Mount, NewQuery, Reconnect, Shown, PageTypes
  <2>3. ~quiet'
    BY <1>3, <1>a DEF Mount, NewQuery, Reconnect, QuietTail
  <2>4. PageTypes' /\ Alive' \subseteq {source'}
    BY <1>a, <2>1, <2>2, StartNewStep DEF PageTypes
  <2> QED
    BY <1>a, <2>1, <2>2, <2>3, <2>4 DEF session, QuietTail
<1>4. CASE Pause
  <2>1. state' = CloseSource /\ source' = source /\ handling' = handling
        /\ flags' = [Closed EXCEPT !.reconnect = flags.reconnect]
        /\ page' = page /\ UNCHANGED session /\ garbled' = garbled
        /\ quiet' = (handling = {}) /\ Shown
    BY <1>4 DEF Pause
  <2>2. Alive' = {} /\ state' \in [Sources -> {"connecting", "open", "closed"}]
    BY <1>a, <2>1, CloseSourceCloses DEF Alive
  <2>3. PageTypes'
    BY <1>a, <2>1, <2>2 DEF PageTypes, Closed
  <2>4. QuietTail'
    BY <2>1, <2>2 DEF QuietTail, Shown, Closed
  <2> QED
    BY <1>a, <2>1, <2>2, <2>3, <2>4 DEF session, Shown
<1>5. ASSUME NEW s \in Sources, Connected(s)
      PROVE  Goal
  <2>1. s \in Alive /\ ~quiet /\ Shown
    BY <1>5, <1>a DEF Connected, Alive, QuietTail
  <2>2. Alive' = Alive
    BY <1>5, <1>a DEF Connected, Alive, PageTypes
  <2>3. PageTypes'
    BY <1>5, <1>a DEF Connected, PageTypes
  <2> QED
    BY <1>5, <1>a, <2>1, <2>2, <2>3 DEF Connected, session, QuietTail, Shown
<1>6. ASSUME NEW s \in Sources, NEW after \in {"connecting", "closed"}, Error(s, after)
      PROVE  Goal
  <2>1. s \in Alive /\ ~quiet /\ Shown
    BY <1>6, <1>a DEF Error, QuietTail
  <2>2. Alive' \subseteq Alive
    BY <1>6, <1>a DEF Error, Alive, PageTypes
  <2>3. PageTypes'
    BY <1>6, <1>a DEF Error, PageTypes
  <2>4. handling' \subseteq {h \in Handlers : call'[h].pc = "refreshing"}
    BY <1>6, <1>a DEF Error, BeginRefresh, SessionTypeOK, Calls
  <2> QED
    BY <1>6, <1>a, <2>1, <2>2, <2>3, <2>4 DEF Error, QuietTail, Shown
<1>7. ASSUME NEW h \in Handlers, HandlerStep(h)
      PROVE  Goal
  <2>1. CASE HandlerFails(h)
    BY <1>u, <2>1 DEF HandlerFails
  <2>2. CASE HandlerRefreshed(h) \/ HandlerBreaks(h)
    <3>1. /\ UNCHANGED <<page, source, state, quiet, user>>
          /\ call' = [call EXCEPT ![h] = Idle] /\ handling' = handling \ {h}
      BY <2>2, SessionAssumption DEF HandlerRefreshed, HandlerBreaks, Refreshed, End
    <3>2. h \notin handling => flags' = flags
      BY <2>2 DEF HandlerRefreshed, HandlerBreaks
    <3>3. flags' \in [open : BOOLEAN, loading : BOOLEAN, error : BOOLEAN, reconnect : BOOLEAN]
      BY <1>a, <2>2 DEF HandlerRefreshed, HandlerBreaks, PageTypes
    <3>4. garbled' \in BOOLEAN
      BY <1>a, <2>2 DEF HandlerRefreshed, HandlerBreaks, PageTypes
    <3>5. PageTypes' /\ Alive' = Alive /\ (Shown' <=> Shown)
      BY <1>a, <3>1, <3>3, <3>4 DEF PageTypes, Alive, Shown
    <3>6. QuietTail'
      BY <1>a, <3>1, <3>2, <3>5 DEF QuietTail
    <3>7. handling' \subseteq {g \in Handlers : call'[g].pc = "refreshing"}
      BY <1>a, <3>1 DEF SessionTypeOK, Calls
    <3> QED
      BY <1>a, <3>1, <3>5, <3>6, <3>7
  <2> QED
    BY <1>7, <2>1, <2>2 DEF HandlerStep
<1>8. CASE UNCHANGED vars
  BY <1>8, <1>k DEF vars, session
<1> QED
  BY <1>1, <1>2, <1>3, <1>4, <1>5, <1>6, <1>7, <1>8 DEF Next

\* The page is not shown, and every source is closed.
LEMMA TailInvInit == TailInit => TailInv
<1> SUFFICES ASSUME TailInit PROVE TailInv
  OBVIOUS
<1>1. SessionTypeOK
  BY SessionInvInit DEF SessionInv
<1>2. Alive = {} /\ ~Shown
  BY DEF TailInit, Alive, Shown
<1>3. TypeOK
  BY <1>1 DEF TailInit, TypeOK, Closed
<1> QED
  BY <1>2, <1>3 DEF TailInv, OneConnection, QuietTail, TailInit

\* The strengthened invariant of the tail holds in all its behaviours.
LEMMA TailInvariance == Spec => []TailInv
  BY TailInvInit, TailInvStep, PTL DEF Spec

\* Type correctness of the tail and of the session under it; a handler of the
\* page is one that is refreshing tokens.
THEOREM TypeCorrect == Spec => []TypeOK
<1>1. TailInv => TypeOK
  BY DEF TailInv
<1> QED
  BY <1>1, TailInvariance, PTL

\* One connection: whatever errors, refreshes and reconnections overlap, at most
\* one source streams logs, the page can close it, and it does not outlive the
\* page or the session.
THEOREM OneConnectionAlways == Spec => []OneConnection
<1>1. TailInv => OneConnection
  BY DEF TailInv
<1> QED
  BY <1>1, TailInvariance, PTL

\* Paused stays paused: a tail that was paused while no error was being handled
\* is not connected again before its user asks for it.
THEOREM PausedStaysPausedAlways == Spec => []PausedStaysPaused
<1>1. TailInv => PausedStaysPaused
  BY DEF TailInv, QuietTail, PausedStaysPaused
<1> QED
  BY <1>1, TailInvariance, PTL
=============================================================================
