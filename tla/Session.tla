------------------------------- MODULE Session -------------------------------
(***************************************************************************)
(* The session of one browser tab: the tokens in local storage, the login  *)
(* that the application shows, and the calls that go on while either       *)
(* changes.  A call answered with 401 asks for new tokens, stores them and *)
(* is sent once more; any failure to get them logs the user out.           *)
(*                                                                         *)
(* A token stands for the login it was issued to.  The server may find the *)
(* access token or the refresh token of a login expired at any time.       *)
(***************************************************************************)
EXTENDS Naturals

CONSTANTS
  Requests,   \* API calls in flight at once
  Handlers,   \* error handlers of the live tail, which refresh tokens as well
  MaxLogins   \* bound on the logins

ASSUME SessionAssumption == Requests \cap Handlers = {} /\ MaxLogins \in Nat

VARIABLES
  stored,  \* the login whose tokens are in local storage, 0 without any
  user,    \* the login the application shows, 0 when logged out
  logins,  \* logins so far
  call,    \* the progress of each call, and the login whose token it carries
  cut      \* a session ended while calls were refreshing or retrying

session == <<stored, user, logins, call, cut>>

Calls == Requests \cup Handlers

-----------------------------------------------------------------------------
Idle == [pc |-> "idle", token |-> 0]

\* A call whose outcome may still change the session
Pending(c) == call[c].pc \in {"refreshing", "retrying"}

Goto(c, pc) == call' = [call EXCEPT ![c].pc = pc]
End(c) == call' = [call EXCEPT ![c] = Idle]

Init ==
  /\ stored = 0 /\ user = 0 /\ logins = 0
  /\ call = [c \in Calls |-> Idle]
  /\ cut = FALSE

LogoutKeepsTokens(actors) ==
  /\ user' = 0
  /\ stored' = stored
  /\ cut' = (cut \/ \E c \in Calls \ actors : Pending(c))

\* Logout(), called by the calls in actors or by the user: the tokens are
\* deleted, and the LOGOUT event clears the application's state.
Logout(actors) ==
  /\ user' = 0
  /\ stored' = 0
  /\ cut' = (cut \/ \E c \in Calls \ actors : Pending(c))

-----------------------------------------------------------------------------
(* The user. *)

\* The login form: afterLogin stores the tokens and shows the new login.
Login ==
  /\ user = 0
  /\ logins < MaxLogins
  /\ logins' = logins + 1
  /\ stored' = logins' /\ user' = logins'
  /\ cut' = (\E c \in Calls : Pending(c))
  /\ UNCHANGED call

\* Wrong credentials: 401 on /login, which the interceptor takes for a refresh
\* token that expired.
LoginDenied ==
  /\ user = 0
  /\ Logout({})
  /\ UNCHANGED <<logins, call>>

UserLogout ==
  /\ user # 0
  /\ Logout({})
  /\ UNCHANGED <<logins, call>>

\* The page is loaded anew: its calls are gone, local storage is not.
Reload ==
  /\ user' = stored
  /\ call' = [c \in Calls |-> Idle]
  /\ cut' = FALSE
  /\ UNCHANGED <<stored, logins>>

-----------------------------------------------------------------------------
(* The calls. *)

\* interceptorsRequestResponse adds the stored access token.
Send(c) ==
  /\ c \in Requests
  /\ call[c].pc = "idle"
  /\ user # 0
  /\ call' = [call EXCEPT ![c] = [pc |-> "sent", token |-> stored]]
  /\ UNCHANGED <<stored, user, logins, cut>>

\* An answer, or an error other than 401; a call that is sent for the second
\* time ends with it as well.
Answered(c) ==
  /\ call[c].pc \in {"sent", "retrying"}
  /\ call[c].token # 0
  /\ End(c)
  /\ UNCHANGED <<stored, user, logins, cut>>

RefreshWithOwnToken(c) == call' = [call EXCEPT ![c].pc = "refreshing"]

\* Tokens are asked for with the refresh token that is stored now, whichever
\* login the call was first sent for.
BeginRefresh(c) ==
  call' = [call EXCEPT ![c] = [pc |-> "refreshing", token |-> stored]]

\* interceptorRejected: 401 on anything but /login
Unauthorized(c) ==
  /\ call[c].pc = "sent"
  /\ BeginRefresh(c)
  /\ UNCHANGED <<stored, user, logins, cut>>

\* New tokens are stored by afterLogin, without the event that would show them.
Refreshed(c) ==
  /\ call[c].pc = "refreshing"
  /\ call[c].token # 0
  /\ stored' = call[c].token
  /\ IF c \in Requests THEN Goto(c, "retrying") ELSE End(c)
  /\ UNCHANGED <<user, logins, cut>>

\* The refresh is denied, or there is no answer: the user is logged out.
RefreshFails(c) ==
  /\ call[c].pc = "refreshing"
  /\ End(c)
  /\ Logout({c})
  /\ UNCHANGED logins

\* 401 for a call that was just given a new token
RetryUnauthorized(c) ==
  /\ call[c].pc = "retrying"
  /\ End(c)
  /\ Logout({c})
  /\ UNCHANGED logins

SessionTypeOK ==
  /\ {stored, user, logins} \subseteq 0..MaxLogins
  /\ call \in [Calls -> [pc : {"idle", "sent", "refreshing", "retrying"},
                         token : 0..MaxLogins]]
  /\ \A c \in Handlers : call[c].pc \in {"idle", "refreshing"}
  /\ cut \in BOOLEAN

-----------------------------------------------------------------------------
(* Properties. *)

\* The tokens in local storage are those of the login the application shows,
\* and a logout leaves none behind.  However many calls refresh at once, this
\* can fail only when a session ends while another call is refreshing or
\* retrying: what that call still stores is excepted.
TokensAreTheUsers == ~cut => stored = user

\* A session that its user did not end is ended by a call that was refused with
\* the session's own tokens, never with tokens of an earlier one (with the same
\* exception).  The call need not have been made in the session: one that was
\* sent before a logout and is answered with 401 after the next login refreshes
\* with the new tokens, and ends the new session when these are refused.
EndedByOwnTokens ==
  [][user # 0 /\ user' = 0 /\ ~UserLogout /\ ~cut =>
       \E c \in Calls : Pending(c) /\ call[c].token = user /\ call'[c] = Idle]_session
=============================================================================
