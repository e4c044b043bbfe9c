------------------------- MODULE AlertmanagerConfig -------------------------
(***************************************************************************)
(* The configuration of one organization's Alertmanager.  It is stored as  *)
(* one row that requests for channels and for rules read, change and write *)
(* back whole, next to the channel's or rule's own row in the same         *)
(* transaction.  The service polls the row, hands it to the running server *)
(* and rebuilds it from the other rows when it creates the server.         *)
(*                                                                         *)
(* Reads go to the database outside of the transaction, also in a rule's   *)
(* callback, so they see what is committed.  A transaction that has        *)
(* written a row keeps others from writing it until it ends.               *)
(***************************************************************************)
EXTENDS FiniteSets, Naturals

CONSTANTS
  Names,       \* channel names, each also the id of the channel that has it first
  Rules,       \* rule ids
  Requests,    \* API requests, each also the id of the channel it creates
  Kinds,       \* the kinds of request sent
  Choices,     \* the preferredChannels that rules have, {} for all channels
  Broken,      \* requests whose receiver no integration can be built from
  None,        \* no rule, no receiver, no configuration
  MaxRestarts  \* bound on restarts

ChannelKinds == {"createChannel", "updateChannel", "deleteChannel"}
RuleKinds == {"createRule", "editRule", "deleteRule"}

ASSUME ConfigAssumption ==
  /\ Kinds \subseteq ChannelKinds \cup RuleKinds
  /\ Choices \subseteq SUBSET Names
  /\ Broken \subseteq Requests
  /\ MaxRestarts \in Nat
  /\ None \notin Names \cup Rules \cup Requests
  /\ Names \cap Rules = {} /\ Names \cap Requests = {}

VARIABLES
  channels,  \* the rows of notification_channel
  rules,     \* preferredChannels of each stored rule; {} stands for all channels
  stored,    \* the row of alertmanager_config
  server,    \* the organization's server and the configuration it runs
  sync,      \* the progress of SyncServers
  req,       \* the progress of each request
  restarts,  \* restarts so far
  damaged    \* ghost: what was written from a read that was out of date

vars == <<channels, rules, stored, server, sync, req, restarts, damaged>>

-----------------------------------------------------------------------------
(* A configuration: the receiver of each name, and the rules its route       *)
(* matches.  A new route matches a rule id that no rule has, so {} is none.  *)

Channel == [id : Names \cup Requests, name : Names, data : Requests \cup {None}]
Receiver == [data : Requests \cup {None}, rules : SUBSET Rules]
Config == [Names -> Receiver \cup {None}]

ASSUME NoneAssumption == None \notin Receiver \cup Config \cup Choices

CreateReceiver(c, n, d) == [c EXCEPT ![n] = [data |-> d, rules |-> {}]]

ReplaceReceiver(c, n, d) == IF c[n] = None THEN c ELSE CreateReceiver(c, n, d)

UpdateReceiver(c, n, d) ==
  [m \in Names |-> IF m = n /\ c[m] # None THEN [c[m] EXCEPT !.data = d] ELSE c[m]]

DeleteReceiver(c, n) == [c EXCEPT ![n] = None]

CreateRuleIDMatcher(c, rule, names) ==
  [n \in Names |-> IF n \in names /\ c[n] # None
                   THEN [c[n] EXCEPT !.rules = @ \cup {rule}] ELSE c[n]]

DeleteRuleIDMatcher(c, rule) ==
  [n \in Names |-> IF c[n] # None THEN [c[n] EXCEPT !.rules = @ \ {rule}] ELSE c[n]]

KeepOldMatchers(c, rule, names) == CreateRuleIDMatcher(c, rule, names)

UpdateRuleIDMatcher(c, rule, names) ==
  CreateRuleIDMatcher(DeleteRuleIDMatcher(c, rule), rule, names)

NamesOf(chs) == {ch.name : ch \in chs}

\* CreateReceiver refuses a second receiver of the same name.
NamesUnique(chs) == \A c1, c2 \in chs : c1.name = c2.name => c1 = c2

\* The configuration that newServer makes of the channel rows and of the
\* channels the rules' definitions name.
Rebuild(chs, prefs) ==
  [n \in Names |->
     IF n \notin NamesOf(chs) THEN None
     ELSE [data  |-> (CHOOSE ch \in chs : ch.name = n).data,
           rules |-> {rule \in Rules : prefs[rule] # None /\ n \in prefs[rule]}]]

Buildable(c) == \A n \in Names : c[n] # None => c[n].data \notin Broken

-----------------------------------------------------------------------------
Request == [pc : {"idle", "config", "write", "row", "get", "set", "commit", "done"},
            kind : Kinds \cup {None}, id : Names \cup Requests \cup {None},
            name : Names \cup {None}, rule : Rules \cup {None}, prefer : Choices \cup {{}},
            copy : Config \cup {None}, missed : SUBSET (Names \cup Rules)]

Sync == [pc : {"idle", "new", "list", "matchers", "set"},
         config : Config \cup {None}, old : Config \cup {None}, rows : SUBSET Channel,
         new : Config \cup {None}, missed : SUBSET (Names \cup Rules)]

NoRequest == [pc |-> "idle", kind |-> None, id |-> None, name |-> None,
              rule |-> None, prefer |-> {}, copy |-> None, missed |-> {}]

NoSync == [pc |-> "idle", config |-> None, old |-> None, rows |-> {},
           new |-> None, missed |-> {}]

\* An organization whose rules were created after its channels
Init ==
  /\ \E names \in SUBSET Names :
       channels = {[id |-> n, name |-> n, data |-> None] : n \in names}
  /\ rules \in [Rules -> Choices \cup {None}]
  /\ stored = [n \in Names |->
                 IF n \notin NamesOf(channels) THEN None
                 ELSE [data  |-> None,
                       rules |-> {rule \in Rules : /\ rules[rule] # None
                                                   /\ rules[rule] = {} \/ n \in rules[rule]}]]
  /\ server = [up |-> TRUE, config |-> stored]
  /\ sync = NoSync
  /\ req = [r \in Requests |-> NoRequest]
  /\ restarts = 0
  /\ damaged = {}

Busy(r) == req[r].pc \notin {"idle", "done"}
Quiet == \A r \in Requests : ~Busy(r)

\* The transaction that has written the configuration's row, or a rule's row
ConfigFree == \A r \in Requests : req[r].pc # "commit"
RuleFree(rule) == \A r \in Requests : req[r].rule = rule => req[r].pc \notin {"get", "set", "commit"}

\* What request r is about
Subject(r) == IF req[r].kind \in RuleKinds THEN req[r].rule ELSE req[r].name

\* Every request but done has missed a change of the things in changed, if it
\* goes on with what it has read already.
Missing(done, changed) ==
  [r \in Requests |->
     IF r # done /\ req[r].pc \in {"config", "write", "row", "get", "set"}
     THEN [req[r] EXCEPT !.missed = @ \cup changed] ELSE req[r]]

-----------------------------------------------------------------------------
(* Requests for channels. *)

ArriveCreateChannel(r, n) ==
  /\ req[r].pc = "idle"
  /\ "createChannel" \in Kinds
  /\ req' = [req EXCEPT ![r] = [NoRequest EXCEPT !.pc = "config", !.kind = "createChannel",
                                                 !.id = r, !.name = n]]
  /\ UNCHANGED <<channels, rules, stored, server, sync, restarts, damaged>>

\* GetChannelByID.  An update must keep the name.
ArriveChannel(r, kind, ch) ==
  /\ req[r].pc = "idle"
  /\ kind \in Kinds
  /\ req' = [req EXCEPT ![r] = [NoRequest EXCEPT !.pc = "config", !.kind = kind,
                                                 !.id = ch.id, !.name = ch.name]]
  /\ UNCHANGED <<channels, rules, stored, server, sync, restarts, damaged>>

\* What a channel request makes of configuration c
Changed(r, c) ==
  CASE req[r].kind = "createChannel" -> CreateReceiver(c, req[r].name, r)
    [] req[r].kind = "updateChannel" -> UpdateReceiver(c, req[r].name, r)
    [] OTHER -> DeleteReceiver(c, req[r].name)

ReadConfigUnchecked(r) ==
  /\ req[r].pc = "config"
  /\ req' = [req EXCEPT ![r].pc = "write", ![r].copy = Changed(r, stored),
                        ![r].missed = {}]
  /\ UNCHANGED <<channels, rules, stored, server, sync, restarts, damaged>>

\* configStore.Get and the change to the copy, before the transaction.  What
\* happened to the channel since its row was read is still missed.
ReadConfig(r) ==
  /\ req[r].pc = "config"
  /\ LET conflict == req[r].kind = "createChannel" /\ stored[req[r].name] # None
     IN  req' = [req EXCEPT
           ![r].pc     = IF conflict THEN "done" ELSE "write",
           ![r].copy   = IF conflict THEN None ELSE Changed(r, stored),
           ![r].missed = IF req[r].kind = "createChannel" THEN {}
                         ELSE @ \cap {req[r].name}]
  /\ UNCHANGED <<channels, rules, stored, server, sync, restarts, damaged>>

\* The channel's row and, in the callback, the configuration's
WriteChannel(r) ==
  /\ req[r].pc = "write"
  /\ ConfigFree
  /\ req' = [req EXCEPT ![r].pc = "commit"]
  /\ UNCHANGED <<channels, rules, stored, server, sync, restarts, damaged>>

-----------------------------------------------------------------------------
(* Requests for rules. *)

\* A rule gets its id when it is created; the others begin with GetStoredRule.
ArriveRule(r, kind, rule, prefer) ==
  /\ req[r].pc = "idle"
  /\ kind \in Kinds
  /\ IF kind = "createRule"
     THEN rules[rule] = None /\ \A other \in Requests : req[other].rule # rule
     ELSE rules[rule] # None
  /\ IF kind = "deleteRule" THEN prefer = {} ELSE prefer \in Choices
  /\ req' = [req EXCEPT ![r] = [NoRequest EXCEPT !.pc = "row", !.kind = kind,
                                                 !.rule = rule, !.prefer = prefer]]
  /\ UNCHANGED <<channels, rules, stored, server, sync, restarts, damaged>>

\* The rule's row, first in the transaction
WriteRule(r) ==
  /\ req[r].pc = "row"
  /\ RuleFree(req[r].rule)
  /\ req' = [req EXCEPT ![r].pc = "get"]
  /\ UNCHANGED <<channels, rules, stored, server, sync, restarts, damaged>>

\* The callback's GetConfig, ListChannels and matchers
GetConfig(r) ==
  /\ req[r].pc = "get"
  /\ LET rule  == req[r].rule
         names == IF req[r].prefer = {} THEN NamesOf(channels) ELSE req[r].prefer
     IN  req' = [req EXCEPT
           ![r].pc     = "set",
           ![r].copy   = CASE req[r].kind = "createRule" -> CreateRuleIDMatcher(stored, rule, names)
                           [] req[r].kind = "editRule" -> UpdateRuleIDMatcher(stored, rule, names)
                           [] OTHER -> DeleteRuleIDMatcher(stored, rule),
           ![r].missed = @ \cap {rule}]
  /\ UNCHANGED <<channels, rules, stored, server, sync, restarts, damaged>>

SetConfig(r) ==
  /\ req[r].pc = "set"
  /\ ConfigFree
  /\ req' = [req EXCEPT ![r].pc = "commit"]
  /\ UNCHANGED <<channels, rules, stored, server, sync, restarts, damaged>>

-----------------------------------------------------------------------------
(* The end of a request. *)

\* An update or a delete of a row that is gone is no error.
CommitRow(r) ==
  /\ channels' =
       CASE req[r].kind = "createChannel" ->
              channels \cup {[id |-> r, name |-> req[r].name, data |-> r]}
         [] req[r].kind = "updateChannel" ->
              {IF ch.id = req[r].id THEN [ch EXCEPT !.data = r] ELSE ch : ch \in channels}
         [] req[r].kind = "deleteChannel" -> {ch \in channels : ch.id # req[r].id}
         [] OTHER -> channels
  /\ rules' =
       IF req[r].kind \notin RuleKinds THEN rules
       ELSE [rules EXCEPT ![req[r].rule] =
               IF req[r].kind = "deleteRule" THEN None
               ELSE IF req[r].kind = "editRule" /\ @ = None THEN None
               ELSE req[r].prefer]

Commit(r) ==
  /\ req[r].pc = "commit"
  /\ CommitRow(r)
  /\ stored' = req[r].copy
  /\ req' = [Missing(r, {Subject(r)}) EXCEPT
               ![r].pc = "done", ![r].copy = None, ![r].missed = {}]
  /\ sync' = IF sync.pc \in {"matchers", "set"}
             THEN [sync EXCEPT !.missed = @ \cup {Subject(r)}] ELSE sync
  /\ damaged' = damaged \cup req[r].missed
  /\ UNCHANGED <<server, restarts>>

\* Any step may fail; a transaction is then rolled back.
Fail(r) ==
  /\ Busy(r)
  /\ req' = [req EXCEPT ![r].pc = "done", ![r].copy = None, ![r].missed = {}]
  /\ UNCHANGED <<channels, rules, stored, server, sync, restarts, damaged>>

-----------------------------------------------------------------------------
(* SyncServers, at the start and at every tick. *)

\* SetConfig of a server: a configuration it cannot build leaves the old one.
Running(c) == IF Buildable(c) THEN c ELSE server.config

NeverUpdate ==
  /\ sync.pc = "idle"
  /\ ~server.up
  /\ sync' = [sync EXCEPT !.pc = "new", !.config = stored]
  /\ UNCHANGED <<channels, rules, stored, server, req, restarts, damaged>>

CreateAgain ==
  /\ sync.pc = "idle"
  /\ sync' = [sync EXCEPT !.pc = "new", !.config = stored]
  /\ UNCHANGED <<channels, rules, stored, server, req, restarts, damaged>>

\* The server is there: it gets the configuration, unless it runs it.
SyncServers ==
  /\ sync.pc = "idle"
  /\ IF server.up
     THEN /\ server' = [server EXCEPT !.config = Running(stored)]
          /\ UNCHANGED sync
     ELSE /\ sync' = [sync EXCEPT !.pc = "new", !.config = stored]
          /\ UNCHANGED server
  /\ UNCHANGED <<channels, rules, stored, req, restarts, damaged>>

\* newServer reads the configuration again ...
NewServer ==
  /\ sync.pc = "new"
  /\ sync' = [sync EXCEPT !.pc = "list", !.old = stored]
  /\ UNCHANGED <<channels, rules, stored, server, req, restarts, damaged>>

\* ... and compareAndSelectConfig the channels ...
ListChannels ==
  /\ sync.pc = "list"
  /\ sync' = [sync EXCEPT !.pc = "matchers", !.rows = channels]
  /\ UNCHANGED <<channels, rules, stored, server, req, restarts, damaged>>

\* ... and the rules.  Two channels of one name are an error: no server then.
GetMatchers ==
  /\ sync.pc = "matchers"
  /\ sync' = IF NamesUnique(sync.rows)
             THEN [sync EXCEPT !.pc = "set", !.rows = {}, !.new = Rebuild(sync.rows, rules)]
             ELSE NoSync
  /\ UNCHANGED <<channels, rules, stored, server, req, restarts, damaged>>

NeverStore ==
  /\ sync.pc = "set"
  /\ UNCHANGED <<stored, req, damaged>>
  /\ server' = [up |-> TRUE, config |-> Running(sync.config)]
  /\ sync' = NoSync
  /\ UNCHANGED <<channels, rules, restarts>>

\* A configuration that differs from the rebuilt one is replaced in the store;
\* the new server still gets the one that was read first.  A request that read
\* the old one may write it back, with all that was damaged in it.
StoreRebuilt ==
  /\ sync.pc = "set"
  /\ IF sync.new = sync.old
     THEN UNCHANGED <<stored, req, damaged>>
     ELSE /\ ConfigFree
          /\ stored' = sync.new
          /\ req' = Missing(None, damaged \cup {n \in Names : stored[n] # sync.new[n]})
          /\ damaged' = sync.missed
  /\ server' = [up |-> TRUE, config |-> Running(sync.config)]
  /\ sync' = NoSync
  /\ UNCHANGED <<channels, rules, restarts>>

\* The organization is left for the next tick.
SyncFails ==
  /\ sync.pc # "idle"
  /\ sync' = NoSync
  /\ UNCHANGED <<channels, rules, stored, server, req, restarts, damaged>>

Restart ==
  /\ restarts < MaxRestarts
  /\ restarts' = restarts + 1
  /\ server' = [up |-> FALSE, config |-> None]
  /\ sync' = NoSync
  /\ req' = [r \in Requests |-> IF Busy(r) THEN [NoRequest EXCEPT !.pc = "done", !.rule = req[r].rule]
                                ELSE req[r]]
  /\ UNCHANGED <<channels, rules, stored, damaged>>

-----------------------------------------------------------------------------
Arrive(r) ==
  \/ \E n \in Names : ArriveCreateChannel(r, n)
  \/ \E kind \in {"updateChannel", "deleteChannel"}, ch \in channels : ArriveChannel(r, kind, ch)
  \/ \E kind \in RuleKinds, rule \in Rules, prefer \in Choices \cup {{}} :
       ArriveRule(r, kind, rule, prefer)

Proceed(r) ==
  \/ ReadConfig(r) \/ WriteChannel(r)
  \/ WriteRule(r) \/ GetConfig(r) \/ SetConfig(r)
  \/ Commit(r) \/ Fail(r)

Next ==
  \/ \E r \in Requests : Arrive(r) \/ Proceed(r)
  \/ SyncServers \/ NewServer \/ ListChannels \/ GetMatchers \/ StoreRebuilt
  \/ SyncFails \/ Restart

\* Requests end, the ticker ticks, and a store that is asked again and again
\* answers at last.
Fairness ==
  /\ \A r \in Requests : WF_vars(Proceed(r))
  /\ WF_vars(SyncServers)
  /\ SF_vars(NewServer) /\ SF_vars(ListChannels) /\ SF_vars(GetMatchers)
  /\ SF_vars(StoreRebuilt)

Spec == Init /\ [][Next]_vars /\ Fairness

-----------------------------------------------------------------------------
\* Every variable has its type; a server is created only where there is none,
\* and a request keeps a copy of the configuration only between its read and
\* its end.
TypeOK ==
  /\ channels \subseteq Channel
  /\ rules \in [Rules -> Choices \cup {None}]
  /\ stored \in Config
  /\ server \in [up : BOOLEAN, config : Config \cup {None}]
  /\ sync \in Sync
  /\ sync.pc = "set" => sync.new # None
  /\ req \in [Requests -> Request]
  /\ \A r \in Requests : req[r].copy # None <=> req[r].pc \in {"write", "set", "commit"}
  /\ restarts \in 0..MaxRestarts
  /\ damaged \subseteq Names \cup Rules
  /\ sync.pc # "idle" => ~server.up

\* The stored configuration has a receiver exactly for the channels that have
\* a row, one row each, with the row's contents.  Only a request that wrote
\* from an outdated read can break this, and only for the channels that others
\* changed since that read.
ReceiversMatchChannels ==
  \A n \in Names \ damaged :
    LET rows == {ch \in channels : ch.name = n}
    IN  /\ Cardinality(rows) <= 1
        /\ {ch.data : ch \in rows} = IF stored[n] = None THEN {} ELSE {stored[n].data}

\* A route matches only rules that are stored and want its channel, with the
\* same exception: a deleted rule leaves no route, an edited one only those it
\* still names.
RoutesMatchRules ==
  \A n \in Names \ damaged, rule \in Rules \ damaged :
    stored[n] # None /\ rule \in stored[n].rules =>
      /\ rules[rule] # None
      /\ rules[rule] = {} \/ n \in rules[rule]

Routed(n, rule) == stored[n] # None /\ rule \in stored[n].rules

\* A request takes a rule off a channel only when it deletes the channel or
\* changes the rule, or writes over a change of either that it has not seen:
\* what others routed stays routed.
RoutesAreKept ==
  [][\A r \in Requests, n \in Names, rule \in Rules :
       Commit(r) /\ Routed(n, rule) /\ ~Routed(n, rule)' =>
         \/ req[r].kind = "deleteChannel" /\ req[r].name = n
         \/ req[r].kind \in {"editRule", "deleteRule"} /\ req[r].rule = rule
         \/ {n, rule} \cap damaged' # {}]_vars

\* The server ends up with the configuration that is stored, as long as it can
\* be built and no two channels share a name.
ServerCatchesUp ==
  <>[](NamesUnique(channels) /\ Buildable(stored) => server = [up |-> TRUE, config |-> stored])

\* A start with no request open repairs whatever earlier requests damaged.
StartRepairs ==
  /\ ~server.up /\ sync.pc = "idle" /\ Quiet /\ NamesUnique(channels)
  ~> \/ stored = Rebuild(channels, rules)
     \/ ~Quiet

\* A rule that names no channel alerts on all the configured channels.
EmptyMeansAll ==
  Quiet /\ server.up /\ server.config = stored =>
    \A ch \in channels, rule \in Rules : rules[rule] = {} => Routed(ch.name, rule)
=============================================================================
