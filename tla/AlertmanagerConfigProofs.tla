----------------------- MODULE AlertmanagerConfigProofs -----------------------
(***************************************************************************)
(* Proofs about the stored configuration, for any channels, rules and      *)
(* requests.                                                               *)
(*                                                                         *)
(* A request writes back a whole configuration that it read some time ago. *)
(* The invariant says what its copy can still be trusted about: what it    *)
(* has Seen, that is, what nobody has changed since it was read and what   *)
(* was not damaged when it was read.                                       *)
(***************************************************************************)
EXTENDS AlertmanagerConfig, FiniteSetTheorems, TLAPS

-----------------------------------------------------------------------------
(* The invariant. *)

Routes(c, n, rule) == c[n] # None /\ rule \in c[n].rules

Wants(rule, n) == rules[rule] # None /\ (rules[rule] = {} \/ n \in rules[rule])

\* Configuration c has for name n what the channel's row says.
RowsMatch(c, n) ==
  /\ c[n] = None => \A ch \in channels : ch.name # n
  /\ c[n] # None => \E ch \in channels : ch.name = n /\ ch.data = c[n].data
  /\ \A c1, c2 \in channels : c1.name = n /\ c2.name = n => c1 = c2

\* Configuration c is right about everything but the things in wrong.
Matches(c, wrong) ==
  \A n \in Names \ wrong :
    /\ RowsMatch(c, n)
    /\ \A rule \in Rules \ wrong : Routes(c, n, rule) => Wants(rule, n)

StoredMatches == Matches(stored, damaged)

\* What SyncServers rebuilds is right but for the changes since it read the rows.
RebuiltMatches ==
  /\ sync.pc = "matchers" =>
       \A ch \in sync.rows \cup channels :
         ch.name \notin sync.missed => ch \in sync.rows /\ ch \in channels
  /\ sync.pc = "set" => Matches(sync.new, sync.missed)

\* A channel keeps its name: that of the request or the row it comes from.
OwnName(id) == IF id \in Names THEN id ELSE req[id].name

\* The request that created channel id, if one did, has ended.
Created(id) == id \in Names \/ req[id].pc = "done"

Identity ==
  /\ \A ch \in channels : ch.name = OwnName(ch.id) /\ Created(ch.id)
  /\ \A r \in Requests :
       req[r].pc \in {"config", "write", "commit"} /\ req[r].kind \in {"updateChannel", "deleteChannel"} =>
         /\ req[r].id \in Names \cup Requests
         /\ req[r].name = OwnName(req[r].id) /\ Created(req[r].id)

\* Which requests may be where at once.
Locks ==
  /\ \A q, r \in Requests : req[q].pc = "commit" /\ req[r].pc = "commit" => q = r
  /\ \A q, r \in Requests :
       {req[q].pc, req[r].pc} \subseteq {"get", "set", "commit"}
         /\ req[q].rule = req[r].rule /\ req[r].rule \in Rules => q = r

\* A request at a step of its kind has what that kind needs.
Fits(r) ==
  /\ req[r].pc \in {"config", "write"} =>
       req[r].kind \in ChannelKinds /\ req[r].name \in Names /\ req[r].rule = None
  /\ req[r].pc \in {"row", "get", "set"} => req[r].kind \in RuleKinds /\ req[r].rule \in Rules
  /\ req[r].pc = "commit" => \/ req[r].kind \in ChannelKinds /\ req[r].name \in Names
                             \/ req[r].kind \in RuleKinds /\ req[r].rule \in Rules
  /\ req[r].kind \in {"createRule", "editRule"} /\ Busy(r) => req[r].prefer \in Choices
  /\ req[r].kind = "createChannel" /\ Busy(r) => req[r].id = r

\* A rule that is being created has no row yet and no other request.
RuleIsNew(r) ==
  req[r].kind = "createRule" /\ Busy(r) =>
    rules[req[r].rule] = None /\ \A q \in Requests \ {r} : req[q].rule # req[r].rule

\* A channel or rule that a request found is there, unless it missed the change.
SubjectKept(r) ==
  /\ /\ req[r].kind \in {"updateChannel", "deleteChannel"}
     /\ req[r].pc \in {"config", "write", "commit"}
     /\ req[r].name \notin req[r].missed
     => \E ch \in channels : ch.id = req[r].id /\ ch.name = req[r].name
  /\ /\ req[r].kind = "editRule"
     /\ req[r].pc \in {"row", "get", "set", "commit"}
     /\ req[r].rule \notin req[r].missed
     => rules[req[r].rule] # None

HasCopy(r) == req[r].pc \in {"write", "set", "commit"}

\* What the copy of request r can be trusted about
Wrong(r) == req[r].missed \cup damaged

\* The copy is what is stored, apart from what the request is about ...
CopyAgrees(r) ==
  HasCopy(r) =>
    \A n \in Names \ Wrong(r) :
      /\ n # Subject(r) =>
           /\ req[r].copy[n] = None <=> stored[n] = None
           /\ stored[n] # None => req[r].copy[n].data = stored[n].data
      /\ n # Subject(r) \/ req[r].kind = "updateChannel" =>
           \A rule \in Rules \ Wrong(r) :
             rule # Subject(r) => (Routes(req[r].copy, n, rule) <=> Routes(stored, n, rule))

\* ... and there it is what the request makes of it.
CopyChanged(r) ==
  HasCopy(r) /\ Subject(r) \notin Wrong(r) =>
    LET c == req[r].copy  subject == Subject(r)
    IN  CASE req[r].kind = "createChannel" ->
               stored[subject] = None /\ c[subject] = [data |-> r, rules |-> {}]
          [] req[r].kind = "updateChannel" ->
               /\ c[subject] = None <=> stored[subject] = None
               /\ c[subject] # None => c[subject].data = r
          [] req[r].kind = "deleteChannel" -> c[subject] = None
          [] req[r].kind = "deleteRule" -> \A n \in Names : ~Routes(c, n, subject)
          [] OTHER -> \A n \in Names \ Wrong(r) :
               Routes(c, n, subject) => req[r].prefer = {} \/ n \in req[r].prefer

ReqInv(r) == RuleIsNew(r) /\ SubjectKept(r) /\ CopyAgrees(r) /\ CopyChanged(r)

TypeInv == TypeOK /\ \A r \in Requests : Fits(r)

ConfigInv ==
  /\ TypeInv /\ StoredMatches /\ RebuiltMatches /\ Identity /\ Locks
  /\ \A r \in Requests : ReqInv(r)

-----------------------------------------------------------------------------
(* Configurations: what each change makes of one. *)

\* A receiver, with or without other data or other rules, is never None.
LEMMA ReceiverFacts ==
  ASSUME NEW c \in Config, NEW n \in Names
  PROVE  /\ c[n] = None \/ c[n] \in Receiver
         /\ \A d \in Requests \cup {None}, rs \in SUBSET Rules :
              /\ [data |-> d, rules |-> rs] \in Receiver
              /\ [data |-> d, rules |-> rs] # None
         /\ c[n] # None => c[n].data \in Requests \cup {None} /\ c[n].rules \in SUBSET Rules
BY NoneAssumption DEF Config, Receiver

\* CreateReceiver: the new receiver has no rules, the others are untouched.
LEMMA CreateFacts ==
  ASSUME NEW c \in Config, NEW n \in Names, NEW d \in Requests
  PROVE  /\ CreateReceiver(c, n, d) \in Config
         /\ CreateReceiver(c, n, d)[n] = [data |-> d, rules |-> {}]
         /\ \A m \in Names \ {n} : CreateReceiver(c, n, d)[m] = c[m]
BY ReceiverFacts DEF CreateReceiver, Config

\* Changing one field of a receiver leaves a receiver with the other one.
LEMMA DataFacts ==
  ASSUME NEW c \in Config, NEW n \in Names, c[n] # None, NEW d \in Requests
  PROVE  /\ [c[n] EXCEPT !.data = d] \in Receiver /\ [c[n] EXCEPT !.data = d] # None
         /\ [c[n] EXCEPT !.data = d].data = d
         /\ [c[n] EXCEPT !.data = d].rules = c[n].rules
<1>1. c[n] \in Receiver /\ c[n].rules \in SUBSET Rules
  BY ReceiverFacts
<1>2. [c[n] EXCEPT !.data = d] = [data |-> d, rules |-> c[n].rules]
  BY <1>1 DEF Receiver
<1> QED
  BY <1>1, <1>2, ReceiverFacts

\* The same for its rules.
LEMMA RulesFacts ==
  ASSUME NEW c \in Config, NEW n \in Names, c[n] # None, NEW rs \in SUBSET Rules
  PROVE  /\ [c[n] EXCEPT !.rules = rs] \in Receiver /\ [c[n] EXCEPT !.rules = rs] # None
         /\ [c[n] EXCEPT !.rules = rs].data = c[n].data
         /\ [c[n] EXCEPT !.rules = rs].rules = rs
<1>1. c[n] \in Receiver /\ c[n].data \in Requests \cup {None}
  BY ReceiverFacts
<1>2. [c[n] EXCEPT !.rules = rs] = [data |-> c[n].data, rules |-> rs]
  BY <1>1 DEF Receiver
<1> QED
  BY <1>1, <1>2, ReceiverFacts

\* UpdateReceiver: the receiver, if there is one, keeps its rules.
LEMMA UpdateFacts ==
  ASSUME NEW c \in Config, NEW n \in Names, NEW d \in Requests
  PROVE  /\ UpdateReceiver(c, n, d) \in Config
         /\ c[n] = None => UpdateReceiver(c, n, d)[n] = None
         /\ c[n] # None => /\ UpdateReceiver(c, n, d)[n] # None
                           /\ UpdateReceiver(c, n, d)[n].data = d
                           /\ UpdateReceiver(c, n, d)[n].rules = c[n].rules
         /\ \A m \in Names \ {n} : UpdateReceiver(c, n, d)[m] = c[m]
<1> DEFINE new == UpdateReceiver(c, n, d)
<1>1. \A m \in Names : new[m] = IF m = n /\ c[m] # None THEN [c[m] EXCEPT !.data = d] ELSE c[m]
  BY DEF UpdateReceiver
<1>2. new = [m \in Names |-> new[m]]
  BY DEF UpdateReceiver
<1> HIDE DEF new
<1>3. c[n] # None => /\ new[n] # None /\ new[n] \in Receiver
                     /\ new[n].data = d /\ new[n].rules = c[n].rules
  <2> SUFFICES ASSUME c[n] # None
               PROVE  /\ new[n] # None /\ new[n] \in Receiver
                      /\ new[n].data = d /\ new[n].rules = c[n].rules
    OBVIOUS
  <2>1. new[n] = [c[n] EXCEPT !.data = d]
    BY <1>1
  <2> QED
    BY <2>1, DataFacts
<1>4. \A m \in Names : new[m] \in Receiver \cup {None}
  BY <1>1, <1>3, ReceiverFacts
<1>5. new \in Config
  BY <1>2, <1>4 DEF Config
<1> QED
  BY <1>1, <1>3, <1>5 DEF new

\* DeleteReceiver: the receiver is gone, the others are untouched.
LEMMA DeleteFacts ==
  ASSUME NEW c \in Config, NEW n \in Names
  PROVE  /\ DeleteReceiver(c, n) \in Config
         /\ DeleteReceiver(c, n)[n] = None
         /\ \A m \in Names \ {n} : DeleteReceiver(c, n)[m] = c[m]
BY DEF DeleteReceiver, Config

\* CreateRuleIDMatcher: the rule is added to the receivers in names, and nothing
\* else changes.
LEMMA CreateMatcherFacts ==
  ASSUME NEW c \in Config, NEW rule \in Rules, NEW names
  PROVE  /\ CreateRuleIDMatcher(c, rule, names) \in Config
         /\ \A n \in Names :
              /\ CreateRuleIDMatcher(c, rule, names)[n] = None <=> c[n] = None
              /\ c[n] # None =>
                   /\ CreateRuleIDMatcher(c, rule, names)[n].data = c[n].data
                   /\ CreateRuleIDMatcher(c, rule, names)[n].rules =
                        IF n \in names THEN c[n].rules \cup {rule} ELSE c[n].rules
<1> DEFINE new == CreateRuleIDMatcher(c, rule, names)
<1>1. \A n \in Names : new[n] = IF n \in names /\ c[n] # None
                                THEN [c[n] EXCEPT !.rules = c[n].rules \cup {rule}] ELSE c[n]
  BY DEF CreateRuleIDMatcher
<1>2. new = [n \in Names |-> new[n]]
  BY DEF CreateRuleIDMatcher
<1> HIDE DEF new
<1>3. ASSUME NEW n \in Names
      PROVE  /\ new[n] \in Receiver \cup {None} /\ (new[n] = None <=> c[n] = None)
             /\ c[n] # None =>
                  /\ new[n].data = c[n].data
                  /\ new[n].rules = IF n \in names THEN c[n].rules \cup {rule} ELSE c[n].rules
  <2>1. CASE n \in names /\ c[n] # None
    <3>1. c[n].rules \cup {rule} \in SUBSET Rules
      BY <2>1, ReceiverFacts
    <3>2. new[n] = [c[n] EXCEPT !.rules = c[n].rules \cup {rule}]
      BY <1>1, <2>1
    <3> QED
      BY <2>1, <3>1, <3>2, RulesFacts
  <2>2. CASE ~(n \in names /\ c[n] # None)
    BY <1>1, <2>2, ReceiverFacts
  <2> QED
    BY <2>1, <2>2
<1>4. new \in Config
  BY <1>2, <1>3 DEF Config
<1> QED
  BY <1>3, <1>4 DEF new

\* DeleteRuleIDMatcher: the rule is taken off every receiver, and nothing else
\* changes.
LEMMA DeleteMatcherFacts ==
  ASSUME NEW c \in Config, NEW rule \in Rules
  PROVE  /\ DeleteRuleIDMatcher(c, rule) \in Config
         /\ \A n \in Names :
              /\ DeleteRuleIDMatcher(c, rule)[n] = None <=> c[n] = None
              /\ c[n] # None => /\ DeleteRuleIDMatcher(c, rule)[n].data = c[n].data
                                /\ DeleteRuleIDMatcher(c, rule)[n].rules = c[n].rules \ {rule}
<1> DEFINE new == DeleteRuleIDMatcher(c, rule)
<1>1. \A n \in Names : new[n] = IF c[n] # None
                                THEN [c[n] EXCEPT !.rules = c[n].rules \ {rule}] ELSE c[n]
  BY DEF DeleteRuleIDMatcher
<1>2. new = [n \in Names |-> new[n]]
  BY DEF DeleteRuleIDMatcher
<1> HIDE DEF new
<1>3. ASSUME NEW n \in Names
      PROVE  /\ new[n] \in Receiver \cup {None} /\ (new[n] = None <=> c[n] = None)
             /\ c[n] # None => new[n].data = c[n].data /\ new[n].rules = c[n].rules \ {rule}
  <2>1. CASE c[n] # None
    <3>1. c[n].rules \ {rule} \in SUBSET Rules
      BY <2>1, ReceiverFacts
    <3>2. new[n] = [c[n] EXCEPT !.rules = c[n].rules \ {rule}]
      BY <1>1, <2>1
    <3> QED
      BY <2>1, <3>1, <3>2, RulesFacts
  <2>2. CASE c[n] = None
    BY <1>1, <2>2
  <2> QED
    BY <2>1, <2>2
<1>4. new \in Config
  BY <1>2, <1>3 DEF Config
<1> QED
  BY <1>3, <1>4 DEF new

\* Rebuild: what newServer makes of channels with distinct names matches them,
\* and a rule is routed only to the channels it names.
LEMMA RebuildFacts ==
  ASSUME NEW chs \in SUBSET Channel, NEW prefs \in [Rules -> Choices \cup {None}],
         NamesUnique(chs)
  PROVE  /\ Rebuild(chs, prefs) \in Config
         /\ \A n \in Names : Rebuild(chs, prefs)[n] = None => \A ch \in chs : ch.name # n
         /\ \A n \in Names : Rebuild(chs, prefs)[n] # None =>
              \E ch \in chs : ch.name = n /\ ch.data = Rebuild(chs, prefs)[n].data
         /\ \A n \in Names, rule \in Rules :
              Routes(Rebuild(chs, prefs), n, rule) => prefs[rule] # None /\ n \in prefs[rule]
<1> DEFINE new == Rebuild(chs, prefs)
           wish(n) == {rule \in Rules : prefs[rule] # None /\ n \in prefs[rule]}
           first(n) == CHOOSE ch \in chs : ch.name = n
<1>1. \A n \in Names : new[n] = IF n \notin NamesOf(chs) THEN None
                                ELSE [data |-> first(n).data, rules |-> wish(n)]
  BY DEF Rebuild
<1>2. new = [n \in Names |-> new[n]]
  BY DEF Rebuild
<1>3. \A n \in NamesOf(chs) : first(n) \in chs /\ first(n).name = n
  BY DEF NamesOf
<1>4. \A n \in Names : wish(n) \in SUBSET Rules
      /\ \A rule \in wish(n) : prefs[rule] # None /\ n \in prefs[rule]
  OBVIOUS
<1> HIDE DEF new, first, wish
<1>5. \A n \in NamesOf(chs) : first(n).data \in Requests \cup {None}
  BY <1>3 DEF Channel
<1>6. ASSUME NEW n \in Names
      PROVE  /\ n \notin NamesOf(chs) => new[n] = None
             /\ n \in NamesOf(chs) =>
                  /\ new[n] \in Receiver /\ new[n] # None
                  /\ new[n].data = first(n).data /\ new[n].rules = wish(n)
  <2>1. CASE n \in NamesOf(chs)
    <3>1. new[n] = [data |-> first(n).data, rules |-> wish(n)]
      BY <1>1, <2>1
    <3>2. first(n).data \in Requests \cup {None} /\ wish(n) \in SUBSET Rules
      BY <1>4, <1>5, <2>1
    <3>3. [data |-> first(n).data, rules |-> wish(n)] \in Receiver
          /\ [data |-> first(n).data, rules |-> wish(n)] # None
      BY <3>2, NoneAssumption DEF Receiver
    <3> QED
      BY <2>1, <3>1, <3>3
  <2>2. CASE n \notin NamesOf(chs)
    BY <1>1, <2>2
  <2> QED
    BY <2>1, <2>2
<1>7. new \in Config
  BY <1>2, <1>6 DEF Config
<1>8. \A n \in Names : new[n] = None => \A ch \in chs : ch.name # n
  BY <1>6 DEF NamesOf
<1>9. \A n \in Names : new[n] # None => first(n) \in chs /\ first(n).name = n /\ new[n].data = first(n).data
  BY <1>3, <1>6
<1>10. \A n \in Names, rule \in Rules : Routes(new, n, rule) => prefs[rule] # None /\ n \in prefs[rule]
  BY <1>4, <1>6 DEF Routes
<1> QED
  BY <1>7, <1>8, <1>9, <1>10 DEF new

-----------------------------------------------------------------------------
(* Types. *)

RequestType(r) ==
  /\ req[r] \in Request
  /\ req[r].copy # None <=> HasCopy(r)
  /\ Fits(r)

\* What a step of one request leaves alone, unless it commits
OnlyRequest(r) ==
  /\ UNCHANGED <<channels, rules, stored, server, sync, restarts, damaged>>
  /\ req' = [req EXCEPT ![r] = req'[r]]

\* A request that takes a step of its own does not touch the others.
LEMMA OnlyRequestType ==
  ASSUME TypeInv, NEW r \in Requests, OnlyRequest(r), RequestType(r)'
  PROVE  TypeInv'
<1>1. req' \in [Requests -> Request] /\ \A q \in Requests \ {r} : req'[q] = req[q]
  BY DEF TypeInv, TypeOK, OnlyRequest, RequestType
<1>2. \A q \in Requests : req'[q].copy # None <=> req'[q].pc \in {"write", "set", "commit"}
  BY <1>1 DEF TypeInv, TypeOK, RequestType, HasCopy
<1>3. \A q \in Requests : Fits(q)'
  BY <1>1 DEF TypeInv, Fits, RequestType, Busy
<1> QED
  BY <1>1, <1>2, <1>3 DEF TypeInv, TypeOK, OnlyRequest

\* A record with fields of the right types is a request.
LEMMA RequestFields ==
  ASSUME NEW p \in {"idle", "config", "write", "row", "get", "set", "commit", "done"},
         NEW kind \in Kinds \cup {None}, NEW id \in Names \cup Requests \cup {None},
         NEW name \in Names \cup {None}, NEW rule \in Rules \cup {None},
         NEW prefer \in Choices \cup {{}}, NEW copy \in Config \cup {None},
         NEW missed \in SUBSET (Names \cup Rules)
  PROVE  [pc |-> p, kind |-> kind, id |-> id, name |-> name, rule |-> rule,
          prefer |-> prefer, copy |-> copy, missed |-> missed] \in Request
BY DEF Request

\* A request that arrives is a request for something, without a copy yet.
LEMMA ArriveType ==
  ASSUME TypeInv, NEW r \in Requests, Arrive(r)
  PROVE  OnlyRequest(r) /\ RequestType(r)'
<1>0. req \in [Requests -> Request]
  BY DEF TypeInv, TypeOK
<1>1. ASSUME NEW n \in Names, ArriveCreateChannel(r, n)
      PROVE  OnlyRequest(r) /\ RequestType(r)'
  <2>1. req'[r] = [NoRequest EXCEPT !.pc = "config", !.kind = "createChannel", !.id = r, !.name = n]
        /\ req' = [req EXCEPT ![r] = req'[r]]
    BY <1>0, <1>1 DEF ArriveCreateChannel
  <2>2. req'[r] = [pc |-> "config", kind |-> "createChannel", id |-> r, name |-> n,
                   rule |-> None, prefer |-> {}, copy |-> None, missed |-> {}]
    BY <2>1 DEF NoRequest
  <2>3. req'[r] \in Request
    BY <1>1, <2>2, RequestFields DEF ArriveCreateChannel
  <2>4. OnlyRequest(r)
    BY <1>1, <2>1 DEF OnlyRequest, ArriveCreateChannel
  <2>5. /\ req'[r].pc = "config" /\ req'[r].kind = "createChannel" /\ req'[r].name = n
        /\ req'[r].id = r /\ req'[r].copy = None /\ req'[r].rule = None
    BY <2>2
  <2> QED
    BY <2>3, <2>4, <2>5 DEF RequestType, HasCopy, Fits, ChannelKinds
<1>2. ASSUME NEW kind \in {"updateChannel", "deleteChannel"}, NEW ch \in channels,
             ArriveChannel(r, kind, ch)
      PROVE  OnlyRequest(r) /\ RequestType(r)'
  <2>1. req'[r] = [NoRequest EXCEPT !.pc = "config", !.kind = kind, !.id = ch.id, !.name = ch.name]
        /\ req' = [req EXCEPT ![r] = req'[r]]
    BY <1>0, <1>2 DEF ArriveChannel
  <2>2. req'[r] = [pc |-> "config", kind |-> kind, id |-> ch.id, name |-> ch.name,
                   rule |-> None, prefer |-> {}, copy |-> None, missed |-> {}]
    BY <2>1 DEF NoRequest
  <2>3. ch.id \in Names \cup Requests /\ ch.name \in Names
    BY DEF TypeInv, TypeOK, Channel
  <2>4. kind \in Kinds /\ {} \in SUBSET (Names \cup Rules)
    BY <1>2 DEF ArriveChannel
  <2>5. req'[r] \in Request
    BY <2>2, <2>3, <2>4, RequestFields
  <2>6. OnlyRequest(r)
    BY <1>2, <2>1 DEF OnlyRequest, ArriveChannel
  <2>7. /\ req'[r].pc = "config" /\ req'[r].kind = kind /\ req'[r].name = ch.name
        /\ req'[r].copy = None /\ req'[r].rule = None
    BY <2>2
  <2> QED
    BY <2>3, <2>5, <2>6, <2>7 DEF RequestType, HasCopy, Fits, ChannelKinds
<1>3. ASSUME NEW kind \in RuleKinds, NEW rule \in Rules, NEW prefer \in Choices \cup {{}},
             ArriveRule(r, kind, rule, prefer)
      PROVE  OnlyRequest(r) /\ RequestType(r)'
  <2>1. req'[r] = [NoRequest EXCEPT !.pc = "row", !.kind = kind, !.rule = rule, !.prefer = prefer]
        /\ req' = [req EXCEPT ![r] = req'[r]]
    BY <1>0, <1>3 DEF ArriveRule
  <2>2. req'[r] = [pc |-> "row", kind |-> kind, id |-> None, name |-> None,
                   rule |-> rule, prefer |-> prefer, copy |-> None, missed |-> {}]
    BY <2>1 DEF NoRequest
  <2>3. req'[r] \in Request
    BY <1>3, <2>2, RequestFields DEF ArriveRule
  <2>4. kind \in {"createRule", "editRule"} => prefer \in Choices
    BY <1>3 DEF ArriveRule
  <2>5. OnlyRequest(r)
    BY <1>3, <2>1 DEF OnlyRequest, ArriveRule
  <2>6. /\ req'[r].pc = "row" /\ req'[r].kind = kind /\ req'[r].rule = rule
        /\ req'[r].prefer = prefer /\ req'[r].copy = None
    BY <2>2
  <2> QED
    BY <2>3, <2>4, <2>5, <2>6 DEF RequestType, HasCopy, Fits, RuleKinds
<1> QED
  BY <1>1, <1>2, <1>3 DEF Arrive

\* What a request is about, which it never changes
SameRequest(r) ==
  /\ req'[r].kind = req[r].kind /\ req'[r].id = req[r].id /\ req'[r].name = req[r].name
  /\ req'[r].rule = req[r].rule /\ req'[r].prefer = req[r].prefer

\* All requests after one of them moved on and got another copy
Steps == {"idle", "config", "write", "row", "get", "set", "commit", "done"}

Moved(before, r, p, c, m) == [before EXCEPT ![r].pc = p, ![r].copy = c, ![r].missed = m]

\* A step that moves a request on changes these fields of it and no others.
LEMMA MoveFields ==
  ASSUME TypeInv, NEW r \in Requests,
         NEW p \in Steps,
         NEW c \in Config \cup {None}, NEW m \in SUBSET (Names \cup Rules),
         NEW before \in [Requests -> Request],
         before[r].kind = req[r].kind, before[r].id = req[r].id, before[r].name = req[r].name,
         before[r].rule = req[r].rule, before[r].prefer = req[r].prefer,
         req' = Moved(before, r, p, c, m)
  PROVE  /\ req' = [before EXCEPT ![r] = req'[r]]
         /\ req'[r] \in Request /\ SameRequest(r)
         /\ req'[r].pc = p /\ req'[r].copy = c /\ req'[r].missed = m
<1>1. req' = [before EXCEPT ![r] = [before[r] EXCEPT !.pc = p, !.copy = c, !.missed = m]]
  BY DEF Moved
<1>2. req'[r] = [before[r] EXCEPT !.pc = p, !.copy = c, !.missed = m]
      /\ req' = [before EXCEPT ![r] = req'[r]]
  BY <1>1
<1>3. before[r] \in Request
  OBVIOUS
<1>4. req'[r] \in Request
  BY <1>2, <1>3 DEF Request, Steps
<1>5. /\ req'[r].pc = p /\ req'[r].copy = c /\ req'[r].missed = m
      /\ req'[r].kind = before[r].kind /\ req'[r].id = before[r].id /\ req'[r].name = before[r].name
      /\ req'[r].rule = before[r].rule /\ req'[r].prefer = before[r].prefer
  BY <1>2, <1>3 DEF Request
<1> QED
  BY <1>2, <1>4, <1>5 DEF SameRequest

\* The steps of a request before its commit, by what they do to the request
ReadConflict(r) ==
  /\ req[r].pc = "config" /\ req[r].kind = "createChannel" /\ stored[req[r].name] # None
  /\ req'[r].pc = "done" /\ req'[r].copy = None

ReadCopy(r) ==
  /\ req[r].pc = "config" /\ req'[r].pc = "write"
  /\ req[r].kind = "createChannel" => stored[req[r].name] = None
  /\ req'[r].copy = Changed(r, stored)
  /\ req'[r].missed = IF req[r].kind = "createChannel" THEN {}
                      ELSE req[r].missed \cap {req[r].name}

\* What GetConfig makes of the configuration for a request's rule
Matched(r, c) ==
  LET rule  == req[r].rule
      names == IF req[r].prefer = {} THEN NamesOf(channels) ELSE req[r].prefer
  IN  CASE req[r].kind = "createRule" -> CreateRuleIDMatcher(c, rule, names)
        [] req[r].kind = "editRule" -> UpdateRuleIDMatcher(c, rule, names)
        [] OTHER -> DeleteRuleIDMatcher(c, rule)

GetCopy(r) ==
  /\ req[r].pc = "get" /\ req'[r].pc = "set"
  /\ req'[r].copy = Matched(r, stored)
  /\ req'[r].missed = req[r].missed \cap {req[r].rule}

GoOn(r) ==
  /\ \/ req[r].pc = "write" /\ req'[r].pc = "commit" /\ ConfigFree
     \/ req[r].pc = "row" /\ req'[r].pc = "get" /\ RuleFree(req[r].rule)
     \/ req[r].pc = "set" /\ req'[r].pc = "commit" /\ ConfigFree
  /\ req'[r].copy = req[r].copy /\ req'[r].missed = req[r].missed

GiveUp(r) == Busy(r) /\ req'[r].pc = "done" /\ req'[r].copy = None /\ req'[r].missed = {}

\* The copy that a request reads and changes is a configuration.
LEMMA CopyType ==
  ASSUME TypeInv, NEW r \in Requests
  PROVE  /\ req[r].pc = "config" => Changed(r, stored) \in Config
         /\ req[r].pc = "get" => Matched(r, stored) \in Config
<1>1. stored \in Config /\ Fits(r)
  BY DEF TypeInv, TypeOK
<1>2. ASSUME req[r].pc = "config" PROVE Changed(r, stored) \in Config
  BY <1>1, <1>2, CreateFacts, UpdateFacts, DeleteFacts DEF Changed, Fits, ChannelKinds
<1>3. ASSUME req[r].pc = "get" PROVE Matched(r, stored) \in Config
  BY <1>1, <1>3, CreateMatcherFacts, DeleteMatcherFacts DEF Matched, UpdateRuleIDMatcher, Fits
<1> QED
  BY <1>2, <1>3

\* Each step of a request before its commit is one of those.
LEMMA ProceedEffect ==
  ASSUME TypeInv, NEW r \in Requests,
         \/ ReadConfig(r) \/ WriteChannel(r) \/ WriteRule(r)
         \/ GetConfig(r) \/ SetConfig(r) \/ Fail(r)
  PROVE  /\ OnlyRequest(r) /\ SameRequest(r) /\ req'[r] \in Request
         /\ ReadConflict(r) \/ ReadCopy(r) \/ GetCopy(r) \/ GoOn(r) \/ GiveUp(r)
<1>0. /\ req \in [Requests -> Request] /\ req[r] \in Request
      /\ req[r].missed \in SUBSET (Names \cup Rules) /\ req[r].copy \in Config \cup {None}
      /\ \A x : req[r].missed \cap {x} \in SUBSET (Names \cup Rules)
      /\ {} \in SUBSET (Names \cup Rules)
  BY DEF TypeInv, TypeOK, Request
<1>1. CASE ReadConfig(r)
  <2> DEFINE conflict == req[r].kind = "createChannel" /\ stored[req[r].name] # None
             p == IF conflict THEN "done" ELSE "write"
             c == IF conflict THEN None ELSE Changed(r, stored)
             m == IF req[r].kind = "createChannel" THEN {} ELSE req[r].missed \cap {req[r].name}
  <2>1. req' = Moved(req, r, p, c, m)
    BY <1>1 DEF ReadConfig, Moved
  <2>2. req[r].pc = "config"
        /\ UNCHANGED <<channels, rules, stored, server, sync, restarts, damaged>>
    BY <1>1 DEF ReadConfig
  <2>3. c \in Config \cup {None} /\ m \in SUBSET (Names \cup Rules) /\ p \in Steps
    BY <1>0, <2>2, CopyType DEF Steps
  <2> HIDE DEF p, c, m
  <2>4. /\ req' = [req EXCEPT ![r] = req'[r]] /\ req'[r] \in Request /\ SameRequest(r)
        /\ req'[r].pc = p /\ req'[r].copy = c /\ req'[r].missed = m
    BY <1>0, <2>1, <2>3, MoveFields
  <2> QED
    BY <2>2, <2>4 DEF OnlyRequest, ReadConflict, ReadCopy, p, c, m
<1>2. CASE GetConfig(r)
  <2> DEFINE m == req[r].missed \cap {req[r].rule}
  <2>1. req' = Moved(req, r, "set", Matched(r, stored), m)
    BY <1>2 DEF GetConfig, Matched, Moved
  <2>2. req[r].pc = "get"
        /\ UNCHANGED <<channels, rules, stored, server, sync, restarts, damaged>>
    BY <1>2 DEF GetConfig
  <2>3. Matched(r, stored) \in Config \cup {None} /\ m \in SUBSET (Names \cup Rules)
        /\ "set" \in Steps
    BY <1>0, <2>2, CopyType DEF Steps
  <2> HIDE DEF m
  <2>4. /\ req' = [req EXCEPT ![r] = req'[r]] /\ req'[r] \in Request /\ SameRequest(r)
        /\ req'[r].pc = "set" /\ req'[r].copy = Matched(r, stored) /\ req'[r].missed = m
    BY <1>0, <2>1, <2>3, MoveFields
  <2> QED
    BY <2>2, <2>4 DEF OnlyRequest, GetCopy, m
<1>3. CASE WriteChannel(r) \/ WriteRule(r) \/ SetConfig(r)
  <2>1. PICK p \in {"get", "commit"} :
           /\ req' = [req EXCEPT ![r].pc = p]
           /\ \/ req[r].pc = "write" /\ p = "commit" /\ ConfigFree
              \/ req[r].pc = "row" /\ p = "get" /\ RuleFree(req[r].rule)
              \/ req[r].pc = "set" /\ p = "commit" /\ ConfigFree
    BY <1>3 DEF WriteChannel, WriteRule, SetConfig
  <2>2. UNCHANGED <<channels, rules, stored, server, sync, restarts, damaged>>
    BY <1>3 DEF WriteChannel, WriteRule, SetConfig
  <2> DEFINE c == req[r].copy
             m == req[r].missed
  <2>3. req' = Moved(req, r, p, c, m)
    <3>2. [req[r] EXCEPT !.pc = p]
            = [req[r] EXCEPT !.pc = p, !.copy = req[r].copy, !.missed = req[r].missed]
      BY <1>0 DEF Request
    <3> QED
      BY <1>0, <2>1, <3>2 DEF Moved
  <2>4. /\ req' = [req EXCEPT ![r] = req'[r]] /\ req'[r] \in Request /\ SameRequest(r)
        /\ req'[r].pc = p /\ req'[r].copy = req[r].copy /\ req'[r].missed = req[r].missed
    <3>1. p \in Steps /\ c \in Config \cup {None} /\ m \in SUBSET (Names \cup Rules)
      BY <1>0 DEF Steps
    <3> HIDE DEF c, m
    <3>2. /\ req' = [req EXCEPT ![r] = req'[r]] /\ req'[r] \in Request /\ SameRequest(r)
          /\ req'[r].pc = p /\ req'[r].copy = c /\ req'[r].missed = m
      BY <1>0, <2>3, <3>1, MoveFields
    <3> QED
      BY <3>2 DEF c, m
  <2> QED
    BY <2>1, <2>2, <2>4 DEF OnlyRequest, GoOn
<1>4. CASE Fail(r)
  <2>1. /\ req' = [req EXCEPT ![r] = req'[r]] /\ req'[r] \in Request /\ SameRequest(r)
        /\ req'[r].pc = "done" /\ req'[r].copy = None /\ req'[r].missed = {}
    <3>1. req' = Moved(req, r, "done", None, {})
      BY <1>4 DEF Fail, Moved
    <3>2. "done" \in Steps
          /\ None \in Config \cup {None}
      BY DEF Steps
    <3> QED
      BY <1>0, <3>1, <3>2, MoveFields
  <2> QED
    BY <1>4, <2>1 DEF Fail, OnlyRequest, GiveUp
<1> QED
  BY <1>1, <1>2, <1>3, <1>4

\* They leave the request with a copy exactly when it should have one.
LEMMA ProceedType ==
  ASSUME TypeInv, NEW r \in Requests,
         \/ ReadConfig(r) \/ WriteChannel(r) \/ WriteRule(r)
         \/ GetConfig(r) \/ SetConfig(r) \/ Fail(r)
  PROVE  OnlyRequest(r) /\ RequestType(r)'
<1>1. /\ OnlyRequest(r) /\ SameRequest(r) /\ req'[r] \in Request
      /\ ReadConflict(r) \/ ReadCopy(r) \/ GetCopy(r) \/ GoOn(r) \/ GiveUp(r)
  BY ProceedEffect
<1>2. Fits(r) /\ (req[r].copy # None <=> HasCopy(r)) /\ stored \in Config
  BY DEF TypeInv, TypeOK, HasCopy
<1>3. None \notin Config
  BY NoneAssumption
<1>4. CASE ReadConflict(r) \/ GiveUp(r)
  BY <1>1, <1>4 DEF ReadConflict, GiveUp, RequestType, HasCopy, Fits, Busy
<1>5. CASE ReadCopy(r)
  <2>1. req'[r].copy # None
    BY <1>3, <1>5, CopyType DEF ReadCopy
  <2> QED
    BY <1>1, <1>2, <1>5, <2>1 DEF ReadCopy, RequestType, HasCopy, Fits, Busy, SameRequest
<1>6. CASE GetCopy(r)
  <2>1. req'[r].copy # None
    BY <1>3, <1>6, CopyType DEF GetCopy
  <2> QED
    BY <1>1, <1>2, <1>6, <2>1 DEF GetCopy, RequestType, HasCopy, Fits, Busy, SameRequest
<1>7. CASE GoOn(r)
  BY <1>1, <1>2, <1>7 DEF GoOn, RequestType, HasCopy, Fits, Busy, SameRequest
<1> QED
  BY <1>1, <1>4, <1>5, <1>6, <1>7

\* Missing only adds to what requests have missed.
LEMMA MissingFacts ==
  ASSUME TypeInv, NEW done, NEW changed \in SUBSET (Names \cup Rules)
  PROVE  LET after == Missing(done, changed)
         IN  /\ after \in [Requests -> Request]
             /\ \A q \in Requests :
                  /\ after[q].kind = req[q].kind /\ after[q].id = req[q].id
                  /\ after[q].name = req[q].name /\ after[q].rule = req[q].rule
                  /\ after[q].prefer = req[q].prefer /\ after[q].pc = req[q].pc
                  /\ after[q].copy = req[q].copy
                  /\ after[q].missed =
                       IF q # done /\ req[q].pc \in {"config", "write", "row", "get", "set"}
                       THEN req[q].missed \cup changed ELSE req[q].missed
<1> DEFINE after == Missing(done, changed)
<1>1. after = [q \in Requests |-> after[q]]
  BY DEF Missing
<1>2. \A q \in Requests : after[q] =
        IF q # done /\ req[q].pc \in {"config", "write", "row", "get", "set"}
        THEN [req[q] EXCEPT !.missed = req[q].missed \cup changed] ELSE req[q]
  BY DEF Missing
<1> HIDE DEF after
<1>3. ASSUME NEW q \in Requests
      PROVE  /\ after[q] \in Request
             /\ after[q].kind = req[q].kind /\ after[q].id = req[q].id
             /\ after[q].name = req[q].name /\ after[q].rule = req[q].rule
             /\ after[q].prefer = req[q].prefer /\ after[q].pc = req[q].pc
             /\ after[q].copy = req[q].copy
             /\ after[q].missed =
                  IF q # done /\ req[q].pc \in {"config", "write", "row", "get", "set"}
                  THEN req[q].missed \cup changed ELSE req[q].missed
  <2>1. req[q] \in Request
    BY DEF TypeInv, TypeOK
  <2>2. req[q].missed \cup changed \in SUBSET (Names \cup Rules)
    BY <2>1 DEF Request
  <2>3. CASE q # done /\ req[q].pc \in {"config", "write", "row", "get", "set"}
    <3>1. after[q] = [req[q] EXCEPT !.missed = req[q].missed \cup changed]
      BY <1>2, <2>3
    <3> QED
      BY <2>1, <2>2, <2>3, <3>1 DEF Request
  <2>4. CASE ~(q # done /\ req[q].pc \in {"config", "write", "row", "get", "set"})
    BY <1>2, <2>1, <2>4
  <2> QED
    BY <2>3, <2>4
<1>4. after \in [Requests -> Request]
  BY <1>1, <1>3
<1> QED
  BY <1>3, <1>4 DEF after

\* What a commit and the rebuild do to the requests that go on
Goes(q, changed) ==
  /\ SameRequest(q)
  /\ req'[q].pc = req[q].pc /\ req'[q].copy = req[q].copy
  /\ req'[q].missed = IF req[q].pc \in {"config", "write", "row", "get", "set"}
                      THEN req[q].missed \cup changed ELSE req[q].missed

\* A commit ends its request, and the others have missed what it was about.
LEMMA CommitEffect ==
  ASSUME TypeInv, NEW r \in Requests, Commit(r)
  PROVE  /\ req' \in [Requests -> Request]
         /\ req[r].pc = "commit" /\ req[r].copy \in Config
         /\ Subject(r) \in Names \cup Rules
         /\ SameRequest(r) /\ req'[r].pc = "done" /\ req'[r].copy = None
         /\ \A q \in Requests \ {r} : Goes(q, {Subject(r)})
<1>1. req[r].pc = "commit" /\ Fits(r) /\ req[r] \in Request /\ req[r].copy # None
      /\ req \in [Requests -> Request]
  BY DEF Commit, TypeInv, TypeOK
<1>2. Subject(r) \in Names \cup Rules
  BY <1>1 DEF Subject, Fits, ChannelKinds, RuleKinds
<1>3. req[r].copy \in Config
  BY <1>1 DEF Request
<1> DEFINE changed == {Subject(r)}
           before  == Missing(r, changed)
<1>4. req' = Moved(before, r, "done", None, {})
  BY DEF Commit, Moved
<1>5. changed \in SUBSET (Names \cup Rules)
  BY <1>2
<1> HIDE DEF changed
<1>6. /\ before \in [Requests -> Request]
      /\ \A q \in Requests :
           /\ before[q].kind = req[q].kind /\ before[q].id = req[q].id
           /\ before[q].name = req[q].name /\ before[q].rule = req[q].rule
           /\ before[q].prefer = req[q].prefer /\ before[q].pc = req[q].pc
           /\ before[q].copy = req[q].copy
           /\ before[q].missed =
                IF q # r /\ req[q].pc \in {"config", "write", "row", "get", "set"}
                THEN req[q].missed \cup changed ELSE req[q].missed
  BY <1>5, MissingFacts
<1> HIDE DEF before
<1>7. /\ req' = [before EXCEPT ![r] = req'[r]] /\ req'[r] \in Request /\ SameRequest(r)
      /\ req'[r].pc = "done" /\ req'[r].copy = None
  <2>1. "done" \in Steps /\ None \in Config \cup {None} /\ {} \in SUBSET (Names \cup Rules)
    BY DEF Steps
  <2>2. /\ before \in [Requests -> Request]
        /\ before[r].kind = req[r].kind /\ before[r].id = req[r].id
        /\ before[r].name = req[r].name /\ before[r].rule = req[r].rule
        /\ before[r].prefer = req[r].prefer
    BY <1>6
  <2> QED
    BY <1>4, <2>1, <2>2, MoveFields
<1>8. req' \in [Requests -> Request] /\ \A q \in Requests \ {r} : req'[q] = before[q]
  BY <1>6, <1>7
<1>9. \A q \in Requests \ {r} : Goes(q, {Subject(r)})
  BY <1>6, <1>8 DEF Goes, SameRequest, changed
<1> QED
  BY <1>1, <1>2, <1>3, <1>7, <1>8, <1>9

\* What a commit does to the rows, kind by kind
LEMMA RowsAfter ==
  ASSUME TypeInv, NEW r \in Requests, Commit(r)
  PROVE  /\ req[r].kind = "createChannel" =>
              channels' = channels \cup {[id |-> r, name |-> req[r].name, data |-> r]}
         /\ req[r].kind = "updateChannel" =>
              channels' = {IF ch.id = req[r].id THEN [ch EXCEPT !.data = r] ELSE ch : ch \in channels}
         /\ req[r].kind = "deleteChannel" =>
              channels' = {ch \in channels : ch.id # req[r].id}
         /\ req[r].kind \in RuleKinds => channels' = channels
         /\ req[r].kind \in ChannelKinds => rules' = rules
         /\ req[r].kind \in RuleKinds =>
              /\ req[r].rule \in Rules
              /\ \A rule \in Rules \ {req[r].rule} : rules'[rule] = rules[rule]
              /\ rules'[req[r].rule] =
                   IF \/ req[r].kind = "deleteRule"
                      \/ req[r].kind = "editRule" /\ rules[req[r].rule] = None
                   THEN None ELSE req[r].prefer
         /\ rules' \in [Rules -> Choices \cup {None}]
<1>1. rules \in [Rules -> Choices \cup {None}] /\ req[r].pc = "commit" /\ Fits(r) /\ CommitRow(r)
  BY DEF TypeInv, TypeOK, Commit
<1>2. CASE req[r].kind \in ChannelKinds /\ req[r].kind \notin RuleKinds
  BY <1>1, <1>2 DEF CommitRow, ChannelKinds
<1>3. CASE req[r].kind \in RuleKinds /\ req[r].kind \notin ChannelKinds
  <2> DEFINE rule == req[r].rule
             new  == IF \/ req[r].kind = "deleteRule"
                        \/ req[r].kind = "editRule" /\ rules[rule] = None
                     THEN None ELSE req[r].prefer
  <2>1. rule \in Rules /\ channels' = channels
    BY <1>1, <1>3 DEF Fits, CommitRow, RuleKinds
  <2>2. rules' = [rules EXCEPT ![rule] = new]
    BY <1>1, <1>3 DEF CommitRow
  <2>3. new \in Choices \cup {None}
    BY <1>1, <1>3 DEF Fits, Busy, RuleKinds
  <2> HIDE DEF new
  <2>4. rules' \in [Rules -> Choices \cup {None}] /\ rules'[rule] = new
        /\ \A other \in Rules \ {rule} : rules'[other] = rules[other]
    BY <1>1, <2>1, <2>2, <2>3
  <2> QED
    BY <1>3, <2>1, <2>4 DEF new, ChannelKinds
<1> QED
  BY <1>1, <1>2, <1>3 DEF Fits, ChannelKinds, RuleKinds

\* The channels keep their type.
LEMMA ChannelsAfterType ==
  ASSUME TypeInv, NEW r \in Requests, Commit(r)
  PROVE  channels' \subseteq Channel
<1>1. channels \subseteq Channel /\ req[r].pc = "commit" /\ Fits(r)
  BY DEF TypeInv, TypeOK, Commit
<1>2. CASE req[r].kind = "createChannel"
  <2>1. req[r].name \in Names
    BY <1>1, <1>2 DEF Fits, RuleKinds
  <2> QED
    BY <1>1, <1>2, <2>1, RowsAfter DEF Channel
<1>3. CASE req[r].kind = "updateChannel"
  <2>1. \A ch \in channels : [ch EXCEPT !.data = r] \in Channel
    BY <1>1 DEF Channel
  <2> QED
    BY <1>1, <1>3, <2>1, RowsAfter
<1>4. CASE req[r].kind = "deleteChannel" \/ req[r].kind \in RuleKinds
  BY <1>1, <1>4, RowsAfter
<1> QED
  BY <1>1, <1>2, <1>3, <1>4 DEF Fits, ChannelKinds

\* What a commit tells SyncServers
LEMMA SyncAfter ==
  ASSUME TypeInv, NEW r \in Requests, Commit(r)
  PROVE  /\ sync' \in Sync
         /\ sync'.pc = sync.pc /\ sync'.rows = sync.rows /\ sync'.new = sync.new
         /\ sync'.old = sync.old /\ sync'.config = sync.config
         /\ sync'.missed = IF sync.pc \in {"matchers", "set"}
                           THEN sync.missed \cup {Subject(r)} ELSE sync.missed
<1>1. sync \in Sync
  BY DEF TypeInv, TypeOK
<1>2. sync.missed \cup {Subject(r)} \in SUBSET (Names \cup Rules)
  BY <1>1, CommitEffect DEF Sync
<1>3. sync' = IF sync.pc \in {"matchers", "set"}
              THEN [sync EXCEPT !.missed = sync.missed \cup {Subject(r)}] ELSE sync
  BY DEF Commit
<1> QED
  BY <1>1, <1>2, <1>3 DEF Sync

\* A commit keeps every variable in its type.
LEMMA CommitType ==
  ASSUME TypeInv, NEW r \in Requests, Commit(r)
  PROVE  TypeInv'
<1>1. /\ req' \in [Requests -> Request]
      /\ req[r].pc = "commit" /\ req[r].copy \in Config
      /\ SameRequest(r) /\ req'[r].pc = "done" /\ req'[r].copy = None
      /\ \A q \in Requests \ {r} : Goes(q, {Subject(r)})
  BY CommitEffect
<1>2. \A q \in Requests : Fits(q)'
  <2> SUFFICES ASSUME NEW q \in Requests PROVE Fits(q)'
    OBVIOUS
  <2>1. CASE q = r
    BY <1>1, <2>1 DEF Fits, Busy
  <2>2. CASE q # r
    BY <1>1, <2>2 DEF Fits, Busy, Goes, SameRequest, TypeInv
  <2> QED
    BY <2>1, <2>2
<1>3. \A q \in Requests : req'[q].copy # None <=> req'[q].pc \in {"write", "set", "commit"}
  <2> SUFFICES ASSUME NEW q \in Requests
               PROVE  req'[q].copy # None <=> req'[q].pc \in {"write", "set", "commit"}
    OBVIOUS
  <2>1. CASE q = r
    BY <1>1, <2>1
  <2>2. CASE q # r
    BY <1>1, <2>2 DEF Goes, TypeInv, TypeOK
  <2> QED
    BY <2>1, <2>2
<1>4. stored' \in Config
  BY <1>1 DEF Commit
<1>5. damaged' \subseteq Names \cup Rules
  <2>1. req[r].missed \subseteq Names \cup Rules /\ damaged \subseteq Names \cup Rules
    BY DEF TypeInv, TypeOK, Request
  <2> QED
    BY <2>1 DEF Commit
<1>6. UNCHANGED <<server, restarts>>
  BY DEF Commit
<1> QED
  BY <1>1, <1>2, <1>3, <1>4, <1>5, <1>6, RowsAfter, ChannelsAfterType, SyncAfter
     DEF TypeInv, TypeOK

\* The steps of SyncServers that store nothing
SyncReads == SyncServers \/ NewServer \/ ListChannels \/ GetMatchers \/ SyncFails

\* When SyncServers is done, it has kept nothing.
LEMMA NoSyncType == NoSync \in Sync /\ NoSync.pc = "idle"
<1>1. {} \in SUBSET Channel /\ {} \in SUBSET (Names \cup Rules)
  OBVIOUS
<1> QED
  BY <1>1 DEF NoSync, Sync

\* Those steps keep the types, and change nothing that is stored.
LEMMA SyncReadsType ==
  ASSUME TypeInv, SyncReads
  PROVE  TypeInv' /\ UNCHANGED <<channels, rules, stored, req, restarts, damaged>>
<1>1. /\ sync \in Sync /\ stored \in Config /\ channels \subseteq Channel
      /\ rules \in [Rules -> Choices \cup {None}]
      /\ server \in [up : BOOLEAN, config : Config \cup {None}]
      /\ sync.pc # "idle" => ~server.up
  BY DEF TypeInv, TypeOK
<1>2. UNCHANGED <<channels, rules, stored, req, restarts, damaged>>
  BY DEF SyncReads, SyncServers, NewServer, ListChannels, GetMatchers, SyncFails
<1> DEFINE Good == /\ sync' \in Sync /\ (sync'.pc = "set" => sync'.new # None)
                   /\ server' \in [up : BOOLEAN, config : Config \cup {None}]
                   /\ sync'.pc # "idle" => ~server'.up
<1>3. ASSUME SyncServers PROVE Good
  <2>1. CASE server.up
    <3>1. sync' = sync /\ server' = [server EXCEPT !.config = Running(stored)]
          /\ sync.pc = "idle"
      BY <1>3, <2>1 DEF SyncServers
    <3>2. Running(stored) \in Config \cup {None}
      BY <1>1 DEF Running
    <3>3. server' \in [up : BOOLEAN, config : Config \cup {None}]
      BY <1>1, <3>1, <3>2
    <3>4. sync' \in Sync /\ (sync'.pc = "set" => sync'.new # None)
      BY <1>1, <3>1
    <3> QED
      BY <3>1, <3>3, <3>4
  <2>2. CASE ~server.up
    <3>1. sync' = [sync EXCEPT !.pc = "new", !.config = stored] /\ server' = server
      BY <1>3, <2>2 DEF SyncServers
    <3>2. sync' \in Sync /\ sync'.pc = "new"
      BY <1>1, <3>1 DEF Sync
    <3> QED
      BY <1>1, <2>2, <3>1, <3>2
  <2> QED
    BY <2>1, <2>2
<1>4. ASSUME NewServer PROVE Good
  BY <1>1, <1>4 DEF NewServer, Sync
<1>5. ASSUME ListChannels PROVE Good
  BY <1>1, <1>5 DEF ListChannels, Sync
<1>6. ASSUME GetMatchers PROVE Good
  <2>1. server' = server /\ ~server.up
    BY <1>1, <1>6 DEF GetMatchers
  <2>2. CASE NamesUnique(sync.rows)
    <3> DEFINE new == Rebuild(sync.rows, rules)
    <3>1. sync' = [sync EXCEPT !.pc = "set", !.rows = {}, !.new = new]
      BY <1>6, <2>2 DEF GetMatchers
    <3>2. new \in Config
      BY <1>1, <2>2, RebuildFacts DEF Sync
    <3>3. new # None
      BY <3>2, NoneAssumption
    <3> HIDE DEF new
    <3>4. {} \in SUBSET Channel
      OBVIOUS
    <3>5. sync' \in Sync /\ sync'.new = new
      BY <1>1, <3>1, <3>2, <3>4 DEF Sync
    <3> QED
      BY <1>1, <2>1, <3>3, <3>5
  <2>3. CASE ~NamesUnique(sync.rows)
    BY <1>1, <1>6, <2>1, <2>3, NoSyncType DEF GetMatchers
  <2> QED
    BY <2>2, <2>3
<1>7. ASSUME SyncFails PROVE Good
  BY <1>1, <1>7, NoSyncType DEF SyncFails
<1>8. Good
  BY <1>3, <1>4, <1>5, <1>6, <1>7 DEF SyncReads
<1>9. \A q \in Requests : Fits(q)'
  BY <1>2 DEF TypeInv, Fits, Busy
<1> QED
  BY <1>2, <1>8, <1>9 DEF TypeInv, TypeOK

\* What storing the rebuilt configuration does
LEMMA StoreEffect ==
  ASSUME TypeInv, StoreRebuilt, ~(sync.new = sync.old)
  PROVE  /\ sync.pc = "set" /\ ConfigFree /\ stored' = sync.new /\ sync.new \in Config
         /\ damaged' = sync.missed /\ damaged' \subseteq Names \cup Rules
         /\ req' \in [Requests -> Request]
         /\ \A q \in Requests : Goes(q, damaged \cup {n \in Names : stored[n] # sync.new[n]})
<1> DEFINE changed == damaged \cup {n \in Names : stored[n] # sync.new[n]}
<1>1. /\ sync.pc = "set" /\ ConfigFree /\ stored' = sync.new /\ damaged' = sync.missed
      /\ req' = Missing(None, changed)
  BY DEF StoreRebuilt
<1>2. sync \in Sync /\ sync.new # None /\ damaged \subseteq Names \cup Rules
  BY <1>1 DEF TypeInv, TypeOK
<1>3. sync.new \in Config /\ sync.missed \subseteq Names \cup Rules
  BY <1>2 DEF Sync
<1>4. changed \in SUBSET (Names \cup Rules)
  BY <1>2
<1>5. None \notin Requests
  BY ConfigAssumption
<1> HIDE DEF changed
<1>6. req' \in [Requests -> Request] /\ \A q \in Requests : Goes(q, changed)
  BY <1>1, <1>4, <1>5, MissingFacts DEF Goes, SameRequest
<1> QED
  BY <1>1, <1>3, <1>6 DEF changed

\* It keeps the types.
LEMMA StoreRebuiltType ==
  ASSUME TypeInv, StoreRebuilt
  PROVE  TypeInv'
<1>1. /\ UNCHANGED <<channels, rules, restarts>> /\ sync' = NoSync
      /\ server' = [up |-> TRUE, config |-> Running(sync.config)]
  BY DEF StoreRebuilt
<1>2. Running(sync.config) \in Config \cup {None}
  BY DEF Running, TypeInv, TypeOK, Sync
<1>3. sync' \in Sync /\ sync'.pc = "idle" /\ server' \in [up : BOOLEAN, config : Config \cup {None}]
  BY <1>1, <1>2, NoSyncType
<1>4. CASE sync.new = sync.old
  <2>1. UNCHANGED <<stored, req, damaged>>
    BY <1>4 DEF StoreRebuilt
  <2>2. \A q \in Requests : Fits(q)'
    BY <2>1 DEF TypeInv, Fits, Busy
  <2> QED
    BY <1>1, <1>3, <2>1, <2>2 DEF TypeInv, TypeOK
<1>5. CASE ~(sync.new = sync.old)
  <2>1. stored' \in Config /\ damaged' \subseteq Names \cup Rules /\ req' \in [Requests -> Request]
    BY <1>5, StoreEffect
  <2>2. \A q \in Requests : SameRequest(q) /\ req'[q].pc = req[q].pc /\ req'[q].copy = req[q].copy
    BY <1>5, StoreEffect DEF Goes
  <2>3. \A q \in Requests : Fits(q)'
    BY <2>2 DEF TypeInv, Fits, Busy, SameRequest
  <2>4. \A q \in Requests : req'[q].copy # None <=> req'[q].pc \in {"write", "set", "commit"}
    BY <2>2 DEF TypeInv, TypeOK
  <2> QED
    BY <1>1, <1>3, <2>1, <2>3, <2>4 DEF TypeInv, TypeOK
<1> QED
  BY <1>4, <1>5

\* A restart ends every request that is under way.
LEMMA RestartEffect ==
  ASSUME TypeInv, Restart
  PROVE  /\ UNCHANGED <<channels, rules, stored, damaged>> /\ sync' = NoSync
         /\ req' \in [Requests -> Request]
         /\ \A q \in Requests :
              \/ ~Busy(q) /\ req'[q] = req[q]
              \/ Busy(q) /\ req'[q].pc = "done" /\ req'[q].copy = None
                 /\ req'[q].kind = None /\ req'[q].rule = req[q].rule
<1>1. \A q \in Requests : req'[q] =
        IF Busy(q) THEN [NoRequest EXCEPT !.pc = "done", !.rule = req[q].rule] ELSE req[q]
  BY DEF Restart
<1>2. req' = [q \in Requests |-> req'[q]]
  BY DEF Restart
<1>3. ASSUME NEW q \in Requests, Busy(q)
      PROVE  /\ req'[q] \in Request
             /\ req'[q].pc = "done" /\ req'[q].copy = None
             /\ req'[q].kind = None /\ req'[q].rule = req[q].rule
  <2>1. req'[q] = [pc |-> "done", kind |-> None, id |-> None, name |-> None,
                   rule |-> req[q].rule, prefer |-> {}, copy |-> None, missed |-> {}]
    BY <1>1, <1>3 DEF NoRequest
  <2>2. req[q].rule \in Rules \cup {None} /\ {} \in SUBSET (Names \cup Rules)
    BY DEF TypeInv, TypeOK, Request
  <2>3. req'[q] \in Request
    BY <2>1, <2>2, RequestFields
  <2> QED
    BY <2>1, <2>3
<1>4. \A q \in Requests : req'[q] \in Request
  <2>1. \A q \in Requests : req[q] \in Request
    BY DEF TypeInv, TypeOK
  <2> QED
    BY <1>1, <1>3, <2>1
<1>5. UNCHANGED <<channels, rules, stored, damaged>> /\ sync' = NoSync
  BY DEF Restart
<1>6. ASSUME NEW q \in Requests
      PROVE  \/ ~Busy(q) /\ req'[q] = req[q]
             \/ Busy(q) /\ req'[q].pc = "done" /\ req'[q].copy = None
                /\ req'[q].kind = None /\ req'[q].rule = req[q].rule
  BY <1>1, <1>3
<1> QED
  BY <1>2, <1>4, <1>5, <1>6

\* It keeps the types.
LEMMA RestartType ==
  ASSUME TypeInv, Restart
  PROVE  TypeInv'
<1>1. \A q \in Requests : Fits(q)'
  BY RestartEffect DEF TypeInv, Fits, Busy
<1>2. \A q \in Requests : req'[q].copy # None <=> req'[q].pc \in {"write", "set", "commit"}
  BY RestartEffect DEF TypeInv, TypeOK, Busy
<1>3. server' \in [up : BOOLEAN, config : Config \cup {None}]
  BY DEF Restart
<1>4. restarts' \in 0..MaxRestarts
  <2>1. restarts \in 0..MaxRestarts /\ restarts < MaxRestarts /\ restarts' = restarts + 1
    BY DEF Restart, TypeInv, TypeOK
  <2> QED
    BY <2>1, ConfigAssumption
<1> QED
  BY <1>1, <1>2, <1>3, <1>4, RestartEffect, NoSyncType DEF TypeInv, TypeOK

\* Nothing is under way, and the server runs what the rows say.
LEMMA TypeInit == Init => TypeInv
<1> SUFFICES ASSUME Init PROVE TypeInv
  OBVIOUS
<1>1. PICK names \in SUBSET Names :
         channels = {[id |-> n, name |-> n, data |-> None] : n \in names}
  BY DEF Init
<1>2. channels \subseteq Channel
  BY <1>1 DEF Channel
<1>3. rules \in [Rules -> Choices \cup {None}]
  BY DEF Init
<1> DEFINE wish(n) == {rule \in Rules : rules[rule] # None /\ (rules[rule] = {} \/ n \in rules[rule])}
<1>4. stored = [n \in Names |-> IF n \notin NamesOf(channels) THEN None
                                ELSE [data |-> None, rules |-> wish(n)]]
  BY DEF Init
<1>5. \A n \in Names : wish(n) \in SUBSET Rules
  OBVIOUS
<1> HIDE DEF wish
<1>6. stored \in Config
  BY <1>4, <1>5 DEF Config, Receiver
<1>7. server \in [up : BOOLEAN, config : Config \cup {None}] /\ sync \in Sync /\ sync.pc = "idle"
  BY <1>6, NoSyncType DEF Init
<1>8. req = [r \in Requests |-> NoRequest] /\ restarts \in 0..MaxRestarts /\ damaged = {}
  BY ConfigAssumption DEF Init
<1>9. {} \in SUBSET (Names \cup Rules)
  OBVIOUS
<1>10. NoRequest \in Request /\ NoRequest.pc = "idle" /\ NoRequest.copy = None
  BY <1>9, RequestFields DEF NoRequest
<1>11. \A r \in Requests : req[r] \in Request /\ req[r].pc = "idle" /\ req[r].copy = None
  BY <1>8, <1>10
<1>12. \A r \in Requests : Fits(r)
  BY <1>11 DEF Fits, Busy
<1>13. req \in [Requests -> Request]
  BY <1>8, <1>10
<1> QED
  BY <1>2, <1>3, <1>6, <1>7, <1>8, <1>11, <1>12, <1>13 DEF TypeInv, TypeOK

\* Every step keeps the types.
LEMMA TypeStep ==
  ASSUME TypeInv, [Next]_vars
  PROVE  TypeInv'
<1>1. ASSUME NEW r \in Requests, Arrive(r) \/ Proceed(r)
      PROVE  TypeInv'
  <2>1. CASE Arrive(r)
    BY <2>1, ArriveType, OnlyRequestType
  <2>2. CASE \/ ReadConfig(r) \/ WriteChannel(r) \/ WriteRule(r)
             \/ GetConfig(r) \/ SetConfig(r) \/ Fail(r)
    BY <2>2, ProceedType, OnlyRequestType
  <2>3. CASE Commit(r)
    BY <2>3, CommitType
  <2> QED
    BY <1>1, <2>1, <2>2, <2>3 DEF Proceed
<1>2. CASE SyncReads
  BY <1>2, SyncReadsType
<1>3. CASE StoreRebuilt \/ Restart
  BY <1>3, StoreRebuiltType, RestartType
<1>4. CASE UNCHANGED vars
  <2>1. \A q \in Requests : Fits(q)'
    BY <1>4 DEF vars, TypeInv, Fits, Busy
  <2> QED
    BY <1>4, <2>1 DEF vars, TypeInv, TypeOK
<1> QED
  BY <1>1, <1>2, <1>3, <1>4 DEF Next, SyncReads

\* Type correctness; in particular a request has a copy of the configuration
\* only between its read and its end, and a server is created only where there
\* is none.
THEOREM TypeCorrect == Spec => []TypeOK
<1>1. TypeInv => TypeOK
  BY DEF TypeInv
<1> QED
  BY <1>1, TypeInit, TypeStep, PTL DEF Spec

-----------------------------------------------------------------------------
(* The steps of one request before its commit. *)

\* Nothing that is stored changes, nor do the other requests.
LEMMA FrameStep ==
  ASSUME ConfigInv, NEW r \in Requests, OnlyRequest(r)
  PROVE  /\ StoredMatches' /\ RebuiltMatches'
         /\ \A q \in Requests \ {r} :
              req'[q] = req[q] /\ SubjectKept(q)' /\ CopyAgrees(q)' /\ CopyChanged(q)'
<1>1. UNCHANGED <<channels, rules, stored, sync, damaged>>
      /\ \A q \in Requests \ {r} : req'[q] = req[q]
  BY DEF OnlyRequest, ConfigInv, TypeInv, TypeOK
<1>2. StoredMatches' /\ RebuiltMatches'
  BY <1>1 DEF ConfigInv, StoredMatches, RebuiltMatches, Matches, RowsMatch, Wants, Routes
<1>3. ASSUME NEW q \in Requests \ {r}
      PROVE  SubjectKept(q)' /\ CopyAgrees(q)' /\ CopyChanged(q)'
  <2>1. req'[q] = req[q] /\ SubjectKept(q) /\ CopyAgrees(q) /\ CopyChanged(q)
    BY <1>1 DEF ConfigInv, ReqInv
  <2>2. SubjectKept(q)'
    BY <1>1, <2>1 DEF SubjectKept
  <2>3. CopyAgrees(q)'
    BY <1>1, <2>1 DEF CopyAgrees, HasCopy, Wrong, Subject, Routes
  <2>4. CopyChanged(q)'
    BY <1>1, <2>1 DEF CopyChanged, HasCopy, Wrong, Subject, Routes
  <2> QED
    BY <2>2, <2>3, <2>4
<1> QED
  BY <1>1, <1>2, <1>3

\* What a request that arrives asks for
ArriveFields(r) ==
  /\ req[r].pc = "idle" /\ req'[r].missed = {}
  /\ \/ /\ req'[r].kind = "createChannel" /\ req'[r].pc = "config" /\ req'[r].rule = None
     \/ /\ req'[r].kind \in {"updateChannel", "deleteChannel"} /\ req'[r].pc = "config"
        /\ req'[r].rule = None
        /\ \E ch \in channels : req'[r].id = ch.id /\ req'[r].name = ch.name
     \/ /\ req'[r].kind \in RuleKinds /\ req'[r].pc = "row" /\ req'[r].rule \in Rules
        /\ IF req'[r].kind = "createRule"
           THEN /\ rules[req'[r].rule] = None
                /\ \A other \in Requests : req[other].rule # req'[r].rule
           ELSE rules[req'[r].rule] # None

\* Every way to arrive sets the request's fields so.
LEMMA ArriveEffect ==
  ASSUME TypeInv, NEW r \in Requests, Arrive(r)
  PROVE  ArriveFields(r)
<1>0. req \in [Requests -> Request]
  BY DEF TypeInv, TypeOK
<1>1. ASSUME NEW n \in Names, ArriveCreateChannel(r, n)
      PROVE  ArriveFields(r)
  <2>1. req'[r] = [pc |-> "config", kind |-> "createChannel", id |-> r, name |-> n,
                   rule |-> None, prefer |-> {}, copy |-> None, missed |-> {}]
        /\ req[r].pc = "idle"
    BY <1>0, <1>1 DEF ArriveCreateChannel, NoRequest
  <2> QED
    BY <2>1 DEF ArriveFields
<1>2. ASSUME NEW kind \in {"updateChannel", "deleteChannel"}, NEW ch \in channels,
             ArriveChannel(r, kind, ch)
      PROVE  ArriveFields(r)
  <2>1. req'[r] = [pc |-> "config", kind |-> kind, id |-> ch.id, name |-> ch.name,
                   rule |-> None, prefer |-> {}, copy |-> None, missed |-> {}]
        /\ req[r].pc = "idle"
    BY <1>0, <1>2 DEF ArriveChannel, NoRequest
  <2> QED
    BY <2>1 DEF ArriveFields
<1>3. ASSUME NEW kind \in RuleKinds, NEW rule \in Rules, NEW prefer \in Choices \cup {{}},
             ArriveRule(r, kind, rule, prefer)
      PROVE  ArriveFields(r)
  <2>1. req'[r] = [pc |-> "row", kind |-> kind, id |-> None, name |-> None,
                   rule |-> rule, prefer |-> prefer, copy |-> None, missed |-> {}]
        /\ req[r].pc = "idle"
    BY <1>0, <1>3 DEF ArriveRule, NoRequest
  <2>2. IF kind = "createRule"
        THEN rules[rule] = None /\ \A other \in Requests : req[other].rule # rule
        ELSE rules[rule] # None
    BY <1>3 DEF ArriveRule
  <2> QED
    BY <2>1, <2>2 DEF ArriveFields
<1> QED
  BY <1>1, <1>2, <1>3 DEF Arrive

\* A request that arrives knows nothing yet that could be out of date.
LEMMA ArriveInv ==
  ASSUME ConfigInv, NEW r \in Requests, Arrive(r)
  PROVE  Identity' /\ Locks' /\ \A q \in Requests : ReqInv(q)'
<1>1. TypeInv /\ Identity /\ Locks /\ \A q \in Requests : RuleIsNew(q)
  BY DEF ConfigInv, ReqInv
<1>2. ArriveFields(r) /\ OnlyRequest(r) /\ RequestType(r)'
  BY <1>1, ArriveEffect, ArriveType
<1>3. UNCHANGED <<channels, rules, stored, damaged>>
      /\ \A q \in Requests \ {r} : req'[q] = req[q]
  BY <1>1, <1>2, FrameStep DEF OnlyRequest
<1>4. req[r].pc = "idle" /\ req'[r].pc \in {"config", "row"}
  BY <1>2 DEF ArriveFields
<1>5. \A ch \in channels : ch.id # r
  BY <1>1, <1>4, ConfigAssumption DEF Identity, Created
<1>6. \A ch \in channels : ch.id \in Names \cup Requests
  BY <1>1 DEF TypeInv, TypeOK, Channel
<1>7. \A id \in (Names \cup Requests) \ {r} : OwnName(id)' = OwnName(id) /\ (Created(id)' <=> Created(id))
  BY <1>3 DEF OwnName, Created
<1>8. Identity'
  <2>1. \A ch \in channels' : (ch.name = OwnName(ch.id) /\ Created(ch.id))'
    BY <1>1, <1>3, <1>5, <1>6, <1>7 DEF Identity
  <2>2. ASSUME NEW q \in Requests, req'[q].pc \in {"config", "write", "commit"},
               req'[q].kind \in {"updateChannel", "deleteChannel"}
        PROVE  /\ req'[q].id \in Names \cup Requests
               /\ req'[q].name = OwnName(req[q].id)' /\ Created(req[q].id)'
    <3>1. CASE q = r
      <4>1. PICK ch \in channels : req'[r].id = ch.id /\ req'[r].name = ch.name
        BY <1>2, <2>2, <3>1 DEF ArriveFields, RuleKinds
      <4> QED
        BY <1>1, <1>5, <1>6, <1>7, <3>1, <4>1 DEF Identity
    <3>2. CASE q # r
      <4>1. req'[q] = req[q] /\ req[q].id # r
        BY <1>1, <1>3, <1>4, <2>2, <3>2, ConfigAssumption DEF Identity, Created
      <4> QED
        BY <1>1, <1>7, <2>2, <4>1 DEF Identity
    <3> QED
      BY <3>1, <3>2
  <2> QED
    BY <2>1, <2>2 DEF Identity
<1>9. Locks'
  BY <1>1, <1>3, <1>4 DEF Locks
<1>10. ASSUME NEW q \in Requests
       PROVE  RuleIsNew(q)'
  <2>1. CASE q = r
    BY <1>2, <1>3, <2>1, ConfigAssumption DEF ArriveFields, RuleIsNew, RuleKinds
  <2>2. CASE q # r
    <3>1. req'[q] = req[q] /\ RuleIsNew(q)
      BY <1>1, <1>3, <2>2
    <3>2. SUFFICES ASSUME req[q].kind = "createRule", Busy(q)
                   PROVE  rules[req[q].rule] = None /\ \A o \in Requests \ {q} : req'[o].rule # req[q].rule
      BY <1>3, <3>1 DEF RuleIsNew, Busy
    <3>3. rules[req[q].rule] = None /\ req[q].rule \in Rules
          /\ \A o \in Requests \ {q} : req[o].rule # req[q].rule
      BY <1>1, <3>1, <3>2 DEF RuleIsNew, TypeInv, Fits, Busy, ChannelKinds, TypeOK, Request
    <3>4. req'[r].rule # req[q].rule
      BY <1>2, <3>3, ConfigAssumption DEF ArriveFields
    <3> QED
      BY <1>3, <3>3, <3>4
  <2> QED
    BY <2>1, <2>2
<1>11. SubjectKept(r)' /\ CopyAgrees(r)' /\ CopyChanged(r)'
  <2>1. ~HasCopy(r)'
    BY <1>4 DEF HasCopy
  <2>2. SubjectKept(r)'
    BY <1>2, <1>3 DEF ArriveFields, SubjectKept, RuleKinds
  <2> QED
    BY <2>1, <2>2 DEF CopyAgrees, CopyChanged
<1> QED
  BY <1>2, <1>8, <1>9, <1>10, <1>11, FrameStep DEF ReqInv

\* What a channel request makes of the configuration that it reads
LEMMA ReadCopyInv ==
  ASSUME ConfigInv, NEW r \in Requests, OnlyRequest(r), SameRequest(r), ReadCopy(r)
  PROVE  CopyAgrees(r)' /\ CopyChanged(r)'
<1> DEFINE c == Changed(r, stored)
           n == req[r].name
<1>1. stored \in Config /\ n \in Names /\ req[r].kind \in ChannelKinds /\ Names \cap Rules = {}
  BY ConfigAssumption DEF ConfigInv, TypeInv, TypeOK, Fits, ReadCopy
<1>2. UNCHANGED <<stored, damaged>> /\ req'[r].copy = c /\ Subject(r)' = n /\ Subject(r) = n
      /\ req'[r].kind = req[r].kind
  BY <1>1 DEF OnlyRequest, ReadCopy, Subject, SameRequest, ChannelKinds, RuleKinds
<1>3. /\ req[r].kind = "createChannel" =>
           c[n] = [data |-> r, rules |-> {}] /\ \A m \in Names \ {n} : c[m] = stored[m]
      /\ req[r].kind = "updateChannel" =>
           /\ stored[n] = None => c[n] = None
           /\ stored[n] # None => c[n] # None /\ c[n].data = r /\ c[n].rules = stored[n].rules
           /\ \A m \in Names \ {n} : c[m] = stored[m]
      /\ req[r].kind = "deleteChannel" =>
           c[n] = None /\ \A m \in Names \ {n} : c[m] = stored[m]
  <2>1. CASE req[r].kind = "createChannel"
    <3>1. c = CreateReceiver(stored, n, r)
      BY <2>1 DEF Changed
    <3> HIDE DEF c, n
    <3> QED
      BY <1>1, <2>1, <3>1, CreateFacts
  <2>2. CASE req[r].kind = "updateChannel"
    <3>1. c = UpdateReceiver(stored, n, r)
      BY <2>2 DEF Changed
    <3> HIDE DEF c, n
    <3> QED
      BY <1>1, <2>2, <3>1, UpdateFacts
  <2>3. CASE req[r].kind = "deleteChannel"
    <3>1. c = DeleteReceiver(stored, n)
      BY <2>3 DEF Changed
    <3> HIDE DEF c, n
    <3> QED
      BY <1>1, <2>3, <3>1, DeleteFacts
  <2> QED
    BY <1>1, <2>1, <2>2, <2>3 DEF ChannelKinds
<1>4. req[r].kind = "createChannel" => stored[n] = None
  BY DEF ReadCopy
<1> HIDE DEF c, n
<1>5. \A m \in Names \ {n} : c[m] = stored[m]
  BY <1>1, <1>3 DEF ChannelKinds
<1>6. CopyAgrees(r)'
  BY <1>2, <1>3, <1>5 DEF CopyAgrees, Routes
<1>7. CopyChanged(r)'
  BY <1>1, <1>2, <1>3, <1>4 DEF CopyChanged, ChannelKinds
<1> QED
  BY <1>6, <1>7

\* What a rule request makes of the configuration that it reads
LEMMA GetCopyInv ==
  ASSUME ConfigInv, NEW r \in Requests, OnlyRequest(r), SameRequest(r), GetCopy(r)
  PROVE  CopyAgrees(r)' /\ CopyChanged(r)'
<1> DEFINE c     == Matched(r, stored)
           rule  == req[r].rule
           names == IF req[r].prefer = {} THEN NamesOf(channels) ELSE req[r].prefer
<1>1. stored \in Config /\ rule \in Rules /\ req[r].kind \in RuleKinds /\ Names \cap Rules = {}
  BY ConfigAssumption DEF ConfigInv, TypeInv, TypeOK, Fits, GetCopy
<1>2. UNCHANGED <<stored, damaged>> /\ req'[r].copy = c /\ Subject(r)' = rule /\ Subject(r) = rule
      /\ req'[r].kind = req[r].kind /\ req'[r].prefer = req[r].prefer
  BY <1>1 DEF OnlyRequest, GetCopy, Subject, SameRequest, RuleKinds
<1>3. \A n \in Names :
        /\ c[n] = None <=> stored[n] = None
        /\ stored[n] # None => c[n].data = stored[n].data
        /\ stored[n] # None =>
             c[n].rules = CASE req[r].kind = "createRule" ->
                                 IF n \in names THEN stored[n].rules \cup {rule} ELSE stored[n].rules
                            [] req[r].kind = "editRule" ->
                                 IF n \in names THEN (stored[n].rules \ {rule}) \cup {rule}
                                 ELSE stored[n].rules \ {rule}
                            [] OTHER -> stored[n].rules \ {rule}
  <2> DEFINE without == DeleteRuleIDMatcher(stored, rule)
  <2>1. /\ without \in Config
        /\ \A n \in Names :
             /\ without[n] = None <=> stored[n] = None
             /\ stored[n] # None => /\ without[n].data = stored[n].data
                                    /\ without[n].rules = stored[n].rules \ {rule}
    BY <1>1, DeleteMatcherFacts
  <2> HIDE DEF without
  <2>2. CASE req[r].kind = "createRule"
    <3>1. c = CreateRuleIDMatcher(stored, rule, names)
      BY <2>2 DEF Matched
    <3> HIDE DEF c, rule, names
    <3> QED
      BY <1>1, <2>2, <3>1, CreateMatcherFacts
  <2>3. CASE req[r].kind = "editRule"
    <3>1. c = CreateRuleIDMatcher(without, rule, names)
      BY <2>3 DEF Matched, UpdateRuleIDMatcher, without
    <3> HIDE DEF c, rule, names
    <3>2. \A n \in Names :
            /\ c[n] = None <=> without[n] = None
            /\ without[n] # None =>
                 /\ c[n].data = without[n].data
                 /\ c[n].rules = IF n \in names THEN without[n].rules \cup {rule} ELSE without[n].rules
      BY <1>1, <2>1, <3>1, CreateMatcherFacts
    <3> QED
      BY <2>1, <2>3, <3>2
  <2>4. CASE req[r].kind = "deleteRule"
    <3>1. c = without
      BY <2>4 DEF Matched, without
    <3> HIDE DEF c
    <3> QED
      BY <2>1, <2>4, <3>1
  <2> QED
    BY <1>1, <2>2, <2>3, <2>4 DEF RuleKinds
<1>4. req[r].kind = "createRule" =>
        \A n \in Names \ damaged : rule \notin damaged => ~Routes(stored, n, rule)
  <2>1. StoredMatches /\ (req[r].kind = "createRule" => rules[rule] = None)
    BY DEF ConfigInv, ReqInv, RuleIsNew, Busy, GetCopy
  <2> QED
    BY <1>1, <2>1 DEF StoredMatches, Matches, Wants
<1>5. \A n \in names : req[r].prefer = {} \/ n \in req[r].prefer
  OBVIOUS
<1> HIDE DEF c, names, rule
<1>6. CopyAgrees(r)'
  <2>1. ASSUME NEW n \in Names, NEW other \in Rules \ {rule}
        PROVE  Routes(c, n, other) <=> Routes(stored, n, other)
    <3>1. stored[n] # None => (other \in c[n].rules <=> other \in stored[n].rules)
      BY <1>1, <1>3, <2>1 DEF RuleKinds
    <3> QED
      BY <1>3, <3>1 DEF Routes
  <2>2. \A n \in Names : (c[n] = None <=> stored[n] = None)
                         /\ (stored[n] # None => c[n].data = stored[n].data)
    BY <1>3
  <2> QED
    BY <1>2, <2>1, <2>2 DEF CopyAgrees, Routes
<1>7. ASSUME req[r].kind \in {"createRule", "editRule"}, rule \notin damaged,
             NEW n \in Names \ damaged, Routes(c, n, rule)
      PROVE  n \in names
  BY <1>1, <1>3, <1>4, <1>7 DEF Routes
<1>8. ASSUME req[r].kind = "deleteRule", NEW n \in Names
      PROVE  ~Routes(c, n, rule)
  BY <1>3, <1>8 DEF Routes
<1>9. CopyChanged(r)'
  BY <1>1, <1>2, <1>5, <1>7, <1>8 DEF CopyChanged, RuleKinds, Wrong, Routes
<1> QED
  BY <1>6, <1>9

\* A request that goes on or fails, and what it reads.
LEMMA ProceedInv ==
  ASSUME ConfigInv, NEW r \in Requests,
         \/ ReadConfig(r) \/ WriteChannel(r) \/ WriteRule(r)
         \/ GetConfig(r) \/ SetConfig(r) \/ Fail(r)
  PROVE  Identity' /\ Locks' /\ \A q \in Requests : ReqInv(q)'
<1>1. TypeInv /\ Identity /\ Locks /\ Fits(r) /\ ReqInv(r) /\ \A q \in Requests : RuleIsNew(q)
  BY DEF ConfigInv, ReqInv, TypeInv
<1>2. /\ OnlyRequest(r) /\ SameRequest(r)
      /\ ReadConflict(r) \/ ReadCopy(r) \/ GetCopy(r) \/ GoOn(r) \/ GiveUp(r)
  BY <1>1, ProceedEffect
<1>3. UNCHANGED <<channels, rules, stored, damaged>>
      /\ \A q \in Requests \ {r} : req'[q] = req[q]
  BY <1>2, FrameStep DEF OnlyRequest
<1>4. Busy(r) /\ req[r].pc # "done"
  BY <1>2 DEF ReadConflict, ReadCopy, GetCopy, GoOn, GiveUp, Busy
<1>5. \A id \in Names \cup Requests : OwnName(id)' = OwnName(id) /\ (Created(id) => Created(id)')
  BY <1>2, <1>3, <1>4 DEF OwnName, Created, SameRequest
<1>6. \A ch \in channels : ch.id \in Names \cup Requests
  BY <1>1 DEF TypeInv, TypeOK, Channel
<1>7. /\ req'[r].pc \in {"config", "write"} => req[r].pc = "config"
      /\ req'[r].pc = "commit" => req[r].pc \in {"write", "set"} /\ ConfigFree
      /\ req'[r].pc = "get" => req[r].pc = "row" /\ RuleFree(req[r].rule)
      /\ req'[r].pc = "set" => req[r].pc = "get"
      /\ req'[r].pc \notin {"idle", "config", "row"}
  BY <1>2 DEF ReadConflict, ReadCopy, GetCopy, GoOn, GiveUp
<1>8. Identity'
  <2>1. \A ch \in channels' : (ch.name = OwnName(ch.id) /\ Created(ch.id))'
    BY <1>1, <1>3, <1>5, <1>6 DEF Identity
  <2>2. ASSUME NEW q \in Requests, req'[q].pc \in {"config", "write", "commit"},
               req'[q].kind \in {"updateChannel", "deleteChannel"}
        PROVE  /\ req'[q].id \in Names \cup Requests
               /\ req'[q].name = OwnName(req[q].id)' /\ Created(req[q].id)'
               /\ req'[q].id = req[q].id
    <3>1. req[q].pc \in {"config", "write", "commit"} /\ SameRequest(q)
      BY <1>1, <1>2, <1>3, <1>7, <2>2 DEF Fits, RuleKinds, SameRequest
    <3> QED
      BY <1>1, <1>5, <2>2, <3>1 DEF Identity, SameRequest
  <2> QED
    BY <2>1, <2>2 DEF Identity, OwnName, Created
<1>9. Locks'
  <2>1. \A p, q \in Requests : req'[p].pc = "commit" /\ req'[q].pc = "commit" => p = q
    BY <1>1, <1>3, <1>7 DEF Locks, ConfigFree
  <2>2. ASSUME NEW q \in Requests \ {r}, {req'[q].pc, req'[r].pc} \subseteq {"get", "set", "commit"},
               req'[q].rule = req'[r].rule, req'[r].rule \in Rules
        PROVE  FALSE
    <3>1. req[q].pc \in {"get", "set", "commit"} /\ req[q].rule = req[r].rule /\ req[r].rule \in Rules
      BY <1>2, <1>3, <2>2 DEF SameRequest
    <3>2. req[r].pc \in {"row", "get", "set"}
      BY <1>1, <1>7, <2>2, <3>1, ConfigAssumption DEF Fits
    <3>3. req[r].pc # "row"
      BY <1>7, <2>2, <3>1 DEF RuleFree
    <3> QED
      BY <1>1, <3>1, <3>2, <3>3 DEF Locks
  <2> QED
    BY <1>1, <1>3, <2>1, <2>2 DEF Locks
<1>10. \A q \in Requests : RuleIsNew(q)'
  BY <1>1, <1>2, <1>3, <1>4 DEF RuleIsNew, SameRequest, Busy
<1>11. SubjectKept(r)'
  <2>1. SubjectKept(r) /\ SameRequest(r) /\ UNCHANGED <<channels, rules>>
    BY <1>1, <1>2, <1>3 DEF ReqInv
  <2>2. CASE ReadConflict(r) \/ GiveUp(r)
    BY <2>2 DEF ReadConflict, GiveUp, SubjectKept
  <2>3. CASE ReadCopy(r)
    BY <2>1, <2>3 DEF ReadCopy, SubjectKept, SameRequest
  <2>4. CASE GetCopy(r)
    BY <2>1, <2>4 DEF GetCopy, SubjectKept, SameRequest
  <2>5. CASE GoOn(r)
    BY <1>1, <2>1, <2>5 DEF GoOn, SubjectKept, SameRequest, Fits, ChannelKinds, RuleKinds
  <2> QED
    BY <1>2, <2>2, <2>3, <2>4, <2>5
<1>12. CopyAgrees(r)' /\ CopyChanged(r)'
  <2>1. CASE ReadConflict(r) \/ GiveUp(r)
    BY <2>1 DEF ReadConflict, GiveUp, CopyAgrees, CopyChanged, HasCopy
  <2>2. CASE ReadCopy(r) \/ GetCopy(r)
    BY <1>2, <2>2, ReadCopyInv, GetCopyInv
  <2>3. CASE GoOn(r)
    <3>1. /\ HasCopy(r)' => HasCopy(r)
          /\ req'[r].copy = req[r].copy /\ req'[r].missed = req[r].missed
          /\ CopyAgrees(r) /\ CopyChanged(r) /\ Subject(r)' = Subject(r) /\ Wrong(r)' = Wrong(r)
      BY <1>1, <1>2, <1>3, <2>3 DEF GoOn, HasCopy, Subject, SameRequest, ReqInv, Wrong
    <3>2. CopyAgrees(r)'
      BY <1>2, <1>3, <3>1 DEF CopyAgrees, Routes, SameRequest
    <3>3. CopyChanged(r)'
      BY <1>2, <1>3, <3>1 DEF CopyChanged, Routes, SameRequest
    <3> QED
      BY <3>2, <3>3
  <2> QED
    BY <1>2, <2>1, <2>2, <2>3
<1> QED
  BY <1>2, <1>8, <1>9, <1>10, <1>11, <1>12, FrameStep DEF ReqInv

-----------------------------------------------------------------------------
(* The commit. *)

\* What a commit does not change: the rows of other names and rules, and the
\* stored configuration of the names that its copy was right about.
LEMMA CommitElsewhere ==
  ASSUME ConfigInv, NEW r \in Requests, Commit(r)
  PROVE  /\ \A ch : ch.name \in Names \ {Subject(r)} => (ch \in channels' <=> ch \in channels)
         /\ \A rule \in Rules \ {Subject(r)} : rules'[rule] = rules[rule]
         /\ \A n \in Names \ (Wrong(r) \cup {Subject(r)}) :
              /\ stored'[n] = None <=> stored[n] = None
              /\ stored[n] # None => stored'[n].data = stored[n].data
              /\ \A rule \in Rules \ (Wrong(r) \cup {Subject(r)}) :
                   Routes(stored', n, rule) <=> Routes(stored, n, rule)
<1>1. TypeInv /\ Identity /\ CopyAgrees(r) /\ Fits(r) /\ req[r].pc = "commit"
      /\ stored' = req[r].copy
  BY DEF ConfigInv, ReqInv, TypeInv, Commit
<1>2. /\ req[r].kind \in ChannelKinds => Subject(r) = req[r].name /\ req[r].name \in Names
      /\ req[r].kind \in RuleKinds => Subject(r) = req[r].rule
      /\ req[r].kind \in ChannelKinds \cup RuleKinds
  BY <1>1 DEF Fits, Subject, ChannelKinds, RuleKinds
<1>3. ASSUME req[r].kind \in {"updateChannel", "deleteChannel"}, NEW ch \in channels, ch.id = req[r].id
      PROVE  ch.name = Subject(r)
  BY <1>1, <1>2, <1>3 DEF Identity, ChannelKinds
<1>4. ASSUME NEW ch, ch.name \in Names \ {Subject(r)}
      PROVE  ch \in channels' <=> ch \in channels
  <2>1. CASE req[r].kind = "createChannel"
    BY <1>1, <1>2, <1>4, <2>1, RowsAfter DEF ChannelKinds
  <2>2. CASE req[r].kind = "updateChannel"
    <3>1. channels' = {IF old.id = req[r].id THEN [old EXCEPT !.data = r] ELSE old : old \in channels}
      BY <1>1, <2>2, RowsAfter
    <3>2. \A old \in channels : old.id = req[r].id => [old EXCEPT !.data = r].name = Subject(r)
      BY <1>1, <1>3, <2>2 DEF TypeInv, TypeOK, Channel
    <3> QED
      BY <1>3, <1>4, <2>2, <3>1, <3>2
  <2>3. CASE req[r].kind = "deleteChannel"
    BY <1>1, <1>3, <1>4, <2>3, RowsAfter
  <2>4. CASE req[r].kind \in RuleKinds
    BY <1>1, <2>4, RowsAfter
  <2> QED
    BY <1>2, <2>1, <2>2, <2>3, <2>4 DEF ChannelKinds
<1>5. \A rule \in Rules \ {Subject(r)} : rules'[rule] = rules[rule]
  BY <1>1, <1>2, RowsAfter
<1>6. \A n \in Names \ (Wrong(r) \cup {Subject(r)}) :
        /\ stored'[n] = None <=> stored[n] = None
        /\ stored[n] # None => stored'[n].data = stored[n].data
        /\ \A rule \in Rules \ (Wrong(r) \cup {Subject(r)}) :
             Routes(stored', n, rule) <=> Routes(stored, n, rule)
  BY <1>1 DEF CopyAgrees, HasCopy
<1> QED
  BY <1>4, <1>5, <1>6

\* The channel that is created, changed or deleted has one row or none, which
\* matches the new configuration, unless the request missed something.
LEMMA CommitSubject ==
  ASSUME ConfigInv, NEW r \in Requests, Commit(r),
         req[r].kind \in ChannelKinds, Subject(r) \notin Wrong(r)
  PROVE  RowsMatch(stored, Subject(r))'
<1> DEFINE n == req[r].name
<1>1. /\ Subject(r) = n /\ n \in Names /\ stored' = req[r].copy /\ req[r].pc = "commit"
      /\ CopyChanged(r) /\ SubjectKept(r) /\ RowsMatch(stored, n) /\ TypeInv /\ Subject(r)' = n
  <2>1. req[r].kind \notin RuleKinds /\ Fits(r) /\ req[r].pc = "commit"
    BY DEF ChannelKinds, RuleKinds, ConfigInv, TypeInv, Commit
  <2>2. Subject(r) = n /\ n \in Names
    BY <2>1 DEF Subject, Fits
  <2>3. RowsMatch(stored, n)
    BY <2>2 DEF ConfigInv, StoredMatches, Matches, Wrong
  <2>4. SameRequest(r)
    BY CommitEffect DEF ConfigInv
  <2> QED
    BY <2>1, <2>2, <2>3, <2>4 DEF ConfigInv, ReqInv, Commit, Subject, SameRequest
<1>2. n \notin req[r].missed
  BY <1>1 DEF Wrong
<1>3. CASE req[r].kind = "createChannel"
  <2>1. stored[n] = None /\ stored'[n] = [data |-> r, rules |-> {}]
    BY <1>1, <1>3 DEF CopyChanged, HasCopy
  <2>2. channels' = channels \cup {[id |-> r, name |-> n, data |-> r]}
        /\ \A ch \in channels : ch.name # n
    BY <1>1, <1>3, <2>1, RowsAfter DEF RowsMatch
  <2>3. [data |-> r, rules |-> {}] \in Receiver
    BY DEF Receiver
  <2>4. stored'[n] # None /\ stored'[n].data = r
    BY <2>1, <2>3, NoneAssumption
  <2> DEFINE new == [id |-> r, name |-> n, data |-> r]
  <2>5. new.name = n /\ new.data = r
    OBVIOUS
  <2> HIDE DEF new, n
  <2>6. channels' = channels \cup {new}
    BY <2>2 DEF new
  <2> QED
    BY <1>1, <2>2, <2>4, <2>5, <2>6 DEF RowsMatch
<1>4. ASSUME req[r].kind \in {"updateChannel", "deleteChannel"}
      PROVE  \E ch \in channels : ch.id = req[r].id /\ ch.name = n
                                  /\ \A other \in channels : other.name = n => other = ch
  BY <1>1, <1>2, <1>4 DEF SubjectKept, RowsMatch
<1>5. CASE req[r].kind = "updateChannel"
  <2>1. PICK ch \in channels : ch.id = req[r].id /\ ch.name = n
                               /\ \A other \in channels : other.name = n => other = ch
    BY <1>4, <1>5
  <2>2. stored'[n] # None /\ stored'[n].data = r
    BY <1>1, <1>5, <2>1 DEF CopyChanged, HasCopy, RowsMatch
  <2>3. channels' = {IF old.id = req[r].id THEN [old EXCEPT !.data = r] ELSE old : old \in channels}
    BY <1>1, <1>5, RowsAfter
  <2> DEFINE new == [ch EXCEPT !.data = r]
  <2>4. new.name = n /\ new.data = r
    BY <1>1, <2>1 DEF TypeInv, TypeOK, Channel
  <2>5. \A old \in channels : [old EXCEPT !.data = r].name = old.name
    BY <1>1 DEF TypeInv, TypeOK, Channel
  <2>6. new \in channels'
    BY <2>1, <2>3
  <2>7. ASSUME NEW c1 \in channels', c1.name = n
        PROVE  c1 = new
    <3>1. PICK old \in channels : c1 = IF old.id = req[r].id THEN [old EXCEPT !.data = r] ELSE old
      BY <2>3, <2>7
    <3>2. old = ch
      BY <2>1, <2>5, <2>7, <3>1
    <3> QED
      BY <2>1, <3>1, <3>2
  <2> HIDE DEF new, n
  <2> QED
    BY <1>1, <2>2, <2>4, <2>6, <2>7 DEF RowsMatch
<1>6. CASE req[r].kind = "deleteChannel"
  <2>1. stored'[n] = None
    BY <1>1, <1>6 DEF CopyChanged, HasCopy
  <2>2. \A ch \in channels' : ch.name # n
    BY <1>1, <1>4, <1>6, RowsAfter
  <2> QED
    BY <1>1, <2>1, <2>2 DEF RowsMatch
<1> QED
  BY <1>3, <1>5, <1>6 DEF ChannelKinds

\* What is stored after a commit is right, but for what was damaged before and
\* what the request missed.
LEMMA CommitStored ==
  ASSUME ConfigInv, NEW r \in Requests, Commit(r)
  PROVE  StoredMatches'
<1>1. damaged' = Wrong(r) /\ StoredMatches /\ stored' = req[r].copy /\ req[r].pc = "commit"
      /\ Fits(r) /\ CopyAgrees(r) /\ CopyChanged(r) /\ RuleIsNew(r) /\ SubjectKept(r) /\ TypeInv
  BY DEF Commit, Wrong, ConfigInv, ReqInv, TypeInv
<1>2. SUFFICES ASSUME NEW n \in Names \ Wrong(r)
               PROVE  /\ RowsMatch(stored, n)'
                      /\ \A rule \in Rules \ Wrong(r) : Routes(stored', n, rule) => Wants(rule, n)'
  BY <1>1 DEF StoredMatches, Matches, Routes
<1>3. RowsMatch(stored, n) /\ \A rule \in Rules \ Wrong(r) : Routes(stored, n, rule) => Wants(rule, n)
  BY <1>1, <1>2 DEF StoredMatches, Matches, Wrong
<1>4. RowsMatch(stored, n)'
  <2>1. CASE n = Subject(r)
    <3>1. req[r].kind \in ChannelKinds
      BY <1>1, <1>2, <2>1, ConfigAssumption DEF Fits, Subject
    <3>2. Subject(r) \notin Wrong(r)
      BY <1>2, <2>1
    <3>3. RowsMatch(stored, Subject(r))'
      BY <3>1, <3>2, CommitSubject
    <3>4. Subject(r)' = Subject(r)
      BY <1>1, CommitEffect DEF Subject, SameRequest
    <3> QED
      BY <2>1, <3>3, <3>4 DEF RowsMatch
  <2>2. CASE n # Subject(r)
    <3>1. /\ \A ch : ch.name = n => (ch \in channels' <=> ch \in channels)
          /\ stored'[n] = None <=> stored[n] = None
          /\ stored[n] # None => stored'[n].data = stored[n].data
      BY <1>2, <2>2, CommitElsewhere
    <3> QED
      BY <1>3, <3>1 DEF RowsMatch
  <2> QED
    BY <2>1, <2>2
<1>5. ASSUME NEW rule \in Rules \ Wrong(r), Routes(stored', n, rule)
      PROVE  Wants(rule, n)'
  <2>1. CASE rule # Subject(r)
    <3>1. Routes(stored, n, rule)
      <4>1. CASE n # Subject(r) \/ req[r].kind = "updateChannel"
        BY <1>1, <1>2, <1>5, <2>1, <4>1 DEF CopyAgrees, HasCopy
      <4>2. CASE n = Subject(r) /\ req[r].kind # "updateChannel"
        <5>1. req[r].kind \in {"createChannel", "deleteChannel"}
          BY <1>1, <1>2, <4>2, ConfigAssumption DEF Fits, Subject, ChannelKinds
        <5>2. stored'[n] = None \/ stored'[n] = [data |-> r, rules |-> {}]
          BY <1>1, <1>2, <4>2, <5>1 DEF CopyChanged, HasCopy
        <5> QED
          BY <1>5, <5>2 DEF Routes
      <4> QED
        BY <4>1, <4>2
    <3>2. rules'[rule] = rules[rule]
      BY <1>5, <2>1, CommitElsewhere
    <3> QED
      BY <1>3, <1>5, <3>1, <3>2 DEF Wants
  <2>2. CASE rule = Subject(r)
    <3>1. req[r].kind \in RuleKinds /\ Subject(r) = req[r].rule
      BY <1>1, <1>5, <2>2, ConfigAssumption DEF Fits, Subject
    <3>2. req[r].kind # "deleteRule"
      BY <1>1, <1>2, <1>5, <2>2, <3>1 DEF CopyChanged, HasCopy
    <3>3. req[r].prefer = {} \/ n \in req[r].prefer
      BY <1>1, <1>2, <1>5, <2>2, <3>1, <3>2 DEF CopyChanged, HasCopy, RuleKinds
    <3>4. req[r].kind = "editRule" => rules[req[r].rule] # None
      BY <1>1, <1>5, <2>2, <3>1 DEF SubjectKept, Wrong
    <3>5. rules'[rule] = req[r].prefer /\ req[r].prefer \in Choices
      BY <1>1, <2>2, <3>1, <3>2, <3>4, RowsAfter DEF Fits, Busy, RuleKinds
    <3>6. req[r].prefer # None
      BY <3>5, NoneAssumption
    <3> QED
      BY <3>3, <3>5, <3>6 DEF Wants
  <2> QED
    BY <2>1, <2>2
<1> QED
  BY <1>4, <1>5

\* A request that goes on while others change what is stored can still be
\* trusted about all that it has not missed.
LEMMA Unaware ==
  ASSUME TypeInv, NEW q \in Requests, SubjectKept(q), CopyAgrees(q), CopyChanged(q),
         req[q].pc # "commit",
         NEW changed \in SUBSET (Names \cup Rules), Goes(q, changed),
         damaged \subseteq changed \cup damaged',
         \A ch \in channels : ch.name \notin changed => ch \in channels',
         \A rule \in Rules \ changed : rules'[rule] = rules[rule],
         \A n \in Names \ (changed \cup damaged') :
           /\ stored'[n] = None <=> stored[n] = None
           /\ stored[n] # None => stored'[n].data = stored[n].data
           /\ \A rule \in Rules \ (changed \cup damaged') :
                Routes(stored', n, rule) <=> Routes(stored, n, rule)
  PROVE  SubjectKept(q)' /\ CopyAgrees(q)' /\ CopyChanged(q)'
<1>1. /\ SameRequest(q) /\ req'[q].pc = req[q].pc /\ req'[q].copy = req[q].copy
      /\ HasCopy(q)' = HasCopy(q) /\ Subject(q)' = Subject(q)
  BY DEF Goes, SameRequest, HasCopy, Subject
<1>2. req[q].pc \in {"config", "write", "row", "get", "set"} =>
        req'[q].missed = req[q].missed \cup changed
  BY DEF Goes
<1>3. HasCopy(q) => Wrong(q)' = req[q].missed \cup changed \cup damaged'
                    /\ Wrong(q) \subseteq Wrong(q)'
  BY <1>2 DEF HasCopy, Wrong
<1>4. SubjectKept(q)'
  <2>1. Fits(q)
    BY DEF TypeInv
  <2>2. ASSUME req[q].kind \in {"updateChannel", "deleteChannel"},
               req[q].pc \in {"config", "write", "commit"}, req[q].name \notin req'[q].missed
        PROVE  \E ch \in channels' : ch.id = req[q].id /\ ch.name = req[q].name
    BY <1>2, <2>2 DEF SubjectKept
  <2>3. ASSUME req[q].kind = "editRule",
               req[q].pc \in {"row", "get", "set", "commit"}, req[q].rule \notin req'[q].missed
        PROVE  rules'[req[q].rule] # None
    BY <1>2, <2>1, <2>3 DEF SubjectKept, Fits
  <2> QED
    BY <1>1, <2>2, <2>3 DEF SubjectKept, SameRequest
<1>5. CopyAgrees(q)'
  <2>1. ASSUME HasCopy(q), NEW n \in Names \ Wrong(q)'
        PROVE  /\ n \in Names \ Wrong(q) /\ n \notin changed /\ n \notin damaged'
               /\ \A rule \in Rules \ Wrong(q)' :
                    rule \in Rules \ Wrong(q) /\ rule \notin changed /\ rule \notin damaged'
    BY <1>3, <2>1
  <2>2. ASSUME HasCopy(q), NEW n \in Names \ Wrong(q)', n # Subject(q)
        PROVE  /\ req[q].copy[n] = None <=> stored'[n] = None
               /\ stored'[n] # None => req[q].copy[n].data = stored'[n].data
    BY <2>1, <2>2 DEF CopyAgrees
  <2>3. ASSUME HasCopy(q), NEW n \in Names \ Wrong(q)',
               n # Subject(q) \/ req[q].kind = "updateChannel",
               NEW rule \in Rules \ Wrong(q)', rule # Subject(q)
        PROVE  Routes(req[q].copy, n, rule) <=> Routes(stored', n, rule)
    BY <2>1, <2>3 DEF CopyAgrees
  <2> QED
    BY <1>1, <2>2, <2>3 DEF CopyAgrees, SameRequest, Routes
<1>6. CopyChanged(q)'
  <2> SUFFICES ASSUME HasCopy(q), Subject(q) \notin Wrong(q)'
               PROVE  CopyChanged(q)'
    BY <1>1 DEF CopyChanged
  <2>1. Subject(q) \notin Wrong(q) /\ Subject(q) \notin changed \cup damaged'
        /\ Names \ Wrong(q)' \subseteq Names \ Wrong(q)
    BY <1>3
  <2>2. req[q].kind \in {"createChannel", "updateChannel"} =>
          (stored'[Subject(q)] = None <=> stored[Subject(q)] = None)
    <3>1. Fits(q)
      BY DEF TypeInv
    <3>2. req[q].kind \in {"createChannel", "updateChannel"} => Subject(q) \in Names
      BY <3>1 DEF Fits, HasCopy, Subject, RuleKinds
    <3> QED
      BY <2>1, <3>2
  <2> QED
    BY <1>1, <2>1, <2>2 DEF CopyChanged, SameRequest, Routes
<1> QED
  BY <1>4, <1>5, <1>6

\* A commit changes what it is about, and the other requests have missed that.
LEMMA CommitOthers ==
  ASSUME ConfigInv, NEW r \in Requests, Commit(r)
  PROVE  \A q \in Requests : ReqInv(q)'
<1>1. TypeInv /\ Locks /\ req[r].pc = "commit" /\ damaged' = Wrong(r)
  BY DEF ConfigInv, Commit, Wrong
<1>2. /\ Subject(r) \in Names \cup Rules /\ req'[r].pc = "done"
      /\ \A q \in Requests : SameRequest(q)
      /\ \A q \in Requests \ {r} : Goes(q, {Subject(r)})
  BY <1>1, CommitEffect DEF Goes
<1>3. \A q \in Requests : RuleIsNew(q)'
  <2> SUFFICES ASSUME NEW q \in Requests, req'[q].kind = "createRule", Busy(q)'
               PROVE  /\ rules'[req'[q].rule] = None
                      /\ \A p \in Requests \ {q} : req'[p].rule # req'[q].rule
    BY DEF RuleIsNew
  <2>0. /\ q # r /\ req[q].kind = "createRule" /\ Busy(q)
        /\ \A p \in Requests : req'[p].rule = req[p].rule
    BY <1>2 DEF Goes, SameRequest, Busy
  <2>1. /\ rules[req[q].rule] = None
        /\ \A p \in Requests \ {q} : req[p].rule # req[q].rule
    BY <2>0 DEF ConfigInv, ReqInv, RuleIsNew
  <2>2. Fits(q) /\ Fits(r)
    BY DEF ConfigInv, TypeInv
  <2>3. rules'[req[q].rule] = None
    <3>1. req[q].rule # req[r].rule /\ req[q].rule \in Rules \cup {None}
      BY <2>0, <2>1 DEF ConfigInv, TypeInv, TypeOK, Request
    <3>2. req[q].pc # "commit"
      BY <1>1, <2>0 DEF Locks
    <3>3. req[q].rule \in Rules
      BY <2>0, <2>2, <3>2 DEF Fits, Busy, ChannelKinds, ConfigInv, TypeInv, TypeOK, Request
    <3> QED
      BY <1>1, <2>1, <2>2, <3>1, <3>3, RowsAfter DEF Fits
  <2> QED
    BY <2>0, <2>1, <2>3
<1>4. ASSUME NEW q \in Requests \ {r}
      PROVE  SubjectKept(q)' /\ CopyAgrees(q)' /\ CopyChanged(q)'
  <2> DEFINE changed == {Subject(r)}
  <2>1. changed \in SUBSET (Names \cup Rules) /\ Goes(q, changed) /\ req[q].pc # "commit"
    BY <1>1, <1>2 DEF Locks
  <2>2. SubjectKept(q) /\ CopyAgrees(q) /\ CopyChanged(q)
    BY DEF ConfigInv, ReqInv
  <2>3. damaged \subseteq changed \cup damaged'
        /\ changed \cup damaged' = Wrong(r) \cup {Subject(r)}
    BY <1>1 DEF Wrong
  <2>4. \A ch \in channels : ch.name \in Names
    BY <1>1 DEF TypeInv, TypeOK, Channel
  <2>5. \A ch \in channels : ch.name \notin changed => ch \in channels'
    BY <2>4, CommitElsewhere
  <2>6. \A rule \in Rules \ changed : rules'[rule] = rules[rule]
    BY CommitElsewhere
  <2>7. \A n \in Names \ (changed \cup damaged') :
           /\ stored'[n] = None <=> stored[n] = None
           /\ stored[n] # None => stored'[n].data = stored[n].data
           /\ \A rule \in Rules \ (changed \cup damaged') :
                Routes(stored', n, rule) <=> Routes(stored, n, rule)
    BY <2>3, CommitElsewhere
  <2> HIDE DEF changed
  <2> QED
    BY <1>1, <2>1, <2>2, <2>3, <2>5, <2>6, <2>7, Unaware
<1>5. SubjectKept(r)' /\ CopyAgrees(r)' /\ CopyChanged(r)'
  BY <1>2 DEF SubjectKept, CopyAgrees, CopyChanged, HasCopy
<1> QED
  BY <1>3, <1>4, <1>5 DEF ReqInv

\* What SyncServers rebuilds stays right but for what the commit is about.
LEMMA CommitRebuilt ==
  ASSUME ConfigInv, NEW r \in Requests, Commit(r)
  PROVE  RebuiltMatches'
<1>1. RebuiltMatches /\ sync \in Sync /\ TypeInv
  BY DEF ConfigInv, TypeInv, TypeOK
<1>2. /\ sync'.pc = sync.pc /\ sync'.rows = sync.rows /\ sync'.new = sync.new
      /\ sync.pc \in {"matchers", "set"} => sync'.missed = sync.missed \cup {Subject(r)}
  BY <1>1, SyncAfter
<1>3. /\ \A ch : ch.name \in Names \ {Subject(r)} => (ch \in channels' <=> ch \in channels)
      /\ \A rule \in Rules \ {Subject(r)} : rules'[rule] = rules[rule]
  BY CommitElsewhere
<1>4. ASSUME sync.pc = "matchers", NEW ch \in sync.rows \cup channels', ch.name \notin sync'.missed
      PROVE  ch \in sync.rows /\ ch \in channels'
  <2>1. ch.name \in Names \ {Subject(r)} /\ ch.name \notin sync.missed
    BY <1>1, <1>2, <1>4, CommitType DEF Sync, Channel, TypeInv, TypeOK
  <2> QED
    BY <1>1, <1>3, <1>4, <2>1 DEF RebuiltMatches
<1>5. ASSUME sync.pc = "set", NEW n \in Names \ sync'.missed
      PROVE  /\ RowsMatch(sync.new, n)'
             /\ \A rule \in Rules \ sync'.missed : Routes(sync.new, n, rule) => Wants(rule, n)'
  <2>1. n \in Names \ {Subject(r)} /\ n \in Names \ sync.missed
    BY <1>2, <1>5
  <2>2. /\ RowsMatch(sync.new, n)
        /\ \A rule \in Rules \ sync.missed : Routes(sync.new, n, rule) => Wants(rule, n)
    BY <1>1, <1>5, <2>1 DEF RebuiltMatches, Matches
  <2>3. \A ch : ch.name = n => (ch \in channels' <=> ch \in channels)
    BY <1>3, <2>1
  <2>4. RowsMatch(sync.new, n)'
    BY <1>2, <2>2, <2>3 DEF RowsMatch
  <2>5. \A rule \in Rules \ sync'.missed : Routes(sync.new, n, rule) => Wants(rule, n)'
    BY <1>2, <1>3, <1>5, <2>2 DEF Wants
  <2> QED
    BY <2>4, <2>5
<1> QED
  BY <1>2, <1>4, <1>5 DEF RebuiltMatches, Matches, Routes

\* A channel keeps its id and its name, and a new one has those of its request.
LEMMA CommitIdentity ==
  ASSUME ConfigInv, NEW r \in Requests, Commit(r)
  PROVE  Identity' /\ Locks'
<1>1. TypeInv /\ Identity /\ Locks /\ channels \subseteq Channel /\ Fits(r)
  BY DEF ConfigInv, TypeInv, TypeOK
<1>2. /\ req[r].pc = "commit" /\ req'[r].pc = "done"
      /\ \A q \in Requests : SameRequest(q)
      /\ \A q \in Requests \ {r} : req'[q].pc = req[q].pc
  BY <1>1, CommitEffect DEF Goes
<1>3. \A id \in Names \cup Requests : OwnName(id)' = OwnName(id) /\ (Created(id) => Created(id)')
  BY <1>2 DEF OwnName, Created, SameRequest
<1>4. ASSUME NEW ch \in channels'
      PROVE  ch.name = OwnName(ch.id)' /\ Created(ch.id)'
  <2>1. ASSUME NEW old \in channels
        PROVE  old.id \in Names \cup Requests
               /\ old.name = OwnName(old.id)' /\ Created(old.id)'
    BY <1>1, <1>3 DEF Identity, Channel
  <2>2. CASE req[r].kind = "createChannel"
    <3> DEFINE new == [id |-> r, name |-> req[r].name, data |-> r]
    <3>1. new.id = r /\ new.name = req[r].name
      OBVIOUS
    <3>2. channels' = channels \cup {new}
      BY <1>1, <2>2, RowsAfter
    <3>3. req[r].name = OwnName(r)' /\ Created(r)'
      BY <1>2, ConfigAssumption DEF OwnName, Created, SameRequest
    <3> HIDE DEF new
    <3> QED
      BY <2>1, <3>1, <3>2, <3>3
  <2>3. CASE req[r].kind = "updateChannel"
    <3>1. channels' = {IF old.id = req[r].id THEN [old EXCEPT !.data = r] ELSE old : old \in channels}
      BY <1>1, <2>3, RowsAfter
    <3>2. PICK old \in channels : ch = IF old.id = req[r].id THEN [old EXCEPT !.data = r] ELSE old
      BY <3>1
    <3>3. ch.id = old.id /\ ch.name = old.name
      BY <1>1, <3>2 DEF Channel
    <3> QED
      BY <2>1, <3>3
  <2>4. CASE req[r].kind = "deleteChannel" \/ req[r].kind \in RuleKinds
    BY <1>1, <2>1, <2>4, RowsAfter
  <2> QED
    BY <1>1, <1>2, <2>2, <2>3, <2>4 DEF Fits, ChannelKinds
<1>5. ASSUME NEW q \in Requests, req'[q].pc \in {"config", "write", "commit"},
             req'[q].kind \in {"updateChannel", "deleteChannel"}
      PROVE  /\ req'[q].id \in Names \cup Requests
             /\ req'[q].name = OwnName(req[q].id)' /\ Created(req[q].id)'
             /\ req'[q].id = req[q].id
  <2>1. /\ req[q].pc \in {"config", "write", "commit"}
        /\ req'[q].kind = req[q].kind /\ req'[q].id = req[q].id /\ req'[q].name = req[q].name
    BY <1>2, <1>5 DEF SameRequest
  <2>2. req[q].id \in Names \cup Requests
        /\ req[q].name = OwnName(req[q].id) /\ Created(req[q].id)
    BY <1>1, <1>5, <2>1 DEF Identity
  <2> QED
    BY <1>3, <2>1, <2>2
<1>6. Identity'
  BY <1>4, <1>5 DEF Identity, OwnName, Created
<1>7. Locks'
  BY <1>1, <1>2 DEF Locks, SameRequest
<1> QED
  BY <1>6, <1>7

-----------------------------------------------------------------------------
(* SyncServers and the restart. *)

\* What SyncServers has read of the rows is right but for later changes, and so
\* is what it rebuilds from them.
LEMMA SyncReadsInv ==
  ASSUME ConfigInv, SyncReads
  PROVE  ConfigInv'
<1>1. /\ TypeInv /\ StoredMatches /\ RebuiltMatches /\ Identity /\ Locks
      /\ \A q \in Requests : ReqInv(q)
  BY DEF ConfigInv
<1>2. TypeInv' /\ UNCHANGED <<channels, rules, stored, req, damaged>>
  BY <1>1, SyncReadsType
<1>3. StoredMatches'
  BY <1>1, <1>2 DEF StoredMatches, Matches, RowsMatch, Routes, Wants
<1>4. Identity' /\ Locks'
  BY <1>1, <1>2 DEF Identity, Locks, OwnName, Created
<1>5. ASSUME NEW q \in Requests PROVE ReqInv(q)'
  <2>1. ReqInv(q)
    BY <1>1
  <2>2. RuleIsNew(q)' /\ SubjectKept(q)'
    BY <1>2, <2>1 DEF ReqInv, RuleIsNew, SubjectKept, Busy
  <2>3. CopyAgrees(q)'
    BY <1>2, <2>1 DEF ReqInv, CopyAgrees, HasCopy, Wrong, Subject, Routes
  <2>4. CopyChanged(q)'
    BY <1>2, <2>1 DEF ReqInv, CopyChanged, HasCopy, Wrong, Subject, Routes
  <2> QED
    BY <2>2, <2>3, <2>4 DEF ReqInv
<1>6. sync \in Sync /\ channels \subseteq Channel /\ rules \in [Rules -> Choices \cup {None}]
  BY <1>1 DEF TypeInv, TypeOK
<1>7. CASE SyncServers \/ NewServer \/ SyncFails
  <2>1. sync'.pc \in {"idle", "new", "list"}
    BY <1>6, <1>7, NoSyncType DEF SyncServers, NewServer, SyncFails, Sync
  <2> QED
    BY <1>2, <1>3, <1>4, <1>5, <2>1 DEF ConfigInv, RebuiltMatches
<1>8. CASE ListChannels
  <2>1. sync'.pc = "matchers" /\ sync'.rows = channels
    BY <1>6, <1>8 DEF ListChannels, Sync
  <2> QED
    BY <1>2, <1>3, <1>4, <1>5, <2>1 DEF ConfigInv, RebuiltMatches
<1>9. CASE GetMatchers
  <2>1. CASE ~NamesUnique(sync.rows)
    <3>1. sync'.pc = "idle"
      BY <1>9, <2>1, NoSyncType DEF GetMatchers
    <3> QED
      BY <1>2, <1>3, <1>4, <1>5, <3>1 DEF ConfigInv, RebuiltMatches
  <2>2. CASE NamesUnique(sync.rows)
    <3> DEFINE new == Rebuild(sync.rows, rules)
    <3>1. sync' = [sync EXCEPT !.pc = "set", !.rows = {}, !.new = new] /\ sync.pc = "matchers"
      BY <1>9, <2>2 DEF GetMatchers
    <3>2. /\ \A n \in Names : new[n] = None => \A ch \in sync.rows : ch.name # n
          /\ \A n \in Names : new[n] # None => \E ch \in sync.rows : ch.name = n /\ ch.data = new[n].data
          /\ \A n \in Names, rule \in Rules :
               Routes(new, n, rule) => rules[rule] # None /\ n \in rules[rule]
      BY <1>6, <2>2, RebuildFacts DEF Sync
    <3> HIDE DEF new
    <3>3. sync'.pc = "set" /\ sync'.new = new /\ sync'.missed = sync.missed
      BY <1>6, <3>1 DEF Sync
    <3>4. ASSUME NEW n \in Names \ sync.missed
          PROVE  RowsMatch(new, n)
      <4>1. \A ch : ch.name = n => (ch \in sync.rows <=> ch \in channels)
        BY <1>1, <3>1 DEF RebuiltMatches
      <4>2. new[n] = None => \A ch \in channels : ch.name # n
        BY <3>2, <4>1
      <4>3. new[n] # None => \E ch \in channels : ch.name = n /\ ch.data = new[n].data
        BY <3>2, <4>1
      <4>4. \A c1, c2 \in channels : c1.name = n /\ c2.name = n => c1 = c2
        BY <2>2, <4>1 DEF NamesUnique
      <4> QED
        BY <4>2, <4>3, <4>4 DEF RowsMatch
    <3>5. Matches(new, sync.missed)
      BY <3>2, <3>4 DEF Matches, Wants
    <3>6. Matches(sync.new, sync.missed)'
      BY <1>2, <3>3, <3>5 DEF Matches, RowsMatch, Routes, Wants
    <3> QED
      BY <1>2, <1>3, <1>4, <1>5, <3>3, <3>6 DEF ConfigInv, RebuiltMatches
  <2> QED
    BY <2>1, <2>2
<1> QED
  BY <1>7, <1>8, <1>9 DEF SyncReads

\* What SyncServers stores is what it rebuilt; the requests that go on have
\* missed what it changes.
LEMMA StoreRebuiltInv ==
  ASSUME ConfigInv, StoreRebuilt
  PROVE  ConfigInv'
<1>1. /\ TypeInv /\ StoredMatches /\ RebuiltMatches /\ Identity /\ Locks
      /\ \A q \in Requests : ReqInv(q)
  BY DEF ConfigInv
<1>2. /\ UNCHANGED <<channels, rules>> /\ sync' = NoSync /\ sync.pc = "set"
  BY DEF StoreRebuilt
<1>3. TypeInv' /\ RebuiltMatches'
  BY <1>1, <1>2, StoreRebuiltType, NoSyncType DEF RebuiltMatches
<1>4. CASE sync.new = sync.old
  <2>1. UNCHANGED <<stored, req, damaged>>
    BY <1>4 DEF StoreRebuilt
  <2>2. StoredMatches'
    BY <1>1, <1>2, <2>1 DEF StoredMatches, Matches, RowsMatch, Routes, Wants
  <2>3. Identity' /\ Locks'
    BY <1>1, <1>2, <2>1 DEF Identity, Locks, OwnName, Created
  <2>4. ASSUME NEW q \in Requests PROVE ReqInv(q)'
    <3>1. ReqInv(q)
      BY <1>1
    <3>2. RuleIsNew(q)' /\ SubjectKept(q)'
      BY <1>2, <2>1, <3>1 DEF ReqInv, RuleIsNew, SubjectKept, Busy
    <3>3. CopyAgrees(q)'
      BY <2>1, <3>1 DEF ReqInv, CopyAgrees, HasCopy, Wrong, Subject, Routes
    <3>4. CopyChanged(q)'
      BY <2>1, <3>1 DEF ReqInv, CopyChanged, HasCopy, Wrong, Subject, Routes
    <3> QED
      BY <3>2, <3>3, <3>4 DEF ReqInv
  <2> QED
    BY <1>3, <2>2, <2>3, <2>4 DEF ConfigInv
<1>5. CASE ~(sync.new = sync.old)
  <2> DEFINE changed == damaged \cup {n \in Names : stored[n] # sync.new[n]}
  <2>1. /\ ConfigFree /\ stored' = sync.new /\ damaged' = sync.missed
        /\ \A q \in Requests : Goes(q, changed)
    BY <1>1, <1>5, StoreEffect
  <2>2. changed \in SUBSET (Names \cup Rules) /\ damaged \subseteq changed
        /\ \A n \in Names \ changed : stored'[n] = stored[n]
    BY <1>1, <2>1 DEF TypeInv, TypeOK
  <2> HIDE DEF changed
  <2>3. StoredMatches'
    BY <1>1, <1>2, <2>1 DEF RebuiltMatches, StoredMatches, Matches, RowsMatch, Routes, Wants
  <2>4. \A q \in Requests : SameRequest(q) /\ req'[q].pc = req[q].pc
    BY <2>1 DEF Goes
  <2>5. Identity'
    <3>1. \A id \in Names \cup Requests : OwnName(id)' = OwnName(id) /\ Created(id)' = Created(id)
      BY <2>4 DEF OwnName, Created, SameRequest
    <3>2. \A ch \in channels' : (ch.name = OwnName(ch.id) /\ Created(ch.id))'
      <4>1. \A ch \in channels : ch.id \in Names \cup Requests
        BY <1>1 DEF TypeInv, TypeOK, Channel
      <4> QED
        BY <1>1, <1>2, <3>1, <4>1 DEF Identity
    <3>3. ASSUME NEW q \in Requests, req'[q].pc \in {"config", "write", "commit"},
                 req'[q].kind \in {"updateChannel", "deleteChannel"}
          PROVE  /\ req'[q].id \in Names \cup Requests /\ req'[q].id = req[q].id
                 /\ req'[q].name = OwnName(req[q].id)' /\ Created(req[q].id)'
      BY <1>1, <2>4, <3>1, <3>3 DEF Identity, SameRequest
    <3> QED
      BY <3>2, <3>3 DEF Identity, OwnName, Created
  <2>6. Locks'
    BY <1>1, <2>4 DEF Locks, SameRequest
  <2>7. ASSUME NEW q \in Requests PROVE ReqInv(q)'
    <3>1. ReqInv(q) /\ req[q].pc # "commit" /\ Goes(q, changed)
      BY <1>1, <2>1 DEF ConfigFree
    <3>2. RuleIsNew(q)'
      BY <1>2, <2>4, <3>1 DEF ReqInv, RuleIsNew, Busy, SameRequest
    <3>3. \A n \in Names \ (changed \cup damaged') :
            /\ stored'[n] = None <=> stored[n] = None
            /\ stored[n] # None => stored'[n].data = stored[n].data
            /\ \A rule \in Rules \ (changed \cup damaged') :
                 Routes(stored', n, rule) <=> Routes(stored, n, rule)
      BY <2>2 DEF Routes
    <3>4. SubjectKept(q) /\ CopyAgrees(q) /\ CopyChanged(q)
      BY <3>1 DEF ReqInv
    <3>5. /\ \A ch \in channels : ch.name \notin changed => ch \in channels'
          /\ \A rule \in Rules \ changed : rules'[rule] = rules[rule]
          /\ damaged \subseteq changed \cup damaged'
      BY <1>2, <2>2
    <3>6. SubjectKept(q)' /\ CopyAgrees(q)' /\ CopyChanged(q)'
      BY <1>1, <2>2, <3>1, <3>3, <3>4, <3>5, Unaware
    <3> QED
      BY <3>2, <3>6 DEF ReqInv
  <2> QED
    BY <1>3, <2>3, <2>5, <2>6, <2>7 DEF ConfigInv
<1> QED
  BY <1>4, <1>5

\* After a restart no request is under way.
LEMMA RestartInv ==
  ASSUME ConfigInv, Restart
  PROVE  ConfigInv'
<1>1. TypeInv /\ StoredMatches /\ Identity /\ channels \subseteq Channel
  BY DEF ConfigInv, TypeInv, TypeOK
<1>2. /\ UNCHANGED <<channels, rules, stored, damaged>> /\ sync' = NoSync
      /\ \A q \in Requests : \/ ~Busy(q) /\ req'[q] = req[q]
                             \/ Busy(q) /\ req'[q].pc = "done"
  BY <1>1, RestartEffect
<1>3. \A q \in Requests : req'[q].pc \in {"idle", "done"}
                          /\ (req[q].pc = "done" => req'[q] = req[q])
  BY <1>2 DEF Busy
<1>4. TypeInv' /\ RebuiltMatches'
  BY <1>1, <1>2, RestartType, NoSyncType DEF RebuiltMatches
<1>5. StoredMatches'
  BY <1>1, <1>2 DEF StoredMatches, Matches, RowsMatch, Routes, Wants
<1>6. ASSUME NEW ch \in channels
      PROVE  ch.name = OwnName(ch.id)' /\ Created(ch.id)'
  <2>1. ch.id \in Names \cup Requests /\ ch.name = OwnName(ch.id) /\ Created(ch.id)
    BY <1>1 DEF Identity, Channel
  <2> QED
    BY <1>3, <2>1 DEF OwnName, Created
<1>7. Identity' /\ Locks'
  BY <1>2, <1>3, <1>6 DEF Identity, Locks, OwnName, Created
<1>8. \A q \in Requests : ReqInv(q)'
  BY <1>3 DEF ReqInv, RuleIsNew, SubjectKept, CopyAgrees, CopyChanged, HasCopy, Busy
<1> QED
  BY <1>4, <1>5, <1>7, <1>8 DEF ConfigInv

-----------------------------------------------------------------------------
(* The invariant, and what it says of the stored configuration. *)

\* At first the stored configuration is what the rows say.
LEMMA InvInit == Init => ConfigInv
<1> SUFFICES ASSUME Init PROVE ConfigInv
  OBVIOUS
<1>1. PICK names \in SUBSET Names :
         channels = {[id |-> n, name |-> n, data |-> None] : n \in names}
  BY DEF Init
<1>2. \A ch \in channels : ch.id \in Names /\ ch.id = ch.name /\ ch.data = None
  BY <1>1
<1>3. \A c1, c2 \in channels : c1.name = c2.name => c1 = c2
  BY <1>1
<1> DEFINE wish(n) == {rule \in Rules : rules[rule] # None /\ (rules[rule] = {} \/ n \in rules[rule])}
<1>4. stored = [n \in Names |-> IF n \notin NamesOf(channels) THEN None
                                ELSE [data |-> None, rules |-> wish(n)]]
  BY DEF Init
<1>5. \A n \in Names : wish(n) \in SUBSET Rules /\ \A rule \in wish(n) : Wants(rule, n)
  BY DEF Wants
<1> HIDE DEF wish
<1>6. \A n \in Names : [data |-> None, rules |-> wish(n)] # None
  BY <1>5, NoneAssumption DEF Receiver
<1>7. \A n \in Names : stored[n] = None <=> \A ch \in channels : ch.name # n
  BY <1>4, <1>6 DEF NamesOf
<1>8. \A n \in Names : stored[n] # None => stored[n].data = None /\ stored[n].rules = wish(n)
  BY <1>4
<1>9. StoredMatches
  BY <1>2, <1>3, <1>5, <1>7, <1>8 DEF StoredMatches, Matches, RowsMatch, Routes
<1>10. \A r \in Requests : req[r].pc = "idle"
  BY DEF Init, NoRequest
<1>11. RebuiltMatches
  BY NoSyncType DEF Init, RebuiltMatches
<1>12. Identity /\ Locks
  BY <1>2, <1>10 DEF Identity, Locks, OwnName, Created
<1>13. \A r \in Requests : ReqInv(r)
  BY <1>10 DEF ReqInv, RuleIsNew, SubjectKept, CopyAgrees, CopyChanged, HasCopy, Busy
<1> QED
  BY <1>9, <1>11, <1>12, <1>13, TypeInit DEF ConfigInv

\* Every step keeps the invariant.
LEMMA InvStep ==
  ASSUME ConfigInv, [Next]_vars
  PROVE  ConfigInv'
<1>0. TypeInv
  BY DEF ConfigInv
<1>1. ASSUME NEW r \in Requests, Arrive(r) \/ Proceed(r)
      PROVE  ConfigInv'
  <2>1. CASE Arrive(r)
    <3>1. OnlyRequest(r)
      BY <1>0, <2>1, ArriveType
    <3> QED
      BY <1>0, <2>1, <3>1, ArriveInv, FrameStep, TypeStep DEF ConfigInv
  <2>2. CASE \/ ReadConfig(r) \/ WriteChannel(r) \/ WriteRule(r)
             \/ GetConfig(r) \/ SetConfig(r) \/ Fail(r)
    <3>1. OnlyRequest(r)
      BY <1>0, <2>2, ProceedType
    <3> QED
      BY <1>0, <2>2, <3>1, ProceedInv, FrameStep, TypeStep DEF ConfigInv
  <2>3. CASE Commit(r)
    BY <1>0, <2>3, CommitStored, CommitRebuilt, CommitIdentity, CommitOthers, CommitType
       DEF ConfigInv
  <2> QED
    BY <1>1, <2>1, <2>2, <2>3 DEF Proceed
<1>2. CASE SyncReads
  BY <1>2, SyncReadsInv
<1>3. CASE StoreRebuilt \/ Restart
  BY <1>3, StoreRebuiltInv, RestartInv
<1>4. CASE UNCHANGED vars
  <2>1. StoredMatches' /\ RebuiltMatches'
    BY <1>4 DEF vars, ConfigInv, StoredMatches, RebuiltMatches, Matches, RowsMatch, Routes, Wants
  <2>2. Identity' /\ Locks'
    BY <1>4 DEF vars, ConfigInv, Identity, Locks, OwnName, Created
  <2>3. ASSUME NEW q \in Requests PROVE ReqInv(q)'
    <3>1. ReqInv(q)
      BY DEF ConfigInv
    <3>2. RuleIsNew(q)' /\ SubjectKept(q)'
      BY <1>4, <3>1 DEF vars, ReqInv, RuleIsNew, SubjectKept, Busy
    <3>3. CopyAgrees(q)'
      BY <1>4, <3>1 DEF vars, ReqInv, CopyAgrees, HasCopy, Wrong, Subject, Routes
    <3>4. CopyChanged(q)'
      BY <1>4, <3>1 DEF vars, ReqInv, CopyChanged, HasCopy, Wrong, Subject, Routes
    <3> QED
      BY <3>2, <3>3, <3>4 DEF ReqInv
  <2> QED
    BY <1>0, <2>1, <2>2, <2>3, TypeStep DEF ConfigInv
<1> QED
  BY <1>1, <1>2, <1>3, <1>4 DEF Next, SyncReads

\* The stored configuration has a receiver exactly for the channels that have a
\* row, but for what was written from reads that were out of date.
THEOREM ReceiversMatchAlways == Spec => []ReceiversMatchChannels
<1>1. ASSUME ConfigInv PROVE ReceiversMatchChannels
  <2> SUFFICES ASSUME NEW n \in Names \ damaged
               PROVE  LET rows == {ch \in channels : ch.name = n}
                      IN  /\ Cardinality(rows) <= 1
                          /\ {ch.data : ch \in rows} = IF stored[n] = None THEN {} ELSE {stored[n].data}
    BY DEF ReceiversMatchChannels
  <2> DEFINE rows == {ch \in channels : ch.name = n}
  <2>1. RowsMatch(stored, n)
    BY <1>1 DEF ConfigInv, StoredMatches, Matches
  <2>2. CASE stored[n] = None
    <3>1. rows = {}
      BY <2>1, <2>2 DEF RowsMatch
    <3> QED
      BY <2>2, <3>1, FS_EmptySet
  <2>3. CASE stored[n] # None
    <3>1. PICK ch \in channels : ch.name = n /\ ch.data = stored[n].data
      BY <2>1, <2>3 DEF RowsMatch
    <3>2. rows = {ch}
      BY <2>1, <3>1 DEF RowsMatch
    <3>3. Cardinality(rows) = 1
      BY <3>2, FS_Singleton
    <3> QED
      BY <2>3, <3>1, <3>2, <3>3
  <2> QED
    BY <2>2, <2>3
<1> QED
  BY <1>1, InvInit, InvStep, PTL DEF Spec

\* A route matches only rules that are stored and want its channel, with the
\* same exception.
THEOREM RoutesMatchAlways == Spec => []RoutesMatchRules
<1>1. ASSUME ConfigInv PROVE RoutesMatchRules
  BY <1>1 DEF ConfigInv, StoredMatches, Matches, Routes, Wants, RoutesMatchRules
<1> QED
  BY <1>1, InvInit, InvStep, PTL DEF Spec

\* A request takes a rule off a channel only when it deletes the channel or
\* changes the rule, or writes over a change of either that it has not seen.
LEMMA KeptByCommit ==
  ASSUME ConfigInv, NEW r \in Requests, NEW n \in Names, NEW rule \in Rules,
         Commit(r), Routed(n, rule), ~Routed(n, rule)', {n, rule} \cap damaged' = {}
  PROVE  \/ req[r].kind = "deleteChannel" /\ req[r].name = n
         \/ req[r].kind \in {"editRule", "deleteRule"} /\ req[r].rule = rule
<1>1. /\ TypeInv /\ Fits(r) /\ CopyAgrees(r) /\ CopyChanged(r) /\ RuleIsNew(r) /\ StoredMatches
      /\ req[r].pc = "commit" /\ stored' = req[r].copy /\ damaged' = Wrong(r)
  BY DEF ConfigInv, ReqInv, TypeInv, Commit, Wrong
<1>2. /\ n \in Names \ Wrong(r) /\ rule \in Rules \ Wrong(r) /\ n # rule
      /\ Routes(stored, n, rule) /\ ~Routes(stored', n, rule)
  BY <1>1, ConfigAssumption DEF Routed, Routes
<1>3. n = Subject(r) \/ rule = Subject(r)
  BY <1>2, CommitElsewhere
<1>4. CASE n = Subject(r)
  <2>1. req[r].kind \in ChannelKinds /\ req[r].name = n
    BY <1>1, <1>2, <1>4, ConfigAssumption DEF Fits, Subject, ChannelKinds, RuleKinds
  <2>2. req[r].kind # "createChannel"
    BY <1>1, <1>2, <1>4 DEF CopyChanged, HasCopy, Routes
  <2>3. req[r].kind # "updateChannel"
    BY <1>1, <1>2, <1>4 DEF CopyAgrees, HasCopy
  <2> QED
    BY <2>1, <2>2, <2>3 DEF ChannelKinds
<1>5. CASE rule = Subject(r)
  <2>1. req[r].kind \in RuleKinds /\ req[r].rule = rule
    BY <1>1, <1>5, ConfigAssumption DEF Fits, Subject
  <2>2. rules[rule] # None
    BY <1>1, <1>2 DEF StoredMatches, Matches, Wants, Wrong
  <2>3. req[r].kind # "createRule"
    BY <1>1, <2>1, <2>2 DEF RuleIsNew, Busy
  <2> QED
    BY <2>1, <2>3 DEF RuleKinds
<1> QED
  BY <1>3, <1>4, <1>5

\* What others routed stays routed.
THEOREM RoutesAreKeptAlways == Spec => RoutesAreKept
<1> DEFINE Kept == \A r \in Requests, n \in Names, rule \in Rules :
                     Commit(r) /\ Routed(n, rule) /\ ~Routed(n, rule)' =>
                       \/ req[r].kind = "deleteChannel" /\ req[r].name = n
                       \/ req[r].kind \in {"editRule", "deleteRule"} /\ req[r].rule = rule
                       \/ {n, rule} \cap damaged' # {}
<1>1. ConfigInv /\ [Next]_vars => [Kept]_vars
  <2> SUFFICES ASSUME ConfigInv PROVE Kept
    OBVIOUS
  <2> QED
    BY KeptByCommit
<1> QED
  BY <1>1, InvInit, InvStep, PTL DEF Spec, RoutesAreKept
=============================================================================
