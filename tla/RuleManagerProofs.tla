------------------------- MODULE RuleManagerProofs --------------------------
(***************************************************************************)
(* Proofs about the rule manager, for any rules, requests and restarts:    *)
(* however requests race, at most one goroutine evaluates a rule, and it   *)
(* is within the manager's reach.                                          *)
(***************************************************************************)
EXTENDS RuleManager, FiniteSetTheorems, TLAPS

-----------------------------------------------------------------------------
(* Tasks. *)

\* A request at work on a rule builds a task from a definition.
LEMMA NewTaskType ==
  ASSUME RequestsOK, NEW r \in Requests, req[r].pc # "idle"
  PROVE  NewTask(r) \in Task /\ NewTask(r) # None
  BY NoneAssumption DEF RequestsOK, Request, NewTask, Task

\* initiate starts at most one task for each rule.
LEMMA BootType ==
  ASSUME NEW sto \in [Rules -> Definition \cup {None}], NEW lost, NEW n \in 0..MaxRestarts
  PROVE  Boot(sto, lost, n) \in [Rules -> Task \cup {None}]
<1>1. ASSUME NEW rule \in Enabled(sto)
      PROVE  [def |-> sto[rule], by |-> n, restored |-> FALSE] \in Task
  BY <1>1 DEF Task, Enabled
<1> QED
  BY <1>1 DEF Boot

-----------------------------------------------------------------------------
(* Types of the requests and the locks. *)

\* A request that has not arrived.
LEMMA IdleType == Idle \in Request
  BY DEF Idle, Request

\* NewManager and initiate leave the manager with its types.
LEMMA TypeInit == Init => TypeOK
<1> SUFFICES ASSUME Init
             PROVE  TypeOK
  OBVIOUS
<1>1. store \in [Rules -> Definition \cup {None}]
  <2>1. [body : {None}, disabled : BOOLEAN] \subseteq Definition
    BY DEF Definition
  <2> QED
    BY <2>1 DEF Init
<1>2. tasks \in [Rules -> Task \cup {None}]
  BY <1>1, BootType, ManagerAssumption DEF Init
<1>3. MemoryOK
  BY <1>1, <1>2, ManagerAssumption DEF Init, MemoryOK, Enabled
<1>4. RequestsOK
  BY IdleType, ManagerAssumption DEF Init, RequestsOK, Idle
<1>5. LocksOK
  BY ManagerAssumption DEF Init, LocksOK, Idle
<1> QED
  BY <1>3, <1>4, <1>5 DEF TypeOK

\* What a step that only moves request r has to show.
LEMMA OneRequest ==
  ASSUME RequestsOK, NEW r \in Requests, NEW q \in Request,
         req' = [req EXCEPT ![r] = q],
         q.pc # "idle" => q.rule \in Rules /\ q.new \in Definition,
         (q.kind = "patch" /\ q.pc \notin {"idle", "read", "done"}) => q.old \in Definition
  PROVE  RequestsOK'
  BY DEF RequestsOK

\* Moving a request on to a later point of the code keeps its type.
LEMMA GotoType ==
  ASSUME RequestsOK, NEW r \in Requests, NEW pc, Goto(r, pc),
         req[r].pc \notin {"idle", "read", "done"} \/ (req[r].pc = "read" /\ pc = "done"),
         pc \in {"write", "config", "sync", "task", "stopping", "commit", "done"}
  PROVE  RequestsOK'
<1> DEFINE q == [req[r] EXCEPT !.pc = pc]
<1>1. req[r] \in Request /\ req' = [req EXCEPT ![r] = q]
  BY DEF RequestsOK, Goto
<1>2. q \in Request
  BY <1>1 DEF Request
<1>3. q.pc = pc /\ q.rule = req[r].rule /\ q.new = req[r].new
      /\ q.kind = req[r].kind /\ q.old = req[r].old
  BY <1>1 DEF Request
<1> HIDE DEF q
<1>4. /\ q.pc # "idle" => q.rule \in Rules /\ q.new \in Definition
      /\ (q.kind = "patch" /\ q.pc \notin {"idle", "read", "done"}) => q.old \in Definition
  <2>1. /\ req[r].rule \in Rules /\ req[r].new \in Definition
        /\ (req[r].kind = "patch" /\ req[r].pc # "read") => req[r].old \in Definition
    BY DEF RequestsOK
  <2> QED
    BY <1>3, <2>1
<1> QED
  BY <1>1, <1>2, <1>4, OneRequest

\* A request that ends keeps its type.
LEMMA AbortType ==
  ASSUME RequestsOK, NEW r \in Requests, Abort(r), req[r].pc \notin {"idle", "read", "done"}
  PROVE  RequestsOK'
  BY GotoType DEF Abort

\* So does one that ends with the rule's task changed.
LEMMA AbortLooseType ==
  ASSUME RequestsOK, NEW r \in Requests, AbortLoose(r), req[r].pc \in {"task", "commit"}
  PROVE  RequestsOK'
<1> DEFINE q == [req[r] EXCEPT !.pc = "done", !.loose = TRUE]
<1>1. /\ req[r] \in Request /\ req[r].rule \in Rules /\ req[r].new \in Definition
      /\ req' = [req EXCEPT ![r] = q]
  BY DEF RequestsOK, AbortLoose
<1>2. q \in Request /\ q.pc = "done" /\ q.rule \in Rules /\ q.new \in Definition
  BY <1>1 DEF Request
<1> HIDE DEF q
<1> QED
  BY <1>1, <1>2, OneRequest

\* A failed patch goes back to the definition it had read.
LEMMA RestoreStep ==
  ASSUME RequestsOK, NEW r \in Requests, RestoreOrAbort(r),
         req[r].pc \in {"write", "commit"}, req[r].kind = "patch"
  PROVE  \E inPlace \in BOOLEAN, new \in Definition, q \in Request :
           /\ req' = [req EXCEPT ![r] = q]
           /\ q.pc = "sync" /\ q.rule = req[r].rule /\ q.kind = req[r].kind
           /\ q.old = req[r].old /\ q.new = new /\ q.restoring
           /\ q.loose = (req[r].loose \/ inPlace)
           /\ ~inPlace => new = req[r].old
<1>1. PICK inPlace \in BOOLEAN :
        req' = [req EXCEPT
          ![r].pc = "sync",
          ![r].new = [req[r].old EXCEPT !.body = IF inPlace THEN r ELSE @],
          ![r].restoring = TRUE,
          ![r].loose = @ \/ inPlace]
  BY DEF RestoreOrAbort
<1> DEFINE new == [req[r].old EXCEPT !.body = IF inPlace THEN r ELSE @]
           loose == req[r].loose \/ inPlace
           q == [req[r] EXCEPT !.pc = "sync", !.new = new, !.restoring = TRUE, !.loose = loose]
<1>2. req[r] \in Request /\ req[r].old \in Definition
  BY DEF RequestsOK
<1>3. new \in Definition /\ (~inPlace => new = req[r].old)
  BY <1>2 DEF Definition
<1>4. loose \in BOOLEAN
  OBVIOUS
<1>5. req' = [req EXCEPT ![r] = q]
  BY <1>1
<1> HIDE DEF new, loose
<1>6. q \in Request /\ q.pc = "sync" /\ q.rule = req[r].rule /\ q.kind = req[r].kind
      /\ q.old = req[r].old /\ q.new = new /\ q.restoring /\ q.loose = loose
  BY <1>2, <1>3, <1>4 DEF Request
<1> HIDE DEF q
<1> QED
  BY <1>3, <1>5, <1>6 DEF loose

LEMMA RestoreType ==
  ASSUME RequestsOK, NEW r \in Requests, RestoreOrAbort(r),
         req[r].pc \in {"write", "commit"}
  PROVE  RequestsOK'
<1>1. CASE req[r].kind # "patch"
  BY <1>1, AbortType DEF RestoreOrAbort
<1>2. CASE req[r].kind = "patch"
  <2>1. req[r].rule \in Rules /\ req[r].old \in Definition
    BY <1>2 DEF RequestsOK
  <2>2. \E new \in Definition, q \in Request :
          /\ req' = [req EXCEPT ![r] = q]
          /\ q.rule = req[r].rule /\ q.new = new /\ q.old = req[r].old
    BY <1>2, RestoreStep
  <2> QED
    BY <2>1, <2>2, OneRequest
<1> QED
  BY <1>1, <1>2

\* A request arrives, or reads the stored rule.
LEMMA ArriveType ==
  ASSUME RequestsOK, NEW r \in Requests, NEW kind \in Kinds, NEW rule \in Rules,
         NEW disabled \in BOOLEAN, Arrive(r, kind, rule, disabled)
  PROVE  RequestsOK'
<1> DEFINE loose == (kind = "create" /\ disabled) \/ Requested(rule)
           q == [Idle EXCEPT !.pc = IF kind = "create" THEN "write" ELSE "read",
                             !.kind = kind, !.rule = rule, !.disabled = disabled,
                             !.new = [body |-> r, disabled |-> disabled],
                             !.loose = loose]
<1>1. req' = [req EXCEPT ![r] = q]
  BY DEF Arrive
<1>2. [body |-> r, disabled |-> disabled] \in Definition /\ loose \in BOOLEAN
  BY DEF Definition
<1> HIDE DEF loose
<1>3. q \in Request /\ q.rule = rule /\ q.new \in Definition /\ q.kind = kind
      /\ q.pc = IF kind = "create" THEN "write" ELSE "read"
  BY <1>2 DEF Idle, Request
<1> HIDE DEF q
<1> QED
  BY <1>1, <1>3, OneRequest

\* GetStoredRule gives a request a stored definition, or ends it.
LEMMA ReadType ==
  ASSUME MemoryOK, RequestsOK, NEW r \in Requests, Read(r)
  PROVE  RequestsOK'
<1> DEFINE old == store[req[r].rule]
           q == [req[r] EXCEPT !.pc  = IF req[r].kind = "patch" THEN "sync" ELSE "write",
                               !.old = old]
<1>1. /\ req[r] \in Request /\ req[r].pc = "read" /\ req[r].rule \in Rules
      /\ req[r].new \in Definition
  BY DEF RequestsOK, Read
<1>2. CASE old = None
  BY <1>1, <1>2, GotoType DEF Read
<1>3. CASE old # None
  <2>1. old \in Definition
    BY <1>1, <1>3 DEF MemoryOK
  <2>2. req' = [req EXCEPT ![r] = q]
    BY <1>3 DEF Read
  <2> HIDE DEF old
  <2>3. q \in Request /\ q.rule \in Rules /\ q.new \in Definition /\ q.old \in Definition
    BY <1>1, <2>1 DEF Request
  <2> HIDE DEF q
  <2> QED
    BY <2>2, <2>3, OneRequest
<1> QED
  BY <1>2, <1>3

\* Choosing the operation on the task, and telling a task to stop.
LEMMA ChooseType ==
  ASSUME RequestsOK, NEW r \in Requests, Configure(r) \/ Sync(r)
  PROVE  RequestsOK'
<1>1. /\ req[r] \in Request /\ req[r].pc \in {"config", "sync"}
      /\ req[r].rule \in Rules /\ req[r].new \in Definition
      /\ req[r].kind = "patch" => req[r].old \in Definition
  BY DEF RequestsOK, Configure, Sync
<1>2. ASSUME NEW pc \in {"sync", "task"}, NEW op \in {None, "add", "edit", "delete"},
             req' = [req EXCEPT ![r].pc = pc, ![r].op = op]
      PROVE  RequestsOK'
  <2> DEFINE q == [req[r] EXCEPT !.pc = pc, !.op = op]
  <2>1. req' = [req EXCEPT ![r] = q]
    BY <1>2
  <2>2. q \in Request /\ q.rule = req[r].rule /\ q.new = req[r].new
        /\ q.old = req[r].old /\ q.kind = req[r].kind
    BY <1>1 DEF Request
  <2> HIDE DEF q
  <2> QED
    BY <1>1, <2>1, <2>2, OneRequest
<1>3. CASE Configure(r)
  <2>1. req[r].op \in {None, "add", "edit", "delete"}
    BY <1>1 DEF Request
  <2>2. \E pc \in {"sync", "task"}, op \in {None, "add", "edit", "delete"} :
          req' = [req EXCEPT ![r].pc = pc, ![r].op = op]
    BY <1>3, <2>1 DEF Configure
  <2> QED
    BY <1>2, <2>2
<1>4. CASE Sync(r)
  <2>1. CASE Goto(r, AfterTask(r))
    <3>1. req[r].pc = "sync" /\ AfterTask(r) \in {"write", "commit", "done"}
      BY <1>4 DEF Sync, AfterTask
    <3> QED
      BY <2>1, <3>1, GotoType
  <2>2. CASE ~Goto(r, AfterTask(r))
    <3>1. \E pc \in {"sync", "task"}, op \in {None, "add", "edit", "delete"} :
            req' = [req EXCEPT ![r].pc = pc, ![r].op = op]
      BY <1>4, <2>2 DEF Sync
    <3> QED
      BY <1>2, <3>1
  <2> QED
    BY <2>1, <2>2
<1> QED
  BY <1>3, <1>4

\* A request that waits in Stop names the task it stops.
LEMMA StopType ==
  ASSUME RequestsOK, NEW r \in Requests, req[r].pc = "task", NEW t \in Task,
         req' = [req EXCEPT ![r].pc = "stopping", ![r].victim = t]
  PROVE  RequestsOK'
<1> DEFINE q == [req[r] EXCEPT !.pc = "stopping", !.victim = t]
<1>1. /\ req[r] \in Request /\ req[r].rule \in Rules /\ req[r].new \in Definition
      /\ req[r].kind = "patch" => req[r].old \in Definition
  BY DEF RequestsOK
<1>2. req' = [req EXCEPT ![r] = q]
  OBVIOUS
<1>3. q \in Request /\ q.rule = req[r].rule /\ q.new = req[r].new
      /\ q.old = req[r].old /\ q.kind = req[r].kind
  BY <1>1 DEF Request
<1> HIDE DEF q
<1> QED
  BY <1>1, <1>2, <1>3, OneRequest

\* Request r goes on to where its task is done with.
LEMMA AfterType ==
  ASSUME RequestsOK, NEW r \in Requests, req[r].pc \in {"task", "stopping"},
         Goto(r, AfterTask(r))
  PROVE  RequestsOK'
<1>1. AfterTask(r) \in {"write", "commit", "done"}
  BY DEF AfterTask
<1> QED
  BY <1>1, GotoType

\* No step takes a request to a state the code does not know.
LEMMA RequestsStep ==
  ASSUME TypeOK, [Next]_vars
  PROVE  RequestsOK'
<1> USE DEF TypeOK
<1>1. CASE \E r \in Requests, kind \in Kinds, rule \in Rules, disabled \in BOOLEAN :
             Arrive(r, kind, rule, disabled)
  BY <1>1, ArriveType
<1>2. ASSUME NEW r \in Requests, Serve(r)
      PROVE  RequestsOK'
  <2>1. CASE Read(r)
    BY <2>1, ReadType
  <2>2. CASE Write(r)
    BY <2>2, GotoType DEF Write
  <2>3. CASE WriteFails(r) \/ CommitFails(r)
    BY <2>3, RestoreType, AbortLooseType DEF WriteFails, CommitFails
  <2>4. CASE Configure(r) \/ Sync(r)
    BY <2>4, ChooseType
  <2>5. CASE ConfigFails(r) \/ Commit(r) \/ PrepareFails(r)
    BY <2>5, AbortType, AbortLooseType DEF ConfigFails, Commit, PrepareFails, Enters
  <2>6. CASE AddTask(r)
    BY <2>6, AfterType, AbortType DEF AddTask, Enters
  <2>7. CASE EditBegin(r) \/ DeleteBegin(r)
    <3>1. req[r].pc = "task" /\ req[r].rule \in Rules
      BY <2>7 DEF EditBegin, DeleteBegin, Enters, RequestsOK
    <3>2. CASE tasks[req[r].rule] = None
      BY <2>7, <3>1, <3>2, AfterType DEF EditBegin, DeleteBegin
    <3>3. CASE tasks[req[r].rule] # None
      <4>1. tasks[req[r].rule] \in Task
        BY <3>1, <3>3 DEF MemoryOK
      <4>2. req' = [req EXCEPT ![r].pc = "stopping", ![r].victim = tasks[req[r].rule]]
        BY <2>7, <3>3 DEF EditBegin, DeleteBegin
      <4> QED
        BY <3>1, <4>1, <4>2, StopType
    <3> QED
      BY <3>2, <3>3
  <2>8. CASE EditFinish(r) \/ DeleteFinish(r)
    BY <2>8, AfterType DEF EditFinish, DeleteFinish
  <2> QED
    BY <1>2, <2>1, <2>2, <2>3, <2>4, <2>5, <2>6, <2>7, <2>8 DEF Serve
<1>3. CASE \/ \E rule \in Rules : \E t \in running[rule] :
                EvalBegin(rule, t) \/ EvalEnd(rule, t) \/ Terminate(rule, t)
           \/ UNCHANGED vars
  BY <1>3 DEF EvalBegin, EvalEnd, Terminate, vars, RequestsOK
<1>4. CASE Restart
  <2> DEFINE q(r) == [req[r] EXCEPT !.pc = IF Busy(r) THEN "done" ELSE @, !.loose = FALSE]
  <2>1. req' = [r \in Requests |-> q(r)]
    BY <1>4 DEF Restart
  <2>2. ASSUME NEW r \in Requests
        PROVE  /\ q(r) \in Request /\ q(r).pc \in {"idle", "done"}
               /\ q(r).pc # "idle" => q(r).rule \in Rules /\ q(r).new \in Definition
    <3>1. req[r] \in Request
      BY DEF RequestsOK
    <3>2. CASE Busy(r)
      <4>1. req[r].rule \in Rules /\ req[r].new \in Definition
        BY <3>2 DEF Busy, RequestsOK
      <4> QED
        BY <3>1, <3>2, <4>1 DEF Request
    <3>3. CASE ~Busy(r)
      <4>1. req[r].pc \in {"idle", "done"}
            /\ (req[r].pc # "idle" => req[r].rule \in Rules /\ req[r].new \in Definition)
        BY <3>3 DEF Busy, RequestsOK
      <4> QED
        BY <3>1, <3>3, <4>1 DEF Request
    <3> QED
      BY <3>2, <3>3
  <2> HIDE DEF q
  <2> QED
    BY <2>1, <2>2 DEF RequestsOK
<1> QED
  BY <1>1, <1>2, <1>3, <1>4 DEF Next

\* What a step that only moves request r has to show of the locks.
LEMMA OneLock ==
  ASSUME LocksOK, NEW r \in Requests,
         \A o \in Requests \ {r} : req'[o] = req[o],
         req'[r].rule = req[r].rule, req'[r].kind = req[r].kind,
         lock' \in [Rules -> Requests \cup {None}],
         \A rule \in Rules : lock'[rule] \in {lock[rule], None, r},
         \A rule \in Rules : lock'[rule] = r =>
           /\ req[r].rule = rule
           /\ IF req[r].kind = "patch" THEN req'[r].pc = "commit"
              ELSE req'[r].pc \in {"config", "sync", "task", "stopping", "commit"},
         mtx' \in Requests \cup {None},
         req'[r].pc = "stopping" <=> mtx' = r,
         \A o \in Requests \ {r} : mtx' = o <=> mtx = o
  PROVE  LocksOK'
<1>1. \A o \in Requests : req'[o].pc = "stopping" <=> mtx' = o
  BY DEF LocksOK
<1>2. ASSUME NEW rule \in Rules, lock'[rule] # None
      PROVE  LET o == lock'[rule]
             IN  /\ req'[o].rule = rule
                 /\ IF req'[o].kind = "patch" THEN req'[o].pc = "commit"
                    ELSE req'[o].pc \in {"config", "sync", "task", "stopping", "commit"}
  <2>1. CASE lock'[rule] = r
    BY <2>1
  <2>2. CASE lock'[rule] # r
    <3>1. lock'[rule] = lock[rule] /\ lock[rule] \in Requests \ {r}
      BY <1>2, <2>2
    <3> QED
      BY <1>2, <3>1 DEF LocksOK
  <2> QED
    BY <2>1, <2>2
<1> QED
  BY <1>1, <1>2 DEF LocksOK

\* The fields of a request that moves on to pc.
LEMMA GotoFields ==
  ASSUME RequestsOK, NEW r \in Requests, NEW pc, Goto(r, pc)
  PROVE  /\ req'[r].pc = pc /\ req'[r].rule = req[r].rule /\ req'[r].kind = req[r].kind
         /\ \A o \in Requests \ {r} : req'[o] = req[o]
<1>1. req[r] \in Request /\ req' = [req EXCEPT ![r] = [req[r] EXCEPT !.pc = pc]]
  BY DEF RequestsOK, Goto
<1>2. req'[r] = [req[r] EXCEPT !.pc = pc] /\ \A o \in Requests \ {r} : req'[o] = req[o]
  BY <1>1 DEF RequestsOK
<1> QED
  BY <1>1, <1>2 DEF Request

\* A request may end: its lock is released.  It holds m.mtx in no state from
\* which it does.
LEMMA AbortLocks ==
  ASSUME RequestsOK, LocksOK, NEW r \in Requests, Abort(r), req[r].pc # "stopping",
         req[r].rule \in Rules, mtx' = mtx
  PROVE  LocksOK'
<1>1. /\ req'[r].pc = "done" /\ req'[r].rule = req[r].rule /\ req'[r].kind = req[r].kind
      /\ \A o \in Requests \ {r} : req'[o] = req[o]
  BY GotoFields DEF Abort
<1>2. /\ lock' \in [Rules -> Requests \cup {None}]
      /\ \A rule \in Rules : lock'[rule] \in {lock[rule], None}
      /\ lock'[req[r].rule] # r
  BY ManagerAssumption DEF Abort, LocksOK
<1>3. \A rule \in Rules : lock'[rule] # r
  BY <1>2, ManagerAssumption DEF Abort, LocksOK
<1>4. mtx # r
  BY DEF LocksOK
<1> QED
  BY <1>1, <1>2, <1>3, <1>4, OneLock DEF LocksOK

\* A request that goes on with its locks as they are.
LEMMA GotoLocks ==
  ASSUME RequestsOK, LocksOK, NEW r \in Requests, NEW pc, Goto(r, pc),
         UNCHANGED lock, pc # "stopping",
         mtx' = IF req[r].pc = "stopping" THEN None ELSE mtx,
         \A rule \in Rules : lock[rule] = r =>
           IF req[r].kind = "patch" THEN pc = "commit"
           ELSE pc \in {"config", "sync", "task", "commit"}
  PROVE  LocksOK'
<1>1. /\ req'[r].pc = pc /\ req'[r].rule = req[r].rule /\ req'[r].kind = req[r].kind
      /\ \A o \in Requests \ {r} : req'[o] = req[o]
  BY GotoFields
<1>2. /\ mtx' \in Requests \cup {None} /\ mtx' # r
      /\ \A o \in Requests \ {r} : mtx' = o <=> mtx = o
  BY ManagerAssumption DEF LocksOK
<1>3. \A rule \in Rules : lock'[rule] = r =>
        /\ req[r].rule = rule
        /\ IF req[r].kind = "patch" THEN req'[r].pc = "commit"
           ELSE req'[r].pc \in {"config", "sync", "task", "stopping", "commit"}
  BY <1>1, ManagerAssumption DEF LocksOK
<1> QED
  BY <1>1, <1>2, <1>3, OneLock DEF LocksOK

\* AfterTask leads a request that holds a row lock to the commit.
LEMMA AfterLocks ==
  ASSUME RequestsOK, LocksOK, NEW r \in Requests, Goto(r, AfterTask(r)), UNCHANGED lock,
         req[r].pc \in {"sync", "task", "stopping"},
         mtx' = IF req[r].pc = "stopping" THEN None ELSE mtx
  PROVE  LocksOK'
<1>1. AfterTask(r) \in {"commit", "done", "write"}
  BY DEF AfterTask
<1>2. \A rule \in Rules : lock[rule] = r => req[r].kind # "patch"
  BY ManagerAssumption DEF LocksOK
<1>3. req[r].kind # "patch" => AfterTask(r) = "commit"
  BY DEF AfterTask
<1> QED
  BY <1>1, <1>2, <1>3, GotoLocks

\* A request that holds no row lock moves on to pc, whatever else it changes.
LEMMA UnlockedLocks ==
  ASSUME LocksOK, NEW r \in Requests, NEW q, req \in [Requests -> Request],
         req' = [req EXCEPT ![r] = q],
         \A rule \in Rules : lock'[rule] \in {lock[rule], None} /\ lock'[rule] # r,
         lock' \in [Rules -> Requests \cup {None}],
         mtx' = mtx, req[r].pc # "stopping", q.pc # "stopping"
  PROVE  LocksOK'
<1>1. req'[r] = q /\ \A o \in Requests \ {r} : req'[o] = req[o]
  OBVIOUS
<1>2. mtx # r
  BY DEF LocksOK
<1>3. \A o \in Requests : req'[o].pc = "stopping" <=> mtx' = o
  BY <1>1, <1>2 DEF LocksOK
<1>4. \A rule \in Rules : lock'[rule] # None =>
        lock'[rule] = lock[rule] /\ lock[rule] \in Requests \ {r}
  OBVIOUS
<1> QED
  BY <1>1, <1>3, <1>4 DEF LocksOK

\* A failed patch releases its row and starts to restore the task.
LEMMA RestoreLocks ==
  ASSUME RequestsOK, LocksOK, NEW r \in Requests, RestoreOrAbort(r), mtx' = mtx,
         req[r].pc \in {"write", "commit"}
  PROVE  LocksOK'
<1>1. req[r].rule \in Rules /\ req[r].pc # "stopping"
  BY DEF RequestsOK
<1>2. CASE req[r].kind # "patch"
  BY <1>1, <1>2, AbortLocks DEF RestoreOrAbort
<1>3. CASE req[r].kind = "patch"
  <2>1. req \in [Requests -> Request]
    BY DEF RequestsOK
  <2>2. \E q : req' = [req EXCEPT ![r] = q] /\ q.pc = "sync"
    BY <1>3, RestoreStep
  <2>3. lock' = [lock EXCEPT ![req[r].rule] = IF @ = r THEN None ELSE @]
    BY <1>3 DEF RestoreOrAbort
  <2>4. /\ lock' \in [Rules -> Requests \cup {None}]
        /\ \A rule \in Rules : lock'[rule] \in {lock[rule], None} /\ lock'[rule] # r
    BY <1>1, <2>3, ManagerAssumption DEF LocksOK
  <2> QED
    BY <1>1, <2>1, <2>2, <2>4, UnlockedLocks
<1> QED
  BY <1>2, <1>3

\* So does a request that ends with the rule's task changed.
LEMMA AbortLooseLocks ==
  ASSUME RequestsOK, LocksOK, NEW r \in Requests, AbortLoose(r), mtx' = mtx,
         req[r].pc \in {"task", "commit"}
  PROVE  LocksOK'
<1> DEFINE q == [req[r] EXCEPT !.pc = "done", !.loose = TRUE]
<1>1. req[r] \in Request /\ req \in [Requests -> Request] /\ req[r].rule \in Rules
  BY DEF RequestsOK
<1>2. req' = [req EXCEPT ![r] = q] /\ q.pc = "done"
  BY <1>1 DEF AbortLoose, Request
<1>3. /\ lock' \in [Rules -> Requests \cup {None}]
      /\ \A rule \in Rules : lock'[rule] \in {lock[rule], None} /\ lock'[rule] # r
  BY <1>1, ManagerAssumption DEF AbortLoose, LocksOK
<1> HIDE DEF q
<1> QED
  BY <1>1, <1>2, <1>3, UnlockedLocks

\* No step takes a lock from its holder or leaves one with nobody.
LEMMA LocksStep ==
  ASSUME TypeOK, [Next]_vars
  PROVE  LocksOK'
<1> USE DEF TypeOK
<1>0. req \in [Requests -> Request] /\ lock \in [Rules -> Requests \cup {None}]
  BY DEF RequestsOK, LocksOK
<1>1. ASSUME NEW r \in Requests, NEW kind \in Kinds, NEW rule \in Rules,
             NEW disabled \in BOOLEAN, Arrive(r, kind, rule, disabled)
      PROVE  LocksOK'
  <2> DEFINE loose == (kind = "create" /\ disabled) \/ Requested(rule)
             q == [Idle EXCEPT !.pc = IF kind = "create" THEN "write" ELSE "read",
                               !.kind = kind, !.rule = rule, !.disabled = disabled,
                               !.new = [body |-> r, disabled |-> disabled],
                               !.loose = loose]
  <2>1. req' = [req EXCEPT ![r] = q] /\ q.pc # "stopping"
    BY <1>1 DEF Arrive, Idle
  <2>2. UNCHANGED <<lock, mtx>> /\ req[r].pc = "idle"
    BY <1>1 DEF Arrive, memory
  <2>3. \A o \in Rules : lock[o] # r
    BY <2>2, ManagerAssumption DEF LocksOK
  <2> HIDE DEF q
  <2> QED
    BY <1>0, <2>1, <2>2, <2>3, UnlockedLocks
<1>2. ASSUME NEW r \in Requests, Serve(r)
      PROVE  LocksOK'
  <2>1. CASE Read(r)
    <3>1. /\ req[r].pc = "read" /\ UNCHANGED <<lock, mtx>>
          /\ \A o \in Rules : lock[o] # r
      BY <2>1, ManagerAssumption DEF Read, memory, LocksOK
    <3>2. CASE Goto(r, "done")
      BY <3>1, <3>2, GotoLocks
    <3>3. CASE ~Goto(r, "done")
      <4> DEFINE q == [req[r] EXCEPT
                         !.pc  = IF req[r].kind = "patch" THEN "sync" ELSE "write",
                         !.old = store[req[r].rule]]
      <4>1. req' = [req EXCEPT ![r] = q]
        BY <2>1, <3>3 DEF Read
      <4>2. q.pc # "stopping"
        BY <1>0 DEF Request
      <4> HIDE DEF q
      <4> QED
        BY <1>0, <3>1, <4>1, <4>2, UnlockedLocks
    <3> QED
      BY <3>2, <3>3
  <2>2. CASE Write(r)
    <3> DEFINE pc == IF req[r].kind = "patch" THEN "commit" ELSE "config"
    <3>1. /\ Goto(r, pc) /\ mtx' = mtx /\ req[r].pc = "write" /\ req[r].rule \in Rules
          /\ lock' = [lock EXCEPT ![req[r].rule] = r] /\ lock[req[r].rule] = None
      BY <2>2 DEF Write, memory, RequestsOK
    <3>2. /\ req'[r].pc = pc /\ req'[r].rule = req[r].rule /\ req'[r].kind = req[r].kind
          /\ \A o \in Requests \ {r} : req'[o] = req[o]
      BY <3>1, GotoFields
    <3>3. /\ lock' \in [Rules -> Requests \cup {None}]
          /\ \A rule \in Rules : lock'[rule] \in {lock[rule], None, r}
      BY <1>0, <3>1
    <3>4. \A rule \in Rules : lock'[rule] = r => rule = req[r].rule
      BY <1>0, <3>1, ManagerAssumption DEF LocksOK
    <3>5. mtx # r /\ mtx \in Requests \cup {None}
      BY <3>1 DEF LocksOK
    <3> QED
      BY <3>1, <3>2, <3>3, <3>4, <3>5, OneLock
  <2>3. CASE WriteFails(r) \/ CommitFails(r)
    BY <2>3, RestoreLocks, AbortLooseLocks DEF WriteFails, CommitFails, memory
  <2>4. CASE ConfigFails(r) \/ Commit(r) \/ PrepareFails(r)
    <3>1. /\ req[r].pc \in {"config", "commit", "task"} /\ mtx' = mtx
          /\ Abort(r) \/ (AbortLoose(r) /\ req[r].pc = "task")
      BY <2>4 DEF ConfigFails, Commit, PrepareFails, Enters, memory
    <3> QED
      BY <3>1, AbortLocks, AbortLooseLocks DEF RequestsOK
  <2>5. CASE Configure(r) \/ Sync(r)
    <3>1. UNCHANGED <<lock, mtx>> /\ req[r].pc \in {"config", "sync"}
      BY <2>5 DEF Configure, Sync, memory
    <3>2. CASE Goto(r, AfterTask(r)) /\ Sync(r)
      BY <3>1, <3>2, AfterLocks DEF Sync
    <3>3. ASSUME NEW pc \in {"sync", "task"}, NEW op,
                 req' = [req EXCEPT ![r].pc = pc, ![r].op = op]
          PROVE  LocksOK'
      <4>1. /\ req'[r].pc = pc /\ req'[r].rule = req[r].rule /\ req'[r].kind = req[r].kind
            /\ \A o \in Requests \ {r} : req'[o] = req[o]
        BY <1>0, <3>3 DEF Request
      <4>2. mtx # r /\ mtx \in Requests \cup {None}
        BY <3>1 DEF LocksOK
      <4>3. \A rule \in Rules : lock[rule] = r =>
              req[r].rule = rule /\ req[r].kind # "patch"
        BY <3>1, ManagerAssumption DEF LocksOK
      <4> QED
        BY <1>0, <3>1, <4>1, <4>2, <4>3, OneLock
    <3>4. CASE ~(Goto(r, AfterTask(r)) /\ Sync(r))
      <4>1. \E pc \in {"sync", "task"} : \E op :
              req' = [req EXCEPT ![r].pc = pc, ![r].op = op]
        BY <2>5, <3>4 DEF Configure, Sync
      <4> QED
        BY <3>3, <4>1
    <3> QED
      BY <3>2, <3>4
  <2>6. CASE AddTask(r)
    <3>1. req[r].pc = "task" /\ mtx' = mtx /\ req[r].rule \in Rules
      BY <2>6 DEF AddTask, Enters, RequestsOK
    <3>2. CASE Abort(r)
      BY <3>1, <3>2, AbortLocks
    <3>3. CASE ~Abort(r)
      BY <2>6, <3>1, <3>3, AfterLocks DEF AddTask
    <3> QED
      BY <3>2, <3>3
  <2>7. CASE EditBegin(r) \/ DeleteBegin(r)
    <3>1. req[r].pc = "task" /\ mtx = None /\ UNCHANGED lock
      BY <2>7 DEF EditBegin, DeleteBegin, Enters
    <3>2. CASE tasks[req[r].rule] = None
      BY <2>7, <3>1, <3>2, AfterLocks DEF EditBegin, DeleteBegin
    <3>3. CASE tasks[req[r].rule] # None
      <4>1. /\ req' = [req EXCEPT ![r].pc = "stopping", ![r].victim = tasks[req[r].rule]]
            /\ mtx' = r
        BY <2>7, <3>3 DEF EditBegin, DeleteBegin
      <4>2. /\ req'[r].pc = "stopping" /\ req'[r].rule = req[r].rule
            /\ req'[r].kind = req[r].kind
            /\ \A o \in Requests \ {r} : req'[o] = req[o]
        BY <1>0, <4>1 DEF Request
      <4>3. \A rule \in Rules : lock[rule] = r =>
              req[r].rule = rule /\ req[r].kind # "patch"
        BY <3>1, ManagerAssumption DEF LocksOK
      <4> QED
        BY <1>0, <3>1, <4>1, <4>2, <4>3, OneLock, ManagerAssumption
    <3> QED
      BY <3>2, <3>3
  <2>8. CASE EditFinish(r) \/ DeleteFinish(r)
    BY <2>8, AfterLocks DEF EditFinish, DeleteFinish
  <2> QED
    BY <1>2, <2>1, <2>2, <2>3, <2>4, <2>5, <2>6, <2>7, <2>8 DEF Serve
<1>3. CASE \/ \E rule \in Rules : \E t \in running[rule] :
                EvalBegin(rule, t) \/ EvalEnd(rule, t) \/ Terminate(rule, t)
           \/ UNCHANGED vars
  BY <1>3 DEF EvalBegin, EvalEnd, Terminate, vars, memory, LocksOK
<1>4. CASE Restart
  <2>1. \A r \in Requests : req'[r].pc \in {"idle", "done"}
    BY <1>0, <1>4 DEF Restart, Busy, Request
  <2>2. mtx' = None /\ lock' = [rule \in Rules |-> None]
    BY <1>4 DEF Restart
  <2> QED
    BY <2>1, <2>2, ManagerAssumption DEF LocksOK
<1> QED
  BY <1>1, <1>2, <1>3, <1>4 DEF Next

\* The manager's memory: every task in it is one that a request or a start
\* built, and an iteration is always one of a goroutine that has not ended.
LEMMA MemoryStep ==
  ASSUME TypeOK, [Next]_vars
  PROVE  MemoryOK'
<1> USE DEF TypeOK, starts
<1>1. CASE \/ \E r \in Requests, kind \in Kinds, rule \in Rules, disabled \in BOOLEAN :
                Arrive(r, kind, rule, disabled)
           \/ UNCHANGED vars
  BY <1>1 DEF Arrive, vars, memory, MemoryOK
<1>2. ASSUME NEW r \in Requests, Serve(r)
      PROVE  MemoryOK'
  <2>1. CASE \/ Read(r) \/ Write(r) \/ WriteFails(r) \/ Configure(r) \/ ConfigFails(r)
             \/ CommitFails(r) \/ Sync(r) \/ PrepareFails(r) \/ DeleteBegin(r)
    <3>1. UNCHANGED <<store, tasks, rules, running, evaluating, starts>>
      BY <2>1 DEF Read, Write, WriteFails, Configure, ConfigFails, CommitFails, Sync,
                  PrepareFails, DeleteBegin, memory
    <3> QED
      BY <3>1 DEF MemoryOK
  <2>2. CASE Commit(r)
    <3>1. req[r].new \in Definition /\ UNCHANGED <<tasks, rules, running, evaluating, restarts>>
      BY <2>2 DEF Commit, RequestsOK, memory
    <3>2. store' \in [Rules -> Definition \cup {None}] /\ unloaded' \subseteq Rules
      BY <2>2, <3>1 DEF Commit, MemoryOK
    <3> QED
      BY <3>1, <3>2 DEF MemoryOK
  <2>3. CASE AddTask(r) \/ EditBegin(r) \/ EditFinish(r) \/ DeleteFinish(r)
    <3>1. /\ req[r].pc \in {"task", "stopping"} /\ NewTask(r) \in Task
          /\ UNCHANGED <<store, evaluating, starts>>
      BY <2>3, NewTaskType DEF AddTask, EditBegin, EditFinish, DeleteFinish, Enters
    <3>2. /\ tasks' \in [Rules -> Task \cup {None}]
          /\ rules' \in [Rules -> Task \cup {None}]
      BY <2>3, <3>1 DEF AddTask, EditBegin, EditFinish, DeleteFinish, MemoryOK
    <3>3. /\ running' \in [Rules -> SUBSET Task]
          /\ \A rule \in Rules : running[rule] \subseteq running'[rule]
      BY <2>3, <3>1 DEF AddTask, EditBegin, EditFinish, DeleteFinish, MemoryOK
    <3> QED
      BY <3>1, <3>2, <3>3 DEF MemoryOK
  <2> QED
    BY <1>2, <2>1, <2>2, <2>3 DEF Serve
<1>3. ASSUME NEW rule \in Rules, NEW t \in running[rule],
             EvalBegin(rule, t) \/ EvalEnd(rule, t) \/ Terminate(rule, t)
      PROVE  MemoryOK'
  <2>1. UNCHANGED <<store, tasks, rules, starts>> /\ t \in Task
    BY <1>3 DEF EvalBegin, EvalEnd, Terminate, MemoryOK
  <2>2. CASE EvalBegin(rule, t)
    BY <2>1, <2>2 DEF EvalBegin, MemoryOK
  <2>3. CASE EvalEnd(rule, t)
    BY <2>1, <2>3 DEF EvalEnd, MemoryOK
  <2>4. CASE Terminate(rule, t)
    BY <2>1, <2>4 DEF Terminate, MemoryOK
  <2> QED
    BY <1>3, <2>2, <2>3, <2>4
<1>4. CASE Restart
  <2>1. restarts' \in 0..MaxRestarts
    <3>1. restarts' = restarts + 1 /\ restarts < MaxRestarts
      BY <1>4 DEF Restart
    <3>2. restarts \in 0..MaxRestarts
      BY DEF MemoryOK
    <3> QED
      BY <3>1, <3>2, ManagerAssumption
  <2>2. tasks' \in [Rules -> Task \cup {None}]
    <3>1. tasks' = Boot(store, unloaded', restarts')
      BY <1>4 DEF Restart
    <3>2. store \in [Rules -> Definition \cup {None}]
      BY DEF MemoryOK
    <3> QED
      BY <2>1, <3>1, <3>2, BootType
  <2>3. /\ rules' = tasks' /\ UNCHANGED store
        /\ running' = [rule \in Rules |-> {tasks'[rule]} \ {None}]
        /\ evaluating' = [rule \in Rules |-> {}]
    BY <1>4 DEF Restart
  <2>4. /\ running' \in [Rules -> SUBSET Task]
        /\ evaluating' \in [Rules -> SUBSET Task]
        /\ \A rule \in Rules : evaluating'[rule] \subseteq running'[rule]
    BY <2>2, <2>3
  <2>5. /\ store' \in [Rules -> Definition \cup {None}]
        /\ rules' \in [Rules -> Task \cup {None}] /\ unloaded' \subseteq Rules
    BY <1>4, <2>2, <2>3 DEF MemoryOK, Restart, Enabled
  <2> QED
    BY <2>1, <2>2, <2>4, <2>5 DEF MemoryOK
<1> QED
  BY <1>1, <1>2, <1>3, <1>4 DEF Next

\* Type correctness: the requests' progress, the manager's maps and the two
\* locks are always in states the code knows; m.mtx is held across steps by
\* exactly the request that waits for a task to stop, and a row is locked by
\* a request whose transaction on it is open.
THEOREM TypeCorrect == Spec => []TypeOK
<1>1. Init => TypeOK
  BY TypeInit
<1>2. TypeOK /\ [Next]_vars => TypeOK'
  BY MemoryStep, RequestsStep, LocksStep DEF TypeOK
<1> QED
  BY <1>1, <1>2, PTL DEF Spec

-----------------------------------------------------------------------------
(* The runners of a rule. *)

\* Somebody stops the rule's task
Held(rule) == mtx # None /\ req[mtx].rule = rule

\* While a task is being stopped nobody else touches the rule's task: an edit
\* has taken it out of m.tasks, a delete has left it there.  Otherwise the
\* task in m.tasks, if there is one, is what runs.
RunnersOf(rule) ==
  IF Held(rule)
  THEN /\ req[mtx].op \in {"edit", "delete"}
       /\ req[mtx].victim # None
       /\ running[rule] \subseteq {req[mtx].victim}
       /\ tasks[rule] = IF req[mtx].op = "edit" THEN None ELSE req[mtx].victim
  ELSE running[rule] = {tasks[rule]} \ {None}

Runners == \A rule \in Rules : RunnersOf(rule)

\* A step that starts and stops nothing, and leaves the request that is
\* stopping a task where it is.
LEMMA SameRunners ==
  ASSUME Runners, UNCHANGED <<tasks, running, mtx>>,
         mtx # None => UNCHANGED <<req[mtx].rule, req[mtx].op, req[mtx].victim>>
  PROVE  Runners'
  BY DEF Runners, RunnersOf, Held

\* Starting a task for a rule that has none, with m.mtx free or given back.
LEMMA TaskStarts ==
  ASSUME MemoryOK, Runners, NEW rule \in Rules, NEW t \in Task,
         \A o \in Rules \ {rule} : ~Held(o),
         running[rule] = {},
         tasks' = [tasks EXCEPT ![rule] = t],
         running' = [running EXCEPT ![rule] = @ \cup {t}],
         mtx' = None
  PROVE  Runners'
<1>1. t # None
  BY NoneAssumption
<1>2. running'[rule] = {t} /\ tasks'[rule] = t
  BY DEF MemoryOK
<1>3. \A o \in Rules \ {rule} : running'[o] = running[o] /\ tasks'[o] = tasks[o]
  BY DEF MemoryOK
<1>4. RunnersOf(rule)'
  BY <1>1, <1>2 DEF RunnersOf, Held
<1>5. \A o \in Rules \ {rule} : RunnersOf(o)'
  BY <1>3 DEF Runners, RunnersOf, Held
<1> QED
  BY <1>4, <1>5 DEF Runners

\* Telling the rule's task to stop, to edit or to delete it.
LEMMA TaskIsStopped ==
  ASSUME TypeOK, Runners, NEW r \in Requests, mtx = None, mtx' = r,
         NEW rule \in Rules, req[r].rule = rule, tasks[rule] # None,
         req[r].op \in {"edit", "delete"},
         req' = [req EXCEPT ![r].pc = "stopping", ![r].victim = tasks[rule]],
         tasks' = IF req[r].op = "edit" THEN [tasks EXCEPT ![rule] = None] ELSE tasks,
         running' = running
  PROVE  Runners'
<1>1. /\ req'[r].rule = rule /\ req'[r].op = req[r].op /\ req'[r].victim = tasks[rule]
  BY DEF TypeOK, RequestsOK, Request
<1>2. r # None
  BY ManagerAssumption
<1>3. running[rule] = {tasks[rule]}
  BY DEF Runners, RunnersOf, Held
<1>4. tasks'[rule] = IF req[r].op = "edit" THEN None ELSE tasks[rule]
  BY DEF TypeOK, MemoryOK
<1>5. RunnersOf(rule)'
  BY <1>1, <1>2, <1>3, <1>4 DEF RunnersOf, Held
<1>6. ASSUME NEW o \in Rules \ {rule}
      PROVE  RunnersOf(o)'
  <2>1. tasks'[o] = tasks[o]
    BY DEF TypeOK, MemoryOK
  <2>2. running[o] = {tasks[o]} \ {None}
    BY DEF Runners, RunnersOf, Held
  <2> QED
    BY <1>1, <2>1, <2>2 DEF RunnersOf, Held
<1> QED
  BY <1>5, <1>6 DEF Runners

\* The goroutine of a task that is being stopped ends.
LEMMA RunnerEnds ==
  ASSUME TypeOK, Runners, NEW rule \in Rules, NEW t \in running[rule], Stopping(rule, t),
         running' = [running EXCEPT ![rule] = @ \ {t}],
         UNCHANGED <<tasks, mtx, req>>
  PROVE  Runners'
<1>1. PICK r \in Requests : req[r].pc = "stopping" /\ req[r].rule = rule
  BY DEF Stopping
<1>2. mtx = r /\ Held(rule)
  BY <1>1, ManagerAssumption DEF TypeOK, LocksOK, Held
<1>3. running'[rule] \subseteq running[rule]
      /\ \A o \in Rules \ {rule} : running'[o] = running[o]
  BY DEF TypeOK, MemoryOK
<1>4. RunnersOf(rule)'
  BY <1>2, <1>3 DEF Runners, RunnersOf, Held
<1>5. \A o \in Rules \ {rule} : RunnersOf(o)'
  BY <1>3 DEF Runners, RunnersOf, Held
<1> QED
  BY <1>4, <1>5 DEF Runners

\* Serving a request leaves the others where they are.
LEMMA ServeOthers ==
  ASSUME RequestsOK, NEW r \in Requests, Serve(r)
  PROVE  \A o \in Requests \ {r} : req'[o] = req[o]
<1> USE DEF RequestsOK, Goto, Abort, AbortLoose, RestoreOrAbort
<1>1. CASE Read(r) \/ Write(r) \/ WriteFails(r) \/ Configure(r) \/ ConfigFails(r)
  BY <1>1 DEF Read, Write, WriteFails, Configure, ConfigFails
<1>2. CASE Commit(r) \/ CommitFails(r) \/ Sync(r) \/ PrepareFails(r) \/ AddTask(r)
  BY <1>2 DEF Commit, CommitFails, Sync, PrepareFails, AddTask
<1>3. CASE EditBegin(r) \/ EditFinish(r) \/ DeleteBegin(r) \/ DeleteFinish(r)
  BY <1>3 DEF EditBegin, EditFinish, DeleteBegin, DeleteFinish
<1> QED
  BY <1>1, <1>2, <1>3 DEF Serve

\* initiate starts the goroutine of every task it puts in the map.
LEMMA RunnersInit == Init => Runners
  BY DEF Init, Runners, RunnersOf, Held

\* No step starts a second goroutine, or loses one.
LEMMA RunnersStep ==
  ASSUME TypeOK, Runners, [Next]_vars
  PROVE  Runners'
<1> USE DEF TypeOK
<1>1. CASE \/ \E r \in Requests, kind \in Kinds, rule \in Rules, disabled \in BOOLEAN :
                Arrive(r, kind, rule, disabled)
           \/ UNCHANGED vars
  <2>1. CASE UNCHANGED vars
    BY <2>1, SameRunners DEF vars, memory
  <2>2. ASSUME NEW r \in Requests, NEW kind \in Kinds, NEW rule \in Rules,
               NEW disabled \in BOOLEAN, Arrive(r, kind, rule, disabled)
        PROVE  Runners'
    <3>1. UNCHANGED <<tasks, running, mtx>> /\ req[r].pc = "idle"
      BY <2>2 DEF Arrive, memory
    <3>2. mtx # r
      BY <3>1 DEF LocksOK
    <3>3. \A o \in Requests \ {r} : req'[o] = req[o]
      BY <2>2 DEF Arrive, RequestsOK
    <3>4. mtx # None => req'[mtx] = req[mtx]
      BY <3>2, <3>3 DEF LocksOK
    <3> QED
      BY <3>1, <3>4, SameRunners
  <2> QED
    BY <1>1, <2>1, <2>2
<1>2. ASSUME NEW r \in Requests, Serve(r)
      PROVE  Runners'
  <2>1. \A o \in Requests \ {r} : req'[o] = req[o]
    BY <1>2, ServeOthers
  <2>2. ASSUME UNCHANGED <<tasks, running, mtx>>, req[r].pc # "stopping"
        PROVE  Runners'
    <3>1. mtx # None => req'[mtx] = req[mtx]
      BY <2>1, <2>2 DEF LocksOK
    <3> QED
      BY <2>2, <3>1, SameRunners
  <2>3. req[r].pc # "idle" => req[r].rule \in Rules /\ NewTask(r) \in Task
    BY NewTaskType DEF RequestsOK
  <2>4. CASE \/ Read(r) \/ Write(r) \/ WriteFails(r) \/ Configure(r) \/ ConfigFails(r)
             \/ Commit(r) \/ CommitFails(r) \/ Sync(r) \/ PrepareFails(r)
    BY <2>2, <2>4 DEF Read, Write, WriteFails, Configure, ConfigFails, Commit,
                      CommitFails, Sync, PrepareFails, Enters, memory
  <2>5. CASE AddTask(r) \/ EditBegin(r) \/ DeleteBegin(r)
    <3>1. /\ req[r].pc = "task" /\ mtx = None /\ req[r].rule \in Rules
          /\ NewTask(r) \in Task /\ req[r].op \in {"add", "edit", "delete"}
      BY <2>3, <2>5 DEF AddTask, EditBegin, DeleteBegin, Enters
    <3>2. \A o \in Rules : ~Held(o) /\ running[o] = {tasks[o]} \ {None}
      BY <3>1 DEF Held, Runners, RunnersOf
    <3>3. CASE tasks[req[r].rule] = None
      <4>1. running[req[r].rule] = {}
        BY <3>1, <3>2, <3>3
      <4>2. CASE DeleteBegin(r)
        BY <2>2, <3>1, <3>3, <4>2 DEF DeleteBegin
      <4>3. CASE AddTask(r) \/ EditBegin(r)
        <5>1. /\ tasks' = [tasks EXCEPT ![req[r].rule] = NewTask(r)]
              /\ running' = [running EXCEPT ![req[r].rule] = @ \cup {NewTask(r)}]
              /\ mtx' = None
          BY <3>1, <3>3, <4>3 DEF AddTask, EditBegin
        <5> QED
          BY <3>1, <3>2, <4>1, <5>1, TaskStarts
      <4> QED
        BY <2>5, <4>2, <4>3
    <3>4. CASE tasks[req[r].rule] # None
      <4>1. CASE AddTask(r)
        BY <2>2, <3>1, <3>4, <4>1 DEF AddTask
      <4>2. CASE EditBegin(r) \/ DeleteBegin(r)
        <5>1. /\ mtx' = r /\ running' = running
              /\ req[r].op \in {"edit", "delete"}
              /\ req' = [req EXCEPT ![r].pc = "stopping",
                                    ![r].victim = tasks[req[r].rule]]
              /\ tasks' = IF req[r].op = "edit"
                          THEN [tasks EXCEPT ![req[r].rule] = None] ELSE tasks
          BY <3>4, <4>2 DEF EditBegin, DeleteBegin, Enters
        <5> QED
          BY <3>1, <3>4, <5>1, TaskIsStopped
      <4> QED
        BY <2>5, <4>1, <4>2
    <3> QED
      BY <3>3, <3>4
  <2>6. CASE EditFinish(r) \/ DeleteFinish(r)
    <3>1. /\ req[r].pc = "stopping" /\ req[r].rule \in Rules /\ NewTask(r) \in Task
          /\ req[r].victim \notin running[req[r].rule] /\ mtx' = None
      BY <2>3, <2>6 DEF EditFinish, DeleteFinish
    <3>2. mtx = r /\ Held(req[r].rule) /\ \A o \in Rules \ {req[r].rule} : ~Held(o)
      BY <3>1, ManagerAssumption DEF LocksOK, Held
    <3>3. running[req[r].rule] = {}
      BY <3>1, <3>2 DEF Runners, RunnersOf
    <3>4. CASE EditFinish(r)
      <4>1. /\ tasks' = [tasks EXCEPT ![req[r].rule] = NewTask(r)]
            /\ running' = [running EXCEPT ![req[r].rule] = @ \cup {NewTask(r)}]
        BY <3>4 DEF EditFinish
      <4> QED
        BY <3>1, <3>2, <3>3, <4>1, TaskStarts
    <3>5. CASE DeleteFinish(r)
      <4>1. /\ running' = running /\ tasks'[req[r].rule] = None
            /\ \A o \in Rules \ {req[r].rule} : tasks'[o] = tasks[o]
        BY <3>1, <3>5 DEF DeleteFinish, MemoryOK
      <4> QED
        BY <3>1, <3>2, <3>3, <4>1 DEF Runners, RunnersOf, Held
    <3> QED
      BY <2>6, <3>4, <3>5
  <2> QED
    BY <1>2, <2>4, <2>5, <2>6 DEF Serve
<1>3. ASSUME NEW rule \in Rules, NEW t \in running[rule],
             EvalBegin(rule, t) \/ EvalEnd(rule, t) \/ Terminate(rule, t)
      PROVE  Runners'
  <2>1. UNCHANGED <<tasks, mtx, req>>
    BY <1>3 DEF EvalBegin, EvalEnd, Terminate
  <2>2. CASE running' = running
    BY <2>1, <2>2, SameRunners
  <2>3. CASE running' # running
    <3>1. Stopping(rule, t) /\ running' = [running EXCEPT ![rule] = @ \ {t}]
      BY <1>3, <2>3 DEF EvalBegin, EvalEnd, Terminate, MemoryOK
    <3> QED
      BY <2>1, <3>1, RunnerEnds
  <2> QED
    BY <2>2, <2>3
<1>4. CASE Restart
  BY <1>4 DEF Restart, Runners, RunnersOf, Held
<1> QED
  BY <1>1, <1>2, <1>3, <1>4 DEF Next

\* The inductive invariant of the two theorems that follow.
LEMMA RunnersInvariant == Spec => [](TypeOK /\ Runners)
<1>1. Init => TypeOK /\ Runners
  BY TypeInit, RunnersInit
<1>2. TypeOK /\ Runners /\ [Next]_vars => (TypeOK /\ Runners)'
  BY MemoryStep, RequestsStep, LocksStep, RunnersStep DEF TypeOK
<1> QED
  BY <1>1, <1>2, PTL DEF Spec

\* However requests race on a rule, and whenever the program restarts, at
\* most one goroutine evaluates the rule.
THEOREM OneRunnerPerRule == Spec => []AtMostOneRunner
<1>1. TypeOK /\ Runners => AtMostOneRunner
  <2> SUFFICES ASSUME Runners, NEW rule \in Rules
               PROVE  Cardinality(running[rule]) <= 1
    BY DEF AtMostOneRunner
  <2>1. \E t : running[rule] \subseteq {t}
    BY DEF Runners, RunnersOf
  <2>2. PICK t : running[rule] = {} \/ running[rule] = {t}
    BY <2>1
  <2> QED
    BY <2>2, FS_EmptySet, FS_Singleton
<1> QED
  BY <1>1, RunnersInvariant, PTL

\* The goroutine that evaluates a rule is the task in m.tasks or one that a
\* request is waiting for, and the task in m.tasks runs unless a request is
\* about to remove it: no edit loses a goroutine.
THEOREM RunnersAreReachable == Spec => []NoOrphanRunner
<1>1. TypeOK /\ Runners => NoOrphanRunner
  <2> SUFFICES ASSUME TypeOK, Runners, NEW rule \in Rules
               PROVE  /\ \A t \in running[rule] : t = tasks[rule] \/ Stopping(rule, t)
                      /\ tasks[rule] # None =>
                           tasks[rule] \in running[rule] \/ Stopping(rule, tasks[rule])
    BY DEF NoOrphanRunner
  <2>1. CASE Held(rule)
    <3>1. mtx \in Requests /\ req[mtx].pc = "stopping" /\ req[mtx].rule = rule
      BY <2>1 DEF Held, TypeOK, LocksOK
    <3>2. Stopping(rule, req[mtx].victim)
      BY <3>1 DEF Stopping
    <3> QED
      BY <2>1, <3>2 DEF Runners, RunnersOf
  <2>2. CASE ~Held(rule)
    BY <2>2 DEF Runners, RunnersOf
  <2> QED
    BY <2>1, <2>2
<1> QED
  BY <1>1, RunnersInvariant, PTL

-----------------------------------------------------------------------------
(* What holds of the store and the tasks in the middle of a request.        *)

\* The rule's task is the one of the definition d, or there is none when d is
\* no definition or disabled; m.rules reports on it.
Follows(rule, d) ==
  /\ IF d # None /\ ~d.disabled
     THEN tasks[rule] # None /\ tasks[rule].def = d
     ELSE tasks[rule] = None
  /\ rules[rule] = tasks[rule]

\* The rule's task is the one of the stored definition, or the last start
\* could not load it and nothing runs.
Stands(rule) ==
  \/ Follows(rule, store[rule])
  \/ rule \in unloaded /\ tasks[rule] = None /\ rules[rule] = None

\* What the rule is to be when request r has succeeded
Target(r) == IF req[r].kind = "delete" THEN None ELSE req[r].new

\* Its task was not yet touched, or already is as it should be.
Untouched(r) ==
  \/ req[r].pc \in {"read", "config"}
  \/ req[r].pc = "write" /\ req[r].kind # "patch"
  \/ req[r].pc \in {"sync", "task"} /\ ~req[r].restoring

Touched(r) ==
  \/ req[r].pc = "commit"
  \/ req[r].pc = "write" /\ req[r].kind = "patch"

\* What the code has read, and what it knows from the kind of request
Knows(r) ==
  LET q == req[r]
      stored == store[q.rule]
  IN  /\ q.kind \in Kinds
      /\ q.kind = "create" => stored = None /\ ~q.new.disabled
      /\ q.pc = "read" => q.kind # "create"
      /\ q.pc = "config" => q.kind # "patch"
      /\ q.pc = "sync" => q.kind \in {"edit", "patch"}
      /\ q.kind \in {"edit", "patch"} /\ q.pc # "read" => stored # None
      /\ q.kind = "patch" /\ q.pc # "read" => q.old = stored
      /\ q.restoring => q.kind = "patch" /\ q.pc # "read" /\ q.new = q.old

\* The operation that was chosen fits what it finds.
Fits(r) ==
  LET task == tasks[req[r].rule]
      enabled == Target(r) # None /\ ~Target(r).disabled
  IN  /\ req[r].pc = "task" =>
           \/ req[r].op = "add" /\ task = None /\ enabled
           \/ req[r].op = "edit" /\ task # None /\ enabled
           \/ req[r].op = "delete" /\ ~enabled
      /\ req[r].pc = "stopping" =>
           \/ req[r].op = "edit" /\ rules[req[r].rule] = NewTask(r) /\ enabled
           \/ req[r].op = "delete" /\ ~enabled

Underway(r) ==
  /\ Knows(r) /\ Fits(r)
  /\ Untouched(r) => Stands(req[r].rule)
  /\ Touched(r) => Follows(req[r].rule, Target(r))
  /\ req[r].pc \in {"sync", "task"} => rules[req[r].rule] = tasks[req[r].rule]

Serves(r, rule) == Busy(r) /\ req[r].rule = rule

Agree(rule) ==
  Orderly(rule) =>
    /\ \A r, s \in Requests : Serves(r, rule) /\ Serves(s, rule) => r = s
    /\ \A r \in Requests : Serves(r, rule) => Underway(r)
    /\ Settled(rule) => Stands(rule)

Agreement ==
  /\ \A r \in Requests : req[r].pc = "idle" => ~req[r].loose
  /\ \A rule \in Rules : Agree(rule)

\* What a step of request r has to show: the other rules are left alone, and
\* the request's own rule is as far as the request is.
LEMMA ServedStep ==
  ASSUME TypeOK, Agreement, NEW r \in Requests, Busy(r),
         \A o \in Requests \ {r} : req'[o] = req[o],
         req'[r].pc # "idle", req'[r].rule = req[r].rule, req[r].loose => req'[r].loose,
         \A rule \in Rules \ {req[r].rule} :
           tasks'[rule] = tasks[rule] /\ rules'[rule] = rules[rule] /\ store'[rule] = store[rule],
         \A rule \in Rules \ {req[r].rule} : rule \in unloaded' <=> rule \in unloaded,
         Underway(r) => \/ req'[r].loose
                        \/ IF Busy(r)' THEN Underway(r)' ELSE Stands(req[r].rule)'
  PROVE  Agreement'
<1>1. \A o \in Requests : req'[o].pc = "idle" => ~req'[o].loose
  BY DEF Agreement
<1>2. ASSUME NEW rule \in Rules, Orderly(rule)'
      PROVE  /\ \A o, s \in Requests : Serves(o, rule)' /\ Serves(s, rule)' => o = s
             /\ \A o \in Requests : Serves(o, rule)' => Underway(o)'
             /\ Settled(rule)' => Stands(rule)'
  <2>1. Orderly(rule)
    BY <1>2 DEF Orderly
  <2>2. /\ \A o, s \in Requests : Serves(o, rule) /\ Serves(s, rule) => o = s
        /\ \A o \in Requests : Serves(o, rule) => Underway(o)
        /\ Settled(rule) => Stands(rule)
    BY <2>1 DEF Agreement, Agree
  <2>3. \A o \in Requests : Serves(o, rule)' => Serves(o, rule)
    BY DEF Serves, Busy
  <2>4. CASE req[r].rule = rule
    <3>1. Serves(r, rule) /\ \A o \in Requests : Serves(o, rule) => o = r
      BY <2>2, <2>4 DEF Serves
    <3>2. IF Busy(r)' THEN Underway(r)' ELSE Stands(rule)'
      <4>1. ~req'[r].loose
        BY <1>2, <2>4 DEF Orderly
      <4> QED
        BY <2>2, <2>4, <3>1, <4>1 DEF Stands, Follows
    <3>3. Settled(rule)' => ~Busy(r)'
      BY <2>4 DEF Settled, Requested
    <3> QED
      BY <2>3, <3>1, <3>2, <3>3 DEF Serves
  <2>5. CASE req[r].rule # rule
    <3>1. /\ tasks'[rule] = tasks[rule] /\ rules'[rule] = rules[rule]
          /\ store'[rule] = store[rule] /\ (rule \in unloaded' <=> rule \in unloaded)
      BY <2>5
    <3>2. \A o \in Requests : req[o].rule = rule => req'[o] = req[o]
      BY <2>5
    <3>3. ASSUME NEW o \in Requests, Serves(o, rule)'
          PROVE  Underway(o)'
      <4>1. req'[o] = req[o] /\ req[o].rule = rule /\ Underway(o)
        BY <2>2, <2>3, <3>2, <3>3 DEF Serves
      <4> QED
        BY <3>1, <4>1 DEF Underway, Knows, Fits, Untouched, Touched, Stands, Follows, Target,
                          NewTask
    <3>4. Settled(rule)' => Settled(rule)
      BY <3>2, <2>5 DEF Settled, Requested, Busy
    <3>5. Settled(rule)' => Stands(rule)'
      BY <2>2, <3>1, <3>4 DEF Stands, Follows
    <3> QED
      BY <2>2, <2>3, <3>3, <3>5
  <2> QED
    BY <2>4, <2>5
<1> QED
  BY <1>1, <1>2 DEF Agreement, Agree

\* Moving on to pc changes nothing else of the request.
LEMMA GotoKeeps ==
  ASSUME RequestsOK, NEW r \in Requests, NEW pc, Goto(r, pc)
  PROVE  /\ req'[r].pc = pc /\ req'[r].rule = req[r].rule /\ req'[r].kind = req[r].kind
         /\ req'[r].new = req[r].new /\ req'[r].old = req[r].old /\ req'[r].op = req[r].op
         /\ req'[r].restoring = req[r].restoring /\ req'[r].loose = req[r].loose
         /\ \A o \in Requests \ {r} : req'[o] = req[o]
<1>1. req[r] \in Request /\ req' = [req EXCEPT ![r] = [req[r] EXCEPT !.pc = pc]]
  BY DEF RequestsOK, Goto
<1>2. req'[r] = [req[r] EXCEPT !.pc = pc] /\ \A o \in Requests \ {r} : req'[o] = req[o]
  BY <1>1 DEF RequestsOK
<1> QED
  BY <1>1, <1>2 DEF Request

\* A request that gives up before it touches the rule's task leaves it as it was.
LEMMA AbortAgrees ==
  ASSUME TypeOK, Agreement, NEW r \in Requests, Busy(r), Abort(r),
         UNCHANGED <<store, tasks, rules, unloaded>>, Untouched(r)
  PROVE  Agreement'
<1>1. /\ req'[r].pc = "done" /\ req'[r].rule = req[r].rule /\ req'[r].loose = req[r].loose
      /\ \A o \in Requests \ {r} : req'[o] = req[o]
  BY GotoKeeps DEF Abort, TypeOK
<1>2. Underway(r) => Stands(req[r].rule)'
  BY <1>1 DEF Underway, Stands, Follows
<1> QED
  BY <1>1, <1>2, ServedStep DEF Busy

\* One that ends with the rule's task changed makes the rule loose.
LEMMA AbortLooseAgrees ==
  ASSUME TypeOK, Agreement, NEW r \in Requests, Busy(r), AbortLoose(r),
         UNCHANGED <<store, tasks, rules, unloaded>>
  PROVE  Agreement'
<1> DEFINE q == [req[r] EXCEPT !.pc = "done", !.loose = TRUE]
<1>1. RequestsOK /\ req[r] \in Request
  BY DEF TypeOK, RequestsOK
<1>2. req' = [req EXCEPT ![r] = q]
  BY <1>1 DEF AbortLoose, RequestsOK
<1>3. q.pc = "done" /\ q.rule = req[r].rule /\ q.loose
  BY <1>1 DEF Request
<1> HIDE DEF q
<1>4. req'[r] = q /\ \A o \in Requests \ {r} : req'[o] = req[o]
  BY <1>1, <1>2 DEF RequestsOK
<1> QED
  BY <1>3, <1>4, ServedStep DEF Busy

\* The definition is read: a patch goes on with what it has read.
LEMMA ReadAgrees ==
  ASSUME TypeOK, Agreement, NEW r \in Requests, Read(r)
  PROVE  Agreement'
<1>1. /\ RequestsOK /\ req[r] \in Request /\ req[r].pc = "read" /\ Busy(r)
      /\ req[r].new \in Definition /\ UNCHANGED <<store, tasks, rules, unloaded>>
  BY DEF TypeOK, RequestsOK, Read, memory, starts, Busy
<1> DEFINE old == store[req[r].rule]
<1>2. CASE old = None
  <2>1. Goto(r, "done")
    BY <1>2 DEF Read
  <2>2. /\ req'[r].pc = "done" /\ req'[r].rule = req[r].rule /\ req'[r].loose = req[r].loose
        /\ \A o \in Requests \ {r} : req'[o] = req[o]
    BY <1>1, <2>1, GotoKeeps
  <2>3. Underway(r) => Stands(req[r].rule)'
    BY <1>1, <2>2 DEF Underway, Stands, Follows, Untouched
  <2> QED
    BY <1>1, <2>2, <2>3, ServedStep DEF Busy
<1>3. CASE old # None
  <2> DEFINE pc == IF req[r].kind = "patch" THEN "sync" ELSE "write"
             q == [req[r] EXCEPT !.pc = pc, !.old = old]
  <2>1. req' = [req EXCEPT ![r] = q]
    BY <1>1, <1>3 DEF Read, RequestsOK
  <2>2. /\ q.pc = pc /\ q.rule = req[r].rule /\ q.kind = req[r].kind /\ q.old = old
        /\ q.new = req[r].new /\ q.restoring = req[r].restoring /\ q.loose = req[r].loose
    BY <1>1 DEF Request
  <2> HIDE DEF q
  <2>3. req'[r] = q /\ \A o \in Requests \ {r} : req'[o] = req[o]
    BY <1>1, <2>1 DEF RequestsOK
  <2>4. ASSUME Underway(r)
        PROVE  Underway(r)'
    <3>1. /\ Stands(req[r].rule) /\ req[r].kind \in Kinds /\ req[r].kind # "create"
          /\ ~req[r].restoring
      BY <1>1, <2>4 DEF Underway, Knows, Untouched
    <3>2. Stands(req[r].rule)'
      BY <1>1, <2>2, <2>3, <3>1 DEF Stands, Follows
    <3>3. Knows(r)'
      BY <1>1, <1>3, <2>2, <2>3, <3>1 DEF Knows
    <3>4. Fits(r)' /\ ~Touched(r)'
      BY <2>2, <2>3 DEF Fits, Touched
    <3>5. req'[r].rule = req[r].rule /\ (rules[req[r].rule] = tasks[req[r].rule])'
      BY <2>2, <2>3, <3>2 DEF Stands, Follows
    <3> QED
      BY <3>2, <3>3, <3>4, <3>5 DEF Underway
  <2> QED
    BY <1>1, <2>2, <2>3, <2>4, ServedStep DEF Busy
<1> QED
  BY <1>2, <1>3

\* A patch that was not stored goes back to the definition that is.
LEMMA RestoreAgrees ==
  ASSUME TypeOK, Agreement, NEW r \in Requests, RestoreOrAbort(r),
         req[r].pc = "write" \/ (req[r].pc = "commit" /\ req[r].kind = "patch"),
         UNCHANGED <<store, tasks, rules, unloaded>>
  PROVE  Agreement'
<1>1. RequestsOK /\ req[r] \in Request /\ Busy(r)
  BY DEF TypeOK, RequestsOK, Busy
<1>2. CASE req[r].kind # "patch"
  BY <1>1, <1>2, AbortAgrees DEF RestoreOrAbort, Untouched
<1>3. CASE req[r].kind = "patch"
  <2>1. PICK inPlace \in BOOLEAN, new \in Definition, q \in Request :
          /\ req' = [req EXCEPT ![r] = q]
          /\ q.pc = "sync" /\ q.rule = req[r].rule /\ q.kind = req[r].kind
          /\ q.old = req[r].old /\ q.new = new /\ q.restoring
          /\ q.loose = (req[r].loose \/ inPlace)
          /\ ~inPlace => new = req[r].old
    BY <1>1, <1>3, RestoreStep
  <2>2. /\ q.pc = "sync" /\ q.rule = req[r].rule /\ q.kind = req[r].kind /\ q.old = req[r].old
        /\ q.restoring /\ (req[r].loose => q.loose) /\ (q.new = req[r].old \/ q.loose)
    BY <2>1
  <2>3. req'[r] = q /\ \A o \in Requests \ {r} : req'[o] = req[o]
    BY <1>1, <2>1 DEF RequestsOK
  <2>4. ASSUME Underway(r), ~q.loose
        PROVE  Underway(r)'
    <3>1. rules[req[r].rule] = tasks[req[r].rule] /\ Knows(r)
      BY <1>3, <2>4 DEF Underway, Touched, Follows
    <3>2. Knows(r)'
      <4>1. q.new = q.old /\ q.restoring = TRUE
        BY <1>1, <2>1, <2>4 DEF Request
      <4> QED
        BY <1>3, <2>2, <2>3, <3>1, <4>1 DEF Knows
    <3>3. Fits(r)' /\ ~Touched(r)' /\ ~Untouched(r)'
      BY <2>2, <2>3 DEF Fits, Touched, Untouched
    <3> QED
      BY <2>2, <2>3, <3>1, <3>2, <3>3 DEF Underway
  <2> QED
    BY <1>1, <2>2, <2>3, <2>4, ServedStep DEF Busy
<1> QED
  BY <1>2, <1>3

\* The transaction begins, and the Alertmanager's configuration is written:
\* the rule's task is the business of what follows.
LEMMA WriteAgrees ==
  ASSUME TypeOK, Agreement, NEW r \in Requests, Write(r)
  PROVE  Agreement'
<1> DEFINE pc == IF req[r].kind = "patch" THEN "commit" ELSE "config"
<1>1. /\ RequestsOK /\ req[r].pc = "write" /\ Busy(r) /\ Goto(r, pc)
      /\ UNCHANGED <<store, tasks, rules, unloaded>>
  BY DEF TypeOK, Write, memory, starts, Busy
<1>2. /\ req'[r].pc = pc /\ req'[r].rule = req[r].rule /\ req'[r].kind = req[r].kind
      /\ req'[r].new = req[r].new /\ req'[r].old = req[r].old /\ req'[r].op = req[r].op
      /\ req'[r].restoring = req[r].restoring /\ req'[r].loose = req[r].loose
      /\ \A o \in Requests \ {r} : req'[o] = req[o]
  BY <1>1, GotoKeeps
<1>3. ASSUME Underway(r)
      PROVE  Underway(r)'
  <2>1. Knows(r)'
    BY <1>1, <1>2, <1>3 DEF Underway, Knows
  <2>2. Fits(r)'
    BY <1>2 DEF Fits
  <2>3. CASE req[r].kind = "patch"
    <3>1. Follows(req[r].rule, Target(r))
      BY <1>1, <1>3, <2>3 DEF Underway, Touched
    <3>2. Follows(req[r].rule, Target(r))'
      BY <1>1, <1>2, <3>1 DEF Follows, Target
    <3> QED
      BY <1>2, <2>1, <2>2, <2>3, <3>2 DEF Underway, Untouched
  <2>4. CASE req[r].kind # "patch"
    <3>1. Stands(req[r].rule)
      BY <1>1, <1>3, <2>4 DEF Underway, Untouched
    <3>2. Stands(req[r].rule)'
      BY <1>1, <1>2, <3>1 DEF Stands, Follows
    <3> QED
      BY <1>2, <2>1, <2>2, <2>4, <3>2 DEF Underway, Touched
  <2> QED
    BY <2>3, <2>4
<1> QED
  BY <1>1, <1>2, <1>3, ServedStep DEF Busy

LEMMA ConfigureAgrees ==
  ASSUME TypeOK, Agreement, NEW r \in Requests, Configure(r)
  PROVE  Agreement'
<1> DEFINE pc == IF req[r].kind = "edit" THEN "sync" ELSE "task"
           op == IF req[r].kind = "create" THEN "add"
                 ELSE IF req[r].kind = "delete" THEN "delete" ELSE req[r].op
           q == [req[r] EXCEPT !.pc = pc, !.op = op]
<1>1. /\ RequestsOK /\ req[r] \in Request /\ req[r].new \in Definition
      /\ req[r].pc = "config" /\ Busy(r) /\ UNCHANGED <<store, tasks, rules, unloaded>>
  BY DEF TypeOK, RequestsOK, Configure, memory, starts, Busy
<1>2. req' = [req EXCEPT ![r] = q]
  BY <1>1 DEF Configure, RequestsOK
<1>3. /\ q.pc = pc /\ q.rule = req[r].rule /\ q.kind = req[r].kind /\ q.op = op
      /\ q.new = req[r].new /\ q.old = req[r].old
      /\ q.restoring = req[r].restoring /\ q.loose = req[r].loose
  BY <1>1 DEF Request
<1> HIDE DEF q
<1>4. req'[r] = q /\ \A o \in Requests \ {r} : req'[o] = req[o]
  BY <1>1, <1>2 DEF RequestsOK
<1>5. ASSUME Underway(r)
      PROVE  Underway(r)'
  <2>1. /\ Stands(req[r].rule) /\ Knows(r)
        /\ req[r].kind \in {"create", "edit", "delete"} /\ ~req[r].restoring
    BY <1>1, <1>5, ManagerAssumption DEF Underway, Knows, Untouched
  <2>2. Stands(req[r].rule)'
    BY <1>1, <1>3, <1>4, <2>1 DEF Stands, Follows
  <2>3. Knows(r)'
    BY <1>1, <1>3, <1>4, <2>1 DEF Knows
  <2>4. Fits(r)'
    <3>1. req[r].new # None
      BY <1>1, NoneAssumption
    <3>2. CASE req[r].kind = "create"
      <4>1. tasks[req[r].rule] = None /\ ~req[r].new.disabled
        BY <2>1, <3>2 DEF Stands, Follows, Knows
      <4> QED
        BY <1>1, <1>3, <1>4, <3>1, <3>2, <4>1 DEF Fits, Target
    <3>3. CASE req[r].kind # "create"
      BY <1>3, <1>4, <2>1, <3>3 DEF Fits, Target
    <3> QED
      BY <3>2, <3>3
  <2>5. ~Touched(r)' /\ (rules[req[r].rule] = tasks[req[r].rule])'
    BY <1>3, <1>4, <2>2 DEF Touched, Stands, Follows
  <2> QED
    BY <2>2, <2>3, <2>4, <2>5 DEF Underway
<1> QED
  BY <1>1, <1>3, <1>4, <1>5, ServedStep DEF Busy

\* The commit makes the store what the task already is.
LEMMA CommitAgrees ==
  ASSUME TypeOK, Agreement, NEW r \in Requests, Commit(r)
  PROVE  Agreement'
<1> DEFINE rule == req[r].rule
<1>1. /\ RequestsOK /\ MemoryOK /\ req[r].pc = "commit" /\ Busy(r) /\ Abort(r)
      /\ rule \in Rules /\ UNCHANGED <<tasks, rules>>
  BY DEF TypeOK, RequestsOK, Commit, memory, Busy
<1>2. /\ req'[r].pc = "done" /\ req'[r].rule = rule /\ req'[r].loose = req[r].loose
      /\ \A o \in Requests \ {r} : req'[o] = req[o]
  BY <1>1, GotoKeeps DEF Abort
<1>3. /\ store'[rule] = IF req[r].kind = "delete" THEN None
                         ELSE IF store[rule] = None /\ req[r].kind # "create" THEN None
                         ELSE req[r].new
      /\ \A o \in Rules \ {rule} : /\ store'[o] = store[o]
                                   /\ o \in unloaded' <=> o \in unloaded
  BY <1>1 DEF Commit, MemoryOK
<1>4. ASSUME Underway(r)
      PROVE  Stands(req[r].rule)'
  <2>1. Follows(rule, Target(r)) /\ Knows(r)
    BY <1>1, <1>4 DEF Underway, Touched
  <2>2. store'[rule] = Target(r)
    BY <1>1, <1>3, <2>1, ManagerAssumption DEF Knows, Target
  <2> QED
    BY <1>1, <1>2, <2>1, <2>2 DEF Stands, Follows
<1> QED
  BY <1>1, <1>2, <1>3, <1>4, ServedStep DEF Busy

\* A commit that fails leaves the rule's task changed: the rule counts as loose,
\* unless a patch restores the task.
LEMMA CommitFailsAgrees ==
  ASSUME TypeOK, Agreement, NEW r \in Requests, CommitFails(r)
  PROVE  Agreement'
<1>1. /\ RequestsOK /\ req[r] \in Request /\ req[r].pc = "commit" /\ Busy(r)
      /\ UNCHANGED <<store, tasks, rules, unloaded>>
  BY DEF TypeOK, RequestsOK, CommitFails, memory, starts, Busy
<1>2. CASE req[r].kind = "patch"
  BY <1>1, <1>2, RestoreAgrees DEF CommitFails
<1>3. CASE req[r].kind # "patch"
  BY <1>1, <1>3, AbortLooseAgrees DEF CommitFails
<1> QED
  BY <1>2, <1>3

\* A request goes on when the rule's task is as it wants it.
LEMMA AfterAgrees ==
  ASSUME TypeOK, Agreement, NEW r \in Requests, Goto(r, AfterTask(r)),
         req[r].pc \in {"sync", "task", "stopping"}, UNCHANGED <<store, unloaded>>,
         \A rule \in Rules \ {req[r].rule} : tasks'[rule] = tasks[rule] /\ rules'[rule] = rules[rule],
         Underway(r) => Follows(req[r].rule, Target(r))'
  PROVE  Agreement'
<1>1. RequestsOK /\ Busy(r)
  BY DEF TypeOK, Busy
<1>2. /\ req'[r].pc = AfterTask(r) /\ req'[r].rule = req[r].rule /\ req'[r].kind = req[r].kind
      /\ req'[r].new = req[r].new /\ req'[r].old = req[r].old /\ req'[r].op = req[r].op
      /\ req'[r].restoring = req[r].restoring /\ req'[r].loose = req[r].loose
      /\ \A o \in Requests \ {r} : req'[o] = req[o]
  BY <1>1, GotoKeeps
<1>3. AfterTask(r) \in {"commit", "done", "write"}
  BY DEF AfterTask
<1>4. ASSUME Underway(r)
      PROVE  IF Busy(r)' THEN Underway(r)' ELSE Stands(req[r].rule)'
  <2>1. Follows(req[r].rule, Target(r))' /\ Knows(r)
    BY <1>4 DEF Underway
  <2>2. CASE AfterTask(r) = "done"
    <3>1. req[r].kind = "patch" /\ req[r].restoring
      BY <2>2 DEF AfterTask
    <3>2. Target(r)' = store'[req'[r].rule]
      BY <1>2, <2>1, <3>1 DEF Knows, Target
    <3> QED
      BY <1>2, <2>1, <2>2, <3>2 DEF Busy, Stands, Follows
  <2>3. CASE AfterTask(r) # "done"
    <3>1. Touched(r)' /\ ~Untouched(r)' /\ Fits(r)'
      BY <1>2, <1>3, <2>3 DEF AfterTask, Touched, Untouched, Fits
    <3>2. Knows(r)'
      BY <1>2, <1>3, <2>1 DEF Knows
    <3> QED
      BY <1>2, <1>3, <2>1, <2>3, <3>1, <3>2 DEF Underway, Busy
  <2> QED
    BY <2>2, <2>3
<1> QED
  BY <1>1, <1>2, <1>3, <1>4, ServedStep

\* syncRuleStateWithTask chooses what fits the task it sees; nobody else is at
\* work on the rule, so it fits still when it is done.
LEMMA SyncAgrees ==
  ASSUME TypeOK, Agreement, NEW r \in Requests, Sync(r)
  PROVE  Agreement'
<1> DEFINE task == tasks[req[r].rule]
<1>1. /\ RequestsOK /\ req[r] \in Request /\ req[r].new \in Definition /\ req[r].new # None
      /\ req[r].pc = "sync" /\ Busy(r) /\ UNCHANGED <<store, tasks, rules, unloaded>>
  BY NoneAssumption DEF TypeOK, RequestsOK, Sync, memory, starts, Busy
<1>2. CASE req[r].new.disabled /\ task = None
  <2>1. Goto(r, AfterTask(r))
    BY <1>2 DEF Sync
  <2>2. ASSUME Underway(r)
        PROVE  Follows(req[r].rule, Target(r))'
    <3>1. rules[req[r].rule] = task
      BY <1>1, <2>2 DEF Underway
    <3>2. req'[r].rule = req[r].rule /\ req'[r].kind = req[r].kind /\ req'[r].new = req[r].new
      BY <1>1, <2>1, GotoKeeps
    <3> QED
      BY <1>1, <1>2, <3>1, <3>2 DEF Follows, Target
  <2> QED
    BY <1>1, <2>1, <2>2, AfterAgrees
<1>3. CASE ~(req[r].new.disabled /\ task = None)
  <2> DEFINE op == IF req[r].new.disabled THEN "delete"
                   ELSE IF task # None THEN "edit" ELSE "add"
             q == [req[r] EXCEPT !.pc = "task", !.op = op]
  <2>1. req' = [req EXCEPT ![r] = q]
    BY <1>1, <1>3 DEF Sync, RequestsOK
  <2>2. /\ q.pc = "task" /\ q.rule = req[r].rule /\ q.kind = req[r].kind /\ q.op = op
        /\ q.new = req[r].new /\ q.old = req[r].old
        /\ q.restoring = req[r].restoring /\ q.loose = req[r].loose
    BY <1>1 DEF Request
  <2> HIDE DEF q
  <2>3. req'[r] = q /\ \A o \in Requests \ {r} : req'[o] = req[o]
    BY <1>1, <2>1 DEF RequestsOK
  <2>4. ASSUME Underway(r)
        PROVE  Underway(r)'
    <3>1. rules[req[r].rule] = task /\ Knows(r) /\ req[r].kind \in {"edit", "patch"}
      BY <1>1, <2>4 DEF Underway, Knows
    <3>2. Knows(r)'
      BY <1>1, <2>2, <2>3, <3>1 DEF Knows
    <3>3. Fits(r)'
      BY <1>1, <1>3, <2>2, <2>3, <3>1 DEF Fits, Target
    <3>4. ~Touched(r)' /\ (rules[req[r].rule] = tasks[req[r].rule])'
      BY <1>1, <2>2, <2>3, <3>1 DEF Touched
    <3>5. (Untouched(r) => Stands(req[r].rule))'
      <4>1. Untouched(r)' => Untouched(r)
        BY <1>1, <2>2, <2>3 DEF Untouched
      <4> QED
        BY <1>1, <2>2, <2>3, <2>4, <4>1 DEF Underway, Stands, Follows
    <3> QED
      BY <3>2, <3>3, <3>4, <3>5 DEF Underway
  <2> QED
    BY <1>1, <2>2, <2>3, <2>4, ServedStep DEF Busy
<1> QED
  BY <1>2, <1>3

\* The new task of a request is in m.tasks and m.rules.
LEMMA StartedAgrees ==
  ASSUME TypeOK, Agreement, NEW r \in Requests, Goto(r, AfterTask(r)),
         req[r].pc \in {"task", "stopping"}, UNCHANGED <<store, unloaded>>,
         tasks' = [tasks EXCEPT ![req[r].rule] = NewTask(r)],
         rules' = rules \/ rules' = [rules EXCEPT ![req[r].rule] = NewTask(r)],
         Underway(r) => /\ Target(r) # None /\ ~Target(r).disabled
                        /\ rules'[req[r].rule] = NewTask(r)
  PROVE  Agreement'
<1>1. /\ RequestsOK /\ MemoryOK /\ req[r].rule \in Rules
      /\ NewTask(r) # None /\ NewTask(r).def = req[r].new
  BY NewTaskType DEF TypeOK, RequestsOK, NewTask
<1>2. req'[r].rule = req[r].rule /\ req'[r].kind = req[r].kind /\ req'[r].new = req[r].new
  BY <1>1, GotoKeeps
<1>3. /\ tasks'[req[r].rule] = NewTask(r)
      /\ \A rule \in Rules \ {req[r].rule} : tasks'[rule] = tasks[rule] /\ rules'[rule] = rules[rule]
  BY <1>1 DEF MemoryOK
<1>4. ASSUME Underway(r)
      PROVE  Follows(req[r].rule, Target(r))'
  <2>1. Target(r) = req[r].new /\ req[r].kind # "delete"
    BY <1>4 DEF Target
  <2> HIDE DEF NewTask
  <2> QED
    BY <1>1, <1>2, <1>3, <1>4, <2>1 DEF Follows, Target
<1> QED
  BY <1>3, <1>4, AfterAgrees

\* The task operations.
LEMMA AddAgrees ==
  ASSUME TypeOK, Agreement, NEW r \in Requests, AddTask(r)
  PROVE  Agreement'
<1>1. /\ RequestsOK /\ MemoryOK /\ req[r].pc = "task" /\ req[r].op = "add" /\ Busy(r)
      /\ req[r].rule \in Rules /\ UNCHANGED <<store, unloaded>>
      /\ rules' = [rules EXCEPT ![req[r].rule] = NewTask(r)]
  BY DEF TypeOK, RequestsOK, AddTask, Enters, starts, Busy
<1>2. Underway(r) => tasks[req[r].rule] = None /\ Target(r) # None /\ ~Target(r).disabled
  BY <1>1 DEF Underway, Fits
<1>3. CASE tasks[req[r].rule] = None
  <2>1. /\ Goto(r, AfterTask(r))
        /\ tasks' = [tasks EXCEPT ![req[r].rule] = NewTask(r)]
    BY <1>3 DEF AddTask
  <2>2. rules'[req[r].rule] = NewTask(r)
    BY <1>1 DEF MemoryOK
  <2> HIDE DEF NewTask
  <2> QED
    BY <1>1, <1>2, <2>1, <2>2, StartedAgrees
<1>4. CASE tasks[req[r].rule] # None
  <2>1. Abort(r) /\ tasks' = tasks
    BY <1>4 DEF AddTask
  <2>2. /\ req'[r].pc = "done" /\ req'[r].rule = req[r].rule /\ req'[r].loose = req[r].loose
        /\ \A o \in Requests \ {r} : req'[o] = req[o]
    BY <1>1, <2>1, GotoKeeps DEF Abort
  <2>3. \A rule \in Rules \ {req[r].rule} : rules'[rule] = rules[rule]
    BY <1>1 DEF MemoryOK
  <2> QED
    BY <1>1, <1>2, <1>4, <2>1, <2>2, <2>3, ServedStep DEF Busy
<1> QED
  BY <1>3, <1>4

\* The task that request r stops
LEMMA StoppingAgrees ==
  ASSUME TypeOK, Agreement, NEW r \in Requests, NEW victim,
         req' = [req EXCEPT ![r].pc = "stopping", ![r].victim = victim],
         req[r].pc = "task", req[r].op \in {"edit", "delete"}, UNCHANGED <<store, unloaded>>,
         \A rule \in Rules \ {req[r].rule} : tasks'[rule] = tasks[rule] /\ rules'[rule] = rules[rule],
         req[r].op = "edit" => rules'[req[r].rule] = NewTask(r)
  PROVE  Agreement'
<1> DEFINE q == [req[r] EXCEPT !.pc = "stopping", !.victim = victim]
<1>1. RequestsOK /\ req[r] \in Request /\ Busy(r)
  BY DEF TypeOK, RequestsOK, Busy
<1>2. req' = [req EXCEPT ![r] = q]
  BY <1>1 DEF RequestsOK
<1>3. /\ q.pc = "stopping" /\ q.rule = req[r].rule /\ q.kind = req[r].kind /\ q.op = req[r].op
      /\ q.new = req[r].new /\ q.old = req[r].old
      /\ q.restoring = req[r].restoring /\ q.loose = req[r].loose
  BY <1>1 DEF Request
<1> HIDE DEF q
<1>4. req'[r] = q /\ \A o \in Requests \ {r} : req'[o] = req[o]
  BY <1>1, <1>2 DEF RequestsOK
<1>5. ASSUME Underway(r)
      PROVE  Underway(r)'
  <2>1. Knows(r)'
    BY <1>3, <1>4, <1>5 DEF Underway, Knows
  <2>2. Fits(r)'
    <3>1. NewTask(r)' = NewTask(r) /\ Target(r)' = Target(r)
      BY <1>3, <1>4 DEF NewTask, Target
    <3>2. \/ req[r].op = "edit" /\ Target(r) # None /\ ~Target(r).disabled
          \/ req[r].op = "delete" /\ ~(Target(r) # None /\ ~Target(r).disabled)
      BY <1>5 DEF Underway, Fits
    <3> QED
      BY <1>3, <1>4, <3>1, <3>2 DEF Fits
  <2>3. ~Touched(r)' /\ ~Untouched(r)'
    BY <1>3, <1>4 DEF Touched, Untouched
  <2> QED
    BY <1>3, <1>4, <2>1, <2>2, <2>3 DEF Underway
<1> QED
  BY <1>1, <1>3, <1>4, <1>5, ServedStep DEF Busy

LEMMA EditBeginAgrees ==
  ASSUME TypeOK, Agreement, NEW r \in Requests, EditBegin(r)
  PROVE  Agreement'
<1>1. /\ RequestsOK /\ MemoryOK /\ req[r].pc = "task" /\ req[r].op = "edit"
      /\ req[r].rule \in Rules /\ UNCHANGED <<store, unloaded>>
      /\ rules' = [rules EXCEPT ![req[r].rule] = NewTask(r)]
  BY DEF TypeOK, RequestsOK, EditBegin, Enters, starts
<1>2. /\ rules'[req[r].rule] = NewTask(r)
      /\ \A rule \in Rules \ {req[r].rule} : rules'[rule] = rules[rule]
  BY <1>1 DEF MemoryOK
<1>3. CASE tasks[req[r].rule] = None
  <2>1. /\ Goto(r, AfterTask(r))
        /\ tasks' = [tasks EXCEPT ![req[r].rule] = NewTask(r)]
    BY <1>3 DEF EditBegin
  <2>2. Underway(r) => Target(r) # None /\ ~Target(r).disabled
    BY <1>1, <1>3 DEF Underway, Fits
  <2> HIDE DEF NewTask
  <2> QED
    BY <1>1, <1>2, <2>1, <2>2, StartedAgrees
<1>4. CASE tasks[req[r].rule] # None
  <2>1. /\ req' = [req EXCEPT ![r].pc = "stopping", ![r].victim = tasks[req[r].rule]]
        /\ tasks' = [tasks EXCEPT ![req[r].rule] = None]
    BY <1>4 DEF EditBegin
  <2>2. \A rule \in Rules \ {req[r].rule} : tasks'[rule] = tasks[rule]
    BY <1>1, <2>1 DEF MemoryOK
  <2> HIDE DEF NewTask
  <2> QED
    BY <1>1, <1>2, <2>1, <2>2, StoppingAgrees
<1> QED
  BY <1>3, <1>4

LEMMA DeleteBeginAgrees ==
  ASSUME TypeOK, Agreement, NEW r \in Requests, DeleteBegin(r)
  PROVE  Agreement'
<1>1. /\ RequestsOK /\ req[r].pc = "task" /\ req[r].op = "delete"
      /\ UNCHANGED <<store, tasks, rules, unloaded>>
  BY DEF TypeOK, DeleteBegin, Enters, starts
<1>2. CASE tasks[req[r].rule] = None
  <2>1. Goto(r, AfterTask(r))
    BY <1>2 DEF DeleteBegin
  <2>2. req'[r].rule = req[r].rule /\ req'[r].kind = req[r].kind /\ req'[r].new = req[r].new
    BY <1>1, <2>1, GotoKeeps
  <2>3. ASSUME Underway(r)
        PROVE  Follows(req[r].rule, Target(r))'
    <3>1. /\ rules[req[r].rule] = tasks[req[r].rule]
          /\ ~(Target(r) # None /\ ~Target(r).disabled)
      BY <1>1, <2>3 DEF Underway, Fits
    <3> QED
      BY <1>1, <1>2, <2>2, <3>1 DEF Follows, Target
  <2> QED
    BY <1>1, <2>1, <2>3, AfterAgrees
<1>3. CASE tasks[req[r].rule] # None
  <2>1. req' = [req EXCEPT ![r].pc = "stopping", ![r].victim = tasks[req[r].rule]]
    BY <1>3 DEF DeleteBegin
  <2> QED
    BY <1>1, <2>1, StoppingAgrees
<1> QED
  BY <1>2, <1>3

LEMMA FinishAgrees ==
  ASSUME TypeOK, Agreement, NEW r \in Requests, EditFinish(r) \/ DeleteFinish(r)
  PROVE  Agreement'
<1>1. /\ RequestsOK /\ MemoryOK /\ req[r].pc = "stopping" /\ req[r].rule \in Rules
      /\ UNCHANGED <<store, unloaded>> /\ Goto(r, AfterTask(r))
  BY DEF TypeOK, RequestsOK, EditFinish, DeleteFinish, starts
<1>2. CASE EditFinish(r)
  <2>1. /\ tasks' = [tasks EXCEPT ![req[r].rule] = NewTask(r)] /\ rules' = rules
        /\ req[r].op = "edit"
    BY <1>2 DEF EditFinish
  <2>2. Underway(r) => /\ Target(r) # None /\ ~Target(r).disabled
                       /\ rules[req[r].rule] = NewTask(r)
    BY <1>1, <2>1 DEF Underway, Fits
  <2> HIDE DEF NewTask
  <2> QED
    BY <1>1, <2>1, <2>2, StartedAgrees
<1>3. CASE DeleteFinish(r)
  <2>1. /\ tasks' = [tasks EXCEPT ![req[r].rule] = None]
        /\ rules' = [rules EXCEPT ![req[r].rule] = None]
        /\ req[r].op = "delete"
    BY <1>3 DEF DeleteFinish
  <2>2. /\ tasks'[req[r].rule] = None /\ rules'[req[r].rule] = None
        /\ \A rule \in Rules \ {req[r].rule} : tasks'[rule] = tasks[rule] /\ rules'[rule] = rules[rule]
    BY <1>1, <2>1 DEF MemoryOK
  <2>3. req'[r].rule = req[r].rule /\ req'[r].kind = req[r].kind /\ req'[r].new = req[r].new
    BY <1>1, GotoKeeps
  <2>4. ASSUME Underway(r)
        PROVE  Follows(req[r].rule, Target(r))'
    <3>1. ~(Target(r) # None /\ ~Target(r).disabled)
      BY <1>1, <2>1, <2>4 DEF Underway, Fits
    <3> QED
      BY <2>2, <2>3, <3>1 DEF Follows, Target
  <2> QED
    BY <1>1, <2>2, <2>4, AfterAgrees
<1> QED
  BY <1>2, <1>3

\* A request that arrives while another one is open on its rule makes the rule
\* loose; otherwise the rule is as it is stored.
LEMMA ArriveAgrees ==
  ASSUME TypeOK, Agreement, NEW r \in Requests, NEW kind \in Kinds, NEW rule \in Rules,
         NEW disabled \in BOOLEAN, Arrive(r, kind, rule, disabled)
  PROVE  Agreement'
<1> DEFINE loose == (kind = "create" /\ disabled) \/ Requested(rule)
           pc == IF kind = "create" THEN "write" ELSE "read"
           q == [Idle EXCEPT !.pc = pc, !.kind = kind, !.rule = rule, !.disabled = disabled,
                             !.new = [body |-> r, disabled |-> disabled], !.loose = loose]
<1>1. /\ RequestsOK /\ req[r].pc = "idle" /\ ~req[r].loose
      /\ UNCHANGED <<store, tasks, rules, unloaded>>
  BY DEF TypeOK, Arrive, memory, starts, Agreement
<1>2. req' = [req EXCEPT ![r] = q]
  BY DEF Arrive
<1>3. /\ q.pc = pc /\ q.rule = rule /\ q.kind = kind /\ q.new = [body |-> r, disabled |-> disabled]
      /\ q.restoring = FALSE /\ q.loose = loose
  BY DEF Idle
<1> HIDE DEF q
<1>4. req'[r] = q /\ \A o \in Requests \ {r} : req'[o] = req[o]
  BY <1>1, <1>2 DEF RequestsOK
<1>5. ASSUME NEW other \in Rules, Orderly(other)'
      PROVE  /\ \A o, s \in Requests : Serves(o, other)' /\ Serves(s, other)' => o = s
             /\ \A o \in Requests : Serves(o, other)' => Underway(o)'
             /\ Settled(other)' => Stands(other)'
  <2>1. Orderly(other)
    BY <1>1, <1>4, <1>5 DEF Orderly
  <2>2. /\ \A o, s \in Requests : Serves(o, other) /\ Serves(s, other) => o = s
        /\ \A o \in Requests : Serves(o, other) => Underway(o)
        /\ Settled(other) => Stands(other)
    BY <2>1 DEF Agreement, Agree
  <2>3. ASSUME NEW o \in Requests \ {r}
        PROVE  Serves(o, other)' => Serves(o, other) /\ Underway(o)'
    <3>1. Serves(o, other)' => Serves(o, other) /\ Underway(o)
      BY <1>4, <2>2 DEF Serves, Busy
    <3>2. Underway(o) => Underway(o)'
      BY <1>1, <1>4 DEF Underway, Knows, Fits, Untouched, Touched, Stands, Follows,
                               Target, NewTask
    <3> QED
      BY <3>1, <3>2
  <2>4. ~Serves(r, other)
    BY <1>1 DEF Serves, Busy
  <2>5. CASE other = rule
    <3>1. ~Requested(rule) /\ ~(kind = "create" /\ disabled)
      BY <1>3, <1>4, <1>5, <2>5 DEF Orderly
    <3>2. Stands(rule) /\ \A o \in Requests : ~Serves(o, rule)
      BY <2>2, <2>5, <3>1 DEF Settled, Requested, Serves
    <3>3. Underway(r)'
      <4>1. kind = "create" => store[rule] = None
        BY DEF Arrive, Exists
      <4>2. Knows(r)'
        BY <1>1, <1>3, <1>4, <3>1, <4>1 DEF Knows
      <4>3. Fits(r)' /\ ~Touched(r)'
        BY <1>3, <1>4 DEF Fits, Touched
      <4>4. req'[r].rule = rule
        BY <1>3, <1>4
      <4>5. (rules[req[r].rule] = tasks[req[r].rule])'
        BY <1>1, <3>2, <4>4 DEF Stands, Follows
      <4> QED
        BY <1>1, <3>2, <4>2, <4>3, <4>4, <4>5 DEF Underway, Stands, Follows
    <3>4. Serves(r, rule)'
      BY <1>3, <1>4 DEF Serves, Busy
    <3>5. ~Settled(rule)'
      BY <3>4 DEF Settled, Requested, Serves
    <3> QED
      BY <2>3, <2>5, <3>2, <3>3, <3>5
  <2>6. CASE other # rule
    <3>1. ~Serves(r, other)'
      BY <1>3, <1>4, <2>6 DEF Serves
    <3>2. Settled(other)' => Settled(other)
      <4>1. \A o \in Requests : Serves(o, other) => Serves(o, other)'
        BY <1>4, <2>4 DEF Serves, Busy
      <4> QED
        BY <4>1 DEF Settled, Requested, Serves
    <3>3. Settled(other)' => Stands(other)'
      BY <1>1, <2>2, <3>2 DEF Stands, Follows
    <3> QED
      BY <2>2, <2>3, <3>1, <3>3
  <2> QED
    BY <2>5, <2>6
<1>6. \A o \in Requests : req'[o].pc = "idle" => ~req'[o].loose
  BY <1>3, <1>4 DEF Agreement
<1> QED
  BY <1>5, <1>6 DEF Agreement, Agree

\* The tasks that initiate builds are those of the stored, enabled rules that
\* it can load.
LEMMA BootFollows ==
  ASSUME NEW sto \in [Rules -> Definition \cup {None}], NEW lost, NEW n \in 0..MaxRestarts,
         NEW rule \in Rules
  PROVE  IF sto[rule] # None /\ ~sto[rule].disabled
         THEN \/ Boot(sto, lost, n)[rule] # None /\ Boot(sto, lost, n)[rule].def = sto[rule]
              \/ Boot(sto, lost, n)[rule] = None /\ rule \in lost
         ELSE Boot(sto, lost, n)[rule] = None
<1> DEFINE task == [def |-> sto[rule], by |-> n, restored |-> FALSE]
<1>1. CASE rule \in Enabled(sto) \ lost
  <2>1. task \in Task
    BY <1>1 DEF Task, Enabled
  <2>2. task # None /\ task.def = sto[rule]
    BY <2>1, NoneAssumption
  <2>3. Boot(sto, lost, n)[rule] = task
    BY <1>1 DEF Boot
  <2> QED
    BY <1>1, <2>2, <2>3 DEF Enabled
<1>2. CASE rule \notin Enabled(sto) \ lost
  BY <1>2 DEF Boot, Enabled
<1> QED
  BY <1>1, <1>2

LEMMA AgreementInit == Init => Agreement
<1> SUFFICES ASSUME Init
             PROVE  Agreement
  OBVIOUS
<1>1. store \in [Rules -> Definition \cup {None}] /\ 0 \in 0..MaxRestarts
  BY TypeInit, ManagerAssumption DEF TypeOK, MemoryOK
<1>2. \A r \in Requests : req[r].pc = "idle" /\ ~req[r].loose
  BY DEF Init, Idle
<1>3. ASSUME NEW rule \in Rules
      PROVE  Stands(rule)
  <2>1. tasks = Boot(store, unloaded, 0) /\ rules = tasks
    BY DEF Init
  <2> QED
    BY <1>1, <2>1, BootFollows DEF Stands, Follows
<1> QED
  BY <1>2, <1>3 DEF Agreement, Agree, Serves, Busy

\* After a start every rule is as it is stored, and no request is open.
LEMMA RestartAgrees ==
  ASSUME TypeOK, Restart
  PROVE  Agreement'
<1>1. store' = store /\ store \in [Rules -> Definition \cup {None}]
  BY DEF TypeOK, MemoryOK, Restart
<1>2. restarts' \in 0..MaxRestarts
  <2>1. MaxRestarts \in Nat
    BY ManagerAssumption
  <2>2. restarts \in 0..MaxRestarts /\ restarts < MaxRestarts /\ restarts' = restarts + 1
    BY DEF TypeOK, MemoryOK, Restart
  <2> QED
    BY <2>1, <2>2
<1>3. ASSUME NEW r \in Requests
      PROVE  ~Busy(r)' /\ ~req'[r].loose
  <2>1. req[r] \in Request
    BY DEF TypeOK, RequestsOK
  <2>2. req'[r] = [req[r] EXCEPT !.pc = IF Busy(r) THEN "done" ELSE @, !.loose = FALSE]
    BY DEF Restart
  <2>3. req'[r].pc = (IF Busy(r) THEN "done" ELSE req[r].pc) /\ req'[r].loose = FALSE
    BY <2>1, <2>2 DEF Request
  <2> QED
    BY <2>3 DEF Busy
<1>4. ASSUME NEW rule \in Rules
      PROVE  Stands(rule)'
  <2>1. tasks' = Boot(store, unloaded', restarts') /\ rules' = tasks'
    BY DEF Restart
  <2>2. IF store[rule] # None /\ ~store[rule].disabled
        THEN \/ tasks'[rule] # None /\ tasks'[rule].def = store[rule]
             \/ tasks'[rule] = None /\ rule \in unloaded'
        ELSE tasks'[rule] = None
    BY <1>1, <1>2, <2>1, BootFollows
  <2> QED
    BY <1>1, <2>1, <2>2 DEF Stands, Follows
<1> QED
  BY <1>3, <1>4 DEF Agreement, Agree, Serves

LEMMA AgreementStep ==
  ASSUME TypeOK, Agreement, [Next]_vars
  PROVE  Agreement'
<1>1. ASSUME UNCHANGED <<store, tasks, rules, req, unloaded>>
      PROVE  Agreement'
  <2>1. ASSUME NEW rule \in Rules
        PROVE  Agree(rule)'
    <3>1. Agree(rule)
      BY DEF Agreement
    <3> QED
      BY <1>1, <3>1 DEF Agree, Orderly, Settled, Requested, Serves, Busy, Underway, Knows, Fits,
                        Untouched, Touched, Stands, Follows, Target, NewTask
  <2> QED
    BY <1>1, <2>1 DEF Agreement
<1>2. ASSUME NEW r \in Requests, NEW kind \in Kinds, NEW rule \in Rules,
             NEW disabled \in BOOLEAN, Arrive(r, kind, rule, disabled)
      PROVE  Agreement'
  BY <1>2, ArriveAgrees
<1>3. ASSUME NEW r \in Requests, Serve(r)
      PROVE  Agreement'
  <2>1. CASE Read(r)
    BY <2>1, ReadAgrees
  <2>2. CASE Write(r)
    BY <2>2, WriteAgrees
  <2>3. CASE WriteFails(r)
    BY <2>3, RestoreAgrees DEF WriteFails, memory, starts
  <2>4. CASE Configure(r)
    BY <2>4, ConfigureAgrees
  <2>5. CASE ConfigFails(r)
    BY <2>5, AbortAgrees DEF ConfigFails, memory, starts, Untouched, Busy
  <2>6. CASE Commit(r)
    BY <2>6, CommitAgrees
  <2>7. CASE CommitFails(r)
    BY <2>7, CommitFailsAgrees
  <2>8. CASE Sync(r)
    BY <2>8, SyncAgrees
  <2>9. CASE PrepareFails(r)
    <3>1. Busy(r) /\ req[r].pc = "task" /\ UNCHANGED <<store, tasks, rules, unloaded>>
      BY <2>9 DEF PrepareFails, Enters, memory, starts, Busy
    <3>2. IF req[r].restoring THEN AbortLoose(r) ELSE Abort(r)
      BY <2>9 DEF PrepareFails
    <3> QED
      BY <3>1, <3>2, AbortAgrees, AbortLooseAgrees DEF Untouched
  <2>10. CASE AddTask(r)
    BY <2>10, AddAgrees
  <2>11. CASE EditBegin(r)
    BY <2>11, EditBeginAgrees
  <2>12. CASE DeleteBegin(r)
    BY <2>12, DeleteBeginAgrees
  <2>13. CASE EditFinish(r) \/ DeleteFinish(r)
    BY <2>13, FinishAgrees
  <2> QED
    BY <1>3, <2>1, <2>2, <2>3, <2>4, <2>5, <2>6, <2>7, <2>8, <2>9, <2>10, <2>11, <2>12, <2>13
       DEF Serve
<1>4. ASSUME NEW rule \in Rules, NEW t \in running[rule],
             EvalBegin(rule, t) \/ EvalEnd(rule, t) \/ Terminate(rule, t)
      PROVE  Agreement'
  BY <1>1, <1>4 DEF EvalBegin, EvalEnd, Terminate, starts
<1>5. CASE Restart
  BY <1>5, RestartAgrees
<1>6. CASE UNCHANGED vars
  BY <1>1, <1>6 DEF vars, memory, starts
<1> QED
  BY <1>2, <1>3, <1>4, <1>5, <1>6 DEF Next

\* Whatever requests and failures came one after the other, for any number of
\* rules and requests and over restarts: when the requests for a rule are
\* over, its task is the one of the stored definition, or none, with the
\* exceptions of a rule that is loose or that the last start could not load.
THEOREM StoreMatchesTasksAlways == Spec => []StoreMatchesTasks
<1>1. Init => TypeOK /\ Agreement
  BY TypeInit, AgreementInit
<1>2. TypeOK /\ Agreement /\ [Next]_vars => (TypeOK /\ Agreement)'
  BY MemoryStep, RequestsStep, LocksStep, AgreementStep DEF TypeOK
<1>3. TypeOK /\ Agreement => StoreMatchesTasks
  BY DEF Agreement, Agree, StoreMatchesTasks, Stands, Follows, Exists
<1> QED
  BY <1>1, <1>2, <1>3, PTL DEF Spec
=============================================================================
