---------------------------- MODULE RuleManager -----------------------------
(***************************************************************************)
(* The rule manager: API requests that create, edit, patch and delete rule *)
(* definitions in the SQL store, and the in-memory tasks that evaluate     *)
(* them.  The store is written in transactions, the tasks under m.mtx, and *)
(* syncRuleStateWithTask reads m.tasks under neither.                      *)
(*                                                                         *)
(* One organization.  A request is one HTTP call and is served once; its   *)
(* own name stands for the content it writes.                              *)
(***************************************************************************)
EXTENDS FiniteSets, Naturals, TLC

CONSTANTS
  Rules,          \* rule ids
  Stored,         \* the ids stored when the program starts, a subset of Rules
  Requests,       \* API requests
  Kinds,          \* the kinds of request sent, of "create", "edit", "patch", "delete"
  None,           \* no rule, no task, no request
  CreateDisabled, \* TRUE when a rule may be created in the disabled state
  CommitsFail,    \* TRUE when committing a transaction may fail
  MaxRestarts     \* bound on restarts

ASSUME ManagerAssumption ==
  /\ Stored \subseteq Rules
  /\ Kinds \subseteq {"create", "edit", "patch", "delete"}
  /\ {CreateDisabled, CommitsFail} \subseteq BOOLEAN
  /\ MaxRestarts \in Nat
  /\ None \notin Rules \cup Requests

VARIABLES
  store,      \* the committed definition of each rule, or None
  lock,       \* the request whose transaction has written the rule's row
  tasks,      \* m.tasks
  rules,      \* m.rules: the task whose rule object the API reports on
  running,    \* the tasks of each rule whose goroutine has not terminated
  evaluating, \* those of them in the middle of an iteration
  mtx,        \* the request that holds m.mtx across steps
  req,        \* the progress of each request; loose when nothing keeps the
              \* rule's task and its stored definition together
  restarts,   \* restarts so far
  unloaded    \* the rules that the last start could not load, until a request
              \* for them commits

memory == <<tasks, rules, running, evaluating, mtx>>
starts == <<restarts, unloaded>>
vars == <<store, lock, memory, req, starts>>

-----------------------------------------------------------------------------
\* A stored definition, and the task that was built from one
Definition == [body : Requests \cup {None}, disabled : BOOLEAN]
Task == [def : Definition, by : Requests \cup (0..MaxRestarts), restored : BOOLEAN]

ASSUME NoneAssumption == None \notin Definition \cup Task

Exists(rule) == store[rule] # None

\* The rules that are to be evaluated by the definitions sto
Enabled(sto) == {rule \in Rules : sto[rule] # None /\ ~sto[rule].disabled}

\* The tasks that initiate builds from the definitions sto.  Failing to read
\* the definitions, to parse one or to add its task is logged, and the program
\* runs on without the tasks of the rules lost.
Boot(sto, lost, n) ==
  [rule \in Rules |->
     IF rule \in Enabled(sto) \ lost
     THEN [def |-> sto[rule], by |-> n, restored |-> FALSE] ELSE None]

Idle == [pc |-> "idle", kind |-> None, rule |-> None, disabled |-> FALSE,
         old |-> None, new |-> None, op |-> None, restoring |-> FALSE,
         victim |-> None, loose |-> FALSE]

Busy(r) == req[r].pc \notin {"idle", "done"}

\* A request for the rule is open
Requested(rule) == \E r \in Requests : Busy(r) /\ req[r].rule = rule

Init ==
  /\ store \in [Rules -> {None} \cup [body : {None}, disabled : BOOLEAN]]
  /\ \A rule \in Rules : Exists(rule) <=> rule \in Stored
  /\ unloaded \in SUBSET Enabled(store)
  /\ tasks = Boot(store, unloaded, 0)
  /\ rules = tasks
  /\ running = [rule \in Rules |-> {tasks[rule]} \ {None}]
  /\ evaluating = [rule \in Rules |-> {}]
  /\ mtx = None
  /\ lock = [rule \in Rules |-> None]
  /\ req = [r \in Requests |-> Idle]
  /\ restarts = 0

\* Request r goes on at pc
Goto(r, pc) == req' = [req EXCEPT ![r].pc = pc]

\* Request r ends; what its transaction wrote is rolled back
Abort(r) ==
  /\ Goto(r, "done")
  /\ lock' = [lock EXCEPT ![req[r].rule] = IF @ = r THEN None ELSE @]

\* The same after the rule's task was changed, which nothing undoes
AbortLoose(r) ==
  /\ req' = [req EXCEPT ![r].pc = "done", ![r].loose = TRUE]
  /\ lock' = [lock EXCEPT ![req[r].rule] = IF @ = r THEN None ELSE @]

-----------------------------------------------------------------------------
(* A request arrives and reads the stored rule. *)

\* A rule gets its id when it is created, so nobody refers to it before.
Arrive(r, kind, rule, disabled) ==
  /\ req[r].pc = "idle"
  /\ kind = "create" =>
       /\ ~Exists(rule) /\ rule \notin Stored
       /\ \A other \in Requests : req[other].rule # rule
       /\ disabled => CreateDisabled
  /\ kind # "create" =>
       rule \in Stored \/ \E other \in Requests :
                            req[other].kind = "create" /\ req[other].rule = rule
  /\ kind = "delete" => ~disabled
  /\ req' = [req EXCEPT ![r] =
       [Idle EXCEPT !.pc = IF kind = "create" THEN "write" ELSE "read",
                    !.kind = kind, !.rule = rule, !.disabled = disabled,
                    !.new = [body |-> r, disabled |-> disabled],
                    !.loose = (kind = "create" /\ disabled) \/ Requested(rule)]]
  /\ UNCHANGED <<store, lock, memory, starts>>

\* GetStoredRule, outside any transaction.  A patch writes its attributes over
\* the definition it read: the result is named after the patch, too.
Read(r) ==
  /\ req[r].pc = "read"
  /\ LET old == store[req[r].rule]
     IN  IF old = None
         THEN Goto(r, "done")
         ELSE req' = [req EXCEPT
                ![r].pc  = IF req[r].kind = "patch" THEN "sync" ELSE "write",
                ![r].old = old]
  /\ UNCHANGED <<store, lock, memory, starts>>

-----------------------------------------------------------------------------
(* The store's transaction. *)

NeverRestore(r) == Abort(r)

\* A patch that cannot be stored restores the task of the definition it read.
\* If it changed the condition, the labels or the annotations it changed them
\* in that definition, too, which shares them with the patched one.
RestoreOrAbort(r) ==
  IF req[r].kind = "patch"
  THEN /\ \E inPlace \in BOOLEAN :
            req' = [req EXCEPT
              ![r].pc = "sync",
              ![r].new = [req[r].old EXCEPT !.body = IF inPlace THEN r ELSE @],
              ![r].restoring = TRUE,
              ![r].loose = @ \/ inPlace]
       /\ lock' = [lock EXCEPT ![req[r].rule] = IF @ = r THEN None ELSE @]
  ELSE Abort(r)

\* INSERT, UPDATE or DELETE: waits for the transaction that wrote the row.
\* A row that is gone is no error.
Write(r) ==
  /\ req[r].pc = "write"
  /\ lock[req[r].rule] = None
  /\ lock' = [lock EXCEPT ![req[r].rule] = r]
  /\ Goto(r, IF req[r].kind = "patch" THEN "commit" ELSE "config")
  /\ UNCHANGED <<store, memory, starts>>

WriteFails(r) ==
  /\ req[r].pc = "write"
  /\ RestoreOrAbort(r)
  /\ UNCHANGED <<store, memory, starts>>

\* The callback's first part: the rule's matchers in the Alertmanager's
\* configuration.  Any failure rolls the transaction back.
Configure(r) ==
  /\ req[r].pc = "config"
  /\ req' = [req EXCEPT
       ![r].pc = IF req[r].kind = "edit" THEN "sync" ELSE "task",
       ![r].op = IF req[r].kind = "create" THEN "add"
                 ELSE IF req[r].kind = "delete" THEN "delete" ELSE @]
  /\ UNCHANGED <<store, lock, memory, starts>>

ConfigFails(r) ==
  /\ req[r].pc = "config"
  /\ Abort(r)
  /\ UNCHANGED <<store, memory, starts>>

Commit(r) ==
  /\ req[r].pc = "commit"
  /\ LET rule == req[r].rule
     IN  /\ store' = [store EXCEPT ![rule] =
                        IF req[r].kind = "delete" THEN None
                        ELSE IF @ = None /\ req[r].kind # "create" THEN None
                        ELSE req[r].new]
         /\ unloaded' = unloaded \ {rule}
  /\ Abort(r)
  /\ UNCHANGED <<memory, restarts>>

CommitFails(r) ==
  /\ CommitsFail
  /\ req[r].pc = "commit"
  /\ IF req[r].kind = "patch" THEN RestoreOrAbort(r) ELSE AbortLoose(r)
  /\ UNCHANGED <<store, memory, starts>>

-----------------------------------------------------------------------------
(* syncRuleStateWithTask and the task operations. *)

\* Where request r goes once its task is as it should be
AfterTask(r) == IF req[r].kind # "patch" THEN "commit"
                ELSE IF req[r].restoring THEN "done" ELSE "write"

\* m.tasks is read without m.mtx: the operation is chosen here, done later.
Sync(r) ==
  /\ req[r].pc = "sync"
  /\ LET present == tasks[req[r].rule] # None
     IN  IF req[r].new.disabled /\ ~present
         THEN Goto(r, AfterTask(r))
         ELSE req' = [req EXCEPT
                ![r].pc = "task",
                ![r].op = IF req[r].new.disabled THEN "delete"
                          ELSE IF present THEN "edit" ELSE "add"]
  /\ UNCHANGED <<store, lock, memory, starts>>

NewTask(r) == [def |-> req[r].new, by |-> r, restored |-> req[r].restoring]

\* r is about to lock m.mtx to do op
Enters(r, op) == req[r].pc = "task" /\ req[r].op = op /\ mtx = None

\* prepareTaskFunc rejects the rule before anything is changed.  The definition
\* that a patch restores may be rejected, too: it is stored without the
\* defaults that parsing fills in, such as the rule's type.
PrepareFails(r) ==
  /\ Enters(r, "add") \/ Enters(r, "edit")
  /\ IF req[r].restoring THEN AbortLoose(r) ELSE Abort(r)
  /\ UNCHANGED <<store, memory, starts>>

AddUnchecked(r) ==
  /\ Enters(r, "add")
  /\ LET rule == req[r].rule
     IN  /\ rules' = [rules EXCEPT ![rule] = NewTask(r)]
         /\ tasks' = [tasks EXCEPT ![rule] = NewTask(r)]
         /\ running' = [running EXCEPT ![rule] = @ \cup {NewTask(r)}]
  /\ Goto(r, AfterTask(r))
  /\ UNCHANGED <<store, lock, evaluating, mtx, starts>>

\* addTask; m.rules is overwritten before the name is found to be taken
AddTask(r) ==
  /\ Enters(r, "add")
  /\ LET rule == req[r].rule
     IN  /\ rules' = [rules EXCEPT ![rule] = NewTask(r)]
         /\ IF tasks[rule] = None
            THEN /\ tasks' = [tasks EXCEPT ![rule] = NewTask(r)]
                 /\ running' = [running EXCEPT ![rule] = @ \cup {NewTask(r)}]
                 /\ Goto(r, AfterTask(r))
                 /\ UNCHANGED lock
            ELSE /\ Abort(r)
                 /\ UNCHANGED <<tasks, running>>
  /\ UNCHANGED <<store, evaluating, mtx, starts>>

EditBeginKeepsOld(r) ==
  /\ Enters(r, "edit")
  /\ LET rule == req[r].rule
     IN  /\ rules' = [rules EXCEPT ![rule] = NewTask(r)]
         /\ tasks' = [tasks EXCEPT ![rule] = NewTask(r)]
         /\ running' = [running EXCEPT ![rule] = @ \cup {NewTask(r)}]
  /\ Goto(r, AfterTask(r))
  /\ UNCHANGED <<store, lock, evaluating, mtx, starts>>

\* editTask up to oldTask.Stop(): the old task leaves m.tasks and is told to
\* stop.  Without an old task the new one starts at once.
EditBegin(r) ==
  /\ Enters(r, "edit")
  /\ LET rule == req[r].rule
         old  == tasks[rule]
     IN  /\ rules' = [rules EXCEPT ![rule] = NewTask(r)]
         /\ IF old = None
            THEN /\ tasks' = [tasks EXCEPT ![rule] = NewTask(r)]
                 /\ running' = [running EXCEPT ![rule] = @ \cup {NewTask(r)}]
                 /\ Goto(r, AfterTask(r))
                 /\ UNCHANGED mtx
            ELSE /\ tasks' = [tasks EXCEPT ![rule] = None]
                 /\ mtx' = r
                 /\ req' = [req EXCEPT ![r].pc = "stopping", ![r].victim = old]
                 /\ UNCHANGED running
  /\ UNCHANGED <<store, lock, evaluating, starts>>

EditFinishKeepsLock(r) ==
  /\ req[r].pc = "stopping" /\ req[r].op = "edit"
  /\ LET rule == req[r].rule
     IN  /\ req[r].victim \notin running[rule]
         /\ running' = [running EXCEPT ![rule] = @ \cup {NewTask(r)}]
         /\ tasks' = [tasks EXCEPT ![rule] = NewTask(r)]
  /\ Goto(r, AfterTask(r))
  /\ UNCHANGED <<store, lock, rules, evaluating, mtx, starts>>

\* The old task has terminated: its state is copied, the new one starts.
EditFinish(r) ==
  /\ req[r].pc = "stopping" /\ req[r].op = "edit"
  /\ LET rule == req[r].rule
     IN  /\ req[r].victim \notin running[rule]
         /\ running' = [running EXCEPT ![rule] = @ \cup {NewTask(r)}]
         /\ tasks' = [tasks EXCEPT ![rule] = NewTask(r)]
  /\ mtx' = None
  /\ Goto(r, AfterTask(r))
  /\ UNCHANGED <<store, lock, rules, evaluating, starts>>

\* deleteTask up to oldg.Stop(); the task stays in m.tasks meanwhile.
DeleteBegin(r) ==
  /\ Enters(r, "delete")
  /\ IF tasks[req[r].rule] = None
     THEN Goto(r, AfterTask(r)) /\ UNCHANGED mtx
     ELSE /\ req' = [req EXCEPT ![r].pc = "stopping",
                                ![r].victim = tasks[req[r].rule]]
          /\ mtx' = r
  /\ UNCHANGED <<store, lock, tasks, rules, running, evaluating, starts>>

DeleteFinish(r) ==
  /\ req[r].pc = "stopping" /\ req[r].op = "delete"
  /\ LET rule == req[r].rule
     IN  /\ req[r].victim \notin running[rule]
         /\ tasks' = [tasks EXCEPT ![rule] = None]
         /\ rules' = [rules EXCEPT ![rule] = None]
  /\ mtx' = None
  /\ Goto(r, AfterTask(r))
  /\ UNCHANGED <<store, lock, running, evaluating, starts>>

-----------------------------------------------------------------------------
(* The tasks' goroutines, and restarts. *)

\* Someone waits in Stop for the rule's task t to terminate
Stopping(rule, t) ==
  \E r \in Requests : req[r].pc = "stopping" /\ req[r].rule = rule /\ req[r].victim = t

\* A task that is told to stop may still take a tick that is due at once.
EvalBegin(rule, t) ==
  /\ t \in running[rule] \ evaluating[rule]
  /\ evaluating' = [evaluating EXCEPT ![rule] = @ \cup {t}]
  /\ UNCHANGED <<store, lock, tasks, rules, running, mtx, req, starts>>

\* After an iteration a task that was told to stop terminates.
EvalEnd(rule, t) ==
  /\ t \in evaluating[rule]
  /\ evaluating' = [evaluating EXCEPT ![rule] = @ \ {t}]
  /\ running' = [running EXCEPT ![rule] = IF Stopping(rule, t) THEN @ \ {t} ELSE @]
  /\ UNCHANGED <<store, lock, tasks, rules, mtx, req, starts>>

\* Between iterations it terminates at once.
Terminate(rule, t) ==
  /\ t \in running[rule] \ evaluating[rule]
  /\ Stopping(rule, t)
  /\ running' = [running EXCEPT ![rule] = @ \ {t}]
  /\ UNCHANGED <<store, lock, tasks, rules, evaluating, mtx, req, starts>>

\* A crash (among them Go's fatal "concurrent map read and map write", which
\* the unlocked reads of m.tasks and m.rules risk) or a shutdown, and a start.
Restart ==
  /\ restarts < MaxRestarts
  /\ restarts' = restarts + 1
  /\ unloaded' \in SUBSET Enabled(store)
  /\ tasks' = Boot(store, unloaded', restarts')
  /\ rules' = tasks'
  /\ running' = [rule \in Rules |-> {tasks'[rule]} \ {None}]
  /\ evaluating' = [rule \in Rules |-> {}]
  /\ mtx' = None
  /\ lock' = [rule \in Rules |-> None]
  /\ req' = [r \in Requests |-> [req[r] EXCEPT !.pc = IF Busy(r) THEN "done" ELSE @,
                                               !.loose = FALSE]]
  /\ UNCHANGED store

Serve(r) ==
  \/ Read(r)
  \/ Write(r) \/ WriteFails(r)
  \/ Configure(r) \/ ConfigFails(r)
  \/ Commit(r) \/ CommitFails(r)
  \/ Sync(r)
  \/ PrepareFails(r)
  \/ AddTask(r)
  \/ EditBegin(r) \/ EditFinish(r)
  \/ DeleteBegin(r) \/ DeleteFinish(r)

Next ==
  \/ \E r \in Requests, kind \in Kinds, rule \in Rules, disabled \in BOOLEAN :
       Arrive(r, kind, rule, disabled)
  \/ \E r \in Requests : Serve(r)
  \/ \E rule \in Rules : \E t \in running[rule] :
       EvalBegin(rule, t) \/ EvalEnd(rule, t) \/ Terminate(rule, t)
  \/ Restart

\* A request's goroutine runs, the row lock and m.mtx are handed to waiters
\* (Go's mutex does not starve them), and every evaluation ends: the
\* ClickHouse client's read timeout bounds the query it waits for.
Fairness ==
  /\ \A r \in Requests : SF_vars(Serve(r))
  /\ \A rule \in Rules : WF_vars(\E t \in running[rule] : \/ EvalEnd(rule, t)
                                                          \/ Terminate(rule, t))

Spec == Init /\ [][Next]_vars /\ Fairness

-----------------------------------------------------------------------------
(* Properties. *)

Request == [pc : {"idle", "read", "write", "config", "sync", "task", "stopping",
                  "commit", "done"},
            kind : Kinds \cup {None}, rule : Rules \cup {None}, disabled : BOOLEAN,
            old : Definition \cup {None}, new : Definition \cup {None},
            op : {None, "add", "edit", "delete"}, restoring : BOOLEAN,
            victim : Task \cup {None}, loose : BOOLEAN]

MemoryOK ==
  /\ store \in [Rules -> Definition \cup {None}]
  /\ tasks \in [Rules -> Task \cup {None}]
  /\ rules \in [Rules -> Task \cup {None}]
  /\ running \in [Rules -> SUBSET Task]
  /\ evaluating \in [Rules -> SUBSET Task]
  /\ \A rule \in Rules : evaluating[rule] \subseteq running[rule]
  /\ restarts \in 0..MaxRestarts
  /\ unloaded \subseteq Rules

RequestsOK ==
  /\ req \in [Requests -> Request]
  /\ \A r \in Requests : req[r].pc # "idle" =>
       req[r].rule \in Rules /\ req[r].new \in Definition
  /\ \A r \in Requests :
       (req[r].kind = "patch" /\ req[r].pc \notin {"idle", "read", "done"}) =>
         req[r].old \in Definition

LocksOK ==
  /\ mtx \in Requests \cup {None}
  /\ \A r \in Requests : req[r].pc = "stopping" <=> mtx = r
  /\ lock \in [Rules -> Requests \cup {None}]
  /\ \A rule \in Rules : lock[rule] # None =>
       LET r == lock[rule]
       IN  /\ req[r].rule = rule
           /\ IF req[r].kind = "patch" THEN req[r].pc = "commit"
              ELSE req[r].pc \in {"config", "sync", "task", "stopping", "commit"}

\* m.mtx is held exactly by the request that waits for a task to stop, and a
\* row lock only by the request whose transaction is open on that row.
TypeOK == MemoryOK /\ RequestsOK /\ LocksOK

\* Whatever requests race on a rule, no two goroutines ever evaluate it at
\* once (they would send its alerts twice and fight over its history).
AtMostOneRunner == \A rule \in Rules : Cardinality(running[rule]) <= 1

\* No goroutine evaluates a rule out of the manager's reach: it is the task
\* in m.tasks, or one that somebody is waiting for; and no task in m.tasks is
\* dead, unless it is about to be removed.
NoOrphanRunner ==
  \A rule \in Rules :
    /\ \A t \in running[rule] : t = tasks[rule] \/ Stopping(rule, t)
    /\ tasks[rule] # None =>
         tasks[rule] \in running[rule] \/ Stopping(rule, tasks[rule])

\* All requests for the rule are over
Settled(rule) == ~Requested(rule)

\* Since the last start no two requests for the rule overlapped, it was not
\* created disabled, no commit failed after its task was changed by another
\* request than a patch, and each patch that was undone restored the
\* definition it had read: the restore did not fail, and the patch had left
\* the condition and the maps alone.
Orderly(rule) == \A r \in Requests : req[r].rule = rule => ~req[r].loose

\* Whatever requests and failures came one after the other, a settled rule is
\* evaluated by a task exactly when it is stored and enabled,
\* from the definition that is stored ("ensures that the state of a stored
\* rule matches the task state"), and m.rules reports on that task.  The
\* exceptions are those of Orderly, and a rule that the last start could not
\* load, which goes without a task until a request for it succeeds.
StoreMatchesTasks ==
  \A rule \in Rules :
    Settled(rule) /\ Orderly(rule) =>
      /\ IF Exists(rule) /\ ~store[rule].disabled
         THEN IF tasks[rule] = None THEN rule \in unloaded
              ELSE tasks[rule].def = store[rule]
         ELSE tasks[rule] = None
      /\ rules[rule] = tasks[rule]


\* Every request is answered: no wait for a row, for m.mtx or for a task's
\* iteration lasts for ever.
RequestsEnd == \A r \in Requests : Busy(r) ~> ~Busy(r)
=============================================================================
