----------------------------- MODULE CCOperation -----------------------------
(***************************************************************************)
(* The CruiseControlOperation controller                                   *)
(* (controllers/cruisecontroloperation_controller.go), the TTL controller  *)
(* (controllers/cruisecontroloperation_ttl_controller.go) and Cruise       *)
(* Control as both see it.                                                 *)
(*                                                                         *)
(* One reconcile is a chain of steps of a single worker                    *)
(* (MaxConcurrentReconciles 1), split at every access to the API server or *)
(* to Cruise Control; everybody else runs in between.  The worker decides  *)
(* on mem, the snapshot taken by its List.  The API server's optimistic    *)
(* concurrency (resourceVersion) is the set stale: the listed objects that *)
(* somebody else has written since the snapshot; a write of one of them is *)
(* a Conflict.                                                             *)
(*                                                                         *)
(* Simplifications: one namespace and one KafkaCluster; requeue delays are *)
(* arbitrary; objects are named by their creation order, and two objects   *)
(* created within the same second are not modelled; requests to the API    *)
(* server fail only by Conflict or NotFound.                               *)
(***************************************************************************)
EXTENDS CCOperationTypes, FiniteSets

CONSTANTS
  Ops,         \* names of the operations, by creation order
  TaskIds,     \* the user task IDs Cruise Control may hand out (a bound)
  KindOf,      \* the operation each object is created for
  PolicyOf,    \* the error policy each object is created with
  TTLOps,      \* the objects created with Spec.TTLSecondsAfterFinished
  HistoryMax,  \* defaultFailedTasksHistoryMaxLength
  Outcomes,    \* what may become of a request to Cruise Control
  MaxEdits,    \* bound on the writes of users
  MaxCrashes   \* bound on the operator's restarts

NoOp == 0

\* "accepted": the task is created.  "rejected": an error response that names a
\* task.  "refused": an error response without a task ID.  "unreachable": no
\* response.  "lostreply": the task is created and the response is lost.
\* "invalid": the parameters cannot be parsed, nothing is sent.  "nodisks":
\* remove_disks with no log directories, nothing is sent.
AllOutcomes == {"accepted", "rejected", "refused", "unreachable", "lostreply",
                "invalid", "nodisks"}

ASSUME OpsAssumption == Ops \subseteq Nat \ {0}
ASSUME TaskIdsAssumption == TaskIds \subseteq Nat \ {0}
ASSUME KindOfAssumption == KindOf \in [Ops -> Kinds]
ASSUME PolicyOfAssumption == PolicyOf \in [Ops -> Policies]
ASSUME BoundsAssumption ==
  /\ TTLOps \subseteq Ops /\ Outcomes \subseteq AllOutcomes
  /\ HistoryMax \in Nat \ {0} /\ MaxEdits \in Nat /\ MaxCrashes \in Nat

VARIABLES
  \* the API server
  api,         \* the CruiseControlOperation objects
  cluster,     \* the KafkaCluster exists
  elapsed,     \* objects whose Finished time is older than the retry backoff
  \* the work queues
  queue,       \* requests of the CruiseControlOperation controller
  ttlQueue,    \* requests, delayed ones included, of the TTL controller
  \* Cruise Control
  cc,          \* its user tasks
  statusTask,  \* a Status operation with a running task exists
  \* the controller's worker
  pc, cur, mem, stale, dirty, inExecution, target, result,
  \* bounds
  edits, crashes

apiVars == <<api, elapsed, ttlQueue>>
workerVars == <<pc, cur, mem, stale, dirty, inExecution, target, result>>
boundVars == <<edits, crashes>>
vars == <<api, cluster, elapsed, queue, ttlQueue, cc, statusTask,
          pc, cur, mem, stale, dirty, inExecution, target, result,
          edits, crashes>>

NoMem == [o \in Ops |-> Unborn]
NoResult == [id |-> NoId, state |-> "", dated |-> FALSE]

\* A user task of Cruise Control: its owner is the object it was started for.
\* "unused" IDs are still to be handed out, "evicted" tasks are forgotten.
UserTask ==
  [ state : {"unused", "evicted"} \cup RunningStates \cup EndStates,
    owner : Ops \cup {NoOp},
    kind  : {""} \cup ValidOperations ]

UnusedTask == [state |-> "unused", owner |-> NoOp, kind |-> ""]

PCs == {"idle", "finalize", "addfinalizer", "status", "tasks", "update",
        "pause", "execute", "write"}

Init ==
  /\ api = NoMem /\ cluster = TRUE /\ elapsed = {}
  /\ queue = {} /\ ttlQueue = {}
  /\ cc = [t \in TaskIds |-> UnusedTask] /\ statusTask = FALSE
  /\ pc = "idle" /\ cur = NoOp /\ mem = NoMem /\ stale = {} /\ dirty = {}
  /\ inExecution = FALSE /\ target = NoOp /\ result = NoResult
  /\ edits = 0 /\ crashes = 0

-----------------------------------------------------------------------------
(***************************** The API server ****************************)

CurrentTask(op) == <<op.operation, op.state, op.id, op.finished>>

\* Mutant: changes of the task are not an event.
UpdateEventNoTask(old, new) ==
  \/ new.phase = "gone"
  \/ /\ ~IsDone(new) \/ new.deleting
     /\ \/ old.deleting \/ new.deleting
        \/ old.paused # new.paused
        \/ old.policy # new.policy

\* Mutant: an operation that is done is left alone even when it is deleted.
UpdateEventNotDone(old, new) ==
  \/ new.phase = "gone"
  \/ /\ ~IsDone(new)
     /\ \/ CurrentTask(old) # CurrentTask(new)
        \/ old.deleting \/ new.deleting
        \/ old.paused # new.paused
        \/ old.policy # new.policy

\* The event filters of SetupCruiseControlOperationWithManager.  An update is
\* worth a reconcile when the task, the deletion timestamp (pointers are
\* compared: two set ones always differ), the pause label or the generation
\* changed; deletions are not filtered.
UpdateEvent(old, new) ==
  \/ new.phase = "gone"
  \/ /\ ~IsDone(new) \/ new.deleting
     /\ \/ CurrentTask(old) # CurrentTask(new)
        \/ old.deleting \/ new.deleting
        \/ old.paused # new.paused
        \/ old.policy # new.policy

CreateEvent(op) ==
  op.phase = "live" /\ (~IsDone(op) \/ op.deleting) /\ op.operation # ""

\* The filter of SetupCruiseControlOperationTTLWithManager.
TTLEvent(o, op) ==
  op.phase = "live" /\ IsFinished(op) /\ o \in TTLOps /\ ~op.deleting

Woken(o, new) ==
  {p \in {o} : IF api[o].phase = "unborn" THEN CreateEvent(new) ELSE UpdateEvent(api[o], new)}

\* A successful write of object o.  A new Finished time restarts its backoff.
Store(o, new) ==
  /\ api' = [api EXCEPT ![o] = new]
  /\ ttlQueue' = ttlQueue \cup (IF TTLEvent(o, new) THEN {o} ELSE {})
  /\ elapsed' = IF new.finished = api[o].finished THEN elapsed ELSE elapsed \ {o}

\* A write by anybody but the worker.
ExternalWrite(o, new) ==
  /\ Store(o, new)
  /\ queue' = queue \cup Woken(o, new)
  /\ stale' = IF mem[o].phase = "live" THEN stale \cup {o} ELSE stale
  /\ UNCHANGED <<pc, cur, mem, dirty, inExecution, target, result>>

\* Mutant: writes ignore the resourceVersion.
WritableForced(o) == api[o].phase = "live"

\* The worker's write of o succeeds; otherwise it is answered with Conflict or
\* with NotFound.
Writable(o) == api[o].phase = "live" /\ o \notin stale

-----------------------------------------------------------------------------
(*************************** updateResult ********************************)

\* Mutants: an unknown task is not handled; a task that is not yet in execution
\* counts as failed.
PolledStateRaw(t) == cc[t].state
PolledStateHasty(t) ==
  IF cc[t].state \in {"evicted", "Active"} THEN "CompletedWithError"
                                           ELSE cc[t].state

\* updateResult(..., isAfterExecution = false) with the state polled from
\* Cruise Control; a task it no longer knows counts as failed.
PolledState(t) == IF cc[t].state = "evicted" THEN "CompletedWithError"
                                             ELSE cc[t].state

Polled(op) ==
  LET s == PolledState(op.id)
  IN  [op EXCEPT !.state = s, !.finished = op.finished \/ s \in EndStates]

\* Mutant: off by one at the maximal length.
PushFailedLate(history, id) ==
  IF Len(history) > HistoryMax THEN Append(Tail(history), id)
                               ELSE Append(history, id)

PushFailed(history, id) ==
  IF Len(history) >= HistoryMax THEN Append(Tail(history), id)
                                ELSE Append(history, id)

\* The first half of updateResult(..., isAfterExecution = true): the Finished
\* time is set, and a failed previous task is moved to the history.
Archived(op, res) ==
  LET marked == [op EXCEPT !.finished = op.finished \/ res.state \in EndStates]
  IN  IF marked.finished /\ op.state = "CompletedWithError"
      THEN SetDefaults([marked EXCEPT !.failed = PushFailed(op.failed, op.id),
                                      !.retries = op.retries + 1])
      ELSE marked

\* Started is nil (the state is empty) and the response carries no date:
\* parsing it fails and so does updateResult.
Unparsable(op, res) == Archived(op, res).state = "" /\ ~res.dated

AfterExecution(op, res) ==
  [Archived(op, res) EXCEPT !.id = res.id, !.state = res.state]

-----------------------------------------------------------------------------
(***************** The queues of sortOperations **************************)

\* Mutant: operations that are done are not filtered out.
FilteredDoneToo == {o \in Ops : /\ mem[o].phase = "live"
                                /\ IsCurrentTaskOperationValid(mem[o])}

Filtered == {o \in Ops : /\ mem[o].phase = "live"
                         /\ IsCurrentTaskOperationValid(mem[o])
                         /\ ~IsDone(mem[o])}

StopQueue == {o \in Filtered : IsWaitingForFinalization(mem[o])}
FirstQueue == {o \in Filtered \ StopQueue : IsWaitingForFirstExecution(mem[o])}
RetryQueue == {o \in Filtered \ StopQueue : IsWaitingForRetryExecution(mem[o])}
ProgressQueue == {o \in Filtered \ StopQueue : IsInProgress(mem[o])}

\* executionPriorityMap; stop_execution is not in the map.
Priority(op) ==
  CASE op.operation = "add_broker" -> 3
    [] op.operation = "remove_broker" -> 2
    [] op.operation = "remove_disks" -> 1
    [] OTHER -> 0

Before(a, b) ==
  \/ Priority(mem[a]) > Priority(mem[b])
  \/ Priority(mem[a]) = Priority(mem[b]) /\ a < b

\* x is getFirstOperation of queue Q.
IsHead(x, Q) == x \in Q /\ \A y \in Q \ {x} : Before(x, y)

\* Mutant: the backoff is computed from a Finished time that is not set.
IsReadyForRetryExecutionUnset(o) ==
  IsWaitingForRetryExecution(mem[o]) /\ ~mem[o].finished /\ o \in elapsed

IsReadyForRetryExecution(o) ==
  IsWaitingForRetryExecution(mem[o]) /\ mem[o].finished /\ o \in elapsed

-----------------------------------------------------------------------------
(************************ The worker: Reconcile **************************)

\* The reconcile ends; q is the work queue it leaves behind.
Finish(q) ==
  /\ queue' = q
  /\ pc' = "idle" /\ cur' = NoOp /\ mem' = NoMem /\ stale' = {} /\ dirty' = {}
  /\ inExecution' = FALSE /\ target' = NoOp /\ result' = NoResult

Reconciled == Finish(queue)
Requeue == Finish(queue \cup {cur})

Goto(label) ==
  /\ pc' = label
  /\ UNCHANGED <<queue, cur, mem, stale, dirty, inExecution, target, result>>

\* Mutant: the fast path does not ask whether the operation is done.
AfterListHasty(op) ==
  CASE IsFinalizerNeeded(op)                -> "finalize"
    [] ~IsCurrentTaskOperationValid(op)     -> "idle"
    [] ~cluster /\ ~op.deleting             -> "idle"
    [] ~op.deleting /\ ~op.finalizer        -> "addfinalizer"
    [] OTHER                                -> "status"

\* The snapshot, and the early returns up to the finalizer.
AfterList(op) ==
  CASE IsFinalizerNeeded(op) /\ IsDone(op)  -> "finalize"
    [] ~IsCurrentTaskOperationValid(op)     -> "idle"
    [] ~cluster /\ op.deleting              -> "finalize"
    [] ~cluster /\ ~op.deleting             -> "idle"
    [] ~op.deleting /\ ~op.finalizer        -> "addfinalizer"
    [] OTHER                                -> "status"

ListOperations(o) ==
  /\ pc = "idle" /\ o \in queue
  /\ IF api[o].phase = "live" /\ AfterList(api[o]) # "idle"
     THEN /\ pc' = AfterList(api[o]) /\ cur' = o
          /\ mem' = [p \in Ops |-> IF api[p].phase = "live" THEN api[p] ELSE Unborn]
          /\ queue' = queue \ {o}
          /\ UNCHANGED <<stale, dirty, inExecution, target, result>>
     ELSE Finish(queue \ {o})
  /\ UNCHANGED <<apiVars, cluster, cc, statusTask, boundVars>>

RemoveFinalizer ==
  /\ pc = "finalize"
  /\ \/ /\ Writable(cur)
        /\ Store(cur, WithoutFinalizer(api[cur]))
        /\ Finish(queue \cup Woken(cur, WithoutFinalizer(api[cur])))
     \/ ~Writable(cur) /\ Requeue /\ UNCHANGED apiVars
  /\ UNCHANGED <<cluster, cc, statusTask, boundVars>>

AddFinalizer ==
  /\ pc = "addfinalizer"
  /\ \/ /\ Writable(cur)
        /\ Store(cur, [api[cur] EXCEPT !.finalizer = TRUE])
        /\ mem' = [mem EXCEPT ![cur].finalizer = TRUE]
        /\ pc' = "status"
        /\ UNCHANGED <<queue, cur, stale, dirty, inExecution, target, result>>
     \/ ~Writable(cur) /\ Requeue /\ UNCHANGED apiVars
  /\ UNCHANGED <<cluster, cc, statusTask, boundVars>>

ExecutorBusy == \E t \in TaskIds : cc[t].state = "InExecution"

\* getStatus: Cruise Control answers at once, or turns the request into a task
\* that a Status operation tracks; the answer of such a task describes a moment
\* between its creation and now.
GetStatus(busy) ==
  /\ pc = "status"
  /\ statusTask \/ busy = ExecutorBusy
  /\ statusTask' = FALSE
  /\ pc' = "tasks" /\ inExecution' = busy
  /\ UNCHANGED <<apiVars, cluster, queue, cc, cur, mem, stale, dirty, target,
                 result, boundVars>>

\* getStatus fails, the Status task is started or still active or ended without
\* an answer, or Cruise Control is not ready.
GetStatusFails ==
  /\ pc = "status"
  /\ statusTask' \in BOOLEAN
  /\ Requeue
  /\ UNCHANGED <<apiVars, cluster, cc, boundVars>>

\* updateCurrentTasks, first half: poll Cruise Control and update the snapshot.
UpdateCurrentTasks ==
  /\ pc = "tasks"
  /\ LET polled == {o \in Filtered : mem[o].id # NoId}
         new == [o \in Ops |-> IF o \in polled THEN Polled(mem[o]) ELSE mem[o]]
     IN  /\ mem' = new
         /\ dirty' = {o \in polled : new[o] # mem[o]}
  /\ pc' = "update"
  /\ UNCHANGED <<apiVars, cluster, queue, cc, statusTask, cur, stale,
                 inExecution, target, result, boundVars>>

UserTasksFails ==
  /\ pc = "tasks" /\ Requeue
  /\ UNCHANGED <<apiVars, cluster, cc, statusTask, boundVars>>

\* updateCurrentTasks, second half: write one of the statuses that changed.
UpdateTaskStatus(o) ==
  /\ pc = "update" /\ o \in dirty
  /\ \/ /\ Writable(o)
        /\ Store(o, mem[o])
        /\ queue' = queue \cup Woken(o, mem[o])
        /\ dirty' = dirty \ {o}
        /\ UNCHANGED <<pc, cur, mem, stale, inExecution, target, result>>
     \/ ~Writable(o) /\ Requeue /\ UNCHANGED apiVars
  /\ UNCHANGED <<cluster, cc, statusTask, boundVars>>

(********************* selectOperationForExecution ***********************)

AddBrokerWaiting ==
  \E x \in FirstQueue : IsHead(x, FirstQueue) /\ mem[x].operation = "add_broker"

WaitingRebalances == {x \in FirstQueue : mem[x].operation = "rebalance"}

\* A failed remove_disks that the user has rolled back.
RolledBack(r) == mem[r].operation = "remove_disks" /\ WaitingRebalances # {}

\* The failed operation r is next in line.
RetryTurn(r) == StopQueue = {} /\ ~AddBrokerWaiting /\ IsHead(r, RetryQueue)

\* selectOperationForExecution returns x without writing anything.
Selects(x) ==
  \/ IsHead(x, StopQueue)
  \/ StopQueue = {} /\ AddBrokerWaiting /\ IsHead(x, FirstQueue)
  \/ RetryTurn(x) /\ ~RolledBack(x) /\ IsReadyForRetryExecution(x)
  \/ /\ StopQueue = {} /\ ~AddBrokerWaiting
     /\ \A r \in Ops : RetryTurn(r) =>
                         ~RolledBack(r) /\ ~IsReadyForRetryExecution(r)
     /\ IsHead(x, FirstQueue)

\* It pauses the failed remove_disks r and returns the rebalance x.
Pauses(r, x) == RetryTurn(r) /\ RolledBack(r) /\ IsHead(x, WaitingRebalances)

\* Mutant: only Cruise Control's own state is asked.
MayExecuteIdle(x) == ~inExecution \/ mem[x].operation = "stop_execution"

\* Only a stop_execution may be sent while Cruise Control executes something.
MayExecute(x) ==
  (~inExecution /\ ProgressQueue = {}) \/ mem[x].operation = "stop_execution"

Execute(x, m) ==
  /\ pc' = "execute" /\ target' = x /\ mem' = m
  /\ UNCHANGED <<queue, cur, stale, dirty, inExecution, result>>

SelectOperation ==
  /\ pc = "update" /\ dirty = {}
  /\ IF IsFinalizerNeeded(mem[cur]) /\ ~IsCurrentTaskRunning(mem[cur])
     THEN Goto("finalize")
     ELSE \/ /\ StopQueue \cup FirstQueue \cup RetryQueue \cup ProgressQueue = {}
             /\ Reconciled
          \/ \E x \in StopQueue :
               /\ Selects(x)
               /\ Execute(x, [mem EXCEPT ![x].operation = "stop_execution"])
          \/ \E x \in Ops \ StopQueue :
               /\ Selects(x)
               /\ IF MayExecute(x) THEN Execute(x, mem) ELSE Requeue
          \/ \E r, x \in Ops :
               /\ Pauses(r, x)
               /\ pc' = "pause" /\ target' = x
               /\ UNCHANGED <<queue, cur, mem, stale, dirty, inExecution, result>>
          \/ /\ StopQueue \cup FirstQueue \cup RetryQueue \cup ProgressQueue # {}
             /\ \A x \in Ops : ~Selects(x) /\ \A r \in Ops : ~Pauses(r, x)
             /\ Requeue
  /\ UNCHANGED <<apiVars, cluster, cc, statusTask, boundVars>>

\* The pause label is put on the failed remove_disks and the rebalance follows.
PauseRetry ==
  /\ pc = "pause"
  /\ \E r \in Ops :
       /\ IsHead(r, RetryQueue)
       /\ \/ /\ Writable(r)
             /\ LET op == [api[r] EXCEPT !.paused = TRUE]
                    m  == [mem EXCEPT ![r] = op]
                IN  /\ Store(r, op)
                    /\ IF MayExecute(target)
                       THEN /\ queue' = queue \cup Woken(r, op)
                            /\ pc' = "execute" /\ mem' = m
                            /\ UNCHANGED <<cur, stale, dirty, inExecution,
                                           target, result>>
                       ELSE Finish(queue \cup {cur} \cup Woken(r, op))
          \/ ~Writable(r) /\ Requeue /\ UNCHANGED apiVars
  /\ UNCHANGED <<cluster, cc, statusTask, boundVars>>

(*************************** executeOperation ****************************)

\* A request that reaches Cruise Control becomes task t in state s.  IDs are only
\* ever compared for equality, so the order they are handed out in is immaterial.
NewTask(t, s) ==
  /\ cc[t].state = "unused" /\ \A u \in TaskIds : u < t => cc[u].state # "unused"
  /\ cc' = [cc EXCEPT ![t] = [state |-> s, owner |-> target,
                              kind |-> mem[target].operation]]

Answer(id, s, dated) ==
  /\ result' = [id |-> id, state |-> s, dated |-> dated]
  /\ pc' = "write"
  /\ UNCHANGED <<queue, cur, mem, stale, dirty, inExecution, target>>

ExecuteOperation(outcome) ==
  /\ pc = "execute" /\ outcome \in Outcomes
  /\ \/ /\ outcome = "accepted"
        /\ \E t \in TaskIds : NewTask(t, "Active") /\ Answer(t, "Active", TRUE)
     \/ /\ outcome = "rejected"
        /\ \E t \in TaskIds : /\ NewTask(t, "CompletedWithError")
                              /\ Answer(t, "CompletedWithError", TRUE)
     \/ /\ outcome = "refused"
        /\ Answer(NoId, "CompletedWithError", TRUE) /\ UNCHANGED cc
     \/ /\ outcome = "unreachable"
        /\ Answer(NoId, "CompletedWithError", FALSE) /\ UNCHANGED cc
     \/ /\ outcome = "lostreply"
        /\ \E t \in TaskIds : NewTask(t, "Active")
        /\ Answer(NoId, "CompletedWithError", FALSE)
     \/ /\ outcome = "invalid" /\ mem[target].operation # "stop_execution"
        /\ Requeue /\ UNCHANGED cc
     \/ /\ outcome = "nodisks" /\ mem[target].operation = "remove_disks"
        /\ Answer(NoId, "Completed", FALSE) /\ UNCHANGED cc
  /\ UNCHANGED <<apiVars, cluster, statusTask, boundVars>>

\* conflictRetryFunction: a Conflict is answered by reading the object again,
\* whose success ends the retries; nothing is written and the reconcile ends as
\* if it were.
WriteResult ==
  /\ pc = "write"
  /\ LET new == AfterExecution(mem[target], result)
     IN  \/ Unparsable(mem[target], result) /\ Requeue /\ UNCHANGED apiVars
         \/ /\ ~Unparsable(mem[target], result) /\ Writable(target)
            /\ Store(target, new)
            /\ Finish(queue \cup Woken(target, new))
         \/ /\ ~Unparsable(mem[target], result) /\ ~Writable(target)
            /\ IF api[target].phase = "live" THEN Reconciled ELSE Requeue
            /\ UNCHANGED apiVars
  /\ UNCHANGED <<cluster, cc, statusTask, boundVars>>

-----------------------------------------------------------------------------
(************************* The other actors ******************************)

\* createCCOperation of the CruiseControlTask controller: the object, then its
\* status.
CreateOperation(o) ==
  /\ cluster /\ api[o].phase = "unborn"
  /\ \A p \in Ops : p < o => api[p].phase # "unborn"
  /\ ExternalWrite(o, [Unborn EXCEPT !.phase = "live", !.policy = PolicyOf[o]])
  /\ UNCHANGED <<cluster, cc, statusTask, boundVars>>

SetCurrentTask(o) ==
  /\ api[o].phase = "live" /\ api[o].operation = ""
  /\ ExternalWrite(o, [api[o] EXCEPT !.operation = KindOf[o]])
  /\ UNCHANGED <<cluster, cc, statusTask, boundVars>>

\* Users pause, resume, change the error policy of and delete operations.
UserEdit(o, new) ==
  /\ api[o].phase = "live" /\ edits < MaxEdits
  /\ edits' = edits + 1
  /\ ExternalWrite(o, new)
  /\ UNCHANGED <<cluster, cc, statusTask, crashes>>

TogglePause(o) == UserEdit(o, [api[o] EXCEPT !.paused = ~@])
EditErrorPolicy(o) ==
  UserEdit(o, [api[o] EXCEPT !.policy = IF @ = "retry" THEN "ignore" ELSE "retry"])
DeleteOperation(o) == ~api[o].deleting /\ UserEdit(o, Deleted(api[o]))

\* The KafkaCluster is deleted, and the garbage collector deletes what it owns.
DeleteCluster ==
  /\ cluster /\ edits < MaxEdits
  /\ cluster' = FALSE /\ edits' = edits + 1
  /\ UNCHANGED <<apiVars, queue, cc, statusTask, workerVars, crashes>>

CollectGarbage(o) ==
  /\ ~cluster /\ api[o].phase = "live" /\ ~api[o].deleting
  /\ ExternalWrite(o, Deleted(api[o]))
  /\ UNCHANGED <<cluster, cc, statusTask, boundVars>>

\* Reconcile of the TTL controller, when the delay it asked for has passed.
TTLReconcile(o) ==
  /\ o \in ttlQueue
  /\ IF api[o].phase = "live" /\ api[o].finished /\ ~api[o].deleting
     THEN /\ api' = [api EXCEPT ![o] = Deleted(api[o])]
          /\ queue' = queue \cup Woken(o, Deleted(api[o]))
          /\ stale' = IF mem[o].phase = "live" THEN stale \cup {o} ELSE stale
     ELSE UNCHANGED <<api, queue, stale>>
  /\ ttlQueue' = ttlQueue \ {o}
  /\ UNCHANGED <<cluster, elapsed, cc, statusTask, pc, cur, mem, dirty,
                 inExecution, target, result, boundVars>>

\* DefaultRetryBackOffDurationSec has passed since the Finished time of a failed
\* task.
BackoffElapses(o) ==
  /\ api[o].phase = "live" /\ api[o].finished /\ o \notin elapsed
  /\ api[o].state = "CompletedWithError"
  /\ elapsed' = elapsed \cup {o}
  /\ UNCHANGED <<api, ttlQueue, cluster, queue, cc, statusTask, workerVars,
                 boundVars>>

\* The operator restarts: what the worker and the queues hold is lost, and every
\* object comes back as a create event.
Restart ==
  /\ crashes < MaxCrashes /\ crashes' = crashes + 1
  /\ Finish({o \in Ops : CreateEvent(api[o])})
  /\ ttlQueue' = {o \in Ops : TTLEvent(o, api[o])}
  /\ UNCHANGED <<api, elapsed, cluster, cc, statusTask, edits>>

(************************ Cruise Control (external) **********************)

SetTaskState(t, s) ==
  /\ cc' = [cc EXCEPT ![t].state = s]
  /\ UNCHANGED <<apiVars, cluster, queue, statusTask, workerVars, boundVars>>

\* One proposal is executed at a time.
StartExecution(t) ==
  /\ cc[t].state = "Active" /\ cc[t].kind \in Kinds /\ ~ExecutorBusy
  /\ SetTaskState(t, "InExecution")

EndTask(t, s) ==
  /\ cc[t].state \in RunningStates /\ cc[t].kind \in Kinds /\ s \in EndStates
  /\ SetTaskState(t, s)

\* A stop_execution ends what is being executed; a proposal that is still being
\* computed is not affected.
StopTakesEffect(t) ==
  /\ cc[t].state = "Active" /\ cc[t].kind = "stop_execution"
  /\ cc' = [u \in TaskIds |->
              CASE u = t -> [cc[t] EXCEPT !.state = "Completed"]
                [] cc[u].state = "InExecution" ->
                     [cc[u] EXCEPT !.state = "CompletedWithError"]
                [] OTHER -> cc[u]]
  /\ UNCHANGED <<apiVars, cluster, queue, statusTask, workerVars, boundVars>>

\* max.cached.completed.user.tasks is reached.
Evict(t) == cc[t].state \in EndStates /\ SetTaskState(t, "evicted")

-----------------------------------------------------------------------------
Worker ==
  \/ \E o \in Ops : ListOperations(o) \/ UpdateTaskStatus(o)
  \/ \E b \in BOOLEAN : GetStatus(b)
  \/ \E outcome \in Outcomes : ExecuteOperation(outcome)
  \/ RemoveFinalizer \/ AddFinalizer \/ GetStatusFails \/ UpdateCurrentTasks
  \/ UserTasksFails \/ SelectOperation \/ PauseRetry \/ WriteResult

Environment ==
  \/ \E o \in Ops :
       \/ CreateOperation(o) \/ SetCurrentTask(o)
       \/ TogglePause(o) \/ EditErrorPolicy(o)
       \/ DeleteOperation(o) \/ CollectGarbage(o) \/ TTLReconcile(o)
       \/ BackoffElapses(o)
  \/ DeleteCluster \/ Restart

CruiseControl ==
  \E t \in TaskIds :
    \/ StartExecution(t) \/ StopTakesEffect(t) \/ Evict(t)
    \/ \E s \in EndStates : EndTask(t, s)

Next == Worker \/ Environment \/ CruiseControl

Spec == Init /\ [][Next]_vars

\* The controllers' goroutines run; the work queue is first-in first-out, so a
\* request is not passed over for ever; now and then Cruise Control answers both
\* requests of a reconcile, with an answer that is up to date; its tasks end; time
\* passes.  Users owe nothing.
Fairness ==
  /\ \A o \in Ops :
       /\ SF_vars(ListOperations(o)) /\ WF_vars(UpdateTaskStatus(o))
       /\ WF_vars(BackoffElapses(o)) /\ WF_vars(SetCurrentTask(o))
       /\ WF_vars(TTLReconcile(o)) /\ WF_vars(CollectGarbage(o))
  /\ SF_vars(GetStatus(ExecutorBusy))
  /\ SF_vars(UpdateCurrentTasks /\ inExecution = ExecutorBusy)
  /\ WF_vars(GetStatusFails) /\ WF_vars(UserTasksFails)
  /\ WF_vars(RemoveFinalizer) /\ WF_vars(AddFinalizer)
  /\ WF_vars(SelectOperation) /\ WF_vars(PauseRetry) /\ WF_vars(WriteResult)
  /\ WF_vars(\E outcome \in Outcomes : ExecuteOperation(outcome))
  /\ \A t \in TaskIds :
       /\ WF_vars(\E s \in EndStates : EndTask(t, s))
       /\ WF_vars(StopTakesEffect(t))

FairSpec == Spec /\ Fairness

-----------------------------------------------------------------------------
(***************************** Properties ********************************)

Live(o) == api[o].phase = "live"

\* Every variable has its type; a target is only chosen among the listed
\* objects, and the snapshot is empty between reconciles.
TypeOK ==
  /\ api \in [Ops -> OperationObject(TaskIds)] /\ cluster \in BOOLEAN
  /\ elapsed \subseteq Ops /\ queue \subseteq Ops /\ ttlQueue \subseteq Ops
  /\ cc \in [TaskIds -> UserTask] /\ statusTask \in BOOLEAN
  /\ pc \in PCs
  /\ cur \in Ops \cup {NoOp} /\ target \in Ops \cup {NoOp}
  /\ mem \in [Ops -> OperationObject(TaskIds)]
  /\ stale \subseteq Ops /\ dirty \subseteq Ops
  /\ inExecution \in BOOLEAN
  /\ result \in [id : TaskIds \cup {NoId}, state : TaskStates, dated : BOOLEAN]
  /\ edits \in 0..MaxEdits /\ crashes \in 0..MaxCrashes
  /\ pc # "idle" => cur \in Ops
  /\ pc \in {"pause", "execute", "write"} => target \in Ops

\* When a request other than stop_execution is about to be sent, no existing
\* operation is recorded as in progress, whatever users, the TTL controller and
\* restarts did since the snapshot the decision rests on
\* (the check before executeOperation in Reconcile).
SerialExecution ==
  pc = "execute" /\ mem[target].operation # "stop_execution" =>
    \A o \in Ops : Live(o) => ~IsInProgress(api[o])

\* stop_execution, which ends whatever Cruise Control is executing, is sent only
\* for an operation whose deletion has been asked for or that is gone
\* (isWaitingForFinalization).
StopOnlyOnDeletion ==
  pc = "execute" /\ mem[target].operation = "stop_execution" =>
    api[target].deleting

\* The record of a task is never ahead of Cruise Control: what a status calls
\* ended, in CurrentTask or in the history of failed tasks, is a task of that
\* very object that no longer runs (updateResult).
RecordedEndIsReal ==
  \A o \in Ops :
    LET ended == {api[o].failed[i] : i \in 1..Len(api[o].failed)} \cup
                 (IF api[o].state \in EndStates THEN {api[o].id} \ {NoId} ELSE {})
    IN  \A t \in ended : cc[t].owner = o /\ cc[t].state \notin RunningStates

\* Each failed execution is counted once: the history holds the last RetryCount
\* failures, up to its maximal length, without repetition, and never the current
\* task (updateResult with isAfterExecution).
HistoryIsExact ==
  \A o \in Ops :
    LET h == api[o].failed
    IN  /\ Len(h) = IF api[o].retries < HistoryMax THEN api[o].retries ELSE HistoryMax
        /\ \A i, j \in 1..Len(h) : i # j => h[i] # h[j]
        /\ \A i \in 1..Len(h) : h[i] # api[o].id

\* An operation that carries the finalizer disappears only when its deletion was
\* asked for and its recorded task does not run, unless the whole KafkaCluster
\* is gone (RemoveFinalizer's two callers in Reconcile).
FinalizerProtects ==
  [][\A o \in Ops :
       Live(o) /\ api[o].finalizer /\ api'[o].phase = "gone" =>
         api[o].deleting /\ (IsCurrentTaskRunning(api[o]) => ~cluster)]_vars

\* The task of a completed operation is never touched again, nor executed a
\* second time, even when the object is edited or deleted meanwhile (IsDone in
\* Reconcile's filter).
CompletedIsFinal ==
  [][\A o \in Ops :
       Live(o) /\ api[o].state = "Completed" =>
         /\ CurrentTask(api'[o]) = CurrentTask(api[o])
         /\ ~(target = o /\ pc' = "write" /\ pc = "execute")]_vars

Exhausted == \A t \in TaskIds : cc[t].state # "unused"

\* An operation that waits for its first execution is executed, or goes away
\* (unless the bound on task IDs is reached).
WaitingIsExecuted ==
  \A o \in Ops :
    Live(o) /\ api[o].operation # "" /\ IsWaitingForFirstExecution(api[o]) ~>
      Exhausted \/ ~Live(o) \/ ~IsWaitingForFirstExecution(api[o])

\* A failed task t of an operation with error policy retry is executed again,
\* unless the operation is paused, changed or deleted meanwhile.
FailedIsRetried ==
  \A o \in Ops : \A t \in TaskIds :
    Live(o) /\ IsWaitingForRetryExecution(api[o]) /\ api[o].id = t ~>
      Exhausted \/ ~Live(o) \/ ~IsWaitingForRetryExecution(api[o]) \/ api[o].id # t

\* An operation whose deletion was asked for goes away: its finalizer does not
\* block the deletion for ever.
DeletionCompletes ==
  \A o \in Ops : Live(o) /\ api[o].deleting ~> Exhausted \/ ~Live(o)

-----------------------------------------------------------------------------
(***************************** Refinement ********************************)

Lifecycle == INSTANCE OperationLifecycle
               WITH Objects <- Ops, ops <- [o \in Ops |-> View(api[o])]

\* Seen by the other controllers an operation follows OperationLifecycle: in
\* particular a retry is recorded only while the object still asks for it, and
\* ended tasks stay ended, although every decision rests on a stale snapshot.
ImplementsLifecycle == Lifecycle!LifecycleSpec

-----------------------------------------------------------------------------
(**************** What comments and documentation claim ******************)

\* "Protection to avoid re-execution task when status update is failed": an
\* operation is not sent to Cruise Control again while a task it started runs.
NoReExecution ==
  pc = "execute" /\ mem[target].operation # "stop_execution" =>
    \A t \in TaskIds : cc[t].owner = target => cc[t].state \notin RunningStates

-----------------------------------------------------------------------------
(******************* The inductive strengthening *************************)

Used(id) == id = NoId \/ cc[id].state # "unused"

\* Every recorded task ID is one that Cruise Control has handed out.
IdsAreUsed ==
  /\ \A o \in Ops : Used(api[o].id) /\ Used(mem[o].id)
  /\ Used(result.id)

\* Only an operation whose CurrentTask was filled in has ever been executed.
ExecutedIsValid ==
  \A o \in Ops : /\ api[o].state # "" => IsCurrentTaskOperationValid(api[o])
                 /\ mem[o].state # "" => IsCurrentTaskOperationValid(mem[o])

\* Statuses wait for being written only in updateCurrentTasks.
DirtyIsListed ==
  /\ pc # "update" => dirty = {}
  /\ \A o \in dirty : mem[o].phase = "live"

\* Nobody but the worker writes task states: during a reconcile the snapshot's
\* are those of the API server, except for the ones still to be written; objects
\* created since the snapshot have not been executed.
SnapshotInSync ==
  pc # "idle" =>
    \A o \in Ops :
      /\ mem[o].phase = "live" => api[o].phase # "unborn"
      /\ o \notin dirty /\ api[o].phase = "live" =>
           IF mem[o].phase = "live"
           THEN api[o].state = mem[o].state /\ api[o].id = mem[o].id
           ELSE api[o].state = ""

\* The chosen operation is listed and valid, and if it failed its task has an ID.
TargetIsReady ==
  pc \in {"pause", "execute", "write"} =>
    /\ mem[target].phase = "live"
    /\ IsCurrentTaskOperationValid(mem[target])
    /\ mem[target].state = "CompletedWithError" => mem[target].id # NoId

\* Nothing in the snapshot is in progress when a request is about to be sent.
NothingInProgress ==
  /\ pc = "pause" => StopQueue = {} /\ mem[target].operation = "rebalance"
  /\ pc = "execute" /\ mem[target].operation # "stop_execution" =>
       \A o \in Ops : mem[o].phase = "live" => ~IsInProgress(mem[o])

\* The inductive invariant behind TypeOK and SerialExecution: the snapshot a
\* decision rests on may be stale, but never in the states of the tasks.
SerialInv ==
  /\ TypeOK /\ IdsAreUsed /\ ExecutedIsValid /\ DirtyIsListed
  /\ SnapshotInSync /\ TargetIsReady /\ NothingInProgress
=============================================================================
