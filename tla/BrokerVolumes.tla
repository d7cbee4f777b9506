---------------------------- MODULE BrokerVolumes ----------------------------
(***************************************************************************)
(* The volume claims of the brokers: reconcileKafkaPvc, the volume states  *)
(* in the status, and the disk operations.                                 *)
(*                                                                         *)
(* The CruiseControlTask controller reads the status, asks the operations  *)
(* how far they are, and lays what it has found over the status as it is   *)
(* by then.  The operations live as OperationLifecycle allows, one running *)
(* at a time.  Left out: brokers that join or leave (GracefulAction has    *)
(* them), the choice between the two forms of a rebalance, nodes that are  *)
(* controllers only, and what wakes the task controller: its passes follow *)
(* one another as long as there is something to do.                        *)
(***************************************************************************)
EXTENDS BrokerObjects

VARIABLES
  claim,    \* the volume claim of each broker and path
  drained,  \* the volumes that a remove_disks has emptied since they were last recorded as rebalanced
  ops,      \* the disk operations, as OperationLifecycle sees them
  work,     \* what each of them asks of Cruise Control
  task      \* the worker of the CruiseControlTask controller

opVars == <<ops, work>>
volumeVars == <<claim, drained, opVars, task>>

Operation == INSTANCE OperationLifecycle WITH Objects <- OpIds

Claimed(b) == {p \in Paths : claim[b][p] # "none"}

-----------------------------------------------------------------------------
(* reconcileKafkaPvc: the brokers one after the other, in any order. *)

Surplus(b) == Cardinality(Claimed(b)) > Cardinality(w.spec[b].disks)
ToRemove(b) == IF Surplus(b) THEN Claimed(b) \ w.spec[b].disks ELSE {}
VolumeState(b, p) == w.cr.status.volume[b][p]

\* Mutant: a claim goes as soon as the removal is under way.
DeleteClaimEarly(b, p) ==
  /\ At("claims") /\ b \in w.todo /\ p \in ToRemove(b)
  /\ VolumeState(b, p).kind = "remove" /\ VolumeState(b, p).stage # "Required"
  /\ claim' = [claim EXCEPT ![b][p] = "deleting"]
  /\ w' = [w EXCEPT !.pc = "forget", !.broker = b, !.path = p]
  /\ UNCHANGED <<scene, spec, status, pod, left, drained, opVars, task>>

\* handleDiskRemoval deletes a claim once the removal of its volume has succeeded ...
DeleteClaim(b, p) ==
  /\ At("claims") /\ b \in w.todo /\ p \in ToRemove(b)
  /\ IsDiskRemovalSucceeded(VolumeState(b, p))
  /\ claim' = [claim EXCEPT ![b][p] = "deleting"]
  /\ w' = [w EXCEPT !.pc = "forget", !.broker = b, !.path = p]
  /\ UNCHANGED <<scene, spec, status, pod, left, drained, opVars, task>>

\* Mutant: the state is overwritten and not removed.
ForgetVolumeNot ==
  /\ At("forget")
  /\ WriteStatus([status EXCEPT !.volume[w.broker][w.path].stage = "Deleted"], "claims")
  /\ UNCHANGED <<scene, spec, pod, left, volumeVars>>

\* ... and then its state: DeleteVolumeStatus.
ForgetVolume ==
  /\ At("forget")
  /\ WriteStatus([status EXCEPT !.volume[w.broker][w.path] = NoVolume], "claims")
  /\ UNCHANGED <<scene, spec, pod, left, volumeVars>>

\* The marks of handleDiskRemoval.  A volume without an entry in the status is left alone.
RemovalMarks(b) ==
  [p \in Paths |-> IF p \in ToRemove(b) /\ IsDiskRebalanceSucceeded(VolumeState(b, p))
                   THEN Volume("remove", "Required", NoOp) ELSE NoVolume]
Pending(b) == \E p \in ToRemove(b) : VolumeState(b, p) # NoVolume

\* A bound claim without an entry, or one that was to be removed, is rebalanced.
RebalanceMarks(b) ==
  [p \in Paths |-> IF /\ p \in w.spec[b].disks /\ claim[b][p] \in {"bound", "deleting"}
                      /\ (VolumeState(b, p) = NoVolume \/ IsDiskRemoval(VolumeState(b, p)))
                   THEN Volume("rebalance", "Required", NoOp) ELSE NoVolume]

\* The rest of the work on a broker.  The last broker with a surplus decides whether the pass
\* waits.
ReconcileClaims(b) ==
  /\ At("claims") /\ b \in w.todo
  /\ \A p \in ToRemove(b) : ~IsDiskRemovalSucceeded(VolumeState(b, p))
  /\ LET marks == [p \in Paths |-> IF RemovalMarks(b)[p] # NoVolume THEN RemovalMarks(b)[p]
                                   ELSE RebalanceMarks(b)[p]]
     IN  w' = [w EXCEPT !.todo = @ \ {b}, !.marks[b] = marks,
                        !.wait = IF Surplus(b) THEN Pending(b) ELSE @]
  /\ claim' = [claim EXCEPT ![b] = [p \in Paths |-> IF p \in w.spec[b].disks /\ @[p] = "none"
                                                    THEN "pending" ELSE @[p]]]
  /\ UNCHANGED <<scene, spec, status, pod, left, drained, opVars, task>>

\* All marks are written at once.
MarkVolumes ==
  /\ At("claims") /\ w.todo = {}
  /\ LET new == [status EXCEPT
                   !.volume = [b \in Brokers |-> [p \in Paths |->
                                 IF w.marks[b][p] # NoVolume THEN w.marks[b][p] ELSE @[b][p]]],
                   !.entry = [b \in Brokers |-> @[b] \/ \E p \in Paths : w.marks[b][p] # NoVolume]]
     IN  \/ w.wait /\ status' = new /\ EndPass
         \/ ~w.wait /\ w.marks # NoMarks /\ WriteStatus(new, "order")
         \/ ~w.wait /\ w.marks = NoMarks /\ Goto("order") /\ UNCHANGED status
  /\ UNCHANGED <<scene, spec, pod, left, volumeVars>>

VolumeStep ==
  \/ \E b \in Brokers : \/ \E p \in Paths : DeleteClaim(b, p)
                        \/ ReconcileClaims(b)
  \/ ForgetVolume \/ MarkVolumes

-----------------------------------------------------------------------------
(* The CruiseControlTask controller. *)

TaskIdle == [pc |-> "idle", tasks |-> NoMarks, op |-> NoOp]

\* getActiveTasksFromCluster: a task is the entry of a volume that is not done with.
ActiveTasks(entries) ==
  [b \in Brokers |-> [p \in Paths |->
     IF IsDiskRebalance(entries[b][p]) \/ IsDiskRemoval(entries[b][p])
       THEN entries[b][p] ELSE NoVolume]]

TaskStart ==
  /\ task.pc = "idle" /\ ActiveTasks(status.volume) # NoMarks
  /\ task' = [pc |-> "list", tasks |-> ActiveTasks(status.volume), op |-> NoOp]
  /\ UNCHANGED <<objectVars, claim, drained, opVars>>

\* FromResult: what the operation of a task says about it; one that is not there any more is
\* taken for one that succeeded.
StageOf(op) ==
  CASE op.phase # "live" -> "Succeeded"
    [] op.phase = "live" /\ op.state = "Completed" -> "Succeeded"
    [] op.phase = "live" /\ op.state = "CompletedWithError" ->
         IF op.policy = "ignore" THEN "Succeeded"
         ELSE IF op.paused THEN "Paused" ELSE "CompletedWithError"
    [] op.phase = "live" /\ op.state \in {"Active", "InExecution"} -> "Running"
    [] op.phase = "live" /\ op.state = "" -> "Scheduled"

FromResult(t) == IF t.ref # NoOp THEN [t EXCEPT !.stage = StageOf(ops[t.ref])] ELSE t

\* updateActiveTasks, and UpdateStatus up to its comparison: nothing is written if no task has
\* changed since the status was read.
TaskList ==
  /\ task.pc = "list"
  /\ LET tasks == [b \in Brokers |-> [p \in Paths |-> FromResult(task.tasks[b][p])]]
     IN  task' = [task EXCEPT !.tasks = tasks, !.pc = IF tasks = task.tasks THEN "plan" ELSE "sync"]
  /\ UNCHANGED <<objectVars, claim, drained, opVars>>

\* SyncState: the tasks overwrite the entries of the volumes that are still there, whatever these
\* say by now.
SyncState(entries, tasks) ==
  [b \in Brokers |-> [p \in Paths |->
     IF entries[b][p] # NoVolume /\ tasks[b][p] # NoVolume THEN tasks[b][p] ELSE entries[b][p]]]

\* UpdateStatus: after a conflict the tasks are laid over what is there now.  A volume that is
\* recorded as rebalanced counts as filled again.
UpdateStatus(at, done) ==
  /\ task.pc = at
  /\ status' = [status EXCEPT !.volume = SyncState(@, task.tasks)]
  /\ drained' = {v \in drained : ~IsDiskRebalanceSucceeded(status'.volume[v[1]][v[2]])}
  /\ task' = done
  /\ UNCHANGED <<scene, spec, pod, w, left, claim, opVars>>

TaskSync == UpdateStatus("sync", [task EXCEPT !.pc = "plan"])

\* GetActiveTasksByOp.
RequiredTasks(kind) ==
  {v \in Brokers \X Paths : /\ task.tasks[v[1]][v[2]].kind = kind
                            /\ task.tasks[v[1]][v[2]].stage = "Required"}

Online(b) == IF Running(b) THEN pod[b].disks ELSE {}

\* The first half of createCCOperation.
CreateCCOperation(kind, vs) ==
  \E o \in OpIds :
    /\ \A p \in OpIds : p < o => ops[p].phase # "unborn"
    /\ Operation!Create(o, "retry")
    /\ work' = [work EXCEPT ![o] = [kind |-> kind, of |-> vs]]
    /\ task' = [task EXCEPT !.pc = "fill", !.op = o]

\* All volumes to be removed go into one operation, if their log directories are online; those to
\* be rebalanced into another when there is nothing to remove, and a broker that does not answer
\* is not asked for its directories.  A directory is looked up by prefix: no mount path here is a
\* prefix of another.
TaskPlan ==
  /\ task.pc = "plan"
  /\ LET remove == RequiredTasks("remove")
         rebalance == RequiredTasks("rebalance")
         kind == IF remove # {} THEN "remove" ELSE "rebalance"
         vs == RequiredTasks(kind)
         ready == /\ vs # {}
                  /\ \A v \in vs : (remove # {} \/ Running(v[1])) => v[2] \in Online(v[1])
     IN  \/ ready /\ CreateCCOperation(kind, vs)
         \/ ~ready /\ task' = TaskIdle /\ UNCHANGED opVars
  /\ UNCHANGED <<objectVars, claim, drained>>

\* The second half of createCCOperation, which fails if anybody has touched the operation; then
\* SetCruiseControlOperationRef and SetStateScheduled.
FillOperation ==
  /\ task.pc = "fill"
  /\ LET o == task.op
         untouched == ops[o].phase = "live" /\ ~ops[o].paused /\ ~ops[o].deleting
                        /\ ops[o].policy = "retry"
     IN  \/ /\ untouched /\ Operation!SetTask(o)
            /\ task' = [task EXCEPT !.pc = "schedule",
                 !.tasks = [b \in Brokers |-> [p \in Paths |->
                    IF <<b, p>> \in work[o].of THEN Volume(work[o].kind, "Scheduled", o)
                    ELSE @[b][p]]]]
         \/ ~untouched /\ task' = TaskIdle /\ UNCHANGED ops
  /\ UNCHANGED <<objectVars, claim, drained, work>>

TaskSchedule == UpdateStatus("schedule", TaskIdle)

TaskStep == TaskStart \/ TaskList \/ TaskSync \/ TaskPlan \/ FillOperation \/ TaskSchedule

\* A call fails, another writer wins every attempt of a status update, or the operator restarts.
TaskFails ==
  /\ task.pc # "idle" /\ Spend("crash")
  /\ task' = TaskIdle
  /\ UNCHANGED <<scene, spec, status, pod, w, claim, drained, opVars>>

-----------------------------------------------------------------------------
(* The operations. *)

IsRunning(o) == ops[o].phase = "live" /\ ops[o].state \in {"Active", "InExecution"}
Failed(o) == ops[o].phase = "live" /\ ops[o].state = "CompletedWithError"
Waiting(kind) == \E o \in OpIds : /\ ops[o].phase = "live" /\ ops[o].set /\ ops[o].state = ""
                                  /\ work[o].kind = kind

\* A failed remove_disks does not run again while a rebalance waits.
OpStarts(o) ==
  /\ \A q \in OpIds \ {o} : ~IsRunning(q)
  /\ \/ Operation!FirstExecution(o)
     \/ Operation!RetryExecution(o) /\ ~(work[o].kind = "remove" /\ Waiting("rebalance"))
  /\ \/ ops'[o].state = "Active" /\ UNCHANGED left
     \/ ops'[o].state = "CompletedWithError" /\ Spend("error")
  /\ UNCHANGED <<scene, spec, status, pod, w, claim, drained, work, task>>

\* selectOperationForExecution pauses it then.
OpPaused(o) ==
  /\ Failed(o) /\ ops[o].policy = "retry" /\ ~ops[o].paused
  /\ work[o].kind = "remove" /\ Waiting("rebalance")
  /\ ops' = [ops EXCEPT ![o].paused = TRUE]
  /\ UNCHANGED <<objectVars, claim, drained, work, task>>

\* (external) The task ends, well if all the log directories are online: then the partitions have
\* left the volumes of a remove_disks.  That nothing but its end matters of a running task is due
\* to FromResult.  A deleted operation is stopped and has moved nothing.
OpEnds(o) ==
  /\ Operation!Progress(o)
  /\ \/ /\ ops'[o].state = "Completed"
        /\ ops[o].deleting \/ \A v \in work[o].of : v[2] \in Online(v[1])
        /\ drained' = IF work[o].kind = "remove" /\ ~ops[o].deleting
                      THEN drained \cup work[o].of ELSE drained
        /\ UNCHANGED left
     \/ ops'[o].state = "CompletedWithError" /\ Spend("error") /\ UNCHANGED drained
  /\ UNCHANGED <<scene, spec, status, pod, w, claim, work, task>>

\* The user ignores the errors of an operation, pauses it or deletes it.
OpEdited(o) ==
  /\ Operation!Edit(o) /\ ops'[o] # ops[o] /\ Spend("opEdit")
  /\ UNCHANGED <<scene, spec, status, pod, w, claim, drained, work, task>>

\* A finished operation expires, a deleted one goes once nothing of it runs.
OpRemoved(o) ==
  /\ Operation!Remove(o) /\ ops'[o].deleting = ops[o].deleting
  /\ \/ /\ ops[o].state = "Completed" \/ (Failed(o) /\ ops[o].policy = "ignore")
        /\ Spend("expire")
     \/ ops[o].deleting /\ ~IsRunning(o) /\ UNCHANGED left
  /\ UNCHANGED <<scene, spec, status, pod, w, claim, drained, work, task>>

OpStep == \E o \in OpIds : OpStarts(o) \/ OpEnds(o)
OpEvent == \E o \in OpIds : OpPaused(o) \/ OpEdited(o) \/ OpRemoved(o)

-----------------------------------------------------------------------------
\* (external) A claim that is deleted goes when no scheduled pod uses it.
ReleaseClaim(b, p) ==
  /\ claim[b][p] = "deleting" /\ (pod[b].phase \in {"none", "created"} \/ p \notin pod[b].disks)
  /\ claim' = [claim EXCEPT ![b][p] = "none"]
  /\ UNCHANGED <<objectVars, drained, opVars, task>>
=============================================================================
