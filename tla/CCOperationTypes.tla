-------------------------- MODULE CCOperationTypes --------------------------
(***************************************************************************)
(* The CruiseControlOperation custom resource: the part of the Kubernetes  *)
(* object the operator's decisions depend on, and the predicates of        *)
(* api/v1alpha1/cruisecontroloperation_types.go over it.                   *)
(*                                                                         *)
(* An object is a record with the fields                                   *)
(*   phase      "unborn" | "live" | "gone"   (existence in the API server) *)
(*   operation  Status.CurrentTask.Operation, "" while CurrentTask is nil  *)
(*   policy     Spec.ErrorPolicy                                           *)
(*   paused     Labels["pause"] = "true"                                   *)
(*   finalizer  the operator's finalizer is on the object                  *)
(*   deleting   the deletion timestamp is set                              *)
(*   state      Status.CurrentTask.State                                   *)
(*   id         Status.CurrentTask.ID, NoId for the empty string           *)
(*   finished   Status.CurrentTask.Finished # nil                          *)
(*   retries    Status.RetryCount                                          *)
(*   failed     the IDs in Status.FailedTasks, oldest first                *)
(* Left out: Started (it is set exactly when State is not empty), the      *)
(* summary, HTTP and error-message fields, and Status.ErrorPolicy, which   *)
(* nothing reads.                                                          *)
(***************************************************************************)
EXTENDS Naturals, Sequences

\* CurrentTaskID() = "": Cruise Control's own task identifiers are positive.
NoId == 0

\* The operations the operator schedules, and stop_execution, which it only
\* ever puts on an object that is being deleted.
Kinds == {"add_broker", "remove_broker", "remove_disks", "rebalance"}
ValidOperations == Kinds \cup {"stop_execution"}

\* CruiseControlUserTaskState; "" before the task is sent to Cruise Control.
RunningStates == {"Active", "InExecution"}
EndStates == {"Completed", "CompletedWithError"}
TaskStates == {""} \cup RunningStates \cup EndStates

Policies == {"retry", "ignore"}

OperationObject(Ids) ==
  [ phase     : {"unborn", "live", "gone"},
    operation : {""} \cup ValidOperations,
    policy    : Policies,
    paused    : BOOLEAN,
    finalizer : BOOLEAN,
    deleting  : BOOLEAN,
    state     : TaskStates,
    id        : Ids \cup {NoId},
    finished  : BOOLEAN,
    retries   : Nat,
    failed    : Seq(Ids) ]

\* The object before it is created.
Unborn ==
  [ phase |-> "unborn", operation |-> "", policy |-> "retry", paused |-> FALSE,
    finalizer |-> FALSE, deleting |-> FALSE, state |-> "", id |-> NoId,
    finished |-> FALSE, retries |-> 0, failed |-> <<>> ]

-----------------------------------------------------------------------------
\* The methods of CruiseControlOperation.

IsErrorPolicyIgnore(op) == op.policy = "ignore"
IsErrorPolicyRetry(op) == op.policy = "retry"

IsFinished(op) ==
  \/ op.state = "Completed"
  \/ IsErrorPolicyIgnore(op) /\ op.state = "CompletedWithError"

IsDone(op) ==
  \/ op.paused /\ op.state = "CompletedWithError"
  \/ IsFinished(op)

IsCurrentTaskOperationValid(op) == op.operation \in ValidOperations

IsWaitingForFirstExecution(op) ==
  op.state = "" /\ op.id = NoId /\ op.retries = 0

IsInProgress(op) == op.id # NoId /\ op.state \in RunningStates

IsCurrentTaskRunning(op) == op.state \in RunningStates /\ ~op.finished

IsWaitingForRetryExecution(op) ==
  /\ ~op.paused /\ IsErrorPolicyRetry(op)
  /\ op.state = "CompletedWithError" /\ op.id # NoId

\* SetDefaults of CruiseControlTask: the failed task makes room for its retry.
SetDefaults(op) ==
  [op EXCEPT !.finished = FALSE, !.state = "", !.id = NoId]

\* isFinalizerNeeded and isWaitingForFinalization of the controller.
IsFinalizerNeeded(op) == op.finalizer /\ op.deleting

\* Mutant: the deletion timestamp is not looked at.
IsWaitingForFinalizationUnasked(op) == IsCurrentTaskRunning(op) /\ op.finalizer

IsWaitingForFinalization(op) == IsCurrentTaskRunning(op) /\ IsFinalizerNeeded(op)

-----------------------------------------------------------------------------
\* The API server's treatment of finalizers: a deleted object goes away at once
\* when it carries none, and when its last one is removed.
Deleted(op) ==
  IF op.finalizer THEN [op EXCEPT !.deleting = TRUE]
                  ELSE [op EXCEPT !.phase = "gone"]

WithoutFinalizer(op) ==
  IF op.deleting THEN [op EXCEPT !.finalizer = FALSE, !.phase = "gone"]
                 ELSE [op EXCEPT !.finalizer = FALSE]

-----------------------------------------------------------------------------
\* What an object shows to the other controllers; set says whether CurrentTask
\* has been filled in.
View(op) ==
  [ phase |-> op.phase, set |-> op.operation # "", policy |-> op.policy,
    paused |-> op.paused, deleting |-> op.deleting, state |-> op.state,
    retries |-> op.retries ]
=============================================================================
