-------------------------- MODULE CCOperationProofs --------------------------
(***************************************************************************)
(* Proofs about CCOperation, for every number of operations, tasks, edits  *)
(* and restarts.                                                           *)
(*                                                                         *)
(* First: SerialInv is inductive, hence TypeOK and SerialExecution hold.   *)
(*                                                                         *)
(* Second: stop_execution is sent only for an operation whose deletion was *)
(* asked for, a finalizer protects a task that runs, and the task of a     *)
(* completed operation is never touched again nor executed a second time.  *)
(* All three decisions are made on the snapshot.  DeletionInv says what of *)
(* it is still true when they take effect: a deletion is never taken back, *)
(* so the snapshot's deletions are real; and an object that nobody else    *)
(* has written since is, up to statuses still to be written, the listed    *)
(* one.  The operations that are done are filtered out of the snapshot     *)
(* once, at the beginning of a reconcile; CompletedInv carries the result  *)
(* of the filter to the two places where tasks are written and to the      *)
(* request.                                                                *)
(***************************************************************************)
EXTENDS CCOperation, SequenceTheorems, TLAPS

Object == OperationObject(TaskIds)

\* The fields of an object have their types, and the other way round.
LEMMA ObjectFields ==
  ASSUME NEW op \in Object
  PROVE  /\ op.phase \in {"unborn", "live", "gone"}
         /\ op.operation \in {""} \cup ValidOperations /\ op.policy \in Policies
         /\ op.paused \in BOOLEAN /\ op.finalizer \in BOOLEAN
         /\ op.deleting \in BOOLEAN /\ op.state \in TaskStates
         /\ op.id \in TaskIds \cup {NoId} /\ op.finished \in BOOLEAN
         /\ op.retries \in Nat /\ op.failed \in Seq(TaskIds)
  BY DEF Object, OperationObject

\* The object before its creation is well typed, and so is the empty snapshot.
LEMMA UnbornType == Unborn \in Object /\ NoMem \in [Ops -> Object]
<1>1. << >> \in Seq(TaskIds)  OBVIOUS
<1>2. Unborn \in Object
  BY <1>1 DEF Object, OperationObject, Unborn, Policies, TaskStates, NoId
<1> QED BY <1>2 DEF NoMem

\* The history of failed tasks stays a sequence of task IDs.
LEMMA PushFailedType ==
  ASSUME NEW h \in Seq(TaskIds), NEW id \in TaskIds
  PROVE  PushFailed(h, id) \in Seq(TaskIds)
<1>1. CASE Len(h) >= HistoryMax
  <2>1. h # << >>  BY <1>1, BoundsAssumption
  <2>2. Tail(h) \in Seq(TaskIds)  BY <2>1
  <2> QED BY <1>1, <2>2 DEF PushFailed
<1>2. CASE ~(Len(h) >= HistoryMax)
  BY <1>2 DEF PushFailed
<1> QED BY <1>1, <1>2

\* updateResult after an execution keeps an object well typed.
LEMMA AfterExecutionType ==
  ASSUME NEW op \in Object, NEW res \in [id : TaskIds \cup {NoId},
                                         state : TaskStates, dated : BOOLEAN],
         op.state = "CompletedWithError" => op.id # NoId
  PROVE  /\ AfterExecution(op, res) \in Object
         /\ AfterExecution(op, res).phase = op.phase
         /\ AfterExecution(op, res).operation = op.operation
         /\ AfterExecution(op, res).id = res.id
<1>1. CASE op.state = "CompletedWithError" /\ (op.finished \/ res.state \in EndStates)
  <2>1. PushFailed(op.failed, op.id) \in Seq(TaskIds)
    BY <1>1, PushFailedType, ObjectFields
  <2>2. op.retries \in Nat
    BY ObjectFields
  <2>3. op.retries + 1 \in Nat
    BY <2>2
  <2> QED
    BY <1>1, <2>1, <2>3
    DEF AfterExecution, Archived, SetDefaults, Object, OperationObject, TaskStates, NoId
<1>2. CASE ~(op.state = "CompletedWithError" /\ (op.finished \/ res.state \in EndStates))
  BY <1>2 DEF AfterExecution, Archived, Object, OperationObject
<1> QED BY <1>1, <1>2

\* Polling a task that Cruise Control has handed out keeps an object well typed.
LEMMA PolledType ==
  ASSUME cc \in [TaskIds -> UserTask], NEW op \in Object, op.id # NoId, Used(op.id)
  PROVE  /\ Polled(op) \in Object /\ Polled(op).phase = op.phase
         /\ Polled(op).id = op.id /\ Polled(op).operation = op.operation
<1>1. op.id \in TaskIds  BY ObjectFields
<1>2. PolledState(op.id) \in TaskStates
  BY <1>1 DEF PolledState, Used, UserTask, TaskStates, EndStates, RunningStates
<1>3. (op.finished \/ PolledState(op.id) \in EndStates) \in BOOLEAN  OBVIOUS
<1> QED BY <1>2, <1>3 DEF Polled, Object, OperationObject

\* The two objects agree on everything the invariant says of an object.
SameTask(new, old) ==
  /\ new.phase = old.phase /\ new.state = old.state /\ new.id = old.id
  /\ IsCurrentTaskOperationValid(old) => IsCurrentTaskOperationValid(new)

-----------------------------------------------------------------------------
\* A write keeps the API server's state well typed.
LEMMA StoreType ==
  ASSUME TypeOK, NEW o \in Ops, NEW new \in Object, Store(o, new)
  PROVE  api' \in [Ops -> Object] /\ ttlQueue' \subseteq Ops /\ elapsed' \subseteq Ops
  BY DEF TypeOK, Store, Object

\* An event is a request for an existing name.
LEMMA WokenType == \A o \in Ops : \A new : Woken(o, new) \subseteq Ops
  BY DEF Woken

\* A reconcile that ends leaves the invariant to what it did to the API server.
LEMMA FinishKeeps ==
  ASSUME SerialInv, NEW q, q \subseteq Ops, Finish(q),
         api' \in [Ops -> Object], ttlQueue' \subseteq Ops, elapsed' \subseteq Ops,
         cluster' \in BOOLEAN, statusTask' \in BOOLEAN, cc' = cc,
         edits' \in 0..MaxEdits, crashes' \in 0..MaxCrashes,
         \A o \in Ops : Used(api'[o].id),
         \A o \in Ops : api'[o].state # "" => IsCurrentTaskOperationValid(api'[o])
  PROVE  SerialInv'
<1>1. TypeOK'
  BY UnbornType DEF SerialInv, TypeOK, Finish, Object, PCs, NoResult, TaskStates
<1>2. IdsAreUsed'
  BY DEF SerialInv, Finish, IdsAreUsed, Used, NoMem, Unborn, NoResult
<1>3. ExecutedIsValid'
  BY DEF Finish, ExecutedIsValid, NoMem, Unborn
<1>4. DirtyIsListed' /\ SnapshotInSync' /\ TargetIsReady' /\ NothingInProgress'
  BY DEF Finish, DirtyIsListed, SnapshotInSync, TargetIsReady, NothingInProgress
<1> QED BY <1>1, <1>2, <1>3, <1>4 DEF SerialInv

\* The same when nothing was written.
LEMMA RequeueKeeps ==
  ASSUME SerialInv, NEW q, q \subseteq Ops, Finish(q),
         UNCHANGED <<apiVars, cluster, cc, boundVars>>, statusTask' \in BOOLEAN
  PROVE  SerialInv'
<1>1. api' \in [Ops -> Object] /\ ttlQueue' \subseteq Ops /\ elapsed' \subseteq Ops
  BY DEF SerialInv, TypeOK, Object, apiVars
<1>2. cluster' \in BOOLEAN /\ cc' = cc /\ edits' \in 0..MaxEdits
      /\ crashes' \in 0..MaxCrashes
  BY DEF SerialInv, TypeOK, boundVars
<1>3. \A o \in Ops : Used(api'[o].id)
  BY DEF SerialInv, IdsAreUsed, apiVars
<1>4. \A o \in Ops : api'[o].state # "" => IsCurrentTaskOperationValid(api'[o])
  BY DEF SerialInv, ExecutedIsValid, apiVars
<1> QED BY <1>1, <1>2, <1>3, <1>4, FinishKeeps

\* The same when the reconcile ends with a write.
LEMMA FinalWriteKeeps ==
  ASSUME SerialInv, NEW o \in Ops, NEW new \in Object, Store(o, new),
         NEW q, q \subseteq Ops, Finish(q), Used(new.id),
         new.state # "" => IsCurrentTaskOperationValid(new),
         UNCHANGED <<cluster, cc, statusTask, boundVars>>
  PROVE  SerialInv'
<1>1. api' = [api EXCEPT ![o] = new] /\ api \in [Ops -> Object]
  BY DEF Store, SerialInv, TypeOK, Object
<1>2. api' \in [Ops -> Object] /\ ttlQueue' \subseteq Ops /\ elapsed' \subseteq Ops
  BY StoreType DEF SerialInv
<1>3. \A p \in Ops : Used(api'[p].id)
  BY <1>1 DEF SerialInv, IdsAreUsed
<1>4. \A p \in Ops : api'[p].state # "" => IsCurrentTaskOperationValid(api'[p])
  BY <1>1 DEF SerialInv, ExecutedIsValid
<1>5. cluster' \in BOOLEAN /\ statusTask' \in BOOLEAN /\ cc' = cc
      /\ edits' \in 0..MaxEdits /\ crashes' \in 0..MaxCrashes
  BY DEF SerialInv, TypeOK, boundVars
<1> QED BY <1>2, <1>3, <1>4, <1>5, FinishKeeps

\* A write of anybody but the worker leaves the task alone, and with it the
\* agreement between the snapshot and the API server.
LEMMA ExternalKeeps ==
  ASSUME SerialInv, NEW o \in Ops, NEW new \in Object, ExternalWrite(o, new),
         new.id = api[o].id, new.state = api[o].state, new.phase # "unborn",
         api[o].phase = "live",
         new.state # "" => IsCurrentTaskOperationValid(new),
         UNCHANGED <<cluster, cc, statusTask, crashes>>, edits' \in 0..MaxEdits
  PROVE  SerialInv'
<1>1. api' = [api EXCEPT ![o] = new] /\ api \in [Ops -> Object]
  BY DEF ExternalWrite, Store, SerialInv, TypeOK, Object
<1>2. UNCHANGED <<pc, cur, mem, dirty, inExecution, target, result>>
  BY DEF ExternalWrite
<1>3. TypeOK'
  <2>1. api' \in [Ops -> Object] /\ ttlQueue' \subseteq Ops /\ elapsed' \subseteq Ops
    BY StoreType DEF ExternalWrite, SerialInv
  <2>2. queue' \subseteq Ops /\ stale' \subseteq Ops
    BY WokenType DEF ExternalWrite, SerialInv, TypeOK
  <2> QED BY <1>2, <2>1, <2>2 DEF SerialInv, TypeOK, Object
<1>4. IdsAreUsed'
  BY <1>1, <1>2 DEF SerialInv, IdsAreUsed, Used
<1>5. ExecutedIsValid'
  BY <1>1, <1>2 DEF SerialInv, ExecutedIsValid
<1>6. DirtyIsListed' /\ TargetIsReady'
  BY <1>2 DEF SerialInv, DirtyIsListed, TargetIsReady
<1>7. SnapshotInSync'
  BY <1>1, <1>2 DEF SerialInv, SnapshotInSync
<1>8. NothingInProgress'
  BY <1>2 DEF SerialInv, NothingInProgress, StopQueue, Filtered
<1> QED BY <1>3, <1>4, <1>5, <1>6, <1>7, <1>8 DEF SerialInv

-----------------------------------------------------------------------------
\* A step that leaves the tasks alone, in the API server and in the snapshot.
LEMMA SameTaskKeeps ==
  ASSUME SerialInv, UNCHANGED <<dirty, result, cc>>, pc # "idle",
         \A p \in Ops : SameTask(api'[p], api[p]),
         \A p \in Ops : SameTask(mem'[p], mem[p]),
         pc' # "update" => dirty = {}
  PROVE  IdsAreUsed' /\ ExecutedIsValid' /\ SnapshotInSync' /\ DirtyIsListed'
<1>1. IdsAreUsed'
  BY DEF SerialInv, IdsAreUsed, Used, SameTask
<1>2. ExecutedIsValid'
  BY DEF SerialInv, ExecutedIsValid, IsCurrentTaskOperationValid, SameTask
<1>3. SnapshotInSync'
  BY DEF SerialInv, SnapshotInSync, SameTask
<1>4. DirtyIsListed'
  <2>1. \A p \in dirty : p \in Ops
    BY DEF SerialInv, TypeOK
  <2> QED BY <2>1 DEF SerialInv, DirtyIsListed, SameTask
<1> QED BY <1>1, <1>2, <1>3, <1>4

\* The worker, up to the poll of Cruise Control.
LEMMA ListKeeps ==
  ASSUME SerialInv, NEW o \in Ops, ListOperations(o)
  PROVE  SerialInv'
<1>1. UNCHANGED <<apiVars, cluster, cc, statusTask, boundVars>> /\ pc = "idle"
  BY DEF ListOperations
<1>2. CASE ~(api[o].phase = "live" /\ AfterList(api[o]) # "idle")
  <2>1. Finish(queue \ {o})
    BY <1>2 DEF ListOperations
  <2>2. queue \ {o} \subseteq Ops /\ statusTask' \in BOOLEAN
    BY <1>1 DEF SerialInv, TypeOK
  <2> QED BY <1>1, <2>1, <2>2, RequeueKeeps
<1>3. CASE api[o].phase = "live" /\ AfterList(api[o]) # "idle"
  <2>1. /\ pc' = AfterList(api[o]) /\ cur' = o
        /\ mem' = [p \in Ops |-> IF api[p].phase = "live" THEN api[p] ELSE Unborn]
        /\ queue' = queue \ {o}
        /\ UNCHANGED <<stale, dirty, inExecution, target, result>>
    BY <1>3 DEF ListOperations
  <2>2. AfterList(api[o]) \in {"finalize", "addfinalizer", "status", "idle"}
    BY DEF AfterList
  <2>3. TypeOK'
    BY <1>1, <2>1, <2>2, UnbornType DEF SerialInv, TypeOK, Object, PCs, apiVars, boundVars
  <2>4. IdsAreUsed'
    BY <1>1, <2>1 DEF SerialInv, IdsAreUsed, Used, Unborn, apiVars
  <2>5. ExecutedIsValid'
    BY <1>1, <2>1 DEF SerialInv, ExecutedIsValid, Unborn, apiVars
  <2>6. DirtyIsListed'
    BY <1>1, <2>1, <2>2 DEF SerialInv, DirtyIsListed
  <2>7. SnapshotInSync'
    BY <1>1, <2>1 DEF SnapshotInSync, Unborn, apiVars
  <2>8. TargetIsReady' /\ NothingInProgress'
    BY <2>1, <2>2 DEF TargetIsReady, NothingInProgress
  <2> QED BY <2>3, <2>4, <2>5, <2>6, <2>7, <2>8 DEF SerialInv
<1> QED BY <1>2, <1>3

\* The object goes away, or stays as it was without the finalizer.
LEMMA RemoveFinalizerKeeps ==
  ASSUME SerialInv, RemoveFinalizer
  PROVE  SerialInv'
<1>1. cur \in Ops /\ UNCHANGED <<cluster, cc, statusTask, boundVars>>
  BY DEF SerialInv, TypeOK, RemoveFinalizer
<1>2. CASE Writable(cur) /\ Store(cur, WithoutFinalizer(api[cur]))
           /\ Finish(queue \cup Woken(cur, WithoutFinalizer(api[cur])))
  <2> DEFINE new == WithoutFinalizer(api[cur])
  <2>1. api[cur] \in Object
    BY <1>1 DEF SerialInv, TypeOK, Object
  <2>2. new \in Object /\ new.id = api[cur].id /\ new.state = api[cur].state
        /\ new.operation = api[cur].operation
    BY <2>1 DEF WithoutFinalizer, Object, OperationObject
  <2>3. Used(new.id)
    BY <1>1, <2>2 DEF SerialInv, IdsAreUsed
  <2>4. new.state # "" => IsCurrentTaskOperationValid(new)
    BY <1>1, <2>2 DEF SerialInv, ExecutedIsValid, IsCurrentTaskOperationValid
  <2>5. queue \cup Woken(cur, new) \subseteq Ops
    BY <1>1, WokenType DEF SerialInv, TypeOK
  <2> HIDE DEF new
  <2>6. Store(cur, new) /\ Finish(queue \cup Woken(cur, new))
    BY <1>2 DEF new
  <2> QED BY <1>1, <2>2, <2>3, <2>4, <2>5, <2>6, FinalWriteKeeps
<1>3. CASE Requeue /\ UNCHANGED apiVars
  <2>1. queue \cup {cur} \subseteq Ops /\ statusTask' \in BOOLEAN
    BY <1>1 DEF SerialInv, TypeOK
  <2> QED BY <1>1, <1>3, <2>1, RequeueKeeps DEF Requeue
<1> QED BY <1>2, <1>3 DEF RemoveFinalizer

\* The finalizer is put on the object and on the snapshot alike.
LEMMA AddFinalizerKeeps ==
  ASSUME SerialInv, AddFinalizer
  PROVE  SerialInv'
<1>1. cur \in Ops /\ UNCHANGED <<cluster, cc, statusTask, boundVars>>
      /\ pc = "addfinalizer"
  BY DEF SerialInv, TypeOK, AddFinalizer
<1>2. CASE Requeue /\ UNCHANGED apiVars
  <2>1. queue \cup {cur} \subseteq Ops /\ statusTask' \in BOOLEAN
    BY <1>1 DEF SerialInv, TypeOK
  <2> QED BY <1>1, <1>2, <2>1, RequeueKeeps DEF Requeue
<1>3. CASE /\ Store(cur, [api[cur] EXCEPT !.finalizer = TRUE])
           /\ mem' = [mem EXCEPT ![cur].finalizer = TRUE]
           /\ pc' = "status"
           /\ UNCHANGED <<queue, cur, stale, dirty, inExecution, target, result>>
  <2> DEFINE new == [api[cur] EXCEPT !.finalizer = TRUE]
             mnew == [mem[cur] EXCEPT !.finalizer = TRUE]
  <2>1. api \in [Ops -> Object] /\ mem \in [Ops -> Object]
        /\ api[cur] \in Object /\ mem[cur] \in Object
    BY <1>1 DEF SerialInv, TypeOK, Object
  <2>2. new \in Object /\ SameTask(new, api[cur])
    BY <2>1 DEF Object, OperationObject, SameTask, IsCurrentTaskOperationValid
  <2>3. mnew \in Object /\ SameTask(mnew, mem[cur])
    BY <2>1 DEF Object, OperationObject, SameTask, IsCurrentTaskOperationValid
  <2>4. mem' = [mem EXCEPT ![cur] = mnew] /\ api' = [api EXCEPT ![cur] = new]
    BY <1>1, <1>3, <2>1 DEF Store
  <2>5. api' \in [Ops -> Object] /\ ttlQueue' \subseteq Ops /\ elapsed' \subseteq Ops
    BY <1>1, <1>3, <2>2, StoreType DEF SerialInv
  <2> HIDE DEF new, mnew
  <2>6. \A p \in Ops : SameTask(api'[p], api[p]) /\ SameTask(mem'[p], mem[p])
    BY <1>1, <2>1, <2>2, <2>3, <2>4 DEF SameTask
  <2>7. TypeOK'
    BY <1>1, <1>3, <2>1, <2>3, <2>4, <2>5
    DEF SerialInv, TypeOK, Object, PCs, boundVars
  <2>8. IdsAreUsed' /\ ExecutedIsValid' /\ SnapshotInSync' /\ DirtyIsListed'
    <3>1. dirty = {}  BY <1>1 DEF SerialInv, DirtyIsListed
    <3> QED BY <1>1, <1>3, <2>6, <3>1, SameTaskKeeps
  <2>11. TargetIsReady' /\ NothingInProgress'
    BY <1>3 DEF TargetIsReady, NothingInProgress
  <2> QED BY <2>7, <2>8, <2>11 DEF SerialInv
<1> QED BY <1>2, <1>3 DEF AddFinalizer

\* Asking Cruise Control for its state decides nothing by itself.
LEMMA StatusKeeps ==
  ASSUME SerialInv, GetStatusFails \/ UserTasksFails \/ \E b \in BOOLEAN : GetStatus(b)
  PROVE  SerialInv'
<1>1. ASSUME NEW b \in BOOLEAN, GetStatus(b) PROVE SerialInv'
  <2>1. TypeOK'
    BY <1>1 DEF SerialInv, TypeOK, GetStatus, PCs, apiVars, boundVars
  <2>2. IdsAreUsed' /\ ExecutedIsValid' /\ DirtyIsListed' /\ SnapshotInSync'
    BY <1>1 DEF SerialInv, IdsAreUsed, Used, ExecutedIsValid, DirtyIsListed,
                SnapshotInSync, GetStatus, apiVars
  <2>3. TargetIsReady' /\ NothingInProgress'
    BY <1>1 DEF GetStatus, TargetIsReady, NothingInProgress
  <2> QED BY <2>1, <2>2, <2>3 DEF SerialInv
<1>2. CASE GetStatusFails \/ UserTasksFails
  <2>1. cur \in Ops /\ queue \cup {cur} \subseteq Ops /\ statusTask' \in BOOLEAN
    BY <1>2 DEF SerialInv, TypeOK, GetStatusFails, UserTasksFails
  <2>2. UNCHANGED <<apiVars, cluster, cc, boundVars>> /\ Finish(queue \cup {cur})
    BY <1>2 DEF GetStatusFails, UserTasksFails, Requeue
  <2> QED BY <2>1, <2>2, RequeueKeeps
<1> QED BY <1>1, <1>2

\* Polling changes what the snapshot says of a task, and remembers for which.
LEMMA UpdateCurrentTasksKeeps ==
  ASSUME SerialInv, UpdateCurrentTasks
  PROVE  SerialInv'
<1> DEFINE polled == {o \in Filtered : mem[o].id # NoId}
           new == [o \in Ops |-> IF o \in polled THEN Polled(mem[o]) ELSE mem[o]]
<1>1. /\ mem' = new /\ dirty' = {o \in polled : new[o] # mem[o]}
      /\ pc = "tasks" /\ pc' = "update"
      /\ UNCHANGED <<api, elapsed, ttlQueue, cluster, queue, cc, statusTask, cur,
                     stale, inExecution, target, result, edits, crashes>>
  BY DEF UpdateCurrentTasks, apiVars, boundVars
<1>2. /\ mem \in [Ops -> Object] /\ cc \in [TaskIds -> UserTask] /\ dirty = {}
      /\ polled \subseteq Ops
  BY <1>1 DEF SerialInv, TypeOK, Object, DirtyIsListed, Filtered
<1>3. ASSUME NEW p \in Ops
      PROVE  /\ new[p] \in Object /\ new[p].phase = mem[p].phase
             /\ new[p].id = mem[p].id /\ new[p].operation = mem[p].operation
             /\ new[p].state # "" => IsCurrentTaskOperationValid(new[p])
  <2>1. mem[p] \in Object /\ Used(mem[p].id)
    BY <1>2 DEF SerialInv, IdsAreUsed
  <2>2. CASE p \in polled
    <3>1. mem[p].id # NoId /\ IsCurrentTaskOperationValid(mem[p])
      BY <2>2 DEF Filtered
    <3>2. new[p] = Polled(mem[p])
      BY <2>2
    <3> HIDE DEF new, polled
    <3> QED BY <1>2, <2>1, <3>1, <3>2, PolledType DEF IsCurrentTaskOperationValid
  <2>3. CASE p \notin polled
    <3>1. new[p] = mem[p]
      BY <2>3
    <3> HIDE DEF new, polled
    <3> QED BY <2>1, <3>1 DEF SerialInv, ExecutedIsValid
  <2> QED BY <2>2, <2>3
<1>4. new \in [Ops -> Object]
  BY <1>3
<1> HIDE DEF new
<1>5. TypeOK'
  BY <1>1, <1>2, <1>4 DEF SerialInv, TypeOK, Object, PCs
<1> HIDE DEF polled
<1>6. IdsAreUsed'
  BY <1>1, <1>3 DEF SerialInv, IdsAreUsed, Used
<1>7. ExecutedIsValid'
  BY <1>1, <1>3 DEF SerialInv, ExecutedIsValid
<1>8. DirtyIsListed'
  BY <1>1, <1>2, <1>3 DEF DirtyIsListed, polled, Filtered
<1>9. SnapshotInSync'
  <2>1. \A p \in Ops : p \notin dirty' => new[p] = mem[p]
    BY <1>1 DEF polled, new
  <2> QED BY <1>1, <1>2, <1>3, <2>1 DEF SerialInv, SnapshotInSync
<1>10. TargetIsReady' /\ NothingInProgress'
  BY <1>1 DEF TargetIsReady, NothingInProgress
<1> QED BY <1>5, <1>6, <1>7, <1>8, <1>9, <1>10 DEF SerialInv

\* A status that is written agrees with the snapshot from then on.
LEMMA UpdateTaskStatusKeeps ==
  ASSUME SerialInv, NEW o \in Ops, UpdateTaskStatus(o)
  PROVE  SerialInv'
<1>1. /\ pc = "update" /\ o \in dirty /\ cur \in Ops
      /\ UNCHANGED <<cluster, cc, statusTask, boundVars>>
  BY DEF SerialInv, TypeOK, UpdateTaskStatus
<1>2. CASE Requeue /\ UNCHANGED apiVars
  <2>1. queue \cup {cur} \subseteq Ops /\ statusTask' \in BOOLEAN
    BY <1>1 DEF SerialInv, TypeOK
  <2> QED BY <1>1, <1>2, <2>1, RequeueKeeps DEF Requeue
<1>3. CASE /\ Store(o, mem[o]) /\ queue' = queue \cup Woken(o, mem[o])
           /\ dirty' = dirty \ {o}
           /\ UNCHANGED <<pc, cur, mem, stale, inExecution, target, result>>
  <2>1. /\ api \in [Ops -> Object] /\ mem \in [Ops -> Object]
        /\ mem[o] \in Object /\ mem[o].phase = "live"
    BY <1>1 DEF SerialInv, TypeOK, Object, DirtyIsListed
  <2>2. api' = [api EXCEPT ![o] = mem[o]]
    BY <1>3 DEF Store
  <2>3. api' \in [Ops -> Object] /\ ttlQueue' \subseteq Ops /\ elapsed' \subseteq Ops
    BY <1>3, <2>1, StoreType DEF SerialInv
  <2>4. queue' \subseteq Ops
    BY <1>3, WokenType DEF SerialInv, TypeOK
  <2>5. TypeOK'
    BY <1>1, <1>3, <2>3, <2>4 DEF SerialInv, TypeOK, Object, boundVars
  <2>6. IdsAreUsed' /\ ExecutedIsValid'
    BY <1>1, <1>3, <2>1, <2>2 DEF SerialInv, IdsAreUsed, Used, ExecutedIsValid
  <2>7. DirtyIsListed'
    BY <1>1, <1>3 DEF SerialInv, DirtyIsListed
  <2>8. SnapshotInSync'
    BY <1>1, <1>3, <2>1, <2>2 DEF SerialInv, SnapshotInSync
  <2>9. TargetIsReady' /\ NothingInProgress'
    BY <1>1, <1>3 DEF TargetIsReady, NothingInProgress
  <2> QED BY <2>5, <2>6, <2>7, <2>8, <2>9 DEF SerialInv
<1> QED BY <1>2, <1>3 DEF UpdateTaskStatus

\* The queues partition what may be executed: with nothing to stop and nothing in
\* the progress queue, no listed operation is in progress.
LEMMA QueuesAreComplete ==
  ASSUME SerialInv, StopQueue = {}, ProgressQueue = {}, NEW o \in Ops,
         mem[o].phase = "live"
  PROVE  ~IsInProgress(mem[o])
<1>1. SUFFICES ASSUME IsInProgress(mem[o]) PROVE FALSE
  OBVIOUS
<1>2. mem[o].state \in RunningStates
  BY <1>1 DEF IsInProgress
<1>3. IsCurrentTaskOperationValid(mem[o]) /\ ~IsDone(mem[o])
  BY <1>2 DEF SerialInv, ExecutedIsValid, RunningStates, IsDone, IsFinished
<1>4. o \in Filtered
  BY <1>3 DEF Filtered
<1> QED BY <1>1, <1>4 DEF ProgressQueue

\* What selectOperationForExecution returns outside the stop queue waits for its
\* first execution or for a retry, and nothing waits to be stopped.
LEMMA SelectedIsWaiting ==
  ASSUME NEW x \in Ops \ StopQueue, Selects(x)
  PROVE  /\ StopQueue = {} /\ mem[x].phase = "live"
         /\ IsCurrentTaskOperationValid(mem[x])
         /\ mem[x].state = "CompletedWithError" => mem[x].id # NoId
<1>1. StopQueue = {} /\ (x \in FirstQueue \/ x \in RetryQueue)
  BY DEF Selects, IsHead, RetryTurn
<1>2. x \in Filtered
       /\ (IsWaitingForFirstExecution(mem[x]) \/ IsWaitingForRetryExecution(mem[x]))
  BY <1>1 DEF FirstQueue, RetryQueue
<1> QED BY <1>1, <1>2 DEF Filtered, IsWaitingForFirstExecution, IsWaitingForRetryExecution

\* The worker moves on with a snapshot whose tasks are the same.
LEMMA ExecuteKeeps ==
  ASSUME SerialInv, pc \in {"update", "pause"}, dirty = {},
         pc' \in {"finalize", "pause", "execute"}, target' \in Ops \cup {NoOp},
         pc' # "finalize" => target' \in Ops,
         mem' \in [Ops -> Object], \A p \in Ops : SameTask(mem'[p], mem[p]),
         UNCHANGED <<apiVars, queue, cur, stale, dirty, inExecution, result>>,
         UNCHANGED <<cluster, cc, statusTask, boundVars>>,
         TargetIsReady', NothingInProgress'
  PROVE  SerialInv'
<1>1. TypeOK'
  BY DEF SerialInv, TypeOK, Object, PCs, apiVars, boundVars
<1>2. \A p \in Ops : SameTask(api'[p], api[p])
  BY DEF SameTask, apiVars
<1>3. IdsAreUsed' /\ ExecutedIsValid' /\ SnapshotInSync' /\ DirtyIsListed'
  BY <1>2, SameTaskKeeps
<1> QED BY <1>1, <1>3 DEF SerialInv

\* The decision of the reconcile: nothing in progress is overlooked.
LEMMA SelectOperationKeeps ==
  ASSUME SerialInv, SelectOperation
  PROVE  SerialInv'
<1>1. /\ pc = "update" /\ dirty = {} /\ cur \in Ops
      /\ UNCHANGED <<apiVars, cluster, cc, statusTask, boundVars>>
  BY DEF SerialInv, TypeOK, SelectOperation
<1>2. mem \in [Ops -> Object] /\ target \in Ops \cup {NoOp}
      /\ queue \subseteq Ops /\ statusTask' \in BOOLEAN
  BY <1>1 DEF SerialInv, TypeOK, Object
<1>3. CASE Goto("finalize")
  <2>1. /\ pc' = "finalize"
        /\ UNCHANGED <<queue, cur, mem, stale, dirty, inExecution, target, result>>
    BY <1>3 DEF Goto
  <2>2. TargetIsReady' /\ NothingInProgress'
    BY <2>1 DEF TargetIsReady, NothingInProgress
  <2>3. \A p \in Ops : SameTask(mem'[p], mem[p])
    BY <2>1 DEF SameTask
  <2> QED BY <1>1, <1>2, <2>1, <2>2, <2>3, ExecuteKeeps
<1>4. CASE Reconciled \/ Requeue
  BY <1>1, <1>2, <1>4, RequeueKeeps DEF Reconciled, Requeue
<1>5. ASSUME NEW x \in StopQueue,
             Execute(x, [mem EXCEPT ![x].operation = "stop_execution"])
      PROVE  SerialInv'
  <2> DEFINE op == [mem[x] EXCEPT !.operation = "stop_execution"]
  <2>1. x \in Ops /\ mem[x].phase = "live" /\ mem[x].state \in RunningStates
    BY <1>5 DEF StopQueue, Filtered, IsWaitingForFinalization, IsCurrentTaskRunning
  <2>2. mem[x] \in Object
    BY <1>2, <2>1
  <2>3. op \in Object /\ op.operation = "stop_execution"
        /\ op.phase = mem[x].phase /\ op.state = mem[x].state /\ op.id = mem[x].id
    BY <2>2 DEF Object, OperationObject, ValidOperations
  <2>4. /\ mem' = [mem EXCEPT ![x] = op] /\ pc' = "execute" /\ target' = x
        /\ UNCHANGED <<queue, cur, stale, dirty, inExecution, result>>
    BY <1>5 DEF Execute
  <2> HIDE DEF op
  <2>5. mem' \in [Ops -> Object] /\ mem'[x] = op
    BY <1>2, <2>1, <2>3, <2>4
  <2>6. \A p \in Ops : SameTask(mem'[p], mem[p])
    BY <1>2, <2>1, <2>3, <2>4
    DEF SameTask, IsCurrentTaskOperationValid, ValidOperations
  <2>7. TargetIsReady'
    BY <2>1, <2>3, <2>4, <2>5
    DEF TargetIsReady, IsCurrentTaskOperationValid, ValidOperations, RunningStates
  <2>8. NothingInProgress'
    BY <2>3, <2>4, <2>5 DEF NothingInProgress
  <2> QED BY <1>1, <2>1, <2>4, <2>5, <2>6, <2>7, <2>8, ExecuteKeeps
<1>6. ASSUME NEW x \in Ops \ StopQueue, Selects(x), MayExecute(x), Execute(x, mem)
      PROVE  SerialInv'
  <2>1. /\ pc' = "execute" /\ target' = x
        /\ UNCHANGED <<queue, cur, mem, stale, dirty, inExecution, result>>
    BY <1>6 DEF Execute
  <2>2. \A p \in Ops : SameTask(mem'[p], mem[p])
    BY <2>1 DEF SameTask
  <2>3. TargetIsReady'
    BY <1>6, <2>1, SelectedIsWaiting DEF TargetIsReady
  <2>4. NothingInProgress'
    BY <1>6, <2>1, SelectedIsWaiting, QueuesAreComplete DEF NothingInProgress, MayExecute
  <2> QED BY <1>1, <1>2, <2>1, <2>2, <2>3, <2>4, ExecuteKeeps
<1>7. ASSUME NEW r \in Ops, NEW x \in Ops, Pauses(r, x), pc' = "pause", target' = x,
             UNCHANGED <<queue, cur, mem, stale, dirty, inExecution, result>>
      PROVE  SerialInv'
  <2>1. StopQueue = {} /\ x \in FirstQueue /\ mem[x].operation = "rebalance"
    BY <1>7 DEF Pauses, RetryTurn, IsHead, WaitingRebalances
  <2>2. x \in Filtered /\ mem[x].state = ""
    BY <2>1 DEF FirstQueue, IsWaitingForFirstExecution
  <2>3. TargetIsReady'
    BY <1>7, <2>2 DEF TargetIsReady, Filtered
  <2>4. NothingInProgress'
    BY <1>7, <2>1 DEF NothingInProgress, StopQueue, Filtered
  <2>5. \A p \in Ops : SameTask(mem'[p], mem[p])
    BY <1>7 DEF SameTask
  <2> QED BY <1>1, <1>2, <1>7, <2>3, <2>4, <2>5, ExecuteKeeps
<1> QED BY <1>3, <1>4, <1>5, <1>6, <1>7 DEF SelectOperation

\* The failed removal of disks is paused; its task stays what it was.
LEMMA PauseRetryKeeps ==
  ASSUME SerialInv, PauseRetry
  PROVE  SerialInv'
<1>1. /\ pc = "pause" /\ dirty = {} /\ cur \in Ops /\ target \in Ops
      /\ UNCHANGED <<cluster, cc, statusTask, boundVars>>
  BY DEF SerialInv, TypeOK, DirtyIsListed, PauseRetry
<1>2. /\ mem \in [Ops -> Object] /\ api \in [Ops -> Object]
      /\ queue \subseteq Ops /\ statusTask' \in BOOLEAN
  BY <1>1 DEF SerialInv, TypeOK, Object
<1>3. PICK r \in Ops :
        /\ IsHead(r, RetryQueue)
        /\ \/ /\ Writable(r)
              /\ LET op == [api[r] EXCEPT !.paused = TRUE]
                     m  == [mem EXCEPT ![r] = op]
                 IN  /\ Store(r, op)
                     /\ IF MayExecute(target)
                        THEN /\ queue' = queue \cup Woken(r, op)
                             /\ pc' = "execute" /\ mem' = m
                             /\ UNCHANGED <<cur, stale, dirty, inExecution,
                                            target, result>>
                        ELSE Finish(queue \cup {cur} \cup Woken(r, op))
           \/ ~Writable(r) /\ Requeue /\ UNCHANGED apiVars
  BY DEF PauseRetry
<1>4. CASE Requeue /\ UNCHANGED apiVars
  BY <1>1, <1>2, <1>4, RequeueKeeps DEF Requeue
<1>5. CASE Writable(r)
  <2> DEFINE op == [api[r] EXCEPT !.paused = TRUE]
  <2>1. Store(r, op) /\ Writable(r) /\ r \in RetryQueue
    BY <1>3, <1>5 DEF IsHead, Writable
  <2>2. api[r] \in Object /\ api[r].phase = "live"
    BY <1>2, <2>1 DEF Writable
  <2>3. op \in Object /\ SameTask(op, api[r])
    BY <2>2 DEF Object, OperationObject, SameTask, IsCurrentTaskOperationValid
  <2>4. mem[r].phase = "live" /\ mem[r].state = "CompletedWithError"
    BY <2>1 DEF RetryQueue, Filtered, IsWaitingForRetryExecution
  <2>5. api[r].state = mem[r].state /\ api[r].id = mem[r].id
    BY <1>1, <2>2, <2>4 DEF SerialInv, SnapshotInSync
  <2>6. IsCurrentTaskOperationValid(api[r]) /\ Used(api[r].id)
    BY <2>4, <2>5 DEF SerialInv, ExecutedIsValid, IdsAreUsed
  <2> HIDE DEF op
  <2>7. SameTask(op, mem[r]) /\ IsCurrentTaskOperationValid(op) /\ Used(op.id)
    BY <2>2, <2>3, <2>4, <2>5, <2>6 DEF SameTask
  <2>8. CASE ~MayExecute(target)
    <3>1. Finish(queue \cup {cur} \cup Woken(r, op))
      BY <1>3, <1>5, <2>8 DEF op, Writable
    <3>2. queue \cup {cur} \cup Woken(r, op) \subseteq Ops
      BY <1>1, <1>2, WokenType
    <3> QED BY <1>1, <2>1, <2>3, <2>7, <3>1, <3>2, FinalWriteKeeps
  <2>9. CASE MayExecute(target)
    <3>1. /\ queue' = queue \cup Woken(r, op) /\ pc' = "execute"
          /\ mem' = [mem EXCEPT ![r] = op] /\ api' = [api EXCEPT ![r] = op]
          /\ UNCHANGED <<cur, stale, dirty, inExecution, target, result>>
      BY <1>3, <1>5, <2>1, <2>9 DEF op, Writable, Store
    <3>2. api' \in [Ops -> Object] /\ ttlQueue' \subseteq Ops /\ elapsed' \subseteq Ops
      BY <2>1, <2>3, StoreType DEF SerialInv
    <3>3. queue' \subseteq Ops
      BY <1>2, <3>1, WokenType
    <3>4. TypeOK'
      BY <1>1, <1>2, <2>3, <3>1, <3>2, <3>3 DEF SerialInv, TypeOK, Object, PCs, boundVars
    <3>5. \A p \in Ops : SameTask(api'[p], api[p]) /\ SameTask(mem'[p], mem[p])
      BY <1>2, <2>3, <2>7, <3>1 DEF SameTask
    <3>6. IdsAreUsed' /\ ExecutedIsValid' /\ SnapshotInSync' /\ DirtyIsListed'
      BY <1>1, <3>1, <3>5, SameTaskKeeps
    <3>7. TargetIsReady'
      BY <1>1, <3>1, <3>5 DEF SerialInv, TargetIsReady, SameTask
    <3>8. StopQueue = {} /\ ProgressQueue = {}
      BY <1>1, <2>9 DEF SerialInv, NothingInProgress, MayExecute
    <3>9. NothingInProgress'
      BY <3>1, <3>5, <3>8, QueuesAreComplete DEF NothingInProgress, IsInProgress, SameTask
    <3> QED BY <3>4, <3>6, <3>7, <3>9 DEF SerialInv
  <2> QED BY <2>8, <2>9
<1> QED BY <1>3, <1>4, <1>5

-----------------------------------------------------------------------------
\* Cruise Control's tasks change and everything else stays.
LEMMA TasksKeep ==
  ASSUME SerialInv, cc' \in [TaskIds -> UserTask],
         \A t \in TaskIds : cc[t].state # "unused" => cc'[t].state # "unused",
         UNCHANGED <<apiVars, cluster, queue, statusTask, workerVars, boundVars>>
  PROVE  SerialInv'
<1>1. TypeOK'
  BY DEF SerialInv, TypeOK, apiVars, workerVars, boundVars
<1>2. IdsAreUsed'
  <2>1. \A o \in Ops : api[o].id \in TaskIds \cup {NoId} /\ mem[o].id \in TaskIds \cup {NoId}
    BY ObjectFields DEF SerialInv, TypeOK, Object
  <2>2. result.id \in TaskIds \cup {NoId}
    BY DEF SerialInv, TypeOK
  <2> QED BY <2>1, <2>2 DEF SerialInv, IdsAreUsed, Used, apiVars, workerVars
<1>3. ExecutedIsValid' /\ DirtyIsListed' /\ SnapshotInSync' /\ TargetIsReady'
  BY DEF SerialInv, ExecutedIsValid, DirtyIsListed, SnapshotInSync, TargetIsReady,
         apiVars, workerVars
<1>4. NothingInProgress'
  BY DEF SerialInv, NothingInProgress, StopQueue, Filtered, workerVars
<1> QED BY <1>1, <1>2, <1>3, <1>4 DEF SerialInv

\* A task that Cruise Control knows stays known, even when it is forgotten.
LEMMA CruiseControlKeeps ==
  ASSUME SerialInv, CruiseControl
  PROVE  SerialInv'
<1>1. cc \in [TaskIds -> UserTask]
  BY DEF SerialInv, TypeOK
<1>2. ASSUME NEW t \in TaskIds,
             NEW s \in {"evicted"} \cup RunningStates \cup EndStates, SetTaskState(t, s)
      PROVE  SerialInv'
  <2>1. cc[t] \in UserTask
    BY <1>1
  <2>2. [cc[t] EXCEPT !.state = s] \in UserTask
        /\ [cc[t] EXCEPT !.state = s].state # "unused"
    BY <2>1 DEF UserTask, RunningStates, EndStates
  <2>3. cc' = [cc EXCEPT ![t] = [cc[t] EXCEPT !.state = s]]
    BY <1>2 DEF SetTaskState
  <2>4. /\ cc' \in [TaskIds -> UserTask]
        /\ \A u \in TaskIds : cc[u].state # "unused" => cc'[u].state # "unused"
    BY <1>1, <2>2, <2>3
  <2> QED BY <1>2, <2>4, TasksKeep DEF SetTaskState
<1>3. ASSUME NEW t \in TaskIds, StopTakesEffect(t) PROVE SerialInv'
  <2> DEFINE after(u) == CASE u = t -> [cc[t] EXCEPT !.state = "Completed"]
                           [] cc[u].state = "InExecution" ->
                                [cc[u] EXCEPT !.state = "CompletedWithError"]
                           [] OTHER -> cc[u]
  <2>1. ASSUME NEW u \in TaskIds
        PROVE  after(u) \in UserTask /\ (after(u).state = cc[u].state \/ after(u).state \in EndStates)
    <3>1. cc[u] \in UserTask
      BY <1>1
    <3>2. \A s \in EndStates : /\ [cc[u] EXCEPT !.state = s] \in UserTask
                               /\ [cc[u] EXCEPT !.state = s].state = s
      BY <3>1 DEF UserTask
    <3> QED BY <3>1, <3>2 DEF EndStates
  <2>2. cc' = [u \in TaskIds |-> after(u)]
    BY <1>3 DEF StopTakesEffect
  <2> HIDE DEF after
  <2>3. /\ cc' \in [TaskIds -> UserTask]
        /\ \A u \in TaskIds : cc[u].state # "unused" => cc'[u].state # "unused"
    BY <2>1, <2>2 DEF EndStates
  <2> QED BY <1>3, <2>3, TasksKeep DEF StopTakesEffect
<1> QED BY <1>2, <1>3 DEF CruiseControl, StartExecution, Evict, EndTask, RunningStates

\* A request to Cruise Control and its answer.
LEMMA ExecuteOperationKeeps ==
  ASSUME SerialInv, NEW outcome \in Outcomes, ExecuteOperation(outcome)
  PROVE  SerialInv'
<1>1. /\ pc = "execute" /\ dirty = {} /\ cur \in Ops /\ target \in Ops
      /\ UNCHANGED <<apiVars, cluster, statusTask, boundVars>>
  BY DEF SerialInv, TypeOK, DirtyIsListed, ExecuteOperation
<1>2. /\ cc \in [TaskIds -> UserTask] /\ mem \in [Ops -> Object]
      /\ queue \subseteq Ops /\ statusTask' \in BOOLEAN
  BY <1>1 DEF SerialInv, TypeOK, Object
<1>3. ASSUME NEW t \in TaskIds, NEW s \in {"Active", "CompletedWithError"}, NewTask(t, s)
      PROVE  /\ cc' \in [TaskIds -> UserTask] /\ cc'[t].state # "unused"
             /\ \A u \in TaskIds : cc[u].state # "unused" => cc'[u].state # "unused"
  <2>1. mem[target].operation \in {""} \cup ValidOperations
    BY <1>1, <1>2, ObjectFields
  <2> DEFINE task == [state |-> s, owner |-> target, kind |-> mem[target].operation]
  <2>2. task \in UserTask /\ task.state # "unused"
    BY <1>1, <2>1 DEF UserTask, RunningStates, EndStates
  <2>3. cc' = [cc EXCEPT ![t] = task]
    BY <1>3 DEF NewTask
  <2> HIDE DEF task
  <2> QED BY <1>2, <2>2, <2>3
<1>4. ASSUME NEW id \in TaskIds \cup {NoId}, NEW s \in TaskStates, NEW dated \in BOOLEAN,
             Answer(id, s, dated), cc' \in [TaskIds -> UserTask],
             id = NoId \/ cc'[id].state # "unused",
             \A u \in TaskIds : cc[u].state # "unused" => cc'[u].state # "unused"
      PROVE  SerialInv'
  <2>1. /\ pc' = "write"
        /\ UNCHANGED <<queue, cur, mem, stale, dirty, inExecution, target>>
        /\ UNCHANGED <<api, elapsed, ttlQueue, cluster, statusTask, edits, crashes>>
    BY <1>1, <1>4 DEF Answer, apiVars, boundVars
  <2>2. result' \in [id : TaskIds \cup {NoId}, state : TaskStates, dated : BOOLEAN]
        /\ result'.id = id
    BY <1>4 DEF Answer
  <2>3. TypeOK'
    BY <1>1, <1>4, <2>1, <2>2 DEF SerialInv, TypeOK, PCs
  <2>4. IdsAreUsed'
    <3>1. \A o \in Ops : api[o].id \in TaskIds \cup {NoId} /\ mem[o].id \in TaskIds \cup {NoId}
      BY ObjectFields DEF SerialInv, TypeOK, Object
    <3> QED BY <1>4, <2>1, <2>2, <3>1 DEF SerialInv, IdsAreUsed, Used
  <2>5. ExecutedIsValid' /\ DirtyIsListed' /\ SnapshotInSync' /\ TargetIsReady'
    BY <1>1, <2>1 DEF SerialInv, ExecutedIsValid, DirtyIsListed, SnapshotInSync, TargetIsReady
  <2>6. NothingInProgress'
    BY <2>1 DEF NothingInProgress
  <2> QED BY <2>3, <2>4, <2>5, <2>6 DEF SerialInv
<1>5. CASE Requeue /\ UNCHANGED cc
  BY <1>1, <1>2, <1>5, RequeueKeeps DEF Requeue
<1>6. ASSUME NEW t \in TaskIds, NEW s \in {"Active", "CompletedWithError"},
             NewTask(t, s), Answer(t, s, TRUE)
      PROVE  SerialInv'
  BY <1>3, <1>4, <1>6 DEF TaskStates, RunningStates, EndStates
<1>7. ASSUME NEW t \in TaskIds, NewTask(t, "Active"), Answer(NoId, "CompletedWithError", FALSE)
      PROVE  SerialInv'
  BY <1>3, <1>4, <1>7 DEF TaskStates, EndStates
<1>8. ASSUME NEW s \in EndStates, NEW dated \in BOOLEAN, Answer(NoId, s, dated), UNCHANGED cc
      PROVE  SerialInv'
  BY <1>2, <1>4, <1>8 DEF TaskStates
<1> QED BY <1>5, <1>6, <1>7, <1>8 DEF ExecuteOperation, EndStates

\* The result is recorded, lost to a Conflict, or left for another attempt.
LEMMA WriteResultKeeps ==
  ASSUME SerialInv, WriteResult
  PROVE  SerialInv'
<1> DEFINE new == AfterExecution(mem[target], result)
<1>1. /\ pc = "write" /\ cur \in Ops /\ target \in Ops
      /\ UNCHANGED <<cluster, cc, statusTask, boundVars>>
  BY DEF SerialInv, TypeOK, WriteResult
<1>2. /\ mem[target] \in Object /\ queue \subseteq Ops /\ statusTask' \in BOOLEAN
      /\ result \in [id : TaskIds \cup {NoId}, state : TaskStates, dated : BOOLEAN]
  BY <1>1 DEF SerialInv, TypeOK, Object
<1>3. /\ IsCurrentTaskOperationValid(mem[target]) /\ Used(result.id)
      /\ mem[target].state = "CompletedWithError" => mem[target].id # NoId
  BY <1>1 DEF SerialInv, TargetIsReady, IdsAreUsed
<1>4. new \in Object /\ new.operation = mem[target].operation /\ new.id = result.id
  BY <1>2, <1>3, AfterExecutionType
<1> HIDE DEF new
<1>5. CASE (Requeue \/ Reconciled) /\ UNCHANGED apiVars
  BY <1>1, <1>2, <1>5, RequeueKeeps DEF Requeue, Reconciled
<1>6. CASE Store(target, new) /\ Finish(queue \cup Woken(target, new))
  <2>1. queue \cup Woken(target, new) \subseteq Ops
    BY <1>1, <1>2, WokenType
  <2>2. IsCurrentTaskOperationValid(new) /\ Used(new.id)
    BY <1>3, <1>4 DEF IsCurrentTaskOperationValid
  <2> QED BY <1>1, <1>4, <1>6, <2>1, <2>2, FinalWriteKeeps
<1> QED BY <1>5, <1>6 DEF WriteResult, new

-----------------------------------------------------------------------------
\* A new object has no task.
LEMMA CreatedKeeps ==
  ASSUME SerialInv, NEW o \in Ops, NEW new \in Object, ExternalWrite(o, new),
         api[o].phase = "unborn", new.phase = "live", new.state = "", new.id = NoId,
         UNCHANGED <<cluster, cc, statusTask, crashes>>, edits' \in 0..MaxEdits
  PROVE  SerialInv'
<1>1. api' = [api EXCEPT ![o] = new] /\ api \in [Ops -> Object]
  BY DEF ExternalWrite, Store, SerialInv, TypeOK, Object
<1>2. UNCHANGED <<pc, cur, mem, dirty, inExecution, target, result>>
  BY DEF ExternalWrite
<1>3. TypeOK'
  <2>1. api' \in [Ops -> Object] /\ ttlQueue' \subseteq Ops /\ elapsed' \subseteq Ops
    BY StoreType DEF ExternalWrite, SerialInv
  <2>2. queue' \subseteq Ops /\ stale' \subseteq Ops
    BY WokenType DEF ExternalWrite, SerialInv, TypeOK
  <2> QED BY <1>2, <2>1, <2>2 DEF SerialInv, TypeOK, Object
<1>4. IdsAreUsed' /\ ExecutedIsValid'
  BY <1>1, <1>2 DEF SerialInv, IdsAreUsed, Used, ExecutedIsValid
<1>5. DirtyIsListed' /\ TargetIsReady'
  BY <1>2 DEF SerialInv, DirtyIsListed, TargetIsReady
<1>6. SnapshotInSync'
  BY <1>1, <1>2 DEF SerialInv, SnapshotInSync
<1>7. NothingInProgress'
  BY <1>2 DEF SerialInv, NothingInProgress, StopQueue, Filtered
<1> QED BY <1>3, <1>4, <1>5, <1>6, <1>7 DEF SerialInv

\* Times and the existence of the cluster are no part of the argument.
LEMMA BooksKeep ==
  ASSUME SerialInv, UNCHANGED <<api, queue, cc, statusTask, workerVars, crashes>>,
         ttlQueue' \subseteq Ops, elapsed' \subseteq Ops, cluster' \in BOOLEAN,
         edits' \in 0..MaxEdits
  PROVE  SerialInv'
<1>1. TypeOK'
  BY DEF SerialInv, TypeOK, workerVars
<1>2. IdsAreUsed' /\ ExecutedIsValid' /\ DirtyIsListed' /\ SnapshotInSync'
      /\ TargetIsReady'
  BY DEF SerialInv, IdsAreUsed, Used, ExecutedIsValid, DirtyIsListed, SnapshotInSync,
         TargetIsReady, workerVars
<1>3. NothingInProgress'
  BY DEF SerialInv, NothingInProgress, StopQueue, Filtered, workerVars
<1> QED BY <1>1, <1>2, <1>3 DEF SerialInv

\* What deleting an object does to it.
LEMMA DeletedType ==
  ASSUME NEW op \in Object, op.phase = "live"
  PROVE  /\ Deleted(op) \in Object /\ Deleted(op).phase # "unborn"
         /\ Deleted(op).state = op.state /\ Deleted(op).id = op.id
         /\ Deleted(op).operation = op.operation
  BY DEF Deleted, Object, OperationObject

\* The TTL controller deletes an object or lets it be.
LEMMA TTLKeeps ==
  ASSUME SerialInv, NEW o \in Ops, TTLReconcile(o)
  PROVE  SerialInv'
<1>1. /\ UNCHANGED <<cluster, elapsed, cc, statusTask, pc, cur, mem, dirty,
                     inExecution, target, result, edits, crashes>>
      /\ ttlQueue' = ttlQueue \ {o} /\ api \in [Ops -> Object]
  BY DEF TTLReconcile, boundVars, SerialInv, TypeOK, Object
<1>2. CASE UNCHANGED <<api, queue, stale>>
  BY <1>1, <1>2, BooksKeep DEF SerialInv, TypeOK, workerVars
<1>3. CASE /\ api[o].phase = "live" /\ api' = [api EXCEPT ![o] = Deleted(api[o])]
           /\ queue' = queue \cup Woken(o, Deleted(api[o]))
           /\ stale' = IF mem[o].phase = "live" THEN stale \cup {o} ELSE stale
  <2> DEFINE new == Deleted(api[o])
  <2>1. new \in Object /\ new.phase # "unborn" /\ new.state = api[o].state
        /\ new.id = api[o].id /\ new.operation = api[o].operation
    BY <1>1, <1>3, DeletedType
  <2>2. api' = [api EXCEPT ![o] = new]
    BY <1>3
  <2> HIDE DEF new
  <2>3. queue' \subseteq Ops /\ stale' \subseteq Ops
    BY <1>3, WokenType DEF SerialInv, TypeOK
  <2>4. TypeOK'
    BY <1>1, <2>1, <2>2, <2>3 DEF SerialInv, TypeOK, Object
  <2>5. IdsAreUsed'
    BY <1>1, <2>1, <2>2 DEF SerialInv, IdsAreUsed, Used
  <2>6. ExecutedIsValid'
    BY <1>1, <2>1, <2>2 DEF SerialInv, ExecutedIsValid, IsCurrentTaskOperationValid
  <2>7. DirtyIsListed' /\ TargetIsReady'
    BY <1>1 DEF SerialInv, DirtyIsListed, TargetIsReady
  <2>8. SnapshotInSync'
    BY <1>1, <1>3, <2>1, <2>2 DEF SerialInv, SnapshotInSync
  <2>9. NothingInProgress'
    BY <1>1 DEF SerialInv, NothingInProgress, StopQueue, Filtered
  <2> QED BY <2>4, <2>5, <2>6, <2>7, <2>8, <2>9 DEF SerialInv
<1> QED BY <1>2, <1>3 DEF TTLReconcile

\* The other actors never write a task that runs or has run.
LEMMA EnvironmentKeeps ==
  ASSUME SerialInv, Environment
  PROVE  SerialInv'
<1>1. /\ api \in [Ops -> Object] /\ edits \in 0..MaxEdits /\ crashes \in 0..MaxCrashes
      /\ cc \in [TaskIds -> UserTask] /\ MaxEdits \in Nat /\ MaxCrashes \in Nat
  BY BoundsAssumption DEF SerialInv, TypeOK, Object
<1>2. \A o \in Ops : api[o].state # "" => IsCurrentTaskOperationValid(api[o])
  BY DEF SerialInv, ExecutedIsValid
<1>3. ASSUME NEW o \in Ops, CreateOperation(o) PROVE SerialInv'
  <2> DEFINE new == [Unborn EXCEPT !.phase = "live", !.policy = PolicyOf[o]]
  <2>1. new \in Object /\ new.phase = "live" /\ new.state = "" /\ new.id = NoId
    <3>1. PolicyOf[o] \in Policies
      BY PolicyOfAssumption
    <3>2. new.state = "" /\ new.id = NoId /\ new.phase = "live"
      BY DEF Unborn
    <3> QED BY <3>1, <3>2, UnbornType DEF Object, OperationObject
  <2>2. ExternalWrite(o, new) /\ api[o].phase = "unborn" /\ edits' = edits
        /\ UNCHANGED <<cluster, cc, statusTask, crashes>>
    BY <1>3 DEF CreateOperation, boundVars
  <2> HIDE DEF new
  <2> QED BY <1>1, <2>1, <2>2, CreatedKeeps
<1>4. ASSUME NEW o \in Ops, SetCurrentTask(o) PROVE SerialInv'
  <2> DEFINE new == [api[o] EXCEPT !.operation = KindOf[o]]
  <2>1. KindOf[o] \in ValidOperations
    BY KindOfAssumption DEF ValidOperations
  <2>2. api[o] \in Object
    BY <1>1
  <2>3. new \in Object /\ new.phase = api[o].phase /\ new.state = api[o].state
        /\ new.id = api[o].id /\ new.operation = KindOf[o]
    BY <2>1, <2>2 DEF Object, OperationObject
  <2>4. ExternalWrite(o, new) /\ api[o].phase = "live" /\ edits' = edits
        /\ UNCHANGED <<cluster, cc, statusTask, crashes>>
    BY <1>4 DEF SetCurrentTask, boundVars
  <2> HIDE DEF new
  <2>5. IsCurrentTaskOperationValid(new)
    BY <2>1, <2>3 DEF IsCurrentTaskOperationValid
  <2> QED BY <1>1, <2>3, <2>4, <2>5, ExternalKeeps
<1>5. ASSUME NEW o \in Ops, NEW new \in Object, ExternalWrite(o, new), api[o].phase = "live",
             new.phase # "unborn", new.state = api[o].state, new.id = api[o].id,
             new.operation = api[o].operation,
             UNCHANGED <<cluster, cc, statusTask, crashes>>, edits' \in 0..MaxEdits
      PROVE  SerialInv'
  <2>1. new.state # "" => IsCurrentTaskOperationValid(new)
    BY <1>2, <1>5 DEF IsCurrentTaskOperationValid
  <2> QED BY <1>5, <2>1, ExternalKeeps
<1>6. ASSUME NEW o \in Ops, TogglePause(o) \/ EditErrorPolicy(o) \/ DeleteOperation(o)
      PROVE  SerialInv'
  <2> DEFINE paused == [api[o] EXCEPT !.paused = ~api[o].paused]
             edited == [api[o] EXCEPT !.policy =
                          IF api[o].policy = "retry" THEN "ignore" ELSE "retry"]
  <2>1. api[o] \in Object /\ api[o].phase = "live"
    BY <1>1, <1>6 DEF TogglePause, EditErrorPolicy, DeleteOperation, UserEdit
  <2>2. edits' \in 0..MaxEdits /\ UNCHANGED <<cluster, cc, statusTask, crashes>>
    BY <1>1, <1>6 DEF TogglePause, EditErrorPolicy, DeleteOperation, UserEdit
  <2>3. paused \in Object /\ paused.phase = "live" /\ paused.state = api[o].state
        /\ paused.id = api[o].id /\ paused.operation = api[o].operation
    BY <2>1 DEF Object, OperationObject
  <2>4. edited \in Object /\ edited.phase = "live" /\ edited.state = api[o].state
        /\ edited.id = api[o].id /\ edited.operation = api[o].operation
    BY <2>1 DEF Object, OperationObject, Policies
  <2>5. ExternalWrite(o, paused) \/ ExternalWrite(o, edited)
        \/ ExternalWrite(o, Deleted(api[o]))
    BY <1>6 DEF TogglePause, EditErrorPolicy, DeleteOperation, UserEdit
  <2> HIDE DEF paused, edited
  <2> QED BY <1>5, <2>1, <2>2, <2>3, <2>4, <2>5, DeletedType
<1>7. ASSUME NEW o \in Ops, CollectGarbage(o) PROVE SerialInv'
  <2>1. ExternalWrite(o, Deleted(api[o])) /\ api[o].phase = "live" /\ edits' = edits
        /\ UNCHANGED <<cluster, cc, statusTask, crashes>>
    BY <1>7 DEF CollectGarbage, boundVars
  <2> QED BY <1>1, <1>5, <2>1, DeletedType
<1>8. ASSUME NEW o \in Ops, TTLReconcile(o) PROVE SerialInv'
  BY <1>1, <1>8, TTLKeeps
<1>9. ASSUME UNCHANGED <<api, queue, cc, statusTask, workerVars, crashes>>,
             ttlQueue' \subseteq Ops, elapsed' \subseteq Ops, cluster' \in BOOLEAN,
             edits' \in 0..MaxEdits
      PROVE  SerialInv'
  BY <1>9, BooksKeep
<1>10. ASSUME NEW o \in Ops, BackoffElapses(o) PROVE SerialInv'
  <2>1. UNCHANGED <<api, queue, cc, statusTask, workerVars, crashes>>
        /\ UNCHANGED <<ttlQueue, cluster, edits>> /\ elapsed' = elapsed \cup {o}
    BY <1>10 DEF BackoffElapses, boundVars
  <2> QED BY <1>9, <2>1 DEF SerialInv, TypeOK
<1>11. ASSUME DeleteCluster PROVE SerialInv'
  <2>1. UNCHANGED <<api, queue, cc, statusTask, workerVars, crashes>>
        /\ UNCHANGED <<ttlQueue, elapsed>> /\ cluster' = FALSE
        /\ edits' = edits + 1 /\ edits < MaxEdits
    BY <1>11 DEF DeleteCluster, apiVars
  <2>2. edits' \in 0..MaxEdits
    BY <1>1, <2>1
  <2> QED BY <1>9, <2>1, <2>2 DEF SerialInv, TypeOK
<1>12. ASSUME Restart PROVE SerialInv'
  <2>1. {o \in Ops : CreateEvent(api[o])} \subseteq Ops /\ ttlQueue' \subseteq Ops
        /\ Finish({o \in Ops : CreateEvent(api[o])})
        /\ UNCHANGED <<api, elapsed, cluster, cc, statusTask, edits>>
    BY <1>12 DEF Restart
  <2>2. crashes' \in 0..MaxCrashes
    BY <1>1, <1>12 DEF Restart
  <2>3. \A o \in Ops : Used(api'[o].id)
    BY <2>1 DEF SerialInv, IdsAreUsed
  <2>4. \A o \in Ops : api'[o].state # "" => IsCurrentTaskOperationValid(api'[o])
    BY <1>2, <2>1
  <2>5. api' \in [Ops -> Object] /\ elapsed' \subseteq Ops /\ cluster' \in BOOLEAN
        /\ statusTask' \in BOOLEAN /\ edits' \in 0..MaxEdits
    BY <1>1, <2>1 DEF SerialInv, TypeOK
  <2> QED BY <2>1, <2>2, <2>3, <2>4, <2>5, FinishKeeps
<1> QED
  BY <1>3, <1>4, <1>6, <1>7, <1>8, <1>10, <1>11, <1>12 DEF Environment

-----------------------------------------------------------------------------
\* Before anything was created the invariant holds.
LEMMA InitEstablishes == Init => SerialInv
<1> SUFFICES ASSUME Init PROVE SerialInv
  OBVIOUS
<1>1. [t \in TaskIds |-> UnusedTask] \in [TaskIds -> UserTask]
  BY DEF UnusedTask, UserTask
<1>2. TypeOK
  <2>1. edits \in 0..MaxEdits /\ crashes \in 0..MaxCrashes
    BY BoundsAssumption DEF Init
  <2>2. result \in [id : TaskIds \cup {NoId}, state : TaskStates, dated : BOOLEAN]
    BY DEF Init, NoResult, TaskStates
  <2>3. cc \in [TaskIds -> UserTask]
    BY <1>1 DEF Init
  <2>4. api \in [Ops -> Object] /\ mem \in [Ops -> Object]
    BY UnbornType DEF Init
  <2> QED BY <2>1, <2>2, <2>3, <2>4 DEF Init, TypeOK, Object, PCs
<1>3. IdsAreUsed /\ ExecutedIsValid
  BY DEF Init, IdsAreUsed, ExecutedIsValid, Used, NoMem, Unborn, NoResult
<1>4. DirtyIsListed /\ SnapshotInSync /\ TargetIsReady /\ NothingInProgress
  BY DEF Init, DirtyIsListed, SnapshotInSync, TargetIsReady, NothingInProgress
<1> QED BY <1>2, <1>3, <1>4 DEF SerialInv

\* Every step of the controllers, of users and of Cruise Control preserves the
\* invariant.
LEMMA StepPreserves == SerialInv /\ [Next]_vars => SerialInv'
<1> SUFFICES ASSUME SerialInv, [Next]_vars PROVE SerialInv'
  OBVIOUS
<1>1. CASE Worker
  BY <1>1, ListKeeps, UpdateTaskStatusKeeps, StatusKeeps, ExecuteOperationKeeps,
     RemoveFinalizerKeeps, AddFinalizerKeeps, UpdateCurrentTasksKeeps,
     SelectOperationKeeps, PauseRetryKeeps, WriteResultKeeps DEF Worker
<1>2. CASE Environment
  BY <1>2, EnvironmentKeeps
<1>3. CASE CruiseControl
  BY <1>3, CruiseControlKeeps
<1>4. CASE UNCHANGED vars
  <2>1. UNCHANGED <<apiVars, cluster, queue, statusTask, workerVars, boundVars>> /\ cc' = cc
    BY <1>4 DEF vars, apiVars, workerVars, boundVars
  <2>2. cc' \in [TaskIds -> UserTask]
    BY <2>1 DEF SerialInv, TypeOK
  <2> QED BY <2>1, <2>2, TasksKeep
<1> QED BY <1>1, <1>2, <1>3, <1>4 DEF Next

\* The inductive invariant holds in every reachable state of the controller,
\* whatever the number of operations, user tasks, edits and restarts.
THEOREM InductiveInvariant == Spec => []SerialInv
BY InitEstablishes, StepPreserves, PTL DEF Spec

\* Every variable keeps its type: in particular a polled state is always one the
\* API accepts, and a request is only ever sent for a chosen object.
THEOREM TypeCorrect == Spec => []TypeOK
<1>1. SerialInv => TypeOK
  BY DEF SerialInv
<1> QED BY <1>1, InductiveInvariant, PTL

\* No request but stop_execution is sent while an existing operation is recorded
\* as in progress: the check before executeOperation is made on a snapshot that
\* others may have outdated, and is nevertheless right.
THEOREM SerialExecutionHolds == Spec => []SerialExecution
<1>1. SerialInv => SerialExecution
  <2>1. SUFFICES ASSUME SerialInv, pc = "execute", NEW o \in Ops, Live(o),
                        mem[target].operation # "stop_execution", IsInProgress(api[o])
                 PROVE  FALSE
    BY DEF SerialExecution
  <2>2. dirty = {}
    BY <2>1 DEF SerialInv, DirtyIsListed
  <2>3. CASE mem[o].phase = "live"
    <3>1. api[o].state = mem[o].state /\ api[o].id = mem[o].id
      BY <2>1, <2>2, <2>3 DEF SerialInv, SnapshotInSync, Live
    <3> QED BY <2>1, <2>3, <3>1 DEF SerialInv, NothingInProgress, IsInProgress
  <2>4. CASE mem[o].phase # "live"
    <3>1. api[o].state = ""
      BY <2>1, <2>2, <2>4 DEF SerialInv, SnapshotInSync, Live
    <3> QED BY <2>1, <3>1 DEF IsInProgress, RunningStates
  <2> QED BY <2>3, <2>4
<1> QED BY <1>1, InductiveInvariant, PTL

-----------------------------------------------------------------------------
\* Deletions of the snapshot are real; stop_execution is only on deleted objects.
DeletionIsReal ==
  \A o \in Ops :
    /\ mem[o].deleting => api[o].deleting
    /\ mem[o].operation = "stop_execution" => mem[o].deleting
    /\ api[o].operation = "stop_execution" => api[o].deleting
    /\ api[o].phase = "unborn" => ~api[o].deleting

\* A listed object that nobody else has written is the one in the snapshot.
FreshIsEqual ==
  \A o \in Ops :
    mem[o].phase = "live" /\ api[o].phase = "live" /\ o \notin stale =>
      /\ mem[o].deleting = api[o].deleting
      /\ o \notin dirty => mem[o].finished = api[o].finished

\* The finalizer is about to be removed from a listed object without a running
\* task, unless the KafkaCluster is gone.
FinalizeIsSafe ==
  /\ pc # "idle" => mem[cur].phase = "live"
  /\ pc = "finalize" => ~cluster \/ ~IsCurrentTaskRunning(mem[cur])

DeletionInv == DeletionIsReal /\ FreshIsEqual /\ FinalizeIsSafe

-----------------------------------------------------------------------------
\* The fields of an object that is not listed.
LEMMA UnbornFields ==
  /\ Unborn.phase = "unborn" /\ Unborn.operation = ""
  /\ Unborn.deleting = FALSE /\ Unborn.finished = FALSE
  BY DEF Unborn

\* A reconcile that ends leaves an empty snapshot.
LEMMA FinishSafe ==
  ASSUME NEW q, Finish(q),
         \A o \in Ops : /\ api'[o].operation = "stop_execution" => api'[o].deleting
                        /\ api'[o].phase = "unborn" => ~api'[o].deleting
  PROVE  DeletionInv'
<1>1. \A o \in Ops : mem'[o] = Unborn
  BY DEF Finish, NoMem
<1>2. pc' = "idle"
  BY DEF Finish
<1>3. DeletionIsReal'
  BY <1>1, UnbornFields DEF DeletionIsReal
<1>4. FreshIsEqual'
  BY <1>1, UnbornFields DEF FreshIsEqual
<1>5. FinalizeIsSafe'
  BY <1>2 DEF FinalizeIsSafe
<1> QED BY <1>3, <1>4, <1>5 DEF DeletionInv

\* The same when nothing was written.
LEMMA FinishUnwritten ==
  ASSUME DeletionInv, NEW q, Finish(q), api' = api
  PROVE  DeletionInv'
  BY FinishSafe DEF DeletionInv, DeletionIsReal

\* The same when the reconcile ends with a write.
LEMMA FinishWritten ==
  ASSUME SerialInv, DeletionInv, NEW q, Finish(q), NEW o \in Ops, NEW new, Store(o, new),
         new.operation = "stop_execution" => new.deleting, new.phase # "unborn"
  PROVE  DeletionInv'
<1>1. api' = [api EXCEPT ![o] = new] /\ api \in [Ops -> Object]
  BY DEF Store, SerialInv, TypeOK, Object
<1>2. \A p \in Ops : /\ api'[p].operation = "stop_execution" => api'[p].deleting
                     /\ api'[p].phase = "unborn" => ~api'[p].deleting
  BY <1>1 DEF DeletionInv, DeletionIsReal
<1> QED BY <1>2, FinishSafe

\* A write of anybody but the worker takes no deletion back.
LEMMA ExternalSafe ==
  ASSUME SerialInv, DeletionInv, NEW o \in Ops, NEW new,
         api' = [api EXCEPT ![o] = new],
         stale' = IF mem[o].phase = "live" THEN stale \cup {o} ELSE stale,
         UNCHANGED <<pc, cur, mem, dirty, cluster>>,
         new.operation = "stop_execution" => new.deleting, new.phase # "unborn",
         api[o].deleting => new.deleting
  PROVE  DeletionInv'
<1>1. api \in [Ops -> Object]
  BY DEF SerialInv, TypeOK, Object
<1>2. \A p \in Ops : api'[p] = IF p = o THEN new ELSE api[p]
  BY <1>1
<1>3. DeletionIsReal'
  BY <1>2 DEF DeletionInv, DeletionIsReal
<1>4. FreshIsEqual'
  BY <1>2 DEF DeletionInv, FreshIsEqual
<1>5. FinalizeIsSafe'
  BY DEF DeletionInv, FinalizeIsSafe
<1> QED BY <1>3, <1>4, <1>5 DEF DeletionInv

\* A step that leaves the API server and the snapshot alone.
LEMMA AsideSafe ==
  ASSUME DeletionInv, UNCHANGED <<api, mem, stale, dirty, cur>>, cluster' => cluster,
         pc' = pc \/ (pc # "idle" /\ pc' # "finalize")
  PROVE  DeletionInv'
<1>1. DeletionIsReal'
  BY DEF DeletionInv, DeletionIsReal
<1>2. FreshIsEqual'
  BY DEF DeletionInv, FreshIsEqual
<1>3. FinalizeIsSafe'
  BY DEF DeletionInv, FinalizeIsSafe
<1> QED BY <1>1, <1>2, <1>3 DEF DeletionInv

-----------------------------------------------------------------------------
\* The snapshot is what the API server holds.
LEMMA ListSafe ==
  ASSUME SerialInv, DeletionInv, NEW o \in Ops, ListOperations(o)
  PROVE  DeletionInv'
<1>1. api' = api /\ cluster' = cluster
  BY DEF ListOperations, apiVars
<1>2. CASE ~(api[o].phase = "live" /\ AfterList(api[o]) # "idle")
  BY <1>1, <1>2, FinishUnwritten DEF ListOperations
<1>3. CASE api[o].phase = "live" /\ AfterList(api[o]) # "idle"
  <2>1. /\ pc' = AfterList(api[o]) /\ cur' = o
        /\ mem' = [p \in Ops |-> IF api[p].phase = "live" THEN api[p] ELSE Unborn]
    BY <1>3 DEF ListOperations
  <2>2. \A p \in Ops : mem'[p] = IF api[p].phase = "live" THEN api[p] ELSE Unborn
    BY <2>1
  <2>3. DeletionIsReal'
    BY <1>1, <2>2, UnbornFields DEF DeletionInv, DeletionIsReal
  <2>4. FreshIsEqual'
    BY <1>1, <2>2, UnbornFields DEF FreshIsEqual
  <2>5. mem'[cur'] = api[o]
    BY <1>3, <2>1, <2>2
  <2>6. ASSUME AfterList(api[o]) = "finalize"
        PROVE  ~cluster \/ ~IsCurrentTaskRunning(api[o])
    BY <2>6 DEF AfterList, IsDone, IsFinished, IsCurrentTaskRunning, RunningStates
  <2>7. FinalizeIsSafe'
    BY <1>1, <1>3, <2>1, <2>5, <2>6 DEF FinalizeIsSafe
  <2> QED BY <2>3, <2>4, <2>7 DEF DeletionInv
<1> QED BY <1>2, <1>3

\* The finalizer is removed, and the object disappears if it is deleted.
LEMMA RemoveFinalizerSafe ==
  ASSUME SerialInv, DeletionInv, RemoveFinalizer
  PROVE  DeletionInv'
<1>1. cur \in Ops
  BY DEF SerialInv, TypeOK, RemoveFinalizer
<1>2. CASE ~Writable(cur) /\ Requeue /\ UNCHANGED apiVars
  BY <1>2, FinishUnwritten DEF Requeue, apiVars
<1>3. CASE /\ Writable(cur) /\ Store(cur, WithoutFinalizer(api[cur]))
           /\ Finish(queue \cup Woken(cur, WithoutFinalizer(api[cur])))
  <2>1. api[cur] \in Object
    BY <1>1 DEF SerialInv, TypeOK, Object
  <2>2. /\ WithoutFinalizer(api[cur]).operation = api[cur].operation
        /\ WithoutFinalizer(api[cur]).deleting = api[cur].deleting
        /\ WithoutFinalizer(api[cur]).phase # "unborn"
    BY <1>3, <2>1 DEF WithoutFinalizer, Object, OperationObject, Writable
  <2> QED BY <1>1, <1>3, <2>2, FinishWritten DEF DeletionInv, DeletionIsReal
<1> QED BY <1>2, <1>3 DEF RemoveFinalizer

\* The finalizer is added to the object and to its copy.
LEMMA AddFinalizerSafe ==
  ASSUME SerialInv, DeletionInv, AddFinalizer
  PROVE  DeletionInv'
<1>1. cur \in Ops /\ pc = "addfinalizer" /\ cluster' = cluster
  BY DEF SerialInv, TypeOK, AddFinalizer
<1>2. CASE ~Writable(cur) /\ Requeue /\ UNCHANGED apiVars
  BY <1>2, FinishUnwritten DEF Requeue, apiVars
<1>3. CASE /\ Writable(cur) /\ Store(cur, [api[cur] EXCEPT !.finalizer = TRUE])
           /\ mem' = [mem EXCEPT ![cur].finalizer = TRUE] /\ pc' = "status"
           /\ UNCHANGED <<queue, cur, stale, dirty, inExecution, target, result>>
  <2>1. api \in [Ops -> Object] /\ mem \in [Ops -> Object]
    BY DEF SerialInv, TypeOK, Object
  <2>2. \A p \in Ops : /\ api'[p].operation = api[p].operation
                       /\ api'[p].deleting = api[p].deleting
                       /\ api'[p].phase = api[p].phase /\ api'[p].finished = api[p].finished
    <3>1. api' = [api EXCEPT ![cur] = [api[cur] EXCEPT !.finalizer = TRUE]]
      BY <1>3 DEF Store
    <3> DEFINE op == [api[cur] EXCEPT !.finalizer = TRUE]
    <3>2. /\ op.operation = api[cur].operation /\ op.deleting = api[cur].deleting
          /\ op.phase = api[cur].phase /\ op.finished = api[cur].finished
      BY <1>1, <2>1 DEF Object, OperationObject
    <3>3. api' = [api EXCEPT ![cur] = op]
      BY <3>1
    <3> HIDE DEF op
    <3> QED BY <1>1, <2>1, <3>2, <3>3
  <2>3. \A p \in Ops : /\ mem'[p].operation = mem[p].operation
                       /\ mem'[p].deleting = mem[p].deleting
                       /\ mem'[p].phase = mem[p].phase /\ mem'[p].finished = mem[p].finished
    BY <1>1, <1>3, <2>1 DEF Object, OperationObject
  <2>4. DeletionIsReal'
    BY <2>2, <2>3 DEF DeletionInv, DeletionIsReal
  <2>5. FreshIsEqual'
    BY <1>3, <2>2, <2>3 DEF DeletionInv, FreshIsEqual
  <2>6. FinalizeIsSafe'
    BY <1>1, <1>3, <2>3 DEF DeletionInv, FinalizeIsSafe
  <2> QED BY <2>4, <2>5, <2>6 DEF DeletionInv
<1> QED BY <1>1, <1>2, <1>3 DEF AddFinalizer

\* Polling changes the state of a task and its Finished time, and what it changes is
\* still to be written.
LEMMA UpdateCurrentTasksSafe ==
  ASSUME SerialInv, DeletionInv, UpdateCurrentTasks
  PROVE  DeletionInv'
<1>1. pc = "tasks" /\ pc' = "update" /\ cur \in Ops
      /\ UNCHANGED <<api, cluster, cur, stale>>
  BY DEF SerialInv, TypeOK, UpdateCurrentTasks, apiVars
<1>2. mem \in [Ops -> Object] /\ dirty = {}
  BY <1>1 DEF SerialInv, TypeOK, Object, DirtyIsListed
<1> DEFINE polled == {o \in Filtered : mem[o].id # NoId}
           new == [o \in Ops |-> IF o \in polled THEN Polled(mem[o]) ELSE mem[o]]
<1>3. mem' = new /\ dirty' = {o \in polled : new[o] # mem[o]}
  BY DEF UpdateCurrentTasks
<1>4. \A p \in Ops : /\ mem'[p].operation = mem[p].operation
                     /\ mem'[p].deleting = mem[p].deleting
                     /\ mem'[p].phase = mem[p].phase
  BY <1>2, <1>3 DEF Polled, Object, OperationObject
<1>5. \A p \in Ops : p \notin dirty' => mem'[p] = mem[p]
  BY <1>3
<1> HIDE DEF polled, new
<1>6. DeletionIsReal'
  BY <1>1, <1>4 DEF DeletionInv, DeletionIsReal
<1>7. FreshIsEqual'
  BY <1>1, <1>2, <1>4, <1>5 DEF DeletionInv, FreshIsEqual
<1>8. FinalizeIsSafe'
  BY <1>1, <1>4 DEF DeletionInv, FinalizeIsSafe
<1> QED BY <1>6, <1>7, <1>8 DEF DeletionInv

\* A polled status is written where nobody else has written.
LEMMA UpdateTaskStatusSafe ==
  ASSUME SerialInv, DeletionInv, NEW o \in Ops, UpdateTaskStatus(o)
  PROVE  DeletionInv'
<1>1. CASE ~Writable(o) /\ Requeue /\ UNCHANGED apiVars
  BY <1>1, FinishUnwritten DEF Requeue, apiVars
<1>2. CASE /\ Writable(o) /\ Store(o, mem[o])
           /\ dirty' = dirty \ {o}
           /\ UNCHANGED <<pc, cur, mem, stale, inExecution, target, result>>
  <2>1. mem[o].phase = "live" /\ api[o].phase = "live" /\ o \notin stale /\ cluster' = cluster
    BY <1>2 DEF UpdateTaskStatus, SerialInv, DirtyIsListed, Writable
  <2>2. api \in [Ops -> Object] /\ api' = [api EXCEPT ![o] = mem[o]]
    BY <1>2 DEF SerialInv, TypeOK, Object, Store
  <2>3. \A p \in Ops : api'[p] = IF p = o THEN mem[o] ELSE api[p]
    BY <2>2
  <2>4. DeletionIsReal'
    BY <1>2, <2>1, <2>3 DEF DeletionInv, DeletionIsReal
  <2>5. FreshIsEqual'
    BY <1>2, <2>3 DEF DeletionInv, FreshIsEqual
  <2>6. FinalizeIsSafe'
    BY <1>2, <2>1 DEF DeletionInv, FinalizeIsSafe
  <2> QED BY <2>4, <2>5, <2>6 DEF DeletionInv
<1> QED BY <1>1, <1>2 DEF UpdateTaskStatus

\* A stop_execution is chosen for a deleted object, and the finalizer goes where no
\* task runs.
LEMMA SelectOperationSafe ==
  ASSUME SerialInv, DeletionInv, SelectOperation
  PROVE  DeletionInv'
<1>1. pc = "update" /\ UNCHANGED <<api, cluster>> /\ cur \in Ops
  BY DEF SelectOperation, apiVars, SerialInv, TypeOK
<1>2. CASE /\ IsFinalizerNeeded(mem[cur]) /\ ~IsCurrentTaskRunning(mem[cur])
           /\ Goto("finalize")
  <2>1. UNCHANGED <<cur, mem, stale, dirty>> /\ pc' = "finalize"
    BY <1>2 DEF Goto
  <2> QED BY <1>1, <1>2, <2>1
      DEF DeletionInv, DeletionIsReal, FreshIsEqual, FinalizeIsSafe
<1>3. CASE Reconciled \/ Requeue
  BY <1>1, <1>3, FinishUnwritten DEF Reconciled, Requeue
<1>4. ASSUME NEW x \in StopQueue,
             Execute(x, [mem EXCEPT ![x].operation = "stop_execution"])
      PROVE  DeletionInv'
  <2>1. x \in Ops /\ mem[x].deleting
    BY <1>4 DEF StopQueue, Filtered, IsWaitingForFinalization, IsFinalizerNeeded
  <2>2. /\ mem' = [mem EXCEPT ![x].operation = "stop_execution"] /\ pc' = "execute"
        /\ UNCHANGED <<cur, stale, dirty>>
    BY <1>4 DEF Execute
  <2>3. mem \in [Ops -> Object]
    BY DEF SerialInv, TypeOK, Object
  <2>4. \A p \in Ops : /\ p # x => mem'[p] = mem[p]
                       /\ mem'[p].deleting = mem[p].deleting
                       /\ mem'[p].phase = mem[p].phase
                       /\ mem'[p].finished = mem[p].finished
    BY <2>1, <2>2, <2>3 DEF Object, OperationObject
  <2>5. DeletionIsReal'
    BY <1>1, <2>1, <2>4 DEF DeletionInv, DeletionIsReal
  <2>6. FreshIsEqual'
    BY <1>1, <2>2, <2>4 DEF DeletionInv, FreshIsEqual
  <2>7. FinalizeIsSafe'
    BY <1>1, <2>2, <2>4 DEF DeletionInv, FinalizeIsSafe
  <2> QED BY <2>5, <2>6, <2>7 DEF DeletionInv
<1>5. ASSUME NEW x, Execute(x, mem)
      PROVE  DeletionInv'
  BY <1>1, <1>5, AsideSafe DEF Execute
<1>6. CASE pc' = "pause" /\ UNCHANGED <<cur, mem, stale, dirty>>
  BY <1>1, <1>6, AsideSafe
<1> QED BY <1>2, <1>3, <1>4, <1>5, <1>6 DEF SelectOperation

\* The paused object is the one of the API server.
LEMMA PauseRetrySafe ==
  ASSUME SerialInv, DeletionInv, PauseRetry
  PROVE  DeletionInv'
<1>1. pc = "pause" /\ cluster' = cluster /\ cur \in Ops /\ api \in [Ops -> Object]
      /\ mem \in [Ops -> Object]
  BY DEF PauseRetry, SerialInv, TypeOK, Object
<1>2. CASE Requeue /\ UNCHANGED apiVars
  BY <1>2, FinishUnwritten DEF Requeue, apiVars
<1>3. ASSUME NEW r \in Ops, IsHead(r, RetryQueue), Writable(r),
             Store(r, [api[r] EXCEPT !.paused = TRUE])
      PROVE  /\ \A q : Finish(q) => DeletionInv'
             /\ (pc' = "execute" /\ mem' = [mem EXCEPT ![r] = [api[r] EXCEPT !.paused = TRUE]]
                  /\ UNCHANGED <<cur, stale, dirty>>) => DeletionInv'
  <2> DEFINE op == [api[r] EXCEPT !.paused = TRUE]
  <2>1. /\ op.operation = api[r].operation /\ op.deleting = api[r].deleting
        /\ op.phase = "live" /\ op.finished = api[r].finished
    BY <1>1, <1>3 DEF Object, OperationObject, Writable
  <2>2. mem[r].phase = "live"
    BY <1>3 DEF IsHead, RetryQueue, Filtered
  <2>3. api' = [api EXCEPT ![r] = op]
    BY <1>3 DEF Store
  <2>4. Store(r, op)
    BY <1>3
  <2> HIDE DEF op
  <2>5. \A q : Finish(q) => DeletionInv'
    BY <1>3, <2>1, <2>4, FinishWritten DEF DeletionInv, DeletionIsReal
  <2>6. ASSUME pc' = "execute", mem' = [mem EXCEPT ![r] = op], UNCHANGED <<cur, stale, dirty>>
        PROVE  DeletionInv'
    <3>1. \A p \in Ops : /\ api'[p] = IF p = r THEN op ELSE api[p]
                         /\ mem'[p] = IF p = r THEN op ELSE mem[p]
      BY <1>1, <2>3, <2>6
    <3>2. DeletionIsReal'
      BY <2>1, <3>1 DEF DeletionInv, DeletionIsReal
    <3>3. FreshIsEqual'
      BY <2>6, <3>1 DEF DeletionInv, FreshIsEqual
    <3>4. FinalizeIsSafe'
      BY <1>1, <2>1, <2>6, <3>1 DEF DeletionInv, FinalizeIsSafe
    <3> QED BY <3>2, <3>3, <3>4 DEF DeletionInv
  <2> QED BY <2>5, <2>6 DEF op
<1> QED BY <1>2, <1>3 DEF PauseRetry

\* The result is written over the deletion mark that the snapshot has.
LEMMA WriteResultSafe ==
  ASSUME SerialInv, DeletionInv, WriteResult
  PROVE  DeletionInv'
<1>1. target \in Ops /\ mem[target] \in Object
  BY DEF WriteResult, SerialInv, TypeOK, Object
<1>2. CASE (Reconciled \/ Requeue) /\ UNCHANGED apiVars
  BY <1>2, FinishUnwritten DEF Reconciled, Requeue, apiVars
<1> DEFINE new == AfterExecution(mem[target], result)
<1>3. CASE Store(target, new) /\ Finish(queue \cup Woken(target, new))
  <2>1. mem[target].phase = "live"
    BY DEF WriteResult, SerialInv, TargetIsReady
  <2>2. /\ new.operation = mem[target].operation /\ new.deleting = mem[target].deleting
        /\ new.phase = mem[target].phase
    BY <1>1 DEF AfterExecution, Archived, SetDefaults, Object, OperationObject
  <2> HIDE DEF new
  <2> QED BY <1>1, <1>3, <2>1, <2>2, FinishWritten DEF DeletionInv, DeletionIsReal
<1> QED BY <1>2, <1>3 DEF WriteResult

\* The worker's remaining steps write nothing.
LEMMA WorkerSafe ==
  ASSUME SerialInv, DeletionInv, Worker
  PROVE  DeletionInv'
<1>1. ASSUME NEW b \in BOOLEAN, GetStatus(b)
      PROVE  DeletionInv'
  BY <1>1, AsideSafe DEF GetStatus, apiVars
<1>2. CASE GetStatusFails \/ UserTasksFails
  BY <1>2, FinishUnwritten DEF GetStatusFails, UserTasksFails, Requeue, apiVars
<1>3. ASSUME NEW outcome \in Outcomes, ExecuteOperation(outcome)
      PROVE  DeletionInv'
  <2>1. UNCHANGED <<api, cluster>> /\ pc = "execute"
    BY <1>3 DEF ExecuteOperation, apiVars
  <2>2. Requeue \/ \E id, s, d : Answer(id, s, d)
    BY <1>3 DEF ExecuteOperation
  <2>3. CASE Requeue
    BY <2>1, <2>3, FinishUnwritten DEF Requeue
  <2>4. CASE \E id, s, d : Answer(id, s, d)
    BY <2>1, <2>4, AsideSafe DEF Answer
  <2> QED BY <2>2, <2>3, <2>4
<1> QED
  BY <1>1, <1>2, <1>3, ListSafe, UpdateTaskStatusSafe, RemoveFinalizerSafe, AddFinalizerSafe,
     UpdateCurrentTasksSafe, SelectOperationSafe, PauseRetrySafe, WriteResultSafe
  DEF Worker

-----------------------------------------------------------------------------
\* Deletion takes nothing back.
LEMMA DeletedKeeps ==
  ASSUME NEW op \in Object, op.phase = "live"
  PROVE  /\ Deleted(op).operation = op.operation /\ Deleted(op).phase # "unborn"
         /\ op.deleting => Deleted(op).deleting
  BY DEF Deleted, Object, OperationObject

\* Users, the other controllers, the garbage collector and restarts.
LEMMA EnvironmentSafe ==
  ASSUME SerialInv, DeletionInv, Environment
  PROVE  DeletionInv'
<1>1. api \in [Ops -> Object]
  BY DEF SerialInv, TypeOK, Object
<1>2. ASSUME NEW o \in Ops, NEW new, ExternalWrite(o, new), cluster' = cluster,
             new.operation = "stop_execution" => new.deleting, new.phase # "unborn",
             api[o].deleting => new.deleting
      PROVE  DeletionInv'
  BY <1>2, ExternalSafe DEF ExternalWrite, Store
<1>3. ASSUME NEW o \in Ops
      PROVE  /\ api[o] \in Object
             /\ api[o].operation = "stop_execution" => api[o].deleting
             /\ api[o].phase = "unborn" => ~api[o].deleting
  BY <1>1 DEF DeletionInv, DeletionIsReal
<1>4. ASSUME NEW o \in Ops, CreateOperation(o)
      PROVE  DeletionInv'
  <2> DEFINE new == [Unborn EXCEPT !.phase = "live", !.policy = PolicyOf[o]]
  <2>1. new.operation = "" /\ new.phase = "live"
    BY DEF Unborn
  <2>2. ExternalWrite(o, new) /\ cluster' = cluster /\ ~api[o].deleting
    BY <1>3, <1>4 DEF CreateOperation
  <2> HIDE DEF new
  <2> QED BY <1>2, <2>1, <2>2
<1>5. ASSUME NEW o \in Ops, SetCurrentTask(o)
      PROVE  DeletionInv'
  <2> DEFINE new == [api[o] EXCEPT !.operation = KindOf[o]]
  <2>1. /\ new.operation # "stop_execution" /\ new.phase = "live"
        /\ new.deleting = api[o].deleting
    BY <1>3, <1>5, KindOfAssumption DEF Object, OperationObject, Kinds, SetCurrentTask
  <2>2. ExternalWrite(o, new) /\ cluster' = cluster
    BY <1>5 DEF SetCurrentTask
  <2> HIDE DEF new
  <2> QED BY <1>2, <2>1, <2>2
<1>6. ASSUME NEW o \in Ops, TogglePause(o) \/ EditErrorPolicy(o)
      PROVE  DeletionInv'
  <2>1. ASSUME NEW new, UserEdit(o, new), new.operation = api[o].operation,
               new.deleting = api[o].deleting, new.phase = api[o].phase
        PROVE  DeletionInv'
    BY <1>2, <1>3, <2>1 DEF UserEdit
  <2>2. CASE TogglePause(o)
    <3> DEFINE new == [api[o] EXCEPT !.paused = ~@]
    <3>1. /\ new.operation = api[o].operation /\ new.deleting = api[o].deleting
          /\ new.phase = api[o].phase
      BY <1>3 DEF Object, OperationObject
    <3>2. UserEdit(o, new)
      BY <2>2 DEF TogglePause
    <3> HIDE DEF new
    <3> QED BY <2>1, <3>1, <3>2
  <2>3. CASE EditErrorPolicy(o)
    <3> DEFINE new == [api[o] EXCEPT !.policy = IF @ = "retry" THEN "ignore" ELSE "retry"]
    <3>1. /\ new.operation = api[o].operation /\ new.deleting = api[o].deleting
          /\ new.phase = api[o].phase
      BY <1>3 DEF Object, OperationObject
    <3>2. UserEdit(o, new)
      BY <2>3 DEF EditErrorPolicy
    <3> HIDE DEF new
    <3> QED BY <2>1, <3>1, <3>2
  <2> QED BY <1>6, <2>2, <2>3
<1>7. ASSUME NEW o \in Ops, DeleteOperation(o) \/ CollectGarbage(o)
      PROVE  DeletionInv'
  <2>1. ExternalWrite(o, Deleted(api[o])) /\ cluster' = cluster /\ api[o].phase = "live"
        /\ ~api[o].deleting
    BY <1>7 DEF DeleteOperation, UserEdit, CollectGarbage
  <2>2. Deleted(api[o]).operation = api[o].operation /\ Deleted(api[o]).phase # "unborn"
    BY <1>3, <2>1, DeletedKeeps
  <2> QED BY <1>2, <1>3, <2>1, <2>2
<1>8. ASSUME NEW o \in Ops, TTLReconcile(o)
      PROVE  DeletionInv'
  <2>1. UNCHANGED <<pc, cur, mem, dirty, cluster>>
    BY <1>8 DEF TTLReconcile
  <2>2. CASE api[o].phase = "live" /\ api[o].finished /\ ~api[o].deleting
    <3>1. /\ api' = [api EXCEPT ![o] = Deleted(api[o])]
          /\ stale' = IF mem[o].phase = "live" THEN stale \cup {o} ELSE stale
      BY <1>8, <2>2 DEF TTLReconcile
    <3>2. Deleted(api[o]).operation = api[o].operation /\ Deleted(api[o]).phase # "unborn"
      BY <1>3, <2>2, DeletedKeeps
    <3> QED BY <1>3, <2>1, <2>2, <3>1, <3>2, ExternalSafe
  <2>3. CASE ~(api[o].phase = "live" /\ api[o].finished /\ ~api[o].deleting)
    BY <1>8, <2>1, <2>3, AsideSafe DEF TTLReconcile
  <2> QED BY <2>2, <2>3
<1>9. ASSUME NEW o \in Ops, BackoffElapses(o)
      PROVE  DeletionInv'
  BY <1>9, AsideSafe DEF BackoffElapses, workerVars
<1>10. CASE DeleteCluster
  BY <1>10, AsideSafe DEF DeleteCluster, workerVars, apiVars
<1>11. CASE Restart
  BY <1>11, FinishUnwritten DEF Restart
<1> QED BY <1>4, <1>5, <1>6, <1>7, <1>8, <1>9, <1>10, <1>11 DEF Environment

\* Cruise Control touches neither.
LEMMA CruiseControlSafe ==
  ASSUME DeletionInv, CruiseControl
  PROVE  DeletionInv'
<1>1. UNCHANGED <<apiVars, cluster, workerVars>>
  BY DEF CruiseControl, StartExecution, StopTakesEffect, Evict, EndTask, SetTaskState
<1> QED BY <1>1, AsideSafe DEF apiVars, workerVars

\* The invariant holds at the start and is kept by every step.
LEMMA DeletionInvariant == Spec => []DeletionInv
<1>1. Init => DeletionInv
  <2> SUFFICES ASSUME Init
               PROVE  DeletionInv
    OBVIOUS
  <2>1. /\ \A o \in Ops : api[o] = Unborn /\ mem[o] = Unborn
        /\ pc = "idle"
    BY DEF Init, NoMem
  <2> QED BY <2>1, UnbornFields
      DEF DeletionInv, DeletionIsReal, FreshIsEqual, FinalizeIsSafe
<1>2. SerialInv /\ DeletionInv /\ [Next]_vars => DeletionInv'
  <2> SUFFICES ASSUME SerialInv, DeletionInv, [Next]_vars
               PROVE  DeletionInv'
    OBVIOUS
  <2>1. CASE UNCHANGED vars
    BY <2>1, AsideSafe DEF vars
  <2> QED BY <2>1, WorkerSafe, EnvironmentSafe, CruiseControlSafe DEF Next
<1> QED BY <1>1, <1>2, InductiveInvariant, PTL DEF Spec

-----------------------------------------------------------------------------
\* stop_execution, which ends whatever Cruise Control executes, is sent only for an
\* operation whose deletion was asked for: isWaitingForFinalization is evaluated on a
\* snapshot, and a deletion is never taken back.
THEOREM StopOnlyOnDeletionHolds == Spec => []StopOnlyOnDeletion
<1>1. SerialInv /\ DeletionInv => StopOnlyOnDeletion
  BY DEF SerialInv, TypeOK, DeletionInv, DeletionIsReal, StopOnlyOnDeletion
<1> QED BY <1>1, InductiveInvariant, DeletionInvariant, PTL

\* Only RemoveFinalizer makes an object with the finalizer disappear.
LEMMA OnlyRemoveFinalizer ==
  ASSUME SerialInv, Next, ~RemoveFinalizer, NEW o \in Ops, Live(o), api[o].finalizer
  PROVE  api'[o].phase # "gone"
<1>1. api \in [Ops -> Object] /\ mem \in [Ops -> Object]
  BY DEF SerialInv, TypeOK, Object
<1>2. CASE api' = api
  BY <1>2 DEF Live
<1>3. ASSUME NEW p \in Ops, NEW new, api' = [api EXCEPT ![p] = new], new.phase = "live"
      PROVE  api'[o].phase # "gone"
  BY <1>1, <1>3 DEF Live
<1>4. ASSUME NEW p \in Ops, api' = [api EXCEPT ![p] = Deleted(api[p])]
      PROVE  api'[o].phase # "gone"
  <2>1. CASE p # o
    BY <1>1, <1>4, <2>1 DEF Live
  <2>2. CASE p = o
    <3>1. Deleted(api[o]).phase = "live"
      BY <1>1 DEF Deleted, Live, Object, OperationObject
    <3> QED BY <1>3, <1>4, <2>2, <3>1
  <2> QED BY <2>1, <2>2
<1>5. CASE Worker
  <2>1. CASE AddFinalizer
    <3>1. CASE api' = api
      BY <1>2, <3>1
    <3>2. CASE Writable(cur) /\ Store(cur, [api[cur] EXCEPT !.finalizer = TRUE])
      <4>1. cur \in Ops
        BY <2>1 DEF AddFinalizer, SerialInv, TypeOK
      <4>2. [api[cur] EXCEPT !.finalizer = TRUE].phase = "live"
        BY <1>1, <3>2, <4>1 DEF Writable, Object, OperationObject
      <4> QED BY <1>3, <3>2, <4>1, <4>2 DEF Store
    <3> QED BY <2>1, <3>1, <3>2 DEF AddFinalizer, apiVars
  <2>2. ASSUME NEW p \in Ops, UpdateTaskStatus(p)
        PROVE  api'[o].phase # "gone"
    <3>1. api' = api \/ api' = [api EXCEPT ![p] = mem[p]]
      BY <2>2 DEF UpdateTaskStatus, Store, apiVars
    <3>2. mem[p].phase = "live"
      BY <2>2 DEF UpdateTaskStatus, SerialInv, DirtyIsListed
    <3> QED BY <1>2, <1>3, <3>1, <3>2
  <2>3. CASE PauseRetry
    <3>1. CASE api' = api
      BY <1>2, <3>1
    <3>2. ASSUME NEW r \in Ops, Writable(r), Store(r, [api[r] EXCEPT !.paused = TRUE])
          PROVE  api'[o].phase # "gone"
      <4>1. [api[r] EXCEPT !.paused = TRUE].phase = "live"
        BY <1>1, <3>2 DEF Writable, Object, OperationObject
      <4> QED BY <1>3, <3>2, <4>1 DEF Store
    <3> QED BY <2>3, <3>1, <3>2 DEF PauseRetry, apiVars
  <2>4. CASE WriteResult
    <3> DEFINE new == AfterExecution(mem[target], result)
    <3>1. api' = api \/ api' = [api EXCEPT ![target] = new]
      BY <2>4 DEF WriteResult, Store, apiVars
    <3>2. target \in Ops /\ mem[target].phase = "live"
      BY <2>4 DEF WriteResult, SerialInv, TypeOK, TargetIsReady
    <3>3. new.phase = mem[target].phase
      BY <1>1, <2>4, <3>2, AfterExecutionType
      DEF WriteResult, SerialInv, TypeOK, TargetIsReady
    <3> HIDE DEF new
    <3> QED BY <1>2, <1>3, <3>1, <3>2, <3>3
  <2>5. CASE api' = api
    BY <1>2, <2>5
  <2> QED
    BY <1>5, <2>1, <2>2, <2>3, <2>4, <2>5
    DEF Worker, ListOperations, GetStatus, GetStatusFails, UpdateCurrentTasks,
        UserTasksFails, SelectOperation, ExecuteOperation, apiVars
<1>6. CASE Environment
  <2>1. ASSUME NEW p \in Ops, CreateOperation(p) \/ SetCurrentTask(p)
        PROVE  api'[o].phase # "gone"
    <3>1. [Unborn EXCEPT !.phase = "live", !.policy = PolicyOf[p]].phase = "live"
      BY DEF Unborn
    <3>2. [api[p] EXCEPT !.operation = KindOf[p]].phase = api[p].phase
      BY <1>1 DEF Object, OperationObject
    <3> QED BY <1>3, <2>1, <3>1, <3>2 DEF CreateOperation, SetCurrentTask, ExternalWrite, Store
  <2>2. ASSUME NEW p \in Ops, TogglePause(p) \/ EditErrorPolicy(p)
        PROVE  api'[o].phase # "gone"
    <3>1. [api[p] EXCEPT !.paused = ~@].phase = api[p].phase
      BY <1>1 DEF Object, OperationObject
    <3>2. [api[p] EXCEPT !.policy = IF @ = "retry" THEN "ignore" ELSE "retry"].phase
            = api[p].phase
      BY <1>1 DEF Object, OperationObject
    <3> QED BY <1>3, <2>2, <3>1, <3>2
        DEF TogglePause, EditErrorPolicy, UserEdit, ExternalWrite, Store
  <2>3. ASSUME NEW p \in Ops, DeleteOperation(p) \/ CollectGarbage(p) \/ TTLReconcile(p)
        PROVE  api'[o].phase # "gone"
    <3>1. api' = api \/ api' = [api EXCEPT ![p] = Deleted(api[p])]
      BY <2>3 DEF DeleteOperation, UserEdit, CollectGarbage, TTLReconcile, ExternalWrite, Store
    <3> QED BY <1>2, <1>4, <3>1
  <2>4. CASE api' = api
    BY <1>2, <2>4
  <2> QED
    BY <1>6, <2>1, <2>2, <2>3, <2>4
    DEF Environment, BackoffElapses, DeleteCluster, Restart, apiVars
<1>7. CASE CruiseControl
  BY <1>2, <1>7
  DEF CruiseControl, StartExecution, StopTakesEffect, Evict, EndTask, SetTaskState, apiVars
<1> QED BY <1>5, <1>6, <1>7 DEF Next

\* An operation that carries the finalizer disappears only when its deletion was asked
\* for and its recorded task does not run, unless the KafkaCluster is gone: the decision
\* to remove the finalizer rests on the snapshot, and the write fails where the object
\* has changed since.
THEOREM FinalizerProtectsHolds == Spec => FinalizerProtects
<1>1. SerialInv /\ DeletionInv /\ [Next]_vars =>
        [\A o \in Ops : Live(o) /\ api[o].finalizer /\ api'[o].phase = "gone" =>
           api[o].deleting /\ (IsCurrentTaskRunning(api[o]) => ~cluster)]_vars
  <2> SUFFICES ASSUME SerialInv, DeletionInv, Next, NEW o \in Ops,
                      Live(o), api[o].finalizer, api'[o].phase = "gone"
               PROVE  api[o].deleting /\ (IsCurrentTaskRunning(api[o]) => ~cluster)
    OBVIOUS
  <2>1. api \in [Ops -> Object] /\ mem \in [Ops -> Object]
    BY DEF SerialInv, TypeOK, Object
  <2>2. CASE RemoveFinalizer
    <3>1. pc = "finalize" /\ cur \in Ops
      BY <2>2 DEF RemoveFinalizer, SerialInv, TypeOK
    <3>2. api' # api
      BY DEF Live
    <3>3. Writable(cur) /\ Store(cur, WithoutFinalizer(api[cur]))
      BY <2>2, <3>2 DEF RemoveFinalizer, apiVars
    <3>4. api' = [api EXCEPT ![cur] = WithoutFinalizer(api[cur])]
      BY <3>3 DEF Store
    <3>5. o = cur
      BY <2>1, <3>1, <3>4 DEF Live
    <3>6. WithoutFinalizer(api[o]).phase = "gone"
      BY <2>1, <3>4, <3>5
    <3>7. api[o].deleting
      BY <2>1, <3>6 DEF WithoutFinalizer, Object, OperationObject, Live
    <3>8. dirty = {} /\ mem[o].phase = "live"
      BY <3>1, <3>5 DEF SerialInv, DirtyIsListed, DeletionInv, FinalizeIsSafe
    <3>9. mem[o].state = api[o].state
      BY <3>1, <3>8 DEF SerialInv, SnapshotInSync, Live
    <3>10. mem[o].finished = api[o].finished
      BY <3>3, <3>5, <3>8 DEF DeletionInv, FreshIsEqual, Writable
    <3>11. ~cluster \/ ~IsCurrentTaskRunning(mem[o])
      BY <3>1, <3>5 DEF DeletionInv, FinalizeIsSafe
    <3> QED BY <3>7, <3>9, <3>10, <3>11 DEF IsCurrentTaskRunning
  <2> QED BY <2>2, OnlyRemoveFinalizer
<1> QED BY <1>1, InductiveInvariant, DeletionInvariant, PTL DEF Spec, FinalizerProtects

-----------------------------------------------------------------------------
(* Completion. *)

\* A status that waits for being written belongs to an operation that is not completed,
\* and neither is the chosen one.
CompletedInv ==
  /\ \A o \in dirty : Live(o) => api[o].state # "Completed"
  /\ pc \in {"pause", "execute", "write"} => mem[target].state # "Completed"

-----------------------------------------------------------------------------
\* Two objects agree in CurrentTask and in whether they exist.
Alike(a, b) ==
  /\ a.operation = b.operation /\ a.state = b.state /\ a.id = b.id
  /\ a.finished = b.finished /\ (a.phase = "live" => b.phase = "live")

\* The finalizer is not part of CurrentTask.
LEMMA FinalizerAlike ==
  ASSUME NEW op \in Object, NEW v
  PROVE  Alike([op EXCEPT !.finalizer = v], op)
  BY DEF Alike, Object, OperationObject

\* The pause label is not part of CurrentTask.
LEMMA PausedAlike ==
  ASSUME NEW op \in Object, NEW v
  PROVE  Alike([op EXCEPT !.paused = v], op)
  BY DEF Alike, Object, OperationObject

\* Nor is the error policy.
LEMMA PolicyAlike ==
  ASSUME NEW op \in Object, NEW v
  PROVE  Alike([op EXCEPT !.policy = v], op)
  BY DEF Alike, Object, OperationObject

\* A deletion leaves CurrentTask alone and brings nothing to life.
LEMMA DeletedAlike ==
  ASSUME NEW op \in Object
  PROVE  Alike(Deleted(op), op)
<1>1. CASE op.finalizer
  BY <1>1 DEF Deleted, Alike, Object, OperationObject
<1>2. CASE ~op.finalizer
  BY <1>2 DEF Deleted, Alike, Object, OperationObject
<1> QED BY <1>1, <1>2

\* So does the removal of the finalizer.
LEMMA WithoutFinalizerAlike ==
  ASSUME NEW op \in Object
  PROVE  Alike(WithoutFinalizer(op), op)
<1>1. CASE op.deleting
  BY <1>1 DEF WithoutFinalizer, Alike, Object, OperationObject
<1>2. CASE ~op.deleting
  BY <1>2 DEF WithoutFinalizer, Alike, Object, OperationObject
<1> QED BY <1>1, <1>2

\* CurrentTask of an object, and the object's existence, are written by four steps only.
LEMMA TaskWriters ==
  ASSUME SerialInv, Next, NEW o \in Ops
  PROVE  \/ CurrentTask(api'[o]) = CurrentTask(api[o]) /\ (Live(o)' => Live(o))
         \/ UpdateTaskStatus(o) \/ (WriteResult /\ target = o)
         \/ SetCurrentTask(o) \/ CreateOperation(o)
<1> DEFINE Same == CurrentTask(api'[o]) = CurrentTask(api[o]) /\ (Live(o)' => Live(o))
<1>1. api \in [Ops -> Object] /\ mem \in [Ops -> Object]
  BY DEF SerialInv, TypeOK, Object
<1>2. ASSUME api' = api
      PROVE  Same
  BY <1>2 DEF Live
<1>3. ASSUME NEW p \in Ops, NEW new, api' = [api EXCEPT ![p] = new],
             Alike(new, api[p])
      PROVE  Same
  <2>1. CASE p = o
    <3>1. api'[o] = new
      BY <1>1, <1>3, <2>1
    <3> QED BY <1>3, <2>1, <3>1 DEF Alike, CurrentTask, Live
  <2>2. CASE p # o
    <3>1. api'[o] = api[o]
      BY <1>1, <1>3, <2>2
    <3> QED BY <3>1 DEF Live
  <2> QED BY <2>1, <2>2
<1>4. ASSUME NEW p \in Ops, NEW new, api' = [api EXCEPT ![p] = new], p # o
      PROVE  Same
  BY <1>1, <1>4 DEF Live
<1>5. ASSUME NEW p \in Ops, api' = [api EXCEPT ![p] = Deleted(api[p])]
      PROVE  Same
  <2>1. Alike(Deleted(api[p]), api[p])
    BY <1>1, DeletedAlike
  <2> QED BY <1>3, <1>5, <2>1
<1> HIDE DEF Same
<1>6. CASE Worker
  <2>1. CASE RemoveFinalizer \/ AddFinalizer
    <3>1. cur \in Ops
      BY <2>1 DEF RemoveFinalizer, AddFinalizer, SerialInv, TypeOK
    <3> DEFINE a == WithoutFinalizer(api[cur])
               b == [api[cur] EXCEPT !.finalizer = TRUE]
    <3>2. Alike(a, api[cur]) /\ Alike(b, api[cur])
      BY <1>1, <3>1, WithoutFinalizerAlike, FinalizerAlike
    <3>3. api' = api \/ api' = [api EXCEPT ![cur] = a] \/ api' = [api EXCEPT ![cur] = b]
      BY <2>1 DEF RemoveFinalizer, AddFinalizer, Store, apiVars
    <3> HIDE DEF a, b
    <3> QED BY <1>2, <1>3, <3>1, <3>2, <3>3 DEF Same
  <2>2. ASSUME NEW p \in Ops, UpdateTaskStatus(p), p # o
        PROVE  Same
    BY <1>2, <1>4, <2>2 DEF UpdateTaskStatus, Store, apiVars, Same
  <2>3. CASE PauseRetry
    <3>1. ASSUME NEW r \in Ops, api' = [api EXCEPT ![r] = [api[r] EXCEPT !.paused = TRUE]]
          PROVE  Same
      <4> DEFINE op == [api[r] EXCEPT !.paused = TRUE]
      <4>1. Alike(op, api[r]) /\ api' = [api EXCEPT ![r] = op]
        BY <1>1, <3>1, PausedAlike
      <4> HIDE DEF op
      <4> QED BY <1>3, <4>1
    <3> QED BY <1>2, <2>3, <3>1 DEF PauseRetry, Store, apiVars, Same
  <2>4. CASE WriteResult /\ target # o
    BY <1>2, <1>4, <2>4 DEF WriteResult, SerialInv, TypeOK, Store, apiVars, Same
  <2>5. CASE api' = api
    BY <1>2, <2>5 DEF Same
  <2> QED
    BY <1>6, <2>1, <2>2, <2>3, <2>4, <2>5
    DEF Worker, ListOperations, GetStatus, GetStatusFails, UpdateCurrentTasks,
        UserTasksFails, SelectOperation, ExecuteOperation, apiVars, Same
<1>7. CASE Environment
  <2>1. ASSUME NEW p \in Ops, CreateOperation(p) \/ SetCurrentTask(p), p # o
        PROVE  Same
    BY <1>4, <2>1 DEF CreateOperation, SetCurrentTask, ExternalWrite, Store
  <2>2. ASSUME NEW p \in Ops, TogglePause(p) \/ EditErrorPolicy(p)
        PROVE  Same
    <3> DEFINE a == [api[p] EXCEPT !.paused = ~@]
               b == [api[p] EXCEPT !.policy = IF @ = "retry" THEN "ignore" ELSE "retry"]
    <3>1. Alike(a, api[p])
      BY <1>1, PausedAlike
    <3>2. Alike(b, api[p])
      BY <1>1, PolicyAlike
    <3>3. api' = [api EXCEPT ![p] = a] \/ api' = [api EXCEPT ![p] = b]
      BY <2>2 DEF TogglePause, EditErrorPolicy, UserEdit, ExternalWrite, Store
    <3> HIDE DEF a, b
    <3> QED BY <1>3, <3>1, <3>2, <3>3
  <2>3. ASSUME NEW p \in Ops, DeleteOperation(p) \/ CollectGarbage(p) \/ TTLReconcile(p)
        PROVE  Same \/ api' = api
    BY <1>5, <2>3
    DEF DeleteOperation, UserEdit, CollectGarbage, TTLReconcile, ExternalWrite, Store
  <2>4. CASE api' = api
    BY <1>2, <2>4 DEF Same
  <2> QED
    BY <1>7, <2>1, <2>2, <2>3, <2>4
    DEF Environment, BackoffElapses, DeleteCluster, Restart, apiVars, Same
<1>8. CASE CruiseControl
  BY <1>2, <1>8
  DEF CruiseControl, StartExecution, StopTakesEffect, Evict, EndTask, SetTaskState, apiVars,
      Same
<1> QED BY <1>6, <1>7, <1>8 DEF Next

\* Statuses start waiting in updateCurrentTasks only.
LEMMA DirtyGrows ==
  ASSUME Next
  PROVE  dirty' \subseteq dirty \/ UpdateCurrentTasks
<1>1. ASSUME NEW q, Finish(q)
      PROVE  dirty' \subseteq dirty
  BY <1>1 DEF Finish
<1>2. CASE Worker
  BY <1>1, <1>2
  DEF Worker, ListOperations, UpdateTaskStatus, GetStatus, GetStatusFails, UserTasksFails,
      RemoveFinalizer, AddFinalizer, SelectOperation, PauseRetry, WriteResult,
      ExecuteOperation, Answer, Execute, Goto, Reconciled, Requeue
<1>3. CASE Environment
  BY <1>1, <1>3
  DEF Environment, CreateOperation, SetCurrentTask, TogglePause, EditErrorPolicy, UserEdit,
      DeleteOperation, CollectGarbage, TTLReconcile, BackoffElapses, DeleteCluster, Restart,
      ExternalWrite, workerVars
<1>4. CASE CruiseControl
  BY <1>4
  DEF CruiseControl, StartExecution, StopTakesEffect, Evict, EndTask, SetTaskState, workerVars
<1> QED BY <1>2, <1>3, <1>4 DEF Next

\* An operation is chosen in SelectOperation only, and the state of its task in the
\* snapshot does not change afterwards.
LEMMA TargetKept ==
  ASSUME SerialInv, Next, pc' \in {"pause", "execute", "write"}, ~SelectOperation
  PROVE  /\ pc \in {"pause", "execute", "write"} /\ target' = target
         /\ mem'[target].state = mem[target].state
<1>1. ASSUME NEW q, Finish(q)
      PROVE  FALSE
  BY <1>1 DEF Finish
<1>2. CASE PauseRetry
  <2>1. PICK r \in Ops : /\ Writable(r) /\ IsHead(r, RetryQueue)
                         /\ mem' = [mem EXCEPT ![r] = [api[r] EXCEPT !.paused = TRUE]]
                         /\ target' = target /\ pc = "pause"
    BY <1>1, <1>2 DEF PauseRetry, Requeue
  <2>2. api \in [Ops -> Object] /\ mem \in [Ops -> Object] /\ target \in Ops /\ dirty = {}
    BY <2>1 DEF SerialInv, TypeOK, Object, DirtyIsListed
  <2>3. mem[r].state = api[r].state
    BY <2>1, <2>2 DEF SerialInv, SnapshotInSync, Writable, IsHead, RetryQueue, Filtered
  <2>4. [api[r] EXCEPT !.paused = TRUE].state = api[r].state
    BY <2>2 DEF Object, OperationObject
  <2> QED BY <2>1, <2>2, <2>3, <2>4
<1>3. CASE Worker /\ ~PauseRetry
  <2>1. ASSUME NEW p \in Ops, ListOperations(p)
        PROVE  FALSE
    BY <1>1, <2>1 DEF ListOperations, AfterList
  <2> QED
    BY <1>1, <1>3, <2>1
    DEF Worker, UpdateTaskStatus, GetStatus, GetStatusFails, UserTasksFails,
        RemoveFinalizer, AddFinalizer, UpdateCurrentTasks, WriteResult, ExecuteOperation,
        Answer, Reconciled, Requeue
<1>4. CASE Environment
  BY <1>1, <1>4
  DEF Environment, CreateOperation, SetCurrentTask, TogglePause, EditErrorPolicy, UserEdit,
      DeleteOperation, CollectGarbage, TTLReconcile, BackoffElapses, DeleteCluster, Restart,
      ExternalWrite, workerVars
<1>5. CASE CruiseControl
  BY <1>5
  DEF CruiseControl, StartExecution, StopTakesEffect, Evict, EndTask, SetTaskState, workerVars
<1> QED BY <1>2, <1>3, <1>4, <1>5 DEF Next

\* An operation that the filter lets through is not completed.
LEMMA ChosenIsNotCompleted ==
  ASSUME SerialInv, SelectOperation, pc' \in {"pause", "execute", "write"}
  PROVE  mem'[target'].state # "Completed"
<1>1. mem \in [Ops -> Object]
  BY DEF SerialInv, TypeOK, Object
<1>2. \A x \in Filtered : mem[x].state # "Completed"
  BY DEF Filtered, IsDone, IsFinished
<1>3. ASSUME NEW x \in StopQueue, Execute(x, [mem EXCEPT ![x].operation = "stop_execution"])
      PROVE  mem'[target'].state # "Completed"
  <2>1. x \in Ops /\ x \in Filtered
    BY <1>3 DEF StopQueue, Filtered
  <2>2. [mem EXCEPT ![x].operation = "stop_execution"][x].state = mem[x].state
    BY <1>1, <2>1 DEF Object, OperationObject
  <2> QED BY <1>2, <1>3, <2>1, <2>2 DEF Execute
<1>4. ASSUME NEW x \in Ops, Selects(x), Execute(x, mem)
      PROVE  mem'[target'].state # "Completed"
  BY <1>2, <1>4
  DEF Execute, Selects, RetryTurn, IsHead, StopQueue, FirstQueue, RetryQueue
<1>5. ASSUME NEW r \in Ops, NEW x \in Ops, Pauses(r, x), target' = x, mem' = mem
      PROVE  mem'[target'].state # "Completed"
  BY <1>2, <1>5 DEF Pauses, IsHead, WaitingRebalances, FirstQueue
<1> QED
  BY <1>3, <1>4, <1>5
  DEF SelectOperation, Goto, Reconciled, Requeue, Finish

\* The invariant holds at the start and is kept by every step.
LEMMA CompletedInvariant == Spec => []CompletedInv
<1>1. Init => CompletedInv
  BY DEF Init, CompletedInv
<1>2. SerialInv /\ CompletedInv /\ Next => CompletedInv'
  <2> SUFFICES ASSUME SerialInv, CompletedInv, Next
               PROVE  CompletedInv'
    OBVIOUS
  <2>1. ASSUME NEW o \in dirty', Live(o)'
        PROVE  api'[o].state # "Completed"
    <3>1. CASE UpdateCurrentTasks
      <4>1. o \in Filtered /\ o \in Ops
        BY <2>1, <3>1 DEF UpdateCurrentTasks, Filtered
      <4>2. api' = api /\ pc = "tasks" /\ dirty = {}
        BY <3>1 DEF UpdateCurrentTasks, apiVars, SerialInv, DirtyIsListed
      <4>3. mem[o].state = api[o].state
        BY <2>1, <4>1, <4>2 DEF SerialInv, SnapshotInSync, Filtered, Live
      <4> QED BY <4>1, <4>2, <4>3 DEF Filtered, IsDone, IsFinished
    <3>2. CASE o \in dirty
      <4>1. o \in Ops /\ mem[o].phase = "live" /\ pc = "update"
        BY <3>2 DEF SerialInv, TypeOK, DirtyIsListed
      <4>2. CASE CurrentTask(api'[o]) = CurrentTask(api[o]) /\ (Live(o)' => Live(o))
        BY <2>1, <3>2, <4>2 DEF CompletedInv, CurrentTask
      <4>3. CASE UpdateTaskStatus(o)
        BY <2>1, <4>3 DEF UpdateTaskStatus, Requeue, Finish
      <4>4. CASE SetCurrentTask(o)
        <5>1. api[o] \in Object /\ api \in [Ops -> Object]
          BY <4>1 DEF SerialInv, TypeOK, Object
        <5>2. api'[o].state = api[o].state /\ Live(o)
          BY <4>1, <4>4, <5>1
          DEF SetCurrentTask, ExternalWrite, Store, Live, Object, OperationObject
        <5> QED BY <3>2, <5>2 DEF CompletedInv
      <4>5. CASE CreateOperation(o)
        BY <4>1, <4>5 DEF CreateOperation, SerialInv, SnapshotInSync
      <4>6. CASE WriteResult
        BY <4>1, <4>6 DEF WriteResult
      <4> QED BY <4>1, <4>2, <4>3, <4>4, <4>5, <4>6, TaskWriters
    <3> QED BY <2>1, <3>1, <3>2, DirtyGrows
  <2>2. ASSUME pc' \in {"pause", "execute", "write"}
        PROVE  mem'[target'].state # "Completed"
    BY <2>2, TargetKept, ChosenIsNotCompleted DEF CompletedInv
  <2> QED BY <2>1, <2>2 DEF CompletedInv
<1>3. CompletedInv /\ UNCHANGED vars => CompletedInv'
  BY DEF CompletedInv, vars, Live
<1> QED BY <1>1, <1>2, <1>3, InductiveInvariant, PTL DEF Spec

-----------------------------------------------------------------------------
\* The task of a completed operation is never touched again, nor executed a second time,
\* even when the object is edited or deleted meanwhile: the operations that are done are
\* filtered out of a snapshot, whose task states nobody else changes (IsDone in
\* Reconcile's filter).
THEOREM CompletedIsFinalHolds == Spec => CompletedIsFinal
<1>1. SerialInv /\ CompletedInv /\ [Next]_vars =>
        [\A o \in Ops :
           Live(o) /\ api[o].state = "Completed" =>
             /\ CurrentTask(api'[o]) = CurrentTask(api[o])
             /\ ~(target = o /\ pc' = "write" /\ pc = "execute")]_vars
  <2> SUFFICES ASSUME SerialInv, CompletedInv, Next, NEW o \in Ops,
                      Live(o), api[o].state = "Completed"
               PROVE  /\ CurrentTask(api'[o]) = CurrentTask(api[o])
                      /\ ~(target = o /\ pc' = "write" /\ pc = "execute")
    OBVIOUS
  <2>1. ASSUME target = o, pc \in {"execute", "write"}
        PROVE  FALSE
    <3>1. dirty = {} /\ mem[o].phase = "live"
      BY <2>1 DEF SerialInv, DirtyIsListed, TargetIsReady
    <3>2. mem[o].state = api[o].state
      BY <2>1, <3>1 DEF SerialInv, SnapshotInSync, Live
    <3> QED BY <2>1, <3>2 DEF CompletedInv
  <2>2. CASE UpdateTaskStatus(o)
    BY <2>2 DEF UpdateTaskStatus, CompletedInv
  <2>3. CASE WriteResult /\ target = o
    BY <2>1, <2>3 DEF WriteResult
  <2>4. CASE SetCurrentTask(o) \/ CreateOperation(o)
    BY <2>4
    DEF SetCurrentTask, CreateOperation, SerialInv, ExecutedIsValid, Live,
        IsCurrentTaskOperationValid, ValidOperations, Kinds
  <2>5. CurrentTask(api'[o]) = CurrentTask(api[o])
    BY <2>2, <2>3, <2>4, TaskWriters
  <2> QED BY <2>1, <2>5
<1> QED BY <1>1, InductiveInvariant, CompletedInvariant, PTL DEF Spec, CompletedIsFinal
=============================================================================
