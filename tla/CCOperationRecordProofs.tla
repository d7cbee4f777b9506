----------------------- MODULE CCOperationRecordProofs -----------------------
(***************************************************************************)
(* Proofs about what CCOperation records of the tasks of Cruise Control:   *)
(* recorded ends are real, the history of failed tasks is exact, and the   *)
(* objects live as OperationLifecycle allows, for every number of          *)
(* operations, tasks, edits and restarts.                                  *)
(*                                                                         *)
(* RecordInv relates each record, in the API server and in the snapshot,   *)
(* to the task in Cruise Control that it is about, and says what of the    *)
(* snapshot is still true when a status is written.                        *)
(***************************************************************************)
EXTENDS CCOperationProofs

\* The recorded task was started for o and is not behind its record.
TaskIsOwn(tasks, o, op) ==
  op.id # NoId =>
    /\ op.state # "" /\ tasks[op.id].owner = o
    /\ op.state = "InExecution" => tasks[op.id].state # "Active"
    /\ op.state \in EndStates => tasks[op.id].state \in {op.state, "evicted"}

\* So were the failed ones, which have ended.
HistoryIsOwn(tasks, o, op) ==
  \A i \in 1..Len(op.failed) :
    /\ tasks[op.failed[i]].owner = o
    /\ tasks[op.failed[i]].state \in EndStates \cup {"evicted"}

\* Failures are counted once.
HistoryCounts(op) ==
  /\ Len(op.failed) = IF op.retries < HistoryMax THEN op.retries ELSE HistoryMax
  /\ \A i, j \in 1..Len(op.failed) : i # j => op.failed[i] # op.failed[j]
  /\ \A i \in 1..Len(op.failed) : op.failed[i] # op.id

Recorded(tasks, o, op) ==
  TaskIsOwn(tasks, o, op) /\ HistoryIsOwn(tasks, o, op) /\ HistoryCounts(op)

RecordsAreTrue == \A o \in Ops : Recorded(cc, o, api[o]) /\ Recorded(cc, o, mem[o])

\* The answer that is about to be written names a new task of the target, which has not
\* ended well: remove_disks without disks is the only request that completes at once.
ResultIsOwn ==
  pc = "write" =>
    /\ \/ result.state \in {"Active", "CompletedWithError"}
       \/ /\ result.state = "Completed" /\ ~result.dated
          /\ mem[target].operation = "remove_disks"
    /\ result.id # NoId =>
         /\ result.state # "" /\ cc[result.id].owner = target
         /\ result.state \in EndStates => cc[result.id].state \in {result.state, "evicted"}
         /\ result.id # mem[target].id
         /\ \A i \in 1..Len(mem[target].failed) : mem[target].failed[i] # result.id

\* The chosen operation waits for its first execution, its retry or its stop.
TargetIsDue ==
  /\ pc = "pause" => mem[target].state = ""
  /\ pc \in {"execute", "write"} =>
       \/ mem[target].state = ""
       \/ /\ mem[target].state = "CompletedWithError" /\ mem[target].finished
          /\ mem[target].policy = "retry" /\ ~mem[target].paused
       \/ /\ mem[target].state \in RunningStates /\ mem[target].deleting
          /\ mem[target].operation = "stop_execution"

\* A listed object that nobody else has written looks as it did in the snapshot.
IsSet(op) == op.operation # ""

LooksTheSame(a, b) ==
  /\ a.policy = b.policy /\ a.paused = b.paused /\ a.deleting = b.deleting
  /\ a.retries = b.retries /\ IsSet(a) = IsSet(b)

FreshLooksTheSame ==
  \A o \in Ops :
    mem[o].phase = "live" /\ api[o].phase = "live" /\ o \notin stale =>
      LooksTheSame(mem[o], api[o])

\* What polling changes is the state of a running task, and it goes forward.
Advanced(new, old) ==
  new # old => old \in RunningStates /\ new \in {"InExecution"} \cup EndStates

PollingAdvances ==
  \A o \in dirty : api[o].phase = "live" => Advanced(mem[o].state, api[o].state)

RecordInv ==
  RecordsAreTrue /\ ResultIsOwn /\ TargetIsDue /\ FreshLooksTheSame /\ PollingAdvances

-----------------------------------------------------------------------------
\* The two objects have the same record.
SameRecord(a, b) ==
  a.id = b.id /\ a.state = b.state /\ a.failed = b.failed /\ a.retries = b.retries

\* A record is judged by its own fields alone.
LEMMA RecordedSame ==
  ASSUME NEW tasks, NEW o, NEW a, NEW b, SameRecord(a, b), Recorded(tasks, o, b)
  PROVE  Recorded(tasks, o, a)
  BY DEF SameRecord, Recorded, TaskIsOwn, HistoryIsOwn, HistoryCounts

\* An object that does not exist yet has nothing to record.
LEMMA UnbornRecorded ==
  ASSUME NEW tasks, NEW o, NEW op, op.id = NoId, op.failed = << >>, op.retries = 0
  PROVE  Recorded(tasks, o, op)
  BY BoundsAssumption DEF Recorded, TaskIsOwn, HistoryIsOwn, HistoryCounts

\* The fields of an object that is not listed.
LEMMA UnbornRecord ==
  /\ Unborn.phase = "unborn" /\ Unborn.operation = "" /\ Unborn.id = NoId
  /\ Unborn.state = "" /\ Unborn.failed = << >> /\ Unborn.retries = 0
  BY DEF Unborn

\* Tasks of Cruise Control keep their owner and go forward.
Forward(new) ==
  \A t \in TaskIds :
    cc[t].state # "unused" =>
      /\ new[t].owner = cc[t].owner
      /\ cc[t].state # "Active" => new[t].state # "Active"
      /\ \A s \in EndStates : cc[t].state \in {s, "evicted"} => new[t].state \in {s, "evicted"}

\* What is recorded stays true when tasks go forward.
LEMMA RecordedForward ==
  ASSUME NEW new, Forward(new), NEW o \in Ops, NEW op \in Object, Used(op.id),
         Recorded(cc, o, op)
  PROVE  Recorded(new, o, op)
<1>1. op.id # NoId => op.id \in TaskIds /\ cc[op.id].state # "unused"
  BY ObjectFields DEF Used
<1>2. op.failed \in Seq(TaskIds)
  BY ObjectFields
<1>3. \A i \in 1..Len(op.failed) : op.failed[i] \in TaskIds
  BY <1>2
<1>4. TaskIsOwn(new, o, op)
  BY <1>1 DEF Forward, Recorded, TaskIsOwn
<1>5. HistoryIsOwn(new, o, op)
  BY <1>3 DEF Forward, Recorded, HistoryIsOwn, EndStates
<1> QED BY <1>4, <1>5 DEF Recorded

\* Pushing a failed task counts it once more and forgets at most the oldest.
LEMMA PushFailedCounts ==
  ASSUME NEW h \in Seq(TaskIds), NEW id \in TaskIds, NEW r \in Nat,
         Len(h) = IF r < HistoryMax THEN r ELSE HistoryMax,
         \A i, j \in 1..Len(h) : i # j => h[i] # h[j],
         \A i \in 1..Len(h) : h[i] # id
  PROVE  LET s == PushFailed(h, id)
         IN  /\ Len(s) = IF r + 1 < HistoryMax THEN r + 1 ELSE HistoryMax
             /\ \A i, j \in 1..Len(s) : i # j => s[i] # s[j]
             /\ \A i \in 1..Len(s) : s[i] = id \/ \E j \in 1..Len(h) : s[i] = h[j]
<1> DEFINE s == PushFailed(h, id)
<1>0. HistoryMax \in Nat /\ HistoryMax > 0
  BY BoundsAssumption
<1>1. CASE Len(h) >= HistoryMax
  <2>1. h # << >> /\ Len(h) = HistoryMax /\ r >= HistoryMax
    BY <1>0, <1>1
  <2>2. /\ Tail(h) \in Seq(TaskIds) /\ Len(Tail(h)) = Len(h) - 1
        /\ \A i \in 1..(Len(h) - 1) : Tail(h)[i] = h[i + 1]
    BY <2>1, HeadTailProperties
  <2>3. s = Append(Tail(h), id)
    BY <1>1 DEF PushFailed
  <2>4. /\ Len(s) = Len(h)
        /\ \A i \in 1..(Len(h) - 1) : s[i] = h[i + 1]
        /\ s[Len(h)] = id
    BY <2>2, <2>3, AppendProperties
  <2> HIDE DEF s
  <2>5. \A i \in 1..Len(s) : i = Len(h) \/ (i \in 1..(Len(h) - 1) /\ i + 1 \in 1..Len(h))
    BY <1>0, <2>1, <2>4
  <2>6. \A i \in 1..Len(s) : s[i] = id \/ \E j \in 1..Len(h) : s[i] = h[j]
    BY <2>4, <2>5
  <2>7. \A i, j \in 1..Len(s) : i # j => s[i] # s[j]
    <3> SUFFICES ASSUME NEW i \in 1..Len(s), NEW j \in 1..Len(s), i # j
                 PROVE  s[i] # s[j]
      OBVIOUS
    <3>1. CASE i = Len(h)
      BY <2>4, <2>5, <3>1
    <3>2. CASE j = Len(h)
      BY <2>4, <2>5, <3>2
    <3>3. CASE i # Len(h) /\ j # Len(h)
      <4>1. i + 1 \in 1..Len(h) /\ j + 1 \in 1..Len(h) /\ i + 1 # j + 1
        BY <1>0, <2>1, <2>4, <2>5, <3>3
      <4> QED BY <2>4, <2>5, <3>3, <4>1
    <3> QED BY <3>1, <3>2, <3>3
  <2> QED BY <1>0, <2>1, <2>4, <2>6, <2>7 DEF s
<1>2. CASE ~(Len(h) >= HistoryMax)
  <2>1. Len(h) = r /\ r < HistoryMax
    BY <1>0, <1>2
  <2>2. s = Append(h, id)
    BY <1>2 DEF PushFailed
  <2>3. Len(s) = Len(h) + 1 /\ s[Len(h) + 1] = id /\ \A i \in 1..Len(h) : s[i] = h[i]
    BY <2>2, AppendProperties
  <2> HIDE DEF s
  <2>4. \A i \in 1..Len(s) : i \in 1..Len(h) \/ i = Len(h) + 1
    BY <2>1, <2>3
  <2>5. \A i \in 1..Len(s) : s[i] = id \/ \E j \in 1..Len(h) : s[i] = h[j]
    BY <2>3, <2>4
  <2>6. \A i, j \in 1..Len(s) : i # j => s[i] # s[j]
    BY <2>3, <2>4
  <2> QED BY <1>0, <2>1, <2>3, <2>5, <2>6 DEF s
<1> QED BY <1>1, <1>2

-----------------------------------------------------------------------------
\* Polling records what Cruise Control says.
LEMMA PolledRecorded ==
  ASSUME TypeOK, NEW o \in Ops, NEW op \in Object, op.id # NoId, Used(op.id),
         Recorded(cc, o, op)
  PROVE  /\ Recorded(cc, o, Polled(op))
         /\ op.state # "Completed" => Advanced(Polled(op).state, op.state)
<1> DEFINE new == Polled(op)
<1>1. op.id \in TaskIds /\ cc[op.id].state # "unused"
  BY ObjectFields DEF Used
<1>2. cc[op.id].state \in {"evicted"} \cup RunningStates \cup EndStates
  BY <1>1 DEF TypeOK, UserTask
<1>3. new.state = PolledState(op.id) /\ new.id = op.id /\ new.failed = op.failed
      /\ new.retries = op.retries
  BY DEF Polled, Object, OperationObject
<1> HIDE DEF new
<1>4. TaskIsOwn(cc, o, new)
  BY <1>2, <1>3 DEF Recorded, TaskIsOwn, PolledState, RunningStates, EndStates
<1>5. HistoryIsOwn(cc, o, new) /\ HistoryCounts(new)
  BY <1>3 DEF Recorded, HistoryIsOwn, HistoryCounts
<1>6. op.state # "Completed" => Advanced(new.state, op.state)
  <2>1. op.state \in TaskStates
    BY ObjectFields
  <2> QED BY <1>2, <1>3, <2>1
      DEF Recorded, TaskIsOwn, PolledState, Advanced, RunningStates, EndStates, TaskStates
<1> QED BY <1>4, <1>5, <1>6 DEF Recorded, new

\* What updateResult makes of a retry.
LEMMA RetryFields ==
  ASSUME NEW op \in Object, NEW res,
         op.state = "CompletedWithError", op.finished \/ res.state \in EndStates
  PROVE  LET new == AfterExecution(op, res)
         IN  /\ new.id = res.id /\ new.state = res.state
             /\ new.failed = PushFailed(op.failed, op.id) /\ new.retries = op.retries + 1
             /\ new.phase = op.phase /\ new.operation = op.operation
             /\ new.policy = op.policy /\ new.paused = op.paused
             /\ new.deleting = op.deleting /\ Archived(op, res).state = ""
  BY DEF AfterExecution, Archived, SetDefaults, Object, OperationObject

\* ... and of any other execution.
LEMMA ExecutionFields ==
  ASSUME NEW op \in Object, NEW res, op.state # "CompletedWithError"
  PROVE  LET new == AfterExecution(op, res)
         IN  /\ new.id = res.id /\ new.state = res.state
             /\ new.failed = op.failed /\ new.retries = op.retries
             /\ new.phase = op.phase /\ new.operation = op.operation
             /\ new.policy = op.policy /\ new.paused = op.paused
             /\ new.deleting = op.deleting /\ Archived(op, res).state = op.state
  BY DEF AfterExecution, Archived, Object, OperationObject

\* The answer becomes the record.
LEMMA AfterExecutionRecorded ==
  ASSUME SerialInv, RecordInv, pc = "write"
  PROVE  Recorded(cc, target, AfterExecution(mem[target], result))
<1> DEFINE op == mem[target]
           new == AfterExecution(op, result)
<1>1. target \in Ops /\ op \in Object /\ op.failed \in Seq(TaskIds) /\ op.retries \in Nat
      /\ op.id \in TaskIds \cup {NoId}
  <2>1. target \in Ops /\ op \in Object
    BY DEF SerialInv, TypeOK, Object
  <2> QED BY <2>1, ObjectFields
<1>2. Recorded(cc, target, op)
  BY <1>1 DEF RecordInv, RecordsAreTrue
<1>3. new.id = result.id /\ new.state = result.state
  <2>1. CASE op.state = "CompletedWithError"
    <3>1. op.finished
      BY <2>1 DEF RecordInv, TargetIsDue, RunningStates
    <3> QED BY <1>1, <2>1, <3>1, RetryFields
  <2>2. CASE op.state # "CompletedWithError"
    BY <1>1, <2>2, ExecutionFields
  <2> QED BY <2>1, <2>2
<1>4. TaskIsOwn(cc, target, new)
  BY <1>3 DEF RecordInv, ResultIsOwn, TaskIsOwn, RunningStates, EndStates
<1>5. HistoryIsOwn(cc, target, new) /\ HistoryCounts(new)
  <2>1. CASE op.state = "CompletedWithError"
    <3>1. op.finished
      BY <2>1 DEF RecordInv, TargetIsDue, RunningStates
    <3>2. op.id # NoId
      BY <2>1 DEF SerialInv, TargetIsReady
    <3>3. new.failed = PushFailed(op.failed, op.id) /\ new.retries = op.retries + 1
      BY <1>1, <2>1, <3>1, RetryFields
    <3>4. op.id \in TaskIds
      BY <1>1, <3>2
    <3> DEFINE h == op.failed
               s == PushFailed(h, op.id)
    <3>5. /\ Len(h) = IF op.retries < HistoryMax THEN op.retries ELSE HistoryMax
          /\ \A i, j \in 1..Len(h) : i # j => h[i] # h[j]
          /\ \A i \in 1..Len(h) : h[i] # op.id
      BY <1>2 DEF Recorded, HistoryCounts
    <3>6. /\ Len(s) = IF op.retries + 1 < HistoryMax THEN op.retries + 1 ELSE HistoryMax
          /\ \A i, j \in 1..Len(s) : i # j => s[i] # s[j]
          /\ \A i \in 1..Len(s) : s[i] = op.id \/ \E j \in 1..Len(h) : s[i] = h[j]
      BY <1>1, <3>4, <3>5, PushFailedCounts
    <3>7. cc[op.id].owner = target /\ cc[op.id].state \in EndStates \cup {"evicted"}
      BY <1>2, <2>1, <3>2 DEF Recorded, TaskIsOwn, EndStates
    <3>8. \A i \in 1..Len(h) : /\ cc[h[i]].owner = target
                              /\ cc[h[i]].state \in EndStates \cup {"evicted"}
      BY <1>2 DEF Recorded, HistoryIsOwn
    <3>9. /\ result.id = NoId \/ result.id # op.id
          /\ result.id # NoId => \A i \in 1..Len(h) : h[i] # result.id
      BY DEF RecordInv, ResultIsOwn
    <3>10. h \in Seq(TaskIds) /\ \A i \in 1..Len(h) : h[i] # NoId
      BY <1>1, TaskIdsAssumption DEF NoId
    <3>11. new.failed = s
      BY <3>3
    <3> HIDE DEF s, h
    <3>12. \A i \in 1..Len(s) : s[i] # result.id
      BY <3>2, <3>6, <3>9, <3>10
    <3> HIDE DEF new, op
    <3>13. HistoryIsOwn(cc, target, new)
      BY <3>6, <3>7, <3>8, <3>11 DEF HistoryIsOwn
    <3>14. HistoryCounts(new)
      BY <1>3, <3>3, <3>6, <3>11, <3>12 DEF HistoryCounts
    <3> QED BY <3>13, <3>14
  <2>2. CASE op.state # "CompletedWithError"
    <3>1. new.failed = op.failed /\ new.retries = op.retries
      BY <1>1, <2>2, ExecutionFields
    <3>2. \A i \in 1..Len(op.failed) : op.failed[i] \in TaskIds /\ op.failed[i] # NoId
      BY <1>1, TaskIdsAssumption DEF NoId
    <3>3. \A i \in 1..Len(op.failed) : op.failed[i] # result.id
      BY <3>2 DEF RecordInv, ResultIsOwn
    <3> HIDE DEF new, op
    <3>4. HistoryIsOwn(cc, target, new)
      BY <1>2, <3>1 DEF Recorded, HistoryIsOwn
    <3>5. HistoryCounts(new)
      BY <1>2, <1>3, <3>1, <3>3 DEF Recorded, HistoryCounts
    <3> QED BY <3>4, <3>5
  <2> QED BY <2>1, <2>2
<1> QED BY <1>4, <1>5 DEF Recorded

-----------------------------------------------------------------------------
\* A reconcile that ends leaves an empty snapshot.
LEMMA FinishRecords ==
  ASSUME NEW q, Finish(q), \A o \in Ops : Recorded(cc', o, api'[o])
  PROVE  RecordInv'
<1>1. \A o \in Ops : mem'[o] = Unborn
  BY DEF Finish, NoMem
<1>2. pc' = "idle" /\ dirty' = {}
  BY DEF Finish
<1>3. RecordsAreTrue'
  BY <1>1, UnbornRecorded, UnbornRecord DEF RecordsAreTrue
<1>4. FreshLooksTheSame'
  BY <1>1, UnbornRecord DEF FreshLooksTheSame
<1>5. ResultIsOwn' /\ TargetIsDue' /\ PollingAdvances'
  BY <1>2 DEF ResultIsOwn, TargetIsDue, PollingAdvances
<1> QED BY <1>3, <1>4, <1>5 DEF RecordInv

\* The same when nothing was written.
LEMMA RecordsUnwritten ==
  ASSUME RecordInv, NEW q, Finish(q), UNCHANGED <<api, cc>>
  PROVE  RecordInv'
<1>1. \A o \in Ops : Recorded(cc', o, api'[o])
  BY DEF RecordInv, RecordsAreTrue
<1> QED BY <1>1, FinishRecords

\* The same when the reconcile ends with a write.
LEMMA RecordsWritten ==
  ASSUME SerialInv, RecordInv, NEW q, Finish(q), NEW o \in Ops, NEW new, Store(o, new),
         Recorded(cc, o, new), cc' = cc
  PROVE  RecordInv'
<1>1. api' = [api EXCEPT ![o] = new] /\ api \in [Ops -> Object]
  BY DEF Store, SerialInv, TypeOK, Object
<1>2. \A p \in Ops : api'[p] = IF p = o THEN new ELSE api[p]
  BY <1>1
<1>3. \A p \in Ops : Recorded(cc', p, api'[p])
  BY <1>2 DEF RecordInv, RecordsAreTrue
<1> QED BY <1>3, FinishRecords

\* A write of anybody but the worker keeps the record.
LEMMA ExternalRecords ==
  ASSUME SerialInv, RecordInv, NEW o \in Ops, NEW new,
         api' = [api EXCEPT ![o] = new],
         stale' = IF mem[o].phase = "live" THEN stale \cup {o} ELSE stale,
         UNCHANGED <<pc, mem, dirty, target, result, cc>>,
         Recorded(cc, o, new),
         o \in dirty => api[o].phase = "live" /\ new.state = api[o].state
  PROVE  RecordInv'
<1>1. api \in [Ops -> Object]
  BY DEF SerialInv, TypeOK, Object
<1>2. \A p \in Ops : api'[p] = IF p = o THEN new ELSE api[p]
  BY <1>1
<1>3. RecordsAreTrue'
  BY <1>2 DEF RecordInv, RecordsAreTrue
<1>4. ResultIsOwn' /\ TargetIsDue'
  BY DEF RecordInv, ResultIsOwn, TargetIsDue
<1>5. FreshLooksTheSame'
  BY <1>2 DEF RecordInv, FreshLooksTheSame
<1>6. dirty \subseteq Ops
  BY DEF SerialInv, TypeOK
<1>7. PollingAdvances'
  BY <1>2, <1>6 DEF RecordInv, PollingAdvances
<1> QED BY <1>3, <1>4, <1>5, <1>7 DEF RecordInv

\* A step that leaves objects and tasks alone; it answers no request.
LEMMA AsideRecords ==
  ASSUME RecordInv, UNCHANGED <<api, mem, stale, dirty, target, result, cc>>,
         pc' = pc \/ pc' \notin {"pause", "execute", "write"}
  PROVE  RecordInv'
<1>1. RecordsAreTrue' /\ FreshLooksTheSame' /\ PollingAdvances'
  BY DEF RecordInv, RecordsAreTrue, FreshLooksTheSame, PollingAdvances
<1>2. ResultIsOwn' /\ TargetIsDue'
  BY DEF RecordInv, ResultIsOwn, TargetIsDue
<1> QED BY <1>1, <1>2 DEF RecordInv

\* A step of Cruise Control.
LEMMA ForwardRecords ==
  ASSUME SerialInv, RecordInv, Forward(cc'),
         UNCHANGED <<api, mem, stale, dirty, target, result, pc>>
  PROVE  RecordInv'
<1>1. api \in [Ops -> Object] /\ mem \in [Ops -> Object]
  BY DEF SerialInv, TypeOK, Object
<1>2. \A o \in Ops : Recorded(cc', o, api[o]) /\ Recorded(cc', o, mem[o])
  BY <1>1, RecordedForward DEF RecordInv, RecordsAreTrue, SerialInv, IdsAreUsed
<1>3. RecordsAreTrue'
  BY <1>2 DEF RecordsAreTrue
<1>4. TargetIsDue' /\ FreshLooksTheSame' /\ PollingAdvances'
  BY DEF RecordInv, TargetIsDue, FreshLooksTheSame, PollingAdvances
<1>5. result.id # NoId => result.id \in TaskIds /\ cc[result.id].state # "unused"
  BY DEF SerialInv, TypeOK, IdsAreUsed, Used
<1>6. ResultIsOwn'
  BY <1>5 DEF RecordInv, ResultIsOwn, Forward
<1> QED BY <1>3, <1>4, <1>6 DEF RecordInv

-----------------------------------------------------------------------------
\* The snapshot is what the API server holds.
LEMMA ListRecords ==
  ASSUME SerialInv, RecordInv, NEW o \in Ops, ListOperations(o)
  PROVE  RecordInv'
<1>1. UNCHANGED <<api, cc>> /\ pc = "idle"
  BY DEF ListOperations, apiVars
<1>2. CASE ~(api[o].phase = "live" /\ AfterList(api[o]) # "idle")
  BY <1>1, <1>2, RecordsUnwritten DEF ListOperations
<1>3. CASE api[o].phase = "live" /\ AfterList(api[o]) # "idle"
  <2>1. /\ pc' = AfterList(api[o]) /\ dirty' = dirty
        /\ mem' = [p \in Ops |-> IF api[p].phase = "live" THEN api[p] ELSE Unborn]
    BY <1>3 DEF ListOperations
  <2>2. \A p \in Ops : mem'[p] = IF api[p].phase = "live" THEN api[p] ELSE Unborn
    BY <2>1
  <2>3. AfterList(api[o]) \in {"finalize", "addfinalizer", "status", "idle"}
    BY DEF AfterList
  <2>4. RecordsAreTrue'
    BY <1>1, <2>2, UnbornRecorded, UnbornRecord DEF RecordInv, RecordsAreTrue
  <2>5. FreshLooksTheSame'
    BY <1>1, <2>2, UnbornRecord DEF FreshLooksTheSame, LooksTheSame
  <2>6. dirty = {}
    BY <1>1 DEF SerialInv, DirtyIsListed
  <2>7. ResultIsOwn' /\ TargetIsDue' /\ PollingAdvances'
    BY <2>1, <2>3, <2>6 DEF ResultIsOwn, TargetIsDue, PollingAdvances
  <2> QED BY <2>4, <2>5, <2>7 DEF RecordInv
<1> QED BY <1>2, <1>3

\* The finalizer is no part of the record, nor of what others see.
LEMMA FinalizerFields ==
  ASSUME NEW op \in Object, NEW v
  PROVE  LET new == [op EXCEPT !.finalizer = v]
         IN  /\ SameRecord(new, op) /\ new.phase = op.phase
             /\ new.operation = op.operation /\ new.policy = op.policy
             /\ new.paused = op.paused /\ new.deleting = op.deleting
  BY DEF SameRecord, Object, OperationObject

\* The object goes away, or stays as it was without the finalizer.
LEMMA WithoutFinalizerFields ==
  ASSUME NEW op \in Object
  PROVE  LET new == WithoutFinalizer(op)
         IN  /\ SameRecord(new, op) /\ new.phase = IF op.deleting THEN "gone" ELSE op.phase
             /\ new.operation = op.operation /\ new.policy = op.policy
             /\ new.paused = op.paused /\ new.deleting = op.deleting
<1>1. CASE op.deleting
  BY <1>1 DEF WithoutFinalizer, SameRecord, Object, OperationObject
<1>2. CASE ~op.deleting
  BY <1>2 DEF WithoutFinalizer, SameRecord, Object, OperationObject
<1> QED BY <1>1, <1>2

\* The finalizer is removed from the object of the API server.
LEMMA RemoveFinalizerRecords ==
  ASSUME SerialInv, RecordInv, RemoveFinalizer
  PROVE  RecordInv'
<1>1. cur \in Ops /\ cc' = cc /\ api[cur] \in Object
  BY DEF SerialInv, TypeOK, Object, RemoveFinalizer
<1>2. CASE Requeue /\ UNCHANGED apiVars
  BY <1>1, <1>2, RecordsUnwritten DEF Requeue, apiVars
<1> DEFINE new == WithoutFinalizer(api[cur])
<1>3. CASE Store(cur, new) /\ Finish(queue \cup Woken(cur, new))
  <2>1. Recorded(cc, cur, new)
    BY <1>1, WithoutFinalizerFields, RecordedSame DEF RecordInv, RecordsAreTrue
  <2> HIDE DEF new
  <2> QED BY <1>1, <1>3, <2>1, RecordsWritten
<1> QED BY <1>2, <1>3 DEF RemoveFinalizer

\* The finalizer is put on the object and on the snapshot alike.
LEMMA AddFinalizerRecords ==
  ASSUME SerialInv, RecordInv, AddFinalizer
  PROVE  RecordInv'
<1>1. cur \in Ops /\ cc' = cc /\ pc = "addfinalizer"
      /\ api \in [Ops -> Object] /\ mem \in [Ops -> Object]
  BY DEF SerialInv, TypeOK, Object, AddFinalizer
<1>2. CASE Requeue /\ UNCHANGED apiVars
  BY <1>1, <1>2, RecordsUnwritten DEF Requeue, apiVars
<1>3. CASE /\ Store(cur, [api[cur] EXCEPT !.finalizer = TRUE])
           /\ mem' = [mem EXCEPT ![cur].finalizer = TRUE] /\ pc' = "status"
           /\ UNCHANGED <<queue, cur, stale, dirty, inExecution, target, result>>
  <2> DEFINE a == [api[cur] EXCEPT !.finalizer = TRUE]
             m == [mem[cur] EXCEPT !.finalizer = TRUE]
  <2>1. api' = [api EXCEPT ![cur] = a] /\ mem' = [mem EXCEPT ![cur] = m]
    BY <1>1, <1>3 DEF Store
  <2>2. /\ SameRecord(a, api[cur]) /\ a.phase = api[cur].phase
        /\ a.operation = api[cur].operation /\ a.policy = api[cur].policy
        /\ a.paused = api[cur].paused /\ a.deleting = api[cur].deleting
    BY <1>1, FinalizerFields
  <2>3. /\ SameRecord(m, mem[cur]) /\ m.phase = mem[cur].phase
        /\ m.operation = mem[cur].operation /\ m.policy = mem[cur].policy
        /\ m.paused = mem[cur].paused /\ m.deleting = mem[cur].deleting
    BY <1>1, FinalizerFields
  <2> HIDE DEF a, m
  <2>4. \A p \in Ops : /\ api'[p] = IF p = cur THEN a ELSE api[p]
                       /\ mem'[p] = IF p = cur THEN m ELSE mem[p]
    BY <1>1, <2>1
  <2>5. Recorded(cc, cur, a) /\ Recorded(cc, cur, m)
    BY <1>1, <2>2, <2>3, RecordedSame DEF RecordInv, RecordsAreTrue
  <2>6. RecordsAreTrue'
    BY <1>1, <2>4, <2>5 DEF RecordInv, RecordsAreTrue
  <2>7. FreshLooksTheSame'
    <3>1. /\ m.policy = mem[cur].policy /\ m.paused = mem[cur].paused
          /\ m.deleting = mem[cur].deleting /\ m.retries = mem[cur].retries
          /\ m.operation = mem[cur].operation
      BY <2>3 DEF SameRecord
    <3>2. /\ a.policy = api[cur].policy /\ a.paused = api[cur].paused
          /\ a.deleting = api[cur].deleting /\ a.retries = api[cur].retries
          /\ a.operation = api[cur].operation
      BY <2>2 DEF SameRecord
    <3>3. LooksTheSame(mem[cur], api[cur]) => LooksTheSame(m, a)
      BY <3>1, <3>2 DEF LooksTheSame, IsSet
    <3>4. stale' = stale /\ m.phase = mem[cur].phase /\ a.phase = api[cur].phase
      BY <1>3, <2>2, <2>3
    <3> QED BY <1>1, <2>4, <3>3, <3>4 DEF RecordInv, FreshLooksTheSame
  <2>8. ResultIsOwn' /\ TargetIsDue'
    BY <1>3 DEF ResultIsOwn, TargetIsDue
  <2>9. PollingAdvances'
    BY <1>1, <1>3 DEF SerialInv, DirtyIsListed, PollingAdvances
  <2> QED BY <2>6, <2>7, <2>8, <2>9 DEF RecordInv
<1> QED BY <1>2, <1>3 DEF AddFinalizer

\* The snapshot is brought up to date with Cruise Control.
LEMMA UpdateCurrentTasksRecords ==
  ASSUME SerialInv, RecordInv, UpdateCurrentTasks
  PROVE  RecordInv'
<1>1. pc = "tasks" /\ pc' = "update" /\ UNCHANGED <<api, cc, stale>>
      /\ mem \in [Ops -> Object]
  BY DEF SerialInv, TypeOK, Object, UpdateCurrentTasks, apiVars
<1>2. dirty = {}
  BY <1>1 DEF SerialInv, DirtyIsListed
<1> DEFINE polled == {o \in Filtered : mem[o].id # NoId}
           new == [o \in Ops |-> IF o \in polled THEN Polled(mem[o]) ELSE mem[o]]
<1>3. mem' = new /\ dirty' = {o \in polled : new[o] # mem[o]}
  BY DEF UpdateCurrentTasks
<1>4. \A o \in polled : /\ o \in Ops /\ mem[o].phase = "live" /\ mem[o].id # NoId
                        /\ mem[o].state # "Completed"
  BY DEF Filtered, IsDone, IsFinished
<1>5. \A o \in Ops : mem'[o] = IF o \in polled THEN Polled(mem[o]) ELSE mem[o]
  BY <1>3
<1>6. \A o \in dirty' : o \in polled
  BY <1>3
<1> HIDE DEF polled, new
<1>7. \A o \in polled : /\ Recorded(cc, o, Polled(mem[o]))
                        /\ Advanced(Polled(mem[o]).state, mem[o].state)
  BY <1>1, <1>4, PolledRecorded DEF RecordInv, RecordsAreTrue, SerialInv, IdsAreUsed
<1>8. \A o \in Ops : /\ mem'[o].phase = mem[o].phase /\ mem'[o].policy = mem[o].policy
                     /\ mem'[o].paused = mem[o].paused
                     /\ mem'[o].deleting = mem[o].deleting
                     /\ mem'[o].retries = mem[o].retries
                     /\ mem'[o].operation = mem[o].operation
  BY <1>1, <1>5 DEF Polled, Object, OperationObject
<1>9. RecordsAreTrue'
  BY <1>1, <1>5, <1>7 DEF RecordInv, RecordsAreTrue
<1>10. FreshLooksTheSame'
  <2>1. \A o \in Ops : LooksTheSame(mem[o], api[o]) => LooksTheSame(mem'[o], api[o])
    BY <1>8 DEF LooksTheSame, IsSet
  <2> QED BY <1>1, <1>8, <2>1 DEF RecordInv, FreshLooksTheSame
<1>11. ResultIsOwn' /\ TargetIsDue'
  BY <1>1 DEF ResultIsOwn, TargetIsDue
<1>12. \A o \in polled : api[o].phase = "live" => api[o].state = mem[o].state
  BY <1>1, <1>2, <1>4 DEF SerialInv, SnapshotInSync
<1>13. PollingAdvances'
  BY <1>1, <1>4, <1>5, <1>6, <1>7, <1>12 DEF PollingAdvances
<1> QED BY <1>9, <1>10, <1>11, <1>13 DEF RecordInv

\* A polled status is written.
LEMMA UpdateTaskStatusRecords ==
  ASSUME SerialInv, RecordInv, NEW o \in Ops, UpdateTaskStatus(o)
  PROVE  RecordInv'
<1>1. cc' = cc /\ pc = "update" /\ o \in dirty
  BY DEF UpdateTaskStatus
<1>2. CASE Requeue /\ UNCHANGED apiVars
  BY <1>1, <1>2, RecordsUnwritten DEF Requeue, apiVars
<1>3. CASE /\ Store(o, mem[o]) /\ dirty' = dirty \ {o}
           /\ UNCHANGED <<pc, cur, mem, stale, inExecution, target, result>>
  <2>1. api' = [api EXCEPT ![o] = mem[o]] /\ api \in [Ops -> Object] /\ dirty \subseteq Ops
    BY <1>3 DEF Store, SerialInv, TypeOK, Object
  <2>2. \A p \in Ops : api'[p] = IF p = o THEN mem[o] ELSE api[p]
    BY <2>1
  <2>3. RecordsAreTrue'
    BY <1>1, <1>3, <2>2 DEF RecordInv, RecordsAreTrue
  <2>4. FreshLooksTheSame'
    <3>1. LooksTheSame(mem[o], mem[o])
      BY DEF LooksTheSame
    <3> QED BY <1>3, <2>2, <3>1 DEF RecordInv, FreshLooksTheSame
  <2>5. PollingAdvances'
    BY <1>3, <2>1, <2>2 DEF RecordInv, PollingAdvances
  <2>6. ResultIsOwn' /\ TargetIsDue'
    BY <1>1, <1>3 DEF ResultIsOwn, TargetIsDue
  <2> QED BY <2>3, <2>4, <2>5, <2>6 DEF RecordInv
<1> QED BY <1>2, <1>3 DEF UpdateTaskStatus
-----------------------------------------------------------------------------
\* What the worker chooses to execute next waits for it.
LEMMA SelectedIsDue ==
  ASSUME NEW x \in Ops \ StopQueue, Selects(x)
  PROVE  \/ mem[x].state = ""
         \/ /\ mem[x].state = "CompletedWithError" /\ mem[x].finished
            /\ mem[x].policy = "retry" /\ ~mem[x].paused
<1>1. x \in FirstQueue \/ IsReadyForRetryExecution(x)
  BY DEF Selects, IsHead
<1> QED BY <1>1 DEF FirstQueue, IsWaitingForFirstExecution, IsReadyForRetryExecution,
                    IsWaitingForRetryExecution, IsErrorPolicyRetry

\* The worker goes on with the same snapshot.
LEMMA ChooseRecords ==
  ASSUME RecordInv, UNCHANGED <<api, mem, stale, dirty, cc>>, pc' \in {"pause", "execute"},
         TargetIsDue'
  PROVE  RecordInv'
<1>1. RecordsAreTrue' /\ FreshLooksTheSame' /\ PollingAdvances'
  BY DEF RecordInv, RecordsAreTrue, FreshLooksTheSame, PollingAdvances
<1>2. ResultIsOwn'
  BY DEF ResultIsOwn
<1> QED BY <1>1, <1>2 DEF RecordInv

\* The decision of the reconcile.
LEMMA SelectOperationRecords ==
  ASSUME SerialInv, RecordInv, SelectOperation
  PROVE  RecordInv'
<1>1. UNCHANGED <<api, cc>> /\ pc = "update" /\ dirty = {}
  BY DEF SelectOperation, apiVars
<1>2. CASE Goto("finalize")
  BY <1>1, <1>2, AsideRecords DEF Goto
<1>3. CASE Reconciled \/ Requeue
  BY <1>1, <1>3, RecordsUnwritten DEF Reconciled, Requeue
<1>4. ASSUME NEW x \in StopQueue,
             Execute(x, [mem EXCEPT ![x].operation = "stop_execution"])
      PROVE  RecordInv'
  <2> DEFINE op == [mem[x] EXCEPT !.operation = "stop_execution"]
  <2>1. /\ x \in Ops /\ mem[x].deleting /\ mem[x].state \in RunningStates
        /\ mem[x].operation # ""
    BY <1>4 DEF StopQueue, Filtered, IsWaitingForFinalization, IsFinalizerNeeded,
                IsCurrentTaskRunning, IsCurrentTaskOperationValid, ValidOperations, Kinds
  <2>2. /\ mem' = [mem EXCEPT ![x] = op] /\ pc' = "execute" /\ target' = x
        /\ UNCHANGED <<cur, stale, dirty>>
    BY <1>4 DEF Execute
  <2>3. mem \in [Ops -> Object] /\ mem[x] \in Object
    BY <2>1 DEF SerialInv, TypeOK, Object
  <2>4. /\ SameRecord(op, mem[x]) /\ op.phase = mem[x].phase
        /\ op.operation = "stop_execution" /\ op.policy = mem[x].policy
        /\ op.paused = mem[x].paused /\ op.deleting = mem[x].deleting
        /\ op.state = mem[x].state /\ op.retries = mem[x].retries
    BY <2>3 DEF SameRecord, Object, OperationObject
  <2> HIDE DEF op
  <2>5. \A p \in Ops : mem'[p] = IF p = x THEN op ELSE mem[p]
    BY <2>1, <2>2, <2>3
  <2>6. RecordsAreTrue'
    <3>1. Recorded(cc, x, op)
      BY <2>1, <2>4, RecordedSame DEF RecordInv, RecordsAreTrue
    <3> QED BY <1>1, <2>5, <3>1 DEF RecordInv, RecordsAreTrue
  <2>7. FreshLooksTheSame'
    <3>1. LooksTheSame(mem[x], api[x]) => LooksTheSame(op, api[x])
      BY <2>1, <2>4 DEF LooksTheSame, IsSet
    <3> QED BY <1>1, <2>1, <2>2, <2>4, <2>5, <3>1 DEF RecordInv, FreshLooksTheSame
  <2>8. TargetIsDue'
    BY <2>1, <2>2, <2>4, <2>5 DEF TargetIsDue
  <2>9. ResultIsOwn' /\ PollingAdvances'
    BY <1>1, <2>2 DEF ResultIsOwn, PollingAdvances
  <2> QED BY <2>6, <2>7, <2>8, <2>9 DEF RecordInv
<1>5. ASSUME NEW x \in Ops \ StopQueue, Selects(x), Execute(x, mem)
      PROVE  RecordInv'
  <2>1. pc' = "execute" /\ target' = x /\ UNCHANGED <<mem, stale, dirty>>
    BY <1>5 DEF Execute
  <2>2. TargetIsDue'
    BY <1>5, <2>1, SelectedIsDue DEF TargetIsDue
  <2> QED BY <1>1, <2>1, <2>2, ChooseRecords
<1>6. ASSUME NEW r \in Ops, NEW x \in Ops, Pauses(r, x), pc' = "pause", target' = x,
             UNCHANGED <<mem, stale, dirty>>
      PROVE  RecordInv'
  <2>1. mem[x].state = ""
    BY <1>6 DEF Pauses, IsHead, WaitingRebalances, FirstQueue, IsWaitingForFirstExecution
  <2>2. TargetIsDue'
    BY <1>6, <2>1 DEF TargetIsDue
  <2> QED BY <1>1, <1>6, <2>2, ChooseRecords
<1> QED BY <1>2, <1>3, <1>4, <1>5, <1>6 DEF SelectOperation

\* The pause label is no part of the record.
LEMMA PausedFields ==
  ASSUME NEW op \in Object, NEW v
  PROVE  LET new == [op EXCEPT !.paused = v]
         IN  /\ SameRecord(new, op) /\ new.phase = op.phase
             /\ new.operation = op.operation /\ new.policy = op.policy
             /\ new.paused = v /\ new.deleting = op.deleting
  BY DEF SameRecord, Object, OperationObject

\* The failed removal of disks is paused, and the rebalance is executed.
LEMMA PauseRetryRecords ==
  ASSUME SerialInv, RecordInv, PauseRetry
  PROVE  RecordInv'
<1>1. pc = "pause" /\ cc' = cc /\ api \in [Ops -> Object] /\ mem \in [Ops -> Object]
      /\ target \in Ops /\ dirty = {}
  BY DEF PauseRetry, SerialInv, TypeOK, DirtyIsListed, Object
<1>2. CASE Requeue /\ UNCHANGED apiVars
  BY <1>1, <1>2, RecordsUnwritten DEF Requeue, apiVars
<1>3. ASSUME NEW r \in Ops, IsHead(r, RetryQueue),
             Store(r, [api[r] EXCEPT !.paused = TRUE])
      PROVE  /\ \A q : Finish(q) => RecordInv'
             /\ (pc' = "execute" /\ mem' = [mem EXCEPT ![r] = [api[r] EXCEPT !.paused = TRUE]]
                  /\ UNCHANGED <<stale, dirty, target>>) => RecordInv'
  <2> DEFINE op == [api[r] EXCEPT !.paused = TRUE]
  <2>1. SameRecord(op, api[r]) /\ op.phase = api[r].phase
    BY <1>1, PausedFields
  <2>2. api' = [api EXCEPT ![r] = op] /\ Store(r, op)
    BY <1>3 DEF Store
  <2>3. r # target
    BY <1>1, <1>3 DEF IsHead, RetryQueue, IsWaitingForRetryExecution, RecordInv, TargetIsDue
  <2> HIDE DEF op
  <2>4. Recorded(cc, r, op)
    BY <2>1, RecordedSame DEF RecordInv, RecordsAreTrue
  <2>5. \A q : Finish(q) => RecordInv'
    BY <1>1, <2>2, <2>4, RecordsWritten
  <2>6. ASSUME pc' = "execute", mem' = [mem EXCEPT ![r] = op],
               UNCHANGED <<stale, dirty, target>>
        PROVE  RecordInv'
    <3>1. \A p \in Ops : /\ api'[p] = IF p = r THEN op ELSE api[p]
                         /\ mem'[p] = IF p = r THEN op ELSE mem[p]
      BY <1>1, <2>2, <2>6
    <3>2. RecordsAreTrue'
      BY <1>1, <2>4, <3>1 DEF RecordInv, RecordsAreTrue
    <3>3. FreshLooksTheSame'
      <4>1. LooksTheSame(op, op)
        BY DEF LooksTheSame
      <4> QED BY <2>6, <3>1, <4>1 DEF RecordInv, FreshLooksTheSame
    <3>4. TargetIsDue' /\ ResultIsOwn' /\ PollingAdvances'
      BY <1>1, <2>3, <2>6, <3>1
      DEF RecordInv, TargetIsDue, ResultIsOwn, PollingAdvances
    <3> QED BY <3>2, <3>3, <3>4 DEF RecordInv
  <2> QED BY <2>5, <2>6 DEF op
<1> QED BY <1>2, <1>3 DEF PauseRetry
-----------------------------------------------------------------------------
\* A task is created under an ID that no record knows.
LEMMA NewTaskRecords ==
  ASSUME SerialInv, RecordInv, target \in Ops, NEW t \in TaskIds,
         NEW s \in {"Active", "CompletedWithError"}, NewTask(t, s)
  PROVE  /\ Forward(cc') /\ cc'[t].owner = target /\ cc'[t].state = s
         /\ t # NoId /\ t # mem[target].id
         /\ \A i \in 1..Len(mem[target].failed) : mem[target].failed[i] # t
<1>1. cc \in [TaskIds -> UserTask] /\ cc[t].state = "unused"
  BY DEF SerialInv, TypeOK, NewTask
<1> DEFINE task == [state |-> s, owner |-> target, kind |-> mem[target].operation]
<1>2. task.state = s /\ task.owner = target
  OBVIOUS
<1>3. cc' = [cc EXCEPT ![t] = task]
  BY DEF NewTask
<1> HIDE DEF task
<1>4. \A u \in TaskIds : cc'[u] = IF u = t THEN task ELSE cc[u]
  BY <1>1, <1>3
<1>5. Forward(cc')
  BY <1>1, <1>4 DEF Forward
<1>6. t # NoId
  BY TaskIdsAssumption DEF NoId
<1>7. t # mem[target].id
  BY <1>1, <1>6 DEF SerialInv, IdsAreUsed, Used
<1>8. \A i \in 1..Len(mem[target].failed) : mem[target].failed[i] # t
  BY <1>1 DEF RecordInv, RecordsAreTrue, Recorded, HistoryIsOwn, EndStates
<1> QED BY <1>2, <1>4, <1>5, <1>6, <1>7, <1>8

\* The answer of Cruise Control is held until it is written.
LEMMA AnswerRecords ==
  ASSUME SerialInv, RecordInv, pc = "execute", api' = api,
         Forward(cc') \/ cc' = cc, NEW id, NEW s, NEW dated, Answer(id, s, dated),
         \/ s \in {"Active", "CompletedWithError"}
         \/ s = "Completed" /\ ~dated /\ mem[target].operation = "remove_disks",
         id # NoId =>
           /\ cc'[id].owner = target /\ cc'[id].state = s /\ id # mem[target].id
           /\ \A i \in 1..Len(mem[target].failed) : mem[target].failed[i] # id
  PROVE  RecordInv'
<1>1. /\ result' = [id |-> id, state |-> s, dated |-> dated]
      /\ pc' = "write" /\ UNCHANGED <<mem, stale, dirty, target>>
  BY DEF Answer
<1>2. api \in [Ops -> Object] /\ mem \in [Ops -> Object]
  BY DEF SerialInv, TypeOK, Object
<1>3. \A o \in Ops : Recorded(cc', o, api[o]) /\ Recorded(cc', o, mem[o])
  BY <1>2, RecordedForward DEF RecordInv, RecordsAreTrue, SerialInv, IdsAreUsed
<1>4. RecordsAreTrue'
  BY <1>1, <1>3 DEF RecordsAreTrue
<1>5. TargetIsDue' /\ FreshLooksTheSame' /\ PollingAdvances'
  BY <1>1 DEF RecordInv, TargetIsDue, FreshLooksTheSame, PollingAdvances
<1>6. result'.id = id /\ result'.state = s /\ result'.dated = dated
  BY <1>1
<1>7. ResultIsOwn'
  BY <1>1, <1>6 DEF ResultIsOwn
<1> QED BY <1>4, <1>5, <1>7 DEF RecordInv

\* A request to Cruise Control, whatever becomes of it.
LEMMA ExecuteOperationRecords ==
  ASSUME SerialInv, RecordInv, NEW outcome \in Outcomes, ExecuteOperation(outcome)
  PROVE  RecordInv'
<1>1. pc = "execute" /\ api' = api /\ target \in Ops
  BY DEF ExecuteOperation, apiVars, SerialInv, TypeOK
<1>2. CASE Requeue /\ UNCHANGED cc
  BY <1>1, <1>2, RecordsUnwritten DEF Requeue
<1>3. ASSUME NEW t \in TaskIds, NEW s \in {"Active", "CompletedWithError"},
             NewTask(t, s), Answer(t, s, TRUE)
      PROVE  RecordInv'
  BY <1>1, <1>3, NewTaskRecords, AnswerRecords
<1>4. ASSUME NEW t \in TaskIds, NewTask(t, "Active"), Answer(NoId, "CompletedWithError", FALSE)
      PROVE  RecordInv'
  BY <1>1, <1>4, NewTaskRecords, AnswerRecords
<1>5. ASSUME NEW dated, Answer(NoId, "CompletedWithError", dated), UNCHANGED cc
      PROVE  RecordInv'
  BY <1>1, <1>5, AnswerRecords
<1>6. ASSUME mem[target].operation = "remove_disks", Answer(NoId, "Completed", FALSE),
             UNCHANGED cc
      PROVE  RecordInv'
  BY <1>1, <1>6, AnswerRecords
<1> QED BY <1>2, <1>3, <1>4, <1>5, <1>6 DEF ExecuteOperation

\* The answer is written, lost to a Conflict, or left for another attempt.
LEMMA WriteResultRecords ==
  ASSUME SerialInv, RecordInv, WriteResult
  PROVE  RecordInv'
<1>1. pc = "write" /\ cc' = cc /\ target \in Ops
  BY DEF WriteResult, SerialInv, TypeOK
<1>2. CASE (Requeue \/ Reconciled) /\ UNCHANGED apiVars
  BY <1>1, <1>2, RecordsUnwritten DEF Requeue, Reconciled, apiVars
<1> DEFINE new == AfterExecution(mem[target], result)
<1>3. CASE Store(target, new) /\ Finish(queue \cup Woken(target, new))
  <2>1. Recorded(cc, target, new)
    BY <1>1, AfterExecutionRecorded
  <2> HIDE DEF new
  <2> QED BY <1>1, <1>3, <2>1, RecordsWritten
<1> QED BY <1>2, <1>3 DEF WriteResult

\* Every step of the worker keeps the records true.
LEMMA WorkerRecords ==
  ASSUME SerialInv, RecordInv, Worker
  PROVE  RecordInv'
<1>1. ASSUME NEW b \in BOOLEAN, GetStatus(b)
      PROVE  RecordInv'
  BY <1>1, AsideRecords DEF GetStatus, apiVars
<1>2. CASE GetStatusFails \/ UserTasksFails
  BY <1>2, RecordsUnwritten DEF GetStatusFails, UserTasksFails, Requeue, apiVars
<1> QED
  BY <1>1, <1>2, ListRecords, UpdateTaskStatusRecords, RemoveFinalizerRecords,
     AddFinalizerRecords, UpdateCurrentTasksRecords, SelectOperationRecords,
     PauseRetryRecords, ExecuteOperationRecords, WriteResultRecords
  DEF Worker

-----------------------------------------------------------------------------
\* Nor is the deletion part of it.
LEMMA DeletedFields ==
  ASSUME NEW op \in Object
  PROVE  LET new == Deleted(op)
         IN  /\ SameRecord(new, op) /\ new.operation = op.operation
             /\ new.policy = op.policy /\ new.paused = op.paused
             /\ \/ new.phase = op.phase /\ new.deleting = TRUE
                \/ new.phase = "gone" /\ new.deleting = op.deleting
<1>1. CASE op.finalizer
  BY <1>1 DEF Deleted, SameRecord, Object, OperationObject
<1>2. CASE ~op.finalizer
  BY <1>2 DEF Deleted, SameRecord, Object, OperationObject
<1> QED BY <1>1, <1>2

\* The error policy is not, either.
LEMMA PolicyFields ==
  ASSUME NEW op \in Object, NEW v
  PROVE  LET new == [op EXCEPT !.policy = v]
         IN  /\ SameRecord(new, op) /\ new.phase = op.phase
             /\ new.operation = op.operation /\ new.policy = v
             /\ new.paused = op.paused /\ new.deleting = op.deleting
  BY DEF SameRecord, Object, OperationObject

\* Filling in CurrentTask changes its operation only.
LEMMA SetFields ==
  ASSUME NEW op \in Object, NEW v
  PROVE  LET new == [op EXCEPT !.operation = v]
         IN  /\ SameRecord(new, op) /\ new.phase = op.phase
             /\ new.operation = v /\ new.policy = op.policy
             /\ new.paused = op.paused /\ new.deleting = op.deleting
  BY DEF SameRecord, Object, OperationObject

\* The other actors write no record.
LEMMA EnvironmentRecords ==
  ASSUME SerialInv, RecordInv, Environment
  PROVE  RecordInv'
<1>1. api \in [Ops -> Object]
  BY DEF SerialInv, TypeOK, Object
<1>2. ASSUME NEW o \in Ops, NEW new, ExternalWrite(o, new), cc' = cc, Recorded(cc, o, new),
             o \in dirty => api[o].phase = "live" /\ new.state = api[o].state
      PROVE  RecordInv'
  BY <1>2, ExternalRecords DEF ExternalWrite, Store
<1>3. ASSUME NEW o \in Ops, CreateOperation(o)
      PROVE  RecordInv'
  <2> DEFINE new == [Unborn EXCEPT !.phase = "live", !.policy = PolicyOf[o]]
  <2>1. new.id = NoId /\ new.failed = << >> /\ new.retries = 0
    BY DEF Unborn
  <2>2. ExternalWrite(o, new) /\ cc' = cc /\ api[o].phase = "unborn"
    BY <1>3 DEF CreateOperation
  <2> HIDE DEF new
  <2>3. Recorded(cc, o, new)
    BY <2>1, UnbornRecorded
  <2>4. o \notin dirty
    BY <2>2 DEF SerialInv, DirtyIsListed, SnapshotInSync
  <2> QED BY <1>2, <2>2, <2>3, <2>4
<1>4. ASSUME NEW o \in Ops, NEW new, SameRecord(new, api[o])
      PROVE  Recorded(cc, o, new) /\ new.state = api[o].state
  BY <1>4, RecordedSame DEF RecordInv, RecordsAreTrue, SameRecord
<1>5. ASSUME NEW o \in Ops, NEW new, ExternalWrite(o, new), cc' = cc,
             api[o].phase = "live", SameRecord(new, api[o])
      PROVE  RecordInv'
  BY <1>2, <1>4, <1>5
<1>6. ASSUME NEW o \in Ops, SetCurrentTask(o)
      PROVE  RecordInv'
  <2>1. SameRecord([api[o] EXCEPT !.operation = KindOf[o]], api[o])
    BY <1>1, SetFields
  <2> QED BY <1>5, <1>6, <2>1 DEF SetCurrentTask
<1>7. ASSUME NEW o \in Ops, TogglePause(o)
      PROVE  RecordInv'
  <2>1. SameRecord([api[o] EXCEPT !.paused = ~api[o].paused], api[o])
    BY <1>1, PausedFields
  <2> QED BY <1>5, <1>7, <2>1 DEF TogglePause, UserEdit
<1>8. ASSUME NEW o \in Ops, EditErrorPolicy(o)
      PROVE  RecordInv'
  <2> DEFINE v == IF api[o].policy = "retry" THEN "ignore" ELSE "retry"
  <2>1. SameRecord([api[o] EXCEPT !.policy = v], api[o])
    BY <1>1, PolicyFields
  <2>2. UserEdit(o, [api[o] EXCEPT !.policy = v])
    BY <1>8 DEF EditErrorPolicy
  <2> HIDE DEF v
  <2> QED BY <1>5, <2>1, <2>2 DEF UserEdit
<1>9. ASSUME NEW o \in Ops, DeleteOperation(o) \/ CollectGarbage(o)
      PROVE  RecordInv'
  <2>1. SameRecord(Deleted(api[o]), api[o])
    BY <1>1, DeletedFields
  <2> QED BY <1>5, <1>9, <2>1 DEF DeleteOperation, UserEdit, CollectGarbage
<1>10. ASSUME NEW o \in Ops, TTLReconcile(o)
       PROVE  RecordInv'
  <2>1. UNCHANGED <<pc, mem, dirty, target, result, cc>>
    BY <1>10 DEF TTLReconcile
  <2>2. CASE api[o].phase = "live" /\ api[o].finished /\ ~api[o].deleting
    <3>1. /\ api' = [api EXCEPT ![o] = Deleted(api[o])]
          /\ stale' = IF mem[o].phase = "live" THEN stale \cup {o} ELSE stale
      BY <1>10, <2>2 DEF TTLReconcile
    <3>2. SameRecord(Deleted(api[o]), api[o])
      BY <1>1, DeletedFields
    <3>3. Recorded(cc, o, Deleted(api[o])) /\ Deleted(api[o]).state = api[o].state
      BY <1>4, <3>2
    <3> QED BY <2>1, <2>2, <3>1, <3>3, ExternalRecords
  <2>3. CASE ~(api[o].phase = "live" /\ api[o].finished /\ ~api[o].deleting)
    BY <1>10, <2>1, <2>3, AsideRecords DEF TTLReconcile
  <2> QED BY <2>2, <2>3
<1>11. ASSUME NEW o \in Ops, BackoffElapses(o)
       PROVE  RecordInv'
  BY <1>11, AsideRecords DEF BackoffElapses, workerVars
<1>12. CASE DeleteCluster
  BY <1>12, AsideRecords DEF DeleteCluster, workerVars, apiVars
<1>13. CASE Restart
  BY <1>13, RecordsUnwritten DEF Restart
<1> QED
  BY <1>3, <1>6, <1>7, <1>8, <1>9, <1>10, <1>11, <1>12, <1>13 DEF Environment

\* Tasks go forward.
LEMMA CruiseControlRecords ==
  ASSUME SerialInv, RecordInv, CruiseControl
  PROVE  RecordInv'
<1>1. cc \in [TaskIds -> UserTask]
  BY DEF SerialInv, TypeOK
<1>2. UNCHANGED <<api, mem, stale, dirty, target, result, pc>>
  BY DEF CruiseControl, StartExecution, StopTakesEffect, Evict, EndTask, SetTaskState,
         apiVars, workerVars
<1>3. ASSUME NEW t \in TaskIds, NEW s, SetTaskState(t, s),
             \/ cc[t].state = "Active" /\ s = "InExecution"
             \/ cc[t].state \in RunningStates /\ s \in EndStates
             \/ cc[t].state \in EndStates /\ s = "evicted"
      PROVE  Forward(cc')
  <2> DEFINE task == [cc[t] EXCEPT !.state = s]
  <2>1. task.state = s /\ task.owner = cc[t].owner
    BY <1>1 DEF UserTask
  <2>2. cc' = [cc EXCEPT ![t] = task]
    BY <1>3 DEF SetTaskState
  <2> HIDE DEF task
  <2>3. \A u \in TaskIds : cc'[u] = IF u = t THEN task ELSE cc[u]
    BY <1>1, <2>2
  <2> QED BY <1>3, <2>1, <2>3 DEF Forward, RunningStates, EndStates
<1>4. ASSUME NEW t \in TaskIds, StopTakesEffect(t)
      PROVE  Forward(cc')
  <2> DEFINE done(u) == [cc[u] EXCEPT !.state = "Completed"]
             fail(u) == [cc[u] EXCEPT !.state = "CompletedWithError"]
  <2>1. \A u \in TaskIds : /\ done(u).state = "Completed" /\ done(u).owner = cc[u].owner
                           /\ fail(u).state = "CompletedWithError"
                           /\ fail(u).owner = cc[u].owner
    BY <1>1 DEF UserTask
  <2>2. /\ cc[t].state = "Active"
        /\ cc' = [u \in TaskIds |-> CASE u = t -> done(t)
                                      [] cc[u].state = "InExecution" -> fail(u)
                                      [] OTHER -> cc[u]]
    BY <1>4 DEF StopTakesEffect
  <2> HIDE DEF done, fail
  <2>3. \A u \in TaskIds : \/ u = t /\ cc'[u] = done(u)
                           \/ cc[u].state = "InExecution" /\ cc'[u] = fail(u)
                           \/ cc'[u] = cc[u]
    BY <2>2
  <2> QED BY <2>1, <2>2, <2>3 DEF Forward, EndStates
<1>5. Forward(cc')
  BY <1>3, <1>4 DEF CruiseControl, StartExecution, Evict, EndTask
<1> QED BY <1>2, <1>5, ForwardRecords

\* The invariant holds at the start and is kept by every step.
LEMMA RecordInvariant == Spec => []RecordInv
<1>1. Init => RecordInv
  <2> SUFFICES ASSUME Init
               PROVE  RecordInv
    OBVIOUS
  <2>1. /\ \A o \in Ops : api[o] = Unborn /\ mem[o] = Unborn
        /\ pc = "idle" /\ dirty = {}
    BY DEF Init, NoMem
  <2>2. RecordsAreTrue
    BY <2>1, UnbornRecord, UnbornRecorded DEF RecordsAreTrue
  <2> QED BY <2>1, <2>2, UnbornRecord
      DEF RecordInv, ResultIsOwn, TargetIsDue, FreshLooksTheSame, PollingAdvances
<1>2. SerialInv /\ RecordInv /\ [Next]_vars => RecordInv'
  <2> SUFFICES ASSUME SerialInv, RecordInv, [Next]_vars
               PROVE  RecordInv'
    OBVIOUS
  <2>1. CASE UNCHANGED vars
    BY <2>1, AsideRecords DEF vars
  <2> QED BY <2>1, WorkerRecords, EnvironmentRecords, CruiseControlRecords DEF Next
<1> QED BY <1>1, <1>2, InductiveInvariant, PTL DEF Spec

-----------------------------------------------------------------------------
\* What updateResult calls ended, in CurrentTask or in the history of failed tasks, is a
\* task of that very object that Cruise Control no longer runs: a record is written some
\* steps after the poll or the answer it rests on, and tasks only go forward.
THEOREM RecordedEndIsRealHolds == Spec => []RecordedEndIsReal
<1>1. SerialInv /\ RecordInv => RecordedEndIsReal
  <2> SUFFICES ASSUME RecordInv, NEW o \in Ops,
                      NEW t \in {api[o].failed[i] : i \in 1..Len(api[o].failed)} \cup
                                (IF api[o].state \in EndStates THEN {api[o].id} \ {NoId}
                                                              ELSE {})
               PROVE  cc[t].owner = o /\ cc[t].state \notin RunningStates
    BY DEF RecordedEndIsReal
  <2>1. Recorded(cc, o, api[o])
    BY DEF RecordInv, RecordsAreTrue
  <2>2. CASE \E i \in 1..Len(api[o].failed) : t = api[o].failed[i]
    BY <2>1, <2>2 DEF Recorded, HistoryIsOwn, RunningStates, EndStates
  <2>3. CASE api[o].state \in EndStates /\ t = api[o].id /\ t # NoId
    BY <2>1, <2>3 DEF Recorded, TaskIsOwn, RunningStates, EndStates
  <2> QED BY <2>2, <2>3
<1> QED BY <1>1, InductiveInvariant, RecordInvariant, PTL

\* Each failed execution is counted once: updateResult pushes a task to the history
\* exactly when its retry is recorded, under an ID that is new, and forgets only the
\* oldest, whatever was polled, lost to a Conflict or restarted meanwhile.
THEOREM HistoryIsExactHolds == Spec => []HistoryIsExact
<1>1. RecordInv => HistoryIsExact
  BY DEF RecordInv, RecordsAreTrue, Recorded, HistoryCounts, HistoryIsExact
<1> QED BY <1>1, RecordInvariant, PTL
-----------------------------------------------------------------------------
(***************************************************************************)
(* The refinement: every step of CCOperation is a step of                  *)
(* OperationLifecycle on what one object shows, or changes nothing there.  *)
(***************************************************************************)

\* Only object o is written.
Writes(o) == \A p \in Ops \ {o} : api'[p] = api[p]

\* What an object shows, field by field, and with one field changed.
Shown(phase, set, policy, paused, deleting, state, retries) ==
  [ phase |-> phase, set |-> set, policy |-> policy, paused |-> paused,
    deleting |-> deleting, state |-> state, retries |-> retries ]

WithPhase(v, x) == [v EXCEPT !.phase = x]
WithSet(v, x) == [v EXCEPT !.set = x]
WithPolicy(v, x) == [v EXCEPT !.policy = x]
WithPaused(v, x) == [v EXCEPT !.paused = x]
WithDeleting(v, x) == [v EXCEPT !.deleting = x]
WithState(v, x) == [v EXCEPT !.state = x]
WithRetries(v, x) == [v EXCEPT !.retries = x]

\* The fields of View.
LEMMA ViewShown ==
  ASSUME NEW op
  PROVE  View(op) = Shown(op.phase, IsSet(op), op.policy, op.paused, op.deleting, op.state,
                          op.retries)
  BY DEF View, Shown, IsSet

\* The same, one by one.
LEMMA ShownFields ==
  ASSUME NEW op
  PROVE  /\ View(op).phase = op.phase /\ View(op).set = IsSet(op)
         /\ View(op).policy = op.policy /\ View(op).paused = op.paused
         /\ View(op).deleting = op.deleting /\ View(op).state = op.state
         /\ View(op).retries = op.retries
  BY DEF View, IsSet

\* What changing one of them does.
LEMMA ShownChanges ==
  \A a, b, c, d, e, f, g, x :
    /\ WithPhase(Shown(a, b, c, d, e, f, g), x) = Shown(x, b, c, d, e, f, g)
    /\ WithSet(Shown(a, b, c, d, e, f, g), x) = Shown(a, x, c, d, e, f, g)
    /\ WithPolicy(Shown(a, b, c, d, e, f, g), x) = Shown(a, b, x, d, e, f, g)
    /\ WithPaused(Shown(a, b, c, d, e, f, g), x) = Shown(a, b, c, x, e, f, g)
    /\ WithDeleting(Shown(a, b, c, d, e, f, g), x) = Shown(a, b, c, d, x, f, g)
    /\ WithState(Shown(a, b, c, d, e, f, g), x) = Shown(a, b, c, d, e, x, g)
    /\ WithRetries(Shown(a, b, c, d, e, f, g), x) = Shown(a, b, c, d, e, f, x)
  BY DEF Shown, WithPhase, WithSet, WithPolicy, WithPaused, WithDeleting, WithState,
         WithRetries

\* The objects look as before.
LEMMA NothingShows ==
  ASSUME NEW a, NEW b, b.phase = a.phase, b.state = a.state, LooksTheSame(b, a)
  PROVE  View(b) = View(a)
  BY ViewShown DEF LooksTheSame

\* What the abstract specification sees of a write is what the object shows then.
LEMMA BecomesView ==
  ASSUME NEW o \in Ops, Writes(o)
  PROVE  Lifecycle!Becomes(o, View(api'[o]))
  BY DEF Writes, Lifecycle!Becomes

\* The abstract steps, as conditions on the object that is written; Edit first.
LEMMA EditStep ==
  ASSUME SerialInv', NEW o \in Ops, Writes(o), api[o].phase = "live", api'[o].phase = "live",
         api'[o].state = api[o].state, api'[o].retries = api[o].retries,
         IsSet(api'[o]) = IsSet(api[o]), api[o].deleting => api'[o].deleting
  PROVE  Lifecycle!Edit(o)
<1> DEFINE a == api[o]
           b == api'[o]
<1>1. b.policy \in Policies /\ b.paused \in BOOLEAN /\ b.deleting \in BOOLEAN
  <2>1. b \in Object
    BY DEF SerialInv, TypeOK, Object
  <2> QED BY <2>1, ObjectFields
<1>2. View(b) = [View(a) EXCEPT !.policy = b.policy, !.paused = b.paused,
                                !.deleting = b.deleting]
  <2> HIDE DEF a, b
  <2>1. View(a) = Shown(a.phase, IsSet(a), a.policy, a.paused, a.deleting, a.state, a.retries)
    BY ViewShown
  <2>2. View(b) = Shown(a.phase, IsSet(a), b.policy, b.paused, b.deleting, a.state, a.retries)
    BY ViewShown DEF a, b
  <2>3. View(b) = WithDeleting(WithPaused(WithPolicy(View(a), b.policy), b.paused), b.deleting)
    BY <2>1, <2>2, ShownChanges
  <2> QED BY <2>3 DEF WithDeleting, WithPaused, WithPolicy
<1>3. View(a).phase = "live" /\ View(a).deleting = a.deleting
  BY ShownFields
<1>4. Lifecycle!Becomes(o, View(b))
  BY BecomesView
<1> QED BY <1>1, <1>2, <1>3, <1>4 DEF Lifecycle!Edit, Lifecycle!Policies, Policies

\* Remove: the object disappears.
LEMMA RemoveStep ==
  ASSUME SerialInv', NEW o \in Ops, Writes(o), api[o].phase = "live", api'[o].phase = "gone",
         api'[o].state = api[o].state, api'[o].retries = api[o].retries,
         api'[o].policy = api[o].policy, api'[o].paused = api[o].paused,
         IsSet(api'[o]) = IsSet(api[o])
  PROVE  Lifecycle!Remove(o)
<1> DEFINE a == api[o]
           b == api'[o]
<1>1. b.deleting \in BOOLEAN
  <2>1. b \in Object
    BY DEF SerialInv, TypeOK, Object
  <2> QED BY <2>1, ObjectFields
<1>2. View(b) = [View(a) EXCEPT !.phase = "gone", !.deleting = b.deleting]
  <2> HIDE DEF a, b
  <2>1. View(a) = Shown(a.phase, IsSet(a), a.policy, a.paused, a.deleting, a.state, a.retries)
    BY ViewShown
  <2>2. View(b) = Shown("gone", IsSet(a), a.policy, a.paused, b.deleting, a.state, a.retries)
    BY ViewShown DEF a, b
  <2>3. View(b) = WithDeleting(WithPhase(View(a), "gone"), b.deleting)
    BY <2>1, <2>2, ShownChanges
  <2> QED BY <2>3 DEF WithDeleting, WithPhase
<1>3. View(a).phase = "live"
  BY ShownFields
<1>4. Lifecycle!Becomes(o, View(b))
  BY BecomesView
<1> QED BY <1>1, <1>2, <1>3, <1>4 DEF Lifecycle!Remove

\* Create: the object appears without a status.
LEMMA CreateStep ==
  ASSUME NEW o \in Ops, Writes(o), api[o].phase = "unborn", NEW policy \in Policies,
         api'[o].phase = "live", api'[o].policy = policy,
         IsSet(api'[o]) = IsSet(Unborn), api'[o].paused = Unborn.paused,
         api'[o].deleting = Unborn.deleting, api'[o].state = Unborn.state,
         api'[o].retries = Unborn.retries
  PROVE  \E p \in Lifecycle!Policies : Lifecycle!Create(o, p)
<1> DEFINE b == api'[o]
<1>1. View(b) = [View(Unborn) EXCEPT !.phase = "live", !.policy = policy]
  <2> DEFINE u == Unborn
  <2> HIDE DEF b, u
  <2>1. View(u) = Shown(u.phase, IsSet(u), u.policy, u.paused, u.deleting, u.state, u.retries)
    BY ViewShown
  <2>2. View(b) = Shown(b.phase, IsSet(u), policy, u.paused, u.deleting, u.state, u.retries)
    BY ViewShown DEF b, u
  <2>3. View(b) = WithPolicy(WithPhase(View(u), b.phase), policy)
    BY <2>1, <2>2, ShownChanges
  <2> QED BY <2>3 DEF WithPolicy, WithPhase, b, u
<1>2. Lifecycle!View(Lifecycle!Unborn) = View(Unborn)
  BY DEF Lifecycle!View, Lifecycle!Unborn, View, Unborn, Lifecycle!NoId, NoId
<1>3. View(api[o]).phase = "unborn"
  BY ShownFields
<1>4. Lifecycle!Becomes(o, View(b))
  BY BecomesView
<1>5. policy \in Lifecycle!Policies
  BY DEF Policies, Lifecycle!Policies
<1> QED BY <1>1, <1>2, <1>3, <1>4, <1>5 DEF Lifecycle!Create

\* SetTask: CurrentTask is filled in.
LEMMA SetTaskStep ==
  ASSUME NEW o \in Ops, Writes(o), api[o].phase = "live", ~IsSet(api[o]), IsSet(api'[o]),
         api'[o].phase = api[o].phase, api'[o].policy = api[o].policy,
         api'[o].paused = api[o].paused, api'[o].deleting = api[o].deleting,
         api'[o].state = api[o].state, api'[o].retries = api[o].retries
  PROVE  Lifecycle!SetTask(o)
<1> DEFINE a == api[o]
           b == api'[o]
<1>1. View(b) = [View(a) EXCEPT !.set = TRUE]
  <2> DEFINE yes == TRUE
  <2> HIDE DEF a, b
  <2>1. View(a) = Shown(a.phase, IsSet(a), a.policy, a.paused, a.deleting, a.state, a.retries)
    BY ViewShown
  <2>2. View(b) = Shown(a.phase, IsSet(b), a.policy, a.paused, a.deleting, a.state, a.retries)
    BY ViewShown DEF a, b
  <2>3. IsSet(b) = yes
    BY DEF b, IsSet
  <2> HIDE DEF yes
  <2>4. View(b) = WithSet(View(a), yes)
    BY <2>1, <2>2, <2>3, ShownChanges
  <2> QED BY <2>4 DEF WithSet, yes
<1>2. View(a).phase = "live" /\ View(a).set = IsSet(a)
  BY ShownFields
<1>3. Lifecycle!Becomes(o, View(b))
  BY BecomesView
<1> QED BY <1>1, <1>2, <1>3 DEF Lifecycle!SetTask

\* Only the state of the task changes.
LEMMA StateShows ==
  ASSUME NEW a, NEW b, b.phase = a.phase, LooksTheSame(b, a)
  PROVE  View(b) = [View(a) EXCEPT !.state = b.state]
<1>1. View(a) = Shown(a.phase, IsSet(a), a.policy, a.paused, a.deleting, a.state, a.retries)
  BY ViewShown
<1>2. View(b) = Shown(a.phase, IsSet(a), a.policy, a.paused, a.deleting, b.state, a.retries)
  BY ViewShown DEF LooksTheSame
<1>3. View(b) = WithState(View(a), b.state)
  BY <1>1, <1>2, ShownChanges
<1> QED BY <1>3 DEF WithState

\* ... and the failure before it is counted.
LEMMA RetryShows ==
  ASSUME NEW a, NEW b, b.phase = a.phase, IsSet(b) = IsSet(a), b.policy = a.policy,
         b.paused = a.paused, b.deleting = a.deleting, b.retries = a.retries + 1
  PROVE  View(b) = [View(a) EXCEPT !.state = b.state, !.retries = @ + 1]
<1>1. View(a) = Shown(a.phase, IsSet(a), a.policy, a.paused, a.deleting, a.state, a.retries)
  BY ViewShown
<1>2. View(b) = Shown(a.phase, IsSet(a), a.policy, a.paused, a.deleting, b.state,
                      a.retries + 1)
  BY ViewShown
<1>3. View(a).retries = a.retries
  BY ShownFields
<1>4. View(b) = WithRetries(WithState(View(a), b.state), View(a).retries + 1)
  BY <1>1, <1>2, <1>3, ShownChanges
<1> QED BY <1>4 DEF WithRetries, WithState
\* Progress: the running task goes forward.
LEMMA ProgressStep ==
  ASSUME NEW o \in Ops, Writes(o), api[o].phase = "live", api'[o].phase = "live",
         LooksTheSame(api'[o], api[o]), api[o].state \in RunningStates,
         api'[o].state \in {"InExecution"} \cup EndStates
  PROVE  Lifecycle!Progress(o)
<1>1. View(api'[o]) = [View(api[o]) EXCEPT !.state = api'[o].state]
  BY StateShows
<1>2. View(api[o]).phase = "live" /\ View(api[o]).state = api[o].state
  BY ShownFields
<1>3. Lifecycle!Becomes(o, View(api'[o]))
  BY BecomesView
<1> QED BY <1>1, <1>2, <1>3
    DEF Lifecycle!Progress, Lifecycle!RunningStates, Lifecycle!EndStates, RunningStates,
        EndStates

\* FirstExecution: the task starts, or fails at once.
LEMMA FirstExecutionStep ==
  ASSUME NEW o \in Ops, Writes(o), api[o].phase = "live", api'[o].phase = "live",
         LooksTheSame(api'[o], api[o]), IsSet(api[o]), api[o].state = "",
         api'[o].state \in {"Active", "CompletedWithError"}
  PROVE  Lifecycle!FirstExecution(o)
<1>1. View(api'[o]) = [View(api[o]) EXCEPT !.state = api'[o].state]
  BY StateShows
<1>2. /\ View(api[o]).phase = "live" /\ View(api[o]).state = ""
      /\ View(api[o]).set = IsSet(api[o])
  BY ShownFields
<1>3. Lifecycle!Becomes(o, View(api'[o]))
  BY BecomesView
<1> QED BY <1>1, <1>2, <1>3 DEF Lifecycle!FirstExecution, Lifecycle!Begun

\* StopExecution: stop_execution takes the place of a running task.
LEMMA StopExecutionStep ==
  ASSUME NEW o \in Ops, Writes(o), api[o].phase = "live", api'[o].phase = "live",
         LooksTheSame(api'[o], api[o]), api[o].deleting, api[o].state \in RunningStates,
         api'[o].state \in {"Active", "CompletedWithError"}
  PROVE  Lifecycle!StopExecution(o)
<1>1. View(api'[o]) = [View(api[o]) EXCEPT !.state = api'[o].state]
  BY StateShows
<1>2. /\ View(api[o]).phase = "live" /\ View(api[o]).state = api[o].state
      /\ View(api[o]).deleting = api[o].deleting
  BY ShownFields
<1>3. Lifecycle!Becomes(o, View(api'[o]))
  BY BecomesView
<1> QED BY <1>1, <1>2, <1>3
    DEF Lifecycle!StopExecution, Lifecycle!Begun, Lifecycle!RunningStates, RunningStates

\* RetryExecution: a failed task runs again.
LEMMA RetryExecutionStep ==
  ASSUME NEW o \in Ops, Writes(o), api[o].phase = "live", api'[o].phase = api[o].phase,
         IsSet(api'[o]) = IsSet(api[o]), api'[o].policy = api[o].policy,
         api'[o].paused = api[o].paused, api'[o].deleting = api[o].deleting,
         api'[o].retries = api[o].retries + 1, api[o].state = "CompletedWithError",
         api[o].policy = "retry", ~api[o].paused,
         api'[o].state \in {"Active", "CompletedWithError"}
  PROVE  Lifecycle!RetryExecution(o)
<1>1. View(api'[o]) = [View(api[o]) EXCEPT !.state = api'[o].state, !.retries = @ + 1]
  BY RetryShows
<1>2. /\ View(api[o]).phase = "live" /\ View(api[o]).state = "CompletedWithError"
      /\ View(api[o]).policy = "retry" /\ View(api[o]).paused = api[o].paused
  BY ShownFields
<1>3. Lifecycle!Becomes(o, View(api'[o]))
  BY BecomesView
<1> QED BY <1>1, <1>2, <1>3 DEF Lifecycle!RetryExecution, Lifecycle!Begun

-----------------------------------------------------------------------------
\* A step that shows nothing, or one of the abstract steps.
Allowed ==
  \/ \A p \in Ops : View(api'[p]) = View(api[p])
  \/ Lifecycle!LifecycleNext

\* A polled status goes forward from what the object still shows.
LEMMA UpdateTaskStatusAllowed ==
  ASSUME SerialInv, RecordInv, NEW o \in Ops, UpdateTaskStatus(o)
  PROVE  Allowed
<1>1. CASE UNCHANGED apiVars
  BY <1>1 DEF Allowed, apiVars
<1>2. CASE Writable(o) /\ Store(o, mem[o])
  <2>1. api' = [api EXCEPT ![o] = mem[o]] /\ api \in [Ops -> Object]
    BY <1>2 DEF Store, SerialInv, TypeOK, Object
  <2>2. api'[o] = mem[o] /\ Writes(o) /\ \A p \in Ops \ {o} : api'[p] = api[p]
    BY <2>1 DEF Writes
  <2>3. api[o].phase = "live" /\ o \notin stale /\ o \in dirty /\ mem[o].phase = "live"
    BY <1>2 DEF Writable, UpdateTaskStatus, SerialInv, DirtyIsListed
  <2>4. LooksTheSame(mem[o], api[o]) /\ Advanced(mem[o].state, api[o].state)
    BY <2>3 DEF RecordInv, FreshLooksTheSame, PollingAdvances
  <2>5. CASE mem[o].state = api[o].state
    <3>1. View(mem[o]) = View(api[o])
      BY <2>3, <2>4, <2>5, NothingShows
    <3> QED BY <2>2, <3>1 DEF Allowed
  <2>6. CASE mem[o].state # api[o].state
    <3>1. Lifecycle!Progress(o)
      BY <2>2, <2>3, <2>4, <2>6, ProgressStep DEF Advanced
    <3> QED BY <3>1 DEF Allowed, Lifecycle!LifecycleNext
  <2> QED BY <2>5, <2>6
<1> QED BY <1>1, <1>2 DEF UpdateTaskStatus

\* The answer is recorded on an object that still asks for the execution.
LEMMA WriteResultAllowed ==
  ASSUME SerialInv, RecordInv, WriteResult
  PROVE  Allowed
<1>1. pc = "write" /\ target \in Ops /\ mem[target] \in Object
  BY DEF WriteResult, SerialInv, TypeOK, Object
<1>2. CASE UNCHANGED apiVars
  BY <1>2 DEF Allowed, apiVars
<1> DEFINE m == mem[target]
           new == AfterExecution(m, result)
<1>3. CASE Writable(target) /\ Store(target, new) /\ ~Unparsable(m, result)
  <2>1. api' = [api EXCEPT ![target] = new] /\ api \in [Ops -> Object]
    BY <1>3 DEF Store, SerialInv, TypeOK, Object
  <2>2. api'[target] = new /\ Writes(target)
    BY <1>1, <2>1 DEF Writes
  <2>3. /\ api[target].phase = "live" /\ m.phase = "live" /\ target \notin stale
        /\ target \notin dirty /\ IsCurrentTaskOperationValid(m)
    BY <1>1, <1>3 DEF Writable, SerialInv, DirtyIsListed, TargetIsReady
  <2>4. LooksTheSame(m, api[target])
    BY <1>1, <2>3 DEF RecordInv, FreshLooksTheSame
  <2>5. api[target].state = m.state
    BY <1>1, <2>3 DEF SerialInv, SnapshotInSync
  <2>6. IsSet(m)
    BY <2>3 DEF IsSet, IsCurrentTaskOperationValid, ValidOperations, Kinds
  <2>7. Archived(m, result).state # "" \/ result.dated
    BY <1>3 DEF Unparsable
  <2>8. \/ result.state \in {"Active", "CompletedWithError"}
        \/ result.state = "Completed" /\ ~result.dated /\ m.operation = "remove_disks"
    BY <1>1 DEF RecordInv, ResultIsOwn
  <2>9. CASE m.state = "CompletedWithError"
    <3>1. m.finished /\ m.policy = "retry" /\ ~m.paused
      BY <1>1, <2>9 DEF RecordInv, TargetIsDue, RunningStates
    <3>2. /\ new.state = result.state /\ new.retries = m.retries + 1
          /\ new.phase = m.phase /\ new.operation = m.operation
          /\ new.policy = m.policy /\ new.paused = m.paused
          /\ new.deleting = m.deleting /\ Archived(m, result).state = ""
      BY <1>1, <2>9, <3>1, RetryFields
    <3> HIDE DEF m, new
    <3>3. IsSet(new) = IsSet(m)
      BY <3>2 DEF IsSet
    <3>4. new.state \in {"Active", "CompletedWithError"}
      BY <2>7, <2>8, <3>2
    <3>5. Lifecycle!RetryExecution(target)
      BY <1>1, <2>2, <2>3, <2>4, <2>5, <2>9, <3>1, <3>2, <3>3, <3>4, RetryExecutionStep
      DEF LooksTheSame
    <3> QED BY <1>1, <3>5 DEF Allowed, Lifecycle!LifecycleNext
  <2>10. CASE m.state # "CompletedWithError"
    <3>1. /\ new.state = result.state /\ new.retries = m.retries
          /\ new.phase = m.phase /\ new.operation = m.operation
          /\ new.policy = m.policy /\ new.paused = m.paused
          /\ new.deleting = m.deleting /\ Archived(m, result).state = m.state
      BY <1>1, <2>10, ExecutionFields
    <3>2. m.state = "" \/ (m.state \in RunningStates /\ m.deleting
                            /\ m.operation = "stop_execution")
      BY <1>1, <2>10 DEF RecordInv, TargetIsDue
    <3> HIDE DEF m, new
    <3>3. LooksTheSame(new, api[target])
      BY <2>4, <3>1 DEF LooksTheSame, IsSet
    <3>4. new.state \in {"Active", "CompletedWithError"}
      BY <2>7, <2>8, <3>1, <3>2
    <3>5. CASE m.state = ""
      <4>1. IsSet(api[target])
        BY <2>4, <2>6 DEF LooksTheSame
      <4>2. Lifecycle!FirstExecution(target)
        BY <1>1, <2>2, <2>3, <2>5, <3>1, <3>3, <3>4, <3>5, <4>1, FirstExecutionStep
      <4> QED BY <1>1, <4>2 DEF Allowed, Lifecycle!LifecycleNext
    <3>6. CASE m.state \in RunningStates /\ m.deleting
      <4>1. api[target].deleting
        BY <2>4, <3>6 DEF LooksTheSame
      <4>2. Lifecycle!StopExecution(target)
        BY <1>1, <2>2, <2>3, <2>5, <3>1, <3>3, <3>4, <3>6, <4>1, StopExecutionStep
      <4> QED BY <1>1, <4>2 DEF Allowed, Lifecycle!LifecycleNext
    <3> QED BY <3>2, <3>5, <3>6
  <2> QED BY <2>9, <2>10
<1> QED BY <1>2, <1>3 DEF WriteResult
\* The finalizer does not show; without it a deleted object goes away.
LEMMA FinalizersAllowed ==
  ASSUME SerialInv, SerialInv', RemoveFinalizer \/ AddFinalizer
  PROVE  Allowed
<1>1. cur \in Ops /\ api \in [Ops -> Object] /\ api[cur] \in Object
  BY DEF SerialInv, TypeOK, Object, RemoveFinalizer, AddFinalizer
<1>2. CASE UNCHANGED apiVars
  BY <1>2 DEF Allowed, apiVars
<1>3. CASE Store(cur, [api[cur] EXCEPT !.finalizer = TRUE])
  <2> DEFINE new == [api[cur] EXCEPT !.finalizer = TRUE]
  <2>1. /\ SameRecord(new, api[cur]) /\ new.phase = api[cur].phase
        /\ new.operation = api[cur].operation /\ new.policy = api[cur].policy
        /\ new.paused = api[cur].paused /\ new.deleting = api[cur].deleting
    BY <1>1, FinalizerFields
  <2>2. \A p \in Ops : api'[p] = IF p = cur THEN new ELSE api[p]
    BY <1>1, <1>3 DEF Store
  <2> HIDE DEF new
  <2>3. LooksTheSame(new, api[cur]) /\ new.state = api[cur].state
    BY <2>1 DEF LooksTheSame, SameRecord, IsSet
  <2>4. View(new) = View(api[cur])
    BY <2>1, <2>3, NothingShows
  <2> QED BY <2>2, <2>4 DEF Allowed
<1>4. CASE Writable(cur) /\ Store(cur, WithoutFinalizer(api[cur]))
  <2> DEFINE new == WithoutFinalizer(api[cur])
  <2>1. /\ SameRecord(new, api[cur])
        /\ new.phase = IF api[cur].deleting THEN "gone" ELSE api[cur].phase
        /\ new.operation = api[cur].operation /\ new.policy = api[cur].policy
        /\ new.paused = api[cur].paused /\ new.deleting = api[cur].deleting
    BY <1>1, WithoutFinalizerFields
  <2>2. \A p \in Ops : api'[p] = IF p = cur THEN new ELSE api[p]
    BY <1>1, <1>4 DEF Store
  <2> HIDE DEF new
  <2>3. api'[cur] = new /\ Writes(cur) /\ api[cur].phase = "live"
    BY <1>1, <1>4, <2>2 DEF Writes, Writable
  <2>4. LooksTheSame(new, api[cur]) /\ new.state = api[cur].state
    BY <2>1 DEF LooksTheSame, SameRecord, IsSet
  <2>5. CASE new.phase = api[cur].phase
    <3>1. View(new) = View(api[cur])
      BY <2>4, <2>5, NothingShows
    <3> QED BY <2>2, <3>1 DEF Allowed
  <2>6. CASE new.phase = "gone"
    <3>1. Lifecycle!Remove(cur)
      BY <1>1, <2>3, <2>4, <2>6, RemoveStep DEF LooksTheSame
    <3> QED BY <1>1, <3>1 DEF Allowed, Lifecycle!LifecycleNext
  <2> QED BY <2>1, <2>5, <2>6
<1> QED BY <1>2, <1>3, <1>4 DEF RemoveFinalizer, AddFinalizer

\* Labels, policies and deletions are edits, whoever writes them.
LEMMA EditsAllowed ==
  ASSUME SerialInv, SerialInv', NEW o \in Ops, NEW new, api' = [api EXCEPT ![o] = new],
         api[o].phase = "live", new.operation = api[o].operation, SameRecord(new, api[o]),
         \/ new.phase = "live" /\ (api[o].deleting => new.deleting)
         \/ new.phase = "gone" /\ new.policy = api[o].policy /\ new.paused = api[o].paused
  PROVE  Allowed
<1>1. \A p \in Ops : api'[p] = IF p = o THEN new ELSE api[p]
  BY DEF SerialInv, TypeOK
<1>2. api'[o] = new /\ Writes(o)
  BY <1>1 DEF Writes
<1>3. new.state = api[o].state /\ new.retries = api[o].retries /\ IsSet(new) = IsSet(api[o])
  BY DEF SameRecord, IsSet
<1>4. CASE new.phase = "live" /\ (api[o].deleting => new.deleting)
  <2>1. Lifecycle!Edit(o)
    BY <1>2, <1>3, <1>4, EditStep
  <2> QED BY <2>1 DEF Allowed, Lifecycle!LifecycleNext
<1>5. CASE new.phase = "gone" /\ new.policy = api[o].policy /\ new.paused = api[o].paused
  <2>1. Lifecycle!Remove(o)
    BY <1>2, <1>3, <1>5, RemoveStep
  <2> QED BY <2>1 DEF Allowed, Lifecycle!LifecycleNext
<1> QED BY <1>4, <1>5

\* Pausing a failed operation is an edit.
LEMMA PauseRetryAllowed ==
  ASSUME SerialInv, SerialInv', PauseRetry
  PROVE  Allowed
<1>1. CASE UNCHANGED apiVars
  BY <1>1 DEF Allowed, apiVars
<1>2. ASSUME NEW r \in Ops, Writable(r), Store(r, [api[r] EXCEPT !.paused = TRUE])
      PROVE  Allowed
  <2> DEFINE new == [api[r] EXCEPT !.paused = TRUE]
  <2>1. /\ SameRecord(new, api[r]) /\ new.phase = api[r].phase
        /\ new.operation = api[r].operation /\ new.deleting = api[r].deleting
    <3>1. api[r] \in Object
      BY DEF SerialInv, TypeOK, Object
    <3> QED BY <3>1, PausedFields
  <2>2. api' = [api EXCEPT ![r] = new] /\ api[r].phase = "live"
    BY <1>2 DEF Store, Writable
  <2> HIDE DEF new
  <2> QED BY <2>1, <2>2, EditsAllowed
<1> QED BY <1>1, <1>2 DEF PauseRetry

\* The other actors create, fill in, edit and delete.
LEMMA EnvironmentAllowed ==
  ASSUME SerialInv, SerialInv', Environment
  PROVE  Allowed
<1>1. api \in [Ops -> Object]
  BY DEF SerialInv, TypeOK, Object
<1>2. ASSUME NEW o \in Ops, CreateOperation(o)
      PROVE  Allowed
  <2> DEFINE new == [Unborn EXCEPT !.phase = "live", !.policy = PolicyOf[o]]
  <2>1. /\ new.phase = "live" /\ new.operation = "" /\ new.policy = PolicyOf[o]
        /\ new.paused = Unborn.paused /\ new.deleting = Unborn.deleting
        /\ new.state = Unborn.state /\ new.retries = Unborn.retries
    BY DEF Unborn
  <2>2. api' = [api EXCEPT ![o] = new] /\ api[o].phase = "unborn"
    BY <1>2 DEF CreateOperation, ExternalWrite, Store
  <2> HIDE DEF new
  <2>3. api'[o] = new /\ Writes(o) /\ PolicyOf[o] \in Policies
    BY <1>1, <2>2, PolicyOfAssumption DEF Writes
  <2>4. IsSet(new) = IsSet(Unborn)
    BY <2>1, UnbornRecord DEF IsSet
  <2>5. \E p \in Lifecycle!Policies : Lifecycle!Create(o, p)
    BY <2>1, <2>2, <2>3, <2>4, CreateStep
  <2> QED BY <2>5 DEF Allowed, Lifecycle!LifecycleNext
<1>3. ASSUME NEW o \in Ops, SetCurrentTask(o)
      PROVE  Allowed
  <2> DEFINE new == [api[o] EXCEPT !.operation = KindOf[o]]
  <2>1. /\ SameRecord(new, api[o]) /\ new.phase = api[o].phase
        /\ new.operation = KindOf[o] /\ new.policy = api[o].policy
        /\ new.paused = api[o].paused /\ new.deleting = api[o].deleting
    BY <1>1, SetFields
  <2>2. api' = [api EXCEPT ![o] = new] /\ api[o].phase = "live" /\ api[o].operation = ""
    BY <1>3 DEF SetCurrentTask, ExternalWrite, Store
  <2> HIDE DEF new
  <2>3. api'[o] = new /\ Writes(o) /\ KindOf[o] \in Kinds
    BY <1>1, <2>2, KindOfAssumption DEF Writes
  <2>4. IsSet(new) /\ ~IsSet(api[o])
    BY <2>1, <2>2, <2>3 DEF IsSet, Kinds
  <2>5. Lifecycle!SetTask(o)
    BY <2>1, <2>2, <2>3, <2>4, SetTaskStep DEF SameRecord
  <2> QED BY <2>5 DEF Allowed, Lifecycle!LifecycleNext
<1>4. ASSUME NEW o \in Ops, TogglePause(o)
      PROVE  Allowed
  <2> DEFINE new == [api[o] EXCEPT !.paused = ~api[o].paused]
  <2>1. /\ SameRecord(new, api[o]) /\ new.phase = api[o].phase
        /\ new.operation = api[o].operation /\ new.deleting = api[o].deleting
    BY <1>1, PausedFields
  <2>2. api' = [api EXCEPT ![o] = new] /\ api[o].phase = "live"
    BY <1>4 DEF TogglePause, UserEdit, ExternalWrite, Store
  <2> HIDE DEF new
  <2> QED BY <2>1, <2>2, EditsAllowed
<1>5. ASSUME NEW o \in Ops, EditErrorPolicy(o)
      PROVE  Allowed
  <2> DEFINE v == IF api[o].policy = "retry" THEN "ignore" ELSE "retry"
             new == [api[o] EXCEPT !.policy = v]
  <2>1. /\ SameRecord(new, api[o]) /\ new.phase = api[o].phase
        /\ new.operation = api[o].operation /\ new.deleting = api[o].deleting
    BY <1>1, PolicyFields
  <2>2. api' = [api EXCEPT ![o] = new] /\ api[o].phase = "live"
    BY <1>5 DEF EditErrorPolicy, UserEdit, ExternalWrite, Store
  <2> HIDE DEF new
  <2> QED BY <2>1, <2>2, EditsAllowed
<1>6. ASSUME NEW o \in Ops, api' = [api EXCEPT ![o] = Deleted(api[o])], api[o].phase = "live"
      PROVE  Allowed
  <2> DEFINE new == Deleted(api[o])
  <2>1. /\ SameRecord(new, api[o]) /\ new.operation = api[o].operation
        /\ new.policy = api[o].policy /\ new.paused = api[o].paused
        /\ \/ new.phase = api[o].phase /\ new.deleting = TRUE
           \/ new.phase = "gone" /\ new.deleting = api[o].deleting
    BY <1>1, DeletedFields
  <2>2. api' = [api EXCEPT ![o] = new]
    BY <1>6
  <2> HIDE DEF new
  <2> QED BY <1>6, <2>1, <2>2, EditsAllowed
<1>7. ASSUME NEW o \in Ops, DeleteOperation(o) \/ CollectGarbage(o) \/ TTLReconcile(o)
      PROVE  Allowed
  <2>1. api' = api \/ (api[o].phase = "live" /\ api' = [api EXCEPT ![o] = Deleted(api[o])])
    BY <1>7 DEF DeleteOperation, UserEdit, CollectGarbage, TTLReconcile, ExternalWrite, Store
  <2> QED BY <1>6, <2>1 DEF Allowed
<1>8. CASE DeleteCluster \/ Restart \/ \E o \in Ops : BackoffElapses(o)
  BY <1>8 DEF DeleteCluster, Restart, BackoffElapses, apiVars, Allowed
<1> QED BY <1>2, <1>3, <1>4, <1>5, <1>7, <1>8 DEF Environment

\* Nobody else writes an object.
LEMMA StepAllowed ==
  ASSUME SerialInv, RecordInv, SerialInv', [Next]_vars
  PROVE  Allowed
<1>1. CASE api' = api
  BY <1>1 DEF Allowed
<1>2. CASE Worker
  <2>1. \/ api' = api
        \/ RemoveFinalizer \/ AddFinalizer \/ PauseRetry \/ WriteResult
        \/ \E o \in Ops : UpdateTaskStatus(o)
    BY <1>2 DEF Worker, ListOperations, GetStatus, ExecuteOperation, GetStatusFails,
                UpdateCurrentTasks, UserTasksFails, SelectOperation, apiVars
  <2> QED BY <1>1, <2>1, FinalizersAllowed, PauseRetryAllowed, WriteResultAllowed,
             UpdateTaskStatusAllowed
<1>3. CASE Environment
  BY <1>3, EnvironmentAllowed
<1>4. CASE CruiseControl \/ UNCHANGED vars
  <2>1. api' = api
    BY <1>4 DEF CruiseControl, StartExecution, StopTakesEffect, Evict, EndTask, SetTaskState,
                apiVars, vars
  <2> QED BY <1>1, <2>1
<1> QED BY <1>2, <1>3, <1>4 DEF Next

\* Seen by the other controllers, an operation follows OperationLifecycle, although each
\* decision of Reconcile rests on a snapshot that users, the TTL controller and the
\* garbage collector may have outdated: a retry is recorded only while the object still
\* asks for it, a stop only on a deletion, and ended tasks stay ended.
THEOREM ImplementsLifecycleHolds == Spec => ImplementsLifecycle
<1>1. Init => Lifecycle!LifecycleInit
  <2> SUFFICES ASSUME Init
               PROVE  Lifecycle!LifecycleInit
    OBVIOUS
  <2>1. \A o \in Ops : api[o] = Unborn
    BY DEF Init, NoMem
  <2>2. Lifecycle!View(Lifecycle!Unborn) = View(Unborn)
    BY DEF Lifecycle!View, Lifecycle!Unborn, View, Unborn, Lifecycle!NoId, NoId
  <2> QED BY <2>1, <2>2 DEF Lifecycle!LifecycleInit
<1>2. SerialInv /\ RecordInv /\ SerialInv' /\ [Next]_vars
        => [Lifecycle!LifecycleNext]_([o \in Ops |-> View(api[o])])
  <2> SUFFICES ASSUME SerialInv, RecordInv, SerialInv', [Next]_vars
               PROVE  [Lifecycle!LifecycleNext]_([o \in Ops |-> View(api[o])])
    OBVIOUS
  <2>1. CASE \A p \in Ops : View(api'[p]) = View(api[p])
    <3>1. [o \in Ops |-> View(api'[o])] = [o \in Ops |-> View(api[o])]
      BY <2>1
    <3> QED BY <3>1
  <2> QED BY <2>1, StepAllowed DEF Allowed
<1> QED BY <1>1, <1>2, InductiveInvariant, RecordInvariant, PTL
    DEF Spec, ImplementsLifecycle, Lifecycle!LifecycleSpec
=============================================================================
