--------------------------- MODULE GracefulAction ---------------------------
(***************************************************************************)
(* Brokers join and leave the Kafka cluster.                               *)
(*                                                                         *)
(* Two controllers share the status of the KafkaCluster resource, under    *)
(* optimistic concurrency.  The KafkaCluster controller (kafka) creates    *)
(* the pods of new brokers, marks the brokers that left the spec for       *)
(* downscale and, once they are drained, deletes what belongs to them.     *)
(* The CruiseControlTask controller (task) turns the required actions      *)
(* into CruiseControlOperations and copies their outcome back into the     *)
(* status.  The operations live as OperationLifecycle allows and, as       *)
(* CCOperationProofs shows, one runs at a time.                            *)
(*                                                                         *)
(* Left out: volumes, rolling upgrades (a pod is replaced by Evict),       *)
(* KRaft's controller-only nodes, deletion of the KafkaCluster, and the    *)
(* status fields other than the graceful action state.                     *)
(***************************************************************************)
EXTENDS Naturals, FiniteSets

CONSTANTS
  Brokers,       \* every broker ID the user may write in the spec
  OpIds,         \* the CruiseControlOperations that can be created, as numbers
  Scenes         \* the clusters to start from and what may happen to them

Disturbances ==
  {"edits", "headless", "evictions", "errors", "opEdits", "failures", "topic"}

\* The brokers of the cluster at the start, all of them settled, and
\* Spec.HeadlessServiceEnabled; the brokers the user may add and remove, and how
\* often each kind of disturbance may still happen.
Scene ==
  [ init : SUBSET Brokers, headless : BOOLEAN, joining : SUBSET Brokers,
    leaving : SUBSET Brokers, budget : [Disturbances -> Nat] ]

ASSUME InstanceAssumption ==
  /\ OpIds \subseteq Nat \ {0} /\ IsFiniteSet(OpIds)
  /\ Scenes \subseteq Scene

VARIABLES
  spec,          \* KafkaCluster.Spec: the brokers, HeadlessServiceEnabled
  status,        \* KafkaCluster.Status.BrokersState: the graceful action states
  topicReady,    \* Status.CruiseControlTopicStatus = CruiseControlTopicReady
  pods,          \* the broker pods in the API server
  objects,       \* the config map, service and volume claim of every broker
  ops,           \* the CruiseControlOperations, as OperationLifecycle sees them
  work,          \* what each operation asks of Cruise Control
  kafka, task,   \* the workers of the two controllers
  wakeK, wakeT,  \* a request for the worker is in its queue
  alive,         \* the brokers that are up: they answer, Cruise Control sees them
  holds,         \* the brokers that hold partitions of the cluster
  scene          \* the scene, with the disturbances that are left

apiVars == <<spec, status, topicReady, pods, objects>>
opVars == <<ops, work>>
envVars == <<alive, holds>>
vars == <<apiVars, opVars, envVars, kafka, task, wakeK, wakeT, scene>>

Operation == INSTANCE OperationLifecycle WITH Objects <- OpIds

-----------------------------------------------------------------------------
\* CruiseControlState: the direction of the action and how far it has come.
Stages == {"Required", "Scheduled", "Running", "Succeeded", "CompletedWithError", "Paused"}
NoState == <<"", "">>
Up(stage) == <<"Upscale", stage>>
Down(stage) == <<"Downscale", stage>>
States == {NoState} \cup ({"Upscale", "Downscale"} \X Stages)

IsUpscale(state) == state[1] = "Upscale"
IsDownscale(state) == state[1] = "Downscale"

\* Mutant: what is scheduled is still required.
IsRequiredStateScheduled(state) == state[2] \in {"Required", "Scheduled"}

IsRequiredState(state) == state[2] = "Required"
IsRunningState(state) ==
  state[2] \in {"Scheduled", "Running", "CompletedWithError", "Paused"}
IsActive(state) == IsRunningState(state) \/ IsRequiredState(state)

NoOp == 0

\* An entry of BrokersState; the map has no key for a broker that is not known.
Entry == [known : BOOLEAN, state : States, ref : OpIds \cup {NoOp}]
NoEntry == [known |-> FALSE, state |-> NoState, ref |-> NoOp]
Known(state, ref) == [known |-> TRUE, state |-> state, ref |-> ref]

Config == "config"
Service == "service"
Volume == "pvc"
Parts(headless) == {Config, Volume} \cup (IF headless THEN {} ELSE {Service})

\* A worker's copy of the KafkaCluster.
Cluster == [brokers |-> spec.brokers, headless |-> spec.headless,
            status |-> status, topic |-> topicReady]
NoCluster == [brokers |-> {}, headless |-> FALSE, topic |-> FALSE,
              status |-> [b \in Brokers |-> NoEntry]]

\* A worker between two requests.
KafkaIdle ==
  [ pc |-> "idle", copy |-> NoCluster, todo |-> {}, chosen |-> {},
    rank |-> [b \in Brokers |-> 0], target |-> NoState ]
TaskIdle ==
  [ pc |-> "idle", copy |-> [b \in Brokers |-> NoEntry],
    tasks |-> [b \in Brokers |-> NoEntry], op |-> NoOp ]

\* A cluster that has been running for a while, or one that is about to be created.
Init ==
  /\ scene \in Scenes
  /\ spec = [brokers |-> scene.init, headless |-> scene.headless]
  /\ status = [b \in Brokers |->
       IF b \in scene.init THEN Known(Up("Succeeded"), NoOp) ELSE NoEntry]
  /\ topicReady = (scene.init # {})
  /\ pods = [b \in Brokers |-> IF b \in scene.init THEN "running" ELSE "none"]
  /\ objects = [b \in Brokers |->
       IF b \in scene.init THEN Parts(scene.headless) ELSE {}]
  /\ Operation!LifecycleInit
  /\ work = [o \in OpIds |-> [kind |-> "", brokers |-> {}]]
  /\ kafka = KafkaIdle /\ task = TaskIdle
  /\ wakeK = TRUE /\ wakeT = TRUE
  /\ alive = scene.init /\ holds = scene.init

Spend(what) ==
  /\ scene.budget[what] > 0
  /\ scene' = [scene EXCEPT !.budget[what] = @ - 1]

\* Mutant: the CruiseControlTask controller does not watch BrokersState.
PublishUnwatched(new) ==
  /\ status' = new
  /\ wakeK' = (wakeK \/ new # status)
  /\ UNCHANGED wakeT

\* Both controllers watch BrokersState.
Publish(new) ==
  /\ status' = new
  /\ wakeK' = (wakeK \/ new # status)
  /\ wakeT' = (wakeT \/ new # status)

-----------------------------------------------------------------------------
(* The KafkaCluster controller. *)

\* Reconcile reads the cluster and writes its state, which makes the copy current.
KafkaStart ==
  /\ kafka.pc = "idle" /\ wakeK
  /\ wakeK' = FALSE
  /\ kafka' = [kafka EXCEPT !.pc = "backup", !.copy = Cluster]
  /\ UNCHANGED <<apiVars, opVars, envVars, task, wakeT, scene>>

\* UpdateBrokerConfigurationBackup adds the brokers that are new in the spec.  After
\* a conflict the cluster is read again, but nothing is written.
WriteBackup ==
  /\ kafka.pc = "backup"
  /\ LET copy == kafka.copy
         new == [b \in Brokers |-> IF b \in copy.brokers
                   THEN [copy.status[b] EXCEPT !.known = TRUE] ELSE copy.status[b]]
         next(c) == kafka' = [kafka EXCEPT !.pc = "doomed", !.copy = c]
     IN \/ /\ new = copy.status
           /\ next(copy)
           /\ UNCHANGED <<status, wakeK, wakeT>>
        \/ /\ new # copy.status /\ copy = Cluster
           /\ next([copy EXCEPT !.status = new])
           /\ Publish(new)
        \/ /\ new # copy.status /\ copy # Cluster
           /\ next(Cluster)
           /\ UNCHANGED <<status, wakeK, wakeT>>
  /\ UNCHANGED <<spec, topicReady, pods, objects, opVars, envVars, task, scene>>

\* The pass ends with an error or a timer that puts the request back.
KafkaRequeue == kafka' = KafkaIdle /\ wakeK' = TRUE

\* The pods of the brokers that are not in the spec, terminating ones included.
DoomedPods == {b \in Brokers : pods[b] # "none" /\ b \notin kafka.copy.brokers}

PendingGracefulDownscale ==
  {b \in DoomedPods \cap alive :
     /\ kafka.copy.status[b].known
     /\ kafka.copy.status[b].state \in {Up("Succeeded"), Up("Required")}}

\* reconcileKafkaPodDelete lists the pods and asks Cruise Control which of the
\* doomed brokers it still sees.
FindDoomed ==
  /\ kafka.pc = "doomed"
  /\ LET todo == {b \in DoomedPods : pods[b] = "running"} IN
     kafka' =
       [kafka EXCEPT
          !.pc = CASE todo = {} -> "ensure"
                   [] todo # {} /\ PendingGracefulDownscale # {} -> "mark"
                   [] OTHER -> "reap",
          !.todo = todo,
          !.chosen = IF todo = {} THEN {} ELSE PendingGracefulDownscale]
  /\ UNCHANGED <<apiVars, opVars, envVars, task, wakeK, wakeT, scene>>

\* UpdateBrokerStatus and DeleteBrokerStatus change the entries of the chosen
\* brokers.  A write that meets a conflict is made again on what is there now, so
\* one that succeeds is as good as a read and a write in one step; the second
\* conflict is an error, one of the failures of KafkaFails.
UpdateBrokerStatus(at, new, next) ==
  /\ kafka.pc = at
  /\ Publish(new)
  /\ kafka' = [next EXCEPT !.copy = [Cluster EXCEPT !.status = new]]
  /\ UNCHANGED <<spec, topicReady, pods, objects, opVars, envVars, task, scene>>

\* generateBrokerState: the chosen brokers get entry e; or they get another field
\* of the status, and an entry if they had none.
WithEntry(e) == [b \in Brokers |-> IF b \in kafka.chosen THEN e ELSE status[b]]
WithField == [b \in Brokers |-> IF b \in kafka.chosen
                                  THEN [status[b] EXCEPT !.known = TRUE] ELSE status[b]]

MarkDownscale ==
  UpdateBrokerStatus("mark", WithEntry(Known(Down("Required"), NoOp)),
                     [kafka EXCEPT !.pc = "reap", !.chosen = {}])

\* Mutant: a downscale that is still running will do.
MayGoRunning(b) ==
  \/ ~kafka.copy.status[b].known
  \/ kafka.copy.status[b].state \in {Down("Succeeded"), Down("Running"), Up("Required")}

\* A broker may go once its downscale succeeded, or as long as its upscale is still
\* to be asked for; the brokers that may not are skipped.
MayGo(b) ==
  \/ ~kafka.copy.status[b].known
  \/ kafka.copy.status[b].state \in {Down("Succeeded"), Up("Required")}

ReapNext ==
  /\ kafka.pc = "reap"
  /\ \/ /\ kafka.todo = {}
        /\ kafka' = [kafka EXCEPT !.pc = "ensure"]
        /\ UNCHANGED <<pods, wakeK>>
     \/ \E b \in kafka.todo :
          \/ /\ ~MayGo(b)
             /\ kafka' = [kafka EXCEPT !.todo = @ \ {b}]
             /\ UNCHANGED <<pods, wakeK>>
          \/ /\ MayGo(b) /\ pods[b] # "none"
             /\ pods' = [pods EXCEPT ![b] = "terminating"]
             /\ kafka' = [kafka EXCEPT !.pc = "objects", !.todo = @ \ {b}, !.chosen = {b}]
             /\ wakeK' = TRUE
          \/ /\ MayGo(b) /\ pods[b] = "none"
             /\ KafkaRequeue
             /\ UNCHANGED pods
  /\ UNCHANGED <<spec, status, topicReady, objects, opVars, envVars, task, wakeT, scene>>

\* A missing config map is passed over, a missing service ends the pass; the claim
\* of a pod is always there.  The deletions are one step: nobody else writes these
\* objects or reads them before the pass is over.
ReapObjects ==
  /\ kafka.pc = "objects"
  /\ \E b \in kafka.chosen :
       LET service == IF kafka.copy.headless THEN {} ELSE {Service} IN
       \/ /\ service \subseteq objects[b]
          /\ objects' = [objects EXCEPT ![b] = @ \ ({Config, Volume} \cup service)]
          /\ kafka' = [kafka EXCEPT !.pc = "forget"]
          /\ wakeK' = TRUE
       \/ /\ ~(service \subseteq objects[b])
          /\ objects' = [objects EXCEPT ![b] = @ \ {Config}]
          /\ KafkaRequeue
  /\ UNCHANGED <<spec, status, topicReady, pods, opVars, envVars, task, wakeT, scene>>

DeleteBrokerStatus ==
  UpdateBrokerStatus("forget", WithEntry(NoEntry), [kafka EXCEPT !.pc = "reap", !.chosen = {}])

\* reconcileKafkaPvc creates the missing claims; reorderBrokers adds the brokers
\* whose pod vanished before their downscale ended and puts them first, then the
\* brokers without an entry, those without a pod, and the rest.
ReorderBrokers ==
  /\ kafka.pc = "ensure"
  /\ LET missing == {b \in Brokers : pods[b] = "none"}
         claimed == [b \in Brokers |->
           IF b \in kafka.copy.brokers THEN objects[b] \cup {Volume} ELSE objects[b]]
         unfinished == {b \in missing :
           /\ kafka.copy.status[b].known /\ Volume \in claimed[b]
           /\ kafka.copy.status[b].state \in {Down("Required"), Down("Running")}}
     IN /\ objects' = claimed
        /\ kafka' = [kafka EXCEPT
             !.pc = "pods", !.todo = kafka.copy.brokers \cup unfinished,
             !.rank = [b \in Brokers |->
               IF b \in unfinished THEN 0
               ELSE IF ~kafka.copy.status[b].known THEN 1
               ELSE IF b \in missing THEN 2 ELSE 3]]
  /\ UNCHANGED <<spec, status, topicReady, pods, opVars, envVars, task, wakeK, wakeT, scene>>

\* The config map and the service of the next broker, then reconcileKafkaPod; a
\* pod without an entry in the status ends the pass.
ReconcileKafkaPod ==
  /\ kafka.pc = "pods"
  /\ \E b \in kafka.todo :
       LET next == [kafka EXCEPT !.todo = @ \ {b}, !.chosen = {b}] IN
       /\ \A c \in kafka.todo : kafka.rank[b] <= kafka.rank[c]
       /\ objects' = [objects EXCEPT ![b] = @ \cup (Parts(kafka.copy.headless) \ {Volume})]
       /\ \/ /\ pods[b] = "none"
             /\ pods' = [pods EXCEPT ![b] = "running"]
             /\ kafka' = [next EXCEPT !.pc = "created"]
             /\ UNCHANGED wakeK
          \/ /\ pods[b] # "none" /\ kafka.copy.status[b].known
             /\ kafka' = [next EXCEPT !.pc = "version"]
             /\ UNCHANGED <<pods, wakeK>>
          \/ /\ pods[b] # "none" /\ ~kafka.copy.status[b].known
             /\ KafkaRequeue
             /\ UNCHANGED pods
  /\ UNCHANGED <<spec, status, topicReady, opVars, envVars, task, wakeT, scene>>

\* The state a new pod gives its broker: the first brokers of a cluster need no
\* upscale, the later ones do; a broker on its way out keeps its state.
NeedsState(state) == state # Up("Succeeded") /\ ~IsDownscale(state)

\* Mutant: the state of the Cruise Control topic is not looked at.
NewPodStateReady(copy) == Up("Succeeded")

NewPodState(copy) == IF copy.topic THEN Up("Required") ELSE Up("Succeeded")

\* The three status writes that follow the creation of a pod, in one step: all they
\* change here is that the broker has an entry, and the first one makes it.
PodCreated ==
  UpdateBrokerStatus("created", WithField,
    IF \E b \in kafka.chosen : NeedsState(status[b].state)
      THEN [kafka EXCEPT !.pc = "graceful", !.target = NewPodState(Cluster)]
      ELSE [kafka EXCEPT !.pc = "version"])

SetGracefulState ==
  UpdateBrokerStatus("graceful", WithEntry(Known(kafka.target, NoOp)),
                     [kafka EXCEPT !.pc = "version", !.target = NoState])

\* updateStatusWithDockerImageAndVersion asks the broker itself and writes the answer.
ReadVersion ==
  \/ /\ kafka.chosen \subseteq alive
     /\ UpdateBrokerStatus("version", WithField, [kafka EXCEPT !.pc = "pods", !.chosen = {}])
  \/ /\ kafka.pc = "version" /\ ~(kafka.chosen \subseteq alive)
     /\ KafkaRequeue
     /\ UNCHANGED <<apiVars, opVars, envVars, task, wakeT, scene>>

\* The services go when the cluster uses a headless one.  Then the Cruise Control
\* reconciler makes sure that its topic exists and records whether it does; a
\* conflict in the last writes of the pass only repeats it.
KafkaFinish ==
  /\ kafka.pc = "pods" /\ kafka.todo = {}
  /\ objects' = [b \in Brokers |->
       IF kafka.copy.headless THEN objects[b] \ {Service} ELSE objects[b]]
  /\ \/ /\ topicReady' = TRUE
        /\ kafka' = KafkaIdle
        /\ UNCHANGED <<wakeK, scene>>
     \/ /\ Spend("topic")
        /\ topicReady' = FALSE
        /\ KafkaRequeue
  /\ UNCHANGED <<spec, status, pods, opVars, envVars, task, wakeT>>

KafkaStep ==
  \/ KafkaStart \/ WriteBackup \/ FindDoomed \/ MarkDownscale \/ ReapNext
  \/ ReapObjects \/ DeleteBrokerStatus \/ ReorderBrokers \/ ReconcileKafkaPod
  \/ PodCreated \/ SetGracefulState \/ ReadVersion \/ KafkaFinish

-----------------------------------------------------------------------------
(* The CruiseControlTask controller. *)

\* getActiveTasksFromCluster: a task is the entry of an active broker.
ActiveTasks(entries) ==
  [b \in Brokers |-> IF IsActive(entries[b].state) THEN entries[b] ELSE NoEntry]

TaskStart ==
  /\ task.pc = "idle" /\ wakeT
  /\ wakeT' = FALSE
  /\ LET tasks == ActiveTasks(status) IN
     task' = IF \A b \in Brokers : ~tasks[b].known THEN TaskIdle
             ELSE [TaskIdle EXCEPT !.pc = "list", !.copy = status, !.tasks = tasks]
  /\ UNCHANGED <<apiVars, opVars, envVars, kafka, wakeK, scene>>

\* Mutant: the state of Cruise Control's task is copied as it is.
StageOfRaw(op) ==
  IF op.phase # "live" \/ op.state = "Completed" THEN "Succeeded"
  ELSE IF op.state = "" THEN "Scheduled" ELSE op.state

\* FromResult: what the operation of a task says about it; an operation that does
\* not exist any more is taken for one that succeeded.
StageOf(op) ==
  CASE op.phase # "live" -> "Succeeded"
    [] op.phase = "live" /\ op.state = "Completed" -> "Succeeded"
    [] op.phase = "live" /\ op.state = "CompletedWithError" ->
         IF op.policy = "ignore" THEN "Succeeded"
         ELSE IF op.paused THEN "Paused" ELSE "CompletedWithError"
    [] op.phase = "live" /\ op.state \in {"Active", "InExecution"} -> "Running"
    [] op.phase = "live" /\ op.state = "" -> "Scheduled"

FromResult(t) ==
  IF t.known /\ t.ref # NoOp
    THEN [t EXCEPT !.state = <<t.state[1], StageOf(ops[t.ref])>>] ELSE t

\* Mutant: only the state is written, not the reference.
SyncStateOnly(entries, tasks) ==
  [b \in Brokers |-> IF entries[b].known /\ tasks[b].known
                        THEN [entries[b] EXCEPT !.state = tasks[b].state] ELSE entries[b]]

\* SyncState: the tasks overwrite the entries of the brokers that are still there.
SyncState(entries, tasks) ==
  [b \in Brokers |-> IF entries[b].known /\ tasks[b].known THEN tasks[b] ELSE entries[b]]

\* updateActiveTasks, and UpdateStatus up to its comparison.
TaskList ==
  /\ task.pc = "list"
  /\ LET tasks == [b \in Brokers |-> FromResult(task.tasks[b])]
         synced == SyncState(task.copy, tasks)
     IN task' = [task EXCEPT !.tasks = tasks, !.copy = [b \in Brokers |-> NoEntry],
                             !.pc = IF synced = task.copy THEN "plan" ELSE "sync"]
  /\ UNCHANGED <<apiVars, opVars, envVars, kafka, wakeK, wakeT, scene>>

TaskRequeue == task' = TaskIdle /\ wakeT' = TRUE

\* UpdateStatus: after a conflict the tasks are laid over what is there now, up to
\* six times; the last conflict is one of the failures of TaskFails.
UpdateStatus(at, done) ==
  /\ task.pc = at
  /\ Publish(SyncState(status, task.tasks))
  /\ task' = done
  /\ UNCHANGED <<spec, topicReady, pods, objects, opVars, envVars, kafka, scene>>

TaskSync == UpdateStatus("sync", [task EXCEPT !.pc = "plan"])

\* GetActiveTasksByOp.
RequiredTasks(direction) ==
  {b \in Brokers : /\ task.tasks[b].known /\ task.tasks[b].state[1] = direction
                   /\ IsRequiredState(task.tasks[b].state)}

CreateCCOperation(kind, brokers) ==
  \E o \in OpIds :
    /\ \A p \in OpIds : p < o => ops[p].phase # "unborn"
    /\ Operation!Create(o, "retry")
    /\ work' = [work EXCEPT ![o] = [kind |-> kind, brokers |-> brokers]]
    /\ task' = [task EXCEPT !.pc = "fill", !.op = o]

\* All the brokers to be added share one operation, once they are all up; the
\* brokers to be removed get one each, and only when none is to be added.
TaskPlan ==
  /\ task.pc = "plan"
  /\ LET add == RequiredTasks("Upscale")
         remove == RequiredTasks("Downscale")
     IN \/ /\ add # {} /\ ~(add \subseteq alive)
           /\ TaskRequeue
           /\ UNCHANGED opVars
        \/ /\ add # {} /\ add \subseteq alive
           /\ CreateCCOperation("add_broker", add)
           /\ UNCHANGED wakeT
        \/ /\ add = {}
           /\ \E b \in remove : CreateCCOperation("remove_broker", {b})
           /\ UNCHANGED wakeT
        \/ /\ add \cup remove = {}
           /\ task' = TaskIdle
           /\ UNCHANGED <<opVars, wakeT>>
  /\ UNCHANGED <<apiVars, envVars, kafka, wakeK, scene>>

\* SetCruiseControlOperationRef and SetStateScheduled.
Scheduled(t) == Known(<<t.state[1], "Scheduled">>, task.op)

\* The second half of createCCOperation, and the tasks that now wait for it.
FillOperation ==
  /\ task.pc = "fill"
  /\ Operation!SetTask(task.op)
  /\ LET tasks == [b \in Brokers |-> IF b \in work[task.op].brokers
                                       THEN Scheduled(task.tasks[b]) ELSE task.tasks[b]]
     IN task' = [task EXCEPT !.pc = "schedule", !.tasks = tasks]
  /\ wakeT' = TRUE
  /\ UNCHANGED <<apiVars, work, envVars, kafka, wakeK, scene>>

TaskSchedule == UpdateStatus("schedule", TaskIdle)

TaskStep ==
  TaskStart \/ TaskList \/ TaskSync \/ TaskPlan \/ FillOperation \/ TaskSchedule

-----------------------------------------------------------------------------
(* The surroundings: the user, Kubernetes, Cruise Control, the operations. *)

\* The user adds a broker, removes one but the last, or changes the service.
Edit ==
  /\ \/ /\ Spend("edits")
        /\ \/ \E b \in scene.joining \ spec.brokers : spec' = [spec EXCEPT !.brokers = @ \cup {b}]
           \/ \E b \in scene.leaving \cap spec.brokers :
                spec.brokers # {b} /\ spec' = [spec EXCEPT !.brokers = @ \ {b}]
     \/ /\ Spend("headless")
        /\ spec' = [spec EXCEPT !.headless = ~@]
  /\ wakeK' = TRUE /\ wakeT' = TRUE
  /\ UNCHANGED <<status, topicReady, pods, objects, opVars, envVars, kafka, task>>

\* A rolling upgrade, an eviction or a failing node takes a pod away.
Evict(b) ==
  /\ pods[b] = "running" /\ Spend("evictions")
  /\ pods' = [pods EXCEPT ![b] = "terminating"] /\ wakeK' = TRUE
  /\ UNCHANGED <<spec, status, topicReady, objects, opVars, envVars, kafka, task, wakeT>>

PodGone(b) ==
  /\ pods[b] = "terminating"
  /\ pods' = [pods EXCEPT ![b] = "none"] /\ wakeK' = TRUE
  /\ UNCHANGED <<spec, status, topicReady, objects, opVars, envVars, kafka, task, wakeT, scene>>

ComesUp(b) ==
  /\ pods[b] = "running" /\ b \notin alive
  /\ alive' = alive \cup {b} /\ wakeK' = TRUE
  /\ UNCHANGED <<apiVars, opVars, holds, kafka, task, wakeT, scene>>

GoesDown(b) ==
  /\ pods[b] # "running" /\ b \in alive
  /\ alive' = alive \ {b}
  /\ UNCHANGED <<apiVars, opVars, holds, kafka, task, wakeK, wakeT, scene>>

\* A step of an operation, which wakes the CruiseControlTask controller.
OpChanged ==
  /\ wakeT' = TRUE
  /\ UNCHANGED <<apiVars, work, alive, kafka, task, wakeK>>

IsRunning(o) == ops[o].phase = "live" /\ ops[o].state \in {"Active", "InExecution"}

\* Cruise Control starts to move partitions to the brokers it adds.
OpStarts(o) ==
  /\ \A p \in OpIds \ {o} : ~IsRunning(p)
  /\ Operation!FirstExecution(o) \/ Operation!RetryExecution(o)
  /\ \/ /\ ops'[o].state = "Active"
        /\ holds' = IF work[o].kind = "add_broker" THEN holds \cup work[o].brokers ELSE holds
        /\ UNCHANGED scene
     \/ /\ ops'[o].state = "CompletedWithError"
        /\ Spend("errors")
        /\ UNCHANGED holds
  /\ OpChanged

\* A broker that has been removed holds nothing; the completed stop_execution of
\* a deleted operation has removed nothing.
OpProgresses(o) ==
  /\ Operation!Progress(o) /\ ops'[o] # ops[o]
  /\ IF ops'[o].state = "CompletedWithError" THEN Spend("errors") ELSE UNCHANGED scene
  /\ holds' = IF /\ work[o].kind = "remove_broker" /\ ~ops[o].deleting
                 /\ ops'[o].state = "Completed"
              THEN holds \ work[o].brokers ELSE holds
  /\ OpChanged

OpStops(o) ==
  /\ Operation!StopExecution(o) /\ ops'[o] # ops[o]
  /\ IF ops'[o].state = "CompletedWithError" THEN Spend("errors") ELSE UNCHANGED scene
  /\ OpChanged /\ UNCHANGED holds

\* The user ignores the errors of an operation, pauses it or deletes it.
OpEdited(o) ==
  /\ Operation!Edit(o) /\ ops'[o] # ops[o] /\ Spend("opEdits")
  /\ OpChanged /\ UNCHANGED holds

\* A finished operation expires, a deleted one goes once nothing of it runs.
OpRemoved(o) ==
  /\ Operation!Remove(o) /\ ops'[o].deleting = ops[o].deleting
  /\ \/ ops[o].state = "Completed"
     \/ ops[o].state = "CompletedWithError" /\ ops[o].policy = "ignore"
     \/ ops[o].deleting /\ ~IsRunning(o)
  /\ OpChanged /\ UNCHANGED <<holds, scene>>

\* A call to the API server or to Cruise Control fails, another writer wins every
\* attempt of a status update, or the operator restarts.
KafkaFails ==
  /\ kafka.pc # "idle" /\ Spend("failures")
  /\ KafkaRequeue
  /\ UNCHANGED <<apiVars, opVars, envVars, task, wakeT>>

TaskFails ==
  /\ task.pc # "idle" /\ Spend("failures")
  /\ TaskRequeue
  /\ UNCHANGED <<apiVars, opVars, envVars, kafka, wakeK>>

Surroundings ==
  \/ Edit \/ KafkaFails \/ TaskFails
  \/ \E b \in Brokers : Evict(b) \/ PodGone(b) \/ ComesUp(b) \/ GoesDown(b)
  \/ \E o \in OpIds :
       OpStarts(o) \/ OpProgresses(o) \/ OpStops(o) \/ OpEdited(o) \/ OpRemoved(o)

Next == KafkaStep \/ TaskStep \/ Surroundings

Spec == Init /\ [][Next]_vars

\* The workers run, pods come up and go away, operations are executed in turn.
FairSpec ==
  /\ Spec
  /\ WF_vars(KafkaStep) /\ WF_vars(TaskStep)
  /\ \A b \in Brokers : WF_vars(PodGone(b)) /\ WF_vars(ComesUp(b)) /\ WF_vars(GoesDown(b))
  /\ \A o \in OpIds : WF_vars(OpStarts(o)) /\ WF_vars(OpProgresses(o))

-----------------------------------------------------------------------------
(* Properties. *)

KafkaPcs ==
  {"idle", "backup", "doomed", "mark", "reap", "objects", "forget", "ensure", "pods",
   "created", "graceful", "version"}
TaskPcs == {"idle", "list", "sync", "plan", "fill", "schedule"}

\* The variables keep their types: in particular FromResult and SetStateScheduled
\* only ever put states of CruiseControlState into the status.
TypeOK ==
  /\ spec \in [brokers : SUBSET Brokers, headless : BOOLEAN]
  /\ status \in [Brokers -> Entry] /\ topicReady \in BOOLEAN
  /\ pods \in [Brokers -> {"none", "running", "terminating"}]
  /\ objects \in [Brokers -> SUBSET {Config, Service, Volume}]
  /\ ops \in [OpIds -> Operation!LifecycleObject]
  /\ work \in [OpIds -> [kind : {"", "add_broker", "remove_broker"},
                         brokers : SUBSET Brokers]]
  /\ kafka \in [ pc : KafkaPcs, todo : SUBSET Brokers, chosen : SUBSET Brokers,
                 copy : [brokers : SUBSET Brokers, headless : BOOLEAN,
                         status : [Brokers -> Entry], topic : BOOLEAN],
                 rank : [Brokers -> 0..3], target : States ]
  /\ task \in [ pc : TaskPcs, copy : [Brokers -> Entry], tasks : [Brokers -> Entry],
                op : OpIds \cup {NoOp} ]
  /\ wakeK \in BOOLEAN /\ wakeT \in BOOLEAN
  /\ alive \subseteq Brokers /\ holds \subseteq Brokers
  /\ scene \in Scene

\* A broker whose action is under way refers to an operation that was created for
\* this broker and in this direction, whoever wrote the status last: the state and
\* the reference, which two controllers overwrite under each other's feet, never
\* come from two different actions (CruiseControlTask.Apply, generateBrokerState).
RefMatchesWork ==
  \A b \in Brokers :
    IsRunningState(status[b].state) =>
      /\ status[b].ref # NoOp
      /\ b \in work[status[b].ref].brokers
      /\ work[status[b].ref].kind =
           IF IsUpscale(status[b].state) THEN "add_broker" ELSE "remove_broker"

Unfinished(o) == ops[o].phase = "live" /\ ops[o].state # "Completed"

\* As long as no call fails and no pod is lost, Cruise Control is never asked twice
\* for the same action on a broker: a required task is scheduled before the
\* controller reads it again (Reconcile of CruiseControlTaskReconciler).
OneOperationPerBroker ==
  \A o, p \in OpIds :
    o # p /\ Unfinished(o) /\ Unfinished(p) /\ work[o].kind = work[p].kind =>
      work[o].brokers \cap work[p].brokers = {}

Reaps(b) ==
  kafka.pc = "reap" /\ kafka'.pc = "objects" /\ kafka'.chosen = {b}

\* Users neither deleted the operation nor told it to ignore errors.
Untouched(ref) == ref = NoOp \/ (~ops[ref].deleting /\ ops[ref].policy # "ignore")

\* A broker's pod, and with it its volume claim, is deleted only when the broker
\* holds no partitions: Cruise Control has removed it since it last was told to
\* move data there, whatever fails or is restarted in between (the state check in
\* reconcileKafkaPodDelete).  Users must have left the operation alone.
NoDataLost ==
  [][\A b \in Brokers : Reaps(b) /\ Untouched(kafka.copy.status[b].ref) => b \notin holds]_vars

\* A broker that joins a cluster whose Cruise Control was already at work counts as
\* upscaled only after an add_broker operation for it was executed
\* (reconcileKafkaPod, FromResult).
UpscaledByCruiseControl ==
  \A b \in Brokers \ scene.init :
    scene.init # {} /\ status[b].state = Up("Succeeded") => b \in holds

Settled(b) ==
  IF b \in spec.brokers
    THEN /\ status[b].known /\ status[b].state = Up("Succeeded") /\ pods[b] = "running"
         /\ objects[b] = Parts(spec.headless)
    ELSE status[b] = NoEntry /\ pods[b] = "none" /\ objects[b] = {}

\* Once the user stops editing the spec, the brokers in it end up running and
\* upscaled, and nothing is left of the others: no pod, no config map, service or
\* claim, no entry in the status.  No wake-up is lost between the controllers.
Converges == <>[](\A b \in Brokers : Settled(b))
=============================================================================
