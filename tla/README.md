# Verification of koperator

koperator is a Kubernetes operator for Apache Kafka. It watches KafkaCluster,
KafkaTopic, KafkaUser and CruiseControlOperation objects and drives broker pods,
volumes, certificates, ACLs and Cruise Control towards them. This directory
holds TLA+ models of its control logic, TLC configurations that check them on
small instances, and proofs that TLAPS checks for every instance.

## 1. The system

The controllers are goroutines of one process. Each runs its reconciles one at a
time (`MaxConcurrentReconciles` 1; 10 for KafkaTopic). They share no memory:
they meet in the API server (optimistic concurrency: a write based on an old
`resourceVersion` is answered with Conflict) and in Cruise Control.

| Component | State | Operations | Hard behaviour |
|---|---|---|---|
| CruiseControlOperation controller (`controllers/cruisecontroloperation_controller.go`) | status and finalizer of CruiseControlOperation objects; its work queue | list and filter, poll tasks, sort, select, execute, record, finalize | decides on a snapshot that users, the TTL controller and restarts outdate; a request and the record of its answer are two steps; wake-ups come only through filtered events |
| TTL controller (`controllers/cruisecontroloperation_ttl_controller.go`) | delayed requests | delete finished operations after their TTL | acts on a delayed decision |
| CruiseControlTask controller (`controllers/cruisecontroltask_controller.go`, `cruisecontroltask_types.go`) | graceful action states of brokers and volumes in KafkaCluster.Status | create operations for required tasks, follow their results | two-step creation, overwriting of states after a conflict, missing operations |
| Cruise Control client (`pkg/scale`) | none (Cruise Control has user tasks and one executor) | add/remove broker, remove disks, rebalance, stop, status | answers may be errors with or without a task, or lost; old tasks are evicted |
| Kafka reconciler (`pkg/resources/kafka`) | broker pods, PVCs, config maps, broker and volume states | create, delete, restart brokers; add and remove disks; publish addresses | multi-step deletion, rolling upgrade gating on cached lists, status written after the object it is about |
| Status helpers (`pkg/k8sutil`) | KafkaCluster.Status | update or delete parts of the status | retries after conflicts |
| KafkaCluster controller (`controllers/kafkacluster_controller.go`) | finalizers | run the reconcilers, clean up topics and users | order of clean-up |
| KafkaTopic, KafkaUser controllers (`controllers/kafkatopic_controller.go`, `kafkauser_controller.go`) | finalizers, topics, ACLs, certificates | create, update, delete | object and Kafka changed in separate steps; their writes pass a webhook that asks Kafka |
| PKI (`pkg/pki`) | secrets, Certificates, signing requests | create, poll, approve | found again by an annotation; requests expire |
| Ingress (`pkg/resources/envoy`, `istioingress`, `contouringress`, `nodeportexternalaccess`) | services, proxies | render and apply for each ingress configuration | an advertised address must lead to its broker while brokers move between configurations |
| Webhooks (`pkg/webhooks`) | none | validate specs | the promise that what they let through can be applied |
| Alert manager (`internal/alertmanager`) | alert store | scale the spec up and down, add and enlarge volumes | concurrent reads of the store, limits checked on stale data |
| Monitoring, properties, start-up | (rendered objects) | render and apply | mostly formatting |

What makes each part correct, and what of it is hard to test, is listed under
`hazards` in `PROJECT.json`, with the properties that cover it.

## 2. Modules

| Module | Content |
|---|---|
| `CCOperationTypes` | the CruiseControlOperation object and the predicates of `api/v1alpha1/cruisecontroloperation_types.go` |
| `CCOperation` | the CruiseControlOperation and TTL controllers, Cruise Control, users, the garbage collector and restarts |
| `OperationLifecycle` | abstract: the life of an operation as other controllers see it |
| `MCCCOperation` | instances of `CCOperation` for TLC |
| `CCOperationProofs` | the inductive invariant of `CCOperation` and what follows from it; deletion and completion: stop_execution, the finalizer, a completed operation is left alone |
| `CCOperationRecordProofs` | the records of `CCOperation` are true, and it implements `OperationLifecycle` |
| `GracefulAction` | brokers join and leave: the Kafka reconciler and the CruiseControlTask controller on the shared status of the KafkaCluster, over the operations of `OperationLifecycle` |
| `MCGracefulAction` | instances of `GracefulAction` for TLC |
| `GracefulActionProofs` | types of `GracefulAction`, and the operations that its states refer to |
| `GracefulDrainProofs` | what `GracefulAction` does to the data of brokers that leave and join, and that it asks Cruise Control once for each |
| `AccessObjects` | what topics, users and their cluster share: the KafkaCluster, the secrets, whether Kafka answers |
| `KafkaTopics` | the KafkaTopic controller, its webhook and the topics of Kafka |
| `KafkaUsers` | the KafkaUser controller, the two PKI backends and the ACLs of Kafka |
| `ClusterAccess` | composes the two with the finalizers and the teardown of the KafkaCluster controller |
| `MCClusterAccess` | instances of `ClusterAccess` for TLC |
| `ClusterAccessProofs` | types, deletion of topics, teardown and the status of users in `ClusterAccess` |
| `BrokerObjects` | the KafkaCluster, the pods and the worker of a pass |
| `Ingress` | the ways in from outside and the addresses that brokers advertise |
| `BrokerVolumes` | volume claims and their states, the CruiseControlTask controller for volumes and its disk operations (over `OperationLifecycle`) |
| `BrokerPods` | configuration maps, pods, rack awareness, the rolling upgrade, dynamic configuration (extends `BrokerVolumes`) |
| `ClusterReconcile` | composes `Ingress` and `BrokerPods` to the passes over a cluster with fixed brokers |
| `MCClusterReconcile` | instances of `ClusterReconcile` for TLC |
| `ClusterReconcileProofs` | types, configurations, racks, volumes, restarts and addresses of `ClusterReconcile` |
| `AlertManager` | the alert store, its requests and the edits they make |
| `MCAlertManager` | instances of `AlertManager` for TLC |
| `AlertManagerProofs` | mutex, limits and broker IDs of `AlertManager` |
| `EnvoyPorts` | the port numbers of an external listener behind envoy: webhook, services, listeners |
| `MCEnvoyPorts` | instances of `EnvoyPorts` for TLC |
| `EnvoyPortsProofs` | what the webhook guarantees about the services |

`CCOperation` implements `OperationLifecycle` (run `pair`, theorem
`ImplementsLifecycleHolds`), and `GracefulAction` and `BrokerVolumes` use nothing else of
the operations, so they are joined there.

### CCOperation

A reconcile is a chain of steps of one worker, cut at every access to the API
server or to Cruise Control; everything else may happen between two steps:

| Step (`pc`) | Code | Action |
|---|---|---|
| idle | `Reconcile` 81-155: list, early returns | `ListOperations` (with `AfterList`) |
| finalize | 111-118, 129-142, 192-199 | `RemoveFinalizer` |
| addfinalizer | `addFinalizer` 257-271 | `AddFinalizer` |
| status | `getStatus` 525-594 | `GetStatus`, `GetStatusFails` |
| tasks | `updateCurrentTasks` 476-505 | `UpdateCurrentTasks`, `UserTasksFails` |
| update | `updateCurrentTasks` 507-513, then 192-225 | `UpdateTaskStatus` (one write each), `SelectOperation` |
| pause | `selectOperationForExecution` 340-352 | `PauseRetry` |
| execute | `executeOperation` 273-293 | `ExecuteOperation(outcome)` |
| write | `conflictRetryFunction` 239-252 | `WriteResult` |

`mem` is the snapshot of the List, `stale` the listed objects somebody else has
written since: a write of one of them is a Conflict. `queue` is the work queue
behind the event filters (`UpdateEvent`, `CreateEvent`); a request is there until
a reconcile takes it and after a requeue. `elapsed` holds the objects whose retry
backoff has passed. `cc` holds Cruise Control's user tasks, each with the object
it was started for.

What is abstracted: times (a delay is any delay); task parameters, summaries and
HTTP fields; the Status operation that `getStatus` keeps (only whether one is
running: its answer may describe an earlier moment); `Status.ErrorPolicy`, which
nothing reads and whose update can only cause one more write, hence at worst one
more requeue; two objects created in the same second; API server failures other
than Conflict and NotFound. Cruise Control is external: it executes one proposal
at a time, tasks end well or not, a stop ends what is in execution, ended tasks
may be forgotten.

### GracefulAction

Two workers, `kafka` and `task`, each with a copy of the KafkaCluster that the
other one outdates. `status` holds the entry of every broker: whether there is
one, its graceful action state and its operation reference.

| Step (`pc`) | Code | Action |
|---|---|---|
| idle | `KafkaClusterReconciler.Reconcile` 92-134 | `KafkaStart` |
| backup | `UpdateBrokerConfigurationBackup` | `WriteBackup` |
| doomed, mark | `reconcileKafkaPodDelete` 506-590 | `FindDoomed`, `MarkDownscale` |
| reap, objects, forget | 593-662, `DeleteBrokerStatus` | `ReapNext`, `ReapObjects`, `DeleteBrokerStatus` |
| ensure | `reconcileKafkaPvc`, `reorderBrokers` | `ReorderBrokers` |
| pods, created, graceful, version | loop of `Reconcile` 412-463, `reconcileKafkaPod` | `ReconcileKafkaPod`, `PodCreated`, `SetGracefulState`, `ReadVersion` |
| pods, nothing left | 472-504, `cruisecontrol.Reconcile` 96-105 | `KafkaFinish` |
| idle, list, sync | `CruiseControlTaskReconciler.Reconcile` 68-116 | `TaskStart`, `TaskList`, `TaskSync` |
| plan, fill, schedule | 118-187, `createCCOperation`, 313-317 | `TaskPlan`, `FillOperation`, `TaskSchedule` |

Why a status write is one step: `UpdateBrokerStatus`, `DeleteBrokerStatus` and
`UpdateStatus` answer a conflict by reading the cluster again and applying the same
change to what they find. A write that succeeds is therefore a read and a write
with nothing in between; one that meets a conflict too often is an error, and a
step of `KafkaFails` or `TaskFails`. `UpdateBrokerConfigurationBackup` is the
exception, as it gives up after a conflict: `WriteBackup` has that case.

`wakeK` and `wakeT` say that a request is in the queue; they are set by the events
the predicates let through. `alive` holds the brokers that run: they answer the
version request and Cruise Control lists them. `holds` is a history variable: the
brokers Cruise Control has moved data to and not yet away from.

What is abstracted: operations are executed one at a time, which is what
`CCOperationProofs` establishes; a pod's config map is there whatever the rack
awareness says; `ConfigurationBackup` is there whenever the entry is; dynamic
configuration, listeners and certificates succeed or are a `KafkaFails`. Left out:
volumes and the rolling upgrade, which `ClusterReconcile` has (its effect here, a
pod taken away, is `Evict`), KRaft controller-only nodes and the deletion of the
cluster, which `ClusterAccess` has.

### ClusterReconcile

One worker makes pass after pass over a cluster whose brokers are fixed; the
brokers' configuration, version, ingress and volumes are not. `w` is the worker
with its copy of the KafkaCluster; a write of the status brings the copy up to date
(the helpers of `pkg/k8sutil` read again after a conflict), a write of the spec that
meets a newer one fails. A pass is cut at each write and at each read that others
may outdate:

| Step (`pc`) | Code | Action |
|---|---|---|
| idle | `KafkaClusterReconciler.Reconcile` | `StartPass` |
| ingress, routes | `envoy.Reconcile`, `istioingress.Reconcile`: configuration by configuration, in any order | `ReconcileIngress`, `ReconcileRoutes` |
| nodeports, contour | `nodeportexternalaccess.Reconcile`, `contouringress.Reconcile` | `ReconcileNodePorts`, `ReconcileContour` |
| listeners | `createExternalListenerStatuses` and its write | `PublishListeners` |
| claims, forget | `reconcileKafkaPvc`, `handleDiskRemoval`, `DeleteVolumeStatus` | `ReconcileClaims`, `DeleteClaim`, `ForgetVolume`, `MarkVolumes` |
| order, next | `reorderBrokers` and the loop over the brokers | `ListBrokers`, `OrderBrokers` |
| config, configOut, dynamicOut | `generateBrokerConfig`, `k8sutil.Reconcile` of a config map | `ReconcileMap`, `ConfigOutOfSync` |
| pod, ingressIn, configIn, dynamicIn, rack, rackStatus | `reconcileKafkaPod`, `UpdateCrWithRackAwarenessConfig` | `ReconcilePod`, `PodInSync`, `WriteRack`, `WriteRackStatus` |
| upgrade, check, restart, delete | `handleRollingUpgrade` | `CompareBroker`, `CheckUpgrade`, `DeletePod` |
| jmx, dynamic, alter, altered | `updateStatusWithDockerImageAndVersion`, `reconcilePerBrokerDynamicConfig` | `AskVersion`, `ReconcileDynamic`, `AlterDynamic`, `DynamicInSync` |
| next, nothing left | the end of the pass | `FinishPass` |

The CruiseControlTask controller is a second worker, `task`, beside it. What it read of the
volumes is in `task.tasks`:

| Step (`task.pc`) | Code (`cruisecontroltask_controller.go`) | Action |
|---|---|---|
| idle | `Reconcile`, `getActiveTasksFromCluster` | `TaskStart` |
| list | the list of operations, `updateActiveTasks`, the comparison in `UpdateStatus` | `TaskList` (with `FromResult`) |
| sync | `UpdateStatus`: the tasks are laid over the status, after a conflict over a newer one | `TaskSync` (with `SyncState`) |
| plan | `GetActiveTasksByOp`, the log directories, the creation in `createCCOperation` | `TaskPlan` |
| fill | the status of the operation, the reference in the tasks | `FillOperation` |
| schedule | the second `UpdateStatus` | `TaskSchedule` |

Its operations live as `OperationLifecycle` allows (`OpStarts`, `OpEnds`, `OpPaused`,
`OpEdited`, `OpRemoved`), one running at a time: they fail and are retried, expire, are
paused for a rebalance, and users edit or delete them. `TaskFails` is a call that fails, or
a restart, at any of its steps.

Around the two are the user's edits, taints and crashes, the alert manager, of which only
its count of alerts is seen (`CountAlerts`), and, external, Kubernetes (pods are
scheduled, start, stop and break; claims are released; load balancers get an
address) and Kafka (replicas catch up).

What a pod is made of is a version number, and a configuration is its part that
needs a restart (`Static`: the read-only configuration, the rack and the log
directories, which are merged with those of the old map and never shrink) and the
advertised address, which does not. An address is the ingress configuration it leads
through; `scene.way` says whether that is envoy, istio, contour or a node port.
`drained` and `restarted` are history variables: the volumes that a remove_disks has emptied
since they were last recorded as rebalanced, and the brokers that a rolling upgrade has
stopped and that do not run again yet (they may still be out of sync then).

### ClusterAccess

Each KafkaTopic, each KafkaUser and the KafkaCluster have a worker that reads its
object from a cache (`topicSeen`, `userSeen`, `clusterSeen`) and writes it to the API
server, which refuses a stale object; `tdue`, `udue` and `cdue` are the work queues.

| Controller | Steps |
|---|---|
| KafkaTopic | `ReconcileTopic` (early returns), `ManagedBy`, `ConnectTopic`, `CreateTopic` or `EnsurePartitionCount` and `EnsureTopicConfig`, `LabelTopic`, `FinalizeLater`, `TopicCreated`; on deletion `DropTopic`, `AwaitTopic`, `RemoveTopicFinalizer` |
| webhook of KafkaTopic | `Admitted` in every write that is not a write of the status, the controller's own included |
| KafkaUser | `ReconcileUser`; cert-manager: `GetUserCertificate`, `InjectJKSPassword`, `CreateCertificate`, `GetUserSecret`; signing request: `EnsureKey`, `GenerateAndCreateCSR`, `SecretUpdateAnnotation`, `PollRequest`; then `LabelUser`, `CreateUserACLs`, `AddUserFinalizer`, `UserCreated`; on deletion `DeleteUserACLs`, `RemoveUserFinalizer` |
| KafkaCluster | `ReconcileCluster`, `ReconcilePKI`, `EnsureFinalizers`; on deletion `SweepTopics`, `TopicsSwept`, `AwaitTopics`, `SweepUsers`, `UsersSwept`, `FinalizePKI`, `RemoveMainFinalizer` |

External: Kafka removes topics in its own time, cert-manager issues, a signer
approves and signs, requests expire, owned objects are collected. What is in a
certificate, who issued it, and pattern types of ACLs are left out.

### AlertManager

Every request is a goroutine: for each alert it carries it stores it (`AddAlert`) and
removes it when it is resolved (`AlertGC`), counts the alerts of rolling upgrades
(`CountRollingUpgradeAlerts`), and ranges over the store without the mutex
(`RangeNext`, `RangeEnd`; a goroutine may or may not see what others add meanwhile).
Each alert it meets is handled under the mutex (`HandleAlert` to `UpdateCr`): the
count is written to the status (`UpdateErrorCount`, `RetryErrorCount`), the limits are
looked at (`Refused`), and the command reads the cluster again and writes it. `cache`
is what is read, `cr` what is written. That Go may stop the process at a map that is
changed while it is ranged over is `Crash`.

### EnvoyPorts

A spec of port numbers that passes `ValidateUpdate`, and passes that make of it the
service of envoy (`ReconcileService`), its listeners (`ReconcileConfigMap`), its
container ports (`ReconcileDeployment`) and the services and advertised ports of the
brokers (`ReconcileKafka`). All ports are small numbers, so that all of them collide.

## 3. Runs

The runs of `CCOperation`, `GracefulAction` and `ClusterAccess` have
`CHECK_DEADLOCK FALSE`: when all operations are done and the users are silent the
controllers rightly have nothing to do. The others check that there is always a next
step (a resync, or a post of Alertmanager).

| Run | Instance | Shows |
|---|---|---|
| `pair` | a remove_disks and a rebalance created later that rolls it back, every outcome of a request, 2 tasks, TTL, 1 user edit | types, the inductive invariant, serial execution, stop only on deletion, truthful records, finalizers, completed tasks stay untouched, refinement of `OperationLifecycle` with lost answers and the automatic pause |
| `single` | one operation, 3 tasks, history of length 1, TTL, 1 edit, fairness | failures are counted exactly once, at and beyond the limit of the history, and retried; deletions complete |
| `queue` | two operations of which one overtakes the other, 1 restart, no edits, fairness | truthful records across a restart; every operation is executed |
| `converge` | three scenes: broker 2 joins and 1 leaves; 2 joins and leaves again, with a failed operation; 1 and 2 are the first brokers; fairness | one operation per broker and action, upscale of new brokers, convergence |
| `turmoil` | four scenes: a downscale with 2 failures or restarts and a switch of the service type; a broker that leaves and returns, with an eviction; a downscale with a failed operation, a user action on it and a failed topic check; an exchange with a failed operation | types, references and data, whatever happens at any step |
| `alerts` | two requests at a time; five scenes: two upscales, two downscales beside a graceful action, volumes with a pending claim, an alert that flaps with a restart and a user's edit, a busy cluster | limits, fresh broker IDs and one edit per alert on stale data; alerts that go on firing are handled |
| `access` | two topics and two users; ten scenes: the life of a topic with an outage, two objects for one topic, a topic that vanishes or loses its label, users of cert-manager, signing requests that fail, expire or meet a restart, the end of a user, the teardown with a restart, with a topic created meanwhile, and before the set-up has ended | finalizers, the order of the teardown, what "created" promises; topics and users settle, deletions complete |
| `cluster` | one to three brokers, two paths, four disk operations, two ingress configurations; twenty-six scenes: upgrades one at a time, by rack, with a lagging cache, with alerts, with broken, tainted or evicted pods, and two (`Lenient`, `Strict`) in which as many brokers are down as the code lets through; new brokers with and without a crash; volumes added, removed, put back before and after the end of the removal and taken out again, with operations that fail, expire or are edited by users and with failures of the task controller; a broker that moves to another ingress behind envoy or contour, with a dynamic configuration that is not valid, contour with the removal of unused resources, istio and node ports; a lost status write | restarts are bounded, data is moved before a claim goes, addresses lead to their brokers, users' edits are kept, convergence |
| `ports` | three brokers, seven port numbers, any three edits and crashes | the services are accepted, and every broker is reached by the port that it advertises |
| `conflict`, `leaving`, `restarts` | minimal | a comment or a documented bound that the code does not keep; see `findings` in `PROJECT.json` |

Bounds of `CCOperation`: `TaskIds` (how many requests Cruise Control may accept), `MaxEdits`,
`MaxCrashes`, `HistoryMax`. Two operations are enough for every interaction of
the selection, which only compares heads of queues, except that a third one could
wait behind both; two tasks allow one retry or one stop, three a history that
overflows. One edit at an arbitrary moment already produces every conflict.
Liveness properties hold "unless the task IDs run out" (`Exhausted`), which the
bound causes and not the code.

Fairness: the controllers' goroutines run (weak fairness of their steps); the
work queue is first-in first-out, so each request is eventually served (strong
fairness of `ListOperations`); Cruise Control answers now and then with an
up-to-date status (strong fairness of `GetStatus` and `UpdateCurrentTasks`), its
tasks end, and time passes. Users owe nothing.

`GracefulAction` is bounded by its `Scenes`: the cluster to start from, the brokers
that may join and leave, and how often each kind of disturbance (edits of the spec,
switches of the service, evictions, failed operations, edits of operations, failures
of the controllers, failures of the topic check) may happen; and by `OpIds`. Everything else is free: the workers may take any
number of passes. Two brokers are enough for the interplay of one that joins and one
that leaves; the code looks at several brokers together only in the shared
add_broker of `TaskPlan`, which the scene of the first brokers reaches.

Its fairness: the two workers run (weak fairness of `KafkaStep` and `TaskStep`),
pods terminate and come up, and operations are started in turn and end (which
`CCOperation` establishes as `WaitingIsExecuted` and `FailedIsRetried` where nobody
deletes an operation). Users, evictions and failures owe nothing.

Where a property is not listed for a run it does not hold there, and this is how
the code behaves rather than a gap of the model: `OneOperationPerBroker` is lost to
a crash between the creation of an operation and the write of the status;
`Converges` to a failure inside the multi-step creation or removal of a broker and
to a broker that returns while its downscale is under way (it keeps its downscale
state); `NoDataLost` when the broker that joins is also the one that leaves, because
the copy that allows the deletion may be older than the add_broker. `NoDataLost`
leaves out operations that users delete or tell to ignore errors. What TLC finds in
these cases is described under `hazards`.

`ClusterReconcile`, `ClusterAccess` and `AlertManager` are bounded by their `Scenes`
in the same way: a situation to start from and how often each kind of event may
happen (the `budget`); passes, requests and retries are free. Each scene puts
together the events that meet in the code, and two brokers (three for the racks),
two topics, two users and two requests are what the code relates to each other.
Four disk operations (`OpIds`) are as many as a scene of `ClusterReconcile` can ask for and
one more: a removal, a rebalance after a return, a second removal.
`EnvoyPorts` needs three brokers (0 is the ID at which a starting port of 0 is not a
port) and as many numbers as there are fields; three edits are enough to change any
two fields and change one back.

Their fairness: workers take their steps, failures are queued again, caches catch
up, outages end, and Kubernetes, Kafka, cert-manager and signers do what they are
asked (weak fairness each). Strong fairness is asked for twice. Operations of Cruise
Control end although pods start and stop again and again in between
(`ClusterReconcile`). And a request of the alert manager gets the mutex and
Alertmanager repeats what it posts while an alert fires (`AlertManager`: Go's mutex
hands over to a goroutine that has waited long, and Alertmanager repeats its
notifications). Users, evictions, crashes and lost writes owe nothing.

Again a property names what it holds up to. `RestartsBounded` is about pods that are
not read from a stale cache, and its bound is the sum of the two counts of
`handleRollingUpgrade`, which is what the code keeps; it is reached in the scenes `Lenient`
and `Strict`. The documented limit is `RestartsWithinLimit`, which run `restarts` refutes.
`DrainedBeforeDeletion` asks for a remove_disks since the volume was last recorded as
rebalanced, while users leave the operations alone; it does not protect what Kafka puts on a
volume after that remove_disks. `AdvertisedIsServed`
leaves out the sweep of contour's services; `InSyncIsTrue` and `UserEditsKept` hold until a crash
falls between two writes that belong together. `Converges` of `ClusterReconcile` holds until a
status write is lost silently, users act on operations or alerts go on, and it accepts a
volume that the status goes on calling removed. No scene has an edit of a configuration or
of an ingress together with a crash, so that the crash between a map and its status (hazard
`resource.go:151`) is met by none of these properties; and none adds one volume while it
removes another. `TopicSettles` leaves out a topic that was deleted
behind the operator's back and one asked for with the defaults of the broker (-1
partitions are refused by the webhook once the topic exists, so that the controller
cannot finish); `UserSettles` leaves out a key store after a failure;
`BrokersReachable` names the ports the webhook does not compare.

### What the violations show

- `conflict`: after a Conflict the result of an execution is dropped
  (`cruisecontroloperation_controller.go` 244-247), and the task is sent again.
- `leaving`: a broker that leaves the spec loses its port and its listener at envoy
  with the next pass (`pkg/util/util.go` 274), while it still has partitions.
- `restarts`: with a limit of two and a threshold of two, three brokers of a rack are down at
  once. A tainted pod is replaced, and while the new one has no container status it is in
  neither list of `handleRollingUpgrade` (`kafka.go` 1002, 1603-1614), so that two more
  brokers are stopped. The documentation (`kafkacluster_types.go` 251) says up to the limit.

Other disagreements that TLC finds, each described with its line under `hazards`: a
stop request that fails is taken for the end of the task; an error answer without a
task ID is never retried; after a deletion another operation may wait with an empty
queue; a missing operation counts as success, so deleting the operation of a
downscale deletes the broker with its partitions; a missing service stops the removal
of a broker for good; the ACLs of a deleted user stay in Kafka; a volume that is put back after
its removal has succeeded, or while the task controller is about to record that, stays removed
in the status, so that a second removal deletes its claim without moving the new partitions;
an edit that adds one volume and removes another may leave the removal waiting for a pod and
the pass waiting for the removal; a failed remove_disks is paused also for a rebalance of
another volume, and the pass then waits for a user; a dynamic configuration that did not pass
validation is not tried again for a broker without one of its own; with contour and the
removal of unused ingress resources every pass deletes the services of the brokers and makes
them again.

## 4. Proofs

`CCOperationProofs` proves, for any sets of operations and tasks, any history
length and any number of edits and restarts:

- `InductiveInvariant`: `Spec => []SerialInv`,
- `TypeCorrect`: `Spec => []TypeOK`,
- `SerialExecutionHolds`: `Spec => []SerialExecution`.

`SerialExecution` alone is not inductive: it speaks of the API server while the
code looks at its snapshot. `SerialInv` adds why the two agree. Nobody but the
worker writes task states, so the snapshot's states and IDs are those of the API
server except for the statuses still to be written (`SnapshotInSync`,
`DirtyIsListed`); the queues of `sortOperations` are exhaustive for valid
operations that are in progress (`ExecutedIsValid`, `NothingInProgress`); IDs in
records are ones Cruise Control has handed out (`IdsAreUsed`), so polling is
defined; the target of a request is a listed, valid object (`TargetIsReady`).
There is one lemma per action; the constants' assumptions used are the ASSUMEs of
`CCOperation`.

It also proves, on top of `SerialInv`:

- `StopOnlyOnDeletionHolds`: `Spec => []StopOnlyOnDeletion`,
- `FinalizerProtectsHolds`: `Spec => FinalizerProtects`,
- `CompletedIsFinalHolds`: `Spec => CompletedIsFinal`.

The first two decisions are made on the snapshot and take effect later. `DeletionInv` says what
is still true then: a deletion mark is never taken back and only marked objects carry
`stop_execution` (`DeletionIsReal`); an object that nobody else has written since the
List has the snapshot's deletion mark and Finished time (`FreshIsEqual`), which with
`SnapshotInSync` makes `IsCurrentTaskRunning` of the snapshot and of the API server
agree; the finalizer is about to be removed only from an object without a running task
(`FinalizeIsSafe`). A write of an object that somebody has changed is a Conflict, so
freshness is all that is needed. `OnlyRemoveFinalizer` shows that no other step makes
an object with the finalizer disappear.

For the third: operations that are done are filtered out of the snapshot; `CompletedInv` carries that
to the statuses waiting to be written and to the chosen operation, and `TaskWriters`
lists the four steps that write a task at all.

`CCOperationRecordProofs` proves, on top of `SerialInv`:

- `RecordedEndIsRealHolds`: `Spec => []RecordedEndIsReal`,
- `HistoryIsExactHolds`: `Spec => []HistoryIsExact`,
- `ImplementsLifecycleHolds`: `Spec => ImplementsLifecycle`.

A record is written some steps after the poll or the answer it rests on. Its invariants
relate what is recorded, in the API server, in the snapshot and in the results waiting to
be written, to the task in Cruise Control: a task belongs to one operation, goes only
forward, and the history holds the failed tasks of the operation in order, each once.
The refinement has one lemma per action: it is a step of the abstract operation or leaves
what others see of it alone.

`GracefulActionProofs` proves, for any brokers, any number of operations and any scene:

- `GracefulTypes`: `Spec => []TypeOK`,
- `RefMatchesWorkHolds`: `Spec => []RefMatchesWork`.

Both controllers write entries of the status that they read earlier. `ActionInv` therefore
says of the copies too that a running state refers to an operation for its broker and
direction (`EntriesSound`), and of the tasks between the creation of an operation and the
write of its contents that they still ask for it (`FillSound`). What an operation was
created for never changes, so that an old entry cannot become wrong.

`GracefulDrainProofs` proves

- `NoDataLostHolds`: `Spec /\ OneWay => NoDataLost`,
- `UpscaledHolds`: `Spec /\ OneWay /\ scene.budget["topic"] = 0 => []UpscaledByCruiseControl`,
- `OneOperationHolds`: `Spec /\ OneWay /\ Undisturbed => []OneOperationPerBroker`.

`OneWay` is about the initial state: no broker both joins and leaves, and users leave
operations alone. Failures, restarts, evictions, edits of the spec and errors of Cruise
Control are free. The condition on joining and leaving is needed: without it `NoDataLost`
is false (section 3). So is one on edits of operations: `NoDataLost`
excuses an operation that is told to ignore errors only as long as it is. With one edit it
is model-checked (run `turmoil`); with two it is false: a failed operation is told to
ignore errors, its downscale counts as succeeded, the policy is set back to retry, and the
broker is deleted with its data. The condition on the
topic is how the code works: a broker that is added while the topic of Cruise Control is
not there counts as upscaled at once. `DrainInv` says that
a downscale that has succeeded in any copy of the status has emptied its broker
(`EntriesOwn`), that no add_broker is ever made for a broker that leaves (`WorkDone`), and
that a broker that leaves keeps its entry as long as it has a pod (`Leaves`): a broker
without an entry is deleted without a look at its state. `UpInv` adds that the topic is
there and that entries that count as upscaled are of brokers with data.

`Undisturbed` is about the initial state too: no call fails and no pod is evicted. Each of
the conditions is needed, since a failure between the creation of an operation and the write
of the status, an evicted pod of a broker that joins, and a broker that joins, leaves and
joins again each give a second operation. `OnceInv` says that no two operations share a
broker (`WorkApart`), that a broker that was asked for is required neither in the status nor
in the tasks of the CruiseControlTask controller (`AskedOnce`), except between the creation
and the write of the schedule, and that the KafkaCluster controller, which decides on an
older copy, is about to require an action only of a broker whose action has not begun
(`NotBegun`).

`AlertManagerProofs` proves, for any alerts, clusters and limits and any number of
concurrent requests:

- `AlertTypesHold`: `Spec => []TypeOK`,
- `ActedOnceHolds`: `Spec => []ActedOnce`,
- `IdsDistinctHolds`: `Spec => []IdsDistinct`,
- `LimitsHoldHolds`: `Spec => []LimitsHold`.

Only one request is between the look-up of an alert and its Processed flag (`Exclusive`);
an alert that is not processed has edited nothing (`NotYetActed`). A request gets to its
edit only after a write of the cached object was accepted, so that at that moment the cache
has every edit, and because of the mutex it still has when the edit is made
(`EditsOnCurrent`). Users are not bound by the mutex: `IdsDistinct` and `LimitsHold` hold
until one of them edits the brokers, and if they gave the brokers different IDs, which no
webhook checks. What `RemoveBrokerFromCr` keeps of a list (`Kept`) is proved by induction
over its positions, from the least position at which the claim fails (`LeastNat`, `UpTo`):
an induction for one claim is within reach of the provers where a theorem with the claim
as a parameter is not.

`ClusterAccessProofs` proves, for any topics and users, any scene and any number of edits,
failures, outages and restarts:

- `AccessTypesHold`: `Spec => []TypeOK`,
- `FinalizedTopicIsGoneHolds`: `Spec => FinalizedTopicIsGone`,
- `TopicsBeforeUsersHolds`: `Spec /\ scene.budget["strip"] = 0 => []TopicsBeforeUsers`,
- `CreatedUserHasAccessHolds`: `Spec => []CreatedUserHasAccess`.

Three controllers act on objects they read some calls ago. What the rest of the world may
do to one topic in a step is `Evolves`: one with the finalizer disappears only by the write
of its own worker, and only if it still is the object that was read. `UnfinIsSafe` says that
this write is made only when Kafka has said that the topic is gone and stays true until it
takes effect. For a user the summary is `UserEvolves`, `WorkerMoves` and `SecretStays`; the
promise of the status (`Promise`) is kept because the certificate (`Certified`) and the
grants written so far (`GrantsDone`) outlive the rest of the pass, and because
`DeleteUserACLs` asks only for ACLs with the operation delete, which no grant has
(`AclsStay`; that is also why the ACLs of a deleted user stay, see section 3). `Types` says of the requests of the k8s-csr
backend that a secret refers only to one that was made and that a worker polls only if
there is one.

The wait of the teardown lists topics by their label and in the cache. `TeardownInv` says
that the cache lists every settled topic that exists. That needs the condition on `strip`:
a topic that has lost its label, or has it back but not yet in the cache, is missing in the
list, and TLC finds that `TopicsBeforeUsers` is then false. The finalizer of such a topic
is the concern of `FinalizedTopicIsGone`, which needs no condition.

A k8s-csr user that is deleted while its certificate is made leaves a worker that makes
request after request until its cache is updated, without a bound; no scene of `access` has
that, and the theorems include it.

`ClusterReconcileProofs` proves, for any brokers, volumes and ingress configurations, any
scene and any number of edits, taints, evictions, failures, lost writes and crashes:

- `ClusterTypes`: `Spec => []TypeOK`,
- `ClusterInSyncIsTrue`: `Spec => []InSyncIsTrue`,
- `ClusterUserEditsKept`: `Spec => UserEditsKept`,
- `ClusterDrained`: `Spec => DrainedBeforeDeletion`,
- `ClusterRestartsBounded`: `Spec => []RestartsBounded`,
- `ClusterAdvertisedIsServed`: `Spec => []AdvertisedIsServed`.

`Types` adds to the types what a pass has settled at each of its steps: it works on a broker
of the scene, and on a volume when it forgets one. Each of the others has its own invariant,
kept by every step:

- `CoreInv`, for configurations and racks. A running broker has a map, and a rack-aware one
  a recorded rack (`MapInv`); the racks and ingresses in the worker's copy are those of the
  status (`CopyInv`), since nobody else writes them; a pod that was just made has its map's
  configuration (`CreatedInv`). So "in sync" is written only when it is true, and lost only
  between a write of the map and one of the status (`InSyncInv`). A rack that is in the spec
  is in the status (`RackInv`), so that a rack is never taken for missing twice.
- `DrainInv`, for volumes. The word "removed" goes from an operation into a task, from the task
  into the status, and from there into the copy of a pass, each time some steps after it was
  read. `OpsInv`: while users leave them alone, operations retry, and go only when they have
  succeeded. `RefInv`: an entry that asks for a removal, in the status or in the tasks, refers to
  an operation that removes this volume, and the volume is in `drained` if the operation or the
  entry has succeeded; so it does not matter that tasks are laid over a newer status. `TaskInv`:
  a volume that is recorded as removed cannot be recorded as anything else by a task that was
  read before. `RemovedInv`: what the copy of a pass calls removed the status still calls so.
  Without the last two a claim could be deleted on the word of a copy that is older than
  another rebalance of the volume.
- `DownInv` and `BoundInv`, for restarts: a broker that was stopped by an upgrade and does not
  run again terminates, or is out of sync. So every such broker is in one of the two lists that
  `CheckUpgrade` counts; if it passes, there are at most `limit - 1` in the one and
  `threshold - 1` in the other, and one more makes fewer than `limit + threshold`. Both
  lists are compared with the rack of the next one. The documented `limit` alone is not kept
  (run `restarts`).
- `ServiceInv` and `AddressInv`, for addresses: what each ingress reconciler has made when
  the next one begins, and that the addresses in the maps, in the brokers and in the worker
  lead to their brokers, except while contour's services are swept (`Swept`). Services change only before the claims are looked at, and the
  ingress that is recorded for a broker is served until another one is; a new one is recorded
  only for a broker whose map has it (`CurrentInv`).

The assumptions on scenes are those of `BrokerObjects`: a limit of at least one, which the
schema of the resource demands, a threshold that is a number, and brokers, volumes and
ingress configurations that exist; no ingress configuration is called "node" or "nowhere".

`EnvoyPortsProofs` proves, for any broker IDs, any port numbers and any number of
edits:

- `Admitted`: `Spec => []AdmittedInv`,
- `ServicesAlwaysApply`: `Spec => []ServicesApply`.

`ServicesApply` is about the spec a pass works on, which may have been edited since.
`AdmittedInv` says that this copy too has passed the webhook. Then it is arithmetic:
`EnvoyServiceAccepted` (the ports of envoy's service differ and are in range, by
`checkExternalListenerStartingPort` and `checkTargetPortsCollisionForEnvoy`; different
brokers have different ports because their IDs differ) and `KafkaServiceAccepted` (the
ports of a broker's service). The assumptions are those of `EnvoyPorts`: broker IDs
are natural numbers, ports are numbers of ports, and the initial spec is admitted.

The assumptions used are those of the modules: `OpIds` is a finite set of positive
numbers (0 stands for no operation), no request is called "none", and scenes are scenes.

Only model-checked: liveness, which is out of the prover's reach (`Converges` and the other
properties under fairness), and `NoDataLost`, `UpscaledByCruiseControl`,
`OneOperationPerBroker` and `TopicsBeforeUsers` outside the conditions above, as far as the
scenes of the runs go.

## 5. Not modelled, and the plan

Not modelled:

- KRaft: controller-only nodes and their order of upgrade.
- Per-broker `Config` other than the advertised listeners, and cluster-wide dynamic
  configuration: they are sent to Kafka as they are and have no state of their own
  beyond the one that `ReconcileDynamic` has.
- The contents of pods, services, deployments, disruption budgets and monitoring
  objects: rendered from the spec, applied by `k8sutil.Reconcile`.
- The clean-up of unused resources of envoy, istio and contour, and host name
  overrides of brokers.
- Log directories that hold partitions and are not in the spec, and the choice between
  JBOD and other capacity for a rebalance; the capacity configuration of Cruise Control.
- Issuers and certificate authorities of the PKI.
- The properties library (a string format) and start-up (flags and wiring).

What is left to prove is `NoDataLost` for operations that users edit, with an excuse that
remembers the edits.
