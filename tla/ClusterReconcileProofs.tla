----------------------- MODULE ClusterReconcileProofs -----------------------
(***************************************************************************)
(* Proofs about the passes of the KafkaCluster controller, for any number  *)
(* of brokers, volumes, ingresses and scenes.                              *)
(*                                                                         *)
(* First what every action does to every variable: the types come out of   *)
(* that. Then four groups of invariants, each kept by every step:          *)
(* configurations and racks, volumes, restarts, addresses.                 *)
(***************************************************************************)
EXTENDS ClusterReconcile, FiniteSetTheorems, TLAPS

-----------------------------------------------------------------------------
(* Types. *)

\* The specs that there are.
SpecTypes == [Brokers -> SpecEntry]

\* A status: all its fields, each with its type.
StatusOK(s) ==
  /\ s = [state |-> s.state, entry |-> s.entry, config |-> s.config, dynamic |-> s.dynamic,
          rack |-> s.rack, ingress |-> s.ingress, volume |-> s.volume, errors |-> s.errors]
  /\ s.state \in {"reconciling", "running", "upgrading"}
  /\ s.entry \in [Brokers -> BOOLEAN] /\ s.rack \in [Brokers -> BOOLEAN]
  /\ s.config \in [Brokers -> {"", "in", "out"}]
  /\ s.dynamic \in [Brokers -> {"", "in", "out", "error"}]
  /\ s.ingress \in [Brokers -> Ingresses \cup {""}]
  /\ s.volume \in [Brokers -> [Paths -> VolumeStates]] /\ s.errors \in Nat

\* A pod: all its fields, in one of the phases.
IsPod(p) ==
  /\ p = [phase |-> p.phase, version |-> p.version, static |-> p.static, address |-> p.address,
          disks |-> p.disks, taint |-> p.taint]
  /\ p.phase \in Phases
\* Every broker has a pod, or NoPod.
PodsOK == pod = [b \in Brokers |-> pod[b]] /\ \A b \in Brokers : IsPod(pod[b])

\* A configuration map: all its fields, with an address that exists or none.
IsMap(m) ==
  /\ m = [exists |-> m.exists, static |-> m.static, address |-> m.address]
  /\ m.exists \in BOOLEAN /\ m.address \in Doors \cup {"", "nowhere"}
\* Every broker has a configuration map, or NoMap.
MapsOK == map = [b \in Brokers |-> map[b]] /\ \A b \in Brokers : IsMap(map[b])

\* A service leads to brokers of the scene only.
IsService(s) ==
  /\ s = [exists |-> s.exists, ports |-> s.ports, routes |-> s.routes, address |-> s.address]
  /\ s.ports \subseteq InScene /\ s.routes \subseteq InScene
\* Every door has a service, or NoService.
ServicesOK == service = [i \in Doors |-> service[i]] /\ \A i \in Doors : IsService(service[i])

\* The claims have their states.
ClaimsOK == claim \in [Brokers -> [Paths -> {"none", "pending", "bound", "deleting"}]]
\* Volumes of brokers have been emptied.
DrainedOK == drained \subseteq Brokers \X Paths
\* Disk operations are about volumes of brokers.
OpsOK == /\ ops \in [OpIds -> Operation!LifecycleObject]
         /\ work \in [OpIds -> [kind : {"", "rebalance", "remove"}, of : SUBSET (Brokers \X Paths)]]
\* The task controller knows the volumes of its tasks, and the operation it is making.
TaskOK == /\ task = [pc |-> task.pc, tasks |-> task.tasks, op |-> task.op]
          /\ task.pc \in {"idle", "list", "sync", "plan", "fill", "schedule"}
          /\ task.tasks \in [Brokers -> [Paths -> VolumeStates]] /\ task.op \in OpIds \cup {NoOp}
          /\ task.pc = "fill" => task.op \in OpIds /\ work[task.op].kind \in {"rebalance", "remove"}
\* Only brokers of the scene are restarted.
SyncOK == sync \in [Brokers -> BOOLEAN] /\ restarted \subseteq InScene
\* No more is left of the budget than there was.
BudgetOK == left \in [Events -> Nat] /\ \A e \in Events : left[e] <= scene.budget[e]

\* Where the pass works on the volume claims ...
ClaimPcs == {"claims", "forget"}
\* ... on one of the brokers ...
BrokerPcs == {"config", "configOut", "dynamicOut", "pod", "ingressIn", "configIn", "dynamicIn",
              "rack", "rackStatus", "upgrade", "check", "restart", "delete", "jmx", "dynamic", "alter",
              "altered"}
\* ... where it knows the addresses of the brokers ...
AddressedPcs == ClaimPcs \cup BrokerPcs \cup {"order", "next"}
\* ... and where it is in a pass at all.
WorkerPcs == AddressedPcs \cup {"ingress", "routes", "nodeports", "contour", "listeners"}

\* What reconcileKafkaPvc marks volumes with.
Marks == {NoVolume, Volume("remove", "Required", NoOp), Volume("rebalance", "Required", NoOp)}

\* The worker's copy is a resource.
CopyOK == /\ w.cr = [spec |-> w.cr.spec, status |-> w.cr.status]
          /\ w.cr.spec \in SpecTypes /\ StatusOK(w.cr.status)

\* The worker has all its fields.
IsWorker(r) ==
  r = [pc |-> r.pc, cr |-> r.cr, spec |-> r.spec, pods |-> r.pods, todo |-> r.todo,
       broker |-> r.broker, path |-> r.path, doors |-> r.doors, door |-> r.door,
       address |-> r.address, marks |-> r.marks, wait |-> r.wait, failed |-> r.failed]

\* What the worker knows at each place of the pass.
WorkerOK ==
  /\ IsWorker(w)
  /\ w.pc \in WorkerPcs \cup {"idle"}
  /\ w.pc # "idle" => CopyOK
  /\ w.todo \subseteq InScene /\ w.doors \subseteq Ingresses
  /\ w.pc = "routes" => w.door \in Ingresses
  /\ w.pc \in ClaimPcs => w.marks \in [Brokers -> [Paths -> Marks]]
  /\ w.pc \in ClaimPcs \cup BrokerPcs \cup {"next"} => w.spec \in SpecTypes
  /\ w.pc \in AddressedPcs => w.address \in [InScene -> Doors \cup {"nowhere"}]
  /\ w.pc = "forget" => w.broker \in Brokers /\ w.path \in Paths
  /\ w.pc \in BrokerPcs => w.broker \in InScene

\* The types of all variables: TypeOK and what the proof of TypeOK needs besides.
Types ==
  /\ scene \in Scenes /\ spec \in SpecTypes /\ StatusOK(status)
  /\ PodsOK /\ MapsOK /\ ServicesOK /\ ClaimsOK /\ DrainedOK /\ OpsOK /\ TaskOK
  /\ SyncOK /\ BudgetOK /\ WorkerOK

-----------------------------------------------------------------------------
(* The invariants. *)

\* A running broker has a configuration map, and with rack awareness a map means a known
\* rack.
MapInv ==
  \A b \in Brokers : /\ pod[b].phase = "running" => map[b].exists
                     /\ scene.rackAware /\ map[b].exists => status.rack[b]

\* What the worker knows of the status, but for the volumes, is what the status says.
CopyInv ==
  w.pc # "idle" => w.cr.status.rack = status.rack /\ w.cr.status.ingress = status.ingress

\* A pod that was just created has what its map says, if it runs already.
CreatedInv ==
  w.pc \in {"ingressIn", "configIn"} /\ pod[w.broker].phase = "running" =>
    pod[w.broker].static = map[w.broker].static /\ pod[w.broker].address = map[w.broker].address

\* InSyncIsTrue, for all brokers.
InSyncInv ==
  Unspent("fail") /\ Unspent("crash") =>
    \A b \in Brokers :
      pod[b].phase = "running" /\ status.config[b] = "in" /\ ~(w.pc = "configOut" /\ w.broker = b)
        => pod[b].static = map[b].static

\* The rack is in the spec of a broker only when it is in the status, or about to be
\* written there.
RackInv ==
  Unspent("crash") =>
    \A b \in Brokers : spec[b].rack => status.rack[b] \/ (w.pc = "rackStatus" /\ w.broker = b)

\* A broker that a rolling upgrade stopped is one that the next check counts: its pod
\* terminates, or it is out of sync. Without the first half the bound could not be kept.
DownInv ==
  ~scene.lag =>
    \A b \in restarted :
      \/ pod[b].phase = "stopping"
      \/ pod[b].phase \in {"none", "created", "waiting"} /\ ~sync[b]

\* RestartsBounded, and that the restart that was just allowed keeps it.
BoundInv ==
  ~scene.lag =>
    /\ Cardinality(restarted) < scene.limit + scene.threshold
    /\ w.pc = "restart" => Cardinality(restarted \ {w.broker}) + 1 < scene.limit + scene.threshold
    /\ scene.limit > 1 => \A a, b \in restarted : scene.zone[a] = scene.zone[b]
    /\ w.pc = "restart" /\ scene.limit > 1 => \A b \in restarted : scene.zone[b] = scene.zone[w.broker]

\* While users leave the operations alone, each of them retries, goes only when it has
\* succeeded, and is not executed before it says what to do.
OpsInv ==
  Unspent("opEdit") =>
    \A o \in OpIds : /\ ops[o].policy = "retry" /\ ~ops[o].deleting
                     /\ ops[o].phase = "gone" => ops[o].state = "Completed"
                     /\ ~ops[o].set => ops[o].state = ""

\* An entry that asks for the removal of a volume refers to an operation that removes this
\* volume, and the volume has been emptied if that operation, or the entry, has succeeded.
GroundedIn(e, v, all, jobs, empty) ==
  e.kind = "remove" =>
    /\ e.ref # NoOp => /\ all[e.ref].phase # "unborn" /\ jobs[e.ref].kind = "remove"
                       /\ v \in jobs[e.ref].of
                       /\ all[e.ref].state = "Completed" => v \in empty
    /\ e.stage = "Succeeded" => v \in empty

Grounded(e, v) == GroundedIn(e, v, ops, work, drained)

\* So it is in the status, and in what the task controller is about to lay over it.
RefInv ==
  Unspent("opEdit") =>
    \A b \in Brokers, p \in Paths : /\ Grounded(status.volume[b][p], <<b, p>>)
                                    /\ Grounded(task.tasks[b][p], <<b, p>>)

\* The task controller makes an operation of all the volumes that require it, starts from tasks
\* that are not done, and lays nothing else over a volume called removed.
TaskInv ==
  /\ task.pc = "fill" => work[task.op].of = RequiredTasks(work[task.op].kind)
  /\ task.pc = "list" => \A b \in Brokers, p \in Paths : task.tasks[b][p].stage # "Succeeded"
  /\ \A b \in Brokers, p \in Paths :
       IsDiskRemovalSucceeded(status.volume[b][p]) =>
         task.tasks[b][p] = NoVolume \/ IsDiskRemovalSucceeded(task.tasks[b][p])

\* The copy of the pass calls a volume removed only when the status still does.
RemovedInv ==
  w.pc # "idle" =>
    \A b \in Brokers, p \in Paths :
      IsDiskRemovalSucceeded(w.cr.status.volume[b][p]) => IsDiskRemovalSucceeded(status.volume[b][p])

\* What keeps the claims of volumes that have not been emptied.
DrainInv == OpsInv /\ RefInv /\ TaskInv /\ RemovedInv

\* The addresses that there are.
WayAddresses == IF scene.way = "nodeport" THEN {"node", "nowhere"} ELSE Ingresses
\* An address of the way in; if it is one of a load balancer, the load balancer has it.
Given(a) == a \in WayAddresses /\ (a \in Ingresses => HasAddress(a))
\* It leads to the broker, ...
Safe(a, b) == a # "nowhere" => Leads(a, b) \/ Swept
\* ... at least as long as no other ingress is recorded for the broker.
SafeNow(a, b) == a \in {status.ingress[b], "node"} => Leads(a, b) \/ Swept

\* The addresses in the maps, in the running brokers and in the pass are given and lead to
\* the brokers.
AddressInv ==
  \A b \in InScene :
    /\ map[b].exists => Given(map[b].address) /\ SafeNow(map[b].address, b)
    /\ pod[b].phase = "running" => Given(pod[b].address) /\ SafeNow(pod[b].address, b)
    /\ w.pc \in AddressedPcs => Given(w.address[b]) /\ Safe(w.address[b], b)

\* The map of the broker at hand has the address of this pass.
CurrentInv ==
  w.pc \in {"configOut", "dynamicOut", "pod", "ingressIn"} /\ map[w.broker].exists =>
    map[w.broker].address = w.address[w.broker]

\* What the steps of the ingress reconcilers have made when the next one begins.
ServiceInv ==
  /\ w.pc \in {"ingress", "routes"} => LoadBalanced
  /\ w.pc \in {"nodeports", "contour"} => ~LoadBalanced
  /\ w.pc = "contour" => scene.way = "contour"
  /\ w.pc \in {"ingress", "routes"} =>
       \A i \in InUse \ w.doors :
         /\ Included(i) \subseteq service[i].ports
         /\ (w.pc = "routes" /\ i = w.door) \/ Included(i) \subseteq service[i].routes
  /\ w.pc = "listeners" /\ LoadBalanced =>
       \A i \in InUse : Included(i) \subseteq service[i].ports \cap service[i].routes
  /\ w.pc = "listeners" /\ ~LoadBalanced => InScene \subseteq service["node"].ports
  /\ w.pc = "listeners" /\ scene.way = "contour" =>
       \A i \in InUse : HasAddress(i) /\ InScene \subseteq service[i].routes

\* The brokers of a scene are brokers.
LEMMA SceneFacts == ASSUME scene \in Scenes PROVE InScene \subseteq Brokers
BY ScenesAssumption DEF InScene

\* The types of the proof are those of the specification.
LEMMA TypesImply == Types => TypeOK
BY SceneFacts
DEF Types, TypeOK, StatusOK, PodsOK, IsPod, MapsOK, IsMap, ServicesOK, IsService, ClaimsOK,
       DrainedOK, OpsOK, TaskOK, SyncOK, BudgetOK, SpecTypes

\* What a step leaves alone keeps its type.
LEMMA Frame ==
  ASSUME Types, UNCHANGED scene
  PROVE  /\ scene' \in Scenes /\ InScene' = InScene /\ InScene \subseteq Brokers
         /\ UNCHANGED spec => spec' \in SpecTypes
         /\ UNCHANGED status => StatusOK(status')
         /\ UNCHANGED pod => PodsOK'
         /\ UNCHANGED map => MapsOK'
         /\ UNCHANGED service => ServicesOK'
         /\ UNCHANGED claim => ClaimsOK'
         /\ UNCHANGED drained => DrainedOK'
         /\ UNCHANGED opVars => OpsOK'
         /\ UNCHANGED <<opVars, task>> => TaskOK'
         /\ UNCHANGED <<work, task>> => TaskOK'
         /\ UNCHANGED <<sync, restarted>> => SyncOK'
         /\ UNCHANGED left => BudgetOK'
         /\ UNCHANGED w => WorkerOK'
<1>1. /\ scene' \in Scenes /\ InScene' = InScene /\ InScene \subseteq Brokers
  BY SceneFacts DEF Types, InScene
<1>2. /\ UNCHANGED spec => spec' \in SpecTypes
      /\ UNCHANGED status => StatusOK(status')
  BY DEF Types, SpecTypes
<1>3. UNCHANGED pod => PodsOK'
  BY DEF Types, PodsOK
<1>4. UNCHANGED map => MapsOK'
  BY DEF Types, MapsOK
<1>5. UNCHANGED service => ServicesOK'
  BY <1>1 DEF Types, ServicesOK, IsService
<1>6. /\ UNCHANGED claim => ClaimsOK'
      /\ UNCHANGED drained => DrainedOK'
      /\ UNCHANGED opVars => OpsOK'
      /\ UNCHANGED <<opVars, task>> => TaskOK'
      /\ UNCHANGED <<work, task>> => TaskOK'
  BY DEF Types, ClaimsOK, DrainedOK, OpsOK, TaskOK, opVars
<1>7. UNCHANGED <<sync, restarted>> => SyncOK'
  BY <1>1 DEF Types, SyncOK
<1>8. UNCHANGED left => BudgetOK'
  BY DEF Types, BudgetOK
<1>9. UNCHANGED w => WorkerOK'
  BY <1>1 DEF Types, WorkerOK, CopyOK
<1>. QED
  BY <1>1, <1>2, <1>3, <1>4, <1>5, <1>6, <1>7, <1>8, <1>9

\* An event that is spent is no longer unspent, and none becomes unspent.
LEMMA SpendTypes ==
  ASSUME Types, UNCHANGED scene, NEW e \in Events, Spend(e)
  PROVE  /\ BudgetOK' /\ ~Unspent(e)'
         /\ \A x \in Events : Unspent(x)' => Unspent(x)
<1>1. /\ left \in [Events -> Nat] /\ scene.budget \in [Events -> Nat]
      /\ \A x \in Events : left[x] <= scene.budget[x]
  BY ScenesAssumption DEF Types, BudgetOK
<1>2. left' = [left EXCEPT ![e] = @ - 1] /\ left[e] > 0
  BY DEF Spend
<1>. HIDE DEF Events
<1>3. left' \in [Events -> Nat] /\ left'[e] = left[e] - 1
  BY <1>1, <1>2
<1>4. \A x \in Events : x # e => left'[x] = left[x]
  BY <1>1, <1>2
<1>5. \A x \in Events : left'[x] <= scene'.budget[x]
  BY <1>1, <1>3, <1>4
<1>. QED
  BY <1>1, <1>3, <1>4, <1>5 DEF BudgetOK, Unspent

-----------------------------------------------------------------------------
(* The worker. *)

\* The worker stays with its broker, its spec, its addresses and its marks.
SameWork ==
  /\ w'.spec = w.spec /\ w'.pods = w.pods /\ w'.todo = w.todo /\ w'.broker = w.broker
  /\ w'.path = w.path /\ w'.doors = w.doors /\ w'.door = w.door /\ w'.address = w.address /\ w'.marks = w.marks

\* Goto changes the place only.
LEMMA GotoFields ==
  ASSUME IsWorker(w), NEW x, Goto(x)
  PROVE  IsWorker(w') /\ w'.pc = x /\ w'.cr = w.cr /\ SameWork
BY DEF IsWorker, Goto, SameWork

\* WriteStatus changes the place and brings the copy up to date.
LEMMA WriteFields ==
  ASSUME IsWorker(w), NEW x, NEW new, WriteStatus(new, x)
  PROVE  /\ IsWorker(w') /\ w'.pc = x /\ SameWork /\ status' = new
         /\ w'.cr.spec = spec /\ w'.cr.status = new
         /\ w'.cr = [spec |-> w'.cr.spec, status |-> w'.cr.status]
<1>1. status' = new /\ w' = [w EXCEPT !.pc = x, !.cr = [spec |-> spec, status |-> new]]
  BY DEF WriteStatus
<1>2. IsWorker(w') /\ w'.pc = x /\ SameWork /\ w'.cr = [spec |-> spec, status |-> new]
  BY <1>1 DEF IsWorker, SameWork
<1>. QED
  BY <1>1, <1>2

\* A worker that ends its pass is a worker.
LEMMA EndFields ==
  ASSUME Types, EndPass, UNCHANGED scene
  PROVE  w'.pc = "idle" /\ WorkerOK'
<1>1. w'.pc = "idle" /\ IsWorker(w') /\ w'.todo = {} /\ w'.doors = {}
  BY DEF EndPass, Idle, IsWorker
<1>. QED
  BY <1>1 DEF WorkerOK, WorkerPcs, AddressedPcs, ClaimPcs, BrokerPcs

\* A worker at a broker can go to any other place of the loop.
LEMMA GotoTypes ==
  ASSUME Types, UNCHANGED scene, NEW x, Goto(x), w.pc \in BrokerPcs, x \in BrokerPcs \cup {"next"}
  PROVE  WorkerOK'
<1>1. IsWorker(w') /\ w'.pc = x /\ w'.cr = w.cr /\ SameWork
  BY GotoFields DEF Types, WorkerOK
<1>2. InScene' = InScene
  BY Frame
<1>. QED
  BY <1>1, <1>2
  DEF Types, WorkerOK, CopyOK, SameWork, WorkerPcs, AddressedPcs, ClaimPcs, BrokerPcs

\* So it can with a status that it wrote.
LEMMA WriteTypes ==
  ASSUME Types, UNCHANGED scene, NEW x, NEW new, WriteStatus(new, x), StatusOK(new),
         w.pc \in BrokerPcs, x \in BrokerPcs \cup {"next"}
  PROVE  WorkerOK' /\ StatusOK(status')
<1>1. /\ IsWorker(w') /\ w'.pc = x /\ SameWork /\ status' = new
      /\ w'.cr.spec = spec /\ w'.cr.status = new
      /\ w'.cr = [spec |-> w'.cr.spec, status |-> w'.cr.status]
  BY WriteFields DEF Types, WorkerOK
<1>2. InScene' = InScene
  BY Frame
<1>3. CopyOK'
  BY <1>1 DEF CopyOK, Types
<1>. QED
  BY <1>1, <1>2, <1>3 DEF Types, WorkerOK, SameWork, WorkerPcs, AddressedPcs, ClaimPcs, BrokerPcs

-----------------------------------------------------------------------------
(* The status. *)

\* A new state of the cluster is a status, with the rest as it was.
LEMMA StateWritten ==
  ASSUME StatusOK(status), NEW x \in {"reconciling", "running", "upgrading"}, NEW n,
         n = [status EXCEPT !.state = x]
  PROVE  /\ StatusOK(n) /\ n.entry = status.entry /\ n.config = status.config
         /\ n.dynamic = status.dynamic /\ n.rack = status.rack /\ n.ingress = status.ingress
         /\ n.volume = status.volume
BY DEF StatusOK

\* So is a configuration that is out of sync, ...
LEMMA ConfigWritten ==
  ASSUME StatusOK(status), NEW b \in Brokers, NEW n,
         n = [status EXCEPT !.config[b] = "out", !.entry[b] = TRUE]
  PROVE  /\ StatusOK(n) /\ n.config = [status.config EXCEPT ![b] = "out"]
         /\ n.dynamic = status.dynamic /\ n.rack = status.rack /\ n.ingress = status.ingress
         /\ n.volume = status.volume
BY DEF StatusOK

\* ... a new state of the dynamic configuration, ...
LEMMA DynamicWritten ==
  ASSUME StatusOK(status), NEW b \in Brokers, NEW x \in {"in", "out", "error"}, NEW n,
         n = [status EXCEPT !.dynamic[b] = x, !.entry[b] = TRUE]
  PROVE  /\ StatusOK(n) /\ n.config = status.config /\ n.rack = status.rack
         /\ n.ingress = status.ingress /\ n.volume = status.volume
BY DEF StatusOK

\* ... the ingress and the configuration of a broker with a new pod, ...
LEMMA IngressWritten ==
  ASSUME StatusOK(status), NEW b \in Brokers, NEW i \in Ingresses, NEW n,
         n = [status EXCEPT !.ingress[b] = i, !.entry[b] = TRUE]
  PROVE  /\ StatusOK(n) /\ n.config = status.config /\ n.rack = status.rack
         /\ n.ingress = [status.ingress EXCEPT ![b] = i] /\ n.volume = status.volume
BY DEF StatusOK

\* ... which is then called in sync, ...
LEMMA ConfigInWritten ==
  ASSUME StatusOK(status), NEW b \in Brokers, NEW n,
         n = [status EXCEPT !.config[b] = "in", !.entry[b] = TRUE]
  PROVE  /\ StatusOK(n) /\ n.config = [status.config EXCEPT ![b] = "in"]
         /\ n.rack = status.rack /\ n.ingress = status.ingress /\ n.volume = status.volume
BY DEF StatusOK

\* ... one with a rack, ...
LEMMA RackWritten ==
  ASSUME StatusOK(status), NEW b \in Brokers, NEW n, n = [status EXCEPT !.rack[b] = TRUE]
  PROVE  /\ StatusOK(n) /\ n.config = status.config
         /\ n.rack = [status.rack EXCEPT ![b] = TRUE] /\ n.ingress = status.ingress
         /\ n.volume = status.volume
BY DEF StatusOK

\* ... one with other volume states, ...
LEMMA VolumesWritten ==
  ASSUME StatusOK(status), NEW f \in [Brokers -> [Paths -> VolumeStates]],
         NEW e \in [Brokers -> BOOLEAN], NEW n,
         n = [status EXCEPT !.volume = f, !.entry = e] \/ n = [status EXCEPT !.volume = f]
  PROVE  /\ StatusOK(n) /\ n.config = status.config /\ n.rack = status.rack
         /\ n.ingress = status.ingress /\ n.volume = f
BY DEF StatusOK

\* ... and one with another count of alerts.
LEMMA ErrorsWritten ==
  ASSUME StatusOK(status), NEW k \in Nat, NEW n, n = [status EXCEPT !.errors = k]
  PROVE  /\ StatusOK(n) /\ n.config = status.config /\ n.rack = status.rack
         /\ n.ingress = status.ingress /\ n.volume = status.volume
BY DEF StatusOK

-----------------------------------------------------------------------------
(* The steps of the loop over the brokers. *)

\* In the loop the worker has a broker of the scene, its spec and its address.
LEMMA AtBroker ==
  ASSUME Types, w.pc \in BrokerPcs
  PROVE  /\ w.broker \in InScene /\ w.broker \in Brokers
         /\ w.spec \in SpecTypes /\ w.spec[w.broker] \in SpecEntry
         /\ w.address \in [InScene -> Doors \cup {"nowhere"}]
         /\ CopyOK
BY Frame, SceneFacts DEF Types, WorkerOK, SpecTypes, AddressedPcs, BrokerPcs

\* ReconcileMap keeps the types.
LEMMA ReconcileMapTypes ==
  ASSUME Types, ReconcileMap, UNCHANGED service
  PROVE  Types'
<1>1. w.pc \in BrokerPcs /\ UNCHANGED <<scene, spec, status, pod, left, volumeVars, sync, restarted>>
  BY DEF ReconcileMap, At, BrokerPcs
<1>2. w.broker \in Brokers /\ DesiredMap.address \in Doors \cup {"nowhere"} /\ IsMap(DesiredMap)
  BY <1>1, AtBroker DEF DesiredMap, AdvertisedListenerConfig, B, IsMap
<1>3. UNCHANGED map \/ map' = [map EXCEPT ![w.broker] = DesiredMap]
  BY DEF ReconcileMap, B
<1>4. MapsOK'
  BY <1>2, <1>3 DEF Types, MapsOK
<1>5. PICK x \in BrokerPcs : Goto(x)
  BY DEF ReconcileMap, BrokerPcs
<1>6. WorkerOK'
  BY <1>1, <1>5, GotoTypes
<1>. QED
  BY <1>1, <1>4, <1>6, Frame DEF Types, volumeVars

\* ConfigOutOfSync keeps the types.
LEMMA ConfigOutOfSyncTypes ==
  ASSUME Types, ConfigOutOfSync, UNCHANGED service
  PROVE  Types'
<1>1. w.pc \in BrokerPcs /\ UNCHANGED <<scene, spec, pod, volumeVars, podVars>>
  BY DEF ConfigOutOfSync, At, BrokerPcs
<1>2. w.broker \in Brokers /\ StatusOK(status)
  BY <1>1, AtBroker DEF Types
<1>3. CASE Spend("fail") /\ Goto("pod") /\ UNCHANGED status
  <2>1. WorkerOK'
    BY <1>1, <1>3, GotoTypes DEF BrokerPcs
  <2>2. BudgetOK'
    BY <1>1, <1>3, SpendTypes DEF Events
  <2>. QED
    BY <1>1, <1>3, <2>1, <2>2, Frame DEF Types, volumeVars, podVars
<1>4. CASE UNCHANGED left /\ \E new : StatusOK(new) /\ WriteStatus(new, "pod")
  <2>1. WorkerOK' /\ StatusOK(status')
    BY <1>1, <1>4, WriteTypes DEF BrokerPcs
  <2>. QED
    BY <1>1, <1>4, <2>1, Frame DEF Types, volumeVars, podVars
<1>. QED
  BY <1>2, <1>3, <1>4, ConfigWritten, DynamicWritten DEF ConfigOutOfSync, B

\* A nonempty set of numbers has a least one.
LEMMA LeastNat ==
  ASSUME NEW T, T \subseteq Nat, T # {}
  PROVE  \E x \in T : \A y \in T : x <= y
<1>1. PICK x \in T : \A y \in T : ~(<<y, x>> \in OpToRel(<, Nat))
  BY NatLessThanWellFounded, WFMin
<1>2. \A y \in T : ~(y < x)
  BY <1>1 DEF OpToRel
<1>. QED
  BY <1>2

\* The broker that comes next is one of those to do: the order of reorderBrokers has a
\* least element in every nonempty set.
LEMMA FollowingIsOne ==
  ASSUME NEW T \in SUBSET Brokers, T # {}
  PROVE  Following(T) \in T
<1>0. \A b \in T : Priority(b) \in Nat
  BY DEF Priority
<1>1. T \subseteq Nat
  BY BrokersAssumption
<1>. HIDE DEF Priority
<1>2. PICK k \in {Priority(b) : b \in T} : \A y \in {Priority(b) : b \in T} : k <= y
  BY <1>0, LeastNat
<1>. DEFINE S == {b \in T : Priority(b) = k}
<1>3. S \subseteq Nat /\ S # {}
  BY <1>1, <1>2
<1>. HIDE DEF S
<1>4. PICK x \in S : \A y \in S : x <= y
  BY <1>3, LeastNat
<1>5. x \in T /\ Priority(x) = k /\ \A y \in T : Priority(y) = k => x <= y
  BY <1>4 DEF S
<1>6. \A a \in T \ {x} : Before(x, a)
  <2>1. TAKE a \in T \ {x}
  <2>2. k <= Priority(a) /\ Priority(a) \in Nat /\ k \in Nat /\ a \in Nat /\ x \in Nat /\ a # x
    BY <1>0, <1>1, <1>2, <1>5, <2>1
  <2>3. Priority(a) = k => x <= a
    BY <1>5, <2>1
  <2>. QED
    BY <1>5, <2>2, <2>3 DEF Before
<1>. QED
  BY <1>5, <1>6 DEF Following

\* ListBrokers keeps the types and the worker's copy of the resource.
LEMMA ListBrokersTypes ==
  ASSUME Types, ListBrokers, UNCHANGED service
  PROVE  /\ Types' /\ w.pc = "order" /\ w'.pc = "next"
         /\ w'.cr = w.cr /\ w'.address = w.address
<1>1. /\ w.pc = "order" /\ UNCHANGED <<scene, spec, status, pod, left, volumeVars, podVars>>
      /\ w' = [w EXCEPT !.pc = "next", !.todo = InScene, !.spec = w.cr.spec, !.pods = pod]
  BY DEF ListBrokers, At
<1>2. /\ IsWorker(w') /\ w'.pc = "next" /\ w'.todo = InScene /\ w'.spec = w.cr.spec
      /\ w'.cr = w.cr /\ w'.address = w.address
  BY <1>1 DEF Types, WorkerOK, IsWorker
<1>3. WorkerOK'
  BY <1>1, <1>2, Frame DEF Types, WorkerOK, CopyOK, WorkerPcs, AddressedPcs, ClaimPcs, BrokerPcs
<1>. QED
  BY <1>1, <1>2, <1>3, Frame DEF Types, volumeVars, podVars

\* OrderBrokers keeps the types: the broker it takes is one of the scene.
LEMMA OrderBrokersTypes ==
  ASSUME Types, OrderBrokers, UNCHANGED service
  PROVE  /\ Types' /\ w.pc = "next" /\ w'.pc = "config" /\ w'.cr = w.cr /\ w'.address = w.address
<1>1. /\ w.pc = "next" /\ UNCHANGED <<scene, spec, status, pod, left, volumeVars, podVars>>
      /\ w' = [w EXCEPT !.pc = "config", !.broker = Following(w.todo),
                        !.todo = @ \ {Following(w.todo)}]
  BY DEF OrderBrokers, At
<1>2. Following(w.todo) \in InScene
  BY FollowingIsOne, Frame DEF OrderBrokers, Types, WorkerOK
<1>3. /\ IsWorker(w') /\ w'.pc = "config" /\ w'.broker = Following(w.todo)
      /\ w'.todo \subseteq w.todo /\ w'.spec = w.spec /\ w'.cr = w.cr /\ w'.address = w.address
  BY <1>1 DEF Types, WorkerOK, IsWorker
<1>4. WorkerOK'
  BY <1>1, <1>2, <1>3, Frame
  DEF Types, WorkerOK, CopyOK, WorkerPcs, AddressedPcs, ClaimPcs, BrokerPcs
<1>. QED
  BY <1>1, <1>3, <1>4, Frame DEF Types, volumeVars, podVars

\* The pod that the operator makes is a created one.
LEMMA DesiredPodFields ==
  IsPod(DesiredPod) /\ DesiredPod.phase = "created"
<1>1. IsPod(NoPod)
  BY DEF NoPod, IsPod, Phases
<1>2. ASSUME NEW p, IsPod(p), NEW v, NEW d, NEW q,
             q = [p EXCEPT !.phase = "created", !.version = v, !.disks = d]
      PROVE  IsPod(q) /\ q.phase = "created"
  BY <1>2 DEF IsPod, Phases
<1>. QED
  BY <1>1, <1>2 DEF DesiredPod

\* ReconcilePod keeps the types.
LEMMA ReconcilePodTypes ==
  ASSUME Types, ReconcilePod, UNCHANGED service
  PROVE  Types'
<1>1. w.pc \in BrokerPcs /\ UNCHANGED <<scene, spec, status, left, volumeVars, podVars>>
  BY DEF ReconcilePod, At, BrokerPcs
<1>2. PodsOK'
  <2>1. IsPod(DesiredPod)
    BY DesiredPodFields
  <2>2. UNCHANGED pod \/ pod' = [pod EXCEPT ![w.broker] = DesiredPod]
    BY DEF ReconcilePod, B
  <2>. QED
    BY <1>1, <2>1, <2>2 DEF Types, PodsOK
<1>3. EndPass \/ \E x \in BrokerPcs : Goto(x)
  BY DEF ReconcilePod, BrokerPcs
<1>4. WorkerOK'
  BY <1>1, <1>3, GotoTypes, EndFields
<1>. QED
  BY <1>1, <1>2, <1>4, Frame DEF Types, volumeVars, podVars

\* PodInSync keeps the types.
LEMMA PodInSyncTypes ==
  ASSUME Types, PodInSync, UNCHANGED service
  PROVE  Types'
<1>1. w.pc \in BrokerPcs /\ UNCHANGED <<scene, spec, pod, left, volumeVars, podVars>>
  BY DEF PodInSync, At, BrokerPcs
<1>2. w.broker \in Brokers /\ w.spec[w.broker].ingress \in Ingresses /\ StatusOK(status)
  BY <1>1, AtBroker DEF Types, SpecEntry
<1>3. \E x \in {"configIn", "dynamicIn", "jmx"} : \E new : StatusOK(new) /\ WriteStatus(new, x)
  BY <1>2, IngressWritten, ConfigInWritten, DynamicWritten DEF PodInSync, B, Entry
<1>4. WorkerOK' /\ StatusOK(status')
  BY <1>1, <1>3, WriteTypes DEF BrokerPcs
<1>. QED
  BY <1>1, <1>4, Frame DEF Types, volumeVars, podVars

\* The entry with the rack is an entry, and it differs in the rack only, unless the spec
\* has a rack that the status has not.
LEMMA RackOfFields ==
  ASSUME NEW b \in Brokers, CopyOK
  PROVE  /\ RackOf(b) \in SpecEntry
         /\ (w.cr.status.rack[b] \/ ~w.cr.spec[b].rack) =>
              RackOf(b) = [w.cr.spec[b] EXCEPT !.rack = TRUE]
BY DEF RackOf, SpecEntry, CopyOK, SpecTypes

\* WriteRack ends the pass, or writes the entry of one broker in a resource that nobody has
\* changed since it was read.
LEMMA WriteRackFields ==
  ASSUME Types, WriteRack
  PROVE  /\ w.pc = "rack" /\ UNCHANGED <<scene, status, pod, left, volumeVars, podVars>>
         /\ \/ EndPass /\ UNCHANGED spec
            \/ /\ w.cr.spec = spec /\ w.cr.status = status
               /\ spec' = [spec EXCEPT ![w.broker] = RackOf(w.broker)]
               /\ IsWorker(w') /\ w'.pc = "rackStatus" /\ SameWork
               /\ w'.cr = [spec |-> spec', status |-> w.cr.status]
<1>1. /\ w.pc = "rack" /\ UNCHANGED <<scene, status, pod, left, volumeVars, podVars>>
  BY DEF WriteRack, At
<1>2. CASE /\ UpToDateCopy
           /\ spec' = [w.cr.spec EXCEPT ![B] = RackOf(B)]
           /\ w' = [w EXCEPT !.pc = "rackStatus", !.cr.spec = spec']
  <2>1. w.cr.spec = spec /\ w.cr.status = status
    BY <1>2 DEF UpToDateCopy
  <2>2. w.cr = [spec |-> w.cr.spec, status |-> w.cr.status] /\ IsWorker(w)
    BY <1>1 DEF Types, WorkerOK, CopyOK
  <2>3. spec' = [spec EXCEPT ![w.broker] = RackOf(w.broker)]
    BY <1>2, <2>1 DEF B
  <2>4. w' = [w EXCEPT !.pc = "rackStatus", !.cr = [spec |-> spec', status |-> w.cr.status]]
    <3>1. [w.cr EXCEPT !.spec = spec'] = [spec |-> spec', status |-> w.cr.status]
      BY <2>2
    <3>2. w' = [[w EXCEPT !.pc = "rackStatus"] EXCEPT
                  !.cr = [[w EXCEPT !.pc = "rackStatus"].cr EXCEPT !.spec = spec']]
      BY <1>2
    <3>3. [w EXCEPT !.pc = "rackStatus"].cr = w.cr
      BY <2>2 DEF IsWorker
    <3>. QED
      BY <3>1, <3>2, <3>3
  <2>5. /\ IsWorker(w') /\ w'.pc = "rackStatus" /\ SameWork
        /\ w'.cr = [spec |-> spec', status |-> w.cr.status]
    BY <2>2, <2>4 DEF IsWorker, SameWork
  <2>. QED
    BY <1>1, <2>1, <2>3, <2>5
<1>. QED
  BY <1>1, <1>2 DEF WriteRack

\* WriteRack keeps the types.
LEMMA WriteRackTypes ==
  ASSUME Types, WriteRack, UNCHANGED service
  PROVE  Types'
<1>1. /\ w.pc = "rack" /\ UNCHANGED <<scene, status, pod, left, volumeVars, podVars>>
  BY WriteRackFields
<1>2. w.broker \in Brokers /\ CopyOK
  BY <1>1, AtBroker DEF BrokerPcs
<1>3. CASE EndPass /\ UNCHANGED spec
  BY <1>1, <1>3, EndFields, Frame DEF Types, volumeVars, podVars
<1>4. CASE /\ w.cr.spec = spec /\ w.cr.status = status
           /\ spec' = [spec EXCEPT ![w.broker] = RackOf(w.broker)]
           /\ IsWorker(w') /\ w'.pc = "rackStatus" /\ SameWork
           /\ w'.cr = [spec |-> spec', status |-> w.cr.status]
  <2>1. spec' \in SpecTypes
    BY <1>2, <1>4, RackOfFields DEF Types, SpecTypes
  <2>2. CopyOK'
    BY <1>4, <2>1 DEF CopyOK, Types
  <2>3. WorkerOK'
    BY <1>1, <1>4, <2>2, Frame
    DEF Types, WorkerOK, SameWork, WorkerPcs, AddressedPcs, ClaimPcs, BrokerPcs
  <2>. QED
    BY <1>1, <2>1, <2>3, Frame DEF Types, volumeVars, podVars
<1>. QED
  BY <1>3, <1>4, WriteRackFields

\* WriteRackStatus keeps the types.
LEMMA WriteRackStatusTypes ==
  ASSUME Types, WriteRackStatus, UNCHANGED service
  PROVE  Types'
<1>1. w.pc \in BrokerPcs /\ UNCHANGED <<scene, spec, pod, left, volumeVars, podVars>>
  BY DEF WriteRackStatus, At, BrokerPcs
<1>2. \E new : StatusOK(new) /\ WriteStatus(new, "upgrade")
  BY <1>1, AtBroker, RackWritten DEF WriteRackStatus, B, Types
<1>3. WorkerOK' /\ StatusOK(status')
  BY <1>1, <1>2, WriteTypes DEF BrokerPcs
<1>. QED
  BY <1>1, <1>3, Frame DEF Types, volumeVars, podVars

\* CompareBroker keeps the types.
LEMMA CompareBrokerTypes ==
  ASSUME Types, CompareBroker, UNCHANGED service
  PROVE  Types'
<1>1. w.pc \in BrokerPcs /\ UNCHANGED <<scene, spec, pod, left, volumeVars, podVars>>
  BY DEF CompareBroker, At, BrokerPcs
<1>2. CASE UNCHANGED status /\ \E x \in BrokerPcs : Goto(x)
  BY <1>1, <1>2, GotoTypes, Frame DEF Types, volumeVars, podVars
<1>3. CASE \E new : StatusOK(new) /\ WriteStatus(new, "check")
  <2>1. WorkerOK' /\ StatusOK(status')
    BY <1>1, <1>3, WriteTypes DEF BrokerPcs
  <2>. QED
    BY <1>1, <2>1, Frame DEF Types, volumeVars, podVars
<1>. QED
  BY <1>2, <1>3, StateWritten DEF CompareBroker, BrokerPcs, Types

\* CheckUpgrade keeps the types.
LEMMA CheckUpgradeTypes ==
  ASSUME Types, CheckUpgrade, UNCHANGED service
  PROVE  Types'
<1>1. w.pc \in BrokerPcs /\ UNCHANGED <<scene, spec, status, pod, left, volumeVars, podVars>>
  BY DEF CheckUpgrade, At, BrokerPcs
<1>2. EndPass \/ Goto("restart")
  BY DEF CheckUpgrade
<1>3. WorkerOK'
  BY <1>1, <1>2, GotoTypes, EndFields DEF BrokerPcs
<1>. QED
  BY <1>1, <1>3, Frame DEF Types, volumeVars, podVars

\* DeletePod ends the pass, or stops the pod of the broker at hand.
LEMMA DeletePodFields ==
  ASSUME Types, DeletePod
  PROVE  /\ w.pc \in {"restart", "delete"} /\ w.broker \in InScene
         /\ UNCHANGED <<scene, spec, status, left, volumeVars, map, sync>>
         /\ \/ EndPass /\ UNCHANGED <<pod, restarted>>
            \/ /\ Goto("jmx") /\ PodsOK' /\ pod'[w.broker].phase = "stopping"
               /\ \A b \in Brokers \ {w.broker} : pod'[b] = pod[b]
               /\ \/ restarted' = restarted
                  \/ w.pc = "restart" /\ restarted' = restarted \cup {w.broker}
<1>1. /\ w.pc \in {"restart", "delete"}
      /\ UNCHANGED <<scene, spec, status, left, volumeVars, map, sync>>
      /\ \/ EndPass /\ UNCHANGED <<pod, restarted>>
         \/ /\ Goto("jmx") /\ pod' = [pod EXCEPT ![w.broker].phase = "stopping"]
            /\ \/ restarted' = restarted
               \/ w.pc = "restart" /\ restarted' = restarted \cup {w.broker}
  BY DEF DeletePod, At, B
<1>2. w.broker \in InScene /\ w.broker \in Brokers
  BY <1>1, AtBroker DEF BrokerPcs
<1>3. pod' = [pod EXCEPT ![w.broker].phase = "stopping"] =>
        /\ PodsOK' /\ pod'[w.broker].phase = "stopping"
        /\ \A b \in Brokers \ {w.broker} : pod'[b] = pod[b]
  BY <1>2 DEF Types, PodsOK, IsPod, Phases
<1>. QED
  BY <1>1, <1>2, <1>3

\* DeletePod keeps the types.
LEMMA DeletePodTypes ==
  ASSUME Types, DeletePod, UNCHANGED service
  PROVE  Types'
<1>1. w.pc \in BrokerPcs /\ w.broker \in InScene /\ UNCHANGED <<scene, spec, status, left, volumeVars, map, sync>>
  BY DeletePodFields DEF BrokerPcs
<1>2. CASE EndPass /\ UNCHANGED <<pod, restarted>>
  BY <1>1, <1>2, EndFields, Frame DEF Types, volumeVars
<1>3. CASE Goto("jmx") /\ PodsOK' /\ restarted' \subseteq restarted \cup {w.broker}
  <2>1. WorkerOK'
    BY <1>1, <1>3, GotoTypes DEF BrokerPcs
  <2>2. SyncOK'
    BY <1>1, <1>3, Frame DEF Types, SyncOK
  <2>. QED
    BY <1>1, <1>3, <2>1, <2>2, Frame DEF Types, volumeVars
<1>. QED
  BY <1>2, <1>3, DeletePodFields

\* AskVersion keeps the types.
LEMMA AskVersionTypes ==
  ASSUME Types, AskVersion, UNCHANGED service
  PROVE  Types'
<1>1. w.pc \in BrokerPcs /\ UNCHANGED <<scene, spec, pod, left, volumeVars, podVars>>
  BY DEF AskVersion, At, BrokerPcs
<1>2. CASE WriteStatus(status, "dynamic")
  <2>1. WorkerOK' /\ StatusOK(status')
    BY <1>1, <1>2, WriteTypes DEF BrokerPcs, Types
  <2>. QED
    BY <1>1, <2>1, Frame DEF Types, volumeVars, podVars
<1>3. CASE EndPass /\ UNCHANGED status
  BY <1>1, <1>3, EndFields, Frame DEF Types, volumeVars, podVars
<1>. QED
  BY <1>2, <1>3 DEF AskVersion

\* A new address leaves the rest of the pods as it was.
LEMMA PodAddressed ==
  ASSUME PodsOK, NEW b \in Brokers, NEW a, pod' = [pod EXCEPT ![b].address = a]
  PROVE  /\ PodsOK' /\ pod'[b].address = a
         /\ pod'[b].phase = pod[b].phase /\ pod'[b].static = pod[b].static
         /\ \A c \in Brokers \ {b} : pod'[c] = pod[c]
BY DEF PodsOK, IsPod

\* An error of the dynamic configuration lets the worker go on with the next broker.
LEMMA DynamicFailsFields ==
  ASSUME IsWorker(w), DynamicFails
  PROVE  IsWorker(w') /\ w'.pc = "next" /\ w'.cr = w.cr /\ SameWork
BY DEF DynamicFails, IsWorker, SameWork

\* What a step of the dynamic configuration does to the worker and the status: it goes on with
\* the copy it had, or with the status it wrote.
DynamicWrites(x) ==
  /\ IsWorker(w') /\ w'.pc = x /\ SameWork
  /\ \/ UNCHANGED status /\ w'.cr = w.cr
     \/ /\ \E d \in {"in", "out", "error"} :
               status' = [status EXCEPT !.dynamic[w.broker] = d, !.entry[w.broker] = TRUE]
        /\ w'.cr = [spec |-> spec, status |-> status']

\* Goto, an error and a write are such steps.
LEMMA DynamicSteps ==
  ASSUME Types
  PROVE  /\ \A x : Goto(x) /\ UNCHANGED status => DynamicWrites(x)
         /\ DynamicFails /\ UNCHANGED status => DynamicWrites("next")
         /\ \A x : \A d \in {"in", "out", "error"} : Dynamic(d, x) => DynamicWrites(x)
<1>0. IsWorker(w)
  BY DEF Types, WorkerOK
<1>1. ASSUME NEW x, Goto(x), UNCHANGED status PROVE DynamicWrites(x)
  BY <1>0, <1>1, GotoFields DEF DynamicWrites
<1>2. DynamicFails /\ UNCHANGED status => DynamicWrites("next")
  BY <1>0, DynamicFailsFields DEF DynamicWrites
<1>3. ASSUME NEW x, NEW d \in {"in", "out", "error"}, Dynamic(d, x) PROVE DynamicWrites(x)
  <2>1. PICK new : new = [status EXCEPT !.dynamic[w.broker] = d, !.entry[w.broker] = TRUE]
    OBVIOUS
  <2>2. WriteStatus(new, x)
    BY <1>3, <2>1 DEF Dynamic, B
  <2>3. IsWorker(w') /\ w'.pc = x /\ SameWork /\ status' = new /\ w'.cr = [spec |-> spec, status |-> new]
    BY <1>0, <2>2, WriteFields
  <2>. QED
    BY <2>1, <2>3 DEF DynamicWrites
<1>. QED
  BY <1>1, <1>2, <1>3

\* They keep the types of the worker and of the status.
LEMMA DynamicTypes ==
  ASSUME Types, UNCHANGED <<scene, spec>>, w.pc \in BrokerPcs, NEW x \in BrokerPcs \cup {"next"},
         DynamicWrites(x)
  PROVE  WorkerOK' /\ StatusOK(status')
<1>1. StatusOK(status')
  BY AtBroker, DynamicWritten DEF DynamicWrites, Types
<1>2. CopyOK'
  BY <1>1, AtBroker DEF DynamicWrites, CopyOK, Types
<1>. QED
  BY <1>1, <1>2, Frame
  DEF DynamicWrites, Types, WorkerOK, SameWork, WorkerPcs, AddressedPcs, ClaimPcs, BrokerPcs

\* ReconcileDynamic goes on with the next broker, or with the alteration of this one.
LEMMA ReconcileDynamicFields ==
  ASSUME Types, ReconcileDynamic
  PROVE  /\ w.pc = "dynamic" /\ UNCHANGED <<scene, spec, pod, left, volumeVars, podVars>>
         /\ \E x \in {"next", "alter"} : DynamicWrites(x)
BY DynamicSteps DEF ReconcileDynamic, At

\* AlterDynamic may give a running broker the address of its map.
LEMMA AlterDynamicFields ==
  ASSUME Types, AlterDynamic
  PROVE  /\ w.pc = "alter" /\ UNCHANGED <<scene, spec, volumeVars, podVars>>
         /\ UNCHANGED left \/ Spend("invalid")
         /\ \/ UNCHANGED pod /\ DynamicWrites("next")
            \/ /\ pod[w.broker].phase = "running"
               /\ pod' = [pod EXCEPT ![w.broker].address = map[w.broker].address]
               /\ UNCHANGED status /\ DynamicWrites("altered")
<1>1. w.pc = "alter" /\ UNCHANGED <<scene, spec, volumeVars, podVars>> /\ IsWorker(w)
  BY DEF AlterDynamic, At, Types, WorkerOK
<1>2. CASE /\ Spend("invalid") /\ UNCHANGED pod
           /\ status' = [status EXCEPT !.dynamic[w.broker] = "error", !.entry[w.broker] = TRUE]
           /\ w' = [w EXCEPT !.pc = "next", !.failed = TRUE, !.cr = [spec |-> spec, status |-> status']]
  <2>1. IsWorker(w') /\ w'.pc = "next" /\ SameWork /\ w'.cr = [spec |-> spec, status |-> status']
    <3>1. PICK c : c = [spec |-> spec, status |-> status']
      OBVIOUS
    <3>2. w' = [w EXCEPT !.pc = "next", !.failed = TRUE, !.cr = c]
      BY <1>2, <3>1
    <3>3. IsWorker(w') /\ w'.pc = "next" /\ SameWork /\ w'.cr = c
      BY <1>1, <3>2 DEF IsWorker, SameWork
    <3>. QED
      BY <3>1, <3>3
  <2>. QED
    BY <1>1, <1>2, <2>1 DEF DynamicWrites
<1>3. CASE /\ pod[w.broker].phase = "running" /\ UNCHANGED <<status, left>> /\ Goto("altered")
           /\ pod' = [pod EXCEPT ![w.broker].address = map[w.broker].address]
  BY <1>1, <1>3, DynamicSteps
<1>4. CASE DynamicFails /\ UNCHANGED <<status, pod, left>>
  BY <1>1, <1>4, DynamicSteps
<1>. QED
  BY <1>2, <1>3, <1>4 DEF AlterDynamic, B, Running

\* DynamicInSync goes on with the next broker.
LEMMA DynamicInSyncFields ==
  ASSUME Types, DynamicInSync
  PROVE  /\ w.pc = "altered" /\ UNCHANGED <<scene, spec, pod, left, volumeVars, podVars>>
         /\ DynamicWrites("next")
BY DynamicSteps DEF DynamicInSync, At

\* These steps keep the types.
LEMMA DynamicStepTypes ==
  ASSUME Types, ReconcileDynamic \/ AlterDynamic \/ DynamicInSync, UNCHANGED service
  PROVE  Types'
<1>1. /\ w.pc \in BrokerPcs /\ UNCHANGED <<scene, spec, volumeVars, podVars>>
      /\ \E x \in BrokerPcs \cup {"next"} : DynamicWrites(x)
  BY ReconcileDynamicFields, AlterDynamicFields, DynamicInSyncFields DEF BrokerPcs
<1>2. WorkerOK' /\ StatusOK(status')
  BY <1>1, DynamicTypes
<1>3. UNCHANGED pod \/ pod' = [pod EXCEPT ![w.broker].address = map[w.broker].address]
  BY ReconcileDynamicFields, AlterDynamicFields, DynamicInSyncFields
<1>4. PodsOK'
  BY <1>1, <1>3, AtBroker, PodAddressed, Frame DEF Types
<1>5. UNCHANGED left \/ Spend("invalid")
  BY ReconcileDynamicFields, AlterDynamicFields, DynamicInSyncFields
<1>6. BudgetOK'
  BY <1>1, <1>5, SpendTypes, Frame DEF Events
<1>. QED
  BY <1>1, <1>2, <1>4, <1>6, Frame DEF Types, volumeVars, podVars

\* FinishPass keeps the types.
LEMMA FinishPassTypes ==
  ASSUME Types, FinishPass, UNCHANGED service
  PROVE  Types'
<1>1. /\ UNCHANGED <<scene, spec, pod, left, volumeVars, podVars>> /\ EndPass
      /\ UNCHANGED status \/ status' = [status EXCEPT !.state = "running"]
  BY DEF FinishPass
<1>2. StatusOK(status')
  BY <1>1, StateWritten DEF Types
<1>. QED
  BY <1>1, <1>2, EndFields, Frame DEF Types, volumeVars, podVars

-----------------------------------------------------------------------------
(* The steps before the loop over the brokers. *)

\* StartPass writes no more of the status than the state, and copies the resource.
LEMMA StartPassFields ==
  ASSUME Types, StartPass
  PROVE  /\ w.pc = "idle" /\ UNCHANGED <<scene, spec, pod, left, service>>
         /\ StatusOK(status') /\ status'.config = status.config /\ status'.rack = status.rack
         /\ status'.ingress = status.ingress /\ status'.volume = status.volume
         /\ IsWorker(w') /\ w'.pc = (IF LoadBalanced THEN "ingress" ELSE "nodeports")
         /\ w'.todo = {} /\ w'.cr = [spec |-> spec, status |-> status']
         /\ w'.doors = InUseFor([spec |-> spec, status |-> status'])
<1>1. /\ w.pc = "idle" /\ UNCHANGED <<scene, spec, pod, left, service>>
      /\ UNCHANGED status \/ status' = [status EXCEPT !.state = "reconciling"]
      /\ w' = [Idle EXCEPT !.pc = IF LoadBalanced THEN "ingress" ELSE "nodeports",
                           !.cr = [spec |-> spec, status |-> status'],
                           !.doors = InUseFor([spec |-> spec, status |-> status'])]
  BY DEF StartPass, At
<1>2. /\ StatusOK(status') /\ status'.config = status.config /\ status'.rack = status.rack
      /\ status'.ingress = status.ingress /\ status'.volume = status.volume
  BY <1>1, StateWritten DEF Types
<1>3. /\ IsWorker(w') /\ w'.pc = (IF LoadBalanced THEN "ingress" ELSE "nodeports")
      /\ w'.todo = {} /\ w'.cr = [spec |-> spec, status |-> status']
      /\ w'.doors = InUseFor([spec |-> spec, status |-> status'])
  <2>. DEFINE x == IF LoadBalanced THEN "ingress" ELSE "nodeports"
              c == [spec |-> spec, status |-> status']
              ds == InUseFor(c)
  <2>1. w' = [Idle EXCEPT !.pc = x, !.cr = c, !.doors = ds]
    BY <1>1
  <2>. HIDE DEF x, c, ds
  <2>2. IsWorker(w') /\ w'.pc = x /\ w'.todo = {} /\ w'.cr = c /\ w'.doors = ds
    BY <2>1 DEF Idle, IsWorker
  <2>. QED
    BY <2>2 DEF x, c, ds
<1>. QED
  BY <1>1, <1>2, <1>3

\* StartPass keeps the types.
LEMMA StartPassTypes ==
  ASSUME Types, StartPass, UNCHANGED <<volumeVars, podVars>>
  PROVE  Types'
<1>1. CopyOK'
  BY StartPassFields DEF CopyOK, Types
<1>2. WorkerOK'
  BY <1>1, StartPassFields DEF WorkerOK, InUseFor, WorkerPcs, AddressedPcs, ClaimPcs, BrokerPcs
<1>. QED
  BY <1>2, StartPassFields, Frame DEF Types, volumeVars, podVars

\* The worker at an ingress reconciler can go to the next one.
LEMMA GotoIngress ==
  ASSUME Types, UNCHANGED scene, NEW x \in {"ingress", "contour", "listeners"}, Goto(x), w.pc # "idle"
  PROVE  WorkerOK'
<1>1. IsWorker(w') /\ w'.pc = x /\ w'.cr = w.cr /\ SameWork
  BY GotoFields DEF Types, WorkerOK
<1>. QED
  BY <1>1, Frame
  DEF Types, WorkerOK, CopyOK, SameWork, WorkerPcs, AddressedPcs, ClaimPcs, BrokerPcs

\* ReconcileIngress gives one of the services the ports of its brokers.
LEMMA ReconcileIngressFields ==
  ASSUME Types, NEW i \in Ingresses, ReconcileIngress(i)
  PROVE  /\ w.pc = "ingress" /\ UNCHANGED <<scene, spec, status, pod, left>> /\ i \in w.doors
         /\ IsWorker(w') /\ w'.pc = "routes" /\ w'.doors = w.doors \ {i} /\ w'.door = i
         /\ w'.cr = w.cr /\ w'.todo = w.todo
         /\ ServicesOK'
         /\ service'[i].exists = TRUE /\ service'[i].ports = Included(i)
         /\ service'[i].routes = service[i].routes /\ service'[i].address = service[i].address
         /\ \A j \in Doors \ {i} : service'[j] = service[j]
<1>1. /\ w.pc = "ingress" /\ UNCHANGED <<scene, spec, status, pod, left>> /\ i \in w.doors
      /\ service' = [service EXCEPT ![i].exists = TRUE, ![i].ports = Included(i)]
      /\ w' = [w EXCEPT !.pc = "routes", !.doors = @ \ {i}, !.door = i]
  BY DEF ReconcileIngress, At, ExposedServicePorts, ExternalPorts
<1>2. /\ IsWorker(w') /\ w'.pc = "routes" /\ w'.doors = w.doors \ {i} /\ w'.door = i
      /\ w'.cr = w.cr /\ w'.todo = w.todo
  BY <1>1 DEF Types, WorkerOK, IsWorker
<1>3. i \in Doors /\ ServicesOK /\ Included(i) \subseteq InScene
  BY DEF Types, Doors, Included
<1>4. PICK ps : ps = Included(i)
  OBVIOUS
<1>5. PICK n : n = [service[i] EXCEPT !.exists = TRUE, !.ports = ps]
  OBVIOUS
<1>6. service' = [service EXCEPT ![i] = n]
  BY <1>1, <1>3, <1>4, <1>5 DEF ServicesOK, IsService
<1>7. /\ IsService(n) /\ n.exists = TRUE /\ n.ports = ps /\ n.routes = service[i].routes
      /\ n.address = service[i].address
  <2>1. IsService(service[i])
    BY <1>3 DEF ServicesOK
  <2>. QED
    BY <1>3, <1>4, <1>5, <2>1 DEF IsService
<1>8. service'[i] = n /\ \A j \in Doors \ {i} : service'[j] = service[j]
  BY <1>3, <1>6 DEF ServicesOK
<1>9. ServicesOK'
  BY <1>1, <1>3, <1>6, <1>7, Frame DEF ServicesOK, IsService
<1>. QED
  BY <1>1, <1>2, <1>4, <1>7, <1>8, <1>9

\* ReconcileRoutes gives the proxy behind that service the routes to its brokers.
LEMMA ReconcileRoutesFields ==
  ASSUME Types, ReconcileRoutes
  PROVE  /\ w.pc = "routes" /\ UNCHANGED <<scene, spec, status, pod, left>>
         /\ Goto(IF w.doors = {} THEN "listeners" ELSE "ingress")
         /\ ServicesOK' /\ w.door \in Ingresses
         /\ service'[w.door].exists = service[w.door].exists
         /\ service'[w.door].ports = service[w.door].ports
         /\ service'[w.door].routes = Included(w.door)
         /\ service'[w.door].address = service[w.door].address
         /\ \A j \in Doors \ {w.door} : service'[j] = service[j]
<1>1. /\ w.pc = "routes" /\ UNCHANGED <<scene, spec, status, pod, left>>
      /\ Goto(IF w.doors = {} THEN "listeners" ELSE "ingress")
      /\ service' = [service EXCEPT ![w.door].routes = Included(w.door)]
  BY DEF ReconcileRoutes, At, EnvoyConfig, Servers, TcpRoutes
<1>2. PICK i \in Ingresses : i = w.door
  BY <1>1 DEF Types, WorkerOK
<1>3. i \in Doors /\ ServicesOK /\ Included(i) \subseteq InScene
  BY <1>2 DEF Types, Doors, Included
<1>4. PICK rs : rs = Included(i)
  OBVIOUS
<1>5. PICK n : n = [service[i] EXCEPT !.routes = rs]
  OBVIOUS
<1>6. service' = [service EXCEPT ![i] = n]
  BY <1>1, <1>2, <1>3, <1>4, <1>5 DEF ServicesOK, IsService
<1>7. /\ IsService(n) /\ n.routes = rs /\ n.exists = service[i].exists
      /\ n.ports = service[i].ports /\ n.address = service[i].address
  <2>1. IsService(service[i])
    BY <1>3 DEF ServicesOK
  <2>. QED
    BY <1>3, <1>4, <1>5, <2>1 DEF IsService
<1>8. service'[i] = n /\ \A j \in Doors \ {i} : service'[j] = service[j]
  BY <1>3, <1>6 DEF ServicesOK
<1>9. ServicesOK'
  BY <1>1, <1>3, <1>6, <1>7, Frame DEF ServicesOK, IsService
<1>. QED
  BY <1>1, <1>2, <1>4, <1>7, <1>8, <1>9

\* ReconcileNodePorts makes the ports of the nodes, and takes ports away only when unused
\* resources are removed.
LEMMA ReconcileNodePortsFields ==
  ASSUME Types, ReconcileNodePorts
  PROVE  /\ w.pc = "nodeports" /\ UNCHANGED <<scene, spec, status, pod, left>>
         /\ Goto(IF scene.way = "contour" THEN "contour" ELSE "listeners")
         /\ ServicesOK'
         /\ \A i \in Doors : /\ service'[i].exists = service[i].exists
                             /\ service'[i].address = service[i].address
                             /\ service'[i].routes = service[i].routes
                             /\ i # "node" => service'[i].ports = service[i].ports
         /\ NodePorts \subseteq service'["node"].ports
         /\ ~scene.cleanup => service["node"].ports \subseteq service'["node"].ports
<1>1. /\ w.pc = "nodeports" /\ UNCHANGED <<scene, spec, status, pod, left>>
      /\ Goto(IF scene.way = "contour" THEN "contour" ELSE "listeners")
      /\ service' = [service EXCEPT !["node"].ports = IF scene.cleanup THEN NodePorts ELSE @ \cup NodePorts]
  BY DEF ReconcileNodePorts, At
<1>. DEFINE ps == IF scene.cleanup THEN NodePorts ELSE service["node"].ports \cup NodePorts
<1>2. service' = [service EXCEPT !["node"].ports = ps]
  BY <1>1
<1>3. "node" \in Doors /\ ps \subseteq InScene /\ NodePorts \subseteq ps
  BY DEF Doors, NodePorts, Types, ServicesOK, IsService
<1>4. ~scene.cleanup => service["node"].ports \subseteq ps
  OBVIOUS
<1>. HIDE DEF ps
<1>5. \A i \in Doors : /\ IsService(service'[i])
                       /\ service'[i].exists = service[i].exists
                       /\ service'[i].address = service[i].address
                       /\ service'[i].routes = service[i].routes
                       /\ i # "node" => service'[i].ports = service[i].ports
  BY <1>2, <1>3 DEF Types, ServicesOK, IsService
<1>6. service'["node"].ports = ps
  BY <1>2, <1>3 DEF Types, ServicesOK, IsService
<1>7. ServicesOK'
  BY <1>1, <1>2, <1>5, Frame DEF ServicesOK, IsService, Types
<1>. QED
  BY <1>1, <1>3, <1>4, <1>5, <1>6, <1>7

\* ReconcileContour makes the services of all brokers and the proxies in use.
LEMMA ReconcileContourFields ==
  ASSUME Types, ReconcileContour
  PROVE  /\ w.pc = "contour" /\ UNCHANGED <<scene, spec, status, pod, left>> /\ Goto("listeners")
         /\ ServicesOK'
         /\ service'["node"].ports = InScene
         /\ \A i \in Doors : i # "node" =>
              IF i \in InUse
              THEN /\ service'[i].exists = TRUE /\ service'[i].address = TRUE
                   /\ service'[i].routes = InScene /\ service'[i].ports = service[i].ports
              ELSE service'[i] = service[i]
<1>1. /\ w.pc = "contour" /\ UNCHANGED <<scene, spec, status, pod, left>> /\ Goto("listeners")
      /\ service' = [i \in Doors |->
           CASE i = "node" -> [service[i] EXCEPT !.ports = InScene]
             [] i \in InUse -> [service[i] EXCEPT !.exists = TRUE, !.address = TRUE, !.routes = InScene]
             [] OTHER -> service[i]]
  BY DEF ReconcileContour, At, BrokerServices, HttpProxies
<1>2. "node" \in Doors /\ "node" \notin InUse
  BY IngressesAssumption DEF Doors, InUse, InUseFor
<1>3. IsService(service'["node"]) /\ service'["node"].ports = InScene
  <2>1. IsService(service["node"]) /\ service'["node"] = [service["node"] EXCEPT !.ports = InScene]
    BY <1>1, <1>2 DEF Types, ServicesOK
  <2>. QED
    BY <2>1 DEF IsService
<1>4. \A i \in Doors : i # "node" =>
        /\ IsService(service'[i])
        /\ IF i \in InUse
           THEN /\ service'[i].exists = TRUE /\ service'[i].address = TRUE
                /\ service'[i].routes = InScene /\ service'[i].ports = service[i].ports
           ELSE service'[i] = service[i]
  <2>1. SUFFICES ASSUME NEW i \in Doors, i # "node"
                 PROVE  /\ IsService(service'[i])
                        /\ IF i \in InUse
                           THEN /\ service'[i].exists = TRUE /\ service'[i].address = TRUE
                                /\ service'[i].routes = InScene /\ service'[i].ports = service[i].ports
                           ELSE service'[i] = service[i]
    OBVIOUS
  <2>2. IsService(service[i])
    BY DEF Types, ServicesOK
  <2>3. ASSUME i \in InUse
        PROVE  service'[i] = [service[i] EXCEPT !.exists = TRUE, !.address = TRUE, !.routes = InScene]
    BY <1>1, <2>1, <2>3
  <2>4. i \notin InUse => service'[i] = service[i]
    BY <1>1, <2>1
  <2>5. ASSUME i \in InUse
        PROVE  /\ IsService(service'[i])
               /\ service'[i].exists = TRUE /\ service'[i].address = TRUE
               /\ service'[i].routes = InScene /\ service'[i].ports = service[i].ports
    BY <2>2, <2>3, <2>5 DEF IsService
  <2>. QED
    BY <2>2, <2>4, <2>5
<1>5. ServicesOK'
  <2>1. \A i \in Doors : IsService(service'[i])
    BY <1>3, <1>4
  <2>2. service' = [i \in Doors |-> service'[i]]
    <3>. DEFINE F(i) ==
           CASE i = "node" -> [service[i] EXCEPT !.ports = InScene]
             [] i \in InUse -> [service[i] EXCEPT !.exists = TRUE, !.address = TRUE, !.routes = InScene]
             [] OTHER -> service[i]
    <3>1. service' = [i \in Doors |-> F(i)]
      BY <1>1
    <3>. HIDE DEF F
    <3>. QED
      BY <3>1
  <2>. QED
    BY <1>1, <2>1, <2>2, Frame DEF ServicesOK, IsService
<1>. QED
  BY <1>1, <1>3, <1>4, <1>5

\* The ingress reconcilers keep the types.
LEMMA ServiceStepTypes ==
  ASSUME Types, UNCHANGED <<volumeVars, podVars>>,
         (\E i \in Ingresses : ReconcileIngress(i)) \/ ReconcileRoutes \/ ReconcileNodePorts \/ ReconcileContour
  PROVE  Types'
<1>1. UNCHANGED <<scene, spec, status, pod, left>> /\ ServicesOK' /\ w.pc # "idle"
  BY ReconcileIngressFields, ReconcileRoutesFields, ReconcileNodePortsFields,
     ReconcileContourFields
<1>2. ASSUME NEW i \in Ingresses, ReconcileIngress(i) PROVE WorkerOK'
  BY <1>1, <1>2, ReconcileIngressFields, Frame
  DEF Types, WorkerOK, CopyOK, WorkerPcs, AddressedPcs, ClaimPcs, BrokerPcs
<1>3. ASSUME NEW x \in {"ingress", "contour", "listeners"}, Goto(x) PROVE WorkerOK'
  BY <1>1, <1>3, GotoIngress
<1>4. WorkerOK'
  BY <1>2, <1>3, ReconcileRoutesFields, ReconcileNodePortsFields, ReconcileContourFields
<1>. QED
  BY <1>1, <1>4, Frame DEF Types, volumeVars, podVars

\* PublishListeners ends the pass, or gives every broker an address of an ingress it
\* belongs to, with all load balancers in use having theirs.
LEMMA PublishListenersFields ==
  ASSUME Types, PublishListeners
  PROVE  /\ w.pc = "listeners" /\ UNCHANGED <<scene, spec, status, pod, left, service>>
         /\ \/ EndPass
            \/ /\ LoadBalanced => \A i \in InUse : HasAddress(i)
               /\ ListenerStatuses(w'.address) /\ w'.address \in [InScene -> Doors \cup {"nowhere"}]
               /\ IsWorker(w') /\ w'.pc = "claims" /\ w'.todo = InScene /\ w'.spec = spec
               /\ w'.cr = [spec |-> spec, status |-> status] /\ w'.marks = NoMarks /\ w'.doors = w.doors
<1>1. /\ w.pc = "listeners" /\ UNCHANGED <<scene, spec, status, pod, left, service>> /\ IsWorker(w)
  BY DEF PublishListeners, At, Types, WorkerOK
<1>2. CASE EndPass
  BY <1>1, <1>2
<1>3. ASSUME LoadBalanced => \A i \in InUse : HasAddress(i),
             NEW a \in [InScene -> Doors \cup {"nowhere"}], ListenerStatuses(a),
             w' = [w EXCEPT !.pc = "claims", !.address = a, !.todo = InScene,
                            !.cr = [spec |-> spec, status |-> status], !.spec = spec,
                            !.marks = NoMarks]
      PROVE  /\ LoadBalanced => \A i \in InUse : HasAddress(i)
             /\ ListenerStatuses(w'.address) /\ w'.address \in [InScene -> Doors \cup {"nowhere"}]
             /\ IsWorker(w') /\ w'.pc = "claims" /\ w'.todo = InScene /\ w'.spec = spec
             /\ w'.cr = [spec |-> spec, status |-> status] /\ w'.marks = NoMarks /\ w'.doors = w.doors
  <2>1. /\ w'.address = a /\ IsWorker(w') /\ w'.pc = "claims" /\ w'.todo = InScene /\ w'.spec = spec
        /\ w'.cr = [spec |-> spec, status |-> status] /\ w'.marks = NoMarks /\ w'.doors = w.doors
    BY <1>1, <1>3 DEF IsWorker
  <2>. QED
    BY <1>3, <2>1
<1>. QED
  BY <1>1, <1>2, <1>3 DEF PublishListeners

\* No marks are marks.
LEMMA NoMarksType == NoMarks \in [Brokers -> [Paths -> Marks]]
BY DEF NoMarks, Marks

\* PublishListeners keeps the types.
LEMMA PublishListenersTypes ==
  ASSUME Types, PublishListeners, UNCHANGED <<volumeVars, podVars>>
  PROVE  Types'
<1>1. w.pc = "listeners" /\ UNCHANGED <<scene, spec, status, pod, left, service>>
  BY PublishListenersFields
<1>2. CASE EndPass
  BY <1>1, <1>2, EndFields, Frame DEF Types, volumeVars, podVars
<1>3. CASE /\ w'.address \in [InScene -> Doors \cup {"nowhere"}]
           /\ IsWorker(w') /\ w'.pc = "claims" /\ w'.todo = InScene /\ w'.spec = spec
           /\ w'.cr = [spec |-> spec, status |-> status] /\ w'.marks = NoMarks /\ w'.doors = w.doors
  <2>1. CopyOK'
    BY <1>3 DEF CopyOK, Types
  <2>2. WorkerOK'
    BY <1>1, <1>3, <2>1, NoMarksType, Frame
    DEF WorkerOK, Types, WorkerPcs, AddressedPcs, ClaimPcs, BrokerPcs
  <2>. QED
    BY <1>1, <2>2, Frame DEF Types, volumeVars, podVars
<1>. QED
  BY <1>2, <1>3, PublishListenersFields

-----------------------------------------------------------------------------
(* The volumes. *)

\* DeleteClaim deletes the claim of one volume, which the copy calls removed.
LEMMA DeleteClaimFields ==
  ASSUME Types, NEW b \in Brokers, NEW p \in Paths, DeleteClaim(b, p)
  PROVE  /\ w.pc = "claims" /\ IsDiskRemovalSucceeded(w.cr.status.volume[b][p])
         /\ UNCHANGED <<scene, spec, status, pod, left, drained, opVars, task>>
         /\ IsWorker(w') /\ w'.pc = "forget" /\ w'.broker = b /\ w'.path = p
         /\ w'.cr = w.cr /\ w'.spec = w.spec /\ w'.todo = w.todo /\ w'.address = w.address
         /\ w'.marks = w.marks /\ w'.doors = w.doors
         /\ ClaimsOK'
         /\ \A c \in Brokers, q \in Paths : <<c, q>> # <<b, p>> => claim'[c][q] = claim[c][q]
<1>1. /\ w.pc = "claims" /\ IsDiskRemovalSucceeded(w.cr.status.volume[b][p])
      /\ UNCHANGED <<scene, spec, status, pod, left, drained, opVars, task>>
      /\ claim' = [claim EXCEPT ![b][p] = "deleting"]
      /\ w' = [w EXCEPT !.pc = "forget", !.broker = b, !.path = p]
  BY DEF DeleteClaim, At, VolumeState
<1>2. /\ IsWorker(w') /\ w'.pc = "forget" /\ w'.broker = b /\ w'.path = p
      /\ w'.cr = w.cr /\ w'.spec = w.spec /\ w'.todo = w.todo /\ w'.address = w.address
      /\ w'.marks = w.marks /\ w'.doors = w.doors
  BY <1>1 DEF Types, WorkerOK, IsWorker
<1>3. ClaimsOK'
  BY <1>1 DEF Types, ClaimsOK
<1>4. \A c \in Brokers, q \in Paths : <<c, q>> # <<b, p>> => claim'[c][q] = claim[c][q]
  BY <1>1 DEF Types, ClaimsOK
<1>. QED
  BY <1>1, <1>2, <1>3, <1>4

\* DeleteClaim keeps the types.
LEMMA DeleteClaimTypes ==
  ASSUME Types, NEW b \in Brokers, NEW p \in Paths, DeleteClaim(b, p), UNCHANGED <<podVars, service>>
  PROVE  Types'
<1>1. WorkerOK'
  BY DeleteClaimFields, Frame
  DEF Types, WorkerOK, CopyOK, WorkerPcs, AddressedPcs, ClaimPcs, BrokerPcs
<1>. QED
  BY <1>1, DeleteClaimFields, Frame DEF Types, podVars

\* ForgetVolume keeps the types and takes one state out of the status.
LEMMA ForgetVolumeTypes ==
  ASSUME Types, ForgetVolume, UNCHANGED <<podVars, service>>
  PROVE  /\ Types' /\ w.pc = "forget" /\ w'.pc = "claims" /\ SameWork
         /\ w'.cr.status = status'
         /\ status'.config = status.config /\ status'.rack = status.rack
         /\ status'.ingress = status.ingress
         /\ \E b \in Brokers, p \in Paths : status'.volume = [status.volume EXCEPT ![b][p] = NoVolume]
<1>1. /\ w.pc = "forget" /\ UNCHANGED <<scene, spec, pod, left, volumeVars>>
      /\ WriteStatus([status EXCEPT !.volume[w.broker][w.path] = NoVolume], "claims")
  BY DEF ForgetVolume, At
<1>2. PICK b \in Brokers, p \in Paths : b = w.broker /\ p = w.path
  BY <1>1 DEF Types, WorkerOK
<1>. DEFINE v == [status.volume EXCEPT ![b][p] = NoVolume]
<1>3. /\ IsWorker(w') /\ w'.pc = "claims" /\ SameWork
      /\ status' = [status EXCEPT !.volume = v]
      /\ w'.cr.spec = spec /\ w'.cr.status = status'
      /\ w'.cr = [spec |-> w'.cr.spec, status |-> w'.cr.status]
  BY <1>1, <1>2, WriteFields DEF Types, WorkerOK
<1>4. /\ StatusOK(status') /\ status'.config = status.config /\ status'.rack = status.rack
      /\ status'.ingress = status.ingress /\ status'.volume = v
  <2>1. v \in [Brokers -> [Paths -> VolumeStates]]
    BY DEF Types, StatusOK, VolumeStates
  <2>. HIDE DEF v
  <2>. QED
    BY <1>3, <2>1, VolumesWritten DEF Types, StatusOK
<1>5. CopyOK'
  BY <1>3, <1>4 DEF CopyOK, Types
<1>6. WorkerOK'
  BY <1>1, <1>3, <1>5, Frame
  DEF Types, WorkerOK, SameWork, WorkerPcs, AddressedPcs, ClaimPcs, BrokerPcs
<1>7. Types'
  BY <1>1, <1>3, <1>4, <1>6, Frame DEF Types, volumeVars, podVars
<1>. QED
  BY <1>1, <1>3, <1>4, <1>7

\* ReconcileClaims makes missing claims and marks, and deletes nothing.
LEMMA ReconcileClaimsFields ==
  ASSUME Types, NEW b \in Brokers, ReconcileClaims(b)
  PROVE  /\ w.pc = "claims" /\ UNCHANGED <<scene, spec, status, pod, left, drained, opVars, task>>
         /\ IsWorker(w') /\ w'.pc = "claims" /\ w'.todo \subseteq w.todo
         /\ w'.cr = w.cr /\ w'.spec = w.spec /\ w'.address = w.address /\ w'.doors = w.doors
         /\ w'.marks \in [Brokers -> [Paths -> Marks]]
         /\ ClaimsOK'
         /\ \A c \in Brokers, p \in Paths :
              claim'[c][p] = claim[c][p] \/ claim'[c][p] = "pending"
<1>1. w.pc = "claims" /\ UNCHANGED <<scene, spec, status, pod, left, drained, opVars, task>> /\ IsWorker(w)
  BY DEF ReconcileClaims, At, Types, WorkerOK
<1>2. PICK m, x :
        m \in [Paths -> Marks] /\ w' = [w EXCEPT !.todo = @ \ {b}, !.marks[b] = m, !.wait = x]
  <2>. DEFINE m == [p \in Paths |-> IF RemovalMarks(b)[p] # NoVolume THEN RemovalMarks(b)[p]
                                    ELSE RebalanceMarks(b)[p]]
              x == IF Surplus(b) THEN Pending(b) ELSE w.wait
  <2>1. m \in [Paths -> Marks]
    <3>1. \A p \in Paths : RemovalMarks(b)[p] \in Marks /\ RebalanceMarks(b)[p] \in Marks
      BY DEF Marks, RemovalMarks, RebalanceMarks
    <3>. QED
      BY <3>1
  <2>2. w' = [w EXCEPT !.todo = @ \ {b}, !.marks[b] = m, !.wait = IF Surplus(b) THEN Pending(b) ELSE @]
    BY DEF ReconcileClaims
  <2>. HIDE DEF m
  <2>3. w' = [w EXCEPT !.todo = @ \ {b}, !.marks[b] = m, !.wait = x]
    BY <1>1, <2>2 DEF IsWorker
  <2>. QED
    BY <2>1, <2>3
<1>3. /\ IsWorker(w') /\ w'.pc = w.pc /\ w'.todo = w.todo \ {b}
      /\ w'.cr = w.cr /\ w'.spec = w.spec /\ w'.address = w.address /\ w'.doors = w.doors
      /\ w'.marks = [w.marks EXCEPT ![b] = m]
  BY <1>1, <1>2 DEF IsWorker
<1>4. w'.marks \in [Brokers -> [Paths -> Marks]]
  BY <1>1, <1>2, <1>3 DEF Types, WorkerOK, ClaimPcs
<1>5. /\ claim' = [claim EXCEPT ![b] = claim'[b]]
      /\ claim'[b] = [p \in Paths |-> IF p \in w.spec[b].disks /\ claim[b][p] = "none"
                                      THEN "pending" ELSE claim[b][p]]
  BY DEF ReconcileClaims, Types, ClaimsOK
<1>6. ClaimsOK' /\ \A c \in Brokers, p \in Paths :
                     claim'[c][p] = claim[c][p] \/ claim'[c][p] = "pending"
  BY <1>5 DEF Types, ClaimsOK
<1>. QED
  BY <1>1, <1>3, <1>4, <1>6

\* ReconcileClaims keeps the types.
LEMMA ReconcileClaimsTypes ==
  ASSUME Types, NEW b \in Brokers, ReconcileClaims(b), UNCHANGED <<podVars, service>>
  PROVE  Types'
<1>1. WorkerOK'
  BY ReconcileClaimsFields, Frame
  DEF Types, WorkerOK, CopyOK, WorkerPcs, AddressedPcs, ClaimPcs, BrokerPcs
<1>. QED
  BY <1>1, ReconcileClaimsFields, Frame DEF Types, podVars

\* MarkVolumes keeps the types, and changes entries to marks.
LEMMA MarkVolumesTypes ==
  ASSUME Types, MarkVolumes, UNCHANGED <<podVars, service>>
  PROVE  /\ Types' /\ w.pc = "claims" /\ UNCHANGED <<scene, spec, pod, left, volumeVars>>
         /\ status'.config = status.config /\ status'.rack = status.rack
         /\ status'.ingress = status.ingress
         /\ \A b \in Brokers, p \in Paths :
              status'.volume[b][p] = status.volume[b][p] \/ status'.volume[b][p] \in Marks \ {NoVolume}
         /\ \/ w'.pc = "idle"
            \/ /\ w'.pc = "order" /\ SameWork
               /\ \/ w'.cr.status = status'
                  \/ w'.cr = w.cr /\ UNCHANGED status
<1>1. /\ w.pc = "claims" /\ UNCHANGED <<scene, spec, pod, left, volumeVars>> /\ IsWorker(w)
      /\ w.marks \in [Brokers -> [Paths -> Marks]] /\ StatusOK(status)
  BY DEF MarkVolumes, At, Types, WorkerOK, ClaimPcs
<1>. DEFINE f == [b \in Brokers |-> [p \in Paths |->
                    IF w.marks[b][p] # NoVolume THEN w.marks[b][p] ELSE status.volume[b][p]]]
            e == [b \in Brokers |-> status.entry[b] \/ \E p \in Paths : w.marks[b][p] # NoVolume]
            new == [status EXCEPT !.volume = f, !.entry = e]
<1>2. /\ f \in [Brokers -> [Paths -> VolumeStates]] /\ e \in [Brokers -> BOOLEAN]
      /\ \A b \in Brokers, p \in Paths : f[b][p] = status.volume[b][p] \/ f[b][p] \in Marks \ {NoVolume}
  <2>1. status.volume \in [Brokers -> [Paths -> VolumeStates]]
    BY <1>1 DEF StatusOK
  <2>2. \A b \in Brokers, p \in Paths :
          /\ w.marks[b][p] \in Marks /\ status.volume[b][p] \in VolumeStates
          /\ f[b][p] = (IF w.marks[b][p] # NoVolume THEN w.marks[b][p] ELSE status.volume[b][p])
    BY <1>1, <2>1
  <2>3. f \in [Brokers -> [Paths -> VolumeStates]]
    <3>1. Marks \subseteq VolumeStates
      BY DEF Marks, VolumeStates, Volume, Stages
    <3>. QED
      BY <2>2, <3>1
  <2>4. e \in [Brokers -> BOOLEAN]
    BY Zenon
  <2>. HIDE DEF f
  <2>5. \A b \in Brokers, p \in Paths : f[b][p] = status.volume[b][p] \/ f[b][p] \in Marks \ {NoVolume}
    BY <2>2
  <2>. QED
    BY <2>3, <2>4, <2>5
<1>3. \/ status' = new /\ EndPass
      \/ WriteStatus(new, "order")
      \/ Goto("order") /\ UNCHANGED status
  <2>1. [status EXCEPT
           !.volume = [b \in Brokers |-> [p \in Paths |->
                         IF w.marks[b][p] # NoVolume THEN w.marks[b][p] ELSE @[b][p]]],
           !.entry = [b \in Brokers |-> @[b] \/ \E p \in Paths : w.marks[b][p] # NoVolume]] = new
    <3>1. [status EXCEPT !.volume = f].entry = status.entry
      BY <1>1 DEF StatusOK
    <3>. QED
      BY <3>1
  <2>. HIDE DEF new
  <2>. QED
    BY <2>1 DEF MarkVolumes
<1>. HIDE DEF f, e
<1>4. StatusOK(new) /\ new.config = status.config /\ new.rack = status.rack
      /\ new.ingress = status.ingress /\ new.volume = f
  <2>1. PICK n : n = [status EXCEPT !.volume = f, !.entry = e]
    OBVIOUS
  <2>2. StatusOK(n) /\ n.config = status.config /\ n.rack = status.rack
        /\ n.ingress = status.ingress /\ n.volume = f
    BY <1>1, <1>2, <2>1 DEF StatusOK
  <2>. QED
    BY <2>1, <2>2
<1>. HIDE DEF new
<1>5. CASE status' = new /\ EndPass
  BY <1>1, <1>2, <1>4, <1>5, EndFields, Frame DEF Types, volumeVars, podVars
<1>6. CASE WriteStatus(new, "order")
  <2>1. /\ IsWorker(w') /\ w'.pc = "order" /\ SameWork /\ status' = new
        /\ w'.cr.spec = spec /\ w'.cr.status = new
        /\ w'.cr = [spec |-> w'.cr.spec, status |-> w'.cr.status]
    BY <1>1, <1>6, WriteFields
  <2>2. CopyOK'
    BY <1>4, <2>1 DEF CopyOK, Types
  <2>3. WorkerOK'
    BY <1>1, <2>1, <2>2, Frame
    DEF Types, WorkerOK, SameWork, WorkerPcs, AddressedPcs, ClaimPcs, BrokerPcs
  <2>4. Types'
    BY <1>1, <1>4, <2>1, <2>3, Frame DEF Types, volumeVars, podVars
  <2>. QED
    BY <1>1, <1>2, <1>4, <2>1, <2>4
<1>7. CASE Goto("order") /\ UNCHANGED status
  <2>1. IsWorker(w') /\ w'.pc = "order" /\ w'.cr = w.cr /\ SameWork
    BY <1>1, <1>7, GotoFields
  <2>2. WorkerOK'
    BY <1>1, <2>1, Frame
    DEF Types, WorkerOK, CopyOK, SameWork, WorkerPcs, AddressedPcs, ClaimPcs, BrokerPcs
  <2>3. Types'
    BY <1>1, <1>7, <2>2, Frame DEF Types, volumeVars, podVars
  <2>. QED
    BY <1>1, <1>7, <2>1, <2>3
<1>. QED
  BY <1>3, <1>5, <1>6, <1>7

-----------------------------------------------------------------------------
(* The operations. *)

\* An operation that becomes another one leaves the others alone.
LEMMA OneOperation ==
  ASSUME OpsOK, NEW o \in OpIds, NEW op \in Operation!LifecycleObject,
         ops' = [ops EXCEPT ![o] = op], UNCHANGED work
  PROVE  OpsOK' /\ ops'[o] = op /\ \A q \in OpIds \ {o} : ops'[q] = ops[q]
BY DEF OpsOK

\* Executions and progress change the state of a task that has been given to the operation.
LEMMA OpExecutes ==
  ASSUME OpsOK, NEW o \in OpIds,
         Operation!FirstExecution(o) \/ Operation!RetryExecution(o) \/ Operation!Progress(o)
  PROVE  /\ ops[o].set \/ ops[o].state # ""
         /\ ops[o].phase = "live"
         /\ \E op \in Operation!LifecycleObject :
              /\ ops' = [ops EXCEPT ![o] = op] /\ op.phase = "live" /\ op.set = ops[o].set
              /\ op.policy = ops[o].policy /\ op.deleting = ops[o].deleting
<1>1. ops[o] \in Operation!LifecycleObject
  BY DEF OpsOK
<1>2. /\ ops[o].set \/ ops[o].state # ""
      /\ ops[o].phase = "live"
  BY DEF Operation!FirstExecution, Operation!RetryExecution, Operation!Progress,
         Operation!RunningStates
<1>3. PICK s \in Operation!TaskStates :
        \/ ops' = [ops EXCEPT ![o] = [ops[o] EXCEPT !.state = s]]
        \/ ops' = [ops EXCEPT ![o] = [ops[o] EXCEPT !.state = s, !.retries = @ + 1]]
  BY DEF Operation!FirstExecution, Operation!RetryExecution, Operation!Progress, Operation!Becomes,
         Operation!Begun, Operation!TaskStates, Operation!RunningStates, Operation!EndStates
<1>4. CASE ops' = [ops EXCEPT ![o] = [ops[o] EXCEPT !.state = s]]
  <2>1. PICK op : op = [ops[o] EXCEPT !.state = s]
    OBVIOUS
  <2>2. /\ op \in Operation!LifecycleObject /\ op.phase = ops[o].phase /\ op.set = ops[o].set
        /\ op.policy = ops[o].policy /\ op.deleting = ops[o].deleting
    BY <1>1, <2>1 DEF Operation!LifecycleObject
  <2>. QED
    BY <1>2, <1>4, <2>1, <2>2
<1>5. CASE ops' = [ops EXCEPT ![o] = [ops[o] EXCEPT !.state = s, !.retries = @ + 1]]
  <2>1. PICK n \in Nat : n = ops[o].retries + 1
    BY <1>1 DEF Operation!LifecycleObject
  <2>2. PICK op : op = [ops[o] EXCEPT !.state = s, !.retries = n]
    OBVIOUS
  <2>3. ops' = [ops EXCEPT ![o] = op]
    BY <1>1, <1>5, <2>1, <2>2 DEF Operation!LifecycleObject
  <2>4. /\ op \in Operation!LifecycleObject /\ op.phase = ops[o].phase /\ op.set = ops[o].set
        /\ op.policy = ops[o].policy /\ op.deleting = ops[o].deleting
    BY <1>1, <2>1, <2>2 DEF Operation!LifecycleObject
  <2>. QED
    BY <1>2, <2>3, <2>4
<1>. QED
  BY <1>3, <1>4, <1>5

\* Edits and pauses leave the task alone.
LEMMA OpIsEdited ==
  ASSUME OpsOK, NEW o \in OpIds, ops[o].phase = "live",
         Operation!Edit(o) \/ ops' = [ops EXCEPT ![o].paused = TRUE]
  PROVE  \E op \in Operation!LifecycleObject :
           /\ ops' = [ops EXCEPT ![o] = op] /\ op.phase = "live" /\ op.set = ops[o].set
           /\ op.state = ops[o].state
           /\ Operation!Edit(o) \/ (op.policy = ops[o].policy /\ op.deleting = ops[o].deleting)
<1>1. ops[o] \in Operation!LifecycleObject
  BY DEF OpsOK
<1>2. CASE Operation!Edit(o)
  <2>1. PICK policy \in Operation!Policies, paused \in BOOLEAN, deleting \in BOOLEAN :
          ops' = [ops EXCEPT ![o] = [ops[o] EXCEPT !.policy = policy, !.paused = paused,
                                                   !.deleting = deleting]]
    BY <1>2 DEF Operation!Edit, Operation!Becomes
  <2>2. PICK op : op = [ops[o] EXCEPT !.policy = policy, !.paused = paused, !.deleting = deleting]
    OBVIOUS
  <2>3. /\ op \in Operation!LifecycleObject /\ op.phase = ops[o].phase /\ op.set = ops[o].set
        /\ op.state = ops[o].state
    BY <1>1, <2>2 DEF Operation!LifecycleObject
  <2>. QED
    BY <1>2, <2>1, <2>2, <2>3
<1>3. CASE ops' = [ops EXCEPT ![o].paused = TRUE]
  <2>1. PICK op : op = [ops[o] EXCEPT !.paused = TRUE]
    OBVIOUS
  <2>2. /\ op \in Operation!LifecycleObject /\ op.phase = ops[o].phase /\ op.set = ops[o].set
        /\ op.state = ops[o].state /\ op.policy = ops[o].policy /\ op.deleting = ops[o].deleting
    BY <1>1, <2>1 DEF Operation!LifecycleObject
  <2>3. ops' = [ops EXCEPT ![o] = op]
    BY <1>1, <1>3, <2>1 DEF OpsOK
  <2>. QED
    BY <2>2, <2>3
<1>. QED
  BY <1>2, <1>3

\* What a step of an operation may do: the task ends well only when it has run, a remove_disks
\* that ends well has emptied its volumes, and an operation goes when it has succeeded, when its
\* errors are ignored, or when it is deleted.
LEMMA OpFields ==
  ASSUME Types, NEW o \in OpIds,
         OpStarts(o) \/ OpPaused(o) \/ OpEnds(o) \/ OpEdited(o) \/ OpRemoved(o)
  PROVE  /\ UNCHANGED <<scene, spec, status, pod, w, claim, work, task>>
         /\ OpsOK' /\ DrainedOK' /\ BudgetOK' /\ \A e \in Events : Unspent(e)' => Unspent(e)
         /\ drained \subseteq drained' /\ \A q \in OpIds \ {o} : ops'[q] = ops[q]
         /\ ops[o].phase = "live" /\ ops'[o].phase # "unborn" /\ ops'[o].set = ops[o].set
         /\ Unspent("opEdit")' =>
              ops'[o].policy = ops[o].policy /\ ops'[o].deleting = ops[o].deleting
         /\ ops'[o].state # ops[o].state => ops[o].set \/ ops[o].state # ""
         /\ ops'[o].state = "Completed" /\ ops[o].state # "Completed" =>
              work[o].kind # "remove" \/ ops[o].deleting \/ work[o].of \subseteq drained'
         /\ ops'[o].phase = "gone" =>
              /\ ops[o].state = "Completed" \/ ops[o].policy = "ignore" \/ ops[o].deleting
              /\ ops'[o].state = ops[o].state
<1>0. OpsOK /\ DrainedOK /\ BudgetOK /\ work[o].of \subseteq Brokers \X Paths
  BY DEF Types, OpsOK
<1>1. /\ UNCHANGED <<scene, spec, status, pod, w, claim, work, task>>
      /\ UNCHANGED left \/ \E e \in {"error", "opEdit", "expire"} : Spend(e)
  BY DEF OpStarts, OpPaused, OpEnds, OpEdited, OpRemoved, objectVars
<1>2. BudgetOK' /\ \A e \in Events : Unspent(e)' => Unspent(e)
  <2>1. {"error", "opEdit", "expire"} \subseteq Events
    BY DEF Events
  <2>2. UNCHANGED left => BudgetOK' /\ \A e \in Events : Unspent(e)' => Unspent(e)
    BY <1>1, Frame DEF Unspent
  <2>. QED
    BY <1>1, <2>1, <2>2, SpendTypes
<1>3. CASE OpStarts(o)
  <2>1. /\ Operation!FirstExecution(o) \/ Operation!RetryExecution(o)
        /\ ops'[o].state # "Completed" /\ UNCHANGED drained
    BY <1>3 DEF OpStarts
  <2>2. /\ ops[o].set \/ ops[o].state # ""
        /\ ops[o].phase = "live" /\ OpsOK' /\ \A q \in OpIds \ {o} : ops'[q] = ops[q]
        /\ ops'[o].phase = "live" /\ ops'[o].set = ops[o].set
        /\ ops'[o].policy = ops[o].policy /\ ops'[o].deleting = ops[o].deleting
    BY <1>0, <1>1, <2>1, OpExecutes, OneOperation
  <2>. QED
    BY <1>0, <1>1, <1>2, <2>1, <2>2 DEF DrainedOK
<1>4. CASE OpEnds(o)
  <2>1. /\ Operation!Progress(o)
        /\ \/ /\ drained' = IF work[o].kind = "remove" /\ ~ops[o].deleting
                            THEN drained \cup work[o].of ELSE drained
           \/ ops'[o].state # "Completed" /\ UNCHANGED drained
    BY <1>4 DEF OpEnds
  <2>2. /\ ops[o].set \/ ops[o].state # ""
        /\ ops[o].phase = "live" /\ OpsOK' /\ \A q \in OpIds \ {o} : ops'[q] = ops[q]
        /\ ops'[o].phase = "live" /\ ops'[o].set = ops[o].set
        /\ ops'[o].policy = ops[o].policy /\ ops'[o].deleting = ops[o].deleting
    BY <1>0, <1>1, <2>1, OpExecutes, OneOperation
  <2>3. DrainedOK' /\ drained \subseteq drained'
    BY <1>0, <2>1 DEF DrainedOK
  <2>4. ops'[o].state = "Completed" =>
          work[o].kind # "remove" \/ ops[o].deleting \/ work[o].of \subseteq drained'
    BY <2>1
  <2>. QED
    BY <1>1, <1>2, <2>2, <2>3, <2>4
<1>5. CASE OpPaused(o) \/ OpEdited(o)
  <2>1. /\ ops[o].phase = "live" /\ UNCHANGED drained
        /\ Operation!Edit(o) \/ ops' = [ops EXCEPT ![o].paused = TRUE]
    BY <1>5 DEF OpPaused, OpEdited, Failed, Operation!Edit
  <2>2. /\ OpsOK' /\ \A q \in OpIds \ {o} : ops'[q] = ops[q]
        /\ ops'[o].phase = "live" /\ ops'[o].set = ops[o].set /\ ops'[o].state = ops[o].state
    BY <1>0, <1>1, <2>1, OpIsEdited, OneOperation
  <2>3. Unspent("opEdit")' =>
          ops'[o].policy = ops[o].policy /\ ops'[o].deleting = ops[o].deleting
    <3>1. CASE OpEdited(o)
      <4>1. "opEdit" \in Events /\ Spend("opEdit")
        BY <3>1 DEF OpEdited, Events
      <4>. QED
        BY <1>1, <4>1, SpendTypes
    <3>2. CASE OpPaused(o)
      <4>1. ops[o] \in Operation!LifecycleObject /\ ops' = [ops EXCEPT ![o].paused = TRUE]
        BY <1>0, <3>2 DEF OpPaused, OpsOK
      <4>2. ops'[o] = [ops[o] EXCEPT !.paused = TRUE]
        BY <1>0, <4>1 DEF OpsOK
      <4>. QED
        BY <4>1, <4>2 DEF Operation!LifecycleObject
    <3>. QED
      BY <1>5, <3>1, <3>2
  <2>. QED
    BY <1>0, <1>1, <1>2, <2>1, <2>2, <2>3 DEF DrainedOK
<1>6. CASE OpRemoved(o)
  <2>1. /\ Operation!Remove(o) /\ ops'[o].deleting = ops[o].deleting /\ UNCHANGED drained
        /\ ops[o].state = "Completed" \/ ops[o].policy = "ignore" \/ ops[o].deleting
    BY <1>6 DEF OpRemoved
  <2>2. PICK deleting \in BOOLEAN :
          ops[o].phase = "live"
            /\ ops' = [ops EXCEPT ![o] = [ops[o] EXCEPT !.phase = "gone", !.deleting = deleting]]
    BY <2>1 DEF Operation!Remove, Operation!Becomes
  <2>3. PICK op : op = [ops[o] EXCEPT !.phase = "gone", !.deleting = deleting]
    OBVIOUS
  <2>4. /\ op \in Operation!LifecycleObject /\ op.phase = "gone" /\ op.set = ops[o].set
        /\ op.policy = ops[o].policy /\ op.state = ops[o].state
    <3>1. ops[o] \in Operation!LifecycleObject
      BY <1>0 DEF OpsOK
    <3>. QED
      BY <2>3, <3>1 DEF Operation!LifecycleObject
  <2>5. OpsOK' /\ ops'[o] = op /\ \A q \in OpIds \ {o} : ops'[q] = ops[q]
    BY <1>0, <1>1, <2>2, <2>3, <2>4, OneOperation
  <2>. QED
    BY <1>0, <1>1, <1>2, <2>1, <2>2, <2>4, <2>5 DEF DrainedOK
<1>. QED
  BY <1>3, <1>4, <1>5, <1>6

-----------------------------------------------------------------------------
(* The CruiseControlTask controller. *)

\* FromResult calls a task succeeded when its operation is not there, when it has completed,
\* and when its errors are ignored.
LEMMA StageOfFields ==
  ASSUME NEW op \in Operation!LifecycleObject
  PROVE  /\ StageOf(op) \in Stages
         /\ StageOf(op) = "Succeeded" =>
              op.phase # "live" \/ op.state = "Completed" \/ op.policy = "ignore"
BY DEF StageOf, Stages, Operation!LifecycleObject, Operation!TaskStates, Operation!RunningStates,
       Operation!EndStates

\* A task keeps its kind and its operation when its stage is found out.
LEMMA FromResultFields ==
  ASSUME OpsOK, NEW t \in VolumeStates
  PROVE  /\ FromResult(t) \in VolumeStates
         /\ t.ref = NoOp => FromResult(t) = t
         /\ t.ref # NoOp => /\ t.ref \in OpIds /\ FromResult(t).kind = t.kind
                            /\ FromResult(t).ref = t.ref
                            /\ FromResult(t).stage = StageOf(ops[t.ref])
<1>1. CASE t.ref = NoOp
  BY <1>1 DEF FromResult
<1>2. CASE t.ref # NoOp
  <2>1. /\ t \in [kind : {"rebalance", "remove"}, stage : Stages, ref : OpIds \cup {NoOp}]
        /\ t.ref \in OpIds
    <3>1. NoVolume.ref = NoOp
      BY DEF NoVolume
    <3>2. t \in [kind : {"rebalance", "remove"}, stage : Stages, ref : OpIds \cup {NoOp}]
      BY <1>2, <3>1 DEF VolumeStates
    <3>. QED
      BY <1>2, <3>2
  <2>2. PICK x \in Stages : x = StageOf(ops[t.ref])
    BY <2>1, StageOfFields DEF OpsOK
  <2>3. FromResult(t) = [t EXCEPT !.stage = x]
    BY <1>2, <2>2 DEF FromResult
  <2>4. FromResult(t) \in VolumeStates /\ FromResult(t).kind = t.kind /\ FromResult(t).ref = t.ref
        /\ FromResult(t).stage = x
    BY <2>1, <2>3 DEF VolumeStates
  <2>. QED
    BY <1>2, <2>1, <2>2, <2>4
<1>. QED
  BY <1>1, <1>2

\* The tasks are entries of the status that are not done with.
LEMMA ActiveTasksFields ==
  ASSUME NEW v \in [Brokers -> [Paths -> VolumeStates]]
  PROVE  /\ ActiveTasks(v) \in [Brokers -> [Paths -> VolumeStates]]
         /\ \A b \in Brokers, p \in Paths :
              \/ ActiveTasks(v)[b][p] = NoVolume
              \/ ActiveTasks(v)[b][p] = v[b][p] /\ v[b][p].stage # "Succeeded"
<1>1. NoVolume \in VolumeStates
  BY DEF VolumeStates
<1>2. \A b \in Brokers, p \in Paths :
        ActiveTasks(v)[b][p] = IF IsDiskRebalance(v[b][p]) \/ IsDiskRemoval(v[b][p])
                               THEN v[b][p] ELSE NoVolume
  BY DEF ActiveTasks
<1>3. ActiveTasks(v) \in [Brokers -> [Paths -> VolumeStates]]
  BY <1>1 DEF ActiveTasks
<1>. QED
  BY <1>2, <1>3 DEF IsDiskRebalance, IsDiskRemoval

\* The worker without tasks.
LEMMA IdleTask ==
  /\ TaskIdle = [pc |-> "idle", tasks |-> NoMarks, op |-> NoOp]
  /\ NoMarks \in [Brokers -> [Paths -> VolumeStates]]
  /\ \A b \in Brokers, p \in Paths : NoMarks[b][p] = NoVolume
BY DEF TaskIdle, NoMarks, VolumeStates

\* TaskStart reads the tasks from the status.
LEMMA TaskStartFields ==
  ASSUME Types, TaskStart
  PROVE  /\ UNCHANGED <<objectVars, claim, drained, opVars>> /\ TaskOK'
         /\ task'.pc = "list" /\ task'.tasks = ActiveTasks(status.volume)
<1>1. /\ UNCHANGED <<objectVars, claim, drained, opVars>>
      /\ task' = [pc |-> "list", tasks |-> ActiveTasks(status.volume), op |-> NoOp]
  BY DEF TaskStart
<1>2. ActiveTasks(status.volume) \in [Brokers -> [Paths -> VolumeStates]]
  BY ActiveTasksFields DEF Types, StatusOK
<1>. QED
  BY <1>1, <1>2 DEF TaskOK

\* TaskList asks the operations.
LEMMA TaskListFields ==
  ASSUME Types, TaskList
  PROVE  /\ UNCHANGED <<objectVars, claim, drained, opVars>> /\ TaskOK'
         /\ task.pc = "list" /\ task'.pc \in {"plan", "sync"}
         /\ \A b \in Brokers, p \in Paths : task'.tasks[b][p] = FromResult(task.tasks[b][p])
<1>. DEFINE ts == [b \in Brokers |-> [p \in Paths |-> FromResult(task.tasks[b][p])]]
<1>1. /\ UNCHANGED <<objectVars, claim, drained, opVars>> /\ task.pc = "list"
      /\ \E x \in {"plan", "sync"} : task' = [task EXCEPT !.tasks = ts, !.pc = x]
  BY DEF TaskList
<1>2. ts \in [Brokers -> [Paths -> VolumeStates]]
  <2>1. \A b \in Brokers, p \in Paths : FromResult(task.tasks[b][p]) \in VolumeStates
    BY FromResultFields DEF Types, TaskOK
  <2>. QED
    BY <2>1
<1>3. \A b \in Brokers, p \in Paths : ts[b][p] = FromResult(task.tasks[b][p])
  OBVIOUS
<1>. HIDE DEF ts
<1>4. TaskOK' /\ task'.pc \in {"plan", "sync"} /\ task'.tasks = ts
  BY <1>1, <1>2 DEF Types, TaskOK
<1>. QED
  BY <1>1, <1>3, <1>4

\* A new operation retries, and has no task yet.
LEMMA CreateFields ==
  ASSUME OpsOK, NEW o \in OpIds, Operation!Create(o, "retry")
  PROVE  /\ ops' \in [OpIds -> Operation!LifecycleObject] /\ ops[o].phase = "unborn"
         /\ ops'[o].phase = "live" /\ ops'[o].policy = "retry" /\ ops'[o].state = ""
         /\ ~ops'[o].deleting /\ \A q \in OpIds \ {o} : ops'[q] = ops[q]
<1>1. PICK v : v = Operation!View(Operation!Unborn)
  OBVIOUS
<1>2. v \in Operation!LifecycleObject /\ v.state = "" /\ ~v.deleting
  BY <1>1 DEF Operation!View, Operation!Unborn, Operation!LifecycleObject, Operation!Policies,
              Operation!TaskStates
<1>3. PICK op : op = [v EXCEPT !.phase = "live", !.policy = "retry"]
  OBVIOUS
<1>4. /\ op \in Operation!LifecycleObject /\ op.phase = "live" /\ op.policy = "retry"
      /\ op.state = "" /\ ~op.deleting
  BY <1>2, <1>3 DEF Operation!LifecycleObject, Operation!Policies
<1>5. ops' = [ops EXCEPT ![o] = op] /\ ops[o].phase = "unborn"
  BY <1>1, <1>3 DEF Operation!Create, Operation!Becomes
<1>. QED
  BY <1>4, <1>5 DEF OpsOK

\* TaskPlan makes an operation of all the volumes that require it, or ends the reconcile.
LEMMA TaskPlanFields ==
  ASSUME Types, TaskPlan
  PROVE  /\ UNCHANGED <<objectVars, claim, drained>> /\ TaskOK' /\ OpsOK'
         /\ \/ task' = TaskIdle /\ UNCHANGED opVars
            \/ /\ task'.pc = "fill" /\ task'.tasks = task.tasks
               /\ \E o \in OpIds, k \in {"rebalance", "remove"} :
                    /\ task'.op = o /\ work'[o].kind = k /\ work'[o].of = RequiredTasks(k)
                    /\ ops[o].phase = "unborn" /\ ops'[o].phase = "live"
                    /\ ops'[o].policy = "retry" /\ ops'[o].state = "" /\ ~ops'[o].deleting
                    /\ \A q \in OpIds \ {o} : ops'[q] = ops[q] /\ work'[q] = work[q]
<1>0. OpsOK /\ TaskOK
  BY DEF Types
<1>1. /\ UNCHANGED <<objectVars, claim, drained>>
      /\ \/ task' = TaskIdle /\ UNCHANGED opVars
         \/ \E k \in {"rebalance", "remove"} : CreateCCOperation(k, RequiredTasks(k))
  BY DEF TaskPlan
<1>2. CASE task' = TaskIdle /\ UNCHANGED opVars
  BY <1>0, <1>1, <1>2, IdleTask DEF TaskOK, OpsOK, opVars
<1>3. ASSUME NEW k \in {"rebalance", "remove"}, CreateCCOperation(k, RequiredTasks(k))
      PROVE  /\ TaskOK' /\ OpsOK'
             /\ task'.pc = "fill" /\ task'.tasks = task.tasks
             /\ \E o \in OpIds :
                    /\ task'.op = o /\ work'[o].kind = k /\ work'[o].of = RequiredTasks(k)
                    /\ ops[o].phase = "unborn" /\ ops'[o].phase = "live"
                    /\ ops'[o].policy = "retry" /\ ops'[o].state = "" /\ ~ops'[o].deleting
                    /\ \A q \in OpIds \ {o} : ops'[q] = ops[q] /\ work'[q] = work[q]
  <2>1. PICK o \in OpIds : /\ Operation!Create(o, "retry")
                           /\ work' = [work EXCEPT ![o] = [kind |-> k, of |-> RequiredTasks(k)]]
                           /\ task' = [task EXCEPT !.pc = "fill", !.op = o]
    BY <1>3 DEF CreateCCOperation
  <2>2. RequiredTasks(k) \subseteq Brokers \X Paths
    BY DEF RequiredTasks
  <2>3. PICK vs \in SUBSET (Brokers \X Paths) : vs = RequiredTasks(k)
    BY <2>2
  <2>4. /\ work' \in [OpIds -> [kind : {"", "rebalance", "remove"}, of : SUBSET (Brokers \X Paths)]]
        /\ work'[o].kind = k /\ work'[o].of = vs /\ \A q \in OpIds \ {o} : work'[q] = work[q]
    BY <1>0, <2>1, <2>3 DEF OpsOK
  <2>5. TaskOK' /\ task'.pc = "fill" /\ task'.tasks = task.tasks /\ task'.op = o
    BY <1>0, <2>1, <2>4 DEF TaskOK
  <2>6. /\ ops' \in [OpIds -> Operation!LifecycleObject] /\ ops[o].phase = "unborn"
        /\ ops'[o].phase = "live" /\ ops'[o].policy = "retry" /\ ops'[o].state = ""
        /\ ~ops'[o].deleting /\ \A q \in OpIds \ {o} : ops'[q] = ops[q]
    BY <1>0, <2>1, CreateFields
  <2>7. OpsOK'
    BY <2>4, <2>6 DEF OpsOK
  <2>. QED
    BY <2>3, <2>4, <2>5, <2>6, <2>7
<1>. QED
  BY <1>1, <1>2, <1>3

\* FillOperation gives the operation its task and its volumes the reference, or ends the
\* reconcile.
LEMMA FillOperationFields ==
  ASSUME Types, FillOperation
  PROVE  /\ UNCHANGED <<objectVars, claim, drained, work>> /\ TaskOK' /\ OpsOK'
         /\ task.pc = "fill" /\ task.op \in OpIds /\ task.op # NoOp
         /\ \/ task' = TaskIdle /\ UNCHANGED ops
            \/ /\ task'.pc = "schedule"
               /\ ops[task.op].phase = "live" /\ ops'[task.op].phase = "live"
               /\ ~ops[task.op].set /\ ops'[task.op].set
               /\ ops'[task.op].policy = ops[task.op].policy
               /\ ops'[task.op].deleting = ops[task.op].deleting
               /\ ops'[task.op].state = ops[task.op].state
               /\ \A q \in OpIds \ {task.op} : ops'[q] = ops[q]
               /\ \A b \in Brokers, p \in Paths :
                    task'.tasks[b][p] = IF <<b, p>> \in work[task.op].of
                                        THEN Volume(work[task.op].kind, "Scheduled", task.op)
                                        ELSE task.tasks[b][p]
<1>0. OpsOK /\ TaskOK
  BY DEF Types
<1>. DEFINE ts == [b \in Brokers |-> [p \in Paths |->
                     IF <<b, p>> \in work[task.op].of THEN Volume(work[task.op].kind, "Scheduled", task.op)
                     ELSE task.tasks[b][p]]]
<1>1. /\ UNCHANGED <<objectVars, claim, drained, work>> /\ task.pc = "fill"
      /\ \/ task' = TaskIdle /\ UNCHANGED ops
         \/ Operation!SetTask(task.op) /\ task' = [task EXCEPT !.pc = "schedule", !.tasks = ts]
  BY <1>0 DEF FillOperation, TaskOK
<1>2. task.op \in OpIds /\ task.op # NoOp
  BY <1>0, <1>1, OpIdsAssumption DEF TaskOK, NoOp
<1>3. CASE task' = TaskIdle /\ UNCHANGED ops
  BY <1>0, <1>1, <1>2, <1>3, IdleTask DEF TaskOK, OpsOK
<1>4. CASE Operation!SetTask(task.op) /\ task' = [task EXCEPT !.pc = "schedule", !.tasks = ts]
  <2>1. PICK op : op = [ops[task.op] EXCEPT !.set = TRUE]
    OBVIOUS
  <2>2. ops' = [ops EXCEPT ![task.op] = op] /\ ops[task.op].phase = "live" /\ ~ops[task.op].set
    BY <1>4, <2>1 DEF Operation!SetTask, Operation!Becomes
  <2>3. /\ op \in Operation!LifecycleObject /\ op.set /\ op.phase = ops[task.op].phase
        /\ op.policy = ops[task.op].policy /\ op.deleting = ops[task.op].deleting
        /\ op.state = ops[task.op].state
    <3>1. ops[task.op] \in Operation!LifecycleObject
      BY <1>0, <1>2 DEF OpsOK
    <3>. QED
      BY <2>1, <3>1 DEF Operation!LifecycleObject
  <2>4. OpsOK' /\ ops'[task.op] = op /\ \A q \in OpIds \ {task.op} : ops'[q] = ops[q]
    BY <1>0, <1>1, <1>2, <2>2, <2>3, OneOperation
  <2>5. PICK k \in {"rebalance", "remove"} : k = work[task.op].kind
    BY <1>0, <1>1 DEF TaskOK
  <2>6. ts \in [Brokers -> [Paths -> VolumeStates]]
    <3>1. Volume(k, "Scheduled", task.op) \in VolumeStates
      BY <1>2 DEF Volume, VolumeStates, Stages
    <3>. QED
      BY <1>0, <2>5, <3>1 DEF TaskOK
  <2>7. \A b \in Brokers, p \in Paths :
          ts[b][p] = IF <<b, p>> \in work[task.op].of
                     THEN Volume(work[task.op].kind, "Scheduled", task.op) ELSE task.tasks[b][p]
    OBVIOUS
  <2>. HIDE DEF ts
  <2>8. TaskOK' /\ task'.pc = "schedule" /\ task'.tasks = ts
    BY <1>0, <1>4, <2>6 DEF TaskOK
  <2>. QED
    BY <1>1, <1>2, <2>2, <2>3, <2>4, <2>7, <2>8
<1>. QED
  BY <1>1, <1>3, <1>4

\* SyncState lays tasks over the entries that are there.
LEMMA SyncStateFields ==
  ASSUME NEW v \in [Brokers -> [Paths -> VolumeStates]], NEW t \in [Brokers -> [Paths -> VolumeStates]]
  PROVE  /\ SyncState(v, t) \in [Brokers -> [Paths -> VolumeStates]]
         /\ \A b \in Brokers, p \in Paths :
              SyncState(v, t)[b][p] =
                IF v[b][p] # NoVolume /\ t[b][p] # NoVolume THEN t[b][p] ELSE v[b][p]
<1>1. \A b \in Brokers, p \in Paths : v[b][p] \in VolumeStates /\ t[b][p] \in VolumeStates
  OBVIOUS
<1>. QED
  BY <1>1 DEF SyncState

\* TaskSync and TaskSchedule lay the tasks over the status, and change nothing else of it.
LEMMA UpdateStatusFields ==
  ASSUME Types, TaskSync \/ TaskSchedule
  PROVE  /\ UNCHANGED <<scene, spec, pod, w, left, claim, opVars>>
         /\ StatusOK(status') /\ DrainedOK' /\ TaskOK'
         /\ status'.config = status.config /\ status'.rack = status.rack
         /\ status'.ingress = status.ingress
         /\ \A b \in Brokers, p \in Paths :
              status'.volume[b][p] =
                IF status.volume[b][p] # NoVolume /\ task.tasks[b][p] # NoVolume
                THEN task.tasks[b][p] ELSE status.volume[b][p]
         /\ drained' = {v \in drained : ~IsDiskRebalanceSucceeded(status'.volume[v[1]][v[2]])}
         /\ task' = TaskIdle \/ (task'.pc = "plan" /\ task'.tasks = task.tasks)
<1>0. OpsOK /\ TaskOK /\ DrainedOK /\ StatusOK(status)
  BY DEF Types
<1>. DEFINE f == SyncState(status.volume, task.tasks)
<1>1. /\ UNCHANGED <<scene, spec, pod, w, left, claim, opVars>>
      /\ status' = [status EXCEPT !.volume = f]
      /\ drained' = {v \in drained : ~IsDiskRebalanceSucceeded(status'.volume[v[1]][v[2]])}
      /\ task' = TaskIdle \/ task' = [task EXCEPT !.pc = "plan"]
  BY DEF TaskSync, TaskSchedule, UpdateStatus
<1>2. /\ f \in [Brokers -> [Paths -> VolumeStates]]
      /\ \A b \in Brokers, p \in Paths :
           f[b][p] = IF status.volume[b][p] # NoVolume /\ task.tasks[b][p] # NoVolume
                     THEN task.tasks[b][p] ELSE status.volume[b][p]
  BY <1>0, SyncStateFields DEF StatusOK, TaskOK
<1>. HIDE DEF f
<1>3. /\ StatusOK(status') /\ status'.config = status.config /\ status'.rack = status.rack
      /\ status'.ingress = status.ingress /\ status'.volume = f
  BY <1>0, <1>1, <1>2 DEF StatusOK
<1>4. DrainedOK'
  BY <1>0, <1>1 DEF DrainedOK
<1>5. TaskOK' /\ (task' = TaskIdle \/ (task'.pc = "plan" /\ task'.tasks = task.tasks))
  BY <1>0, <1>1, IdleTask DEF TaskOK
<1>. QED
  BY <1>1, <1>2, <1>3, <1>4, <1>5

\* A reconcile of the task controller that fails loses its tasks.
LEMMA TaskFailsFields ==
  ASSUME Types, TaskFails
  PROVE  /\ UNCHANGED <<scene, spec, status, pod, w, claim, drained, opVars>>
         /\ task' = TaskIdle /\ TaskOK' /\ BudgetOK' /\ \A e \in Events : Unspent(e)' => Unspent(e)
<1>1. /\ UNCHANGED <<scene, spec, status, pod, w, claim, drained, opVars>>
      /\ task' = TaskIdle /\ Spend("crash") /\ "crash" \in Events
  BY DEF TaskFails, Events
<1>2. TaskOK'
  BY <1>1, IdleTask DEF TaskOK
<1>. QED
  BY <1>1, <1>2, SpendTypes

\* The steps that the pass sees nothing of.
QuietStep ==
  TaskStart \/ TaskList \/ TaskPlan \/ FillOperation \/ TaskFails
    \/ \E o \in OpIds : OpStarts(o) \/ OpPaused(o) \/ OpEnds(o) \/ OpEdited(o) \/ OpRemoved(o)

\* They keep the types, and leave alone what the pass works on.
LEMMA QuietFields ==
  ASSUME Types, QuietStep, UNCHANGED <<podVars, service>>
  PROVE  /\ Types' /\ UNCHANGED <<scene, spec, status, pod, w, claim>>
         /\ \A e \in Events : Unspent(e)' => Unspent(e)
<1>1. /\ UNCHANGED <<scene, spec, status, pod, w, claim>> /\ OpsOK' /\ DrainedOK' /\ TaskOK'
      /\ BudgetOK' /\ \A e \in Events : Unspent(e)' => Unspent(e)
  <2>1. CASE TaskStart \/ TaskList \/ TaskPlan \/ FillOperation
    <3>1. UNCHANGED <<scene, spec, status, pod, w, left, claim, drained>> /\ TaskOK'
      BY <2>1, TaskStartFields, TaskListFields, TaskPlanFields, FillOperationFields DEF objectVars
    <3>2. OpsOK'
      <4>1. CASE TaskStart \/ TaskList
        BY <3>1, <4>1, TaskStartFields, TaskListFields, Frame
      <4>2. CASE TaskPlan \/ FillOperation
        BY <4>2, TaskPlanFields, FillOperationFields
      <4>. QED
        BY <2>1, <4>1, <4>2
    <3>3. \A e \in Events : Unspent(e)' => Unspent(e)
      BY <3>1 DEF Unspent
    <3>. QED
      BY <3>1, <3>2, <3>3, Frame
  <2>2. CASE TaskFails
    BY <2>2, TaskFailsFields, Frame
  <2>3. ASSUME NEW o \in OpIds,
               OpStarts(o) \/ OpPaused(o) \/ OpEnds(o) \/ OpEdited(o) \/ OpRemoved(o)
        PROVE  /\ UNCHANGED <<scene, spec, status, pod, w, claim>> /\ OpsOK' /\ DrainedOK' /\ TaskOK'
               /\ BudgetOK' /\ \A e \in Events : Unspent(e)' => Unspent(e)
    BY <2>3, OpFields, Frame
  <2>. QED
    BY <2>1, <2>2, <2>3 DEF QuietStep
<1>. QED
  BY <1>1, Frame DEF Types, podVars

\* The task controller's writes of the status keep the types.
LEMMA UpdateStatusTypes ==
  ASSUME Types, TaskSync \/ TaskSchedule, UNCHANGED <<podVars, service>>
  PROVE  Types' /\ UNCHANGED <<scene, spec, pod, w, claim>>
<1>1. /\ UNCHANGED <<scene, spec, pod, w, left, claim, opVars>>
      /\ StatusOK(status') /\ DrainedOK' /\ TaskOK'
  BY UpdateStatusFields
<1>. QED
  BY <1>1, Frame DEF Types, podVars

\* Alerts change their count in the status.
LEMMA CountAlertsFields ==
  ASSUME Types, CountAlerts
  PROVE  /\ Types' /\ UNCHANGED <<scene, spec, pod, w, volumeVars, podVars, service>>
         /\ status'.config = status.config /\ status'.rack = status.rack
         /\ status'.ingress = status.ingress /\ status'.volume = status.volume
         /\ \A e \in Events : Unspent(e)' => Unspent(e)
<1>1. /\ UNCHANGED <<scene, spec, pod, w, volumeVars, podVars, service>> /\ Spend("alert")
      /\ "alert" \in Events
      /\ \E n \in 0..1 : status' = [status EXCEPT !.errors = n]
  BY DEF CountAlerts, Events
<1>2. /\ StatusOK(status') /\ status'.config = status.config /\ status'.rack = status.rack
      /\ status'.ingress = status.ingress /\ status'.volume = status.volume
  <2>1. 0..1 \subseteq Nat /\ StatusOK(status)
    BY DEF Types
  <2>. QED
    BY <1>1, <2>1, ErrorsWritten
<1>3. BudgetOK' /\ \A e \in Events : Unspent(e)' => Unspent(e)
  BY <1>1, SpendTypes
<1>. QED
  BY <1>1, <1>2, <1>3, Frame DEF Types, volumeVars, podVars
-----------------------------------------------------------------------------
(* Kubernetes, Kafka and the user. *)

\* NoPod is a pod.
LEMMA NoPodIsPod == IsPod(NoPod) /\ NoPod.phase = "none"
BY DEF NoPod, IsPod, Phases

\* A new phase leaves the rest of the pods as it was.
LEMMA PodPhased ==
  ASSUME PodsOK, NEW b \in Brokers, NEW x \in Phases, pod' = [pod EXCEPT ![b].phase = x]
  PROVE  /\ PodsOK' /\ pod'[b].phase = x
         /\ pod'[b].address = pod[b].address /\ pod'[b].static = pod[b].static
         /\ \A c \in Brokers \ {b} : pod'[c] = pod[c]
BY DEF PodsOK, IsPod

\* PodIsScheduled moves one pod on and binds claims.
LEMMA PodIsScheduledFields ==
  ASSUME Types, NEW b \in InScene, PodIsScheduled(b), UNCHANGED service
  PROVE  /\ Types' /\ UNCHANGED <<scene, spec, status, w, left, drained, opVars, task, podVars, service>>
         /\ pod[b].phase = "created" /\ pod'[b].phase = "waiting"
         /\ \A c \in Brokers \ {b} : pod'[c] = pod[c]
         /\ \A c \in Brokers, p \in Paths : claim'[c][p] = claim[c][p] \/ claim'[c][p] = "bound"
<1>1. /\ UNCHANGED <<scene, spec, status, w, left, drained, opVars, task, podVars>> /\ pod[b].phase = "created"
      /\ pod' = [pod EXCEPT ![b].phase = "waiting"]
      /\ claim' = [claim EXCEPT ![b] = [p \in Paths |-> IF p \in pod[b].disks THEN "bound" ELSE @[p]]]
  BY DEF PodIsScheduled
<1>2. b \in Brokers /\ "waiting" \in Phases /\ PodsOK /\ ClaimsOK
  BY Frame, SceneFacts DEF Types, Phases
<1>3. PodsOK' /\ pod'[b].phase = "waiting" /\ \A c \in Brokers \ {b} : pod'[c] = pod[c]
  BY <1>1, <1>2, PodPhased
<1>4. ClaimsOK' /\ \A c \in Brokers, p \in Paths : claim'[c][p] = claim[c][p] \/ claim'[c][p] = "bound"
  BY <1>1, <1>2 DEF ClaimsOK
<1>. QED
  BY <1>1, <1>3, <1>4, Frame DEF Types, podVars

\* A pod starts with the configuration and the address of its map, and its broker is back.
LEMMA PodStartsFields ==
  ASSUME Types, NEW b \in InScene, PodStarts(b), UNCHANGED service
  PROVE  /\ Types' /\ UNCHANGED <<scene, spec, status, w, left, volumeVars, map, sync, service>>
         /\ pod[b].phase = "waiting" /\ map[b].exists /\ pod'[b].phase = "running"
         /\ pod'[b].static = map[b].static /\ pod'[b].address = map[b].address
         /\ \A c \in Brokers \ {b} : pod'[c] = pod[c]
         /\ restarted' = restarted \ {b}
<1>1. /\ UNCHANGED <<scene, spec, status, w, left, volumeVars, map, sync>>
      /\ pod[b].phase = "waiting" /\ map[b].exists /\ restarted' = restarted \ {b}
      /\ pod' = [pod EXCEPT ![b].phase = "running", ![b].static = map[b].static,
                            ![b].address = map[b].address]
  BY DEF PodStarts
<1>2. b \in Brokers /\ "running" \in Phases /\ PodsOK /\ SyncOK
  BY Frame, SceneFacts DEF Types, Phases
<1>3. /\ PodsOK' /\ pod'[b].phase = "running" /\ pod'[b].static = map[b].static
      /\ pod'[b].address = map[b].address /\ \A c \in Brokers \ {b} : pod'[c] = pod[c]
  <2>. DEFINE st == map[b].static
              a == map[b].address
  <2>1. pod' = [pod EXCEPT ![b].phase = "running", ![b].static = st, ![b].address = a]
    BY <1>1
  <2>. HIDE DEF st, a
  <2>2. PodsOK' /\ pod'[b].phase = "running" /\ pod'[b].static = st
        /\ pod'[b].address = a /\ \A c \in Brokers \ {b} : pod'[c] = pod[c]
    <3>. DEFINE q == [pod[b] EXCEPT !.phase = "running", !.static = st, !.address = a]
    <3>1. pod' = [pod EXCEPT ![b] = q]
      BY <1>2, <2>1 DEF PodsOK, IsPod
    <3>2. IsPod(pod[b])
      BY <1>2 DEF PodsOK
    <3>3. IsPod(q) /\ q.phase = "running" /\ q.static = st /\ q.address = a
      <4>1. ASSUME NEW p, IsPod(p), NEW r,
                   r = [p EXCEPT !.phase = "running", !.static = st, !.address = a]
            PROVE  IsPod(r) /\ r.phase = "running" /\ r.static = st /\ r.address = a
        BY <1>2, <4>1 DEF IsPod
      <4>. QED
        BY <3>2, <4>1
    <3>. HIDE DEF q
    <3>. QED
      BY <1>2, <3>1, <3>3 DEF PodsOK
  <2>. QED
    BY <2>2 DEF st, a
<1>4. SyncOK'
  BY <1>1, <1>2, Frame DEF SyncOK
<1>. QED
  BY <1>1, <1>3, <1>4, Frame DEF Types, volumeVars

\* A pod that has stopped is gone, and its broker out of sync.
LEMMA PodStopsFields ==
  ASSUME Types, NEW b \in InScene, PodStops(b), UNCHANGED service
  PROVE  /\ Types' /\ UNCHANGED <<scene, spec, status, w, left, volumeVars, map, restarted, service>>
         /\ pod'[b].phase = "none" /\ ~sync'[b]
         /\ \A c \in Brokers \ {b} : pod'[c] = pod[c] /\ sync'[c] = sync[c]
<1>1. /\ UNCHANGED <<scene, spec, status, w, left, volumeVars, map, restarted>>
      /\ pod' = [pod EXCEPT ![b] = NoPod] /\ sync' = [sync EXCEPT ![b] = FALSE]
  BY DEF PodStops
<1>2. b \in Brokers /\ PodsOK /\ SyncOK
  BY Frame, SceneFacts DEF Types
<1>3. /\ PodsOK' /\ pod'[b].phase = "none" /\ \A c \in Brokers \ {b} : pod'[c] = pod[c]
  BY <1>1, <1>2, NoPodIsPod DEF PodsOK
<1>4. SyncOK' /\ ~sync'[b] /\ \A c \in Brokers \ {b} : sync'[c] = sync[c]
  BY <1>1, <1>2, Frame DEF SyncOK
<1>. QED
  BY <1>1, <1>3, <1>4, Frame DEF Types, volumeVars

\* Only a running broker catches up.
LEMMA CatchUpFields ==
  ASSUME Types, NEW b \in InScene, CatchUp(b), UNCHANGED service
  PROVE  /\ Types' /\ UNCHANGED <<objectVars, volumeVars, map, restarted, service>>
         /\ pod[b].phase = "running" /\ \A c \in Brokers \ {b} : sync'[c] = sync[c]
<1>1. /\ UNCHANGED <<objectVars, volumeVars, map, restarted>> /\ pod[b].phase = "running"
      /\ sync' = [sync EXCEPT ![b] = TRUE]
  BY DEF CatchUp, Running
<1>2. b \in Brokers /\ SyncOK
  BY Frame, SceneFacts DEF Types
<1>3. SyncOK' /\ \A c \in Brokers \ {b} : sync'[c] = sync[c]
  BY <1>1, <1>2, Frame DEF SyncOK, objectVars
<1>. QED
  BY <1>1, <1>3, Frame DEF Types, volumeVars, objectVars

\* Only a running pod breaks, and its broker is out of sync.
LEMMA PodBreaksFields ==
  ASSUME Types, NEW b \in InScene, PodBreaks(b), UNCHANGED service
  PROVE  /\ Types' /\ UNCHANGED <<scene, spec, status, w, volumeVars, map, restarted, service>>
         /\ pod[b].phase = "running" /\ pod'[b].phase \in {"terminated", "evicted"} /\ ~sync'[b]
         /\ \A c \in Brokers \ {b} : pod'[c] = pod[c] /\ sync'[c] = sync[c]
         /\ \A e \in Events : Unspent(e)' => Unspent(e)
<1>1. /\ UNCHANGED <<scene, spec, status, w, volumeVars, map, restarted>> /\ pod[b].phase = "running"
      /\ \E e \in {"break", "evict"} : Spend(e)
      /\ \E x \in {"terminated", "evicted"} : pod' = [pod EXCEPT ![b].phase = x]
      /\ sync' = [sync EXCEPT ![b] = FALSE]
  BY DEF PodBreaks, Running
<1>2. b \in Brokers /\ PodsOK /\ SyncOK /\ {"terminated", "evicted"} \subseteq Phases
      /\ {"break", "evict"} \subseteq Events
  BY Frame, SceneFacts DEF Types, Phases, Events
<1>3. /\ PodsOK' /\ pod'[b].phase \in {"terminated", "evicted"}
      /\ \A c \in Brokers \ {b} : pod'[c] = pod[c]
  BY <1>1, <1>2, PodPhased
<1>4. SyncOK' /\ ~sync'[b] /\ \A c \in Brokers \ {b} : sync'[c] = sync[c]
  BY <1>1, <1>2, Frame DEF SyncOK
<1>5. BudgetOK' /\ \A e \in Events : Unspent(e)' => Unspent(e)
  BY <1>1, <1>2, SpendTypes
<1>. QED
  BY <1>1, <1>3, <1>4, <1>5, Frame DEF Types, volumeVars

\* A released claim is gone.
LEMMA ReleaseClaimFields ==
  ASSUME Types, NEW b \in InScene, NEW p \in Paths, ReleaseClaim(b, p), UNCHANGED <<podVars, service>>
  PROVE  /\ Types' /\ UNCHANGED <<objectVars, drained, opVars, task, podVars, service>>
         /\ \A c \in Brokers, q \in Paths : claim'[c][q] = claim[c][q] \/ claim'[c][q] = "none"
<1>1. /\ UNCHANGED <<objectVars, drained, opVars, task>> /\ claim' = [claim EXCEPT ![b][p] = "none"]
  BY DEF ReleaseClaim
<1>2. b \in Brokers /\ ClaimsOK
  BY Frame, SceneFacts DEF Types
<1>3. ClaimsOK' /\ \A c \in Brokers, q \in Paths : claim'[c][q] = claim[c][q] \/ claim'[c][q] = "none"
  BY <1>1, <1>2 DEF ClaimsOK
<1>. QED
  BY <1>1, <1>3, Frame DEF Types, objectVars, podVars

\* A load balancer that gets its address changes in nothing else.
LEMMA AssignAddressFields ==
  ASSUME Types, NEW i \in Ingresses, AssignAddress(i), UNCHANGED <<volumeVars, podVars>>
  PROVE  /\ Types' /\ UNCHANGED <<objectVars, volumeVars, podVars>>
         /\ \A j \in Doors : /\ service'[j].exists = service[j].exists
                             /\ service'[j].ports = service[j].ports
                             /\ service'[j].routes = service[j].routes
                             /\ service[j].address => service'[j].address
<1>1. UNCHANGED objectVars /\ service' = [service EXCEPT ![i].address = TRUE]
  BY DEF AssignAddress
<1>2. i \in Doors /\ ServicesOK
  BY DEF Types, Doors
<1>3. \A j \in Doors : /\ IsService(service'[j])
                       /\ service'[j].exists = service[j].exists
                       /\ service'[j].ports = service[j].ports
                       /\ service'[j].routes = service[j].routes
                       /\ service[j].address => service'[j].address
  <2>1. TAKE j \in Doors
  <2>2. IsService(service[j])
    BY <1>2 DEF ServicesOK
  <2>3. CASE j # i
    BY <1>1, <1>2, <2>2, <2>3 DEF ServicesOK
  <2>4. CASE j = i
    <3>1. service'[j] = [service[j] EXCEPT !.address = TRUE]
      BY <1>1, <1>2, <2>4 DEF ServicesOK
    <3>. QED
      BY <2>2, <3>1 DEF IsService
  <2>. QED
    BY <2>3, <2>4
<1>4. service' = [j \in Doors |-> service'[j]]
  BY <1>1, <1>2 DEF ServicesOK
<1>5. ServicesOK'
  BY <1>1, <1>3, <1>4, Frame DEF ServicesOK, IsService, objectVars
<1>. QED
  BY <1>1, <1>3, <1>5, Frame DEF Types, objectVars, volumeVars, podVars

\* A crash ends the pass, spends the crash and changes nothing else.
LEMMA CrashFields ==
  ASSUME Types, Crash
  PROVE  /\ Types' /\ UNCHANGED <<scene, spec, status, pod, volumeVars, podVars, service>>
         /\ w'.pc = "idle" /\ ~Unspent("crash")'
         /\ \A e \in Events : Unspent(e)' => Unspent(e)
<1>1. /\ UNCHANGED <<scene, spec, status, pod, volumeVars, podVars, service>>
      /\ EndPass /\ Spend("crash") /\ "crash" \in Events
  BY DEF Crash, Events
<1>2. BudgetOK' /\ ~Unspent("crash")' /\ \A e \in Events : Unspent(e)' => Unspent(e)
  BY <1>1, SpendTypes
<1>. QED
  BY <1>1, <1>2, EndFields, Frame DEF Types, volumeVars, podVars

\* The edits of the user make entries, and no edit adds a rack.
LEMMA EntryEdited ==
  ASSUME NEW e \in SpecEntry, NEW n,
         \/ n = [e EXCEPT !.version = 1]
         \/ \E k \in BOOLEAN : n = [e EXCEPT !.config = "new", !.rack = k /\ @]
         \/ \E i \in Ingresses : n = [e EXCEPT !.ingress = i]
         \/ \E ds \in SUBSET Paths : n = [e EXCEPT !.disks = ds]
  PROVE  n \in SpecEntry /\ (n.rack => e.rack)
<1>1. CASE n = [e EXCEPT !.version = 1]
  BY <1>1 DEF SpecEntry
<1>2. ASSUME NEW k \in BOOLEAN, n = [e EXCEPT !.config = "new", !.rack = k /\ @]
      PROVE  n \in SpecEntry /\ (n.rack => e.rack)
  <2>. DEFINE r == k /\ e.rack
  <2>1. n = [e EXCEPT !.config = "new", !.rack = r]
    BY <1>2 DEF SpecEntry
  <2>2. r \in BOOLEAN /\ (r => e.rack)
    BY Zenon
  <2>. HIDE DEF r
  <2>. QED
    BY <2>1, <2>2 DEF SpecEntry
<1>3. ASSUME NEW i \in Ingresses, n = [e EXCEPT !.ingress = i]
      PROVE  n \in SpecEntry /\ (n.rack => e.rack)
  BY <1>3 DEF SpecEntry
<1>4. ASSUME NEW ds \in SUBSET Paths, n = [e EXCEPT !.disks = ds]
      PROVE  n \in SpecEntry /\ (n.rack => e.rack)
  BY <1>4 DEF SpecEntry
<1>. QED
  BY <1>1, <1>2, <1>3, <1>4

\* The edits of the user change the spec only.
LEMMA EditFields ==
  ASSUME Types, EditVersion \/ \E b \in InScene : EditConfig(b) \/ EditIngress(b) \/ EditDisks(b)
  PROVE  /\ Types' /\ UNCHANGED <<scene, status, pod, w, volumeVars, podVars, service>>
         /\ \A b \in Brokers : spec'[b].rack => spec[b].rack
         /\ \A e \in Events : Unspent(e)' => Unspent(e)
<1>0. spec \in SpecTypes /\ InScene \subseteq Brokers
  BY SceneFacts DEF Types
<1>1. /\ UNCHANGED <<scene, status, pod, w, volumeVars, podVars, service>>
      /\ \E e \in {"version", "config", "ingress", "disks"} : Spend(e)
  BY DEF EditVersion, EditConfig, EditIngress, EditDisks, Edit
<1>2. BudgetOK' /\ \A e \in Events : Unspent(e)' => Unspent(e)
  BY <1>1, SpendTypes DEF Events
<1>3. spec' \in SpecTypes /\ \A b \in Brokers : spec'[b].rack => spec[b].rack
  <2>1. CASE EditVersion
    <3>1. spec' = [b \in Brokers |-> [spec[b] EXCEPT !.version = 1]]
      BY <2>1 DEF EditVersion, Edit
    <3>2. \A b \in Brokers : spec'[b] = [spec[b] EXCEPT !.version = 1] /\ spec[b] \in SpecEntry
      BY <1>0, <3>1 DEF SpecTypes
    <3>3. \A b \in Brokers : spec'[b] \in SpecEntry /\ (spec'[b].rack => spec[b].rack)
      BY <3>2, EntryEdited
    <3>. QED
      BY <3>1, <3>3 DEF SpecTypes
  <2>2. ASSUME NEW b \in InScene, EditConfig(b) \/ EditIngress(b) \/ EditDisks(b)
        PROVE  spec' \in SpecTypes /\ \A c \in Brokers : spec'[c].rack => spec[c].rack
    <3>0. b \in Brokers /\ spec[b] \in SpecEntry
      BY <1>0 DEF SpecTypes
    <3>1. ASSUME NEW n \in SpecEntry, n.rack => spec[b].rack, spec' = [spec EXCEPT ![b] = n]
          PROVE  spec' \in SpecTypes /\ \A c \in Brokers : spec'[c].rack => spec[c].rack
      BY <1>0, <3>0, <3>1 DEF SpecTypes
    <3>2. CASE EditConfig(b)
      <4>1. PICK k \in BOOLEAN : spec' = [spec EXCEPT ![b].config = "new", ![b].rack = k /\ @]
        BY <3>2 DEF EditConfig, Edit
      <4>2. PICK n : n = [spec[b] EXCEPT !.config = "new", !.rack = k /\ @]
        OBVIOUS
      <4>3. spec' = [spec EXCEPT ![b] = n]
        BY <1>0, <3>0, <4>1, <4>2 DEF SpecTypes
      <4>4. n \in SpecEntry /\ (n.rack => spec[b].rack)
        BY <3>0, <4>2, EntryEdited
      <4>. QED
        BY <3>1, <4>3, <4>4
    <3>3. CASE EditIngress(b)
      <4>1. PICK i \in Ingresses : spec' = [spec EXCEPT ![b].ingress = i]
        BY <3>3 DEF EditIngress, Edit
      <4>2. PICK n : n = [spec[b] EXCEPT !.ingress = i]
        OBVIOUS
      <4>3. spec' = [spec EXCEPT ![b] = n]
        BY <1>0, <3>0, <4>1, <4>2 DEF SpecTypes
      <4>4. n \in SpecEntry /\ (n.rack => spec[b].rack)
        BY <3>0, <4>2, EntryEdited
      <4>. QED
        BY <3>1, <4>3, <4>4
    <3>4. CASE EditDisks(b)
      <4>1. PICK ds \in SUBSET Paths : spec' = [spec EXCEPT ![b].disks = ds]
        <5>1. PICK p \in scene.spare :
                spec' = [spec EXCEPT ![b].disks = IF p \in spec[b].disks THEN spec[b].disks \ {p}
                                                  ELSE spec[b].disks \cup {p}]
          BY <3>4 DEF EditDisks, Edit
        <5>2. p \in Paths /\ spec[b].disks \subseteq Paths
          BY <3>0, ScenesAssumption DEF Types, SpecEntry
        <5>. QED
          BY <5>1, <5>2
      <4>2. PICK n : n = [spec[b] EXCEPT !.disks = ds]
        OBVIOUS
      <4>3. spec' = [spec EXCEPT ![b] = n]
        BY <1>0, <3>0, <4>1, <4>2 DEF SpecTypes
      <4>4. n \in SpecEntry /\ (n.rack => spec[b].rack)
        BY <3>0, <4>2, EntryEdited
      <4>. QED
        BY <3>1, <4>3, <4>4
    <3>. QED
      BY <2>2, <3>2, <3>3, <3>4
  <2>. QED
    BY <2>1, <2>2
<1>. QED
  BY <1>1, <1>2, <1>3, Frame DEF Types, volumeVars, podVars

\* A taint changes no phase, no configuration and no address.
LEMMA TaintPodFields ==
  ASSUME Types, NEW b \in InScene, TaintPod(b)
  PROVE  /\ Types' /\ UNCHANGED <<scene, spec, status, w, volumeVars, podVars, service>>
         /\ \A c \in Brokers : /\ pod'[c].phase = pod[c].phase /\ pod'[c].static = pod[c].static
                               /\ pod'[c].address = pod[c].address
         /\ \A e \in Events : Unspent(e)' => Unspent(e)
<1>1. /\ UNCHANGED <<scene, spec, status, w, volumeVars, podVars, service>> /\ Spend("taint")
      /\ pod' = [pod EXCEPT ![b].taint = TRUE] /\ "taint" \in Events
  BY DEF TaintPod, Events
<1>2. b \in Brokers /\ PodsOK
  BY Frame, SceneFacts DEF Types
<1>3. PodsOK' /\ \A c \in Brokers : /\ pod'[c].phase = pod[c].phase /\ pod'[c].static = pod[c].static
                                    /\ pod'[c].address = pod[c].address
  <2>1. PICK q : q = [pod[b] EXCEPT !.taint = TRUE]
    OBVIOUS
  <2>2. pod' = [pod EXCEPT ![b] = q] /\ IsPod(pod[b])
    BY <1>1, <1>2, <2>1 DEF PodsOK
  <2>3. IsPod(q) /\ q.phase = pod[b].phase /\ q.static = pod[b].static /\ q.address = pod[b].address
    BY <2>1, <2>2 DEF IsPod
  <2>. QED
    BY <1>2, <2>2, <2>3 DEF PodsOK
<1>4. BudgetOK' /\ \A e \in Events : Unspent(e)' => Unspent(e)
  BY <1>1, SpendTypes
<1>. QED
  BY <1>1, <1>3, <1>4, Frame DEF Types, volumeVars, podVars

-----------------------------------------------------------------------------
(* The initial states. *)

\* The broker is there at the start.
Rests(b) == b \in InScene /\ ~scene.fresh
\* The way in at the start ...
Door == IF scene.way = "nodeport" THEN "node" ELSE scene.ingress
\* ... and the brokers behind it.
Reached == IF scene.fresh THEN {} ELSE InScene

\* The initial states, variable by variable.
LEMMA InitFacts ==
  ASSUME Init
  PROVE  /\ scene \in Scenes /\ InScene \subseteq Brokers /\ w = Idle /\ left = scene.budget
         /\ task = TaskIdle /\ drained = {} /\ restarted = {} /\ OpsOK
         /\ (\A o \in OpIds : /\ ops[o].policy = "retry" /\ ~ops[o].deleting /\ ops[o].phase # "gone"
                               /\ ops[o].state = "")
         /\ spec = [b \in Brokers |-> [version |-> 0, config |-> "user",
                      rack |-> Rests(b) /\ scene.rackAware, ingress |-> scene.ingress,
                      disks |-> IF b \in InScene THEN scene.disks ELSE {}]]
         /\ StatusOK(status)
         /\ status.rack = [b \in Brokers |-> Rests(b) /\ scene.rackAware]
         /\ status.ingress = [b \in Brokers |-> IF Rests(b) THEN scene.ingress ELSE ""]
         /\ \A b \in Brokers, p \in Paths : status.volume[b][p].kind # "remove"
         /\ PodsOK /\ MapsOK
         /\ \A b \in Brokers :
              IF Rests(b)
              THEN /\ pod[b].phase = "running" /\ pod[b].address = Door
                   /\ pod[b].static = map[b].static /\ map[b].exists /\ map[b].address = Door
              ELSE pod[b].phase = "none" /\ ~map[b].exists
         /\ ClaimsOK /\ sync \in [Brokers -> BOOLEAN]
         /\ service = [i \in Doors |->
              [exists |-> i = Door /\ ~scene.fresh, address |-> i = Door /\ ~scene.fresh,
               routes |-> IF i = scene.ingress /\ scene.way # "nodeport" THEN Reached ELSE {},
               ports |-> IF i = (IF LoadBalanced THEN scene.ingress ELSE "node") THEN Reached ELSE {}]]
<1>. DEFINE static == Static("user", scene.rackAware, SetToSortSeq(scene.disks, LAMBDA p, q : p < q))
            vol == [b \in Brokers |-> [p \in Paths |->
                      IF Rests(b) /\ p \in scene.disks THEN Volume("rebalance", "Succeeded", NoOp) ELSE NoVolume]]
            cfg == [b \in Brokers |-> IF Rests(b) THEN "in" ELSE ""]
            ent == [b \in Brokers |-> Rests(b)]
            rck == [b \in Brokers |-> Rests(b) /\ scene.rackAware]
            ing == [b \in Brokers |-> IF Rests(b) THEN scene.ingress ELSE ""]
<1>1. /\ scene \in Scenes /\ w = Idle /\ left = scene.budget
      /\ task = TaskIdle /\ drained = {} /\ restarted = {}
  BY DEF Init
<1>2. InScene \subseteq Brokers /\ scene.ingress \in Ingresses
  BY <1>1, SceneFacts, ScenesAssumption
<1>3. spec = [b \in Brokers |-> [version |-> 0, config |-> "user",
                rack |-> Rests(b) /\ scene.rackAware, ingress |-> scene.ingress,
                disks |-> IF b \in InScene THEN scene.disks ELSE {}]]
  BY Zenon DEF Init, Rests
<1>4. status = [state |-> IF scene.fresh THEN "reconciling" ELSE "running",
                entry |-> ent, config |-> cfg, dynamic |-> cfg, rack |-> rck, ingress |-> ing,
                volume |-> vol, errors |-> 0]
  BY Zenon DEF Init, Rests
<1>5. pod = [b \in Brokers |->
               IF Rests(b) THEN [NoPod EXCEPT !.phase = "running", !.static = static,
                                              !.address = Door, !.disks = scene.disks]
               ELSE NoPod]
  BY Zenon DEF Init, Rests, Door
<1>6. map = [b \in Brokers |->
               IF Rests(b) THEN [exists |-> TRUE, static |-> static, address |-> Door] ELSE NoMap]
  BY Zenon DEF Init, Rests, Door
<1>7. /\ claim = [b \in Brokers |-> [p \in Paths |->
                    IF Rests(b) /\ p \in scene.disks THEN "bound" ELSE "none"]]
      /\ sync = [b \in Brokers |-> Rests(b)]
  BY Zenon DEF Init, Rests
<1>8. service = [i \in Doors |->
              [exists |-> i = Door /\ ~scene.fresh, address |-> i = Door /\ ~scene.fresh,
               routes |-> IF i = scene.ingress /\ scene.way # "nodeport" THEN Reached ELSE {},
               ports |-> IF i = (IF LoadBalanced THEN scene.ingress ELSE "node") THEN Reached ELSE {}]]
  BY Zenon DEF Init, Door, Reached
<1>9. /\ StatusOK(status) /\ status.rack = rck /\ status.ingress = ing
      /\ \A b \in Brokers, p \in Paths : status.volume[b][p].kind # "remove"
  <2>1. /\ ent \in [Brokers -> BOOLEAN] /\ rck \in [Brokers -> BOOLEAN]
    BY Zenon DEF Rests
  <2>2. /\ cfg \in [Brokers -> {"", "in", "out"}] /\ ing \in [Brokers -> Ingresses \cup {""}]
    BY <1>2
  <2>3. vol \in [Brokers -> [Paths -> VolumeStates]]
        /\ \A b \in Brokers, p \in Paths : vol[b][p].kind # "remove"
    <3>1. /\ Volume("rebalance", "Succeeded", NoOp) \in VolumeStates /\ NoVolume \in VolumeStates
          /\ Volume("rebalance", "Succeeded", NoOp).kind = "rebalance" /\ NoVolume.kind = ""
      BY DEF VolumeStates, Volume, NoVolume, Stages
    <3>. QED
      BY <3>1
  <2>. HIDE DEF ent, rck, cfg, ing, vol
  <2>. QED
    BY <1>4, <2>1, <2>2, <2>3 DEF StatusOK
<1>10. PodsOK /\ \A b \in Brokers :
                   IF Rests(b) THEN /\ pod[b].phase = "running" /\ pod[b].address = Door
                                    /\ pod[b].static = static
                   ELSE pod[b].phase = "none"
  <2>1. PICK q : q = [NoPod EXCEPT !.phase = "running", !.static = static,
                                   !.address = Door, !.disks = scene.disks]
    OBVIOUS
  <2>. HIDE DEF static
  <2>2. IsPod(q) /\ q.phase = "running" /\ q.static = static /\ q.address = Door
    <3>1. IsPod(NoPod) /\ "running" \in Phases
      BY NoPodIsPod DEF Phases
    <3>. QED
      BY <2>1, <3>1 DEF IsPod
  <2>3. pod = [b \in Brokers |-> IF Rests(b) THEN q ELSE NoPod]
    BY <1>5, <2>1
  <2>. QED
    BY <2>2, <2>3, NoPodIsPod DEF PodsOK
<1>11. MapsOK /\ \A b \in Brokers :
                   IF Rests(b) THEN map[b].exists /\ map[b].address = Door /\ map[b].static = static
                   ELSE ~map[b].exists
  <2>1. Door \in Doors
    BY <1>2 DEF Door, Doors
  <2>. HIDE DEF static
  <2>2. IsMap(NoMap) /\ ~NoMap.exists
    BY DEF NoMap, IsMap
  <2>. DEFINE m == [exists |-> TRUE, static |-> static, address |-> Door]
  <2>3. IsMap(m) /\ m.exists /\ m.address = Door /\ m.static = static
    BY <2>1 DEF IsMap
  <2>4. map = [b \in Brokers |-> IF Rests(b) THEN m ELSE NoMap]
    BY <1>6
  <2>. HIDE DEF m
  <2>. QED
    BY <2>2, <2>3, <2>4 DEF MapsOK
<1>12. ClaimsOK /\ sync \in [Brokers -> BOOLEAN]
  <2>1. ClaimsOK
    BY <1>7 DEF ClaimsOK
  <2>2. sync \in [Brokers -> BOOLEAN]
    BY <1>7, Zenon DEF Rests
  <2>. QED
    BY <2>1, <2>2
<1>13. /\ OpsOK
       /\ \A o \in OpIds : /\ ops[o].policy = "retry" /\ ~ops[o].deleting /\ ops[o].phase # "gone"
                            /\ ops[o].state = ""
  <2>1. PICK v : v = Operation!View(Operation!Unborn)
    OBVIOUS
  <2>2. /\ v \in Operation!LifecycleObject /\ v.policy = "retry" /\ ~v.deleting /\ v.phase # "gone"
        /\ v.state = ""
    BY <2>1 DEF Operation!View, Operation!Unborn, Operation!LifecycleObject, Operation!Policies,
                Operation!TaskStates
  <2>3. ops = [o \in OpIds |-> v] /\ work = [o \in OpIds |-> [kind |-> "", of |-> {}]]
    BY <2>1 DEF Init, Operation!LifecycleInit
  <2>. QED
    BY <2>2, <2>3 DEF OpsOK
<1>. HIDE DEF static
<1>. QED
  BY <1>1, <1>2, <1>3, <1>8, <1>9, <1>10, <1>11, <1>12, <1>13

\* They have the types.
LEMMA InitTypes ==
  ASSUME Init
  PROVE  Types
<1>1. spec \in SpecTypes
  <2>1. ASSUME NEW b \in Brokers PROVE spec[b] \in SpecEntry
    <3>1. (Rests(b) /\ scene.rackAware) \in BOOLEAN /\ scene.ingress \in Ingresses
          /\ (IF b \in InScene THEN scene.disks ELSE {}) \subseteq Paths
      BY InitFacts, ScenesAssumption DEF Rests
    <3>2. PICK r \in BOOLEAN, ds \in SUBSET Paths :
            spec[b] = [version |-> 0, config |-> "user", rack |-> r, ingress |-> scene.ingress,
                       disks |-> ds]
      <4>1. spec[b] = [version |-> 0, config |-> "user",
                       rack |-> Rests(b) /\ scene.rackAware, ingress |-> scene.ingress,
                       disks |-> IF b \in InScene THEN scene.disks ELSE {}]
        <5>1. spec = [c \in Brokers |-> [version |-> 0, config |-> "user",
                        rack |-> Rests(c) /\ scene.rackAware, ingress |-> scene.ingress,
                        disks |-> IF c \in InScene THEN scene.disks ELSE {}]]
          BY InitFacts
        <5>. QED
          BY <5>1
      <4>. QED
        BY <3>1, <4>1, Zenon
    <3>. QED
      BY <3>1, <3>2 DEF SpecEntry
  <2>. QED
    BY <2>1, InitFacts DEF SpecTypes
<1>2. ServicesOK
  <2>1. Reached \subseteq InScene
    BY DEF Reached
  <2>2. service = [i \in Doors |-> service[i]]
    BY InitFacts
  <2>3. \A i \in Doors : IsService(service[i])
    <3>1. TAKE i \in Doors
    <3>2. PICK x, y, r, q :
            r \subseteq InScene /\ q \subseteq InScene /\ service[i] = [exists |-> x, address |-> y, routes |-> r, ports |-> q]
      <4>1. service[i] =
              [exists |-> i = Door /\ ~scene.fresh, address |-> i = Door /\ ~scene.fresh,
               routes |-> IF i = scene.ingress /\ scene.way # "nodeport" THEN Reached ELSE {},
               ports |-> IF i = (IF LoadBalanced THEN scene.ingress ELSE "node") THEN Reached ELSE {}]
        BY InitFacts
      <4>2. /\ (IF i = scene.ingress /\ scene.way # "nodeport" THEN Reached ELSE {}) \subseteq InScene
            /\ (IF i = (IF LoadBalanced THEN scene.ingress ELSE "node") THEN Reached ELSE {}) \subseteq InScene
        BY <2>1
      <4>. QED
        BY <4>1, <4>2, Zenon
    <3>. QED
      BY <3>2 DEF IsService
  <2>. QED
    BY <2>2, <2>3 DEF ServicesOK
<1>3. TaskOK /\ DrainedOK /\ SyncOK
  <2>1. task = [pc |-> "idle", tasks |-> NoMarks, op |-> NoOp]
        /\ NoMarks \in [Brokers -> [Paths -> VolumeStates]]
    BY InitFacts, IdleTask
  <2>2. TaskOK
    BY <2>1 DEF TaskOK
  <2>3. drained = {} /\ restarted = {} /\ sync \in [Brokers -> BOOLEAN]
    BY InitFacts
  <2>. QED
    BY <2>2, <2>3 DEF DrainedOK, SyncOK
<1>4. BudgetOK
  <2>1. left = scene.budget /\ left \in [Events -> Nat]
    BY InitFacts, ScenesAssumption
  <2>. QED
    BY <2>1 DEF BudgetOK, Events
<1>5. WorkerOK
  <2>1. w.pc = "idle" /\ IsWorker(w) /\ w.todo = {} /\ w.doors = {}
    <3>1. w = Idle
      BY InitFacts
    <3>. QED
      BY <3>1 DEF Idle, IsWorker
  <2>. QED
    BY <2>1 DEF WorkerOK, WorkerPcs, AddressedPcs, ClaimPcs, BrokerPcs
<1>. QED
  BY <1>1, <1>2, <1>3, <1>4, <1>5, InitFacts DEF Types

-----------------------------------------------------------------------------
(* What the steps of the loop do, field by field. *)

\* The worker goes on without a write, ...
Goes(x) == w'.pc = x /\ w'.cr = w.cr /\ SameWork
\* ... with the copy of a status that it wrote, ...
Writes(x) == w'.pc = x /\ w'.cr.status = status' /\ SameWork
\* ... or not at all.
Ends == w'.pc = "idle"
\* What the invariants read of the status stays.
SameStatus ==
  /\ status'.config = status.config /\ status'.rack = status.rack
  /\ status'.ingress = status.ingress /\ status'.volume = status.volume

\* Goto goes.
LEMMA GoesTo == ASSUME Types, NEW x, Goto(x) PROVE Goes(x)
BY GotoFields DEF Types, WorkerOK, Goes

\* WriteStatus writes.
LEMMA WritesTo ==
  ASSUME Types, NEW x, NEW new, WriteStatus(new, x)
  PROVE  Writes(x) /\ status' = new
BY WriteFields DEF Types, WorkerOK, Writes

\* EndPass ends.
LEMMA EndsPass == ASSUME EndPass PROVE Ends
BY DEF EndPass, Idle, Ends

\* ReconcileMap leaves the map of the broker as it should be, or as it was while the rack
\* is not known. A static part that changes leads to configOut, unless the map is new.
LEMMA ReconcileMapFields ==
  ASSUME Types, ReconcileMap
  PROVE  /\ w.pc = "config" /\ UNCHANGED <<scene, spec, status, pod, left, volumeVars, sync, restarted>>
         /\ \A b \in Brokers \ {w.broker} : map'[b] = map[b]
         /\ \/ /\ Goes("pod") /\ UNCHANGED map
               /\ ~map[w.broker].exists \/ map[w.broker].address = w.address[w.broker]
                  \/ (scene.rackAware /\ ~w.cr.status.rack[w.broker])
            \/ /\ scene.rackAware => w.cr.status.rack[w.broker]
               /\ map'[w.broker].exists /\ map'[w.broker].address = w.address[w.broker]
               /\ \/ Goes("pod") /\ ~map[w.broker].exists
                  \/ Goes("dynamicOut") /\ map'[w.broker].static = map[w.broker].static
                  \/ Goes("configOut")
<1>1. w.pc = "config" /\ UNCHANGED <<scene, spec, status, pod, left, volumeVars, sync, restarted>>
  BY DEF ReconcileMap, At
<1>2. w.broker \in Brokers /\ MapsOK
  BY <1>1, AtBroker DEF BrokerPcs, Types
<1>3. DesiredMap.exists /\ DesiredMap.address = w.address[w.broker]
  BY DEF DesiredMap, AdvertisedListenerConfig, B
<1>4. CASE /\ Goto("pod") /\ UNCHANGED map
           /\ (scene.rackAware /\ ~w.cr.status.rack[w.broker]) \/ map[w.broker] = DesiredMap
  BY <1>1, <1>3, <1>4, GoesTo
<1>5. CASE /\ scene.rackAware => w.cr.status.rack[w.broker]
           /\ map' = [map EXCEPT ![w.broker] = DesiredMap]
           /\ \/ Goto("pod") /\ ~map[w.broker].exists
              \/ Goto("dynamicOut") /\ map[w.broker].static = DesiredMap.static
              \/ Goto("configOut")
  <2>1. map'[w.broker] = DesiredMap /\ \A b \in Brokers \ {w.broker} : map'[b] = map[b]
    BY <1>2, <1>5 DEF MapsOK
  <2>. QED
    BY <1>1, <1>3, <1>5, <2>1, GoesTo
<1>. QED
  BY <1>4, <1>5 DEF ReconcileMap, B, ShouldRefreshOnlyPerBrokerConfigs

\* ConfigOutOfSync takes the configuration out of sync, or loses the write and spends the
\* failure.
LEMMA ConfigOutOfSyncFields ==
  ASSUME Types, ConfigOutOfSync
  PROVE  /\ w.pc \in {"configOut", "dynamicOut"} /\ UNCHANGED <<scene, spec, pod, volumeVars, podVars>>
         /\ \A e \in Events : Unspent(e)' => Unspent(e)
         /\ status'.rack = status.rack /\ status'.ingress = status.ingress
         /\ status'.volume = status.volume
         /\ \/ /\ Writes("pod") /\ w.pc = "configOut"
               /\ status'.config = [status.config EXCEPT ![w.broker] = "out"]
            \/ Writes("pod") /\ w.pc = "dynamicOut" /\ status'.config = status.config
            \/ Goes("pod") /\ ~Unspent("fail")' /\ status' = status
<1>1. w.pc \in {"configOut", "dynamicOut"} /\ UNCHANGED <<scene, spec, pod, volumeVars, podVars>>
  BY DEF ConfigOutOfSync, At
<1>2. w.broker \in Brokers /\ StatusOK(status)
  BY <1>1, AtBroker DEF Types, BrokerPcs
<1>3. CASE Spend("fail") /\ Goto("pod") /\ UNCHANGED status
  <2>1. ~Unspent("fail")' /\ \A e \in Events : Unspent(e)' => Unspent(e)
    BY <1>1, <1>3, SpendTypes DEF Events
  <2>. QED
    BY <1>1, <1>3, <2>1, GoesTo
<1>4. CASE /\ UNCHANGED left /\ w.pc = "configOut"
           /\ WriteStatus([status EXCEPT !.config[w.broker] = "out", !.entry[w.broker] = TRUE], "pod")
  <2>1. Writes("pod") /\ status' = [status EXCEPT !.config[w.broker] = "out", !.entry[w.broker] = TRUE]
    BY <1>4, WritesTo
  <2>2. /\ status'.rack = status.rack /\ status'.ingress = status.ingress
        /\ status'.volume = status.volume
        /\ status'.config = [status.config EXCEPT ![w.broker] = "out"]
    BY <1>2, <2>1, ConfigWritten
  <2>. QED
    BY <1>1, <1>4, <2>1, <2>2 DEF Unspent
<1>5. CASE /\ UNCHANGED left /\ w.pc = "dynamicOut"
           /\ WriteStatus([status EXCEPT !.dynamic[w.broker] = "out", !.entry[w.broker] = TRUE], "pod")
  <2>1. Writes("pod") /\ status' = [status EXCEPT !.dynamic[w.broker] = "out", !.entry[w.broker] = TRUE]
    BY <1>5, WritesTo
  <2>2. /\ status'.rack = status.rack /\ status'.ingress = status.ingress
        /\ status'.volume = status.volume /\ status'.config = status.config
    BY <1>2, <2>1, DynamicWritten
  <2>. QED
    BY <1>1, <1>5, <2>1, <2>2 DEF Unspent
<1>. QED
  BY <1>1, <1>3, <1>4, <1>5 DEF ConfigOutOfSync, At, B

\* ReconcilePod makes a pod where it sees none, which without lag means that there is none.
LEMMA ReconcilePodFields ==
  ASSUME Types, ReconcilePod
  PROVE  /\ w.pc = "pod" /\ UNCHANGED <<scene, spec, status, left, volumeVars, podVars>>
         /\ \/ Ends /\ UNCHANGED pod
            \/ \E x \in {"rack", "upgrade"} : Goes(x) /\ UNCHANGED pod
            \/ /\ Goes("ingressIn") /\ pod'[w.broker].phase = "created"
               /\ \A b \in Brokers \ {w.broker} : pod'[b] = pod[b]
               /\ ~scene.lag => pod[w.broker].phase = "none"
<1>1. w.pc = "pod" /\ UNCHANGED <<scene, spec, status, left, volumeVars, podVars>>
  BY DEF ReconcilePod, At
<1>2. w.broker \in Brokers /\ PodsOK
  BY <1>1, AtBroker DEF Types, BrokerPcs
<1>3. CASE EndPass /\ UNCHANGED pod
  BY <1>1, <1>3, EndsPass
<1>4. CASE UNCHANGED pod /\ \E x \in {"rack", "upgrade"} : Goto(x)
  BY <1>1, <1>4, GoesTo
<1>5. CASE /\ Goto("ingressIn") /\ pod' = [pod EXCEPT ![w.broker] = DesiredPod]
           /\ Listed[w.broker].phase = "none"
  <2>1. pod'[w.broker] = DesiredPod /\ \A b \in Brokers \ {w.broker} : pod'[b] = pod[b]
    BY <1>2, <1>5 DEF PodsOK
  <2>. QED
    BY <1>1, <1>5, <2>1, DesiredPodFields, GoesTo DEF Listed
<1>. QED
  BY <1>3, <1>4, <1>5 DEF ReconcilePod, B

\* The writes of PodInSync change the status of the broker at hand only.
LEMMA PodInSyncFields ==
  ASSUME Types, PodInSync
  PROVE  /\ w.pc \in {"ingressIn", "configIn", "dynamicIn"}
         /\ UNCHANGED <<scene, spec, pod, left, volumeVars, podVars>>
         /\ status'.rack = status.rack /\ status'.volume = status.volume
         /\ \A b \in Brokers \ {w.broker} : status'.ingress[b] = status.ingress[b]
         /\ \/ w.pc = "ingressIn" /\ Writes("configIn") /\ status'.config = status.config
            \/ /\ w.pc = "configIn" /\ Writes("dynamicIn") /\ status'.ingress = status.ingress
               /\ status'.config = [status.config EXCEPT ![w.broker] = "in"]
            \/ /\ w.pc = "dynamicIn" /\ Writes("jmx") /\ status'.ingress = status.ingress
               /\ status'.config = status.config
<1>1. /\ w.pc \in {"ingressIn", "configIn", "dynamicIn"}
      /\ UNCHANGED <<scene, spec, pod, left, volumeVars, podVars>>
  BY DEF PodInSync, At
<1>2. PICK i \in Ingresses : i = w.spec[w.broker].ingress
  BY <1>1, AtBroker DEF BrokerPcs, SpecEntry
<1>3. w.broker \in Brokers /\ StatusOK(status)
  BY <1>1, AtBroker DEF BrokerPcs, Types
<1>4. CASE /\ w.pc = "ingressIn"
           /\ WriteStatus([status EXCEPT !.ingress[w.broker] = i, !.entry[w.broker] = TRUE], "configIn")
  <2>1. Writes("configIn") /\ status' = [status EXCEPT !.ingress[w.broker] = i, !.entry[w.broker] = TRUE]
    BY <1>4, WritesTo
  <2>2. /\ status'.config = status.config /\ status'.rack = status.rack
        /\ status'.ingress = [status.ingress EXCEPT ![w.broker] = i] /\ status'.volume = status.volume
    BY <1>3, <2>1 DEF StatusOK
  <2>3. \A b \in Brokers \ {w.broker} : status'.ingress[b] = status.ingress[b]
    BY <1>3, <2>2 DEF StatusOK
  <2>. QED
    BY <1>1, <1>4, <2>1, <2>2, <2>3
<1>5. CASE /\ w.pc = "configIn"
           /\ WriteStatus([status EXCEPT !.config[w.broker] = "in", !.entry[w.broker] = TRUE], "dynamicIn")
  <2>1. Writes("dynamicIn") /\ status' = [status EXCEPT !.config[w.broker] = "in", !.entry[w.broker] = TRUE]
    BY <1>5, WritesTo
  <2>2. /\ status'.config = [status.config EXCEPT ![w.broker] = "in"] /\ status'.rack = status.rack
        /\ status'.ingress = status.ingress /\ status'.volume = status.volume
    BY <1>3, <2>1, ConfigInWritten
  <2>. QED
    BY <1>1, <1>5, <2>1, <2>2
<1>6. CASE /\ w.pc = "dynamicIn"
           /\ WriteStatus([status EXCEPT !.dynamic[w.broker] = "in", !.entry[w.broker] = TRUE], "jmx")
  <2>1. Writes("jmx") /\ status' = [status EXCEPT !.dynamic[w.broker] = "in", !.entry[w.broker] = TRUE]
    BY <1>6, WritesTo
  <2>2. /\ status'.config = status.config /\ status'.rack = status.rack
        /\ status'.ingress = status.ingress /\ status'.volume = status.volume
    BY <1>3, <2>1, DynamicWritten
  <2>. QED
    BY <1>1, <1>6, <2>1, <2>2
<1>. QED
  BY <1>2, <1>4, <1>5, <1>6 DEF PodInSync, At, B, Entry

\* WriteRackStatus adds a rack to the status.
LEMMA WriteRackStatusFields ==
  ASSUME Types, WriteRackStatus
  PROVE  /\ w.pc = "rackStatus" /\ UNCHANGED <<scene, spec, pod, left, volumeVars, podVars>>
         /\ Writes("upgrade")
         /\ status'.config = status.config /\ status'.ingress = status.ingress
         /\ status'.volume = status.volume
         /\ status'.rack[w.broker] /\ \A b \in Brokers : status.rack[b] => status'.rack[b]
<1>1. w.pc = "rackStatus" /\ UNCHANGED <<scene, spec, pod, left, volumeVars, podVars>>
  BY DEF WriteRackStatus, At
<1>2. w.broker \in Brokers /\ StatusOK(status)
  BY <1>1, AtBroker DEF BrokerPcs, Types
<1>3. Writes("upgrade") /\ status' = [status EXCEPT !.rack[w.broker] = TRUE]
  BY WritesTo DEF WriteRackStatus, B
<1>4. /\ status'.config = status.config /\ status'.ingress = status.ingress
      /\ status'.volume = status.volume /\ status'.rack = [status.rack EXCEPT ![w.broker] = TRUE]
  BY <1>2, <1>3, RackWritten
<1>5. status'.rack[w.broker] /\ \A b \in Brokers : status.rack[b] => status'.rack[b]
  BY <1>2, <1>4 DEF StatusOK
<1>. QED
  BY <1>1, <1>3, <1>4, <1>5

\* CompareBroker changes no more of the status than the state.
LEMMA CompareBrokerFields ==
  ASSUME Types, CompareBroker
  PROVE  /\ w.pc = "upgrade" /\ UNCHANGED <<scene, spec, pod, left, volumeVars, podVars>> /\ SameStatus
         /\ \/ \E x \in {"jmx", "delete", "check"} : Goes(x)
            \/ Writes("check")
<1>1. w.pc = "upgrade" /\ UNCHANGED <<scene, spec, pod, left, volumeVars, podVars>> /\ StatusOK(status)
  BY DEF CompareBroker, At, Types
<1>2. CASE UNCHANGED status /\ \E x \in {"jmx", "delete", "check"} : Goto(x)
  BY <1>1, <1>2, GoesTo DEF SameStatus
<1>3. CASE WriteStatus([status EXCEPT !.state = "upgrading"], "check")
  <2>1. Writes("check") /\ status' = [status EXCEPT !.state = "upgrading"]
    BY <1>3, WritesTo
  <2>2. SameStatus
    BY <1>1, <2>1, StateWritten DEF SameStatus
  <2>. QED
    BY <1>1, <2>1, <2>2
<1>. QED
  BY <1>2, <1>3 DEF CompareBroker

\* AskVersion writes the status as it is.
LEMMA AskVersionFields ==
  ASSUME Types, AskVersion
  PROVE  /\ w.pc = "jmx" /\ UNCHANGED <<scene, spec, status, pod, left, volumeVars, podVars>> /\ SameStatus
         /\ Ends \/ Writes("dynamic")
<1>1. w.pc = "jmx" /\ UNCHANGED <<scene, spec, pod, left, volumeVars, podVars>>
  BY DEF AskVersion, At
<1>2. CASE EndPass /\ UNCHANGED status
  BY <1>1, <1>2, EndsPass DEF SameStatus
<1>3. CASE WriteStatus(status, "dynamic")
  BY <1>1, <1>3, WritesTo DEF SameStatus
<1>. QED
  BY <1>2, <1>3 DEF AskVersion

\* FinishPass changes no more of the status than the state.
LEMMA FinishPassFields ==
  ASSUME Types, FinishPass
  PROVE  /\ Ends /\ UNCHANGED <<scene, spec, pod, left, volumeVars, podVars>> /\ SameStatus
         /\ w.pc = "next"
<1>1. /\ UNCHANGED <<scene, spec, pod, left, volumeVars, podVars>> /\ EndPass /\ w.pc = "next"
      /\ UNCHANGED status \/ status' = [status EXCEPT !.state = "running"]
  BY DEF FinishPass, At
<1>2. SameStatus
  BY <1>1, StateWritten DEF Types, SameStatus
<1>. QED
  BY <1>1, <1>2, EndsPass

\* CheckUpgrade goes on to a restart only when the checks pass.
LEMMA CheckUpgradeFields ==
  ASSUME Types, CheckUpgrade
  PROVE  /\ w.pc = "check" /\ UNCHANGED <<scene, spec, status, pod, left, volumeVars, podVars>>
         /\ Ends \/ (MayRestart /\ Goes("restart"))
BY GoesTo, EndsPass DEF CheckUpgrade, At

\* A step that changes nothing keeps the types.
LEMMA StutterTypes ==
  ASSUME Types, UNCHANGED vars
  PROVE  Types'
BY Frame DEF Types, vars, objectVars, volumeVars, podVars

\* Every step keeps the types.
LEMMA TypesStep ==
  ASSUME Types, [Next]_vars
  PROVE  Types'
<1>1. ASSUME StartPass, UNCHANGED <<volumeVars, podVars>>
      PROVE  Types'
  BY <1>1, StartPassTypes
<1>2. ASSUME NEW i \in Ingresses, ReconcileIngress(i), UNCHANGED <<volumeVars, podVars>>
      PROVE  Types'
  BY <1>2, ServiceStepTypes
<1>3. ASSUME ReconcileRoutes, UNCHANGED <<volumeVars, podVars>>
      PROVE  Types'
  BY <1>3, ServiceStepTypes
<1>4. ASSUME ReconcileNodePorts, UNCHANGED <<volumeVars, podVars>>
      PROVE  Types'
  BY <1>4, ServiceStepTypes
<1>5. ASSUME ReconcileContour, UNCHANGED <<volumeVars, podVars>>
      PROVE  Types'
  BY <1>5, ServiceStepTypes
<1>6. ASSUME PublishListeners, UNCHANGED <<volumeVars, podVars>>
      PROVE  Types'
  BY <1>6, PublishListenersTypes
<1>7. ASSUME NEW b \in Brokers, NEW p \in Paths, DeleteClaim(b, p), UNCHANGED <<podVars, service>>
      PROVE  Types'
  BY <1>7, DeleteClaimTypes
<1>8. ASSUME NEW b \in Brokers, ReconcileClaims(b), UNCHANGED <<podVars, service>>
      PROVE  Types'
  BY <1>8, ReconcileClaimsTypes
<1>9. ASSUME ForgetVolume, UNCHANGED <<podVars, service>>
      PROVE  Types'
  BY <1>9, ForgetVolumeTypes
<1>10. ASSUME MarkVolumes, UNCHANGED <<podVars, service>>
      PROVE  Types'
  BY <1>10, MarkVolumesTypes
<1>11. ASSUME ListBrokers, UNCHANGED service
      PROVE  Types'
  BY <1>11, ListBrokersTypes
<1>12. ASSUME OrderBrokers, UNCHANGED service
      PROVE  Types'
  BY <1>12, OrderBrokersTypes
<1>13. ASSUME ReconcileMap, UNCHANGED service
      PROVE  Types'
  BY <1>13, ReconcileMapTypes
<1>14. ASSUME ConfigOutOfSync, UNCHANGED service
      PROVE  Types'
  BY <1>14, ConfigOutOfSyncTypes
<1>15. ASSUME ReconcilePod, UNCHANGED service
      PROVE  Types'
  BY <1>15, ReconcilePodTypes
<1>16. ASSUME PodInSync, UNCHANGED service
      PROVE  Types'
  BY <1>16, PodInSyncTypes
<1>17. ASSUME WriteRack, UNCHANGED service
      PROVE  Types'
  BY <1>17, WriteRackTypes
<1>18. ASSUME WriteRackStatus, UNCHANGED service
      PROVE  Types'
  BY <1>18, WriteRackStatusTypes
<1>19. ASSUME CompareBroker, UNCHANGED service
      PROVE  Types'
  BY <1>19, CompareBrokerTypes
<1>20. ASSUME CheckUpgrade, UNCHANGED service
      PROVE  Types'
  BY <1>20, CheckUpgradeTypes
<1>21. ASSUME DeletePod, UNCHANGED service
      PROVE  Types'
  BY <1>21, DeletePodTypes
<1>22. ASSUME AskVersion, UNCHANGED service
      PROVE  Types'
  BY <1>22, AskVersionTypes
<1>23. ASSUME ReconcileDynamic \/ AlterDynamic \/ DynamicInSync, UNCHANGED service
      PROVE  Types'
  BY <1>23, DynamicStepTypes
<1>24. ASSUME FinishPass, UNCHANGED service
      PROVE  Types'
  BY <1>24, FinishPassTypes
<1>25. ASSUME Crash
      PROVE  Types'
  BY <1>25, CrashFields
<1>26. ASSUME EditVersion \/ \E b \in InScene : EditConfig(b) \/ EditIngress(b) \/ EditDisks(b)
      PROVE  Types'
  BY <1>26, EditFields
<1>27. ASSUME NEW b \in InScene, TaintPod(b)
      PROVE  Types'
  BY <1>27, TaintPodFields
<1>28. ASSUME QuietStep, UNCHANGED <<podVars, service>>
      PROVE  Types'
  BY <1>28, QuietFields
<1>29. ASSUME TaskSync \/ TaskSchedule, UNCHANGED <<podVars, service>>
      PROVE  Types'
  BY <1>29, UpdateStatusTypes
<1>30. ASSUME NEW b \in InScene, PodIsScheduled(b), UNCHANGED service
      PROVE  Types'
  BY <1>30, PodIsScheduledFields
<1>31. ASSUME NEW b \in InScene, PodStarts(b), UNCHANGED service
      PROVE  Types'
  BY <1>31, PodStartsFields
<1>32. ASSUME NEW b \in InScene, PodStops(b), UNCHANGED service
      PROVE  Types'
  BY <1>32, PodStopsFields
<1>33. ASSUME NEW b \in InScene, CatchUp(b), UNCHANGED service
      PROVE  Types'
  BY <1>33, CatchUpFields
<1>34. ASSUME NEW b \in InScene, PodBreaks(b), UNCHANGED service
      PROVE  Types'
  BY <1>34, PodBreaksFields
<1>35. ASSUME NEW b \in InScene, NEW p \in Paths, ReleaseClaim(b, p), UNCHANGED <<podVars, service>>
      PROVE  Types'
  BY <1>35, ReleaseClaimFields
<1>36. ASSUME CountAlerts
      PROVE  Types'
  BY <1>36, CountAlertsFields
<1>37. ASSUME NEW i \in Ingresses, AssignAddress(i), UNCHANGED <<volumeVars, podVars>>
      PROVE  Types'
  BY <1>37, AssignAddressFields
<1>38. CASE UNCHANGED vars
  BY <1>38, StutterTypes
<1>. QED
  BY <1>1, <1>2, <1>3, <1>4, <1>5, <1>6, <1>7, <1>8, <1>9, <1>10, <1>11, <1>12, <1>13, <1>14,
     <1>15, <1>16, <1>17, <1>18, <1>19, <1>20, <1>21, <1>22, <1>23, <1>24, <1>25, <1>26, <1>27,
     <1>28, <1>29, <1>30, <1>31, <1>32, <1>33, <1>34, <1>35, <1>36, <1>37, <1>38
  DEF Next, Worker, IngressStep, VolumeStep, PodStep, TaskStep, OpStep, OpEvent,
      QuietStep, Kube, UserStep

\* The variables of the KafkaCluster controller's passes, of the volumes, the pods and the
\* ingress have their types, whatever brokers, volumes, ingresses and scenes there are.
THEOREM ClusterTypes == Spec => []TypeOK
<1>1. Spec => []Types
  BY InitTypes, TypesStep, PTL DEF Spec
<1>. QED
  BY <1>1, TypesImply, PTL

-----------------------------------------------------------------------------
(* What the other steps do, in the same terms. *)

\* Lost writes, crashes and the edits of operations are counted.
LEMMA CountedEvents == {"fail", "crash", "opEdit"} \subseteq Events
BY DEF Events

\* A step that spends nothing leaves unspent what was.
LEMMA UnspentKept ==
  ASSUME UNCHANGED <<scene, left>>
  PROVE  \A e \in Events : Unspent(e)' = Unspent(e)
BY DEF Unspent

\* ListBrokers moves the worker only.
LEMMA ListBrokersEffect ==
  ASSUME Types, ListBrokers
  PROVE  /\ w.pc = "order" /\ UNCHANGED <<scene, spec, status, pod, left, volumeVars, podVars>>
         /\ w'.pc = "next" /\ w'.cr = w.cr /\ w'.address = w.address
<1>1. /\ w.pc = "order" /\ UNCHANGED <<scene, spec, status, pod, left, volumeVars, podVars>>
      /\ w' = [w EXCEPT !.pc = "next", !.todo = InScene, !.spec = w.cr.spec, !.pods = pod]
  BY DEF ListBrokers, At
<1>2. w'.pc = "next" /\ w'.cr = w.cr /\ w'.address = w.address
  BY <1>1 DEF Types, WorkerOK, IsWorker
<1>. QED
  BY <1>1, <1>2

\* So does OrderBrokers.
LEMMA OrderBrokersEffect ==
  ASSUME Types, OrderBrokers
  PROVE  /\ w.pc = "next" /\ UNCHANGED <<scene, spec, status, pod, left, volumeVars, podVars>>
         /\ w'.pc = "config" /\ w'.cr = w.cr /\ w'.address = w.address
<1>1. /\ w.pc = "next" /\ UNCHANGED <<scene, spec, status, pod, left, volumeVars, podVars>>
      /\ w' = [w EXCEPT !.pc = "config", !.broker = Following(w.todo),
                        !.todo = @ \ {Following(w.todo)}]
  BY DEF OrderBrokers, At
<1>2. w'.pc = "config" /\ w'.cr = w.cr /\ w'.address = w.address
  BY <1>1 DEF Types, WorkerOK, IsWorker
<1>. QED
  BY <1>1, <1>2

\* ForgetVolume takes the entry of a volume out of the status.
LEMMA ForgetVolumeEffect ==
  ASSUME Types, ForgetVolume, UNCHANGED <<podVars, service>>
  PROVE  /\ w.pc = "forget" /\ UNCHANGED <<scene, spec, pod, left, volumeVars>>
         /\ Writes("claims")
         /\ status'.config = status.config /\ status'.rack = status.rack
         /\ status'.ingress = status.ingress
         /\ \A b \in Brokers, p \in Paths :
              status'.volume[b][p] = status.volume[b][p] \/ status'.volume[b][p] = NoVolume
<1>1. UNCHANGED <<scene, spec, pod, left, volumeVars>>
  BY DEF ForgetVolume
<1>2. PICK c \in Brokers, q \in Paths : status'.volume = [status.volume EXCEPT ![c][q] = NoVolume]
  BY ForgetVolumeTypes
<1>3. ASSUME NEW b \in Brokers, NEW p \in Paths
      PROVE  status'.volume[b][p] = status.volume[b][p] \/ status'.volume[b][p] = NoVolume
  <2>1. status.volume \in [Brokers -> [Paths -> VolumeStates]]
    BY DEF Types, StatusOK
  <2>. QED
    BY <1>2, <2>1
<1>. QED
  BY <1>1, <1>3, ForgetVolumeTypes DEF Writes

\* The ingress reconcilers change services and the place of the worker only.
LEMMA IngressEffect ==
  ASSUME Types, UNCHANGED <<volumeVars, podVars>>,
         (\E i \in Ingresses : ReconcileIngress(i)) \/ ReconcileRoutes \/ ReconcileNodePorts
           \/ ReconcileContour
  PROVE  /\ w.pc \in {"ingress", "routes", "nodeports", "contour"}
         /\ UNCHANGED <<scene, spec, status, pod, left, volumeVars, podVars>>
         /\ w'.pc \in {"ingress", "routes", "contour", "listeners"} /\ w'.cr = w.cr
<1>1. ASSUME NEW i \in Ingresses, ReconcileIngress(i)
      PROVE  /\ w.pc = "ingress" /\ UNCHANGED <<scene, spec, status, pod, left>>
             /\ w'.pc = "routes" /\ w'.cr = w.cr
  BY <1>1, ReconcileIngressFields
<1>2. CASE ReconcileRoutes
  <2>1. \E x \in {"ingress", "listeners"} : Goto(x)
    BY <1>2 DEF ReconcileRoutes
  <2>. QED
    BY <1>2, <2>1, GoesTo DEF ReconcileRoutes, At, Goes
<1>3. CASE ReconcileNodePorts
  <2>1. \E x \in {"contour", "listeners"} : Goto(x)
    BY <1>3 DEF ReconcileNodePorts
  <2>. QED
    BY <1>3, <2>1, GoesTo DEF ReconcileNodePorts, At, Goes
<1>4. CASE ReconcileContour
  BY <1>4, GoesTo DEF ReconcileContour, At, Goes
<1>. QED
  BY <1>1, <1>2, <1>3, <1>4

\* PublishListeners brings the copy up to date or ends the pass.
LEMMA PublishListenersEffect ==
  ASSUME Types, PublishListeners
  PROVE  /\ w.pc = "listeners" /\ UNCHANGED <<scene, spec, status, pod, left, service>>
         /\ Ends \/ (w'.pc = "claims" /\ w'.cr.status = status)
<1>1. CASE EndPass
  BY <1>1, PublishListenersFields, EndsPass
<1>2. CASE w'.pc = "claims" /\ w'.cr = [spec |-> spec, status |-> status]
  <2>1. w'.cr.status = status
    BY <1>2
  <2>. QED
    BY <1>2, <2>1, PublishListenersFields
<1>. QED
  BY <1>1, <1>2, PublishListenersFields

\* WriteRack changes the entry of the broker at hand only.
LEMMA WriteRackEffect ==
  ASSUME Types, WriteRack
  PROVE  /\ w.pc = "rack" /\ UNCHANGED <<scene, status, pod, left, volumeVars, podVars>>
         /\ \/ Ends /\ UNCHANGED spec
            \/ /\ w'.pc = "rackStatus" /\ SameWork
               /\ w'.cr.status = w.cr.status
               /\ \A b \in Brokers \ {w.broker} : spec'[b] = spec[b]
<1>1. CASE EndPass /\ UNCHANGED spec
  BY <1>1, WriteRackFields, EndsPass
<1>2. CASE /\ spec' = [spec EXCEPT ![w.broker] = RackOf(w.broker)]
           /\ w'.pc = "rackStatus" /\ SameWork
           /\ w'.cr = [spec |-> spec', status |-> w.cr.status]
  <2>1. w'.cr.status = w.cr.status
    BY <1>2
  <2>2. \A b \in Brokers \ {w.broker} : spec'[b] = spec[b]
    BY <1>2 DEF Types, SpecTypes
  <2>. QED
    BY <1>2, <2>1, <2>2, WriteRackFields
<1>. QED
  BY <1>1, <1>2, WriteRackFields

\* DeletePod stops the pod at hand; its broker counts as restarted only when it was
\* allowed.
LEMMA DeletePodEffect ==
  ASSUME Types, DeletePod
  PROVE  /\ w.pc \in {"restart", "delete"} /\ w.broker \in InScene
         /\ UNCHANGED <<scene, spec, status, left, volumeVars, map, sync>>
         /\ \/ Ends /\ UNCHANGED <<pod, restarted>>
            \/ /\ Goes("jmx") /\ PodsOK' /\ pod'[w.broker].phase = "stopping"
               /\ \A b \in Brokers \ {w.broker} : pod'[b] = pod[b]
               /\ \/ restarted' = restarted
                  \/ w.pc = "restart" /\ restarted' = restarted \cup {w.broker}
<1>1. CASE EndPass /\ UNCHANGED <<pod, restarted>>
  BY <1>1, DeletePodFields, EndsPass
<1>2. CASE Goto("jmx")
  BY <1>2, DeletePodFields, GoesTo, EndsPass
<1>. QED
  BY <1>1, <1>2, DeletePodFields

\* The steps of the dynamic configuration give a running broker the address of its map, if
\* anything.
LEMMA DynamicEffect ==
  ASSUME Types, ReconcileDynamic \/ AlterDynamic \/ DynamicInSync
  PROVE  /\ w.pc \in {"dynamic", "alter", "altered"} /\ UNCHANGED <<scene, spec, volumeVars, podVars>>
         /\ SameStatus /\ \A e \in Events : Unspent(e)' => Unspent(e)
         /\ w'.pc \in {"next", "alter", "altered"} /\ SameWork
         /\ (w'.cr = w.cr /\ UNCHANGED status) \/ w'.cr.status = status'
         /\ \A b \in Brokers :
              /\ pod'[b].phase = pod[b].phase /\ pod'[b].static = pod[b].static
              /\ \/ pod'[b].address = pod[b].address
                 \/ pod'[b].address = map[b].address /\ pod[b].phase = "running"
<1>1. /\ w.pc \in {"dynamic", "alter", "altered"} /\ UNCHANGED <<scene, spec, volumeVars, podVars>>
      /\ UNCHANGED left \/ Spend("invalid")
      /\ \E x \in {"next", "alter", "altered"} : DynamicWrites(x)
      /\ \/ UNCHANGED pod
         \/ /\ pod[w.broker].phase = "running"
            /\ pod' = [pod EXCEPT ![w.broker].address = map[w.broker].address]
  BY ReconcileDynamicFields, AlterDynamicFields, DynamicInSyncFields
<1>2. w.broker \in Brokers /\ StatusOK(status) /\ PodsOK /\ "invalid" \in Events
  BY <1>1, AtBroker DEF BrokerPcs, Types, Events
<1>3. \A e \in Events : Unspent(e)' => Unspent(e)
  BY <1>1, <1>2, SpendTypes DEF Unspent
<1>4. /\ w'.pc \in {"next", "alter", "altered"} /\ SameWork
      /\ (w'.cr = w.cr /\ UNCHANGED status) \/ w'.cr.status = status'
  BY <1>1 DEF DynamicWrites
<1>5. SameStatus
  <2>1. \/ UNCHANGED status
        \/ \E d \in {"in", "out", "error"} :
             status' = [status EXCEPT !.dynamic[w.broker] = d, !.entry[w.broker] = TRUE]
    BY <1>1 DEF DynamicWrites
  <2>2. ASSUME NEW d \in {"in", "out", "error"},
               status' = [status EXCEPT !.dynamic[w.broker] = d, !.entry[w.broker] = TRUE]
        PROVE  SameStatus
    BY <1>2, <2>2 DEF StatusOK, SameStatus
  <2>. QED
    BY <2>1, <2>2 DEF SameStatus
<1>6. \A b \in Brokers :
              /\ pod'[b].phase = pod[b].phase /\ pod'[b].static = pod[b].static
              /\ \/ pod'[b].address = pod[b].address
                 \/ pod'[b].address = map[b].address /\ pod[b].phase = "running"
  BY <1>1, <1>2, PodAddressed
<1>7. w.pc \in {"dynamic", "alter", "altered"} /\ UNCHANGED <<scene, spec, volumeVars, podVars>>
  BY <1>1
<1>. QED
  BY <1>3, <1>4, <1>5, <1>6, <1>7

-----------------------------------------------------------------------------
(* Maps, configurations and racks. *)

\* The configuration states of the status.
LEMMA ConfigTyped == ASSUME Types PROVE status.config \in [Brokers -> {"", "in", "out"}]
BY DEF Types, StatusOK

\* Racks and ingresses of the copy stay those of the status: only the worker writes them.
LEMMA CopyStep ==
  ASSUME Types, CopyInv, [Next]_vars
  PROVE  CopyInv'
<1>1. ASSUME StartPass, UNCHANGED <<volumeVars, podVars>>
      PROVE  CopyInv'
  BY <1>1, StartPassFields DEF CopyInv, volumeVars, podVars
<1>2. ASSUME NEW i \in Ingresses, ReconcileIngress(i), UNCHANGED <<volumeVars, podVars>>
      PROVE  CopyInv'
  BY <1>2, IngressEffect DEF CopyInv, SameWork, Goes, volumeVars, podVars
<1>3. ASSUME ReconcileRoutes, UNCHANGED <<volumeVars, podVars>>
      PROVE  CopyInv'
  BY <1>3, IngressEffect DEF CopyInv, SameWork, Goes, volumeVars, podVars
<1>4. ASSUME ReconcileNodePorts, UNCHANGED <<volumeVars, podVars>>
      PROVE  CopyInv'
  BY <1>4, IngressEffect DEF CopyInv, SameWork, Goes, volumeVars, podVars
<1>5. ASSUME ReconcileContour, UNCHANGED <<volumeVars, podVars>>
      PROVE  CopyInv'
  BY <1>5, IngressEffect DEF CopyInv, SameWork, Goes, volumeVars, podVars
<1>6. ASSUME PublishListeners, UNCHANGED <<volumeVars, podVars>>
      PROVE  CopyInv'
  BY <1>6, PublishListenersEffect DEF CopyInv, Ends, volumeVars, podVars
<1>7. ASSUME NEW b \in Brokers, NEW p \in Paths, DeleteClaim(b, p), UNCHANGED <<podVars, service>>
      PROVE  CopyInv'
  BY <1>7, DeleteClaimFields DEF CopyInv, podVars
<1>8. ASSUME NEW b \in Brokers, ReconcileClaims(b), UNCHANGED <<podVars, service>>
      PROVE  CopyInv'
  BY <1>8, ReconcileClaimsFields DEF CopyInv, podVars
<1>9. ASSUME ForgetVolume, UNCHANGED <<podVars, service>>
      PROVE  CopyInv'
  BY <1>9, ForgetVolumeEffect DEF CopyInv, SameWork, Writes, volumeVars, podVars
<1>10. ASSUME MarkVolumes, UNCHANGED <<podVars, service>>
      PROVE  CopyInv'
  BY <1>10, MarkVolumesTypes DEF CopyInv, SameWork, volumeVars, podVars
<1>11. ASSUME ListBrokers, UNCHANGED service
      PROVE  CopyInv'
  BY <1>11, ListBrokersEffect DEF CopyInv, volumeVars, podVars
<1>12. ASSUME OrderBrokers, UNCHANGED service
      PROVE  CopyInv'
  BY <1>12, OrderBrokersEffect DEF CopyInv, volumeVars, podVars
<1>13. ASSUME ReconcileMap, UNCHANGED service
      PROVE  CopyInv'
  BY <1>13, ReconcileMapFields DEF CopyInv, SameWork, Goes, volumeVars
<1>14. ASSUME ConfigOutOfSync, UNCHANGED service
      PROVE  CopyInv'
  BY <1>14, ConfigOutOfSyncFields DEF CopyInv, SameWork, Goes, Writes, volumeVars, podVars
<1>15. ASSUME ReconcilePod, UNCHANGED service
      PROVE  CopyInv'
  BY <1>15, ReconcilePodFields DEF CopyInv, SameWork, Goes, Ends, volumeVars, podVars
<1>16. ASSUME PodInSync, UNCHANGED service
      PROVE  CopyInv'
  BY <1>16, PodInSyncFields DEF CopyInv, SameWork, Writes, volumeVars, podVars
<1>17. ASSUME WriteRack, UNCHANGED service
      PROVE  CopyInv'
  BY <1>17, WriteRackEffect DEF CopyInv, SameWork, Ends, volumeVars, podVars
<1>18. ASSUME WriteRackStatus, UNCHANGED service
      PROVE  CopyInv'
  BY <1>18, WriteRackStatusFields DEF CopyInv, SameWork, Writes, volumeVars, podVars
<1>19. ASSUME CompareBroker, UNCHANGED service
      PROVE  CopyInv'
  BY <1>19, CompareBrokerFields
  DEF CopyInv, SameStatus, SameWork, Goes, Writes, volumeVars, podVars
<1>20. ASSUME CheckUpgrade, UNCHANGED service
      PROVE  CopyInv'
  BY <1>20, CheckUpgradeFields DEF CopyInv, SameWork, Goes, Ends, volumeVars, podVars
<1>21. ASSUME DeletePod, UNCHANGED service
      PROVE  CopyInv'
  BY <1>21, DeletePodEffect DEF CopyInv, SameWork, Goes, Ends, volumeVars
<1>22. ASSUME AskVersion, UNCHANGED service
      PROVE  CopyInv'
  BY <1>22, AskVersionFields DEF CopyInv, SameStatus, SameWork, Writes, Ends, volumeVars, podVars
<1>23. ASSUME ReconcileDynamic \/ AlterDynamic \/ DynamicInSync, UNCHANGED service
      PROVE  CopyInv'
  BY <1>23, DynamicEffect DEF CopyInv, SameStatus, SameWork, volumeVars, podVars
<1>24. ASSUME FinishPass, UNCHANGED service
      PROVE  CopyInv'
  BY <1>24, FinishPassFields DEF CopyInv, SameStatus, Ends, volumeVars, podVars
<1>25. ASSUME Crash
      PROVE  CopyInv'
  BY <1>25, CrashFields DEF CopyInv, volumeVars, podVars
<1>26. ASSUME EditVersion \/ \E b \in InScene : EditConfig(b) \/ EditIngress(b) \/ EditDisks(b)
      PROVE  CopyInv'
  BY <1>26, EditFields DEF CopyInv, volumeVars, podVars
<1>27. ASSUME NEW b \in InScene, TaintPod(b)
      PROVE  CopyInv'
  BY <1>27, TaintPodFields DEF CopyInv, volumeVars, podVars
<1>28. ASSUME QuietStep, UNCHANGED <<podVars, service>>
      PROVE  CopyInv'
  BY <1>28, QuietFields DEF CopyInv, podVars
<1>29. ASSUME TaskSync \/ TaskSchedule, UNCHANGED <<podVars, service>>
      PROVE  CopyInv'
  BY <1>29, UpdateStatusFields DEF CopyInv, podVars
<1>30. ASSUME NEW b \in InScene, PodIsScheduled(b), UNCHANGED service
      PROVE  CopyInv'
  BY <1>30, PodIsScheduledFields DEF CopyInv, podVars
<1>31. ASSUME NEW b \in InScene, PodStarts(b), UNCHANGED service
      PROVE  CopyInv'
  BY <1>31, PodStartsFields DEF CopyInv, volumeVars
<1>32. ASSUME NEW b \in InScene, PodStops(b), UNCHANGED service
      PROVE  CopyInv'
  BY <1>32, PodStopsFields DEF CopyInv, volumeVars
<1>33. ASSUME NEW b \in InScene, CatchUp(b), UNCHANGED service
      PROVE  CopyInv'
  BY <1>33, CatchUpFields DEF CopyInv, objectVars, volumeVars
<1>34. ASSUME NEW b \in InScene, PodBreaks(b), UNCHANGED service
      PROVE  CopyInv'
  BY <1>34, PodBreaksFields DEF CopyInv, volumeVars
<1>35. ASSUME NEW b \in InScene, NEW p \in Paths, ReleaseClaim(b, p), UNCHANGED <<podVars, service>>
      PROVE  CopyInv'
  BY <1>35, ReleaseClaimFields DEF CopyInv, objectVars, podVars
<1>36. ASSUME CountAlerts
      PROVE  CopyInv'
  BY <1>36, CountAlertsFields DEF CopyInv, volumeVars, podVars
<1>37. ASSUME NEW i \in Ingresses, AssignAddress(i), UNCHANGED <<volumeVars, podVars>>
      PROVE  CopyInv'
  BY <1>37, AssignAddressFields DEF CopyInv, objectVars, volumeVars, podVars
<1>38. CASE UNCHANGED vars
  BY <1>38 DEF CopyInv, vars, objectVars, volumeVars, podVars
<1>. QED
  BY <1>1, <1>2, <1>3, <1>4, <1>5, <1>6, <1>7, <1>8, <1>9, <1>10, <1>11, <1>12, <1>13, <1>14,
     <1>15, <1>16, <1>17, <1>18, <1>19, <1>20, <1>21, <1>22, <1>23, <1>24, <1>25, <1>26, <1>27,
     <1>28, <1>29, <1>30, <1>31, <1>32, <1>33, <1>34, <1>35, <1>36, <1>37, <1>38
  DEF Next, Worker, IngressStep, VolumeStep, PodStep, TaskStep, OpStep, OpEvent,
      QuietStep, Kube, UserStep

\* A map stays where a broker runs, and the rack is known where a map is made.
LEMMA MapStep ==
  ASSUME Types, CopyInv, MapInv, [Next]_vars
  PROVE  MapInv'
<1>1. ASSUME StartPass, UNCHANGED <<volumeVars, podVars>>
      PROVE  MapInv'
  BY <1>1, SceneFacts, StartPassFields DEF MapInv, volumeVars, podVars
<1>2. ASSUME NEW i \in Ingresses, ReconcileIngress(i), UNCHANGED <<volumeVars, podVars>>
      PROVE  MapInv'
  BY <1>2, SceneFacts, IngressEffect DEF MapInv, SameWork, Goes, volumeVars, podVars
<1>3. ASSUME ReconcileRoutes, UNCHANGED <<volumeVars, podVars>>
      PROVE  MapInv'
  BY <1>3, SceneFacts, IngressEffect DEF MapInv, SameWork, Goes, volumeVars, podVars
<1>4. ASSUME ReconcileNodePorts, UNCHANGED <<volumeVars, podVars>>
      PROVE  MapInv'
  BY <1>4, SceneFacts, IngressEffect DEF MapInv, SameWork, Goes, volumeVars, podVars
<1>5. ASSUME ReconcileContour, UNCHANGED <<volumeVars, podVars>>
      PROVE  MapInv'
  BY <1>5, SceneFacts, IngressEffect DEF MapInv, SameWork, Goes, volumeVars, podVars
<1>6. ASSUME PublishListeners, UNCHANGED <<volumeVars, podVars>>
      PROVE  MapInv'
  BY <1>6, SceneFacts, PublishListenersEffect DEF MapInv, Ends, volumeVars, podVars
<1>7. ASSUME NEW b \in Brokers, NEW p \in Paths, DeleteClaim(b, p), UNCHANGED <<podVars, service>>
      PROVE  MapInv'
  BY <1>7, SceneFacts, DeleteClaimFields DEF MapInv, podVars
<1>8. ASSUME NEW b \in Brokers, ReconcileClaims(b), UNCHANGED <<podVars, service>>
      PROVE  MapInv'
  BY <1>8, SceneFacts, ReconcileClaimsFields DEF MapInv, podVars
<1>9. ASSUME ForgetVolume, UNCHANGED <<podVars, service>>
      PROVE  MapInv'
  BY <1>9, SceneFacts, ForgetVolumeEffect DEF MapInv, SameWork, Writes, volumeVars, podVars
<1>10. ASSUME MarkVolumes, UNCHANGED <<podVars, service>>
      PROVE  MapInv'
  BY <1>10, SceneFacts, MarkVolumesTypes DEF MapInv, SameWork, volumeVars, podVars
<1>11. ASSUME ListBrokers, UNCHANGED service
      PROVE  MapInv'
  BY <1>11, SceneFacts, ListBrokersEffect DEF MapInv, volumeVars, podVars
<1>12. ASSUME OrderBrokers, UNCHANGED service
      PROVE  MapInv'
  BY <1>12, SceneFacts, OrderBrokersEffect DEF MapInv, volumeVars, podVars
<1>13. ASSUME ReconcileMap, UNCHANGED service
      PROVE  MapInv'
  BY <1>13, ReconcileMapFields, AtBroker DEF MapInv, CopyInv, Goes, SameWork, BrokerPcs
<1>14. ASSUME ConfigOutOfSync, UNCHANGED service
      PROVE  MapInv'
  BY <1>14, SceneFacts, ConfigOutOfSyncFields
  DEF MapInv, SameWork, Goes, Writes, volumeVars, podVars
<1>15. ASSUME ReconcilePod, UNCHANGED service
      PROVE  MapInv'
  BY <1>15, SceneFacts, ReconcilePodFields DEF MapInv, SameWork, Goes, Ends, volumeVars, podVars
<1>16. ASSUME PodInSync, UNCHANGED service
      PROVE  MapInv'
  BY <1>16, SceneFacts, PodInSyncFields DEF MapInv, SameWork, Writes, volumeVars, podVars
<1>17. ASSUME WriteRack, UNCHANGED service
      PROVE  MapInv'
  BY <1>17, SceneFacts, WriteRackEffect DEF MapInv, SameWork, Ends, volumeVars, podVars
<1>18. ASSUME WriteRackStatus, UNCHANGED service
      PROVE  MapInv'
  BY <1>18, WriteRackStatusFields DEF MapInv, podVars
<1>19. ASSUME CompareBroker, UNCHANGED service
      PROVE  MapInv'
  BY <1>19, SceneFacts, CompareBrokerFields
  DEF MapInv, SameStatus, SameWork, Goes, Writes, volumeVars, podVars
<1>20. ASSUME CheckUpgrade, UNCHANGED service
      PROVE  MapInv'
  BY <1>20, SceneFacts, CheckUpgradeFields DEF MapInv, SameWork, Goes, Ends, volumeVars, podVars
<1>21. ASSUME DeletePod, UNCHANGED service
      PROVE  MapInv'
  BY <1>21, SceneFacts, DeletePodEffect DEF MapInv, SameWork, Goes, Ends, volumeVars
<1>22. ASSUME AskVersion, UNCHANGED service
      PROVE  MapInv'
  BY <1>22, SceneFacts, AskVersionFields
  DEF MapInv, SameStatus, SameWork, Writes, Ends, volumeVars, podVars
<1>23. ASSUME ReconcileDynamic \/ AlterDynamic \/ DynamicInSync, UNCHANGED service
      PROVE  MapInv'
  BY <1>23, SceneFacts, DynamicEffect
  DEF MapInv, SameStatus, SameWork, volumeVars, podVars
<1>24. ASSUME FinishPass, UNCHANGED service
      PROVE  MapInv'
  BY <1>24, SceneFacts, FinishPassFields DEF MapInv, SameStatus, Ends, volumeVars, podVars
<1>25. ASSUME Crash
      PROVE  MapInv'
  BY <1>25, SceneFacts, CrashFields DEF MapInv, volumeVars, podVars
<1>26. ASSUME EditVersion \/ \E b \in InScene : EditConfig(b) \/ EditIngress(b) \/ EditDisks(b)
      PROVE  MapInv'
  BY <1>26, SceneFacts, EditFields DEF MapInv, volumeVars, podVars
<1>27. ASSUME NEW b \in InScene, TaintPod(b)
      PROVE  MapInv'
  BY <1>27, SceneFacts, TaintPodFields DEF MapInv, volumeVars, podVars
<1>28. ASSUME QuietStep, UNCHANGED <<podVars, service>>
      PROVE  MapInv'
  BY <1>28, SceneFacts, QuietFields DEF MapInv, podVars
<1>29. ASSUME TaskSync \/ TaskSchedule, UNCHANGED <<podVars, service>>
      PROVE  MapInv'
  BY <1>29, SceneFacts, UpdateStatusFields DEF MapInv, podVars
<1>30. ASSUME NEW b \in InScene, PodIsScheduled(b), UNCHANGED service
      PROVE  MapInv'
  BY <1>30, SceneFacts, PodIsScheduledFields DEF MapInv, podVars
<1>31. ASSUME NEW b \in InScene, PodStarts(b), UNCHANGED service
      PROVE  MapInv'
  BY <1>31, SceneFacts, PodStartsFields DEF MapInv, volumeVars
<1>32. ASSUME NEW b \in InScene, PodStops(b), UNCHANGED service
      PROVE  MapInv'
  BY <1>32, SceneFacts, PodStopsFields DEF MapInv, volumeVars
<1>33. ASSUME NEW b \in InScene, CatchUp(b), UNCHANGED service
      PROVE  MapInv'
  BY <1>33, SceneFacts, CatchUpFields DEF MapInv, objectVars, volumeVars
<1>34. ASSUME NEW b \in InScene, PodBreaks(b), UNCHANGED service
      PROVE  MapInv'
  BY <1>34, SceneFacts, PodBreaksFields DEF MapInv, volumeVars
<1>35. ASSUME NEW b \in InScene, NEW p \in Paths, ReleaseClaim(b, p), UNCHANGED <<podVars, service>>
      PROVE  MapInv'
  BY <1>35, SceneFacts, ReleaseClaimFields DEF MapInv, objectVars, podVars
<1>36. ASSUME CountAlerts
      PROVE  MapInv'
  BY <1>36, SceneFacts, CountAlertsFields DEF MapInv, volumeVars, podVars
<1>37. ASSUME NEW i \in Ingresses, AssignAddress(i), UNCHANGED <<volumeVars, podVars>>
      PROVE  MapInv'
  BY <1>37, SceneFacts, AssignAddressFields DEF MapInv, objectVars, volumeVars, podVars
<1>38. CASE UNCHANGED vars
  BY <1>38, SceneFacts DEF MapInv, vars, objectVars, volumeVars, podVars
<1>. QED
  BY <1>1, <1>2, <1>3, <1>4, <1>5, <1>6, <1>7, <1>8, <1>9, <1>10, <1>11, <1>12, <1>13, <1>14,
     <1>15, <1>16, <1>17, <1>18, <1>19, <1>20, <1>21, <1>22, <1>23, <1>24, <1>25, <1>26, <1>27,
     <1>28, <1>29, <1>30, <1>31, <1>32, <1>33, <1>34, <1>35, <1>36, <1>37, <1>38
  DEF Next, Worker, IngressStep, VolumeStep, PodStep, TaskStep, OpStep, OpEvent,
      QuietStep, Kube, UserStep

\* Nobody changes the map of a broker between its creation and the note that it is in sync.
LEMMA CreatedStep ==
  ASSUME Types, CreatedInv, [Next]_vars
  PROVE  CreatedInv'
<1>1. ASSUME StartPass, UNCHANGED <<volumeVars, podVars>>
      PROVE  CreatedInv'
  BY <1>1, StartPassFields DEF CreatedInv, volumeVars, podVars
<1>2. ASSUME NEW i \in Ingresses, ReconcileIngress(i), UNCHANGED <<volumeVars, podVars>>
      PROVE  CreatedInv'
  BY <1>2, IngressEffect DEF CreatedInv, SameWork, Goes, volumeVars, podVars
<1>3. ASSUME ReconcileRoutes, UNCHANGED <<volumeVars, podVars>>
      PROVE  CreatedInv'
  BY <1>3, IngressEffect DEF CreatedInv, SameWork, Goes, volumeVars, podVars
<1>4. ASSUME ReconcileNodePorts, UNCHANGED <<volumeVars, podVars>>
      PROVE  CreatedInv'
  BY <1>4, IngressEffect DEF CreatedInv, SameWork, Goes, volumeVars, podVars
<1>5. ASSUME ReconcileContour, UNCHANGED <<volumeVars, podVars>>
      PROVE  CreatedInv'
  BY <1>5, IngressEffect DEF CreatedInv, SameWork, Goes, volumeVars, podVars
<1>6. ASSUME PublishListeners, UNCHANGED <<volumeVars, podVars>>
      PROVE  CreatedInv'
  BY <1>6, PublishListenersEffect DEF CreatedInv, Ends, volumeVars, podVars
<1>7. ASSUME NEW b \in Brokers, NEW p \in Paths, DeleteClaim(b, p), UNCHANGED <<podVars, service>>
      PROVE  CreatedInv'
  BY <1>7, DeleteClaimFields DEF CreatedInv, podVars
<1>8. ASSUME NEW b \in Brokers, ReconcileClaims(b), UNCHANGED <<podVars, service>>
      PROVE  CreatedInv'
  BY <1>8, ReconcileClaimsFields DEF CreatedInv, podVars
<1>9. ASSUME ForgetVolume, UNCHANGED <<podVars, service>>
      PROVE  CreatedInv'
  BY <1>9, ForgetVolumeEffect DEF CreatedInv, SameWork, Writes, volumeVars, podVars
<1>10. ASSUME MarkVolumes, UNCHANGED <<podVars, service>>
      PROVE  CreatedInv'
  BY <1>10, MarkVolumesTypes DEF CreatedInv, SameWork, volumeVars, podVars
<1>11. ASSUME ListBrokers, UNCHANGED service
      PROVE  CreatedInv'
  BY <1>11, ListBrokersEffect DEF CreatedInv, volumeVars, podVars
<1>12. ASSUME OrderBrokers, UNCHANGED service
      PROVE  CreatedInv'
  BY <1>12, OrderBrokersEffect DEF CreatedInv, volumeVars, podVars
<1>13. ASSUME ReconcileMap, UNCHANGED service
      PROVE  CreatedInv'
  BY <1>13, ReconcileMapFields DEF CreatedInv, SameWork, Goes, volumeVars
<1>14. ASSUME ConfigOutOfSync, UNCHANGED service
      PROVE  CreatedInv'
  BY <1>14, ConfigOutOfSyncFields DEF CreatedInv, SameWork, Goes, Writes, volumeVars, podVars
<1>15. ASSUME ReconcilePod, UNCHANGED service
      PROVE  CreatedInv'
  BY <1>15, ReconcilePodFields DEF CreatedInv, SameWork, Goes, Ends, volumeVars, podVars
<1>16. ASSUME PodInSync, UNCHANGED service
      PROVE  CreatedInv'
  BY <1>16, PodInSyncFields DEF CreatedInv, SameWork, Writes, volumeVars, podVars
<1>17. ASSUME WriteRack, UNCHANGED service
      PROVE  CreatedInv'
  BY <1>17, WriteRackEffect DEF CreatedInv, SameWork, Ends, volumeVars, podVars
<1>18. ASSUME WriteRackStatus, UNCHANGED service
      PROVE  CreatedInv'
  BY <1>18, WriteRackStatusFields DEF CreatedInv, SameWork, Writes, volumeVars, podVars
<1>19. ASSUME CompareBroker, UNCHANGED service
      PROVE  CreatedInv'
  BY <1>19, CompareBrokerFields
  DEF CreatedInv, SameStatus, SameWork, Goes, Writes, volumeVars, podVars
<1>20. ASSUME CheckUpgrade, UNCHANGED service
      PROVE  CreatedInv'
  BY <1>20, CheckUpgradeFields DEF CreatedInv, SameWork, Goes, Ends, volumeVars, podVars
<1>21. ASSUME DeletePod, UNCHANGED service
      PROVE  CreatedInv'
  BY <1>21, DeletePodEffect DEF CreatedInv, SameWork, Goes, Ends, volumeVars
<1>22. ASSUME AskVersion, UNCHANGED service
      PROVE  CreatedInv'
  BY <1>22, AskVersionFields
  DEF CreatedInv, SameStatus, SameWork, Writes, Ends, volumeVars, podVars
<1>23. ASSUME ReconcileDynamic \/ AlterDynamic \/ DynamicInSync, UNCHANGED service
      PROVE  CreatedInv'
  BY <1>23, DynamicEffect DEF CreatedInv, SameStatus, SameWork, volumeVars, podVars
<1>24. ASSUME FinishPass, UNCHANGED service
      PROVE  CreatedInv'
  BY <1>24, FinishPassFields DEF CreatedInv, SameStatus, Ends, volumeVars, podVars
<1>25. ASSUME Crash
      PROVE  CreatedInv'
  BY <1>25, CrashFields DEF CreatedInv, volumeVars, podVars
<1>26. ASSUME EditVersion \/ \E b \in InScene : EditConfig(b) \/ EditIngress(b) \/ EditDisks(b)
      PROVE  CreatedInv'
  BY <1>26, EditFields DEF CreatedInv, volumeVars, podVars
<1>27. ASSUME NEW b \in InScene, TaintPod(b)
      PROVE  CreatedInv'
  BY <1>27, TaintPodFields, AtBroker DEF CreatedInv, BrokerPcs, podVars
<1>28. ASSUME QuietStep, UNCHANGED <<podVars, service>>
      PROVE  CreatedInv'
  BY <1>28, QuietFields DEF CreatedInv, podVars
<1>29. ASSUME TaskSync \/ TaskSchedule, UNCHANGED <<podVars, service>>
      PROVE  CreatedInv'
  BY <1>29, UpdateStatusFields DEF CreatedInv, podVars
<1>30. ASSUME NEW b \in InScene, PodIsScheduled(b), UNCHANGED service
      PROVE  CreatedInv'
  BY <1>30, PodIsScheduledFields, AtBroker DEF CreatedInv, BrokerPcs, podVars
<1>31. ASSUME NEW b \in InScene, PodStarts(b), UNCHANGED service
      PROVE  CreatedInv'
  BY <1>31, PodStartsFields, AtBroker DEF CreatedInv, BrokerPcs
<1>32. ASSUME NEW b \in InScene, PodStops(b), UNCHANGED service
      PROVE  CreatedInv'
  BY <1>32, PodStopsFields, AtBroker DEF CreatedInv, BrokerPcs
<1>33. ASSUME NEW b \in InScene, CatchUp(b), UNCHANGED service
      PROVE  CreatedInv'
  BY <1>33, CatchUpFields DEF CreatedInv, objectVars, volumeVars
<1>34. ASSUME NEW b \in InScene, PodBreaks(b), UNCHANGED service
      PROVE  CreatedInv'
  BY <1>34, PodBreaksFields, AtBroker DEF CreatedInv, BrokerPcs
<1>35. ASSUME NEW b \in InScene, NEW p \in Paths, ReleaseClaim(b, p), UNCHANGED <<podVars, service>>
      PROVE  CreatedInv'
  BY <1>35, ReleaseClaimFields DEF CreatedInv, objectVars, podVars
<1>36. ASSUME CountAlerts
      PROVE  CreatedInv'
  BY <1>36, CountAlertsFields DEF CreatedInv, volumeVars, podVars
<1>37. ASSUME NEW i \in Ingresses, AssignAddress(i), UNCHANGED <<volumeVars, podVars>>
      PROVE  CreatedInv'
  BY <1>37, AssignAddressFields DEF CreatedInv, objectVars, volumeVars, podVars
<1>38. CASE UNCHANGED vars
  BY <1>38 DEF CreatedInv, vars, objectVars, volumeVars, podVars
<1>. QED
  BY <1>1, <1>2, <1>3, <1>4, <1>5, <1>6, <1>7, <1>8, <1>9, <1>10, <1>11, <1>12, <1>13, <1>14,
     <1>15, <1>16, <1>17, <1>18, <1>19, <1>20, <1>21, <1>22, <1>23, <1>24, <1>25, <1>26, <1>27,
     <1>28, <1>29, <1>30, <1>31, <1>32, <1>33, <1>34, <1>35, <1>36, <1>37, <1>38
  DEF Next, Worker, IngressStep, VolumeStep, PodStep, TaskStep, OpStep, OpEvent,
      QuietStep, Kube, UserStep

\* A map changes its static part only on the way to configOut, and a broker is called in
\* sync only right after its creation.
LEMMA InSyncStep ==
  ASSUME Types, MapInv, CreatedInv, InSyncInv, [Next]_vars
  PROVE  InSyncInv'
<1>1. ASSUME StartPass, UNCHANGED <<volumeVars, podVars>>
      PROVE  InSyncInv'
  BY <1>1, UnspentKept, CountedEvents, StartPassFields DEF InSyncInv, volumeVars, podVars
<1>2. ASSUME NEW i \in Ingresses, ReconcileIngress(i), UNCHANGED <<volumeVars, podVars>>
      PROVE  InSyncInv'
  BY <1>2, UnspentKept, CountedEvents, IngressEffect
  DEF InSyncInv, SameWork, Goes, volumeVars, podVars
<1>3. ASSUME ReconcileRoutes, UNCHANGED <<volumeVars, podVars>>
      PROVE  InSyncInv'
  BY <1>3, UnspentKept, CountedEvents, IngressEffect
  DEF InSyncInv, SameWork, Goes, volumeVars, podVars
<1>4. ASSUME ReconcileNodePorts, UNCHANGED <<volumeVars, podVars>>
      PROVE  InSyncInv'
  BY <1>4, UnspentKept, CountedEvents, IngressEffect
  DEF InSyncInv, SameWork, Goes, volumeVars, podVars
<1>5. ASSUME ReconcileContour, UNCHANGED <<volumeVars, podVars>>
      PROVE  InSyncInv'
  BY <1>5, UnspentKept, CountedEvents, IngressEffect
  DEF InSyncInv, SameWork, Goes, volumeVars, podVars
<1>6. ASSUME PublishListeners, UNCHANGED <<volumeVars, podVars>>
      PROVE  InSyncInv'
  BY <1>6, UnspentKept, CountedEvents, PublishListenersEffect
  DEF InSyncInv, Ends, volumeVars, podVars
<1>7. ASSUME NEW b \in Brokers, NEW p \in Paths, DeleteClaim(b, p), UNCHANGED <<podVars, service>>
      PROVE  InSyncInv'
  BY <1>7, UnspentKept, CountedEvents, DeleteClaimFields DEF InSyncInv, podVars
<1>8. ASSUME NEW b \in Brokers, ReconcileClaims(b), UNCHANGED <<podVars, service>>
      PROVE  InSyncInv'
  BY <1>8, UnspentKept, CountedEvents, ReconcileClaimsFields DEF InSyncInv, podVars
<1>9. ASSUME ForgetVolume, UNCHANGED <<podVars, service>>
      PROVE  InSyncInv'
  BY <1>9, UnspentKept, CountedEvents, ForgetVolumeEffect
  DEF InSyncInv, SameWork, Writes, volumeVars, podVars
<1>10. ASSUME MarkVolumes, UNCHANGED <<podVars, service>>
      PROVE  InSyncInv'
  BY <1>10, UnspentKept, CountedEvents, MarkVolumesTypes
  DEF InSyncInv, SameWork, volumeVars, podVars
<1>11. ASSUME ListBrokers, UNCHANGED service
      PROVE  InSyncInv'
  BY <1>11, UnspentKept, CountedEvents, ListBrokersEffect DEF InSyncInv, volumeVars, podVars
<1>12. ASSUME OrderBrokers, UNCHANGED service
      PROVE  InSyncInv'
  BY <1>12, UnspentKept, CountedEvents, OrderBrokersEffect DEF InSyncInv, volumeVars, podVars
<1>13. ASSUME ReconcileMap, UNCHANGED service
      PROVE  InSyncInv'
  BY <1>13, ReconcileMapFields, AtBroker, UnspentKept, CountedEvents
  DEF MapInv, CreatedInv, InSyncInv, SameWork, Goes, volumeVars, BrokerPcs
<1>14. ASSUME ConfigOutOfSync, UNCHANGED service
      PROVE  InSyncInv'
  BY <1>14, ConfigOutOfSyncFields, AtBroker, ConfigTyped, UnspentKept, CountedEvents
  DEF MapInv, CreatedInv, InSyncInv, SameWork, Goes, Writes, volumeVars, podVars, BrokerPcs
<1>15. ASSUME ReconcilePod, UNCHANGED service
      PROVE  InSyncInv'
  BY <1>15, UnspentKept, CountedEvents, ReconcilePodFields
  DEF InSyncInv, SameWork, Goes, Ends, volumeVars, podVars
<1>16. ASSUME PodInSync, UNCHANGED service
      PROVE  InSyncInv'
  <2>1. /\ w.pc \in {"ingressIn", "configIn", "dynamicIn"} /\ UNCHANGED <<scene, pod, left, map>>
        /\ w'.pc \in {"configIn", "dynamicIn", "jmx"}
        /\ \/ status'.config = status.config
           \/ w.pc = "configIn" /\ status'.config = [status.config EXCEPT ![w.broker] = "in"]
    BY <1>16, PodInSyncFields DEF Writes, podVars
  <2>2. w.broker \in Brokers
    BY <2>1, AtBroker DEF BrokerPcs
  <2>3. \A b \in Brokers : status'.config[b] = "in" => (w.pc = "configIn" /\ b = w.broker) \/ status.config[b] = "in"
    BY <2>1, <2>2, ConfigTyped
  <2>4. w.pc = "configIn" /\ pod[w.broker].phase = "running" => pod[w.broker].static = map[w.broker].static
    BY <2>1 DEF CreatedInv
  <2>5. Unspent("fail")' = Unspent("fail") /\ Unspent("crash")' = Unspent("crash")
    BY <2>1, UnspentKept, CountedEvents
  <2>. QED
    BY <2>1, <2>2, <2>3, <2>4, <2>5 DEF InSyncInv
<1>17. ASSUME WriteRack, UNCHANGED service
      PROVE  InSyncInv'
  BY <1>17, UnspentKept, CountedEvents, WriteRackEffect
  DEF InSyncInv, SameWork, Ends, volumeVars, podVars
<1>18. ASSUME WriteRackStatus, UNCHANGED service
      PROVE  InSyncInv'
  BY <1>18, UnspentKept, CountedEvents, WriteRackStatusFields
  DEF InSyncInv, SameWork, Writes, volumeVars, podVars
<1>19. ASSUME CompareBroker, UNCHANGED service
      PROVE  InSyncInv'
  BY <1>19, UnspentKept, CountedEvents, CompareBrokerFields
  DEF InSyncInv, SameStatus, SameWork, Goes, Writes, volumeVars, podVars
<1>20. ASSUME CheckUpgrade, UNCHANGED service
      PROVE  InSyncInv'
  BY <1>20, UnspentKept, CountedEvents, CheckUpgradeFields
  DEF InSyncInv, SameWork, Goes, Ends, volumeVars, podVars
<1>21. ASSUME DeletePod, UNCHANGED service
      PROVE  InSyncInv'
  BY <1>21, UnspentKept, CountedEvents, DeletePodEffect
  DEF InSyncInv, SameWork, Goes, Ends, volumeVars
<1>22. ASSUME AskVersion, UNCHANGED service
      PROVE  InSyncInv'
  BY <1>22, UnspentKept, CountedEvents, AskVersionFields
  DEF InSyncInv, SameStatus, SameWork, Writes, Ends, volumeVars, podVars
<1>23. ASSUME ReconcileDynamic \/ AlterDynamic \/ DynamicInSync, UNCHANGED service
      PROVE  InSyncInv'
  BY <1>23, UnspentKept, CountedEvents, DynamicEffect
  DEF InSyncInv, SameStatus, SameWork, volumeVars, podVars
<1>24. ASSUME FinishPass, UNCHANGED service
      PROVE  InSyncInv'
  BY <1>24, UnspentKept, CountedEvents, FinishPassFields
  DEF InSyncInv, SameStatus, Ends, volumeVars, podVars
<1>25. ASSUME Crash
      PROVE  InSyncInv'
  BY <1>25, UnspentKept, CountedEvents, CrashFields DEF InSyncInv, volumeVars, podVars
<1>26. ASSUME EditVersion \/ \E b \in InScene : EditConfig(b) \/ EditIngress(b) \/ EditDisks(b)
      PROVE  InSyncInv'
  BY <1>26, UnspentKept, CountedEvents, EditFields DEF InSyncInv, volumeVars, podVars
<1>27. ASSUME NEW b \in InScene, TaintPod(b)
      PROVE  InSyncInv'
  BY <1>27, UnspentKept, CountedEvents, TaintPodFields DEF InSyncInv, volumeVars, podVars
<1>28. ASSUME QuietStep, UNCHANGED <<podVars, service>>
      PROVE  InSyncInv'
  BY <1>28, UnspentKept, CountedEvents, QuietFields DEF InSyncInv, podVars
<1>29. ASSUME TaskSync \/ TaskSchedule, UNCHANGED <<podVars, service>>
      PROVE  InSyncInv'
  BY <1>29, UnspentKept, CountedEvents, UpdateStatusFields DEF InSyncInv, podVars
<1>30. ASSUME NEW b \in InScene, PodIsScheduled(b), UNCHANGED service
      PROVE  InSyncInv'
  BY <1>30, UnspentKept, CountedEvents, PodIsScheduledFields DEF InSyncInv, podVars
<1>31. ASSUME NEW b \in InScene, PodStarts(b), UNCHANGED service
      PROVE  InSyncInv'
  BY <1>31, UnspentKept, CountedEvents, PodStartsFields DEF InSyncInv, volumeVars
<1>32. ASSUME NEW b \in InScene, PodStops(b), UNCHANGED service
      PROVE  InSyncInv'
  BY <1>32, UnspentKept, CountedEvents, PodStopsFields DEF InSyncInv, volumeVars
<1>33. ASSUME NEW b \in InScene, CatchUp(b), UNCHANGED service
      PROVE  InSyncInv'
  BY <1>33, UnspentKept, CountedEvents, CatchUpFields DEF InSyncInv, objectVars, volumeVars
<1>34. ASSUME NEW b \in InScene, PodBreaks(b), UNCHANGED service
      PROVE  InSyncInv'
  BY <1>34, UnspentKept, CountedEvents, PodBreaksFields DEF InSyncInv, volumeVars
<1>35. ASSUME NEW b \in InScene, NEW p \in Paths, ReleaseClaim(b, p), UNCHANGED <<podVars, service>>
      PROVE  InSyncInv'
  BY <1>35, UnspentKept, CountedEvents, ReleaseClaimFields DEF InSyncInv, objectVars, podVars
<1>36. ASSUME CountAlerts
      PROVE  InSyncInv'
  BY <1>36, UnspentKept, CountedEvents, CountAlertsFields DEF InSyncInv, volumeVars, podVars
<1>37. ASSUME NEW i \in Ingresses, AssignAddress(i), UNCHANGED <<volumeVars, podVars>>
      PROVE  InSyncInv'
  BY <1>37, UnspentKept, CountedEvents, AssignAddressFields
  DEF InSyncInv, objectVars, volumeVars, podVars
<1>38. CASE UNCHANGED vars
  BY <1>38, UnspentKept, CountedEvents DEF InSyncInv, vars, objectVars, volumeVars, podVars
<1>. QED
  BY <1>1, <1>2, <1>3, <1>4, <1>5, <1>6, <1>7, <1>8, <1>9, <1>10, <1>11, <1>12, <1>13, <1>14,
     <1>15, <1>16, <1>17, <1>18, <1>19, <1>20, <1>21, <1>22, <1>23, <1>24, <1>25, <1>26, <1>27,
     <1>28, <1>29, <1>30, <1>31, <1>32, <1>33, <1>34, <1>35, <1>36, <1>37, <1>38
  DEF Next, Worker, IngressStep, VolumeStep, PodStep, TaskStep, OpStep, OpEvent,
      QuietStep, Kube, UserStep

\* A rack is put into the spec only on the way to rackStatus.
LEMMA RackStep ==
  ASSUME Types, RackInv, [Next]_vars
  PROVE  RackInv'
<1>1. ASSUME StartPass, UNCHANGED <<volumeVars, podVars>>
      PROVE  RackInv'
  BY <1>1, UnspentKept, CountedEvents, StartPassFields DEF RackInv, volumeVars, podVars
<1>2. ASSUME NEW i \in Ingresses, ReconcileIngress(i), UNCHANGED <<volumeVars, podVars>>
      PROVE  RackInv'
  BY <1>2, UnspentKept, CountedEvents, IngressEffect
  DEF RackInv, SameWork, Goes, volumeVars, podVars
<1>3. ASSUME ReconcileRoutes, UNCHANGED <<volumeVars, podVars>>
      PROVE  RackInv'
  BY <1>3, UnspentKept, CountedEvents, IngressEffect
  DEF RackInv, SameWork, Goes, volumeVars, podVars
<1>4. ASSUME ReconcileNodePorts, UNCHANGED <<volumeVars, podVars>>
      PROVE  RackInv'
  BY <1>4, UnspentKept, CountedEvents, IngressEffect
  DEF RackInv, SameWork, Goes, volumeVars, podVars
<1>5. ASSUME ReconcileContour, UNCHANGED <<volumeVars, podVars>>
      PROVE  RackInv'
  BY <1>5, UnspentKept, CountedEvents, IngressEffect
  DEF RackInv, SameWork, Goes, volumeVars, podVars
<1>6. ASSUME PublishListeners, UNCHANGED <<volumeVars, podVars>>
      PROVE  RackInv'
  BY <1>6, UnspentKept, CountedEvents, PublishListenersEffect
  DEF RackInv, Ends, volumeVars, podVars
<1>7. ASSUME NEW b \in Brokers, NEW p \in Paths, DeleteClaim(b, p), UNCHANGED <<podVars, service>>
      PROVE  RackInv'
  BY <1>7, UnspentKept, CountedEvents, DeleteClaimFields DEF RackInv, podVars
<1>8. ASSUME NEW b \in Brokers, ReconcileClaims(b), UNCHANGED <<podVars, service>>
      PROVE  RackInv'
  BY <1>8, UnspentKept, CountedEvents, ReconcileClaimsFields DEF RackInv, podVars
<1>9. ASSUME ForgetVolume, UNCHANGED <<podVars, service>>
      PROVE  RackInv'
  BY <1>9, UnspentKept, CountedEvents, ForgetVolumeEffect
  DEF RackInv, SameWork, Writes, volumeVars, podVars
<1>10. ASSUME MarkVolumes, UNCHANGED <<podVars, service>>
      PROVE  RackInv'
  BY <1>10, UnspentKept, CountedEvents, MarkVolumesTypes
  DEF RackInv, SameWork, volumeVars, podVars
<1>11. ASSUME ListBrokers, UNCHANGED service
      PROVE  RackInv'
  BY <1>11, UnspentKept, CountedEvents, ListBrokersEffect DEF RackInv, volumeVars, podVars
<1>12. ASSUME OrderBrokers, UNCHANGED service
      PROVE  RackInv'
  BY <1>12, UnspentKept, CountedEvents, OrderBrokersEffect DEF RackInv, volumeVars, podVars
<1>13. ASSUME ReconcileMap, UNCHANGED service
      PROVE  RackInv'
  BY <1>13, UnspentKept, CountedEvents, ReconcileMapFields DEF RackInv, SameWork, Goes, volumeVars
<1>14. ASSUME ConfigOutOfSync, UNCHANGED service
      PROVE  RackInv'
  BY <1>14, UnspentKept, CountedEvents, ConfigOutOfSyncFields
  DEF RackInv, SameWork, Goes, Writes, volumeVars, podVars
<1>15. ASSUME ReconcilePod, UNCHANGED service
      PROVE  RackInv'
  BY <1>15, UnspentKept, CountedEvents, ReconcilePodFields
  DEF RackInv, SameWork, Goes, Ends, volumeVars, podVars
<1>16. ASSUME PodInSync, UNCHANGED service
      PROVE  RackInv'
  BY <1>16, UnspentKept, CountedEvents, PodInSyncFields
  DEF RackInv, SameWork, Writes, volumeVars, podVars
<1>17. ASSUME WriteRack, UNCHANGED service
      PROVE  RackInv'
  BY <1>17, UnspentKept, CountedEvents, WriteRackEffect
  DEF RackInv, SameWork, Ends, volumeVars, podVars
<1>18. ASSUME WriteRackStatus, UNCHANGED service
      PROVE  RackInv'
  BY <1>18, UnspentKept, CountedEvents, WriteRackStatusFields
  DEF RackInv, SameWork, Writes, volumeVars, podVars
<1>19. ASSUME CompareBroker, UNCHANGED service
      PROVE  RackInv'
  BY <1>19, UnspentKept, CountedEvents, CompareBrokerFields
  DEF RackInv, SameStatus, SameWork, Goes, Writes, volumeVars, podVars
<1>20. ASSUME CheckUpgrade, UNCHANGED service
      PROVE  RackInv'
  BY <1>20, UnspentKept, CountedEvents, CheckUpgradeFields
  DEF RackInv, SameWork, Goes, Ends, volumeVars, podVars
<1>21. ASSUME DeletePod, UNCHANGED service
      PROVE  RackInv'
  BY <1>21, UnspentKept, CountedEvents, DeletePodEffect
  DEF RackInv, SameWork, Goes, Ends, volumeVars
<1>22. ASSUME AskVersion, UNCHANGED service
      PROVE  RackInv'
  BY <1>22, UnspentKept, CountedEvents, AskVersionFields
  DEF RackInv, SameStatus, SameWork, Writes, Ends, volumeVars, podVars
<1>23. ASSUME ReconcileDynamic \/ AlterDynamic \/ DynamicInSync, UNCHANGED service
      PROVE  RackInv'
  BY <1>23, UnspentKept, CountedEvents, DynamicEffect
  DEF RackInv, SameStatus, SameWork, volumeVars, podVars
<1>24. ASSUME FinishPass, UNCHANGED service
      PROVE  RackInv'
  BY <1>24, UnspentKept, CountedEvents, FinishPassFields
  DEF RackInv, SameStatus, Ends, volumeVars, podVars
<1>25. ASSUME Crash
      PROVE  RackInv'
  BY <1>25, UnspentKept, CountedEvents, CrashFields DEF RackInv, volumeVars, podVars
<1>26. ASSUME EditVersion \/ \E b \in InScene : EditConfig(b) \/ EditIngress(b) \/ EditDisks(b)
      PROVE  RackInv'
  BY <1>26, UnspentKept, CountedEvents, EditFields DEF RackInv, volumeVars, podVars
<1>27. ASSUME NEW b \in InScene, TaintPod(b)
      PROVE  RackInv'
  BY <1>27, UnspentKept, CountedEvents, TaintPodFields DEF RackInv, volumeVars, podVars
<1>28. ASSUME QuietStep, UNCHANGED <<podVars, service>>
      PROVE  RackInv'
  BY <1>28, UnspentKept, CountedEvents, QuietFields DEF RackInv, podVars
<1>29. ASSUME TaskSync \/ TaskSchedule, UNCHANGED <<podVars, service>>
      PROVE  RackInv'
  BY <1>29, UnspentKept, CountedEvents, UpdateStatusFields DEF RackInv, podVars
<1>30. ASSUME NEW b \in InScene, PodIsScheduled(b), UNCHANGED service
      PROVE  RackInv'
  BY <1>30, UnspentKept, CountedEvents, PodIsScheduledFields DEF RackInv, podVars
<1>31. ASSUME NEW b \in InScene, PodStarts(b), UNCHANGED service
      PROVE  RackInv'
  BY <1>31, UnspentKept, CountedEvents, PodStartsFields DEF RackInv, volumeVars
<1>32. ASSUME NEW b \in InScene, PodStops(b), UNCHANGED service
      PROVE  RackInv'
  BY <1>32, UnspentKept, CountedEvents, PodStopsFields DEF RackInv, volumeVars
<1>33. ASSUME NEW b \in InScene, CatchUp(b), UNCHANGED service
      PROVE  RackInv'
  BY <1>33, UnspentKept, CountedEvents, CatchUpFields DEF RackInv, objectVars, volumeVars
<1>34. ASSUME NEW b \in InScene, PodBreaks(b), UNCHANGED service
      PROVE  RackInv'
  BY <1>34, UnspentKept, CountedEvents, PodBreaksFields DEF RackInv, volumeVars
<1>35. ASSUME NEW b \in InScene, NEW p \in Paths, ReleaseClaim(b, p), UNCHANGED <<podVars, service>>
      PROVE  RackInv'
  BY <1>35, UnspentKept, CountedEvents, ReleaseClaimFields DEF RackInv, objectVars, podVars
<1>36. ASSUME CountAlerts
      PROVE  RackInv'
  BY <1>36, UnspentKept, CountedEvents, CountAlertsFields DEF RackInv, volumeVars, podVars
<1>37. ASSUME NEW i \in Ingresses, AssignAddress(i), UNCHANGED <<volumeVars, podVars>>
      PROVE  RackInv'
  BY <1>37, UnspentKept, CountedEvents, AssignAddressFields
  DEF RackInv, objectVars, volumeVars, podVars
<1>38. CASE UNCHANGED vars
  BY <1>38, UnspentKept, CountedEvents DEF RackInv, vars, objectVars, volumeVars, podVars
<1>. QED
  BY <1>1, <1>2, <1>3, <1>4, <1>5, <1>6, <1>7, <1>8, <1>9, <1>10, <1>11, <1>12, <1>13, <1>14,
     <1>15, <1>16, <1>17, <1>18, <1>19, <1>20, <1>21, <1>22, <1>23, <1>24, <1>25, <1>26, <1>27,
     <1>28, <1>29, <1>30, <1>31, <1>32, <1>33, <1>34, <1>35, <1>36, <1>37, <1>38
  DEF Next, Worker, IngressStep, VolumeStep, PodStep, TaskStep, OpStep, OpEvent,
      QuietStep, Kube, UserStep

\* The map of the broker at hand has the address of the pass from ReconcileMap on: with
\* rack awareness a map that exists has its rack, so that it is reconciled.
LEMMA CurrentStep ==
  ASSUME Types, CopyInv, MapInv, CurrentInv, [Next]_vars
  PROVE  CurrentInv'
<1>1. ASSUME StartPass, UNCHANGED <<volumeVars, podVars>>
      PROVE  CurrentInv'
  BY <1>1, StartPassFields DEF CurrentInv, volumeVars, podVars
<1>2. ASSUME NEW i \in Ingresses, ReconcileIngress(i), UNCHANGED <<volumeVars, podVars>>
      PROVE  CurrentInv'
  BY <1>2, IngressEffect DEF CurrentInv, SameWork, Goes, volumeVars, podVars
<1>3. ASSUME ReconcileRoutes, UNCHANGED <<volumeVars, podVars>>
      PROVE  CurrentInv'
  BY <1>3, IngressEffect DEF CurrentInv, SameWork, Goes, volumeVars, podVars
<1>4. ASSUME ReconcileNodePorts, UNCHANGED <<volumeVars, podVars>>
      PROVE  CurrentInv'
  BY <1>4, IngressEffect DEF CurrentInv, SameWork, Goes, volumeVars, podVars
<1>5. ASSUME ReconcileContour, UNCHANGED <<volumeVars, podVars>>
      PROVE  CurrentInv'
  BY <1>5, IngressEffect DEF CurrentInv, SameWork, Goes, volumeVars, podVars
<1>6. ASSUME PublishListeners, UNCHANGED <<volumeVars, podVars>>
      PROVE  CurrentInv'
  BY <1>6, PublishListenersEffect DEF CurrentInv, Ends, volumeVars, podVars
<1>7. ASSUME NEW b \in Brokers, NEW p \in Paths, DeleteClaim(b, p), UNCHANGED <<podVars, service>>
      PROVE  CurrentInv'
  BY <1>7, DeleteClaimFields DEF CurrentInv, podVars
<1>8. ASSUME NEW b \in Brokers, ReconcileClaims(b), UNCHANGED <<podVars, service>>
      PROVE  CurrentInv'
  BY <1>8, ReconcileClaimsFields DEF CurrentInv, podVars
<1>9. ASSUME ForgetVolume, UNCHANGED <<podVars, service>>
      PROVE  CurrentInv'
  BY <1>9, ForgetVolumeEffect DEF CurrentInv, SameWork, Writes, volumeVars, podVars
<1>10. ASSUME MarkVolumes, UNCHANGED <<podVars, service>>
      PROVE  CurrentInv'
  BY <1>10, MarkVolumesTypes DEF CurrentInv, SameWork, volumeVars, podVars
<1>11. ASSUME ListBrokers, UNCHANGED service
      PROVE  CurrentInv'
  BY <1>11, ListBrokersEffect DEF CurrentInv, volumeVars, podVars
<1>12. ASSUME OrderBrokers, UNCHANGED service
      PROVE  CurrentInv'
  BY <1>12, OrderBrokersEffect DEF CurrentInv, volumeVars, podVars
<1>13. ASSUME ReconcileMap, UNCHANGED service
      PROVE  CurrentInv'
  BY <1>13, ReconcileMapFields, AtBroker
  DEF CurrentInv, MapInv, CopyInv, SameWork, Goes, volumeVars, BrokerPcs
<1>14. ASSUME ConfigOutOfSync, UNCHANGED service
      PROVE  CurrentInv'
  BY <1>14, ConfigOutOfSyncFields DEF CurrentInv, SameWork, Goes, Writes, volumeVars, podVars
<1>15. ASSUME ReconcilePod, UNCHANGED service
      PROVE  CurrentInv'
  BY <1>15, ReconcilePodFields DEF CurrentInv, SameWork, Goes, Ends, volumeVars, podVars
<1>16. ASSUME PodInSync, UNCHANGED service
      PROVE  CurrentInv'
  BY <1>16, PodInSyncFields DEF CurrentInv, SameWork, Writes, volumeVars, podVars
<1>17. ASSUME WriteRack, UNCHANGED service
      PROVE  CurrentInv'
  BY <1>17, WriteRackEffect DEF CurrentInv, SameWork, Ends, volumeVars, podVars
<1>18. ASSUME WriteRackStatus, UNCHANGED service
      PROVE  CurrentInv'
  BY <1>18, WriteRackStatusFields DEF CurrentInv, SameWork, Writes, volumeVars, podVars
<1>19. ASSUME CompareBroker, UNCHANGED service
      PROVE  CurrentInv'
  BY <1>19, CompareBrokerFields
  DEF CurrentInv, SameStatus, SameWork, Goes, Writes, volumeVars, podVars
<1>20. ASSUME CheckUpgrade, UNCHANGED service
      PROVE  CurrentInv'
  BY <1>20, CheckUpgradeFields DEF CurrentInv, SameWork, Goes, Ends, volumeVars, podVars
<1>21. ASSUME DeletePod, UNCHANGED service
      PROVE  CurrentInv'
  BY <1>21, DeletePodEffect DEF CurrentInv, SameWork, Goes, Ends, volumeVars
<1>22. ASSUME AskVersion, UNCHANGED service
      PROVE  CurrentInv'
  BY <1>22, AskVersionFields
  DEF CurrentInv, SameStatus, SameWork, Writes, Ends, volumeVars, podVars
<1>23. ASSUME ReconcileDynamic \/ AlterDynamic \/ DynamicInSync, UNCHANGED service
      PROVE  CurrentInv'
  BY <1>23, DynamicEffect DEF CurrentInv, SameStatus, SameWork, volumeVars, podVars
<1>24. ASSUME FinishPass, UNCHANGED service
      PROVE  CurrentInv'
  BY <1>24, FinishPassFields DEF CurrentInv, SameStatus, Ends, volumeVars, podVars
<1>25. ASSUME Crash
      PROVE  CurrentInv'
  BY <1>25, CrashFields DEF CurrentInv, volumeVars, podVars
<1>26. ASSUME EditVersion \/ \E b \in InScene : EditConfig(b) \/ EditIngress(b) \/ EditDisks(b)
      PROVE  CurrentInv'
  BY <1>26, EditFields DEF CurrentInv, volumeVars, podVars
<1>27. ASSUME NEW b \in InScene, TaintPod(b)
      PROVE  CurrentInv'
  BY <1>27, TaintPodFields DEF CurrentInv, volumeVars, podVars
<1>28. ASSUME QuietStep, UNCHANGED <<podVars, service>>
      PROVE  CurrentInv'
  BY <1>28, QuietFields DEF CurrentInv, podVars
<1>29. ASSUME TaskSync \/ TaskSchedule, UNCHANGED <<podVars, service>>
      PROVE  CurrentInv'
  BY <1>29, UpdateStatusFields DEF CurrentInv, podVars
<1>30. ASSUME NEW b \in InScene, PodIsScheduled(b), UNCHANGED service
      PROVE  CurrentInv'
  BY <1>30, PodIsScheduledFields DEF CurrentInv, podVars
<1>31. ASSUME NEW b \in InScene, PodStarts(b), UNCHANGED service
      PROVE  CurrentInv'
  BY <1>31, PodStartsFields DEF CurrentInv, volumeVars
<1>32. ASSUME NEW b \in InScene, PodStops(b), UNCHANGED service
      PROVE  CurrentInv'
  BY <1>32, PodStopsFields DEF CurrentInv, volumeVars
<1>33. ASSUME NEW b \in InScene, CatchUp(b), UNCHANGED service
      PROVE  CurrentInv'
  BY <1>33, CatchUpFields DEF CurrentInv, objectVars, volumeVars
<1>34. ASSUME NEW b \in InScene, PodBreaks(b), UNCHANGED service
      PROVE  CurrentInv'
  BY <1>34, PodBreaksFields DEF CurrentInv, volumeVars
<1>35. ASSUME NEW b \in InScene, NEW p \in Paths, ReleaseClaim(b, p), UNCHANGED <<podVars, service>>
      PROVE  CurrentInv'
  BY <1>35, ReleaseClaimFields DEF CurrentInv, objectVars, podVars
<1>36. ASSUME CountAlerts
      PROVE  CurrentInv'
  BY <1>36, CountAlertsFields DEF CurrentInv, volumeVars, podVars
<1>37. ASSUME NEW i \in Ingresses, AssignAddress(i), UNCHANGED <<volumeVars, podVars>>
      PROVE  CurrentInv'
  BY <1>37, AssignAddressFields DEF CurrentInv, objectVars, volumeVars, podVars
<1>38. CASE UNCHANGED vars
  BY <1>38 DEF CurrentInv, vars, objectVars, volumeVars, podVars
<1>. QED
  BY <1>1, <1>2, <1>3, <1>4, <1>5, <1>6, <1>7, <1>8, <1>9, <1>10, <1>11, <1>12, <1>13, <1>14,
     <1>15, <1>16, <1>17, <1>18, <1>19, <1>20, <1>21, <1>22, <1>23, <1>24, <1>25, <1>26, <1>27,
     <1>28, <1>29, <1>30, <1>31, <1>32, <1>33, <1>34, <1>35, <1>36, <1>37, <1>38
  DEF Next, Worker, IngressStep, VolumeStep, PodStep, TaskStep, OpStep, OpEvent,
      QuietStep, Kube, UserStep

\* What keeps configurations and racks right.
CoreInv == MapInv /\ CopyInv /\ CreatedInv /\ InSyncInv /\ RackInv

\* It holds at the start, ...
LEMMA InitCore ==
  ASSUME Init
  PROVE  Types /\ CoreInv /\ CurrentInv
<1>1. w.pc = "idle"
  <2>1. w = Idle
    BY InitFacts
  <2>. QED
    BY <2>1 DEF Idle
<1>2. MapInv
  BY InitFacts DEF MapInv, Rests
<1>3. CopyInv /\ CreatedInv /\ CurrentInv
  BY <1>1 DEF CopyInv, CreatedInv, CurrentInv
<1>4. InSyncInv
  BY InitFacts DEF InSyncInv
<1>5. RackInv
  <2>1. ASSUME NEW b \in Brokers
        PROVE  spec[b].rack = status.rack[b]
    <3>1. status.rack[b] = (Rests(b) /\ scene.rackAware)
      <4>1. status.rack = [c \in Brokers |-> Rests(c) /\ scene.rackAware]
        BY InitFacts
      <4>. QED
        BY <4>1, Zenon
    <3>2. spec[b].rack = (Rests(b) /\ scene.rackAware)
      <4>1. spec = [c \in Brokers |-> [version |-> 0, config |-> "user",
                      rack |-> Rests(c) /\ scene.rackAware, ingress |-> scene.ingress,
                      disks |-> IF c \in InScene THEN scene.disks ELSE {}]]
        BY InitFacts
      <4>2. spec[b] = [version |-> 0, config |-> "user",
                      rack |-> Rests(b) /\ scene.rackAware, ingress |-> scene.ingress,
                      disks |-> IF b \in InScene THEN scene.disks ELSE {}]
        BY <4>1, Zenon
      <4>. QED
        BY <4>2
    <3>. QED
      BY <3>1, <3>2
  <2>. QED
    BY <2>1 DEF RackInv
<1>. QED
  BY <1>2, <1>3, <1>4, <1>5, InitTypes DEF CoreInv

\* ... every step keeps it, ...
LEMMA CoreStep ==
  ASSUME Types, CoreInv, CurrentInv, [Next]_vars
  PROVE  Types' /\ CoreInv' /\ CurrentInv'
BY TypesStep, CopyStep, MapStep, CreatedStep, InSyncStep, RackStep, CurrentStep DEF CoreInv

\* ... so it always holds.
LEMMA ClusterCore == Spec => [](Types /\ CoreInv /\ CurrentInv)
<1>1. Init => Types /\ CoreInv /\ CurrentInv
  BY InitCore
<1>2. Types /\ CoreInv /\ CurrentInv /\ [Next]_vars => (Types /\ CoreInv /\ CurrentInv)'
  BY CoreStep
<1>. QED
  BY <1>1, <1>2, PTL DEF Spec

\* A broker that runs and is said to be in sync has the static configuration of its map,
\* for any cluster, unless a status write was lost or a pass ended before it.
THEOREM ClusterInSyncIsTrue == Spec => []InSyncIsTrue
<1>1. Types /\ CoreInv /\ CurrentInv => InSyncIsTrue
  BY SceneFacts DEF CoreInv, InSyncInv, InSyncIsTrue, Running, At, B, Types
<1>. QED
  BY <1>1, ClusterCore, PTL

\* A step of the worker changes no more of the spec than racks. Only WriteRack touches
\* both.
UserEditKept ==
  w' # w /\ Unspent("crash") =>
    \A b \in Brokers : spec'[b] = [spec[b] EXCEPT !.rack = spec'[b].rack]

\* A spec that does not change has kept its edits.
LEMMA SameSpecKept ==
  ASSUME Types
  PROVE  \A b \in Brokers : spec[b] = [spec[b] EXCEPT !.rack = spec[b].rack]
BY DEF Types, SpecTypes, SpecEntry

\* WriteRack changes the rack only: UpdateCr fails on a resource that has changed, and
\* RackInv rules out the entry that is erased.
LEMMA WriteRackKeeps ==
  ASSUME Types, RackInv, CopyInv, WriteRack, Unspent("crash")
  PROVE  \A b \in Brokers : spec'[b] = [spec[b] EXCEPT !.rack = spec'[b].rack]
<1>1. CASE UNCHANGED spec
  BY <1>1, SameSpecKept
<1>2. CASE /\ w.cr.spec = spec /\ w.cr.status = status
           /\ spec' = [spec EXCEPT ![w.broker] = RackOf(w.broker)]
  <2>1. w.pc = "rack" /\ w.broker \in Brokers /\ CopyOK
    BY WriteRackFields, AtBroker DEF BrokerPcs
  <2>2. status.rack[w.broker] \/ ~spec[w.broker].rack
    BY <2>1 DEF RackInv
  <2>3. RackOf(w.broker) = [spec[w.broker] EXCEPT !.rack = TRUE]
    BY <1>2, <2>1, <2>2, RackOfFields
  <2>4. spec \in SpecTypes
    BY DEF Types
  <2>5. /\ spec'[w.broker] = [spec[w.broker] EXCEPT !.rack = TRUE]
        /\ \A b \in Brokers \ {w.broker} : spec'[b] = spec[b]
    BY <1>2, <2>1, <2>3, <2>4 DEF SpecTypes
  <2>6. spec[w.broker] \in SpecEntry
    BY <2>1, <2>4 DEF SpecTypes
  <2>7. spec'[w.broker] = [spec[w.broker] EXCEPT !.rack = spec'[w.broker].rack]
    BY <2>5, <2>6 DEF SpecEntry
  <2>. QED
    BY <2>5, <2>7, SameSpecKept
<1>. QED
  BY <1>1, <1>2, WriteRackFields

\* Every step keeps the edits of the user.
LEMMA EditStep ==
  ASSUME Types, CopyInv, RackInv, [Next]_vars
  PROVE  UserEditKept
<1>1. ASSUME StartPass, UNCHANGED <<volumeVars, podVars>>
      PROVE  UserEditKept
  BY <1>1, StartPassFields, SameSpecKept DEF UserEditKept, volumeVars, podVars
<1>2. ASSUME NEW i \in Ingresses, ReconcileIngress(i), UNCHANGED <<volumeVars, podVars>>
      PROVE  UserEditKept
  BY <1>2, IngressEffect, SameSpecKept DEF UserEditKept, SameWork, Goes, volumeVars, podVars
<1>3. ASSUME ReconcileRoutes, UNCHANGED <<volumeVars, podVars>>
      PROVE  UserEditKept
  BY <1>3, IngressEffect, SameSpecKept DEF UserEditKept, SameWork, Goes, volumeVars, podVars
<1>4. ASSUME ReconcileNodePorts, UNCHANGED <<volumeVars, podVars>>
      PROVE  UserEditKept
  BY <1>4, IngressEffect, SameSpecKept DEF UserEditKept, SameWork, Goes, volumeVars, podVars
<1>5. ASSUME ReconcileContour, UNCHANGED <<volumeVars, podVars>>
      PROVE  UserEditKept
  BY <1>5, IngressEffect, SameSpecKept DEF UserEditKept, SameWork, Goes, volumeVars, podVars
<1>6. ASSUME PublishListeners, UNCHANGED <<volumeVars, podVars>>
      PROVE  UserEditKept
  BY <1>6, PublishListenersEffect, SameSpecKept DEF UserEditKept, Ends, volumeVars, podVars
<1>7. ASSUME NEW b \in Brokers, NEW p \in Paths, DeleteClaim(b, p), UNCHANGED <<podVars, service>>
      PROVE  UserEditKept
  BY <1>7, DeleteClaimFields, SameSpecKept DEF UserEditKept, podVars
<1>8. ASSUME NEW b \in Brokers, ReconcileClaims(b), UNCHANGED <<podVars, service>>
      PROVE  UserEditKept
  BY <1>8, ReconcileClaimsFields, SameSpecKept DEF UserEditKept, podVars
<1>9. ASSUME ForgetVolume, UNCHANGED <<podVars, service>>
      PROVE  UserEditKept
  BY <1>9, ForgetVolumeEffect, SameSpecKept
  DEF UserEditKept, SameWork, Writes, volumeVars, podVars
<1>10. ASSUME MarkVolumes, UNCHANGED <<podVars, service>>
      PROVE  UserEditKept
  BY <1>10, MarkVolumesTypes, SameSpecKept DEF UserEditKept, SameWork, volumeVars, podVars
<1>11. ASSUME ListBrokers, UNCHANGED service
      PROVE  UserEditKept
  BY <1>11, ListBrokersEffect, SameSpecKept DEF UserEditKept, volumeVars, podVars
<1>12. ASSUME OrderBrokers, UNCHANGED service
      PROVE  UserEditKept
  BY <1>12, OrderBrokersEffect, SameSpecKept DEF UserEditKept, volumeVars, podVars
<1>13. ASSUME ReconcileMap, UNCHANGED service
      PROVE  UserEditKept
  BY <1>13, ReconcileMapFields, SameSpecKept DEF UserEditKept, SameWork, Goes, volumeVars
<1>14. ASSUME ConfigOutOfSync, UNCHANGED service
      PROVE  UserEditKept
  BY <1>14, ConfigOutOfSyncFields, SameSpecKept
  DEF UserEditKept, SameWork, Goes, Writes, volumeVars, podVars
<1>15. ASSUME ReconcilePod, UNCHANGED service
      PROVE  UserEditKept
  BY <1>15, ReconcilePodFields, SameSpecKept
  DEF UserEditKept, SameWork, Goes, Ends, volumeVars, podVars
<1>16. ASSUME PodInSync, UNCHANGED service
      PROVE  UserEditKept
  BY <1>16, PodInSyncFields, SameSpecKept DEF UserEditKept, SameWork, Writes, volumeVars, podVars
<1>17. ASSUME WriteRack, UNCHANGED service
      PROVE  UserEditKept
  BY <1>17, WriteRackKeeps DEF UserEditKept
<1>18. ASSUME WriteRackStatus, UNCHANGED service
      PROVE  UserEditKept
  BY <1>18, WriteRackStatusFields, SameSpecKept
  DEF UserEditKept, SameWork, Writes, volumeVars, podVars
<1>19. ASSUME CompareBroker, UNCHANGED service
      PROVE  UserEditKept
  BY <1>19, CompareBrokerFields, SameSpecKept
  DEF UserEditKept, SameStatus, SameWork, Goes, Writes, volumeVars, podVars
<1>20. ASSUME CheckUpgrade, UNCHANGED service
      PROVE  UserEditKept
  BY <1>20, CheckUpgradeFields, SameSpecKept
  DEF UserEditKept, SameWork, Goes, Ends, volumeVars, podVars
<1>21. ASSUME DeletePod, UNCHANGED service
      PROVE  UserEditKept
  BY <1>21, DeletePodEffect, SameSpecKept DEF UserEditKept, SameWork, Goes, Ends, volumeVars
<1>22. ASSUME AskVersion, UNCHANGED service
      PROVE  UserEditKept
  BY <1>22, AskVersionFields, SameSpecKept
  DEF UserEditKept, SameStatus, SameWork, Writes, Ends, volumeVars, podVars
<1>23. ASSUME ReconcileDynamic \/ AlterDynamic \/ DynamicInSync, UNCHANGED service
      PROVE  UserEditKept
  BY <1>23, DynamicEffect, SameSpecKept
  DEF UserEditKept, SameStatus, SameWork, volumeVars, podVars
<1>24. ASSUME FinishPass, UNCHANGED service
      PROVE  UserEditKept
  BY <1>24, FinishPassFields, SameSpecKept DEF UserEditKept, SameStatus, Ends, volumeVars, podVars
<1>25. ASSUME Crash
      PROVE  UserEditKept
  BY <1>25, CrashFields, SameSpecKept DEF UserEditKept, volumeVars, podVars
<1>26. ASSUME EditVersion \/ \E b \in InScene : EditConfig(b) \/ EditIngress(b) \/ EditDisks(b)
      PROVE  UserEditKept
  BY <1>26, EditFields, SameSpecKept DEF UserEditKept, volumeVars, podVars
<1>27. ASSUME NEW b \in InScene, TaintPod(b)
      PROVE  UserEditKept
  BY <1>27, TaintPodFields, SameSpecKept DEF UserEditKept, volumeVars, podVars
<1>28. ASSUME QuietStep, UNCHANGED <<podVars, service>>
      PROVE  UserEditKept
  BY <1>28, QuietFields, SameSpecKept DEF UserEditKept, podVars
<1>29. ASSUME TaskSync \/ TaskSchedule, UNCHANGED <<podVars, service>>
      PROVE  UserEditKept
  BY <1>29, UpdateStatusFields, SameSpecKept DEF UserEditKept, podVars
<1>30. ASSUME NEW b \in InScene, PodIsScheduled(b), UNCHANGED service
      PROVE  UserEditKept
  BY <1>30, PodIsScheduledFields, SameSpecKept DEF UserEditKept, podVars
<1>31. ASSUME NEW b \in InScene, PodStarts(b), UNCHANGED service
      PROVE  UserEditKept
  BY <1>31, PodStartsFields, SameSpecKept DEF UserEditKept, volumeVars
<1>32. ASSUME NEW b \in InScene, PodStops(b), UNCHANGED service
      PROVE  UserEditKept
  BY <1>32, PodStopsFields, SameSpecKept DEF UserEditKept, volumeVars
<1>33. ASSUME NEW b \in InScene, CatchUp(b), UNCHANGED service
      PROVE  UserEditKept
  BY <1>33, CatchUpFields, SameSpecKept DEF UserEditKept, objectVars, volumeVars
<1>34. ASSUME NEW b \in InScene, PodBreaks(b), UNCHANGED service
      PROVE  UserEditKept
  BY <1>34, PodBreaksFields, SameSpecKept DEF UserEditKept, volumeVars
<1>35. ASSUME NEW b \in InScene, NEW p \in Paths, ReleaseClaim(b, p), UNCHANGED <<podVars, service>>
      PROVE  UserEditKept
  BY <1>35, ReleaseClaimFields, SameSpecKept DEF UserEditKept, objectVars, podVars
<1>36. ASSUME CountAlerts
      PROVE  UserEditKept
  BY <1>36, CountAlertsFields, SameSpecKept DEF UserEditKept, volumeVars, podVars
<1>37. ASSUME NEW i \in Ingresses, AssignAddress(i), UNCHANGED <<volumeVars, podVars>>
      PROVE  UserEditKept
  BY <1>37, AssignAddressFields, SameSpecKept DEF UserEditKept, objectVars, volumeVars, podVars
<1>38. CASE UNCHANGED vars
  BY <1>38 DEF UserEditKept, vars, objectVars
<1>. QED
  BY <1>1, <1>2, <1>3, <1>4, <1>5, <1>6, <1>7, <1>8, <1>9, <1>10, <1>11, <1>12, <1>13, <1>14,
     <1>15, <1>16, <1>17, <1>18, <1>19, <1>20, <1>21, <1>22, <1>23, <1>24, <1>25, <1>26, <1>27,
     <1>28, <1>29, <1>30, <1>31, <1>32, <1>33, <1>34, <1>35, <1>36, <1>37, <1>38
  DEF Next, Worker, IngressStep, VolumeStep, PodStep, TaskStep, OpStep, OpEvent,
      QuietStep, Kube, UserStep

\* No step of the operator undoes an edit of the user or erases a configuration, unless a
\* pass ended between the two writes of a rack.
THEOREM ClusterUserEditsKept == Spec => UserEditsKept
<1>1. Types /\ CoreInv /\ CurrentInv /\ [Next]_vars => [UserEditKept]_vars
  BY EditStep DEF CoreInv
<1>2. [UserEditKept]_vars => [w' # w /\ Unspent("crash") =>
       \A b \in Brokers : spec'[b] = [spec[b] EXCEPT !.rack = spec'[b].rack]]_vars
  BY DEF UserEditKept
<1>. QED
  BY <1>1, <1>2, ClusterCore, PTL DEF Spec, UserEditsKept

-----------------------------------------------------------------------------
(* Volumes. *)

\* The copy at the start of a pass is the status.
LEMMA StartPassCopy ==
  ASSUME Types, StartPass
  PROVE  w'.cr.status = status' /\ w'.pc \in {"ingress", "nodeports"} /\ SameStatus
<1>1. w'.cr = [spec |-> spec, status |-> status']
  BY StartPassFields
<1>2. w'.cr.status = status'
  BY <1>1
<1>. QED
  BY <1>2, StartPassFields DEF SameStatus

\* What the steps of the pass, of Kubernetes and of the user do to the volumes: the task
\* controller and the operations are left alone, entries of the status become marks or go, the
\* copy of the pass stays or is that of the status, and a claim is deleted only when the copy
\* calls its volume removed.
VolumesFramed ==
  /\ UNCHANGED <<drained, opVars, task>> /\ \A e \in Events : Unspent(e)' => Unspent(e)
  /\ \A b \in Brokers, p \in Paths :
       status'.volume[b][p] = status.volume[b][p] \/ status'.volume[b][p] \in Marks
  /\ \/ w'.pc = "idle"
     \/ w'.cr.status.volume = status'.volume
     \/ w.pc # "idle" /\ w'.cr.status.volume = w.cr.status.volume /\ status'.volume = status.volume
  /\ \A b \in Brokers, p \in Paths :
       claim[b][p] # "deleting" /\ claim'[b][p] = "deleting" =>
         w.pc # "idle" /\ IsDiskRemovalSucceeded(w.cr.status.volume[b][p])

\* NoVolume is a mark.
LEMMA NoVolumeMarks == NoVolume \in Marks
BY DEF Marks

\* All steps but those of the task controller and of the operations are such.
LEMMA FramedStep ==
  ASSUME Types, [Next]_vars, ~(QuietStep \/ TaskSync \/ TaskSchedule)
  PROVE  VolumesFramed
<1>1. ASSUME StartPass, UNCHANGED <<volumeVars, podVars>>
      PROVE  VolumesFramed
  BY <1>1, UnspentKept, NoVolumeMarks, StartPassFields, StartPassCopy
  DEF SameStatus, VolumesFramed, volumeVars, podVars
<1>2. ASSUME NEW i \in Ingresses, ReconcileIngress(i), UNCHANGED <<volumeVars, podVars>>
      PROVE  VolumesFramed
  BY <1>2, UnspentKept, NoVolumeMarks, IngressEffect
  DEF VolumesFramed, SameWork, Goes, volumeVars, podVars
<1>3. ASSUME ReconcileRoutes, UNCHANGED <<volumeVars, podVars>>
      PROVE  VolumesFramed
  BY <1>3, UnspentKept, NoVolumeMarks, IngressEffect
  DEF VolumesFramed, SameWork, Goes, volumeVars, podVars
<1>4. ASSUME ReconcileNodePorts, UNCHANGED <<volumeVars, podVars>>
      PROVE  VolumesFramed
  BY <1>4, UnspentKept, NoVolumeMarks, IngressEffect
  DEF VolumesFramed, SameWork, Goes, volumeVars, podVars
<1>5. ASSUME ReconcileContour, UNCHANGED <<volumeVars, podVars>>
      PROVE  VolumesFramed
  BY <1>5, UnspentKept, NoVolumeMarks, IngressEffect
  DEF VolumesFramed, SameWork, Goes, volumeVars, podVars
<1>6. ASSUME PublishListeners, UNCHANGED <<volumeVars, podVars>>
      PROVE  VolumesFramed
  BY <1>6, UnspentKept, NoVolumeMarks, PublishListenersEffect
  DEF VolumesFramed, Ends, volumeVars, podVars
<1>7. ASSUME NEW b \in Brokers, NEW p \in Paths, DeleteClaim(b, p), UNCHANGED <<podVars, service>>
      PROVE  VolumesFramed
  BY <1>7, UnspentKept, NoVolumeMarks, DeleteClaimFields DEF VolumesFramed, opVars, podVars
<1>8. ASSUME NEW b \in Brokers, ReconcileClaims(b), UNCHANGED <<podVars, service>>
      PROVE  VolumesFramed
  BY <1>8, UnspentKept, NoVolumeMarks, ReconcileClaimsFields DEF VolumesFramed, podVars
<1>9. ASSUME ForgetVolume, UNCHANGED <<podVars, service>>
      PROVE  VolumesFramed
  BY <1>9, UnspentKept, NoVolumeMarks, ForgetVolumeEffect
  DEF VolumesFramed, SameWork, Writes, volumeVars, podVars
<1>10. ASSUME MarkVolumes, UNCHANGED <<podVars, service>>
      PROVE  VolumesFramed
  BY <1>10, UnspentKept, NoVolumeMarks, MarkVolumesTypes
  DEF VolumesFramed, SameWork, volumeVars, podVars
<1>11. ASSUME ListBrokers, UNCHANGED service
      PROVE  VolumesFramed
  BY <1>11, UnspentKept, NoVolumeMarks, ListBrokersEffect DEF VolumesFramed, volumeVars, podVars
<1>12. ASSUME OrderBrokers, UNCHANGED service
      PROVE  VolumesFramed
  BY <1>12, UnspentKept, NoVolumeMarks, OrderBrokersEffect DEF VolumesFramed, volumeVars, podVars
<1>13. ASSUME ReconcileMap, UNCHANGED service
      PROVE  VolumesFramed
  BY <1>13, UnspentKept, NoVolumeMarks, ReconcileMapFields DEF VolumesFramed, SameWork, Goes, volumeVars
<1>14. ASSUME ConfigOutOfSync, UNCHANGED service
      PROVE  VolumesFramed
  BY <1>14, UnspentKept, NoVolumeMarks, ConfigOutOfSyncFields
  DEF VolumesFramed, SameWork, Goes, Writes, volumeVars, podVars
<1>15. ASSUME ReconcilePod, UNCHANGED service
      PROVE  VolumesFramed
  BY <1>15, UnspentKept, NoVolumeMarks, ReconcilePodFields
  DEF VolumesFramed, SameWork, Goes, Ends, volumeVars, podVars
<1>16. ASSUME PodInSync, UNCHANGED service
      PROVE  VolumesFramed
  BY <1>16, UnspentKept, NoVolumeMarks, PodInSyncFields
  DEF VolumesFramed, SameWork, Writes, volumeVars, podVars
<1>17. ASSUME WriteRack, UNCHANGED service
      PROVE  VolumesFramed
  BY <1>17, UnspentKept, NoVolumeMarks, WriteRackEffect
  DEF VolumesFramed, SameWork, Ends, volumeVars, podVars
<1>18. ASSUME WriteRackStatus, UNCHANGED service
      PROVE  VolumesFramed
  BY <1>18, UnspentKept, NoVolumeMarks, WriteRackStatusFields
  DEF VolumesFramed, SameWork, Writes, volumeVars, podVars
<1>19. ASSUME CompareBroker, UNCHANGED service
      PROVE  VolumesFramed
  BY <1>19, UnspentKept, NoVolumeMarks, CompareBrokerFields
  DEF VolumesFramed, SameStatus, SameWork, Goes, Writes, volumeVars, podVars
<1>20. ASSUME CheckUpgrade, UNCHANGED service
      PROVE  VolumesFramed
  BY <1>20, UnspentKept, NoVolumeMarks, CheckUpgradeFields
  DEF VolumesFramed, SameWork, Goes, Ends, volumeVars, podVars
<1>21. ASSUME DeletePod, UNCHANGED service
      PROVE  VolumesFramed
  BY <1>21, UnspentKept, NoVolumeMarks, DeletePodEffect
  DEF VolumesFramed, SameWork, Goes, Ends, volumeVars
<1>22. ASSUME AskVersion, UNCHANGED service
      PROVE  VolumesFramed
  BY <1>22, UnspentKept, NoVolumeMarks, AskVersionFields
  DEF VolumesFramed, SameStatus, SameWork, Writes, Ends, volumeVars, podVars
<1>23. ASSUME ReconcileDynamic \/ AlterDynamic \/ DynamicInSync, UNCHANGED service
      PROVE  VolumesFramed
  BY <1>23, UnspentKept, NoVolumeMarks, DynamicEffect
  DEF VolumesFramed, SameStatus, SameWork, volumeVars, podVars
<1>24. ASSUME FinishPass, UNCHANGED service
      PROVE  VolumesFramed
  BY <1>24, UnspentKept, NoVolumeMarks, FinishPassFields
  DEF VolumesFramed, SameStatus, Ends, volumeVars, podVars
<1>25. ASSUME Crash
      PROVE  VolumesFramed
  BY <1>25, UnspentKept, NoVolumeMarks, CrashFields DEF VolumesFramed, volumeVars, podVars
<1>26. ASSUME EditVersion \/ \E b \in InScene : EditConfig(b) \/ EditIngress(b) \/ EditDisks(b)
      PROVE  VolumesFramed
  BY <1>26, UnspentKept, NoVolumeMarks, EditFields DEF VolumesFramed, volumeVars, podVars
<1>27. ASSUME NEW b \in InScene, TaintPod(b)
      PROVE  VolumesFramed
  BY <1>27, UnspentKept, NoVolumeMarks, TaintPodFields DEF VolumesFramed, volumeVars, podVars
<1>28. ASSUME NEW b \in InScene, PodIsScheduled(b), UNCHANGED service
      PROVE  VolumesFramed
  BY <1>28, UnspentKept, NoVolumeMarks, PodIsScheduledFields DEF VolumesFramed, podVars
<1>29. ASSUME NEW b \in InScene, PodStarts(b), UNCHANGED service
      PROVE  VolumesFramed
  BY <1>29, UnspentKept, NoVolumeMarks, PodStartsFields DEF VolumesFramed, volumeVars
<1>30. ASSUME NEW b \in InScene, PodStops(b), UNCHANGED service
      PROVE  VolumesFramed
  BY <1>30, UnspentKept, NoVolumeMarks, PodStopsFields DEF VolumesFramed, volumeVars
<1>31. ASSUME NEW b \in InScene, CatchUp(b), UNCHANGED service
      PROVE  VolumesFramed
  BY <1>31, UnspentKept, NoVolumeMarks, CatchUpFields DEF VolumesFramed, objectVars, volumeVars
<1>32. ASSUME NEW b \in InScene, PodBreaks(b), UNCHANGED service
      PROVE  VolumesFramed
  BY <1>32, UnspentKept, NoVolumeMarks, PodBreaksFields DEF VolumesFramed, volumeVars
<1>33. ASSUME NEW b \in InScene, NEW p \in Paths, ReleaseClaim(b, p), UNCHANGED <<podVars, service>>
      PROVE  VolumesFramed
  BY <1>33, UnspentKept, NoVolumeMarks, ReleaseClaimFields DEF VolumesFramed, objectVars, podVars
<1>34. ASSUME CountAlerts
      PROVE  VolumesFramed
  BY <1>34, UnspentKept, NoVolumeMarks, CountAlertsFields DEF VolumesFramed, volumeVars, podVars
<1>35. ASSUME NEW i \in Ingresses, AssignAddress(i), UNCHANGED <<volumeVars, podVars>>
      PROVE  VolumesFramed
  BY <1>35, UnspentKept, NoVolumeMarks, AssignAddressFields
  DEF VolumesFramed, objectVars, volumeVars, podVars
<1>36. CASE UNCHANGED vars
  BY <1>36, UnspentKept, NoVolumeMarks DEF VolumesFramed, vars, objectVars, volumeVars
<1>37. ASSUME QuietStep, UNCHANGED <<podVars, service>>
      PROVE  VolumesFramed
  BY <1>37
<1>38. ASSUME TaskSync \/ TaskSchedule, UNCHANGED <<podVars, service>>
      PROVE  VolumesFramed
  BY <1>38
<1>. QED
  BY <1>1, <1>2, <1>3, <1>4, <1>5, <1>6, <1>7, <1>8, <1>9, <1>10, <1>11, <1>12, <1>13, <1>14, <1>15,
     <1>16, <1>17, <1>18, <1>19, <1>20, <1>21, <1>22, <1>23, <1>24, <1>25, <1>26, <1>27, <1>28,
     <1>29, <1>30, <1>31, <1>32, <1>33, <1>34, <1>35, <1>36, <1>37, <1>38
  DEF Next, Worker, IngressStep, VolumeStep, PodStep, TaskStep, OpStep, OpEvent,
      QuietStep, Kube, UserStep

\* Marks ask for no operation and call nothing done.
LEMMA MarksFields ==
  ASSUME NEW m \in Marks
  PROVE  m.ref = NoOp /\ m.stage # "Succeeded"
<1>1. CASE m = NoVolume
  BY <1>1 DEF NoVolume
<1>2. CASE m = Volume("remove", "Required", NoOp)
  BY <1>2 DEF Volume
<1>3. CASE m = Volume("rebalance", "Required", NoOp)
  BY <1>3 DEF Volume
<1>. QED
  BY <1>1, <1>2, <1>3 DEF Marks

\* The entry that is not there asks for nothing.
LEMMA NoVolumeFields == NoVolume.kind = "" /\ NoVolume.stage = "" /\ NoVolume.ref = NoOp
BY DEF NoVolume

\* RefInv, entry by entry, ...
LEMMA GroundedHere ==
  ASSUME DrainInv, Unspent("opEdit"), NEW b \in Brokers, NEW p \in Paths
  PROVE  /\ GroundedIn(status.volume[b][p], <<b, p>>, ops, work, drained)
         /\ GroundedIn(task.tasks[b][p], <<b, p>>, ops, work, drained)
BY DEF DrainInv, RefInv, Grounded

\* ... and after a step.
LEMMA GroundedNext ==
  ASSUME ASSUME Unspent("opEdit")', NEW b \in Brokers, NEW p \in Paths
         PROVE  /\ GroundedIn(status'.volume[b][p], <<b, p>>, ops', work', drained')
                /\ GroundedIn(task'.tasks[b][p], <<b, p>>, ops', work', drained')
  PROVE  RefInv'
BY DEF RefInv, Grounded

\* The entries are entries.
LEMMA EntryTypes ==
  ASSUME Types, NEW b \in Brokers, NEW p \in Paths
  PROVE  /\ status.volume[b][p] \in VolumeStates /\ task.tasks[b][p] \in VolumeStates
         /\ status.volume[b][p].ref # NoOp => status.volume[b][p].ref \in OpIds
         /\ task.tasks[b][p].ref # NoOp => task.tasks[b][p].ref \in OpIds
<1>1. status.volume[b][p] \in VolumeStates /\ task.tasks[b][p] \in VolumeStates
  BY DEF Types, StatusOK, TaskOK
<1>2. ASSUME NEW e \in VolumeStates
      PROVE  e.ref # NoOp => e.ref \in OpIds
  BY NoVolumeFields DEF VolumeStates
<1>. QED
  BY <1>1, <1>2

\* An entry that asks for nothing is grounded.
LEMMA NothingGrounded ==
  ASSUME NEW e, NEW v, NEW all, NEW jobs, NEW empty,
         e.kind # "remove" \/ (e.ref = NoOp /\ e.stage # "Succeeded")
  PROVE  GroundedIn(e, v, all, jobs, empty)
BY DEF GroundedIn

\* The invariant of the volumes, for all steps that leave the tasks alone.
LEMMA FramedDrain ==
  ASSUME Types, DrainInv, VolumesFramed
  PROVE  DrainInv'
<1>1. UNCHANGED <<drained, ops, work, task>> /\ (Unspent("opEdit")' => Unspent("opEdit"))
  BY CountedEvents DEF VolumesFramed, opVars
<1>2. OpsInv'
  BY <1>1 DEF DrainInv, OpsInv
<1>3. RefInv'
  <2>1. ASSUME Unspent("opEdit")', NEW b \in Brokers, NEW p \in Paths
        PROVE  /\ GroundedIn(status'.volume[b][p], <<b, p>>, ops', work', drained')
               /\ GroundedIn(task'.tasks[b][p], <<b, p>>, ops', work', drained')
    <3>1. /\ GroundedIn(status.volume[b][p], <<b, p>>, ops', work', drained')
          /\ GroundedIn(task'.tasks[b][p], <<b, p>>, ops', work', drained')
      BY <1>1, <2>1, GroundedHere
    <3>2. CASE status'.volume[b][p] = status.volume[b][p]
      BY <3>1, <3>2
    <3>3. CASE status'.volume[b][p] \in Marks
      BY <3>1, <3>3, MarksFields, NothingGrounded
    <3>. QED
      BY <3>2, <3>3 DEF VolumesFramed
  <2>. QED
    BY <2>1, GroundedNext
<1>4. TaskInv'
  <2>1. \A b \in Brokers, p \in Paths :
          IsDiskRemovalSucceeded(status'.volume[b][p]) => IsDiskRemovalSucceeded(status.volume[b][p])
    BY MarksFields DEF VolumesFramed, IsDiskRemovalSucceeded
  <2>. QED
    BY <1>1, <2>1 DEF DrainInv, TaskInv, RequiredTasks
<1>5. RemovedInv'
  BY DEF DrainInv, RemovedInv, VolumesFramed
<1>. QED
  BY <1>2, <1>3, <1>4, <1>5 DEF DrainInv

\* A reconcile of the task controller without tasks keeps what is said about tasks.
LEMMA IdleDrain ==
  ASSUME Types, DrainInv, UNCHANGED <<status, w, drained, opVars>>, task' = TaskIdle,
         Unspent("opEdit")' => Unspent("opEdit")
  PROVE  DrainInv'
<1>1. task'.pc = "idle" /\ \A b \in Brokers, p \in Paths : task'.tasks[b][p] = NoVolume
  BY IdleTask
<1>2. OpsInv' /\ RemovedInv'
  BY DEF DrainInv, OpsInv, RemovedInv, opVars
<1>3. RefInv'
  <2>1. ASSUME Unspent("opEdit")', NEW b \in Brokers, NEW p \in Paths
        PROVE  /\ GroundedIn(status'.volume[b][p], <<b, p>>, ops', work', drained')
               /\ GroundedIn(task'.tasks[b][p], <<b, p>>, ops', work', drained')
    <3>1. GroundedIn(status'.volume[b][p], <<b, p>>, ops', work', drained')
      BY <2>1, GroundedHere DEF opVars
    <3>. QED
      BY <1>1, <3>1, NoVolumeFields, NothingGrounded
  <2>. QED
    BY <2>1, GroundedNext
<1>4. TaskInv'
  BY <1>1 DEF TaskInv
<1>. QED
  BY <1>2, <1>3, <1>4 DEF DrainInv

\* The tasks that TaskStart reads are entries of the status that are not done with.
LEMMA TaskStartDrain ==
  ASSUME Types, DrainInv, TaskStart
  PROVE  DrainInv'
<1>1. /\ UNCHANGED <<scene, left, status, w, drained, ops, work>> /\ task'.pc = "list"
      /\ task'.tasks = ActiveTasks(status.volume) /\ status.volume \in [Brokers -> [Paths -> VolumeStates]]
  BY TaskStartFields DEF objectVars, opVars, Types, StatusOK
<1>2. \A b \in Brokers, p \in Paths :
        \/ task'.tasks[b][p] = NoVolume
        \/ task'.tasks[b][p] = status.volume[b][p] /\ status.volume[b][p].stage # "Succeeded"
  BY <1>1, ActiveTasksFields
<1>3. OpsInv' /\ RemovedInv'
  BY <1>1 DEF DrainInv, OpsInv, RemovedInv, Unspent
<1>4. RefInv'
  <2>1. ASSUME Unspent("opEdit")', NEW b \in Brokers, NEW p \in Paths
        PROVE  /\ GroundedIn(status'.volume[b][p], <<b, p>>, ops', work', drained')
               /\ GroundedIn(task'.tasks[b][p], <<b, p>>, ops', work', drained')
    <3>1. Unspent("opEdit")
      BY <1>1, <2>1 DEF Unspent
    <3>2. /\ GroundedIn(status.volume[b][p], <<b, p>>, ops', work', drained')
          /\ status'.volume[b][p] = status.volume[b][p]
      BY <1>1, <3>1, GroundedHere
    <3>3. CASE task'.tasks[b][p] = NoVolume
      BY <3>2, <3>3, NoVolumeFields, NothingGrounded
    <3>4. CASE task'.tasks[b][p] = status.volume[b][p]
      BY <3>2, <3>4
    <3>. QED
      BY <1>2, <3>3, <3>4
  <2>. QED
    BY <2>1, GroundedNext
<1>5. TaskInv'
  BY <1>1, <1>2, NoVolumeFields DEF TaskInv, IsDiskRemovalSucceeded
<1>. QED
  BY <1>3, <1>4, <1>5 DEF DrainInv

\* A task that FromResult calls succeeded has an operation that has emptied its volume.
LEMMA TaskListDrain ==
  ASSUME Types, DrainInv, TaskList
  PROVE  DrainInv'
<1>1. /\ UNCHANGED <<scene, left, status, w, drained, ops, work>>
      /\ task.pc = "list" /\ task'.pc \in {"plan", "sync"}
      /\ \A b \in Brokers, p \in Paths : task'.tasks[b][p] = FromResult(task.tasks[b][p])
  BY TaskListFields DEF objectVars, opVars
<1>2. OpsInv' /\ RemovedInv'
  BY <1>1 DEF DrainInv, OpsInv, RemovedInv, Unspent
<1>3. OpsOK /\ \A b \in Brokers, p \in Paths : task.tasks[b][p] \in VolumeStates
  BY DEF Types, TaskOK
<1>4. ASSUME Unspent("opEdit"), NEW b \in Brokers, NEW p \in Paths
      PROVE  GroundedIn(task'.tasks[b][p], <<b, p>>, ops, work, drained)
  <2>. DEFINE t == task.tasks[b][p]
  <2>1. GroundedIn(t, <<b, p>>, ops, work, drained) /\ OpsInv /\ t \in VolumeStates
    BY <1>3, <1>4, GroundedHere DEF DrainInv
  <2>2. task'.tasks[b][p] = FromResult(t)
    BY <1>1
  <2>. HIDE DEF t
  <2>3. CASE t.ref = NoOp
    BY <1>3, <2>1, <2>2, <2>3, FromResultFields
  <2>4. CASE t.ref # NoOp /\ t.kind = "remove"
    <3>1. /\ t.ref \in OpIds /\ FromResult(t).kind = t.kind /\ FromResult(t).ref = t.ref
          /\ FromResult(t).stage = StageOf(ops[t.ref])
      BY <1>3, <2>1, <2>4, FromResultFields
    <3>2. /\ ops[t.ref] \in Operation!LifecycleObject /\ ops[t.ref].policy = "retry"
          /\ ops[t.ref].phase = "gone" => ops[t.ref].state = "Completed"
      BY <1>3, <1>4, <2>1, <3>1 DEF OpsInv, OpsOK
    <3>3. StageOf(ops[t.ref]) = "Succeeded" => ops[t.ref].phase # "live" \/ ops[t.ref].state = "Completed"
      BY <3>2, StageOfFields
    <3>4. ops[t.ref].phase \in {"unborn", "live", "gone"}
      BY <3>2 DEF Operation!LifecycleObject
    <3>. QED
      BY <2>1, <2>2, <2>4, <3>1, <3>2, <3>3, <3>4 DEF GroundedIn
  <2>5. CASE t.ref # NoOp /\ t.kind # "remove"
    BY <1>3, <2>1, <2>2, <2>5, FromResultFields, NothingGrounded
  <2>. QED
    BY <2>3, <2>4, <2>5
<1>5. RefInv'
  <2>1. Unspent("opEdit")' => Unspent("opEdit")
    BY <1>1 DEF Unspent
  <2>2. ASSUME Unspent("opEdit")', NEW b \in Brokers, NEW p \in Paths
        PROVE  /\ GroundedIn(status'.volume[b][p], <<b, p>>, ops', work', drained')
               /\ GroundedIn(task'.tasks[b][p], <<b, p>>, ops', work', drained')
    <3>1. GroundedIn(status'.volume[b][p], <<b, p>>, ops', work', drained')
      BY <1>1, <2>1, <2>2, GroundedHere
    <3>2. GroundedIn(task'.tasks[b][p], <<b, p>>, ops', work', drained')
      BY <1>1, <1>4, <2>1, <2>2
    <3>. QED
      BY <3>1, <3>2
  <2>. QED
    BY <2>2, GroundedNext
<1>6. TaskInv'
  <2>1. ASSUME NEW b \in Brokers, NEW p \in Paths, IsDiskRemovalSucceeded(status.volume[b][p])
        PROVE  task'.tasks[b][p] = NoVolume
    <3>1. task.tasks[b][p] = NoVolume
      BY <1>1, <2>1 DEF DrainInv, TaskInv, IsDiskRemovalSucceeded
    <3>. QED
      BY <1>1, <1>3, <3>1, FromResultFields, NoVolumeFields
  <2>. QED
    BY <1>1, <2>1 DEF TaskInv
<1>. QED
  BY <1>2, <1>5, <1>6 DEF DrainInv

\* A new operation is one that no entry refers to.
LEMMA TaskPlanDrain ==
  ASSUME Types, DrainInv, TaskPlan
  PROVE  DrainInv'
<1>1. UNCHANGED <<scene, left, status, w, drained>> /\ Unspent("opEdit")' = Unspent("opEdit")
  BY TaskPlanFields DEF objectVars, Unspent
<1>2. CASE task' = TaskIdle /\ UNCHANGED opVars
  BY <1>1, <1>2, IdleDrain
<1>3. ASSUME task'.pc = "fill", task'.tasks = task.tasks, NEW o \in OpIds, NEW k \in {"rebalance", "remove"},
             task'.op = o, work'[o].kind = k, work'[o].of = RequiredTasks(k),
             ops[o].phase = "unborn", ops'[o].phase = "live",
             ops'[o].policy = "retry", ops'[o].state = "", ~ops'[o].deleting,
             \A q \in OpIds \ {o} : ops'[q] = ops[q] /\ work'[q] = work[q]
      PROVE  DrainInv'
  <2>1. OpsInv'
    BY <1>1, <1>3 DEF DrainInv, OpsInv
  <2>2. RemovedInv'
    BY <1>1 DEF DrainInv, RemovedInv
  <2>3. RefInv'
    <3>1. ASSUME NEW e, NEW v, e.ref # NoOp => e.ref \in OpIds,
                 GroundedIn(e, v, ops, work, drained)
          PROVE  GroundedIn(e, v, ops', work', drained')
      BY <1>1, <1>3, <3>1 DEF GroundedIn
    <3>2. ASSUME Unspent("opEdit")', NEW b \in Brokers, NEW p \in Paths
          PROVE  /\ GroundedIn(status'.volume[b][p], <<b, p>>, ops', work', drained')
                 /\ GroundedIn(task'.tasks[b][p], <<b, p>>, ops', work', drained')
      <4>1. /\ GroundedIn(status.volume[b][p], <<b, p>>, ops, work, drained)
            /\ GroundedIn(task.tasks[b][p], <<b, p>>, ops, work, drained)
        BY <1>1, <3>2, GroundedHere
      <4>2. /\ GroundedIn(status.volume[b][p], <<b, p>>, ops', work', drained')
            /\ GroundedIn(task.tasks[b][p], <<b, p>>, ops', work', drained')
        BY <3>1, <4>1, EntryTypes
      <4>. QED
        BY <1>1, <1>3, <4>2
    <3>. QED
      BY <3>2, GroundedNext
  <2>4. TaskInv'
    <3>1. RequiredTasks(k)' = RequiredTasks(k)
      BY <1>3 DEF RequiredTasks
    <3>2. (work[task.op].of = RequiredTasks(work[task.op].kind))'
      BY <1>3, <3>1 DEF RequiredTasks
    <3>3. \A b \in Brokers, p \in Paths :
            IsDiskRemovalSucceeded(status'.volume[b][p]) =>
              task'.tasks[b][p] = NoVolume \/ IsDiskRemovalSucceeded(task'.tasks[b][p])
      BY <1>1, <1>3 DEF DrainInv, TaskInv
    <3>. QED
      BY <1>3, <3>2, <3>3 DEF TaskInv
  <2>. QED
    BY <2>1, <2>2, <2>3, <2>4 DEF DrainInv
<1>. QED
  BY <1>2, <1>3, TaskPlanFields

\* The operation that FillOperation fills has not run, and none of its volumes is called removed.
LEMMA FillDrain ==
  ASSUME Types, DrainInv, FillOperation
  PROVE  DrainInv'
<1>1. /\ UNCHANGED <<scene, left, status, w, drained, work>> /\ Unspent("opEdit")' = Unspent("opEdit")
      /\ task.pc = "fill" /\ task.op \in OpIds /\ task.op # NoOp
  BY FillOperationFields DEF objectVars, Unspent
<1>2. CASE task' = TaskIdle /\ UNCHANGED ops
  BY <1>1, <1>2, IdleDrain DEF opVars
<1>3. CASE /\ task'.pc = "schedule"
           /\ ops[task.op].phase = "live" /\ ops'[task.op].phase = "live"
           /\ ~ops[task.op].set /\ ops'[task.op].set
           /\ ops'[task.op].policy = ops[task.op].policy
           /\ ops'[task.op].deleting = ops[task.op].deleting
           /\ ops'[task.op].state = ops[task.op].state
           /\ \A q \in OpIds \ {task.op} : ops'[q] = ops[q]
           /\ \A b \in Brokers, p \in Paths :
                task'.tasks[b][p] = IF <<b, p>> \in work[task.op].of
                                    THEN Volume(work[task.op].kind, "Scheduled", task.op)
                                    ELSE task.tasks[b][p]
  <2>1. OpsInv'
    <3>1. ASSUME Unspent("opEdit")', NEW q \in OpIds
          PROVE  /\ ops'[q].policy = "retry" /\ ~ops'[q].deleting
                 /\ ops'[q].phase = "gone" => ops'[q].state = "Completed"
                 /\ ~ops'[q].set => ops'[q].state = ""
      <4>1. /\ ops[q].policy = "retry" /\ ~ops[q].deleting
            /\ ops[q].phase = "gone" => ops[q].state = "Completed"
            /\ ~ops[q].set => ops[q].state = ""
        BY <1>1, <3>1 DEF DrainInv, OpsInv
      <4>2. CASE q = task.op
        BY <1>3, <4>1, <4>2
      <4>3. CASE q # task.op
        BY <1>3, <4>1, <4>3
      <4>. QED
        BY <4>2, <4>3
    <3>. QED
      BY <3>1 DEF OpsInv
  <2>2. RemovedInv'
    BY <1>1 DEF DrainInv, RemovedInv
  <2>3. RefInv'
    <3>1. ASSUME NEW e, NEW v, e.ref # NoOp => e.ref \in OpIds,
                 GroundedIn(e, v, ops, work, drained)
          PROVE  GroundedIn(e, v, ops', work', drained')
      <4>1. CASE e.ref = task.op
        BY <1>1, <1>3, <3>1, <4>1 DEF GroundedIn
      <4>2. CASE e.ref # task.op
        BY <1>1, <1>3, <3>1, <4>2 DEF GroundedIn
      <4>. QED
        BY <4>1, <4>2
    <3>2. ASSUME Unspent("opEdit")', NEW b \in Brokers, NEW p \in Paths
          PROVE  /\ GroundedIn(status'.volume[b][p], <<b, p>>, ops', work', drained')
                 /\ GroundedIn(task'.tasks[b][p], <<b, p>>, ops', work', drained')
      <4>1. /\ GroundedIn(status.volume[b][p], <<b, p>>, ops, work, drained)
            /\ GroundedIn(task.tasks[b][p], <<b, p>>, ops, work, drained)
        BY <1>1, <3>2, GroundedHere
      <4>2. /\ GroundedIn(status.volume[b][p], <<b, p>>, ops', work', drained')
            /\ GroundedIn(task.tasks[b][p], <<b, p>>, ops', work', drained')
        BY <3>1, <4>1, EntryTypes
      <4>3. CASE <<b, p>> \notin work[task.op].of
        BY <1>1, <1>3, <4>2, <4>3
      <4>4. CASE <<b, p>> \in work[task.op].of
        <5>1. task'.tasks[b][p] = Volume(work[task.op].kind, "Scheduled", task.op)
          BY <1>3, <4>4
        <5>2. /\ task'.tasks[b][p].kind = work[task.op].kind /\ task'.tasks[b][p].stage = "Scheduled"
              /\ task'.tasks[b][p].ref = task.op
          BY <5>1 DEF Volume
        <5>3. ops'[task.op].state = ""
          BY <1>1, <1>3, <3>2 DEF DrainInv, OpsInv
        <5>4. GroundedIn(task'.tasks[b][p], <<b, p>>, ops', work', drained')
          BY <1>1, <1>3, <4>4, <5>2, <5>3 DEF GroundedIn
        <5>. QED
          BY <1>1, <4>2, <5>4
      <4>. QED
        BY <4>3, <4>4
    <3>. QED
      BY <3>2, GroundedNext
  <2>4. TaskInv'
    <3>1. ASSUME NEW b \in Brokers, NEW p \in Paths, IsDiskRemovalSucceeded(status.volume[b][p])
          PROVE  task'.tasks[b][p] = task.tasks[b][p]
      <4>1. task.tasks[b][p] = NoVolume \/ IsDiskRemovalSucceeded(task.tasks[b][p])
        BY <3>1 DEF DrainInv, TaskInv
      <4>2. task.tasks[b][p].stage # "Required"
        BY <4>1, NoVolumeFields DEF IsDiskRemovalSucceeded
      <4>3. <<b, p>> \notin work[task.op].of
        BY <1>1, <4>2 DEF DrainInv, TaskInv, RequiredTasks
      <4>. QED
        BY <1>3, <4>3
    <3>. QED
      BY <1>1, <1>3, <3>1 DEF DrainInv, TaskInv
  <2>. QED
    BY <2>1, <2>2, <2>3, <2>4 DEF DrainInv
<1>. QED
  BY <1>2, <1>3, FillOperationFields

\* An operation ends well only when it has emptied its volumes.
LEMMA OpDrain ==
  ASSUME Types, DrainInv, NEW o \in OpIds,
         OpStarts(o) \/ OpPaused(o) \/ OpEnds(o) \/ OpEdited(o) \/ OpRemoved(o)
  PROVE  DrainInv'
<1>1. /\ UNCHANGED <<status, w, work, task>> /\ drained \subseteq drained'
      /\ Unspent("opEdit")' => Unspent("opEdit")
      /\ \A q \in OpIds \ {o} : ops'[q] = ops[q]
      /\ ops[o].phase = "live" /\ ops'[o].phase # "unborn" /\ ops'[o].set = ops[o].set
      /\ Unspent("opEdit")' =>
           ops'[o].policy = ops[o].policy /\ ops'[o].deleting = ops[o].deleting
      /\ ops'[o].state # ops[o].state => ops[o].set \/ ops[o].state # ""
      /\ ops'[o].state = "Completed" /\ ops[o].state # "Completed" =>
           work[o].kind # "remove" \/ ops[o].deleting \/ work[o].of \subseteq drained'
      /\ ops'[o].phase = "gone" =>
           /\ ops[o].state = "Completed" \/ ops[o].policy = "ignore" \/ ops[o].deleting
           /\ ops'[o].state = ops[o].state
  BY OpFields, CountedEvents
<1>2. OpsInv'
  BY <1>1 DEF DrainInv, OpsInv
<1>3. RemovedInv' /\ TaskInv'
  BY <1>1 DEF DrainInv, RemovedInv, TaskInv, RequiredTasks
<1>4. RefInv'
  <2>1. ASSUME Unspent("opEdit")', NEW e, NEW v, e.ref # NoOp => e.ref \in OpIds,
               GroundedIn(e, v, ops, work, drained)
        PROVE  GroundedIn(e, v, ops', work', drained')
    <3>1. ~ops[o].deleting
      BY <1>1, <2>1 DEF DrainInv, OpsInv
    <3>2. CASE e.ref = o
      BY <1>1, <2>1, <3>1, <3>2 DEF GroundedIn
    <3>3. CASE e.ref # o
      BY <1>1, <2>1, <3>3 DEF GroundedIn
    <3>. QED
      BY <3>2, <3>3
  <2>2. ASSUME Unspent("opEdit")', NEW b \in Brokers, NEW p \in Paths
        PROVE  /\ GroundedIn(status'.volume[b][p], <<b, p>>, ops', work', drained')
               /\ GroundedIn(task'.tasks[b][p], <<b, p>>, ops', work', drained')
    <3>1. /\ GroundedIn(status.volume[b][p], <<b, p>>, ops, work, drained)
          /\ GroundedIn(task.tasks[b][p], <<b, p>>, ops, work, drained)
      BY <1>1, <2>2, GroundedHere
    <3>2. /\ GroundedIn(status.volume[b][p], <<b, p>>, ops', work', drained')
          /\ GroundedIn(task.tasks[b][p], <<b, p>>, ops', work', drained')
      BY <2>1, <2>2, <3>1, EntryTypes
    <3>. QED
      BY <1>1, <3>2
  <2>. QED
    BY <2>2, GroundedNext
<1>. QED
  BY <1>2, <1>3, <1>4 DEF DrainInv

\* Tasks that are laid over the status undo no removal that the pass knows of, and only a volume
\* that they call rebalanced counts as filled again.
LEMMA UpdateStatusDrain ==
  ASSUME Types, DrainInv, TaskSync \/ TaskSchedule
  PROVE  DrainInv'
<1>1. /\ UNCHANGED <<scene, left, w, ops, work>> /\ Unspent("opEdit")' = Unspent("opEdit")
      /\ \A b \in Brokers, p \in Paths :
           status'.volume[b][p] =
             IF status.volume[b][p] # NoVolume /\ task.tasks[b][p] # NoVolume
             THEN task.tasks[b][p] ELSE status.volume[b][p]
      /\ drained' = {v \in drained : ~IsDiskRebalanceSucceeded(status'.volume[v[1]][v[2]])}
      /\ task' = TaskIdle \/ (task'.pc = "plan" /\ task'.tasks = task.tasks)
  BY UpdateStatusFields DEF opVars, Unspent
<1>2. /\ task'.pc \in {"idle", "plan"}
      /\ \A b \in Brokers, p \in Paths :
           task'.tasks[b][p] = NoVolume \/ task'.tasks[b][p] = task.tasks[b][p]
  BY <1>1, IdleTask
<1>3. OpsInv'
  BY <1>1 DEF DrainInv, OpsInv
<1>4. ASSUME NEW b \in Brokers, NEW p \in Paths, IsDiskRemovalSucceeded(status.volume[b][p])
      PROVE  /\ IsDiskRemovalSucceeded(status'.volume[b][p])
             /\ task.tasks[b][p] = NoVolume \/ IsDiskRemovalSucceeded(task.tasks[b][p])
  <2>1. task.tasks[b][p] = NoVolume \/ IsDiskRemovalSucceeded(task.tasks[b][p])
    BY <1>4 DEF DrainInv, TaskInv
  <2>2. status'.volume[b][p] = task.tasks[b][p] \/ status'.volume[b][p] = status.volume[b][p]
    BY <1>1
  <2>3. task.tasks[b][p] = NoVolume => status'.volume[b][p] = status.volume[b][p]
    BY <1>1
  <2>. QED
    BY <1>4, <2>1, <2>2, <2>3
<1>5. RemovedInv'
  BY <1>1, <1>4 DEF DrainInv, RemovedInv
<1>6. TaskInv'
  <2>1. ASSUME NEW b \in Brokers, NEW p \in Paths, IsDiskRemovalSucceeded(status'.volume[b][p])
        PROVE  task'.tasks[b][p] = NoVolume \/ IsDiskRemovalSucceeded(task'.tasks[b][p])
    <3>1. CASE status'.volume[b][p] = task.tasks[b][p]
      BY <1>2, <2>1, <3>1
    <3>2. CASE status'.volume[b][p] = status.volume[b][p]
      BY <1>2, <1>4, <2>1, <3>2
    <3>. QED
      BY <1>1, <3>1, <3>2
  <2>. QED
    BY <1>2, <2>1 DEF TaskInv
<1>7. ASSUME NEW b \in Brokers, NEW p \in Paths, <<b, p>> \in drained, <<b, p>> \notin drained'
      PROVE  status'.volume[b][p].kind = "rebalance" /\ task'.tasks[b][p].kind # "remove"
  <2>1. IsDiskRebalanceSucceeded(status'.volume[b][p])
    BY <1>1, <1>7
  <2>2. status'.volume[b][p].kind = "rebalance" /\ status'.volume[b][p] # NoVolume
    BY <2>1, NoVolumeFields DEF IsDiskRebalanceSucceeded
  <2>3. CASE task.tasks[b][p] = NoVolume
    BY <1>2, <2>2, <2>3, NoVolumeFields
  <2>4. CASE task.tasks[b][p] # NoVolume
    <3>1. status.volume[b][p] # NoVolume
      BY <1>1, <2>2
    <3>2. status'.volume[b][p] = task.tasks[b][p]
      BY <1>1, <2>4, <3>1
    <3>. QED
      BY <1>2, <2>2, <3>2, NoVolumeFields
  <2>. QED
    BY <2>3, <2>4
<1>8. RefInv'
  <2>1. ASSUME Unspent("opEdit")', NEW b \in Brokers, NEW p \in Paths
        PROVE  /\ GroundedIn(status'.volume[b][p], <<b, p>>, ops', work', drained')
               /\ GroundedIn(task'.tasks[b][p], <<b, p>>, ops', work', drained')
    <3>1. /\ GroundedIn(status.volume[b][p], <<b, p>>, ops', work', drained)
          /\ GroundedIn(task.tasks[b][p], <<b, p>>, ops', work', drained)
      BY <1>1, <2>1, GroundedHere
    <3>2. GroundedIn(status'.volume[b][p], <<b, p>>, ops', work', drained)
      BY <1>1, <3>1
    <3>3. GroundedIn(task'.tasks[b][p], <<b, p>>, ops', work', drained)
      BY <1>2, <3>1, NoVolumeFields, NothingGrounded
    <3>4. CASE <<b, p>> \in drained => <<b, p>> \in drained'
      BY <3>2, <3>3, <3>4 DEF GroundedIn
    <3>5. CASE <<b, p>> \in drained /\ <<b, p>> \notin drained'
      BY <1>7, <3>5, NothingGrounded
    <3>. QED
      BY <3>4, <3>5
  <2>. QED
    BY <2>1, GroundedNext
<1>. QED
  BY <1>3, <1>5, <1>6, <1>8 DEF DrainInv

\* Every step keeps the invariant of the volumes.
LEMMA DrainStep ==
  ASSUME Types, DrainInv, [Next]_vars
  PROVE  DrainInv'
<1>1. CASE TaskStart \/ TaskList \/ TaskPlan \/ FillOperation
  BY <1>1, TaskStartDrain, TaskListDrain, TaskPlanDrain, FillDrain
<1>2. CASE TaskFails
  BY <1>2, TaskFailsFields, IdleDrain, CountedEvents
<1>3. CASE \E o \in OpIds : OpStarts(o) \/ OpPaused(o) \/ OpEnds(o) \/ OpEdited(o) \/ OpRemoved(o)
  BY <1>3, OpDrain
<1>4. CASE TaskSync \/ TaskSchedule
  BY <1>4, UpdateStatusDrain
<1>5. CASE ~(QuietStep \/ TaskSync \/ TaskSchedule)
  BY <1>5, FramedStep, FramedDrain
<1>. QED
  BY <1>1, <1>2, <1>3, <1>4, <1>5 DEF QuietStep

\* A claim that a step deletes is that of an emptied volume.
DrainKept ==
  Unspent("opEdit") =>
    \A b \in Brokers, p \in Paths :
      claim[b][p] # "deleting" /\ claim'[b][p] = "deleting" => <<b, p>> \in drained

\* The pass deletes the claim of a volume that its copy calls removed; then the status still does,
\* and the volume has been emptied.
LEMMA DrainKeptStep ==
  ASSUME Types, DrainInv, [Next]_vars
  PROVE  DrainKept
<1>1. CASE QuietStep \/ TaskSync \/ TaskSchedule
  <2>1. UNCHANGED claim
    <3>1. CASE TaskStart \/ TaskList \/ TaskPlan \/ FillOperation \/ TaskFails \/ TaskSync \/ TaskSchedule
      BY <3>1, TaskStartFields, TaskListFields, TaskPlanFields, FillOperationFields, TaskFailsFields,
         UpdateStatusFields
    <3>2. CASE \E o \in OpIds : OpStarts(o) \/ OpPaused(o) \/ OpEnds(o) \/ OpEdited(o) \/ OpRemoved(o)
      BY <3>2, OpFields
    <3>. QED
      BY <1>1, <3>1, <3>2 DEF QuietStep
  <2>. QED
    BY <2>1 DEF DrainKept
<1>2. CASE ~(QuietStep \/ TaskSync \/ TaskSchedule)
  <2>1. VolumesFramed
    BY <1>2, FramedStep
  <2>2. ASSUME Unspent("opEdit"), NEW b \in Brokers, NEW p \in Paths, claim[b][p] # "deleting",
               claim'[b][p] = "deleting"
        PROVE  <<b, p>> \in drained
    <3>1. w.pc # "idle" /\ IsDiskRemovalSucceeded(w.cr.status.volume[b][p])
      BY <2>1, <2>2 DEF VolumesFramed
    <3>2. IsDiskRemovalSucceeded(status.volume[b][p]) 
      BY <3>1 DEF DrainInv, RemovedInv
    <3>3. GroundedIn(status.volume[b][p], <<b, p>>, ops, work, drained)
      BY <2>2, GroundedHere
    <3>. QED
      BY <3>2, <3>3 DEF IsDiskRemovalSucceeded, GroundedIn
  <2>. QED
    BY <2>2 DEF DrainKept
<1>. QED
  BY <1>1, <1>2

\* No volume is to be removed at the start, and no operation has been made.
LEMMA InitDrain ==
  ASSUME Init
  PROVE  DrainInv
<1>1. w.pc = "idle"
  <2>1. w = Idle
    BY InitFacts
  <2>. QED
    BY <2>1 DEF Idle
<1>2. task.pc = "idle" /\ \A b \in Brokers, p \in Paths : task.tasks[b][p] = NoVolume
  <2>1. task = TaskIdle
    BY InitFacts
  <2>. QED
    BY <2>1, IdleTask
<1>3. \A b \in Brokers, p \in Paths : status.volume[b][p].kind # "remove"
  BY InitFacts
<1>4. \A o \in OpIds : /\ ops[o].policy = "retry" /\ ~ops[o].deleting /\ ops[o].phase # "gone"
                       /\ ops[o].state = ""
  BY InitFacts
<1>. QED
  BY <1>1, <1>2, <1>3, <1>4, NoVolumeFields
  DEF DrainInv, OpsInv, RefInv, TaskInv, RemovedInv, Grounded, GroundedIn, IsDiskRemovalSucceeded

\* Volumes are called removed only when they have been emptied, in the status, in the tasks and in
\* the copy of the pass.
LEMMA ClusterDrain == Spec => [](Types /\ DrainInv)
<1>1. Init => Types /\ DrainInv
  BY InitTypes, InitDrain
<1>2. Types /\ DrainInv /\ [Next]_vars => (Types /\ DrainInv)'
  BY TypesStep, DrainStep
<1>. QED
  BY <1>1, <1>2, PTL DEF Spec

\* While users leave the operations alone, the claim of a volume is deleted only when a remove_disks
\* of Cruise Control has taken the partitions off it since it was last recorded as rebalanced, however
\* the spec, the status and the operations change between the reads of reconcileKafkaPvc and of the
\* CruiseControlTask controller, and whatever old tasks the latter lays over a newer status.
THEOREM ClusterDrained == Spec => DrainedBeforeDeletion
<1>1. Types /\ DrainInv /\ [Next]_vars => [DrainKept]_vars
  BY DrainKeptStep
<1>2. [DrainKept]_vars =>
        [Unspent("opEdit") =>
           \A b \in Brokers, p \in Paths :
             claim[b][p] # "deleting" /\ claim'[b][p] = "deleting" => <<b, p>> \in drained]_vars
  BY DEF DrainKept
<1>. QED
  BY <1>1, <1>2, ClusterDrain, PTL DEF Spec, DrainedBeforeDeletion

-----------------------------------------------------------------------------
(* Restarts. *)

\* Restarted brokers are brokers.
LEMMA RestartedFacts ==
  ASSUME Types
  PROVE  restarted \subseteq Brokers /\ InScene \subseteq Brokers
BY SceneFacts DEF Types, SyncOK

\* A restarted broker stays counted until it runs again: the pod that takes its place is
\* made while it is out of sync.
LEMMA DownStep ==
  ASSUME Types, DownInv, [Next]_vars
  PROVE  DownInv'
<1>1. ASSUME StartPass, UNCHANGED <<volumeVars, podVars>>
      PROVE  DownInv'
  BY <1>1, RestartedFacts, StartPassFields DEF DownInv, podVars
<1>2. ASSUME NEW i \in Ingresses, ReconcileIngress(i), UNCHANGED <<volumeVars, podVars>>
      PROVE  DownInv'
  BY <1>2, RestartedFacts, IngressEffect DEF DownInv, SameWork, Goes, volumeVars, podVars
<1>3. ASSUME ReconcileRoutes, UNCHANGED <<volumeVars, podVars>>
      PROVE  DownInv'
  BY <1>3, RestartedFacts, IngressEffect DEF DownInv, SameWork, Goes, volumeVars, podVars
<1>4. ASSUME ReconcileNodePorts, UNCHANGED <<volumeVars, podVars>>
      PROVE  DownInv'
  BY <1>4, RestartedFacts, IngressEffect DEF DownInv, SameWork, Goes, volumeVars, podVars
<1>5. ASSUME ReconcileContour, UNCHANGED <<volumeVars, podVars>>
      PROVE  DownInv'
  BY <1>5, RestartedFacts, IngressEffect DEF DownInv, SameWork, Goes, volumeVars, podVars
<1>6. ASSUME PublishListeners, UNCHANGED <<volumeVars, podVars>>
      PROVE  DownInv'
  BY <1>6, RestartedFacts, PublishListenersEffect DEF DownInv, Ends, volumeVars, podVars
<1>7. ASSUME NEW b \in Brokers, NEW p \in Paths, DeleteClaim(b, p), UNCHANGED <<podVars, service>>
      PROVE  DownInv'
  BY <1>7, RestartedFacts, DeleteClaimFields DEF DownInv, podVars
<1>8. ASSUME NEW b \in Brokers, ReconcileClaims(b), UNCHANGED <<podVars, service>>
      PROVE  DownInv'
  BY <1>8, RestartedFacts, ReconcileClaimsFields DEF DownInv, podVars
<1>9. ASSUME ForgetVolume, UNCHANGED <<podVars, service>>
      PROVE  DownInv'
  BY <1>9, RestartedFacts, ForgetVolumeEffect DEF DownInv, SameWork, Writes, volumeVars, podVars
<1>10. ASSUME MarkVolumes, UNCHANGED <<podVars, service>>
      PROVE  DownInv'
  BY <1>10, RestartedFacts, MarkVolumesTypes DEF DownInv, SameWork, volumeVars, podVars
<1>11. ASSUME ListBrokers, UNCHANGED service
      PROVE  DownInv'
  BY <1>11, RestartedFacts, ListBrokersEffect DEF DownInv, volumeVars, podVars
<1>12. ASSUME OrderBrokers, UNCHANGED service
      PROVE  DownInv'
  BY <1>12, RestartedFacts, OrderBrokersEffect DEF DownInv, volumeVars, podVars
<1>13. ASSUME ReconcileMap, UNCHANGED service
      PROVE  DownInv'
  BY <1>13, RestartedFacts, ReconcileMapFields DEF DownInv, SameWork, Goes, volumeVars
<1>14. ASSUME ConfigOutOfSync, UNCHANGED service
      PROVE  DownInv'
  BY <1>14, RestartedFacts, ConfigOutOfSyncFields
  DEF DownInv, SameWork, Goes, Writes, volumeVars, podVars
<1>15. ASSUME ReconcilePod, UNCHANGED service
      PROVE  DownInv'
  BY <1>15, RestartedFacts, ReconcilePodFields
  DEF DownInv, SameWork, Goes, Ends, volumeVars, podVars
<1>16. ASSUME PodInSync, UNCHANGED service
      PROVE  DownInv'
  BY <1>16, RestartedFacts, PodInSyncFields DEF DownInv, SameWork, Writes, volumeVars, podVars
<1>17. ASSUME WriteRack, UNCHANGED service
      PROVE  DownInv'
  BY <1>17, RestartedFacts, WriteRackEffect DEF DownInv, SameWork, Ends, volumeVars, podVars
<1>18. ASSUME WriteRackStatus, UNCHANGED service
      PROVE  DownInv'
  BY <1>18, RestartedFacts, WriteRackStatusFields
  DEF DownInv, SameWork, Writes, volumeVars, podVars
<1>19. ASSUME CompareBroker, UNCHANGED service
      PROVE  DownInv'
  BY <1>19, RestartedFacts, CompareBrokerFields
  DEF DownInv, SameStatus, SameWork, Goes, Writes, volumeVars, podVars
<1>20. ASSUME CheckUpgrade, UNCHANGED service
      PROVE  DownInv'
  BY <1>20, RestartedFacts, CheckUpgradeFields
  DEF DownInv, SameWork, Goes, Ends, volumeVars, podVars
<1>21. ASSUME DeletePod, UNCHANGED service
      PROVE  DownInv'
  BY <1>21, RestartedFacts, DeletePodEffect DEF DownInv, SameWork, Goes, Ends, volumeVars
<1>22. ASSUME AskVersion, UNCHANGED service
      PROVE  DownInv'
  BY <1>22, RestartedFacts, AskVersionFields
  DEF DownInv, SameStatus, SameWork, Writes, Ends, volumeVars, podVars
<1>23. ASSUME ReconcileDynamic \/ AlterDynamic \/ DynamicInSync, UNCHANGED service
      PROVE  DownInv'
  BY <1>23, RestartedFacts, DynamicEffect
  DEF DownInv, SameStatus, SameWork, volumeVars, podVars
<1>24. ASSUME FinishPass, UNCHANGED service
      PROVE  DownInv'
  BY <1>24, RestartedFacts, FinishPassFields DEF DownInv, SameStatus, Ends, volumeVars, podVars
<1>25. ASSUME Crash
      PROVE  DownInv'
  BY <1>25, RestartedFacts, CrashFields DEF DownInv, volumeVars, podVars
<1>26. ASSUME EditVersion \/ \E b \in InScene : EditConfig(b) \/ EditIngress(b) \/ EditDisks(b)
      PROVE  DownInv'
  BY <1>26, RestartedFacts, EditFields DEF DownInv, volumeVars, podVars
<1>27. ASSUME NEW b \in InScene, TaintPod(b)
      PROVE  DownInv'
  BY <1>27, RestartedFacts, TaintPodFields DEF DownInv, volumeVars, podVars
<1>28. ASSUME QuietStep, UNCHANGED <<podVars, service>>
      PROVE  DownInv'
  BY <1>28, RestartedFacts, QuietFields DEF DownInv, podVars
<1>29. ASSUME TaskSync \/ TaskSchedule, UNCHANGED <<podVars, service>>
      PROVE  DownInv'
  BY <1>29, RestartedFacts, UpdateStatusFields DEF DownInv, podVars
<1>30. ASSUME NEW b \in InScene, PodIsScheduled(b), UNCHANGED service
      PROVE  DownInv'
  BY <1>30, RestartedFacts, PodIsScheduledFields DEF DownInv, podVars
<1>31. ASSUME NEW b \in InScene, PodStarts(b), UNCHANGED service
      PROVE  DownInv'
  BY <1>31, RestartedFacts, PodStartsFields DEF DownInv, volumeVars
<1>32. ASSUME NEW b \in InScene, PodStops(b), UNCHANGED service
      PROVE  DownInv'
  BY <1>32, RestartedFacts, PodStopsFields DEF DownInv, volumeVars
<1>33. ASSUME NEW b \in InScene, CatchUp(b), UNCHANGED service
      PROVE  DownInv'
  BY <1>33, RestartedFacts, CatchUpFields DEF DownInv, objectVars, volumeVars
<1>34. ASSUME NEW b \in InScene, PodBreaks(b), UNCHANGED service
      PROVE  DownInv'
  BY <1>34, RestartedFacts, PodBreaksFields DEF DownInv, volumeVars
<1>35. ASSUME NEW b \in InScene, NEW p \in Paths, ReleaseClaim(b, p), UNCHANGED <<podVars, service>>
      PROVE  DownInv'
  BY <1>35, RestartedFacts, ReleaseClaimFields DEF DownInv, objectVars, podVars
<1>36. ASSUME CountAlerts
      PROVE  DownInv'
  BY <1>36, RestartedFacts, CountAlertsFields DEF DownInv, volumeVars, podVars
<1>37. ASSUME NEW i \in Ingresses, AssignAddress(i), UNCHANGED <<volumeVars, podVars>>
      PROVE  DownInv'
  BY <1>37, RestartedFacts, AssignAddressFields DEF DownInv, objectVars, volumeVars, podVars
<1>38. CASE UNCHANGED vars
  BY <1>38, RestartedFacts DEF DownInv, vars, objectVars, volumeVars, podVars
<1>. QED
  BY <1>1, <1>2, <1>3, <1>4, <1>5, <1>6, <1>7, <1>8, <1>9, <1>10, <1>11, <1>12, <1>13, <1>14,
     <1>15, <1>16, <1>17, <1>18, <1>19, <1>20, <1>21, <1>22, <1>23, <1>24, <1>25, <1>26, <1>27,
     <1>28, <1>29, <1>30, <1>31, <1>32, <1>33, <1>34, <1>35, <1>36, <1>37, <1>38
  DEF Next, Worker, IngressStep, VolumeStep, PodStep, TaskStep, OpStep, OpEvent,
      QuietStep, Kube, UserStep

\* Sets of brokers are finite.
LEMMA FiniteBrokers ==
  ASSUME NEW S \in SUBSET Brokers
  PROVE  IsFiniteSet(S) /\ Cardinality(S) \in Nat
BY BrokersAssumption, FS_Subset, FS_CardinalityType

\* A scene lets at least one broker restart.
LEMMA SceneNumbers ==
  ASSUME Types
  PROVE  scene.limit \in Nat \ {0} /\ scene.threshold \in Nat
BY ScenesAssumption DEF Types

\* Without lag the checks see every restarted broker.
LEMMA RestartedCounted ==
  ASSUME Types, DownInv, ~scene.lag
  PROVE  restarted \subseteq Unready \cup Impacted
BY DEF Types, SyncOK, DownInv, Unready, Impacted, Listed

\* After the checks there is room for one more restart, in the zone of the others. Zones of
\* their own, which brokers have when not all racks are known, make the others the broker
\* itself.
LEMMA CheckUpgradeBound ==
  ASSUME Types, DownInv, ~scene.lag, MayRestart, w.pc = "check", w.broker \in Brokers
  PROVE  /\ Cardinality(restarted \ {w.broker}) + 1 < scene.limit + scene.threshold
         /\ scene.limit > 1 => \A b \in restarted : scene.zone[b] = scene.zone[w.broker]
<1>1. restarted \subseteq Unready \cup Impacted
  BY RestartedCounted
<1>2. Unready \in SUBSET Brokers /\ Impacted \in SUBSET Brokers
  BY RestartedFacts DEF Unready, Impacted
<1>3. /\ Cardinality(Unready) < scene.limit /\ Cardinality(Impacted) < scene.threshold
      /\ scene.limit > 1 => \A b \in Unready : Zone(b) = Zone(w.broker)
      /\ scene.limit > 1 /\ scene.threshold > 1 => \A b \in Impacted : Zone(b) = Zone(w.broker)
  <2>1. w.cr.status.errors \in Nat /\ Cardinality(Impacted) \in Nat
    BY <1>2, FiniteBrokers DEF Types, WorkerOK, CopyOK, StatusOK
  <2>2. Cardinality(Impacted) + w.cr.status.errors < scene.threshold
    BY DEF MayRestart
  <2>3. Cardinality(Impacted) < scene.threshold
    BY <2>1, <2>2, SceneNumbers
  <2>. QED
    BY <2>3 DEF MayRestart, B
<1>4. Cardinality(restarted \ {w.broker}) + 1 < scene.limit + scene.threshold
  <2>1. /\ IsFiniteSet(Unready) /\ IsFiniteSet(Impacted) /\ IsFiniteSet(Unready \cup Impacted)
        /\ Cardinality(Unready) \in Nat /\ Cardinality(Impacted) \in Nat
        /\ Cardinality(Unready \cup Impacted) \in Nat
    BY <1>2, FiniteBrokers
  <2>2. Cardinality(Unready \cup Impacted) <= Cardinality(Unready) + Cardinality(Impacted)
    <3>1. /\ Cardinality(Unready \cup Impacted) =
               Cardinality(Unready) + Cardinality(Impacted) - Cardinality(Unready \cap Impacted)
          /\ Cardinality(Unready \cap Impacted) \in Nat
      BY <1>2, <2>1, FS_Union, FiniteBrokers
    <3>. QED
      BY <2>1, <3>1
  <2>3. /\ restarted \ {w.broker} \in SUBSET (Unready \cup Impacted)
        /\ restarted \ {w.broker} \in SUBSET Brokers
    BY <1>1, <1>2
  <2>4. /\ Cardinality(restarted \ {w.broker}) <= Cardinality(Unready \cup Impacted)
        /\ Cardinality(restarted \ {w.broker}) \in Nat
    BY <2>1, <2>3, FS_Subset, FiniteBrokers
  <2>. QED
    BY <1>3, <2>1, <2>2, <2>4, SceneNumbers
<1>5. ASSUME scene.limit > 1, NEW b \in restarted
      PROVE  scene.zone[b] = scene.zone[w.broker]
  <2>1. Zone(b) = Zone(w.broker)
    <3>1. CASE b \in Unready
      BY <1>3, <1>5, <3>1
    <3>2. CASE b \in Impacted
      <4>1. Impacted # {} /\ IsFiniteSet(Impacted) /\ Cardinality(Impacted) \in Nat
        BY <1>2, <3>2, FiniteBrokers
      <4>2. Cardinality(Impacted) # 0
        BY <4>1, FS_EmptySet
      <4>3. scene.threshold > 1
        BY <1>3, <4>1, <4>2, SceneNumbers
      <4>. QED
        BY <1>3, <1>5, <3>2, <4>3
    <3>. QED
      BY <1>1, <3>1, <3>2
  <2>. QED
    BY <2>1 DEF Zone
<1>. QED
  BY <1>4, <1>5

\* Restarts stay bounded: only DeletePod adds one, and the room that CheckUpgrade found is
\* still there.
LEMMA BoundStep ==
  ASSUME Types, DownInv, BoundInv, [Next]_vars
  PROVE  BoundInv'
<1>1. ASSUME StartPass, UNCHANGED <<volumeVars, podVars>>
      PROVE  BoundInv'
  BY <1>1, StartPassFields, StartPassCopy DEF BoundInv, podVars
<1>2. ASSUME NEW i \in Ingresses, ReconcileIngress(i), UNCHANGED <<volumeVars, podVars>>
      PROVE  BoundInv'
  BY <1>2, IngressEffect DEF BoundInv, SameWork, Goes, volumeVars, podVars
<1>3. ASSUME ReconcileRoutes, UNCHANGED <<volumeVars, podVars>>
      PROVE  BoundInv'
  BY <1>3, IngressEffect DEF BoundInv, SameWork, Goes, volumeVars, podVars
<1>4. ASSUME ReconcileNodePorts, UNCHANGED <<volumeVars, podVars>>
      PROVE  BoundInv'
  BY <1>4, IngressEffect DEF BoundInv, SameWork, Goes, volumeVars, podVars
<1>5. ASSUME ReconcileContour, UNCHANGED <<volumeVars, podVars>>
      PROVE  BoundInv'
  BY <1>5, IngressEffect DEF BoundInv, SameWork, Goes, volumeVars, podVars
<1>6. ASSUME PublishListeners, UNCHANGED <<volumeVars, podVars>>
      PROVE  BoundInv'
  BY <1>6, PublishListenersEffect DEF BoundInv, Ends, volumeVars, podVars
<1>7. ASSUME NEW b \in Brokers, NEW p \in Paths, DeleteClaim(b, p), UNCHANGED <<podVars, service>>
      PROVE  BoundInv'
  BY <1>7, DeleteClaimFields DEF BoundInv, podVars
<1>8. ASSUME NEW b \in Brokers, ReconcileClaims(b), UNCHANGED <<podVars, service>>
      PROVE  BoundInv'
  BY <1>8, ReconcileClaimsFields DEF BoundInv, podVars
<1>9. ASSUME ForgetVolume, UNCHANGED <<podVars, service>>
      PROVE  BoundInv'
  BY <1>9, ForgetVolumeEffect DEF BoundInv, SameWork, Writes, volumeVars, podVars
<1>10. ASSUME MarkVolumes, UNCHANGED <<podVars, service>>
      PROVE  BoundInv'
  BY <1>10, MarkVolumesTypes DEF BoundInv, SameWork, volumeVars, podVars
<1>11. ASSUME ListBrokers, UNCHANGED service
      PROVE  BoundInv'
  BY <1>11, ListBrokersEffect DEF BoundInv, volumeVars, podVars
<1>12. ASSUME OrderBrokers, UNCHANGED service
      PROVE  BoundInv'
  BY <1>12, OrderBrokersEffect DEF BoundInv, volumeVars, podVars
<1>13. ASSUME ReconcileMap, UNCHANGED service
      PROVE  BoundInv'
  BY <1>13, ReconcileMapFields DEF BoundInv, SameWork, Goes, volumeVars
<1>14. ASSUME ConfigOutOfSync, UNCHANGED service
      PROVE  BoundInv'
  BY <1>14, ConfigOutOfSyncFields DEF BoundInv, SameWork, Goes, Writes, volumeVars, podVars
<1>15. ASSUME ReconcilePod, UNCHANGED service
      PROVE  BoundInv'
  BY <1>15, ReconcilePodFields DEF BoundInv, SameWork, Goes, Ends, volumeVars, podVars
<1>16. ASSUME PodInSync, UNCHANGED service
      PROVE  BoundInv'
  BY <1>16, PodInSyncFields DEF BoundInv, SameWork, Writes, volumeVars, podVars
<1>17. ASSUME WriteRack, UNCHANGED service
      PROVE  BoundInv'
  BY <1>17, WriteRackEffect DEF BoundInv, SameWork, Ends, volumeVars, podVars
<1>18. ASSUME WriteRackStatus, UNCHANGED service
      PROVE  BoundInv'
  BY <1>18, WriteRackStatusFields DEF BoundInv, SameWork, Writes, volumeVars, podVars
<1>19. ASSUME CompareBroker, UNCHANGED service
      PROVE  BoundInv'
  BY <1>19, CompareBrokerFields
  DEF BoundInv, SameStatus, SameWork, Goes, Writes, volumeVars, podVars
<1>20. ASSUME CheckUpgrade, UNCHANGED service
      PROVE  BoundInv'
  <2>1. UNCHANGED <<scene, restarted>> /\ w.pc = "check"
    BY <1>20, CheckUpgradeFields DEF podVars
  <2>2. CASE Ends
    BY <2>1, <2>2 DEF BoundInv, Ends
  <2>3. CASE MayRestart /\ Goes("restart")
    <3>1. w'.broker = w.broker /\ w.broker \in Brokers
      BY <2>1, <2>3, AtBroker DEF BrokerPcs, Goes, SameWork
    <3>. QED
      BY <2>1, <2>3, <3>1, CheckUpgradeBound DEF BoundInv
  <2>. QED
    BY <1>20, <2>2, <2>3, CheckUpgradeFields
<1>21. ASSUME DeletePod, UNCHANGED service
      PROVE  BoundInv'
  <2>1. CASE restarted' = restarted
    BY <1>21, <2>1, DeletePodEffect DEF BoundInv, Ends, Goes
  <2>2. CASE w.pc = "restart" /\ restarted' = restarted \cup {w.broker}
    <3>1. UNCHANGED scene /\ w'.pc # "restart"
      BY <1>21, DeletePodEffect DEF Ends, Goes
    <3>2. Cardinality(restarted') = Cardinality(restarted \ {w.broker}) + 1
      <4>1. IsFiniteSet(restarted \ {w.broker}) /\ restarted' = (restarted \ {w.broker}) \cup {w.broker}
        BY <2>2, RestartedFacts, FiniteBrokers
      <4>. QED
        BY <4>1, FS_AddElement
    <3>. QED
      BY <2>2, <3>1, <3>2 DEF BoundInv
  <2>. QED
    BY <1>21, <2>1, <2>2, DeletePodEffect
<1>22. ASSUME AskVersion, UNCHANGED service
      PROVE  BoundInv'
  BY <1>22, AskVersionFields DEF BoundInv, SameStatus, SameWork, Writes, Ends, volumeVars, podVars
<1>23. ASSUME ReconcileDynamic \/ AlterDynamic \/ DynamicInSync, UNCHANGED service
      PROVE  BoundInv'
  BY <1>23, DynamicEffect DEF BoundInv, SameStatus, SameWork, volumeVars, podVars
<1>24. ASSUME FinishPass, UNCHANGED service
      PROVE  BoundInv'
  BY <1>24, FinishPassFields DEF BoundInv, SameStatus, Ends, volumeVars, podVars
<1>25. ASSUME Crash
      PROVE  BoundInv'
  BY <1>25, CrashFields DEF BoundInv, volumeVars, podVars
<1>26. ASSUME EditVersion \/ \E b \in InScene : EditConfig(b) \/ EditIngress(b) \/ EditDisks(b)
      PROVE  BoundInv'
  BY <1>26, EditFields DEF BoundInv, volumeVars, podVars
<1>27. ASSUME NEW b \in InScene, TaintPod(b)
      PROVE  BoundInv'
  BY <1>27, TaintPodFields DEF BoundInv, volumeVars, podVars
<1>28. ASSUME QuietStep, UNCHANGED <<podVars, service>>
      PROVE  BoundInv'
  <2>1. UNCHANGED <<scene, w, restarted>>
    BY <1>28, QuietFields DEF podVars
  <2>. QED
    BY <2>1 DEF BoundInv
<1>29. ASSUME TaskSync \/ TaskSchedule, UNCHANGED <<podVars, service>>
      PROVE  BoundInv'
  <2>1. UNCHANGED <<scene, w, restarted>>
    BY <1>29, UpdateStatusFields DEF podVars
  <2>. QED
    BY <2>1 DEF BoundInv
<1>30. ASSUME NEW b \in InScene, PodIsScheduled(b), UNCHANGED service
      PROVE  BoundInv'
  <2>1. UNCHANGED <<scene, w, restarted>>
    BY <1>30, PodIsScheduledFields DEF podVars
  <2>. QED
    BY <2>1 DEF BoundInv
<1>31. ASSUME NEW b \in InScene, PodStarts(b), UNCHANGED service
      PROVE  BoundInv'
  <2>1. UNCHANGED <<scene, w>> /\ restarted' = restarted \ {b}
    BY <1>31, PodStartsFields
  <2>2. \A x : Cardinality(restarted' \ {x}) <= Cardinality(restarted \ {x})
              /\ Cardinality(restarted' \ {x}) \in Nat /\ Cardinality(restarted \ {x}) \in Nat
    <3>1. ASSUME NEW x
          PROVE  /\ Cardinality(restarted' \ {x}) <= Cardinality(restarted \ {x})
                 /\ Cardinality(restarted' \ {x}) \in Nat /\ Cardinality(restarted \ {x}) \in Nat
      <4>1. /\ restarted \ {x} \in SUBSET Brokers /\ restarted' \ {x} \in SUBSET Brokers
            /\ restarted' \ {x} \in SUBSET (restarted \ {x})
        BY <2>1, RestartedFacts
      <4>. QED
        BY <4>1, FiniteBrokers, FS_Subset
    <3>. QED
      BY <3>1
  <2>3. /\ Cardinality(restarted') <= Cardinality(restarted)
        /\ Cardinality(restarted') \in Nat /\ Cardinality(restarted) \in Nat
    <3>1. /\ restarted \in SUBSET Brokers /\ restarted' \in SUBSET Brokers
          /\ restarted' \in SUBSET restarted
      BY <2>1, RestartedFacts
    <3>. QED
      BY <3>1, FiniteBrokers, FS_Subset
  <2>4. scene.limit \in Nat /\ scene.threshold \in Nat
    BY SceneNumbers
  <2>5. /\ Cardinality(restarted' \ {w'.broker}) <= Cardinality(restarted \ {w.broker})
        /\ Cardinality(restarted' \ {w'.broker}) \in Nat /\ Cardinality(restarted \ {w.broker}) \in Nat
    BY <2>1, <2>2
  <2>. QED
    BY <2>1, <2>3, <2>4, <2>5 DEF BoundInv
<1>32. ASSUME NEW b \in InScene, PodStops(b), UNCHANGED service
      PROVE  BoundInv'
  BY <1>32, PodStopsFields DEF BoundInv, volumeVars
<1>33. ASSUME NEW b \in InScene, CatchUp(b), UNCHANGED service
      PROVE  BoundInv'
  BY <1>33, CatchUpFields DEF BoundInv, objectVars, volumeVars
<1>34. ASSUME NEW b \in InScene, PodBreaks(b), UNCHANGED service
      PROVE  BoundInv'
  <2>1. UNCHANGED <<scene, w, restarted>>
    BY <1>34, PodBreaksFields
  <2>. QED
    BY <2>1 DEF BoundInv
<1>35. ASSUME NEW b \in InScene, NEW p \in Paths, ReleaseClaim(b, p), UNCHANGED <<podVars, service>>
      PROVE  BoundInv'
  BY <1>35, ReleaseClaimFields DEF BoundInv, objectVars, podVars
<1>36. ASSUME CountAlerts
      PROVE  BoundInv'
  BY <1>36, CountAlertsFields DEF BoundInv, volumeVars, podVars
<1>37. ASSUME NEW i \in Ingresses, AssignAddress(i), UNCHANGED <<volumeVars, podVars>>
      PROVE  BoundInv'
  BY <1>37, AssignAddressFields DEF BoundInv, objectVars, volumeVars, podVars
<1>38. CASE UNCHANGED vars
  BY <1>38 DEF BoundInv, vars, objectVars, volumeVars, podVars
<1>. QED
  BY <1>1, <1>2, <1>3, <1>4, <1>5, <1>6, <1>7, <1>8, <1>9, <1>10, <1>11, <1>12, <1>13, <1>14,
     <1>15, <1>16, <1>17, <1>18, <1>19, <1>20, <1>21, <1>22, <1>23, <1>24, <1>25, <1>26, <1>27,
     <1>28, <1>29, <1>30, <1>31, <1>32, <1>33, <1>34, <1>35, <1>36, <1>37, <1>38
  DEF Next, Worker, IngressStep, VolumeStep, PodStep, TaskStep, OpStep, OpEvent,
      QuietStep, Kube, UserStep

\* No broker is restarted at the start.
LEMMA InitBound ==
  ASSUME Init
  PROVE  DownInv /\ BoundInv
<1>1. w = Idle /\ restarted = {} /\ Types
  BY InitFacts, InitTypes
<1>2. w.pc = "idle"
  BY <1>1 DEF Idle
<1>3. Cardinality(restarted) = 0
  BY <1>1, FS_EmptySet
<1>4. scene.limit \in Nat \ {0} /\ scene.threshold \in Nat
  BY <1>1, SceneNumbers
<1>. QED
  BY <1>1, <1>2, <1>3, <1>4 DEF DownInv, BoundInv

\* Restarts are always counted and bounded.
LEMMA ClusterBound == Spec => [](Types /\ DownInv /\ BoundInv)
<1>1. Init => Types /\ DownInv /\ BoundInv
  BY InitTypes, InitBound
<1>2. Types /\ DownInv /\ BoundInv /\ [Next]_vars => (Types /\ DownInv /\ BoundInv)'
  BY TypesStep, DownStep, BoundStep
<1>. QED
  BY <1>1, <1>2, PTL DEF Spec

\* For any cluster, limit, threshold and racks, the rolling upgrade never has limit +
\* threshold brokers down at once, and with a limit above one all of them are in one rack,
\* when the pods are not read from a stale cache.
THEOREM ClusterRestartsBounded == Spec => []RestartsBounded
<1>1. BoundInv => RestartsBounded
  BY DEF BoundInv, RestartsBounded
<1>. QED
  BY <1>1, ClusterBound, PTL

-----------------------------------------------------------------------------
(* Addresses. *)

\* A load balancer keeps its address.
HasKept == \A i \in Ingresses : HasAddress(i) => HasAddress(i)'

\* An address that leads to a broker goes on leading there.
LeadKept ==
  \A b \in InScene, a \in WayAddresses : Leads(a, b) \/ Swept => (Leads(a, b) \/ Swept)'

\* The same for the address that was recorded for the broker.
RecordedKept ==
  \A b \in InScene, a \in WayAddresses :
    a \in {status.ingress[b], "node"} /\ (Leads(a, b) \/ Swept) => (Leads(a, b) \/ Swept)'

\* A broker or its map gets an address from the map or from the worker.
AddressesTaken ==
  /\ \A b \in InScene :
       /\ map'[b].exists => \/ map[b].exists /\ map'[b].address = map[b].address
                            \/ w.pc \in AddressedPcs /\ map'[b].address = w.address[b]
       /\ pod'[b].phase = "running" =>
            \/ pod[b].phase = "running" /\ pod'[b].address = pod[b].address
            \/ map[b].exists /\ pod'[b].address = map[b].address
  /\ w'.pc \in AddressedPcs => w.pc \in AddressedPcs /\ w'.address = w.address

\* What the sweep of the services depends on.
SweepKept ==
  /\ w.pc = "contour" => w'.pc = "contour" \/ ~Unspent("crash")'
  /\ Unspent("crash")' => Unspent("crash")

\* Addresses are told apart, and the status records ingresses.
LEMMA DoorFacts ==
  ASSUME Types
  PROVE  /\ WayAddresses \subseteq Doors \cup {"nowhere"} /\ "node" \notin Ingresses
         /\ "nowhere" \notin Ingresses
         /\ \A b \in Brokers : status.ingress[b] \in Ingresses \cup {""}
         /\ scene.way \in {"envoy", "istio", "contour", "nodeport"}
<1>1. "node" \notin Ingresses /\ "nowhere" \notin Ingresses
  BY IngressesAssumption
<1>2. scene.way \in {"envoy", "istio", "contour", "nodeport"}
  BY ScenesAssumption DEF Types
<1>3. \A b \in Brokers : status.ingress[b] \in Ingresses \cup {""}
  BY DEF Types, StatusOK
<1>4. WayAddresses \subseteq Doors \cup {"nowhere"}
  BY DEF WayAddresses, Doors
<1>. QED
  BY <1>1, <1>2, <1>3, <1>4

\* An address that leads to a broker does so whatever is recorded.
LEMMA SafeIsSafeNow ==
  ASSUME Types, NEW b \in Brokers, NEW a, Safe(a, b)
  PROVE  SafeNow(a, b)
BY DoorFacts DEF Safe, SafeNow

\* Where the services stay, addresses go on leading to their brokers.
LEMMA SameServices ==
  ASSUME UNCHANGED <<scene, service>>, SweepKept
  PROVE  HasKept /\ LeadKept
<1>1. HasKept
  BY DEF HasKept, HasAddress
<1>2. \A a, b : Leads(a, b)' = Leads(a, b)
  BY DEF Leads, LoadBalanced
<1>3. Swept => Swept'
  BY DEF Swept, SweepKept, At
<1>. QED
  BY <1>1, <1>2, <1>3 DEF LeadKept

\* An address stays given.
LEMMA GivenKept ==
  ASSUME UNCHANGED scene, HasKept, NEW a, Given(a)
  PROVE  Given(a)' /\ a \in WayAddresses
BY DEF Given, HasKept, WayAddresses

\* It stays safe.
LEMMA SafeKept ==
  ASSUME LeadKept, NEW b \in InScene, NEW a \in WayAddresses
  PROVE  /\ Safe(a, b) => Safe(a, b)'
         /\ status'.ingress = status.ingress /\ SafeNow(a, b) => SafeNow(a, b)'
BY DEF LeadKept, Safe, SafeNow

\* The recorded one stays safe.
LEMMA RecordedSafe ==
  ASSUME RecordedKept, UNCHANGED status, NEW b \in InScene, NEW a \in WayAddresses, SafeNow(a, b)
  PROVE  SafeNow(a, b)'
BY DEF RecordedKept, SafeNow

\* A step that takes addresses only from the map or the pass, and lets them lead on, keeps
\* the invariant.
LEMMA AddressKept ==
  ASSUME Types, AddressInv, UNCHANGED scene, HasKept, LeadKept, AddressesTaken,
         status'.ingress = status.ingress
  PROVE  AddressInv'
<1>1. InScene' = InScene /\ InScene \subseteq Brokers
  BY Frame
<1>2. ASSUME NEW b \in InScene, NEW a, Given(a), SafeNow(a, b)
      PROVE  Given(a)' /\ SafeNow(a, b)'
  BY <1>2, GivenKept, SafeKept
<1>3. ASSUME NEW b \in InScene, w.pc \in AddressedPcs, NEW a, a = w.address[b]
      PROVE  Given(a) /\ Given(a)' /\ Safe(a, b) /\ Safe(a, b)'
  <2>1. Given(a) /\ Safe(a, b)
    BY <1>3 DEF AddressInv
  <2>2. Given(a)' /\ a \in WayAddresses
    BY <2>1, GivenKept
  <2>3. Safe(a, b)'
    BY <2>1, <2>2, SafeKept
  <2>. QED
    BY <2>1, <2>2, <2>3
<1>4. ASSUME NEW b \in InScene, map'[b].exists, NEW a, a = map'[b].address
      PROVE  Given(a)' /\ SafeNow(a, b)'
  <2>1. CASE map[b].exists /\ map'[b].address = map[b].address
    BY <1>2, <1>4, <2>1 DEF AddressInv
  <2>2. CASE w.pc \in AddressedPcs /\ map'[b].address = w.address[b]
    <3>1. Given(a) /\ Safe(a, b)
      BY <1>3, <1>4, <2>2
    <3>. QED
      BY <1>1, <1>2, <3>1, SafeIsSafeNow
  <2>. QED
    BY <1>4, <2>1, <2>2 DEF AddressesTaken
<1>5. ASSUME NEW b \in InScene, pod'[b].phase = "running", NEW a, a = pod'[b].address
      PROVE  Given(a)' /\ SafeNow(a, b)'
  <2>1. Given(a) /\ SafeNow(a, b)
    BY <1>5 DEF AddressInv, AddressesTaken
  <2>. QED
    BY <1>2, <2>1
<1>6. w'.pc \in AddressedPcs => w.pc \in AddressedPcs /\ w'.address = w.address
  BY DEF AddressesTaken
<1>. QED
  BY <1>1, <1>3, <1>4, <1>5, <1>6 DEF AddressInv

\* So does a step of an ingress reconciler, which has to care for the recorded addresses
\* only: the pass knows none yet.
LEMMA AddressRecorded ==
  ASSUME Types, AddressInv, UNCHANGED <<scene, status, pod, map>>, HasKept, RecordedKept,
         w'.pc \notin AddressedPcs
  PROVE  AddressInv'
<1>1. InScene' = InScene
  BY Frame
<1>2. ASSUME NEW b \in InScene, NEW a, Given(a), SafeNow(a, b)
      PROVE  Given(a)' /\ SafeNow(a, b)'
  BY <1>2, GivenKept, RecordedSafe
<1>3. ASSUME NEW b \in InScene, map[b].exists
      PROVE  Given(map[b].address)' /\ SafeNow(map[b].address, b)'
  BY <1>2, <1>3 DEF AddressInv
<1>4. ASSUME NEW b \in InScene, pod[b].phase = "running"
      PROVE  Given(pod[b].address)' /\ SafeNow(pod[b].address, b)'
  BY <1>2, <1>4 DEF AddressInv
<1>. QED
  BY <1>1, <1>3, <1>4 DEF AddressInv

\* So does a step that leaves the services alone.
LEMMA AddressPlain ==
  ASSUME Types, AddressInv, UNCHANGED <<scene, service>>, status'.ingress = status.ingress,
         SweepKept, AddressesTaken
  PROVE  AddressInv'
BY AddressKept, SameServices

\* When another ingress is recorded, map and pod have the address of this pass.
LEMMA PodInSyncAddress ==
  ASSUME Types, MapInv, CreatedInv, CurrentInv, AddressInv, PodInSync, UNCHANGED service
  PROVE  AddressInv'
<1>1. /\ w.pc \in {"ingressIn", "configIn", "dynamicIn"} /\ UNCHANGED <<scene, pod, left, map>>
      /\ w'.pc \in {"configIn", "dynamicIn", "jmx"} /\ w'.address = w.address
      /\ \A b \in Brokers \ {w.broker} : status'.ingress[b] = status.ingress[b]
      /\ w.pc # "ingressIn" => status'.ingress = status.ingress
  BY PodInSyncFields DEF Writes, SameWork, podVars
<1>2. /\ InScene' = InScene /\ InScene \subseteq Brokers /\ w.broker \in InScene /\ w.pc \in AddressedPcs
      /\ w'.pc \in AddressedPcs
  BY <1>1, AtBroker, Frame DEF BrokerPcs, AddressedPcs
<1>3. SweepKept
  BY <1>1, UnspentKept, CountedEvents DEF SweepKept
<1>4. HasKept /\ LeadKept
  BY <1>1, <1>3, SameServices
<1>5. CASE w.pc # "ingressIn"
  <2>1. AddressesTaken
    BY <1>1, <1>2 DEF AddressesTaken
  <2>. QED
    BY <1>5, <1>1, <1>3, <2>1, AddressPlain
<1>6. ASSUME NEW b \in InScene, NEW a, a = w.address[b]
      PROVE  Given(a)' /\ Safe(a, b)' /\ SafeNow(a, b)'
  <2>1. Given(a) /\ Safe(a, b)
    BY <1>2, <1>6 DEF AddressInv
  <2>2. Given(a)' /\ Safe(a, b)'
    BY <1>1, <1>4, <2>1, GivenKept, SafeKept
  <2>3. status'.ingress[b] # "nowhere"
    <3>1. Types'
      BY PodInSyncTypes
    <3>2. \A c \in Brokers : status'.ingress[c] \in Ingresses \cup {""}
      BY <3>1 DEF Types, StatusOK
    <3>. QED
      BY <1>2, <3>2, IngressesAssumption
  <2>. QED
    BY <2>2, <2>3 DEF Safe, SafeNow
<1>7. ASSUME NEW b \in InScene, b # w.broker, NEW a, Given(a), SafeNow(a, b)
      PROVE  Given(a)' /\ SafeNow(a, b)'
  <2>1. Given(a)' /\ a \in WayAddresses
    BY <1>1, <1>4, <1>7, GivenKept
  <2>2. status'.ingress[b] = status.ingress[b]
    BY <1>1, <1>2, <1>7
  <2>. QED
    BY <1>4, <1>7, <2>1, <2>2 DEF LeadKept, SafeNow
<1>8. ASSUME w.pc = "ingressIn", NEW b \in InScene, map[b].exists, NEW a, a = map[b].address
      PROVE  Given(a)' /\ SafeNow(a, b)'
  <2>1. CASE b = w.broker
    BY <1>6, <1>8, <2>1 DEF CurrentInv
  <2>2. CASE b # w.broker
    BY <1>7, <1>8, <2>2 DEF AddressInv
  <2>. QED
    BY <2>1, <2>2
<1>9. ASSUME w.pc = "ingressIn", NEW b \in InScene, pod[b].phase = "running", NEW a, a = pod[b].address
      PROVE  Given(a)' /\ SafeNow(a, b)'
  <2>1. CASE b = w.broker
    <3>1. map[b].exists /\ a = map[b].address
      BY <1>2, <1>9, <2>1 DEF MapInv, CreatedInv
    <3>. QED
      BY <1>8, <1>9, <3>1
  <2>2. CASE b # w.broker
    BY <1>7, <1>9, <2>2 DEF AddressInv
  <2>. QED
    BY <2>1, <2>2
<1>. QED
  BY <1>5, <1>1, <1>2, <1>6, <1>8, <1>9 DEF AddressInv

\* The addresses of the pass are given and lead to the brokers: the reconcilers before have
\* seen to it.
LEMMA PublishListenersAddress ==
  ASSUME Types, AddressInv, ServiceInv, PublishListeners, UNCHANGED <<volumeVars, podVars>>
  PROVE  AddressInv'
<1>1. w.pc = "listeners" /\ UNCHANGED <<scene, status, pod, left, service, map>>
  BY PublishListenersFields DEF podVars
<1>2. CASE EndPass
  <2>1. w'.pc = "idle"
    BY <1>2, EndsPass DEF Ends
  <2>2. SweepKept /\ AddressesTaken
    BY <1>1, <2>1, UnspentKept, CountedEvents
    DEF SweepKept, AddressesTaken, AddressedPcs, ClaimPcs, BrokerPcs
  <2>. QED
    BY <1>1, <2>2, AddressPlain
<1>3. CASE /\ LoadBalanced => \A i \in InUse : HasAddress(i)
           /\ ListenerStatuses(w'.address) /\ w'.pc = "claims"
  <2>1. InScene' = InScene /\ InScene \subseteq Brokers
    BY <1>1, Frame
  <2>2. SweepKept
    BY <1>1, <1>3, UnspentKept, CountedEvents DEF SweepKept
  <2>3. HasKept /\ LeadKept
    BY <1>1, <2>2, SameServices
  <2>4. ASSUME NEW b \in InScene, NEW a, a = w'.address[b]
        PROVE  Given(a) /\ Safe(a, b)
    <3>1. PICK i \in InUse : ShouldIncludeBroker(w.cr, b, i) /\ a = BrokerHost(b, i)
      BY <1>3, <2>4 DEF ListenerStatuses
    <3>2. i \in Ingresses /\ b \in Included(i)
      BY <3>1 DEF InUse, InUseFor, Included
    <3>3. CASE scene.way = "nodeport"
      <4>1. a \in {"node", "nowhere"}
        BY <3>1, <3>3 DEF BrokerHost, NodeAddress
      <4>2. InScene \subseteq service["node"].ports
        BY <1>1, <3>3 DEF ServiceInv, LoadBalanced
      <4>. QED
        BY <3>3, <4>1, <4>2, DoorFacts DEF Given, Safe, WayAddresses, Leads, LoadBalanced
    <3>4. CASE LoadBalanced
      <4>1. a = i /\ HasAddress(i)
        BY <1>3, <3>1, <3>4 DEF BrokerHost, LoadBalanced
      <4>2. b \in service[i].ports /\ b \in service[i].routes
        BY <1>1, <3>1, <3>2, <3>4 DEF ServiceInv
      <4>. QED
        BY <3>2, <3>4, <4>1, <4>2 DEF Given, Safe, WayAddresses, Leads, LoadBalanced
    <3>5. CASE scene.way = "contour"
      <4>1. a = i /\ HasAddress(i)
        BY <1>1, <3>1, <3>5 DEF BrokerHost, ServiceInv
      <4>2. b \in service["node"].ports /\ b \in service[i].routes
        BY <1>1, <3>1, <3>5 DEF ServiceInv, LoadBalanced
      <4>. QED
        BY <3>2, <3>5, <4>1, <4>2 DEF Given, Safe, WayAddresses, Leads, LoadBalanced
    <3>. QED
      BY <3>3, <3>4, <3>5, DoorFacts DEF LoadBalanced
  <2>5. ASSUME NEW b \in InScene, NEW a, a = w'.address[b]
        PROVE  Given(a)' /\ Safe(a, b)'
    BY <1>1, <2>3, <2>4, <2>5, GivenKept, SafeKept
  <2>6. ASSUME NEW b \in InScene, NEW a, Given(a), SafeNow(a, b)
        PROVE  Given(a)' /\ SafeNow(a, b)'
    BY <1>1, <2>3, <2>6, GivenKept, SafeKept
  <2>7. ASSUME NEW b \in InScene, map[b].exists, NEW a, a = map[b].address
        PROVE  Given(a)' /\ SafeNow(a, b)'
    BY <2>6, <2>7 DEF AddressInv
  <2>8. ASSUME NEW b \in InScene, pod[b].phase = "running", NEW a, a = pod[b].address
        PROVE  Given(a)' /\ SafeNow(a, b)'
    BY <2>6, <2>8 DEF AddressInv
  <2>. QED
    BY <1>1, <2>1, <2>5, <2>7, <2>8 DEF AddressInv
<1>. QED
  BY <1>2, <1>3, PublishListenersFields

\* A new address of a load balancer changes none that there was.
LEMMA AssignAddressAddress ==
  ASSUME Types, AddressInv, NEW i \in Ingresses, AssignAddress(i), UNCHANGED <<volumeVars, podVars>>
  PROVE  AddressInv'
<1>1. /\ UNCHANGED <<scene, status, pod, left, map, w>>
      /\ \A j \in Doors : /\ service'[j].exists = service[j].exists
                          /\ service'[j].ports = service[j].ports
                          /\ service'[j].routes = service[j].routes
                          /\ service[j].address => service'[j].address
  BY AssignAddressFields DEF objectVars, podVars
<1>2. HasKept
  BY <1>1 DEF HasKept, HasAddress, Doors
<1>3. LeadKept
  <2>1. Swept' = Swept
    BY <1>1, UnspentKept, CountedEvents DEF Swept, At
  <2>2. ASSUME NEW b \in InScene, NEW a \in WayAddresses, Leads(a, b)
        PROVE  Leads(a, b)'
    <3>1. CASE LoadBalanced
      <4>1. a \in Ingresses /\ a \in Doors
        BY <3>1 DEF WayAddresses, LoadBalanced, Doors
      <4>. QED
        BY <1>1, <2>2, <3>1, <4>1 DEF Leads, LoadBalanced
    <3>2. CASE ~LoadBalanced
      BY <1>1, <2>2, <3>2 DEF Leads, LoadBalanced, Doors
    <3>. QED
      BY <3>1, <3>2
  <2>. QED
    BY <2>1, <2>2 DEF LeadKept
<1>4. AddressesTaken
  BY <1>1 DEF AddressesTaken
<1>. QED
  BY <1>1, <1>2, <1>3, <1>4, AddressKept

\* The ingress that is recorded for a broker is in use and includes it.
LEMMA RecordedInUse ==
  ASSUME Types, CopyInv, w.pc # "idle", NEW b \in InScene, status.ingress[b] \in Ingresses
  PROVE  status.ingress[b] \in InUse /\ b \in Included(status.ingress[b])
<1>1. w.cr.status.ingress[b] = status.ingress[b]
  BY DEF CopyInv
<1>. QED
  BY <1>1 DEF InUse, InUseFor, Included, IsIngressConfigInUse, ShouldIncludeBroker

\* The ports of the recorded ingresses stay, ...
LEMMA ReconcileIngressAddress ==
  ASSUME Types, CopyInv, AddressInv, ServiceInv, NEW i \in Ingresses, ReconcileIngress(i),
         UNCHANGED <<volumeVars, podVars>>
  PROVE  AddressInv'
<1>1. /\ w.pc = "ingress" /\ UNCHANGED <<scene, status, pod, left, map>> /\ w'.pc = "routes"
      /\ service'[i].exists = TRUE /\ service'[i].ports = Included(i)
      /\ service'[i].routes = service[i].routes /\ service'[i].address = service[i].address
      /\ \A j \in Doors \ {i} : service'[j] = service[j]
  BY ReconcileIngressFields DEF podVars
<1>2. LoadBalanced /\ ~Swept
  BY <1>1 DEF ServiceInv, Swept, LoadBalanced
<1>3. HasKept
  BY <1>1 DEF HasKept, HasAddress, Doors
<1>4. RecordedKept
  <2>1. ASSUME NEW b \in InScene, NEW a \in WayAddresses, a \in {status.ingress[b], "node"},
               Leads(a, b)
        PROVE  Leads(a, b)'
    <3>1. a \in Ingresses /\ a = status.ingress[b] /\ a \in Doors
      BY <1>2, <2>1, DoorFacts DEF WayAddresses, LoadBalanced, Doors
    <3>2. a \in InUse /\ b \in Included(a)
      BY <1>1, <3>1, RecordedInUse
    <3>. QED
      BY <1>1, <1>2, <2>1, <3>1, <3>2 DEF Leads, LoadBalanced
  <2>. QED
    BY <1>2, <2>1 DEF RecordedKept
<1>. QED
  BY <1>1, <1>3, <1>4, AddressRecorded DEF AddressedPcs, ClaimPcs, BrokerPcs

\* ... their routes stay, ...
LEMMA ReconcileRoutesAddress ==
  ASSUME Types, CopyInv, AddressInv, ServiceInv, ReconcileRoutes, UNCHANGED <<volumeVars, podVars>>
  PROVE  AddressInv'
<1>1. /\ w.pc = "routes" /\ UNCHANGED <<scene, status, pod, left, map>>
      /\ w'.pc \in {"ingress", "listeners"}
      /\ service'[w.door].exists = service[w.door].exists
      /\ service'[w.door].ports = service[w.door].ports /\ service'[w.door].routes = Included(w.door)
      /\ service'[w.door].address = service[w.door].address
      /\ \A j \in Doors \ {w.door} : service'[j] = service[j]
  BY ReconcileRoutesFields, GoesTo DEF podVars, Goes
<1>2. LoadBalanced /\ ~Swept
  BY <1>1 DEF ServiceInv, Swept, LoadBalanced
<1>3. HasKept
  BY <1>1 DEF HasKept, HasAddress, Doors
<1>4. RecordedKept
  <2>1. ASSUME NEW b \in InScene, NEW a \in WayAddresses, a \in {status.ingress[b], "node"},
               Leads(a, b)
        PROVE  Leads(a, b)'
    <3>1. a \in Ingresses /\ a = status.ingress[b] /\ a \in Doors
      BY <1>2, <2>1, DoorFacts DEF WayAddresses, LoadBalanced, Doors
    <3>2. a \in InUse /\ b \in Included(a)
      BY <1>1, <3>1, RecordedInUse
    <3>. QED
      BY <1>1, <1>2, <2>1, <3>1, <3>2 DEF Leads, LoadBalanced
  <2>. QED
    BY <1>2, <2>1 DEF RecordedKept
<1>. QED
  BY <1>1, <1>3, <1>4, AddressRecorded DEF AddressedPcs, ClaimPcs, BrokerPcs

\* ... the ports of the nodes stay, or contour sweeps, ...
LEMMA ReconcileNodePortsAddress ==
  ASSUME Types, AddressInv, ServiceInv, ReconcileNodePorts, UNCHANGED <<volumeVars, podVars>>
  PROVE  AddressInv'
<1>1. /\ w.pc = "nodeports" /\ UNCHANGED <<scene, status, pod, left, map>>
      /\ w'.pc = IF scene.way = "contour" THEN "contour" ELSE "listeners"
      /\ \A i \in Doors : /\ service'[i].exists = service[i].exists
                          /\ service'[i].address = service[i].address
                          /\ service'[i].routes = service[i].routes
      /\ NodePorts \subseteq service'["node"].ports
      /\ ~scene.cleanup => service["node"].ports \subseteq service'["node"].ports
  BY ReconcileNodePortsFields, GoesTo DEF podVars, Goes
<1>2. ~LoadBalanced
  BY <1>1 DEF ServiceInv
<1>3. HasKept
  BY <1>1 DEF HasKept, HasAddress, Doors
<1>4. RecordedKept
  <2>1. CASE scene.way = "contour" /\ scene.cleanup
    <3>1. Swept'
      BY <1>1, <2>1 DEF Swept, At
    <3>. QED
      BY <3>1 DEF RecordedKept
  <2>2. CASE ~(scene.way = "contour" /\ scene.cleanup)
    <3>1. ~Swept
      BY <2>2 DEF Swept
    <3>2. ASSUME NEW b \in InScene, b \in service["node"].ports
          PROVE  b \in service'["node"].ports
      <4>1. CASE scene.way = "contour"
        BY <1>1, <2>2, <3>2, <4>1
      <4>2. CASE scene.way = "nodeport"
        BY <1>1, <4>2 DEF NodePorts
      <4>. QED
        BY <1>2, <4>1, <4>2, DoorFacts DEF LoadBalanced
    <3>3. ASSUME NEW b \in InScene, NEW a \in WayAddresses, Leads(a, b)
          PROVE  Leads(a, b)'
      BY <1>1, <1>2, <3>2, <3>3 DEF Leads, LoadBalanced, Doors
    <3>. QED
      BY <3>1, <3>3 DEF RecordedKept
  <2>. QED
    BY <2>1, <2>2
<1>. QED
  BY <1>1, <1>3, <1>4, AddressRecorded DEF AddressedPcs, ClaimPcs, BrokerPcs

\* ... and contour makes again what it has swept.
LEMMA ReconcileContourAddress ==
  ASSUME Types, CopyInv, AddressInv, ServiceInv, ReconcileContour, UNCHANGED <<volumeVars, podVars>>
  PROVE  AddressInv'
<1>1. /\ w.pc = "contour" /\ UNCHANGED <<scene, status, pod, left, map>> /\ w'.pc = "listeners"
      /\ service'["node"].ports = InScene
      /\ \A i \in Doors : i # "node" =>
           IF i \in InUse
           THEN /\ service'[i].exists = TRUE /\ service'[i].address = TRUE
                /\ service'[i].routes = InScene /\ service'[i].ports = service[i].ports
           ELSE service'[i] = service[i]
  BY ReconcileContourFields, GoesTo DEF podVars, Goes
<1>2. scene.way = "contour"
  BY <1>1 DEF ServiceInv
<1>3. HasKept
  BY <1>1, DoorFacts DEF HasKept, HasAddress, Doors
<1>4. RecordedKept
  <2>1. ASSUME NEW b \in InScene, NEW a \in WayAddresses, a \in {status.ingress[b], "node"}
        PROVE  Leads(a, b)'
    <3>1. a \in Ingresses /\ a = status.ingress[b] /\ a \in Doors /\ a # "node"
      BY <1>2, <2>1, DoorFacts DEF WayAddresses, Doors
    <3>2. a \in InUse
      BY <1>1, <3>1, RecordedInUse
    <3>. QED
      BY <1>1, <1>2, <3>1, <3>2 DEF Leads, LoadBalanced
  <2>. QED
    BY <2>1 DEF RecordedKept
<1>. QED
  BY <1>1, <1>3, <1>4, AddressRecorded DEF AddressedPcs, ClaimPcs, BrokerPcs

\* Every step keeps the addresses leading to their brokers.
LEMMA AddressStep ==
  ASSUME Types, CopyInv, MapInv, CreatedInv, CurrentInv, ServiceInv, AddressInv, [Next]_vars
  PROVE  AddressInv'
<1>1. ASSUME StartPass, UNCHANGED <<volumeVars, podVars>>
      PROVE  AddressInv'
  <2>1. UNCHANGED <<scene, service>> /\ status'.ingress = status.ingress /\ w.pc = "idle"
        /\ UNCHANGED <<pod, left, map>> /\ w'.pc \in {"ingress", "nodeports"}
    BY <1>1, StartPassFields, StartPassCopy DEF podVars
  <2>2. SweepKept
    BY <2>1, UnspentKept, CountedEvents DEF SweepKept
  <2>3. AddressesTaken
    BY <2>1 DEF AddressesTaken, AddressedPcs, ClaimPcs, BrokerPcs
  <2>. QED
    BY <2>1, <2>2, <2>3, AddressPlain
<1>2. ASSUME NEW i \in Ingresses, ReconcileIngress(i), UNCHANGED <<volumeVars, podVars>>
      PROVE  AddressInv'
  BY <1>2, ReconcileIngressAddress
<1>3. ASSUME ReconcileRoutes, UNCHANGED <<volumeVars, podVars>>
      PROVE  AddressInv'
  BY <1>3, ReconcileRoutesAddress
<1>4. ASSUME ReconcileNodePorts, UNCHANGED <<volumeVars, podVars>>
      PROVE  AddressInv'
  BY <1>4, ReconcileNodePortsAddress
<1>5. ASSUME ReconcileContour, UNCHANGED <<volumeVars, podVars>>
      PROVE  AddressInv'
  BY <1>5, ReconcileContourAddress
<1>6. ASSUME PublishListeners, UNCHANGED <<volumeVars, podVars>>
      PROVE  AddressInv'
  BY <1>6, PublishListenersAddress
<1>7. ASSUME NEW b \in Brokers, NEW p \in Paths, DeleteClaim(b, p), UNCHANGED <<podVars, service>>
      PROVE  AddressInv'
  <2>1. UNCHANGED <<scene, service>> /\ status'.ingress = status.ingress
    BY <1>7, DeleteClaimFields DEF podVars
  <2>2. SweepKept
    BY <1>7, DeleteClaimFields, UnspentKept, CountedEvents DEF SweepKept, podVars
  <2>3. AddressesTaken
    BY <1>7, DeleteClaimFields, SceneFacts
    DEF AddressesTaken, podVars, AddressedPcs, ClaimPcs, BrokerPcs, Types
  <2>. QED
    BY <2>1, <2>2, <2>3, AddressPlain
<1>8. ASSUME NEW b \in Brokers, ReconcileClaims(b), UNCHANGED <<podVars, service>>
      PROVE  AddressInv'
  <2>1. UNCHANGED <<scene, service>> /\ status'.ingress = status.ingress
    BY <1>8, ReconcileClaimsFields DEF podVars
  <2>2. SweepKept
    BY <1>8, ReconcileClaimsFields, UnspentKept, CountedEvents DEF SweepKept, podVars
  <2>3. AddressesTaken
    BY <1>8, ReconcileClaimsFields, SceneFacts
    DEF AddressesTaken, podVars, AddressedPcs, ClaimPcs, BrokerPcs, Types
  <2>. QED
    BY <2>1, <2>2, <2>3, AddressPlain
<1>9. ASSUME ForgetVolume, UNCHANGED <<podVars, service>>
      PROVE  AddressInv'
  <2>1. UNCHANGED <<scene, service>> /\ status'.ingress = status.ingress
    BY <1>9, ForgetVolumeEffect DEF SameWork, Writes, volumeVars, podVars
  <2>2. SweepKept
    BY <1>9, ForgetVolumeEffect, UnspentKept, CountedEvents
    DEF SweepKept, SameWork, Writes, volumeVars, podVars
  <2>3. AddressesTaken
    BY <1>9, ForgetVolumeEffect, SceneFacts
    DEF AddressesTaken, SameWork, Writes, volumeVars, podVars, AddressedPcs, ClaimPcs, BrokerPcs,
       Types
  <2>. QED
    BY <2>1, <2>2, <2>3, AddressPlain
<1>10. ASSUME MarkVolumes, UNCHANGED <<podVars, service>>
      PROVE  AddressInv'
  <2>1. UNCHANGED <<scene, service>> /\ status'.ingress = status.ingress
    BY <1>10, MarkVolumesTypes DEF SameWork, volumeVars, podVars
  <2>2. SweepKept
    BY <1>10, MarkVolumesTypes, UnspentKept, CountedEvents
    DEF SweepKept, SameWork, volumeVars, podVars
  <2>3. AddressesTaken
    BY <1>10, MarkVolumesTypes, SceneFacts
    DEF AddressesTaken, SameWork, volumeVars, podVars, AddressedPcs, ClaimPcs, BrokerPcs, Types
  <2>. QED
    BY <2>1, <2>2, <2>3, AddressPlain
<1>11. ASSUME ListBrokers, UNCHANGED service
      PROVE  AddressInv'
  <2>1. UNCHANGED <<scene, service>> /\ status'.ingress = status.ingress
    BY <1>11, ListBrokersEffect DEF volumeVars, podVars
  <2>2. SweepKept
    BY <1>11, ListBrokersEffect, UnspentKept, CountedEvents DEF SweepKept, volumeVars, podVars
  <2>3. AddressesTaken
    BY <1>11, ListBrokersEffect, SceneFacts
    DEF AddressesTaken, volumeVars, podVars, AddressedPcs, ClaimPcs, BrokerPcs, Types
  <2>. QED
    BY <2>1, <2>2, <2>3, AddressPlain
<1>12. ASSUME OrderBrokers, UNCHANGED service
      PROVE  AddressInv'
  <2>1. UNCHANGED <<scene, service>> /\ status'.ingress = status.ingress
    BY <1>12, OrderBrokersEffect DEF volumeVars, podVars
  <2>2. SweepKept
    BY <1>12, OrderBrokersEffect, UnspentKept, CountedEvents DEF SweepKept, volumeVars, podVars
  <2>3. AddressesTaken
    BY <1>12, OrderBrokersEffect, SceneFacts
    DEF AddressesTaken, volumeVars, podVars, AddressedPcs, ClaimPcs, BrokerPcs, Types
  <2>. QED
    BY <2>1, <2>2, <2>3, AddressPlain
<1>13. ASSUME ReconcileMap, UNCHANGED service
      PROVE  AddressInv'
  <2>1. UNCHANGED <<scene, service>> /\ status'.ingress = status.ingress
    BY <1>13, ReconcileMapFields DEF SameWork, Goes, volumeVars
  <2>2. SweepKept
    BY <1>13, ReconcileMapFields, UnspentKept, CountedEvents
    DEF SweepKept, SameWork, Goes, volumeVars
  <2>3. AddressesTaken
    BY <1>13, ReconcileMapFields, AtBroker, SceneFacts
    DEF AddressesTaken, SameWork, Goes, volumeVars, AddressedPcs, ClaimPcs, BrokerPcs, Types
  <2>. QED
    BY <2>1, <2>2, <2>3, AddressPlain
<1>14. ASSUME ConfigOutOfSync, UNCHANGED service
      PROVE  AddressInv'
  <2>1. UNCHANGED <<scene, service>> /\ status'.ingress = status.ingress
    BY <1>14, ConfigOutOfSyncFields DEF SameWork, Goes, Writes, volumeVars, podVars
  <2>2. SweepKept
    BY <1>14, ConfigOutOfSyncFields, UnspentKept, CountedEvents
    DEF SweepKept, SameWork, Goes, Writes, volumeVars, podVars
  <2>3. AddressesTaken
    BY <1>14, ConfigOutOfSyncFields, SceneFacts
    DEF AddressesTaken, SameWork, Goes, Writes, volumeVars, podVars, AddressedPcs, ClaimPcs,
       BrokerPcs, Types
  <2>. QED
    BY <2>1, <2>2, <2>3, AddressPlain
<1>15. ASSUME ReconcilePod, UNCHANGED service
      PROVE  AddressInv'
  <2>1. UNCHANGED <<scene, service>> /\ status'.ingress = status.ingress
    BY <1>15, ReconcilePodFields DEF SameWork, Goes, Ends, volumeVars, podVars
  <2>2. SweepKept
    BY <1>15, ReconcilePodFields, UnspentKept, CountedEvents
    DEF SweepKept, SameWork, Goes, Ends, volumeVars, podVars
  <2>3. AddressesTaken
    BY <1>15, ReconcilePodFields, SceneFacts
    DEF AddressesTaken, SameWork, Goes, Ends, volumeVars, podVars, AddressedPcs, ClaimPcs,
       BrokerPcs, Types
  <2>. QED
    BY <2>1, <2>2, <2>3, AddressPlain
<1>16. ASSUME PodInSync, UNCHANGED service
      PROVE  AddressInv'
  BY <1>16, PodInSyncAddress
<1>17. ASSUME WriteRack, UNCHANGED service
      PROVE  AddressInv'
  <2>1. UNCHANGED <<scene, service>> /\ status'.ingress = status.ingress
    BY <1>17, WriteRackEffect DEF SameWork, Ends, volumeVars, podVars
  <2>2. SweepKept
    BY <1>17, WriteRackEffect, UnspentKept, CountedEvents
    DEF SweepKept, SameWork, Ends, volumeVars, podVars
  <2>3. AddressesTaken
    BY <1>17, WriteRackEffect, SceneFacts
    DEF AddressesTaken, SameWork, Ends, volumeVars, podVars, AddressedPcs, ClaimPcs, BrokerPcs,
       Types
  <2>. QED
    BY <2>1, <2>2, <2>3, AddressPlain
<1>18. ASSUME WriteRackStatus, UNCHANGED service
      PROVE  AddressInv'
  <2>1. UNCHANGED <<scene, service>> /\ status'.ingress = status.ingress
    BY <1>18, WriteRackStatusFields DEF SameWork, Writes, volumeVars, podVars
  <2>2. SweepKept
    BY <1>18, WriteRackStatusFields, UnspentKept, CountedEvents
    DEF SweepKept, SameWork, Writes, volumeVars, podVars
  <2>3. AddressesTaken
    BY <1>18, WriteRackStatusFields, SceneFacts
    DEF AddressesTaken, SameWork, Writes, volumeVars, podVars, AddressedPcs, ClaimPcs, BrokerPcs,
       Types
  <2>. QED
    BY <2>1, <2>2, <2>3, AddressPlain
<1>19. ASSUME CompareBroker, UNCHANGED service
      PROVE  AddressInv'
  <2>1. UNCHANGED <<scene, service>> /\ status'.ingress = status.ingress
    BY <1>19, CompareBrokerFields DEF SameStatus, SameWork, Goes, Writes, volumeVars, podVars
  <2>2. SweepKept
    BY <1>19, CompareBrokerFields, UnspentKept, CountedEvents
    DEF SweepKept, SameStatus, SameWork, Goes, Writes, volumeVars, podVars
  <2>3. AddressesTaken
    BY <1>19, CompareBrokerFields, SceneFacts
    DEF AddressesTaken, SameStatus, SameWork, Goes, Writes, volumeVars, podVars, AddressedPcs,
       ClaimPcs, BrokerPcs, Types
  <2>. QED
    BY <2>1, <2>2, <2>3, AddressPlain
<1>20. ASSUME CheckUpgrade, UNCHANGED service
      PROVE  AddressInv'
  <2>1. UNCHANGED <<scene, service>> /\ status'.ingress = status.ingress
    BY <1>20, CheckUpgradeFields DEF SameWork, Goes, Ends, volumeVars, podVars
  <2>2. SweepKept
    BY <1>20, CheckUpgradeFields, UnspentKept, CountedEvents
    DEF SweepKept, SameWork, Goes, Ends, volumeVars, podVars
  <2>3. AddressesTaken
    BY <1>20, CheckUpgradeFields, SceneFacts
    DEF AddressesTaken, SameWork, Goes, Ends, volumeVars, podVars, AddressedPcs, ClaimPcs,
       BrokerPcs, Types
  <2>. QED
    BY <2>1, <2>2, <2>3, AddressPlain
<1>21. ASSUME DeletePod, UNCHANGED service
      PROVE  AddressInv'
  <2>1. UNCHANGED <<scene, service>> /\ status'.ingress = status.ingress
    BY <1>21, DeletePodEffect DEF SameWork, Goes, Ends, volumeVars
  <2>2. SweepKept
    BY <1>21, DeletePodEffect, UnspentKept, CountedEvents
    DEF SweepKept, SameWork, Goes, Ends, volumeVars
  <2>3. AddressesTaken
    BY <1>21, DeletePodEffect, SceneFacts
    DEF AddressesTaken, SameWork, Goes, Ends, volumeVars, AddressedPcs, ClaimPcs, BrokerPcs, Types
  <2>. QED
    BY <2>1, <2>2, <2>3, AddressPlain
<1>22. ASSUME AskVersion, UNCHANGED service
      PROVE  AddressInv'
  <2>1. UNCHANGED <<scene, service>> /\ status'.ingress = status.ingress
    BY <1>22, AskVersionFields DEF SameStatus, SameWork, Writes, Ends, volumeVars, podVars
  <2>2. SweepKept
    BY <1>22, AskVersionFields, UnspentKept, CountedEvents
    DEF SweepKept, SameStatus, SameWork, Writes, Ends, volumeVars, podVars
  <2>3. AddressesTaken
    BY <1>22, AskVersionFields, SceneFacts
    DEF AddressesTaken, SameStatus, SameWork, Writes, Ends, volumeVars, podVars, AddressedPcs,
       ClaimPcs, BrokerPcs, Types
  <2>. QED
    BY <2>1, <2>2, <2>3, AddressPlain
<1>23. ASSUME ReconcileDynamic \/ AlterDynamic \/ DynamicInSync, UNCHANGED service
      PROVE  AddressInv'
  <2>1. UNCHANGED <<scene, service>> /\ status'.ingress = status.ingress
    BY <1>23, DynamicEffect DEF SameStatus, SameWork, volumeVars, podVars
  <2>2. SweepKept
    BY <1>23, DynamicEffect, UnspentKept, CountedEvents
    DEF SweepKept, SameStatus, SameWork, volumeVars, podVars
  <2>3. AddressesTaken
    BY <1>23, DynamicEffect, AtBroker, SceneFacts
    DEF AddressesTaken, SameStatus, SameWork, volumeVars, podVars, AddressedPcs, ClaimPcs,
       BrokerPcs, MapInv, Types
  <2>. QED
    BY <2>1, <2>2, <2>3, AddressPlain
<1>24. ASSUME FinishPass, UNCHANGED service
      PROVE  AddressInv'
  <2>1. UNCHANGED <<scene, service>> /\ status'.ingress = status.ingress
    BY <1>24, FinishPassFields DEF SameStatus, Ends, volumeVars, podVars
  <2>2. SweepKept
    BY <1>24, FinishPassFields, UnspentKept, CountedEvents
    DEF SweepKept, SameStatus, Ends, volumeVars, podVars
  <2>3. AddressesTaken
    BY <1>24, FinishPassFields, SceneFacts
    DEF AddressesTaken, SameStatus, Ends, volumeVars, podVars, AddressedPcs, ClaimPcs, BrokerPcs,
       Types
  <2>. QED
    BY <2>1, <2>2, <2>3, AddressPlain
<1>25. ASSUME Crash
      PROVE  AddressInv'
  <2>1. UNCHANGED <<scene, service>> /\ status'.ingress = status.ingress
    BY <1>25, CrashFields DEF volumeVars, podVars
  <2>2. SweepKept
    BY <1>25, CrashFields, UnspentKept, CountedEvents DEF SweepKept, volumeVars, podVars
  <2>3. AddressesTaken
    BY <1>25, CrashFields, SceneFacts
    DEF AddressesTaken, volumeVars, podVars, AddressedPcs, ClaimPcs, BrokerPcs, Types
  <2>. QED
    BY <2>1, <2>2, <2>3, AddressPlain
<1>26. ASSUME EditVersion \/ \E b \in InScene : EditConfig(b) \/ EditIngress(b) \/ EditDisks(b)
      PROVE  AddressInv'
  <2>1. UNCHANGED <<scene, service>> /\ status'.ingress = status.ingress
    BY <1>26, EditFields DEF volumeVars, podVars
  <2>2. SweepKept
    BY <1>26, EditFields, UnspentKept, CountedEvents DEF SweepKept, volumeVars, podVars
  <2>3. AddressesTaken
    BY <1>26, EditFields, SceneFacts
    DEF AddressesTaken, volumeVars, podVars, AddressedPcs, ClaimPcs, BrokerPcs, Types
  <2>. QED
    BY <2>1, <2>2, <2>3, AddressPlain
<1>27. ASSUME NEW b \in InScene, TaintPod(b)
      PROVE  AddressInv'
  <2>1. UNCHANGED <<scene, service>> /\ status'.ingress = status.ingress
    BY <1>27, TaintPodFields DEF volumeVars, podVars
  <2>2. SweepKept
    BY <1>27, TaintPodFields, UnspentKept, CountedEvents DEF SweepKept, volumeVars, podVars
  <2>3. AddressesTaken
    BY <1>27, TaintPodFields, SceneFacts
    DEF AddressesTaken, volumeVars, podVars, AddressedPcs, ClaimPcs, BrokerPcs, Types
  <2>. QED
    BY <2>1, <2>2, <2>3, AddressPlain
<1>28. ASSUME QuietStep, UNCHANGED <<podVars, service>>
      PROVE  AddressInv'
  <2>1. UNCHANGED <<scene, service>> /\ status'.ingress = status.ingress
    BY <1>28, QuietFields DEF podVars
  <2>2. SweepKept
    BY <1>28, QuietFields, UnspentKept, CountedEvents DEF SweepKept, podVars
  <2>3. AddressesTaken
    BY <1>28, QuietFields, SceneFacts
    DEF AddressesTaken, podVars, AddressedPcs, ClaimPcs, BrokerPcs, Types
  <2>. QED
    BY <2>1, <2>2, <2>3, AddressPlain
<1>29. ASSUME TaskSync \/ TaskSchedule, UNCHANGED <<podVars, service>>
      PROVE  AddressInv'
  <2>1. UNCHANGED <<scene, service>> /\ status'.ingress = status.ingress
    BY <1>29, UpdateStatusFields DEF podVars
  <2>2. SweepKept
    BY <1>29, UpdateStatusFields, UnspentKept, CountedEvents DEF SweepKept, podVars
  <2>3. AddressesTaken
    BY <1>29, UpdateStatusFields, SceneFacts
    DEF AddressesTaken, podVars, AddressedPcs, ClaimPcs, BrokerPcs, Types
  <2>. QED
    BY <2>1, <2>2, <2>3, AddressPlain
<1>30. ASSUME NEW b \in InScene, PodIsScheduled(b), UNCHANGED service
      PROVE  AddressInv'
  <2>1. UNCHANGED <<scene, service>> /\ status'.ingress = status.ingress
    BY <1>30, PodIsScheduledFields DEF podVars
  <2>2. SweepKept
    BY <1>30, PodIsScheduledFields, UnspentKept, CountedEvents DEF SweepKept, podVars
  <2>3. AddressesTaken
    BY <1>30, PodIsScheduledFields, SceneFacts
    DEF AddressesTaken, podVars, AddressedPcs, ClaimPcs, BrokerPcs, Types
  <2>. QED
    BY <2>1, <2>2, <2>3, AddressPlain
<1>31. ASSUME NEW b \in InScene, PodStarts(b), UNCHANGED service
      PROVE  AddressInv'
  <2>1. UNCHANGED <<scene, service>> /\ status'.ingress = status.ingress
    BY <1>31, PodStartsFields DEF volumeVars
  <2>2. SweepKept
    BY <1>31, PodStartsFields, UnspentKept, CountedEvents DEF SweepKept, volumeVars
  <2>3. AddressesTaken
    BY <1>31, PodStartsFields, SceneFacts
    DEF AddressesTaken, volumeVars, AddressedPcs, ClaimPcs, BrokerPcs, Types
  <2>. QED
    BY <2>1, <2>2, <2>3, AddressPlain
<1>32. ASSUME NEW b \in InScene, PodStops(b), UNCHANGED service
      PROVE  AddressInv'
  <2>1. UNCHANGED <<scene, service>> /\ status'.ingress = status.ingress
    BY <1>32, PodStopsFields DEF volumeVars
  <2>2. SweepKept
    BY <1>32, PodStopsFields, UnspentKept, CountedEvents DEF SweepKept, volumeVars
  <2>3. AddressesTaken
    BY <1>32, PodStopsFields, SceneFacts
    DEF AddressesTaken, volumeVars, AddressedPcs, ClaimPcs, BrokerPcs, Types
  <2>. QED
    BY <2>1, <2>2, <2>3, AddressPlain
<1>33. ASSUME NEW b \in InScene, CatchUp(b), UNCHANGED service
      PROVE  AddressInv'
  <2>1. UNCHANGED <<scene, service>> /\ status'.ingress = status.ingress
    BY <1>33, CatchUpFields DEF objectVars, volumeVars
  <2>2. SweepKept
    BY <1>33, CatchUpFields, UnspentKept, CountedEvents DEF SweepKept, objectVars, volumeVars
  <2>3. AddressesTaken
    BY <1>33, CatchUpFields, SceneFacts
    DEF AddressesTaken, objectVars, volumeVars, AddressedPcs, ClaimPcs, BrokerPcs, Types
  <2>. QED
    BY <2>1, <2>2, <2>3, AddressPlain
<1>34. ASSUME NEW b \in InScene, PodBreaks(b), UNCHANGED service
      PROVE  AddressInv'
  <2>1. UNCHANGED <<scene, service>> /\ status'.ingress = status.ingress
    BY <1>34, PodBreaksFields DEF volumeVars
  <2>2. SweepKept
    BY <1>34, PodBreaksFields, UnspentKept, CountedEvents DEF SweepKept, volumeVars
  <2>3. AddressesTaken
    BY <1>34, PodBreaksFields, SceneFacts
    DEF AddressesTaken, volumeVars, AddressedPcs, ClaimPcs, BrokerPcs, Types
  <2>. QED
    BY <2>1, <2>2, <2>3, AddressPlain
<1>35. ASSUME NEW b \in InScene, NEW p \in Paths, ReleaseClaim(b, p), UNCHANGED <<podVars, service>>
      PROVE  AddressInv'
  <2>1. UNCHANGED <<scene, service>> /\ status'.ingress = status.ingress
    BY <1>35, ReleaseClaimFields DEF objectVars, podVars
  <2>2. SweepKept
    BY <1>35, ReleaseClaimFields, UnspentKept, CountedEvents DEF SweepKept, objectVars, podVars
  <2>3. AddressesTaken
    BY <1>35, ReleaseClaimFields, SceneFacts
    DEF AddressesTaken, objectVars, podVars, AddressedPcs, ClaimPcs, BrokerPcs, Types
  <2>. QED
    BY <2>1, <2>2, <2>3, AddressPlain
<1>36. ASSUME CountAlerts
      PROVE  AddressInv'
  <2>1. UNCHANGED <<scene, service>> /\ status'.ingress = status.ingress
    BY <1>36, CountAlertsFields DEF volumeVars, podVars
  <2>2. SweepKept
    BY <1>36, CountAlertsFields, UnspentKept, CountedEvents
    DEF SweepKept, volumeVars, podVars
  <2>3. AddressesTaken
    BY <1>36, CountAlertsFields, SceneFacts
    DEF AddressesTaken, volumeVars, podVars, AddressedPcs, ClaimPcs, BrokerPcs, Types
  <2>. QED
    BY <2>1, <2>2, <2>3, AddressPlain
<1>37. ASSUME NEW i \in Ingresses, AssignAddress(i), UNCHANGED <<volumeVars, podVars>>
      PROVE  AddressInv'
  BY <1>37, AssignAddressAddress
<1>38. CASE UNCHANGED vars
  <2>1. UNCHANGED <<scene, service, status, map, pod, w, left>>
    BY <1>38 DEF vars, objectVars, podVars
  <2>2. SweepKept /\ AddressesTaken
    BY <2>1, UnspentKept, CountedEvents DEF SweepKept, AddressesTaken
  <2>. QED
    BY <2>1, <2>2, AddressPlain
<1>. QED
  BY <1>1, <1>2, <1>3, <1>4, <1>5, <1>6, <1>7, <1>8, <1>9, <1>10, <1>11, <1>12, <1>13, <1>14,
     <1>15, <1>16, <1>17, <1>18, <1>19, <1>20, <1>21, <1>22, <1>23, <1>24, <1>25, <1>26, <1>27,
     <1>28, <1>29, <1>30, <1>31, <1>32, <1>33, <1>34, <1>35, <1>36, <1>37, <1>38
  DEF Next, Worker, IngressStep, VolumeStep, PodStep, TaskStep, OpStep, OpEvent,
      QuietStep, Kube, UserStep

\* Where the ingress reconcilers are at work.
IngressPcs == {"ingress", "routes", "nodeports", "contour", "listeners"}

\* Elsewhere there is nothing to keep.
LEMMA ServiceAway ==
  ASSUME w'.pc \notin IngressPcs
  PROVE  ServiceInv'
BY DEF ServiceInv, IngressPcs

\* A step that leaves worker and services alone keeps what they have made.
LEMMA ServiceSame ==
  ASSUME ServiceInv, UNCHANGED <<scene, w, service>>
  PROVE  ServiceInv'
<1>1. InUse' = InUse /\ \A i : Included(i)' = Included(i) /\ HasAddress(i)' = HasAddress(i)
  BY DEF InUse, InUseFor, Included, IsIngressConfigInUse, ShouldIncludeBroker, InScene, HasAddress
<1>. QED
  BY <1>1 DEF ServiceInv, LoadBalanced, InScene

\* The ingresses in use depend on the copy only.
LEMMA GoesInUse ==
  ASSUME UNCHANGED scene, w'.cr = w.cr
  PROVE  InUse' = InUse /\ (\A i : Included(i)' = Included(i)) /\ InScene' = InScene
BY DEF InUse, InUseFor, Included, IsIngressConfigInUse, ShouldIncludeBroker, InScene

\* An ingress in use is a door, and not the one of the nodes.
LEMMA InUseDoors ==
  ASSUME Types
  PROVE  InUse \subseteq Doors /\ "node" \notin InUse
BY DoorFacts DEF InUse, InUseFor, Doors

\* A pass begins at the reconciler of the way in.
LEMMA StartPassServices ==
  ASSUME Types, StartPass, UNCHANGED <<volumeVars, podVars>>
  PROVE  ServiceInv'
<1>1. /\ w'.pc = (IF LoadBalanced THEN "ingress" ELSE "nodeports") /\ UNCHANGED <<scene, spec>>
      /\ w'.cr = [spec |-> spec, status |-> status']
      /\ w'.doors = InUseFor([spec |-> spec, status |-> status'])
  BY StartPassFields
<1>2. InUse' = w'.doors
  BY <1>1 DEF InUse, InUseFor, IsIngressConfigInUse, ShouldIncludeBroker, InScene
<1>. QED
  BY <1>1, <1>2 DEF ServiceInv, LoadBalanced

\* After ReconcileIngress the ports are there, ...
LEMMA ReconcileIngressServices ==
  ASSUME Types, ServiceInv, NEW i \in Ingresses, ReconcileIngress(i)
  PROVE  ServiceInv'
<1>1. /\ w.pc = "ingress" /\ UNCHANGED scene /\ w'.pc = "routes" /\ w'.cr = w.cr
      /\ w'.doors = w.doors \ {i} /\ w'.door = i
      /\ service'[i].ports = Included(i)
      /\ \A j \in Doors \ {i} : service'[j] = service[j]
  BY ReconcileIngressFields
<1>2. LoadBalanced' /\ scene.way # "contour"
  BY <1>1 DEF ServiceInv, LoadBalanced
<1>3. InUse' = InUse /\ (\A j : Included(j)' = Included(j)) /\ InUse \subseteq Doors
  BY <1>1, GoesInUse, InUseDoors
<1>4. ASSUME NEW j \in InUse, j \notin w'.doors
      PROVE  /\ Included(j) \subseteq service'[j].ports
             /\ j = i \/ Included(j) \subseteq service'[j].routes
  <2>1. CASE j = i
    BY <1>1, <2>1
  <2>2. CASE j # i
    <3>1. j \notin w.doors /\ service'[j] = service[j]
      BY <1>1, <1>3, <1>4, <2>2
    <3>. QED
      BY <1>1, <3>1 DEF ServiceInv
  <2>. QED
    BY <2>1, <2>2
<1>. QED
  BY <1>1, <1>2, <1>3, <1>4 DEF ServiceInv

\* ... after ReconcileRoutes the routes too, ...
LEMMA ReconcileRoutesServices ==
  ASSUME Types, ServiceInv, ReconcileRoutes
  PROVE  ServiceInv'
<1>1. /\ w.pc = "routes" /\ UNCHANGED scene /\ w'.cr = w.cr /\ w'.doors = w.doors
      /\ w'.pc = IF w.doors = {} THEN "listeners" ELSE "ingress"
      /\ service'[w.door].ports = service[w.door].ports /\ service'[w.door].routes = Included(w.door)
      /\ \A j \in Doors \ {w.door} : service'[j] = service[j]
  BY ReconcileRoutesFields, GoesTo DEF Goes, SameWork
<1>2. LoadBalanced /\ LoadBalanced' /\ scene'.way # "contour"
  BY <1>1 DEF ServiceInv, LoadBalanced
<1>3. InUse' = InUse /\ (\A j : Included(j)' = Included(j)) /\ InUse \subseteq Doors
  BY <1>1, GoesInUse, InUseDoors
<1>4. ASSUME NEW j \in InUse, j \notin w.doors
      PROVE  Included(j) \subseteq service'[j].ports /\ Included(j) \subseteq service'[j].routes
  <2>1. CASE j = w.door
    BY <1>1, <1>4, <2>1 DEF ServiceInv
  <2>2. CASE j # w.door
    BY <1>1, <1>3, <1>4, <2>2 DEF ServiceInv
  <2>. QED
    BY <2>1, <2>2
<1>5. CASE w.doors = {}
  BY <1>1, <1>2, <1>3, <1>4, <1>5 DEF ServiceInv
<1>6. CASE w.doors # {}
  BY <1>1, <1>2, <1>3, <1>4, <1>6 DEF ServiceInv
<1>. QED
  BY <1>5, <1>6

\* ... after ReconcileNodePorts the ports of the nodes, ...
LEMMA ReconcileNodePortsServices ==
  ASSUME Types, ServiceInv, ReconcileNodePorts
  PROVE  ServiceInv'
<1>1. /\ w.pc = "nodeports" /\ UNCHANGED scene
      /\ w'.pc = IF scene.way = "contour" THEN "contour" ELSE "listeners"
      /\ NodePorts \subseteq service'["node"].ports
  BY ReconcileNodePortsFields, GoesTo DEF Goes
<1>2. ~LoadBalanced /\ ~LoadBalanced' /\ InScene' = InScene
  BY <1>1 DEF ServiceInv, LoadBalanced, InScene
<1>3. CASE scene.way = "contour"
  BY <1>1, <1>2, <1>3 DEF ServiceInv
<1>4. CASE scene.way = "nodeport"
  BY <1>1, <1>2, <1>4 DEF ServiceInv, NodePorts
<1>. QED
  BY <1>2, <1>3, <1>4, DoorFacts DEF LoadBalanced

\* ... and after ReconcileContour services, proxies and addresses.
LEMMA ReconcileContourServices ==
  ASSUME Types, ServiceInv, ReconcileContour
  PROVE  ServiceInv'
<1>1. /\ w.pc = "contour" /\ UNCHANGED scene /\ w'.pc = "listeners" /\ w'.cr = w.cr
      /\ service'["node"].ports = InScene
      /\ \A i \in Doors : i # "node" /\ i \in InUse =>
           service'[i].exists /\ service'[i].address /\ service'[i].routes = InScene
  BY ReconcileContourFields, GoesTo DEF Goes
<1>2. ~LoadBalanced' /\ scene.way = "contour"
  BY <1>1 DEF ServiceInv, LoadBalanced
<1>3. \A i \in InUse' : HasAddress(i)' /\ InScene' \subseteq service'[i].routes
  BY <1>1, GoesInUse, InUseDoors DEF HasAddress
<1>. QED
  BY <1>1, <1>2, <1>3, GoesInUse DEF ServiceInv

\* An address that comes takes nothing away.
LEMMA AssignAddressServices ==
  ASSUME Types, ServiceInv, NEW i \in Ingresses, AssignAddress(i), UNCHANGED <<volumeVars, podVars>>
  PROVE  ServiceInv'
<1>1. /\ UNCHANGED <<scene, w>>
      /\ \A j \in Doors : /\ service'[j].exists = service[j].exists
                          /\ service'[j].ports = service[j].ports
                          /\ service'[j].routes = service[j].routes
                          /\ service[j].address => service'[j].address
  BY AssignAddressFields DEF objectVars
<1>2. InUse' = InUse /\ (\A j : Included(j)' = Included(j)) /\ InScene' = InScene /\ LoadBalanced' = LoadBalanced
  BY <1>1, GoesInUse DEF LoadBalanced
<1>3. \A j \in InUse : /\ service'[j].ports = service[j].ports
                       /\ service'[j].routes = service[j].routes
                       /\ HasAddress(j) => HasAddress(j)'
  BY <1>1, InUseDoors DEF HasAddress
<1>4. service'["node"].ports = service["node"].ports
  BY <1>1 DEF Doors
<1>. QED
  BY <1>1, <1>2, <1>3, <1>4 DEF ServiceInv

\* Every step keeps what the ingress reconcilers have made for the next one.
LEMMA ServiceStep ==
  ASSUME Types, ServiceInv, [Next]_vars
  PROVE  ServiceInv'
<1>1. ASSUME StartPass, UNCHANGED <<volumeVars, podVars>>
      PROVE  ServiceInv'
  BY <1>1, StartPassServices
<1>2. ASSUME NEW i \in Ingresses, ReconcileIngress(i), UNCHANGED <<volumeVars, podVars>>
      PROVE  ServiceInv'
  BY <1>2, ReconcileIngressServices
<1>3. ASSUME ReconcileRoutes, UNCHANGED <<volumeVars, podVars>>
      PROVE  ServiceInv'
  BY <1>3, ReconcileRoutesServices
<1>4. ASSUME ReconcileNodePorts, UNCHANGED <<volumeVars, podVars>>
      PROVE  ServiceInv'
  BY <1>4, ReconcileNodePortsServices
<1>5. ASSUME ReconcileContour, UNCHANGED <<volumeVars, podVars>>
      PROVE  ServiceInv'
  BY <1>5, ReconcileContourServices
<1>6. ASSUME PublishListeners, UNCHANGED <<volumeVars, podVars>>
      PROVE  ServiceInv'
  <2>1. w'.pc \notin IngressPcs
    BY <1>6, PublishListenersEffect DEF Ends, IngressPcs
  <2>. QED
    BY <2>1, ServiceAway
<1>7. ASSUME NEW b \in Brokers, NEW p \in Paths, DeleteClaim(b, p), UNCHANGED <<podVars, service>>
      PROVE  ServiceInv'
  <2>1. w'.pc \notin IngressPcs
    BY <1>7, DeleteClaimFields DEF IngressPcs
  <2>. QED
    BY <2>1, ServiceAway
<1>8. ASSUME NEW b \in Brokers, ReconcileClaims(b), UNCHANGED <<podVars, service>>
      PROVE  ServiceInv'
  <2>1. w'.pc \notin IngressPcs
    BY <1>8, ReconcileClaimsFields DEF IngressPcs
  <2>. QED
    BY <2>1, ServiceAway
<1>9. ASSUME ForgetVolume, UNCHANGED <<podVars, service>>
      PROVE  ServiceInv'
  <2>1. w'.pc \notin IngressPcs
    BY <1>9, ForgetVolumeEffect DEF Writes, IngressPcs
  <2>. QED
    BY <2>1, ServiceAway
<1>10. ASSUME MarkVolumes, UNCHANGED <<podVars, service>>
      PROVE  ServiceInv'
  <2>1. w'.pc \notin IngressPcs
    BY <1>10, MarkVolumesTypes DEF IngressPcs
  <2>. QED
    BY <2>1, ServiceAway
<1>11. ASSUME ListBrokers, UNCHANGED service
      PROVE  ServiceInv'
  <2>1. w'.pc \notin IngressPcs
    BY <1>11, ListBrokersEffect DEF IngressPcs
  <2>. QED
    BY <2>1, ServiceAway
<1>12. ASSUME OrderBrokers, UNCHANGED service
      PROVE  ServiceInv'
  <2>1. w'.pc \notin IngressPcs
    BY <1>12, OrderBrokersEffect DEF IngressPcs
  <2>. QED
    BY <2>1, ServiceAway
<1>13. ASSUME ReconcileMap, UNCHANGED service
      PROVE  ServiceInv'
  <2>1. w'.pc \notin IngressPcs
    BY <1>13, ReconcileMapFields DEF Goes, IngressPcs
  <2>. QED
    BY <2>1, ServiceAway
<1>14. ASSUME ConfigOutOfSync, UNCHANGED service
      PROVE  ServiceInv'
  <2>1. w'.pc \notin IngressPcs
    BY <1>14, ConfigOutOfSyncFields DEF Goes, Writes, IngressPcs
  <2>. QED
    BY <2>1, ServiceAway
<1>15. ASSUME ReconcilePod, UNCHANGED service
      PROVE  ServiceInv'
  <2>1. w'.pc \notin IngressPcs
    BY <1>15, ReconcilePodFields DEF Goes, Ends, IngressPcs
  <2>. QED
    BY <2>1, ServiceAway
<1>16. ASSUME PodInSync, UNCHANGED service
      PROVE  ServiceInv'
  <2>1. w'.pc \notin IngressPcs
    BY <1>16, PodInSyncFields DEF Writes, IngressPcs
  <2>. QED
    BY <2>1, ServiceAway
<1>17. ASSUME WriteRack, UNCHANGED service
      PROVE  ServiceInv'
  <2>1. w'.pc \notin IngressPcs
    BY <1>17, WriteRackEffect DEF Ends, IngressPcs
  <2>. QED
    BY <2>1, ServiceAway
<1>18. ASSUME WriteRackStatus, UNCHANGED service
      PROVE  ServiceInv'
  <2>1. w'.pc \notin IngressPcs
    BY <1>18, WriteRackStatusFields DEF Writes, IngressPcs
  <2>. QED
    BY <2>1, ServiceAway
<1>19. ASSUME CompareBroker, UNCHANGED service
      PROVE  ServiceInv'
  <2>1. w'.pc \notin IngressPcs
    BY <1>19, CompareBrokerFields DEF Goes, Writes, IngressPcs
  <2>. QED
    BY <2>1, ServiceAway
<1>20. ASSUME CheckUpgrade, UNCHANGED service
      PROVE  ServiceInv'
  <2>1. w'.pc \notin IngressPcs
    BY <1>20, CheckUpgradeFields DEF Goes, Ends, IngressPcs
  <2>. QED
    BY <2>1, ServiceAway
<1>21. ASSUME DeletePod, UNCHANGED service
      PROVE  ServiceInv'
  <2>1. w'.pc \notin IngressPcs
    BY <1>21, DeletePodEffect DEF Goes, Ends, IngressPcs
  <2>. QED
    BY <2>1, ServiceAway
<1>22. ASSUME AskVersion, UNCHANGED service
      PROVE  ServiceInv'
  <2>1. w'.pc \notin IngressPcs
    BY <1>22, AskVersionFields DEF Writes, Ends, IngressPcs
  <2>. QED
    BY <2>1, ServiceAway
<1>23. ASSUME ReconcileDynamic \/ AlterDynamic \/ DynamicInSync, UNCHANGED service
      PROVE  ServiceInv'
  <2>1. w'.pc \notin IngressPcs
    BY <1>23, DynamicEffect DEF IngressPcs
  <2>. QED
    BY <2>1, ServiceAway
<1>24. ASSUME FinishPass, UNCHANGED service
      PROVE  ServiceInv'
  <2>1. w'.pc \notin IngressPcs
    BY <1>24, FinishPassFields DEF Ends, IngressPcs
  <2>. QED
    BY <2>1, ServiceAway
<1>25. ASSUME Crash
      PROVE  ServiceInv'
  <2>1. w'.pc \notin IngressPcs
    BY <1>25, CrashFields DEF IngressPcs
  <2>. QED
    BY <2>1, ServiceAway
<1>26. ASSUME EditVersion \/ \E b \in InScene : EditConfig(b) \/ EditIngress(b) \/ EditDisks(b)
      PROVE  ServiceInv'
  <2>1. UNCHANGED <<scene, w, service>>
    BY <1>26, EditFields
  <2>. QED
    BY <2>1, ServiceSame
<1>27. ASSUME NEW b \in InScene, TaintPod(b)
      PROVE  ServiceInv'
  <2>1. UNCHANGED <<scene, w, service>>
    BY <1>27, TaintPodFields
  <2>. QED
    BY <2>1, ServiceSame
<1>28. ASSUME QuietStep, UNCHANGED <<podVars, service>>
      PROVE  ServiceInv'
  <2>1. UNCHANGED <<scene, w, service>>
    BY <1>28, QuietFields
  <2>. QED
    BY <2>1, ServiceSame
<1>29. ASSUME TaskSync \/ TaskSchedule, UNCHANGED <<podVars, service>>
      PROVE  ServiceInv'
  <2>1. UNCHANGED <<scene, w, service>>
    BY <1>29, UpdateStatusFields
  <2>. QED
    BY <2>1, ServiceSame
<1>30. ASSUME NEW b \in InScene, PodIsScheduled(b), UNCHANGED service
      PROVE  ServiceInv'
  <2>1. UNCHANGED <<scene, w, service>>
    BY <1>30, PodIsScheduledFields
  <2>. QED
    BY <2>1, ServiceSame
<1>31. ASSUME NEW b \in InScene, PodStarts(b), UNCHANGED service
      PROVE  ServiceInv'
  <2>1. UNCHANGED <<scene, w, service>>
    BY <1>31, PodStartsFields
  <2>. QED
    BY <2>1, ServiceSame
<1>32. ASSUME NEW b \in InScene, PodStops(b), UNCHANGED service
      PROVE  ServiceInv'
  <2>1. UNCHANGED <<scene, w, service>>
    BY <1>32, PodStopsFields
  <2>. QED
    BY <2>1, ServiceSame
<1>33. ASSUME NEW b \in InScene, CatchUp(b), UNCHANGED service
      PROVE  ServiceInv'
  <2>1. UNCHANGED <<scene, w, service>>
    BY <1>33, CatchUpFields DEF objectVars
  <2>. QED
    BY <2>1, ServiceSame
<1>34. ASSUME NEW b \in InScene, PodBreaks(b), UNCHANGED service
      PROVE  ServiceInv'
  <2>1. UNCHANGED <<scene, w, service>>
    BY <1>34, PodBreaksFields
  <2>. QED
    BY <2>1, ServiceSame
<1>35. ASSUME NEW b \in InScene, NEW p \in Paths, ReleaseClaim(b, p), UNCHANGED <<podVars, service>>
      PROVE  ServiceInv'
  <2>1. UNCHANGED <<scene, w, service>>
    BY <1>35, ReleaseClaimFields DEF objectVars
  <2>. QED
    BY <2>1, ServiceSame
<1>36. ASSUME CountAlerts
      PROVE  ServiceInv'
  <2>1. UNCHANGED <<scene, w, service>>
    BY <1>36, CountAlertsFields DEF objectVars
  <2>. QED
    BY <2>1, ServiceSame
<1>37. ASSUME NEW i \in Ingresses, AssignAddress(i), UNCHANGED <<volumeVars, podVars>>
      PROVE  ServiceInv'
  BY <1>37, AssignAddressServices
<1>38. CASE UNCHANGED vars
  BY <1>38, ServiceSame DEF vars, objectVars
<1>. QED
  BY <1>1, <1>2, <1>3, <1>4, <1>5, <1>6, <1>7, <1>8, <1>9, <1>10, <1>11, <1>12, <1>13, <1>14,
     <1>15, <1>16, <1>17, <1>18, <1>19, <1>20, <1>21, <1>22, <1>23, <1>24, <1>25, <1>26, <1>27,
     <1>28, <1>29, <1>30, <1>31, <1>32, <1>33, <1>34, <1>35, <1>36, <1>37, <1>38
  DEF Next, Worker, IngressStep, VolumeStep, PodStep, TaskStep, OpStep, OpEvent,
      QuietStep, Kube, UserStep

\* A cluster at rest is reached through its door.
LEMMA InitAddress ==
  ASSUME Init
  PROVE  ServiceInv /\ AddressInv
<1>1. w = Idle
  BY InitFacts
<1>2. w.pc = "idle"
  BY <1>1 DEF Idle
<1>3. ServiceInv
  BY <1>2 DEF ServiceInv
<1>4. Types
  BY InitTypes
<1>5. ASSUME NEW b \in InScene, ~scene.fresh
      PROVE  Given(Door) /\ SafeNow(Door, b)
  <2>1. Door \in Doors /\ Door \in WayAddresses /\ scene.ingress \in Ingresses
    BY <1>4, ScenesAssumption DEF Types, Door, Doors, WayAddresses
  <2>2. PICK e, r, p :
          /\ service = [i \in Doors |-> [exists |-> e[i], address |-> e[i], routes |-> r[i], ports |-> p[i]]]
          /\ e = [i \in Doors |-> i = Door /\ ~scene.fresh]
          /\ r = [i \in Doors |-> IF i = scene.ingress /\ scene.way # "nodeport" THEN Reached ELSE {}]
          /\ p = [i \in Doors |-> IF i = (IF LoadBalanced THEN scene.ingress ELSE "node") THEN Reached ELSE {}]
    <3>. DEFINE e0 == [i \in Doors |-> i = Door /\ ~scene.fresh]
                r0 == [i \in Doors |-> IF i = scene.ingress /\ scene.way # "nodeport" THEN Reached ELSE {}]
                p0 == [i \in Doors |-> IF i = (IF LoadBalanced THEN scene.ingress ELSE "node")
                                       THEN Reached ELSE {}]
    <3>1. service = [i \in Doors |->
              [exists |-> i = Door /\ ~scene.fresh, address |-> i = Door /\ ~scene.fresh,
               routes |-> IF i = scene.ingress /\ scene.way # "nodeport" THEN Reached ELSE {},
               ports |-> IF i = (IF LoadBalanced THEN scene.ingress ELSE "node") THEN Reached ELSE {}]]
      BY InitFacts
    <3>2. \A i \in Doors : /\ e0[i] = (i = Door /\ ~scene.fresh)
                           /\ r0[i] = (IF i = scene.ingress /\ scene.way # "nodeport" THEN Reached ELSE {})
                           /\ p0[i] = (IF i = (IF LoadBalanced THEN scene.ingress ELSE "node")
                                       THEN Reached ELSE {})
      BY Zenon
    <3>3. service = [i \in Doors |-> [exists |-> e0[i], address |-> e0[i], routes |-> r0[i], ports |-> p0[i]]]
      BY <3>1, <3>2, Zenon
    <3>. QED
      BY <3>3
  <2>3. /\ HasAddress(Door)
        /\ \A i \in Doors : service[i].routes = r[i] /\ service[i].ports = p[i]
    <3>1. e[Door]
      BY <1>5, <2>1, <2>2
    <3>. QED
      BY <2>1, <2>2, <3>1 DEF HasAddress
  <2>4. Given(Door)
    BY <2>1, <2>3 DEF Given
  <2>5. b \in Reached
    BY <1>5 DEF Reached
  <2>6. Leads(Door, b)
    <3>1. CASE scene.way = "nodeport"
      BY <2>1, <2>2, <2>3, <2>5, <3>1, <1>4, DoorFacts DEF Leads, LoadBalanced, Door, Doors
    <3>2. CASE scene.way # "nodeport"
      <4>1. Door = scene.ingress /\ r[Door] = Reached
        BY <2>1, <2>2, <3>2 DEF Door
      <4>2. p[IF LoadBalanced THEN Door ELSE "node"] = Reached
        BY <2>1, <2>2, <4>1 DEF Doors
      <4>. QED
        BY <2>1, <2>3, <2>5, <4>1, <4>2 DEF Leads, Doors
    <3>. QED
      BY <3>1, <3>2
  <2>. QED
    BY <2>4, <2>6 DEF SafeNow
<1>6. \A b \in InScene : /\ map[b].exists => ~scene.fresh /\ map[b].address = Door
                         /\ pod[b].phase = "running" => ~scene.fresh /\ pod[b].address = Door
  BY InitFacts DEF Rests
<1>. QED
  BY <1>2, <1>3, <1>5, <1>6 DEF AddressInv, AddressedPcs, ClaimPcs, BrokerPcs

\* All that the addresses depend on.
WholeInv == Types /\ CoreInv /\ CurrentInv /\ ServiceInv /\ AddressInv

\* It always holds.
LEMMA ClusterAddresses == Spec => []WholeInv
<1>1. Init => WholeInv
  BY InitCore, InitAddress DEF WholeInv
<1>2. WholeInv /\ [Next]_vars => WholeInv'
  BY CoreStep, ServiceStep, AddressStep DEF WholeInv, CoreInv
<1>. QED
  BY <1>1, <1>2, PTL DEF Spec

\* For any cluster and any way in, an address that a running broker advertises is one that
\* the load balancer or proxy has, and it leads to the broker until another ingress is
\* recorded for it, but for the sweep of contour.
THEOREM ClusterAdvertisedIsServed == Spec => []AdvertisedIsServed
<1>1. WholeInv => AdvertisedIsServed
  <2>. SUFFICES ASSUME WholeInv, NEW b \in InScene, NEW a, a = pod[b].address, Running(b), a # "nowhere"
                PROVE  /\ a \in Ingresses => HasAddress(a)
                       /\ a \in {status.ingress[b], "node"} => Leads(a, b) \/ Swept
    BY DEF AdvertisedIsServed
  <2>1. Given(a) /\ SafeNow(a, b)
    BY DEF WholeInv, AddressInv, Running
  <2>. QED
    BY <2>1 DEF Given, SafeNow
<1>. QED
  BY <1>1, ClusterAddresses, PTL
=============================================================================
