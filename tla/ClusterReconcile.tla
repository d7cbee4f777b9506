-------------------------- MODULE ClusterReconcile --------------------------
(***************************************************************************)
(* The passes of the KafkaCluster controller over a cluster whose brokers  *)
(* are fixed: ingress, listeners, volumes, configuration maps and pods,    *)
(* with the user, Cruise Control, Kubernetes and Kafka around them.        *)
(*                                                                         *)
(* A pass follows another without end: the one that fails is queued again, *)
(* the one that succeeds is followed by the next event or resync.          *)
(***************************************************************************)
EXTENDS BrokerPods, Ingress

vars == <<objectVars, volumeVars, podVars, service>>

\* A scene is a cluster at rest, or one that is not there yet.
Init ==
  /\ scene \in Scenes
  /\ LET disks(b) == IF b \in InScene THEN scene.disks ELSE {}
         static == Static("user", scene.rackAware, SetToSortSeq(scene.disks, LAMBDA p, q : p < q))
         rests(b) == b \in InScene /\ ~scene.fresh
         door == IF scene.way = "nodeport" THEN "node" ELSE scene.ingress
         reached == IF scene.fresh THEN {} ELSE InScene
     IN  /\ spec = [b \in Brokers |-> [version |-> 0, config |-> "user",
                      rack |-> rests(b) /\ scene.rackAware, ingress |-> scene.ingress,
                      disks |-> disks(b)]]
         /\ status = [state |-> IF scene.fresh THEN "reconciling" ELSE "running",
                      entry |-> [b \in Brokers |-> rests(b)],
                      config |-> [b \in Brokers |-> IF rests(b) THEN "in" ELSE ""],
                      dynamic |-> [b \in Brokers |-> IF rests(b) THEN "in" ELSE ""],
                      rack |-> [b \in Brokers |-> rests(b) /\ scene.rackAware],
                      ingress |-> [b \in Brokers |-> IF rests(b) THEN scene.ingress ELSE ""],
                      volume |-> [b \in Brokers |-> [p \in Paths |->
                                    IF rests(b) /\ p \in scene.disks
                                    THEN Volume("rebalance", "Succeeded", NoOp) ELSE NoVolume]],
                      errors |-> 0]
         /\ pod = [b \in Brokers |->
                     IF rests(b) THEN [NoPod EXCEPT !.phase = "running", !.static = static,
                                                    !.address = door, !.disks = scene.disks]
                     ELSE NoPod]
         /\ map = [b \in Brokers |->
                     IF rests(b) THEN [exists |-> TRUE, static |-> static, address |-> door]
                     ELSE NoMap]
         /\ claim = [b \in Brokers |-> [p \in Paths |->
                       IF rests(b) /\ p \in scene.disks THEN "bound" ELSE "none"]]
         /\ sync = [b \in Brokers |-> rests(b)]
         /\ service = [i \in Doors |->
              [exists |-> i = door /\ ~scene.fresh, address |-> i = door /\ ~scene.fresh,
               routes |-> IF i = scene.ingress /\ scene.way # "nodeport" THEN reached ELSE {},
               ports |-> IF i = (IF LoadBalanced THEN scene.ingress ELSE "node") THEN reached ELSE {}]]
  /\ Operation!LifecycleInit /\ work = [o \in OpIds |-> [kind |-> "", of |-> {}]]
  /\ task = TaskIdle /\ drained = {} /\ restarted = {}
  /\ w = Idle
  /\ left = scene.budget

-----------------------------------------------------------------------------
(* The user. *)

Edit(new) == spec' = new /\ UNCHANGED <<scene, status, pod, w, volumeVars, podVars, service>>

\* A new version goes to all brokers.
EditVersion ==
  /\ Spend("version")
  /\ Edit([b \in Brokers |-> [spec[b] EXCEPT !.version = 1]])

\* A new read-only configuration comes from a manifest that may not know of the rack.
EditConfig(b) ==
  /\ Spend("config")
  /\ \E keep \in BOOLEAN :
       Edit([spec EXCEPT ![b].config = "new", ![b].rack = keep /\ @])

EditIngress(b) ==
  /\ Spend("ingress")
  /\ \E i \in Ingresses \ {spec[b].ingress} : Edit([spec EXCEPT ![b].ingress = i])

\* The last volume of a broker is never taken away.
EditDisks(b) ==
  /\ Spend("disks")
  /\ \E p \in scene.spare : LET ds == spec[b].disks IN
       /\ Cardinality(ds \ {p}) > 0
       /\ Edit([spec EXCEPT ![b].disks = IF p \in ds THEN ds \ {p} ELSE ds \cup {p}])

TaintPod(b) ==
  /\ Spend("taint") /\ Running(b)
  /\ pod' = [pod EXCEPT ![b].taint = TRUE]
  /\ UNCHANGED <<scene, spec, status, w, volumeVars, podVars, service>>

UserStep ==
  \/ EditVersion
  \/ \E b \in InScene : EditConfig(b) \/ EditIngress(b) \/ EditDisks(b) \/ TaintPod(b)

-----------------------------------------------------------------------------

\* The operator crashes, or a call of the pass fails.
Crash ==
  /\ ~At("idle") /\ Spend("crash")
  /\ EndPass
  /\ UNCHANGED <<scene, spec, status, pod, volumeVars, podVars, service>>

\* (AlertManager) The alerts of the rolling upgrade are counted in the status.
CountAlerts ==
  /\ Spend("alert")
  /\ \E n \in 0..1 : n # status.errors /\ status' = [status EXCEPT !.errors = n]
  /\ UNCHANGED <<scene, spec, pod, w, volumeVars, podVars, service>>

\* The pass of the controller.
Worker ==
  \/ IngressStep /\ UNCHANGED <<volumeVars, podVars>>
  \/ VolumeStep /\ UNCHANGED <<podVars, service>>
  \/ PodStep /\ UNCHANGED service

Kube(b) == PodIsScheduled(b) \/ PodStarts(b) \/ PodStops(b)

Next ==
  \/ Worker \/ Crash \/ UserStep \/ CountAlerts
  \/ (TaskStep \/ TaskFails \/ OpStep \/ OpEvent) /\ UNCHANGED <<podVars, service>>
  \/ \E b \in InScene :
       \/ (Kube(b) \/ CatchUp(b) \/ PodBreaks(b)) /\ UNCHANGED service
       \/ \E p \in Paths : ReleaseClaim(b, p) /\ UNCHANGED <<podVars, service>>
  \/ \E i \in Ingresses : AssignAddress(i) /\ UNCHANGED <<volumeVars, podVars>>

Spec == Init /\ [][Next]_vars

\* The passes of both controllers go on; Cruise Control, Kubernetes and Kafka do what they are asked
\* in the end.  A pod that starts and stops again and again cannot keep an operation from ending,
\* hence the strong fairness of the operations.
Fairness ==
  /\ WF_vars(Worker)
  /\ WF_vars(TaskStep /\ UNCHANGED <<podVars, service>>)
  /\ SF_vars(OpStep /\ UNCHANGED <<podVars, service>>)
  /\ WF_vars(\E b \in InScene : (Kube(b) \/ CatchUp(b)) /\ UNCHANGED service)
  /\ WF_vars(\E b \in InScene, p \in Paths : ReleaseClaim(b, p) /\ UNCHANGED <<podVars, service>>)
  /\ WF_vars(\E i \in Ingresses : AssignAddress(i) /\ UNCHANGED <<volumeVars, podVars>>)

FairSpec == Spec /\ Fairness

-----------------------------------------------------------------------------
(* What must hold. *)

\* The variables have their types.
TypeOK ==
  /\ scene \in Scenes
  /\ spec \in [Brokers -> SpecEntry]
  /\ status.state \in {"reconciling", "running", "upgrading"}
  /\ status.entry \in [Brokers -> BOOLEAN] /\ status.rack \in [Brokers -> BOOLEAN]
  /\ status.config \in [Brokers -> {"", "in", "out"}]
  /\ status.dynamic \in [Brokers -> {"", "in", "out", "error"}]
  /\ status.ingress \in [Brokers -> Ingresses \cup {""}]
  /\ status.volume \in [Brokers -> [Paths -> VolumeStates]] /\ status.errors \in Nat
  /\ \A b \in Brokers : /\ pod[b].phase \in Phases
                        /\ map[b].address \in Doors \cup {"", "nowhere"}
  /\ claim \in [Brokers -> [Paths -> {"none", "pending", "bound", "deleting"}]]
  /\ drained \subseteq Brokers \X Paths
  /\ ops \in [OpIds -> Operation!LifecycleObject]
  /\ work \in [OpIds -> [kind : {"", "rebalance", "remove"}, of : SUBSET (Brokers \X Paths)]]
  /\ task \in [pc : {"idle", "list", "sync", "plan", "fill", "schedule"},
                tasks : [Brokers -> [Paths -> VolumeStates]], op : OpIds \cup {NoOp}]
  /\ sync \in [Brokers -> BOOLEAN] /\ restarted \subseteq Brokers
  /\ \A i \in Doors : service[i].ports \cup service[i].routes \subseteq Brokers
  /\ left \in [Events -> Nat]

\* The rolling upgrade of handleRollingUpgrade never has more brokers down at once than its two
\* counts let through together (those that terminate or wait, and those whose replicas are out of
\* sync), and with several at a time all of them are in one rack, as long as the pods are not read
\* from a stale cache.  With a failure threshold of one this is ConcurrentBrokerRestartCountPerRack.
RestartsBounded ==
  ~scene.lag =>
    /\ Cardinality(restarted) < scene.limit + scene.threshold
    /\ scene.limit > 1 => \A a, b \in restarted : scene.zone[a] = scene.zone[b]

\* The documented bound: up to ConcurrentBrokerRestartCountPerRack brokers are restarted in parallel.
\* It does not hold with a failure threshold above one.
RestartsWithinLimit == ~scene.lag => Cardinality(restarted) <= scene.limit

\* handleDiskRemoval deletes the claim of a volume only when a remove_disks of Cruise Control has
\* taken the partitions off it since it was last recorded as rebalanced: whatever the tasks that the
\* CruiseControlTask controller lays over a newer status say, however often the volume is taken out
\* of the spec and put back in between, and whichever operations fail, expire or are paused.  Users
\* must have left the operations alone.  What Kafka puts on the volume after that remove_disks is not
\* protected: a volume that is put back keeps the state "removed" if that state is there already, or
\* gets it back from a task that was read before.
DrainedBeforeDeletion ==
  [][Unspent("opEdit") =>
       \A b \in Brokers, p \in Paths :
         claim[b][p] # "deleting" /\ claim'[b][p] = "deleting" => <<b, p>> \in drained]_vars

\* A broker that runs and is said to be in sync has the configuration of its map, unless a write
\* of the status was lost or the pass that was to make it ended.
InSyncIsTrue ==
  Unspent("fail") /\ Unspent("crash") =>
    \A b \in InScene :
      Running(b) /\ status.config[b] = "in" /\ ~(At("configOut") /\ B = b)
        => pod[b].static = map[b].static

\* The operator changes nothing but the rack in the spec of a broker: no edit of the user is
\* undone by UpdateCr, and no configuration erased, unless a pass ended between two writes.
UserEditsKept ==
  [][w' # w /\ Unspent("crash") =>
       \A b \in Brokers : spec'[b] = [spec[b] EXCEPT !.rack = spec'[b].rack]]_vars

\* Whether the address leads to the broker: a port, and a route of the proxy behind it.
Leads(address, b) ==
  /\ b \in service[IF LoadBalanced THEN address ELSE "node"].ports
  /\ address \in Ingresses => b \in service[address].routes

\* With contour and the removal of unused ingress resources every pass removes the services of the
\* brokers, which have the names of node port services, and makes them again; one that ends in
\* between leaves the brokers without.
Swept ==
  scene.way = "contour" /\ scene.cleanup /\ (At("contour") \/ ~Unspent("crash"))

\* The address that a broker advertises is one that the load balancer or proxy has, and it leads
\* to the broker until another ingress is recorded for it.  A pod on no node has no address.
AdvertisedIsServed ==
  \A b \in InScene : LET a == pod[b].address IN
    Running(b) /\ a # "nowhere" =>
      /\ a \in Ingresses => HasAddress(a)
      /\ a \in {status.ingress[b], "node"} => Leads(a, b) \/ Swept

\* The broker is what the spec asks for.
Settled(b) ==
  /\ Running(b) /\ sync[b] /\ ~pod[b].taint
  /\ pod[b].version = spec[b].version
  /\ pod[b].static.config = spec[b].config /\ pod[b].static.rack = scene.rackAware
  /\ spec[b].disks \subseteq pod[b].disks
  /\ \A p \in spec[b].disks : status.volume[b][p].stage = "Succeeded"
  /\ pod[b].address # "nowhere" /\ (Leads(pod[b].address, b) \/ Swept)

\* In the end all brokers are as the spec asks, their volumes are rebalanced or still called removed,
\* and passes end well, unless a status write was lost on the way, users act on operations, or
\* alerts go on.
Converges ==
  LET undisturbed == /\ Unspent("fail") /\ status.errors = 0
                     /\ Unspent("opEdit")
  IN  /\ <>[](undisturbed => \A b \in InScene : Settled(b))
      /\ []<>(undisturbed => status.state = "running")
=============================================================================
