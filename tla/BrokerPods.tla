----------------------------- MODULE BrokerPods -----------------------------
(***************************************************************************)
(* The brokers in one pass of the Kafka reconciler: their configuration    *)
(* maps, their pods, the rolling upgrade and the dynamic configuration.    *)
(*                                                                         *)
(* What a pod is made of (image, containers, environment, affinity, ports) *)
(* is a version number.  A configuration map holds what is read at the     *)
(* start of a broker (read-only configuration, rack, log directories) and  *)
(* what can be changed while it runs (the advertised address).             *)
(***************************************************************************)
EXTENDS BrokerVolumes, Sequences, SequencesExt

VARIABLES
  map,        \* the configuration map of each broker
  sync,       \* the replicas of the broker are in sync
  restarted   \* the brokers that a rolling upgrade has stopped and that do not run again yet

podVars == <<map, sync, restarted>>

NoMap == [exists |-> FALSE, static |-> Static("user", FALSE, <<>>), address |-> ""]

-----------------------------------------------------------------------------
(* The order of the brokers: reorderBrokers. *)

\* Brokers without a state come first, then those whose pod is missing; the controller is last.
Priority(b) == CASE ~w.cr.status.entry[b] -> 1
                 [] w.cr.status.entry[b] /\ w.pods[b].phase = "none" -> 2
                 [] w.cr.status.entry[b] /\ w.pods[b].phase # "none" /\ b # scene.controller -> 3
                 [] OTHER -> 4
Before(a, b) == Priority(a) < Priority(b) \/ (Priority(a) = Priority(b) /\ a < b)
Following(todo) == CHOOSE b \in todo : \A a \in todo \ {b} : Before(b, a)

\* The spec, the states and the pods are read for the loop over the brokers.
ListBrokers ==
  /\ At("order")
  /\ w' = [w EXCEPT !.pc = "next", !.todo = InScene, !.spec = w.cr.spec, !.pods = pod]
  /\ UNCHANGED <<scene, spec, status, pod, left, volumeVars, podVars>>

\* The order is made once: later status writes do not change it.
OrderBrokers ==
  /\ At("next") /\ w.todo # {}
  /\ w' = [w EXCEPT !.pc = "config", !.broker = Following(w.todo), !.todo = @ \ {Following(w.todo)}]
  /\ UNCHANGED <<scene, spec, status, pod, left, volumeVars, podVars>>

-----------------------------------------------------------------------------
(* The configuration map. *)

B == w.broker
Entry == w.spec[B]

\* mergeMountPaths: no log directory is ever taken out of the map.
MergeMountPaths(old, new) ==
  SetToSortSeq(new, LAMBDA p, q : p < q) \o SelectSeq(old, LAMBDA p : p \notin new)

GenerateBrokerConfig ==
  Static(Entry.config, Entry.rack, MergeMountPaths(map[B].static.dirs, Entry.disks))
AdvertisedListenerConfig == w.address[B]

DesiredMap == [exists |-> TRUE, static |-> GenerateBrokerConfig, address |-> AdvertisedListenerConfig]

\* Nothing has changed but what a running broker can be given.
ShouldRefreshOnlyPerBrokerConfigs(cur, new) == cur.static = new.static

\* Mutant: every change of a map is taken for a dynamic one.
ReconcileMapDynamic ==
  /\ At("config")
  /\ LET wanted == ~scene.rackAware \/ w.cr.status.rack[B]
     IN  \/ (~wanted \/ map[B] = DesiredMap) /\ Goto("pod") /\ UNCHANGED map
         \/ /\ wanted /\ map[B] # DesiredMap
            /\ map' = [map EXCEPT ![B] = DesiredMap]
            /\ Goto(IF map[B].exists THEN "dynamicOut" ELSE "pod")
  /\ UNCHANGED <<scene, spec, status, pod, left, volumeVars, sync, restarted>>

\* With rack awareness there is no map before the rack of the broker is known.  A new map
\* changes no status; a change of more than the dynamic part asks for a restart.
ReconcileMap ==
  /\ At("config")
  /\ LET cur == map[B]
         wanted == ~scene.rackAware \/ w.cr.status.rack[B]
     IN  \/ /\ ~wanted \/ cur = DesiredMap
            /\ Goto("pod") /\ UNCHANGED map
         \/ /\ wanted /\ cur # DesiredMap
            /\ map' = [map EXCEPT ![B] = DesiredMap]
            /\ Goto(CASE ~cur.exists -> "pod"
                      [] cur.exists /\ ShouldRefreshOnlyPerBrokerConfigs(cur, DesiredMap) -> "dynamicOut"
                      [] OTHER -> "configOut")
  /\ UNCHANGED <<scene, spec, status, pod, left, volumeVars, sync, restarted>>

\* A failure of this write is lost: the error that is returned is not the one of the write.
ConfigOutOfSync ==
  /\ At("configOut") \/ At("dynamicOut")
  /\ \/ /\ WriteStatus(IF At("configOut") THEN [status EXCEPT !.config[B] = "out", !.entry[B] = TRUE]
                       ELSE [status EXCEPT !.dynamic[B] = "out", !.entry[B] = TRUE], "pod")
        /\ UNCHANGED left
     \/ Spend("fail") /\ Goto("pod") /\ UNCHANGED status
  /\ UNCHANGED <<scene, spec, pod, volumeVars, podVars>>

-----------------------------------------------------------------------------
(* reconcileKafkaPod. *)

\* The pod mounts every claim of the broker, whatever the spec says.
DataVolumes(b) == Claimed(b)
DesiredPod == [NoPod EXCEPT !.phase = "created", !.version = Entry.version, !.disks = DataVolumes(B)]

\* Every volume of the spec must have a claim, and a broker with a pod must have a state.
ReconcilePod ==
  /\ At("pod")
  /\ LET cur == Listed[B] IN
       \/ /\ ~(Entry.disks \subseteq Claimed(B))
          /\ EndPass /\ UNCHANGED pod
       \/ /\ Entry.disks \subseteq Claimed(B) /\ cur.phase = "none"
          /\ pod' = [pod EXCEPT ![B] = DesiredPod]
          /\ Goto("ingressIn")
       \/ /\ Entry.disks \subseteq Claimed(B) /\ cur.phase # "none"
          /\ IF w.cr.status.entry[B]
             THEN Goto(IF scene.rackAware /\ cur.phase # "created" THEN "rack" ELSE "upgrade")
             ELSE EndPass
          /\ UNCHANGED pod
  /\ UNCHANGED <<scene, spec, status, left, volumeVars, podVars>>

\* A new pod starts with the current configuration and the ingress of the spec, which three writes
\* say one after the other.
PodInSync ==
  /\ \/ /\ At("ingressIn")
        /\ WriteStatus([status EXCEPT !.ingress[B] = Entry.ingress, !.entry[B] = TRUE], "configIn")
     \/ /\ At("configIn")
        /\ WriteStatus([status EXCEPT !.config[B] = "in", !.entry[B] = TRUE], "dynamicIn")
     \/ /\ At("dynamicIn")
        /\ WriteStatus([status EXCEPT !.dynamic[B] = "in", !.entry[B] = TRUE], "jmx")
  /\ UNCHANGED <<scene, spec, pod, left, volumeVars, podVars>>

\* UpdateCrWithRackAwarenessConfig: the rack of the node goes into the spec, unless it is there.
\* A rack that is there and not in the status leaves the broker without its configuration.
RackOf(b) ==
  LET e == w.cr.spec[b] IN
    IF ~w.cr.status.rack[b] /\ e.rack THEN [e EXCEPT !.rack = FALSE, !.config = "erased"]
    ELSE [e EXCEPT !.rack = TRUE]

\* Mutant: the spec is written whatever happened to the resource since it was read.
WriteRackForced ==
  /\ At("rack")
  /\ spec' = [w.cr.spec EXCEPT ![B] = RackOf(B)]
  /\ w' = [w EXCEPT !.pc = "rackStatus", !.cr.spec = spec']
  /\ UNCHANGED <<scene, status, pod, left, volumeVars, podVars>>

WriteRack ==
  /\ At("rack")
  /\ \/ /\ UpToDateCopy
        /\ spec' = [w.cr.spec EXCEPT ![B] = RackOf(B)]
        /\ w' = [w EXCEPT !.pc = "rackStatus", !.cr.spec = spec']
     \/ ~UpToDateCopy /\ EndPass /\ UNCHANGED spec
  /\ UNCHANGED <<scene, status, pod, left, volumeVars, podVars>>

\* Then it goes into the status.
WriteRackStatus ==
  /\ At("rackStatus")
  /\ WriteStatus([status EXCEPT !.rack[B] = TRUE], "upgrade")
  /\ UNCHANGED <<scene, spec, pod, left, volumeVars, podVars>>

-----------------------------------------------------------------------------
(* handleRollingUpgrade. *)

UpToDate(p) == p.version = Entry.version /\ p.disks = DataVolumes(B)
\* Mutant: the taint of a pod is not looked at.
StayTainted(p) == UpToDate(p) /\ p.phase \notin {"terminated", "evicted"}
                    /\ w.cr.status.config[B] = "in"
Stay(p) == ~p.taint /\ UpToDate(p) /\ p.phase \notin {"terminated", "evicted"}
             /\ w.cr.status.config[B] = "in"

\* A pod with a terminated container is replaced without further questions.
CompareBroker ==
  /\ At("upgrade")
  /\ LET cur == Listed[B] IN
       \/ Stay(cur) /\ Goto("jmx") /\ UNCHANGED status
       \/ ~Stay(cur) /\ cur.phase = "terminated" /\ Goto("delete") /\ UNCHANGED status
       \/ /\ ~Stay(cur) /\ cur.phase # "terminated"
          /\ IF w.cr.status.state = "upgrading" THEN Goto("check") /\ UNCHANGED status
             ELSE WriteStatus([status EXCEPT !.state = "upgrading"], "check")
  /\ UNCHANGED <<scene, spec, pod, left, volumeVars, podVars>>

\* Pods that terminate or wait for their containers; a pod without any container status is
\* neither.  (One that does both is in the list of the code twice; it ends the pass like a
\* violation of the rack goal does.)  Racks come from the read-only configurations, if all brokers
\* have one.
Unready == {b \in InScene : Listed[b].phase \in {"stopping", "waiting"}}
Zone(b) == IF \A a \in InScene : w.cr.spec[a].rack THEN scene.zone[b] ELSE b
Impacted == {b \in InScene : ~sync[b]}

Reachable == \E b \in InScene : Running(b)

\* Mutant: pods that terminate or wait are not counted.
MayRestartUncounted ==
  /\ \A b \in InScene : Listed[b].phase # "none"
  /\ Cardinality(Impacted) + w.cr.status.errors < scene.threshold
  /\ scene.limit > 1 /\ scene.threshold > 1 => \A b \in Impacted : Zone(b) = Zone(B)

\* The checks before a restart.  Alerts of the rolling upgrade count as failures.
MayRestart ==
  /\ \A b \in InScene : Listed[b].phase # "none"
  /\ Cardinality(Unready) < scene.limit
  /\ scene.limit > 1 => \A b \in Unready : Zone(b) = Zone(B)
  /\ Cardinality(Impacted) + w.cr.status.errors < scene.threshold
  /\ scene.limit > 1 /\ scene.threshold > 1 => \A b \in Impacted : Zone(b) = Zone(B)

\* The health of the cluster is asked of Kafka; for a second restart in the same rack Cruise
\* Control must see no violation of its rack goal.
CheckUpgrade ==
  /\ At("check")
  /\ \/ MayRestart /\ Reachable /\ Goto("restart")
     \/ (MayRestart /\ Reachable => scene.limit > 1 /\ Unready # {}) /\ EndPass
  /\ UNCHANGED <<scene, spec, status, pod, left, volumeVars, podVars>>

\* The pod is deleted, with or without the checks.
DeletePod ==
  /\ At("restart") \/ At("delete")
  /\ \/ pod[B].phase = "none" /\ EndPass /\ UNCHANGED <<pod, restarted>>
     \/ /\ pod[B].phase # "none"
        /\ pod' = [pod EXCEPT ![B].phase = "stopping"]
        /\ restarted' = IF At("restart") /\ Running(B) THEN restarted \cup {B} ELSE restarted
        /\ Goto("jmx")
  /\ UNCHANGED <<scene, spec, status, left, volumeVars, map, sync>>

-----------------------------------------------------------------------------
(* After the pod. *)

\* The version of Kafka is asked of the broker: one that is shutting down may still answer.
AskVersion ==
  /\ At("jmx")
  /\ \/ pod[B].phase \in {"running", "stopping"} /\ WriteStatus(status, "dynamic")
     \/ pod[B].phase # "running" /\ EndPass /\ UNCHANGED status
  /\ UNCHANGED <<scene, spec, pod, left, volumeVars, podVars>>

\* reconcilePerBrokerDynamicConfig: an error is remembered and the loop goes on.
DynamicFails == w' = [w EXCEPT !.pc = "next", !.failed = TRUE]
Dynamic(state, pc) == WriteStatus([status EXCEPT !.dynamic[B] = state, !.entry[B] = TRUE], pc)

\* The configuration of the broker is looked at if the spec has some for it or the status says that
\* it is out of sync: what did not pass validation is not tried again without.
ReconcileDynamic ==
  /\ At("dynamic")
  /\ LET looked == scene.own \/ w.cr.status.dynamic[B] = "out"
         equal == pod[B].address = map[B].address
         in == w.cr.status.dynamic[B] = "in"
     IN  \/ (~Reachable \/ (looked /\ ~Running(B))) /\ DynamicFails /\ UNCHANGED status
         \/ Reachable /\ (looked => Running(B) /\ equal /\ in) /\ Goto("next") /\ UNCHANGED status
         \/ looked /\ Running(B) /\ equal /\ ~in /\ Dynamic("in", "next")
         \/ looked /\ Running(B) /\ ~equal /\ in /\ Dynamic("out", "alter")
         \/ looked /\ Running(B) /\ ~equal /\ ~in /\ Goto("alter") /\ UNCHANGED status
  /\ UNCHANGED <<scene, spec, pod, left, volumeVars, podVars>>

\* The new configuration is validated, then set.
AlterDynamic ==
  /\ At("alter")
  /\ \/ /\ Running(B) /\ Spend("invalid")
        /\ LET new == [status EXCEPT !.dynamic[B] = "error", !.entry[B] = TRUE] IN
             /\ status' = new
             /\ w' = [w EXCEPT !.pc = "next", !.failed = TRUE, !.cr = [spec |-> spec, status |-> new]]
        /\ UNCHANGED pod
     \/ /\ Running(B)
        /\ pod' = [pod EXCEPT ![B].address = map[B].address]
        /\ Goto("altered") /\ UNCHANGED <<status, left>>
     \/ ~Running(B) /\ DynamicFails /\ UNCHANGED <<status, pod, left>>
  /\ UNCHANGED <<scene, spec, volumeVars, podVars>>

DynamicInSync ==
  /\ At("altered")
  /\ \/ Running(B) /\ Dynamic("in", "next")
     \/ ~Running(B) /\ DynamicFails /\ UNCHANGED status
  /\ UNCHANGED <<scene, spec, pod, left, volumeVars, podVars>>

\* The end of a pass that met no error.
FinishPass ==
  /\ At("next") /\ w.todo = {}
  /\ \/ (w.failed \/ ~Reachable) /\ UNCHANGED status
     \/ ~w.failed /\ Reachable /\ status' = [status EXCEPT !.state = "running"]
  /\ EndPass
  /\ UNCHANGED <<scene, spec, pod, left, volumeVars, podVars>>

PodStep ==
  \/ ListBrokers \/ OrderBrokers \/ ReconcileMap \/ ConfigOutOfSync \/ ReconcilePod \/ PodInSync
  \/ WriteRack \/ WriteRackStatus \/ CompareBroker \/ CheckUpgrade \/ DeletePod
  \/ AskVersion \/ ReconcileDynamic \/ AlterDynamic \/ DynamicInSync \/ FinishPass

-----------------------------------------------------------------------------
(* (external) Kubernetes and Kafka. *)

\* A pod is scheduled with claims that are not going away.
PodIsScheduled(b) ==
  /\ pod[b].phase = "created" /\ \A p \in pod[b].disks : claim[b][p] \in {"pending", "bound"}
  /\ pod' = [pod EXCEPT ![b].phase = "waiting"]
  /\ claim' = [claim EXCEPT ![b] = [p \in Paths |-> IF p \in pod[b].disks THEN "bound" ELSE @[p]]]
  /\ UNCHANGED <<scene, spec, status, w, left, drained, opVars, task, podVars>>

\* It starts once it can mount its configuration map.
PodStarts(b) ==
  /\ pod[b].phase = "waiting" /\ map[b].exists
  /\ pod' = [pod EXCEPT ![b].phase = "running", ![b].static = map[b].static,
                        ![b].address = map[b].address]
  /\ restarted' = restarted \ {b}
  /\ UNCHANGED <<scene, spec, status, w, left, volumeVars, map, sync>>

PodStops(b) ==
  /\ pod[b].phase = "stopping"
  /\ pod' = [pod EXCEPT ![b] = NoPod]
  /\ sync' = [sync EXCEPT ![b] = FALSE]
  /\ UNCHANGED <<scene, spec, status, w, left, volumeVars, map, restarted>>

\* The replicas of a broker that runs catch up.
CatchUp(b) ==
  /\ Running(b) /\ ~sync[b]
  /\ sync' = [sync EXCEPT ![b] = TRUE]
  /\ UNCHANGED <<objectVars, volumeVars, map, restarted>>

\* A container ends, or the pod is evicted from its node.
PodBreaks(b) ==
  /\ Running(b)
  /\ \/ Spend("break") /\ pod' = [pod EXCEPT ![b].phase = "terminated"]
     \/ Spend("evict") /\ pod' = [pod EXCEPT ![b].phase = "evicted"]
  /\ sync' = [sync EXCEPT ![b] = FALSE]
  /\ UNCHANGED <<scene, spec, status, w, volumeVars, map, restarted>>
=============================================================================
