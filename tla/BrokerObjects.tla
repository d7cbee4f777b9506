---------------------------- MODULE BrokerObjects ----------------------------
(***************************************************************************)
(* What one pass of the KafkaCluster controller works on: the KafkaCluster *)
(* resource, the pods of the brokers, the worker and the budget of events. *)
(*                                                                         *)
(* The pass reads the resource once.  A write of the status that meets a   *)
(* newer resource reads it again and repeats the write, so that every      *)
(* status write brings the worker's copy up to date; a write of the spec   *)
(* that meets a newer resource fails.  Pods are read from a cache: in a    *)
(* scene with lag it shows what there was when the loop over the brokers   *)
(* began.  A call that fails ends the pass like a crash does.              *)
(***************************************************************************)
EXTENDS Integers, FiniteSets

CONSTANTS
  Brokers,   \* broker IDs
  Paths,     \* mount paths of volumes
  OpIds,     \* the disk operations that can be created, as numbers
  Ingresses, \* ingress configurations of the external listener
  Scenes     \* initial situations and budgets of events

ASSUME BrokersAssumption == Brokers \subseteq Nat \ {0} /\ IsFiniteSet(Brokers)
ASSUME IngressesAssumption == Ingresses \cap {"", "node", "nowhere"} = {}
ASSUME PathsAssumption == Paths \subseteq Nat \ {0} /\ IsFiniteSet(Paths)
ASSUME OpIdsAssumption == OpIds \subseteq Nat \ {0} /\ IsFiniteSet(OpIds)

Events == {"version", "config", "ingress", "disks", "taint", "break", "evict", "alert", "invalid",
           "error", "opEdit", "expire", "fail", "crash"}

\* What a scene says: the brokers and the controller of Kafka; whether pods are read from a stale
\* cache; whether the cluster is rack aware, and the racks; the concurrent restarts and the failure
\* threshold of the rolling upgrade; whether the cluster is not there yet; whether the brokers have
\* dynamic configuration of their own; the way in and whether unused ingress resources are removed;
\* the volumes at the start, and those the user adds and takes away; how often each event may
\* happen.
ASSUME ScenesAssumption ==
  \A s \in Scenes :
    /\ s.brokers \subseteq Brokers /\ s.brokers # {} /\ s.controller \in Brokers
    /\ {s.lag, s.rackAware, s.fresh, s.own, s.cleanup} \subseteq BOOLEAN
    /\ s.limit \in Nat \ {0} /\ s.threshold \in Nat
    /\ s.ingress \in Ingresses /\ s.way \in {"envoy", "istio", "contour", "nodeport"}
    /\ s.disks \subseteq Paths /\ s.spare \subseteq Paths
    /\ s.budget \in [Events -> Nat]

VARIABLES
  scene,
  spec,     \* the brokers in the spec of the KafkaCluster
  status,   \* its status
  pod,      \* the pod of each broker
  w,        \* the worker
  left      \* what is left of the budget

objectVars == <<scene, spec, status, pod, w, left>>

InScene == scene.brokers

\* The entry of a broker in the spec: what makes its pod, its read-only configuration with or
\* without the rack that the operator adds, its ingress configuration, its volumes.
SpecEntry == [version : 0..1, config : {"user", "new", "erased"}, rack : BOOLEAN,
              ingress : Ingresses, disks : SUBSET Paths]

\* The part of a configuration that is read at the start of a broker.
Static(config, rack, dirs) == [config |-> config, rack |-> rack, dirs |-> dirs]

NoPod == [phase |-> "none", version |-> 0, static |-> Static("user", FALSE, <<>>),
          address |-> "", disks |-> {}, taint |-> FALSE]

Phases == {"none", "created", "waiting", "running", "stopping", "terminated", "evicted"}
Running(b) == pod[b].phase = "running"

\* The entry of a volume in the status: CruiseControlVolumeState, as what is asked for and how far
\* it has come, and the operation it refers to, if any.
Stages == {"Required", "Scheduled", "Running", "Succeeded", "CompletedWithError", "Paused"}
NoOp == 0
NoVolume == [kind |-> "", stage |-> "", ref |-> NoOp]
Volume(kind, stage, ref) == [kind |-> kind, stage |-> stage, ref |-> ref]
VolumeStates ==
  {NoVolume} \cup [kind : {"rebalance", "remove"}, stage : Stages, ref : OpIds \cup {NoOp}]

IsDiskRemoval(v) == v.kind = "remove" /\ v.stage # "Succeeded"
IsDiskRebalance(v) == v.kind = "rebalance" /\ v.stage # "Succeeded"
IsDiskRemovalSucceeded(v) == v.kind = "remove" /\ v.stage = "Succeeded"
IsDiskRebalanceSucceeded(v) == v.kind = "rebalance" /\ v.stage = "Succeeded"

NoMarks == [b \in Brokers |-> [p \in Paths |-> NoVolume]]

Spend(e) == left[e] > 0 /\ left' = [left EXCEPT ![e] = @ - 1]
Unspent(e) == left[e] = scene.budget[e]

-----------------------------------------------------------------------------
(* The worker. *)

Idle == [pc |-> "idle", cr |-> <<>>, spec |-> <<>>, pods |-> <<>>, todo |-> {}, broker |-> 0,
         path |-> 0, doors |-> {}, door |-> "", address |-> <<>>, marks |-> <<>>, wait |-> FALSE,
         failed |-> FALSE]

At(pc) == w.pc = pc
Goto(pc) == w' = [w EXCEPT !.pc = pc]
EndPass == w' = Idle

\* What the cache shows of the pods.
Listed == IF scene.lag THEN w.pods ELSE pod

\* A write of the status.
WriteStatus(new, pc) ==
  /\ status' = new
  /\ w' = [w EXCEPT !.pc = pc, !.cr = [spec |-> spec, status |-> new]]

\* Whether the worker's copy is still what the API server has.
UpToDateCopy == w.cr = [spec |-> spec, status |-> status]
=============================================================================
