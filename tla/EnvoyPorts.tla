----------------------------- MODULE EnvoyPorts -----------------------------
(***************************************************************************)
(* The port numbers of an external listener behind envoy: what the         *)
(* admission webhook of the KafkaCluster lets through, the services and    *)
(* the configuration of envoy that the operator makes of it, and whether   *)
(* the port that a broker advertises leads to that broker.                 *)
(*                                                                         *)
(* There is one internal and one external listener and one ingress         *)
(* configuration, the global one.  Additional ports of the user are left   *)
(* out.                                                                    *)
(***************************************************************************)
EXTENDS Integers, FiniteSets

CONSTANTS
  Brokers,     \* broker IDs
  Ports,       \* the port numbers that users write
  MaxPort,     \* the largest port number
  MetricsPort, \* the port of the metrics of a broker
  Default,     \* the spec at the start
  MaxEdits     \* how often users edit the spec and passes are cut short

ASSUME BrokersAssumption == Brokers \subseteq Nat
ASSUME PortsAssumption == MaxPort \in Nat /\ Ports \subseteq 1..MaxPort /\ MetricsPort \in Ports

VARIABLES
  spec,        \* the KafkaCluster: ports, brokers and access method
  status,      \* the brokers with an entry in its status, and the port each advertises
  w,           \* the pass of the operator
  service,     \* the service of envoy
  config,      \* the listeners in the configuration map of envoy
  envoy,       \* the listeners and the named ports of the envoy that runs
  edits

vars == <<spec, status, w, service, config, envoy, edits>>

\* A starting port of -1 stands for TLS: the brokers share a port and are told apart by name.
SpecType == [brokers : SUBSET Brokers, start : {-1, 0} \cup Ports, anycast : Ports, target : Ports,
             admin : Ports, health : Ports, inner : Ports, outer : Ports, lb : BOOLEAN]

TLSEnabled(s) == s.start = -1
GetExternalPortForBroker(s, b) == s.start + b
GetBrokerPort(s, b) == IF TLSEnabled(s) THEN s.anycast ELSE s.start + b

-----------------------------------------------------------------------------
(* The webhook. *)

CheckUniqueListenerContainerPort(s) == s.inner # s.outer

\* The ports of the brokers in the spec are numbers of ports, and not taken inside envoy.
CheckExternalListenerStartingPort(s) ==
  \A b \in s.brokers : LET p == GetExternalPortForBroker(s, b) IN
    p >= 1 /\ p <= MaxPort /\ p \notin {s.target, s.admin, s.health}

\* Mutant: the two ports of envoy itself are not compared.
CheckTargetPortsCollisionForEnvoyApart(s) == s.lb => s.target \notin {s.admin, s.health}

CheckTargetPortsCollisionForEnvoy(s) ==
  /\ s.admin # s.health
  /\ s.lb => s.target \notin {s.admin, s.health}

ValidateUpdate(s) ==
  /\ CheckUniqueListenerContainerPort(s)
  /\ CheckExternalListenerStartingPort(s)
  /\ CheckTargetPortsCollisionForEnvoy(s)

ASSUME DefaultAssumption == Default \in SpecType /\ ValidateUpdate(Default) /\ Default.lb

-----------------------------------------------------------------------------
(* What is made of a spec. *)

Port(name, id, port) == [name |-> name, id |-> id, port |-> port]
AnyBroker == -1

\* A broker that is in the status and not in the spec has no configuration, and a broker without
\* a configuration is left out.
Included(cr) == {b \in cr.spec.brokers \cup DOMAIN cr.status : b \in cr.spec.brokers}

ServicePorts(cr) ==
  LET s == cr.spec IN
    (IF TLSEnabled(s) THEN {} ELSE {Port("broker", b, GetBrokerPort(s, b)) : b \in Included(cr)})
    \cup {Port("any", AnyBroker, s.anycast), Port("health", AnyBroker, s.health),
          Port("admin", AnyBroker, s.admin)}

\* Mutant: TLS is forgotten.
ListenersPlain(cr) ==
  LET s == cr.spec IN
    {[port |-> GetExternalPortForBroker(s, b), to |-> b] : b \in Included(cr)}
    \cup {[port |-> s.anycast, to |-> AnyBroker]}

\* The listeners of envoy.  Those of one port are one listener with several filter chains.
Listeners(cr) ==
  LET s == cr.spec IN
    {[port |-> GetBrokerPort(s, b), to |-> b] : b \in Included(cr)}
    \cup {[port |-> s.anycast, to |-> AnyBroker]}

\* The ports of the container by name; with TLS the brokers have none of their own.
ExposedContainerPorts(cr) ==
  LET s == cr.spec IN
    (IF TLSEnabled(s) THEN {} ELSE {Port("broker", b, GetBrokerPort(s, b)) : b \in Included(cr)})
    \cup {Port("any", AnyBroker, s.target)}

\* The service of a broker inside the cluster.
KafkaServicePorts(cr) ==
  {Port("inner", 0, cr.spec.inner), Port("outer", 0, cr.spec.outer), Port("metrics", 0, MetricsPort)}

\* (external) The API server refuses a service that has a port twice.
Accepted(ps) == \A p, q \in ps : p.port \in 1..MaxPort /\ (p.port = q.port => p = q)

-----------------------------------------------------------------------------
(* A pass: envoy first, then Kafka. *)

At(pc) == w.pc = pc
Goto(pc) == w' = [w EXCEPT !.pc = pc]
NoPass == [pc |-> "idle", cr |-> <<>>]

StartPass ==
  /\ At("idle")
  /\ w' = [pc |-> IF spec.lb THEN "service" ELSE "kafka", cr |-> [spec |-> spec, status |-> status]]
  /\ UNCHANGED <<spec, status, service, config, envoy, edits>>

\* A service that is refused ends the pass.
ReconcileService ==
  /\ At("service")
  /\ LET ps == ServicePorts(w.cr) IN
       IF Accepted(ps) THEN service' = ps /\ Goto("config")
       ELSE w' = NoPass /\ UNCHANGED service
  /\ UNCHANGED <<spec, status, config, envoy, edits>>

ReconcileConfigMap ==
  /\ At("config")
  /\ config' = Listeners(w.cr)
  /\ Goto("deployment")
  /\ UNCHANGED <<spec, status, service, envoy, edits>>

\* The pods of envoy start again when the hash of the configuration changes.
ReconcileDeployment ==
  /\ At("deployment")
  /\ envoy' = [listeners |-> config, ports |-> ExposedContainerPorts(w.cr)]
  /\ Goto("kafka")
  /\ UNCHANGED <<spec, status, service, config, edits>>

\* The services and the pods of the brokers in the spec are made, and brokers that have been
\* drained are removed.
ReconcileKafka ==
  /\ At("kafka")
  /\ \/ ~Accepted(KafkaServicePorts(w.cr)) /\ UNCHANGED status
     \/ /\ Accepted(KafkaServicePorts(w.cr))
        /\ \E drained \in SUBSET (DOMAIN status \ w.cr.spec.brokers) :
             status' = [b \in (DOMAIN status \cup w.cr.spec.brokers) \ drained |->
                          IF b \in w.cr.spec.brokers THEN GetBrokerPort(w.cr.spec, b) ELSE status[b]]
  /\ w' = NoPass
  /\ UNCHANGED <<spec, service, config, envoy, edits>>

Worker == StartPass \/ ReconcileService \/ ReconcileConfigMap \/ ReconcileDeployment \/ ReconcileKafka

-----------------------------------------------------------------------------
(* The users and the cluster. *)

Spend == edits < MaxEdits /\ edits' = edits + 1

\* The edits of one field.
Edited(s) ==
  {[s EXCEPT !.brokers = bs] : bs \in SUBSET Brokers}
  \cup {[s EXCEPT !.start = p] : p \in {-1, 0} \cup Ports}
  \cup {[s EXCEPT !.anycast = p] : p \in Ports}
  \cup {[s EXCEPT !.target = p] : p \in Ports}
  \cup {[s EXCEPT !.admin = p] : p \in Ports}
  \cup {[s EXCEPT !.health = p] : p \in Ports}
  \cup {[s EXCEPT !.inner = p] : p \in Ports}
  \cup {[s EXCEPT !.outer = p] : p \in Ports}
  \cup {[s EXCEPT !.lb = ~@]}

\* An edit goes through the webhook.
UserEdits ==
  /\ Spend
  /\ \E s \in Edited(spec) : ValidateUpdate(s) /\ spec' = s
  /\ UNCHANGED <<status, w, service, config, envoy>>

\* The operator crashes, or a call of the pass fails.
Crash ==
  /\ ~At("idle") /\ Spend
  /\ w' = NoPass
  /\ UNCHANGED <<spec, status, service, config, envoy>>

\* A cluster at rest.
Init ==
  /\ spec = Default
  /\ status = [b \in Default.brokers |-> GetBrokerPort(Default, b)]
  /\ w = NoPass
  /\ LET cr == [spec |-> spec, status |-> status]
     IN  /\ service = ServicePorts(cr)
         /\ config = Listeners(cr)
         /\ envoy = [listeners |-> Listeners(cr), ports |-> ExposedContainerPorts(cr)]
  /\ edits = 0

Next == Worker \/ UserEdits \/ Crash

Spec == Init /\ [][Next]_vars

\* A pass that fails is queued again, and one that succeeds is followed by the next resync.
FairSpec == Spec /\ WF_vars(Worker)

-----------------------------------------------------------------------------
(* What must hold. *)

\* What the webhook does not look at: the port for any broker, which has to differ from the others
\* of the service, and the port of the metrics.
Unchecked(s) ==
  \/ s.anycast \in {s.health, s.admin}
  \/ ~TLSEnabled(s) /\ \E b \in s.brokers : GetBrokerPort(s, b) = s.anycast
  \/ MetricsPort \in {s.inner, s.outer}

\* A spec that the webhook of the KafkaCluster lets through makes services that the API server
\* accepts, but for what it does not look at: no pass of the operator gets stuck at them.
ServicesApply ==
  ~At("idle") /\ ~Unchecked(w.cr.spec) =>
    Accepted(KafkaServicePorts(w.cr)) /\ (w.cr.spec.lb => Accepted(ServicePorts(w.cr)))

\* The advertised port of a broker is one of the service, and envoy leads from there to the broker.
\* The port for any broker goes to a container port that has a name, the others to their number.
Reachable(b) ==
  \E p \in service :
    /\ p.port = status[b]
    /\ \E port \in IF p.name = "any" THEN {q.port : q \in {r \in envoy.ports : r.name = "any"}}
                   ELSE {p.port} :
         [port |-> port, to |-> b] \in envoy.listeners

\* Whatever has been edited, in the end every broker of the spec can be reached through envoy by
\* the port that it advertises.  With TLS the port for any broker must be the port that envoy
\* is given for its traffic: envoy listens on the one, and the service leads to the other.
BrokersReachable ==
  <>[](\/ Unchecked(spec) \/ ~spec.lb
       \/ TLSEnabled(spec) /\ spec.anycast # spec.target
       \/ \A b \in spec.brokers : b \in DOMAIN status /\ Reachable(b))

\* A broker that is on its way out of the cluster can be reached until it is gone.
LeavingIsReachable == \A b \in DOMAIN status \ spec.brokers : Reachable(b)
=============================================================================
