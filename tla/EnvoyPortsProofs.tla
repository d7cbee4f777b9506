-------------------------- MODULE EnvoyPortsProofs --------------------------
(***************************************************************************)
(* What the webhook of the KafkaCluster guarantees, for all broker IDs and *)
(* all ports: ServicesApply.                                               *)
(*                                                                         *)
(* The invariant says that the spec has passed the webhook, and so has the *)
(* copy of it that a pass works on, although the spec may have been edited *)
(* since.                                                                  *)
(***************************************************************************)
EXTENDS EnvoyPorts, TLAPS

\* The spec, and the copy of the pass, have their type and have passed ValidateUpdate.
AdmittedInv ==
  /\ spec \in SpecType /\ ValidateUpdate(spec)
  /\ w = [pc |-> w.pc, cr |-> w.cr]
  /\ w.pc # "idle" => w.cr.spec \in SpecType /\ ValidateUpdate(w.cr.spec)

\* An edit of one field leaves a spec of the same type.
LEMMA EditedType ==
  ASSUME NEW s \in SpecType, NEW t \in Edited(s)
  PROVE  t \in SpecType
<1>1. \A bs \in SUBSET Brokers : [s EXCEPT !.brokers = bs] \in SpecType
  BY DEF SpecType
<1>2. \A p \in {-1, 0} \cup Ports : [s EXCEPT !.start = p] \in SpecType
  BY DEF SpecType
<1>3. \A p \in Ports : /\ [s EXCEPT !.anycast = p] \in SpecType
                       /\ [s EXCEPT !.target = p] \in SpecType
  BY DEF SpecType
<1>4. \A p \in Ports : /\ [s EXCEPT !.admin = p] \in SpecType
                       /\ [s EXCEPT !.health = p] \in SpecType
  BY DEF SpecType
<1>5. \A p \in Ports : /\ [s EXCEPT !.inner = p] \in SpecType
                       /\ [s EXCEPT !.outer = p] \in SpecType
  BY DEF SpecType
<1>6. [s EXCEPT !.lb = ~@] \in SpecType
  BY DEF SpecType
<1> QED BY <1>1, <1>2, <1>3, <1>4, <1>5, <1>6 DEF Edited

\* What getExposedServicePorts makes of a spec that checkExternalListenerStartingPort and
\* checkTargetPortsCollisionForEnvoy let through is a service without a port twice.
LEMMA EnvoyServiceAccepted ==
  ASSUME NEW c, c.spec \in SpecType, ValidateUpdate(c.spec), ~Unchecked(c.spec)
  PROVE  Accepted(ServicePorts(c))
<1> DEFINE s == c.spec
           Others == {Port("any", AnyBroker, s.anycast), Port("health", AnyBroker, s.health),
                      Port("admin", AnyBroker, s.admin)}
           OfBrokers == {Port("broker", b, s.start + b) : b \in s.brokers}
<1>0. s.brokers \subseteq Nat /\ s.start \in Int
  <2>1. s.brokers \subseteq Brokers /\ s.start \in {-1, 0} \cup Ports
    BY DEF SpecType
  <2>2. {-1, 0} \cup Ports \subseteq Int
    BY PortsAssumption
  <2> QED BY <2>1, <2>2, BrokersAssumption
<1>1. /\ {s.anycast, s.health, s.admin} \subseteq 1..MaxPort
      /\ s.anycast # s.health /\ s.anycast # s.admin /\ s.health # s.admin
  BY PortsAssumption DEF SpecType, Unchecked, ValidateUpdate, CheckTargetPortsCollisionForEnvoy
<1>2. \A p, q \in Others : p.port \in 1..MaxPort /\ (p.port = q.port => p = q)
  BY <1>1 DEF Port
<1>3. CASE TLSEnabled(s)
  <2>1. ServicePorts(c) = Others
    BY <1>3 DEF ServicePorts
  <2> QED BY <1>2, <2>1 DEF Accepted
<1>4. CASE ~TLSEnabled(s)
  <2>1. ServicePorts(c) = OfBrokers \cup Others
    BY <1>4 DEF ServicePorts, Included, GetBrokerPort
  <2>2. \A b \in s.brokers : /\ s.start + b \in 1..MaxPort
                             /\ s.start + b \notin {s.anycast, s.health, s.admin}
    BY <1>0, <1>4, PortsAssumption
    DEF ValidateUpdate, CheckExternalListenerStartingPort, GetExternalPortForBroker, Unchecked,
        GetBrokerPort
  <2>3. \A p, q \in OfBrokers : p.port \in 1..MaxPort /\ (p.port = q.port => p = q)
    BY <1>0, <2>2 DEF Port
  <2>4. \A p \in OfBrokers, q \in Others : p.port # q.port
    BY <2>2 DEF Port
  <2> QED BY <1>2, <2>1, <2>3, <2>4 DEF Accepted
<1> QED BY <1>3, <1>4

\* The same for the services of the brokers and checkUniqueListenerContainerPort.
LEMMA KafkaServiceAccepted ==
  ASSUME NEW c, c.spec \in SpecType, ValidateUpdate(c.spec), ~Unchecked(c.spec)
  PROVE  Accepted(KafkaServicePorts(c))
<1>1. /\ {c.spec.inner, c.spec.outer, MetricsPort} \subseteq 1..MaxPort
      /\ c.spec.inner # c.spec.outer
      /\ MetricsPort # c.spec.inner /\ MetricsPort # c.spec.outer
  BY PortsAssumption
  DEF SpecType, Unchecked, ValidateUpdate, CheckUniqueListenerContainerPort
<1> QED BY <1>1 DEF Accepted, KafkaServicePorts, Port

\* The spec at the API server has passed the webhook, and so has the one a pass works on.
THEOREM Admitted == Spec => []AdmittedInv
<1>1. Init => AdmittedInv
  BY DefaultAssumption DEF Init, AdmittedInv, NoPass
<1>2. AdmittedInv /\ [Next]_vars => AdmittedInv'
  <2> SUFFICES ASSUME AdmittedInv, [Next]_vars
               PROVE  AdmittedInv'
    OBVIOUS
  <2>1. CASE StartPass
    BY <2>1 DEF StartPass, AdmittedInv, At
  <2>2. CASE ReconcileService
    BY <2>2 DEF ReconcileService, AdmittedInv, At, Goto, NoPass
  <2>3. CASE ReconcileConfigMap
    BY <2>3 DEF ReconcileConfigMap, AdmittedInv, At, Goto
  <2>4. CASE ReconcileDeployment
    BY <2>4 DEF ReconcileDeployment, AdmittedInv, At, Goto
  <2>5. CASE ReconcileKafka
    BY <2>5 DEF ReconcileKafka, AdmittedInv, NoPass
  <2>6. CASE UserEdits
    BY <2>6, EditedType DEF UserEdits, AdmittedInv
  <2>7. CASE Crash
    BY <2>7 DEF Crash, AdmittedInv, NoPass
  <2>8. CASE UNCHANGED vars
    BY <2>8 DEF AdmittedInv, vars
  <2> QED BY <2>1, <2>2, <2>3, <2>4, <2>5, <2>6, <2>7, <2>8 DEF Next, Worker
<1> QED BY <1>1, <1>2, PTL DEF Spec

\* No pass is stopped by a service that the API server refuses, whatever the ports and the brokers
\* are, but for the ports that the webhook does not look at.
THEOREM ServicesAlwaysApply == Spec => []ServicesApply
<1>1. AdmittedInv => ServicesApply
  BY EnvoyServiceAccepted, KafkaServiceAccepted DEF AdmittedInv, ServicesApply, At
<1> QED BY <1>1, Admitted, PTL
=============================================================================
