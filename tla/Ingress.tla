------------------------------- MODULE Ingress -------------------------------
(***************************************************************************)
(* The way in from outside the cluster: the services of an external        *)
(* listener, one for each ingress configuration, and the address that each *)
(* broker advertises.                                                      *)
(*                                                                         *)
(* An address is the name of the ingress configuration it leads through,   *)
(* or "node" for the node of the pod.  The way in is a load balancer of    *)
(* envoy or of istio, the proxy of contour, or a port of the nodes, as the *)
(* scene says.  Which host and port an address is, TLS and the port that   *)
(* leads to any broker are left out.                                       *)
(***************************************************************************)
EXTENDS BrokerObjects

\* service["node"] stands for the services of single brokers.
VARIABLES service   \* the service of each ingress configuration, and where its proxy leads

NoService == [exists |-> FALSE, ports |-> {}, routes |-> {}, address |-> FALSE]
Doors == Ingresses \cup {"node"}
LoadBalanced == scene.way \in {"envoy", "istio"}

\* A broker belongs to the ingress configuration of the spec, and to the one that was recorded
\* in the status when its pod was created.
ShouldIncludeBroker(cr, b, i) == i = cr.spec[b].ingress \/ i = cr.status.ingress[b]
IsIngressConfigInUse(cr, i) == \E b \in InScene : ShouldIncludeBroker(cr, b, i)
InUseFor(cr) == {i \in Ingresses : IsIngressConfigInUse(cr, i)}

\* The pass begins.
StartPass ==
  /\ At("idle")
  /\ LET new == IF status.state = "upgrading" THEN status
                ELSE [status EXCEPT !.state = "reconciling"]
     IN  /\ status' = new
         /\ w' = [Idle EXCEPT !.pc = IF LoadBalanced THEN "ingress" ELSE "nodeports",
                              !.cr = [spec |-> spec, status |-> new],
                              !.doors = InUseFor([spec |-> spec, status |-> new])]
  /\ UNCHANGED <<scene, spec, pod, left, service>>

InUse == InUseFor(w.cr)
Included(i) == {b \in InScene : ShouldIncludeBroker(w.cr, b, i)}

\* The ports of the service of envoy, or of the mesh gateway of istio.
ExposedServicePorts(i) == Included(i)
ExternalPorts(i) == Included(i)

\* The brokers that the configuration of envoy knows; those of the gateway and of the virtual
\* service of istio.
EnvoyConfig(i) == Included(i)
Servers(i) == Included(i)
TcpRoutes(i) == Included(i)

\* The ingress configurations in use one after the other, in any order: their services are made or
\* brought up to date, the others stay.
ReconcileIngress(i) ==
  /\ At("ingress") /\ i \in w.doors
  /\ service' = [service EXCEPT
       ![i].exists = TRUE,
       ![i].ports = IF scene.way = "envoy" THEN ExposedServicePorts(i) ELSE ExternalPorts(i)]
  /\ w' = [w EXCEPT !.pc = "routes", !.doors = @ \ {i}, !.door = i]
  /\ UNCHANGED <<scene, spec, status, pod, left>>

\* Behind each comes what it leads to.
ReconcileRoutes ==
  /\ At("routes")
  /\ service' = [service EXCEPT ![w.door].routes = IF scene.way = "envoy" THEN EnvoyConfig(w.door)
                                                  ELSE Servers(w.door) \cap TcpRoutes(w.door)]
  /\ Goto(IF w.doors = {} THEN "listeners" ELSE "ingress")
  /\ UNCHANGED <<scene, spec, status, pod, left>>

\* A service for each broker, with a port of the nodes.  Services of these names that no
\* listener asks for are removed, if the cluster says so.
NodePorts == {b \in InScene : scene.way = "nodeport"}

ReconcileNodePorts ==
  /\ At("nodeports")
  /\ service' = [service EXCEPT
       !["node"].ports = IF scene.cleanup THEN NodePorts ELSE @ \cup NodePorts]
  /\ Goto(IF scene.way = "contour" THEN "contour" ELSE "listeners")
  /\ UNCHANGED <<scene, spec, status, pod, left>>

\* contour: a service and a proxy for each broker and configuration.  The name of the service
\* is the one that the node ports use.
BrokerServices == InScene
HttpProxies == InScene

ReconcileContour ==
  /\ At("contour")
  /\ service' = [i \in Doors |->
       CASE i = "node" -> [service[i] EXCEPT !.ports = BrokerServices]
         [] i \in InUse -> [service[i] EXCEPT !.exists = TRUE, !.address = TRUE, !.routes = HttpProxies]
         [] OTHER -> service[i]]
  /\ Goto("listeners")
  /\ UNCHANGED <<scene, spec, status, pod, left>>

\* The node of a pod; a pod that has none is no error.
NodeAddress(b) == IF pod[b].phase \in {"none", "created"} THEN "nowhere" ELSE "node"

\* getBrokerHost, for one of the configurations.
BrokerHost(b, i) == IF scene.way = "nodeport" THEN NodeAddress(b) ELSE i

\* getLoadBalancerIP.
HasAddress(i) == service[i].exists /\ service[i].address

\* The entry of each broker in the status of the listener.
ListenerStatuses(a) ==
  \A b \in InScene : \E i \in InUse : ShouldIncludeBroker(w.cr, b, i) /\ a[b] = BrokerHost(b, i)

\* Mutant: the addresses are published before the load balancers have them.
PublishListenersEarly ==
  /\ At("listeners")
  /\ \E a \in [InScene -> Doors \cup {"nowhere"}] :
       /\ ListenerStatuses(a)
       /\ w' = [w EXCEPT !.pc = "claims", !.address = a, !.todo = InScene,
                         !.cr = [spec |-> spec, status |-> status], !.spec = spec,
                         !.marks = NoMarks]
  /\ UNCHANGED <<scene, spec, status, pod, left, service>>

\* createExternalListenerStatuses waits for the address of every load balancer.  A broker with
\* two ingress configurations has two entries of the same name, in the order of a Go map: either
\* may be taken for its configuration.  (The addresses in the status are left out.)
PublishListeners ==
  /\ At("listeners")
  /\ IF LoadBalanced => \A i \in InUse : HasAddress(i)
     THEN \E a \in [InScene -> Doors \cup {"nowhere"}] :
            /\ ListenerStatuses(a)
            /\ w' = [w EXCEPT !.pc = "claims", !.address = a, !.todo = InScene,
                              !.cr = [spec |-> spec, status |-> status], !.spec = spec,
                              !.marks = NoMarks]
     ELSE EndPass
  /\ UNCHANGED <<scene, spec, status, pod, left, service>>

IngressStep ==
  \/ StartPass \/ (\E i \in Ingresses : ReconcileIngress(i)) \/ ReconcileRoutes
  \/ ReconcileNodePorts \/ ReconcileContour \/ PublishListeners

\* (external) The load balancer gets its address.
AssignAddress(i) ==
  /\ LoadBalanced /\ service[i].exists /\ ~service[i].address
  /\ service' = [service EXCEPT ![i].address = TRUE]
  /\ UNCHANGED objectVars
=============================================================================
