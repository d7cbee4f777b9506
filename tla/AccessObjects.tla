---------------------------- MODULE AccessObjects ----------------------------
(***************************************************************************)
(* What the controllers of KafkaTopic, KafkaUser and KafkaCluster share:   *)
(* the KafkaCluster they refer to, its copy in the informer cache, Kafka's *)
(* reachability and the budget of events.                                  *)
(*                                                                         *)
(* Objects are read from a cache that lags and written to the API server,  *)
(* which refuses an object that is not its latest.  Two versions of an     *)
(* object with equal contents are one version.  An object that is marked   *)
(* for deletion disappears with its last finalizer.                        *)
(***************************************************************************)
EXTENDS Integers, Sequences, FiniteSets

CONSTANTS
  Topics,   \* KafkaTopic objects
  Users,    \* KafkaUser objects
  Scenes    \* initial situations and budgets of events

Finalizers == {"main", "topics", "users"}

Events == {"create", "edit", "strip", "delete", "teardown", "outage", "vanish", "expire",
           "fail", "crash"}

VARIABLES
  scene,
  cluster,      \* the KafkaCluster at the API server
  clusterSeen,  \* ... and in the cache
  up,           \* the brokers answer
  secret,       \* the secret of each KafkaUser: what it holds
  left          \* what is left of the budget

sharedVars == <<scene, cluster, clusterSeen, up, left>>

NoCluster == [exists |-> FALSE, deleted |-> FALSE, fins |-> {}]

\* The API server on a write of obj: finalizers and the mark for deletion decide.
StoredCluster(obj) == IF obj.deleted /\ obj.fins = {} THEN NoCluster ELSE obj

Spend(e) == left[e] > 0 /\ left' = [left EXCEPT ![e] = @ - 1]

\* The KafkaUser that holds the certificate of the operator, when the listeners use TLS.
ControllerUsers == {u \in Users : scene.users[u].controller}

\* GetClientTLSConfig: the secret must hold the certificate, its key and the CA.
GetClientTLSConfig(u) == secret[u] = "full"

ClusterConfig == \A u \in ControllerUsers : GetClientTLSConfig(u)

\* NewFromCluster: the configuration, then Open, which needs the brokers.
CanConnect == ClusterConfig /\ up
=============================================================================
