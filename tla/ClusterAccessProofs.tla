------------------------- MODULE ClusterAccessProofs -------------------------
(***************************************************************************)
(* What ClusterAccess keeps for all sets of topics and users, all scenes   *)
(* and all budgets of edits, failures and restarts: the types, that a      *)
(* finalized topic is gone, that the teardown finishes the topics before   *)
(* the users, and the promise of a KafkaUser's status.                     *)
(*                                                                         *)
(* A controller decides on an object it has read and acts some calls       *)
(* later. The invariants carry what a worker has found out to the write it *)
(* leads to: UnfinIsSafe from the answer of Kafka to the removal of the    *)
(* finalizer, Certified and GrantsDone from the backend and the ACLs to    *)
(* the status. What the others may do meanwhile is summed up for one topic *)
(* (Evolves) and for one user (UserEvolves, WorkerMoves, SecretStays), so  *)
(* that each invariant is shown against the summary and not against every  *)
(* action.                                                                 *)
(***************************************************************************)
EXTENDS ClusterAccess, TLAPS

-----------------------------------------------------------------------------
(* Types. *)

\* Where a worker of the KafkaTopic controller may stand: the calls of
\* kafkatopic_controller.go.
TopicPcs == {"idle", "managed", "connect", "create", "alter", "config", "label", "final", "status",
             "drop", "wait", "unfin"}
\* Where a worker of the KafkaUser controller may stand, the calls of its PKI backend
\* included.
UserPcs == {"idle", "cert", "inject", "mkcert", "secret", "key", "request", "annotate", "poll",
            "main", "revoke", "unfin", "label", "grant", "final", "status"}
\* Where the worker of the KafkaCluster controller may stand.
ClusterPcs == {"idle", "pki", "fins", "topics", "topics2", "list", "users", "users2",
               "finalizePKI", "main"}
\* What is in the secret of a user.
Secrets == {"none", "password", "key", "full"}
\* The states of a CertificateSigningRequest.
Requests == {"new", "approved", "issued", "gone"}

\* The spec of a KafkaTopic.
SpecRec == [parts : Int, rf : Int, cfg : Nat]
\* A KafkaTopic in the API server or in the cache.
TopicObj == [exists : BOOLEAN, deleted : BOOLEAN, fin : BOOLEAN, label : BOOLEAN,
             managed : BOOLEAN, by : {"", "koperator", "other"}, state : {"", "created"},
             spec : SpecRec]
\* A worker of the KafkaTopic controller.
TopicWork == [pc : TopicPcs, obj : TopicObj, label : BOOLEAN]
\* A topic in Kafka.
KafkaTopic == [parts : Nat, rf : Int, cfg : Nat, going : BOOLEAN]
\* A KafkaUser in the API server or in the cache.
UserObj == [exists : BOOLEAN, deleted : BOOLEAN, fin : BOOLEAN, label : BOOLEAN,
            state : {"", "created"}]
\* A worker of the KafkaUser controller.
UserWork == [pc : UserPcs, obj : UserObj, label : BOOLEAN, down : BOOLEAN,
             todo : SUBSET {"read", "write"}]
\* What a PKI backend keeps of a user.
PkiRec == [certificate : BOOLEAN, owned : BOOLEAN, requests : Seq(Requests), refers : Nat]
\* The KafkaCluster.
ClusterObj == [exists : BOOLEAN, deleted : BOOLEAN, fins : SUBSET Finalizers]
\* The worker of the KafkaCluster controller.
ClusterWork == [pc : ClusterPcs, obj : ClusterObj]

\* The types of the cluster and of what everybody shares.
SharedTypes ==
  /\ scene \in Scenes /\ cluster \in ClusterObj /\ clusterSeen \in ClusterObj
  /\ up \in BOOLEAN /\ left \in [Events -> Nat]
  /\ cw \in ClusterWork /\ cdue \in BOOLEAN

\* The types of the topics, in Kubernetes and in Kafka.
TopicTypes ==
  /\ topic \in [Topics -> TopicObj] /\ topicSeen \in [Topics -> TopicObj]
  /\ tw \in [Topics -> TopicWork] /\ tdue \subseteq Topics
  /\ kafka \in [Names -> KafkaTopic]

\* The request that a secret refers to has been made; the worker that polls it knows one.
PkiOk(w, p) == /\ p.refers <= Len(p.requests)
               /\ w.pc = "poll" => p.refers > 0
               /\ w.pc = "annotate" => Len(p.requests) > 0

\* The types of the users, their secrets and their requests.
UserTypes ==
  /\ user \in [Users -> UserObj] /\ userSeen \in [Users -> UserObj]
  /\ uw \in [Users -> UserWork] /\ udue \subseteq Users
  /\ secret \in [Users -> Secrets] /\ pki \in [Users -> PkiRec]
  /\ \A u \in Users : PkiOk(uw[u], pki[u])


\* The inductive form of TypeOK.
Types == SharedTypes /\ TopicTypes /\ UserTypes

\* The records that topics and their workers start from have their types.
LEMMA TopicConstants == /\ NoTopic \in TopicObj /\ GoneTopic \in TopicObj
                        /\ TopicWorker \in TopicWork /\ Missing \in KafkaTopic
<1>1. NoTopic \in TopicObj
  BY DEF NoTopic, TopicObj, NoSpec, SpecRec
<1>2. GoneTopic \in TopicObj
  BY <1>1 DEF GoneTopic, NoTopic, TopicObj
<1>3. TopicWorker \in TopicWork
  BY <1>1 DEF TopicWorker, TopicWork, TopicPcs
<1>4. Missing \in KafkaTopic
  BY DEF Missing, KafkaTopic
<1> QED BY <1>1, <1>2, <1>3, <1>4

\* The topics of a scene have their types; a settled one has a spec that Kafka has
\* accepted.
LEMMA InitTopics == ASSUME Init PROVE TopicTypes
<1> DEFINE settled == {t \in Topics : scene.topics[t].settled}
           First(t) == CHOOSE s \in scene.topics[t].specs : TRUE
<1>1. \A t \in Topics : TopicScene(scene.topics[t])
  BY SceneAssumption DEF Init
<1>2. \A t \in settled : First(t) \in SpecRec /\ ValidSpec(First(t))
  <2> SUFFICES ASSUME NEW t \in settled PROVE First(t) \in SpecRec /\ ValidSpec(First(t))
    OBVIOUS
  <2>1. scene.topics[t].specs # {} /\ \A x \in scene.topics[t].specs : ValidSpec(x)
    BY <1>1 DEF TopicScene
  <2>2. scene.topics[t].specs \subseteq SpecRec
    BY <1>1 DEF TopicScene, SpecRec
  <2> QED BY <2>1, <2>2
<1>3. NoTopic \in TopicObj
  BY TopicConstants
<1>4. \A s \in SpecRec : SettledTopic(s) \in TopicObj
  BY <1>3 DEF SettledTopic, TopicObj, NoTopic
<1>5. \A s \in SpecRec : ValidSpec(s) => OfSpec(s) \in KafkaTopic
  BY DEF OfSpec, ValidSpec, Actual, KafkaTopic, SpecRec
<1>6. Missing \in KafkaTopic
  BY TopicConstants
<1>7. TopicWorker \in TopicWork
  BY TopicConstants
<1> HIDE DEF First
<1>8. topic \in [Topics -> TopicObj]
  <2>1. topic = [t \in Topics |-> IF t \in settled THEN SettledTopic(First(t)) ELSE NoTopic]
    BY DEF Init, TopicInit, First
  <2> QED BY <2>1, <1>2, <1>3, <1>4
<1>9. kafka \in [Names -> KafkaTopic]
  <2>1. kafka = [n \in Names |->
                   IF \E t \in settled : Name(t) = n
                   THEN OfSpec(First(CHOOSE t \in settled : Name(t) = n)) ELSE Missing]
    BY DEF Init, TopicInit, First
  <2>2. ASSUME NEW n \in Names, \E t \in settled : Name(t) = n
        PROVE  OfSpec(First(CHOOSE t \in settled : Name(t) = n)) \in KafkaTopic
    <3> DEFINE c == CHOOSE t \in settled : Name(t) = n
    <3>1. c \in settled
      BY <2>2
    <3> HIDE DEF c
    <3> SUFFICES OfSpec(First(c)) \in KafkaTopic
      BY DEF c
    <3> QED BY <3>1, <1>2, <1>5
  <2> QED BY <2>1, <2>2, <1>6
<1>10. topicSeen = topic /\ tw = [t \in Topics |-> TopicWorker] /\ tdue = {}
  BY DEF Init, TopicInit
<1> QED BY <1>7, <1>8, <1>9, <1>10 DEF TopicTypes

\* What the API server stores of a KafkaTopic is a KafkaTopic.
LEMMA StoredTopicType == ASSUME NEW obj \in TopicObj PROVE StoredTopic(obj) \in TopicObj
BY TopicConstants DEF StoredTopic

\* The types of the KafkaTopic workers and of their queue.
WorkerTypes == tw \in [Topics -> TopicWork] /\ tdue \subseteq Topics

\* A worker that goes on to its next call keeps the types.
LEMMA TGotoTypes ==
  ASSUME WorkerTypes, NEW t \in Topics, NEW pc \in TopicPcs, TGoto(t, pc) PROVE WorkerTypes'
<1>1. [tw[t] EXCEPT !.pc = pc] \in TopicWork
  BY DEF WorkerTypes, TopicWork
<1> QED BY <1>1 DEF WorkerTypes, TGoto

\* So does one that is done,
LEMMA TDoneTypes == ASSUME WorkerTypes, NEW t \in Topics, TDone(t) PROVE WorkerTypes'
BY TopicConstants DEF WorkerTypes, TDone

\* one that fails and is queued again,
LEMMA TFailTypes == ASSUME WorkerTypes, NEW t \in Topics, TFail(t) PROVE WorkerTypes'
BY TopicConstants DEF WorkerTypes, TFail

\* and one that writes its object.
LEMMA TWriteTypes ==
  ASSUME WorkerTypes, topic \in [Topics -> TopicObj], NEW t \in Topics,
         NEW new \in TopicObj, NEW allowed, NEW pc \in TopicPcs, TWrite(t, new, allowed, pc)
  PROVE  WorkerTypes' /\ topic' \in [Topics -> TopicObj]
<1>1. CASE TFail(t) /\ UNCHANGED topic
  BY <1>1, TFailTypes
<1>2. CASE /\ topic' = [topic EXCEPT ![t] = StoredTopic(new)]
           /\ tw' = [tw EXCEPT ![t] = IF pc = "idle" THEN TopicWorker
                                      ELSE [@ EXCEPT !.pc = pc, !.obj = StoredTopic(new)]]
           /\ UNCHANGED tdue
  <2>1. StoredTopic(new) \in TopicObj
    BY StoredTopicType
  <2>2. [tw[t] EXCEPT !.pc = pc, !.obj = StoredTopic(new)] \in TopicWork
    BY <2>1 DEF WorkerTypes, TopicWork
  <2> QED BY <1>2, <2>1, <2>2, TopicConstants DEF WorkerTypes
<1> QED BY <1>1, <1>2 DEF TWrite

\* The topic of a KafkaTopic is one of those that Kafka may hold.
LEMMA NameInNames == ASSUME NEW t \in Topics PROVE Name(t) \in Names
BY DEF Names

\* The parts of TopicTypes that a step on a topic may touch.
LEMMA TopicTypesFrom ==
  ASSUME topic' \in [Topics -> TopicObj], topicSeen' \in [Topics -> TopicObj], WorkerTypes',
         kafka' \in [Names -> KafkaTopic], scene' = scene
  PROVE  TopicTypes'
<1>1. Names' = Names
  BY DEF Names, Name
<1> QED BY <1>1 DEF TopicTypes, WorkerTypes

\* A step of the KafkaTopic controller keeps the types of the topics.
LEMMA TopicStepTypes ==
  ASSUME Types, NEW t \in Topics, TopicStep(t) PROVE TopicTypes'
<1> DEFINE obj == tw[t].obj
<1>0. /\ topic \in [Topics -> TopicObj] /\ topicSeen \in [Topics -> TopicObj] /\ WorkerTypes
      /\ kafka \in [Names -> KafkaTopic] /\ Name(t) \in Names
  BY NameInNames DEF Types, TopicTypes, WorkerTypes
<1>1. obj \in TopicObj /\ tw[t] \in TopicWork
  BY <1>0 DEF WorkerTypes, TopicWork
<1>2. obj.spec \in SpecRec /\ kafka[Name(t)] \in KafkaTopic
  BY <1>0, <1>1 DEF TopicObj
<1> HIDE DEF obj
<1>3. CASE ReconcileTopic(t)
  <2>1. \A pc \in TopicPcs :
          [TopicWorker EXCEPT !.pc = pc, !.obj = topicSeen[t]] \in TopicWork
    <3>1. topicSeen[t] \in TopicObj
      BY <1>0
    <3> QED BY <3>1, TopicConstants DEF TopicWorker, TopicWork
  <2>2. "managed" \in TopicPcs /\ "unfin" \in TopicPcs
    BY DEF TopicPcs
  <2>3. WorkerTypes'
    BY <1>0, <1>3, <2>1, <2>2 DEF ReconcileTopic, WorkerTypes
  <2> QED BY <1>0, <1>3, <2>3, TopicTypesFrom DEF ReconcileTopic, sharedVars
<1>4. CASE ManagedBy(t)
  <2>1. \A b \in {"koperator", "other"} : [obj EXCEPT !.by = b] \in TopicObj
    BY <1>1 DEF TopicObj
  <2>2. "connect" \in TopicPcs
    BY DEF TopicPcs
  <2>3. WorkerTypes' /\ topic' \in [Topics -> TopicObj]
    <3> DEFINE b == IF obj.managed THEN "koperator" ELSE "other"
    <3>1. [obj EXCEPT !.by = b] \in TopicObj
      BY <2>1
    <3>2. \/ TGoto(t, "connect") /\ UNCHANGED topic
          \/ TWrite(t, [obj EXCEPT !.by = b], TRUE, "connect")
      BY <1>4 DEF ManagedBy, TStatusUpdate, obj
    <3> QED BY <1>0, <2>2, <3>1, <3>2, TGotoTypes, TWriteTypes
  <2> QED BY <1>0, <1>4, <2>3, TopicTypesFrom DEF ManagedBy, sharedVars
<1>5. CASE ConnectTopic(t)
  <2>1. \/ TFail(t) \/ TDone(t) \/ TGoto(t, "drop") \/ TGoto(t, "unfin") \/ TGoto(t, "create")
        \/ TGoto(t, "alter")
    BY <1>5 DEF ConnectTopic, CheckFinalizers
  <2>2. WorkerTypes'
    BY <1>0, <2>1, TGotoTypes, TDoneTypes, TFailTypes DEF TopicPcs
  <2> QED BY <1>0, <1>5, <2>2, TopicTypesFrom DEF ConnectTopic, sharedVars
<1>6. CASE CreateTopic(t)
  <2>1. WorkerTypes'
    BY <1>0, <1>6, TGotoTypes, TFailTypes DEF CreateTopic, TopicPcs
  <2>2. kafka' \in [Names -> KafkaTopic]
    <3>1. ASSUME ValidSpec(obj.spec) PROVE OfSpec(obj.spec) \in KafkaTopic
      BY <1>2, <3>1 DEF OfSpec, ValidSpec, Actual, KafkaTopic, SpecRec
    <3>2. \/ UNCHANGED kafka
          \/ ValidSpec(obj.spec) /\ kafka' = [kafka EXCEPT ![Name(t)] = OfSpec(obj.spec)]
      BY <1>6 DEF CreateTopic, KafkaTakes, obj
    <3> QED BY <1>0, <3>1, <3>2
  <2> QED BY <1>0, <1>6, <2>1, <2>2, TopicTypesFrom DEF CreateTopic, sharedVars
<1>7. CASE EnsurePartitionCount(t) \/ EnsureTopicConfig(t)
  <2>1. WorkerTypes'
    BY <1>0, <1>7, TGotoTypes, TFailTypes DEF EnsurePartitionCount, EnsureTopicConfig, TopicPcs
  <2>2. kafka' \in [Names -> KafkaTopic]
    <3> DEFINE k == kafka[Name(t)]
               k1 == [k EXCEPT !.parts = obj.spec.parts]
               k2 == [k EXCEPT !.cfg = obj.spec.cfg]
    <3>1. k \in KafkaTopic /\ obj.spec.parts \in Int /\ obj.spec.cfg \in Nat
      BY <1>2 DEF SpecRec
    <3>2. ASSUME k.parts <= obj.spec.parts PROVE k1 \in KafkaTopic
      <4>1. obj.spec.parts \in Nat
        BY <3>1, <3>2 DEF KafkaTopic
      <4> HIDE DEF k
      <4> QED BY <3>1, <4>1 DEF KafkaTopic
    <3>3. k2 \in KafkaTopic
      <4> HIDE DEF k
      <4> QED BY <3>1 DEF KafkaTopic
    <3>4. \/ UNCHANGED kafka
          \/ k.parts <= obj.spec.parts /\ kafka' = [kafka EXCEPT ![Name(t)] = k1]
          \/ kafka' = [kafka EXCEPT ![Name(t)] = k2]
      BY <1>0, <1>7 DEF EnsurePartitionCount, EnsureTopicConfig, obj
    <3> HIDE DEF k2, k1, k
    <3> QED BY <1>0, <3>2, <3>3, <3>4
  <2> QED BY <1>0, <1>7, <2>1, <2>2, TopicTypesFrom
          DEF EnsurePartitionCount, EnsureTopicConfig, sharedVars
<1>8. CASE LabelTopic(t)
  <2>1. [obj EXCEPT !.label = TRUE] \in TopicObj
    BY <1>1 DEF TopicObj
  <2>2. [[tw[t] EXCEPT !.pc = "final"] EXCEPT !.label = TRUE] \in TopicWork
    BY <1>1 DEF TopicWork, TopicPcs
  <2>3. WorkerTypes' /\ topic' \in [Topics -> TopicObj]
    <3>1. \/ /\ tw' = [tw EXCEPT ![t].pc = "final", ![t].label = TRUE]
             /\ UNCHANGED <<topic, tdue>>
          \/ TWrite(t, [obj EXCEPT !.label = TRUE], Admitted(t, [obj EXCEPT !.label = TRUE]), "final")
      BY <1>8 DEF LabelTopic, TUpdate, obj
    <3>2. CASE tw' = [tw EXCEPT ![t].pc = "final", ![t].label = TRUE] /\ UNCHANGED <<topic, tdue>>
      BY <1>0, <1>1, <2>2, <3>2 DEF WorkerTypes
    <3>3. CASE TWrite(t, [obj EXCEPT !.label = TRUE],
                      Admitted(t, [obj EXCEPT !.label = TRUE]), "final")
      <4>1. "final" \in TopicPcs
        BY DEF TopicPcs
      <4> QED BY <1>0, <2>1, <3>3, <4>1, TWriteTypes
    <3> QED BY <3>1, <3>2, <3>3
  <2> QED BY <1>0, <1>8, <2>3, TopicTypesFrom DEF LabelTopic, sharedVars
<1>9. CASE FinalizeLater(t)
  <2> DEFINE new == [obj EXCEPT !.fin = TRUE, !.label = @ \/ tw[t].label]
  <2>1. new \in TopicObj
    <3>1. (obj.label \/ tw[t].label) \in BOOLEAN
      OBVIOUS
    <3> QED BY <1>1, <3>1 DEF TopicObj, TopicWork
  <2>2. \/ TGoto(t, "status") /\ UNCHANGED topic
        \/ TWrite(t, new, Admitted(t, new), "status")
    BY <1>9 DEF FinalizeLater, TUpdate, obj
  <2> HIDE DEF new
  <2>3. "status" \in TopicPcs
    BY DEF TopicPcs
  <2>4. WorkerTypes' /\ topic' \in [Topics -> TopicObj]
    BY <1>0, <2>1, <2>2, <2>3, TGotoTypes, TWriteTypes
  <2> QED BY <1>0, <1>9, <2>4, TopicTypesFrom DEF FinalizeLater, sharedVars
<1>10. CASE TopicCreated(t)
  <2> DEFINE new == [obj EXCEPT !.state = "created"]
  <2>1. new \in TopicObj
    BY <1>1 DEF TopicObj
  <2>2. \/ TDone(t) /\ UNCHANGED topic
        \/ TWrite(t, new, TRUE, "idle")
    BY <1>10 DEF TopicCreated, TStatusUpdate, obj
  <2> HIDE DEF new
  <2>3. "idle" \in TopicPcs
    BY DEF TopicPcs
  <2>4. WorkerTypes' /\ topic' \in [Topics -> TopicObj]
    BY <1>0, <2>1, <2>2, <2>3, TDoneTypes, TWriteTypes
  <2> QED BY <1>0, <1>10, <2>4, TopicTypesFrom DEF TopicCreated, sharedVars
<1>11. CASE DropTopic(t)
  <2>1. WorkerTypes'
    BY <1>0, <1>11, TGotoTypes, TFailTypes DEF DropTopic, TopicPcs
  <2>2. kafka' \in [Names -> KafkaTopic]
    <3>1. [kafka[Name(t)] EXCEPT !.going = TRUE] \in KafkaTopic
      BY <1>2 DEF KafkaTopic
    <3> QED BY <1>0, <1>11, <3>1 DEF DropTopic
  <2> QED BY <1>0, <1>11, <2>1, <2>2, TopicTypesFrom DEF DropTopic, sharedVars
<1>12. CASE AwaitTopic(t)
  <2>1. WorkerTypes'
    BY <1>0, <1>12, TGotoTypes, TFailTypes DEF AwaitTopic, TopicPcs
  <2> QED BY <1>0, <1>12, <2>1, TopicTypesFrom DEF AwaitTopic, sharedVars
<1>13. CASE RemoveTopicFinalizer(t)
  <2> DEFINE new == [obj EXCEPT !.fin = FALSE]
  <2>1. new \in TopicObj
    BY <1>1 DEF TopicObj
  <2>2. TWrite(t, new, Admitted(t, new), "idle")
    BY <1>13 DEF RemoveTopicFinalizer, TUpdate, obj
  <2> HIDE DEF new
  <2>3. "idle" \in TopicPcs
    BY DEF TopicPcs
  <2>4. WorkerTypes' /\ topic' \in [Topics -> TopicObj]
    BY <1>0, <2>1, <2>2, <2>3, TWriteTypes
  <2> QED BY <1>0, <1>13, <2>4, TopicTypesFrom DEF RemoveTopicFinalizer, sharedVars
<1> QED
  BY <1>3, <1>4, <1>5, <1>6, <1>7, <1>8, <1>9, <1>10, <1>11, <1>12, <1>13 DEF TopicStep

\* What is left of the budget of an event stays a natural number.
LEMMA SpendTypes ==
  ASSUME SharedTypes, NEW e \in Events, Spend(e) PROVE left' \in [Events -> Nat]
<1>1. left[e] - 1 \in Nat
  BY DEF SharedTypes, Spend
<1> QED BY <1>1 DEF SharedTypes, Spend

\* The events that concern a topic keep the types of the topics.
LEMMA TopicEnvironmentTypes == ASSUME Types, TopicEnvironment PROVE TopicTypes'
<1>0. /\ topic \in [Topics -> TopicObj] /\ topicSeen \in [Topics -> TopicObj] /\ WorkerTypes
      /\ kafka \in [Names -> KafkaTopic]
  BY DEF Types, TopicTypes, WorkerTypes
<1>1. ASSUME NEW t \in Topics, NEW new \in TopicObj, UserWrites(t, new) PROVE TopicTypes'
  BY <1>0, <1>1, TopicTypesFrom DEF UserWrites, WorkerTypes
<1>2. ASSUME NEW t \in Topics, SyncTopic(t) PROVE TopicTypes'
  BY <1>0, <1>2, TopicTypesFrom DEF SyncTopic, WorkerTypes, sharedVars
<1>3. ASSUME NEW t \in Topics, UserCreatesTopic(t) PROVE TopicTypes'
  <2>1. PICK s \in scene.topics[t].specs : UserWrites(t, [NoTopic EXCEPT !.exists = TRUE, !.spec = s])
    BY <1>3 DEF UserCreatesTopic
  <2>2. s \in SpecRec
    BY SceneAssumption DEF Types, SharedTypes, TopicScene, SpecRec
  <2>3. [NoTopic EXCEPT !.exists = TRUE, !.spec = s] \in TopicObj
    BY <2>2 DEF NoTopic, TopicObj
  <2> QED BY <1>1, <2>1, <2>3
<1>4. ASSUME NEW t \in Topics, UserEditsTopic(t) PROVE TopicTypes'
  <2>0. topic[t] \in TopicObj
    BY <1>0
  <2>1. ASSUME NEW s \in scene.topics[t].specs, UserWrites(t, [topic[t] EXCEPT !.spec = s])
        PROVE  TopicTypes'
    <3>1. s \in SpecRec
      BY SceneAssumption DEF Types, SharedTypes, TopicScene, SpecRec
    <3>2. [topic[t] EXCEPT !.spec = s] \in TopicObj
      BY <2>0, <3>1 DEF TopicObj
    <3> QED BY <1>1, <2>1, <3>2
  <2>2. ASSUME UserWrites(t, [topic[t] EXCEPT !.managed = ~@]) PROVE TopicTypes'
    <3>1. (~topic[t].managed) \in BOOLEAN
      OBVIOUS
    <3>2. [topic[t] EXCEPT !.managed = ~@] \in TopicObj
      BY <2>0, <3>1 DEF TopicObj
    <3> QED BY <1>1, <2>2, <3>2
  <2> QED BY <1>4, <2>1, <2>2 DEF UserEditsTopic
<1>5. ASSUME NEW t \in Topics, UserStripsLabel(t) PROVE TopicTypes'
  <2>0. topic[t] \in TopicObj
    BY <1>0
  <2>1. [topic[t] EXCEPT !.label = FALSE] \in TopicObj
    BY <2>0 DEF TopicObj
  <2> QED BY <1>1, <1>5, <2>1 DEF UserStripsLabel
<1>6. ASSUME NEW t \in Topics, UserDeletesTopic(t) PROVE TopicTypes'
  <2>0. topic[t] \in TopicObj
    BY <1>0
  <2>1. [topic[t] EXCEPT !.deleted = TRUE] \in TopicObj
    BY <2>0 DEF TopicObj
  <2>2. Deleted(topic[t]) \in TopicObj
    BY <2>0, <2>1, StoredTopicType DEF Deleted
  <2> QED BY <1>0, <1>6, <2>2, TopicTypesFrom DEF UserDeletesTopic, WorkerTypes
<1>7. ASSUME NEW n \in Names, KafkaRemoves(n) \/ TopicVanishes(n) PROVE TopicTypes'
  <2>1. kafka' \in [Names -> KafkaTopic]
    BY <1>0, <1>7, TopicConstants DEF KafkaRemoves, TopicVanishes
  <2> QED BY <1>0, <1>7, <2>1, TopicTypesFrom
          DEF KafkaRemoves, TopicVanishes, WorkerTypes, sharedVars
<1> QED BY <1>2, <1>3, <1>4, <1>5, <1>6, <1>7 DEF TopicEnvironment

\* The records that users, their workers and their certificates start from have their
\* types.
LEMMA UserConstants == /\ NoUser \in UserObj /\ GoneUser \in UserObj /\ SettledUser \in UserObj
                       /\ UserWorker \in UserWork /\ NoPki \in PkiRec
<1>1. NoUser \in UserObj
  BY DEF NoUser, UserObj
<1>2. GoneUser \in UserObj /\ SettledUser \in UserObj
  BY DEF GoneUser, SettledUser, NoUser, UserObj
<1>3. UserWorker \in UserWork
  BY <1>1 DEF UserWorker, UserWork, UserPcs
<1>4. NoPki \in PkiRec
  BY DEF NoPki, PkiRec
<1> QED BY <1>1, <1>2, <1>3, <1>4

\* What the API server stores of a KafkaUser is a KafkaUser.
LEMMA StoredUserType == ASSUME NEW obj \in UserObj PROVE StoredUser(obj) \in UserObj
BY UserConstants DEF StoredUser

\* The users of a scene have their types.
LEMMA InitUsers == ASSUME Init PROVE UserTypes
<1> DEFINE settled == {u \in Users : scene.users[u].settled}
           P(u) == [NoPki EXCEPT !.certificate = (u \in settled /\ Backend(u) = "cert-manager"),
                                 !.owned = (u \in settled /\ Backend(u) # "none")]
<1>1. user \in [Users -> UserObj] /\ userSeen = user
  BY UserConstants DEF Init, UserInit
<1>2. uw \in [Users -> UserWork] /\ udue = {}
  BY UserConstants DEF Init, UserInit
<1>3. secret \in [Users -> Secrets]
  BY DEF Init, UserInit, Secrets
<1>4. pki = [u \in Users |-> P(u)]
  BY DEF Init, UserInit
<1>5. \A u \in Users : P(u) \in PkiRec /\ P(u).refers = 0 /\ P(u).requests = <<>>
  <2> SUFFICES ASSUME NEW u \in Users
               PROVE  P(u) \in PkiRec /\ P(u).refers = 0 /\ P(u).requests = <<>>
    OBVIOUS
  <2>1. /\ (u \in settled /\ Backend(u) = "cert-manager") \in BOOLEAN
        /\ (u \in settled /\ Backend(u) # "none") \in BOOLEAN
    OBVIOUS
  <2>2. <<>> \in Seq(Requests)
    OBVIOUS
  <2> QED BY <2>1, <2>2 DEF NoPki, PkiRec
<1>6. \A u \in Users : uw[u].pc = "idle"
  BY DEF Init, UserInit, UserWorker
<1> HIDE DEF P
<1>7. \A u \in Users : PkiOk(uw[u], pki[u])
  BY <1>4, <1>5, <1>6 DEF PkiOk
<1> QED BY <1>1, <1>2, <1>3, <1>4, <1>5, <1>7 DEF UserTypes

\* A step of the worker of u that leaves it at one of pcs.
Moves(u, pcs) ==
  /\ uw' \in [Users -> UserWork] /\ udue' \subseteq Users
  /\ \A x \in Users \ {u} : uw'[x] = uw[x]
  /\ uw'[u].pc \in pcs

\* A worker that goes on to pc is at pc,
LEMMA UGotoMoves ==
  ASSUME Types, NEW u \in Users, NEW pc \in UserPcs, UGoto(u, pc) PROVE Moves(u, {pc})
<1>1. uw \in [Users -> UserWork] /\ uw[u] \in UserWork /\ udue \subseteq Users
  BY DEF Types, UserTypes
<1> DEFINE w == [uw[u] EXCEPT !.pc = pc]
<1>2. w \in UserWork /\ w.pc = pc
  BY <1>1 DEF UserWork
<1>3. uw' = [uw EXCEPT ![u] = w] /\ udue' = udue
  BY DEF UGoto
<1> HIDE DEF w
<1> QED BY <1>1, <1>2, <1>3 DEF Moves

\* one that is done or fails is idle,
LEMMA UDoneMoves ==
  ASSUME Types, NEW u \in Users, UDone(u) \/ UFail(u) PROVE Moves(u, {"idle"})
<1>1. uw \in [Users -> UserWork] /\ uw[u] \in UserWork /\ udue \subseteq Users
  BY DEF Types, UserTypes
<1>2. UserWorker \in UserWork /\ UserWorker.pc = "idle"
  BY UserConstants DEF UserWorker
<1> QED BY <1>1, <1>2 DEF Moves, UDone, UFail

\* and one that writes its object is at pc, or idle because the write has failed.
LEMMA UWriteMoves ==
  ASSUME Types, NEW u \in Users, NEW new \in UserObj, NEW pc \in UserPcs, UWrite(u, new, pc)
  PROVE  Moves(u, {pc, "idle"}) /\ user' \in [Users -> UserObj]
<1>1. /\ uw \in [Users -> UserWork] /\ uw[u] \in UserWork /\ udue \subseteq Users
      /\ user \in [Users -> UserObj]
  BY DEF Types, UserTypes
<1>2. CASE UFail(u) /\ UNCHANGED user
  BY <1>1, <1>2, UDoneMoves DEF Moves
<1>3. CASE /\ user' = [user EXCEPT ![u] = StoredUser(new)]
           /\ uw' = [uw EXCEPT ![u] = IF pc = "idle" THEN UserWorker
                                      ELSE [@ EXCEPT !.pc = pc, !.obj = StoredUser(new)]]
           /\ UNCHANGED udue
  <2>1. StoredUser(new) \in UserObj
    BY StoredUserType
  <2> DEFINE w == [uw[u] EXCEPT !.pc = pc, !.obj = StoredUser(new)]
  <2>2. w \in UserWork /\ w.pc = pc
    BY <1>1, <2>1 DEF UserWork
  <2>3. uw' = [uw EXCEPT ![u] = IF pc = "idle" THEN UserWorker ELSE w]
    BY <1>1, <1>3
  <2>4. UserWorker \in UserWork /\ UserWorker.pc = "idle"
    BY UserConstants DEF UserWorker
  <2> HIDE DEF w
  <2> QED BY <1>1, <1>3, <2>1, <2>2, <2>3, <2>4 DEF Moves
<1> QED BY <1>2, <1>3 DEF UWrite

\* A step on one user keeps the types if it keeps those of that user.
LEMMA UserTypesFrom ==
  ASSUME Types, NEW u \in Users, Moves(u, UserPcs),
         user' \in [Users -> UserObj], userSeen' \in [Users -> UserObj],
         secret' \in [Users -> Secrets], pki' \in [Users -> PkiRec],
         \A x \in Users \ {u} : pki'[x] = pki[x], PkiOk(uw'[u], pki'[u])
  PROVE  UserTypes'
<1>1. \A x \in Users : PkiOk(uw'[x], pki'[x])
  BY DEF Types, UserTypes, Moves
<1> QED BY <1>1 DEF UserTypes, Moves

\* A step that ends neither where the request is polled nor where it is announced.
LEMMA UserTypesPlain ==
  ASSUME Types, NEW u \in Users, Moves(u, UserPcs \ {"poll", "annotate"}),
         user' \in [Users -> UserObj], userSeen' \in [Users -> UserObj],
         secret' \in [Users -> Secrets], pki' \in [Users -> PkiRec],
         \A x \in Users \ {u} : pki'[x] = pki[x], pki'[u].refers <= Len(pki'[u].requests)
  PROVE  UserTypes'
<1>1. PkiOk(uw'[u], pki'[u])
  BY DEF PkiOk, Moves
<1>2. Moves(u, UserPcs)
  BY DEF Moves
<1> QED BY <1>1, <1>2, UserTypesFrom

\* The same, for a step that leaves secrets and certificates alone.
LEMMA UserTypesStill ==
  ASSUME Types, NEW u \in Users, Moves(u, UserPcs \ {"poll", "annotate"}),
         UNCHANGED <<userSeen, pki, secret>>, user' \in [Users -> UserObj]
  PROVE  UserTypes'
<1>1. /\ userSeen' \in [Users -> UserObj] /\ secret' \in [Users -> Secrets]
      /\ pki' \in [Users -> PkiRec] /\ pki'[u].refers <= Len(pki'[u].requests)
  BY DEF Types, UserTypes, PkiOk
<1> QED BY <1>1, UserTypesPlain

\* Where a worker needs no request.
PlainPcs == UserPcs \ {"poll", "annotate"}

\* A worker that goes on to a plain place is at one,
LEMMA UGotoPlain ==
  ASSUME Types, NEW u \in Users, NEW pc \in PlainPcs, UGoto(u, pc) PROVE Moves(u, PlainPcs)
<1>1. Moves(u, {pc})
  BY UGotoMoves DEF PlainPcs
<1> QED BY <1>1 DEF Moves

\* so is one that is done or fails,
LEMMA UDonePlain ==
  ASSUME Types, NEW u \in Users, UDone(u) \/ UFail(u) PROVE Moves(u, PlainPcs)
<1>1. Moves(u, {"idle"})
  BY UDoneMoves
<1>2. "idle" \in PlainPcs
  BY DEF PlainPcs, UserPcs
<1> QED BY <1>1, <1>2 DEF Moves

\* one that writes its object,
LEMMA UWritePlain ==
  ASSUME Types, NEW u \in Users, NEW new \in UserObj, NEW pc \in PlainPcs, UWrite(u, new, pc)
  PROVE  Moves(u, PlainPcs) /\ user' \in [Users -> UserObj]
<1>1. Moves(u, {pc, "idle"}) /\ user' \in [Users -> UserObj]
  BY UWriteMoves DEF PlainPcs
<1>2. "idle" \in PlainPcs
  BY DEF PlainPcs, UserPcs
<1> QED BY <1>1, <1>2 DEF Moves

\* and one whose backend returns an error.
LEMMA CertificateErrorPlain ==
  ASSUME Types, NEW u \in Users, CertificateError(u) PROVE Moves(u, PlainPcs)
<1>1. "unfin" \in PlainPcs
  BY DEF PlainPcs, UserPcs
<1> QED BY <1>1, UGotoPlain, UDonePlain DEF CertificateError

\* The cert-manager backend.
LEMMA CertManagerTypes ==
  ASSUME Types, NEW u \in Users,
         GetUserCertificate(u) \/ InjectJKSPassword(u) \/ CreateCertificate(u) \/ GetUserSecret(u)
  PROVE  UserTypes'
<1>0. /\ user \in [Users -> UserObj] /\ userSeen \in [Users -> UserObj]
      /\ secret \in [Users -> Secrets] /\ pki \in [Users -> PkiRec] /\ pki[u] \in PkiRec
      /\ pki[u].refers <= Len(pki[u].requests)
  BY DEF Types, UserTypes, PkiOk
<1>1. {"secret", "inject", "mkcert", "main"} \subseteq PlainPcs
  BY DEF PlainPcs, UserPcs
<1>2. CASE GetUserCertificate(u)
  <2>1. Moves(u, PlainPcs)
    <3>1. UGoto(u, "secret") \/ UGoto(u, "inject") \/ UGoto(u, "mkcert")
      BY <1>2 DEF GetUserCertificate
    <3> QED BY <1>1, <3>1, UGotoPlain
  <2> QED BY <1>0, <1>2, <2>1, UserTypesStill DEF GetUserCertificate, PlainPcs
<1>3. CASE InjectJKSPassword(u)
  <2>1. Moves(u, PlainPcs)
    BY <1>1, <1>3, UGotoPlain, CertificateErrorPlain DEF InjectJKSPassword
  <2>2. secret' \in [Users -> Secrets]
    BY <1>0, <1>3 DEF InjectJKSPassword, Secrets
  <2>3. UNCHANGED <<user, userSeen, pki>>
    BY <1>3 DEF InjectJKSPassword
  <2> QED BY <1>0, <2>1, <2>2, <2>3, UserTypesPlain DEF PlainPcs
<1>4. CASE CreateCertificate(u)
  <2>1. Moves(u, PlainPcs)
    BY <1>1, <1>4, UGotoPlain DEF CreateCertificate
  <2> DEFINE p == [pki[u] EXCEPT !.certificate = TRUE]
  <2>2. p \in PkiRec /\ p.refers <= Len(p.requests)
    BY <1>0 DEF PkiRec
  <2>3. pki' = [pki EXCEPT ![u] = p] /\ UNCHANGED <<user, userSeen, secret>>
    BY <1>4 DEF CreateCertificate
  <2> HIDE DEF p
  <2> QED BY <1>0, <2>1, <2>2, <2>3, UserTypesPlain DEF PlainPcs
<1>5. CASE GetUserSecret(u)
  <2>1. Moves(u, PlainPcs)
    BY <1>1, <1>5, UGotoPlain, UDonePlain DEF GetUserSecret
  <2> DEFINE p == [pki[u] EXCEPT !.owned = TRUE]
  <2>2. p \in PkiRec /\ p.refers <= Len(p.requests)
    BY <1>0 DEF PkiRec
  <2>3. /\ pki' = [pki EXCEPT ![u] = p] \/ UNCHANGED pki
        /\ UNCHANGED <<user, userSeen, secret>>
    BY <1>5 DEF GetUserSecret, EnsureControllerReference
  <2> HIDE DEF p
  <2> QED BY <1>0, <2>1, <2>2, <2>3, UserTypesPlain DEF PlainPcs
<1> QED BY <1>2, <1>3, <1>4, <1>5

\* Putting another state of a request into the list keeps its length.
LEMMA RequestsKeep ==
  ASSUME NEW p \in PkiRec, NEW i \in 1..Len(p.requests), NEW r \in Requests, NEW q,
         q = [p EXCEPT !.requests[i] = r]
  PROVE  q \in PkiRec /\ q.refers = p.refers /\ Len(q.requests) = Len(p.requests)
<1> DEFINE s == [p.requests EXCEPT ![i] = r]
<1>1. p.requests \in Seq(Requests)
  BY DEF PkiRec
<1>2. s \in Seq(Requests) /\ Len(s) = Len(p.requests)
  BY <1>1
<1>3. q = [p EXCEPT !.requests = s]
  OBVIOUS
<1> HIDE DEF s
<1>4. q \in PkiRec /\ q.refers = p.refers /\ q.requests = s
  BY <1>2, <1>3 DEF PkiRec
<1> QED BY <1>2, <1>4

\* The k8s-csr backend.
LEMMA CsrTypes ==
  ASSUME Types, NEW u \in Users,
         EnsureKey(u) \/ GenerateAndCreateCSR(u) \/ SecretUpdateAnnotation(u) \/ PollRequest(u)
  PROVE  UserTypes'
<1>0. /\ user \in [Users -> UserObj] /\ userSeen \in [Users -> UserObj]
      /\ secret \in [Users -> Secrets] /\ pki \in [Users -> PkiRec] /\ pki[u] \in PkiRec
      /\ pki[u].refers <= Len(pki[u].requests) /\ pki[u].refers \in Nat
      /\ pki[u].requests \in Seq(Requests)
  BY DEF Types, UserTypes, PkiOk, PkiRec
<1>1. {"request", "main"} \subseteq PlainPcs /\ {"annotate", "poll"} \subseteq UserPcs
  BY DEF PlainPcs, UserPcs
<1>2. CASE EnsureKey(u)
  <2> DEFINE p == [[pki[u] EXCEPT !.owned = TRUE] EXCEPT !.refers = 0]
  <2>1. p \in PkiRec /\ p.refers <= Len(p.requests)
    <3>1. p \in PkiRec /\ p.refers = 0 /\ p.requests = pki[u].requests
      BY <1>0 DEF PkiRec
    <3>2. Len(pki[u].requests) \in Nat
      BY <1>0
    <3> QED BY <3>1, <3>2
  <2>2. CASE NewKey(u) /\ UGoto(u, "request")
    <3>1. pki' = [pki EXCEPT ![u] = p] /\ secret' \in [Users -> Secrets]
      BY <1>0, <2>2 DEF NewKey, Secrets
    <3>2. Moves(u, PlainPcs)
      BY <1>1, <2>2, UGotoPlain
    <3>3. UNCHANGED <<user, userSeen>>
      BY <1>2 DEF EnsureKey
    <3> HIDE DEF p
    <3> QED BY <1>0, <2>1, <3>1, <3>2, <3>3, UserTypesPlain DEF PlainPcs
  <2>3. CASE UGoto(u, "main") /\ UNCHANGED <<secret, pki>>
    <3>1. Moves(u, PlainPcs)
      BY <1>1, <2>3, UGotoPlain
    <3> QED BY <1>0, <1>2, <2>3, <3>1, UserTypesStill DEF EnsureKey, PlainPcs
  <2>4. CASE UGoto(u, "request") /\ UNCHANGED <<secret, pki>>
    <3>1. Moves(u, PlainPcs)
      BY <1>1, <2>4, UGotoPlain
    <3> QED BY <1>0, <1>2, <2>4, <3>1, UserTypesStill DEF EnsureKey, PlainPcs
  <2>5. CASE UGoto(u, "poll") /\ pki[u].refers # 0 /\ UNCHANGED <<secret, pki>>
    <3>1. Moves(u, {"poll"})
      BY <1>1, <2>5, UGotoMoves
    <3>2. PkiOk(uw'[u], pki'[u])
      BY <1>0, <2>5, <3>1 DEF PkiOk, Moves
    <3>3. Moves(u, UserPcs)
      BY <1>1, <3>1 DEF Moves
    <3> QED BY <1>0, <1>2, <2>5, <3>2, <3>3, UserTypesFrom DEF EnsureKey
  <2> QED BY <1>2, <2>2, <2>3, <2>4, <2>5 DEF EnsureKey
<1>3. CASE GenerateAndCreateCSR(u)
  <2> DEFINE s == Append(pki[u].requests, "new")
             p == [pki[u] EXCEPT !.requests = s]
  <2>1. s \in Seq(Requests) /\ Len(s) = Len(pki[u].requests) + 1 /\ Len(pki[u].requests) \in Nat
    BY <1>0 DEF Requests
  <2>2. pki' = [pki EXCEPT ![u] = p] /\ UNCHANGED <<user, userSeen, secret>>
    BY <1>3 DEF GenerateAndCreateCSR
  <2> HIDE DEF s
  <2>3. p \in PkiRec /\ p.refers = pki[u].refers /\ p.requests = s
    BY <1>0, <2>1 DEF PkiRec
  <2>4. Moves(u, {"annotate"})
    BY <1>1, <1>3, UGotoMoves DEF GenerateAndCreateCSR
  <2> HIDE DEF p
  <2>5. pki'[u] = p /\ pki' \in [Users -> PkiRec] /\ \A x \in Users \ {u} : pki'[x] = pki[x]
    BY <1>0, <2>2, <2>3
  <2>6. PkiOk(uw'[u], pki'[u])
    <3>1. p.refers <= Len(p.requests) /\ Len(p.requests) > 0
      BY <1>0, <2>1, <2>3
    <3> QED BY <2>4, <2>5, <3>1 DEF PkiOk, Moves
  <2>7. Moves(u, UserPcs)
    BY <1>1, <2>4 DEF Moves
  <2> QED BY <1>0, <2>2, <2>5, <2>6, <2>7, UserTypesFrom
<1>4. CASE SecretUpdateAnnotation(u)
  <2>1. Len(pki[u].requests) > 0 /\ Len(pki[u].requests) \in Nat
    BY <1>0, <1>4 DEF Types, UserTypes, PkiOk, SecretUpdateAnnotation, UAt
  <2> DEFINE n == Len(pki[u].requests)
             p == [pki[u] EXCEPT !.refers = n]
  <2>2. CASE UGoto(u, "poll") /\ pki' = [pki EXCEPT ![u] = p]
    <3> HIDE DEF n
    <3>1. p \in PkiRec /\ p.refers = n /\ p.requests = pki[u].requests
      BY <1>0, <2>1 DEF PkiRec, n
    <3>2. Moves(u, {"poll"})
      BY <1>1, <2>2, UGotoMoves
    <3> HIDE DEF p
    <3>3. pki'[u] = p /\ pki' \in [Users -> PkiRec] /\ \A x \in Users \ {u} : pki'[x] = pki[x]
      BY <1>0, <2>2, <3>1
    <3>4. PkiOk(uw'[u], pki'[u])
      BY <2>1, <3>1, <3>2, <3>3 DEF PkiOk, Moves, n
    <3>5. Moves(u, UserPcs)
      BY <1>1, <3>2 DEF Moves
    <3>6. UNCHANGED <<user, userSeen, secret>>
      BY <1>4 DEF SecretUpdateAnnotation
    <3> QED BY <1>0, <3>3, <3>4, <3>5, <3>6, UserTypesFrom
  <2>3. CASE CertificateError(u) /\ UNCHANGED pki
    BY <1>0, <1>4, <2>3, CertificateErrorPlain, UserTypesStill DEF SecretUpdateAnnotation, PlainPcs
  <2> QED BY <1>4, <2>2, <2>3 DEF SecretUpdateAnnotation
<1>5. CASE PollRequest(u)
  <2>0. UNCHANGED <<user, userSeen>>
    BY <1>5 DEF PollRequest
  <2>1. Moves(u, PlainPcs)
    <3>1. UFail(u) \/ CertificateError(u) \/ UGoto(u, "main")
      BY <1>5 DEF PollRequest
    <3> QED BY <1>1, <3>1, UGotoPlain, UDonePlain, CertificateErrorPlain
  <2>2. secret' \in [Users -> Secrets]
    BY <1>0, <1>5 DEF PollRequest, StoreCertificate, Secrets
  <2>3. /\ pki' \in [Users -> PkiRec] /\ \A x \in Users \ {u} : pki'[x] = pki[x]
        /\ pki'[u].refers <= Len(pki'[u].requests)
    <3>1. CASE UNCHANGED pki
      BY <1>0, <3>1
    <3>2. CASE pki' = [pki EXCEPT ![u].refers = 0]
      <4> DEFINE p == [pki[u] EXCEPT !.refers = 0]
      <4>1. p \in PkiRec /\ p.refers <= Len(p.requests)
        <5>1. p \in PkiRec /\ p.refers = 0 /\ p.requests = pki[u].requests
          BY <1>0 DEF PkiRec
        <5>2. Len(pki[u].requests) \in Nat
          BY <1>0
        <5> QED BY <5>1, <5>2
      <4>2. pki' = [pki EXCEPT ![u] = p]
        BY <3>2
      <4> HIDE DEF p
      <4> QED BY <1>0, <4>1, <4>2
    <3>3. CASE Approve(u, pki[u].refers)
      <4> DEFINE p == [pki[u] EXCEPT !.requests[pki[u].refers] = "approved"]
      <4>1. p \in PkiRec /\ p.refers = pki[u].refers /\ Len(p.requests) = Len(pki[u].requests)
        <5>1. "approved" \in Requests
          BY DEF Requests
        <5>2. pki[u].refers \in 1..Len(pki[u].requests)
          BY <1>0, <1>5 DEF Types, UserTypes, PkiOk, PollRequest, UAt
        <5> HIDE DEF p
        <5>3. p = [pki[u] EXCEPT !.requests[pki[u].refers] = "approved"]
          BY DEF p
        <5> QED BY <1>0, <5>1, <5>2, <5>3, RequestsKeep
      <4>2. pki' = [pki EXCEPT ![u] = p]
        BY <3>3 DEF Approve
      <4> HIDE DEF p
      <4> QED BY <1>0, <4>1, <4>2
    <3> QED BY <1>5, <3>1, <3>2, <3>3 DEF PollRequest
  <2> QED BY <1>0, <2>0, <2>1, <2>2, <2>3, UserTypesPlain DEF PlainPcs
<1> QED BY <1>2, <1>3, <1>4, <1>5

\* The rest of Reconcile.
LEMMA UserPassTypes ==
  ASSUME Types, NEW u \in Users,
         \/ ReconcileUser(u) \/ UserMain(u) \/ DeleteUserACLs(u) \/ RemoveUserFinalizer(u)
         \/ LabelUser(u) \/ CreateUserACLs(u) \/ AddUserFinalizer(u) \/ UserCreated(u)
  PROVE  UserTypes'
<1> DEFINE obj == uw[u].obj
<1>0. /\ user \in [Users -> UserObj] /\ userSeen \in [Users -> UserObj]
      /\ uw \in [Users -> UserWork] /\ uw[u] \in UserWork /\ udue \subseteq Users
      /\ user[u] \in UserObj /\ userSeen[u] \in UserObj
  BY DEF Types, UserTypes
<1>1. obj \in UserObj /\ uw[u].label \in BOOLEAN /\ uw[u].todo \in SUBSET {"read", "write"}
  BY <1>0 DEF UserWork
<1>2. {"idle", "main", "cert", "key", "unfin", "revoke", "label", "grant", "final", "status"}
        \subseteq PlainPcs
  BY DEF PlainPcs, UserPcs
<1>3. Grants(u) \in SUBSET {"read", "write"} /\ Backend(u) \in {"none", "cert-manager", "k8s-csr"}
  BY SceneAssumption DEF Types, SharedTypes, UserScene, Grants, Backend
<1>4. \A pc \in PlainPcs : pc \in UserPcs
  BY DEF PlainPcs
<1> HIDE DEF obj
<1>5. CASE ReconcileUser(u)
  <2>1. clusterSeen.deleted \in BOOLEAN
    BY DEF Types, SharedTypes, ClusterObj
  <2> DEFINE w(pc) == [UserWorker EXCEPT !.pc = pc, !.obj = userSeen[u], !.down = clusterSeen.deleted]
  <2>2. \A pc \in PlainPcs : w(pc) \in UserWork /\ w(pc).pc = pc
    <3> SUFFICES ASSUME NEW pc \in PlainPcs PROVE w(pc) \in UserWork /\ w(pc).pc = pc
      OBVIOUS
    <3>1. pc \in UserPcs
      BY <1>4
    <3>2. UserWorker \in UserWork
      BY UserConstants
    <3> QED BY <1>0, <2>1, <3>1, <3>2 DEF UserWork, UserWorker
  <2>3. \/ udue' = udue \ {u} /\ UNCHANGED uw
        \/ \E pc \in {"main", "cert", "key", "unfin"} :
             uw' = [uw EXCEPT ![u] = w(pc)] /\ udue' = udue \ {u}
    BY <1>3, <1>5 DEF ReconcileUser
  <2> HIDE DEF w
  <2>4. uw[u].pc = "idle" /\ UNCHANGED <<user, userSeen, pki, secret>>
    BY <1>5 DEF ReconcileUser, UAt
  <2>5. Moves(u, PlainPcs)
    BY <1>0, <1>2, <2>2, <2>3, <2>4 DEF Moves
  <2> QED BY <1>0, <2>4, <2>5, UserTypesStill DEF PlainPcs
<1>6. CASE UserMain(u)
  <2>1. Moves(u, PlainPcs)
    <3>1. UDone(u) \/ UGoto(u, "unfin") \/ UGoto(u, "revoke") \/ UGoto(u, "label")
      BY <1>6 DEF UserMain, CheckUserFinalizers
    <3> QED BY <1>2, <3>1, UDonePlain, UGotoPlain
  <2> QED BY <1>0, <1>6, <2>1, UserTypesStill DEF UserMain, PlainPcs
<1>7. CASE DeleteUserACLs(u)
  <2>1. Moves(u, PlainPcs)
    BY <1>2, <1>7, UDonePlain, UGotoPlain DEF DeleteUserACLs
  <2> QED BY <1>0, <1>7, <2>1, UserTypesStill DEF DeleteUserACLs, PlainPcs
<1>8. CASE RemoveUserFinalizer(u)
  <2> DEFINE new == [obj EXCEPT !.fin = FALSE]
  <2>1. new \in UserObj
    BY <1>1 DEF UserObj
  <2>2. UWrite(u, new, "idle")
    BY <1>8 DEF RemoveUserFinalizer, obj
  <2> HIDE DEF new
  <2>3. Moves(u, PlainPcs) /\ user' \in [Users -> UserObj]
    BY <1>2, <2>1, <2>2, UWritePlain
  <2> QED BY <1>8, <2>3, UserTypesStill DEF RemoveUserFinalizer, PlainPcs
<1>9. CASE LabelUser(u)
  <2>1. CASE /\ uw' = [uw EXCEPT ![u].pc = "grant", ![u].label = TRUE, ![u].todo = Grants(u)]
             /\ UNCHANGED <<user, udue>>
    <3> DEFINE w == [[[uw[u] EXCEPT !.pc = "grant"] EXCEPT !.label = TRUE] EXCEPT !.todo = Grants(u)]
    <3>1. w \in UserWork /\ w.pc = "grant"
      BY <1>0, <1>3 DEF UserWork, UserPcs
    <3>2. uw' = [uw EXCEPT ![u] = w]
      BY <1>0, <2>1
    <3> HIDE DEF w
    <3>3. Moves(u, PlainPcs)
      BY <1>0, <1>2, <2>1, <3>1, <3>2 DEF Moves
    <3> QED BY <1>0, <1>9, <2>1, <3>3, UserTypesStill DEF LabelUser, PlainPcs
  <2>2. CASE /\ user' = [user EXCEPT ![u].label = TRUE]
             /\ uw' = [uw EXCEPT ![u].pc = "grant", ![u].obj = user'[u], ![u].todo = Grants(u)]
             /\ UNCHANGED udue
    <3>1. [user[u] EXCEPT !.label = TRUE] \in UserObj
      BY <1>0 DEF UserObj
    <3>2. user' \in [Users -> UserObj] /\ user'[u] \in UserObj
      BY <1>0, <2>2, <3>1
    <3> DEFINE w == [[[uw[u] EXCEPT !.pc = "grant"] EXCEPT !.obj = user'[u]] EXCEPT !.todo = Grants(u)]
    <3>3. w \in UserWork /\ w.pc = "grant"
      BY <1>0, <1>3, <3>2 DEF UserWork, UserPcs
    <3>4. uw' = [uw EXCEPT ![u] = w]
      BY <1>0, <2>2
    <3> HIDE DEF w
    <3>6. udue' = udue
      BY <2>2
    <3>5. Moves(u, PlainPcs)
      BY <1>0, <1>2, <3>3, <3>4, <3>6 DEF Moves
    <3> QED BY <1>9, <3>2, <3>5, UserTypesStill DEF LabelUser, PlainPcs
  <2>3. CASE UFail(u) /\ UNCHANGED user
    BY <1>0, <1>9, <2>3, UDonePlain, UserTypesStill DEF LabelUser, PlainPcs
  <2> QED BY <1>9, <2>1, <2>2, <2>3 DEF LabelUser
<1>10. CASE CreateUserACLs(u)
  <2>1. CASE UGoto(u, "final") \/ UFail(u)
    <3>1. Moves(u, PlainPcs)
      BY <1>2, <2>1, UDonePlain, UGotoPlain
    <3> QED BY <1>0, <1>10, <3>1, UserTypesStill DEF CreateUserACLs, PlainPcs
  <2>2. ASSUME NEW g \in uw[u].todo, uw' = [uw EXCEPT ![u].todo = @ \ {g}], UNCHANGED udue
        PROVE  UserTypes'
    <3> DEFINE w == [uw[u] EXCEPT !.todo = uw[u].todo \ {g}]
    <3>1. w \in UserWork /\ w.pc = "grant"
      <4>1. uw[u].pc = "grant"
        BY <1>10 DEF CreateUserACLs, UAt
      <4> QED BY <1>0, <1>1, <4>1 DEF UserWork
    <3>2. uw' = [uw EXCEPT ![u] = w]
      BY <1>0, <2>2
    <3> HIDE DEF w
    <3>3. Moves(u, PlainPcs)
      BY <1>0, <1>2, <2>2, <3>1, <3>2 DEF Moves
    <3> QED BY <1>0, <1>10, <3>3, UserTypesStill DEF CreateUserACLs, PlainPcs
  <2> QED BY <1>10, <2>1, <2>2 DEF CreateUserACLs
<1>11. CASE AddUserFinalizer(u)
  <2> DEFINE new == [obj EXCEPT !.fin = TRUE, !.label = @ \/ uw[u].label]
  <2>1. new \in UserObj
    <3>1. (obj.label \/ uw[u].label) \in BOOLEAN
      OBVIOUS
    <3> DEFINE b == obj.label \/ uw[u].label
    <3>2. new = [[obj EXCEPT !.fin = TRUE] EXCEPT !.label = b]
      BY <1>1 DEF UserObj
    <3> HIDE DEF b, new
    <3>3. b \in BOOLEAN
      BY <3>1 DEF b
    <3> QED BY <1>1, <3>2, <3>3 DEF UserObj
  <2>2. \/ UGoto(u, "status") /\ UNCHANGED user
        \/ UWrite(u, new, "status")
    BY <1>11 DEF AddUserFinalizer, obj
  <2> HIDE DEF new
  <2>3. Moves(u, PlainPcs) /\ user' \in [Users -> UserObj]
    BY <1>0, <1>2, <2>1, <2>2, UWritePlain, UGotoPlain
  <2> QED BY <1>11, <2>3, UserTypesStill DEF AddUserFinalizer, PlainPcs
<1>12. CASE UserCreated(u)
  <2> DEFINE new == [obj EXCEPT !.state = "created"]
  <2>1. new \in UserObj
    BY <1>1 DEF UserObj
  <2>2. UWrite(u, new, "idle")
    BY <1>12 DEF UserCreated, obj
  <2> HIDE DEF new
  <2>3. Moves(u, PlainPcs) /\ user' \in [Users -> UserObj]
    BY <1>2, <2>1, <2>2, UWritePlain
  <2> QED BY <1>12, <2>3, UserTypesStill DEF UserCreated, PlainPcs
<1> QED BY <1>5, <1>6, <1>7, <1>8, <1>9, <1>10, <1>11, <1>12

\* A step of the KafkaUser controller keeps the types of the users.
LEMMA UserStepTypes == ASSUME Types, NEW u \in Users, UserStep(u) PROVE UserTypes'
<1>1. \/ GetUserCertificate(u) \/ InjectJKSPassword(u) \/ CreateCertificate(u) \/ GetUserSecret(u)
      \/ EnsureKey(u) \/ GenerateAndCreateCSR(u) \/ SecretUpdateAnnotation(u) \/ PollRequest(u)
      \/ ReconcileUser(u) \/ UserMain(u) \/ DeleteUserACLs(u) \/ RemoveUserFinalizer(u)
      \/ LabelUser(u) \/ CreateUserACLs(u) \/ AddUserFinalizer(u) \/ UserCreated(u)
  BY DEF UserStep
<1> QED BY <1>1, CertManagerTypes, CsrTypes, UserPassTypes

\* The events that concern a user keep the types of the users.
LEMMA UserEnvironmentTypes == ASSUME Types, UserEnvironment PROVE UserTypes'
<1>0. /\ user \in [Users -> UserObj] /\ userSeen \in [Users -> UserObj]
      /\ uw \in [Users -> UserWork] /\ udue \subseteq Users
      /\ secret \in [Users -> Secrets] /\ pki \in [Users -> PkiRec]
      /\ \A u \in Users : PkiOk(uw[u], pki[u])
  BY DEF Types, UserTypes
<1>1. ASSUME NEW u \in Users, SyncUser(u) PROVE UserTypes'
  BY <1>0, <1>1 DEF SyncUser, UserTypes
<1>2. ASSUME NEW u \in Users, UserCreatesUser(u) PROVE UserTypes'
  <2>1. [NoUser EXCEPT !.exists = TRUE] \in UserObj
    BY DEF NoUser, UserObj
  <2> QED BY <1>0, <1>2, <2>1 DEF UserCreatesUser, UserTypes
<1>3. ASSUME NEW u \in Users, UserDeletesUser(u) PROVE UserTypes'
  <2>0. user[u] \in UserObj
    BY <1>0
  <2>1. [user[u] EXCEPT !.deleted = TRUE] \in UserObj
    BY <2>0 DEF UserObj
  <2>2. Unwanted(user[u]) \in UserObj
    BY <2>0, <2>1, StoredUserType DEF Unwanted
  <2> QED BY <1>0, <1>3, <2>2 DEF UserDeletesUser, UserTypes
<1>4. ASSUME NEW u \in Users, CallFails(u) PROVE UserTypes'
  <2>1. Moves(u, PlainPcs)
    BY <1>4, CertificateErrorPlain DEF CallFails
  <2> QED BY <1>0, <1>4, <2>1, UserTypesStill DEF CallFails, PlainPcs
<1>5. ASSUME NEW u \in Users, CertManagerIssues(u) PROVE UserTypes'
  <2>1. secret' \in [Users -> Secrets]
    BY <1>0, <1>5 DEF CertManagerIssues, Secrets
  <2> QED BY <1>0, <1>5, <2>1 DEF CertManagerIssues, UserTypes, userVars
<1>6. ASSUME NEW u \in Users, NEW i \in DOMAIN pki[u].requests, NEW r \in Requests,
             pki' = [pki EXCEPT ![u].requests[i] = r], uw' = uw
      PROVE  pki' \in [Users -> PkiRec] /\ \A x \in Users : PkiOk(uw'[x], pki'[x])
  <2> DEFINE p == [pki[u] EXCEPT !.requests[i] = r]
  <2>1. pki[u] \in PkiRec
    BY <1>0
  <2>2. i \in 1..Len(pki[u].requests)
    BY <2>1 DEF PkiRec
  <2>3. pki' = [pki EXCEPT ![u] = p]
    BY <1>6
  <2>4. p = [pki[u] EXCEPT !.requests[i] = r]
    OBVIOUS
  <2> HIDE DEF p
  <2>5. p \in PkiRec /\ p.refers = pki[u].refers /\ Len(p.requests) = Len(pki[u].requests)
    BY <2>1, <2>2, <2>4, RequestsKeep
  <2>6. PkiOk(uw[u], p)
    BY <1>0, <2>5 DEF PkiOk
  <2> QED BY <1>0, <1>6, <2>3, <2>5, <2>6
<1>7. ASSUME NEW u \in Users, SignerActs(u) PROVE UserTypes'
  <2>1. pki' \in [Users -> PkiRec] /\ \A x \in Users : PkiOk(uw'[x], pki'[x])
    <3>1. uw' = uw
      BY <1>7 DEF SignerActs
    <3>2. PICK i \in DOMAIN pki[u].requests :
             \/ pki' = [pki EXCEPT ![u].requests[i] = "issued"]
             \/ pki' = [pki EXCEPT ![u].requests[i] = "approved"]
      BY <1>7 DEF SignerActs
    <3>3. "issued" \in Requests /\ "approved" \in Requests
      BY DEF Requests
    <3> QED BY <1>6, <3>1, <3>2, <3>3
  <2>2. udue' \subseteq Users /\ UNCHANGED <<user, userSeen, uw, secret>>
    BY <1>0, <1>7 DEF SignerActs, WakeUser
  <2> QED BY <1>0, <2>1, <2>2 DEF UserTypes
<1>8. ASSUME NEW u \in Users, RequestExpires(u) PROVE UserTypes'
  <2>1. pki' \in [Users -> PkiRec] /\ \A x \in Users : PkiOk(uw'[x], pki'[x])
    <3>1. uw' = uw
      BY <1>8 DEF RequestExpires
    <3>2. PICK i \in DOMAIN pki[u].requests : pki' = [pki EXCEPT ![u].requests[i] = "gone"]
      BY <1>8 DEF RequestExpires
    <3>3. "gone" \in Requests
      BY DEF Requests
    <3> QED BY <1>6, <3>1, <3>2, <3>3
  <2>2. UNCHANGED <<user, userSeen, uw, udue, secret>>
    BY <1>8 DEF RequestExpires
  <2> QED BY <1>0, <2>1, <2>2 DEF UserTypes
<1>9. ASSUME NEW u \in Users, GarbageCollect(u) PROVE UserTypes'
  <2> DEFINE p == [[pki[u] EXCEPT !.certificate = FALSE] EXCEPT !.owned = FALSE]
  <2>1. pki[u] \in PkiRec
    BY <1>0
  <2>2. p \in PkiRec /\ p.refers = pki[u].refers /\ p.requests = pki[u].requests
    BY <2>1 DEF PkiRec
  <2>3. pki' = [pki EXCEPT ![u] = p]
    BY <1>0, <1>9 DEF GarbageCollect
  <2> HIDE DEF p
  <2>4. PkiOk(uw[u], p)
    BY <1>0, <2>2 DEF PkiOk
  <2>5. secret' \in [Users -> Secrets]
    <3>1. secret[u] \in Secrets /\ "none" \in Secrets
      BY <1>0 DEF Secrets
    <3> QED BY <1>0, <1>9, <3>1 DEF GarbageCollect
  <2>6. UNCHANGED <<user, userSeen, uw, udue>>
    BY <1>9 DEF GarbageCollect
  <2> QED BY <1>0, <2>2, <2>3, <2>4, <2>5, <2>6 DEF UserTypes
<1> QED BY <1>1, <1>2, <1>3, <1>4, <1>5, <1>7, <1>8, <1>9 DEF UserEnvironment

\* The records that the cluster and its worker start from have their types.
LEMMA ClusterConstants == NoCluster \in ClusterObj /\ ClusterWorker \in ClusterWork
<1>1. NoCluster \in ClusterObj
  BY DEF NoCluster, ClusterObj
<1> QED BY <1>1 DEF ClusterWorker, ClusterWork, ClusterPcs

\* The worker of the cluster that goes on keeps the types,
LEMMA CGotoTypes ==
  ASSUME SharedTypes, NEW pc \in ClusterPcs, CGoto(pc) PROVE cw' \in ClusterWork /\ cdue' \in BOOLEAN
BY DEF SharedTypes, CGoto, ClusterWork

\* so does one that fails,
LEMMA CFailTypes == ASSUME CFail PROVE cw' \in ClusterWork /\ cdue' \in BOOLEAN
BY ClusterConstants DEF CFail

\* and one that writes the KafkaCluster.
LEMMA CWriteTypes ==
  ASSUME SharedTypes, NEW new \in ClusterObj, NEW pc \in ClusterPcs, CWrite(new, pc)
  PROVE  cw' \in ClusterWork /\ cdue' \in BOOLEAN /\ cluster' \in ClusterObj
<1>1. StoredCluster(new) \in ClusterObj
  BY ClusterConstants DEF StoredCluster
<1>2. [pc |-> pc, obj |-> StoredCluster(new)] \in ClusterWork
  BY <1>1 DEF ClusterWork
<1> QED BY <1>1, <1>2, CFailTypes, ClusterConstants DEF CWrite, SharedTypes

\* The types of the topics depend on nothing but the topics.
LEMMA TopicTypesKept ==
  ASSUME TopicTypes, scene' = scene, UNCHANGED topicVars PROVE TopicTypes'
BY DEF TopicTypes, topicVars, Names, Name

\* The types of the users depend on nothing but the users and their secrets.
LEMMA UserTypesKept == ASSUME UserTypes, UNCHANGED <<userVars, secret>> PROVE UserTypes'
BY DEF UserTypes, userVars

\* The steps of the KafkaCluster controller.
LEMMA ClusterStepTypes == ASSUME Types, ClusterStep PROVE Types'
<1>0. SharedTypes /\ TopicTypes /\ UserTypes
  BY DEF Types
<1>1. /\ cw.obj \in ClusterObj /\ cw \in ClusterWork /\ clusterSeen \in ClusterObj
      /\ cw.obj.fins \subseteq Finalizers
  BY <1>0 DEF SharedTypes, ClusterWork, ClusterObj
<1>2. \A f \in SUBSET Finalizers : [cw.obj EXCEPT !.fins = f] \in ClusterObj
  BY <1>1 DEF ClusterObj
<1>3. \A pc \in {"idle", "pki", "fins", "topics", "topics2", "list", "users", "users2",
                 "finalizePKI", "main"} : pc \in ClusterPcs
  BY DEF ClusterPcs
<1>4. CASE ReconcileCluster
  <2>1. [pc |-> "pki", obj |-> clusterSeen] \in ClusterWork
    BY <1>1 DEF ClusterWork, ClusterPcs
  <2>2. [pc |-> "topics", obj |-> clusterSeen] \in ClusterWork
    BY <1>1 DEF ClusterWork, ClusterPcs
  <2>3. cw' \in ClusterWork
    BY <1>4, <2>1, <2>2, ClusterConstants DEF ReconcileCluster
  <2>4. SharedTypes'
    BY <1>0, <1>4, <2>3 DEF SharedTypes, ReconcileCluster, sharedVars
  <2> QED BY <1>0, <1>4, <2>4, TopicTypesKept, UserTypesKept DEF ReconcileCluster, Types, sharedVars
<1>5. CASE ReconcilePKI
  <2>1. [NoUser EXCEPT !.exists = TRUE] \in UserObj
    BY DEF NoUser, UserObj
  <2>2. user' \in [Users -> UserObj]
    BY <1>0, <1>5, <2>1 DEF ReconcilePKI, CreateUsers, UserTypes
  <2>3. UserTypes'
    BY <1>0, <1>5, <2>2 DEF UserTypes, ReconcilePKI
  <2>4. SharedTypes'
    BY <1>0, <1>3, <1>5, CGotoTypes, CFailTypes DEF SharedTypes, ReconcilePKI, sharedVars
  <2> QED BY <1>0, <1>5, <2>3, <2>4, TopicTypesKept DEF ReconcilePKI, Types, sharedVars
<1>6. ASSUME NEW f \in SUBSET Finalizers, NEW pc \in ClusterPcs,
             CWrite([cw.obj EXCEPT !.fins = f], pc), UNCHANGED <<cOthers, secret, topicVars, userVars>>
      PROVE  Types'
  <2>1. cw' \in ClusterWork /\ cdue' \in BOOLEAN /\ cluster' \in ClusterObj
    BY <1>0, <1>2, <1>6, CWriteTypes
  <2>2. SharedTypes'
    BY <1>0, <1>6, <2>1 DEF SharedTypes, cOthers
  <2> QED BY <1>0, <1>6, <2>2, TopicTypesKept, UserTypesKept DEF Types, cOthers
<1>7. CASE EnsureFinalizers
  BY <1>3, <1>6, <1>7 DEF EnsureFinalizers
<1>8. CASE SweepTopics
  <2>1. ASSUME NEW t \in Topics PROVE Deleted(topic[t]) \in TopicObj
    <3>1. topic[t] \in TopicObj
      BY <1>0 DEF TopicTypes
    <3>2. [topic[t] EXCEPT !.deleted = TRUE] \in TopicObj
      BY <3>1 DEF TopicObj
    <3> QED BY <3>1, <3>2, StoredTopicType DEF Deleted
  <2>2. topic' \in [Topics -> TopicObj]
    BY <1>0, <1>8, <2>1 DEF SweepTopics, TopicTypes
  <2>3. TopicTypes'
    BY <1>0, <1>8, <2>2 DEF SweepTopics, TopicTypes, sharedVars, Names, Name
  <2>4. cw' \in ClusterWork /\ cdue' \in BOOLEAN
    BY <1>0, <1>3, <1>8, CGotoTypes DEF SweepTopics
  <2>5. SharedTypes'
    BY <1>0, <1>8, <2>4 DEF SharedTypes, SweepTopics, sharedVars
  <2> QED BY <1>0, <1>8, <2>3, <2>5, UserTypesKept DEF SweepTopics, Types
<1>9. CASE TopicsSwept
  BY <1>1, <1>3, <1>6, <1>9 DEF TopicsSwept
<1>10. CASE AwaitTopics
  <2>1. cw' \in ClusterWork /\ cdue' \in BOOLEAN
    BY <1>0, <1>3, <1>10, CGotoTypes, CFailTypes DEF AwaitTopics
  <2>2. SharedTypes'
    BY <1>0, <1>10, <2>1 DEF SharedTypes, AwaitTopics, sharedVars
  <2> QED BY <1>0, <1>10, <2>2, TopicTypesKept, UserTypesKept DEF AwaitTopics, Types, sharedVars
<1>11. CASE SweepUsers
  <2>1. ASSUME NEW u \in Users PROVE Unwanted(user[u]) \in UserObj
    <3>1. user[u] \in UserObj
      BY <1>0 DEF UserTypes
    <3>2. [user[u] EXCEPT !.deleted = TRUE] \in UserObj
      BY <3>1 DEF UserObj
    <3> QED BY <3>1, <3>2, StoredUserType DEF Unwanted
  <2>2. user' \in [Users -> UserObj]
    BY <1>0, <1>11, <2>1 DEF SweepUsers, UserTypes
  <2>3. UserTypes'
    BY <1>0, <1>11, <2>2 DEF SweepUsers, UserTypes
  <2>4. cw' \in ClusterWork /\ cdue' \in BOOLEAN
    BY <1>0, <1>3, <1>11, CGotoTypes DEF SweepUsers
  <2>5. SharedTypes'
    BY <1>0, <1>11, <2>4 DEF SharedTypes, SweepUsers, sharedVars
  <2> QED BY <1>0, <1>11, <2>3, <2>5, TopicTypesKept DEF SweepUsers, Types, sharedVars
<1>12. CASE UsersSwept
  BY <1>1, <1>3, <1>6, <1>12 DEF UsersSwept
<1>13. CASE FinalizePKI
  <2>1. ASSUME NEW u \in Users
        PROVE  /\ [pki[u] EXCEPT !.certificate = FALSE] \in PkiRec
               /\ [pki[u] EXCEPT !.certificate = FALSE].refers = pki[u].refers
               /\ [pki[u] EXCEPT !.certificate = FALSE].requests = pki[u].requests
    <3>1. pki[u] \in PkiRec
      BY <1>0 DEF UserTypes
    <3> QED BY <3>1 DEF PkiRec
  <2>2. PICK us : /\ pki' = [u \in Users |-> IF u \in us THEN [pki[u] EXCEPT !.certificate = FALSE]
                                             ELSE pki[u]]
                  /\ secret' = [u \in Users |-> IF u \in us THEN "none" ELSE secret[u]]
    BY <1>13 DEF FinalizePKI
  <2>3. pki' \in [Users -> PkiRec]
    BY <1>0, <2>1, <2>2 DEF UserTypes
  <2>4. \A u \in Users : pki'[u].refers = pki[u].refers /\ pki'[u].requests = pki[u].requests
    BY <2>1, <2>2
  <2>5. secret' \in [Users -> Secrets]
    BY <1>0, <2>2 DEF UserTypes, Secrets
  <2>6. UNCHANGED <<user, userSeen, uw, udue>>
    BY <1>13 DEF FinalizePKI
  <2>7. \A u \in Users : PkiOk(uw'[u], pki'[u])
    BY <1>0, <2>4, <2>6 DEF UserTypes, PkiOk
  <2>8. UserTypes'
    BY <1>0, <2>3, <2>5, <2>6, <2>7 DEF UserTypes
  <2>9. SharedTypes'
    BY <1>0, <1>3, <1>13, CGotoTypes DEF SharedTypes, FinalizePKI, sharedVars
  <2> QED BY <1>0, <1>13, <2>8, <2>9, TopicTypesKept DEF FinalizePKI, Types, sharedVars
<1>14. CASE RemoveMainFinalizer
  BY <1>1, <1>3, <1>6, <1>14 DEF RemoveMainFinalizer
<1> QED
  BY <1>4, <1>5, <1>7, <1>8, <1>9, <1>10, <1>11, <1>12, <1>13, <1>14 DEF ClusterStep

\* Every scene starts with its types.
LEMMA InitTypes == ASSUME Init PROVE Types
<1>1. SharedTypes
  <2>1. scene \in Scenes /\ scene.fins \subseteq Finalizers /\ scene.budget \in [Events -> Nat]
    BY SceneAssumption DEF Init
  <2>2. cluster \in ClusterObj /\ clusterSeen \in ClusterObj
    BY <2>1 DEF Init, ClusterObj
  <2>3. cw \in ClusterWork
    BY ClusterConstants DEF Init
  <2>4. up \in BOOLEAN /\ left \in [Events -> Nat] /\ cdue \in BOOLEAN
    BY <2>1 DEF Init
  <2> QED BY <2>1, <2>2, <2>3, <2>4 DEF SharedTypes
<1> QED BY <1>1, InitTopics, InitUsers DEF Types

\* No step breaks them: the three controllers, the caches, the users of the cluster, Kafka,
\* the signers, the garbage collector, outages and restarts.
LEMMA NextTypes == ASSUME Types, [Next]_vars PROVE Types'
<1>0. SharedTypes /\ TopicTypes /\ UserTypes
  BY DEF Types
<1>1. ASSUME UNCHANGED <<userVars, clusterVars>>, NEW t \in Topics, TopicStep(t) PROVE Types'
  <2>1. UNCHANGED <<sharedVars, secret>>
    BY <1>1 DEF TopicStep, ReconcileTopic, ManagedBy, ConnectTopic, CreateTopic, EnsurePartitionCount, EnsureTopicConfig,
                LabelTopic, FinalizeLater, TopicCreated, DropTopic, AwaitTopic, RemoveTopicFinalizer
  <2>2. SharedTypes'
    BY <1>0, <1>1, <2>1 DEF SharedTypes, sharedVars, clusterVars
  <2> QED BY <1>0, <1>1, <2>1, <2>2, TopicStepTypes, UserTypesKept DEF Types
<1>2. ASSUME UNCHANGED <<userVars, clusterVars>>, TopicEnvironment PROVE Types'
  <2>1. UNCHANGED <<scene, cluster, clusterSeen, up, secret>>
    BY <1>2 DEF TopicEnvironment, SyncTopic, UserCreatesTopic, UserEditsTopic, UserStripsLabel,
                UserDeletesTopic, UserWrites, KafkaRemoves, TopicVanishes, sharedVars
  <2>2. UNCHANGED left \/ \E e \in Events : Spend(e)
    BY <1>2 DEF TopicEnvironment, SyncTopic, UserCreatesTopic, UserEditsTopic, UserStripsLabel,
                UserDeletesTopic, KafkaRemoves, TopicVanishes, sharedVars, Events
  <2>3. SharedTypes'
    <3>1. left' \in [Events -> Nat]
      BY <1>0, <2>2, SpendTypes DEF SharedTypes
    <3> QED BY <1>0, <1>2, <2>1, <3>1 DEF SharedTypes, clusterVars
  <2> QED BY <1>0, <1>2, <2>1, <2>3, TopicEnvironmentTypes, UserTypesKept DEF Types
<1>3. ASSUME UNCHANGED <<topicVars, clusterVars>>, NEW u \in Users, UserStep(u) PROVE Types'
  <2>1. UNCHANGED sharedVars
    BY <1>3 DEF UserStep, ReconcileUser, GetUserCertificate, InjectJKSPassword, CreateCertificate,
                GetUserSecret, EnsureKey, GenerateAndCreateCSR, SecretUpdateAnnotation, PollRequest,
                UserMain, DeleteUserACLs, RemoveUserFinalizer, LabelUser, CreateUserACLs,
                AddUserFinalizer, UserCreated
  <2>2. SharedTypes'
    BY <1>0, <1>3, <2>1 DEF SharedTypes, sharedVars, clusterVars
  <2>3. TopicTypes'
    BY <1>0, <1>3, <2>1, TopicTypesKept DEF sharedVars
  <2> QED BY <1>3, <2>2, <2>3, UserStepTypes DEF Types
<1>4. ASSUME UNCHANGED <<topicVars, clusterVars>>, UserEnvironment PROVE Types'
  <2>1. UNCHANGED <<scene, cluster, clusterSeen, up>>
    BY <1>4 DEF UserEnvironment, SyncUser, UserCreatesUser, UserDeletesUser, CallFails,
                CertManagerIssues, SignerActs, RequestExpires, GarbageCollect, sharedVars
  <2>2. UNCHANGED left \/ \E e \in Events : Spend(e)
    BY <1>4 DEF UserEnvironment, SyncUser, UserCreatesUser, UserDeletesUser, CallFails,
                CertManagerIssues, SignerActs, RequestExpires, GarbageCollect, sharedVars, Events
  <2>3. SharedTypes'
    <3>1. left' \in [Events -> Nat]
      BY <1>0, <2>2, SpendTypes DEF SharedTypes
    <3> QED BY <1>0, <1>4, <2>1, <3>1 DEF SharedTypes, clusterVars
  <2>4. TopicTypes'
    BY <1>0, <1>4, <2>1, TopicTypesKept
  <2> QED BY <1>4, <2>3, <2>4, UserEnvironmentTypes DEF Types
<1>5. ASSUME SyncCluster PROVE Types'
  <2>1. SharedTypes'
    BY <1>0, <1>5 DEF SharedTypes, SyncCluster
  <2> QED BY <1>0, <1>5, <2>1, TopicTypesKept, UserTypesKept DEF SyncCluster, Types
<1>6. ASSUME UserDeletesCluster PROVE Types'
  <2>1. [cluster EXCEPT !.deleted = TRUE] \in ClusterObj
    BY <1>0 DEF SharedTypes, ClusterObj
  <2>2. cluster' \in ClusterObj
    BY <1>6, <2>1, ClusterConstants DEF UserDeletesCluster, StoredCluster
  <2>3. left' \in [Events -> Nat]
    BY <1>0, <1>6, SpendTypes DEF UserDeletesCluster, Events
  <2>4. SharedTypes'
    BY <1>0, <1>6, <2>2, <2>3 DEF SharedTypes, UserDeletesCluster, clusterVars
  <2> QED BY <1>0, <1>6, <2>4, TopicTypesKept, UserTypesKept DEF UserDeletesCluster, Types
<1>7. ASSUME Outage PROVE Types'
  <2>1. left' \in [Events -> Nat]
    BY <1>0, <1>7, SpendTypes DEF Outage, Events, SharedTypes
  <2>2. up' \in BOOLEAN
    BY <1>7 DEF Outage
  <2>3. SharedTypes'
    BY <1>0, <1>7, <2>1, <2>2 DEF SharedTypes, Outage, clusterVars
  <2> QED BY <1>0, <1>7, <2>3, TopicTypesKept, UserTypesKept DEF Outage, Types
<1>8. ASSUME Crash PROVE Types'
  <2>1. left' \in [Events -> Nat]
    BY <1>0, <1>8, SpendTypes DEF Crash, Events
  <2>2. cw' \in ClusterWork /\ cdue' \in BOOLEAN
    BY <1>0, <1>8, ClusterConstants DEF Crash, SharedTypes, ClusterObj
  <2>3. SharedTypes'
    BY <1>0, <1>8, <2>1, <2>2 DEF SharedTypes, Crash
  <2>4. TopicTypes'
    BY <1>0, <1>8, TopicConstants DEF TopicTypes, Crash, Names, Name
  <2>5. UserTypes'
    <3>1. uw' \in [Users -> UserWork] /\ \A u \in Users : uw'[u].pc = "idle"
      BY <1>8, UserConstants DEF Crash, UserWorker
    <3>2. \A u \in Users : PkiOk(uw'[u], pki'[u])
      BY <1>0, <1>8, <3>1 DEF UserTypes, PkiOk, Crash
    <3> QED BY <1>0, <1>8, <3>1, <3>2 DEF UserTypes, Crash
  <2> QED BY <2>3, <2>4, <2>5 DEF Types
<1>9. ASSUME UNCHANGED vars PROVE Types'
  <2>1. SharedTypes'
    BY <1>0, <1>9 DEF SharedTypes, vars, sharedVars, clusterVars
  <2> QED BY <1>0, <1>9, <2>1, TopicTypesKept, UserTypesKept DEF vars, sharedVars, Types
<1> QED
  BY <1>1, <1>2, <1>3, <1>4, <1>5, <1>6, <1>7, <1>8, <1>9, ClusterStepTypes DEF Next

\* The variables have their types in every state, for every set of topics and users and for
\* every scene: the secret of a user never refers to a request that was not made
\* (k8scsr_user.go:300), and a worker that polls has one to poll.
THEOREM AccessTypes == Spec => []Types
BY InitTypes, NextTypes, PTL DEF Spec

\* The type invariant that the run access checks, from the inductive one.
THEOREM AccessTypesHold == Spec => []TypeOK
<1>1. Types => TypeOK
  <2> SUFFICES ASSUME Types PROVE TypeOK
    OBVIOUS
  <2>1. cluster.fins \subseteq Finalizers /\ cdue \in BOOLEAN
    BY DEF Types, SharedTypes, ClusterObj
  <2>2. ASSUME NEW t \in Topics
        PROVE  /\ topic[t].by \in {"", "koperator", "other"} /\ topic[t].state \in {"", "created"}
               /\ kafka[Name(t)].parts \in Nat
    BY NameInNames DEF Types, TopicTypes, TopicObj, KafkaTopic
  <2>3. ASSUME NEW u \in Users
        PROVE  /\ secret[u] \in {"none", "password", "key", "full"}
               /\ pki[u].refers \in 0..Len(pki[u].requests)
               /\ user[u].state \in {"", "created"}
    <3>1. secret[u] \in Secrets /\ user[u] \in UserObj
      BY DEF Types, UserTypes
    <3>2. pki[u] \in PkiRec /\ pki[u].refers <= Len(pki[u].requests)
      BY DEF Types, UserTypes, PkiOk
    <3>3. pki[u].refers \in Nat /\ Len(pki[u].requests) \in Nat
      BY <3>2 DEF PkiRec
    <3>4. pki[u].refers \in 0..Len(pki[u].requests)
      BY <3>2, <3>3
    <3> QED BY <3>1, <3>4 DEF Secrets, UserObj
  <2> QED BY <2>1, <2>2, <2>3 DEF TypeOK, Types, TopicTypes, UserTypes
<1> QED BY <1>1, AccessTypes, PTL

-----------------------------------------------------------------------------
(* Topics. *)

\* Another KafkaTopic stands for the same topic of Kafka.
Shared(t) == \E x \in Topics \ {t} : Name(x) = Name(t)

\* A cluster that the cache has forgotten is gone.
ClusterGoesOnce == cluster.exists => clusterSeen.exists

\* The finalizer of a managed topic is about to go: the topic has gone.
UnfinIsSafe ==
  \A t \in Topics :
    tw[t].pc = "unfin" /\ tw[t].obj.managed /\ cluster.exists => ~InKafka(t) \/ Shared(t)

\* The inductive invariant of the deletion of a topic.
TopicInv == ClusterGoesOnce /\ UnfinIsSafe

\* A worker that goes on keeps its object; the others stay where they are.
LEMMA TGotoAt ==
  ASSUME Types, NEW t \in Topics, NEW pc, TGoto(t, pc)
  PROVE  /\ tw'[t].pc = pc /\ tw'[t].obj = tw[t].obj
         /\ \A x \in Topics \ {t} : tw'[x] = tw[x]
<1>1. tw \in [Topics -> TopicWork] /\ tw[t] \in TopicWork
  BY DEF Types, TopicTypes
<1> DEFINE w == [tw[t] EXCEPT !.pc = pc]
<1>2. w.pc = pc /\ w.obj = tw[t].obj
  BY <1>1 DEF TopicWork
<1>3. tw' = [tw EXCEPT ![t] = w]
  BY DEF TGoto
<1> HIDE DEF w
<1> QED BY <1>1, <1>2, <1>3

\* A worker that is done or fails is idle.
LEMMA TDoneAt ==
  ASSUME Types, NEW t \in Topics, TDone(t) \/ TFail(t)
  PROVE  tw'[t].pc = "idle" /\ \A x \in Topics \ {t} : tw'[x] = tw[x]
<1>1. tw \in [Topics -> TopicWork] /\ TopicWorker.pc = "idle"
  BY DEF Types, TopicTypes, TopicWorker
<1> QED BY <1>1 DEF TDone, TFail

\* A worker that writes goes on, or is idle because the write has failed.
LEMMA TWriteAt ==
  ASSUME Types, NEW t \in Topics, NEW new, NEW allowed, NEW pc, TWrite(t, new, allowed, pc)
  PROVE  tw'[t].pc \in {pc, "idle"} /\ \A x \in Topics \ {t} : tw'[x] = tw[x]
<1>1. tw \in [Topics -> TopicWork] /\ tw[t] \in TopicWork
  BY DEF Types, TopicTypes
<1>2. CASE TFail(t)
  BY <1>2, TDoneAt
<1>3. CASE tw' = [tw EXCEPT ![t] = IF pc = "idle" THEN TopicWorker
                                   ELSE [@ EXCEPT !.pc = pc, !.obj = StoredTopic(new)]]
  <2> DEFINE w == [tw[t] EXCEPT !.pc = pc, !.obj = StoredTopic(new)]
  <2>1. w.pc = pc
    BY <1>1 DEF TopicWork
  <2>2. tw' = [tw EXCEPT ![t] = IF pc = "idle" THEN TopicWorker ELSE w]
    BY <1>1, <1>3
  <2>3. TopicWorker.pc = "idle"
    BY DEF TopicWorker
  <2> HIDE DEF w
  <2> QED BY <1>1, <2>1, <2>2, <2>3
<1> QED BY <1>2, <1>3 DEF TWrite

\* The controller removes the finalizer only after Kafka has answered that the topic is
\* gone (kafkatopic_controller.go, finalizeKafkaTopic); nothing that happens until the
\* write takes effect brings the topic back, unless another KafkaTopic stands for it.
LEMMA TopicStepSafe ==
  ASSUME Types, TopicInv, NEW x \in Topics, TopicStep(x) PROVE UnfinIsSafe'
<1>0. /\ tw \in [Topics -> TopicWork] /\ kafka \in [Names -> KafkaTopic]
      /\ \A t \in Topics : Name(t) \in Names
  BY NameInNames DEF Types, TopicTypes
<1>1. UNCHANGED <<scene, cluster, clusterSeen>>
  BY DEF TopicStep, ReconcileTopic, ManagedBy, ConnectTopic, CreateTopic, EnsurePartitionCount, EnsureTopicConfig, LabelTopic,
         FinalizeLater, TopicCreated, DropTopic, AwaitTopic, RemoveTopicFinalizer, sharedVars
<1>2. \A t \in Topics : Name(t)' = Name(t) /\ (Shared(t)' <=> Shared(t))
  BY <1>1 DEF Name, Shared
<1> DEFINE Rest == \A t \in Topics \ {x} :
                     tw'[t] = tw[t] /\ (Name(t) # Name(x) => kafka'[Name(t)] = kafka[Name(t)])
           Here == /\ tw'[x].pc = "unfin" /\ tw'[x].obj.managed /\ cluster.exists
                     => kafka'[Name(x)] = Missing
<1>3. SUFFICES Rest /\ Here
  <2> SUFFICES ASSUME NEW t \in Topics, tw'[t].pc = "unfin", tw'[t].obj.managed, cluster'.exists
               PROVE  ~InKafka(t)' \/ Shared(t)'
    BY DEF UnfinIsSafe
  <2>1. CASE t = x
    BY <1>1, <1>2, <1>3, <2>1 DEF InKafka
  <2>2. CASE t # x /\ Name(t) = Name(x)
    BY <1>2, <2>2 DEF Shared
  <2>3. CASE t # x /\ Name(t) # Name(x)
    <3>1. ~InKafka(t) \/ Shared(t)
      BY <1>1, <1>3, <2>3 DEF TopicInv, UnfinIsSafe
    <3> QED BY <1>2, <1>3, <2>3, <3>1 DEF InKafka
  <2> QED BY <2>1, <2>2, <2>3
<1>4. CASE ReconcileTopic(x)
  <2>1. kafka' = kafka /\ tw[x].pc = "idle"
    BY <1>4 DEF ReconcileTopic, TAt
  <2>2. CASE UNCHANGED tw
    BY <2>1, <2>2
  <2>3. CASE /\ tw' = [tw EXCEPT ![x] = [TopicWorker EXCEPT
                         !.pc = IF clusterSeen.exists THEN "managed" ELSE "unfin", !.obj = topicSeen[x]]]
    <3> DEFINE w == [TopicWorker EXCEPT !.pc = IF clusterSeen.exists THEN "managed" ELSE "unfin",
                                        !.obj = topicSeen[x]]
    <3>1. w.pc = "unfin" => ~clusterSeen.exists
      BY DEF TopicWorker
    <3>2. tw' = [tw EXCEPT ![x] = w]
      BY <2>3
    <3> HIDE DEF w
    <3> QED BY <1>0, <2>1, <3>1, <3>2 DEF TopicInv, ClusterGoesOnce
  <2> QED BY <1>4, <2>2, <2>3 DEF ReconcileTopic
<1>5. CASE ManagedBy(x)
  <2>1. kafka' = kafka
    BY <1>5 DEF ManagedBy
  <2>2. tw'[x].pc \in {"connect", "idle"} /\ \A t \in Topics \ {x} : tw'[t] = tw[t]
    BY <1>5, TGotoAt, TWriteAt DEF ManagedBy, TStatusUpdate
  <2> QED BY <2>1, <2>2
<1>6. CASE ConnectTopic(x)
  <2>1. kafka' = kafka
    BY <1>6 DEF ConnectTopic
  <2>2. \/ TFail(x) \/ TDone(x) \/ TGoto(x, "drop") \/ TGoto(x, "create") \/ TGoto(x, "alter")
        \/ TGoto(x, "unfin") /\ ~(tw[x].obj.managed /\ InKafka(x))
    BY <1>6 DEF ConnectTopic, CheckFinalizers
  <2> QED BY <2>1, <2>2, TGotoAt, TDoneAt DEF InKafka
<1>7. CASE CreateTopic(x)
  <2>1. tw'[x].pc \in {"label", "idle"} /\ \A t \in Topics \ {x} : tw'[t] = tw[t]
    BY <1>7, TGotoAt, TDoneAt DEF CreateTopic
  <2>2. \A n \in Names \ {Name(x)} : kafka'[n] = kafka[n]
    BY <1>0, <1>7 DEF CreateTopic
  <2> QED BY <1>0, <2>1, <2>2
<1>8. CASE EnsurePartitionCount(x) \/ EnsureTopicConfig(x)
  <2>1. tw'[x].pc \in {"config", "label", "idle"} /\ \A t \in Topics \ {x} : tw'[t] = tw[t]
    BY <1>8, TGotoAt, TDoneAt DEF EnsurePartitionCount, EnsureTopicConfig
  <2>2. \A n \in Names \ {Name(x)} : kafka'[n] = kafka[n]
    BY <1>0, <1>8 DEF EnsurePartitionCount, EnsureTopicConfig
  <2> QED BY <1>0, <2>1, <2>2
<1>9. CASE LabelTopic(x)
  <2>1. kafka' = kafka
    BY <1>9 DEF LabelTopic
  <2>2. tw'[x].pc \in {"final", "idle"} /\ \A t \in Topics \ {x} : tw'[t] = tw[t]
    <3>1. CASE tw' = [tw EXCEPT ![x].pc = "final", ![x].label = TRUE]
      <4> DEFINE w == [[tw[x] EXCEPT !.pc = "final"] EXCEPT !.label = TRUE]
      <4>1. w.pc = "final"
        BY <1>0 DEF TopicWork
      <4>2. tw' = [tw EXCEPT ![x] = w]
        BY <1>0, <3>1
      <4> HIDE DEF w
      <4> QED BY <1>0, <4>1, <4>2
    <3> QED BY <1>9, <3>1, TWriteAt DEF LabelTopic, TUpdate
  <2> QED BY <2>1, <2>2
<1>10. CASE FinalizeLater(x)
  <2>1. kafka' = kafka
    BY <1>10 DEF FinalizeLater
  <2>2. tw'[x].pc \in {"status", "idle"} /\ \A t \in Topics \ {x} : tw'[t] = tw[t]
    BY <1>10, TGotoAt, TWriteAt DEF FinalizeLater, TUpdate
  <2> QED BY <2>1, <2>2
<1>11. CASE TopicCreated(x)
  <2>1. kafka' = kafka
    BY <1>11 DEF TopicCreated
  <2>2. tw'[x].pc = "idle" /\ \A t \in Topics \ {x} : tw'[t] = tw[t]
    BY <1>11, TDoneAt, TWriteAt DEF TopicCreated, TStatusUpdate
  <2> QED BY <2>1, <2>2
<1>12. CASE DropTopic(x)
  <2>1. tw'[x].pc \in {"wait", "idle"} /\ \A t \in Topics \ {x} : tw'[t] = tw[t]
    BY <1>12, TGotoAt, TDoneAt DEF DropTopic
  <2>2. \A n \in Names \ {Name(x)} : kafka'[n] = kafka[n]
    BY <1>0, <1>12 DEF DropTopic
  <2> QED BY <1>0, <2>1, <2>2
<1>13. CASE AwaitTopic(x)
  <2>1. kafka' = kafka
    BY <1>13 DEF AwaitTopic
  <2>2. TFail(x) \/ (~InKafka(x) /\ TGoto(x, "unfin"))
    BY <1>13 DEF AwaitTopic
  <2> QED BY <2>1, <2>2, TGotoAt, TDoneAt DEF InKafka
<1>14. CASE RemoveTopicFinalizer(x)
  <2>1. kafka' = kafka
    BY <1>14 DEF RemoveTopicFinalizer
  <2>2. tw'[x].pc = "idle" /\ \A t \in Topics \ {x} : tw'[t] = tw[t]
    BY <1>14, TWriteAt DEF RemoveTopicFinalizer, TUpdate
  <2> QED BY <2>1, <2>2
<1> QED
  BY <1>4, <1>5, <1>6, <1>7, <1>8, <1>9, <1>10, <1>11, <1>12, <1>13, <1>14 DEF TopicStep

\* A cluster that is gone stays away, and the cache shows it as it was at some time.
LEMMA ClusterStays ==
  ASSUME Types, [Next]_vars
  PROVE  /\ cluster'.exists => cluster.exists
         /\ clusterSeen' = clusterSeen \/ (clusterSeen' = cluster /\ cluster' = cluster)
<1>0. cluster \in ClusterObj /\ cw.obj \in ClusterObj
  BY DEF Types, SharedTypes, ClusterWork
<1>1. ASSUME NEW f, NEW pc, CWrite([cw.obj EXCEPT !.fins = f], pc)
      PROVE  cluster'.exists => cluster.exists
  <2> DEFINE new == [cw.obj EXCEPT !.fins = f]
  <2>1. new.exists = cw.obj.exists
    BY <1>0 DEF ClusterObj
  <2>2. cluster' = cluster \/ (cluster = cw.obj /\ cluster' = StoredCluster(new))
    BY <1>1 DEF CWrite
  <2> HIDE DEF new
  <2>3. StoredCluster(new).exists => new.exists
    BY DEF StoredCluster, NoCluster
  <2> QED BY <2>1, <2>2, <2>3
<1>2. CASE ClusterStep
  <2>1. clusterSeen' = clusterSeen
    BY <1>2 DEF ClusterStep, ReconcileCluster, ReconcilePKI, EnsureFinalizers, SweepTopics,
                TopicsSwept, AwaitTopics, SweepUsers, UsersSwept, FinalizePKI, RemoveMainFinalizer,
                sharedVars, cOthers
  <2>2. CASE EnsureFinalizers \/ TopicsSwept \/ UsersSwept \/ RemoveMainFinalizer
    BY <1>1, <2>1, <2>2 DEF EnsureFinalizers, TopicsSwept, UsersSwept, RemoveMainFinalizer
  <2>3. CASE ReconcileCluster \/ ReconcilePKI \/ SweepTopics \/ AwaitTopics \/ SweepUsers \/ FinalizePKI
    BY <2>1, <2>3 DEF ReconcileCluster, ReconcilePKI, SweepTopics, AwaitTopics, SweepUsers,
                      FinalizePKI, sharedVars
  <2> QED BY <1>2, <2>2, <2>3 DEF ClusterStep
<1>3. CASE UserDeletesCluster
  <2>1. [cluster EXCEPT !.deleted = TRUE].exists = cluster.exists
    BY <1>0 DEF ClusterObj
  <2> QED BY <1>3 DEF UserDeletesCluster
<1>4. CASE \/ \E t \in Topics : TopicStep(t)
           \/ TopicEnvironment
  <2>1. UNCHANGED <<cluster, clusterSeen>>
    BY <1>4 DEF TopicStep, ReconcileTopic, ManagedBy, ConnectTopic, CreateTopic, EnsurePartitionCount, EnsureTopicConfig,
                LabelTopic, FinalizeLater, TopicCreated, DropTopic, AwaitTopic, RemoveTopicFinalizer,
                TopicEnvironment, SyncTopic, UserCreatesTopic, UserEditsTopic, UserStripsLabel,
                UserDeletesTopic, UserWrites, KafkaRemoves, TopicVanishes, sharedVars
  <2> QED BY <2>1
<1>5. CASE \/ \E u \in Users : UserStep(u)
           \/ UserEnvironment
  <2>1. UNCHANGED <<cluster, clusterSeen>>
    BY <1>5 DEF UserStep, ReconcileUser, GetUserCertificate, InjectJKSPassword, CreateCertificate,
                GetUserSecret, EnsureKey, GenerateAndCreateCSR, SecretUpdateAnnotation, PollRequest,
                UserMain, DeleteUserACLs, RemoveUserFinalizer, LabelUser, CreateUserACLs,
                AddUserFinalizer, UserCreated, UserEnvironment, SyncUser, UserCreatesUser,
                UserDeletesUser, CallFails, CertManagerIssues, SignerActs, RequestExpires,
                GarbageCollect, sharedVars
  <2> QED BY <2>1
<1>6. CASE SyncCluster \/ Outage \/ Crash \/ UNCHANGED vars
  BY <1>6 DEF SyncCluster, Outage, Crash, vars, sharedVars
<1> QED BY <1>2, <1>3, <1>4, <1>5, <1>6 DEF Next

\* The scene is chosen once.
LEMMA SceneStays == ASSUME [Next]_vars PROVE scene' = scene
BY DEF Next, TopicStep, ReconcileTopic, ManagedBy, ConnectTopic, CreateTopic, EnsurePartitionCount, EnsureTopicConfig,
       LabelTopic, FinalizeLater, TopicCreated, DropTopic, AwaitTopic, RemoveTopicFinalizer,
       TopicEnvironment, SyncTopic, UserCreatesTopic, UserEditsTopic, UserStripsLabel,
       UserDeletesTopic, UserWrites, KafkaRemoves, TopicVanishes, sharedVars,
       UserStep, ReconcileUser, GetUserCertificate, InjectJKSPassword, CreateCertificate,
       GetUserSecret, EnsureKey, GenerateAndCreateCSR, SecretUpdateAnnotation, PollRequest,
       UserMain, DeleteUserACLs, RemoveUserFinalizer, LabelUser, CreateUserACLs,
       AddUserFinalizer, UserCreated, UserEnvironment, SyncUser, UserCreatesUser,
       UserDeletesUser, CallFails, CertManagerIssues, SignerActs, RequestExpires,
       GarbageCollect, ClusterStep, ReconcileCluster, ReconcilePKI, EnsureFinalizers,
       SweepTopics, TopicsSwept, AwaitTopics, SweepUsers, UsersSwept, FinalizePKI,
       RemoveMainFinalizer, cOthers, SyncCluster, UserDeletesCluster, Outage, Crash, vars

\* No finalizer is about to go at the beginning.
LEMMA InitTopicInv == ASSUME Init PROVE TopicInv
BY DEF Init, TopicInit, TopicInv, ClusterGoesOnce, UnfinIsSafe, TopicWorker

\* No step breaks TopicInv.
LEMMA NextTopicInv == ASSUME Types, TopicInv, [Next]_vars PROVE TopicInv'
<1>1. ClusterGoesOnce'
  BY ClusterStays DEF TopicInv, ClusterGoesOnce
<1>0. (cluster'.exists => cluster.exists) /\ scene' = scene
  BY ClusterStays, SceneStays
<1>2. ASSUME UNCHANGED tw,
             \A n \in Names : kafka'[n] = kafka[n] \/ kafka'[n] = Missing
      PROVE  UnfinIsSafe'
  <2>1. \A t \in Topics : Name(t)' = Name(t) /\ (Shared(t)' <=> Shared(t)) /\ Name(t) \in Names
    BY <1>0, NameInNames DEF Name, Shared
  <2>2. \A t \in Topics : InKafka(t)' => InKafka(t)
    BY <1>2, <2>1 DEF InKafka
  <2> QED BY <1>0, <1>2, <2>1, <2>2 DEF TopicInv, UnfinIsSafe
<1>3. ASSUME NEW x \in Topics, TopicStep(x) PROVE UnfinIsSafe'
  BY <1>3, TopicStepSafe
<1>4. ASSUME TopicEnvironment PROVE UnfinIsSafe'
  <2>1. UNCHANGED tw
    BY <1>4 DEF TopicEnvironment, SyncTopic, UserCreatesTopic, UserEditsTopic, UserStripsLabel,
                UserDeletesTopic, UserWrites, KafkaRemoves, TopicVanishes, sharedVars
  <2>2. \A n \in Names : kafka'[n] = kafka[n] \/ kafka'[n] = Missing
    <3>1. UNCHANGED kafka \/ \E n \in Names : kafka' = [kafka EXCEPT ![n] = Missing]
      BY <1>4 DEF TopicEnvironment, SyncTopic, UserCreatesTopic, UserEditsTopic, UserStripsLabel,
                  UserDeletesTopic, UserWrites, KafkaRemoves, TopicVanishes
    <3>2. kafka \in [Names -> KafkaTopic]
      BY DEF Types, TopicTypes
    <3> QED BY <3>1, <3>2
  <2> QED BY <1>2, <2>1, <2>2
<1>5. ASSUME UNCHANGED topicVars PROVE UnfinIsSafe'
  <2>1. UNCHANGED <<tw, kafka>>
    BY <1>5 DEF topicVars
  <2> QED BY <1>2, <2>1
<1>6. ASSUME SweepTopics PROVE UnfinIsSafe'
  <2>1. UNCHANGED <<tw, kafka>>
    BY <1>6 DEF SweepTopics
  <2> QED BY <1>2, <2>1
<1>7. ASSUME Crash PROVE UnfinIsSafe'
  <2>1. \A t \in Topics : tw'[t].pc # "unfin"
    BY <1>7 DEF Crash, TopicWorker
  <2> QED BY <2>1 DEF UnfinIsSafe
<1>8. UnfinIsSafe'
  <2>1. ASSUME ClusterStep PROVE SweepTopics \/ UNCHANGED topicVars
    BY <2>1 DEF ClusterStep, ReconcileCluster, ReconcilePKI, EnsureFinalizers, SweepTopics,
                TopicsSwept, AwaitTopics, SweepUsers, UsersSwept, FinalizePKI, RemoveMainFinalizer
  <2>2. ASSUME SyncCluster \/ UserDeletesCluster \/ Outage \/ UNCHANGED vars
        PROVE  UNCHANGED topicVars
    BY <2>2 DEF SyncCluster, UserDeletesCluster, Outage, vars
  <2>3. \/ \E x \in Topics : TopicStep(x)
        \/ TopicEnvironment \/ UNCHANGED topicVars \/ SweepTopics \/ Crash
    BY <2>1, <2>2 DEF Next
  <2> QED BY <1>3, <1>4, <1>5, <1>6, <1>7, <2>3
<1> QED BY <1>1, <1>8 DEF TopicInv

\* What may become of a KafkaTopic: it appears once, it keeps the mark of its deletion, it keeps
\* its label unless a user takes it, and one with the finalizer only disappears with a write
\* of the worker that removes it.
Later(o, n) == /\ n.exists => o.exists \/ ~o.deleted
               /\ o.exists /\ ~n.exists => n.deleted
               /\ o.deleted => n.deleted

\* What a step may make of a KafkaTopic: it loses its label only if somebody strips it, and
\* one that carries its finalizer disappears only by the write of its own worker, of the
\* object as it is.
Evolves(t) ==
  /\ Later(topic[t], topic'[t])
  /\ topic[t].exists /\ topic[t].label /\ topic'[t].exists => topic'[t].label \/ left["strip"] > 0
  /\ topic[t].exists /\ topic[t].fin /\ ~topic'[t].exists
       => tw[t].pc = "unfin" /\ tw[t].obj = topic[t]

\* The writes of the controller keep existence, deletion and label.
Alike(o, n) == n.exists = o.exists /\ n.deleted = o.deleted /\ (o.label => n.label)

\* A KafkaTopic that has gone was deleted.
LEMMA GoneTopicFields == GoneTopic.exists = FALSE /\ GoneTopic.deleted = TRUE
BY DEF GoneTopic, NoTopic

\* A KafkaTopic that nobody writes evolves.
LEMMA SameEvolves == ASSUME NEW t, topic'[t] = topic[t] PROVE Evolves(t)
BY DEF Evolves, Later

\* So does one that its worker writes; the write takes effect only if the object is still
\* the one that was read.
LEMMA WriteEvolves ==
  ASSUME Types, NEW t \in Topics, NEW new, NEW allowed, NEW pc, TWrite(t, new, allowed, pc),
         Alike(tw[t].obj, new), tw[t].obj.fin => new.fin \/ tw[t].pc = "unfin"
  PROVE  Evolves(t)
<1>1. CASE UNCHANGED topic
  BY <1>1, SameEvolves
<1>2. CASE topic[t] = tw[t].obj /\ topic' = [topic EXCEPT ![t] = StoredTopic(new)]
  <2>1. topic'[t] = StoredTopic(new)
    BY <1>2 DEF Types, TopicTypes
  <2>2. CASE new.deleted /\ ~new.fin
    <3>1. topic'[t] = GoneTopic
      BY <2>1, <2>2 DEF StoredTopic
    <3> QED BY <1>2, <2>2, <3>1, GoneTopicFields DEF Evolves, Later, Alike
  <2>3. CASE ~(new.deleted /\ ~new.fin)
    <3>1. topic'[t] = new
      BY <2>1, <2>3 DEF StoredTopic
    <3> QED BY <1>2, <3>1 DEF Evolves, Later, Alike
  <2> QED BY <2>2, <2>3
<1> QED BY <1>1, <1>2 DEF TWrite

\* Every step of the controller is such a write or none.
LEMMA TopicStepEvolves ==
  ASSUME Types, NEW t \in Topics, NEW x \in Topics, TopicStep(x) PROVE Evolves(t)
<1> DEFINE obj == tw[x].obj
<1>0. /\ obj \in TopicObj /\ tw[x] \in TopicWork
      /\ topic \in [Topics -> TopicObj]
  BY DEF Types, TopicTypes, TopicWork
<1> DEFINE Good(new) == Alike(obj, new) /\ (obj.fin => new.fin \/ tw[x].pc = "unfin")
<1>1. \/ UNCHANGED topic
      \/ \E new, allowed, pc : TWrite(x, new, allowed, pc) /\ Good(new)
  <2>1. CASE ManagedBy(x)
    <3> DEFINE new == [obj EXCEPT !.by = IF obj.managed THEN "koperator" ELSE "other"]
    <3>1. Good(new)
      BY <1>0 DEF Alike, TopicObj
    <3>2. UNCHANGED topic \/ TWrite(x, new, TRUE, "connect")
      BY <2>1 DEF ManagedBy, TStatusUpdate
    <3> HIDE DEF Good, new
    <3> QED BY <3>1, <3>2
  <2>2. CASE LabelTopic(x)
    <3> DEFINE new == [obj EXCEPT !.label = TRUE]
    <3>1. Good(new)
      BY <1>0 DEF Alike, TopicObj
    <3>2. UNCHANGED topic \/ TWrite(x, new, Admitted(x, new), "final")
      BY <2>2 DEF LabelTopic, TUpdate
    <3> HIDE DEF Good, new
    <3> QED BY <3>1, <3>2
  <2>3. CASE FinalizeLater(x)
    <3> DEFINE new == [obj EXCEPT !.fin = TRUE, !.label = @ \/ tw[x].label]
    <3>1. Good(new)
      <4>1. obj.label \in BOOLEAN /\ tw[x].label \in BOOLEAN
        BY <1>0 DEF TopicObj, TopicWork
      <4> DEFINE b == obj.label \/ tw[x].label
      <4>2. new = [[obj EXCEPT !.fin = TRUE] EXCEPT !.label = b]
        BY <1>0 DEF TopicObj
      <4>3. obj.label => b
        OBVIOUS
      <4> HIDE DEF b, new, obj
      <4> QED BY <1>0, <4>1, <4>2, <4>3 DEF Alike, TopicObj
    <3>2. UNCHANGED topic \/ TWrite(x, new, Admitted(x, new), "status")
      BY <2>3 DEF FinalizeLater, TUpdate
    <3> HIDE DEF Good, new
    <3> QED BY <3>1, <3>2
  <2>4. CASE TopicCreated(x)
    <3> DEFINE new == [obj EXCEPT !.state = "created"]
    <3>1. Good(new)
      BY <1>0 DEF Alike, TopicObj
    <3>2. UNCHANGED topic \/ TWrite(x, new, TRUE, "idle")
      BY <2>4 DEF TopicCreated, TStatusUpdate
    <3> HIDE DEF Good, new
    <3> QED BY <3>1, <3>2
  <2>5. CASE RemoveTopicFinalizer(x)
    <3> DEFINE new == [obj EXCEPT !.fin = FALSE]
    <3>1. Good(new)
      BY <1>0, <2>5 DEF Alike, TopicObj, RemoveTopicFinalizer, TAt
    <3>2. TWrite(x, new, Admitted(x, new), "idle")
      BY <2>5 DEF RemoveTopicFinalizer, TUpdate
    <3> HIDE DEF Good, new
    <3> QED BY <3>1, <3>2
  <2>6. CASE \/ ReconcileTopic(x) \/ ConnectTopic(x) \/ CreateTopic(x) \/ EnsurePartitionCount(x) \/ EnsureTopicConfig(x)
             \/ DropTopic(x) \/ AwaitTopic(x)
    BY <2>6 DEF ReconcileTopic, ConnectTopic, CreateTopic, EnsurePartitionCount, EnsureTopicConfig, DropTopic, AwaitTopic
  <2> QED BY <2>1, <2>2, <2>3, <2>4, <2>5, <2>6 DEF TopicStep
<1>2. CASE UNCHANGED topic
  BY <1>2, SameEvolves
<1>3. ASSUME NEW new, NEW allowed, NEW pc, TWrite(x, new, allowed, pc), Good(new)
      PROVE  Evolves(t)
  <2>1. CASE x = t
    BY <1>3, <2>1, WriteEvolves
  <2>2. CASE x # t
    <3>1. topic'[t] = topic[t]
      BY <1>0, <1>3, <2>2 DEF TWrite
    <3> QED BY <3>1, SameEvolves
  <2> QED BY <2>1, <2>2
<1> QED BY <1>1, <1>2, <1>3

\* The deletion by a user or by the teardown.
LEMMA DeletedEvolves ==
  ASSUME Types, NEW t \in Topics, topic'[t] = Deleted(topic[t]) PROVE Evolves(t)
<1> DEFINE new == [topic[t] EXCEPT !.deleted = TRUE]
<1>1. topic[t] \in TopicObj
  BY DEF Types, TopicTypes
<1>2. /\ new.exists = topic[t].exists /\ new.deleted /\ new.label = topic[t].label
      /\ new.fin = topic[t].fin
  BY <1>1 DEF TopicObj
<1>3. \/ topic'[t] = topic[t]
      \/ topic[t].exists /\ topic'[t] = StoredTopic(new)
  BY DEF Deleted
<1> HIDE DEF new
<1>4. CASE topic'[t] = topic[t]
  BY <1>4, SameEvolves
<1>5. CASE topic[t].exists /\ topic'[t] = GoneTopic /\ ~new.fin
  BY <1>2, <1>5, GoneTopicFields DEF Evolves, Later
<1>6. CASE topic[t].exists /\ topic'[t] = new
  BY <1>2, <1>6 DEF Evolves, Later
<1> QED BY <1>3, <1>4, <1>5, <1>6 DEF StoredTopic

\* Users create, edit, strip and delete; none of that takes a finalizer away.
LEMMA TopicEventEvolves ==
  ASSUME Types, NEW t \in Topics, TopicEnvironment PROVE Evolves(t)
<1>0. topic \in [Topics -> TopicObj] /\ topic[t] \in TopicObj
  BY DEF Types, TopicTypes
<1>1. ASSUME NEW x \in Topics, NEW new, UserWrites(x, new),
             x = t => /\ Later(topic[t], new)
                      /\ topic[t].exists => new.exists
                      /\ topic[t].exists /\ topic[t].label => new.label \/ left["strip"] > 0
      PROVE  Evolves(t)
  <2>1. topic' = [topic EXCEPT ![x] = new]
    BY <1>1 DEF UserWrites
  <2>2. CASE x = t
    <3>1. topic'[t] = new
      BY <1>0, <2>1, <2>2
    <3> QED BY <1>1, <2>2, <3>1 DEF Evolves, Later
  <2>3. CASE x # t
    BY <1>0, <2>1, <2>3, SameEvolves
  <2> QED BY <2>2, <2>3
<1>2. ASSUME NEW x \in Topics, UserCreatesTopic(x) PROVE Evolves(t)
  <2>1. PICK s \in scene.topics[x].specs : UserWrites(x, [NoTopic EXCEPT !.exists = TRUE, !.spec = s])
    BY <1>2 DEF UserCreatesTopic
  <2> DEFINE new == [NoTopic EXCEPT !.exists = TRUE, !.spec = s]
  <2>2. topic[x] = NoTopic
    BY <1>2 DEF UserCreatesTopic
  <2>3. NoTopic.exists = FALSE /\ NoTopic.deleted = FALSE
    BY DEF NoTopic
  <2>4. UserWrites(x, new)
    BY <2>1
  <2> HIDE DEF new
  <2>5. x = t => Later(topic[t], new)
    BY <2>2, <2>3 DEF Later
  <2> QED BY <1>1, <2>2, <2>3, <2>4, <2>5
<1>3. ASSUME NEW x \in Topics, UserEditsTopic(x) PROVE Evolves(t)
  <2>0. topic[x] \in TopicObj
    BY <1>0
  <2>1. ASSUME NEW s, UserWrites(x, [topic[x] EXCEPT !.spec = s]) PROVE Evolves(t)
    <3> DEFINE new == [topic[x] EXCEPT !.spec = s]
    <3>1. new.exists = topic[x].exists /\ new.deleted = topic[x].deleted /\ new.label = topic[x].label
      BY <2>0 DEF TopicObj
    <3>2. UserWrites(x, new)
      BY <2>1
    <3> HIDE DEF new
    <3>3. x = t => Later(topic[t], new)
      BY <3>1 DEF Later
    <3> QED BY <1>1, <3>1, <3>2, <3>3
  <2>2. ASSUME UserWrites(x, [topic[x] EXCEPT !.managed = ~@]) PROVE Evolves(t)
    <3> DEFINE new == [topic[x] EXCEPT !.managed = ~@]
    <3>1. new.exists = topic[x].exists /\ new.deleted = topic[x].deleted /\ new.label = topic[x].label
      BY <2>0 DEF TopicObj
    <3>2. UserWrites(x, new)
      BY <2>2
    <3> HIDE DEF new
    <3>3. x = t => Later(topic[t], new)
      BY <3>1 DEF Later
    <3> QED BY <1>1, <3>1, <3>2, <3>3
  <2> QED BY <1>3, <2>1, <2>2 DEF UserEditsTopic
<1>4. ASSUME NEW x \in Topics, UserStripsLabel(x) PROVE Evolves(t)
  <2>0. topic[x] \in TopicObj
    BY <1>0
  <2> DEFINE new == [topic[x] EXCEPT !.label = FALSE]
  <2>1. new.exists = topic[x].exists /\ new.deleted = topic[x].deleted
    BY <2>0 DEF TopicObj
  <2>2. UserWrites(x, new) /\ left["strip"] > 0
    BY <1>4 DEF UserStripsLabel, Spend
  <2> HIDE DEF new
  <2>3. x = t => Later(topic[t], new)
    BY <2>1 DEF Later
  <2> QED BY <1>1, <2>1, <2>2, <2>3
<1>5. ASSUME NEW x \in Topics, UserDeletesTopic(x) PROVE Evolves(t)
  <2>1. topic' = [topic EXCEPT ![x] = Deleted(topic[x])]
    BY <1>5 DEF UserDeletesTopic
  <2>2. topic'[t] = topic[t] \/ topic'[t] = Deleted(topic[t])
    BY <1>0, <2>1
  <2> QED BY <2>2, SameEvolves, DeletedEvolves
<1>6. ASSUME UNCHANGED topic PROVE Evolves(t)
  BY <1>6, SameEvolves
<1> QED
  BY <1>2, <1>3, <1>4, <1>5, <1>6 DEF TopicEnvironment, SyncTopic, KafkaRemoves, TopicVanishes

\* Every step lets every KafkaTopic evolve.
LEMMA TopicEvolves == ASSUME Types, NEW t \in Topics, [Next]_vars PROVE Evolves(t)
<1>1. CASE \E x \in Topics : TopicStep(x)
  BY <1>1, TopicStepEvolves
<1>2. CASE TopicEnvironment
  BY <1>2, TopicEventEvolves
<1>3. CASE UNCHANGED topic
  BY <1>3, SameEvolves
<1>4. CASE SweepTopics
  <2>1. topic'[t] = topic[t] \/ topic'[t] = Deleted(topic[t])
    BY <1>4 DEF SweepTopics, Types, TopicTypes
  <2> QED BY <2>1, SameEvolves, DeletedEvolves
<1>5. ASSUME ClusterStep PROVE SweepTopics \/ UNCHANGED topic
  BY <1>5 DEF ClusterStep, ReconcileCluster, ReconcilePKI, EnsureFinalizers, SweepTopics,
              TopicsSwept, AwaitTopics, SweepUsers, UsersSwept, FinalizePKI, RemoveMainFinalizer,
              topicVars
<1>6. ASSUME SyncCluster \/ UserDeletesCluster \/ Outage \/ Crash \/ UNCHANGED vars
      PROVE  UNCHANGED topic
  BY <1>6 DEF SyncCluster, UserDeletesCluster, Outage, Crash, vars, topicVars
<1>7. ASSUME UNCHANGED topicVars PROVE UNCHANGED topic
  BY <1>7 DEF topicVars
<1> QED BY <1>1, <1>2, <1>3, <1>4, <1>5, <1>6, <1>7 DEF Next

\* A managed KafkaTopic with the finalizer disappears only when its topic is no longer in
\* Kafka, whatever is edited, fails or restarts between the deletion of the topic and the
\* removal of the finalizer, for every set of topics and every scene.
THEOREM FinalizedTopicIsGoneHolds == Spec => FinalizedTopicIsGone
<1>1. Types /\ TopicInv /\ [Next]_vars
        => [\A t \in Topics :
              (topic[t].exists /\ topic[t].fin /\ topic[t].managed /\ ~topic'[t].exists /\ cluster.exists)
                => (~InKafka(t) \/ \E x \in Topics \ {t} : Name(x) = Name(t))]_vars
  <2> SUFFICES ASSUME Types, TopicInv, [Next]_vars, NEW t \in Topics,
                      topic[t].exists, topic[t].fin, topic[t].managed, ~topic'[t].exists, cluster.exists
               PROVE  ~InKafka(t) \/ \E x \in Topics \ {t} : Name(x) = Name(t)
    OBVIOUS
  <2>1. tw[t].pc = "unfin" /\ tw[t].obj = topic[t]
    BY TopicEvolves DEF Evolves
  <2> QED BY <2>1 DEF TopicInv, UnfinIsSafe, Shared
<1>2. Spec => []TopicInv
  BY InitTopicInv, InitTypes, NextTopicInv, NextTypes, AccessTypes, PTL DEF Spec
<1> QED BY <1>1, <1>2, AccessTypes, PTL DEF Spec, FinalizedTopicIsGone

-----------------------------------------------------------------------------
(* The teardown. *)

\* The topics that the scene starts with, under control.
Settling == {t \in Topics : scene.topics[t].settled}

\* Nobody takes the label from a settled topic: the cache lists it as long as it exists.
Listed ==
  \A t \in Settling :
    IF topic[t].exists THEN topic[t].label /\ topicSeen[t].exists /\ topicSeen[t].label
    ELSE topic[t].deleted

\* The teardown has passed its wait for the topics (kafkacluster_controller.go:256).
AfterTopics == {"users", "users2", "finalizePKI", "main"}

\* The settled topics have gone.
Unsettled == \A t \in Settling : ~topic[t].exists

\* The inductive invariant of the teardown: the wait lists the topics in the cache, and the
\* cache lists every settled topic that exists.
TeardownInv ==
  /\ left["strip"] = 0 /\ swept \subseteq Topics
  /\ Listed
  /\ cw.pc \in AfterTopics => Unsettled
  /\ "users" \in scene.fins /\ "users" \notin cluster.fins => Unsettled

\* Budgets are spent one event at a time.
LEMMA LeftSpent == ASSUME [Next]_vars PROVE UNCHANGED left \/ \E e \in Events : Spend(e)
<1>1. CASE \/ \E t \in Topics : TopicStep(t)
           \/ TopicEnvironment
  BY <1>1 DEF TopicStep, ReconcileTopic, ManagedBy, ConnectTopic, CreateTopic, EnsurePartitionCount, EnsureTopicConfig,
              LabelTopic, FinalizeLater, TopicCreated, DropTopic, AwaitTopic, RemoveTopicFinalizer,
              TopicEnvironment, SyncTopic, UserCreatesTopic, UserEditsTopic, UserStripsLabel,
              UserDeletesTopic, KafkaRemoves, TopicVanishes, sharedVars, Events
<1>2. CASE \/ \E u \in Users : UserStep(u)
           \/ UserEnvironment
  BY <1>2 DEF UserStep, ReconcileUser, GetUserCertificate, InjectJKSPassword, CreateCertificate,
              GetUserSecret, EnsureKey, GenerateAndCreateCSR, SecretUpdateAnnotation, PollRequest,
              UserMain, DeleteUserACLs, RemoveUserFinalizer, LabelUser, CreateUserACLs,
              AddUserFinalizer, UserCreated, UserEnvironment, SyncUser, UserCreatesUser,
              UserDeletesUser, CallFails, CertManagerIssues, SignerActs, RequestExpires,
              GarbageCollect, sharedVars, Events
<1>3. CASE ClusterStep
  BY <1>3 DEF ClusterStep, ReconcileCluster, ReconcilePKI, EnsureFinalizers, SweepTopics,
              TopicsSwept, AwaitTopics, SweepUsers, UsersSwept, FinalizePKI, RemoveMainFinalizer,
              sharedVars, cOthers
<1>4. CASE SyncCluster \/ UserDeletesCluster \/ Outage \/ Crash \/ UNCHANGED vars
  BY <1>4 DEF SyncCluster, UserDeletesCluster, Outage, Crash, vars, sharedVars, Events
<1> QED BY <1>1, <1>2, <1>3, <1>4 DEF Next

\* Where no label may be stripped, none is.
LEMMA StripStays ==
  ASSUME Types, [Next]_vars, left["strip"] = 0 PROVE left'["strip"] = 0
<1>1. left \in [Events -> Nat] /\ "strip" \in Events
  BY DEF Types, SharedTypes, Events
<1>2. ASSUME NEW e \in Events, Spend(e) PROVE left'["strip"] = 0
  BY <1>1, <1>2 DEF Spend
<1> QED BY <1>2, LeftSpent

\* The cache shows a topic as it was before the step, or does not move.
LEMMA SeenMoves ==
  ASSUME Types, [Next]_vars, NEW t \in Topics
  PROVE  topicSeen'[t] = topicSeen[t] \/ topicSeen'[t] = topic[t]
<1>0. topicSeen \in [Topics -> TopicObj]
  BY DEF Types, TopicTypes
<1>1. CASE \E x \in Topics : TopicStep(x)
  BY <1>1 DEF TopicStep, ReconcileTopic, ManagedBy, ConnectTopic, CreateTopic, EnsurePartitionCount, EnsureTopicConfig,
              LabelTopic, FinalizeLater, TopicCreated, DropTopic, AwaitTopic, RemoveTopicFinalizer
<1>2. CASE TopicEnvironment
  <2>1. ASSUME NEW x \in Topics, SyncTopic(x)
        PROVE  topicSeen'[t] = topicSeen[t] \/ topicSeen'[t] = topic[t]
    BY <1>0, <2>1 DEF SyncTopic
  <2> QED BY <1>2, <2>1 DEF TopicEnvironment, UserCreatesTopic, UserEditsTopic, UserStripsLabel,
                UserDeletesTopic, UserWrites, KafkaRemoves, TopicVanishes
<1>3. CASE ClusterStep
  BY <1>3 DEF ClusterStep, ReconcileCluster, ReconcilePKI, EnsureFinalizers, SweepTopics,
              TopicsSwept, AwaitTopics, SweepUsers, UsersSwept, FinalizePKI, RemoveMainFinalizer,
              topicVars
<1>4. CASE \/ UNCHANGED topicVars \/ SyncCluster \/ UserDeletesCluster \/ Outage \/ Crash
           \/ UNCHANGED vars
  BY <1>4 DEF SyncCluster, UserDeletesCluster, Outage, Crash, vars, topicVars
<1> QED BY <1>1, <1>2, <1>3, <1>4 DEF Next

\* How the teardown moves: it gets past the topics only when none is listed, and the finalizer
\* of the users goes after that.
LEMMA TeardownMoves ==
  ASSUME Types, [Next]_vars
  PROVE  /\ cw'.pc \in AfterTopics
              => cw.pc \in AfterTopics \/ ~\E t \in Topics : topicSeen[t].exists /\ topicSeen[t].label
         /\ "users" \notin cluster'.fins => "users" \notin cluster.fins \/ cw.pc \in AfterTopics
<1>0. /\ cw \in ClusterWork /\ cluster \in ClusterObj /\ cw.obj \in ClusterObj
      /\ cw.obj.fins \subseteq Finalizers
  BY DEF Types, SharedTypes, ClusterWork, ClusterObj
<1>a. ClusterWorker.pc = "idle" /\ "idle" \notin AfterTopics
  BY DEF ClusterWorker, AfterTopics
<1>1. CASE UNCHANGED <<cw, cluster>>
  BY <1>1
<1>2. ASSUME NEW pc, CGoto(pc) PROVE cw'.pc = pc
  BY <1>0, <1>2 DEF CGoto, ClusterWork
<1>3. ASSUME NEW new, NEW pc, CWrite(new, pc)
      PROVE  /\ cw'.pc \in {pc, "idle"}
             /\ \/ cluster' = cluster
                \/ cluster = cw.obj /\ cluster' = StoredCluster(new)
  BY <1>3, <1>a DEF CWrite, CFail
<1>4. ASSUME NEW f, NEW pc, CWrite([cw.obj EXCEPT !.fins = f], pc),
             "users" \in cw.obj.fins => "users" \in f
      PROVE  "users" \notin cluster'.fins => "users" \notin cluster.fins
  <2> DEFINE new == [cw.obj EXCEPT !.fins = f]
  <2>1. new.fins = f
    BY <1>0 DEF ClusterObj
  <2>2. cluster' = cluster \/ (cluster = cw.obj /\ cluster' = StoredCluster(new))
    BY <1>3, <1>4
  <2> HIDE DEF new
  <2>3. StoredCluster(new) = new \/ new.fins = {}
    BY DEF StoredCluster
  <2> QED BY <1>4, <2>1, <2>2, <2>3
<1>5. CASE ReconcileCluster
  BY <1>5, <1>a DEF ReconcileCluster, AfterTopics, sharedVars
<1>6. CASE ReconcilePKI
  BY <1>2, <1>6, <1>a DEF ReconcilePKI, CFail, AfterTopics, sharedVars
<1>7. CASE EnsureFinalizers
  <2>1. "users" \in Finalizers
    BY DEF Finalizers
  <2>2. CWrite([cw.obj EXCEPT !.fins = Finalizers], "idle")
    BY <1>7 DEF EnsureFinalizers
  <2> QED BY <1>3, <1>4, <1>a, <2>1, <2>2
<1>8. CASE SweepTopics
  BY <1>2, <1>8 DEF SweepTopics, AfterTopics, sharedVars
<1>9. CASE TopicsSwept
  <2>1. CWrite([cw.obj EXCEPT !.fins = cw.obj.fins \ {"topics"}], "list")
    BY <1>9 DEF TopicsSwept
  <2>2. "list" \notin AfterTopics
    BY DEF AfterTopics
  <2> QED BY <1>3, <1>4, <1>a, <2>1, <2>2
<1>10. CASE AwaitTopics
  <2>1. cluster' = cluster
    BY <1>10 DEF AwaitTopics, sharedVars
  <2> QED BY <1>10, <1>a, <2>1 DEF AwaitTopics, CFail
<1>11. CASE SweepUsers \/ UsersSwept \/ FinalizePKI \/ RemoveMainFinalizer
  BY <1>11 DEF SweepUsers, UsersSwept, FinalizePKI, RemoveMainFinalizer, CAt, AfterTopics
<1>12. CASE ClusterStep
  BY <1>5, <1>6, <1>7, <1>8, <1>9, <1>10, <1>11, <1>12 DEF ClusterStep
<1>13. CASE UserDeletesCluster
  <2> DEFINE new == [cluster EXCEPT !.deleted = TRUE]
  <2>1. new.fins = cluster.fins
    BY <1>0 DEF ClusterObj
  <2>2. cluster' = StoredCluster(new) /\ cw' = cw
    BY <1>13 DEF UserDeletesCluster, clusterVars
  <2> HIDE DEF new
  <2>3. StoredCluster(new) = new \/ new.fins = {}
    BY DEF StoredCluster
  <2> QED BY <2>1, <2>2, <2>3
<1>14. CASE Crash
  BY <1>14, <1>a DEF Crash
<1>15. CASE UNCHANGED clusterVars /\ \/ (\E t \in Topics : TopicStep(t)) \/ TopicEnvironment
                                     \/ (\E u \in Users : UserStep(u)) \/ UserEnvironment
  <2>1. UNCHANGED cluster
    BY <1>15 DEF TopicStep, ReconcileTopic, ManagedBy, ConnectTopic, CreateTopic, EnsurePartitionCount, EnsureTopicConfig,
              LabelTopic, FinalizeLater, TopicCreated, DropTopic, AwaitTopic, RemoveTopicFinalizer,
              TopicEnvironment, SyncTopic, UserCreatesTopic, UserEditsTopic, UserStripsLabel,
              UserDeletesTopic, UserWrites, KafkaRemoves, TopicVanishes, sharedVars,
              UserStep, ReconcileUser, GetUserCertificate, InjectJKSPassword, CreateCertificate,
              GetUserSecret, EnsureKey, GenerateAndCreateCSR, SecretUpdateAnnotation, PollRequest,
              UserMain, DeleteUserACLs, RemoveUserFinalizer, LabelUser, CreateUserACLs,
              AddUserFinalizer, UserCreated, UserEnvironment, SyncUser, UserCreatesUser,
              UserDeletesUser, CallFails, CertManagerIssues, SignerActs, RequestExpires,
              GarbageCollect
  <2> QED BY <1>1, <1>15, <2>1 DEF clusterVars
<1>16. CASE SyncCluster \/ Outage \/ UNCHANGED vars
  BY <1>1, <1>16 DEF SyncCluster, Outage, vars, sharedVars, clusterVars
<1> QED BY <1>12, <1>13, <1>14, <1>15, <1>16 DEF Next

\* The teardown asks only for the deletion of topics.
LEMMA SweptMoves == ASSUME [Next]_vars PROVE swept' \subseteq swept \cup Topics
BY DEF Next, ClusterStep, ReconcileCluster, ReconcilePKI, EnsureFinalizers, SweepTopics,
       TopicsSwept, AwaitTopics, SweepUsers, UsersSwept, FinalizePKI, RemoveMainFinalizer,
       SyncCluster, UserDeletesCluster, Outage, Crash, vars, clusterVars

\* A settled topic is labelled and cached from the beginning.
LEMMA InitTeardown == ASSUME Init, scene.budget["strip"] = 0 PROVE TeardownInv
<1>1. left["strip"] = 0 /\ swept \subseteq Topics
  BY DEF Init
<1>2. ASSUME NEW t \in Settling
      PROVE  topic[t].exists /\ topic[t].label /\ topicSeen[t].exists /\ topicSeen[t].label
  <2>1. topic[t] = SettledTopic(CHOOSE s \in scene.topics[t].specs : TRUE) /\ topicSeen = topic
    BY DEF Init, TopicInit, Settling
  <2>2. \A s : SettledTopic(s).exists /\ SettledTopic(s).label
    BY DEF SettledTopic, NoTopic
  <2> QED BY <2>1, <2>2
<1>3. Listed
  BY <1>2 DEF Listed
<1>4. cw.pc \notin AfterTopics
  BY DEF Init, ClusterWorker, AfterTopics
<1>5. "users" \in scene.fins => "users" \in cluster.fins
  BY DEF Init
<1> QED BY <1>1, <1>3, <1>4, <1>5 DEF TeardownInv

\* No step breaks TeardownInv.
LEMMA NextTeardown == ASSUME Types, TeardownInv, [Next]_vars PROVE TeardownInv'
<1>1. scene' = scene /\ Settling' = Settling /\ Settling \subseteq Topics
  BY SceneStays DEF Settling
<1>2. left["strip"] = 0 /\ left'["strip"] = 0
  BY StripStays DEF TeardownInv
<1>3. ASSUME NEW t \in Settling
      PROVE  /\ topic'[t].exists => topic[t].exists
             /\ IF topic'[t].exists THEN topic'[t].label /\ topicSeen'[t].exists /\ topicSeen'[t].label
                ELSE topic'[t].deleted
  <2>1. t \in Topics
    BY <1>1
  <2>2. IF topic[t].exists THEN topic[t].label /\ topicSeen[t].exists /\ topicSeen[t].label
        ELSE topic[t].deleted
    BY DEF TeardownInv, Listed
  <2>3. /\ Later(topic[t], topic'[t])
        /\ topic[t].exists /\ topic[t].label /\ topic'[t].exists => topic'[t].label
    BY <1>2, <2>1, TopicEvolves DEF Evolves
  <2>4. topicSeen'[t] = topicSeen[t] \/ topicSeen'[t] = topic[t]
    BY <2>1, SeenMoves
  <2> QED BY <2>2, <2>3, <2>4 DEF Later
<1>4. Listed'
  BY <1>1, <1>3 DEF Listed
<1>5. Unsettled => Unsettled'
  BY <1>1, <1>3 DEF Unsettled
<1>6. ~(\E t \in Topics : topicSeen[t].exists /\ topicSeen[t].label) => Unsettled
  BY <1>1 DEF TeardownInv, Listed, Unsettled
<1>7. cw'.pc \in AfterTopics => Unsettled'
  BY <1>5, <1>6, TeardownMoves DEF TeardownInv
<1>8. "users" \in scene'.fins /\ "users" \notin cluster'.fins => Unsettled'
  BY <1>1, <1>5, TeardownMoves DEF TeardownInv
<1>9. swept' \subseteq Topics
  BY SweptMoves DEF TeardownInv
<1> QED BY <1>2, <1>4, <1>7, <1>8, <1>9 DEF TeardownInv, AfterTopics

\* The teardown deletes the KafkaUsers, and with them the certificate that the KafkaTopic
\* controller needs, only when every settled topic it has asked to delete is finished, as
\* long as nobody strips the label by which the wait finds the topics: a topic that is
\* stripped and labelled again may be missing in the cache when the wait lists it.
THEOREM TopicsBeforeUsersHolds ==
  Spec /\ scene.budget["strip"] = 0 => []TopicsBeforeUsers
<1>0. Types /\ TeardownInv => TopicsBeforeUsers
  <2> SUFFICES ASSUME TeardownInv, "users" \in scene.fins, "users" \notin cluster.fins,
                      NEW t \in swept, scene.topics[t].settled
               PROVE  ~topic[t].exists
    BY DEF TopicsBeforeUsers
  <2> QED BY DEF TeardownInv, Unsettled, Settling
<1>1. Spec /\ scene.budget["strip"] = 0 => []TeardownInv
  BY InitTeardown, InitTypes, NextTeardown, NextTypes, PTL DEF Spec
<1> QED BY <1>0, <1>1, AccessTypes, PTL

-----------------------------------------------------------------------------
(* Users. *)

\* The users that are not made by the operator for itself.
Others == Users \ ControllerUsers

\* The part of a pass of Reconcile that comes after the backend.
AfterBackend == {"main", "label", "grant", "final", "status"}

\* A user that a worker or the cache knows of does not come a second time.
UserGoesOnce(u) ==
  /\ uw[u].pc # "idle" => uw[u].obj.exists
  /\ userSeen[u].exists \/ uw[u].pc # "idle" => user[u].exists \/ user[u].deleted

\* The certificate is there from the backend to the end of the pass.
Certified(u) ==
  user[u].exists /\ uw[u].pc \in AfterBackend => Backend(u) = "none" \/ secret[u] = "full"

\* The loop over the grants.
GrantsDone(u) ==
  /\ uw[u].pc = "grant" => \A g \in Grants(u) \ uw[u].todo : AclsOf(u, g) \subseteq acls
  /\ uw[u].pc \in {"final", "status"} => \A g \in Grants(u) : AclsOf(u, g) \subseteq acls

\* The promise of the status, for one user.
Promise(u) ==
  user[u].state = "created" => /\ user[u].exists
                               /\ \A g \in Grants(u) : AclsOf(u, g) \subseteq acls
                               /\ Backend(u) = "none" \/ secret[u] = "full"

\* The inductive invariant of the promise.
UserInv == \A u \in Others : UserGoesOnce(u) /\ Certified(u) /\ GrantsDone(u) /\ Promise(u)

\* What a step may make of a KafkaUser, of its worker and of its secret.
UserEvolves(u) ==
  /\ user[u].exists \/ user[u].deleted => user'[u].exists \/ user'[u].deleted
  /\ user'[u].exists => user[u].exists \/ ~user[u].deleted
  /\ user'[u].state = "created"
       => /\ user[u].exists => user'[u].exists
          /\ user[u].state = "created" \/ (uw[u].pc = "status" /\ user[u] = uw[u].obj)

\* What a step may make of the worker of a user: it enters the rest of the pass only with a
\* certificate, and leaves the loop over the grants only with all of them written.
WorkerMoves(u) ==
  /\ uw'[u].pc # "idle" => \/ uw[u].pc # "idle" /\ (uw[u].obj.exists => uw'[u].obj.exists)
                           \/ userSeen[u].exists /\ uw'[u].obj.exists
  /\ uw'[u].pc \in AfterBackend
       => uw[u].pc \in AfterBackend \/ Backend(u) = "none" \/ secret'[u] = "full"
  /\ uw'[u].pc = "grant"
       => \/ uw'[u].todo = Grants(u)
          \/ uw[u].pc = "grant" /\ \A g \in uw[u].todo \ uw'[u].todo : AclsOf(u, g) \subseteq acls'
  /\ uw'[u].pc \in {"final", "status"}
       => uw[u].pc \in {"final", "status"} \/ (uw[u].pc = "grant" /\ uw[u].todo = {})

\* A secret with its certificate keeps it as long as the KafkaUser exists.
SecretStays(u) == user[u].exists /\ secret[u] = "full" => secret'[u] = "full"

\* A step that leaves a user alone.
LEMMA UserFrame ==
  ASSUME NEW u, user'[u] = user[u], uw'[u] = uw[u], secret'[u] = secret[u]
  PROVE  UserEvolves(u) /\ WorkerMoves(u) /\ SecretStays(u)
BY DEF UserEvolves, WorkerMoves, SecretStays

\* A worker that goes on keeps its object; the others stay where they are.
LEMMA UGotoAt ==
  ASSUME Types, NEW u \in Users, NEW pc, UGoto(u, pc)
  PROVE  uw'[u].pc = pc /\ uw'[u].obj = uw[u].obj /\ \A x \in Users \ {u} : uw'[x] = uw[x]
<1>1. uw \in [Users -> UserWork] /\ uw[u] \in UserWork
  BY DEF Types, UserTypes
<1> DEFINE w == [uw[u] EXCEPT !.pc = pc]
<1>2. w.pc = pc /\ w.obj = uw[u].obj
  BY <1>1 DEF UserWork
<1>3. uw' = [uw EXCEPT ![u] = w]
  BY DEF UGoto
<1> HIDE DEF w
<1> QED BY <1>1, <1>2, <1>3

\* A worker that is done or fails is idle.
LEMMA UDoneAt ==
  ASSUME Types, NEW u \in Users, UDone(u) \/ UFail(u)
  PROVE  uw'[u].pc = "idle" /\ \A x \in Users \ {u} : uw'[x] = uw[x]
<1>1. uw \in [Users -> UserWork] /\ UserWorker.pc = "idle"
  BY DEF Types, UserTypes, UserWorker
<1> QED BY <1>1 DEF UDone, UFail

\* After an error of the backend a worker is idle, or removes the finalizer.
LEMMA CertificateErrorAt ==
  ASSUME Types, NEW u \in Users, CertificateError(u)
  PROVE  /\ uw'[u].pc = "idle" \/ (uw'[u].pc = "unfin" /\ uw'[u].obj = uw[u].obj)
         /\ \A x \in Users \ {u} : uw'[x] = uw[x]
BY UGotoAt, UDoneAt DEF CertificateError

\* A write takes effect only if the object is still the one that was read.
LEMMA UWriteAt ==
  ASSUME Types, NEW u \in Users, NEW new, NEW pc, UWrite(u, new, pc)
  PROVE  /\ \/ uw'[u].pc = "idle"
            \/ uw'[u].pc = pc /\ uw'[u].obj = StoredUser(new)
         /\ \/ user'[u] = user[u]
            \/ user[u] = uw[u].obj /\ user'[u] = StoredUser(new)
         /\ \A x \in Users \ {u} : uw'[x] = uw[x] /\ user'[x] = user[x]
<1>1. uw \in [Users -> UserWork] /\ uw[u] \in UserWork /\ user \in [Users -> UserObj]
  BY DEF Types, UserTypes
<1>2. CASE UFail(u) /\ UNCHANGED user
  BY <1>2, UDoneAt
<1>3. CASE /\ user[u] = uw[u].obj
           /\ user' = [user EXCEPT ![u] = StoredUser(new)]
           /\ uw' = [uw EXCEPT ![u] = IF pc = "idle" THEN UserWorker
                                      ELSE [@ EXCEPT !.pc = pc, !.obj = StoredUser(new)]]
  <2> DEFINE w == [uw[u] EXCEPT !.pc = pc, !.obj = StoredUser(new)]
  <2>1. w.pc = pc /\ w.obj = StoredUser(new)
    BY <1>1 DEF UserWork
  <2>2. uw' = [uw EXCEPT ![u] = IF pc = "idle" THEN UserWorker ELSE w]
    BY <1>1, <1>3
  <2>3. UserWorker.pc = "idle"
    BY DEF UserWorker
  <2>4. user[u] = uw[u].obj /\ user' = [user EXCEPT ![u] = StoredUser(new)]
    BY <1>3
  <2> HIDE DEF w
  <2> QED BY <1>1, <2>1, <2>2, <2>3, <2>4
<1> QED BY <1>2, <1>3 DEF UWrite

\* A KafkaUser that has gone was deleted and promises nothing.
LEMMA GoneUserFields == GoneUser.exists = FALSE /\ GoneUser.deleted = TRUE /\ GoneUser.state = ""
BY DEF GoneUser, NoUser

\* A write that keeps the object alive, and its state unless the worker sets it.
LEMMA UWriteEvolves ==
  ASSUME NEW u, NEW new,
         user'[u] = user[u] \/ (user[u] = uw[u].obj /\ user'[u] = StoredUser(new)),
         new.exists = uw[u].obj.exists, new.deleted = uw[u].obj.deleted,
         new.state = uw[u].obj.state \/ uw[u].pc = "status"
  PROVE  UserEvolves(u)
<1>1. CASE user'[u] = user[u]
  BY <1>1 DEF UserEvolves
<1>2. CASE user[u] = uw[u].obj /\ user'[u] = GoneUser /\ new.deleted
  BY <1>2, GoneUserFields DEF UserEvolves
<1>3. CASE user[u] = uw[u].obj /\ user'[u] = new
  BY <1>3 DEF UserEvolves
<1> QED BY <1>1, <1>2, <1>3 DEF StoredUser

\* What a step on one user may do.
Effect(x) ==
  /\ UserEvolves(x) /\ WorkerMoves(x) /\ SecretStays(x)
  /\ \A y \in Users \ {x} : user'[y] = user[y] /\ uw'[y] = uw[y] /\ secret'[y] = secret[y]

\* A worker may always stop.
LEMMA WorkerIdle == ASSUME NEW u, uw'[u].pc = "idle" PROVE WorkerMoves(u)
BY DEF WorkerMoves, AfterBackend

\* A move that stays before the end of the backend, or goes on to the finalizer.
LEMMA WorkerEarly ==
  ASSUME NEW u, uw[u].pc # "idle", uw'[u].pc \notin AfterBackend, uw'[u].obj = uw[u].obj
  PROVE  WorkerMoves(u)
BY DEF WorkerMoves, AfterBackend

\* A move to the rest of the pass.
LEMMA WorkerReady ==
  ASSUME NEW u, uw[u].pc # "idle", uw'[u].pc \in {"main", "label"}, uw'[u].obj = uw[u].obj,
         uw[u].pc \in AfterBackend \/ Backend(u) = "none" \/ secret'[u] = "full"
  PROVE  WorkerMoves(u)
BY DEF WorkerMoves, AfterBackend

\* A step that leaves the object alone.
LEMMA EffectFrom ==
  ASSUME NEW x, UNCHANGED user, WorkerMoves(x), SecretStays(x),
         \A y \in Users \ {x} : uw'[y] = uw[y] /\ secret'[y] = secret[y]
  PROVE  Effect(x)
BY DEF Effect, UserEvolves

\* The PKI backends: no user reaches the rest of the pass without its secret.
LEMMA BackendEffect ==
  ASSUME Types, NEW x \in Users,
         \/ GetUserCertificate(x) \/ InjectJKSPassword(x) \/ CreateCertificate(x) \/ GetUserSecret(x)
         \/ EnsureKey(x) \/ GenerateAndCreateCSR(x) \/ SecretUpdateAnnotation(x) \/ PollRequest(x)
         \/ CallFails(x)
  PROVE  Effect(x)
<1>0. secret \in [Users -> Secrets]
  BY DEF Types, UserTypes
<1>1. UNCHANGED user
  BY DEF GetUserCertificate, InjectJKSPassword, CreateCertificate, GetUserSecret, EnsureKey,
         GenerateAndCreateCSR, SecretUpdateAnnotation, PollRequest, CallFails
<1>2. uw[x].pc # "idle"
  BY DEF GetUserCertificate, InjectJKSPassword, CreateCertificate, GetUserSecret, EnsureKey,
         GenerateAndCreateCSR, SecretUpdateAnnotation, PollRequest, CallFails, UAt
<1>3. ASSUME NEW pc, pc \notin AfterBackend, UGoto(x, pc)
      PROVE  WorkerMoves(x) /\ \A y \in Users \ {x} : uw'[y] = uw[y]
  BY <1>2, <1>3, UGotoAt, WorkerEarly
<1>4. ASSUME UDone(x) \/ UFail(x)
      PROVE  WorkerMoves(x) /\ \A y \in Users \ {x} : uw'[y] = uw[y]
  BY <1>4, UDoneAt, WorkerIdle
<1>5. ASSUME CertificateError(x)
      PROVE  WorkerMoves(x) /\ \A y \in Users \ {x} : uw'[y] = uw[y]
  <2>1. "unfin" \notin AfterBackend
    BY DEF AfterBackend
  <2> QED BY <1>2, <1>5, <2>1, CertificateErrorAt, WorkerIdle, WorkerEarly
<1>6. ASSUME UGoto(x, "main"), secret'[x] = "full"
      PROVE  WorkerMoves(x) /\ \A y \in Users \ {x} : uw'[y] = uw[y]
  BY <1>2, <1>6, UGotoAt, WorkerReady
<1>7. \A pc \in {"secret", "inject", "mkcert", "request", "poll", "annotate"} : pc \notin AfterBackend
  BY DEF AfterBackend
<1>8. /\ secret[x] = "full" => secret'[x] = "full"
      /\ \A y \in Users \ {x} : secret'[y] = secret[y]
  BY <1>0 DEF GetUserCertificate, InjectJKSPassword, CreateCertificate, GetUserSecret, EnsureKey,
         NewKey, GenerateAndCreateCSR, SecretUpdateAnnotation, PollRequest, StoreCertificate,
         CallFails
<1>9. WorkerMoves(x) /\ \A y \in Users \ {x} : uw'[y] = uw[y]
  <2>1. CASE GetUserCertificate(x)
    <3>1. UGoto(x, "secret") \/ UGoto(x, "inject") \/ UGoto(x, "mkcert")
      BY <2>1 DEF GetUserCertificate
    <3> QED BY <1>3, <1>7, <3>1
  <2>2. CASE InjectJKSPassword(x) \/ CreateCertificate(x) \/ GenerateAndCreateCSR(x)
             \/ SecretUpdateAnnotation(x) \/ CallFails(x)
    <3>1. \/ UGoto(x, "mkcert") \/ UGoto(x, "secret") \/ UGoto(x, "annotate") \/ UGoto(x, "poll")
          \/ CertificateError(x)
      BY <2>2 DEF InjectJKSPassword, CreateCertificate, GenerateAndCreateCSR,
                  SecretUpdateAnnotation, CallFails
    <3> QED BY <1>3, <1>5, <1>7, <3>1
  <2>3. CASE GetUserSecret(x)
    <3>1. UFail(x) \/ (UGoto(x, "main") /\ secret'[x] = "full")
      BY <2>3 DEF GetUserSecret
    <3> QED BY <1>4, <1>6, <3>1
  <2>4. CASE EnsureKey(x)
    <3>1. \/ UGoto(x, "request") \/ UGoto(x, "poll")
          \/ UGoto(x, "main") /\ secret'[x] = "full"
      BY <2>4 DEF EnsureKey, CertificateReady
    <3> QED BY <1>3, <1>6, <1>7, <3>1
  <2>5. CASE PollRequest(x)
    <3>1. \/ UFail(x) \/ CertificateError(x)
          \/ UGoto(x, "main") /\ secret'[x] = "full"
      BY <1>0, <2>5 DEF PollRequest, StoreCertificate
    <3> QED BY <1>4, <1>5, <1>6, <3>1
  <2> QED BY <2>1, <2>2, <2>3, <2>4, <2>5
<1> QED BY <1>1, <1>8, <1>9, EffectFrom DEF SecretStays

\* The rest of a pass of the KafkaUser controller: the status comes after the ACLs.
LEMMA PassEffect ==
  ASSUME Types, NEW x \in Users,
         \/ ReconcileUser(x) \/ UserMain(x) \/ DeleteUserACLs(x) \/ RemoveUserFinalizer(x)
         \/ LabelUser(x) \/ CreateUserACLs(x) \/ AddUserFinalizer(x) \/ UserCreated(x)
  PROVE  Effect(x)
<1> DEFINE obj == uw[x].obj
<1>0. /\ uw \in [Users -> UserWork] /\ uw[x] \in UserWork /\ obj \in UserObj
      /\ user \in [Users -> UserObj] /\ user[x] \in UserObj
  BY DEF Types, UserTypes, UserWork
<1>1. UNCHANGED secret
  BY DEF ReconcileUser, UserMain, DeleteUserACLs, RemoveUserFinalizer, LabelUser, CreateUserACLs,
         AddUserFinalizer, UserCreated
<1>2. SecretStays(x) /\ \A y \in Users \ {x} : secret'[y] = secret[y]
  BY <1>1 DEF SecretStays
<1>3. Backend(x) \in {"none", "cert-manager", "k8s-csr"}
  BY SceneAssumption DEF Types, SharedTypes, UserScene, Backend
<1> HIDE DEF obj
<1>4. CASE ReconcileUser(x)
  <2> DEFINE w(pc) == [UserWorker EXCEPT !.pc = pc, !.obj = userSeen[x], !.down = clusterSeen.deleted]
  <2>1. \A pc : w(pc).pc = pc /\ w(pc).obj = userSeen[x]
    BY DEF UserWorker
  <2>2. \/ UNCHANGED uw
        \/ /\ userSeen[x].exists
           /\ \E pc \in {"main", "cert", "key", "unfin"} :
                uw' = [uw EXCEPT ![x] = w(pc)] /\ (pc = "main" => Backend(x) = "none")
    BY <1>3, <1>4 DEF ReconcileUser
  <2> HIDE DEF w
  <2>3. UNCHANGED user
    BY <1>4 DEF ReconcileUser
  <2>4. CASE UNCHANGED uw
    BY <1>1, <2>3, <2>4, UserFrame DEF Effect
  <2>5. ASSUME NEW pc \in {"main", "cert", "key", "unfin"}, uw' = [uw EXCEPT ![x] = w(pc)],
               userSeen[x].exists, pc = "main" => Backend(x) = "none"
        PROVE  Effect(x)
    <3>1. uw'[x].pc = pc /\ uw'[x].obj = userSeen[x] /\ \A y \in Users \ {x} : uw'[y] = uw[y]
      BY <1>0, <2>1, <2>5
    <3>2. WorkerMoves(x)
      BY <2>5, <3>1 DEF WorkerMoves, AfterBackend
    <3> QED BY <1>2, <2>3, <3>1, <3>2, EffectFrom
  <2> QED BY <2>2, <2>4, <2>5
<1>5. CASE UserMain(x)
  <2>1. uw[x].pc = "main" /\ UNCHANGED user
    BY <1>5 DEF UserMain, UAt
  <2>2. UDone(x) \/ UGoto(x, "unfin") \/ UGoto(x, "revoke") \/ UGoto(x, "label")
    BY <1>5 DEF UserMain, CheckUserFinalizers
  <2>3. {"unfin", "revoke"} \cap AfterBackend = {} /\ "main" \in AfterBackend
    BY DEF AfterBackend
  <2>4. WorkerMoves(x) /\ \A y \in Users \ {x} : uw'[y] = uw[y]
    <3>1. CASE UDone(x)
      BY <3>1, UDoneAt, WorkerIdle
    <3>2. CASE UGoto(x, "unfin") \/ UGoto(x, "revoke")
      BY <2>1, <2>3, <3>2, UGotoAt, WorkerEarly
    <3>3. CASE UGoto(x, "label")
      BY <2>1, <2>3, <3>3, UGotoAt, WorkerReady
    <3> QED BY <2>2, <3>1, <3>2, <3>3
  <2> QED BY <1>2, <2>1, <2>4, EffectFrom
<1>6. CASE DeleteUserACLs(x)
  <2>1. uw[x].pc # "idle" /\ UNCHANGED user
    BY <1>6 DEF DeleteUserACLs, UAt
  <2>2. UFail(x) \/ UGoto(x, "unfin")
    BY <1>6 DEF DeleteUserACLs
  <2>3. "unfin" \notin AfterBackend
    BY DEF AfterBackend
  <2>4. WorkerMoves(x) /\ \A y \in Users \ {x} : uw'[y] = uw[y]
    BY <2>1, <2>2, <2>3, UDoneAt, UGotoAt, WorkerIdle, WorkerEarly
  <2> QED BY <1>2, <2>1, <2>4, EffectFrom
<1>7. CASE RemoveUserFinalizer(x)
  <2> DEFINE new == [obj EXCEPT !.fin = FALSE]
  <2>1. new.exists = obj.exists /\ new.deleted = obj.deleted /\ new.state = obj.state
    BY <1>0 DEF UserObj
  <2>2. UWrite(x, new, "idle")
    BY <1>7 DEF RemoveUserFinalizer, obj
  <2> HIDE DEF new
  <2>3. UserEvolves(x)
    BY <2>1, <2>2, UWriteAt, UWriteEvolves DEF obj
  <2>4. WorkerMoves(x)
    BY <2>2, UWriteAt, WorkerIdle
  <2> QED BY <1>2, <2>2, <2>3, <2>4, UWriteAt DEF Effect
<1>8. CASE LabelUser(x)
  <2>0. uw[x].pc = "label" /\ "label" \in AfterBackend /\ "grant" \in AfterBackend
    BY <1>8 DEF LabelUser, UAt, AfterBackend
  <2>1. CASE /\ uw' = [uw EXCEPT ![x].pc = "grant", ![x].label = TRUE, ![x].todo = Grants(x)]
             /\ UNCHANGED user
    <3> DEFINE w == [[[uw[x] EXCEPT !.pc = "grant"] EXCEPT !.label = TRUE] EXCEPT !.todo = Grants(x)]
    <3>1. w.pc = "grant" /\ w.obj = uw[x].obj /\ w.todo = Grants(x)
      BY <1>0 DEF UserWork
    <3>2. uw' = [uw EXCEPT ![x] = w] /\ UNCHANGED user
      BY <1>0, <2>1
    <3> HIDE DEF w
    <3>3. uw'[x] = w /\ \A y \in Users \ {x} : uw'[y] = uw[y]
      BY <1>0, <3>2
    <3>4. WorkerMoves(x)
      BY <2>0, <3>1, <3>3 DEF WorkerMoves
    <3> QED BY <1>2, <3>2, <3>3, <3>4, EffectFrom
  <2>2. CASE /\ user[x] = obj
             /\ user' = [user EXCEPT ![x].label = TRUE]
             /\ uw' = [uw EXCEPT ![x].pc = "grant", ![x].obj = user'[x], ![x].todo = Grants(x)]
    <3> DEFINE new == [user[x] EXCEPT !.label = TRUE]
    <3>1. new.exists = user[x].exists /\ new.deleted = user[x].deleted /\ new.state = user[x].state
      BY <1>0 DEF UserObj
    <3>2. user' = [user EXCEPT ![x] = new] /\ user[x] = uw[x].obj
      BY <1>0, <2>2 DEF obj
    <3> HIDE DEF new
    <3>3. user'[x] = new /\ \A y \in Users \ {x} : user'[y] = user[y]
      BY <1>0, <3>2
    <3> DEFINE w == [[[uw[x] EXCEPT !.pc = "grant"] EXCEPT !.obj = user'[x]] EXCEPT !.todo = Grants(x)]
    <3>4. w.pc = "grant" /\ w.obj = user'[x] /\ w.todo = Grants(x)
      BY <1>0 DEF UserWork
    <3>5. uw' = [uw EXCEPT ![x] = w]
      BY <1>0, <2>2
    <3> HIDE DEF w
    <3>6. uw'[x] = w /\ \A y \in Users \ {x} : uw'[y] = uw[y]
      BY <1>0, <3>5
    <3>7. WorkerMoves(x)
      BY <2>0, <3>1, <3>2, <3>3, <3>4, <3>6 DEF WorkerMoves
    <3>8. UserEvolves(x)
      BY <3>1, <3>3 DEF UserEvolves
    <3> QED BY <1>2, <3>3, <3>6, <3>7, <3>8 DEF Effect
  <2>3. CASE UFail(x) /\ UNCHANGED user
    BY <1>2, <2>3, UDoneAt, WorkerIdle, EffectFrom
  <2> QED BY <1>8, <2>1, <2>2, <2>3 DEF LabelUser, obj
<1>9. CASE CreateUserACLs(x)
  <2>0. uw[x].pc = "grant" /\ UNCHANGED user /\ "grant" \in AfterBackend
    BY <1>9 DEF CreateUserACLs, UAt, AfterBackend
  <2>1. CASE uw[x].todo = {} /\ UGoto(x, "final")
    <3>1. uw'[x].pc = "final" /\ uw'[x].obj = uw[x].obj /\ \A y \in Users \ {x} : uw'[y] = uw[y]
      BY <2>1, UGotoAt
    <3>2. WorkerMoves(x)
      BY <2>0, <2>1, <3>1 DEF WorkerMoves
    <3> QED BY <1>2, <2>0, <3>1, <3>2, EffectFrom
  <2>2. CASE UFail(x)
    BY <1>2, <2>0, <2>2, UDoneAt, WorkerIdle, EffectFrom
  <2>3. ASSUME NEW g \in uw[x].todo, acls' = acls \cup AclsOf(x, g),
               uw' = [uw EXCEPT ![x].todo = @ \ {g}]
        PROVE  Effect(x)
    <3> DEFINE w == [uw[x] EXCEPT !.todo = uw[x].todo \ {g}]
    <3>1. w.pc = uw[x].pc /\ w.obj = uw[x].obj /\ w.todo = uw[x].todo \ {g}
      BY <1>0 DEF UserWork
    <3>2. uw' = [uw EXCEPT ![x] = w]
      BY <1>0, <2>3
    <3> HIDE DEF w
    <3>3. uw'[x] = w /\ \A y \in Users \ {x} : uw'[y] = uw[y]
      BY <1>0, <3>2
    <3>4. \A h \in uw[x].todo \ uw'[x].todo : AclsOf(x, h) \subseteq acls'
      BY <2>3, <3>1, <3>3
    <3>5. WorkerMoves(x)
      BY <2>0, <3>1, <3>3, <3>4 DEF WorkerMoves
    <3> QED BY <1>2, <2>0, <3>3, <3>5, EffectFrom
  <2> QED BY <1>9, <2>1, <2>2, <2>3 DEF CreateUserACLs
<1>10. CASE AddUserFinalizer(x)
  <2>0. uw[x].pc = "final" /\ "final" \in AfterBackend
    BY <1>10 DEF AddUserFinalizer, UAt, AfterBackend
  <2>1. CASE UGoto(x, "status") /\ UNCHANGED user
    <3>1. uw'[x].pc = "status" /\ uw'[x].obj = uw[x].obj /\ \A y \in Users \ {x} : uw'[y] = uw[y]
      BY <2>1, UGotoAt
    <3>2. WorkerMoves(x)
      BY <2>0, <3>1 DEF WorkerMoves
    <3> QED BY <1>2, <2>1, <3>1, <3>2, EffectFrom
  <2> DEFINE new == [obj EXCEPT !.fin = TRUE, !.label = @ \/ uw[x].label]
  <2>2. new.exists = obj.exists /\ new.deleted = obj.deleted /\ new.state = obj.state /\ new.fin
    BY <1>0 DEF UserObj
  <2>3. (UGoto(x, "status") /\ UNCHANGED user) \/ UWrite(x, new, "status")
    BY <1>10 DEF AddUserFinalizer, obj
  <2> HIDE DEF new
  <2>4. CASE UWrite(x, new, "status")
    <3>1. StoredUser(new) = new
      BY <2>2 DEF StoredUser
    <3>2. UserEvolves(x)
      BY <2>2, <2>4, UWriteAt, UWriteEvolves DEF obj
    <3>3. WorkerMoves(x)
      <4>1. uw'[x].pc = "idle" \/ (uw'[x].pc = "status" /\ uw'[x].obj = new)
        BY <2>4, <3>1, UWriteAt
      <4>2. CASE uw'[x].pc = "idle"
        BY <4>2, WorkerIdle
      <4>3. CASE uw'[x].pc = "status" /\ uw'[x].obj = new
        BY <2>0, <2>2, <4>3 DEF WorkerMoves, obj
      <4> QED BY <4>1, <4>2, <4>3
    <3> QED BY <1>2, <2>4, <3>2, <3>3, UWriteAt DEF Effect
  <2> QED BY <2>1, <2>3, <2>4
<1>11. CASE UserCreated(x)
  <2> DEFINE new == [obj EXCEPT !.state = "created"]
  <2>1. new.exists = obj.exists /\ new.deleted = obj.deleted
    BY <1>0 DEF UserObj
  <2>2. UWrite(x, new, "idle") /\ uw[x].pc = "status"
    BY <1>11 DEF UserCreated, UAt, obj
  <2> HIDE DEF new
  <2>3. UserEvolves(x)
    BY <2>1, <2>2, UWriteAt, UWriteEvolves DEF obj
  <2>4. WorkerMoves(x)
    BY <2>2, UWriteAt, WorkerIdle
  <2> QED BY <1>2, <2>2, <2>3, <2>4, UWriteAt DEF Effect
<1> QED BY <1>4, <1>5, <1>6, <1>7, <1>8, <1>9, <1>10, <1>11

\* The deletion of a KafkaUser.
LEMMA UnwantedEvolves ==
  ASSUME Types, NEW u \in Users, user'[u] = Unwanted(user[u]) PROVE UserEvolves(u)
<1> DEFINE new == [user[u] EXCEPT !.deleted = TRUE]
<1>1. user[u] \in UserObj
  BY DEF Types, UserTypes
<1>2. new.exists = user[u].exists /\ new.deleted /\ new.state = user[u].state
  BY <1>1 DEF UserObj
<1>3. user'[u] = user[u] \/ (user[u].exists /\ user'[u] = StoredUser(new))
  BY DEF Unwanted
<1> HIDE DEF new
<1>4. CASE user'[u] = user[u]
  BY <1>4 DEF UserEvolves
<1>5. CASE user[u].exists /\ user'[u] = GoneUser
  BY <1>5, GoneUserFields DEF UserEvolves
<1>6. CASE user[u].exists /\ user'[u] = new
  BY <1>2, <1>6 DEF UserEvolves
<1> QED BY <1>3, <1>4, <1>5, <1>6 DEF StoredUser

\* The steps of users, caches, signers and of the garbage collector, which takes a secret
\* only after its KafkaUser.
LEMMA UserEventEffect ==
  ASSUME Types, NEW u \in Users, UserEnvironment
  PROVE  UserEvolves(u) /\ WorkerMoves(u) /\ SecretStays(u)
<1>0. /\ user \in [Users -> UserObj] /\ uw \in [Users -> UserWork]
      /\ secret \in [Users -> Secrets]
  BY DEF Types, UserTypes
<1>1. ASSUME uw' = uw PROVE WorkerMoves(u)
  BY <1>1 DEF WorkerMoves
<1>2. ASSUME secret' = secret PROVE SecretStays(u)
  BY <1>2 DEF SecretStays
<1>3. ASSUME user' = user PROVE UserEvolves(u)
  BY <1>3 DEF UserEvolves
<1>4. ASSUME NEW x \in Users, SyncUser(x) \/ SignerActs(x) \/ RequestExpires(x)
      PROVE  UNCHANGED <<user, uw, secret>>
  BY <1>4 DEF SyncUser, SignerActs, RequestExpires
<1>5. ASSUME NEW x \in Users, UserCreatesUser(x) PROVE UserEvolves(u) /\ UNCHANGED <<uw, secret>>
  <2>1. user[x] = NoUser /\ user' = [user EXCEPT ![x] = [NoUser EXCEPT !.exists = TRUE]]
    BY <1>5 DEF UserCreatesUser
  <2>2. UNCHANGED <<uw, secret>>
    BY <1>5 DEF UserCreatesUser
  <2> DEFINE new == [NoUser EXCEPT !.exists = TRUE]
  <2>3. new.exists /\ new.state = "" /\ NoUser.deleted = FALSE
    BY DEF NoUser
  <2> HIDE DEF new
  <2>4. user'[u] = user[u] \/ (user[u] = NoUser /\ user'[u] = new)
    BY <1>0, <2>1 DEF new
  <2> QED BY <2>2, <2>3, <2>4 DEF UserEvolves
<1>6. ASSUME NEW x \in Users, UserDeletesUser(x) PROVE UserEvolves(u) /\ UNCHANGED <<uw, secret>>
  <2>1. user' = [user EXCEPT ![x] = Unwanted(user[x])] /\ UNCHANGED <<uw, secret>>
    BY <1>6 DEF UserDeletesUser
  <2>2. user'[u] = user[u] \/ user'[u] = Unwanted(user[u])
    BY <1>0, <2>1
  <2>3. CASE user'[u] = user[u]
    BY <2>1, <2>3 DEF UserEvolves
  <2> QED BY <2>1, <2>2, <2>3, UnwantedEvolves
<1>7. ASSUME NEW x \in Users, CallFails(x)
      PROVE  UserEvolves(u) /\ WorkerMoves(u) /\ SecretStays(u)
  <2>1. Effect(x)
    BY <1>7, BackendEffect
  <2>2. CASE u = x
    BY <2>1, <2>2 DEF Effect
  <2>3. CASE u # x
    BY <2>1, <2>3, UserFrame DEF Effect
  <2> QED BY <2>2, <2>3
<1>8. ASSUME NEW x \in Users, CertManagerIssues(x) PROVE UNCHANGED <<user, uw>> /\ SecretStays(u)
  BY <1>0, <1>8 DEF CertManagerIssues, userVars, SecretStays
<1>9. ASSUME NEW x \in Users, GarbageCollect(x) PROVE UNCHANGED <<user, uw>> /\ SecretStays(u)
  BY <1>0, <1>9 DEF GarbageCollect, SecretStays
<1> QED
  BY <1>1, <1>2, <1>3, <1>4, <1>5, <1>6, <1>7, <1>8, <1>9 DEF UserEnvironment

\* Every step has such an effect on every user that is not the operator's own.
LEMMA UserNextEffect ==
  ASSUME Types, [Next]_vars, NEW u \in Others
  PROVE  UserEvolves(u) /\ WorkerMoves(u) /\ SecretStays(u)
<1>0. /\ user \in [Users -> UserObj] /\ uw \in [Users -> UserWork]
      /\ secret \in [Users -> Secrets] /\ u \in Users /\ u \notin ControllerUsers
  BY DEF Types, UserTypes, Others
<1>1. ASSUME NEW x \in Users, UserStep(x) PROVE UserEvolves(u) /\ WorkerMoves(u) /\ SecretStays(u)
  <2>1. Effect(x)
    <3>1. \/ GetUserCertificate(x) \/ InjectJKSPassword(x) \/ CreateCertificate(x) \/ GetUserSecret(x)
          \/ EnsureKey(x) \/ GenerateAndCreateCSR(x) \/ SecretUpdateAnnotation(x) \/ PollRequest(x)
          \/ ReconcileUser(x) \/ UserMain(x) \/ DeleteUserACLs(x) \/ RemoveUserFinalizer(x)
          \/ LabelUser(x) \/ CreateUserACLs(x) \/ AddUserFinalizer(x) \/ UserCreated(x)
      BY <1>1 DEF UserStep
    <3> QED BY <3>1, BackendEffect, PassEffect
  <2>2. CASE u = x
    BY <2>1, <2>2 DEF Effect
  <2>3. CASE u # x
    BY <1>0, <2>1, <2>3, UserFrame DEF Effect
  <2> QED BY <2>2, <2>3
<1>2. CASE UserEnvironment
  BY <1>0, <1>2, UserEventEffect
<1>3. ASSUME user'[u] = user[u], uw'[u] = uw[u], secret'[u] = secret[u]
      PROVE  UserEvolves(u) /\ WorkerMoves(u) /\ SecretStays(u)
  BY <1>3, UserFrame
<1>4. CASE UNCHANGED userVars /\ \/ \E t \in Topics : TopicStep(t)
                                 \/ TopicEnvironment
  <2>1. UNCHANGED secret
    BY <1>4 DEF TopicStep, ReconcileTopic, ManagedBy, ConnectTopic, CreateTopic, EnsurePartitionCount, EnsureTopicConfig,
                LabelTopic, FinalizeLater, TopicCreated, DropTopic, AwaitTopic, RemoveTopicFinalizer,
                TopicEnvironment, SyncTopic, UserCreatesTopic, UserEditsTopic, UserStripsLabel,
                UserDeletesTopic, UserWrites, KafkaRemoves, TopicVanishes
  <2> QED BY <1>3, <1>4, <2>1 DEF userVars
<1>5. CASE ReconcilePKI
  <2>1. user'[u] = user[u]
    BY <1>0, <1>5 DEF ReconcilePKI, CreateUsers
  <2> QED BY <1>3, <1>5, <2>1 DEF ReconcilePKI
<1>6. CASE SweepUsers
  <2>1. user'[u] = user[u] \/ user'[u] = Unwanted(user[u])
    BY <1>0, <1>6 DEF SweepUsers
  <2>2. UNCHANGED <<uw, secret>>
    BY <1>6 DEF SweepUsers
  <2>3. WorkerMoves(u) /\ SecretStays(u)
    BY <2>2 DEF WorkerMoves, SecretStays
  <2>4. UserEvolves(u)
    <3>1. CASE user'[u] = user[u]
      BY <3>1 DEF UserEvolves
    <3> QED BY <1>0, <2>1, <3>1, UnwantedEvolves
  <2> QED BY <2>3, <2>4
<1>7. CASE FinalizePKI
  <2>1. secret'[u] = secret[u]
    BY <1>0, <1>7 DEF FinalizePKI
  <2> QED BY <1>3, <1>7, <2>1 DEF FinalizePKI
<1>8. CASE \/ ReconcileCluster \/ EnsureFinalizers \/ SweepTopics \/ TopicsSwept \/ AwaitTopics
           \/ UsersSwept \/ RemoveMainFinalizer
  <2>1. UNCHANGED <<user, uw, secret>>
    BY <1>8 DEF ReconcileCluster, EnsureFinalizers, SweepTopics, TopicsSwept, AwaitTopics,
                UsersSwept, RemoveMainFinalizer, userVars
  <2> QED BY <1>3, <2>1
<1>9. CASE SyncCluster \/ UserDeletesCluster \/ Outage \/ UNCHANGED vars
  <2>1. UNCHANGED <<user, uw, secret>>
    BY <1>9 DEF SyncCluster, UserDeletesCluster, Outage, vars, userVars
  <2> QED BY <1>3, <2>1
<1>10. CASE Crash
  <2>1. uw'[u].pc = "idle" /\ UNCHANGED <<user, secret>>
    BY <1>0, <1>10 DEF Crash, UserWorker
  <2> QED BY <2>1, WorkerIdle DEF UserEvolves, SecretStays
<1> QED
  BY <1>1, <1>2, <1>4, <1>5, <1>6, <1>7, <1>8, <1>9, <1>10 DEF Next, ClusterStep

\* The cache keeps what it has or takes what the API server has.
LEMMA UserSeenMoves ==
  ASSUME Types, [Next]_vars, NEW u \in Users
  PROVE  userSeen'[u] = userSeen[u] \/ userSeen'[u] = user[u]
<1>0. userSeen \in [Users -> UserObj]
  BY DEF Types, UserTypes
<1>1. CASE \E x \in Users : UserStep(x)
  BY <1>1 DEF UserStep, ReconcileUser, GetUserCertificate, InjectJKSPassword, CreateCertificate,
              GetUserSecret, EnsureKey, GenerateAndCreateCSR, SecretUpdateAnnotation, PollRequest,
              UserMain, DeleteUserACLs, RemoveUserFinalizer, LabelUser, CreateUserACLs,
              AddUserFinalizer, UserCreated
<1>2. CASE UserEnvironment
  <2>1. ASSUME NEW x \in Users, SyncUser(x)
        PROVE  userSeen'[u] = userSeen[u] \/ userSeen'[u] = user[u]
    BY <1>0, <2>1 DEF SyncUser
  <2> QED BY <1>2, <2>1 DEF UserEnvironment, UserCreatesUser, UserDeletesUser, CallFails,
                CertManagerIssues, SignerActs, RequestExpires, GarbageCollect, userVars
<1>3. CASE ClusterStep
  BY <1>3 DEF ClusterStep, ReconcileCluster, ReconcilePKI, EnsureFinalizers, SweepTopics,
              TopicsSwept, AwaitTopics, SweepUsers, UsersSwept, FinalizePKI, RemoveMainFinalizer,
              userVars
<1>4. CASE \/ UNCHANGED userVars \/ SyncCluster \/ UserDeletesCluster \/ Outage \/ Crash
           \/ UNCHANGED vars
  BY <1>4 DEF SyncCluster, UserDeletesCluster, Outage, Crash, vars, userVars
<1> QED BY <1>1, <1>2, <1>3, <1>4 DEF Next

\* No ACL that a grant has made is ever taken back: the filter of DeleteUserACLs misses them.
LEMMA AclsStay ==
  ASSUME [Next]_vars, NEW u, NEW g, AclsOf(u, g) \subseteq acls PROVE AclsOf(u, g) \subseteq acls'
<1>1. \A a \in AclsOf(u, g) : a.operation # "delete"
  BY DEF AclsOf, CommonACLs, ReadACLs, WriteACLs, Acl
<1>2. ASSUME NEW x \in Users, UserStep(x)
      PROVE  acls \subseteq acls' \/ \E y \in Users : acls' = acls \ Revoked(y)
  BY <1>2 DEF UserStep, ReconcileUser, GetUserCertificate, InjectJKSPassword, CreateCertificate,
              GetUserSecret, EnsureKey, GenerateAndCreateCSR, SecretUpdateAnnotation, PollRequest,
              UserMain, DeleteUserACLs, RemoveUserFinalizer, LabelUser, CreateUserACLs,
              AddUserFinalizer, UserCreated
<1>3. ASSUME UserEnvironment PROVE acls' = acls
  BY <1>3 DEF UserEnvironment, SyncUser, UserCreatesUser, UserDeletesUser, CallFails,
              CertManagerIssues, SignerActs, RequestExpires, GarbageCollect, userVars
<1>4. ASSUME ClusterStep PROVE acls' = acls
  BY <1>4 DEF ClusterStep, ReconcileCluster, ReconcilePKI, EnsureFinalizers, SweepTopics,
              TopicsSwept, AwaitTopics, SweepUsers, UsersSwept, FinalizePKI, RemoveMainFinalizer,
              userVars
<1>5. ASSUME \/ UNCHANGED userVars \/ SyncCluster \/ UserDeletesCluster \/ Outage \/ Crash
             \/ UNCHANGED vars
      PROVE  acls' = acls
  BY <1>5 DEF SyncCluster, UserDeletesCluster, Outage, Crash, vars, userVars
<1>6. acls \subseteq acls' \/ \E y \in Users : acls' = acls \ Revoked(y)
  BY <1>2, <1>3, <1>4, <1>5 DEF Next
<1> QED BY <1>1, <1>6 DEF Revoked

\* The settled users of a scene have what they are promised.
LEMMA InitUserInv == ASSUME Init PROVE UserInv
<1> SUFFICES ASSUME NEW u \in Others
             PROVE  UserGoesOnce(u) /\ Certified(u) /\ GrantsDone(u) /\ Promise(u)
  BY DEF UserInv
<1>1. u \in Users
  BY DEF Others
<1>2. uw[u].pc = "idle"
  BY <1>1 DEF Init, UserInit, UserWorker
<1>3. user[u] = (IF scene.users[u].settled THEN SettledUser ELSE NoUser) /\ userSeen = user
  BY <1>1 DEF Init, UserInit
<1>4. SettledUser.exists /\ NoUser.exists = FALSE /\ NoUser.state = ""
  BY DEF SettledUser, NoUser
<1>5. UserGoesOnce(u) /\ Certified(u) /\ GrantsDone(u)
  BY <1>2, <1>3, <1>4 DEF UserGoesOnce, Certified, GrantsDone, AfterBackend
<1>6. ASSUME scene.users[u].settled
      PROVE  /\ \A g \in Grants(u) : AclsOf(u, g) \subseteq acls
             /\ Backend(u) = "none" \/ secret[u] = "full"
  <2>1. acls = UNION {UNION {AclsOf(x, g) : g \in Grants(x)} :
                        x \in {y \in Users : scene.users[y].settled}}
    BY DEF Init, UserInit
  <2>2. secret[u] = IF Backend(u) # "none" THEN "full" ELSE "none"
    BY <1>1, <1>6 DEF Init, UserInit
  <2>3. ASSUME NEW g \in Grants(u), NEW a \in AclsOf(u, g) PROVE a \in acls
    <3>1. a \in UNION {AclsOf(u, h) : h \in Grants(u)}
      OBVIOUS
    <3>2. u \in {y \in Users : scene.users[y].settled}
      BY <1>1, <1>6
    <3> QED BY <2>1, <3>1, <3>2
  <2> QED BY <2>2, <2>3
<1>7. Promise(u)
  BY <1>3, <1>4, <1>6 DEF Promise
<1> QED BY <1>5, <1>7

\* No step breaks UserInv.
LEMMA NextUserInv == ASSUME Types, UserInv, [Next]_vars PROVE UserInv'
<1>0. scene' = scene
  BY SceneStays
<1>1. Others' = Others
  BY <1>0 DEF Others, ControllerUsers
<1> SUFFICES ASSUME NEW u \in Others
             PROVE  UserGoesOnce(u)' /\ Certified(u)' /\ GrantsDone(u)' /\ Promise(u)'
  BY <1>1 DEF UserInv
<1>2. u \in Users /\ Grants(u)' = Grants(u) /\ Backend(u)' = Backend(u)
  BY <1>0 DEF Others, Grants, Backend
<1>3. UserGoesOnce(u) /\ Certified(u) /\ GrantsDone(u) /\ Promise(u)
  BY DEF UserInv
<1>4. UserEvolves(u) /\ WorkerMoves(u) /\ SecretStays(u)
  BY UserNextEffect
<1>5. userSeen'[u] = userSeen[u] \/ userSeen'[u] = user[u]
  BY <1>2, UserSeenMoves
<1>6. \A g : AclsOf(u, g) \subseteq acls => AclsOf(u, g) \subseteq acls'
  BY AclsStay
<1>7. UserGoesOnce(u)'
  <2>1. uw'[u].pc # "idle" => uw'[u].obj.exists
    BY <1>3, <1>4 DEF UserGoesOnce, WorkerMoves
  <2>2. userSeen'[u].exists \/ uw'[u].pc # "idle" => user[u].exists \/ user[u].deleted
    BY <1>3, <1>4, <1>5 DEF UserGoesOnce, WorkerMoves
  <2> QED BY <1>4, <2>1, <2>2 DEF UserGoesOnce, UserEvolves
<1>8. Certified(u)'
  <2> SUFFICES ASSUME user'[u].exists, uw'[u].pc \in AfterBackend
               PROVE  Backend(u) = "none" \/ secret'[u] = "full"
    BY <1>2 DEF Certified, AfterBackend
  <2>1. CASE uw[u].pc \in AfterBackend
    <3>1. user[u].exists
      BY <1>3, <1>4, <2>1 DEF UserGoesOnce, UserEvolves, AfterBackend
    <3> QED BY <1>3, <1>4, <2>1, <3>1 DEF Certified, SecretStays
  <2>2. CASE uw[u].pc \notin AfterBackend
    BY <1>4, <2>2 DEF WorkerMoves
  <2> QED BY <2>1, <2>2
<1>9. GrantsDone(u)'
  <2>1. ASSUME uw'[u].pc = "grant", NEW g \in Grants(u) \ uw'[u].todo
        PROVE  AclsOf(u, g) \subseteq acls'
    <3>1. uw[u].pc = "grant" /\ \A h \in uw[u].todo \ uw'[u].todo : AclsOf(u, h) \subseteq acls'
      BY <1>4, <2>1 DEF WorkerMoves
    <3>2. CASE g \in uw[u].todo
      BY <2>1, <3>1, <3>2
    <3>3. CASE g \notin uw[u].todo
      BY <1>3, <1>6, <3>1, <3>3 DEF GrantsDone
    <3> QED BY <3>2, <3>3
  <2>2. ASSUME uw'[u].pc \in {"final", "status"}, NEW g \in Grants(u)
        PROVE  AclsOf(u, g) \subseteq acls'
    <3>1. uw[u].pc \in {"final", "status"} \/ (uw[u].pc = "grant" /\ uw[u].todo = {})
      BY <1>4, <2>2 DEF WorkerMoves
    <3>2. AclsOf(u, g) \subseteq acls
      BY <1>3, <3>1 DEF GrantsDone
    <3> QED BY <1>6, <3>2
  <2>3. \A g : AclsOf(u, g)' = AclsOf(u, g)
    BY DEF AclsOf, CommonACLs, ReadACLs, WriteACLs, Acl, Principal
  <2> QED BY <1>2, <2>1, <2>2, <2>3 DEF GrantsDone
<1>10. Promise(u)'
  <2> SUFFICES ASSUME user'[u].state = "created"
               PROVE  /\ user'[u].exists
                      /\ \A g \in Grants(u) : AclsOf(u, g) \subseteq acls'
                      /\ Backend(u) = "none" \/ secret'[u] = "full"
    BY <1>2 DEF Promise
  <2>1. /\ user[u].exists => user'[u].exists
        /\ user[u].state = "created" \/ (uw[u].pc = "status" /\ user[u] = uw[u].obj)
    BY <1>4 DEF UserEvolves
  <2>2. CASE user[u].state = "created"
    BY <1>3, <1>4, <1>6, <2>1, <2>2 DEF Promise, SecretStays
  <2>3. CASE uw[u].pc = "status" /\ user[u] = uw[u].obj
    <3>1. user[u].exists
      BY <1>3, <2>3 DEF UserGoesOnce
    <3>2. Backend(u) = "none" \/ secret[u] = "full"
      BY <1>3, <2>3, <3>1 DEF Certified, AfterBackend
    <3>3. \A g \in Grants(u) : AclsOf(u, g) \subseteq acls
      BY <1>3, <2>3 DEF GrantsDone
    <3> QED BY <1>4, <1>6, <2>1, <3>1, <3>2, <3>3 DEF SecretStays
  <2> QED BY <2>1, <2>2, <2>3
<1> QED BY <1>7, <1>8, <1>9, <1>10

\* A KafkaUser with the status created has its secret and all its ACLs, whatever fails,
\* restarts or is deleted: for every set of users and every scene.
THEOREM CreatedUserHasAccessHolds == Spec => []CreatedUserHasAccess
<1>1. UserInv => CreatedUserHasAccess
  BY DEF UserInv, Promise, CreatedUserHasAccess, Others
<1>2. Spec => []UserInv
  BY InitUserInv, InitTypes, NextUserInv, NextTypes, PTL DEF Spec
<1> QED BY <1>1, <1>2, PTL

=============================================================================
