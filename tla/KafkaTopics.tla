----------------------------- MODULE KafkaTopics -----------------------------
(***************************************************************************)
(* The KafkaTopic controller, its admission webhook and the topics in      *)
(* Kafka.  Each KafkaTopic is reconciled by one worker at a time, and the  *)
(* workers of different objects run concurrently.                          *)
(*                                                                         *)
(* A topic is its partitions, its replication factor and its other         *)
(* settings; -1 asks for the broker's default, which is 1.                 *)
(***************************************************************************)
EXTENDS AccessObjects

VARIABLES
  topic,      \* KafkaTopic objects at the API server
  topicSeen,  \* ... and in the cache
  tw,         \* the worker of each KafkaTopic
  tdue,       \* the KafkaTopics in the work queue
  kafka       \* the topics of Kafka, by name

topicVars == <<topic, topicSeen, tw, tdue, kafka>>

NoSpec == [parts |-> 0, rf |-> 0, cfg |-> 0]
NoTopic == [exists |-> FALSE, deleted |-> FALSE, fin |-> FALSE, label |-> FALSE,
            managed |-> TRUE, by |-> "", state |-> "", spec |-> NoSpec]
Missing == [parts |-> 0, rf |-> 0, cfg |-> 0, going |-> FALSE]
TopicWorker == [pc |-> "idle", obj |-> NoTopic, label |-> FALSE]

Name(t) == scene.topics[t].name
Names == {Name(t) : t \in Topics}
InKafka(t) == kafka[Name(t)] # Missing

Actual(n) == IF n = -1 THEN 1 ELSE n
OfSpec(s) == [parts |-> Actual(s.parts), rf |-> Actual(s.rf), cfg |-> s.cfg, going |-> FALSE]
SettledTopic(s) == [NoTopic EXCEPT !.exists = TRUE, !.fin = TRUE, !.label = TRUE,
                                   !.by = "koperator", !.state = "created", !.spec = s]

TopicInit ==
  LET settled == {t \in Topics : scene.topics[t].settled}
      First(t) == CHOOSE s \in scene.topics[t].specs : TRUE
  IN  /\ topic = [t \in Topics |-> IF t \in settled THEN SettledTopic(First(t)) ELSE NoTopic]
      /\ topicSeen = topic
      /\ tw = [t \in Topics |-> TopicWorker]
      /\ tdue = {}
      /\ kafka = [n \in Names |->
                    IF \E t \in settled : Name(t) = n
                    THEN OfSpec(First(CHOOSE t \in settled : Name(t) = n)) ELSE Missing]

\* A name is used once: what is left of a deleted object keeps it from being created again.
GoneTopic == [NoTopic EXCEPT !.deleted = TRUE]
StoredTopic(obj) == IF obj.deleted /\ ~obj.fin THEN GoneTopic ELSE obj

-----------------------------------------------------------------------------
(* The webhook validates what users and the controller itself write, but   *)
(* for the status.                                                         *)

ValidSpec(s) == \A n \in {s.parts, s.rf} : n >= -1 /\ n # 0

\* checkExistingKafkaTopicCRs, in the cache.
Duplicated(t) == \E x \in Topics \ {t} : topicSeen[x].exists /\ Name(x) = Name(t)

\* checkKafka: a topic that exists is only taken over as it is, and may only grow.
FitsKafka(t, obj) ==
  LET k == kafka[Name(t)] IN
    IF ~InKafka(t) THEN obj.spec.rf <= scene.brokers
    ELSE /\ k.parts <= obj.spec.parts /\ k.rf = obj.spec.rf
         /\ topicSeen[t].exists \/ (scene.topics[t].adopts /\ k.parts = obj.spec.parts
                                     /\ k.cfg = obj.spec.cfg)

\* validateKafkaTopic.  Everything passes while the cluster is going down.
Admitted(t, obj) ==
  \/ ~clusterSeen.exists /\ obj.deleted
  \/ clusterSeen.exists /\ clusterSeen.deleted
  \/ /\ clusterSeen.exists /\ ~clusterSeen.deleted
     /\ ValidSpec(obj.spec) /\ ~Duplicated(t)
     /\ CanConnect /\ FitsKafka(t, obj)

-----------------------------------------------------------------------------
(* Reconcile. *)

TAt(t, pc) == tw[t].pc = pc
TGoto(t, pc) == tw' = [tw EXCEPT ![t].pc = pc] /\ UNCHANGED tdue
TDone(t) == tw' = [tw EXCEPT ![t] = TopicWorker] /\ UNCHANGED tdue
TFail(t) == tw' = [tw EXCEPT ![t] = TopicWorker] /\ tdue' = tdue \cup {t}

\* A write of new on top of the version the worker holds; allowed is the webhook's word.
TWrite(t, new, allowed, pc) ==
  \/ /\ topic[t] = tw[t].obj /\ allowed
     /\ topic' = [topic EXCEPT ![t] = StoredTopic(new)]
     /\ tw' = [tw EXCEPT ![t] = IF pc = "idle" THEN TopicWorker
                                ELSE [@ EXCEPT !.pc = pc, !.obj = StoredTopic(new)]]
     /\ UNCHANGED tdue
  \/ ~(topic[t] = tw[t].obj /\ allowed) /\ TFail(t) /\ UNCHANGED topic

TUpdate(t, new, pc) == TWrite(t, new, Admitted(t, new), pc)
TStatusUpdate(t, new, pc) == TWrite(t, new, TRUE, pc)

\* Mutant: a KafkaTopic without its cluster is only retried.
ReconcileTopicOrphan(t) ==
  /\ TAt(t, "idle") /\ t \in tdue /\ (topicSeen[t].exists => clusterSeen.exists)
  /\ tw' = [tw EXCEPT ![t] = IF topicSeen[t].exists
                             THEN [TopicWorker EXCEPT !.pc = "managed", !.obj = topicSeen[t]] ELSE @]
  /\ tdue' = tdue \ {t}
  /\ UNCHANGED <<topic, topicSeen, kafka, secret, sharedVars>>

\* The object and the cluster are read.  Without a cluster only a deletion goes on; any
\* other object stays in the queue.
ReconcileTopic(t) ==
  /\ TAt(t, "idle") /\ t \in tdue
  /\ LET obj == topicSeen[t]
         Start(pc) == [TopicWorker EXCEPT !.pc = pc, !.obj = obj]
     IN  \/ /\ ~obj.exists
            /\ tdue' = tdue \ {t} /\ UNCHANGED tw
         \/ /\ obj.exists /\ (clusterSeen.exists \/ obj.deleted)
            /\ tw' = [tw EXCEPT ![t] = Start(IF clusterSeen.exists THEN "managed" ELSE "unfin")]
            /\ tdue' = tdue \ {t}
  /\ UNCHANGED <<topic, topicSeen, kafka, secret, sharedVars>>

\* The status tells who manages the topic.
ManagedBy(t) ==
  /\ TAt(t, "managed")
  /\ LET obj == tw[t].obj
         by == IF obj.managed THEN "koperator" ELSE "other"
     IN  IF obj.by = by THEN TGoto(t, "connect") /\ UNCHANGED topic
         ELSE TStatusUpdate(t, [obj EXCEPT !.by = by], "connect")
  /\ UNCHANGED <<topicSeen, kafka, secret, sharedVars>>

\* checkFinalizers: an object that does not have the finalizer is done with.
CheckFinalizers(t) ==
  LET obj == tw[t].obj IN
    \/ ~obj.fin /\ TDone(t)
    \/ obj.fin /\ TGoto(t, IF obj.managed /\ InKafka(t) THEN "drop" ELSE "unfin")

\* The connection, the early returns and GetTopic.
ConnectTopic(t) ==
  /\ TAt(t, "connect")
  /\ LET obj == tw[t].obj IN
       \/ ~CanConnect /\ TFail(t)
       \/ CanConnect /\ obj.deleted /\ CheckFinalizers(t)
       \/ CanConnect /\ ~obj.deleted /\ ~obj.managed /\ TDone(t)
       \/ /\ CanConnect /\ ~obj.deleted /\ obj.managed /\ ~InKafka(t)
          /\ IF obj.state = "created" THEN TFail(t) ELSE TGoto(t, "create")
       \/ CanConnect /\ ~obj.deleted /\ obj.managed /\ InKafka(t) /\ TGoto(t, "alter")
  /\ UNCHANGED <<topic, topicSeen, kafka, secret, sharedVars>>

\* Kafka takes a topic that is valid and for which there are brokers; the webhook has not
\* looked at one that was written while the cluster was going down.
KafkaTakes(s) == ValidSpec(s) /\ s.rf <= scene.brokers

CreateTopic(t) ==
  /\ TAt(t, "create")
  /\ LET s == tw[t].obj.spec IN
       \/ /\ up /\ ~InKafka(t) /\ KafkaTakes(s)
          /\ kafka' = [kafka EXCEPT ![Name(t)] = OfSpec(s)]
          /\ TGoto(t, "label")
       \/ ~(up /\ ~InKafka(t) /\ KafkaTakes(s)) /\ TFail(t) /\ UNCHANGED kafka
  /\ UNCHANGED <<topic, topicSeen, secret, sharedVars>>

\* Mutant: a topic that already has its partitions is taken for one that must not shrink.
EnsurePartitionCountStrict(t) ==
  /\ TAt(t, "alter")
  /\ LET parts == tw[t].obj.spec.parts
         ok == up /\ InKafka(t) /\ kafka[Name(t)].parts < parts
     IN  \/ ok /\ kafka' = [kafka EXCEPT ![Name(t)].parts = parts] /\ TGoto(t, "config")
         \/ ~ok /\ TFail(t) /\ UNCHANGED kafka
  /\ UNCHANGED <<topic, topicSeen, secret, sharedVars>>

\* Any other number of partitions is asked for; Kafka only adds some.
EnsurePartitionCount(t) ==
  /\ TAt(t, "alter")
  /\ LET parts == tw[t].obj.spec.parts
         ok == up /\ InKafka(t) /\ kafka[Name(t)].parts <= parts
     IN  \/ ok /\ kafka' = [kafka EXCEPT ![Name(t)].parts = parts] /\ TGoto(t, "config")
         \/ ~ok /\ TFail(t) /\ UNCHANGED kafka
  /\ UNCHANGED <<topic, topicSeen, secret, sharedVars>>

EnsureTopicConfig(t) ==
  /\ TAt(t, "config")
  /\ \/ /\ up /\ InKafka(t) /\ TGoto(t, "label")
        /\ kafka' = [kafka EXCEPT ![Name(t)].cfg = tw[t].obj.spec.cfg]
     \/ ~(up /\ InKafka(t)) /\ TFail(t) /\ UNCHANGED kafka
  /\ UNCHANGED <<topic, topicSeen, secret, sharedVars>>

\* applyClusterRefLabel changes the labels of the object in place, so that an object which has
\* other labels looks unchanged to ensureClusterLabel and is not written.
LooksLabelled(t, obj) == obj.label \/ scene.topics[t].labels

LabelTopic(t) ==
  /\ TAt(t, "label")
  /\ LET obj == tw[t].obj IN
       IF LooksLabelled(t, obj)
       THEN tw' = [tw EXCEPT ![t].pc = "final", ![t].label = TRUE] /\ UNCHANGED <<topic, tdue>>
       ELSE TUpdate(t, [obj EXCEPT !.label = TRUE], "final")
  /\ UNCHANGED <<topicSeen, kafka, secret, sharedVars>>

FinalizeLater(t) ==
  /\ TAt(t, "final")
  /\ LET obj == tw[t].obj IN
       IF obj.fin THEN TGoto(t, "status") /\ UNCHANGED topic
       ELSE TUpdate(t, [obj EXCEPT !.fin = TRUE, !.label = @ \/ tw[t].label], "status")
  /\ UNCHANGED <<topicSeen, kafka, secret, sharedVars>>

TopicCreated(t) ==
  /\ TAt(t, "status")
  /\ LET obj == tw[t].obj IN
       IF obj.state = "created" THEN TDone(t) /\ UNCHANGED topic
       ELSE TStatusUpdate(t, [obj EXCEPT !.state = "created"], "idle")
  /\ UNCHANGED <<topicSeen, kafka, secret, sharedVars>>

\* Mutant: the finalizer goes while Kafka still deletes the topic.
DropTopicUnwaited(t) ==
  /\ TAt(t, "drop")
  /\ \/ /\ up /\ InKafka(t)
        /\ kafka' = [kafka EXCEPT ![Name(t)].going = TRUE]
        /\ TGoto(t, "unfin")
     \/ ~(up /\ InKafka(t)) /\ TFail(t) /\ UNCHANGED kafka
  /\ UNCHANGED <<topic, topicSeen, secret, sharedVars>>

\* finalizeKafkaTopic: DeleteTopic ...
DropTopic(t) ==
  /\ TAt(t, "drop")
  /\ \/ /\ up /\ InKafka(t)
        /\ kafka' = [kafka EXCEPT ![Name(t)].going = TRUE]
        /\ TGoto(t, "wait")
     \/ ~(up /\ InKafka(t)) /\ TFail(t) /\ UNCHANGED kafka
  /\ UNCHANGED <<topic, topicSeen, secret, sharedVars>>

\* ... waits until the topic is no longer listed.
AwaitTopic(t) ==
  /\ TAt(t, "wait")
  /\ \/ ~up /\ TFail(t)
     \/ up /\ ~InKafka(t) /\ TGoto(t, "unfin")
  /\ UNCHANGED <<topic, topicSeen, kafka, secret, sharedVars>>

RemoveTopicFinalizer(t) ==
  /\ TAt(t, "unfin")
  /\ TUpdate(t, [tw[t].obj EXCEPT !.fin = FALSE], "idle")
  /\ UNCHANGED <<topicSeen, kafka, secret, sharedVars>>

TopicStep(t) ==
  \/ ReconcileTopic(t) \/ ManagedBy(t) \/ ConnectTopic(t) \/ CreateTopic(t) \/ EnsurePartitionCount(t) \/ EnsureTopicConfig(t)
  \/ LabelTopic(t) \/ FinalizeLater(t) \/ TopicCreated(t)
  \/ DropTopic(t) \/ AwaitTopic(t) \/ RemoveTopicFinalizer(t)

-----------------------------------------------------------------------------
(* Users, Kafka and the cache. *)

\* A watch event puts the object into the work queue.
SyncTopic(t) ==
  /\ topicSeen[t] # topic[t]
  /\ topicSeen' = [topicSeen EXCEPT ![t] = topic[t]]
  /\ tdue' = tdue \cup {t}
  /\ UNCHANGED <<topic, tw, kafka, secret, sharedVars>>

UserWrites(t, new) ==
  /\ Admitted(t, new)
  /\ topic' = [topic EXCEPT ![t] = new]
  /\ UNCHANGED <<topicSeen, tw, tdue, kafka, secret, scene, cluster, clusterSeen, up>>

UserCreatesTopic(t) ==
  /\ topic[t] = NoTopic /\ Spend("create")
  /\ \E s \in scene.topics[t].specs :
       UserWrites(t, [NoTopic EXCEPT !.exists = TRUE, !.spec = s])

UserEditsTopic(t) ==
  /\ topic[t].exists /\ Spend("edit")
  /\ \/ \E s \in scene.topics[t].specs : UserWrites(t, [topic[t] EXCEPT !.spec = s])
     \/ UserWrites(t, [topic[t] EXCEPT !.managed = ~@])

\* The labels are replaced, the cluster's among them.
UserStripsLabel(t) ==
  /\ topic[t].exists /\ topic[t].label /\ Spend("strip")
  /\ UserWrites(t, [topic[t] EXCEPT !.label = FALSE])

Deleted(obj) == IF obj.exists THEN StoredTopic([obj EXCEPT !.deleted = TRUE]) ELSE obj

UserDeletesTopic(t) ==
  /\ topic[t].exists /\ Spend("delete")
  /\ topic' = [topic EXCEPT ![t] = Deleted(@)]
  /\ UNCHANGED <<topicSeen, tw, tdue, kafka, secret, scene, cluster, clusterSeen, up>>

KafkaRemoves(n) ==
  /\ kafka[n].going
  /\ kafka' = [kafka EXCEPT ![n] = Missing]
  /\ UNCHANGED <<topic, topicSeen, tw, tdue, secret, sharedVars>>

\* A topic is deleted behind the operator's back.
TopicVanishes(n) ==
  /\ kafka[n] # Missing /\ Spend("vanish")
  /\ kafka' = [kafka EXCEPT ![n] = Missing]
  /\ UNCHANGED <<topic, topicSeen, tw, tdue, secret, scene, cluster, clusterSeen, up>>

TopicEnvironment ==
  \/ \E t \in Topics : \/ SyncTopic(t) \/ UserCreatesTopic(t) \/ UserEditsTopic(t)
                       \/ UserStripsLabel(t) \/ UserDeletesTopic(t)
  \/ \E n \in Names : KafkaRemoves(n) \/ TopicVanishes(n)
=============================================================================
