---------------------------- MODULE ClusterAccess ----------------------------
(***************************************************************************)
(* KafkaTopics and KafkaUsers together with the part of the KafkaCluster   *)
(* controller that both depend on: its finalizers, the users of the PKI    *)
(* and the teardown of a cluster, which deletes the topics first because   *)
(* their controller needs the certificate of a KafkaUser.                  *)
(***************************************************************************)
EXTENDS KafkaTopics, KafkaUsers

VARIABLES
  cw,     \* the worker of the KafkaCluster
  cdue,   \* the KafkaCluster is in the work queue
  swept   \* the KafkaTopics that the teardown has asked to delete

clusterVars == <<cw, cdue, swept>>
vars == <<sharedVars, secret, topicVars, userVars, clusterVars>>

ClusterWorker == [pc |-> "idle", obj |-> NoCluster]

TopicScene(s) ==
  /\ s \in [name : {"n1", "n2"}, settled : BOOLEAN, labels : BOOLEAN, adopts : BOOLEAN,
            specs : SUBSET [parts : Int, rf : Int, cfg : Nat]]
  /\ s.settled => s.specs # {} /\ \A x \in s.specs : ValidSpec(x)
UserScene(s) ==
  s \in [backend : {"none", "cert-manager", "k8s-csr"}, jks : BOOLEAN, controller : BOOLEAN,
         signer : {"cert-manager", "other"}, grants : SUBSET {"read", "write"},
         labels : BOOLEAN, settled : BOOLEAN]

ASSUME SceneAssumption ==
  \A s \in Scenes : /\ \A t \in Topics : TopicScene(s.topics[t])
                    /\ \A u \in Users : UserScene(s.users[u])
                    /\ s.brokers \in Nat /\ s.fins \subseteq Finalizers
                    /\ s.budget \in [Events -> Nat]

Init ==
  /\ scene \in Scenes
  /\ cluster = [exists |-> TRUE, deleted |-> FALSE, fins |-> scene.fins]
  /\ clusterSeen = cluster
  /\ up = TRUE
  /\ left = scene.budget
  /\ TopicInit
  /\ UserInit
  /\ cw = ClusterWorker /\ cdue = (scene.fins # Finalizers) /\ swept = {}

-----------------------------------------------------------------------------
(* The KafkaCluster controller. *)

CAt(pc) == cw.pc = pc
CGoto(pc) == cw' = [cw EXCEPT !.pc = pc] /\ UNCHANGED cdue
CDone == cw' = ClusterWorker /\ UNCHANGED cdue
CFail == cw' = ClusterWorker /\ cdue' = TRUE

CWrite(new, pc) ==
  \/ /\ cluster = cw.obj
     /\ cluster' = StoredCluster(new)
     /\ cw' = IF pc = "idle" THEN ClusterWorker ELSE [pc |-> pc, obj |-> StoredCluster(new)]
     /\ UNCHANGED cdue
  \/ cluster # cw.obj /\ CFail /\ UNCHANGED cluster

cOthers == <<scene, clusterSeen, up, left>>

\* A cluster that is not deleted: its resources are reconciled, then its finalizers are set.
ReconcileCluster ==
  /\ CAt("idle") /\ cdue
  /\ cdue' = FALSE
  /\ cw' = CASE ~clusterSeen.exists -> ClusterWorker
             [] clusterSeen.exists /\ ~clusterSeen.deleted -> [pc |-> "pki", obj |-> clusterSeen]
             [] clusterSeen.deleted /\ "main" \notin clusterSeen.fins -> ClusterWorker
             [] OTHER -> [pc |-> "topics", obj |-> clusterSeen]
  /\ UNCHANGED <<sharedVars, secret, topicVars, userVars, swept>>

\* ReconcilePKI creates the KafkaUsers that are missing in the cache, one after the other; one that
\* exists after all ends the pass.
CreateUsers(us) ==
  user' = [u \in Users |-> IF u \in us THEN [NoUser EXCEPT !.exists = TRUE] ELSE user[u]]

ReconcilePKI ==
  /\ CAt("pki")
  /\ LET missing == {u \in ControllerUsers : ~userSeen[u].exists}
         absent == {u \in missing : ~user[u].exists}
     IN  \/ absent = missing /\ CreateUsers(absent) /\ CGoto("fins")
         \/ absent # missing /\ (\E us \in SUBSET absent : CreateUsers(us)) /\ CFail
  /\ UNCHANGED <<sharedVars, secret, topicVars, userSeen, uw, udue, pki, acls, swept>>

EnsureFinalizers ==
  /\ CAt("fins")
  /\ CWrite([cw.obj EXCEPT !.fins = Finalizers], "idle")
  /\ UNCHANGED <<cOthers, secret, topicVars, userVars, swept>>

\* DeleteAllOf selects by label at the API server.
SweepTopics ==
  /\ CAt("topics")
  /\ IF "topics" \in cw.obj.fins
     THEN LET ts == {t \in Topics : topic[t].exists /\ topic[t].label}
          IN  /\ topic' = [t \in Topics |-> IF t \in ts THEN Deleted(topic[t]) ELSE topic[t]]
              /\ swept' = swept \cup ts
              /\ CGoto("topics2")
     ELSE CGoto("list") /\ UNCHANGED <<topic, swept>>
  /\ UNCHANGED <<sharedVars, secret, topicSeen, tw, tdue, kafka, userVars>>

TopicsSwept ==
  /\ CAt("topics2")
  /\ CWrite([cw.obj EXCEPT !.fins = @ \ {"topics"}], "list")
  /\ UNCHANGED <<cOthers, secret, topicVars, userVars, swept>>

\* Mutant: the teardown does not wait for the topics.
AwaitTopicsNot ==
  /\ CAt("list") /\ CGoto("users")
  /\ UNCHANGED <<sharedVars, secret, topicVars, userVars, swept>>

\* The list comes from the cache.
AwaitTopics ==
  /\ CAt("list")
  /\ IF \E t \in Topics : topicSeen[t].exists /\ topicSeen[t].label
     THEN CFail ELSE CGoto("users")
  /\ UNCHANGED <<sharedVars, secret, topicVars, userVars, swept>>

SweepUsers ==
  /\ CAt("users")
  /\ IF "users" \in cw.obj.fins
     THEN /\ user' = [u \in Users |-> IF user[u].label THEN Unwanted(user[u]) ELSE user[u]]
          /\ CGoto("users2")
     ELSE CGoto("finalizePKI") /\ UNCHANGED user
  /\ UNCHANGED <<sharedVars, secret, topicVars, userSeen, uw, udue, pki, acls, swept>>

UsersSwept ==
  /\ CAt("users2")
  /\ CWrite([cw.obj EXCEPT !.fins = @ \ {"users"}], "finalizePKI")
  /\ UNCHANGED <<cOthers, secret, topicVars, userVars, swept>>

\* FinalizePKI: the secret of a Certificate that is gone is left alone.
FinalizePKI ==
  /\ CAt("finalizePKI")
  /\ LET us == {u \in ControllerUsers : pki[u].certificate}
     IN  /\ pki' = [u \in Users |-> IF u \in us THEN [pki[u] EXCEPT !.certificate = FALSE] ELSE pki[u]]
         /\ secret' = [u \in Users |-> IF u \in us THEN "none" ELSE secret[u]]
  /\ CGoto("main")
  /\ UNCHANGED <<sharedVars, topicVars, user, userSeen, uw, udue, acls, swept>>

RemoveMainFinalizer ==
  /\ CAt("main")
  /\ CWrite([cw.obj EXCEPT !.fins = @ \ {"main"}], "idle")
  /\ UNCHANGED <<cOthers, secret, topicVars, userVars, swept>>

ClusterStep ==
  \/ ReconcileCluster \/ ReconcilePKI \/ EnsureFinalizers \/ SweepTopics \/ TopicsSwept
  \/ AwaitTopics \/ SweepUsers \/ UsersSwept \/ FinalizePKI \/ RemoveMainFinalizer

-----------------------------------------------------------------------------

SyncCluster ==
  /\ clusterSeen # cluster
  /\ clusterSeen' = cluster /\ cdue' = TRUE
  /\ UNCHANGED <<scene, cluster, up, left, secret, topicVars, userVars, cw, swept>>

UserDeletesCluster ==
  /\ cluster.exists /\ ~cluster.deleted /\ Spend("teardown")
  /\ cluster' = StoredCluster([cluster EXCEPT !.deleted = TRUE])
  /\ UNCHANGED <<scene, clusterSeen, up, secret, topicVars, userVars, clusterVars>>

\* The brokers stop answering, and answer again.
Outage ==
  /\ \/ up /\ Spend("outage")
     \/ ~up /\ UNCHANGED left
  /\ up' = ~up
  /\ UNCHANGED <<scene, cluster, clusterSeen, secret, topicVars, userVars, clusterVars>>

\* The operator restarts: the workers are gone and everything is listed again.
Crash ==
  /\ Spend("crash")
  /\ tw' = [t \in Topics |-> TopicWorker] /\ uw' = [u \in Users |-> UserWorker]
  /\ cw' = ClusterWorker
  /\ topicSeen' = topic /\ userSeen' = user /\ clusterSeen' = cluster
  /\ tdue' = {t \in Topics : topic[t].exists} /\ udue' = {u \in Users : user[u].exists}
  /\ cdue' = cluster.exists
  /\ UNCHANGED <<scene, cluster, up, secret, topic, kafka, user, pki, acls, swept>>

Next ==
  \/ UNCHANGED <<userVars, clusterVars>> /\
       ((\E t \in Topics : TopicStep(t)) \/ TopicEnvironment)
  \/ UNCHANGED <<topicVars, clusterVars>> /\
       ((\E u \in Users : UserStep(u)) \/ UserEnvironment)
  \/ ClusterStep \/ SyncCluster \/ UserDeletesCluster \/ Outage \/ Crash

Spec == Init /\ [][Next]_vars

\* Workers go on and failures are retried, caches catch up, outages end, Kafka, cert-manager
\* and the signer do their work.
Fairness ==
  /\ \A t \in Topics : /\ WF_vars(TopicStep(t) /\ UNCHANGED <<userVars, clusterVars>>)
                       /\ WF_vars(SyncTopic(t) /\ UNCHANGED <<userVars, clusterVars>>)
  /\ \A u \in Users :
       /\ WF_vars(UserStep(u) /\ UNCHANGED <<topicVars, clusterVars>>)
       /\ WF_vars(SyncUser(u) /\ UNCHANGED <<topicVars, clusterVars>>)
       /\ WF_vars((CertManagerIssues(u) \/ SignerActs(u)) /\ UNCHANGED <<topicVars, clusterVars>>)
  /\ WF_vars(\E n \in Names : KafkaRemoves(n) /\ UNCHANGED <<userVars, clusterVars>>)
  /\ WF_vars(ClusterStep) /\ WF_vars(SyncCluster) /\ WF_vars(~up /\ Outage)

FairSpec == Spec /\ Fairness

-----------------------------------------------------------------------------
(* Properties. *)

\* Type invariant of the objects that the three controllers write; the request that a user's
\* secret is annotated with, where there is one, has been made before (k8scsr_user.go:300).
TypeOK ==
  /\ cluster.fins \subseteq Finalizers
  /\ \A t \in Topics : /\ topic[t].by \in {"", "koperator", "other"}
                       /\ topic[t].state \in {"", "created"}
                       /\ kafka[Name(t)].parts \in Nat
  /\ \A u \in Users : /\ secret[u] \in {"none", "password", "key", "full"}
                      /\ pki[u].refers \in 0..Len(pki[u].requests)
                      /\ user[u].state \in {"", "created"}
  /\ tdue \subseteq Topics /\ udue \subseteq Users /\ cdue \in BOOLEAN

\* A KafkaTopic that carries the finalizer and is managed disappears only when its topic
\* is no longer in Kafka, whatever is edited, fails or restarts between the deletion of
\* the topic and the removal of the finalizer.  A cluster that is gone excuses it, and so does
\* another KafkaTopic for the same topic, which may keep the topic or make it again.
FinalizedTopicIsGone ==
  [][\A t \in Topics :
       (topic[t].exists /\ topic[t].fin /\ topic[t].managed /\ ~topic'[t].exists /\ cluster.exists)
         => (~InKafka(t) \/ \E x \in Topics \ {t} : Name(x) = Name(t))]_vars

\* The teardown deletes the KafkaUsers, and with them the certificate of the operator,
\* only when every topic it has asked to delete is finished: kafkacluster_controller.go:256.
\* (A topic that gets its label at this very moment may be missing in the cache.)
TopicsBeforeUsers ==
  "users" \in scene.fins /\ "users" \notin cluster.fins
    => \A t \in swept : scene.topics[t].settled => ~topic[t].exists

\* The status "created" of a KafkaUser is a promise: it has its secret and all its ACLs.  The users
\* of the operator itself, whose secret the teardown deletes, are left out, and grants are not edited.
CreatedUserHasAccess ==
  \A u \in Users \ ControllerUsers : user[u].state = "created" =>
    /\ \A g \in Grants(u) : AclsOf(u, g) \subseteq acls
    /\ Backend(u) # "none" => secret[u] = "full"

Settled(t) ==
  /\ topic[t].fin /\ topic[t].label /\ topic[t].state = "created"
  /\ kafka[Name(t)].parts = Actual(topic[t].spec.parts)
  /\ kafka[Name(t)].cfg = topic[t].spec.cfg

Wanted(t) == topic[t].exists /\ ~topic[t].deleted /\ topic[t].managed
               /\ cluster.exists /\ ~cluster.deleted

Plain(s) == s.parts > 0 /\ s.rf > 0
Unspent(e) == left[e] = scene.budget[e]

\* A KafkaTopic that is admitted and then left alone is carried out in Kafka, labelled and
\* protected by its finalizer, in spite of the webhook that the controller itself must pass.
\* A topic that was deleted behind its back is not made again, and one that was made with
\* more partitions than an edit has asked for meanwhile cannot shrink.  Nothing is said of two
\* KafkaTopics for one topic, of numbers left to the defaults of Kafka (-1), and of an object with
\* other labels from which the label of the cluster was taken away.
TopicSettles ==
  \A t \in Topics :
    []<>(Wanted(t) /\ Plain(topic[t].spec) /\ ~Duplicated(t) /\ Unspent("vanish")
           /\ kafka[Name(t)].parts <= topic[t].spec.parts
           /\ (scene.topics[t].labels => Unspent("strip")) => Settled(t))

\* A KafkaUser gets its certificate and its ACLs.
UserSettles ==
  \A u \in Users : []<>(user[u].exists /\ ~user[u].deleted /\ cluster.exists /\ ~cluster.deleted
                          /\ ~(scene.users[u].jks /\ left["crash"] + left["fail"] <
                                 scene.budget["crash"] + scene.budget["fail"])
                        => user[u].state = "created")

\* What is deleted goes away, and so does the cluster, unless a topic that nobody has
\* deleted carries its label: finalizers, the wait for the topics, the certificate that
\* the users need to be deleted, and the webhook do not hold each other up.
DeletionsComplete ==
  /\ \A t \in Topics : []<>(topic[t].exists /\ topic[t].deleted => Duplicated(t))
  /\ \A u \in Users : []<>~(user[u].exists /\ user[u].deleted)
  /\ []<>(cluster.deleted => \E t \in Topics : topic[t].label /\ ~topic[t].deleted)
=============================================================================
