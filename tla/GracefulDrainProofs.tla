------------------------ MODULE GracefulDrainProofs ------------------------
(***************************************************************************)
(* What GracefulAction keeps for the data of the brokers when a broker     *)
(* goes one way, in or out, and users leave the operations alone: no pod   *)
(* is deleted while its broker holds partitions, and a broker that joins   *)
(* counts as upscaled only once it was given some.                         *)
(*                                                                         *)
(* The pod of a broker is deleted by a pass that decided so from a copy of *)
(* the status. DrainInv ties the copies of both controllers to the data    *)
(* (EntriesOwn): wherever a downscale has succeeded, the broker is empty,  *)
(* and it stays empty because no add_broker is ever made for it            *)
(* (WorkDone). What remains is the broker without an entry, which is       *)
(* deleted without a check; Leaves says that a broker that leaves keeps    *)
(* its entry as long as it has a pod.                                      *)
(*                                                                         *)
(* Last, where besides nothing fails and no pod is lost: Cruise Control is *)
(* asked once for each broker. OnceInv says that a broker that was asked   *)
(* for is no longer required and never will be again.                      *)
(***************************************************************************)
EXTENDS GracefulActionProofs

-----------------------------------------------------------------------------
\* No broker both joins and leaves while the system runs, and users leave the operations
\* alone. It is about the initial state: the scene only loses budget.
OneWay == scene.joining \cap scene.leaving = {} /\ scene.budget["opEdits"] = 0

\* Operations that users left alone: they are retried until they complete, and one that is
\* gone has completed.
Untampered ==
  \A o \in OpIds : /\ ops[o].policy = "retry" /\ ~ops[o].deleting
                   /\ ops[o].phase = "gone" => ops[o].state = "Completed"

\* The states of an operation that Cruise Control has begun to execute.
Moving == {"Active", "InExecution", "Completed"}

\* What an operation has done to the data: an add_broker that has begun is for brokers that
\* stay and hold data, a completed remove_broker is for brokers that leave and hold none.
WorkDone ==
  \A o \in OpIds :
    /\ work[o].kind = "add_broker" =>
         /\ work[o].brokers \cap scene.leaving = {}
         /\ ops[o].state \in Moving => work[o].brokers \subseteq holds
    /\ work[o].kind = "remove_broker" =>
         /\ work[o].brokers \subseteq scene.leaving
         /\ ops[o].state = "Completed" => work[o].brokers \cap holds = {}

\* The entry of a broker that leaves: it has one from the start, its state is that of an
\* initial broker or a downscale, and a downscale that succeeded has emptied the broker.
LeaverEntry(init, h, b, e) ==
  /\ e # NoEntry => e.known
  /\ e = NoEntry \/ (e.state = Up("Succeeded") /\ b \in init) \/ IsDownscale(e.state)
  /\ e.state = Down("Succeeded") => b \notin h

\* The entry of a broker in brokersState, by the way the broker goes.
Own(sc, h, b, e) ==
  IF b \in sc.leaving THEN LeaverEntry(sc.init, h, b, e) ELSE ~IsDownscale(e.state)

\* The entries of a status, or of a copy of one, are of that form.
AllOwn(sc, h, entries) == \A b \in Brokers : Own(sc, h, b, entries[b])

\* The status, and what both controllers hold of it.
EntriesOwn ==
  /\ AllOwn(scene, holds, status) /\ AllOwn(scene, holds, kafka.copy.status)
  /\ AllOwn(scene, holds, task.tasks)

\* The steps of reconcileKafkaPodDelete.
Doomed == {"mark", "reap", "objects", "forget"}
\* The steps of the loop over the pods.
PodPcs == {"pods", "created", "graceful", "version"}

\* A broker that leaves never loses its entry while it is in the spec or has a pod, and the
\* pass in flight never takes it for a new broker: it can only be given a state by
\* MarkDownscale or the CruiseControlTask controller. Only a broker without an entry is
\* deleted without a check of its state.
Leaves(b) ==
  /\ kafka.pc # "idle" =>
       /\ kafka.copy.status[b] = NoEntry <=> status[b] = NoEntry
       /\ b \notin kafka.copy.brokers => b \notin spec.brokers
       /\ b \in kafka.copy.brokers => status[b] # NoEntry
  /\ b \in spec.brokers \/ pods[b] = "running" => status[b] # NoEntry
  /\ kafka.pc \in PodPcs /\ b \in kafka.todo => status[b] # NoEntry
  /\ kafka.pc \in {"created", "version"} /\ b \in kafka.chosen => status[b] # NoEntry
  /\ kafka.pc = "graceful" => b \notin kafka.chosen
  /\ kafka.pc \in Doomed =>
       /\ b \in kafka.todo \cup kafka.chosen => b \notin kafka.copy.brokers
       /\ b \in kafka.todo => status[b] # NoEntry
  /\ kafka.pc \in {"objects", "forget"} /\ b \in kafka.chosen =>
       b \notin kafka.todo /\ pods[b] # "running"

\* A broker that does not leave is never among the doomed.
Stays(b) ==
  /\ b \in kafka.copy.brokers => b \in spec.brokers
  /\ pods[b] # "none" => b \in spec.brokers /\ (kafka.pc # "idle" => b \in kafka.copy.brokers)
  /\ kafka.pc \in PodPcs /\ b \in kafka.todo => b \in kafka.copy.brokers
  /\ kafka.pc \in Doomed => b \notin kafka.todo \cup kafka.chosen

\* What the pass in flight has in its hands.
Progresses ==
  /\ \A b \in Brokers : IF b \in scene.leaving THEN Leaves(b) ELSE Stays(b)
  /\ kafka.pc \in {"created", "graceful"} => \E b \in Brokers : kafka.chosen = {b}

\* The inductive invariant behind NoDataLost.
DrainInv ==
  ActionInv /\ OneWay /\ Untampered /\ WorkDone /\ EntriesOwn /\ Progresses

-----------------------------------------------------------------------------
\* The scene apart from what is left of its disturbances.
SameScene ==
  /\ scene'.init = scene.init /\ scene'.joining = scene.joining
  /\ scene'.leaving = scene.leaving /\ scene'.budget["opEdits"] = scene.budget["opEdits"]

\* A disturbance other than an edit of an operation leaves all of this alone.
LEMMA SpendKeepsScene ==
  ASSUME DrainInv, NEW what \in Disturbances \ {"opEdits"}, Spend(what)
  PROVE  SameScene
<1>1. scene \in Scene /\ scene.budget \in [Disturbances -> Nat]
  BY DEF DrainInv, ActionInv, TypeOK, Scene
<1>2. scene' = [scene EXCEPT !.budget = [scene.budget EXCEPT ![what] = @ - 1]]
  BY <1>1 DEF Spend, Scene
<1>3. [scene.budget EXCEPT ![what] = @ - 1]["opEdits"] = scene.budget["opEdits"]
  BY <1>1 DEF Disturbances
<1> QED BY <1>1, <1>2, <1>3 DEF SameScene, Scene

\* OneWay stays true.
LEMMA OneWayKept ==
  ASSUME DrainInv, SameScene
  PROVE  OneWay'
  BY DEF DrainInv, SameScene, OneWay

\* Entries stay in order while the scene and the data stay.
LEMMA OwnKept ==
  ASSUME SameScene, NEW h, NEW entries, AllOwn(scene, h, entries)
  PROVE  AllOwn(scene', h, entries)
  BY DEF SameScene, AllOwn, Own

\* The directions of the states that the KafkaCluster controller sets.
LEMMA Directions ==
  /\ ~IsDownscale(NoState) /\ NoState # Down("Succeeded")
  /\ \A s \in Plain : ~IsDownscale(s)
  /\ IsDownscale(Down("Required")) /\ Down("Required") # Down("Succeeded")
  BY DEF IsDownscale, NoState, Up, Down, Plain

\* An empty status is of the form.
LEMMA NoneOwn ==
  ASSUME NEW sc, NEW h
  PROVE  AllOwn(sc, h, [b \in Brokers |-> NoEntry])
<1>1. ~IsDownscale(NoEntry.state) /\ NoEntry.state # Down("Succeeded")
  BY EntryFacts, Directions
<1> QED BY <1>1 DEF AllOwn, Own, LeaverEntry

\* The entries that the KafkaCluster controller makes are of the form.
LEMMA NewEntries ==
  ASSUME NEW sc, NEW h, NEW b
  PROVE  /\ b \in sc.leaving => Own(sc, h, b, Known(Down("Required"), NoOp))
         /\ b \notin sc.leaving => \A s \in Plain : Own(sc, h, b, Known(s, NoOp))
         /\ Own(sc, h, b, NoEntry)
         /\ \A s \in Plain \cup {Down("Required")} : Known(s, NoOp) # NoEntry
<1>1. \A s \in Plain : s \in States /\ ~IsDownscale(s)
  BY StateFacts, Directions
<1>2. /\ Down("Required") \in States /\ IsDownscale(Down("Required"))
      /\ Down("Required") # Down("Succeeded")
  BY StateFacts, Directions DEF Stages
<1>3. ~IsDownscale(NoEntry.state) /\ NoEntry.state # Down("Succeeded")
  BY EntryFacts, Directions
<1> QED BY <1>1, <1>2, <1>3, EntryFacts DEF Own, LeaverEntry

\* A write of another field of an entry keeps the form.
LEMMA KnownOwn ==
  ASSUME NEW sc, NEW h, NEW b, NEW e \in Entry, Own(sc, h, b, e),
         b \in sc.leaving => e # NoEntry
  PROVE  /\ Own(sc, h, b, [e EXCEPT !.known = TRUE])
         /\ [e EXCEPT !.known = TRUE] # NoEntry
<1>1. /\ [e EXCEPT !.known = TRUE] \in Entry /\ [e EXCEPT !.known = TRUE].known = TRUE
      /\ [e EXCEPT !.known = TRUE].state = e.state
  BY DEF Entry
<1>2. [e EXCEPT !.known = TRUE] # NoEntry
  BY <1>1, EntryFacts
<1> QED BY <1>1, <1>2 DEF Own, LeaverEntry

-----------------------------------------------------------------------------
(* The KafkaCluster controller. *)

\* A step of the KafkaCluster controller, by what it must keep.
LEMMA KafkaKeeps ==
  ASSUME DrainInv, ActionInv', SameScene, UNCHANGED <<ops, work, task, holds>>,
         AllOwn(scene, holds, status'), AllOwn(scene, holds, kafka'.copy.status), Progresses'
  PROVE  DrainInv'
<1>1. OneWay'
  BY OneWayKept
<1>2. Untampered' /\ WorkDone'
  BY DEF DrainInv, Untampered, WorkDone, SameScene, Moving
<1>3. EntriesOwn'
  <2>1. /\ AllOwn(scene', holds, status') /\ AllOwn(scene', holds, kafka'.copy.status)
        /\ AllOwn(scene', holds, task.tasks)
    BY OwnKept DEF DrainInv, EntriesOwn
  <2> QED BY <2>1 DEF EntriesOwn, AllOwn, Own, LeaverEntry, NoEntry, NoState, Up, Down, IsDownscale
<1> QED BY <1>1, <1>2, <1>3 DEF DrainInv

\* What the invariant says of the status and the KafkaCluster controller.
LEMMA DrainTypes ==
  ASSUME DrainInv
  PROVE  /\ kafka \in KafkaWorker /\ kafka.copy \in Copies
         /\ kafka.copy.status \in [Brokers -> Entry] /\ status \in [Brokers -> Entry]
         /\ AllOwn(scene, holds, status) /\ AllOwn(scene, holds, kafka.copy.status)
         /\ AllOwn(scene, holds, task.tasks) /\ ActionInv /\ TypeOK
         /\ pods \in [Brokers -> {"none", "running", "terminating"}]
  BY KafkaTypes DEF DrainInv, EntriesOwn, ActionInv, TypeOK

\* The pass reads the cluster: its copy is the status.
LEMMA KafkaStartDrain ==
  ASSUME DrainInv, KafkaStart
  PROVE  DrainInv'
<1>1. ActionInv'
  BY KafkaStartInv DEF DrainInv
<1>2. /\ kafka'.pc = "backup" /\ kafka'.copy.status = status /\ kafka'.copy.brokers = spec.brokers
      /\ UNCHANGED <<status, spec, pods, ops, work, task, holds, scene>>
  BY DrainTypes, ClusterCopy DEF KafkaStart, apiVars, opVars, envVars, KafkaWorker
<1>3. SameScene
  BY <1>2 DEF SameScene
<1>4. Progresses'
  <2>1. ASSUME NEW b \in Brokers, b \in scene.leaving PROVE Leaves(b)'
    BY <1>2, <2>1 DEF DrainInv, Progresses, Leaves, Doomed, PodPcs, NoEntry
  <2>2. ASSUME NEW b \in Brokers, b \notin scene.leaving PROVE Stays(b)'
    BY <1>2, <2>2 DEF DrainInv, Progresses, Stays, Doomed, PodPcs
  <2> QED BY <1>2, <2>1, <2>2 DEF Progresses
<1> QED BY <1>1, <1>2, <1>3, <1>4, DrainTypes, KafkaKeeps

\* What UpdateBrokerStatus leaves behind: the written status in the copy too.
LEMMA UpdateFields ==
  ASSUME DrainInv, NEW at, NEW new \in [Brokers -> Entry], NEW next \in KafkaWorker,
         UpdateBrokerStatus(at, new, next)
  PROVE  /\ kafka.pc = at /\ kafka'.pc = next.pc /\ kafka'.todo = next.todo
         /\ kafka'.chosen = next.chosen /\ kafka'.target = next.target
         /\ kafka'.copy.status = new /\ kafka'.copy.brokers = spec.brokers /\ status' = new
         /\ UNCHANGED <<spec, pods, ops, work, task, holds, scene, topicReady>> /\ SameScene
<1>1. /\ kafka.pc = at /\ kafka' = [next EXCEPT !.copy = [Cluster EXCEPT !.status = new]]
      /\ status' = new /\ UNCHANGED <<spec, pods, ops, work, task, holds, scene, topicReady>>
  BY DEF UpdateBrokerStatus, Publish, opVars, envVars
<1>2. SameScene
  BY <1>1 DEF SameScene
<1>3. /\ [Cluster EXCEPT !.status = new].status = new
      /\ [Cluster EXCEPT !.status = new].brokers = spec.brokers
  BY DrainTypes, ClusterCopy DEF Copies
<1> HIDE DEF Cluster
<1>4. /\ kafka'.pc = next.pc /\ kafka'.todo = next.todo /\ kafka'.chosen = next.chosen
      /\ kafka'.target = next.target /\ kafka'.copy = [Cluster EXCEPT !.status = new]
  BY <1>1 DEF KafkaWorker
<1> QED BY <1>1, <1>2, <1>3, <1>4

\* The fields of the brokers in the spec are written: an entry that was not there appears,
\* but a broker that leaves has one.
LEMMA WriteBackupDrain ==
  ASSUME DrainInv, WriteBackup
  PROVE  DrainInv'
<1>1. ActionInv'
  BY WriteBackupInv DEF DrainInv
<1> DEFINE copy == kafka.copy
           new == [b \in Brokers |-> IF b \in copy.brokers
                     THEN [copy.status[b] EXCEPT !.known = TRUE] ELSE copy.status[b]]
<1>2. ASSUME NEW b \in Brokers
      PROVE  /\ Own(scene, holds, b, new[b])
             /\ b \in scene.leaving => (new[b] = NoEntry <=> status[b] = NoEntry)
  <2>1. copy.status[b] \in Entry /\ Own(scene, holds, b, copy.status[b])
    BY DrainTypes DEF AllOwn
  <2>2. b \in scene.leaving => /\ copy.status[b] = NoEntry <=> status[b] = NoEntry
                               /\ b \in copy.brokers => status[b] # NoEntry
    BY DEF DrainInv, Progresses, Leaves, WriteBackup
  <2>3. CASE b \in copy.brokers
    <3>1. /\ Own(scene, holds, b, [copy.status[b] EXCEPT !.known = TRUE])
          /\ [copy.status[b] EXCEPT !.known = TRUE] # NoEntry
      BY <2>1, <2>2, <2>3, KnownOwn
    <3> QED BY <2>2, <2>3, <3>1
  <2>4. CASE b \notin copy.brokers
    BY <2>1, <2>2, <2>4
  <2> QED BY <2>3, <2>4
<1>3. AllOwn(scene, holds, new)
  BY <1>2 DEF AllOwn
<1>4. new \in [Brokers -> Entry]
  BY DrainTypes, EntryFacts
<1>5. /\ [copy EXCEPT !.status = new] \in Copies /\ [copy EXCEPT !.status = new].status = new
      /\ [copy EXCEPT !.status = new].brokers = copy.brokers
  BY <1>4, DrainTypes DEF Copies
<1>6. PICK c \in Copies :
        /\ kafka' = [kafka EXCEPT !.pc = "doomed", !.copy = c]
        /\ \/ /\ c = copy /\ status' = status
           \/ /\ c = [copy EXCEPT !.status = new] /\ status' = new
           \/ /\ c = Cluster /\ status' = status
  <2>1. copy \in Copies /\ Cluster \in Copies
    BY DrainTypes, ClusterCopy
  <2> HIDE DEF new
  <2> QED BY <1>5, <2>1 DEF WriteBackup, Publish, new
<1>7. /\ kafka'.pc = "doomed" /\ kafka'.copy = c
      /\ UNCHANGED <<spec, pods, ops, work, task, holds, scene>> /\ SameScene
  BY <1>6, DrainTypes DEF KafkaWorker, WriteBackup, opVars, envVars, SameScene
<1>8. /\ \/ c.status = copy.status /\ c.brokers = copy.brokers /\ status' = status
         \/ c.status = new /\ c.brokers = copy.brokers /\ status' = new
         \/ c.status = status /\ c.brokers = spec.brokers /\ status' = status
  BY <1>5, <1>6, DrainTypes, ClusterCopy
<1> HIDE DEF new
<1>9. AllOwn(scene, holds, status') /\ AllOwn(scene, holds, kafka'.copy.status)
  BY <1>3, <1>7, <1>8, DrainTypes
<1>10. Progresses'
  <2>1. ASSUME NEW b \in Brokers, b \in scene.leaving PROVE Leaves(b)'
    <3>1. Leaves(b) /\ kafka.pc = "backup"
      BY <2>1 DEF DrainInv, Progresses, WriteBackup
    <3>2. status'[b] = NoEntry <=> status[b] = NoEntry
      BY <1>2, <1>8, <2>1
    <3>3. c.status[b] = NoEntry <=> status[b] = NoEntry
      BY <1>2, <1>8, <2>1, <3>1 DEF Leaves
    <3>4. c.brokers = copy.brokers \/ c.brokers = spec.brokers
      BY <1>8
    <3> QED BY <1>7, <3>1, <3>2, <3>3, <3>4 DEF Leaves, Doomed, PodPcs, NoEntry
  <2>2. ASSUME NEW b \in Brokers, b \notin scene.leaving PROVE Stays(b)'
    <3>1. Stays(b) /\ kafka.pc = "backup"
      BY <2>2 DEF DrainInv, Progresses, WriteBackup
    <3>2. c.brokers = copy.brokers \/ c.brokers = spec.brokers
      BY <1>8
    <3> QED BY <1>7, <3>1, <3>2 DEF Stays, Doomed, PodPcs
  <2> QED BY <1>7, <2>1, <2>2 DEF Progresses
<1> QED BY <1>1, <1>7, <1>9, <1>10, KafkaKeeps

\* A pod is doomed if its broker is in neither the copy nor the spec.
LEMMA FindDoomedDrain ==
  ASSUME DrainInv, FindDoomed
  PROVE  DrainInv'
<1>1. ActionInv'
  BY FindDoomedInv DEF DrainInv
<1> DEFINE todo == {b \in DoomedPods : pods[b] = "running"}
<1>2. /\ kafka'.pc \in {"ensure", "mark", "reap"} /\ kafka'.copy = kafka.copy
      /\ kafka'.todo = todo /\ kafka'.chosen \subseteq DoomedPods
  <2>1. PendingGracefulDownscale \subseteq DoomedPods
    BY DEF PendingGracefulDownscale
  <2> HIDE DEF todo
  <2> QED BY <2>1, DrainTypes DEF FindDoomed, PodPcs, KafkaWorker, todo
<1>3. UNCHANGED <<status, spec, pods, ops, work, task, holds, scene>> /\ SameScene
  BY DEF FindDoomed, PodPcs, apiVars, opVars, envVars, SameScene
<1>4. \A b \in DoomedPods : b \in Brokers /\ pods[b] # "none" /\ b \notin kafka.copy.brokers
  BY DEF DoomedPods
<1>5. todo \subseteq DoomedPods /\ \A b \in todo : pods[b] = "running"
  OBVIOUS
<1> HIDE DEF todo
<1>6. Progresses'
  <2>1. ASSUME NEW b \in Brokers, b \in scene.leaving PROVE Leaves(b)'
    <3>1. Leaves(b) /\ kafka.pc = "doomed"
      BY <2>1 DEF DrainInv, Progresses, FindDoomed, PodPcs
    <3> QED BY <1>2, <1>3, <1>4, <1>5, <3>1 DEF Leaves, Doomed, PodPcs, NoEntry
  <2>2. ASSUME NEW b \in Brokers, b \notin scene.leaving PROVE Stays(b)'
    <3>1. Stays(b) /\ kafka.pc = "doomed"
      BY <2>2 DEF DrainInv, Progresses, FindDoomed, PodPcs
    <3>2. b \notin DoomedPods
      BY <1>4, <3>1 DEF Stays
    <3> QED BY <1>2, <1>3, <1>5, <3>1, <3>2 DEF Stays, Doomed, PodPcs
  <2> QED BY <1>2, <1>3, <2>1, <2>2 DEF Progresses
<1> QED BY <1>1, <1>2, <1>3, <1>6, DrainTypes, KafkaKeeps

\* The worker gives up.
LEMMA GivesUp ==
  ASSUME DrainInv, ActionInv', kafka' = KafkaIdle, SameScene,
         UNCHANGED <<status, spec, pods, ops, work, task, holds>>
  PROVE  DrainInv'
<1>1. /\ kafka'.pc = "idle" /\ kafka'.copy.brokers = {}
      /\ kafka'.copy.status = [b \in Brokers |-> NoEntry]
  BY KafkaIdleType DEF KafkaIdle, NoCluster
<1>2. AllOwn(scene, holds, kafka'.copy.status)
  BY <1>1, NoneOwn
<1>3. Progresses'
  <2>1. ASSUME NEW b \in Brokers, b \in scene.leaving PROVE Leaves(b)'
    BY <1>1, <2>1 DEF DrainInv, Progresses, Leaves, Doomed, PodPcs, NoEntry
  <2>2. ASSUME NEW b \in Brokers, b \notin scene.leaving PROVE Stays(b)'
    BY <1>1, <2>2 DEF DrainInv, Progresses, Stays, Doomed, PodPcs
  <2> QED BY <1>1, <2>1, <2>2 DEF Progresses, SameScene
<1> QED BY <1>2, <1>3, DrainTypes, KafkaKeeps

\* A doomed broker that was upscaled gets its downscale.
LEMMA MarkDownscaleDrain ==
  ASSUME DrainInv, MarkDownscale
  PROVE  DrainInv'
<1>1. ActionInv'
  BY StatusWritersInv DEF DrainInv
<1> DEFINE mark == Known(Down("Required"), NoOp)
           new == WithEntry(mark)
           next == [kafka EXCEPT !.pc = "reap", !.chosen = {}]
<1>2. next \in KafkaWorker /\ next.pc = "reap" /\ next.todo = kafka.todo /\ next.chosen = {}
  BY DrainTypes DEF KafkaWorker, KafkaPcs
<1>3. mark \in Entry /\ mark # NoEntry
  BY PlainSound, NewEntries
<1>4. new \in [Brokers -> Entry]
  BY <1>3, DrainTypes DEF WithEntry
<1>5. \A b \in Brokers : new[b] = IF b \in kafka.chosen THEN mark ELSE status[b]
  BY DEF WithEntry
<1>6. UpdateBrokerStatus("mark", new, next)
  BY DEF MarkDownscale
<1> HIDE DEF new, next, mark
<1>7. /\ kafka.pc = "mark" /\ kafka'.pc = "reap" /\ kafka'.todo = kafka.todo
      /\ kafka'.chosen = {} /\ kafka'.copy.status = new /\ kafka'.copy.brokers = spec.brokers
      /\ status' = new /\ UNCHANGED <<spec, pods, ops, work, task, holds, scene>> /\ SameScene
  BY <1>2, <1>4, <1>6, UpdateFields
<1>8. \A b \in kafka.chosen : b \in Brokers => b \in scene.leaving
  BY <1>7 DEF DrainInv, Progresses, Stays, Doomed, PodPcs
<1>9. AllOwn(scene, holds, new)
  BY <1>5, <1>8, DrainTypes, NewEntries DEF AllOwn, mark
<1>10. Progresses'
  <2>1. ASSUME NEW b \in Brokers, b \in scene.leaving PROVE Leaves(b)'
    <3>1. Leaves(b)
      BY <2>1 DEF DrainInv, Progresses
    <3>2. new[b] = NoEntry => status[b] = NoEntry
      BY <1>3, <1>5
    <3>3. b \in spec.brokers => b \in kafka.copy.brokers
      BY <1>7, <3>1 DEF Leaves
    <3> QED BY <1>7, <3>1, <3>2, <3>3 DEF Leaves, Doomed, PodPcs, NoEntry
  <2>2. ASSUME NEW b \in Brokers, b \notin scene.leaving PROVE Stays(b)'
    BY <1>7, <2>2 DEF DrainInv, Progresses, Stays, Doomed, PodPcs
  <2> QED BY <1>7, <2>1, <2>2 DEF Progresses
<1> QED BY <1>1, <1>7, <1>9, <1>10, KafkaKeeps

\* A doomed pod is deleted once the state of its broker allows it.
LEMMA ReapNextDrain ==
  ASSUME DrainInv, ReapNext
  PROVE  DrainInv'
<1>1. ActionInv'
  BY ReapNextInv DEF DrainInv
<1>2. kafka.pc = "reap" /\ UNCHANGED <<status, spec, ops, work, task, holds, scene>> /\ SameScene
  BY DEF ReapNext, opVars, envVars, SameScene
<1>3. CASE kafka' = [kafka EXCEPT !.pc = "ensure"] /\ pods' = pods
  <2>1. kafka'.pc = "ensure" /\ kafka'.copy = kafka.copy
    BY <1>3, DrainTypes DEF KafkaWorker
  <2>2. Progresses'
    <3>1. ASSUME NEW b \in Brokers, b \in scene.leaving PROVE Leaves(b)'
      BY <1>2, <1>3, <2>1, <3>1 DEF DrainInv, Progresses, Leaves, Doomed, PodPcs, NoEntry
    <3>2. ASSUME NEW b \in Brokers, b \notin scene.leaving PROVE Stays(b)'
      BY <1>2, <1>3, <2>1, <3>2 DEF DrainInv, Progresses, Stays, Doomed, PodPcs
    <3> QED BY <1>2, <2>1, <3>1, <3>2 DEF Progresses
  <2> QED BY <1>1, <1>2, <2>1, <2>2, DrainTypes, KafkaKeeps
<1>4. ASSUME NEW c \in kafka.todo, kafka' = [kafka EXCEPT !.todo = @ \ {c}], pods' = pods
      PROVE  DrainInv'
  <2>1. /\ kafka'.pc = "reap" /\ kafka'.copy = kafka.copy /\ kafka'.todo \subseteq kafka.todo
        /\ kafka'.chosen = kafka.chosen
    BY <1>2, <1>4, DrainTypes DEF KafkaWorker
  <2>2. Progresses'
    <3>1. ASSUME NEW b \in Brokers, b \in scene.leaving PROVE Leaves(b)'
      BY <1>2, <1>4, <2>1, <3>1 DEF DrainInv, Progresses, Leaves, Doomed, PodPcs, NoEntry
    <3>2. ASSUME NEW b \in Brokers, b \notin scene.leaving PROVE Stays(b)'
      BY <1>2, <1>4, <2>1, <3>2 DEF DrainInv, Progresses, Stays, Doomed, PodPcs
    <3> QED BY <1>2, <2>1, <3>1, <3>2 DEF Progresses
  <2> QED BY <1>1, <1>2, <2>1, <2>2, DrainTypes, KafkaKeeps
<1>5. ASSUME NEW c \in kafka.todo, pods' = [pods EXCEPT ![c] = "terminating"],
             kafka' = [kafka EXCEPT !.pc = "objects", !.todo = @ \ {c}, !.chosen = {c}]
      PROVE  DrainInv'
  <2>1. /\ kafka'.pc = "objects" /\ kafka'.copy = kafka.copy
        /\ kafka'.todo = kafka.todo \ {c} /\ kafka'.chosen = {c}
    BY <1>5, DrainTypes DEF KafkaWorker
  <2>2. c \in Brokers
    BY DrainTypes DEF KafkaWorker
  <2>3. \A b \in Brokers : pods'[b] = IF b = c THEN "terminating" ELSE pods[b]
    BY <1>5, DrainTypes
  <2>4. Progresses'
    <3>1. ASSUME NEW b \in Brokers, b \in scene.leaving PROVE Leaves(b)'
      <4>1. Leaves(b)
        BY <3>1 DEF DrainInv, Progresses
      <4> QED BY <1>2, <2>1, <2>3, <4>1 DEF Leaves, Doomed, PodPcs, NoEntry
    <3>2. ASSUME NEW b \in Brokers, b \notin scene.leaving PROVE Stays(b)'
      <4>1. Stays(b)
        BY <3>2 DEF DrainInv, Progresses
      <4> QED BY <1>2, <2>1, <2>3, <4>1 DEF Stays, Doomed, PodPcs
    <3> QED BY <1>2, <2>1, <3>1, <3>2 DEF Progresses
  <2> QED BY <1>1, <1>2, <2>1, <2>4, DrainTypes, KafkaKeeps
<1>6. CASE KafkaRequeue /\ pods' = pods
  BY <1>1, <1>2, <1>6, GivesUp DEF KafkaRequeue
<1> QED BY <1>3, <1>4, <1>5, <1>6 DEF ReapNext

\* The objects of a deleted broker go.
LEMMA ReapObjectsDrain ==
  ASSUME DrainInv, ReapObjects
  PROVE  DrainInv'
<1>1. ActionInv'
  BY ReapObjectsInv DEF DrainInv
<1>2. /\ kafka.pc = "objects"
      /\ UNCHANGED <<status, spec, pods, ops, work, task, holds, scene>> /\ SameScene
  BY DEF ReapObjects, opVars, envVars, SameScene
<1>3. CASE kafka' = [kafka EXCEPT !.pc = "forget"]
  <2>1. /\ kafka'.pc = "forget" /\ kafka'.copy = kafka.copy /\ kafka'.todo = kafka.todo
        /\ kafka'.chosen = kafka.chosen
    BY <1>3, DrainTypes DEF KafkaWorker
  <2>2. Progresses'
    <3>1. ASSUME NEW b \in Brokers, b \in scene.leaving PROVE Leaves(b)'
      BY <1>2, <2>1, <3>1 DEF DrainInv, Progresses, Leaves, Doomed, PodPcs, NoEntry
    <3>2. ASSUME NEW b \in Brokers, b \notin scene.leaving PROVE Stays(b)'
      BY <1>2, <2>1, <3>2 DEF DrainInv, Progresses, Stays, Doomed, PodPcs
    <3> QED BY <1>2, <2>1, <3>1, <3>2 DEF Progresses
  <2> QED BY <1>1, <1>2, <2>1, <2>2, DrainTypes, KafkaKeeps
<1>4. CASE KafkaRequeue
  BY <1>1, <1>2, <1>4, GivesUp DEF KafkaRequeue
<1> QED BY <1>3, <1>4 DEF ReapObjects

\* The entry goes with the pod: the broker left the spec for good.
LEMMA DeleteBrokerStatusDrain ==
  ASSUME DrainInv, DeleteBrokerStatus
  PROVE  DrainInv'
<1>1. ActionInv'
  BY StatusWritersInv DEF DrainInv
<1> DEFINE new == WithEntry(NoEntry)
           next == [kafka EXCEPT !.pc = "reap", !.chosen = {}]
<1>2. next \in KafkaWorker /\ next.pc = "reap" /\ next.todo = kafka.todo /\ next.chosen = {}
  BY DrainTypes DEF KafkaWorker, KafkaPcs
<1>3. new \in [Brokers -> Entry]
  BY EntryFacts, DrainTypes DEF WithEntry
<1>4. \A b \in Brokers : new[b] = IF b \in kafka.chosen THEN NoEntry ELSE status[b]
  BY DEF WithEntry
<1>5. UpdateBrokerStatus("forget", new, next)
  BY DEF DeleteBrokerStatus
<1> HIDE DEF new, next
<1>6. /\ kafka.pc = "forget" /\ kafka'.pc = "reap" /\ kafka'.todo = kafka.todo
      /\ kafka'.chosen = {} /\ kafka'.copy.status = new /\ kafka'.copy.brokers = spec.brokers
      /\ status' = new /\ UNCHANGED <<spec, pods, ops, work, task, holds, scene>> /\ SameScene
  BY <1>2, <1>3, <1>5, UpdateFields
<1>7. AllOwn(scene, holds, new)
  BY <1>4, DrainTypes, NewEntries DEF AllOwn
<1>8. Progresses'
  <2>1. ASSUME NEW b \in Brokers, b \in scene.leaving PROVE Leaves(b)'
    <3>1. Leaves(b)
      BY <2>1 DEF DrainInv, Progresses
    <3>2. b \in spec.brokers => b \in kafka.copy.brokers
      BY <1>6, <3>1 DEF Leaves
    <3>3. CASE b \in kafka.chosen
      <4>1. new[b] = NoEntry /\ b \notin kafka.copy.brokers /\ b \notin kafka.todo
              /\ pods[b] # "running"
        BY <1>4, <1>6, <3>1, <3>3 DEF Leaves, Doomed, PodPcs
      <4> QED BY <1>6, <3>1, <3>2, <4>1 DEF Leaves, Doomed, PodPcs, NoEntry
    <3>4. CASE b \notin kafka.chosen
      <4>1. new[b] = status[b]
        BY <1>4, <3>4
      <4> QED BY <1>6, <3>1, <3>2, <4>1 DEF Leaves, Doomed, PodPcs, NoEntry
    <3> QED BY <3>3, <3>4
  <2>2. ASSUME NEW b \in Brokers, b \notin scene.leaving PROVE Stays(b)'
    BY <1>6, <2>2 DEF DrainInv, Progresses, Stays, Doomed, PodPcs
  <2> QED BY <1>6, <2>1, <2>2 DEF Progresses
<1> QED BY <1>1, <1>6, <1>7, <1>8, KafkaKeeps

\* The loop over the pods takes brokers of the copy, which have an entry.
LEMMA ReorderBrokersDrain ==
  ASSUME DrainInv, ReorderBrokers
  PROVE  DrainInv'
<1>1. ActionInv'
  BY ReorderBrokersInv DEF DrainInv
<1>2. /\ kafka.pc = "ensure"
      /\ UNCHANGED <<status, spec, pods, ops, work, task, holds, scene>> /\ SameScene
  BY DEF ReorderBrokers, opVars, envVars, SameScene
<1>3. PICK t \in SUBSET Brokers :
        /\ \E r : kafka' = [kafka EXCEPT !.pc = "pods", !.todo = t, !.rank = r]
        /\ \A b \in t : \/ b \in kafka.copy.brokers
                        \/ /\ kafka.copy.status[b].known
                           /\ kafka.copy.status[b].state \in {Down("Required"), Down("Running")}
  <2> DEFINE missing == {b \in Brokers : pods[b] = "none"}
             claimed == [b \in Brokers |->
               IF b \in kafka.copy.brokers THEN objects[b] \cup {Volume} ELSE objects[b]]
             unfinished == {b \in missing :
               /\ kafka.copy.status[b].known /\ Volume \in claimed[b]
               /\ kafka.copy.status[b].state \in {Down("Required"), Down("Running")}}
             t == kafka.copy.brokers \cup unfinished
             r == [b \in Brokers |->
               IF b \in unfinished THEN 0
               ELSE IF ~kafka.copy.status[b].known THEN 1
               ELSE IF b \in missing THEN 2 ELSE 3]
  <2>1. t \in SUBSET Brokers
    BY DrainTypes DEF Copies
  <2>2. kafka' = [kafka EXCEPT !.pc = "pods", !.todo = t, !.rank = r]
    BY Zenon DEF ReorderBrokers
  <2>3. \A b \in t : \/ b \in kafka.copy.brokers
                     \/ /\ kafka.copy.status[b].known
                        /\ kafka.copy.status[b].state \in {Down("Required"), Down("Running")}
    OBVIOUS
  <2> HIDE DEF t, r
  <2> QED BY <2>1, <2>2, <2>3
<1>4. kafka'.pc = "pods" /\ kafka'.copy = kafka.copy /\ kafka'.todo = t
  BY <1>3, DrainTypes DEF KafkaWorker
<1>5. IsDownscale(Down("Required")) /\ IsDownscale(Down("Running"))
  BY DEF IsDownscale, Down
<1>6. Progresses'
  <2>1. ASSUME NEW b \in Brokers, b \in scene.leaving PROVE Leaves(b)'
    <3>1. Leaves(b)
      BY <2>1 DEF DrainInv, Progresses
    <3>2. b \in t => status[b] # NoEntry
      <4>1. b \in t /\ b \notin kafka.copy.brokers => kafka.copy.status[b] # NoEntry
        BY <1>3, EntryFacts
      <4> QED BY <1>2, <3>1, <4>1 DEF Leaves
    <3> QED BY <1>2, <1>4, <3>1, <3>2 DEF Leaves, Doomed, PodPcs, NoEntry
  <2>2. ASSUME NEW b \in Brokers, b \notin scene.leaving PROVE Stays(b)'
    <3>1. Stays(b) /\ ~IsDownscale(kafka.copy.status[b].state)
      BY <2>2, DrainTypes DEF DrainInv, Progresses, AllOwn, Own
    <3>2. b \in t => b \in kafka.copy.brokers
      BY <1>3, <1>5, <3>1
    <3> QED BY <1>2, <1>4, <3>1, <3>2 DEF Stays, Doomed, PodPcs
  <2> QED BY <1>2, <1>4, <2>1, <2>2 DEF Progresses
<1> QED BY <1>1, <1>2, <1>4, <1>6, DrainTypes, KafkaKeeps

\* The pod of the next broker is compared, created or deleted.
LEMMA ReconcileKafkaPodDrain ==
  ASSUME DrainInv, ReconcileKafkaPod
  PROVE  DrainInv'
<1>1. ActionInv'
  BY ReconcileKafkaPodInv DEF DrainInv
<1>2. /\ kafka.pc = "pods"
      /\ UNCHANGED <<status, spec, ops, work, task, holds, scene>> /\ SameScene
  BY DEF ReconcileKafkaPod, opVars, envVars, SameScene
<1>3. PICK c \in kafka.todo :
        \/ /\ pods' = pods \/ pods' = [pods EXCEPT ![c] = "running"]
           /\ \E pc \in {"created", "version"} :
                kafka' = [[kafka EXCEPT !.todo = @ \ {c}, !.chosen = {c}] EXCEPT !.pc = pc]
        \/ KafkaRequeue /\ pods' = pods
  BY DEF ReconcileKafkaPod
<1>4. c \in Brokers
  BY DrainTypes DEF KafkaWorker
<1>5. CASE KafkaRequeue /\ pods' = pods
  BY <1>1, <1>2, <1>5, GivesUp DEF KafkaRequeue
<1>6. ASSUME NEW pc \in {"created", "version"},
             pods' = pods \/ pods' = [pods EXCEPT ![c] = "running"],
             kafka' = [[kafka EXCEPT !.todo = @ \ {c}, !.chosen = {c}] EXCEPT !.pc = pc]
      PROVE  DrainInv'
  <2>1. /\ kafka'.pc \in {"created", "version"} /\ kafka'.copy = kafka.copy
        /\ kafka'.chosen = {c} /\ kafka'.todo = kafka.todo \ {c}
    BY <1>6, DrainTypes DEF KafkaWorker
  <2>2. \A b \in Brokers : pods'[b] = pods[b] \/ b = c
    BY <1>6, DrainTypes
  <2>3. Progresses'
    <3>1. ASSUME NEW b \in Brokers, b \in scene.leaving PROVE Leaves(b)'
      <4>1. Leaves(b)
        BY <3>1 DEF DrainInv, Progresses
      <4> QED BY <1>2, <2>1, <2>2, <4>1 DEF Leaves, Doomed, PodPcs, NoEntry
    <3>2. ASSUME NEW b \in Brokers, b \notin scene.leaving PROVE Stays(b)'
      <4>1. Stays(b)
        BY <3>2 DEF DrainInv, Progresses
      <4> QED BY <1>2, <2>1, <2>2, <4>1 DEF Stays, Doomed, PodPcs
    <3> QED BY <1>2, <1>4, <2>1, <3>1, <3>2 DEF Progresses
  <2> QED BY <1>1, <1>2, <2>1, <2>3, DrainTypes, KafkaKeeps
<1> QED BY <1>3, <1>5, <1>6

\* Another field of the status of the chosen brokers is written.
LEMMA WithFieldOwn ==
  ASSUME DrainInv, kafka.pc \in {"created", "version"}
  PROVE  /\ WithField \in [Brokers -> Entry] /\ AllOwn(scene, holds, WithField)
         /\ \A b \in Brokers : b \in scene.leaving =>
              (WithField[b] = NoEntry <=> status[b] = NoEntry)
<1>1. WithField \in [Brokers -> Entry]
  BY WithFieldSound DEF DrainInv
<1>2. ASSUME NEW b \in Brokers
      PROVE  /\ Own(scene, holds, b, WithField[b])
             /\ b \in scene.leaving => (WithField[b] = NoEntry <=> status[b] = NoEntry)
  <2>1. Own(scene, holds, b, status[b]) /\ status[b] \in Entry
    BY DrainTypes DEF AllOwn
  <2>2. CASE b \notin kafka.chosen
    <3>1. WithField[b] = status[b]
      BY <2>2 DEF WithField
    <3> QED BY <2>1, <3>1
  <2>3. CASE b \in kafka.chosen
    <3>1. WithField[b] = [status[b] EXCEPT !.known = TRUE]
      BY <2>3 DEF WithField
    <3>2. b \in scene.leaving => status[b] # NoEntry
      BY <2>3 DEF DrainInv, Progresses, Leaves
    <3> QED BY <2>1, <3>1, <3>2, KnownOwn
  <2> QED BY <2>2, <2>3
<1> QED BY <1>1, <1>2 DEF AllOwn

\* The field of a broker is written after its pod was created or its version read.
LEMMA FieldWritten ==
  ASSUME DrainInv, ActionInv', NEW at \in {"created", "version"}, NEW next \in KafkaWorker,
         UpdateBrokerStatus(at, WithField, next),
         next.pc \in {"version", "pods", "graceful"}, next.todo = kafka.todo,
         next.pc # "pods" => next.chosen = kafka.chosen /\ at = "created",
         next.pc = "graceful" => \A b \in kafka.chosen : b \notin scene.leaving
  PROVE  DrainInv'
<1>1. kafka.pc = at
  BY DEF UpdateBrokerStatus
<1>2. /\ WithField \in [Brokers -> Entry] /\ AllOwn(scene, holds, WithField)
      /\ \A b \in Brokers : b \in scene.leaving =>
           (WithField[b] = NoEntry <=> status[b] = NoEntry)
  BY <1>1, WithFieldOwn
<1>3. /\ kafka'.pc = next.pc /\ kafka'.todo = kafka.todo
      /\ kafka'.chosen = next.chosen /\ kafka'.copy.status = WithField
      /\ kafka'.copy.brokers = spec.brokers /\ status' = WithField
      /\ UNCHANGED <<spec, pods, ops, work, task, holds, scene>> /\ SameScene
  BY <1>2, UpdateFields
<1>4. Progresses'
  <2>1. ASSUME NEW b \in Brokers, b \in scene.leaving PROVE Leaves(b)'
    <3>1. Leaves(b)
      BY <2>1 DEF DrainInv, Progresses
    <3>2. status'[b] = NoEntry <=> status[b] = NoEntry
      BY <1>2, <1>3, <2>1
    <3>3. kafka'.copy.status[b] = NoEntry <=> status[b] = NoEntry
      BY <1>2, <1>3, <2>1
    <3>4. kafka'.pc \in {"version", "pods", "graceful"}
      BY <1>3
    <3>5. kafka'.pc \in {"version", "graceful"} => kafka'.chosen = kafka.chosen
      BY <1>3
    <3>6. kafka'.pc = "graceful" => b \notin kafka.chosen
      BY <1>3, <2>1
    <3>7. kafka.pc \in {"created", "version"}
      BY <1>1
    <3> QED
      BY <1>3, <3>1, <3>2, <3>3, <3>4, <3>5, <3>6, <3>7 DEF Leaves, Doomed, PodPcs, NoEntry
  <2>2. ASSUME NEW b \in Brokers, b \notin scene.leaving PROVE Stays(b)'
    <3>1. Stays(b)
      BY <2>2 DEF DrainInv, Progresses
    <3> QED BY <1>1, <1>3, <3>1 DEF Stays, Doomed, PodPcs
  <2>3. kafka'.pc = "graceful" => \E b \in Brokers : kafka'.chosen = {b}
    BY <1>1, <1>3 DEF DrainInv, Progresses
  <2> QED BY <1>3, <2>1, <2>2, <2>3 DEF Progresses
<1> QED BY <1>2, <1>3, <1>4, KafkaKeeps

\* A broker that leaves has an entry with a state and gets no new one.
LEMMA PodCreatedDrain ==
  ASSUME DrainInv, PodCreated
  PROVE  DrainInv'
<1>1. ActionInv'
  BY PodCreatedInv DEF DrainInv
<1> DEFINE asked == [kafka EXCEPT !.pc = "graceful", !.target = NewPodState(Cluster)]
           settled == [kafka EXCEPT !.pc = "version"]
<1>2. NewPodState(Cluster) \in States
  BY StateFacts DEF NewPodState, Plain
<1>3. /\ asked \in KafkaWorker /\ asked.pc = "graceful" /\ asked.todo = kafka.todo
      /\ asked.chosen = kafka.chosen
  BY <1>2, DrainTypes DEF KafkaWorker, KafkaPcs
<1>4. /\ settled \in KafkaWorker /\ settled.pc = "version" /\ settled.todo = kafka.todo
      /\ settled.chosen = kafka.chosen
  BY DrainTypes DEF KafkaWorker, KafkaPcs
<1>5. \/ /\ UpdateBrokerStatus("created", WithField, asked)
         /\ \E b \in kafka.chosen : NeedsState(status[b].state)
      \/ UpdateBrokerStatus("created", WithField, settled)
  BY DEF PodCreated
<1>6. kafka.pc = "created"
  BY <1>5 DEF UpdateBrokerStatus
<1> HIDE DEF asked, settled
<1>7. CASE UpdateBrokerStatus("created", WithField, settled)
  BY <1>1, <1>4, <1>7, FieldWritten
<1>8. CASE /\ UpdateBrokerStatus("created", WithField, asked)
           /\ \E b \in kafka.chosen : NeedsState(status[b].state)
  <2>1. PICK c \in Brokers : kafka.chosen = {c}
    BY <1>6 DEF DrainInv, Progresses
  <2>2. NeedsState(status[c].state)
    BY <1>8, <2>1
  <2>3. c \notin scene.leaving
    <3> SUFFICES ASSUME c \in scene.leaving PROVE FALSE
      OBVIOUS
    <3>1. status[c] # NoEntry
      BY <1>6, <2>1 DEF DrainInv, Progresses, Leaves
    <3>2. LeaverEntry(scene.init, holds, c, status[c])
      BY DrainTypes DEF AllOwn, Own
    <3> QED BY <2>2, <3>1, <3>2 DEF LeaverEntry, NeedsState
  <2> QED BY <1>1, <1>3, <1>8, <2>1, <2>3, FieldWritten
<1> QED BY <1>5, <1>7, <1>8

\* The version is written.
LEMMA ReadVersionDrain ==
  ASSUME DrainInv, ReadVersion
  PROVE  DrainInv'
<1>1. ActionInv'
  BY ReadVersionInv DEF DrainInv
<1> DEFINE next == [kafka EXCEPT !.pc = "pods", !.chosen = {}]
<1>2. next \in KafkaWorker /\ next.pc = "pods" /\ next.todo = kafka.todo
  BY DrainTypes DEF KafkaWorker, KafkaPcs
<1>3. CASE UpdateBrokerStatus("version", WithField, next)
  <2> HIDE DEF next
  <2> QED BY <1>1, <1>2, <1>3, FieldWritten
<1>4. CASE KafkaRequeue /\ UNCHANGED <<apiVars, opVars, envVars, task, wakeT, scene>>
  <2>1. UNCHANGED <<status, spec, pods, ops, work, task, holds>> /\ SameScene
    BY <1>4 DEF apiVars, opVars, envVars, SameScene
  <2> QED BY <1>1, <1>4, <2>1, GivesUp DEF KafkaRequeue
<1> QED BY <1>3, <1>4 DEF ReadVersion

\* A broker that does not leave gets its first state.
LEMMA SetGracefulStateDrain ==
  ASSUME DrainInv, SetGracefulState
  PROVE  DrainInv'
<1>1. ActionInv'
  BY StatusWritersInv DEF DrainInv
<1> DEFINE e == Known(kafka.target, NoOp)
           new == WithEntry(e)
           next == [kafka EXCEPT !.pc = "version", !.target = NoState]
<1>2. /\ next \in KafkaWorker /\ next.pc = "version" /\ next.todo = kafka.todo
      /\ next.chosen = kafka.chosen
  BY DrainTypes, StateFacts DEF KafkaWorker, KafkaPcs
<1>3. kafka.target \in Plain /\ e \in Entry
  BY PlainSound DEF DrainInv, ActionInv
<1>4. new \in [Brokers -> Entry]
  BY <1>3, DrainTypes DEF WithEntry
<1>5. \A b \in Brokers : new[b] = IF b \in kafka.chosen THEN e ELSE status[b]
  BY DEF WithEntry
<1>6. UpdateBrokerStatus("graceful", new, next)
  BY DEF SetGracefulState
<1> HIDE DEF new, next
<1>7. /\ kafka.pc = "graceful" /\ kafka'.pc = "version" /\ kafka'.todo = kafka.todo
      /\ kafka'.chosen = kafka.chosen /\ kafka'.copy.status = new
      /\ kafka'.copy.brokers = spec.brokers /\ status' = new
      /\ UNCHANGED <<spec, pods, ops, work, task, holds, scene>> /\ SameScene
  BY <1>2, <1>4, <1>6, UpdateFields
<1>8. \A b \in Brokers : b \in scene.leaving => b \notin kafka.chosen
  BY <1>7 DEF DrainInv, Progresses, Leaves
<1>9. AllOwn(scene, holds, new)
  <2> SUFFICES ASSUME NEW b \in Brokers PROVE Own(scene, holds, b, new[b])
    BY DEF AllOwn
  <2>1. CASE b \in kafka.chosen
    BY <1>3, <1>5, <1>8, <2>1, NewEntries
  <2>2. CASE b \notin kafka.chosen
    BY <1>5, <2>2, DrainTypes DEF AllOwn
  <2> QED BY <2>1, <2>2
<1> HIDE DEF e
<1>10. Progresses'
  <2>1. ASSUME NEW b \in Brokers, b \in scene.leaving PROVE Leaves(b)'
    <3>1. Leaves(b) /\ new[b] = status[b] /\ b \notin kafka.chosen
      BY <1>5, <1>8, <2>1 DEF DrainInv, Progresses
    <3> QED BY <1>7, <3>1 DEF Leaves, Doomed, PodPcs, NoEntry
  <2>2. ASSUME NEW b \in Brokers, b \notin scene.leaving PROVE Stays(b)'
    BY <1>7, <2>2 DEF DrainInv, Progresses, Stays, Doomed, PodPcs
  <2> QED BY <1>7, <2>1, <2>2 DEF Progresses
<1> QED BY <1>1, <1>7, <1>9, <1>10, KafkaKeeps

\* The pass ends.
LEMMA KafkaFinishDrain ==
  ASSUME DrainInv, KafkaFinish
  PROVE  DrainInv'
<1>1. ActionInv'
  BY KafkaFinishInv DEF DrainInv
<1>2. kafka' = KafkaIdle /\ UNCHANGED <<status, spec, pods, ops, work, task, holds>>
  BY DEF KafkaFinish, KafkaRequeue, opVars, envVars
<1>3. SameScene
  BY SpendKeepsScene DEF KafkaFinish, Disturbances, SameScene
<1> QED BY <1>1, <1>2, <1>3, GivesUp

\* Every step of the KafkaCluster controller keeps the invariant.
LEMMA KafkaStepDrain ==
  ASSUME DrainInv, KafkaStep
  PROVE  DrainInv'
  BY KafkaStartDrain, WriteBackupDrain, FindDoomedDrain, MarkDownscaleDrain, ReapNextDrain,
     ReapObjectsDrain, DeleteBrokerStatusDrain, ReorderBrokersDrain, ReconcileKafkaPodDrain,
     PodCreatedDrain, SetGracefulStateDrain, ReadVersionDrain, KafkaFinishDrain
  DEF KafkaStep

-----------------------------------------------------------------------------
(* The CruiseControlTask controller. *)

\* A step that leaves the other worker, the spec and the pods alone.
LEMMA TaskKeeps ==
  ASSUME DrainInv, ActionInv', SameScene, UNCHANGED <<spec, pods, kafka, holds>>,
         Untampered', WorkDone', AllOwn(scene, holds, status'),
         \A b \in Brokers : status'[b] = NoEntry <=> status[b] = NoEntry,
         AllOwn(scene, holds, task'.tasks)
  PROVE  DrainInv'
<1>1. OneWay'
  BY OneWayKept
<1>2. EntriesOwn'
  <2>1. /\ AllOwn(scene', holds, status') /\ AllOwn(scene', holds, kafka.copy.status)
        /\ AllOwn(scene', holds, task'.tasks)
    BY OwnKept, DrainTypes
  <2> QED BY <2>1 DEF EntriesOwn, AllOwn, Own, LeaverEntry, NoEntry, NoState, Up, Down, IsDownscale
<1>3. Progresses'
  <2>1. ASSUME NEW b \in Brokers, b \in scene.leaving PROVE Leaves(b)'
    <3>1. Leaves(b) /\ (status'[b] = NoEntry <=> status[b] = NoEntry)
      BY <2>1 DEF DrainInv, Progresses
    <3> QED BY <3>1 DEF Leaves, Doomed, PodPcs, NoEntry
  <2>2. ASSUME NEW b \in Brokers, b \notin scene.leaving PROVE Stays(b)'
    BY <2>2 DEF DrainInv, Progresses, Stays, Doomed, PodPcs
  <2> QED BY <2>1, <2>2 DEF Progresses, SameScene, DrainInv
<1> QED BY <1>1, <1>2, <1>3 DEF DrainInv

\* A step that leaves the operations and the data alone.
LEMMA OpsKept ==
  ASSUME DrainInv, SameScene, UNCHANGED <<ops, work, holds>>
  PROVE  Untampered' /\ WorkDone'
  BY DEF DrainInv, Untampered, WorkDone, SameScene, Moving

\* An operation that counts as succeeded has been completed.
LEMMA Succeeds ==
  ASSUME DrainInv, NEW o \in OpIds, ops[o].phase # "unborn", StageOf(ops[o]) = "Succeeded"
  PROVE  ops[o].state = "Completed"
<1>1. /\ ops[o].policy = "retry" /\ (ops[o].phase = "gone" => ops[o].state = "Completed")
      /\ ops[o].phase \in {"live", "gone"} /\ ops[o].state \in Operation!TaskStates
  BY DEF DrainInv, Untampered, ActionInv, TypeOK, Operation!LifecycleObject
<1> QED
  BY <1>1 DEF StageOf, Operation!TaskStates, Operation!RunningStates, Operation!EndStates

\* A task takes the stage of its operation: a downscale that succeeds is that of a
\* completed remove_broker, and its brokers hold nothing.
LEMMA FromResultOwn ==
  ASSUME DrainInv, NEW b \in Brokers, NEW t \in Entry, Sound(ops, work, b, t),
         Own(scene, holds, b, t)
  PROVE  Own(scene, holds, b, FromResult(t))
<1>1. CASE ~(t.known /\ t.ref # NoOp)
  BY <1>1 DEF FromResult
<1>2. CASE t.known /\ t.ref # NoOp
  <2>1. /\ t.ref \in OpIds /\ t.state \in States /\ t.state # NoState
        /\ ops[t.ref].phase # "unborn" /\ b \in work[t.ref].brokers
        /\ work[t.ref].kind = Kind(t.state)
    BY <1>2, EntryFacts DEF Sound
  <2>2. StageOf(ops[t.ref]) \in Stages
    BY <2>1, StageOfType DEF DrainInv, ActionInv, TypeOK
  <2> DEFINE s == <<t.state[1], StageOf(ops[t.ref])>>
  <2>3. /\ IsDownscale(s) = IsDownscale(t.state)
        /\ s = Down("Succeeded") => StageOf(ops[t.ref]) = "Succeeded"
    BY DEF IsDownscale, Down
  <2>4. FromResult(t) = [t EXCEPT !.state = s]
    BY <1>2 DEF FromResult
  <2> HIDE DEF s
  <2>5. FromResult(t).known = t.known /\ FromResult(t).state = s
    BY <2>4 DEF Entry
  <2>6. CASE b \notin scene.leaving
    BY <2>3, <2>5, <2>6 DEF Own
  <2>7. CASE b \in scene.leaving
    <3>1. work[t.ref].kind # "add_broker"
      BY <2>1, <2>7 DEF DrainInv, WorkDone
    <3>2. IsDownscale(t.state) /\ work[t.ref].kind = "remove_broker"
      <4>1. ~IsUpscale(t.state)
        BY <2>1, <3>1 DEF Kind
      <4> QED BY <2>1, <4>1 DEF IsDownscale, IsUpscale, States, NoState, Kind
    <3>3. s = Down("Succeeded") => b \notin holds
      BY <2>1, <2>3, <3>2, Succeeds DEF DrainInv, WorkDone
    <3> QED BY <1>2, <2>3, <2>5, <2>7, <3>2, <3>3 DEF Own, LeaverEntry
  <2> QED BY <2>6, <2>7
<1> QED BY <1>1, <1>2

\* The pass of the CruiseControlTask controller reads the cluster.
LEMMA TaskStartDrain ==
  ASSUME DrainInv, TaskStart
  PROVE  DrainInv'
<1>1. ActionInv'
  BY TaskStartInv DEF DrainInv
<1>2. SameScene /\ UNCHANGED <<spec, pods, kafka, holds, status, ops, work>>
  BY DEF TaskStart, apiVars, opVars, envVars, SameScene
<1>3. task'.tasks = [b \in Brokers |-> NoEntry] \/ task'.tasks = ActiveTasks(status)
  BY TaskIdleType DEF TaskStart, TaskWorker
<1>4. AllOwn(scene, holds, ActiveTasks(status))
  BY DrainTypes, NewEntries DEF AllOwn, ActiveTasks
<1> QED BY <1>1, <1>2, <1>3, <1>4, DrainTypes, NoneOwn, OpsKept, TaskKeeps

\* The tasks learn from their operations.
LEMMA TaskListDrain ==
  ASSUME DrainInv, TaskList
  PROVE  DrainInv'
<1>1. ActionInv'
  BY TaskListInv DEF DrainInv
<1>2. SameScene /\ UNCHANGED <<spec, pods, kafka, holds, status, ops, work>>
  BY DEF TaskList, apiVars, opVars, envVars, SameScene
<1> DEFINE tasks == [b \in Brokers |-> FromResult(task.tasks[b])]
<1>3. \A b \in Brokers : Own(scene, holds, b, FromResult(task.tasks[b]))
  BY TaskTypes, DrainTypes, FromResultOwn DEF AllSound, AllOwn
<1>4. AllOwn(scene, holds, tasks)
  BY <1>3 DEF AllOwn
<1>5. \E pc, none : task' = [task EXCEPT !.tasks = tasks, !.copy = none, !.pc = pc]
  BY DEF TaskList
<1> HIDE DEF tasks
<1>6. task'.tasks = tasks
  BY <1>5, DrainTypes, TaskTypes DEF TaskWorker
<1> QED BY <1>1, <1>2, <1>4, <1>6, DrainTypes, OpsKept, TaskKeeps

\* The tasks are written over the entries that are still there; they may be older than the
\* entries, but no broker that was emptied has been filled since.
LEMMA UpdateStatusDrain ==
  ASSUME DrainInv, TaskSync \/ TaskSchedule
  PROVE  DrainInv'
<1>1. ActionInv'
  BY UpdateStatusInv DEF DrainInv
<1>2. /\ SameScene /\ UNCHANGED <<spec, pods, kafka, holds, ops, work>>
      /\ status' = SyncState(status, task.tasks)
      /\ task' = [task EXCEPT !.pc = "plan"] \/ task' = TaskIdle
  BY DEF TaskSync, TaskSchedule, UpdateStatus, Publish, opVars, envVars, SameScene
<1>3. task'.tasks = task.tasks \/ task'.tasks = [b \in Brokers |-> NoEntry]
  BY <1>2, DrainTypes, TaskTypes, TaskIdleType DEF TaskWorker
<1>4. ASSUME NEW b \in Brokers
      PROVE  Own(scene, holds, b, status'[b]) /\ (status'[b] = NoEntry <=> status[b] = NoEntry)
  <2>1. status'[b] = IF status[b].known /\ task.tasks[b].known THEN task.tasks[b] ELSE status[b]
    BY <1>2 DEF SyncState
  <2>2. Own(scene, holds, b, status[b]) /\ Own(scene, holds, b, task.tasks[b])
    BY DrainTypes DEF AllOwn
  <2> QED BY <2>1, <2>2, EntryFacts
<1>5. AllOwn(scene, holds, status')
  BY <1>4 DEF AllOwn
<1> QED BY <1>1, <1>2, <1>3, <1>4, <1>5, DrainTypes, NoneOwn, OpsKept, TaskKeeps

\* An operation is created: an add_broker for brokers that stay, a remove_broker for
\* brokers that leave.
LEMMA CreateDrain ==
  ASSUME DrainInv, ActionInv', NEW kind \in {"add_broker", "remove_broker"}, NEW bs,
         CreateCCOperation(kind, bs), UNCHANGED <<apiVars, envVars, kafka, wakeK, wakeT, scene>>,
         kind = "add_broker" => bs \cap scene.leaving = {},
         kind = "remove_broker" => bs \subseteq scene.leaving
  PROVE  DrainInv'
<1>1. PICK o \in OpIds :
        /\ Operation!Create(o, "retry")
        /\ work' = [work EXCEPT ![o] = [kind |-> kind, brokers |-> bs]]
        /\ task' = [task EXCEPT !.pc = "fill", !.op = o]
  BY DEF CreateCCOperation
<1>2. /\ ops'[o].policy = "retry" /\ ops'[o].state = "" /\ ~ops'[o].deleting
      /\ ops'[o].phase = "live" /\ \A p \in OpIds \ {o} : ops'[p] = ops[p]
  BY <1>1, DrainTypes, CreateFacts
<1>3. /\ work'[o].kind = kind /\ work'[o].brokers = bs
      /\ \A p \in OpIds \ {o} : work'[p] = work[p]
  BY <1>1 DEF DrainInv, ActionInv, TypeOK
<1>4. SameScene /\ UNCHANGED <<spec, pods, kafka, holds, status, scene>>
  BY DEF apiVars, envVars, SameScene
<1>5. Untampered'
  <2> SUFFICES ASSUME NEW p \in OpIds
               PROVE  /\ ops'[p].policy = "retry" /\ ~ops'[p].deleting
                      /\ ops'[p].phase = "gone" => ops'[p].state = "Completed"
    BY DEF Untampered
  <2> QED BY <1>2 DEF DrainInv, Untampered
<1>6. WorkDone'
  <2> SUFFICES ASSUME NEW p \in OpIds
               PROVE  /\ work'[p].kind = "add_broker" =>
                           /\ work'[p].brokers \cap scene.leaving = {}
                           /\ ops'[p].state \in Moving => work'[p].brokers \subseteq holds
                      /\ work'[p].kind = "remove_broker" =>
                           /\ work'[p].brokers \subseteq scene.leaving
                           /\ ops'[p].state = "Completed" => work'[p].brokers \cap holds = {}
    BY <1>4 DEF WorkDone, Moving
  <2>1. CASE p = o
    BY <1>2, <1>3, <2>1 DEF Moving
  <2>2. CASE p # o
    BY <1>2, <1>3, <2>2 DEF DrainInv, WorkDone
  <2> QED BY <2>1, <2>2
<1>7. task'.tasks = task.tasks
  BY <1>1, DrainTypes, TaskTypes DEF TaskWorker
<1> QED BY <1>4, <1>5, <1>6, <1>7, DrainTypes, TaskKeeps

\* The direction of a required action is the way the broker goes.
LEMMA TaskPlanDrain ==
  ASSUME DrainInv, TaskPlan
  PROVE  DrainInv'
<1>1. ActionInv'
  BY TaskPlanInv DEF DrainInv
<1>2. ASSUME NEW b \in RequiredTasks("Upscale") PROVE b \notin scene.leaving
  <2>1. /\ b \in Brokers /\ task.tasks[b].state[1] = "Upscale" /\ task.tasks[b].known
        /\ task.tasks[b].state[2] = "Required"
    BY DEF RequiredTasks, IsRequiredState
  <2>2. task.tasks[b] # NoEntry /\ task.tasks[b].state # Up("Succeeded")
    BY <2>1, EntryFacts DEF Up
  <2>3. ~IsDownscale(task.tasks[b].state)
    BY <2>1 DEF IsDownscale
  <2> QED BY <2>1, <2>2, <2>3, DrainTypes DEF AllOwn, Own, LeaverEntry
<1>3. ASSUME NEW b \in RequiredTasks("Downscale") PROVE b \in scene.leaving
  <2>1. b \in Brokers /\ IsDownscale(task.tasks[b].state)
    BY DEF RequiredTasks, IsDownscale
  <2> QED BY <2>1, DrainTypes DEF AllOwn, Own
<1>4. CASE /\ CreateCCOperation("add_broker", RequiredTasks("Upscale"))
           /\ UNCHANGED <<apiVars, envVars, kafka, wakeK, wakeT, scene>>
  <2>1. RequiredTasks("Upscale") \cap scene.leaving = {}
    BY <1>2
  <2> QED BY <1>1, <1>4, <2>1, CreateDrain
<1>5. CASE /\ \E b \in RequiredTasks("Downscale") : CreateCCOperation("remove_broker", {b})
           /\ UNCHANGED <<apiVars, envVars, kafka, wakeK, wakeT, scene>>
  <2>1. PICK b \in RequiredTasks("Downscale") : CreateCCOperation("remove_broker", {b})
    BY <1>5
  <2>2. {b} \subseteq scene.leaving
    BY <1>3
  <2> QED BY <1>1, <1>5, <2>1, <2>2, CreateDrain
<1>6. CASE task' = TaskIdle /\ UNCHANGED <<apiVars, opVars, envVars, kafka, wakeK, scene>>
  <2>1. SameScene /\ UNCHANGED <<spec, pods, kafka, holds, status, ops, work>>
    BY <1>6 DEF apiVars, opVars, envVars, SameScene
  <2>2. task'.tasks = [b \in Brokers |-> NoEntry]
    BY <1>6, TaskIdleType
  <2> QED BY <1>1, <2>1, <2>2, DrainTypes, NoneOwn, OpsKept, TaskKeeps
<1> QED BY <1>4, <1>5, <1>6 DEF TaskPlan, TaskRequeue

\* The tasks of the new operation refer to it; it has not begun.
LEMMA FillOperationDrain ==
  ASSUME DrainInv, FillOperation
  PROVE  DrainInv'
<1>1. ActionInv'
  BY FillOperationInv DEF DrainInv
<1>2. SameScene /\ UNCHANGED <<spec, pods, kafka, holds, status, work, scene>>
  BY DEF FillOperation, apiVars, envVars, SameScene
<1>3. /\ task.op \in OpIds
      /\ \A b \in work[task.op].brokers :
           /\ task.tasks[b].state # NoState
           /\ work[task.op].kind = Kind(task.tasks[b].state)
  BY TaskTypes DEF FillOperation, DrainInv, ActionInv, FillSound, TaskWorker
<1>4. \A p \in OpIds : /\ ops'[p].policy = ops[p].policy /\ ops'[p].deleting = ops[p].deleting
                       /\ ops'[p].phase = ops[p].phase /\ ops'[p].state = ops[p].state
  <2> DEFINE filled == [ops[task.op] EXCEPT !.set = TRUE]
  <2>1. ops[task.op] \in Operation!LifecycleObject
    BY <1>3 DEF DrainInv, ActionInv, TypeOK
  <2>2. /\ filled.policy = ops[task.op].policy /\ filled.deleting = ops[task.op].deleting
        /\ filled.phase = ops[task.op].phase /\ filled.state = ops[task.op].state
    BY <2>1 DEF Operation!LifecycleObject
  <2>3. ops' = [ops EXCEPT ![task.op] = filled]
    BY DEF FillOperation, Operation!SetTask, Operation!Becomes
  <2> HIDE DEF filled
  <2>4. \A p \in OpIds : ops'[p] = IF p = task.op THEN filled ELSE ops[p]
    BY <2>3 DEF DrainInv, ActionInv, TypeOK
  <2> QED BY <2>2, <2>4
<1>5. Untampered' /\ WorkDone'
  BY <1>2, <1>4 DEF DrainInv, Untampered, WorkDone, Moving
<1> DEFINE tasks == [b \in Brokers |-> IF b \in work[task.op].brokers
                                         THEN Scheduled(task.tasks[b]) ELSE task.tasks[b]]
<1>6. ASSUME NEW b \in Brokers PROVE Own(scene, holds, b, tasks[b])
  <2>1. Own(scene, holds, b, task.tasks[b])
    BY DrainTypes DEF AllOwn
  <2>2. CASE b \notin work[task.op].brokers
    BY <2>1, <2>2
  <2>3. CASE b \in work[task.op].brokers
    <3> DEFINE s == <<task.tasks[b].state[1], "Scheduled">>
    <3>1. task.tasks[b].state \in States /\ task.tasks[b].state # NoState
      BY <1>3, <2>3, DrainTypes, TaskTypes, EntryFacts
    <3>2. s \in States /\ IsDownscale(s) = IsDownscale(task.tasks[b].state)
      BY <3>1, StageChange DEF Stages, IsDownscale
    <3>3. s # Down("Succeeded")
      BY DEF Down
    <3>4. tasks[b] = Known(s, task.op)
      BY <2>3 DEF Scheduled
    <3> HIDE DEF s, tasks
    <3>5. tasks[b].known /\ tasks[b].state = s
      BY <1>3, <3>2, <3>4, EntryFacts
    <3>6. CASE b \notin scene.leaving
      BY <2>1, <3>2, <3>5, <3>6 DEF Own
    <3>7. CASE b \in scene.leaving
      <4>1. work[task.op].kind # "add_broker"
        BY <1>3, <2>3, <3>7 DEF DrainInv, WorkDone
      <4>2. ~IsUpscale(task.tasks[b].state)
        BY <1>3, <2>3, <4>1 DEF Kind
      <4>3. IsDownscale(task.tasks[b].state)
        BY <3>1, <4>2 DEF IsDownscale, IsUpscale, States, NoState
      <4> QED BY <3>2, <3>3, <3>5, <3>7, <4>3 DEF Own, LeaverEntry
    <3> QED BY <3>6, <3>7
  <2> QED BY <2>2, <2>3
<1>7. AllOwn(scene, holds, tasks)
  BY <1>6 DEF AllOwn
<1>8. task' = [task EXCEPT !.pc = "schedule", !.tasks = tasks]
  BY DEF FillOperation
<1> HIDE DEF tasks
<1>9. task'.tasks = tasks
  BY <1>8, DrainTypes, TaskTypes DEF TaskWorker
<1> QED BY <1>1, <1>2, <1>5, <1>7, <1>9, DrainTypes, TaskKeeps

\* Every step of the CruiseControlTask controller keeps the invariant.
LEMMA TaskStepDrain ==
  ASSUME DrainInv, TaskStep
  PROVE  DrainInv'
  BY TaskStartDrain, TaskListDrain, UpdateStatusDrain, TaskPlanDrain, FillOperationDrain
  DEF TaskStep

-----------------------------------------------------------------------------
(* The operations and the surroundings. *)

\* A step that leaves the workers and the cluster alone and gives no data to a
\* broker that leaves.
LEMMA OutsideKeeps ==
  ASSUME DrainInv, ActionInv', SameScene, UNCHANGED <<status, kafka, task>>,
         Untampered', WorkDone', Progresses',
         \A b \in scene.leaving : b \in holds' => b \in holds
  PROVE  DrainInv'
<1>1. OneWay'
  BY OneWayKept
<1>2. ASSUME NEW entries, AllOwn(scene, holds, entries)
      PROVE  AllOwn(scene', holds', entries)
  BY <1>2 DEF AllOwn, Own, LeaverEntry, SameScene
<1>3. EntriesOwn'
  <2>1. /\ AllOwn(scene', holds', status) /\ AllOwn(scene', holds', kafka.copy.status)
        /\ AllOwn(scene', holds', task.tasks)
    BY <1>2, DrainTypes
  <2> QED BY <2>1 DEF EntriesOwn, AllOwn, Own, LeaverEntry, NoEntry, NoState, Up, Down, IsDownscale
<1> QED BY <1>1, <1>3 DEF DrainInv

\* A step that leaves both controllers alone.
LEMMA WorkersKept ==
  ASSUME DrainInv, SameScene, UNCHANGED <<status, kafka, spec, pods>>
  PROVE  Progresses'
<1>1. ASSUME NEW b \in Brokers, b \in scene.leaving PROVE Leaves(b)'
  BY <1>1 DEF DrainInv, Progresses, Leaves, Doomed, PodPcs, NoEntry
<1>2. ASSUME NEW b \in Brokers, b \notin scene.leaving PROVE Stays(b)'
  BY <1>2 DEF DrainInv, Progresses, Stays, Doomed, PodPcs
<1> QED BY <1>1, <1>2 DEF DrainInv, Progresses, SameScene

\* An operation takes a step that no user asked for.
LEMMA OpMoves ==
  ASSUME DrainInv, ActionInv', SameScene, UNCHANGED <<status, kafka, task, spec, pods, work>>,
         NEW o \in OpIds, NEW op, \A p \in OpIds : ops'[p] = IF p = o THEN op ELSE ops[p],
         op.policy = "retry", ~op.deleting, op.phase = "gone" => op.state = "Completed",
         work[o].kind = "add_broker" =>
           (op.state \in Moving => ops[o].state \in Moving \/ work[o].brokers \subseteq holds'),
         work[o].kind = "remove_broker" =>
           (op.state = "Completed" =>
              ops[o].state = "Completed" \/ work[o].brokers \cap holds' = {}),
         \/ holds' = holds
         \/ work[o].kind = "add_broker" /\ holds' = holds \cup work[o].brokers
         \/ work[o].kind = "remove_broker" /\ holds' = holds \ work[o].brokers
  PROVE  DrainInv'
<1>1. Untampered'
  <2> SUFFICES ASSUME NEW p \in OpIds
               PROVE  /\ ops'[p].policy = "retry" /\ ~ops'[p].deleting
                      /\ ops'[p].phase = "gone" => ops'[p].state = "Completed"
    BY DEF Untampered
  <2> QED BY DEF DrainInv, Untampered
<1>2. \A b \in scene.leaving : b \in holds' => b \in holds
  BY DEF DrainInv, WorkDone
<1>3. \A b : b \notin scene.leaving => (b \in holds => b \in holds')
  BY DEF DrainInv, WorkDone
<1>4. WorkDone'
  <2> SUFFICES ASSUME NEW p \in OpIds
               PROVE  /\ work[p].kind = "add_broker" =>
                           /\ work[p].brokers \cap scene.leaving = {}
                           /\ ops'[p].state \in Moving => work[p].brokers \subseteq holds'
                      /\ work[p].kind = "remove_broker" =>
                           /\ work[p].brokers \subseteq scene.leaving
                           /\ ops'[p].state = "Completed" => work[p].brokers \cap holds' = {}
    BY DEF WorkDone, Moving, SameScene
  <2>1. /\ work[p].kind = "add_broker" =>
             /\ work[p].brokers \cap scene.leaving = {}
             /\ ops[p].state \in Moving => work[p].brokers \subseteq holds
        /\ work[p].kind = "remove_broker" =>
             /\ work[p].brokers \subseteq scene.leaving
             /\ ops[p].state = "Completed" => work[p].brokers \cap holds = {}
    BY DEF DrainInv, WorkDone
  <2>2. /\ work[p].kind = "add_broker" =>
             (ops[p].state \in Moving => work[p].brokers \subseteq holds')
        /\ work[p].kind = "remove_broker" =>
             (ops[p].state = "Completed" => work[p].brokers \cap holds' = {})
    BY <1>2, <1>3, <2>1
  <2>3. CASE p = o
    BY <2>1, <2>2, <2>3
  <2>4. CASE p # o
    BY <2>1, <2>2, <2>4
  <2> QED BY <2>3, <2>4
<1> QED BY <1>1, <1>2, <1>4, WorkersKept, OutsideKeeps

\* The operations start, progress, stop or are removed: data moves to brokers that stay and
\* away from brokers that leave.
LEMMA OpStepDrain ==
  ASSUME DrainInv, NEW o \in OpIds,
         OpStarts(o) \/ OpProgresses(o) \/ OpStops(o) \/ OpEdited(o) \/ OpRemoved(o)
  PROVE  DrainInv'
<1>1. ActionInv'
  BY OpStepInv DEF DrainInv
<1>2. UNCHANGED <<status, kafka, task, spec, pods, work>>
  BY DEF OpStarts, OpProgresses, OpStops, OpEdited, OpRemoved, OpChanged, apiVars
<1>3. /\ ops[o] \in Operation!LifecycleObject /\ ops \in [OpIds -> Operation!LifecycleObject]
      /\ ops[o].policy = "retry" /\ ~ops[o].deleting
  BY DEF DrainInv, ActionInv, TypeOK, Untampered
<1>4. CASE OpStarts(o)
  <2>1. PICK op : /\ ops' = [ops EXCEPT ![o] = op]
                  /\ op.policy = ops[o].policy /\ op.deleting = ops[o].deleting
                  /\ op.phase = "live" /\ op.state \in Operation!Begun
    <3>1. ASSUME NEW s \in Operation!Begun, ops[o].phase = "live",
                 ops' = [ops EXCEPT ![o] = [ops[o] EXCEPT !.state = s]]
          PROVE  \E op : /\ ops' = [ops EXCEPT ![o] = op]
                         /\ op.policy = ops[o].policy /\ op.deleting = ops[o].deleting
                         /\ op.phase = "live" /\ op.state \in Operation!Begun
      <4> DEFINE op == [ops[o] EXCEPT !.state = s]
      <4>1. /\ op.policy = ops[o].policy /\ op.deleting = ops[o].deleting
            /\ op.phase = "live" /\ op.state \in Operation!Begun
        BY <1>3, <3>1 DEF Operation!LifecycleObject
      <4> QED BY <3>1, <4>1
    <3>2. ASSUME NEW s \in Operation!Begun, NEW n, ops[o].phase = "live",
                 ops' = [ops EXCEPT ![o] = [ops[o] EXCEPT !.state = s, !.retries = n]]
          PROVE  \E op : /\ ops' = [ops EXCEPT ![o] = op]
                         /\ op.policy = ops[o].policy /\ op.deleting = ops[o].deleting
                         /\ op.phase = "live" /\ op.state \in Operation!Begun
      <4> DEFINE op == [ops[o] EXCEPT !.state = s, !.retries = n]
      <4>1. /\ op.policy = ops[o].policy /\ op.deleting = ops[o].deleting
            /\ op.phase = "live" /\ op.state \in Operation!Begun
        BY <1>3, <3>2 DEF Operation!LifecycleObject
      <4> QED BY <3>2, <4>1
    <3> QED
      BY <1>4, <3>1, <3>2
      DEF OpStarts, Operation!FirstExecution, Operation!RetryExecution, Operation!Becomes
  <2>2. \A p \in OpIds : ops'[p] = IF p = o THEN op ELSE ops[p]
    BY <1>3, <2>1
  <2>3. SameScene
    BY <1>4, SpendKeepsScene DEF OpStarts, Disturbances, SameScene
  <2>4. /\ \/ holds' = holds
           \/ work[o].kind = "add_broker" /\ holds' = holds \cup work[o].brokers
        /\ op.state = "Active" /\ work[o].kind = "add_broker" => work[o].brokers \subseteq holds'
    <3>1. ops'[o] = op
      BY <2>2
    <3> QED BY <1>4, <3>1 DEF OpStarts
  <2>5. op.state \in {"Active", "CompletedWithError"}
    BY <2>1 DEF Operation!Begun
  <2> QED BY <1>1, <1>2, <1>3, <2>1, <2>2, <2>3, <2>4, <2>5, OpMoves DEF Moving
<1>5. CASE OpProgresses(o)
  <2>1. PICK s \in {"InExecution"} \cup Operation!EndStates :
          /\ ops[o].phase = "live" /\ ops[o].state \in Operation!RunningStates
          /\ ops' = [ops EXCEPT ![o] = [ops[o] EXCEPT !.state = s]]
    BY <1>5 DEF OpProgresses, Operation!Progress, Operation!Becomes
  <2> DEFINE op == [ops[o] EXCEPT !.state = s]
  <2>2. /\ op.policy = ops[o].policy /\ op.deleting = ops[o].deleting
        /\ op.phase = "live" /\ op.state = s
    BY <1>3, <2>1 DEF Operation!LifecycleObject
  <2> HIDE DEF op
  <2>3. \A p \in OpIds : ops'[p] = IF p = o THEN op ELSE ops[p]
    BY <1>3, <2>1 DEF op
  <2>4. SameScene
    BY <1>5, SpendKeepsScene DEF OpProgresses, Disturbances, SameScene
  <2>5. holds' = IF work[o].kind = "remove_broker" /\ op.state = "Completed"
                   THEN holds \ work[o].brokers ELSE holds
    <3>1. ops'[o] = op
      BY <2>3
    <3> QED BY <1>3, <1>5, <3>1 DEF OpProgresses
  <2>6. ops[o].state \in Moving
    BY <2>1 DEF Operation!RunningStates, Moving
  <2> QED BY <1>1, <1>2, <1>3, <2>2, <2>3, <2>4, <2>5, <2>6, OpMoves
<1>6. CASE OpStops(o)
  BY <1>3, <1>6 DEF OpStops, Operation!StopExecution
<1>7. CASE OpEdited(o)
  BY <1>7 DEF OpEdited, Spend, DrainInv, OneWay
<1>8. CASE OpRemoved(o)
  <2>1. PICK deleting \in BOOLEAN :
          ops' = [ops EXCEPT ![o] = [ops[o] EXCEPT !.phase = "gone", !.deleting = deleting]]
    BY <1>8 DEF OpRemoved, Operation!Remove, Operation!Becomes
  <2> DEFINE op == [ops[o] EXCEPT !.phase = "gone", !.deleting = deleting]
  <2>2. op.policy = ops[o].policy /\ op.state = ops[o].state
    BY <1>3, <2>1 DEF Operation!LifecycleObject
  <2> HIDE DEF op
  <2>3. \A p \in OpIds : ops'[p] = IF p = o THEN op ELSE ops[p]
    BY <1>3, <2>1 DEF op
  <2>4. op.deleting = ops[o].deleting
    BY <1>8, <2>3 DEF OpRemoved
  <2>5. ops[o].state = "Completed"
    BY <1>3, <1>8 DEF OpRemoved
  <2>6. SameScene /\ holds' = holds
    BY <1>8 DEF OpRemoved, SameScene
  <2> QED BY <1>1, <1>2, <1>3, <2>2, <2>3, <2>4, <2>5, <2>6, OpMoves DEF Moving
<1> QED BY <1>4, <1>5, <1>6, <1>7, <1>8

\* A user edits the spec: a broker that leaves does not come back.
LEMMA EditDrain ==
  ASSUME DrainInv, Edit
  PROVE  DrainInv'
<1>1. ActionInv'
  BY EditInv DEF DrainInv
<1>2. SameScene /\ UNCHANGED <<status, pods, ops, work, kafka, task, holds>>
  BY SpendKeepsScene DEF Edit, Disturbances, opVars, envVars
<1>3. /\ \A b \in scene.leaving : b \in spec'.brokers => b \in spec.brokers
      /\ \A b \in Brokers : b \notin scene.leaving => (b \in spec.brokers => b \in spec'.brokers)
  <2>1. spec \in [brokers : SUBSET Brokers, headless : BOOLEAN]
    BY DEF DrainInv, ActionInv, TypeOK
  <2>2. CASE spec' = [spec EXCEPT !.headless = ~@]
    BY <2>1, <2>2
  <2>3. ASSUME NEW c \in scene.joining, spec' = [spec EXCEPT !.brokers = @ \cup {c}]
        PROVE  /\ \A b \in scene.leaving : b \in spec'.brokers => b \in spec.brokers
               /\ \A b \in Brokers : b \in spec.brokers => b \in spec'.brokers
    <3>1. c \notin scene.leaving /\ spec'.brokers = spec.brokers \cup {c}
      BY <2>1, <2>3 DEF DrainInv, OneWay
    <3> QED BY <3>1
  <2>4. ASSUME NEW c \in scene.leaving, spec' = [spec EXCEPT !.brokers = @ \ {c}]
        PROVE  /\ \A b \in scene.leaving : b \in spec'.brokers => b \in spec.brokers
               /\ \A b \in Brokers : b \notin scene.leaving =>
                    (b \in spec.brokers => b \in spec'.brokers)
    <3>1. spec'.brokers = spec.brokers \ {c}
      BY <2>1, <2>4
    <3> QED BY <3>1
  <2> QED BY <2>2, <2>3, <2>4 DEF Edit
<1>4. Progresses'
  <2>1. ASSUME NEW b \in Brokers, b \in scene.leaving PROVE Leaves(b)'
    BY <1>2, <1>3, <2>1 DEF DrainInv, Progresses, Leaves, Doomed, PodPcs, NoEntry
  <2>2. ASSUME NEW b \in Brokers, b \notin scene.leaving PROVE Stays(b)'
    BY <1>2, <1>3, <2>2 DEF DrainInv, Progresses, Stays, Doomed, PodPcs
  <2> QED BY <1>2, <2>1, <2>2 DEF DrainInv, Progresses, SameScene
<1> QED BY <1>1, <1>2, <1>4, OpsKept, OutsideKeeps

\* Pods come and go; none comes back without the KafkaCluster controller.
LEMMA PodsDrain ==
  ASSUME DrainInv, NEW c \in Brokers, Evict(c) \/ PodGone(c) \/ ComesUp(c) \/ GoesDown(c)
  PROVE  DrainInv'
<1>1. ActionInv'
  BY PodsInv DEF DrainInv
<1>2. SameScene /\ UNCHANGED <<status, spec, ops, work, kafka, task, holds>>
  BY SpendKeepsScene
  DEF Evict, PodGone, ComesUp, GoesDown, Disturbances, apiVars, opVars, envVars, SameScene
<1>3. \A b \in Brokers : /\ pods'[b] = "running" => pods[b] = "running"
                         /\ pods'[b] # "none" => pods[b] # "none"
  <2>1. \A b \in Brokers : pods'[b] = pods[b] \/ pods'[b] = "none"
                             \/ (pods[b] = "running" /\ pods'[b] = "terminating")
    BY DrainTypes DEF Evict, PodGone, ComesUp, GoesDown, apiVars
  <2> QED BY <2>1
<1>4. Progresses'
  <2>1. ASSUME NEW b \in Brokers, b \in scene.leaving PROVE Leaves(b)'
    BY <1>2, <1>3, <2>1 DEF DrainInv, Progresses, Leaves, Doomed, PodPcs, NoEntry
  <2>2. ASSUME NEW b \in Brokers, b \notin scene.leaving PROVE Stays(b)'
    BY <1>2, <1>3, <2>2 DEF DrainInv, Progresses, Stays, Doomed, PodPcs
  <2> QED BY <1>2, <2>1, <2>2 DEF DrainInv, Progresses, SameScene
<1> QED BY <1>1, <1>2, <1>4, OpsKept, OutsideKeeps

\* A pass of a controller fails.
LEMMA FailuresDrain ==
  ASSUME DrainInv, KafkaFails \/ TaskFails
  PROVE  DrainInv'
<1>1. ActionInv'
  BY FailuresInv DEF DrainInv
<1>2. SameScene
  BY SpendKeepsScene DEF KafkaFails, TaskFails, Disturbances
<1>3. CASE KafkaFails
  BY <1>1, <1>2, <1>3, GivesUp DEF KafkaFails, KafkaRequeue, apiVars, opVars, envVars
<1>4. CASE TaskFails
  <2>1. UNCHANGED <<spec, pods, kafka, holds, status, ops, work>>
    BY <1>4 DEF TaskFails, apiVars, opVars, envVars
  <2>2. task'.tasks = [b \in Brokers |-> NoEntry]
    BY <1>4, TaskIdleType DEF TaskFails, TaskRequeue
  <2> QED BY <1>1, <1>2, <2>1, <2>2, DrainTypes, NoneOwn, OpsKept, TaskKeeps
<1> QED BY <1>3, <1>4

\* Every step keeps the invariant.
LEMMA DrainNext == DrainInv /\ [Next]_vars => DrainInv'
<1> SUFFICES ASSUME DrainInv, [Next]_vars PROVE DrainInv'
  OBVIOUS
<1>1. CASE Next
  BY <1>1, KafkaStepDrain, TaskStepDrain, EditDrain, FailuresDrain, PodsDrain, OpStepDrain
  DEF Next, Surroundings
<1>2. CASE UNCHANGED vars
  <2>1. SameScene /\ UNCHANGED <<status, spec, pods, ops, work, kafka, task, holds>>
    BY <1>2 DEF vars, apiVars, opVars, envVars, SameScene
  <2>2. ActionInv'
    BY NextInv DEF DrainInv
  <2> QED BY <2>1, <2>2, OpsKept, WorkersKept, OutsideKeeps
<1> QED BY <1>1, <1>2

\* The invariant holds at the start.
LEMMA DrainInit == Init /\ OneWay => DrainInv
<1> SUFFICES ASSUME Init, OneWay PROVE DrainInv
  OBVIOUS
<1>1. ActionInv
  BY InitInv
<1>2. Untampered /\ WorkDone
  <2>1. /\ Operation!View(Operation!Unborn).policy = "retry"
        /\ Operation!View(Operation!Unborn).deleting = FALSE
        /\ Operation!View(Operation!Unborn).phase = "unborn"
    BY DEF Operation!View, Operation!Unborn
  <2>2. \A o \in OpIds : ops[o] = Operation!View(Operation!Unborn) /\ work[o].kind = ""
    BY DEF Init, Operation!LifecycleInit
  <2> QED BY <2>1, <2>2 DEF Untampered, WorkDone
<1>3. \A b \in Brokers : status[b] = IF b \in scene.init THEN Known(Up("Succeeded"), NoOp)
                                                         ELSE NoEntry
  BY DEF Init
<1>4. /\ Known(Up("Succeeded"), NoOp) # NoEntry /\ Known(Up("Succeeded"), NoOp).known
      /\ Known(Up("Succeeded"), NoOp).state = Up("Succeeded")
  BY StateFacts, EntryFacts DEF Stages
<1>5. ~IsDownscale(Up("Succeeded")) /\ Up("Succeeded") # Down("Succeeded")
  BY DEF IsDownscale, Up, Down
<1>6. AllOwn(scene, holds, status)
  <2> SUFFICES ASSUME NEW b \in Brokers PROVE Own(scene, holds, b, status[b])
    BY DEF AllOwn
  <2>1. CASE b \in scene.init
    BY <1>3, <1>4, <1>5, <2>1 DEF Own, LeaverEntry
  <2>2. CASE b \notin scene.init
    BY <1>3, <2>2, NewEntries
  <2> QED BY <2>1, <2>2
<1>7. EntriesOwn
  <2>1. kafka.copy.status = [b \in Brokers |-> NoEntry] /\ task.tasks = [b \in Brokers |-> NoEntry]
    BY KafkaIdleType, TaskIdleType DEF Init
  <2> QED BY <1>6, <2>1, NoneOwn DEF EntriesOwn
<1>8. Progresses
  <2>1. kafka.pc = "idle" /\ kafka.copy.brokers = {} /\ spec.brokers = scene.init
    BY KafkaIdleType DEF Init, KafkaIdle, NoCluster
  <2>2. \A b \in Brokers : pods[b] # "none" => b \in scene.init
    BY DEF Init
  <2>3. \A b \in Brokers : Leaves(b)
    BY <1>3, <1>4, <2>1, <2>2 DEF Leaves, Doomed, PodPcs
  <2>4. \A b \in Brokers : Stays(b)
    BY <2>1, <2>2 DEF Stays, Doomed, PodPcs
  <2> QED BY <2>1, <2>3, <2>4 DEF Progresses
<1> QED BY <1>1, <1>2, <1>7, <1>8 DEF DrainInv

\* The invariant holds in every state of a behaviour that starts OneWay.
LEMMA DrainInvariance == Spec /\ OneWay => []DrainInv
  BY DrainInit, DrainNext, PTL DEF Spec

\* A pod is only taken away from a broker that holds nothing: MayGo lets a broker go that
\* has no entry, whose upscale is still to be asked for or whose downscale succeeded, and a
\* broker that leaves and has a pod is never in the first two cases.
LEMMA ReapsDrained ==
  ASSUME DrainInv, [Next]_vars, NEW b \in Brokers, Reaps(b)
  PROVE  b \notin holds
<1>1. kafka.pc = "reap" /\ kafka'.pc = "objects" /\ kafka'.chosen = {b}
  BY DEF Reaps
<1>2. kafka \in KafkaWorker
  BY DrainTypes
<1>3. b \in kafka.todo /\ MayGo(b)
  <2>1. CASE ReapNext
    <3>1. [kafka EXCEPT !.pc = "ensure"].pc = "ensure"
      BY <1>2 DEF KafkaWorker
    <3>2. \A c : [kafka EXCEPT !.todo = kafka.todo \ {c}].pc = "reap"
      BY <1>1, <1>2 DEF KafkaWorker
    <3>3. PICK c \in kafka.todo :
            /\ MayGo(c)
            /\ kafka' = [kafka EXCEPT !.pc = "objects", !.todo = @ \ {c}, !.chosen = {c}]
      BY <1>1, <2>1, <3>1, <3>2, KafkaIdleType DEF ReapNext, KafkaRequeue
    <3>4. kafka'.chosen = {c}
      BY <1>2, <3>3 DEF KafkaWorker
    <3> QED BY <1>1, <3>3, <3>4
  <2>2. CASE kafka' = kafka
    BY <1>1, <2>2
  <2>3. CASE kafka' = KafkaIdle
    BY <1>1, <2>3, KafkaIdleType
  <2>4. CASE KafkaStep /\ ~ReapNext
    BY <1>1, <2>4
    DEF KafkaStep, KafkaStart, WriteBackup, FindDoomed, MarkDownscale, ReapObjects,
        DeleteBrokerStatus, ReorderBrokers, ReconcileKafkaPod, PodCreated, SetGracefulState,
        ReadVersion, KafkaFinish, UpdateBrokerStatus
  <2>5. CASE TaskStep
    BY <2>2, <2>5 DEF TaskStep, TaskStart, TaskList, TaskSync, TaskPlan, FillOperation,
                      TaskSchedule, UpdateStatus
  <2>6. CASE Surroundings
    BY <2>2, <2>3, <2>6
    DEF Surroundings, Edit, KafkaFails, KafkaRequeue, TaskFails, Evict, PodGone, ComesUp,
        GoesDown, OpStarts, OpProgresses, OpStops, OpEdited, OpRemoved, OpChanged
  <2> QED BY <2>1, <2>2, <2>4, <2>5, <2>6 DEF Next, vars
<1>4. b \in scene.leaving
  BY <1>1, <1>3 DEF DrainInv, Progresses, Stays, Doomed
<1>5. kafka.copy.status[b] # NoEntry
  BY <1>1, <1>3, <1>4 DEF DrainInv, Progresses, Leaves, Doomed
<1>6. LeaverEntry(scene.init, holds, b, kafka.copy.status[b])
  BY <1>4, DrainTypes DEF AllOwn, Own
<1>7. Up("Required") # Up("Succeeded") /\ ~IsDownscale(Up("Required"))
  BY DEF Up, IsDownscale
<1> QED BY <1>3, <1>5, <1>6, <1>7 DEF LeaverEntry, MayGo

\* NoDataLost for any brokers, any number of operations and any failures, evictions and
\* errors of Cruise Control: reconcileKafkaPodDelete looks at a state that may have been
\* read long ago, and yet the broker whose pod and claim it deletes holds no partitions. A
\* broker that leaves and comes back, and operations that users edit, are left to the model
\* checker.
THEOREM NoDataLostHolds == Spec /\ OneWay => NoDataLost
<1>1. DrainInv /\ [Next]_vars =>
        [\A b \in Brokers :
           Reaps(b) /\ Untouched(kafka.copy.status[b].ref) => b \notin holds]_vars
  BY ReapsDrained
<1> QED BY <1>1, DrainInvariance, PTL DEF Spec, NoDataLost

-----------------------------------------------------------------------------
(* Brokers that join. *)

\* A broker that counts as upscaled has been given data.
Raised(sc, h, b, e) == b \notin sc.leaving /\ e.state = Up("Succeeded") => b \in h

\* All entries of a status, or of a copy of one.
AllRaised(sc, h, entries) == \A b \in Brokers : Raised(sc, h, b, entries[b])

\* The inductive invariant behind UpscaledByCruiseControl: once a cluster has run, its
\* Cruise Control topic is there and the KafkaCluster controller never calls a new broker
\* upscaled by itself.
UpInv ==
  /\ scene.budget["topic"] = 0
  /\ scene.init # {} =>
       /\ topicReady /\ kafka.target # Up("Succeeded")
       /\ AllRaised(scene, holds, status) /\ AllRaised(scene, holds, task.tasks)

\* A step, by what it must keep.
LEMMA UpKeeps ==
  ASSUME DrainInv, UpInv, SameScene, scene'.budget["topic"] = 0,
         scene.init # {} =>
           /\ topicReady' /\ kafka'.target # Up("Succeeded")
           /\ AllRaised(scene, holds, status') /\ AllRaised(scene, holds, task'.tasks),
         \A b \in Brokers : b \notin scene.leaving => (b \in holds => b \in holds')
  PROVE  UpInv'
<1>1. ASSUME NEW entries, AllRaised(scene, holds, entries)
      PROVE  AllRaised(scene', holds', entries)
  BY <1>1 DEF AllRaised, Raised, SameScene
<1>2. scene.init # {} =>
        AllRaised(scene', holds', status') /\ AllRaised(scene', holds', task'.tasks)
  BY <1>1
<1> QED BY <1>2 DEF UpInv, SameScene, AllRaised, Raised, Up

\* The topic of Cruise Control does not get lost.
LEMMA TopicSpent ==
  ASSUME DrainInv, UpInv,
         scene' = scene \/ \E d \in Disturbances \ {"opEdits"} : Spend(d)
  PROVE  SameScene /\ scene'.budget["topic"] = 0
<1>1. CASE scene' = scene
  BY <1>1 DEF SameScene, UpInv
<1>2. ASSUME NEW d \in Disturbances \ {"opEdits"}, Spend(d)
      PROVE  SameScene /\ scene'.budget["topic"] = 0
  <2>1. scene' \in Scene /\ scene'.budget["topic"] <= scene.budget["topic"]
    BY <1>2, SpendType DEF DrainInv, Disturbances
  <2>2. scene'.budget["topic"] \in Nat
    BY <2>1 DEF Scene, Disturbances
  <2> QED BY <1>2, <2>1, <2>2, SpendKeepsScene DEF UpInv
<1> QED BY <1>1, <1>2

\* Entries that do not count as upscaled.
LEMMA NoneRaised ==
  ASSUME NEW sc, NEW h
  PROVE  /\ AllRaised(sc, h, [b \in Brokers |-> NoEntry])
         /\ \A b : /\ Raised(sc, h, b, NoEntry)
                   /\ Raised(sc, h, b, Known(Down("Required"), NoOp))
                   /\ \A s \in Plain : s # Up("Succeeded") => Raised(sc, h, b, Known(s, NoOp))
<1>a. NoState # Up("Succeeded") /\ Down("Required") # Up("Succeeded")
  BY DEF NoState, Up, Down
<1>1. NoEntry.state # Up("Succeeded") /\ Down("Required") # Up("Succeeded")
  BY <1>a, EntryFacts
<1>2. Known(Down("Required"), NoOp).state = Down("Required")
  BY StateFacts, EntryFacts DEF Stages
<1>3. \A s \in Plain : Known(s, NoOp).state = s
  BY StateFacts, EntryFacts
<1> QED BY <1>1, <1>2, <1>3 DEF AllRaised, Raised

\* A step of the KafkaCluster controller that leaves the status, or gives up.
LEMMA KafkaQuietUp ==
  ASSUME DrainInv, UpInv, UNCHANGED <<status, task, holds>>,
         scene' = scene \/ \E d \in Disturbances \ {"opEdits"} : Spend(d),
         topicReady => topicReady',
         kafka'.target = kafka.target \/ kafka' = KafkaIdle
  PROVE  UpInv'
<1>a. NoState # Up("Succeeded")
  BY DEF NoState, Up
<1>1. kafka'.target # Up("Succeeded") \/ kafka'.target = kafka.target
  BY <1>a, KafkaIdleType
<1> QED BY <1>1, TopicSpent, UpKeeps DEF UpInv

\* Entries that keep the states of the status.
LEMMA SameStates ==
  ASSUME DrainInv, UpInv, scene.init # {}, NEW new,
         \A b \in Brokers : new[b].state = status[b].state
  PROVE  AllRaised(scene, holds, new)
  BY DEF UpInv, AllRaised, Raised

\* A write of another field leaves the states alone.
LEMMA WithFieldStates ==
  ASSUME DrainInv
  PROVE  \A b \in Brokers : WithField[b].state = status[b].state
<1> SUFFICES ASSUME NEW b \in Brokers PROVE WithField[b].state = status[b].state
  OBVIOUS
<1>1. status[b] \in Entry
  BY DrainTypes
<1>2. [status[b] EXCEPT !.known = TRUE].state = status[b].state
  BY <1>1, EntryFacts
<1> QED BY <1>2 DEF WithField

\* The fields of the brokers in the spec are written.
LEMMA WriteBackupUp ==
  ASSUME DrainInv, UpInv, WriteBackup
  PROVE  UpInv'
<1> DEFINE new == [b \in Brokers |-> IF b \in kafka.copy.brokers
                     THEN [kafka.copy.status[b] EXCEPT !.known = TRUE]
                     ELSE kafka.copy.status[b]]
<1>1. \E c : kafka' = [kafka EXCEPT !.pc = "doomed", !.copy = c]
  BY DEF WriteBackup
<1>2. kafka'.target = kafka.target
  BY <1>1, DrainTypes DEF KafkaWorker
<1>3. status' = status \/ (status' = new /\ kafka.copy.status = status)
  BY DrainTypes, ClusterCopy DEF WriteBackup, Publish
<1>4. \A b \in Brokers : new[b].state = kafka.copy.status[b].state
  BY DrainTypes, EntryFacts
<1> HIDE DEF new
<1>5. \A b \in Brokers : status'[b].state = status[b].state
  BY <1>3, <1>4
<1>6. UNCHANGED <<task, holds, scene, topicReady>>
  BY DEF WriteBackup, envVars
<1> QED BY <1>2, <1>5, <1>6, SameStates, TopicSpent, UpKeeps DEF UpInv

\* The KafkaCluster controller sets a state: never that of a success.
LEMMA StatusWritersUp ==
  ASSUME DrainInv, UpInv, MarkDownscale \/ DeleteBrokerStatus \/ SetGracefulState
  PROVE  UpInv'
<1>1. ASSUME NEW at, NEW e \in Entry, NEW next \in KafkaWorker,
             UpdateBrokerStatus(at, WithEntry(e), next),
             scene.init # {} => /\ next.target # Up("Succeeded")
                                /\ \A b \in Brokers : Raised(scene, holds, b, e)
      PROVE  UpInv'
  <2>1. WithEntry(e) \in [Brokers -> Entry]
    BY DrainTypes DEF WithEntry
  <2>2. /\ kafka'.target = next.target /\ status' = WithEntry(e)
        /\ UNCHANGED <<task, holds, scene, topicReady>>
    BY <1>1, <2>1, UpdateFields
  <2>3. scene.init # {} => AllRaised(scene, holds, WithEntry(e))
    BY <1>1 DEF UpInv, AllRaised, WithEntry
  <2> QED BY <1>1, <2>2, <2>3, TopicSpent, UpKeeps DEF UpInv
<1>2. CASE MarkDownscale
  <2> DEFINE next == [kafka EXCEPT !.pc = "reap", !.chosen = {}]
  <2>1. next \in KafkaWorker /\ next.target = kafka.target
    BY DrainTypes DEF KafkaWorker, KafkaPcs
  <2>2. Known(Down("Required"), NoOp) \in Entry
    BY PlainSound
  <2>3. UpdateBrokerStatus("mark", WithEntry(Known(Down("Required"), NoOp)), next)
    BY <1>2 DEF MarkDownscale
  <2> HIDE DEF next
  <2> QED BY <1>1, <2>1, <2>2, <2>3, NoneRaised DEF UpInv
<1>3. CASE DeleteBrokerStatus
  <2> DEFINE next == [kafka EXCEPT !.pc = "reap", !.chosen = {}]
  <2>1. next \in KafkaWorker /\ next.target = kafka.target
    BY DrainTypes DEF KafkaWorker, KafkaPcs
  <2>2. UpdateBrokerStatus("forget", WithEntry(NoEntry), next)
    BY <1>3 DEF DeleteBrokerStatus
  <2> HIDE DEF next
  <2> QED BY <1>1, <2>1, <2>2, EntryFacts, NoneRaised DEF UpInv
<1>4. CASE SetGracefulState
  <2> DEFINE next == [kafka EXCEPT !.pc = "version", !.target = NoState]
  <2>1. next \in KafkaWorker /\ next.target = NoState
    BY DrainTypes, StateFacts DEF KafkaWorker, KafkaPcs
  <2>2. kafka.target \in Plain /\ Known(kafka.target, NoOp) \in Entry
    BY PlainSound DEF DrainInv, ActionInv
  <2>3. UpdateBrokerStatus("graceful", WithEntry(Known(kafka.target, NoOp)), next)
    BY <1>4 DEF SetGracefulState
  <2>4. NoState # Up("Succeeded")
    BY DEF NoState, Up
  <2> HIDE DEF next
  <2> QED BY <1>1, <2>1, <2>2, <2>3, <2>4, NoneRaised DEF UpInv
<1> QED BY <1>2, <1>3, <1>4

\* A field of a broker is written, and the target of a new broker chosen.
LEMMA FieldWritersUp ==
  ASSUME DrainInv, UpInv, PodCreated \/ ReadVersion
  PROVE  UpInv'
<1>1. ASSUME NEW at, NEW next \in KafkaWorker, UpdateBrokerStatus(at, WithField, next),
             scene.init # {} => next.target # Up("Succeeded")
      PROVE  UpInv'
  <2>1. WithField \in [Brokers -> Entry]
    BY WithFieldSound DEF DrainInv
  <2>2. /\ kafka'.target = next.target /\ status' = WithField
        /\ UNCHANGED <<task, holds, scene, topicReady>>
    BY <1>1, <2>1, UpdateFields
  <2>3. scene.init # {} => AllRaised(scene, holds, WithField)
    BY WithFieldStates, SameStates
  <2> QED BY <1>1, <2>2, <2>3, TopicSpent, UpKeeps DEF UpInv
<1>2. CASE PodCreated
  <2> DEFINE asked == [kafka EXCEPT !.pc = "graceful", !.target = NewPodState(Cluster)]
             settled == [kafka EXCEPT !.pc = "version"]
  <2>1. NewPodState(Cluster) \in States
    BY StateFacts DEF NewPodState, Plain
  <2>2. asked \in KafkaWorker /\ asked.target = NewPodState(Cluster)
    BY <2>1, DrainTypes DEF KafkaWorker, KafkaPcs
  <2>3. settled \in KafkaWorker /\ settled.target = kafka.target
    BY DrainTypes DEF KafkaWorker, KafkaPcs
  <2>4. \/ UpdateBrokerStatus("created", WithField, asked)
        \/ UpdateBrokerStatus("created", WithField, settled)
    BY <1>2 DEF PodCreated
  <2>5. scene.init # {} => NewPodState(Cluster) # Up("Succeeded")
    BY DrainTypes, ClusterCopy DEF NewPodState, UpInv, Up
  <2> HIDE DEF asked, settled
  <2> QED BY <1>1, <2>2, <2>3, <2>4, <2>5 DEF UpInv
<1>3. CASE ReadVersion
  <2> DEFINE next == [kafka EXCEPT !.pc = "pods", !.chosen = {}]
  <2>1. next \in KafkaWorker /\ next.target = kafka.target
    BY DrainTypes DEF KafkaWorker, KafkaPcs
  <2>2. CASE UpdateBrokerStatus("version", WithField, next)
    <3> HIDE DEF next
    <3> QED BY <1>1, <2>1, <2>2 DEF UpInv
  <2>3. CASE KafkaRequeue /\ UNCHANGED <<apiVars, opVars, envVars, task, wakeT, scene>>
    BY <2>3, KafkaQuietUp DEF KafkaRequeue, apiVars, envVars
  <2> QED BY <1>3, <2>2, <2>3 DEF ReadVersion
<1> QED BY <1>2, <1>3

\* The rest of the pass.
LEMMA KafkaMovesUp ==
  ASSUME DrainInv, UpInv,
         \/ KafkaStart \/ FindDoomed \/ ReapNext \/ ReapObjects \/ ReorderBrokers
         \/ ReconcileKafkaPod \/ KafkaFinish \/ KafkaFails
  PROVE  UpInv'
<1>1. UNCHANGED <<status, task, holds>>
  BY DEF KafkaStart, FindDoomed, ReapNext, ReapObjects, ReorderBrokers, ReconcileKafkaPod,
         KafkaFinish, KafkaFails, apiVars, envVars
<1>2. CASE KafkaFinish
  <2>1. ~Spend("topic")
    BY DEF Spend, UpInv
  <2>2. topicReady' /\ kafka' = KafkaIdle /\ scene' = scene
    BY <1>2, <2>1 DEF KafkaFinish
  <2> QED BY <1>1, <2>2, KafkaQuietUp
<1>3. CASE KafkaFails
  BY <1>1, <1>3, KafkaQuietUp DEF KafkaFails, KafkaRequeue, Disturbances, apiVars
<1>4. CASE ReorderBrokers
  <2>1. \E todo, rank : kafka' = [kafka EXCEPT !.pc = "pods", !.todo = todo, !.rank = rank]
    BY <1>4, Zenon DEF ReorderBrokers
  <2>2. kafka'.target = kafka.target
    BY <2>1, DrainTypes DEF KafkaWorker
  <2> QED BY <1>1, <1>4, <2>2, KafkaQuietUp DEF ReorderBrokers
<1>5. CASE KafkaStart
  <2>1. kafka'.target = kafka.target /\ UNCHANGED <<scene, topicReady>>
    BY <1>5, DrainTypes DEF KafkaStart, KafkaWorker, apiVars
  <2> QED BY <1>1, <2>1, KafkaQuietUp
<1>6. CASE FindDoomed
  <2>1. \E pc, todo, chosen :
          kafka' = [kafka EXCEPT !.pc = pc, !.todo = todo, !.chosen = chosen]
    BY <1>6 DEF FindDoomed
  <2>2. kafka'.target = kafka.target /\ UNCHANGED <<scene, topicReady>>
    BY <1>6, <2>1, DrainTypes DEF FindDoomed, KafkaWorker, apiVars
  <2> QED BY <1>1, <2>2, KafkaQuietUp
<1>7. CASE ReapNext
  <2>1. kafka'.target = kafka.target \/ kafka' = KafkaIdle
    BY <1>7, DrainTypes DEF ReapNext, KafkaRequeue, KafkaWorker
  <2> QED BY <1>1, <1>7, <2>1, KafkaQuietUp DEF ReapNext
<1>8. CASE ReapObjects
  <2>1. kafka'.target = kafka.target \/ kafka' = KafkaIdle
    BY <1>8, DrainTypes DEF ReapObjects, KafkaRequeue, KafkaWorker
  <2> QED BY <1>1, <1>8, <2>1, KafkaQuietUp DEF ReapObjects
<1>9. CASE ReconcileKafkaPod
  <2>1. kafka'.target = kafka.target \/ kafka' = KafkaIdle
    BY <1>9, DrainTypes DEF ReconcileKafkaPod, KafkaRequeue, KafkaWorker
  <2> QED BY <1>1, <1>9, <2>1, KafkaQuietUp DEF ReconcileKafkaPod
<1> QED BY <1>2, <1>3, <1>4, <1>5, <1>6, <1>7, <1>8, <1>9

\* FromResult lets an upscale succeed only when its operation gave the broker data.
LEMMA FromResultRaised ==
  ASSUME DrainInv, NEW b \in Brokers, NEW t \in Entry, Sound(ops, work, b, t),
         Raised(scene, holds, b, t)
  PROVE  Raised(scene, holds, b, FromResult(t))
<1>1. CASE ~(t.known /\ t.ref # NoOp)
  BY <1>1 DEF FromResult
<1>2. CASE t.known /\ t.ref # NoOp
  <2>1. /\ t.ref \in OpIds /\ ops[t.ref].phase # "unborn" /\ b \in work[t.ref].brokers
        /\ work[t.ref].kind = Kind(t.state)
    BY <1>2, EntryFacts DEF Sound
  <2> DEFINE s == <<t.state[1], StageOf(ops[t.ref])>>
  <2>2. s = Up("Succeeded") =>
          t.state[1] = "Upscale" /\ StageOf(ops[t.ref]) = "Succeeded"
    BY DEF Up
  <2>3. FromResult(t) = [t EXCEPT !.state = s]
    BY <1>2 DEF FromResult
  <2> HIDE DEF s
  <2>4. FromResult(t).state = s
    BY <2>3 DEF Entry
  <2>5. ASSUME s = Up("Succeeded") PROVE b \in holds
    <3>1. work[t.ref].kind = "add_broker"
      BY <2>1, <2>2, <2>5 DEF Kind, IsUpscale
    <3>2. ops[t.ref].state = "Completed"
      BY <2>1, <2>2, <2>5, Succeeds
    <3> QED BY <2>1, <3>1, <3>2 DEF DrainInv, WorkDone, Moving
  <2> QED BY <2>4, <2>5 DEF Raised
<1> QED BY <1>1, <1>2

\* A step of the CruiseControlTask controller.
LEMMA TaskMovesUp ==
  ASSUME DrainInv, UpInv, UNCHANGED <<kafka, holds, topicReady>>,
         scene' = scene \/ \E d \in Disturbances \ {"opEdits"} : Spend(d),
         scene.init # {} =>
           AllRaised(scene, holds, status') /\ AllRaised(scene, holds, task'.tasks)
  PROVE  UpInv'
  BY TopicSpent, UpKeeps DEF UpInv

\* A task that counts as upscaled has an add_broker that completed, or was upscaled before.
LEMMA TaskStepUp ==
  ASSUME DrainInv, UpInv, TaskStep \/ TaskFails
  PROVE  UpInv'
<1>1. /\ UNCHANGED <<kafka, holds, topicReady>>
      /\ scene' = scene \/ \E d \in Disturbances \ {"opEdits"} : Spend(d)
  BY DEF TaskStep, TaskStart, TaskList, TaskSync, TaskPlan, FillOperation, TaskSchedule,
         UpdateStatus, TaskFails, apiVars, envVars, Disturbances
<1>2. ASSUME task' = TaskIdle, status' = status PROVE UpInv'
  <2>1. task'.tasks = [b \in Brokers |-> NoEntry]
    BY <1>2, TaskIdleType
  <2> QED BY <1>1, <1>2, <2>1, NoneRaised, TaskMovesUp DEF UpInv
<1>3. CASE TaskStart
  <2>1. task'.tasks = [b \in Brokers |-> NoEntry] \/ task'.tasks = ActiveTasks(status)
    BY <1>3, TaskIdleType DEF TaskStart, TaskWorker
  <2>2. scene.init # {} => AllRaised(scene, holds, ActiveTasks(status))
    BY NoneRaised DEF UpInv, AllRaised, ActiveTasks
  <2> QED BY <1>1, <1>3, <2>1, <2>2, NoneRaised, TaskMovesUp DEF UpInv, TaskStart, apiVars
<1>4. CASE TaskList
  <2> DEFINE tasks == [b \in Brokers |-> FromResult(task.tasks[b])]
  <2>1. scene.init # {} => AllRaised(scene, holds, tasks)
    <3>1. scene.init # {} => \A b \in Brokers : Raised(scene, holds, b, FromResult(task.tasks[b]))
      BY TaskTypes, DrainTypes, FromResultRaised DEF AllSound, AllRaised, UpInv
    <3> QED BY <3>1 DEF AllRaised
  <2>2. \E pc, none : task' = [task EXCEPT !.tasks = tasks, !.copy = none, !.pc = pc]
    BY <1>4 DEF TaskList
  <2> HIDE DEF tasks
  <2>3. task'.tasks = tasks /\ status' = status
    BY <1>4, <2>2, DrainTypes, TaskTypes DEF TaskWorker, TaskList, apiVars
  <2> QED BY <1>1, <2>1, <2>3, TaskMovesUp DEF UpInv
<1>5. CASE TaskSync \/ TaskSchedule
  <2>1. /\ status' = SyncState(status, task.tasks)
        /\ task' = [task EXCEPT !.pc = "plan"] \/ task' = TaskIdle
    BY <1>5 DEF TaskSync, TaskSchedule, UpdateStatus, Publish
  <2>2. task'.tasks = task.tasks \/ task'.tasks = [b \in Brokers |-> NoEntry]
    BY <2>1, DrainTypes, TaskTypes, TaskIdleType DEF TaskWorker
  <2>3. scene.init # {} => AllRaised(scene, holds, SyncState(status, task.tasks))
    BY DEF UpInv, AllRaised, SyncState
  <2> QED BY <1>1, <2>1, <2>2, <2>3, NoneRaised, TaskMovesUp DEF UpInv
<1>6. CASE TaskPlan
  <2>1. status' = status
    BY <1>6 DEF TaskPlan, apiVars
  <2>2. task' = TaskIdle \/ \E o : task' = [task EXCEPT !.pc = "fill", !.op = o]
    BY <1>6 DEF TaskPlan, TaskRequeue, CreateCCOperation
  <2>3. CASE \E o : task' = [task EXCEPT !.pc = "fill", !.op = o]
    <3>1. task'.tasks = task.tasks
      BY <2>3, DrainTypes, TaskTypes DEF TaskWorker
    <3> QED BY <1>1, <2>1, <3>1, TaskMovesUp DEF UpInv
  <2> QED BY <1>2, <2>1, <2>2, <2>3
<1>7. CASE FillOperation
  <2> DEFINE tasks == [b \in Brokers |-> IF b \in work[task.op].brokers
                                           THEN Scheduled(task.tasks[b]) ELSE task.tasks[b]]
  <2>1. \A t : Scheduled(t).state # Up("Succeeded")
    <3>1. \A x : <<x, "Scheduled">> # Up("Succeeded")
      BY DEF Up
    <3>2. \A t : Scheduled(t).state = <<t.state[1], "Scheduled">>
      BY DEF Scheduled, Known
    <3> QED BY <3>1, <3>2
  <2>2. scene.init # {} => AllRaised(scene, holds, tasks)
    BY <2>1 DEF UpInv, AllRaised, Raised
  <2>3. task' = [task EXCEPT !.pc = "schedule", !.tasks = tasks] /\ status' = status
    BY <1>7 DEF FillOperation, apiVars
  <2> HIDE DEF tasks
  <2>4. task'.tasks = tasks
    BY <2>3, DrainTypes, TaskTypes DEF TaskWorker
  <2> QED BY <1>1, <2>2, <2>3, <2>4, TaskMovesUp DEF UpInv
<1>8. CASE TaskFails
  BY <1>2, <1>8 DEF TaskFails, TaskRequeue, apiVars
<1> QED BY <1>3, <1>4, <1>5, <1>6, <1>7, <1>8 DEF TaskStep

\* No step of the surroundings takes data from a broker that does not leave.
LEMMA OutsideUp ==
  ASSUME DrainInv, UpInv,
         \/ Edit
         \/ \E b \in Brokers : Evict(b) \/ PodGone(b) \/ ComesUp(b) \/ GoesDown(b)
         \/ \E o \in OpIds :
              OpStarts(o) \/ OpProgresses(o) \/ OpStops(o) \/ OpEdited(o) \/ OpRemoved(o)
         \/ UNCHANGED vars
  PROVE  UpInv'
<1>1. UNCHANGED <<status, kafka, task, topicReady>>
  BY DEF Edit, Evict, PodGone, ComesUp, GoesDown, OpStarts, OpProgresses, OpStops, OpEdited,
         OpRemoved, OpChanged, apiVars, vars
<1>2. scene' = scene \/ \E d \in Disturbances \ {"opEdits"} : Spend(d)
  <2>1. ~Spend("opEdits")
    BY DEF Spend, DrainInv, OneWay
  <2> QED BY <2>1 DEF Edit, Evict, PodGone, ComesUp, GoesDown, OpStarts, OpProgresses, OpStops,
                      OpEdited, OpRemoved, Disturbances, vars
<1>3. \/ holds' = holds
      \/ \E o \in OpIds : holds' = holds \cup work[o].brokers
      \/ \E o \in OpIds : work[o].kind = "remove_broker" /\ holds' = holds \ work[o].brokers
  BY DEF Edit, Evict, PodGone, ComesUp, GoesDown, OpStarts, OpProgresses, OpStops, OpEdited,
         OpRemoved, envVars, vars
<1>4. \A b \in Brokers : b \notin scene.leaving => (b \in holds => b \in holds')
  BY <1>3 DEF DrainInv, WorkDone
<1> QED BY <1>1, <1>2, <1>4, TopicSpent, UpKeeps DEF UpInv

\* Every step keeps the invariant.
LEMMA UpNext == DrainInv /\ UpInv /\ [Next]_vars => UpInv'
<1> SUFFICES ASSUME DrainInv, UpInv, [Next]_vars PROVE UpInv'
  OBVIOUS
<1>1. CASE KafkaStep
  BY <1>1, WriteBackupUp, StatusWritersUp, FieldWritersUp, KafkaMovesUp DEF KafkaStep
<1>2. CASE TaskStep
  BY <1>2, TaskStepUp
<1>3. CASE Surroundings \/ UNCHANGED vars
  BY <1>3, KafkaMovesUp, TaskStepUp, OutsideUp DEF Surroundings
<1> QED BY <1>1, <1>2, <1>3 DEF Next

\* It holds at the start.
LEMMA UpInit == Init /\ scene.budget["topic"] = 0 => UpInv
<1> SUFFICES ASSUME Init, scene.budget["topic"] = 0 PROVE UpInv
  OBVIOUS
<1>1. NoState # Up("Succeeded") /\ NoEntry.state = NoState
  BY EntryFacts DEF NoState, Up
<1>2. AllRaised(scene, holds, status)
  BY <1>1 DEF Init, AllRaised, Raised
<1>3. AllRaised(scene, holds, task.tasks)
  BY NoneRaised, TaskIdleType DEF Init
<1> QED BY <1>1, <1>2, <1>3, KafkaIdleType DEF Init, UpInv

\* UpscaledByCruiseControl for any brokers and any number of operations: a broker that
\* joins a cluster whose Cruise Control was already at work counts as upscaled only after
\* an add_broker for it was executed (reconcileKafkaPod, FromResult), as long as the topic
\* of Cruise Control does not get lost.
THEOREM UpscaledHolds ==
  Spec /\ OneWay /\ scene.budget["topic"] = 0 => []UpscaledByCruiseControl
<1>1. DrainInv /\ UpInv => UpscaledByCruiseControl
  <2> SUFFICES ASSUME DrainInv, UpInv, NEW b \in Brokers \ scene.init, scene.init # {},
                      status[b].state = Up("Succeeded")
               PROVE  b \in holds
    BY DEF UpscaledByCruiseControl
  <2>1. Up("Succeeded") # NoState /\ ~IsDownscale(Up("Succeeded"))
    BY DEF Up, NoState, IsDownscale
  <2>2. status[b] # NoEntry
    BY <2>1, EntryFacts
  <2>3. b \notin scene.leaving
    BY <2>1, <2>2, DrainTypes DEF AllOwn, Own, LeaverEntry
  <2> QED BY <2>3 DEF UpInv, AllRaised, Raised
<1> QED BY <1>1, UpInit, UpNext, DrainInvariance, PTL DEF Spec

-----------------------------------------------------------------------------
(* One operation per broker, where no call fails and no pod is lost. *)

\* An operation was created for the broker.
Asked(ws, b) == \E o \in OpIds : b \in ws[o].brokers

\* The state of a broker before its action is required: one that leaves is upscaled, one
\* that joins has none.
Begin(sc, b) == IF b \in sc.leaving THEN Up("Succeeded") ELSE NoState

\* No call of the controllers fails and no pod is evicted.
Undisturbed == scene.budget["failures"] = 0 /\ scene.budget["evictions"] = 0

\* Operations share no broker.
WorkApart == \A o, p \in OpIds : o # p => work[o].brokers \cap work[p].brokers = {}

\* A broker whose action is required, in the status or in what the CruiseControlTask
\* controller holds of it, has no operation, unless its operation was created in this pass
\* and the state is about to be written; one whose action has not begun has none either.
AskedOnce(b) ==
  /\ Asked(work, b) /\ IsRequiredState(status[b].state) =>
       task.pc \in {"fill", "schedule"} /\ b \in work[task.op].brokers
  /\ Asked(work, b) /\ IsRequiredState(task.tasks[b].state) =>
       task.pc = "fill" /\ b \in work[task.op].brokers
  /\ status[b].state = Begin(scene, b) => ~Asked(work, b) /\ ~task.tasks[b].known
  /\ task.tasks[b].known => task.tasks[b].state # Begin(scene, b)
  /\ status[b].state # NoState => status[b].known
  /\ task.pc = "schedule" /\ b \in work[task.op].brokers => task.tasks[b].known

\* The KafkaCluster controller requires an action only of a broker whose action has not
\* begun, although it decides on a copy and on the pods.
NotBegun(b) ==
  /\ b \in scene.leaving /\ (\/ /\ kafka.pc \in {"backup", "doomed"}
                                /\ kafka.copy.status[b].state = Up("Succeeded")
                             \/ kafka.pc = "mark" /\ b \in kafka.chosen)
       => status[b].state = Begin(scene, b)
  /\ b \notin scene.leaving =>
       /\ pods[b] # "terminating"
       /\ pods[b] = "none" => status[b].state = Begin(scene, b)
       /\ kafka.pc \in {"created", "graceful"} /\ b \in kafka.chosen =>
            pods[b] # "none" /\ status[b].state = Begin(scene, b)

\* The inductive invariant behind OneOperationPerBroker, beside DrainInv.
OnceInv ==
  Undisturbed /\ WorkApart /\ \A b \in Brokers : AskedOnce(b) /\ NotBegun(b)

\* What is required, and what is not.
LEMMA RequiredFacts ==
  /\ ~IsRequiredState(NoState) /\ ~IsRequiredState(Up("Succeeded"))
  /\ ~IsActive(NoState) /\ ~IsActive(Up("Succeeded"))
  /\ NoState # Up("Succeeded") /\ Down("Required") # Up("Succeeded")
  /\ Down("Required") # NoState
  /\ \A x : /\ ~IsRequiredState(<<x, "Scheduled">>) /\ <<x, "Scheduled">> # NoState
             /\ <<x, "Scheduled">> # Up("Succeeded")
  BY DEF IsRequiredState, IsActive, IsRunningState, NoState, Up, Down

\* The disturbances that are excluded do not come back.
LEMMA StillUndisturbed ==
  ASSUME DrainInv, OnceInv,
         scene' = scene \/ \E d \in Disturbances \ {"opEdits"} : Spend(d)
  PROVE  SameScene /\ Undisturbed'
<1>1. CASE scene' = scene
  BY <1>1 DEF SameScene, OnceInv, Undisturbed
<1>2. ASSUME NEW d \in Disturbances \ {"opEdits"}, Spend(d)
      PROVE  SameScene /\ Undisturbed'
  <2>1. /\ scene' \in Scene /\ scene'.budget["failures"] <= scene.budget["failures"]
        /\ scene'.budget["evictions"] <= scene.budget["evictions"]
    BY <1>2, SpendType DEF DrainInv, Disturbances
  <2>2. scene'.budget["failures"] \in Nat /\ scene'.budget["evictions"] \in Nat
    BY <2>1 DEF Scene, Disturbances
  <2> QED BY <1>2, <2>1, <2>2, SpendKeepsScene DEF OnceInv, Undisturbed
<1> QED BY <1>1, <1>2

\* The scene keeps where a broker begins.
LEMMA BeginKept ==
  ASSUME SameScene
  PROVE  scene'.leaving = scene.leaving /\ \A b : Begin(scene', b) = Begin(scene, b)
  BY DEF SameScene, Begin

\* A step that keeps the states of the status and the CruiseControlTask controller.
LEMMA OnceKept ==
  ASSUME DrainInv, OnceInv, UNCHANGED <<work, task>>,
         scene' = scene \/ \E d \in Disturbances \ {"opEdits"} : Spend(d),
         \A b \in Brokers : /\ status'[b].state = status[b].state
                            /\ status[b].known => status'[b].known,
         \A b \in Brokers : NotBegun(b)'
  PROVE  OnceInv'
<1>1. SameScene /\ Undisturbed'
  BY StillUndisturbed
<1>2. WorkApart'
  BY DEF OnceInv, WorkApart
<1>3. ASSUME NEW b \in Brokers PROVE AskedOnce(b)'
  <2>1. AskedOnce(b) /\ Begin(scene', b) = Begin(scene, b)
    BY <1>1, BeginKept DEF OnceInv
  <2>2. status'[b].state = status[b].state /\ (status[b].known => status'[b].known)
    OBVIOUS
  <2> QED BY <2>1, <2>2 DEF AskedOnce, Asked, IsRequiredState, NoState
<1> QED BY <1>1, <1>2, <1>3 DEF OnceInv

\* The steps of the pass at which nothing is about to begin.
Decided == {"idle", "reap", "objects", "forget", "ensure", "pods", "version"}

\* A step to one of them: only the pods count.
LEMMA PassDecided ==
  ASSUME DrainInv, OnceInv, UNCHANGED <<work, task>>, kafka'.pc \in Decided,
         scene' = scene \/ \E d \in Disturbances \ {"opEdits"} : Spend(d),
         \A b \in Brokers : /\ status'[b].state = status[b].state
                            /\ status[b].known => status'[b].known
                            /\ b \notin scene.leaving => pods'[b] = pods[b]
  PROVE  OnceInv'
<1>1. SameScene
  BY StillUndisturbed
<1>2. ASSUME NEW b \in Brokers PROVE NotBegun(b)'
  <2>1. /\ NotBegun(b) /\ Begin(scene', b) = Begin(scene, b) /\ scene'.leaving = scene.leaving
        /\ status'[b].state = status[b].state /\ (b \notin scene.leaving => pods'[b] = pods[b])
    BY <1>1, BeginKept DEF OnceInv
  <2> QED BY <2>1 DEF NotBegun, Decided
<1> QED BY <1>2, OnceKept

\* The pass reads the cluster.
LEMMA KafkaStartOnce ==
  ASSUME DrainInv, OnceInv, KafkaStart
  PROVE  OnceInv'
<1>1. /\ kafka'.pc = "backup" /\ kafka'.copy.status = status
      /\ UNCHANGED <<status, pods, work, task, scene>>
  BY DrainTypes, ClusterCopy DEF KafkaStart, apiVars, opVars, KafkaWorker
<1>2. ASSUME NEW b \in Brokers PROVE NotBegun(b)'
  <2>1. NotBegun(b)
    BY DEF OnceInv
  <2> QED BY <1>1, <2>1 DEF NotBegun, Begin
<1> QED BY <1>1, <1>2, OnceKept

\* The fields of the brokers in the spec are written; their states stay.
LEMMA WriteBackupOnce ==
  ASSUME DrainInv, OnceInv, WriteBackup
  PROVE  OnceInv'
<1> DEFINE new == [b \in Brokers |-> IF b \in kafka.copy.brokers
                     THEN [kafka.copy.status[b] EXCEPT !.known = TRUE]
                     ELSE kafka.copy.status[b]]
<1>1. PICK c : /\ kafka' = [kafka EXCEPT !.pc = "doomed", !.copy = c]
               /\ \/ c = kafka.copy /\ status' = status
                  \/ c = [kafka.copy EXCEPT !.status = new] /\ status' = new /\ kafka.copy = Cluster
                  \/ c = Cluster /\ status' = status
  BY DEF WriteBackup, Publish
<1>2. kafka'.pc = "doomed" /\ kafka'.copy = c /\ UNCHANGED <<pods, work, task, scene>>
  BY <1>1, DrainTypes DEF KafkaWorker, WriteBackup, opVars
<1>3. \A b \in Brokers : /\ new[b].state = kafka.copy.status[b].state
                         /\ kafka.copy.status[b].known => new[b].known
  <2> SUFFICES ASSUME NEW b \in Brokers
               PROVE  /\ new[b].state = kafka.copy.status[b].state
                      /\ kafka.copy.status[b].known => new[b].known
    OBVIOUS
  <2>1. kafka.copy.status[b] \in Entry
    BY DrainTypes
  <2>2. /\ [kafka.copy.status[b] EXCEPT !.known = TRUE].state = kafka.copy.status[b].state
        /\ [kafka.copy.status[b] EXCEPT !.known = TRUE].known = TRUE
    BY <2>1 DEF Entry
  <2> QED BY <2>2
<1> HIDE DEF new
<1>4. /\ [kafka.copy EXCEPT !.status = new].status = new /\ Cluster.status = status
  BY DrainTypes, ClusterCopy DEF Copies
<1>5. \A b \in Brokers : /\ status'[b].state = status[b].state
                         /\ status[b].known => status'[b].known
                         /\ c.status[b].state \in {kafka.copy.status[b].state, status[b].state}
  BY <1>1, <1>3, <1>4
<1>6. ASSUME NEW b \in Brokers PROVE NotBegun(b)'
  <2>1. NotBegun(b) /\ kafka.pc = "backup"
    BY DEF OnceInv, WriteBackup
  <2>2. /\ status'[b].state = status[b].state
        /\ c.status[b].state \in {kafka.copy.status[b].state, status[b].state}
    BY <1>5
  <2> QED BY <1>2, <2>1, <2>2 DEF NotBegun, Begin
<1> QED BY <1>2, <1>5, <1>6, OnceKept

\* The brokers to be marked were upscaled, in the copy and hence in the status.
LEMMA FindDoomedOnce ==
  ASSUME DrainInv, OnceInv, FindDoomed
  PROVE  OnceInv'
<1>1. /\ kafka.pc = "doomed" /\ kafka'.pc \in {"ensure", "mark", "reap"}
      /\ kafka'.chosen \subseteq PendingGracefulDownscale
      /\ UNCHANGED <<status, pods, work, task, scene>>
  BY DrainTypes DEF FindDoomed, KafkaWorker, apiVars, opVars
<1>2. ASSUME NEW b \in Brokers PROVE NotBegun(b)'
  <2>1. NotBegun(b)
    BY DEF OnceInv
  <2>2. ASSUME b \in kafka'.chosen, b \in scene.leaving
        PROVE  kafka.copy.status[b].state = Up("Succeeded")
    <3>1. kafka.copy.status[b].state \in {Up("Succeeded"), Up("Required")}
      BY <1>1, <2>2 DEF PendingGracefulDownscale
    <3>2. Up("Required") # NoState /\ Up("Required") # Up("Succeeded") /\ ~IsDownscale(Up("Required"))
      BY DEF Up, NoState, IsDownscale
    <3>3. LeaverEntry(scene.init, holds, b, kafka.copy.status[b])
      BY <2>2, DrainTypes DEF AllOwn, Own
    <3> QED BY <3>1, <3>2, <3>3, EntryFacts DEF LeaverEntry
  <2> QED BY <1>1, <2>1, <2>2 DEF NotBegun, Begin
<1> QED BY <1>1, <1>2, OnceKept

\* The KafkaCluster controller sets a state: it requires an action that has not begun, or
\* forgets a broker that has left.
LEMMA StatusWritersOnce ==
  ASSUME DrainInv, OnceInv, MarkDownscale \/ DeleteBrokerStatus \/ SetGracefulState
  PROVE  OnceInv'
<1>1. ASSUME NEW at, NEW e \in Entry, NEW next \in KafkaWorker, next.pc \in Decided,
             UpdateBrokerStatus(at, WithEntry(e), next), e.state # NoState => e.known,
             \A b \in kafka.chosen :
               /\ b \in scene.leaving => e.state # Up("Succeeded")
               /\ b \notin scene.leaving => pods[b] # "none"
               /\ IsRequiredState(e.state) \/ b \notin scene.leaving =>
                    status[b].state = Begin(scene, b)
      PROVE  OnceInv'
  <2>1. WithEntry(e) \in [Brokers -> Entry]
    BY <1>1, DrainTypes DEF WithEntry
  <2>2. kafka'.pc \in Decided /\ status' = WithEntry(e) /\ UNCHANGED <<pods, work, task, scene>>
    BY <1>1, <2>1, UpdateFields
  <2>3. \A b \in Brokers : status'[b] = IF b \in kafka.chosen THEN e ELSE status[b]
    BY <2>2 DEF WithEntry
  <2>4. ASSUME NEW b \in Brokers PROVE AskedOnce(b)'
    <3>1. AskedOnce(b)
      BY DEF OnceInv
    <3>2. CASE b \notin kafka.chosen
      BY <2>2, <2>3, <3>1, <3>2 DEF AskedOnce, Asked, Begin
    <3>3. CASE b \in kafka.chosen
      <4>1. status'[b] = e
        BY <2>3, <3>3
      <4>2. /\ IsRequiredState(e.state) => ~Asked(work, b)
            /\ e.state = Begin(scene, b) => ~Asked(work, b) /\ ~task.tasks[b].known
        BY <1>1, <3>1, <3>3 DEF AskedOnce, Begin
      <4> QED BY <1>1, <2>2, <3>1, <4>1, <4>2 DEF AskedOnce, Asked, Begin
    <3> QED BY <3>2, <3>3
  <2>5. ASSUME NEW b \in Brokers PROVE NotBegun(b)'
    <3>1. NotBegun(b)
      BY DEF OnceInv
    <3> QED BY <1>1, <2>2, <2>3, <3>1 DEF NotBegun, Begin, Decided
  <2>6. WorkApart' /\ Undisturbed'
    BY <2>2 DEF OnceInv, WorkApart, Undisturbed
  <2> QED BY <2>4, <2>5, <2>6 DEF OnceInv
<1>2. ASSUME NEW b \in kafka.chosen, kafka.pc \in Doomed PROVE b \in scene.leaving /\ b \in Brokers
  BY <1>2, DrainTypes DEF DrainInv, Progresses, Stays, KafkaWorker
<1>3. CASE MarkDownscale
  <2> DEFINE next == [kafka EXCEPT !.pc = "reap", !.chosen = {}]
             e == Known(Down("Required"), NoOp)
  <2>1. next \in KafkaWorker /\ next.pc \in Decided
    BY DrainTypes DEF KafkaWorker, KafkaPcs, Decided
  <2>2. e \in Entry /\ e.state = Down("Required") /\ e.known
    BY PlainSound, StateFacts, EntryFacts DEF Stages
  <2>3. UpdateBrokerStatus("mark", WithEntry(e), next) /\ kafka.pc = "mark"
    BY <1>3 DEF MarkDownscale, UpdateBrokerStatus
  <2>4. \A b \in kafka.chosen : b \in scene.leaving /\ status[b].state = Begin(scene, b)
    BY <1>2, <2>3 DEF OnceInv, NotBegun, Doomed
  <2> HIDE DEF next, e
  <2> QED BY <1>1, <2>1, <2>2, <2>3, <2>4, RequiredFacts
<1>4. CASE DeleteBrokerStatus
  <2> DEFINE next == [kafka EXCEPT !.pc = "reap", !.chosen = {}]
  <2>1. next \in KafkaWorker /\ next.pc \in Decided
    BY DrainTypes DEF KafkaWorker, KafkaPcs, Decided
  <2>2. UpdateBrokerStatus("forget", WithEntry(NoEntry), next) /\ kafka.pc = "forget"
    BY <1>4 DEF DeleteBrokerStatus, UpdateBrokerStatus
  <2>3. \A b \in kafka.chosen : b \in scene.leaving
    BY <1>2, <2>2 DEF Doomed
  <2> HIDE DEF next
  <2> QED BY <1>1, <2>1, <2>2, <2>3, EntryFacts, RequiredFacts
<1>5. CASE SetGracefulState
  <2> DEFINE next == [kafka EXCEPT !.pc = "version", !.target = NoState]
             e == Known(kafka.target, NoOp)
  <2>1. next \in KafkaWorker /\ next.pc \in Decided
    BY DrainTypes, StateFacts DEF KafkaWorker, KafkaPcs, Decided
  <2>2. e \in Entry /\ e.known
    <3>1. kafka.target \in Plain
      BY DEF DrainInv, ActionInv
    <3> QED BY <3>1, StateFacts, EntryFacts
  <2>3. UpdateBrokerStatus("graceful", WithEntry(e), next) /\ kafka.pc = "graceful"
    BY <1>5 DEF SetGracefulState, UpdateBrokerStatus
  <2>4. ASSUME NEW b \in kafka.chosen
        PROVE  b \notin scene.leaving /\ pods[b] # "none" /\ status[b].state = Begin(scene, b)
    <3>1. b \in Brokers
      BY DrainTypes DEF KafkaWorker
    <3>2. b \notin scene.leaving
      BY <2>3, <3>1 DEF DrainInv, Progresses, Leaves
    <3> QED BY <2>3, <3>1, <3>2 DEF OnceInv, NotBegun
  <2> HIDE DEF next, e
  <2> QED BY <1>1, <2>1, <2>2, <2>3, <2>4
<1> QED BY <1>3, <1>4, <1>5

\* A field of a broker is written; the states stay.
LEMMA FieldWritersOnce ==
  ASSUME DrainInv, OnceInv, PodCreated \/ ReadVersion
  PROVE  OnceInv'
<1>1. ASSUME NEW at, NEW next \in KafkaWorker, UpdateBrokerStatus(at, WithField, next),
             \/ next.pc \in Decided
             \/ next.pc = "graceful" /\ at = "created" /\ next.chosen = kafka.chosen
      PROVE  OnceInv'
  <2>1. WithField \in [Brokers -> Entry]
    BY WithFieldSound DEF DrainInv
  <2>2. /\ kafka.pc = at /\ kafka'.pc = next.pc /\ kafka'.chosen = next.chosen
        /\ status' = WithField /\ UNCHANGED <<pods, work, task, scene>>
    BY <1>1, <2>1, UpdateFields
  <2>3. ASSUME NEW b \in Brokers
        PROVE  status'[b].state = status[b].state /\ (status[b].known => status'[b].known)
    <3>1. status[b] \in Entry
      BY DrainTypes
    <3>2. [status[b] EXCEPT !.known = TRUE].known = TRUE
      BY <3>1 DEF Entry
    <3> QED BY <2>2, <3>2, WithFieldStates DEF WithField
  <2>4. CASE next.pc \in Decided
    BY <2>2, <2>3, <2>4, PassDecided
  <2>5. CASE next.pc = "graceful" /\ at = "created" /\ next.chosen = kafka.chosen
    <3>1. ASSUME NEW b \in Brokers PROVE NotBegun(b)'
      <4>1. NotBegun(b) /\ status'[b].state = status[b].state
        BY <2>3 DEF OnceInv
      <4> QED BY <2>2, <2>5, <4>1 DEF NotBegun, Begin
    <3> QED BY <2>2, <2>3, <3>1, OnceKept
  <2> QED BY <1>1, <2>4, <2>5
<1>2. CASE PodCreated
  <2> DEFINE asked == [kafka EXCEPT !.pc = "graceful", !.target = NewPodState(Cluster)]
             settled == [kafka EXCEPT !.pc = "version"]
  <2>1. NewPodState(Cluster) \in States
    BY StateFacts DEF NewPodState, Plain
  <2>2. asked \in KafkaWorker /\ asked.pc = "graceful" /\ asked.chosen = kafka.chosen
    BY <2>1, DrainTypes DEF KafkaWorker, KafkaPcs
  <2>3. settled \in KafkaWorker /\ settled.pc \in Decided
    BY DrainTypes DEF KafkaWorker, KafkaPcs, Decided
  <2>4. \/ UpdateBrokerStatus("created", WithField, asked)
        \/ UpdateBrokerStatus("created", WithField, settled)
    BY <1>2 DEF PodCreated
  <2> HIDE DEF asked, settled
  <2> QED BY <1>1, <2>2, <2>3, <2>4
<1>3. CASE ReadVersion
  <2> DEFINE next == [kafka EXCEPT !.pc = "pods", !.chosen = {}]
  <2>1. next \in KafkaWorker /\ next.pc \in Decided
    BY DrainTypes DEF KafkaWorker, KafkaPcs, Decided
  <2>2. CASE UpdateBrokerStatus("version", WithField, next)
    <3> HIDE DEF next
    <3> QED BY <1>1, <2>1, <2>2
  <2>3. CASE KafkaRequeue /\ UNCHANGED <<apiVars, opVars, envVars, task, wakeT, scene>>
    <3>1. kafka'.pc \in Decided /\ UNCHANGED <<status, pods, work, task, scene>>
      BY <2>3 DEF KafkaRequeue, KafkaIdle, Decided, apiVars, opVars
    <3> QED BY <3>1, PassDecided
  <2> QED BY <1>3, <2>2, <2>3 DEF ReadVersion
<1> QED BY <1>2, <1>3

\* The rest of the pass: a pod goes only of a broker that leaves, and one that is created
\* is of a broker that had none.
LEMMA KafkaMovesOnce ==
  ASSUME DrainInv, OnceInv,
         ReapNext \/ ReapObjects \/ ReorderBrokers \/ ReconcileKafkaPod \/ KafkaFinish
  PROVE  OnceInv'
<1>1. UNCHANGED <<status, work, task>>
  BY DEF ReapNext, ReapObjects, ReorderBrokers, ReconcileKafkaPod, KafkaFinish, opVars
<1>2. CASE ReapNext
  <2>1. kafka'.pc \in Decided /\ scene' = scene
    <3>1. \/ kafka' = [kafka EXCEPT !.pc = "ensure"]
          \/ \E b : kafka' = [kafka EXCEPT !.todo = @ \ {b}]
          \/ \E b : kafka' = [kafka EXCEPT !.pc = "objects", !.todo = @ \ {b}, !.chosen = {b}]
          \/ kafka' = KafkaIdle
      BY <1>2 DEF ReapNext, KafkaRequeue
    <3>2. kafka.pc = "reap" /\ scene' = scene /\ KafkaIdle.pc = "idle"
      BY <1>2 DEF ReapNext, KafkaIdle
    <3>3. kafka'.pc \in {"ensure", "reap", "objects", "idle"}
      BY <3>1, <3>2, DrainTypes DEF KafkaWorker
    <3> QED BY <3>2, <3>3 DEF Decided
  <2>2. \A b \in kafka.todo : b \in scene.leaving
    BY <1>2, DrainTypes DEF ReapNext, DrainInv, Progresses, Stays, Doomed, KafkaWorker
  <2>3. pods' = pods \/ \E b \in kafka.todo : pods' = [pods EXCEPT ![b] = "terminating"]
    BY <1>2 DEF ReapNext
  <2>4. \A b \in Brokers : b \notin scene.leaving => pods'[b] = pods[b]
    BY <2>2, <2>3, DrainTypes
  <2> QED BY <1>1, <2>1, <2>4, PassDecided
<1>3. CASE ReapObjects
  <2>1. kafka'.pc \in Decided /\ UNCHANGED <<pods, scene>>
    BY <1>3, DrainTypes DEF ReapObjects, KafkaRequeue, KafkaIdle, KafkaWorker, Decided
  <2> QED BY <1>1, <2>1, PassDecided
<1>4. CASE ReorderBrokers
  <2>1. \E todo, rank : kafka' = [kafka EXCEPT !.pc = "pods", !.todo = todo, !.rank = rank]
    BY <1>4, Zenon DEF ReorderBrokers
  <2>2. kafka'.pc \in Decided
    BY <2>1, DrainTypes DEF KafkaWorker, Decided
  <2>3. UNCHANGED <<pods, scene>>
    BY <1>4 DEF ReorderBrokers
  <2> QED BY <1>1, <2>2, <2>3, PassDecided
<1>5. CASE ReconcileKafkaPod
  <2>1. PICK b \in kafka.todo :
          \/ /\ pods[b] = "none" /\ pods' = [pods EXCEPT ![b] = "running"]
             /\ kafka' = [kafka EXCEPT !.todo = @ \ {b}, !.chosen = {b}, !.pc = "created"]
          \/ /\ kafka' = [kafka EXCEPT !.todo = @ \ {b}, !.chosen = {b}, !.pc = "version"]
             /\ pods' = pods
          \/ kafka' = KafkaIdle /\ pods' = pods
    BY <1>5, DrainTypes DEF ReconcileKafkaPod, KafkaRequeue, KafkaWorker
  <2>2. b \in Brokers /\ scene' = scene
    BY <1>5, DrainTypes DEF ReconcileKafkaPod, KafkaWorker
  <2>3. CASE pods' = pods /\ kafka'.pc \in Decided
    BY <1>1, <2>2, <2>3, PassDecided
  <2>4. CASE /\ pods[b] = "none" /\ pods' = [pods EXCEPT ![b] = "running"]
             /\ kafka' = [kafka EXCEPT !.todo = @ \ {b}, !.chosen = {b}, !.pc = "created"]
    <3>1. kafka'.pc = "created" /\ kafka'.chosen = {b}
      BY <2>4, DrainTypes DEF KafkaWorker
    <3>2. \A c \in Brokers : pods'[c] = IF c = b THEN "running" ELSE pods[c]
      BY <2>4, DrainTypes
    <3>3. ASSUME NEW c \in Brokers PROVE NotBegun(c)'
      <4>1. NotBegun(c)
        BY DEF OnceInv
      <4> QED BY <1>1, <2>2, <2>4, <3>1, <3>2, <4>1 DEF NotBegun, Begin
    <3> QED BY <1>1, <2>2, <3>3, OnceKept
  <2>5. CASE /\ kafka' = [kafka EXCEPT !.todo = @ \ {b}, !.chosen = {b}, !.pc = "version"]
             /\ pods' = pods
    BY <2>3, <2>5, DrainTypes DEF KafkaWorker, Decided
  <2>6. CASE kafka' = KafkaIdle /\ pods' = pods
    BY <2>3, <2>6 DEF KafkaIdle, Decided
  <2> QED BY <2>1, <2>4, <2>5, <2>6
<1>6. CASE KafkaFinish
  <2>1. kafka'.pc \in Decided /\ pods' = pods /\ (scene' = scene \/ Spend("topic"))
    BY <1>6 DEF KafkaFinish, KafkaRequeue, KafkaIdle, Decided
  <2> QED BY <1>1, <2>1, PassDecided DEF Disturbances
<1> QED BY <1>2, <1>3, <1>4, <1>5, <1>6

\* The surroundings; neither a failure nor an eviction is left.
LEMMA OutsideOnce ==
  ASSUME DrainInv, OnceInv, Surroundings \/ UNCHANGED vars
  PROVE  OnceInv'
<1>1. ~KafkaFails /\ ~TaskFails /\ \A b \in Brokers : ~Evict(b)
  BY DEF KafkaFails, TaskFails, Evict, Spend, OnceInv, Undisturbed
<1>2. UNCHANGED <<status, kafka, task, work>>
  BY <1>1 DEF Surroundings, Edit, PodGone, ComesUp, GoesDown, OpStarts, OpProgresses, OpStops,
              OpEdited, OpRemoved, OpChanged, apiVars, opVars, vars
<1>3. scene' = scene \/ \E d \in Disturbances \ {"opEdits"} : Spend(d)
  <2>1. ~Spend("opEdits")
    BY DEF Spend, DrainInv, OneWay
  <2> QED BY <1>1, <2>1 DEF Surroundings, Edit, PodGone, ComesUp, GoesDown, OpStarts, OpProgresses,
                            OpStops, OpEdited, OpRemoved, Disturbances, vars
<1>4. pods' = pods \/ \E b \in Brokers : pods[b] = "terminating" /\ pods' = [pods EXCEPT ![b] = "none"]
  BY <1>1 DEF Surroundings, Edit, PodGone, ComesUp, GoesDown, OpStarts, OpProgresses, OpStops,
              OpEdited, OpRemoved, OpChanged, apiVars, vars
<1>5. \A b \in Brokers : b \notin scene.leaving => pods'[b] = pods[b]
  BY <1>4, DrainTypes DEF OnceInv, NotBegun
<1>6. SameScene
  BY <1>3, StillUndisturbed
<1>7. ASSUME NEW b \in Brokers PROVE NotBegun(b)'
  <2>1. /\ NotBegun(b) /\ Begin(scene', b) = Begin(scene, b) /\ scene'.leaving = scene.leaving
        /\ b \notin scene.leaving => pods'[b] = pods[b]
    BY <1>5, <1>6, BeginKept DEF OnceInv
  <2> QED BY <1>2, <2>1 DEF NotBegun
<1> QED BY <1>2, <1>3, <1>7, OnceKept

\* A step of the CruiseControlTask controller, by what it must keep: an action that has not
\* begun does not begin with a write of this controller.
LEMMA TaskKeepsOnce ==
  ASSUME DrainInv, OnceInv, UNCHANGED <<kafka, pods, scene>>, WorkApart',
         \A b \in Brokers : AskedOnce(b)',
         \A b \in Brokers : status[b].state = Begin(scene, b) => status'[b].state = Begin(scene, b)
  PROVE  OnceInv'
<1>1. ASSUME NEW b \in Brokers PROVE NotBegun(b)'
  <2>1. NotBegun(b) /\ (status[b].state = Begin(scene, b) => status'[b].state = Begin(scene, b))
    BY DEF OnceInv
  <2> QED BY <2>1 DEF NotBegun, Begin
<1> QED BY <1>1 DEF OnceInv, Undisturbed

\* The controller gives up, or has nothing to do, before it has created an operation.
LEMMA TaskIdleOnce ==
  ASSUME DrainInv, OnceInv, UNCHANGED <<kafka, pods, scene, status, work>>, task' = TaskIdle,
         task.pc \notin {"fill", "schedule"}
  PROVE  OnceInv'
<1>1. task'.pc = "idle" /\ task'.tasks = [b \in Brokers |-> NoEntry]
  BY TaskIdleType DEF TaskIdle
<1>2. ASSUME NEW b \in Brokers PROVE AskedOnce(b)'
  <2>1. AskedOnce(b)
    BY DEF OnceInv
  <2>2. ~IsRequiredState(task'.tasks[b].state) /\ ~task'.tasks[b].known
    BY <1>1, EntryFacts, RequiredFacts
  <2> QED BY <1>1, <2>1, <2>2 DEF AskedOnce, Asked, Begin
<1>3. WorkApart'
  BY DEF OnceInv, WorkApart
<1> QED BY <1>2, <1>3, TaskKeepsOnce

\* The tasks are the active entries: none of a broker whose action has not begun.
LEMMA TaskStartOnce ==
  ASSUME DrainInv, OnceInv, TaskStart
  PROVE  OnceInv'
<1>1. /\ task.pc = "idle" /\ UNCHANGED <<kafka, pods, scene, status, work>>
      /\ \/ task' = TaskIdle
         \/ task' = [TaskIdle EXCEPT !.pc = "list", !.copy = status, !.tasks = ActiveTasks(status)]
  BY DEF TaskStart, apiVars, opVars
<1>2. CASE task' = TaskIdle
  BY <1>1, <1>2, TaskIdleOnce
<1>3. CASE task' = [TaskIdle EXCEPT !.pc = "list", !.copy = status, !.tasks = ActiveTasks(status)]
  <2>1. task'.pc = "list" /\ task'.tasks = ActiveTasks(status)
    BY <1>3, TaskIdleType DEF TaskWorker
  <2>2. ASSUME NEW b \in Brokers PROVE AskedOnce(b)'
    <3>1. AskedOnce(b)
      BY DEF OnceInv
    <3>2. task'.tasks[b] = IF IsActive(status[b].state) THEN status[b] ELSE NoEntry
      BY <2>1 DEF ActiveTasks
    <3>3. ~IsActive(Begin(scene, b))
      BY RequiredFacts DEF Begin
    <3>4. ~NoEntry.known /\ ~IsRequiredState(NoEntry.state)
      BY EntryFacts, RequiredFacts
    <3> QED BY <1>1, <2>1, <3>1, <3>2, <3>3, <3>4 DEF AskedOnce, Asked, Begin
  <2>3. WorkApart'
    BY <1>1 DEF OnceInv, WorkApart
  <2> QED BY <1>1, <2>2, <2>3, TaskKeepsOnce
<1> QED BY <1>1, <1>2, <1>3

\* FromResult never requires an action, and never takes one back to its beginning.
LEMMA FromResultOnce ==
  ASSUME DrainInv, NEW b \in Brokers, NEW t \in Entry, Sound(ops, work, b, t),
         Own(scene, holds, b, t), t.known => t.state # Begin(scene, b)
  PROVE  /\ FromResult(t).known = t.known
         /\ IsRequiredState(FromResult(t).state) => IsRequiredState(t.state)
         /\ t.known => FromResult(t).state # Begin(scene, b)
<1>1. CASE ~(t.known /\ t.ref # NoOp)
  BY <1>1 DEF FromResult
<1>2. CASE t.known /\ t.ref # NoOp
  <2>1. t.ref \in OpIds /\ t.state \in States /\ t.state # NoState
    BY <1>2, EntryFacts DEF Sound
  <2> DEFINE stage == StageOf(ops[t.ref])
             s == <<t.state[1], stage>>
  <2>2. stage # "Required" /\ stage # ""
    <3>1. /\ ops[t.ref].phase \in {"unborn", "live", "gone"}
          /\ ops[t.ref].state \in Operation!TaskStates
      BY <2>1 DEF DrainInv, ActionInv, TypeOK, Operation!LifecycleObject
    <3> QED BY <3>1 DEF StageOf, Operation!TaskStates, Operation!RunningStates, Operation!EndStates
  <2> HIDE DEF stage
  <2>3. /\ ~IsRequiredState(s) /\ s # NoState
        /\ s = Up("Succeeded") => ~IsDownscale(t.state)
    BY <2>2 DEF IsRequiredState, NoState, Up, IsDownscale
  <2>4. FromResult(t) = [t EXCEPT !.state = s]
    BY <1>2 DEF FromResult, stage
  <2> HIDE DEF s
  <2>5. FromResult(t).known = t.known /\ FromResult(t).state = s
    BY <2>4 DEF Entry
  <2>6. b \in scene.leaving => IsDownscale(t.state)
    BY <1>2, EntryFacts DEF Own, LeaverEntry, Begin
  <2> QED BY <1>2, <2>3, <2>5, <2>6 DEF Begin
<1> QED BY <1>1, <1>2

\* The tasks take the stages of their operations.
LEMMA TaskListOnce ==
  ASSUME DrainInv, OnceInv, TaskList
  PROVE  OnceInv'
<1> DEFINE tasks == [b \in Brokers |-> FromResult(task.tasks[b])]
<1>1. PICK pc \in {"plan", "sync"} : \E none : task' = [task EXCEPT !.tasks = tasks, !.copy = none, !.pc = pc]
  BY DEF TaskList
<1>2. /\ task.pc = "list" /\ UNCHANGED <<kafka, pods, scene, status, work>>
  BY DEF TaskList, apiVars, opVars
<1> HIDE DEF tasks
<1>3. task'.tasks = tasks /\ task'.pc \in {"plan", "sync"} /\ task'.op = task.op
  BY <1>1, DrainTypes, TaskTypes DEF TaskWorker
<1>4. ASSUME NEW b \in Brokers PROVE AskedOnce(b)'
  <2>1. AskedOnce(b)
    BY DEF OnceInv
  <2>2. task.tasks[b] \in Entry /\ Sound(ops, work, b, task.tasks[b]) /\ Own(scene, holds, b, task.tasks[b])
    BY DrainTypes, TaskTypes DEF AllSound, AllOwn
  <2>3. task'.tasks[b] = FromResult(task.tasks[b])
    BY <1>3 DEF tasks
  <2>4. /\ task'.tasks[b].known = task.tasks[b].known
        /\ IsRequiredState(task'.tasks[b].state) => IsRequiredState(task.tasks[b].state)
        /\ task.tasks[b].known => task'.tasks[b].state # Begin(scene, b)
    BY <2>1, <2>2, <2>3, FromResultOnce DEF AskedOnce
  <2> QED BY <1>2, <1>3, <2>1, <2>4 DEF AskedOnce, Asked, Begin
<1>5. WorkApart'
  BY <1>2 DEF OnceInv, WorkApart
<1> QED BY <1>2, <1>4, <1>5, TaskKeepsOnce

\* The tasks are laid over the status. What is required stays required only of brokers
\* without an operation.
LEMMA UpdateStatusOnce ==
  ASSUME DrainInv, OnceInv, TaskSync \/ TaskSchedule
  PROVE  OnceInv'
<1>1. /\ status' = SyncState(status, task.tasks) /\ UNCHANGED <<kafka, pods, scene, work>>
      /\ \/ task.pc = "sync" /\ task' = [task EXCEPT !.pc = "plan"]
         \/ task.pc = "schedule" /\ task' = TaskIdle
  BY DEF TaskSync, TaskSchedule, UpdateStatus, Publish, opVars
<1>2. \/ task.pc = "sync" /\ task'.pc = "plan" /\ task'.tasks = task.tasks
      \/ task.pc = "schedule" /\ task'.pc = "idle" /\ task'.tasks = [b \in Brokers |-> NoEntry]
  BY <1>1, DrainTypes, TaskTypes, TaskIdleType DEF TaskWorker, TaskIdle
<1>3. \A b \in Brokers :
        status'[b] = IF status[b].known /\ task.tasks[b].known THEN task.tasks[b] ELSE status[b]
  BY <1>1 DEF SyncState
<1>4. ASSUME NEW b \in Brokers
      PROVE  /\ AskedOnce(b)'
             /\ status[b].state = Begin(scene, b) => status'[b].state = Begin(scene, b)
  <2>1. AskedOnce(b)
    BY DEF OnceInv
  <2>2. ~NoEntry.known /\ ~IsRequiredState(NoEntry.state) /\ ~IsRequiredState(NoState)
    BY EntryFacts, RequiredFacts
  <2>3. status[b].state = Begin(scene, b) => status'[b] = status[b]
    BY <1>3, <2>1 DEF AskedOnce
  <2>4. Asked(work, b) => ~IsRequiredState(status'[b].state)
    <3> SUFFICES ASSUME Asked(work, b), IsRequiredState(status'[b].state) PROVE FALSE
      OBVIOUS
    <3>1. status'[b] # task.tasks[b]
      BY <1>2, <2>1 DEF AskedOnce
    <3>2. status'[b] = status[b] /\ ~(status[b].known /\ task.tasks[b].known)
      BY <1>3, <3>1
    <3>3. IsRequiredState(status[b].state)
      BY <3>2
    <3>4. task.pc = "schedule" /\ b \in work[task.op].brokers
      BY <1>2, <2>1, <3>3 DEF AskedOnce
    <3>5. status[b].known /\ task.tasks[b].known
      BY <2>1, <2>2, <3>3, <3>4 DEF AskedOnce
    <3> QED BY <3>2, <3>5
  <2>5. status'[b].state = Begin(scene, b) => status[b].state = Begin(scene, b)
    BY <1>3, <2>1 DEF AskedOnce
  <2>6. status'[b].state # NoState => status'[b].known
    BY <1>3, <2>1 DEF AskedOnce
  <2>7. \/ task'.tasks[b] = task.tasks[b] /\ task.pc = "sync"
        \/ task'.tasks[b] = NoEntry
    BY <1>2
  <2>8. /\ Asked(work, b) => ~IsRequiredState(task'.tasks[b].state)
        /\ task'.tasks[b].known => task.tasks[b].known /\ task'.tasks[b].state # Begin(scene, b)
    BY <2>1, <2>2, <2>7 DEF AskedOnce
  <2>9. AskedOnce(b)'
    <3>1. status'[b].state = Begin(scene, b) => ~Asked(work, b) /\ ~task'.tasks[b].known
      BY <2>1, <2>5, <2>8 DEF AskedOnce
    <3>2. task'.pc \in {"plan", "idle"}
      BY <1>2
    <3> QED BY <1>1, <2>4, <2>6, <2>8, <3>1, <3>2 DEF AskedOnce, Asked, Begin
  <2> QED BY <2>3, <2>9
<1>5. WorkApart'
  BY <1>1 DEF OnceInv, WorkApart
<1> QED BY <1>1, <1>4, <1>5, TaskKeepsOnce

\* An operation is created only for brokers that have none.
LEMMA TaskPlanOnce ==
  ASSUME DrainInv, OnceInv, TaskPlan
  PROVE  OnceInv'
<1>1. task.pc = "plan" /\ UNCHANGED <<kafka, pods, scene, status>>
  BY DEF TaskPlan, apiVars
<1>2. CASE task' = TaskIdle /\ UNCHANGED opVars
  BY <1>1, <1>2, TaskIdleOnce DEF opVars
<1>3. ASSUME NEW kind, NEW bs, CreateCCOperation(kind, bs),
             \A b \in bs : /\ b \in Brokers /\ task.tasks[b].known
                           /\ IsRequiredState(task.tasks[b].state)
      PROVE  OnceInv'
  <2>1. PICK o \in OpIds : /\ work' = [work EXCEPT ![o] = [kind |-> kind, brokers |-> bs]]
                           /\ task' = [task EXCEPT !.pc = "fill", !.op = o]
    BY <1>3 DEF CreateCCOperation
  <2>2. /\ work'[o].brokers = bs /\ \A p \in OpIds \ {o} : work'[p] = work[p]
    BY <2>1 DEF DrainInv, ActionInv, TypeOK
  <2>3. task'.tasks = task.tasks /\ task'.pc = "fill" /\ task'.op = o
    BY <2>1, DrainTypes, TaskTypes DEF TaskWorker
  <2>4. \A b \in bs : ~Asked(work, b) /\ status[b].state # Begin(scene, b)
    BY <1>1, <1>3 DEF OnceInv, AskedOnce
  <2>5. \A b : Asked(work', b) => b \in bs \/ Asked(work, b)
    BY <2>2 DEF Asked
  <2>6. WorkApart'
    <3> SUFFICES ASSUME NEW p \in OpIds, NEW q \in OpIds, p # q
                 PROVE  work'[p].brokers \cap work'[q].brokers = {}
      BY DEF WorkApart
    <3> QED BY <2>2, <2>4 DEF OnceInv, WorkApart, Asked
  <2>7. ASSUME NEW b \in Brokers PROVE AskedOnce(b)'
    <3>1. AskedOnce(b)
      BY DEF OnceInv
    <3>2. /\ Asked(work', b) /\ (IsRequiredState(status[b].state) \/ IsRequiredState(task.tasks[b].state))
               => b \in work'[o].brokers
          /\ status[b].state = Begin(scene, b) => ~Asked(work', b)
      BY <1>1, <2>2, <2>4, <2>5, <3>1 DEF AskedOnce
    <3> QED BY <1>1, <2>3, <3>1, <3>2 DEF AskedOnce, Asked, Begin
  <2> QED BY <1>1, <2>6, <2>7, TaskKeepsOnce
<1>4. CASE CreateCCOperation("add_broker", RequiredTasks("Upscale"))
  BY <1>3, <1>4 DEF RequiredTasks
<1>5. CASE \E b \in RequiredTasks("Downscale") : CreateCCOperation("remove_broker", {b})
  <2>1. PICK b \in RequiredTasks("Downscale") : CreateCCOperation("remove_broker", {b})
    BY <1>5
  <2>2. \A c \in {b} : c \in Brokers /\ task.tasks[c].known /\ IsRequiredState(task.tasks[c].state)
    BY <2>1 DEF RequiredTasks
  <2> QED BY <1>3, <2>1, <2>2
<1> QED BY <1>2, <1>4, <1>5 DEF TaskPlan, TaskRequeue

\* The tasks of the new operation are scheduled, and no others are its.
LEMMA FillOperationOnce ==
  ASSUME DrainInv, OnceInv, FillOperation
  PROVE  OnceInv'
<1> DEFINE tasks == [b \in Brokers |-> IF b \in work[task.op].brokers
                                         THEN Scheduled(task.tasks[b]) ELSE task.tasks[b]]
<1>1. /\ task.pc = "fill" /\ UNCHANGED <<kafka, pods, scene, status, work>>
      /\ task' = [task EXCEPT !.pc = "schedule", !.tasks = tasks]
  BY DEF FillOperation, apiVars
<1>2. task.op \in OpIds
  BY <1>1, TaskTypes DEF DrainInv, ActionInv, FillSound, TaskWorker
<1>3. \A t : Scheduled(t).known /\ Scheduled(t).state = <<t.state[1], "Scheduled">>
  BY DEF Scheduled, Known
<1>4. \A b \in Brokers : tasks[b] = IF b \in work[task.op].brokers
                                      THEN Scheduled(task.tasks[b]) ELSE task.tasks[b]
  OBVIOUS
<1> HIDE DEF tasks
<1>5. task'.tasks = tasks /\ task'.pc = "schedule" /\ task'.op = task.op
  BY <1>1, DrainTypes, TaskTypes DEF TaskWorker
<1>6. ASSUME NEW b \in Brokers PROVE AskedOnce(b)'
  <2>1. AskedOnce(b)
    BY DEF OnceInv
  <2>2. CASE b \in work[task.op].brokers
    <3>1. Asked(work, b)
      BY <1>2, <2>2 DEF Asked
    <3>2. task'.tasks[b].known /\ task'.tasks[b].state = <<task.tasks[b].state[1], "Scheduled">>
      BY <1>3, <1>4, <1>5, <2>2
    <3>3. ~IsRequiredState(task'.tasks[b].state) /\ task'.tasks[b].state # Begin(scene, b)
      BY <3>2, RequiredFacts DEF Begin
    <3> QED BY <1>1, <1>5, <2>1, <2>2, <3>1, <3>2, <3>3 DEF AskedOnce, Asked, Begin
  <2>3. CASE b \notin work[task.op].brokers
    <3>1. task'.tasks[b] = task.tasks[b]
      BY <1>4, <1>5, <2>3
    <3> QED BY <1>1, <1>5, <2>1, <2>3, <3>1 DEF AskedOnce, Asked, Begin
  <2> QED BY <2>2, <2>3
<1>7. WorkApart'
  BY <1>1 DEF OnceInv, WorkApart
<1> QED BY <1>1, <1>6, <1>7, TaskKeepsOnce

\* Every step keeps the invariant.
LEMMA OnceNext == DrainInv /\ OnceInv /\ [Next]_vars => OnceInv'
<1> SUFFICES ASSUME DrainInv, OnceInv, [Next]_vars PROVE OnceInv'
  OBVIOUS
<1>1. CASE KafkaStep
  BY <1>1, KafkaStartOnce, WriteBackupOnce, FindDoomedOnce, StatusWritersOnce, FieldWritersOnce,
     KafkaMovesOnce DEF KafkaStep
<1>2. CASE TaskStep
  BY <1>2, TaskStartOnce, TaskListOnce, UpdateStatusOnce, TaskPlanOnce, FillOperationOnce
  DEF TaskStep
<1>3. CASE Surroundings \/ UNCHANGED vars
  BY <1>3, OutsideOnce
<1> QED BY <1>1, <1>2, <1>3 DEF Next

\* It holds at the start.
LEMMA OnceInit == Init /\ Undisturbed => OnceInv
<1> SUFFICES ASSUME Init, Undisturbed PROVE OnceInv
  OBVIOUS
<1>1. \A o \in OpIds : work[o].brokers = {}
  BY DEF Init
<1>2. WorkApart /\ \A b : ~Asked(work, b)
  BY <1>1 DEF WorkApart, Asked
<1>3. /\ kafka.pc = "idle" /\ task.pc = "idle" /\ task.tasks = [b \in Brokers |-> NoEntry]
  BY KafkaIdleType, TaskIdleType DEF Init, TaskIdle
<1>4. ASSUME NEW b \in Brokers PROVE AskedOnce(b) /\ NotBegun(b)
  <2>1. /\ task.tasks[b] = NoEntry
        /\ status[b] = IF b \in scene.init THEN Known(Up("Succeeded"), NoOp) ELSE NoEntry
        /\ pods[b] = IF b \in scene.init THEN "running" ELSE "none"
    BY <1>3 DEF Init
  <2>2. ~NoEntry.known /\ NoEntry.state = NoState /\ Known(Up("Succeeded"), NoOp).known
    BY EntryFacts DEF Known
  <2>3. AskedOnce(b)
    BY <1>2, <1>3, <2>1, <2>2 DEF AskedOnce
  <2>4. NotBegun(b)
    BY <1>3, <2>1, <2>2 DEF NotBegun, Begin
  <2> QED BY <2>3, <2>4
<1> QED BY <1>2, <1>4 DEF OnceInv

\* OneOperationPerBroker for any brokers and any number of operations: where no broker both
\* joins and leaves, no call fails and no pod is lost, Cruise Control is never asked twice for
\* the same action on a broker, whatever the two controllers and the operations do between
\* the read of the status and the write of the schedule (Reconcile of
\* CruiseControlTaskReconciler).
THEOREM OneOperationHolds == Spec /\ OneWay /\ Undisturbed => []OneOperationPerBroker
<1>1. OnceInv => OneOperationPerBroker
  BY DEF OnceInv, WorkApart, OneOperationPerBroker
<1> QED BY <1>1, OnceInit, OnceNext, DrainInvariance, PTL DEF Spec
=============================================================================
