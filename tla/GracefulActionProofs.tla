------------------------ MODULE GracefulActionProofs ------------------------
(***************************************************************************)
(* Proofs about GracefulAction, for any set of brokers, any number of      *)
(* operations and any scene: the types, and that a graceful action refers  *)
(* to an operation that does its work.                                     *)
(*                                                                         *)
(* RefMatchesWork is not inductive: both controllers write entries that    *)
(* they read earlier, so ActionInv says the same of their copies           *)
(* (EntriesSound), and of the tasks that are about to get a reference      *)
(* (FillSound). There is one lemma per action; an entry is only disturbed  *)
(* by the actions that write a status or create an operation, and the      *)
(* lemmas KafkaMoves, TaskStepKeeps and OutsideInv deal with the rest.     *)
(***************************************************************************)
EXTENDS GracefulAction, TLAPS

-----------------------------------------------------------------------------
(* Types. *)

\* The KafkaCluster as a controller reads it.
Copies == [brokers : SUBSET Brokers, headless : BOOLEAN,
           status : [Brokers -> Entry], topic : BOOLEAN]
\* The variables of one pass of the KafkaCluster controller.
KafkaWorker ==
  [ pc : KafkaPcs, todo : SUBSET Brokers, chosen : SUBSET Brokers, copy : Copies,
    rank : [Brokers -> 0..3], target : States ]
\* The variables of one pass of the CruiseControlTask controller.
TaskWorker ==
  [ pc : TaskPcs, copy : [Brokers -> Entry], tasks : [Brokers -> Entry],
    op : OpIds \cup {NoOp} ]
\* What a CruiseControlOperation asks of Cruise Control, and for which brokers.
Work == [kind : {"", "add_broker", "remove_broker"}, brokers : SUBSET Brokers]

\* The direction of an action and what Cruise Control is asked for.
Kind(state) == IF IsUpscale(state) THEN "add_broker" ELSE "remove_broker"

\* An entry of brokersState tells the truth about the operation it refers to: a running
\* state names an operation, and a named operation was created, is for this broker and does
\* what the state says.
Sound(os, ws, b, e) ==
  /\ IsRunningState(e.state) => e.ref # NoOp
  /\ e.ref # NoOp =>
       /\ e.state # NoState
       /\ os[e.ref].phase # "unborn"
       /\ b \in ws[e.ref].brokers
       /\ ws[e.ref].kind = Kind(e.state)

\* Every entry of a status, or of a copy of one, is sound.
AllSound(os, ws, entries) == \A b \in Brokers : Sound(os, ws, b, entries[b])

\* The status at the API server and the copies that both controllers work on are sound: an
\* entry that a controller holds for long is still true when it is written.
EntriesSound ==
  /\ AllSound(ops, work, status)
  /\ AllSound(ops, work, kafka.copy.status)
  /\ AllSound(ops, work, task.copy)
  /\ AllSound(ops, work, task.tasks)

\* The states that the KafkaCluster controller gives to a broker without an operation.
Plain == {NoState, Up("Required"), Up("Succeeded")}

\* Between the creation of an operation and the write of its contents, the tasks still ask
\* for what the operation was created for.
FillSound ==
  task.pc = "fill" =>
    /\ task.op # NoOp /\ ops[task.op].phase # "unborn"
    /\ \A b \in work[task.op].brokers :
         task.tasks[b].state # NoState /\ work[task.op].kind = Kind(task.tasks[b].state)

\* The inductive invariant of GracefulAction.
ActionInv == TypeOK /\ EntriesSound /\ kafka.target \in Plain /\ FillSound

-----------------------------------------------------------------------------
\* The states of CruiseControlState; those that need no operation.
LEMMA StateFacts ==
  /\ NoState \in States
  /\ \A s \in Stages : Up(s) \in States /\ Down(s) \in States
  /\ Plain \subseteq States
  /\ ~IsRunningState(NoState) /\ ~IsRunningState(Up("Required"))
  /\ ~IsRunningState(Up("Succeeded")) /\ ~IsRunningState(Down("Required"))
  BY DEF NoState, States, Up, Down, Plain, Stages, IsRunningState

\* The fields of the entries of brokersState.
LEMMA EntryFacts ==
  /\ NoEntry \in Entry /\ NoEntry.ref = NoOp /\ NoEntry.state = NoState
  /\ NoEntry.known = FALSE
  /\ \A s \in States : \A r \in OpIds \cup {NoOp} :
       /\ Known(s, r) \in Entry /\ Known(s, r).state = s /\ Known(s, r).ref = r
       /\ Known(s, r).known = TRUE
  /\ \A e \in Entry : /\ e.known \in BOOLEAN /\ e.state \in States
                      /\ e.ref \in OpIds \cup {NoOp}
                      /\ [e EXCEPT !.known = TRUE] \in Entry
                      /\ [e EXCEPT !.known = TRUE].state = e.state
                      /\ [e EXCEPT !.known = TRUE].ref = e.ref
  BY StateFacts DEF Entry, NoEntry, Known

\* A broker without an entry is sound.
LEMMA NoEntrySound ==
  ASSUME NEW os, NEW ws, NEW b
  PROVE  Sound(os, ws, b, NoEntry)
  BY EntryFacts, StateFacts DEF Sound

\* So is a broker whose state was just set and which refers to no operation.
LEMMA PlainSound ==
  ASSUME NEW os, NEW ws, NEW b, NEW s \in Plain \cup {Down("Required")}
  PROVE  Sound(os, ws, b, Known(s, NoOp)) /\ Known(s, NoOp) \in Entry
<1>1. s \in States /\ ~IsRunningState(s)
  BY StateFacts DEF Plain, Stages
<1> QED BY <1>1, EntryFacts DEF Sound

\* A write of another field of the entry does not touch the graceful action.
LEMMA KnownSound ==
  ASSUME NEW os, NEW ws, NEW b, NEW e \in Entry, Sound(os, ws, b, e)
  PROVE  Sound(os, ws, b, [e EXCEPT !.known = TRUE])
  BY EntryFacts DEF Sound

\* The invariant holds at the start.
LEMMA InitInv == Init => ActionInv
<1> SUFFICES ASSUME Init PROVE ActionInv
  OBVIOUS
<1>1. scene \in Scene
  BY InstanceAssumption DEF Init
<1>2. NoCluster \in Copies /\ NoCluster.status = [b \in Brokers |-> NoEntry]
  BY EntryFacts DEF NoCluster, Copies
<1>3. KafkaIdle \in KafkaWorker /\ KafkaIdle.copy = NoCluster /\ KafkaIdle.target = NoState
  BY <1>2, StateFacts DEF KafkaIdle, KafkaWorker, KafkaPcs
<1>4. /\ TaskIdle \in TaskWorker /\ TaskIdle.copy = [b \in Brokers |-> NoEntry]
      /\ TaskIdle.tasks = [b \in Brokers |-> NoEntry] /\ TaskIdle.pc = "idle"
  BY EntryFacts DEF TaskIdle, TaskWorker, TaskPcs
<1>5. Operation!View(Operation!Unborn) \in Operation!LifecycleObject
  BY DEF Operation!View, Operation!Unborn, Operation!LifecycleObject, Operation!Policies,
         Operation!TaskStates
<1>6. TypeOK
  <2>1. status \in [Brokers -> Entry]
    BY StateFacts, EntryFacts DEF Init, Stages
  <2>2. ops \in [OpIds -> Operation!LifecycleObject]
    BY <1>5 DEF Init, Operation!LifecycleInit
  <2>3. work \in [OpIds -> Work]
    BY DEF Init, Work
  <2>4. /\ spec \in [brokers : SUBSET Brokers, headless : BOOLEAN] /\ topicReady \in BOOLEAN
        /\ alive \subseteq Brokers /\ holds \subseteq Brokers
    BY <1>1 DEF Init, Scene
  <2>5. pods \in [Brokers -> {"none", "running", "terminating"}]
    BY DEF Init
  <2>6. objects \in [Brokers -> SUBSET {Config, Service, Volume}]
    BY DEF Init, Parts
  <2> QED
    BY <1>1, <1>3, <1>4, <2>1, <2>2, <2>3, <2>4, <2>5, <2>6
    DEF Init, TypeOK, KafkaWorker, Copies, TaskWorker, Work
<1>7. AllSound(ops, work, status)
  BY NoEntrySound, PlainSound DEF Init, AllSound, Plain
<1>8. AllSound(ops, work, [b \in Brokers |-> NoEntry])
  BY NoEntrySound DEF AllSound
<1> QED
  BY <1>2, <1>3, <1>4, <1>6, <1>7, <1>8
  DEF ActionInv, Init, EntriesSound, FillSound, Plain

-----------------------------------------------------------------------------
(* The KafkaCluster controller. *)

\* What a controller reads is what the API server holds; after an update of the status it
\* has what it wrote.
LEMMA ClusterCopy ==
  ASSUME TypeOK
  PROVE  /\ Cluster \in Copies /\ Cluster.status = status
         /\ Cluster.brokers = spec.brokers /\ Cluster.topic = topicReady
         /\ \A new \in [Brokers -> Entry] :
              /\ [Cluster EXCEPT !.status = new] \in Copies
              /\ [Cluster EXCEPT !.status = new].status = new
  BY DEF TypeOK, Cluster, Copies

\* The KafkaCluster controller between two passes.
LEMMA KafkaIdleType ==
  /\ KafkaIdle \in KafkaWorker /\ KafkaIdle.target = NoState /\ KafkaIdle.pc = "idle"
  /\ KafkaIdle.todo = {} /\ KafkaIdle.chosen = {}
  /\ KafkaIdle.copy.status = [b \in Brokers |-> NoEntry]
<1>1. NoCluster \in Copies /\ NoCluster.status = [b \in Brokers |-> NoEntry]
  BY EntryFacts DEF NoCluster, Copies
<1> QED BY <1>1, StateFacts DEF KafkaIdle, KafkaWorker, KafkaPcs

\* An empty status is sound.
LEMMA NothingSound ==
  ASSUME NEW os, NEW ws
  PROVE  AllSound(os, ws, [b \in Brokers |-> NoEntry])
  BY NoEntrySound DEF AllSound

\* A step of the KafkaCluster controller that leaves the operations alone.
LEMMA KafkaStepKeeps ==
  ASSUME ActionInv, UNCHANGED <<ops, work, task, alive, holds>>,
         spec' = spec, topicReady' \in BOOLEAN, wakeK' \in BOOLEAN, wakeT' \in BOOLEAN,
         scene' \in Scene,
         pods' \in [Brokers -> {"none", "running", "terminating"}],
         objects' \in [Brokers -> SUBSET {Config, Service, Volume}],
         status' \in [Brokers -> Entry], AllSound(ops, work, status'),
         kafka' \in KafkaWorker, AllSound(ops, work, kafka'.copy.status),
         kafka'.target \in Plain
  PROVE  ActionInv'
<1>1. TypeOK'
  BY DEF ActionInv, TypeOK, KafkaWorker, Copies, TaskWorker
<1>2. EntriesSound'
  BY DEF ActionInv, EntriesSound, AllSound, Sound
<1>3. FillSound'
  BY DEF ActionInv, FillSound
<1> QED BY <1>1, <1>2, <1>3 DEF ActionInv, Plain, Up

\* What the invariant says about the KafkaCluster controller.
LEMMA KafkaTypes ==
  ASSUME ActionInv
  PROVE  /\ kafka \in KafkaWorker /\ kafka.copy \in Copies
         /\ kafka.copy.status \in [Brokers -> Entry] /\ kafka.copy.brokers \subseteq Brokers
         /\ status \in [Brokers -> Entry]
         /\ AllSound(ops, work, status) /\ AllSound(ops, work, kafka.copy.status)
         /\ kafka.target \in Plain
  BY DEF ActionInv, TypeOK, KafkaWorker, Copies, EntriesSound

\* A pass that ends forgets its copy.
LEMMA IdleKeeps ==
  ASSUME ActionInv
  PROVE  /\ KafkaIdle \in KafkaWorker /\ AllSound(ops, work, KafkaIdle.copy.status)
         /\ KafkaIdle.target \in Plain
  BY KafkaIdleType, NothingSound DEF Plain

\* The pass reads the cluster.
LEMMA KafkaStartInv ==
  ASSUME ActionInv, KafkaStart
  PROVE  ActionInv'
<1>1. /\ kafka' \in KafkaWorker /\ kafka'.copy.status = status /\ kafka'.target = kafka.target
  BY KafkaTypes, ClusterCopy DEF ActionInv, KafkaStart, KafkaWorker, KafkaPcs
<1> QED
  BY <1>1, KafkaTypes, KafkaStepKeeps
  DEF KafkaStart, apiVars, opVars, envVars, ActionInv, TypeOK

\* A status is written as Publish does, and the worker takes it as its copy.
LEMMA UpdateBrokerStatusInv ==
  ASSUME ActionInv, NEW at, NEW new \in [Brokers -> Entry], NEW next \in KafkaWorker,
         UpdateBrokerStatus(at, new, next), AllSound(ops, work, new), next.target \in Plain
  PROVE  ActionInv'
<1>1. /\ kafka' \in KafkaWorker /\ kafka'.copy.status = new /\ kafka'.target = next.target
  BY KafkaTypes, ClusterCopy DEF ActionInv, UpdateBrokerStatus, KafkaWorker
<1> QED
  BY <1>1, KafkaTypes, KafkaStepKeeps
  DEF UpdateBrokerStatus, Publish, opVars, envVars, ActionInv, TypeOK

\* The status with one entry set for the chosen brokers.
LEMMA WithEntrySound ==
  ASSUME ActionInv, NEW e \in Entry, \A b \in Brokers : Sound(ops, work, b, e)
  PROVE  WithEntry(e) \in [Brokers -> Entry] /\ AllSound(ops, work, WithEntry(e))
  BY KafkaTypes DEF WithEntry, AllSound

\* The status with a field of the chosen brokers written: their graceful actions are those
\* at the API server, since UpdateBrokerStatus reads the cluster again.
LEMMA WithFieldSound ==
  ASSUME ActionInv
  PROVE  WithField \in [Brokers -> Entry] /\ AllSound(ops, work, WithField)
<1>1. WithField \in [Brokers -> Entry]
  BY KafkaTypes, EntryFacts DEF WithField
<1>2. ASSUME NEW b \in Brokers PROVE Sound(ops, work, b, WithField[b])
  <2>1. Sound(ops, work, b, status[b]) /\ status[b] \in Entry
    BY KafkaTypes DEF AllSound
  <2>2. Sound(ops, work, b, [status[b] EXCEPT !.known = TRUE])
    BY <2>1, KnownSound
  <2> QED BY <2>1, <2>2 DEF WithField
<1> QED BY <1>1, <1>2 DEF AllSound

\* The rack awareness and backup fields are written.
LEMMA WriteBackupInv ==
  ASSUME ActionInv, WriteBackup
  PROVE  ActionInv'
<1> DEFINE new == [b \in Brokers |-> IF b \in kafka.copy.brokers
                     THEN [kafka.copy.status[b] EXCEPT !.known = TRUE]
                     ELSE kafka.copy.status[b]]
<1>1. new \in [Brokers -> Entry]
  BY KafkaTypes, EntryFacts
<1>2. ASSUME NEW b \in Brokers PROVE Sound(ops, work, b, new[b])
  <2>1. Sound(ops, work, b, kafka.copy.status[b]) /\ kafka.copy.status[b] \in Entry
    BY KafkaTypes DEF AllSound
  <2>2. Sound(ops, work, b, [kafka.copy.status[b] EXCEPT !.known = TRUE])
    BY <2>1, KnownSound
  <2> QED BY <2>1, <2>2
<1>3. AllSound(ops, work, new)
  BY <1>2 DEF AllSound
<1>4. /\ [kafka.copy EXCEPT !.status = new] \in Copies
      /\ [kafka.copy EXCEPT !.status = new].status = new
  BY <1>1, KafkaTypes DEF Copies
<1>5. PICK c \in Copies : /\ kafka' = [kafka EXCEPT !.pc = "doomed", !.copy = c]
                          /\ c.status \in {kafka.copy.status, new, status}
  BY <1>4, KafkaTypes, ClusterCopy DEF WriteBackup, ActionInv
<1>6. kafka' \in KafkaWorker /\ kafka'.copy = c /\ kafka'.target = kafka.target
  BY <1>5, KafkaTypes DEF KafkaWorker, KafkaPcs
<1>7. status' \in {status, new} /\ wakeK' \in BOOLEAN /\ wakeT' \in BOOLEAN
  BY DEF WriteBackup, Publish, ActionInv, TypeOK
<1> HIDE DEF new
<1>8. AllSound(ops, work, kafka'.copy.status)
  BY <1>3, <1>5, <1>6, KafkaTypes
<1>9. status' \in [Brokers -> Entry] /\ AllSound(ops, work, status')
  BY <1>1, <1>3, <1>7, KafkaTypes
<1> QED
  BY <1>6, <1>7, <1>8, <1>9, KafkaTypes, KafkaStepKeeps
  DEF WriteBackup, opVars, envVars, ActionInv, TypeOK

\* A step that keeps the copy and the target, or ends the pass, and leaves the status.
LEMMA KafkaMoves ==
  ASSUME ActionInv, UNCHANGED <<ops, work, task, alive, holds, spec, status, wakeT>>,
         topicReady' \in BOOLEAN, wakeK' \in BOOLEAN, scene' \in Scene,
         pods' \in [Brokers -> {"none", "running", "terminating"}],
         objects' \in [Brokers -> SUBSET {Config, Service, Volume}],
         \/ kafka' = KafkaIdle
         \/ /\ kafka' \in KafkaWorker /\ kafka'.copy = kafka.copy
            /\ kafka'.target = kafka.target
  PROVE  ActionInv'
<1>1. /\ kafka' \in KafkaWorker /\ AllSound(ops, work, kafka'.copy.status)
      /\ kafka'.target \in Plain
  BY KafkaTypes, IdleKeeps
<1> QED
  BY <1>1, KafkaTypes, KafkaStepKeeps DEF ActionInv, TypeOK

\* reconcileKafkaPodDelete finds the pods whose broker left the spec.
LEMMA FindDoomedInv ==
  ASSUME ActionInv, FindDoomed
  PROVE  ActionInv'
<1>1. DoomedPods \subseteq Brokers /\ PendingGracefulDownscale \subseteq Brokers
  BY DEF DoomedPods, PendingGracefulDownscale
<1>2. /\ kafka' \in KafkaWorker /\ kafka'.copy = kafka.copy /\ kafka'.target = kafka.target
  BY <1>1, KafkaTypes DEF FindDoomed, KafkaWorker, KafkaPcs
<1> QED
  BY <1>2, KafkaMoves DEF FindDoomed, apiVars, opVars, envVars, ActionInv, TypeOK

\* The worker after a step that keeps its copy and its target.
Moved(k) == k \in KafkaWorker /\ k.copy = kafka.copy /\ k.target = kafka.target

\* The steps of a pass that leave its copy and its target alone.
LEMMA MovedForms ==
  ASSUME ActionInv, NEW p \in KafkaPcs, NEW t \in SUBSET Brokers, NEW c \in SUBSET Brokers
  PROVE  /\ Moved([kafka EXCEPT !.pc = p]) /\ Moved([kafka EXCEPT !.todo = t])
         /\ Moved([kafka EXCEPT !.pc = p, !.todo = t, !.chosen = c])
         /\ Moved([[kafka EXCEPT !.todo = t, !.chosen = c] EXCEPT !.pc = p])
<1>1. kafka \in KafkaWorker
  BY KafkaTypes
<1>2. Moved([kafka EXCEPT !.pc = p]) /\ Moved([kafka EXCEPT !.todo = t])
  BY <1>1 DEF Moved, KafkaWorker
<1>3. Moved([kafka EXCEPT !.pc = p, !.todo = t, !.chosen = c])
  BY <1>1 DEF Moved, KafkaWorker
<1>4. Moved([[kafka EXCEPT !.todo = t, !.chosen = c] EXCEPT !.pc = p])
  BY <1>1 DEF Moved, KafkaWorker
<1> QED BY <1>2, <1>3, <1>4

\* A doomed pod is deleted, passed over, or none is left.
LEMMA ReapNextInv ==
  ASSUME ActionInv, ReapNext
  PROVE  ActionInv'
<1>1. kafka.todo \subseteq Brokers /\ {"ensure", "objects"} \subseteq KafkaPcs
  BY KafkaTypes DEF KafkaWorker, KafkaPcs
<1>2. kafka' = KafkaIdle \/ Moved(kafka')
  <2>1. CASE kafka' = [kafka EXCEPT !.pc = "ensure"]
    BY <1>1, <2>1, MovedForms
  <2>2. ASSUME NEW b \in kafka.todo, kafka' = [kafka EXCEPT !.todo = @ \ {b}]
        PROVE  Moved(kafka')
    <3>1. kafka.todo \ {b} \in SUBSET Brokers
      BY <1>1
    <3> QED BY <1>1, <2>2, <3>1, MovedForms
  <2>3. ASSUME NEW b \in kafka.todo,
               kafka' = [kafka EXCEPT !.pc = "objects", !.todo = @ \ {b}, !.chosen = {b}]
        PROVE  Moved(kafka')
    <3>1. kafka.todo \ {b} \in SUBSET Brokers /\ {b} \in SUBSET Brokers
      BY <1>1
    <3> QED BY <1>1, <2>3, <3>1, MovedForms
  <2> QED BY <2>1, <2>2, <2>3 DEF ReapNext, KafkaRequeue
<1>3. /\ pods' \in [Brokers -> {"none", "running", "terminating"}]
      /\ wakeK' \in BOOLEAN
  BY DEF ReapNext, KafkaRequeue, ActionInv, TypeOK
<1> QED
  BY <1>2, <1>3, KafkaMoves DEF ReapNext, Moved, opVars, envVars, ActionInv, TypeOK

\* The objects of a deleted broker go.
LEMMA ReapObjectsInv ==
  ASSUME ActionInv, ReapObjects
  PROVE  ActionInv'
<1>1. kafka' = KafkaIdle \/ kafka' = [kafka EXCEPT !.pc = "forget"]
  BY DEF ReapObjects, KafkaRequeue
<1>2. kafka' = KafkaIdle \/ Moved(kafka')
  BY <1>1, MovedForms DEF KafkaPcs
<1>3. \E b \in Brokers : \E gone : objects' = [objects EXCEPT ![b] = @ \ gone]
  <2>1. kafka.chosen \subseteq Brokers
    BY KafkaTypes DEF KafkaWorker
  <2> QED BY <2>1 DEF ReapObjects
<1>4. objects' \in [Brokers -> SUBSET {Config, Service, Volume}]
  <2>0. PICK b \in Brokers : \E gone : objects' = [objects EXCEPT ![b] = objects[b] \ gone]
    BY <1>3
  <2>1. PICK gone : objects' = [objects EXCEPT ![b] = objects[b] \ gone]
    BY <2>0
  <2>2. objects[b] \ gone \in SUBSET {Config, Service, Volume}
    BY DEF ActionInv, TypeOK
  <2> QED BY <2>1, <2>2 DEF ActionInv, TypeOK
<1>5. wakeK' \in BOOLEAN
  BY DEF ReapObjects, KafkaRequeue
<1> QED
  BY <1>2, <1>4, <1>5, KafkaMoves
  DEF ReapObjects, Moved, opVars, envVars, ActionInv, TypeOK

\* The brokers are put in the order of reorderBrokers.
LEMMA ReorderBrokersInv ==
  ASSUME ActionInv, ReorderBrokers
  PROVE  ActionInv'
<1>1. PICK t \in SUBSET Brokers, r \in [Brokers -> 0..3] :
        kafka' = [kafka EXCEPT !.pc = "pods", !.todo = t, !.rank = r]
  <2> DEFINE missing == {b \in Brokers : pods[b] = "none"}
             claimed == [b \in Brokers |->
               IF b \in kafka.copy.brokers THEN objects[b] \cup {Volume} ELSE objects[b]]
             unfinished == {b \in missing :
               /\ kafka.copy.status[b].known /\ Volume \in claimed[b]
               /\ kafka.copy.status[b].state \in {Down("Required"), Down("Running")}}
             t == kafka.copy.brokers \cup unfinished
             r == [b \in Brokers |->
               IF b \in unfinished THEN 0
               ELSE IF ~kafka.copy.status[b].known THEN 1
               ELSE IF b \in missing THEN 2 ELSE 3]
  <2>1. t \in SUBSET Brokers
    BY KafkaTypes
  <2>2. r \in [Brokers -> 0..3]
    <3> HIDE DEF unfinished, missing
    <3> QED OBVIOUS
  <2>3. kafka' = [kafka EXCEPT !.pc = "pods", !.todo = t, !.rank = r]
    BY Zenon DEF ReorderBrokers
  <2> HIDE DEF t, r
  <2> QED BY <2>1, <2>2, <2>3
<1>2. Moved(kafka')
  BY <1>1, KafkaTypes DEF Moved, KafkaWorker, KafkaPcs
<1>3. objects' \in [Brokers -> SUBSET {Config, Service, Volume}]
  BY DEF ReorderBrokers, ActionInv, TypeOK
<1> QED
  BY <1>2, <1>3, KafkaMoves DEF ReorderBrokers, Moved, opVars, envVars, ActionInv, TypeOK

\* The pod of the next broker is compared, created or deleted.
LEMMA ReconcileKafkaPodInv ==
  ASSUME ActionInv, ReconcileKafkaPod
  PROVE  ActionInv'
<1>1. PICK b \in kafka.todo :
        /\ objects' = [objects EXCEPT ![b] = @ \cup (Parts(kafka.copy.headless) \ {Volume})]
        /\ pods' = pods \/ pods' = [pods EXCEPT ![b] = "running"]
        /\ \/ kafka' = [[kafka EXCEPT !.todo = @ \ {b}, !.chosen = {b}] EXCEPT !.pc = "created"]
           \/ kafka' = [[kafka EXCEPT !.todo = @ \ {b}, !.chosen = {b}] EXCEPT !.pc = "version"]
           \/ KafkaRequeue
  BY DEF ReconcileKafkaPod
<1>2. b \in Brokers /\ kafka.todo \ {b} \in SUBSET Brokers /\ {b} \in SUBSET Brokers
  BY <1>1, KafkaTypes DEF KafkaWorker
<1>3. {"created", "version"} \subseteq KafkaPcs
  BY DEF KafkaPcs
<1>4. kafka' = KafkaIdle \/ Moved(kafka')
  <2>1. /\ Moved([[kafka EXCEPT !.todo = @ \ {b}, !.chosen = {b}] EXCEPT !.pc = "created"])
        /\ Moved([[kafka EXCEPT !.todo = @ \ {b}, !.chosen = {b}] EXCEPT !.pc = "version"])
    BY <1>2, <1>3, MovedForms
  <2> QED BY <1>1, <2>1 DEF KafkaRequeue
<1>5. objects' \in [Brokers -> SUBSET {Config, Service, Volume}]
  BY <1>1, <1>2 DEF Parts, ActionInv, TypeOK
<1>6. pods' \in [Brokers -> {"none", "running", "terminating"}]
  BY <1>1, <1>2 DEF ActionInv, TypeOK
<1>7. wakeK' \in BOOLEAN
  BY DEF ReconcileKafkaPod, KafkaRequeue, ActionInv, TypeOK
<1> QED
  BY <1>4, <1>5, <1>6, <1>7, KafkaMoves
  DEF ReconcileKafkaPod, Moved, opVars, envVars, ActionInv, TypeOK

\* A disturbance uses up some of the budget and nothing else of the scene.
LEMMA SpendType ==
  ASSUME ActionInv, NEW what \in Disturbances, Spend(what)
  PROVE  /\ scene' \in Scene /\ scene'.init = scene.init /\ scene'.headless = scene.headless
         /\ scene'.joining = scene.joining /\ scene'.leaving = scene.leaving
         /\ \A d \in Disturbances : scene'.budget[d] <= scene.budget[d]
<1>1. scene \in Scene /\ scene.budget \in [Disturbances -> Nat]
  BY DEF ActionInv, TypeOK, Scene
<1>2. scene' = [scene EXCEPT !.budget = [scene.budget EXCEPT ![what] = @ - 1]]
  BY <1>1 DEF Spend, Scene
<1>3. [scene.budget EXCEPT ![what] = @ - 1] \in [Disturbances -> Nat]
  BY <1>1 DEF Spend
<1> QED BY <1>1, <1>2, <1>3 DEF Scene

\* The pass ends.
LEMMA KafkaFinishInv ==
  ASSUME ActionInv, KafkaFinish
  PROVE  ActionInv'
<1>1. kafka' = KafkaIdle /\ topicReady' \in BOOLEAN /\ wakeK' \in BOOLEAN
  BY DEF KafkaFinish, KafkaRequeue, ActionInv, TypeOK
<1>2. objects' \in [Brokers -> SUBSET {Config, Service, Volume}]
  BY DEF KafkaFinish, ActionInv, TypeOK
<1>3. scene' \in Scene
  BY SpendType DEF KafkaFinish, ActionInv, TypeOK, Disturbances
<1> QED
  BY <1>1, <1>2, <1>3, KafkaMoves DEF KafkaFinish, opVars, envVars, ActionInv, TypeOK

\* The writers of entries without a reference.
LEMMA StatusWritersInv ==
  ASSUME ActionInv, MarkDownscale \/ DeleteBrokerStatus \/ SetGracefulState
  PROVE  ActionInv'
<1>1. CASE MarkDownscale
  <2>1. /\ Known(Down("Required"), NoOp) \in Entry
        /\ \A b \in Brokers : Sound(ops, work, b, Known(Down("Required"), NoOp))
    BY PlainSound
  <2>2. /\ WithEntry(Known(Down("Required"), NoOp)) \in [Brokers -> Entry]
        /\ AllSound(ops, work, WithEntry(Known(Down("Required"), NoOp)))
    BY <2>1, WithEntrySound
  <2>3. /\ [kafka EXCEPT !.pc = "reap", !.chosen = {}] \in KafkaWorker
        /\ [kafka EXCEPT !.pc = "reap", !.chosen = {}].target = kafka.target
    BY KafkaTypes DEF KafkaWorker, KafkaPcs
  <2> QED BY <1>1, <2>2, <2>3, KafkaTypes, UpdateBrokerStatusInv DEF MarkDownscale
<1>2. CASE DeleteBrokerStatus
  <2>1. NoEntry \in Entry /\ \A b \in Brokers : Sound(ops, work, b, NoEntry)
    BY EntryFacts, NoEntrySound
  <2>2. WithEntry(NoEntry) \in [Brokers -> Entry] /\ AllSound(ops, work, WithEntry(NoEntry))
    BY <2>1, WithEntrySound
  <2>3. /\ [kafka EXCEPT !.pc = "reap", !.chosen = {}] \in KafkaWorker
        /\ [kafka EXCEPT !.pc = "reap", !.chosen = {}].target = kafka.target
    BY KafkaTypes DEF KafkaWorker, KafkaPcs
  <2> QED BY <1>2, <2>2, <2>3, KafkaTypes, UpdateBrokerStatusInv DEF DeleteBrokerStatus
<1>3. CASE SetGracefulState
  <2>1. /\ Known(kafka.target, NoOp) \in Entry
        /\ \A b \in Brokers : Sound(ops, work, b, Known(kafka.target, NoOp))
    BY KafkaTypes, PlainSound
  <2>2. /\ WithEntry(Known(kafka.target, NoOp)) \in [Brokers -> Entry]
        /\ AllSound(ops, work, WithEntry(Known(kafka.target, NoOp)))
    BY <2>1, WithEntrySound
  <2>3. /\ [kafka EXCEPT !.pc = "version", !.target = NoState] \in KafkaWorker
        /\ [kafka EXCEPT !.pc = "version", !.target = NoState].target \in Plain
    BY KafkaTypes, StateFacts DEF KafkaWorker, KafkaPcs, Plain
  <2> QED BY <1>3, <2>2, <2>3, UpdateBrokerStatusInv DEF SetGracefulState
<1> QED BY <1>1, <1>2, <1>3

\* The state that a new broker is to get is decided.
LEMMA PodCreatedInv ==
  ASSUME ActionInv, PodCreated
  PROVE  ActionInv'
<1> DEFINE asked == [kafka EXCEPT !.pc = "graceful", !.target = NewPodState(Cluster)]
           settled == [kafka EXCEPT !.pc = "version"]
<1>1. NewPodState(Cluster) \in Plain
  BY DEF NewPodState, Plain
<1>2. asked \in KafkaWorker /\ asked.target \in Plain
  BY <1>1, KafkaTypes, StateFacts DEF KafkaWorker, KafkaPcs
<1>3. settled \in KafkaWorker /\ settled.target \in Plain
  BY KafkaTypes DEF KafkaWorker, KafkaPcs
<1>4. UpdateBrokerStatus("created", WithField, asked)
        \/ UpdateBrokerStatus("created", WithField, settled)
  BY DEF PodCreated
<1> HIDE DEF asked, settled
<1> QED BY <1>2, <1>3, <1>4, WithFieldSound, UpdateBrokerStatusInv

\* The version of the broker is read and written to its status.
LEMMA ReadVersionInv ==
  ASSUME ActionInv, ReadVersion
  PROVE  ActionInv'
<1> DEFINE next == [kafka EXCEPT !.pc = "pods", !.chosen = {}]
<1>1. next \in KafkaWorker /\ next.target = kafka.target
  BY KafkaTypes DEF KafkaWorker, KafkaPcs
<1>2. CASE UpdateBrokerStatus("version", WithField, next)
  <2> HIDE DEF next
  <2> QED BY <1>1, <1>2, KafkaTypes, WithFieldSound, UpdateBrokerStatusInv
<1>3. CASE KafkaRequeue /\ UNCHANGED <<apiVars, opVars, envVars, task, wakeT, scene>>
  BY <1>3, KafkaMoves
  DEF KafkaRequeue, apiVars, opVars, envVars, ActionInv, TypeOK
<1> QED BY <1>2, <1>3 DEF ReadVersion

\* Every step of the KafkaCluster controller keeps the invariant.
LEMMA KafkaStepInv ==
  ASSUME ActionInv, KafkaStep
  PROVE  ActionInv'
  BY KafkaStartInv, WriteBackupInv, FindDoomedInv, ReapNextInv, ReapObjectsInv,
     ReorderBrokersInv, ReconcileKafkaPodInv, KafkaFinishInv, StatusWritersInv,
     PodCreatedInv, ReadVersionInv
  DEF KafkaStep

-----------------------------------------------------------------------------
(* The CruiseControlTask controller. *)

\* What the invariant says about the CruiseControlTask controller.
LEMMA TaskTypes ==
  ASSUME ActionInv
  PROVE  /\ task \in TaskWorker /\ task.tasks \in [Brokers -> Entry]
         /\ task.copy \in [Brokers -> Entry] /\ status \in [Brokers -> Entry]
         /\ AllSound(ops, work, task.copy) /\ AllSound(ops, work, task.tasks)
         /\ AllSound(ops, work, status)
  BY DEF ActionInv, TypeOK, TaskWorker, EntriesSound

\* The CruiseControlTask controller between two passes.
LEMMA TaskIdleType ==
  /\ TaskIdle \in TaskWorker /\ TaskIdle.copy = [b \in Brokers |-> NoEntry]
  /\ TaskIdle.tasks = [b \in Brokers |-> NoEntry] /\ TaskIdle.pc = "idle"
  BY EntryFacts DEF TaskIdle, TaskWorker, TaskPcs

\* A step of the CruiseControlTask controller that creates no operation.
LEMMA TaskStepKeeps ==
  ASSUME ActionInv, UNCHANGED <<ops, work, kafka, alive, holds, spec, topicReady, pods, objects>>,
         wakeK' \in BOOLEAN, wakeT' \in BOOLEAN, scene' \in Scene,
         status' \in [Brokers -> Entry], AllSound(ops, work, status'),
         task' \in TaskWorker, task'.pc # "fill",
         AllSound(ops, work, task'.copy), AllSound(ops, work, task'.tasks)
  PROVE  ActionInv'
<1>1. TypeOK'
  BY DEF ActionInv, TypeOK, KafkaWorker, Copies, TaskWorker
<1>2. EntriesSound'
  BY DEF ActionInv, EntriesSound, AllSound, Sound
<1> QED BY <1>1, <1>2 DEF ActionInv, Plain, Up, FillSound

\* ... and one that ends the pass.
LEMMA TaskIdleKeeps ==
  ASSUME ActionInv, UNCHANGED <<ops, work, kafka, alive, holds, spec, topicReady, pods, objects>>,
         wakeK' \in BOOLEAN, wakeT' \in BOOLEAN, scene' \in Scene,
         status' \in [Brokers -> Entry], AllSound(ops, work, status'), task' = TaskIdle
  PROVE  ActionInv'
  BY TaskIdleType, NothingSound, TaskStepKeeps

\* What FromResult and SetStateScheduled do to a state: the direction stays.
LEMMA StageChange ==
  ASSUME NEW s \in States, s # NoState, NEW stage \in Stages
  PROVE  /\ <<s[1], stage>> \in States /\ <<s[1], stage>> # NoState
         /\ Kind(<<s[1], stage>>) = Kind(s)
         /\ IsUpscale(<<s[1], stage>>) = IsUpscale(s)
  BY DEF States, NoState, Kind, IsUpscale, Stages

\* What an operation says about a task is a stage of a graceful action.
LEMMA StageOfType ==
  ASSUME NEW op \in Operation!LifecycleObject
  PROVE  StageOf(op) \in Stages
  BY DEF StageOf, Stages, Operation!LifecycleObject, Operation!TaskStates,
         Operation!RunningStates, Operation!EndStates

\* A task takes the stage of its operation and keeps its direction.
LEMMA FromResultSound ==
  ASSUME ActionInv, NEW b \in Brokers, NEW t \in Entry, Sound(ops, work, b, t)
  PROVE  FromResult(t) \in Entry /\ Sound(ops, work, b, FromResult(t))
<1>1. CASE ~(t.known /\ t.ref # NoOp)
  BY <1>1 DEF FromResult
<1>2. CASE t.known /\ t.ref # NoOp
  <2>1. t.ref \in OpIds /\ t.state \in States /\ t.state # NoState
    BY <1>2, EntryFacts DEF Sound
  <2>2. StageOf(ops[t.ref]) \in Stages
    BY <2>1, StageOfType DEF ActionInv, TypeOK
  <2> DEFINE s == <<t.state[1], StageOf(ops[t.ref])>>
  <2>3. s \in States /\ s # NoState /\ Kind(s) = Kind(t.state)
    BY <2>1, <2>2, StageChange
  <2>4. FromResult(t) = [t EXCEPT !.state = s]
    BY <1>2 DEF FromResult
  <2> HIDE DEF s
  <2>5. /\ [t EXCEPT !.state = s] \in Entry /\ [t EXCEPT !.state = s].ref = t.ref
        /\ [t EXCEPT !.state = s].state = s
    BY <2>3 DEF Entry
  <2> QED BY <1>2, <2>3, <2>4, <2>5 DEF Sound
<1> QED BY <1>1, <1>2

\* The tasks are the entries with an active graceful action.
LEMMA ActiveTasksSound ==
  ASSUME ActionInv
  PROVE  ActiveTasks(status) \in [Brokers -> Entry] /\ AllSound(ops, work, ActiveTasks(status))
  BY TaskTypes, EntryFacts, NoEntrySound DEF ActiveTasks, AllSound

\* The tasks are laid over the entries that are still there.
LEMMA SyncStateSound ==
  ASSUME ActionInv
  PROVE  /\ SyncState(status, task.tasks) \in [Brokers -> Entry]
         /\ AllSound(ops, work, SyncState(status, task.tasks))
  BY TaskTypes DEF SyncState, AllSound

\* The pass reads the cluster and takes the tasks from its status.
LEMMA TaskStartInv ==
  ASSUME ActionInv, TaskStart
  PROVE  ActionInv'
<1> DEFINE started == [TaskIdle EXCEPT !.pc = "list", !.copy = status,
                                       !.tasks = ActiveTasks(status)]
<1>1. task' = TaskIdle \/ task' = started
  BY DEF TaskStart
<1>2. /\ started \in TaskWorker /\ started.pc = "list" /\ started.copy = status
      /\ started.tasks = ActiveTasks(status)
  BY TaskIdleType, TaskTypes, ActiveTasksSound DEF TaskWorker, TaskPcs
<1> HIDE DEF started
<1>3. /\ UNCHANGED <<ops, work, kafka, alive, holds, spec, topicReady, pods, objects>>
      /\ wakeK' \in BOOLEAN /\ wakeT' \in BOOLEAN /\ scene' \in Scene /\ status' = status
  BY DEF TaskStart, apiVars, opVars, envVars, ActionInv, TypeOK
<1>4. CASE task' = TaskIdle
  BY <1>3, <1>4, TaskTypes, TaskIdleKeeps
<1>5. CASE task' = started
  BY <1>2, <1>3, <1>5, TaskTypes, ActiveTasksSound, TaskStepKeeps
<1> QED BY <1>1, <1>4, <1>5

\* The tasks learn from their operations.
LEMMA TaskListInv ==
  ASSUME ActionInv, TaskList
  PROVE  ActionInv'
<1> DEFINE tasks == [b \in Brokers |-> FromResult(task.tasks[b])]
           none == [b \in Brokers |-> NoEntry]
<1>1. \A b \in Brokers : /\ FromResult(task.tasks[b]) \in Entry
                         /\ Sound(ops, work, b, FromResult(task.tasks[b]))
  BY TaskTypes, FromResultSound DEF AllSound
<1>2. tasks \in [Brokers -> Entry] /\ AllSound(ops, work, tasks)
  BY <1>1 DEF AllSound
<1>3. none \in [Brokers -> Entry] /\ AllSound(ops, work, none)
  BY EntryFacts, NothingSound
<1>4. \E pc \in {"plan", "sync"} :
        task' = [task EXCEPT !.tasks = tasks, !.copy = none, !.pc = pc]
  BY DEF TaskList
<1> HIDE DEF tasks, none
<1>5. task' \in TaskWorker /\ task'.pc # "fill" /\ task'.copy = none /\ task'.tasks = tasks
  BY <1>2, <1>3, <1>4, TaskTypes DEF TaskWorker, TaskPcs
<1> QED
  BY <1>2, <1>3, <1>5, TaskTypes, TaskStepKeeps
  DEF TaskList, apiVars, opVars, envVars, ActionInv, TypeOK

\* The tasks are written to the status.
LEMMA UpdateStatusInv ==
  ASSUME ActionInv, TaskSync \/ TaskSchedule
  PROVE  ActionInv'
<1>1. /\ UNCHANGED <<ops, work, kafka, alive, holds, spec, topicReady, pods, objects>>
      /\ wakeK' \in BOOLEAN /\ wakeT' \in BOOLEAN /\ scene' \in Scene
      /\ status' = SyncState(status, task.tasks)
      /\ task' = [task EXCEPT !.pc = "plan"] \/ task' = TaskIdle
  BY DEF TaskSync, TaskSchedule, UpdateStatus, Publish, opVars, envVars, ActionInv, TypeOK
<1>2. CASE task' = TaskIdle
  BY <1>1, <1>2, SyncStateSound, TaskIdleKeeps
<1>3. CASE task' = [task EXCEPT !.pc = "plan"]
  <2>1. /\ task' \in TaskWorker /\ task'.pc # "fill" /\ task'.copy = task.copy
        /\ task'.tasks = task.tasks
    BY <1>3, TaskTypes DEF TaskWorker, TaskPcs
  <2> QED BY <1>1, <2>1, SyncStateSound, TaskTypes, TaskStepKeeps
<1> QED BY <1>1, <1>2, <1>3

-----------------------------------------------------------------------------
(* The operations. *)

\* An operation that exists keeps its work and never becomes unborn again.
Grows ==
  \A o \in OpIds : ops[o].phase # "unborn" => ops'[o].phase # "unborn" /\ work'[o] = work[o]

\* A sound entry stays sound when operations move on, since what an operation was created
\* for does not change.
LEMMA StaysSound ==
  ASSUME Grows, NEW entries \in [Brokers -> Entry], AllSound(ops, work, entries)
  PROVE  AllSound(ops', work', entries)
<1> SUFFICES ASSUME NEW b \in Brokers PROVE Sound(ops', work', b, entries[b])
  BY DEF AllSound
<1>1. Sound(ops, work, b, entries[b]) /\ entries[b] \in Entry
  BY DEF AllSound
<1>2. entries[b].ref # NoOp => entries[b].ref \in OpIds
  BY <1>1, EntryFacts
<1> QED BY <1>1, <1>2 DEF Sound, Grows

\* A step that only adds or advances operations.
LEMMA OpStepKeeps ==
  ASSUME ActionInv, Grows, UNCHANGED <<status, kafka, spec, topicReady, pods, objects>>,
         alive' \subseteq Brokers, holds' \subseteq Brokers,
         wakeK' \in BOOLEAN, wakeT' \in BOOLEAN, scene' \in Scene,
         ops' \in [OpIds -> Operation!LifecycleObject], work' \in [OpIds -> Work],
         task' \in TaskWorker, AllSound(ops', work', task'.copy),
         AllSound(ops', work', task'.tasks), FillSound'
  PROVE  ActionInv'
<1>1. TypeOK'
  BY DEF ActionInv, TypeOK, KafkaWorker, Copies, TaskWorker, Work
<1>2. AllSound(ops', work', status) /\ AllSound(ops', work', kafka.copy.status)
  BY KafkaTypes, StaysSound
<1>3. EntriesSound'
  BY <1>2 DEF EntriesSound, AllSound, Sound
<1> QED BY <1>1, <1>3 DEF ActionInv, Plain, Up

\* One operation changes.
LEMMA BecomesFacts ==
  ASSUME ActionInv, NEW o \in OpIds, NEW op \in Operation!LifecycleObject,
         op.phase # "unborn", ops' = [ops EXCEPT ![o] = op], work' = work
  PROVE  /\ ops' \in [OpIds -> Operation!LifecycleObject] /\ Grows
         /\ ops'[o] = op /\ \A p \in OpIds \ {o} : ops'[p] = ops[p]
<1>1. ops \in [OpIds -> Operation!LifecycleObject]
  BY DEF ActionInv, TypeOK
<1> QED BY <1>1 DEF Grows

\* The object that Create leaves.
LEMMA CreateFacts ==
  ASSUME ActionInv, NEW o \in OpIds, Operation!Create(o, "retry")
  PROVE  /\ ops' \in [OpIds -> Operation!LifecycleObject]
         /\ ops[o].phase = "unborn"
         /\ ops'[o].phase = "live" /\ ops'[o].policy = "retry" /\ ops'[o].state = ""
         /\ ops'[o].deleting = FALSE
         /\ \A p \in OpIds \ {o} : ops'[p] = ops[p]
<1> DEFINE fresh == Operation!View(Operation!Unborn)
           new == [fresh EXCEPT !.phase = "live", !.policy = "retry"]
<1>1. fresh \in Operation!LifecycleObject /\ fresh.state = "" /\ fresh.deleting = FALSE
  BY DEF Operation!View, Operation!Unborn, Operation!LifecycleObject, Operation!Policies,
         Operation!TaskStates
<1>2. ops' = [ops EXCEPT ![o] = new] /\ ops[o].phase = "unborn"
  BY DEF Operation!Create, Operation!Becomes
<1> HIDE DEF fresh
<1>3. /\ new \in Operation!LifecycleObject /\ new.phase = "live" /\ new.policy = "retry"
      /\ new.state = "" /\ new.deleting = FALSE
  BY <1>1 DEF Operation!LifecycleObject, Operation!Policies
<1> HIDE DEF new
<1> QED BY <1>2, <1>3 DEF ActionInv, TypeOK

\* An operation is created for tasks that ask for it.
LEMMA CreateInv ==
  ASSUME ActionInv, task.pc = "plan", NEW kind \in {"add_broker", "remove_broker"},
         NEW bs \in SUBSET Brokers, CreateCCOperation(kind, bs),
         \A b \in bs : task.tasks[b].state # NoState /\ Kind(task.tasks[b].state) = kind,
         UNCHANGED <<apiVars, envVars, kafka, wakeK, wakeT, scene>>
  PROVE  ActionInv'
<1>1. PICK o \in OpIds :
        /\ Operation!Create(o, "retry")
        /\ work' = [work EXCEPT ![o] = [kind |-> kind, brokers |-> bs]]
        /\ task' = [task EXCEPT !.pc = "fill", !.op = o]
  BY DEF CreateCCOperation
<1>2. work' \in [OpIds -> Work] /\ work'[o].kind = kind /\ work'[o].brokers = bs
  BY <1>1 DEF ActionInv, TypeOK, Work
<1>3. Grows
  BY <1>1, CreateFacts DEF Grows, ActionInv, TypeOK
<1>4. /\ task' \in TaskWorker /\ task'.pc = "fill" /\ task'.op = o
      /\ task'.tasks = task.tasks /\ task'.copy = task.copy
  BY <1>1, TaskTypes DEF TaskWorker, TaskPcs
<1>5. FillSound'
  <2>1. o # NoOp
    BY InstanceAssumption DEF NoOp
  <2>2. /\ task'.op # NoOp /\ ops'[task'.op].phase # "unborn"
        /\ \A b \in work'[task'.op].brokers :
             /\ task'.tasks[b].state # NoState
             /\ work'[task'.op].kind = Kind(task'.tasks[b].state)
    BY <1>1, <1>2, <1>4, <2>1, CreateFacts
  <2> QED BY <2>2 DEF FillSound, Kind, IsUpscale, NoState
<1>6. AllSound(ops', work', task'.copy) /\ AllSound(ops', work', task'.tasks)
  BY <1>3, <1>4, TaskTypes, StaysSound
<1> QED
  BY <1>1, <1>2, <1>3, <1>4, <1>5, <1>6, CreateFacts, OpStepKeeps
  DEF apiVars, envVars, ActionInv, TypeOK

\* The direction of a required action decides the kind of the operation.
LEMMA RequiredStates ==
  ASSUME NEW s \in States, IsRequiredState(s)
  PROVE  /\ s # NoState
         /\ s[1] = "Upscale" => Kind(s) = "add_broker"
         /\ s[1] = "Downscale" => Kind(s) = "remove_broker"
<1>1. s[2] = "Required" /\ NoState[2] = ""
  BY DEF IsRequiredState, NoState
<1> QED BY <1>1 DEF Kind, IsUpscale

\* The required upscales get one operation, else the downscales.
LEMMA TaskPlanInv ==
  ASSUME ActionInv, TaskPlan
  PROVE  ActionInv'
<1>1. \A b \in RequiredTasks("Upscale") : /\ b \in Brokers /\ task.tasks[b].state # NoState
                                          /\ Kind(task.tasks[b].state) = "add_broker"
  <2> SUFFICES ASSUME NEW b \in RequiredTasks("Upscale")
               PROVE  /\ b \in Brokers /\ task.tasks[b].state # NoState
                      /\ Kind(task.tasks[b].state) = "add_broker"
    OBVIOUS
  <2>1. b \in Brokers /\ task.tasks[b].state[1] = "Upscale" /\ IsRequiredState(task.tasks[b].state)
    BY DEF RequiredTasks
  <2>2. task.tasks[b].state \in States
    BY <2>1, TaskTypes, EntryFacts
  <2> QED BY <2>1, <2>2, RequiredStates
<1>2. \A b \in RequiredTasks("Downscale") : /\ b \in Brokers /\ task.tasks[b].state # NoState
                                            /\ Kind(task.tasks[b].state) = "remove_broker"
  <2> SUFFICES ASSUME NEW b \in RequiredTasks("Downscale")
               PROVE  /\ b \in Brokers /\ task.tasks[b].state # NoState
                      /\ Kind(task.tasks[b].state) = "remove_broker"
    OBVIOUS
  <2>1. b \in Brokers /\ task.tasks[b].state[1] = "Downscale" /\ IsRequiredState(task.tasks[b].state)
    BY DEF RequiredTasks
  <2>2. task.tasks[b].state \in States
    BY <2>1, TaskTypes, EntryFacts
  <2> QED BY <2>1, <2>2, RequiredStates
<1>3. CASE /\ CreateCCOperation("add_broker", RequiredTasks("Upscale"))
           /\ UNCHANGED <<apiVars, envVars, kafka, wakeK, wakeT, scene>>
  <2>1. RequiredTasks("Upscale") \in SUBSET Brokers
    BY <1>1
  <2> QED BY <1>1, <1>3, <2>1, CreateInv DEF TaskPlan
<1>4. CASE /\ \E b \in RequiredTasks("Downscale") : CreateCCOperation("remove_broker", {b})
           /\ UNCHANGED <<apiVars, envVars, kafka, wakeK, wakeT, scene>>
  <2>1. PICK b \in RequiredTasks("Downscale") : CreateCCOperation("remove_broker", {b})
    BY <1>4
  <2>2. {b} \in SUBSET Brokers
    BY <1>2
  <2> QED BY <1>2, <1>4, <2>1, <2>2, CreateInv DEF TaskPlan
<1>5. CASE /\ task' = TaskIdle /\ wakeT' \in BOOLEAN
           /\ UNCHANGED <<apiVars, opVars, envVars, kafka, wakeK, scene>>
  BY <1>5, TaskTypes, TaskIdleKeeps DEF apiVars, opVars, envVars, ActionInv, TypeOK
<1>6. wakeT \in BOOLEAN
  BY DEF ActionInv, TypeOK
<1> QED BY <1>3, <1>4, <1>5, <1>6 DEF TaskPlan, TaskRequeue

\* The tasks of the new operation refer to it: the one step at which a reference is made.
LEMMA FillOperationInv ==
  ASSUME ActionInv, FillOperation
  PROVE  ActionInv'
<1>1. /\ task.op \in OpIds /\ task.op # NoOp /\ ops[task.op].phase # "unborn"
      /\ \A b \in work[task.op].brokers :
           /\ task.tasks[b].state # NoState
           /\ work[task.op].kind = Kind(task.tasks[b].state)
  BY TaskTypes DEF FillOperation, ActionInv, FillSound, TaskWorker
<1>2. ops' = [ops EXCEPT ![task.op] = [ops[task.op] EXCEPT !.set = TRUE]] /\ work' = work
  BY DEF FillOperation, Operation!SetTask, Operation!Becomes
<1>3. ops' \in [OpIds -> Operation!LifecycleObject] /\ Grows
  <2> DEFINE filled == [ops[task.op] EXCEPT !.set = TRUE]
  <2>1. ops[task.op] \in Operation!LifecycleObject
    BY <1>1 DEF ActionInv, TypeOK
  <2>2. filled \in Operation!LifecycleObject /\ filled.phase = ops[task.op].phase
    BY <2>1 DEF Operation!LifecycleObject
  <2> HIDE DEF filled
  <2>3. ops' = [ops EXCEPT ![task.op] = filled]
    BY <1>2 DEF filled
  <2> QED BY <1>1, <1>2, <2>2, <2>3, BecomesFacts
<1> DEFINE tasks == [b \in Brokers |-> IF b \in work[task.op].brokers
                                         THEN Scheduled(task.tasks[b]) ELSE task.tasks[b]]
<1>4. task' = [task EXCEPT !.pc = "schedule", !.tasks = tasks]
  BY DEF FillOperation
<1>5. ASSUME NEW b \in Brokers
      PROVE  tasks[b] \in Entry /\ Sound(ops, work, b, tasks[b])
  <2>1. CASE b \notin work[task.op].brokers
    BY <2>1, TaskTypes DEF AllSound
  <2>2. CASE b \in work[task.op].brokers
    <3> DEFINE s == <<task.tasks[b].state[1], "Scheduled">>
    <3>1. task.tasks[b].state \in States
      BY TaskTypes, EntryFacts
    <3>2. s \in States /\ s # NoState /\ Kind(s) = Kind(task.tasks[b].state)
      BY <1>1, <2>2, <3>1, StageChange DEF Stages
    <3>3. tasks[b] = Known(s, task.op)
      BY <2>2 DEF Scheduled
    <3> HIDE DEF s, tasks
    <3>4. tasks[b] \in Entry /\ tasks[b].state = s /\ tasks[b].ref = task.op
      BY <1>1, <3>2, <3>3, EntryFacts
    <3> QED BY <1>1, <2>2, <3>2, <3>4 DEF Sound
  <2> QED BY <2>1, <2>2
<1>6. tasks \in [Brokers -> Entry] /\ AllSound(ops, work, tasks)
  BY <1>5 DEF AllSound
<1> HIDE DEF tasks
<1>7. /\ task' \in TaskWorker /\ task'.pc = "schedule" /\ task'.tasks = tasks
      /\ task'.copy = task.copy
  BY <1>4, <1>6, TaskTypes DEF TaskWorker, TaskPcs
<1>8. AllSound(ops', work', task'.copy) /\ AllSound(ops', work', task'.tasks)
  BY <1>3, <1>6, <1>7, TaskTypes, StaysSound
<1>9. FillSound'
  BY <1>7 DEF FillSound
<1>10. work' \in [OpIds -> Work]
  BY <1>2 DEF ActionInv, TypeOK, Work
<1> QED
  BY <1>2, <1>3, <1>7, <1>8, <1>9, <1>10, OpStepKeeps
  DEF FillOperation, apiVars, envVars, ActionInv, TypeOK

\* Every step of the CruiseControlTask controller keeps the invariant.
LEMMA TaskStepInv ==
  ASSUME ActionInv, TaskStep
  PROVE  ActionInv'
  BY TaskStartInv, TaskListInv, UpdateStatusInv, TaskPlanInv, FillOperationInv DEF TaskStep

\* The steps of an operation once it exists.
LEMMA LiveStep ==
  ASSUME ActionInv, NEW o \in OpIds, work' = work,
         \/ Operation!Edit(o) \/ Operation!FirstExecution(o) \/ Operation!RetryExecution(o)
         \/ Operation!Progress(o) \/ Operation!StopExecution(o) \/ Operation!Remove(o)
  PROVE  /\ ops' \in [OpIds -> Operation!LifecycleObject] /\ Grows
         /\ \A p \in OpIds \ {o} : ops'[p] = ops[p]
<1>1. ops[o] \in Operation!LifecycleObject
  BY DEF ActionInv, TypeOK
<1> SUFFICES \E op \in Operation!LifecycleObject :
               op.phase # "unborn" /\ ops' = [ops EXCEPT ![o] = op]
  BY BecomesFacts
<1>2. CASE Operation!Edit(o)
  <2>1. PICK policy \in Operation!Policies, paused \in BOOLEAN, deleting \in BOOLEAN :
          ops' = [ops EXCEPT ![o] = [ops[o] EXCEPT !.policy = policy, !.paused = paused,
                                                   !.deleting = deleting]]
    BY <1>2 DEF Operation!Edit, Operation!Becomes
  <2> DEFINE op == [ops[o] EXCEPT !.policy = policy, !.paused = paused, !.deleting = deleting]
  <2>2. op \in Operation!LifecycleObject
    BY <1>1 DEF Operation!LifecycleObject
  <2>3. op.phase = "live"
    BY <1>1, <1>2 DEF Operation!Edit, Operation!LifecycleObject
  <2> HIDE DEF op
  <2> QED BY <2>1, <2>2, <2>3 DEF op
<1>3. ASSUME NEW s \in Operation!TaskStates, ops[o].phase = "live",
             ops' = [ops EXCEPT ![o] = [ops[o] EXCEPT !.state = s]]
      PROVE  \E op \in Operation!LifecycleObject :
               op.phase # "unborn" /\ ops' = [ops EXCEPT ![o] = op]
  <2> DEFINE op == [ops[o] EXCEPT !.state = s]
  <2>1. op \in Operation!LifecycleObject /\ op.phase = "live"
    BY <1>1, <1>3 DEF Operation!LifecycleObject
  <2> QED BY <1>3, <2>1
<1>4. /\ Operation!Begun \subseteq Operation!TaskStates
      /\ {"InExecution"} \cup Operation!EndStates \subseteq Operation!TaskStates
  BY DEF Operation!Begun, Operation!TaskStates, Operation!RunningStates, Operation!EndStates
<1>5. CASE Operation!FirstExecution(o) \/ Operation!StopExecution(o) \/ Operation!Progress(o)
  BY <1>3, <1>4, <1>5
  DEF Operation!FirstExecution, Operation!StopExecution, Operation!Progress, Operation!Becomes
<1>6. CASE Operation!RetryExecution(o)
  <2>1. PICK n \in Nat : n = ops[o].retries + 1
    BY <1>1 DEF Operation!LifecycleObject
  <2>2. PICK s \in Operation!Begun :
          ops' = [ops EXCEPT ![o] = [ops[o] EXCEPT !.state = s, !.retries = n]]
    BY <1>6, <2>1 DEF Operation!RetryExecution, Operation!Becomes
  <2>3. s \in Operation!TaskStates /\ ops[o].phase = "live"
    BY <1>4, <1>6 DEF Operation!RetryExecution
  <2> DEFINE op == [ops[o] EXCEPT !.state = s, !.retries = n]
  <2>4. op \in Operation!LifecycleObject /\ op.phase = "live"
    BY <1>1, <2>1, <2>3 DEF Operation!LifecycleObject
  <2> QED BY <2>2, <2>4
<1>7. CASE Operation!Remove(o)
  BY <1>1, <1>7 DEF Operation!Remove, Operation!Becomes, Operation!LifecycleObject
<1> QED BY <1>2, <1>5, <1>6, <1>7

\* The operations start, progress, stop, are edited or removed.
LEMMA OpStepInv ==
  ASSUME ActionInv, NEW o \in OpIds,
         OpStarts(o) \/ OpProgresses(o) \/ OpStops(o) \/ OpEdited(o) \/ OpRemoved(o)
  PROVE  ActionInv'
<1>1. /\ work' = work /\ UNCHANGED <<apiVars, alive, kafka, task, wakeK>> /\ wakeT' = TRUE
  BY DEF OpStarts, OpProgresses, OpStops, OpEdited, OpRemoved, OpChanged
<1>2. ops' \in [OpIds -> Operation!LifecycleObject] /\ Grows
  BY <1>1, LiveStep DEF OpStarts, OpProgresses, OpStops, OpEdited, OpRemoved
<1>3. scene' \in Scene
  BY SpendType
  DEF OpStarts, OpProgresses, OpStops, OpEdited, OpRemoved, Disturbances, ActionInv, TypeOK
<1>4. holds' \subseteq Brokers
  <2>1. work[o].brokers \subseteq Brokers /\ holds \subseteq Brokers
    BY DEF ActionInv, TypeOK
  <2> QED BY <2>1 DEF OpStarts, OpProgresses, OpStops, OpEdited, OpRemoved
<1>5. AllSound(ops', work', task'.copy) /\ AllSound(ops', work', task'.tasks)
  BY <1>1, <1>2, TaskTypes, StaysSound
<1>6. FillSound'
  <2>1. ASSUME task.pc = "fill" PROVE ops'[task.op].phase # "unborn"
    <3>1. task.op \in OpIds /\ ops[task.op].phase # "unborn"
      BY <2>1, TaskTypes DEF ActionInv, FillSound, TaskWorker
    <3> QED BY <1>2, <3>1 DEF Grows
  <2> QED BY <1>1, <2>1 DEF ActionInv, FillSound
<1>7. work' \in [OpIds -> Work] /\ task' \in TaskWorker
  BY <1>1, TaskTypes DEF ActionInv, TypeOK, Work
<1> QED
  BY <1>1, <1>2, <1>3, <1>4, <1>5, <1>6, <1>7, OpStepKeeps DEF apiVars, ActionInv, TypeOK

-----------------------------------------------------------------------------
(* The surroundings. *)

\* A step that leaves the status, the workers and the operations alone.
LEMMA OutsideInv ==
  ASSUME ActionInv, UNCHANGED <<status, ops, work, kafka, task, topicReady, objects, holds>>,
         spec' \in [brokers : SUBSET Brokers, headless : BOOLEAN],
         pods' \in [Brokers -> {"none", "running", "terminating"}],
         alive' \subseteq Brokers, wakeK' \in BOOLEAN, wakeT' \in BOOLEAN, scene' \in Scene
  PROVE  ActionInv'
<1>1. TypeOK'
  BY DEF ActionInv, TypeOK, KafkaWorker, Copies, TaskWorker
<1> QED BY <1>1 DEF ActionInv, EntriesSound, AllSound, Sound, FillSound, Plain, Up

\* A user edits the brokers or the services of the spec.
LEMMA EditInv ==
  ASSUME ActionInv, Edit
  PROVE  ActionInv'
<1>1. scene' \in Scene
  BY SpendType DEF Edit, Disturbances
<1>2. scene.joining \subseteq Brokers /\ spec \in [brokers : SUBSET Brokers, headless : BOOLEAN]
  BY DEF ActionInv, TypeOK, Scene
<1>3. spec' \in [brokers : SUBSET Brokers, headless : BOOLEAN]
  <2>1. CASE spec' = [spec EXCEPT !.headless = ~@]
    BY <1>2, <2>1
  <2>2. ASSUME NEW b \in scene.joining, spec' = [spec EXCEPT !.brokers = @ \cup {b}]
        PROVE  spec' \in [brokers : SUBSET Brokers, headless : BOOLEAN]
    BY <1>2, <2>2
  <2>3. ASSUME NEW b, spec' = [spec EXCEPT !.brokers = @ \ {b}]
        PROVE  spec' \in [brokers : SUBSET Brokers, headless : BOOLEAN]
    BY <1>2, <2>3
  <2> QED BY <2>1, <2>2, <2>3 DEF Edit
<1> QED BY <1>1, <1>3, OutsideInv DEF Edit, opVars, envVars, ActionInv, TypeOK

\* Pods come and go.
LEMMA PodsInv ==
  ASSUME ActionInv, NEW b \in Brokers, Evict(b) \/ PodGone(b) \/ ComesUp(b) \/ GoesDown(b)
  PROVE  ActionInv'
<1>1. scene' \in Scene
  BY SpendType DEF Evict, PodGone, ComesUp, GoesDown, Disturbances, ActionInv, TypeOK
<1>2. /\ pods' \in [Brokers -> {"none", "running", "terminating"}] /\ alive' \subseteq Brokers
      /\ wakeK' \in BOOLEAN
  BY DEF Evict, PodGone, ComesUp, GoesDown, apiVars, envVars, ActionInv, TypeOK
<1> QED
  BY <1>1, <1>2, OutsideInv
  DEF Evict, PodGone, ComesUp, GoesDown, apiVars, opVars, envVars, ActionInv, TypeOK

\* A pass of a controller fails.
LEMMA FailuresInv ==
  ASSUME ActionInv, KafkaFails \/ TaskFails
  PROVE  ActionInv'
<1>1. scene' \in Scene
  BY SpendType DEF KafkaFails, TaskFails, Disturbances
<1>2. CASE KafkaFails
  BY <1>1, <1>2, KafkaMoves
  DEF KafkaFails, KafkaRequeue, apiVars, opVars, envVars, ActionInv, TypeOK
<1>3. CASE TaskFails
  BY <1>1, <1>3, TaskTypes, TaskIdleKeeps
  DEF TaskFails, TaskRequeue, apiVars, opVars, envVars, ActionInv, TypeOK
<1> QED BY <1>2, <1>3

\* Every step keeps the invariant.
LEMMA NextInv == ActionInv /\ [Next]_vars => ActionInv'
<1> SUFFICES ASSUME ActionInv, [Next]_vars PROVE ActionInv'
  OBVIOUS
<1>1. CASE Next
  BY <1>1, KafkaStepInv, TaskStepInv, EditInv, FailuresInv, PodsInv, OpStepInv
  DEF Next, Surroundings
<1>2. CASE UNCHANGED vars
  BY <1>2, OutsideInv DEF vars, apiVars, opVars, envVars, ActionInv, TypeOK
<1> QED BY <1>1, <1>2

\* The inductive invariant holds in every state.
LEMMA Invariance == Spec => []ActionInv
  BY InitInv, NextInv, PTL DEF Spec

\* TypeOK for any brokers, any number of operations and any scene: in particular FromResult
\* and SetStateScheduled only ever put states of CruiseControlState into brokersState.
THEOREM GracefulTypes == Spec => []TypeOK
<1>1. ActionInv => TypeOK
  BY DEF ActionInv
<1> QED BY <1>1, Invariance, PTL

\* RefMatchesWork for any brokers, any number of operations and any scene, failures, edits
\* and evictions included: a state that says that an operation runs for a broker refers to
\* an operation that was created for this broker and moves data in this direction, although
\* the reference is computed from one read of the status and laid over another (TaskPlan,
\* FillOperation, SyncState).
THEOREM RefMatchesWorkHolds == Spec => []RefMatchesWork
<1>1. ActionInv => RefMatchesWork
  BY DEF ActionInv, EntriesSound, AllSound, Sound, RefMatchesWork, Kind
<1> QED BY <1>1, Invariance, PTL
=============================================================================
