----------------------------- MODULE AlertManager -----------------------------
(***************************************************************************)
(* The alert manager of the operator: Prometheus alerts are posted to an   *)
(* HTTP server, kept in a store shared by the request goroutines and       *)
(* turned into edits of the KafkaCluster (upScale, downScale, addPvc,      *)
(* resizePvc).                                                             *)
(*                                                                         *)
(* Several requests run at once.  The store has a mutex, but the loop of   *)
(* the dispatcher ranges over the map without it.  The KafkaCluster is     *)
(* read from the informer cache, which lags, and written to the API        *)
(* server, which refuses an object that is not its latest.                 *)
(*                                                                         *)
(* Simplifications: there is one KafkaCluster and every alert names it;    *)
(* two versions of it with equal contents are one version; a Get followed  *)
(* by an Update of what was read is one step (a change in between is a     *)
(* change before it); a broker is its ID, the number of volumes that       *)
(* alerts added to it and the number of times its volume was enlarged; the *)
(* random mount path of a new volume is always fresh.                      *)
(***************************************************************************)
EXTENDS Integers, Sequences, SequencesExt, FiniteSets

CONSTANTS
  Reqs,     \* the goroutines that serve requests
  Scenes    \* what may happen: see Scene

Commands == {"upScale", "downScale", "addPvc", "resizePvc"}

\* alerts    the alerts by fingerprint: command, the broker its labels name (0: none),
\*           whether its labels and annotations pass the validator, whether the claim it
\*           names exists, and whether it has the rollingupgrade label
\* brokers   the IDs in the spec at the start; up, down  the limits (up = 0: none)
\* budget    how often each kind of event may happen
Events == {"resolve", "refire", "edit", "add", "task", "pause", "crash", "unbound"}
Scene(s) ==
  /\ IsFiniteSet(DOMAIN s.alerts)
  /\ \A a \in DOMAIN s.alerts :
       s.alerts[a] \in [command : Commands, broker : Nat, valid : BOOLEAN,
                        claim : BOOLEAN, rolling : BOOLEAN]
  /\ s.brokers \in Seq(Nat) /\ s.up \in Nat /\ s.down \in Nat
  /\ s.budget \in [Events -> Nat]

NoReq == "none"

ASSUME ScenesAssumption == \A s \in Scenes : Scene(s)
ASSUME ReqsAssumption == NoReq \notin Reqs

VARIABLES
  scene,
  store,    \* the store by fingerprint: "absent", "new" or "processed"
  req,      \* the goroutines
  lock,     \* the goroutine that holds the mutex of the store
  cr,       \* the KafkaCluster at the API server
  cache,    \* the KafkaCluster in the informer cache
  unbound,  \* a claim on the node of the alert is pending
  prom,     \* an alert is "firing", "resolved" or, once that was posted, "silent"
  acted,    \* edits made for a stored alert since it entered the store
  left      \* what is left of the budget

vars == <<scene, store, req, lock, cr, cache, unbound, prom, acted, left>>
envVars == <<scene, unbound, prom, left>>

Fps == DOMAIN scene.alerts

Idle == [pc |-> "idle", batch |-> <<>>, seen |-> {}, todo |-> {}, fp |-> "", count |-> 0,
         id |-> 0]

Broker(i) == [id |-> i, disks |-> 0, grown |-> 0]

Init ==
  /\ scene \in Scenes
  /\ store = [f \in Fps |-> "absent"]
  /\ req = [r \in Reqs |-> Idle]
  /\ lock = NoReq
  /\ cr = [brokers |-> [i \in DOMAIN scene.brokers |-> Broker(scene.brokers[i])],
           running |-> TRUE, busy |-> FALSE, errors |-> 0]
  /\ cache = cr
  /\ unbound = FALSE
  /\ prom = [f \in Fps |-> "firing"]
  /\ acted = [f \in Fps |-> 0]
  /\ left = scene.budget

Ids(c) == {c.brokers[i].id : i \in DOMAIN c.brokers}
MaxId(c) == CHOOSE m \in Ids(c) \cup {0} : \A i \in Ids(c) : i <= m

\* The loop of RemoveBrokerFromCr over the brokers: what is kept of the first n.
Kept(bs, i) ==
  LET kept[n \in 0..Len(bs)] ==
        IF n = 0 THEN <<>>
        ELSE IF bs[n].id = i THEN kept[n - 1] ELSE Append(kept[n - 1], bs[n])
  IN  kept

Without(bs, i) == Kept(bs, i)[Len(bs)]

-----------------------------------------------------------------------------
(* The requests.  alertFilter keeps the alerts whose command is supported: *)
(* the alerts of a scene are those.                                        *)

Free(r) == req' = [req EXCEPT ![r] = Idle]
At(r, pc) == req[r].pc = pc
Goto(r, pc) == req' = [req EXCEPT ![r].pc = pc]

\* reciveAlert, alertReciever: a body that cannot be read or parsed changes nothing.
\* Alertmanager posts an alert as long as it fires, and once more when it is resolved.
Receive(r, fs) ==
  /\ At(r, "idle") /\ fs # {}
  /\ LET b == SetToSeq(fs)
     IN  req' = [req EXCEPT ![r] = [Idle EXCEPT
                   !.pc = "add", !.batch = [i \in DOMAIN b |-> <<b[i], prom[b[i]]>>]]]
  /\ prom' = [f \in Fps |-> IF f \in fs /\ prom[f] = "resolved" THEN "silent" ELSE prom[f]]
  /\ UNCHANGED <<store, lock, cr, cache, acted, scene, unbound, left>>

Posted == {f \in Fps : prom[f] # "silent"}

NextAlert(q) ==
  [q EXCEPT !.batch = Tail(@), !.pc = IF Len(q.batch) = 1 THEN "count" ELSE "add"]

\* Mutant: the status of the alert in place of the Processed flag.
AddAlertStatus(r) ==
  /\ At(r, "add") /\ lock = NoReq
  /\ LET a == Head(req[r].batch)
     IN  /\ store' = [store EXCEPT ![a[1]] = IF @ = "absent" THEN a[2] ELSE @]
         /\ req' = [req EXCEPT ![r] = IF a[2] = "resolved" THEN [@ EXCEPT !.pc = "gc"]
                                     ELSE NextAlert(@)]
  /\ UNCHANGED <<lock, cr, cache, acted, envVars>>

\* The mutex is only held across steps by HandleAlert.  AlertGC does nothing for an alert
\* that fires.
AddAlert(r) ==
  /\ At(r, "add") /\ lock = NoReq
  /\ LET a == Head(req[r].batch)
     IN  /\ store' = [store EXCEPT ![a[1]] = IF @ = "absent" THEN "new" ELSE @]
         /\ req' = [req EXCEPT ![r] = IF a[2] = "resolved" THEN [@ EXCEPT !.pc = "gc"]
                                     ELSE NextAlert(@)]
  /\ UNCHANGED <<lock, cr, cache, acted, envVars>>

\* A deleted key that comes back during a loop over the map may be missed by the loop.
DeleteAlert(f) ==
  /\ lock = NoReq
  /\ store' = [store EXCEPT ![f] = "absent"]
  /\ acted' = [acted EXCEPT ![f] = 0]

\* A resolved alert leaves the store.
AlertGC(r) ==
  /\ At(r, "gc")
  /\ LET f == Head(req[r].batch)[1]
         others == [q \in Reqs |-> [req[q] EXCEPT !.todo = @ \ {f}]]
     IN  DeleteAlert(f) /\ req' = [others EXCEPT ![r] = NextAlert(@)]
  /\ UNCHANGED <<lock, cr, cache, envVars>>

Stored == {f \in Fps : store[f] # "absent"}

\* GetRollingUpgradeAlertCount ranges over the map without the mutex.
CountRollingUpgradeAlerts(r) ==
  /\ At(r, "count")
  /\ req' = [req EXCEPT ![r].pc = "range", ![r].todo = Stored,
                        ![r].count = Cardinality({f \in Stored : scene.alerts[f].rolling})]
  /\ UNCHANGED <<store, lock, cr, cache, acted, envVars>>

\* The loop over ListAlerts takes the keys of the live map, each at most once; an alert
\* that another request adds meanwhile may be taken or missed.
RangeNext(r) ==
  /\ At(r, "range")
  /\ \E f \in Stored \ req[r].seen :
       req' = [req EXCEPT ![r].pc = "lock", ![r].fp = f, ![r].seen = @ \cup {f}]
  /\ UNCHANGED <<store, lock, cr, cache, acted, envVars>>

RangeEnd(r) ==
  /\ At(r, "range")
  /\ req[r].todo \subseteq req[r].seen
  /\ Free(r)
  /\ UNCHANGED <<store, lock, cr, cache, acted, envVars>>

-----------------------------------------------------------------------------
(* HandleAlert holds the mutex from the look-up to the Processed flag.     *)

Alert(r) == scene.alerts[req[r].fp]

Unlock(r) ==
  /\ req' = [req EXCEPT ![r].pc = "range", ![r].fp = "", ![r].id = 0]
  /\ lock' = NoReq

\* An error: the alert stays as it is and the loop goes on.
Fail(r) == Unlock(r) /\ UNCHANGED store

Processed(r) ==
  /\ store' = [store EXCEPT ![req[r].fp] = "processed"]
  /\ Unlock(r)

\* Mutant: the mutex is given back before the alert is examined.
HandleAlertUnlocked(r) ==
  /\ At(r, "lock") /\ lock = NoReq
  /\ \/ store[req[r].fp] = "new" /\ Goto(r, "status") /\ UNCHANGED lock
     \/ store[req[r].fp] # "new" /\ Unlock(r)
  /\ UNCHANGED <<store, cr, cache, acted, envVars>>

HandleAlert(r) ==
  /\ At(r, "lock") /\ lock = NoReq
  /\ \/ store[req[r].fp] = "new" /\ lock' = r /\ Goto(r, "status")
     \/ store[req[r].fp] # "new" /\ Unlock(r)
  /\ UNCHANGED <<store, cr, cache, acted, envVars>>

\* Mutant: the limit itself is let through.
AtUpLimitOver(obj) == scene.up > 0 /\ Len(obj.brokers) > scene.up

\* disableScaling of the object whose status was accepted.
AtUpLimit(obj) == scene.up > 0 /\ Len(obj.brokers) >= scene.up
AtDownLimit(obj) == Len(obj.brokers) <= scene.down

\* The labels and annotations that the command needs are there.
Valid(r) == Alert(r).valid

\* Mutant: one flag for both limits.
RefusedEither(r, obj) == ~Valid(r) \/ AtDownLimit(obj) \/ AtUpLimit(obj)

\* processAlert up to the call of the command: the validator and the limits.
Refused(r, obj) ==
  \/ ~Valid(r)
  \/ Alert(r).command = "downScale" /\ AtDownLimit(obj)
  \/ Alert(r).command = "upScale" /\ AtUpLimit(obj)

\* examineAlert once the status has been written: obj is the object that was accepted.
Examined(r, obj) ==
  \/ (~obj.running \/ Refused(r, obj)) /\ Fail(r)
  \/ obj.running /\ ~Refused(r, obj) /\ Goto(r, Alert(r).command) /\ UNCHANGED <<store, lock>>

\* Mutant: a count that has not changed is not written.
UpdateErrorCountLazy(r) ==
  /\ At(r, "status")
  /\ LET obj == [cache EXCEPT !.errors = req[r].count]
     IN  \/ obj = cache /\ Examined(r, obj) /\ UNCHANGED cr
         \/ obj # cache /\ cache = cr /\ cr' = obj /\ Examined(r, obj)
         \/ obj # cache /\ cache # cr /\ Goto(r, "status2") /\ UNCHANGED <<cr, store, lock>>
  /\ UNCHANGED <<cache, acted, envVars>>

\* getKafkaCr, UpdateCrWithRollingUpgrade: the first write of the status.
UpdateErrorCount(r) ==
  /\ At(r, "status")
  /\ LET obj == [cache EXCEPT !.errors = req[r].count]
     IN  \/ cache = cr /\ cr' = obj /\ Examined(r, obj)
         \/ cache # cr /\ Goto(r, "status2") /\ UNCHANGED <<cr, store, lock>>
  /\ UNCHANGED <<cache, acted, envVars>>

\* UpdateCRStatus after a conflict: the object is read again and written as it was read,
\* without the count, which the read has overwritten.
RetryErrorCount(r) ==
  /\ At(r, "status2")
  /\ \/ cache = cr /\ Examined(r, cache)
     \/ cache # cr /\ Fail(r)
  /\ UNCHANGED <<cr, cache, acted, envVars>>

\* GetBrokersWithPendingOrRunningCCTask of the cluster in the cache.
TaskExists == cache.busy

\* A skipped command counts as processed.
SkipForTask(r, c) ==
  /\ At(r, c)
  /\ TaskExists /\ (c = "addPvc" => Alert(r).claim)
  /\ Processed(r)
  /\ UNCHANGED <<cr, cache, acted, envVars>>

\* unboundPvcOnNodeExists.
SkipForClaim(r) ==
  /\ At(r, "addPvc") /\ Alert(r).claim /\ ~TaskExists /\ unbound
  /\ Processed(r)
  /\ UNCHANGED <<cr, cache, acted, envVars>>

\* upScale picks the next ID from one read of the cluster ...
UpScale(r) ==
  /\ At(r, "upScale") /\ ~TaskExists
  /\ req' = [req EXCEPT ![r].pc = "put", ![r].id = MaxId(cache) + 1]
  /\ UNCHANGED <<store, lock, cr, cache, acted, envVars>>

\* downScale takes the broker of the label or asks Cruise Control for the one with the
\* least replicas: one of those that run.  No answer is an error.
DownScale(r) ==
  /\ At(r, "downScale") /\ ~TaskExists
  /\ \/ \E b \in IF Alert(r).broker # 0 THEN {Alert(r).broker} ELSE Ids(cr) \cup Range(scene.brokers) :
          req' = [req EXCEPT ![r].pc = "put", ![r].id = b] /\ UNCHANGED <<store, lock>>
     \/ Alert(r).broker = 0 /\ Fail(r)
  /\ UNCHANGED <<cr, cache, acted, envVars>>

\* getPvc: the claim names the broker.
ClaimMissing(r) ==
  /\ \E c \in {"addPvc", "resizePvc"} : At(r, c)
  /\ ~Alert(r).claim
  /\ Fail(r)
  /\ UNCHANGED <<cr, cache, acted, envVars>>

AddPvc(r) ==
  /\ At(r, "addPvc") /\ Alert(r).claim /\ ~TaskExists /\ ~unbound
  /\ req' = [req EXCEPT ![r].pc = "put", ![r].id = Alert(r).broker]
  /\ UNCHANGED <<store, lock, cr, cache, acted, envVars>>

\* No check for a task of Cruise Control here.
ResizePvc(r) ==
  /\ At(r, "resizePvc") /\ Alert(r).claim
  /\ req' = [req EXCEPT ![r].pc = "put", ![r].id = Alert(r).broker]
  /\ UNCHANGED <<store, lock, cr, cache, acted, envVars>>

\* AddNewBrokerToCr, RemoveBrokerFromCr, AddPvToSpecificBroker and the loop of resizePvc.
Edited(command, bs, i) ==
  CASE command = "upScale"   -> Append(bs, Broker(i))
    [] command = "downScale" -> Without(bs, i)
    [] command = "addPvc"    ->
         [k \in DOMAIN bs |-> IF bs[k].id = i THEN [bs[k] EXCEPT !.disks = @ + 1] ELSE bs[k]]
    [] command = "resizePvc" ->
         [k \in DOMAIN bs |-> IF bs[k].id = i THEN [bs[k] EXCEPT !.grown = @ + 1] ELSE bs[k]]

\* ... and the edit is made on another read: an object that is not the latest is refused.
UpdateCr(r) ==
  /\ At(r, "put")
  /\ \/ /\ cache = cr
        /\ cr' = [cache EXCEPT !.brokers = Edited(Alert(r).command, @, req[r].id)]
        /\ acted' = [acted EXCEPT ![req[r].fp] = @ + 1]
        /\ Processed(r)
     \/ cache # cr /\ Fail(r) /\ UNCHANGED <<cr, acted>>
  /\ UNCHANGED <<cache, envVars>>

-----------------------------------------------------------------------------
(* The rest of the world. *)

Spend(e) == left[e] > 0 /\ left' = [left EXCEPT ![e] = @ - 1]

Sync ==
  /\ cache # cr
  /\ cache' = cr
  /\ UNCHANGED <<store, req, lock, cr, acted, envVars>>

Resolve(f) ==
  /\ prom[f] = "firing" /\ Spend("resolve")
  /\ prom' = [prom EXCEPT ![f] = "resolved"]
  /\ UNCHANGED <<scene, store, req, lock, cr, cache, unbound, acted>>

Refire(f) ==
  /\ prom[f] # "firing" /\ Spend("refire")
  /\ prom' = [prom EXCEPT ![f] = "firing"]
  /\ UNCHANGED <<scene, store, req, lock, cr, cache, unbound, acted>>

\* A broker gets a graceful action, or its action ends.
TaskChanges ==
  /\ Spend("task")
  /\ cr' = [cr EXCEPT !.busy = ~@]
  /\ UNCHANGED <<scene, store, req, lock, cache, unbound, prom, acted>>

\* The cluster controller starts or ends a pass.
StateChanges ==
  /\ Spend("pause")
  /\ cr' = [cr EXCEPT !.running = ~@]
  /\ UNCHANGED <<scene, store, req, lock, cache, unbound, prom, acted>>

ClaimChanges ==
  /\ Spend("unbound")
  /\ unbound' = ~unbound
  /\ UNCHANGED <<scene, store, req, lock, cr, cache, prom, acted>>

\* A user removes a broker from the spec.
UserRemoves(i) ==
  /\ i \in Ids(cr) /\ Spend("edit")
  /\ cr' = [cr EXCEPT !.brokers = Without(@, i)]
  /\ UNCHANGED <<scene, store, req, lock, cache, unbound, prom, acted>>

\* ... or adds one.
UserAdds ==
  /\ Spend("add")
  /\ cr' = [cr EXCEPT !.brokers = Append(@, Broker(MaxId(cr) + 1))]
  /\ UNCHANGED <<scene, store, req, lock, cache, unbound, prom, acted>>

\* A map write while another goroutine ranges over the map may end the process, and so
\* may anything else: the store is gone, the cluster is not.
Crash ==
  /\ Spend("crash")
  /\ store' = [f \in Fps |-> "absent"]
  /\ acted' = [f \in Fps |-> 0]
  /\ req' = [r \in Reqs |-> Idle]
  /\ lock' = NoReq
  /\ cache' = cr
  /\ UNCHANGED <<scene, cr, unbound, prom>>

Serve(r) ==
  \/ AddAlert(r) \/ AlertGC(r) \/ CountRollingUpgradeAlerts(r)
  \/ RangeNext(r) \/ RangeEnd(r)
  \/ HandleAlert(r) \/ UpdateErrorCount(r) \/ RetryErrorCount(r)
  \/ \E c \in {"upScale", "downScale", "addPvc"} : SkipForTask(r, c)
  \/ SkipForClaim(r) \/ ClaimMissing(r)
  \/ UpScale(r) \/ DownScale(r) \/ AddPvc(r) \/ ResizePvc(r) \/ UpdateCr(r)

Environment ==
  \/ Sync \/ TaskChanges \/ StateChanges \/ ClaimChanges \/ UserAdds \/ Crash
  \/ \E f \in Fps : Resolve(f) \/ Refire(f)
  \/ \E i \in Ids(cr) : UserRemoves(i)

Next ==
  \/ \E r \in Reqs : Serve(r) \/ \E fs \in SUBSET Posted : Receive(r, fs)
  \/ Environment

Spec == Init /\ [][Next]_vars

\* A request that is being served goes on (a mutex of Go starves nobody), the cache
\* catches up, and Alertmanager posts an alert that fires again and again.
Fairness ==
  /\ \A r \in Reqs : SF_vars(Serve(r)) /\ SF_vars(Receive(r, Posted))
  /\ WF_vars(Sync)

FairSpec == Spec /\ Fairness

-----------------------------------------------------------------------------
(* Properties. *)

\* Type invariant: the store of alerts, its mutex, the cluster and its cached copy, and what
\* Prometheus says keep their types; an alert that is in the store is new or processed.
TypeOK ==
  /\ scene \in Scenes
  /\ store \in [Fps -> {"absent", "new", "processed"}]
  /\ lock \in Reqs \cup {NoReq}
  /\ \A c \in {cr, cache} : /\ c.brokers \in Seq([id : Nat, disks : Nat, grown : Nat])
                           /\ c.running \in BOOLEAN /\ c.busy \in BOOLEAN /\ c.errors \in Nat
  /\ prom \in [Fps -> {"firing", "resolved", "silent"}]
  /\ acted \in [Fps -> Nat]

\* Users gave the brokers different IDs, which no webhook checks, and have not edited the
\* list since.
Untouched ==
  /\ IsInjective(scene.brokers)
  /\ left["edit"] = scene.budget["edit"] /\ left["add"] = scene.budget["add"]

\* Alerts never take the cluster over UpScaleLimit or under DownScaleLimit, although the
\* limit is compared with one read of the cluster and the broker is added to, or removed
\* from, another (process.go:102, 294, 362).  Only a user goes beyond them.
LimitsHold ==
  Untouched => LET n == Len(cr.brokers) IN
    /\ scene.up > 0 /\ n > Len(scene.brokers) => n <= scene.up
    /\ n < Len(scene.brokers) => n >= scene.down

\* The ID of a new broker is fresh, although it is computed from one read of the cluster
\* and the broker is appended to another: the write of the status that comes first
\* succeeds only if the cache has seen the edit of the alert before.
IdsDistinct ==
  Untouched => \A i, j \in DOMAIN cr.brokers : i # j => cr.brokers[i].id # cr.brokers[j].id

\* However many requests carry it and however often it is posted, an alert edits the
\* cluster once while it is in the store.
ActedOnce == \A f \in Fps : acted[f] <= 1

\* What an alert that fires may wait for: its claim, the end of a pass of the cluster
\* controller, an answer of Cruise Control, or a cluster that is away from its limit.
Excused(f) ==
  \/ prom[f] # "firing" \/ ~cr.running
  \/ ~scene.alerts[f].valid \/ ~scene.alerts[f].claim
  \/ scene.alerts[f].command = "downScale" /\ scene.alerts[f].broker = 0
  \/ scene.alerts[f].command = "upScale" /\ AtUpLimit(cr)
  \/ scene.alerts[f].command = "downScale" /\ AtDownLimit(cr)

\* An alert that goes on firing is handled, although every attempt may fail because the
\* cluster in the cache is not the latest, and the attempt itself writes the status.
AlertIsHandled ==
  \A f \in UNION {DOMAIN s.alerts : s \in Scenes} :
    []<>(f \in Fps => store[f] = "processed" \/ Excused(f))
=============================================================================
