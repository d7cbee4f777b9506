------------------------- MODULE MCClusterReconcile -------------------------
(* The scenes in which ClusterReconcile is checked. *)
EXTENDS ClusterReconcile

Budget(e) == [x \in Events |-> IF x \in DOMAIN e THEN e[x] ELSE 0]

\* A cluster of two brokers at rest, with one volume each and nothing going on.
Rest == [brokers |-> {1, 2}, controller |-> 1, lag |-> FALSE, rackAware |-> FALSE, fresh |-> FALSE,
         zone |-> [b \in Brokers |-> b % 2], limit |-> 1, threshold |-> 1,
         own |-> FALSE, ingress |-> "a", way |-> "envoy", cleanup |-> FALSE,
         disks |-> {1}, spare |-> {}, budget |-> Budget(<<>>)]

One == [Rest EXCEPT !.brokers = {1}]

\* A new version and a new configuration, one broker at a time.
Roll == [Rest EXCEPT !.budget = Budget([version |-> 1, config |-> 1])]
\* Pods that break, are tainted or evicted, and an operator that crashes.
Broken == [Rest EXCEPT !.threshold = 2, !.budget = Budget([taint |-> 1, break |-> 1])]
Crashed == [Rest EXCEPT !.threshold = 2, !.budget = Budget([break |-> 1, crash |-> 1])]
Evicted == [Rest EXCEPT !.threshold = 2, !.budget = Budget([version |-> 1, evict |-> 1])]
\* Pods are read from a stale cache.
Lag == [Rest EXCEPT !.lag = TRUE, !.threshold = 2, !.budget = Budget([version |-> 1])]
\* Alerts count as failures.
Alerts == [Rest EXCEPT !.threshold = 2, !.budget = Budget([version |-> 1, alert |-> 2])]
\* One broker at a time with a threshold of two, two of a rack with a threshold of one: as many
\* brokers are down as the two counts let through.
Lenient == [Rest EXCEPT !.brokers = {1, 2, 3}, !.threshold = 2,
                        !.budget = Budget([version |-> 1, taint |-> 1])]
Strict == [Rest EXCEPT !.brokers = {1, 2, 3}, !.limit = 2, !.rackAware = TRUE,
                       !.zone = [b \in Brokers |-> 1], !.budget = Budget([version |-> 1])]
\* Two brokers of a rack at a time.
Racks == [Rest EXCEPT !.brokers = {1, 2, 3}, !.limit = 2, !.threshold = 2, !.rackAware = TRUE,
                      !.budget = Budget([version |-> 1])]
\* A broker is born, rack aware or with a crash; rack-aware brokers get a new configuration.
Birth == [One EXCEPT !.fresh = TRUE, !.rackAware = TRUE]
BirthCrash == [One EXCEPT !.fresh = TRUE, !.budget = Budget([crash |-> 1])]
RackEdit == [Rest EXCEPT !.way = "istio", !.rackAware = TRUE,
                         !.budget = Budget([config |-> 1, version |-> 1])]
\* A volume is taken out, with an operation that fails and a crash; taken out and put back, with an
\* operation that fails or expires; taken out again; added and taken out.  Users act on operations.
Disks == [Rest EXCEPT !.disks = {1, 2}, !.spare = {2}, !.threshold = 2,
                      !.budget = Budget([disks |-> 1, error |-> 1, crash |-> 1])]
Back == [One EXCEPT !.disks = {1, 2}, !.spare = {2}, !.budget = Budget([disks |-> 2, error |-> 1])]
Expired == [One EXCEPT !.disks = {1, 2}, !.spare = {2}, !.budget = Budget([disks |-> 2, expire |-> 1])]
Again == [One EXCEPT !.disks = {1, 2}, !.spare = {2}, !.budget = Budget([disks |-> 3])]
Grow == [One EXCEPT !.spare = {2}, !.threshold = 2, !.budget = Budget([disks |-> 2])]
Meddled == [One EXCEPT !.disks = {1, 2}, !.spare = {2},
                       !.budget = Budget([disks |-> 1, error |-> 1, opEdit |-> 1])]
\* A broker moves to another ingress.
Move == [Rest EXCEPT !.budget = Budget([ingress |-> 1, version |-> 1])]
\* A new address does not pass validation.
Invalid == [One EXCEPT !.budget = Budget([ingress |-> 1, invalid |-> 1])]
Own == [Move EXCEPT !.own = TRUE, !.budget = Budget([ingress |-> 1, invalid |-> 1])]
\* The ways in without a load balancer.
Proxy == [Move EXCEPT !.way = "contour"]
Sweep == [Proxy EXCEPT !.cleanup = TRUE, !.brokers = {1}]
Ports == [Rest EXCEPT !.way = "nodeport", !.cleanup = TRUE, !.budget = Budget([version |-> 1])]
NewPorts == [One EXCEPT !.way = "nodeport", !.fresh = TRUE]
\* A write of the status fails and nobody hears of it.
Lost == [One EXCEPT !.budget = Budget([config |-> 1, fail |-> 1])]

Scenes1 == {Roll, Broken, Crashed, Evicted, Lag, Alerts, Lenient, Strict, Racks, Birth, BirthCrash, RackEdit,
            Disks, Back, Expired, Again, Grow, Meddled, Move, Invalid, Own, Proxy, Sweep, Ports,
            NewPorts, Lost}

\* Two brokers of a rack at a time and a threshold of two.
Pairs == [Strict EXCEPT !.threshold = 2, !.budget = Budget([version |-> 1, taint |-> 1])]
Scenes2 == {Pairs}
=============================================================================
