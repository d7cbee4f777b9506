-------------------------- MODULE MCGracefulAction --------------------------
(* Instances of GracefulAction for TLC: brokers 1 and 2, and what happens to them. *)
EXTENDS GracefulAction

Calm == [d \in Disturbances |-> 0]

\* Both brokers are there and nothing happens.
Settled2 == [init |-> {1, 2}, headless |-> FALSE, joining |-> {}, leaving |-> {},
             budget |-> Calm]

\* Broker 2 leaves; its services may be switched off or on.
Leave == [Settled2 EXCEPT !.leaving = {2}, !.budget["edits"] = 1]
LeaveHeadless == [Leave EXCEPT !.headless = TRUE, !.budget["headless"] = 1]

\* Broker 2 joins and 1 leaves; 2 joins and leaves again; 1 and 2 are the first.
Exchange == [Settled2 EXCEPT !.init = {1}, !.joining = {2}, !.leaving = {1},
                             !.budget["edits"] = 2]
ThereAndBack == [Exchange EXCEPT !.leaving = {2}, !.budget["errors"] = 1]
Fresh == [Exchange EXCEPT !.init = {}, !.joining = {1, 2}, !.leaving = {}]

\* The controllers fail; broker 2 comes back while it leaves and a pod is evicted;
\* operations fail and users act on them.
Failing == [LeaveHeadless EXCEPT !.budget["failures"] = 2]
Returning == [Leave EXCEPT !.joining = {2}, !.budget["edits"] = 2, !.budget["evictions"] = 1]
Meddling == [Leave EXCEPT !.budget["opEdits"] = 1, !.budget["errors"] = 1,
                          !.budget["topic"] = 1]

ScenesConverge == {Exchange, ThereAndBack, Fresh}
ScenesTurmoil == {Failing, Returning, Meddling, [Exchange EXCEPT !.budget["errors"] = 1]}
=============================================================================
