---------------------------- MODULE MCCCOperation ----------------------------
(* Instances of CCOperation for TLC. *)
EXTENDS CCOperation

\* A rebalance, and an add_broker that is created later but goes first.
KindsUrgent == [o \in Ops |-> IF o = 1 THEN "rebalance" ELSE "add_broker"]

\* The removal of a disk, rolled back by a rebalance.
KindsDisks == [o \in Ops |-> IF o = 1 THEN "remove_disks" ELSE "rebalance"]

PoliciesMixed == [o \in Ops |-> IF o = 1 THEN "retry" ELSE "ignore"]
PoliciesRetry == [o \in Ops |-> "retry"]
=============================================================================
