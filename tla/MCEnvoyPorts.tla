---------------------------- MODULE MCEnvoyPorts ----------------------------
(* Two of three brokers behind one envoy, with few port numbers, so that all of them collide. *)
EXTENDS EnvoyPorts

Spec0 == [brokers |-> {1, 2}, start |-> 1, anycast |-> 5, target |-> 5, admin |-> 6, health |-> 7,
          inner |-> 1, outer |-> 2, lb |-> TRUE]
=============================================================================
