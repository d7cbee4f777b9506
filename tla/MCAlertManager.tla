--------------------------- MODULE MCAlertManager ---------------------------
(* Instances of AlertManager for TLC. *)
EXTENDS AlertManager

Quiet == [e \in Events |-> 0]
Of(c, b) == [command |-> c, broker |-> b, valid |-> TRUE, claim |-> TRUE, rolling |-> FALSE]

\* Two alerts ask for brokers and two places are left.
Growth == [alerts |-> [a |-> Of("upScale", 0), b |-> [Of("upScale", 0) EXCEPT !.rolling = TRUE]],
           brokers |-> <<1>>, up |-> 3, down |-> 0,
           budget |-> Quiet]

\* Two alerts remove brokers beside a graceful action.
Shrink == [Growth EXCEPT !.alerts = [a |-> Of("downScale", 2), b |-> Of("downScale", 0)],
                         !.brokers = <<1, 2, 3>>, !.up = 0, !.down = 2,
                         !.budget = [Quiet EXCEPT !["task"] = 1]]

\* Volumes are added and enlarged, and a claim is pending.
Volumes == [Growth EXCEPT !.alerts = [a |-> Of("addPvc", 1),
                                       b |-> [Of("resizePvc", 1) EXCEPT !.rolling = TRUE]],
                          !.budget = [Quiet EXCEPT !["unbound"] = 1]]

\* An alert is resolved and fires again, a user removes a broker, and the operator restarts.
Flap == [Growth EXCEPT !.alerts = [a |-> [Of("upScale", 0) EXCEPT !.rolling = TRUE]],
                       !.budget = [Quiet EXCEPT !["resolve"] = 1, !["refire"] = 1, !["crash"] = 1,
                                              !["edit"] = 1]]

\* The cluster controller is at work, and a user adds a broker; the claim of one
\* alert does not exist.
Pause == [Growth EXCEPT !.alerts = [a |-> Of("upScale", 0),
                                     b |-> [Of("resizePvc", 1) EXCEPT !.claim = FALSE]],
                        !.up = 2, !.down = 1,
                        !.budget = [Quiet EXCEPT !["pause"] = 1, !["add"] = 1]]

Scenes1 == {Growth, Shrink, Volumes, Flap, Pause}
=============================================================================
