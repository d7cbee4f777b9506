-------------------------- MODULE MCClusterAccess --------------------------
(* Instances of ClusterAccess for TLC. *)
EXTENDS ClusterAccess

Quiet == [e \in Events |-> 0]
Sp(n, r, c) == [parts |-> n, rf |-> r, cfg |-> c]

OldTopic == [name |-> "n1", settled |-> TRUE, labels |-> FALSE, adopts |-> FALSE,
             specs |-> {Sp(1, 1, 0)}]
NewTopic == [OldTopic EXCEPT !.settled = FALSE]
Unused == [NewTopic EXCEPT !.name = "n2", !.specs = {}]

NoBody == [backend |-> "none", jks |-> FALSE, controller |-> FALSE, signer |-> "other",
           grants |-> {}, labels |-> FALSE, settled |-> FALSE]
Operator == [NoBody EXCEPT !.backend = "cert-manager", !.jks = TRUE, !.controller = TRUE,
                           !.labels = TRUE, !.settled = TRUE]

Base == [topics |-> [t \in Topics |-> Unused], users |-> [u \in Users |-> NoBody],
         brokers |-> 1, fins |-> Finalizers, budget |-> Quiet]

\* A topic is created, edited and deleted.
Life == [Base EXCEPT !.topics[1] = [NewTopic EXCEPT !.specs = {Sp(1, 1, 0), Sp(2, 1, 1)}],
                     !.budget["create"] = 1, !.budget["edit"] = 1, !.budget["delete"] = 1,
                     !.budget["outage"] = 1]

\* Two objects for one topic.
Twice == [Base EXCEPT !.topics = [t \in Topics |-> [NewTopic EXCEPT !.adopts = (t = 1)]],
                      !.budget["create"] = 2, !.budget["delete"] = 1]

\* A topic is deleted behind the operator's back, or loses its label.
Meddled == [Base EXCEPT !.topics[1] = [OldTopic EXCEPT !.specs = {Sp(1, 1, 0)}],
                        !.budget["strip"] = 1, !.budget["vanish"] = 1, !.budget["delete"] = 1]

\* Users of each kind.
Certs == [Base EXCEPT !.users = [u \in Users |->
                        IF u = 1 THEN [NoBody EXCEPT !.backend = "cert-manager", !.jks = TRUE,
                                                     !.grants = {"read", "write"}]
                        ELSE [NoBody EXCEPT !.backend = "cert-manager"]],
                      !.budget["create"] = 2, !.budget["delete"] = 1]
Csr(s) == [Base EXCEPT !.users[1] = [NoBody EXCEPT !.backend = "k8s-csr", !.signer = s,
                                                   !.grants = {"read"}, !.labels = TRUE],
                       !.budget["create"] = 1]
CsrLost == [Csr("cert-manager") EXCEPT !.budget["expire"] = 1, !.budget["fail"] = 1]
CsrRestart == [Csr("other") EXCEPT !.budget["crash"] = 1, !.budget["outage"] = 1]
CsrEnds == [Csr("other") EXCEPT !.users[1].settled = TRUE, !.budget["delete"] = 1,
                                !.budget["outage"] = 1]

\* A cluster with a topic and the certificate of the operator is torn down.
Teardown == [Base EXCEPT !.topics[1] = OldTopic, !.users[1] = Operator,
                         !.budget["teardown"] = 1, !.budget["crash"] = 1]

\* A topic is created while the cluster is torn down.
Hasty == [Base EXCEPT !.topics[1] = NewTopic,
                      !.budget["teardown"] = 1, !.budget["create"] = 1]

\* A cluster is set up, and may be torn down before that has ended.
Birth == [Base EXCEPT !.users[1] = [Operator EXCEPT !.settled = FALSE],
                      !.fins = {}, !.budget["teardown"] = 1]

Scenes1 == {Life, Twice, Meddled, Certs, CsrLost, CsrRestart, CsrEnds,
            Teardown, Hasty, Birth}
=============================================================================
