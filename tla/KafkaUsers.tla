----------------------------- MODULE KafkaUsers -----------------------------
(***************************************************************************)
(* The KafkaUser controller, the two PKI backends that provide the         *)
(* certificate of a user, and the ACLs in Kafka.                           *)
(*                                                                         *)
(* Certificates, secrets and signing requests are read as they are at the  *)
(* API server: a stale read of them fails and is repeated.  Which issuer   *)
(* signs a certificate and what is in it are left out.                     *)
(***************************************************************************)
EXTENDS AccessObjects

VARIABLES
  user,      \* KafkaUser objects at the API server
  userSeen,  \* ... and in the cache
  uw,        \* the worker of each KafkaUser
  udue,      \* the KafkaUsers in the work queue
  pki,       \* of each user: the Certificate, the signing requests, the annotation
  acls       \* the ACLs of Kafka

userVars == <<user, userSeen, uw, udue, pki, acls>>

NoUser == [exists |-> FALSE, deleted |-> FALSE, fin |-> FALSE, label |-> FALSE, state |-> ""]
UserWorker == [pc |-> "idle", obj |-> NoUser, label |-> FALSE, down |-> FALSE, todo |-> {}]
NoPki == [certificate |-> FALSE, owned |-> FALSE, requests |-> <<>>, refers |-> 0]

Backend(u) == scene.users[u].backend    \* "none", "cert-manager" or "k8s-csr"
Grants(u) == scene.users[u].grants
SettledUser == [NoUser EXCEPT !.exists = TRUE, !.fin = TRUE, !.label = TRUE, !.state = "created"]

\* A grant of access to the topic, with what CreateUserACLs makes of it.  The principal is
\* the distinguished name with a prefix.
Principal(u) == <<"User", u>>
Acl(u, res, op) == [principal |-> Principal(u), resource |-> res, operation |-> op]
CommonACLs(u) == {Acl(u, "topic", "describe"), Acl(u, "topic", "describeConfigs")}
ReadACLs(u) == {Acl(u, "topic", "read"), Acl(u, "group", "read")}
WriteACLs(u) == {Acl(u, "topic", "write"), Acl(u, "topic", "create")}

\* CreateUserACLs.
AclsOf(u, access) == CommonACLs(u) \cup IF access = "read" THEN ReadACLs(u) ELSE WriteACLs(u)

\* The filter of DeleteUserACLs: the bare distinguished name, and the operation DELETE.
Revoked(u) ==
  {a \in acls : a.principal = <<u>> /\ a.operation = "delete" /\ a.resource = "topic"}

UserInit ==
  LET settled == {u \in Users : scene.users[u].settled}
  IN  /\ user = [u \in Users |-> IF u \in settled THEN SettledUser ELSE NoUser]
      /\ userSeen = user
      /\ uw = [u \in Users |-> UserWorker]
      /\ udue = {}
      /\ secret = [u \in Users |-> IF u \in settled /\ Backend(u) # "none" THEN "full" ELSE "none"]
      /\ pki = [u \in Users |->
                  [NoPki EXCEPT !.certificate = (u \in settled /\ Backend(u) = "cert-manager"),
                                !.owned = (u \in settled /\ Backend(u) # "none")]]
      /\ acls = UNION {UNION {AclsOf(u, g) : g \in Grants(u)} : u \in settled}

\* As for topics, a name is used once.
GoneUser == [NoUser EXCEPT !.deleted = TRUE]
StoredUser(obj) == IF obj.deleted /\ ~obj.fin THEN GoneUser ELSE obj

-----------------------------------------------------------------------------
(* Reconcile. *)

UAt(u, pc) == uw[u].pc = pc
UGoto(u, pc) == uw' = [uw EXCEPT ![u].pc = pc] /\ UNCHANGED udue
UDone(u) == uw' = [uw EXCEPT ![u] = UserWorker] /\ UNCHANGED udue
UFail(u) == uw' = [uw EXCEPT ![u] = UserWorker] /\ udue' = udue \cup {u}

UWrite(u, new, pc) ==
  \/ /\ user[u] = uw[u].obj
     /\ user' = [user EXCEPT ![u] = StoredUser(new)]
     /\ uw' = [uw EXCEPT ![u] = IF pc = "idle" THEN UserWorker
                                ELSE [@ EXCEPT !.pc = pc, !.obj = StoredUser(new)]]
     /\ UNCHANGED udue
  \/ user[u] # uw[u].obj /\ UFail(u) /\ UNCHANGED user

\* A user with a certificate is in a cluster with a PKI, or names its own, and its annotations are
\* valid: a pass that finds it otherwise fails before it has changed anything.
ReconcileUser(u) ==
  /\ UAt(u, "idle") /\ u \in udue
  /\ LET obj == userSeen[u]
         Start(pc) == [UserWorker EXCEPT !.pc = pc, !.obj = obj, !.down = clusterSeen.deleted]
         first == CASE Backend(u) = "none" -> "main"
                    [] Backend(u) = "cert-manager" -> "cert"
                    [] Backend(u) = "k8s-csr" -> "key"
     IN  \/ /\ ~obj.exists
            /\ udue' = udue \ {u} /\ UNCHANGED uw
         \/ /\ obj.exists /\ (clusterSeen.exists \/ obj.deleted)
            /\ uw' = [uw EXCEPT ![u] = Start(IF clusterSeen.exists THEN first ELSE "unfin")]
            /\ udue' = udue \ {u}
  /\ UNCHANGED <<user, userSeen, pki, acls, secret, sharedVars>>

\* An error of the backend other than "not ready" or "fatal" ends a deletion.
CertificateError(u) == IF uw[u].obj.deleted THEN UGoto(u, "unfin") ELSE UFail(u)

\* Any call to the API server may fail.
CallFails(u) ==
  /\ uw[u].pc \in {"inject", "mkcert", "request", "annotate"} /\ Spend("fail")
  /\ CertificateError(u)
  /\ UNCHANGED <<user, userSeen, pki, acls, secret, scene, cluster, clusterSeen, up>>

(* The cert-manager backend. *)

GetUserCertificate(u) ==
  /\ UAt(u, "cert")
  /\ UGoto(u, CASE pki[u].certificate -> "secret"
                [] ~pki[u].certificate /\ scene.users[u].jks -> "inject"
                [] OTHER -> "mkcert")
  /\ UNCHANGED <<user, userSeen, pki, acls, secret, sharedVars>>

\* The password of the key store comes first, in a secret that must not exist yet.
InjectJKSPassword(u) ==
  /\ UAt(u, "inject")
  /\ \/ /\ secret[u] = "none"
        /\ secret' = [secret EXCEPT ![u] = "password"]
        /\ UGoto(u, "mkcert")
     \/ secret[u] # "none" /\ CertificateError(u) /\ UNCHANGED secret
  /\ UNCHANGED <<user, userSeen, pki, acls, sharedVars>>

CreateCertificate(u) ==
  /\ UAt(u, "mkcert")
  /\ pki' = [pki EXCEPT ![u].certificate = TRUE]
  /\ UGoto(u, "secret")
  /\ UNCHANGED <<user, userSeen, acls, secret, sharedVars>>

\* The KafkaUser becomes the owner of what the backend made for it.
EnsureControllerReference(u) == pki' = [pki EXCEPT ![u].owned = TRUE]

GetUserSecret(u) ==
  /\ UAt(u, "secret")
  /\ \/ secret[u] # "full" /\ UFail(u) /\ UNCHANGED pki
     \/ secret[u] = "full" /\ EnsureControllerReference(u) /\ UGoto(u, "main")
  /\ UNCHANGED <<user, userSeen, acls, secret, sharedVars>>

(* The k8s-csr backend. *)

CertificateReady(u) == secret[u] = "full"

\* A new secret belongs to the KafkaUser and has no annotation yet.
NewKey(u) ==
  /\ secret' = [secret EXCEPT ![u] = "key"]
  /\ pki' = [pki EXCEPT ![u].owned = TRUE, ![u].refers = 0]

EnsureKey(u) ==
  /\ UAt(u, "key")
  /\ \/ secret[u] = "none" /\ NewKey(u) /\ UGoto(u, "request")
     \/ CertificateReady(u) /\ UGoto(u, "main") /\ UNCHANGED <<secret, pki>>
     \/ /\ secret[u] = "key"
        /\ UGoto(u, IF pki[u].refers = 0 THEN "request" ELSE "poll") /\ UNCHANGED <<secret, pki>>
  /\ UNCHANGED <<user, userSeen, acls, sharedVars>>

\* generateAndCreateCSR: the name of the request is generated.
GenerateAndCreateCSR(u) ==
  /\ UAt(u, "request")
  /\ pki' = [pki EXCEPT ![u].requests = Append(@, "new")]
  /\ UGoto(u, "annotate")
  /\ UNCHANGED <<user, userSeen, acls, secret, sharedVars>>

\* Mutant: the annotation names a request that was never made.
SecretUpdateAnnotationAhead(u) ==
  /\ UAt(u, "annotate")
  /\ pki' = [pki EXCEPT ![u].refers = Len(pki[u].requests) + 1]
  /\ UGoto(u, "poll")
  /\ UNCHANGED <<user, userSeen, acls, secret, sharedVars>>

SecretUpdateAnnotation(u) ==
  /\ UAt(u, "annotate")
  /\ \/ /\ secret[u] = "key"
        /\ pki' = [pki EXCEPT ![u].refers = Len(pki[u].requests)]
        /\ UGoto(u, "poll")
     \/ secret[u] # "key" /\ CertificateError(u) /\ UNCHANGED pki
  /\ UNCHANGED <<user, userSeen, acls, secret, sharedVars>>

\* Mutant: a request that is gone is waited for.
PollRequestForever(u) ==
  /\ UAt(u, "poll")
  /\ LET i == pki[u].refers IN
       \/ /\ pki[u].requests[i] = "new" /\ scene.users[u].signer = "cert-manager"
          /\ pki' = [pki EXCEPT ![u].requests[i] = "approved"] /\ UFail(u) /\ UNCHANGED secret
       \/ /\ pki[u].requests[i] = "issued"
          /\ secret' = [secret EXCEPT ![u] = "full"] /\ UGoto(u, "main") /\ UNCHANGED pki
       \/ pki[u].requests[i] \in {"gone", "approved"} /\ UFail(u) /\ UNCHANGED <<secret, pki>>
  /\ UNCHANGED <<user, userSeen, acls, sharedVars>>

\* The operator approves what cert-manager is to sign.
Approve(u, i) == pki' = [pki EXCEPT ![u].requests[i] = "approved"]

\* The certificate and the chain of its CA go into the secret.
StoreCertificate(u) == secret' = [secret EXCEPT ![u] = "full"]

\* A request that is gone is forgotten.  Both that and the certificate are written to the
\* secret as it was read, which fails when the secret is no longer there.
PollRequest(u) ==
  /\ UAt(u, "poll")
  /\ LET i == pki[u].refers
         r == pki[u].requests[i]
     IN  \/ /\ r = "gone" /\ secret[u] = "key"
            /\ pki' = [pki EXCEPT ![u].refers = 0] /\ UFail(u) /\ UNCHANGED secret
         \/ /\ r = "new" /\ scene.users[u].signer = "cert-manager"
            /\ Approve(u, i) /\ UFail(u) /\ UNCHANGED secret
         \/ /\ r = "approved" \/ (r = "new" /\ scene.users[u].signer # "cert-manager")
            /\ UFail(u) /\ UNCHANGED <<secret, pki>>
         \/ /\ r \in {"gone", "issued"} /\ secret[u] # "key"
            /\ CertificateError(u) /\ UNCHANGED <<secret, pki>>
         \/ /\ r = "issued" /\ secret[u] = "key"
            /\ StoreCertificate(u) /\ UGoto(u, "main") /\ UNCHANGED pki
  /\ UNCHANGED <<user, userSeen, acls, sharedVars>>

(* The rest of Reconcile. *)

\* checkFinalizers: the ACLs of a cluster that goes down are left to it.
CheckUserFinalizers(u) ==
  \/ ~uw[u].obj.fin /\ UDone(u)
  \/ /\ uw[u].obj.fin
     /\ UGoto(u, IF Grants(u) = {} \/ uw[u].down THEN "unfin" ELSE "revoke")

UserMain(u) ==
  /\ UAt(u, "main")
  /\ LET obj == uw[u].obj IN
       \/ obj.deleted /\ CheckUserFinalizers(u)
       \/ ~obj.deleted /\ UGoto(u, "label")
  /\ UNCHANGED <<user, userSeen, pki, acls, secret, sharedVars>>

\* finalizeKafkaUserACLs, once per grant with the same filter.
DeleteUserACLs(u) ==
  /\ UAt(u, "revoke")
  /\ \/ ~CanConnect /\ UFail(u) /\ UNCHANGED acls
     \/ CanConnect /\ acls' = acls \ Revoked(u) /\ UGoto(u, "unfin")
  /\ UNCHANGED <<user, userSeen, pki, secret, sharedVars>>

RemoveUserFinalizer(u) ==
  /\ UAt(u, "unfin")
  /\ UWrite(u, [uw[u].obj EXCEPT !.fin = FALSE], "idle")
  /\ UNCHANGED <<userSeen, pki, acls, secret, sharedVars>>

\* As for topics, an object with other labels is labelled in memory only.
LabelUser(u) ==
  /\ UAt(u, "label")
  /\ LET obj == uw[u].obj IN
       IF obj.label \/ scene.users[u].labels
       THEN /\ uw' = [uw EXCEPT ![u].pc = "grant", ![u].label = TRUE, ![u].todo = Grants(u)]
            /\ UNCHANGED <<user, udue>>
       ELSE \/ /\ user[u] = obj
               /\ user' = [user EXCEPT ![u].label = TRUE]
               /\ uw' = [uw EXCEPT ![u].pc = "grant", ![u].obj = user'[u], ![u].todo = Grants(u)]
               /\ UNCHANGED udue
            \/ user[u] # obj /\ UFail(u) /\ UNCHANGED user
  /\ UNCHANGED <<userSeen, pki, acls, secret, sharedVars>>

\* Mutant: only the first grant is carried out.
CreateUserACLsOnce(u) ==
  /\ UAt(u, "grant") /\ CanConnect
  /\ \/ uw[u].todo = {} /\ UNCHANGED acls
     \/ \E g \in uw[u].todo : acls' = acls \cup AclsOf(u, g)
  /\ UGoto(u, "final")
  /\ UNCHANGED <<user, userSeen, pki, secret, sharedVars>>

\* One grant; a failure leaves the ones before it in place.  The calls for one grant are one step:
\* each adds what may be there already, and nothing looks at the ACLs before the last grant.
CreateUserACLs(u) ==
  /\ UAt(u, "grant")
  /\ \/ uw[u].todo = {} /\ UGoto(u, "final") /\ UNCHANGED acls
     \/ uw[u].todo # {} /\ ~CanConnect /\ UFail(u) /\ UNCHANGED acls
     \/ /\ CanConnect
        /\ \E g \in uw[u].todo : /\ acls' = acls \cup AclsOf(u, g)
                                 /\ uw' = [uw EXCEPT ![u].todo = @ \ {g}]
        /\ UNCHANGED udue
  /\ UNCHANGED <<user, userSeen, pki, secret, sharedVars>>

AddUserFinalizer(u) ==
  /\ UAt(u, "final")
  /\ LET obj == uw[u].obj IN
       IF obj.fin THEN UGoto(u, "status") /\ UNCHANGED user
       ELSE UWrite(u, [obj EXCEPT !.fin = TRUE, !.label = @ \/ uw[u].label], "status")
  /\ UNCHANGED <<userSeen, pki, acls, secret, sharedVars>>

UserCreated(u) ==
  /\ UAt(u, "status")
  /\ UWrite(u, [uw[u].obj EXCEPT !.state = "created"], "idle")
  /\ UNCHANGED <<userSeen, pki, acls, secret, sharedVars>>

UserStep(u) ==
  \/ ReconcileUser(u) \/ GetUserCertificate(u) \/ InjectJKSPassword(u) \/ CreateCertificate(u)
  \/ GetUserSecret(u) \/ EnsureKey(u) \/ GenerateAndCreateCSR(u) \/ SecretUpdateAnnotation(u)
  \/ PollRequest(u) \/ UserMain(u) \/ DeleteUserACLs(u) \/ RemoveUserFinalizer(u)
  \/ LabelUser(u) \/ CreateUserACLs(u) \/ AddUserFinalizer(u) \/ UserCreated(u)

-----------------------------------------------------------------------------
(* The cache, cert-manager, the signer and the garbage collector. *)

SyncUser(u) ==
  /\ userSeen[u] # user[u]
  /\ userSeen' = [userSeen EXCEPT ![u] = user[u]]
  /\ udue' = udue \cup {u}
  /\ UNCHANGED <<user, uw, pki, acls, secret, sharedVars>>

UserCreatesUser(u) ==
  /\ user[u] = NoUser /\ Spend("create")
  /\ user' = [user EXCEPT ![u] = [NoUser EXCEPT !.exists = TRUE]]
  /\ UNCHANGED <<userSeen, uw, udue, pki, acls, secret, scene, cluster, clusterSeen, up>>

Unwanted(obj) == IF obj.exists THEN StoredUser([obj EXCEPT !.deleted = TRUE]) ELSE obj

UserDeletesUser(u) ==
  /\ user[u].exists /\ Spend("delete")
  /\ user' = [user EXCEPT ![u] = Unwanted(@)]
  /\ UNCHANGED <<userSeen, uw, udue, pki, acls, secret, scene, cluster, clusterSeen, up>>

\* cert-manager fills the secret of a Certificate; a key store needs its password.
CertManagerIssues(u) ==
  /\ pki[u].certificate /\ secret[u] # "full" /\ (scene.users[u].jks => secret[u] = "password")
  /\ secret' = [secret EXCEPT ![u] = "full"]
  /\ UNCHANGED <<userVars, sharedVars>>

\* certificateSigningRequestFilter, mapToKafkaUser: a request that changes wakes
\* its KafkaUser.
WakeUser(u) == udue' = IF userSeen[u].exists THEN udue \cup {u} ELSE udue

\* An administrator approves what the operator may not, and the signer signs.
SignerActs(u) ==
  /\ \E i \in DOMAIN pki[u].requests :
       \/ /\ pki[u].requests[i] = "approved"
          /\ pki' = [pki EXCEPT ![u].requests[i] = "issued"]
       \/ /\ pki[u].requests[i] = "new" /\ scene.users[u].signer # "cert-manager"
          /\ pki' = [pki EXCEPT ![u].requests[i] = "approved"]
  /\ WakeUser(u)
  /\ UNCHANGED <<user, userSeen, uw, acls, secret, sharedVars>>

\* Kubernetes removes an old request.
RequestExpires(u) ==
  /\ Spend("expire")
  /\ \E i \in DOMAIN pki[u].requests :
       /\ pki[u].requests[i] # "gone"
       /\ pki' = [pki EXCEPT ![u].requests[i] = "gone"]
  /\ UNCHANGED <<user, userSeen, uw, udue, acls, secret, scene, cluster, clusterSeen, up>>

\* What a KafkaUser owns goes with it.  A worker that has read the annotation of its secret
\* still knows the request, so that refers is left alone.
GarbageCollect(u) ==
  /\ ~user[u].exists
  /\ pki[u].certificate \/ (pki[u].owned /\ secret[u] # "none")
  /\ pki' = [pki EXCEPT ![u].certificate = FALSE, ![u].owned = FALSE]
  /\ secret' = [secret EXCEPT ![u] = IF pki[u].owned THEN "none" ELSE @]
  /\ UNCHANGED <<user, userSeen, uw, udue, acls, sharedVars>>

UserEnvironment ==
  \E u \in Users : \/ SyncUser(u) \/ UserCreatesUser(u) \/ UserDeletesUser(u) \/ CallFails(u)
                   \/ CertManagerIssues(u) \/ SignerActs(u) \/ RequestExpires(u)
                   \/ GarbageCollect(u)
=============================================================================
