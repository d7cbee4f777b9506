------------------------- MODULE AlertManagerProofs -------------------------
(***************************************************************************)
(* What AlertManager keeps for any alerts, any cluster, any limits and any *)
(* number of requests that are served at once: its types, that an alert    *)
(* edits the cluster once, that the IDs of the brokers stay distinct and   *)
(* that the limits hold.                                                   *)
(*                                                                         *)
(* The last two are not inductive: they need that the request which is     *)
(* about to edit the list of brokers has seen every edit before            *)
(* (EditsOnCurrent). That follows from the mutex, which only one request   *)
(* holds from the look-up of an alert to its Processed flag (Exclusive),   *)
(* and from the write of the status in between, which is accepted only if  *)
(* the cached object is the latest.                                        *)
(*                                                                         *)
(* RemoveBrokerFromCr is a loop; what it keeps is shown by induction over  *)
(* the positions of the list, with the least position at which a claim     *)
(* fails as the induction.                                                 *)
(***************************************************************************)
EXTENDS AlertManager, FiniteSetTheorems, SequenceTheorems, TLAPS

-----------------------------------------------------------------------------
(* The inductive invariant. *)

\* The steps of a request.
Pcs ==
  {"idle", "add", "gc", "count", "range", "lock", "status", "status2", "put"} \cup Commands

\* Between the look-up and the Processed flag of HandleAlert.
Examining == {"status", "status2", "put"} \cup Commands

\* Between the write of the status and the edit.
Accepted == {"put"} \cup Commands

\* What Prometheus says of an alert.
PromStates == {"firing", "resolved", "silent"}
\* A broker of the spec.
BrokerRec == [id : Nat, disks : Nat, grown : Nat]
\* The KafkaCluster, at the API server or in the cache.
ClusterRec == [brokers : Seq(BrokerRec), running : BOOLEAN, busy : BOOLEAN, errors : Nat]
\* A goroutine that serves a request.
Request(fps) ==
  [ pc : Pcs, batch : Seq(fps \X PromStates), seen : SUBSET fps, todo : SUBSET fps,
    fp : fps \cup {""}, count : Nat, id : Nat ]

\* The types of all variables; the budget only shrinks.
Types ==
  /\ TypeOK /\ cr \in ClusterRec /\ cache \in ClusterRec /\ unbound \in BOOLEAN
  /\ req \in [Reqs -> Request(Fps)] /\ left \in [Events -> Nat]
  /\ \A e \in Events : left[e] <= scene.budget[e]

\* A request with alerts to add has some; a request that is to handle an alert has one.
Works(q) ==
  /\ q.pc \in {"add", "gc"} => q.batch # <<>>
  /\ q.pc \in {"lock"} \cup Examining => q.fp \in Fps
  /\ q.pc \in Commands => q.pc = scene.alerts[q.fp].command

\* ... every request.
AllWork == \A r \in Reqs : Works(req[r])

\* The mutex: only its holder examines an alert, and that alert is still new.
Exclusive ==
  \A r \in Reqs : req[r].pc \in Examining => lock = r /\ store[req[r].fp] = "new"

\* An alert that is not processed has edited nothing.
NotYetActed == \A f \in Fps : acted[f] <= 1 /\ (store[f] # "processed" => acted[f] = 0)

\* No two brokers of a list have the same ID.
DistinctIds(bs) == \A i, j \in DOMAIN bs : i # j => bs[i].id # bs[j].id

\* A request whose status write was accepted has seen every edit made so far: the
\* limit it compared is the limit, and the ID it took is fresh.
Current(c, cached, q) ==
  q.pc \in Accepted =>
    /\ cached.brokers = c.brokers
    /\ scene.alerts[q.fp].command = "upScale" => ~AtUpLimit(c)
    /\ scene.alerts[q.fp].command = "downScale" => ~AtDownLimit(c)
    /\ q.pc = "put" /\ scene.alerts[q.fp].command = "upScale" => \A i \in Ids(c) : i < q.id

\* This is what the mutex and the refusal of an old object give together: as long as no
\* user edits the brokers, nobody else does between the accepted write of the status and
\* the edit of its request.
EditsOnCurrent == Untouched => \A r \in Reqs : Current(cr, cache, req[r])

\* The inductive invariant of AlertManager.
AlertInv ==
  /\ Types /\ AllWork /\ Exclusive /\ NotYetActed
  /\ IdsDistinct /\ LimitsHold /\ EditsOnCurrent

-----------------------------------------------------------------------------
(* Induction over the positions of a list, from the least-number principle. *)

\* A set of numbers that is not empty has a least one.
LEMMA LeastNat ==
  ASSUME NEW T, T \subseteq Nat, T # {}
  PROVE  \E x \in T : \A y \in T : x <= y
<1>1. PICK x \in T : \A y \in T : ~(<<y, x>> \in OpToRel(<, Nat))
  BY NatLessThanWellFounded, WFMin
<1>2. \A y \in T : ~(y < x)
  BY <1>1 DEF OpToRel
<1> QED BY <1>2

\* A set of positions that holds 0 and is closed under the next one holds them all.
LEMMA UpTo ==
  ASSUME NEW N \in Nat, NEW T, 0 \in T, \A n \in 0..N : n \in T /\ n < N => n + 1 \in T
  PROVE  0..N \subseteq T
<1> SUFFICES ASSUME (0..N) \ T # {} PROVE FALSE
  OBVIOUS
<1> DEFINE rest == (0..N) \ T
<1>0. rest \subseteq Nat /\ rest # {}
  OBVIOUS
<1>1. PICK x \in (0..N) \ T : \A y \in (0..N) \ T : x <= y
  <2> HIDE DEF rest
  <2>1. \E x \in rest : \A y \in rest : x <= y
    BY <1>0, LeastNat
  <2> QED BY <2>1 DEF rest
<1>2. x - 1 \in 0..N /\ x - 1 < N
  BY <1>1
<1>3. x - 1 \in T
  BY <1>1, <1>2
<1> QED BY <1>1, <1>2, <1>3

-----------------------------------------------------------------------------
(* The list of brokers. *)

\* One round of the loop of RemoveBrokerFromCr.
KeptNext(bs, i, f, n) ==
  IF n = 0 THEN <<>>
  ELSE IF bs[n].id = i THEN f[n - 1] ELSE Append(f[n - 1], bs[n])

\* The recursive definition of what the loop keeps does define a function.
LEMMA KeptExists ==
  ASSUME NEW bs \in Seq(BrokerRec), NEW i
  PROVE  \E f : f = [n \in 0..Len(bs) |-> KeptNext(bs, i, f, n)]
<1> DEFINE T == {m \in 0..Len(bs) : \E f : f = [n \in 0..m |-> KeptNext(bs, i, f, n)]}
<1>1. 0 \in T
  <2> DEFINE f == [n \in 0..0 |-> <<>>]
  <2>1. f = [n \in 0..0 |-> KeptNext(bs, i, f, n)]
    BY DEF KeptNext
  <2> HIDE DEF f
  <2> QED BY <2>1
<1>2. ASSUME NEW m \in 0..Len(bs), m \in T, m < Len(bs) PROVE m + 1 \in T
  <2>1. PICK f : f = [n \in 0..m |-> KeptNext(bs, i, f, n)]
    BY <1>2
  <2> DEFINE g == [n \in 0..(m + 1) |-> IF n <= m THEN f[n] ELSE KeptNext(bs, i, f, n)]
  <2>2. ASSUME NEW n \in 0..(m + 1) PROVE g[n] = KeptNext(bs, i, g, n)
    <3>1. n # 0 => g[n - 1] = f[n - 1]
      OBVIOUS
    <3>2. g[n] = KeptNext(bs, i, f, n)
      BY <2>1
    <3> HIDE DEF g
    <3> QED BY <3>1, <3>2 DEF KeptNext
  <2>3. g = [n \in 0..(m + 1) |-> g[n]]
    OBVIOUS
  <2>4. g = [n \in 0..(m + 1) |-> KeptNext(bs, i, g, n)]
    <3> HIDE DEF g
    <3> QED BY <2>2, <2>3
  <2> HIDE DEF g
  <2> QED BY <2>4
<1> HIDE DEF T
<1>3. 0..Len(bs) \subseteq T
  BY <1>1, <1>2, UpTo
<1> QED BY <1>3 DEF T

\* The loop of RemoveBrokerFromCr as its recursive equations.
LEMMA KeptIs ==
  ASSUME NEW bs \in Seq(BrokerRec), NEW i
  PROVE  \A n \in 0..Len(bs) : Kept(bs, i)[n] = KeptNext(bs, i, Kept(bs, i), n)
<1>0. \E f : f = [n \in 0..Len(bs) |-> KeptNext(bs, i, f, n)]
  BY KeptExists
<1>1. Kept(bs, i) = [n \in 0..Len(bs) |-> KeptNext(bs, i, Kept(bs, i), n)]
  BY <1>0 DEF Kept, KeptNext
<1> HIDE DEF Kept
<1> QED BY <1>1

\* What RemoveBrokerFromCr keeps of the first n brokers: brokers of the list, no two
\* alike if no two were, and all of them but the one with the ID.
KeptOk(bs, i, n, ks) ==
  /\ ks \in Seq(BrokerRec) /\ Len(ks) <= n
  /\ \A j \in DOMAIN ks : \E k \in 1..n : ks[j] = bs[k]
  /\ DistinctIds(bs) =>
       /\ DistinctIds(ks)
       /\ Len(ks) >= n - 1
       /\ (\A k \in 1..n : bs[k].id # i) => Len(ks) = n

\* The loop keeps what KeptOk says, of every part of the list that it has gone over.
LEMMA KeptProperties ==
  ASSUME NEW bs \in Seq(BrokerRec), NEW i
  PROVE  \A n \in 0..Len(bs) : KeptOk(bs, i, n, Kept(bs, i)[n])
<1> DEFINE kept == Kept(bs, i)
           T == {n \in 0..Len(bs) : KeptOk(bs, i, n, kept[n])}
<1>1. \A n \in 0..Len(bs) : kept[n] = KeptNext(bs, i, kept, n)
  BY KeptIs
<1> HIDE DEF kept
<1>2. 0 \in T
  <2>1. Len(bs) \in Nat /\ 0 \in 0..Len(bs)
    OBVIOUS
  <2>2. kept[0] = <<>>
    BY <1>1, <2>1 DEF KeptNext
  <2>3. KeptOk(bs, i, 0, <<>>)
    BY DEF KeptOk, DistinctIds
  <2> QED BY <2>1, <2>2, <2>3
<1>3. ASSUME NEW n \in 0..Len(bs), n \in T, n < Len(bs) PROVE n + 1 \in T
  <2> DEFINE ks == kept[n]
             new == kept[n + 1]
  <2>1. KeptOk(bs, i, n, ks) /\ ks \in Seq(BrokerRec) /\ Len(ks) \in Nat
    BY <1>3 DEF KeptOk
  <2>2. bs[n + 1] \in BrokerRec
    BY <1>3
  <2>3. new = IF bs[n + 1].id = i THEN ks ELSE Append(ks, bs[n + 1])
    BY <1>1, <1>3 DEF KeptNext
  <2> HIDE DEF ks, new
  <2>4. CASE bs[n + 1].id = i
    <3>1. new = ks
      BY <2>3, <2>4
    <3>2. \A j \in DOMAIN ks : \E k \in 1..(n + 1) : ks[j] = bs[k]
      BY <1>3, <2>1 DEF KeptOk
    <3>3. DistinctIds(bs) => \A k \in 1..n : bs[k].id # i
      BY <1>3, <2>4 DEF DistinctIds
    <3>4. KeptOk(bs, i, n + 1, new)
      BY <1>3, <2>1, <2>4, <3>1, <3>2, <3>3 DEF KeptOk
    <3> QED BY <1>3, <3>4 DEF new
  <2>5. CASE bs[n + 1].id # i
    <3>1. new = Append(ks, bs[n + 1])
      BY <2>3, <2>5
    <3>2. /\ new \in Seq(BrokerRec) /\ Len(new) = Len(ks) + 1 /\ new[Len(ks) + 1] = bs[n + 1]
          /\ DOMAIN new = 1..(Len(ks) + 1) /\ DOMAIN ks = 1..Len(ks)
          /\ \A j \in DOMAIN ks : new[j] = ks[j]
      BY <2>1, <2>2, <3>1
    <3>3. \A j \in DOMAIN new : \E k \in 1..(n + 1) : new[j] = bs[k]
      <4> SUFFICES ASSUME NEW j \in DOMAIN new PROVE \E k \in 1..(n + 1) : new[j] = bs[k]
        OBVIOUS
      <4>1. CASE j = Len(ks) + 1
        BY <1>3, <3>2, <4>1
      <4>2. CASE j # Len(ks) + 1
        <5>1. j \in DOMAIN ks
          BY <2>1, <3>2, <4>2
        <5>2. PICK k \in 1..n : ks[j] = bs[k]
          BY <2>1, <5>1 DEF KeptOk
        <5> QED BY <1>3, <3>2, <5>1, <5>2
      <4> QED BY <4>1, <4>2
    <3>4. ASSUME DistinctIds(bs) PROVE DistinctIds(new)
      <4>1. \A j \in DOMAIN ks : ks[j].id # bs[n + 1].id
        <5> SUFFICES ASSUME NEW j \in DOMAIN ks PROVE ks[j].id # bs[n + 1].id
          OBVIOUS
        <5>1. PICK k \in 1..n : ks[j] = bs[k]
          BY <2>1 DEF KeptOk
        <5>2. k \in DOMAIN bs /\ n + 1 \in DOMAIN bs /\ k # n + 1
          BY <1>3
        <5> QED BY <3>4, <5>1, <5>2 DEF DistinctIds
      <4>2. DistinctIds(ks)
        BY <2>1, <3>4 DEF KeptOk
      <4> QED BY <2>1, <3>2, <4>1, <4>2 DEF DistinctIds
    <3>5. (\A k \in 1..(n + 1) : bs[k].id # i) => \A k \in 1..n : bs[k].id # i
      BY <1>3
    <3>6. /\ Len(ks) <= n
          /\ DistinctIds(bs) => /\ Len(ks) >= n - 1
                                /\ (\A k \in 1..n : bs[k].id # i) => Len(ks) = n
      BY <2>1 DEF KeptOk
    <3>7. /\ Len(new) <= n + 1
          /\ DistinctIds(bs) =>
               /\ Len(new) >= (n + 1) - 1
               /\ (\A k \in 1..(n + 1) : bs[k].id # i) => Len(new) = n + 1
      <4>1. n \in Nat /\ Len(new) = Len(ks) + 1 /\ Len(ks) \in Nat
        BY <1>3, <2>1, <3>2
      <4> QED BY <3>5, <3>6, <4>1
    <3>8. KeptOk(bs, i, n + 1, new)
      BY <3>2, <3>3, <3>4, <3>7 DEF KeptOk
    <3> QED BY <1>3, <3>8 DEF new
  <2> QED BY <2>4, <2>5
<1> HIDE DEF T
<1>4. 0..Len(bs) \subseteq T
  BY <1>2, <1>3, UpTo
<1> QED BY <1>4 DEF T, kept

\* RemoveBrokerFromCr: a list of brokers, shorter by at most one if the IDs are distinct,
\* with IDs that stay distinct.
LEMMA WithoutProperties ==
  ASSUME NEW bs \in Seq(BrokerRec), NEW i
  PROVE  /\ Without(bs, i) \in Seq(BrokerRec) /\ Len(Without(bs, i)) <= Len(bs)
         /\ DistinctIds(bs) => /\ DistinctIds(Without(bs, i))
                               /\ Len(Without(bs, i)) >= Len(bs) - 1
<1>1. Len(bs) \in 0..Len(bs)
  OBVIOUS
<1>2. KeptOk(bs, i, Len(bs), Without(bs, i))
  BY <1>1, KeptProperties DEF Without
<1> QED BY <1>2 DEF KeptOk

\* addPvc and resizePvc change one number of a broker.
LEMMA BrokerFields ==
  ASSUME NEW b \in BrokerRec
  PROVE  /\ b.id \in Nat
         /\ [b EXCEPT !.disks = @ + 1] \in BrokerRec /\ [b EXCEPT !.disks = @ + 1].id = b.id
         /\ [b EXCEPT !.grown = @ + 1] \in BrokerRec /\ [b EXCEPT !.grown = @ + 1].id = b.id
<1>1. b.id \in Nat /\ b.disks + 1 \in Nat /\ b.grown + 1 \in Nat
  BY DEF BrokerRec
<1>2. PICK d \in Nat, g \in Nat : d = b.disks + 1 /\ g = b.grown + 1
  BY <1>1
<1>3. /\ [b EXCEPT !.disks = d] \in BrokerRec /\ [b EXCEPT !.disks = d].id = b.id
      /\ [b EXCEPT !.grown = g] \in BrokerRec /\ [b EXCEPT !.grown = g].id = b.id
  BY DEF BrokerRec
<1> QED BY <1>1, <1>2, <1>3

\* ... and neither the length of the list nor its IDs.
LEMMA ListFields ==
  ASSUME NEW bs \in Seq(BrokerRec)
  PROVE  /\ Len(bs) \in Nat /\ DOMAIN bs = 1..Len(bs)
         /\ \A k \in DOMAIN bs : bs[k] \in BrokerRec /\ bs[k].id \in Nat
<1>1. \A k \in DOMAIN bs : bs[k] \in BrokerRec
  OBVIOUS
<1>2. \A b \in BrokerRec : b.id \in Nat
  BY BrokerFields
<1>3. Len(bs) \in Nat /\ DOMAIN bs = 1..Len(bs)
  OBVIOUS
<1> QED BY <1>1, <1>2, <1>3

\* A list of brokers has a greatest ID.
LEMMA MaxIdProperties ==
  ASSUME NEW c \in ClusterRec
  PROVE  MaxId(c) \in Nat /\ \A i \in Ids(c) : i <= MaxId(c)
<1> DEFINE bs == c.brokers
           ids(n) == {bs[k].id : k \in 1..n}
           T == {n \in 0..Len(bs) : \E m \in ids(n) \cup {0} : \A k \in ids(n) : k <= m}
<1>1. bs \in Seq(BrokerRec) /\ Len(bs) \in Nat /\ DOMAIN bs = 1..Len(bs)
  BY DEF ClusterRec
<1>2. \A k \in 1..Len(bs) : bs[k].id \in Nat
  BY <1>1, ListFields
<1> HIDE DEF bs
<1>3. 0 \in T
  <2>1. ids(0) = {} /\ 0 \in 0..Len(bs)
    BY <1>1
  <2> HIDE DEF ids
  <2> QED BY <2>1
<1>4. ASSUME NEW n \in 0..Len(bs), n \in T, n < Len(bs) PROVE n + 1 \in T
  <2>1. PICK m \in ids(n) \cup {0} : \A k \in ids(n) : k <= m
    BY <1>4
  <2>2. ids(n + 1) = ids(n) \cup {bs[n + 1].id}
    BY <1>1, <1>4
  <2>3. m \in Nat /\ bs[n + 1].id \in Nat /\ ids(n) \subseteq Nat /\ n + 1 \in 0..Len(bs)
    BY <1>1, <1>2, <1>4
  <2> HIDE DEF ids
  <2>4. CASE bs[n + 1].id <= m
    BY <2>1, <2>2, <2>3, <2>4
  <2>5. CASE m < bs[n + 1].id
    <3>1. \A k \in ids(n + 1) : k <= bs[n + 1].id
      BY <2>1, <2>2, <2>3, <2>5
    <3> QED BY <2>2, <2>3, <3>1
  <2> QED BY <2>3, <2>4, <2>5
<1> HIDE DEF T
<1>5. 0..Len(bs) \subseteq T
  BY <1>1, <1>3, <1>4, UpTo
<1>6. Ids(c) = ids(Len(bs))
  BY <1>1 DEF Ids, bs
<1>7. \E m \in Ids(c) \cup {0} : \A i \in Ids(c) : i <= m
  <2>1. Len(bs) \in T
    BY <1>1, <1>5
  <2> HIDE DEF ids
  <2>2. \E m \in ids(Len(bs)) \cup {0} : \A k \in ids(Len(bs)) : k <= m
    BY <2>1 DEF T
  <2> QED BY <1>6, <2>2
<1>8. MaxId(c) \in Ids(c) \cup {0} /\ \A i \in Ids(c) : i <= MaxId(c)
  BY <1>7 DEF MaxId
<1>9. Ids(c) \subseteq Nat
  BY <1>1, <1>2, <1>6
<1> QED BY <1>8, <1>9

\* A new broker.
LEMMA BrokerType ==
  ASSUME NEW i \in Nat
  PROVE  Broker(i) \in BrokerRec /\ Broker(i).id = i
  BY DEF Broker, BrokerRec

\* AddNewBrokerToCr: a broker with a fresh ID at the end.
LEMMA AppendIds ==
  ASSUME NEW bs \in Seq(BrokerRec), NEW b \in BrokerRec
  PROVE  /\ Append(bs, b) \in Seq(BrokerRec) /\ Len(Append(bs, b)) = Len(bs) + 1
         /\ DistinctIds(bs) /\ (\A k \in DOMAIN bs : bs[k].id # b.id) =>
              DistinctIds(Append(bs, b))
<1> DEFINE new == Append(bs, b)
<1>1. /\ new \in Seq(BrokerRec) /\ Len(new) = Len(bs) + 1 /\ Len(bs) \in Nat
      /\ DOMAIN bs = 1..Len(bs) /\ DOMAIN new = 1..(Len(bs) + 1) /\ new[Len(bs) + 1] = b
      /\ \A k \in DOMAIN bs : new[k] = bs[k]
  OBVIOUS
<1> HIDE DEF new
<1>2. ASSUME DistinctIds(bs), \A k \in DOMAIN bs : bs[k].id # b.id PROVE DistinctIds(new)
  BY <1>1, <1>2 DEF DistinctIds
<1> QED BY <1>1, <1>2 DEF new

\* What the four commands do to the list of brokers.
LEMMA EditedProperties ==
  ASSUME NEW command \in Commands, NEW bs \in Seq(BrokerRec), NEW i \in Nat
  PROVE  LET new == Edited(command, bs, i) IN
         /\ new \in Seq(BrokerRec)
         /\ command = "upScale" => Len(new) = Len(bs) + 1
         /\ command \in {"addPvc", "resizePvc"} => Len(new) = Len(bs)
         /\ command = "downScale" =>
              Len(new) <= Len(bs) /\ (DistinctIds(bs) => Len(new) >= Len(bs) - 1)
         /\ /\ DistinctIds(bs)
            /\ command = "upScale" => \A k \in DOMAIN bs : bs[k].id < i
            => DistinctIds(new)
<1> DEFINE new == Edited(command, bs, i)
<1>1. CASE command = "upScale"
  <2>1. new = Append(bs, Broker(i))
    BY <1>1 DEF Edited
  <2>2. \A k \in DOMAIN bs : bs[k].id \in Nat
    BY ListFields
  <2>3. (\A k \in DOMAIN bs : bs[k].id < i) => \A k \in DOMAIN bs : bs[k].id # Broker(i).id
    BY <2>2, BrokerType
  <2> HIDE DEF new
  <2>4. /\ new \in Seq(BrokerRec) /\ Len(new) = Len(bs) + 1
        /\ DistinctIds(bs) /\ (\A k \in DOMAIN bs : bs[k].id < i) => DistinctIds(new)
    <3>1. Broker(i) \in BrokerRec
      BY BrokerType
    <3>2. /\ Append(bs, Broker(i)) \in Seq(BrokerRec) /\ Len(Append(bs, Broker(i))) = Len(bs) + 1
          /\ DistinctIds(bs) /\ (\A k \in DOMAIN bs : bs[k].id # Broker(i).id) =>
               DistinctIds(Append(bs, Broker(i)))
      BY <3>1, AppendIds
    <3> QED BY <2>1, <2>3, <3>2
  <2> QED BY <1>1, <2>4 DEF new
<1>2. CASE command = "downScale"
  <2>1. new = Without(bs, i)
    BY <1>2 DEF Edited
  <2> HIDE DEF new
  <2> QED BY <1>2, <2>1, WithoutProperties DEF new
<1>3. CASE command \in {"addPvc", "resizePvc"}
  <2>1. /\ DOMAIN new = DOMAIN bs
        /\ \A k \in DOMAIN bs :
             \/ new[k] = bs[k]
             \/ new[k] = [bs[k] EXCEPT !.disks = @ + 1]
             \/ new[k] = [bs[k] EXCEPT !.grown = @ + 1]
        /\ new = [k \in DOMAIN bs |-> new[k]]
    BY <1>3 DEF Edited
  <2> HIDE DEF new
  <2>2. \A k \in DOMAIN bs : new[k] \in BrokerRec /\ new[k].id = bs[k].id
    <3> SUFFICES ASSUME NEW k \in DOMAIN bs PROVE new[k] \in BrokerRec /\ new[k].id = bs[k].id
      OBVIOUS
    <3>1. bs[k] \in BrokerRec
      OBVIOUS
    <3> QED BY <2>1, <3>1, BrokerFields
  <2>3. new \in Seq(BrokerRec) /\ Len(new) = Len(bs)
    <3>1. Len(bs) \in Nat /\ DOMAIN bs = 1..Len(bs)
      OBVIOUS
    <3>2. new \in [1..Len(bs) -> BrokerRec]
      BY <2>1, <2>2, <3>1
    <3>3. new \in Seq(BrokerRec)
      BY <3>1, <3>2, SeqDef
    <3> QED BY <3>1, <3>2, <3>3
  <2>4. DistinctIds(bs) => DistinctIds(new)
    BY <2>1, <2>2 DEF DistinctIds
  <2> QED BY <1>3, <2>3, <2>4 DEF new
<1> QED BY <1>1, <1>2, <1>3 DEF Commands

-----------------------------------------------------------------------------
(* Steps that leave the list of brokers alone. *)

\* The constants of the scene.
LEMMA SceneFacts ==
  ASSUME AlertInv
  PROVE  /\ Scene(scene) /\ IsFiniteSet(Fps)
         /\ \A f \in Fps : /\ scene.alerts[f].command \in Commands
                           /\ scene.alerts[f].broker \in Nat
         /\ scene.brokers \in Seq(Nat) /\ scene.up \in Nat /\ scene.down \in Nat
         /\ scene.budget \in [Events -> Nat]
<1>1. Scene(scene)
  BY ScenesAssumption DEF AlertInv, Types, TypeOK
<1> QED BY <1>1 DEF Scene, Fps

\* The limits and the IDs are read from the list of brokers only.
LEMMA SameBrokers ==
  ASSUME NEW c, NEW d, NEW cached, NEW fresh, NEW q, d.brokers = c.brokers,
         cached.brokers = c.brokers => fresh.brokers = c.brokers, Current(c, cached, q)
  PROVE  Current(d, fresh, q)
  BY DEF Current, AtUpLimit, AtDownLimit, Ids

\* The list keeps to the limits of the scene.
Within(bs) ==
  /\ scene.up > 0 /\ Len(bs) > Len(scene.brokers) => Len(bs) <= scene.up
  /\ Len(bs) < Len(scene.brokers) => Len(bs) >= scene.down

\* What a step has to keep; a user who edits the cluster may break the rest.
LEMMA Keeps ==
  ASSUME AlertInv, scene' = scene, cr' \in ClusterRec, cache' \in ClusterRec,
         unbound' \in BOOLEAN, prom' \in [Fps -> PromStates],
         store' \in [Fps -> {"absent", "new", "processed"}], lock' \in Reqs \cup {NoReq},
         acted' \in [Fps -> Nat], req' \in [Reqs -> Request(Fps)],
         left' \in [Events -> Nat], \A e \in Events : left'[e] <= left[e],
         \A r \in Reqs : Works(req'[r]), Exclusive', NotYetActed',
         Untouched' => /\ DistinctIds(cr'.brokers) /\ Within(cr'.brokers)
                       /\ \A r \in Reqs : Current(cr', cache', req'[r])
  PROVE  AlertInv'
<1>1. Fps' = Fps
  BY DEF Fps
<1>2. Types'
  <2>1. \A e \in Events : left'[e] <= scene.budget[e]
    <3>1. \A e \in Events : left'[e] \in Nat /\ left[e] \in Nat /\ scene.budget[e] \in Nat
      BY SceneFacts DEF AlertInv, Types
    <3> QED BY <3>1 DEF AlertInv, Types
  <2>2. TypeOK'
    <3>1. scene \in Scenes
      BY DEF AlertInv, Types, TypeOK
    <3>2. \A c \in {cr', cache'} :
            /\ c.brokers \in Seq(BrokerRec)
            /\ c.running \in BOOLEAN /\ c.busy \in BOOLEAN /\ c.errors \in Nat
      BY DEF ClusterRec
    <3> QED BY <1>1, <3>1, <3>2 DEF TypeOK, BrokerRec, PromStates
  <2> QED BY <1>1, <2>1, <2>2
       DEF Types, ClusterRec, BrokerRec, Request, Pcs, Commands, PromStates, Events
<1>3. AllWork'
  BY DEF AllWork, Works, Fps, Examining, Commands
<1>4. IdsDistinct'
  BY DEF IdsDistinct, DistinctIds
<1>5. LimitsHold'
  BY DEF LimitsHold, Within
<1>6. EditsOnCurrent'
  BY DEF EditsOnCurrent, Current, AtUpLimit, AtDownLimit, Ids, Accepted, Commands
<1> QED BY <1>2, <1>3, <1>4, <1>5, <1>6 DEF AlertInv

\* If no user has edited the brokers after a step, none had before it.
LEMMA UntouchedBefore ==
  ASSUME AlertInv, scene' = scene, left' \in [Events -> Nat],
         \A e \in Events : left'[e] <= left[e], Untouched'
  PROVE  /\ Untouched /\ left'["edit"] = left["edit"] /\ left'["add"] = left["add"]
         /\ DistinctIds(cr.brokers) /\ Within(cr.brokers)
<1>1. \A e \in {"edit", "add"} : /\ left'[e] <= left[e] /\ left[e] <= scene.budget[e]
                                 /\ left'[e] \in Nat /\ left[e] \in Nat
                                 /\ scene.budget[e] \in Nat
  BY SceneFacts DEF AlertInv, Types, Events
<1>2. Untouched /\ left'["edit"] = left["edit"] /\ left'["add"] = left["add"]
  BY <1>1 DEF Untouched
<1> QED BY <1>2 DEF AlertInv, IdsDistinct, LimitsHold, DistinctIds, Within

\* A step that leaves the list of brokers alone.
LEMMA Quiet ==
  ASSUME AlertInv, scene' = scene, cr' \in ClusterRec, cr'.brokers = cr.brokers,
         cache' \in ClusterRec,
         unbound' \in BOOLEAN, prom' \in [Fps -> PromStates],
         store' \in [Fps -> {"absent", "new", "processed"}], lock' \in Reqs \cup {NoReq},
         acted' \in [Fps -> Nat], req' \in [Reqs -> Request(Fps)],
         left' \in [Events -> Nat], \A e \in Events : left'[e] <= left[e],
         \A r \in Reqs : Works(req'[r]), Exclusive', NotYetActed',
         \A r \in Reqs : Untouched => Current(cr', cache', req'[r])
  PROVE  AlertInv'
  BY UntouchedBefore, Keeps

\* The step of one request; q is what becomes of it.
LEMMA RequestMoves ==
  ASSUME AlertInv, NEW r \in Reqs, NEW q \in Request(Fps), Works(q),
         req' = [req EXCEPT ![r] = q],
         UNCHANGED <<scene, unbound, left>>, prom' \in [Fps -> PromStates],
         cr' \in ClusterRec, cr'.brokers = cr.brokers, cache' = cache,
         acted' \in [Fps -> Nat], store' \in [Fps -> {"absent", "new", "processed"}],
         lock' \in Reqs \cup {NoReq}, Exclusive', NotYetActed',
         Untouched => Current(cr', cache, q)
  PROVE  AlertInv'
<1>1. /\ req \in [Reqs -> Request(Fps)] /\ cache \in ClusterRec /\ left \in [Events -> Nat]
      /\ unbound \in BOOLEAN
  BY DEF AlertInv, Types
<1>2. \A s \in Reqs : req'[s] = IF s = r THEN q ELSE req[s]
  BY <1>1
<1>3. \A s \in Reqs : Works(req'[s])
  BY <1>2 DEF AlertInv, AllWork
<1>4. ASSUME NEW s \in Reqs, Untouched PROVE Current(cr', cache', req'[s])
  <2>1. CASE s = r
    BY <1>2, <1>4, <2>1
  <2>2. CASE s # r
    <3>1. Current(cr, cache, req[s])
      BY <1>4 DEF AlertInv, EditsOnCurrent
    <3> QED BY <1>2, <2>2, <3>1, SameBrokers
  <2> QED BY <2>1, <2>2
<1>5. \A e \in Events : left[e] <= left[e]
  BY <1>1
<1> QED BY <1>1, <1>3, <1>4, <1>5, Quiet

\* What the invariant says of single variables.
LEMMA AlertTypes ==
  ASSUME AlertInv
  PROVE  /\ req \in [Reqs -> Request(Fps)] /\ cr \in ClusterRec /\ cache \in ClusterRec
         /\ left \in [Events -> Nat] /\ unbound \in BOOLEAN
         /\ store \in [Fps -> {"absent", "new", "processed"}] /\ lock \in Reqs \cup {NoReq}
         /\ prom \in [Fps -> PromStates] /\ acted \in [Fps -> Nat]
         /\ AllWork /\ Exclusive /\ NotYetActed
  BY DEF AlertInv, Types, TypeOK, PromStates

\* A goroutine without a request.
LEMMA IdleRequest ==
  /\ Idle \in Request(Fps) /\ Idle.pc = "idle" /\ Works(Idle) /\ Idle.pc \notin Examining
  /\ \A c, cached : Current(c, cached, Idle)
<1>1. Idle \in Request(Fps) /\ Idle.pc = "idle"
  BY DEF Idle, Request, Pcs
<1>2. "idle" \notin {"add", "gc", "lock"} \cup Examining \cup Commands \cup Accepted
  BY DEF Examining, Commands, Accepted
<1> HIDE DEF Idle
<1> QED BY <1>1, <1>2 DEF Works, Current

\* Nobody examines an alert while the mutex is free.
LEMMA FreeLock ==
  ASSUME AlertInv, lock = NoReq
  PROVE  \A s \in Reqs : req[s].pc \notin Examining
  BY ReqsAssumption DEF AlertInv, Exclusive

\* A request outside HandleAlert takes a step outside HandleAlert.
LEMMA OutsideMoves ==
  ASSUME AlertInv, NEW r \in Reqs, NEW q \in Request(Fps), Works(q), q.pc \notin Examining,
         req' = [req EXCEPT ![r] = q],
         UNCHANGED <<scene, unbound, left, cr, cache, acted, lock>>,
         prom' \in [Fps -> PromStates],
         store' = store \/ (lock = NoReq /\ store' \in [Fps -> {"absent", "new", "processed"}]
                              /\ NotYetActed')
  PROVE  AlertInv'
<1>1. \A s \in Reqs : req'[s] = IF s = r THEN q ELSE req[s]
  BY AlertTypes
<1>2. Exclusive'
  <2>1. ASSUME NEW s \in Reqs, req'[s].pc \in Examining
        PROVE  lock' = s /\ store'[req'[s].fp] = "new"
    <3>1. s # r /\ req'[s] = req[s]
      BY <1>1, <2>1
    <3> QED BY <2>1, <3>1, FreeLock, AlertTypes DEF Exclusive
  <2> QED BY <2>1 DEF Exclusive, Examining, Commands
<1>3. NotYetActed'
  BY AlertTypes DEF NotYetActed, Fps
<1>4. Current(cr', cache, q)
  BY DEF Current, Examining, Accepted
<1> QED BY <1>2, <1>3, <1>4, AlertTypes, RequestMoves

\* A batch is made of the alerts that were posted.
LEMMA BatchType ==
  ASSUME NEW S, IsFiniteSet(S), S # {}
  PROVE  /\ SetToSeq(S) \in Seq(S) /\ DOMAIN SetToSeq(S) = 1..Cardinality(S)
         /\ Cardinality(S) \in Nat \ {0}
<1>1. Cardinality(S) \in Nat /\ ExistsBijection(1..Cardinality(S), S)
  BY FS_CardinalityType
<1>2. \E f \in [1..Cardinality(S) -> S] : IsInjective(f)
  BY <1>1 DEF ExistsBijection, Bijection, Injection
<1>3. SetToSeq(S) \in [1..Cardinality(S) -> S]
  BY <1>2 DEF SetToSeq
<1>4. Cardinality(S) # 0
  BY <1>1, FS_EmptySet
<1> QED BY <1>1, <1>3, <1>4, SeqDef

\* A request arrives with some of the alerts.
LEMMA ReceiveInv ==
  ASSUME AlertInv, NEW r \in Reqs, NEW fs \in SUBSET Posted, Receive(r, fs)
  PROVE  AlertInv'
<1> DEFINE b == SetToSeq(fs)
           batch == [i \in DOMAIN b |-> <<b[i], prom[b[i]]>>]
           q == [Idle EXCEPT !.pc = "add", !.batch = batch]
<1>1. fs \subseteq Fps /\ fs # {} /\ IsFiniteSet(fs)
  BY SceneFacts, FS_Subset DEF Receive, Posted
<1>2. b \in Seq(fs) /\ DOMAIN b = 1..Cardinality(fs) /\ Cardinality(fs) \in Nat \ {0}
  BY <1>1, BatchType
<1> HIDE DEF b
<1>3. batch \in Seq(Fps \X PromStates) /\ batch # <<>>
  <2>1. batch \in [1..Cardinality(fs) -> Fps \X PromStates]
    BY <1>1, <1>2, AlertTypes
  <2>2. 1 \in DOMAIN batch
    BY <1>2, <2>1
  <2> HIDE DEF batch
  <2>3. batch \in Seq(Fps \X PromStates)
    BY <1>2, <2>1, SeqDef
  <2> QED BY <2>2, <2>3
<1> HIDE DEF batch
<1>4. q \in Request(Fps) /\ q.pc = "add" /\ q.batch = batch
  BY <1>3, IdleRequest DEF Request, Pcs
<1>5. req' = [req EXCEPT ![r] = q]
  BY DEF Receive, b, batch
<1> HIDE DEF q
<1>6. q.pc \notin Examining /\ Works(q)
  BY <1>3, <1>4 DEF Examining, Commands, Works
<1>7. prom' \in [Fps -> PromStates]
  BY AlertTypes DEF Receive, PromStates
<1> QED BY <1>4, <1>5, <1>6, <1>7, OutsideMoves DEF Receive

\* The batch after its first alert has been added.
LEMMA NextAlertType ==
  ASSUME NEW old \in Request(Fps), old.batch # <<>>
  PROVE  /\ NextAlert(old) \in Request(Fps) /\ Works(NextAlert(old))
         /\ NextAlert(old).pc \notin Examining
<1> DEFINE pc == IF Len(old.batch) = 1 THEN "count" ELSE "add"
           q == [old EXCEPT !.batch = Tail(old.batch), !.pc = pc]
<1>1. old.batch \in Seq(Fps \X PromStates)
  BY DEF Request
<1>2. Tail(old.batch) \in Seq(Fps \X PromStates) /\ Len(Tail(old.batch)) = Len(old.batch) - 1
  BY <1>1
<1>3. Len(old.batch) # 1 => Tail(old.batch) # <<>>
  <2>1. Len(<<>>) = 0 /\ Len(old.batch) \in Nat
    BY <1>1, EmptySeq, LenProperties
  <2>2. Tail(old.batch) = <<>> => Len(Tail(old.batch)) = 0
    BY <2>1
  <2> QED BY <1>2, <2>1, <2>2
<1>4. NextAlert(old) = q
  BY DEF NextAlert
<1>5. pc \in {"count", "add"} /\ (pc = "add" => Len(old.batch) # 1)
  OBVIOUS
<1> HIDE DEF pc
<1>6. q \in Request(Fps) /\ q.pc = pc /\ q.batch = Tail(old.batch)
  BY <1>2, <1>5 DEF Request, Pcs
<1> HIDE DEF q
<1>7. q.pc \notin Examining /\ Works(q)
  BY <1>3, <1>5, <1>6 DEF Examining, Commands, Works
<1> QED BY <1>4, <1>6, <1>7

\* AddAlert: an alert that is not in the store enters it as new.
LEMMA AddAlertInv ==
  ASSUME AlertInv, NEW r \in Reqs, AddAlert(r)
  PROVE  AlertInv'
<1> DEFINE a == Head(req[r].batch)
<1>1. store' = [store EXCEPT ![a[1]] = IF @ = "absent" THEN "new" ELSE @]
  BY DEF AddAlert
<1> HIDE DEF a
<1>2. \A f \in Fps : store'[f] = store[f] \/ (store[f] = "absent" /\ store'[f] = "new")
  BY <1>1, AlertTypes
<1>3. store' \in [Fps -> {"absent", "new", "processed"}]
  BY <1>1, AlertTypes
<1>4. NotYetActed'
  <2>1. \A f \in Fps : acted[f] <= 1 /\ (store'[f] # "processed" => acted[f] = 0)
    BY <1>2, AlertTypes DEF NotYetActed
  <2> QED BY <2>1 DEF NotYetActed, Fps, AddAlert, envVars
<1> DEFINE gc == [req[r] EXCEPT !.pc = "gc"]
<1>5. gc \in Request(Fps) /\ gc.pc = "gc" /\ gc.batch = req[r].batch
  BY AlertTypes DEF Request, Pcs
<1>6. req' = [req EXCEPT ![r] = gc] \/ req' = [req EXCEPT ![r] = NextAlert(req[r])]
  <2>1. req' = [req EXCEPT ![r] = IF a[2] = "resolved" THEN gc ELSE NextAlert(req[r])]
    BY AlertTypes DEF AddAlert, a
  <2> HIDE DEF gc
  <2>2. CASE a[2] = "resolved"
    BY <2>1, <2>2
  <2>3. CASE a[2] # "resolved"
    BY <2>1, <2>3
  <2> QED BY <2>2, <2>3
<1>7. req[r].pc = "add" /\ req[r].batch # <<>>
  BY AlertTypes DEF AddAlert, At, AllWork, Works
<1> HIDE DEF gc
<1>8. Works(gc) /\ gc.pc \notin Examining
  BY <1>5, <1>7 DEF Works, Examining, Commands
<1> QED BY <1>3, <1>4, <1>5, <1>6, <1>7, <1>8, NextAlertType, OutsideMoves, AlertTypes
    DEF AddAlert, envVars

\* AlertGC also takes the alert from the loops of the other requests.
LEMMA AlertGCInv ==
  ASSUME AlertInv, NEW r \in Reqs, AlertGC(r)
  PROVE  AlertInv'
<1> DEFINE f == Head(req[r].batch)[1]
           less(s) == [req[s] EXCEPT !.todo = @ \ {f}]
           others == [s \in Reqs |-> less(s)]
<1>1. /\ lock = NoReq /\ req[r].pc = "gc" /\ req' = [others EXCEPT ![r] = NextAlert(@)]
      /\ store' = [store EXCEPT ![f] = "absent"] /\ acted' = [acted EXCEPT ![f] = 0]
      /\ UNCHANGED <<scene, lock, cr, cache, unbound, prom, left>>
  BY DEF AlertGC, DeleteAlert, At, envVars
<1> HIDE DEF f
<1>2. ASSUME NEW s \in Reqs
      PROVE  /\ less(s) \in Request(Fps) /\ less(s).pc = req[s].pc /\ less(s).fp = req[s].fp
             /\ less(s).batch = req[s].batch
  BY AlertTypes DEF Request
<1>3. ASSUME NEW s \in Reqs
      PROVE  less(s) \in Request(Fps) /\ Works(less(s)) /\ less(s).pc \notin Examining
  <2>1. Works(req[s]) /\ req[s].pc \notin Examining
    BY <1>1, AlertTypes, FreeLock DEF AllWork
  <2> HIDE DEF less
  <2> QED BY <1>2, <2>1 DEF Works
<1>4. /\ NextAlert(less(r)) \in Request(Fps) /\ Works(NextAlert(less(r)))
      /\ NextAlert(less(r)).pc \notin Examining
  <2>1. less(r) \in Request(Fps) /\ less(r).batch # <<>>
    BY <1>1, <1>2, AlertTypes DEF AllWork, Works
  <2> HIDE DEF less
  <2> QED BY <2>1, NextAlertType
<1> HIDE DEF less
<1>5. \A s \in Reqs : req'[s] = IF s = r THEN NextAlert(less(r)) ELSE less(s)
  BY <1>1
<1>6. req' \in [Reqs -> Request(Fps)]
  BY <1>1, <1>3, <1>4
<1>7. \A s \in Reqs : Works(req'[s]) /\ req'[s].pc \notin Examining
  BY <1>3, <1>4, <1>5
<1>8. Exclusive'
  BY <1>7 DEF Exclusive, Examining, Commands
<1>9. /\ store' \in [Fps -> {"absent", "new", "processed"}] /\ acted' \in [Fps -> Nat]
      /\ \A g \in Fps : acted'[g] <= 1 /\ (store'[g] # "processed" => acted'[g] = 0)
  <2>1. store' = [store EXCEPT ![f] = "absent"] /\ acted' = [acted EXCEPT ![f] = 0]
    BY <1>1
  <2>2. \A g \in Fps : /\ store'[g] = IF g = f THEN "absent" ELSE store[g]
                       /\ acted'[g] = IF g = f THEN 0 ELSE acted[g]
    BY <2>1, AlertTypes
  <2>3. store' \in [Fps -> {"absent", "new", "processed"}] /\ acted' \in [Fps -> Nat]
    BY <2>1, AlertTypes
  <2> QED BY <2>2, <2>3, AlertTypes DEF NotYetActed
<1>10. NotYetActed'
  BY <1>1, <1>9 DEF NotYetActed, Fps
<1>11. \A s \in Reqs : Current(cr', cache', req'[s])
  BY <1>7 DEF Current, Examining, Accepted
<1>12. \A e \in Events : left'[e] <= left[e]
  BY <1>1, AlertTypes
<1> QED BY <1>1, <1>6, <1>7, <1>8, <1>9, <1>10, <1>11, <1>12, AlertTypes, Quiet

\* GetRollingUpgradeAlertCount.
LEMMA CountInv ==
  ASSUME AlertInv, NEW r \in Reqs, CountRollingUpgradeAlerts(r)
  PROVE  AlertInv'
<1> DEFINE n == Cardinality({f \in Stored : scene.alerts[f].rolling})
           q == [req[r] EXCEPT !.pc = "range", !.todo = Stored, !.count = n]
<1>1. Stored \subseteq Fps
  BY DEF Stored
<1>2. n \in Nat
  <2>1. IsFiniteSet({f \in Stored : scene.alerts[f].rolling})
    BY <1>1, SceneFacts, FS_Subset
  <2> QED BY <2>1, FS_CardinalityType
<1> HIDE DEF n
<1>3. q \in Request(Fps) /\ q.pc = "range"
  BY <1>1, <1>2, AlertTypes DEF Request, Pcs
<1>4. req' = [req EXCEPT ![r] = q]
  BY AlertTypes DEF CountRollingUpgradeAlerts, n, Request
<1> HIDE DEF q
<1>5. q.pc \notin Examining /\ Works(q)
  BY <1>3 DEF Works, Examining, Commands
<1> QED BY <1>3, <1>4, <1>5, AlertTypes, OutsideMoves DEF CountRollingUpgradeAlerts, envVars

\* The loop of the dispatcher takes the next alert or ends.
LEMMA RangeInv ==
  ASSUME AlertInv, NEW r \in Reqs, RangeNext(r) \/ RangeEnd(r)
  PROVE  AlertInv'
<1>1. CASE RangeEnd(r)
  BY <1>1, IdleRequest, AlertTypes, OutsideMoves DEF RangeEnd, Free, envVars
<1>2. CASE RangeNext(r)
  <2>1. PICK f \in Stored \ req[r].seen :
          req' = [req EXCEPT ![r].pc = "lock", ![r].fp = f, ![r].seen = @ \cup {f}]
    BY <1>2 DEF RangeNext
  <2> DEFINE q == [req[r] EXCEPT !.pc = "lock", !.fp = f, !.seen = @ \cup {f}]
  <2>2. f \in Fps
    BY <2>1 DEF Stored
  <2>3. q \in Request(Fps) /\ q.pc = "lock" /\ q.fp = f
    BY <2>2, AlertTypes DEF Request, Pcs
  <2>4. req' = [req EXCEPT ![r] = q]
    BY <2>1, AlertTypes DEF Request
  <2> HIDE DEF q
  <2>5. q.pc \notin Examining /\ Works(q)
    BY <2>2, <2>3 DEF Works, Examining, Commands
  <2> QED BY <1>2, <2>3, <2>4, <2>5, AlertTypes, OutsideMoves DEF RangeNext, envVars
<1> QED BY <1>1, <1>2

-----------------------------------------------------------------------------
(* HandleAlert. *)

\* The request gives the mutex back; the alert is processed or stays as it is.
LEMMA UnlockInv ==
  ASSUME AlertInv, NEW r \in Reqs, Unlock(r), lock \in {r, NoReq}, acted' = acted,
         store' = store \/ store' = [store EXCEPT ![req[r].fp] = "processed"],
         UNCHANGED <<scene, unbound, left, cache, prom>>,
         cr' \in ClusterRec, cr'.brokers = cr.brokers
  PROVE  AlertInv'
<1> DEFINE q == [req[r] EXCEPT !.pc = "range", !.fp = "", !.id = 0]
<1>1. q \in Request(Fps) /\ q.pc = "range"
  <2>1. req[r] \in Request(Fps) /\ "" \in Fps \cup {""} /\ 0 \in Nat /\ "range" \in Pcs
    BY AlertTypes DEF Pcs
  <2> QED BY <2>1 DEF Request
<1>2. req' = [req EXCEPT ![r] = q] /\ lock' = NoReq
  BY AlertTypes DEF Unlock, Request
<1> HIDE DEF q
<1>3. Works(q) /\ q.pc \notin Examining
  BY <1>1 DEF Works, Examining, Commands
<1>4. \A s \in Reqs : req'[s] = IF s = r THEN q ELSE req[s]
  BY <1>2, AlertTypes
<1>5. \A s \in Reqs : req'[s].pc \notin Examining
  BY <1>3, <1>4, ReqsAssumption, AlertTypes DEF Exclusive
<1>6. Exclusive'
  BY <1>5 DEF Exclusive, Examining, Commands
<1>7. /\ store' \in [Fps -> {"absent", "new", "processed"}]
      /\ \A f \in Fps : store'[f] = store[f] \/ store'[f] = "processed"
  BY AlertTypes
<1>8. NotYetActed'
  BY <1>7, AlertTypes DEF NotYetActed, Fps
<1>9. Current(cr', cache, q)
  BY <1>3 DEF Current, Examining, Accepted
<1> QED BY <1>1, <1>2, <1>3, <1>6, <1>7, <1>8, <1>9, AlertTypes, RequestMoves

\* The request goes on with the same alert.
LEMMA HolderMoves ==
  ASSUME AlertInv, NEW r \in Reqs, NEW q \in Request(Fps), req[r].pc \in Examining,
         q.pc \in Examining, q.fp = req[r].fp, q.pc \in Commands => q.pc = Alert(r).command,
         req' = [req EXCEPT ![r] = q], cr' \in ClusterRec, cr'.brokers = cr.brokers,
         UNCHANGED <<scene, store, lock, unbound, left, cache, prom, acted>>,
         Untouched => Current(cr', cache, q)
  PROVE  AlertInv'
<1>1. \A s \in Reqs : req'[s] = IF s = r THEN q ELSE req[s]
  BY AlertTypes
<1>2. Works(q)
  <2>1. req[r].fp \in Fps
    BY AlertTypes DEF AllWork, Works
  <2>2. Examining \cap {"add", "gc"} = {}
    BY DEF Examining, Commands
  <2> QED BY <2>1, <2>2 DEF Works, Alert
<1>3. Exclusive'
  <2>1. ASSUME NEW s \in Reqs, req'[s].pc \in Examining
        PROVE  lock = s /\ store[req'[s].fp] = "new"
    BY <1>1, <2>1, AlertTypes DEF Exclusive
  <2> QED BY <2>1 DEF Exclusive, Examining, Commands
<1>4. NotYetActed'
  BY AlertTypes DEF NotYetActed, Fps
<1> QED BY <1>2, <1>3, <1>4, AlertTypes, RequestMoves

\* HandleAlert takes the mutex for an alert that is new: nobody else examines one.
LEMMA HandleAlertInv ==
  ASSUME AlertInv, NEW r \in Reqs, HandleAlert(r)
  PROVE  AlertInv'
<1>1. CASE Unlock(r) /\ UNCHANGED <<store, cr, cache, acted, envVars>>
  BY <1>1, AlertTypes, UnlockInv DEF HandleAlert, envVars
<1>2. CASE store[req[r].fp] = "new" /\ lock' = r /\ Goto(r, "status")
  <2> DEFINE q == [req[r] EXCEPT !.pc = "status"]
  <2>1. q \in Request(Fps) /\ q.pc = "status" /\ q.fp = req[r].fp
    BY AlertTypes DEF Request, Pcs
  <2>2. req' = [req EXCEPT ![r] = q]
    BY <1>2, AlertTypes DEF Goto
  <2> HIDE DEF q
  <2>3. req[r].fp \in Fps
    BY AlertTypes DEF HandleAlert, At, AllWork, Works
  <2>4. Works(q)
    BY <2>1, <2>3 DEF Works, Commands
  <2>5. \A s \in Reqs : req'[s] = IF s = r THEN q ELSE req[s]
    BY <2>2, AlertTypes
  <2>6. Exclusive'
    <3>1. ASSUME NEW s \in Reqs, req'[s].pc \in Examining
          PROVE  lock' = s /\ store'[req'[s].fp] = "new"
      BY <1>2, <2>1, <2>5, <3>1, FreeLock DEF HandleAlert
    <3> QED BY <3>1 DEF Exclusive, Examining, Commands
  <2>7. NotYetActed'
    BY AlertTypes DEF NotYetActed, Fps, HandleAlert, envVars
  <2>8. Current(cr', cache, q)
    BY <2>1 DEF Current, Accepted, Commands
  <2> QED BY <1>2, <2>1, <2>2, <2>4, <2>6, <2>7, <2>8, AlertTypes, RequestMoves
      DEF HandleAlert, envVars
<1> QED BY <1>1, <1>2 DEF HandleAlert

\* The request that holds the mutex.
LEMMA HolderFacts ==
  ASSUME AlertInv, NEW r \in Reqs, req[r].pc \in Examining
  PROVE  /\ lock = r /\ req[r].fp \in Fps /\ store[req[r].fp] = "new"
         /\ Alert(r).command \in Commands /\ Alert(r).broker \in Nat
         /\ req[r].pc \in Commands => req[r].pc = Alert(r).command
<1>1. lock = r /\ store[req[r].fp] = "new" /\ Works(req[r])
  BY AlertTypes DEF Exclusive, AllWork
<1>2. req[r].fp \in Fps
  BY <1>1 DEF Works
<1> QED BY <1>1, <1>2, SceneFacts DEF Alert, Works

\* examineAlert: obj is the cluster whose status was accepted.
LEMMA ExaminedInv ==
  ASSUME AlertInv, NEW r \in Reqs, req[r].pc \in {"status", "status2"},
         NEW obj \in ClusterRec, obj.brokers = cr.brokers, obj.brokers = cache.brokers,
         Examined(r, obj), cr' \in ClusterRec, cr'.brokers = cr.brokers,
         UNCHANGED <<scene, unbound, left, cache, prom, acted>>
  PROVE  AlertInv'
<1>1. req[r].pc \in Examining
  BY DEF Examining
<1>2. CASE Fail(r)
  BY <1>1, <1>2, HolderFacts, UnlockInv DEF Fail
<1>3. CASE /\ ~Refused(r, obj) /\ Goto(r, Alert(r).command)
           /\ UNCHANGED <<store, lock>>
  <2> DEFINE q == [req[r] EXCEPT !.pc = Alert(r).command]
  <2>1. Alert(r).command \in Commands
    BY <1>1, HolderFacts
  <2>2. q \in Request(Fps) /\ q.pc = Alert(r).command /\ q.fp = req[r].fp
    BY <2>1, AlertTypes DEF Request, Pcs
  <2>3. req' = [req EXCEPT ![r] = q]
    BY <1>3, AlertTypes DEF Goto
  <2> HIDE DEF q
  <2>4. q.pc \in Examining /\ q.pc # "put"
    BY <2>1, <2>2 DEF Examining, Commands
  <2>5. Current(cr', cache, q)
    BY <1>3, <2>2, <2>4 DEF Current, Refused, AtUpLimit, AtDownLimit, Alert
  <2> QED BY <1>1, <1>3, <2>2, <2>3, <2>4, <2>5, HolderMoves
<1> QED BY <1>2, <1>3 DEF Examined

\* The status is written: accepted, only if the cache has the latest object.
LEMMA ErrorCountInv ==
  ASSUME AlertInv, NEW r \in Reqs, UpdateErrorCount(r) \/ RetryErrorCount(r)
  PROVE  AlertInv'
<1>1. CASE RetryErrorCount(r)
  <2>1. /\ req[r].pc = "status2" /\ req[r].pc \in Examining
        /\ UNCHANGED <<scene, unbound, left, cr, cache, prom, acted>>
    BY <1>1 DEF RetryErrorCount, At, envVars, Examining
  <2>2. CASE cache = cr /\ Examined(r, cache)
    BY <2>1, <2>2, AlertTypes, ExaminedInv
  <2>3. CASE Fail(r)
    BY <2>1, <2>3, AlertTypes, HolderFacts, UnlockInv DEF Fail
  <2> QED BY <1>1, <2>2, <2>3 DEF RetryErrorCount
<1>2. CASE UpdateErrorCount(r)
  <2> DEFINE obj == [cache EXCEPT !.errors = req[r].count]
  <2>1. /\ req[r].pc = "status" /\ req[r].pc \in Examining
        /\ UNCHANGED <<scene, unbound, left, cache, prom, acted>>
    BY <1>2 DEF UpdateErrorCount, At, envVars, Examining
  <2>2. req[r].count \in Nat
    BY AlertTypes DEF Request
  <2>3. obj \in ClusterRec /\ obj.brokers = cache.brokers
    BY <2>2, AlertTypes DEF ClusterRec
  <2>4. \/ cache = cr /\ cr' = obj /\ Examined(r, obj)
        \/ cache # cr /\ Goto(r, "status2") /\ UNCHANGED <<cr, store, lock>>
    BY <1>2 DEF UpdateErrorCount
  <2> HIDE DEF obj
  <2>5. CASE cache = cr /\ cr' = obj /\ Examined(r, obj)
    BY <2>1, <2>3, <2>5, ExaminedInv
  <2>6. CASE Goto(r, "status2") /\ UNCHANGED <<cr, store, lock>>
    <3> DEFINE q == [req[r] EXCEPT !.pc = "status2"]
    <3>1. q \in Request(Fps) /\ q.pc = "status2" /\ q.fp = req[r].fp
      BY AlertTypes DEF Request, Pcs
    <3>2. req' = [req EXCEPT ![r] = q]
      BY <2>6, AlertTypes DEF Goto
    <3> HIDE DEF q
    <3>3. q.pc \in Examining /\ q.pc \notin Commands /\ q.pc \notin Accepted
      BY <3>1 DEF Examining, Commands, Accepted
    <3>4. Current(cr', cache, q)
      BY <3>3 DEF Current
    <3> QED BY <2>1, <2>6, <3>1, <3>2, <3>3, <3>4, AlertTypes, HolderMoves
  <2> QED BY <2>4, <2>5, <2>6
<1> QED BY <1>1, <1>2

\* A command is skipped or its claim is missing: the cluster stays as it is.
LEMMA SkipInv ==
  ASSUME AlertInv, NEW r \in Reqs,
         \/ \E c \in {"upScale", "downScale", "addPvc"} : SkipForTask(r, c)
         \/ SkipForClaim(r) \/ ClaimMissing(r)
  PROVE  AlertInv'
<1>1. req[r].pc \in Examining
  BY DEF SkipForTask, SkipForClaim, ClaimMissing, At, Examining, Commands
<1>2. Processed(r) \/ Fail(r)
  BY DEF SkipForTask, SkipForClaim, ClaimMissing
<1>3. UNCHANGED <<cr, cache, acted, scene, unbound, prom, left>>
  BY DEF SkipForTask, SkipForClaim, ClaimMissing, envVars
<1> QED BY <1>1, <1>2, <1>3, AlertTypes, HolderFacts, UnlockInv DEF Processed, Fail

\* The command has found the broker it is about.
LEMMA ChosenInv ==
  ASSUME AlertInv, NEW r \in Reqs, req[r].pc \in Commands, NEW id \in Nat,
         req' = [req EXCEPT ![r].pc = "put", ![r].id = id],
         UNCHANGED <<scene, store, lock, unbound, left, cr, cache, prom, acted>>,
         req[r].pc = "upScale" => \A i \in Ids(cache) : i < id
  PROVE  AlertInv'
<1> DEFINE q == [req[r] EXCEPT !.pc = "put", !.id = id]
<1>1. q \in Request(Fps) /\ q.pc = "put" /\ q.fp = req[r].fp /\ q.id = id
  BY AlertTypes DEF Request, Pcs
<1>2. req' = [req EXCEPT ![r] = q]
  BY AlertTypes DEF Request
<1> HIDE DEF q
<1>3. req[r].pc \in Examining /\ req[r].pc \in Accepted /\ "put" \in Examining
      /\ "put" \notin Commands
  BY DEF Examining, Accepted, Commands
<1>4. ASSUME Untouched PROVE Current(cr', cache, q)
  <2>1. Current(cr, cache, req[r])
    BY <1>4 DEF AlertInv, EditsOnCurrent
  <2>2. Alert(r).command = req[r].pc
    BY <1>3, HolderFacts
  <2>3. Ids(cache) = Ids(cr)
    BY <1>3, <2>1 DEF Current, Ids
  <2> QED BY <1>1, <1>3, <2>1, <2>2, <2>3 DEF Current, Alert
<1> QED BY <1>1, <1>2, <1>3, <1>4, AlertTypes, HolderMoves

\* A command chooses its broker: upScale a fresh ID, since the cache has every edit.
LEMMA CommandInv ==
  ASSUME AlertInv, NEW r \in Reqs, UpScale(r) \/ DownScale(r) \/ AddPvc(r) \/ ResizePvc(r)
  PROVE  AlertInv'
<1>1. req[r].pc \in Commands /\ req[r].pc \in Examining
  BY DEF UpScale, DownScale, AddPvc, ResizePvc, At, Commands, Examining
<1>2. UNCHANGED <<scene, unbound, left, cr, cache, prom, acted>>
  BY DEF UpScale, DownScale, AddPvc, ResizePvc, envVars
<1>3. CASE UpScale(r)
  <2>1. MaxId(cache) + 1 \in Nat /\ \A i \in Ids(cache) : i < MaxId(cache) + 1
    <3>1. MaxId(cache) \in Nat /\ \A i \in Ids(cache) : i <= MaxId(cache)
      BY AlertTypes, MaxIdProperties
    <3>2. Ids(cache) \subseteq Nat
      BY AlertTypes, ListFields DEF Ids, ClusterRec
    <3> QED BY <3>1, <3>2
  <2>2. PICK id \in Nat : id = MaxId(cache) + 1
    BY <2>1
  <2> QED BY <1>1, <1>2, <1>3, <2>1, <2>2, ChosenInv DEF UpScale
<1>4. CASE DownScale(r)
  <2>1. CASE Fail(r)
    BY <1>1, <1>2, <2>1, AlertTypes, HolderFacts, UnlockInv DEF Fail
  <2>2. CASE \E b \in IF Alert(r).broker # 0 THEN {Alert(r).broker}
                      ELSE Ids(cr) \cup Range(scene.brokers) :
               req' = [req EXCEPT ![r].pc = "put", ![r].id = b] /\ UNCHANGED <<store, lock>>
    <3>1. PICK b : /\ b \in IF Alert(r).broker # 0 THEN {Alert(r).broker}
                           ELSE Ids(cr) \cup Range(scene.brokers)
                   /\ req' = [req EXCEPT ![r].pc = "put", ![r].id = b]
                   /\ UNCHANGED <<store, lock>>
      BY <2>2
    <3>2. Ids(cr) \subseteq Nat
      BY AlertTypes, ListFields DEF Ids, ClusterRec
    <3>3. Range(scene.brokers) \subseteq Nat
      BY SceneFacts DEF Range
    <3>4. b \in Nat
      BY <1>1, <3>1, <3>2, <3>3, HolderFacts
    <3>5. req[r].pc # "upScale"
      BY <1>4 DEF DownScale, At
    <3> QED BY <1>1, <1>2, <3>1, <3>4, <3>5, ChosenInv
  <2> QED BY <1>4, <2>1, <2>2 DEF DownScale
<1>5. CASE AddPvc(r) \/ ResizePvc(r)
  BY <1>1, <1>2, <1>5, HolderFacts, ChosenInv DEF AddPvc, ResizePvc, At
<1> QED BY <1>3, <1>4, <1>5

\* AddNewBrokerToCr, RemoveBrokerFromCr, AddPvToSpecificBroker and resizePvc: the limits
\* and the IDs that the request looked at earlier are still those of the cluster.
LEMMA UpdateCrInv ==
  ASSUME AlertInv, NEW r \in Reqs, UpdateCr(r)
  PROVE  AlertInv'
<1>1. /\ req[r].pc = "put" /\ req[r].pc \in Examining /\ req[r].pc \in Accepted
      /\ UNCHANGED <<scene, unbound, left, cache, prom>>
  BY DEF UpdateCr, At, envVars, Examining, Accepted
<1>2. CASE Fail(r) /\ UNCHANGED <<cr, acted>>
  BY <1>1, <1>2, AlertTypes, HolderFacts, UnlockInv DEF Fail
<1>3. CASE /\ cache = cr
           /\ cr' = [cache EXCEPT !.brokers = Edited(Alert(r).command, @, req[r].id)]
           /\ acted' = [acted EXCEPT ![req[r].fp] = @ + 1]
           /\ Processed(r)
  <2> DEFINE bs == cr.brokers
             command == Alert(r).command
             new == Edited(command, bs, req[r].id)
             q == [req[r] EXCEPT !.pc = "range", !.fp = "", !.id = 0]
  <2>1. bs \in Seq(BrokerRec) /\ command \in Commands /\ req[r].id \in Nat
    BY <1>1, AlertTypes, HolderFacts DEF ClusterRec, Request
  <2>2. /\ new \in Seq(BrokerRec)
        /\ command = "upScale" => Len(new) = Len(bs) + 1
        /\ command \in {"addPvc", "resizePvc"} => Len(new) = Len(bs)
        /\ command = "downScale" =>
             Len(new) <= Len(bs) /\ (DistinctIds(bs) => Len(new) >= Len(bs) - 1)
        /\ /\ DistinctIds(bs)
           /\ command = "upScale" => \A k \in DOMAIN bs : bs[k].id < req[r].id
           => DistinctIds(new)
    BY <2>1, EditedProperties
  <2>3. cr' = [cr EXCEPT !.brokers = new]
    BY <1>3, AlertTypes DEF ClusterRec
  <2> HIDE DEF new
  <2>4. cr' \in ClusterRec /\ cr'.brokers = new
    BY <2>2, <2>3, AlertTypes DEF ClusterRec
  <2>5. q \in Request(Fps) /\ q.pc = "range"
    <3>1. req[r] \in Request(Fps) /\ "" \in Fps \cup {""} /\ 0 \in Nat /\ "range" \in Pcs
      BY AlertTypes DEF Pcs
    <3> QED BY <3>1 DEF Request
  <2>6. req' = [req EXCEPT ![r] = q] /\ lock' = NoReq
    BY <1>3, AlertTypes DEF Processed, Unlock, Request
  <2> HIDE DEF q
  <2>7. Works(q) /\ q.pc \notin Examining
    BY <2>5 DEF Works, Examining, Commands
  <2>8. \A s \in Reqs : req'[s] = IF s = r THEN q ELSE req[s]
    BY <2>6, AlertTypes
  <2>9. \A s \in Reqs : req'[s].pc \notin Examining /\ Works(req'[s])
    BY <1>1, <2>7, <2>8, ReqsAssumption, AlertTypes, HolderFacts DEF Exclusive, AllWork
  <2>10. Exclusive'
    BY <2>9 DEF Exclusive, Examining, Commands
  <2>11. req' \in [Reqs -> Request(Fps)]
    BY <2>5, <2>6, AlertTypes
  <2>12. PICK f \in Fps : f = req[r].fp /\ store[f] = "new" /\ acted[f] = 0
    BY <1>1, HolderFacts, AlertTypes DEF NotYetActed
  <2>13. store' = [store EXCEPT ![f] = "processed"] /\ acted' = [acted EXCEPT ![f] = 1]
    BY <1>3, <2>12, AlertTypes DEF Processed
  <2>14. /\ store' \in [Fps -> {"absent", "new", "processed"}] /\ acted' \in [Fps -> Nat]
         /\ \A g \in Fps : acted'[g] <= 1 /\ (store'[g] # "processed" => acted'[g] = 0)
    <3>1. \A g \in Fps : /\ store'[g] = IF g = f THEN "processed" ELSE store[g]
                         /\ acted'[g] = IF g = f THEN 1 ELSE acted[g]
      BY <2>13, AlertTypes
    <3>2. store' \in [Fps -> {"absent", "new", "processed"}] /\ acted' \in [Fps -> Nat]
      BY <2>13, AlertTypes
    <3> QED BY <3>1, <3>2, AlertTypes DEF NotYetActed
  <2>15. NotYetActed'
    BY <1>1, <2>14 DEF NotYetActed, Fps
  <2>16. \A s \in Reqs : Current(cr', cache', req'[s])
    BY <2>9 DEF Current, Examining, Accepted
  <2>17. \A e \in Events : left'[e] <= left[e]
    BY <1>1, AlertTypes
  <2>18. ASSUME Untouched' PROVE DistinctIds(cr'.brokers) /\ Within(cr'.brokers)
    <3>1. Untouched /\ DistinctIds(bs) /\ Within(bs)
      BY <1>1, <2>17, <2>18, AlertTypes, UntouchedBefore
    <3>2. Current(cr, cache, req[r])
      BY <3>1 DEF AlertInv, EditsOnCurrent
    <3>3. /\ command = "upScale" => ~AtUpLimit(cr) /\ \A i \in Ids(cr) : i < req[r].id
          /\ command = "downScale" => ~AtDownLimit(cr)
      BY <1>1, <3>2 DEF Current, Alert
    <3>4. DistinctIds(new)
      BY <2>2, <3>1, <3>3 DEF Ids
    <3>5. /\ command = "upScale" => ~(scene.up > 0 /\ Len(bs) >= scene.up)
          /\ command = "downScale" => ~(Len(bs) <= scene.down)
      BY <3>3 DEF AtUpLimit, AtDownLimit
    <3>6. /\ Len(bs) \in Nat /\ Len(new) \in Nat /\ Len(scene.brokers) \in Nat
          /\ scene.up \in Nat /\ scene.down \in Nat
      BY <2>1, <2>2, SceneFacts, LenProperties
    <3>7. \/ Len(new) = Len(bs)
          \/ Len(new) = Len(bs) + 1 /\ ~(scene.up > 0 /\ Len(bs) >= scene.up)
          \/ Len(new) <= Len(bs) /\ Len(new) >= Len(bs) - 1 /\ ~(Len(bs) <= scene.down)
      BY <2>1, <2>2, <3>1, <3>5 DEF Commands
    <3>8. Within(new)
      BY <3>1, <3>6, <3>7 DEF Within
    <3> QED BY <2>4, <3>4, <3>8
  <2> QED BY <1>1, <2>4, <2>6, <2>9, <2>10, <2>11, <2>14, <2>15, <2>16, <2>17, <2>18,
             AlertTypes, Keeps
<1> QED BY <1>2, <1>3 DEF UpdateCr

-----------------------------------------------------------------------------
(* The rest of the world. *)

\* An event uses up some of the budget.
LEMMA SpendType ==
  ASSUME AlertInv, NEW e \in Events, Spend(e)
  PROVE  /\ left' \in [Events -> Nat] /\ left'[e] < left[e]
         /\ \A d \in Events : left'[d] <= left[d]
<1>1. left \in [Events -> Nat] /\ left[e] > 0 /\ left' = [left EXCEPT ![e] = @ - 1]
  BY AlertTypes DEF Spend
<1>2. \A d \in Events : left'[d] = IF d = e THEN left[d] - 1 ELSE left[d]
  BY <1>1
<1> QED BY <1>1, <1>2

\* The requests, the store and the mutex are as they were.
LEMMA Unserved ==
  ASSUME AlertInv, UNCHANGED <<scene, store, req, lock, acted>>
  PROVE  /\ \A r \in Reqs : Works(req'[r])
         /\ Exclusive' /\ NotYetActed'
<1>1. \A r \in Reqs : Works(req[r])
  BY AlertTypes DEF AllWork
<1>2. Exclusive'
  BY AlertTypes DEF Exclusive, Examining, Commands
<1>3. NotYetActed'
  BY AlertTypes DEF NotYetActed, Fps
<1> QED BY <1>1, <1>2, <1>3

\* The cache catches up, tasks and passes start and end, claims are bound, alerts change.
LEMMA WorldInv ==
  ASSUME AlertInv,
         \/ Sync \/ TaskChanges \/ StateChanges \/ ClaimChanges
         \/ \E f \in Fps : Resolve(f) \/ Refire(f)
  PROVE  AlertInv'
<1>1. /\ UNCHANGED <<scene, store, req, lock, acted>>
      /\ cr' = cr \/ cache' = cache
  BY DEF Sync, TaskChanges, StateChanges, ClaimChanges, Resolve, Refire, envVars
<1>2. left' \in [Events -> Nat] /\ \A e \in Events : left'[e] <= left[e]
  <2>1. left' = left \/ \E e \in Events : Spend(e)
    BY DEF Sync, TaskChanges, StateChanges, ClaimChanges, Resolve, Refire, envVars, Events
  <2>2. CASE left' = left
    BY <2>2, AlertTypes
  <2> QED BY <2>1, <2>2, SpendType
<1>3. unbound' \in BOOLEAN /\ prom' \in [Fps -> PromStates]
  BY AlertTypes
  DEF Sync, TaskChanges, StateChanges, ClaimChanges, Resolve, Refire, envVars, PromStates
<1>4. cr' \in ClusterRec /\ cr'.brokers = cr.brokers
  <2>1. \/ cr' = cr
        \/ cr' = [cr EXCEPT !.busy = ~cr.busy] \/ cr' = [cr EXCEPT !.running = ~cr.running]
    BY DEF Sync, TaskChanges, StateChanges, ClaimChanges, Resolve, Refire
  <2>2. cr.busy \in BOOLEAN /\ cr.running \in BOOLEAN
        /\ (~cr.busy) \in BOOLEAN /\ (~cr.running) \in BOOLEAN
    BY AlertTypes DEF ClusterRec
  <2>3. PICK x \in BOOLEAN, y \in BOOLEAN :
          cr' = cr \/ cr' = [cr EXCEPT !.busy = x] \/ cr' = [cr EXCEPT !.running = y]
    BY <2>1, <2>2
  <2> QED BY <2>3, AlertTypes DEF ClusterRec
<1>5. cache' \in ClusterRec /\ (cache' = cache \/ cache'.brokers = cr.brokers)
  BY AlertTypes DEF Sync, TaskChanges, StateChanges, ClaimChanges, Resolve, Refire
<1>6. ASSUME NEW r \in Reqs, Untouched PROVE Current(cr', cache', req'[r])
  <2>1. Current(cr, cache, req[r])
    BY <1>6 DEF AlertInv, EditsOnCurrent
  <2>2. cache.brokers = cr.brokers => cache'.brokers = cr.brokers
    BY <1>5
  <2> QED BY <1>1, <1>4, <2>1, <2>2, SameBrokers
<1> QED BY <1>1, <1>2, <1>3, <1>4, <1>5, <1>6, AlertTypes, Unserved, Quiet

\* After an edit of a user nothing is said about the limits and the IDs.
LEMMA UserInv ==
  ASSUME AlertInv, UserAdds \/ \E i \in Ids(cr) : UserRemoves(i)
  PROVE  AlertInv'
<1>1. UNCHANGED <<scene, store, req, lock, cache, unbound, prom, acted>>
  BY DEF UserAdds, UserRemoves
<1>2. /\ left' \in [Events -> Nat] /\ \A e \in Events : left'[e] <= left[e]
      /\ left'["edit"] < left["edit"] \/ left'["add"] < left["add"]
  BY SpendType DEF UserAdds, UserRemoves, Events
<1>3. ~Untouched'
  <2>1. \A e \in {"edit", "add"} : left'[e] \in Nat /\ left[e] \in Nat
    BY <1>2, AlertTypes DEF Events
  <2> QED BY <1>1, <1>2, <2>1, UntouchedBefore
<1>4. cr' \in ClusterRec
  <2>1. cr.brokers \in Seq(BrokerRec)
    BY AlertTypes DEF ClusterRec
  <2>2. CASE UserAdds
    <3>1. MaxId(cr) \in Nat
      BY AlertTypes, MaxIdProperties
    <3>2. PICK id \in Nat : id = MaxId(cr) + 1
      BY <3>1
    <3>3. Append(cr.brokers, Broker(id)) \in Seq(BrokerRec)
      BY <2>1, BrokerType, AppendIds
    <3>4. PICK bs \in Seq(BrokerRec) : cr' = [cr EXCEPT !.brokers = bs]
      BY <2>2, <3>2, <3>3 DEF UserAdds
    <3> QED BY <3>4, AlertTypes DEF ClusterRec
  <2>3. CASE \E i \in Ids(cr) : UserRemoves(i)
    <3>1. PICK i \in Ids(cr) : UserRemoves(i)
      BY <2>3
    <3>2. Without(cr.brokers, i) \in Seq(BrokerRec)
      BY <2>1, WithoutProperties
    <3>3. PICK bs \in Seq(BrokerRec) : cr' = [cr EXCEPT !.brokers = bs]
      BY <3>1, <3>2 DEF UserRemoves
    <3> QED BY <3>3, AlertTypes DEF ClusterRec
  <2> QED BY <2>2, <2>3
<1> QED BY <1>1, <1>2, <1>3, <1>4, AlertTypes, Unserved, Keeps

\* The process ends: the store is empty, and no alert in it has edited anything.
LEMMA CrashInv ==
  ASSUME AlertInv, Crash
  PROVE  AlertInv'
<1>1. /\ store' = [f \in Fps |-> "absent"] /\ acted' = [f \in Fps |-> 0]
      /\ req' = [r \in Reqs |-> Idle] /\ lock' = NoReq /\ cache' = cr
      /\ UNCHANGED <<scene, cr, unbound, prom>>
  BY DEF Crash
<1>2. left' \in [Events -> Nat] /\ \A e \in Events : left'[e] <= left[e]
  BY SpendType DEF Crash, Events
<1>3. \A r \in Reqs : /\ req'[r].pc \notin Examining /\ Works(req'[r])
                      /\ Current(cr', cache', req'[r])
  BY <1>1, IdleRequest
<1>4. Exclusive'
  BY <1>3 DEF Exclusive, Examining, Commands
<1>5. NotYetActed'
  BY <1>1 DEF NotYetActed, Fps
<1>6. req' \in [Reqs -> Request(Fps)]
  BY <1>1, IdleRequest
<1> QED BY <1>1, <1>2, <1>3, <1>4, <1>5, <1>6, AlertTypes, Quiet

-----------------------------------------------------------------------------
(* The theorems. *)

\* Every action of Next keeps the invariant.
LEMMA AlertNext == AlertInv /\ [Next]_vars => AlertInv'
<1> SUFFICES ASSUME AlertInv, [Next]_vars PROVE AlertInv'
  OBVIOUS
<1>1. CASE \E r \in Reqs : Serve(r)
  <2>1. PICK r \in Reqs : Serve(r)
    BY <1>1
  <2>2. CASE AddAlert(r) \/ AlertGC(r) \/ CountRollingUpgradeAlerts(r)
    BY <2>2, AddAlertInv, AlertGCInv, CountInv
  <2>3. CASE RangeNext(r) \/ RangeEnd(r)
    BY <2>3, RangeInv
  <2>4. CASE HandleAlert(r) \/ UpdateErrorCount(r) \/ RetryErrorCount(r)
    BY <2>4, HandleAlertInv, ErrorCountInv
  <2>5. CASE \/ \E c \in {"upScale", "downScale", "addPvc"} : SkipForTask(r, c)
             \/ SkipForClaim(r) \/ ClaimMissing(r)
    BY <2>5, SkipInv
  <2>6. CASE UpScale(r) \/ DownScale(r) \/ AddPvc(r) \/ ResizePvc(r)
    BY <2>6, CommandInv
  <2>7. CASE UpdateCr(r)
    BY <2>7, UpdateCrInv
  <2> QED BY <2>1, <2>2, <2>3, <2>4, <2>5, <2>6, <2>7 DEF Serve
<1>2. CASE \E r \in Reqs : \E fs \in SUBSET Posted : Receive(r, fs)
  BY <1>2, ReceiveInv
<1>3. CASE Environment
  <2>1. CASE \/ Sync \/ TaskChanges \/ StateChanges \/ ClaimChanges
             \/ \E f \in Fps : Resolve(f) \/ Refire(f)
    BY <2>1, WorldInv
  <2>2. CASE UserAdds \/ \E i \in Ids(cr) : UserRemoves(i)
    BY <2>2, UserInv
  <2>3. CASE Crash
    BY <2>3, CrashInv
  <2> QED BY <1>3, <2>1, <2>2, <2>3 DEF Environment
<1>4. CASE UNCHANGED vars
  <2>1. /\ UNCHANGED <<scene, store, req, lock, acted>>
        /\ UNCHANGED <<cr, cache, unbound, prom, left>>
    BY <1>4 DEF vars
  <2>2. \A e \in Events : left'[e] <= left[e]
    BY <2>1, AlertTypes
  <2>3. \A r \in Reqs : Untouched => Current(cr', cache', req'[r])
    BY <2>1 DEF AlertInv, EditsOnCurrent
  <2> QED BY <2>1, <2>2, <2>3, AlertTypes, Unserved, Quiet
<1> QED BY <1>1, <1>2, <1>3, <1>4 DEF Next

\* The alert manager starts with an empty store and the cluster of the scene.
LEMMA AlertInit == Init => AlertInv
<1> SUFFICES ASSUME Init PROVE AlertInv
  OBVIOUS
<1>1. scene \in Scenes /\ Scene(scene)
  BY ScenesAssumption DEF Init
<1>2. scene.brokers \in Seq(Nat) /\ scene.budget \in [Events -> Nat]
  BY <1>1 DEF Scene
<1> DEFINE bs == [i \in DOMAIN scene.brokers |-> Broker(scene.brokers[i])]
<1>3. /\ DOMAIN bs = 1..Len(scene.brokers) /\ Len(scene.brokers) \in Nat
      /\ \A i \in DOMAIN bs : bs[i] \in BrokerRec /\ bs[i].id = scene.brokers[i]
  <2>1. DOMAIN scene.brokers = 1..Len(scene.brokers) /\ Len(scene.brokers) \in Nat
        /\ \A i \in DOMAIN scene.brokers : scene.brokers[i] \in Nat
    BY <1>2
  <2> QED BY <2>1 DEF Broker, BrokerRec
<1>4. bs \in Seq(BrokerRec) /\ Len(bs) = Len(scene.brokers)
  <2>1. bs \in [1..Len(scene.brokers) -> BrokerRec]
    BY <1>3
  <2> HIDE DEF bs
  <2>2. bs \in Seq(BrokerRec)
    BY <1>3, <2>1, SeqDef
  <2> QED BY <1>3, <2>2, LenProperties
<1>5. ASSUME Untouched PROVE DistinctIds(bs)
  <2>1. \A i, j \in DOMAIN scene.brokers : scene.brokers[i] = scene.brokers[j] => i = j
    BY <1>5 DEF Untouched, IsInjective
  <2>2. DOMAIN bs = DOMAIN scene.brokers
    OBVIOUS
  <2> HIDE DEF bs
  <2> QED BY <1>3, <2>1, <2>2 DEF DistinctIds
<1>6. cr \in ClusterRec /\ cr.brokers = bs /\ cache = cr
  <2>1. cr = [brokers |-> bs, running |-> TRUE, busy |-> FALSE, errors |-> 0] /\ cache = cr
    BY DEF Init
  <2> HIDE DEF bs
  <2> QED BY <1>4, <2>1 DEF ClusterRec
<1> HIDE DEF bs
<1>7. Types
  <2>1. TypeOK
    <3>1. \A c \in {cr, cache} :
            /\ c.brokers \in Seq(BrokerRec)
            /\ c.running \in BOOLEAN /\ c.busy \in BOOLEAN /\ c.errors \in Nat
      BY <1>6 DEF ClusterRec
    <3> QED BY <3>1 DEF Init, TypeOK, BrokerRec
  <2>2. left \in [Events -> Nat] /\ left = scene.budget
    BY <1>2 DEF Init
  <2>3. \A e \in Events : left[e] <= scene.budget[e]
    BY <2>2
  <2>4. req \in [Reqs -> Request(Fps)] /\ unbound \in BOOLEAN
    BY IdleRequest DEF Init
  <2> QED BY <1>6, <2>1, <2>2, <2>3, <2>4 DEF Types
<1>8. \A r \in Reqs : req[r] = Idle
  BY DEF Init
<1>9. AllWork /\ Exclusive /\ EditsOnCurrent
  BY <1>8, IdleRequest DEF AllWork, Exclusive, EditsOnCurrent
<1>10. NotYetActed
  BY DEF Init, NotYetActed
<1>11. IdsDistinct /\ LimitsHold
  <2>1. LimitsHold
    BY <1>3, <1>4, <1>6 DEF LimitsHold
  <2> QED BY <1>5, <1>6, <2>1 DEF IdsDistinct, DistinctIds
<1> QED BY <1>7, <1>9, <1>10, <1>11 DEF AlertInv

\* The inductive invariant of the alert manager holds in every state.
THEOREM AlertInvariant == Spec => []AlertInv
  BY AlertInit, AlertNext, PTL DEF Spec

\* TypeOK for any alerts, any cluster and any number of requests: an alert in the store
\* is new or processed, and the objects that the commands edit keep their shape.
THEOREM AlertTypesHold == Spec => []TypeOK
<1>1. AlertInv => TypeOK
  BY DEF AlertInv, Types
<1> QED BY <1>1, AlertInvariant, PTL

\* ActedOnce for any number of requests that carry the same alerts at once: HandleAlert
\* looks the Processed flag up and sets it under one hold of the mutex, although the loop
\* of the dispatcher ranges over the store without it (store.go, process.go).
THEOREM ActedOnceHolds == Spec => []ActedOnce
<1>1. AlertInv => ActedOnce
  BY DEF AlertInv, NotYetActed, ActedOnce
<1> QED BY <1>1, AlertInvariant, PTL

\* IdsDistinct for any cluster: upScale takes the next
\* ID from a cache that may lag, but it only gets there once a write of that cached
\* object was accepted, and the mutex keeps every other edit of an alert away until then.
THEOREM IdsDistinctHolds == Spec => []IdsDistinct
<1>1. AlertInv => IdsDistinct
  BY DEF AlertInv
<1> QED BY <1>1, AlertInvariant, PTL

\* LimitsHold for any limits: the limit is compared with one read of the cluster and the
\* broker added to, or removed from, another, and both are the latest (process.go:102,
\* 294, 362).
THEOREM LimitsHoldHolds == Spec => []LimitsHold
<1>1. AlertInv => LimitsHold
  BY DEF AlertInv
<1> QED BY <1>1, AlertInvariant, PTL
=============================================================================
