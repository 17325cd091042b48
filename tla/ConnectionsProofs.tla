-------------------------- MODULE ConnectionsProofs --------------------------
(***************************************************************************)
(* Proofs about module Connections, for any statuses CartridgeRequirements *)
(* may publish, any number of password changes and of faults.              *)
(***************************************************************************)
EXTENDS Connections, WellFoundedInduction, TLAPS

----------------------------------------------------------------------------
(* What the two loops over a sequence of endpoints end with. *)

LEMMA Least == \A I \in SUBSET Nat : I # {} => \E x \in I : \A y \in I : x =< y
<1>. SUFFICES ASSUME NEW I \in SUBSET Nat, I # {}
              PROVE  \E x \in I : \A y \in I : x =< y
  OBVIOUS
<1>1. \E x \in I : \A y \in I : ~(<<y, x>> \in OpToRel(<, Nat))
  BY NatLessThanWellFounded, WFMin, Zenon
<1>2. PICK x \in I : \A y \in I : ~(<<y, x>> \in OpToRel(<, Nat))
  BY <1>1
<1>3. \A y \in I : ~(y < x)
  BY <1>2, Zenon DEF OpToRel
<1>4. \A y \in I : x =< y
  BY <1>3
<1>. QED
  BY <1>4

LEMMA MinIn == \A I \in SUBSET Nat : I # {} => Min(I) \in I
BY Least DEF Min

LEMMA MaxIn == \A n \in Nat : \A I \in SUBSET (1..n) : I # {} => Max(I) \in I
<1>. SUFFICES ASSUME NEW n \in Nat, NEW I \in SUBSET (1..n), I # {}
              PROVE  Max(I) \in I
  OBVIOUS
<1>. DEFINE J == {n - i : i \in I}
<1>1. PICK i \in I : TRUE
  OBVIOUS
<1>2. J \in SUBSET Nat
  OBVIOUS
<1>3. n - i \in J
  OBVIOUS
<1>4. \E m \in J : \A y \in J : m =< y
  <2>. HIDE DEF J
  <2>. QED  BY <1>2, <1>3, Least
<1>5. PICK m \in I : \A y \in J : n - m =< y
  BY <1>4
<1>6. \A y \in I : n - m =< n - y
  BY <1>5
<1>7. \A y \in I : m >= y
  BY <1>6
<1>. QED
  BY <1>7 DEF Max

(* An internal endpoint of the status is where the request will go; when   *)
(* it is the only one, all of elasticsearchInfo is about it.               *)
LEMMA InfoOfInternal ==
  ASSUME NEW s \in Statuses, EsInfo(s).uri # None
  PROVE  \E e \in InternalOf(s) :
           /\ EsInfo(s).uri = e.uri
           /\ InternalOf(s) = {e} => EsInfo(s).auth = e.auth /\ EsInfo(s).ca = e.ca
<1>. DEFINE I == {i \in 1..Len(s.es) : IsInternal(s.es[i])}
            A == {i \in 1..Len(s.es) : HasAuth(s.es[i])}
            C == {i \in 1..Len(s.es) : HasCA(s.es[i])}
<1>1. Len(s.es) \in Nat /\ Range(s.es) = {s.es[i] : i \in 1..Len(s.es)}
  BY ConnectionsAssumption DEF Range
<1>2. EsInfo(s).uri = IF I = {} THEN None ELSE Field(s.es[Max(I)], "uri")
  <2>1. I # {} => Max(I) \in I
    BY <1>1, MaxIn
  <2>2. LastWith(s.es, IsInternal) = IF I = {} THEN None ELSE s.es[Max(I)]
    BY <2>1 DEF LastWith, SelectLastInSeq
  <2>3. EsInfo(s).uri = Field(LastWith(s.es, IsInternal), "uri")
    BY DEF EsInfo
  <2>. QED  BY <2>2, <2>3 DEF Field
<1>3. EsInfo(s).auth = IF A = {} THEN None ELSE Field(s.es[Max(A)], "auth")
  <2>1. A # {} => Max(A) \in A
    BY <1>1, MaxIn
  <2>2. LastWith(s.es, HasAuth) = IF A = {} THEN None ELSE s.es[Max(A)]
    BY <2>1 DEF LastWith, SelectLastInSeq
  <2>3. EsInfo(s).auth = Field(LastWith(s.es, HasAuth), "auth")
    BY DEF EsInfo
  <2>. QED  BY <2>2, <2>3 DEF Field
<1>4. EsInfo(s).ca = IF C = {} THEN None ELSE Field(s.es[Max(C)], "ca")
  <2>1. C # {} => Max(C) \in C
    BY <1>1, MaxIn
  <2>2. LastWith(s.es, HasCA) = IF C = {} THEN None ELSE s.es[Max(C)]
    BY <2>1 DEF LastWith, SelectLastInSeq
  <2>3. EsInfo(s).ca = Field(LastWith(s.es, HasCA), "ca")
    BY DEF EsInfo
  <2>. QED  BY <2>2, <2>3 DEF Field
<1>5. (I # {} => Max(I) \in I) /\ (A # {} => Max(A) \in A) /\ (C # {} => Max(C) \in C)
  BY <1>1, MaxIn
<1>. DEFINE e == s.es[Max(I)]
<1>6. I # {} /\ e # None /\ e \in InternalOf(s) /\ EsInfo(s).uri = e.uri
  BY <1>1, <1>2, <1>5 DEF InternalOf, IsInternal, Field
<1>7. ASSUME InternalOf(s) = {e}
      PROVE  EsInfo(s).auth = e.auth /\ EsInfo(s).ca = e.ca
  <2>1. \A i \in I : s.es[i] = e
    BY <1>1, <1>7 DEF InternalOf, IsInternal
  <2>2. A \subseteq I /\ C \subseteq I
    BY DEF HasAuth, HasCA
  <2>3. (A = {} => e.auth = None) /\ (C = {} => e.ca = None)
    BY <1>5, <1>6 DEF HasAuth, HasCA
  <2>4. (A # {} => s.es[Max(A)] = e) /\ (C # {} => s.es[Max(C)] = e)
    BY <1>5, <2>1, <2>2
  <2>. QED  BY <1>3, <1>4, <1>6, <2>3, <2>4 DEF Field
<1>. QED
  BY <1>6, <1>7

LEMMA NamedOf ==
  \A s \in Statuses : \A e \in Range(KafkaEndpoints(s)) : e \in Named(e.name)
<1>. SUFFICES ASSUME NEW s \in Statuses, NEW e \in Range(KafkaEndpoints(s))
              PROVE  e \in Named(e.name)
  OBVIOUS
<1>1. e \in UNION {Range(KafkaEndpoints(t)) : t \in Statuses}
  OBVIOUS
<1>. QED
  BY <1>1 DEF Named

(* The listeners found under a name bear that name.                        *)
LEMMA TLSIsNamed ==
  ASSUME NEW s \in Statuses, TLSEndpoint(s) # None
  PROVE  TLSEndpoint(s) \in Named("internal-service-tls")
<1>. DEFINE K == KafkaEndpoints(s)
            I == {i \in 1..Len(K) : IsTLS(K[i])}
<1>1. Len(K) \in Nat /\ Range(K) = {K[i] : i \in 1..Len(K)}
  BY ConnectionsAssumption DEF Range, KafkaEndpoints
<1>2. I # {} => Min(I) \in I
  <2>1. I \in SUBSET Nat
    BY <1>1
  <2>. HIDE DEF I
  <2>. QED  BY <2>1, MinIn
<1>3. TLSEndpoint(s) = IF I = {} THEN None ELSE K[Min(I)]
  BY <1>2 DEF TLSEndpoint, FirstWith, SelectInSeq
<1>4. I # {} => K[Min(I)] \in Range(K) /\ IsTLS(K[Min(I)])
  BY <1>1, <1>2
<1>. QED
  BY <1>3, <1>4, NamedOf DEF IsTLS

LEMMA PlainIsNamed ==
  ASSUME NEW s \in Statuses, PlainServers(s) # None
  PROVE  \E e \in Named("internal-service-plain") : PlainServers(s) = e.servers
<1>. DEFINE K == KafkaEndpoints(s)
            I == {i \in 1..Len(K) : IsPlain(K[i])}
<1>1. Len(K) \in Nat /\ Range(K) = {K[i] : i \in 1..Len(K)}
  BY ConnectionsAssumption DEF Range, KafkaEndpoints
<1>2. I # {} => Max(I) \in I
  BY <1>1, MaxIn
<1>3. PlainServers(s) = IF I = {} THEN None ELSE Field(K[Max(I)], "servers")
  BY <1>2 DEF PlainServers, LastWith, SelectLastInSeq, Field
<1>4. I # {} => K[Max(I)] \in Range(K) /\ IsPlain(K[Max(I)])
  BY <1>1, <1>2
<1>5. I # {} => K[Max(I)] \in Named("internal-service-plain")
  BY <1>4, NamedOf DEF IsPlain
<1>. QED
  BY <1>3, <1>5 DEF Field

----------------------------------------------------------------------------
(* What a function holds is worth going on with, and the index requests    *)
(* before the call of the pass have been answered with success.            *)
Holds ==
  /\ pc \in EsCalls => EsInfo(read).uri # None
  /\ pc \in MicroCalls => TLSEndpoint(read) # None
  /\ pc = "anomaly" => "raw" \in indices
  /\ pc \in {"source", "status"} \cup MicroCalls => indices = Indices

(* Nothing that reads or writes what the indices hold is set up before     *)
(* both indices are there.                                                 *)
IndicesFirst ==
  source # None \/ services # {} \/ (\E m \in Microservices : env[m] # None)
    => indices = Indices

IInv == TypeOK /\ Holds /\ IndicesFirst

(* The type invariant in two parts: the pass, and what it works on.        *)
PassOK ==
  /\ pc \in {"idle", "source", "status"} \cup EsCalls \cup MicroCalls
  /\ IF pc \in EsCalls \cup MicroCalls THEN read \in Statuses ELSE read = None
  /\ IF pc \in EsCalls \ {"auth"} THEN sent \in 0..Rotations ELSE sent = None
  /\ micro \in Microservices

ObjectsOK ==
  /\ indices \subseteq Indices
  /\ source \in {None, ""} \cup {PlainServers(s) : s \in Statuses}
  /\ env \in [Microservices -> {None} \cup Environments]
  /\ services \subseteq Microservices
  /\ routes \subseteq Microservices

FoundationOK ==
  /\ status \in Statuses
  /\ secrets \subseteq SecretNames
  /\ password \in 0..Rotations
  /\ secretSays \in 0..Rotations

RestOK ==
  /\ running \subseteq Microservices
  /\ answered \in BOOLEAN
  /\ useKnative \in BOOLEAN
  /\ pointers \in BOOLEAN
  /\ faults \in 0..Faults

LEMMA TypeParts == TypeOK <=> PassOK /\ ObjectsOK /\ FoundationOK /\ RestOK
BY DEF TypeOK, PassOK, ObjectsOK, FoundationOK, RestOK

LEMMA TypePartsNext == TypeOK' <=> PassOK' /\ ObjectsOK' /\ FoundationOK' /\ RestOK'
BY DEF TypeOK, PassOK, ObjectsOK, FoundationOK, RestOK

LEMMA Initially == Init => IInv
<1>. SUFFICES ASSUME Init PROVE IInv
  OBVIOUS
<1>1. 0 \in 0..Rotations /\ 0 \in 0..Faults
  BY ConnectionsAssumption
<1>2. env \in [Microservices -> {None} \cup Environments]
  BY DEF Init
<1>3. useKnative \in BOOLEAN /\ pointers \in BOOLEAN /\ answered \in BOOLEAN
  BY Zenon DEF Init
<1>4. TypeOK
  BY <1>1, <1>2, <1>3 DEF Init, TypeOK, EsCalls, MicroCalls, Indices, Microservices
<1>5. Holds /\ IndicesFirst
  BY DEF Init, Holds, IndicesFirst, EsCalls, MicroCalls, Indices, Microservices
<1>. QED
  BY <1>4, <1>5 DEF IInv

----------------------------------------------------------------------------
(* The next step of a pass, one lemma for each of its moves.               *)

LEMMA FaultKept ==
  ASSUME RestOK, Fault, UNCHANGED <<pods, build>>
  PROVE  RestOK'
BY ConnectionsAssumption DEF RestOK, Fault, pods, build

LEMMA RestKept ==
  ASSUME RestOK, UNCHANGED <<pods, build, faults>>
  PROVE  RestOK'
BY DEF RestOK, pods, build

LEMMA FoundationKept ==
  ASSUME FoundationOK, UNCHANGED foundation
  PROVE  FoundationOK'
BY DEF FoundationOK, foundation

LEMMA ObjectsKept ==
  ASSUME ObjectsOK, IndicesFirst, UNCHANGED objects
  PROVE  ObjectsOK' /\ IndicesFirst'
BY DEF ObjectsOK, IndicesFirst, objects

(* The pass is over.                                                       *)
LEMMA Back ==
  ASSUME ComeBack
  PROVE  PassOK' /\ Holds'
BY DEF ComeBack, Leave, PassOK, Holds, EsCalls, MicroCalls, Indices, Microservices

(* The steps that take a pass on and touch no object.                      *)
LEMMA ReadsKeep ==
  ASSUME IInv, GetElasticsearchInfo \/ GetAuthSecret \/ GetCASecret \/ ReadEndpoint
  PROVE  PassOK' /\ Holds'
<1>. USE DEF EsCalls, MicroCalls, Indices, objects
<1>1. CASE GetElasticsearchInfo
  BY <1>1 DEF IInv, TypeOK, PassOK, Holds, GetElasticsearchInfo, pass
<1>2. CASE GetAuthSecret
  <2>1. CASE ComeBack
    BY <2>1, Back
  <2>2. CASE pc' = "ca" /\ sent' = secretSays /\ UNCHANGED <<read, micro>>
    BY <1>2, <2>2 DEF IInv, TypeOK, PassOK, Holds, GetAuthSecret
  <2>. QED  BY <1>2, <2>1, <2>2 DEF GetAuthSecret
<1>3. CASE GetCASecret
  <2>1. CASE ComeBack
    BY <2>1, Back
  <2>2. CASE Goto("raw")
    BY <1>3, <2>2 DEF IInv, TypeOK, PassOK, Holds, GetCASecret, Goto
  <2>. QED  BY <1>3, <2>1, <2>2 DEF GetCASecret
<1>4. CASE ReadEndpoint
  <2>1. CASE ComeBack
    BY <2>1, Back
  <2>2. CASE /\ ~Unusable(status)
             /\ pc' = "deployment" /\ read' = status /\ UNCHANGED <<sent, micro>>
    BY <1>4, <2>2 DEF IInv, TypeOK, PassOK, Holds, ReadEndpoint, Unusable
  <2>. QED  BY <1>4, <2>1, <2>2 DEF ReadEndpoint
<1>. QED
  BY <1>1, <1>2, <1>3, <1>4

(* An index request: success means the index is there.                     *)
LEMMA PutKeeps ==
  ASSUME IInv, NEW i \in Indices, PutIndex(i)
  PROVE  PassOK' /\ Holds' /\ ObjectsOK' /\ IndicesFirst'
<1>. USE DEF EsCalls, MicroCalls, Indices
<1>1. indices \subseteq indices' /\ indices' \subseteq Indices
  BY DEF IInv, TypeOK, PutIndex
<1>2. ObjectsOK' /\ IndicesFirst'
  BY <1>1 DEF IInv, TypeOK, ObjectsOK, IndicesFirst, PutIndex
<1>3. PassOK' /\ Holds'
  <2>1. CASE ComeBack
    BY <2>1, Back
  <2>2. CASE Answer(i) \in Success /\ AfterIndex(i)
    <3>1. i \in indices'
      BY <2>2 DEF PutIndex, Answer, Success
    <3>2. CASE i = "raw"
      BY <2>2, <3>1, <3>2 DEF IInv, TypeOK, PassOK, Holds, PutIndex, AfterIndex, Goto
    <3>3. CASE i = "anomaly"
      <4>1. indices' = Indices
        BY <1>1, <3>1, <3>3 DEF IInv, Holds, PutIndex
      <4>2. /\ pc' \in {"source", "status"} /\ read' = None /\ sent' = None
            /\ micro' = micro
        BY <2>2, <3>3 DEF AfterIndex, Leave
      <4>. QED  BY <4>1, <4>2 DEF IInv, TypeOK, PassOK, Holds
    <3>. QED  BY <3>2, <3>3
  <2>. QED  BY <2>1, <2>2 DEF PutIndex
<1>. QED
  BY <1>2, <1>3

(* A request that is carried out although the pass takes it for failed.    *)
LEMMA UnansweredKeeps ==
  ASSUME IInv, NEW i \in Indices, PutUnanswered(i)
  PROVE  PassOK' /\ Holds' /\ ObjectsOK' /\ IndicesFirst'
<1>1. PassOK' /\ Holds'
  BY Back DEF PutUnanswered
<1>2. ObjectsOK' /\ IndicesFirst'
  BY DEF IInv, TypeOK, ObjectsOK, IndicesFirst, PutUnanswered, Indices
<1>. QED
  BY <1>1, <1>2

(* The objects are created in passes both of whose requests succeeded.     *)
LEMMA CreationsKeep ==
  ASSUME IInv, CreateKafkaSource \/ EnsureDeployment \/ EnsureService \/ EnsureRoute
  PROVE  PassOK' /\ Holds' /\ ObjectsOK' /\ IndicesFirst'
<1>. USE DEF EsCalls, MicroCalls, Indices
<1>1. indices' = indices /\ indices = Indices
  BY DEF IInv, Holds, CreateKafkaSource, EnsureDeployment, EnsureService, EnsureRoute
<1>2. IndicesFirst'
  BY <1>1 DEF IndicesFirst
<1>3. CASE CreateKafkaSource
  <2>1. PassOK' /\ Holds'
    BY <1>3, Back DEF CreateKafkaSource
  <2>2. source' \in {source, "", PlainServers(status)}
    BY <1>3 DEF CreateKafkaSource
  <2>3. ObjectsOK'
    BY <1>1, <1>3, <2>2 DEF IInv, TypeOK, ObjectsOK, CreateKafkaSource
  <2>. QED  BY <1>2, <2>1, <2>3
<1>4. CASE EnsureDeployment
  <2>1. Env(micro, read) \in Environments
    <3>1. micro \in Microservices /\ read \in {t \in Statuses : TLSEndpoint(t) # None}
      BY <1>4 DEF IInv, TypeOK, Holds, EnsureDeployment
    <3>. QED  BY <3>1 DEF Environments
  <2>2. env' \in [Microservices -> {None} \cup Environments]
    BY <1>4, <2>1 DEF IInv, TypeOK, EnsureDeployment
  <2>3. ObjectsOK'
    BY <1>1, <1>4, <2>2 DEF IInv, TypeOK, ObjectsOK, EnsureDeployment
  <2>4. PassOK' /\ Holds'
    BY <1>1, <1>4 DEF IInv, TypeOK, PassOK, Holds, EnsureDeployment, Goto
  <2>. QED  BY <1>2, <2>3, <2>4
<1>5. CASE EnsureService
  BY <1>1, <1>2, <1>5 DEF IInv, TypeOK, ObjectsOK, PassOK, Holds, EnsureService, Goto
<1>6. CASE EnsureRoute
  <2>1. ObjectsOK'
    BY <1>1, <1>6 DEF IInv, TypeOK, ObjectsOK, EnsureRoute
  <2>2. CASE ComeBack
    BY <1>2, <2>1, <2>2, Back
  <2>3. CASE Leave("status") /\ micro' = "demoserver"
    BY <1>1, <1>2, <2>1, <2>3 DEF PassOK, Holds, Leave, Microservices
  <2>. QED  BY <1>6, <2>2, <2>3 DEF EnsureRoute
<1>. QED
  BY <1>3, <1>4, <1>5, <1>6

LEMMA OperatorKeeps ==
  ASSUME IInv, Operator
  PROVE  IInv'
<1>1. PassOK' /\ Holds' /\ ObjectsOK' /\ IndicesFirst'
  <2>1. CASE GetElasticsearchInfo \/ GetAuthSecret \/ GetCASecret \/ ReadEndpoint
    BY <2>1, ReadsKeep, ObjectsKept, TypeParts
       DEF IInv, GetElasticsearchInfo, GetAuthSecret, GetCASecret, ReadEndpoint
  <2>2. CASE \E i \in Indices : PutIndex(i) \/ PutUnanswered(i)
    BY <2>2, PutKeeps, UnansweredKeeps
  <2>3. CASE CreateKafkaSource \/ EnsureDeployment \/ EnsureService \/ EnsureRoute
    BY <2>3, CreationsKeep
  <2>4. CASE PassFails
    BY <2>4, Back, ObjectsKept, TypeParts DEF IInv, PassFails
  <2>. QED  BY <2>1, <2>2, <2>3, <2>4 DEF Operator
<1>2. FoundationOK'
  BY FoundationKept, TypeParts
     DEF IInv, Operator, GetElasticsearchInfo, GetAuthSecret, GetCASecret, ReadEndpoint, PutIndex,
         PutUnanswered, CreateKafkaSource, EnsureDeployment, EnsureService, EnsureRoute, PassFails
<1>3. RestOK'
  BY RestKept, FaultKept, TypeParts
     DEF IInv, Operator, GetElasticsearchInfo, GetAuthSecret, GetCASecret, ReadEndpoint, PutIndex,
         PutUnanswered, CreateKafkaSource, EnsureDeployment, EnsureService, EnsureRoute, PassFails
<1>. QED
  BY <1>1, <1>2, <1>3, TypePartsNext DEF IInv

(* The foundation, the pods and the clients leave the operator alone.      *)
LEMMA ClusterKeeps ==
  ASSUME IInv, Cluster
  PROVE  IInv'
<1>1. UNCHANGED <<objects, pass>>
  BY DEF Cluster, Publish, SecretAppears, Rotate, SecretFollows, PodStarts, PodDies, Ask
<1>2. PassOK' /\ Holds' /\ ObjectsOK' /\ IndicesFirst'
  BY <1>1, TypeParts DEF IInv, PassOK, Holds, ObjectsOK, IndicesFirst, objects, pass
<1>3. FoundationOK'
  <2>1. Rotations \in Nat /\ FoundationOK
    BY ConnectionsAssumption, TypeParts DEF IInv
  <2>2. CASE \E s \in Statuses : Publish(s)
    BY <2>1, <2>2 DEF FoundationOK, Publish
  <2>3. CASE \E n \in SecretNames : SecretAppears(n)
    BY <2>1, <2>3 DEF FoundationOK, SecretAppears
  <2>4. CASE Rotate \/ SecretFollows
    BY <2>1, <2>4 DEF FoundationOK, Rotate, SecretFollows
  <2>5. CASE \E m \in Microservices : PodStarts(m) \/ PodDies(m) \/ Ask(m)
    BY <2>1, <2>5, FoundationKept DEF PodStarts, PodDies, Ask
  <2>. QED  BY <2>2, <2>3, <2>4, <2>5 DEF Cluster
<1>4. CASE \E m \in Microservices : PodStarts(m) \/ PodDies(m) \/ Ask(m)
  <2>1. PICK m \in Microservices : PodStarts(m) \/ PodDies(m) \/ Ask(m)
    BY <1>4
  <2>2. running' \subseteq Microservices
    BY <2>1 DEF IInv, TypeOK, PodStarts, PodDies, Ask
  <2>3. answered' \in BOOLEAN /\ useKnative' \in BOOLEAN /\ pointers' \in BOOLEAN
    BY <2>1, Zenon DEF IInv, TypeOK, PodStarts, PodDies, Ask, build
  <2>4. faults' \in 0..Faults
    <3>1. Faults \in Nat /\ faults \in 0..Faults
      BY ConnectionsAssumption DEF IInv, TypeOK
    <3>2. faults' = faults \/ (faults < Faults /\ faults' = faults + 1)
      BY <2>1 DEF PodStarts, PodDies, Ask, Fault
    <3>. QED  BY <3>1, <3>2
  <2>5. RestOK'
    BY <2>2, <2>3, <2>4 DEF RestOK
  <2>. QED  BY <1>2, <1>3, <2>5, TypePartsNext DEF IInv
<1>5. CASE ~\E m \in Microservices : PodStarts(m) \/ PodDies(m) \/ Ask(m)
  <2>1. RestOK'
    BY <1>5, RestKept, TypeParts
       DEF IInv, Cluster, Publish, SecretAppears, Rotate, SecretFollows
  <2>. QED  BY <1>2, <1>3, <2>1, TypePartsNext DEF IInv
<1>. QED
  BY <1>4, <1>5

(* The invariant of every behaviour.                                       *)
THEOREM Invariance == Spec => []IInv
<1>1. IInv /\ [Next]_vars => IInv'
  <2>. SUFFICES ASSUME IInv, [Next]_vars PROVE IInv'
    OBVIOUS
  <2>1. CASE Next
    BY <2>1, OperatorKeeps, ClusterKeeps DEF Next
  <2>2. CASE UNCHANGED vars
    <3>1. UNCHANGED <<foundation, objects, pass, pods, build, faults>>
      BY <2>2 DEF vars
    <3>2. PassOK' /\ Holds'
      BY <3>1, TypeParts DEF IInv, PassOK, Holds, objects, pass
    <3>. QED
      BY <3>1, <3>2, ObjectsKept, FoundationKept, RestKept, TypeParts, TypePartsNext DEF IInv
  <2>. QED  BY <2>1, <2>2
<1>. QED
  BY Initially, <1>1, PTL DEF Spec

(* Every variable stays in its set, the environments of the Deployments    *)
(* among what the published statuses give.                                 *)
THEOREM TypeCorrect == Spec => []TypeOK
<1>1. IInv => TypeOK
  BY DEF IInv
<1>. QED
  BY Invariance, <1>1, PTL

(* No KafkaSource, Deployment or Service before both indices, whatever     *)
(* answers the requests get and whenever the password changes.             *)
THEOREM NothingBeforeIndices == Spec => []IndicesFirst
<1>1. IInv => IndicesFirst
  BY DEF IInv
<1>. QED
  BY Invariance, <1>1, PTL

(* The password never goes to an endpoint that is not internal, nor, with  *)
(* one internal endpoint, together with another endpoint's secrets.        *)
THEOREM PasswordStaysInside == Spec => []CredentialsStayInside
<1>1. IInv => CredentialsStayInside
  <2>. SUFFICES ASSUME IInv, pc \in Indices PROVE CredentialsStayInside
    BY DEF CredentialsStayInside
  <2>1. read \in Statuses /\ EsInfo(read).uri # None
    BY DEF IInv, TypeOK, Holds, EsCalls
  <2>. QED  BY <2>1, InfoOfInternal DEF CredentialsStayInside
<1>. QED
  BY Invariance, <1>1, PTL

(* Producer and server get a TLS listener with its own secrets, the        *)
(* KafkaSource a plain one or none.                                        *)
THEOREM ListenersAreRight == Spec => []ListenersMatch
<1>1. IInv => ListenersMatch
  <2>. SUFFICES ASSUME IInv PROVE ListenersMatch
    OBVIOUS
  <2>1. ASSUME NEW m \in Microservices, env[m] # None
        PROVE  \E e \in Named("internal-service-tls") :
                 env[m].servers = e.servers /\ env[m].auth = e.auth /\ env[m].ca = e.ca
    <3>1. env[m] \in Environments
      BY <2>1 DEF IInv, TypeOK
    <3>2. PICK n \in Microservices, s \in {t \in Statuses : TLSEndpoint(t) # None} : env[m] = Env(n, s)
      BY <3>1 DEF Environments
    <3>3. TLSEndpoint(s) \in Named("internal-service-tls")
      BY TLSIsNamed
    <3>. QED  BY <3>2, <3>3 DEF Env
  <2>2. source \in {None, ""} \cup {e.servers : e \in Named("internal-service-plain")}
    <3>1. CASE source \in {None, ""}
      BY <3>1
    <3>2. CASE source \notin {None, ""}
      <4>1. PICK s \in Statuses : source = PlainServers(s)
        BY <3>2 DEF IInv, TypeOK
      <4>2. \E e \in Named("internal-service-plain") : source = e.servers
        BY <3>2, <4>1, PlainIsNamed
      <4>. QED  BY <4>2
    <3>. QED  BY <3>1, <3>2
  <2>. QED  BY <2>1, <2>2 DEF ListenersMatch
<1>. QED
  BY Invariance, <1>1, PTL
----------------------------------------------------------------------------
(* Connections implements Provisioning. *)

(* The pass is at a microservice once what comes before is set up; none of  *)
(* it ever goes away.                                                       *)
SetUp ==
  /\ pc \in {"service", "route"} => env[micro] # None
  /\ pc = "route" => micro \in services
  /\ micro = "demoserver" => /\ env["demoproducer"] # None
                             /\ "demoproducer" \in services \cap routes

(* The environment that a Deployment is created with is one.               *)
LEMMA EnvIsSome ==
  ASSUME IInv, EnsureDeployment
  PROVE  Env(micro, read) # None
<1>1. micro \in Microservices /\ read \in {t \in Statuses : TLSEndpoint(t) # None}
  BY DEF IInv, TypeOK, Holds, EnsureDeployment, MicroCalls, EsCalls
<1>2. Env(micro, read) \in Environments
  BY <1>1 DEF Environments
<1>. QED
  BY <1>2, NoneAssumption

(* The objects a step does not set up itself it leaves alone.              *)
LEMMA SetUpInductive == IInv /\ SetUp /\ [Next]_vars => SetUp'
<1>. SUFFICES ASSUME IInv, SetUp, [Next]_vars PROVE SetUp'
  OBVIOUS
<1>. USE DEF SetUp
<1>1. CASE ComeBack
  BY <1>1 DEF ComeBack, Leave
<1>2. CASE ~ComeBack /\ (GetElasticsearchInfo \/ GetAuthSecret \/ GetCASecret \/ ReadEndpoint)
  BY <1>2 DEF GetElasticsearchInfo, GetAuthSecret, GetCASecret, ReadEndpoint, Goto, objects, pass
<1>3. ASSUME ~ComeBack, NEW i \in Indices, PutIndex(i)
      PROVE  SetUp'
  <2>1. AfterIndex(i) /\ UNCHANGED <<env, services, routes>>
    BY <1>3 DEF PutIndex
  <2>2. pc' \notin {"service", "route"} /\ UNCHANGED micro
    BY <2>1 DEF AfterIndex, Goto, Leave
  <2>. QED  BY <2>1, <2>2
<1>4. CASE EnsureDeployment
  <2>1. micro \in Microservices /\ env \in [Microservices -> {None} \cup Environments]
    BY DEF IInv, TypeOK
  <2>2. Env(micro, read) # None
    BY <1>4, EnvIsSome
  <2>3. env'[micro] # None /\ \A m \in Microservices : env[m] # None => env'[m] # None
    BY <1>4, <2>1, <2>2 DEF EnsureDeployment
  <2>. QED  BY <1>4, <2>1, <2>3 DEF EnsureDeployment, Goto, Microservices
<1>5. CASE EnsureService
  BY <1>5 DEF EnsureService, Goto
<1>6. CASE EnsureRoute /\ ~ComeBack
  <2>1. micro = "demoproducer"
    BY <1>6 DEF IInv, TypeOK, EnsureRoute, Microservices
  <2>2. pc' = "status" /\ UNCHANGED <<env, services>> /\ routes' = routes \cup {micro}
    BY <1>6 DEF EnsureRoute, Leave
  <2>3. env["demoproducer"] # None /\ "demoproducer" \in services
    BY <1>6, <2>1 DEF EnsureRoute
  <2>. QED  BY <2>1, <2>2, <2>3
<1>7. CASE Cluster \/ UNCHANGED vars
  BY <1>7 DEF Cluster, Publish, SecretAppears, Rotate, SecretFollows, PodStarts, PodDies, Ask,
              vars, objects, pass
<1>. QED
  BY <1>1, <1>2, <1>3, <1>4, <1>5, <1>6, <1>7
     DEF Next, Operator, PutUnanswered, CreateKafkaSource, PassFails

LEMMA StepMaps == IInv /\ SetUp /\ [Next]_vars => [Promise!Next]_(Promise!vars)
<1>. SUFFICES ASSUME IInv, SetUp, [Next]_vars PROVE [Promise!Next]_(Promise!vars)
  OBVIOUS
<1>1. ASSUME NEW s \in 1..9, Built' = Built \cup {s},
             \A p \in 1..9 \ {3} : p < s => p \in Built
      PROVE  Promise!Next
  BY <1>1 DEF Promise!Next, Promise!Build, Promise!MayBuild
<1>2. ASSUME UNCHANGED objects PROVE UNCHANGED Promise!vars
  BY <1>2 DEF objects, Built, Promise!vars
<1>3. ASSUME NEW i \in Indices, indices' \in {indices, indices \cup {i}}, pc = i,
             UNCHANGED <<source, env, services, routes>>
      PROVE  [Promise!Next]_(Promise!vars)
  <2>1. CASE i = "raw" /\ indices' = indices \cup {i}
    BY <1>1, <1>3, <2>1 DEF Built
  <2>2. CASE i = "anomaly" /\ indices' = indices \cup {i}
    BY <1>1, <1>3, <2>2 DEF Built, IInv, Holds
  <2>3. CASE indices' = indices
    BY <1>2, <1>3, <2>3 DEF objects
  <2>. QED  BY <1>3, <2>1, <2>2, <2>3 DEF Indices
<1>4. ASSUME NEW i \in Indices, PutIndex(i) \/ PutUnanswered(i)
      PROVE  [Promise!Next]_(Promise!vars)
  BY <1>3, <1>4 DEF PutIndex, PutUnanswered
<1>5. ASSUME CreateKafkaSource \/ EnsureDeployment \/ EnsureService \/ EnsureRoute
      PROVE  1 \in Built /\ 2 \in Built
  <2>1. "raw" \in indices /\ "anomaly" \in indices
    BY <1>5 DEF IInv, Holds, Indices, MicroCalls, CreateKafkaSource, EnsureDeployment,
                EnsureService, EnsureRoute
  <2>. QED  BY <2>1 DEF Built
<1>6. CASE CreateKafkaSource
  <2>1. CASE source' = source
    BY <1>2, <1>6, <2>1 DEF CreateKafkaSource, objects
  <2>2. CASE source = None /\ source' # None
    <3>1. UNCHANGED <<indices, env, services, routes>>
      BY <1>6 DEF CreateKafkaSource
    <3>2. Built' = Built \cup {3}
      BY <2>2, <3>1 DEF Built
    <3>3. \A p \in 1..9 \ {3} : p < 3 => p \in Built
      BY <1>5, <1>6
    <3>. QED  BY <1>1, <3>2, <3>3
  <2>. QED  BY <1>6, <2>1, <2>2 DEF CreateKafkaSource
<1>7. ASSUME micro = "demoserver"
      PROVE  {4, 5, 6} \subseteq Built
  BY <1>7 DEF SetUp, Built
<1>8. CASE EnsureDeployment
  <2>. DEFINE s == IF micro = "demoproducer" THEN 4 ELSE 7
  <2>1. micro \in Microservices /\ env \in [Microservices -> {None} \cup Environments]
    BY DEF IInv, TypeOK
  <2>2. CASE env' = env
    BY <1>2, <1>8, <2>2 DEF EnsureDeployment, objects
  <2>3. CASE env[micro] = None /\ env' = [env EXCEPT ![micro] = Env(micro, read)]
    <3>1. Env(micro, read) # None
      BY <1>8, EnvIsSome
    <3>2. Built' = Built \cup {s}
      BY <1>8, <2>1, <2>3, <3>1 DEF Built, EnsureDeployment, Microservices
    <3>3. \A p \in 1..9 \ {3} : p < s => p \in Built
      BY <1>5, <1>7, <1>8, <2>1 DEF Microservices
    <3>. QED  BY <1>1, <3>2, <3>3
  <2>. QED  BY <1>8, <2>2, <2>3 DEF EnsureDeployment
<1>9. CASE EnsureService
  <2>. DEFINE s == IF micro = "demoproducer" THEN 5 ELSE 8
  <2>1. micro \in Microservices
    BY DEF IInv, TypeOK
  <2>2. Built' = Built \cup {s}
    BY <1>9, <2>1 DEF Built, EnsureService, Microservices
  <2>3. s - 1 \in Built
    BY <1>9, <2>1 DEF Built, EnsureService, SetUp, Microservices
  <2>4. \A p \in 1..9 \ {3} : p < s => p \in Built
    BY <1>5, <1>7, <1>9, <2>1, <2>3 DEF Microservices
  <2>. QED  BY <1>1, <2>2, <2>4
<1>10. CASE EnsureRoute
  <2>. DEFINE s == IF micro = "demoproducer" THEN 6 ELSE 9
  <2>1. micro \in Microservices
    BY DEF IInv, TypeOK
  <2>2. Built' = Built \cup {s}
    BY <1>10, <2>1 DEF Built, EnsureRoute, Microservices
  <2>3. s - 1 \in Built /\ s - 2 \in Built
    BY <1>10, <2>1 DEF Built, EnsureRoute, SetUp, Microservices
  <2>4. \A p \in 1..9 \ {3} : p < s => p \in Built
    BY <1>5, <1>7, <1>10, <2>1, <2>3 DEF Microservices
  <2>. QED  BY <1>1, <2>2, <2>4
<1>11. CASE \/ GetElasticsearchInfo \/ GetAuthSecret \/ GetCASecret \/ ReadEndpoint \/ PassFails
            \/ Cluster \/ UNCHANGED vars
  BY <1>2, <1>11
     DEF GetElasticsearchInfo, GetAuthSecret, GetCASecret, ReadEndpoint, PassFails, Cluster, Publish,
         SecretAppears, Rotate, SecretFollows, PodStarts, PodDies, Ask, vars
<1>. QED
  BY <1>4, <1>6, <1>8, <1>9, <1>10, <1>11 DEF Next, Operator

(* The objects a pass sets up appear in the order module Provisioning       *)
(* promises, the indices first, a Route last.                               *)
THEOREM ImplementsProvisioning == Spec => Provisioning
<1>1. Init => Promise!Init /\ SetUp
  BY DEF Init, Promise!Init, Built, SetUp, Microservices
<1>. QED
  BY <1>1, SetUpInductive, StepMaps, Invariance, PTL DEF Spec, Provisioning, Promise!Spec

----------------------------------------------------------------------------
(* What is set up last, and what that says of the rest. *)

(* Of the objects a pass must set up, each has those before it.             *)
Closed ==
  \A s \in Built : \A p \in 1..9 \ {3} : p < s => p \in Built

LEMMA PromiseGrows ==
  [Promise!Next]_(Promise!vars) => Built \subseteq Built' /\ (Closed => Closed')
<1>1. CASE Promise!Next
  <2>1. PICK s \in 1..9 : Promise!Build(s)
    BY <1>1 DEF Promise!Next
  <2>2. Built' = Built \cup {s} /\ \A p \in 1..9 \ {3} : p < s => p \in Built
    BY <2>1 DEF Promise!Build, Promise!MayBuild
  <2>. QED  BY <2>2 DEF Closed
<1>2. CASE UNCHANGED Promise!vars
  BY <1>2 DEF Promise!vars, Closed
<1>. QED
  BY <1>1, <1>2

LastThere == IF useKnative THEN source # None ELSE "demoserver" \in routes

AllSetUp ==
  IF useKnative THEN source # None
  ELSE /\ services = Microservices
       /\ routes = Microservices
       /\ \A m \in Microservices : env[m] # None

LEMMA LastMeansAll == TypeOK /\ Closed /\ LastThere => AllSetUp
<1>. SUFFICES ASSUME TypeOK, Closed, ~useKnative, "demoserver" \in routes
              PROVE  /\ services = Microservices
                     /\ routes = Microservices
                     /\ \A m \in Microservices : env[m] # None
  BY DEF LastThere, AllSetUp
<1>1. 9 \in Built
  BY DEF Built
<1>2. {4, 5, 6, 7, 8} \subseteq Built
  BY <1>1 DEF Closed
<1>3. /\ env["demoproducer"] # None /\ env["demoserver"] # None
      /\ Microservices \subseteq services /\ "demoproducer" \in routes
  BY <1>2 DEF Built, Microservices
<1>. QED
  BY <1>3 DEF TypeOK, Microservices

LEMMA LastStays ==
  ASSUME LastThere, Built \subseteq Built', useKnative' = useKnative
  PROVE  LastThere'
<1>1. source # None <=> 3 \in Built
  BY DEF Built
<1>2. (source # None)' <=> (3 \in Built)'
  BY DEF Built
<1>3. "demoserver" \in routes <=> 9 \in Built
  BY DEF Built
<1>4. ("demoserver" \in routes)' <=> (9 \in Built)'
  BY DEF Built
<1>. QED
  BY <1>1, <1>2, <1>3, <1>4 DEF LastThere

(* All that Connected asks of the scheduling is that some pass gets to its  *)
(* last object, the server's Route or, with Knative, the KafkaSource: then  *)
(* everything before it is there too, whatever calls failed, and for good.  *)
THEOREM LastIsEnough == Spec /\ <>LastThere => Connected
<1>1. Init => SetUp /\ Closed
  BY DEF Init, SetUp, Closed, Built, Microservices
<1>2. [Next]_vars => useKnative' = useKnative
  BY DEF Next, Operator, Cluster, GetElasticsearchInfo, GetAuthSecret, GetCASecret, ReadEndpoint,
         PutIndex, PutUnanswered, CreateKafkaSource, EnsureDeployment, EnsureService, EnsureRoute,
         PassFails, Publish, SecretAppears, Rotate, SecretFollows, PodStarts, PodDies, Ask, build, vars
<1>3. IInv /\ SetUp /\ [Next]_vars => (Closed => Closed') /\ (LastThere => LastThere')
  BY <1>2, StepMaps, PromiseGrows, LastStays
<1>4. Spec => [](IInv /\ SetUp /\ Closed)
  BY <1>1, <1>3, SetUpInductive, Invariance, PTL DEF Spec
<1>5. IInv /\ Closed /\ LastThere => AllSetUp
  BY LastMeansAll DEF IInv
<1>6. Spec /\ <>LastThere => <>[]AllSetUp
  BY <1>3, <1>4, <1>5, PTL DEF Spec
<1>. QED
  BY <1>6 DEF Connected, AllSetUp
=============================================================================
