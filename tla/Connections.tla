------------------------------ MODULE Connections ------------------------------
(***************************************************************************)
(* What a pass of Reconcile connects, and with whose endpoints, secrets    *)
(* and certificates: the Elasticsearch indices, the KafkaSource and the    *)
(* two microservices, down to the pods that answer their Routes.  All of   *)
(* it is read from the status that CartridgeRequirements publishes, which  *)
(* may change between any two reads, as may the password in a secret.      *)
(* Looking an object up and creating it is one step here; module           *)
(* Reconciler takes the two apart.                                         *)
(***************************************************************************)
EXTENDS Integers, SequencesExt

CONSTANTS
  Statuses,   \* what the status of CartridgeRequirements may say
  None,       \* a part of it, an object or a value that is not there
  Rotations,  \* bound: times the Elasticsearch password changes
  Faults      \* bound: calls that fail, deaths of the operator or of a pod

ASSUME ConnectionsAssumption ==
  /\ None \notin Nat
  /\ \A s \in Statuses : /\ s.es \in Seq(Range(s.es))
                        /\ s.kafka # None => s.kafka \in Seq(Range(s.kafka))
  /\ Rotations \in Nat
  /\ Faults \in Nat

VARIABLES
  status,      \* the status of CartridgeRequirements
  secrets,     \* the secrets that are there, with the keys they should have
  password,    \* how often the password changed, as Elasticsearch knows it
  secretSays,  \* the same, as the operator's cache of the secret has it
  indices,     \* the Elasticsearch indices
  source,      \* the servers of the KafkaSource
  env,         \* the environment in each microservice's Deployment
  services,    \* the microservices that have a Service
  routes,      \* the microservices that have a Route
  pc,          \* the next step of the pass
  read,        \* the status that the running function holds
  sent,        \* the password in its elasticsearchInfo
  micro,       \* the microservice the pass is at
  running,     \* the microservices whose pod is running
  answered,    \* a client of the server's Route has been answered
  useKnative,  \* USE_KNATIVE
  pointers,    \* an endpoint without a secret has a nil pointer in its place
  faults       \* adverse events so far

foundation == <<status, secrets, password, secretSays>>
objects    == <<indices, source, env, services, routes>>
pass       == <<pc, read, sent, micro>>
pods       == <<running, answered>>
build      == <<useKnative, pointers>>
vars       == <<foundation, objects, pass, pods, build, faults>>

Indices       == {"raw", "anomaly"}
Microservices == {"demoproducer", "demoserver"}
Functions     == {"operator", "server", "producer"}

----------------------------------------------------------------------------
(* What the functions of a pass take from a status. *)

Field(e, f) == IF e = None THEN None ELSE e[f]

FirstWith(s, Test(_)) ==
  LET k == SelectInSeq(s, Test) IN IF k = 0 THEN None ELSE s[k]

\* What a loop that does not break is left with.
LastWith(s, Test(_)) ==
  LET k == SelectLastInSeq(s, Test) IN IF k = 0 THEN None ELSE s[k]

IsEndpoint(e) == TRUE  \* mutant: any scope will do

IsInternal(e) == e.scope = "Internal"

HasAuth(e) == IsInternal(e) /\ e.auth # None
HasCA(e) == IsInternal(e) /\ e.ca # None

\* Endpoint, credentials and certificate are each taken from the last internal
\* endpoint that has one, so with several of them they may not match.
EsInfo(s) ==
  [ uri  |-> Field(LastWith(s.es, IsInternal), "uri"),
    auth |-> Field(LastWith(s.es, HasAuth), "auth"),
    ca   |-> Field(LastWith(s.es, HasCA), "ca") ]

\* What a status says of each endpoint, internal or not.
EsEndpoints(s) == {[uri |-> e.uri, auth |-> e.auth, ca |-> e.ca] : e \in Range(s.es)}

KafkaEndpoints(s) == IF s.kafka = None THEN <<>> ELSE s.kafka

IsPlain(e) == e.name = "internal-service-plain"
IsTLS(e) == e.name = "internal-service-tls"

PlainServers(s) == Field(LastWith(KafkaEndpoints(s), IsPlain), "servers")

TLSEndpoint(s) == FirstWith(KafkaEndpoints(s), IsTLS)

FullName(m) == m  \* mutant: the name is not shortened

ShortName(m) == IF m = "demoserver" THEN "server" ELSE "producer"

Env(m, s) ==
  [ function |-> ShortName(m),
    servers  |-> TLSEndpoint(s).servers,
    auth     |-> TLSEndpoint(s).auth,
    ca       |-> TLSEndpoint(s).ca ]

----------------------------------------------------------------------------
Init ==
  /\ status \in Statuses
  /\ secrets = {}
  /\ password = 0
  /\ secretSays = 0
  /\ indices = {}
  /\ source = None
  /\ env = [m \in Microservices |-> None]
  /\ services = {}
  /\ routes = {}
  /\ pc = "idle"
  /\ read = None
  /\ sent = None
  /\ micro = "demoproducer"
  /\ running = {}
  /\ answered = FALSE
  /\ useKnative \in BOOLEAN
  /\ pointers \in BOOLEAN
  /\ faults = 0

Fault ==
  /\ faults < Faults
  /\ faults' = faults + 1

Goto(next) == pc' = next /\ UNCHANGED <<read, sent, micro>>

\* A function is done, and what it read is gone with it.
Leave(next) ==
  /\ pc' = next
  /\ read' = None
  /\ sent' = None

\* The pass is over, by an error, a requeue or at its end.
ComeBack == Leave("idle") /\ micro' = "demoproducer"

----------------------------------------------------------------------------
(* initializeElasticsearchIndices: getElasticsearchInfo and two requests. *)

\* CartridgeRequirements is read; without an internal endpoint that is all.
GetElasticsearchInfo ==
  /\ pc = "idle"
  /\ IF EsInfo(status).uri = None THEN UNCHANGED pass
     ELSE pc' = "auth" /\ read' = status /\ UNCHANGED <<sent, micro>>
  /\ UNCHANGED <<foundation, objects, pods, build, faults>>

GetAuthSecretUnchecked ==  \* mutant: a secret that is not found is no error
  /\ pc = "auth"
  /\ pc' = "ca"
  /\ sent' = IF EsInfo(read).auth \in secrets THEN secretSays ELSE sent
  /\ UNCHANGED <<read, micro, foundation, objects, pods, build, faults>>

GetAuthSecret ==
  /\ pc = "auth"
  /\ IF EsInfo(read).auth \in secrets
     THEN pc' = "ca" /\ sent' = secretSays /\ UNCHANGED <<read, micro>>
     ELSE ComeBack
  /\ UNCHANGED <<foundation, objects, pods, build, faults>>

\* The certificate is optional, but a secret that is named has to be there.
GetCASecret ==
  /\ pc = "ca"
  /\ IF EsInfo(read).ca \in secrets \cup {None} THEN Goto("raw") ELSE ComeBack
  /\ UNCHANGED <<foundation, objects, pods, build, faults>>

\* Elasticsearch accepts what belongs to the endpoint, and the password of now.
Authorised ==
  /\ sent = password
  /\ \E s \in Statuses : EsInfo(read) \in EsEndpoints(s)

Answer(i) ==
  IF ~Authorised THEN "refused" ELSE IF i \in indices THEN "exists" ELSE "created"

AnyAnswer == {"created", "exists", "refused"}  \* mutant: the status is not looked at
OnlyCreated == {"created"}  \* mutant: resource_already_exists_exception is an error

\* The answers for which doRequest returns nil.
Success == {"created", "exists"}

AfterIndex(i) ==
  IF i = "raw" THEN Goto("anomaly")
  ELSE Leave(IF useKnative THEN "source" ELSE "status") /\ UNCHANGED micro

PutIndex(i) ==
  /\ pc = i
  /\ indices' = IF Authorised THEN indices \cup {i} ELSE indices
  /\ IF Answer(i) \in Success THEN AfterIndex(i) ELSE ComeBack
  /\ UNCHANGED <<foundation, source, env, services, routes, pods, build, faults>>

\* The request is carried out, but the answer comes too late or is not JSON.
PutUnanswered(i) ==
  /\ pc = i
  /\ Authorised
  /\ Fault
  /\ indices' = indices \cup {i}
  /\ ComeBack
  /\ UNCHANGED <<foundation, source, env, services, routes, pods, build>>

----------------------------------------------------------------------------
(* reconcileKnative and reconcileMicroservice. *)

\* The KafkaSource is created without servers when the status has none for it,
\* and never updated.  The kind looked up next is not in the scheme.
CreateKafkaSource ==
  /\ pc = "source"
  /\ source' = IF source # None \/ status.kafka = None THEN source
               ELSE IF PlainServers(status) = None THEN "" ELSE PlainServers(status)
  /\ ComeBack
  /\ UNCHANGED <<foundation, indices, env, services, routes, pods, build, faults>>

\* The dereferences of CASecret and Authentication.Secret are not guarded.
Panics(s) ==
  /\ pointers
  /\ TLSEndpoint(s).auth = None \/ TLSEndpoint(s).ca = None

\* No endpoint is an error, a panic ends the operator: the pass is over.
Unusable(s) == IF TLSEndpoint(s) = None THEN TRUE ELSE Panics(s)

ReadEndpoint ==
  /\ pc = "status"
  /\ IF Unusable(status) THEN ComeBack
     ELSE pc' = "deployment" /\ read' = status /\ UNCHANGED <<sent, micro>>
  /\ UNCHANGED <<foundation, objects, pods, build, faults>>

EnsureDeployment ==
  /\ pc = "deployment"
  /\ env' = IF env[micro] = None THEN [env EXCEPT ![micro] = Env(micro, read)] ELSE env
  /\ Goto("service")
  /\ UNCHANGED <<foundation, indices, source, services, routes, pods, build, faults>>

EnsureService ==
  /\ pc = "service"
  /\ services' = services \cup {micro}
  /\ Goto("route")
  /\ UNCHANGED <<foundation, indices, source, env, routes, pods, build, faults>>

EnsureRoute ==
  /\ pc = "route"
  /\ routes' = routes \cup {micro}
  /\ IF micro = "demoserver" THEN ComeBack
     ELSE Leave("status") /\ micro' = "demoserver"
  /\ UNCHANGED <<foundation, indices, source, env, services, pods, build, faults>>

\* Any call fails, or the operator dies.
PassFails ==
  /\ pc # "idle"
  /\ Fault
  /\ ComeBack
  /\ UNCHANGED <<foundation, objects, pods, build>>

Operator ==
  \/ GetElasticsearchInfo \/ GetAuthSecret \/ GetCASecret
  \/ (\E i \in Indices : PutIndex(i) \/ PutUnanswered(i))
  \/ CreateKafkaSource \/ ReadEndpoint
  \/ EnsureDeployment \/ EnsureService \/ EnsureRoute
  \/ PassFails

----------------------------------------------------------------------------
(* The foundation, the pods and the clients of the server's Route. *)

Publish(s) ==
  /\ s # status
  /\ status' = s
  /\ UNCHANGED <<secrets, password, secretSays, objects, pass, pods, build, faults>>

SecretNames ==
  LET Endpoints == UNION {Range(s.es) \cup Range(KafkaEndpoints(s)) : s \in Statuses}
  IN UNION {{e.auth, e.ca} : e \in Endpoints} \ {None}

SecretAppears(n) ==
  /\ secrets' = secrets \cup {n}
  /\ n \notin secrets
  /\ UNCHANGED <<status, password, secretSays, objects, pass, pods, build, faults>>

Rotate ==
  /\ password < Rotations
  /\ password' = password + 1
  /\ UNCHANGED <<status, secrets, secretSays, objects, pass, pods, build, faults>>

SecretFollows ==
  /\ secretSays # password
  /\ secretSays' = password
  /\ UNCHANGED <<status, secrets, password, objects, pass, pods, build, faults>>

\* main knows the function, and the producer, whose configuration is always
\* for SCRAM, has a user: without one sarama refuses it, which is fatal.
CanRun(e) ==
  /\ e.function \in Functions
  /\ e.function = "producer" => e.auth # None

\* The container waits for the secrets its environment refers to.
PodStarts(m) ==
  /\ m \notin running
  /\ env[m] # None
  /\ CanRun(env[m])
  /\ {env[m].auth, env[m].ca} \subseteq secrets \cup {None}
  /\ running' = running \cup {m}
  /\ UNCHANGED <<foundation, objects, pass, answered, build, faults>>

PodDies(m) ==
  /\ m \in running
  /\ Fault
  /\ running' = running \ {m}
  /\ UNCHANGED <<foundation, objects, pass, answered, build>>

\* The Deployments share their labels, so the Service behind the server's Route
\* selects the pods of both; only the server listens.
Ask(m) ==
  /\ "demoserver" \in services \cap routes
  /\ m \in running
  /\ answered' = (answered \/ env[m].function = "server")
  /\ UNCHANGED <<foundation, objects, pass, running, build, faults>>

Cluster ==
  \/ (\E s \in Statuses : Publish(s))
  \/ (\E n \in SecretNames : SecretAppears(n))
  \/ Rotate \/ SecretFollows
  \/ (\E m \in Microservices : PodStarts(m) \/ PodDies(m) \/ Ask(m))

Next == Operator \/ Cluster

Spec == Init /\ [][Next]_vars

(* Passes come again and go on, the Secret is brought up to date, pods are *)
(* started, and the requests of a client that keeps asking are spread over *)
(* all the pods the Service selects.  Nobody need publish anything.        *)
Fairness ==
  /\ WF_vars(Operator)
  /\ WF_vars(SecretFollows)
  /\ WF_vars(\E m \in Microservices : PodStarts(m))
  /\ SF_vars(Ask("demoserver"))

FairSpec == Spec /\ Fairness

----------------------------------------------------------------------------
EsCalls    == {"auth", "ca"} \cup Indices
MicroCalls == {"deployment", "service", "route"}

Environments ==
  {Env(m, s) : m \in Microservices, s \in {t \in Statuses : TLSEndpoint(t) # None}}

ASSUME NoneAssumption == None \notin Environments

TypeOK ==
  /\ status \in Statuses
  /\ secrets \subseteq SecretNames
  /\ password \in 0..Rotations
  /\ secretSays \in 0..Rotations
  /\ indices \subseteq Indices
  /\ source \in {None, ""} \cup {PlainServers(s) : s \in Statuses}
  /\ env \in [Microservices -> {None} \cup Environments]
  /\ services \subseteq Microservices
  /\ routes \subseteq Microservices
  /\ pc \in {"idle", "source", "status"} \cup EsCalls \cup MicroCalls
  /\ IF pc \in EsCalls \cup MicroCalls THEN read \in Statuses ELSE read = None
  /\ IF pc \in EsCalls \ {"auth"} THEN sent \in 0..Rotations ELSE sent = None
  /\ micro \in Microservices
  /\ running \subseteq Microservices
  /\ answered \in BOOLEAN
  /\ useKnative \in BOOLEAN
  /\ pointers \in BOOLEAN
  /\ faults \in 0..Faults

Named(n) == {e \in UNION {Range(KafkaEndpoints(s)) : s \in Statuses} : e.name = n}

InternalOf(s) == {e \in Range(s.es) : e.scope = "Internal"}

\* The Elasticsearch password goes to an internal endpoint only, and if the
\* status has just one of them, together with that endpoint's own secrets:
\* whatever endpoints come and go while the secrets are read.
CredentialsStayInside ==
  pc \in Indices =>
    \E e \in InternalOf(read) :
      /\ EsInfo(read).uri = e.uri
      /\ InternalOf(read) = {e} => EsInfo(read).auth = e.auth /\ EsInfo(read).ca = e.ca

\* What stands of the steps of a pass that leave something behind, numbered in
\* the order of Reconcile.
Built ==
  {s \in 1..9 :
     \/ s = 1 /\ "raw" \in indices
     \/ s = 2 /\ "anomaly" \in indices
     \/ s = 3 /\ source # None
     \/ s = 4 /\ env["demoproducer"] # None
     \/ s = 5 /\ "demoproducer" \in services
     \/ s = 6 /\ "demoproducer" \in routes
     \/ s = 7 /\ env["demoserver"] # None
     \/ s = 8 /\ "demoserver" \in services
     \/ s = 9 /\ "demoserver" \in routes}

Promise == INSTANCE Provisioning
  WITH Steps <- 1..9, Gates <- {}, Skippable <- {3}, built <- Built, reported <- {}

\* Whatever Elasticsearch answered and whenever a pass was broken off, each of
\* them is set up once those before it are, as module Provisioning promises:
\* nothing that reads or writes what the indices hold before both indices are
\* there with their mappings, no Route before what it leads to.  Only the
\* KafkaSource may be left out.
Provisioning == Promise!Spec

\* The microservices, which are made for TLS and SCRAM, are given a TLS
\* listener with that listener's own secrets, and the KafkaSource, which has
\* neither, a plain listener or none.
ListenersMatch ==
  /\ \A m \in Microservices :
       env[m] # None =>
         \E e \in Named("internal-service-tls") :
           env[m].servers = e.servers /\ env[m].auth = e.auth /\ env[m].ca = e.ca
  /\ source \in {None, ""} \cup {e.servers : e \in Named("internal-service-plain")}

\* A status that names one internal endpoint with its credentials, and a TLS
\* listener with its secrets.
Complete(s) ==
  /\ EsInfo(s) \in EsEndpoints(s)
  /\ EsInfo(s).uri # None /\ EsInfo(s).auth # None
  /\ TLSEndpoint(s) # None
  /\ TLSEndpoint(s).auth # None /\ TLSEndpoint(s).ca # None

Published == <>[](Complete(status) /\ secrets = SecretNames)

\* Once the foundation goes on publishing a complete status and its secrets,
\* all that the passes get to is set up in the end, for good, although the
\* password changed, requests were refused and repeated, and the operator died.
Connected ==
  Published =>
    <>[](IF useKnative THEN source # None
         ELSE /\ services = Microservices
              /\ routes = Microservices
              /\ \A m \in Microservices : env[m] # None)

\* "automatically creates a deployment, service, and a route using the very
\* simple server": a client that keeps asking the server's Route is answered in
\* the end, although its requests also go to the producer's pod.
ServerAnswers == Published /\ ~useKnative => <>answered

\* The producer's pod comes up in the end, for good, although pods die and the
\* secrets come after the Deployment: unless that was made, once and for all,
\* from a listener that had no credentials yet.
ProducerRuns ==
  Published /\ ~useKnative =>
    <>[](/\ env["demoproducer"] # None
         /\ env["demoproducer"].auth = None \/ "demoproducer" \in running)
=============================================================================
