------------------------------- MODULE Reconciler -------------------------------
(***************************************************************************)
(* The demo-cartridge operator: the Reconcile function of                  *)
(* controllers/iafdemo_controller.go with every function it calls, the     *)
(* controller-runtime machinery that calls it (one worker, a work queue,   *)
(* delayed requeues, an informer cache that lags behind the API server,    *)
(* the periodic resync) and the cluster around it (users, the operators    *)
(* that turn the foundation Ready, the garbage collector).                 *)
(*                                                                         *)
(* A pass of Reconcile is a walk along numbered stages, one for each       *)
(* object it looks up and creates.  Each call on the cluster is a step of  *)
(* its own, so everything else may happen between two of them.             *)
(***************************************************************************)
EXTENDS Integers, FiniteSets

CONSTANTS
  CRs,         \* the IAFDemo resources users may create, one life each
  Doomed,      \* the ones users may delete
  NoCR,        \* the worker is idle; an object without a controller
  UseKnative,  \* the operator's USE_KNATIVE setting
  Plan,        \* bound: the stages of this instance, 1..19 for all of them
  MaxFaults,   \* bound: adverse events (errors, crashes, deletions) in a run
  MaxLag,      \* bound: objects the cache may be behind on at any time
  FIFOCollector \* bound: orphans are collected in the order of the stages

----------------------------------------------------------------------------
(* The stages of a pass, in the order of Reconcile. *)

Cartridge             == 1
AutomationBase        == 2
CartridgeRequirements == 3
AIDeployment          == 4
RawTopic              == 5
AnomalyTopic          == 6
EventProcessor        == 7
RawIndex              == 8
AnomalyIndex          == 9
EventProcessingTask   == 10
KafkaSource           == 11
InMemoryChannel       == 12
Subscription          == 13
ProducerDeployment    == 14
ProducerService       == 15
ProducerRoute         == 16
ServerDeployment      == 17
ServerService         == 18
ServerRoute           == 19

Stages     == 1..19
Gates      == {Cartridge, AutomationBase, CartridgeRequirements}
Topics     == {RawTopic, AnomalyTopic}
Indices    == {RawIndex, AnomalyIndex}
Knative    == {KafkaSource, InMemoryChannel, Subscription}
Objects    == Stages \ Indices

\* Kinds the client's scheme lacks: operator.go registers messaging/v1,
\* reconcile_knative.go uses messaging/v1beta1.
Unregistered == {InMemoryChannel, Subscription}

\* The stages whose function begins by reading CartridgeRequirements' status.
NeedsInfo == {RawIndex, KafkaSource, ProducerDeployment, ServerDeployment}

\* The stages Reconcile walks through: the Knative piece is behind a setting.
Walk == IF UseKnative THEN Plan ELSE Plan \ Knative

After(i) == {j \in Walk : i < j}

NextStage(i) == CHOOSE j \in After(i) : \A k \in After(i) : j <= k

\* What a pass must carry out: failures of the AI stage are only logged.
Mandatory == Walk \ {AIDeployment}

ASSUME ReconcilerAssumption ==
  /\ NoCR \notin CRs
  /\ Doomed \subseteq CRs
  /\ UseKnative \in BOOLEAN
  /\ Plan \subseteq Stages
  /\ {Cartridge, CartridgeRequirements} \subseteq Plan
  /\ MaxFaults \in Nat
  /\ MaxLag \in Nat \ {0}
  /\ FIFOCollector \in BOOLEAN

\* The first call that stage i makes.
Entry(i) ==
  IF i \in NeedsInfo THEN "info"
  ELSE IF i = AIDeployment THEN "ai"
  ELSE IF i \in Indices THEN "put"
  ELSE "get"

----------------------------------------------------------------------------
VARIABLES
  crs,         \* the IAFDemo resources in the API server
  crCache,     \* the same, as the informer last saw them
  exists,      \* the objects in the API server
  owner,       \* the controller reference of each object
  ready,       \* the gates whose Ready condition is True
  indices,     \* the Elasticsearch indices
  aiPending,   \* the AIDeployment has no final Ready condition yet
  cached,      \* the objects in the informer cache
  cachedReady, \* the gates that are Ready in the informer cache
  queue,       \* the keys in the work queue
  timers,      \* the keys waiting for a delayed requeue
  who,         \* the CR of the running pass
  stage, at,   \* the stage it is in, and the call it makes next
  settled,     \* the CRs whose last pass ended without a requeue
  born,        \* history: every stage ever carried out
  wasReady,    \* history: every gate that was ever Ready
  faults       \* adverse events so far

cluster == <<crs, exists, owner, ready, indices, aiPending, born, wasReady>>
cache   == <<crCache, cached, cachedReady>>
work    == <<queue, timers, settled>>
pass    == <<who, stage, at>>
vars    == <<cluster, cache, work, pass, faults>>

Life == {"absent", "live", "deleted"}

TypeOK ==
  /\ crs \in [CRs -> Life]
  /\ crCache \in [CRs -> Life]
  /\ exists \subseteq Objects
  /\ owner \in [Objects -> CRs \cup {NoCR}]
  /\ ready \subseteq Gates
  /\ indices \subseteq Indices
  /\ aiPending \in BOOLEAN
  /\ cached \subseteq Objects
  /\ cachedReady \subseteq Gates
  /\ queue \subseteq CRs
  /\ timers \subseteq CRs
  /\ who \in CRs \cup {NoCR}
  /\ stage \in Walk
  /\ at \in {"get", "create", "check", "info", "put", "ai"}
  /\ settled \subseteq CRs
  /\ born \subseteq Walk
  /\ wasReady \subseteq Gates \cap Walk
  /\ faults \in 0..MaxFaults

Init ==
  /\ crs = [c \in CRs |-> "absent"]
  /\ crCache = [c \in CRs |-> "absent"]
  /\ exists = {}
  /\ owner = [i \in Objects |-> NoCR]
  /\ ready = {}
  /\ indices = {}
  /\ aiPending = FALSE
  /\ cached = {}
  /\ cachedReady = {}
  /\ queue = {}
  /\ timers = {}
  /\ who = NoCR
  /\ stage = Cartridge
  /\ at = "get"
  /\ settled = {}
  /\ born = {}
  /\ wasReady = {}
  /\ faults = 0

----------------------------------------------------------------------------
(* How a pass begins, goes on and ends. *)

Fault ==
  /\ faults < MaxFaults
  /\ faults' = faults + 1

\* The objects the cache is behind on; MaxLag bounds them.
Stale ==
  {i \in Objects : \/ (i \in cached) # (i \in exists)
                   \/ (i \in cachedReady) # (i \in ready)}

MayLag == Cardinality(Stale) < MaxLag

GoIdle ==
  /\ who' = NoCR
  /\ stage' = Cartridge
  /\ at' = "get"

RequeueForgotten ==  \* mutant: no RequeueAfter in the result
  /\ GoIdle
  /\ UNCHANGED work

RequeueCleared ==  \* mutant: the key is read after the pass was cleared
  /\ GoIdle
  /\ timers' = timers \cup {who'}
  /\ UNCHANGED <<queue, settled>>

\* return RequeueAfter: retryWaitTime, or an error (a rate-limited requeue).
Requeue ==
  /\ GoIdle
  /\ timers' = timers \cup {who}
  /\ UNCHANGED <<queue, settled>>

\* return ctrl.Result{}, nil at the end of Reconcile.
Finish ==
  /\ GoIdle
  /\ settled' = settled \cup {who}
  /\ UNCHANGED <<queue, timers>>

Goto(i, call) ==
  /\ stage' = i
  /\ at' = call
  /\ UNCHANGED <<who, work>>

Advance ==
  IF After(stage) = {} THEN Finish
  ELSE Goto(NextStage(stage), Entry(NextStage(stage)))

\* The object of this stage is there: gates and topics are read once more.
Present ==
  IF stage \in Gates \cup Topics THEN Goto(stage, "check") ELSE Advance

\* The worker takes a key; a CR that is gone is dropped without a requeue.
Begin(c) ==
  /\ who = NoCR
  /\ c \in queue
  /\ queue' = queue \ {c}
  /\ settled' = settled \ {c}
  /\ IF crCache[c] = "live"
     THEN /\ who' = c
          /\ stage' = Cartridge
          /\ at' = Entry(Cartridge)
     ELSE UNCHANGED pass
  /\ UNCHANGED <<timers, cluster, cache, faults>>

----------------------------------------------------------------------------
(* The calls of a pass. *)

AtCall(i, call) == who # NoCR /\ stage = i /\ at = call

FailIgnored(i) ==  \* mutant: an error is logged and the pass goes on
  /\ who # NoCR
  /\ stage = i
  /\ i # AIDeployment
  /\ Fault
  /\ Advance
  /\ UNCHANGED <<cluster, cache>>

\* Any call may return an error, which ends the pass.
Fail(i) ==
  /\ who # NoCR
  /\ stage = i
  /\ i # AIDeployment
  /\ Fault
  /\ Requeue
  /\ UNCHANGED <<cluster, cache>>

GetObject(i) ==
  /\ AtCall(i, "get")
  /\ i \notin Unregistered
  /\ IF i \in cached THEN Present ELSE Goto(i, "create")
  /\ UNCHANGED <<cluster, cache, faults>>

\* The client has no such kind, so the lookup is an error other than NotFound.
GetUnregistered(i) ==
  /\ AtCall(i, "get")
  /\ i \in Unregistered
  /\ Requeue
  /\ UNCHANGED <<cluster, cache, faults>>

StoreUnowned(i) ==  \* mutant: no SetControllerReference
  /\ MayLag
  /\ exists' = exists \cup {i}
  /\ owner' = [owner EXCEPT ![i] = NoCR]
  /\ born' = born \cup {i}

Store(i) ==
  /\ MayLag
  /\ exists' = exists \cup {i}
  /\ owner' = [owner EXCEPT ![i] = who]
  /\ born' = born \cup {i}

CreateObject(i) ==
  /\ AtCall(i, "create")
  /\ i \notin exists
  /\ Store(i)
  /\ Present
  /\ UNCHANGED <<crs, ready, indices, aiPending, wasReady, cache, faults>>

\* The cache was behind: AlreadyExists is an error like any other here.
CreateConflict(i) ==
  /\ AtCall(i, "create")
  /\ i \in exists
  /\ Requeue
  /\ UNCHANGED <<cluster, cache, faults>>

\* The API server creates the object but its answer is lost.
CreateUnanswered(i) ==
  /\ AtCall(i, "create")
  /\ i \notin exists
  /\ Fault
  /\ Store(i)
  /\ Requeue
  /\ UNCHANGED <<crs, ready, indices, aiPending, wasReady, cache>>

\* Look up or create, the body every stage with an object shares.
Ensure(i) ==
  \/ GetObject(i)
  \/ CreateObject(i)
  \/ CreateConflict(i)
  \/ CreateUnanswered(i)
  \/ Fail(i)

CheckPresence(i) ==  \* mutant: the Ready condition is not looked at
  /\ AtCall(i, "check")
  /\ IF i \in cached THEN Advance ELSE Requeue
  /\ UNCHANGED <<cluster, cache, faults>>

CheckUnlessMissing(i) ==  \* mutant: an object not found is not waited for
  /\ AtCall(i, "check")
  /\ IF i \in cached => i \in cachedReady THEN Advance ELSE Requeue
  /\ UNCHANGED <<cluster, cache, faults>>

\* An object not in the cache yet is an error, one not Ready is waited for:
\* both come back later.
CheckReady(i) ==
  /\ AtCall(i, "check")
  /\ IF i \in cached /\ i \in cachedReady THEN Advance ELSE Requeue
  /\ UNCHANGED <<cluster, cache, faults>>

CheckTopic(i) ==
  /\ AtCall(i, "check")
  /\ IF i \in cached THEN Advance ELSE Requeue
  /\ UNCHANGED <<cluster, cache, faults>>

ReadInfoOrStop(i, call) ==  \* mutant: NotFound ends the pass for good
  /\ AtCall(i, "info")
  /\ IF CartridgeRequirements \in cached THEN Goto(i, call) ELSE Finish
  /\ UNCHANGED <<cluster, cache, faults>>

\* The status of CartridgeRequirements, without looking at its Ready condition.
ReadInfo(i, call) ==
  /\ AtCall(i, "info")
  /\ IF CartridgeRequirements \in cached THEN Goto(i, call) ELSE Requeue
  /\ UNCHANGED <<cluster, cache, faults>>

StoreIndex(i) ==
  /\ indices' = indices \cup {i}
  /\ born' = born \cup {i}
  /\ UNCHANGED <<crs, exists, owner, ready, aiPending, wasReady>>

PutNewIndex(i) ==  \* mutant: an index that exists is an error
  /\ AtCall(i, "put")
  /\ StoreIndex(i)
  /\ IF i \in indices THEN Requeue ELSE Advance
  /\ UNCHANGED <<cache, faults>>

\* An index that exists already is as good as a new one.
PutIndex(i) ==
  /\ AtCall(i, "put")
  /\ StoreIndex(i)
  /\ Advance
  /\ UNCHANGED <<cache, faults>>

\* The request is carried out, but its answer comes after the ten seconds.
PutTimedOut(i) ==
  /\ AtCall(i, "put")
  /\ Fault
  /\ StoreIndex(i)
  /\ Requeue
  /\ UNCHANGED cache

----------------------------------------------------------------------------
(* The functions Reconcile calls, one action each. *)

AwaitReady(i) == Ensure(i) \/ CheckReady(i)

CreateCartridge             == AwaitReady(Cartridge)
CreateAutomationBase        == AwaitReady(AutomationBase)
CreateCartridgeRequirements == AwaitReady(CartridgeRequirements)

\* A deployment that has just been created, or has no verdict yet, is waited
\* for; any other outcome, an error included, lets the pass go on.
DeployModel ==
  /\ AtCall(AIDeployment, "ai")
  /\ AIDeployment \notin cached
  /\ IF AIDeployment \in exists
     THEN UNCHANGED <<exists, owner, born, aiPending>>
     ELSE Store(AIDeployment) /\ aiPending' = TRUE
  /\ Requeue
  /\ UNCHANGED <<crs, ready, indices, wasReady, cache, faults>>

DeployUnanswered ==
  /\ AtCall(AIDeployment, "ai")
  /\ AIDeployment \notin cached \cup exists
  /\ Fault
  /\ Store(AIDeployment)
  /\ aiPending' = TRUE
  /\ Advance
  /\ UNCHANGED <<crs, ready, indices, wasReady, cache>>

AwaitModel ==
  /\ AtCall(AIDeployment, "ai")
  /\ AIDeployment \in cached
  /\ IF aiPending THEN Requeue ELSE Advance
  /\ UNCHANGED <<cluster, cache, faults>>

\* A missing secret, MinIO out of reach, a failed upload: logged, no more.
GiveUpOnAI ==
  /\ AtCall(AIDeployment, "ai")
  /\ Advance
  /\ UNCHANGED <<cluster, cache, faults>>

SetupAIModels == DeployModel \/ DeployUnanswered \/ AwaitModel \/ GiveUpOnAI

CreateEventStream == \E t \in Topics : Ensure(t) \/ CheckTopic(t)

ReconcileEventProcessor == Ensure(EventProcessor)

InitializeElasticsearchIndices ==
  \/ ReadInfo(RawIndex, "put")
  \/ \E i \in Indices : PutIndex(i) \/ PutTimedOut(i) \/ Fail(i)

ReconcileEventProcessingTask == Ensure(EventProcessingTask)

ReconcileKnative ==
  \/ ReadInfo(KafkaSource, "get")
  \/ \E i \in Knative : Ensure(i) \/ GetUnregistered(i)

ReconcileMicroservice(objects) ==
  \E i \in objects : ReadInfo(i, "get") \/ Ensure(i)

Worker ==
  \/ CreateCartridge
  \/ CreateAutomationBase
  \/ CreateCartridgeRequirements
  \/ SetupAIModels
  \/ CreateEventStream
  \/ ReconcileEventProcessor
  \/ InitializeElasticsearchIndices
  \/ ReconcileEventProcessingTask
  \/ ReconcileKnative
  \/ ReconcileMicroservice(ProducerDeployment..ProducerRoute)
  \/ ReconcileMicroservice(ServerDeployment..ServerRoute)

----------------------------------------------------------------------------
(* controller-runtime: events, timers, resync, the cache, a restart. *)

ObserveCR(c) ==
  /\ crCache[c] # crs[c]
  /\ crCache' = [crCache EXCEPT ![c] = crs[c]]
  /\ queue' = queue \cup {c}
  /\ UNCHANGED <<cached, cachedReady, timers, settled, cluster, pass, faults>>

TimerFires(c) ==
  /\ c \in timers
  /\ timers' = timers \ {c}
  /\ queue' = queue \cup {c}
  /\ UNCHANGED <<settled, cluster, cache, pass, faults>>

\* Every ten hours the informer delivers all it knows once more.
Resync(c) ==
  /\ crCache[c] = "live"
  /\ c \notin queue
  /\ queue' = queue \cup {c}
  /\ UNCHANGED <<timers, settled, cluster, cache, pass, faults>>

SyncCache(i) ==
  /\ i \in Stale
  /\ cached' = (cached \ {i}) \cup ({i} \cap exists)
  /\ cachedReady' = (cachedReady \ {i}) \cup ({i} \cap ready)
  /\ UNCHANGED <<crCache, work, cluster, pass, faults>>

\* The pod dies and comes back: fresh caches, every CR queued, timers gone.
Restart ==
  /\ Fault
  /\ GoIdle
  /\ crCache' = crs
  /\ cached' = exists
  /\ cachedReady' = ready
  /\ queue' = {c \in CRs : crs[c] = "live"}
  /\ timers' = {}
  /\ settled' = {}
  /\ UNCHANGED cluster

----------------------------------------------------------------------------
(* The cluster: users, the operators behind the gates, the collector. *)

CreateCR(c) ==
  /\ crs[c] = "absent"
  /\ crs' = [crs EXCEPT ![c] = "live"]
  /\ UNCHANGED <<exists, owner, ready, indices, aiPending, born, wasReady>>
  /\ UNCHANGED <<cache, work, pass, faults>>

DeleteCR(c) ==
  /\ c \in Doomed
  /\ crs[c] = "live"
  /\ crs' = [crs EXCEPT ![c] = "deleted"]
  /\ UNCHANGED <<exists, owner, ready, indices, aiPending, born, wasReady>>
  /\ UNCHANGED <<cache, work, pass, faults>>

BecomeReady(i) ==
  /\ i \in Gates \cap exists
  /\ i \notin ready
  /\ MayLag
  /\ ready' = ready \cup {i}
  /\ wasReady' = wasReady \cup {i}
  /\ UNCHANGED <<crs, exists, owner, indices, aiPending, born>>
  /\ UNCHANGED <<cache, work, pass, faults>>

BecomeUnready(i) ==
  /\ i \in ready
  /\ MayLag
  /\ Fault
  /\ ready' = ready \ {i}
  /\ UNCHANGED <<crs, exists, owner, indices, aiPending, born, wasReady>>
  /\ UNCHANGED <<cache, work, pass>>

AISettle ==
  /\ AIDeployment \in exists
  /\ aiPending
  /\ aiPending' = FALSE
  /\ UNCHANGED <<crs, exists, owner, ready, indices, born, wasReady>>
  /\ UNCHANGED <<cache, work, pass, faults>>

Remove(i) ==
  /\ i \in exists
  /\ MayLag
  /\ exists' = exists \ {i}
  /\ owner' = [owner EXCEPT ![i] = NoCR]
  /\ ready' = ready \ {i}
  /\ UNCHANGED <<crs, indices, aiPending, born, wasReady>>
  /\ UNCHANGED <<cache, work, pass>>

\* A user deletes an object of the demo by hand.
DeleteObject(i) == Fault /\ Remove(i)

Orphan(i) == \E c \in CRs : owner[i] = c /\ crs[c] = "deleted"

CollectGarbage(i) ==
  /\ Orphan(i)
  /\ FIFOCollector => \A j \in Objects : Orphan(j) => i <= j
  /\ Remove(i)
  /\ UNCHANGED faults

----------------------------------------------------------------------------
Manager ==
  \/ \E c \in CRs : Begin(c) \/ ObserveCR(c) \/ TimerFires(c) \/ Resync(c)
  \/ \E i \in Objects : SyncCache(i)
  \/ Restart

Cluster ==
  \/ \E c \in CRs : CreateCR(c) \/ DeleteCR(c)
  \/ \E i \in Objects : \/ BecomeReady(i)
                        \/ BecomeUnready(i)
                        \/ DeleteObject(i)
                        \/ CollectGarbage(i)
  \/ AISettle

Next == Worker \/ Manager \/ Cluster

Spec == Init /\ [][Next]_vars

(* The worker's pass goes on; the work queue is first-in first-out, so a   *)
(* key it holds is taken in the end; timers fire, watches deliver, the     *)
(* foundation's operators and the collector do their work.                 *)
Fairness ==
  /\ WF_vars(Worker)
  /\ \A c \in CRs : /\ SF_vars(Begin(c))
                    /\ WF_vars(ObserveCR(c))
                    /\ WF_vars(TimerFires(c))
                    /\ WF_vars(Resync(c))
  /\ WF_vars(\E i \in Objects : SyncCache(i))
  /\ WF_vars(\E i \in Objects : BecomeReady(i))
  /\ WF_vars(\E i \in Objects : CollectGarbage(i))
  /\ WF_vars(AISettle)

FairSpec == Spec /\ Fairness

----------------------------------------------------------------------------
(* Safety. *)

\* A stage is only carried out when every stage it builds upon has been,
\* whatever errors, conflicts, stale reads and restarts the passes met:
\* no early return of Reconcile is missing.
InOrder ==
  \A i \in born : \A j \in Mandatory : j < i => j \in born

\* Nothing that stands behind the Cartridge, the AutomationBase or the
\* CartridgeRequirements is created before that resource has been Ready.
ReadyBefore ==
  \A i \in born : \A g \in Gates \cap Walk : g < i => g \in wasReady

\* A CR the operator knows of is queued, waits for a timer, is being
\* reconciled, or had its last pass run to the end: no return of Reconcile
\* forgets it.
NoLostWakeup ==
  \A c \in CRs : crCache[c] = "live" =>
    c \in queue \cup timers \cup settled \cup {who}

\* When a pass ends with "reconcile ... SUCESS", every stage that Reconcile
\* does not tolerate the failure of has been carried out.
SuccessMeansDone == settled # {} => Mandatory \subseteq born

\* The scenario is provisioned in the order module Provisioning promises.
Promise == INSTANCE Provisioning
  WITH Steps <- Walk, Gates <- Gates \cap Walk, Skippable <- {AIDeployment},
       built <- born, reported <- wasReady

Provisioning == Promise!Spec

----------------------------------------------------------------------------
(* Liveness. *)

\* The stages a pass gets to: it never gets past a kind the client lacks.
Reachable == {i \in Mandatory : \A u \in Unregistered \cap Walk : i < u}

Complete == Reachable \subseteq exists \cup indices

\* As long as some CR stays, all of the demo that its passes get to is there in
\* the end and stays there, also when another CR that owned it is deleted.
Provisioned ==
  \A c \in CRs : <>[](crs[c] = "live") => <>[]Complete

\* "Owned objects are automatically garbage collected": with the last live CR
\* every object the operator created goes too, the ones of a pass that was
\* still running included.
CleanTeardown ==
  <>[](\A c \in CRs : crs[c] # "live") => <>[](exists = {})

\* With USE_KNATIVE=true the Knative connection is created (DEVELOPMENT.md).
KnativeConnected ==
  \A c \in CRs : <>[](crs[c] = "live") => <>(Knative \cap Walk \subseteq exists)
=============================================================================
