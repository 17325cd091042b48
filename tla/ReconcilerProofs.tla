----------------------------- MODULE ReconcilerProofs -----------------------------
(***************************************************************************)
(* Proofs about module Reconciler, for every set of CRs, every choice of   *)
(* the stages, with and without Knative and for every bound.               *)
(***************************************************************************)
EXTENDS Reconciler, TLAPS

(* What the cluster part of the state says: nothing is there, or cached,   *)
(* that was not created in its turn.                                       *)
Backed ==
  /\ exists \cup indices \cup cached \subseteq born
  /\ ready \cup cachedReady \subseteq wasReady

(* A running pass has left behind it every stage it must carry out, and    *)
(* every gate it passed was Ready at some time.                            *)
InPass ==
  who # NoCR =>
    /\ \A j \in Mandatory : j < stage => j \in born
    /\ \A g \in Gates \cap Walk : g < stage => g \in wasReady

Calls == {"get", "create", "check", "info", "put", "ai"}

(* The inductive invariant, in the two halves a step changes one by one:   *)
(* the worker with its queue, and the cluster with its cache.              *)
PassInv ==
  /\ queue \subseteq CRs
  /\ timers \subseteq CRs
  /\ settled \subseteq CRs
  /\ who \in CRs \cup {NoCR}
  /\ stage \in Walk
  /\ at \in Calls
  /\ InPass
  /\ NoLostWakeup
  /\ SuccessMeansDone

ClusterInv ==
  /\ crs \in [CRs -> Life]
  /\ crCache \in [CRs -> Life]
  /\ exists \subseteq Objects
  /\ owner \in [Objects -> CRs \cup {NoCR}]
  /\ ready \subseteq Gates
  /\ indices \subseteq Indices
  /\ aiPending \in BOOLEAN
  /\ cached \subseteq Objects
  /\ cachedReady \subseteq Gates
  /\ born \subseteq Walk
  /\ wasReady \subseteq Gates \cap Walk
  /\ faults \in 0..MaxFaults
  /\ Backed
  /\ InOrder
  /\ ReadyBefore

IInv == PassInv /\ ClusterInv

----------------------------------------------------------------------------
(* The stages. *)

\* The stages walked through are numbers between 1 and 19, the Cartridge first.
LEMMA WalkStages ==
  /\ Walk \subseteq 1..19
  /\ Walk \subseteq Int
  /\ Cartridge \in Walk
  /\ Mandatory \subseteq Walk
<1>. USE ReconcilerAssumption
<1>1. Walk \subseteq 1..19
  BY DEF Walk, Stages
<1>2. Cartridge \in Walk
  BY DEF Walk, Knative, Cartridge, KafkaSource, InMemoryChannel, Subscription
<1>3. Mandatory \subseteq Walk
  BY DEF Mandatory
<1>4. Walk \subseteq Int
  BY <1>1
<1>. QED BY <1>1, <1>2, <1>3, <1>4

\* Some stage is the least of those after i.
LEMMA LeastAfter ==
  ASSUME NEW i \in Walk, After(i) # {}
  PROVE \E j \in After(i) : \A k \in After(i) : j <= k
<1>1. After(i) \subseteq 1..19
  BY WalkStages DEF After
<1>. QED BY <1>1

\* NextStage skips no stage of the walk.
LEMMA NextStageLeast ==
  ASSUME NEW i \in Walk, After(i) # {}
  PROVE /\ NextStage(i) \in Walk
        /\ i < NextStage(i)
        /\ \A j \in Walk : j < NextStage(i) => j <= i
<1>1. /\ NextStage(i) \in After(i)
      /\ \A k \in After(i) : NextStage(i) <= k
  BY LeastAfter DEF NextStage
<1>2. NextStage(i) \in Walk /\ i < NextStage(i)
  BY <1>1 DEF After
<1>3. ASSUME NEW j \in Walk, j < NextStage(i)
      PROVE j <= i
  <2>1. i \in Int /\ j \in Int /\ NextStage(i) \in Int
    BY <1>2, WalkStages
  <2>2. j \in After(i) => NextStage(i) <= j
    BY <1>1
  <2>. QED BY <1>3, <2>1, <2>2 DEF After
<1>. QED BY <1>2, <1>3

----------------------------------------------------------------------------
(* What a step may do to the worker. *)

\* A pass that comes back later leaves its CR in the timers.
LEMMA RequeueKeeps ==
  ASSUME PassInv, who # NoCR, Requeue, UNCHANGED crCache, born \subseteq born'
  PROVE PassInv'
<1>. USE DEF PassInv, Requeue, GoIdle
<1>1. /\ queue' \subseteq CRs /\ timers' \subseteq CRs /\ settled' \subseteq CRs
      /\ who' \in CRs \cup {NoCR} /\ stage' \in Walk /\ at' \in Calls
  BY WalkStages DEF Calls
<1>2. InPass'
  BY DEF InPass
<1>3. NoLostWakeup'
  BY DEF NoLostWakeup
<1>4. SuccessMeansDone'
  BY DEF SuccessMeansDone
<1>. QED BY <1>1, <1>2, <1>3, <1>4

\* A call within the same stage.
LEMMA GotoKeeps ==
  ASSUME PassInv, who # NoCR, NEW call \in Calls, Goto(stage, call),
         UNCHANGED crCache, born \subseteq born', wasReady \subseteq wasReady'
  PROVE PassInv'
<1>. USE DEF PassInv, Goto, work
<1>1. InPass'
  BY DEF InPass
<1>2. NoLostWakeup'
  BY DEF NoLostWakeup
<1>3. SuccessMeansDone'
  BY DEF SuccessMeansDone
<1>. QED BY <1>1, <1>2, <1>3

\* Going on to the next stage, or to the end, when this one is done.
LEMMA AdvanceKeeps ==
  ASSUME PassInv, who # NoCR, Advance, UNCHANGED crCache,
         born \subseteq born', wasReady \subseteq wasReady',
         stage \in Mandatory => stage \in born',
         stage \in Gates => stage \in wasReady'
  PROVE PassInv'
<1>. USE DEF PassInv
<1>1. CASE After(stage) = {}
  <2>. USE <1>1 DEF Advance, Finish, GoIdle
  <2>1. /\ queue' \subseteq CRs /\ timers' \subseteq CRs /\ settled' \subseteq CRs
        /\ who' \in CRs \cup {NoCR} /\ stage' \in Walk /\ at' \in Calls
    BY WalkStages DEF Calls
  <2>2. InPass'
    BY DEF InPass
  <2>3. NoLostWakeup'
    BY DEF NoLostWakeup
  <2>4. Mandatory \subseteq born'
    <3>1. ASSUME NEW j \in Mandatory PROVE j <= stage
      BY <1>1, WalkStages DEF After
    <3>2. ASSUME NEW j \in Mandatory, j < stage PROVE j \in born'
      BY <3>2 DEF InPass
    <3>. QED BY <3>1, <3>2, WalkStages
  <2>5. SuccessMeansDone'
    BY <2>4 DEF SuccessMeansDone
  <2>. QED BY <2>1, <2>2, <2>3, <2>5
<1>2. CASE After(stage) # {}
  <2>. DEFINE next == NextStage(stage)
  <2>1. /\ next \in Walk
        /\ \A j \in Walk : j < next => j <= stage
    BY <1>2, NextStageLeast
  <2>2. Goto(next, Entry(next))
    BY <1>2 DEF Advance
  <2>3. ASSUME NEW j \in Walk, j < next PROVE j < stage \/ j = stage
    BY <2>1, <2>3, WalkStages
  <2>4. InPass'
    <3>1. ASSUME NEW j \in Mandatory, j < next PROVE j \in born'
      BY <2>3, <3>1, WalkStages DEF InPass
    <3>2. ASSUME NEW g \in Gates \cap Walk, g < next PROVE g \in wasReady'
      BY <2>3, <3>2 DEF InPass
    <3>. QED BY <2>2, <3>1, <3>2 DEF InPass, Goto
  <2>5. NoLostWakeup'
    BY <2>2 DEF NoLostWakeup, Goto, work
  <2>6. SuccessMeansDone'
    BY <2>2 DEF SuccessMeansDone, Goto, work
  <2>7. at' \in Calls
    BY <2>2 DEF Goto, Entry, Calls
  <2>. QED BY <2>1, <2>2, <2>4, <2>5, <2>6, <2>7 DEF Goto, work
<1>. QED BY <1>1, <1>2

\* The end of a lookup or a creation: a second look, or on to the next stage.
LEMMA PresentKeeps ==
  ASSUME PassInv, who # NoCR, Present, UNCHANGED crCache,
         born \subseteq born', wasReady \subseteq wasReady',
         stage \in born'
  PROVE PassInv'
<1>1. CASE stage \in Gates \cup Topics
  BY <1>1, GotoKeeps DEF Present, Calls
<1>2. CASE stage \notin Gates \cup Topics
  BY <1>2, AdvanceKeeps DEF Present
<1>. QED BY <1>1, <1>2

----------------------------------------------------------------------------
(* What a step of the worker may do to the cluster. *)

\* Nothing at all, but an adverse event may be counted.
LEMMA SameCluster ==
  ASSUME ClusterInv, UNCHANGED <<cluster, cache>>, faults' \in 0..MaxFaults
  PROVE ClusterInv'
BY DEF ClusterInv, cluster, cache, Backed, InOrder, ReadyBefore

LEMMA FaultCounted ==
  ASSUME ClusterInv, Fault
  PROVE faults' \in 0..MaxFaults
BY ReconcilerAssumption DEF ClusterInv, Fault

\* The stage the pass is in may be carried out: all before it has been.
LEMMA BornKeeps ==
  ASSUME PassInv, ClusterInv, who # NoCR,
         born' = born \cup {stage}, UNCHANGED wasReady
  PROVE InOrder' /\ ReadyBefore' /\ born' \subseteq Walk
<1>1. InOrder'
  BY DEF PassInv, ClusterInv, InPass, InOrder
<1>2. ReadyBefore'
  BY DEF PassInv, ClusterInv, InPass, ReadyBefore
<1>. QED BY <1>1, <1>2 DEF PassInv, ClusterInv

\* An object is created in its turn.
LEMMA StoreKeeps ==
  ASSUME PassInv, ClusterInv, who # NoCR, stage \in Objects, Store(stage),
         aiPending' \in BOOLEAN, faults' \in 0..MaxFaults,
         UNCHANGED <<crs, ready, indices, wasReady, cache>>
  PROVE ClusterInv'
<1>1. InOrder' /\ ReadyBefore' /\ born' \subseteq Walk
  BY BornKeeps DEF Store
<1>2. Backed'
  BY DEF ClusterInv, Backed, Store, cache
<1>3. owner' \in [Objects -> CRs \cup {NoCR}]
  BY DEF PassInv, ClusterInv, Store
<1>. QED BY <1>1, <1>2, <1>3 DEF ClusterInv, Store, cache

\* An index is created in its turn.
LEMMA StoreIndexKeeps ==
  ASSUME PassInv, ClusterInv, who # NoCR, stage \in Indices, StoreIndex(stage),
         faults' \in 0..MaxFaults, UNCHANGED cache
  PROVE ClusterInv'
<1>1. InOrder' /\ ReadyBefore' /\ born' \subseteq Walk
  BY BornKeeps DEF StoreIndex
<1>2. Backed'
  BY DEF ClusterInv, Backed, StoreIndex, cache
<1>. QED BY <1>1, <1>2 DEF ClusterInv, StoreIndex, cache

----------------------------------------------------------------------------
(* The calls of a pass, one lemma each. *)

\* Fail, GetObject, CreateObject, CreateConflict and CreateUnanswered.
LEMMA EnsureKeeps ==
  ASSUME IInv, NEW i \in Objects, Ensure(i)
  PROVE IInv'
<1>. USE DEF IInv
<1>1. CASE Fail(i)
  <2>1. PassInv'
    BY <1>1, RequeueKeeps DEF Fail, cluster, cache
  <2>2. ClusterInv'
    BY <1>1, SameCluster, FaultCounted DEF Fail
  <2>. QED BY <2>1, <2>2
<1>2. CASE GetObject(i)
  <2>1. ClusterInv'
    BY <1>2, SameCluster DEF GetObject, ClusterInv
  <2>2. CASE i \in cached
    <3>1. stage \in born'
      BY <1>2, <2>2 DEF GetObject, AtCall, ClusterInv, Backed, cluster
    <3>. QED BY <1>2, <2>1, <2>2, <3>1, PresentKeeps DEF GetObject, AtCall, cluster, cache
  <2>3. CASE i \notin cached
    BY <1>2, <2>1, <2>3, GotoKeeps DEF GetObject, AtCall, cluster, cache, Calls
  <2>. QED BY <2>2, <2>3
<1>3. CASE CreateObject(i)
  <2>1. ClusterInv'
    BY <1>3, StoreKeeps DEF CreateObject, AtCall, ClusterInv
  <2>2. PassInv'
    BY <1>3, PresentKeeps DEF CreateObject, AtCall, Store, cache
  <2>. QED BY <2>1, <2>2
<1>4. CASE CreateConflict(i)
  <2>1. PassInv'
    BY <1>4, RequeueKeeps DEF CreateConflict, AtCall, cluster, cache
  <2>2. ClusterInv'
    BY <1>4, SameCluster DEF CreateConflict, ClusterInv
  <2>. QED BY <2>1, <2>2
<1>5. CASE CreateUnanswered(i)
  <2>1. ClusterInv'
    BY <1>5, StoreKeeps, FaultCounted DEF CreateUnanswered, AtCall, ClusterInv
  <2>2. PassInv'
    BY <1>5, RequeueKeeps DEF CreateUnanswered, AtCall, Store, cache
  <2>. QED BY <2>1, <2>2
<1>. QED BY <1>1, <1>2, <1>3, <1>4, <1>5 DEF Ensure

\* A gate is left behind only when the cache shows it Ready.
LEMMA CheckReadyKeeps ==
  ASSUME IInv, NEW i \in Gates, CheckReady(i)
  PROVE IInv'
<1>. USE DEF IInv
<1>1. ClusterInv'
  BY SameCluster DEF CheckReady, ClusterInv
<1>2. CASE i \in cached /\ i \in cachedReady
  <2>1. stage \in born' /\ stage \in wasReady'
    BY <1>2 DEF CheckReady, AtCall, ClusterInv, Backed, cluster
  <2>. QED BY <1>1, <1>2, <2>1, AdvanceKeeps DEF CheckReady, AtCall, cluster, cache
<1>3. CASE ~(i \in cached /\ i \in cachedReady)
  BY <1>1, <1>3, RequeueKeeps DEF CheckReady, AtCall, cluster, cache
<1>. QED BY <1>2, <1>3

\* A topic is left behind only when the cache holds it.
LEMMA CheckTopicKeeps ==
  ASSUME IInv, NEW i \in Topics, CheckTopic(i)
  PROVE IInv'
<1>. USE DEF IInv
<1>1. ClusterInv'
  BY SameCluster DEF CheckTopic, ClusterInv
<1>2. CASE i \in cached
  <2>1. stage \in born' /\ stage \notin Gates
    BY <1>2 DEF CheckTopic, AtCall, ClusterInv, Backed, cluster, Topics, Gates,
       RawTopic, AnomalyTopic, Cartridge, AutomationBase, CartridgeRequirements
  <2>. QED BY <1>1, <1>2, <2>1, AdvanceKeeps DEF CheckTopic, AtCall, cluster, cache
<1>3. CASE i \notin cached
  BY <1>1, <1>3, RequeueKeeps DEF CheckTopic, AtCall, cluster, cache
<1>. QED BY <1>2, <1>3

LEMMA ReadInfoKeeps ==
  ASSUME IInv, NEW i, NEW call \in Calls, ReadInfo(i, call)
  PROVE IInv'
<1>. USE DEF IInv
<1>1. ClusterInv'
  BY SameCluster DEF ReadInfo, ClusterInv
<1>2. CASE CartridgeRequirements \in cached
  BY <1>1, <1>2, GotoKeeps DEF ReadInfo, AtCall, cluster, cache
<1>3. CASE CartridgeRequirements \notin cached
  BY <1>1, <1>3, RequeueKeeps DEF ReadInfo, AtCall, cluster, cache
<1>. QED BY <1>2, <1>3

LEMMA IndexKeeps ==
  ASSUME IInv, NEW i \in Indices, PutIndex(i) \/ PutTimedOut(i) \/ Fail(i)
  PROVE IInv'
<1>. USE DEF IInv
<1>1. CASE PutIndex(i)
  <2>1. ClusterInv'
    BY <1>1, StoreIndexKeeps DEF PutIndex, AtCall, ClusterInv
  <2>2. stage \in born' /\ stage \notin Gates /\ UNCHANGED <<wasReady, crCache>>
    BY <1>1 DEF PutIndex, AtCall, StoreIndex, cache, Indices, Gates, RawIndex,
       AnomalyIndex, Cartridge, AutomationBase, CartridgeRequirements
  <2>. QED BY <1>1, <2>1, <2>2, AdvanceKeeps DEF PutIndex, AtCall, StoreIndex
<1>2. CASE PutTimedOut(i)
  <2>1. ClusterInv'
    BY <1>2, StoreIndexKeeps, FaultCounted DEF PutTimedOut, AtCall
  <2>. QED BY <1>2, <2>1, RequeueKeeps DEF PutTimedOut, AtCall, StoreIndex, cache
<1>3. CASE Fail(i)
  <2>1. ClusterInv'
    BY <1>3, SameCluster, FaultCounted DEF Fail
  <2>. QED BY <1>3, <2>1, RequeueKeeps DEF Fail, cluster, cache
<1>. QED BY <1>1, <1>2, <1>3

\* Whatever comes of the AI stage, nothing later depends on it.
LEMMA SetupAIModelsKeeps ==
  ASSUME IInv, SetupAIModels
  PROVE IInv'
<1>. USE DEF IInv
<1>1. AIDeployment \in Objects /\ AIDeployment \notin Mandatory \cup Gates
  BY DEF AIDeployment, Objects, Stages, Indices, RawIndex, AnomalyIndex, Mandatory,
     Gates, Cartridge, AutomationBase, CartridgeRequirements
<1>2. CASE DeployModel
  <2>1. CASE AIDeployment \in exists
    <3>1. UNCHANGED <<cluster, cache, faults>>
      BY <1>2, <2>1 DEF DeployModel, cluster
    <3>2. ClusterInv'
      BY <3>1, SameCluster DEF ClusterInv
    <3>. QED BY <1>2, <3>1, <3>2, RequeueKeeps DEF DeployModel, AtCall, cluster, cache
  <2>2. CASE AIDeployment \notin exists
    <3>1. ClusterInv'
      BY <1>1, <1>2, <2>2, StoreKeeps DEF DeployModel, AtCall, ClusterInv
    <3>. QED BY <1>2, <2>2, <3>1, RequeueKeeps DEF DeployModel, AtCall, Store, cache
  <2>. QED BY <2>1, <2>2
<1>3. CASE DeployUnanswered
  <2>1. ClusterInv'
    BY <1>1, <1>3, StoreKeeps, FaultCounted DEF DeployUnanswered, AtCall
  <2>. QED BY <1>1, <1>3, <2>1, AdvanceKeeps DEF DeployUnanswered, AtCall, Store, cache
<1>4. CASE AwaitModel
  <2>1. ClusterInv'
    BY <1>4, SameCluster DEF AwaitModel, ClusterInv
  <2>2. CASE aiPending
    BY <1>4, <2>1, <2>2, RequeueKeeps DEF AwaitModel, AtCall, cluster, cache
  <2>3. CASE ~aiPending
    BY <1>1, <1>4, <2>1, <2>3, AdvanceKeeps DEF AwaitModel, AtCall, cluster, cache
  <2>. QED BY <2>2, <2>3
<1>5. CASE GiveUpOnAI
  <2>1. ClusterInv'
    BY <1>5, SameCluster DEF GiveUpOnAI, ClusterInv
  <2>. QED BY <1>1, <1>5, <2>1, AdvanceKeeps DEF GiveUpOnAI, AtCall, cluster, cache
<1>. QED BY <1>2, <1>3, <1>4, <1>5 DEF SetupAIModels

LEMMA UnregisteredKeeps ==
  ASSUME IInv, NEW i, GetUnregistered(i)
  PROVE IInv'
<1>1. ClusterInv'
  BY SameCluster DEF IInv, GetUnregistered, ClusterInv
<1>. QED BY <1>1, RequeueKeeps DEF IInv, GetUnregistered, AtCall, cluster, cache

\* Every step of the worker.
LEMMA WorkerKeeps ==
  ASSUME IInv, Worker
  PROVE IInv'
<1>. DEFINE Producer == ProducerDeployment..ProducerRoute
            Server   == ServerDeployment..ServerRoute
<1>1. /\ Gates \cup Topics \cup Knative \cup Producer \cup Server \subseteq Objects
      /\ EventProcessor \in Objects /\ EventProcessingTask \in Objects
  BY DEF Gates, Topics, Knative, Objects, Stages, Indices, Cartridge,
     AutomationBase, CartridgeRequirements, RawTopic, AnomalyTopic,
     EventProcessor, RawIndex, AnomalyIndex, EventProcessingTask, KafkaSource,
     InMemoryChannel, Subscription, ProducerDeployment, ProducerRoute,
     ServerDeployment, ServerRoute
<1>2. ASSUME NEW i \in Gates, AwaitReady(i) PROVE IInv'
  BY <1>1, <1>2, EnsureKeeps, CheckReadyKeeps DEF AwaitReady
<1>3. CASE CreateCartridge \/ CreateAutomationBase \/ CreateCartridgeRequirements
  BY <1>2, <1>3 DEF CreateCartridge, CreateAutomationBase,
     CreateCartridgeRequirements, Gates
<1>4. CASE SetupAIModels
  BY <1>4, SetupAIModelsKeeps
<1>5. CASE CreateEventStream
  BY <1>1, <1>5, EnsureKeeps, CheckTopicKeeps DEF CreateEventStream
<1>6. CASE ReconcileEventProcessor \/ ReconcileEventProcessingTask
  BY <1>1, <1>6, EnsureKeeps DEF ReconcileEventProcessor, ReconcileEventProcessingTask
<1>7. CASE InitializeElasticsearchIndices
  BY <1>7, ReadInfoKeeps, IndexKeeps DEF InitializeElasticsearchIndices, Calls
<1>8. CASE ReconcileKnative
  BY <1>1, <1>8, ReadInfoKeeps, EnsureKeeps, UnregisteredKeeps
     DEF ReconcileKnative, Calls
<1>9. ASSUME NEW objects \in SUBSET Objects, ReconcileMicroservice(objects)
      PROVE IInv'
  BY <1>9, ReadInfoKeeps, EnsureKeeps DEF ReconcileMicroservice, Calls
<1>10. CASE ReconcileMicroservice(Producer) \/ ReconcileMicroservice(Server)
  BY <1>1, <1>9, <1>10
<1>. QED BY <1>3, <1>4, <1>5, <1>6, <1>7, <1>8, <1>10 DEF Worker

----------------------------------------------------------------------------
(* The steps of controller-runtime and of the cluster. *)

LEMMA BeginKeeps ==
  ASSUME IInv, NEW c \in CRs, Begin(c)
  PROVE IInv'
<1>. USE DEF IInv
<1>1. ClusterInv'
  BY SameCluster DEF Begin, ClusterInv
<1>2. UNCHANGED <<crCache, born, wasReady>>
  BY DEF Begin, cluster, cache
<1>3. CASE crCache[c] = "live"
  <2>1. InPass'
    <3>1. stage' = Cartridge
      BY <1>3 DEF Begin
    <3>2. \A j \in Walk : ~(j < Cartridge)
      BY WalkStages DEF Cartridge
    <3>. QED BY <3>1, <3>2, WalkStages DEF InPass
  <2>2. NoLostWakeup'
    BY <1>2, <1>3, ReconcilerAssumption DEF Begin, PassInv, NoLostWakeup
  <2>3. SuccessMeansDone'
    BY <1>2 DEF Begin, PassInv, SuccessMeansDone
  <2>4. at' \in Calls
    BY <1>3 DEF Begin, Entry, Calls
  <2>. QED BY <1>1, <1>3, <2>1, <2>2, <2>3, <2>4, WalkStages DEF Begin, PassInv
<1>4. CASE crCache[c] # "live"
  <2>1. InPass'
    BY <1>2, <1>4 DEF Begin, PassInv, InPass, pass
  <2>2. NoLostWakeup'
    BY <1>2, <1>4, ReconcilerAssumption DEF Begin, PassInv, NoLostWakeup, pass
  <2>3. SuccessMeansDone'
    BY <1>2 DEF Begin, PassInv, SuccessMeansDone
  <2>. QED BY <1>1, <1>4, <2>1, <2>2, <2>3 DEF Begin, PassInv, pass
<1>. QED BY <1>3, <1>4

\* Steps that touch neither the pass nor the work queue.
LEMMA SamePass ==
  ASSUME PassInv, UNCHANGED <<work, pass, crCache, born>>, wasReady \subseteq wasReady'
  PROVE PassInv'
BY DEF PassInv, work, pass, InPass, NoLostWakeup, SuccessMeansDone

LEMMA ManagerKeeps ==
  ASSUME IInv, Manager
  PROVE IInv'
<1>. USE DEF IInv
<1>1. ASSUME NEW c \in CRs, ObserveCR(c) PROVE IInv'
  <2>. USE <1>1 DEF ObserveCR, cluster, pass
  <2>1. PassInv'
    <3>1. InPass' /\ SuccessMeansDone'
      BY DEF PassInv, InPass, SuccessMeansDone
    <3>2. NoLostWakeup'
      BY DEF PassInv, ClusterInv, NoLostWakeup
    <3>. QED BY <3>1, <3>2 DEF PassInv
  <2>2. ClusterInv'
    BY DEF ClusterInv, Backed, InOrder, ReadyBefore
  <2>. QED BY <2>1, <2>2
<1>2. ASSUME NEW c \in CRs, TimerFires(c) \/ Resync(c) PROVE IInv'
  <2>1. ClusterInv'
    BY <1>2, SameCluster DEF TimerFires, Resync, ClusterInv
  <2>2. InPass' /\ NoLostWakeup' /\ SuccessMeansDone'
    BY <1>2 DEF TimerFires, Resync, PassInv, InPass, NoLostWakeup,
       SuccessMeansDone, cluster, cache, pass
  <2>. QED BY <1>2, <2>1, <2>2 DEF TimerFires, Resync, PassInv, pass
<1>3. ASSUME NEW i \in Objects, SyncCache(i) PROVE IInv'
  <2>1. PassInv'
    BY <1>3, SamePass DEF SyncCache, cluster
  <2>2. ClusterInv'
    BY <1>3 DEF SyncCache, ClusterInv, Backed, InOrder, ReadyBefore, cluster
  <2>. QED BY <2>1, <2>2
<1>4. CASE Restart
  <2>. USE <1>4 DEF Restart, GoIdle, cluster
  <2>1. PassInv'
    <3>1. InPass' /\ SuccessMeansDone'
      BY DEF InPass, SuccessMeansDone
    <3>2. NoLostWakeup'
      BY DEF NoLostWakeup
    <3>. QED BY <3>1, <3>2, WalkStages DEF PassInv, Calls
  <2>2. ClusterInv'
    BY FaultCounted DEF ClusterInv, Backed, InOrder, ReadyBefore
  <2>. QED BY <2>1, <2>2
<1>. QED BY <1>1, <1>2, <1>3, <1>4, BeginKeeps DEF Manager

LEMMA ClusterKeeps ==
  ASSUME IInv, Cluster
  PROVE IInv'
<1>. USE DEF IInv
<1>1. ASSUME NEW c \in CRs, CreateCR(c) \/ DeleteCR(c) PROVE IInv'
  <2>1. PassInv'
    BY <1>1, SamePass DEF CreateCR, DeleteCR, cache
  <2>2. crs' \in [CRs -> Life]
    BY <1>1 DEF CreateCR, DeleteCR, ClusterInv, Life
  <2>3. Backed' /\ InOrder' /\ ReadyBefore'
    BY <1>1 DEF CreateCR, DeleteCR, ClusterInv, cache, Backed, InOrder, ReadyBefore
  <2>. QED BY <1>1, <2>1, <2>2, <2>3 DEF CreateCR, DeleteCR, ClusterInv, cache
<1>2. ASSUME NEW i \in Objects, BecomeReady(i) PROVE IInv'
  <2>. USE <1>2 DEF BecomeReady, cache
  <2>1. PassInv'
    BY SamePass
  <2>2. Backed' /\ InOrder' /\ ReadyBefore'
    BY DEF ClusterInv, Backed, InOrder, ReadyBefore
  <2>3. i \in Gates \cap Walk
    BY DEF ClusterInv, Backed
  <2>. QED BY <2>1, <2>2, <2>3 DEF ClusterInv
<1>3. ASSUME NEW i \in Objects, BecomeUnready(i) PROVE IInv'
  <2>. USE <1>3 DEF BecomeUnready, cache
  <2>1. PassInv'
    BY SamePass
  <2>2. Backed' /\ InOrder' /\ ReadyBefore'
    BY DEF ClusterInv, Backed, InOrder, ReadyBefore
  <2>. QED BY <2>1, <2>2, FaultCounted DEF ClusterInv
<1>4. ASSUME NEW i \in Objects, Remove(i), faults' \in 0..MaxFaults PROVE IInv'
  <2>. USE <1>4 DEF Remove, cache
  <2>1. PassInv'
    BY SamePass
  <2>2. Backed' /\ InOrder' /\ ReadyBefore'
    BY DEF ClusterInv, Backed, InOrder, ReadyBefore
  <2>3. owner' \in [Objects -> CRs \cup {NoCR}]
    BY DEF ClusterInv
  <2>. QED BY <2>1, <2>2, <2>3 DEF ClusterInv
<1>5. ASSUME NEW i \in Objects, DeleteObject(i) \/ CollectGarbage(i) PROVE IInv'
  BY <1>4, <1>5, FaultCounted DEF DeleteObject, CollectGarbage, ClusterInv
<1>6. CASE AISettle
  <2>1. PassInv'
    BY <1>6, SamePass DEF AISettle, cache
  <2>2. ClusterInv'
    BY <1>6 DEF AISettle, cache, ClusterInv, Backed, InOrder, ReadyBefore
  <2>. QED BY <2>1, <2>2
<1>. QED BY <1>1, <1>2, <1>3, <1>5, <1>6 DEF Cluster

----------------------------------------------------------------------------
(* The theorems. *)

LEMMA InitIInv == Init => IInv
<1>. SUFFICES ASSUME Init PROVE IInv
  OBVIOUS
<1>. USE ReconcilerAssumption, WalkStages DEF Init
<1>1. PassInv
  BY DEF PassInv, InPass, NoLostWakeup, SuccessMeansDone, Calls
<1>2. Backed /\ InOrder /\ ReadyBefore
  BY DEF Backed, InOrder, ReadyBefore
<1>3. crs \in [CRs -> Life] /\ crCache \in [CRs -> Life]
  BY DEF Life
<1>4. owner \in [Objects -> CRs \cup {NoCR}]
  OBVIOUS
<1>5. faults \in 0..MaxFaults
  OBVIOUS
<1>6. ClusterInv
  BY <1>2, <1>3, <1>4, <1>5 DEF ClusterInv
<1>. QED BY <1>1, <1>6 DEF IInv

LEMMA StepIInv == IInv /\ [Next]_vars => IInv'
<1>. SUFFICES ASSUME IInv, [Next]_vars PROVE IInv'
  OBVIOUS
<1>1. CASE Next
  BY <1>1, WorkerKeeps, ManagerKeeps, ClusterKeeps DEF Next
<1>2. CASE UNCHANGED vars
  <2>1. PassInv'
    BY <1>2, SamePass DEF IInv, vars, cluster, cache
  <2>2. ClusterInv'
    BY <1>2, SameCluster DEF IInv, vars, ClusterInv
  <2>. QED BY <2>1, <2>2 DEF IInv
<1>. QED BY <1>1, <1>2

\* The inductive invariant holds in every state the operator can reach.
THEOREM Invariance == Spec => []IInv
BY InitIInv, StepIInv, PTL DEF Spec

\* Every variable stays in its set.
THEOREM TypeCorrect == Spec => []TypeOK
<1>1. IInv => TypeOK
  BY WalkStages DEF IInv, PassInv, ClusterInv, TypeOK, Calls
<1>. QED BY <1>1, Invariance, PTL

\* No stage is carried out before the mandatory stages it builds upon.
THEOREM OrderKept == Spec => []InOrder
<1>1. IInv => InOrder
  BY DEF IInv, ClusterInv
<1>. QED BY <1>1, Invariance, PTL

\* Nothing behind a gate is created before the gate has been Ready.
THEOREM GatesHold == Spec => []ReadyBefore
<1>1. IInv => ReadyBefore
  BY DEF IInv, ClusterInv
<1>. QED BY <1>1, Invariance, PTL

\* No CR the operator knows of is forgotten.
THEOREM NothingForgotten == Spec => []NoLostWakeup
<1>1. IInv => NoLostWakeup
  BY DEF IInv, PassInv
<1>. QED BY <1>1, Invariance, PTL

\* A pass that reports success has carried out every mandatory stage.
THEOREM SuccessIsEarned == Spec => []SuccessMeansDone
<1>1. IInv => SuccessMeansDone
  BY DEF IInv, PassInv
<1>. QED BY <1>1, Invariance, PTL

----------------------------------------------------------------------------
(* Reconciler implements Provisioning. *)

\* A step of the worker carries out the stage it is in, or nothing.
LEMMA WorkerBuilds ==
  ASSUME Worker
  PROVE /\ UNCHANGED wasReady
        /\ \/ UNCHANGED born
           \/ who # NoCR /\ born' = born \cup {stage}
<1>. DEFINE Builds == /\ UNCHANGED wasReady
                      /\ \/ UNCHANGED born
                         \/ who # NoCR /\ born' = born \cup {stage}
<1>1. ASSUME NEW i, Ensure(i) PROVE Builds
  BY <1>1 DEF Ensure, GetObject, CreateObject, CreateConflict, CreateUnanswered,
     Fail, Store, AtCall, cluster
<1>2. ASSUME NEW i, CheckReady(i) \/ CheckTopic(i) \/ GetUnregistered(i)
      PROVE Builds
  BY <1>2 DEF CheckReady, CheckTopic, GetUnregistered, cluster
<1>3. ASSUME NEW i, NEW call, ReadInfo(i, call) PROVE Builds
  BY <1>3 DEF ReadInfo, cluster
<1>4. ASSUME NEW i, PutIndex(i) \/ PutTimedOut(i) \/ Fail(i) PROVE Builds
  BY <1>4 DEF PutIndex, PutTimedOut, Fail, StoreIndex, AtCall, cluster
<1>5. CASE SetupAIModels
  BY <1>5 DEF SetupAIModels, DeployModel, DeployUnanswered, AwaitModel,
     GiveUpOnAI, Store, AtCall, cluster
<1>6. ASSUME NEW i, AwaitReady(i) PROVE Builds
  BY <1>1, <1>2, <1>6 DEF AwaitReady
<1>7. CASE CreateCartridge \/ CreateAutomationBase \/ CreateCartridgeRequirements
  BY <1>6, <1>7 DEF CreateCartridge, CreateAutomationBase, CreateCartridgeRequirements
<1>8. CASE CreateEventStream \/ ReconcileEventProcessor \/ ReconcileEventProcessingTask
  BY <1>1, <1>2, <1>8 DEF CreateEventStream, ReconcileEventProcessor,
     ReconcileEventProcessingTask
<1>9. CASE InitializeElasticsearchIndices \/ ReconcileKnative
  BY <1>1, <1>2, <1>3, <1>4, <1>9 DEF InitializeElasticsearchIndices, ReconcileKnative
<1>10. ASSUME NEW objects, ReconcileMicroservice(objects) PROVE Builds
  BY <1>1, <1>3, <1>10 DEF ReconcileMicroservice
<1>. QED BY <1>5, <1>7, <1>8, <1>9, <1>10 DEF Worker

LEMMA InitMaps == Init => Promise!Init
BY DEF Init, Promise!Init

\* Every step carries out a stage whose prerequisites are there, reports a gate
\* of which the resource was created, or is invisible to Provisioning.
LEMMA StepMaps == IInv /\ [Next]_vars => [Promise!Next]_(Promise!vars)
<1>. SUFFICES ASSUME IInv, [Next]_vars PROVE [Promise!Next]_(Promise!vars)
  OBVIOUS
<1>1. ASSUME who # NoCR, born' = born \cup {stage}, UNCHANGED wasReady
      PROVE Promise!Next
  <2>1. stage \in Walk
    BY DEF IInv, PassInv
  <2>2. Promise!MayBuild(stage)
    BY <1>1 DEF IInv, PassInv, InPass, Mandatory, Promise!MayBuild
  <2>3. Promise!Build(stage)
    BY <1>1, <2>2 DEF Promise!Build
  <2>. QED BY <2>1, <2>3 DEF Promise!Next
<1>2. ASSUME UNCHANGED <<born, wasReady>> PROVE UNCHANGED Promise!vars
  BY <1>2 DEF Promise!vars
<1>3. CASE Worker
  BY <1>1, <1>2, <1>3, WorkerBuilds
<1>4. CASE Manager
  <2>1. UNCHANGED <<born, wasReady>>
    BY <1>4 DEF Manager, Begin, ObserveCR, TimerFires, Resync, SyncCache,
       Restart, cluster
  <2>. QED BY <1>2, <2>1
<1>5. CASE Cluster
  <2>1. ASSUME NEW i \in Objects, BecomeReady(i) PROVE Promise!Next
    <3>1. i \in Gates \cap Walk /\ i \in born
      BY <2>1 DEF BecomeReady, IInv, ClusterInv, Backed
    <3>2. Promise!Report(i)
      BY <2>1, <3>1 DEF BecomeReady, Promise!Report
    <3>. QED BY <3>1, <3>2 DEF Promise!Next
  <2>2. CASE ~\E i \in Objects : BecomeReady(i)
    <3>1. UNCHANGED <<born, wasReady>>
      BY <1>5, <2>2 DEF Cluster, CreateCR, DeleteCR, BecomeUnready, DeleteObject,
         CollectGarbage, Remove, AISettle
    <3>. QED BY <1>2, <3>1
  <2>. QED BY <2>1, <2>2
<1>6. CASE UNCHANGED vars
  BY <1>2, <1>6 DEF vars, cluster
<1>. QED BY <1>3, <1>4, <1>5, <1>6 DEF Next

\* Seen from the cluster, the operator provisions the scenario in the order
\* and behind the gates that module Provisioning promises.
THEOREM ImplementsProvisioning == Spec => Provisioning
BY InitMaps, StepMaps, Invariance, PTL DEF Spec, Provisioning, Promise!Spec
----------------------------------------------------------------------------
(* The kinds the client lacks. *)

(* A pass that gets to such a kind is about to look it up, and nothing else; *)
(* no such object was ever created.                                         *)
Barred ==
  /\ born \cap Unregistered = {}
  /\ who # NoCR /\ stage \in Unregistered => at = "get"

\* Where the walk goes on, a lookup is the first call on such a kind.
LEMMA UnregisteredEntry ==
  \A i \in Unregistered : Entry(i) = "get" /\ i \in Knative /\ i \notin Gates \cup Topics
BY DEF Unregistered, Entry, NeedsInfo, Indices, Knative, Gates, Topics, AIDeployment, RawIndex,
       AnomalyIndex, KafkaSource, InMemoryChannel, Subscription, ProducerDeployment,
       ServerDeployment, Cartridge, AutomationBase, CartridgeRequirements, RawTopic,
       AnomalyTopic

\* A call that ends the pass or goes on with the next stage.
LEMMA TurnsAway ==
  ASSUME Requeue \/ Advance, born' \cap Unregistered = {}
  PROVE  Barred'
<1>1. CASE GoIdle
  BY <1>1 DEF GoIdle, Barred
<1>2. ASSUME NEW i, Goto(i, Entry(i)) PROVE Barred'
  BY <1>2, UnregisteredEntry DEF Goto, Barred
<1>. QED BY <1>1, <1>2 DEF Requeue, Advance, Finish

LEMMA BarredEnsure ==
  ASSUME Barred, NEW i, Ensure(i)
  PROVE  Barred'
<1>. USE DEF Barred
<1>1. CASE GetObject(i)
  <2>1. i \notin Unregistered /\ stage = i /\ UNCHANGED born
    BY <1>1 DEF GetObject, AtCall, cluster
  <2>2. CASE \E call : Goto(stage, call)
    BY <2>1, <2>2 DEF Goto
  <2>3. CASE Advance
    BY <2>1, <2>3, TurnsAway
  <2>. QED BY <1>1, <2>1, <2>2, <2>3 DEF GetObject, Present
<1>2. CASE CreateObject(i)
  <2>1. i \notin Unregistered /\ stage = i /\ born' = born \cup {i}
    BY <1>2 DEF CreateObject, AtCall, Store
  <2>2. CASE \E call : Goto(stage, call)
    BY <2>1, <2>2 DEF Goto
  <2>3. CASE Advance
    BY <2>1, <2>3, TurnsAway
  <2>. QED BY <1>2, <2>1, <2>2, <2>3 DEF CreateObject, Present
<1>3. CASE CreateConflict(i) \/ CreateUnanswered(i) \/ Fail(i)
  <2>1. born' \cap Unregistered = {} /\ Requeue
    BY <1>3 DEF CreateConflict, CreateUnanswered, Fail, AtCall, Store, cluster
  <2>. QED BY <2>1, TurnsAway
<1>. QED BY <1>1, <1>2, <1>3 DEF Ensure

LEMMA BarredWorker ==
  ASSUME Barred, Worker
  PROVE  Barred'
<1>1. ASSUME NEW i \in Gates \cup Topics, CheckReady(i) \/ CheckTopic(i) PROVE Barred'
  <2>1. (Requeue \/ Advance) /\ UNCHANGED born
    BY <1>1 DEF CheckReady, CheckTopic, cluster
  <2>. QED BY <2>1, TurnsAway DEF Barred
<1>2. ASSUME NEW i, NEW call, ReadInfo(i, call) PROVE Barred'
  <2>1. stage \notin Unregistered /\ UNCHANGED born
    BY <1>2 DEF ReadInfo, AtCall, Barred, cluster
  <2>2. CASE Goto(i, call)
    BY <1>2, <2>1, <2>2 DEF ReadInfo, AtCall, Goto, Barred
  <2>3. CASE Requeue
    BY <2>1, <2>3, TurnsAway DEF Barred
  <2>. QED BY <1>2, <2>2, <2>3 DEF ReadInfo
<1>3. ASSUME NEW i \in Indices, PutIndex(i) \/ PutTimedOut(i) \/ Fail(i) PROVE Barred'
  <2>1. i \notin Unregistered
    BY DEF Indices, Unregistered, RawIndex, AnomalyIndex, InMemoryChannel, Subscription
  <2>2. (Requeue \/ Advance) /\ born' \subseteq born \cup {i}
    BY <1>3 DEF PutIndex, PutTimedOut, Fail, StoreIndex, cluster
  <2>. QED BY <2>1, <2>2, TurnsAway DEF Barred
<1>4. CASE SetupAIModels
  <2>1. AIDeployment \notin Unregistered
    BY DEF AIDeployment, Unregistered, InMemoryChannel, Subscription
  <2>2. (Requeue \/ Advance) /\ born' \subseteq born \cup {AIDeployment}
    BY <1>4 DEF SetupAIModels, DeployModel, DeployUnanswered, AwaitModel, GiveUpOnAI, Store,
                cluster
  <2>. QED BY <2>1, <2>2, TurnsAway DEF Barred
<1>5. ASSUME NEW i, GetUnregistered(i) PROVE Barred'
  BY <1>5, TurnsAway DEF GetUnregistered, Barred, cluster
<1>6. ASSUME NEW i \in Gates, AwaitReady(i) PROVE Barred'
  BY <1>1, <1>6, BarredEnsure DEF AwaitReady
<1>7. CASE CreateCartridge \/ CreateAutomationBase \/ CreateCartridgeRequirements
  BY <1>6, <1>7 DEF CreateCartridge, CreateAutomationBase, CreateCartridgeRequirements, Gates
<1>8. CASE CreateEventStream \/ ReconcileEventProcessor \/ ReconcileEventProcessingTask
  BY <1>1, <1>8, BarredEnsure
     DEF CreateEventStream, ReconcileEventProcessor, ReconcileEventProcessingTask
<1>9. CASE InitializeElasticsearchIndices \/ ReconcileKnative
  BY <1>2, <1>3, <1>5, <1>9, BarredEnsure DEF InitializeElasticsearchIndices, ReconcileKnative
<1>10. ASSUME NEW objects, ReconcileMicroservice(objects) PROVE Barred'
  BY <1>2, <1>10, BarredEnsure DEF ReconcileMicroservice
<1>. QED BY <1>4, <1>7, <1>8, <1>9, <1>10 DEF Worker

LEMMA BarredInvariance == Spec => []Barred
<1>1. Init => Barred
  BY DEF Init, Barred
<1>2. ASSUME Barred, [Next]_vars PROVE Barred'
  <2>1. ASSUME NEW c \in CRs, Begin(c) PROVE Barred'
    BY <1>2, <2>1
       DEF Begin, Barred, cluster, pass, Entry, Cartridge, Unregistered, InMemoryChannel, Subscription
  <2>2. CASE Manager
    BY <1>2, <2>1, <2>2
       DEF Manager, ObserveCR, TimerFires, Resync, SyncCache, Restart, GoIdle, Barred, cluster,
           pass
  <2>3. CASE Cluster \/ UNCHANGED vars
    BY <1>2, <2>3
       DEF Cluster, CreateCR, DeleteCR, BecomeReady, BecomeUnready, AISettle, DeleteObject,
           CollectGarbage, Remove, Barred, vars, cluster, pass
  <2>. QED BY <1>2, <2>2, <2>3, BarredWorker DEF Next
<1>. QED BY <1>1, <1>2, PTL DEF Spec

----------------------------------------------------------------------------
\* With Knative, and the kinds the client lacks in the walk, the operator
\* carries out what stands before them and nothing behind: no Deployment of the
\* producer and of the server, and no pass that reports success.
THEOREM NothingBehindUnregistered ==
  ASSUME Unregistered \cap Walk # {}
  PROVE  Spec => [](settled = {} /\ born \subseteq Reachable \cup {AIDeployment})
<1>1. PICK u \in Unregistered \cap Walk : TRUE
  OBVIOUS
<1>2. Unregistered \cap Walk \subseteq Mandatory
  BY DEF Unregistered, Mandatory, AIDeployment, InMemoryChannel, Subscription
<1>3. Barred /\ SuccessMeansDone => settled = {}
  BY <1>1, <1>2 DEF Barred, SuccessMeansDone
<1>4. ASSUME Barred, InOrder, born \subseteq Walk, NEW i \in born, i # AIDeployment
      PROVE  i \in Reachable
  <2>1. ASSUME NEW v \in Unregistered \cap Walk PROVE i < v
    <3>1. v \notin born
      BY <1>4 DEF Barred
    <3>2. ~(v < i)
      BY <1>2, <1>4, <3>1 DEF InOrder
    <3>3. i \in Int /\ v \in Int /\ i # v
      BY <1>4, <3>1, WalkStages
    <3>. QED BY <3>2, <3>3
  <2>. QED BY <1>4, <2>1 DEF Reachable, Mandatory
<1>5. IInv /\ Barred => settled = {} /\ born \subseteq Reachable \cup {AIDeployment}
  BY <1>3, <1>4 DEF IInv, PassInv, ClusterInv
<1>. QED BY <1>5, Invariance, BarredInvariance, PTL

\* So KnativeConnected fails of every behaviour in which some CR stays, for
\* every walk with one of these kinds and whatever the bounds.
THEOREM KnativeNeverConnected ==
  ASSUME Unregistered \cap Walk # {}
  PROVE  Spec /\ (\E c \in CRs : <>[](crs[c] = "live")) => ~KnativeConnected
<1>1. Barred /\ Backed => ~(Knative \cap Walk \subseteq exists)
  BY DEF Barred, Backed, Knative, Unregistered
<1>2. Spec => ~<>(Knative \cap Walk \subseteq exists)
  <2>1. IInv => Backed
    BY DEF IInv, ClusterInv
  <2>. QED BY <1>1, <2>1, Invariance, BarredInvariance, PTL
<1>3. (\E c \in CRs : <>[](crs[c] = "live")) /\ KnativeConnected
      => <>(Knative \cap Walk \subseteq exists)
  BY DEF KnativeConnected
<1>. QED BY <1>2, <1>3

----------------------------------------------------------------------------
(* Whose the objects are. *)

(* Every object has a CR for its owner, one that was created: the cache     *)
(* knows no other, and a pass is of one it knows.                           *)
Owned ==
  /\ \A i \in Objects : IF i \in exists THEN owner[i] \in CRs /\ crs[owner[i]] # "absent"
                                       ELSE owner[i] = NoCR
  /\ \A c \in CRs : crCache[c] # "absent" => crs[c] # "absent"
  /\ who \in CRs => crs[who] # "absent"

\* A step of the worker creates an object for the CR of its pass, or none.
LEMMA WorkerOwns ==
  ASSUME Worker
  PROVE /\ UNCHANGED <<crs, crCache>> /\ who' \in {who, NoCR}
        /\ \/ UNCHANGED <<exists, owner>>
           \/ who # NoCR /\ exists' = exists \cup {stage} /\ owner' = [owner EXCEPT ![stage] = who]
<1>. DEFINE Same == UNCHANGED <<crs, crCache>> /\ who' \in {who, NoCR}
            Owns == Same /\ \/ UNCHANGED <<exists, owner>>
                            \/ /\ who # NoCR /\ exists' = exists \cup {stage}
                               /\ owner' = [owner EXCEPT ![stage] = who]
<1>. USE DEF cluster, cache
<1>1. /\ Requeue \/ Advance \/ Present => who' \in {who, NoCR}
      /\ \A i, call : Goto(i, call) => who' \in {who, NoCR}
  BY DEF Requeue, Advance, Present, Finish, GoIdle, Goto
<1>2. ASSUME NEW i, Ensure(i) PROVE Owns
  BY <1>1, <1>2 DEF Ensure, GetObject, CreateObject, CreateConflict, CreateUnanswered,
     Fail, Store, AtCall
<1>3. ASSUME NEW i, CheckReady(i) \/ CheckTopic(i) \/ GetUnregistered(i)
      PROVE Owns
  BY <1>1, <1>3 DEF CheckReady, CheckTopic, GetUnregistered
<1>4. ASSUME NEW i, NEW call, ReadInfo(i, call) PROVE Owns
  BY <1>1, <1>4 DEF ReadInfo
<1>5. ASSUME NEW i, PutIndex(i) \/ PutTimedOut(i) \/ Fail(i) PROVE Owns
  BY <1>1, <1>5 DEF PutIndex, PutTimedOut, Fail, StoreIndex
<1>6. CASE SetupAIModels
  BY <1>1, <1>6 DEF SetupAIModels, DeployModel, DeployUnanswered, AwaitModel, GiveUpOnAI,
     Store, AtCall
<1>7. ASSUME NEW i, AwaitReady(i) PROVE Owns
  BY <1>2, <1>3, <1>7 DEF AwaitReady
<1>8. CASE CreateCartridge \/ CreateAutomationBase \/ CreateCartridgeRequirements
  BY <1>7, <1>8 DEF CreateCartridge, CreateAutomationBase, CreateCartridgeRequirements
<1>9. CASE CreateEventStream \/ ReconcileEventProcessor \/ ReconcileEventProcessingTask
  BY <1>2, <1>3, <1>9 DEF CreateEventStream, ReconcileEventProcessor,
     ReconcileEventProcessingTask
<1>10. CASE InitializeElasticsearchIndices \/ ReconcileKnative
  BY <1>2, <1>3, <1>4, <1>5, <1>10 DEF InitializeElasticsearchIndices, ReconcileKnative
<1>11. ASSUME NEW objects, ReconcileMicroservice(objects) PROVE Owns
  BY <1>2, <1>4, <1>11 DEF ReconcileMicroservice
<1>. QED BY <1>6, <1>8, <1>9, <1>10, <1>11 DEF Worker

LEMMA OwnedInductive == IInv /\ Owned /\ [Next]_vars => Owned'
<1>. SUFFICES ASSUME IInv, Owned, [Next]_vars PROVE Owned'
  OBVIOUS
<1>. /\ owner \in [Objects -> CRs \cup {NoCR}] /\ exists \subseteq Objects
     /\ crs \in [CRs -> Life] /\ crCache \in [CRs -> Life]
     /\ who \in CRs \cup {NoCR} /\ NoCR \notin CRs
  BY ReconcilerAssumption DEF IInv, PassInv, ClusterInv
<1>1. CASE Worker
  BY <1>1, WorkerOwns DEF Owned
<1>2. CASE Manager
  <2>1. UNCHANGED <<crs, exists, owner>>
    BY <1>2 DEF Manager, Begin, ObserveCR, TimerFires, Resync, SyncCache, Restart, cluster
  <2>2. who' \in {who, NoCR} \/ \E c \in CRs : who' = c /\ crCache[c] = "live"
    BY <1>2 DEF Manager, Begin, ObserveCR, TimerFires, Resync, SyncCache, Restart, GoIdle, pass
  <2>3. \A c \in CRs : crCache'[c] \in {crCache[c], crs[c]}
    <3>1. CASE \E c \in CRs : ObserveCR(c)
      BY <3>1 DEF ObserveCR
    <3>2. CASE Restart
      BY <3>2 DEF Restart
    <3>3. CASE UNCHANGED crCache
      BY <3>3
    <3>. QED BY <1>2, <3>1, <3>2, <3>3
             DEF Manager, Begin, TimerFires, Resync, SyncCache, cache
  <2>. QED BY <2>1, <2>2, <2>3 DEF Owned
<1>3. CASE Cluster \/ UNCHANGED vars
  <2>1. UNCHANGED <<crCache, who>>
    BY <1>3 DEF Cluster, CreateCR, DeleteCR, BecomeReady, BecomeUnready, AISettle, DeleteObject,
                CollectGarbage, Remove, vars, cache, pass
  <2>2. \A c \in CRs : crs[c] # "absent" => crs'[c] # "absent"
    BY <1>3 DEF Cluster, CreateCR, DeleteCR, BecomeReady, BecomeUnready, AISettle, DeleteObject,
                CollectGarbage, Remove, vars, cluster
  <2>3. \/ UNCHANGED <<exists, owner>>
        \/ \E i \in Objects : exists' = exists \ {i} /\ owner' = [owner EXCEPT ![i] = NoCR]
    BY <1>3 DEF Cluster, CreateCR, DeleteCR, BecomeReady, BecomeUnready, AISettle, DeleteObject,
                CollectGarbage, Remove, vars, cluster
  <2>. QED BY <2>1, <2>2, <2>3 DEF Owned
<1>. QED BY <1>1, <1>2, <1>3 DEF Next

\* No object is ever without the controller reference its creation gave it.
THEOREM ObjectsAreOwned == Spec => []Owned
<1>1. Init => Owned
  BY ReconcilerAssumption DEF Init, Owned
<1>. QED BY <1>1, OwnedInductive, Invariance, PTL DEF Spec

\* Every object has its controller reference from the moment it is created, so
\* what is left when no CR is live is all the collector's to take; and it takes
\* nothing but what is there.
THEOREM OrphansAreTheRest ==
  Spec => [](/\ (\A c \in CRs : crs[c] # "live") => \A i \in exists : Orphan(i)
             /\ \A i \in Objects : Orphan(i) => i \in exists)
<1>1. IInv /\ Owned => /\ (\A c \in CRs : crs[c] # "live") => \A i \in exists : Orphan(i)
                      /\ \A i \in Objects : Orphan(i) => i \in exists
  BY ReconcilerAssumption DEF Owned, Orphan, IInv, ClusterInv, Life
<1>. QED BY <1>1, ObjectsAreOwned, Invariance, PTL

\* All that CleanTeardown asks of the collector is that it gets through with its
\* orphans once no CR is live, whatever a pass still running created.
THEOREM CollectingIsEnough ==
  Spec /\ (<>[](\A c \in CRs : crs[c] # "live") => <>[](\A i \in Objects : ~Orphan(i)))
    => CleanTeardown
<1>. DEFINE over == \A c \in CRs : crs[c] # "live"
            collected == \A i \in Objects : ~Orphan(i)
<1>1. IInv /\ (over => \A i \in exists : Orphan(i)) /\ over /\ collected => exists = {}
  BY DEF IInv, ClusterInv
<1>. HIDE DEF over, collected
<1>2. Spec => [](over => \A i \in exists : Orphan(i))
  BY OrphansAreTheRest, PTL DEF over
<1>3. Spec /\ (<>[]over => <>[]collected) => (<>[]over => <>[](exists = {}))
  BY <1>1, <1>2, Invariance, PTL
<1>. QED BY <1>3 DEF CleanTeardown, over, collected

=============================================================================
