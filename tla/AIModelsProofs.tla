----------------------------- MODULE AIModelsProofs -----------------------------
(***************************************************************************)
(* Proofs about module AIModels, for every set of files and every bound.   *)
(***************************************************************************)
EXTENDS AIModels, TLAPS

(* The creations that precede the one a pass is about to make have been    *)
(* answered in this pass, so what they create is there.                    *)
Created ==
  /\ pc = "createModel" => "runtime" \in resources
  /\ pc = "createDeployment" => {"runtime", "model"} \subseteq resources

(* An endpoint in the AIDeployment, in the cache or in the hands of the    *)
(* pass was published once.                                                *)
Published ==
  /\ deployment = "endpoint" => served
  /\ seen = "endpoint" => served
  /\ predictor => served

\* The Flink job calls an endpoint only if the AIDeployment had published one.
EndpointIsReal == task = "model" => served

IInv == TypeOK /\ Created /\ Published /\ ReferencesExist /\ EndpointIsReal

----------------------------------------------------------------------------
LEMMA Initially == Init => IInv
<1>. SUFFICES ASSUME Init PROVE IInv
  OBVIOUS
<1>1. TypeOK
  <2>1. minioFaults \in 0..MinioFaults /\ apiFaults \in 0..ApiFaults
    BY AIModelsAssumption DEF Init
  <2>2. bucket \in BOOLEAN /\ taskSeen \in BOOLEAN /\ predictor \in BOOLEAN /\ served \in BOOLEAN
    BY Zenon DEF Init
  <2>3. /\ secrets \subseteq Secrets /\ uploaded \subseteq Files
        /\ resources \subseteq {"runtime", "model"} /\ todo \subseteq Files
    BY DEF Init
  <2>4. /\ deployment \in Verdicts /\ seen \in Verdicts /\ task \in {"absent", "rules", "model"}
        /\ pc \in {"idle"} \cup MinioCalls \cup ApiCalls \cup TaskCalls
    BY DEF Init, Verdicts
  <2>. QED
    BY <2>1, <2>2, <2>3, <2>4 DEF TypeOK
<1>2. Created /\ Published /\ ReferencesExist /\ EndpointIsReal
  BY DEF Init, Created, Published, ReferencesExist, EndpointIsReal
<1>. QED
  BY <1>1, <1>2 DEF IInv

(* One disjunct of MinioFault or ApiFault was taken from its budget. *)
LEMMA BudgetKept ==
  ASSUME TypeOK, MinioFault \/ ApiFault
  PROVE  minioFaults' \in 0..MinioFaults /\ apiFaults' \in 0..ApiFaults
BY AIModelsAssumption DEF TypeOK, MinioFault, ApiFault

(* The calls of a pass on MinIO, and what becomes of them. *)
LEMMA CopyKeeps ==
  ASSUME IInv,
         \/ Begin \/ GetStorageSecret \/ BucketExists \/ MakeBucket \/ WalkDone
         \/ \E f \in Files : PutObject(f)
         \/ MinioFails \/ MinioUnanswered
  PROVE  IInv'
<1>. USE DEF IInv, Created, Published, ReferencesExist, EndpointIsReal,
             foundation, api, cache, budget, Call, GoOn
<1>1. CASE Begin \/ GetStorageSecret \/ BucketExists \/ WalkDone
  BY <1>1 DEF Begin, GetStorageSecret, BucketExists, WalkDone,
              TypeOK, MinioCalls, ApiCalls, TaskCalls
<1>2. CASE MakeBucket
  BY <1>2 DEF MakeBucket, TypeOK, MinioCalls
<1>3. ASSUME NEW f \in Files, PutObject(f)
      PROVE  IInv'
  BY <1>3 DEF PutObject, TypeOK
<1>4. CASE MinioFails
  BY <1>4, BudgetKept DEF MinioFails, TypeOK, MinioCalls, TaskCalls
<1>5. CASE MinioUnanswered
  BY <1>5, BudgetKept DEF MinioUnanswered, TypeOK, MinioCalls, TaskCalls
<1>. QED
  BY <1>1, <1>2, <1>3, <1>4, <1>5

(* The calls that create the AI resources, and what becomes of them. *)
LEMMA DeployKeeps ==
  ASSUME IInv,
         \/ GetDeployment \/ GetKFSecret \/ CreateRuntime \/ CreateModel
         \/ CreateDeployment \/ ApiFails \/ ApiUnanswered
  PROVE  IInv'
<1>. USE DEF IInv, Created, Published, ReferencesExist, EndpointIsReal,
             foundation, cache, budget, Call, GoOn, ComeBack
<1>1. CASE GetDeployment \/ GetKFSecret
  BY <1>1 DEF GetDeployment, GetKFSecret, TypeOK, api, ApiCalls, TaskCalls
<1>2. CASE CreateRuntime \/ CreateModel
  <2>1. /\ resources \subseteq resources' /\ resources' \subseteq {"runtime", "model"}
        /\ \/ pc' = "createModel" /\ "runtime" \in resources'
           \/ /\ pc' = "createDeployment"
              /\ {"runtime", "model"} \subseteq resources'
    BY <1>2 DEF CreateRuntime, CreateModel, CreateResource, TypeOK
  <2>2. UNCHANGED <<secrets, bucket, uploaded, deployment, seen, task, taskSeen, todo,
                    predictor, served, minioFaults, apiFaults>>
    BY <1>2 DEF CreateRuntime, CreateModel, CreateResource
  <2>. QED
    BY <2>1, <2>2 DEF TypeOK, ApiCalls
<1>3. CASE CreateDeployment
  BY <1>3 DEF CreateDeployment, TypeOK, Verdicts
<1>4. CASE ApiFails
  BY <1>4, BudgetKept DEF ApiFails, TypeOK, api, ApiCalls, TaskCalls
<1>5. CASE ApiUnanswered
  BY <1>5, BudgetKept DEF ApiUnanswered, TypeOK, Verdicts, TaskCalls
<1>. QED
  BY <1>1, <1>2, <1>3, <1>4, <1>5

(* The lookup and the creation of the task, and a death of the pod. *)
LEMMA TaskKeeps ==
  ASSUME IInv, Lookup \/ CreateTask \/ PassEndsEarly \/ Crash
  PROVE  IInv'
<1>. USE DEF IInv, Created, Published, ReferencesExist, EndpointIsReal,
             foundation, ComeBack
<1>1. CASE Lookup
  BY <1>1 DEF Lookup, TypeOK, api, cache, budget, TaskCalls
<1>2. CASE CreateTask
  BY <1>2 DEF CreateTask, TypeOK, cache, budget
<1>3. CASE PassEndsEarly
  BY <1>3, BudgetKept DEF PassEndsEarly, TypeOK, api, cache
<1>4. CASE Crash
  <2>1. MinioFault \/ ApiFault
    BY <1>4 DEF Crash
  <2>. QED
    BY <1>4, <2>1, BudgetKept DEF Crash, TypeOK, api, Verdicts
<1>. QED
  BY <1>1, <1>2, <1>3, <1>4

(* The foundation, the AI operator and the informer caches. *)
LEMMA EnvironmentKeeps ==
  ASSUME IInv, Environment
  PROVE  IInv'
<1>. USE DEF IInv, Created, Published, ReferencesExist, EndpointIsReal, pass
<1>1. ASSUME NEW s \in Secrets, SecretAppears(s)
      PROVE  IInv'
  <2>1. UNCHANGED <<bucket, uploaded, resources, deployment, task, served, seen, taskSeen,
                    pc, todo, predictor, minioFaults, apiFaults>>
    BY <1>1 DEF SecretAppears, api, cache, budget
  <2>2. secrets' \subseteq Secrets
    BY <1>1 DEF SecretAppears, TypeOK
  <2>3. TypeOK'
    BY <2>1, <2>2 DEF TypeOK
  <2>. QED
    BY <2>1, <2>3
<1>2. CASE Decide \/ Reconsider
  <2>1. UNCHANGED <<secrets, bucket, uploaded, resources, task, seen, taskSeen, pc, todo,
                    predictor, minioFaults, apiFaults>>
    BY <1>2 DEF Decide, Reconsider, foundation, cache, budget
  <2>2. deployment # "absent" /\ deployment' \in Verdicts
    BY <1>2 DEF Decide, Reconsider, Verdicts
  <2>3. served' \in BOOLEAN /\ (served => served')
    BY Zenon, <1>2 DEF Decide, Reconsider, TypeOK
  <2>4. deployment' = "endpoint" => served'
    BY <1>2 DEF Decide, Reconsider
  <2>5. TypeOK'
    BY <2>1, <2>2, <2>3 DEF TypeOK
  <2>. QED
    BY <2>1, <2>2, <2>3, <2>4, <2>5
<1>3. CASE ServingFails
  BY <1>3, BudgetKept DEF ServingFails, TypeOK, Verdicts, foundation, cache
<1>4. CASE SyncCache
  BY <1>4 DEF SyncCache, TypeOK, foundation, api, budget
<1>. QED
  BY <1>1, <1>2, <1>3, <1>4 DEF Environment

LEMMA Inductive == IInv /\ [Next]_vars => IInv'
<1>. SUFFICES ASSUME IInv, [Next]_vars
              PROVE  IInv'
  OBVIOUS
<1>1. CASE Worker
  BY <1>1, CopyKeeps, DeployKeeps, TaskKeeps DEF Worker
<1>2. CASE Crash
  BY <1>2, TaskKeeps
<1>3. CASE Environment
  BY <1>3, EnvironmentKeeps
<1>4. CASE UNCHANGED vars
  BY <1>4 DEF vars, foundation, api, cache, pass, budget, IInv, TypeOK, Created,
              Published, ReferencesExist, EndpointIsReal
<1>. QED
  BY <1>1, <1>2, <1>3, <1>4 DEF Next

(* The invariant holds in every state of every behaviour of setupAIModels,  *)
(* deployModelOnKubeflow and reconcileEventProcessingTask.                  *)
THEOREM Invariance == Spec => []IInv
BY Initially, Inductive, PTL DEF Spec

(* Every variable of the AI part keeps its type. *)
THEOREM TypeCorrect == Spec => []TypeOK
<1>1. IInv => TypeOK
  BY DEF IInv
<1>. QED
  BY <1>1, Invariance, PTL

(* deployModelOnKubeflow creates no AIDeployment before the AIRuntime and   *)
(* the AIModel it refers to, whichever calls fail and however often the     *)
(* pod dies.                                                                *)
THEOREM ReferencesAreThere == Spec => []ReferencesExist
<1>1. IInv => ReferencesExist
  BY DEF IInv
<1>. QED
  BY <1>1, Invariance, PTL

(* The Flink job is given only an endpoint that the AIDeployment has had,   *)
(* although getPredictorURL reads it from a cache.                          *)
THEOREM EndpointsAreReal == Spec => []EndpointIsReal
<1>1. IInv => EndpointIsReal
  BY DEF IInv
<1>. QED
  BY <1>1, Invariance, PTL
----------------------------------------------------------------------------
(* The copy of the model, setupAIModels.                                   *)

(* The calls of a pass that come after the copy.                           *)
AfterCopy == {"getDeployment", "getKFSecret", "createRuntime", "createModel", "createDeployment"}

(* Undisturbed, the walk is under way or the bucket holds all of the model, *)
(* and what follows the copy finds the bucket.                             *)
Copied ==
  minioFaults = 0 =>
    /\ pc = "putObject" => bucket /\ uploaded \cup todo = Files
    /\ bucket /\ pc # "putObject" => uploaded = Files
    /\ pc \in AfterCopy \/ deployment # "absent" => bucket
    /\ pc \in {"makeBucket", "putObject"} => deployment = "absent"

(* A server comes up with the whole model only.                            *)
Whole == deployment = "endpoint" \/ served => uploaded = Files

(* A copy that was broken off: the bucket is there, a file of it is not.   *)
BrokenOff == bucket /\ uploaded # Files /\ pc \notin {"makeBucket", "putObject"}

(* Faults are counted and never forgotten.                                 *)
LEMMA FaultsCount ==
  ASSUME TypeOK, [Next]_vars
  PROVE  /\ minioFaults' >= minioFaults /\ apiFaults' >= apiFaults
         /\ minioFaults' = 0 => minioFaults = 0 /\ ~MinioFault
         /\ apiFaults' = 0 => apiFaults = 0 /\ ~ApiFault
<1>. minioFaults \in Nat /\ apiFaults \in Nat
  BY AIModelsAssumption DEF TypeOK
<1>1. MinioFault \/ ApiFault \/ UNCHANGED budget
  BY DEF Next, Worker, Begin, GetStorageSecret, BucketExists, MakeBucket, PutObject, WalkDone,
         MinioFails, MinioUnanswered, GetDeployment, GetKFSecret, CreateRuntime, CreateModel,
         CreateResource, CreateDeployment, ApiFails, ApiUnanswered, PassEndsEarly, Lookup,
         CreateTask, Crash, Environment, SecretAppears, Decide, ServingFails, Reconsider,
         SyncCache, vars
<1>. QED
  BY <1>1 DEF MinioFault, ApiFault, budget

(* Nothing removes a file or the bucket.                                   *)
LEMMA CopyGrows ==
  [Next]_vars => uploaded \subseteq uploaded' /\ (bucket => bucket')
<1>1. CASE Worker
  BY <1>1
     DEF Worker, Begin, GetStorageSecret, BucketExists, MakeBucket, PutObject, WalkDone,
         MinioFails, MinioUnanswered, GetDeployment, GetKFSecret, CreateRuntime, CreateModel,
         CreateResource, CreateDeployment, ApiFails, ApiUnanswered, PassEndsEarly, Lookup,
         CreateTask, foundation
<1>2. CASE Crash \/ Environment \/ UNCHANGED vars
  BY <1>2 DEF Crash, Environment, SecretAppears, Decide, ServingFails, Reconsider, SyncCache,
              vars, foundation
<1>. QED
  BY <1>1, <1>2 DEF Next

LEMMA CopyInductive == TypeOK /\ Copied /\ [Next]_vars => Copied'
<1>. SUFFICES ASSUME TypeOK, Copied, [Next]_vars, minioFaults' = 0
              PROVE  Copied'
  BY DEF Copied
<1>. USE DEF TypeOK, Copied
<1>1. minioFaults = 0 /\ ~MinioFault
  BY FaultsCount
<1>2. CASE Begin \/ GetStorageSecret \/ BucketExists \/ WalkDone \/ GetDeployment \/ GetKFSecret
           \/ Lookup
  BY <1>1, <1>2
     DEF Begin, GetStorageSecret, BucketExists, WalkDone, GetDeployment, GetKFSecret, Lookup,
         Call, GoOn, ComeBack, AfterCopy, foundation, api, MinioCalls
<1>3. CASE MakeBucket \/ \E f \in Files : PutObject(f)
  BY <1>1, <1>3 DEF MakeBucket, PutObject, AfterCopy, api
<1>4. CASE \/ CreateRuntime \/ CreateModel \/ CreateDeployment \/ CreateTask
           \/ ApiFails \/ ApiUnanswered \/ PassEndsEarly
  BY <1>1, <1>4
     DEF CreateRuntime, CreateModel, CreateResource, CreateDeployment, CreateTask, ApiFails,
         ApiUnanswered, PassEndsEarly, Call, GoOn, ComeBack, ApiCalls, TaskCalls, AfterCopy,
         foundation, api
<1>5. CASE MinioFails \/ MinioUnanswered
  BY <1>1, <1>5 DEF MinioFails, MinioUnanswered
<1>6. CASE Crash
  BY <1>1, <1>6 DEF Crash, ComeBack, MinioCalls, AfterCopy, foundation, api
<1>7. CASE Environment \/ UNCHANGED vars
  BY <1>1, <1>7
     DEF Environment, SecretAppears, Decide, ServingFails, Reconsider, SyncCache, AfterCopy,
         vars, foundation, api, pass
<1>. QED
  BY <1>2, <1>3, <1>4, <1>5, <1>6, <1>7 DEF Next, Worker

LEMMA WholeInductive == TypeOK /\ Whole /\ [Next]_vars => Whole'
<1>. SUFFICES ASSUME TypeOK, Whole, [Next]_vars
              PROVE  Whole'
  OBVIOUS
<1>1. uploaded = Files => uploaded' = Files
  <2>1. uploaded' \subseteq Files
    BY DEF TypeOK, Next, Worker, Begin, GetStorageSecret, BucketExists, MakeBucket, PutObject,
           WalkDone, MinioFails, MinioUnanswered, GetDeployment, GetKFSecret, CreateRuntime,
           CreateModel, CreateResource, CreateDeployment, ApiFails, ApiUnanswered, Crash,
           PassEndsEarly, Lookup, CreateTask, Environment, SecretAppears, Decide, ServingFails,
           Reconsider, SyncCache, vars, foundation
  <2>. QED
    BY <2>1, CopyGrows
<1>2. /\ deployment' = "endpoint" => deployment = "endpoint" \/ uploaded = Files
      /\ served' => served \/ uploaded = Files
  <2>1. CASE Decide
    BY Zenon, <2>1 DEF Decide
  <2>2. CASE ~Decide
    <3>1. UNCHANGED served /\ deployment' \in {deployment, "undecided", "failed"}
      BY <2>2
         DEF Next, Worker, Begin, GetStorageSecret, BucketExists, MakeBucket, PutObject,
             WalkDone, MinioFails, MinioUnanswered, GetDeployment, GetKFSecret, CreateRuntime,
             CreateModel, CreateResource, CreateDeployment, ApiFails, ApiUnanswered, Crash,
             PassEndsEarly, Lookup, CreateTask, Environment, SecretAppears, ServingFails,
             Reconsider, SyncCache, vars, api
    <3>. QED
      BY <3>1
  <2>. QED
    BY <2>1, <2>2
<1>. QED
  BY <1>1, <1>2 DEF Whole

LEMMA BrokenInductive == TypeOK /\ BrokenOff /\ [Next]_vars => BrokenOff'
<1>. SUFFICES ASSUME TypeOK, BrokenOff, [Next]_vars
              PROVE  BrokenOff'
  OBVIOUS
<1>. USE DEF BrokenOff
<1>1. CASE Worker
  BY <1>1
     DEF Worker, Begin, GetStorageSecret, BucketExists, MakeBucket, PutObject, WalkDone,
         MinioFails, MinioUnanswered, GetDeployment, GetKFSecret, CreateRuntime, CreateModel,
         CreateResource, CreateDeployment, ApiFails, ApiUnanswered, PassEndsEarly, Lookup,
         CreateTask, foundation, Call, GoOn, ComeBack, MinioCalls
<1>2. CASE Crash \/ Environment \/ UNCHANGED vars
  BY <1>2 DEF Crash, Environment, SecretAppears, Decide, ServingFails, Reconsider, SyncCache,
              vars, foundation, pass, ComeBack
<1>. QED
  BY <1>1, <1>2 DEF Next

LEMMA CopyInvariance == Spec => [](Copied /\ Whole)
<1>1. Init => Copied /\ Whole
  BY DEF Init, Copied, Whole, AfterCopy
<1>. QED
  BY <1>1, CopyInductive, WholeInductive, TypeCorrect, PTL DEF Spec

(* deployModelOnKubeflow creates an AIDeployment for the whole model only,  *)
(* as long as nothing disturbed the copy: nothing but the pass that makes   *)
(* the bucket fills it, and it returns early if the walk does not get       *)
(* through.                                                                 *)
THEOREM CopiedFirst == Spec => [](minioFaults = 0 /\ deployment # "absent" => uploaded = Files)
<1>1. TypeOK /\ Copied => (minioFaults = 0 /\ deployment # "absent" => uploaded = Files)
  BY DEF TypeOK, Copied
<1>. QED
  BY <1>1, CopyInvariance, TypeCorrect, PTL

(* The Flink job never asks a model of which a part is missing.             *)
THEOREM WholeModelOnly == Spec => [](task = "model" => uploaded = Files)
<1>1. EndpointIsReal /\ Whole => (task = "model" => uploaded = Files)
  BY DEF EndpointIsReal, Whole
<1>. QED
  BY <1>1, CopyInvariance, EndpointsAreReal, PTL

(* Once the walk over models/ was broken off, the bucket that makeBucket    *)
(* made keeps every later pass from copying again: no AIDeployment ever has *)
(* an endpoint, not before and not after, and no Flink job asks the model.  *)
THEOREM BrokenOffForGood == Spec /\ <>BrokenOff => [](deployment # "endpoint" /\ task # "model")
<1>. DEFINE lacking == uploaded # Files
            unused == deployment # "endpoint" /\ task # "model"
<1>1. Whole /\ EndpointIsReal /\ lacking => unused
  BY DEF Whole, EndpointIsReal
<1>2. BrokenOff => lacking
  BY DEF BrokenOff
<1>3. TypeOK' /\ [Next]_vars /\ lacking' => lacking
  BY CopyGrows DEF TypeOK
<1>. HIDE DEF lacking, unused
<1>4. [](TypeOK /\ Whole /\ EndpointIsReal) /\ [][Next]_vars /\ <>BrokenOff => []unused
  BY <1>1, <1>2, <1>3, BrokenInductive, PTL
<1>5. Spec /\ <>BrokenOff => []unused
  BY <1>4, CopyInvariance, EndpointsAreReal, TypeCorrect, PTL DEF Spec
<1>. QED
  BY <1>5 DEF unused

(* So ModelServed fails of every behaviour with such a copy, whatever the   *)
(* files and the bounds, if the foundation is there.                        *)
THEOREM NotServedOnceBrokenOff ==
  Spec /\ <>BrokenOff /\ <>[](secrets = Secrets) => ~ModelServed
<1>1. (deployment # "endpoint" /\ task # "model") => ~(deployment = "endpoint")
  OBVIOUS
<1>. QED
  BY <1>1, BrokenOffForGood, PTL DEF ModelServed

----------------------------------------------------------------------------
(* The verdict on the model, and who waits for it.                         *)

(* With the foundation in place and without faults there is no verdict but  *)
(* an endpoint, and no pass gets past the AI part before it has seen it.    *)
Patient ==
  minioFaults = 0 /\ apiFaults = 0 =>
    /\ secrets = Secrets
    /\ deployment # "failed" /\ seen # "failed"
    /\ seen = "endpoint" => deployment = "endpoint"
    /\ pc = "lookup" => seen = "endpoint"
    /\ pc = "createTask" => predictor
    /\ task # "rules"

LEMMA PatientInductive == IInv /\ Copied /\ Patient /\ [Next]_vars => Patient'
<1>. SUFFICES ASSUME IInv, Copied, Patient, [Next]_vars, minioFaults' = 0, apiFaults' = 0
              PROVE  Patient'
  BY DEF Patient
<1>. USE DEF Patient
<1>1. minioFaults = 0 /\ ~MinioFault /\ apiFaults = 0 /\ ~ApiFault
  BY FaultsCount DEF IInv
<1>2. CASE Begin \/ GetStorageSecret \/ BucketExists \/ MakeBucket \/ WalkDone
           \/ (\E f \in Files : PutObject(f)) \/ GetKFSecret \/ CreateRuntime \/ CreateModel
  BY <1>1, <1>2
     DEF Begin, GetStorageSecret, BucketExists, MakeBucket, WalkDone, PutObject, GetKFSecret,
         CreateRuntime, CreateModel, CreateResource, Call, GoOn, Secrets, foundation, api, cache
<1>3. CASE GetDeployment \/ CreateDeployment \/ Lookup \/ CreateTask
  BY <1>1, <1>3
     DEF GetDeployment, CreateDeployment, Lookup, CreateTask, Call, GoOn, ComeBack, IInv,
         TypeOK, Verdicts, foundation, api, cache
<1>4. CASE MinioFails \/ MinioUnanswered \/ ApiFails \/ ApiUnanswered \/ PassEndsEarly \/ Crash
  BY <1>1, <1>4 DEF MinioFails, MinioUnanswered, ApiFails, ApiUnanswered, PassEndsEarly, Crash
<1>5. CASE Environment
  <2>1. deployment = "undecided" => uploaded = Files
    BY <1>1 DEF Copied
  <2>. QED
    BY <1>1, <1>5, <2>1
       DEF Environment, SecretAppears, Decide, ServingFails, Reconsider, SyncCache, IInv,
           TypeOK, Secrets, foundation, api, cache, pass
<1>6. CASE UNCHANGED vars
  BY <1>1, <1>6 DEF vars, foundation, api, cache, pass
<1>. QED
  BY <1>2, <1>3, <1>4, <1>5, <1>6 DEF Next, Worker

(* With the foundation installed before the demo and no call that fails,    *)
(* no Flink job is submitted that keeps to the rules: the pass waits.       *)
THEOREM TaskIsPatient ==
  Spec /\ secrets = Secrets /\ [](minioFaults + apiFaults = 0) => [](task # "rules")
<1>1. Init /\ secrets = Secrets => Patient
  BY DEF Init, Patient
<1>2. TypeOK /\ Patient /\ minioFaults + apiFaults = 0 => task # "rules"
  BY AIModelsAssumption DEF TypeOK, Patient
<1>3. Spec /\ secrets = Secrets => []Patient
  BY <1>1, PatientInductive, Invariance, CopyInvariance, PTL DEF Spec
<1>. QED
  BY <1>2, <1>3, TypeCorrect, PTL

(* What TaskAwaitsModel asks of the scheduling is that the task is created  *)
(* at all.                                                                  *)
THEOREM CreatedIsEnough == Spec /\ <>(task # "absent") => TaskAwaitsModel
<1>1. TypeOK /\ task # "rules" /\ task # "absent" => task = "model"
  BY DEF TypeOK
<1>. QED
  BY <1>1, TaskIsPatient, TypeCorrect, PTL DEF TaskAwaitsModel

=============================================================================
