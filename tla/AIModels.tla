-------------------------------- MODULE AIModels --------------------------------
(***************************************************************************)
(* The AI part of a pass in detail, the stage AIDeployment of module       *)
(* Reconciler: setupAIModels copies the bundled model to a MinIO bucket,   *)
(* deployModelOnKubeflow creates the AI resources and waits for a verdict, *)
(* and reconcileEventProcessingTask gives the Flink job the endpoint it    *)
(* finds then.  One worker runs one pass after the other; the other stages *)
(* of a pass appear as the chance to come back later.                      *)
(***************************************************************************)
EXTENDS Integers

CONSTANTS
  Files,         \* the files under models/
  MinioFaults,   \* bound: MinIO calls that fail, crashes between them
  ApiFaults      \* bound: other calls that fail, servers that do not start

ASSUME AIModelsAssumption ==
  /\ MinioFaults \in Nat
  /\ ApiFaults \in Nat

VARIABLES
  secrets,     \* which of the two secrets of the AI foundation are there
  bucket,      \* the bucket exists
  uploaded,    \* the files in it
  resources,   \* the AIRuntime and the AIModel, once created
  deployment,  \* the AIDeployment: absent, or what its Ready condition says
  seen,        \* the same in the informer cache
  task,        \* the EventProcessingTask: absent, or which risk map it runs
  taskSeen,    \* it is in the informer cache
  pc,          \* the next call of the pass
  todo,        \* the files the walk has yet to upload
  predictor,   \* an endpoint was found in this pass
  served,      \* history: the AIDeployment has had an endpoint
  minioFaults, apiFaults

foundation == <<secrets, bucket, uploaded>>
api        == <<resources, deployment, task, served>>
cache      == <<seen, taskSeen>>
pass       == <<pc, todo, predictor>>
budget     == <<minioFaults, apiFaults>>
vars       == <<foundation, api, cache, pass, budget>>

Secrets == {"storage", "kfserving"}

\* "undecided": no Ready condition, Unknown or Pending; "endpoint": Ready with
\* an endpoint; "failed": Ready without one, or not Ready.
Verdicts == {"absent", "undecided", "endpoint", "failed"}

MinioCalls == {"bucketExists", "makeBucket", "putObject"}
ApiCalls   == {"getStorageSecret", "getDeployment", "getKFSecret",
               "createRuntime", "createModel", "createDeployment"}
TaskCalls  == {"lookup", "createTask"}

TypeOK ==
  /\ secrets \subseteq Secrets
  /\ bucket \in BOOLEAN
  /\ uploaded \subseteq Files
  /\ resources \subseteq {"runtime", "model"}
  /\ deployment \in Verdicts
  /\ seen \in Verdicts
  /\ task \in {"absent", "rules", "model"}
  /\ taskSeen \in BOOLEAN
  /\ pc \in {"idle"} \cup MinioCalls \cup ApiCalls \cup TaskCalls
  /\ todo \subseteq Files
  /\ predictor \in BOOLEAN
  /\ served \in BOOLEAN
  /\ minioFaults \in 0..MinioFaults
  /\ apiFaults \in 0..ApiFaults

Init ==
  /\ secrets \in SUBSET Secrets  \* the foundation may be installed before the demo
  /\ bucket = FALSE
  /\ uploaded = {}
  /\ resources = {}
  /\ deployment = "absent"
  /\ seen = "absent"
  /\ task = "absent"
  /\ taskSeen = FALSE
  /\ pc = "idle"
  /\ todo = {}
  /\ predictor = FALSE
  /\ served = FALSE
  /\ minioFaults = 0
  /\ apiFaults = 0

----------------------------------------------------------------------------
(* One pass. *)

Call(next) == pc' = next /\ UNCHANGED <<todo, predictor>>

\* Return true: Reconcile comes back in thirty seconds.
ComeBack == pc' = "idle" /\ todo' = {} /\ predictor' = FALSE

GoOnLater == ComeBack  \* mutant: Reconcile returns the error

\* Return false, or an error that Reconcile only logs: the other stages follow,
\* in the end the task.
GoOn == pc' = "lookup" /\ todo' = {} /\ UNCHANGED predictor

MinioFault ==
  /\ minioFaults < MinioFaults
  /\ minioFaults' = minioFaults + 1
  /\ UNCHANGED apiFaults

ApiFault ==
  /\ apiFaults < ApiFaults
  /\ apiFaults' = apiFaults + 1
  /\ UNCHANGED minioFaults

Begin ==
  /\ pc = "idle"
  /\ Call("getStorageSecret")
  /\ UNCHANGED <<foundation, api, cache, budget>>

GetStorageSecret ==
  /\ pc = "getStorageSecret"
  /\ IF "storage" \in secrets THEN Call("bucketExists") ELSE GoOn
  /\ UNCHANGED <<foundation, api, cache, budget>>

\* The bucket is the mark that the model was copied.
BucketExists ==
  /\ pc = "bucketExists"
  /\ Call(IF bucket THEN "getDeployment" ELSE "makeBucket")
  /\ UNCHANGED <<foundation, api, cache, budget>>

MakeBucket ==
  /\ pc = "makeBucket"
  /\ bucket' = TRUE
  /\ pc' = "putObject"
  /\ todo' = Files
  /\ UNCHANGED <<secrets, uploaded, predictor, api, cache, budget>>

\* The walk over models/ uploads one file after the other.
PutObject(f) ==
  /\ pc = "putObject"
  /\ f \in todo
  /\ uploaded' = uploaded \cup {f}
  /\ todo' = todo \ {f}
  /\ UNCHANGED <<secrets, bucket, pc, predictor, api, cache, budget>>

WalkDone ==
  /\ pc = "putObject"
  /\ todo = {}
  /\ Call("getDeployment")
  /\ UNCHANGED <<foundation, api, cache, budget>>

\* A MinIO call returns an error: whatever is left of the walk is dropped.
MinioFails ==
  /\ pc \in MinioCalls
  /\ MinioFault
  /\ GoOn
  /\ UNCHANGED <<foundation, api, cache>>

\* MinIO carries the call out, but the answer is an error.
MinioUnanswered ==
  /\ MinioFault
  /\ \/ pc = "makeBucket" /\ bucket' = TRUE /\ UNCHANGED uploaded
     \/ /\ pc = "putObject"
        /\ \E f \in todo : uploaded' = uploaded \cup {f}
        /\ UNCHANGED bucket
  /\ GoOn
  /\ UNCHANGED <<secrets, api, cache>>

GetDeployment ==
  /\ pc = "getDeployment"
  /\ \/ seen = "absent" /\ Call("getKFSecret")
     \/ seen = "undecided" /\ ComeBack
     \/ seen \in {"endpoint", "failed"} /\ GoOn
  /\ UNCHANGED <<foundation, api, cache, budget>>

GetKFSecret ==
  /\ pc = "getKFSecret"
  /\ IF "kfserving" \in secrets THEN Call("createRuntime") ELSE GoOn
  /\ UNCHANGED <<foundation, api, cache, budget>>

CreateNewResource(r, call, next) ==  \* mutant: AlreadyExists is an error
  /\ pc = call
  /\ resources' = resources \cup {r}
  /\ IF r \in resources THEN GoOn ELSE Call(next)
  /\ UNCHANGED <<deployment, task, served, foundation, cache, budget>>

\* A resource that exists already is as good as a new one.
CreateResource(r, call, next) ==
  /\ pc = call
  /\ resources' = resources \cup {r}
  /\ Call(next)
  /\ UNCHANGED <<deployment, task, served, foundation, cache, budget>>

CreateRuntime == CreateResource("runtime", "createRuntime", "createModel")
CreateModel   == CreateResource("model", "createModel", "createDeployment")

CreateDeploymentNoWait ==  \* mutant: false, nil is returned
  /\ pc = "createDeployment"
  /\ deployment' = IF deployment = "absent" THEN "undecided" ELSE deployment
  /\ GoOn
  /\ UNCHANGED <<resources, task, served, foundation, cache, budget>>

CreateDeployment ==
  /\ pc = "createDeployment"
  /\ deployment' = IF deployment = "absent" THEN "undecided" ELSE deployment
  /\ ComeBack
  /\ UNCHANGED <<resources, task, served, foundation, cache, budget>>

ApiFailsUnnoticed ==  \* mutant: a creation that fails does not end the function
  /\ pc \in {"createRuntime", "createModel"}
  /\ ApiFault
  /\ Call(IF pc = "createRuntime" THEN "createModel" ELSE "createDeployment")
  /\ UNCHANGED <<foundation, api, cache>>

ApiFails ==
  /\ pc \in ApiCalls
  /\ ApiFault
  /\ GoOn
  /\ UNCHANGED <<foundation, api, cache>>

\* The API server carries the creation out, but its answer is lost.
ApiUnanswered ==
  /\ ApiFault
  /\ \/ pc = "createRuntime" /\ resources' = resources \cup {"runtime"} /\ UNCHANGED deployment
     \/ pc = "createModel" /\ resources' = resources \cup {"model"} /\ UNCHANGED deployment
     \/ /\ pc = "createDeployment"
        /\ deployment = "absent"
        /\ deployment' = "undecided"
        /\ UNCHANGED resources
  /\ GoOn
  /\ UNCHANGED <<task, served, foundation, cache>>

\* Any other stage returns early, or the task's creation fails.
PassEndsEarly ==
  /\ pc \in TaskCalls
  /\ ApiFault
  /\ ComeBack
  /\ UNCHANGED <<foundation, api, cache>>

LookupAnyVerdict ==  \* mutant: the Ready condition is not looked at
  /\ pc = "lookup"
  /\ IF taskSeen THEN ComeBack
     ELSE pc' = "createTask" /\ predictor' = (seen # "absent") /\ UNCHANGED todo
  /\ UNCHANGED <<foundation, api, cache, budget>>

\* The task is looked up first, then the endpoint; an error of the latter is
\* an empty endpoint.
Lookup ==
  /\ pc = "lookup"
  /\ IF taskSeen THEN ComeBack
     ELSE pc' = "createTask" /\ predictor' = (seen = "endpoint") /\ UNCHANGED todo
  /\ UNCHANGED <<foundation, api, cache, budget>>

\* The task is created once and never updated.
CreateTask ==
  /\ pc = "createTask"
  /\ task' = IF task # "absent" THEN task ELSE IF predictor THEN "model" ELSE "rules"
  /\ ComeBack
  /\ UNCHANGED <<resources, deployment, served, foundation, cache, budget>>

Worker ==
  \/ Begin \/ GetStorageSecret \/ BucketExists \/ MakeBucket \/ WalkDone
  \/ (\E f \in Files : PutObject(f))
  \/ GetDeployment \/ GetKFSecret \/ CreateRuntime \/ CreateModel
  \/ CreateDeployment \/ Lookup \/ CreateTask
  \/ MinioFails \/ MinioUnanswered \/ ApiFails \/ ApiUnanswered \/ PassEndsEarly

\* The pod dies: in the walk over models/ that is a MinIO fault.
Crash ==
  /\ IF pc \in MinioCalls THEN MinioFault ELSE ApiFault
  /\ ComeBack
  /\ seen' = deployment
  /\ taskSeen' = (task # "absent")
  /\ UNCHANGED <<foundation, api>>

----------------------------------------------------------------------------
(* The AI foundation, the AI operator and the informer cache. *)

SecretAppears(s) ==
  /\ s \notin secrets
  /\ secrets' = secrets \cup {s}
  /\ UNCHANGED <<bucket, uploaded, api, cache, pass, budget>>

\* Model serving loads the model from the bucket; it is ready with all of it.
Decide ==
  /\ deployment = "undecided"
  /\ deployment' = IF uploaded = Files THEN "endpoint" ELSE "failed"
  /\ served' = (served \/ uploaded = Files)
  /\ UNCHANGED <<resources, task, foundation, cache, pass, budget>>

\* Model serving cannot start the server for a reason of its own.
ServingFails ==
  /\ deployment = "undecided"
  /\ ApiFault
  /\ deployment' = "failed"
  /\ UNCHANGED <<resources, task, served, foundation, cache, pass>>

\* Such a server is tried again; one that lacks a part of the model stays failed.
Reconsider ==
  /\ deployment = "failed"
  /\ uploaded = Files
  /\ deployment' = "undecided"
  /\ UNCHANGED <<resources, task, served, foundation, cache, pass, budget>>

SyncCache ==
  /\ cache # <<deployment, task # "absent">>
  /\ \/ seen' = deployment /\ UNCHANGED taskSeen
     \/ taskSeen' = (task # "absent") /\ UNCHANGED seen
  /\ cache' # cache
  /\ UNCHANGED <<foundation, api, pass, budget>>

Environment ==
  \/ (\E s \in Secrets : SecretAppears(s))
  \/ Decide \/ ServingFails \/ Reconsider \/ SyncCache

Next == Worker \/ Crash \/ Environment

Spec == Init /\ [][Next]_vars

(* Passes come again and again (timers, resync) and go on; the AI operator *)
(* decides; the cache follows.  Nobody need ever install the foundation.   *)
Fairness ==
  /\ WF_vars(Worker)
  /\ WF_vars(Decide)
  /\ WF_vars(Reconsider)
  /\ WF_vars(SyncCache)

FairSpec == Spec /\ Fairness

----------------------------------------------------------------------------
\* An AIDeployment refers to an AIRuntime and an AIModel that exist, whichever
\* of the three creations failed in whichever pass.
ReferencesExist == deployment # "absent" => resources = {"runtime", "model"}

\* The foundation in place, the model gets served in the end.
ModelServed == <>[](secrets = Secrets) => <>(deployment = "endpoint")

\* The same unless the copy was disturbed: other calls may fail.
ServedIfCopied == [](minioFaults = 0) => ModelServed

\* With the foundation installed before the demo and no call that fails, the
\* Flink job asks the model: the pass waits for the verdict on the model before
\* it submits the job.  (One failure in the AI part, which is only logged, is
\* enough for a job that keeps to the rules for good.)
TaskAwaitsModel ==
  secrets = Secrets /\ [](minioFaults + apiFaults = 0) => <>(task = "model")
=============================================================================
