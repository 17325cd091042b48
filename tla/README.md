# Models and proofs of the demo cartridge

This directory holds TLA+ models of the IBM Automation Foundation demo cartridge: of the
operator that provisions the demo, of the data producer and of the Flink job that carry
its data, the TLC configurations that check them, and proofs that TLAPS checks.

    tlc -workers 2 -config Reconciler_faults.cfg MCReconciler    # any run of PROJECT.json
    tlapm ReconcilerProofs.tla

Every definition that stands for code is listed in PROJECT.json ("map") with the lines it
stands for.

## 1. The system

One Go binary (`main.go`) runs as operator, producer or server, by its `FUNCTION` variable;
the Flink job is a Java program of its own.

| Part | State it keeps | Operations | Talks to |
|---|---|---|---|
| Reconcile loop, `controllers/iafdemo_controller.go` | none: what a pass knows it looks up; the work queue, timers and cache are controller-runtime's | one pass: a sequence of look up / create / wait, ended by success, an error or a requeue after 30 s | API server (reads through a cache), Elasticsearch |
| Event streams, `reconcile_eventstream.go` | Kafka topic resources | create or find, twice | API server |
| Event processor, task, indices, `reconcile_eventprocessor.go` | the two resources, two Elasticsearch indices | create or find; `PUT` | API server, Elasticsearch, predictor URL from the AIDeployment |
| AI models, `reconcile_aimodel.go` | MinIO bucket, AIRuntime, AIModel, AIDeployment | copy the model, create the resources, wait for a verdict | MinIO, API server |
| Knative, `reconcile_knative.go` | KafkaSource, InMemoryChannel, Subscription | create or find, if `USE_KNATIVE` | API server |
| Microservices, `reconcile_microservice.go` | Deployment, Service, Route of producer and server | create or find | API server |
| Operator start, `pkg/operator/operator.go` | the scheme of known kinds | start, die, start again | controller-runtime |
| Producer, `pkg/producer/producer.go` | counters of sequences and groups | submit the sample, pause, wait for good | Kafka |
| Flink job, `demo-flink-processor` | positions in the topic, buffers of three sinks | read, filter, assess, index, pass on | Kafka, Elasticsearch, predictor |
| Server, `pkg/server/server.go` | none | echo and log a request | Route, Knative |

What makes this code hard to test:

- A pass may end at any of some forty calls, and the next one starts from the top with a cache
  that may not show what the last one created. Only the sum of all passes counts.
- Owned kinds are not watched (`SetupWithManager` has no `Owns`). Progress depends on no return
  of `Reconcile` losing the key, and repair of a provisioned demo on the ten-hour resync.
- Object names are fixed, so two IAFDemos in a namespace share the objects, but one of them
  owns them and takes them along when it is deleted.
- Errors of the AI stage are only logged, and the task that depends on it is created once.
- The bucket marks a finished upload but is made before it.
- Producer and task are pods that are run again, and each run starts from the beginning;
  sarama and the Kafka client of the job repeat attempts that may have succeeded; the job keeps no checkpoint.
- The names of variables and indices are put together in different places.
- What everybody connects to is read from a status that other operators keep changing, endpoint,
  secret and certificate one after the other, and what is made of it is never updated.
- Producer and server share their labels, so that requests for one reach the other.
- How the job assesses an invoice is decided once, when the task is created; the model it asks
  lives, fails and answers on its own, and each failure ends the job.

PROJECT.json "hazards" lists these with their lines and the properties that watch them.

## 2. Modules

| Module | Stands for |
|---|---|
| `Provisioning` | What the operator promises, as an abstract specification: the stages in their order, nothing behind a gate before the gate was Ready |
| `Reconciler` | `Reconcile` with all it calls, controller-runtime around it, the cluster around that |
| `AIModels` | The AI stage in detail and the task that depends on it |
| `Connections` | The part of a pass behind the gates in detail: which endpoints, secrets and listeners it uses, what Elasticsearch answers, the microservices' pods and the requests that reach them |
| `Risk` | `AIModels` composed with the job's assessment of late invoices, by rules or by the model |
| `Producer` | The data producer's pod |
| `FlinkJob` | The task's submissions and the job |
| `Pipeline` | `Producer` and `FlinkJob` sharing the raw topic |
| `ReconcilerProofs`, `ConnectionsProofs`, `AIModelsProofs`, `RiskProofs`, `ProducerProofs`, `FlinkJobProofs`, `PipelineProofs` | Theorems and their proofs |
| `MC...` | Instances for TLC |

In the modules a definition with the comment "mutant" is a plausible mistake in the one that
follows it; PROJECT.json says which property each breaks.

### Reconciler

The objects that a pass looks up and creates are numbered stages 1..19 in the order of the
code. The worker's state is the CR it reconciles (`who`), the stage and the next call of that
stage (`at`): `"get"` and `"create"` of an object, `"check"` of a gate's condition or a topic,
`"info"` for the status of CartridgeRequirements, `"put"` for an index, `"ai"` for the AI stage.
Each call is a step, so anything may happen between two calls. A pass ends in `Finish`
(`return ctrl.Result{}, nil`) or in `Requeue`, which stands for both an error and a
`RequeueAfter`: each brings the key back after a delay.

Around it: `queue` and `timers` (the work queue, delayed requeues), `crCache`, `cached`,
`cachedReady` (the informer's view, which `SyncCache` and `ObserveCR` bring up to date),
`Resync`, `Restart`; users that create and delete CRs and delete objects; the foundation's
operators that make a gate Ready or not Ready; the verdict on the AIDeployment; the garbage
collector. One worker runs, as `MaxConcurrentReconciles` is left at 1.

Faults, drawn from one budget: an error of any call, a Create or PUT that is carried out but
not answered, a gate that stops being Ready, an object deleted by hand, a death of the
operator. AlreadyExists after a stale read needs no fault.

Abstractions: the contents of objects; several calls on one object with the same outcome; the
AI stage is one call with the outcomes of `AIModels` (it comes back, or goes on), where
AIRuntime and AIModel are left to `AIModels`; of a CR's deletion and creation there is one each.
The stages of a Deployment, a Service and a Route of a microservice share the first one's
reading of the status.

### AIModels

One pass after the other over the calls of `setupAIModels` and `deployModelOnKubeflow`, then
`Lookup` and `CreateTask` of `reconcileEventProcessingTask`; the other stages appear as
`PassEndsEarly`. `GoOn` is a return of false or of an error (logged), `ComeBack` a return of
true. MinIO calls and API calls fail from separate budgets, with or without having been carried
out; a death of the pod counts as one of them. `Verdicts` are the readings the code
distinguishes in the Ready condition. The AI foundation is external: it may be installed at any
time or never, and serves a model when the bucket holds all of `Files`; it may fail to at first for
a reason of its own (`ServingFails`), and then tries again.

### Connections

`Reconciler` knows of the status of CartridgeRequirements, of secrets and of Elasticsearch only
whether a call succeeds. `Connections` is about what the calls exchange. `status` is one of `Statuses`, each
a list of Elasticsearch endpoints (scope, URI, secret, certificate) and a list of Kafka listeners, and
`Publish` replaces it at any time. `EsInfo` is what the loop of `getElasticsearchInfo` is left with, which does
not break; `TLSEndpoint` is the first match of a loop that does. `read` and `sent` are what the running function
holds of the status and of the secret (`secretSays`, which lags behind `password`). `PutIndex` is `doRequest` with
each of its answers, `PutUnanswered` the request that was carried out but timed out or was answered with
no JSON. `CreateKafkaSource` ends the pass (module `Reconciler` says why). `Panics` is the dereference
of a nil pointer; whether an endpoint without secrets has one there (`pointers`) depends on the operator
that wrote the status, and so does the initial state. `PodStarts` waits for the secrets the environment
refers to, and `CanRun` is what makes a pod end at once. `Ask` is a request on the server's Route that the Service
hands to one of the pods with the common label.
`Provisioning` is module Provisioning once more: `Built` numbers the nine things a pass leaves behind, from the raw
index to the server's Route, of which only the KafkaSource may be left out.
Abstractions: looking an object up and creating it is one step, as `Reconciler` takes the two apart; the CR
and its objects are not deleted; the EventProcessingTask between the indices and the microservices is left
out; contents of certificates.

### Risk

Extends `AIModels` by the job: `Submit` builds it from what `CreateTask` put into the task, and its invoice stream reads
`messages`, one of the `Topics`, one by one (`next`). `Drop` is what the two filters do, `AssessByRules` and `AssessByModel` what the two
maps do, appending to `assessed`, which stands for both sinks. Answers of the model are in tenths, so that `RoundUp` is
`setScale(0, RoundingMode.UP)`, and `IntValue` is `intValue()` for an int of the size `IntMax`. `tls` is the
environment `ModelRestClient` finds; with a TLS version but no readable truststore there is no client. A job
fails for good, as in `FlinkJob`:

- at a message the invoice stream cannot read (`CannotRead`), or that the raw stream cannot, which reads the same topic at a pace
  of its own and so may be anywhere in it (`RawCannotRead`);
- at a late invoice the model cannot be asked about (`CannotAssess`), or one without an ID, of which the Kafka sink's
  schema makes no CloudEvent (`CannotSend`); an invoice that is dropped may lack its ID;
- whenever a source, a sink, a call to the model or Flink fails (`JobFails`), from a budget of its own (`JobFaults`).

The budget is the job's, so a behaviour of `RiskSpec` is one of `AIModels!Spec`.
Abstractions: one job, and one topic that is there from the beginning; the raw copy, buffers and repeated sends, which are `FlinkJob`'s; a message that only
one of the two classes can be made of; the name of the model in the result.

### Producer

`Env` is the environment `reconcileMicroservice` makes, `Atoi` what `Start` makes of it. `i`,
`row`, `numSent` are the code's counters (`i`, the range over the sample, `numSent`); `pc` the
place in the program. `Send`, `Retry` and `GiveUp` are the outcomes of sarama's synchronous
send: an attempt that fails may have appended the message. A row that is given up is logged
only; `undelivered` counts those. `Restart` is a death of the pod, `log.Fatal` included.
Abstractions: the contents of a message are its row; the length of a pause.

### FlinkJob

`task` is whether the pod of the EventProcessingTask has yet to submit; `SubmitUnanswered` is a
pod that fails after the job has started, which `RestartPolicy: OnFailure` runs again;
`RecreateTask` is the deletion that DEVELOPMENT.md describes. Per job, `pos` holds five positions
in the topic: how far each of the two sources has read and each of the three sinks written; what
lies between is what a sink holds back. `SendRisk` is a send that is answered; `Resend` is an attempt the broker has carried out for some of the messages but
whose answer is lost: the client behind `FlinkKafkaProducer` has them to send still, is not idempotent, and the job does not notice. `repeats` counts those. `JobFails` lets any part of that out and ends the job
for good, as nothing calls `enableCheckpointing` and Flink then has no restart strategy.
`Spec` writes to the topic up to `MaxMessages`, for TLC; `OpenSpec` is the same without that bound, for a topic that
another module fills. `CaughtUp` is a running job that has read everything and holds nothing back.
Abstractions: a message is one the filters let through (`Risky`) or not; a message the schemas refuse
is one of the reasons of `JobFails`; what risk an invoice is given is `Risk`'s.

### Pipeline

Instances of both with the topic in common; each step is a step of one of them. The job's
actions do not append to the raw topic. `EndToEnd` bounds the documents of a row from both sides by the state of the two:
above by the jobs started, the attempts of the anomaly sink that were repeated and what the producer's pods may have sent, and, once the data is `Through`, below by what the
pod did not lose.

## 3. What is checked

| Run | Question | Bounds |
|---|---|---|
| `Reconciler_faults` | `TypeOK`, `InOrder`, `ReadyBefore`, `NoLostWakeup`, `SuccessMeansDone`, and the refinement `Provisioning` | 1 CR that may be deleted, a stage of each sort (`EachSort`), 2 faults |
| `Reconciler_live` | `Provisioned`: the whole demo is there in the end, for good | 1 CR, all stages, 1 fault |
| `Reconciler_pair` | `Provisioned`, `CleanTeardown` with two CRs, one of them deleted, and `USE_KNATIVE=true` | 2 CRs, the path to Knative and a stage behind it, no fault |
| `Reconciler_noknative` | violation of `KnativeConnected` | no fault |
| `Connections_pass` | `TypeOK`, `CredentialsStayInside`, `ListenersMatch`, the refinement `Provisioning`, `Connected`, `ServerAnswers`, `ProducerRuns` | 4 statuses (`SomeStatuses`), 1 change of the password, 1 fault, both settings of `USE_KNATIVE` and of `pointers` |
| `Risk_pass` | `RiskTypeOK`, `ReferencesExist`, `ServedIfCopied`, `TaskAwaitsModel`; `LateInvoicesInOrder`, `RiskGrows`, `ThresholdsExact`, `ModelWasThere`, `FailsForAReason`, `LateInvoicesAssessed` | three files, 1 MinIO fault, 2 others, 1 failure of a source, sink or call of the job, 3 topics of up to 7 messages, 3 models |
| `AIModels_notserved` | violation of `ModelServed` | 1 MinIO fault |
| `Producer_pod` | `TypeOK`, `NothingLost`, `DuplicatesExplained`, `InSampleOrder`, `BurstBounded`, `RepititionsHonoured`, `Completes` | 5 rows, 24 settings, 2 failed attempts with one retry, 1 restart, 3 sequences |
| `Producer_repetitions` | violation of `RepititionsHonoured` in the operator's environment | no fault |
| `FlinkJob_jobs` | `TypeOK`, `DocumentsExplained`, `NothingDropped`, `AllStored` | 2 jobs, 2 messages of 2 kinds, buffers of 2, 2 faults |
| `Pipeline_stored` | `EndToEnd`, `DemoCounts`, `NothingMissing` | 2 rows, 1 sequence, 2 jobs, 1 failed attempt, 1 adverse event of the job |
| `Pipeline_readme` | violation of `ReadmeSearch` | 3 rows, 1 job, no fault |

Why the bounds are enough:

- `Plan`: the code treats stages of one sort alike (gate, AI, topic, plain object, index, stage
  that reads the status, unregistered kind); each run keeps one of every sort its question is
  about, and `Reconciler_live` keeps all. The proofs hold for any `Plan`.
- `MaxLag` = 1: the cache may be behind on one object at a time, which is enough for a stale
  read at every stage. The proofs hold for any lag.
- `MaxFaults`: two faults give a fault met while recovering from another.
- `FIFOCollector`: the collector removes orphans in the order of stages, in the runs about
  liveness only, where the order does not matter; `Reconciler_faults` leaves it free.
- `Doomed`: with one CR doomed of two, the other has to take over. With Knative nothing behind the
  unregistered kind is ever built, so "the whole demo" is what a pass can get to (`Reachable`).
- `SomeStatuses`: nothing published yet; one internal endpoint among external ones, in either order, with and without
  a certificate; two internal ones; listeners with and without secrets, in either order, and a missing plain one. The
  proofs hold for any set of statuses.
- `Rotations`, `Faults`: one change of the password between any two steps, and one failure anywhere, in the
  middle of recovering from the other.
- `SomeTopics`, `SomeModels`: invoices and answers on both sides of 5000, 90, 50 and 100, an amount of 0, an answer
  without a prediction, one that an int does not hold. The topic with all the thresholds can be read to its end, with an invoice without an ID that
  is not late: by the rules, every late invoice has to be assessed unless `JobFails`. In the other two, a message that is no invoice and a late
  one without an ID stand between late invoices.
- `IntMax` = 127 stands for 2^31 - 1: what counts is that the thresholds fit and one answer does not.
- The producer's groups of 2 and 3 leave a rest of a sample of 5, 5 does not, 6 never pauses and 0
  always; the numbers of sequences are an endless one, none, two and the default. `MaxRetry` is
  10 in the code; one retry distinguishes a retried from a given-up attempt. `MaxSequences`
  cuts off the endless one only.
- `BulkMax` = 2 of 3000 makes buffers that are full, and ones that only the interval empties.

Fairness. controller-runtime's worker goes on as long as its process runs, timers fire, watches
deliver and informers resync (`WF`); the work queue is first-in first-out and drops no key, so a key
that is queued again and again is taken (`SF` of `Begin`). The foundation's operators, the AI operator and the
collector do their work (`WF`); users owe nothing. In `AIModels` the worker's and the AI operator's steps are
weakly fair, the installation of the foundation is not; in `Risk` so are the submission and the handling of the next message (`Handle`), while `RawCannotRead` and `JobFails` are never owed. In `Connections`
the operator, the update of the Secret and the start of pods are weakly fair, and `Ask` of the server's pod is strongly fair: a
Service spreads the requests of a client that keeps asking over all pods it selects. Nobody has to publish anything;
`Connected`, `ServerAnswers` and `ProducerRuns` speak of behaviours in which a complete status and its secrets are there for good. The producer's process runs on (`WF` of
`Run`), its death is not fair. The job reads on and its timers flush (`WF` per action and job); a failure is never owed. Faults are
bounded, so liveness speaks of what happens once they cease. Where `CHECK_DEADLOCK FALSE` stands, the system may really stop: a deleted
demo, a producer that waits forever, a failed job.

## 4. What the checks found

Each is a violation run and a finding of PROJECT.json.

- **Knative.** The lookups use `messaging/v1beta1` while only `messaging/v1` is registered: with
  `USE_KNATIVE=true` each pass fails there, and the microservices behind are not created either.
- **The model's copy.** A failure between `MakeBucket` and the last `PutObject` leaves the bucket, and
  with it the mark that the copy is done: the model is never served.
- **Repetitions.** The operator sets `SAMPLE_REPITITIONS`, the producer reads `SEQUENCE_REPITITIONS`: the
  sample is sent once whatever the IAFDemo says.
- **Indices.** The job writes `iafdemo-raw`; the operator creates, and the README searches,
  `iafdemo-raw-new`.

Two more consequences are visible in the models without being stated as properties: one logged failure in
the AI stage is enough for a job that keeps to the rules for good (`AIModels.CreateTask` has no update), and
a second submission stores everything once more (`DocumentsExplained` allows a copy for each start,
and to the anomaly topic one for each repeated attempt of its sink; no less would hold). Four more are in the models as the code has them, and the properties say how far they reach:

- With several internal Elasticsearch endpoints, URI, secret and certificate may come from different ones
  (`CredentialsStayInside` claims the match for a single one only).
- Deployments and the KafkaSource are made from the status of the moment and never updated: a producer from
  a listener without credentials never runs (the exception in `ProducerRuns`), a KafkaSource may stay without servers (`ListenersMatch`).
- An endpoint without a certificate or secret may end the operator with a nil dereference, pass after pass, until
  it has them (`Connected` presupposes that it will).
- A single message that is no invoice fails the job for good, and so does a late invoice without an ID (`FailsForAReason`, which says what a job fails over if no
  source, sink or call does); and with an endpoint the risk
  depends on the delay alone, where `demo-flink-processor/README.md` speaks of "amount and how delayed it is"
  (`RiskGrows` is about the rules).

## 5. What is proved

The proofs hold for every value of the constants, from the assumptions named in the modules
(`ReconcilerAssumption`: a plan holds at least Cartridge and CartridgeRequirements, the lag
allowed is at least one; `ProducerAssumption`: types only, and a sample that is not empty;
`FlinkJobAssumption`, `ConnectionsAssumption`: types, a `BulkMax` of at least one, and a `None` that is no number; `RiskAssumption`: types, and an
int that holds the thresholds; `NoneAssumption`: `None` is not the environment of a Deployment; `PipelineAssumption`: those of
Producer and FlinkJob). The module of a run extends each of the modules that state them, so TLC evaluates them as well.

Three kinds of theorem come up in several of the modules:

- `Spec => []Inv` for each invariant the runs check, and the two refinements.
- What a liveness property asks of the scheduling, and of nothing else. TLAPS does not prove that something happens under fairness, but it does prove
  that a weaker event is enough for the whole of what is promised: `CollectingIsEnough`, `LastIsEnough`, `CreatedIsEnough`, `GettingThroughIsEnough`,
  `CatchingUpIsEnough`, `NothingIsMissing`, `DemoCountsOnceThrough` are of the form Spec /\ (the event) => (the property). That
  the event comes about is what TLC checks with the property itself.
- The general form of a finding. TLC shows one behaviour in which a doc is wrong; `KnativeNeverConnected`, `NotServedOnceBrokenOff`,
  `OnceWhateverIsAsked` and `ReadmeFindsNothing` say that it is wrong in all behaviours of the kind, for any bounds.

**ReconcilerProofs.** `TypeCorrect`, `OrderKept`, `GatesHold`, `NothingForgotten`, `SuccessIsEarned` and
`ImplementsProvisioning`. `InOrder` is not inductive: that a stage may be carried out follows from
where the pass is. The invariant `IInv` therefore adds

- `InPass`: a running pass has every mandatory stage before its own carried out, and every gate
  before it Ready at some time;
- `Backed`: what exists, is an index or is cached was carried out, and what is Ready, in the
  cluster or in the cache, was Ready at some time. This is why a stale cache does no harm: it is late, but never wrong.

It has two halves, `PassInv` and `ClusterInv`, since a step changes the worker and the cluster by separate
means: lemmas about `Requeue`, `Goto`, `Advance`, `Present` are for the first, about `Store` and `StoreIndex` for
the second, and `EnsureKeeps`, `CheckReadyKeeps` and so on combine them, one for each sort of call. `WorkerKeeps`,
`ManagerKeeps`, `ClusterKeeps` follow the disjuncts of `Next`. `NextStageLeast` says that the `CHOOSE` of `NextStage`
is the least stage after the current one. For the refinement, `born` maps to `built` and `wasReady` to
`reported`; a step that adds a stage meets `MayBuild` by `InPass`.

`NothingBehindUnregistered` and `KnativeNeverConnected` rest on one more invariant, `Barred`: no pass is past a kind the client lacks, and
none of the kinds was carried out. `ObjectsAreOwned` has `Owned`: an object that exists has an owner that was created once, which a pass for a CR
deleted meanwhile keeps true, since it still sets the reference to that CR. From it, `OrphansAreTheRest`: with no CR live, all that
exists is an orphan; and `CollectingIsEnough`.

**ProducerProofs.** `TypeCorrect`, `BurstsBounded`, `NothingIsLost`, `DuplicatesAreExplained`, `SampleInOrder`, `ExactlyAsRead`,
`OnceWhateverIsAsked`. `IInv` adds to
`TypeOK`: `Progress` (the counters agree with the place in the program), `BurstInv` (until the first pause of a
sequence, the rest of the one before counts too; from then on `burst` and `numSent` are one), and the counts of copies
with what this pod has done of the current sequence (`Done`): at least that less the rows it logged as failed, at most that
and what earlier pods may have sent and one for each failed attempt. `ExactlyAsRead` puts the two bounds together: when nothing has happened, the copies
of each row are the number of repetitions the producer has read. `OnceWhateverIsAsked` is its instance for the operator's environment, where that number is 1
whatever was asked for. `SampleInOrder` has an invariant of its own, `OrderInv`: besides the breaks of the order that the topic has, it counts the one
that is to come if what the producer sends next is not what the end of the topic awaits (`Astray`). A failed attempt or a death of the pod may bring the
producer astray once, and sending sets it right.

**AIModelsProofs.** `TypeCorrect`, `ReferencesAreThere`, `EndpointsAreReal`. `IInv` adds `Created` (what the
creations before the next one create is there: a failed one ends the function) and `Published` (an endpoint in the
AIDeployment, in the cache or in the hands of the pass was published once). The lemmas follow the functions: the copy,
the deployment, the task, and what goes on around them.

About the copy: `CopiedFirst`, `WholeModelOnly`, `BrokenOffForGood`, `NotServedOnceBrokenOff`. While a pass copies, what is uploaded and what it has
yet to upload are all of `Files`, unless a MinIO call failed; an endpoint is published for a whole copy only; and a state in which the bucket is
there, a part of the model is not and no pass is copying (`BrokenOff`) is never left. About waiting: `TaskIsPatient` and `CreatedIsEnough`. Without
failures, no pass reads a verdict but an endpoint and none gets to the task before (`Patient`), although both are read from a cache.

**RiskProofs.** `DemoIsKept`: a behaviour of `Risk` is one of `AIModels`, so everything proved there holds here.
`RiskTypeCorrect`, `NoLateInvoiceDropped`, `ThresholdsAreExact`, `RiskGrowsByRules`, `ModelWasThereAlways`,
`FailuresHaveReasons`, `GettingThroughIsEnough`. `JobInv` adds to what the properties say that each result is what the job's map makes of its
invoice (`Explained`), that a job by the model was submitted after the model had been served (`WasServed`, from `EndpointIsReal`), and that
before the submission nothing was read (`Fresh`). `FailingKeepsReasons` goes through the ways a job may fail. `Rounded` and `IntKept` are the arithmetic: rounding away
from zero crosses neither threshold, and an int in range is kept.

**FlinkJobProofs.** `TypeCorrect`, `NothingIsDropped`, `DocumentsAreExplained`, for any number of jobs and any topic. The three
sinks of a job obey one invariant, `Sound`: what is in the target is at least what the running jobs answer for and
at most what all jobs explain (`Explains`, the pairs of a job and a message it has come to, or any message for a failed one), once more for each repeated attempt in the case
of the anomaly topic (`Again`). `Quiet`
says that it survives a step that leaves the sink alone, `LetsOut` that it survives one that lets something out, after which the job
goes on or has failed, and `SendsAgain` that it survives a repeated attempt; the induction applies them to each action and sink. `Fresh` says that a job that does not run is at the beginning. It is
all proved of `OpenSpec`, which `Spec` implements. `OneJobOnly` says that without an adverse event one job is all there is, and that two of the four indices stay
empty. `NothingHeldBack` is what the sinks' invariant says of a job that has caught up, and with it `CatchingUpIsEnough`.

**PipelineProofs.** `ProducerAlone` and `FlinkAlone` show that a behaviour of the composition is one of `Producer` and one of `FlinkJob` with an open topic,
step by step: a step of the producer is a `Write` or leaves the job's variables and the topic alone. The module then takes the invariants of the two,
proved in their modules, as facts of the same behaviour. `FromEndToEnd` puts them together, at the topic: how often a row is in it is
bounded by `Producer`, and how many documents a copy in it makes by `FlinkJob`. `NothingIsMissing` and `DemoCountsOnceThrough` are the liveness properties
from the events, the second with `ThroughStays`: when nothing adverse can happen any more, a pipeline that is through has stopped. `ReadmeFindsNothing` is
`OneJobOnly` seen from here.

**ConnectionsProofs.** `TypeCorrect`, `NothingBeforeIndices`, `PasswordStaysInside`, `ListenersAreRight`, `ImplementsProvisioning`, `LastIsEnough`, for any set of statuses and
any number of changes. `IInv` adds to `TypeOK` and `IndicesFirst` what the functions hold at each place of the pass
(`Holds`): an endpoint where one is needed, and the indices whose requests have been answered with success. The lemmas about
`SelectInSeq` and `SelectLastInSeq` (by well-founded induction on the positions) say that each loop is left with an element that
passed its test, which is why the right listener and an internal endpoint are used whatever is published. The refinement needs `SetUp` besides: a pass
at a microservice has what comes before it, and since Deployment, Service and Route are never updated or deleted here, it keeps it. Read backwards, module
Provisioning then says that the last object has all the others before it (`Closed`), which is `LastIsEnough`.

Only model-checked: that anything happens at all. `Provisioned`, `Completes`, `ServerAnswers`, `ProducerRuns` and `ServedIfCopied` are checked by TLC alone, and of
`CleanTeardown`, `Connected`, `TaskAwaitsModel`, `LateInvoicesAssessed`, `AllStored`, `DemoCounts` and `NothingMissing` the event that the theorems above presuppose: a
proof would need `ENABLED` and the rules of fairness, which TLAPS as used here does not have. All invariants of the runs
and both refinements are proved.

## 6. What is not modelled

- The job's own access to Kafka and Elasticsearch (`Processor.setElasticCredentials` and the security properties in `main`): which variables
  are set is decided by the external operator behind EventProcessor; that access fails is part of `JobFails`.
- The contents of objects, index mappings, messages and certificates; the conversions of the message
  schemas, which are a JSON library's.
- Flags, metrics and leader election of the operator. The flag is off by default and `config/manager/manager.yaml` turns it on;
  the election is a library's, and the models have one operator at a time, as it promises.
- Generated code, the API types, the gRPC client, which the job does not use, deployment files, scripts, data.

## 7. Plan

What would add most from here:

1. `Connections` with the deletion of the CR and its objects in the middle of a pass, as `Reconciler` has it.
2. `Pipeline` with `Risk`: the documents of the anomaly index with their risk, across a second submission whose task was
   created with an endpoint where the first had none.
3. That `Reconciler` and `Connections` agree: the stages from the raw index on, as a refinement of a common specification
   rather than of two instances of `Provisioning`.
