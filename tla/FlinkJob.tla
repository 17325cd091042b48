-------------------------------- MODULE FlinkJob --------------------------------
(***************************************************************************)
(* The Flink job of demo-flink-processor and how it gets to run.  The      *)
(* EventProcessingTask the operator creates is a pod that submits the job  *)
(* and is run again if it fails.  The job reads the raw topic twice, from  *)
(* its beginning: once to copy it to Elasticsearch, once to pick the late  *)
(* invoices, have their risk assessed and pass them on to a Kafka topic    *)
(* and to Elasticsearch.  The sinks buffer, and the Kafka client of the    *)
(* anomaly sink repeats an attempt whose answer is lost.  Nothing enables  *)
(* checkpoints, so a job that fails does not restart and leaves its        *)
(* buffers behind.                                                         *)
(***************************************************************************)
EXTENDS Integers, Sequences, FiniteSets

CONSTANTS
  Rows,         \* the rows the topic may hold
  Risky,        \* those ValidFilter and LateFilter let through
  Jobs,         \* bound: the jobs a run may start
  BulkMax,      \* the sinks' BulkFlushMaxActions: 3000
  MaxMessages,  \* bound: the length of the raw topic
  MaxFaults     \* bound: lost answers, failures, tasks deleted by a user

ASSUME FlinkJobAssumption ==
  /\ Risky \subseteq Rows
  /\ IsFiniteSet(Jobs)
  /\ BulkMax \in Nat \ {0}
  /\ MaxMessages \in Nat
  /\ MaxFaults \in Nat

VARIABLES
  topic,     \* the raw topic, of one partition
  task,      \* the task's pod has yet to submit the job, or is done
  jobs,      \* what has become of each job
  pos,       \* how far each job is, in each of its sources and sinks
  docs,      \* the documents in each index, by the row they came from
  anomalies, \* the messages in the anomaly topic, by the same
  repeats,   \* history: attempts to send anomalies that were repeated
  faults

flink == <<task, jobs, pos, docs, anomalies, repeats, faults>>
vars  == <<topic, flink>>

\* The arguments newEventProcessingTaskInstance passes to the job.
EsRawIndex  == "iafdemo-raw"
EsRiskIndex == "iafdemo-anomaly"

\* Those, and the ones initializeElasticsearchIndices creates.
Indices == {EsRawIndex, EsRiskIndex, "iafdemo-raw-new", "iafdemo-anomaly-new"}

\* The position after which the raw source reads on and the raw sink has yet
\* to index; the same for the invoices, and what the Kafka sink has yet to send.
Positions == {"rawRead", "rawIndexed", "invoiceRead", "riskIndexed", "riskSent"}

Beginning == [p \in Positions |-> 0]

TypeOK ==
  /\ topic \in Seq(Rows)
  /\ task \in {"pending", "done"}
  /\ jobs \in [Jobs -> {"unused", "running", "failed"}]
  /\ pos \in [Jobs -> [Positions -> 0..Len(topic)]]
  /\ docs \in [Indices -> [Rows -> Nat]]
  /\ anomalies \in [Rows -> Nat]
  /\ repeats \in 0..faults
  /\ faults \in 0..MaxFaults

Init ==
  /\ topic = <<>>
  /\ task = "pending"
  /\ jobs = [j \in Jobs |-> "unused"]
  /\ pos = [j \in Jobs |-> Beginning]
  /\ docs = [x \in Indices |-> [r \in Rows |-> 0]]
  /\ anomalies = [r \in Rows |-> 0]
  /\ repeats = 0
  /\ faults = 0

Fault ==
  /\ faults < MaxFaults
  /\ faults' = faults + 1

----------------------------------------------------------------------------
(* The task's pod submits the job. *)

StartJob(j) ==
  /\ task = "pending"
  /\ jobs[j] = "unused"
  /\ jobs' = [jobs EXCEPT ![j] = "running"]
  /\ UNCHANGED <<topic, pos, docs, anomalies, repeats>>

Submit(j) == StartJob(j) /\ task' = "done" /\ UNCHANGED faults

\* The job starts but the pod fails; its restart policy is OnFailure.
SubmitUnanswered(j) == StartJob(j) /\ Fault /\ UNCHANGED task

\* A user deletes the EventProcessingTask, the operator's next pass creates
\* it anew, and its pod submits once more.
RecreateTask ==
  /\ task = "done"
  /\ Fault
  /\ task' = "pending"
  /\ UNCHANGED <<topic, jobs, pos, docs, anomalies, repeats>>

----------------------------------------------------------------------------
(* A running job. *)

At(j, p) == pos[j][p]

\* The messages a sink holds back.
RawBuffer(j)     == At(j, "rawIndexed") + 1 .. At(j, "rawRead")
RiskBufferAll(j) ==  \* mutant: the invoices are not filtered
  At(j, "riskIndexed") + 1 .. At(j, "invoiceRead")
RiskBuffer(j)    == {k \in At(j, "riskIndexed") + 1 .. At(j, "invoiceRead") : topic[k] \in Risky}
AnomalyBuffer(j) == {k \in At(j, "riskSent") + 1 .. At(j, "invoiceRead") : topic[k] \in Risky}

\* The counts of a sink's target with the messages at these positions added.
Plus(counts, positions) ==
  [r \in Rows |-> counts[r] + Cardinality({k \in positions : topic[k] = r})]

ReadRawPast(j) ==  \* mutant: <= for <
  /\ jobs[j] = "running"
  /\ At(j, "rawRead") <= Len(topic)
  /\ Cardinality(RawBuffer(j)) < BulkMax
  /\ pos' = [pos EXCEPT ![j].rawRead = @ + 1]
  /\ UNCHANGED <<topic, task, jobs, docs, anomalies, repeats, faults>>

ReadRaw(j) ==
  /\ jobs[j] = "running"
  /\ At(j, "rawRead") < Len(topic)
  /\ Cardinality(RawBuffer(j)) < BulkMax
  /\ pos' = [pos EXCEPT ![j].rawRead = @ + 1]
  /\ UNCHANGED <<topic, task, jobs, docs, anomalies, repeats, faults>>

FlushRawAndSkip(j) ==  \* mutant: what is read next is taken for indexed
  /\ jobs[j] = "running"
  /\ RawBuffer(j) # {}
  /\ docs' = [docs EXCEPT ![EsRawIndex] = Plus(@, RawBuffer(j))]
  /\ pos' = [pos EXCEPT ![j].rawIndexed = Len(topic), ![j].rawRead = Len(topic)]
  /\ UNCHANGED <<topic, task, jobs, anomalies, repeats, faults>>

FlushRawWhenFull(j) ==  \* mutant: no setBulkFlushInterval
  /\ jobs[j] = "running"
  /\ Cardinality(RawBuffer(j)) = BulkMax
  /\ docs' = [docs EXCEPT ![EsRawIndex] = Plus(@, RawBuffer(j))]
  /\ pos' = [pos EXCEPT ![j].rawIndexed = At(j, "rawRead")]
  /\ UNCHANGED <<topic, task, jobs, anomalies, repeats, faults>>

\* The bulk request goes out every three seconds, and with a full buffer.
FlushRaw(j) ==
  /\ jobs[j] = "running"
  /\ RawBuffer(j) # {}
  /\ docs' = [docs EXCEPT ![EsRawIndex] = Plus(@, RawBuffer(j))]
  /\ pos' = [pos EXCEPT ![j].rawIndexed = At(j, "rawRead")]
  /\ UNCHANGED <<topic, task, jobs, anomalies, repeats, faults>>

\* ValidFilter, LateFilter and the risk map; both sinks get what is left.
ReadInvoice(j) ==
  /\ jobs[j] = "running"
  /\ At(j, "invoiceRead") < Len(topic)
  /\ Cardinality(RiskBuffer(j)) < BulkMax
  /\ pos' = [pos EXCEPT ![j].invoiceRead = @ + 1]
  /\ UNCHANGED <<topic, task, jobs, docs, anomalies, repeats, faults>>

FlushRiskKeeping(j) ==  \* mutant: the buffer is not emptied
  /\ jobs[j] = "running"
  /\ RiskBuffer(j) # {}
  /\ docs' = [docs EXCEPT ![EsRiskIndex] = Plus(@, RiskBuffer(j))]
  /\ UNCHANGED <<topic, task, jobs, pos, anomalies, repeats, faults>>

FlushRisk(j) ==
  /\ jobs[j] = "running"
  /\ RiskBuffer(j) # {}
  /\ docs' = [docs EXCEPT ![EsRiskIndex] = Plus(@, RiskBuffer(j))]
  /\ pos' = [pos EXCEPT ![j].riskIndexed = At(j, "invoiceRead")]
  /\ UNCHANGED <<topic, task, jobs, anomalies, repeats, faults>>

SendRisk(j) ==
  /\ jobs[j] = "running"
  /\ AnomalyBuffer(j) # {}
  /\ anomalies' = Plus(anomalies, AnomalyBuffer(j))
  /\ pos' = [pos EXCEPT ![j].riskSent = At(j, "invoiceRead")]
  /\ UNCHANGED <<topic, task, jobs, docs, repeats, faults>>

\* The Kafka client is neither idempotent nor transactional: the broker has
\* appended the messages of an attempt whose answer is lost, and the client,
\* without the job noticing, has them to send still.
Resend(j) ==
  /\ jobs[j] = "running"
  /\ Fault
  /\ \E sent \in SUBSET AnomalyBuffer(j) \ {{}} : anomalies' = Plus(anomalies, sent)
  /\ repeats' = repeats + 1
  /\ UNCHANGED <<topic, task, jobs, pos, docs>>

\* A source, the model, a sink or Flink itself fails, and the job with it:
\* any part of what the sinks held back gets out.
JobFails(j) ==
  /\ jobs[j] = "running"
  /\ Fault
  /\ \E raw \in SUBSET RawBuffer(j), risk \in SUBSET RiskBuffer(j) :
       docs' = [docs EXCEPT ![EsRawIndex] = Plus(@, raw),
                            ![EsRiskIndex] = Plus(@, risk)]
  /\ \E sent \in SUBSET AnomalyBuffer(j) : anomalies' = Plus(anomalies, sent)
  /\ jobs' = [jobs EXCEPT ![j] = "failed"]
  /\ pos' = [pos EXCEPT ![j] = Beginning]
  /\ UNCHANGED <<topic, task, repeats>>

----------------------------------------------------------------------------
Flow(j) ==
  ReadRaw(j) \/ FlushRaw(j) \/ ReadInvoice(j) \/ FlushRisk(j) \/ SendRisk(j)

Flink ==
  \/ \E j \in Jobs : Submit(j) \/ SubmitUnanswered(j) \/ Flow(j) \/ Resend(j) \/ JobFails(j)
  \/ RecreateTask

\* Somebody writes to the raw topic.
Write(r) == topic' = Append(topic, r) /\ UNCHANGED flink

Produce(r) == Len(topic) < MaxMessages /\ Write(r)

Next == Flink \/ \E r \in Rows : Produce(r)

Spec == Init /\ [][Next]_vars

\* The same without the bound, for a topic that others fill.
OpenNext == Flink \/ \E r \in Rows : Write(r)

OpenSpec == Init /\ [][OpenNext]_vars

\* The task's pod runs, the job reads on and its timers flush.
Fairness ==
  /\ WF_vars(\E j \in Jobs : Submit(j))
  /\ \A j \in Jobs : /\ WF_vars(ReadRaw(j))
                     /\ WF_vars(FlushRaw(j))
                     /\ WF_vars(ReadInvoice(j))
                     /\ WF_vars(FlushRisk(j))
                     /\ WF_vars(SendRisk(j))

FairSpec == Spec /\ Fairness

----------------------------------------------------------------------------
CopiesUpTo(n, r) == Cardinality({k \in 1..n : topic[k] = r})

Copies(r) == CopiesUpTo(Len(topic), r)

Starts == Cardinality({j \in Jobs : jobs[j] # "unused"})

\* A document stands for a message: an index holds no more of them than the
\* topic holds messages, once for each job ever started, and the anomaly topic
\* besides no more than once for each attempt that its sink's client repeated.
\* The anomaly index and topic hold late invoices only, and the other two
\* indices nothing.  As long as nothing goes wrong there is no second job.
DocumentsExplained ==
  /\ \A r \in Rows :
       /\ docs[EsRawIndex][r] <= Starts * Copies(r)
       /\ docs[EsRiskIndex][r] <= Starts * Copies(r)
       /\ anomalies[r] <= (Starts + repeats) * Copies(r)
  /\ \A r \in Rows \ Risky : docs[EsRiskIndex][r] = 0 /\ anomalies[r] = 0
  /\ \A x \in Indices \ {EsRawIndex, EsRiskIndex}, r \in Rows : docs[x][r] = 0
  /\ faults = 0 => Starts <= 1

\* What a running job has let go of is where it belongs, whatever happened to
\* other jobs.
NothingDropped ==
  \A j \in Jobs : jobs[j] = "running" =>
    /\ \A r \in Rows : docs[EsRawIndex][r] >= CopiesUpTo(At(j, "rawIndexed"), r)
    /\ \A r \in Risky :
         /\ docs[EsRiskIndex][r] >= CopiesUpTo(At(j, "riskIndexed"), r)
         /\ anomalies[r] >= CopiesUpTo(At(j, "riskSent"), r)

Stored ==
  /\ \A r \in Rows : docs[EsRawIndex][r] >= Copies(r)
  /\ \A r \in Risky : docs[EsRiskIndex][r] >= Copies(r) /\ anomalies[r] >= Copies(r)

\* A running job has read the whole topic and holds nothing back.
CaughtUp(j) ==
  /\ jobs[j] = "running"
  /\ At(j, "rawRead") = Len(topic) /\ At(j, "invoiceRead") = Len(topic)
  /\ RawBuffer(j) = {} /\ RiskBuffer(j) = {} /\ AnomalyBuffer(j) = {}

\* A job that goes on running gets everything in the topic stored, buffered
\* leftovers included.
AllStored == \A j \in Jobs : <>[](jobs[j] = "running") => <>[]Stored
=============================================================================
