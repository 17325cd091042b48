-------------------------------- MODULE Pipeline --------------------------------
(***************************************************************************)
(* The demo's data flow end to end: the producer (module Producer) writes  *)
(* the raw topic that the Flink job (module FlinkJob) reads.  They share   *)
(* the topic and nothing else; each goes on whatever the other does.       *)
(***************************************************************************)
EXTENDS Integers, Sequences

CONSTANTS
  Rows, Settings, NotANumber, ByOperator, MaxRetry,  \* see module Producer
  Risky, Jobs, BulkMax,                              \* see module FlinkJob
  MaxSendFaults,  \* bound: attempts to send that fail
  MaxRestarts,    \* bound: deaths of the producer's pod
  MaxSequences,   \* bound: sequences begun when there is no end to them
  MaxJobFaults    \* bound: adverse events of the job and its submission

VARIABLES
  topic,
  settings, pc, i, row, numSent, attempt, undelivered, burst, sendFaults, restarts,
  task, jobs, pos, docs, anomalies, repeats, jobFaults

producer == <<settings, pc, i, row, numSent, attempt, undelivered, burst,
              sendFaults, restarts>>
flink    == <<task, jobs, pos, docs, anomalies, repeats, jobFaults>>
vars     == <<topic, producer, flink>>

P == INSTANCE Producer WITH MaxFaults <- MaxSendFaults, faults <- sendFaults

F == INSTANCE FlinkJob WITH Rows <- 1..Rows, MaxMessages <- 0,
       MaxFaults <- MaxJobFaults, faults <- jobFaults

ASSUME PipelineAssumption == P!ProducerAssumption /\ F!FlinkJobAssumption

Init == P!Init /\ F!Init

ProducerStep == P!Next /\ UNCHANGED flink
FlinkStep    == F!Flink /\ UNCHANGED producer

Next == ProducerStep \/ FlinkStep

Spec == Init /\ [][Next]_vars

FairSpec ==
  /\ Spec
  /\ WF_vars(P!Run /\ UNCHANGED flink)
  /\ WF_vars(\E j \in Jobs : F!Submit(j) /\ UNCHANGED producer)
  /\ \A j \in Jobs : /\ WF_vars(F!ReadRaw(j) /\ UNCHANGED producer)
                     /\ WF_vars(F!FlushRaw(j) /\ UNCHANGED producer)
                     /\ WF_vars(F!ReadInvoice(j) /\ UNCHANGED producer)
                     /\ WF_vars(F!FlushRisk(j) /\ UNCHANGED producer)
                     /\ WF_vars(F!SendRisk(j) /\ UNCHANGED producer)

----------------------------------------------------------------------------
\* The producer has nothing left to submit, and some job nothing to read or to
\* let go of.
Through == pc = "wait" /\ \E j \in Jobs : F!CaughtUp(j)

\* From the sample to the targets: what a row has in them is no more than each
\* job, and each attempt the anomaly sink's client repeated, could have made of
\* all the producer's pods sent and sent twice; and once the data is through,
\* no less than the sequences this pod did not lose.
EndToEnd ==
  /\ P!sequenceRepititions >= 0 =>
       LET copies == P!sequenceRepititions * (1 + restarts) + sendFaults
       IN  \A r \in 1..Rows :
             /\ docs[F!EsRawIndex][r] <= F!Starts * copies
             /\ docs[F!EsRiskIndex][r] <= F!Starts * copies
             /\ anomalies[r] <= (F!Starts + repeats) * copies
  /\ Through =>
       LET least == P!sequenceRepititions - undelivered
       IN  \A r \in 1..Rows :
             /\ docs[F!EsRawIndex][r] >= least
             /\ r \in Risky => docs[F!EsRiskIndex][r] >= least /\ anomalies[r] >= least

Faultless == sendFaults + restarts + jobFaults = 0

\* "With a default configuration, assuming the data has been sent exactly once"
\* (DEVELOPMENT.md): the raw index holds the sample, the anomaly index and the
\* anomaly topic its late invoices, once each and for good.
DemoCounts ==
  []Faultless =>
    <>[] /\ \A r \in 1..Rows : docs[F!EsRawIndex][r] = 1
         /\ \A r \in 1..Rows : /\ docs[F!EsRiskIndex][r] = IF r \in Risky THEN 1 ELSE 0
                               /\ anomalies[r] = IF r \in Risky THEN 1 ELSE 0

\* Whatever failed on the way, once the producer is through without a row it
\* could not send, and while some job goes on, no row is missing.
NothingMissing ==
  /\ <>[](pc = "wait" /\ undelivered = 0)
  /\ \E j \in Jobs : <>[](jobs[j] = "running")
  => <>[](\A r \in 1..Rows :
            /\ docs[F!EsRawIndex][r] >= 1
            /\ r \in Risky => docs[F!EsRiskIndex][r] >= 1 /\ anomalies[r] >= 1)

\* README.md looks the 1725 events up in the index iafdemo-raw-new.
ReadmeSearch ==
  []Faultless => <>(\A r \in 1..Rows : docs["iafdemo-raw-new"][r] = 1)
=============================================================================
