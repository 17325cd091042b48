----------------------------- MODULE PipelineProofs -----------------------------
(***************************************************************************)
(* Proofs about module Pipeline, from what is proved about its two parts.  *)
(* Each part goes on as if the other were not there: a behaviour of the    *)
(* whole is one of module Producer, and one of module FlinkJob with a      *)
(* topic that others write to.  What holds of each alone (PP, FP) thus     *)
(* holds of both, and meets in the topic.                                  *)
(***************************************************************************)
EXTENDS Pipeline, TLAPS

PP == INSTANCE ProducerProofs WITH MaxFaults <- MaxSendFaults, faults <- sendFaults

FP == INSTANCE FlinkJobProofs WITH Rows <- 1..Rows, MaxMessages <- 0,
        MaxFaults <- MaxJobFaults, faults <- jobFaults

LEMMA Assumptions ==
  /\ PP!ProducerAssumption /\ FP!FlinkJobAssumption
  /\ Rows \in Nat \ {0} /\ Risky \subseteq 1..Rows
BY PipelineAssumption
   DEF PP!ProducerAssumption, P!ProducerAssumption, FP!FlinkJobAssumption,
       F!FlinkJobAssumption, F!IsFiniteSet, FP!IsFiniteSet

----------------------------------------------------------------------------
(* The modules with the proofs are instances of their own of the modules   *)
(* Pipeline composes: what they say of a step is the same.                 *)

LEMMA ProducerReads ==
  /\ P!sequenceRepititions = PP!sequenceRepititions
  /\ P!messagesPerGroup = PP!messagesPerGroup
BY DEF P!sequenceRepititions, PP!sequenceRepititions, P!messagesPerGroup,
       PP!messagesPerGroup, P!Atoi, PP!Atoi, P!Env, PP!Env, P!MaxInt32, PP!MaxInt32

LEMMA ProducerSame ==
  /\ P!Init => PP!Init
  /\ P!Next => PP!Next
<1>1. P!Submitted => PP!Submitted
  BY ProducerReads
     DEF P!Submitted, PP!Submitted, P!NextRow, PP!NextRow
<1>2. /\ P!Start => PP!Start
      /\ P!Sequence => PP!Sequence
      /\ P!Pause => PP!Pause
      /\ P!Restart => PP!Restart
  BY ProducerReads
     DEF P!Start, PP!Start, P!Sequence, PP!Sequence, P!Pause, PP!Pause, P!Restart,
         PP!Restart, P!NextRow, PP!NextRow, P!budget, PP!budget
<1>3. /\ P!Send => PP!Send
      /\ P!Retry => PP!Retry
      /\ P!GiveUp => PP!GiveUp
  BY <1>1 DEF P!Send, PP!Send, P!Retry, PP!Retry, P!GiveUp, PP!GiveUp, P!Attempt,
              PP!Attempt, P!budget, PP!budget
<1>. QED
  BY <1>2, <1>3 DEF P!Init, PP!Init, P!Next, PP!Next, P!Run, PP!Run

LEMMA FlinkHolds ==
  ASSUME NEW j
  PROVE  /\ F!RawBuffer(j) = FP!RawBuffer(j)
         /\ F!RiskBuffer(j) = FP!RiskBuffer(j)
         /\ F!AnomalyBuffer(j) = FP!AnomalyBuffer(j)
         /\ \A p : F!At(j, p) = FP!At(j, p)
         /\ \A counts, K : F!Plus(counts, K) = FP!Plus(counts, K)
BY DEF F!RawBuffer, FP!RawBuffer, F!RiskBuffer, FP!RiskBuffer, F!AnomalyBuffer,
       FP!AnomalyBuffer, F!At, FP!At, F!Plus, FP!Plus, F!Cardinality, FP!Cardinality

LEMMA FlinkSame ==
  /\ F!Init => FP!Init
  /\ F!OpenNext => FP!OpenNext
<1>1. ASSUME NEW j
      PROVE  /\ F!Submit(j) => FP!Submit(j)
             /\ F!SubmitUnanswered(j) => FP!SubmitUnanswered(j)
             /\ F!Resend(j) => FP!Resend(j)
             /\ F!JobFails(j) => FP!JobFails(j)
  BY FlinkHolds
     DEF F!Submit, FP!Submit, F!SubmitUnanswered, FP!SubmitUnanswered, F!StartJob,
         FP!StartJob, F!Resend, FP!Resend, F!JobFails, FP!JobFails, F!Fault, FP!Fault, F!Beginning,
         FP!Beginning, F!Positions, FP!Positions, F!EsRawIndex, FP!EsRawIndex,
         F!EsRiskIndex, FP!EsRiskIndex
<1>2. ASSUME NEW j
      PROVE  F!Flow(j) => FP!Flow(j)
  BY FlinkHolds
     DEF F!Flow, FP!Flow, F!ReadRaw, FP!ReadRaw, F!FlushRaw, FP!FlushRaw, F!ReadInvoice,
         FP!ReadInvoice, F!FlushRisk, FP!FlushRisk, F!SendRisk, FP!SendRisk,
         F!EsRawIndex, FP!EsRawIndex, F!EsRiskIndex, FP!EsRiskIndex, F!Cardinality,
         FP!Cardinality
<1>3. F!RecreateTask => FP!RecreateTask
  BY DEF F!RecreateTask, FP!RecreateTask, F!Fault, FP!Fault
<1>. QED
  BY <1>1, <1>2, <1>3
     DEF F!Init, FP!Init, F!OpenNext, FP!OpenNext, F!Flink, FP!Flink, F!Write, FP!Write,
         F!flink, FP!flink, F!Indices, FP!Indices, F!Beginning,
         FP!Beginning, F!Positions, FP!Positions, F!EsRawIndex, FP!EsRawIndex,
         F!EsRiskIndex, FP!EsRiskIndex
----------------------------------------------------------------------------
(* The producer does not notice the job. *)
THEOREM ProducerAlone == Spec => P!Spec
<1>1. Init => P!Init
  BY DEF Init
<1>2. FlinkStep => UNCHANGED P!vars
  BY DEF FlinkStep, producer, F!Flink, F!Submit, F!SubmitUnanswered, F!StartJob, F!Flow,
         F!ReadRaw, F!FlushRaw, F!ReadInvoice, F!FlushRisk, F!SendRisk, F!Resend,
         F!JobFails, F!RecreateTask, P!vars, P!pod, P!budget
<1>3. [Next]_vars => [P!Next]_P!vars
  BY <1>2 DEF Next, ProducerStep, vars, producer, P!vars, P!pod, P!budget
<1>. QED
  BY <1>1, <1>3, PTL DEF Spec, P!Spec

LEMMA ProducerInvariance == Spec => []PP!IInv /\ []PP!NothingLost /\ []PP!DuplicatesExplained
<1>1. P!Init => PP!Init
  BY ProducerSame
<1>2. [P!Next]_P!vars => [PP!Next]_PP!vars
  BY ProducerSame DEF P!vars, PP!vars, P!pod, PP!pod, P!budget, PP!budget
<1>3. P!Spec => PP!Spec
  BY <1>1, <1>2, PTL DEF P!Spec, PP!Spec
<1>. QED
  BY <1>3, ProducerAlone, Assumptions, PP!Invariance, PP!NothingIsLost,
     PP!DuplicatesAreExplained

LEMMA ProducerTypes ==
  PP!IInv => /\ settings \in Settings
             /\ row \in 1..Rows
             /\ topic \in Seq(1..Rows)
             /\ undelivered \in Nat /\ sendFaults \in Nat /\ restarts \in Nat
             /\ PP!sequenceRepititions \in Int
BY Assumptions, PP!SettingsAreNumbers DEF PP!IInv, PP!TypeOK, PP!ProducerAssumption

(* The job does not notice the producer, but for a topic that grows. *)
THEOREM FlinkAlone == Spec => F!OpenSpec
<1>1. Init => F!Init
  BY DEF Init
<1>2. P!Next => topic' \in {topic, Append(topic, row)}
  BY DEF P!Next, P!Run, P!Start, P!Sequence, P!Send, P!Retry, P!GiveUp, P!Pause, P!Attempt,
         P!Restart
<1>3. PP!IInv /\ [Next]_vars => [F!OpenNext]_F!vars
  BY <1>2, ProducerTypes
     DEF Next, ProducerStep, FlinkStep, vars, flink, F!OpenNext, F!Write, F!vars, F!flink
<1>. QED
  BY <1>1, <1>3, ProducerInvariance, PTL DEF Spec, F!OpenSpec

LEMMA FlinkInvariance == Spec => []FP!IInv /\ []FP!OneJobOnly
<1>1. F!Init => FP!Init
  BY FlinkSame
<1>2. [F!OpenNext]_F!vars => [FP!OpenNext]_FP!vars
  BY FlinkSame DEF F!vars, FP!vars, F!flink, FP!flink
<1>3. F!OpenSpec => FP!OpenSpec
  BY <1>1, <1>2, PTL DEF F!OpenSpec, FP!OpenSpec
<1>. QED
  BY <1>3, FlinkAlone, Assumptions, FP!OpenInvariance, FP!OpenOneJob
----------------------------------------------------------------------------
(* What the two know of each other's topic.                                *)

LEMMA SameCopies ==
  ASSUME topic \in Seq(1..Rows), NEW r
  PROVE  PP!Copies(r) = FP!Copies(r)
<1>1. DOMAIN topic = 1..Len(topic)
  OBVIOUS
<1>. QED
  BY <1>1 DEF PP!Copies, FP!Copies, FP!CopiesUpTo, PP!Cardinality, FP!Cardinality

LEMMA FlinkReads ==
  /\ F!Starts = FP!Starts
  /\ \A j : F!CaughtUp(j) <=> FP!CaughtUp(j)
  /\ F!EsRawIndex = FP!EsRawIndex /\ F!EsRiskIndex = FP!EsRiskIndex
  /\ F!Stored => FP!Stored
BY FlinkHolds
   DEF F!Starts, FP!Starts, F!CaughtUp, FP!CaughtUp, F!EsRawIndex, FP!EsRawIndex,
       F!EsRiskIndex, FP!EsRiskIndex, F!Cardinality, FP!Cardinality, F!Stored, FP!Stored,
       F!Copies, FP!Copies, F!CopiesUpTo, FP!CopiesUpTo

LEMMA Grows ==
  ASSUME NEW s \in Nat, NEW m \in Int, NEW n \in Int, m <= n
  PROVE  s * m <= s * n
BY SMT

LEMMA Met ==
  PP!IInv /\ PP!NothingLost /\ PP!DuplicatesExplained /\ FP!IInv /\ FP!OneJobOnly => EndToEnd
<1>. SUFFICES ASSUME PP!IInv, PP!NothingLost, PP!DuplicatesExplained, FP!IInv, FP!OneJobOnly
              PROVE  EndToEnd
  OBVIOUS
<1>. DEFINE n == P!sequenceRepititions
            copies == n * (1 + restarts) + sendFaults
<1>1. /\ topic \in Seq(1..Rows)
      /\ undelivered \in Nat /\ sendFaults \in Nat /\ restarts \in Nat /\ n \in Int
  BY ProducerTypes, ProducerReads
<1>2. ASSUME NEW r \in 1..Rows
      PROVE  /\ docs[F!EsRawIndex][r] \in Nat /\ docs[F!EsRiskIndex][r] \in Nat
             /\ anomalies[r] \in Nat /\ FP!Copies(r) \in Nat /\ repeats \in Nat
  <2>1. FP!Copies(r) \in Nat
    BY <1>1, SameCopies, Assumptions, PP!CopiesNat
  <2>2. repeats \in 0..jobFaults /\ jobFaults \in 0..MaxJobFaults /\ MaxJobFaults \in Nat
    BY Assumptions DEF FP!IInv, FP!TypeOK, FP!FlinkJobAssumption
  <2>3. repeats \in Nat
    BY <2>2
  <2>4. /\ docs[F!EsRawIndex][r] \in Nat /\ docs[F!EsRiskIndex][r] \in Nat
        /\ anomalies[r] \in Nat
    BY Assumptions
       DEF FP!IInv, FP!TypeOK, FP!Indices, F!EsRawIndex, F!EsRiskIndex, FP!EsRawIndex,
           FP!EsRiskIndex, FP!FlinkJobAssumption
  <2>. QED
    BY <2>1, <2>3, <2>4
<1>3. ASSUME n >= 0, NEW r \in 1..Rows
      PROVE  /\ docs[F!EsRawIndex][r] <= F!Starts * copies
             /\ docs[F!EsRiskIndex][r] <= F!Starts * copies
             /\ anomalies[r] <= (F!Starts + repeats) * copies
  <2>1. FP!Copies(r) <= copies
    BY <1>1, <1>3, SameCopies, ProducerReads DEF PP!DuplicatesExplained
  <2>2. FP!DocumentsExplained /\ F!Starts \in Nat
    BY Assumptions, FP!Explanations, FP!StartsNat, FlinkReads
  <2>3. n * (1 + restarts) \in Int
    BY <1>1
  <2>. DEFINE sends == F!Starts + repeats
  <2>4. copies \in Int /\ sends \in Nat
    BY <1>1, <1>2, <2>2, <2>3
  <2>5. /\ F!Starts * FP!Copies(r) <= F!Starts * copies
        /\ sends * FP!Copies(r) <= sends * copies
    <3>. HIDE DEF copies, sends
    <3>. QED
      BY <1>2, <2>1, <2>2, <2>4, Grows
  <2>6. /\ docs[F!EsRawIndex][r] <= F!Starts * FP!Copies(r)
        /\ docs[F!EsRiskIndex][r] <= F!Starts * FP!Copies(r)
        /\ anomalies[r] <= sends * FP!Copies(r)
    BY <2>2, FlinkReads DEF FP!DocumentsExplained
  <2>7. \A s \in Nat : s * FP!Copies(r) \in Int /\ s * copies \in Int
    <3>. HIDE DEF copies
    <3>. QED
      BY <1>2, <2>4
  <2>8. ASSUME NEW d \in Nat, NEW a \in Int, NEW b \in Int, d <= a, a <= b
        PROVE  d <= b
    BY <2>8
  <2>. HIDE DEF copies, sends
  <2>9. anomalies[r] <= sends * copies
    BY <1>2, <2>4, <2>5, <2>6, <2>7, <2>8
  <2>10. docs[F!EsRawIndex][r] <= F!Starts * copies /\ docs[F!EsRiskIndex][r] <= F!Starts * copies
    BY <1>2, <2>2, <2>5, <2>6, <2>7, <2>8
  <2>. QED
    BY <2>9, <2>10 DEF sends
<1>4. ASSUME Through, NEW r \in 1..Rows
      PROVE  /\ docs[F!EsRawIndex][r] >= n - undelivered
             /\ r \in Risky => /\ docs[F!EsRiskIndex][r] >= n - undelivered
                               /\ anomalies[r] >= n - undelivered
  <2>1. FP!Stored
    BY <1>4, Assumptions, FP!CaughtUpStored, FlinkReads DEF Through
  <2>2. FP!Copies(r) >= n - undelivered
    BY <1>1, <1>4, SameCopies, ProducerReads DEF Through, PP!NothingLost
  <2>. QED
    BY <1>1, <1>2, <2>1, <2>2, FlinkReads DEF FP!Stored
<1>. QED
  BY <1>3, <1>4 DEF EndToEnd

(* From the sample to the targets, whatever failed on the way and however  *)
(* the two were interleaved: nothing more than the pods and the jobs       *)
(* account for, nothing less than the pod that is through has sent.        *)
THEOREM FromEndToEnd == Spec => []EndToEnd
BY Met, ProducerInvariance, FlinkInvariance, PTL
----------------------------------------------------------------------------
(* What is left to the scheduling.                                         *)

(* The operator's environment does not have the setting.                   *)
LEMMA OneSequence ==
  ASSUME ByOperator
  PROVE  P!sequenceRepititions = 1
BY DEF P!sequenceRepititions, P!Atoi, P!Env

(* README.md looks for the events where nothing ever is.                   *)
THEOREM ReadmeFindsNothing == Spec /\ []Faultless => ~ReadmeSearch
<1>1. FP!OneJobOnly => ~\A r \in 1..Rows : docs["iafdemo-raw-new"][r] = 1
  BY Assumptions
     DEF FP!OneJobOnly, FP!Indices, FP!EsRawIndex, FP!EsRiskIndex
<1>. QED
  BY <1>1, FlinkInvariance, PTL DEF ReadmeSearch

(* If AllStored holds of the job (module FlinkJob), nothing is missing at  *)
(* the end of the pipeline.                                                *)
THEOREM NothingIsMissing ==
  ASSUME ByOperator
  PROVE  Spec /\ F!AllStored => NothingMissing
<1>. DEFINE there == \A r \in 1..Rows :
              /\ docs[F!EsRawIndex][r] >= 1
              /\ r \in Risky => docs[F!EsRiskIndex][r] >= 1 /\ anomalies[r] >= 1
<1>1. PP!IInv /\ PP!NothingLost /\ FP!IInv /\ pc = "wait" /\ undelivered = 0 /\ F!Stored => there
  <2>. SUFFICES ASSUME PP!IInv, PP!NothingLost, FP!IInv, pc = "wait", undelivered = 0, F!Stored
                PROVE  there
    OBVIOUS
  <2>1. ASSUME NEW r \in 1..Rows
        PROVE  FP!Copies(r) \in Nat /\ FP!Copies(r) >= 1
    BY ProducerTypes, SameCopies, Assumptions, PP!CopiesNat, OneSequence, ProducerReads
       DEF PP!NothingLost
  <2>2. ASSUME NEW r \in 1..Rows
        PROVE  /\ docs[F!EsRawIndex][r] \in Nat /\ docs[F!EsRiskIndex][r] \in Nat
               /\ anomalies[r] \in Nat
    BY DEF FP!IInv, FP!TypeOK, FP!Indices, F!EsRawIndex, F!EsRiskIndex, FP!EsRawIndex,
           FP!EsRiskIndex
  <2>. QED
    BY <2>1, <2>2, FlinkReads, Assumptions DEF FP!Stored
<1>2. /\ []PP!IInv /\ []PP!NothingLost /\ []FP!IInv
      /\ <>[](pc = "wait" /\ undelivered = 0) /\ <>[]F!Stored
      => <>[]there
  BY <1>1, PTL
<1>3. F!AllStored /\ (\E j \in Jobs : <>[](jobs[j] = "running")) => <>[]F!Stored
  BY DEF F!AllStored
<1>. QED
  BY <1>2, <1>3, ProducerInvariance, FlinkInvariance DEF NothingMissing

(* Once through and without anything adverse, the pipeline has stopped.    *)
LEMMA ThroughStays ==
  PP!IInv /\ FP!IInv /\ Through /\ [Next]_vars /\ Faultless /\ Faultless' => Through'
<1>. SUFFICES ASSUME PP!IInv, FP!IInv, Through, [Next]_vars, Faultless, Faultless'
              PROVE  Through'
  OBVIOUS
<1>1. PICK j \in Jobs : F!CaughtUp(j)
  BY DEF Through
<1>2. /\ sendFaults \in Nat /\ restarts \in Nat /\ jobFaults \in Nat
      /\ pos \in [Jobs -> [FP!Positions -> 0..Len(topic)]] /\ topic \in Seq(1..Rows)
  BY ProducerTypes, Assumptions DEF FP!IInv, FP!TypeOK, FP!FlinkJobAssumption
<1>3. ~ProducerStep
  BY <1>2
     DEF ProducerStep, Through, Faultless, P!Next, P!Run, P!Start, P!Sequence, P!Send,
         P!Retry, P!GiveUp, P!Pause, P!Attempt, P!Restart, flink
<1>4. ASSUME FlinkStep
      PROVE  UNCHANGED <<topic, pc>> /\ jobs'[j] = "running" /\ pos'[j] = pos[j]
  <2>. jobs \in [Jobs -> {"unused", "running", "failed"}] /\ jobs[j] = "running"
    BY <1>1 DEF FP!IInv, FP!TypeOK, F!CaughtUp
  <2>. pc' = pc
    BY <1>4 DEF FlinkStep, producer
  <2>1. ~F!Fault
    <3>1. sendFaults' = sendFaults /\ restarts' = restarts
      BY <1>4 DEF FlinkStep, producer
    <3>. QED
      BY <1>2, <3>1 DEF Faultless, F!Fault
  <2>2. ASSUME NEW k \in Jobs, F!Submit(k)
        PROVE  UNCHANGED topic /\ jobs'[j] = "running" /\ pos'[j] = pos[j]
    BY <2>2 DEF F!Submit, F!StartJob
  <2>3. ASSUME NEW k \in Jobs, F!Flow(k)
        PROVE  UNCHANGED topic /\ jobs'[j] = "running" /\ pos'[j] = pos[j]
    <3>1. k # j
      BY <1>1, <1>2, <2>3
         DEF F!Flow, F!ReadRaw, F!FlushRaw, F!ReadInvoice, F!FlushRisk, F!SendRisk,
             F!CaughtUp
    <3>2. UNCHANGED <<topic, jobs>> /\ pos'[j] = pos[j]
      BY <1>2, <2>3, <3>1
         DEF F!Flow, F!ReadRaw, F!FlushRaw, F!ReadInvoice, F!FlushRisk, F!SendRisk
    <3>. QED
      BY <3>2
  <2>. QED
    BY <1>4, <2>1, <2>2, <2>3
       DEF FlinkStep, F!Flink, F!SubmitUnanswered, F!Resend, F!JobFails, F!RecreateTask
<1>5. UNCHANGED <<topic, pc>> /\ jobs'[j] = "running" /\ pos'[j] = pos[j]
  BY <1>1, <1>3, <1>4 DEF Next, vars, flink, producer, F!CaughtUp
<1>. QED
  BY <1>1, <1>5
     DEF Through, F!CaughtUp, F!At, F!RawBuffer, F!RiskBuffer, F!AnomalyBuffer

(* Once the data has been through, DEVELOPMENT.md's counts are right, for  *)
(* any sample and whatever the IAFDemo asks for.                           *)
THEOREM DemoCountsOnceThrough ==
  ASSUME ByOperator
  PROVE  Spec /\ <>Through => DemoCounts
<1>. DEFINE counts ==
       /\ \A r \in 1..Rows : docs[F!EsRawIndex][r] = 1
       /\ \A r \in 1..Rows : /\ docs[F!EsRiskIndex][r] = IF r \in Risky THEN 1 ELSE 0
                             /\ anomalies[r] = IF r \in Risky THEN 1 ELSE 0
<1>1. PP!IInv /\ FP!IInv /\ FP!OneJobOnly /\ EndToEnd /\ Through /\ Faultless => counts
  <2>. SUFFICES ASSUME PP!IInv, FP!IInv, FP!OneJobOnly, EndToEnd, Through, Faultless
                PROVE  counts
    OBVIOUS
  <2>1. sendFaults = 0 /\ restarts = 0 /\ jobFaults = 0 /\ undelivered = 0 /\ repeats = 0
    BY ProducerTypes, Assumptions
       DEF Faultless, FP!IInv, FP!TypeOK, FP!FlinkJobAssumption, PP!IInv, PP!Progress
  <2>2. F!Starts \in Nat /\ F!Starts <= 1
    BY <2>1, Assumptions, FP!OneStart, FP!StartsNat, FlinkReads
  <2>3. /\ F!Starts * (1 * (1 + restarts) + sendFaults) <= 1
        /\ (F!Starts + repeats) * (1 * (1 + restarts) + sendFaults) <= 1
    BY <2>1, <2>2
  <2>4. ASSUME NEW r \in 1..Rows
        PROVE  /\ docs[F!EsRawIndex][r] \in Nat /\ docs[F!EsRiskIndex][r] \in Nat
               /\ anomalies[r] \in Nat
               /\ r \notin Risky => docs[F!EsRiskIndex][r] = 0 /\ anomalies[r] = 0
    <3>1. FP!DocumentsExplained
      BY Assumptions, FP!Explanations
    <3>. QED
      BY <3>1, FlinkReads
         DEF FP!DocumentsExplained, FP!IInv, FP!TypeOK, FP!Indices, F!EsRawIndex,
             F!EsRiskIndex, FP!EsRawIndex, FP!EsRiskIndex
  <2>. HIDE DEF Faultless
  <2>. QED
    BY <2>1, <2>2, <2>3, <2>4, OneSequence DEF EndToEnd
<1>2. [](PP!IInv /\ FP!IInv) /\ [][Next]_vars /\ []Faultless /\ <>Through => <>[]Through
  BY ThroughStays, PTL
<1>3. /\ [](PP!IInv /\ FP!IInv /\ FP!OneJobOnly /\ EndToEnd) /\ []Faultless /\ <>[]Through
      => <>[]counts
  BY <1>1, PTL
<1>4. (([]Faultless => <>[]counts) => DemoCounts)
  BY DEF DemoCounts
<1>. QED
  BY <1>2, <1>3, <1>4, ProducerInvariance, FlinkInvariance, FromEndToEnd, PTL DEF Spec

=============================================================================
