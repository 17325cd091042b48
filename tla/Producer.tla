-------------------------------- MODULE Producer --------------------------------
(***************************************************************************)
(* The data producer, pkg/producer/producer.go: a pod that submits the     *)
(* rows of sample.csv to the raw Kafka topic, in groups with pauses        *)
(* between them, as often as it is configured to, and then waits forever.  *)
(* Its Deployment brings it back when it dies, and then it starts over.    *)
(* Sending is sarama's synchronous producer: an attempt may fail although  *)
(* the broker has appended the message, and is repeated.                   *)
(***************************************************************************)
EXTENDS Integers, Sequences, FiniteSets

CONSTANTS
  Rows,          \* the number of rows in sample.csv: 1725
  Settings,      \* the settings of the IAFDemo to look at
  NotANumber,    \* a setting strconv.Atoi refuses, the empty one included
  ByOperator,    \* the pod's environment is the one the operator makes
  MaxRetry,      \* sarama's Producer.Retry.Max: 10
  MaxFaults,     \* bound: attempts that fail
  MaxRestarts,   \* bound: deaths of the pod
  MaxSequences   \* bound: sequences begun when there is no end to them

ASSUME ProducerAssumption ==
  /\ Rows \in Nat \ {0}
  /\ NotANumber \notin Int
  /\ Settings \subseteq [messagesPerGroup : Int \cup {NotANumber},
                         sequenceRepititions : Int \cup {NotANumber}]
  /\ ByOperator \in BOOLEAN
  /\ {MaxRetry, MaxFaults, MaxRestarts, MaxSequences} \subseteq Nat

VARIABLES
  settings,   \* the settings of this IAFDemo
  pc,         \* where the producer is
  i,          \* the sequences it has completed
  row,        \* the row it submits
  numSent,    \* the rows submitted in this group
  attempt,    \* the attempts sarama has made for this row
  topic,      \* the raw topic
  undelivered, \* history: the rows this pod has logged as failed to send
  burst,      \* history: the rows this pod has submitted since it last paused
  faults, restarts

pod    == <<pc, i, row, numSent, attempt, undelivered, burst>>
budget == <<faults, restarts>>
vars   == <<settings, pod, topic, budget>>

----------------------------------------------------------------------------
(* The environment of the pod, and what Start makes of it. *)

\* reconcileMicroservice does not set the variable Config reads the number of
\* repetitions from, but one of another name.
Env ==
  IF ByOperator
  THEN [MESSAGES_PER_GROUP |-> settings.messagesPerGroup,
        SAMPLE_REPITITIONS |-> settings.sequenceRepititions]
  ELSE [MESSAGES_PER_GROUP |-> settings.messagesPerGroup,
        SEQUENCE_REPITITIONS |-> settings.sequenceRepititions]

AtoiDefault(name, default) ==  \* mutant: the error of Atoi is always there
  default

Atoi(name, default) ==
  IF name \in DOMAIN Env /\ Env[name] # NotANumber THEN Env[name] ELSE default

MaxInt32 == 2147483647

messagesPerGroup    == Atoi("MESSAGES_PER_GROUP", MaxInt32)
sequenceRepititions == Atoi("SEQUENCE_REPITITIONS", 1)

----------------------------------------------------------------------------
TypeOK ==
  /\ settings \in Settings
  /\ pc \in {"start", "sequence", "send", "pause", "wait"}
  /\ i \in Nat
  /\ row \in 1..Rows
  /\ numSent \in 0..Rows
  /\ attempt \in 0..MaxRetry
  /\ topic \in Seq(1..Rows)
  /\ undelivered \in 0..MaxFaults
  /\ burst \in Nat
  /\ faults \in 0..MaxFaults
  /\ restarts \in 0..MaxRestarts

Init ==
  /\ settings \in Settings
  /\ pc = "start"
  /\ i = 0
  /\ row = 1
  /\ numSent = 0
  /\ attempt = 0
  /\ topic = <<>>
  /\ undelivered = 0
  /\ burst = 0
  /\ faults = 0
  /\ restarts = 0

Start ==
  /\ pc = "start"
  /\ pc' = "sequence"
  /\ UNCHANGED <<settings, i, row, numSent, attempt, undelivered, burst, topic, budget>>

SequenceKeepingCount ==  \* mutant: numSent is not declared in sendSequence
  /\ pc = "sequence"
  /\ \/ i = sequenceRepititions /\ pc' = "wait"
     \/ i # sequenceRepititions /\ i < MaxSequences /\ pc' = "send"
  /\ row' = 1
  /\ UNCHANGED <<settings, i, numSent, attempt, undelivered, burst, topic, budget>>

SequenceUpTo ==  \* mutant: the loop runs up to the number, that one included
  /\ pc = "sequence"
  /\ \/ i - 1 = sequenceRepititions /\ pc' = "wait"
     \/ i - 1 # sequenceRepititions /\ i <= MaxSequences /\ pc' = "send"
  /\ row' = 1
  /\ numSent' = 0
  /\ UNCHANGED <<settings, i, attempt, undelivered, burst, topic, budget>>

\* The loop's condition is i != sequenceRepititions: a negative number is
\* never reached.
Sequence ==
  /\ pc = "sequence"
  /\ \/ i = sequenceRepititions /\ pc' = "wait"
     \/ i # sequenceRepititions /\ i < MaxSequences /\ pc' = "send"
  /\ row' = 1
  /\ numSent' = 0
  /\ UNCHANGED <<settings, i, attempt, undelivered, burst, topic, budget>>

NextRowButLast ==  \* mutant: the last row is left out
  IF row < Rows - 1
  THEN pc' = "send" /\ row' = row + 1 /\ UNCHANGED i
  ELSE pc' = "sequence" /\ i' = i + 1 /\ UNCHANGED row

NextRow ==
  IF row < Rows
  THEN pc' = "send" /\ row' = row + 1 /\ UNCHANGED i
  ELSE pc' = "sequence" /\ i' = i + 1 /\ UNCHANGED row

\* A row was submitted, sent or not.
SubmittedLate ==  \* mutant: > for >=
  /\ burst' = burst + 1
  /\ numSent' = numSent + 1
  /\ attempt' = 0
  /\ IF numSent + 1 > messagesPerGroup
     THEN pc' = "pause" /\ UNCHANGED <<i, row>>
     ELSE NextRow

Submitted ==
  /\ burst' = burst + 1
  /\ numSent' = numSent + 1
  /\ attempt' = 0
  /\ IF numSent + 1 >= messagesPerGroup
     THEN pc' = "pause" /\ UNCHANGED <<i, row>>
     ELSE NextRow

Send ==
  /\ pc = "send"
  /\ topic' = Append(topic, row)
  /\ Submitted
  /\ UNCHANGED <<settings, undelivered, budget>>

\* The broker may have appended the message of an attempt that fails.
Attempt ==
  /\ pc = "send"
  /\ faults < MaxFaults
  /\ faults' = faults + 1
  /\ topic' \in {topic, Append(topic, row)}
  /\ UNCHANGED restarts

RetryForgetting ==  \* mutant: the message is taken for sent
  /\ Attempt
  /\ attempt < MaxRetry
  /\ Submitted
  /\ UNCHANGED <<settings, undelivered>>

Retry ==
  /\ Attempt
  /\ attempt < MaxRetry
  /\ attempt' = attempt + 1
  /\ UNCHANGED <<settings, pc, i, row, numSent, undelivered, burst>>

\* No attempt is left, or the error is not one to retry: it is logged only.
GiveUp ==
  /\ Attempt
  /\ undelivered' = undelivered + 1
  /\ Submitted
  /\ UNCHANGED settings

PauseForever ==  \* mutant: the pause waits the way the end of Start does
  /\ pc = "pause"
  /\ numSent' = 0
  /\ UNCHANGED <<settings, pc, i, row, attempt, undelivered, burst, topic, budget>>

Pause ==
  /\ pc = "pause"
  /\ numSent' = 0
  /\ burst' = 0
  /\ NextRow
  /\ UNCHANGED <<settings, attempt, undelivered, topic, budget>>

\* The pod dies, log.Fatal included; the next one knows nothing of it.
Restart ==
  /\ restarts < MaxRestarts
  /\ restarts' = restarts + 1
  /\ pc' = "start"
  /\ i' = 0
  /\ row' = 1
  /\ numSent' = 0
  /\ attempt' = 0
  /\ undelivered' = 0
  /\ burst' = 0
  /\ UNCHANGED <<settings, topic, faults>>

Run == Start \/ Sequence \/ Send \/ Retry \/ GiveUp \/ Pause

Next == Run \/ Restart

Spec == Init /\ [][Next]_vars

\* The process runs on until it waits or dies.
FairSpec == Spec /\ WF_vars(Run)

----------------------------------------------------------------------------
Copies(r) == Cardinality({k \in DOMAIN topic : topic[k] = r})

\* What is in the topic when the producer waits: every row once for each
\* sequence, but for as many copies as this pod has logged rows as failed to
\* send; none is missing if it has logged none.
NothingLost ==
  pc = "wait" => \A r \in 1..Rows : Copies(r) >= sequenceRepititions - undelivered

\* Only a failed attempt or the death of the pod makes duplicates: a pod
\* contributes at most one copy for each sequence and each failed attempt.
DuplicatesExplained ==
  sequenceRepititions >= 0 =>
    \A r \in 1..Rows : Copies(r) <= sequenceRepititions * (1 + restarts) + faults

\* What comes at place k if the topic is the sample over and over.
Expected(k) == IF k = 1 \/ topic[k - 1] = Rows THEN 1 ELSE topic[k - 1] + 1

\* Across pauses and sequences the topic is the sample over and over, in its
\* order, broken at most once for each failed attempt (its message repeated or
\* left out) and each death of the pod (the sample from its first row).
InSampleOrder ==
  Cardinality({k \in DOMAIN topic : topic[k] # Expected(k)}) <= faults + restarts

\* The counter of a group starts anew with each sequence, so the end of one
\* and the beginning of the next may come without a pause between them, but
\* fewer than two groups ever do.
BurstBounded ==
  1 <= messagesPerGroup /\ messagesPerGroup <= Rows =>
    burst <= 2 * messagesPerGroup - 1

\* A producer with a number of sequences to submit gets through with them.
Completes == <>(pc = "wait") \/ [](sequenceRepititions < 0)

\* The sample is submitted as often as the IAFDemo says.
RepititionsHonoured ==
  pc = "wait" /\ undelivered = 0 /\ settings.sequenceRepititions # NotANumber =>
    \A r \in 1..Rows : Copies(r) >= settings.sequenceRepititions
=============================================================================
