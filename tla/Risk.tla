---------------------------------- MODULE Risk ----------------------------------
(***************************************************************************)
(* What becomes of a late invoice: the Flink job of package com.abp        *)
(* filters the invoices of the raw topic and assigns a risk to each late   *)
(* one, by the rules of RiskMap or, if the task was given an endpoint, by  *)
(* asking the model for every single invoice.  Composed with module        *)
(* AIModels, which decides on the endpoint; module FlinkJob says what the  *)
(* sinks do with the result.  One job is followed, from its submission to  *)
(* its failure if it meets one.                                            *)
(***************************************************************************)
EXTENDS AIModels, Sequences

CONSTANTS
  Topics,     \* what the raw topic may hold
  Malformed,  \* a message of which neither source can make an object
  Models,     \* from each delay to what a model may answer, in tenths
  Unusable,   \* an answer without a prediction in it
  IntMax,     \* bound: the largest value of a Java int
  JobFaults   \* bound: failures of sources, sinks, calls to the model or Flink

Invoices == [hasId : BOOLEAN, amount : Int, payType : STRING, delay : Int]

ASSUME RiskAssumption ==
  /\ IntMax \in Nat /\ IntMax >= 100
  /\ JobFaults \in Nat
  /\ Models # {}
  /\ Topics \subseteq Seq(Invoices \cup {Malformed})
  /\ \A t \in Topics, f \in Models : \A k \in 1..Len(t) :
       t[k] # Malformed => f[t[k].delay] \in Int \cup {Unusable}

VARIABLES
  messages,  \* the raw topic
  job,       \* "none", "running" or "failed"
  by,        \* the risk map the job was built with
  model,     \* what the model it asks answers
  tls,       \* no TLS settings for the model, a truststore, or a missing one
  next,      \* the message the invoice stream of the job reads next
  assessed,  \* the late invoices with a risk, in the order of the sinks
  failed     \* failures that are not due to a message or the model's answer

flink    == <<messages, job, by, model, tls, next, assessed, failed>>
riskVars == <<vars, flink>>

----------------------------------------------------------------------------
(* The filters and the two maps. *)

Valid(m) == m.amount > 0
Late(m) == m.payType = "Late"

RuleRiskDelayFirst(m) ==  \* mutant: the delay is looked at first
  IF m.delay <= 90 THEN "Medium" ELSE IF m.amount <= 5000 THEN "Low" ELSE "High"

RuleRisk(m) ==
  IF m.amount <= 5000 THEN "Low" ELSE IF m.delay <= 90 THEN "Medium" ELSE "High"

RoundDown(a) == a \div 10  \* mutant: BigDecimal.intValue alone

\* setScale(0, UP) of an answer in tenths: away from zero.
RoundUp(a) == IF a >= 0 THEN (a + 9) \div 10 ELSE -((9 - a) \div 10)

\* BigDecimal.intValue keeps the low-order bits.
IntValue(n) == ((n + IntMax + 1) % (2 * (IntMax + 1))) - (IntMax + 1)

ModelRisk(a) ==
  LET out == IntValue(RoundUp(a))
  IN IF out > 100 THEN "High" ELSE IF out > 50 THEN "Medium" ELSE "Low"

\* With a TLS version but no readable truststore there is no client to call.
Client == tls # "missing"

ByModel == by = "model"

----------------------------------------------------------------------------
RiskInit ==
  /\ Init
  /\ messages \in Topics
  /\ job = "none"
  /\ by = "rules"
  /\ model = CHOOSE f \in Models : TRUE
  /\ tls = "off"
  /\ next = 1
  /\ assessed = <<>>
  /\ failed = 0

SubmitTooEarly ==  \* mutant: the job does not wait for its task
  /\ job = "none"
  /\ job' = "running"
  /\ by' = task
  /\ model' \in Models
  /\ tls' \in {"off", "present", "missing"}
  /\ UNCHANGED <<messages, next, assessed, failed, vars>>

\* The job is built once; where it runs, TLS is set up in one way or another.
Submit ==
  /\ job = "none"
  /\ task # "absent"
  /\ job' = "running"
  /\ by' = task
  /\ IF task = "model" THEN model' \in Models /\ tls' \in {"off", "present", "missing"}
     ELSE UNCHANGED <<model, tls>>
  /\ UNCHANGED <<messages, next, assessed, failed, vars>>

Reads == job = "running" /\ next <= Len(messages)

Message == messages[next]

MeetsInvoice == Reads /\ Message # Malformed /\ Valid(Message)  \* mutant: no LateFilter

MeetsLate == Reads /\ Message # Malformed /\ Valid(Message) /\ Late(Message)

Drop ==
  /\ Reads
  /\ Message # Malformed
  /\ ~(Valid(Message) /\ Late(Message))
  /\ next' = next + 1
  /\ UNCHANGED <<messages, job, by, model, tls, assessed, failed, vars>>

\* To both sinks.  The one of Kafka makes a CloudEvent of the invoice's ID.
Assess(answer, risk) ==
  /\ Message.hasId
  /\ next' = next + 1
  /\ assessed' = Append(assessed, [at |-> next, by |-> by, answer |-> answer, risk |-> risk])
  /\ UNCHANGED <<messages, job, by, model, tls, failed, vars>>

AssessByRules ==
  /\ MeetsLate
  /\ ~ByModel
  /\ Assess(Unusable, RuleRisk(Message))

Answered == Client /\ model[Message.delay] # Unusable

AssessByModel ==
  /\ MeetsLate
  /\ ByModel
  /\ Answered
  /\ Assess(model[Message.delay], ModelRisk(model[Message.delay]))

FailQuietly ==  \* mutant: a message that cannot be handled is skipped
  /\ next' = next + 1
  /\ UNCHANGED <<messages, job, by, model, tls, assessed>>

\* The exception is nowhere caught, and without checkpoints Flink does not
\* restart the job.
FailJob ==
  /\ job' = "failed"
  /\ UNCHANGED <<messages, by, model, tls, next, assessed>>

CannotRead == Reads /\ Message = Malformed /\ FailJob /\ UNCHANGED <<failed, vars>>

CannotAssess ==
  MeetsLate /\ ByModel /\ ~Answered /\ FailJob /\ UNCHANGED <<failed, vars>>

\* There is no CloudEvent without an ID; the Kafka sink comes before the index.
CannotSend ==
  /\ MeetsLate
  /\ ByModel => Answered
  /\ ~Message.hasId
  /\ FailJob
  /\ UNCHANGED <<failed, vars>>

Handle ==
  Drop \/ AssessByRules \/ AssessByModel \/ CannotRead \/ CannotAssess \/ CannotSend

\* The raw stream reads the same topic at a pace of its own, so it may be at
\* any message when the invoice stream is at this one.
RawCannotRead ==
  /\ job = "running"
  /\ \E k \in 1..Len(messages) : messages[k] = Malformed
  /\ FailJob
  /\ UNCHANGED <<failed, vars>>

\* A source, a sink, a call to the model or Flink itself fails.
JobFails ==
  /\ job = "running"
  /\ failed < JobFaults
  /\ failed' = failed + 1
  /\ FailJob
  /\ UNCHANGED vars

Job == Submit \/ Handle \/ RawCannotRead \/ JobFails

RiskNext == (Next /\ UNCHANGED flink) \/ Job

RiskSpec == RiskInit /\ [][RiskNext]_riskVars

(* The task's operator submits the job, and Flink runs it: the next message *)
(* is handled in one way or another.  Nothing has to fail.                  *)
FairRiskSpec == RiskSpec /\ Fairness /\ WF_riskVars(Submit) /\ WF_riskVars(Handle)

----------------------------------------------------------------------------
JobTypeOK ==
  /\ messages \in Topics
  /\ job \in {"none", "running", "failed"}
  /\ by \in {"rules", "model"}
  /\ model \in Models
  /\ tls \in {"off", "present", "missing"}
  /\ next \in 1..Len(messages) + 1
  /\ failed \in 0..JobFaults
  /\ assessed \in Seq([at : 1..Len(messages), by : {"rules", "model"},
                       answer : Int \cup {Unusable}, risk : {"Low", "Medium", "High"}])

RiskTypeOK == TypeOK /\ JobTypeOK

LatePositions(n) ==
  {k \in 1..n : messages[k] # Malformed /\ Valid(messages[k]) /\ Late(messages[k])}

\* The sinks get every valid late invoice that the job has read past, once and
\* in the order of the topic: none is dropped because of its answer.
LateInvoicesInOrder ==
  /\ {assessed[k].at : k \in 1..Len(assessed)} = LatePositions(next - 1)
  /\ \A j, k \in 1..Len(assessed) : j < k => assessed[j].at < assessed[k].at

Level(risk) == CASE risk = "Low" -> 1 [] risk = "Medium" -> 2 [] risk = "High" -> 3

InIntRange(a) == a \in Int /\ -10 * IntMax <= a /\ a <= 10 * IntMax

\* "Based on amount and how delayed it is": of two invoices assessed by the
\* rules, the one that is no smaller and no less late has no lower risk.
RiskGrows ==
  \A j, k \in 1..Len(assessed) :
    LET r == messages[assessed[j].at]
        s == messages[assessed[k].at]
    IN by = "rules" /\ r.amount <= s.amount /\ r.delay <= s.delay
         => Level(assessed[j].risk) <= Level(assessed[k].risk)

\* Rounding to an int does not shift the thresholds of the model's answer: the
\* risk is the one of the answer itself, as long as an int can hold it.
ThresholdsExact ==
  \A k \in 1..Len(assessed) :
    LET a == assessed[k].answer
    IN by = "model" /\ InIntRange(a) =>
         assessed[k].risk = IF a > 1000 THEN "High" ELSE IF a > 500 THEN "Medium" ELSE "Low"

\* A job is built to ask the model only after it was served, whatever the
\* cache of the AIDeployment said, and gets a risk from it, if over TLS, only
\* with a truststore.
ModelWasThere ==
  by = "model" => served /\ (assessed # <<>> => tls # "missing")

\* Unless a source, a sink, a call or Flink fails, a job fails over nothing but
\* a message that is no invoice, or at a late one that has no ID or for which
\* the model it asks has no truststore or no prediction.  Invoices that are not
\* late do no harm, nor does trouble with the model to a job by the rules.
FailsForAReason ==
  job = "failed" /\ failed = 0 =>
    \/ \E k \in 1..Len(messages) : messages[k] = Malformed
    \/ /\ next \in LatePositions(Len(messages))
       /\ ~Message.hasId \/ (by = "model" /\ ~Answered)

\* The demo's data: invoices, and an ID wherever it is needed.
Clean ==
  \A k \in 1..Len(messages) :
    messages[k] # Malformed /\ (k \in LatePositions(k) => messages[k].hasId)

\* Trouble with AI, a foundation that is never installed included, does not
\* keep the job from being submitted and doing its work: every late invoice is
\* assessed in the end, unless the job has failed; and if the data is clean and
\* it goes by the rules, only over a source, a sink or Flink.
LateInvoicesAssessed ==
  <>(\/ {assessed[k].at : k \in 1..Len(assessed)} = LatePositions(Len(messages))
     \/ job = "failed" /\ (Clean /\ by = "rules" => failed > 0))
=============================================================================
