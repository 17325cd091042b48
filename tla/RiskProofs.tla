------------------------------- MODULE RiskProofs -------------------------------
(***************************************************************************)
(* Proofs about module Risk, for every topic, every model, every size of   *)
(* an int that holds the thresholds, and any number of failures.           *)
(***************************************************************************)
EXTENDS Risk, AIModelsProofs

----------------------------------------------------------------------------
(* Rounding and the thresholds. *)

LEMMA Rounded ==
  \A a \in Int :
    /\ RoundUp(a) \in Int
    /\ RoundUp(a) > 100 <=> a > 1000
    /\ RoundUp(a) > 50 <=> a > 500
    /\ InIntRange(a) => -IntMax <= RoundUp(a) /\ RoundUp(a) <= IntMax
BY RiskAssumption DEF RoundUp, InIntRange

LEMMA ModOfSmall ==
  ASSUME NEW m \in Nat, NEW x \in 0..m-1
  PROVE  x % m = x
OBVIOUS

LEMMA IntKept ==
  ASSUME NEW n \in Int, -IntMax <= n, n <= IntMax
  PROVE  IntValue(n) = n
<1>. DEFINE m == 2 * (IntMax + 1)
            x == n + IntMax + 1
<1>1. IntMax \in Nat
  BY RiskAssumption
<1>2. m \in Nat /\ x \in 0..m-1
  BY <1>1
<1>3. x % m = x
  <2>. HIDE DEF m, x
  <2>. QED  BY <1>2, ModOfSmall
<1>4. IntValue(n) = x - (IntMax + 1)
  BY <1>3 DEF IntValue
<1>. QED
  BY <1>1, <1>4

LEMMA ExactThresholds ==
  ASSUME NEW a \in Int, InIntRange(a)
  PROVE  ModelRisk(a) = IF a > 1000 THEN "High" ELSE IF a > 500 THEN "Medium" ELSE "Low"
<1>1. IntValue(RoundUp(a)) = RoundUp(a)
  BY Rounded, IntKept
<1>. QED
  BY <1>1, Rounded DEF ModelRisk

LEMMA RulesGrow ==
  ASSUME NEW r, NEW s, r.amount \in Int, s.amount \in Int, r.delay \in Int, s.delay \in Int,
         r.amount <= s.amount, r.delay <= s.delay
  PROVE  Level(RuleRisk(r)) <= Level(RuleRisk(s))
BY DEF RuleRisk, Level

(* What the maps return is a risk.                                         *)
LEMMA RisksTyped ==
  /\ \A m : RuleRisk(m) \in {"Low", "Medium", "High"}
  /\ \A a : ModelRisk(a) \in {"Low", "Medium", "High"}
BY DEF RuleRisk, ModelRisk

----------------------------------------------------------------------------
(* The job leaves the operator's part of the demo alone. *)

LEMMA StepsOfDemo == [RiskNext]_riskVars => [Next]_vars
BY DEF RiskNext, riskVars, Job, Submit, Drop, AssessByRules, AssessByModel, Assess,
       Handle, CannotRead, CannotAssess, CannotSend, RawCannotRead, JobFails

(* Every behaviour of the composition is one of module AIModels: what is   *)
(* proved there holds here.                                                *)
THEOREM DemoIsKept == RiskSpec => Spec
<1>1. RiskInit => Init
  BY DEF RiskInit
<1>. QED
  BY <1>1, StepsOfDemo, PTL DEF RiskSpec, Spec

LEMMA ServedStays == Next => (served => served')
BY DEF Next, Worker, Crash, Environment, api, Begin, GetStorageSecret, BucketExists, MakeBucket,
       PutObject, WalkDone, MinioFails, MinioUnanswered, GetDeployment, GetKFSecret, CreateRuntime,
       CreateModel, CreateResource, CreateDeployment, ApiFails, ApiUnanswered, PassEndsEarly,
       Lookup, CreateTask, SecretAppears, Decide, ServingFails, Reconsider, SyncCache

----------------------------------------------------------------------------
(* The job's state: nothing is assessed before it is submitted, and each   *)
(* result is what the job's map makes of its invoice.                      *)
Fresh == job = "none" => by = "rules" /\ next = 1 /\ assessed = <<>>

Explained(e) ==
  /\ e.at \in LatePositions(next - 1)
  /\ IF by = "rules" THEN e.risk = RuleRisk(messages[e.at])
     ELSE /\ tls # "missing"
          /\ e.answer \in Int
          /\ e.risk = ModelRisk(e.answer)

Results == \A k \in 1..Len(assessed) : Explained(assessed[k])

(* A job by the model was given an endpoint that had been served.          *)
WasServed == by = "model" => served

JobInv == JobTypeOK /\ Fresh /\ Results /\ LateInvoicesInOrder /\ FailsForAReason /\ WasServed

(* The messages of the topic, as far as the job may read them.             *)
LEMMA TopicTyped ==
  ASSUME messages \in Topics
  PROVE
  /\ Len(messages) \in Nat
  /\ \A k \in 1..Len(messages) :
       messages[k] # Malformed =>
         /\ messages[k].amount \in Int /\ messages[k].delay \in Int
         /\ \A f \in Models : f[messages[k].delay] \in Int \cup {Unusable}
BY RiskAssumption DEF Invoices

LEMMA JobInitially == RiskInit => JobInv
<1>. SUFFICES ASSUME RiskInit PROVE JobInv
  OBVIOUS
<1>1. model \in Models
  BY RiskAssumption DEF RiskInit
<1>2. JobTypeOK
  BY <1>1, TopicTyped, RiskAssumption DEF RiskInit, JobTypeOK
<1>3. LateInvoicesInOrder
  <2>1. LatePositions(0) = {}
    BY DEF LatePositions
  <2>. QED  BY <2>1 DEF RiskInit, LateInvoicesInOrder
<1>4. Fresh /\ Results /\ FailsForAReason /\ WasServed
  BY DEF RiskInit, Fresh, Results, FailsForAReason, WasServed
<1>. QED
  BY <1>2, <1>3, <1>4 DEF JobInv

(* Reading past one message adds its position, if it is a late invoice.    *)
LEMMA OneMore ==
  ASSUME JobTypeOK, Reads
  PROVE  /\ next \in 1..Len(messages)
         /\ MeetsLate => LatePositions(next) = LatePositions(next - 1) \cup {next}
         /\ Message = Malformed \/ ~(Valid(Message) /\ Late(Message))
              => LatePositions(next) = LatePositions(next - 1)
         /\ \A k \in LatePositions(next - 1) : k < next
BY TopicTyped DEF JobTypeOK, Reads, MeetsLate, Message, LatePositions

Result == [at : 1..Len(messages), by : {"rules", "model"},
           answer : Int \cup {Unusable}, risk : {"Low", "Medium", "High"}]

(* A result is put behind the earlier ones.                                *)
LEMMA AppendKeeps ==
  ASSUME JobInv, MeetsLate, NEW answer, NEW risk, Assess(answer, risk),
         answer \in Int \cup {Unusable}, risk \in {"Low", "Medium", "High"},
         IF by = "rules" THEN risk = RuleRisk(Message)
         ELSE tls # "missing" /\ answer \in Int /\ risk = ModelRisk(answer)
  PROVE  JobInv'
<1>. DEFINE e == [at |-> next, by |-> by, answer |-> answer, risk |-> risk]
<1>1. next \in 1..Len(messages) /\ LatePositions(next) = LatePositions(next - 1) \cup {next}
      /\ \A k \in LatePositions(next - 1) : k < next
  BY OneMore DEF JobInv, MeetsLate
<1>2. next' = next + 1 /\ assessed' = Append(assessed, e)
      /\ UNCHANGED <<messages, job, by, model, tls, failed, vars>>
  BY DEF Assess
<1>3. e \in Result /\ assessed \in Seq(Result)
  BY <1>1 DEF JobInv, JobTypeOK, Result
<1>4. assessed' \in Seq(Result) /\ Len(assessed') = Len(assessed) + 1
      /\ (\A k \in 1..Len(assessed) : assessed'[k] = assessed[k]) /\ assessed'[Len(assessed) + 1] = e
  BY <1>2, <1>3
<1>5. JobTypeOK'
  BY <1>1, <1>2, <1>4, TopicTyped DEF JobInv, JobTypeOK, Result
<1>6. job = "running" /\ Fresh' /\ FailsForAReason'
  BY <1>2 DEF JobInv, MeetsLate, Reads, Fresh, FailsForAReason
<1>7. WasServed'
  BY <1>2 DEF JobInv, WasServed, vars, api
<1>8. next' - 1 = next
  BY <1>1, <1>2
<1>9. Results'
  <2>. SUFFICES ASSUME NEW k \in 1..Len(assessed') PROVE Explained(assessed[k])'
    BY DEF Results
  <2>1. CASE k = Len(assessed) + 1
    <3>1. assessed'[k] = e
      BY <1>4, <2>1
    <3>. QED  BY <1>1, <1>2, <1>8, <3>1 DEF Explained, LatePositions, Message
  <2>2. CASE k \in 1..Len(assessed)
    <3>1. Explained(assessed[k]) /\ assessed'[k] = assessed[k]
      BY <1>4, <2>2 DEF JobInv, Results
    <3>. QED  BY <1>1, <1>2, <1>8, <3>1 DEF Explained, LatePositions
  <2>. QED  BY <1>3, <1>4, <2>1, <2>2
<1>10. LateInvoicesInOrder'
  <2>1. {assessed'[k].at : k \in 1..Len(assessed')} =
          {assessed[k].at : k \in 1..Len(assessed)} \cup {next}
    BY <1>3, <1>4
  <2>2. \A k \in 1..Len(assessed) : assessed[k].at < next
    BY <1>1 DEF JobInv, LateInvoicesInOrder
  <2>3. \A j, k \in 1..Len(assessed') : j < k => assessed'[j].at < assessed'[k].at
    BY <1>3, <1>4, <2>2 DEF JobInv, LateInvoicesInOrder
  <2>4. LatePositions(next - 1)' = LatePositions(next - 1) \cup {next}
    BY <1>1, <1>2, <1>8 DEF LatePositions
  <2>. QED  BY <2>1, <2>3, <2>4 DEF JobInv, LateInvoicesInOrder
<1>. QED
  BY <1>5, <1>6, <1>7, <1>9, <1>10 DEF JobInv

LEMMA AssessKeeps ==
  ASSUME JobInv, AssessByRules \/ AssessByModel
  PROVE  JobInv'
<1>1. CASE AssessByRules
  BY <1>1, AppendKeeps, RisksTyped DEF AssessByRules, ByModel, JobInv, JobTypeOK
<1>2. CASE AssessByModel
  <2>. DEFINE a == model[Message.delay]
  <2>1. a \in Int
    BY <1>2, OneMore, TopicTyped
       DEF AssessByModel, Answered, MeetsLate, Message, JobInv, JobTypeOK
  <2>2. Client /\ by = "model" /\ MeetsLate /\ Assess(a, ModelRisk(a))
    BY <1>2 DEF AssessByModel, Answered, ByModel
  <2>. HIDE DEF a
  <2>. QED  BY <2>1, <2>2, AppendKeeps, RisksTyped DEF Client
<1>. QED
  BY <1>1, <1>2

Fails == CannotRead \/ CannotAssess \/ CannotSend \/ RawCannotRead \/ JobFails

(* Each way of failing has its reason, one of them its own counter.        *)
LEMMA FailingKeepsReasons ==
  ASSUME JobTypeOK, Fails
  PROVE  FailsForAReason'
<1>1. UNCHANGED <<messages, by, model, tls, next>>
  BY DEF Fails, CannotRead, CannotAssess, CannotSend, RawCannotRead, JobFails, FailJob
<1>2. CASE CannotRead
  BY <1>1, <1>2, OneMore DEF CannotRead, FailsForAReason, Message
<1>3. CASE RawCannotRead
  BY <1>1, <1>3 DEF RawCannotRead, FailsForAReason
<1>4. CASE JobFails
  BY <1>4 DEF JobFails, JobTypeOK, FailsForAReason
<1>5. CASE CannotAssess \/ CannotSend
  <2>1. MeetsLate /\ (~Message.hasId \/ (by = "model" /\ ~Answered))
    BY <1>5 DEF CannotAssess, CannotSend, ByModel
  <2>2. next \in LatePositions(Len(messages))
    BY <2>1, OneMore DEF MeetsLate, Message, LatePositions
  <2>. QED
    BY <1>1, <2>1, <2>2 DEF FailsForAReason, Message, Answered, Client, LatePositions
<1>. QED
  BY <1>2, <1>3, <1>4, <1>5 DEF Fails

(* The steps of the job that assess nothing.                               *)
LEMMA OthersKeep ==
  ASSUME JobInv, Submit \/ Drop \/ Fails,
         task = "model" => served, task \in {"absent", "rules", "model"}
  PROVE  JobInv'
<1>1. CASE Submit
  <2>1. by' = task /\ task # "absent" /\ UNCHANGED <<messages, next, assessed, failed, vars>>
        /\ job = "none" /\ job' = "running"
    BY <1>1 DEF Submit
  <2>2. model' \in Models /\ tls' \in {"off", "present", "missing"}
    BY <1>1 DEF Submit, JobInv, JobTypeOK
  <2>3. JobTypeOK'
    BY <2>1, <2>2 DEF JobInv, JobTypeOK
  <2>4. assessed' = <<>>
    BY <2>1 DEF JobInv, Fresh
  <2>5. Fresh' /\ Results' /\ FailsForAReason'
    BY <2>1, <2>4 DEF Fresh, Results, FailsForAReason
  <2>6. LateInvoicesInOrder'
    BY <2>1 DEF JobInv, LateInvoicesInOrder, LatePositions
  <2>7. WasServed'
    BY <2>1 DEF WasServed, vars, api
  <2>. QED  BY <2>3, <2>5, <2>6, <2>7 DEF JobInv
<1>2. CASE Drop
  <2>1. next' = next + 1 /\ UNCHANGED <<messages, job, by, model, tls, assessed, failed, vars>>
    BY <1>2 DEF Drop
  <2>2. next \in 1..Len(messages) /\ LatePositions(next) = LatePositions(next - 1)
        /\ next' - 1 = next
    BY <1>2, <2>1, OneMore DEF JobInv, Drop
  <2>3. JobTypeOK'
    BY <2>1, <2>2, TopicTyped DEF JobInv, JobTypeOK
  <2>4. Fresh' /\ FailsForAReason'
    BY <1>2, <2>1 DEF Drop, Reads, Fresh, FailsForAReason
  <2>5. LatePositions(next - 1)' = LatePositions(next - 1)
    BY <2>1, <2>2 DEF LatePositions
  <2>6. LateInvoicesInOrder' /\ Results'
    BY <2>1, <2>5 DEF JobInv, LateInvoicesInOrder, Results, Explained
  <2>7. WasServed'
    BY <2>1 DEF JobInv, WasServed, vars, api
  <2>. QED  BY <2>3, <2>4, <2>5, <2>6, <2>7 DEF JobInv
<1>3. CASE Fails
  <2>1. job' = "failed" /\ UNCHANGED <<messages, by, model, tls, next, assessed, vars>>
    BY <1>3 DEF Fails, CannotRead, CannotAssess, CannotSend, RawCannotRead, JobFails, FailJob
  <2>2. failed' \in 0..JobFaults
    BY <1>3, RiskAssumption
       DEF Fails, CannotRead, CannotAssess, CannotSend, RawCannotRead, JobFails, JobInv, JobTypeOK
  <2>3. JobTypeOK'
    BY <2>1, <2>2 DEF JobInv, JobTypeOK
  <2>4. job = "running"
    BY <1>3 DEF Fails, CannotRead, CannotAssess, CannotSend, RawCannotRead, JobFails, MeetsLate, Reads
  <2>5. Fresh' /\ Results' /\ LateInvoicesInOrder' /\ WasServed'
    BY <2>1 DEF JobInv, Fresh, Results, Explained, LateInvoicesInOrder, LatePositions,
                WasServed, vars, api
  <2>6. FailsForAReason'
    BY <1>3, FailingKeepsReasons DEF JobInv
  <2>. QED  BY <2>3, <2>5, <2>6 DEF JobInv
<1>. QED
  BY <1>1, <1>2, <1>3

THEOREM JobInvariance == RiskSpec => []JobInv
<1>1. JobInv /\ IInv /\ [RiskNext]_riskVars => JobInv'
  <2>. SUFFICES ASSUME JobInv, IInv, [RiskNext]_riskVars PROVE JobInv'
    OBVIOUS
  <2>1. task = "model" => served
    BY DEF IInv, EndpointIsReal
  <2>2. task \in {"absent", "rules", "model"}
    BY DEF IInv, TypeOK
  <2>3. CASE Job
    BY <2>1, <2>2, <2>3, AssessKeeps, OthersKeep DEF Job, Handle, Fails
  <2>4. CASE UNCHANGED flink /\ (served => served')
    BY <2>4 DEF flink, JobInv, JobTypeOK, Fresh, Results, Explained, LateInvoicesInOrder,
                LatePositions, FailsForAReason, Message, Answered, Client, WasServed
  <2>. QED
    BY <2>3, <2>4, ServedStays DEF RiskNext, riskVars, vars, api
<1>. QED
  BY JobInitially, DemoIsKept, Invariance, <1>1, PTL DEF RiskSpec

(* Every variable of the operator's part and of the job stays in its set.  *)
THEOREM RiskTypeCorrect == RiskSpec => []RiskTypeOK
<1>1. JobInv => JobTypeOK
  BY DEF JobInv
<1>2. TypeOK /\ JobTypeOK => RiskTypeOK
  BY DEF RiskTypeOK
<1>. QED
  BY JobInvariance, DemoIsKept, TypeCorrect, <1>1, <1>2, PTL

(* The results are the valid late invoices read so far, each once, in the  *)
(* order of the topic.                                                     *)
THEOREM NoLateInvoiceDropped == RiskSpec => []LateInvoicesInOrder
<1>1. JobInv => LateInvoicesInOrder
  BY DEF JobInv
<1>. QED
  BY JobInvariance, <1>1, PTL

(* The rounded answer is on the same side of each threshold as the answer. *)
THEOREM ThresholdsAreExact == RiskSpec => []ThresholdsExact
<1>1. JobInv => ThresholdsExact
  BY ExactThresholds DEF JobInv, Results, Explained, ThresholdsExact
<1>. QED
  BY JobInvariance, <1>1, PTL

(* The rules never rate a larger and later invoice lower.                  *)
THEOREM RiskGrowsByRules == RiskSpec => []RiskGrows
<1>1. JobInv => RiskGrows
  <2>. SUFFICES ASSUME JobInv, by = "rules", NEW j \in 1..Len(assessed), NEW k \in 1..Len(assessed),
                       messages[assessed[j].at].amount <= messages[assessed[k].at].amount,
                       messages[assessed[j].at].delay <= messages[assessed[k].at].delay
                PROVE  Level(assessed[j].risk) <= Level(assessed[k].risk)
    BY DEF RiskGrows
  <2>1. Explained(assessed[j]) /\ Explained(assessed[k]) /\ messages \in Topics
    BY DEF JobInv, JobTypeOK, Results
  <2>0. \A n \in LatePositions(next - 1) : n \in 1..Len(messages) /\ messages[n] # Malformed
    BY TopicTyped DEF LatePositions, JobInv, JobTypeOK
  <2>2. assessed[j].at \in 1..Len(messages) /\ messages[assessed[j].at] # Malformed
        /\ assessed[k].at \in 1..Len(messages) /\ messages[assessed[k].at] # Malformed
    BY <2>0, <2>1 DEF Explained
  <2>. QED
    BY <2>1, <2>2, RulesGrow, TopicTyped DEF Explained
<1>. QED
  BY JobInvariance, <1>1, PTL

(* A job asks a model that was served, and gets risks from it only with a  *)
(* truststore or without TLS.                                              *)
THEOREM ModelWasThereAlways == RiskSpec => []ModelWasThere
<1>1. JobInv => ModelWasThere
  <2>1. ASSUME JobInv, by = "model", assessed # <<>> PROVE tls # "missing"
    <3>1. 1 \in 1..Len(assessed)
      BY <2>1 DEF JobInv, JobTypeOK
    <3>. QED  BY <2>1, <3>1 DEF JobInv, Results, Explained
  <2>. QED  BY <2>1 DEF JobInv, WasServed, ModelWasThere
<1>. QED
  BY JobInvariance, <1>1, PTL

(* Each source, sink and call provided, a job fails over a message that is *)
(* no invoice, at a late one without an ID, or over the model it asks.     *)
THEOREM FailuresHaveReasons == RiskSpec => []FailsForAReason
<1>1. JobInv => FailsForAReason
  BY DEF JobInv
<1>. QED
  BY JobInvariance, <1>1, PTL

(* What is left of LateInvoicesAssessed is progress alone: a job that gets *)
(* through the topic or fails has assessed every late invoice, or failed   *)
(* for a reason that is not the operator's AI stage.                       *)
THEOREM GettingThroughIsEnough ==
  RiskSpec /\ <>(job = "failed" \/ next > Len(messages)) => LateInvoicesAssessed
<1>. DEFINE Done == \/ {assessed[k].at : k \in 1..Len(assessed)} = LatePositions(Len(messages))
                    \/ job = "failed" /\ (Clean /\ by = "rules" => failed > 0)
<1>1. JobInv /\ (job = "failed" \/ next > Len(messages)) => Done
  <2>1. ASSUME JobInv, next > Len(messages)
        PROVE  {assessed[k].at : k \in 1..Len(assessed)} = LatePositions(Len(messages))
    <3>1. next - 1 = Len(messages)
      BY <2>1, TopicTyped DEF JobInv, JobTypeOK
    <3>. QED  BY <2>1, <3>1 DEF JobInv, LateInvoicesInOrder
  <2>2. ASSUME JobInv, job = "failed", Clean, by = "rules"
        PROVE  failed > 0
    <3>1. failed \in Nat /\ Len(messages) \in Nat
      BY <2>2, TopicTyped, RiskAssumption DEF JobInv, JobTypeOK
    <3>2. \A k \in LatePositions(Len(messages)) : k \in 1..Len(messages) /\ k \in LatePositions(k)
      BY <3>1 DEF LatePositions
    <3>3. failed # 0
      BY <2>2, <3>2 DEF JobInv, FailsForAReason, Clean, Message
    <3>. QED  BY <3>1, <3>3
  <2>. QED  BY <2>1, <2>2
<1>2. LateInvoicesAssessed <=> <>Done
  BY DEF LateInvoicesAssessed
<1>. HIDE DEF Done
<1>. QED
  BY JobInvariance, <1>1, <1>2, PTL
=============================================================================
