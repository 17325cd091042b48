----------------------------- MODULE ProducerProofs -----------------------------
(***************************************************************************)
(* Proofs about module Producer, for every sample, every settings and      *)
(* every bound.                                                            *)
(***************************************************************************)
EXTENDS Producer, FiniteSetTheorems, TLAPS

(* Where the counters are, given the place in the program. *)
Progress ==
  /\ pc = "start" => burst = 0
  /\ pc = "send" => numSent < row
  /\ pc = "pause" => numSent <= row
  /\ pc = "wait" => i = sequenceRepititions
  /\ undelivered <= faults

(* In the first group of a sequence the rest of the one before it may still *)
(* count; from the first pause on, burst and numSent are one.               *)
BurstInv ==
  1 <= messagesPerGroup /\ messagesPerGroup <= Rows =>
    /\ pc \in {"sequence", "wait"} => burst < messagesPerGroup
    /\ pc = "send" => /\ numSent < messagesPerGroup
                      /\ burst - numSent < messagesPerGroup
                      /\ burst = numSent \/ numSent = row - 1
    /\ burst <= 2 * messagesPerGroup - 1

(* How often this pod has submitted row r. *)
Done(r) ==
  IF (pc = "send" /\ r < row) \/ (pc = "pause" /\ r <= row) THEN i + 1 ELSE i

EnoughCopies == \A r \in 1..Rows : Copies(r) >= Done(r) - undelivered

(* As much as the pods before this one may have submitted. *)
Before == sequenceRepititions * restarts

FewCopies ==
  sequenceRepititions >= 0 =>
    /\ i <= sequenceRepititions
    /\ pc \in {"send", "pause"} => i < sequenceRepititions
    /\ \A r \in 1..Rows :
         Copies(r) <= Before + Done(r) + faults

IInv == TypeOK /\ Progress /\ BurstInv /\ EnoughCopies /\ FewCopies

----------------------------------------------------------------------------
LEMMA SettingsAreNumbers ==
  ASSUME settings \in Settings
  PROVE  messagesPerGroup \in Int /\ sequenceRepititions \in Int
BY ProducerAssumption
   DEF messagesPerGroup, sequenceRepititions, Atoi, Env, MaxInt32

LEMMA SettingsStay ==
  ASSUME settings' = settings
  PROVE  /\ messagesPerGroup' = messagesPerGroup
         /\ sequenceRepititions' = sequenceRepititions
BY DEF messagesPerGroup, sequenceRepititions, Atoi, Env

(* The positions of a row in a topic are finitely many. *)
LEMMA PositionsFinite ==
  ASSUME NEW t \in Seq(1..Rows), NEW r
  PROVE  /\ IsFiniteSet({k \in DOMAIN t : t[k] = r})
         /\ Cardinality({k \in DOMAIN t : t[k] = r}) \in Nat
<1>1. IsFiniteSet(1..Len(t))
  BY FS_Interval
<1>2. DOMAIN t = 1..Len(t)
  OBVIOUS
<1>. QED
  BY <1>1, <1>2, FS_Subset, FS_CardinalityType

(* One message more is one copy more of its row. *)
LEMMA AppendCounts ==
  ASSUME topic \in Seq(1..Rows), row \in 1..Rows, NEW r \in 1..Rows,
         topic' = Append(topic, row)
  PROVE  Copies(r)' = IF r = row THEN Copies(r) + 1 ELSE Copies(r)
<1>. DEFINE S == {k \in DOMAIN topic : topic[k] = r}
            n == Len(topic) + 1
<1>1. IsFiniteSet(S) /\ Cardinality(S \cup {n}) = Cardinality(S) + 1
  <2>1. IsFiniteSet(S)
    BY PositionsFinite
  <2>2. n \notin S
    OBVIOUS
  <2>. QED
    BY <2>1, <2>2, FS_AddElement
<1>2. CASE r = row
  <2>1. {k \in DOMAIN topic' : topic'[k] = r} = S \cup {n}
    BY <1>2
  <2>. QED
    BY <1>1, <1>2, <2>1 DEF Copies
<1>3. CASE r # row
  <2>1. {k \in DOMAIN topic' : topic'[k] = r} = S
    BY <1>3
  <2>. QED
    BY <1>3, <2>1 DEF Copies
<1>. QED
  BY <1>2, <1>3

LEMMA CopiesNat ==
  ASSUME topic \in Seq(1..Rows), NEW r
  PROVE  Copies(r) \in Nat
BY PositionsFinite DEF Copies

LEMMA CopiesStay ==
  ASSUME topic' = topic, NEW r
  PROVE  Copies(r)' = Copies(r)
BY DEF Copies

----------------------------------------------------------------------------
(* What the end of a row does to the counters, whatever was done with it. *)
LEMMA SubmittedCounts ==
  ASSUME IInv, pc = "send", Submitted, settings' = settings
  PROVE  /\ pc' \in {"sequence", "send", "pause"}
         /\ i' \in Nat
         /\ row' \in 1..Rows
         /\ numSent' \in 0..Rows
         /\ attempt' \in 0..MaxRetry
         /\ burst' \in Nat
         /\ pc' = "send" => numSent' < row'
         /\ pc' = "pause" => numSent' <= row'
         /\ BurstInv'
         /\ \A r \in 1..Rows : Done(r)' = IF r = row THEN Done(r) + 1 ELSE Done(r)
         /\ sequenceRepititions >= 0 =>
              /\ i' <= sequenceRepititions
              /\ pc' \in {"send", "pause"} => i' < sequenceRepititions
<1>. USE ProducerAssumption DEF IInv, TypeOK, Progress
<1>1. messagesPerGroup \in Int /\ sequenceRepititions \in Int
  BY SettingsAreNumbers
<1>2. messagesPerGroup' = messagesPerGroup /\ sequenceRepititions' = sequenceRepititions
  BY SettingsStay
<1>3. numSent' = numSent + 1 /\ burst' = burst + 1 /\ attempt' = 0
  BY DEF Submitted
<1>4. \/ numSent + 1 >= messagesPerGroup /\ pc' = "pause" /\ i' = i /\ row' = row
      \/ numSent + 1 < messagesPerGroup /\ row < Rows /\ pc' = "send" /\ i' = i /\ row' = row + 1
      \/ numSent + 1 < messagesPerGroup /\ row = Rows /\ pc' = "sequence" /\ i' = i + 1 /\ row' = row
  BY <1>1 DEF Submitted, NextRow
<1>5. BurstInv'
  BY <1>1, <1>2, <1>3, <1>4 DEF BurstInv
<1>6. ASSUME NEW r \in 1..Rows
      PROVE  Done(r)' = IF r = row THEN Done(r) + 1 ELSE Done(r)
  <2>1. i \in Nat /\ row \in 1..Rows /\ r \in Int /\ Rows \in Int
    OBVIOUS
  <2>2. CASE pc' = "pause" /\ i' = i /\ row' = row
    BY <2>1, <2>2 DEF Done
  <2>3. CASE row < Rows /\ pc' = "send" /\ i' = i /\ row' = row + 1
    BY <2>1, <2>3 DEF Done
  <2>4. CASE row = Rows /\ pc' = "sequence" /\ i' = i + 1 /\ row' = row
    BY <2>1, <2>4 DEF Done
  <2>. QED
    BY <1>4, <2>2, <2>3, <2>4
<1>7. sequenceRepititions >= 0 =>
        /\ i' <= sequenceRepititions
        /\ pc' \in {"send", "pause"} => i' < sequenceRepititions
  BY <1>1, <1>4 DEF FewCopies
<1>8. /\ pc' \in {"sequence", "send", "pause"}
      /\ i' \in Nat /\ row' \in 1..Rows /\ numSent' \in 0..Rows
      /\ attempt' \in 0..MaxRetry /\ burst' \in Nat
  <2>1. MaxRetry \in Nat /\ Rows \in Nat
    OBVIOUS
  <2>2. attempt' \in 0..MaxRetry /\ burst' \in Nat /\ numSent' \in 0..Rows
    BY <1>3, <2>1
  <2>3. row' \in 1..Rows
    BY <1>4, <2>1
  <2>4. i' \in Nat /\ pc' \in {"sequence", "send", "pause"}
    BY <1>4
  <2>. QED
    BY <2>2, <2>3, <2>4
<1>9. (pc' = "send" => numSent' < row') /\ (pc' = "pause" => numSent' <= row')
  BY <1>3, <1>4
<1>. QED
  BY <1>5, <1>6, <1>7, <1>8, <1>9

(* So the end of a row keeps the counters in their sets and in step with   *)
(* the place in the program.                                               *)
LEMMA SubmittedKeeps ==
  ASSUME IInv, pc = "send", Submitted, settings' = settings,
         topic' \in Seq(1..Rows),
         undelivered' \in 0..MaxFaults, faults' \in 0..MaxFaults,
         restarts' \in 0..MaxRestarts, undelivered' <= faults'
  PROVE  TypeOK' /\ Progress' /\ BurstInv'
<1>1. /\ pc' \in {"sequence", "send", "pause"}
      /\ i' \in Nat /\ row' \in 1..Rows /\ numSent' \in 0..Rows
      /\ attempt' \in 0..MaxRetry /\ burst' \in Nat
  BY SubmittedCounts
<1>2. (pc' = "send" => numSent' < row') /\ (pc' = "pause" => numSent' <= row')
  BY SubmittedCounts
<1>3. BurstInv'
  BY SubmittedCounts
<1>4. settings' \in Settings
  BY DEF IInv, TypeOK
<1>5. TypeOK'
  BY <1>1, <1>4 DEF TypeOK
<1>6. Progress'
  BY <1>1, <1>2 DEF Progress
<1>. QED
  BY <1>3, <1>5, <1>6

LEMMA Inductive == IInv /\ [Next]_vars => IInv'
<1>. SUFFICES ASSUME IInv, [Next]_vars
              PROVE  IInv'
  OBVIOUS
<1>. USE ProducerAssumption
<1>n. messagesPerGroup \in Int /\ sequenceRepititions \in Int
  BY SettingsAreNumbers DEF IInv, TypeOK
<1>s. settings' = settings /\ messagesPerGroup' = messagesPerGroup
        /\ sequenceRepititions' = sequenceRepititions
  <2>1. settings' = settings
    BY DEF vars, Next, Run, Start, Sequence, Send, Retry, GiveUp, Pause, Restart
  <2>. QED
    BY <2>1, SettingsStay
<1>c. \A r \in 1..Rows : Copies(r) \in Nat
  BY CopiesNat DEF IInv, TypeOK
<1>d. \A r \in 1..Rows : Done(r) \in Nat
  BY DEF IInv, TypeOK, Done
<1>b. Before \in Int /\ (restarts' = restarts => Before' = Before)
  BY <1>n, <1>s DEF IInv, TypeOK, Before
<1>r. ASSUME NEW r \in 1..Rows
      PROVE  /\ Copies(r) \in Nat /\ Done(r) \in Nat
             /\ undelivered \in Nat /\ faults \in Nat /\ Before \in Int
             /\ Copies(r) >= Done(r) - undelivered
             /\ sequenceRepititions >= 0 => Copies(r) <= Before + Done(r) + faults
  BY <1>b, <1>c, <1>d DEF IInv, TypeOK, EnoughCopies, FewCopies
<1>k. ASSUME restarts' = restarts, undelivered' \in Nat, faults' \in Nat,
             \A r \in 1..Rows :
               /\ Copies(r)' \in Nat /\ Done(r)' \in Nat
               /\ Copies(r)' + undelivered' - Done(r)' >= Copies(r) + undelivered - Done(r)
               /\ Copies(r)' - faults' - Done(r)' <= Copies(r) - faults - Done(r)
      PROVE  /\ EnoughCopies'
             /\ \A r \in 1..Rows :
                  sequenceRepititions' >= 0 => Copies(r)' <= Before' + Done(r)' + faults'
  <2>1. ASSUME NEW r \in 1..Rows
        PROVE  /\ Copies(r)' >= Done(r)' - undelivered'
               /\ sequenceRepititions' >= 0 => Copies(r)' <= Before' + Done(r)' + faults'
    <3>1. Before' = Before /\ sequenceRepititions' = sequenceRepititions
      BY <1>k, <1>b, <1>s
    <3>. QED
      BY <1>k, <1>r, <3>1
  <2>. QED
    BY <2>1 DEF EnoughCopies
<1>1. CASE Start
  <2>1. \A r \in 1..Rows : Copies(r)' = Copies(r) /\ Done(r)' = Done(r)
    BY <1>1, CopiesStay DEF Start, Done, IInv, TypeOK
  <2>2. TypeOK' /\ Progress' /\ BurstInv'
    <3>1. TypeOK'
      BY <1>1, <1>n, <1>s DEF Start, budget, IInv, TypeOK
    <3>2. Progress'
      BY <1>1, <1>n, <1>s DEF Start, budget, IInv, TypeOK, Progress
    <3>3. BurstInv'
      BY <1>1, <1>n, <1>s DEF Start, budget, IInv, TypeOK, Progress, BurstInv
    <3>. QED
      BY <3>1, <3>2, <3>3
  <2>3. EnoughCopies' /\ FewCopies'
    BY <1>1, <1>b, <1>s, <2>1 DEF Start, budget, IInv, EnoughCopies, FewCopies
  <2>. QED
    BY <2>2, <2>3 DEF IInv
<1>2. CASE Sequence
  <2>1. \A r \in 1..Rows : Copies(r)' = Copies(r) /\ Done(r)' = Done(r)
    BY <1>2, CopiesStay DEF Sequence, Done, IInv, TypeOK
  <2>2. TypeOK' /\ Progress' /\ BurstInv'
    <3>1. TypeOK'
      BY <1>2, <1>n, <1>s DEF Sequence, budget, IInv, TypeOK
    <3>2. Progress'
      BY <1>2, <1>n, <1>s DEF Sequence, budget, IInv, TypeOK, Progress
    <3>3. BurstInv'
      BY <1>2, <1>n, <1>s DEF Sequence, budget, IInv, TypeOK, Progress, BurstInv
    <3>. QED
      BY <3>1, <3>2, <3>3
  <2>3. EnoughCopies' /\ FewCopies'
    BY <1>2, <1>b, <1>n, <1>s, <2>1 DEF Sequence, budget, IInv, TypeOK, EnoughCopies, FewCopies
  <2>. QED
    BY <2>2, <2>3 DEF IInv
<1>3. CASE Send
  <2>1. pc = "send" /\ Submitted /\ topic' = Append(topic, row) /\ undelivered' = undelivered
          /\ faults' = faults /\ restarts' = restarts
    BY <1>3 DEF Send, budget
  <2>2. \A r \in 1..Rows : Copies(r)' = IF r = row THEN Copies(r) + 1 ELSE Copies(r)
    BY <2>1, AppendCounts DEF IInv, TypeOK
  <2>3. TypeOK' /\ Progress' /\ BurstInv'
    <3>1. topic' \in Seq(1..Rows)
      BY <2>1 DEF IInv, TypeOK
    <3>2. /\ undelivered' \in 0..MaxFaults /\ faults' \in 0..MaxFaults
          /\ restarts' \in 0..MaxRestarts /\ undelivered' <= faults'
      BY <2>1 DEF IInv, TypeOK, Progress
    <3>. QED
      BY <1>s, <2>1, <3>1, <3>2, SubmittedKeeps
  <2>4. \A r \in 1..Rows : Done(r)' = IF r = row THEN Done(r) + 1 ELSE Done(r)
    BY <1>s, <2>1, SubmittedCounts
  <2>5. ASSUME NEW r \in 1..Rows
        PROVE  /\ Copies(r)' \in Nat /\ Done(r)' \in Nat
               /\ \/ Copies(r)' = Copies(r) /\ Done(r)' = Done(r)
                  \/ Copies(r)' = Copies(r) + 1 /\ Done(r)' = Done(r) + 1
    BY <1>r, <2>2, <2>4
  <2>6. undelivered' \in Nat /\ faults' \in Nat /\ undelivered \in Nat /\ faults \in Nat
    BY <2>1 DEF IInv, TypeOK
  <2>7. ASSUME NEW r \in 1..Rows
        PROVE  /\ Copies(r)' \in Nat /\ Done(r)' \in Nat
               /\ Copies(r)' + undelivered' - Done(r)' >= Copies(r) + undelivered - Done(r)
               /\ Copies(r)' - faults' - Done(r)' <= Copies(r) - faults - Done(r)
    <3>1. undelivered' = undelivered /\ faults' = faults
      BY <2>1
    <3>. QED
      BY <1>r, <2>5, <2>6, <3>1
  <2>8. EnoughCopies' /\ FewCopies'
    BY <1>k, <1>s, <2>1, <2>6, <2>7, SubmittedCounts DEF FewCopies
  <2>. QED
    BY <2>3, <2>8 DEF IInv
<1>a. ASSUME Attempt
      PROVE  /\ pc = "send" /\ topic' \in Seq(1..Rows)
             /\ faults' = faults + 1 /\ faults' \in 0..MaxFaults /\ restarts' = restarts
             /\ \A r \in 1..Rows : Copies(r)' \in {Copies(r), Copies(r) + 1}
             /\ \A r \in 1..Rows : r # row => Copies(r)' = Copies(r)
  <2>1. CASE topic' = topic
    BY <1>a, <2>1, CopiesStay DEF Attempt, IInv, TypeOK
  <2>2. CASE topic' = Append(topic, row)
    BY <1>a, <2>2, AppendCounts DEF Attempt, IInv, TypeOK
  <2>. QED
    BY <1>a, <2>1, <2>2 DEF Attempt
<1>4. CASE Retry
  <2>1. Attempt /\ attempt < MaxRetry /\ attempt' = attempt + 1
          /\ pc' = pc /\ i' = i /\ row' = row /\ numSent' = numSent
          /\ undelivered' = undelivered /\ burst' = burst
    BY <1>4 DEF Retry
  <2>2. \A r \in 1..Rows : Done(r)' = Done(r)
    BY <2>1 DEF Done
  <2>3. TypeOK' /\ Progress' /\ BurstInv'
    <3>1. TypeOK'
      BY <1>a, <1>n, <1>s, <2>1 DEF IInv, TypeOK
    <3>2. Progress'
      BY <1>a, <1>n, <1>s, <2>1 DEF IInv, TypeOK, Progress
    <3>3. BurstInv'
      BY <1>a, <1>n, <1>s, <2>1 DEF IInv, TypeOK, Progress, BurstInv
    <3>. QED
      BY <3>1, <3>2, <3>3
  <2>4. undelivered' \in Nat /\ faults' \in Nat /\ undelivered \in Nat /\ faults \in Nat
          /\ faults' = faults + 1 /\ restarts' = restarts
    BY <1>a, <2>1 DEF IInv, TypeOK
  <2>5. ASSUME NEW r \in 1..Rows
        PROVE  /\ Copies(r)' \in Nat /\ Done(r)' \in Nat
               /\ Copies(r)' + undelivered' - Done(r)' >= Copies(r) + undelivered - Done(r)
               /\ Copies(r)' - faults' - Done(r)' <= Copies(r) - faults - Done(r)
    <3>1. Copies(r)' = Copies(r) \/ Copies(r)' = Copies(r) + 1
      BY <1>a, <2>1
    <3>. QED
      BY <1>r, <2>1, <2>2, <2>4, <3>1
  <2>6. EnoughCopies' /\ FewCopies'
    BY <1>k, <1>s, <2>1, <2>4, <2>5 DEF IInv, FewCopies
  <2>. QED
    BY <2>3, <2>6 DEF IInv
<1>5. CASE GiveUp
  <2>1. Attempt /\ Submitted /\ undelivered' = undelivered + 1
    BY <1>5 DEF GiveUp
  <2>2. TypeOK' /\ Progress' /\ BurstInv'
    <3>1. topic' \in Seq(1..Rows)
      BY <1>a, <2>1
    <3>2. /\ undelivered <= faults /\ undelivered \in Nat /\ faults \in Nat
          /\ restarts \in 0..MaxRestarts
      BY DEF IInv, TypeOK, Progress
    <3>3. faults' = faults + 1 /\ faults' \in 0..MaxFaults /\ restarts' = restarts
      BY <1>a, <2>1
    <3>4. /\ undelivered' \in 0..MaxFaults /\ restarts' \in 0..MaxRestarts
          /\ undelivered' <= faults'
      BY <2>1, <3>2, <3>3
    <3>. QED
      BY <1>a, <1>s, <2>1, <3>1, <3>3, <3>4, SubmittedKeeps
  <2>3. \A r \in 1..Rows : Done(r)' = IF r = row THEN Done(r) + 1 ELSE Done(r)
    BY <1>a, <1>s, <2>1, SubmittedCounts
  <2>4. undelivered' \in Nat /\ faults' \in Nat /\ undelivered \in Nat /\ faults \in Nat
          /\ faults' = faults + 1 /\ restarts' = restarts
    BY <1>a, <2>1 DEF IInv, TypeOK
  <2>5. ASSUME NEW r \in 1..Rows
        PROVE  /\ Copies(r)' \in Nat /\ Done(r)' \in Nat
               /\ Copies(r)' + undelivered' - Done(r)' >= Copies(r) + undelivered - Done(r)
               /\ Copies(r)' - faults' - Done(r)' <= Copies(r) - faults - Done(r)
    <3>1. Copies(r)' = Copies(r) \/ Copies(r)' = Copies(r) + 1
      BY <1>a, <2>1
    <3>2. Done(r)' = Done(r) \/ Done(r)' = Done(r) + 1
      BY <2>3
    <3>3. r # row => Copies(r)' = Copies(r) /\ Done(r)' = Done(r)
      BY <1>a, <2>1, <2>3
    <3>. QED
      BY <1>r, <2>1, <2>3, <2>4, <3>1, <3>2, <3>3
  <2>6. EnoughCopies' /\ FewCopies'
    BY <1>a, <1>k, <1>s, <2>1, <2>4, <2>5, SubmittedCounts DEF FewCopies
  <2>. QED
    BY <2>2, <2>6 DEF IInv
<1>6. CASE Pause
  <2>1. \A r \in 1..Rows : Copies(r)' = Copies(r) /\ Done(r)' = Done(r)
    BY <1>6, CopiesStay DEF Pause, NextRow, Done, IInv, TypeOK
  <2>2. TypeOK' /\ Progress' /\ BurstInv'
    <3>1. TypeOK'
      <4>1. settings' \in Settings /\ numSent' = 0 /\ burst' = 0
              /\ UNCHANGED <<attempt, undelivered, topic, faults, restarts>>
        BY <1>6, <1>s DEF Pause, budget, IInv, TypeOK
      <4>2. \/ row < Rows /\ pc' = "send" /\ i' = i /\ row' = row + 1
            \/ pc' = "sequence" /\ i' = i + 1 /\ row' = row
        BY <1>6 DEF Pause, NextRow
      <4>3. i' \in Nat /\ row' \in 1..Rows /\ numSent' \in 0..Rows
        BY <4>1, <4>2 DEF IInv, TypeOK
      <4>. QED
        BY <4>1, <4>2, <4>3 DEF IInv, TypeOK
    <3>2. Progress'
      BY <1>6, <1>n, <1>s DEF Pause, NextRow, budget, IInv, TypeOK, Progress
    <3>3. BurstInv'
      BY <1>6, <1>n, <1>s DEF Pause, NextRow, budget, IInv, TypeOK, Progress, BurstInv
    <3>. QED
      BY <3>1, <3>2, <3>3
  <2>3. EnoughCopies' /\ FewCopies'
    BY <1>6, <1>b, <1>n, <1>s, <2>1 DEF Pause, NextRow, budget, IInv, TypeOK, EnoughCopies, FewCopies
  <2>. QED
    BY <2>2, <2>3 DEF IInv
<1>7. CASE Restart
  <2>1. \A r \in 1..Rows : Copies(r)' = Copies(r) /\ Done(r)' = 0
    BY <1>7, CopiesStay DEF Restart, Done
  <2>2. TypeOK' /\ Progress' /\ BurstInv'
    <3>1. TypeOK'
      BY <1>7, <1>n, <1>s DEF Restart, IInv, TypeOK
    <3>2. Progress'
      BY <1>7, <1>n, <1>s DEF Restart, IInv, TypeOK, Progress
    <3>3. BurstInv'
      BY <1>7, <1>n, <1>s DEF Restart, IInv, TypeOK, Progress, BurstInv
    <3>. QED
      BY <3>1, <3>2, <3>3
  <2>3. EnoughCopies'
    BY <1>7, <1>c, <2>1 DEF Restart, EnoughCopies
  <2>4. Before' = Before + sequenceRepititions
    BY <1>7, <1>n, <1>s DEF Restart, IInv, TypeOK, Before
  <2>5. \A r \in 1..Rows : sequenceRepititions >= 0 => Done(r) <= sequenceRepititions
    BY <1>n DEF Done, IInv, TypeOK, FewCopies
  <2>6. ASSUME NEW r \in 1..Rows, sequenceRepititions >= 0
        PROVE  Copies(r)' <= Before' + Done(r)' + faults'
    <3>1. faults' = faults
      BY <1>7 DEF Restart
    <3>. QED
      BY <1>n, <1>r, <2>1, <2>4, <2>5, <2>6, <3>1
  <2>7. FewCopies'
    BY <1>7, <1>n, <1>s, <2>6 DEF Restart, FewCopies
  <2>. QED
    BY <2>2, <2>3, <2>7 DEF IInv
<1>8. CASE UNCHANGED vars
  <2>1. \A r \in 1..Rows : Copies(r)' = Copies(r) /\ Done(r)' = Done(r)
    BY <1>8, CopiesStay DEF vars, pod, Done
  <2>. QED
    BY <1>8, <1>b, <1>s, <2>1
       DEF vars, pod, budget, IInv, TypeOK, Progress, BurstInv, EnoughCopies, FewCopies
<1>. QED
  BY <1>1, <1>2, <1>3, <1>4, <1>5, <1>6, <1>7, <1>8 DEF Next, Run

LEMMA Initially == Init => IInv
<1>. SUFFICES ASSUME Init PROVE IInv
  OBVIOUS
<1>1. messagesPerGroup \in Int /\ sequenceRepititions \in Int
  BY SettingsAreNumbers DEF Init
<1>2. \A r \in 1..Rows : Copies(r) = 0 /\ Done(r) = 0
  BY FS_EmptySet DEF Init, Copies, Done
<1>3. TypeOK /\ Progress /\ BurstInv
  BY <1>1, ProducerAssumption DEF Init, TypeOK, Progress, BurstInv
<1>4. EnoughCopies /\ FewCopies
  BY <1>1, <1>2 DEF Init, EnoughCopies, FewCopies, Before
<1>. QED
  BY <1>3, <1>4 DEF IInv

(* Every reachable state of the producer satisfies the inductive invariant. *)
THEOREM Invariance == Spec => []IInv
BY Initially, Inductive, PTL DEF Spec

----------------------------------------------------------------------------
(* Type correctness, for every sample and every settings. *)
THEOREM TypeCorrect == Spec => []TypeOK
<1>1. IInv => TypeOK
  BY DEF IInv
<1>. QED
  BY <1>1, Invariance, PTL

(* No two groups ever go out without a pause between them, provided a group *)
(* is not larger than the sample: sendSequence's numSent starts anew each   *)
(* time, and still fewer than two groups of rows come at once.              *)
THEOREM BurstsBounded == Spec => []BurstBounded
<1>1. IInv => BurstBounded
  BY DEF IInv, BurstInv, BurstBounded
<1>. QED
  BY <1>1, Invariance, PTL

(* When the producer waits, every row is in the topic as often as it was    *)
(* configured to submit it, but for the failures it logged.                 *)
THEOREM NothingIsLost == Spec => []NothingLost
<1>1. IInv => NothingLost
  BY DEF IInv, Progress, EnoughCopies, Done, NothingLost
<1>. QED
  BY <1>1, Invariance, PTL

(* Duplicates come from failed attempts and restarts alone. *)
THEOREM DuplicatesAreExplained == Spec => []DuplicatesExplained
<1>1. ASSUME IInv, sequenceRepititions >= 0, NEW r \in 1..Rows
      PROVE  Copies(r) <= sequenceRepititions * (1 + restarts) + faults
  <2>1. sequenceRepititions \in Int /\ Copies(r) \in Nat
    BY <1>1, SettingsAreNumbers, CopiesNat DEF IInv, TypeOK
  <2>2. Copies(r) <= sequenceRepititions * restarts + Done(r) + faults
    BY <1>1 DEF IInv, FewCopies, Before
  <2>3. Done(r) \in Nat /\ Done(r) <= sequenceRepititions
    BY <1>1, <2>1 DEF Done, IInv, TypeOK, FewCopies
  <2>4. sequenceRepititions * (1 + restarts) = sequenceRepititions * restarts + sequenceRepititions
    BY <1>1, <2>1 DEF IInv, TypeOK
  <2>. QED
    BY <1>1, <2>1, <2>2, <2>3, <2>4 DEF IInv, TypeOK
<1>2. IInv => DuplicatesExplained
  BY <1>1 DEF DuplicatesExplained
<1>. QED
  BY <1>2, Invariance, PTL

----------------------------------------------------------------------------
(* The order of the topic: what follows its end in the sample, what the     *)
(* producer is going to send, and whether that breaks the order.           *)
Awaited == Expected(Len(topic) + 1)

Upcoming ==
  IF pc = "send" THEN row ELSE IF pc = "pause" /\ row < Rows THEN row + 1 ELSE 1

Astray == IF Upcoming = Awaited THEN 0 ELSE 1

Broken == {k \in DOMAIN topic : topic[k] # Expected(k)}

OrderInv == Cardinality(Broken) + Astray <= faults + restarts

(* The end of the topic matters to what follows it only.                   *)
LEMMA BrokenStays ==
  ASSUME topic' = topic
  PROVE  Broken' = Broken /\ Awaited' = Awaited
BY DEF Broken, Awaited, Expected

LEMMA BrokenFinite ==
  ASSUME TypeOK
  PROVE  IsFiniteSet(Broken) /\ Cardinality(Broken) \in Nat
<1>1. IsFiniteSet(1..Len(topic))
  BY FS_Interval DEF TypeOK
<1>2. Broken \subseteq 1..Len(topic)
  BY DEF Broken, TypeOK
<1>. QED
  BY <1>1, <1>2, FS_Subset, FS_CardinalityType

(* A message appended breaks the order if it is not the one that follows.  *)
LEMMA AppendBreaks ==
  ASSUME TypeOK, topic' = Append(topic, row)
  PROVE  /\ Cardinality(Broken)' = Cardinality(Broken) + (IF row = Awaited THEN 0 ELSE 1)
         /\ Awaited' = IF row = Rows THEN 1 ELSE row + 1
<1>. DEFINE n == Len(topic) + 1
<1>1. /\ Len(topic) \in Nat /\ n \in Nat /\ Len(topic') = n
      /\ DOMAIN topic = 1..Len(topic) /\ DOMAIN topic' = 1..n
      /\ topic'[n] = row
      /\ \A k \in 1..Len(topic) : topic'[k] = topic[k]
  BY DEF TypeOK
<1>2. \A k \in 1..n : Expected(k)' = Expected(k)
  BY <1>1 DEF Expected
<1>3. n \notin Broken
  BY <1>1 DEF Broken
<1>4. Broken' = IF row = Awaited THEN Broken ELSE Broken \cup {n}
  BY <1>1, <1>2 DEF Broken, Awaited
<1>5. Cardinality(Broken \cup {n}) = Cardinality(Broken) + 1 /\ Cardinality(Broken) \in Nat
  BY <1>3, BrokenFinite, FS_AddElement
<1>6. Cardinality(Broken)' = Cardinality(Broken')
  OBVIOUS
<1>7. Awaited' = IF row = Rows THEN 1 ELSE row + 1
  BY <1>1 DEF Awaited, Expected
<1>. QED
  BY <1>4, <1>5, <1>6, <1>7

LEMMA AstrayBounds == Astray \in 0..1
BY DEF Astray

LEMMA OrderInductive == TypeOK /\ OrderInv /\ [Next]_vars => OrderInv'
<1>. SUFFICES ASSUME TypeOK, OrderInv, [Next]_vars
              PROVE  OrderInv'
  OBVIOUS
<1>. DEFINE c == Cardinality(Broken)
<1>0. /\ c \in Nat /\ Astray \in 0..1 /\ Astray' \in 0..1
      /\ faults \in Nat /\ restarts \in Nat
      /\ c + Astray <= faults + restarts
  BY BrokenFinite, AstrayBounds, ProducerAssumption DEF TypeOK, OrderInv, Astray
<1>1. CASE Send
  <2>1. pc = "send" /\ topic' = Append(topic, row) /\ Submitted /\ UNCHANGED <<faults, restarts>>
    BY <1>1 DEF Send, budget
  <2>2. c' = c + Astray
    BY <2>1, AppendBreaks DEF Astray, Upcoming
  <2>3. Awaited' = Upcoming'
    <3>1. Awaited' = IF row = Rows THEN 1 ELSE row + 1
      BY <2>1, AppendBreaks
    <3>2. row \in 1..Rows /\ Rows \in Nat
      BY ProducerAssumption DEF TypeOK
    <3>3. \/ pc' = "pause" /\ row' = row
          \/ pc' = "send" /\ row' = row + 1 /\ row < Rows
          \/ pc' = "sequence" /\ row = Rows
      BY <2>1, <3>2 DEF Submitted, NextRow
    <3>. QED
      BY <3>1, <3>2, <3>3 DEF Upcoming
  <2>. QED
    BY <1>0, <2>1, <2>2, <2>3 DEF OrderInv, Astray
<1>2. CASE Retry \/ GiveUp
  <2>1. pc = "send" /\ faults' = faults + 1 /\ restarts' = restarts
        /\ topic' \in {topic, Append(topic, row)}
    BY <1>2 DEF Retry, GiveUp, Attempt
  <2>2. c' <= c + Astray /\ c' \in Nat
    <3>1. CASE topic' = topic
      BY <1>0, <3>1, BrokenStays
    <3>2. CASE topic' = Append(topic, row)
      BY <1>0, <2>1, <3>2, AppendBreaks DEF Astray, Upcoming
    <3>. QED
      BY <2>1, <3>1, <3>2
  <2>. QED
    BY <1>0, <2>1, <2>2 DEF OrderInv
<1>3. CASE Restart
  <2>1. topic' = topic /\ faults' = faults /\ restarts' = restarts + 1
    BY <1>3 DEF Restart
  <2>. QED
    BY <1>0, <2>1, BrokenStays DEF OrderInv
<1>4. CASE Start \/ Sequence \/ Pause \/ UNCHANGED vars
  <2>1. topic' = topic /\ UNCHANGED <<faults, restarts>>
    BY <1>4 DEF Start, Sequence, Pause, vars, pod, budget
  <2>2. Upcoming' = Upcoming
    BY <1>4, ProducerAssumption
       DEF Start, Sequence, Pause, NextRow, vars, pod, Upcoming, TypeOK
  <2>3. Astray' = Astray /\ c' = c
    BY <2>1, <2>2, BrokenStays DEF Astray
  <2>. QED
    BY <1>0, <2>1, <2>3 DEF OrderInv
<1>. QED
  BY <1>1, <1>2, <1>3, <1>4 DEF Next, Run

(* The sample is submitted in its order, across the pauses between groups  *)
(* and from one sequence to the next; each break of the order has a failed *)
(* attempt or a death of the pod to itself.                                *)
THEOREM SampleInOrder == Spec => []InSampleOrder
<1>1. Init => OrderInv
  <2>. SUFFICES ASSUME Init PROVE OrderInv
    OBVIOUS
  <2>1. Broken = {} /\ Upcoming = 1 /\ Awaited = 1
    BY DEF Init, Broken, Upcoming, Awaited, Expected
  <2>. QED
    BY <2>1, FS_EmptySet DEF Init, OrderInv, Astray
<1>2. TypeOK /\ OrderInv => InSampleOrder
  BY BrokenFinite, AstrayBounds, ProducerAssumption
     DEF OrderInv, InSampleOrder, Broken, TypeOK
<1>. QED
  BY <1>1, <1>2, OrderInductive, TypeCorrect, PTL DEF Spec

(* Once through with nothing gone wrong, every row is in the topic exactly *)
(* as often as the producer was told to submit the sample, whatever that   *)
(* number is and whoever made its environment.                             *)
THEOREM ExactlyAsRead ==
  Spec => [](pc = "wait" /\ faults = 0 /\ restarts = 0
               => \A r \in 1..Rows : Copies(r) = sequenceRepititions)
<1>1. ASSUME IInv, NothingLost, DuplicatesExplained, pc = "wait", faults = 0, restarts = 0,
             NEW r \in 1..Rows
      PROVE  Copies(r) = sequenceRepititions
  <2>1. sequenceRepititions \in Nat /\ undelivered = 0 /\ Copies(r) \in Nat
    BY <1>1, CopiesNat DEF IInv, TypeOK, Progress
  <2>2. /\ Copies(r) >= sequenceRepititions - undelivered
        /\ Copies(r) <= sequenceRepititions * (1 + restarts) + faults
    BY <1>1, <2>1 DEF NothingLost, DuplicatesExplained
  <2>. QED
    BY <1>1, <2>1, <2>2
<1>2. IInv /\ NothingLost /\ DuplicatesExplained
        => (pc = "wait" /\ faults = 0 /\ restarts = 0
              => \A r \in 1..Rows : Copies(r) = sequenceRepititions)
  BY <1>1
<1>. QED
  BY <1>2, Invariance, NothingIsLost, DuplicatesAreExplained, PTL

(* In the operator's environment no setting changes what is submitted: the *)
(* sample once, however many repetitions were asked for.                   *)
THEOREM OnceWhateverIsAsked ==
  ASSUME ByOperator
  PROVE  Spec => [](pc = "wait" /\ faults = 0 /\ restarts = 0
                      => \A r \in 1..Rows : Copies(r) = 1)
<1>1. sequenceRepititions = 1
  BY DEF sequenceRepititions, Atoi, Env
<1>2. (pc = "wait" /\ faults = 0 /\ restarts = 0
         => \A r \in 1..Rows : Copies(r) = sequenceRepititions)
        => (pc = "wait" /\ faults = 0 /\ restarts = 0 => \A r \in 1..Rows : Copies(r) = 1)
  BY <1>1
<1>. QED
  BY <1>2, ExactlyAsRead, PTL
=============================================================================
