----------------------------- MODULE FlinkJobProofs -----------------------------
(***************************************************************************)
(* Proofs about module FlinkJob, for every topic, every number of jobs and *)
(* every bound.  The three sinks of a job obey one invariant, Sound: a     *)
(* step of the system leaves a sink alone, or the sink lets something out  *)
(* and the job goes on behind it, or the job fails.                        *)
(***************************************************************************)
EXTENDS FlinkJob, FiniteSetTheorems, TLAPS

(* The messages of row r among some positions of a topic t. *)
Among(t, K, r) == {k \in K : t[k] = r}

(* The documents there may be of a row: one for each job that was started  *)
(* and each of its messages, but those a running job has yet to come to.   *)
Explains(t, js, at, r) ==
  {a \in Jobs \X (1..Len(t)) :
     /\ t[a[2]] = r
     /\ \/ js[a[1]] = "failed"
        \/ js[a[1]] = "running" /\ a[2] <= at[a[1]]}

Typed(t, js, at, out) ==
  /\ t \in Seq(Rows)
  /\ js \in [Jobs -> {"unused", "running", "failed"}]
  /\ at \in [Jobs -> 0..Len(t)]
  /\ out \in [Rows -> Nat]

(* What a sink for the rows W has let out, out, given how far each job is  *)
(* in it, at: no less than the running jobs answer for, no more than the   *)
(* jobs explain and the attempts that were repeated, nothing of another    *)
(* row.                                                                    *)
Sound(t, js, at, out, W, again) ==
  \A r \in Rows :
    /\ r \in W => \A j \in Jobs :
                    js[j] = "running" => out[r] >= Cardinality(Among(t, 1..at[j], r))
    /\ r \notin W => out[r] = 0
    /\ out[r] <= Cardinality(Explains(t, js, at, r))
                   + again * Cardinality(Among(t, 1..Len(t), r))

Sinks == {"rawIndexed", "riskIndexed", "riskSent"}

Out(p) == IF p = "rawIndexed" THEN docs[EsRawIndex]
          ELSE IF p = "riskIndexed" THEN docs[EsRiskIndex]
          ELSE anomalies

Wanted(p) == IF p = "rawIndexed" THEN Rows ELSE Risky

(* How often its client may have sent a message more than once.            *)
Again(p) == IF p = "riskSent" THEN repeats ELSE 0

Place(p) == [j \in Jobs |-> pos[j][p]]

(* A job that does not run is at the beginning. *)
Fresh == \A j \in Jobs : jobs[j] # "running" => pos[j] = Beginning

IInv ==
  /\ TypeOK
  /\ Fresh
  /\ \A p \in Sinks : Sound(topic, jobs, Place(p), Out(p), Wanted(p), Again(p))

----------------------------------------------------------------------------
(* Counting. *)

LEMMA AmongFinite ==
  ASSUME NEW t, NEW n \in Nat, NEW K \in SUBSET (1..n), NEW r
  PROVE  /\ IsFiniteSet(K) /\ IsFiniteSet(Among(t, K, r))
         /\ Cardinality(Among(t, K, r)) \in Nat
<1>1. IsFiniteSet(1..n)
  BY FS_Interval
<1>2. IsFiniteSet(K)
  BY <1>1, FS_Subset
<1>3. Among(t, K, r) \in SUBSET K
  BY DEF Among
<1>. QED
  BY <1>2, <1>3, FS_Subset, FS_CardinalityType

LEMMA ExplainsFinite ==
  ASSUME NEW t \in Seq(Rows), NEW js, NEW at, NEW r
  PROVE  /\ IsFiniteSet(Explains(t, js, at, r))
         /\ Cardinality(Explains(t, js, at, r)) \in Nat
<1>1. IsFiniteSet(1..Len(t)) /\ IsFiniteSet(Jobs)
  BY FS_Interval, FlinkJobAssumption
<1>2. IsFiniteSet(Jobs \X (1..Len(t)))
  BY <1>1, FS_Product
<1>3. Explains(t, js, at, r) \in SUBSET (Jobs \X (1..Len(t)))
  BY DEF Explains
<1>. QED
  BY <1>2, <1>3, FS_Subset, FS_CardinalityType

(* The copies up to a later place are those up to an earlier one and those *)
(* in between.                                                             *)
LEMMA CopiesAdd ==
  ASSUME NEW t, NEW m \in Nat, NEW n \in Nat, m <= n, NEW r
  PROVE  /\ Cardinality(Among(t, 1..m, r)) \in Nat
         /\ Cardinality(Among(t, m+1..n, r)) \in Nat
         /\ Cardinality(Among(t, 1..n, r))
              = Cardinality(Among(t, 1..m, r)) + Cardinality(Among(t, m+1..n, r))
<1>. DEFINE A == Among(t, 1..m, r)
            B == Among(t, m+1..n, r)
<1>1. 1..m \in SUBSET (1..n) /\ m+1..n \in SUBSET (1..n)
  OBVIOUS
<1>2. /\ IsFiniteSet(A) /\ Cardinality(A) \in Nat
      /\ IsFiniteSet(B) /\ Cardinality(B) \in Nat
  BY <1>1, AmongFinite
<1>3. A \cup B = Among(t, 1..n, r) /\ A \cap B = {}
  BY DEF Among
<1>4. Cardinality(A \cap B) = 0
  BY <1>3, FS_EmptySet
<1>5. Cardinality(A \cup B) = Cardinality(A) + Cardinality(B) - Cardinality(A \cap B)
  BY <1>2, FS_Union
<1>6. Cardinality(A \cup B) = Cardinality(A) + Cardinality(B)
  <2>. HIDE DEF A, B
  <2>. QED
    BY <1>2, <1>4, <1>5
<1>7. Cardinality(Among(t, 1..n, r)) = Cardinality(A) + Cardinality(B)
  BY <1>3, <1>6
<1>. QED
  BY <1>2, <1>7

LEMMA Grows ==
  ASSUME NEW s \in Nat, NEW m \in Int, NEW n \in Int, m <= n
  PROVE  s * m <= s * n
BY SMT

LEMMA ProductNat ==
  ASSUME NEW m \in Nat, NEW n \in Nat
  PROVE  m * n \in Nat
BY SMT

(* As many pairs as one job and so many messages make. *)
LEMMA OneJob ==
  ASSUME NEW j, NEW A, IsFiniteSet(A)
  PROVE  IsFiniteSet({j} \X A) /\ Cardinality({j} \X A) = Cardinality(A)
<1>1. IsFiniteSet({j}) /\ Cardinality({j}) = 1 /\ Cardinality(A) \in Nat
  BY FS_Singleton, FS_CardinalityType
<1>. QED
  BY <1>1, FS_Product

LEMMA PlusType ==
  ASSUME topic \in Seq(Rows), NEW counts \in [Rows -> Nat], NEW K \in SUBSET (1..Len(topic))
  PROVE  /\ Plus(counts, K) \in [Rows -> Nat]
         /\ \A r \in Rows : Plus(counts, K)[r] = counts[r] + Cardinality(Among(topic, K, r))
<1>1. Len(topic) \in Nat
  OBVIOUS
<1>2. \A r \in Rows : Cardinality(Among(topic, K, r)) \in Nat
  BY <1>1, AmongFinite
<1>. QED
  BY <1>2 DEF Plus, Among

----------------------------------------------------------------------------
(* The three things that may happen to a sink. *)

(* It is left alone.  The topic may grow, another job may start. *)
LEMMA Quiet ==
  ASSUME NEW t, NEW js, NEW at, NEW out, NEW W, NEW u, NEW ks, NEW bt,
         NEW again \in Nat,
         Typed(t, js, at, out), Typed(u, ks, bt, out), Sound(t, js, at, out, W, again),
         Len(t) <= Len(u),
         \A k \in 1..Len(t) : u[k] = t[k],
         \A j \in Jobs :
           /\ js[j] = "failed" => ks[j] = "failed"
           /\ js[j] = "running" => ks[j] = "running" /\ bt[j] = at[j]
           /\ js[j] # "running" /\ ks[j] = "running" => bt[j] = 0
  PROVE  Sound(u, ks, bt, out, W, again)
<1>. SUFFICES ASSUME NEW r \in Rows
              PROVE  /\ r \in W => \A j \in Jobs :
                          ks[j] = "running" => out[r] >= Cardinality(Among(u, 1..bt[j], r))
                     /\ r \notin W => out[r] = 0
                     /\ out[r] <= Cardinality(Explains(u, ks, bt, r))
                                    + again * Cardinality(Among(u, 1..Len(u), r))
  BY DEF Sound
<1>n. out[r] \in Nat /\ Len(t) \in Nat /\ Len(u) \in Nat /\ t \in Seq(Rows) /\ u \in Seq(Rows)
  BY DEF Typed
<1>1. r \notin W => out[r] = 0
  BY DEF Sound
<1>2. ASSUME r \in W, NEW j \in Jobs, ks[j] = "running"
      PROVE  out[r] >= Cardinality(Among(u, 1..bt[j], r))
  <2>1. CASE js[j] = "running"
    <3>1. bt[j] = at[j] /\ at[j] \in 0..Len(t)
      BY <2>1 DEF Typed
    <3>2. Among(u, 1..bt[j], r) = Among(t, 1..at[j], r)
      BY <1>n, <3>1 DEF Among
    <3>. QED
      BY <1>2, <2>1, <3>2 DEF Sound
  <2>2. CASE js[j] # "running"
    <3>1. Among(u, 1..bt[j], r) = {}
      BY <1>2, <2>2 DEF Among
    <3>2. Cardinality(Among(u, 1..bt[j], r)) = 0
      BY <3>1, FS_EmptySet
    <3>. QED
      BY <1>n, <3>2
  <2>. QED
    BY <2>1, <2>2
<1>3. Explains(t, js, at, r) \in SUBSET Explains(u, ks, bt, r)
  <2>1. 1..Len(t) \subseteq 1..Len(u)
    BY <1>n
  <2>. QED
    BY <2>1 DEF Explains
<1>4. /\ Cardinality(Explains(t, js, at, r)) <= Cardinality(Explains(u, ks, bt, r))
      /\ Cardinality(Explains(t, js, at, r)) \in Nat
      /\ Cardinality(Explains(u, ks, bt, r)) \in Nat
  BY <1>n, <1>3, ExplainsFinite, FS_Subset
<1>5. out[r] <= Cardinality(Explains(t, js, at, r)) + again * Cardinality(Among(t, 1..Len(t), r))
  BY DEF Sound
<1>6. /\ Cardinality(Among(t, 1..Len(t), r)) \in Nat
      /\ Cardinality(Among(u, 1..Len(u), r)) \in Nat
      /\ Cardinality(Among(t, 1..Len(t), r)) <= Cardinality(Among(u, 1..Len(u), r))
  <2>1. 1..Len(t) \in SUBSET (1..Len(t)) /\ 1..Len(u) \in SUBSET (1..Len(u))
    OBVIOUS
  <2>2. IsFiniteSet(Among(u, 1..Len(u), r))
    BY <1>n, <2>1, AmongFinite
  <2>3. Among(t, 1..Len(t), r) \in SUBSET Among(u, 1..Len(u), r)
    BY <1>n DEF Among
  <2>. QED
    BY <1>n, <2>1, <2>2, <2>3, AmongFinite, FS_Subset
<1>7. again * Cardinality(Among(t, 1..Len(t), r)) <= again * Cardinality(Among(u, 1..Len(u), r))
  BY <1>6, Grows
<1>. QED
  BY <1>n, <1>1, <1>2, <1>4, <1>5, <1>6, <1>7, ProductNat

(* Job j lets some of what it holds back for the sink out; the job goes on *)
(* behind all of it or fails.                                              *)
LEMMA LetsOut ==
  ASSUME NEW t, NEW js, NEW at, NEW out, NEW W \in SUBSET Rows, NEW j \in Jobs,
         NEW ks, NEW bt, NEW new, NEW K \in SUBSET (at[j]+1..Len(t)), NEW again \in Nat,
         Typed(t, js, at, out), Typed(t, ks, bt, new), Sound(t, js, at, out, W, again),
         js[j] = "running",
         \A k \in K : t[k] \in W,
         \A r \in Rows : new[r] = out[r] + Cardinality(Among(t, K, r)),
         \A i \in Jobs \ {j} : ks[i] = js[i] /\ bt[i] = at[i],
         \/ ks[j] = "failed"
         \/ /\ ks[j] = "running"
            /\ at[j] <= bt[j]
            /\ \A k \in at[j]+1..Len(t) : t[k] \in W => (k \in K <=> k <= bt[j])
  PROVE  Sound(t, ks, bt, new, W, again)
<1>. SUFFICES ASSUME NEW r \in Rows
              PROVE  /\ r \in W => \A i \in Jobs :
                          ks[i] = "running" => new[r] >= Cardinality(Among(t, 1..bt[i], r))
                     /\ r \notin W => new[r] = 0
                     /\ new[r] <= Cardinality(Explains(t, ks, bt, r))
                                    + again * Cardinality(Among(t, 1..Len(t), r))
  BY DEF Sound
<1>n. /\ out[r] \in Nat /\ new[r] \in Nat /\ Len(t) \in Nat /\ t \in Seq(Rows)
      /\ \A i \in Jobs : at[i] \in 0..Len(t) /\ bt[i] \in 0..Len(t)
  BY DEF Typed
<1>s. K \in SUBSET (1..Len(t))
  BY <1>n
<1>k. /\ IsFiniteSet(Among(t, K, r)) /\ Cardinality(Among(t, K, r)) \in Nat
      /\ new[r] = out[r] + Cardinality(Among(t, K, r))
  BY <1>n, <1>s, AmongFinite
<1>1. ASSUME r \in W, NEW i \in Jobs, ks[i] = "running"
      PROVE  new[r] >= Cardinality(Among(t, 1..bt[i], r))
  <2>c. Cardinality(Among(t, 1..bt[i], r)) \in Nat /\ Cardinality(Among(t, 1..at[i], r)) \in Nat
    <3>1. 1..bt[i] \in SUBSET (1..Len(t)) /\ 1..at[i] \in SUBSET (1..Len(t))
      BY <1>n
    <3>. QED
      BY <1>n, <3>1, AmongFinite
  <2>1. CASE i # j
    <3>1. js[i] = "running" /\ bt[i] = at[i]
      BY <1>1, <2>1
    <3>2. out[r] >= Cardinality(Among(t, 1..at[i], r))
      BY <1>1, <3>1 DEF Sound
    <3>. QED
      BY <1>n, <1>k, <2>c, <3>1, <3>2
  <2>2. CASE i = j
    <3>1. /\ at[j] <= bt[j]
          /\ \A k \in at[j]+1..Len(t) : t[k] \in W => (k \in K <=> k <= bt[j])
      BY <1>1, <2>2
    <3>2. out[r] >= Cardinality(Among(t, 1..at[j], r))
      BY <1>1 DEF Sound
    <3>4. at[j] \in Nat /\ bt[j] \in Nat /\ bt[j] <= Len(t)
      BY <1>n
    <3>3. Among(t, K, r) = Among(t, at[j]+1..bt[j], r)
      <4>1. \A k \in K : t[k] = r => k \in at[j]+1..bt[j]
        BY <3>1, <3>4
      <4>2. \A k \in at[j]+1..bt[j] : t[k] = r => k \in K
        BY <1>n, <1>1, <3>1, <3>4
      <4>. QED
        BY <4>1, <4>2 DEF Among
    <3>5. Cardinality(Among(t, 1..bt[j], r))
            = Cardinality(Among(t, 1..at[j], r)) + Cardinality(Among(t, K, r))
      BY <3>1, <3>3, <3>4, CopiesAdd
    <3>. QED
      BY <1>n, <1>k, <2>c, <2>2, <3>2, <3>5
  <2>. QED
    BY <2>1, <2>2
<1>2. ASSUME r \notin W
      PROVE  new[r] = 0
  <2>1. Among(t, K, r) = {} /\ out[r] = 0
    BY <1>2 DEF Among, Sound
  <2>. QED
    BY <1>k, <2>1, FS_EmptySet
<1>3. new[r] <= Cardinality(Explains(t, ks, bt, r)) + again * Cardinality(Among(t, 1..Len(t), r))
  <2>. DEFINE E == Explains(t, js, at, r)
              F == Explains(t, ks, bt, r)
              D == {j} \X Among(t, K, r)
  <2>1. IsFiniteSet(E) /\ IsFiniteSet(F) /\ Cardinality(E) \in Nat /\ Cardinality(F) \in Nat
    BY <1>n, ExplainsFinite
  <2>2. IsFiniteSet(D) /\ Cardinality(D) = Cardinality(Among(t, K, r))
    BY <1>k, OneJob
  <2>3. E \cap D = {}
    BY <1>n, <1>s DEF Explains, Among, Typed
  <2>4. E \subseteq F
    <3>1. \A i \in Jobs, k \in 1..Len(t) :
            js[i] = "failed" \/ (js[i] = "running" /\ k <= at[i])
              => ks[i] = "failed" \/ (ks[i] = "running" /\ k <= bt[i])
      <4>1. ASSUME NEW k \in 1..Len(t), k <= at[j], ks[j] # "failed"
            PROVE  ks[j] = "running" /\ k <= bt[j]
        BY <1>n, <4>1
      <4>. QED
        BY <4>1
    <3>. QED
      BY <3>1 DEF Explains
  <2>5. D \subseteq F
    <3>1. ASSUME NEW k \in K
          PROVE  k \in 1..Len(t) /\ (ks[j] = "failed" \/ (ks[j] = "running" /\ k <= bt[j]))
      BY <1>n, <1>s, <3>1
    <3>. QED
      BY <3>1 DEF Explains, Among
  <2>6. Cardinality(E \cup D) = Cardinality(E) + Cardinality(D) /\ IsFiniteSet(E \cup D)
    <3>1. Cardinality(E \cap D) = 0
      BY <2>3, FS_EmptySet
    <3>2. /\ Cardinality(E \cup D) = Cardinality(E) + Cardinality(D) - Cardinality(E \cap D)
          /\ IsFiniteSet(E \cup D)
      BY <2>1, <2>2, FS_Union
    <3>. QED
      BY <1>k, <2>1, <2>2, <3>1, <3>2
  <2>7. Cardinality(E \cup D) <= Cardinality(F)
    <3>1. E \cup D \in SUBSET F
      BY <2>4, <2>5
    <3>. QED
      BY <2>1, <3>1, FS_Subset
  <2>. DEFINE C == again * Cardinality(Among(t, 1..Len(t), r))
  <2>8. out[r] <= Cardinality(E) + C
    BY DEF Sound
  <2>9. C \in Nat
    BY <1>n, AmongFinite, ProductNat
  <2>. HIDE DEF C, E, F, D
  <2>10. new[r] <= Cardinality(F) + C
    BY <1>n, <1>k, <2>1, <2>2, <2>6, <2>7, <2>8, <2>9
  <2>. QED
    BY <2>10 DEF F, C
<1>. QED
  BY <1>1, <1>2, <1>3

(* Its client sends some of it again: once more for each of the messages.  *)
LEMMA SendsAgain ==
  ASSUME NEW t, NEW js, NEW at, NEW out, NEW W \in SUBSET Rows, NEW new,
         NEW K \in SUBSET (1..Len(t)), NEW again \in Nat,
         Typed(t, js, at, out), Typed(t, js, at, new), Sound(t, js, at, out, W, again),
         \A k \in K : t[k] \in W,
         \A r \in Rows : new[r] = out[r] + Cardinality(Among(t, K, r))
  PROVE  Sound(t, js, at, new, W, again + 1)
<1>. SUFFICES ASSUME NEW r \in Rows
              PROVE  /\ r \in W => \A j \in Jobs :
                          js[j] = "running" => new[r] >= Cardinality(Among(t, 1..at[j], r))
                     /\ r \notin W => new[r] = 0
                     /\ new[r] <= Cardinality(Explains(t, js, at, r))
                                    + (again + 1) * Cardinality(Among(t, 1..Len(t), r))
  BY DEF Sound
<1>. DEFINE sent == Cardinality(Among(t, K, r))
            copies == Cardinality(Among(t, 1..Len(t), r))
            explained == Cardinality(Explains(t, js, at, r))
<1>n. /\ out[r] \in Nat /\ new[r] \in Nat /\ Len(t) \in Nat /\ t \in Seq(Rows)
      /\ \A i \in Jobs : at[i] \in 0..Len(t)
      /\ explained \in Nat
  BY ExplainsFinite DEF Typed
<1>1. sent \in Nat /\ copies \in Nat /\ sent <= copies /\ new[r] = out[r] + sent
  <2>1. IsFiniteSet(Among(t, 1..Len(t), r)) /\ sent \in Nat /\ copies \in Nat
    BY <1>n, AmongFinite
  <2>2. Among(t, K, r) \in SUBSET Among(t, 1..Len(t), r)
    BY DEF Among
  <2>. QED
    BY <2>1, <2>2, FS_Subset
<1>2. ASSUME r \in W, NEW j \in Jobs, js[j] = "running"
      PROVE  new[r] >= Cardinality(Among(t, 1..at[j], r))
  <2>1. 1..at[j] \in SUBSET (1..Len(t))
    BY <1>n
  <2>2. Cardinality(Among(t, 1..at[j], r)) \in Nat
    BY <1>n, <2>1, AmongFinite
  <2>3. out[r] >= Cardinality(Among(t, 1..at[j], r))
    BY <1>2 DEF Sound
  <2>. QED
    BY <1>n, <1>1, <2>2, <2>3
<1>3. ASSUME r \notin W
      PROVE  new[r] = 0
  <2>1. Among(t, K, r) = {} /\ out[r] = 0
    BY <1>3 DEF Among, Sound
  <2>. QED
    BY <1>1, <2>1, FS_EmptySet
<1>4. new[r] <= explained + (again + 1) * copies
  <2>1. out[r] <= explained + again * copies
    BY DEF Sound
  <2>. HIDE DEF sent, copies, explained
  <2>. DEFINE before == again * copies
              after == (again + 1) * copies
  <2>2. before \in Nat /\ after = before + copies
    BY <1>1, ProductNat
  <2>3. out[r] <= explained + before
    BY <2>1
  <2>. HIDE DEF before, after
  <2>4. new[r] <= explained + after
    BY <1>n, <1>1, <2>2, <2>3
  <2>. QED
    BY <2>4 DEF after
<1>. QED
  BY <1>2, <1>3, <1>4

----------------------------------------------------------------------------
(* The steps of the system, seen from its sinks. *)

LEMMA SinkTypes ==
  TypeOK => \A p \in Sinks :
    Typed(topic, jobs, Place(p), Out(p)) /\ Wanted(p) \in SUBSET Rows /\ Again(p) \in Nat
BY FlinkJobAssumption
   DEF TypeOK, Typed, Sinks, Positions, Place, Out, Wanted, Again, Indices, EsRawIndex, EsRiskIndex

LEMMA TypeInductive == TypeOK /\ [OpenNext]_vars => TypeOK'
<1>. SUFFICES ASSUME TypeOK, [OpenNext]_vars
              PROVE  TypeOK'
  OBVIOUS
<1>. USE FlinkJobAssumption
<1>n. /\ topic \in Seq(Rows) /\ Len(topic) \in Nat
      /\ \A j \in Jobs, p \in Positions : pos[j][p] \in 0..Len(topic)
      /\ docs[EsRawIndex] \in [Rows -> Nat] /\ docs[EsRiskIndex] \in [Rows -> Nat]
      /\ EsRawIndex \in Indices /\ EsRiskIndex \in Indices
  BY DEF TypeOK, Indices, EsRawIndex, EsRiskIndex
<1>b. ASSUME NEW j \in Jobs
      PROVE  /\ RawBuffer(j) \in SUBSET (1..Len(topic))
             /\ RiskBuffer(j) \in SUBSET (1..Len(topic))
             /\ AnomalyBuffer(j) \in SUBSET (1..Len(topic))
  <2>1. /\ pos[j]["rawIndexed"] \in Nat /\ pos[j]["rawRead"] \in 0..Len(topic)
        /\ pos[j]["riskIndexed"] \in Nat /\ pos[j]["riskSent"] \in Nat
        /\ pos[j]["invoiceRead"] \in 0..Len(topic)
    BY <1>n DEF Positions
  <2>2. \A m \in Nat, n \in 0..Len(topic) : m+1..n \subseteq 1..Len(topic)
    BY <1>n
  <2>. QED
    BY <2>1, <2>2 DEF RawBuffer, RiskBuffer, AnomalyBuffer, At
<1>1. ASSUME NEW j \in Jobs, Submit(j) \/ SubmitUnanswered(j)
      PROVE  TypeOK'
  <2>1. /\ jobs' = [jobs EXCEPT ![j] = "running"] /\ UNCHANGED <<topic, pos, docs, anomalies, repeats>>
        /\ task' \in {task, "done"}
        /\ faults' = faults \/ (faults < MaxFaults /\ faults' = faults + 1)
    BY <1>1 DEF Submit, SubmitUnanswered, StartJob, Fault
  <2>2. jobs' \in [Jobs -> {"unused", "running", "failed"}]
    BY <2>1 DEF TypeOK
  <2>3. faults' \in 0..MaxFaults /\ repeats' \in 0..faults'
    BY <2>1 DEF TypeOK
  <2>. QED
    BY <2>1, <2>2, <2>3 DEF TypeOK
<1>2. CASE RecreateTask
  BY <1>2 DEF TypeOK, RecreateTask, Fault
<1>3. ASSUME NEW j \in Jobs, ReadRaw(j) \/ ReadInvoice(j)
      PROVE  TypeOK'
  <2>1. PICK p \in Positions : pos[j][p] < Len(topic) /\ pos' = [pos EXCEPT ![j][p] = @ + 1]
    BY <1>3 DEF ReadRaw, ReadInvoice, At, Positions
  <2>2. pos' \in [Jobs -> [Positions -> 0..Len(topic)]]
    BY <1>n, <2>1 DEF TypeOK
  <2>. QED
    BY <1>3, <2>2 DEF TypeOK, ReadRaw, ReadInvoice
<1>4. ASSUME NEW j \in Jobs, FlushRaw(j) \/ FlushRisk(j) \/ SendRisk(j)
      PROVE  TypeOK'
  <2>1. PICK p \in Positions, q \in Positions : pos' = [pos EXCEPT ![j][p] = pos[j][q]]
    BY <1>4 DEF FlushRaw, FlushRisk, SendRisk, At, Positions
  <2>2. pos' \in [Jobs -> [Positions -> 0..Len(topic)]]
    BY <1>n, <2>1 DEF TypeOK
  <2>3. docs' \in [Indices -> [Rows -> Nat]]
    <3>1. Plus(docs[EsRawIndex], RawBuffer(j)) \in [Rows -> Nat]
      BY <1>b, <1>n, PlusType
    <3>2. Plus(docs[EsRiskIndex], RiskBuffer(j)) \in [Rows -> Nat]
      BY <1>b, <1>n, PlusType
    <3>. QED
      BY <1>4, <3>1, <3>2 DEF TypeOK, FlushRaw, FlushRisk, SendRisk
  <2>4. anomalies' \in [Rows -> Nat]
    <3>1. Plus(anomalies, AnomalyBuffer(j)) \in [Rows -> Nat]
      BY <1>b, <1>n, PlusType DEF TypeOK
    <3>. QED
      BY <1>4, <3>1 DEF TypeOK, FlushRaw, FlushRisk, SendRisk
  <2>. QED
    BY <1>4, <2>2, <2>3, <2>4 DEF TypeOK, FlushRaw, FlushRisk, SendRisk
<1>5. ASSUME NEW j \in Jobs, JobFails(j)
      PROVE  TypeOK'
  <2>1. PICK raw \in SUBSET RawBuffer(j), risk \in SUBSET RiskBuffer(j) :
          docs' = [docs EXCEPT ![EsRawIndex] = Plus(@, raw), ![EsRiskIndex] = Plus(@, risk)]
    BY <1>5 DEF JobFails
  <2>2. PICK sent \in SUBSET AnomalyBuffer(j) : anomalies' = Plus(anomalies, sent)
    BY <1>5 DEF JobFails
  <2>3. Plus(docs[EsRawIndex], raw) \in [Rows -> Nat] /\ Plus(docs[EsRiskIndex], risk) \in [Rows -> Nat]
    BY <1>b, <1>n, <2>1, PlusType
  <2>4. anomalies' \in [Rows -> Nat]
    BY <1>b, <1>n, <2>2, PlusType DEF TypeOK
  <2>5. docs' \in [Indices -> [Rows -> Nat]]
    BY <2>1, <2>3 DEF TypeOK, Indices, EsRawIndex, EsRiskIndex
  <2>6. pos' \in [Jobs -> [Positions -> 0..Len(topic)]]
    <3>1. pos' = [pos EXCEPT ![j] = Beginning] /\ Beginning \in [Positions -> 0..Len(topic)]
      BY <1>5, <1>n DEF JobFails, Beginning
    <3>. QED
      BY <3>1 DEF TypeOK
  <2>7. /\ jobs' \in [Jobs -> {"unused", "running", "failed"}]
        /\ faults' \in 0..MaxFaults /\ repeats' \in 0..faults'
        /\ topic' = topic /\ task' = task
    BY <1>5 DEF TypeOK, JobFails, Fault
  <2>. QED
    BY <2>4, <2>5, <2>6, <2>7 DEF TypeOK
<1>8. ASSUME NEW j \in Jobs, Resend(j)
      PROVE  TypeOK'
  <2>1. PICK sent \in SUBSET AnomalyBuffer(j) : anomalies' = Plus(anomalies, sent)
    BY <1>8 DEF Resend
  <2>2. anomalies' \in [Rows -> Nat]
    BY <1>b, <1>n, <2>1, PlusType DEF TypeOK
  <2>3. repeats' \in 0..faults' /\ faults' \in 0..MaxFaults
    BY <1>8 DEF TypeOK, Resend, Fault
  <2>. QED
    BY <1>8, <2>2, <2>3 DEF TypeOK, Resend
<1>6. ASSUME NEW r \in Rows, Write(r)
      PROVE  TypeOK'
  <2>1. topic' \in Seq(Rows) /\ Len(topic') = Len(topic) + 1
    BY <1>6, <1>n DEF Write
  <2>2. 0..Len(topic) \subseteq 0..Len(topic')
    BY <1>n, <2>1
  <2>. QED
    BY <1>6, <2>1, <2>2 DEF TypeOK, Write, flink
<1>7. CASE UNCHANGED vars
  BY <1>7 DEF TypeOK, vars, flink
<1>. QED
  BY <1>1, <1>2, <1>3, <1>4, <1>5, <1>6, <1>7, <1>8 DEF OpenNext, Flink, Flow

LEMMA Inductive == IInv /\ [OpenNext]_vars => IInv'
<1>. SUFFICES ASSUME IInv, [OpenNext]_vars
              PROVE  IInv'
  OBVIOUS
<1>. USE FlinkJobAssumption
<1>n. /\ topic \in Seq(Rows) /\ Len(topic) \in Nat
      /\ \A j \in Jobs, p \in Positions : pos[j][p] \in 0..Len(topic)
      /\ docs[EsRawIndex] \in [Rows -> Nat] /\ docs[EsRiskIndex] \in [Rows -> Nat]
      /\ anomalies \in [Rows -> Nat]
  BY DEF IInv, TypeOK, Indices, EsRawIndex, EsRiskIndex
<1>t. TypeOK' => \A p \in Sinks : Typed(topic, jobs, Place(p), Out(p))'
  BY DEF TypeOK, Typed, Sinks, Positions, Place, Out, Wanted, Indices, EsRawIndex, EsRiskIndex
(* With its types a step keeps the invariant if it leaves each sink alone... *)
<1>q. ASSUME TypeOK', NEW p \in Sinks, Out(p)' = Out(p), Again(p)' = Again(p),
             Len(topic) <= Len(topic'), \A k \in 1..Len(topic) : topic'[k] = topic[k],
             \A j \in Jobs :
               /\ jobs[j] = "failed" => jobs'[j] = "failed"
               /\ jobs[j] = "running" => jobs'[j] = "running" /\ pos'[j][p] = pos[j][p]
               /\ jobs[j] # "running" /\ jobs'[j] = "running" => pos'[j][p] = 0
      PROVE  Sound(topic, jobs, Place(p), Out(p), Wanted(p), Again(p))'
  <2>1. /\ Typed(topic, jobs, Place(p), Out(p)) /\ Typed(topic, jobs, Place(p), Out(p))'
        /\ Again(p) \in Nat
    BY <1>q, <1>t, SinkTypes DEF IInv
  <2>2. Sound(topic, jobs, Place(p), Out(p), Wanted(p), Again(p))
    BY <1>q DEF IInv
  <2>. QED
    BY <1>q, <2>1, <2>2, Quiet DEF Place
(* ... or job j lets some of what it holds back out of it. *)
<1>l. ASSUME TypeOK', NEW p \in Sinks, NEW j \in Jobs, jobs[j] = "running",
             NEW K \in SUBSET (pos[j][p]+1..Len(topic)), \A k \in K : topic[k] \in Wanted(p),
             topic' = topic, Out(p)' = Plus(Out(p), K), Again(p)' = Again(p),
             \A i \in Jobs \ {j} : jobs'[i] = jobs[i] /\ pos'[i][p] = pos[i][p],
             \/ jobs'[j] = "failed"
             \/ /\ jobs'[j] = "running"
                /\ pos[j][p] <= pos'[j][p]
                /\ \A k \in pos[j][p]+1..Len(topic) :
                     topic[k] \in Wanted(p) => (k \in K <=> k <= pos'[j][p])
      PROVE  Sound(topic, jobs, Place(p), Out(p), Wanted(p), Again(p))'
  <2>1. /\ Typed(topic, jobs, Place(p), Out(p)) /\ Typed(topic, jobs, Place(p), Out(p))'
        /\ Wanted(p) \in SUBSET Rows /\ Again(p) \in Nat
    BY <1>l, <1>t, SinkTypes DEF IInv
  <2>2. Sound(topic, jobs, Place(p), Out(p), Wanted(p), Again(p))
    BY <1>l DEF IInv
  <2>3. K \in SUBSET (1..Len(topic)) /\ Out(p) \in [Rows -> Nat]
    BY <1>l, <1>n, <2>1 DEF Typed, Sinks, Positions
  <2>4. \A r \in Rows : Out(p)'[r] = Out(p)[r] + Cardinality(Among(topic, K, r))
    <3>1. Out(p)' = Plus(Out(p), K)
      BY <1>l
    <3>2. \A r \in Rows : Plus(Out(p), K)[r] = Out(p)[r] + Cardinality(Among(topic, K, r))
      BY <1>n, <2>3, PlusType
    <3>. QED
      BY <3>1, <3>2
  <2>5. /\ K \in SUBSET (Place(p)[j]+1..Len(topic))
        /\ \A i \in Jobs \ {j} : jobs'[i] = jobs[i] /\ Place(p)'[i] = Place(p)[i]
        /\ \/ jobs'[j] = "failed"
           \/ /\ jobs'[j] = "running"
              /\ Place(p)[j] <= Place(p)'[j]
              /\ \A k \in Place(p)[j]+1..Len(topic) :
                   topic[k] \in Wanted(p) => (k \in K <=> k <= Place(p)'[j])
    BY <1>l DEF Place
  <2>6. Wanted(p)' = Wanted(p) /\ Typed(topic, jobs', Place(p)', Out(p)')
    BY <1>l, <2>1 DEF Wanted
  <2>7. Sound(topic, jobs', Place(p)', Out(p)', Wanted(p), Again(p))
    <3>. DEFINE at == Place(p)
                bt == Place(p)'
                out == Out(p)
                new == Out(p)'
                W == Wanted(p)
                again == Again(p)
                ks == jobs'
    <3>1. /\ Typed(topic, jobs, at, out) /\ Typed(topic, ks, bt, new)
          /\ Sound(topic, jobs, at, out, W, again) /\ W \in SUBSET Rows /\ again \in Nat
      BY <2>1, <2>2, <2>6
    <3>2. jobs[j] = "running" /\ j \in Jobs /\ \A k \in K : topic[k] \in W
      BY <1>l
    <3>3. K \in SUBSET (at[j]+1..Len(topic))
      BY <2>5
    <3>4. \A i \in Jobs \ {j} : ks[i] = jobs[i] /\ bt[i] = at[i]
      BY <2>5
    <3>5. \/ ks[j] = "failed"
          \/ /\ ks[j] = "running"
             /\ at[j] <= bt[j]
             /\ \A k \in at[j]+1..Len(topic) : topic[k] \in W => (k \in K <=> k <= bt[j])
      BY <2>5
    <3>6. \A r \in Rows : new[r] = out[r] + Cardinality(Among(topic, K, r))
      BY <2>4
    <3>. HIDE DEF at, bt, out, new, W, again, ks
    <3>7. Sound(topic, ks, bt, new, W, again)
      BY <3>1, <3>2, <3>3, <3>4, <3>5, <3>6, LetsOut
    <3>. QED
      BY <3>7 DEF bt, new, W, again, ks
  <2>. QED
    BY <1>l, <2>6, <2>7
<1>0. TypeOK'
  BY TypeInductive DEF IInv
<1>s. ASSUME Fresh', \A p \in Sinks : Sound(topic, jobs, Place(p), Out(p), Wanted(p), Again(p))'
      PROVE  IInv'
  BY <1>0, <1>s DEF IInv
<1>1. CASE \/ \E j \in Jobs : Submit(j) \/ SubmitUnanswered(j) \/ ReadRaw(j) \/ ReadInvoice(j)
           \/ RecreateTask \/ (\E r \in Rows : Write(r)) \/ UNCHANGED vars
  <2>1. docs' = docs /\ anomalies' = anomalies /\ repeats' = repeats
    BY <1>1 DEF Submit, SubmitUnanswered, StartJob, ReadRaw, ReadInvoice, RecreateTask,
                Write, vars, flink
  <2>2. Len(topic) <= Len(topic') /\ \A k \in 1..Len(topic) : topic'[k] = topic[k]
    <3>1. CASE \E r \in Rows : Write(r)
      BY <1>n, <3>1 DEF Write
    <3>2. CASE topic' = topic
      BY <1>n, <3>2
    <3>. QED
      BY <1>1, <3>1, <3>2 DEF Submit, SubmitUnanswered, StartJob, ReadRaw, ReadInvoice,
                              RecreateTask, vars
  <2>3. ASSUME NEW j \in Jobs
        PROVE  /\ jobs'[j] = jobs[j] \/ (jobs[j] = "unused" /\ jobs'[j] = "running")
               /\ jobs[j] # "running" => pos'[j] = pos[j]
               /\ \A p \in Sinks : pos'[j][p] = pos[j][p]
    <3>1. /\ jobs \in [Jobs -> {"unused", "running", "failed"}]
          /\ pos \in [Jobs -> [Positions -> 0..Len(topic)]]
      BY DEF IInv, TypeOK
    <3>2. CASE jobs' = jobs /\ pos' = pos
      BY <3>2
    <3>3. ASSUME NEW i \in Jobs, Submit(i) \/ SubmitUnanswered(i)
          PROVE  /\ jobs'[j] = jobs[j] \/ (jobs[j] = "unused" /\ jobs'[j] = "running")
                 /\ pos' = pos
      BY <3>1, <3>3 DEF Submit, SubmitUnanswered, StartJob
    <3>4. ASSUME NEW i \in Jobs, ReadRaw(i) \/ ReadInvoice(i)
          PROVE  /\ jobs' = jobs
                 /\ jobs[j] # "running" => pos'[j] = pos[j]
                 /\ \A p \in Sinks : pos'[j][p] = pos[j][p]
      <4>1. /\ jobs' = jobs /\ jobs[i] = "running"
            /\ \/ pos' = [pos EXCEPT ![i].rawRead = @ + 1]
               \/ pos' = [pos EXCEPT ![i].invoiceRead = @ + 1]
        BY <3>4 DEF ReadRaw, ReadInvoice
      <4>. QED
        BY <3>1, <4>1 DEF Sinks, Positions
    <3>. QED
      BY <1>1, <3>2, <3>3, <3>4 DEF RecreateTask, Write, vars, flink
  <2>4. Fresh'
    BY <2>3 DEF IInv, Fresh
  <2>5. ASSUME NEW p \in Sinks
        PROVE  Sound(topic, jobs, Place(p), Out(p), Wanted(p), Again(p))'
    <3>1. Out(p)' = Out(p) /\ Again(p)' = Again(p)
      BY <2>1 DEF Out, Again
    <3>2. \A j \in Jobs : jobs[j] # "running" => pos[j][p] = 0
      BY DEF IInv, Fresh, Beginning, Sinks, Positions
    <3>. QED
      BY <1>0, <1>q, <2>2, <2>3, <3>1, <3>2
  <2>. QED
    BY <1>s, <2>4, <2>5
<1>2. ASSUME NEW j \in Jobs, FlushRaw(j)
      PROVE  IInv'
  <2>1. /\ jobs[j] = "running" /\ jobs' = jobs /\ topic' = topic /\ anomalies' = anomalies
        /\ RawBuffer(j) # {}
        /\ docs'[EsRawIndex] = Plus(docs[EsRawIndex], RawBuffer(j))
        /\ docs'[EsRiskIndex] = docs[EsRiskIndex]
        /\ pos'[j]["rawIndexed"] = pos[j]["rawRead"]
        /\ \A i \in Jobs, p \in Sinks : i # j \/ p # "rawIndexed" => pos'[i][p] = pos[i][p]
        /\ \A i \in Jobs \ {j} : pos'[i] = pos[i]
    BY <1>2 DEF FlushRaw, IInv, TypeOK, Indices, EsRawIndex, EsRiskIndex, At, Positions, Sinks
  <2>a. \A p \in Sinks : Again(p)' = Again(p)
    BY <1>2 DEF FlushRaw, Again
  <2>2. Sound(topic, jobs, Place("rawIndexed"), Out("rawIndexed"), Wanted("rawIndexed"), Again("rawIndexed"))'
    <3>1. /\ "rawIndexed" \in Sinks
          /\ Out("rawIndexed")' = Plus(Out("rawIndexed"), RawBuffer(j))
          /\ Wanted("rawIndexed") = Rows
      BY <2>1 DEF Sinks, Out, Wanted
    <3>2. /\ RawBuffer(j) \in SUBSET (pos[j]["rawIndexed"]+1..Len(topic))
          /\ \A k \in RawBuffer(j) : topic[k] \in Rows
          /\ pos[j]["rawIndexed"] <= pos[j]["rawRead"]
      <4>1. /\ pos[j]["rawIndexed"] \in 0..Len(topic) /\ pos[j]["rawRead"] \in 0..Len(topic)
            /\ \A k \in 1..Len(topic) : topic[k] \in Rows
        BY <1>n DEF Positions
      <4>2. RawBuffer(j) = pos[j]["rawIndexed"]+1..pos[j]["rawRead"]
        BY DEF RawBuffer, At
      <4>3. pos[j]["rawIndexed"]+1..pos[j]["rawRead"] # {}
        BY <2>1, <4>2
      <4>4. pos[j]["rawIndexed"] < pos[j]["rawRead"]
        BY <4>1, <4>3
      <4>5. \A k \in pos[j]["rawIndexed"]+1..pos[j]["rawRead"] :
              k \in pos[j]["rawIndexed"]+1..Len(topic) /\ k \in 1..Len(topic)
        BY <1>n, <4>1
      <4>6. pos[j]["rawIndexed"] <= pos[j]["rawRead"]
        BY <4>1, <4>4
      <4>. QED
        BY <4>1, <4>2, <4>5, <4>6
    <3>3. \A k \in pos[j]["rawIndexed"]+1..Len(topic) : k \in RawBuffer(j) <=> k <= pos[j]["rawRead"]
      BY <1>n DEF RawBuffer, At, Positions
    <3>. QED
      BY <1>0, <1>l, <2>1, <2>a, <3>1, <3>2, <3>3
  <2>3. ASSUME NEW p \in Sinks, p # "rawIndexed"
        PROVE  Sound(topic, jobs, Place(p), Out(p), Wanted(p), Again(p))'
    <3>1. Out(p)' = Out(p)
      BY <2>1, <2>3 DEF Out
    <3>. QED
      BY <1>0, <1>n, <1>q, <2>1, <2>a, <2>3, <3>1
  <2>4. Fresh'
    BY <2>1 DEF IInv, Fresh
  <2>. QED
    BY <1>s, <2>2, <2>3, <2>4
<1>3. ASSUME NEW j \in Jobs, FlushRisk(j)
      PROVE  IInv'
  <2>1. /\ jobs[j] = "running" /\ jobs' = jobs /\ topic' = topic
        /\ docs'[EsRawIndex] = docs[EsRawIndex]
        /\ anomalies' = anomalies
        /\ RiskBuffer(j) # {}
        /\ docs'[EsRiskIndex] = Plus(docs[EsRiskIndex], RiskBuffer(j))
        /\ pos'[j]["riskIndexed"] = pos[j]["invoiceRead"]
        /\ \A i \in Jobs, p \in Sinks : i # j \/ p # "riskIndexed" => pos'[i][p] = pos[i][p]
        /\ \A i \in Jobs \ {j} : pos'[i] = pos[i]
    BY <1>3 DEF FlushRisk, IInv, TypeOK, Indices, EsRawIndex, EsRiskIndex, At, Positions, Sinks
  <2>a. \A p \in Sinks : Again(p)' = Again(p)
    BY <1>3 DEF FlushRisk, Again
  <2>2. Sound(topic, jobs, Place("riskIndexed"), Out("riskIndexed"), Wanted("riskIndexed"), Again("riskIndexed"))'
    <3>1. /\ "riskIndexed" \in Sinks
          /\ Out("riskIndexed")' = Plus(Out("riskIndexed"), RiskBuffer(j))
          /\ Wanted("riskIndexed") = Risky
      BY <2>1 DEF Sinks, Out, Wanted
    <3>2. /\ pos[j]["riskIndexed"] \in 0..Len(topic) /\ pos[j]["invoiceRead"] \in 0..Len(topic)
          /\ RiskBuffer(j) = {k \in pos[j]["riskIndexed"]+1..pos[j]["invoiceRead"] : topic[k] \in Risky}
      BY <1>n DEF Positions, RiskBuffer, At
    <3>3. pos[j]["riskIndexed"] <= pos[j]["invoiceRead"]
      <4>1. pos[j]["riskIndexed"]+1..pos[j]["invoiceRead"] # {}
        BY <2>1, <3>2
      <4>. QED
        BY <3>2, <4>1
    <3>4. \A k \in pos[j]["riskIndexed"]+1..Len(topic) :
            k \in pos[j]["riskIndexed"]+1..pos[j]["invoiceRead"] <=> k <= pos[j]["invoiceRead"]
      BY <1>n, <3>2
    <3>5. \A k \in pos[j]["riskIndexed"]+1..pos[j]["invoiceRead"] : k \in pos[j]["riskIndexed"]+1..Len(topic)
      BY <1>n, <3>2
    <3>6. /\ RiskBuffer(j) \in SUBSET (pos[j]["riskIndexed"]+1..Len(topic))
          /\ \A k \in RiskBuffer(j) : topic[k] \in Risky
          /\ \A k \in pos[j]["riskIndexed"]+1..Len(topic) :
               topic[k] \in Risky => (k \in RiskBuffer(j) <=> k <= pos[j]["invoiceRead"])
      BY <3>2, <3>4, <3>5
    <3>. QED
      BY <1>0, <1>l, <2>1, <2>a, <3>1, <3>3, <3>6
  <2>3. ASSUME NEW p \in Sinks, p # "riskIndexed"
        PROVE  Sound(topic, jobs, Place(p), Out(p), Wanted(p), Again(p))'
    <3>1. Out(p)' = Out(p)
      BY <2>1, <2>3 DEF Out, Sinks
    <3>. QED
      BY <1>0, <1>n, <1>q, <2>1, <2>a, <2>3, <3>1
  <2>4. Fresh'
    BY <2>1 DEF IInv, Fresh
  <2>. QED
    BY <1>s, <2>2, <2>3, <2>4
<1>4. ASSUME NEW j \in Jobs, SendRisk(j)
      PROVE  IInv'
  <2>1. /\ jobs[j] = "running" /\ jobs' = jobs /\ topic' = topic
        /\ docs'[EsRawIndex] = docs[EsRawIndex]
        /\ docs'[EsRiskIndex] = docs[EsRiskIndex]
        /\ AnomalyBuffer(j) # {}
        /\ anomalies' = Plus(anomalies, AnomalyBuffer(j))
        /\ pos'[j]["riskSent"] = pos[j]["invoiceRead"]
        /\ \A i \in Jobs, p \in Sinks : i # j \/ p # "riskSent" => pos'[i][p] = pos[i][p]
        /\ \A i \in Jobs \ {j} : pos'[i] = pos[i]
    BY <1>4 DEF SendRisk, IInv, TypeOK, Indices, EsRawIndex, EsRiskIndex, At, Positions, Sinks
  <2>a. \A p \in Sinks : Again(p)' = Again(p)
    BY <1>4 DEF SendRisk, Again
  <2>2. Sound(topic, jobs, Place("riskSent"), Out("riskSent"), Wanted("riskSent"), Again("riskSent"))'
    <3>1. /\ "riskSent" \in Sinks
          /\ Out("riskSent")' = Plus(Out("riskSent"), AnomalyBuffer(j))
          /\ Wanted("riskSent") = Risky
      BY <2>1 DEF Sinks, Out, Wanted
    <3>2. /\ pos[j]["riskSent"] \in 0..Len(topic) /\ pos[j]["invoiceRead"] \in 0..Len(topic)
          /\ AnomalyBuffer(j) = {k \in pos[j]["riskSent"]+1..pos[j]["invoiceRead"] : topic[k] \in Risky}
      BY <1>n DEF Positions, AnomalyBuffer, At
    <3>3. pos[j]["riskSent"] <= pos[j]["invoiceRead"]
      <4>1. pos[j]["riskSent"]+1..pos[j]["invoiceRead"] # {}
        BY <2>1, <3>2
      <4>. QED
        BY <3>2, <4>1
    <3>4. \A k \in pos[j]["riskSent"]+1..Len(topic) :
            k \in pos[j]["riskSent"]+1..pos[j]["invoiceRead"] <=> k <= pos[j]["invoiceRead"]
      BY <1>n, <3>2
    <3>5. \A k \in pos[j]["riskSent"]+1..pos[j]["invoiceRead"] : k \in pos[j]["riskSent"]+1..Len(topic)
      BY <1>n, <3>2
    <3>6. /\ AnomalyBuffer(j) \in SUBSET (pos[j]["riskSent"]+1..Len(topic))
          /\ \A k \in AnomalyBuffer(j) : topic[k] \in Risky
          /\ \A k \in pos[j]["riskSent"]+1..Len(topic) :
               topic[k] \in Risky => (k \in AnomalyBuffer(j) <=> k <= pos[j]["invoiceRead"])
      BY <3>2, <3>4, <3>5
    <3>. QED
      BY <1>0, <1>l, <2>1, <2>a, <3>1, <3>3, <3>6
  <2>3. ASSUME NEW p \in Sinks, p # "riskSent"
        PROVE  Sound(topic, jobs, Place(p), Out(p), Wanted(p), Again(p))'
    <3>1. Out(p)' = Out(p)
      BY <2>1, <2>3 DEF Out, Sinks
    <3>. QED
      BY <1>0, <1>n, <1>q, <2>1, <2>a, <2>3, <3>1
  <2>4. Fresh'
    BY <2>1 DEF IInv, Fresh
  <2>. QED
    BY <1>s, <2>2, <2>3, <2>4
<1>5. ASSUME NEW j \in Jobs, JobFails(j)
      PROVE  IInv'
  <2>1. PICK raw \in SUBSET RawBuffer(j), risk \in SUBSET RiskBuffer(j) :
          docs' = [docs EXCEPT ![EsRawIndex] = Plus(@, raw), ![EsRiskIndex] = Plus(@, risk)]
    BY <1>5 DEF JobFails
  <2>2. PICK sent \in SUBSET AnomalyBuffer(j) : anomalies' = Plus(anomalies, sent)
    BY <1>5 DEF JobFails
  <2>3. /\ jobs[j] = "running" /\ topic' = topic
        /\ jobs' = [jobs EXCEPT ![j] = "failed"] /\ pos' = [pos EXCEPT ![j] = Beginning]
        /\ jobs'[j] = "failed" /\ pos'[j] = Beginning
        /\ \A i \in Jobs \ {j} : jobs'[i] = jobs[i] /\ pos'[i] = pos[i]
    BY <1>5 DEF JobFails, IInv, TypeOK
  <2>4. /\ docs'[EsRawIndex] = Plus(docs[EsRawIndex], raw)
        /\ docs'[EsRiskIndex] = Plus(docs[EsRiskIndex], risk)
    BY <2>1 DEF IInv, TypeOK, Indices, EsRawIndex, EsRiskIndex
  <2>a. \A p \in Sinks : Again(p)' = Again(p)
    BY <1>5 DEF JobFails, Again
  <2>5. ASSUME NEW p \in Sinks
        PROVE  Sound(topic, jobs, Place(p), Out(p), Wanted(p), Again(p))'
    <3>. DEFINE K == IF p = "rawIndexed" THEN raw ELSE IF p = "riskIndexed" THEN risk ELSE sent
                read == IF p = "rawIndexed" THEN "rawRead" ELSE "invoiceRead"
    <3>1. K \subseteq {k \in pos[j][p]+1..pos[j][read] : topic[k] \in Wanted(p)}
      <4>1. /\ pos[j]["rawIndexed"] \in 0..Len(topic) /\ pos[j]["rawRead"] \in 0..Len(topic)
            /\ \A k \in 1..Len(topic) : topic[k] \in Rows
        BY <1>n DEF Positions
      <4>2. \A k \in pos[j]["rawIndexed"]+1..pos[j]["rawRead"] : topic[k] \in Rows
        BY <1>n, <4>1
      <4>. QED
        BY <2>5, <4>2 DEF Sinks, Wanted, RawBuffer, RiskBuffer, AnomalyBuffer, At
    <3>2. /\ pos[j][p] \in 0..Len(topic) /\ pos[j][read] \in 0..Len(topic)
      BY <1>n, <2>5 DEF Positions, Sinks
    <3>3. pos[j][p]+1..pos[j][read] \subseteq pos[j][p]+1..Len(topic)
      BY <1>n, <3>2
    <3>4. K \in SUBSET (pos[j][p]+1..Len(topic)) /\ \A k \in K : topic[k] \in Wanted(p)
      BY <3>1, <3>3
    <3>5. Out(p)' = Plus(Out(p), K)
      BY <2>2, <2>4 DEF Out
    <3>6. \A i \in Jobs \ {j} : jobs'[i] = jobs[i] /\ pos'[i][p] = pos[i][p]
      BY <2>3
    <3>. HIDE DEF K, read
    <3>. QED
      BY <1>0, <1>l, <2>3, <2>a, <3>4, <3>5, <3>6
  <2>6. Fresh'
    BY <2>3 DEF IInv, Fresh
  <2>. QED
    BY <1>s, <2>5, <2>6
<1>6. ASSUME NEW j \in Jobs, Resend(j)
      PROVE  IInv'
  <2>1. PICK sent \in SUBSET AnomalyBuffer(j) : anomalies' = Plus(anomalies, sent)
    BY <1>6 DEF Resend
  <2>2. UNCHANGED <<topic, jobs, pos, docs>> /\ repeats' = repeats + 1
    BY <1>6 DEF Resend
  <2>3. sent \in SUBSET (1..Len(topic)) /\ \A k \in sent : topic[k] \in Risky
    <3>1. /\ pos[j]["riskSent"] \in 0..Len(topic) /\ pos[j]["invoiceRead"] \in 0..Len(topic)
      BY <1>n DEF Positions
    <3>2. \A m \in Nat, n \in 0..Len(topic) : m+1..n \subseteq 1..Len(topic)
      BY <1>n
    <3>3. pos[j]["riskSent"]+1..pos[j]["invoiceRead"] \subseteq 1..Len(topic)
      BY <3>1, <3>2
    <3>. QED
      BY <2>1, <3>3 DEF AnomalyBuffer, At
  <2>4. Sound(topic, jobs, Place("riskSent"), Out("riskSent"), Wanted("riskSent"), Again("riskSent"))'
    <3>. DEFINE out == anomalies
                new == anomalies'
                at == Place("riskSent")
    <3>1. /\ Typed(topic, jobs, at, out) /\ Sound(topic, jobs, at, out, Risky, repeats)
          /\ Risky \in SUBSET Rows /\ repeats \in Nat
      BY SinkTypes DEF IInv, Sinks, Out, Wanted, Again
    <3>2. Typed(topic, jobs, at, new)
      BY <1>0, <1>n, <2>2, <3>1 DEF Typed, TypeOK
    <3>3. \A r \in Rows : new[r] = out[r] + Cardinality(Among(topic, sent, r))
      BY <1>n, <2>1, <2>3, PlusType
    <3>. HIDE DEF out, new, at
    <3>4. Sound(topic, jobs, at, new, Risky, repeats + 1)
      BY <2>3, <3>1, <3>2, <3>3, SendsAgain
    <3>. QED
      BY <2>2, <3>4 DEF at, new, Place, Out, Wanted, Again
  <2>5. ASSUME NEW p \in Sinks, p # "riskSent"
        PROVE  Sound(topic, jobs, Place(p), Out(p), Wanted(p), Again(p))'
    <3>1. Out(p)' = Out(p) /\ Again(p)' = Again(p)
      BY <2>2, <2>5 DEF Out, Again, Sinks
    <3>. QED
      BY <1>0, <1>n, <1>q, <2>2, <2>5, <3>1
  <2>6. Fresh'
    BY <2>2 DEF IInv, Fresh
  <2>. QED
    BY <1>s, <2>4, <2>5, <2>6
<1>. QED
  BY <1>1, <1>2, <1>3, <1>4, <1>5, <1>6 DEF OpenNext, Flink, Flow

LEMMA Initially == Init => IInv
<1>. SUFFICES ASSUME Init PROVE IInv
  OBVIOUS
<1>1. TypeOK
  BY FlinkJobAssumption DEF Init, TypeOK, Beginning
<1>2. Fresh
  BY DEF Init, Fresh
<1>3. ASSUME NEW p \in Sinks, NEW r \in Rows
      PROVE  Out(p)[r] = 0 /\ \A j \in Jobs : jobs[j] # "running"
  BY <1>3 DEF Init, Out, Indices, EsRawIndex, EsRiskIndex
<1>4. ASSUME NEW p \in Sinks, NEW r \in Rows
      PROVE  Cardinality(Explains(topic, jobs, Place(p), r))
               + Again(p) * Cardinality(Among(topic, 1..Len(topic), r)) \in Nat
  <2>1. Len(topic) \in Nat /\ topic \in Seq(Rows) /\ Again(p) \in Nat
    BY <1>1, <1>4, SinkTypes DEF TypeOK
  <2>2. Cardinality(Explains(topic, jobs, Place(p), r)) \in Nat
    BY <2>1, ExplainsFinite
  <2>3. 1..Len(topic) \in SUBSET (1..Len(topic))
    OBVIOUS
  <2>4. Cardinality(Among(topic, 1..Len(topic), r)) \in Nat
    BY <2>1, <2>3, AmongFinite
  <2>5. Again(p) * Cardinality(Among(topic, 1..Len(topic), r)) \in Nat
    BY <2>1, <2>4, ProductNat
  <2>. QED
    BY <2>2, <2>5
<1>. QED
  BY <1>1, <1>2, <1>3, <1>4 DEF IInv, Sound

(* Every reachable state of the job satisfies the inductive invariant. *)
LEMMA OpenInvariance == OpenSpec => []IInv
BY Initially, Inductive, PTL DEF OpenSpec

(* The same for a topic that has a bound, as TLC checks it. *)
THEOREM Invariance == Spec => []IInv
<1>1. [Next]_vars => [OpenNext]_vars
  BY DEF Next, OpenNext, Produce
<1>. QED
  BY <1>1, OpenInvariance, PTL DEF Spec, OpenSpec

----------------------------------------------------------------------------
(* Type correctness, no position past the end of the topic, for any number *)
(* of jobs and any topic.                                                  *)
THEOREM TypeCorrect == Spec => []TypeOK
<1>1. IInv => TypeOK
  BY DEF IInv
<1>. QED
  BY <1>1, Invariance, PTL

(* Whatever other jobs do, what a running job has let go of is stored. *)
THEOREM NothingIsDropped == Spec => []NothingDropped
<1>1. ASSUME IInv
      PROVE  NothingDropped
  <2>1. ASSUME NEW p \in Sinks, NEW r \in Wanted(p), NEW j \in Jobs, jobs[j] = "running"
        PROVE  Out(p)[r] >= CopiesUpTo(pos[j][p], r)
    <3>1. r \in Rows
      BY <1>1, SinkTypes DEF IInv
    <3>. QED
      BY <1>1, <2>1, <3>1 DEF IInv, Sound, Place, Among, CopiesUpTo
  <2>. QED
    BY <2>1 DEF NothingDropped, At, Out, Wanted, Sinks
<1>. QED
  BY <1>1, Invariance, PTL

(* Nothing writes to the other indices, and it takes an adverse event for  *)
(* a job to fail or a second one to be submitted.                          *)
OneJobOnly ==
  /\ \A x \in Indices \ {EsRawIndex, EsRiskIndex}, r \in Rows : docs[x][r] = 0
  /\ faults = 0 =>
       /\ task = "pending" => \A j \in Jobs : jobs[j] = "unused"
       /\ \A j \in Jobs : jobs[j] # "failed"
       /\ \A j, k \in Jobs : jobs[j] # "unused" /\ jobs[k] # "unused" => j = k

LEMMA OneJobInductive == TypeOK /\ OneJobOnly /\ [OpenNext]_vars => OneJobOnly'
<1>. SUFFICES ASSUME TypeOK, OneJobOnly, [OpenNext]_vars
              PROVE  OneJobOnly'
  OBVIOUS
<1>. USE DEF TypeOK, OneJobOnly
<1>1. ASSUME NEW j \in Jobs, Submit(j)
      PROVE  OneJobOnly'
  BY <1>1 DEF Submit, StartJob
<1>2. CASE \/ \E j \in Jobs : SubmitUnanswered(j) \/ Resend(j) \/ JobFails(j)
           \/ RecreateTask
  <2>1. faults' # 0
    BY <1>2, FlinkJobAssumption DEF SubmitUnanswered, Resend, JobFails, RecreateTask, Fault
  <2>2. \A x \in Indices \ {EsRawIndex, EsRiskIndex} : docs'[x] = docs[x]
    BY <1>2 DEF SubmitUnanswered, StartJob, Resend, JobFails, RecreateTask
  <2>. QED
    BY <2>1, <2>2
<1>3. ASSUME NEW j \in Jobs, Flow(j)
      PROVE  OneJobOnly'
  <2>1. UNCHANGED <<task, jobs, faults>>
    BY <1>3 DEF Flow, ReadRaw, FlushRaw, ReadInvoice, FlushRisk, SendRisk
  <2>2. \A x \in Indices \ {EsRawIndex, EsRiskIndex} : docs'[x] = docs[x]
    BY <1>3 DEF Flow, ReadRaw, FlushRaw, ReadInvoice, FlushRisk, SendRisk
  <2>. QED
    BY <2>1, <2>2
<1>4. CASE (\E r \in Rows : Write(r)) \/ UNCHANGED vars
  BY <1>4 DEF Write, vars, flink
<1>. QED
  BY <1>1, <1>2, <1>3, <1>4 DEF OpenNext, Flink

LEMMA OneJobInitially == Init => OneJobOnly
BY DEF Init, OneJobOnly

LEMMA StartsNat == Starts \in Nat
<1>1. {j \in Jobs : jobs[j] # "unused"} \in SUBSET Jobs
  OBVIOUS
<1>. QED
  BY <1>1, FlinkJobAssumption, FS_Subset, FS_CardinalityType DEF Starts

LEMMA OneStart ==
  ASSUME OneJobOnly, faults = 0
  PROVE  Starts <= 1
<1>. DEFINE started == {j \in Jobs : jobs[j] # "unused"}
<1>1. CASE started = {}
  BY <1>1, FS_EmptySet DEF Starts
<1>2. CASE started # {}
  <2>1. PICK j \in Jobs : started = {j}
    BY <1>2 DEF OneJobOnly
  <2>. QED
    BY <2>1, FS_Singleton DEF Starts
<1>. QED
  BY <1>1, <1>2

(* The pairs of a job and a message bound the documents of a row.          *)
LEMMA Explanations == IInv /\ OneJobOnly => DocumentsExplained
<1>1. ASSUME IInv, NEW p \in Sinks, NEW r \in Rows
      PROVE  Out(p)[r] <= (Starts + Again(p)) * Copies(r)
  <2>. DEFINE started == {j \in Jobs : jobs[j] # "unused"}
              E == Explains(topic, jobs, Place(p), r)
              C == Among(topic, 1..Len(topic), r)
  <2>1. topic \in Seq(Rows) /\ Len(topic) \in Nat /\ Out(p)[r] \in Nat
    BY <1>1, SinkTypes DEF IInv, TypeOK, Typed
  <2>2. IsFiniteSet(started) /\ IsFiniteSet(C)
    <3>1. started \in SUBSET Jobs /\ 1..Len(topic) \in SUBSET (1..Len(topic))
      OBVIOUS
    <3>. QED
      BY <2>1, <3>1, FlinkJobAssumption, FS_Subset, AmongFinite
  <2>3. /\ IsFiniteSet(started \X C)
        /\ Cardinality(started \X C) = Cardinality(started) * Cardinality(C)
    BY <2>2, FS_Product
  <2>4. E \in SUBSET (started \X C)
    BY DEF Explains, Among
  <2>5. Cardinality(E) <= Cardinality(started \X C)
    BY <2>3, <2>4, FS_Subset
  <2>. DEFINE again == Again(p) * Cardinality(C)
  <2>6. Out(p)[r] <= Cardinality(E) + again /\ Cardinality(E) \in Nat
    BY <1>1, <2>1, ExplainsFinite DEF IInv, Sound
  <2>a. Cardinality(C) \in Nat /\ Cardinality(started) \in Nat /\ Again(p) \in Nat /\ again \in Nat
    BY <1>1, <2>2, FS_CardinalityType, SinkTypes, ProductNat DEF IInv
  <2>7. Cardinality(started \X C) \in Nat
    BY <2>3, FS_CardinalityType
  <2>8. Out(p)[r] <= Cardinality(started \X C) + again
    <3>. HIDE DEF again, E, C, started
    <3>. QED
      BY <2>1, <2>5, <2>6, <2>7, <2>a
  <2>9. Starts = Cardinality(started) /\ Copies(r) = Cardinality(C)
    BY DEF Starts, Copies, CopiesUpTo, Among
  <2>10. (Starts + Again(p)) * Copies(r) = Cardinality(started) * Cardinality(C) + again
    BY <2>9, <2>a
  <2>. QED
    BY <2>3, <2>8, <2>10
<1>z. ASSUME IInv, NEW r \in Rows
      PROVE  Starts \in Nat /\ (Starts + 0) * Copies(r) = Starts * Copies(r)
  BY StartsNat
<1>2. ASSUME IInv, NEW p \in Sinks, NEW r \in Rows \ Wanted(p)
      PROVE  Out(p)[r] = 0
  BY <1>2 DEF IInv, Sound
<1>3. ASSUME IInv, OneJobOnly
      PROVE  DocumentsExplained
  BY <1>1, <1>2, <1>3, <1>z, OneStart DEF DocumentsExplained, Out, Wanted, Again, Sinks, OneJobOnly
<1>. QED
  BY <1>3

LEMMA OpenOneJob == OpenSpec => []OneJobOnly
<1>1. IInv => TypeOK
  BY DEF IInv
<1>. QED
  BY <1>1, OneJobInitially, OneJobInductive, OpenInvariance, PTL DEF OpenSpec

(* No document without a message and a job it came from: an index never    *)
(* holds more than the topic times the jobs ever started, the anomaly      *)
(* topic besides no more than the topic for each attempt its client        *)
(* repeated, the anomaly index and topic hold nothing but late invoices,   *)
(* and without anything adverse one job is all there is.                   *)
THEOREM DocumentsAreExplained == Spec => []DocumentsExplained
<1>1. [Next]_vars => [OpenNext]_vars
  BY DEF Next, OpenNext, Produce
<1>. QED
  BY <1>1, Explanations, OpenInvariance, OpenOneJob, PTL DEF Spec, OpenSpec

----------------------------------------------------------------------------
(* What a job that has caught up has let go of is all there is.            *)
LEMMA NothingHeldBack ==
  ASSUME IInv, NEW j \in Jobs, CaughtUp(j), NEW p \in Sinks, NEW r \in Wanted(p)
  PROVE  Out(p)[r] >= Copies(r)
<1>. DEFINE m == pos[j][p]
            n == Len(topic)
            held == Among(topic, m+1..n, r)
<1>1. r \in Rows
  BY SinkTypes DEF IInv
<1>2. n \in Nat /\ m \in Nat /\ m <= n
  BY DEF IInv, TypeOK, Positions, Sinks
<1>3. Out(p)[r] >= Cardinality(Among(topic, 1..m, r))
  BY <1>1 DEF IInv, Sound, Place, CaughtUp
<1>4. held = {}
  BY DEF CaughtUp, RawBuffer, RiskBuffer, AnomalyBuffer, At, Wanted, Sinks, Among
<1>5. Cardinality(held) = 0
  BY <1>4, FS_EmptySet
<1>6. /\ Cardinality(Among(topic, 1..m, r)) \in Nat
      /\ Cardinality(Among(topic, 1..n, r))
           = Cardinality(Among(topic, 1..m, r)) + Cardinality(held)
  <2>. HIDE DEF m, n
  <2>. QED
    BY <1>2, CopiesAdd
<1>7. Copies(r) = Cardinality(Among(topic, 1..n, r))
  BY DEF Copies, CopiesUpTo, Among
<1>. QED
  BY <1>3, <1>5, <1>6, <1>7

LEMMA CaughtUpStored ==
  ASSUME IInv, NEW j \in Jobs, CaughtUp(j)
  PROVE  Stored
BY NothingHeldBack DEF Stored, Out, Wanted, Sinks

(* All that AllStored asks of the scheduling is that a job that goes on    *)
(* running is through with the topic in the end and stays so: then nothing *)
(* is missing from its targets, whatever other jobs left behind.           *)
THEOREM CatchingUpIsEnough ==
  Spec /\ (\A j \in Jobs : <>[](jobs[j] = "running") => <>[]CaughtUp(j)) => AllStored
<1>1. \A j \in Jobs : IInv /\ CaughtUp(j) => Stored
  BY CaughtUpStored
<1>2. ASSUME NEW j \in Jobs
      PROVE  []IInv /\ <>[]CaughtUp(j) => <>[]Stored
  <2>1. IInv /\ CaughtUp(j) => Stored
    BY <1>1
  <2>. QED
    BY <2>1, PTL
<1>3. []IInv /\ (\A j \in Jobs : <>[](jobs[j] = "running") => <>[]CaughtUp(j)) => AllStored
  BY <1>2 DEF AllStored
<1>. QED
  BY <1>3, Invariance
=============================================================================
