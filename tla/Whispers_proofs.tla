-------------------------- MODULE Whispers_proofs ---------------------------
(***************************************************************************)
(* Proofs about what is measured of the text and who speaks about it: the  *)
(* heat map and its budget, the analyses, the triggers, the voices and the *)
(* bouquets, each for every value of its constants, and at the end about   *)
(* the Desk that composes them.                                            *)
(*                                                                         *)
(* A batch of the heat map holds, from the start, rows that were scored    *)
(* for its scene; what it writes over a longer map leaves the rest of an   *)
(* older one, row by row of one moment.  The lag of the metrics is bounded *)
(* because a request under way is a debounce older for every later one of  *)
(* its paragraph.  A present character is not passed over because whoever  *)
(* spoke since one's own last turn has a later turn.  A bouquet repeats    *)
(* nothing the writer has seen because what is shown is in the history for *)
(* good, and an answer is measured against all of it.                      *)
(***************************************************************************)
EXTENDS Desk, Desk_proofs

-----------------------------------------------------------------------------
(* The places of a list that are kept: the rank of a place among them is   *)
(* an injection, so that each rank up to their number is taken.            *)
LEMMA NthIsThere ==
    ASSUME NEW m \in Nat, NEW K \in SUBSET (1..m), NEW n \in 1..Cardinality(K)
    PROVE  NthOf(K, n) \in K /\ Cardinality({j \in K : j <= NthOf(K, n)}) = n
<1> DEFINE UpTo(i) == {j \in K : j <= i}
           rank == [i \in K |-> Cardinality(UpTo(i))]
           All == 1..Cardinality(K)
<1>1. IsFiniteSet(1..m) /\ IsFiniteSet(K) /\ Cardinality(K) \in Nat
  <2>1. 1 \in Int /\ m \in Int
    OBVIOUS
  <2>2. IsFiniteSet(1..m)
    BY <2>1, FS_Interval
  <2>3. IsFiniteSet(K)
    BY <2>2, FS_Subset
  <2> QED BY <2>2, <2>3, FS_CardinalityType
<1>2. \A i \in K : IsFiniteSet(UpTo(i)) /\ Cardinality(UpTo(i)) \in Nat /\ Cardinality(UpTo(i)) <= Cardinality(K)
  BY <1>1, FS_Subset, FS_CardinalityType
<1>3. \A i \in K : Cardinality(UpTo(i)) # 0
  BY <1>2, FS_EmptySet
<1>4. ASSUME NEW i \in K, NEW j \in K, i < j PROVE Cardinality(UpTo(i)) < Cardinality(UpTo(j))
  <2>0. K \subseteq Nat
    OBVIOUS
  <2>1. UpTo(i) \subseteq (UpTo(j) \ {j}) /\ j \in UpTo(j)
    <3>1. ASSUME NEW x \in UpTo(i) PROVE x \in UpTo(j) /\ x # j
      <4>1. x \in K /\ x <= i /\ x \in Nat /\ i \in Nat /\ j \in Nat
        BY <2>0
      <4>2. x <= j /\ x # j
        BY <1>4, <4>1
      <4> QED BY <4>1, <4>2
    <3>2. j \in Nat /\ j <= j
      BY <2>0
    <3>3. j \in UpTo(j)
      BY <3>2
    <3> HIDE DEF UpTo
    <3> QED BY <3>1, <3>3
  <2>2. IsFiniteSet(UpTo(j) \ {j}) /\ Cardinality(UpTo(j) \ {j}) = Cardinality(UpTo(j)) - 1
    <3>1. IsFiniteSet(UpTo(j))
      BY <1>2
    <3> HIDE DEF UpTo
    <3> QED BY <2>1, <3>1, FS_RemoveElement
  <2>3. Cardinality(UpTo(i)) <= Cardinality(UpTo(j) \ {j})
    BY <2>1, <2>2, FS_Subset
  <2>4. Cardinality(UpTo(i)) \in Nat /\ Cardinality(UpTo(j)) \in Nat
    BY <1>2
  <2> QED BY <2>2, <2>3, <2>4
<1> HIDE DEF UpTo
<1>5. rank \in [K -> All]
  BY <1>1, <1>2, <1>3
<1>6. rank \in Injection(K, All)
  <2>1. \A i, j \in K : rank[i] = rank[j] => i = j
    BY <1>2, <1>4
  <2> QED BY <1>5, <2>1 DEF Injection, IsInjective
<1>7. IsFiniteSet(All) /\ Cardinality(All) = Cardinality(K)
  BY <1>1, FS_Interval
<1>8. rank \in Surjection(K, All)
  BY <1>6, <1>7, FS_Injection
<1>9. \E i \in K : Cardinality(UpTo(i)) = n
  BY <1>8 DEF Surjection
<1> QED BY <1>9 DEF UpTo, NthOf

LEMMA PickedIsASeq ==
    ASSUME NEW S, NEW s \in Seq(S), NEW K \in SUBSET (1..Len(s))
    PROVE  /\ Picked(s, K) \in Seq(S) /\ Len(Picked(s, K)) = Cardinality(K)
           /\ Cardinality(K) \in Nat /\ Cardinality(K) <= Len(s)
           /\ \A n \in 1..Len(Picked(s, K)) : \E i \in K : Picked(s, K)[n] = s[i]
<1>1. Len(s) \in Nat /\ \A i \in 1..Len(s) : s[i] \in S
  OBVIOUS
<1>2. Cardinality(K) \in Nat /\ Cardinality(K) <= Len(s)
  <2>1. IsFiniteSet(1..Len(s)) /\ Cardinality(1..Len(s)) = Len(s)
    <3>1. 1 \in Int /\ Len(s) \in Int
      BY <1>1
    <3>2. Cardinality(1..Len(s)) = IF 1 > Len(s) THEN 0 ELSE Len(s) - 1 + 1
      BY <3>1, FS_Interval
    <3> QED BY <1>1, <3>1, <3>2, FS_Interval
  <2> QED BY <2>1, FS_Subset, FS_CardinalityType
<1>3. \A n \in 1..Cardinality(K) : NthOf(K, n) \in K
  BY <1>1, NthIsThere
<1>4. \A n \in 1..Cardinality(K) : s[NthOf(K, n)] \in S
  BY <1>1, <1>3
<1> HIDE DEF Picked
<1>5. /\ Picked(s, K) \in Seq(S) /\ Len(Picked(s, K)) = Cardinality(K)
      /\ \A n \in 1..Cardinality(K) : Picked(s, K)[n] = s[NthOf(K, n)]
  BY <1>2, <1>4 DEF Picked
<1> QED BY <1>2, <1>3, <1>5

(* Numbers in a list have a greatest one. *)
LEMMA GreatestOf ==
    ASSUME NEW k \in Nat \ {0}, NEW hits, \A i \in 1..k : hits[i] \in Nat
    PROVE  \E i \in 1..k : \A j \in 1..k : hits[j] <= hits[i]
<1> DEFINE Has(n) == \E i \in 1..n : \A j \in 1..n : hits[j] <= hits[i]
           T == {n \in 1..k : ~Has(n)}
<1> SUFFICES ASSUME ~Has(k) PROVE FALSE
  OBVIOUS
<1>1. PICK n \in T : \A y \in T : n <= y
  <2>1. T \in SUBSET Nat /\ k \in T
    OBVIOUS
  <2> HIDE DEF T
  <2> QED BY <2>1, LeastOf
<1>2. n \in 1..k /\ n \in Nat /\ ~Has(n)
  OBVIOUS
<1>3. CASE n = 1
  <2>1. hits[1] \in Nat
    BY <1>2, <1>3
  <2> QED BY <1>2, <1>3, <2>1
<1>4. CASE n # 1
  <2>1. n - 1 \in 1..k /\ n - 1 \in Nat /\ ~(n <= n - 1)
    BY <1>2, <1>4
  <2>2. Has(n - 1)
    BY <1>1, <2>1
  <2>3. PICK i \in 1..(n - 1) : \A j \in 1..(n - 1) : hits[j] <= hits[i]
    BY <2>2
  <2>4. \A j \in 1..n : j \in 1..(n - 1) \/ j = n
    BY <1>2
  <2>5. i \in 1..n /\ n \in 1..n /\ hits[i] \in Nat /\ hits[n] \in Nat /\ \A j \in 1..n : hits[j] \in Nat
    BY <1>2, <2>1, <2>3
  <2>6. CASE hits[n] <= hits[i]
    BY <1>2, <2>3, <2>4, <2>5, <2>6
  <2>7. CASE hits[i] <= hits[n]
    <3>1. \A j \in 1..n : hits[j] <= hits[n]
      <4> TAKE j \in 1..n
      <4>1. CASE j = n
        BY <2>5, <4>1
      <4>2. CASE j # n
        <5>1. j \in 1..(n - 1) /\ hits[j] \in Nat
          BY <2>4, <2>5, <4>2
        <5>2. hits[j] <= hits[i]
          BY <2>3, <5>1
        <5> QED BY <2>5, <2>7, <5>1, <5>2
      <4> QED BY <4>1, <4>2
    <3> QED BY <1>2, <2>5, <3>1
  <2> QED BY <2>5, <2>6, <2>7
<1> QED BY <1>3, <1>4

-----------------------------------------------------------------------------
(* The heat map.                                                           *)
Cell == [text : Passage \ {Blank}, score : Nat \X (Nat \ {0})]
Wordy == Seq(Passage \ {Blank})
Tracked == [Metric -> Seq(Cell)]

RowsAreSound ==
    /\ scored \in 0..MaxStates
    /\ \A t \in task : /\ t.no \in 1..MaxStates /\ t.scene \in Manuscript
                       /\ t.body \in Body \cap Wordy /\ t.present \in SUBSET Person
                       /\ Batches(t.body, t.present) \in sent[t.scene]
    /\ task \subseteq HeatTask
    /\ heat \in [Manuscript -> Tracked]
    /\ sent \in [Manuscript -> SUBSET Tracked]
    /\ unwritten \subseteq Manuscript
    /\ HeatIsOfItsScene /\ MetricsAgree

TogglesAreSound ==
    /\ settings \in [Toggle -> {"on", "off", "default"}]
    /\ wanted \in [Toggle -> {"on", "off", "default"}]
    /\ overlapped \in BOOLEAN
    /\ \A t \in toggling : /\ t.kind \in Toggle /\ t.to \in {"on", "off"}
                           /\ t.map \in [Toggle -> {"on", "off", "default"}]
    /\ ~overlapped => /\ \A t, u \in toggling : t = u
                      /\ \A t \in toggling : wanted = Inserted(t)
                      /\ toggling = {} => settings = wanted

BudgetIsSound ==
    /\ used \in [input : 0..InputCap, output : 0..OutputCap]
    /\ granted = used

HeatInv == RowsAreSound /\ TogglesAreSound /\ BudgetIsSound

(* What is scored for a body without blanks.                               *)
LEMMA BatchesAreTracked ==
    ASSUME NEW body \in Wordy, NEW present \in SUBSET Person
    PROVE  /\ Batches(body, present) \in Tracked
           /\ \A m \in Metric : /\ Len(Batches(body, present)[m]) = Len(body)
                                /\ \A i \in 1..Len(body) : Batches(body, present)[m][i].text = body[i]
<1> DEFINE k == Len(body)
<1>0. /\ k \in Nat /\ DOMAIN body = 1..k /\ \A i \in 1..k : body[i] \in Passage \ {Blank}
  BY DEF Wordy
<1> SUFFICES ASSUME NEW m \in Metric
             PROVE  /\ Batches(body, present)[m] \in Seq(Cell)
                    /\ Len(Batches(body, present)[m]) = k
                    /\ \A i \in 1..k : Batches(body, present)[m][i].text = body[i]
  BY DEF Batches, Tracked
<1> DEFINE hits == [i \in DOMAIN body |-> Cardinality(Mentions(m, body[i], present))]
           track == Scores(hits)
<1>1. \A i \in 1..k : hits[i] \in Nat
  <2> SUFFICES ASSUME NEW i \in 1..k PROVE Cardinality(Mentions(m, body[i], present)) \in Nat
    BY <1>0
  <2>1. body[i] \in Passage
    BY <1>0
  <2>2. IsFiniteSet(Mentions(m, body[i], present))
    <3>1. CASE m = "presence"
      <4>1. CastIn[body[i]] \cap present \in SUBSET Person
        BY <2>1, HeatAssumption
      <4>2. IsFiniteSet(Person)
        BY HeatAssumption
      <4> QED BY <3>1, <4>1, <4>2, FS_Subset DEF Mentions
    <3>2. CASE m # "presence"
      BY <2>1, <3>2, HeatAssumption DEF Mentions
    <3> QED BY <3>1, <3>2
  <2> QED BY <2>2, FS_CardinalityType
<1>2. DOMAIN hits = 1..k
  BY <1>0
<1> HIDE DEF hits
<1>3. DOMAIN track = 1..k /\ \A i \in 1..k : track[i] \in Nat \X (Nat \ {0})
  <2>1. CASE hits = <<>> \/ MostOf(hits) = 0
    BY <1>2, <2>1 DEF Scores
  <2>2. CASE ~(hits = <<>> \/ MostOf(hits) = 0)
    <3>0. track = [i \in DOMAIN hits |-> <<hits[i], MostOf(hits)>>]
      BY <2>2 DEF Scores
    <3>1. k \in Nat \ {0}
      <4>1. CASE k = 0
        <5>1. hits \in Seq(Nat) /\ Len(hits) = 0
          BY <4>1, <1>2 DEF hits
        <5> QED BY <5>1, <2>2
      <4> QED BY <1>0, <4>1
    <3>2. PICK i \in 1..k : \A j \in 1..k : hits[j] <= hits[i]
      BY <1>1, <3>1, GreatestOf
    <3>3. MostOf(hits) \in {hits[j] : j \in DOMAIN hits}
      BY <1>2, <3>2 DEF MostOf
    <3>4. MostOf(hits) \in Nat \ {0}
      BY <1>1, <1>2, <2>2, <3>3
    <3> QED BY <1>1, <1>2, <3>0, <3>4
  <2> QED BY <2>1, <2>2
<1> HIDE DEF track
<1>4. Batches(body, present)[m] = HeatRow(body, track)
  BY DEF Batches, Track, track, hits
<1>5. \A i \in 1..k : [text |-> body[i], score |-> track[i]] \in Cell
  BY <1>0, <1>3 DEF Cell
<1>6. HeatRow(body, track) = [i \in 1..k |-> [text |-> body[i], score |-> track[i]]]
  BY <1>0 DEF HeatRow
<1> QED BY <1>0, <1>4, <1>5, <1>6

(* The rows of a track under a batch: the batch, and what stays behind it.  *)
LEMMA WrittenOver ==
    ASSUME NEW rows \in Seq(Cell), NEW batch \in Seq(Cell)
    PROVE  /\ Written(rows, batch) \in Seq(Cell)
           /\ Len(Written(rows, batch)) = IF Len(rows) > Len(batch) THEN Len(rows) ELSE Len(batch)
           /\ \A i \in 1..Len(Written(rows, batch)) :
                 /\ i <= Len(batch) => Written(rows, batch)[i] = batch[i]
                 /\ i > Len(batch) => i \in 1..Len(rows) /\ Written(rows, batch)[i] = rows[i]
<1> DEFINE r == SubSeq(rows, Len(batch) + 1, Len(rows))
<1>1. Len(rows) \in Nat /\ Len(batch) \in Nat /\ \A i \in 1..Len(rows) : rows[i] \in Cell
  OBVIOUS
<1>2. /\ r \in Seq(Cell)
      /\ Len(r) = IF Len(batch) + 1 <= Len(rows) THEN Len(rows) - Len(batch) ELSE 0
      /\ \A i \in 1..(Len(rows) - Len(batch)) : r[i] = rows[Len(batch) + i]
  <2>1. \A i \in (Len(batch) + 1)..Len(rows) : rows[i] \in Cell
    BY <1>1
  <2> QED BY <1>1, <2>1, SubSeqProperties
<1> HIDE DEF r
<1>3. Written(rows, batch) = batch \o r
  BY DEF Written, r
<1>4. /\ batch \o r \in Seq(Cell) /\ Len(batch \o r) = Len(batch) + Len(r)
      /\ \A i \in 1..(Len(batch) + Len(r)) :
            (batch \o r)[i] = IF i <= Len(batch) THEN batch[i] ELSE r[i - Len(batch)]
  BY <1>2, ConcatProperties
<1>5. Len(batch) + Len(r) = IF Len(rows) > Len(batch) THEN Len(rows) ELSE Len(batch)
  BY <1>1, <1>2
<1>6. ASSUME NEW i \in 1..(Len(batch) + Len(r)), i > Len(batch)
      PROVE  i \in 1..Len(rows) /\ r[i - Len(batch)] = rows[i]
  <2>1. i - Len(batch) \in 1..(Len(rows) - Len(batch)) /\ i \in 1..Len(rows)
    BY <1>1, <1>2, <1>6
  <2>2. Len(batch) + (i - Len(batch)) = i
    BY <1>1, <1>6
  <2> QED BY <1>2, <2>1, <2>2
<1>7. \A i \in 1..(Len(batch) + Len(r)) :
         (i <= Len(batch) => (batch \o r)[i] = batch[i])
         /\ (i > Len(batch) => i \in 1..Len(rows) /\ (batch \o r)[i] = rows[i])
  BY <1>1, <1>2, <1>4, <1>6
<1> QED BY <1>3, <1>4, <1>5, <1>7

LEMMA PartitionIsWordy ==
    ASSUME NEW text \in Body
    PROVE  Partition(text) \in Body \cap Wordy
<1> DEFINE K == {i \in DOMAIN text : text[i] # Blank}
<1>1. PICK n \in 0..TooManyPassages : text \in [1..n -> Passage]
  BY DEF Body
<1>2. n \in Nat /\ text \in Seq(Passage) /\ Len(text) = n /\ DOMAIN text = 1..n
  BY <1>1 DEF TooManyPassages
<1>3. K \in SUBSET (1..Len(text)) /\ \A i \in K : text[i] \in Passage \ {Blank}
  BY <1>1, <1>2
<1> HIDE DEF K
<1>4. /\ Picked(text, K) \in Seq(Passage) /\ Len(Picked(text, K)) <= n
      /\ Len(Picked(text, K)) \in Nat
      /\ \A j \in 1..Len(Picked(text, K)) : \E i \in K : Picked(text, K)[j] = text[i]
  BY <1>2, <1>3, PickedIsASeq
<1> DEFINE p == Picked(text, K)
<1> HIDE DEF p
<1>5. p \in Seq(Passage) /\ Len(p) <= n /\ Len(p) \in Nat /\ \A j \in 1..Len(p) : p[j] \in Passage \ {Blank}
  BY <1>3, <1>4 DEF p
<1>6. p \in [1..Len(p) -> Passage] /\ p \in [1..Len(p) -> Passage \ {Blank}]
  BY <1>5
<1>7. Len(p) \in 0..TooManyPassages
  <2>1. n <= TooManyPassages /\ TooManyPassages \in Nat
    BY <1>2 DEF TooManyPassages
  <2> QED BY <1>2, <1>5, <2>1
<1>8. p \in Body
  BY <1>6, <1>7 DEF Body
<1>9. p \in Wordy
  BY <1>5, <1>6 DEF Wordy
<1> QED BY <1>8, <1>9 DEF Partition, p, K

-----------------------------------------------------------------------------
LEMMA HeatStarts == HeatInit => HeatInv
<1> SUFFICES ASSUME HeatInit PROVE HeatInv
  OBVIOUS
<1>1. heat \in [Manuscript -> Tracked]
  BY DEF HeatInit, Tracked
<1>2. MetricsAgree
  BY DEF HeatInit, MetricsAgree, Metric
<1>3. HeatIsOfItsScene
  BY DEF HeatInit, HeatIsOfItsScene
<1>4. RowsAreSound
  BY <1>1, <1>2, <1>3, HeatAssumption DEF HeatInit, RowsAreSound
<1>5. TogglesAreSound
  BY DEF HeatInit, TogglesAreSound, DefaultMap
<1>6. BudgetIsSound
  BY HeatAssumption DEF HeatInit, BudgetIsSound
<1> QED BY <1>4, <1>5, <1>6 DEF HeatInv

(* A new SceneState is scored: what is sent grows.                          *)
LEMMA Recomputing ==
    ASSUME RowsAreSound, NEW s \in Manuscript, NEW text \in Body, NEW present \in SUBSET Person,
           Recompute(s, text, present)
    PROVE  RowsAreSound'
<1> DEFINE body == Partition(text)
           new == [no |-> scored + 1, scene |-> s, body |-> body, present |-> present]
<1>1. body \in Body \cap Wordy
  BY PartitionIsWordy
<1> HIDE DEF body
<1>2. /\ scored < MaxStates /\ scored' = scored + 1 /\ heat' = heat /\ unwritten' = unwritten
      /\ IF body = <<>> THEN task' = task /\ sent' = sent
         ELSE /\ task' = task \cup {new}
              /\ sent' = [sent EXCEPT ![s] = @ \cup {Batches(body, present)}]
  BY DEF Recompute, body
<1>3. scored' \in 0..MaxStates /\ scored + 1 \in 1..MaxStates
  BY <1>2, HeatAssumption DEF RowsAreSound
<1>4. Batches(body, present) \in Tracked
  BY <1>1, BatchesAreTracked
<1>5. sent' \in [Manuscript -> SUBSET Tracked] /\ \A z \in Manuscript : sent[z] \subseteq sent'[z]
  BY <1>2, <1>4 DEF RowsAreSound
<1>6. /\ new.no \in 1..MaxStates /\ new.scene \in Manuscript
      /\ new.body \in Body \cap Wordy /\ new.present \in SUBSET Person
      /\ new \in HeatTask
  BY <1>1, <1>3 DEF HeatTask
<1>7. body # <<>> => Batches(new.body, new.present) \in sent'[new.scene]
  BY <1>2 DEF RowsAreSound
<1>8. \A t \in task' : t \in task \/ (body # <<>> /\ t = new)
  BY <1>2
<1> HIDE DEF new
<1>9. \A t \in task' : /\ t.no \in 1..MaxStates /\ t.scene \in Manuscript
                       /\ t.body \in Body \cap Wordy /\ t.present \in SUBSET Person
                       /\ Batches(t.body, t.present) \in sent'[t.scene]
                       /\ t \in HeatTask
  <2> TAKE t \in task'
  <2>1. CASE t \in task
    BY <1>5, <2>1 DEF RowsAreSound
  <2>2. CASE body # <<>> /\ t = new
    BY <1>6, <1>7, <2>2
  <2> QED BY <1>8, <2>1, <2>2
<1>10. HeatIsOfItsScene'
  BY <1>2, <1>5 DEF RowsAreSound, HeatIsOfItsScene
<1>11. MetricsAgree'
  BY <1>2 DEF RowsAreSound, MetricsAgree
<1> QED BY <1>2, <1>3, <1>5, <1>9, <1>10, <1>11 DEF RowsAreSound

(* A task writes some of its batches.                                       *)
LEMMA Landing ==
    ASSUME RowsAreSound, NEW t \in task, NEW landed \in SUBSET Metric,
           heat' = HeatAfter(t, landed), sent' = sent,
           unwritten' = unwritten \/ unwritten' = unwritten \cup {t.scene},
           landed = Metric \/ t.scene \in unwritten'
    PROVE  /\ heat' \in [Manuscript -> Tracked] /\ unwritten' \subseteq Manuscript
           /\ HeatIsOfItsScene' /\ MetricsAgree'
<1> DEFINE b == Batches(t.body, t.present)
           New(m) == IF m \in landed THEN Written(heat[t.scene][m], b[m]) ELSE heat[t.scene][m]
<1>1. /\ t.scene \in Manuscript /\ t.body \in Wordy /\ t.present \in SUBSET Person
      /\ b \in sent[t.scene]
  BY DEF RowsAreSound
<1>2. b \in Tracked /\ \A m \in Metric : Len(b[m]) = Len(t.body) /\ \A i \in 1..Len(t.body) : b[m][i].text = t.body[i]
  BY <1>1, BatchesAreTracked
<1>3. heat' = [heat EXCEPT ![t.scene] = [m \in Metric |-> New(m)]]
  BY DEF HeatAfter, Target, RowsAreSound
<1> HIDE DEF b
<1>4. \A s \in Manuscript, m \in Metric : heat[s][m] \in Seq(Cell)
  BY DEF RowsAreSound, Tracked
<1>5. \A m \in Metric : b[m] \in Seq(Cell)
  BY <1>2 DEF Tracked
<1>6. ASSUME NEW m \in Metric, m \in landed
      PROVE  /\ New(m) \in Seq(Cell) /\ DOMAIN New(m) = 1..Len(New(m)) /\ Len(New(m)) \in Nat
             /\ Len(New(m)) = IF Len(heat[t.scene][m]) > Len(b[m]) THEN Len(heat[t.scene][m]) ELSE Len(b[m])
             /\ \A i \in 1..Len(New(m)) : i <= Len(b[m]) => New(m)[i] = b[m][i]
             /\ \A i \in 1..Len(New(m)) : i > Len(b[m]) =>
                   i \in 1..Len(heat[t.scene][m]) /\ New(m)[i] = heat[t.scene][m][i]
  <2> DEFINE rows == heat[t.scene][m]
             batch == b[m]
             w == Written(rows, batch)
  <2>1. rows \in Seq(Cell) /\ batch \in Seq(Cell)
    BY <1>1, <1>4, <1>5
  <2> HIDE DEF rows, batch
  <2>2. /\ w \in Seq(Cell)
        /\ Len(w) = IF Len(rows) > Len(batch) THEN Len(rows) ELSE Len(batch)
        /\ \A i \in 1..Len(w) :
              /\ i <= Len(batch) => w[i] = batch[i]
              /\ i > Len(batch) => i \in 1..Len(rows) /\ w[i] = rows[i]
    BY <2>1, WrittenOver
  <2> HIDE DEF w
  <2>3. New(m) = w
    BY <1>6 DEF w, rows, batch
  <2>4. DOMAIN w = 1..Len(w) /\ Len(w) \in Nat
    BY <2>2
  <2> HIDE DEF New
  <2> QED BY <2>2, <2>3, <2>4 DEF rows, batch
<1>7. \A m \in Metric : New(m) \in Seq(Cell)
  BY <1>1, <1>4, <1>6
<1>8. /\ \A m \in Metric : heat'[t.scene][m] = New(m)
      /\ \A s \in Manuscript \ {t.scene} : heat'[s] = heat[s]
  BY <1>1, <1>3 DEF RowsAreSound
<1>9. heat' \in [Manuscript -> Tracked]
  <2>1. [m \in Metric |-> New(m)] \in Tracked
    BY <1>7 DEF Tracked
  <2> QED BY <1>3, <2>1 DEF RowsAreSound
<1>10. unwritten' \subseteq Manuscript
  BY <1>1 DEF RowsAreSound
<1> HIDE DEF New
<1>11. HeatIsOfItsScene'
  <2> SUFFICES ASSUME NEW s \in Manuscript, NEW m \in Metric, NEW i \in DOMAIN heat'[s][m]
               PROVE  \E c \in sent[s] : i \in DOMAIN c[m] /\ c[m][i] = heat'[s][m][i]
    BY DEF HeatIsOfItsScene
  <2>1. CASE s # t.scene \/ m \notin landed
    <3>1. heat'[s][m] = heat[s][m]
      BY <2>1, <1>8 DEF New
    <3> QED BY <3>1 DEF RowsAreSound, HeatIsOfItsScene
  <2>2. CASE s = t.scene /\ m \in landed
    <3>1. heat'[s][m] = New(m) /\ i \in 1..Len(New(m))
      BY <2>2, <1>6, <1>8
    <3>0. DOMAIN b[m] = 1..Len(b[m]) /\ Len(b[m]) \in Nat
      BY <1>5
    <3>2. CASE i <= Len(b[m])
      <4>1. i \in DOMAIN b[m]
        BY <3>0, <3>1, <3>2
      <4>2. b[m][i] = heat'[s][m][i]
        BY <2>2, <3>1, <3>2, <1>6
      <4> QED BY <4>1, <4>2, <1>1, <2>2
    <3>3. CASE i > Len(b[m])
      <4>1. i \in 1..Len(heat[s][m]) /\ heat[s][m][i] = heat'[s][m][i]
        BY <2>2, <3>1, <3>3, <1>6
      <4>2. i \in DOMAIN heat[s][m]
        BY <4>1, <1>4
      <4> QED BY <4>1, <4>2 DEF RowsAreSound, HeatIsOfItsScene
    <3>4. i \in Nat /\ Len(b[m]) \in Nat
      BY <3>0, <3>1
    <3> QED BY <3>2, <3>3, <3>4
  <2> QED BY <2>1, <2>2
<1>12. MetricsAgree'
  <2> SUFFICES ASSUME NEW s \in Manuscript \ unwritten'
               PROVE  /\ Len(heat'[s]["presence"]) = Len(heat'[s]["world_refs"])
                      /\ \A i \in DOMAIN heat'[s]["presence"] :
                            heat'[s]["presence"][i].text = heat'[s]["world_refs"][i].text
    BY DEF MetricsAgree
  <2>1. s \in Manuscript \ unwritten
    OBVIOUS
  <2>2. /\ Len(heat[s]["presence"]) = Len(heat[s]["world_refs"])
        /\ \A i \in DOMAIN heat[s]["presence"] :
              heat[s]["presence"][i].text = heat[s]["world_refs"][i].text
    BY <2>1 DEF RowsAreSound, MetricsAgree
  <2>3. CASE s # t.scene
    BY <2>2, <2>3, <1>8
  <2>4. CASE s = t.scene
    <3> DEFINE p == "presence"
               w == "world_refs"
    <3>1. landed = Metric /\ p \in landed /\ w \in landed /\ p \in Metric /\ w \in Metric
      BY <2>4 DEF Metric
    <3> HIDE DEF p, w
    <3>a. Len(heat[s][p]) = Len(heat[s][w]) /\ \A i \in DOMAIN heat[s][p] : heat[s][p][i].text = heat[s][w][i].text
      BY <2>2 DEF p, w
    <3>2. heat'[s][p] = New(p) /\ heat'[s][w] = New(w)
      BY <3>1, <2>4, <1>8
    <3>3. Len(b[p]) = Len(b[w]) /\ Len(b[p]) = Len(t.body) /\ Len(t.body) \in Nat
      BY <1>1, <1>2, <3>1 DEF Wordy
    <3>4. Len(New(p)) = Len(New(w)) /\ Len(New(p)) \in Nat
      BY <3>1, <3>3, <3>a, <1>6, <2>4
    <3>5. ASSUME NEW i \in 1..Len(New(p)) PROVE New(p)[i].text = New(w)[i].text
      <4>1. CASE i <= Len(t.body)
        <5>1. i \in 1..Len(t.body) /\ i <= Len(b[p]) /\ i <= Len(b[w]) /\ i \in 1..Len(New(w))
          BY <3>3, <3>4, <4>1
        <5>2. New(p)[i] = b[p][i] /\ New(w)[i] = b[w][i]
          BY <3>1, <5>1, <1>6
        <5> QED BY <5>1, <5>2, <1>2, <3>1
      <4>2. CASE i > Len(t.body)
        <5>0. i > Len(b[p]) /\ i > Len(b[w]) /\ i \in 1..Len(New(w))
          BY <3>3, <3>4, <4>2
        <5>1. /\ New(p)[i] = heat[s][p][i] /\ New(w)[i] = heat[s][w][i]
              /\ i \in 1..Len(heat[s][p])
          BY <3>1, <5>0, <1>6, <2>4
        <5>2. i \in DOMAIN heat[s][p]
          BY <5>1, <1>4, <3>1
        <5> QED BY <5>1, <5>2, <3>a
      <4> QED BY <3>3, <3>4, <4>1, <4>2
    <3>6. DOMAIN New(p) = 1..Len(New(p))
      BY <1>7, <3>1
    <3> QED BY <3>2, <3>4, <3>5, <3>6 DEF p, w
  <2> QED BY <2>3, <2>4
<1> QED BY <1>9, <1>10, <1>11, <1>12

LEMMA Writing ==
    ASSUME RowsAreSound, NEW t \in task,
           WriteScores(t) \/ \E landed \in SUBSET Metric : WriteSomeScores(t, landed)
    PROVE  RowsAreSound'
<1>1. task' = task \ {t} /\ scored' = scored /\ sent' = sent
  BY DEF WriteScores, WriteSomeScores
<1>2. PICK landed \in SUBSET Metric :
          /\ heat' = HeatAfter(t, landed)
          /\ unwritten' = unwritten \/ unwritten' = unwritten \cup {t.scene}
          /\ landed = Metric \/ t.scene \in unwritten'
  BY DEF WriteScores, WriteSomeScores
<1>3. /\ heat' \in [Manuscript -> Tracked] /\ unwritten' \subseteq Manuscript
      /\ HeatIsOfItsScene' /\ MetricsAgree'
  BY <1>1, <1>2, Landing
<1> QED BY <1>1, <1>3 DEF RowsAreSound

(* Toggles, one at a time or not.                                           *)
LEMMA LegibleMaps ==
    TogglesAreSound => /\ \A map \in Legible : map \in [Toggle -> {"on", "off", "default"}]
                       /\ toggling = {} => Legible = {settings}
  BY DEF TogglesAreSound, Legible, DefaultMap

LEMMA Toggling ==
    ASSUME TogglesAreSound,
           \/ \E kind \in Toggle, to \in {"on", "off"} : ReadSettings(kind, to)
           \/ \E t \in toggling : WriteSettings(t) \/ WriteSettingsFails(t)
    PROVE  TogglesAreSound'
<1> DEFINE Maps == [Toggle -> {"on", "off", "default"}]
<1>1. ASSUME NEW kind \in Toggle, NEW to \in {"on", "off"}, ReadSettings(kind, to)
      PROVE  TogglesAreSound'
  <2>1. PICK map \in Legible : toggling' = toggling \cup {[kind |-> kind, to |-> to, map |-> map]}
    BY <1>1 DEF ReadSettings
  <2> DEFINE new == [kind |-> kind, to |-> to, map |-> map]
  <2>2. map \in Maps
    BY LegibleMaps
  <2>3. /\ overlapped' = (overlapped \/ toggling # {}) /\ settings' = settings
        /\ wanted' = [wanted EXCEPT ![kind] = to]
    BY <1>1 DEF ReadSettings
  <2>4. new.kind \in Toggle /\ new.to \in {"on", "off"} /\ new.map \in Maps
    BY <2>2
  <2>5. wanted' \in Maps
    BY <2>3 DEF TogglesAreSound
  <2>6. overlapped' \in BOOLEAN
    BY <2>3
  <2>7. ASSUME ~overlapped' PROVE toggling' = {new} /\ wanted' = Inserted(new)'
    <3>1. toggling = {} /\ ~overlapped
      BY <2>3, <2>7 DEF TogglesAreSound
    <3>2. settings = wanted /\ map = settings
      BY <3>1, LegibleMaps DEF TogglesAreSound
    <3> QED BY <2>1, <2>3, <3>1, <3>2 DEF Inserted
  <2> HIDE DEF new
  <2>8. toggling' = toggling \cup {new}
    BY <2>1 DEF new
  <2>9. ~overlapped' => /\ \A t, u \in toggling' : t = u
                        /\ \A t \in toggling' : wanted' = Inserted(t)'
                        /\ toggling' # {}
    BY <2>7
  <2>10. \A t \in toggling' : t.kind \in Toggle /\ t.to \in {"on", "off"} /\ t.map \in Maps
    BY <2>4, <2>8 DEF TogglesAreSound
  <2> QED BY <2>3, <2>5, <2>6, <2>9, <2>10 DEF TogglesAreSound
<1>2. ASSUME NEW t \in toggling, WriteSettings(t)
      PROVE  TogglesAreSound'
  <2>1. /\ settings' = Inserted(t) /\ toggling' = toggling \ {t}
        /\ wanted' = wanted /\ overlapped' = overlapped
    BY <1>2 DEF WriteSettings
  <2>2. Inserted(t) \in Maps
    BY DEF TogglesAreSound, Inserted
  <2>3. ~overlapped => toggling' = {} /\ settings' = wanted'
    BY <2>1 DEF TogglesAreSound
  <2>4. \A u \in toggling' : Inserted(u)' = Inserted(u)
    BY DEF Inserted
  <2> QED BY <2>1, <2>2, <2>3, <2>4 DEF TogglesAreSound
<1>3. ASSUME NEW t \in toggling, WriteSettingsFails(t)
      PROVE  TogglesAreSound'
  <2>1. /\ settings' \in Maps /\ wanted' = settings' /\ overlapped' = overlapped
        /\ toggling' = toggling \ {t}
    BY <1>3 DEF WriteSettingsFails, TogglesAreSound, DefaultMap
  <2>2. ~overlapped => toggling' = {}
    BY <2>1 DEF TogglesAreSound
  <2> QED BY <2>1, <2>2 DEF TogglesAreSound
<1> QED BY <1>1, <1>2, <1>3

(* What is granted fits, and nothing saturates on the way.                  *)
LEMMA Charging ==
    ASSUME BudgetIsSound, NEW c \in ChargeOf, Charge(c[1], c[2])
    PROVE  BudgetIsSound'
<1>1. c[1] \in 1..TopToken /\ c[2] \in 1..TopToken
  BY HeatAssumption
<1>2. /\ TopToken \in Nat /\ InputCap \in Nat /\ OutputCap \in Nat
      /\ InputCap < TopToken /\ OutputCap < TopToken
  BY HeatAssumption
<1>3. used.input \in 0..InputCap /\ used.output \in 0..OutputCap /\ granted = used
  BY DEF BudgetIsSound
<1>4. /\ SaturatingAdd(used.input, c[1]) <= InputCap
      /\ SaturatingAdd(used.output, c[2]) <= OutputCap
  BY DEF Charge, Fits
<1>5. SaturatingAdd(used.input, c[1]) = used.input + c[1]
  BY <1>1, <1>2, <1>3, <1>4 DEF SaturatingAdd
<1>6. SaturatingAdd(used.output, c[2]) = used.output + c[2]
  BY <1>1, <1>2, <1>3, <1>4 DEF SaturatingAdd
<1>7. used' = granted'
  BY <1>3, <1>5, <1>6 DEF Charge
<1>8. used.input + c[1] \in 0..InputCap /\ used.output + c[2] \in 0..OutputCap
  BY <1>1, <1>2, <1>3, <1>4, <1>5, <1>6
<1>9. used' \in [input : 0..InputCap, output : 0..OutputCap]
  BY <1>5, <1>6, <1>8 DEF Charge
<1> QED BY <1>7, <1>9 DEF BudgetIsSound

LEMMA Untouched ==
    /\ RowsAreSound /\ UNCHANGED rowsOfHeat => RowsAreSound'
    /\ TogglesAreSound /\ UNCHANGED toggles => TogglesAreSound'
    /\ BudgetIsSound /\ UNCHANGED budget => BudgetIsSound'
<1>1. ASSUME RowsAreSound, UNCHANGED rowsOfHeat PROVE RowsAreSound'
  BY <1>1 DEF RowsAreSound, rowsOfHeat, HeatIsOfItsScene, MetricsAgree
<1>2. ASSUME TogglesAreSound, UNCHANGED toggles PROVE TogglesAreSound'
  BY <1>2 DEF TogglesAreSound, toggles, Inserted
<1>3. ASSUME BudgetIsSound, UNCHANGED budget PROVE BudgetIsSound'
  BY <1>3 DEF BudgetIsSound, budget
<1> QED BY <1>1, <1>2, <1>3

LEMMA HeatCrashes == ASSUME HeatInv, HeatCrash PROVE HeatInv'
<1>1. RowsAreSound'
  BY DEF HeatInv, HeatCrash, RowsAreSound, HeatIsOfItsScene, MetricsAgree
<1>2. settings' \in [Toggle -> {"on", "off", "default"}]
  BY LegibleMaps DEF HeatInv, HeatCrash
<1>3. TogglesAreSound'
  BY <1>2 DEF HeatCrash, TogglesAreSound
<1>4. BudgetIsSound'
  BY HeatAssumption DEF HeatCrash, BudgetIsSound
<1> QED BY <1>1, <1>3, <1>4 DEF HeatInv

LEMMA HeatStep == HeatInv /\ [HeatNext]_heatVars => HeatInv'
<1> SUFFICES ASSUME HeatInv, [HeatNext]_heatVars PROVE HeatInv'
  OBVIOUS
<1>0. RowsAreSound /\ TogglesAreSound /\ BudgetIsSound
  BY DEF HeatInv
<1>1. CASE ScoresNext
  <2>1. UNCHANGED toggles /\ UNCHANGED budget
    BY <1>1 DEF ScoresNext, Recompute, WriteScores, WriteSomeScores
  <2>2. RowsAreSound'
    BY <1>0, <1>1, Recomputing, Writing DEF ScoresNext
  <2> QED BY <1>0, <2>1, <2>2, Untouched DEF HeatInv
<1>2. CASE SettingsNext
  <2>1. UNCHANGED rowsOfHeat /\ UNCHANGED budget
    BY <1>2 DEF SettingsNext, ReadSettings, WriteSettings, WriteSettingsFails
  <2>2. TogglesAreSound'
    BY <1>0, <1>2, Toggling DEF SettingsNext
  <2> QED BY <1>0, <2>1, <2>2, Untouched DEF HeatInv
<1>3. CASE BudgetNext
  <2>1. UNCHANGED rowsOfHeat /\ UNCHANGED toggles
    BY <1>3 DEF BudgetNext, Charge, Refuse, ResetBudget, heatVars, rowsOfHeat, toggles
  <2>2. BudgetIsSound'
    <3>1. CASE ResetBudget
      BY <3>1, HeatAssumption DEF ResetBudget, BudgetIsSound
    <3>2. ASSUME NEW c \in ChargeOf, Refuse(c[1], c[2]) PROVE BudgetIsSound'
      BY <1>0, <3>2 DEF Refuse, heatVars, BudgetIsSound
    <3> QED BY <1>0, <1>3, <3>1, <3>2, Charging DEF BudgetNext
  <2> QED BY <1>0, <2>1, <2>2, Untouched DEF HeatInv
<1>4. CASE HeatCrash
  BY <1>4, HeatCrashes
<1>5. CASE UNCHANGED heatVars
  BY <1>0, <1>5, Untouched DEF HeatInv, heatVars, rowsOfHeat, toggles, budget
<1> QED BY <1>1, <1>2, <1>3, <1>4, <1>5 DEF HeatNext

LEMMA HeatInvSuffices == HeatInv => HeatIsSound
<1> SUFFICES ASSUME HeatInv PROVE HeatIsSound
  OBVIOUS
<1>0. RowsAreSound /\ TogglesAreSound /\ BudgetIsSound
  BY DEF HeatInv
<1>1. ASSUME NEW s \in Manuscript, NEW m \in Metric, NEW i \in DOMAIN heat[s][m]
      PROVE  heat[s][m][i].text \in Passage \ {Blank} /\ heat[s][m][i].score \in Nat \X (Nat \ {0})
  <2>1. heat[s][m] \in Seq(Cell)
    BY <1>0 DEF RowsAreSound, Tracked
  <2>2. heat[s][m][i] \in Cell
    BY <2>1
  <2> QED BY <2>2 DEF Cell
<1>2. HeatTypeOK
  BY <1>0, <1>1 DEF HeatTypeOK, RowsAreSound, TogglesAreSound, BudgetIsSound
<1>3. TogglesAreKept
  BY <1>0 DEF TogglesAreSound, TogglesAreKept
<1>4. BudgetHolds
  BY <1>0, HeatAssumption DEF BudgetIsSound, BudgetHolds
<1> QED BY <1>0, <1>2, <1>3, <1>4 DEF HeatIsSound, RowsAreSound

LEMMA HeatHolds == HeatSpec => []HeatIsSound
  BY HeatStarts, HeatStep, HeatInvSuffices, PTL DEF HeatSpec

-----------------------------------------------------------------------------
(* The analyses.  A request that is under way was made a debounce ago for  *)
(* every later one of its paragraph, and no request is older than the      *)
(* timeout of the client.                                                  *)
Spaced(f) ==
    /\ f.no <= asks[f.block]
    /\ Debounce * (asks[f.block] - f.no) + sinceAsk[f.block] <= ClientTimeout - f.left

AnalysesInv ==
    /\ AnalysesTypeOK
    /\ \A b \in ParagraphId : newest[b] <= asks[b]
    /\ \A f \in flying : Spaced(f)
    /\ MetricsLagIsBounded

(* As many debounces as fit into a timeout.                                *)
LEMMA FittingIn ==
    ASSUME NEW d \in Nat \ {0}, NEW c \in Nat, NEW k \in Nat, d * k <= c
    PROVE  k <= c \div d
<1>1. (c \div d) \in Nat /\ c < d * ((c \div d) + 1)
  OBVIOUS
<1> DEFINE q == c \div d
<1> HIDE DEF q
<1>2. CASE k > q
  <2>1. k >= q + 1
    BY <1>1, <1>2 DEF q
  <2>2. d * k >= d * (q + 1)
    BY <1>1, <2>1 DEF q
  <2>3. d * k \in Nat /\ d * (q + 1) \in Nat
    BY <1>1 DEF q
  <2> QED BY <1>1, <2>2, <2>3 DEF q
<1> QED BY <1>1, <1>2 DEF q

LEMMA OneMore ==
    ASSUME NEW d \in Nat, NEW n \in Nat, NEW k \in Nat
    PROVE  d * ((n + 1) - k) = d * (n - k) + d /\ d * (n - k) \in Int
OBVIOUS

LEMMA AnalysesStart == AnalysesInit => AnalysesInv
<1> SUFFICES ASSUME AnalysesInit PROVE AnalysesInv
  OBVIOUS
<1>1. ClientTimeout \div Debounce \in Nat
  BY AnalysesAssumption
<1>2. AnalysesTypeOK
  BY AnalysesAssumption DEF AnalysesInit, AnalysesTypeOK
<1>3. MetricsLagIsBounded
  BY <1>1 DEF AnalysesInit, MetricsLagIsBounded
<1> QED BY <1>2, <1>3 DEF AnalysesInit, AnalysesInv

LEMMA Asking ==
    ASSUME AnalysesInv, NEW b \in ParagraphId, NEW text, MaybeKickAnalyze(b, text)
    PROVE  AnalysesInv'
<1>1. /\ asks[b] < MaxAsks /\ opened # NoneOpen /\ sinceAsk[b] = Debounce
      /\ sinceAsk' = [sinceAsk EXCEPT ![b] = 0]
      /\ asks' = [asks EXCEPT ![b] = @ + 1]
      /\ flying' = flying \cup {Flight(b)}
      /\ UNCHANGED <<opened, blockMetrics, sceneMetrics, valenceHistory, newest>>
  BY DEF MaybeKickAnalyze, Throttled, analysis
<1>2. /\ asks \in [ParagraphId -> 0..MaxAsks] /\ sinceAsk \in [ParagraphId -> 0..Debounce]
      /\ opened \in OpenScene /\ newest \in [ParagraphId -> 0..MaxAsks]
  BY <1>1 DEF AnalysesInv, AnalysesTypeOK
<1>3. /\ Debounce \in Nat \ {0} /\ ClientTimeout \in Nat /\ MaxAsks \in Nat
  BY AnalysesAssumption
<1>4. asks[b] \in Nat /\ asks[b] + 1 \in 1..MaxAsks
  BY <1>1, <1>2, <1>3
<1>5. Flight(b) \in [block : ParagraphId, no : 1..MaxAsks, scene : OpenScene,
                     left : 0..ClientTimeout]
  BY <1>2, <1>3, <1>4 DEF Flight
<1>6. asks' \in [ParagraphId -> 0..MaxAsks] /\ sinceAsk' \in [ParagraphId -> 0..Debounce]
  BY <1>1, <1>2, <1>3, <1>4
<1>7. AnalysesTypeOK'
  BY <1>1, <1>5, <1>6 DEF AnalysesInv, AnalysesTypeOK
<1>8. \A c \in ParagraphId : newest'[c] <= asks'[c]
  BY <1>1, <1>2, <1>4 DEF AnalysesInv
<1>9. ASSUME NEW f \in flying' PROVE Spaced(f)'
  <2>1. CASE f = Flight(b)
    <3>1. f.block = b /\ f.no = asks[b] + 1 /\ f.left = ClientTimeout
      BY <2>1 DEF Flight
    <3>2. asks'[b] = asks[b] + 1 /\ sinceAsk'[b] = 0
      BY <1>1, <1>2
    <3>3. Debounce * (asks'[b] - f.no) = 0
      BY <3>1, <3>2, <1>3, <1>4
    <3> QED BY <3>1, <3>2, <3>3, <1>3, <1>4 DEF Spaced
  <2>2. CASE f \in flying
    <3>1. /\ f.block \in ParagraphId /\ f.no \in Nat /\ f.left \in Nat /\ Spaced(f)
      BY <2>2 DEF AnalysesInv, AnalysesTypeOK
    <3>2. CASE f.block # b
      <4>1. asks'[f.block] = asks[f.block] /\ sinceAsk'[f.block] = sinceAsk[f.block]
        BY <1>1, <1>2, <3>1, <3>2
      <4> QED BY <3>1, <4>1 DEF Spaced
    <3>3. CASE f.block = b
      <4>1. asks'[b] = asks[b] + 1 /\ sinceAsk'[b] = 0
        BY <1>1, <1>2
      <4>2. Debounce * ((asks[b] + 1) - f.no) = Debounce * (asks[b] - f.no) + Debounce
        BY <1>3, <1>4, <3>1, OneMore
      <4>3. f.no <= asks[b] /\ Debounce * (asks[b] - f.no) + Debounce <= ClientTimeout - f.left
        BY <1>1, <3>1, <3>3 DEF Spaced
      <4>4. Debounce * (asks[b] - f.no) \in Int
        BY <1>3, <1>4, <3>1
      <4>5. Debounce * (asks'[b] - f.no) + sinceAsk'[b] <= ClientTimeout - f.left
        BY <4>1, <4>2, <4>3, <4>4, <1>3
      <4>6. f.no <= asks'[b]
        BY <4>1, <4>3, <3>1, <1>4
      <4> QED BY <3>3, <4>5, <4>6 DEF Spaced
    <3> QED BY <3>2, <3>3
  <2> QED BY <1>1, <2>1, <2>2
<1>10. MetricsLagIsBounded'
  BY <1>1 DEF AnalysesInv, MetricsLagIsBounded
<1> QED BY <1>7, <1>8, <1>9, <1>10 DEF AnalysesInv

LEMMA RecentAnswers ==
    ASSUME NEW h \in Seq(BlockAnswer)
    PROVE  Recent(h) \in Seq(BlockAnswer) /\ Len(Recent(h)) <= HistoryCap
<1>1. HistoryCap \in Nat \ {0} /\ Len(h) \in Nat /\ \A i \in 1..Len(h) : h[i] \in BlockAnswer
  BY AnalysesAssumption
<1>2. CASE Len(h) > HistoryCap
  <2> DEFINE m == Len(h) - HistoryCap + 1
  <2>1. m \in Int /\ Len(h) \in Int /\ m <= Len(h) /\ Len(h) - m + 1 = HistoryCap
        /\ \A i \in m..Len(h) : h[i] \in BlockAnswer
    BY <1>1, <1>2
  <2>2. Recent(h) = SubSeq(h, m, Len(h))
    BY <1>2 DEF Recent
  <2> HIDE DEF m
  <2> QED BY <1>1, <2>1, <2>2, SubSeqProperties
<1>3. CASE ~(Len(h) > HistoryCap)
  BY <1>1, <1>3 DEF Recent
<1> QED BY <1>2, <1>3

LEMMA Answering ==
    ASSUME AnalysesInv, NEW f \in flying, OnBlockAnalysis(f)
    PROVE  AnalysesInv'
<1>1. flying' = flying \ {f} /\ UNCHANGED <<opened, sinceAsk, asks>>
  BY DEF OnBlockAnalysis
<1>2. /\ f.block \in ParagraphId /\ f.no \in 1..MaxAsks /\ f.left \in 0..ClientTimeout
      /\ f \in [block : ParagraphId, no : 1..MaxAsks, scene : OpenScene, left : 0..ClientTimeout]
      /\ Spaced(f)
  BY DEF AnalysesInv, AnalysesTypeOK
<1>3. \A g \in flying' : Spaced(g)'
  BY <1>1 DEF AnalysesInv, Spaced
<1>4. CASE f.scene # opened
  <2>1. UNCHANGED <<blockMetrics, sceneMetrics, valenceHistory, newest>>
    BY <1>4 DEF OnBlockAnalysis, analysis
  <2> QED BY <1>1, <1>3, <2>1 DEF AnalysesInv, AnalysesTypeOK, MetricsLagIsBounded
<1>5. CASE f.scene = opened
  <2> DEFINE answer == [block |-> f.block, no |-> f.no]
  <2>1. /\ blockMetrics' = [blockMetrics EXCEPT ![f.block] = f.no]
        /\ valenceHistory' = Recent(Append(valenceHistory, answer))
        /\ newest' = [newest EXCEPT ![f.block] = IF f.no > @ THEN f.no ELSE @]
    BY <1>5 DEF OnBlockAnalysis, Applied
  <2>2. Append(valenceHistory, answer) \in Seq(BlockAnswer)
    BY <1>2 DEF AnalysesInv, AnalysesTypeOK, BlockAnswer
  <2>3. valenceHistory' \in Seq(BlockAnswer) /\ Len(valenceHistory') <= HistoryCap
    BY <2>1, <2>2, RecentAnswers
  <2>4. /\ newest \in [ParagraphId -> 0..MaxAsks] /\ blockMetrics \in [ParagraphId -> 0..MaxAsks]
        /\ asks \in [ParagraphId -> 0..MaxAsks] /\ sinceAsk \in [ParagraphId -> 0..Debounce]
        /\ MaxAsks \in Nat /\ Debounce \in Nat \ {0} /\ ClientTimeout \in Nat
    BY AnalysesAssumption DEF AnalysesInv, AnalysesTypeOK
  <2>5. newest' \in [ParagraphId -> 0..MaxAsks] /\ blockMetrics' \in [ParagraphId -> 0..MaxAsks]
    BY <1>2, <2>1, <2>4
  <2>6. AnalysesTypeOK'
    BY <1>1, <2>3, <2>5 DEF AnalysesInv, AnalysesTypeOK
  <2>7. \A c \in ParagraphId : newest'[c] <= asks'[c]
    BY <1>1, <1>2, <2>1, <2>4 DEF AnalysesInv, Spaced
  <2>8. ASSUME NEW c \in ParagraphId
        PROVE  newest'[c] - blockMetrics'[c] <= ClientTimeout \div Debounce
    <3>1. CASE c # f.block
      <4>1. newest'[c] = newest[c] /\ blockMetrics'[c] = blockMetrics[c]
        BY <2>1, <2>4, <3>1
      <4> QED BY <4>1 DEF AnalysesInv, MetricsLagIsBounded
    <3>2. CASE c = f.block
      <4>1. blockMetrics'[c] = f.no /\ newest'[c] <= asks[c] /\ newest'[c] \in Nat /\ asks[c] \in Nat
        BY <1>1, <2>1, <2>4, <2>5, <2>7, <3>2
      <4>2. f.no <= asks[c] /\ f.no \in Nat /\ asks[c] - f.no \in Nat
        BY <1>2, <3>2, <4>1 DEF Spaced
      <4>3. Debounce * (asks[c] - f.no) + sinceAsk[c] <= ClientTimeout - f.left
        BY <1>2, <3>2 DEF Spaced
      <4>4. sinceAsk[c] \in Nat /\ f.left \in Nat /\ Debounce * (asks[c] - f.no) \in Nat
        BY <1>2, <2>4, <4>2
      <4>5. Debounce * (asks[c] - f.no) <= ClientTimeout
        BY <2>4, <4>3, <4>4
      <4>6. asks[c] - f.no <= ClientTimeout \div Debounce
        BY <2>4, <4>2, <4>5, FittingIn
      <4>7. ClientTimeout \div Debounce \in Nat
        BY <2>4
      <4> QED BY <4>1, <4>2, <4>6, <4>7
    <3> QED BY <3>1, <3>2
  <2> QED BY <1>3, <2>6, <2>7, <2>8 DEF AnalysesInv, MetricsLagIsBounded
<1> QED BY <1>4, <1>5

LEMMA Ticking == ASSUME AnalysesInv, AnalysesTick PROVE AnalysesInv'
<1>1. /\ \A f \in flying : f.left > 0
      /\ flying' = {[f EXCEPT !.left = Earlier(@)] : f \in flying}
      /\ sinceAsk' = [b \in ParagraphId |->
                         IF sinceAsk[b] < Debounce THEN sinceAsk[b] + 1 ELSE Debounce]
      /\ UNCHANGED <<opened, asks, blockMetrics, sceneMetrics, valenceHistory, newest>>
  BY DEF AnalysesTick, analysis
<1>2. /\ asks \in [ParagraphId -> 0..MaxAsks] /\ sinceAsk \in [ParagraphId -> 0..Debounce]
      /\ MaxAsks \in Nat /\ Debounce \in Nat \ {0} /\ ClientTimeout \in Nat
  BY AnalysesAssumption DEF AnalysesInv, AnalysesTypeOK
<1>3. sinceAsk' \in [ParagraphId -> 0..Debounce]
      /\ \A b \in ParagraphId : sinceAsk'[b] <= sinceAsk[b] + 1
  BY <1>1, <1>2
<1>4. ASSUME NEW g \in flying'
      PROVE  /\ g \in [block : ParagraphId, no : 1..MaxAsks, scene : OpenScene,
                       left : 0..ClientTimeout]
             /\ Spaced(g)'
  <2>1. PICK f \in flying : g = [f EXCEPT !.left = Earlier(@)]
    BY <1>1
  <2>2. /\ f \in [block : ParagraphId, no : 1..MaxAsks, scene : OpenScene, left : 0..ClientTimeout]
        /\ Spaced(f) /\ f.left > 0
    BY <1>1 DEF AnalysesInv, AnalysesTypeOK
  <2>3. f.left - 1 \in 0..ClientTimeout /\ Earlier(f.left) = f.left - 1
    BY <1>2, <2>2 DEF Earlier
  <2>4. g = [f EXCEPT !.left = f.left - 1]
    BY <2>1, <2>2, <2>3
  <2>5. /\ g \in [block : ParagraphId, no : 1..MaxAsks, scene : OpenScene, left : 0..ClientTimeout]
        /\ g.block = f.block /\ g.no = f.no /\ g.left = f.left - 1
    BY <2>2, <2>3, <2>4
  <2>6. /\ f.block \in ParagraphId /\ f.no \in Nat /\ f.left \in Nat
        /\ asks[f.block] \in Nat /\ sinceAsk[f.block] \in Nat /\ sinceAsk'[f.block] \in Nat
    BY <1>2, <1>3, <2>2
  <2> DEFINE x == Debounce * (asks[f.block] - f.no)
  <2>7. x \in Int
    BY <1>2, <2>6
  <2>8. f.no <= asks[f.block] /\ x + sinceAsk[f.block] <= ClientTimeout - f.left
    BY <2>2 DEF Spaced
  <2>9. sinceAsk'[f.block] <= sinceAsk[f.block] + 1
    BY <1>3, <2>6
  <2> HIDE DEF x
  <2>10. x + sinceAsk'[f.block] <= ClientTimeout - (f.left - 1)
    BY <1>2, <2>6, <2>7, <2>8, <2>9
  <2> QED BY <1>1, <2>5, <2>8, <2>10 DEF Spaced, x
<1>5. AnalysesTypeOK'
  BY <1>1, <1>3, <1>4 DEF AnalysesInv, AnalysesTypeOK
<1> QED BY <1>1, <1>4, <1>5 DEF AnalysesInv, MetricsLagIsBounded

LEMMA AnalysesStep == AnalysesInv /\ [AnalysesNext]_analysisVars => AnalysesInv'
<1> SUFFICES ASSUME AnalysesInv, [AnalysesNext]_analysisVars PROVE AnalysesInv'
  OBVIOUS
<1>1. ASSUME NEW f \in flying, AnalyzeFails(f) PROVE AnalysesInv'
  BY <1>1 DEF AnalyzeFails, analysis, AnalysesInv, AnalysesTypeOK, Spaced, MetricsLagIsBounded
<1>2. ASSUME NEW s \in OpenScene, OpenTheScene(s) PROVE AnalysesInv'
  BY <1>2 DEF OpenTheScene, analysis, AnalysesInv, AnalysesTypeOK, Spaced, MetricsLagIsBounded
<1>3. CASE UNCHANGED analysisVars
  BY <1>3 DEF analysisVars, AnalysesInv, AnalysesTypeOK, Spaced, MetricsLagIsBounded
<1> QED BY <1>1, <1>2, <1>3, Asking, Answering, Ticking DEF AnalysesNext

LEMMA AnalysesHold == AnalysesSpec => [](AnalysesTypeOK /\ MetricsLagIsBounded)
<1>1. AnalysesInv => AnalysesTypeOK /\ MetricsLagIsBounded
  BY DEF AnalysesInv
<1> QED BY <1>1, AnalysesStart, AnalysesStep, PTL DEF AnalysesSpec

-----------------------------------------------------------------------------
(* The triggers.  A gate that is open stays open when its sensitivity      *)
(* rises: the two bars move in opposite directions, each towards firing.   *)
LEMMA BarsMove ==
    ASSUME NEW d \in Int, NEW s \in Sensitivity, NEW r \in Sensitivity, r >= s
    PROVE  /\ LoosenAbove(d, s) \in Int /\ LoosenAbove(d, r) \in Int
           /\ LoosenBelow(d, s) \in Int /\ LoosenBelow(d, r) \in Int
           /\ LoosenAbove(d, r) <= LoosenAbove(d, s)
           /\ LoosenBelow(d, r) >= LoosenBelow(d, s)
<1>1. Sensitivity \subseteq 20..80
  BY Zenon, TriggersAssumption
<1>2. s \in Int /\ r \in Int
  BY <1>1
<1> QED BY <1>2 DEF LoosenAbove, LoosenBelow

LEMMA ScalingIsMonotone ==
    ASSUME NEW a \in Int, NEW b \in Int, NEW c \in Nat, a <= b
    PROVE  a * c <= b * c
OBVIOUS

LEMMA ParagraphsAreFinite ==
    ASSUME NEW p \in Seq(Token)
    PROVE  IsFiniteSet({p[i] : i \in DOMAIN p})
<1> DEFINE n == Len(p)
           T == {p[i] : i \in DOMAIN p}
           f == [i \in 1..n |-> p[i]]
<1>1. n \in Nat /\ DOMAIN p = 1..n /\ 1 \in Int /\ n \in Int
  OBVIOUS
<1>2. f \in Surjection(1..n, T)
  BY <1>1 DEF Surjection
<1> HIDE DEF n, T, f
<1>3. IsFiniteSet(1..n)
  BY <1>1, FS_Interval
<1>4. IsFiniteSet(T)
  BY <1>2, <1>3, FS_Surjection
<1> QED BY <1>4 DEF T

LEMMA OverlapIsMonotone ==
    ASSUME NEW m \in Moment, Known(m.paragraph), NEW field, IsFiniteSet(field),
           NEW a \in Int, NEW b \in Int, b <= a, Overlap(m, field, a)
    PROVE  Overlap(m, field, b)
<1> DEFINE words == {m.paragraph[i] : i \in DOMAIN m.paragraph} \cap Plain
           all == Cardinality(words \cup field)
           shared == Cardinality(words \cap field)
<1>1. m.paragraph \in Seq(Token)
  BY TriggersAssumption DEF Known
<1>2. IsFiniteSet(words) /\ IsFiniteSet(words \cup field) /\ IsFiniteSet(words \cap field)
  <2>1. IsFiniteSet({m.paragraph[i] : i \in DOMAIN m.paragraph})
    BY <1>1, ParagraphsAreFinite
  <2>2. IsFiniteSet(words)
    BY <2>1, FS_Intersection
  <2> QED BY <2>2, FS_Union, FS_Intersection
<1>3. all \in Nat /\ shared \in Nat
  BY <1>2, FS_CardinalityType
<1>4. words \cup field # {} /\ 1000 * shared >= a * all
  BY DEF Overlap
<1> HIDE DEF all, shared
<1>5. b * all <= a * all /\ a * all \in Int /\ b * all \in Int
  BY <1>3, ScalingIsMonotone
<1>6. 1000 * shared >= b * all
  BY <1>3, <1>4, <1>5
<1> QED BY <1>4, <1>6 DEF Overlap, all, shared

LEMMA GatesStayOpen ==
    ASSUME NEW m \in Moment, NEW s \in [Tuned -> Sensitivity], NEW r \in [Tuned -> Sensitivity],
           \A t \in Tuned : r[t] >= s[t], NEW t, Gate(t, m, s)
    PROVE  Gate(t, m, r)
<1>1. CASE t = "block_anchored_drift"
  <2>1. t \in Tuned /\ s[t] \in Sensitivity /\ r[t] \in Sensitivity /\ r[t] >= s[t]
    BY <1>1 DEF Tuned
  <2>2. BlockAnchoredDrift(m, s[t])
    BY <1>1 DEF Gate
  <2>3. m.blockDivergence \in Int /\ m.blockCoherence \in Int
    BY <2>2, TriggersAssumption DEF BlockAnchoredDrift, Known
  <2>4. /\ LoosenAbove(600, s[t]) \in Int /\ LoosenAbove(600, r[t]) \in Int
        /\ LoosenBelow(350, s[t]) \in Int /\ LoosenBelow(350, r[t]) \in Int
        /\ LoosenAbove(600, r[t]) <= LoosenAbove(600, s[t])
        /\ LoosenBelow(350, r[t]) >= LoosenBelow(350, s[t])
    BY <2>1, BarsMove
  <2>5. BlockAnchoredDrift(m, r[t])
    BY <2>2, <2>3, <2>4 DEF BlockAnchoredDrift
  <2> QED BY <1>1, <2>5 DEF Gate
<1>2. CASE t = "topic_drift"
  <2>1. t \in Tuned /\ s[t] \in Sensitivity /\ r[t] \in Sensitivity /\ r[t] >= s[t]
    BY <1>2 DEF Tuned
  <2>2. TopicDrift(m, s[t])
    BY <1>2 DEF Gate
  <2>3. m.coherence \in Int /\ m.divergence \in Int
    BY <2>2, TriggersAssumption DEF TopicDrift, Known
  <2>4. /\ LoosenAbove(500, s[t]) \in Int /\ LoosenAbove(500, r[t]) \in Int
        /\ LoosenBelow(350, s[t]) \in Int /\ LoosenBelow(350, r[t]) \in Int
        /\ LoosenAbove(500, r[t]) <= LoosenAbove(500, s[t])
        /\ LoosenBelow(350, r[t]) >= LoosenBelow(350, s[t])
    BY <2>1, BarsMove
  <2>5. TopicDrift(m, r[t])
    BY <2>2, <2>3, <2>4 DEF TopicDrift
  <2> QED BY <1>2, <2>5 DEF Gate
<1>3. CASE t = "character_dissonance"
  <2>1. t \in Tuned /\ s[t] \in Sensitivity /\ r[t] \in Sensitivity /\ r[t] >= s[t]
    BY <1>3 DEF Tuned
  <2>2. CharacterDissonance(m, s[t])
    BY <1>3 DEF Gate
  <2>3. PICK c \in m.present \cap DOMAIN Fields :
           \E field \in Fields[c] \ {{}} : Overlap(m, field, LoosenAbove(300, s[t]))
    BY <2>2 DEF CharacterDissonance
  <2>9. PICK field \in Fields[c] \ {{}} : Overlap(m, field, LoosenAbove(300, s[t]))
    BY <2>3
  <2>4. /\ LoosenAbove(300, s[t]) \in Int /\ LoosenAbove(300, r[t]) \in Int
        /\ LoosenAbove(300, r[t]) <= LoosenAbove(300, s[t])
    BY <2>1, BarsMove
  <2>5. Known(m.paragraph) /\ IsFiniteSet(field)
    BY <2>2, <2>3, <2>9, TriggersAssumption DEF CharacterDissonance
  <2>6. Overlap(m, field, LoosenAbove(300, r[t]))
    BY <2>4, <2>5, <2>9, OverlapIsMonotone
  <2>7. CharacterDissonance(m, r[t])
    BY <2>3, <2>5, <2>6, <2>9 DEF CharacterDissonance
  <2> QED BY <1>3, <2>7 DEF Gate
<1>4. CASE t \notin Tuned
  <2>1. Gate(t, m, s) <=> Gate(t, m, r)
    BY <1>4 DEF Gate, Tuned
  <2> QED BY <2>1
<1> QED BY <1>1, <1>2, <1>3, <1>4 DEF Tuned

LEMMA TriggersTyped == TriggersSpec => []TriggersTypeOK
<1>1. TriggersInit => TriggersTypeOK
  BY TriggersAssumption DEF TriggersInit, TriggersTypeOK
<1>2. TriggersTypeOK /\ [TriggersNext]_triggerVars => TriggersTypeOK'
  BY DEF TriggersTypeOK, TriggersNext, NextMoment, Learn, triggerVars
<1> QED BY <1>1, <1>2, PTL DEF TriggersSpec

LEMMA RiseOnlyAdds ==
    ASSUME TriggersTypeOK, TriggersTypeOK', Raised
    PROVE  /\ Fired \subseteq Fired'
           /\ \A t \in Winner, u \in Winner' : Priority(u, moment) >= Priority(t, moment)
<1>1. moment' = moment /\ moment \in Moment /\ \A t \in Tuned : tuned'[t] >= tuned[t]
  BY DEF Raised, TriggersTypeOK
<1>2. ASSUME NEW i \in Fired PROVE i \in Fired'
  <2>1. Gate(Builtin[i], moment, tuned) /\ ~moment.midSentence /\ i \in DOMAIN Builtin
    BY DEF Fired, Fires
  <2>2. Gate(Builtin[i], moment, tuned')
    BY <1>1, <2>1, GatesStayOpen DEF TriggersTypeOK
  <2> QED BY <1>1, <2>1, <2>2 DEF Fired, Fires
<1>3. \A t : Priority(t, moment) \in Int
  BY DEF Priority, InflectionPriority
<1>4. ASSUME NEW t \in Winner, NEW u \in Winner' PROVE Priority(u, moment) >= Priority(t, moment)
  <2>1. PICK i \in DOMAIN Builtin : Wins(i) /\ t = Builtin[i]
    BY DEF Winner
  <2>2. PICK j \in DOMAIN Builtin : Wins(j)' /\ u = Builtin[j]
    BY DEF Winner
  <2>3. i \in Fired'
    BY <1>2, <2>1 DEF Wins
  <2>4. \/ Priority(t, moment) < Priority(u, moment)
        \/ Priority(t, moment) = Priority(u, moment)
    BY <1>1, <2>1, <2>2, <2>3 DEF Wins
  <2> HIDE DEF Priority
  <2> QED BY <1>3, <2>4
<1> QED BY <1>2, <1>4

LEMMA RisesAreFair == TriggersSpec => []TriggersTypeOK /\ SensitivityOnlyAdds
<1>1. TriggersTypeOK /\ TriggersTypeOK' =>
         (Raised => /\ Fired \subseteq Fired'
                    /\ \A t \in Winner, u \in Winner' :
                          Priority(u, moment) >= Priority(t, moment))
  BY RiseOnlyAdds
<1> QED BY <1>1, TriggersTyped, PTL DEF SensitivityOnlyAdds

-----------------------------------------------------------------------------
(* The voices.  Who spoke since one's own last turn has a later turn: of   *)
(* those that are ready the least recent one has heard all the others.     *)
LaterTurns ==
    \A u, d \in Voice : u \in spokenSince[d] => Spoke(u) /\ TurnOf(d) < TurnOf(u)

VoicesInv ==
    /\ cast \in Casts /\ pov \in CastMember \cup {Absentee, Nobody}
    /\ resting \in [Voice -> Nat] /\ \A v \in Voice : resting[v] <= RestOf(v)
    /\ spokenSince \in [Voice -> SUBSET Voice]
    /\ turns \in Seq(Voice) /\ IsInjective(turns)
    /\ quiet \in 0..MintEvery
    /\ LaterTurns

LEMMA RestsAreNumbers == \A v : RestOf(v) \in Nat
  BY VoicesAssumption DEF RestOf

(* One place of a list is taken out.                                       *)
LEMMA RemovedAt ==
    ASSUME NEW S, NEW s \in Seq(S), NEW k \in 1..Len(s)
    PROVE  /\ RemoveAt(s, k) \in Seq(S) /\ Len(RemoveAt(s, k)) = Len(s) - 1
           /\ \A i \in 1..(Len(s) - 1) : RemoveAt(s, k)[i] = IF i < k THEN s[i] ELSE s[i + 1]
<1> DEFINE l == SubSeq(s, 1, k - 1)
           r == SubSeq(s, k + 1, Len(s))
<1>0. Len(s) \in Nat /\ \A i \in 1..Len(s) : s[i] \in S
  OBVIOUS
<1>1. /\ l \in Seq(S) /\ Len(l) = k - 1 /\ \A i \in 1..(k - 1) : l[i] = s[i]
  BY <1>0
<1>2. /\ r \in Seq(S) /\ Len(r) = Len(s) - k
      /\ \A i \in 1..(Len(s) - k) : r[i] = s[k + i]
  BY <1>0
<1>3. RemoveAt(s, k) = l \o r
  BY DEF RemoveAt
<1> HIDE DEF l, r
<1>4. /\ l \o r \in Seq(S) /\ Len(l \o r) = Len(l) + Len(r)
      /\ \A i \in 1..(Len(l) + Len(r)) : (l \o r)[i] = IF i <= Len(l) THEN l[i] ELSE r[i - Len(l)]
  BY <1>1, <1>2, ConcatProperties
<1>5. Len(l) + Len(r) = Len(s) - 1
  BY <1>0, <1>1, <1>2
<1>6. ASSUME NEW i \in 1..(Len(s) - 1) PROVE (l \o r)[i] = IF i < k THEN s[i] ELSE s[i + 1]
  <2>1. CASE i < k
    BY <1>0, <1>1, <1>4, <1>5, <2>1
  <2>2. CASE ~(i < k)
    <3>1. ~(i <= Len(l)) /\ i - Len(l) \in 1..(Len(s) - k) /\ k + (i - Len(l)) = i + 1
      BY <1>0, <1>1, <2>2
    <3> QED BY <1>2, <1>4, <1>5, <2>2, <3>1
  <2> QED BY <2>1, <2>2
<1> QED BY <1>3, <1>4, <1>5, <1>6

(* Whose turn is where: the place of a voice in a list where it is once.   *)
TurnIn(s, v) == IF v \in ToSet(s) THEN CHOOSE i \in DOMAIN s : s[i] = v ELSE 0
Others(s, v) == IF v \in ToSet(s) THEN RemoveAt(s, TurnIn(s, v)) ELSE s

LEMMA TurnsArePlaces ==
    ASSUME NEW s \in Seq(Voice), IsInjective(s)
    PROVE  /\ \A i \in 1..Len(s) : s[i] \in ToSet(s) /\ TurnIn(s, s[i]) = i
           /\ \A v \in ToSet(s) : TurnIn(s, v) \in 1..Len(s) /\ s[TurnIn(s, v)] = v
           /\ \A v : v \notin ToSet(s) => TurnIn(s, v) = 0
<1>1. DOMAIN s = 1..Len(s) /\ Len(s) \in Nat
  OBVIOUS
<1>2. ASSUME NEW v \in ToSet(s) PROVE TurnIn(s, v) \in 1..Len(s) /\ s[TurnIn(s, v)] = v
  <2>1. \E i \in DOMAIN s : s[i] = v
    BY DEF ToSet
  <2>2. TurnIn(s, v) = CHOOSE i \in DOMAIN s : s[i] = v
    BY DEF TurnIn
  <2> QED BY <1>1, <2>1, <2>2
<1>3. ASSUME NEW i \in 1..Len(s) PROVE s[i] \in ToSet(s) /\ TurnIn(s, s[i]) = i
  <2>1. s[i] \in ToSet(s)
    BY <1>1 DEF ToSet
  <2>2. TurnIn(s, s[i]) \in 1..Len(s) /\ s[TurnIn(s, s[i])] = s[i]
    BY <1>2, <2>1
  <2> QED BY <1>1, <2>1, <2>2 DEF IsInjective
<1>4. ASSUME NEW v, v \notin ToSet(s) PROVE TurnIn(s, v) = 0
  BY <1>4 DEF TurnIn
<1> QED BY <1>2, <1>3, <1>4

(* A voice that speaks goes behind all the others, which keep their order. *)
LEMMA SpeakingLast ==
    ASSUME NEW s \in Seq(Voice), IsInjective(s), NEW v \in Voice,
           NEW t, t = Append(Others(s, v), v)
    PROVE  /\ t \in Seq(Voice) /\ IsInjective(t) /\ v \in ToSet(t)
           /\ \A u \in Voice : u # v => /\ u \in ToSet(t) <=> u \in ToSet(s)
                                        /\ TurnIn(t, u) < TurnIn(t, v)
           /\ \A u, d \in Voice : u # v /\ d # v /\ TurnIn(s, d) < TurnIn(s, u)
                                     => TurnIn(t, d) < TurnIn(t, u)
<1> DEFINE w == Others(s, v)
           k == IF v \in ToSet(s) THEN TurnIn(s, v) ELSE Len(s) + 1
           n == Len(s)
           l == Len(w)
           Moved(i) == IF i < k THEN i ELSE i - 1
<1>0. n \in Nat /\ DOMAIN s = 1..n /\ \A i \in 1..n : s[i] \in Voice
  OBVIOUS
<1>1. /\ w \in Seq(Voice) /\ k \in 1..(n + 1)
      /\ IF v \in ToSet(s) THEN k \in 1..n /\ l = n - 1 ELSE k = n + 1 /\ l = n
      /\ \A i \in 1..l : w[i] = IF i < k THEN s[i] ELSE s[i + 1]
      /\ \A i \in 1..n : s[i] = v <=> i = k
  <2>1. CASE v \in ToSet(s)
    <3>1. k \in 1..n /\ w = RemoveAt(s, k) /\ s[k] = v /\ k = TurnIn(s, v)
      BY <2>1, TurnsArePlaces DEF Others
    <3>2. \A i \in 1..n : s[i] = v <=> i = k
      BY <1>0, <3>1 DEF IsInjective
    <3> HIDE DEF w, k
    <3>3. w \in Seq(Voice) /\ l = n - 1 /\ \A i \in 1..(n - 1) : w[i] = IF i < k THEN s[i] ELSE s[i + 1]
      BY <3>1, RemovedAt
    <3> QED BY <2>1, <3>1, <3>2, <3>3, <1>0
  <2>2. CASE v \notin ToSet(s)
    <3>1. w = s /\ k = n + 1
      BY <2>2 DEF Others
    <3>2. \A i \in 1..n : s[i] # v
      BY <2>2, <1>0 DEF ToSet
    <3> HIDE DEF w, k
    <3> QED BY <2>2, <3>1, <3>2, <1>0
  <2> QED BY <2>1, <2>2
<1> HIDE DEF w, k
<1>2. /\ t \in Seq(Voice) /\ Len(t) = l + 1 /\ t[l + 1] = v
      /\ \A i \in 1..l : t[i] = w[i]
      /\ l \in Nat /\ DOMAIN t = 1..(l + 1)
  BY <1>1 DEF w
<1> HIDE DEF n, l
<1>k. /\ k \in Nat /\ n \in Nat /\ l \in Nat /\ k >= 1 /\ k <= n + 1 /\ k <= l + 1
      /\ ((l = n - 1 /\ k <= n) \/ (l = n /\ k = n + 1))
  BY <1>0, <1>1, <1>2
<1>3. ASSUME NEW i \in 1..n, i # k
      PROVE  Moved(i) \in 1..l /\ t[Moved(i)] = s[i]
  <2>2. CASE i < k
    <3>1. i \in 1..l
      BY <1>k, <2>2
    <3> QED BY <1>1, <1>2, <2>2, <3>1
  <2>3. CASE i > k
    <3>1. i - 1 \in 1..l /\ ~(i - 1 < k) /\ (i - 1) + 1 = i /\ ~(i < k)
      BY <1>k, <2>3
    <3>2. t[i - 1] = s[i]
      BY <1>1, <1>2, <3>1
    <3> QED BY <2>3, <3>1, <3>2
  <2>4. i < k \/ i > k
    BY <1>k, <1>3
  <2> QED BY <2>2, <2>3, <2>4
<1>4. ASSUME NEW i \in 1..l
      PROVE  t[i] # v /\ \E j \in 1..n : j # k /\ s[j] = t[i] /\ Moved(j) = i
  <2> DEFINE j == IF i < k THEN i ELSE i + 1
  <2>1. j \in 1..n /\ j # k /\ Moved(j) = i
    BY <1>k
  <2>2. t[i] = s[j]
    BY <1>1, <1>2
  <2>3. s[j] # v
    BY <1>1, <2>1
  <2> HIDE DEF j
  <2> QED BY <2>1, <2>2, <2>3
<1>5. ASSUME NEW a \in 1..(l + 1), NEW b \in 1..(l + 1), t[a] = t[b]
      PROVE  a = b
  <2>0. \A x \in 1..(l + 1) : x \in 1..l \/ x = l + 1
    BY <1>k
  <2>1. CASE a = l + 1 \/ b = l + 1
    BY <1>2, <1>4, <1>5, <2>0, <2>1
  <2>2. CASE a \in 1..l /\ b \in 1..l
    <3>1. PICK i \in 1..n : s[i] = t[a] /\ Moved(i) = a
      BY <1>4, <2>2
    <3>2. PICK j \in 1..n : s[j] = t[b] /\ Moved(j) = b
      BY <1>4, <2>2
    <3>3. i = j
      BY <1>0, <1>5, <3>1, <3>2 DEF IsInjective
    <3> QED BY <3>1, <3>2, <3>3
  <2> QED BY <2>0, <2>1, <2>2
<1>6. IsInjective(t)
  BY <1>2, <1>5 DEF IsInjective
<1>7. v \in ToSet(t) /\ TurnIn(t, v) = l + 1
  <2>1. l + 1 \in 1..Len(t)
    BY <1>2
  <2> QED BY <1>2, <1>6, <2>1, TurnsArePlaces
<1>9. ASSUME NEW u \in Voice, u # v
      PROVE  /\ u \in ToSet(t) <=> u \in ToSet(s)
             /\ u \in ToSet(s) => /\ TurnIn(s, u) \in 1..n /\ TurnIn(s, u) # k
                                  /\ TurnIn(t, u) = Moved(TurnIn(s, u)) /\ TurnIn(t, u) \in 1..l
             /\ u \notin ToSet(s) => TurnIn(s, u) = 0 /\ TurnIn(t, u) = 0
  <2>1. CASE u \in ToSet(s)
    <3> DEFINE i == TurnIn(s, u)
    <3>1. i \in 1..n /\ s[i] = u
      BY <2>1, TurnsArePlaces DEF n
    <3>2. i # k
      BY <1>1, <1>9, <3>1
    <3> HIDE DEF i
    <3>3. Moved(i) \in 1..l /\ t[Moved(i)] = u
      BY <1>3, <3>1, <3>2
    <3>4. Moved(i) \in 1..Len(t)
      BY <1>2, <3>3
    <3> DEFINE m == Moved(i)
    <3> HIDE DEF m
    <3>5. u \in ToSet(t) /\ TurnIn(t, u) = m
      BY <1>2, <1>6, <3>3, <3>4, TurnsArePlaces DEF m
    <3> QED BY <2>1, <3>1, <3>2, <3>3, <3>5 DEF i, m
  <2>2. CASE u \notin ToSet(s)
    <3>1. ASSUME u \in ToSet(t) PROVE FALSE
      <4>1. PICK i \in 1..(l + 1) : t[i] = u
        BY <1>2, <3>1 DEF ToSet
      <4>2. i \in 1..l
        BY <1>2, <1>9, <4>1, <1>k
      <4>3. \E j \in 1..n : s[j] = u
        BY <1>4, <4>1, <4>2
      <4> QED BY <2>2, <4>3, <1>0 DEF ToSet
    <3> QED BY <2>2, <3>1, <1>2, <1>6, TurnsArePlaces
  <2> QED BY <2>1, <2>2
<1>10. ASSUME NEW u \in Voice, NEW d \in Voice, u # v, d # v, TurnIn(s, d) < TurnIn(s, u)
       PROVE  TurnIn(t, d) < TurnIn(t, u)
  <2>1. u \in ToSet(s)
    <3>1. CASE u \notin ToSet(s)
      <4>1. TurnIn(s, u) = 0 /\ TurnIn(s, d) \in Nat
        BY <1>9, <1>10, <3>1
      <4> QED BY <1>10, <4>1
    <3> QED BY <3>1
  <2>2. /\ TurnIn(s, u) \in 1..n /\ TurnIn(s, u) # k /\ TurnIn(t, u) = Moved(TurnIn(s, u))
        /\ TurnIn(t, u) \in 1..l
    BY <1>9, <1>10, <2>1
  <2>4. CASE d \notin ToSet(s)
    <3>1. TurnIn(t, d) = 0
      BY <1>9, <1>10, <2>4
    <3> QED BY <2>2, <3>1, <1>k
  <2>5. CASE d \in ToSet(s)
    <3>1. TurnIn(s, d) \in 1..n /\ TurnIn(s, d) # k /\ TurnIn(t, d) = Moved(TurnIn(s, d))
      BY <1>9, <1>10, <2>5
    <3> QED BY <1>10, <1>k, <2>2, <3>1
  <2> QED BY <2>4, <2>5
<1>11. ASSUME NEW u \in Voice, u # v PROVE TurnIn(t, u) < TurnIn(t, v)
  <2>1. TurnIn(t, u) \in 0..l
    BY <1>9, <1>11, <1>k
  <2> QED BY <1>7, <1>k, <2>1
<1> QED BY <1>2, <1>6, <1>7, <1>9, <1>10, <1>11

LEMMA TurnsInTheList == \A v : TurnOf(v) = TurnIn(turns, v) /\ (Spoke(v) <=> v \in ToSet(turns))
  BY DEF TurnOf, TurnIn, Spoke

LEMMA VoicesStart == VoicesInit => VoicesInv
<1> SUFFICES ASSUME VoicesInit PROVE VoicesInv
  OBVIOUS
<1>1. cast \in Casts
  <2>1. <<>> \in [1..0 -> CastMember \cup {Absentee}] /\ 0 \in 0..MaxPresent
    BY VoicesAssumption
  <2> QED BY <2>1 DEF VoicesInit, Casts, SeqOf, IsInjective
<1>2. \A v \in Voice : resting[v] <= RestOf(v)
  BY RestsAreNumbers DEF VoicesInit
<1>3. IsInjective(turns)
  BY DEF VoicesInit, IsInjective
<1>4. quiet \in 0..MintEvery
  BY VoicesAssumption DEF VoicesInit
<1> QED BY <1>1, <1>2, <1>3, <1>4 DEF VoicesInit, VoicesInv, LaterTurns

LEMMA Speaking ==
    ASSUME VoicesInv, NEW t \in CandidateIds, NEW v \in Voice, Speak(t, v)
    PROVE  VoicesInv'
<1>1. /\ resting' = [resting EXCEPT ![v] = RestOf(v)]
      /\ turns' = Append(Before(v), v) /\ quiet' = MintEvery
      /\ spokenSince' = [u \in Voice |-> IF u = v THEN {} ELSE spokenSince[u] \cup {v}]
      /\ UNCHANGED <<cast, pov>>
  BY DEF Speak
<1>2. Before(v) = Others(turns, v)
  BY TurnsInTheList DEF Before, Others
<1>3. turns \in Seq(Voice) /\ IsInjective(turns)
  BY DEF VoicesInv
<1>4. /\ turns' \in Seq(Voice) /\ IsInjective(turns') /\ v \in ToSet(turns')
      /\ \A u \in Voice : u # v => /\ u \in ToSet(turns') <=> u \in ToSet(turns)
                                   /\ TurnIn(turns', u) < TurnIn(turns', v)
      /\ \A u, d \in Voice : u # v /\ d # v /\ TurnIn(turns, d) < TurnIn(turns, u)
                                => TurnIn(turns', d) < TurnIn(turns', u)
  BY <1>1, <1>2, <1>3, SpeakingLast
<1>5. resting' \in [Voice -> Nat] /\ \A u \in Voice : resting'[u] <= RestOf(u)
  BY <1>1, RestsAreNumbers DEF VoicesInv
<1>6. spokenSince' \in [Voice -> SUBSET Voice] /\ quiet' \in 0..MintEvery
  BY <1>1, VoicesAssumption DEF VoicesInv
<1>7. LaterTurns'
  <2> SUFFICES ASSUME NEW u \in Voice, NEW d \in Voice, u \in spokenSince'[d]
               PROVE  u \in ToSet(turns') /\ TurnIn(turns', d) < TurnIn(turns', u)
    BY TurnsInTheList DEF LaterTurns, TurnOf, TurnIn, Spoke
  <2>1. d # v /\ (u = v \/ u \in spokenSince[d])
    BY <1>1
  <2>2. CASE u = v
    BY <1>4, <2>1, <2>2
  <2>3. CASE u # v
    <3>1. u \in ToSet(turns) /\ TurnIn(turns, d) < TurnIn(turns, u)
      BY <2>1, <2>3, TurnsInTheList DEF VoicesInv, LaterTurns
    <3> QED BY <1>4, <2>1, <2>3, <3>1
  <2> QED BY <2>2, <2>3
<1> QED BY <1>1, <1>4, <1>5, <1>6, <1>7 DEF VoicesInv

LEMMA TurnsStay ==
    ASSUME LaterTurns, UNCHANGED <<turns, spokenSince>>
    PROVE  LaterTurns'
<1>1. \A v : TurnOf(v)' = TurnOf(v) /\ (Spoke(v)' <=> Spoke(v))
  BY DEF TurnOf, Spoke
<1> QED BY <1>1 DEF LaterTurns

LEMMA VoicesStep == VoicesInv /\ [VoicesNext]_voiceVars => VoicesInv'
<1> SUFFICES ASSUME VoicesInv, [VoicesNext]_voiceVars PROVE VoicesInv'
  OBVIOUS
<1>1. ASSUME UNCHANGED voiceVars PROVE VoicesInv'
  BY <1>1, TurnsStay DEF voiceVars, VoicesInv
<1>2. ASSUME NEW c \in Casts, NEW p \in CastMember \cup {Absentee, Nobody}, SetTheScene(c, p)
      PROVE  VoicesInv'
  BY <1>2, TurnsStay DEF SetTheScene, VoicesInv
<1>3. CASE VoicesRest
  <2>1. \A n \in Nat : OneLess(n) \in Nat /\ OneLess(n) <= n
    BY DEF OneLess
  <2>2. /\ resting' = [v \in Voice |-> OneLess(resting[v])] /\ quiet' = OneLess(quiet)
        /\ UNCHANGED <<cast, pov, turns, spokenSince>>
    BY <1>3 DEF VoicesRest
  <2>3. resting' \in [Voice -> Nat] /\ \A v \in Voice : resting'[v] <= RestOf(v)
    <3>1. ASSUME NEW v \in Voice PROVE resting'[v] \in Nat /\ resting'[v] <= RestOf(v)
      <4>1. resting[v] \in Nat /\ resting[v] <= RestOf(v) /\ RestOf(v) \in Nat
        BY RestsAreNumbers DEF VoicesInv
      <4>2. resting'[v] = OneLess(resting[v])
        BY <2>2
      <4> QED BY <2>1, <4>1, <4>2
    <3> QED BY <2>2, <3>1
  <2>4. quiet' \in 0..MintEvery
    <3>1. quiet \in Nat /\ quiet <= MintEvery /\ MintEvery \in Nat
      BY VoicesAssumption DEF VoicesInv
    <3> QED BY <2>1, <2>2, <3>1
  <2> QED BY <2>2, <2>3, <2>4, TurnsStay DEF VoicesInv
<1> QED BY <1>1, <1>2, <1>3, Speaking DEF VoicesNext, NobodySpeaks

LEMMA VoicesAreTyped == VoicesInv => VoicesTypeOK
<1> SUFFICES ASSUME VoicesInv PROVE VoicesTypeOK
  OBVIOUS
<1>1. ToSet(turns) \subseteq Voice
  BY DEF VoicesInv, ToSet
<1>2. \A v \in Voice : resting[v] \in 0..RestOf(v) /\ spokenSince[v] \subseteq Voice
  BY RestsAreNumbers DEF VoicesInv
<1> QED BY <1>1, <1>2 DEF VoicesInv, VoicesTypeOK

(* The personas are nobody of the cast, so that a character can only have  *)
(* been chosen as the point of view or as the least recent one.            *)
LEMMA TakingTurns ==
    ASSUME VoicesInv, NEW t \in CandidateIds, NEW v \in Voice, Speak(t, v),
           NEW c \in Ready \ {pov}, NEW d \in Ready, resting'[c] > resting[c]
    PROVE  c \notin spokenSince[d]
<1>1. c \in CastMember /\ d \in CastMember /\ c \in Voice /\ d \in Voice
  BY DEF Ready, Voice
<1>2. v = c
  <2>1. v # c => resting'[c] = resting[c]
    BY <1>1 DEF Speak, VoicesInv
  <2>2. resting[c] \in Nat
    BY <1>1 DEF VoicesInv
  <2> QED BY <2>1, <2>2
<1>3. c \notin Personas
  BY <1>1, VoicesAssumption DEF Personas
<1>4. c \notin RoutePersona(t)
  BY <1>3 DEF RoutePersona, LruPersona, ReadyPersonas
<1>5. c \in PickLruPresent
  BY <1>2, <1>4 DEF Speak, RouteWithChars
<1>6. TurnOf(c) < TurnOf(d) \/ TurnOf(c) = TurnOf(d)
  BY <1>5 DEF PickLruPresent
<1>7. TurnOf(c) \in Int /\ TurnOf(d) \in Int
  BY <1>1, TurnsArePlaces, TurnsInTheList DEF VoicesInv
<1>8. c \in spokenSince[d] => TurnOf(d) < TurnOf(c)
  BY <1>1 DEF VoicesInv, LaterTurns
<1> QED BY <1>6, <1>7, <1>8

LEMMA TurnsAreTaken ==
    VoicesInv /\ [VoicesNext]_voiceVars =>
       [\A c \in Ready \ {pov}, d \in Ready :
           resting'[c] > resting[c] => c \notin spokenSince[d]]_voiceVars
<1> SUFFICES ASSUME VoicesInv, VoicesNext, NEW c \in Ready \ {pov}, NEW d \in Ready,
                    resting'[c] > resting[c]
             PROVE  c \notin spokenSince[d]
  OBVIOUS
<1>1. c \in Voice /\ resting[c] \in Nat
  BY DEF Ready, Voice, VoicesInv
<1>2. ~VoicesRest
  <2>1. VoicesRest => resting'[c] = OneLess(resting[c])
    BY <1>1 DEF VoicesRest
  <2> QED BY <1>1, <2>1 DEF OneLess
<1>3. PICK t \in CandidateIds, v \in Voice : Speak(t, v)
  BY <1>1, <1>2 DEF VoicesNext, NobodySpeaks, voiceVars, SetTheScene
<1> QED BY <1>3, TakingTurns

LEMMA VoicesAreFair == VoicesSpec => []VoicesTypeOK /\ CharactersTakeTurns
  BY VoicesStart, VoicesStep, VoicesAreTyped, TurnsAreTaken, PTL
     DEF VoicesSpec, CharactersTakeTurns

-----------------------------------------------------------------------------
(* The bouquets.  What is shown is in the history of its pill, and an      *)
(* answer is measured against that history: no bouquet it saw on the       *)
(* screen can be missing from it.                                          *)
SoundBloom(k) ==
    LET b == bouquets[k] IN
    /\ b.stage \in {"remembered", "shown"} => ToSet(b.accepted) \subseteq ToSet(hadBefore[b.bud])
    /\ b.stage = "asking" => b.seen = {}
    /\ \A j \in b.seen : j \in DOMAIN bouquets /\ bouquets[j].stage = "shown"

BouquetsInv ==
    /\ BouquetsTypeOK
    /\ bouquets \in Seq(Blooms)
    /\ hadBefore \in [Bud -> Seq(Wording)]
    /\ \A k \in DOMAIN bouquets : SoundBloom(k)
    /\ BouquetsAreNew

LEMMA ItemsAreLists ==
    ASSUME NEW n \in Nat, NEW items
    PROVE  items \in Items(n) <=> items \in Seq(Wording) /\ Len(items) <= n
<1>1. ASSUME items \in Items(n) PROVE items \in Seq(Wording) /\ Len(items) <= n
  <2>1. PICK m \in 0..n : items \in [1..m -> Wording]
    BY <1>1 DEF Items, SeqOf
  <2> QED BY <2>1
<1>2. ASSUME items \in Seq(Wording), Len(items) <= n PROVE items \in Items(n)
  <2>1. Len(items) \in 0..n /\ items \in [1..Len(items) -> Wording]
    BY <1>2
  <2> QED BY <2>1 DEF Items, SeqOf
<1> QED BY <1>1, <1>2

(* What is accepted is one of the model's items, and none is too close.    *)
LEMMA AcceptedAreDistant ==
    ASSUME NEW p \in Bud, NEW items \in Seq(Wording)
    PROVE  /\ Accepted(p, items) \in Items(BouquetSize)
           /\ \A t \in ToSet(Accepted(p, items)) : ~TooClose(p, t)
<1> DEFINE K == Distant(p, items)
           c == Picked(items, K)
           n == IF Len(c) < BouquetSize THEN Len(c) ELSE BouquetSize
<1>1. K \in SUBSET (1..Len(items)) /\ \A i \in K : ~TooClose(p, items[i])
  BY DEF Distant
<1> HIDE DEF K
<1>2. /\ c \in Seq(Wording) /\ Len(c) \in Nat
      /\ \A j \in 1..Len(c) : \E i \in K : c[j] = items[i]
  <2>1. /\ c \in Seq(Wording)
        /\ \A j \in 1..Len(c) : \E i \in K : c[j] = items[i]
    BY <1>1, PickedIsASeq
  <2> HIDE DEF c
  <2> QED BY <2>1
<1> HIDE DEF c
<1>3. BouquetSize \in Nat /\ n \in Nat /\ n <= Len(c) /\ n <= BouquetSize
  BY <1>2, BouquetsAssumption
<1>4. Accepted(p, items) = SubSeq(c, 1, n)
  BY DEF Accepted, FirstOf, c, K
<1> HIDE DEF n
<1>5. /\ SubSeq(c, 1, n) \in Seq(Wording) /\ Len(SubSeq(c, 1, n)) = n
      /\ \A i \in 1..n : SubSeq(c, 1, n)[i] = c[i]
  BY <1>2, <1>3
<1> DEFINE a == SubSeq(c, 1, n)
<1> HIDE DEF a
<1>6. a \in Items(BouquetSize)
  BY <1>3, <1>5, ItemsAreLists DEF a
<1>7. ASSUME NEW t \in ToSet(a) PROVE ~TooClose(p, t)
  <2>1. PICK i \in 1..n : t = a[i]
    BY <1>3, <1>5 DEF ToSet, a
  <2>2. i \in 1..Len(c) /\ t = c[i]
    BY <1>2, <1>3, <1>5, <2>1 DEF a
  <2> QED BY <1>1, <1>2, <2>2
<1> QED BY <1>4, <1>6, <1>7 DEF a

LEMMA HistoriesGrow ==
    ASSUME NEW v \in Seq(Wording), NEW s \in Seq(Wording)
    PROVE  /\ v \o s \in Seq(Wording)
           /\ ToSet(v) \subseteq ToSet(v \o s) /\ ToSet(s) \subseteq ToSet(v \o s)
           /\ ToSet(v \o s) \subseteq Wording
<1> DEFINE w == v \o s
<1>1. /\ w \in Seq(Wording) /\ Len(w) = Len(v) + Len(s) /\ Len(v) \in Nat /\ Len(s) \in Nat
      /\ DOMAIN w = 1..Len(w) /\ DOMAIN v = 1..Len(v) /\ DOMAIN s = 1..Len(s)
      /\ \A i \in 1..(Len(v) + Len(s)) : w[i] = IF i <= Len(v) THEN v[i] ELSE s[i - Len(v)]
  BY ConcatProperties
<1> HIDE DEF w
<1>2. ASSUME NEW i \in 1..Len(v) PROVE v[i] \in ToSet(w)
  <2>1. i \in 1..Len(w) /\ w[i] = v[i]
    BY <1>1
  <2> QED BY <1>1, <2>1 DEF ToSet
<1>3. ASSUME NEW i \in 1..Len(s) PROVE s[i] \in ToSet(w)
  <2>1. Len(v) + i \in 1..Len(w) /\ ~(Len(v) + i <= Len(v)) /\ (Len(v) + i) - Len(v) = i
    BY <1>1
  <2>2. w[Len(v) + i] = s[i]
    BY <1>1, <2>1
  <2> QED BY <1>1, <2>1, <2>2 DEF ToSet
<1>4. ToSet(w) \subseteq Wording
  BY <1>1 DEF ToSet
<1>5. ToSet(v) \subseteq ToSet(w)
  <2> SUFFICES ASSUME NEW x \in ToSet(v) PROVE x \in ToSet(w)
    OBVIOUS
  <2>1. PICK i \in 1..Len(v) : v[i] = x
    BY <1>1 DEF ToSet
  <2> QED BY <1>2, <2>1
<1>6. ToSet(s) \subseteq ToSet(w)
  <2> SUFFICES ASSUME NEW x \in ToSet(s) PROVE x \in ToSet(w)
    OBVIOUS
  <2>1. PICK i \in 1..Len(s) : s[i] = x
    BY <1>1 DEF ToSet
  <2> QED BY <1>3, <2>1
<1> QED BY <1>1, <1>4, <1>5, <1>6 DEF w

LEMMA BouquetsStart == BouquetsInit => BouquetsInv
<1> SUFFICES ASSUME BouquetsInit PROVE BouquetsInv
  OBVIOUS
<1>1. \A p \in Bud : ToSet(hadBefore[p]) \subseteq Wording
  BY DEF BouquetsInit, ToSet
<1>2. BouquetsTypeOK
  BY <1>1, BouquetsAssumption DEF BouquetsInit, BouquetsTypeOK
<1>3. /\ \A k \in DOMAIN bouquets : SoundBloom(k)
      /\ BouquetsAreNew
  BY DEF BouquetsInit, BouquetsAreNew
<1> QED BY <1>2, <1>3 DEF BouquetsInit, BouquetsInv

(* One bouquet is another one now, and everything that was shown is still. *)
LEMMA BloomChanges ==
    ASSUME BouquetsInv, NEW k \in DOMAIN bouquets, NEW new \in Blooms,
           bouquets' = [bouquets EXCEPT ![k] = new],
           new.bud = bouquets[k].bud,
           bouquets[k].stage = "asking" \/ new.accepted = bouquets[k].accepted,
           bouquets[k].stage # "shown", k \notin new.seen,
           hadBefore' \in [Bud -> Seq(Wording)],
           \A p \in Bud : ToSet(hadBefore[p]) \subseteq ToSet(hadBefore'[p]),
           listed' = listed,
           SoundBloom(k)',
           \A j \in new.seen : \A t \in ToSet(new.accepted), u \in ToSet(bouquets[j].accepted) :
               <<t, u>> \notin Echo
    PROVE  BouquetsInv'
<1>0. /\ bouquets \in Seq(Blooms) /\ DOMAIN bouquets = 1..Len(bouquets)
      /\ k \in 1..Len(bouquets) /\ Len(bouquets) <= MaxBouquets
  BY DEF BouquetsInv, BouquetsTypeOK
<1>1. /\ bouquets' \in Seq(Blooms) /\ Len(bouquets') = Len(bouquets)
      /\ DOMAIN bouquets' = DOMAIN bouquets
      /\ bouquets'[k] = new /\ \A j \in DOMAIN bouquets : j # k => bouquets'[j] = bouquets[j]
  BY <1>0
<1>2. \A p \in Bud : ToSet(hadBefore'[p]) \subseteq Wording
  BY DEF ToSet
<1>3. BouquetsTypeOK'
  <2>1. \A j \in DOMAIN bouquets' : bouquets'[j] \in Blooms
    BY <1>0, <1>1
  <2> QED BY <1>0, <1>1, <1>2, <2>1 DEF BouquetsInv, BouquetsTypeOK
<1>4. ASSUME NEW j \in DOMAIN bouquets PROVE SoundBloom(j)'
  <2>1. CASE j = k
    BY <2>1
  <2>2. CASE j # k
    <3>0. bouquets[j] \in Blooms
      BY <1>0
    <3>1. bouquets'[j] = bouquets[j] /\ bouquets[j].bud \in Bud
      BY <1>1, <2>2, <3>0 DEF Blooms
    <3>2. SoundBloom(j)
      BY DEF BouquetsInv
    <3>3. \A i \in bouquets[j].seen : i \in DOMAIN bouquets' /\ bouquets'[i].stage = "shown"
      BY <1>1, <3>2 DEF SoundBloom
    <3>4. bouquets[j].stage \in {"remembered", "shown"} =>
             ToSet(bouquets[j].accepted) \subseteq ToSet(hadBefore'[bouquets[j].bud])
      BY <3>1, <3>2 DEF SoundBloom
    <3> QED BY <3>1, <3>2, <3>3, <3>4 DEF SoundBloom
  <2> QED BY <2>1, <2>2
<1>5. BouquetsAreNew'
  <2> SUFFICES ASSUME NEW i \in DOMAIN bouquets, NEW j \in bouquets'[i].seen,
                      NEW t \in ToSet(bouquets'[i].accepted), NEW u \in ToSet(bouquets'[j].accepted)
               PROVE  <<t, u>> \notin Echo
    BY <1>1 DEF BouquetsAreNew
  <2>1. j \in DOMAIN bouquets /\ bouquets'[j].stage = "shown"
    BY <1>1, <1>4 DEF SoundBloom
  <2>2. CASE i = k
    <3>1. j \in new.seen /\ t \in ToSet(new.accepted)
      BY <1>1, <2>2
    <3>2. j # k => bouquets'[j] = bouquets[j]
      BY <1>1, <2>1
    <3>3. CASE j # k
      BY <3>1, <3>2, <3>3
    <3> QED BY <3>1, <3>3
  <2>3. CASE i # k
    <3>1. bouquets'[i] = bouquets[i]
      BY <1>1, <2>3
    <3>2. bouquets[j].stage = "shown"
      BY <3>1 DEF BouquetsInv, SoundBloom
    <3>3. bouquets'[j] = bouquets[j]
      BY <1>1, <2>1, <3>2
    <3> QED BY <3>1, <3>3 DEF BouquetsInv, BouquetsAreNew
  <2> QED BY <2>2, <2>3
<1> QED BY <1>1, <1>3, <1>4, <1>5 DEF BouquetsInv

LEMMA Listed == ASSUME BouquetsInv, NEW p \in Bud, ListPill(p) PROVE BouquetsInv'
<1>1. listed' = listed \cup {p} /\ UNCHANGED <<bouquets, hadBefore>>
  BY DEF ListPill
<1>2. \A k : SoundBloom(k)' <=> SoundBloom(k)
  BY <1>1 DEF SoundBloom
<1> QED BY <1>1, <1>2 DEF BouquetsInv, BouquetsTypeOK, BouquetsAreNew

LEMMA Expanded == ASSUME BouquetsInv, NEW p \in Bud, Expand(p) PROVE BouquetsInv'
<1> DEFINE new == [bud |-> p, stage |-> "asking", accepted |-> <<>>, seen |-> {}]
           n == Len(bouquets)
<1>1. /\ bouquets' = Append(bouquets, new) /\ n < MaxBouquets
      /\ UNCHANGED <<listed, hadBefore>>
  BY DEF Expand
<1>2. <<>> \in Items(BouquetSize)
  <2>1. <<>> \in Seq(Wording) /\ Len(<<>>) = 0 /\ BouquetSize \in Nat
    BY BouquetsAssumption
  <2> DEFINE none == <<>>
  <2> HIDE DEF none
  <2>2. none \in Seq(Wording) /\ Len(none) <= BouquetSize /\ BouquetSize \in Nat
    BY <2>1 DEF none
  <2>3. none \in Items(BouquetSize)
    BY <2>2, ItemsAreLists
  <2> QED BY <2>3 DEF none
<1>3. new \in Blooms /\ new.seen = {} /\ new.stage = "asking" /\ new.accepted = <<>>
  BY <1>2 DEF Blooms
<1> HIDE DEF new
<1>4. /\ bouquets' \in Seq(Blooms) /\ Len(bouquets') = n + 1 /\ n \in Nat
      /\ DOMAIN bouquets = 1..n /\ DOMAIN bouquets' = 1..(n + 1)
      /\ \A k \in 1..n : bouquets'[k] = bouquets[k]
      /\ bouquets'[n + 1] = new
  <2>1. bouquets \in Seq(Blooms) /\ n \in Nat /\ DOMAIN bouquets = 1..n
    BY DEF BouquetsInv
  <2> HIDE DEF n
  <2>2. /\ Append(bouquets, new) \in Seq(Blooms)
        /\ Len(Append(bouquets, new)) = Len(bouquets) + 1
        /\ \A k \in 1..Len(bouquets) : Append(bouquets, new)[k] = bouquets[k]
        /\ Append(bouquets, new)[Len(bouquets) + 1] = new
    BY <1>3, <2>1, AppendProperties
  <2>3. Len(bouquets) = n
    BY DEF n
  <2>4. Len(bouquets') = n + 1 /\ bouquets' \in Seq(Blooms)
    BY <1>1, <2>2, <2>3
  <2>5. DOMAIN bouquets' = 1..(n + 1)
    BY <2>4
  <2> QED BY <1>1, <2>1, <2>2, <2>3, <2>4, <2>5
<1> HIDE DEF n
<1>5. \A k \in 1..(n + 1) : k \in 1..n \/ k = n + 1
  BY <1>4
<1>6. 1..n \subseteq 1..(n + 1)
  BY <1>4
<1>7. ASSUME NEW k \in 1..(n + 1) PROVE SoundBloom(k)'
  <2>1. CASE k = n + 1
    BY <1>3, <1>4, <2>1 DEF SoundBloom
  <2>2. CASE k \in 1..n
    <3>1. SoundBloom(k) /\ bouquets'[k] = bouquets[k]
      BY <1>4, <2>2 DEF BouquetsInv
    <3>2. \A j \in bouquets[k].seen : j \in DOMAIN bouquets' /\ bouquets'[j].stage = "shown"
      BY <1>4, <1>6, <3>1 DEF SoundBloom
    <3> QED BY <1>1, <3>1, <3>2 DEF SoundBloom
  <2> QED BY <1>5, <2>1, <2>2
<1>8. BouquetsAreNew'
  <2> SUFFICES ASSUME NEW k \in 1..(n + 1), NEW j \in bouquets'[k].seen,
                      NEW t \in ToSet(bouquets'[k].accepted), NEW u \in ToSet(bouquets'[j].accepted)
               PROVE  <<t, u>> \notin Echo
    BY <1>4 DEF BouquetsAreNew
  <2>1. k \in 1..n
    BY <1>3, <1>4, <1>5
  <2>2. j \in 1..n
    BY <1>4, <2>1 DEF BouquetsInv, SoundBloom
  <2> QED BY <1>4, <2>1, <2>2 DEF BouquetsInv, BouquetsAreNew
<1>9. BouquetsTypeOK'
  <2>1. \A k \in DOMAIN bouquets' : bouquets'[k] \in Blooms
    BY <1>4
  <2>2. Len(bouquets') <= MaxBouquets
    BY <1>1, <1>4, BouquetsAssumption DEF n
  <2> QED BY <1>1, <2>1, <2>2 DEF BouquetsInv, BouquetsTypeOK
<1> QED BY <1>1, <1>4, <1>7, <1>8, <1>9 DEF BouquetsInv

(* What all the steps of one bouquet share.                                *)
LEMMA BloomIsTyped ==
    ASSUME BouquetsInv, NEW k \in DOMAIN bouquets
    PROVE  /\ bouquets[k] \in Blooms /\ bouquets[k].bud \in Bud
           /\ DOMAIN bouquets \subseteq 1..MaxBouquets
           /\ hadBefore \in [Bud -> Seq(Wording)]
           /\ bouquets[k].accepted \in Seq(Wording)
           /\ bouquets[k].stage # "shown" => k \notin bouquets[k].seen
           /\ \A j \in bouquets[k].seen :
                 \A t \in ToSet(bouquets[k].accepted), u \in ToSet(bouquets[j].accepted) :
                    <<t, u>> \notin Echo
<1>1. bouquets[k] \in Blooms /\ bouquets[k].bud \in Bud /\ bouquets[k].accepted \in Items(BouquetSize)
  BY DEF BouquetsInv, BouquetsTypeOK, Blooms
<1>2. DOMAIN bouquets = 1..Len(bouquets) /\ Len(bouquets) <= MaxBouquets /\ Len(bouquets) \in Nat
  BY DEF BouquetsInv, BouquetsTypeOK
<1>3. DOMAIN bouquets \subseteq 1..MaxBouquets
  BY <1>2, BouquetsAssumption
<1>4. bouquets[k].accepted \in Seq(Wording)
  BY <1>1, ItemsAreLists, BouquetsAssumption
<1>5. SoundBloom(k) /\ BouquetsAreNew
  BY DEF BouquetsInv
<1> QED BY <1>1, <1>3, <1>4, <1>5 DEF BouquetsInv, SoundBloom, BouquetsAreNew

LEMMA Arrived ==
    ASSUME BouquetsInv, NEW k \in DOMAIN bouquets, NEW items \in Items(BouquetSize + 1),
           ModelAnswers(k, items)
    PROVE  BouquetsInv'
<1> DEFINE p == bouquets[k].bud
           new == [bouquets[k] EXCEPT !.stage = "filtered", !.accepted = Accepted(p, items),
                                      !.seen = ShownOf(p)]
<1>1. /\ bouquets[k].stage = "asking" /\ bouquets' = [bouquets EXCEPT ![k] = new]
      /\ listed' = listed /\ hadBefore' = hadBefore
  BY DEF ModelAnswers
<1>2. /\ bouquets[k] \in Blooms /\ p \in Bud /\ DOMAIN bouquets \subseteq 1..MaxBouquets
      /\ hadBefore \in [Bud -> Seq(Wording)]
  BY BloomIsTyped
<1>3. items \in Seq(Wording)
  BY ItemsAreLists, BouquetsAssumption
<1>4. /\ Accepted(p, items) \in Items(BouquetSize)
      /\ \A t \in ToSet(Accepted(p, items)) : ~TooClose(p, t)
  BY <1>2, <1>3, AcceptedAreDistant
<1>5. /\ ShownOf(p) \in SUBSET (1..MaxBouquets) /\ k \notin ShownOf(p)
      /\ \A j \in ShownOf(p) : /\ j \in DOMAIN bouquets /\ bouquets[j].stage = "shown"
                               /\ bouquets[j].bud = p
  BY <1>1, <1>2 DEF ShownOf
<1>6. \A j \in ShownOf(p) : ToSet(bouquets[j].accepted) \subseteq ToSet(hadBefore[p])
  BY <1>5 DEF BouquetsInv, SoundBloom
<1> DEFINE acc == Accepted(p, items)
           sho == ShownOf(p)
<1> HIDE DEF acc, sho
<1>7. new = [bouquets[k] EXCEPT !.stage = "filtered", !.accepted = acc, !.seen = sho]
  BY DEF acc, sho
<1>8. acc \in Items(BouquetSize) /\ sho \in SUBSET (1..MaxBouquets)
  BY <1>4, <1>5 DEF acc, sho
<1>9. /\ new \in Blooms /\ new.bud = p /\ new.stage = "filtered" /\ new.accepted = acc
      /\ new.seen = sho
  BY <1>2, <1>7, <1>8 DEF Blooms
<1> HIDE DEF new
<1>10. \A j \in new.seen : \A t \in ToSet(new.accepted), u \in ToSet(bouquets[j].accepted) :
          <<t, u>> \notin Echo
  BY <1>4, <1>6, <1>9 DEF TooClose, acc, sho
<1>11. bouquets'[k] = new /\ DOMAIN bouquets' = DOMAIN bouquets
       /\ \A j \in DOMAIN bouquets : j # k => bouquets'[j] = bouquets[j]
  BY <1>1 DEF BouquetsInv
<1>12. SoundBloom(k)'
  BY <1>5, <1>9, <1>11 DEF SoundBloom, sho
<1> HIDE DEF p
<1> QED BY <1>1, <1>2, <1>5, <1>9, <1>10, <1>12, BloomChanges DEF p, sho

LEMMA MovedOn ==
    ASSUME BouquetsInv, NEW k \in DOMAIN bouquets, NEW stage \in {"failed", "remembered", "shown"},
           bouquets' = [bouquets EXCEPT ![k].stage = stage], listed' = listed,
           bouquets[k].stage # "shown",
           hadBefore' \in [Bud -> Seq(Wording)],
           \A p \in Bud : ToSet(hadBefore[p]) \subseteq ToSet(hadBefore'[p]),
           stage # "failed" =>
              ToSet(bouquets[k].accepted) \subseteq ToSet(hadBefore'[bouquets[k].bud])
    PROVE  BouquetsInv'
<1> DEFINE new == [bouquets[k] EXCEPT !.stage = stage]
<1>1. bouquets' = [bouquets EXCEPT ![k] = new]
  OBVIOUS
<1>2. bouquets[k] \in Blooms /\ k \notin bouquets[k].seen
  BY BloomIsTyped
<1>3. /\ new \in Blooms /\ new.bud = bouquets[k].bud /\ new.accepted = bouquets[k].accepted
      /\ new.seen = bouquets[k].seen /\ new.stage = stage
  BY <1>2 DEF Blooms
<1> HIDE DEF new
<1>4. bouquets'[k] = new /\ DOMAIN bouquets' = DOMAIN bouquets
      /\ \A j \in DOMAIN bouquets : j # k => bouquets'[j] = bouquets[j]
  BY <1>1 DEF BouquetsInv
<1>5. SoundBloom(k)
  BY DEF BouquetsInv
<1>6. SoundBloom(k)'
  BY <1>2, <1>3, <1>4, <1>5 DEF SoundBloom
<1>7. \A j \in new.seen : \A t \in ToSet(new.accepted), u \in ToSet(bouquets[j].accepted) :
         <<t, u>> \notin Echo
  BY <1>3, BloomIsTyped
<1> QED BY <1>1, <1>2, <1>3, <1>6, <1>7, BloomChanges

LEMMA BouquetsStep == BouquetsInv /\ [BouquetsNext]_bouquetVars => BouquetsInv'
<1> SUFFICES ASSUME BouquetsInv, [BouquetsNext]_bouquetVars PROVE BouquetsInv'
  OBVIOUS
<1>1. CASE UNCHANGED bouquetVars
  <2>1. UNCHANGED <<listed, bouquets, hadBefore>>
    BY <1>1 DEF bouquetVars
  <2>2. \A k : SoundBloom(k)' <=> SoundBloom(k)
    BY <2>1 DEF SoundBloom
  <2> QED BY <2>1, <2>2 DEF BouquetsInv, BouquetsTypeOK, BouquetsAreNew
<1>2. ASSUME NEW k \in DOMAIN bouquets, ModelFails(k) PROVE BouquetsInv'
  <2>1. /\ bouquets[k].stage = "asking" /\ bouquets' = [bouquets EXCEPT ![k].stage = "failed"]
        /\ listed' = listed /\ hadBefore' = hadBefore
    BY <1>2 DEF ModelFails
  <2> QED BY <2>1, MovedOn, BloomIsTyped
<1>3. ASSUME NEW k \in DOMAIN bouquets, Remember(k) PROVE BouquetsInv'
  <2> DEFINE p == bouquets[k].bud
             a == bouquets[k].accepted
  <2>1. /\ bouquets[k].stage = "filtered"
        /\ hadBefore' = [hadBefore EXCEPT ![p] = hadBefore[p] \o a]
        /\ bouquets' = [bouquets EXCEPT ![k].stage = "remembered"] /\ listed' = listed
    BY <1>3 DEF Remember, Remembered
  <2>2. p \in Bud /\ hadBefore \in [Bud -> Seq(Wording)] /\ a \in Seq(Wording)
    BY BloomIsTyped
  <2> HIDE DEF p, a
  <2>3. hadBefore[p] \in Seq(Wording)
    BY <2>2
  <2>4. /\ hadBefore[p] \o a \in Seq(Wording)
        /\ ToSet(hadBefore[p]) \subseteq ToSet(hadBefore[p] \o a)
        /\ ToSet(a) \subseteq ToSet(hadBefore[p] \o a)
    BY <2>2, <2>3, HistoriesGrow
  <2>5. hadBefore' \in [Bud -> Seq(Wording)] /\ hadBefore'[p] = hadBefore[p] \o a
    BY <2>1, <2>2, <2>4
  <2>6. \A q \in Bud : ToSet(hadBefore[q]) \subseteq ToSet(hadBefore'[q])
    BY <2>1, <2>2, <2>4
  <2>7. ToSet(a) \subseteq ToSet(hadBefore'[p])
    BY <2>4, <2>5
  <2> QED BY <2>1, <2>5, <2>6, <2>7, MovedOn DEF p, a
<1>4. ASSUME NEW k \in DOMAIN bouquets, Show(k) PROVE BouquetsInv'
  <2>1. /\ bouquets[k].stage = "remembered" /\ bouquets' = [bouquets EXCEPT ![k].stage = "shown"]
        /\ listed' = listed /\ hadBefore' = hadBefore
    BY <1>4 DEF Show
  <2>2. ToSet(bouquets[k].accepted) \subseteq ToSet(hadBefore[bouquets[k].bud])
    BY <2>1 DEF BouquetsInv, SoundBloom
  <2> QED BY <2>1, <2>2, MovedOn, BloomIsTyped
<1>5. ASSUME NEW p \in Bud, ExpandRefused(p) PROVE BouquetsInv'
  BY <1>1, <1>5 DEF ExpandRefused
<1> QED BY <1>1, <1>2, <1>3, <1>4, <1>5, Listed, Expanded, Arrived DEF BouquetsNext

LEMMA BouquetsHold == BouquetsSpec => [](BouquetsTypeOK /\ BouquetsAreNew)
<1>1. BouquetsInv => BouquetsTypeOK /\ BouquetsAreNew
  BY DEF BouquetsInv
<1> QED BY <1>1, BouquetsStart, BouquetsStep, PTL DEF BouquetsSpec

-----------------------------------------------------------------------------
(* The parts together.  A step of the Desk is a step of each part, or      *)
(* leaves it as it was.                                                    *)
LEMMA PartsStart ==
    DeskInit => HeatInit /\ AnalysesInit /\ TriggersInit /\ VoicesInit /\ BouquetsInit
BY DEF DeskInit

LEMMA PartsStep ==
    [DeskNext]_deskVars =>
        /\ [HeatNext]_heatVars /\ [AnalysesNext]_analysisVars
        /\ [TriggersNext]_triggerVars /\ [VoicesNext]_voiceVars
        /\ [BouquetsNext]_bouquetVars
<1>1. UNCHANGED deskVars =>
        UNCHANGED <<heatVars, analysisVars, triggerVars, voiceVars, bouquetVars>>
  BY DEF deskVars
<1>2. HeatPart => [HeatNext]_heatVars
  BY DEF HeatPart, HeatNext
<1>3. DeskNext =>
        /\ HeatPart /\ [AnalysesNext]_analysisVars
        /\ [TriggersNext]_triggerVars /\ [VoicesNext]_voiceVars
        /\ [BouquetsNext]_bouquetVars
  BY DEF DeskNext
<1> QED BY <1>1, <1>2, <1>3

LEMMA PartsHold ==
    DeskSpec => HeatSpec /\ AnalysesSpec /\ TriggersSpec /\ VoicesSpec /\ BouquetsSpec
BY PartsStart, PartsStep, PTL
   DEF DeskSpec, HeatSpec, AnalysesSpec, TriggersSpec, VoicesSpec, BouquetsSpec

(* What is measured of a text is of that text, or of one lately written    *)
(* (the tracker and the toggles of the heat map, its budget, block_analyze *)
(* and the sidecar's answers).                                             *)
THEOREM ReadingsAreAlwaysCurrent == DeskSpec => []ReadingsAreCurrent
<1>1. HeatIsSound /\ AnalysesTypeOK /\ MetricsLagIsBounded => ReadingsAreCurrent
  BY DEF ReadingsAreCurrent
<1> QED BY <1>1, PartsHold, HeatHolds, AnalysesHold, PTL

(* A raised sensitivity takes no trigger away and lets no weaker one win,  *)
(* a present character is not passed over, and a bouquet repeats none the  *)
(* writer has seen (pick_best_trigger, VoiceRouter, on_expand).            *)
THEOREM WhispersAreAlwaysFair == DeskSpec => WhispersAreFair
BY PartsHold, RisesAreFair, VoicesAreFair, BouquetsHold, PTL DEF WhispersAreFair
=============================================================================
