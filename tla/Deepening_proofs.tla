-------------------------- MODULE Deepening_proofs --------------------------
(***************************************************************************)
(* Proofs about the tree of thoughts, that deepening uses it so, and that  *)
(* what the panels show is what it holds.                                  *)
(***************************************************************************)
EXTENDS Deepening, WellFoundedInduction, TLAPS

(* The trim works on a copy of the table it only takes thoughts from, none *)
(* of them spared, and not one more after the caps were met.               *)
TrimInv ==
    Trimming =>
        /\ InTransaction
        /\ spared = Protected(rows)
        /\ DOMAIN draft \subseteq DOMAIN rows
        /\ draft = Restrict(rows, DOMAIN draft)
        /\ spared \subseteq DOMAIN draft
        /\ \/ DOMAIN draft = DOMAIN rows
           \/ \E t \in DOMAIN rows \ DOMAIN draft :
                 Over(Restrict(rows, DOMAIN draft \cup {t}))

MintedInv ==
    /\ DOMAIN rows \subseteq 1 .. minted
    /\ InTransaction => DOMAIN draft \subseteq 1 .. minted

TreeInv == TreeTypeOK /\ MintedInv /\ TreeIsWhole /\ TrimInv

-----------------------------------------------------------------------------
LEMMA ProtectedIsClosed ==
    ASSUME NEW R, Whole(R)
    PROVE  /\ Protected(R) \subseteq DOMAIN R
           /\ Marked(R) \subseteq Protected(R)
           /\ UpClosed(R, Protected(R))
  BY DEF Protected, Marked, UpClosed, Whole

LEMMA InsertedIsWhole ==
    ASSUME NEW R, IsTable(R), Whole(R), NEW m \in Nat, DOMAIN R \subseteq 1 .. m,
           NEW ids, ids \subseteq Nat, \A i \in ids : i > m,
           ids \subseteq Thought,
           NEW row \in Row,
           \/ row.parent = None /\ row.depth = 0
           \/ row.parent \in DOMAIN R /\ row.depth = R[row.parent].depth + 1
    PROVE  IsTable(With(R, ids, row)) /\ Whole(With(R, ids, row))
  <1> DEFINE W == With(R, ids, row)
  <1>1. DOMAIN W = DOMAIN R \cup ids
    BY DEF With
  <1>2. IsTable(W)
    BY DEF With, IsTable
  <1>3. ASSUME NEW t \in DOMAIN W
        PROVE  \/ W[t].parent = None /\ W[t].depth = 0
               \/ /\ W[t].parent \in DOMAIN W /\ W[t].parent < t
                  /\ W[t].depth = W[W[t].parent].depth + 1
    <2>1. CASE t \in ids
      <3>1. W[t] = row
        BY <2>1 DEF With
      <3>2. CASE row.parent \in DOMAIN R
        <4>1. row.parent \in 1 .. m /\ row.parent \notin ids
          BY <3>2
        <4>2. W[row.parent] = R[row.parent]
          BY <4>1, <3>2 DEF With
        <4> QED
          BY <2>1, <3>1, <3>2, <4>1, <4>2, <1>1 DEF IsTable, Row, RabbitAssumption
      <3> QED
        BY <3>1, <3>2
    <2>2. CASE t \notin ids
      <3>1. t \in DOMAIN R /\ W[t] = R[t]
        BY <2>2, <1>1 DEF With
      <3>2. CASE R[t].parent \in DOMAIN R
        <4>1. R[t].parent \in 1 .. m /\ R[t].parent \notin ids
          BY <3>2
        <4>2. W[R[t].parent] = R[R[t].parent]
          BY <4>1, <3>2 DEF With
        <4> QED
          BY <3>1, <3>2, <4>2, <1>1 DEF Whole
      <3> QED
        BY <3>1, <3>2 DEF Whole
    <2> QED
      BY <2>1, <2>2
  <1> QED
    BY <1>2, <1>3 DEF Whole

LEMMA MarkedIsWhole ==
    ASSUME NEW R, IsTable(R), Whole(R), NEW t, NEW b \in BOOLEAN
    PROVE  LET N == [u \in DOMAIN R |->
                       IF u = t THEN [R[u] EXCEPT !.resonance = b] ELSE R[u]]
           IN  IsTable(N) /\ Whole(N) /\ DOMAIN N = DOMAIN R
  <1> DEFINE N == [u \in DOMAIN R |->
                     IF u = t THEN [R[u] EXCEPT !.resonance = b] ELSE R[u]]
  <1>1. DOMAIN N = DOMAIN R
    OBVIOUS
  <1>2. \A u \in DOMAIN R : /\ N[u] \in Row
                            /\ N[u].parent = R[u].parent /\ N[u].depth = R[u].depth
    BY DEF IsTable, Row
  <1>3. IsTable(N)
    BY <1>1, <1>2 DEF IsTable
  <1>4. Whole(N)
    <2> HIDE DEF N
    <2> QED
      BY <1>1, <1>2 DEF Whole
  <1> QED
    BY <1>1, <1>3, <1>4

LEMMA TrimmedIsWhole ==
    ASSUME NEW R, IsTable(R), Whole(R), NEW v, Leaf(R, v)
    PROVE  LET N == Restrict(R, DOMAIN R \ {v})
           IN  IsTable(N) /\ Whole(N) /\ DOMAIN N = DOMAIN R \ {v}
  BY DEF Restrict, Leaf, Whole, IsTable

LEMMA TreeStep == TreeInv /\ [TreeNext]_treeVars => TreeInv'
  <1> SUFFICES ASSUME TreeInv, [TreeNext]_treeVars PROVE TreeInv'
    OBVIOUS
  <1> USE RabbitAssumption
  <1>0. /\ IsTable(Seen) /\ Whole(Seen) /\ DOMAIN Seen \subseteq 1 .. minted
        /\ minted \in 0 .. MaxThoughts
    BY DEF TreeInv, TreeTypeOK, MintedInv, TreeIsWhole, Seen
  <1>1. ASSUME NEW m \in Message, InsertRoot(m) PROVE TreeInv'
    <2> DEFINE row == [parent |-> None, depth |-> 0, resonance |-> FALSE,
                       created |-> minted + 1, message |-> m]
               R == With(Seen, {minted + 1}, row)
    <2>1. minted + 1 \in Thought /\ row \in Row
      BY <1>0, <1>1 DEF InsertRoot, Thought, Row
    <2>2. IsTable(R) /\ Whole(R)
      <3> HIDE DEF R
      <3>1. row.parent = None /\ row.depth = 0
        OBVIOUS
      <3> HIDE DEF row
      <3> QED
        BY <1>0, <2>1, <3>1, InsertedIsWhole DEF R
    <2>3. DOMAIN R \subseteq 1 .. minted + 1
      BY <1>0 DEF With
    <2>4. /\ Store(R) /\ minted' = minted + 1 /\ spared' = spared /\ ~ Trimming
          /\ minted' \in 0 .. MaxThoughts
      BY <1>0, <1>1 DEF InsertRoot
    <2> HIDE DEF R
    <2> QED
      BY <2>2, <2>3, <2>4, <1>0
         DEF TreeInv, TreeTypeOK, MintedInv, TreeIsWhole, TrimInv, Store, InTransaction,
             Trimming
  <1>2. ASSUME NEW p \in Thought, NEW n \in 1 .. MaxFan, InsertChildren(p, n)
        PROVE  TreeInv'
    <2> DEFINE row == [parent |-> p, depth |-> rows[p].depth + 1, resonance |-> FALSE,
                       created |-> minted + 1, message |-> None]
               R == With(rows, Fresh(n), row)
    <2>1. /\ ~ Trimming /\ ~ InTransaction /\ p \in DOMAIN rows
          /\ minted + n <= MaxThoughts /\ rows' = R /\ minted' = minted + n
          /\ UNCHANGED <<draft, spared>>
      BY <1>2 DEF InsertChildren, CanFan
    <2>2. /\ IsTable(rows) /\ Whole(rows) /\ DOMAIN rows \subseteq 1 .. minted
      BY DEF TreeInv, TreeTypeOK, MintedInv, TreeIsWhole
    <2>3. /\ Fresh(n) \subseteq Thought /\ \A i \in Fresh(n) : i \in Nat /\ i > minted
          /\ Fresh(n) \subseteq 1 .. minted + n /\ minted + 1 \in Thought
      BY <1>0, <2>1 DEF Fresh, Thought
    <2>4. rows[p].depth \in Nat
      BY <2>1, <2>2 DEF IsTable, Row
    <2>5. row \in Row
      BY <2>3, <2>4 DEF Row
    <2>6. IsTable(R) /\ Whole(R)
      <3>1. row.parent \in DOMAIN rows /\ row.depth = rows[row.parent].depth + 1
        BY <2>1
      <3> HIDE DEF row
      <3> QED
        BY <1>0, <2>2, <2>3, <2>5, <3>1, InsertedIsWhole
    <2>7. DOMAIN R \subseteq 1 .. minted + n
      BY <1>0, <2>2, <2>3 DEF With
    <2> HIDE DEF R
    <2> QED
      BY <1>0, <2>1, <2>6, <2>7
         DEF TreeInv, TreeTypeOK, MintedInv, TreeIsWhole, TrimInv, InTransaction, Trimming
  <1>3. ASSUME NEW t \in Thought, NEW b \in BOOLEAN, SetResonance(t, b) PROVE TreeInv'
    <2> DEFINE R == [u \in DOMAIN Seen |->
                       IF u = t THEN [Seen[u] EXCEPT !.resonance = b] ELSE Seen[u]]
    <2>1. IsTable(R) /\ Whole(R) /\ DOMAIN R = DOMAIN Seen
      <3> HIDE DEF Seen
      <3> QED
        BY <1>0, MarkedIsWhole
    <2>2. Store(R) /\ ~ Trimming /\ UNCHANGED <<spared, minted>>
      BY <1>3 DEF SetResonance
    <2> HIDE DEF R
    <2> QED
      BY <1>0, <2>1, <2>2
         DEF TreeInv, TreeTypeOK, MintedInv, TreeIsWhole, TrimInv, Store, InTransaction,
             Trimming
  <1>4. CASE BeginTrim
    <2>1. /\ spared' = Protected(rows) /\ draft' = rows /\ UNCHANGED <<rows, minted>>
      BY <1>4 DEF BeginTrim
    <2>2. /\ IsTable(rows) /\ Whole(rows) /\ DOMAIN rows \subseteq 1 .. minted
      BY DEF TreeInv, TreeTypeOK, MintedInv, TreeIsWhole
    <2>3. Protected(rows) \subseteq DOMAIN rows
      BY DEF Protected
    <2>4. rows = Restrict(rows, DOMAIN rows)
      BY <2>2 DEF Restrict, IsTable
    <2>5. IsTable(rows') /\ IsTable(draft') /\ Whole(rows') /\ Whole(draft')
      BY <2>1, <2>2
    <2>6. TreeTypeOK' /\ MintedInv' /\ TreeIsWhole'
      BY <1>0, <2>1, <2>2, <2>3, <2>5
         DEF TreeTypeOK, MintedInv, TreeIsWhole, InTransaction, IsTable
    <2>7. rows # None
      BY <2>2 DEF IsTable, RabbitAssumption
    <2> QED
      BY <2>1, <2>3, <2>4, <2>6, <2>7 DEF TreeInv, TrimInv, InTransaction
  <1>5. CASE TrimLeaf
    <2>1. PICK v \in Trimmable(draft) : draft' = Restrict(draft, DOMAIN draft \ {v})
      BY <1>5 DEF TrimLeaf
    <2>2. /\ Trimming /\ Over(draft) /\ UNCHANGED <<rows, spared, minted>>
      BY <1>5 DEF TrimLeaf
    <2>3. /\ InTransaction /\ IsTable(draft) /\ Whole(draft)
          /\ v \in DOMAIN draft /\ v \notin spared /\ Leaf(draft, v)
      BY <2>1, <2>2 DEF TreeInv, TreeTypeOK, TreeIsWhole, TrimInv, Trimmable
    <2>4. /\ IsTable(draft') /\ Whole(draft') /\ DOMAIN draft' = DOMAIN draft \ {v}
      BY <2>1, <2>3, TrimmedIsWhole
    <2>5. draft' = Restrict(rows, DOMAIN draft')
      BY <2>1, <2>2, <2>3, <2>4 DEF TreeInv, TrimInv, Restrict
    <2>6. Restrict(rows, DOMAIN draft' \cup {v}) = draft
      BY <2>2, <2>3, <2>4 DEF TreeInv, TrimInv
    <2>11. TreeTypeOK'
      BY <2>2, <2>3, <2>4, <2>5, <2>6 DEF TreeInv, TreeTypeOK, InTransaction
    <2>12. MintedInv'
      BY <2>2, <2>3, <2>4, <2>5, <2>6 DEF TreeInv, MintedInv, InTransaction
    <2>13. TreeIsWhole'
      BY <2>2, <2>3, <2>4, <2>5, <2>6 DEF TreeInv, TreeIsWhole, InTransaction
    <2>14. TrimInv'
      <3>1. v \in DOMAIN rows \ DOMAIN draft'
        BY <2>2, <2>3, <2>4 DEF TreeInv, TrimInv
      <3>2. Over(Restrict(rows, DOMAIN draft' \cup {v}))
        BY <2>2, <2>6
      <3>3. draft' # None
        BY <2>4 DEF IsTable, RabbitAssumption
      <3>4. /\ spared' = Protected(rows) /\ DOMAIN draft' \subseteq DOMAIN rows
            /\ spared \subseteq DOMAIN draft'
        BY <2>2, <2>3, <2>4 DEF TreeInv, TrimInv
      <3> QED
        BY <2>2, <2>5, <3>1, <3>2, <3>3, <3>4 DEF TrimInv, InTransaction, Trimming
    <2> QED
      BY <2>11, <2>12, <2>13, <2>14 DEF TreeInv
  <1>6. CASE CommitTrim
    <2>1. rows' = draft /\ draft' = None /\ spared' = None /\ minted' = minted
          /\ InTransaction
      BY <1>6 DEF CommitTrim, TreeInv, TrimInv
    <2>11. TreeTypeOK'
      BY <1>0, <2>1 DEF TreeInv, TreeTypeOK, InTransaction
    <2>12. MintedInv'
      BY <1>0, <2>1 DEF TreeInv, MintedInv, InTransaction
    <2>13. TreeIsWhole'
      BY <1>0, <2>1 DEF TreeInv, TreeIsWhole, InTransaction
    <2>14. TrimInv'
      BY <1>0, <2>1 DEF TreeInv, TrimInv, InTransaction, Trimming
    <2> QED
      BY <2>11, <2>12, <2>13, <2>14 DEF TreeInv
  <1>7. CASE FailTrim
    <2>1. /\ spared' = None /\ draft' \in {draft, None} /\ UNCHANGED <<rows, minted>>
      BY <1>7 DEF FailTrim
    <2>11. TreeTypeOK'
      BY <1>0, <2>1 DEF TreeInv, TreeTypeOK, InTransaction
    <2>12. MintedInv'
      BY <1>0, <2>1 DEF TreeInv, MintedInv, InTransaction
    <2>13. TreeIsWhole'
      BY <1>0, <2>1 DEF TreeInv, TreeIsWhole, InTransaction
    <2>14. TrimInv'
      BY <1>0, <2>1 DEF TreeInv, TrimInv, InTransaction, Trimming
    <2> QED
      BY <2>11, <2>12, <2>13, <2>14 DEF TreeInv
  <1>8. CASE Disconnect
    <2>1. draft' = None /\ spared' = None /\ rows' = rows /\ minted' = minted
      BY <1>8 DEF Disconnect
    <2>11. TreeTypeOK'
      BY <1>0, <2>1 DEF TreeInv, TreeTypeOK, InTransaction
    <2>12. MintedInv'
      BY <1>0, <2>1 DEF TreeInv, MintedInv, InTransaction
    <2>13. TreeIsWhole'
      BY <1>0, <2>1 DEF TreeInv, TreeIsWhole, InTransaction
    <2>14. TrimInv'
      BY <1>0, <2>1 DEF TreeInv, TrimInv, InTransaction, Trimming
    <2> QED
      BY <2>11, <2>12, <2>13, <2>14 DEF TreeInv
  <1>9. CASE UNCHANGED treeVars
    <2>1. TreeTypeOK'
      BY <1>9 DEF treeVars, TreeInv, TreeTypeOK, InTransaction
    <2>2. MintedInv'
      BY <1>9 DEF treeVars, TreeInv, MintedInv, InTransaction
    <2>3. TreeIsWhole'
      BY <1>9 DEF treeVars, TreeInv, TreeIsWhole, InTransaction
    <2>4. TrimInv'
      BY <1>9 DEF treeVars, TreeInv, TrimInv, InTransaction, Trimming
    <2> QED
      BY <2>1, <2>2, <2>3, <2>4 DEF TreeInv
  <1> QED
    BY <1>1, <1>2, <1>3, <1>4, <1>5, <1>6, <1>7, <1>8, <1>9 DEF TreeNext

LEMMA TreeStart == TreeInit => TreeInv
  <1> SUFFICES ASSUME TreeInit PROVE TreeInv
    OBVIOUS
  <1>1. rows \in [{} -> Row] /\ DOMAIN rows = {}
    BY DEF TreeInit
  <1>2. ~ InTransaction /\ ~ Trimming /\ minted \in 0 .. MaxThoughts
    BY RabbitAssumption DEF TreeInit, InTransaction, Trimming
  <1>3. IsTable(rows) /\ Whole(rows)
    BY <1>1 DEF IsTable, Whole
  <1> QED
    BY <1>1, <1>2, <1>3
       DEF TreeInit, TreeInv, TreeTypeOK, MintedInv, TreeIsWhole, TrimInv

LEMMA TreeAlways == TreeSpec => []TreeInv
  BY TreeStart, TreeStep, PTL DEF TreeSpec

(* No thought is ever orphaned and every depth counts the chain to the     *)
(* root, for trees of any size, any caps and any failure of a trim.        *)
THEOREM NoThoughtIsOrphaned == TreeSpec => [](TreeTypeOK /\ TreeIsWhole)
  <1>1. TreeInv => TreeTypeOK /\ TreeIsWhole
    BY DEF TreeInv
  <1> QED
    BY <1>1, TreeAlways, PTL

-----------------------------------------------------------------------------
LEMMA HasMaximum ==
    ASSUME NEW m \in Nat, NEW S, S \subseteq 1 .. m, S # {}
    PROVE  \E x \in S : \A y \in S : y <= x
  <1> DEFINE T == {m - x : x \in S}
             R == {ss \in Nat \X Nat : ss[1] < ss[2]}
  <1>1. T \subseteq Nat /\ T # {}
    <2>1. PICK x \in S : TRUE
      OBVIOUS
    <2>2. m - x \in T
      OBVIOUS
    <2>3. \A y \in S : m - y \in Nat
      OBVIOUS
    <2> QED
      BY <2>2, <2>3
  <1>2. PICK z \in T : \A y \in T : ~ (<<y, z>> \in R)
    <2> HIDE DEF T, R
    <2>1. IsWellFoundedOn(R, Nat)
      BY NatLessThanWellFounded DEF R, OpToRel
    <2> QED
      BY <1>1, <2>1, WFMin
  <1>3. PICK x \in S : z = m - x
    OBVIOUS
  <1>4. \A y \in S : ~ (m - y < z)
    BY <1>1, <1>2
  <1> QED
    BY <1>3, <1>4

(* When a trim has no leaf left to take, it has nothing left to take: the  *)
(* youngest unprotected thought has no children, whose chain would protect *)
(* it, so the reparenting pass of auto_trim never meets a thought.         *)
THEOREM InteriorIsNeverTrimmed == TreeSpec => []SecondPassIsIdle
  <1>1. TreeInv => SecondPassIsIdle
    <2> SUFFICES ASSUME TreeInv, Trimming, Trimmable(draft) = {},
                        NEW x \in TrimmableInterior(draft)
                 PROVE  FALSE
      BY DEF SecondPassIsIdle
    <2>1. /\ Whole(draft) /\ Whole(rows) /\ DOMAIN draft \subseteq 1 .. minted
          /\ minted \in Nat /\ spared = Protected(rows) /\ draft = Restrict(rows, DOMAIN draft)
          /\ DOMAIN draft \subseteq DOMAIN rows
      BY RabbitAssumption
         DEF TreeInv, TreeTypeOK, MintedInv, TreeIsWhole, TrimInv, IsTable
    <2>2. Marked(rows) \subseteq spared /\ UpClosed(rows, spared)
      BY <2>1, ProtectedIsClosed
    <2>3. \A t \in DOMAIN draft : draft[t] = rows[t]
      BY <2>1 DEF Restrict
    <2> DEFINE U == DOMAIN draft \ spared
    <2>4. x \in U
      BY DEF TrimmableInterior
    <2>5. PICK t \in U : \A y \in U : y <= t
      <3>1. U \subseteq 1 .. minted
        BY <2>1
      <3> HIDE DEF U
      <3> QED
        BY <3>1, <2>1, <2>4, HasMaximum
    <2>6. Leaf(draft, t)
      <3> SUFFICES ASSUME NEW u \in DOMAIN draft, draft[u].parent = t PROVE FALSE
        BY DEF Leaf
      <3>1. t \in Nat /\ u \in Nat /\ t # None
        BY <2>1, <2>5, RabbitAssumption
      <3>2. t < u
        BY <2>1, <3>1 DEF Whole
      <3>3. u \in spared
        BY <2>5, <3>1, <3>2
      <3>4. t \in spared
        BY <2>2, <2>3, <3>1, <3>3 DEF UpClosed
      <3> QED
        BY <2>5, <3>4
    <2>7. ~ draft[t].resonance
      BY <2>1, <2>2, <2>3, <2>5 DEF Marked
    <2> QED
      BY <2>5, <2>6, <2>7 DEF Trimmable
  <1> QED
    BY <1>1, TreeAlways, PTL

(* No trim, complete or cut short, takes a resonant thought or one that a  *)
(* resonant thought descends from.                                         *)
THEOREM ResonantChainsAreKept == TreeSpec => ResonantChainsStay
  <1> DEFINE A == \A t \in DOMAIN rows \ DOMAIN rows' :
                    /\ ~ rows[t].resonance
                    /\ \A u \in DOMAIN rows' \cap DOMAIN rows : rows[u].parent # t
  <1>1. TreeInv /\ [TreeNext]_treeVars => [A]_treeVars
    <2> SUFFICES ASSUME TreeInv, TreeNext, NEW t \in DOMAIN rows \ DOMAIN rows'
                 PROVE  /\ ~ rows[t].resonance
                        /\ \A u \in DOMAIN rows' \cap DOMAIN rows : rows[u].parent # t
      OBVIOUS
    <2>1. CommitTrim
      <3>1. ASSUME NEW m \in Message, InsertRoot(m) PROVE FALSE
        BY <3>1 DEF InsertRoot, Store, Seen, With
      <3>2. ASSUME NEW p \in Thought, NEW n \in 1 .. MaxFan, InsertChildren(p, n)
            PROVE  FALSE
        BY <3>2 DEF InsertChildren, With
      <3>3. ASSUME NEW v \in Thought, NEW b \in BOOLEAN, SetResonance(v, b) PROVE FALSE
        BY <3>3 DEF SetResonance, Store, Seen
      <3>4. ASSUME BeginTrim \/ TrimLeaf \/ FailTrim \/ Disconnect PROVE FALSE
        BY <3>4 DEF BeginTrim, TrimLeaf, FailTrim, Disconnect
      <3> QED
        BY <3>1, <3>2, <3>3, <3>4 DEF TreeNext
    <2>2. /\ rows' = draft /\ draft = Restrict(rows, DOMAIN draft) /\ Whole(draft)
          /\ Whole(rows) /\ IsTable(rows) /\ Protected(rows) \subseteq DOMAIN draft
      BY <2>1 DEF CommitTrim, TreeInv, TreeTypeOK, TreeIsWhole, TrimInv
    <2>3. ~ rows[t].resonance
      BY <2>2, ProtectedIsClosed DEF Marked
    <2>4. ASSUME NEW u \in DOMAIN draft, rows[u].parent = t PROVE FALSE
      <3>1. draft[u].parent = t /\ t # None
        BY <2>2, <2>4, RabbitAssumption DEF Restrict, IsTable, Thought
      <3> QED
        BY <2>2, <3>1 DEF Whole
    <2> QED
      BY <2>2, <2>3, <2>4
  <1> QED
    BY <1>1, TreeAlways, PTL DEF TreeSpec, ResonantChainsStay

(* A trim takes no thought more than the caps demand.                      *)
THEOREM TrimsAreMinimal == TreeSpec => TrimStopsAtTheCaps
  <1> DEFINE A == Trimming /\ DOMAIN rows' # DOMAIN rows =>
                    \E t \in DOMAIN rows \ DOMAIN rows' :
                        Over(Restrict(rows, DOMAIN rows' \cup {t}))
  <1>1. TreeInv /\ [TreeNext]_treeVars => [A]_treeVars
    <2> SUFFICES ASSUME TreeInv, TreeNext, Trimming, DOMAIN rows' # DOMAIN rows
                 PROVE  \E t \in DOMAIN rows \ DOMAIN rows' :
                            Over(Restrict(rows, DOMAIN rows' \cup {t}))
      OBVIOUS
    <2>1. CommitTrim
      BY DEF TreeNext, InsertRoot, InsertChildren, SetResonance, BeginTrim, TrimLeaf,
             FailTrim, Disconnect
    <2> QED
      BY <2>1 DEF CommitTrim, TreeInv, TrimInv
  <1> QED
    BY <1>1, TreeAlways, PTL DEF TreeSpec, TrimStopsAtTheCaps

-----------------------------------------------------------------------------
InboxInv == inbox \in Seq(DeepenRequest) /\ calls \in [DeepenRequest -> Nat]

LEMMA ClicksAreRequests ==
    /\ \A p \in Pill : Asking(p) \in DeepenRequest
    /\ \A t \in Thought : Below(t) \in DeepenRequest
    /\ \A t \in Thought, on \in BOOLEAN : Mark(t, on) \in DeepenRequest
  BY DEF Asking, Below, Mark, DeepenRequest

LEMMA CallIsCounted ==
    ASSUME InboxInv, NEW r \in DeepenRequest, Call(r)
    PROVE  calls' \in [DeepenRequest -> Nat]
  BY DEF InboxInv, Call

LEMMA InboxStep == InboxInv /\ [DeepNext]_deepVars => InboxInv'
  <1> SUFFICES ASSUME InboxInv, [DeepNext]_deepVars PROVE InboxInv'
    OBVIOUS
  <1>1. ASSUME NEW p \in Pill, NEW t \in Thought, Descend(p, t) PROVE InboxInv'
    BY <1>1, ClicksAreRequests, CallIsCounted DEF Descend, serviceVars, InboxInv
  <1>2. ASSUME NEW p \in Pill, NEW t \in Thought, ToggleResonance(p, t) PROVE InboxInv'
    <2>1. /\ inbox' = inbox
          /\ \E on \in BOOLEAN : Call(Mark(t, on))
      BY <1>2 DEF ToggleResonance, serviceVars
    <2> QED
      BY <2>1, ClicksAreRequests, CallIsCounted DEF InboxInv
  <1>3. ASSUME NEW p \in Pill, CallDeepen(p) PROVE InboxInv'
    BY <1>3, ClicksAreRequests DEF CallDeepen, InboxInv
  <1>4. ASSUME NEW p \in Pill, ClosePanel(p) PROVE InboxInv'
    BY <1>4, ClicksAreRequests, CallIsCounted DEF ClosePanel, serviceVars, InboxInv
  <1>5. ASSUME NEW r \in DeepenRequest, Deliver(r) PROVE InboxInv'
    <2>1. calls[r] \in Nat /\ calls[r] > 0
      BY <1>5 DEF Deliver, InboxInv
    <2>2. calls[r] - 1 \in Nat
      BY <2>1
    <2> QED
      BY <1>5, <2>2 DEF Deliver, InboxInv
  <1>6. CASE Serve
    <2>1. inbox # <<>> /\ inbox' = Tail(inbox) /\ calls' = calls
      BY <1>6 DEF Serve, DeepenPillRefused, DeepenPill, DeepenThought, MarkThought, MarkFails,
                  Ready, Taken
    <2> QED
      BY <2>1 DEF InboxInv
  <1>7. CASE Reopen \/ Crash
    <2>1. calls' \in [DeepenRequest -> Nat]
      <3>1. CASE Reopen
        BY <3>1 DEF Reopen, InboxInv
      <3>2. CASE Crash
        BY <3>2 DEF Crash, NoCalls
      <3> QED
        BY <1>7, <3>1, <3>2
    <2>2. <<>> \in Seq(DeepenRequest)
      OBVIOUS
    <2> QED
      BY <1>7, <2>1, <2>2 DEF Reopen, Crash, InboxInv
  <1>8. ASSUME NEW p \in Pill,
               \/ OpenPanel(p) \/ HearFailures(p) \/ CallFails(p) \/ ArmTimer(p) \/ TimeOut(p)
               \/ \E level \in 1 .. MaxDepth : Ascend(p, level)
        PROVE  InboxInv'
    BY <1>8 DEF OpenPanel, HearFailures, CallFails, ArmTimer, TimeOut, Ascend, serviceVars,
                InboxInv
  <1>9. CASE \E f \in Fan : FanAnswers(f)
    BY <1>9 DEF FanAnswers, FanStored, FanEmpty, FanFailed, FanEnds, InboxInv
  <1>10. CASE SceneState \/ HearEvent \/ TrimAtStart \/ Trim \/ ReopenOver
    BY <1>10 DEF SceneState, HearEvent, TrimAtStart, Trim, ReopenOver, serviceVars, InboxInv
  <1>11. CASE UNCHANGED deepVars
    BY <1>11 DEF deepVars, serviceVars, InboxInv
  <1> QED
    BY <1>1, <1>2, <1>3, <1>4, <1>5, <1>6, <1>7, <1>8, <1>9, <1>10, <1>11
       DEF DeepNext, Mount

LEMMA DeepStepIsTreeStep ==
    TreeInv /\ InboxInv /\ [DeepNext]_deepVars => [TreeNext]_treeVars
  <1> SUFFICES ASSUME TreeInv, InboxInv, DeepNext PROVE TreeNext \/ UNCHANGED treeVars
    BY DEF deepVars
  <1>0. DOMAIN rows \subseteq Thought
    BY DEF TreeInv, TreeTypeOK, IsTable
  <1>1. ASSUME inbox # <<>> PROVE Head(inbox) \in DeepenRequest
    BY <1>1 DEF InboxInv
  <1>2. CASE DeepenPill
    <2>1. InsertRoot(Head(inbox).pill) /\ inbox # <<>> /\ Head(inbox).kind = "pill"
      BY <1>2 DEF DeepenPill, Ready
    <2>2. Head(inbox).pill \in Message
      BY <1>1, <2>1, DeepeningAssumption DEF DeepenRequest
    <2> QED
      BY <2>1, <2>2 DEF TreeNext
  <1>3. CASE MarkThought
    <2>1. /\ SetResonance(Head(inbox).thought, Head(inbox).on)
          /\ inbox # <<>> /\ Head(inbox).kind = "mark"
      BY <1>3 DEF MarkThought, Ready
    <2>2. Head(inbox).thought \in Thought /\ Head(inbox).on \in BOOLEAN
      BY <1>1, <2>1 DEF DeepenRequest
    <2> QED
      BY <2>1, <2>2 DEF TreeNext
  <1>4. CASE DeepenPillRefused \/ DeepenThought \/ MarkFails
    BY <1>4 DEF DeepenPillRefused, DeepenThought, MarkFails
  <1>5. ASSUME NEW f \in Fan, FanAnswers(f) PROVE TreeNext \/ UNCHANGED treeVars
    <2>1. CASE FanStored(f)
      <3>1. PICK n \in 1 .. MaxFan : InsertChildren(fan[f], n)
        BY <2>1 DEF FanStored
      <3>2. fan[f] \in Thought
        BY <1>0, <3>1 DEF InsertChildren, CanFan
      <3> QED
        BY <3>1, <3>2 DEF TreeNext
    <2>2. CASE FanEmpty(f) \/ FanFailed(f)
      BY <2>2 DEF FanEmpty, FanFailed
    <2> QED
      BY <1>5, <2>1, <2>2 DEF FanAnswers
  <1>6. CASE TrimAtStart \/ Trim \/ Reopen \/ Crash
    BY <1>6 DEF TrimAtStart, Trim, Reopen, Crash, TreeNext
  <1>7. CASE SceneState \/ HearEvent \/ ReopenOver \/ (\E r \in DeepenRequest : Deliver(r))
    BY <1>7 DEF SceneState, HearEvent, ReopenOver, Deliver
  <1>8. ASSUME NEW p \in Pill,
               \/ OpenPanel(p) \/ Mount(p) \/ TimeOut(p) \/ ClosePanel(p)
               \/ \E t \in Thought : Descend(p, t) \/ ToggleResonance(p, t)
               \/ \E level \in 1 .. MaxDepth : Ascend(p, level)
        PROVE  UNCHANGED treeVars
    BY <1>8 DEF OpenPanel, Mount, HearFailures, CallDeepen, CallFails, ArmTimer, TimeOut,
                ClosePanel, Descend, ToggleResonance, Ascend
  <1> QED
    BY <1>2, <1>3, <1>4, <1>5, <1>6, <1>7, <1>8 DEF DeepNext, Serve

(* The service, its tasks and the trim at every opening only do to the     *)
(* table what the store of thoughts allows, so what holds of the store     *)
(* holds of the program.                                                   *)
THEOREM DeepeningUsesTheTree == DeepSpec => UsesTheTree
  <1>1. DeepInit => TreeInit /\ TreeInv /\ InboxInv
    <2>1. DeepInit => inbox \in Seq(DeepenRequest)
      BY DEF DeepInit
    <2>2. DeepInit => calls \in [DeepenRequest -> Nat]
      BY DEF DeepInit, NoCalls
    <2> QED
      BY <2>1, <2>2, TreeStart DEF DeepInit, InboxInv
  <1>2. TreeInv /\ InboxInv /\ [DeepNext]_deepVars => TreeInv' /\ InboxInv'
    BY InboxStep, DeepStepIsTreeStep, TreeStep
  <1> QED
    BY <1>1, <1>2, DeepStepIsTreeStep, PTL DEF DeepSpec, UsesTheTree, TreeSpec

COROLLARY DeepeningKeepsTheTree ==
    DeepSpec => [](TreeIsWhole /\ SecondPassIsIdle) /\ ResonantChainsStay /\ TrimStopsAtTheCaps
  BY DeepeningUsesTheTree, NoThoughtIsOrphaned, InteriorIsNeverTrimmed,
     ResonantChainsAreKept, TrimsAreMinimal, PTL DEF UsesTheTree

-----------------------------------------------------------------------------
(* What the panels and the events on their way owe the table R, when the   *)
(* trims have taken T from it.                                             *)
ChildIn(R, T, t, p) == t \in T \/ (t \in DOMAIN R /\ R[t].parent = p)

EventIsSound(e, R, T) ==
    /\ e.kind = "ready" => e.about \in Thought
    /\ \A t \in e.children : ChildIn(R, T, t, e.about)

PathIsSound(path, R, T) ==
    /\ path # <<>>
    /\ \A i \in 1 .. Len(path) :
          /\ i > 1 => /\ path[i - 1].children # Pending
                      /\ path[i].parent \in path[i - 1].children
          /\ path[i].children # Pending =>
               \A t \in path[i].children : ChildIn(R, T, t, path[i].parent)

PanelIsSound(q, R, T) ==
    /\ PathIsSound(q.path, R, T)
    /\ q.marked \subseteq DOMAIN R \cup T

(* A thought that was ever stored or taken is an old one.                  *)
HistoryInv == contested \subseteq Thought /\ taken \subseteq 1 .. minted

DeepShape ==
    /\ events \in Seq(DeepenEvent)
    /\ scene \in BOOLEAN
    /\ fan \in [Fan -> Thought \cup {NoFan}]
    /\ panel \in [Pill -> Panel \cup {Closed}]

DeepSound ==
    /\ \A i \in 1 .. Len(events) : EventIsSound(events[i], rows, taken)
    /\ \A p \in Pill : Open(p) => PanelIsSound(panel[p], rows, taken)

DeepInv == TreeInv /\ InboxInv /\ HistoryInv /\ DeepShape /\ DeepSound

-----------------------------------------------------------------------------
(* A level that waits for its children is one.                             *)
LEMMA WaitingIsALevel ==
    ASSUME NEW above \in Thought \cup {None}
    PROVE  [parent |-> above, children |-> Pending] \in Level
  <1> DEFINE shown == (SUBSET Thought) \cup {Pending}
  <1>1. Pending \in shown
    OBVIOUS
  <1> HIDE DEF shown
  <1>2. [parent |-> above, children |-> Pending]
          \in [parent: Thought \cup {None}, children: shown]
    BY <1>1
  <1> QED
    BY <1>2 DEF Level, shown

(* What an opening, a click, an ancestor and an answer make of a sound     *)
(* path.                                                                   *)
LEMMA SoundPathOpens ==
    ASSUME NEW R, NEW T
    PROVE  /\ <<[parent |-> None, children |-> Pending]>> \in Seq(Level)
           /\ PathIsSound(<<[parent |-> None, children |-> Pending]>>, R, T)
  <1> DEFINE first == [parent |-> None, children |-> Pending]
  <1>1. first \in Level /\ first.children = Pending
    BY WaitingIsALevel
  <1> HIDE DEF first
  <1>2. <<first>> \in Seq(Level) /\ <<first>> # <<>> /\ Len(<<first>>) = 1
    BY <1>1
  <1>3. \A i \in 1 .. Len(<<first>>) : <<first>>[i] = first /\ ~ i > 1
    OBVIOUS
  <1>4. PathIsSound(<<first>>, R, T)
    BY <1>1, <1>2, <1>3 DEF PathIsSound
  <1> QED
    BY <1>2, <1>4 DEF first

LEMMA SoundPathDescends ==
    ASSUME NEW R, NEW T, NEW path \in Seq(Level), PathIsSound(path, R, T),
           NEW t \in Thought, path[Len(path)].children # Pending,
           t \in path[Len(path)].children
    PROVE  LET longer == Append(path, [parent |-> t, children |-> Pending])
           IN  longer \in Seq(Level) /\ PathIsSound(longer, R, T)
  <1> DEFINE level == [parent |-> t, children |-> Pending]
             longer == Append(path, level)
  <1>1. level \in Level /\ level.parent = t /\ level.children = Pending
    BY WaitingIsALevel
  <1> HIDE DEF level
  <1>2. Len(path) \in Nat /\ Len(path) >= 1
    BY DEF PathIsSound
  <1>3. /\ longer \in Seq(Level) /\ longer # <<>> /\ Len(longer) = Len(path) + 1
        /\ \A i \in 1 .. Len(path) : longer[i] = path[i]
        /\ longer[Len(path) + 1] = level
    BY <1>1, <1>2
  <1> HIDE DEF longer
  <1>4. ASSUME NEW i \in 1 .. Len(longer)
        PROVE  /\ i > 1 => /\ longer[i - 1].children # Pending
                          /\ longer[i].parent \in longer[i - 1].children
               /\ longer[i].children # Pending =>
                    \A u \in longer[i].children : ChildIn(R, T, u, longer[i].parent)
    <2>1. CASE i \in 1 .. Len(path)
      <3>1. longer[i] = path[i] /\ (i > 1 => longer[i - 1] = path[i - 1])
        BY <1>2, <1>3, <2>1
      <3> QED
        BY <2>1, <3>1 DEF PathIsSound
    <2>2. CASE i = Len(path) + 1
      <3>1. longer[i] = level /\ i - 1 = Len(path) /\ longer[i - 1] = path[Len(path)]
        BY <1>2, <1>3, <2>2
      <3> QED
        BY <1>1, <3>1
    <2> QED
      BY <1>2, <1>3, <2>1, <2>2
  <1>5. PathIsSound(longer, R, T)
    BY <1>3, <1>4 DEF PathIsSound
  <1> QED
    BY <1>3, <1>5 DEF longer, level

LEMMA SoundPathAscends ==
    ASSUME NEW R, NEW T, NEW path \in Seq(Level), PathIsSound(path, R, T),
           NEW n \in 1 .. Len(path) - 1
    PROVE  /\ SubSeq(path, 1, n) \in Seq(Level)
           /\ PathIsSound(SubSeq(path, 1, n), R, T)
  <1>1. Len(path) \in Nat
    OBVIOUS
  <1>2. /\ SubSeq(path, 1, n) \in Seq(Level) /\ Len(SubSeq(path, 1, n)) = n
        /\ \A i \in 1 .. n : SubSeq(path, 1, n)[i] = path[i] /\ i \in 1 .. Len(path)
    BY <1>1
  <1>3. SubSeq(path, 1, n) # <<>>
    BY <1>1, <1>2
  <1>4. \A i \in 1 .. n : i > 1 => i - 1 \in 1 .. n
    BY <1>1
  <1> QED
    BY <1>2, <1>3, <1>4 DEF PathIsSound

LEMMA SoundPathIsAnswered ==
    ASSUME NEW R, NEW T, NEW path \in Seq(Level), PathIsSound(path, R, T),
           NEW level \in Level,
           Len(path) > 1 => level.parent = path[Len(path)].parent,
           level.children # Pending => \A t \in level.children : ChildIn(R, T, t, level.parent)
    PROVE  LET changed == [path EXCEPT ![Len(path)] = level]
           IN  changed \in Seq(Level) /\ PathIsSound(changed, R, T)
  <1> DEFINE changed == [path EXCEPT ![Len(path)] = level]
  <1>1. Len(path) \in Nat /\ Len(path) >= 1
    BY DEF PathIsSound
  <1>2. /\ changed \in Seq(Level) /\ Len(changed) = Len(path)
        /\ \A i \in 1 .. Len(path) : changed[i] = IF i = Len(path) THEN level ELSE path[i]
    BY <1>1
  <1> HIDE DEF changed
  <1>3. changed # <<>>
    BY <1>1, <1>2
  <1>4. ASSUME NEW i \in 1 .. Len(path)
        PROVE  /\ i > 1 => /\ changed[i - 1].children # Pending
                          /\ changed[i].parent \in changed[i - 1].children
               /\ changed[i].children # Pending =>
                    \A u \in changed[i].children : ChildIn(R, T, u, changed[i].parent)
    <2>1. i > 1 => changed[i - 1] = path[i - 1] /\ i - 1 \in 1 .. Len(path)
      BY <1>1, <1>2
    <2>2. CASE i # Len(path)
      <3>1. changed[i] = path[i]
        BY <1>2, <2>2
      <3> QED
        BY <2>1, <3>1 DEF PathIsSound
    <2>3. CASE i = Len(path)
      <3>1. changed[i] = level
        BY <1>2, <2>3
      <3>2. i > 1 => changed[i].parent = path[i].parent
        BY <2>3, <3>1, <1>1
      <3> QED
        BY <2>1, <3>1, <3>2 DEF PathIsSound
    <2> QED
      BY <2>2, <2>3
  <1>5. PathIsSound(changed, R, T)
    BY <1>2, <1>3, <1>4 DEF PathIsSound
  <1> QED
    BY <1>2, <1>5 DEF changed

(* A table that grows, but for what a trim takes, leaves what is sound     *)
(* sound.                                                                  *)
Grows(R, T, S, U) ==
    /\ T \subseteq U
    /\ \A t \in DOMAIN R : t \in U \/ (t \in DOMAIN S /\ S[t].parent = R[t].parent)

LEMMA SoundnessStays ==
    ASSUME NEW R, NEW T, NEW S, NEW U, Grows(R, T, S, U)
    PROVE  /\ \A e : EventIsSound(e, R, T) => EventIsSound(e, S, U)
           /\ \A q : PanelIsSound(q, R, T) => PanelIsSound(q, S, U)
  <1>1. ASSUME NEW t, NEW p, ChildIn(R, T, t, p) PROVE ChildIn(S, U, t, p)
    <2>1. CASE t \in T
      BY <2>1 DEF Grows, ChildIn
    <2>2. CASE t \in DOMAIN R /\ R[t].parent = p
      BY <2>2 DEF Grows, ChildIn
    <2> QED
      BY <1>1, <2>1, <2>2 DEF ChildIn
  <1>2. DOMAIN R \cup T \subseteq DOMAIN S \cup U
    BY DEF Grows
  <1>3. \A e : EventIsSound(e, R, T) => EventIsSound(e, S, U)
    BY <1>1 DEF EventIsSound
  <1>5. \A path : PathIsSound(path, R, T) => PathIsSound(path, S, U)
    BY <1>1 DEF PathIsSound
  <1>6. \A q : PanelIsSound(q, R, T) => PanelIsSound(q, S, U)
    BY <1>2, <1>5 DEF PanelIsSound
  <1> QED
    BY <1>3, <1>6

(* Only Trim takes thoughts, only Trim says so.                            *)
LEMMA OnlyTrimsTake ==
    ASSUME DeepNext, ~ Trim
    PROVE  taken' = taken
  <1>1. CASE SceneState \/ Serve \/ HearEvent \/ TrimAtStart \/ Reopen \/ ReopenOver \/ Crash
    BY <1>1 DEF SceneState, Serve, DeepenPillRefused, DeepenPill, DeepenThought, MarkThought,
                MarkFails, HearEvent, TrimAtStart, Reopen, ReopenOver, Crash, historyVars
  <1>2. ASSUME NEW r \in DeepenRequest, Deliver(r) PROVE taken' = taken
    BY <1>2 DEF Deliver, historyVars
  <1>3. ASSUME NEW f \in Fan, FanAnswers(f) PROVE taken' = taken
    BY <1>3 DEF FanAnswers, FanStored, FanEmpty, FanFailed, FanEnds, historyVars
  <1>4. ASSUME NEW p \in Pill,
               \/ OpenPanel(p) \/ Mount(p) \/ TimeOut(p) \/ ClosePanel(p)
               \/ \E t \in Thought : Descend(p, t) \/ ToggleResonance(p, t)
               \/ \E level \in 1 .. MaxDepth : Ascend(p, level)
        PROVE  taken' = taken
    BY <1>4 DEF OpenPanel, Mount, HearFailures, CallDeepen, CallFails, ArmTimer, TimeOut,
                ClosePanel, Descend, ToggleResonance, Ascend, historyVars
  <1> QED
    BY <1>1, <1>2, <1>3, <1>4 DEF DeepNext

(* Only a click and a failed UPDATE change what is contested.              *)
LEMMA OnlyClicksContest ==
    ASSUME [DeepNext]_deepVars, ~ MarkFails,
           ~ \E p \in Pill, t \in Thought : ToggleResonance(p, t)
    PROVE  contested' = contested
  <1>1. CASE \/ SceneState \/ DeepenPillRefused \/ DeepenPill \/ DeepenThought \/ MarkThought
             \/ HearEvent \/ TrimAtStart \/ Trim \/ Reopen \/ ReopenOver \/ Crash
    BY <1>1 DEF SceneState, DeepenPillRefused, DeepenPill, DeepenThought, MarkThought,
                HearEvent, TrimAtStart, Trim, Reopen, ReopenOver, Crash, historyVars
  <1>2. ASSUME NEW r \in DeepenRequest, Deliver(r) PROVE contested' = contested
    BY <1>2 DEF Deliver, historyVars
  <1>3. ASSUME NEW f \in Fan, FanAnswers(f) PROVE contested' = contested
    BY <1>3 DEF FanAnswers, FanStored, FanEmpty, FanFailed, FanEnds, historyVars
  <1>4. ASSUME NEW p \in Pill,
               \/ OpenPanel(p) \/ Mount(p) \/ TimeOut(p) \/ ClosePanel(p)
               \/ \E t \in Thought : Descend(p, t)
               \/ \E level \in 1 .. MaxDepth : Ascend(p, level)
        PROVE  contested' = contested
    BY <1>4 DEF OpenPanel, Mount, HearFailures, CallDeepen, CallFails, ArmTimer, TimeOut,
                ClosePanel, Descend, Ascend, historyVars
  <1>5. CASE UNCHANGED deepVars
    BY <1>5 DEF deepVars, historyVars
  <1> QED
    BY <1>1, <1>2, <1>3, <1>4, <1>5 DEF DeepNext, Serve

(* What a commit leaves out of the table is taken.                         *)
LEMMA CommitIsTheTrims ==
    ASSUME TreeInv, [DeepNext]_deepVars, CommitTrim
    PROVE  taken' = taken \cup (DOMAIN rows \ DOMAIN rows')
  <1>1. Trimming /\ draft # None /\ draft' = None /\ spared' = None /\ spared # None
    BY DEF CommitTrim, TreeInv, TrimInv, InTransaction, Trimming
  <1>2. DeepNext
    BY <1>1 DEF deepVars, treeVars
  <1>3. CASE Trim
    BY <1>3 DEF Trim
  <1>4. CASE Reopen \/ ReopenOver
    BY <1>1, <1>4 DEF Reopen, ReopenOver
  <1>5. CASE Crash
    <2>1. rows' = rows /\ taken' = taken
      BY <1>5 DEF Crash, Disconnect, historyVars
    <2> QED
      BY <2>1
  <1>6. CASE SceneState \/ HearEvent \/ (\E r \in DeepenRequest : Deliver(r))
    BY <1>1, <1>6 DEF SceneState, HearEvent, Deliver, treeVars
  <1>7. CASE Serve \/ TrimAtStart
    BY <1>1, <1>7 DEF Serve, DeepenPillRefused, DeepenPill, DeepenThought, MarkThought,
                      MarkFails, Ready, TrimAtStart, BeginTrim
  <1>8. ASSUME NEW f \in Fan, FanAnswers(f) PROVE FALSE
    BY <1>1, <1>8 DEF FanAnswers, FanStored, FanEmpty, FanFailed, InsertChildren, treeVars
  <1>9. ASSUME NEW p \in Pill,
               \/ OpenPanel(p) \/ Mount(p) \/ TimeOut(p) \/ ClosePanel(p)
               \/ \E t \in Thought : Descend(p, t) \/ ToggleResonance(p, t)
               \/ \E level \in 1 .. MaxDepth : Ascend(p, level)
        PROVE  FALSE
    BY <1>1, <1>9 DEF OpenPanel, Mount, HearFailures, CallDeepen, CallFails, ArmTimer, TimeOut,
                ClosePanel, Descend, ToggleResonance, Ascend, treeVars
  <1> QED
    BY <1>2, <1>3, <1>4, <1>5, <1>6, <1>7, <1>8, <1>9 DEF DeepNext

LEMMA TakenGrows ==
    ASSUME TreeInv, HistoryInv, [DeepNext]_deepVars
    PROVE  /\ taken \subseteq taken'
           /\ taken' \subseteq 1 .. minted
  <1>1. CASE Trim
    BY <1>1 DEF Trim, HistoryInv, TreeInv, MintedInv
  <1>2. CASE ~ Trim
    BY <1>2, OnlyTrimsTake DEF HistoryInv, deepVars, historyVars
  <1> QED
    BY <1>1, <1>2

LEMMA TableGrows ==
    ASSUME TreeInv, InboxInv, HistoryInv, [DeepNext]_deepVars
    PROVE  Grows(rows, taken, rows', taken')
  <1>0. minted \in Nat /\ DOMAIN rows \subseteq 1 .. minted /\ taken \subseteq taken'
    BY RabbitAssumption, TakenGrows DEF TreeInv, TreeTypeOK, MintedInv
  <1>1. ASSUME NEW m \in Message, InsertRoot(m) PROVE Grows(rows, taken, rows', taken')
    <2>1. \A t \in DOMAIN rows : t # minted + 1
      BY <1>0
    <2>2. CASE InTransaction
      BY <1>0, <1>1, <2>2 DEF InsertRoot, Store, Grows
    <2>3. CASE ~ InTransaction
      <3>1. rows' = With(rows, {minted + 1}, [parent |-> None, depth |-> 0,
                         resonance |-> FALSE, created |-> minted + 1, message |-> m])
        BY <1>1, <2>3 DEF InsertRoot, Store, Seen
      <3> QED
        BY <1>0, <2>1, <3>1 DEF With, Grows
    <2> QED
      BY <2>2, <2>3
  <1>2. ASSUME NEW p \in Thought, NEW n \in 1 .. MaxFan, InsertChildren(p, n)
        PROVE  Grows(rows, taken, rows', taken')
    <2>1. \A t \in DOMAIN rows : t \notin Fresh(n)
      BY <1>0 DEF Fresh
    <2>2. rows' = With(rows, Fresh(n), [parent |-> p, depth |-> rows[p].depth + 1,
                       resonance |-> FALSE, created |-> minted + 1, message |-> None])
      BY <1>2 DEF InsertChildren
    <2> QED
      BY <1>0, <2>1, <2>2 DEF With, Grows
  <1>3. ASSUME NEW t \in Thought, NEW b \in BOOLEAN, SetResonance(t, b)
        PROVE  Grows(rows, taken, rows', taken')
    <2>1. CASE InTransaction
      BY <1>0, <1>3, <2>1 DEF SetResonance, Store, Grows
    <2>2. CASE ~ InTransaction
      <3>1. rows' = [u \in DOMAIN rows |->
                          IF u = t THEN [rows[u] EXCEPT !.resonance = b] ELSE rows[u]]
        BY <1>3, <2>2 DEF SetResonance, Store, Seen
      <3>2. IsTable(rows)
        BY DEF TreeInv, TreeTypeOK
      <3> QED
        BY <1>0, <3>1, <3>2 DEF Grows, IsTable, Row
    <2> QED
      BY <2>1, <2>2
  <1>4. CASE CommitTrim
    <2>1. taken' = taken \cup (DOMAIN rows \ DOMAIN rows')
      BY <1>4, CommitIsTheTrims
    <2>2. rows' = draft /\ draft = Restrict(rows, DOMAIN draft)
      BY <1>4 DEF CommitTrim, TreeInv, TrimInv
    <2>3. /\ DOMAIN rows' = DOMAIN draft
          /\ \A t \in DOMAIN draft : rows'[t] = rows[t]
      BY <2>2 DEF Restrict
    <2> QED
      BY <1>0, <2>1, <2>3 DEF Grows
  <1>5. CASE BeginTrim \/ TrimLeaf \/ FailTrim \/ Disconnect \/ UNCHANGED treeVars
    BY <1>0, <1>5 DEF BeginTrim, TrimLeaf, FailTrim, Disconnect, treeVars, Grows
  <1> QED
    BY <1>1, <1>2, <1>3, <1>4, <1>5, DeepStepIsTreeStep DEF TreeNext

(* Events and panels stay sound for the table after any step.              *)
LEMMA WhatIsThereStaysSound ==
    ASSUME DeepInv, [DeepNext]_deepVars
    PROVE  /\ \A i \in 1 .. Len(events) : EventIsSound(events[i], rows', taken')
           /\ \A p \in Pill : Open(p) => PanelIsSound(panel[p], rows', taken')
  BY TableGrows, SoundnessStays DEF DeepInv, DeepSound

(* A step that says something, and one that changes a panel.               *)
LEMMA EventsStaySound ==
    ASSUME DeepInv, [DeepNext]_deepVars, NEW e \in DeepenEvent,
           EventIsSound(e, rows', taken'), events' = Append(events, e)
    PROVE  /\ events' \in Seq(DeepenEvent)
           /\ \A i \in 1 .. Len(events') : EventIsSound(events'[i], rows', taken')
  <1>1. events \in Seq(DeepenEvent) /\ Len(events) \in Nat
    BY DEF DeepInv, DeepShape
  <1>2. /\ events' \in Seq(DeepenEvent) /\ Len(events') = Len(events) + 1
        /\ \A i \in 1 .. Len(events') :
              events'[i] = IF i = Len(events) + 1 THEN e ELSE events[i]
    BY <1>1
  <1>3. \A i \in 1 .. Len(events') : i = Len(events) + 1 \/ i \in 1 .. Len(events)
    BY <1>1, <1>2
  <1> QED
    BY <1>2, <1>3, WhatIsThereStaysSound

LEMMA PanelsStaySound ==
    ASSUME DeepInv, [DeepNext]_deepVars, NEW p \in Pill, NEW q \in Panel \cup {Closed},
           q # Closed => PanelIsSound(q, rows', taken'),
           panel' = [panel EXCEPT ![p] = q]
    PROVE  /\ panel' \in [Pill -> Panel \cup {Closed}]
           /\ \A o \in Pill : Open(o)' => PanelIsSound(panel'[o], rows', taken')
  <1>1. panel \in [Pill -> Panel \cup {Closed}]
    BY DEF DeepInv, DeepShape
  <1>2. \A o \in Pill : panel'[o] = IF o = p THEN q ELSE panel[o]
    BY <1>1
  <1> QED
    BY <1>1, <1>2, WhatIsThereStaysSound DEF Open

-----------------------------------------------------------------------------
(* The steps of the service.                                               *)
LEMMA FailureIsAnEvent ==
    ASSUME NEW about \in Subject, NEW R, NEW T
    PROVE  LET e == [kind |-> "failed", about |-> about, children |-> {}]
           IN  e \in DeepenEvent /\ EventIsSound(e, R, T)
  BY DEF DeepenEvent, EventIsSound

LEMMA SpawnedFanIsSound ==
    ASSUME DeepInv, [DeepNext]_deepVars, NEW t \in Thought, SpawnFan(t)
    PROVE  /\ events' \in Seq(DeepenEvent)
           /\ \A i \in 1 .. Len(events') : EventIsSound(events'[i], rows', taken')
           /\ fan' \in [Fan -> Thought \cup {NoFan}]
  <1>1. /\ events \in Seq(DeepenEvent)
        /\ fan \in [Fan -> Thought \cup {NoFan}]
    BY DEF DeepInv, DeepShape
  <1>2. CASE Announce("failed", t, {}) /\ UNCHANGED fan
    <2>1. t \in Subject
      BY DEF Subject
    <2> QED
      BY <1>1, <1>2, <2>1, FailureIsAnEvent, EventsStaySound DEF Announce
  <1>3. CASE /\ \E f \in Fan : /\ fan[f] = NoFan
                               /\ fan' = [fan EXCEPT ![f] = t]
             /\ UNCHANGED events
    BY <1>1, <1>3, WhatIsThereStaysSound
  <1> QED
    BY <1>2, <1>3 DEF SpawnFan

LEMMA ServeIsSound ==
    ASSUME DeepInv, [DeepNext]_deepVars, Serve
    PROVE  DeepShape' /\ DeepSound'
  <1>1. inbox # <<>> /\ UNCHANGED <<scene, panel>>
    BY DEF Serve, DeepenPillRefused, DeepenPill, DeepenThought, MarkThought, MarkFails, Ready
  <1>2. /\ panel \in [Pill -> Panel \cup {Closed}] /\ scene \in BOOLEAN
        /\ events \in Seq(DeepenEvent)
        /\ fan \in [Fan -> Thought \cup {NoFan}]
    BY DEF DeepInv, DeepShape
  <1>3. Head(inbox) \in DeepenRequest
    BY <1>1 DEF DeepInv, InboxInv
  <1>4. /\ events' \in Seq(DeepenEvent)
        /\ \A i \in 1 .. Len(events') : EventIsSound(events'[i], rows', taken')
        /\ fan' \in [Fan -> Thought \cup {NoFan}]
    <2>1. CASE DeepenPillRefused
      <3>1. Head(inbox).pill \in Subject
        BY <1>3, <2>1 DEF DeepenPillRefused, Ready, DeepenRequest, Subject
      <3>2. events' = Append(events, [kind |-> "failed", about |-> Head(inbox).pill,
                                      children |-> {}]) /\ fan' = fan
        BY <2>1 DEF DeepenPillRefused, Announce
      <3> QED
        BY <1>2, <3>1, <3>2, FailureIsAnEvent, EventsStaySound
    <2>2. CASE DeepenPill
      <3>1. minted' = minted + 1 /\ minted < MaxThoughts /\ SpawnFan(minted')
        BY <2>2 DEF DeepenPill, InsertRoot
      <3>2. minted \in Nat
        BY RabbitAssumption DEF DeepInv, TreeInv, TreeTypeOK
      <3>3. minted' \in Thought
        BY <3>1, <3>2, RabbitAssumption DEF Thought
      <3> QED
        BY <3>1, <3>3, SpawnedFanIsSound
    <2>3. CASE DeepenThought
      <3> DEFINE t == Head(inbox).thought
      <3>1. t \in Thought /\ t \in Subject
        BY <1>3, <2>3 DEF DeepenThought, Ready, DeepenRequest, Subject
      <3>2. \/ SpawnFan(t)
            \/ events' = Append(events, [kind |-> "failed", about |-> t, children |-> {}])
               /\ fan' = fan
        BY <2>3 DEF DeepenThought, Announce
      <3> HIDE DEF t
      <3> QED
        BY <1>2, <3>1, <3>2, FailureIsAnEvent, EventsStaySound, SpawnedFanIsSound
    <2>4. CASE MarkThought \/ MarkFails
      BY <1>2, <2>4, WhatIsThereStaysSound DEF MarkThought, MarkFails
    <2> QED
      BY <2>1, <2>2, <2>3, <2>4 DEF Serve
  <1>5. DeepShape'
    BY <1>1, <1>2, <1>4 DEF DeepShape
  <1>6. DeepSound'
    BY <1>1, <1>4, WhatIsThereStaysSound DEF DeepSound, Open
  <1> QED
    BY <1>5, <1>6

LEMMA FanIsSound ==
    ASSUME DeepInv, [DeepNext]_deepVars, NEW f \in Fan, FanAnswers(f)
    PROVE  DeepShape' /\ DeepSound'
  <1>1. /\ fan[f] # NoFan /\ fan' = [fan EXCEPT ![f] = NoFan]
        /\ UNCHANGED <<scene, panel>>
    BY DEF FanAnswers, FanStored, FanEmpty, FanFailed, FanEnds
  <1>2. /\ panel \in [Pill -> Panel \cup {Closed}] /\ scene \in BOOLEAN
        /\ fan \in [Fan -> Thought \cup {NoFan}]
    BY DEF DeepInv, DeepShape
  <1>3. fan[f] \in Thought /\ fan' \in [Fan -> Thought \cup {NoFan}]
    BY <1>1, <1>2
  <1>4. PICK e \in DeepenEvent : /\ EventIsSound(e, rows', taken')
                                 /\ events' = Append(events, e)
    <2>1. CASE FanStored(f)
      <3>1. PICK n \in 1 .. MaxFan : /\ InsertChildren(fan[f], n)
                                     /\ Announce("ready", fan[f], Fresh(n))
        BY <2>1 DEF FanStored
      <3> DEFINE e == [kind |-> "ready", about |-> fan[f], children |-> Fresh(n)]
      <3>2. minted \in Nat /\ minted + n <= MaxThoughts /\ n \in Nat
        BY <3>1, RabbitAssumption DEF DeepInv, TreeInv, TreeTypeOK, InsertChildren
      <3>3. Fresh(n) \subseteq Thought
        BY <3>2, RabbitAssumption DEF Fresh, Thought
      <3>4. e \in DeepenEvent
        BY <1>3, <3>3 DEF DeepenEvent, Subject
      <3>5. \A t \in Fresh(n) : t \in DOMAIN rows' /\ rows'[t].parent = fan[f]
        BY <3>1 DEF InsertChildren, With
      <3>7. EventIsSound(e, rows', taken')
        BY <1>3, <3>5 DEF EventIsSound, ChildIn
      <3> QED
        BY <3>1, <3>4, <3>7 DEF Announce
    <2>2. CASE FanEmpty(f)
      <3> DEFINE e == [kind |-> "ready", about |-> fan[f], children |-> {}]
      <3>1. e \in DeepenEvent
        BY <1>3 DEF DeepenEvent, Subject
      <3>2. EventIsSound(e, rows', taken')
        BY <1>3 DEF EventIsSound
      <3> QED
        BY <2>2, <3>1, <3>2 DEF FanEmpty, Announce
    <2>3. CASE FanFailed(f)
      <3>1. fan[f] \in Subject
        BY <1>3 DEF Subject
      <3> QED
        BY <2>3, <3>1, FailureIsAnEvent DEF FanFailed, Announce
    <2> QED
      BY <2>1, <2>2, <2>3 DEF FanAnswers
  <1>5. DeepShape'
    BY <1>1, <1>2, <1>3, <1>4, EventsStaySound DEF DeepShape
  <1>6. DeepSound'
    BY <1>1, <1>4, EventsStaySound, WhatIsThereStaysSound DEF DeepSound, Open
  <1> QED
    BY <1>5, <1>6

-----------------------------------------------------------------------------
(* The steps of the panels.                                                *)
LEMMA OpenPanelIsAPanel ==
    ASSUME DeepInv, NEW p \in Pill, Open(p)
    PROVE  /\ panel[p] \in Panel
           /\ panel[p] = [path |-> panel[p].path, stage |-> panel[p].stage,
                          timer |-> panel[p].timer, marked |-> panel[p].marked]
           /\ panel[p].path \in Seq(Level) /\ panel[p].stage \in Stage
           /\ panel[p].timer \in Timer /\ panel[p].marked \subseteq Thought
           /\ PathIsSound(panel[p].path, rows, taken)
           /\ PanelIsSound(panel[p], rows, taken)
  <1>1. panel[p] \in Panel
    BY DEF DeepInv, DeepShape, Open
  <1>2. PanelIsSound(panel[p], rows, taken)
    BY DEF DeepInv, DeepSound
  <1> QED
    BY <1>1, <1>2 DEF Panel, PanelIsSound

(* A panel is its four fields, whichever of them a step changes.           *)
LEMMA FieldsOfAPanel ==
    ASSUME NEW q \in Panel
    PROVE  /\ \A x : [q EXCEPT !.path = x]
                      = [path |-> x, stage |-> q.stage, timer |-> q.timer, marked |-> q.marked]
           /\ \A x : [q EXCEPT !.stage = x]
                      = [path |-> q.path, stage |-> x, timer |-> q.timer, marked |-> q.marked]
           /\ \A x : [q EXCEPT !.timer = x]
                      = [path |-> q.path, stage |-> q.stage, timer |-> x, marked |-> q.marked]
           /\ \A x : [q EXCEPT !.marked = x]
                      = [path |-> q.path, stage |-> q.stage, timer |-> q.timer, marked |-> x]
  BY DEF Panel

LEMMA PanelOf ==
    ASSUME NEW path \in Seq(Level), NEW stage \in Stage, NEW timer \in Timer,
           NEW marked \in SUBSET Thought, NEW R, NEW T,
           PathIsSound(path, R, T), marked \subseteq DOMAIN R \cup T
    PROVE  LET q == [path |-> path, stage |-> stage, timer |-> timer, marked |-> marked]
           IN  q \in Panel /\ PanelIsSound(q, R, T)
  BY DEF Panel, PanelIsSound

LEMMA PanelStepIsSound ==
    ASSUME DeepInv, [DeepNext]_deepVars, NEW p \in Pill, NEW q \in Panel \cup {Closed},
           q # Closed => PanelIsSound(q, rows, taken),
           panel' = [panel EXCEPT ![p] = q],
           UNCHANGED <<treeVars, scene, fan, events, taken>>
    PROVE  DeepShape' /\ DeepSound'
  <1>1. rows' = rows
    BY DEF treeVars
  <1>2. /\ panel' \in [Pill -> Panel \cup {Closed}]
        /\ \A o \in Pill : Open(o)' => PanelIsSound(panel'[o], rows', taken')
    BY <1>1, PanelsStaySound
  <1>3. DeepShape'
    BY <1>2 DEF DeepInv, DeepShape
  <1>4. DeepSound'
    BY <1>1, <1>2, WhatIsThereStaysSound DEF DeepSound
  <1> QED
    BY <1>3, <1>4

LEMMA OpeningIsSound ==
    ASSUME DeepInv, [DeepNext]_deepVars, NEW p \in Pill, OpenPanel(p)
    PROVE  DeepShape' /\ DeepSound'
  <1> DEFINE first == <<[parent |-> None, children |-> Pending]>>
             q == [path |-> first, stage |-> "hearing ready", timer |-> "unarmed",
                   marked |-> {}]
  <1>1. first \in Seq(Level) /\ PathIsSound(first, rows, taken)
    BY SoundPathOpens
  <1>2. /\ panel' = [panel EXCEPT ![p] = q]
        /\ UNCHANGED <<treeVars, scene, fan, events, taken>>
    BY DEF OpenPanel, serviceVars, historyVars
  <1>3. "hearing ready" \in Stage /\ "unarmed" \in Timer
    BY DEF Stage, Timer
  <1> HIDE DEF first
  <1>4. q \in Panel /\ PanelIsSound(q, rows, taken)
    BY <1>1, <1>3, PanelOf
  <1> HIDE DEF q
  <1> QED
    BY <1>2, <1>4, PanelStepIsSound

LEMMA ClosingIsSound ==
    ASSUME DeepInv, [DeepNext]_deepVars, NEW p \in Pill, ClosePanel(p)
    PROVE  DeepShape' /\ DeepSound'
  <1>1. /\ panel' = [panel EXCEPT ![p] = Closed]
        /\ UNCHANGED <<treeVars, scene, fan, events, taken>>
    BY DEF ClosePanel, serviceVars, historyVars
  <1> QED
    BY <1>1, PanelStepIsSound

LEMMA MountingIsSound ==
    ASSUME DeepInv, [DeepNext]_deepVars, NEW p \in Pill,
           HearFailures(p) \/ CallDeepen(p) \/ ArmTimer(p)
    PROVE  DeepShape' /\ DeepSound'
  <1>1. Open(p) /\ UNCHANGED <<treeVars, scene, fan, events, taken>>
    BY DEF HearFailures, CallDeepen, ArmTimer, serviceVars, historyVars
  <1> DEFINE Q(stage, timer) == [path |-> panel[p].path, stage |-> stage, timer |-> timer,
                                 marked |-> panel[p].marked]
  <1>2. \A stage \in Stage, timer \in Timer :
          Q(stage, timer) \in Panel /\ PanelIsSound(Q(stage, timer), rows, taken)
    BY <1>1, OpenPanelIsAPanel DEF Panel, PanelIsSound
  <1>3. PICK stage \in Stage, timer \in Timer : panel' = [panel EXCEPT ![p] = Q(stage, timer)]
    <2>1. CASE HearFailures(p)
      <3>1. panel' = [panel EXCEPT ![p] = Q("calling", panel[p].timer)]
        BY <1>1, <2>1, OpenPanelIsAPanel, FieldsOfAPanel DEF HearFailures
      <3>2. "calling" \in Stage /\ panel[p].timer \in Timer
        BY <1>1, OpenPanelIsAPanel DEF Stage
      <3> QED
        BY <3>1, <3>2
    <2>2. CASE CallDeepen(p)
      <3>1. panel' = [panel EXCEPT ![p] = Q("called", panel[p].timer)]
        BY <1>1, <2>2, OpenPanelIsAPanel, FieldsOfAPanel DEF CallDeepen
      <3>2. "called" \in Stage /\ panel[p].timer \in Timer
        BY <1>1, OpenPanelIsAPanel DEF Stage
      <3> QED
        BY <3>1, <3>2
    <2>3. CASE ArmTimer(p)
      <3> DEFINE half == [panel[p] EXCEPT !.stage = "live"]
      <3>3. half = Q("live", panel[p].timer) /\ half \in Panel
        BY <1>1, OpenPanelIsAPanel, FieldsOfAPanel DEF Panel, Stage
      <3>4. [half EXCEPT !.timer = "armed"] = Q("live", "armed")
        BY <3>3, FieldsOfAPanel
      <3>5. panel' = [[panel EXCEPT ![p] = half] EXCEPT ![p].timer = "armed"]
        BY <2>3 DEF ArmTimer
      <3>6. panel \in [Pill -> Panel \cup {Closed}]
        BY DEF DeepInv, DeepShape
      <3> HIDE DEF half, Q
      <3>1. panel' = [panel EXCEPT ![p] = Q("live", "armed")]
        BY <3>4, <3>5, <3>6
      <3>2. "live" \in Stage /\ "armed" \in Timer
        BY DEF Stage, Timer
      <3> QED
        BY <3>1, <3>2
    <2> QED
      BY <2>1, <2>2, <2>3
  <1> DEFINE q == Q(stage, timer)
  <1>4. q \in Panel /\ PanelIsSound(q, rows, taken) /\ panel' = [panel EXCEPT ![p] = q]
    BY <1>2, <1>3
  <1> HIDE DEF q, Q
  <1> QED
    BY <1>1, <1>4, PanelStepIsSound

LEMMA DescentIsSound ==
    ASSUME DeepInv, [DeepNext]_deepVars, NEW p \in Pill, NEW t \in Thought, Descend(p, t)
    PROVE  DeepShape' /\ DeepSound'
  <1> DEFINE longer == Append(panel[p].path, [parent |-> t, children |-> Pending])
             q == [path |-> longer, stage |-> panel[p].stage, timer |-> panel[p].timer,
                   marked |-> panel[p].marked]
  <1>1. /\ Open(p) /\ UNCHANGED <<treeVars, scene, fan, events, taken>>
        /\ LastOf(p).children # Pending /\ t \in LastOf(p).children
    BY DEF Descend, CanClick, IsPending, serviceVars, historyVars
  <1>2. panel' = [panel EXCEPT ![p] = q]
    BY <1>1, OpenPanelIsAPanel, FieldsOfAPanel DEF Descend
  <1>3. longer \in Seq(Level) /\ PathIsSound(longer, rows, taken)
    BY <1>1, OpenPanelIsAPanel, SoundPathDescends DEF LastOf
  <1> HIDE DEF longer
  <1>4. q \in Panel /\ PanelIsSound(q, rows, taken)
    BY <1>1, <1>3, OpenPanelIsAPanel DEF Panel, PanelIsSound
  <1> HIDE DEF q
  <1> QED
    BY <1>1, <1>2, <1>4, PanelStepIsSound

LEMMA AscentIsSound ==
    ASSUME DeepInv, [DeepNext]_deepVars, NEW p \in Pill, NEW level, Ascend(p, level)
    PROVE  DeepShape' /\ DeepSound'
  <1> DEFINE shorter == SubSeq(panel[p].path, 1, level)
             q == [path |-> shorter, stage |-> panel[p].stage, timer |-> panel[p].timer,
                   marked |-> panel[p].marked]
  <1>1. /\ Open(p) /\ UNCHANGED <<treeVars, scene, fan, events, taken>>
        /\ level \in 1 .. Len(panel[p].path) - 1
    BY DEF Ascend, serviceVars, historyVars
  <1>2. panel' = [panel EXCEPT ![p] = q]
    BY <1>1, OpenPanelIsAPanel, FieldsOfAPanel DEF Ascend
  <1>3. shorter \in Seq(Level) /\ PathIsSound(shorter, rows, taken)
    BY <1>1, OpenPanelIsAPanel, SoundPathAscends
  <1> HIDE DEF shorter
  <1>4. q \in Panel /\ PanelIsSound(q, rows, taken)
    BY <1>1, <1>3, OpenPanelIsAPanel DEF Panel, PanelIsSound
  <1> HIDE DEF q
  <1> QED
    BY <1>1, <1>2, <1>4, PanelStepIsSound

(* A thought the writer can click is stored, or a trim took it.            *)
LEMMA ClickedIsKnown ==
    ASSUME DeepInv, NEW p \in Pill, NEW t \in Thought, CanClick(p, t)
    PROVE  t \in DOMAIN rows \cup taken
  <1>1. /\ Open(p) /\ panel[p].path \in Seq(Level)
        /\ PathIsSound(panel[p].path, rows, taken)
        /\ LastOf(p).children # Pending /\ t \in LastOf(p).children
    BY OpenPanelIsAPanel DEF CanClick, IsPending
  <1>2. Len(panel[p].path) \in 1 .. Len(panel[p].path)
    BY <1>1 DEF PathIsSound
  <1> QED
    BY <1>1, <1>2 DEF PathIsSound, LastOf, ChildIn

LEMMA TogglingIsSound ==
    ASSUME DeepInv, [DeepNext]_deepVars, NEW p \in Pill, NEW t \in Thought,
           ToggleResonance(p, t)
    PROVE  DeepShape' /\ DeepSound'
  <1> DEFINE shown == SymDiff(panel[p].marked, {t})
             q == [path |-> panel[p].path, stage |-> panel[p].stage,
                   timer |-> panel[p].timer, marked |-> shown]
  <1>1. Open(p) /\ CanClick(p, t) /\ UNCHANGED <<treeVars, scene, fan, events, taken>>
    BY DEF ToggleResonance, CanClick, serviceVars
  <1>2. panel' = [panel EXCEPT ![p] = q]
    BY <1>1, OpenPanelIsAPanel, FieldsOfAPanel DEF ToggleResonance
  <1>3. t \in DOMAIN rows \cup taken
    BY <1>1, ClickedIsKnown
  <1>4. shown \subseteq DOMAIN rows \cup taken /\ shown \subseteq Thought
    BY <1>1, <1>3, OpenPanelIsAPanel DEF SymDiff, PanelIsSound
  <1> HIDE DEF shown
  <1>5. q \in Panel /\ PanelIsSound(q, rows, taken)
    BY <1>1, <1>4, OpenPanelIsAPanel DEF Panel, PanelIsSound
  <1> HIDE DEF q
  <1> QED
    BY <1>1, <1>2, <1>5, PanelStepIsSound

(* What an event or the timer makes of the last level of a panel.          *)
LEMMA LastLevel ==
    ASSUME NEW path \in Seq(Level), NEW R, NEW T, PathIsSound(path, R, T)
    PROVE  LET last == path[Len(path)]
           IN  /\ last \in Level /\ last.parent \in Thought \cup {None}
               /\ \A x : [last EXCEPT !.children = x] = [parent |-> last.parent, children |-> x]
               /\ last.children \in (SUBSET Thought) \cup {Pending}
               /\ Len(path) > 1 => last.parent \in Thought
               /\ last.children # Pending =>
                    \A t \in last.children : ChildIn(R, T, t, last.parent)
  <1> DEFINE last == path[Len(path)]
  <1>1. Len(path) \in 1 .. Len(path)
    BY DEF PathIsSound
  <1>2. last \in Level
    BY <1>1
  <1>3. /\ last.parent \in Thought \cup {None}
        /\ \A x : [last EXCEPT !.children = x] = [parent |-> last.parent, children |-> x]
        /\ last.children \in (SUBSET Thought) \cup {Pending}
    BY <1>2 DEF Level
  <1>4. ASSUME Len(path) > 1 PROVE last.parent \in Thought
    <2> DEFINE above == path[Len(path) - 1]
    <2>1. Len(path) - 1 \in 1 .. Len(path)
      BY <1>1, <1>4
    <2>2. above \in Level /\ above.children # Pending /\ last.parent \in above.children
      BY <1>1, <1>4, <2>1 DEF PathIsSound
    <2> HIDE DEF above, last
    <2>3. above.children \in (SUBSET Thought) \cup {Pending}
      BY <2>2 DEF Level
    <2> QED
      BY <2>2, <2>3
  <1>5. /\ last.children # Pending => \A t \in last.children : ChildIn(R, T, t, last.parent)
    BY <1>1 DEF PathIsSound
  <1> HIDE DEF last
  <1>6. Len(path) > 1 => last.parent \in Thought
    BY <1>4
  <1> QED
    BY <1>2, <1>3, <1>5, <1>6 DEF last

LEMMA NoChildrenIsALevel ==
    ASSUME NEW above \in Thought \cup {None}, NEW shown \in SUBSET Thought
    PROVE  [parent |-> above, children |-> shown] \in Level
  <1> DEFINE known == (SUBSET Thought) \cup {Pending}
  <1>1. shown \in known
    OBVIOUS
  <1> HIDE DEF known
  <1>2. [parent |-> above, children |-> shown]
          \in [parent: Thought \cup {None}, children: known]
    BY <1>1
  <1> QED
    BY <1>2 DEF Level, known

(* A panel that gives its last level up shows what it showed there, or     *)
(* nothing.                                                                *)
Half(p, stage, timer) ==
    [path |-> panel[p].path, stage |-> stage, timer |-> timer, marked |-> panel[p].marked]

GivenUp(p, stage, timer, shown) ==
    [[panel EXCEPT ![p] = Half(p, stage, timer)] EXCEPT
        ![p].path[Len(panel[p].path)].children = shown]

LEMMA GivingUpIsSound ==
    ASSUME DeepInv, NEW p \in Pill, Open(p), NEW stage \in Stage, NEW timer \in Timer,
           NEW shown, shown = {} \/ shown = LastOf(p).children
    PROVE  \E q \in Panel :
             /\ PanelIsSound(q, rows, taken)
             /\ GivenUp(p, stage, timer, shown) = [panel EXCEPT ![p] = q]
  <1> DEFINE path == panel[p].path
             last == LastOf(p)
             level == [parent |-> last.parent, children |-> shown]
             given == [path EXCEPT ![Len(path)] = level]
             q == [path |-> given, stage |-> stage, timer |-> timer,
                   marked |-> panel[p].marked]
             half == Half(p, stage, timer)
  <1>0. half = [path |-> path, stage |-> stage, timer |-> timer, marked |-> panel[p].marked]
    BY DEF Half
  <1> HIDE DEF half
  <1>1. /\ path \in Seq(Level) /\ PathIsSound(path, rows, taken)
        /\ panel[p].marked \subseteq Thought /\ PanelIsSound(panel[p], rows, taken)
        /\ last = path[Len(path)]
    BY OpenPanelIsAPanel DEF LastOf
  <1>2. /\ last.parent \in Thought \cup {None}
        /\ \A x : [last EXCEPT !.children = x] = [parent |-> last.parent, children |-> x]
        /\ last.children \in (SUBSET Thought) \cup {Pending}
        /\ last.children # Pending =>
             \A t \in last.children : ChildIn(rows, taken, t, last.parent)
    <2> HIDE DEF path, last
    <2> QED
      BY <1>1, LastLevel
  <1>3. /\ shown \in (SUBSET Thought) \cup {Pending}
        /\ shown # Pending => \A t \in shown : ChildIn(rows, taken, t, last.parent)
    BY <1>2
  <1> HIDE DEF path, last
  <1>4. level \in Level
    BY <1>2, <1>3, NoChildrenIsALevel, WaitingIsALevel
  <1>5. given \in Seq(Level) /\ PathIsSound(given, rows, taken)
    <2>1. /\ Len(path) > 1 => level.parent = path[Len(path)].parent
          /\ level.children # Pending =>
               \A t \in level.children : ChildIn(rows, taken, t, level.parent)
      BY <1>1, <1>3
    <2> HIDE DEF level
    <2> QED
      BY <1>1, <1>4, <2>1, SoundPathIsAnswered
  <1>6. q \in Panel /\ PanelIsSound(q, rows, taken)
    <2> HIDE DEF given
    <2> QED
      BY <1>1, <1>5, PanelOf DEF PanelIsSound
  <1>7. [[panel EXCEPT ![p] = half] EXCEPT ![p].path[Len(path)].children = shown]
          = [panel EXCEPT ![p] = q]
    <2>1. panel \in [Pill -> Panel \cup {Closed}]
      BY DEF DeepInv, DeepShape
    <2>2. [panel EXCEPT ![p] = half][p] = half /\ half.path = path
      BY <1>0, <2>1
    <2>3. [[panel EXCEPT ![p] = half] EXCEPT ![p].path[Len(path)].children = shown]
            = [[panel EXCEPT ![p] = half] EXCEPT ![p] =
                 [half EXCEPT !.path = [path EXCEPT ![Len(path)] =
                     [last EXCEPT !.children = shown]]]]
      BY <1>1, <2>2
    <2>4. [last EXCEPT !.children = shown] = level
      BY <1>2
    <2>5. [half EXCEPT !.path = given] = q
      BY <1>0
    <2>6. [[panel EXCEPT ![p] = half] EXCEPT ![p] = [half EXCEPT !.path = given]]
            = [panel EXCEPT ![p] = q]
      <3> HIDE DEF q, given
      <3> QED
        BY <2>1, <2>5
    <2> QED
      BY <2>3, <2>4, <2>6
  <1> HIDE DEF q
  <1> QED
    BY <1>6, <1>7 DEF path, GivenUp, half

LEMMA CallFailsSoundly ==
    ASSUME DeepInv, [DeepNext]_deepVars, NEW p \in Pill, CallFails(p)
    PROVE  DeepShape' /\ DeepSound'
  <1>1. Open(p) /\ UNCHANGED <<treeVars, scene, fan, events, taken>>
    BY DEF CallFails, serviceVars, historyVars
  <1>2. panel[p] \in Panel /\ panel[p].timer \in Timer /\ "called" \in Stage
    BY <1>1, OpenPanelIsAPanel DEF Stage
  <1>3. Half(p, "called", panel[p].timer) = [panel[p] EXCEPT !.stage = "called"]
    BY <1>2, FieldsOfAPanel DEF Half
  <1>4. panel' = GivenUp(p, "called", panel[p].timer, {})
    BY <1>3 DEF CallFails, GivenUp
  <1>5. \E q \in Panel : /\ PanelIsSound(q, rows, taken)
                         /\ GivenUp(p, "called", panel[p].timer, {}) = [panel EXCEPT ![p] = q]
    BY <1>1, <1>2, GivingUpIsSound
  <1> QED
    BY <1>1, <1>4, <1>5, PanelStepIsSound

LEMMA TimeOutIsSound ==
    ASSUME DeepInv, [DeepNext]_deepVars, NEW p \in Pill, TimeOut(p)
    PROVE  DeepShape' /\ DeepSound'
  <1> DEFINE shown == IF LastOf(p).children = Pending THEN {} ELSE LastOf(p).children
             half == Half(p, panel[p].stage, "off")
  <1>1. Open(p) /\ UNCHANGED <<treeVars, scene, fan, events, taken>>
    BY DEF TimeOut, serviceVars, historyVars
  <1>2. /\ panel[p] \in Panel /\ panel[p].stage \in Stage /\ "off" \in Timer
        /\ panel \in [Pill -> Panel \cup {Closed}]
    BY <1>1, OpenPanelIsAPanel DEF Timer, DeepInv, DeepShape
  <1>3. shown = {} \/ shown = LastOf(p).children
    OBVIOUS
  <1>4. half = [panel[p] EXCEPT !.timer = "off"] /\ half.path = panel[p].path
    BY <1>2, FieldsOfAPanel DEF Half
  <1>5. panel' = GivenUp(p, panel[p].stage, "off", shown)
    <2>1. panel' = [[panel EXCEPT ![p] = half] EXCEPT
                      ![p].path[Len(panel[p].path)].children = IF @ = Pending THEN {} ELSE @]
      BY <1>4 DEF TimeOut
    <2>2. [panel EXCEPT ![p] = half][p].path = panel[p].path
      BY <1>2, <1>4
    <2> QED
      BY <2>1, <2>2 DEF LastOf, GivenUp
  <1> HIDE DEF shown
  <1>6. \E q \in Panel : /\ PanelIsSound(q, rows, taken)
                         /\ GivenUp(p, panel[p].stage, "off", shown)
                              = [panel EXCEPT ![p] = q]
    BY <1>1, <1>2, <1>3, GivingUpIsSound
  <1> QED
    BY <1>1, <1>5, <1>6, PanelStepIsSound

LEMMA HeardIsSound ==
    ASSUME NEW R, NEW T, NEW q \in Panel, PanelIsSound(q, R, T),
           NEW e \in DeepenEvent, EventIsSound(e, R, T)
    PROVE  Heard(q, e) \in Panel /\ PanelIsSound(Heard(q, e), R, T)
  <1> DEFINE path == q.path
             last == path[Len(path)]
             level == IF Answered(q, e) THEN LevelAfter(last, e) ELSE last
             answered == [path EXCEPT ![Len(path)] = level]
             timer == IF q.timer = "armed" THEN "off" ELSE q.timer
             heard == [path |-> answered, stage |-> q.stage, timer |-> timer,
                       marked |-> q.marked]
  <1>1. /\ path \in Seq(Level) /\ q.stage \in Stage /\ q.timer \in Timer
        /\ q.marked \subseteq Thought
    BY DEF Panel
  <1>2. PathIsSound(path, R, T)
    BY DEF PanelIsSound
  <1>3. /\ last \in Level /\ last.parent \in Thought \cup {None}
        /\ \A x : [last EXCEPT !.children = x] = [parent |-> last.parent, children |-> x]
        /\ Len(path) > 1 => last.parent \in Thought
        /\ last.children # Pending => \A t \in last.children : ChildIn(R, T, t, last.parent)
    <2> HIDE DEF path
    <2> QED
      BY <1>1, <1>2, LastLevel
  <1>4. /\ level \in Level
        /\ Len(path) > 1 => level.parent = last.parent
        /\ level.children # Pending => \A t \in level.children : ChildIn(R, T, t, level.parent)
    <2>1. CASE ~ Answered(q, e)
      <3>1. level = last
        BY <2>1
      <3> HIDE DEF level, last
      <3> QED
        BY <1>3, <3>1
    <2>2. CASE Answered(q, e) /\ e.kind = "ready"
      <3>1. level = [parent |-> e.about, children |-> e.children]
        BY <2>2 DEF LevelAfter
      <3>2. e.about \in Thought /\ e.children \in SUBSET Thought
        BY <2>2 DEF EventIsSound, DeepenEvent
      <3>3. last.parent \in {None, e.about} /\ None \notin Thought
        BY <2>2, RabbitAssumption DEF Answered, Thought
      <3> HIDE DEF level, last
      <3>4. level \in Level
        BY <3>1, <3>2, NoChildrenIsALevel
      <3> QED
        BY <1>3, <3>1, <3>2, <3>3, <3>4 DEF EventIsSound
    <2>3. CASE Answered(q, e) /\ e.kind # "ready"
      <3>1. level = [parent |-> last.parent, children |-> {}]
        BY <1>3, <2>3 DEF LevelAfter
      <3> HIDE DEF level, last
      <3>2. level \in Level
        BY <1>3, <3>1, NoChildrenIsALevel
      <3> QED
        BY <3>1, <3>2
    <2> QED
      BY <2>1, <2>2, <2>3
  <1>5. answered \in Seq(Level) /\ PathIsSound(answered, R, T)
    <2> HIDE DEF level, path
    <2> QED
      BY <1>1, <1>2, <1>4, SoundPathIsAnswered
  <1>6. timer \in Timer
    BY <1>1 DEF Timer
  <1>7. Heard(q, e) = q \/ Heard(q, e) = heard
    <2>1. Heard(q, e) = q \/ Heard(q, e) = [q EXCEPT !.timer = timer, !.path = answered]
      BY DEF Heard
    <2> HIDE DEF timer, answered
    <2> QED
      BY <2>1 DEF Panel
  <1> HIDE DEF answered, timer
  <1>8. heard \in Panel /\ PanelIsSound(heard, R, T)
    BY <1>1, <1>5, <1>6 DEF Panel, PanelIsSound
  <1> QED
    BY <1>7, <1>8

LEMMA HearingIsSound ==
    ASSUME DeepInv, [DeepNext]_deepVars, HearEvent
    PROVE  DeepShape' /\ DeepSound'
  <1> DEFINE e == Head(events)
  <1>1. /\ events # <<>> /\ events' = Tail(events)
        /\ UNCHANGED <<treeVars, scene, fan, taken>>
        /\ panel' = [p \in Pill |-> IF Open(p) THEN Heard(panel[p], e) ELSE Closed]
    BY DEF HearEvent, historyVars
  <1>2. rows' = rows /\ taken' = taken
    BY <1>1 DEF treeVars
  <1>3. events \in Seq(DeepenEvent) /\ panel \in [Pill -> Panel \cup {Closed}]
    BY DEF DeepInv, DeepShape
  <1>4. /\ e \in DeepenEvent /\ EventIsSound(e, rows, taken)
        /\ events' \in Seq(DeepenEvent)
        /\ \A i \in 1 .. Len(events') : EventIsSound(events'[i], rows, taken)
    <2>1. /\ e = events[1] /\ 1 \in 1 .. Len(events) /\ e \in DeepenEvent
          /\ events' \in Seq(DeepenEvent) /\ Len(events') = Len(events) - 1
          /\ \A i \in 1 .. Len(events') : events'[i] = events[i + 1] /\ i + 1 \in 1 .. Len(events)
      BY <1>1, <1>3
    <2> QED
      BY <2>1 DEF DeepInv, DeepSound
  <1> HIDE DEF e
  <1>5. ASSUME NEW p \in Pill
        PROVE  /\ Open(p) => /\ panel'[p] \in Panel
                             /\ PanelIsSound(panel'[p], rows, taken)
               /\ ~ Open(p) => panel'[p] = Closed
    <2>1. CASE Open(p)
      <3>1. panel[p] \in Panel /\ PanelIsSound(panel[p], rows, taken)
        BY <2>1, OpenPanelIsAPanel
      <3> QED
        BY <1>1, <1>4, <2>1, <3>1, HeardIsSound
    <2> QED
      BY <1>1, <2>1
  <1>6. /\ panel' \in [Pill -> Panel \cup {Closed}]
        /\ \A p \in Pill : Open(p)' => Open(p) /\ PanelIsSound(panel'[p], rows, taken)
    BY <1>1, <1>5 DEF Open
  <1>7. DeepShape'
    BY <1>1, <1>4, <1>6 DEF DeepInv, DeepShape
  <1>8. DeepSound'
    BY <1>2, <1>4, <1>6 DEF DeepSound
  <1> QED
    BY <1>7, <1>8

-----------------------------------------------------------------------------
(* A trim, a command that finds room and an opening over the open project  *)
(* change no panel; another opening and an end leave none.                 *)
LEMMA TrimmingIsSound ==
    ASSUME DeepInv, [DeepNext]_deepVars,
           \/ SceneState \/ TrimAtStart \/ Trim \/ ReopenOver
           \/ \E r \in DeepenRequest : Deliver(r)
    PROVE  DeepShape' /\ DeepSound'
  <1>1. UNCHANGED <<fan, events, panel>> /\ (scene' = scene \/ scene' \in BOOLEAN)
    BY DEF SceneState, TrimAtStart, Trim, ReopenOver, Deliver, serviceVars
  <1>2. \A p \in Pill : Open(p)' = Open(p)
    BY <1>1 DEF Open
  <1>3. DeepShape'
    BY <1>1 DEF DeepInv, DeepShape
  <1>4. DeepSound'
    BY <1>1, <1>2, WhatIsThereStaysSound DEF DeepSound
  <1> QED
    BY <1>3, <1>4

LEMMA EndingIsSound ==
    ASSUME DeepInv, Reopen \/ Crash
    PROVE  DeepShape' /\ DeepSound'
  <1>1. /\ events' = <<>> /\ scene' = FALSE
        /\ panel' = [p \in Pill |-> Closed]
        /\ fan' = fan \/ fan' = [f \in Fan |-> NoFan]
    BY DEF Reopen, Crash
  <1>2. fan' \in [Fan -> Thought \cup {NoFan}]
    BY <1>1 DEF DeepInv, DeepShape
  <1>3. \A p \in Pill : ~ Open(p)'
    BY <1>1 DEF Open
  <1>4. DeepShape'
    <2>1. panel' \in [Pill -> Panel \cup {Closed}]
      BY <1>1
    <2>2. scene' \in BOOLEAN
      BY <1>1
    <2>3. events' \in Seq(DeepenEvent)
      BY <1>1
    <2> QED
      BY <1>2, <2>1, <2>2, <2>3 DEF DeepShape
  <1>5. DeepSound'
    BY <1>1, <1>3 DEF DeepSound
  <1> QED
    BY <1>4, <1>5

LEMMA DeepStart == DeepInit => DeepInv
  <1> SUFFICES ASSUME DeepInit PROVE DeepInv
    OBVIOUS
  <1>1. TreeInv
    BY TreeStart DEF DeepInit
  <1>2. /\ calls = NoCalls /\ inbox = <<>> /\ events = <<>> /\ scene = FALSE
        /\ fan = [f \in Fan |-> NoFan] /\ panel = [p \in Pill |-> Closed]
        /\ contested = {} /\ taken = {}
    BY DEF DeepInit
  <1>3. \A p \in Pill : ~ Open(p)
    BY <1>2 DEF Open
  <1>4. DeepShape
    <2>1. panel \in [Pill -> Panel \cup {Closed}] /\ fan \in [Fan -> Thought \cup {NoFan}]
      BY <1>2
    <2>2. scene \in BOOLEAN
      BY <1>2
    <2>3. events \in Seq(DeepenEvent)
      BY <1>2
    <2> QED
      BY <2>1, <2>2, <2>3 DEF DeepShape
  <1>5. DeepSound
    BY <1>2, <1>3 DEF DeepSound
  <1>6. InboxInv /\ HistoryInv
    BY <1>2 DEF InboxInv, HistoryInv, NoCalls
  <1> QED
    BY <1>1, <1>4, <1>5, <1>6 DEF DeepInv

LEMMA HistoryStep ==
    ASSUME TreeInv, InboxInv, HistoryInv, [DeepNext]_deepVars
    PROVE  HistoryInv'
  <1>1. contested' \subseteq Thought
    <2>1. CASE MarkFails
      <3>1. Head(inbox) \in DeepenRequest /\ Head(inbox).kind = "mark"
        BY <2>1 DEF MarkFails, Ready, InboxInv
      <3>2. Head(inbox).thought \in Thought
        BY <3>1 DEF DeepenRequest
      <3> QED
        BY <2>1, <3>2 DEF MarkFails, HistoryInv
    <2>2. ASSUME NEW p \in Pill, NEW t \in Thought, ToggleResonance(p, t)
          PROVE  contested' \subseteq Thought
      BY <2>2 DEF ToggleResonance, HistoryInv
    <2>3. CASE \/ ~ (MarkFails \/ \E p \in Pill, t \in Thought : ToggleResonance(p, t))
      <3>1. contested' = contested
        BY <2>3, OnlyClicksContest
      <3> QED
        BY <3>1 DEF HistoryInv
    <2> QED
      BY <2>1, <2>2, <2>3
  <1>2. minted \in Nat /\ minted' \in Nat /\ minted <= minted'
    <2>1. minted \in Nat /\ [TreeNext]_treeVars
      BY DeepStepIsTreeStep, RabbitAssumption DEF TreeInv, TreeTypeOK
    <2>2. CASE \E m \in Message : InsertRoot(m)
      BY <2>1, <2>2 DEF InsertRoot
    <2>3. CASE \E p \in Thought, n \in 1 .. MaxFan : InsertChildren(p, n)
      BY <2>1, <2>3, RabbitAssumption DEF InsertChildren
    <2>4. CASE \E t \in Thought, b \in BOOLEAN : SetResonance(t, b)
      BY <2>1, <2>4 DEF SetResonance
    <2>5. CASE \/ BeginTrim \/ TrimLeaf \/ CommitTrim \/ FailTrim \/ Disconnect
               \/ UNCHANGED treeVars
      BY <2>1, <2>5 DEF BeginTrim, TrimLeaf, CommitTrim, FailTrim, Disconnect, treeVars
    <2> QED
      BY <2>1, <2>2, <2>3, <2>4, <2>5 DEF TreeNext
  <1>3. taken' \subseteq 1 .. minted
    BY TakenGrows
  <1> QED
    BY <1>1, <1>2, <1>3 DEF HistoryInv

LEMMA DeepStep == DeepInv /\ [DeepNext]_deepVars => DeepInv'
  <1> SUFFICES ASSUME DeepInv, [DeepNext]_deepVars PROVE DeepInv'
    OBVIOUS
  <1>1. TreeInv' /\ InboxInv' /\ HistoryInv'
    BY DeepStepIsTreeStep, TreeStep, InboxStep, HistoryStep DEF DeepInv
  <1>2. DeepShape' /\ DeepSound'
    <2>1. CASE UNCHANGED deepVars
      BY <2>1 DEF deepVars, treeVars, serviceVars, historyVars, DeepInv, DeepShape, DeepSound,
                  Open
    <2>2. CASE Serve
      BY <2>2, ServeIsSound
    <2>3. CASE \E f \in Fan : FanAnswers(f)
      BY <2>3, FanIsSound
    <2>4. CASE HearEvent
      BY <2>4, HearingIsSound
    <2>5. CASE \/ SceneState \/ TrimAtStart \/ Trim \/ ReopenOver
               \/ \E r \in DeepenRequest : Deliver(r)
      BY <2>5, TrimmingIsSound
    <2>6. CASE Reopen \/ Crash
      BY <2>6, EndingIsSound
    <2>7. ASSUME NEW p \in Pill,
                 OpenPanel(p) \/ Mount(p) \/ TimeOut(p) \/ ClosePanel(p)
          PROVE  DeepShape' /\ DeepSound'
      BY <2>7, OpeningIsSound, MountingIsSound, CallFailsSoundly, TimeOutIsSound,
         ClosingIsSound DEF Mount
    <2>8. ASSUME NEW p \in Pill, NEW t \in Thought, Descend(p, t) \/ ToggleResonance(p, t)
          PROVE  DeepShape' /\ DeepSound'
      BY <2>8, DescentIsSound, TogglingIsSound
    <2>9. ASSUME NEW p \in Pill, NEW level \in 1 .. MaxDepth, Ascend(p, level)
          PROVE  DeepShape' /\ DeepSound'
      BY <2>9, AscentIsSound
    <2> QED
      BY <2>1, <2>2, <2>3, <2>4, <2>5, <2>6, <2>7, <2>8, <2>9 DEF DeepNext
  <1> QED
    BY <1>1, <1>2 DEF DeepInv

LEMMA LevelsOfSoundPanels == DeepInv => DeepTypeOK /\ LevelsFollowTheTree
  <1> SUFFICES ASSUME DeepInv PROVE DeepTypeOK /\ LevelsFollowTheTree
    OBVIOUS
  <1>1. taken \subseteq Thought
    BY RabbitAssumption DEF DeepInv, TreeInv, TreeTypeOK, HistoryInv, Thought
  <1>2. DeepTypeOK
    BY <1>1 DEF DeepInv, DeepShape, InboxInv, HistoryInv, DeepTypeOK, TreeInv
  <1>3. LevelsFollowTheTree
    BY OpenPanelIsAPanel DEF LevelsFollowTheTree, PathIsSound, ChildIn, Stored
  <1> QED
    BY <1>2, <1>3

(* Whatever is answered late, asked twice or ascended from, trimmed under  *)
(* an open panel or lost in a crash: every level below the first one is    *)
(* about a thought of the level above, and shows children of the thought   *)
(* it is about, stored unless a trim took them.                            *)
THEOREM LevelsAlwaysFollowTheTree == DeepSpec => [](DeepTypeOK /\ LevelsFollowTheTree)
  BY DeepStart, DeepStep, LevelsOfSoundPanels, PTL DEF DeepSpec

-----------------------------------------------------------------------------
(* Marks.  A mark that someone shows and no one contested is in the table, *)
(* in what a failed trim would bring back as well, or on its way there     *)
(* with nothing that would take it away.                                   *)
Shown(t) == \E p \in Pill : Open(p) /\ t \in panel[p].marked

InTheTable(t) ==
    /\ t \in DOMAIN Seen => Seen[t].resonance
    /\ Trimming /\ t \in DOMAIN rows => rows[t].resonance

MarkIsKept(t) ==
    /\ ~ UnderWay(Mark(t, FALSE))
    /\ UnderWay(Mark(t, TRUE)) \/ InTheTable(t)

MarksInv == \A t \in Thought \ contested : Shown(t) => MarkIsKept(t)

LEMMA MarksDiffer ==
    /\ \A t, on, p : Mark(t, on) # Asking(p)
    /\ \A t, on, u : Mark(t, on) # Below(u)
    /\ \A t, on, u, off : Mark(t, on) = Mark(u, off) => t = u /\ on = off
    /\ \A t, on : Mark(t, on).thought = t /\ Mark(t, on).on = on
  <1>1. \A t, on : Mark(t, on).kind = "mark" /\ Mark(t, on).thought = t /\ Mark(t, on).on = on
    BY DEF Mark
  <1>2. \A p : Asking(p).kind = "pill"
    BY DEF Asking
  <1>3. \A u : Below(u).kind = "thought"
    BY DEF Below
  <1> QED
    BY <1>1, <1>2, <1>3

(* What the end and the head of the inbox are to the requests in it.       *)
LEMMA AppendedIsUnderWay ==
    ASSUME InboxInv, NEW x \in DeepenRequest, inbox' = Append(inbox, x),
           NEW r \in DeepenRequest, r # x => calls'[r] = calls[r]
    PROVE  /\ r # x => (UnderWay(r)' <=> UnderWay(r))
           /\ UnderWay(x)'
  <1>1. inbox \in Seq(DeepenRequest) /\ Len(inbox) \in Nat
    BY DEF InboxInv
  <1>2. /\ Len(inbox') = Len(inbox) + 1 /\ inbox'[Len(inbox) + 1] = x
        /\ \A i \in 1 .. Len(inbox) : inbox'[i] = inbox[i]
    BY <1>1
  <1>3. UnderWay(x)'
    <2>1. Len(inbox) + 1 \in 1 .. Len(inbox')
      BY <1>1, <1>2
    <2> QED
      BY <1>2, <2>1 DEF UnderWay
  <1>4. ASSUME r # x PROVE UnderWay(r)' <=> UnderWay(r)
    <2>1. \A i \in 1 .. Len(inbox') : i \in 1 .. Len(inbox) \/ inbox'[i] = x
      BY <1>1, <1>2
    <2>2. 1 .. Len(inbox) \subseteq 1 .. Len(inbox')
      BY <1>1, <1>2
    <2> QED
      BY <1>2, <1>4, <2>1, <2>2 DEF UnderWay
  <1> QED
    BY <1>3, <1>4

LEMMA ServedIsHead ==
    ASSUME InboxInv, Serve, NEW r \in DeepenRequest
    PROVE  /\ UnderWay(r)' => UnderWay(r)
           /\ UnderWay(r) /\ r # Head(inbox) => UnderWay(r)'
  <1>1. inbox # <<>> /\ inbox' = Tail(inbox) /\ calls' = calls
    BY DEF Serve, DeepenPillRefused, DeepenPill, DeepenThought, MarkThought, MarkFails, Ready,
           Taken
  <1>2. inbox \in Seq(DeepenRequest) /\ Len(inbox) \in Nat
    BY DEF InboxInv
  <1>3. /\ Len(inbox') = Len(inbox) - 1 /\ Head(inbox) = inbox[1]
        /\ \A i \in 1 .. Len(inbox') : inbox'[i] = inbox[i + 1] /\ i + 1 \in 1 .. Len(inbox)
    BY <1>1, <1>2
  <1>4. UnderWay(r)' => UnderWay(r)
    BY <1>1, <1>3 DEF UnderWay
  <1>5. ASSUME UnderWay(r), r # Head(inbox) PROVE UnderWay(r)'
    <2>1. CASE calls[r] > 0
      BY <1>1, <2>1 DEF UnderWay
    <2>2. CASE \E i \in 1 .. Len(inbox) : inbox[i] = r
      <3>1. PICK i \in 1 .. Len(inbox) : inbox[i] = r
        BY <2>2
      <3>2. i # 1
        BY <1>3, <1>5, <3>1
      <3>3. i - 1 \in 1 .. Len(inbox') /\ (i - 1) + 1 = i
        BY <1>2, <1>3, <3>1, <3>2
      <3>4. inbox'[i - 1] = r
        BY <1>3, <3>1, <3>3
      <3> QED
        BY <3>3, <3>4 DEF UnderWay
    <2> QED
      BY <1>5, <2>1, <2>2 DEF UnderWay
  <1> QED
    BY <1>4, <1>5

(* Nothing but a click sends a mark, nothing but the loop takes one.       *)
LEMMA MarksStayUnderWay ==
    ASSUME InboxInv, [DeepNext]_deepVars, ~ Serve, ~ Reopen, ~ Crash,
           ~ \E p \in Pill, t \in Thought : ToggleResonance(p, t),
           NEW u \in Thought, NEW on \in BOOLEAN
    PROVE  UnderWay(Mark(u, on))' <=> UnderWay(Mark(u, on))
  <1>1. PICK r \in DeepenRequest : /\ r = Mark(u, on)
                                   /\ \A p : r # Asking(p)
                                   /\ \A t : r # Below(t)
    BY ClicksAreRequests, MarksDiffer
  <1> SUFFICES UnderWay(r)' <=> UnderWay(r)
    BY <1>1
  <1>2. calls \in [DeepenRequest -> Nat]
    BY DEF InboxInv
  <1>3. ASSUME calls'[r] = calls[r], inbox' = inbox PROVE UnderWay(r)' <=> UnderWay(r)
    BY <1>3 DEF UnderWay
  <1>4. CASE \/ SceneState \/ HearEvent \/ TrimAtStart \/ Trim \/ ReopenOver
             \/ UNCHANGED deepVars
    <2>1. calls' = calls /\ inbox' = inbox
      BY <1>4 DEF SceneState, HearEvent, TrimAtStart, Trim, ReopenOver, serviceVars, deepVars
    <2> QED
      BY <1>3, <2>1
  <1>10. ASSUME NEW f \in Fan, FanAnswers(f) PROVE UnderWay(r)' <=> UnderWay(r)
    <2>1. FanEnds(f)
      BY <1>10 DEF FanAnswers, FanStored, FanEmpty, FanFailed
    <2> QED
      BY <1>3, <2>1 DEF FanEnds
  <1>5. ASSUME NEW p \in Pill,
               \/ OpenPanel(p) \/ HearFailures(p) \/ CallFails(p) \/ ArmTimer(p) \/ TimeOut(p)
               \/ \E level \in 1 .. MaxDepth : Ascend(p, level)
        PROVE  UnderWay(r)' <=> UnderWay(r)
    BY <1>3, <1>5 DEF OpenPanel, HearFailures, CallFails, ArmTimer, TimeOut, Ascend, serviceVars
  <1>6. ASSUME NEW x \in DeepenRequest, Deliver(x) PROVE UnderWay(r)' <=> UnderWay(r)
    <2>1. inbox' = Append(inbox, x) /\ calls[x] > 0 /\ (r # x => calls'[r] = calls[r])
      BY <1>1, <1>2, <1>6 DEF Deliver
    <2>2. CASE r = x
      BY <1>1, <2>1, <2>2, AppendedIsUnderWay DEF UnderWay
    <2>3. CASE r # x
      BY <1>1, <2>1, <2>3, AppendedIsUnderWay
    <2> QED
      BY <2>2, <2>3
  <1>7. ASSUME NEW p \in Pill, CallDeepen(p) PROVE UnderWay(r)' <=> UnderWay(r)
    <2>1. inbox' = Append(inbox, Asking(p)) /\ calls'[r] = calls[r]
      BY <1>7 DEF CallDeepen
    <2> QED
      BY <1>1, <2>1, ClicksAreRequests, AppendedIsUnderWay
  <1>8. ASSUME NEW p \in Pill, ClosePanel(p) PROVE UnderWay(r)' <=> UnderWay(r)
    <2>1. inbox' = inbox /\ (Call(Asking(p)) \/ calls' = calls)
      BY <1>8 DEF ClosePanel, serviceVars
    <2>2. calls'[r] = calls[r]
      BY <1>1, <1>2, <2>1, ClicksAreRequests DEF Call
    <2> QED
      BY <1>3, <2>1, <2>2
  <1>9. ASSUME NEW p \in Pill, NEW t \in Thought, Descend(p, t)
        PROVE  UnderWay(r)' <=> UnderWay(r)
    <2>1. inbox' = inbox /\ Call(Below(t))
      BY <1>9 DEF Descend, serviceVars
    <2>2. calls'[r] = calls[r]
      BY <1>1, <1>2, <2>1, ClicksAreRequests DEF Call
    <2> QED
      BY <1>3, <2>1, <2>2
  <1> QED
    BY <1>4, <1>5, <1>6, <1>7, <1>8, <1>9, <1>10 DEF DeepNext, Mount

LEMMA ClickIsUnderWay ==
    ASSUME InboxInv, NEW p \in Pill, NEW t \in Thought, ToggleResonance(p, t),
           NEW on \in BOOLEAN, on = (t \notin panel[p].marked)
    PROVE  /\ UnderWay(Mark(t, on))'
           /\ \A r \in DeepenRequest : r # Mark(t, on) => (UnderWay(r)' <=> UnderWay(r))
  <1>1. /\ Mark(t, on) \in DeepenRequest /\ Call(Mark(t, on)) /\ inbox' = inbox
    BY ClicksAreRequests DEF ToggleResonance, serviceVars
  <1>2. /\ calls'[Mark(t, on)] = calls[Mark(t, on)] + 1
        /\ \A r \in DeepenRequest : r # Mark(t, on) => calls'[r] = calls[r]
        /\ calls[Mark(t, on)] \in Nat
    BY <1>1 DEF Call, InboxInv
  <1>3. UnderWay(Mark(t, on))'
    BY <1>2 DEF UnderWay
  <1>4. \A r \in DeepenRequest : r # Mark(t, on) => (UnderWay(r)' <=> UnderWay(r))
    BY <1>1, <1>2 DEF UnderWay
  <1> QED
    BY <1>3, <1>4

(* The steps that touch the table, and what they leave of a mark that is   *)
(* in it.                                                                  *)
LEMMA OnlyTheseWrite ==
    ASSUME [DeepNext]_deepVars,
           ~ DeepenPill, ~ MarkThought, ~ TrimAtStart, ~ Trim, ~ Reopen, ~ Crash,
           ~ \E f \in Fan : FanStored(f)
    PROVE  UNCHANGED treeVars
  <1>1. CASE \/ SceneState \/ DeepenPillRefused \/ DeepenThought \/ MarkFails \/ HearEvent
             \/ ReopenOver \/ UNCHANGED deepVars
    BY <1>1 DEF SceneState, DeepenPillRefused, DeepenThought, MarkFails, HearEvent,
                ReopenOver, deepVars
  <1>2. ASSUME NEW r \in DeepenRequest, Deliver(r) PROVE UNCHANGED treeVars
    BY <1>2 DEF Deliver
  <1>3. ASSUME NEW f \in Fan, FanAnswers(f) PROVE UNCHANGED treeVars
    BY <1>3 DEF FanAnswers, FanEmpty, FanFailed
  <1>4. ASSUME NEW p \in Pill,
               \/ OpenPanel(p) \/ Mount(p) \/ TimeOut(p) \/ ClosePanel(p)
               \/ \E t \in Thought : Descend(p, t) \/ ToggleResonance(p, t)
               \/ \E level \in 1 .. MaxDepth : Ascend(p, level)
        PROVE  UNCHANGED treeVars
    BY <1>4 DEF OpenPanel, Mount, HearFailures, CallDeepen, CallFails, ArmTimer, TimeOut,
                ClosePanel, Descend, ToggleResonance, Ascend
  <1> QED
    BY <1>1, <1>2, <1>3, <1>4 DEF DeepNext, Serve

LEMMA StoredIsSeen ==
    ASSUME NEW R, IsTable(R), Store(R)
    PROVE  Seen' = R
  BY RabbitAssumption DEF Store, Seen, InTransaction, IsTable

(* A mark that is written is in the table; others stay what they are.      *)
LEMMA MarkingWrites ==
    ASSUME TreeInv, InboxInv, MarkThought, NEW t, Head(inbox) # Mark(t, FALSE),
           InTheTable(t) \/ Head(inbox) = Mark(t, TRUE)
    PROVE  InTheTable(t)'
  <1> DEFINE u == Head(inbox).thought
             b == Head(inbox).on
             N == [v \in DOMAIN Seen |->
                     IF v = u THEN [Seen[v] EXCEPT !.resonance = b] ELSE Seen[v]]
  <1>1. Store(N) /\ ~ Trimming /\ spared' = spared
    BY DEF MarkThought, SetResonance
  <1>2. b \in BOOLEAN /\ (u = t => b) /\ (u # t => InTheTable(t))
    <2>1. Head(inbox) \in DeepenRequest /\ Head(inbox).kind = "mark"
      BY DEF MarkThought, Ready, InboxInv
    <2>2. /\ b \in BOOLEAN
          /\ Head(inbox) = [kind |-> "mark", thought |-> u, on |-> b]
      BY <2>1 DEF DeepenRequest
    <2> HIDE DEF u, b
    <2>3. Head(inbox) = Mark(u, b)
      BY <2>2 DEF Mark
    <2> QED
      BY <2>2, <2>3, MarksDiffer
  <1>3. IsTable(Seen) /\ Whole(Seen)
    BY DEF TreeInv, TreeTypeOK, TreeIsWhole, Seen
  <1> HIDE DEF u, b
  <1>4. IsTable(N)
    BY <1>2, <1>3, MarkedIsWhole
  <1>5. Seen' = N
    <2> HIDE DEF N
    <2> QED
      BY <1>1, <1>4, StoredIsSeen
  <1>6. \A v \in DOMAIN Seen : [Seen[v] EXCEPT !.resonance = b].resonance = b
    BY <1>3 DEF IsTable, Row
  <1> QED
    BY <1>1, <1>2, <1>5, <1>6 DEF InTheTable, Trimming

LEMMA TheTableKeepsMarks ==
    ASSUME TreeInv, InboxInv, [DeepNext]_deepVars, ~ Reopen, ~ Crash,
           NEW t \in 1 .. minted, InTheTable(t),
           MarkThought => Head(inbox) # Mark(t, FALSE)
    PROVE  InTheTable(t)'
  <1>0. /\ minted \in Nat
        /\ Trimming => InTransaction /\ draft = Restrict(rows, DOMAIN draft)
                       /\ DOMAIN draft \subseteq DOMAIN rows
    BY RabbitAssumption DEF TreeInv, TreeTypeOK, TrimInv
  <1>9. IsTable(Seen)
    BY DEF TreeInv, TreeTypeOK, Seen
  <1>1. CASE DeepenPill
    <2>1. PICK m \in Message : InsertRoot(m)
      <3>1. InsertRoot(Head(inbox).pill) /\ Head(inbox) \in DeepenRequest
            /\ Head(inbox).kind = "pill"
        BY <1>1 DEF DeepenPill, Ready, InboxInv
      <3>2. Head(inbox).pill \in Message
        BY <3>1, DeepeningAssumption DEF DeepenRequest
      <3> QED
        BY <3>1, <3>2
    <2>2. ~ Trimming /\ spared' = spared
      BY <2>1 DEF InsertRoot
    <2>3. t # minted + 1
      BY <1>0
    <2> DEFINE row == [parent |-> None, depth |-> 0, resonance |-> FALSE,
                       created |-> minted + 1, message |-> m]
               R == With(Seen, {minted + 1}, row)
    <2>4. Store(R) /\ minted + 1 \in Thought /\ row \in Row
      BY <1>0, <2>1, RabbitAssumption DEF InsertRoot, Thought, Row
    <2>5. IsTable(R)
      <3> HIDE DEF row
      <3> QED
        BY <1>9, <2>4 DEF With, IsTable
    <2>6. Seen' = R
      <3> HIDE DEF R
      <3> QED
        BY <2>4, <2>5, StoredIsSeen
    <2> HIDE DEF row
    <2> QED
      BY <2>2, <2>3, <2>6 DEF InTheTable, With, Trimming
  <1>2. ASSUME NEW f \in Fan, FanStored(f) PROVE InTheTable(t)'
    <2>1. PICK n \in 1 .. MaxFan : InsertChildren(fan[f], n)
      BY <1>2 DEF FanStored
    <2>2. ~ Trimming /\ spared' = spared /\ ~ InTransaction /\ draft' = draft
      BY <2>1 DEF InsertChildren, CanFan
    <2>3. t \notin Fresh(n)
      BY <1>0 DEF Fresh
    <2>4. Seen' = With(Seen, Fresh(n),
                    [parent |-> fan[f], depth |-> rows[fan[f]].depth + 1, resonance |-> FALSE,
                     created |-> minted + 1, message |-> None])
      BY <2>1, <2>2 DEF InsertChildren, Seen, InTransaction
    <2> QED
      BY <2>2, <2>3, <2>4 DEF InTheTable, With, Trimming
  <1>3. CASE MarkThought
    BY <1>3, MarkingWrites
  <1>4. CASE TrimAtStart
    <2>1. ~ InTransaction /\ ~ Trimming /\ draft' = rows /\ rows' = rows
      BY <1>4 DEF TrimAtStart, BeginTrim
    <2> QED
      BY <2>1 DEF InTheTable, Seen, InTransaction
  <1>5. CASE TrimLeaf
    <2>1. PICK v : draft' = Restrict(draft, DOMAIN draft \ {v}) /\ rows' = rows
      BY <1>5 DEF TrimLeaf
    <2>2. Trimming /\ Trimming' /\ InTransaction
      BY <1>0, <1>5 DEF TrimLeaf, Trimming
    <2>3. /\ Seen = draft /\ (Seen' = draft' \/ Seen' = rows)
      BY <2>1, <2>2 DEF Seen
    <2> QED
      BY <2>1, <2>2, <2>3 DEF InTheTable, Restrict
  <1>6. CASE CommitTrim
    <2>1. Trimming /\ InTransaction /\ rows' = draft /\ draft' = None /\ spared' = None
      BY <1>0, <1>6 DEF CommitTrim
    <2>2. Seen = draft /\ Seen' = draft /\ ~ Trimming'
      BY <2>1 DEF Seen, InTransaction, Trimming
    <2> QED
      BY <2>2 DEF InTheTable
  <1>7. CASE FailTrim
    <2>1. Trimming /\ InTransaction /\ rows' = rows /\ (draft' = draft \/ draft' = None)
          /\ spared' = None
      BY <1>0, <1>7 DEF FailTrim
    <2>2. Seen = draft /\ (Seen' = draft \/ Seen' = rows) /\ ~ Trimming'
      BY <2>1 DEF Seen, InTransaction, Trimming
    <2> QED
      BY <2>1, <2>2 DEF InTheTable
  <1>8. CASE UNCHANGED treeVars
    BY <1>8 DEF treeVars, InTheTable, Seen, InTransaction, Trimming
  <1> QED
    BY <1>1, <1>2, <1>3, <1>4, <1>5, <1>6, <1>7, <1>8, OnlyTheseWrite DEF Trim

(* Only the click on a mark shows it.                                      *)
LEMMA ShownWasShown ==
    ASSUME DeepInv, [DeepNext]_deepVars, NEW t, NEW p \in Pill,
           Open(p)', t \in panel'[p].marked, ~ ToggleResonance(p, t)
    PROVE  Open(p) /\ t \in panel[p].marked
  <1>0. /\ panel \in [Pill -> Panel \cup {Closed}]
        /\ panel'[p] # Closed
        /\ Open(p) => panel[p] \in Panel
    BY DEF DeepInv, DeepShape, Open
  <1>1. CASE panel' = panel
    BY <1>1 DEF Open
  <1>2. CASE \/ SceneState \/ Serve \/ TrimAtStart \/ Trim \/ ReopenOver \/ UNCHANGED deepVars
    <2>1. panel' = panel
      BY <1>2 DEF SceneState, Serve, DeepenPillRefused, DeepenPill, DeepenThought, MarkThought,
                  MarkFails, TrimAtStart, Trim, ReopenOver, deepVars
    <2> QED
      BY <1>1, <2>1
  <1>3. ASSUME NEW r \in DeepenRequest, Deliver(r) PROVE panel' = panel
    BY <1>3 DEF Deliver
  <1>4. ASSUME NEW f \in Fan, FanAnswers(f) PROVE panel' = panel
    BY <1>4 DEF FanAnswers, FanStored, FanEmpty, FanFailed, FanEnds
  <1>5. CASE Reopen \/ Crash
    BY <1>0, <1>5 DEF Reopen, Crash
  <1>6. CASE HearEvent
    <2>1. Open(p) /\ panel'[p] = Heard(panel[p], Head(events))
      BY <1>0, <1>6 DEF HearEvent
    <2>2. Heard(panel[p], Head(events)).marked = panel[p].marked
      BY <1>0, <2>1 DEF Heard, Panel
    <2> QED
      BY <2>1, <2>2
  <1>7. ASSUME NEW o \in Pill, OpenPanel(o) PROVE Open(p) /\ t \in panel[p].marked
    BY <1>0, <1>7 DEF OpenPanel, Open
  <1>8. ASSUME NEW o \in Pill, ClosePanel(o) PROVE Open(p) /\ t \in panel[p].marked
    BY <1>0, <1>8 DEF ClosePanel, Open
  <1>9. ASSUME NEW o \in Pill,
               \/ HearFailures(o) \/ CallDeepen(o) \/ ArmTimer(o) \/ CallFails(o) \/ TimeOut(o)
               \/ \E u \in Thought : Descend(o, u)
               \/ \E level \in 1 .. MaxDepth : Ascend(o, level)
        PROVE  Open(p) /\ t \in panel[p].marked
    <2>1. Open(o) /\ panel[o] \in Panel
      BY <1>0, <1>9 DEF HearFailures, CallDeepen, ArmTimer, CallFails, TimeOut, Descend,
                        CanClick, Ascend, DeepInv, DeepShape, Open
    <2>2. panel'[o].marked = panel[o].marked
      <3>1. CASE HearFailures(o)
        BY <1>0, <2>1, <3>1 DEF HearFailures, Panel
      <3>2. CASE CallDeepen(o)
        BY <1>0, <2>1, <3>2 DEF CallDeepen, Panel
      <3>3. CASE ArmTimer(o)
        BY <1>0, <2>1, <3>3 DEF ArmTimer, Panel
      <3>4. CASE CallFails(o)
        BY <1>0, <2>1, <3>4 DEF CallFails, Panel
      <3>5. CASE TimeOut(o)
        BY <1>0, <2>1, <3>5 DEF TimeOut, Panel
      <3>6. ASSUME NEW u \in Thought, Descend(o, u) PROVE panel'[o].marked = panel[o].marked
        BY <1>0, <2>1, <3>6 DEF Descend, Panel
      <3>7. ASSUME NEW level \in 1 .. MaxDepth, Ascend(o, level)
            PROVE  panel'[o].marked = panel[o].marked
        BY <1>0, <2>1, <3>7 DEF Ascend, Panel
      <3> QED
        BY <1>9, <3>1, <3>2, <3>3, <3>4, <3>5, <3>6, <3>7
    <2>3. p # o => panel'[p] = panel[p]
      BY <1>0, <1>9 DEF HearFailures, CallDeepen, ArmTimer, CallFails, TimeOut, Descend, Ascend
    <2> QED
      BY <1>0, <2>1, <2>2, <2>3 DEF Open
  <1>10. ASSUME NEW o \in Pill, NEW u \in Thought, ToggleResonance(o, u)
         PROVE  Open(p) /\ t \in panel[p].marked
    <2>1. p # o => panel'[p] = panel[p]
      BY <1>0, <1>10 DEF ToggleResonance
    <2>2. Open(o) /\ panel[o] \in Panel
      BY <1>0, <1>10 DEF ToggleResonance, CanClick, DeepInv, DeepShape, Open
    <2>3. panel'[o].marked = SymDiff(panel[o].marked, {u})
      BY <1>0, <1>10, <2>2 DEF ToggleResonance, Panel
    <2>4. p = o => u # t
      BY <1>10
    <2> QED
      BY <1>0, <2>1, <2>2, <2>3, <2>4 DEF Open, SymDiff
  <1> QED
    BY <1>1, <1>2, <1>3, <1>4, <1>5, <1>6, <1>7, <1>8, <1>9, <1>10 DEF DeepNext, Mount

(* What was contested stays so until the thought is clicked again.         *)
LEMMA ContestedStays ==
    ASSUME [DeepNext]_deepVars, NEW t \in contested,
           ~ \E p \in Pill : ToggleResonance(p, t)
    PROVE  t \in contested'
  <1>1. CASE MarkFails
    BY <1>1 DEF MarkFails
  <1>2. ASSUME NEW p \in Pill, NEW u \in Thought, ToggleResonance(p, u)
        PROVE  t \in contested'
    BY <1>2 DEF ToggleResonance
  <1>3. CASE ~ MarkFails /\ ~ \E p \in Pill, u \in Thought : ToggleResonance(p, u)
    BY <1>3, OnlyClicksContest
  <1> QED
    BY <1>1, <1>2, <1>3

LEMMA MarksStep == DeepInv /\ MarksInv /\ [DeepNext]_deepVars => MarksInv'
  <1> SUFFICES ASSUME DeepInv, MarksInv, [DeepNext]_deepVars,
                      NEW t \in Thought, t \notin contested',
                      NEW p \in Pill, Open(p)', t \in panel'[p].marked
               PROVE  MarkIsKept(t)'
    BY DEF MarksInv, Shown
  <1> DEFINE on == Mark(t, TRUE)
             off == Mark(t, FALSE)
  <1>0. /\ on \in DeepenRequest /\ off \in DeepenRequest /\ on # off
        /\ InboxInv /\ TreeInv
    BY ClicksAreRequests, MarksDiffer DEF DeepInv
  <1>1. ASSUME NEW o \in Pill, ToggleResonance(o, t) PROVE MarkIsKept(t)'
    <2>1. CASE t \notin panel[o].marked
      <3>1. UnderWay(on)' /\ (UnderWay(off)' <=> UnderWay(off))
        BY <1>0, <1>1, <2>1, ClickIsUnderWay
      <3>2. ~ Contested(o, t, TRUE)
        BY <1>1, <2>1 DEF ToggleResonance
      <3>3. ~ UnderWay(off)
        BY <3>2 DEF Contested
      <3> QED
        BY <3>1, <3>3 DEF MarkIsKept
    <2>2. CASE t \in panel[o].marked
      <3>1. ~ Contested(o, t, FALSE)
        BY <1>1, <2>2 DEF ToggleResonance
      <3>2. \A q \in Pill \ {o} : ~ (Open(q) /\ t \in panel[q].marked)
        BY <3>1 DEF Contested
      <3>3. panel \in [Pill -> Panel \cup {Closed}] /\ panel[o] \in Panel
        BY <1>1 DEF ToggleResonance, CanClick, Open, DeepInv, DeepShape
      <3>4. panel'[o].marked = SymDiff(panel[o].marked, {t})
        BY <1>1, <3>3 DEF ToggleResonance, Panel
      <3>5. p # o
        BY <2>2, <3>4 DEF SymDiff
      <3>6. panel'[p] = panel[p]
        BY <1>1, <3>3, <3>5 DEF ToggleResonance
      <3> QED
        BY <3>2, <3>5, <3>6 DEF Open
    <2> QED
      BY <2>1, <2>2
  <1>2. CASE ~ \E o \in Pill : ToggleResonance(o, t)
    <2>1. Open(p) /\ t \in panel[p].marked
      BY <1>2, ShownWasShown
    <2>2. t \notin contested
      BY <1>2, ContestedStays
    <2>3. /\ ~ UnderWay(off)
          /\ UnderWay(on) \/ InTheTable(t)
      BY <2>1, <2>2 DEF MarksInv, Shown, MarkIsKept
    <2>4. t \in 1 .. minted
      BY <2>1, OpenPanelIsAPanel DEF PanelIsSound, DeepInv, TreeInv, MintedInv, HistoryInv
    <2>5. ~ Reopen /\ ~ Crash
      BY DEF Reopen, Crash, Open
    <2>6. ASSUME MarkThought PROVE Head(inbox) # off
      <3>1. inbox # <<>> /\ inbox \in Seq(DeepenRequest)
        BY <2>6, <1>0 DEF MarkThought, Ready, InboxInv
      <3>2. 1 \in 1 .. Len(inbox) /\ Head(inbox) = inbox[1]
        BY <3>1
      <3> HIDE DEF off
      <3> QED
        BY <2>3, <3>2 DEF UnderWay
    <2>7. InTheTable(t) => InTheTable(t)'
      BY <1>0, <2>4, <2>5, <2>6, TheTableKeepsMarks
    <2>8. CASE Serve
      <3>1. ~ UnderWay(off)' /\ (UnderWay(on) /\ on # Head(inbox) => UnderWay(on)')
        BY <1>0, <2>3, <2>8, ServedIsHead
      <3>2. ASSUME on = Head(inbox) PROVE InTheTable(t)'
        <4>1. Head(inbox).kind = "mark" /\ Head(inbox).thought = t
          BY <3>2 DEF Mark
        <4>2. ~ MarkFails
          BY <4>1 DEF MarkFails
        <4>3. MarkThought
          BY <2>8, <4>1, <4>2 DEF Serve, DeepenPillRefused, DeepenPill, DeepenThought, Ready
        <4> QED
          BY <1>0, <2>6, <3>2, <4>3, MarkingWrites
      <3> QED
        BY <2>3, <2>7, <3>1, <3>2 DEF MarkIsKept
    <2>9. ASSUME NEW o \in Pill, NEW u \in Thought, ToggleResonance(o, u)
          PROVE  MarkIsKept(t)'
      <3>1. u # t
        BY <1>2, <2>9
      <3>2. PICK b \in BOOLEAN : b = (u \notin panel[o].marked)
        OBVIOUS
      <3>3. on # Mark(u, b) /\ off # Mark(u, b)
        BY <3>1, MarksDiffer
      <3>4. (UnderWay(on)' <=> UnderWay(on)) /\ (UnderWay(off)' <=> UnderWay(off))
        BY <1>0, <2>9, <3>2, <3>3, ClickIsUnderWay
      <3> QED
        BY <2>3, <2>7, <3>4 DEF MarkIsKept
    <2>10. CASE ~ Serve /\ ~ \E o \in Pill, u \in Thought : ToggleResonance(o, u)
      <3>1. (UnderWay(on)' <=> UnderWay(on)) /\ (UnderWay(off)' <=> UnderWay(off))
        BY <1>0, <2>5, <2>10, MarksStayUnderWay
      <3> QED
        BY <2>3, <2>7, <3>1 DEF MarkIsKept
    <2> QED
      BY <2>8, <2>9, <2>10
  <1> QED
    BY <1>1, <1>2

LEMMA MarksOfSoundPanels == DeepInv /\ MarksInv => MarksAreKept
  <1> SUFFICES ASSUME DeepInv, MarksInv, NEW p \in Pill, Open(p),
                      NEW t \in panel[p].marked \ contested
               PROVE  /\ Stored(t) \/ t \in taken
                      /\ (\A on \in BOOLEAN : ~ UnderWay(Mark(t, on))) /\ t \in DOMAIN Seen
                           => Seen[t].resonance
    BY DEF MarksAreKept
  <1>1. t \in Thought /\ t \in DOMAIN rows \cup taken
    BY OpenPanelIsAPanel DEF PanelIsSound
  <1>2. MarkIsKept(t)
    BY <1>1 DEF MarksInv, Shown
  <1> QED
    BY <1>1, <1>2 DEF MarkIsKept, InTheTable, Stored

(* What the panels show is what the store of thoughts holds: the levels of *)
(* every open panel, as above, and every mark nobody contested, which a    *)
(* command, a trim, a failed transaction or an opening over the project    *)
(* cannot take away behind it.  It holds for any number of open panels.    *)
THEOREM PanelsAreTrue == DeepSpec => []PanelsFollowTheTree
  <1>1. DeepInit => MarksInv
    <2> SUFFICES ASSUME DeepInit PROVE MarksInv
      OBVIOUS
    <2>1. \A p \in Pill : ~ Open(p)
      BY DEF DeepInit, Open
    <2> QED
      BY <2>1 DEF MarksInv, Shown
  <1>2. DeepInv /\ MarksInv => PanelsFollowTheTree
    BY LevelsOfSoundPanels, MarksOfSoundPanels DEF PanelsFollowTheTree
  <1> QED
    BY <1>1, <1>2, DeepStart, DeepStep, MarksStep, PTL DEF DeepSpec
=============================================================================
