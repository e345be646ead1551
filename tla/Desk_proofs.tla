----------------------------- MODULE Desk_proofs -----------------------------
(***************************************************************************)
(* Proofs about what runs beside the pills, part by part: the editor's own *)
(* pills, the rules of the diagnostics, the supervisor of the sidecar, how *)
(* a project opens, and the snapshots; for every set of blocks, texts and  *)
(* findings, every vocabulary, cap, rest, interval and policy.             *)
(*                                                                         *)
(* OneRowPerFinding is inductive.  The step that matters is the scan: what *)
(* it inserts has no active row yet, and it inserts each finding once,     *)
(* because as many rows as there are findings cover all of them only if    *)
(* no two are alike.  That polls are spaced is not inductive: what counts  *)
(* is that the time since the last poll and the time until the interval    *)
(* fires never add up to less than the interval, and that no poll came     *)
(* before the boot.  Thinning is safe because of all the readable          *)
(* successors of a snapshot the newest is never thinned out: what makes it *)
(* superfluous has a newer readable successor of its own.                  *)
(***************************************************************************)
EXTENDS EditorPills, Diagnostics, Sidecar, Projects, Snapshots, SequenceTheorems,
        FunctionTheorems, FiniteSetTheorems, WellFoundedInduction, TLAPS

-----------------------------------------------------------------------------
(* Every set of numbers has a least one: this is what carries an induction. *)
LEMMA LeastOf == ASSUME NEW T \in SUBSET Nat, T # {} PROVE \E x \in T : \A y \in T : x <= y
<1> DEFINE R == OpToRel(<, Nat)
<1>1. IsWellFoundedOn(R, Nat)
  BY NatLessThanWellFounded
<1>2. PICK x \in T : \A y \in T : <<y, x>> \notin R
  <2> HIDE DEF R
  <2> QED BY <1>1, WFMin
<1>3. \A y \in T : ~(y < x)
  BY <1>2 DEF OpToRel
<1> QED BY <1>3

-----------------------------------------------------------------------------
(* The editor's own pills.                                                 *)
RowsInv == EditorTypeOK /\ OneRowPerFinding /\ asksMade = passes

-----------------------------------------------------------------------------
LEMMA MissingIsFinite ==
    ASSUME NEW s
    PROVE  IsFiniteSet(Missing(s)) /\ Cardinality(Missing(s)) \in Nat
<1> DEFINE EachPair == Block \X Finding
           All   == {[block |-> b, says |-> x] : b \in Block, x \in Finding}
           F     == [q \in EachPair |-> [block |-> q[1], says |-> q[2]]]
<1>1. IsFiniteSet(EachPair)
  BY EditorAssumption, FS_Product DEF Finding
<1>2. F \in Surjection(EachPair, All)
  <2>1. \A q \in EachPair : F[q] \in All
    OBVIOUS
  <2>2. ASSUME NEW y \in All PROVE \E q \in EachPair : F[q] = y
    <3>1. PICK b \in Block, x \in Finding : y = [block |-> b, says |-> x]
      OBVIOUS
    <3>2. <<b, x>> \in EachPair /\ F[<<b, x>>] = y
      BY <3>1
    <3> QED BY <3>2
  <2> QED BY <2>1, <2>2 DEF Surjection
<1>3. IsFiniteSet(All)
  BY <1>1, <1>2, FS_Surjection
<1> QED BY <1>3, FS_Subset, FS_CardinalityType DEF Missing

(* An order of the missing findings has each of them once.                 *)
LEMMA OrderHasNoRepetition ==
    ASSUME NEW s, NEW order \in [1..Cardinality(Missing(s)) -> Missing(s)],
           \A f \in Missing(s) : \E i \in DOMAIN order : order[i] = f,
           NEW i \in DOMAIN order, NEW j \in DOMAIN order, order[i] = order[j]
    PROVE  i = j
<1> DEFINE n == Cardinality(Missing(s))
<1>1. IsFiniteSet(1..n) /\ Cardinality(1..n) = n
  BY MissingIsFinite, FS_Interval
<1>2. order \in Surjection(1..n, Missing(s))
  BY DEF Surjection
<1>3. order \in Injection(1..n, Missing(s))
  BY <1>1, <1>2, FS_SurjSameCardinalityImpliesInj
<1> QED BY <1>3 DEF Injection, IsInjective

-----------------------------------------------------------------------------
LEMMA EditorStarts == EditorInit => RowsInv
<1> SUFFICES ASSUME EditorInit PROVE RowsInv
  OBVIOUS
<1>1. scene \in Scene /\ polishedAt \in [Block -> (0..MaxHours) \cup {Never}]
  BY EditorAssumption DEF EditorInit, Scene
<1>2. /\ saves \in 0..MaxSaves /\ lastId \in 0..MaxRows /\ passes \in 0..PolishCap
      /\ hour \in 0..MaxHours /\ asksMade \in Nat /\ asksMade = passes
  BY EditorAssumption DEF EditorInit
<1>3. /\ dirty \in BOOLEAN /\ scan \subseteq Scene /\ rowed \subseteq Row
      /\ request \subseteq Paragraph /\ polishing \subseteq Paragraph /\ OneRowPerFinding
  BY DEF EditorInit, OneRowPerFinding, Active
<1> QED BY <1>1, <1>2, <1>3 DEF RowsInv, EditorTypeOK

(* What the findings of a scan make of the table: well-typed rows, new     *)
(* ones on blocks of the scan alone, every finding shown and none twice.   *)
LEMMA UpsertsFind ==
    ASSUME RowsInv, NEW s \in scan, ScanCommits(s), NEW rows \in Upserted(s)
    PROVE  /\ rows \subseteq Row
           /\ \A r \in rows \ rowed : r.block \in Blocks(s)
           /\ \A q, r \in rows : /\ ~q.dismissed /\ ~r.dismissed
                                 /\ q.block = r.block /\ q.says = r.says
                                 => q = r
           /\ \A b \in Blocks(s) : \A f \in FindingsOf[s[b]] :
                 \E r \in rows : r.block = b /\ r.says = f /\ ~r.dismissed
<1> DEFINE n == Cardinality(Missing(s))
<1>0. n \in Nat /\ lastId \in Nat /\ lastId + n <= MaxRows /\ MaxRows \in Nat /\ s \in Scene
  BY MissingIsFinite, EditorAssumption DEF RowsInv, EditorTypeOK, ScanCommits
<1>1. PICK order \in [1..n -> Missing(s)] :
          /\ \A f \in Missing(s) : \E i \in DOMAIN order : order[i] = f
          /\ rows = rowed \cup {NewRow(lastId + i, order[i]) : i \in DOMAIN order}
  BY DEF Upserted, Orders
<1> DEFINE New == {NewRow(lastId + i, order[i]) : i \in DOMAIN order}
<1>3. \A f \in Missing(s) : /\ f.block \in Block /\ f.says \in Finding
                            /\ f.block \in Blocks(s) /\ On(f.block, f.says) = {}
                            /\ f = [block |-> f.block, says |-> f.says]
  BY DEF Missing
<1>4. \A i \in 1..n : lastId + i \in 1..MaxRows
  BY <1>0
<1>5. New \subseteq Row /\ \A r \in New : r.block \in Blocks(s)
  <2> SUFFICES ASSUME NEW i \in 1..n
               PROVE  /\ NewRow(lastId + i, order[i]) \in Row
                      /\ NewRow(lastId + i, order[i]).block \in Blocks(s)
    OBVIOUS
  <2>1. order[i] \in Missing(s)
    BY <1>1
  <2> QED BY <1>3, <1>4, <2>1 DEF NewRow, Row
<1>6. rows = rowed \cup New
  BY <1>1
<1> HIDE DEF n, New
<1>7. rows \subseteq Row
  BY <1>5, <1>6 DEF RowsInv, EditorTypeOK
<1>8. ASSUME NEW q \in rows, NEW r \in rows, ~q.dismissed, ~r.dismissed,
             q.block = r.block, q.says = r.says
      PROVE  q = r
  <2>1. ASSUME NEW x \in New PROVE /\ \E i \in 1..n : x = NewRow(lastId + i, order[i])
                                   /\ On(x.block, x.says) = {}
    <3>1. PICK i \in 1..n : x = NewRow(lastId + i, order[i])
      BY DEF New, n
    <3>2. order[i] \in Missing(s) /\ x.block = order[i].block /\ x.says = order[i].says
      BY <1>1, <3>1 DEF NewRow, n
    <3> QED BY <1>3, <3>1, <3>2
  <2>2. CASE q \in New /\ r \in New
    <3>1. PICK i \in 1..n, j \in 1..n : /\ q = NewRow(lastId + i, order[i])
                                        /\ r = NewRow(lastId + j, order[j])
      BY <2>1, <2>2
    <3>2. order[i] = order[j]
      BY <1>3, <1>8, <3>1, <1>1 DEF NewRow
    <3>3. i = j
      BY <1>1, <3>2, OrderHasNoRepetition DEF n
    <3> QED BY <3>1, <3>3
  <2>3. CASE q \in New /\ r \in rowed
    BY <1>8, <2>1, <2>3 DEF On, Active
  <2>4. CASE q \in rowed /\ r \in New
    BY <1>8, <2>1, <2>4 DEF On, Active
  <2>5. CASE q \in rowed /\ r \in rowed
    BY <1>8, <2>5 DEF RowsInv, OneRowPerFinding, Active
  <2> QED BY <1>6, <2>2, <2>3, <2>4, <2>5
<1>9. ASSUME NEW b \in Blocks(s), NEW f \in FindingsOf[s[b]]
      PROVE  \E r \in rows : r.block = b /\ r.says = f /\ ~r.dismissed
  <2>0. f \in Finding /\ b \in Block
    BY <1>0 DEF Blocks, Finding, Scene
  <2>1. CASE On(b, f) # {}
    BY <2>1, <1>6 DEF On, Active
  <2>2. CASE On(b, f) = {}
    <3>1. [block |-> b, says |-> f] \in Missing(s)
      BY <2>0, <2>2 DEF Missing
    <3>2. PICK i \in 1..n : order[i] = [block |-> b, says |-> f]
      BY <3>1, <1>1
    <3>3. NewRow(lastId + i, order[i]) \in New
      BY <1>1 DEF New
    <3>4. PICK r \in New : r.block = b /\ r.says = f /\ ~r.dismissed
      BY <3>2, <3>3 DEF NewRow
    <3> QED BY <1>6, <3>4
  <2> QED BY <2>1, <2>2
<1> QED BY <1>5, <1>6, <1>7, <1>8, <1>9

(* What a committed scan leaves, cleaned up or not.                        *)
ScanLeaves(s) ==
    /\ \A b \in Blocks(s) : \A f \in FindingsOf[s[b]] :
          \E r \in rowed' : r.block = b /\ r.says = f /\ ~r.dismissed
    /\ \A r \in rowed' \ rowed : r.block \in Blocks(s)

(* A committed scan leaves the upserted rows, those of its blocks at       *)
(* least: it keeps the invariant and shows what it found.                  *)
LEMMA ScanRuns ==
    ASSUME RowsInv, NEW s \in scan, RunScan(s) \/ RunScanUncleaned(s)
    PROVE  /\ RowsInv'
           /\ ScanLeaves(s)
           /\ RunScan(s) => \A r \in rowed' : r.block \in Blocks(s)
<1>1. PICK rows \in Upserted(s) : rowed' = rows \/ rowed' = Kept(rows, s)
  BY DEF RunScan, RunScanUncleaned
<1>2. ScanCommits(s)
  BY DEF RunScan, RunScanUncleaned
<1>3. /\ rows \subseteq Row
      /\ \A r \in rows \ rowed : r.block \in Blocks(s)
      /\ \A q, r \in rows : /\ ~q.dismissed /\ ~r.dismissed
                            /\ q.block = r.block /\ q.says = r.says
                            => q = r
      /\ \A b \in Blocks(s) : \A f \in FindingsOf[s[b]] :
            \E r \in rows : r.block = b /\ r.says = f /\ ~r.dismissed
  BY <1>2, UpsertsFind
<1>4. rowed' \subseteq rows /\ \A r \in rows : r.block \in Blocks(s) => r \in rowed'
  BY <1>1 DEF Kept
<1>5. /\ UNCHANGED <<scene, dirty, saves, hour, polish>> /\ scan' = scan \ {s}
      /\ lastId' \in 0..MaxRows
  BY <1>2, MissingIsFinite, EditorAssumption DEF ScanCommits, RowsInv, EditorTypeOK
<1>6. EditorTypeOK'
  BY <1>3, <1>4, <1>5 DEF RowsInv, EditorTypeOK, polish
<1>7. OneRowPerFinding'
  BY <1>3, <1>4 DEF OneRowPerFinding, Active
<1>8. ScanLeaves(s)
  BY <1>3, <1>4 DEF ScanLeaves
<1>9. RunScan(s) => \A r \in rowed' : r.block \in Blocks(s)
  BY DEF RunScan, Kept
<1> QED BY <1>5, <1>6, <1>7, <1>8, <1>9 DEF RowsInv, polish

LEMMA Dismissing == ASSUME RowsInv, NEW r \in Active, Dismiss(r) PROVE RowsInv'
<1>1. r \in Row /\ [r EXCEPT !.dismissed = TRUE] \in Row /\ [r EXCEPT !.dismissed = TRUE].dismissed
  BY DEF Active, RowsInv, EditorTypeOK, Row
<1>2. rowed' = (rowed \ {r}) \cup {[r EXCEPT !.dismissed = TRUE]}
  BY DEF Dismiss
<1>3. UNCHANGED <<scene, dirty, saves, scan, lastId, hour, request, polishing, passes,
                 polishedAt, asksMade>>
  BY DEF Dismiss, writing, polish
<1>4. EditorTypeOK'
  BY <1>1, <1>2, <1>3 DEF RowsInv, EditorTypeOK
<1>5. OneRowPerFinding'
  BY <1>1, <1>2 DEF RowsInv, OneRowPerFinding, Active
<1> QED BY <1>3, <1>4, <1>5 DEF RowsInv

LEMMA Remarking ==
    ASSUME RowsInv, NEW q \in polishing, NEW says \in Remark, Remarks(q, says)
    PROVE  RowsInv'
<1>1. UNCHANGED <<scene, dirty, saves, scan, hour, request, passes, polishedAt, asksMade>>
      /\ polishing' = polishing \ {q}
  BY DEF Remarks, writing
<1>2. CASE On(q.block, says) # {}
  <2>1. rowed' = rowed /\ lastId' = lastId
    BY <1>2 DEF Remarks
  <2> QED BY <1>1, <2>1 DEF RowsInv, EditorTypeOK, OneRowPerFinding, Active
<1>3. CASE On(q.block, says) = {}
  <2> DEFINE new == NewRow(lastId + 1, [block |-> q.block, says |-> says])
  <2>1. lastId < MaxRows /\ lastId' = lastId + 1 /\ rowed' = rowed \cup {new}
    BY <1>3 DEF Remarks
  <2>2. lastId + 1 \in 1..MaxRows /\ q.block \in Block
    BY <2>1, EditorAssumption DEF RowsInv, EditorTypeOK, Paragraph
  <2>3. new \in Row /\ new.block = q.block /\ new.says = says
    BY <2>2 DEF NewRow, Row
  <2>4. EditorTypeOK'
    <3>1. lastId' \in 0..MaxRows
      BY <2>1, <2>2, EditorAssumption
    <3> HIDE DEF new
    <3> QED BY <1>1, <2>1, <2>3, <3>1 DEF RowsInv, EditorTypeOK
  <2>5. OneRowPerFinding'
    <3> HIDE DEF new
    <3> QED BY <1>3, <2>1, <2>3 DEF RowsInv, OneRowPerFinding, Active, On
  <2> QED BY <1>1, <2>4, <2>5 DEF RowsInv
<1> QED BY <1>2, <1>3

LEMMA Polishing == ASSUME RowsInv, NEW q \in request, Polish(q) PROVE RowsInv'
<1>1. UNCHANGED <<scene, dirty, saves, scan, rowed, lastId, hour>> /\ request' = request \ {q}
  BY DEF Polish, writing
<1>2. OneRowPerFinding'
  BY <1>1 DEF RowsInv, OneRowPerFinding, Active
<1>3. q \in Paragraph /\ hour \in (0..MaxHours) \cup {Never} /\ passes \in 0..PolishCap
  BY DEF RowsInv, EditorTypeOK
<1>4. CASE Allowed(q.block)
  <2>1. \/ /\ passes' = passes + 1 /\ polishedAt' = [polishedAt EXCEPT ![q.block] = hour]
           /\ polishing' = polishing \cup {q} /\ asksMade' = asksMade + 1
    BY <1>4 DEF Polish, TakeSlot
  <2>2. passes + 1 \in 0..PolishCap
    BY <1>3, <1>4, EditorAssumption DEF Allowed
  <2>3. polishedAt' \in [Block -> (0..MaxHours) \cup {Never}]
    BY <1>3, <2>1 DEF RowsInv, EditorTypeOK
  <2>4. EditorTypeOK'
    BY <1>1, <1>3, <2>1, <2>2, <2>3 DEF RowsInv, EditorTypeOK
  <2> QED BY <1>2, <2>1, <2>4 DEF RowsInv
<1>5. CASE ~Allowed(q.block)
  <2>1. UNCHANGED <<polishing, passes, polishedAt, asksMade>>
    BY <1>5 DEF Polish
  <2> QED BY <1>1, <1>2, <2>1 DEF RowsInv, EditorTypeOK
<1> QED BY <1>4, <1>5

-----------------------------------------------------------------------------
LEMMA EditorStep == RowsInv /\ [EditorNext]_editorVars => RowsInv'
<1> SUFFICES ASSUME RowsInv, [EditorNext]_editorVars PROVE RowsInv'
  OBVIOUS
<1>1. ASSUME NEW b \in Block, NEW t \in Text \cup {Absent}, EditBlock(b, t) PROVE RowsInv'
  BY <1>1 DEF EditBlock, RowsInv, EditorTypeOK, Scene, OneRowPerFinding, Active, polish
<1>2. CASE AutosaveScans
  <2>1. saves + 1 \in 0..MaxSaves /\ scene \in Scene
    BY <1>2, EditorAssumption DEF AutosaveScans, Autosave, RowsInv, EditorTypeOK
  <2>2. \A b \in Blocks(scene) : [block |-> b, text |-> scene[b]] \in Paragraph
    BY <2>1 DEF Blocks, Scene, Paragraph
  <2>3. request' \subseteq Paragraph
    BY <1>2, <2>2 DEF AutosaveScans, RowsInv, EditorTypeOK
  <2> QED BY <1>2, <2>1, <2>3
          DEF AutosaveScans, Autosave, RowsInv, EditorTypeOK, OneRowPerFinding, Active
<1>3. CASE AutosaveIsCancelled
  <2>1. saves + 1 \in 0..MaxSaves
    BY <1>3, EditorAssumption DEF AutosaveIsCancelled, Autosave, RowsInv, EditorTypeOK
  <2> QED BY <1>3, <2>1
          DEF AutosaveIsCancelled, Autosave, RowsInv, EditorTypeOK, OneRowPerFinding, Active
<1>4. ASSUME NEW s \in scan, ScanFails(s) PROVE RowsInv'
  BY <1>4 DEF ScanFails, RowsInv, EditorTypeOK, OneRowPerFinding, Active, polish
<1>5. ASSUME NEW q \in request, PolishUnavailable(q) PROVE RowsInv'
  BY <1>5 DEF PolishUnavailable, RowsInv, EditorTypeOK, OneRowPerFinding, Active, writing
<1>6. ASSUME NEW q \in polishing, StaysSilent(q) PROVE RowsInv'
  BY <1>6 DEF StaysSilent, RowsInv, EditorTypeOK, OneRowPerFinding, Active, writing
<1>7. CASE HourPasses
  <2>1. hour + 1 \in 0..MaxHours
    BY <1>7, EditorAssumption DEF HourPasses, RowsInv, EditorTypeOK
  <2> QED BY <1>7, <2>1
          DEF HourPasses, RowsInv, EditorTypeOK, OneRowPerFinding, Active, writing, polish
<1>8. CASE UNCHANGED editorVars
  BY <1>8 DEF editorVars, RowsInv, EditorTypeOK, OneRowPerFinding, Active
<1> QED BY <1>1, <1>2, <1>3, <1>4, <1>5, <1>6, <1>7, <1>8, ScanRuns, Dismissing, Remarking,
           Polishing DEF EditorNext

LEMMA RowsInvHolds == EditorSpec => []RowsInv
  BY EditorStarts, EditorStep, PTL DEF EditorSpec

(* What the scans found is shown, once per block, in whatever order scans, *)
(* polishes and dismissals run, and also where the cleanup after a scan    *)
(* fails (run_and_upsert, cleanup_orphaned_blocks).                        *)
THEOREM FindingsAreShownOnce == EditorSpec => RowsAreKept
<1>1. RowsInv => EditorTypeOK /\ OneRowPerFinding
  BY DEF RowsInv
<1>2. RowsInv /\ [EditorNext]_editorVars =>
         [\A s \in scan :
            /\ RunScan(s) \/ RunScanUncleaned(s) => ScanLeaves(s)
            /\ RunScan(s) => \A r \in rowed' : r.block \in Blocks(s)]_editorVars
  BY ScanRuns
<1> QED BY <1>1, <1>2, RowsInvHolds, PTL
        DEF EditorSpec, RowsAreKept, ScansLeaveTheirFindings, ScanLeaves

(* The model is asked for at most PolishCap polishes of a scene, and for   *)
(* no block twice within its rest.                                         *)
THEOREM PolishIsAlwaysRationed == EditorSpec => PolishIsRationed
<1>1. RowsInv => PolishIsCapped
  BY EditorAssumption DEF RowsInv, EditorTypeOK, PolishIsCapped
<1> DEFINE Rest == \A q \in request :
              asksMade' > asksMade /\ q \notin request' /\ polishedAt[q.block] # Never
                 => polishedAt'[q.block] - polishedAt[q.block] >= PolishRest
<1>2. RowsInv /\ [EditorNext]_editorVars => [Rest]_editorVars
  <2> SUFFICES ASSUME RowsInv, EditorNext, NEW q \in request,
                      asksMade' > asksMade, q \notin request', polishedAt[q.block] # Never
               PROVE  polishedAt'[q.block] - polishedAt[q.block] >= PolishRest
    OBVIOUS
  <2>1. asksMade \in Nat /\ ~(asksMade > asksMade)
    BY DEF RowsInv, EditorTypeOK
  <2>2. PICK p \in request : Polish(p)
    BY <2>1 DEF EditorNext, EditBlock, AutosaveScans, AutosaveIsCancelled, Autosave, RunScan,
       RunScanUncleaned, ScanCommits, ScanFails, Dismiss, PolishUnavailable, StaysSilent, Remarks, HourPasses, polish
  <2>3. p = q
    BY <2>2 DEF Polish
  <2>4. Allowed(q.block) /\ polishedAt' = [polishedAt EXCEPT ![q.block] = hour]
    BY <2>1, <2>2, <2>3 DEF Polish, TakeSlot
  <2>5. q.block \in Block /\ polishedAt \in [Block -> (0..MaxHours) \cup {Never}]
    BY DEF RowsInv, EditorTypeOK, Paragraph
  <2> QED BY <2>4, <2>5 DEF Allowed, Rested
<1> QED BY <1>1, <1>2, RowsInvHolds, PTL DEF EditorSpec, PolishIsRationed, PolishesRest

-----------------------------------------------------------------------------
(* The supervisor of the sidecar.                                          *)
SessionTyped ==
    /\ project \in {"closed", "booting", "open", "closing"}
    /\ process \in {"none", "starting", "silent", "answering", "dead"}
    /\ bootLeft \in 0..BootTime
    /\ holders \subseteq Holder
    /\ stopAsked \in BOOLEAN

LoopTyped ==
    /\ watch \in {"none", "waiting", "polling", "pausing", "ended"}
    /\ fails \in 0..Len(Backoffs)
    /\ dueIn \in 0..PollEvery
    /\ pauseLeft \in Nat
    /\ told \in BOOLEAN
    /\ sinceLast \in 0..PollEvery

ChannelTyped ==
    /\ unseen \in BOOLEAN
    /\ status \in Status /\ shown \in Status
    /\ forwarder \in {"waiting", "seen"}

(* The loop ends, or is about to, for a stop only. *)
StopsWhenTold == watch = "ended" \/ told => stopAsked

(* A poll is PollEvery away from the one before it, and the first of the   *)
(* session comes after the boot.                                           *)
PollsApart ==
    /\ project \in {"closed", "booting"} => watch = "none"
    /\ watch = "none" => sinceLast = PollEvery
    /\ sinceLast + dueIn >= PollEvery

WatchInv ==
    SessionTyped /\ LoopTyped /\ ChannelTyped /\ ShownIsCurrent /\ StopsWhenTold /\ PollsApart

-----------------------------------------------------------------------------
LEMMA Bounds == PollEvery \in Nat \ {0} /\ BootTime \in Nat /\ Len(Backoffs) \in Nat
BY SidecarAssumption

LEMMA WatchStarts == SideInit => WatchInv
<1> SUFFICES ASSUME SideInit PROVE WatchInv
  OBVIOUS
<1>1. SessionTyped
  <2>1. stopAsked \in BOOLEAN
    BY Zenon DEF SideInit
  <2>2. bootLeft \in 0..BootTime
    BY Bounds DEF SideInit
  <2> QED BY <2>1, <2>2 DEF SideInit, SessionTyped
<1>2. LoopTyped
  <2>1. told \in BOOLEAN
    BY Zenon DEF SideInit
  <2>2. fails \in 0..Len(Backoffs) /\ dueIn \in 0..PollEvery /\ sinceLast \in 0..PollEvery
    BY Bounds DEF SideInit
  <2> QED BY <2>1, <2>2 DEF SideInit, LoopTyped
<1>3. ChannelTyped /\ ShownIsCurrent
  BY DEF SideInit, ChannelTyped, ShownIsCurrent, Status
<1>4. StopsWhenTold /\ PollsApart
  BY Bounds DEF SideInit, StopsWhenTold, PollsApart
<1> QED BY <1>1, <1>2, <1>3, <1>4 DEF WatchInv

(* A pause is one of the list: the next one, or the last again.            *)
LEMMA PausesAreListed ==
    ASSUME LoopTyped, Pause
    PROVE  fails' \in 0..Len(Backoffs) /\ pauseLeft' \in Nat /\ watch' = "pausing"
<1>1. Len(Backoffs) \in Nat /\ Len(Backoffs) >= 1
  BY SidecarAssumption
<1>2. fails \in 0..Len(Backoffs)
  BY DEF LoopTyped
<1>3. fails' \in 1..Len(Backoffs)
  BY <1>1, <1>2 DEF Pause
<1>4. Backoffs[fails'] \in Nat
  BY <1>3, SidecarAssumption
<1> QED BY <1>1, <1>3, <1>4 DEF Pause

LEMMA LessIsLess == \A n \in Nat : Less(n) \in Nat /\ Less(n) <= n /\ Less(n) + 1 >= n
BY DEF Less

LEMMA TickKeepsApart ==
    ASSUME NEW m \in Nat, NEW s \in 0..m, NEW d \in 0..m, NEW s1 \in 0..m, NEW d1 \in 0..m,
           s + d >= m, d1 + 1 >= d, s1 = m \/ s1 = s + 1
    PROVE  s1 + d1 >= m
OBVIOUS

(* Who holds the process, and how much of the boot is left.                *)
LEMMA SessionStays == WatchInv /\ SideNext => SessionTyped'
<1> SUFFICES ASSUME WatchInv, SideNext PROVE SessionTyped'
  OBVIOUS
<1> USE DEF WatchInv, SessionTyped
<1>1. CASE NoSidecar
  BY <1>1 DEF NoSidecar, session, supervisor, channel
<1>2. CASE BootSidecar
  BY <1>2, Bounds DEF BootSidecar, Holder
<1>3. CASE BootSucceeds
  BY <1>3 DEF BootSucceeds, Holder
<1>4. CASE BootFails
  BY <1>4 DEF BootFails, Holding, session, supervisor, channel
<1>5. CASE ProcessAnswers
  BY <1>5 DEF ProcessAnswers, session, supervisor, channel
<1>6. CASE ProcessHangs
  BY <1>6 DEF ProcessHangs, session, supervisor, channel
<1>7. CASE ProcessDies
  BY <1>7 DEF ProcessDies, session, supervisor, channel
<1>8. CASE PollBegins
  BY <1>8 DEF PollBegins, NextDue, session, supervisor, channel
<1>9. CASE PollSucceeds
  BY <1>9 DEF PollSucceeds, Send, session, supervisor, channel
<1>10. CASE PollFails
  BY <1>10 DEF PollFails, Send, session, supervisor, channel
<1>11. CASE PauseEnds
  BY <1>11 DEF PauseEnds, session, supervisor, channel
<1>12. CASE SupervisorEnds
  BY <1>12 DEF SupervisorEnds, Holding, session, supervisor, channel
<1>13. CASE ForwarderSees
  BY <1>13 DEF ForwarderSees, session, supervisor, channel
<1>14. CASE ForwarderEmits
  BY <1>14 DEF ForwarderEmits, session, supervisor, channel
<1>15. CASE AnalysisBegins
  BY <1>15 DEF AnalysisBegins, Holder, session
<1>16. CASE AnalysisEnds
  BY <1>16 DEF AnalysisEnds, Holding, session, supervisor, channel
<1>17. CASE CloseSession
  BY <1>17 DEF CloseSession, Holding, session, supervisor, channel
<1>18. CASE ServiceEnds
  BY <1>18 DEF ServiceEnds, Holding, session, supervisor, channel
<1>19. CASE SideTick
  <2>1. bootLeft' \in 0..BootTime
    BY <1>19, Bounds, LessIsLess DEF SideTick
  <2> QED BY <1>19, <2>1 DEF SideTick
<1> QED BY <1>1, <1>2, <1>3, <1>4, <1>5, <1>6, <1>7, <1>8, <1>9, <1>10, <1>11, <1>12, <1>13, <1>14, <1>15, <1>16, <1>17, <1>18, <1>19
       DEF SideNext

(* The loop: its place, its countdowns and its failures in a row.          *)
LEMMA LoopStays == WatchInv /\ SideNext => LoopTyped'
<1> SUFFICES ASSUME WatchInv, SideNext PROVE LoopTyped'
  OBVIOUS
<1> USE DEF WatchInv, LoopTyped
<1>1. CASE NoSidecar
  BY <1>1 DEF NoSidecar, session, supervisor, channel
<1>2. CASE BootSidecar
  BY <1>2 DEF BootSidecar, session, supervisor, channel
<1>3. CASE BootSucceeds
  BY <1>3, Bounds DEF BootSucceeds
<1>4. CASE BootFails
  BY <1>4 DEF BootFails, Holding, session, supervisor, channel
<1>5. CASE ProcessAnswers
  BY <1>5 DEF ProcessAnswers, session, supervisor, channel
<1>6. CASE ProcessHangs
  BY <1>6 DEF ProcessHangs, session, supervisor, channel
<1>7. CASE ProcessDies
  BY <1>7 DEF ProcessDies, session, supervisor, channel
<1>8. CASE PollBegins
  <2>1. told' \in BOOLEAN
    BY <1>8, Zenon DEF PollBegins
  <2>2. dueIn' \in 0..PollEvery /\ sinceLast' \in 0..PollEvery
    BY <1>8, Bounds DEF PollBegins, NextDue
  <2> QED BY <1>8, <2>1, <2>2 DEF PollBegins
<1>9. CASE PollSucceeds
  BY <1>9, Bounds DEF PollSucceeds
<1>10. CASE PollFails
  <2>1. fails' \in 0..Len(Backoffs) /\ pauseLeft' \in Nat /\ watch' = "pausing"
    BY <1>10, PausesAreListed DEF PollFails
  <2> QED BY <1>10, <2>1 DEF PollFails
<1>11. CASE PauseEnds
  BY <1>11 DEF PauseEnds, session, supervisor, channel
<1>12. CASE SupervisorEnds
  BY <1>12 DEF SupervisorEnds, Holding, session, supervisor, channel
<1>13. CASE ForwarderSees
  BY <1>13 DEF ForwarderSees, session, supervisor, channel
<1>14. CASE ForwarderEmits
  BY <1>14 DEF ForwarderEmits, session, supervisor, channel
<1>15. CASE AnalysisBegins
  BY <1>15 DEF AnalysisBegins, session, supervisor, channel
<1>16. CASE AnalysisEnds
  BY <1>16 DEF AnalysisEnds, Holding, session, supervisor, channel
<1>17. CASE CloseSession
  BY <1>17 DEF CloseSession, Holding, session, supervisor, channel
<1>18. CASE ServiceEnds
  BY <1>18 DEF ServiceEnds, Holding, session, supervisor, channel
<1>19. CASE SideTick
  <2>1. dueIn' \in 0..PollEvery /\ pauseLeft' \in Nat
    BY <1>19, Bounds, LessIsLess DEF SideTick
  <2>2. sinceLast' \in 0..PollEvery
    BY <1>19, Bounds DEF SideTick
  <2> QED BY <1>19, <2>1, <2>2 DEF SideTick
<1> QED BY <1>1, <1>2, <1>3, <1>4, <1>5, <1>6, <1>7, <1>8, <1>9, <1>10, <1>11, <1>12, <1>13, <1>14, <1>15, <1>16, <1>17, <1>18, <1>19
       DEF SideNext

(* The channel: a change is marked until the forwarder has read it.        *)
LEMMA ChannelStays == WatchInv /\ SideNext => (ChannelTyped /\ ShownIsCurrent)'
<1> SUFFICES ASSUME WatchInv, SideNext PROVE (ChannelTyped /\ ShownIsCurrent)'
  OBVIOUS
<1> USE DEF WatchInv, ChannelTyped, ShownIsCurrent, Status
<1>1. CASE NoSidecar
  BY <1>1 DEF NoSidecar, session, supervisor, channel
<1>2. CASE BootSidecar
  BY <1>2 DEF BootSidecar, session, supervisor, channel
<1>3. CASE BootSucceeds
  BY <1>3 DEF BootSucceeds, session, supervisor, channel
<1>4. CASE BootFails
  BY <1>4 DEF BootFails, Holding, session, supervisor, channel
<1>5. CASE ProcessAnswers
  BY <1>5 DEF ProcessAnswers, session, supervisor, channel
<1>6. CASE ProcessHangs
  BY <1>6 DEF ProcessHangs, session, supervisor, channel
<1>7. CASE ProcessDies
  BY <1>7 DEF ProcessDies, session, supervisor, channel
<1>8. CASE PollBegins
  BY <1>8 DEF PollBegins, NextDue, session, supervisor, channel
<1>9. CASE PollSucceeds
  BY <1>9 DEF PollSucceeds, Send, session, supervisor, channel
<1>10. CASE PollFails
  BY <1>10 DEF PollFails, Send, session, supervisor, channel
<1>11. CASE PauseEnds
  BY <1>11 DEF PauseEnds, session, supervisor, channel
<1>12. CASE SupervisorEnds
  BY <1>12 DEF SupervisorEnds, Holding, session, supervisor, channel
<1>13. CASE ForwarderSees
  BY <1>13 DEF ForwarderSees, session, supervisor, channel
<1>14. CASE ForwarderEmits
  BY <1>14 DEF ForwarderEmits, session, supervisor, channel
<1>15. CASE AnalysisBegins
  BY <1>15 DEF AnalysisBegins, session, supervisor, channel
<1>16. CASE AnalysisEnds
  BY <1>16 DEF AnalysisEnds, Holding, session, supervisor, channel
<1>17. CASE CloseSession
  BY <1>17 DEF CloseSession, Holding, session, supervisor, channel
<1>18. CASE ServiceEnds
  BY <1>18 DEF ServiceEnds, Holding, session, supervisor, channel
<1>19. CASE SideTick
  BY <1>19 DEF SideTick, session, supervisor, channel
<1> QED BY <1>1, <1>2, <1>3, <1>4, <1>5, <1>6, <1>7, <1>8, <1>9, <1>10, <1>11, <1>12, <1>13, <1>14, <1>15, <1>16, <1>17, <1>18, <1>19
       DEF SideNext

(* A wait is told of a stop by the stop only.                              *)
LEMMA StopStays == WatchInv /\ SideNext => StopsWhenTold'
<1> SUFFICES ASSUME WatchInv, SideNext PROVE StopsWhenTold'
  OBVIOUS
<1> USE DEF WatchInv, StopsWhenTold, SessionTyped, LoopTyped, PollsApart
<1>1. CASE NoSidecar
  BY <1>1 DEF NoSidecar, session, supervisor, channel
<1>2. CASE BootSidecar
  BY <1>2 DEF BootSidecar, session, supervisor, channel
<1>3. CASE BootSucceeds
  BY <1>3 DEF BootSucceeds, session, supervisor, channel
<1>4. CASE BootFails
  BY <1>4 DEF BootFails, Holding, session, supervisor, channel
<1>5. CASE ProcessAnswers
  BY <1>5 DEF ProcessAnswers, session, supervisor, channel
<1>6. CASE ProcessHangs
  BY <1>6 DEF ProcessHangs, session, supervisor, channel
<1>7. CASE ProcessDies
  BY <1>7 DEF ProcessDies, session, supervisor, channel
<1>8. CASE PollBegins
  BY <1>8 DEF PollBegins, NextDue, session, supervisor, channel
<1>9. CASE PollSucceeds
  BY <1>9 DEF PollSucceeds, Send, session, supervisor, channel
<1>10. CASE PollFails
  BY <1>10 DEF PollFails, Pause, session
<1>11. CASE PauseEnds
  BY <1>11 DEF PauseEnds, session, supervisor, channel
<1>12. CASE SupervisorEnds
  BY <1>12 DEF SupervisorEnds, Holding, session, supervisor, channel
<1>13. CASE ForwarderSees
  BY <1>13 DEF ForwarderSees, session, supervisor, channel
<1>14. CASE ForwarderEmits
  BY <1>14 DEF ForwarderEmits, session, supervisor, channel
<1>15. CASE AnalysisBegins
  BY <1>15 DEF AnalysisBegins, session, supervisor, channel
<1>16. CASE AnalysisEnds
  BY <1>16 DEF AnalysisEnds, Holding, session, supervisor, channel
<1>17. CASE CloseSession
  BY <1>17 DEF CloseSession, Holding, session, supervisor, channel
<1>18. CASE ServiceEnds
  BY <1>18 DEF ServiceEnds, Holding, session, supervisor, channel
<1>19. CASE SideTick
  BY <1>19 DEF SideTick, session, supervisor, channel
<1> QED BY <1>1, <1>2, <1>3, <1>4, <1>5, <1>6, <1>7, <1>8, <1>9, <1>10, <1>11, <1>12, <1>13, <1>14, <1>15, <1>16, <1>17, <1>18, <1>19
       DEF SideNext

(* The interval is set again when a poll begins, and by nothing else.      *)
LEMMA ApartStays == WatchInv /\ SideNext => PollsApart'
<1> SUFFICES ASSUME WatchInv, SideNext PROVE PollsApart'
  OBVIOUS
<1> USE DEF WatchInv, PollsApart, LoopTyped, SessionTyped
<1>1. CASE NoSidecar
  BY <1>1 DEF NoSidecar, session, supervisor, channel
<1>2. CASE BootSidecar
  BY <1>2 DEF BootSidecar, session, supervisor, channel
<1>3. CASE BootSucceeds
  BY <1>3, Bounds DEF BootSucceeds
<1>4. CASE BootFails
  BY <1>4 DEF BootFails, Holding, session, supervisor, channel
<1>5. CASE ProcessAnswers
  BY <1>5 DEF ProcessAnswers, session, supervisor, channel
<1>6. CASE ProcessHangs
  BY <1>6 DEF ProcessHangs, session, supervisor, channel
<1>7. CASE ProcessDies
  BY <1>7 DEF ProcessDies, session, supervisor, channel
<1>8. CASE PollBegins
  BY <1>8, Bounds DEF PollBegins, NextDue, session
<1>9. CASE PollSucceeds
  BY <1>9 DEF PollSucceeds, Send, session, supervisor, channel
<1>10. CASE PollFails
  BY <1>10 DEF PollFails, Pause, session
<1>11. CASE PauseEnds
  BY <1>11 DEF PauseEnds, session, supervisor, channel
<1>12. CASE SupervisorEnds
  BY <1>12 DEF SupervisorEnds, Holding, session, supervisor, channel
<1>13. CASE ForwarderSees
  BY <1>13 DEF ForwarderSees, session, supervisor, channel
<1>14. CASE ForwarderEmits
  BY <1>14 DEF ForwarderEmits, session, supervisor, channel
<1>15. CASE AnalysisBegins
  BY <1>15 DEF AnalysisBegins, session, supervisor, channel
<1>16. CASE AnalysisEnds
  BY <1>16 DEF AnalysisEnds, Holding, session, supervisor, channel
<1>17. CASE CloseSession
  BY <1>17 DEF CloseSession, Holding, session, supervisor, channel
<1>18. CASE ServiceEnds
  BY <1>18 DEF ServiceEnds, Holding, session, supervisor, channel
<1>19. CASE SideTick
  <2>1. dueIn' \in 0..PollEvery /\ dueIn' + 1 >= dueIn
    BY <1>19, Bounds, LessIsLess DEF SideTick
  <2>2. /\ sinceLast' \in 0..PollEvery /\ (watch = "none" => sinceLast' = PollEvery)
        /\ sinceLast' = PollEvery \/ sinceLast' = sinceLast + 1
    BY <1>19, Bounds DEF SideTick
  <2>3. sinceLast' + dueIn' >= PollEvery
    BY Bounds, <2>1, <2>2, TickKeepsApart
  <2> QED BY <1>19, <2>2, <2>3 DEF SideTick
<1> QED BY <1>1, <1>2, <1>3, <1>4, <1>5, <1>6, <1>7, <1>8, <1>9, <1>10, <1>11, <1>12, <1>13, <1>14, <1>15, <1>16, <1>17, <1>18, <1>19
       DEF SideNext

LEMMA WatchStep == WatchInv /\ [SideNext]_sideVars => WatchInv'
<1>1. CASE SideNext
  BY <1>1, SessionStays, LoopStays, ChannelStays, StopStays, ApartStays DEF WatchInv
<1>2. CASE UNCHANGED sideVars
  BY <1>2 DEF sideVars, WatchInv, SessionTyped, LoopTyped, ChannelTyped, ShownIsCurrent,
     StopsWhenTold, PollsApart
<1> QED BY <1>1, <1>2

LEMMA WatchInvHolds == SideSpec => []WatchInv
BY WatchStarts, WatchStep, PTL DEF SideSpec

(* The supervisor ends for a stop only, never polls in a burst, and what   *)
(* the window was last shown is the last status.                           *)
THEOREM WatchIsKept == SideSpec => SupervisorKeepsWatch
<1>1. WatchInv => SideTypeOK /\ NeverGivesUp /\ ShownIsCurrent
  BY DEF WatchInv, SessionTyped, LoopTyped, ChannelTyped, SideTypeOK, NeverGivesUp, StopsWhenTold
<1>2. WatchInv /\ [SideNext]_sideVars =>
          [watch # "polling" /\ watch' = "polling" => sinceLast = PollEvery]_sideVars
  <2> SUFFICES ASSUME WatchInv, SideNext, watch # "polling", watch' = "polling"
               PROVE  sinceLast = PollEvery
    OBVIOUS
  <2>1. PollBegins
    BY DEF SideNext, NoSidecar, BootSidecar, BootSucceeds, BootFails, ProcessAnswers,
       ProcessHangs, ProcessDies, PollSucceeds, PollFails, Pause, PauseEnds, SupervisorEnds,
       ForwarderSees, ForwarderEmits, AnalysisBegins, AnalysisEnds, CloseSession, ServiceEnds,
       SideTick, session, supervisor
  <2> QED BY <2>1, Bounds DEF PollBegins, WatchInv, LoopTyped, PollsApart
<1> QED BY <1>1, <1>2, WatchInvHolds, PTL DEF SideSpec, SupervisorKeepsWatch, PollsAreSpaced

-----------------------------------------------------------------------------
(* How a project opens.  Nothing of a folder is there without the folder,  *)
(* and water.toml is the last thing but one that its creation writes: with *)
(* it and a database from the creation, the rows of the database are       *)
(* there.                                                                  *)
TomlComesLast ==
    /\ folder # {} => "folders" \in folder
    /\ creating \in 2..7 => "toml" \notin folder
    /\ {"toml", "database"} \subseteq folder /\ madeBy = "creation" =>
          {"project", "manuscript", "default"} \subseteq folder

CreationProceeds ==
    \A i \in 1..Len(CreationOrder) : creating > i => CreationOrder[i] \in folder

OpeningProceeds ==
    /\ opening > 0 => "toml" \in folder
    /\ opening > 1 => "database" \in folder
    /\ opening = Installing => {"project", "segments"} \subseteq folder
    /\ atHand => {"toml", "database", "project", "segments"} \subseteq folder

ProjectsInv ==
    ProjectsTypeOK /\ TomlComesLast /\ CreationProceeds /\ OpeningProceeds

(* An opening seeds once the rebuild is through, and installs then.        *)
LEMMA OpeningSteps == Seeding = 5 /\ Installing = 6 /\ 0 # Installing
BY DEF Installing, Seeding, RebuildOrder

LEMMA ProjectsStep == ProjectsInv /\ [ProjectsNext]_projectVars => ProjectsInv'
<1> SUFFICES ASSUME ProjectsInv, [ProjectsNext]_projectVars PROVE ProjectsInv'
  OBVIOUS
<1> USE DEF ProjectsInv, ProjectsTypeOK, TomlComesLast, CreationProceeds, OpeningProceeds,
            Installing, Seeding
<1>0. /\ Len(CreationOrder) = 8 /\ Len(RebuildOrder) = 4
      /\ CreationOrder[1] = "folders" /\ CreationOrder[2] = "database"
      /\ CreationOrder[3] = "project" /\ CreationOrder[4] = "manuscript"
      /\ CreationOrder[5] = "default" /\ CreationOrder[6] = "segments"
      /\ CreationOrder[7] = "toml" /\ CreationOrder[8] = "chapters"
      /\ RebuildOrder[1] = {"database"} /\ RebuildOrder[2] = {"project", "default"}
      /\ RebuildOrder[3] = {"segments"} /\ RebuildOrder[4] = {"manuscript"}
      /\ DOMAIN RebuildOrder = 1..4
      /\ \A i \in 1..8 : CreationOrder[i] \in Pieces
      /\ \A i \in 1..4 : RebuildOrder[i] \subseteq Pieces
  BY DEF CreationOrder, RebuildOrder, Pieces, Rows
<1>1. CASE CreateProject
  <2>1. folder = {} /\ opening = 0 /\ ~atHand
    BY <1>1 DEF CreateProject
  <2> QED BY <1>0, <1>1, <2>1 DEF CreateProject
<1>2. CASE CreateStep
  <2>1. creating \in 2..8 /\ CreationOrder[creating] \in Pieces
        /\ folder' = folder \cup {CreationOrder[creating]}
        /\ creating' = creating + 1 /\ UNCHANGED <<opening, atHand>>
        /\ madeBy' = IF creating = 2 THEN "creation" ELSE madeBy
    BY <1>0, <1>2 DEF CreateStep
  <2>2. ProjectsTypeOK'
    BY <1>0, <2>1
  <2>3. CreationProceeds'
    BY <1>0, <2>1
  <2>4. OpeningProceeds'
    BY <2>1
  <2>5. TomlComesLast'
    <3>1. creating # 7 => CreationOrder[creating] # "toml"
      BY <1>0, <2>1
    <3>2. creating = 7 => {"project", "manuscript", "default"} \subseteq folder
      BY <1>0
    <3> QED BY <1>0, <2>1, <3>1, <3>2
  <2> QED BY <2>2, <2>3, <2>4, <2>5
<1>3. CASE CreateFails \/ OpenFails \/ CloseTheProject \/ ProjectCrash
  <2>1. /\ UNCHANGED <<folder, madeBy>>
        /\ creating' \in {0, creating} /\ opening' \in {0, opening}
        /\ atHand' \in {FALSE, atHand}
    BY <1>3 DEF CreateFails, OpenFails, CloseTheProject, ProjectCrash
  <2>2. Len(CreationOrder) = 8 /\ Len(RebuildOrder) = 4
    BY <1>0
  <2> HIDE <1>0
  <2>3. ProjectsTypeOK'
    <3>1. creating' \in 0..Len(CreationOrder) + 1
      BY <2>1, <2>2
    <3>2. opening' \in 0..Installing
      BY <2>1, <2>2
    <3>3. folder' \subseteq Pieces /\ atHand' \in BOOLEAN
      BY <2>1
    <3>4. madeBy' \in {"nobody", "creation", "rebuild"}
      BY <2>1
    <3> HIDE DEF Installing, Seeding
    <3> QED BY <3>1, <3>2, <3>3, <3>4
  <2>5. TomlComesLast'
    <3>1. creating' \in 2..7 => creating' = creating
      BY <2>1
    <3>2. folder' = folder /\ madeBy' = madeBy
      BY <2>1
    <3> QED BY <3>1, <3>2
  <2>6. OpeningProceeds'
    <3>1. opening' = 0 \/ opening' = opening
      BY <2>1
    <3>2. 0 # Installing
      BY OpeningSteps
    <3>4. ~(0 > 0) /\ ~(0 > 1)
      OBVIOUS
    <3>3. folder' = folder
      BY <2>1
    <3>5. atHand' => {"toml", "database", "project", "segments"} \subseteq folder'
      <4>1. CASE atHand' = FALSE
        BY <4>1
      <4>2. CASE atHand' = atHand
        BY <4>2, <3>3
      <4> QED BY <2>1, <4>1, <4>2
    <3> HIDE DEF Installing
    <3>6. opening' > 0 => "toml" \in folder'
      BY <3>1, <3>3, <3>4
    <3>7. opening' > 1 => "database" \in folder'
      BY <3>1, <3>3, <3>4
    <3>8. opening' = Installing => {"project", "segments"} \subseteq folder'
      BY <3>1, <3>2, <3>3
    <3> QED BY <3>5, <3>6, <3>7, <3>8
  <2>4. CreationProceeds'
    <3>1. \A i \in 1..8 : ~(0 > i)
      OBVIOUS
    <3> QED BY <2>1, <2>2, <3>1
  <2> QED BY <2>3, <2>4, <2>5, <2>6
<1>4. CASE CreateEnds
  <2>1. \A i \in 1..8 : CreationOrder[i] \in folder
    BY <1>0, <1>4 DEF CreateEnds
  <2> QED BY <1>0, <1>4, <2>1 DEF CreateEnds
<1>5. CASE OpenProject
  BY <1>0, <1>5 DEF OpenProject
<1>6. CASE RebuildStep
  <2>1. /\ opening \in 1..4 /\ folder' = folder \cup RebuildOrder[opening]
        /\ RebuildOrder[opening] \subseteq Pieces /\ "toml" \notin RebuildOrder[opening]
        /\ opening > 1 => "database" \notin RebuildOrder[opening]
        /\ "folders" \in folder /\ "toml" \in folder
        /\ opening' = opening + 1 /\ UNCHANGED <<creating, atHand>>
        /\ madeBy' = IF opening = 1 THEN "rebuild" ELSE madeBy
    BY <1>0, <1>6 DEF RebuildStep
  <2>2. ProjectsTypeOK' /\ CreationProceeds'
    BY <1>0, <2>1
  <2>3. TomlComesLast'
    BY <2>1
  <2>4. OpeningProceeds'
    BY <1>0, <2>1
  <2> QED BY <2>2, <2>3, <2>4
<1>7. CASE SeedBuiltins
  BY <1>0, <1>7 DEF SeedBuiltins, Pieces, Rows
<1>8. CASE OpenEnds
  BY <1>0, <1>8 DEF OpenEnds
<1>9. CASE LoseDatabase \/ RemoveFolder
  BY <1>0, <1>9 DEF LoseDatabase, RemoveFolder, Unused, Rows
<1>10. CASE UNCHANGED projectVars
  BY <1>10 DEF projectVars
<1> QED BY <1>1, <1>2, <1>3, <1>4, <1>5, <1>6, <1>7, <1>8, <1>9, <1>10 DEF ProjectsNext

(* A project that opens has its row and its segments, and its manuscript   *)
(* unless a rebuild was cut short, however often it was created, opened,   *)
(* emptied and given up in between.                                        *)
THEOREM OpenProjectsAreWhole == ProjectsSpec => []WhatOpensIsWhole
<1>1. ProjectsInit => ProjectsInv
  <2>1. Len(CreationOrder) = 8 /\ Len(RebuildOrder) = 4
    BY DEF CreationOrder, RebuildOrder
  <2>2. \A i \in 1..8 : ~(0 > i)
    OBVIOUS
  <2> SUFFICES ASSUME ProjectsInit PROVE ProjectsInv
    OBVIOUS
  <2>3. folder = {} /\ creating = 0 /\ opening = 0 /\ atHand = FALSE /\ madeBy = "nobody"
    BY DEF ProjectsInit
  <2>4. ProjectsTypeOK
    <3>1. creating \in 0..Len(CreationOrder) + 1
      BY <2>1, <2>3
    <3>2. opening \in 0..Installing
      BY <2>1, <2>3 DEF Installing, Seeding
    <3>3. folder \subseteq Pieces /\ atHand \in BOOLEAN
      BY <2>3
    <3>4. madeBy \in {"nobody", "creation", "rebuild"}
      BY <2>3
    <3> QED BY <3>1, <3>2, <3>3, <3>4 DEF ProjectsTypeOK
  <2>5. CreationProceeds
    BY <2>1, <2>2, <2>3 DEF CreationProceeds
  <2>6. TomlComesLast /\ OpeningProceeds
    BY <2>1, <2>3 DEF TomlComesLast, OpeningProceeds, Installing, Seeding
  <2> QED BY <2>4, <2>5, <2>6 DEF ProjectsInv
<1>2. ProjectsInv => WhatOpensIsWhole
  BY DEF ProjectsInv, TomlComesLast, OpeningProceeds, WhatOpensIsWhole
<1> QED BY <1>1, <1>2, ProjectsStep, PTL DEF ProjectsSpec

-----------------------------------------------------------------------------
(* The diagnostics.  A block that is written on keeps its words in their   *)
(* places.                                                                 *)
Words == [word : Vocabulary, ends : BOOLEAN]

LEMMA TextsGrow ==
    ASSUME NEW t \in Seq(Words), NEW x \in Words
    PROVE  /\ Append(t, x) \in Seq(Words)
           /\ Places(t) \subseteq Places(Append(t, x))
           /\ \A i \in Places(t) : /\ Append(t, x)[i] = t[i]
                                   /\ \A j \in 1..(i - 1) : j \in Places(t)
<1>1. /\ Append(t, x) \in Seq(Words) /\ Len(Append(t, x)) = Len(t) + 1 /\ Len(t) \in Nat
      /\ \A i \in 1..Len(t) : Append(t, x)[i] = t[i]
  BY AppendProperties
<1>2. DOMAIN t = 1..Len(t) /\ DOMAIN Append(t, x) = 1..(Len(t) + 1)
  BY <1>1
<1>3. \A i \in 1..Len(t) : \A j \in 1..(i - 1) : j \in 1..Len(t)
  BY <1>1
<1>4. 1..Len(t) \subseteq 1..(Len(t) + 1)
  BY <1>1
<1> QED BY <1>1, <1>2, <1>3, <1>4 DEF Places

LEMMA WordsAreFinite ==
    ASSUME NEW t \in Seq(Words), NEW S
    PROVE  IsFiniteSet(Places(t)) /\ IsFiniteSet(WordsIn(t, S))
<1>1. Len(t) \in Nat /\ 1 \in Int /\ Len(t) \in Int /\ Places(t) = 1..Len(t)
  BY DEF Places
<1>2. IsFiniteSet(Places(t))
  BY <1>1, FS_Interval
<1>3. WordsIn(t, S) \subseteq Places(t)
  BY DEF WordsIn
<1> QED BY <1>2, <1>3, FS_Subset

LEMMA PairsGrow ==
    ASSUME NEW t \in Seq(Words), NEW x \in Words, NEW a, NEW b
    PROVE  Pairs(t, a, b) \subseteq Pairs(Append(t, x), a, b)
BY TextsGrow DEF Pairs

LEMMA MistakesGrow ==
    ASSUME NEW t \in Seq(Words), NEW x \in Words
    PROVE  CommonMistake(t) \subseteq CommonMistake(Append(t, x))
BY TextsGrow DEF CommonMistake

LEMMA RepetitionsGrow ==
    ASSUME NEW t \in Seq(Words), NEW x \in Words
    PROVE  Repetition(t) \subseteq Repetition(Append(t, x))
<1> DEFINE u == Append(t, x)
<1>1. /\ u \in Seq(Words) /\ Places(t) \subseteq Places(u)
      /\ \A i \in Places(t) : u[i] = t[i] /\ \A j \in 1..(i - 1) : j \in Places(t)
  BY TextsGrow
<1> HIDE DEF u
<1>2. ASSUME NEW w, Repeated(t, w) PROVE Repeated(u, w)
  <2>1. WordsIn(t, {w}) \subseteq WordsIn(u, {w})
    BY <1>1 DEF WordsIn
  <2>2. IsFiniteSet(WordsIn(u, {w})) /\ IsFiniteSet(WordsIn(t, {w}))
    BY <1>1, WordsAreFinite
  <2>3. Cardinality(WordsIn(t, {w})) <= Cardinality(WordsIn(u, {w}))
    BY <2>1, <2>2, FS_Subset
  <2>4. Cardinality(WordsIn(t, {w})) \in Nat /\ Cardinality(WordsIn(u, {w})) \in Nat
    BY <2>2, FS_CardinalityType
  <2>5. Cardinality(WordsIn(t, {w})) >= Often
    BY <1>2 DEF Repeated
  <2>6. Cardinality(WordsIn(u, {w})) >= Often
    BY <2>3, <2>4, <2>5, DiagnosticsAssumption
  <2> QED BY <2>6 DEF Repeated
<1>3. ASSUME NEW i \in Repetition(t) PROVE i \in Repetition(u)
  <2>1. /\ i \in Places(t) /\ t[i].word \notin Stopword /\ Repeated(t, t[i].word)
        /\ \A j \in 1..(i - 1) : t[j].word # t[i].word
    BY DEF Repetition
  <2>2. u[i] = t[i] /\ \A j \in 1..(i - 1) : u[j] = t[j]
    BY <1>1, <2>1
  <2>3. Repeated(u, u[i].word)
    BY <1>2, <2>1, <2>2
  <2> QED BY <1>1, <2>1, <2>2, <2>3 DEF Repetition
<1> QED BY <1>3 DEF u

LEMMA FindingsStay ==
    ASSUME NEW t \in Seq(Words), NEW x \in Words,
           NEW r \in Rule \ {"adverb_density", "sentence_length_variance"}
    PROVE  RunDiagnostics(t)[r] \subseteq RunDiagnostics(Append(t, x))[r]
<1>1. CASE r = "passive_voice"
  BY <1>1, PairsGrow DEF RunDiagnostics, PassiveVoice
<1>2. CASE r = "dialog_tag_overuse"
  BY <1>2, PairsGrow DEF RunDiagnostics, DialogTagOveruse
<1>3. CASE r = "weak_verb"
  BY <1>3, PairsGrow DEF RunDiagnostics, WeakVerb
<1>4. CASE r = "common_mistake"
  BY <1>4, MistakesGrow DEF RunDiagnostics
<1>5. CASE r = "repetition"
  BY <1>5, RepetitionsGrow DEF RunDiagnostics
<1> QED BY <1>1, <1>2, <1>3, <1>4, <1>5 DEF Rule

(* The windows that are reported are built one sentence after the other:   *)
(* there is such a function, so that it is what its definition says.       *)
Step(counts, f, i) == IF i = 0 THEN {} ELSE WithWindow(counts, i, f[i - 1])

LEMMA ReportedIsDefined ==
    ASSUME NEW counts, Len(counts) \in Nat
    PROVE  /\ ReportedUpTo(counts)[0] = {}
           /\ \A i \in 1..Len(counts) :
                 ReportedUpTo(counts)[i] = WithWindow(counts, i, ReportedUpTo(counts)[i - 1])
<1> DEFINE n == Len(counts)
           Good(k, f) == f = [i \in 0..k |-> Step(counts, f, i)]
           T == {k \in 0..n : ~\E f : Good(k, f)}
<1>1. ASSUME T # {} PROVE FALSE
  <2>1. T \in SUBSET Nat
    OBVIOUS
  <2> HIDE DEF T
  <2>2. PICK x \in T : \A y \in T : x <= y
    BY <1>1, <2>1, LeastOf
  <2>3. x \in 0..n /\ x \in Nat /\ ~\E f : Good(x, f)
    BY DEF T
  <2>4. CASE x = 0
    <3> DEFINE f == [i \in 0..0 |-> {}]
    <3>1. f = [i \in 0..0 |-> Step(counts, f, i)]
      BY DEF Step
    <3>2. Good(x, f)
      BY <2>4, <3>1
    <3> HIDE DEF f, Good
    <3> QED BY <2>3, <3>2
  <2>5. CASE x # 0
    <3>1. x - 1 \in 0..n /\ x - 1 \in Nat /\ ~(x <= x - 1)
      BY <2>3, <2>5
    <3>2. x - 1 \notin T
      BY <2>2, <3>1
    <3>3. PICK f : Good(x - 1, f)
      BY <3>1, <3>2 DEF T
    <3>4. \A i \in 0..(x - 1) : f[i] = Step(counts, f, i)
      BY <3>3
    <3> DEFINE g == [i \in 0..x |-> IF i = x THEN WithWindow(counts, x, f[x - 1]) ELSE f[i]]
    <3>5. \A i \in 0..(x - 1) : g[i] = f[i]
      BY <2>3
    <3>6. ASSUME NEW i \in 0..x PROVE g[i] = Step(counts, g, i)
      <4>1. CASE i = x
        <5>1. g[i] = WithWindow(counts, x, f[x - 1])
          BY <4>1
        <5>2. g[x - 1] = f[x - 1]
          BY <2>3, <2>5, <3>5
        <5> HIDE DEF g
        <5> QED BY <2>5, <4>1, <5>1, <5>2 DEF Step
      <4>2. CASE i = 0 /\ i # x
        <5>1. 0 \in 0..(x - 1)
          BY <2>3, <2>5
        <5>2. g[i] = f[0] /\ f[0] = Step(counts, f, 0)
          BY <3>4, <3>5, <4>2, <5>1
        <5> HIDE DEF g
        <5> QED BY <4>2, <5>2 DEF Step
      <4>3. CASE i # 0 /\ i # x
        <5>1. i \in 0..(x - 1) /\ i - 1 \in 0..(x - 1)
          BY <2>3, <4>3
        <5>2. g[i] = f[i] /\ g[i - 1] = f[i - 1] /\ f[i] = Step(counts, f, i)
          BY <3>4, <3>5, <5>1
        <5> HIDE DEF g
        <5> QED BY <4>3, <5>2 DEF Step
      <4> QED BY <4>1, <4>2, <4>3
    <3>7. g = [i \in 0..x |-> g[i]]
      OBVIOUS
    <3>8. Good(x, g)
      <4> HIDE DEF g
      <4> QED BY <3>6, <3>7
    <3> HIDE DEF g, Good
    <3> QED BY <2>3, <3>8
  <2> QED BY <2>4, <2>5
<1>2. n \in 0..n
  OBVIOUS
<1>3. \E f : Good(n, f)
  BY <1>1, <1>2
<1>4. ReportedUpTo(counts) = CHOOSE f : Good(n, f)
  BY DEF ReportedUpTo, Step
<1> HIDE DEF Good
<1>5. Good(n, ReportedUpTo(counts))
  BY <1>3, <1>4
<1> DEFINE R == ReportedUpTo(counts)
<1> HIDE DEF R
<1>6. R = [i \in 0..n |-> Step(counts, R, i)]
  BY <1>5 DEF Good, R
<1>7. \A i \in 0..n : R[i] = Step(counts, R, i)
  BY <1>6
<1>8. R[0] = {} /\ \A i \in 1..n : R[i] = WithWindow(counts, i, R[i - 1])
  BY <1>7 DEF Step
<1> QED BY <1>8 DEF R

(* What was reported of the first sentences: windows that do not overlap,  *)
(* one of them over each even run.                                         *)
Apart(counts, k) ==
    LET R == ReportedUpTo(counts)[k] IN
    /\ R \subseteq 1..k
    /\ \A i, j \in R : i < j => i + VarianceWindow <= j
    /\ \A i \in 1..k : IsEven(counts, i) => \E j \in R : j <= i /\ i < j + VarianceWindow

LEMMA OneMoreSentence ==
    ASSUME NEW counts, Len(counts) \in Nat, NEW k \in 1..Len(counts), Apart(counts, k - 1)
    PROVE  Apart(counts, k)
<1> DEFINE R == ReportedUpTo(counts)[k - 1]
           Q == ReportedUpTo(counts)[k]
           W == VarianceWindow
<1>1. W \in Nat /\ W > 0 /\ k \in Nat /\ k - 1 \in Nat
  BY DiagnosticsAssumption
<1>2. Q = WithWindow(counts, k, R)
  BY ReportedIsDefined
<1>3. /\ R \subseteq 1..(k - 1)
      /\ \A i, j \in R : i < j => i + W <= j
      /\ \A i \in 1..(k - 1) : IsEven(counts, i) => \E j \in R : j <= i /\ i < j + W
  BY DEF Apart
<1> HIDE DEF R, Q, W
<1>4. R \subseteq 1..k /\ \A j \in R : j \in Nat /\ j < k
  BY <1>1, <1>3
<1>5. \A i \in 1..k : i \in 1..(k - 1) \/ i = k
  BY <1>1
<1>6. CASE IsEven(counts, k) /\ \A prev \in R : ~Overlaps(k, prev)
  <2>1. Q = R \cup {k}
    BY <1>2, <1>6 DEF WithWindow
  <2>2. \A j \in R : j + W <= k
    BY <1>1, <1>4, <1>6 DEF Overlaps, W
  <2>3. Q \subseteq 1..k
    BY <1>1, <1>4, <2>1
  <2>4. ASSUME NEW i \in Q, NEW j \in Q, i < j PROVE i + W <= j
    <3>1. i \in R
      BY <1>1, <1>4, <2>1, <2>4
    <3>2. CASE j \in R
      BY <1>3, <2>4, <3>1, <3>2
    <3>3. CASE j = k
      BY <2>2, <3>1, <3>3
    <3> QED BY <2>1, <3>2, <3>3
  <2>5. ASSUME NEW i \in 1..k, IsEven(counts, i) PROVE \E j \in Q : j <= i /\ i < j + W
    <3>1. CASE i = k
      BY <1>1, <2>1, <3>1
    <3>2. CASE i \in 1..(k - 1)
      BY <1>3, <2>1, <2>5, <3>2
    <3> QED BY <1>5, <3>1, <3>2
  <2> QED BY <2>3, <2>4, <2>5 DEF Apart, Q, W
<1>7. CASE ~(IsEven(counts, k) /\ \A prev \in R : ~Overlaps(k, prev))
  <2>1. Q = R
    BY <1>2, <1>7 DEF WithWindow
  <2>2. ASSUME NEW i \in 1..k, IsEven(counts, i) PROVE \E j \in Q : j <= i /\ i < j + W
    <3>1. CASE i = k
      <4>1. PICK prev \in R : k < prev + W
        BY <1>7, <2>2, <3>1 DEF Overlaps, W
      <4>2. prev <= k
        BY <1>1, <1>4
      <4> QED BY <2>1, <3>1, <4>1, <4>2
    <3>2. CASE i \in 1..(k - 1)
      BY <1>3, <2>1, <2>2, <3>2
    <3> QED BY <1>5, <3>1, <3>2
  <2> QED BY <1>3, <1>4, <2>1, <2>2 DEF Apart, Q, W
<1> QED BY <1>6, <1>7

LEMMA WindowsAreApart ==
    ASSUME NEW counts, Len(counts) \in Nat
    PROVE  Apart(counts, Len(counts))
<1> DEFINE T == {k \in 0..Len(counts) : ~Apart(counts, k)}
<1>1. ASSUME T # {} PROVE FALSE
  <2>1. T \in SUBSET Nat
    OBVIOUS
  <2> HIDE DEF T
  <2>2. PICK x \in T : \A y \in T : x <= y
    BY <1>1, <2>1, LeastOf
  <2>3. x \in 0..Len(counts) /\ ~Apart(counts, x)
    BY DEF T
  <2>4. CASE x = 0
    <3>1. ReportedUpTo(counts)[0] = {} /\ 1..0 = {}
      BY ReportedIsDefined
    <3>2. Apart(counts, 0)
      BY <3>1 DEF Apart
    <3> QED BY <2>3, <2>4, <3>2
  <2>5. CASE x # 0
    <3>1. x - 1 \in 0..Len(counts) /\ ~(x <= x - 1) /\ x \in 1..Len(counts)
      BY <2>3, <2>5
    <3>2. x - 1 \notin T
      BY <2>2, <3>1
    <3>3. Apart(counts, x - 1)
      BY <3>1, <3>2 DEF T
    <3> QED BY <2>3, <3>1, <3>3, OneMoreSentence
  <2> QED BY <2>4, <2>5
<1>2. Len(counts) \in 0..Len(counts)
  OBVIOUS
<1> QED BY <1>1, <1>2

LEMMA SentencesAreCounted ==
    ASSUME NEW t \in Seq(Words)
    PROVE  /\ Len(SentenceLengths(t)) \in Nat
           /\ DOMAIN SentenceLengths(t) = 1..Len(SentenceLengths(t))
<1> DEFINE c == SentenceLengths(t)
           n == Cardinality(SentenceEnds(t))
           S == {c[i] : i \in 1..n}
<1>1. IsFiniteSet(SentenceEnds(t))
  <2>1. SentenceEnds(t) \subseteq Places(t)
    BY DEF SentenceEnds
  <2> QED BY <2>1, WordsAreFinite, FS_Subset
<1>2. n \in Nat
  BY <1>1, FS_CardinalityType
<1>3. DOMAIN c = 1..n /\ c = [i \in 1..n |-> c[i]]
  BY DEF SentenceLengths
<1> HIDE DEF c, n
<1>4. c \in [1..n -> S]
  BY <1>3
<1> HIDE DEF S
<1>5. c \in Seq(S) /\ Len(c) = n
  BY <1>2, <1>4
<1> QED BY <1>2, <1>3, <1>5 DEF c

LEMMA EvenRunsAreFound ==
    ASSUME NEW t \in Seq(Words)
    PROVE  /\ \A i, j \in Cadences(t) : i # j => Window(i) \cap Window(j) = {}
           /\ \A i \in DOMAIN SentenceLengths(t) :
                 IsEven(SentenceLengths(t), i) =>
                    \E j \in Cadences(t) : Window(i) \cap Window(j) # {}
<1> DEFINE c == SentenceLengths(t)
           n == Len(c)
           F == Cadences(t)
           W == VarianceWindow
<1>1. n \in Nat /\ DOMAIN c = 1..n /\ W \in Nat /\ W > 0
  BY SentencesAreCounted, DiagnosticsAssumption
<1>2. F = ReportedUpTo(c)[n]
  BY DEF Cadences
<1> HIDE DEF c, F
<1>3. Apart(c, n)
  BY <1>1, WindowsAreApart
<1> HIDE DEF n, W
<1>4. /\ F \subseteq 1..n
      /\ \A i, j \in F : i < j => i + W <= j
      /\ \A i \in 1..n : IsEven(c, i) => \E j \in F : j <= i /\ i < j + W
  BY <1>2, <1>3 DEF Apart, W
<1>5. F \subseteq Nat
  BY <1>1, <1>4
<1>6. ASSUME NEW i \in F, NEW j \in F, i < j PROVE Window(i) \cap Window(j) = {}
  <2>1. i \in Nat /\ j \in Nat /\ i + W <= j
    BY <1>4, <1>5, <1>6
  <2>2. \A x \in i..(i + W - 1) : x \notin j..(j + W - 1)
    BY <1>1, <2>1
  <2> QED BY <2>2 DEF Window, W
<1>7. ASSUME NEW i \in F, NEW j \in F, i # j PROVE Window(i) \cap Window(j) = {}
  <2>1. i < j \/ j < i
    BY <1>5, <1>7
  <2> QED BY <1>6, <2>1
<1>8. ASSUME NEW i \in 1..n, IsEven(c, i) PROVE \E j \in F : Window(i) \cap Window(j) # {}
  <2>1. PICK j \in F : j <= i /\ i < j + W
    BY <1>4, <1>8
  <2>2. i \in Nat /\ j \in Nat
    BY <1>1, <1>5
  <2>3. i \in i..(i + W - 1) /\ i \in j..(j + W - 1)
    BY <1>1, <2>1, <2>2
  <2>4. i \in Window(i) /\ i \in Window(j)
    BY <2>3 DEF Window, W
  <2> QED BY <2>4
<1> QED BY <1>1, <1>7, <1>8 DEF F, c

(* A finding is reported once, and stays while its block is written on     *)
(* (run_diagnostics_on_block, scan_sentence_length_variance).              *)
THEOREM FindingsAreAlwaysStable == ProseSpec => FindingsAreStable
<1> DEFINE ProseInv == ProseTypeOK /\ EvenRunsAreReportedOnce
<1>1. ProseInit => ProseTypeOK
  BY DEF ProseInit, ProseTypeOK
<1>2. ProseTypeOK /\ [ProseNext]_prose => ProseTypeOK'
  <2> SUFFICES ASSUME ProseTypeOK, [ProseNext]_prose PROVE ProseTypeOK'
    OBVIOUS
  <2>1. CASE UNCHANGED prose
    BY <2>1 DEF ProseTypeOK
  <2>2. ASSUME NEW word \in Vocabulary, NEW ends \in BOOLEAN, WriteWord(word, ends)
        PROVE  ProseTypeOK'
    <3>1. [word |-> word, ends |-> ends] \in Words
      BY DEF Words
    <3>2. prose \in Seq(Words)
      BY DEF ProseTypeOK, Words
    <3>3. Append(prose, [word |-> word, ends |-> ends]) \in Seq(Words)
      BY <3>1, <3>2, TextsGrow
    <3> QED BY <2>2, <3>3 DEF WriteWord, ProseTypeOK, Words
  <2> QED BY <2>1, <2>2 DEF ProseNext
<1>3. ProseTypeOK => EvenRunsAreReportedOnce
  <2> SUFFICES ASSUME ProseTypeOK PROVE EvenRunsAreReportedOnce
    OBVIOUS
  <2>1. prose \in Seq(Words)
    BY DEF ProseTypeOK, Words
  <2> QED BY <2>1, EvenRunsAreFound DEF EvenRunsAreReportedOnce
<1>4. ASSUME ProseTypeOK, ProseNext
      PROVE  \A r \in Rule \ {"adverb_density", "sentence_length_variance"} :
                RunDiagnostics(prose)[r] \subseteq RunDiagnostics(prose')[r]
  <2>1. PICK word \in Vocabulary, ends \in BOOLEAN : WriteWord(word, ends)
    BY <1>4 DEF ProseNext
  <2>2. [word |-> word, ends |-> ends] \in Words /\ prose \in Seq(Words)
    BY <1>4 DEF Words, ProseTypeOK
  <2>3. prose' = Append(prose, [word |-> word, ends |-> ends])
    BY <2>1 DEF WriteWord
  <2> QED BY <2>2, <2>3, FindingsStay
<1>5. ProseTypeOK /\ [ProseNext]_prose =>
        [\A r \in Rule \ {"adverb_density", "sentence_length_variance"} :
            RunDiagnostics(prose)[r] \subseteq RunDiagnostics(prose')[r]]_prose
  BY <1>4
<1> QED BY <1>1, <1>2, <1>3, <1>5, PTL DEF ProseSpec, FindingsAreStable, FindingsOutlastTheEdit

-----------------------------------------------------------------------------
(* The snapshots.  The policy in terms of the age of a snapshot: two       *)
(* snapshots are alike at a grade when one may stand for the other.        *)
Grade(age) ==
    IF age <= AllKept THEN 0
    ELSE IF age <= HoursKept THEN 1
    ELSE IF age <= DaysKept THEN 2
    ELSE 3
Span(g) == IF g = 1 THEN Hour ELSE IF g = 2 THEN Day ELSE Week
Alike(g, x, y) == IF g = 0 THEN x = y ELSE x.at \div Span(g) = y.at \div Span(g)

Follows(files, now, r, e) ==
    /\ r.scene = e.scene /\ r.id >= e.id
    /\ \E a \in files : a.id = r.id
    /\ Alike(Grade(now - e.at), r, e)
AllFollowed(ever, rows, files, now) == \A e \in ever : \E r \in rows : Follows(files, now, r, e)

(* The rows are numbered in the order in which they were taken.            *)
Numbered(ever, n, now) ==
    /\ \A e \in ever : e.id <= n /\ e.at <= now
    /\ \A e, q \in ever : /\ e.id = q.id => e = q
                          /\ e.id < q.id => e.at <= q.at

(* What the channel holds: the commands of close_project come last, and    *)
(* once the first of the two is served the round counts the scenes.        *)
Counted == active = closed \cup missed \cup (IF onClose THEN queue ELSE {})
StopAt(i) == cmds[i] = [does |-> "stop"]
CloseAt(i) == cmds[i] = [does |-> "close"]
NotCounting == ~onClose /\ closed = {} /\ missed = {}
BeforeClosing ==
    /\ NotCounting /\ Len(cmds) >= 2
    /\ \A i \in 1..(Len(cmds) - 2) : cmds[i] \in TakeCommand
    /\ CloseAt(Len(cmds) - 1) /\ StopAt(Len(cmds))
AfterClosing ==
    /\ Len(cmds) = 1 /\ StopAt(1)
    /\ Counted /\ (onClose => queue # {})
Schedule ==
    /\ loop \in {"off", "on"} => NotCounting
    /\ loop = "off" => cmds = <<>>
    /\ loop = "on" => cmds \in Seq(TakeCommand)
    /\ loop = "closing" => BeforeClosing \/ AfterClosing
    /\ loop = "ended" => active = closed \cup missed

Library ==
    /\ snap \subseteq everTaken
    /\ \A a \in archive : a.id <= snaps
    /\ Numbered(everTaken, snaps, tick)
    /\ AllFollowed(everTaken, snap, archive, tick)

StoredTypeOK ==
    /\ tick \in 0..MaxTicks
    /\ draft \in [SceneFile -> Held \cup {Gone}]
    /\ snap \subseteq Snapshot /\ everTaken \subseteq Snapshot
    /\ archive \subseteq [id : 1..MaxSnaps, text : Held]
    /\ snaps \in 0..MaxSnaps
ScheduledTypeOK ==
    /\ active \subseteq SceneFile /\ closed \subseteq SceneFile /\ missed \subseteq SceneFile
    /\ cmds \in Seq(Command)
    /\ loop \in {"off", "on", "closing", "ended"}
    /\ due \in Nat
    /\ queue \subseteq SceneFile /\ onClose \in BOOLEAN

StoreInv == StoredTypeOK /\ Library
TaskInv == ScheduledTypeOK /\ Schedule

(* A coarser span does not tell apart what a finer one does not.           *)
LEMMA Multiples ==
    ASSUME NEW k \in Nat, NEW h \in Nat, h > 0, NEW a \in Nat, NEW b \in Nat, a <= b
    PROVE  a * h <= b * h
OBVIOUS

LEMMA Dividing ==
    ASSUME NEW x \in Nat, NEW h \in Nat \ {0}
    PROVE  /\ x \div h \in Nat
           /\ (x \div h) * h <= x /\ x < (x \div h) * h + h
OBVIOUS

LEMMA DividesAs ==
    ASSUME NEW x \in Nat, NEW h \in Nat \ {0}, NEW d \in Nat, d * h <= x, x < d * h + h
    PROVE  x \div h = d
OBVIOUS

LEMMA Coarser ==
    ASSUME NEW h \in Nat \ {0}, NEW H \in Nat \ {0}, H % h = 0,
           NEW x \in Nat, NEW y \in Nat, x \div h = y \div h
    PROVE  x \div H = y \div H
<1> DEFINE k == H \div h
           a == x \div h
           d == x \div H
<1>1. k \in Nat /\ k * h = H
  OBVIOUS
<1>2. a \in Nat /\ a * h <= x /\ x < a * h + h /\ a * h <= y /\ y < a * h + h
  BY Dividing
<1>3. d \in Nat /\ d * H <= x /\ x < d * H + H
  BY Dividing
<1> HIDE DEF k, a, d
<1>4. d * H = (d * k) * h /\ d * H + H = (d * k + k) * h /\ d * k \in Nat /\ d * k + k \in Nat
  BY <1>1, <1>3
<1> DEFINE lo == d * k
           hi == d * k + k
<1>5. lo \in Nat /\ hi \in Nat /\ d * H = lo * h /\ d * H + H = hi * h
  BY <1>4
<1> HIDE DEF lo, hi
<1>6. lo <= a
  <2> SUFFICES ASSUME a < lo PROVE FALSE
    BY <1>2, <1>5
  <2>1. a + 1 <= lo /\ a + 1 \in Nat /\ h \in Nat /\ h > 0
    BY <1>2, <1>5
  <2>2. (a + 1) * h <= lo * h
    BY <2>1, <1>5, Multiples
  <2>3. (a + 1) * h = a * h + h
    BY <1>2
  <2> QED BY <2>2, <2>3, <1>2, <1>3, <1>5
<1>7. a + 1 <= hi
  <2> SUFFICES ASSUME hi <= a PROVE FALSE
    BY <1>2, <1>5
  <2>1. hi * h <= a * h
    BY <1>2, <1>5, Multiples
  <2> QED BY <2>1, <1>2, <1>3, <1>5
<1>8. lo * h <= a * h /\ (a + 1) * h <= hi * h /\ (a + 1) * h = a * h + h
  <2>1. h \in Nat /\ h > 0 /\ a + 1 \in Nat
    BY <1>2
  <2> QED BY <1>2, <1>5, <1>6, <1>7, <2>1, Multiples
<1>9. d * H <= y /\ y < d * H + H
  BY <1>2, <1>3, <1>5, <1>8
<1>10. y \div H = d
  BY <1>3, <1>9, DividesAs
<1> QED BY <1>10 DEF d

LEMMA MultiplesDivide ==
    ASSUME NEW m \in Nat, NEW h \in Nat \ {0}, NEW x \in Nat, m * h = x
    PROVE  x % h = 0
<1>1. x \div h = m
  BY DividesAs
<1>2. x % h = x - (x \div h) * h
  OBVIOUS
<1> QED BY <1>1, <1>2

LEMMA SpansNest ==
    /\ \A g \in 1..3 : Span(g) \in Nat \ {0}
    /\ \A g \in 1..3 : \A i \in 1..g : Span(g) % Span(i) = 0
<1>1. Week % Hour = 0
  <2> DEFINE j == Day \div Hour
             k == Week \div Day
  <2>1. j \in Nat /\ j * Hour = Day /\ k \in Nat /\ k * Day = Week
    BY SnapshotsAssumption
  <2> HIDE DEF j, k
  <2>2. (k * j) * Hour = Week /\ k * j \in Nat
    BY <2>1, SnapshotsAssumption
  <2> DEFINE m == k * j
  <2> HIDE DEF m
  <2>3. m * Hour = Week /\ m \in Nat
    BY <2>2 DEF m
  <2> QED BY <2>3, MultiplesDivide, SnapshotsAssumption
<1>2. Hour % Hour = 0 /\ Day % Day = 0 /\ Week % Week = 0
  BY SnapshotsAssumption
<1>3. \A g \in 1..3 : g = 1 \/ g = 2 \/ g = 3
  OBVIOUS
<1>4. Span(1) = Hour /\ Span(2) = Day /\ Span(3) = Week
  BY DEF Span
<1>5. ASSUME NEW g \in 1..3, NEW i \in 1..g PROVE Span(g) % Span(i) = 0
  <2>1. i \in 1..3 /\ i <= g
    OBVIOUS
  <2> QED BY <1>1, <1>2, <1>3, <1>4, <2>1, SnapshotsAssumption
<1>6. \A g \in 1..3 : Span(g) \in Nat \ {0}
  BY <1>3, <1>4, SnapshotsAssumption
<1> QED BY <1>5, <1>6

LEMMA AlikeCoarsens ==
    ASSUME NEW g \in 0..3, NEW i \in 0..g, NEW x, NEW y, x.at \in Nat, y.at \in Nat, Alike(i, x, y)
    PROVE  Alike(g, x, y)
<1>1. CASE i = 0
  BY <1>1 DEF Alike
<1>2. CASE i # 0
  <2>1. g \in 1..3 /\ i \in 1..g /\ i \in 1..3 /\ g # 0
    BY <1>2
  <2>2. x.at \div Span(i) = y.at \div Span(i)
    BY <1>2 DEF Alike
  <2>3. Span(i) \in Nat \ {0} /\ Span(g) \in Nat \ {0} /\ Span(g) % Span(i) = 0
    BY <2>1, SpansNest
  <2>4. x.at \div Span(g) = y.at \div Span(g)
    BY <2>2, <2>3, Coarser
  <2> QED BY <2>1, <2>4 DEF Alike
<1> QED BY <1>1, <1>2

LEMMA AlikeChains ==
    ASSUME NEW g, NEW x, NEW y, NEW z, Alike(g, x, y), Alike(g, y, z)
    PROVE  Alike(g, x, z)
BY DEF Alike

LEMMA GradesRise ==
    ASSUME NEW a \in Int, NEW b \in Int, a <= b
    PROVE  Grade(a) \in 0..3 /\ Grade(b) \in 0..3 /\ Grade(a) \in 0..Grade(b)
BY SnapshotsAssumption DEF Grade

LEMMA SucceedsIsFollows ==
    ASSUME tick \in Nat, NEW r, NEW e, e.at \in Nat
    PROVE  Succeeds(r, e) <=> Follows(archive, tick, r, e)
<1>1. Age(e) \in Int /\ Age(e) = tick - e.at
  BY DEF Age
<1>2. CASE Age(e) <= AllKept
  BY <1>1, <1>2, SnapshotsAssumption DEF Succeeds, Follows, Alike, Grade
<1>3. CASE Age(e) > AllKept /\ Age(e) <= HoursKept
  BY <1>1, <1>3, SnapshotsAssumption DEF Succeeds, Follows, Alike, Grade, Span
<1>4. CASE Age(e) > HoursKept /\ Age(e) <= DaysKept
  BY <1>1, <1>4, SnapshotsAssumption DEF Succeeds, Follows, Alike, Grade, Span
<1>5. CASE Age(e) > DaysKept
  BY <1>1, <1>5, SnapshotsAssumption DEF Succeeds, Follows, Alike, Grade, Span
<1> QED BY <1>1, <1>2, <1>3, <1>4, <1>5, SnapshotsAssumption

LEMMA BucketsAreAlike ==
    ASSUME tick \in Nat, NEW q, NEW r, q.at \in Nat, r.at \in Nat,
           q.id = r.id => q = r, Bucket(q) = Bucket(r)
    PROVE  /\ Grade(tick - q.at) = Grade(tick - r.at)
           /\ Alike(Grade(tick - r.at), q, r)
BY SnapshotsAssumption DEF Bucket, Age, Grade, Alike, Span

(* Thinning takes no successor away that is not replaced: of the readable  *)
(* successors of a snapshot the newest is never thinned out, because what  *)
(* makes it superfluous has a newer readable successor itself.             *)
LEMMA ThinningKeeps ==
    ASSUME tick \in Nat, NEW ever, ever \subseteq Snapshot, NEW rows, rows \subseteq ever,
           NEW files, NEW n, Numbered(ever, n, tick),
           AllFollowed(ever, rows, files, tick),
           NEW s, NEW out, out \subseteq Pruned(rows, s),
           NEW left, \A a \in files : (\A r \in Pruned(rows, s) : r.id # a.id) => a \in left
    PROVE  AllFollowed(ever, rows \ out, left, tick)
<1>1. MaxSnaps \in Nat /\ MaxTicks \in Nat
  BY SnapshotsAssumption
<1>2. \A e \in ever : e.id \in 1..MaxSnaps /\ e.id \in Nat /\ e.at \in Nat /\ e.at <= tick
  BY <1>1 DEF Snapshot, Numbered
<1>3. ASSUME NEW e \in ever PROVE \E r \in rows \ out : Follows(left, tick, r, e)
  <2> DEFINE S == {r \in rows : Follows(files, tick, r, e)}
             T == {MaxSnaps - r.id : r \in S}
  <2>1. S # {} /\ S \subseteq rows
    BY DEF AllFollowed
  <2>2. \A r \in S : r \in ever /\ MaxSnaps - r.id \in Nat
    BY <1>1, <1>2
  <2>3. T \in SUBSET Nat /\ T # {}
    BY <2>1, <2>2
  <2>4. PICK t \in T : \A u \in T : t <= u
    <3> HIDE DEF T
    <3> QED BY <2>3, LeastOf
  <2>5. PICK m \in S : t = MaxSnaps - m.id
    OBVIOUS
  <2>6. \A r \in S : r.id <= m.id
    <3> SUFFICES ASSUME NEW r \in S PROVE r.id <= m.id
      OBVIOUS
    <3>1. MaxSnaps - m.id <= MaxSnaps - r.id
      BY <2>4, <2>5
    <3>2. m.id \in Nat /\ r.id \in Nat
      BY <1>2, <2>2
    <3> QED BY <1>1, <3>1, <3>2
  <2>7. m \in rows /\ m \in ever /\ Follows(files, tick, m, e)
    BY <2>2
  <2>8. ASSUME m \in Pruned(rows, s) PROVE FALSE
    <3>1. PICK q \in rows : q.scene = s /\ Bucket(q) = Bucket(m) /\ Newer(q, m)
      BY <2>8 DEF Pruned
    <3>2. m.scene = s /\ q \in ever
      BY <2>8, <3>1 DEF Pruned
    <3>3. PICK z \in rows : Follows(files, tick, z, q)
      BY <3>2 DEF AllFollowed
    <3>4. z \in ever
      BY <3>3
    <3>5. /\ Grade(tick - q.at) = Grade(tick - m.at)
          /\ Alike(Grade(tick - m.at), q, m)
      <4>1. q.at \in Nat /\ m.at \in Nat /\ (q.id = m.id => q = m)
        BY <1>2, <2>7, <3>2 DEF Numbered
      <4> QED BY <3>1, <4>1, BucketsAreAlike
    <3>6. Alike(Grade(tick - m.at), z, q) /\ Alike(Grade(tick - e.at), m, e)
      BY <2>7, <3>3, <3>5 DEF Follows
    <3>7. Grade(tick - m.at) \in 0..Grade(tick - e.at) /\ Grade(tick - e.at) \in 0..3
      <4>1. e.at <= m.at
        <5>1. e.id <= m.id
          BY <2>7 DEF Follows
        <5>2. e.id < m.id \/ e.id = m.id
          BY <1>2, <2>7, <5>1
        <5> QED BY <1>2, <2>7, <5>2 DEF Numbered
      <4>2. tick - m.at \in Int /\ tick - e.at \in Int /\ tick - m.at <= tick - e.at
        BY <1>2, <2>7, <4>1
      <4> QED BY <4>2, GradesRise
    <3>8. Alike(Grade(tick - e.at), z, e)
      <4>1. Alike(Grade(tick - m.at), z, m)
        BY <3>5, <3>6, AlikeChains
      <4>2. z.at \in Nat /\ m.at \in Nat
        BY <1>2, <2>7, <3>4
      <4>3. Alike(Grade(tick - e.at), z, m)
        BY <3>7, <4>1, <4>2, AlikeCoarsens
      <4> QED BY <3>6, <4>3, AlikeChains
    <3>9. z.id > m.id
      <4>1. z.id >= q.id /\ q.id > m.id
        BY <3>1, <3>3 DEF Follows, Newer
      <4> QED BY <1>2, <2>7, <3>2, <3>4, <4>1
    <3>10. z.scene = e.scene /\ (\E a \in files : a.id = z.id) /\ z.id >= e.id
      <4>1. z.scene = q.scene /\ m.scene = e.scene /\ m.id >= e.id /\ \E a \in files : a.id = z.id
        BY <2>7, <3>3 DEF Follows
      <4>2. z.id >= e.id
        BY <1>2, <2>7, <3>4, <3>9, <4>1
      <4> QED BY <3>1, <3>2, <4>1, <4>2
    <3>11. z \in S
      BY <3>3, <3>8, <3>10 DEF Follows
    <3>12. z.id <= m.id
      BY <2>6, <3>11
    <3> QED BY <1>2, <2>7, <3>4, <3>9, <3>12
  <2>9. m \in rows \ out
    BY <2>7, <2>8
  <2>10. PICK a \in files : a.id = m.id
    BY <2>7 DEF Follows
  <2>11. a \in left
    <3>1. \A r \in Pruned(rows, s) : r \in ever /\ r # m
      BY <2>8 DEF Pruned
    <3>2. \A r \in Pruned(rows, s) : r.id # m.id
      BY <2>7, <3>1 DEF Numbered
    <3> QED BY <2>10, <3>2
  <2>12. Follows(left, tick, m, e)
    BY <2>7, <2>10, <2>11 DEF Follows
  <2> QED BY <2>9, <2>12
<1> QED BY <1>3 DEF AllFollowed

LEMMA NothingLost ==
    ASSUME NEW ever, NEW rows, NEW files, NEW now, AllFollowed(ever, rows, files, now),
           NEW more, rows \subseteq more, NEW kept, files \subseteq kept
    PROVE  AllFollowed(ever, more, kept, now)
BY DEF AllFollowed, Follows

LEMMA OneMoreTaken ==
    ASSUME StoreInv, NEW s \in SceneFile, Readable(s), snaps < MaxSnaps
    PROVE  LET new   == NewSnap(s)
               ever  == everTaken \cup {new}
               rows  == snap \cup {new}
               files == archive \cup {NewFile(s)} IN
           /\ new.scene = s /\ NewFile(s).id = new.id /\ NewFile(s).text = draft[s]
           /\ ever \subseteq Snapshot /\ rows \subseteq ever /\ snaps + 1 \in 0..MaxSnaps
           /\ files \subseteq [id : 1..MaxSnaps, text : Held]
           /\ \A a \in files : a.id <= snaps + 1
           /\ Numbered(ever, snaps + 1, tick)
           /\ AllFollowed(ever, rows, files, tick)
<1> DEFINE new   == NewSnap(s)
           file  == NewFile(s)
           ever  == everTaken \cup {new}
           rows  == snap \cup {new}
           files == archive \cup {file}
<1>1. /\ snaps \in Nat /\ snaps + 1 \in 1..MaxSnaps /\ snaps + 1 \in 0..MaxSnaps
      /\ tick \in 0..MaxTicks /\ tick \in Nat /\ draft[s] \in Held
  BY SnapshotsAssumption DEF StoreInv, StoredTypeOK, Readable
<1>2. new.id = snaps + 1 /\ new.scene = s /\ new.at = tick /\ new \in Snapshot
  BY <1>1 DEF NewSnap, Snapshot
<1>3. file.id = snaps + 1 /\ file.text = draft[s] /\ file \in [id : 1..MaxSnaps, text : Held]
  BY <1>1 DEF NewFile
<1> HIDE DEF new, file
<1>4. ever \subseteq Snapshot /\ rows \subseteq ever /\ files \subseteq [id : 1..MaxSnaps, text : Held]
  BY <1>2, <1>3 DEF StoreInv, StoredTypeOK, Library
<1>5. \A a \in files : a.id <= snaps + 1
  <2>1. \A a \in archive : a.id <= snaps /\ a.id \in Nat
    BY SnapshotsAssumption DEF StoreInv, Library, StoredTypeOK
  <2> QED BY <1>1, <1>3, <2>1
<1>6. Numbered(ever, snaps + 1, tick)
  <2>1. \A e \in everTaken : e.id \in Nat /\ e.at \in Nat /\ e.id <= snaps /\ e.at <= tick
    BY SnapshotsAssumption DEF StoreInv, Library, StoredTypeOK, Snapshot, Numbered
  <2>2. \A e, q \in everTaken : /\ e.id = q.id => e = q
                                /\ e.id < q.id => e.at <= q.at
    BY DEF StoreInv, Library, Numbered
  <2>3. \A e \in ever : e \in everTaken \/ e = new
    OBVIOUS
  <2>4. \A e \in ever : e.id <= snaps + 1 /\ e.at <= tick
    BY <1>1, <1>2, <2>1, <2>3
  <2>5. ASSUME NEW e \in ever, NEW q \in ever
        PROVE  (e.id = q.id => e = q) /\ (e.id < q.id => e.at <= q.at)
    <3>1. CASE e \in everTaken /\ q \in everTaken
      BY <2>2, <3>1
    <3>2. CASE e \in everTaken /\ q = new
      BY <1>1, <1>2, <2>1, <3>2
    <3>3. CASE e = new /\ q \in everTaken
      BY <1>1, <1>2, <2>1, <3>3
    <3>4. CASE e = new /\ q = new
      BY <1>1, <1>2, <3>4
    <3> QED BY <2>3, <3>1, <3>2, <3>3, <3>4
  <2> HIDE DEF ever
  <2> QED BY <2>4, <2>5 DEF Numbered
<1>7. AllFollowed(ever, rows, files, tick)
  <2>1. AllFollowed(everTaken, rows, files, tick)
    <3>1. AllFollowed(everTaken, snap, archive, tick)
      BY DEF StoreInv, Library
    <3> QED BY <3>1, NothingLost
  <2>2. Follows(files, tick, new, new)
    BY <1>1, <1>2, <1>3 DEF Follows, Alike
  <2> QED BY <2>1, <2>2 DEF AllFollowed
<1> QED BY <1>1, <1>2, <1>3, <1>4, <1>5, <1>6, <1>7 DEF new, file

-----------------------------------------------------------------------------
(* The rows and files, step by step.                                       *)
LEMMA StoreRests ==
    ASSUME StoreInv, UNCHANGED <<tick, snap, archive, snaps, everTaken>>,
           draft' \in [SceneFile -> Held \cup {Gone}]
    PROVE  StoreInv'
BY DEF StoreInv, StoredTypeOK, Library

LEMMA StoreAges == ASSUME StoreInv, TimePasses PROVE StoreInv'
<1>1. /\ tick' = tick + 1 /\ tick < MaxTicks /\ tick \in Nat /\ MaxTicks \in Nat
      /\ UNCHANGED <<draft, snap, archive, snaps, everTaken>>
  BY SnapshotsAssumption DEF TimePasses, stored, StoreInv, StoredTypeOK
<1>2. StoredTypeOK'
  BY <1>1 DEF StoreInv, StoredTypeOK
<1>3. \A e \in everTaken : e.at \in Nat /\ e.at <= tick /\ e.id <= snaps
  BY SnapshotsAssumption DEF StoreInv, StoredTypeOK, Library, Snapshot, Numbered
<1>4. Numbered(everTaken, snaps, tick + 1)
  <2>1. \A e \in everTaken : e.at <= tick + 1
    BY <1>1, <1>3
  <2> QED BY <1>3, <2>1 DEF StoreInv, Library, Numbered
<1>5. AllFollowed(everTaken, snap, archive, tick + 1)
  <2> SUFFICES ASSUME NEW e \in everTaken
               PROVE  \E r \in snap : Follows(archive, tick + 1, r, e)
    BY DEF AllFollowed
  <2>1. PICK r \in snap : Follows(archive, tick, r, e)
    BY DEF StoreInv, Library, AllFollowed
  <2>2. r.at \in Nat /\ e.at \in Nat
    BY <1>3 DEF StoreInv, Library
  <2>3. Grade(tick - e.at) \in 0..Grade((tick + 1) - e.at) /\ Grade((tick + 1) - e.at) \in 0..3
    <3>1. tick - e.at \in Int /\ (tick + 1) - e.at \in Int /\ tick - e.at <= (tick + 1) - e.at
      BY <1>1, <2>2
    <3> QED BY <3>1, GradesRise
  <2> DEFINE i == Grade(tick - e.at)
             g == Grade((tick + 1) - e.at)
  <2>4. Alike(g, r, e)
    <3>1. Alike(i, r, e)
      BY <2>1 DEF Follows
    <3> HIDE DEF i, g
    <3>2. g \in 0..3 /\ i \in 0..g
      BY <2>3 DEF i, g
    <3> QED BY <2>2, <3>1, <3>2, AlikeCoarsens
  <2>5. r.scene = e.scene /\ r.id >= e.id /\ \E a \in archive : a.id = r.id
    BY <2>1 DEF Follows
  <2>6. Follows(archive, tick + 1, r, e)
    BY <2>4, <2>5 DEF Follows
  <2> HIDE DEF i, g
  <2> QED BY <2>6
<1>6. Library'
  BY <1>1, <1>4, <1>5 DEF StoreInv, Library
<1> QED BY <1>2, <1>6 DEF StoreInv

LEMMA StoreGrows ==
    ASSUME StoreInv, NEW s \in SceneFile, Take(s), UNCHANGED tick,
           draft' \in [SceneFile -> Held \cup {Gone}]
    PROVE  StoreInv'
<1> DEFINE new == NewSnap(s)
           file == NewFile(s)
<1>1. /\ Readable(s) /\ snaps < MaxSnaps /\ snaps' = snaps + 1
      /\ everTaken' = everTaken \cup {new} /\ snap' = snap \cup {new}
      /\ archive' = archive \cup {file}
  BY DEF Take
<1>2. /\ everTaken' \subseteq Snapshot /\ snap' \subseteq everTaken' /\ snaps' \in 0..MaxSnaps
      /\ archive' \subseteq [id : 1..MaxSnaps, text : Held]
      /\ \A a \in archive' : a.id <= snaps'
      /\ Numbered(everTaken', snaps', tick')
      /\ AllFollowed(everTaken', snap', archive', tick')
  BY <1>1, OneMoreTaken
<1> HIDE DEF new, file
<1>3. StoredTypeOK'
  BY <1>2 DEF StoreInv, StoredTypeOK
<1>4. Library'
  BY <1>2 DEF Library
<1> QED BY <1>3, <1>4 DEF StoreInv

LEMMA StoreIsThinned ==
    ASSUME StoreInv, NEW s \in SceneFile, Readable(s), snaps < MaxSnaps,
           UNCHANGED <<tick, draft>>,
           NEW out, NEW next, out \subseteq Pruned(snap \cup {NewSnap(s)}, s),
           next \subseteq Pruned(snap \cup {NewSnap(s)}, s),
           snaps' = snaps + 1, everTaken' = everTaken \cup {NewSnap(s)},
           snap' = (snap \cup {NewSnap(s)}) \ out,
           archive' = (archive \cup {NewFile(s)}) \ FilesOf(out \cup next)
    PROVE  StoreInv'
<1> DEFINE new == NewSnap(s)
           file == NewFile(s)
           ever == everTaken \cup {new}
           rows == snap \cup {new}
           files == archive \cup {file}
<1>1. /\ ever \subseteq Snapshot /\ rows \subseteq ever /\ snaps + 1 \in 0..MaxSnaps
      /\ files \subseteq [id : 1..MaxSnaps, text : Held]
      /\ \A a \in files : a.id <= snaps + 1
      /\ Numbered(ever, snaps + 1, tick)
      /\ AllFollowed(ever, rows, files, tick)
  BY OneMoreTaken
<1>2. \A a \in files : (\A r \in Pruned(rows, s) : r.id # a.id) => a \in archive'
  BY DEF FilesOf
<1>3. tick \in Nat
  BY SnapshotsAssumption DEF StoreInv, StoredTypeOK
<1> HIDE DEF new, file
<1>4. out \subseteq Pruned(rows, s)
  BY DEF new
<1>5. AllFollowed(ever, rows \ out, archive', tick)
  <2> HIDE DEF ever, rows, files
  <2> QED BY <1>1, <1>2, <1>3, <1>4, ThinningKeeps
<1>6. /\ everTaken' = ever /\ snap' = rows \ out /\ archive' \subseteq files
  BY DEF new, file
<1> HIDE DEF ever, rows, files
<1>7. StoredTypeOK'
  BY <1>1, <1>6 DEF StoreInv, StoredTypeOK
<1>8. Library'
  BY <1>1, <1>5, <1>6 DEF Library
<1> QED BY <1>7, <1>8 DEF StoreInv

LEMMA StoreIsTaken == ASSUME StoreInv, NEW s \in SceneFile, TakeOne(s), UNCHANGED tick PROVE StoreInv'
<1> DEFINE out == Pruned(snap \cup {NewSnap(s)}, s)
<1>1. /\ Readable(s) /\ snaps < MaxSnaps /\ UNCHANGED draft
      /\ snaps' = snaps + 1 /\ everTaken' = everTaken \cup {NewSnap(s)}
      /\ snap' = (snap \cup {NewSnap(s)}) \ out
      /\ archive' = (archive \cup {NewFile(s)}) \ FilesOf(out \cup {})
  BY DEF TakeOne
<1>2. {} \subseteq out /\ out \subseteq out
  OBVIOUS
<1> QED BY <1>1, <1>2, StoreIsThinned

LEMMA StoreIsCut ==
    ASSUME StoreInv, NEW s \in SceneFile, TakeOneIsCut(s), UNCHANGED tick PROVE StoreInv'
<1> DEFINE torn == [NewFile(s) EXCEPT !.text = Torn]
<1>1. Readable(s) /\ snaps < MaxSnaps /\ snaps' = snaps + 1 /\ UNCHANGED draft
  BY DEF TakeOneIsCut
<1>2. CASE archive' = archive \cup {torn} /\ UNCHANGED <<snap, everTaken>>
  <2>1. snaps \in Nat /\ snaps + 1 \in 1..MaxSnaps /\ snaps + 1 \in 0..MaxSnaps
    BY <1>1, SnapshotsAssumption DEF StoreInv, StoredTypeOK
  <2>2. torn = [id |-> snaps + 1, text |-> Torn]
    BY DEF NewFile
  <2>3. torn.id = snaps + 1 /\ torn \in [id : 1..MaxSnaps, text : Held]
    BY <2>1, <2>2 DEF Held
  <2> HIDE DEF torn
  <2>4. StoredTypeOK'
    BY <1>1, <1>2, <2>1, <2>3 DEF StoreInv, StoredTypeOK
  <2>5. \A a \in archive' : a.id <= snaps + 1
    <3>1. \A a \in archive : a.id <= snaps /\ a.id \in Nat
      BY SnapshotsAssumption DEF StoreInv, Library, StoredTypeOK
    <3> QED BY <1>2, <2>1, <2>3, <3>1
  <2>6. Numbered(everTaken, snaps + 1, tick)
    <3>1. \A e \in everTaken : e.id \in Nat /\ e.id <= snaps
      BY SnapshotsAssumption DEF StoreInv, Library, StoredTypeOK, Snapshot, Numbered
    <3>2. \A e \in everTaken : e.id <= snaps + 1
      BY <2>1, <3>1
    <3> QED BY <3>2 DEF StoreInv, Library, Numbered
  <2>7. AllFollowed(everTaken, snap, archive', tick)
    <3>1. AllFollowed(everTaken, snap, archive, tick)
      BY DEF StoreInv, Library
    <3> QED BY <1>2, <3>1, NothingLost
  <2>8. snap \subseteq everTaken
    BY DEF StoreInv, Library
  <2>9. Library'
    BY <1>1, <1>2, <2>5, <2>6, <2>7, <2>8 DEF Library
  <2> QED BY <2>4, <2>9 DEF StoreInv
<1>3. CASE \E out \in SUBSET Pruned(snap \cup {NewSnap(s)}, s) :
              \E next \in SUBSET (Pruned(snap \cup {NewSnap(s)}, s) \ out) :
                 /\ snap' = (snap \cup {NewSnap(s)}) \ out
                 /\ archive' = (archive \cup {NewFile(s)}) \ FilesOf(out \cup next)
                 /\ everTaken' = everTaken \cup {NewSnap(s)}
  <2>1. PICK out \in SUBSET Pruned(snap \cup {NewSnap(s)}, s) :
              \E next \in SUBSET (Pruned(snap \cup {NewSnap(s)}, s) \ out) :
                 /\ snap' = (snap \cup {NewSnap(s)}) \ out
                 /\ archive' = (archive \cup {NewFile(s)}) \ FilesOf(out \cup next)
                 /\ everTaken' = everTaken \cup {NewSnap(s)}
    BY <1>3
  <2>2. PICK next \in SUBSET (Pruned(snap \cup {NewSnap(s)}, s) \ out) :
                 /\ snap' = (snap \cup {NewSnap(s)}) \ out
                 /\ archive' = (archive \cup {NewFile(s)}) \ FilesOf(out \cup next)
                 /\ everTaken' = everTaken \cup {NewSnap(s)}
    BY <2>1
  <2>3. /\ out \subseteq Pruned(snap \cup {NewSnap(s)}, s)
        /\ next \subseteq Pruned(snap \cup {NewSnap(s)}, s)
    OBVIOUS
  <2> QED BY <1>1, <2>2, <2>3, StoreIsThinned
<1> QED BY <1>2, <1>3 DEF TakeOneIsCut

-----------------------------------------------------------------------------
(* The task, step by step.                                                 *)
LEMMA TaskRests == ASSUME TaskInv, UNCHANGED scheduled PROVE TaskInv'
BY DEF TaskInv, ScheduledTypeOK, Schedule, scheduled, NotCounting, BeforeClosing, AfterClosing,
       Counted, StopAt, CloseAt

LEMMA TaskEnds == ASSUME Ended PROVE TaskInv'
<1>1. /\ loop' = "off" /\ active' = {} /\ cmds' = <<>> /\ queue' = {}
      /\ onClose' = FALSE /\ due' = 0 /\ closed' = {} /\ missed' = {}
  BY DEF Ended
<1>2. cmds' \in Seq(Command)
  BY <1>1
<1>3. ScheduledTypeOK'
  BY <1>1, <1>2 DEF ScheduledTypeOK
<1>4. Schedule'
  BY <1>1 DEF Schedule, NotCounting
<1> QED BY <1>3, <1>4 DEF TaskInv

LEMMA CommandsAre ==
    /\ TakeCommand \subseteq Command
    /\ [does |-> "close"] \in Command /\ [does |-> "stop"] \in Command
    /\ \A c \in Command : \/ c.does = "take" /\ c \in TakeCommand
                          \/ c.does = "close" /\ c = [does |-> "close"]
                          \/ c.does = "stop" /\ c = [does |-> "stop"]
BY DEF Command, TakeCommand

LEMMA TaskStarts == ASSUME TaskInv, tick \in Nat, Spawn PROVE TaskInv'
<1>1. /\ loop = "off" /\ loop' = "on" /\ due' = tick
      /\ UNCHANGED <<active, cmds, queue, onClose, closed, missed>>
  BY DEF Spawn
<1>2. cmds' = <<>> /\ NotCounting'
  BY <1>1 DEF TaskInv, Schedule, NotCounting
<1>3. cmds' \in Seq(TakeCommand)
  BY <1>2
<1>4. ScheduledTypeOK'
  BY <1>1 DEF TaskInv, ScheduledTypeOK
<1>5. Schedule'
  BY <1>1, <1>2, <1>3 DEF Schedule
<1> QED BY <1>4, <1>5 DEF TaskInv

LEMMA TaskRegisters == ASSUME TaskInv, NEW s \in SceneFile, Register(s) PROVE TaskInv'
<1>1. /\ loop = "on" /\ active' = active \cup {s}
      /\ UNCHANGED <<cmds, loop, due, queue, onClose, closed, missed>>
  BY DEF Register
<1>2. ScheduledTypeOK'
  BY <1>1 DEF TaskInv, ScheduledTypeOK
<1>3. Schedule'
  BY <1>1 DEF TaskInv, Schedule, NotCounting
<1> QED BY <1>2, <1>3 DEF TaskInv

LEMMA TaskTicks == ASSUME TaskInv, HourlyTick PROVE TaskInv'
<1>1. /\ Idle /\ queue' = active
      /\ UNCHANGED <<active, cmds, loop, onClose, closed, missed>>
  BY DEF HourlyTick
<1>2. PICK n \in 1..(MaxTicks + 1) : due' = due + n * Hour
  BY DEF HourlyTick
<1>3. due' \in Nat
  <2>1. n \in Nat /\ due \in Nat /\ Hour \in Nat
    BY <1>2, SnapshotsAssumption DEF TaskInv, ScheduledTypeOK
  <2> QED BY <1>2, <2>1
<1>4. ScheduledTypeOK'
  BY <1>1, <1>3 DEF TaskInv, ScheduledTypeOK
<1>5. Schedule'
  <2>1. NotCounting' <=> NotCounting
    BY <1>1 DEF NotCounting
  <2>2. BeforeClosing => BeforeClosing'
    BY <1>1, <2>1 DEF BeforeClosing, StopAt, CloseAt
  <2>3. AfterClosing => AfterClosing'
    BY <1>1 DEF AfterClosing, Counted, StopAt, Idle
  <2> QED BY <1>1, <2>1, <2>2, <2>3 DEF TaskInv, Schedule
<1> QED BY <1>4, <1>5 DEF TaskInv

LEMMA TaskIsAsked == ASSUME TaskInv, NEW c \in TakeCommand, Request(c) PROVE TaskInv'
<1>1. /\ loop = "on" /\ cmds' = Append(cmds, c)
      /\ UNCHANGED <<active, loop, due, queue, onClose, closed, missed>>
  BY DEF Request
<1>2. cmds \in Seq(TakeCommand) /\ cmds \in Seq(Command) /\ c \in Command
  BY <1>1, CommandsAre DEF TaskInv, Schedule, ScheduledTypeOK
<1>3. cmds' \in Seq(TakeCommand) /\ cmds' \in Seq(Command)
  BY <1>1, <1>2, AppendProperties
<1>4. ScheduledTypeOK'
  BY <1>1, <1>3 DEF TaskInv, ScheduledTypeOK
<1>5. Schedule'
  BY <1>1, <1>3 DEF TaskInv, Schedule, NotCounting
<1> QED BY <1>4, <1>5 DEF TaskInv

LEMMA TaskCloses == ASSUME TaskInv, CloseProject PROVE TaskInv'
<1>1. /\ loop = "on" /\ cmds' = cmds \o Closing /\ loop' = "closing"
      /\ UNCHANGED <<active, due, queue, onClose, closed, missed>>
  BY DEF CloseProject
<1>2. /\ cmds \in Seq(TakeCommand) /\ cmds \in Seq(Command) /\ NotCounting
      /\ Len(cmds) \in Nat
  BY <1>1 DEF TaskInv, Schedule, ScheduledTypeOK
<1>3. /\ Closing \in Seq(Command) /\ Len(Closing) = 2
      /\ Closing[1] = [does |-> "close"] /\ Closing[2] = [does |-> "stop"]
  BY CommandsAre DEF Closing
<1>4. /\ cmds' \in Seq(Command) /\ Len(cmds') = Len(cmds) + 2
      /\ \A i \in 1..(Len(cmds) + 2) :
            cmds'[i] = IF i <= Len(cmds) THEN cmds[i] ELSE Closing[i - Len(cmds)]
  <2>1. /\ cmds \o Closing \in Seq(Command)
        /\ Len(cmds \o Closing) = Len(cmds) + Len(Closing)
        /\ \A i \in 1..(Len(cmds) + Len(Closing)) :
              (cmds \o Closing)[i] = IF i <= Len(cmds) THEN cmds[i] ELSE Closing[i - Len(cmds)]
    BY <1>2, <1>3, ConcatProperties
  <2> QED BY <1>1, <1>3, <2>1
<1>5. \A i \in 1..Len(cmds) : cmds'[i] = cmds[i] /\ cmds[i] \in TakeCommand
  BY <1>2, <1>4
<1>6. cmds'[Len(cmds) + 1] = [does |-> "close"]
  <2>1. Len(cmds) + 1 \in 1..(Len(cmds) + 2) /\ ~(Len(cmds) + 1 <= Len(cmds))
        /\ Len(cmds) + 1 - Len(cmds) = 1
    BY <1>2
  <2> QED BY <1>3, <1>4, <2>1
<1>7. cmds'[Len(cmds) + 2] = [does |-> "stop"]
  <2>1. Len(cmds) + 2 \in 1..(Len(cmds) + 2) /\ ~(Len(cmds) + 2 <= Len(cmds))
        /\ Len(cmds) + 2 - Len(cmds) = 2
    BY <1>2
  <2> QED BY <1>3, <1>4, <2>1
<1>8. BeforeClosing'
  <2>1. Len(cmds') - 2 = Len(cmds) /\ Len(cmds') - 1 = Len(cmds) + 1 /\ Len(cmds') >= 2
    BY <1>2, <1>4
  <2>2. NotCounting'
    BY <1>1, <1>2 DEF NotCounting
  <2> QED BY <1>4, <1>5, <1>6, <1>7, <2>1, <2>2 DEF BeforeClosing, CloseAt, StopAt
<1>9. ScheduledTypeOK'
  BY <1>1, <1>4 DEF TaskInv, ScheduledTypeOK
<1>10. Schedule'
  BY <1>1, <1>8 DEF Schedule
<1> QED BY <1>9, <1>10 DEF TaskInv

LEMMA TailIs ==
    ASSUME NEW S, NEW s \in Seq(S), s # <<>>
    PROVE  /\ Tail(s) \in Seq(S) /\ Len(Tail(s)) = Len(s) - 1 /\ Len(s) \in Nat /\ Len(s) >= 1
           /\ \A i \in 1..(Len(s) - 1) : Tail(s)[i] = s[i + 1]
           /\ Head(s) = s[1] /\ Head(s) \in S
OBVIOUS

LEMMA TaskReceives == ASSUME TaskInv, Receive PROVE TaskInv'
<1> DEFINE c == Head(cmds)
<1>1. /\ Running /\ queue = {} /\ cmds # <<>> /\ cmds' = Tail(cmds)
      /\ UNCHANGED <<active, due, closed, missed>>
  BY DEF Receive, Idle
<1>2. /\ cmds' \in Seq(Command) /\ Len(cmds') = Len(cmds) - 1 /\ Len(cmds) \in Nat /\ Len(cmds) >= 1
      /\ \A i \in 1..(Len(cmds) - 1) : cmds'[i] = cmds[i + 1]
      /\ c = cmds[1] /\ c \in Command
  BY <1>1, TailIs DEF TaskInv, ScheduledTypeOK
<1> HIDE DEF c
<1>3. \/ c.does = "take" /\ queue' = {c.scene} \cap active /\ UNCHANGED <<loop, onClose>>
      \/ c.does = "close" /\ queue' = active /\ onClose' = (active # {}) /\ UNCHANGED loop
      \/ c.does = "stop" /\ loop' = "ended" /\ UNCHANGED <<queue, onClose>>
  BY DEF Receive, c
<1>4. ScheduledTypeOK'
  BY <1>1, <1>2, <1>3 DEF TaskInv, ScheduledTypeOK
<1>5. loop = "on" \/ loop = "closing"
  BY <1>1 DEF Running
<1>6. CASE loop = "on"
  <2>1. cmds \in Seq(TakeCommand)
    BY <1>6 DEF TaskInv, Schedule
  <2>2. cmds' \in Seq(TakeCommand) /\ c \in TakeCommand
    BY <1>1, <2>1, TailIs DEF c
  <2>3. c.does = "take"
    BY <2>2 DEF TakeCommand
  <2>4. NotCounting' /\ loop' = "on"
    BY <1>1, <1>3, <1>6, <2>3 DEF TaskInv, Schedule, NotCounting
  <2>5. Schedule'
    BY <2>2, <2>4 DEF Schedule
  <2> QED BY <1>4, <2>5 DEF TaskInv
<1>7. CASE loop = "closing" /\ BeforeClosing /\ Len(cmds) = 2
  <2>1. c = [does |-> "close"] /\ cmds'[1] = [does |-> "stop"] /\ Len(cmds') = 1
    <3>1. Len(cmds) - 1 = 1 /\ 1 \in 1..(Len(cmds) - 1) /\ 1 + 1 = 2
      BY <1>7
    <3> QED BY <1>2, <1>7, <3>1 DEF BeforeClosing, CloseAt, StopAt
  <2>2. c.does = "close"
    BY <2>1
  <2>3. queue' = active /\ onClose' = (active # {}) /\ loop' = "closing"
    BY <1>3, <1>7, <2>2
  <2>4. closed' = {} /\ missed' = {} /\ active' = active
    BY <1>1, <1>7 DEF BeforeClosing, NotCounting
  <2>5. Counted' /\ (onClose' => queue' # {})
    BY <2>3, <2>4 DEF Counted
  <2>6. AfterClosing'
    BY <2>1, <2>5 DEF AfterClosing, StopAt
  <2>7. Schedule'
    BY <2>3, <2>6 DEF Schedule
  <2> QED BY <1>4, <2>7 DEF TaskInv
<1>8. CASE loop = "closing" /\ BeforeClosing /\ Len(cmds) # 2
  <2>1. Len(cmds) - 2 \in Nat /\ Len(cmds) - 2 >= 1 /\ Len(cmds) >= 3
    BY <1>2, <1>8 DEF BeforeClosing
  <2>2. c \in TakeCommand
    <3>1. 1 \in 1..(Len(cmds) - 2)
      BY <2>1
    <3> QED BY <1>2, <1>8, <3>1 DEF BeforeClosing
  <2>3. c.does = "take"
    BY <2>2 DEF TakeCommand
  <2>4. loop' = "closing" /\ NotCounting'
    BY <1>1, <1>3, <1>8, <2>3 DEF BeforeClosing, NotCounting
  <2>5. ASSUME NEW i \in 1..(Len(cmds') - 2) PROVE cmds'[i] \in TakeCommand
    <3>1. i \in 1..(Len(cmds) - 1) /\ i + 1 \in 1..(Len(cmds) - 2)
      BY <1>2, <2>1
    <3> QED BY <1>2, <1>8, <3>1 DEF BeforeClosing
  <2>6. cmds'[Len(cmds') - 1] = [does |-> "close"]
    <3>1. Len(cmds') - 1 = Len(cmds) - 2 /\ Len(cmds) - 2 \in 1..(Len(cmds) - 1)
          /\ Len(cmds) - 2 + 1 = Len(cmds) - 1
      BY <1>2, <2>1
    <3> QED BY <1>2, <1>8, <3>1 DEF BeforeClosing, CloseAt
  <2>7. cmds'[Len(cmds')] = [does |-> "stop"]
    <3>1. Len(cmds') = Len(cmds) - 1 /\ Len(cmds) - 1 \in 1..(Len(cmds) - 1)
          /\ Len(cmds) - 1 + 1 = Len(cmds)
      BY <1>2, <2>1
    <3> QED BY <1>2, <1>8, <3>1 DEF BeforeClosing, StopAt
  <2>8. Len(cmds') >= 2
    BY <1>2, <2>1
  <2>9. BeforeClosing'
    BY <2>4, <2>5, <2>6, <2>7, <2>8 DEF BeforeClosing, CloseAt, StopAt
  <2>10. Schedule'
    BY <2>4, <2>9 DEF Schedule
  <2> QED BY <1>4, <2>10 DEF TaskInv
<1>9. CASE loop = "closing" /\ AfterClosing
  <2>1. c = [does |-> "stop"]
    BY <1>2, <1>9 DEF AfterClosing, StopAt
  <2>2. c.does = "stop"
    BY <2>1
  <2>3. loop' = "ended" /\ active' = active /\ closed' = closed /\ missed' = missed
    BY <1>1, <1>3, <2>2
  <2>4. active = closed \cup missed
    BY <1>1, <1>9 DEF AfterClosing, Counted
  <2>5. Schedule'
    BY <2>3, <2>4 DEF Schedule
  <2> QED BY <1>4, <2>5 DEF TaskInv
<1> QED BY <1>5, <1>6, <1>7, <1>8, <1>9 DEF TaskInv, Schedule

LEMMA TaskServes ==
    ASSUME TaskInv, NEW s \in SceneFile, Served(s),
           \/ /\ closed' = IF onClose THEN closed \cup {s} ELSE closed
              /\ UNCHANGED missed
           \/ /\ missed' = IF onClose THEN missed \cup {s} ELSE missed
              /\ UNCHANGED closed
    PROVE  TaskInv'
<1>1. /\ Running /\ s \in queue /\ queue' = queue \ {s}
      /\ onClose' = (onClose /\ queue' # {})
      /\ UNCHANGED <<active, cmds, loop, due>>
  BY DEF Served
<1>2. ScheduledTypeOK'
  BY <1>1 DEF TaskInv, ScheduledTypeOK
<1>3. loop' \in {"on", "closing"}
  BY <1>1 DEF Running
<1>4. NotCounting => NotCounting'
  BY <1>1 DEF NotCounting
<1>5. BeforeClosing => BeforeClosing'
  BY <1>1, <1>4 DEF BeforeClosing, CloseAt, StopAt
<1>6. ASSUME AfterClosing PROVE AfterClosing'
  <2>1. Counted'
    <3>1. CASE onClose
      <4>1. active = closed \cup missed \cup queue
        BY <1>6, <3>1 DEF AfterClosing, Counted
      <4>2. closed' \cup missed' = closed \cup missed \cup {s}
        BY <3>1
      <4>3. active = closed' \cup missed' \cup queue'
        BY <1>1, <4>1, <4>2
      <4>4. CASE queue' = {}
        BY <1>1, <4>3, <4>4 DEF Counted
      <4>5. CASE queue' # {}
        BY <1>1, <3>1, <4>3, <4>5 DEF Counted
      <4> QED BY <4>4, <4>5
    <3>2. CASE ~onClose
      <4>1. active = closed \cup missed
        BY <1>6, <3>2 DEF AfterClosing, Counted
      <4>2. closed' = closed /\ missed' = missed /\ ~onClose'
        BY <1>1, <3>2
      <4> QED BY <1>1, <4>1, <4>2 DEF Counted
    <3> QED BY <3>1, <3>2
  <2> QED BY <1>1, <1>6, <2>1 DEF AfterClosing, StopAt
<1>7. Schedule'
  BY <1>1, <1>3, <1>4, <1>5, <1>6 DEF TaskInv, Schedule
<1> QED BY <1>2, <1>7 DEF TaskInv

-----------------------------------------------------------------------------
SnapInv == StoreInv /\ TaskInv

LEMMA SnapsStart == SnapInit => SnapInv
<1> SUFFICES ASSUME SnapInit PROVE SnapInv
  OBVIOUS
<1>1. StoredTypeOK
  BY SnapshotsAssumption DEF SnapInit, StoredTypeOK, Held
<1>2. Library
  BY DEF SnapInit, Library, Numbered, AllFollowed
<1>3. cmds \in Seq(Command)
  BY DEF SnapInit
<1>4. ScheduledTypeOK
  BY <1>3 DEF SnapInit, ScheduledTypeOK
<1>5. Schedule
  BY DEF SnapInit, Schedule, NotCounting
<1> QED BY <1>1, <1>2, <1>4, <1>5 DEF SnapInv, StoreInv, TaskInv

LEMMA StorePreserves ==
    ASSUME StoreInv, NEW s \in SceneFile, Preserved(s), UNCHANGED tick,
           draft' \in [SceneFile -> Held \cup {Gone}]
    PROVE  StoreInv'
<1>1. CASE Readable(s)
  BY <1>1, StoreGrows DEF Preserved
<1>2. CASE ~Readable(s)
  BY <1>2, StoreRests DEF Preserved
<1> QED BY <1>1, <1>2

LEMMA SnapsStep == ASSUME SnapInv, [SnapNext]_snapVars PROVE SnapInv'
<1>1. StoreInv /\ TaskInv /\ tick \in Nat
  BY SnapshotsAssumption DEF SnapInv, StoreInv, StoredTypeOK
<1>2. /\ draft \in [SceneFile -> Held \cup {Gone}]
      /\ \A s \in SceneFile, d \in Held \cup {Gone} :
            [draft EXCEPT ![s] = d] \in [SceneFile -> Held \cup {Gone}]
      /\ \A a \in archive : a.text \in Held
      /\ \A r \in snap : r.scene \in SceneFile
      /\ Torn \in Held /\ Draft \subseteq Held
  BY <1>1 DEF StoreInv, StoredTypeOK, Snapshot, Held
<1>3. ASSUME UNCHANGED <<tick, stored>> PROVE StoreInv'
  <2>1. UNCHANGED <<tick, snap, archive, snaps, everTaken>> /\ UNCHANGED draft
    BY <1>3 DEF stored
  <2>2. draft' \in [SceneFile -> Held \cup {Gone}]
    BY <1>2, <2>1
  <2> QED BY <1>1, <2>1, <2>2, StoreRests
<1>4. CASE UNCHANGED snapVars
  BY <1>1, <1>3, <1>4, TaskRests DEF snapVars, stored, scheduled, SnapInv
<1>5. CASE Spawn
  <2>1. UNCHANGED <<tick, stored>>
    BY <1>5 DEF Spawn
  <2> QED BY <1>1, <1>3, <1>5, <2>1, TaskStarts DEF SnapInv
<1>6. CASE HourlyTick
  <2>1. UNCHANGED <<tick, stored>>
    BY <1>6 DEF HourlyTick
  <2> QED BY <1>1, <1>3, <1>6, <2>1, TaskTicks DEF SnapInv
<1>7. CASE Receive
  <2>1. UNCHANGED <<tick, stored>>
    BY <1>7 DEF Receive
  <2> QED BY <1>1, <1>3, <1>7, <2>1, TaskReceives DEF SnapInv
<1>8. CASE CloseProject
  <2>1. UNCHANGED <<tick, stored>>
    BY <1>8 DEF CloseProject
  <2> QED BY <1>1, <1>3, <1>8, <2>1, TaskCloses DEF SnapInv
<1>9. CASE ProcessEnds
  <2>1. UNCHANGED <<tick, stored>> /\ Ended
    BY <1>9 DEF ProcessEnds, Ended
  <2> QED BY <1>3, <2>1, TaskEnds DEF SnapInv
<1>10. CASE TimePasses
  <2>1. UNCHANGED scheduled
    BY <1>10 DEF TimePasses
  <2> QED BY <1>1, <1>10, <2>1, StoreAges, TaskRests DEF SnapInv
<1>11. ASSUME NEW s \in SceneFile, Register(s) PROVE SnapInv'
  <2>1. UNCHANGED <<tick, stored>>
    BY <1>11 DEF Register
  <2> QED BY <1>1, <1>3, <1>11, <2>1, TaskRegisters DEF SnapInv
<1>12. ASSUME NEW s \in SceneFile, TakeNext(s) PROVE SnapInv'
  <2>1. Served(s) /\ TakeOne(s) /\ UNCHANGED tick /\ UNCHANGED missed
        /\ closed' = IF onClose THEN closed \cup {s} ELSE closed
    BY <1>12 DEF TakeNext, Served
  <2> QED BY <1>1, <2>1, StoreIsTaken, TaskServes DEF SnapInv
<1>13. ASSUME NEW s \in SceneFile, TakeFails(s) PROVE SnapInv'
  <2>1. Served(s) /\ UNCHANGED <<tick, stored>> /\ UNCHANGED closed
        /\ missed' = IF onClose THEN missed \cup {s} ELSE missed
    BY <1>13 DEF TakeFails, Served
  <2> QED BY <1>1, <1>3, <2>1, TaskServes DEF SnapInv
<1>14. ASSUME NEW s \in SceneFile, ProcessEndsInTake(s) PROVE SnapInv'
  <2>1. TakeOneIsCut(s) /\ Ended /\ UNCHANGED tick
    BY <1>14 DEF ProcessEndsInTake, Ended
  <2> QED BY <1>1, <2>1, StoreIsCut, TaskEnds DEF SnapInv
<1>15. ASSUME NEW s \in SceneFile, NEW d \in Draft \cup {Gone}, EditDraft(s, d) PROVE SnapInv'
  <2>1. /\ draft' = [draft EXCEPT ![s] = d]
        /\ UNCHANGED <<tick, snap, archive, snaps, everTaken>> /\ UNCHANGED scheduled
    BY <1>15 DEF EditDraft
  <2>2. draft' \in [SceneFile -> Held \cup {Gone}]
    BY <1>2, <2>1
  <2> QED BY <1>1, <2>1, <2>2, StoreRests, TaskRests DEF SnapInv
<1>16. ASSUME NEW c \in TakeCommand, Request(c) PROVE SnapInv'
  <2>1. UNCHANGED <<tick, stored>>
    BY <1>16 DEF Request
  <2> QED BY <1>1, <1>3, <1>16, <2>1, TaskIsAsked DEF SnapInv
<1>17. ASSUME NEW r \in snap, Restore(r) PROVE SnapInv'
  <2>1. PICK a \in archive : /\ Preserved(r.scene)
                             /\ draft' = [draft EXCEPT ![r.scene] = a.text]
                             /\ UNCHANGED <<tick, scheduled>>
    BY <1>17 DEF Restore
  <2>2. r.scene \in SceneFile /\ draft' \in [SceneFile -> Held \cup {Gone}]
    BY <1>2, <2>1
  <2>3. StoreInv'
    BY <1>1, <2>1, <2>2, StorePreserves
  <2> QED BY <1>1, <2>1, <2>3, TaskRests DEF SnapInv
<1>18. ASSUME NEW r \in snap, RestoreFails(r) PROVE SnapInv'
  <2>1. Preserved(r.scene) /\ UNCHANGED <<tick, draft, scheduled>>
    BY <1>18 DEF RestoreFails
  <2>2. r.scene \in SceneFile /\ draft' \in [SceneFile -> Held \cup {Gone}]
    BY <1>2, <2>1
  <2>3. StoreInv'
    BY <1>1, <2>1, <2>2, StorePreserves
  <2> QED BY <1>1, <2>1, <2>3, TaskRests DEF SnapInv
<1>19. ASSUME NEW r \in snap, ProcessEndsInRestore(r) PROVE SnapInv'
  <2>1. Preserved(r.scene) /\ draft' = [draft EXCEPT ![r.scene] = Torn] /\ Ended /\ UNCHANGED tick
    BY <1>19 DEF ProcessEndsInRestore, Ended
  <2>2. r.scene \in SceneFile /\ draft' \in [SceneFile -> Held \cup {Gone}]
    BY <1>2, <2>1
  <2>3. StoreInv'
    BY <1>1, <2>1, <2>2, StorePreserves
  <2> QED BY <2>1, <2>3, TaskEnds DEF SnapInv
<1> QED BY <1>4, <1>5, <1>6, <1>7, <1>8, <1>9, <1>10, <1>11, <1>12, <1>13, <1>14, <1>15,
           <1>16, <1>17, <1>18, <1>19 DEF SnapNext

LEMMA SnapsAreSound == ASSUME SnapInv PROVE SnapTypeOK /\ RetentionKeepsNewest /\ ClosedScenesAreTaken
<1>1. SnapTypeOK
  BY DEF SnapInv, StoreInv, TaskInv, StoredTypeOK, ScheduledTypeOK, SnapTypeOK
<1>2. ClosedScenesAreTaken
  BY DEF SnapInv, TaskInv, Schedule, ClosedScenesAreTaken
<1>3. tick \in Nat /\ \A e \in everTaken : e.at \in Nat
  BY SnapshotsAssumption DEF SnapInv, StoreInv, StoredTypeOK, Snapshot
<1>4. ASSUME NEW e \in everTaken PROVE \E r \in snap : Succeeds(r, e)
  <2>1. PICK r \in snap : Follows(archive, tick, r, e)
    BY DEF SnapInv, StoreInv, Library, AllFollowed
  <2> QED BY <1>3, <2>1, SucceedsIsFollows
<1> QED BY <1>1, <1>2, <1>4 DEF RetentionKeepsNewest

LEMMA RestoresAreReversible ==
    ASSUME NEW r \in snap, Restore(r) \/ ProcessEndsInRestore(r), Readable(r.scene)
    PROVE  \E q \in snap', a \in archive' :
              q.scene = r.scene /\ a.id = q.id /\ a.text = draft[r.scene]
<1>1. Take(r.scene)
  BY DEF Restore, ProcessEndsInRestore, Preserved
<1>2. NewSnap(r.scene) \in snap' /\ NewFile(r.scene) \in archive'
  BY <1>1 DEF Take
<1>3. /\ NewSnap(r.scene).scene = r.scene /\ NewFile(r.scene).id = NewSnap(r.scene).id
      /\ NewFile(r.scene).text = draft[r.scene]
  BY DEF NewSnap, NewFile
<1> QED BY <1>2, <1>3

(* Retention, restore and close leave no text behind that no snapshot      *)
(* holds or succeeds (SnapshotStore::prune and restore, take_one, the loop *)
(* of the scheduler), wherever the process ended in between.               *)
THEOREM TextsAreRecoverable == SnapSpec => TextsStayRecoverable
<1>1. SnapInv /\ [SnapNext]_snapVars => SnapInv'
  BY SnapsStep
<1>2. SnapInv => SnapTypeOK /\ RetentionKeepsNewest /\ ClosedScenesAreTaken
  BY SnapsAreSound
<1>3. [SnapNext]_snapVars =>
        [\A r \in snap :
          (Restore(r) \/ ProcessEndsInRestore(r)) /\ Readable(r.scene) =>
             \E q \in snap', a \in archive' :
                q.scene = r.scene /\ a.id = q.id /\ a.text = draft[r.scene]]_snapVars
  BY RestoresAreReversible
<1> QED BY <1>1, <1>2, <1>3, SnapsStart, PTL
     DEF SnapSpec, TextsStayRecoverable, RestoreIsReversible
=============================================================================
