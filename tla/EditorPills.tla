---------------------------- MODULE EditorPills ----------------------------
(***************************************************************************)
(* The editor's diagnostic pills of one scene: the autosave of the canvas  *)
(* that asks for a scan (EditorCanvas.tsx), the scan and its rows          *)
(* (commands/editor_pill.rs, editor/store.rs), and the polish of a         *)
(* paragraph by the language model (on_editor_polish).  A scan carries     *)
(* the blocks as they were when it was asked for; the rows it meets may    *)
(* come from a later text, from a dismissal or from a polish of a block    *)
(* that is gone.  Every command holds the database for all of its          *)
(* statements, so it is one step here, however it ends: the findings of a  *)
(* scan are one transaction, which is rolled back when a statement of it   *)
(* fails, and the rows of other blocks are dropped after it or stay.       *)
(***************************************************************************)
EXTENDS Naturals, FiniteSets

CONSTANTS Block,        \* the blocks the writer may have in the scene
          Text,         \* what may stand in one
          FindingsOf,   \* the findings of each text
          Long,         \* the texts of 25 words and more
          Remark,       \* what the model may say of a paragraph
          Absent,       \* a block that is not in the scene
          Never,        \* a block that was not polished yet
          PolishCap,    \* POLISH_PASS_CAP_PER_SCENE
          PolishRest,   \* POLISH_PER_BLOCK_COOLDOWN_SECS
          MaxRows,      \* bound on the rows ever made
          MaxHours,     \* bound on the clock
          MaxSaves      \* bound on the autosaves

ASSUME EditorAssumption ==
    /\ Absent \notin Text /\ Long \subseteq Text /\ Never \notin Nat
    /\ FindingsOf \in [Text -> SUBSET UNION {FindingsOf[t] : t \in Text}]
    /\ (UNION {FindingsOf[t] : t \in Text}) \cap Remark = {}
    /\ IsFiniteSet(Block) /\ IsFiniteSet(UNION {FindingsOf[t] : t \in Text})
    /\ PolishCap \in Nat /\ PolishRest \in Nat
    /\ MaxRows \in Nat /\ MaxHours \in Nat /\ MaxSaves \in Nat

Finding == UNION {FindingsOf[t] : t \in Text}
Scene   == [Block -> Text \cup {Absent}]
Blocks(scene) == {b \in Block : scene[b] # Absent}

VARIABLES scene,        \* the blocks as the writer sees them
          dirty,        \* they differ from the last save
          saves,        \* the autosaves so far
          scan,         \* the scans on their way to the database
          rowed,        \* the rows of editor_pill
          lastId,       \* the last id given to a row
          request,      \* polish requests in the inbox of the service
          polishing,    \* paragraphs the model was asked about
          passes,       \* polish_pass_counts of the scene
          polishedAt,   \* polish_last_at of each block
          hour,         \* the clock
          asksMade      \* history: how often the model was asked

editorVars == <<scene, dirty, saves, scan, rowed, lastId, request, polishing,
                passes, polishedAt, hour, asksMade>>
writing == <<scene, dirty, saves, scan>>
polish  == <<request, polishing, passes, polishedAt, asksMade>>

Paragraph == [block : Block, text : Text]
Row == [id : 1..MaxRows, block : Block, says : Finding \cup Remark, dismissed : BOOLEAN]

EditorTypeOK ==
    /\ scene \in Scene /\ dirty \in BOOLEAN /\ saves \in 0..MaxSaves
    /\ scan \subseteq Scene
    /\ rowed \subseteq Row /\ lastId \in 0..MaxRows
    /\ request \subseteq Paragraph /\ polishing \subseteq Paragraph
    /\ passes \in 0..PolishCap
    /\ polishedAt \in [Block -> (0..MaxHours) \cup {Never}]
    /\ hour \in 0..MaxHours
    /\ asksMade \in Nat

EditorInit ==
    /\ scene = [b \in Block |-> Absent]
    /\ dirty = FALSE /\ saves = 0
    /\ scan = {}
    /\ rowed = {} /\ lastId = 0
    /\ request = {} /\ polishing = {}
    /\ passes = 0
    /\ polishedAt = [b \in Block |-> Never]
    /\ hour = 0
    /\ asksMade = 0

-----------------------------------------------------------------------------
EditBlock(b, t) ==
    /\ scene[b] # t
    /\ scene' = [scene EXCEPT ![b] = t]
    /\ dirty' = TRUE
    /\ UNCHANGED <<saves, scan, rowed, lastId, hour, polish>>

(* The save has landed.  Marking the body clean runs the effect anew and   *)
(* cancels the rest of this one; whether that rest gets as far as the scan *)
(* depends on which comes first, the render or the answers it awaits.  It  *)
(* then asks for a polish of every paragraph of some length.               *)
Autosave ==
    /\ dirty /\ saves < MaxSaves
    /\ dirty' = FALSE
    /\ saves' = saves + 1
    /\ UNCHANGED <<scene, rowed, lastId, polishing, passes, polishedAt, asksMade, hour>>

AutosaveScans ==
    /\ Autosave
    /\ Blocks(scene) # {}
    /\ scan' = scan \cup {scene}
    /\ request' = request \cup
          {[block |-> b, text |-> scene[b]] : b \in {c \in Blocks(scene) : scene[c] \in Long}}

AutosaveIsCancelled == Autosave /\ UNCHANGED <<scan, request>>

-----------------------------------------------------------------------------
Active == {r \in rowed : ~r.dismissed}
On(b, says) == {r \in Active : r.block = b /\ r.says = says}

(* upsert_one looks for an active row of the same finding and refreshes    *)
(* it; where it finds none, it inserts a new one.                          *)
Missing(s) == {f \in {[block |-> b, says |-> x] : b \in Block, x \in Finding} :
                  /\ f.block \in Blocks(s)
                  /\ f.says \in FindingsOf[s[f.block]]
                  /\ On(f.block, f.says) = {}}

KeptWhenRefreshed(rows, s) == rows      \* a scan that cleans nothing up

(* cleanup_orphaned_blocks, dismissed rows included. *)
Kept(rows, s) == {r \in rows : r.block \in Blocks(s)}

NewRow(i, f) == [id |-> i, block |-> f.block, says |-> f.says, dismissed |-> FALSE]

(* The order of the inserts is that of the blocks in the payload.          *)
Orders(s) == {order \in [1..Cardinality(Missing(s)) -> Missing(s)] :
                \A f \in Missing(s) : \E i \in DOMAIN order : order[i] = f}

(* run_and_upsert: what the table may be after the transaction.            *)
Upserted(s) == {rowed \cup {NewRow(lastId + i, order[i]) : i \in DOMAIN order} :
                  order \in Orders(s)}

ScanCommits(s) ==
    /\ lastId + Cardinality(Missing(s)) <= MaxRows
    /\ lastId' = lastId + Cardinality(Missing(s))
    /\ scan' = scan \ {s}
    /\ UNCHANGED <<scene, dirty, saves, hour, polish>>

(* editor_pills_run: upsert every finding of the scan, then drop the rows  *)
(* of blocks that were not in it.                                          *)
RunScan(s) ==
    /\ ScanCommits(s)
    /\ \E rows \in Upserted(s) : rowed' = Kept(rows, s)

(* The findings are committed, but reading them back fails and the command *)
(* ends there, or the cleanup fails, of which nobody hears.                *)
RunScanUncleaned(s) ==
    /\ ScanCommits(s)
    /\ rowed' \in Upserted(s)

ScanFails(s) ==
    /\ scan' = scan \ {s}
    /\ UNCHANGED <<scene, dirty, saves, rowed, lastId, hour, polish>>

(* editor_pill_dismiss flags the row; nothing looks at flagged rows again. *)
Dismiss(r) ==
    /\ rowed' = (rowed \ {r}) \cup {[r EXCEPT !.dismissed = TRUE]}
    /\ UNCHANGED <<writing, lastId, hour, polish>>

-----------------------------------------------------------------------------
(* on_editor_polish: the cap of the scene, the rest of the block, and the  *)
(* slot taken before the model is asked, for good.                         *)
Rested(b) == polishedAt[b] # Never => hour - polishedAt[b] >= PolishRest
Allowed(b) == passes < PolishCap /\ Rested(b)

TakeSlotOnce(b) ==       \* a rest that starts with the first polish
    /\ passes' = passes + 1
    /\ polishedAt' = [polishedAt EXCEPT ![b] = IF @ = Never THEN hour ELSE @]

TakeSlot(b) ==
    /\ passes' = passes + 1
    /\ polishedAt' = [polishedAt EXCEPT ![b] = hour]

Polish(q) ==
    /\ request' = request \ {q}
    /\ \/ /\ Allowed(q.block)
          /\ TakeSlot(q.block)
          /\ polishing' = polishing \cup {q}
          /\ asksMade' = asksMade + 1
       \/ /\ ~Allowed(q.block)
          /\ UNCHANGED <<polishing, passes, polishedAt, asksMade>>
    /\ UNCHANGED <<writing, rowed, lastId, hour>>

PolishUnavailable(q) ==  \* no persona, no prompt or no router: no slot taken
    /\ request' = request \ {q}
    /\ UNCHANGED <<writing, rowed, lastId, hour, polishing, passes, polishedAt, asksMade>>

(* insert_polish writes a remark once, as long as it is not dismissed.     *)
Remarks(q, says) ==
    /\ polishing' = polishing \ {q}
    /\ IF On(q.block, says) # {}
       THEN UNCHANGED <<rowed, lastId>>
       ELSE /\ lastId < MaxRows
            /\ lastId' = lastId + 1
            /\ rowed' = rowed \cup {NewRow(lastId + 1, [block |-> q.block, says |-> says])}
    /\ UNCHANGED <<writing, hour, request, passes, polishedAt, asksMade>>

StaysSilent(q) ==        \* PASS, an empty answer, an error
    /\ polishing' = polishing \ {q}
    /\ UNCHANGED <<writing, rowed, lastId, hour, request, passes, polishedAt, asksMade>>

HourPasses ==
    /\ hour < MaxHours
    /\ hour' = hour + 1
    /\ UNCHANGED <<writing, rowed, lastId, polish>>

EditorNext ==
    \/ \E b \in Block, t \in Text \cup {Absent} : EditBlock(b, t)
    \/ AutosaveScans \/ AutosaveIsCancelled
    \/ \E s \in scan : RunScan(s) \/ RunScanUncleaned(s) \/ ScanFails(s)
    \/ \E r \in Active : Dismiss(r)
    \/ \E q \in request : Polish(q) \/ PolishUnavailable(q)
    \/ \E q \in polishing : StaysSilent(q) \/ \E says \in Remark : Remarks(q, says)
    \/ HourPasses

EditorSpec == EditorInit /\ [][EditorNext]_editorVars

-----------------------------------------------------------------------------
(* A finding or a remark the writer has not dismissed is shown once per    *)
(* block, however often its text is scanned and polished, and whichever    *)
(* answer comes late (upsert_one, insert_polish).                          *)
OneRowPerFinding ==
    \A q, r \in Active : q.block = r.block /\ q.says = r.says => q = r

(* The model is asked for no more polishes than the cap, also when it      *)
(* fails or stays silent (POLISH_PASS_CAP_PER_SCENE).                      *)
PolishIsCapped == asksMade <= PolishCap

(* Between two polishes of a block lies its rest, however many saves ask   *)
(* for one (POLISH_PER_BLOCK_COOLDOWN_SECS).                               *)
PolishesRest ==
    [][\A q \in request :
          asksMade' > asksMade /\ q \notin request' /\ polishedAt[q.block] # Never
             => polishedAt'[q.block] - polishedAt[q.block] >= PolishRest]_editorVars

(* A scan whose findings were committed leaves a row for every finding of  *)
(* the blocks it met and adds none on another block, whatever was written  *)
(* since it was asked for, and whatever fails after the commit; one that   *)
(* ran to its end leaves no row on another block, those included which     *)
(* earlier scans could not clean up (editor_pills_run).                    *)
ScansLeaveTheirFindings ==
    [][\A s \in scan :
          /\ RunScan(s) \/ RunScanUncleaned(s) =>
                /\ \A b \in Blocks(s) : \A f \in FindingsOf[s[b]] :
                      \E r \in rowed' : r.block = b /\ r.says = f /\ ~r.dismissed
                /\ \A r \in rowed' \ rowed : r.block \in Blocks(s)
          /\ RunScan(s) => \A r \in rowed' : r.block \in Blocks(s)]_editorVars

(* The table of the editor's pills holds what the scans found, once, in    *)
(* the order in which scans, polishes and dismissals really ran.           *)
RowsAreKept == [](EditorTypeOK /\ OneRowPerFinding) /\ ScansLeaveTheirFindings

(* The polish of a scene is rationed by a cap and by a rest of each block, *)
(* also where answers are late, empty or missing.                          *)
PolishIsRationed == []PolishIsCapped /\ PolishesRest

(* A finding the writer has dismissed does not come back: "re-firing won't *)
(* resurface what the writer already silenced" (editor/store.rs).          *)
DismissedStaysSilent ==
    \A q \in rowed : q.dismissed =>
       ~\E r \in Active : r.block = q.block /\ r.says = q.says
=============================================================================
