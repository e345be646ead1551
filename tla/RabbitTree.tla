----------------------------- MODULE RabbitTree -----------------------------
(***************************************************************************)
(* The rabbit hole: table rabbit_thought of project.db and RabbitStore,    *)
(* which plants roots, fans children out, marks thoughts as resonant and   *)
(* trims the table when a project is opened (rabbit.rs).                   *)
(*                                                                         *)
(* The trim is one transaction of many statements; everything else is one  *)
(* statement or one transaction under the database mutex, and atomic here. *)
(* A failed statement ends the trim without a ROLLBACK: unless SQLite has  *)
(* rolled back by itself, the transaction stays open and later statements  *)
(* of that connection run inside it.                                       *)
(***************************************************************************)
EXTENDS Naturals, FiniteSets, FiniteSetsExt, Functions

CONSTANTS
    MaxThoughts,    \* bound: thoughts ever inserted
    MaxFan,         \* bound: children of one answer
    MaxRows,        \* RabbitCaps::max_rows
    MaxBytes,       \* RabbitCaps::max_bytes
    Bytes,          \* the size of every thought's message
    Message,        \* what a root says
    None

Thought == 1 .. MaxThoughts

(* created_at: the children of one answer are equally old.                 *)
Row == [parent: Thought \cup {None}, depth: Nat, resonance: BOOLEAN,
        created: Thought, message: Message \cup {None}]

IsTable(R) == DOMAIN R \subseteq Thought /\ R \in [DOMAIN R -> Row]

ASSUME RabbitAssumption ==
    /\ MaxThoughts \in Nat /\ MaxFan \in Nat /\ MaxRows \in Nat /\ MaxBytes \in Nat
    /\ Bytes \in [Thought -> Nat]
    /\ None \notin Nat /\ None \notin Message
    /\ \A S \in SUBSET Thought : None \notin [S -> Row]

VARIABLES
    rows,           \* the committed table
    draft,          \* the table inside the open transaction, or None
    spared,         \* what the running trim must not touch, or None
    minted          \* thoughts inserted so far: ids are never used again

treeVars == <<rows, draft, spared, minted>>

TreeInit ==
    /\ rows = [t \in {} |-> None]
    /\ draft = None
    /\ spared = None
    /\ minted = 0

Trimming == spared # None
InTransaction == draft # None

(* What a statement of the project's connection reads and writes.          *)
Seen == IF InTransaction THEN draft ELSE rows

Store(R) ==
    IF InTransaction THEN draft' = R /\ UNCHANGED rows
                     ELSE rows' = R /\ UNCHANGED draft

With(R, ids, row) == [t \in DOMAIN R \cup ids |-> IF t \in ids THEN row ELSE R[t]]

InsertRoot(m) ==
    /\ ~ Trimming /\ minted < MaxThoughts
    /\ Store(With(Seen, {minted + 1},
                  [parent |-> None, depth |-> 0, resonance |-> FALSE,
                   created |-> minted + 1, message |-> m]))
    /\ minted' = minted + 1
    /\ UNCHANGED spared

Fresh(n) == minted + 1 .. minted + n

(* BEGIN fails inside a transaction, so a fan is all there and committed,  *)
(* or is not there.                                                        *)
CanFan(p) == ~ InTransaction /\ p \in DOMAIN rows

(* Mutant: the depth is the parent's.                                      *)
InsertSiblings(p, n) ==
    /\ ~ Trimming /\ CanFan(p) /\ minted + n <= MaxThoughts
    /\ rows' = With(rows, Fresh(n),
                    [parent |-> p, depth |-> rows[p].depth, resonance |-> FALSE,
                     created |-> minted + 1, message |-> None])
    /\ minted' = minted + n
    /\ UNCHANGED <<draft, spared>>

InsertChildren(p, n) ==
    /\ ~ Trimming /\ CanFan(p) /\ minted + n <= MaxThoughts
    /\ rows' = With(rows, Fresh(n),
                    [parent |-> p, depth |-> rows[p].depth + 1, resonance |-> FALSE,
                     created |-> minted + 1, message |-> None])
    /\ minted' = minted + n
    /\ UNCHANGED <<draft, spared>>

(* An UPDATE of a thought that is gone changes nothing.                    *)
SetResonance(t, b) ==
    /\ ~ Trimming
    /\ Store([u \in DOMAIN Seen |->
                IF u = t THEN [Seen[u] EXCEPT !.resonance = b] ELSE Seen[u]])
    /\ UNCHANGED <<spared, minted>>

-----------------------------------------------------------------------------
(* auto_trim.                                                              *)

Over(R) ==
    \/ Cardinality(DOMAIN R) > MaxRows
    \/ MapThenSumSet(LAMBDA t : Bytes[t], DOMAIN R) > MaxBytes

Marked(R) == {t \in DOMAIN R : R[t].resonance}

UpClosed(R, S) == \A t \in S : R[t].parent # None => R[t].parent \in S

(* Every marked thought and all it descends from: the smallest such set.   *)
Protected(R) ==
    {t \in DOMAIN R : \A S \in SUBSET DOMAIN R :
                          Marked(R) \subseteq S /\ UpClosed(R, S) => t \in S}

Leaf(R, t) == t \in DOMAIN R /\ \A u \in DOMAIN R : R[u].parent # t

(* Mutant: a thought with children counts as a leaf.                       *)
TrimmableAnywhere(R) == {t \in DOMAIN R : t \notin spared /\ ~ R[t].resonance}

Trimmable(R) == {t \in DOMAIN R : t \notin spared /\ ~ R[t].resonance /\ Leaf(R, t)}

(* What the second pass would hoist: it runs when no leaf is left to trim. *)
TrimmableInterior(R) ==
    {t \in DOMAIN R : t \notin spared /\ ~ R[t].resonance /\ ~ Leaf(R, t)}

BeginTrim ==
    /\ ~ Trimming /\ ~ InTransaction /\ Over(rows)
    /\ spared' = Protected(rows)
    /\ draft' = rows
    /\ UNCHANGED <<rows, minted>>

(* Mutant: the caps are not looked at between two thoughts.                *)
TrimLeafEagerly ==
    /\ Trimming
    /\ \E v \in Trimmable(draft) :
         /\ \A u \in Trimmable(draft) : draft[v].created <= draft[u].created
         /\ draft' = Restrict(draft, DOMAIN draft \ {v})
    /\ UNCHANGED <<rows, spared, minted>>

TrimLeaf ==
    /\ Trimming /\ Over(draft)
    /\ \E v \in Trimmable(draft) :
         /\ \A u \in Trimmable(draft) : draft[v].created <= draft[u].created
         /\ draft' = Restrict(draft, DOMAIN draft \ {v})
    /\ UNCHANGED <<rows, spared, minted>>

(* The second pass finds nothing (SecondPassIsIdle), so the trim commits.  *)
CommitTrim ==
    /\ Trimming
    /\ ~ Over(draft) \/ Trimmable(draft) = {}
    /\ rows' = draft
    /\ draft' = None /\ spared' = None
    /\ UNCHANGED minted

FailTrim ==
    /\ Trimming
    /\ spared' = None
    /\ draft' \in {draft, None}
    /\ UNCHANGED <<rows, minted>>

(* The connection ends, with its project or with the process.              *)
Disconnect ==
    /\ draft' = None /\ spared' = None
    /\ UNCHANGED <<rows, minted>>

TreeNext ==
    \/ \E m \in Message : InsertRoot(m)
    \/ \E p \in Thought, n \in 1 .. MaxFan : InsertChildren(p, n)
    \/ \E t \in Thought, b \in BOOLEAN : SetResonance(t, b)
    \/ BeginTrim \/ TrimLeaf \/ CommitTrim \/ FailTrim \/ Disconnect

TreeSpec == TreeInit /\ [][TreeNext]_treeVars

-----------------------------------------------------------------------------
TreeTypeOK ==
    /\ IsTable(rows)
    /\ InTransaction => IsTable(draft)
    /\ spared \in (SUBSET Thought) \cup {None}
    /\ minted \in 0 .. MaxThoughts

Whole(R) ==
    \A t \in DOMAIN R :
        \/ R[t].parent = None /\ R[t].depth = 0
        \/ /\ R[t].parent \in DOMAIN R /\ R[t].parent < t
           /\ R[t].depth = R[R[t].parent].depth + 1

(* Whatever is trimmed, whenever a trim is cut short and whatever runs in  *)
(* a transaction it left open, no thought loses the chain that leads to    *)
(* its root, and depth counts that chain (auto_trim, insert_children).     *)
TreeIsWhole == Whole(rows) /\ (InTransaction => Whole(draft))

(* Only whole branches without a resonant thought leave the table, so a    *)
(* resonant thought and all it descends from stay (compute_protected_set,  *)
(* pick_oldest_leaf).                                                      *)
ResonantChainsStay ==
    [][\A t \in DOMAIN rows \ DOMAIN rows' :
         /\ ~ rows[t].resonance
         /\ \A u \in DOMAIN rows' \cap DOMAIN rows : rows[u].parent # t]_treeVars

(* When no unprotected leaf is left, no unprotected thought is: the second *)
(* pass of auto_trim, with its reparenting, has nothing to do.             *)
SecondPassIsIdle ==
    Trimming /\ Trimmable(draft) = {} => TrimmableInterior(draft) = {}

(* A trim never takes a thought while the table is within its caps: with   *)
(* the last thought it took, the table was still over them.                *)
TrimStopsAtTheCaps ==
    [][Trimming /\ DOMAIN rows' # DOMAIN rows =>
         \E t \in DOMAIN rows \ DOMAIN rows' :
             Over(Restrict(rows, DOMAIN rows' \cup {t}))]_treeVars
=============================================================================
