----------------------------- MODULE Snapshots -----------------------------
(***************************************************************************)
(* The snapshots of the scene files (snapshot.rs) and the task that takes  *)
(* them (snapshot_scheduler.rs).  The scheduler takes one snapshot per     *)
(* registered scene every hour, on request, and when the project closes,   *)
(* and thins out the older ones each time.  Every snapshot is a file and   *)
(* then a row; thinning removes the file and then the row, one row after   *)
(* the other, outside of any transaction: the process may end between any  *)
(* two of these.  The database is held from the first to the last, and the *)
(* scene files are written under it too.                                   *)
(*                                                                         *)
(* A file is known by the id of its row: the names have milliseconds, and  *)
(* no two snapshots of a scene share one here.  Hours, days and weeks are  *)
(* numbers of ticks; the clock never goes back.                            *)
(***************************************************************************)
EXTENDS Naturals, Sequences, FiniteSets

CONSTANTS SceneFile,        \* the scenes of the project
          Draft,        \* what a scene file may hold
          Gone,         \* a scene file that was removed from outside
          Torn,         \* a file the process ended in the middle of writing
          Hour, Day, Week,                 \* their lengths
          AllKept, HoursKept, DaysKept,    \* ages: 24 hours, 7 days, 90 days
          MaxTicks,     \* bound on the clock
          MaxSnaps,     \* bound on the snapshots ever begun
          MaxCmds       \* bound on the commands that wait

ASSUME SnapshotsAssumption ==
    /\ IsFiniteSet(SceneFile) /\ {Gone, Torn} \cap Draft = {}
    /\ Hour \in Nat \ {0} /\ Day \in Nat \ {0} /\ Week \in Nat \ {0}
    /\ Day % Hour = 0 /\ Week % Day = 0
    /\ AllKept \in Nat /\ HoursKept \in Nat /\ DaysKept \in Nat
    /\ AllKept <= HoursKept /\ HoursKept <= DaysKept
    /\ MaxTicks \in Nat /\ MaxSnaps \in Nat /\ MaxCmds \in Nat

VARIABLES tick,         \* the clock
          draft,        \* the scene files
          snap,         \* the rows of snapshot
          archive,      \* the compressed files
          snaps,        \* snapshots begun so far
          active,       \* the registered scenes
          cmds,         \* the channel of the scheduler
          loop,         \* "off", "on", "closing" or "ended"
          due,          \* when the interval fires next
          queue,        \* the scenes still to be taken in this round
          onClose,      \* the round is the one of close_project
          everTaken,    \* history: every row ever written
          closed,       \* history: the scenes taken in it
          missed        \* history: the scenes that failed in it

snapVars  == <<tick, draft, snap, archive, snaps, active, cmds, loop, due, queue,
               onClose, everTaken, closed, missed>>
stored    == <<draft, snap, archive, snaps, everTaken>>
scheduled == <<active, cmds, loop, due, queue, onClose, closed, missed>>

Snapshot == [id : 1..MaxSnaps, scene : SceneFile, at : 0..MaxTicks]
Held == Draft \cup {Torn}
TakeCommand == [does : {"take"}, scene : SceneFile]      \* Manual and PreRestore
Command == TakeCommand \cup [does : {"close", "stop"}]

SnapTypeOK ==
    /\ tick \in 0..MaxTicks
    /\ draft \in [SceneFile -> Held \cup {Gone}]
    /\ snap \subseteq Snapshot /\ everTaken \subseteq Snapshot
    /\ archive \subseteq [id : 1..MaxSnaps, text : Held]
    /\ snaps \in 0..MaxSnaps
    /\ active \subseteq SceneFile /\ closed \subseteq SceneFile /\ missed \subseteq SceneFile
    /\ cmds \in Seq(Command)
    /\ loop \in {"off", "on", "closing", "ended"}
    /\ due \in Nat
    /\ queue \subseteq SceneFile /\ onClose \in BOOLEAN

SnapInit ==
    /\ tick = 0
    /\ draft \in [SceneFile -> Draft]
    /\ snap = {} /\ archive = {} /\ snaps = 0
    /\ active = {} /\ cmds = <<>>
    /\ loop = "off" /\ due = 0
    /\ queue = {} /\ onClose = FALSE
    /\ everTaken = {} /\ closed = {} /\ missed = {}

-----------------------------------------------------------------------------
(* SnapshotStore::prune: the newest of each hour, day or week is kept, the *)
(* last 24 hours as they are.                                              *)
Age(r) == tick - r.at
Bucket(r) ==
    IF Age(r) <= AllKept THEN <<"id", r.id>>
    ELSE IF Age(r) <= HoursKept THEN <<"hour", r.at \div Hour>>
    ELSE IF Age(r) <= DaysKept  THEN <<"day", r.at \div Day>>
    ELSE <<"week", r.at \div Week>>

Newer(q, r) == q.id > r.id       \* the order of SnapshotStore::list

Pruned(rows, s) ==
    {r \in rows : r.scene = s /\ \E q \in rows : /\ q.scene = s
                                                 /\ Bucket(q) = Bucket(r)
                                                 /\ Newer(q, r)}
FilesOf(rows) == {a \in archive : \E r \in rows : r.id = a.id}

Readable(s) == draft[s] # Gone
NewSnap(s) == [id |-> snaps + 1, scene |-> s, at |-> tick]
NewFile(s) == [id |-> snaps + 1, text |-> draft[s]]

Take(s) ==
    /\ Readable(s) /\ snaps < MaxSnaps
    /\ snaps' = snaps + 1
    /\ everTaken' = everTaken \cup {NewSnap(s)}
    /\ snap' = snap \cup {NewSnap(s)}
    /\ archive' = archive \cup {NewFile(s)}

(* take_one: a snapshot and, if it was written, the thinning. *)
TakeOne(s) ==
    /\ Readable(s) /\ snaps < MaxSnaps
    /\ LET rows == snap \cup {NewSnap(s)}
           out  == Pruned(rows, s) IN
       /\ snap' = rows \ out
       /\ archive' = (archive \cup {NewFile(s)}) \ FilesOf(out)
    /\ snaps' = snaps + 1
    /\ everTaken' = everTaken \cup {NewSnap(s)}
    /\ UNCHANGED draft

(* What the end of the process leaves of take_one: the file of the new row *)
(* (or part of it) without the row, or the row and some of the thinning.   *)
TakeOneIsCut(s) ==
    /\ Readable(s) /\ snaps < MaxSnaps
    /\ snaps' = snaps + 1
    /\ UNCHANGED draft
    /\ \/ /\ archive' = archive \cup {[NewFile(s) EXCEPT !.text = Torn]}
          /\ UNCHANGED <<snap, everTaken>>
       \/ LET rows == snap \cup {NewSnap(s)} IN
          \E out \in SUBSET Pruned(rows, s) :
             \E next \in SUBSET (Pruned(rows, s) \ out) :
                /\ \A q \in out, r \in Pruned(rows, s) \ out : r.id < q.id
                /\ \A q \in next, r \in Pruned(rows, s) \ out : r.id <= q.id
                /\ snap' = rows \ out
                /\ archive' = (archive \cup {NewFile(s)}) \ FilesOf(out \cup next)
                /\ everTaken' = everTaken \cup {NewSnap(s)}

-----------------------------------------------------------------------------
(* The task.  Opening the project spawns it and registers the scenes one   *)
(* by one; the interval fires at once, for those registered by then.       *)
Spawn ==
    /\ loop = "off"
    /\ loop' = "on" /\ due' = tick
    /\ UNCHANGED <<tick, stored, active, cmds, queue, onClose, closed, missed>>

Register(s) ==
    /\ loop = "on" /\ s \notin active
    /\ active' = active \cup {s}
    /\ UNCHANGED <<tick, stored, cmds, loop, due, queue, onClose, closed, missed>>

Running == loop \in {"on", "closing"}
Idle == Running /\ queue = {}

HourlyTick ==
    /\ Idle /\ due <= tick
    /\ \E n \in 1..(MaxTicks + 1) :    \* missed ones are skipped
          due' = due + n * Hour /\ due' > tick /\ due' <= tick + Hour
    /\ queue' = active
    /\ UNCHANGED <<tick, stored, active, cmds, loop, onClose, closed, missed>>

Request(c) ==
    /\ loop = "on" /\ Len(cmds) < MaxCmds
    /\ cmds' = Append(cmds, c)
    /\ UNCHANGED <<tick, stored, active, loop, due, queue, onClose, closed, missed>>

(* close_project: on_close and then stop; the project is taken out of the  *)
(* state, so that no one sends anything after them.                        *)
Closing == <<[does |-> "close"], [does |-> "stop"]>>
CloseProject ==
    /\ loop = "on"
    /\ cmds' = cmds \o Closing
    /\ loop' = "closing"
    /\ UNCHANGED <<tick, stored, active, due, queue, onClose, closed, missed>>

Receive ==
    /\ Idle /\ cmds # <<>>
    /\ cmds' = Tail(cmds)
    /\ LET c == Head(cmds) IN
       \/ /\ c.does = "take"
          /\ queue' = {c.scene} \cap active
          /\ UNCHANGED <<loop, onClose>>
       \/ /\ c.does = "close"
          /\ queue' = active /\ onClose' = (active # {})
          /\ UNCHANGED loop
       \/ /\ c.does = "stop"
          /\ loop' = "ended"
          /\ UNCHANGED <<queue, onClose>>
    /\ UNCHANGED <<tick, stored, active, due, closed, missed>>

Served(s) ==              \* one scene of the round less
    /\ Running /\ s \in queue
    /\ queue' = queue \ {s}
    /\ onClose' = (onClose /\ queue' # {})
    /\ UNCHANGED <<tick, active, cmds, loop, due>>

TakeNext(s) ==
    /\ Served(s)
    /\ TakeOne(s)
    /\ closed' = IF onClose THEN closed \cup {s} ELSE closed
    /\ UNCHANGED missed

TakeFails(s) ==           \* the error is dropped
    /\ Served(s)
    /\ missed' = IF onClose THEN missed \cup {s} ELSE missed
    /\ UNCHANGED <<stored, closed>>

(* The process ends: what was queued is forgotten, the rows and files stay *)
(* as they are.                                                            *)
Ended ==
    /\ loop' = "off" /\ active' = {} /\ cmds' = <<>> /\ queue' = {}
    /\ onClose' = FALSE /\ due' = 0 /\ closed' = {} /\ missed' = {}
    /\ UNCHANGED tick

ProcessEnds == loop # "off" /\ Ended /\ UNCHANGED stored
ProcessEndsInTake(s) == Running /\ s \in queue /\ TakeOneIsCut(s) /\ Ended

-----------------------------------------------------------------------------
PreservedNot(s) == UNCHANGED <<snap, archive, snaps, everTaken>>

(* SnapshotStore::restore: a pre-restore snapshot of the file that is      *)
(* there, if there is one, and then the old text in its place.             *)
Preserved(s) ==
    IF Readable(s) THEN Take(s)
                   ELSE UNCHANGED <<snap, archive, snaps, everTaken>>

Restore(r) ==
    \E a \in archive :
       /\ a.id = r.id
       /\ Preserved(r.scene)
       /\ draft' = [draft EXCEPT ![r.scene] = a.text]
       /\ UNCHANGED <<tick, scheduled>>

RestoreFails(r) ==        \* no file: the snapshot is there all the same
    /\ ~\E a \in archive : a.id = r.id
    /\ Preserved(r.scene)
    /\ UNCHANGED <<tick, draft, scheduled>>

ProcessEndsInRestore(r) ==
    \E a \in archive :
       /\ a.id = r.id
       /\ Preserved(r.scene)
       /\ draft' = [draft EXCEPT ![r.scene] = Torn]
       /\ Ended

EditDraft(s, d) ==        \* a save of the scene, or another program
    /\ draft[s] # d
    /\ draft' = [draft EXCEPT ![s] = d]
    /\ UNCHANGED <<tick, snap, archive, snaps, everTaken, scheduled>>

TimePasses ==
    /\ tick < MaxTicks
    /\ tick' = tick + 1
    /\ UNCHANGED <<stored, scheduled>>

SnapNext ==
    \/ Spawn \/ HourlyTick \/ Receive \/ CloseProject \/ ProcessEnds \/ TimePasses
    \/ \E s \in SceneFile :
          \/ Register(s) \/ TakeNext(s) \/ TakeFails(s) \/ ProcessEndsInTake(s)
          \/ \E d \in Draft \cup {Gone} : EditDraft(s, d)
    \/ \E c \in TakeCommand : Request(c)
    \/ \E r \in snap : Restore(r) \/ RestoreFails(r) \/ ProcessEndsInRestore(r)

SnapSpec == SnapInit /\ [][SnapNext]_snapVars

-----------------------------------------------------------------------------
(* However often the snapshots were thinned out, and wherever the process  *)
(* ended in it, each one ever taken still has a successor that can be read:*)
(* itself within 24 hours, one of the same hour within 7 days, of the same *)
(* day within 90 days, of the same week after that (the policy of prune).  *)
Succeeds(r, e) ==
    /\ r.scene = e.scene /\ r.id >= e.id
    /\ \E a \in archive : a.id = r.id
    /\ CASE Age(e) <= AllKept   -> r = e
         [] Age(e) > AllKept /\ Age(e) <= HoursKept -> r.at \div Hour = e.at \div Hour
         [] Age(e) > HoursKept /\ Age(e) <= DaysKept -> r.at \div Day = e.at \div Day
         [] OTHER -> r.at \div Week = e.at \div Week
RetentionKeepsNewest == \A e \in everTaken : \E r \in snap : Succeeds(r, e)

(* A restore is reversible: the text it replaces, or destroys when the     *)
(* process ends in the middle of it, is in a snapshot.                     *)
RestoreIsReversible ==
    [][\A r \in snap :
          (Restore(r) \/ ProcessEndsInRestore(r)) /\ Readable(r.scene) =>
             \E q \in snap', a \in archive' :
                q.scene = r.scene /\ a.id = q.id /\ a.text = draft[r.scene]]_snapVars

(* When the task has stopped after close_project, every registered scene   *)
(* has been taken once more, unless its own snapshot failed: no command    *)
(* that was queued before, no hourly round and not the stop itself gets in *)
(* the way.                                                                *)
ClosedScenesAreTaken == loop = "ended" => active = closed \cup missed

(* Retention, restore and close together leave no text behind that no      *)
(* snapshot holds or succeeds.                                             *)
TextsStayRecoverable ==
    [](SnapTypeOK /\ RetentionKeepsNewest /\ ClosedScenesAreTaken) /\ RestoreIsReversible
=============================================================================
