----------------------------- MODULE SceneFiles -----------------------------
(***************************************************************************)
(* The scenes of a project: one Markdown file each, and an index of them   *)
(* in project.db (scene.rs, rebuild.rs, repair.rs and the commands that    *)
(* call them).                                                             *)
(*                                                                         *)
(* Every command is a task of its own.  A command that edits a file takes  *)
(* the database mutex, reads the file, writes all of it again and then     *)
(* updates its row; body, title and point-of-view commands first take the  *)
(* write lock of their scene.  Both locks belong to one opening of the     *)
(* project.  Between any two steps the process can end, the writer can     *)
(* edit a file with another program, and, while the application is not     *)
(* running, delete project.db.                                             *)
(*                                                                         *)
(* A body is its prose: block markers are not counted as words and are not *)
(* modelled.  chapter_id and ordering are left out: move_to has no command.*)
(***************************************************************************)
EXTENDS Naturals, FiniteSets

CONSTANTS
    Scene,          \* scene ids; smaller is older (ULIDs sort by time)
    Kept,           \* scenes that exist at the beginning
    Task,           \* command tasks
    Value,          \* what the writer can set a field to
    WordCount,      \* words in a body
    Offered,        \* edits the writer may ask for
    Limit,          \* bounds: how often each kind of event may happen
    None, NoFile, Unreadable, NoRow, NoIndex, Idle, Unknown

Event == {"call", "open", "crash", "failure", "outside"}

(* A scene's frontmatter and body carry FileField, its row RowField.  The  *)
(* frontmatter has room for location and point of view too, but nothing    *)
(* writes them there.                                                      *)
FileField == {"text", "name", "summary", "place", "group"}
RowField  == {"name", "summary", "place", "group", "location", "pov"}
Field     == FileField \cup RowField

Maybe == Value \cup {None}
File  == [fields: [FileField -> Maybe], words: Nat]
Row   == [fields: [RowField -> Maybe], words: Nat]

EditOp   == [kind: {"edit"}, scene: Scene, field: Field, value: Maybe]
CreateOp == [kind: {"create"}, scene: Scene, field: {"name"}, value: Value]
ResetOp  == [kind: {"reset"}, scene: Kept, field: {"place"}, value: {None}]
Op == EditOp \cup CreateOp \cup ResetOp

Phase == {"called", "gated", "holding", "truncated", "written"}
Job   == [op: Op, opening: Nat, at: Phase, read: File \cup {None}]

ASSUME SceneAssumption ==
    /\ Scene \subseteq Nat /\ Kept \subseteq Scene /\ Kept # {}
    /\ WordCount \in [Maybe -> Nat] /\ WordCount[None] = 0
    /\ Offered \subseteq Op
    /\ Limit \in [Event -> Nat]
    /\ \A x \in {NoFile, Unreadable} : x \notin File
    /\ NoFile # Unreadable /\ NoRow \notin Row /\ Idle \notin Job
    /\ NoIndex \notin [Scene -> Row \cup {NoRow}]
    /\ Unknown \notin Maybe

VARIABLES
    disk,           \* the scene files
    index,          \* table scene of project.db
    open,           \* AppState::project is Some
    task,           \* what each command task is doing
    used,           \* events so far
    acked,          \* history: the last value of a field reported as saved,
                    \* or, for a body, as loaded at the opening
    overlapped,     \* history: a project was opened over running tasks
    lost            \* history: project.db was lost and not rebuilt since

vars == <<disk, index, open, task, used, acked, overlapped, lost>>

Spend(e) ==
    /\ used[e] < Limit[e]
    /\ used' = [used EXCEPT ![e] = @ + 1]

Readable(s) == disk[s] \in File
Indexed(s)  == index # NoIndex /\ index[s] # NoRow

EmptyFile == [fields |-> [f \in FileField |-> None], words |-> 0]
EmptyRow  == [fields |-> [f \in RowField |-> None], words |-> 0]
Nothing   == [s \in Scene |-> [f \in Field |-> Unknown]]

SceneInit ==
    /\ disk = [s \in Scene |-> IF s \in Kept THEN EmptyFile ELSE NoFile]
    /\ index = [s \in Scene |-> IF s \in Kept THEN EmptyRow ELSE NoRow]
    /\ open = FALSE
    /\ task = [t \in Task |-> Idle]
    /\ used = [e \in Event |-> 0]
    /\ acked = Nothing
    /\ overlapped = FALSE
    /\ lost = FALSE

-----------------------------------------------------------------------------
(* The two locks.  They are created with the OpenProject, so a task only   *)
(* meets the tasks of the same opening there.                              *)

Gated(op) == op.kind = "edit" /\ op.field \in {"text", "name", "pov"}

PastGate == {"gated", "holding", "truncated", "written"}
Holding  == {"holding", "truncated", "written"}

Contenders(t) ==
    {u \in Task \ {t} : task[u] # Idle /\ task[u].opening = task[t].opening}

SceneLockFree(t) ==
    \A u \in Contenders(t) :
        ~ (/\ Gated(task[u].op) /\ task[u].at \in PastGate
           /\ task[u].op.scene = task[t].op.scene)

(* Mutants: no mutex, one the read is not covered by, and one that is      *)
(* taken together with the scene lock.                                     *)
DatabaseAlwaysFree(t) == TRUE
DatabaseFreeOfWriters(t) ==
    \A u \in Contenders(t) : task[u].at \notin {"truncated", "written"}
DatabaseFreeOfGated(t) == \A u \in Contenders(t) : task[u].at \notin PastGate

DatabaseFree(t) == \A u \in Contenders(t) : task[u].at \notin Holding

(* What the writer may ask for: the window lists the indexed scenes, and a *)
(* new scene gets an id nobody has.                                        *)
Possible(op) ==
    CASE op.kind = "edit"   -> Indexed(op.scene)
      [] op.kind = "create" -> /\ disk[op.scene] = NoFile
                               /\ \A t \in Task : task[t] # Idle =>
                                                    task[t].op.scene # op.scene
      [] op.kind = "reset"  -> TRUE

Call(t, op) ==
    /\ open /\ task[t] = Idle /\ Possible(op)
    /\ Spend("call")
    /\ task' = [task EXCEPT ![t] = [op |-> op, opening |-> used["open"],
                                    at |-> "called", read |-> None]]
    /\ UNCHANGED <<disk, index, open, acked, overlapped, lost>>

At(t, phase) == task[t] # Idle /\ task[t].at = phase
Moves(t, phase) == task' = [task EXCEPT ![t].at = phase]
Ends(t) == task' = [task EXCEPT ![t] = Idle]

TakeSceneLock(t) ==
    /\ At(t, "called") /\ Gated(task[t].op) /\ SceneLockFree(t)
    /\ Moves(t, "gated")
    /\ UNCHANGED <<disk, index, open, used, acked, overlapped, lost>>

(* db.lock().await *)
MayEnter(t) ==
    /\ IF Gated(task[t].op) THEN At(t, "gated") ELSE At(t, "called")
    /\ DatabaseFree(t)

Acknowledge(op) ==
    acked' = IF op.kind = "reset"
             THEN [s \in Scene |-> [acked[s] EXCEPT !["place"] = Unknown]]
             ELSE [acked EXCEPT ![op.scene][op.field] = op.value]

-----------------------------------------------------------------------------
(* Commands that only touch the index: location, point of view, and        *)
(* forgetting every canvas position.                                       *)

RowOnly(op) == op.kind = "reset" \/ op.field \in RowField \ FileField

RowsAfter(op) ==
    [s \in Scene |->
        IF index[s] = NoRow \/ (op.kind = "edit" /\ s # op.scene) THEN index[s]
        ELSE [index[s] EXCEPT !.fields[op.field] = op.value]]

EditRow(t) ==
    /\ task[t] # Idle /\ MayEnter(t)
    /\ RowOnly(task[t].op)
    /\ index' = RowsAfter(task[t].op)
    /\ Acknowledge(task[t].op)
    /\ Ends(t)
    /\ UNCHANGED <<disk, open, used, overlapped, lost>>

-----------------------------------------------------------------------------
(* Commands that rewrite a scene file.                                     *)

Written(file, op) ==
    IF op.field = "text"
    THEN [fields |-> [file.fields EXCEPT !["text"] = op.value],
          words  |-> WordCount[op.value]]
    ELSE [file EXCEPT !.fields[op.field] = op.value]

(* path_for and SceneFile::read; create starts from an empty file.         *)
Read(t) ==
    /\ task[t] # Idle /\ MayEnter(t)
    /\ ~ RowOnly(task[t].op)
    /\ LET op == task[t].op IN
         \/ /\ op.kind = "create"
            /\ task' = [task EXCEPT ![t].at = "holding", ![t].read = EmptyFile]
         \/ /\ op.kind = "edit" /\ Readable(op.scene)
            /\ task' = [task EXCEPT ![t].at = "holding", ![t].read = disk[op.scene]]
         \/ /\ op.kind = "edit" /\ ~ Readable(op.scene)
            /\ Ends(t)
    /\ UNCHANGED <<disk, index, open, used, acked, overlapped, lost>>

(* fs::write empties the file before it fills it.                          *)
Truncate(t) ==
    /\ At(t, "holding")
    /\ disk' = [disk EXCEPT ![task[t].op.scene] = Unreadable]
    /\ Moves(t, "truncated")
    /\ UNCHANGED <<index, open, used, acked, overlapped, lost>>

Fill(t) ==
    /\ At(t, "truncated")
    /\ disk' = [disk EXCEPT ![task[t].op.scene] = Written(task[t].read, task[t].op)]
    /\ Moves(t, "written")
    /\ UNCHANGED <<index, open, used, acked, overlapped, lost>>

FailToFill(t) ==
    /\ At(t, "truncated") /\ Spend("failure")
    /\ Ends(t)
    /\ UNCHANGED <<disk, index, open, acked, overlapped, lost>>

(* The statement after the file: it changes what the operation is about.   *)
RowAfter(row, op) ==
    IF op.field = "text" THEN [row EXCEPT !.words = WordCount[op.value]]
    ELSE [row EXCEPT !.fields[op.field] = op.value]

UpdateRow(t) ==
    /\ At(t, "written")
    /\ LET op  == task[t].op
           row == IF op.kind = "create" THEN EmptyRow ELSE index[op.scene]
       IN  /\ index' = [index EXCEPT ![op.scene] = RowAfter(row, op)]
           /\ Acknowledge(op)
    /\ Ends(t)
    /\ UNCHANGED <<disk, open, used, overlapped, lost>>

(* The file is ahead of its row now, and the command reports an error.     *)
FailToUpdateRow(t) ==
    /\ At(t, "written") /\ Spend("failure")
    /\ acked' = [acked EXCEPT ![task[t].op.scene][task[t].op.field] = Unknown]
    /\ Ends(t)
    /\ UNCHANGED <<disk, index, open, overlapped, lost>>

TaskStep(t) ==
    \/ TakeSceneLock(t) \/ EditRow(t) \/ Read(t) \/ Truncate(t) \/ Fill(t)
    \/ UpdateRow(t)

-----------------------------------------------------------------------------
(* Opening and closing.  scene_create holds the application's project lock *)
(* to its end, so neither happens during it.                               *)

NoCreation == \A t \in Task : task[t] # Idle => task[t].op.kind # "create"

(* rebuild_from_truth stops at the first file it cannot parse, and leaves  *)
(* the rows it inserted before.                                            *)
Files  == {s \in Scene : disk[s] # NoFile}
Broken == {s \in Files : ~ Readable(s)}
Before(s, S) == \A b \in S : s < b

RowFromFile(file) ==
    [fields |-> [f \in RowField |-> IF f \in {"name", "summary"}
                                    THEN file.fields[f] ELSE None],
     words |-> file.words]

Rebuilt ==
    [s \in Scene |-> IF s \in Files /\ Before(s, Broken)
                     THEN RowFromFile(disk[s]) ELSE NoRow]

OpenedIndex == IF index = NoIndex THEN Rebuilt ELSE index

(* repair::run recounts the words of every indexed scene, oldest first,    *)
(* until it meets a file it cannot parse.                                  *)
Unrepairable == {s \in Broken : OpenedIndex[s] # NoRow}
Repaired == {s \in Files : OpenedIndex[s] # NoRow /\ Before(s, Unrepairable)}

(* Mutant: the frontmatter's own count is taken for granted.               *)
WordsOfFrontmatter(s) == disk[s].words

Words(s) == WordCount[disk[s].fields["text"]]

Repair ==
    /\ disk' = [s \in Scene |-> IF s \in Repaired
                                THEN [disk[s] EXCEPT !.words = Words(s)] ELSE disk[s]]
    /\ index' = [s \in Scene |-> IF s \in Repaired
                                 THEN [OpenedIndex[s] EXCEPT !.words = Words(s)]
                                 ELSE OpenedIndex[s]]

RebuildFails == index = NoIndex /\ Broken # {}

OpenProject ==
    /\ NoCreation /\ Spend("open")
    /\ ~ RebuildFails /\ Unrepairable = {}
    /\ Repair
    /\ open' = TRUE
    /\ overlapped' = (overlapped \/ \E t \in Task : task[t] # Idle)
    /\ lost' = FALSE
    /\ acked' = [s \in Scene |-> IF s \in Repaired
                                 THEN [acked[s] EXCEPT !["text"] = disk[s].fields["text"]]
                                 ELSE acked[s]]
    /\ UNCHANGED task

OpenFails ==
    /\ NoCreation
    /\ \/ RebuildFails /\ index' = Rebuilt /\ UNCHANGED disk
       \/ ~ RebuildFails /\ Unrepairable # {} /\ Repair
    /\ UNCHANGED <<open, task, used, acked, overlapped, lost>>

(* Running commands keep the database they have cloned.                    *)
CloseProject ==
    /\ open /\ NoCreation
    /\ open' = FALSE
    /\ UNCHANGED <<disk, index, task, used, acked, overlapped, lost>>

-----------------------------------------------------------------------------
(* Outside of the program's control.                                       *)

(* The process ends; edits that had reached the file were not reported.    *)
Crash ==
    /\ Spend("crash")
    /\ open' = FALSE
    /\ task' = [t \in Task |-> Idle]
    /\ acked' = [s \in Scene |-> [f \in Field |->
                   IF \E t \in Task : /\ At(t, "written")
                                      /\ task[t].op.scene = s /\ task[t].op.field = f
                   THEN Unknown ELSE acked[s][f]]]
    /\ UNCHANGED <<disk, index, overlapped, lost>>

(* Another program's save between a command's file and its row is taken to *)
(* come before the file.                                                   *)
Saving(s) == \E t \in Task : At(t, "written") /\ task[t].op.scene = s

EditOutside(s, v) ==
    /\ Readable(s) /\ ~ Saving(s) /\ Spend("outside")
    /\ disk' = [disk EXCEPT ![s].fields["text"] = v]
    /\ acked' = [acked EXCEPT ![s]["text"] = Unknown]
    /\ UNCHANGED <<index, open, task, overlapped, lost>>

BreakOutside(s) ==
    /\ Readable(s) /\ ~ Saving(s) /\ Spend("outside")
    /\ disk' = [disk EXCEPT ![s] = Unreadable]
    /\ UNCHANGED <<index, open, task, acked, overlapped, lost>>

MendOutside(s, v) ==
    /\ disk[s] = Unreadable /\ ~ Saving(s) /\ Spend("outside")
    /\ disk' = [disk EXCEPT ![s] = [EmptyFile EXCEPT !.fields["text"] = v]]
    /\ acked' = [acked EXCEPT ![s] = [f \in Field |-> IF f \in FileField THEN Unknown
                                                      ELSE @[f]]]
    /\ UNCHANGED <<index, open, task, overlapped, lost>>

LoseDatabase ==
    /\ ~ open /\ index # NoIndex /\ \A t \in Task : task[t] = Idle
    /\ Spend("outside")
    /\ index' = NoIndex
    /\ lost' = TRUE
    /\ UNCHANGED <<disk, open, task, acked, overlapped>>

-----------------------------------------------------------------------------
Next ==
    \/ \E t \in Task : \/ \E op \in Offered : Call(t, op)
                       \/ TaskStep(t) \/ FailToFill(t) \/ FailToUpdateRow(t)
    \/ OpenProject \/ OpenFails \/ CloseProject
    \/ Crash \/ LoseDatabase
    \/ \E s \in Scene : \/ BreakOutside(s)
                        \/ \E v \in Value : EditOutside(s, v) \/ MendOutside(s, v)

Spec == SceneInit /\ [][Next]_vars

(* The runtime polls every task and hands a freed mutex to a waiter.       *)
FairSpec == Spec /\ \A t \in Task : WF_vars(TaskStep(t))

-----------------------------------------------------------------------------
TypeOK ==
    /\ disk \in [Scene -> File \cup {NoFile, Unreadable}]
    /\ index \in [Scene -> Row \cup {NoRow}] \cup {NoIndex}
    /\ {open, overlapped, lost} \subseteq BOOLEAN
    /\ task \in [Task -> Job \cup {Idle}]
    /\ used \in [Event -> Nat] /\ \A e \in Event : used[e] <= Limit[e]
    /\ acked \in [Scene -> [Field -> Maybe \cup {Unknown}]]

InFlight(s, f) == \E t \in Task : /\ At(t, "written")
                                  /\ task[t].op.scene = s /\ task[t].op.field = f

Promised(s, f) == acked[s][f] # Unknown /\ ~ InFlight(s, f)

Keeps(Fs, s) ==
    \A f \in Fs : Promised(s, f) =>
        /\ f \in FileField /\ Readable(s) => disk[s].fields[f] = acked[s][f]
        /\ f \in RowField /\ Indexed(s) => index[s].fields[f] = acked[s][f]

(* No edit that was reported as saved is undone by another command, a      *)
(* failed one, a crash, a repair or a rebuild of the index: the file, if   *)
(* it can be read at all, and the row both carry it (write_body, rename,   *)
(* set_summary, repair::run, rebuild_from_truth).                          *)
EditsSurvive == ~ overlapped => \A s \in Scene : Keeps({"text", "name", "summary"}, s)

(* While a project is open every indexed scene shows the number of words   *)
(* its file has, unless another program or a failed save touched the body  *)
(* after the opening (repair::run, write_body).                            *)
CountsAreTrue ==
    ~ overlapped /\ open =>
        \A s \in Scene : Indexed(s) /\ Readable(s) /\ Promised(s, "text")
                             => index[s].words = WordCount[disk[s].fields["text"]]

(* A scene file that cannot be parsed was torn by the end of the process   *)
(* or by a failed write, is being written, or was broken by another        *)
(* program: two commands never tear a file between them (scene_locks.rs).  *)
FilesTearOnlyFromOutside ==
    used["crash"] = 0 /\ used["failure"] = 0 /\ used["outside"] = 0 /\ ~ overlapped =>
        \A s \in Scene : disk[s] = Unreadable =>
            Cardinality({t \in Task : At(t, "truncated") /\ task[t].op.scene = s}) = 1

(* A scene file is whole, and what the index counts is what it holds.      *)
FilesAreSound == TypeOK /\ CountsAreTrue /\ FilesTearOnlyFromOutside

(* Every command comes to an end: the scene lock and the database lock are *)
(* taken in one order and let go of on every path.                         *)
EveryCommandEnds == \A t \in Task : task[t] # Idle ~> task[t] = Idle

-----------------------------------------------------------------------------
(* What the repository says, and the code does not do.                     *)

(* README.md:20: the index is "rebuildable from the files".  The INSERT of *)
(* the rebuild knows no canvas columns, and location and point of view are *)
(* never written to a file.                                                *)
IndexIsRebuildable ==
    ~ overlapped => \A s \in Scene : Keeps({"place", "group", "location", "pov"}, s)

(* docs/m1-acceptance-checklist.md:36: after project.db is deleted the     *)
(* next opening still shows the scenes.                                    *)
Opens == open' /\ used'["open"] # used["open"]
RebuildsAreComplete ==
    [][Opens /\ lost => \A s \in Scene : disk[s] \in File => index'[s] # NoRow]_vars

(* scene_locks.rs:1-3: "concurrent rename+body writes don't tear the       *)
(* file".                                                                  *)
EditsSurviveReopening == \A s \in Scene : Keeps({"text", "name", "summary"}, s)
=============================================================================
