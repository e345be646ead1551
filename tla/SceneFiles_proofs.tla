-------------------------- MODULE SceneFiles_proofs -------------------------
(***************************************************************************)
(* Theorems about the scene files, for any number of scenes, commands and  *)
(* values, any offered edits and any number of crashes, failures, openings *)
(* and outside edits.                                                      *)
(*                                                                         *)
(* A command writes a whole file from what it read of it.  No edit is lost *)
(* because, in one opening of the project, at most one command is between  *)
(* its read and its row (the database mutex): what that command carries is *)
(* then every saved field of the file, even while the file itself is torn. *)
(***************************************************************************)
EXTENDS SceneFiles, FiniteSetTheorems, TLAPS

(* The fields EditsSurvive is about.                                       *)
Prose == {"text", "name", "summary"}

Holds(t) == task[t] # Idle /\ task[t].at \in Holding

(* While a project is open or a command runs there is an index, and every  *)
(* row of it has a file.                                                   *)
IndexIsThere ==
    /\ open => index # NoIndex
    /\ \A t \in Task : task[t] # Idle => index # NoIndex
    /\ \A s \in Scene : Indexed(s) => disk[s] # NoFile

(* The scene of an edit stays indexed, and only commands that rewrite a    *)
(* file get past their read.                                               *)
JobsAreSound ==
    \A t \in Task : task[t] # Idle =>
        /\ task[t].op.kind = "edit" => Indexed(task[t].op.scene)
        /\ Holds(t) => ~ RowOnly(task[t].op) /\ task[t].read \in File
        /\ At(t, "truncated") \/ At(t, "written") => disk[task[t].op.scene] # NoFile

(* A creation has its scene for itself, and starts from an empty file.     *)
NewScenesAreNew ==
    \A t \in Task : task[t] # Idle /\ task[t].op.kind = "create" =>
        /\ Holds(t) => task[t].read = EmptyFile
        /\ At(t, "called") \/ At(t, "holding") => disk[task[t].op.scene] = NoFile
        /\ \A u \in Task \ {t} : task[u] # Idle /\ task[u].op.kind = "create" =>
                                    task[u].op.scene # task[t].op.scene

(* The database mutex, as long as all commands share one.                  *)
LocksExclude ==
    ~ overlapped =>
        /\ \A t \in Task : task[t] # Idle => task[t].opening = used["open"]
        /\ \A t, u \in Task : Holds(t) /\ Holds(u) => t = u

(* What the command inside the mutex carries and has written.              *)
WritersCarryTheFile ==
    ~ overlapped =>
      \A t \in Task : Holds(t) =>
        /\ \A f \in Prose : acked[task[t].op.scene][f] # Unknown =>
                task[t].read.fields[f] = acked[task[t].op.scene][f]
        /\ At(t, "written") =>
             /\ Readable(task[t].op.scene)
             /\ disk[task[t].op.scene].fields[task[t].op.field] = task[t].op.value

(* Nothing was reported as saved of a scene that has no file yet.          *)
NothingIsPromisedUnwritten ==
    \A s \in Scene : disk[s] = NoFile => \A f \in Prose : acked[s][f] = Unknown

(* The count of a row is that of the text that was saved, also while the   *)
(* file is torn.                                                           *)
CountsFollowTheText ==
    ~ overlapped /\ open =>
        \A s \in Scene : Indexed(s) /\ Promised(s, "text")
                             => index[s].words = WordCount[acked[s]["text"]]

(* A file torn by a command is being filled by it.                         *)
TearsHaveAWriter ==
    used["crash"] = 0 /\ used["failure"] = 0 /\ used["outside"] = 0 =>
        \A s \in Scene : disk[s] = Unreadable =>
            \E t \in Task : At(t, "truncated") /\ task[t].op.scene = s

(* What does not depend on the locks, and what does.                       *)
ShapeInv == TypeOK /\ IndexIsThere /\ JobsAreSound /\ NewScenesAreNew

SavedInv ==
    /\ LocksExclude /\ WritersCarryTheFile /\ NothingIsPromisedUnwritten
    /\ EditsSurvive /\ CountsFollowTheText

-----------------------------------------------------------------------------
(* Types.                                                                  *)

(* A file and a row stay what they are when one field changes.             *)
LEMMA WrittenType ==
  ASSUME NEW file \in File, NEW op \in Op, ~ RowOnly(op)
  PROVE  /\ op.field \in FileField /\ op.value \in Maybe
         /\ op.kind \in {"edit", "create"} /\ op.scene \in Scene
         /\ Written(file, op) \in File
         /\ Written(file, op).fields = [file.fields EXCEPT ![op.field] = op.value]
<1>1. /\ op.field \in FileField /\ op.value \in Maybe
      /\ op.kind \in {"edit", "create"} /\ op.scene \in Scene
  BY SceneAssumption
  DEF Op, EditOp, CreateOp, ResetOp, RowOnly, Field, FileField, RowField, Maybe
<1>2. WordCount[op.value] \in Nat
  BY <1>1, SceneAssumption
<1>3. [file.fields EXCEPT ![op.field] = op.value] \in [FileField -> Maybe]
  BY <1>1 DEF File
<1>4. CASE op.field = "text"
  BY <1>1, <1>2, <1>3, <1>4 DEF Written, File
<1>5. CASE op.field # "text"
  BY <1>1, <1>2, <1>3, <1>5 DEF Written, File
<1> QED  BY <1>1, <1>4, <1>5

(* Every operation is about a scene, a field and a value.                  *)
LEMMA OpType ==
  ASSUME NEW op \in Op
  PROVE  /\ op.scene \in Scene /\ op.field \in Field /\ op.value \in Maybe
         /\ op.kind \in {"edit", "create", "reset"}
         /\ RowOnly(op) => op.field \in RowField
         /\ op.kind = "create" => op.field = "name"
         /\ op.kind = "reset" => op.field = "place"
BY SceneAssumption
DEF Op, EditOp, CreateOp, ResetOp, RowOnly, Field, FileField, RowField, Maybe

(* The row after a command that wrote a file.                              *)
LEMMA RowAfterType ==
  ASSUME NEW row \in Row, NEW op \in Op, ~ RowOnly(op)
  PROVE  /\ RowAfter(row, op) \in Row
         /\ \A f \in RowField : RowAfter(row, op).fields[f] =
                IF f = op.field THEN op.value ELSE row.fields[f]
         /\ RowAfter(row, op).words =
                IF op.field = "text" THEN WordCount[op.value] ELSE row.words
<1>1. op.field \in FileField /\ op.value \in Maybe
  BY SceneAssumption
  DEF Op, EditOp, CreateOp, ResetOp, RowOnly, Field, FileField, RowField, Maybe
<1>2. WordCount[op.value] \in Nat
  BY <1>1, SceneAssumption
<1>3. CASE op.field = "text"
  BY <1>1, <1>2, <1>3 DEF RowAfter, Row, RowField
<1>4. CASE op.field # "text"
  <2>1. op.field \in RowField
    BY <1>1, <1>4 DEF FileField, RowField
  <2>2. [row.fields EXCEPT ![op.field] = op.value] \in [RowField -> Maybe]
    BY <1>1, <2>1 DEF Row
  <2> QED  BY <1>4, <2>1, <2>2 DEF RowAfter, Row
<1> QED  BY <1>3, <1>4

(* What a task is made of.                                                 *)
LEMMA JobType ==
  ASSUME TypeOK, NEW t \in Task, task[t] # Idle
  PROVE  /\ task[t] \in Job /\ task[t].op \in Op /\ task[t].at \in Phase
         /\ task[t].opening \in Nat /\ task[t].read \in File \cup {None}
         /\ task[t] = [op |-> task[t].op, opening |-> task[t].opening,
                       at |-> task[t].at, read |-> task[t].read]
BY DEF TypeOK, Job

(* A task that goes on keeps its operation and what it read.               *)
LEMMA MovesOn ==
  ASSUME TypeOK, NEW t \in Task, task[t] # Idle, NEW ph \in Phase, Moves(t, ph)
  PROVE  /\ task' \in [Task -> Job \cup {Idle}]
         /\ task'[t] # Idle /\ task'[t].op = task[t].op
         /\ task'[t].opening = task[t].opening /\ task'[t].at = ph
         /\ task'[t].read = task[t].read
         /\ \A u \in Task : u # t => task'[u] = task[u]
<1> DEFINE j == [op |-> task[t].op, opening |-> task[t].opening,
                 at |-> ph, read |-> task[t].read]
<1>1. j \in Job
  BY JobType DEF Job
<1>2. j # Idle
  BY <1>1, SceneAssumption
<1>3. [task[t] EXCEPT !.at = ph] = j
  <2>1. task[t] \in Job
    BY JobType
  <2> QED  BY <2>1 DEF Job
<1>4. task' = [task EXCEPT ![t] = j]
  BY <1>3 DEF Moves, TypeOK
<1>5. j.op = task[t].op /\ j.opening = task[t].opening /\ j.at = ph /\ j.read = task[t].read
  OBVIOUS
<1> HIDE DEF j
<1> QED  BY <1>1, <1>2, <1>4, <1>5 DEF TypeOK

(* A task that has read its file holds what it read.                       *)
LEMMA ReadsOn ==
  ASSUME TypeOK, NEW t \in Task, task[t] # Idle, NEW file \in File,
         task' = [task EXCEPT ![t].at = "holding", ![t].read = file]
  PROVE  /\ task' \in [Task -> Job \cup {Idle}]
         /\ task'[t] # Idle /\ task'[t].op = task[t].op
         /\ task'[t].opening = task[t].opening /\ task'[t].at = "holding"
         /\ task'[t].read = file
         /\ \A u \in Task : u # t => task'[u] = task[u]
<1> DEFINE j == [op |-> task[t].op, opening |-> task[t].opening,
                 at |-> "holding", read |-> file]
<1>1. j \in Job
  BY JobType DEF Job, Phase
<1>2. j # Idle
  BY <1>1, SceneAssumption
<1>3. task[t] \in Job
  BY JobType
<1>4. task' = [task EXCEPT ![t] = j]
  <2> DEFINE h == [task EXCEPT ![t].at = "holding"]
  <2>1. h = [task EXCEPT ![t] = [task[t] EXCEPT !.at = "holding"]]
    OBVIOUS
  <2>2. [task[t] EXCEPT !.at = "holding"] =
            [op |-> task[t].op, opening |-> task[t].opening,
             at |-> "holding", read |-> task[t].read]
    BY <1>3 DEF Job
  <2>3. h[t] = [op |-> task[t].op, opening |-> task[t].opening,
                at |-> "holding", read |-> task[t].read]
    BY <2>1, <2>2 DEF TypeOK
  <2>4. [h[t] EXCEPT !.read = file] = j
    BY <2>3
  <2>5. task' = [h EXCEPT ![t].read = file]
    OBVIOUS
  <2>6. task' = [h EXCEPT ![t] = j]
    BY <2>4, <2>5
  <2> QED  BY <2>1, <2>6 DEF TypeOK
<1>5. j.op = task[t].op /\ j.opening = task[t].opening /\ j.at = "holding" /\ j.read = file
  OBVIOUS
<1> HIDE DEF j
<1> QED  BY <1>1, <1>2, <1>4, <1>5 DEF TypeOK

(* A task that ends leaves the others alone.                               *)
LEMMA EndsAlone ==
  ASSUME TypeOK, NEW t \in Task, Ends(t)
  PROVE  /\ task' \in [Task -> Job \cup {Idle}] /\ task'[t] = Idle
         /\ \A u \in Task : u # t => task'[u] = task[u]
BY DEF TypeOK, Ends

(* Every event spends one of its kind.                                     *)
LEMMA Spends ==
  ASSUME TypeOK, NEW e \in Event, Spend(e)
  PROVE  /\ used' \in [Event -> Nat] /\ \A f \in Event : used'[f] <= Limit[f]
         /\ used'[e] = used[e] + 1 /\ \A f \in Event : f # e => used'[f] = used[f]
<1>1. /\ used \in [Event -> Nat] /\ Limit \in [Event -> Nat]
      /\ used[e] < Limit[e] /\ used' = [used EXCEPT ![e] = used[e] + 1]
      /\ \A f \in Event : used[f] <= Limit[f]
  BY SceneAssumption DEF TypeOK, Spend
<1>2. used[e] + 1 \in Nat /\ used[e] + 1 <= Limit[e]
  BY <1>1
<1>3. /\ used' \in [Event -> Nat] /\ used'[e] = used[e] + 1
      /\ \A f \in Event : f # e => used'[f] = used[f]
  BY <1>1, <1>2
<1> QED  BY <1>1, <1>2, <1>3

(* Acknowledging changes one field of one scene, or forgets a position.    *)
LEMMA AcknowledgeType ==
  ASSUME TypeOK, NEW op \in Op, Acknowledge(op)
  PROVE  /\ acked' \in [Scene -> [Field -> Maybe \cup {Unknown}]]
         /\ op.kind # "reset" => acked'[op.scene][op.field] = op.value
         /\ \A s \in Scene, f \in Prose : ~ (s = op.scene /\ f = op.field)
                => acked'[s][f] = acked[s][f]
<1>1. op.scene \in Scene /\ op.field \in Field /\ op.value \in Maybe
      /\ (op.kind = "reset" => op.field = "place")
  BY OpType
<1>2. acked \in [Scene -> [Field -> Maybe \cup {Unknown}]]
  BY DEF TypeOK
<1>3. CASE op.kind = "reset"
  BY <1>1, <1>2, <1>3 DEF Acknowledge, Prose, Field, FileField, RowField
<1>4. CASE op.kind # "reset"
  BY <1>1, <1>2, <1>4 DEF Acknowledge, Prose, Field, FileField, RowField
<1> QED  BY <1>3, <1>4

(* The rows after a command that touches nothing else.                     *)
LEMMA RowsAfterType ==
  ASSUME TypeOK, index # NoIndex, NEW op \in Op, RowOnly(op)
  PROVE  /\ RowsAfter(op) \in [Scene -> Row \cup {NoRow}]
         /\ \A s \in Scene :
              /\ RowsAfter(op)[s] = NoRow <=> index[s] = NoRow
              /\ index[s] # NoRow => RowsAfter(op)[s].words = index[s].words
              /\ index[s] # NoRow => \A f \in Prose \cap RowField :
                    RowsAfter(op)[s].fields[f] = index[s].fields[f]
<1>1. op.field \in RowField /\ op.value \in Maybe /\ op.field \notin Prose
  BY SceneAssumption
  DEF Op, EditOp, CreateOp, ResetOp, RowOnly, Field, FileField, RowField, Maybe, Prose
<1>2. index \in [Scene -> Row \cup {NoRow}] /\ NoRow \notin Row
  BY SceneAssumption DEF TypeOK
<1>3. ASSUME NEW row \in Row
      PROVE  LET r == [row EXCEPT !.fields[op.field] = op.value] IN
             /\ r \in Row /\ r.words = row.words
             /\ \A f \in Prose \cap RowField : r.fields[f] = row.fields[f]
  <2>1. [row.fields EXCEPT ![op.field] = op.value] \in [RowField -> Maybe]
    BY <1>1 DEF Row
  <2>2. \A f \in Prose \cap RowField :
            [row.fields EXCEPT ![op.field] = op.value][f] = row.fields[f]
    BY <1>1 DEF Row
  <2> QED  BY <2>1, <2>2 DEF Row
<1>4. ASSUME NEW s \in Scene
      PROVE  /\ RowsAfter(op)[s] \in Row \cup {NoRow}
             /\ RowsAfter(op)[s] = NoRow <=> index[s] = NoRow
             /\ index[s] # NoRow => RowsAfter(op)[s].words = index[s].words
             /\ index[s] # NoRow => \A f \in Prose \cap RowField :
                    RowsAfter(op)[s].fields[f] = index[s].fields[f]
  BY <1>2, <1>3 DEF RowsAfter
<1> QED  BY <1>4 DEF RowsAfter

(* An absent index or row, an idle task and an unknown value are nothing   *)
(* else.                                                                   *)
LEMMA Absent ==
  /\ \A file \in File : file # NoFile /\ file # Unreadable
  /\ NoFile # Unreadable
  /\ \A row \in Row : row # NoRow
  /\ \A rows \in [Scene -> Row \cup {NoRow}] : rows # NoIndex
  /\ \A job \in Job : job # Idle
  /\ \A v \in Maybe : v # Unknown
BY SceneAssumption

(* An empty file and an empty row.                                         *)
LEMMA EmptyType ==
  /\ EmptyFile \in File /\ EmptyRow \in Row
  /\ \A f \in FileField : EmptyFile.fields[f] = None
  /\ \A f \in RowField : EmptyRow.fields[f] = None
  /\ EmptyRow.words = 0
BY DEF EmptyFile, EmptyRow, File, Row, Maybe

(* The rebuild gives every scene it reaches the row of its file.           *)
LEMMA RebuildType ==
  ASSUME TypeOK
  PROVE  /\ Rebuilt \in [Scene -> Row \cup {NoRow}]
         /\ \A s \in Scene : Rebuilt[s] # NoRow =>
               /\ Readable(s)
               /\ \A f \in {"name", "summary"} : Rebuilt[s].fields[f] = disk[s].fields[f]
<1>1. ASSUME NEW file \in File
      PROVE  /\ RowFromFile(file) \in Row
             /\ \A f \in {"name", "summary"} : RowFromFile(file).fields[f] = file.fields[f]
  <2>1. [f \in RowField |-> IF f \in {"name", "summary"} THEN file.fields[f] ELSE None]
            \in [RowField -> Maybe]
    BY DEF File, FileField, RowField, Maybe
  <2> QED  BY <2>1 DEF RowFromFile, Row, File, RowField
<1>2. ASSUME NEW s \in Scene, s \in Files, Before(s, Broken)
      PROVE  Readable(s)
  <2>1. s \in Nat
    BY SceneAssumption
  <2>2. s \notin Broken
    BY <1>2, <2>1 DEF Before
  <2> QED  BY <1>2, <2>2 DEF Broken
<1>3. ASSUME NEW s \in Scene
      PROVE  /\ Rebuilt[s] \in Row \cup {NoRow}
             /\ Rebuilt[s] # NoRow =>
                   /\ Readable(s)
                   /\ \A f \in {"name", "summary"} :
                         Rebuilt[s].fields[f] = disk[s].fields[f]
  BY <1>1, <1>2 DEF Rebuilt, Readable
<1> QED  BY <1>3 DEF Rebuilt

(* The repair changes counts and nothing else.                             *)
LEMMA RepairType ==
  ASSUME TypeOK, Repair
  PROVE  /\ disk' \in [Scene -> File \cup {NoFile, Unreadable}]
         /\ index' \in [Scene -> Row \cup {NoRow}]
         /\ \A s \in Scene :
              /\ disk'[s] = NoFile <=> disk[s] = NoFile
              /\ disk'[s] = Unreadable <=> disk[s] = Unreadable
              /\ Readable(s) => disk'[s].fields = disk[s].fields
              /\ index'[s] = NoRow <=> OpenedIndex[s] = NoRow
              /\ OpenedIndex[s] # NoRow => index'[s].fields = OpenedIndex[s].fields
              /\ s \in Repaired => /\ Readable(s)
                                   /\ index'[s].words = Words(s)
              /\ s \notin Repaired => index'[s] = OpenedIndex[s]
<1>1. OpenedIndex \in [Scene -> Row \cup {NoRow}]
  BY RebuildType DEF OpenedIndex, TypeOK
<1>2. ASSUME NEW s \in Repaired
      PROVE  s \in Scene /\ Readable(s) /\ OpenedIndex[s] \in Row
  <2>1. /\ s \in Scene /\ s \in Nat /\ s \in Files /\ OpenedIndex[s] # NoRow
        /\ Before(s, Unrepairable)
    BY SceneAssumption DEF Repaired, Files
  <2>2. s \notin Unrepairable
    BY <2>1 DEF Before
  <2> QED  BY <1>1, <2>1, <2>2 DEF Unrepairable, Broken
<1>3. ASSUME NEW s \in Scene, Readable(s)
      PROVE  /\ Words(s) \in Nat
             /\ [disk[s] EXCEPT !.words = Words(s)] \in File
             /\ [disk[s] EXCEPT !.words = Words(s)].fields = disk[s].fields
  <2>1. disk[s] \in File /\ disk[s].fields["text"] \in Maybe
    BY <1>3 DEF Readable, File, FileField
  <2>2. Words(s) \in Nat
    BY <2>1, SceneAssumption DEF Words
  <2> QED  BY <2>1, <2>2 DEF File
<1>4. ASSUME NEW row \in Row, NEW n \in Nat
      PROVE  /\ [row EXCEPT !.words = n] \in Row
             /\ [row EXCEPT !.words = n].fields = row.fields
             /\ [row EXCEPT !.words = n].words = n
  BY DEF Row
<1>5. \A s \in Scene : disk'[s] = IF s \in Repaired
                                  THEN [disk[s] EXCEPT !.words = Words(s)] ELSE disk[s]
  BY DEF Repair
<1>6. \A s \in Scene : index'[s] = IF s \in Repaired
                                   THEN [OpenedIndex[s] EXCEPT !.words = Words(s)]
                                   ELSE OpenedIndex[s]
  BY DEF Repair
<1>7. ASSUME NEW s \in Scene
      PROVE  /\ disk'[s] \in File \cup {NoFile, Unreadable}
             /\ disk'[s] = NoFile <=> disk[s] = NoFile
             /\ disk'[s] = Unreadable <=> disk[s] = Unreadable
             /\ Readable(s) => disk'[s].fields = disk[s].fields
  <2>1. disk[s] \in File \cup {NoFile, Unreadable}
    BY DEF TypeOK
  <2>2. CASE s \in Repaired
    BY <1>2, <1>3, <1>5, <2>2, Absent DEF Readable
  <2>3. CASE s \notin Repaired
    BY <1>5, <2>1, <2>3
  <2> QED  BY <2>2, <2>3
<1>8. ASSUME NEW s \in Scene
      PROVE  /\ index'[s] \in Row \cup {NoRow}
             /\ index'[s] = NoRow <=> OpenedIndex[s] = NoRow
             /\ OpenedIndex[s] # NoRow => index'[s].fields = OpenedIndex[s].fields
             /\ s \in Repaired => /\ Readable(s)
                                  /\ index'[s].words = Words(s)
             /\ s \notin Repaired => index'[s] = OpenedIndex[s]
  <2>1. CASE s \in Repaired
    <3>1. /\ OpenedIndex[s] \in Row /\ Readable(s) /\ Words(s) \in Nat
          /\ index'[s] = [OpenedIndex[s] EXCEPT !.words = Words(s)]
      BY <1>2, <1>3, <1>6, <2>1
    <3>2. index'[s] \in Row /\ index'[s].fields = OpenedIndex[s].fields
          /\ index'[s].words = Words(s)
      BY <1>4, <3>1
    <3> QED  BY <2>1, <3>1, <3>2, Absent
  <2>2. CASE s \notin Repaired
    BY <1>1, <1>6, <2>2
  <2> QED  BY <2>1, <2>2
<1>9. disk' = [s \in Scene |-> disk'[s]] /\ index' = [s \in Scene |-> index'[s]]
  BY DEF Repair
<1>10. disk' \in [Scene -> File \cup {NoFile, Unreadable}]
  BY <1>7, <1>9
<1>11. index' \in [Scene -> Row \cup {NoRow}]
  BY <1>8, <1>9
<1> QED  BY <1>7, <1>8, <1>10, <1>11

(* With an index the repair starts from it.                                *)
LEMMA IndexIsKept == ASSUME index # NoIndex PROVE OpenedIndex = index
  BY DEF OpenedIndex

-----------------------------------------------------------------------------
(* Every step keeps the shape of the state, locks or no locks.             *)

(* A command starts.                                                       *)
LEMMA CallShape ==
  ASSUME ShapeInv, NEW t \in Task, NEW op \in Offered, Call(t, op)
  PROVE  ShapeInv'
<1> DEFINE j == [op |-> op, opening |-> used["open"], at |-> "called", read |-> None]
<1>1. op \in Op /\ op.kind \in {"edit", "create", "reset"}
  BY OpType, SceneAssumption
<1>2. j \in Job
  BY <1>1 DEF ShapeInv, TypeOK, Job, Phase, Event
<1>3. j # Idle
  BY <1>2, Absent
<1>4. /\ open /\ task[t] = Idle /\ Possible(op) /\ Spend("call")
      /\ task' = [task EXCEPT ![t] = j]
      /\ disk' = disk /\ index' = index /\ open' = open /\ acked' = acked
      /\ overlapped' = overlapped /\ lost' = lost
  BY DEF Call
<1>5. j.op = op /\ j.at = "called"
  OBVIOUS
<1> HIDE DEF j
<1>6. /\ task' \in [Task -> Job \cup {Idle}] /\ task'[t] = j
      /\ \A u \in Task : u # t => task'[u] = task[u]
  BY <1>2, <1>4 DEF ShapeInv, TypeOK
<1>7. /\ op.kind = "edit" => Indexed(op.scene)
      /\ op.kind = "create" => /\ disk[op.scene] = NoFile
                               /\ \A u \in Task : task[u] # Idle => task[u].op.scene # op.scene
  BY <1>1, <1>4 DEF Possible
<1>8. TypeOK'
  BY <1>4, <1>6, Spends DEF ShapeInv, TypeOK, Event
<1>9. IndexIsThere'
  BY <1>4, <1>6 DEF ShapeInv, IndexIsThere, Indexed
<1>10. JobsAreSound'
  BY <1>4, <1>5, <1>6, <1>7 DEF ShapeInv, JobsAreSound, Holds, Holding, At, Indexed
<1>11. NewScenesAreNew'
  BY <1>4, <1>5, <1>6, <1>7 DEF ShapeInv, NewScenesAreNew, Holds, Holding, At
<1> QED  BY <1>8, <1>9, <1>10, <1>11 DEF ShapeInv

(* A task takes its scene's lock.                                          *)
LEMMA TakeSceneLockShape ==
  ASSUME ShapeInv, NEW t \in Task, TakeSceneLock(t)
  PROVE  ShapeInv'
<1>1. /\ task[t] # Idle /\ task[t].at = "called" /\ Moves(t, "gated")
      /\ task[t].op.kind = "edit"
      /\ disk' = disk /\ index' = index /\ open' = open /\ acked' = acked
      /\ used' = used /\ overlapped' = overlapped /\ lost' = lost
  BY DEF TakeSceneLock, At, Gated
<1>2. /\ task' \in [Task -> Job \cup {Idle}]
      /\ task'[t] # Idle /\ task'[t].op = task[t].op /\ task'[t].at = "gated"
      /\ \A u \in Task : u # t => task'[u] = task[u]
  BY <1>1, MovesOn DEF ShapeInv, Phase
<1>3. TypeOK'
  BY <1>1, <1>2 DEF ShapeInv, TypeOK
<1>4. IndexIsThere'
  BY <1>1, <1>2 DEF ShapeInv, IndexIsThere, Indexed
<1>5. JobsAreSound'
  BY <1>1, <1>2 DEF ShapeInv, JobsAreSound, Holds, Holding, At, Indexed
<1>6. NewScenesAreNew'
  BY <1>1, <1>2 DEF ShapeInv, NewScenesAreNew, Holds, Holding, At
<1> QED  BY <1>3, <1>4, <1>5, <1>6 DEF ShapeInv

(* A command on the index alone.                                           *)
LEMMA EditRowShape ==
  ASSUME ShapeInv, NEW t \in Task, EditRow(t)
  PROVE  ShapeInv'
<1>1. /\ task[t] # Idle /\ RowOnly(task[t].op) /\ Ends(t)
      /\ index' = RowsAfter(task[t].op) /\ Acknowledge(task[t].op)
      /\ disk' = disk /\ open' = open /\ used' = used
      /\ overlapped' = overlapped /\ lost' = lost
  BY DEF EditRow
<1>2. task[t].op \in Op /\ index # NoIndex
  BY <1>1, JobType DEF ShapeInv, IndexIsThere
<1>3. /\ task' \in [Task -> Job \cup {Idle}] /\ task'[t] = Idle
      /\ \A u \in Task : u # t => task'[u] = task[u]
  BY <1>1, EndsAlone DEF ShapeInv
<1>4. /\ index' \in [Scene -> Row \cup {NoRow}]
      /\ \A s \in Scene : index'[s] = NoRow <=> index[s] = NoRow
  BY <1>1, <1>2, RowsAfterType DEF ShapeInv
<1>5. index' # NoIndex /\ \A s \in Scene : Indexed(s)' <=> Indexed(s)
  BY <1>2, <1>4, Absent DEF Indexed
<1>6. acked' \in [Scene -> [Field -> Maybe \cup {Unknown}]]
  BY <1>1, <1>2, AcknowledgeType DEF ShapeInv
<1>7. TypeOK'
  BY <1>1, <1>3, <1>4, <1>6 DEF ShapeInv, TypeOK
<1>8. IndexIsThere'
  BY <1>1, <1>5 DEF ShapeInv, IndexIsThere
<1>9. \A u \in Task : task[u] # Idle => task[u].op.scene \in Scene
  BY JobType, OpType DEF ShapeInv
<1>10. JobsAreSound'
  BY <1>1, <1>3, <1>5, <1>9 DEF ShapeInv, JobsAreSound, Holds, Holding, At
<1>11. NewScenesAreNew'
  BY <1>1, <1>3 DEF ShapeInv, NewScenesAreNew, Holds, Holding, At
<1> QED  BY <1>7, <1>8, <1>10, <1>11 DEF ShapeInv

(* A command reads its file, or finds none to read.                        *)
LEMMA ReadShape ==
  ASSUME ShapeInv, NEW t \in Task, Read(t)
  PROVE  ShapeInv'
<1>1. /\ task[t] # Idle /\ ~ RowOnly(task[t].op)
      /\ disk' = disk /\ index' = index /\ open' = open /\ acked' = acked
      /\ used' = used /\ overlapped' = overlapped /\ lost' = lost
  BY DEF Read
<1>2. task[t].op \in Op
  BY <1>1, JobType DEF ShapeInv
<1>3. CASE Ends(t)
  <2>1. /\ task' \in [Task -> Job \cup {Idle}] /\ task'[t] = Idle
        /\ \A u \in Task : u # t => task'[u] = task[u]
    BY <1>3, EndsAlone DEF ShapeInv
  <2>2. TypeOK'
    BY <1>1, <2>1 DEF ShapeInv, TypeOK
  <2>3. IndexIsThere'
    BY <1>1, <2>1 DEF ShapeInv, IndexIsThere, Indexed
  <2>4. JobsAreSound'
    BY <1>1, <2>1 DEF ShapeInv, JobsAreSound, Holds, Holding, At, Indexed
  <2>5. NewScenesAreNew'
    BY <1>1, <2>1 DEF ShapeInv, NewScenesAreNew, Holds, Holding, At
  <2> QED  BY <2>2, <2>3, <2>4, <2>5 DEF ShapeInv
<1>4. ASSUME NEW file \in File,
             task' = [task EXCEPT ![t].at = "holding", ![t].read = file],
             task[t].op.kind = "create" =>
                file = EmptyFile /\ task[t].at = "called"
      PROVE  ShapeInv'
  <2>1. /\ task' \in [Task -> Job \cup {Idle}]
        /\ task'[t] # Idle /\ task'[t].op = task[t].op
        /\ task'[t].at = "holding" /\ task'[t].read = file
        /\ \A u \in Task : u # t => task'[u] = task[u]
    BY <1>1, <1>4, ReadsOn DEF ShapeInv
  <2>2. TypeOK'
    BY <1>1, <2>1 DEF ShapeInv, TypeOK
  <2>3. IndexIsThere'
    BY <1>1, <2>1 DEF ShapeInv, IndexIsThere, Indexed
  <2>4. JobsAreSound'
    BY <1>1, <2>1 DEF ShapeInv, JobsAreSound, Holds, Holding, At, Indexed
  <2>5. NewScenesAreNew'
    BY <1>1, <1>4, <2>1 DEF ShapeInv, NewScenesAreNew, Holds, Holding, At
  <2> QED  BY <2>2, <2>3, <2>4, <2>5 DEF ShapeInv
<1>5. task[t].op.kind = "create" => task[t].at = "called"
  BY <1>1 DEF Read, MayEnter, Gated, At
<1>6. EmptyFile \in File
  BY EmptyType
<1> QED  BY <1>3, <1>4, <1>5, <1>6 DEF Read, Readable

(* No other command creates the scene a command has in its hands.          *)
LEMMA HandsOff ==
  ASSUME ShapeInv, NEW t \in Task, Holds(t)
  PROVE  /\ task[t].op \in Op /\ task[t].op.scene \in Scene
         /\ task[t].read \in File /\ ~ RowOnly(task[t].op)
         /\ task[t].op.kind \in {"edit", "create"}
         /\ task[t].op.field \in FileField /\ task[t].op.value \in Maybe
         /\ index # NoIndex
         /\ task[t].op.kind = "edit" => Indexed(task[t].op.scene)
         /\ \A u \in Task \ {t} :
              /\ task[u] # Idle /\ task[u].op.kind = "create"
              /\ At(u, "called") \/ At(u, "holding")
              => task[u].op.scene # task[t].op.scene
<1>1. /\ task[t] # Idle /\ task[t].read \in File /\ ~ RowOnly(task[t].op)
      /\ index # NoIndex
      /\ task[t].op.kind = "edit" => Indexed(task[t].op.scene)
  BY DEF Holds, ShapeInv, JobsAreSound, IndexIsThere
<1>2. task[t].op \in Op
  BY <1>1, JobType DEF ShapeInv
<1>3. /\ task[t].op.scene \in Scene /\ task[t].op.kind \in {"edit", "create"}
      /\ task[t].op.field \in FileField /\ task[t].op.value \in Maybe
  BY <1>1, <1>2, WrittenType
<1>4. task[t].op.kind = "edit" => disk[task[t].op.scene] # NoFile
  BY <1>1, <1>3 DEF ShapeInv, IndexIsThere
<1>5. ASSUME NEW u \in Task \ {t}, task[u] # Idle, task[u].op.kind = "create",
             At(u, "called") \/ At(u, "holding")
      PROVE  task[u].op.scene # task[t].op.scene
  <2>1. disk[task[u].op.scene] = NoFile
    BY <1>5 DEF ShapeInv, NewScenesAreNew
  <2>2. CASE task[t].op.kind = "edit"
    BY <1>4, <2>1, <2>2
  <2>3. CASE task[t].op.kind = "create"
    BY <1>1, <1>5, <2>3 DEF ShapeInv, NewScenesAreNew
  <2> QED  BY <1>3, <2>2, <2>3
<1> QED  BY <1>1, <1>2, <1>3, <1>5

(* A file is written: emptied, or filled.                                  *)
LEMMA WriteShape ==
  ASSUME ShapeInv, NEW t \in Task, Holds(t), NEW ph \in {"truncated", "written"},
         NEW file \in File \cup {Unreadable}, Moves(t, ph),
         disk' = [disk EXCEPT ![task[t].op.scene] = file],
         UNCHANGED <<index, open, used, acked, overlapped, lost>>
  PROVE  ShapeInv'
<1>1. /\ task' \in [Task -> Job \cup {Idle}]
      /\ task'[t] # Idle /\ task'[t].op = task[t].op /\ task'[t].at = ph
      /\ task'[t].read = task[t].read
      /\ \A u \in Task : u # t => task'[u] = task[u]
  BY MovesOn DEF ShapeInv, Phase, Holds
<1>2. /\ disk' \in [Scene -> File \cup {NoFile, Unreadable}]
      /\ disk'[task[t].op.scene] # NoFile
      /\ \A s \in Scene : s # task[t].op.scene => disk'[s] = disk[s]
  BY HandsOff, Absent DEF ShapeInv, TypeOK
<1>3. TypeOK'
  BY <1>1, <1>2 DEF ShapeInv, TypeOK
<1>4. IndexIsThere'
  BY <1>1, <1>2 DEF ShapeInv, IndexIsThere, Indexed, Holds
<1>5. \A u \in Task : task[u] # Idle => task[u].op.scene \in Scene
  BY JobType, OpType DEF ShapeInv
<1>6. JobsAreSound'
  BY <1>1, <1>2, <1>5 DEF ShapeInv, JobsAreSound, Holds, Holding, At, Indexed
<1>7. NewScenesAreNew'
  BY <1>1, <1>2, <1>5, HandsOff DEF ShapeInv, NewScenesAreNew, Holds, Holding, At
<1> QED  BY <1>3, <1>4, <1>6, <1>7 DEF ShapeInv

(* A command empties its file.                                             *)
LEMMA TruncateShape ==
  ASSUME ShapeInv, NEW t \in Task, Truncate(t)
  PROVE  ShapeInv'
BY WriteShape DEF Truncate, At, Holds, Holding

(* A command fills its file.                                               *)
LEMMA FillShape ==
  ASSUME ShapeInv, NEW t \in Task, Fill(t)
  PROVE  ShapeInv'
<1>1. Holds(t)
  BY DEF Fill, At, Holds, Holding
<1>2. Written(task[t].read, task[t].op) \in File
  BY <1>1, HandsOff, WrittenType
<1> QED  BY <1>1, <1>2, WriteShape DEF Fill

(* A command ends; the rows there are stay.                                *)
LEMMA EndShape ==
  ASSUME ShapeInv, NEW t \in Task, task[t] # Idle, Ends(t),
         disk' = disk, open' = open, lost' = lost, overlapped' = overlapped,
         used' \in [Event -> Nat], \A e \in Event : used'[e] <= Limit[e],
         acked' \in [Scene -> [Field -> Maybe \cup {Unknown}]],
         index' \in [Scene -> Row \cup {NoRow}],
         \A s \in Scene : index[s] # NoRow => index'[s] # NoRow,
         \A s \in Scene : index'[s] # NoRow => index[s] # NoRow \/ disk[s] # NoFile
  PROVE  ShapeInv'
<1>1. /\ task' \in [Task -> Job \cup {Idle}] /\ task'[t] = Idle
      /\ \A u \in Task : u # t => task'[u] = task[u]
  BY EndsAlone DEF ShapeInv
<1>2. index' # NoIndex /\ index # NoIndex
  BY Absent DEF ShapeInv, IndexIsThere
<1>3. \A s \in Scene : /\ Indexed(s) => Indexed(s)'
                       /\ Indexed(s)' => Indexed(s) \/ disk[s] # NoFile
  BY <1>2 DEF Indexed
<1>4. TypeOK'
  BY <1>1 DEF ShapeInv, TypeOK
<1>5. IndexIsThere'
  BY <1>1, <1>2, <1>3 DEF ShapeInv, IndexIsThere
<1>6. \A u \in Task : task[u] # Idle => task[u].op.scene \in Scene
  BY JobType, OpType DEF ShapeInv
<1>7. JobsAreSound'
  BY <1>1, <1>3, <1>6 DEF ShapeInv, JobsAreSound, Holds, Holding, At
<1>8. NewScenesAreNew'
  BY <1>1 DEF ShapeInv, NewScenesAreNew, Holds, Holding, At
<1> QED  BY <1>4, <1>5, <1>7, <1>8 DEF ShapeInv

(* The file cannot be filled.                                              *)
LEMMA FailToFillShape ==
  ASSUME ShapeInv, NEW t \in Task, FailToFill(t)
  PROVE  ShapeInv'
<1>1. index \in [Scene -> Row \cup {NoRow}]
  BY DEF FailToFill, At, ShapeInv, IndexIsThere, TypeOK
<1>2. used' \in [Event -> Nat] /\ \A e \in Event : used'[e] <= Limit[e]
  BY Spends DEF FailToFill, ShapeInv, Event
<1> QED  BY <1>1, <1>2, EndShape DEF FailToFill, At, ShapeInv, TypeOK

(* The row cannot be written.                                              *)
LEMMA FailToUpdateRowShape ==
  ASSUME ShapeInv, NEW t \in Task, FailToUpdateRow(t)
  PROVE  ShapeInv'
<1>1. index \in [Scene -> Row \cup {NoRow}]
  BY DEF FailToUpdateRow, At, ShapeInv, IndexIsThere, TypeOK
<1>2. used' \in [Event -> Nat] /\ \A e \in Event : used'[e] <= Limit[e]
  BY Spends DEF FailToUpdateRow, ShapeInv, Event
<1>3. task[t].op.scene \in Scene /\ task[t].op.field \in Field
  BY JobType, OpType DEF FailToUpdateRow, At, ShapeInv
<1>4. acked' \in [Scene -> [Field -> Maybe \cup {Unknown}]]
  BY <1>3 DEF FailToUpdateRow, ShapeInv, TypeOK
<1> QED  BY <1>1, <1>2, <1>4, EndShape DEF FailToUpdateRow, At

(* The row of a written file.                                              *)
LEMMA UpdatedRow ==
  ASSUME ShapeInv, NEW t \in Task, UpdateRow(t)
  PROVE  LET op == task[t].op
             row == IF op.kind = "create" THEN EmptyRow ELSE index[op.scene]
         IN  /\ row \in Row /\ RowAfter(row, op) \in Row
             /\ index \in [Scene -> Row \cup {NoRow}]
             /\ index' \in [Scene -> Row \cup {NoRow}]
             /\ index'[op.scene] = RowAfter(row, op)
             /\ \A s \in Scene : s # op.scene => index'[s] = index[s]
<1>1. PICK op \in Op : op = task[t].op
  BY JobType DEF UpdateRow, At, ShapeInv
<1>2. Holds(t)
  BY DEF UpdateRow, At, Holds, Holding
<1>3. index \in [Scene -> Row \cup {NoRow}]
  BY <1>2, HandsOff DEF ShapeInv, TypeOK
<1>4. PICK row : row = IF op.kind = "create" THEN EmptyRow ELSE index[op.scene]
  OBVIOUS
<1>5. row \in Row
  BY <1>1, <1>2, <1>3, <1>4, HandsOff, EmptyType DEF Indexed
<1>6. RowAfter(row, op) \in Row
  BY <1>1, <1>2, <1>5, HandsOff, RowAfterType
<1>7. index' = [index EXCEPT ![op.scene] = RowAfter(row, op)]
  BY <1>1, <1>4 DEF UpdateRow
<1>8. op.scene \in Scene
  BY OpType
<1> QED  BY <1>1, <1>3, <1>4, <1>5, <1>6, <1>7, <1>8

(* A command writes the row of its file, and ends.                         *)
LEMMA UpdateRowShape ==
  ASSUME ShapeInv, NEW t \in Task, UpdateRow(t)
  PROVE  ShapeInv'
<1>1. /\ task[t] # Idle /\ Holds(t) /\ Ends(t) /\ Acknowledge(task[t].op)
      /\ disk[task[t].op.scene] # NoFile
      /\ UNCHANGED <<disk, open, used, overlapped, lost>>
  BY DEF UpdateRow, At, Holds, Holding, ShapeInv, JobsAreSound
<1>2. acked' \in [Scene -> [Field -> Maybe \cup {Unknown}]]
  BY <1>1, AcknowledgeType, HandsOff DEF ShapeInv
<1>3. PICK r \in Row : /\ index'[task[t].op.scene] = r
                       /\ index' \in [Scene -> Row \cup {NoRow}]
                       /\ \A s \in Scene : s # task[t].op.scene => index'[s] = index[s]
  BY UpdatedRow
<1> QED  BY <1>1, <1>2, <1>3, EndShape, Absent, HandsOff DEF ShapeInv, TypeOK

(* What a repair finds: rows with files, or none for a running command.    *)
LEMMA RepairFinds ==
  ASSUME ShapeInv
  PROVE  /\ OpenedIndex \in [Scene -> Row \cup {NoRow}]
         /\ \A s \in Scene : OpenedIndex[s] # NoRow => disk[s] # NoFile
         /\ \A t \in Task : task[t] # Idle => OpenedIndex = index
         /\ index # NoIndex => \A s \in Scene : Indexed(s) <=> OpenedIndex[s] # NoRow
<1>1. CASE index = NoIndex
  <2>1. OpenedIndex = Rebuilt
    BY <1>1 DEF OpenedIndex
  <2> QED  BY <1>1, <2>1, RebuildType, Absent DEF Readable, ShapeInv, IndexIsThere
<1>2. CASE index # NoIndex
  BY <1>2, IndexIsKept DEF ShapeInv, TypeOK, IndexIsThere, Indexed
<1> QED  BY <1>1, <1>2

(* A step that leaves the tasks alone, and every row and every file where  *)
(* they are.                                                               *)
LEMMA RestShape ==
  ASSUME ShapeInv, TypeOK', task' = task,
         \A s \in Scene : disk'[s] = NoFile <=> disk[s] = NoFile,
         index' # NoIndex,
         \A s \in Scene : index'[s] # NoRow => disk[s] # NoFile,
         \A t \in Task : task[t] # Idle =>
            \A s \in Scene : Indexed(s) => index'[s] # NoRow
  PROVE  ShapeInv'
<1>1. \A u \in Task : task[u] # Idle => task[u].op.scene \in Scene
  BY JobType, OpType DEF ShapeInv
<1>2. IndexIsThere'
  BY DEF IndexIsThere, Indexed
<1>3. JobsAreSound'
  BY <1>1 DEF ShapeInv, JobsAreSound, Holds, At, Indexed
<1>4. NewScenesAreNew'
  BY <1>1 DEF ShapeInv, NewScenesAreNew, Holds, At
<1> QED  BY <1>2, <1>3, <1>4 DEF ShapeInv

(* The repair of an opening, successful or not.                            *)
LEMMA RepairShape ==
  ASSUME ShapeInv, Repair, task' = task, lost' \in BOOLEAN, open' \in BOOLEAN,
         overlapped' \in BOOLEAN,
         used' \in [Event -> Nat], \A e \in Event : used'[e] <= Limit[e],
         acked' \in [Scene -> [Field -> Maybe \cup {Unknown}]]
  PROVE  ShapeInv'
<1>1. TypeOK'
  BY RepairType DEF ShapeInv, TypeOK
<1>2. index' # NoIndex
  BY RepairType, Absent DEF ShapeInv
<1> QED  BY <1>1, <1>2, RepairType, RepairFinds, RestShape DEF Indexed, ShapeInv

(* The project opens.                                                      *)
LEMMA OpenProjectShape ==
  ASSUME ShapeInv, OpenProject
  PROVE  ShapeInv'
<1>1. used' \in [Event -> Nat] /\ \A e \in Event : used'[e] <= Limit[e]
  BY Spends DEF OpenProject, ShapeInv, Event
<1>2. overlapped' \in BOOLEAN
  BY DEF OpenProject, ShapeInv, TypeOK
<1>3. acked' \in [Scene -> [Field -> Maybe \cup {Unknown}]]
  <2>1. ASSUME NEW s \in Repaired
        PROVE  disk[s].fields["text"] \in Maybe /\ s \in Scene
    <3>1. s \in Scene /\ Readable(s)
      BY RepairType DEF OpenProject, ShapeInv, Repaired, Files
    <3> QED  BY <3>1 DEF Readable, File, FileField
  <2>2. acked \in [Scene -> [Field -> Maybe \cup {Unknown}]]
    BY DEF ShapeInv, TypeOK
  <2>3. ASSUME NEW s \in Repaired
        PROVE  [acked[s] EXCEPT !["text"] = disk[s].fields["text"]]
                  \in [Field -> Maybe \cup {Unknown}]
    BY <2>1, <2>2
  <2> QED  BY <2>2, <2>3 DEF OpenProject
<1> QED  BY <1>1, <1>2, <1>3, RepairShape DEF OpenProject

(* The project does not open.                                              *)
LEMMA OpenFailsShape ==
  ASSUME ShapeInv, OpenFails
  PROVE  ShapeInv'
<1>1. CASE RebuildFails /\ index' = Rebuilt /\ UNCHANGED disk
  <2>1. index = NoIndex
    BY <1>1 DEF RebuildFails
  <2>2. index' \in [Scene -> Row \cup {NoRow}] /\ index' # NoIndex
    BY <1>1, RebuildType, Absent DEF ShapeInv
  <2>3. TypeOK'
    BY <1>1, <2>2 DEF ShapeInv, TypeOK, OpenFails
  <2>4. \A s \in Scene : index'[s] # NoRow => disk[s] # NoFile
    BY <1>1, RebuildType, Absent DEF ShapeInv, Readable
  <2> QED  BY <1>1, <2>1, <2>2, <2>3, <2>4, RestShape
           DEF OpenFails, ShapeInv, IndexIsThere
<1>2. CASE Repair
  BY <1>2, RepairShape DEF OpenFails, ShapeInv, TypeOK
<1> QED  BY <1>1, <1>2 DEF OpenFails

(* The project closes.                                                     *)
LEMMA CloseProjectShape ==
  ASSUME ShapeInv, CloseProject
  PROVE  ShapeInv'
<1>1. index # NoIndex
  BY DEF CloseProject, ShapeInv, IndexIsThere
<1>2. TypeOK'
  BY DEF CloseProject, ShapeInv, TypeOK
<1>3. \A s \in Scene : index[s] # NoRow => disk[s] # NoFile
  BY <1>1 DEF ShapeInv, IndexIsThere, Indexed
<1> QED  BY <1>1, <1>2, <1>3, RestShape DEF CloseProject, Indexed

(* The process ends.                                                       *)
LEMMA CrashShape ==
  ASSUME ShapeInv, Crash
  PROVE  ShapeInv'
<1>1. /\ used' \in [Event -> Nat] /\ \A e \in Event : used'[e] <= Limit[e]
      /\ task' = [t \in Task |-> Idle] /\ open' = FALSE
      /\ UNCHANGED <<disk, index, overlapped, lost>>
  BY Spends DEF Crash, ShapeInv, Event
<1>2. acked' \in [Scene -> [Field -> Maybe \cup {Unknown}]]
  BY DEF Crash, ShapeInv, TypeOK
<1>3. TypeOK'
  BY <1>1, <1>2 DEF ShapeInv, TypeOK
<1> QED  BY <1>1, <1>3
         DEF ShapeInv, IndexIsThere, JobsAreSound, NewScenesAreNew, Holds, At, Indexed

(* The index is deleted while nothing runs.                                *)
LEMMA LoseDatabaseShape ==
  ASSUME ShapeInv, LoseDatabase
  PROVE  ShapeInv'
<1>1. used' \in [Event -> Nat] /\ \A e \in Event : used'[e] <= Limit[e]
  BY Spends DEF LoseDatabase, ShapeInv, Event
<1>2. TypeOK'
  BY <1>1 DEF LoseDatabase, ShapeInv, TypeOK
<1> QED  BY <1>2
         DEF LoseDatabase, ShapeInv, IndexIsThere, JobsAreSound, NewScenesAreNew,
             Holds, At, Indexed

(* Another program edits, breaks or mends a file.                          *)
LEMMA OutsideShape ==
  ASSUME ShapeInv, NEW s \in Scene, NEW v \in Maybe,
         EditOutside(s, v) \/ BreakOutside(s) \/ MendOutside(s, v)
  PROVE  ShapeInv'
<1>1. /\ disk[s] # NoFile /\ Spend("outside")
      /\ UNCHANGED <<index, open, task, overlapped, lost>>
  BY Absent DEF EditOutside, BreakOutside, MendOutside, Readable
<1>2. used' \in [Event -> Nat] /\ \A e \in Event : used'[e] <= Limit[e]
  BY <1>1, Spends DEF ShapeInv, Event
<1>3. v \in Maybe
  OBVIOUS
<1>4. PICK file \in File \cup {Unreadable} : disk' = [disk EXCEPT ![s] = file]
  <2>1. CASE EditOutside(s, v)
    <3>1. disk[s] \in File /\ disk' = [disk EXCEPT ![s].fields["text"] = v]
      BY <2>1 DEF EditOutside, Readable
    <3>2. [disk[s] EXCEPT !.fields["text"] = v] \in File
      BY <1>3, <3>1 DEF File
    <3>3. disk' = [disk EXCEPT ![s] = [disk[s] EXCEPT !.fields["text"] = v]]
      BY <3>1
    <3> QED  BY <3>2, <3>3
  <2>2. CASE BreakOutside(s)
    BY <2>2 DEF BreakOutside
  <2>3. CASE MendOutside(s, v)
    <3>1. [EmptyFile EXCEPT !.fields["text"] = v] \in File
      BY <1>3 DEF EmptyFile, File, Maybe
    <3> QED  BY <2>3, <3>1 DEF MendOutside
  <2> QED  BY <2>1, <2>2, <2>3
<1>5. /\ disk' \in [Scene -> File \cup {NoFile, Unreadable}]
      /\ \A x \in Scene : disk'[x] = NoFile <=> disk[x] = NoFile
  BY <1>1, <1>4, Absent DEF ShapeInv, TypeOK
<1>6. acked' \in [Scene -> [Field -> Maybe \cup {Unknown}]]
  <2>1. acked \in [Scene -> [Field -> Maybe \cup {Unknown}]]
    BY DEF ShapeInv, TypeOK
  <2>2. CASE EditOutside(s, v)
    BY <2>1, <2>2 DEF EditOutside
  <2>3. CASE BreakOutside(s)
    BY <2>1, <2>3 DEF BreakOutside
  <2>4. CASE MendOutside(s, v)
    BY <2>1, <2>4 DEF MendOutside
  <2> QED  BY <2>2, <2>3, <2>4
<1>7. TypeOK'
  BY <1>1, <1>2, <1>5, <1>6 DEF ShapeInv, TypeOK
<1>8. \A u \in Task : task[u] # Idle => task[u].op.scene \in Scene
  BY JobType, OpType DEF ShapeInv
<1>9. IndexIsThere'
  BY <1>1, <1>5 DEF ShapeInv, IndexIsThere, Indexed
<1>10. JobsAreSound'
  BY <1>1, <1>5, <1>8 DEF ShapeInv, JobsAreSound, Holds, At, Indexed
<1>11. NewScenesAreNew'
  BY <1>1, <1>5, <1>8 DEF ShapeInv, NewScenesAreNew, Holds, At
<1> QED  BY <1>7, <1>9, <1>10, <1>11 DEF ShapeInv

(* Every step keeps the shape.                                             *)
LEMMA ShapeInductive == Spec => []ShapeInv
<1>1. SceneInit => ShapeInv
  <2> SUFFICES ASSUME SceneInit PROVE ShapeInv
    OBVIOUS
  <2>1. TypeOK
    <3>1. \A e \in Event : Limit[e] >= 0
      BY SceneAssumption
    <3>2. index \in [Scene -> Row \cup {NoRow}] /\ disk \in [Scene -> File \cup {NoFile, Unreadable}]
      BY EmptyType DEF SceneInit
    <3>3. acked \in [Scene -> [Field -> Maybe \cup {Unknown}]]
      BY DEF SceneInit, Nothing
    <3>4. used \in [Event -> Nat] /\ \A e \in Event : used[e] <= Limit[e]
      BY <3>1 DEF SceneInit
    <3> QED  BY <3>2, <3>3, <3>4 DEF SceneInit, TypeOK
  <2>2. \A s \in Scene : Indexed(s) => disk[s] # NoFile
    BY EmptyType, Absent, SceneAssumption DEF SceneInit, Indexed
  <2> QED  BY <2>1, <2>2 DEF SceneInit, ShapeInv, IndexIsThere, JobsAreSound, NewScenesAreNew
<1>2. ShapeInv /\ [Next]_vars => ShapeInv'
  <2> SUFFICES ASSUME ShapeInv, [Next]_vars PROVE ShapeInv'
    OBVIOUS
  <2>1. CASE UNCHANGED vars
    BY <2>1
    DEF vars, ShapeInv, TypeOK, IndexIsThere, JobsAreSound, NewScenesAreNew,
        Holds, At, Indexed
  <2>2. ASSUME NEW t \in Task, NEW op \in Offered, Call(t, op) PROVE ShapeInv'
    BY <2>2, CallShape
  <2>3. ASSUME NEW t \in Task, TaskStep(t) PROVE ShapeInv'
    BY <2>3, TakeSceneLockShape, EditRowShape, ReadShape, TruncateShape, FillShape,
       UpdateRowShape
    DEF TaskStep
  <2>4. ASSUME NEW t \in Task, FailToFill(t) \/ FailToUpdateRow(t) PROVE ShapeInv'
    BY <2>4, FailToFillShape, FailToUpdateRowShape
  <2>5. CASE OpenProject \/ OpenFails \/ CloseProject
    BY <2>5, OpenProjectShape, OpenFailsShape, CloseProjectShape
  <2>6. CASE Crash \/ LoseDatabase
    BY <2>6, CrashShape, LoseDatabaseShape
  <2>7. ASSUME NEW s \in Scene, BreakOutside(s) PROVE ShapeInv'
    BY <2>7, OutsideShape DEF Maybe
  <2>8. ASSUME NEW s \in Scene, NEW v \in Value, EditOutside(s, v) \/ MendOutside(s, v)
        PROVE  ShapeInv'
    BY <2>8, OutsideShape DEF Maybe
  <2> QED  BY <2>1, <2>2, <2>3, <2>4, <2>5, <2>6, <2>7, <2>8 DEF Next
<1> QED  BY <1>1, <1>2, PTL DEF Spec

(* The scenes of a project, the commands on them and the index are what    *)
(* they should be in every reachable state.                                *)
THEOREM ScenesTypeCorrect == Spec => []TypeOK
<1>1. ShapeInv => TypeOK
  BY DEF ShapeInv
<1> QED  BY <1>1, ShapeInductive, PTL

-----------------------------------------------------------------------------
(* Every step keeps what was saved, while all commands share one mutex.    *)

(* The mutex stays exclusive when no task gets hold of it.                 *)
LEMMA LocksStay ==
  ASSUME LocksExclude, overlapped' = overlapped, used'["open"] = used["open"],
         \A u \in Task : task'[u] # Idle =>
            \/ task[u] # Idle /\ task'[u].opening = task[u].opening
            \/ task'[u].opening = used["open"],
         \A u \in Task : Holds(u)' => Holds(u)
  PROVE  LocksExclude'
BY DEF LocksExclude

(* Steps that touch no file, no row and no promise, and give nobody the    *)
(* mutex.                                                                  *)
LEMMA SameHolders ==
  ASSUME SavedInv, LocksExclude',
         UNCHANGED <<disk, index, acked, overlapped>>, open' => open,
         \A u \in Task : Holds(u)' => Holds(u) /\ task'[u] = task[u],
         \A u \in Task : At(u, "written") => task'[u] = task[u]
  PROVE  SavedInv'
<1>1. ASSUME NEW s \in Scene, NEW f
      PROVE  Promised(s, f)' => Promised(s, f)
  BY DEF Promised, InFlight, At
<1>2. WritersCarryTheFile'
  BY DEF SavedInv, WritersCarryTheFile, Holds, At, Readable
<1>3. NothingIsPromisedUnwritten'
  BY DEF SavedInv, NothingIsPromisedUnwritten
<1>4. EditsSurvive'
  BY <1>1 DEF SavedInv, EditsSurvive, Keeps, Readable, Indexed
<1>5. CountsFollowTheText'
  BY <1>1 DEF SavedInv, CountsFollowTheText, Indexed
<1> QED  BY <1>2, <1>3, <1>4, <1>5 DEF SavedInv

(* A command starts.                                                       *)
LEMMA CallSaves ==
  ASSUME ShapeInv, SavedInv, NEW t \in Task, NEW op \in Offered, Call(t, op)
  PROVE  SavedInv'
<1> DEFINE j == [op |-> op, opening |-> used["open"], at |-> "called", read |-> None]
<1>1. /\ task[t] = Idle /\ Spend("call") /\ task' = [task EXCEPT ![t] = j]
      /\ UNCHANGED <<disk, index, open, acked, overlapped, lost>>
  BY DEF Call
<1>2. j.opening = used["open"] /\ j.at = "called"
  OBVIOUS
<1> HIDE DEF j
<1>3. /\ task'[t] = j /\ \A u \in Task : u # t => task'[u] = task[u]
  BY <1>1 DEF ShapeInv, TypeOK
<1>4. used'["open"] = used["open"]
  BY <1>1, Spends DEF ShapeInv, Event
<1>5. \A u \in Task : Holds(u)' => Holds(u) /\ task'[u] = task[u]
  BY <1>2, <1>3 DEF Holds, Holding
<1>6. LocksExclude'
  BY <1>1, <1>2, <1>3, <1>4, <1>5, LocksStay DEF SavedInv
<1> QED  BY <1>1, <1>3, <1>5, <1>6, SameHolders DEF At

(* A task takes its scene's lock.                                          *)
LEMMA TakeSceneLockSaves ==
  ASSUME ShapeInv, SavedInv, NEW t \in Task, TakeSceneLock(t)
  PROVE  SavedInv'
<1>1. /\ task[t] # Idle /\ task[t].at = "called" /\ Moves(t, "gated")
      /\ UNCHANGED <<disk, index, open, used, acked, overlapped, lost>>
  BY DEF TakeSceneLock, At
<1>2. /\ task'[t].at = "gated" /\ task'[t].opening = task[t].opening
      /\ \A u \in Task : u # t => task'[u] = task[u]
  BY <1>1, MovesOn DEF ShapeInv, Phase
<1>3. \A u \in Task : Holds(u)' => Holds(u) /\ task'[u] = task[u]
  BY <1>2 DEF Holds, Holding
<1>4. LocksExclude'
  BY <1>1, <1>2, <1>3, LocksStay DEF SavedInv
<1> QED  BY <1>1, <1>2, <1>3, <1>4, SameHolders DEF At

(* Whoever may enter the mutex finds nobody inside.                        *)
LEMMA EntersAlone ==
  ASSUME SavedInv, NEW t \in Task, task[t] # Idle, MayEnter(t), ~ overlapped
  PROVE  \A u \in Task : ~ Holds(u)
<1>1. ~ Holds(t)
  BY DEF MayEnter, At, Holds, Holding
<1>2. ASSUME NEW u \in Task, u # t PROVE ~ Holds(u)
  BY <1>2 DEF MayEnter, DatabaseFree, Contenders, SavedInv, LocksExclude, Holds
<1> QED  BY <1>1, <1>2

(* A command on the index alone leaves files and prose alone.              *)
LEMMA EditRowSaves ==
  ASSUME ShapeInv, SavedInv, NEW t \in Task, EditRow(t)
  PROVE  SavedInv'
<1>1. /\ task[t] # Idle /\ RowOnly(task[t].op) /\ Ends(t) /\ MayEnter(t)
      /\ index' = RowsAfter(task[t].op) /\ Acknowledge(task[t].op)
      /\ disk' = disk /\ open' = open /\ used' = used
      /\ overlapped' = overlapped /\ lost' = lost
  BY DEF EditRow
<1>2. task[t].op \in Op /\ index # NoIndex
  BY <1>1, JobType DEF ShapeInv, IndexIsThere
<1>3. /\ task'[t] = Idle
      /\ \A u \in Task : u # t => task'[u] = task[u]
  BY <1>1, EndsAlone DEF ShapeInv
<1>4. \A s \in Scene :
         /\ index'[s] = NoRow <=> index[s] = NoRow
         /\ index[s] # NoRow => index'[s].words = index[s].words
         /\ index[s] # NoRow => \A f \in Prose \cap RowField :
                    index'[s].fields[f] = index[s].fields[f]
  BY <1>1, <1>2, RowsAfterType DEF ShapeInv
<1>5. index' # NoIndex
  BY <1>1, <1>2, RowsAfterType, Absent DEF ShapeInv
<1>6. \A s \in Scene, f \in Prose : acked'[s][f] = acked[s][f]
  <2>1. task[t].op.field \notin Prose
    BY <1>1, <1>2, SceneAssumption
    DEF Op, EditOp, CreateOp, ResetOp, RowOnly, Field, FileField, RowField, Prose
  <2> QED  BY <1>1, <1>2, <2>1, AcknowledgeType DEF ShapeInv
<1>7. ~ At(t, "written")
  BY <1>1 DEF MayEnter, At
<1>8. ASSUME NEW s \in Scene, NEW f \in Prose
      PROVE  Promised(s, f)' => Promised(s, f)
  BY <1>3, <1>6, <1>7 DEF Promised, InFlight, At
<1>9. \A u \in Task : Holds(u)' => Holds(u) /\ task'[u] = task[u]
  BY <1>3 DEF Holds
<1>10. LocksExclude'
  BY <1>1, <1>3, <1>9, LocksStay DEF SavedInv
<1>11. \A u \in Task : Holds(u) => task[u].op.scene \in Scene
  BY HandsOff
<1>12. WritersCarryTheFile'
  BY <1>1, <1>6, <1>9, <1>11 DEF SavedInv, WritersCarryTheFile, At, Readable, Holds
<1>13. NothingIsPromisedUnwritten'
  BY <1>1, <1>6 DEF SavedInv, NothingIsPromisedUnwritten
<1>14. EditsSurvive'
  BY <1>1, <1>2, <1>4, <1>6, <1>8
  DEF SavedInv, EditsSurvive, Keeps, Readable, Indexed, Prose, RowField
<1>15. CountsFollowTheText'
  BY <1>1, <1>2, <1>4, <1>6, <1>8 DEF SavedInv, CountsFollowTheText, Indexed, Prose
<1> QED  BY <1>10, <1>12, <1>13, <1>14, <1>15 DEF SavedInv

(* A command that reads its file carries everything saved of it.           *)
LEMMA ReadSaves ==
  ASSUME ShapeInv, SavedInv, NEW t \in Task, Read(t)
  PROVE  SavedInv'
<1>1. /\ task[t] # Idle /\ MayEnter(t) /\ ~ RowOnly(task[t].op)
      /\ UNCHANGED <<disk, index, open, used, acked, overlapped, lost>>
  BY DEF Read
<1>2. task[t].op \in Op /\ task[t].op.scene \in Scene
  BY <1>1, JobType, OpType DEF ShapeInv
<1>3. ~ At(t, "written") /\ ~ Holds(t)
  BY <1>1 DEF MayEnter, At, Holds, Holding
<1>4. CASE Ends(t)
  <2>1. /\ task'[t] = Idle
        /\ \A u \in Task : u # t => task'[u] = task[u]
    BY <1>4, EndsAlone DEF ShapeInv
  <2>2. \A u \in Task : Holds(u)' => Holds(u) /\ task'[u] = task[u]
    BY <2>1 DEF Holds
  <2>3. LocksExclude'
    BY <1>1, <2>1, <2>2, LocksStay DEF SavedInv
  <2> QED  BY <1>1, <1>3, <2>1, <2>2, <2>3, SameHolders DEF At
<1>5. ASSUME NEW file \in File,
             task' = [task EXCEPT ![t].at = "holding", ![t].read = file],
             \/ disk[task[t].op.scene] = file
             \/ disk[task[t].op.scene] = NoFile
      PROVE  SavedInv'
  <2>1. /\ task'[t] # Idle /\ task'[t].op = task[t].op
        /\ task'[t].opening = task[t].opening
        /\ task'[t].at = "holding" /\ task'[t].read = file
        /\ \A u \in Task : u # t => task'[u] = task[u]
    BY <1>1, <1>5, ReadsOn DEF ShapeInv
  <2>2. ~ overlapped => \A u \in Task : ~ Holds(u)
    BY <1>1, EntersAlone
  <2>3. LocksExclude'
    BY <1>1, <2>1, <2>2 DEF SavedInv, LocksExclude, Holds
  <2>4. ASSUME NEW s \in Scene, NEW f
        PROVE  Promised(s, f)' <=> Promised(s, f)
    BY <1>1, <1>3, <2>1 DEF Promised, InFlight, At
  <2>5. ~ overlapped => ~ InFlight(task[t].op.scene, "text")
                     /\ ~ InFlight(task[t].op.scene, "name")
                     /\ ~ InFlight(task[t].op.scene, "summary")
    BY <2>2 DEF InFlight, At, Holds, Holding
  <2>6. WritersCarryTheFile'
    <3>1. ASSUME ~ overlapped, NEW f \in Prose,
                 acked[task[t].op.scene][f] # Unknown
          PROVE  file.fields[f] = acked[task[t].op.scene][f]
      <4>1. disk[task[t].op.scene] = file
        BY <1>2, <1>5, <3>1 DEF SavedInv, NothingIsPromisedUnwritten
      <4>2. Promised(task[t].op.scene, f)
        BY <2>5, <3>1 DEF Promised, Prose
      <4> QED  BY <1>2, <1>5, <3>1, <4>1, <4>2
               DEF SavedInv, EditsSurvive, Keeps, Readable, Prose, FileField
    <3> QED  BY <1>1, <2>1, <2>2, <3>1 DEF WritersCarryTheFile, Holds, At
  <2>7. NothingIsPromisedUnwritten'
    BY <1>1 DEF SavedInv, NothingIsPromisedUnwritten
  <2>8. EditsSurvive'
    BY <1>1, <2>4 DEF SavedInv, EditsSurvive, Keeps, Readable, Indexed
  <2>9. CountsFollowTheText'
    BY <1>1, <2>4 DEF SavedInv, CountsFollowTheText, Indexed
  <2> QED  BY <2>3, <2>6, <2>7, <2>8, <2>9 DEF SavedInv
<1>6. CASE task[t].op.kind = "create" /\ ~ Ends(t)
  <2>1. task[t].at = "called"
    BY <1>1, <1>6 DEF MayEnter, Gated, At
  <2>2. disk[task[t].op.scene] = NoFile
    BY <1>1, <1>6, <2>1 DEF ShapeInv, NewScenesAreNew, At
  <2> QED  BY <1>5, <1>6, <2>2, EmptyType DEF Read
<1>7. CASE task[t].op.kind # "create" /\ ~ Ends(t)
  BY <1>5, <1>7 DEF Read, Readable
<1> QED  BY <1>4, <1>6, <1>7

(* The command in the mutex goes on: it still carries what is promised.    *)
LEMMA HolderGoesOn ==
  ASSUME ShapeInv, SavedInv, NEW t \in Task, Holds(t), NEW ph \in Holding,
         Moves(t, ph), UNCHANGED <<used, overlapped>>
  PROVE  /\ task'[t] # Idle /\ task'[t].op = task[t].op /\ task'[t].at = ph
         /\ task'[t].read = task[t].read
         /\ \A u \in Task : u # t => task'[u] = task[u]
         /\ \A u \in Task : Holds(u)' => Holds(u)
         /\ ~ overlapped => \A u \in Task : Holds(u)' => u = t
         /\ LocksExclude'
<1>1. /\ task'[t] # Idle /\ task'[t].op = task[t].op /\ task'[t].at = ph
      /\ task'[t].read = task[t].read /\ task'[t].opening = task[t].opening
      /\ \A u \in Task : u # t => task'[u] = task[u]
  BY MovesOn DEF ShapeInv, Phase, Holding, Holds
<1>2. \A u \in Task : Holds(u)' => Holds(u)
  BY <1>1 DEF Holds
<1>3. LocksExclude'
  BY <1>1, <1>2, LocksStay DEF SavedInv, Holds
<1> QED  BY <1>1, <1>2, <1>3 DEF SavedInv, LocksExclude

(* A torn file breaks no promise: the command carries them all.            *)
LEMMA TruncateSaves ==
  ASSUME ShapeInv, SavedInv, NEW t \in Task, Truncate(t)
  PROVE  SavedInv'
<1>1. /\ Holds(t) /\ task[t].at = "holding" /\ Moves(t, "truncated")
      /\ disk' = [disk EXCEPT ![task[t].op.scene] = Unreadable]
      /\ UNCHANGED <<index, open, used, acked, overlapped, lost>>
  BY DEF Truncate, At, Holds, Holding
<1>2. /\ task'[t] # Idle /\ task'[t].op = task[t].op /\ task'[t].at = "truncated"
      /\ task'[t].read = task[t].read
      /\ \A u \in Task : u # t => task'[u] = task[u]
      /\ \A u \in Task : Holds(u)' => Holds(u)
      /\ ~ overlapped => \A u \in Task : Holds(u)' => u = t
      /\ LocksExclude'
  BY <1>1, HolderGoesOn DEF Holding
<1>3. task[t].op.scene \in Scene
  BY <1>1, HandsOff
<1>4. \A s \in Scene : IF s = task[t].op.scene THEN disk'[s] = Unreadable
                                               ELSE disk'[s] = disk[s]
  BY <1>1 DEF ShapeInv, TypeOK
<1>5. ASSUME NEW s \in Scene, NEW f
      PROVE  Promised(s, f)' => Promised(s, f)
  BY <1>1, <1>2 DEF Promised, InFlight, At
<1>6. WritersCarryTheFile'
  BY <1>1, <1>2 DEF SavedInv, WritersCarryTheFile, Holds, At
<1>7. NothingIsPromisedUnwritten'
  BY <1>1, <1>4, Absent DEF SavedInv, NothingIsPromisedUnwritten
<1>8. \A s \in Scene : Readable(s)' => Readable(s) /\ disk'[s] = disk[s]
  BY <1>3, <1>4, Absent DEF Readable
<1>9. EditsSurvive'
  BY <1>1, <1>5, <1>8 DEF SavedInv, EditsSurvive, Keeps, Indexed
<1>10. CountsFollowTheText'
  BY <1>1, <1>5 DEF SavedInv, CountsFollowTheText, Indexed
<1> QED  BY <1>2, <1>6, <1>7, <1>9, <1>10 DEF SavedInv

(* The file is filled with everything saved and one field more, which is   *)
(* on its way to be reported.                                              *)
LEMMA FillSaves ==
  ASSUME ShapeInv, SavedInv, NEW t \in Task, Fill(t)
  PROVE  SavedInv'
<1> DEFINE op == task[t].op
           s0 == op.scene
           file == Written(task[t].read, op)
<1>1. /\ Holds(t) /\ task[t].at = "truncated" /\ Moves(t, "written")
      /\ disk' = [disk EXCEPT ![s0] = file]
      /\ UNCHANGED <<index, open, used, acked, overlapped, lost>>
  BY DEF Fill, At, Holds, Holding
<1>2. /\ task'[t] # Idle /\ task'[t].op = op /\ task'[t].at = "written"
      /\ task'[t].read = task[t].read
      /\ \A u \in Task : u # t => task'[u] = task[u]
      /\ \A u \in Task : Holds(u)' => Holds(u)
      /\ ~ overlapped => \A u \in Task : Holds(u)' => u = t
      /\ LocksExclude'
  BY <1>1, HolderGoesOn DEF Holding
<1>3. /\ s0 \in Scene /\ op \in Op /\ task[t].read \in File /\ ~ RowOnly(op)
  BY <1>1, HandsOff
<1>4. /\ file \in File /\ op.field \in FileField
      /\ file.fields = [task[t].read.fields EXCEPT ![op.field] = op.value]
  BY <1>3, WrittenType
<1>5. task[t].read.fields \in [FileField -> Maybe]
  BY <1>3 DEF File
<1>6. /\ file.fields[op.field] = op.value
      /\ \A f \in Prose : f # op.field => file.fields[f] = task[t].read.fields[f]
  BY <1>4, <1>5 DEF Prose, FileField
<1> HIDE DEF file
<1>7. \A s \in Scene : IF s = s0 THEN disk'[s] = file ELSE disk'[s] = disk[s]
  BY <1>1 DEF ShapeInv, TypeOK
<1>8. ASSUME NEW s \in Scene, NEW f
      PROVE  /\ Promised(s, f)' => Promised(s, f)
             /\ Promised(s, f)' => ~ (s = s0 /\ f = op.field)
  BY <1>1, <1>2 DEF Promised, InFlight, At
<1>9. ~ overlapped => \A f \in Prose : acked[s0][f] # Unknown =>
                         task[t].read.fields[f] = acked[s0][f]
  BY <1>1 DEF SavedInv, WritersCarryTheFile
<1>10. WritersCarryTheFile'
  <2>1. disk'[s0] \in File /\ disk'[s0] = file
    BY <1>3, <1>4, <1>7
  <2> QED  BY <1>1, <1>2, <1>6, <1>9, <2>1 DEF WritersCarryTheFile, At, Readable
<1>11. NothingIsPromisedUnwritten'
  BY <1>1, <1>4, <1>7, Absent DEF SavedInv, NothingIsPromisedUnwritten
<1>12. EditsSurvive'
  <2>1. ASSUME ~ overlapped, NEW s \in Scene, NEW f \in Prose, Promised(s, f)'
        PROVE  /\ Readable(s)' => disk'[s].fields[f] = acked'[s][f]
               /\ f \in RowField /\ Indexed(s)' => index'[s].fields[f] = acked'[s][f]
    <3>1. Promised(s, f) /\ ~ (s = s0 /\ f = op.field)
      BY <1>8, <2>1
    <3>2. f \in RowField /\ Indexed(s)' => index'[s].fields[f] = acked'[s][f]
      BY <1>1, <2>1, <3>1 DEF SavedInv, EditsSurvive, Keeps, Prose, Indexed
    <3>3. CASE s = s0
      <4>1. acked[s0][f] # Unknown
        BY <3>1, <3>3 DEF Promised
      <4> QED  BY <1>1, <1>6, <1>7, <1>9, <2>1, <3>1, <3>2, <3>3, <4>1
    <3>4. CASE s # s0
      BY <1>1, <1>7, <2>1, <3>1, <3>2, <3>4
      DEF SavedInv, EditsSurvive, Keeps, Prose, FileField, Readable
    <3> QED  BY <3>3, <3>4
  <2> QED  BY <1>1, <2>1 DEF EditsSurvive, Keeps, Prose
<1>13. CountsFollowTheText'
  BY <1>1, <1>8 DEF SavedInv, CountsFollowTheText, Indexed
<1> QED  BY <1>2, <1>10, <1>11, <1>12, <1>13 DEF SavedInv

(* A write that fails leaves a torn file and no promise broken.            *)
LEMMA FailToFillSaves ==
  ASSUME ShapeInv, SavedInv, NEW t \in Task, FailToFill(t)
  PROVE  SavedInv'
<1>1. /\ At(t, "truncated") /\ Ends(t) /\ Spend("failure")
      /\ UNCHANGED <<disk, index, open, acked, overlapped, lost>>
  BY DEF FailToFill
<1>2. /\ task'[t] = Idle
      /\ \A u \in Task : u # t => task'[u] = task[u]
  BY <1>1, EndsAlone DEF ShapeInv
<1>3. \A u \in Task : Holds(u)' => Holds(u) /\ task'[u] = task[u]
  BY <1>2 DEF Holds
<1>4. used'["open"] = used["open"]
  BY <1>1, Spends DEF ShapeInv, Event
<1>5. LocksExclude'
  BY <1>1, <1>2, <1>3, <1>4, LocksStay DEF SavedInv
<1> QED  BY <1>1, <1>2, <1>3, <1>5, SameHolders DEF At

(* The row follows the file, and the command reports the edit as saved.    *)
LEMMA UpdateRowSaves ==
  ASSUME ShapeInv, SavedInv, NEW t \in Task, UpdateRow(t)
  PROVE  SavedInv'
<1> DEFINE op == task[t].op
           s0 == op.scene
           row == IF op.kind = "create" THEN EmptyRow ELSE index[s0]
<1>1. /\ Holds(t) /\ At(t, "written") /\ Ends(t) /\ Acknowledge(op)
      /\ UNCHANGED <<disk, open, used, overlapped, lost>>
  BY DEF UpdateRow, At, Holds, Holding
<1>2. /\ s0 \in Scene /\ op \in Op /\ ~ RowOnly(op) /\ op.field \in FileField
      /\ op.kind \in {"edit", "create"} /\ index # NoIndex
      /\ op.kind = "edit" => Indexed(s0)
      /\ op.kind = "create" => op.field = "name"
  BY <1>1, HandsOff, OpType
<1>3. /\ task'[t] = Idle
      /\ \A u \in Task : u # t => task'[u] = task[u]
  BY <1>1, EndsAlone DEF ShapeInv
<1>4. \A u \in Task : Holds(u)' => Holds(u) /\ task'[u] = task[u] /\ u # t
  BY <1>3 DEF Holds
<1>5. LocksExclude'
  BY <1>1, <1>3, <1>4, LocksStay DEF SavedInv
<1>6. ~ overlapped => \A u \in Task : ~ Holds(u)'
  BY <1>1, <1>4 DEF SavedInv, LocksExclude
<1>7. WritersCarryTheFile'
  BY <1>1, <1>6 DEF WritersCarryTheFile
<1>8. /\ acked'[s0][op.field] = op.value
      /\ \A s \in Scene, f \in Prose : ~ (s = s0 /\ f = op.field)
                => acked'[s][f] = acked[s][f]
  BY <1>1, <1>2, AcknowledgeType DEF ShapeInv
<1>9. disk[s0] # NoFile
  BY <1>1 DEF At, ShapeInv, JobsAreSound
<1>10. NothingIsPromisedUnwritten'
  BY <1>1, <1>8, <1>9 DEF SavedInv, NothingIsPromisedUnwritten
<1>11. /\ row \in Row /\ index'[s0] = RowAfter(row, op)
       /\ \A s \in Scene : s # s0 => index'[s] = index[s]
       /\ index' # NoIndex
  BY UpdatedRow, Absent
<1>12. /\ \A f \in RowField : index'[s0].fields[f] =
                IF f = op.field THEN op.value ELSE row.fields[f]
       /\ index'[s0].words = IF op.field = "text" THEN WordCount[op.value] ELSE row.words
  BY <1>2, <1>11, RowAfterType
<1>13. ~ overlapped =>
         /\ Readable(s0) /\ disk[s0].fields[op.field] = op.value
         /\ \A f \in Prose : acked[s0][f] # Unknown =>
                         task[t].read.fields[f] = acked[s0][f]
  BY <1>1 DEF SavedInv, WritersCarryTheFile
<1>14. ASSUME ~ overlapped, NEW s \in Scene, NEW f \in Prose, Promised(s, f)',
              ~ (s = s0 /\ f = op.field)
       PROVE  Promised(s, f) /\ acked'[s][f] = acked[s][f]
  <2>1. acked'[s][f] = acked[s][f]
    BY <1>8, <1>14
  <2>2. ~ InFlight(s, f)
    BY <1>1, <1>14 DEF InFlight, SavedInv, LocksExclude, At, Holds, Holding
  <2> QED  BY <1>14, <2>1, <2>2 DEF Promised
<1>15. op.kind = "create" =>
          /\ row = EmptyRow /\ row.words = 0 /\ \A f \in RowField : row.fields[f] = None
          /\ \A f \in FileField : task[t].read.fields[f] = None
  BY <1>1, EmptyType DEF ShapeInv, NewScenesAreNew, Holds
<1>16. op.kind = "edit" => row = index[s0] /\ Indexed(s0)
  BY <1>2
<1> HIDE DEF op, row
<1>17. EditsSurvive'
  <2>1. ASSUME ~ overlapped, NEW s \in Scene, NEW f \in Prose, Promised(s, f)'
        PROVE  /\ Readable(s)' => disk'[s].fields[f] = acked'[s][f]
               /\ f \in RowField /\ Indexed(s)' => index'[s].fields[f] = acked'[s][f]
    <3>1. CASE s = s0 /\ f = op.field
      BY <1>1, <1>8, <1>12, <1>13, <2>1, <3>1
    <3>2. CASE ~ (s = s0 /\ f = op.field)
      <4>1. Promised(s, f) /\ acked'[s][f] = acked[s][f]
        BY <1>14, <2>1, <3>2
      <4>2. Readable(s)' => disk'[s].fields[f] = acked'[s][f]
        BY <1>1, <2>1, <4>1
        DEF SavedInv, EditsSurvive, Keeps, Prose, FileField, Readable
      <4>3. ASSUME f \in RowField, Indexed(s)'
            PROVE  index'[s].fields[f] = acked'[s][f]
        <5>1. CASE s # s0
          BY <1>2, <1>11, <2>1, <4>1, <4>3, <5>1
          DEF SavedInv, EditsSurvive, Keeps, Prose, Indexed
        <5>2. CASE s = s0 /\ op.kind = "edit"
          BY <1>2, <1>12, <1>16, <2>1, <3>2, <4>1, <4>3, <5>2
          DEF SavedInv, EditsSurvive, Keeps, Prose
        <5>3. CASE s = s0 /\ op.kind = "create"
          <6>1. acked[s][f] # Unknown
            BY <4>1 DEF Promised
          <6>2. acked[s][f] = None
            BY <1>13, <1>15, <2>1, <5>3, <6>1 DEF Prose, FileField
          <6> QED  BY <1>12, <1>15, <3>2, <4>1, <4>3, <5>3, <6>2
        <5> QED  BY <1>2, <5>1, <5>2, <5>3
      <4> QED  BY <4>2, <4>3
    <3> QED  BY <3>1, <3>2
  <2> QED  BY <1>1, <2>1 DEF EditsSurvive, Keeps, Prose
<1>18. CountsFollowTheText'
  <2>1. ASSUME ~ overlapped, open, NEW s \in Scene, Indexed(s)', Promised(s, "text")'
        PROVE  index'[s].words = WordCount[acked'[s]["text"]]
    <3>1. CASE s = s0 /\ op.field = "text"
      BY <1>8, <1>12, <3>1
    <3>2. CASE ~ (s = s0 /\ op.field = "text")
      <4>1. Promised(s, "text") /\ acked'[s]["text"] = acked[s]["text"]
        BY <1>14, <2>1, <3>2 DEF Prose
      <4>2. CASE s # s0
        BY <1>2, <1>11, <2>1, <4>1, <4>2 DEF SavedInv, CountsFollowTheText, Indexed
      <4>3. CASE s = s0 /\ op.kind = "edit"
        BY <1>12, <1>16, <2>1, <3>2, <4>1, <4>3 DEF SavedInv, CountsFollowTheText
      <4>4. CASE s = s0 /\ op.kind = "create"
        <5>1. acked[s]["text"] = None
          BY <1>13, <1>15, <2>1, <4>1, <4>4 DEF Promised, Prose, FileField
        <5> QED  BY <1>12, <1>15, <3>2, <4>1, <4>4, <5>1, SceneAssumption
      <4> QED  BY <1>2, <4>2, <4>3, <4>4
    <3> QED  BY <3>1, <3>2
  <2> QED  BY <1>1, <2>1 DEF CountsFollowTheText
<1> QED  BY <1>5, <1>7, <1>10, <1>17, <1>18 DEF SavedInv

(* A row that cannot be written: the command reports an error, and nothing *)
(* is promised about its field.                                            *)
LEMMA FailToUpdateRowSaves ==
  ASSUME ShapeInv, SavedInv, NEW t \in Task, FailToUpdateRow(t)
  PROVE  SavedInv'
<1> DEFINE op == task[t].op
           s0 == op.scene
<1>1. /\ Holds(t) /\ At(t, "written") /\ Ends(t) /\ Spend("failure")
      /\ acked' = [acked EXCEPT ![s0][op.field] = Unknown]
      /\ UNCHANGED <<disk, index, open, overlapped, lost>>
  BY DEF FailToUpdateRow, At, Holds, Holding
<1>2. s0 \in Scene /\ op.field \in Field
  BY <1>1, HandsOff, OpType
<1>3. /\ task'[t] = Idle
      /\ \A u \in Task : u # t => task'[u] = task[u]
  BY <1>1, EndsAlone DEF ShapeInv
<1>4. \A u \in Task : Holds(u)' => Holds(u) /\ task'[u] = task[u] /\ u # t
  BY <1>3 DEF Holds
<1>5. used'["open"] = used["open"]
  BY <1>1, Spends DEF ShapeInv, Event
<1>6. LocksExclude'
  BY <1>1, <1>3, <1>4, <1>5, LocksStay DEF SavedInv
<1>7. ~ overlapped => \A u \in Task : ~ Holds(u)'
  BY <1>1, <1>4 DEF SavedInv, LocksExclude
<1>8. WritersCarryTheFile'
  BY <1>1, <1>7 DEF WritersCarryTheFile
<1>9. \A s \in Scene, f \in Prose :
         acked'[s][f] = IF s = s0 /\ f = op.field THEN Unknown ELSE acked[s][f]
  BY <1>1, <1>2 DEF ShapeInv, TypeOK, Prose, Field, FileField
<1>10. NothingIsPromisedUnwritten'
  BY <1>1, <1>9 DEF SavedInv, NothingIsPromisedUnwritten
<1>11. ASSUME NEW s \in Scene, NEW f \in Prose, Promised(s, f)'
       PROVE  Promised(s, f) /\ acked'[s][f] = acked[s][f]
  <2>1. acked'[s][f] = acked[s][f] /\ acked[s][f] # Unknown /\ ~ (s = s0 /\ f = op.field)
    BY <1>9, <1>11 DEF Promised
  <2>2. ~ InFlight(s, f)
    BY <1>3, <1>11, <2>1 DEF Promised, InFlight, At
  <2> QED  BY <2>1, <2>2 DEF Promised
<1> HIDE DEF op
<1>12. EditsSurvive'
  BY <1>1, <1>11 DEF SavedInv, EditsSurvive, Keeps, Prose, Indexed, Readable
<1>13. CountsFollowTheText'
  BY <1>1, <1>11 DEF SavedInv, CountsFollowTheText, Prose, Indexed
<1> QED  BY <1>6, <1>8, <1>10, <1>12, <1>13 DEF SavedInv

(* Opened for the first time in a while: the repair loads every text, and  *)
(* a rebuilt row is that of its file.                                      *)
LEMMA OpenProjectSaves ==
  ASSUME ShapeInv, SavedInv, OpenProject
  PROVE  SavedInv'
<1>1. /\ Spend("open") /\ Repair /\ Unrepairable = {} /\ ~ RebuildFails
      /\ overlapped' = (overlapped \/ \E t \in Task : task[t] # Idle)
      /\ acked' = [s \in Scene |-> IF s \in Repaired
                     THEN [acked[s] EXCEPT !["text"] = disk[s].fields["text"]]
                     ELSE acked[s]]
      /\ task' = task
  BY DEF OpenProject
<1>2. CASE overlapped'
  <2>1. NothingIsPromisedUnwritten'
    <3>1. ASSUME NEW s \in Scene, disk'[s] = NoFile
          PROVE  s \notin Repaired /\ disk[s] = NoFile
      BY <1>1, <3>1, RepairType, Absent DEF ShapeInv, Readable
    <3> QED  BY <1>1, <3>1 DEF SavedInv, NothingIsPromisedUnwritten
  <2> QED  BY <1>2, <2>1
           DEF SavedInv, LocksExclude, WritersCarryTheFile, EditsSurvive, CountsFollowTheText
<1>3. CASE ~ overlapped'
  <2>1. /\ ~ overlapped /\ \A t \in Task : task[t] = Idle /\ task'[t] = Idle
    BY <1>1, <1>3
  <2>2. LocksExclude' /\ WritersCarryTheFile'
    BY <2>1 DEF LocksExclude, WritersCarryTheFile, Holds
  <2>3. \A s \in Scene : \A f : ~ InFlight(s, f) /\ ~ InFlight(s, f)'
    BY <2>1 DEF InFlight, At
  <2>4. \A s \in Scene :
          /\ disk'[s] = NoFile <=> disk[s] = NoFile
          /\ disk'[s] = Unreadable <=> disk[s] = Unreadable
          /\ Readable(s) => disk'[s].fields = disk[s].fields
          /\ index'[s] = NoRow <=> OpenedIndex[s] = NoRow
          /\ OpenedIndex[s] # NoRow => index'[s].fields = OpenedIndex[s].fields
          /\ s \in Repaired => Readable(s) /\ index'[s].words = Words(s)
    BY <1>1, RepairType DEF ShapeInv
  <2>5. \A s \in Scene : /\ Readable(s) <=> disk[s] # NoFile /\ disk[s] # Unreadable
                         /\ Readable(s)' <=> disk'[s] # NoFile /\ disk'[s] # Unreadable
    <3>1. disk' \in [Scene -> File \cup {NoFile, Unreadable}]
      BY <1>1, RepairType DEF ShapeInv
    <3>2. disk \in [Scene -> File \cup {NoFile, Unreadable}]
      BY DEF ShapeInv, TypeOK
    <3> QED  BY <3>1, <3>2, Absent DEF Readable
  <2>6. index' # NoIndex
    BY <1>1, RepairType, Absent DEF ShapeInv
  <2>7. \A s \in Scene : Indexed(s)' => s \in Repaired
    <3>1. ASSUME NEW s \in Scene, Indexed(s)' PROVE s \in Repaired
      <4>1. OpenedIndex[s] # NoRow /\ disk[s] # NoFile
        BY <2>4, <3>1, RepairFinds DEF Indexed
      <4>2. s \in Files
        BY <4>1 DEF Files
      <4>3. Before(s, Unrepairable)
        BY <1>1 DEF Before
      <4> QED  BY <4>1, <4>2, <4>3 DEF Repaired
    <3> QED  BY <3>1
  <2>8. \A s \in Scene, f \in Prose : acked'[s][f] =
           IF s \in Repaired /\ f = "text" THEN disk[s].fields["text"] ELSE acked[s][f]
    BY <1>1 DEF ShapeInv, TypeOK, Prose, Field, FileField
  <2>9. NothingIsPromisedUnwritten'
    BY <2>4, <2>5, <2>8 DEF SavedInv, NothingIsPromisedUnwritten
  <2>10. \A s \in Scene, f \in Prose : acked[s][f] # Unknown =>
           /\ Readable(s) => disk[s].fields[f] = acked[s][f]
           /\ f \in RowField /\ Indexed(s) => index[s].fields[f] = acked[s][f]
    BY <2>1, <2>3 DEF SavedInv, EditsSurvive, Keeps, Promised, Prose, FileField
  <2>11. \A s \in Scene, f \in Prose \cap RowField :
            OpenedIndex[s] # NoRow /\ acked[s][f] # Unknown =>
                OpenedIndex[s].fields[f] = acked[s][f]
    <3>1. CASE index = NoIndex
      <4>1. OpenedIndex = Rebuilt
        BY <3>1 DEF OpenedIndex
      <4> QED  BY <2>10, <4>1, RebuildType DEF ShapeInv, Prose, RowField
    <3>2. CASE index # NoIndex
      BY <2>10, <3>2, IndexIsKept DEF Indexed
    <3> QED  BY <3>1, <3>2
  <2>12. EditsSurvive'
    <3>1. ASSUME NEW s \in Scene, NEW f \in Prose, acked'[s][f] # Unknown
          PROVE  /\ Readable(s)' => disk'[s].fields[f] = acked'[s][f]
                 /\ f \in RowField /\ Indexed(s)' => index'[s].fields[f] = acked'[s][f]
      <4>1. Readable(s)' => Readable(s) /\ disk'[s].fields = disk[s].fields
        BY <2>4, <2>5
      <4>2. Readable(s)' => disk'[s].fields[f] = acked'[s][f]
        BY <2>8, <2>10, <3>1, <4>1
      <4>3. f \in RowField /\ Indexed(s)' => index'[s].fields[f] = acked'[s][f]
        BY <2>4, <2>8, <2>11, <3>1 DEF Indexed, RowField
      <4> QED  BY <4>2, <4>3
    <3> QED  BY <3>1 DEF EditsSurvive, Keeps, Promised, Prose
  <2>13. CountsFollowTheText'
    BY <2>4, <2>7, <2>8 DEF CountsFollowTheText, Words, Prose
  <2> QED  BY <2>2, <2>9, <2>12, <2>13 DEF SavedInv
<1> QED  BY <1>2, <1>3

(* An opening that fails may have rebuilt or repaired some rows: it loses  *)
(* nothing either, and disturbs no command of the project that is open.    *)
LEMMA OpenFailsSaves ==
  ASSUME ShapeInv, SavedInv, OpenFails
  PROVE  SavedInv'
<1>1. UNCHANGED <<open, task, used, acked, overlapped, lost>>
  BY DEF OpenFails
<1>2. \A s \in Scene : \A f : Promised(s, f)' <=> Promised(s, f)
  BY <1>1 DEF Promised, InFlight, At
<1>3. LocksExclude'
  BY <1>1 DEF SavedInv, LocksExclude, Holds
<1>4. ASSUME index = NoIndex
      PROVE  /\ ~ open /\ \A t \in Task : task[t] = Idle
             /\ OpenedIndex = Rebuilt
  BY <1>4 DEF ShapeInv, IndexIsThere, OpenedIndex
<1>5. \A s \in Scene : OpenedIndex[s] # NoRow => \A f \in Prose \cap RowField :
         ~ overlapped /\ Promised(s, f) => OpenedIndex[s].fields[f] = acked[s][f]
  <2>1. CASE index = NoIndex
    BY <1>4, <2>1, RebuildType
    DEF SavedInv, ShapeInv, EditsSurvive, Keeps, Prose, FileField, RowField
  <2>2. CASE index # NoIndex
    BY <2>2, IndexIsKept DEF SavedInv, EditsSurvive, Keeps, Prose, Indexed
  <2> QED  BY <2>1, <2>2
<1>6. CASE RebuildFails /\ index' = Rebuilt /\ UNCHANGED disk
  <2>1. index = NoIndex
    BY <1>6 DEF RebuildFails
  <2>2. ~ open /\ (\A t \in Task : task[t] = Idle) /\ index' = OpenedIndex /\ disk' = disk
    BY <1>4, <1>6, <2>1
  <2>3. WritersCarryTheFile'
    BY <1>1, <2>2 DEF WritersCarryTheFile, Holds
  <2>4. NothingIsPromisedUnwritten'
    BY <1>1, <2>2 DEF SavedInv, NothingIsPromisedUnwritten
  <2>5. EditsSurvive'
    BY <1>1, <1>2, <1>5, <2>2 DEF SavedInv, EditsSurvive, Keeps, Prose, Indexed, Readable
  <2>6. CountsFollowTheText'
    BY <1>1, <2>2 DEF CountsFollowTheText
  <2> QED  BY <1>3, <2>3, <2>4, <2>5, <2>6 DEF SavedInv
<1>7. CASE Repair
  <2>1. \A s \in Scene :
          /\ disk'[s] = NoFile <=> disk[s] = NoFile
          /\ disk'[s] = Unreadable <=> disk[s] = Unreadable
          /\ Readable(s) => disk'[s].fields = disk[s].fields
          /\ index'[s] = NoRow <=> OpenedIndex[s] = NoRow
          /\ OpenedIndex[s] # NoRow => index'[s].fields = OpenedIndex[s].fields
          /\ s \in Repaired => Readable(s) /\ index'[s].words = Words(s)
          /\ s \notin Repaired => index'[s] = OpenedIndex[s]
    BY <1>7, RepairType DEF ShapeInv
  <2>2. \A s \in Scene : /\ Readable(s)' <=> Readable(s)
    <3>1. disk' \in [Scene -> File \cup {NoFile, Unreadable}]
      BY <1>7, RepairType DEF ShapeInv
    <3>2. disk \in [Scene -> File \cup {NoFile, Unreadable}]
      BY DEF ShapeInv, TypeOK
    <3> QED  BY <2>1, <3>1, <3>2, Absent DEF Readable
  <2>3. WritersCarryTheFile'
    <3>1. \A t \in Task : Holds(t) => task[t].op.scene \in Scene
      BY HandsOff
    <3>2. \A t \in Task : Holds(t)' <=> Holds(t)
      BY <1>1 DEF Holds
    <3> QED  BY <1>1, <2>1, <2>2, <3>1, <3>2 DEF SavedInv, WritersCarryTheFile, At, Readable
  <2>4. NothingIsPromisedUnwritten'
    BY <1>1, <2>1 DEF SavedInv, NothingIsPromisedUnwritten
  <2>5. EditsSurvive'
    <3>1. ASSUME ~ overlapped, NEW s \in Scene, NEW f \in Prose, Promised(s, f)
          PROVE  /\ Readable(s)' => disk'[s].fields[f] = acked'[s][f]
                 /\ f \in RowField /\ Indexed(s)' => index'[s].fields[f] = acked'[s][f]
      <4>1. Readable(s)' => disk'[s].fields[f] = acked'[s][f]
        BY <1>1, <2>1, <2>2, <3>1 DEF SavedInv, EditsSurvive, Keeps, Prose, FileField
      <4>2. f \in RowField /\ Indexed(s)' => index'[s].fields[f] = acked'[s][f]
        BY <1>1, <1>5, <2>1, <3>1 DEF Indexed
      <4> QED  BY <4>1, <4>2
    <3> QED  BY <1>1, <1>2, <3>1 DEF EditsSurvive, Keeps, Prose
  <2>6. CountsFollowTheText'
    <3>1. ASSUME ~ overlapped, open, NEW s \in Scene, Indexed(s)', Promised(s, "text")
          PROVE  index'[s].words = WordCount[acked[s]["text"]]
      <4>1. index # NoIndex /\ OpenedIndex = index
        BY <3>1, IndexIsKept DEF ShapeInv, IndexIsThere
      <4>2. Indexed(s)
        BY <2>1, <3>1, <4>1 DEF Indexed
      <4>3. CASE s \in Repaired
        <5>1. disk[s].fields["text"] = acked[s]["text"]
          BY <2>1, <3>1, <4>3 DEF SavedInv, EditsSurvive, Keeps, FileField
        <5> QED  BY <2>1, <4>3, <5>1 DEF Words
      <4>4. CASE s \notin Repaired
        BY <2>1, <3>1, <4>1, <4>2, <4>4 DEF SavedInv, CountsFollowTheText
      <4> QED  BY <4>3, <4>4
    <3> QED  BY <1>1, <1>2, <3>1 DEF CountsFollowTheText
  <2> QED  BY <1>3, <2>3, <2>4, <2>5, <2>6 DEF SavedInv
<1> QED  BY <1>6, <1>7 DEF OpenFails

(* The project closes; running commands go on.                             *)
LEMMA CloseProjectSaves ==
  ASSUME ShapeInv, SavedInv, CloseProject
  PROVE  SavedInv'
<1>1. UNCHANGED <<disk, index, task, used, acked, overlapped, lost>> /\ open
  BY DEF CloseProject
<1>2. LocksExclude'
  BY <1>1 DEF SavedInv, LocksExclude, Holds
<1> QED  BY <1>1, <1>2, SameHolders DEF Holds, At

(* The process ends: what was being reported is promised no longer.        *)
LEMMA CrashSaves ==
  ASSUME ShapeInv, SavedInv, Crash
  PROVE  SavedInv'
<1>1. /\ open' = FALSE /\ \A t \in Task : task'[t] = Idle
      /\ UNCHANGED <<disk, index, overlapped, lost>>
      /\ \A s \in Scene, f \in Prose :
            acked'[s][f] = IF InFlight(s, f) THEN Unknown ELSE acked[s][f]
  BY DEF Crash, InFlight, Prose, Field, FileField
<1>2. \A s \in Scene, f \in Prose : Promised(s, f)' =>
         Promised(s, f) /\ acked'[s][f] = acked[s][f]
  BY <1>1 DEF Promised
<1>3. LocksExclude' /\ WritersCarryTheFile'
  BY <1>1 DEF LocksExclude, WritersCarryTheFile, Holds
<1>4. NothingIsPromisedUnwritten'
  BY <1>1 DEF SavedInv, NothingIsPromisedUnwritten
<1>5. EditsSurvive'
  BY <1>1, <1>2 DEF SavedInv, EditsSurvive, Keeps, Prose, Indexed, Readable
<1>6. CountsFollowTheText'
  BY <1>1 DEF CountsFollowTheText
<1> QED  BY <1>3, <1>4, <1>5, <1>6 DEF SavedInv

(* The index is deleted while nothing runs.                                *)
LEMMA LoseDatabaseSaves ==
  ASSUME ShapeInv, SavedInv, LoseDatabase
  PROVE  SavedInv'
<1>1. /\ ~ open /\ index' = NoIndex /\ \A t \in Task : task[t] = Idle
      /\ UNCHANGED <<disk, open, task, acked, overlapped>>
  BY DEF LoseDatabase
<1>2. \A s \in Scene : \A f : Promised(s, f)' <=> Promised(s, f)
  BY <1>1 DEF Promised, InFlight, At
<1>3. LocksExclude' /\ WritersCarryTheFile'
  BY <1>1 DEF LocksExclude, WritersCarryTheFile, Holds
<1>4. NothingIsPromisedUnwritten'
  BY <1>1 DEF SavedInv, NothingIsPromisedUnwritten
<1>5. EditsSurvive'
  BY <1>1, <1>2 DEF SavedInv, EditsSurvive, Keeps, Indexed, Readable
<1>6. CountsFollowTheText'
  BY <1>1 DEF CountsFollowTheText
<1> QED  BY <1>3, <1>4, <1>5, <1>6 DEF SavedInv

(* Another program edits, breaks or mends a file: what it changed is       *)
(* promised no longer, and the rest of the file is as it was.              *)
LEMMA OutsideSaves ==
  ASSUME ShapeInv, SavedInv, NEW s \in Scene, NEW v \in Maybe,
         EditOutside(s, v) \/ BreakOutside(s) \/ MendOutside(s, v)
  PROVE  SavedInv'
<1>1. /\ disk[s] # NoFile /\ ~ Saving(s) /\ Spend("outside")
      /\ UNCHANGED <<index, open, task, overlapped, lost>>
      /\ \A x \in Scene : x # s => disk'[x] = disk[x] /\ acked'[x] = acked[x]
  BY Absent DEF EditOutside, BreakOutside, MendOutside, Readable, ShapeInv, TypeOK
<1>2. used'["open"] = used["open"]
  BY <1>1, Spends DEF ShapeInv, Event
<1>3. LocksExclude'
  BY <1>1, <1>2 DEF SavedInv, LocksExclude, Holds
<1>4. /\ disk'[s] # NoFile
      /\ \A f \in Prose : acked'[s][f] # Unknown =>
            /\ acked'[s][f] = acked[s][f]
            /\ Readable(s)' => Readable(s) /\ disk'[s].fields[f] = disk[s].fields[f]
  <2>1. /\ acked \in [Scene -> [Field -> Maybe \cup {Unknown}]]
        /\ disk \in [Scene -> File \cup {NoFile, Unreadable}]
    BY DEF ShapeInv, TypeOK
  <2>2. CASE EditOutside(s, v)
    <3>1. /\ disk[s] \in File
          /\ disk' = [disk EXCEPT ![s] = [disk[s] EXCEPT !.fields["text"] = v]]
          /\ acked' = [acked EXCEPT ![s]["text"] = Unknown]
      BY <2>2 DEF EditOutside, Readable
    <3>2. /\ [disk[s] EXCEPT !.fields["text"] = v] \in File
          /\ \A f \in Prose : f # "text" =>
                [disk[s] EXCEPT !.fields["text"] = v].fields[f] = disk[s].fields[f]
      BY <3>1 DEF File, Prose, FileField
    <3>3. disk'[s] = [disk[s] EXCEPT !.fields["text"] = v]
      BY <2>1, <3>1
    <3>4. \A f \in Prose : acked'[s][f] = IF f = "text" THEN Unknown ELSE acked[s][f]
      BY <2>1, <3>1 DEF Prose, Field, FileField
    <3> QED  BY <3>1, <3>2, <3>3, <3>4, Absent DEF Readable
  <2>3. CASE BreakOutside(s)
    BY <2>1, <2>3, Absent DEF BreakOutside, Readable
  <2>4. CASE MendOutside(s, v)
    <3>1. [EmptyFile EXCEPT !.fields["text"] = v] \in File
      BY DEF EmptyFile, File, Maybe
    <3>2. disk'[s] = [EmptyFile EXCEPT !.fields["text"] = v]
      BY <2>1, <2>4 DEF MendOutside
    <3>3. \A f \in Prose : acked'[s][f] = Unknown
      BY <2>1, <2>4 DEF MendOutside, Prose, Field, FileField
    <3> QED  BY <3>1, <3>2, <3>3, Absent
  <2> QED  BY <2>2, <2>3, <2>4
<1>5. \A x \in Scene, f \in Prose : Promised(x, f)' =>
         /\ Promised(x, f) /\ acked'[x][f] = acked[x][f]
         /\ Readable(x)' => Readable(x) /\ disk'[x].fields[f] = disk[x].fields[f]
  BY <1>1, <1>4 DEF Promised, InFlight, At, Readable
<1>6. WritersCarryTheFile'
  <2>1. \A t \in Task : Holds(t)' <=> Holds(t)
    BY <1>1 DEF Holds
  <2>2. \A t \in Task : Holds(t) => task[t].op.scene \in Scene
    BY HandsOff
  <2>3. \A t \in Task : Holds(t) /\ At(t, "written") => task[t].op.scene # s
    BY <1>1 DEF Saving
  <2> QED  BY <1>1, <1>4, <2>1, <2>2, <2>3
           DEF SavedInv, WritersCarryTheFile, At, Readable
<1>7. NothingIsPromisedUnwritten'
  BY <1>1, <1>4 DEF SavedInv, NothingIsPromisedUnwritten
<1>8. EditsSurvive'
  BY <1>1, <1>5 DEF SavedInv, EditsSurvive, Keeps, Prose, Indexed
<1>9. CountsFollowTheText'
  BY <1>1, <1>5 DEF SavedInv, CountsFollowTheText, Prose, Indexed
<1> QED  BY <1>3, <1>6, <1>7, <1>8, <1>9 DEF SavedInv

(* Every step keeps what was saved.                                        *)
LEMMA SavedInductive == Spec => []SavedInv
<1>1. SceneInit => SavedInv
  BY DEF SceneInit, Nothing, SavedInv, LocksExclude, WritersCarryTheFile,
         NothingIsPromisedUnwritten, EditsSurvive, CountsFollowTheText, Keeps,
         Promised, Holds, Prose, Field, FileField
<1>2. ShapeInv /\ SavedInv /\ [Next]_vars => SavedInv'
  <2> SUFFICES ASSUME ShapeInv, SavedInv, [Next]_vars PROVE SavedInv'
    OBVIOUS
  <2>1. CASE UNCHANGED vars
    <3>1. LocksExclude'
      BY <2>1 DEF vars, SavedInv, LocksExclude, Holds
    <3> QED  BY <2>1, <3>1, SameHolders DEF vars, Holds, At
  <2>2. ASSUME NEW t \in Task, NEW op \in Offered, Call(t, op) PROVE SavedInv'
    BY <2>2, CallSaves
  <2>3. ASSUME NEW t \in Task, TaskStep(t) PROVE SavedInv'
    BY <2>3, TakeSceneLockSaves, EditRowSaves, ReadSaves, TruncateSaves, FillSaves,
       UpdateRowSaves
    DEF TaskStep
  <2>4. ASSUME NEW t \in Task, FailToFill(t) \/ FailToUpdateRow(t) PROVE SavedInv'
    BY <2>4, FailToFillSaves, FailToUpdateRowSaves
  <2>5. CASE OpenProject \/ OpenFails \/ CloseProject
    BY <2>5, OpenProjectSaves, OpenFailsSaves, CloseProjectSaves
  <2>6. CASE Crash \/ LoseDatabase
    BY <2>6, CrashSaves, LoseDatabaseSaves
  <2>7. ASSUME NEW s \in Scene, BreakOutside(s) PROVE SavedInv'
    BY <2>7, OutsideSaves DEF Maybe
  <2>8. ASSUME NEW s \in Scene, NEW v \in Value, EditOutside(s, v) \/ MendOutside(s, v)
        PROVE  SavedInv'
    BY <2>8, OutsideSaves DEF Maybe
  <2> QED  BY <2>1, <2>2, <2>3, <2>4, <2>5, <2>6, <2>7, <2>8 DEF Next
<1> QED  BY <1>1, <1>2, ShapeInductive, PTL DEF Spec

(* No edit that was reported as saved is undone by another command, a      *)
(* failed one, a crash, a repair or a rebuild, as long as a project is not *)
(* opened over its own running commands (write_body, rename, set_summary,  *)
(* repair::run, rebuild_from_truth).                                       *)
THEOREM SavedEditsSurvive == Spec => []EditsSurvive
<1>1. SavedInv => EditsSurvive
  BY DEF SavedInv
<1> QED  BY <1>1, SavedInductive, PTL

-----------------------------------------------------------------------------
(* Torn files.                                                             *)

(* Only the outside, a crash or a failure leaves a torn file to nobody.    *)
LEMMA TearsInductive == Spec => []TearsHaveAWriter
<1>1. SceneInit => TearsHaveAWriter
  BY Absent, EmptyType DEF SceneInit, TearsHaveAWriter
<1>2. ShapeInv /\ TearsHaveAWriter /\ [Next]_vars => TearsHaveAWriter'
  <2> SUFFICES ASSUME ShapeInv, TearsHaveAWriter, [Next]_vars PROVE TearsHaveAWriter'
    OBVIOUS
  <2>1. ASSUME \A e \in {"crash", "failure", "outside"} : used'[e] = used[e],
               \A s \in Scene : disk'[s] = Unreadable => disk[s] = Unreadable,
               \A u \in Task : At(u, "truncated") => task'[u] = task[u]
        PROVE  TearsHaveAWriter'
    BY <2>1 DEF TearsHaveAWriter, At
  <2>2. ASSUME NEW e \in {"crash", "failure", "outside"}, Spend(e) PROVE TearsHaveAWriter'
    <3>1. e \in Event /\ used[e] \in Nat /\ used'[e] = used[e] + 1
      BY <2>2, Spends DEF ShapeInv, TypeOK, Event
    <3>2. used'[e] # 0
      BY <3>1
    <3> QED  BY <3>2 DEF TearsHaveAWriter
  <2>3. CASE UNCHANGED vars
    BY <2>1, <2>3 DEF vars
  <2>4. ASSUME NEW t \in Task, NEW op \in Offered, Call(t, op) PROVE TearsHaveAWriter'
    <3>1. \A e \in {"crash", "failure", "outside"} : used'[e] = used[e]
      BY <2>4, Spends DEF Call, ShapeInv, Event
    <3>2. \A u \in Task : At(u, "truncated") => task'[u] = task[u]
      BY <2>4 DEF Call, At, ShapeInv, TypeOK
    <3> QED  BY <2>1, <2>4, <3>1, <3>2 DEF Call
  <2>5. ASSUME NEW t \in Task, TakeSceneLock(t) \/ EditRow(t) \/ Read(t) \/ UpdateRow(t)
        PROVE  TearsHaveAWriter'
    <3>1. disk' = disk /\ used' = used /\ ~ At(t, "truncated")
      BY <2>5 DEF TakeSceneLock, EditRow, Read, UpdateRow, MayEnter, At
    <3>2. \A u \in Task : u # t => task'[u] = task[u]
      BY <2>5 DEF TakeSceneLock, EditRow, Read, UpdateRow, Moves, Ends, ShapeInv, TypeOK
    <3> QED  BY <2>1, <3>1, <3>2
  <2>6. ASSUME NEW t \in Task, Truncate(t) PROVE TearsHaveAWriter'
    <3>1. /\ Holds(t) /\ Moves(t, "truncated") /\ task[t].at = "holding" /\ used' = used
          /\ disk' = [disk EXCEPT ![task[t].op.scene] = Unreadable]
      BY <2>6 DEF Truncate, At, Holds, Holding
    <3>2. /\ task'[t] # Idle /\ task'[t].op = task[t].op /\ task'[t].at = "truncated"
          /\ \A u \in Task : u # t => task'[u] = task[u]
      BY <3>1, MovesOn DEF ShapeInv, Phase, Holds
    <3>3. \A s \in Scene : s # task[t].op.scene => disk'[s] = disk[s]
      BY <3>1 DEF ShapeInv, TypeOK
    <3> QED  BY <3>1, <3>2, <3>3 DEF TearsHaveAWriter, At
  <2>7. ASSUME NEW t \in Task, Fill(t) PROVE TearsHaveAWriter'
    <3>1. /\ Holds(t) /\ Moves(t, "written") /\ used' = used
          /\ disk' = [disk EXCEPT ![task[t].op.scene] = Written(task[t].read, task[t].op)]
      BY <2>7 DEF Fill, At, Holds, Holding
    <3>2. Written(task[t].read, task[t].op) # Unreadable
      BY <3>1, HandsOff, WrittenType, Absent
    <3>3. /\ disk'[task[t].op.scene] # Unreadable
          /\ \A s \in Scene : s # task[t].op.scene => disk'[s] = disk[s]
      BY <3>1, <3>2, HandsOff DEF ShapeInv, TypeOK
    <3>4. \A u \in Task : u # t => task'[u] = task[u]
      BY <3>1 DEF Moves, ShapeInv, TypeOK
    <3> QED  BY <3>1, <3>3, <3>4 DEF TearsHaveAWriter, At
  <2>8. CASE OpenProject
    <3>1. \A e \in {"crash", "failure", "outside"} : used'[e] = used[e]
      BY <2>8, Spends DEF OpenProject, ShapeInv, Event
    <3>2. \A s \in Scene : disk'[s] = Unreadable => disk[s] = Unreadable
      BY <2>8, RepairType DEF OpenProject, ShapeInv
    <3> QED  BY <2>1, <2>8, <3>1, <3>2 DEF OpenProject
  <2>9. CASE OpenFails
    <3>1. \A s \in Scene : disk'[s] = Unreadable => disk[s] = Unreadable
      BY <2>9, RepairType DEF OpenFails, ShapeInv
    <3> QED  BY <2>1, <2>9, <3>1 DEF OpenFails
  <2>10. CASE CloseProject
    BY <2>1, <2>10 DEF CloseProject
  <2> QED
    BY <2>2, <2>3, <2>4, <2>5, <2>6, <2>7, <2>8, <2>9, <2>10
    DEF Next, TaskStep, FailToFill, FailToUpdateRow, Crash, LoseDatabase,
        BreakOutside, EditOutside, MendOutside
<1> QED  BY <1>1, <1>2, ShapeInductive, PTL DEF Spec

(* A scene file is whole, and what the index counts is what it holds: two  *)
(* commands never tear a file between them, and every count of an open     *)
(* project is that of its text.                                            *)
THEOREM SceneFilesAreSound == Spec => []FilesAreSound
<1>1. ShapeInv /\ SavedInv /\ TearsHaveAWriter => FilesAreSound
  <2> SUFFICES ASSUME ShapeInv, SavedInv, TearsHaveAWriter PROVE FilesAreSound
    OBVIOUS
  <2>1. CountsAreTrue
    BY DEF SavedInv, EditsSurvive, CountsFollowTheText, CountsAreTrue, Keeps, FileField
  <2>2. FilesTearOnlyFromOutside
    <3>1. ASSUME used["crash"] = 0, used["failure"] = 0, used["outside"] = 0,
                 ~ overlapped, NEW s \in Scene, disk[s] = Unreadable
          PROVE  Cardinality({t \in Task : At(t, "truncated") /\ task[t].op.scene = s}) = 1
      <4>1. PICK t \in Task : At(t, "truncated") /\ task[t].op.scene = s
        BY <3>1 DEF TearsHaveAWriter
      <4>2. \A u \in Task : At(u, "truncated") => u = t
        BY <3>1, <4>1 DEF SavedInv, LocksExclude, Holds, Holding, At
      <4>3. {u \in Task : At(u, "truncated") /\ task[u].op.scene = s} = {t}
        BY <4>1, <4>2
      <4> QED  BY <4>3, FS_Singleton
    <3> QED  BY <3>1 DEF FilesTearOnlyFromOutside
  <2> QED  BY <2>1, <2>2 DEF ShapeInv, FilesAreSound
<1> QED  BY <1>1, ShapeInductive, SavedInductive, TearsInductive, PTL
=============================================================================
