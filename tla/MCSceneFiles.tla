---------------------------- MODULE MCSceneFiles ----------------------------
(***************************************************************************)
(* SceneFiles with two or three scenes and two command tasks.              *)
(***************************************************************************)
EXTENDS SceneFiles

CONSTANTS t1, t2, a

TwoScenes == {1, 2}
ThreeScenes == {1, 2, 3}
Tasks     == {t1, t2}
OneValue  == {a}
WordsOfA  == [v \in OneValue \cup {None} |-> IF v = None THEN 0 ELSE 2]

Edits(fields, values) == [kind: {"edit"}, scene: Kept, field: fields, value: values]

Manuscript == Edits({"text", "name", "summary", "pov"}, {a}) \cup CreateOp
Everything == Manuscript \cup Edits({"place", "group", "location"}, {a}) \cup ResetOp

(* Everything of the first scene, and the text of the second.              *)
Mixed == {op \in Everything : op.scene = 2 => op.kind = "edit" /\ op.field = "text"}
NoEdits    == {}

Limits(calls, opens, crashes, failures, outside) ==
    [e \in Event |-> CASE e = "call" -> calls [] e = "open" -> opens
                       [] e = "crash" -> crashes [] e = "failure" -> failures
                       [] e = "outside" -> outside]
ManuscriptLimits == Limits(2, 2, 1, 1, 1)
OutsideLimits    == Limits(0, 2, 0, 0, 2)
=============================================================================
