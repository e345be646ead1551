------------------------------ MODULE Projects ------------------------------
(***************************************************************************)
(* How a project comes to be, and to be open (commands/project.rs): its    *)
(* folder is filled one piece at a time, and each piece may be the last,   *)
(* because a step fails or the process ends.  Nothing is taken back.  What *)
(* a later opening finds depends on which pieces are there: without a      *)
(* legible water.toml it is refused, without a database the index is       *)
(* rebuilt, and otherwise the database is used as it is.                   *)
(*                                                                         *)
(* The sidecar and the services of an open project are left out: their     *)
(* failures do not keep a project from opening.  One folder and one        *)
(* creation of it at a time; another program changes the folder only while *)
(* no command uses it.                                                     *)
(***************************************************************************)
EXTENDS Naturals, Sequences

VARIABLES
    folder,             \* the pieces that are on disk, rows of the database included
    creating,           \* the next step of create_project, or 0
    opening,            \* the next step of open_project, or 0
    atHand,             \* AppState::project is Some
    madeBy              \* history: what created project.db

projectVars == <<folder, creating, opening, atHand, madeBy>>

Rows == {"project", "manuscript", "default", "segments"}
Pieces == Rows \cup {"folders", "database", "toml", "chapters"}

CreationOrderTomlFirst ==
    <<"folders", "toml", "database", "project", "manuscript", "default", "segments", "chapters">>
CreationOrder ==
    <<"folders", "database", "project", "manuscript", "default", "segments", "toml", "chapters">>

(* repopulate: the row of the project names its default manuscript before  *)
(* that one is inserted.                                                   *)
RebuildOrder == <<{"database"}, {"project", "default"}, {"segments"}, {"manuscript"}>>
Seeding == Len(RebuildOrder) + 1
Installing == Seeding + 1

ProjectsTypeOK ==
    /\ folder \subseteq Pieces
    /\ creating \in 0..Len(CreationOrder) + 1
    /\ opening \in 0..Installing
    /\ atHand \in BOOLEAN
    /\ madeBy \in {"nobody", "creation", "rebuild"}

ProjectsInit ==
    /\ folder = {} /\ creating = 0 /\ opening = 0
    /\ atHand = FALSE /\ madeBy = "nobody"

-----------------------------------------------------------------------------
CreateProject ==                \* refused while a folder of that name exists
    /\ creating = 0 /\ "folders" \notin folder
    /\ folder' = folder \cup {CreationOrder[1]}
    /\ creating' = 2
    /\ UNCHANGED <<opening, atHand, madeBy>>

CreateStep ==
    /\ creating \in 2..Len(CreationOrder)
    /\ folder' = folder \cup {CreationOrder[creating]}
    /\ madeBy' = IF CreationOrder[creating] = "database" THEN "creation" ELSE madeBy
    /\ creating' = creating + 1
    /\ UNCHANGED <<opening, atHand>>

CreateFails ==
    /\ creating \in 2..Len(CreationOrder)
    /\ creating' = 0
    /\ UNCHANGED <<folder, opening, atHand, madeBy>>

CreateEnds ==
    /\ creating > Len(CreationOrder)
    /\ creating' = 0 /\ atHand' = TRUE
    /\ UNCHANGED <<folder, opening, madeBy>>

OpenProject ==
    /\ opening = 0 /\ "toml" \in folder
    /\ opening' = IF "database" \in folder THEN Seeding ELSE 1
    /\ UNCHANGED <<folder, creating, atHand, madeBy>>

RebuildStep ==
    /\ opening \in DOMAIN RebuildOrder
    /\ folder' = folder \cup RebuildOrder[opening]
    /\ madeBy' = IF opening = 1 THEN "rebuild" ELSE madeBy
    /\ opening' = opening + 1
    /\ UNCHANGED <<creating, atHand>>

(* seed_builtins: a segment refers to the row of its project. *)
SeedBuiltins ==
    /\ opening = Seeding /\ "project" \in folder
    /\ folder' = folder \cup {"segments"}
    /\ opening' = Installing
    /\ UNCHANGED <<creating, atHand, madeBy>>

OpenFails ==
    /\ opening \in 1..Seeding
    /\ opening' = 0
    /\ UNCHANGED <<folder, creating, atHand, madeBy>>

OpenEnds ==
    /\ opening = Installing
    /\ opening' = 0 /\ atHand' = TRUE
    /\ UNCHANGED <<folder, creating, madeBy>>

CloseTheProject ==
    /\ atHand /\ atHand' = FALSE
    /\ UNCHANGED <<folder, creating, opening, madeBy>>

ProjectCrash ==
    /\ creating' = 0 /\ opening' = 0 /\ atHand' = FALSE
    /\ UNCHANGED <<folder, madeBy>>

Unused == creating = 0 /\ opening = 0 /\ ~atHand

LoseDatabase ==
    /\ Unused
    /\ folder' = folder \ (Rows \cup {"database"})
    /\ UNCHANGED <<creating, opening, atHand, madeBy>>

RemoveFolder ==
    /\ Unused
    /\ folder' = {}
    /\ UNCHANGED <<creating, opening, atHand, madeBy>>

ProjectsNext ==
    \/ CreateProject \/ CreateStep \/ CreateFails \/ CreateEnds
    \/ OpenProject \/ RebuildStep \/ SeedBuiltins \/ OpenFails \/ OpenEnds
    \/ CloseTheProject \/ ProjectCrash \/ LoseDatabase \/ RemoveFolder

ProjectsSpec == ProjectsInit /\ [][ProjectsNext]_projectVars

-----------------------------------------------------------------------------
(* Whatever was cut short before, a project that is open has its row and   *)
(* its segments, and one whose database comes from its creation has the    *)
(* manuscript that new scenes are created in (create_project writes        *)
(* water.toml, without which nothing opens, after all of the rows).  A     *)
(* database that a cut rebuild left behind may lack the manuscript.        *)
WhatOpensIsWhole ==
    atHand => /\ {"toml", "project", "segments"} \subseteq folder
              /\ madeBy = "creation" => {"manuscript", "default"} \subseteq folder
=============================================================================
