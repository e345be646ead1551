------------------------------- MODULE Records ------------------------------
(***************************************************************************)
(* The records of a project: characters and world in one index, which the  *)
(* rebuild (rebuild.rs) makes again from the files of both when it was     *)
(* lost.  The database lock is one for all commands.                       *)
(***************************************************************************)
EXTENDS CharacterStore, WorldStore

CONSTANT MaxCommands  \* bound: commands, cut commands and rebuilds of a run

ASSUME RecordsAssumption == MaxCommands \in Nat

VARIABLE commands

vars == <<charVars, worldVars, commands>>

TypeOK == CharTypeOK /\ WorldTypeOK /\ commands \in 0 .. MaxCommands

Init == CharInit /\ WorldInit /\ commands = 0

Counted == commands < MaxCommands /\ commands' = commands + 1

CharacterCommand == Counted /\ CharNext /\ UNCHANGED worldVars

WorldCommand == Counted /\ WorldNext /\ UNCHANGED charVars

\* Characters first, then the world, then the scenes: a file that does not
\* parse ends the rebuild, and the next start takes the index as it is.
Rebuild ==
    /\ Counted
    /\ indexed' = ~ (TornCharacter \/ BrokenWorld)
    /\ \E R \in SUBSET Readable, W \in SUBSET Legible :
        /\ TornCharacter => W = {}
        /\ ~ TornCharacter => R = Readable
        /\ indexed' => W = Legible
        /\ RebuildCharacters(R) /\ RebuildWorld(W)

Next == CharacterCommand \/ WorldCommand \/ Rebuild

Spec == Init /\ [][Next]_vars

-----------------------------------------------------------------------------
\* What rows, links and files say of one record agrees, after any of the
\* three was written alone (character/mod.rs, world/store.rs, rebuild.rs).
RecordsAreSound ==
    TypeOK /\ LinksAreAlive /\ FilesHoldWhatWasSaved /\ SavedIsOnDisk

-----------------------------------------------------------------------------
(* README.md: the index is rebuildable from the files.                     *)

Shown == {page[g] : g \in Pages} \cup {entry[e].value : e \in Entries}

\* A text whose edit was saved is still shown after a complete rebuild.
SavedTextsAreRebuilt ==
    [][Rebuild /\ indexed' =>
        \A x \in saved :
            (IF x \in Entry THEN entry[x].value ELSE page[x]) \in Shown']_vars

=============================================================================
