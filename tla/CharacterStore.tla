--------------------------- MODULE CharacterStore ---------------------------
(***************************************************************************)
(* The characters of a project (water-core/src/character/mod.rs) and their *)
(* place in the scenes (commands/character.rs): the rows of the index, the *)
(* files characters/<id>.toml, the presence rows and the point of view.    *)
(*                                                                         *)
(* Every command holds the database lock from its first statement to its   *)
(* last, so commands do not interleave; what can go wrong is a write that  *)
(* fails or a process that dies between the file and the commit.  Such a   *)
(* cut command is an action of its own, and so is the rebuild of a lost    *)
(* index from the files.                                                   *)
(*                                                                         *)
(* The data of a character is reduced to its full name, its aliases and    *)
(* the name key; every other field travels with them.  A file has a name   *)
(* key of its own beside the data.  A rebuild takes the whole file for the *)
(* data, that key included, and from then on every write of the file puts  *)
(* the old key in the place of the new one (serde's flatten).              *)
(***************************************************************************)
EXTENDS Naturals, FiniteSets

CONSTANTS Character,  \* ids, each minted at most once
          Name,       \* full names a writer types
          Blank,      \* the name of a character that has none yet
          Scene,
          NumHues,    \* hue tokens --water-hue-character-1 .. 6
          Gone,       \* no row, or no file
          Torn,       \* a file whose write was cut: it does not parse
          None,
          NoKey       \* data that has no name key

ASSUME CharAssumption ==
    /\ NumHues \in Nat \ {0}
    /\ Blank \notin Name
    /\ None \notin Character
    /\ NoKey \notin Name \cup {Blank}
    /\ \A A \in SUBSET Name, n, m \in Name \cup {Blank}, k \in Name \cup {Blank, NoKey},
         h \in 1 .. NumHues :
        /\ [name |-> m, full |-> n, aliases |-> A] \notin {Gone, Torn}
        /\ [name |-> m, data |-> [full |-> n, aliases |-> A, key |-> k], hue |-> h] # Gone

VARIABLES row,      \* the character table
          file,     \* characters/<id>.toml; the trash folder is not looked at again
          present,  \* scene_character_presence
          pov,      \* scene.pov_character_id
          indexed,  \* the scenes have their rows: a stopped rebuild leaves none
          minted,   \* ids ever handed out
          doubt,    \* characters whose last write did not finish
          known     \* names a character had and the writer never removed

Hue == 1 .. NumHues

charVars == <<row, file, present, pov, indexed, minted, doubt, known>>

AnyName == Name \cup {Blank}
Data == [full : AnyName, aliases : SUBSET Name, key : AnyName \cup {NoKey}]
Row  == [name : AnyName, data : Data, hue : Hue]
File == [name : AnyName, full : AnyName, aliases : SUBSET Name]
NoData == [full |-> Blank, aliases |-> {}, key |-> NoKey]

\* CharacterFile: its own name, unless the data flattened beside it has one.
Written(d) == [name    |-> IF d.key = NoKey THEN d.full ELSE d.key,
               full    |-> d.full,
               aliases |-> d.aliases]

CharTypeOK ==
    /\ row \in [Character -> Row \cup {Gone}]
    /\ file \in [Character -> File \cup {Gone, Torn}]
    /\ present \in SUBSET (Scene \X Character)
    /\ pov \in [Scene -> Character \cup {None}]
    /\ indexed \in BOOLEAN
    /\ minted \in SUBSET Character
    /\ doubt \in SUBSET Character
    /\ known \in [Character -> SUBSET Name]

CharInit ==
    /\ row = [c \in Character |-> Gone]
    /\ file = [c \in Character |-> Gone]
    /\ present = {}
    /\ pov = [s \in Scene |-> None]
    /\ indexed = TRUE
    /\ minted = {}
    /\ doubt = {}
    /\ known = [c \in Character |-> {}]

Living == {c \in Character : row[c] # Gone}

-----------------------------------------------------------------------------
(* Creation: the least used hue, the file, then the row.                   *)

Bearers(h) == {c \in Living : row[c].hue = h}

NextHue(h) ==
    \A g \in Hue \ {h} :
        \/ Cardinality(Bearers(h)) < Cardinality(Bearers(g))
        \/ Cardinality(Bearers(h)) = Cardinality(Bearers(g)) /\ h < g

\* A bug to be caught: an id is free again once its row is gone.
CreateCharacterAgain(c) ==
    /\ c \notin Living
    /\ row' = [row EXCEPT ![c] = [name |-> Blank, data |-> NoData, hue |-> 1]]
    /\ file' = [file EXCEPT ![c] = Written(NoData)]
    /\ minted' = minted \cup {c}
    /\ UNCHANGED <<present, pov, indexed, doubt, known>>

CreateCharacter(c) ==
    /\ c \notin minted
    /\ \E h \in Hue :
        /\ NextHue(h)
        /\ row' = [row EXCEPT ![c] = [name |-> Blank, data |-> NoData, hue |-> h]]
    /\ file' = [file EXCEPT ![c] = Written(NoData)]
    /\ minted' = minted \cup {c}
    /\ UNCHANGED <<present, pov, indexed, doubt, known>>

CreationIsCut(c) ==
    /\ c \notin minted
    /\ \E left \in {Written(NoData), Torn} : file' = [file EXCEPT ![c] = left]
    /\ minted' = minted \cup {c}
    /\ doubt' = doubt \cup {c}
    /\ UNCHANGED <<row, present, pov, indexed, known>>

-----------------------------------------------------------------------------
(* One field at a time.  The new data is computed from the row and never   *)
(* from the file, which is overwritten as a whole.                         *)

\* A bug to be caught: a rename forgets the old name.
RenamedOnly(d, n) == [d EXCEPT !.full = n]

Renamed(d, n) ==
    [full    |-> n,
     key     |-> d.key,
     aliases |-> IF d.full \in {Blank, n} THEN d.aliases ELSE d.aliases \cup {d.full}]

WithAliases(d, A) == [d EXCEPT !.aliases = A]

\* What the writer still expects to find after the edit of d into e.
Expected(c, d, e) ==
    IF e.full = d.full THEN known[c] \cap (e.aliases \cup {e.full})
                       ELSE known[c] \cup ({e.full} \cap Name)

Edits(d) == {Renamed(d, n) : n \in AnyName}
            \cup {WithAliases(d, A) : A \in SUBSET Name}

UpdateField(c) ==
    /\ c \in Living
    /\ \E e \in Edits(row[c].data) :
        /\ row' = [row EXCEPT ![c] = [name |-> e.full, data |-> e, hue |-> @.hue]]
        /\ file' = [file EXCEPT ![c] = Written(e)]
        /\ known' = [known EXCEPT ![c] = Expected(c, row[c].data, e)]
    /\ doubt' = doubt \ {c}
    /\ UNCHANGED <<present, pov, indexed, minted>>

\* The disk refuses the write, or the process dies before the commit.
UpdateIsCut(c) ==
    /\ c \in Living
    /\ \E e \in Edits(row[c].data), left \in {"whole", "torn"} :
        /\ file' = [file EXCEPT ![c] = IF left = "whole" THEN Written(e) ELSE Torn]
        /\ known' = [known EXCEPT ![c] = @ \cap Expected(c, row[c].data, e)]
    /\ doubt' = doubt \cup {c}
    /\ UNCHANGED <<row, present, pov, indexed, minted>>

-----------------------------------------------------------------------------
(* Deletion: presence, point of view, row, then the move to the trash; a   *)
(* move that fails is only logged.                                         *)

\* A bug to be caught: the deletion clears the point of view only.
WithoutPov(c) ==
    /\ present' = present
    /\ pov' = [s \in Scene |-> IF pov[s] = c THEN None ELSE pov[s]]

WithoutLinks(c) ==
    /\ present' = {l \in present : l[2] # c}
    /\ pov' = [s \in Scene |-> IF pov[s] = c THEN None ELSE pov[s]]

DeleteAndCascade(c) ==
    /\ c \in Living
    /\ row' = [row EXCEPT ![c] = Gone]
    /\ \/ file' = [file EXCEPT ![c] = Gone]
       \/ file' = file
    /\ WithoutLinks(c)
    /\ UNCHANGED <<indexed, minted, doubt, known>>

DeletionIsCut(c) ==
    /\ c \in Living
    /\ file' = [file EXCEPT ![c] = Gone]
    /\ doubt' = doubt \cup {c}
    /\ UNCHANGED <<row, present, pov, indexed, minted, known>>

-----------------------------------------------------------------------------
(* Scene links.  The schema only says that a link names a scene and a      *)
(* character; that the point of view is present is the commands' business. *)

LinkToScene(c, s) ==
    /\ indexed /\ c \in Living
    /\ present' = present \cup {<<s, c>>}
    /\ UNCHANGED <<row, file, pov, indexed, minted, doubt, known>>

\* A bug to be caught: the point of view outlives the presence.
UnlinkOnly(c, s) ==
    /\ present' = present \ {<<s, c>>}
    /\ UNCHANGED <<row, file, pov, indexed, minted, doubt, known>>

UnlinkFromScene(c, s) ==
    /\ present' = present \ {<<s, c>>}
    /\ pov' = [pov EXCEPT ![s] = IF @ = c THEN None ELSE @]
    /\ UNCHANGED <<row, file, indexed, minted, doubt, known>>

SetPov(s) ==
    /\ indexed
    /\ \E c \in {d \in Character : <<s, d>> \in present} \cup {None} :
        pov' = [pov EXCEPT ![s] = c]
    /\ UNCHANGED <<row, file, present, indexed, minted, doubt, known>>

-----------------------------------------------------------------------------
(* The characters of a rebuild: those in R are read back from their files, *)
(* before a file that does not parse ended it; the scenes come last, and   *)
(* their files never learned of a link.                                    *)

\* The data a rebuild makes of a file: all that stands in it.
Parsed(f) == [full |-> f.full, aliases |-> f.aliases, key |-> f.name]

Readable == {c \in Character : file[c] \notin {Gone, Torn}}

TornCharacter == \E c \in Character : file[c] = Torn

RebuildCharacters(R) ==
    /\ row' = [c \in Character |->
                 IF c \in R THEN [name |-> file[c].name, data |-> Parsed(file[c]), hue |-> 1]
                            ELSE Gone]
    /\ present' = {}
    /\ pov' = [s \in Scene |-> None]
    /\ doubt' = {}
    /\ UNCHANGED <<file, minted, known>>

-----------------------------------------------------------------------------
CharNext ==
    \/ \E c \in Character :
        \/ CreateCharacter(c) \/ CreationIsCut(c)
        \/ UpdateField(c) \/ UpdateIsCut(c)
        \/ DeleteAndCascade(c) \/ DeletionIsCut(c)
        \/ \E s \in Scene : LinkToScene(c, s) \/ UnlinkFromScene(c, s)
    \/ \E s \in Scene : SetPov(s)

-----------------------------------------------------------------------------
(* Properties.                                                             *)

\* The point of view of a scene is one of the characters present in it
\* (commands/character.rs: set_pov asks, unlink and delete clear).
PovIsPresent == \A s \in Scene : pov[s] # None => <<s, pov[s]>> \in present

\* Only characters that exist are linked.
LinksAreAlive == \A l \in present : l[2] \in Living

\* A name a character was known by stays its name or one of its aliases
\* until the writer edits the aliases: the rename cascade of update_field,
\* kept across crashes, failed writes and rebuilds.
NamesAreRemembered ==
    \A c \in Living : known[c] \subseteq {row[c].data.full} \cup row[c].data.aliases

\* The file of a character holds the full name and the aliases that were
\* saved, and the name the index lists is that full name or, after a
\* rebuild, the one the file was listed under; unless the last write did not
\* finish (update_field: the file before the commit).
FilesHoldWhatWasSaved ==
    \A c \in Living \ doubt :
        /\ file[c] = Written(row[c].data)
        /\ row[c].name \in {row[c].data.full, file[c].name}

\* The column "mirrors main.full_name" (update_field's comment).  It does not
\* after a rebuild, a rename and another rebuild: no run checks it.
NamesMirrorTheData == \A c \in Living : row[c].name = row[c].data.full

\* A character whose deletion moved its file away never comes back.
GoneForGood ==
    [][\A c \in minted : row[c] = Gone /\ file[c] = Gone
                           => row'[c] = Gone /\ file'[c] = Gone]_charVars

=============================================================================
