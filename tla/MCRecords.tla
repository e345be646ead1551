------------------------------ MODULE MCRecords -----------------------------
(***************************************************************************)
(* Records with two characters, two names, one scene, one built-in page,   *)
(* one built-in collection, one segment of the writer and one entry.       *)
(***************************************************************************)
EXTENDS Records, TLC

CONSTANTS c1, c2, n1, n2, s1, geography, locations, u1, e1, w1

Characters == {c1, c2}
Names      == {n1, n2}
Scenes     == {s1}
BuiltPages == {geography}
BuiltLists == {locations}
UserSegs   == {u1}
EntryIds   == {e1}
Texts      == {w1}

Interchangeable == Permutations(Characters) \cup Permutations(Names)
=============================================================================
