----------------------------- MODULE WorldStore -----------------------------
(***************************************************************************)
(* The world bible (water-core/src/world/store.rs): segments, which hold   *)
(* one page or a collection of entries, their rows in the index and their  *)
(* files under world/.                                                     *)
(*                                                                         *)
(* The file of a page is world/<slug>.toml and that of an entry            *)
(* world/<slug>/<id>.toml.  Only built-in segments have a slug: the slug   *)
(* of a segment the writer made, or a rebuild brought back, is empty, so   *)
(* all pages of such segments share the file world/.toml and their entries *)
(* lie next to the built-in pages, as world/<id>.toml.                     *)
(*                                                                         *)
(* Commands hold the database lock throughout; a write that fails or a     *)
(* crash before the commit is an action of its own, as is the rebuild.     *)
(***************************************************************************)
EXTENDS Naturals, FiniteSets

CONSTANTS PageSlug, ListSlug,  \* the built-in segments, by slug
          UserSegment,         \* ids of segments the writer makes
          Entry,               \* ids of entries, each minted at most once
          Text,                \* contents other than an empty one
          Place,               \* scenes, of which only the location matters
          Empty, NoSlug, Missing,
          Broken                 \* a file whose write was cut

VARIABLES seg,      \* the segments: [list, shape], or Missing
          page,     \* the row of the page of a segment
          entry,    \* the rows of entries
          pageFile, \* world/<slug>.toml, by slug
          entryFile,\* world/<slug>/<id>.toml, by slug and id
          location, \* scene.location_id
          issued,   \* ids of entries ever handed out
          saved     \* pages and entries whose file nothing touched since their last edit

worldVars == <<seg, page, entry, pageFile, entryFile, location, issued, saved>>

Builtin == PageSlug \cup ListSlug

\* A rebuild turns every file directly under world/ into a segment.
Revived == {"revived"} \X (PageSlug \cup Entry)

Segment == Builtin \cup UserSegment \cup Revived
Slug    == Builtin \cup {NoSlug}
Content == Text \cup {Empty}

ASSUME WorldAssumption ==
    /\ PageSlug \cap ListSlug = {}
    /\ Segment \cap Entry = {}
    /\ NoSlug \notin Builtin
    /\ Missing \notin Entry \cup Content
    /\ Broken \notin Content
    /\ \A g \in Segment, v \in Content : [seg |-> g, value |-> v] # Missing
    /\ \A list \in BOOLEAN, shape \in SUBSET {"hidden", "template"} :
        [list |-> list, shape |-> shape] # Missing

\* A segment may be hidden and may carry a template of its own.
Shape == SUBSET {"hidden", "template"}

SlugOf(g) == IF g \in Builtin THEN g ELSE NoSlug

Pages   == {g \in Segment : page[g] # Missing}
Entries == {e \in Entry : entry[e] # Missing}
Lists   == {g \in Segment : seg[g] # Missing /\ seg[g].list}
Singles == {g \in Segment : seg[g] # Missing /\ ~ seg[g].list}

Fresh(list) == [list |-> list, shape |-> {}]

Seeded == [g \in Segment |-> IF g \in Builtin THEN Fresh(g \in ListSlug) ELSE Missing]

WorldTypeOK ==
    /\ seg \in [Segment -> [list : BOOLEAN, shape : Shape] \cup {Missing}]
    /\ page \in [Segment -> Content \cup {Missing}]
    /\ entry \in [Entry -> [seg : Segment, value : Content] \cup {Missing}]
    /\ pageFile \in [Slug -> Content \cup {Missing, Broken}]
    /\ entryFile \in [Slug \X Entry -> Content \cup {Missing, Broken}]
    /\ location \in [Place -> Entry \cup {Missing}]
    /\ issued \in SUBSET Entry
    /\ saved \in SUBSET (Segment \cup Entry)

WorldInit ==
    /\ seg = Seeded
    /\ page = [g \in Segment |-> Missing]
    /\ entry = [e \in Entry |-> Missing]
    /\ pageFile = [d \in Slug |-> Missing]
    /\ entryFile = [p \in Slug \X Entry |-> Missing]
    /\ location = [s \in Place |-> Missing]
    /\ issued = {}
    /\ saved = {}

-----------------------------------------------------------------------------
(* Segments.                                                               *)

CreateSegment(g, list) ==
    /\ g \in UserSegment /\ seg[g] = Missing
    /\ seg' = [seg EXCEPT ![g] = Fresh(list)]
    /\ UNCHANGED <<page, entry, pageFile, entryFile, location, issued, saved>>

ReshapeSegment(g, shape) ==
    /\ seg[g] # Missing
    /\ seg' = [seg EXCEPT ![g].shape = shape]
    /\ UNCHANGED <<page, entry, pageFile, entryFile, location, issued, saved>>

\* A bug to be caught: nothing clears the locations of dropped entries.
KeepLocations(dropped) == dropped \subseteq Entry /\ location' = location

\* The rows of a dropped entry go, and scenes set there have no location.
Unset(dropped) ==
    location' = [s \in Place |-> IF location[s] \in dropped THEN Missing ELSE location[s]]

\* The schema cascades to the rows of the segment; its files stay.
DeleteSegment(g) ==
    LET inside == {e \in Entries : entry[e].seg = g}
    IN  /\ seg[g] # Missing /\ g \notin Builtin
        /\ seg' = [seg EXCEPT ![g] = Missing]
        /\ page' = [page EXCEPT ![g] = Missing]
        /\ entry' = [e \in Entry |-> IF e \in inside THEN Missing ELSE entry[e]]
        /\ Unset(inside)
        /\ saved' = saved \ ({g} \cup inside)
        /\ UNCHANGED <<pageFile, entryFile, issued>>

-----------------------------------------------------------------------------
(* Pages: the row is made by the first read; the file by the first edit.   *)

ReadPage(g) ==
    /\ g \in Singles
    /\ page' = [page EXCEPT ![g] = IF @ = Missing THEN Empty ELSE @]
    /\ UNCHANGED <<seg, entry, pageFile, entryFile, location, issued, saved>>

\* Pages without a slug share one file: the last edit of any of them has it.
Shares(g) == {h \in Singles \ {g} : SlugOf(h) = SlugOf(g)}

UpdatePage(g, v) ==
    /\ g \in Singles
    /\ page' = [page EXCEPT ![g] = v]
    /\ pageFile' = [pageFile EXCEPT ![SlugOf(g)] = v]
    /\ saved' = (saved \ Shares(g)) \cup {g}
    /\ UNCHANGED <<seg, entry, entryFile, location, issued>>

PageUpdateIsCut(g, v) ==
    /\ g \in Singles
    /\ page' = [page EXCEPT ![g] = IF @ = Missing THEN Empty ELSE @]
    /\ \E left \in {v, Broken} : pageFile' = [pageFile EXCEPT ![SlugOf(g)] = left]
    /\ saved' = saved \ ({g} \cup Shares(g))
    /\ UNCHANGED <<seg, entry, entryFile, location, issued>>

-----------------------------------------------------------------------------
(* Entries of a collection.                                                *)

FileOf(e) == <<SlugOf(entry[e].seg), e>>

\* A bug to be caught: an id is free again once its row is gone.
CreateEntryAgain(e, g, v) ==
    /\ e \notin Entries /\ g \in Lists
    /\ entry' = [entry EXCEPT ![e] = [seg |-> g, value |-> v]]
    /\ issued' = issued \cup {e}
    /\ UNCHANGED <<seg, page, pageFile, entryFile, location, saved>>

CreateEntry(e, g, v) ==
    /\ e \notin issued /\ g \in Lists
    /\ entry' = [entry EXCEPT ![e] = [seg |-> g, value |-> v]]
    /\ issued' = issued \cup {e}
    /\ UNCHANGED <<seg, page, pageFile, entryFile, location, saved>>

\* Creation with a first field: a row, then the edit, which writes the file.
\* When the edit fails the new entry is deleted again.
CreateEntrySeeded(e, g, v) ==
    /\ e \notin issued /\ g \in Lists
    /\ issued' = issued \cup {e}
    /\ \/ /\ entry' = [entry EXCEPT ![e] = [seg |-> g, value |-> v]]
          /\ entryFile' = [entryFile EXCEPT ![<<SlugOf(g), e>>] = v]
          /\ saved' = saved \cup {e}
       \/ UNCHANGED <<entry, entryFile, saved>>
    /\ UNCHANGED <<seg, page, pageFile, location>>

UpdateEntry(e, v) ==
    /\ e \in Entries
    /\ entry' = [entry EXCEPT ![e].value = v]
    /\ entryFile' = [entryFile EXCEPT ![FileOf(e)] = v]
    /\ saved' = saved \cup {e}
    /\ UNCHANGED <<seg, page, pageFile, location, issued>>

EntryUpdateIsCut(e, v) ==
    /\ e \in Entries
    /\ \E left \in {v, Broken} : entryFile' = [entryFile EXCEPT ![FileOf(e)] = left]
    /\ saved' = saved \ {e}
    /\ UNCHANGED <<seg, page, entry, pageFile, location, issued>>

\* The file goes first, then the row; a file that cannot go keeps its row.
DeleteEntry(e) ==
    /\ e \in Entries
    /\ entryFile' = [entryFile EXCEPT ![FileOf(e)] = Missing]
    /\ entry' = [entry EXCEPT ![e] = Missing]
    /\ Unset({e})
    /\ saved' = saved \ {e}
    /\ UNCHANGED <<seg, page, pageFile, issued>>

DeleteEntryIfEmpty(e) == e \in Entries /\ entry[e].value = Empty /\ DeleteEntry(e)

EntryDeletionIsCut(e) ==
    /\ e \in Entries
    /\ entryFile' = [entryFile EXCEPT ![FileOf(e)] = Missing]
    /\ saved' = saved \ {e}
    /\ UNCHANGED <<seg, page, entry, pageFile, location, issued>>

SetLocation(s) ==
    /\ \E e \in Entries \cup {Missing} : location' = [location EXCEPT ![s] = e]
    /\ UNCHANGED <<seg, page, entry, pageFile, entryFile, issued, saved>>

-----------------------------------------------------------------------------
(* The world of a rebuild.  Built-in segments are seeded empty; each file  *)
(* directly under world/ becomes a new segment with a page, the file of a  *)
(* built-in page included, up to one that does not parse; files in the     *)
(* folders of the collections are not read, and world/.toml is a name      *)
(* without an extension in the eyes of the scan.                           *)

Kept(g) ==
    IF g[2] \in PageSlug THEN pageFile[g[2]] ELSE entryFile[<<NoSlug, g[2]>>]

Legible == {g \in Revived : Kept(g) \in Content}

BrokenWorld == \E g \in Revived : Kept(g) = Broken

RebuildWorld(W) ==
    /\ seg' = [g \in Segment |-> IF g \in W THEN Fresh(FALSE) ELSE Seeded[g]]
    /\ page' = [g \in Segment |-> IF g \in W THEN Kept(g) ELSE Missing]
    /\ entry' = [e \in Entry |-> Missing]
    /\ location' = [s \in Place |-> Missing]
    /\ saved' = {}
    /\ UNCHANGED <<pageFile, entryFile, issued>>

-----------------------------------------------------------------------------
WorldNext ==
    \/ \E g \in Segment :
        \/ \E list \in BOOLEAN : CreateSegment(g, list)
        \/ \E shape \in Shape : ReshapeSegment(g, shape)
        \/ DeleteSegment(g)
        \/ ReadPage(g)
        \/ \E v \in Content : UpdatePage(g, v) \/ PageUpdateIsCut(g, v)
    \/ \E e \in Entry :
        \/ \E v \in Content, g \in Segment : CreateEntry(e, g, v) \/ CreateEntrySeeded(e, g, v)
        \/ \E v \in Content : UpdateEntry(e, v) \/ EntryUpdateIsCut(e, v)
        \/ DeleteEntry(e) \/ DeleteEntryIfEmpty(e) \/ EntryDeletionIsCut(e)
    \/ \E s \in Place : SetLocation(s)

-----------------------------------------------------------------------------
(* Properties.                                                             *)

\* The location of a scene is an entry that exists, in a collection that
\* exists: deletions of entries and of whole segments clear it.
LocationsExist ==
    \A s \in Place : location[s] # Missing =>
        location[s] \in Entries /\ entry[location[s]].seg \in Lists

\* What was saved is on disk, word for word.
SavedIsOnDisk ==
    /\ \A g \in saved \cap Segment : g \in Pages /\ pageFile[SlugOf(g)] = page[g]
    /\ \A e \in saved \cap Entry : e \in Entries /\ entryFile[FileOf(e)] = entry[e].value

NoTrace(e) == entry[e] = Missing /\ \A d \in Slug : entryFile[<<d, e>>] = Missing

\* An entry deleted together with its file leaves nothing a later edit or a
\* rebuild could bring back.
DeletedEntriesStayAway ==
    [][\A e \in issued : NoTrace(e) => NoTrace(e)']_worldVars

=============================================================================
