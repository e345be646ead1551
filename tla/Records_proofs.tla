--------------------------- MODULE Records_proofs ---------------------------
(***************************************************************************)
(* Proofs about the records of a project, for every number of characters,  *)
(* names, scenes, segments and entries, and any number of commands.        *)
(***************************************************************************)
EXTENDS Records, TLAPS

(***************************************************************************)
(* Characters.  What makes the properties inductive: the file of a         *)
(* character remembers its names even where the index does not have it,    *)
(* because a rebuild believes the file.  The name key is not among them.   *)
(***************************************************************************)
Names(d) == {d.full} \cup d.aliases

FilesRemember ==
    \A c \in Character :
        /\ file[c] \notin {Gone, Torn} => known[c] \subseteq Names(file[c])
        /\ c \notin minted => known[c] = {} /\ row[c] = Gone /\ file[c] = Gone

CharInv == /\ CharTypeOK /\ PovIsPresent /\ LinksAreAlive
           /\ NamesAreRemembered /\ FilesHoldWhatWasSaved /\ FilesRemember

\* An edit keeps the type of the data and every name that is still expected.
LEMMA EditsRemember ==
    ASSUME NEW c \in Character, CharTypeOK, NEW d \in Data, NEW e \in Edits(d),
           known[c] \subseteq Names(d)
    PROVE  /\ e \in Data
           /\ Expected(c, d, e) \subseteq Names(e)
           /\ Expected(c, d, e) \subseteq Name
           /\ known[c] \cap Expected(c, d, e) \subseteq Names(e)
           /\ e.full \in AnyName
<1>1. CASE e \in {Renamed(d, n) : n \in AnyName}
  <2>1. PICK n \in AnyName : e = Renamed(d, n)
    BY <1>1
  <2>2. e.full = n /\ e \in Data
    BY <2>1 DEF Renamed, Data, AnyName
  <2>3. CASE n = d.full
    BY <2>1, <2>2, <2>3 DEF Renamed, Expected, Names, Data, AnyName, CharTypeOK
  <2>4. CASE n # d.full /\ d.full # Blank
    BY <2>1, <2>2, <2>4 DEF Renamed, Expected, Names, Data, AnyName, CharTypeOK
  <2>5. CASE n # d.full /\ d.full = Blank
    BY <2>1, <2>2, <2>5, CharAssumption DEF Renamed, Expected, Names, Data, AnyName, CharTypeOK
  <2> QED BY <2>3, <2>4, <2>5
<1>2. CASE e \in {WithAliases(d, A) : A \in SUBSET Name}
  BY <1>2 DEF WithAliases, Expected, Names, Data, AnyName, CharTypeOK
<1> QED BY <1>1, <1>2 DEF Edits

\* The initial state.
LEMMA CharInitHolds == CharInit => CharInv
BY CharAssumption DEF CharInit, CharInv, CharTypeOK, PovIsPresent, LinksAreAlive,
    NamesAreRemembered, FilesHoldWhatWasSaved, FilesRemember, Living

\* A row or a file that holds data is not taken for an absent one.
LEMMA DataIsNotGone ==
    /\ \A f \in File : f \notin {Gone, Torn}
    /\ \A w \in Row : w # Gone
<1>1. ASSUME NEW f \in File PROVE f \notin {Gone, Torn}
  <2>1. f = [name |-> f.name, full |-> f.full, aliases |-> f.aliases]
    BY DEF File
  <2>2. f.name \in AnyName /\ f.full \in AnyName /\ f.aliases \in SUBSET Name
    BY DEF File
  <2>3. Blank \in AnyName /\ Blank \in AnyName \cup {NoKey} /\ 1 \in 1 .. NumHues
    BY CharAssumption DEF AnyName
  <2> HIDE DEF File
  <2> QED BY <2>1, <2>2, <2>3, CharAssumption DEF AnyName
<1>2. ASSUME NEW w \in Row PROVE w # Gone
  <2> DEFINE d == w.data
  <2>1. w = [name |-> w.name, data |-> d, hue |-> w.hue] /\ d \in Data
    BY DEF Row
  <2>2. d = [full |-> d.full, aliases |-> d.aliases, key |-> d.key]
    BY <2>1 DEF Data
  <2>3. /\ w.name \in AnyName /\ d.full \in AnyName /\ d.aliases \in SUBSET Name
        /\ d.key \in AnyName \cup {NoKey} /\ w.hue \in 1 .. NumHues
    BY <2>1 DEF Row, Data, Hue
  <2> HIDE DEF d
  <2> QED BY <2>1, <2>2, <2>3, CharAssumption DEF AnyName
<1> QED BY <1>1, <1>2

\* What an update writes and what a rebuild reads are typed, and neither
\* loses a name; what is read back from a file is written as that file.
LEMMA WritingIsTyped ==
    /\ \A d \in Data : /\ Written(d) \in File
                       /\ Names(Written(d)) = Names(d)
    /\ \A f \in File : /\ Parsed(f) \in Data
                       /\ Names(Parsed(f)) = Names(f)
                       /\ Written(Parsed(f)) = f
                       /\ f.name \in AnyName
BY CharAssumption DEF Written, Parsed, Names, Data, File, AnyName

\* Every command keeps the invariant.
LEMMA CharStep ==
    ASSUME CharInv, CharNext
    PROVE  CharInv'
<1> USE DEF CharInv
<1>n. /\ NoData \in Data /\ NoData.full = Blank /\ Blank \in AnyName
      /\ Written(NoData) \in File /\ Written(NoData) \notin {Gone, Torn}
  <2>1. NoData \in Data /\ NoData.full = Blank /\ Blank \in AnyName
    BY DEF NoData, Data, AnyName
  <2> QED BY <2>1, WritingIsTyped, DataIsNotGone
<1>1. ASSUME NEW c \in Character, CreateCharacter(c) PROVE CharInv'
  <2>1. PICK h \in Hue : row' = [row EXCEPT ![c] = [name |-> Blank, data |-> NoData, hue |-> h]]
    BY <1>1 DEF CreateCharacter
  <2>0. [name |-> Blank, data |-> NoData, hue |-> h] \in Row
    BY <1>n DEF Row
  <2>2. CharTypeOK'
    BY <1>1, <1>n, <2>0, <2>1 DEF CreateCharacter, CharTypeOK
  <2>3. Living' = Living \cup {c} /\ c \notin Living
    BY <1>1, <2>0, <2>1, DataIsNotGone DEF CreateCharacter, CharTypeOK, Living, FilesRemember
  <2>4. PovIsPresent' /\ LinksAreAlive'
    BY <1>1, <2>3 DEF CreateCharacter, PovIsPresent, LinksAreAlive, CharTypeOK
  <2>5. NamesAreRemembered' /\ FilesHoldWhatWasSaved' /\ FilesRemember'
    BY <1>1, <1>n, <2>1, <2>3 DEF CreateCharacter, NamesAreRemembered, FilesHoldWhatWasSaved,
        FilesRemember, CharTypeOK, Names, NoData
  <2> QED BY <2>2, <2>4, <2>5
<1>2. ASSUME NEW c \in Character, CreationIsCut(c) PROVE CharInv'
  BY <1>2, <1>n DEF CreationIsCut, CharTypeOK, PovIsPresent, LinksAreAlive, NamesAreRemembered,
      FilesHoldWhatWasSaved, FilesRemember, Living, Names, NoData
<1>3. ASSUME NEW c \in Character, UpdateField(c) PROVE CharInv'
  <2>1. PICK e \in Edits(row[c].data) :
          /\ row' = [row EXCEPT ![c] = [name |-> e.full, data |-> e, hue |-> @.hue]]
          /\ file' = [file EXCEPT ![c] = Written(e)]
          /\ known' = [known EXCEPT ![c] = Expected(c, row[c].data, e)]
    BY <1>3 DEF UpdateField
  <2>2. row[c].data \in Data /\ row[c].hue \in Hue /\ known[c] \subseteq Names(row[c].data)
    BY <1>3 DEF UpdateField, Living, CharTypeOK, Row, NamesAreRemembered, Names
  <2>3. /\ e \in Data /\ e.full \in AnyName
        /\ Expected(c, row[c].data, e) \subseteq Names(e)
        /\ Expected(c, row[c].data, e) \subseteq Name
    BY <2>2, EditsRemember
  <2> DEFINE new == [name |-> e.full, data |-> e, hue |-> row[c].hue]
  <2>4. new \in Row /\ new # Gone /\ row' = [row EXCEPT ![c] = new]
    BY <2>1, <2>2, <2>3, DataIsNotGone DEF Row
  <2>w. Written(e) \in File /\ Names(Written(e)) = Names(e)
    BY <2>3, WritingIsTyped
  <2>5. c \in Living /\ Living' = Living
    BY <1>3, <2>4 DEF UpdateField, Living, CharTypeOK
  <2>6. CharTypeOK'
    <3>2. row' \in [Character -> Row \cup {Gone}]
      BY <2>4 DEF CharTypeOK
    <3>3. /\ file' \in [Character -> File \cup {Gone, Torn}]
          /\ known' \in [Character -> SUBSET Name]
      BY <2>1, <2>3, <2>w DEF CharTypeOK
    <3> QED BY <1>3, <3>2, <3>3 DEF UpdateField, CharTypeOK
  <2>7. PovIsPresent' /\ LinksAreAlive'
    BY <1>3, <2>5 DEF UpdateField, PovIsPresent, LinksAreAlive
  <2>8. /\ row'[c].data = e /\ row'[c].name = e.full
        /\ file'[c] = Written(e) /\ known'[c] \subseteq Names(e)
        /\ \A d \in Character \ {c} : row'[d] = row[d] /\ file'[d] = file[d] /\ known'[d] = known[d]
    BY <2>1, <2>3, <2>4 DEF CharTypeOK
  <2>9. NamesAreRemembered'
    BY <2>5, <2>8 DEF NamesAreRemembered, Names, Living
  <2>10. FilesHoldWhatWasSaved'
    BY <1>3, <2>5, <2>8 DEF UpdateField, FilesHoldWhatWasSaved, Living
  <2>11. FilesRemember'
    BY <1>3, <2>4, <2>5, <2>8, <2>w DEF UpdateField, FilesRemember, Living
  <2> QED BY <2>6, <2>7, <2>9, <2>10, <2>11
<1>4. ASSUME NEW c \in Character, UpdateIsCut(c) PROVE CharInv'
  <2>1. PICK e \in Edits(row[c].data) :
          /\ file' = [file EXCEPT ![c] = Written(e)] \/ file' = [file EXCEPT ![c] = Torn]
          /\ known' = [known EXCEPT ![c] = @ \cap Expected(c, row[c].data, e)]
    BY <1>4 DEF UpdateIsCut
  <2>2. row[c].data \in Data /\ known[c] \subseteq Names(row[c].data)
    BY <1>4 DEF UpdateIsCut, Living, CharTypeOK, Row, NamesAreRemembered, Names
  <2>3. e \in Data /\ known[c] \cap Expected(c, row[c].data, e) \subseteq Names(e)
    BY <2>2, EditsRemember
  <2>4. Written(e) \in File /\ Names(Written(e)) = Names(e)
    BY <2>3, WritingIsTyped
  <2>6. CharTypeOK'
    BY <1>4, <2>1, <2>3, <2>4 DEF UpdateIsCut, CharTypeOK
  <2>7. PovIsPresent' /\ LinksAreAlive'
    BY <1>4 DEF UpdateIsCut, PovIsPresent, LinksAreAlive, Living
  <2>8. NamesAreRemembered' /\ FilesHoldWhatWasSaved'
    BY <1>4, <2>1 DEF UpdateIsCut, NamesAreRemembered, FilesHoldWhatWasSaved, CharTypeOK, Living
  <2>9. FilesRemember'
    <3>1. c \in minted
      BY <1>4 DEF UpdateIsCut, Living, FilesRemember
    <3> QED BY <1>4, <2>1, <2>3, <2>4, <3>1 DEF UpdateIsCut, FilesRemember, CharTypeOK
  <2> QED BY <2>6, <2>7, <2>8, <2>9
<1>5. ASSUME NEW c \in Character, DeleteAndCascade(c) PROVE CharInv'
  <2>1. CharTypeOK'
    BY <1>5 DEF DeleteAndCascade, WithoutLinks, CharTypeOK
  <2>2. Living' = Living \ {c}
    BY <1>5 DEF DeleteAndCascade, Living, CharTypeOK
  <2>3. PovIsPresent'
    BY <1>5 DEF DeleteAndCascade, WithoutLinks, PovIsPresent, CharTypeOK
  <2>4. LinksAreAlive'
    BY <1>5, <2>2 DEF DeleteAndCascade, WithoutLinks, LinksAreAlive
  <2>5. NamesAreRemembered' /\ FilesHoldWhatWasSaved' /\ FilesRemember'
    BY <1>5, <2>2 DEF DeleteAndCascade, NamesAreRemembered, FilesHoldWhatWasSaved, FilesRemember,
        CharTypeOK, Living
  <2> QED BY <2>1, <2>3, <2>4, <2>5
<1>6. ASSUME NEW c \in Character, DeletionIsCut(c) PROVE CharInv'
  BY <1>6 DEF DeletionIsCut, CharTypeOK, PovIsPresent, LinksAreAlive, NamesAreRemembered,
      FilesHoldWhatWasSaved, FilesRemember, Living, Names
<1>7. ASSUME NEW c \in Character, NEW s \in Scene, LinkToScene(c, s) PROVE CharInv'
  BY <1>7 DEF LinkToScene, CharTypeOK, PovIsPresent, LinksAreAlive, NamesAreRemembered,
      FilesHoldWhatWasSaved, FilesRemember, Living, Names
<1>8. ASSUME NEW c \in Character, NEW s \in Scene, UnlinkFromScene(c, s) PROVE CharInv'
  <2>1. PovIsPresent'
    BY <1>8 DEF UnlinkFromScene, PovIsPresent, CharTypeOK
  <2> QED BY <1>8, <2>1 DEF UnlinkFromScene, CharTypeOK, LinksAreAlive, NamesAreRemembered,
      FilesHoldWhatWasSaved, FilesRemember, Living, Names
<1>9. ASSUME NEW s \in Scene, SetPov(s) PROVE CharInv'
  <2>1. PovIsPresent' /\ CharTypeOK'
    BY <1>9 DEF SetPov, PovIsPresent, CharTypeOK
  <2> QED BY <1>9, <2>1 DEF SetPov, LinksAreAlive, NamesAreRemembered,
      FilesHoldWhatWasSaved, FilesRemember, Living, Names
<1> QED BY <1>1, <1>2, <1>3, <1>4, <1>5, <1>6, <1>7, <1>8, <1>9 DEF CharNext

\* A rebuild of any readable characters keeps it, and so does a stutter.
LEMMA CharRebuild ==
    ASSUME CharInv, NEW R \in SUBSET Readable, RebuildCharacters(R), indexed' \in BOOLEAN
    PROVE  CharInv'
<1> USE DEF CharInv
<1> DEFINE Back(c) == [name |-> file[c].name, data |-> Parsed(file[c]), hue |-> 1]
<1>1. \A c \in R : file[c] \in File /\ c \in Character
  BY DEF Readable, CharTypeOK
<1>2. \A c \in R : Back(c) \in Row /\ Back(c) # Gone
  <2>1. 1 \in Hue
    BY CharAssumption DEF Hue
  <2> QED BY <1>1, <2>1, WritingIsTyped, DataIsNotGone DEF Row
<1>r. row' = [c \in Character |-> IF c \in R THEN Back(c) ELSE Gone]
  BY DEF RebuildCharacters
<1>b. \A c \in R : /\ row'[c].data = Parsed(file[c]) /\ row'[c].name = file[c].name
                  /\ Names(Parsed(file[c])) = Names(file[c])
                  /\ Written(Parsed(file[c])) = file[c]
  BY <1>1, <1>r, WritingIsTyped
<1> HIDE DEF Back
<1>3. CharTypeOK'
  BY <1>2, <1>r DEF RebuildCharacters, CharTypeOK
<1>4. Living' = R
  BY <1>1, <1>2, <1>r DEF Living
<1>5. PovIsPresent' /\ LinksAreAlive'
  BY DEF RebuildCharacters, PovIsPresent, LinksAreAlive
<1>6. NamesAreRemembered' /\ FilesHoldWhatWasSaved'
  <2>1. NamesAreRemembered'
    BY <1>1, <1>4, <1>b DEF RebuildCharacters, NamesAreRemembered, FilesRemember, Readable, Names
  <2> QED BY <1>4, <1>b, <2>1 DEF RebuildCharacters, FilesHoldWhatWasSaved
<1>7. FilesRemember'
  BY DEF RebuildCharacters, FilesRemember, Readable
<1> QED BY <1>3, <1>5, <1>6, <1>7

LEMMA CharStutter ==
    ASSUME CharInv, UNCHANGED charVars
    PROVE  CharInv'
BY DEF charVars, CharInv, CharTypeOK, PovIsPresent, LinksAreAlive, NamesAreRemembered,
    FilesHoldWhatWasSaved, FilesRemember, Living, Names

(***************************************************************************)
(* World.                                                                  *)
(***************************************************************************)
EntriesAreListed ==
    /\ saved \cap Segment \subseteq Singles
    /\ Entries \subseteq issued
    /\ \A e \in Entries : entry[e].seg \in Lists

WorldInv == WorldTypeOK /\ LocationsExist /\ SavedIsOnDisk /\ EntriesAreListed

LEMMA ContentIsNotMissing ==
    /\ \A g \in Segment, v \in Content : [seg |-> g, value |-> v] # Missing
    /\ \A list \in BOOLEAN : Fresh(list) # Missing /\ Fresh(list).list = list
                             /\ Fresh(list) \in [list : BOOLEAN, shape : Shape]
    /\ Missing \notin Content /\ Missing \notin Entry /\ Empty \in Content
BY WorldAssumption DEF Fresh, Content, Shape

LEMMA SlugsAreSlugs == \A g \in Segment : SlugOf(g) \in Slug
BY DEF SlugOf, Slug, Builtin

LEMMA SeededIsTyped ==
    /\ Seeded \in [Segment -> [list : BOOLEAN, shape : Shape] \cup {Missing}]
    /\ Builtin \subseteq Segment
<1>1. \A g \in Segment : Fresh(g \in ListSlug) \in [list : BOOLEAN, shape : Shape]
  <2> TAKE g \in Segment
  <2>1. (g \in ListSlug) \in BOOLEAN
    OBVIOUS
  <2>2. {} \in Shape
    BY DEF Shape
  <2> QED BY <2>1, <2>2 DEF Fresh
<1> QED BY <1>1 DEF Seeded, Segment

LEMMA WorldInitHolds == WorldInit => WorldInv
BY SeededIsTyped, WorldAssumption DEF WorldInit, WorldInv, EntriesAreListed, WorldTypeOK, LocationsExist, SavedIsOnDisk,
    Entries, Pages, Lists, Singles

LEMMA WorldStep ==
    ASSUME WorldInv, WorldNext
    PROVE  WorldInv'
<1> USE DEF WorldInv, EntriesAreListed
<1>a. ASSUME NEW g \in Segment, NEW list \in BOOLEAN, CreateSegment(g, list) PROVE WorldInv'
  <2>1. WorldTypeOK'
    BY <1>a, ContentIsNotMissing DEF CreateSegment, WorldTypeOK
  <2>2. Lists \subseteq Lists' /\ Singles \subseteq Singles' /\ Entries' = Entries /\ Pages' = Pages
    BY <1>a DEF CreateSegment, Lists, Singles, Entries, Pages, WorldTypeOK
  <2> QED BY <1>a, <2>1, <2>2 DEF CreateSegment, LocationsExist, SavedIsOnDisk, FileOf
<1>b. ASSUME NEW g \in Segment, NEW shape \in Shape, ReshapeSegment(g, shape) PROVE WorldInv'
  <2>0. seg[g] \in [list : BOOLEAN, shape : Shape] /\ seg' = [seg EXCEPT ![g] = [seg[g] EXCEPT !.shape = shape]]
    BY <1>b DEF ReshapeSegment, WorldTypeOK
  <2>1. [seg[g] EXCEPT !.shape = shape] = [list |-> seg[g].list, shape |-> shape]
    BY <2>0
  <2>2. [list |-> seg[g].list, shape |-> shape] # Missing
    BY <2>0, WorldAssumption DEF Shape
  <2>3. WorldTypeOK'
    BY <1>b, <2>0, <2>1 DEF ReshapeSegment, WorldTypeOK
  <2>4. Lists' = Lists /\ Singles' = Singles /\ Entries' = Entries /\ Pages' = Pages
    BY <1>b, <2>0, <2>1, <2>2 DEF ReshapeSegment, Lists, Singles, Entries, Pages, WorldTypeOK
  <2> QED BY <1>b, <2>3, <2>4 DEF ReshapeSegment, LocationsExist, SavedIsOnDisk, FileOf
<1>c. ASSUME NEW g \in Segment, DeleteSegment(g) PROVE WorldInv'
  <2> DEFINE inside == {e \in Entries : entry[e].seg = g}
  <2>1. WorldTypeOK'
    BY <1>c DEF DeleteSegment, Unset, WorldTypeOK
  <2>2. Entries' = Entries \ inside /\ Pages' = Pages \ {g} /\ Lists' = Lists \ {g} /\ Singles' = Singles \ {g}
    BY <1>c DEF DeleteSegment, Entries, Pages, Lists, Singles, WorldTypeOK
  <2>3. \A e \in Entries \ inside : entry'[e] = entry[e]
    BY <1>c DEF DeleteSegment, Entries
  <2>4. LocationsExist'
    BY <1>c, <2>2, <2>3 DEF DeleteSegment, Unset, LocationsExist
  <2>5. SavedIsOnDisk'
    BY <1>c, <2>2, <2>3 DEF DeleteSegment, SavedIsOnDisk, FileOf, WorldTypeOK
  <2>6. EntriesAreListed'
    BY <1>c, <2>2, <2>3 DEF DeleteSegment
  <2> QED BY <2>1, <2>4, <2>5, <2>6
<1>d. ASSUME NEW g \in Segment, ReadPage(g) PROVE WorldInv'
  <2>1. WorldTypeOK'
    BY <1>d, ContentIsNotMissing DEF ReadPage, WorldTypeOK
  <2>2. Lists' = Lists /\ Singles' = Singles /\ Entries' = Entries /\ Pages \subseteq Pages'
        /\ \A h \in Pages : page'[h] = page[h]
    BY <1>d, ContentIsNotMissing DEF ReadPage, Lists, Singles, Entries, Pages, WorldTypeOK
  <2> QED BY <1>d, <2>1, <2>2 DEF ReadPage, LocationsExist, SavedIsOnDisk, FileOf
<1>e. ASSUME NEW g \in Segment, NEW v \in Content, UpdatePage(g, v) PROVE WorldInv'
  <2>0. g \in Singles /\ SlugOf(g) \in Slug
    BY <1>e, SlugsAreSlugs DEF UpdatePage
  <2>1. WorldTypeOK'
    BY <1>e, <2>0 DEF UpdatePage, WorldTypeOK, Singles
  <2>2. Lists' = Lists /\ Singles' = Singles /\ Entries' = Entries /\ Pages' = Pages \cup {g}
    BY <1>e, ContentIsNotMissing DEF UpdatePage, Lists, Singles, Entries, Pages, WorldTypeOK
  <2>3. LocationsExist'
    BY <1>e, <2>2 DEF UpdatePage, LocationsExist
  <2>4. \A e \in saved' \cap Entry : e \in Entries' /\ entryFile'[FileOf(e)'] = entry'[e].value
    BY <1>e, <2>2, WorldAssumption DEF UpdatePage, SavedIsOnDisk, FileOf
  <2>5. \A h \in saved' \cap Segment : h \in Pages' /\ pageFile'[SlugOf(h)] = page'[h]
    <3> SUFFICES ASSUME NEW h \in saved' \cap Segment
                 PROVE  h \in Pages' /\ pageFile'[SlugOf(h)] = page'[h]
      OBVIOUS
    <3>1. CASE h = g
      BY <1>e, <2>0, <2>2, <3>1 DEF UpdatePage, WorldTypeOK
    <3>2. CASE h # g
      <4>1. h \in saved /\ h \notin Shares(g) /\ h \in Singles
        BY <1>e, <3>2 DEF UpdatePage
      <4>2. SlugOf(h) # SlugOf(g)
        BY <4>1, <3>2 DEF Shares
      <4> QED BY <1>e, <2>2, <3>2, <4>1, <4>2, SlugsAreSlugs DEF UpdatePage, WorldTypeOK, SavedIsOnDisk
    <3> QED BY <3>1, <3>2
  <2>6. EntriesAreListed'
    BY <1>e, <2>0, <2>2 DEF UpdatePage
  <2> QED BY <2>1, <2>3, <2>4, <2>5, <2>6 DEF SavedIsOnDisk
<1>f. ASSUME NEW g \in Segment, NEW v \in Content, PageUpdateIsCut(g, v) PROVE WorldInv'
  <2>0. g \in Singles /\ SlugOf(g) \in Slug
    BY <1>f, SlugsAreSlugs DEF PageUpdateIsCut
  <2>1. WorldTypeOK'
    BY <1>f, <2>0, ContentIsNotMissing DEF PageUpdateIsCut, WorldTypeOK, Singles
  <2>2. Lists' = Lists /\ Singles' = Singles /\ Entries' = Entries /\ Pages \subseteq Pages'
        /\ \A h \in Pages : page'[h] = page[h]
    BY <1>f, ContentIsNotMissing DEF PageUpdateIsCut, Lists, Singles, Entries, Pages, WorldTypeOK
  <2>3. LocationsExist'
    BY <1>f, <2>2 DEF PageUpdateIsCut, LocationsExist
  <2>4. \A e \in saved' \cap Entry : e \in Entries' /\ entryFile'[FileOf(e)'] = entry'[e].value
    BY <1>f, <2>2 DEF PageUpdateIsCut, SavedIsOnDisk, FileOf
  <2>5. ASSUME NEW h \in saved' \cap Segment
        PROVE  h \in Pages' /\ pageFile'[SlugOf(h)] = page'[h]
    <3>1. h \in saved /\ h # g /\ h \notin Shares(g) /\ h \in Singles
      BY <1>f DEF PageUpdateIsCut
    <3>2. SlugOf(h) # SlugOf(g)
      BY <3>1 DEF Shares
    <3> QED BY <1>f, <2>2, <3>1, <3>2, SlugsAreSlugs DEF PageUpdateIsCut, WorldTypeOK, SavedIsOnDisk
  <2>6. EntriesAreListed'
    BY <1>f, <2>2 DEF PageUpdateIsCut
  <2> QED BY <2>1, <2>3, <2>4, <2>5, <2>6 DEF SavedIsOnDisk
<1>g. ASSUME NEW e \in Entry, NEW v \in Content, NEW g \in Segment, CreateEntry(e, g, v) PROVE WorldInv'
  <2>1. WorldTypeOK'
    BY <1>g DEF CreateEntry, WorldTypeOK
  <2>2. Lists' = Lists /\ Singles' = Singles /\ Pages' = Pages /\ Entries' = Entries \cup {e}
        /\ \A f \in Entries : entry'[f] = entry[f]
    BY <1>g, ContentIsNotMissing DEF CreateEntry, Lists, Singles, Entries, Pages, WorldTypeOK
  <2>3. LocationsExist' /\ EntriesAreListed'
    <3>1. entry'[e].seg = g /\ g \in Lists
      BY <1>g DEF CreateEntry, WorldTypeOK
    <3>2. LocationsExist'
      BY <1>g, <2>2 DEF CreateEntry, LocationsExist
    <3>3. \A f \in Entries' : entry'[f].seg \in Lists'
      BY <2>2, <3>1
    <3>4. saved' \cap Segment \subseteq Singles' /\ Entries' \subseteq issued'
      BY <1>g, <2>2 DEF CreateEntry
    <3> QED BY <3>2, <3>3, <3>4
  <2>4. SavedIsOnDisk'
    BY <1>g, <2>2 DEF CreateEntry, SavedIsOnDisk, FileOf
  <2> QED BY <2>1, <2>3, <2>4
<1>h. ASSUME NEW e \in Entry, NEW v \in Content, NEW g \in Segment, CreateEntrySeeded(e, g, v) PROVE WorldInv'
  <2>1. CASE UNCHANGED <<entry, entryFile, saved>>
    BY <1>h, <2>1 DEF CreateEntrySeeded, WorldTypeOK, LocationsExist, SavedIsOnDisk, FileOf,
        Entries, Pages, Lists, Singles
  <2>2. CASE /\ entry' = [entry EXCEPT ![e] = [seg |-> g, value |-> v]]
             /\ entryFile' = [entryFile EXCEPT ![<<SlugOf(g), e>>] = v]
             /\ saved' = saved \cup {e}
    <3>1. WorldTypeOK'
      BY <1>h, <2>2, SlugsAreSlugs DEF CreateEntrySeeded, WorldTypeOK
    <3>2. Lists' = Lists /\ Singles' = Singles /\ Pages' = Pages /\ Entries' = Entries \cup {e}
          /\ e \notin Entries /\ \A f \in Entries : entry'[f] = entry[f]
      BY <1>h, <2>2, ContentIsNotMissing DEF CreateEntrySeeded, Lists, Singles, Entries, Pages, WorldTypeOK
    <3>3. LocationsExist'
      BY <1>h, <2>2, <3>2 DEF CreateEntrySeeded, LocationsExist
    <3>4. \A f \in saved' \cap Entry : f \in Entries' /\ entryFile'[FileOf(f)'] = entry'[f].value
      <4>1. FileOf(e)' = <<SlugOf(g), e>> /\ <<SlugOf(g), e>> \in Slug \X Entry /\ entry'[e].value = v
        BY <2>2, SlugsAreSlugs DEF FileOf, WorldTypeOK
      <4>2. \A f \in Entries : FileOf(f)' = FileOf(f) /\ FileOf(f) # <<SlugOf(g), e>>
        BY <3>2 DEF FileOf
      <4> QED BY <1>h, <2>2, <3>2, <4>1, <4>2 DEF CreateEntrySeeded, WorldTypeOK, SavedIsOnDisk
    <3>5. \A h \in saved' \cap Segment : h \in Pages' /\ pageFile'[SlugOf(h)] = page'[h] /\ h \in Singles'
      BY <1>h, <2>2, <3>2, WorldAssumption DEF CreateEntrySeeded, SavedIsOnDisk
    <3>6. EntriesAreListed'
      <4>1. entry'[e].seg = g /\ g \in Lists
        BY <1>h, <2>2 DEF CreateEntrySeeded, WorldTypeOK
      <4>3. \A f \in Entries' : entry'[f].seg \in Lists'
        BY <3>2, <4>1
      <4>4. Entries' \subseteq issued'
        BY <1>h, <3>2 DEF CreateEntrySeeded
      <4> QED BY <3>5, <4>3, <4>4
    <3> QED BY <3>1, <3>3, <3>4, <3>5, <3>6 DEF SavedIsOnDisk
  <2> QED BY <1>h, <2>1, <2>2 DEF CreateEntrySeeded
<1>i. ASSUME NEW e \in Entry, NEW v \in Content, UpdateEntry(e, v) PROVE WorldInv'
  <2>0. /\ e \in Entries /\ entry[e] \in [seg : Segment, value : Content]
        /\ entry' = [entry EXCEPT ![e] = [seg |-> entry[e].seg, value |-> v]]
        /\ [seg |-> entry[e].seg, value |-> v] # Missing
    <3>1. e \in Entries /\ entry[e] \in [seg : Segment, value : Content]
      BY <1>i DEF UpdateEntry, Entries, WorldTypeOK
    <3>2. [entry[e] EXCEPT !.value = v] = [seg |-> entry[e].seg, value |-> v]
      BY <3>1
    <3>3. entry' = [entry EXCEPT ![e] = [entry[e] EXCEPT !.value = v]]
      BY <1>i DEF UpdateEntry
    <3> QED BY <3>1, <3>2, <3>3, ContentIsNotMissing
  <2>f. FileOf(e) \in Slug \X Entry
    BY <2>0, SlugsAreSlugs DEF FileOf
  <2>1. WorldTypeOK'
    BY <1>i, <2>0, <2>f DEF UpdateEntry, WorldTypeOK
  <2>2. Lists' = Lists /\ Singles' = Singles /\ Pages' = Pages /\ Entries' = Entries
        /\ \A f \in Entries : entry'[f].seg = entry[f].seg /\ FileOf(f)' = FileOf(f)
    BY <1>i, <2>0 DEF UpdateEntry, Lists, Singles, Entries, Pages, WorldTypeOK, FileOf
  <2>3. LocationsExist'
    BY <1>i, <2>2 DEF UpdateEntry, LocationsExist
  <2>4. \A f \in saved' \cap Entry : f \in Entries' /\ entryFile'[FileOf(f)'] = entry'[f].value
    <3>1. \A f \in Entries \ {e} : FileOf(f) # FileOf(e) /\ entry'[f] = entry[f]
      BY <2>0 DEF FileOf, Entries
    <3>2. entryFile'[FileOf(e)] = v /\ entry'[e].value = v
      BY <1>i, <2>0, <2>f DEF UpdateEntry, WorldTypeOK
    <3> QED BY <1>i, <2>0, <2>2, <2>f, <3>1, <3>2 DEF UpdateEntry, WorldTypeOK, SavedIsOnDisk
  <2>5. \A h \in saved' \cap Segment : h \in Pages' /\ pageFile'[SlugOf(h)] = page'[h] /\ h \in Singles'
    BY <1>i, <2>2, WorldAssumption DEF UpdateEntry, SavedIsOnDisk
  <2> QED BY <1>i, <2>1, <2>2, <2>3, <2>4, <2>5 DEF UpdateEntry, SavedIsOnDisk
<1>j. ASSUME NEW e \in Entry, NEW v \in Content, EntryUpdateIsCut(e, v) PROVE WorldInv'
  <2>0. PICK left \in {v, Broken} : entryFile' = [entryFile EXCEPT ![FileOf(e)] = left]
    BY <1>j DEF EntryUpdateIsCut
  <2>1. WorldTypeOK'
    BY <1>j, <2>0 DEF EntryUpdateIsCut, WorldTypeOK
  <2>2. \A f \in Entries \ {e} : FileOf(f) # FileOf(e)
    BY DEF FileOf
  <2>3. SavedIsOnDisk'
    BY <1>j, <2>0, <2>2 DEF EntryUpdateIsCut, SavedIsOnDisk, FileOf, WorldTypeOK, Pages, Entries
  <2> QED BY <1>j, <2>1, <2>3 DEF EntryUpdateIsCut, LocationsExist, Entries, Pages, Lists, Singles
<1>k. ASSUME NEW e \in Entry, DeleteEntry(e) PROVE WorldInv'
  <2>1. WorldTypeOK'
    BY <1>k DEF DeleteEntry, Unset, WorldTypeOK
  <2>2. Entries' = Entries \ {e} /\ Lists' = Lists /\ Singles' = Singles /\ Pages' = Pages
        /\ \A f \in Entries \ {e} : entry'[f] = entry[f]
    BY <1>k DEF DeleteEntry, Entries, Pages, Lists, Singles, WorldTypeOK
  <2>3. LocationsExist'
    BY <1>k, <2>2 DEF DeleteEntry, Unset, LocationsExist
  <2>4. \A f \in Entries \ {e} : FileOf(f) # FileOf(e) /\ FileOf(f)' = FileOf(f)
    BY <2>2 DEF FileOf
  <2>5. SavedIsOnDisk'
    BY <1>k, <2>2, <2>4, WorldAssumption DEF DeleteEntry, SavedIsOnDisk, WorldTypeOK
  <2> QED BY <1>k, <2>1, <2>2, <2>3, <2>5 DEF DeleteEntry
<1>l. ASSUME NEW e \in Entry, EntryDeletionIsCut(e) PROVE WorldInv'
  <2>1. WorldTypeOK'
    BY <1>l DEF EntryDeletionIsCut, WorldTypeOK
  <2>2. \A f \in Entries \ {e} : FileOf(f) # FileOf(e)
    BY DEF FileOf
  <2>3. SavedIsOnDisk'
    BY <1>l, <2>2 DEF EntryDeletionIsCut, SavedIsOnDisk, FileOf, WorldTypeOK, Pages, Entries
  <2> QED BY <1>l, <2>1, <2>3 DEF EntryDeletionIsCut, LocationsExist, Entries, Pages, Lists, Singles
<1>m. ASSUME NEW s \in Place, SetLocation(s) PROVE WorldInv'
  <2>1. WorldTypeOK'
    BY <1>m DEF SetLocation, WorldTypeOK, Entries
  <2>3. SavedIsOnDisk'
    BY <1>m DEF SetLocation, SavedIsOnDisk, FileOf, Pages, Entries
  <2>4. Entries' = Entries /\ Lists' = Lists /\ Singles' = Singles
    BY <1>m DEF SetLocation, Entries, Lists, Singles
  <2>5. PICK f \in Entries \cup {Missing} : location' = [location EXCEPT ![s] = f]
    BY <1>m DEF SetLocation
  <2> QED BY <1>m, <2>1, <2>3, <2>4, <2>5 DEF SetLocation, LocationsExist
<1> QED BY <1>a, <1>b, <1>c, <1>d, <1>e, <1>f, <1>g, <1>h, <1>i, <1>j, <1>k, <1>l, <1>m
        DEF WorldNext, DeleteEntryIfEmpty

LEMMA WorldRebuild ==
    ASSUME WorldInv, NEW W \in SUBSET Legible, RebuildWorld(W)
    PROVE  WorldInv'
<1> USE DEF WorldInv
<1>1. \A g \in W : g \in Segment /\ Kept(g) \in Content
  BY DEF Legible, Segment
<1>2. WorldTypeOK'
  BY <1>1, ContentIsNotMissing, SeededIsTyped DEF RebuildWorld, WorldTypeOK
<1>3. Entries' = {} /\ saved' = {}
  BY DEF RebuildWorld, Entries
<1> QED BY <1>2, <1>3 DEF RebuildWorld, LocationsExist, SavedIsOnDisk, EntriesAreListed

LEMMA WorldStutter ==
    ASSUME WorldInv, UNCHANGED worldVars
    PROVE  WorldInv'
BY DEF worldVars, WorldInv, EntriesAreListed, WorldTypeOK, LocationsExist, SavedIsOnDisk, FileOf, Entries, Pages,
    Lists, Singles

(***************************************************************************)
(* The theorems.                                                           *)
(***************************************************************************)
LEMMA RecordsInvariant == Spec => [](CharInv /\ WorldInv)
<1>1. Init => CharInv /\ WorldInv
  BY CharInitHolds, WorldInitHolds DEF Init
<1>2. CharInv /\ WorldInv /\ [Next]_vars => CharInv' /\ WorldInv'
  <2> SUFFICES ASSUME CharInv, WorldInv, [Next]_vars PROVE CharInv' /\ WorldInv'
    OBVIOUS
  <2>1. CASE CharacterCommand
    BY <2>1, CharStep, WorldStutter DEF CharacterCommand
  <2>2. CASE WorldCommand
    BY <2>2, CharStutter, WorldStep DEF WorldCommand
  <2>3. CASE Rebuild
    BY <2>3, CharRebuild, WorldRebuild DEF Rebuild
  <2>4. CASE UNCHANGED vars
    BY <2>4, CharStutter, WorldStutter DEF vars
  <2> QED BY <2>1, <2>2, <2>3, <2>4 DEF Next
<1> QED BY <1>1, <1>2, PTL DEF Spec

\* The point of view of a scene is present in it, however links, deletions,
\* crashes and rebuilds follow on each other.
THEOREM PointOfViewIsPresent == Spec => [](PovIsPresent /\ LinksAreAlive)
<1>1. CharInv /\ WorldInv => PovIsPresent /\ LinksAreAlive
  BY DEF CharInv
<1> QED BY <1>1, RecordsInvariant, PTL

\* No rename, crash, failed write or rebuild makes a character forget a name.
THEOREM NamesStayKnown == Spec => [](NamesAreRemembered /\ FilesHoldWhatWasSaved)
<1>1. CharInv /\ WorldInv => NamesAreRemembered /\ FilesHoldWhatWasSaved
  BY DEF CharInv
<1> QED BY <1>1, RecordsInvariant, PTL

\* Locations exist, and what was saved of the world is on disk.
THEOREM WorldIsKept == Spec => [](LocationsExist /\ SavedIsOnDisk)
<1>1. CharInv /\ WorldInv => LocationsExist /\ SavedIsOnDisk
  BY DEF WorldInv
<1> QED BY <1>1, RecordsInvariant, PTL

\* Rows, links and files agree, whichever of them a cut command wrote alone.
THEOREM RecordsStaySound == Spec => []RecordsAreSound
<1> DEFINE Bounded == commands \in 0 .. MaxCommands
<1>1. Init => Bounded
  BY RecordsAssumption DEF Init
<1>2. Bounded /\ [Next]_vars => Bounded'
  BY RecordsAssumption DEF Next, CharacterCommand, WorldCommand, Rebuild, Counted, vars
<1>3. CharInv /\ WorldInv /\ Bounded => RecordsAreSound
  BY DEF CharInv, WorldInv, RecordsAreSound, TypeOK
<1> QED BY <1>1, <1>2, <1>3, RecordsInvariant, PTL DEF Spec

\* A character whose deletion moved its file away never comes back.
THEOREM DeletedCharactersStayAway == Spec => GoneForGood
<1> DEFINE Kept1 == \A c \in minted : row[c] = Gone /\ file[c] = Gone
                                      => row'[c] = Gone /\ file'[c] = Gone
<1>1. CharInv /\ WorldInv /\ [Next]_vars => [Kept1]_charVars
  <2> SUFFICES ASSUME CharInv, Next, NEW c \in minted, row[c] = Gone, file[c] = Gone
               PROVE  row'[c] = Gone /\ file'[c] = Gone
    BY DEF vars
  <2>0. c \in Character /\ c \notin Living /\ c \notin Readable
    BY DEF CharInv, CharTypeOK, Living, Readable
  <2>1. CASE CharacterCommand
    BY <2>0, <2>1 DEF CharacterCommand, CharNext, CreateCharacter, CreationIsCut, UpdateField, UpdateIsCut,
        DeleteAndCascade, DeletionIsCut, LinkToScene, UnlinkFromScene, SetPov, CharInv, CharTypeOK
  <2>2. CASE WorldCommand
    BY <2>2 DEF WorldCommand, charVars
  <2>3. CASE Rebuild
    BY <2>0, <2>3 DEF Rebuild, RebuildCharacters
  <2> QED BY <2>1, <2>2, <2>3 DEF Next
<1> QED BY <1>1, RecordsInvariant, PTL DEF Spec, GoneForGood

\* An entry deleted together with its file leaves nothing behind.
THEOREM DeletedEntriesAreGone == Spec => DeletedEntriesStayAway
<1> DEFINE Kept2 == \A e \in issued : NoTrace(e) => NoTrace(e)'
<1>1. CharInv /\ WorldInv /\ [Next]_vars => [Kept2]_worldVars
  <2> SUFFICES ASSUME WorldInv, Next, NEW e \in issued, NoTrace(e)
               PROVE  NoTrace(e)'
    BY DEF vars
  <2>0. e \in Entry /\ e \notin Entries
    BY DEF WorldInv, WorldTypeOK, NoTrace, Entries
  <2>1. CASE CharacterCommand
    BY <2>1 DEF CharacterCommand, worldVars, NoTrace
  <2>2. CASE WorldCommand
    <3> USE DEF NoTrace, WorldInv, WorldTypeOK
    <3>1. ASSUME NEW g \in Segment, NEW list \in BOOLEAN, CreateSegment(g, list) PROVE NoTrace(e)'
      BY <3>1 DEF CreateSegment
    <3>7. ASSUME NEW g \in Segment, NEW shape \in Shape, ReshapeSegment(g, shape) PROVE NoTrace(e)'
      BY <3>7 DEF ReshapeSegment
    <3>8. ASSUME NEW g \in Segment, ReadPage(g) PROVE NoTrace(e)'
      BY <3>8 DEF ReadPage
    <3>9. ASSUME NEW g \in Segment, NEW v \in Content, UpdatePage(g, v) \/ PageUpdateIsCut(g, v)
          PROVE  NoTrace(e)'
      BY <3>9 DEF UpdatePage, PageUpdateIsCut
    <3>2. ASSUME NEW g \in Segment, DeleteSegment(g) PROVE NoTrace(e)'
      BY <2>0, <3>2 DEF DeleteSegment
    <3>3. ASSUME NEW f \in Entry, NEW g \in Segment, NEW v \in Content,
                 CreateEntry(f, g, v) \/ CreateEntrySeeded(f, g, v)
          PROVE  NoTrace(e)'
      BY <2>0, <3>3, SlugsAreSlugs DEF CreateEntry, CreateEntrySeeded
    <3>4. ASSUME NEW f \in Entry, NEW v \in Content, UpdateEntry(f, v) \/ EntryUpdateIsCut(f, v)
          PROVE  NoTrace(e)'
      <4>1. f # e /\ \A d \in Slug : <<d, e>> # FileOf(f)
        BY <2>0, <3>4 DEF UpdateEntry, EntryUpdateIsCut, FileOf
      <4> QED BY <2>0, <3>4, <4>1 DEF UpdateEntry, EntryUpdateIsCut
    <3>5. ASSUME NEW f \in Entry, DeleteEntry(f) \/ EntryDeletionIsCut(f) PROVE NoTrace(e)'
      <4>1. f # e /\ \A d \in Slug : <<d, e>> # FileOf(f)
        BY <2>0, <3>5 DEF DeleteEntry, EntryDeletionIsCut, FileOf
      <4> QED BY <2>0, <3>5, <4>1 DEF DeleteEntry, EntryDeletionIsCut
    <3>6. ASSUME NEW s \in Place, SetLocation(s) PROVE NoTrace(e)'
      BY <3>6 DEF SetLocation
    <3> QED BY <2>2, <3>1, <3>2, <3>3, <3>4, <3>5, <3>6, <3>7, <3>8, <3>9 DEF WorldCommand, WorldNext, DeleteEntryIfEmpty
  <2>3. CASE Rebuild
    BY <2>0, <2>3 DEF Rebuild, RebuildWorld, NoTrace
  <2> QED BY <2>1, <2>2, <2>3 DEF Next
<1> QED BY <1>1, RecordsInvariant, PTL DEF Spec, DeletedEntriesStayAway

=============================================================================
