---------------------------- MODULE Diagnostics -----------------------------
(***************************************************************************)
(* The seven rules that read a block of prose (editor/diagnostics.rs), and *)
(* the writer who adds words to the block.  A block is a sequence of words,*)
(* each of which may end a sentence; a finding is the place of the word it *)
(* is anchored at.  What the regular expressions say of the letters of a   *)
(* word is given as sets of words: two words match a two-word pattern when *)
(* nothing but white space stands between them.                            *)
(***************************************************************************)
EXTENDS Naturals, Sequences, FiniteSets

CONSTANTS
    Vocabulary,
    Being, BeingWeak,   \* the forms of "to be" of the two patterns
    Participle,         \* three letters or more, and "ed"
    Adverb,             \* four letters or more, and "ly"
    SaidAdverb,         \* three letters or more, and "ly"
    Said,
    Adjectival,         \* with one of the suffixes, but not on the stoplist
    Stopword,           \* on the list, or shorter than three letters
    Mistake,            \* the words and the pairs of words never meant
    Often,              \* occurrences that make a repetition: four
    Cluster,            \* adverbs that make a cluster: three
    VarianceWindow, VarianceSpread,
    MaxWords            \* bound on the words of the block

ASSUME DiagnosticsAssumption ==
    /\ Being \cup BeingWeak \cup Participle \cup Adverb \cup SaidAdverb \cup Said
          \cup Adjectival \cup Stopword \subseteq Vocabulary
    /\ (Being \cup BeingWeak) \cap (Participle \cup Adjectival) = {}
    /\ Often \in Nat \ {0} /\ Cluster \in Nat \ {0}
    /\ VarianceWindow \in Nat \ {0} /\ VarianceSpread \in Nat
    /\ MaxWords \in Nat

VARIABLE prose

Rule == {"passive_voice", "adverb_density", "repetition", "dialog_tag_overuse",
         "common_mistake", "weak_verb", "sentence_length_variance"}

ProseTypeOK == prose \in Seq([word : Vocabulary, ends : BOOLEAN])

-----------------------------------------------------------------------------
Places(text) == DOMAIN text
Pairs(text, first, second) ==
    {i \in Places(text) : /\ i + 1 \in Places(text) /\ ~text[i].ends
                          /\ text[i].word \in first /\ text[i + 1].word \in second}
WordsIn(text, words) == {i \in Places(text) : text[i].word \in words}

PassiveVoice(text) == Pairs(text, Being, Participle)
DialogTagOveruse(text) == Pairs(text, Said, SaidAdverb)
WeakVerb(text) == Pairs(text, BeingWeak, Adjectival)

CommonMistake(text) ==
    {i \in Places(text) :
        \/ <<text[i].word>> \in Mistake
        \/ /\ i + 1 \in Places(text) /\ ~text[i].ends
           /\ <<text[i].word, text[i + 1].word>> \in Mistake}

(* More than two adverbs in a hundred words: the third of them. *)
AdverbDensity(text) ==
    LET adverbs == WordsIn(text, Adverb) IN
    {i \in adverbs : /\ Cardinality({j \in adverbs : j <= i}) = Cluster
                     /\ 100 * Cardinality(adverbs) > 2 * Len(text)}

Repeated(text, word) == Cardinality(WordsIn(text, {word})) >= Often

Repetition(text) ==
    {i \in Places(text) : /\ text[i].word \notin Stopword
                          /\ Repeated(text, text[i].word)
                          /\ \A j \in 1..(i - 1) : text[j].word # text[i].word}

(* iter_sentences: a last sentence without a full stop counts as one. *)
SentenceEnds(text) == {i \in Places(text) : text[i].ends \/ i = Len(text)}
SentenceLengths(text) ==
    LET ends == SentenceEnds(text) IN
    [n \in 1..Cardinality(ends) |->
        LET end == CHOOSE i \in ends : Cardinality({j \in ends : j <= i}) = n
        IN Cardinality({j \in 1..end : \A k \in ends : k < end => k < j})]

Window(i) == i..(i + VarianceWindow - 1)
IsEven(counts, i) ==
    /\ Window(i) \subseteq DOMAIN counts
    /\ \A j, k \in Window(i) : counts[j] <= counts[k] + VarianceSpread

TouchesBefore(i, prev) == i <= prev
Overlaps(i, prev) == i < prev + VarianceWindow

(* The windows are taken from the left, the ones that overlap the last one *)
(* reported are passed over.                                               *)
WithWindow(counts, i, reported) ==
    IF IsEven(counts, i) /\ \A prev \in reported : ~Overlaps(i, prev)
    THEN reported \cup {i}
    ELSE reported

ReportedUpTo(counts) ==
    LET reported[i \in 0..Len(counts)] ==
            IF i = 0 THEN {} ELSE WithWindow(counts, i, reported[i - 1])
    IN reported

Cadences(text) ==
    LET counts == SentenceLengths(text) IN ReportedUpTo(counts)[Len(counts)]

RunDiagnostics(text) ==
    [r \in Rule |-> CASE r = "passive_voice"      -> PassiveVoice(text)
                      [] r = "adverb_density"     -> AdverbDensity(text)
                      [] r = "repetition"         -> Repetition(text)
                      [] r = "dialog_tag_overuse" -> DialogTagOveruse(text)
                      [] r = "common_mistake"     -> CommonMistake(text)
                      [] r = "weak_verb"          -> WeakVerb(text)
                      [] OTHER                    -> Cadences(text)]

-----------------------------------------------------------------------------
ProseInit == prose = <<>>

WriteWord(word, ends) ==
    /\ Len(prose) < MaxWords
    /\ prose' = Append(prose, [word |-> word, ends |-> ends])

ProseNext == \E word \in Vocabulary, ends \in BOOLEAN : WriteWord(word, ends)

ProseSpec == ProseInit /\ [][ProseNext]_prose

-----------------------------------------------------------------------------
(* Writing on never takes away what a rule other than the two about the    *)
(* whole block has found, nor moves its anchor: a row of the finding stays *)
(* where the writer saw it (run_diagnostics_on_block).                     *)
FindingsOutlastTheEdit ==
    [][\A r \in Rule \ {"adverb_density", "sentence_length_variance"} :
          RunDiagnostics(prose)[r] \subseteq RunDiagnostics(prose')[r]]_prose

(* The windows reported are disjoint, and no even run of sentences is left *)
(* without one: each even window overlaps one that is reported             *)
(* (scan_sentence_length_variance).                                        *)
EvenRunsAreReportedOnce ==
    LET counts == SentenceLengths(prose)
        found  == Cadences(prose) IN
    /\ \A i, j \in found : i # j => Window(i) \cap Window(j) = {}
    /\ \A i \in DOMAIN counts :
          IsEven(counts, i) => \E j \in found : Window(i) \cap Window(j) # {}

(* A finding is reported once and stays while its block is written on.     *)
FindingsAreStable == [](ProseTypeOK /\ EvenRunsAreReportedOnce) /\ FindingsOutlastTheEdit
=============================================================================
