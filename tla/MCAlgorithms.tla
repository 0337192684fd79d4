------------------------------ MODULE MCAlgorithms -----------------------------
(***************************************************************************)
(* The pure algorithms on all their small inputs: the planner on every     *)
(* triple of trees, the text merge on every triple of short texts, the     *)
(* diff on pairs of longer ones, the index format on every short index.    *)
(* A behaviour runs one of them; the other inputs are trivial meanwhile.   *)
(***************************************************************************)
EXTENDS MergePlanner, LineDiff, TextMerge, IndexCodec, TLC

CONSTANT LongText  \* lines of the texts that only the diff is given

\* A hash that tells the lengths of contents apart.
LengthHash(content, i) == (Len(content) + i) % 256

\* Paths, contents, modes and lines are interchangeable to the algorithms.
Symmetry ==
    Permutations(Path) \cup Permutations(Hash) \cup Permutations(Mode) \cup Permutations(Line)

NoTrees ==
    /\ base = [p \in Path |-> None] /\ ours = base /\ theirs = base
    /\ plan = MergeTrees(base, ours, theirs)

NoTexts ==
    /\ texts = [s \in {"base", "ours", "theirs"} |-> <<>>]
    /\ merged = Unmerged

NoIndex ==
    /\ entries = <<>> /\ blocks = <<>>
    /\ readBack = [status |-> "ok", entries |-> <<>>]

\* Two long texts over two of the lines; merging them is trivial.
LongTexts ==
    /\ \E D \in SUBSET Line : /\ Cardinality(D) = 2
                              /\ \E a, b \in [1 .. LongText -> D] :
                                   texts = [base |-> a, ours |-> b, theirs |-> a]
    /\ merged = Unmerged

AlgorithmsInit ==
    \/ Init /\ NoTexts /\ NoIndex
    \/ (TextInit \/ LongTexts) /\ NoTrees /\ NoIndex
    \/ CodecInit /\ NoTrees /\ NoTexts

AlgorithmsNext ==
    \/ Plan /\ UNCHANGED <<texts, merged, entries, blocks, readBack>>
    \/ texts["base"] # <<>> /\ TextMerge /\ UNCHANGED <<vars, entries, blocks, readBack>>
    \/ CodecStep /\ UNCHANGED <<vars, texts, merged>>

AlgorithmsSpec ==
    AlgorithmsInit /\ [][AlgorithmsNext]_<<vars, texts, merged, entries, blocks, readBack>>
===============================================================================
