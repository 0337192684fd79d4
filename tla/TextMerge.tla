-------------------------------- MODULE TextMerge ------------------------------
(***************************************************************************)
(* The three-way merge of texts, internal/merge/merge3.go, run once on     *)
(* three texts that Init chooses.  A text is a sequence of lines; what     *)
(* strings.Split returns has at least one.  The loops of the code are      *)
(* functions of the number of rounds made.                                 *)
(***************************************************************************)
EXTENDS EditScript

CONSTANTS
    Line,
    MaxLines,   \* bound: lines of a text
    Diff(_, _)  \* DiffLines: the script from one text to another

VARIABLES
    texts,   \* the texts to merge, a function of {"base", "ours", "theirs"}
    merged   \* what Merge3 returned, or Unmerged

Sides == {"ours", "theirs"}

Texts == SeqOf(Line, MaxLines) \ {<<>>}

Markers == {"<<< HEAD", "===", ">>> MERGE_HEAD"}

\* No line of a text is a marker, and a script starts from its first text.
ASSUME TextAssumption ==
    /\ MaxLines \in Nat
    /\ Markers \cap Line = {}
    /\ \A a, b \in Texts : /\ Diff(a, b) \in Seq(Operations(Line))
                           /\ Without(Diff(a, b), INSERT) = a

Unmerged == [text |-> <<>>, conflict |-> FALSE]
-------------------------------------------------------------------------------
(* diffToEdits *)

\* Lines from + 1 .. to of the base are replaced by lines.
NoEdit == [from |-> -1, to |-> -1, lines |-> <<>>]

\* The edits, the open one included.
Closed(acc) == IF acc.open = NoEdit THEN acc.edits ELSE Append(acc.edits, acc.open)

\* One operation: the edits so far, the one that is open, lines of base read.
EditStep(acc, o) ==
    LET n    == Len(o.text)
        open == IF acc.open = NoEdit
                THEN [from |-> acc.at, to |-> acc.at, lines |-> <<>>] ELSE acc.open
    IN CASE o.op = EQUAL ->
              [edits |-> Closed(acc), open |-> NoEdit, at |-> acc.at + n]
         [] o.op = DELETE ->
              [acc EXCEPT !.open = [open EXCEPT !.to = @ + n], !.at = @ + n]
         [] o.op = INSERT ->
              [acc EXCEPT !.open = [open EXCEPT !.lines = @ \o o.text]]

DiffToEdits(script) ==
    LET acc[i \in 0 .. Len(script)] ==
            IF i = 0 THEN [edits |-> <<>>, open |-> NoEdit, at |-> 0]
            ELSE EditStep(acc[i - 1], script[i])
    IN Closed(acc[Len(script)])
-------------------------------------------------------------------------------
(* Merge3; edits are those of both sides, idx how many of each are done *)

\* Plausible defect: an edit one line further down is drawn in too.
TakeNearby(edits, r, side) ==
    LET e == edits[side][r.idx[side] + 1]
    IN IF r.idx[side] = Len(edits[side]) \/ e.from > r.end + 1 THEN r
       ELSE [r EXCEPT !.idx[side] = @ + 1, !.end = IF e.to > @ THEN e.to ELSE @]

\* The next edit of a side joins the region when it starts in or right after it.
Take(edits, r, side) ==
    LET e == edits[side][r.idx[side] + 1]
    IN IF r.idx[side] = Len(edits[side]) \/ e.from > r.end THEN r
       ELSE [r EXCEPT !.idx[side] = @ + 1, !.end = IF e.to > @ THEN e.to ELSE @]

\* The edits there are; a round of any loop but the last uses one up.
Total(edits) == Len(edits["ours"]) + Len(edits["theirs"])

\* Rounds in which both sides may add an edit, until neither does.
Grow(edits, r) ==
    LET round[i \in 0 .. Total(edits)] ==
            IF i = 0 THEN r ELSE Take(edits, Take(edits, round[i - 1], "ours"), "theirs")
    IN round[Total(edits)]

\* The region that the next edit opens, with every edit that it draws in.
Region(edits, idx) ==
    LET start == Min({edits[s][idx[s] + 1].from : s \in {x \in Sides : idx[x] < Len(edits[x])}})
    IN Grow(edits, [start |-> start, end |-> start, idx |-> idx])

\* buildRegion: the base lines start + 1 .. end with the edits applied.
BuildRegion(base, start, end, edits) ==
    LET at(i) == IF i = 1 THEN start ELSE edits[i - 1].to
    IN FlattenSeq([i \in DOMAIN edits |-> SubSeq(base, at(i) + 1, edits[i].from) \o edits[i].lines])
         \o SubSeq(base, at(Len(edits) + 1) + 1, end)

Inserted(edits) == FlattenSeq([i \in DOMAIN edits |-> edits[i].lines])

\* Plausible defect: texts of the same length pass for equal.
ResolveByLength(base, r, group) ==
    LET built == [s \in Sides |-> BuildRegion(base, r.start, r.end, group[s])]
    IN IF group["theirs"] = <<>> THEN [text |-> Inserted(group["ours"]), conflict |-> FALSE]
       ELSE IF group["ours"] = <<>> THEN [text |-> Inserted(group["theirs"]), conflict |-> FALSE]
       ELSE [text |-> built["ours"], conflict |-> Len(built["ours"]) # Len(built["theirs"])]

\* What a region contributes: the edits of the one side that has any, the text
\* both sides agree on, or a conflict.
Resolve(base, r, group) ==
    LET built == [s \in Sides |-> BuildRegion(base, r.start, r.end, group[s])]
    IN IF group["theirs"] = <<>> THEN [text |-> Inserted(group["ours"]), conflict |-> FALSE]
       ELSE IF group["ours"] = <<>> THEN [text |-> Inserted(group["theirs"]), conflict |-> FALSE]
       ELSE IF built["ours"] = built["theirs"] THEN [text |-> built["ours"], conflict |-> FALSE]
       ELSE [text |-> <<"<<< HEAD">> \o built["ours"] \o <<"===">>
                        \o built["theirs"] \o <<">>> MERGE_HEAD">>,
             conflict |-> TRUE]

\* Plausible defect: the base is resumed where the region starts.
WalkFromStart(base, edits, w) ==
    LET r     == Region(edits, w.idx)
        group == [s \in Sides |-> SubSeq(edits[s], w.idx[s] + 1, r.idx[s])]
        here  == Resolve(base, r, group)
    IN IF \A s \in Sides : w.idx[s] = Len(edits[s]) THEN w
       ELSE [at       |-> r.start,
             idx      |-> r.idx,
             text     |-> w.text \o SubSeq(base, w.at + 1, r.start) \o here.text,
             conflict |-> w.conflict \/ here.conflict]

\* One round of the walk: the unchanged lines before a region, and the region.
Walk(base, edits, w) ==
    LET r     == Region(edits, w.idx)
        group == [s \in Sides |-> SubSeq(edits[s], w.idx[s] + 1, r.idx[s])]
        here  == Resolve(base, r, group)
    IN IF \A s \in Sides : w.idx[s] = Len(edits[s]) THEN w
       ELSE [at       |-> r.end,
             idx      |-> r.idx,
             text     |-> w.text \o SubSeq(base, w.at + 1, r.start) \o here.text,
             conflict |-> w.conflict \/ here.conflict]

\* The walk over the base, and the lines after the last region.
WalkBase(base, edits) ==
    LET walk[i \in 0 .. Total(edits)] ==
            IF i = 0 THEN [at |-> 0, idx |-> [s \in Sides |-> 0], text |-> <<>>, conflict |-> FALSE]
            ELSE Walk(base, edits, walk[i - 1])
        end == walk[Total(edits)]
    IN [text |-> end.text \o From(base, end.at + 1), conflict |-> end.conflict]

\* The edits that turn the base into a text.
Edits(base, text) == DiffToEdits(Diff(base, text))

Merge3(base, ours, theirs) ==
    IF ours = theirs \/ base = theirs THEN [text |-> ours, conflict |-> FALSE]
    ELSE IF base = ours THEN [text |-> theirs, conflict |-> FALSE]
    ELSE WalkBase(base, [ours |-> Edits(base, ours), theirs |-> Edits(base, theirs)])
-------------------------------------------------------------------------------
TextInit ==
    /\ texts \in [{"base", "ours", "theirs"} -> Texts]
    /\ merged = Unmerged

TextMerge ==
    /\ merged = Unmerged
    /\ merged' = Merge3(texts["base"], texts["ours"], texts["theirs"])
    /\ UNCHANGED texts

TextSpec == TextInit /\ [][TextMerge]_<<texts, merged>>
-------------------------------------------------------------------------------
Base == texts["base"]
Ours == texts["ours"]
Theirs == texts["theirs"]

Finished == merged # Unmerged

(***************************************************************************)
(* README.md:597, myers.go:2: the diff is a shortest edit script.  It      *)
(* rebuilds both texts, also through the split of the problem at the point *)
(* where two searches meet (myers.go:280), and nothing shorter would.      *)
(***************************************************************************)
DiffShortest ==
    LET script == Diff(Base, Ours)
    IN /\ Without(script, INSERT) = Base
       /\ Without(script, DELETE) = Ours
       /\ Cost(script) = Distance(Base, Ours)

\* Resolving a conflict line by line: between the markers, the lines of one
\* side are kept.
ResolveLine(acc, line, side) ==
    CASE line = "<<< HEAD"       -> [acc EXCEPT !.within = "ours"]
      [] line = "==="            -> [acc EXCEPT !.within = "theirs"]
      [] line = ">>> MERGE_HEAD" -> [acc EXCEPT !.within = "both"]
      [] line \notin Markers     ->
           IF acc.within \in {"both", side} THEN [acc EXCEPT !.kept = Append(@, line)] ELSE acc

\* Every conflict of a text is resolved for one side.
Resolution(text, side) ==
    LET acc[i \in 0 .. Len(text)] ==
            IF i = 0 THEN [within |-> "both", kept |-> <<>>]
            ELSE ResolveLine(acc[i - 1], text[i], side)
    IN acc[Len(text)]

\* The text that is left when every conflict is resolved for one side.
Resolved(text, side) == Resolution(text, side).kept

(***************************************************************************)
(* A merge applies to each side what the other one changed, and no more:   *)
(* the result, with its conflicts resolved for a side, is no further from  *)
(* that side than the other side is from the base.  A change that is lost, *)
(* undone or made twice while regions are grouped (merge3.go:85-112) would *)
(* make it further.                                                        *)
(***************************************************************************)
NothingLostInMerge ==
    Finished =>
        /\ Distance(Ours, Resolved(merged.text, "ours")) <= Distance(Base, Theirs)
        /\ Distance(Theirs, Resolved(merged.text, "theirs")) <= Distance(Base, Ours)

(***************************************************************************)
(* Merging A into B and B into A conflict alike, with the two halves of    *)
(* each conflict exchanged, and agree on a clean text, although one side   *)
(* is always looked at first (merge3.go:88).                               *)
(***************************************************************************)
TextSymmetric ==
    LET flip == Merge3(Base, Theirs, Ours)
    IN Finished =>
         /\ flip.conflict = merged.conflict
         /\ Resolved(flip.text, "ours") = Resolved(merged.text, "theirs")
         /\ Resolved(flip.text, "theirs") = Resolved(merged.text, "ours")

(***************************************************************************)
(* There is a conflict only where an edit of ours overlaps or touches one  *)
(* of theirs: an unchanged line in between keeps two edits apart, however  *)
(* many regions come before.                                               *)
(***************************************************************************)
ConflictsMeet ==
    Finished /\ merged.conflict =>
        \E e \in ToSet(Edits(Base, Ours)), f \in ToSet(Edits(Base, Theirs)) :
            e.from <= f.to /\ f.from <= e.to
===============================================================================
