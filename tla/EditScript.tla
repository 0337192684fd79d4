------------------------------- MODULE EditScript ------------------------------
(***************************************************************************)
(* What internal/diff promises its callers.  A text is a sequence of       *)
(* lines; a script is a sequence of operations, each with the lines it     *)
(* keeps (0), inserts (1) or deletes (2).  Lines are compared only, so the *)
(* interning of strings by DiffLines makes no difference.                  *)
(***************************************************************************)
EXTENDS Integers, SequencesExt, FiniteSetsExt

EQUAL == 0
INSERT == 1
DELETE == 2

\* The operations of a script; each has lines, or it would be left out.
Operations(Lines) == [op : {EQUAL, INSERT, DELETE}, text : Seq(Lines) \ {<<>>}]

From(s, i) == SubSeq(s, i, Len(s))

UpTo(s, n) == SubSeq(s, 1, n)
-------------------------------------------------------------------------------
\* The lines of the operations of a script that are not of the given kind.
Without(script, operation) ==
    LET kept[i \in 0 .. Len(script)] ==
            IF i = 0 THEN <<>>
            ELSE IF script[i].op = operation THEN kept[i - 1]
            ELSE kept[i - 1] \o script[i].text
    IN kept[Len(script)]

\* How many lines a script inserts and deletes.
Cost(script) == Len(Without(script, EQUAL))

\* The length of a longest common subsequence, by its textbook recurrence.
LCS(a, b) ==
    LET lcs[i \in 0 .. Len(a), j \in 0 .. Len(b)] ==
            IF i = 0 \/ j = 0 THEN 0
            ELSE IF a[i] = b[j] THEN lcs[i - 1, j - 1] + 1
            ELSE Max({lcs[i - 1, j], lcs[i, j - 1]})
    IN lcs[Len(a), Len(b)]

\* The least number of insertions and deletions between two texts.
Distance(a, b) == Len(a) + Len(b) - 2 * LCS(a, b)
===============================================================================
