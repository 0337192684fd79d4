-------------------------------- MODULE LineDiff -------------------------------
(***************************************************************************)
(* The line diff of internal/diff/myers.go: the bisecting search of Myers. *)
(***************************************************************************)
EXTENDS EditScript

\* The script of one operation; none for no lines.
Op(operation, text) ==
    IF text = <<>> THEN <<>> ELSE << [op |-> operation, text |-> text] >>

CommonPrefix(a, b) ==
    Max({n \in 0 .. Min({Len(a), Len(b)}) : UpTo(a, n) = UpTo(b, n)})

CommonSuffix(a, b) == CommonPrefix(Reverse(a), Reverse(b))
-------------------------------------------------------------------------------
(* One round of the search: the furthest point on every second diagonal *)

Diagonals(d) == {k \in -d .. d : (k + d) % 2 = 0}

\* The x reached on diagonal k with d edits, from what d - 1 edits reached.
Reach(v, a, b, d, k) ==
    LET x == IF k = -d \/ (k # d /\ v[k - 1] < v[k + 1]) THEN v[k + 1] ELSE v[k - 1] + 1
    IN x + CommonPrefix(From(a, x + 1), From(b, x - k + 1))

\* The loops over k1 and k2: a diagonal depends on its neighbours only, which
\* this round leaves alone.
Sweep(v, a, b, d) ==
    [k \in DOMAIN v |-> IF k \in Diagonals(d) THEN Reach(v, a, b, d, k) ELSE v[k]]

\* The diagonals of this round on which the two searches have met, v being the
\* one that moved and w the one that waits.
Met(v, w, n, delta, d) ==
    {k \in Diagonals(d) : /\ delta - k \in DOMAIN w /\ w[delta - k] # -1
                          /\ v[k] >= n - w[delta - k]}
-------------------------------------------------------------------------------
RECURSIVE DiffMain(_, _), Bisect(_, _, _, _, _)

\* diffBisectSplit
Split(a, b, x, y) ==
    DiffMain(UpTo(a, x), UpTo(b, y)) \o DiffMain(From(a, x + 1), From(b, y + 1))

\* Plausible defect: with an odd number of lines, one round too few.
BisectStopsShort(a, b, d, v1, v2) ==
    LET n     == Len(a)
        delta == n - Len(b)
        f1    == Sweep(v1, a, b, d)
        f2    == Sweep(v2, Reverse(a), Reverse(b), d)
        met1  == IF delta % 2 # 0 THEN Met(f1, v2, n, delta, d) ELSE {}
        met2  == IF delta % 2 = 0 THEN Met(f2, f1, n, delta, d) ELSE {}
    IN IF d >= (n + Len(b)) \div 2 THEN Op(DELETE, a) \o Op(INSERT, b)
       ELSE IF met1 # {} THEN LET k == Min(met1) IN Split(a, b, f1[k], f1[k] - k)
       ELSE IF met2 # {} THEN LET k == delta - Min(met2) IN Split(a, b, f1[k], f1[k] - k)
       ELSE Bisect(a, b, d + 1, f1, f2)

(***************************************************************************)
(* Round d of diffBisect: forward, then backward on the reversed texts.    *)
(* The first diagonal on which the searches meet splits the problem; with  *)
(* an odd difference of lengths they meet in a forward round only, else in *)
(* a backward one.                                                         *)
(***************************************************************************)
Bisect(a, b, d, v1, v2) ==
    LET n     == Len(a)
        delta == n - Len(b)
        f1    == Sweep(v1, a, b, d)
        f2    == Sweep(v2, Reverse(a), Reverse(b), d)
        met1  == IF delta % 2 # 0 THEN Met(f1, v2, n, delta, d) ELSE {}
        met2  == IF delta % 2 = 0 THEN Met(f2, f1, n, delta, d) ELSE {}
    IN IF d >= (n + Len(b) + 1) \div 2 THEN Op(DELETE, a) \o Op(INSERT, b)
       ELSE IF met1 # {} THEN LET k == Min(met1) IN Split(a, b, f1[k], f1[k] - k)
       ELSE IF met2 # {} THEN LET k == delta - Min(met2) IN Split(a, b, f1[k], f1[k] - k)
       ELSE Bisect(a, b, d + 1, f1, f2)

\* diffCompute: the trivial cases, else the search with nothing reached yet.
DiffCompute(a, b) ==
    LET m     == (Len(a) + Len(b) + 1) \div 2
        start == [k \in -m .. m |-> IF k = 1 THEN 0 ELSE -1]
    IN IF a = <<>> \/ b = <<>> THEN Op(DELETE, a) \o Op(INSERT, b)
       ELSE Bisect(a, b, 0, start, start)

\* diffMain: common prefix and suffix are cut off before the search.
DiffMain(a, b) ==
    LET p  == CommonPrefix(a, b)
        a1 == From(a, p + 1)
        b1 == From(b, p + 1)
        s  == CommonSuffix(a1, b1)
    IN Op(EQUAL, UpTo(a, p))
         \o DiffCompute(UpTo(a1, Len(a1) - s), UpTo(b1, Len(b1) - s))
         \o Op(EQUAL, From(a1, Len(a1) - s + 1))
===============================================================================
