----------------------------- MODULE BracketPlan -----------------------------
(***************************************************************************)
(* Capacity planning of one bracket card (CompetitionBracket.jsx,          *)
(* BracketCard's fill effect).  The card always renders five columns       *)
(* .r1 .. .r5 holding 16, 8, 4, 2 and 1 cells and a champion column .r6.   *)
(* A draw of declared size s uses the last RoundsCount(s) columns: data    *)
(* round r is shown in column r + Shift(s), the columns before are hidden. *)
(* These are pure operators; Bracket.tla uses them for one build.          *)
(***************************************************************************)
EXTENDS Integers, FiniteSetsExt

\* Number of player columns the JSX renders (.r1 .. .r5).
LastCol == 5

\* Cells the JSX renders in column c: 16, 8, 4, 2, 1.
ColCells(c) == 2 ^ (LastCol - c)

\* wrap.querySelector(".r" + c) / an input with data-r = c exists.
HasCol(c) == c \in 1..LastCol

\* declaredSize: draw.size when truthy, otherwise twice the number of
\* matches of the draw (all rounds together), at least 1.  A missing or
\* zero draw.size is given as size = 0.

DeclaredSize(size, nMatches) ==
    IF size # 0 THEN size
    ELSE IF 2 * nMatches > 1 THEN 2 * nMatches ELSE 1

\* while ((1 << roundsCount) < size) roundsCount++   (sizes below 2^30,
\* where 1 << k is 2^k)
RECURSIVE CountUp(_, _)
CountUp(size, rc) == IF 2 ^ rc < size THEN CountUp(size, rc + 1) ELSE rc

\* applyRoundShifting: size = max(1, declaredSize), roundsCount at least 1.
RoundsCount(declared) ==
    LET size == IF declared > 1 THEN declared ELSE 1
        rc   == CountUp(size, 0)
    IN  IF rc > 1 THEN rc ELSE 1

\* SHIFT = 5 - roundsCount; the code does not clamp it.
Shift(declared) == LastCol - RoundsCount(declared)

\* mapRound(r) = r + SHIFT: the column that data round r occupies.
MapRound(declared, r) == r + Shift(declared)

\* firstRoundInfo: the first data round 1..5 whose column exists, or 0
\* (the code's null) when there is none.
FirstRound(declared) ==
    LET rs == {r \in 1..LastCol : HasCol(MapRound(declared, r))}
    IN  IF rs = {} THEN 0 ELSE Min(rs)

=============================================================================
