------------------------------- MODULE Bracket -------------------------------
(***************************************************************************)
(* The fill effect of BracketCard (CompetitionBracket.jsx lines 53-253):   *)
(* it writes the matches of one draw into the rendered input cells, marks  *)
(* walkover cells, and then either walks a single uncontested contestant   *)
(* to the champion cell or advances the walkover winners of the first      *)
(* round by one column.                                                    *)
(*                                                                         *)
(* The effect writes straight into the DOM and never clears it, so the     *)
(* state of the model is the DOM: `dom` holds the value of every player    *)
(* input, `mark` the state of every number bubble, `champ` the champion    *)
(* input.  One action per loop body of the effect; `pc` says which loop    *)
(* runs.  React may run the effect again on the same DOM (a new `draw`     *)
(* object, the development double invocation): Rebuild starts it anew.    *)
(***************************************************************************)
EXTENDS Integers, Sequences, SequencesExt, FiniteSets, BracketPlan

CONSTANTS
    Names,      \* display names of contestants
    REST,       \* the walkover label "استراحت"
    NONE,       \* the empty string: an empty input
    Draws,      \* the draws the backend may send (see MC_Bracket)
    MaxBuilds   \* how many times the effect runs on the same card

VARIABLES
    draw,       \* the draw prop: [size, schema, matches]
    dom,        \* dom[<<col, idx, pos>>]: value of a player input
    mark,       \* mark[<<col, idx>>]: "none", "num" (a number) or "bye"
    champ,      \* value of the champion input (NONE = only the trophy)
    pc,         \* "idle", "assign", "propagate", "fill", "crown", "done"
    todo,       \* matches still to be written: <<col, idx, match>>
    cur,        \* loop index of propagateByesOneStep
    fname,      \* name walked by fillSinglePathAllTheWay
    fround,     \* its data round r
    fidx,       \* its cell index i
    builds      \* how many times the effect has started

vars == <<draw, dom, mark, champ, pc, todo, cur, fname, fround, fidx, builds>>

Labels == Names \cup {REST, NONE}
Real(l) == l \in Names
Pos == {"a", "b"}

Cells == UNION {{<<c, i>> : i \in 0..(ColCells(c) - 1)} : c \in 1..LastCol}
Slots == {<<c[1], c[2], p>> : c \in Cells, p \in Pos}

\* An input with these data-r / data-i attributes is rendered.
HasCell(c, i) == HasCol(c) /\ i \in 0..(ColCells(c) - 1)

Match == [rnd : 1..LastCol, key : Nat, a : Labels, b : Labels, bye : BOOLEAN]

-----------------------------------------------------------------------------
(* Quantities the effect derives from the draw before it writes anything. *)

Decl == DeclaredSize(draw.size, Len(draw.matches))
Map(r) == MapRound(Decl, r)
FR == FirstRound(Decl)                        \* fr.r  (0 = null)
FVR == IF FR = 0 THEN 0 ELSE Map(FR)          \* fr.vr
Count == IF FR = 0 THEN 0 ELSE ColCells(FVR)  \* fr.count

\* The next-round slot fed by cell i: index i \div 2, "a" when i is even.
NextPos(i) == IF i % 2 = 0 THEN "a" ELSE "b"

\* byRound: rounds in the order they first appear, each group sorted by
\* its order key with Array.prototype.sort (stable), cell index = position.
RoundsInOrder(ms) ==
    LET rs == {ms[k].rnd : k \in DOMAIN ms}
        firstAt(r) == SelectInSeq(ms, LAMBDA m : m.rnd = r)
    IN  SetToSortSeq(rs, LAMBDA x, y : firstAt(x) < firstAt(y))

StableSortByKey(s) ==
    LET ord == SetToSortSeq(DOMAIN s, LAMBDA x, y :
                   s[x].key < s[y].key \/ (s[x].key = s[y].key /\ x < y))
    IN  [k \in DOMAIN ord |-> s[ord[k]]]

Placement(ms) ==
    LET group(r) == StableSortByKey(SelectSeq(ms, LAMBDA m : m.rnd = r))
        place(r) == [k \in DOMAIN group(r) |-> <<Map(r), k - 1, group(r)[k]>>]
        order    == RoundsInOrder(ms)
    IN  FlattenSeq([j \in DOMAIN order |-> place(order[j])])

\* detectSinglePlayerName: the distinct real names in player_a_name and
\* player_b_name of all matches.  A backend that sends the names under an
\* alias field (a_name, player_a, ...) leaves these fields undefined.
DetectedNames ==
    IF draw.schema = "alias" THEN {}
    ELSE ({draw.matches[k].a : k \in DOMAIN draw.matches} \cup
          {draw.matches[k].b : k \in DOMAIN draw.matches}) \ {REST, NONE}

SingleName == IF Cardinality(DetectedNames) = 1
              THEN CHOOSE n \in DetectedNames : TRUE ELSE NONE

\* Mutant: findIndex's -1 used as the cell index when the name is absent.
LocateIndexMinusOne(found) == IF found = {} THEN -1 ELSE Min(found)

\* Mutant: the search loop left out; the walk starts at cell 0.
LocateIndexFirst(found) == 0

\* The first-round cell holding the name, 0 when none does (lines 154-159).
LocateIndex(found) == IF found = {} THEN 0 ELSE Min(found)

\* Mutant: only an empty slot receives a walkover winner.
OverwritableEmptyOnly(l) == l = NONE

\* A destination slot that is empty or a BYE receives the winner (line 139).
Overwritable(l) == l \in {NONE, REST}

\* The walk moves on to data round r + 1 (lines 175 and 183).
NextRound(r) == r + 1

-----------------------------------------------------------------------------
Init ==
    /\ draw \in Draws
    /\ dom = [s \in Slots |-> NONE]
    /\ mark = [c \in Cells |-> "none"]
    /\ champ = NONE
    /\ pc = "idle"
    /\ todo = <<>>
    /\ cur = 0
    /\ fname = NONE
    /\ fround = 0
    /\ fidx = 0
    /\ builds = 0

\* Start of the effect: applyRoundShifting, firstRoundInfo, and the
\* grouping, sorting and fallback numbering of the matches.
BuildStart ==
    /\ todo' = Placement(draw.matches)
    /\ pc' = "assign"
    /\ builds' = builds + 1
    /\ UNCHANGED <<draw, dom, mark, champ, cur, fname, fround, fidx>>

Mount == pc = "idle" /\ BuildStart

Rebuild == pc = "done" /\ builds < MaxBuilds /\ BuildStart

\* One iteration of arr.forEach: write names into the cell of the match
\* (a BYE where the first round's match is a flagged walkover) and set
\* the bubble to the match number or the walkover mark.
AssignMatch ==
    /\ pc = "assign"
    /\ todo # <<>>
    /\ LET c     == Head(todo)[1]
           i     == Head(todo)[2]
           m     == Head(todo)[3]
           first == FR # 0 /\ c = FVR
           hasA  == m.a # NONE
           hasB  == m.b # NONE
           na    == IF hasA THEN m.a
                    ELSE IF hasB /\ m.bye /\ first THEN REST
                    ELSE dom[<<c, i, "a">>]
           nb    == IF hasB THEN m.b
                    ELSE IF hasA /\ m.bye /\ first THEN REST
                    ELSE dom[<<c, i, "b">>]
       IN  IF HasCell(c, i)
           THEN /\ dom' = [dom EXCEPT ![<<c, i, "a">>] = na,
                                      ![<<c, i, "b">>] = nb]
                /\ mark' = [mark EXCEPT ![<<c, i>>] =
                              IF first /\ ((na = REST) # (nb = REST))
                              THEN "bye" ELSE "num"]
           ELSE UNCHANGED <<dom, mark>>
    /\ todo' = Tail(todo)
    /\ UNCHANGED <<draw, champ, pc, cur, fname, fround, fidx, builds>>

\* After the matches are written: detectSinglePlayerName picks the mode.
\* fillSinglePathAllTheWay first looks for the name in the first round's
\* cells (index 0 when it is not found); it returns at once without a
\* first round.
Detect ==
    /\ pc = "assign"
    /\ todo = <<>>
    /\ IF SingleName # NONE
       THEN LET found == {k \in 0..(Count - 1) :
                            \E p \in Pos : dom[<<FVR, k, p>>] = SingleName}
            IN  /\ pc' = IF FR = 0 THEN "done" ELSE "fill"
                /\ fname' = SingleName
                /\ fround' = FR
                /\ fidx' = LocateIndex(found)
                /\ UNCHANGED cur
       ELSE /\ pc' = IF FR = 0 THEN "done" ELSE "propagate"
            /\ cur' = 0
            /\ UNCHANGED <<fname, fround, fidx>>
    /\ UNCHANGED <<draw, dom, mark, champ, todo, builds>>

\* One iteration of the loop of propagateByesOneStep over the cells of the
\* first round: mark a walkover cell, and copy the real name of a
\* BYE/real pair into the next column when that slot is empty or a BYE.
PropagateCell ==
    /\ pc = "propagate"
    /\ LET a      == dom[<<FVR, cur, "a">>]
           b      == dom[<<FVR, cur, "b">>]
           hasA   == Real(a)
           hasB   == Real(b)
           moves  == (hasA /\ b = REST) \/ (hasB /\ a = REST)
           nextVr == Map(FR + 1)
           dst    == <<nextVr, cur \div 2, NextPos(cur)>>
       IN  /\ mark' = IF (a = REST) # (b = REST)
                      THEN [mark EXCEPT ![<<FVR, cur>>] = "bye"] ELSE mark
           /\ dom' = IF moves /\ HasCol(nextVr) /\ Overwritable(dom[dst])
                     THEN [dom EXCEPT ![dst] = IF hasA THEN a ELSE b]
                     ELSE dom
    /\ cur' = cur + 1
    /\ pc' = IF cur + 1 < Count THEN "propagate" ELSE "done"
    /\ UNCHANGED <<draw, champ, todo, fname, fround, fidx, builds>>

\* One turn of the while loop of fillSinglePathAllTheWay: in the first
\* round pair the name with a BYE, then put the name into the next
\* column's slot, whatever that slot holds; leave the loop at the end.
FillStep ==
    /\ pc = "fill"
    /\ LET vr     == Map(fround)
           a      == dom[<<vr, fidx, "a">>]
           nextVr == Map(NextRound(fround))
           ca     == <<vr, fidx, "a">>
           cb     == <<vr, fidx, "b">>
           paired == IF vr # FVR THEN dom
                     ELSE IF a = fname THEN [dom EXCEPT ![cb] = REST]
                     ELSE IF dom[cb] = fname THEN [dom EXCEPT ![ca] = REST]
                     ELSE [dom EXCEPT ![ca] = fname, ![cb] = REST]
       IN  IF ~HasCell(vr, fidx)
           THEN /\ pc' = "crown"
                /\ UNCHANGED <<dom, mark, fround, fidx>>
           ELSE /\ mark' = IF vr = FVR
                           THEN [mark EXCEPT ![<<vr, fidx>>] = "bye"] ELSE mark
                /\ IF HasCol(nextVr)
                   THEN /\ dom' = [paired EXCEPT
                                     ![<<nextVr, fidx \div 2, NextPos(fidx)>>] = fname]
                        /\ fidx' = fidx \div 2
                        /\ fround' = NextRound(fround)
                        /\ UNCHANGED pc
                   ELSE /\ dom' = paired
                        /\ pc' = "crown"
                        /\ UNCHANGED <<fround, fidx>>
    /\ UNCHANGED <<draw, champ, todo, cur, fname, builds>>

\* After the loop: the champion input shows the trophy and the name.
Crown ==
    /\ pc = "crown"
    /\ champ' = fname
    /\ pc' = "done"
    /\ UNCHANGED <<draw, dom, mark, todo, cur, fname, fround, fidx, builds>>

\* The steps of one run of the effect: synchronous code that, once
\* started, runs to its end.
BuildStep == AssignMatch \/ Detect \/ PropagateCell \/ FillStep \/ Crown

Next == Mount \/ Rebuild \/ BuildStep

\* The effect runs after the card mounts and then runs to completion; a
\* second run is possible, never forced.
Spec == Init /\ [][Next]_vars /\ WF_vars(Mount) /\ WF_vars(BuildStep)

-----------------------------------------------------------------------------
(***************************************************************************)
(* Properties.                                                             *)
(***************************************************************************)
TypeOK ==
    /\ draw \in Draws
    /\ dom \in [Slots -> Labels]
    /\ mark \in [Cells -> {"none", "num", "bye"}]
    /\ champ \in Names \cup {NONE}
    /\ pc \in {"idle", "assign", "propagate", "fill", "crown", "done"}
    /\ todo \in Seq((1..(2 * LastCol)) \X Nat \X Match)
    /\ cur \in 0..ColCells(1)
    /\ fname \in Names \cup {NONE}
    /\ fround \in 0..(LastCol + 1)
    /\ fidx \in 0..ColCells(1)
    /\ builds \in 0..MaxBuilds

\* A cell whose one side is a BYE and whose other side is a contestant.
ByePair(c, i) ==
    LET a == dom[<<c, i, "a">>]
        b == dom[<<c, i, "b">>]
    IN  (Real(a) /\ b = REST) \/ (Real(b) /\ a = REST)

Dst(c, i) == <<c + 1, i \div 2, NextPos(i)>>

\* Every contestant named by the draw, under whatever field name.
DataNames ==
    ({draw.matches[k].a : k \in DOMAIN draw.matches} \cup
     {draw.matches[k].b : k \in DOMAIN draw.matches}) \ {REST, NONE}

\* When a build without a single survivor has finished, the contestant of
\* every first-round walkover cell stands in the next column
\* (propagateByesOneStep, after the matches were written).
ByeWinnerAdvances ==
    (pc = "done" /\ builds > 0 /\ SingleName = NONE /\ FR # 0
        /\ HasCol(FVR + 1))
    => \A i \in 0..(Count - 1) :
           ByePair(FVR, i) => Real(dom[Dst(FVR, i)])

\* The single-survivor rule: after a build that found one contestant, the
\* champion cell names it, and from every first-round cell that holds it
\* the contestant stands in each later column, in the slot that cell
\* feeds (fillSinglePathAllTheWay, after the search of lines 154-159).
PathSlot(k, c) == <<c, k \div 2 ^ (c - FVR), NextPos(k \div 2 ^ (c - FVR - 1))>>

SinglePathComplete ==
    (pc = "done" /\ builds > 0 /\ FR # 0 /\ SingleName # NONE)
    => /\ champ = SingleName
       /\ \A k \in 0..(Count - 1) :
             (\E p \in Pos : dom[<<FVR, k, p>>] = SingleName)
             => \A c \in (FVR + 1)..LastCol : dom[PathSlot(k, c)] = SingleName

-----------------------------------------------------------------------------
(***************************************************************************)
(* Statements of the specification the code does not meet; the runs that *)
(* check them expect a violation.                                          *)
(***************************************************************************)

\* The single-survivor rule (spec 4.4) for every draw the card accepts:
\* after a build, the champion cell names a contestant exactly when the
\* draw has one contestant, whichever of the name fields the slot writer
\* reads (player_a_name ?? a_name ?? player_a, lines 222-223) carries
\* it, and then names that contestant.  detectSinglePlayerName reads only
\* player_a_name and player_b_name.
ChampionIffUncontested ==
    (pc = "done" /\ builds > 0 /\ FR # 0)
    => IF Cardinality(DataNames) = 1
       THEN champ \in DataNames
       ELSE champ = NONE

\* A draw whose data rounds 1..L are all published, 2^(L-r) matches in
\* round r, shows its last round, the final, in the final column.
LastDataRound ==
    IF draw.matches = <<>> THEN 0
    ELSE Max({draw.matches[k].rnd : k \in DOMAIN draw.matches})

CompleteDraw ==
    /\ LastDataRound > 0
    /\ \A r \in 1..LastDataRound :
          Cardinality({k \in DOMAIN draw.matches : draw.matches[k].rnd = r})
              = 2 ^ (LastDataRound - r)

FinalInLastColumn == CompleteDraw => Map(LastDataRound) = LastCol
=============================================================================
