------------------------------ MODULE CardMerge ------------------------------
(***************************************************************************)
(* The grouping of the bulk cards page (EnrollmentCardsBulk.jsx):         *)
(* mergeSameSectionCardsPerPlayer turns the enrollments whose card loaded  *)
(* into the printed cards, one per player and section (team or            *)
(* individual), a card of several enrollments carrying their merged_ids.   *)
(*                                                                         *)
(* An item is [id, data]; the data of a card is abstracted to what the    *)
(* grouping reads: the player it is of (`who`), whether it carries a      *)
(* national id (`nat`), and the three fields isTeamEnrollment reads:       *)
(* `mode`, the prefix of `poomsae_style` and `team_name`.  Style labels    *)
(* and team names are joined into the merged card's text and are left     *)
(* out; merged_ids = <<>> stands for a card without merged_ids.           *)
(***************************************************************************)
EXTENDS Sequences, SequencesExt

CONSTANT
    NameOf(_)     \* a player's first name, last name and birth date

\* playerKeyOf: the national id when the card has one, otherwise first
\* name, last name and birth date, which identify the player by name.
PlayerKeyOf(d) ==
    IF d.nat THEN <<"nat", d.who>> ELSE <<"p", NameOf(d.who)>>

\* isTeamEnrollment: mode "team", a style starting with the word for team,
\* or a team_name that is not empty and not a dash ("-" or the em dash "emdash").
IsTeamEnrollment(d) ==
    \/ d.mode = "team"
    \/ d.stylePrefix = "team"
    \/ d.teamName \notin {"", "-", "emdash"}

SectionOf(d) == IF IsTeamEnrollment(d) THEN "team" ELSE "individual"

\* The keys of byPlayer in the order a Map keeps them: first insertion.
PlayerKeys(okItems) ==
    FoldLeft(LAMBDA ks, it :
                 IF Contains(ks, PlayerKeyOf(it.data)) THEN ks
                 ELSE Append(ks, PlayerKeyOf(it.data)),
             <<>>, okItems)

\* Mutant: a merged card keeps only its first enrollment's id.
BucketCardFirstOnly(arr) == arr[1]

\* The card of one bucket: a single item as it is, several as the first
\* one with the ids of all of them.
BucketCard(arr) ==
    IF Len(arr) = 1 THEN arr[1]
    ELSE [arr[1] EXCEPT !.merged_ids = [i \in DOMAIN arr |-> arr[i].id]]

\* mergeSameSectionCardsPerPlayer: for each player in key order, the team
\* bucket and then the individual bucket, empty buckets skipped.
MergeSameSectionCardsPerPlayer(okItems) ==
    LET keys == PlayerKeys(okItems)
        bucket(k, sec) ==
            SelectSeq(okItems, LAMBDA it : /\ PlayerKeyOf(it.data) = k
                                           /\ SectionOf(it.data) = sec)
        cardsOf(k) ==
            SelectSeq(<<bucket(k, "team"), bucket(k, "individual")>>,
                      LAMBDA arr : Len(arr) > 0)
    IN  FlattenSeq([i \in DOMAIN keys |->
                       [j \in DOMAIN cardsOf(keys[i]) |->
                           BucketCard(cardsOf(keys[i])[j])]])

\* The enrollments a printed card stands for.
CardIds(c) == IF c.merged_ids = <<>> THEN {c.id} ELSE ToSet(c.merged_ids)

-----------------------------------------------------------------------------
(* Reference: what the function's name promises.  One card for each player *)
(* and section that has an enrollment, standing for exactly those          *)
(* enrollments.                                                            *)
RefCards(okItems) ==
    LET its == ToSet(okItems)
    IN  { [who |-> p, sec |-> s,
           ids |-> {it.id : it \in {x \in its : x.data.who = p /\ SectionOf(x.data) = s}}] :
          <<p, s>> \in {<<it.data.who, SectionOf(it.data)>> : it \in its} }

\* The printed cards in the reference's terms.
CodeCards(okItems) ==
    LET out == MergeSameSectionCardsPerPlayer(okItems)
    IN  { [who |-> out[i].data.who, sec |-> SectionOf(out[i].data),
           ids |-> CardIds(out[i])] : i \in DOMAIN out }

\* No two printed cards share an enrollment.
Disjoint(okItems) ==
    LET out == MergeSameSectionCardsPerPlayer(okItems)
    IN  \A i, j \in DOMAIN out : i # j => CardIds(out[i]) \cap CardIds(out[j]) = {}
=============================================================================
