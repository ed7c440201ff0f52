----------------------------- MODULE MC_Bracket -----------------------------
(***************************************************************************)
(* Model of Bracket for TLC: two contestants, draws of up to two first-   *)
(* round matches and one second-round match under every combination of    *)
(* names, BYEs, empty names and walkover flags.                           *)
(***************************************************************************)
EXTENDS Bracket, TLC

CONSTANTS n1, n2

MCNames == {n1, n2}

\* A match of data round r with order key 0.
MatchesOf(r) == [rnd : {r}, key : {0}, a : Labels, b : Labels, bye : BOOLEAN]

\* Round 1 then round 2, as the backend lists them.
MCAllMatchLists ==
    {r1 \o r2 : r1 \in SeqOf(MatchesOf(1), 2), r2 \in SeqOf(MatchesOf(2), 1)}

\* No display name twice in one round: every contestant has a name of
\* their own.
Homonyms(ms) ==
    \E j, k \in DOMAIN ms : \E p, q \in {"a", "b"} :
        /\ <<j, p>> # <<k, q>>
        /\ ms[j].rnd = ms[k].rnd
        /\ ms[j][p] \in MCNames
        /\ ms[j][p] = ms[k][q]

MCMatchLists == {ms \in MCAllMatchLists : ~Homonyms(ms)}

\* Draws of the given sizes (0 = draw.size missing) and name fields.
MCDraws(sizes, schemas, lists) ==
    [size : sizes, schema : schemas, matches : lists]

\* draw.size missing, a one-match draw (2) and a two-match draw (4).
MCPrimaryDraws == MCDraws({0, 2, 4}, {"primary"}, MCMatchLists)

\* One contestant n1 against BYEs, no flags or empty names: the draws in
\* which the single-survivor rule applies.
SoloMatchesOf(r) == [rnd : {r}, key : {0}, a : {n1, REST}, b : {n1, REST}, bye : {FALSE}]

MCSoloLists ==
    {ms \in {r1 \o r2 : r1 \in SeqOf(SoloMatchesOf(1), 2),
                        r2 \in SeqOf(SoloMatchesOf(2), 1)} : ~Homonyms(ms)}

\* Four-player draws with a first round from those lists, the names under
\* player_a_name/player_b_name or under an alias field (a_name, player_a).
MCAliasDraws ==
    MCDraws({4}, {"primary", "alias"},
            {ms \in MCSoloLists : ms # <<>> /\ ms[1].rnd = 1})

MCSymmetry == Permutations(MCNames)
=============================================================================
