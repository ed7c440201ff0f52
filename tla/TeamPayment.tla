----------------------------- MODULE TeamPayment -----------------------------
(***************************************************************************)
(* The team registration page and the payment return page together: the   *)
(* team page's startPaymentIntent sends the browser to the bank with a    *)
(* callback to /payment/result carrying the enrollment ids, and the bank   *)
(* redirects back to PaymentResult with the intent's pid.  Other payments  *)
(* of the same browser (TeamPid's siblings in Pids) return at any time;    *)
(* the two pages share only the localStorage cache of PaymentResult.       *)
(***************************************************************************)
EXTENDS Naturals

CONSTANTS
    Players, MaxTeams, MaxEdits, MaxSubs, NULL,
    Pids,
    TeamPid     \* the pid of the team page's payment intent, in Pids

VARIABLES
    tpage, comp, teams, submitting, job, srv, intent, redirect, subs, edits,
    server, cache, returned, pc, cur, cand, shown

teamVars == <<tpage, comp, teams, submitting, job, srv, intent, redirect, subs, edits>>
payVars == <<server, cache, returned, pc, cur, cand, shown>>
vars == <<tpage, comp, teams, submitting, job, srv, intent, redirect, subs, edits,
          server, cache, returned, pc, cur, cand, shown>>

T == INSTANCE PoomsaeTeam
P == INSTANCE PaymentReturn

\* The team payment's redirect back: only after the team page sent the
\* browser to the bank.  The callback it built carries the ids exactly
\* when the registration returned some; a backend payment_url's callback
\* is the backend's.  The bank adds ok and pid, or not.
TeamReturn ==
    /\ redirect # NULL
    /\ \E ok, hasSingle, hasPid \in BOOLEAN,
          hasIds \in IF redirect.viaUrl THEN BOOLEAN ELSE {redirect.ids} :
          P!ReturnWith(TeamPid, ok, hasSingle, hasIds, hasPid)
    /\ UNCHANGED teamVars

\* Another payment of the browser returns before the team page opens.  Its
\* steps touch no variable of the team page and commute with the page's
\* steps up to the team payment's own return; what the team's return can
\* meet of it is the cache it left.
OtherReturn ==
    /\ tpage = "loading"
    /\ \E p \in Pids \ {TeamPid} : P!Return(p)
    /\ UNCHANGED teamVars

Init == T!Init /\ P!Init

\* A candidate URL of resolveEnrollmentIdsByPid answers.
PayAnswer == P!Answer /\ UNCHANGED teamVars

Next ==
    \/ T!TeamNext /\ UNCHANGED payVars
    \/ TeamReturn
    \/ OtherReturn
    \/ PayAnswer

Spec == Init /\ [][Next]_vars /\ T!TeamFairness /\ WF_vars(PayAnswer)

-----------------------------------------------------------------------------
TypeOK == T!TeamTypeOK /\ P!TypeOK

\* The payment intent asks for the fee of exactly the members registered
\* by its submission (PoomsaeTeam).
IntentAmountIsRegistered == T!IntentAmountIsRegistered

\* The submit spinner of the team page ends unless the page was left.
TeamSubmitSettles == T!TeamSubmitSettles

-----------------------------------------------------------------------------
(* The cards page both pages open (EnrollmentCardsBulk) prints the loaded *)
(* cards through mergeSameSectionCardsPerPlayer.  Its inputs: up to three *)
(* loaded cards of the Players, each of a team or an individual section   *)
(* by each of isTeamEnrollment's tests, all with or all without a national *)
(* id (one endpoint serializes them all), players' names distinct.        *)
CardShapes ==
    {[mode |-> "team", stylePrefix |-> "", teamName |-> ""],
     [mode |-> "", stylePrefix |-> "team", teamName |-> "-"],
     [mode |-> "", stylePrefix |-> "", teamName |-> "T"],
     [mode |-> "", stylePrefix |-> "individual", teamName |-> "emdash"]}

CardData(hasNat) ==
    {[who |-> p, nat |-> hasNat, mode |-> s.mode, stylePrefix |-> s.stylePrefix,
      teamName |-> s.teamName] : p \in Players, s \in CardShapes}

LoadedCards ==
    UNION {{[i \in 1..n |-> [id |-> i, merged_ids |-> <<>>, data |-> f[i]]] :
             f \in [1..n -> CardData(hasNat)]} :
           n \in 0..3, hasNat \in BOOLEAN}

\* Players' names are distinct: playerKeyOf's name key tells them apart.
DistinctName(p) == p

C == INSTANCE CardMerge WITH NameOf <- DistinctName

MergeAgrees ==
    \A cs \in LoadedCards :
        /\ C!CodeCards(cs) = C!RefCards(cs)
        /\ C!Disjoint(cs)

\* Whenever a cards page is open (the free team registration's, or the one
\* a payment's redirect opened), it prints every loaded enrollment on
\* exactly one card, one card per player and section, as
\* mergeSameSectionCardsPerPlayer's name promises (a merged card carries
\* the ids of all it stands for).  MergeAgrees is computed once.
MergeMatchesReference ==
    (tpage = "cards" \/ (shown # NULL /\ shown.page = "bulk")) => MergeAgrees
=============================================================================
