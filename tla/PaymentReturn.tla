---------------------------- MODULE PaymentReturn ----------------------------
(***************************************************************************)
(* The bank's redirect back to the portal (pages/PaymentResult.jsx): the   *)
(* effect of PaymentResult reads the query, and for a successful payment   *)
(* navigates to the single enrollment card, to the bulk cards of the ids   *)
(* in the query, or resolves the ids from the payment intent `pid`         *)
(* (resolveEnrollmentIdsByPid: the ids cached in localStorage, otherwise   *)
(* two candidate URLs in turn), then to the dashboard.                     *)
(*                                                                         *)
(* Enrollment ids are abstracted to the payment they belong to: ids = p    *)
(* are the enrollments paid by intent p.  Each payment returns once, in    *)
(* any order.  The effect's `alive` flag is read only before the await,   *)
(* inside Return, so the cleanup that clears it is not an action here.     *)
(***************************************************************************)
EXTENDS Naturals

CONSTANTS
    Pids,       \* payment intents (model values)
    NULL

\* The intents/ and intent/ URLs of resolveEnrollmentIdsByPid.
LastCandidate == 2
Candidates == 1..LastCandidate

\* What a candidate URL answers for a pid: its ids, or none (not ok, an
\* error or an empty list).
ServerAnswers == {"ids", "none"}

VARIABLES
    server,     \* server[c]: the answer of URL c for the pid being resolved
    cache,      \* last_payment_enrollment_ids: ids of a payment, or NULL
    returned,   \* payments whose redirect has been handled
    pc,         \* "idle", or "fetch" while resolveEnrollmentIdsByPid awaits
    cur,        \* pid of the redirect being handled
    cand,       \* candidate URL being fetched
    shown       \* the page the redirect ended on: [page, ids, for]

vars == <<server, cache, returned, pc, cur, cand, shown>>

Nav(page, ids, p) == [page |-> page, ids |-> ids, for |-> p]

\* for (const url of candidates): the next URL.
NextCandidate(c) == c + 1

Init ==
    /\ server = [c \in Candidates |-> "none"]
    /\ cache = NULL
    /\ returned = {}
    /\ pc = "idle"
    /\ cur = NULL
    /\ cand = 1
    /\ shown = NULL

\* The effect up to its first await.  A failed payment shows the failure;
\* a single enrollment id or ids in the query are navigated to at once;
\* otherwise a pid is resolved: from the cache when it holds ids, else by
\* the first candidate URL; without a pid the dashboard.
ReturnWith(p, ok, hasSingle, hasIds, hasPid) ==
    /\ pc = "idle"
    /\ p \notin returned
    /\ returned' = returned \cup {p}
    /\ cur' = p
    /\ cand' = 1
    /\ CASE ~ok ->
              /\ shown' = [page |-> "failed", ids |-> NULL, for |-> p]
              /\ UNCHANGED <<pc, server>>
         [] hasSingle ->
              /\ shown' = [page |-> "card", ids |-> p, for |-> p]
              /\ UNCHANGED <<pc, server>>
         [] hasIds ->
              /\ shown' = [page |-> "bulk", ids |-> p, for |-> p]
              /\ UNCHANGED <<pc, server>>
         [] hasPid /\ cache # NULL ->
              /\ shown' = [page |-> "bulk", ids |-> cache, for |-> p]
              /\ UNCHANGED <<pc, server>>
         [] hasPid ->
              /\ pc' = "fetch"
              /\ server' \in [Candidates -> ServerAnswers]
              /\ UNCHANGED shown
         [] OTHER ->
              /\ shown' = [page |-> "dashboard", ids |-> NULL, for |-> p]
              /\ UNCHANGED <<pc, server>>
    /\ UNCHANGED cache

\* A redirect of payment p with a query of any shape.
Return(p) == \E ok, hasSingle, hasIds, hasPid \in BOOLEAN :
                ReturnWith(p, ok, hasSingle, hasIds, hasPid)

\* A candidate URL answers.  Ids: they are cached and the effect, resumed
\* after its await, navigates to the bulk cards.  Otherwise the next URL;
\* after the last one the dashboard.
Answer ==
    /\ pc = "fetch"
    /\ IF server[cand] = "ids"
       THEN /\ cache' = cur
            /\ shown' = Nav("bulk", cur, cur)
            /\ pc' = "idle"
            /\ UNCHANGED cand
       ELSE IF cand < LastCandidate
       THEN /\ cand' = NextCandidate(cand)
            /\ UNCHANGED <<cache, shown, pc>>
       ELSE /\ shown' = Nav("dashboard", NULL, cur)
            /\ pc' = "idle"
            /\ UNCHANGED <<cache, cand>>
    /\ UNCHANGED <<server, returned, cur>>

Next == (\E p \in Pids : Return(p)) \/ Answer

\* A request the browser has sent settles (an answer or a network error).
Spec == Init /\ [][Next]_vars /\ WF_vars(Answer)

-----------------------------------------------------------------------------
TypeOK ==
    /\ server \in [Candidates -> ServerAnswers]
    /\ cache \in Pids \cup {NULL}
    /\ returned \subseteq Pids
    /\ pc \in {"idle", "fetch"}
    /\ cur \in Pids \cup {NULL}
    /\ cand \in Candidates
    /\ shown \in {NULL} \cup
         [page : {"failed", "card", "bulk", "dashboard"},
          ids : Pids \cup {NULL}, for : Pids]

\* The cards a successful payment opens are the enrollments of that
\* payment (the pid of the redirect).
CardsOfThisPayment ==
    (shown # NULL /\ shown.page \in {"card", "bulk"}) => shown.ids = shown.for
=============================================================================
