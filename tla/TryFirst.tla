------------------------------ MODULE TryFirst ------------------------------
(***************************************************************************)
(* tryFirst of api/competitions.js: a request is sent to each candidate   *)
(* URL in turn (safeFetch); the first success is returned; an HTTP error  *)
(* other than 404 ends the loop; a 404 or an error without a status (a    *)
(* network failure) moves on to the next candidate; after the last one    *)
(* the last error is thrown.                                               *)
(*                                                                         *)
(* The backend serves at most one of the candidates of a call site (the   *)
(* candidates are alternative addresses of one endpoint); a candidate     *)
(* that is not served answers 404.  A network failure may strike before   *)
(* the request reaches the server or after it was handled.  Calls of the  *)
(* call sites below differ only in their number of candidates.            *)
(***************************************************************************)
EXTENDS Naturals

CONSTANTS
    NULL,
    MaxCalls    \* bound on the calls made (the page reloaded, the user retrying)

(* The call sites of tryFirst, by their number of candidate URLs. *)

\* getCompetitionTerms: by-public, generic, kyorugi and poomsae roots.
GetCompetitionTerms == 4

\* getCompetitionDetail: the same four roots.
GetCompetitionDetail == 4

\* registerPoomsaeTeams: teams/, coach/teams/, coach/register/teams/ (POST).
RegisterPoomsaeTeams == 3

\* getCompetitionResults: kyorugi, by-public and generic results.
GetCompetitionResults == 3

\* getBracket: kyorugi and by-public bracket.
GetBracket == 2

\* getKyorugiListFromDashboard: dashboard/all and dashboard/kyorugi.
GetKyorugiListFromDashboard == 2

\* getMyPoomsaeEnrollments: auth and public my-enrollments.
GetMyPoomsaeEnrollments == 2

\* getCoachEligibleStudents and registerStudentsBulk: one URL per style.
RegisterStudentsBulk == 1

SiteSizes ==
    {GetCompetitionTerms, GetCompetitionDetail, RegisterPoomsaeTeams,
     GetCompetitionResults, GetBracket, GetKyorugiListFromDashboard,
     GetMyPoomsaeEnrollments, RegisterStudentsBulk}

MaxN == 4

VARIABLES
    n,          \* number of candidates of the call site
    route,      \* index of the candidate the backend serves, 0 for none
    pc,         \* "idle", "loop" (inside the for loop), "returned", "thrown"
    i,          \* the candidate being tried
    lastErr,    \* status of lastErr: NULL, "404", "http" (another status), "net"
    answer,     \* what the served candidate answered in this call
    net,        \* a transfer failed in this call
    hits,       \* requests the served candidate has handled
    calls

vars == <<n, route, pc, i, lastErr, answer, net, hits, calls>>

\* Mutant: the loop also stops at a 404.
BreaksOn404(e) == e \in {"http", "404"}

\* `if (e?.status && e.status !== 404) break;`: a network error has no status.
Breaks(e) == e = "http"

\* What a request to candidate c can meet: the served candidate handles it
\* (data, an HTTP error, its own 404, or a response lost after handling);
\* any other candidate answers 404; any request can be lost on its way.
Outcomes(c) ==
    IF c = route THEN {"ok", "http", "404", "netAfter", "netBefore"}
                 ELSE {"404", "netBefore"}

Init ==
    /\ n \in SiteSizes
    /\ route \in 0..n
    /\ pc = "idle"
    /\ i = 1
    /\ lastErr = NULL
    /\ answer = "none"
    /\ net = FALSE
    /\ hits = 0
    /\ calls = 0

Call ==
    /\ pc # "loop"
    /\ calls < MaxCalls
    /\ pc' = "loop"
    /\ i' = 1
    /\ lastErr' = NULL
    /\ answer' = "none"
    /\ net' = FALSE
    /\ calls' = calls + 1
    /\ UNCHANGED <<n, route, hits>>

\* One turn of the loop: `return await safeFetch(u, rest)`, or the catch:
\* remember the error, break on a status other than 404, else go on.
Attempt ==
    /\ pc = "loop"
    /\ i <= n
    /\ \E out \in Outcomes(i) :
         LET err == CASE out = "http" -> "http"
                      [] out = "404"  -> "404"
                      [] OTHER        -> "net"
         IN
         /\ hits' = IF out \in {"ok", "http", "404", "netAfter"} /\ i = route
                    THEN hits + 1 ELSE hits
         /\ answer' = IF i = route /\ out # "netBefore"
                      THEN (IF out = "netAfter" THEN "net" ELSE out)
                      ELSE answer
         /\ net' = (net \/ out = "netBefore")
         /\ IF out = "ok"
            THEN /\ pc' = "returned"
                 /\ UNCHANGED <<i, lastErr>>
            ELSE /\ lastErr' = err
                 /\ IF Breaks(err)
                    THEN /\ pc' = "thrown" /\ UNCHANGED i
                    ELSE /\ i' = i + 1     /\ UNCHANGED pc
    /\ UNCHANGED <<n, route, calls>>

\* After the loop: `throw lastErr || new Error("No endpoint responded")`.
Exhausted ==
    /\ pc = "loop"
    /\ i > n
    /\ pc' = "thrown"
    /\ UNCHANGED <<n, route, i, lastErr, answer, net, hits, calls>>

Next == Call \/ Attempt \/ Exhausted

\* A request settles (data, an error status or a network error).
Spec == Init /\ [][Next]_vars /\ WF_vars(Attempt) /\ WF_vars(Exhausted)

-----------------------------------------------------------------------------
TypeOK ==
    /\ n \in SiteSizes
    /\ route \in 0..MaxN
    /\ pc \in {"idle", "loop", "returned", "thrown"}
    /\ i \in 1..(n + 1)
    /\ lastErr \in {NULL, "404", "http", "net"}
    /\ answer \in {"none", "ok", "http", "404", "net"}
    /\ net \in BOOLEAN
    /\ hits \in 0..MaxCalls
    /\ calls \in 0..MaxCalls

\* The refinement mapping: the loop is the caller's single fetch, busy
\* while it runs.
Abstract == INSTANCE FetchOnce WITH
    pc <- IF pc = "loop" THEN "busy" ELSE pc

\* tryFirst behaves like one fetch of the endpoint: it reaches the
\* endpoint at most once per call, returns data exactly when the endpoint
\* answered with data, fails only for a reason, and always ends.
FetchesOnce == Abstract!Spec
=============================================================================
