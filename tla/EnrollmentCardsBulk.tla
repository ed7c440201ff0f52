------------------------- MODULE EnrollmentCardsBulk -------------------------
(***************************************************************************)
(* The bulk cards page, EnrollmentCardsBulk.jsx.  Its effect runs for     *)
(* every address (query ids, location.state ids, pid): the ids of the     *)
(* query, else those of the state, else the ids the payment intent `pid`  *)
(* lists (resolveEnrollmentIdsFromPid); then one getEnrollmentCard per id, *)
(* in turn, each answer filed as ok, pending or error; the list is set    *)
(* when the run is still `alive`.  runKeyRef skips a run for the address  *)
(* the previous run had; React's StrictMode runs the mount effect, its    *)
(* cleanup and the effect again.  Navigating between two addresses of the *)
(* page keeps the same instance and starts a new run.                     *)
(*                                                                         *)
(* `itemsOf` and `err.of` record the address of the run that set them; the *)
(* address is carried by the messages and ids the page shows.  The kind   *)
(* of the address, the card's fields and the texts are left out.          *)
(***************************************************************************)
EXTENDS Naturals, Sequences

CONSTANTS
    NULL,
    StrictMode,   \* the app is rendered inside <React.StrictMode>
    Addresses,    \* addresses of the page: [qs, st, pid] (id lists, pid or NULL)
    PidLists,     \* the id lists the intent's enrollments endpoint may answer
    MaxNavs       \* bound on navigations between addresses

\* A card request's answer: ok, or a failure with its HTTP status and
\* whether its message has one of the pending words.
Answers ==
    [ok : {TRUE}, code : {200}, words : {FALSE}]
    \cup [ok : {FALSE}, code : {400, 403, 404}, words : BOOLEAN]

VARIABLES
    mounted,
    addr,         \* the page's current address
    runKeyRef,    \* the address of the last run started
    runs,         \* the effect's runs: [of, alive, pc, todo, out]
    loading, err, items,
    itemsOf,      \* the address of the run whose list is shown
    navs

vars == <<mounted, addr, runKeyRef, runs, loading, err, items, itemsOf, navs>>

\* `ids`: the query's ids, else the state's.
IdsOf(a) == IF a.qs # <<>> THEN a.qs ELSE a.st

\* The catch of the card loop.
Status(ans) ==
    IF ans.ok THEN "ok"
    ELSE IF ans.code \in {403, 409, 400} /\ ans.words THEN "pending"
    ELSE "error"

Init ==
    /\ mounted = FALSE /\ addr = NULL /\ runKeyRef = NULL /\ runs = <<>>
    /\ loading = FALSE /\ err = NULL /\ items = <<>> /\ itemsOf = NULL
    /\ navs = 0

-----------------------------------------------------------------------------
\* The effect for address a, after the runs rs: run() up to its first
\* await.  Without ids and pid it finishes at once (it is still alive
\* then); otherwise the run waits for the pid lookup or the first card.
\* `alive` is what the cleanup leaves of it.
StartRun(rs, a, alive) ==
    \/ /\ IdsOf(a) = <<>> /\ a.pid = NULL
       /\ runs' = Append(rs, [of |-> a, alive |-> alive, pc |-> "done",
                              todo |-> <<>>, out |-> <<>>])
       /\ items' = <<>> /\ itemsOf' = a /\ err' = [msg |-> "noIds", of |-> a]
       /\ loading' = FALSE
    \/ /\ IdsOf(a) # <<>> \/ a.pid # NULL
       /\ runs' = Append(rs, [of |-> a, alive |-> alive,
                              pc |-> IF IdsOf(a) # <<>> THEN "load" ELSE "resolve",
                              todo |-> IdsOf(a), out |-> <<>>])
       /\ loading' = TRUE /\ err' = NULL
       /\ UNCHANGED <<items, itemsOf>>

\* The page mounts; under StrictMode the cleanup of the first run and the
\* second effect follow at once, and the second effect finds runKeyRef
\* equal to its key and returns.
Mount ==
    /\ ~mounted
    /\ \E a \in Addresses :
          /\ mounted' = TRUE /\ addr' = a /\ runKeyRef' = a
          /\ StartRun(runs, a, ~StrictMode)
    /\ UNCHANGED navs

\* The address changes on the same page: the cleanup ends the runs and the
\* effect, whose key differs from runKeyRef, starts one.
Navigate ==
    /\ mounted /\ navs < MaxNavs
    /\ \E a \in Addresses \ {addr} :
          /\ addr' = a /\ navs' = navs + 1
          /\ runKeyRef # a /\ runKeyRef' = a
          /\ StartRun([i \in DOMAIN runs |-> [runs[i] EXCEPT !.alive = FALSE]],
                      a, TRUE)
    /\ UNCHANGED mounted

\* The end of a run without ids: `if (alive)` the empty list and the
\* message that the payment has no enrollments, and the finally's
\* setLoading(false).
EndEmpty(r) ==
    /\ items' = <<>> /\ itemsOf' = r.of
    /\ err' = [msg |-> "noEnrollments", of |-> r.of] /\ loading' = FALSE

\* The answer of resolveEnrollmentIdsFromPid: a list of ids, an empty list,
\* or a failure, whose catch sets the error whether or not the run is
\* alive before the run ends as an empty one.
Resolve(i) ==
    /\ runs[i].pc = "resolve"
    /\ LET r == runs[i] IN
       \/ \E l \in PidLists \ {<<>>} :
             /\ runs' = [runs EXCEPT ![i].pc = "load", ![i].todo = l]
             /\ UNCHANGED <<loading, err, items, itemsOf>>
       \/ \E failed \in {TRUE} \cup (IF <<>> \in PidLists THEN {FALSE} ELSE {}) :
             /\ runs' = [runs EXCEPT ![i].pc = "done"]
             /\ IF r.alive THEN EndEmpty(r)
                ELSE /\ err' = IF failed THEN [msg |-> "lookupFailed", of |-> r.of]
                               ELSE err
                     /\ UNCHANGED <<items, itemsOf, loading>>
    /\ UNCHANGED <<mounted, addr, runKeyRef, navs>>

\* The answer for the next id of the loop; after the last one the list is
\* set and loading ends, if the run is alive.
LoadCard(i) ==
    /\ runs[i].pc = "load"
    /\ \E ans \in Answers :
          LET r == runs[i]
              out == Append(r.out, [id |-> Head(r.todo), status |-> Status(ans)])
              last == Tail(r.todo) = <<>>
          IN  /\ runs' = [runs EXCEPT ![i].out = out, ![i].todo = Tail(r.todo),
                                      ![i].pc = IF last THEN "done" ELSE "load"]
              /\ IF last /\ r.alive
                    THEN items' = out /\ itemsOf' = r.of /\ loading' = FALSE
                    ELSE UNCHANGED <<items, itemsOf, loading>>
    /\ UNCHANGED <<mounted, addr, runKeyRef, err, navs>>

Answer == \E i \in DOMAIN runs : Resolve(i) \/ LoadCard(i)

Next == Mount \/ Navigate \/ Answer

\* Every request the page sends is answered (or fails) in the end.
Spec == Init /\ [][Next]_vars /\ WF_vars(Answer)

-----------------------------------------------------------------------------
\* What the page renders: the skeleton while loading with no list, else
\* the error, else the list.
View == IF loading /\ items = <<>> THEN "skeleton"
        ELSE IF err # NULL THEN "error" ELSE "list"

TypeOK ==
    /\ mounted \in BOOLEAN /\ loading \in BOOLEAN
    /\ addr \in Addresses \cup {NULL} /\ runKeyRef \in Addresses \cup {NULL}
    /\ \A i \in DOMAIN runs : runs[i].pc \in {"resolve", "load", "done"}
    /\ navs \in 0..MaxNavs

\* The page that was opened leaves its loading state: the run that
\* runKeyRef lets through sets loading to false when its requests end.
LoadingEnds == mounted ~> ~loading

\* The error the page shows is about the address it is at, not about an
\* address it left (the pid lookup's catch of an ended run).
ErrorOfAddress == View = "error" => err.of = addr

\* A page that has finished loading lists the cards of its own address.
ListOfAddress == View = "list" /\ ~loading => itemsOf = addr
=============================================================================
