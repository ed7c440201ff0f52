---------------------------- MODULE EnrollmentCard ----------------------------
(***************************************************************************)
(* The single card page, EnrollmentCard.jsx, at                            *)
(* enrollments/:enrollmentId/card.  Its effect, for every enrollmentId,    *)
(* clears the page and reads the enrollment's detail, then its card, then  *)
(* takes a card URL from the detail when the card gave none.  The cleanup *)
(* clears `alive`; the same page opened for another id keeps its instance. *)
(*                                                                         *)
(* Values are abstracted to the enrollment they are of: `enroll` and       *)
(* `cardUrl` are an id or NULL, and the card answer is "json" (an object,  *)
(* which also holds the URL or not), "url" (a string) or a failure with   *)
(* its status.                                                             *)
(***************************************************************************)
EXTENDS Naturals, Sequences

CONSTANTS
    NULL,
    Ids,          \* enrollment ids of the route
    MaxOpens      \* bound on the ids the page is opened for

CardAnswers ==
    [kind : {"json"}, hasUrl : BOOLEAN] \cup [kind : {"url"}, hasUrl : {TRUE}]
    \cup [kind : {"fail"}, code : {403, 404, 500}]

VARIABLES
    eid,          \* the route's enrollmentId, NULL before the page opens
    runs,         \* the effect's runs: [of, alive, pc]
    enroll, cardUrl, loading,
    err,          \* NULL or the id of the run that set the error
    opens

vars == <<eid, runs, enroll, cardUrl, loading, err, opens>>

Init ==
    /\ eid = NULL /\ runs = <<>> /\ enroll = NULL /\ cardUrl = NULL
    /\ loading = FALSE /\ err = NULL /\ opens = 0

-----------------------------------------------------------------------------
\* The page is opened, or its id changes: the cleanup ends the runs and the
\* new run resets the page and asks for the detail.
Open ==
    /\ opens < MaxOpens
    /\ \E e \in Ids \ {eid} :
          /\ eid' = e /\ opens' = opens + 1
          /\ runs' = Append([i \in DOMAIN runs |-> [runs[i] EXCEPT !.alive = FALSE]],
                            [of |-> e, alive |-> TRUE, pc |-> "detail"])
    /\ loading' = TRUE /\ err' = NULL /\ enroll' = NULL /\ cardUrl' = NULL

\* The detail's answer.  A dead run returns at once.  Otherwise the detail
\* is set and the card is asked for; a failure sets the error and ends.
DetailAnswer(i) ==
    LET r == runs[i] IN
    /\ r.pc = "detail"
    /\ \/ /\ runs' = [runs EXCEPT ![i].pc = IF r.alive THEN "card" ELSE "done"]
          /\ IF r.alive THEN enroll' = r.of ELSE UNCHANGED enroll
          /\ UNCHANGED <<loading, err>>
       \/ /\ runs' = [runs EXCEPT ![i].pc = "done"]
          /\ IF r.alive THEN err' = r.of /\ loading' = FALSE
             ELSE UNCHANGED <<err, loading>>
          /\ UNCHANGED enroll
    /\ UNCHANGED <<eid, cardUrl, opens>>

\* The card's answer and the step after it.  A dead run returns after a
\* successful card; after a failed one it goes on.  A failure other than
\* 404 and 403 sets the error when alive; then a card URL of the detail is
\* taken when the card gave none, without looking at `alive`.
CardAnswer(i) ==
    LET r == runs[i] IN
    /\ r.pc = "card"
    /\ \E ans \in CardAnswers, detailUrl \in BOOLEAN :
          LET ok == ans.kind # "fail"
              url == IF ok /\ ans.hasUrl THEN r.of ELSE NULL
              late == ~ok \/ r.alive
              fromDetail == late /\ url = NULL /\ detailUrl
          IN  /\ runs' = [runs EXCEPT ![i].pc = "done"]
              /\ cardUrl' = IF fromDetail THEN r.of
                            ELSE IF r.alive /\ url # NULL THEN url ELSE cardUrl
              /\ err' = IF ~ok /\ ans.code \notin {404, 403} /\ r.alive
                           THEN r.of ELSE err
              /\ loading' = IF late /\ r.alive THEN FALSE ELSE loading
    /\ UNCHANGED <<eid, enroll, opens>>

Next ==
    \/ Open
    \/ \E i \in DOMAIN runs : DetailAnswer(i) \/ CardAnswer(i)

Spec == Init /\ [][Next]_vars
            /\ WF_vars(\E i \in DOMAIN runs : DetailAnswer(i) \/ CardAnswer(i))

-----------------------------------------------------------------------------
TypeOK ==
    /\ eid \in Ids \cup {NULL} /\ loading \in BOOLEAN
    /\ enroll \in Ids \cup {NULL} /\ cardUrl \in Ids \cup {NULL}
    /\ err \in Ids \cup {NULL} /\ opens \in 0..MaxOpens

\* A page that has finished loading without an error shows the
\* enrollment of its route: the answers of a run for an id the page left
\* never reach the detail it shows.
ShowsItsEnrollment == ~loading /\ err = NULL /\ enroll # NULL => enroll = eid

\* The page leaves its loading state: the run of its current id ends and
\* clears it.
LoadingEnds == eid # NULL ~> ~loading

\* The card URL the page holds is of its own enrollment.
UrlOfItsEnrollment == cardUrl # NULL => cardUrl = eid
=============================================================================
