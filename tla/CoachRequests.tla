---------------------------- MODULE CoachRequests ----------------------------
(***************************************************************************)
(* The coach's panel of the clubs' requests (CoachRequests.jsx): the      *)
(* requests a club made through update-coaches, each answered "accept"    *)
(* or "reject".  The effect reads the list when the role's token is       *)
(* present; respond posts an answer and marks the request's row busy      *)
(* through one respondingId, which its finally clears.                    *)
(*                                                                         *)
(* The server keeps each request's status.  It may refuse an answer to a  *)
(* request that is no longer pending, or accept it; its rule is not in    *)
(* the repository.                                                        *)
(***************************************************************************)
EXTENDS Naturals

CONSTANTS
    Requests,     \* request ids (model values)
    NULL,
    MaxAnswers    \* bound on respond calls

Actions == {"accept", "reject"}
Status(a) == IF a = "accept" THEN "accepted" ELSE "rejected"

VARIABLES
    token,        \* the role's token is in localStorage
    loading,
    shown,        \* the page's status of each listed request (requests)
    srv,          \* the server's status of each request
    respondingId,
    inflight,     \* the answers in flight: a set of [id, action, n]
    answers

vars == <<token, loading, shown, srv, respondingId, inflight, answers>>

Init ==
    /\ token \in BOOLEAN
    /\ loading = TRUE
    /\ shown = [r \in {} |-> "pending"]
    /\ srv \in [Requests -> {"pending", "accepted", "rejected"}]
    /\ respondingId = NULL /\ inflight = {} /\ answers = 0

-----------------------------------------------------------------------------
\* fetchRequests (the effect runs only with a token): the list, or a
\* toast; finally clears loading.
LoadAnswer ==
    /\ token /\ loading
    /\ \/ shown' = srv
       \/ UNCHANGED shown
    /\ loading' = FALSE
    /\ UNCHANGED <<token, srv, respondingId, inflight, answers>>

\* respond(id, action), from a pending row whose buttons are enabled.
Respond(r, a) ==
    /\ ~loading
    /\ r \in DOMAIN shown /\ shown[r] = "pending"
    /\ respondingId # r
    /\ answers < MaxAnswers
    /\ respondingId' = r
    /\ inflight' = inflight \cup {[id |-> r, action |-> a, n |-> answers]}
    /\ answers' = answers + 1
    /\ UNCHANGED <<token, loading, shown, srv>>

\* An answer settles: the server records it and the row shows it, or the
\* post fails (a refusal or a network error) and a toast says so.
\* finally clears respondingId, whichever row it names.
RespondAnswer(q) ==
    /\ q \in inflight
    /\ inflight' = inflight \ {q}
    /\ \/ /\ srv' = [srv EXCEPT ![q.id] = Status(q.action)]
          /\ shown' = [shown EXCEPT ![q.id] = Status(q.action)]
       \/ UNCHANGED <<srv, shown>>
    /\ respondingId' = NULL
    /\ UNCHANGED <<token, loading, answers>>

Next ==
    \/ LoadAnswer
    \/ \E r \in Requests, a \in Actions : Respond(r, a)
    \/ \E q \in inflight : RespondAnswer(q)

\* The server answers every request the page sent.
Spec == Init /\ [][Next]_vars /\ WF_vars(LoadAnswer)
        /\ \A q \in [id : Requests, action : Actions, n : 0..MaxAnswers] :
              WF_vars(RespondAnswer(q))

-----------------------------------------------------------------------------
TypeOK ==
    /\ loading \in BOOLEAN
    /\ respondingId \in Requests \cup {NULL}
    /\ answers \in 0..MaxAnswers

\* A request has at most one answer in flight: its buttons are disabled
\* while its answer is sent.
OneAnswerInFlight ==
    \A q1, q2 \in inflight : q1.id = q2.id => q1 = q2

\* The panel leaves "loading".
LoadingEnds == loading ~> ~loading
=============================================================================
