--------------------------- MODULE CoachAgreement ---------------------------
(***************************************************************************)
(* The coach's agreement dialog, CoachAgreementFlow.jsx, opened from the  *)
(* dashboard's competition list (MatchesSection.js handleDetailsClick,    *)
(* handleModalCancel, handleModalDone).  At mount the dialog reads the     *)
(* terms and then the coach's approval status; an approved coach sees the *)
(* code step, the others the terms with a checkbox.  Approving posts the  *)
(* approval; an answer without a code is followed, 200 ms later, by a      *)
(* second status read.  The code step offers a refresh and "continue",    *)
(* which goes to the competition's page.                                  *)
(*                                                                         *)
(* The kyorugi and poomsae endpoints have the same control and are one.   *)
(* The server's approval and code are `srvApproved` and `srvCode`: the     *)
(* code may be issued some time after the approval.  An approval whose    *)
(* dialog was closed still reaches the server (`orphans`).                *)
(***************************************************************************)
EXTENDS Naturals

CONSTANTS
    MaxOpens,     \* bound on the openings of the dialog
    MaxOrphans    \* bound on approvals left in flight by a closed dialog

VARIABLES
    at,           \* "list" or "details" (the competition's page)
    open,         \* showTermsModal
    loading,      \* bootstrap has not finished
    step,         \* "terms" or "code"
    approved,     \* the dialog's approved
    code,         \* the dialog holds a code
    checked, submitting,
    pc,           \* the await the mounted dialog is at
    srvApproved, srvCode,
    orphans,      \* approval requests in flight from closed dialogs
    opens

vars == <<at, open, loading, step, approved, code, checked, submitting, pc,
          srvApproved, srvCode, orphans, opens>>

Init ==
    /\ at = "list" /\ open = FALSE /\ loading = FALSE /\ step = "terms"
    /\ approved = FALSE /\ code = FALSE /\ checked = FALSE
    /\ submitting = FALSE /\ pc = "idle"
    /\ srvApproved \in BOOLEAN
    /\ srvCode \in (IF srvApproved THEN BOOLEAN ELSE {FALSE})
    /\ orphans = 0 /\ opens = 0

Dialog == <<loading, step, approved, code, checked, submitting, pc>>
Server == <<srvApproved, srvCode>>

-----------------------------------------------------------------------------
\* A coach clicks a kyorugi or poomsae competition: the dialog mounts with
\* its initial state and bootstrap asks for the terms.
OpenFlow ==
    /\ at = "list" /\ ~open /\ opens < MaxOpens
    /\ open' = TRUE /\ opens' = opens + 1
    /\ loading' = TRUE /\ step' = "terms" /\ approved' = FALSE
    /\ code' = FALSE /\ checked' = FALSE /\ submitting' = FALSE
    /\ pc' = "terms"
    /\ UNCHANGED <<at, srvApproved, srvCode, orphans>>

\* The terms answer, or its failure with the default text: bootstrap goes
\* on to the approval status.
TermsAnswer ==
    /\ pc = "terms"
    /\ pc' = "status"
    /\ UNCHANGED <<at, open, loading, step, approved, code, checked, submitting,
                   srvApproved, srvCode, orphans, opens>>

\* The status answer: approved shows the code step; a failure the terms.
StatusAnswer ==
    /\ pc = "status"
    /\ pc' = "idle" /\ loading' = FALSE
    /\ \/ /\ approved' = srvApproved /\ code' = srvCode
          /\ step' = IF srvApproved THEN "code" ELSE "terms"
       \/ step' = "terms" /\ UNCHANGED <<approved, code>>
    /\ UNCHANGED <<at, open, checked, submitting, srvApproved, srvCode, orphans,
                   opens>>

Check ==
    /\ open /\ ~loading /\ step = "terms"
    /\ checked' = ~checked
    /\ UNCHANGED <<at, open, loading, step, approved, code, submitting, pc,
                   srvApproved, srvCode, orphans, opens>>

\* handleApprove (the button is disabled until checked and while submitting).
Approve ==
    /\ open /\ ~loading /\ step = "terms" /\ checked /\ ~submitting
    /\ submitting' = TRUE /\ pc' = "approve"
    /\ UNCHANGED <<at, open, loading, step, approved, code, checked,
                   srvApproved, srvCode, orphans, opens>>

\* The server approves; it may issue the code now or later.
ServerApproves ==
    /\ srvApproved' = TRUE
    /\ srvCode' \in {srvCode, TRUE}

\* The approval's answer: with a code it is shown; without one the
\* status is read again.  A failed request may have reached the server.
ApproveAnswer ==
    /\ pc = "approve"
    /\ \/ /\ ServerApproves
          /\ approved' = TRUE /\ step' = "code"
          /\ \/ srvCode' /\ code' = TRUE /\ pc' = "idle" /\ submitting' = FALSE
             \/ pc' = "refetch" /\ UNCHANGED <<code, submitting>>
       \/ /\ srvApproved' \in {srvApproved, TRUE} /\ UNCHANGED srvCode
          /\ pc' = "idle" /\ submitting' = FALSE
          /\ UNCHANGED <<approved, step, code>>
    /\ UNCHANGED <<at, open, loading, checked, orphans, opens>>

\* The second status read after the approval: its code, or none on a
\* failure.
RefetchAnswer ==
    /\ pc = "refetch"
    /\ code' \in {srvCode, FALSE}
    /\ pc' = "idle" /\ submitting' = FALSE
    /\ UNCHANGED <<at, open, loading, step, approved, checked, srvApproved,
                   srvCode, orphans, opens>>

\* refreshCode, offered when the code step has no code.
Refresh ==
    /\ open /\ ~loading /\ step = "code" /\ ~(approved /\ code) /\ ~submitting
    /\ submitting' = TRUE /\ pc' = "refresh"
    /\ UNCHANGED <<at, open, loading, step, approved, code, checked,
                   srvApproved, srvCode, orphans, opens>>

RefreshAnswer ==
    /\ pc = "refresh"
    /\ \/ approved' = srvApproved /\ code' = srvCode
       \/ UNCHANGED <<approved, code>>
    /\ pc' = "idle" /\ submitting' = FALSE
    /\ UNCHANGED <<at, open, loading, step, checked, srvApproved, srvCode,
                   orphans, opens>>

\* The server issues the code of an approved coach.
IssueCode ==
    /\ srvApproved /\ ~srvCode
    /\ srvCode' = TRUE
    /\ UNCHANGED <<at, open, Dialog, srvApproved, orphans, opens>>

\* The overlay or the cancel button: handleModalCancel unmounts the dialog;
\* an approval in flight goes on without it.
Cancel ==
    /\ open /\ ~loading /\ (pc = "approve" => orphans < MaxOrphans)
    /\ open' = FALSE /\ pc' = "idle"
    /\ orphans' = orphans + (IF pc = "approve" THEN 1 ELSE 0)
    /\ UNCHANGED <<at, loading, step, approved, code, checked, submitting,
                   Server, opens>>

OrphanLands ==
    /\ orphans > 0
    /\ orphans' = orphans - 1
    /\ \/ ServerApproves
       \/ UNCHANGED Server
    /\ UNCHANGED <<at, open, Dialog, opens>>

\* "Continue": goToDetails navigates and handleModalDone closes the dialog
\* and navigates to the competition's page.
Continue ==
    /\ open /\ ~loading /\ step = "code"
    /\ at' = "details" /\ open' = FALSE /\ pc' = "idle"
    /\ UNCHANGED <<loading, step, approved, code, checked, submitting, Server,
                   orphans, opens>>

\* The coach goes back to the list.
BackToList ==
    /\ at = "details"
    /\ at' = "list"
    /\ UNCHANGED <<open, Dialog, Server, orphans, opens>>

Next ==
    \/ OpenFlow \/ TermsAnswer \/ StatusAnswer \/ Check \/ Approve
    \/ ApproveAnswer \/ RefetchAnswer \/ Refresh \/ RefreshAnswer
    \/ IssueCode \/ Cancel \/ OrphanLands \/ Continue \/ BackToList

Spec == Init /\ [][Next]_vars

-----------------------------------------------------------------------------
TypeOK ==
    /\ at \in {"list", "details"} /\ step \in {"terms", "code"}
    /\ pc \in {"idle", "terms", "status", "approve", "refetch", "refresh"}
    /\ {open, loading, approved, code, checked, submitting, srvApproved,
        srvCode} \subseteq BOOLEAN
    /\ orphans \in 0..MaxOrphans

\* The coach reaches the competition's page through the dialog only when
\* the server holds the coach's approval: the code step, where "continue"
\* is, follows an approved status or an accepted approval.
ContinueApproved == at = "details" => srvApproved

\* A code the dialog shows is one the server issued.
CodeIssued == open /\ code => srvCode
=============================================================================
