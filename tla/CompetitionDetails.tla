-------------------------- MODULE CompetitionDetails --------------------------
(***************************************************************************)
(* The competition page (CompetitionDetails.jsx) of a signed-in user: the *)
(* competition loads; for a player an effect checks the user's enrollment *)
(* (the card button); a coach opens the coach-code dialog and may approve *)
(* the competition to get a code; anyone may open the self-registration   *)
(* form, whose prefill request fills it, and submit it (registerSelf or   *)
(* registerSelfPoomsae), which ends at the bank, at the card page, or     *)
(* back on the form.                                                       *)
(*                                                                         *)
(* Each handler runs to its await at once; the requests in flight are a   *)
(* bag of their kinds, answered in any order.  The form's fields are       *)
(* abstracted to whether they pass validateKY / validatePO.  The server    *)
(* state is whether the user is enrolled and whether the coach approved.  *)
(* After the user goes back, state updates are lost (the component is      *)
(* unmounted) but navigation and location changes still happen.           *)
(***************************************************************************)
EXTENDS Naturals, Bags

CONSTANTS
    NULL,         \* an absent field of the competition
    MaxClicks     \* bound on the user's clicks

Roles == {"player", "coach", "both", "referee"}

IsPlayer(r) == r \in {"player", "both"}
IsCoach(r) == r \in {"coach", "both"}

-----------------------------------------------------------------------------
(* registrationOpenBase: the first field the competition carries decides: *)
(* registration_open_effective (or registration_open), the admin's manual *)
(* switch, can_register, an open status; else the registration window of *)
(* today (or the registration_open flag when the dates are missing).      *)
OpenFields ==
    [regOpenEff : {TRUE, FALSE, NULL}, regManual : {TRUE, FALSE, NULL},
     canRegister : {TRUE, FALSE, NULL}, statusOpen : BOOLEAN, inWindow : BOOLEAN]

RegistrationOpenBase(c) ==
    CASE c.regOpenEff # NULL  -> c.regOpenEff
      [] c.regManual # NULL   -> c.regManual
      [] c.canRegister # NULL -> c.canRegister
      [] c.statusOpen         -> TRUE
      [] OTHER                -> c.inWindow

(* eligibility: user_eligible_self when the competition sends it; else    *)
(* the player's gender and belt against the competition's gender (a      *)
(* gendered competition, or "both") and its allowed belts (when listed).  *)
(* A belt or gender is "same"/"allowed", "other", or "none" (absent).      *)
Belts == {"none", "allowed", "other"}

EligFields ==
    [selfFlag : {TRUE, FALSE, NULL}, gendered : BOOLEAN, beltsListed : BOOLEAN,
     player : [gender : {"same", "other", "none"}, belt : Belts]]

\* extractPlayerFromCompOrForm: the form's locked profile first, when it
\* names a belt; normalizeLockedProfile keeps no gender.  Else the
\* competition's own profile of the user.
Player(e, belt) ==
    IF belt # "none" THEN [gender |-> "none", belt |-> belt] ELSE e.player

\* eligibility.ok: TRUE, FALSE, or NULL when nothing is known.
Eligibility(e, belt) ==
    IF e.selfFlag # NULL THEN e.selfFlag
    ELSE LET p == Player(e, belt) IN
         IF p.gender = "none" /\ p.belt = "none" THEN NULL
         ELSE /\ ~e.gendered \/ p.gender = "same"
              /\ ~e.beltsListed \/ p.belt = "allowed"

\* mergeLockedProfiles: a belt of the new profile replaces the old one.
MergeBelt(old, new) == IF new = "none" THEN old ELSE new

VARIABLES
    role,       \* role of the route or user_role
    disc,       \* "ky" or "po": inferDiscipline of the competition
    openBase,   \* registrationOpenBase of the competition
    elig,       \* eligibility.ok as a function of the form's locked belt
    token,      \* a coach token is in localStorage
    enrolled,   \* the server holds the user's enrollment
    approved,   \* the server holds the coach's approval
    page,       \* "loading", "failed", "shown", "left", "bank", "card"
    reg,        \* the form: [open, loading, can (can_register), valid, belt (locked)]
    card,       \* cardInfo: [checked, loading, show (canShow)]
    modal,      \* codeModal: [open, loading, approved, code, error]
    pending,    \* bag of the requests in flight
    clicks

vars == <<role, disc, openBase, elig, token, enrolled, approved, page, reg, card,
          modal, pending, clicks>>

Send(k) == pending (+) SetToBag({k})
Answered(k) == pending (-) SetToBag({k})

\* A state update of a handler after its await: lost once the page is left.
Mounted == page = "shown"

User ==
    /\ page = "shown"
    /\ clicks < MaxClicks
    /\ clicks' = clicks + 1

Init ==
    /\ role \in Roles
    /\ disc \in {"ky", "po"}
    /\ openBase \in {RegistrationOpenBase(c) : c \in OpenFields}
    /\ elig \in {[b \in Belts |-> Eligibility(e, b)] : e \in EligFields}
    /\ token \in BOOLEAN
    /\ enrolled \in BOOLEAN
    /\ approved \in BOOLEAN
    /\ page = "loading"
    /\ reg = [open |-> FALSE, loading |-> FALSE, can |-> FALSE, valid |-> FALSE,
              belt |-> "none"]
    /\ card = [checked |-> FALSE, loading |-> FALSE, show |-> FALSE]
    /\ modal = [open |-> FALSE, loading |-> TRUE, approved |-> FALSE,
                code |-> FALSE, error |-> FALSE]
    /\ pending = EmptyBag
    /\ clicks = 0

\* getCompetitionDetail answers; with the competition the card effect runs:
\* for a player it starts the enrollment check, for others it is checked.
Load ==
    /\ page = "loading"
    /\ \/ /\ page' = "failed"
          /\ UNCHANGED <<card, pending>>
       \/ /\ page' = "shown"
          /\ IF IsPlayer(role)
             THEN /\ card' = [checked |-> FALSE, loading |-> TRUE, show |-> FALSE]
                  /\ pending' = Send("card")
             ELSE /\ card' = [checked |-> TRUE, loading |-> FALSE, show |-> FALSE]
                  /\ UNCHANGED pending
    /\ UNCHANGED <<role, disc, openBase, elig, token, enrolled, approved, reg, modal, clicks>>

\* getMyEnrollment / getMyPoomsaeEnrollments answers: canShow when an
\* enrollment id came back; the catch clears it.
CardAnswer(ok) == [checked |-> TRUE, loading |-> FALSE, show |-> ok /\ enrolled]

CardCheck ==
    /\ BagIn("card", pending)
    /\ pending' = Answered("card")
    /\ \E ok \in BOOLEAN : card' = IF Mounted THEN CardAnswer(ok) ELSE card
    /\ UNCHANGED <<role, disc, openBase, elig, token, enrolled, approved, page, reg,
                   modal, clicks>>

\* onOpenCoachCode: without a token on a kyorugi page the user is sent to
\* the dashboard; otherwise the dialog opens loading and the status is asked.
OpenCoachCode ==
    /\ User
    /\ IsCoach(role)
    /\ IF disc = "ky" /\ ~token
       THEN /\ page' = "left"
            /\ UNCHANGED <<modal, pending>>
       ELSE /\ modal' = [open |-> TRUE, loading |-> TRUE, approved |-> FALSE,
                         code |-> FALSE, error |-> FALSE]
            /\ pending' = Send("status")
            /\ UNCHANGED page
    /\ UNCHANGED <<role, disc, openBase, elig, token, enrolled, approved, reg, card>>

\* The status answers: the dialog is set open with the code and approval
\* read, or with the error.
StatusAnswer ==
    /\ BagIn("status", pending)
    /\ pending' = Answered("status")
    /\ \E ok \in BOOLEAN :
         modal' = IF ~Mounted THEN modal
                  ELSE [open |-> TRUE, loading |-> FALSE, approved |-> ok /\ approved,
                        code |-> ok /\ approved, error |-> ~ok]
    /\ UNCHANGED <<role, disc, openBase, elig, token, enrolled, approved, page, reg,
                   card, clicks>>

\* The backdrop or the close button.
CloseModal ==
    /\ User
    /\ modal.open
    /\ modal' = [modal EXCEPT !.open = FALSE]
    /\ UNCHANGED <<role, disc, openBase, elig, token, enrolled, approved, page, reg,
                   card, pending>>

\* "Get code", shown while no code is approved: approveAndGetCode.
Approve ==
    /\ User
    /\ modal.open /\ ~modal.loading /\ ~modal.error
    /\ ~(modal.approved /\ modal.code)
    /\ modal' = [modal EXCEPT !.loading = TRUE, !.error = FALSE]
    /\ pending' = Send("approve")
    /\ UNCHANGED <<role, disc, openBase, elig, token, enrolled, approved, page, reg, card>>

\* The approval answers: the server records it and the dialog is set open
\* with the code; on an error only loading and the error change.
ApproveAnswer ==
    /\ BagIn("approve", pending)
    /\ pending' = Answered("approve")
    /\ \E ok \in BOOLEAN :
         /\ approved' = (approved \/ ok)
         /\ modal' = CASE ~Mounted -> modal
                       [] ok -> [open |-> TRUE, loading |-> FALSE, approved |-> TRUE,
                                 code |-> TRUE, error |-> FALSE]
                       [] OTHER -> [modal EXCEPT !.loading = FALSE, !.error = TRUE]
    /\ UNCHANGED <<role, disc, openBase, elig, token, enrolled, page, reg, card, clicks>>

\* The self-registration button's canClickSelf.
CanClickSelf == openBase = TRUE /\ elig[reg.belt] = TRUE

\* "Register myself": openRegisterForm / openRegisterFormPoomsae, whose
\* guard is canClickSelf again.
OpenForm ==
    /\ User
    /\ CanClickSelf
    /\ reg' = [reg EXCEPT !.open = TRUE, !.loading = TRUE]
    /\ pending' = Send("prefill")
    /\ UNCHANGED <<role, disc, openBase, elig, token, enrolled, approved, page, card, modal>>

\* getRegisterSelfPrefill answers: can_register, the locked profile
\* (merged into the form's) and the suggested weight and insurance (which
\* may or may not pass validation) replace the form's; on an error only
\* loading changes.
PrefillKY(r, ok) ==
    IF ok THEN {[r EXCEPT !.loading = FALSE, !.can = c, !.valid = v,
                          !.belt = MergeBelt(r.belt, b)] : c, v \in BOOLEAN, b \in Belts}
          ELSE {[r EXCEPT !.loading = FALSE]}

\* buildPoomsaePrefill answers: the suggested insurance fields are empty,
\* so the form no longer validates; its catch takes can_register and the
\* locked profile (lockedFromCompetition) from the competition and keeps
\* the fields.  Either way a profile is merged into the form's.
PrefillPO(r, ok) ==
    {[r EXCEPT !.loading = FALSE, !.can = c, !.valid = (~ok /\ r.valid),
               !.belt = MergeBelt(r.belt, b)] : c \in BOOLEAN, b \in Belts}

PrefillAnswer ==
    /\ BagIn("prefill", pending)
    /\ pending' = Answered("prefill")
    /\ \E ok \in BOOLEAN :
         reg' \in IF ~Mounted THEN {reg}
                  ELSE IF disc = "ky" THEN PrefillKY(reg, ok) ELSE PrefillPO(reg, ok)
    /\ UNCHANGED <<role, disc, openBase, elig, token, enrolled, approved, page, card,
                   modal, clicks>>

\* Typing in the form: the fields pass validation or stop passing it.
Edit ==
    /\ User
    /\ reg.open
    /\ reg' = [reg EXCEPT !.valid = ~@]
    /\ UNCHANGED <<role, disc, openBase, elig, token, enrolled, approved, page, card,
                   modal, pending>>

\* "Cancel", disabled while loading.
Cancel ==
    /\ User
    /\ reg.open /\ ~reg.loading
    /\ reg' = [reg EXCEPT !.open = FALSE]
    /\ UNCHANGED <<role, disc, openBase, elig, token, enrolled, approved, page, card,
                   modal, pending>>

\* submitRegister / submitRegisterPoomsae up to the request; the submit
\* button is disabled while loading or without can_register.  Errors of
\* validation are shown and nothing is sent; an issue date that
\* jalaliInputToISO cannot convert sets loading and clears it at once.
Submit ==
    /\ User
    /\ reg.open /\ ~reg.loading /\ reg.can
    /\ IF reg.valid
       THEN \/ /\ reg' = [reg EXCEPT !.loading = TRUE]
               /\ pending' = Send("register")
            \/ UNCHANGED <<reg, pending>>
       ELSE UNCHANGED <<reg, pending>>
    /\ UNCHANGED <<role, disc, openBase, elig, token, enrolled, approved, page, card, modal>>

\* Mutant: a branch that ends the request forgets to clear loading.
SettleKeep(r) == r

\* The branches that show an error or an alert and stay on the form.
Settle(r) == [r EXCEPT !.loading = FALSE]

\* The registration is done: the form closes, cardInfo takes the id, and
\* with an id the card page opens (navigate runs even after leaving).
Finish(eid) ==
    /\ reg' = IF Mounted THEN [reg EXCEPT !.loading = FALSE, !.open = FALSE] ELSE reg
    /\ card' = IF Mounted THEN [checked |-> TRUE, loading |-> FALSE, show |-> eid] ELSE card
    /\ page' = IF eid THEN "card" ELSE page

\* What the registration request can return.
Outcomes == {"error", "payError", "payUrl", "payNoUrl", "eid", "noEid"}

\* The registration answers.  The server enrolls the user unless it
\* answers an error.  A payment URL sends the browser to the bank; a
\* kyorugi answer with an id finishes; otherwise the enrollments are asked
\* (always for poomsae, for kyorugi when no id came back).
RegisterAnswer ==
    /\ BagIn("register", pending)
    /\ \E out \in Outcomes :
         /\ enrolled' = (enrolled \/ out # "error")
         /\ CASE out \in {"error", "payError", "payNoUrl"} ->
                   /\ reg' = IF Mounted THEN Settle(reg) ELSE reg
                   /\ pending' = Answered("register")
                   /\ UNCHANGED <<page, card>>
              [] out = "payUrl" ->
                   /\ page' = "bank"
                   /\ pending' = Answered("register")
                   /\ UNCHANGED <<reg, card>>
              [] out = "eid" /\ disc = "ky" ->
                   /\ Finish(TRUE)
                   /\ pending' = Answered("register")
              [] OTHER ->
                   /\ pending' = Answered("register") (+)
                                 SetToBag({IF out = "eid" THEN "fbEid" ELSE "fbNoEid"})
                   /\ UNCHANGED <<reg, card, page>>
    /\ UNCHANGED <<role, disc, openBase, elig, token, approved, modal, clicks>>

\* getMyEnrollment / getMyPoomsaeEnrollments after the registration: the
\* id of the answer, else the one found, else none (its failure is logged).
FallbackAnswer ==
    /\ \E k \in {"fbEid", "fbNoEid"} :
         /\ BagIn(k, pending)
         /\ pending' = Answered(k)
         /\ \E ok \in BOOLEAN : Finish(k = "fbEid" \/ (ok /\ enrolled))
    /\ UNCHANGED <<role, disc, openBase, elig, token, enrolled, approved, modal, clicks>>

\* "Back" to the dashboard list.
Back ==
    /\ User
    /\ page' = "left"
    /\ UNCHANGED <<role, disc, openBase, elig, token, enrolled, approved, reg, card,
                   modal, pending>>

\* The server answers every request.
Answer ==
    CardCheck \/ StatusAnswer \/ ApproveAnswer \/ PrefillAnswer \/
    RegisterAnswer \/ FallbackAnswer

Next ==
    \/ Load
    \/ Answer
    \/ OpenCoachCode \/ CloseModal \/ Approve
    \/ OpenForm \/ Edit \/ Cancel \/ Submit
    \/ Back

Spec ==
    /\ Init /\ [][Next]_vars
    /\ WF_vars(Load)
    /\ WF_vars(CardCheck) /\ WF_vars(StatusAnswer) /\ WF_vars(ApproveAnswer)
    /\ WF_vars(PrefillAnswer) /\ WF_vars(RegisterAnswer) /\ WF_vars(FallbackAnswer)

-----------------------------------------------------------------------------
TypeOK ==
    /\ role \in Roles
    /\ disc \in {"ky", "po"}
    /\ {openBase, token, enrolled, approved} \subseteq BOOLEAN
    /\ elig \in [Belts -> {TRUE, FALSE, NULL}]
    /\ page \in {"loading", "failed", "shown", "left", "bank", "card"}
    /\ reg \in [open : BOOLEAN, loading : BOOLEAN, can : BOOLEAN, valid : BOOLEAN,
                belt : Belts]
    /\ card \in [checked : BOOLEAN, loading : BOOLEAN, show : BOOLEAN]
    /\ modal \in [open : BOOLEAN, loading : BOOLEAN, approved : BOOLEAN,
                  code : BOOLEAN, error : BOOLEAN]
    /\ IsABag(pending)
    /\ BagToSet(pending) \subseteq
         {"card", "status", "approve", "prefill", "register", "fbEid", "fbNoEid"}
    /\ clicks \in 0..MaxClicks

\* A spinner the user sees ends: every request of the form ends with the
\* form usable again, closed, or the page left for the bank or the card.
SpinnersEnd ==
    (Mounted /\ reg.loading) ~> (~reg.loading \/ ~Mounted)
=============================================================================
