----------------------------- MODULE PoomsaeTeam -----------------------------
(***************************************************************************)
(* The coach's poomsae team registration page (PoomsaeTeamRegister.jsx):  *)
(* the competition and the coach's students load; the coach builds teams  *)
(* (a style, standard or creative, members and their insurance) and       *)
(* submits.  handleSubmit validates, registers the teams one by one        *)
(* (registerPoomsaeTeams), and then either follows a payment_url the       *)
(* backend gave, opens the cards of a free registration, or creates a     *)
(* payment intent (createPaymentIntent) and starts it (startPaymentIntent) *)
(* with a callback to /payment/result carrying the enrollment ids.         *)
(*                                                                         *)
(* registerPoomsaeTeams is a tryFirst call; the tryfirst run shows that   *)
(* tryFirst implements a single fetch of its endpoint (FetchOnce), so each *)
(* team's registration is one request here.  A team is abstracted to its  *)
(* style, whether its own checks pass (name, every member's insurance, one *)
(* age and belt category), its set of members and the members of its main *)
(* slots (the member select disables players already in the team); the    *)
(* slots' positions are left out.  Inputs                                 *)
(* stay enabled while a submission runs; the handler's later steps use    *)
(* the teams and the summary of the render that started it.  After the    *)
(* page is left its state updates are lost, but the handler goes on and   *)
(* its navigations and redirects still happen.                            *)
(***************************************************************************)
EXTENDS Naturals, Sequences, FiniteSets, FiniteSetsExt

CONSTANTS
    Players,      \* the coach's students (model values)
    MaxTeams,     \* bound on the teams of the form
    MaxEdits,     \* bound on the coach's inputs
    MaxSubs,      \* bound on the submissions
    NULL

\* SLOTS_BY_TYPE: the styles a team can take ("" before one is chosen).
Styles == {"standard", "creative"}

\* Slots of a style: SLOTS_BY_TYPE, and none for "" ({main: 0, reserve: 0}).
MainSlots(ty) == CASE ty = "standard" -> 3 [] ty = "creative" -> 2 [] OTHER -> 0
ReserveSlots(ty) == CASE ty = "standard" -> 2 [] ty = "creative" -> 1 [] OTHER -> 0

VARIABLES
    tpage,        \* "loading", "missing", "form", "left", "bank", "cards"
    comp,         \* the competition: [open, pub (public_id), fee (entry fee > 0)]
    teams,        \* the form's teams: [type, ok, members, mains]
    submitting,
    job,          \* the running handleSubmit, or NULL
    srv,          \* registrations the server holds: [sub, idx, size]
    intent,       \* the payment intent created: [sub, amount], or NULL
    redirect,     \* the bank redirect: [eids (ids were returned), ids (the
                  \* callback carries them), viaUrl (a backend payment_url)]
    subs,         \* submissions started
    edits

tvars == <<tpage, comp, teams, submitting, job, srv, intent, redirect, subs, edits>>

\* registrationOpen: the first flag the competition carries decides
\* (registration_open_effective, registration_open, can_register,
\* canRegister); else today within the registration dates; else open.
OpenFields == [flag : {TRUE, FALSE, NULL}, dates : BOOLEAN, inWindow : BOOLEAN]

RegistrationOpen(c) ==
    CASE c.flag # NULL -> c.flag
      [] c.dates       -> c.inWindow
      [] OTHER         -> TRUE

EmptyTeam == [type |-> "", ok |-> FALSE, members |-> {}, mains |-> {}]

\* summary.totalSlots: the members of the teams that have a style.
TotalSlots(ts) ==
    MapThenSumSet(LAMBDA i : Cardinality(ts[i].members),
                  {i \in DOMAIN ts : ts[i].type # ""})

\* summary.totalAmount = entryFee * totalSlots.
TotalAmount(ts, c) == (IF c.fee THEN 1 ELSE 0) * TotalSlots(ts)

\* validateTeams: every team has a style, every main slot filled (so some
\* main member) and passes its other checks, and no player is in two teams
\* of the same style.
ValidTeams(ts) ==
    /\ \A i \in DOMAIN ts : ts[i].type # "" /\ ts[i].mains # {} /\ ts[i].ok
    /\ \A i, j \in DOMAIN ts :
          (i # j /\ ts[i].type = ts[j].type) => ts[i].members \cap ts[j].members = {}

\* canSubmit (the submit button, also disabled while submitting).
CanSubmit ==
    /\ comp.open
    /\ \E i \in DOMAIN teams : teams[i].type # "" /\ teams[i].mains # {}
    /\ TotalSlots(teams) > 0

Mounted == tpage = "form"

\* The form's inputs, all disabled while registration is closed.
Input ==
    /\ Mounted
    /\ comp.open
    /\ edits < MaxEdits
    /\ edits' = edits + 1
    /\ UNCHANGED <<tpage, comp, submitting, job, srv, intent, redirect, subs>>

Init ==
    /\ tpage = "loading"
    /\ comp = NULL
    /\ teams = <<EmptyTeam>>
    /\ submitting = FALSE
    /\ job = NULL
    /\ srv = {}
    /\ intent = NULL
    /\ redirect = NULL
    /\ subs = 0
    /\ edits = 0

\* getEligibleStudentsForCoach answers with the competition and the
\* students, or fails (the page then shows that no competition was found).
Load ==
    /\ tpage = "loading"
    /\ \/ /\ tpage' = "missing"
          /\ UNCHANGED comp
       \/ /\ tpage' = "form"
          /\ comp' \in {[open |-> RegistrationOpen(c), pub |-> p, fee |-> f] :
                          c \in OpenFields, p \in BOOLEAN, f \in BOOLEAN}
    /\ UNCHANGED <<teams, submitting, job, srv, intent, redirect, subs, edits>>

\* slice(0, new) of a kind's old slots holding the members x: all of them
\* when the new style has as many slots; else the old slots past the new
\* ones are cut, and which members they held depends on their positions.
Kept(x, old, new) ==
    IF new >= old THEN {x}
    ELSE {y \in SUBSET x : Cardinality(y) <= new /\ Cardinality(x \ y) <= old - new}

\* handleTypeChange: the main and reserve slots are cut to the new style's
\* and padded with empty ones; the empty style has no slots.
Reshape(t, ty) ==
    {[members |-> mn \cup rs, mains |-> mn] :
        mn \in Kept(t.mains, MainSlots(t.type), MainSlots(ty)),
        rs \in Kept(t.members \ t.mains, ReserveSlots(t.type), ReserveSlots(ty))}

SetType(i, ty) ==
    /\ Input
    /\ \E r \in Reshape(teams[i], ty), ok \in BOOLEAN :
          teams' = [teams EXCEPT ![i] = [type |-> ty, ok |-> ok,
                                         members |-> r.members, mains |-> r.mains]]

\* handleMemberChange: one main or reserve slot of a team with a style gets
\* another player (one not already in the team) or none.
SetMember(i) ==
    /\ Input
    /\ teams[i].type # ""
    /\ \E main \in BOOLEAN, ok \in BOOLEAN :
       LET kind == IF main THEN teams[i].mains ELSE teams[i].members \ teams[i].mains
       IN  \E out \in {{}} \cup {{q} : q \in kind},
              in \in {{}} \cup {{p} : p \in Players \ teams[i].members} :
              teams' = [teams EXCEPT ![i].members = (@ \ out) \cup in,
                                     ![i].mains = IF main THEN (@ \ out) \cup in
                                                  ELSE @ \ out,
                                     ![i].ok = ok]

\* The name and insurance inputs of a team: its own checks pass or stop
\* passing.
EditDetails(i) ==
    /\ Input
    /\ teams' = [teams EXCEPT ![i].ok = ~@]

AddTeam ==
    /\ Input
    /\ Len(teams) < MaxTeams
    /\ teams' = Append(teams, EmptyTeam)

\* Mutant: the guard lets the last team go (length < 1).
KeepsOneAny(ts) == Len(ts) >= 1

\* removeTeam (and its disabled button) keep at least one team.
KeepsOne(ts) == Len(ts) > 1

RemoveTeam(i) ==
    /\ Input
    /\ KeepsOne(teams)
    /\ teams' = [j \in 1..(Len(teams) - 1) |-> IF j < i THEN teams[j] ELSE teams[j + 1]]

-----------------------------------------------------------------------------
(* handleSubmit *)

\* Mutant: the finally's setSubmitting(false) is missing.
SettleKeepSubmitting == UNCHANGED submitting

\* The end of the handler: the finally clears submitting (lost once the
\* page is left).
Settle == submitting' = IF Mounted THEN FALSE ELSE submitting

\* handleSubmit up to its first await.  The button needs canSubmit; the
\* validation and the public_id check end it with an error; otherwise the
\* first team's registration is sent with the teams and the amount of
\* this render.
Submit ==
    /\ Mounted
    /\ ~submitting
    /\ CanSubmit
    /\ subs < MaxSubs
    /\ IF ValidTeams(teams) /\ comp.pub
       THEN /\ submitting' = TRUE
            /\ subs' = subs + 1
            /\ job' = [sub |-> subs + 1, ts |-> teams, k |-> 1, eids |-> FALSE,
                       stage |-> "register", amount |-> TotalAmount(teams, comp)]
       ELSE UNCHANGED <<submitting, subs, job>>
    /\ UNCHANGED <<tpage, comp, teams, srv, intent, redirect, edits>>

\* Mutant: the loop stops after the first team.
MoreTeamsFirstOnly(j) == FALSE

\* submitTeamsToBackend: another team follows.
MoreTeams(j) == j.k < Len(j.ts)

\* `if (eids.length) params.set("ids", ...)`
CallbackIds(eids) == eids

\* A team's registration answers.  An error ends the handler (the teams
\* registered before stay registered).  Otherwise the server holds the
\* team and the next team is sent; after the last one a payment_url (only
\* a single team's answer carries one) sends the browser to the bank, a
\* free registration opens the cards of the ids returned, and a paid one
\* creates the payment intent.
RegisterAnswer ==
    /\ job # NULL
    /\ job.stage = "register"
    /\ \E ok, ids, url \in BOOLEAN :
         IF ~ok
         THEN /\ job' = NULL
              /\ Settle
              /\ UNCHANGED <<tpage, srv, redirect>>
         ELSE
         LET j == [job EXCEPT !.eids = @ \/ ids] IN
         /\ srv' = srv \cup {[sub |-> job.sub, idx |-> job.k,
                              size |-> Cardinality(job.ts[job.k].members)]}
         /\ CASE MoreTeams(job) ->
                   /\ job' = [j EXCEPT !.k = @ + 1]
                   /\ UNCHANGED <<tpage, submitting, redirect>>
              [] url /\ Len(job.ts) = 1 ->
                   /\ tpage' = "bank"
                   /\ redirect' = [eids |-> j.eids, ids |-> FALSE, viaUrl |-> TRUE]
                   /\ job' = NULL
                   /\ Settle
              [] job.amount = 0 ->
                   /\ tpage' = IF j.eids THEN "cards" ELSE tpage
                   /\ job' = NULL
                   /\ Settle
                   /\ UNCHANGED redirect
              [] OTHER ->
                   /\ job' = [j EXCEPT !.stage = "intent"]
                   /\ UNCHANGED <<tpage, submitting, redirect>>
    /\ UNCHANGED <<comp, teams, intent, subs, edits>>

\* createPaymentIntent answers: the intent is created for the amount of
\* the summary (an answer without its id ends the handler), or it fails
\* (no token, a network error, an error status).
IntentAnswer ==
    /\ job # NULL
    /\ job.stage = "intent"
    /\ \E ok, hasId \in BOOLEAN :
         /\ intent' = IF ok THEN [sub |-> job.sub, amount |-> job.amount] ELSE intent
         /\ IF ok /\ hasId
            THEN /\ job' = [job EXCEPT !.stage = "start"]
                 /\ UNCHANGED submitting
            ELSE /\ job' = NULL
                 /\ Settle
    /\ UNCHANGED <<tpage, comp, teams, srv, redirect, subs, edits>>

\* startPaymentIntent answers: its redirect_url sends the browser to the
\* bank with the callback; without one, or on an error, the handler ends.
StartAnswer ==
    /\ job # NULL
    /\ job.stage = "start"
    /\ \E ok \in BOOLEAN :
         IF ok
         THEN /\ tpage' = "bank"
              /\ redirect' = [eids |-> job.eids, ids |-> CallbackIds(job.eids),
                             viaUrl |-> FALSE]
         ELSE UNCHANGED <<tpage, redirect>>
    /\ job' = NULL
    /\ Settle
    /\ UNCHANGED <<comp, teams, srv, intent, subs, edits>>

\* "Back" to the competition page.
Back ==
    /\ Mounted
    /\ tpage' = "left"
    /\ UNCHANGED <<comp, teams, submitting, job, srv, intent, redirect, subs, edits>>

TeamNext ==
    \/ Load
    \/ \E i \in 1..MaxTeams : i \in DOMAIN teams /\
          (\/ \E ty \in Styles \cup {""} : SetType(i, ty)
           \/ SetMember(i) \/ EditDetails(i) \/ RemoveTeam(i))
    \/ AddTeam
    \/ Submit
    \/ RegisterAnswer \/ IntentAnswer \/ StartAnswer
    \/ Back

\* The server answers every request.
TeamFairness ==
    /\ WF_tvars(Load)
    /\ WF_tvars(RegisterAnswer) /\ WF_tvars(IntentAnswer) /\ WF_tvars(StartAnswer)

TeamSpec == Init /\ [][TeamNext]_tvars /\ TeamFairness

-----------------------------------------------------------------------------
TeamTypeOK ==
    /\ tpage \in {"loading", "missing", "form", "left", "bank", "cards"}
    /\ comp \in {NULL} \cup [open : BOOLEAN, pub : BOOLEAN, fee : BOOLEAN]
    /\ \A i \in DOMAIN teams :
          /\ teams[i] \in [type : {""} \cup Styles, ok : BOOLEAN,
                           members : SUBSET Players, mains : SUBSET Players]
          /\ teams[i].mains \subseteq teams[i].members
    /\ Len(teams) \in 1..MaxTeams
    /\ submitting \in BOOLEAN
    /\ srv \subseteq [sub : Nat, idx : 1..MaxTeams, size : Nat]
    /\ intent \in {NULL} \cup [sub : Nat, amount : Nat]
    /\ redirect \in {NULL} \cup [eids : BOOLEAN, ids : BOOLEAN, viaUrl : BOOLEAN]
    /\ edits \in 0..MaxEdits
    /\ subs \in 0..MaxSubs

\* The payment intent asks for the entry fee of exactly the members the
\* server registered in that submission: every team was registered
\* before the intent, and the amount is the summary of the same teams,
\* however the coach edited the form while the requests ran.
IntentAmountIsRegistered ==
    intent # NULL =>
        intent.amount =
            (IF comp.fee THEN 1 ELSE 0) *
            MapThenSumSet(LAMBDA r : r.size, {r \in srv : r.sub = intent.sub})

\* The submit spinner ends: every request of the handler settles, and the
\* finally clears it, unless the page was left.
TeamSubmitSettles == submitting ~> (~submitting \/ ~Mounted)
=============================================================================
