---------------------------- MODULE PlayerSignup ----------------------------
(***************************************************************************)
(* Self registration of a player, from the register button of the home    *)
(* page to the registration request:                                       *)
(*   - userpanel.js opens RegisterModal.jsx for the role;                   *)
(*   - the modal sends the phone (send-code), counts the cool-down down,    *)
(*     verifies the four-digit code (verify-code), keeps the phone in      *)
(*     localStorage.verifiedPhone and navigates to /register-player;       *)
(*   - RegisterplayerPage.jsx takes the phone into its form at mount and   *)
(*     walks steps one to three; step three (StepThreePlayer.jsx) loads the *)
(*     boards, clubs and all coaches of the gender (form-data) and, for the *)
(*     chosen club, the coaches of that club; its submit validates and the  *)
(*     page posts register-player.                                         *)
(* Every request is answered in any order, or never; an answer of a        *)
(* component that is no longer mounted changes nothing, except that the    *)
(* verify answer still writes localStorage and navigates.                  *)
(*                                                                         *)
(* Steps one and two (StepOnePlayer, StepTwoPlayer) are not in the         *)
(* repository: their "next" is taken to leave the gender chosen, which     *)
(* step three's effects need.  The phone, the code and the fields other    *)
(* than club and coach are abstracted: `rest` says that every other field  *)
(* validate checks is filled.                                              *)
(***************************************************************************)
EXTENDS Naturals, Sequences, SequencesExt

CONSTANTS
    NULL,         \* an empty select ("")
    Clubs,        \* the clubs of the gender, model values
    Timer,        \* the cool-down in ticks (180 seconds in the code)
    MaxSends,     \* bound on send-code, and on verify-code, requests in flight
    MaxEdits,     \* bound on the club and coach choices
    MaxSubmits    \* bound on submit clicks

\* A coach is identified with the club it belongs to (one coach per club).
Coaches == Clubs \X {1}
ClubOf(x) == x[1]
CoachesOf(c) == {x \in Coaches : ClubOf(x) = c}

VARIABLES
    at,           \* the route: "home" or "page" (/register-player)
    modal,        \* showRegisterModal of userpanel
    mstep,        \* the modal's step: 1 phone, 2 code
    cooldown,     \* cooldownActive
    timer,        \* timer
    sending,      \* send-code requests in flight
    verifying,    \* verify-code requests in flight
    verified,     \* localStorage.verifiedPhone is set
    wstep,        \* the page's step: 1..3
    done,         \* the page shows its success modal
    formPhone,    \* formData.phone is not empty
    data,         \* formData: [club, coach, rest]
    clubsLoaded,  \* step three's clubs list has been filled
    coaches,      \* step three's coaches list
    formPending,  \* step three's form-data request is in flight
    clubReqs,     \* step three's coaches?club= requests in flight
    submitting,   \* register-player requests in flight
    sent,         \* the <<club, coach>> of every register-player request
    edits,        \* club and coach choices made
    submits       \* submit clicks

modalVars == <<modal, mstep, cooldown, timer, sending, verifying>>
pageVars  == <<wstep, done, formPhone, data, clubsLoaded, coaches,
               formPending, clubReqs, submitting, sent, edits, submits>>
vars == <<at, verified, modalVars, pageVars>>

Init ==
    /\ at = "home"
    /\ modal = FALSE /\ mstep = 1 /\ cooldown = FALSE /\ timer = 0
    /\ sending = 0 /\ verifying = 0
    /\ verified = FALSE
    /\ wstep = 1 /\ done = FALSE /\ formPhone = FALSE
    /\ data = [club |-> NULL, coach |-> NULL, rest |-> FALSE]
    /\ clubsLoaded = FALSE /\ coaches = {} /\ formPending = FALSE
    /\ clubReqs = <<>> /\ submitting = 0 /\ sent = {}
    /\ edits = 0 /\ submits = 0

-----------------------------------------------------------------------------
(* userpanel.js and RegisterModal.jsx *)

\* handleRegisterClick: the modal mounts with fresh state (the verify
\* requests of an earlier modal still run).
OpenRegister ==
    /\ at = "home" /\ ~modal
    /\ modal' = TRUE /\ mstep' = 1 /\ cooldown' = FALSE /\ timer' = 0
    /\ sending' = 0
    /\ UNCHANGED <<at, verified, verifying, pageVars>>

\* onClose: the modal unmounts; its answers in flight change no state.
CloseRegister ==
    /\ modal
    /\ modal' = FALSE /\ sending' = 0
    /\ UNCHANGED <<at, verified, mstep, cooldown, timer, verifying, pageVars>>

\* sendPhone (and resendCode, which adds the same cooldown check): the
\* button is disabled during the cool-down, but not while a send is in
\* flight.
SendPhone ==
    /\ modal /\ ~cooldown
    /\ sending < MaxSends
    /\ sending' = sending + 1
    /\ UNCHANGED <<at, verified, modal, mstep, cooldown, timer, verifying, pageVars>>

\* The send-code answer: ok starts the 180 s cool-down on step 2; an error
\* with retry_after does the same with the server's wait; another error
\* only shows a message.
SendAnswer ==
    /\ modal /\ sending > 0
    /\ sending' = sending - 1
    /\ \/ /\ \E t \in 1..Timer :
               mstep' = 2 /\ timer' = t /\ cooldown' = TRUE
       \/ UNCHANGED <<mstep, timer, cooldown>>
    /\ UNCHANGED <<at, verified, modal, verifying, pageVars>>

\* The countdown effect: every second while cooling down, and the end of
\* the cool-down when the timer reaches 0.
Tick ==
    /\ modal /\ cooldown /\ timer > 0
    /\ timer' = timer - 1
    /\ UNCHANGED <<at, verified, modal, mstep, cooldown, sending, verifying, pageVars>>

CooldownEnd ==
    /\ modal /\ cooldown /\ timer = 0
    /\ cooldown' = FALSE
    /\ UNCHANGED <<at, verified, modal, mstep, timer, sending, verifying, pageVars>>

\* handleCodeChange: the fourth digit typed calls verifyCode.
VerifyCode ==
    /\ modal /\ mstep = 2
    /\ verifying < MaxSends
    /\ verifying' = verifying + 1
    /\ UNCHANGED <<at, verified, modal, mstep, cooldown, timer, sending, pageVars>>

\* The page mounts: formData.phone from localStorage (location.state has
\* no phone), the form empty on step one.
MountPage ==
    /\ wstep' = 1 /\ done' = FALSE /\ formPhone' = verified'
    /\ data' = [club |-> NULL, coach |-> NULL, rest |-> FALSE]
    /\ clubsLoaded' = FALSE /\ coaches' = {} /\ formPending' = FALSE
    /\ clubReqs' = <<>> /\ submitting' = 0
    /\ UNCHANGED <<sent, edits, submits>>

\* The verify-code answer: with a message, localStorage.verifiedPhone is
\* set and the app navigates to /register-player even when the modal has
\* been closed; otherwise the code is cleared.  A navigation to the page
\* already shown keeps the page mounted.
VerifyAnswer ==
    /\ verifying > 0
    /\ verifying' = verifying - 1
    /\ \/ /\ verified' = TRUE
          /\ at' = "page"
          /\ modal' = FALSE
          /\ IF at = "home" THEN MountPage ELSE UNCHANGED pageVars
       \/ UNCHANGED <<at, verified, modal, pageVars>>
    /\ UNCHANGED <<mstep, cooldown, timer, sending>>

-----------------------------------------------------------------------------
(* RegisterplayerPage.jsx and StepThreePlayer.jsx *)

\* Step three mounts with empty lists and runs its two effects in order:
\* form-data for the gender, then the coaches of the chosen club or, with
\* no club, an empty list and an empty coach.
MountStepThree ==
    /\ wstep' = 3
    /\ clubsLoaded' = FALSE
    /\ formPending' = TRUE
    /\ IF data.club = NULL
       THEN /\ coaches' = {} /\ data' = [data EXCEPT !.coach = NULL]
            /\ UNCHANGED clubReqs
       ELSE /\ coaches' = {} /\ clubReqs' = Append(clubReqs, data.club)
            /\ UNCHANGED data

\* onNext of steps one and two.
NextStep ==
    /\ at = "page" /\ ~done /\ wstep < 3
    /\ IF wstep = 2 THEN MountStepThree
       ELSE /\ wstep' = 2
            /\ UNCHANGED <<data, clubsLoaded, coaches, formPending, clubReqs>>
    /\ UNCHANGED <<at, verified, modalVars, done, formPhone, submitting,
                   sent, edits, submits>>

\* onBack: step three unmounts and its requests in flight are forgotten.
BackStep ==
    /\ at = "page" /\ ~done /\ wstep > 1
    /\ wstep' = wstep - 1
    /\ IF wstep = 3 THEN formPending' = FALSE /\ clubReqs' = <<>>
                    ELSE UNCHANGED <<formPending, clubReqs>>
    /\ UNCHANGED <<at, verified, modalVars, done, formPhone, data, clubsLoaded,
                   coaches, submitting, sent, edits, submits>>

\* The form-data answer: the clubs and every coach of the gender.
FormDataAnswer ==
    /\ formPending
    /\ formPending' = FALSE
    /\ \/ clubsLoaded' = TRUE /\ coaches' = Coaches
       \/ UNCHANGED <<clubsLoaded, coaches>>
    /\ UNCHANGED <<at, verified, modalVars, wstep, done, formPhone, data,
                   clubReqs, submitting, sent, edits, submits>>

\* The answer to any coaches?club= request: that club's coaches, or [] on
\* an error.
ClubCoachesAnswer ==
    \E i \in 1..Len(clubReqs) :
        /\ clubReqs' = RemoveAt(clubReqs, i)
        /\ coaches' \in {CoachesOf(clubReqs[i]), {}}
        /\ UNCHANGED <<at, verified, modalVars, wstep, done, formPhone, data,
                       clubsLoaded, formPending, submitting, sent, edits, submits>>

\* handleChange of the club select: the club is written, and the club
\* effect runs; the coach already chosen is kept.
ChooseClub ==
    /\ at = "page" /\ ~done /\ wstep = 3 /\ edits < MaxEdits
    /\ \E c \in (IF clubsLoaded THEN Clubs ELSE {}) \cup {NULL} :
         /\ c # data.club
         /\ IF c = NULL
            THEN /\ data' = [data EXCEPT !.club = NULL, !.coach = NULL]
                 /\ coaches' = {}
                 /\ UNCHANGED clubReqs
            ELSE /\ data' = [data EXCEPT !.club = c]
                 /\ clubReqs' = Append(clubReqs, c)
                 /\ UNCHANGED coaches
    /\ edits' = edits + 1
    /\ UNCHANGED <<at, verified, modalVars, wstep, done, formPhone, clubsLoaded,
                   formPending, submitting, sent, submits>>

\* handleChange of the coach select, enabled when the list is not empty.
ChooseCoach ==
    /\ at = "page" /\ ~done /\ wstep = 3 /\ edits < MaxEdits
    /\ coaches # {}
    /\ \E x \in coaches \cup {NULL} :
         /\ x # data.coach
         /\ data' = [data EXCEPT !.coach = x]
    /\ edits' = edits + 1
    /\ UNCHANGED <<at, verified, modalVars, wstep, done, formPhone, clubsLoaded,
                   coaches, formPending, clubReqs, submitting, sent, submits>>

\* handleChange of the other fields: all of them filled.
FillRest ==
    /\ at = "page" /\ ~done /\ wstep = 3 /\ ~data.rest
    /\ data' = [data EXCEPT !.rest = TRUE]
    /\ UNCHANGED <<at, verified, modalVars, wstep, done, formPhone, clubsLoaded,
                   coaches, formPending, clubReqs, submitting, sent, edits, submits>>

\* validate of step three.
Valid == data.club # NULL /\ data.coach # NULL /\ data.rest

\* handleSubmit: a valid form posts register-player with formData; there
\* is no guard against a request in flight.  An invalid one shows an error.
Submit ==
    /\ at = "page" /\ ~done /\ wstep = 3 /\ submits < MaxSubmits
    /\ submits' = submits + 1
    /\ IF Valid
       THEN /\ submitting' = submitting + 1
            /\ sent' = sent \cup {<<data.club, data.coach>>}
       ELSE UNCHANGED <<submitting, sent>>
    /\ UNCHANGED <<at, verified, modalVars, wstep, done, formPhone, data,
                   clubsLoaded, coaches, formPending, clubReqs, edits>>

\* The register-player answer: status ok shows the success modal and
\* removes verifiedPhone; anything else is an alert.
SubmitAnswer ==
    /\ submitting > 0
    /\ submitting' = submitting - 1
    /\ \/ done' = TRUE /\ verified' = FALSE
       \/ UNCHANGED <<done, verified>>
    /\ UNCHANGED <<at, modalVars, wstep, formPhone, data, clubsLoaded, coaches,
                   formPending, clubReqs, sent, edits, submits>>

\* The success modal's close: window.location.href = '/' reloads the app
\* on the home page; requests in flight are dropped, localStorage stays.
CloseSuccess ==
    /\ at = "page" /\ done
    /\ at' = "home" /\ verifying' = 0 /\ submitting' = 0
    /\ UNCHANGED <<verified, modal, mstep, cooldown, timer, sending, wstep, done,
                   formPhone, data, clubsLoaded, coaches, formPending, clubReqs,
                   sent, edits, submits>>

Next ==
    \/ OpenRegister \/ CloseRegister \/ SendPhone \/ SendAnswer
    \/ Tick \/ CooldownEnd \/ VerifyCode \/ VerifyAnswer
    \/ NextStep \/ BackStep \/ FormDataAnswer \/ ClubCoachesAnswer
    \/ ChooseClub \/ ChooseCoach \/ FillRest \/ Submit \/ SubmitAnswer
    \/ CloseSuccess

Spec == Init /\ [][Next]_vars

-----------------------------------------------------------------------------
\* Every register-player request names a coach of the club it names: step
\* three offers the coaches of the chosen club, and a player is registered
\* under a club and a coach of it.
CoachOfClub == \A r \in sent : ClubOf(r[2]) = r[1]
=============================================================================
