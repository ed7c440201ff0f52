----------------------------- MODULE CoachSignup -----------------------------
(***************************************************************************)
(* The coach and referee registration wizard: RegisterCoachPage.jsx and   *)
(* its four steps under components/Register/stepscoach.  The page is       *)
(* reached after RegisterModal verified the phone (PlayerSignup models    *)
(* that modal); it keeps formData across the steps, and each step is a    *)
(* component mounted while it is shown, so a step's own state (the        *)
(* national-code flag of step one, the lists of step three) starts afresh *)
(* every time the user comes back to it.                                  *)
(*                                                                         *)
(* Step one checks the national code with the server when ten digits are  *)
(* typed; step three loads the boards, clubs and coaches of the gender    *)
(* (form-data) and lets the user tick up to three clubs and pick a coach  *)
(* or OtherCoach; step four asks for the grades of the chosen role.  The     *)
(* page posts register-coach and shows its answer in a modal whose close  *)
(* goes home only when the message contains the word for "success".       *)
(*                                                                         *)
(* Names, dates, addresses, the photo, belts and grades are abstracted to *)
(* whether each step's checks on them pass.  A club or a coach is a pair  *)
(* <<gender, i>>: form-data lists those of one gender.                    *)
(***************************************************************************)
EXTENDS Naturals, Sequences, SequencesExt, FiniteSets

CONSTANTS
    NULL,         \* an empty field ("")
    OtherCoach,        \* the coach option "other"
    Codes,        \* national codes typed, model values
    Registered,   \* the codes the server already holds
    NClubs,       \* clubs of each gender
    MaxEdits,     \* bound on the field changes
    MaxSubmits    \* bound on submit clicks

Genders == {"male", "female"}
Roles == {"coach", "referee", "both"}
ClubsOf(g) == {g} \X (1..NClubs)
CoachesOf(g) == {<<g, 0>>}

\* handleClubCheck: at most three clubs.
MaxSelectedClubs == 3

VARIABLES
    cstep,        \* the page's step, 1..4
    data,         \* formData: gender, code, clubs, coach, role, and per-step
                  \* flags for the fields abstracted
    codeExists,   \* step one's nationalCodeExists
    checks,       \* step one's check-national-code requests in flight
    listG,        \* the gender of step three's lists, NULL before form-data
    formReqs,     \* step three's form-data requests in flight
    submitting,   \* register-coach requests in flight
    modal,        \* the page's modal: "none", "error", "success", "successWord"
    home,         \* the modal's close went to '/'
    verified,     \* localStorage.verifiedPhone is set
    sent,         \* what every register-coach request named
    edits, submits

vars == <<cstep, data, codeExists, checks, listG, formReqs, submitting,
          modal, home, verified, sent, edits, submits>>

EmptyForm ==
    [gender |-> NULL, code |-> NULL, ok1 |-> FALSE, ok2 |-> FALSE,
     role |-> "coach", clubs |-> {}, coach |-> NULL, ok3 |-> FALSE,
     grade |-> FALSE, ref |-> FALSE, confirm |-> FALSE]

\* The page mounts on step one with the phone of the verification.
Init ==
    /\ cstep = 1 /\ data = EmptyForm
    /\ codeExists = FALSE /\ checks = <<>>
    /\ listG = NULL /\ formReqs = <<>>
    /\ submitting = 0 /\ modal = "none" /\ home = FALSE
    /\ verified = TRUE
    /\ sent = {} /\ edits = 0 /\ submits = 0

Open == modal = "none" /\ ~home

Edit(d) ==
    /\ edits < MaxEdits
    /\ data' = d
    /\ edits' = edits + 1

-----------------------------------------------------------------------------
(* Step one: StepOneCoach.jsx *)

\* handleChange of the gender select.
SetGender ==
    /\ Open /\ cstep = 1
    /\ \E g \in Genders \ {data.gender} : Edit([data EXCEPT !.gender = g])
    /\ UNCHANGED <<cstep, codeExists, checks, listG, formReqs, submitting,
                   modal, home, verified, sent, submits>>

\* handleChange of national_code: ten digits start the check.
SetCode ==
    /\ Open /\ cstep = 1
    /\ \E c \in Codes \ {data.code} :
         /\ Edit([data EXCEPT !.code = c])
         /\ checks' = Append(checks, c)
    /\ UNCHANGED <<cstep, codeExists, listG, formReqs, submitting, modal, home,
                   verified, sent, submits>>

\* The check's answer sets the flag for the code it was asked about,
\* whatever the field holds now; a failed check changes nothing.
CheckAnswer ==
    \E i \in 1..Len(checks) :
        /\ checks' = RemoveAt(checks, i)
        /\ codeExists' \in {checks[i] \in Registered, codeExists}
        /\ UNCHANGED <<cstep, data, listG, formReqs, submitting, modal, home,
                       verified, sent, edits, submits>>

\* The other fields of step one: names in Persian letters, a birth date
\* giving the minimum age of the gender.
FillOne ==
    /\ Open /\ cstep = 1 /\ ~data.ok1
    /\ Edit([data EXCEPT !.ok1 = TRUE])
    /\ UNCHANGED <<cstep, codeExists, checks, listG, formReqs, submitting,
                   modal, home, verified, sent, submits>>

\* handleSubmit of step one: every field, no registered code reported;
\* step one unmounts, forgetting its flag and its checks in flight.
NextOne ==
    /\ Open /\ cstep = 1
    /\ data.gender # NULL /\ data.code # NULL /\ data.ok1 /\ ~codeExists
    /\ cstep' = 2 /\ codeExists' = FALSE /\ checks' = <<>>
    /\ UNCHANGED <<data, listG, formReqs, submitting, modal, home, verified,
                   sent, edits, submits>>

-----------------------------------------------------------------------------
(* Step two: StepTwoCoach.jsx (province, county, city, address, photo). *)

FillTwo ==
    /\ Open /\ cstep = 2 /\ ~data.ok2
    /\ Edit([data EXCEPT !.ok2 = TRUE])
    /\ UNCHANGED <<cstep, codeExists, checks, listG, formReqs, submitting,
                   modal, home, verified, sent, submits>>

\* Step three mounts with empty lists and asks form-data for the gender.
MountThree ==
    /\ cstep' = 3 /\ listG' = NULL
    /\ formReqs' = Append(formReqs, data.gender)

NextTwo ==
    /\ Open /\ cstep = 2 /\ data.ok2
    /\ MountThree
    /\ UNCHANGED <<data, codeExists, checks, submitting, modal, home, verified,
                   sent, edits, submits>>

BackTwo ==
    /\ Open /\ cstep = 2
    /\ cstep' = 1
    /\ UNCHANGED <<data, codeExists, checks, listG, formReqs, submitting, modal,
                   home, verified, sent, edits, submits>>

-----------------------------------------------------------------------------
(* Step three: StepThreeCoach.jsx *)

\* The form-data answer: boards, clubs and coaches of the gender asked.
FormAnswer ==
    \E i \in 1..Len(formReqs) :
        /\ formReqs' = RemoveAt(formReqs, i)
        /\ listG' \in {formReqs[i], listG}
        /\ UNCHANGED <<cstep, data, codeExists, checks, submitting, modal, home,
                       verified, sent, edits, submits>>

\* handleRoleChange.
ChooseRole ==
    /\ Open /\ cstep = 3
    /\ \E r \in Roles \ {data.role} : Edit([data EXCEPT !.role = r])
    /\ UNCHANGED <<cstep, codeExists, checks, listG, formReqs, submitting,
                   modal, home, verified, sent, submits>>

\* handleClubCheck: a tick adds a club not yet chosen while fewer than
\* three are; an untick removes it.
ToggleClub ==
    /\ Open /\ cstep = 3 /\ listG # NULL
    /\ \E c \in ClubsOf(listG) :
         IF c \in data.clubs
         THEN Edit([data EXCEPT !.clubs = @ \ {c}])
         ELSE /\ Cardinality(data.clubs) < MaxSelectedClubs
              /\ Edit([data EXCEPT !.clubs = @ \cup {c}])
    /\ UNCHANGED <<cstep, codeExists, checks, listG, formReqs, submitting,
                   modal, home, verified, sent, submits>>

\* handleChange of the coach select: a coach of the list, or OtherCoach.
ChooseCoach ==
    /\ Open /\ cstep = 3
    /\ \E x \in (IF listG = NULL THEN {} ELSE CoachesOf(listG)) \cup {OtherCoach} :
         /\ x # data.coach
         /\ Edit([data EXCEPT !.coach = x])
    /\ UNCHANGED <<cstep, codeExists, checks, listG, formReqs, submitting,
                   modal, home, verified, sent, submits>>

\* The belt, certificate and, for OtherCoach, the coach's name.
FillThree ==
    /\ Open /\ cstep = 3 /\ ~data.ok3
    /\ Edit([data EXCEPT !.ok3 = TRUE])
    /\ UNCHANGED <<cstep, codeExists, checks, listG, formReqs, submitting,
                   modal, home, verified, sent, submits>>

\* validate of step three (role is never empty: formData starts as coach).
NextThree ==
    /\ Open /\ cstep = 3
    /\ data.clubs # {} /\ data.coach # NULL /\ data.ok3
    /\ cstep' = 4 /\ formReqs' = <<>>
    /\ UNCHANGED <<data, codeExists, checks, listG, submitting, modal, home,
                   verified, sent, edits, submits>>

\* onBack: step three unmounts; its requests in flight are forgotten.
BackThree ==
    /\ Open /\ cstep = 3
    /\ cstep' = 2 /\ formReqs' = <<>>
    /\ UNCHANGED <<data, codeExists, checks, listG, submitting, modal, home,
                   verified, sent, edits, submits>>

-----------------------------------------------------------------------------
(* Step four: StepFourCoach.jsx, and the page's submit. *)

\* The national coaching grade, a referee type with its grade, the
\* confirmation: each field the step shows for the role.
FillFour ==
    /\ Open /\ cstep = 4
    /\ \E f \in {"grade", "ref", "confirm"} :
         /\ ~data[f]
         /\ Edit([data EXCEPT ![f] = TRUE])
    /\ UNCHANGED <<cstep, codeExists, checks, listG, formReqs, submitting,
                   modal, home, verified, sent, submits>>

IsCoach == data.role \in {"coach", "both"}
IsReferee == data.role \in {"referee", "both"}

\* validate of step four.
ValidFour ==
    /\ IsCoach => data.grade
    /\ IsReferee => data.ref
    /\ data.confirm

\* The page's handleSubmit posts register-coach with the whole formData
\* ("other" as a null coach and a coach_name); nothing marks a post in
\* flight.
Post ==
    /\ submitting' = submitting + 1
    /\ sent' = sent \cup {[gender |-> data.gender, clubs |-> data.clubs,
                           coach |-> data.coach, role |-> data.role]}

\* handleSubmit of step four: validate, then the page's post.
Submit ==
    /\ Open /\ cstep = 4 /\ submits < MaxSubmits
    /\ submits' = submits + 1
    /\ IF ValidFour THEN Post ELSE UNCHANGED <<submitting, sent>>
    /\ UNCHANGED <<cstep, data, codeExists, checks, listG, formReqs, modal,
                   home, verified, edits>>

BackFour ==
    /\ Open /\ cstep = 4
    /\ MountThree
    /\ UNCHANGED <<data, codeExists, checks, submitting, modal, home, verified,
                   sent, edits, submits>>

\* The answer: status ok shows the server's message (or a default that
\* lacks the word) and removes verifiedPhone; anything else is an error.
SubmitAnswer ==
    /\ submitting > 0
    /\ submitting' = submitting - 1
    /\ \/ /\ modal' \in {"success", "successWord"}
          /\ verified' = FALSE
       \/ modal' = "error" /\ UNCHANGED verified
    /\ UNCHANGED <<cstep, data, codeExists, checks, listG, formReqs, home,
                   sent, edits, submits>>

\* The modal's close: to '/' only when the message contains the word.
CloseModal ==
    /\ modal # "none" /\ ~home
    /\ modal' = "none"
    /\ home' = (modal = "successWord")
    /\ UNCHANGED <<cstep, data, codeExists, checks, listG, formReqs, submitting,
                   verified, sent, edits, submits>>

Next ==
    \/ SetGender \/ SetCode \/ CheckAnswer \/ FillOne \/ NextOne
    \/ FillTwo \/ NextTwo \/ BackTwo
    \/ FormAnswer \/ ChooseRole \/ ToggleClub \/ ChooseCoach \/ FillThree
    \/ NextThree \/ BackThree
    \/ FillFour \/ Submit \/ BackFour \/ SubmitAnswer \/ CloseModal

Spec == Init /\ [][Next]_vars

-----------------------------------------------------------------------------
\* Every register-coach request names clubs and a coach that form-data
\* offers for the gender it names: step three lists the clubs and coaches
\* of the gender chosen in step one.
OfferedForGender ==
    \A r \in sent :
        /\ r.clubs \subseteq ClubsOf(r.gender)
        /\ r.coach \in CoachesOf(r.gender) \cup {OtherCoach}

\* After a registration the server accepted, the wizard posts no other
\* registration: the success modal's close leaves it.
NoPostAfterSuccess == [][~verified => submitting' <= submitting]_vars
=============================================================================
