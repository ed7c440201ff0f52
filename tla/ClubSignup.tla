----------------------------- MODULE ClubSignup -----------------------------
(***************************************************************************)
(* The club registration wizard: RegisterClubPage.jsx and its three steps *)
(* under components/Register/stepsclub.  The page takes the founder's      *)
(* phone from localStorage.verifiedPhone at mount; step one holds the      *)
(* club and its founder, step two the address (province, county, city,    *)
(* each list depending on the one before), the board chosen from the      *)
(* form-data list, the phone and the address text; step three the licence *)
(* and the confirmation.  The page posts register-club; success shows a    *)
(* modal whose close reloads the home page, an error a modal that only     *)
(* closes.                                                                 *)
(*                                                                         *)
(* The text fields are abstracted to whether each step's checks on them   *)
(* pass.  A county is <<province, i>> and a city <<county, j>>.           *)
(***************************************************************************)
EXTENDS Naturals

CONSTANTS
    NULL,         \* an empty field ("")
    Provinces,    \* the provinces of provincesData, model values
    MaxEdits,     \* bound on the field changes
    MaxSubmits    \* bound on submit clicks

CountiesOf(p) == {p} \X {1}
CitiesOf(c) == {c} \X {1}

VARIABLES
    cstep,        \* the page's step, 1..3
    data,         \* formData: founderPhone, the address and per-step flags
    boards,       \* step two's boards list has been filled
    boardReq,     \* step two's form-data request is in flight
    submitting,   \* register-club requests in flight
    modal,        \* "none", "error" or "success"
    home,         \* the success modal's close reloaded '/'
    verified,     \* localStorage.verifiedPhone is set
    sent,         \* what every register-club request named
    edits, submits

vars == <<cstep, data, boards, boardReq, submitting, modal, home, verified,
          sent, edits, submits>>

\* The page mounts: founder_phone is verifiedPhone, or "" when the page is
\* opened without a verification.
Init ==
    /\ verified \in BOOLEAN
    /\ cstep = 1
    /\ data = [founderPhone |-> verified, ok1 |-> FALSE, province |-> NULL,
               county |-> NULL, city |-> NULL, board |-> FALSE,
               ok2 |-> FALSE, ok3 |-> FALSE]
    /\ boards = FALSE /\ boardReq = FALSE
    /\ submitting = 0 /\ modal = "none" /\ home = FALSE
    /\ sent = {} /\ edits = 0 /\ submits = 0

Open == modal = "none" /\ ~home

\* handleDataChange merges the step's change into formData.
Edit(d) ==
    /\ edits < MaxEdits
    /\ data' = d
    /\ edits' = edits + 1

Keep == UNCHANGED <<boards, boardReq, submitting, modal, home, verified, sent,
                    submits>>

-----------------------------------------------------------------------------
(* Step one: StepOneClub.jsx *)

\* The club name, founder name, a ten-digit national code, the club type
\* and a description of ten characters or more.
FillOne ==
    /\ Open /\ cstep = 1 /\ ~data.ok1
    /\ Edit([data EXCEPT !.ok1 = TRUE])
    /\ UNCHANGED cstep /\ Keep

\* Step two mounts and asks form-data for the boards.
NextOne ==
    /\ Open /\ cstep = 1 /\ data.ok1
    /\ cstep' = 2 /\ boards' = FALSE /\ boardReq' = TRUE
    /\ UNCHANGED <<data, submitting, modal, home, verified, sent, edits, submits>>

-----------------------------------------------------------------------------
(* Step two: StepTwoClub.jsx *)

BoardsAnswer ==
    /\ boardReq
    /\ boardReq' = FALSE
    /\ boards' \in {TRUE, boards}
    /\ UNCHANGED <<cstep, data, submitting, modal, home, verified, sent,
                   edits, submits>>

\* handleChange: a province clears the county and the city, a county the
\* city; each select lists the counties or cities of the choice above it.
ChooseProvince ==
    /\ Open /\ cstep = 2
    /\ \E p \in Provinces \ {data.province} :
         Edit([data EXCEPT !.province = p, !.county = NULL, !.city = NULL])
    /\ UNCHANGED cstep /\ Keep

ChooseCounty ==
    /\ Open /\ cstep = 2 /\ data.province # NULL
    /\ \E c \in CountiesOf(data.province) \ {data.county} :
         Edit([data EXCEPT !.county = c, !.city = NULL])
    /\ UNCHANGED cstep /\ Keep

ChooseCity ==
    /\ Open /\ cstep = 2 /\ data.province # NULL /\ data.county # NULL
    /\ \E t \in CitiesOf(data.county) \ {data.city} :
         Edit([data EXCEPT !.city = t])
    /\ UNCHANGED cstep /\ Keep

\* The board select lists the boards of form-data.
ChooseBoard ==
    /\ Open /\ cstep = 2 /\ boards /\ ~data.board
    /\ Edit([data EXCEPT !.board = TRUE])
    /\ UNCHANGED cstep /\ Keep

\* The phone (09 or 038 and eleven digits) and an address of ten or more
\* characters.
FillTwo ==
    /\ Open /\ cstep = 2 /\ ~data.ok2
    /\ Edit([data EXCEPT !.ok2 = TRUE])
    /\ UNCHANGED cstep /\ Keep

\* validate of step two: every field of the step.
NextTwo ==
    /\ Open /\ cstep = 2
    /\ data.province # NULL /\ data.county # NULL /\ data.city # NULL
    /\ data.board /\ data.ok2
    /\ cstep' = 3 /\ boardReq' = FALSE
    /\ UNCHANGED <<data, boards, submitting, modal, home, verified, sent,
                   edits, submits>>

BackTwo ==
    /\ Open /\ cstep = 2
    /\ cstep' = 1 /\ boardReq' = FALSE
    /\ UNCHANGED <<data, boards, submitting, modal, home, verified, sent,
                   edits, submits>>

-----------------------------------------------------------------------------
(* Step three: StepThreeClub.jsx, and the page's submit. *)

\* The licence number, the federation id, a JPG or PNG licence image of
\* 200 KB at most, and the confirmation.
FillThree ==
    /\ Open /\ cstep = 3 /\ ~data.ok3
    /\ Edit([data EXCEPT !.ok3 = TRUE])
    /\ UNCHANGED cstep /\ Keep

BackThree ==
    /\ Open /\ cstep = 3
    /\ cstep' = 2 /\ boards' = FALSE /\ boardReq' = TRUE
    /\ UNCHANGED <<data, submitting, modal, home, verified, sent, edits, submits>>

\* The page's handleSubmit posts every field of formData; nothing marks a
\* post in flight.
Post ==
    /\ submitting' = submitting + 1
    /\ sent' = sent \cup {[founderPhone |-> data.founderPhone,
                           province |-> data.province,
                           county |-> data.county, city |-> data.city]}

\* handleSubmit of step three: validate, then the page's post.
Submit ==
    /\ Open /\ cstep = 3 /\ submits < MaxSubmits
    /\ submits' = submits + 1
    /\ IF data.ok3 THEN Post ELSE UNCHANGED <<submitting, sent>>
    /\ UNCHANGED <<cstep, data, boards, boardReq, modal, home, verified, edits>>

\* The answer: ok with status ok shows the success modal and removes
\* verifiedPhone; any other answer or a failure shows the errors.
SubmitAnswer ==
    /\ submitting > 0
    /\ submitting' = submitting - 1
    /\ \/ modal' = "success" /\ verified' = FALSE
       \/ modal' = "error" /\ UNCHANGED verified
    /\ UNCHANGED <<cstep, data, boards, boardReq, home, sent, edits, submits>>

\* The success modal's close reloads '/'; the error modal's only closes.
CloseModal ==
    /\ modal # "none" /\ ~home
    /\ modal' = "none"
    /\ home' = (modal = "success")
    /\ UNCHANGED <<cstep, data, boards, boardReq, submitting, verified, sent,
                   edits, submits>>

Next ==
    \/ FillOne \/ NextOne
    \/ BoardsAnswer \/ ChooseProvince \/ ChooseCounty \/ ChooseCity
    \/ ChooseBoard \/ FillTwo \/ NextTwo \/ BackTwo
    \/ FillThree \/ BackThree \/ Submit \/ SubmitAnswer \/ CloseModal

Spec == Init /\ [][Next]_vars

-----------------------------------------------------------------------------
\* Every register-club request names a county of its province and a city
\* of its county: a province change clears the county and the city, a
\* county change the city.
AddressConsistent ==
    \A r \in sent : r.county \in CountiesOf(r.province)
                    /\ r.city \in CitiesOf(r.county)

\* Every register-club request carries the founder's verified phone.
FounderPhoneVerified == \A r \in sent : r.founderPhone
=============================================================================
