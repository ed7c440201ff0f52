--------------------------- MODULE PersonalInfoForm ---------------------------
(***************************************************************************)
(* The profile form of the dashboard, PersonalInfoForm.jsx.  At mount it   *)
(* reads the profile and the form's options; a field becomes editable     *)
(* after a confirmation; a province change clears county and city, a      *)
(* county change clears city, a club change clears the coach and asks for  *)
(* the club's coaches; "confirm edit" opens a dialog whose "yes" checks    *)
(* the referee levels and posts the original data overlaid with the form. *)
(*                                                                         *)
(* A province has one county and a county one city (<<p, 1>>,             *)
(* <<<<p, 1>>, 1>>); a club has one coach, <<club, 1>>; NONE is the empty *)
(* string.  One referee discipline stands for kyorogi, poomseh and         *)
(* hanmadang, which are checked alike.  Every other field is `other`.     *)
(***************************************************************************)
EXTENDS Naturals, FiniteSets

CONSTANTS
    NONE,
    Provinces, Clubs,
    MaxEdits,     \* bound on the user's inputs
    MaxPosts      \* bound on the distinct profiles posted

CountiesOf(p) == {<<p, 1>>}
CitiesOf(c) == {<<c, 1>>}
CoachesOf(c) == {<<c, 1>>}

Fields == {"province", "county", "city", "club", "coach", "image", "other"}

VARIABLES
    page,         \* "loading", "form" or "left" (navigate("/"))
    data,         \* the form: prov, county, city, club, coach, isCoach,
                  \* isRef, disc, level, file (a new image), other
    orig,         \* originalData
    editable, pendingEdit,
    counties,     \* the county select's options
    coachList,    \* dropdowns.coach
    coachReqs,    \* clubs whose coaches request is in flight
    message, confirm, submitting,
    posting,      \* the form being posted, NONE when no post is in flight
    sent,         \* the address, club and coach of every post
    edits

vars == <<page, data, orig, editable, pendingEdit, counties, coachList,
          coachReqs, message, confirm, submitting, posting, sent, edits>>

\* A profile the server holds: a consistent address and a coach of the club.
Profiles ==
    {[prov |-> p, county |-> <<p, 1>>, city |-> <<<<p, 1>>, 1>>, club |-> c,
      coach |-> <<c, 1>>, isCoach |-> ic, isRef |-> FALSE, disc |-> FALSE,
      level |-> FALSE, file |-> FALSE, other |-> FALSE] :
     p \in Provinces, c \in Clubs, ic \in BOOLEAN}

Init ==
    /\ page = "loading" /\ data = NONE /\ orig = NONE
    /\ editable = {} /\ pendingEdit = NONE /\ counties = {}
    /\ coachList = {} /\ coachReqs = {}
    /\ message = FALSE /\ confirm = FALSE /\ submitting = FALSE
    /\ posting = NONE /\ sent = {} /\ edits = 0

\* The form is open with no dialog over it.
Idle == page = "form" /\ pendingEdit = NONE /\ ~confirm /\ ~message

\* An input of the user, within the bound.
Inputs == Idle /\ edits < MaxEdits

Edit(d) == data' = d /\ edits' = edits + 1

-----------------------------------------------------------------------------
\* The mount effect's answer (a token is present): the profile, its
\* options (the coaches of the profile's club) and the counties of its
\* province; a failure navigates home.
Load ==
    /\ page = "loading"
    /\ \/ \E pr \in Profiles :
             /\ page' = "form" /\ data' = pr /\ orig' = pr
             /\ counties' = CountiesOf(pr.prov) /\ coachList' = CoachesOf(pr.club)
       \/ page' = "left" /\ UNCHANGED <<data, orig, counties, coachList>>
    /\ UNCHANGED <<editable, pendingEdit, coachReqs, message, confirm,
                   submitting, posting, sent, edits>>

\* "edit" of a field (the club's only when the user is not a coach), and
\* the confirmation's answer.
AskEdit ==
    /\ Idle
    /\ \E f \in Fields \ editable :
          /\ f = "club" => ~data.isCoach
          /\ pendingEdit' = f
    /\ UNCHANGED <<page, data, orig, editable, counties, coachList, coachReqs,
                   message, confirm, submitting, posting, sent, edits>>

AnswerEdit ==
    /\ pendingEdit # NONE
    /\ editable' \in {editable \cup {pendingEdit}, editable}
    /\ pendingEdit' = NONE
    /\ UNCHANGED <<page, data, orig, counties, coachList, coachReqs, message,
                   confirm, submitting, posting, sent, edits>>

\* handleChange of the province, county and city selects.
ChangeProvince ==
    /\ Inputs /\ "province" \in editable
    /\ \E p \in Provinces \cup {NONE} :
          /\ Edit([data EXCEPT !.prov = p, !.county = NONE, !.city = NONE])
          /\ counties' = IF p = NONE THEN {} ELSE CountiesOf(p)
    /\ UNCHANGED <<page, orig, editable, pendingEdit, coachList, coachReqs,
                   message, confirm, submitting, posting, sent>>

ChangeCounty ==
    /\ Inputs /\ "county" \in editable
    /\ \E c \in counties \cup {NONE} : Edit([data EXCEPT !.county = c, !.city = NONE])
    /\ UNCHANGED <<page, orig, editable, pendingEdit, counties, coachList,
                   coachReqs, message, confirm, submitting, posting, sent>>

\* The city options: provincesData[data.province][county] after a county
\* change, those of the loaded county otherwise, none after a province
\* change.
ChangeCity ==
    /\ Inputs /\ "city" \in editable /\ data.county # NONE
    /\ \E c \in CitiesOf(data.county) \cup {NONE} : Edit([data EXCEPT !.city = c])
    /\ UNCHANGED <<page, orig, editable, pendingEdit, counties, coachList,
                   coachReqs, message, confirm, submitting, posting, sent>>

\* A club change clears the coach and asks for the club's coaches.
ChangeClub ==
    /\ Inputs /\ "club" \in editable
    /\ \E c \in Clubs :
          /\ Edit([data EXCEPT !.club = c, !.coach = NONE])
          /\ coachReqs' = coachReqs \cup {c}
    /\ UNCHANGED <<page, orig, editable, pendingEdit, counties, coachList,
                   message, confirm, submitting, posting, sent>>

\* The coaches answer of a club: its coaches, or none on a failure.  It
\* carries no check of the club selected now.
CoachesAnswer ==
    /\ page = "form"
    /\ \E c \in coachReqs :
          /\ coachReqs' = coachReqs \ {c}
          /\ coachList' \in {CoachesOf(c), {}}
    /\ UNCHANGED <<page, data, orig, editable, pendingEdit, counties, message,
                   confirm, submitting, posting, sent, edits>>

ChangeCoach ==
    /\ Inputs /\ "coach" \in editable
    /\ \E x \in coachList \cup {NONE} : Edit([data EXCEPT !.coach = x])
    /\ UNCHANGED <<page, orig, editable, pendingEdit, counties, coachList,
                   coachReqs, message, confirm, submitting, posting, sent>>

\* The checkboxes, the level selects (always editable), a valid image,
\* and any other field.
ChangeOther ==
    /\ Inputs
    /\ UNCHANGED message
    /\ \/ Edit([data EXCEPT !.isCoach = ~@])
       \/ Edit([data EXCEPT !.isRef = ~@])
       \/ data.isRef /\ Edit([data EXCEPT !.disc = ~@])
       \/ data.isRef /\ data.disc /\ Edit([data EXCEPT !.level = ~@])
       \/ "image" \in editable /\ Edit([data EXCEPT !.file = TRUE])
       \/ "other" \in editable /\ Edit([data EXCEPT !.other = ~@])
    /\ UNCHANGED <<page, orig, editable, pendingEdit, counties, coachList,
                   coachReqs, confirm, submitting, posting, sent>>

\* A file that is not a JPEG or is larger than 200 KB: the message only.
RejectImage ==
    /\ Inputs /\ "image" \in editable
    /\ message' = TRUE /\ edits' = edits + 1
    /\ UNCHANGED <<page, data, orig, editable, pendingEdit, counties, coachList,
                   coachReqs, confirm, submitting, posting, sent>>

\* hasFormChanged.
Changed == data.file \/ data # orig

\* "confirm edit" (disabled while submitting): the dialog, or the message
\* that nothing changed.
Save ==
    /\ Idle /\ Changed /\ ~submitting
    /\ confirm' = TRUE
    /\ UNCHANGED <<page, data, orig, editable, pendingEdit, counties, coachList,
                   coachReqs, message, submitting, posting, sent, edits>>

\* validateRefereeLevels.
LevelsOk == data.isRef /\ data.disc => data.level

\* The dialog's "yes": a missing level shows the message over the dialog;
\* otherwise the dialog closes and { ...originalData, ...data } is posted.
ConfirmYes ==
    /\ confirm /\ ~message /\ Cardinality(sent) < MaxPosts
    /\ IF ~LevelsOk
          THEN message' = TRUE /\ UNCHANGED <<confirm, submitting, posting, sent>>
          ELSE /\ confirm' = FALSE /\ submitting' = TRUE /\ posting' = data
               /\ sent' = sent \cup {[prov |-> data.prov, county |-> data.county,
                                      city |-> data.city, club |-> data.club,
                                      coach |-> data.coach]}
               /\ UNCHANGED message
    /\ UNCHANGED <<page, data, orig, editable, pendingEdit, counties, coachList,
                   coachReqs, edits>>

ConfirmNo ==
    /\ confirm /\ ~message
    /\ confirm' = FALSE
    /\ UNCHANGED <<page, data, orig, editable, pendingEdit, counties, coachList,
                   coachReqs, message, submitting, posting, sent, edits>>

\* The post's answer: on success the message, then a reload when an image
\* was sent (after 1.5 s; edits in between are lost with it), otherwise
\* originalData becomes the form that was posted; on a failure the
\* message.  `finally` ends the submission.
PostAnswer ==
    /\ posting # NONE
    /\ message' = TRUE /\ submitting' = FALSE /\ posting' = NONE
    /\ \/ /\ posting.file
          /\ page' = "loading" /\ data' = NONE /\ orig' = NONE /\ editable' = {}
          /\ pendingEdit' = NONE /\ counties' = {} /\ coachList' = {}
          /\ coachReqs' = {} /\ confirm' = FALSE
       \/ /\ ~posting.file /\ orig' = posting
          /\ UNCHANGED <<page, data, editable, pendingEdit, counties, coachList,
                         coachReqs, confirm>>
       \/ UNCHANGED <<page, data, orig, editable, pendingEdit, counties,
                      coachList, coachReqs, confirm>>
    /\ UNCHANGED <<sent, edits>>

\* "OK" of the message.
Dismiss ==
    /\ message /\ message' = FALSE
    /\ UNCHANGED <<page, data, orig, editable, pendingEdit, counties, coachList,
                   coachReqs, confirm, submitting, posting, sent, edits>>

\* "cancel" (enabled when the form changed and no post is in flight)
\* reloads the page.
Cancel ==
    /\ Idle /\ Changed /\ ~submitting
    /\ page' = "loading" /\ data' = NONE /\ orig' = NONE /\ editable' = {}
    /\ counties' = {} /\ coachList' = {} /\ coachReqs' = {}
    /\ UNCHANGED <<pendingEdit, message, confirm, submitting, posting, sent, edits>>

Next ==
    \/ Load \/ AskEdit \/ AnswerEdit \/ ChangeProvince \/ ChangeCounty
    \/ ChangeCity \/ ChangeClub \/ CoachesAnswer \/ ChangeCoach \/ ChangeOther
    \/ RejectImage \/ Save \/ ConfirmYes \/ ConfirmNo \/ PostAnswer
    \/ Dismiss \/ Cancel

\* The server answers every request; the user's clicks are not assumed.
Spec == Init /\ [][Next]_vars /\ WF_vars(Load) /\ WF_vars(CoachesAnswer)
            /\ WF_vars(PostAnswer)

-----------------------------------------------------------------------------
TypeOK ==
    /\ page \in {"loading", "form", "left"}
    /\ editable \subseteq Fields /\ pendingEdit \in Fields \cup {NONE}
    /\ coachReqs \subseteq Clubs
    /\ submitting = (posting # NONE)
    /\ edits \in 0..MaxEdits

\* Every profile posted names a coach of the club it names: the coach
\* select offers dropdowns.coach, which a club change replaces only when
\* the coaches answer arrives, whichever club that answer is for.
CoachOfClub == \A s \in sent : s.coach # NONE => s.coach \in CoachesOf(s.club)

\* Every profile posted has a county of its province and a city of its
\* county, or leaves them empty: the selects offer the lists handleChange
\* recomputes from the province and county just chosen.
AddressConsistent ==
    \A s \in sent : /\ s.county \in CountiesOf(s.prov) \cup {NONE}
                    /\ s.city = NONE \/ (s.county # NONE /\ s.city \in CitiesOf(s.county))

\* A confirmed edit ends: the submission of a post is over in the end.
SubmitEnds == submitting ~> ~submitting
=============================================================================
