----------------------------- MODULE ClubCoaches -----------------------------
(***************************************************************************)
(* The club's coach management panel (ClubCoachesManagement.jsx), shown   *)
(* by the dashboard's "club-coaches" section.  Its effect reads the       *)
(* club's coaches once and checks the active ones; a checkbox adds a      *)
(* coach (refused with an alert for a coach in three clubs) or asks       *)
(* whether to remove one; "confirm" opens the final dialog, whose "yes"   *)
(* posts the checked coaches to update-coaches.  A coach with a pending   *)
(* request has its checkbox disabled.                                     *)
(*                                                                         *)
(* The server's state (which coaches are active at the club, which have   *)
(* a pending request, and each coach's club_count) is chosen at the start *)
(* and is left as it is by the posts, whose effect is not in the          *)
(* repository: the properties are about what the panel posts.  Leaving    *)
(* the section unmounts the panel; its requests still settle.             *)
(***************************************************************************)
EXTENDS Naturals, FiniteSets

CONSTANTS
    Coaches,      \* the coaches all-coaches lists (model values)
    NULL,
    MaxPosts,     \* bound on update-coaches posts
    MaxOpens      \* bound on openings of the section

VARIABLES
    active,       \* the coaches active at the club (is_active)
    pending,      \* the coaches with a pending request (pending_status)
    count,        \* each coach's club_count
    phase,        \* "loading", "shown" (the list answered or failed), "left"
    listed,       \* the list arrived (allCoaches is every coach, else [])
    selected,     \* selectedCoaches
    modal,        \* the coach whose removal is asked, or NULL
    confirm,      \* confirmChanges: the final dialog is open
    loading,
    inflight,     \* posts sent and not yet settled
    removed,      \* coaches of the club the user unchecked in this opening
    sent,         \* every post: the selection and the club's coaches it keeps
    posts, opens

vars == <<active, pending, count, phase, listed, selected, modal, confirm,
          loading, inflight, removed, sent, posts, opens>>

\* The panel's state when it mounts.
Mounted ==
    /\ phase' = "loading" /\ listed' = FALSE /\ selected' = {}
    /\ modal' = NULL /\ confirm' = FALSE /\ loading' = FALSE /\ removed' = {}

Init ==
    /\ active \in SUBSET Coaches
    /\ pending \in SUBSET Coaches
    /\ count \in [Coaches -> 0..3]
    /\ \A c \in active : count[c] >= 1
    /\ phase = "loading" /\ listed = FALSE /\ selected = {}
    /\ modal = NULL /\ confirm = FALSE /\ loading = FALSE /\ removed = {}
    /\ inflight = 0 /\ sent = {} /\ posts = 0 /\ opens = 1

Server == <<active, pending, count>>

-----------------------------------------------------------------------------
\* fetchCoaches: the list and its active coaches checked, or an error
\* logged and the list left empty.
LoadAnswer ==
    /\ phase = "loading"
    /\ phase' = "shown"
    /\ \/ listed' = TRUE /\ selected' = active
       \/ UNCHANGED <<listed, selected>>
    /\ UNCHANGED <<Server, modal, confirm, loading, inflight, removed, sent,
                   posts, opens>>

\* The panel is mounted (its list may still be loading).
Live == phase # "left"

\* No dialog covers the panel.
Idle == Live /\ modal = NULL /\ ~confirm

\* toggleCoach, from a listed coach's enabled checkbox.
ToggleCoach(c) ==
    /\ Idle /\ listed /\ c \notin pending
    /\ \/ c \in selected /\ modal' = c /\ UNCHANGED <<selected, removed>>
       \/ c \notin selected /\ count[c] >= 3 /\ UNCHANGED <<modal, selected, removed>>
       \/ c \notin selected /\ count[c] < 3
          /\ selected' = selected \cup {c} /\ removed' = removed \ {c}
          /\ UNCHANGED modal
    /\ UNCHANGED <<Server, phase, listed, confirm, loading, inflight, sent,
                   posts, opens>>

\* handleRemoveConfirmed.
RemoveConfirmed ==
    /\ Live /\ modal # NULL
    /\ selected' = selected \ {modal} /\ modal' = NULL
    /\ removed' = removed \cup ({modal} \cap active)
    /\ UNCHANGED <<Server, phase, listed, confirm, loading, inflight, sent,
                   posts, opens>>

\* The removal dialog's "no".
RemoveCancelled ==
    /\ Live /\ modal # NULL
    /\ modal' = NULL
    /\ UNCHANGED <<Server, phase, listed, selected, confirm, loading, inflight,
                   removed, sent, posts, opens>>

\* handleSubmit, from the confirm button (disabled while loading), which
\* is shown before the list arrives.
HandleSubmit ==
    /\ Idle /\ ~loading
    /\ confirm' = TRUE
    /\ UNCHANGED <<Server, phase, listed, selected, modal, loading, inflight,
                   removed, sent, posts, opens>>

\* confirmFinalSubmit up to its await: the final dialog's "yes", which
\* stays enabled until the post settles.
ConfirmFinalSubmit ==
    /\ Live /\ confirm /\ posts < MaxPosts
    /\ loading' = TRUE /\ inflight' = inflight + 1 /\ posts' = posts + 1
    /\ sent' = sent \cup {[sel |-> selected, keep |-> active \ removed]}
    /\ UNCHANGED <<Server, phase, listed, selected, modal, confirm, removed, opens>>

\* The final dialog's "no".
CancelFinal ==
    /\ Live /\ confirm
    /\ confirm' = FALSE
    /\ UNCHANGED <<Server, phase, listed, selected, modal, loading, inflight,
                   removed, sent, posts, opens>>

\* A post settles (an alert either way); finally clears loading and the
\* final dialog, unless the panel is unmounted.
PostAnswer ==
    /\ inflight > 0
    /\ inflight' = inflight - 1
    /\ IF phase = "left" THEN UNCHANGED <<loading, confirm>>
       ELSE loading' = FALSE /\ confirm' = FALSE
    /\ UNCHANGED <<Server, phase, listed, selected, modal, removed, sent, posts,
                   opens>>

\* Another dashboard section is chosen: the panel unmounts.
Leave ==
    /\ phase # "left"
    /\ phase' = "left"
    /\ UNCHANGED <<Server, listed, selected, modal, confirm, loading, inflight,
                   removed, sent, posts, opens>>

\* The section is chosen again: a new panel mounts and loads.
Open ==
    /\ phase = "left" /\ opens < MaxOpens
    /\ Mounted /\ opens' = opens + 1
    /\ UNCHANGED <<Server, inflight, sent, posts>>

Next ==
    \/ LoadAnswer
    \/ \E c \in Coaches : ToggleCoach(c)
    \/ RemoveConfirmed \/ RemoveCancelled
    \/ HandleSubmit \/ ConfirmFinalSubmit \/ CancelFinal
    \/ PostAnswer \/ Leave \/ Open

\* The server answers every request; the user's clicks are not assumed.
Spec == Init /\ [][Next]_vars /\ WF_vars(LoadAnswer) /\ WF_vars(PostAnswer)

-----------------------------------------------------------------------------
TypeOK ==
    /\ phase \in {"loading", "shown", "left"}
    /\ selected \subseteq Coaches /\ removed \subseteq active
    /\ modal \in Coaches \cup {NULL}
    /\ inflight \in 0..MaxPosts /\ posts \in 0..MaxPosts

\* Every post keeps the club's active coaches the user did not uncheck:
\* the panel posts the whole selection, and a coach missing from it is
\* asked to be removed.
PostKeepsClubCoaches == \A r \in sent : r.keep \subseteq r.sel

\* A coach of the club the user unchecked can be checked again in the
\* same opening: toggleCoach refuses a coach whose club_count is 3, and
\* an active coach's count includes this club.
RemovalUndoable == \A c \in removed : count[c] < 3

\* At most one update-coaches post is in flight.
OnePostInFlight == inflight <= 1

\* Every post sent settles.
PostsSettle == inflight > 0 ~> inflight = 0
=============================================================================
