------------------------------ MODULE CoachClubs ------------------------------
(***************************************************************************)
(* The coach's club panel (ChangeCoachClubs.jsx): the effect reads every  *)
(* club and the coach's own clubs together (Promise.all) and checks the   *)
(* coach's; toggleClub checks at most maxSelection = 3; "confirm" patches *)
(* the checked clubs to update-clubs, its button disabled while the       *)
(* request runs.  The clubs' names and the order of the list are left     *)
(* out.                                                                    *)
(***************************************************************************)
EXTENDS Naturals, FiniteSets

CONSTANTS
    Clubs,        \* the clubs all-clubs lists (model values)
    MaxPosts      \* bound on update-clubs requests

MaxSelection == 3

VARIABLES
    mine,         \* the coach's clubs at the server
    listed,       \* the lists arrived (allClubs is every club, else [])
    selected,     \* selectedClubs
    loading,
    unchecked,    \* the coach's clubs unchecked and not checked again
    sent,         \* every request: the clubs sent and the coach's clubs it keeps
    posts

vars == <<mine, listed, selected, loading, unchecked, sent, posts>>

Init ==
    /\ mine \in {S \in SUBSET Clubs : Cardinality(S) <= MaxSelection}
    /\ listed = "loading"
    /\ selected = {} /\ loading = FALSE /\ unchecked = {}
    /\ sent = {} /\ posts = 0

-----------------------------------------------------------------------------
\* fetchData: both lists and the coach's clubs checked, or an error logged
\* and the list left empty when either request fails.
LoadAnswer ==
    /\ listed = "loading"
    /\ \/ listed' = "listed" /\ selected' = mine
       \/ listed' = "failed" /\ UNCHANGED selected
    /\ UNCHANGED <<mine, loading, unchecked, sent, posts>>

\* toggleClub, from a listed club's checkbox.
ToggleClub(c) ==
    /\ listed = "listed"
    /\ \/ c \in selected /\ selected' = selected \ {c}
          /\ unchecked' = unchecked \cup ({c} \cap mine)
       \/ c \notin selected /\ Cardinality(selected) < MaxSelection
          /\ selected' = selected \cup {c} /\ unchecked' = unchecked \ {c}
       \/ c \notin selected /\ Cardinality(selected) >= MaxSelection
          /\ UNCHANGED <<selected, unchecked>>
    /\ UNCHANGED <<mine, listed, loading, sent, posts>>

\* handleSubmit up to its await, from the enabled button (the list need
\* not have arrived).
HandleSubmit ==
    /\ ~loading /\ posts < MaxPosts
    /\ loading' = TRUE /\ posts' = posts + 1
    /\ sent' = sent \cup {[sel |-> selected, keep |-> mine \ unchecked]}
    /\ UNCHANGED <<mine, listed, selected, unchecked>>

\* The request settles (an alert either way); finally clears loading.
SubmitAnswer ==
    /\ loading
    /\ loading' = FALSE
    /\ UNCHANGED <<mine, listed, selected, unchecked, sent, posts>>

Next ==
    \/ LoadAnswer
    \/ \E c \in Clubs : ToggleClub(c)
    \/ HandleSubmit \/ SubmitAnswer

Spec == Init /\ [][Next]_vars /\ WF_vars(LoadAnswer) /\ WF_vars(SubmitAnswer)

-----------------------------------------------------------------------------
TypeOK ==
    /\ listed \in {"loading", "listed", "failed"}
    /\ selected \subseteq Clubs /\ unchecked \subseteq mine
    /\ posts \in 0..MaxPosts

\* Every request keeps the coach's clubs the coach did not uncheck: the
\* panel sends the whole list, and a club missing from it is left.
PostKeepsOwnClubs == \A r \in sent : r.keep \subseteq r.sel
=============================================================================
