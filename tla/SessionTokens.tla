---------------------------- MODULE SessionTokens ----------------------------
(***************************************************************************)
(* The browser session of the portal: the localStorage keys               *)
(* "<role>_token" and "user_role", written by the login form              *)
(* (LoginModal.jsx) and removed by the logout and 401 paths of the         *)
(* dashboard (Dashboard.jsx, Sidebar.jsx, MainContent.jsx, StatsCard.jsx). *)
(* Every module that calls the backend picks "the" token by its own       *)
(* order of keys; these orders are the readers below.                     *)
(*                                                                         *)
(* A token is modelled by the number of the login that issued it.  The    *)
(* generic keys access_token, access, auth_token and token are read but   *)
(* written nowhere in the repository, so they stay empty.                 *)
(***************************************************************************)
EXTENDS Naturals, Sequences, SequencesExt, Functions

CONSTANTS
    NULL,        \* what getItem returns for an absent key
    MaxLogins    \* bound on the number of logins

VARIABLES
    store,       \* the token items of localStorage: key -> token
    userRole,    \* localStorage user_role, or NULL
    logins       \* logins so far; the token of login n is n

vars == <<store, userRole, logins>>

\* normalizeRole: the roles a login can store (LoginModal.jsx 54-61).
LoginRoles == {"player", "coach", "referee", "both", "club", "heyat"}

\* Mutant: the login writes a misspelt key.
RoleKeyPlural(r) == r \o "_tokens"

\* `${role}_token`
RoleKey(r) == r \o "_token"

GenericKeys == {"access_token", "access", "auth_token", "token"}

\* Every token key the code names.
Keys ==
    {"player_token", "coach_token", "referee_token", "both_token",
     "club_token", "heyat_token", "board_token"} \cup GenericKeys

\* In a reader's order, ROLE stands for `${user_role}_token`; it names no
\* key when user_role is absent (the code filters it out or builds
\* "_token", which is never set).
ROLE == "ROLE"

\* SeminarDetail's `${role}_token`, its role being user_role or "player".
ROLE_OR_PLAYER == "ROLE_OR_PLAYER"

RoleOrPlayer == IF userRole = NULL THEN "player" ELSE userRole

Resolve(k) == CASE k = ROLE -> IF userRole = NULL THEN NULL ELSE RoleKey(userRole)
                [] k = ROLE_OR_PLAYER -> RoleKey(RoleOrPlayer)
                [] OTHER -> k

Held(k) == Resolve(k) \in DOMAIN store

\* The first key of the order holding a token: the loop over keys with
\* `if (v) return v`, or the chain of `||`.
Pick(order) ==
    LET held == SelectSeq(order, Held)
    IN  IF held = <<>> THEN NULL ELSE store[Resolve(Head(held))]

-----------------------------------------------------------------------------
(* The readers' orders of keys. *)

\* pickToken of api/competitions.js (24-42) and of PaymentResult.jsx (24-42).
CompetitionsOrder ==
    <<"coach_token", "both_token", ROLE, "access_token", "access",
      "auth_token", "token">>

\* pickToken of api/profile.js (2-7).
ProfileOrder ==
    <<ROLE, "both_token", "coach_token", "player_token", "referee_token",
      "club_token", "access_token">>

\* resolveEnrollmentIdsFromPid of EnrollmentCardsBulk.jsx (14-24) and the
\* coach code of CompetitionDetails.jsx (842-851).
CardsOrder ==
    <<ROLE, "coach_token", "both_token", "access_token", "access",
      "auth_token", "token">>

\* getAuthToken of PoomsaeTeamRegister.jsx (26-42).
PoomsaeOrder ==
    <<ROLE, "coach_token", "both_token", "access_token", "token", "access",
      "auth_token">>

\* pickToken of PrivateRoute.jsx (5-21): the gate of /dashboard/:role.
RouteOrder ==
    <<ROLE, "both_token", "player_token", "coach_token", "referee_token",
      "club_token", "heyat_token", "access_token">>

\* Dashboard, Sidebar, MainContent and StatsCard read the role's key only.
PanelOrder == <<ROLE>>

\* SeminarDetail.jsx (35-39): the role's key, then access_token.
SeminarOrder == <<ROLE_OR_PLAYER, "access_token">>

\* Readers that put the signed-in role's own key first.
RoleFirstOrders ==
    {ProfileOrder, CardsOrder, PoomsaeOrder, RouteOrder, PanelOrder, SeminarOrder}

ReaderOrders == RoleFirstOrders \cup {CompetitionsOrder}

\* The dashboard is mounted: PrivateRoute found a token.
DashboardOpen == Pick(RouteOrder) # NULL

\* The panels' own check: user_role and its token are present.
PanelSession == userRole # NULL /\ RoleKey(userRole) \in DOMAIN store

-----------------------------------------------------------------------------
\* Mutant: the logout list without both_token.
LogoutKeysNoBoth ==
    {"player_token", "coach_token", "referee_token", "club_token",
     "heyat_token", "board_token", "access_token"}

\* The keys Dashboard's logout removes whatever the role (Dashboard.jsx 63-73).
LogoutKeys ==
    {"both_token", "player_token", "coach_token", "referee_token",
     "club_token", "heyat_token", "board_token", "access_token"}

\* localStorage without any item.
EmptyStore == [k \in {} |-> 0]

\* localStorage.removeItem of every key in ks.
RemoveKeys(ks) == Restrict(store, DOMAIN store \ ks)

Init ==
    /\ store = EmptyStore
    /\ userRole = NULL
    /\ logins = 0

\* handleLogin after a successful response whose role the form accepts:
\* the token (when the response has one) under `${roleFromAPI}_token`,
\* then user_role.  A refused login changes nothing.
Login ==
    /\ logins < MaxLogins
    /\ \E r \in LoginRoles, hasToken \in BOOLEAN :
          /\ store' = IF hasToken
                      THEN (RoleKey(r) :> (logins + 1)) @@ store
                      ELSE store
          /\ userRole' = r
    /\ logins' = logins + 1

\* Sidebar's handleLogout (the role's key and user_role) followed by the
\* onLogout it calls, Dashboard's logout; the inactivity timer calls the
\* same logout.  Both run inside the mounted dashboard.
Logout ==
    /\ DashboardOpen
    /\ store' = RemoveKeys(LogoutKeys \cup
                           (IF userRole # NULL THEN {RoleKey(userRole)} ELSE {}))
    /\ userRole' = NULL
    /\ UNCHANGED logins

\* MainContent's fetchData answered 401: it removes the role's key and
\* user_role only.
ExpireRole ==
    /\ DashboardOpen
    /\ PanelSession
    /\ store' = RemoveKeys({RoleKey(userRole)})
    /\ userRole' = NULL
    /\ UNCHANGED logins

\* StatsCard's or Sidebar's profile request answered 401:
\* localStorage.clear().
ExpireAll ==
    /\ DashboardOpen
    /\ PanelSession
    /\ store' = EmptyStore
    /\ userRole' = NULL
    /\ UNCHANGED logins

Next == Login \/ Logout \/ ExpireRole \/ ExpireAll

Spec == Init /\ [][Next]_vars

-----------------------------------------------------------------------------
TypeOK ==
    /\ DOMAIN store \subseteq Keys
    /\ \A k \in DOMAIN store : store[k] \in 1..MaxLogins
    /\ userRole \in LoginRoles \cup {NULL}
    /\ logins \in 0..MaxLogins

\* Logging out from the dashboard leaves no token that any reader would
\* send: after Logout every reader's pick is empty, whatever roles were
\* signed in before (Dashboard.jsx logout against every pickToken order).
LogoutRevokesAccess ==
    [][Logout => \A o \in ReaderOrders : (Pick(o))' = NULL]_vars

\* The competitions API (and the payment result page) act as the role the
\* panels show: their token is the signed-in role's token.
ApiActsAsSignedInRole ==
    PanelSession => Pick(CompetitionsOrder) = store[RoleKey(userRole)]
=============================================================================
