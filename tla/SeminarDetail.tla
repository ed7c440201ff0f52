---------------------------- MODULE SeminarDetail ----------------------------
(***************************************************************************)
(* The seminar page, SeminarDetail.jsx.  Its first effect reads the        *)
(* seminar and the dashboard profile together (Promise.all); "register"    *)
(* opens the confirmation, whose button posts the registration with the   *)
(* roles of the signed-in role (roleArrayFromRole) and is disabled while  *)
(* the post is in flight.  The answer's status, or a 400/409 whose detail  *)
(* says the registration exists, marks the seminar registered.            *)
(*                                                                         *)
(* The role and the presence of a token are read from localStorage at     *)
(* render and are fixed for a visit.  The profiles only fill the read-only *)
(* fields of the confirmation and are left out, as are the texts.  The    *)
(* server keeps the roles it registered, or NULL; it is not in the        *)
(* repository, so its answers are free, except that a post it handled     *)
(* for a user it had registered answers as a duplicate.                   *)
(***************************************************************************)
EXTENDS Naturals

CONSTANTS
    NULL,
    Roles,        \* values of user_role ("player" when absent)
    AllowedSets,  \* the seminar's allowed_roles
    MaxPosts      \* bound on registration posts

VARIABLES
    role, token,  \* the visit's role and whether it has a token
    page,         \* "loading", "error" or "shown"
    allowed,      \* the seminar's allowed_roles once loaded
    showConfirm, registering, already, success,
    err,          \* NULL or the kind of the message shown
    inflight,     \* the roles of the post in flight, or NULL
    srv,          \* the roles the server registered, or NULL
    posts

vars == <<role, token, page, allowed, showConfirm, registering, already,
          success, err, inflight, srv, posts>>

\* roleArrayFromRole.
RoleArray(r) ==
    IF r = "both" THEN {"coach", "referee"}
    ELSE IF r \in {"player", "coach", "referee"} THEN {r} ELSE {}

\* canRegisterByRole, once the seminar is loaded.
CanRegisterByRole ==
    /\ role \notin {"club", "heyat", "board"}
    /\ allowed = {} \/ RoleArray(role) \cap allowed # {}

Init ==
    /\ role \in Roles /\ token \in BOOLEAN
    /\ page = "loading" /\ allowed = {}
    /\ showConfirm = FALSE /\ registering = FALSE /\ already = FALSE
    /\ success = FALSE /\ err = NULL /\ inflight = NULL /\ srv = NULL
    /\ posts = 0

-----------------------------------------------------------------------------
\* The first effect's answers: the seminar (with its allowed roles), or
\* the error page when either request fails.
Load ==
    /\ page = "loading"
    /\ \/ \E a \in AllowedSets : page' = "shown" /\ allowed' = a /\ UNCHANGED err
       \/ page' = "error" /\ err' = "load" /\ UNCHANGED allowed
    /\ UNCHANGED <<role, token, showConfirm, registering, already, success,
                   inflight, srv, posts>>

\* onClickRegister: the button is shown until the seminar is registered
\* and is disabled when the role may not register.
ClickRegister ==
    /\ page = "shown" /\ ~already /\ ~showConfirm /\ CanRegisterByRole
    /\ showConfirm' = TRUE /\ success' = FALSE
    /\ err' = IF token THEN err ELSE "login"
    /\ UNCHANGED <<role, token, page, allowed, registering, already, inflight,
                   srv, posts>>

\* onConfirmAndPay (disabled while registering): without a token or a
\* role of the seminar roles, the message only; otherwise the post.
Confirm ==
    /\ page = "shown" /\ showConfirm /\ ~already /\ ~registering
    /\ posts < MaxPosts
    /\ \/ ~token /\ err' = "login"
          /\ UNCHANGED <<registering, success, inflight, posts>>
       \/ token /\ RoleArray(role) = {} /\ err' = "role"
          /\ UNCHANGED <<registering, success, inflight, posts>>
       \/ token /\ RoleArray(role) # {}
          /\ registering' = TRUE /\ err' = NULL /\ success' = FALSE
          /\ inflight' = RoleArray(role) /\ posts' = posts + 1
    /\ UNCHANGED <<role, token, page, allowed, showConfirm, already, srv>>

\* The post's answer.  The server registers the roles (status "ok" or
\* another status), finds the user registered (a 400/409 "exists"),
\* refuses otherwise (another 400, a 401, a 5xx), or handles the post and
\* the answer is lost (a network error).  finally clears registering.
Answer ==
    /\ inflight # NULL
    /\ \/ /\ srv = NULL /\ srv' = inflight
          /\ success' = TRUE /\ already' = TRUE /\ showConfirm' = FALSE
          /\ UNCHANGED err
       \/ /\ srv # NULL /\ UNCHANGED srv
          /\ already' = TRUE /\ err' = "exists"
          /\ UNCHANGED <<success, showConfirm>>
       \/ /\ srv = NULL /\ UNCHANGED srv
          /\ err' = "refused" /\ UNCHANGED <<success, showConfirm, already>>
       \/ /\ srv = NULL /\ srv' = inflight
          /\ err' = "network" /\ UNCHANGED <<success, showConfirm, already>>
    /\ registering' = FALSE /\ inflight' = NULL
    /\ UNCHANGED <<role, token, page, allowed, posts>>

Next == Load \/ ClickRegister \/ Confirm \/ Answer

\* The server answers every request; the user's clicks are not assumed.
Spec == Init /\ [][Next]_vars /\ WF_vars(Load) /\ WF_vars(Answer)

-----------------------------------------------------------------------------
TypeOK ==
    /\ page \in {"loading", "error", "shown"}
    /\ registering = (inflight # NULL)
    /\ posts \in 0..MaxPosts

\* The page shows "registered" only for a registration the server holds.
RegisteredIsHeld == already => srv # NULL

\* A registration post names only roles the seminar admits: the button
\* is enabled when some role of the user is allowed, and the post sends
\* every role of the user.
PostsAllowedRoles == inflight # NULL /\ allowed # {} => inflight \subseteq allowed

\* The post in flight ends.
RegistrationSettles == registering ~> ~registering
=============================================================================
