----------------------------- MODULE FetchOnce -----------------------------
(***************************************************************************)
(* What a call of tryFirst (api/competitions.js) promises its caller: the *)
(* candidate URLs are alternative addresses of one backend endpoint, and  *)
(* the call behaves like a single fetch of that endpoint.  Within a call  *)
(* the endpoint handles the request at most once; the call returns data   *)
(* exactly when the endpoint answered with success; it fails only when    *)
(* the endpoint answered with an error, a transfer failed, or no          *)
(* candidate is served.  Every call ends.                                  *)
(***************************************************************************)
EXTENDS Naturals

CONSTANT MaxCalls    \* bound on the calls made

VARIABLES
    route,      \* index of the candidate the backend serves, 0 for none
    pc,         \* "idle", "busy", "returned" or "thrown"
    answer,     \* the endpoint's answer in this call: "none", "ok", "http", "404", "net"
    net,        \* a transfer failed in this call
    hits,       \* requests the endpoint has handled, over all calls
    calls       \* calls made

vars == <<route, pc, answer, net, hits, calls>>

Init ==
    /\ route \in Nat
    /\ pc = "idle"
    /\ answer = "none"
    /\ net = FALSE
    /\ hits = 0
    /\ calls = 0

Call ==
    /\ pc # "busy"
    /\ calls < MaxCalls
    /\ pc' = "busy"
    /\ answer' = "none"
    /\ net' = FALSE
    /\ calls' = calls + 1
    /\ UNCHANGED <<route, hits>>

\* The endpoint handles the request once and answers a; an answer of data
\* or of an error other than "not found" or a lost response ends the call.
Reach(a) ==
    /\ pc = "busy"
    /\ route # 0
    /\ answer = "none"
    /\ answer' = a
    /\ hits' = hits + 1
    /\ pc' = CASE a = "ok"   -> "returned"
               [] a = "http" -> "thrown"
               [] OTHER      -> pc
    /\ UNCHANGED <<route, net, calls>>

\* A request is lost on its way.
Lose ==
    /\ pc = "busy"
    /\ net' = TRUE
    /\ UNCHANGED <<route, pc, answer, hits, calls>>

\* The call fails: the endpoint said no, a transfer failed, or nothing
\* serves the request.
Fail ==
    /\ pc = "busy"
    /\ answer # "ok"
    /\ answer # "none" \/ route = 0 \/ net
    /\ pc' = "thrown"
    /\ UNCHANGED <<route, answer, net, hits, calls>>

Next ==
    \/ Call
    \/ \E a \in {"ok", "http", "404", "net"} : Reach(a)
    \/ Lose
    \/ Fail

\* A call in progress ends.
Spec == Init /\ [][Next]_vars /\ WF_vars(\E a \in {"ok", "http"} : Reach(a)) /\ WF_vars(Fail)
=============================================================================
