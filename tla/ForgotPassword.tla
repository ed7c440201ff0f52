--------------------------- MODULE ForgotPassword ---------------------------
(***************************************************************************)
(* The password recovery modal, ForgotPasswordModal.jsx, opened from the  *)
(* login modal's link (LoginModal.jsx handleForgotClick, userpanel.js      *)
(* onForgotPassword).  Step "phone" asks for the mobile number and posts   *)
(* forgot/send; step "code" shows four one-digit boxes, posts              *)
(* forgot/verify and offers a resend once the cool-down has run out; step  *)
(* "result" shows the new credentials.  One `loading` flag disables the   *)
(* buttons while a request is in flight.  A 429 answer with a numeric     *)
(* retry_after sets the cool-down.                                         *)
(*                                                                         *)
(* The phone text is abstracted to whether it passes /^09\d{9}$/ after    *)
(* normalizeDigits; the code is the sequence of digits of the string, a   *)
(* box being 0-based as in the code.  The answers of a modal that was     *)
(* closed change nothing on the page and are dropped with it.            *)
(***************************************************************************)
EXTENDS Integers, Sequences

CONSTANTS
    NULL,         \* no request in flight
    Digits,       \* the digits a box may hold
    CoolTime,     \* setCooldown(180) after a code is sent, in ticks
    RetryAfters,  \* the numbers a 429 answer may carry as retry_after
    MaxSends,     \* bound on send-code requests
    MaxTypes      \* bound on keystrokes in the boxes

Boxes == 0..3

VARIABLES
    shown,        \* userpanel's showForgotModal
    step,         \* "phone", "code" or "result"
    phoneOk,      \* the phone field is a valid mobile number
    code,         \* the code string, as a sequence of digits
    loading,
    cooldown,
    req,          \* the request in flight of the mounted modal
    sends, types

vars == <<shown, step, phoneOk, code, loading, cooldown, req, sends, types>>

Init ==
    /\ shown = FALSE /\ step = "phone" /\ phoneOk = FALSE /\ code = <<>>
    /\ loading = FALSE /\ cooldown = 0 /\ req = NULL
    /\ sends = 0 /\ types = 0

\* The onChange of box i: code.substring(0, i) + val + code.substring(i + 1),
\* where val is at most one digit.
SetBox(s, i, val) ==
    SubSeq(s, 1, IF i < Len(s) THEN i ELSE Len(s)) \o val
    \o SubSeq(s, i + 2, Len(s))

\* What box i shows: code[i] || "".
BoxValue(s, i) == IF i < Len(s) THEN <<s[i + 1]>> ELSE <<>>

-----------------------------------------------------------------------------
\* The login modal's link closes it and mounts a fresh recovery modal.
OpenForgot ==
    /\ ~shown
    /\ shown' = TRUE /\ step' = "phone" /\ phoneOk' = FALSE /\ code' = <<>>
    /\ loading' = FALSE /\ cooldown' = 0 /\ req' = NULL
    /\ UNCHANGED <<sends, types>>

\* The close button (and the result's close): the modal unmounts.
CloseForgot ==
    /\ shown
    /\ shown' = FALSE /\ req' = NULL
    /\ UNCHANGED <<step, phoneOk, code, loading, cooldown, sends, types>>

\* The cool-down effect's interval.
Tick ==
    /\ shown /\ cooldown > 0
    /\ cooldown' = cooldown - 1
    /\ UNCHANGED <<shown, step, phoneOk, code, loading, req, sends, types>>

TypePhone ==
    /\ shown /\ step = "phone"
    /\ phoneOk' = ~phoneOk
    /\ UNCHANGED <<shown, step, code, loading, cooldown, req, sends, types>>

\* handleSendCode, from the phone step's submit (disabled only while
\* loading) or the code step's resend (disabled while the cool-down runs).
\* An invalid phone only sets the error.
SendCode ==
    /\ shown /\ ~loading /\ sends < MaxSends
    /\ \/ step = "phone"
       \/ step = "code" /\ cooldown = 0
    /\ phoneOk
    /\ loading' = TRUE /\ req' = "send" /\ sends' = sends + 1
    /\ UNCHANGED <<shown, step, phoneOk, code, cooldown, types>>

\* The send answer: ok puts the normalized phone it sent back in the field
\* and moves to the code step with the 180-second cool-down; a 429 with a numeric retry_after sets the cool-down to it
\* (not below 0); any other failure only shows the error.
SendAnswer ==
    /\ req = "send"
    /\ req' = NULL /\ loading' = FALSE
    /\ \/ step' = "code" /\ cooldown' = CoolTime /\ phoneOk' = TRUE
       \/ \E r \in RetryAfters :
            /\ cooldown' = (IF r > 0 THEN r ELSE 0)
            /\ UNCHANGED <<step, phoneOk>>
       \/ UNCHANGED <<step, cooldown, phoneOk>>
    /\ UNCHANGED <<shown, code, sends, types>>

\* A keystroke in box i: a digit, or nothing when the box is cleared.
TypeBox(i, val) ==
    /\ shown /\ step = "code" /\ types < MaxTypes
    /\ code' = SetBox(code, i, val)
    /\ types' = types + 1
    /\ UNCHANGED <<shown, step, phoneOk, loading, cooldown, req, sends>>

Keystroke ==
    \E i \in Boxes, val \in {<<d>> : d \in Digits} \cup {<<>>} : TypeBox(i, val)

\* handleVerify: a code of four digits is posted.
Verify ==
    /\ shown /\ step = "code" /\ ~loading /\ Len(code) = 4
    /\ loading' = TRUE /\ req' = "verify"
    /\ UNCHANGED <<shown, step, phoneOk, code, cooldown, sends, types>>

\* The verify answer: ok shows the credentials, a failure the error.
VerifyAnswer ==
    /\ req = "verify"
    /\ req' = NULL /\ loading' = FALSE
    /\ step' \in {"result", step}
    /\ UNCHANGED <<shown, phoneOk, code, cooldown, sends, types>>

Next ==
    \/ OpenForgot \/ CloseForgot \/ Tick \/ TypePhone
    \/ SendCode \/ SendAnswer \/ Keystroke \/ Verify \/ VerifyAnswer

Spec == Init /\ [][Next]_vars

-----------------------------------------------------------------------------
TypeOK ==
    /\ shown \in BOOLEAN /\ loading \in BOOLEAN /\ phoneOk \in BOOLEAN
    /\ step \in {"phone", "code", "result"}
    /\ code \in Seq(Digits) /\ Len(code) <= 4
    /\ cooldown \in 0..CoolTime \cup RetryAfters
    /\ req \in {NULL, "send", "verify"}

\* No send-code request leaves while the cool-down the server set is
\* running: handleSendCode sets it from a 429's retry_after.
SendRespectsCooldown ==
    [][req # "send" /\ req' = "send" => cooldown = 0]_vars

\* A digit typed into a box is what that box shows afterwards.
BoxShowsTyped ==
    [][\A i \in Boxes, d \in Digits :
          TypeBox(i, <<d>>) => BoxValue(code', i) = <<d>>]_vars
=============================================================================
