---------------------------- MODULE CoachRegister ----------------------------
(***************************************************************************)
(* The coach's bulk registration page (CoachRegisterStudents.jsx): the    *)
(* coach selects eligible students, fills their rows, may preview a       *)
(* discount code (registerStudentsBulk with preview: true), confirms the  *)
(* amount in a dialog and registers (registerStudentsBulk, then the       *)
(* payment start).  The amounts shown are UI state; the server computes   *)
(* the charge from the students and the code it receives.                 *)
(*                                                                         *)
(* Every handler runs to its await at once, its state updates batched;    *)
(* the amounts effect (lines 250-258) runs after each handler when        *)
(* totalAmount or discountApplied changed.  A row's fields are abstracted  *)
(* to whether they pass validateRow.  Students already enrolled are       *)
(* locked (their checkbox is disabled) and left out.                       *)
(***************************************************************************)
EXTENDS Naturals, FiniteSets

CONSTANTS
    Students,     \* new eligible students (model values)
    Codes,        \* discount codes the coach may type (besides "")
    ValidCodes,   \* the codes the server accepts
    EntryFee,     \* entry_fee_rial
    NULL,
    MaxSteps,     \* bound on the coach's inputs
    Shapes        \* the forms of the preview answer the backend sends

VARIABLES
    page,         \* "loading", "form", "failed" (load error), "gateway", "cards"
    sel,          \* checked new students
    filled,       \* checked students whose row passes validateRow
    hasDiscount,
    code,         \* discountCode as typed
    box,          \* [orig, disc, final, applied]: the discount summary
    preview,      \* the preview in flight: [sel, code, total], or NULL
    loading,      \* the registration request in flight
    confirmOpen,
    sent,         \* the registration sent: [sel, code, shown], or NULL
    racedPreview, \* an input changed while a preview was in flight
    steps

vars == <<page, sel, filled, hasDiscount, code, box, preview, loading,
          confirmOpen, sent, racedPreview, steps>>

\* The server's charge for students S with code c (a valid code takes 10
\* rials off each entry).
Price(S, c) ==
    IF c \in ValidCodes THEN (EntryFee - 10) * Cardinality(S)
                        ELSE EntryFee * Cardinality(S)

B == INSTANCE BulkRegisterResponse

\* The preview answer for total t and charge p, before normalisation.
\* "irr" and "toman" are the two forms the code's comment names (line
\* 413); "both" adds the discount; "irr_null" sends amount_irr as null
\* beside amount_toman; "total_payable" names the totals as the bulk
\* registration's answer does.
Response(shape, t, p) ==
    CASE shape = "irr" -> [amount_irr |-> p]
      [] shape = "toman" -> [amount_toman |-> p \div 10]
      [] shape = "both" -> [amount_irr |-> p, amount_toman |-> p \div 10,
                            discount_amount_irr |-> t - p]
      [] shape = "irr_null" -> [amount_irr |-> B!Null, amount_toman |-> p \div 10]
      [] shape = "total_payable" -> [total_amount |-> t, payable_amount_irr |-> p]

\* totalAmount = entryFee * selectedNewIds.length
Total(S) == EntryFee * Cardinality(S)

\* Mutant: invalidateDiscount leaves discountApplied as it is.
InvalidateKeepApplied(b, tot) == [b EXCEPT !.disc = 0, !.final = tot, !.orig = tot]

\* invalidateDiscount: the applied discount is dropped, the amounts are
\* the plain total.
Invalidate(b, tot) == [applied |-> FALSE, disc |-> 0, final |-> tot, orig |-> tot]

\* The amounts effect: when totalAmount or discountApplied changed and no
\* discount is applied, the amounts are the total.
Effect(b, before, tot, totBefore) ==
    IF ~b.applied /\ (tot # totBefore \/ b.applied # before.applied)
    THEN [b EXCEPT !.orig = tot, !.disc = 0, !.final = tot]
    ELSE b

\* A handler's batched update b followed by the effect.
Render(b, S) == Effect(b, box, Total(S), Total(sel))

\* The page is open for input: loaded, no dialog over it.
Input ==
    /\ page = "form"
    /\ ~confirmOpen
    /\ steps < MaxSteps
    /\ steps' = steps + 1
    /\ racedPreview' = (racedPreview \/ preview # NULL)

Init ==
    /\ page = "loading"
    /\ sel = {}
    /\ filled = {}
    /\ hasDiscount = FALSE
    /\ code = ""
    /\ box = [orig |-> 0, disc |-> 0, final |-> 0, applied |-> FALSE]
    /\ preview = NULL
    /\ loading = FALSE
    /\ confirmOpen = FALSE
    /\ sent = NULL
    /\ racedPreview = FALSE
    /\ steps = 0

\* The eligible students arrive (locked rows for those already enrolled),
\* or the list fails to load.
Load ==
    /\ page = "loading"
    /\ page' \in {"form", "failed"}
    /\ UNCHANGED <<sel, filled, hasDiscount, code, box, preview, loading,
                   confirmOpen, sent, racedPreview, steps>>

\* Mutant: unchecking keeps the row's fields.
ClearRowKeep(f, s) == f

\* toggle's unchecked branch resets the row; a checked row starts empty.
ClearRow(f, s) == f \ {s}

\* toggle (its checkbox is disabled for locked rows).
Toggle(s) ==
    /\ Input
    /\ sel' = IF s \in sel THEN sel \ {s} ELSE sel \cup {s}
    /\ filled' = ClearRow(filled, s)
    /\ box' = Render(Invalidate(box, Total(sel)), sel')
    /\ UNCHANGED <<page, hasDiscount, code, preview, loading, confirmOpen, sent>>

\* updateRow from the weight, insurance and poomsae inputs.
EditRow(s) ==
    /\ Input
    /\ s \in sel
    /\ \E ok \in BOOLEAN : filled' = IF ok THEN filled \cup {s} ELSE filled \ {s}
    /\ box' = Render(Invalidate(box, Total(sel)), sel)
    /\ UNCHANGED <<page, sel, hasDiscount, code, preview, loading, confirmOpen, sent>>

\* The "I have a discount code" checkbox.
ToggleDiscount ==
    /\ Input
    /\ hasDiscount' = ~hasDiscount
    /\ code' = IF hasDiscount THEN "" ELSE code
    /\ box' = Render(IF hasDiscount THEN Invalidate(box, Total(sel))
                     ELSE [box EXCEPT !.applied = FALSE], sel)
    /\ UNCHANGED <<page, sel, filled, preview, loading, confirmOpen, sent>>

\* Typing a code.
TypeCode(c) ==
    /\ Input
    /\ hasDiscount
    /\ c # code
    /\ code' = c
    /\ box' = Render([box EXCEPT !.applied = FALSE], sel)
    /\ UNCHANGED <<page, sel, filled, hasDiscount, preview, loading, confirmOpen, sent>>

\* handleApplyDiscount up to its await (its button is disabled while a
\* preview runs): an empty code, no students or an invalid row ends it
\* (validateRow's updateRow invalidates the discount);
\* otherwise the preview is sent with this render's selection, code and
\* totalAmount.
ApplyDiscount ==
    /\ Input
    /\ hasDiscount
    /\ preview = NULL
    /\ box' = Render(IF code # "" /\ sel # {}
                     THEN Invalidate(box, Total(sel))
                     ELSE [box EXCEPT !.applied = FALSE], sel)
    /\ preview' = IF code # "" /\ sel # {} /\ sel \subseteq filled
                  THEN [sel |-> sel, code |-> code, total |-> Total(sel)]
                  ELSE NULL
    /\ UNCHANGED <<page, sel, filled, hasDiscount, code, loading, confirmOpen, sent>>

\* The preview answers.  Accepted: the amounts read from the normalised
\* answer are shown and the discount is applied.  Rejected or failed: the
\* amounts are the total captured at the click.
PreviewAnswer ==
    /\ preview # NULL
    /\ \E ok \in BOOLEAN, shape \in Shapes :
         /\ ok => preview.code \in ValidCodes
         /\ box' = Effect(
                     IF ok
                     THEN LET a == B!PreviewAmounts(
                                     Response(shape, preview.total,
                                              Price(preview.sel, preview.code)),
                                     preview.total)
                          IN  [orig |-> a.orig, final |-> a.final,
                               disc |-> a.disc, applied |-> TRUE]
                     ELSE [applied |-> FALSE, disc |-> 0,
                           final |-> preview.total, orig |-> preview.total],
                     box, Total(sel), Total(sel))
    /\ preview' = NULL
    /\ UNCHANGED <<page, sel, filled, hasDiscount, code, loading, confirmOpen,
                   sent, racedPreview, steps>>

\* "Confirm and pay": enabled when canSubmit and no registration runs.
OpenConfirm ==
    /\ Input
    /\ ~loading
    /\ sel # {}
    /\ sel \subseteq filled
    /\ confirmOpen' = TRUE
    /\ UNCHANGED <<page, sel, filled, hasDiscount, code, box, preview, loading, sent>>

CloseConfirm ==
    /\ page = "form"
    /\ confirmOpen
    /\ ~loading
    /\ confirmOpen' = FALSE
    /\ UNCHANGED <<page, sel, filled, hasDiscount, code, box, preview, loading,
                   sent, racedPreview, steps>>

\* submit up to its await.  validateRow of every selected row calls
\* updateRow, which invalidates the discount; the check that a typed code
\* was applied reads this render's discountApplied.  The request carries
\* the selection and the code; the dialog showed finalAmount.
Submit ==
    /\ page = "form"
    /\ confirmOpen
    /\ ~loading
    /\ box' = Render(Invalidate(box, Total(sel)), sel)
    /\ IF hasDiscount /\ code # "" /\ ~box.applied
       THEN UNCHANGED <<loading, sent>>
       ELSE /\ loading' = TRUE
            /\ sent' = [sel |-> sel, code |-> IF hasDiscount THEN code ELSE "",
                        shown |-> box.final]
    /\ UNCHANGED <<page, sel, filled, hasDiscount, code, preview, confirmOpen,
                   racedPreview, steps>>

\* The registration answers: the gateway form is submitted (directly, or
\* after startPaymentIntent or startGroupPayment), the cards page opens
\* (no payment required), or an error is shown; the dialog closes.
SubmitAnswer ==
    /\ loading
    /\ page' \in {"gateway", "cards", "form"}
    /\ loading' = FALSE
    /\ confirmOpen' = FALSE
    /\ UNCHANGED <<sel, filled, hasDiscount, code, box, preview, sent,
                   racedPreview, steps>>

Next ==
    \/ Load
    \/ \E s \in Students : Toggle(s) \/ EditRow(s)
    \/ ToggleDiscount
    \/ \E c \in Codes : TypeCode(c)
    \/ ApplyDiscount
    \/ PreviewAnswer
    \/ OpenConfirm
    \/ CloseConfirm
    \/ Submit
    \/ SubmitAnswer

Spec == Init /\ [][Next]_vars

-----------------------------------------------------------------------------
TypeOK ==
    /\ page \in {"loading", "form", "failed", "gateway", "cards"}
    /\ sel \subseteq Students
    /\ filled \subseteq sel
    /\ hasDiscount \in BOOLEAN
    /\ code \in {""} \cup Codes
    /\ box \in [orig : Nat, disc : Nat, final : Nat, applied : BOOLEAN]
    /\ preview \in {NULL} \cup [sel : SUBSET Students, code : Codes, total : Nat]
    /\ loading \in BOOLEAN
    /\ confirmOpen \in BOOLEAN
    /\ sent \in {NULL} \cup [sel : SUBSET Students, code : {""} \cup Codes, shown : Nat]
    /\ racedPreview \in BOOLEAN
    /\ steps \in 0..MaxSteps

\* The amount the coach confirmed in the dialog is what the server charges
\* for the registration sent (the students and code of the request).
ConfirmedAmountCharged ==
    sent # NULL => sent.shown = Price(sent.sel, sent.code)

\* The same, for every session in which no input changed while a discount
\* preview was in flight: invalidateDiscount, the amounts effect, the code
\* and checkbox handlers and submit's applied check keep the confirmed
\* amount equal to the charge.
ConfirmedAmountChargedUnraced ==
    ~racedPreview => ConfirmedAmountCharged
=============================================================================
