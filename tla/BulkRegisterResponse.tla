------------------------- MODULE BulkRegisterResponse -------------------------
(***************************************************************************)
(* normalizeBulkRegisterResponse (api/competitions.js) and the way the     *)
(* coach's discount preview reads its result (CoachRegisterStudents.jsx). *)
(*                                                                         *)
(* A response is a function from the fields the backend sent to their     *)
(* values.  A value is a natural number, or one of the JavaScript values  *)
(* that Number() does not take to a number unchanged: null, "" (both 0),   *)
(* and a string that is not a number (NaN).  A field the response lacks   *)
(* reads as undefined.  Amounts are never negative, so these JavaScript   *)
(* values, and NaN, are coded as negative integers.                        *)
(***************************************************************************)
EXTENDS Integers, Sequences

Undefined == -1
Null == -2
EmptyString == -3
NotANumber == -4
NaN == -5

\* res.k, undefined when the response lacks k.
Field(res, k) == IF k \in DOMAIN res THEN res[k] ELSE Undefined

\* Number(v).
ToNumber(v) ==
    CASE v \in Nat -> v
      [] v \in {Null, EmptyString} -> 0
      [] OTHER -> NaN

\* Number.isFinite(n) for the result of Number().
IsFinite(n) == n # NaN

\* v == null (null or undefined).
Nullish(v) == v \in {Null, Undefined}

\* pickNum(res[k1], res[k2], ...): the first Number() that is finite.
RECURSIVE PickNum(_, _)
PickNum(res, keys) ==
    IF keys = <<>> THEN Null
    ELSE IF IsFinite(ToNumber(Field(res, Head(keys))))
         THEN ToNumber(Field(res, Head(keys)))
         ELSE PickNum(res, Tail(keys))

\* res[k1] ?? res[k2] ?? ... ?? d
RECURSIVE Coalesce(_, _, _)
Coalesce(res, keys, d) ==
    IF keys = <<>> THEN d
    ELSE IF ~Nullish(Field(res, Head(keys))) THEN Field(res, Head(keys))
         ELSE Coalesce(res, Tail(keys), d)

AmountKeys == <<"amount_irr", "amountIrr", "amount", "total_amount",
                "totalAmount", "total_amount_irr", "totalAmountIrr",
                "payable_amount_irr", "payableAmountIrr">>
TomanKeys == <<"amount_toman", "amountToman">>
DiscountKeys == <<"discount_amount_irr", "discountAmountIrr", "discount_irr",
                  "discountIrr", "discount_amount", "discountAmount", "discount">>
PayableKeys == <<"payable_amount_irr", "payableAmountIrr", "final_amount_irr",
                 "finalAmountIrr", "amount_after_discount_irr",
                 "amountAfterDiscountIrr", "payable", "final_amount", "finalAmount">>

\* pickNum(...discount...) || 0
DiscountIrr(res) == LET d == PickNum(res, DiscountKeys) IN IF d \in Nat THEN d ELSE 0

\* payable_irr, or max(0, amount_irr - discount_irr), or null.
PayableIrr(res) ==
    LET p == PickNum(res, PayableKeys)
        a == PickNum(res, AmountKeys)
    IN  IF p # Null THEN p
        ELSE IF a # Null THEN IF a > DiscountIrr(res) THEN a - DiscountIrr(res) ELSE 0
        ELSE Null

\* The fields normalizeBulkRegisterResponse sets over ...res.
Normalized(res) ==
    [amount_irr |-> PickNum(res, AmountKeys),
     amount_toman |-> PickNum(res, TomanKeys),
     discount_irr |-> DiscountIrr(res),
     payable_irr |-> PayableIrr(res),
     payment_intent_public_id |->
        Coalesce(res, <<"payment_intent_public_id", "paymentIntentPublicId", "pid">>, Null),
     group_payment_id |-> Coalesce(res, <<"group_payment_id", "groupPaymentId", "gp">>, Null),
     payment_required |-> Coalesce(res, <<"payment_required", "paymentRequired">>, Null),
     enrollment_ids |-> Coalesce(res, <<"enrollment_ids", "enrollmentIds", "ids">>, Null)]

\* normalizeBulkRegisterResponse: the response with those fields replaced.
NormalizeBulkRegisterResponse(res) ==
    LET n == Normalized(res)
    IN  [k \in DOMAIN res \cup DOMAIN n |-> IF k \in DOMAIN n THEN n[k] ELSE res[k]]

\* The preview's final amount: amount_irr when not null, else
\* amount_toman * 10, else the legacy fields, else totalAmount (oa).
PreviewFinal(data, oa) ==
    LET fa1 == IF ~Nullish(Field(data, "amount_irr"))
               THEN ToNumber(Field(data, "amount_irr")) ELSE NaN
        toman == IF ~Nullish(Field(data, "amount_toman"))
                 THEN ToNumber(Field(data, "amount_toman")) ELSE NaN
        fa2 == IF IsFinite(fa1) THEN fa1
               ELSE IF IsFinite(toman) THEN toman * 10 ELSE NaN
        fa3 == IF IsFinite(fa2) THEN fa2
               ELSE ToNumber(Coalesce(data, <<"amount_rial", "final_amount_rial",
                                              "final_amount", "amount">>, oa))
    IN  IF IsFinite(fa3) THEN fa3 ELSE oa

\* The preview's discount: discount_amount_irr, discount_amount_rial, or
\* max(0, oa - fa).
PreviewDiscount(data, oa) ==
    LET d1 == ToNumber(Field(data, "discount_amount_irr"))
        d2 == ToNumber(Field(data, "discount_amount_rial"))
        fa == PreviewFinal(data, oa)
    IN  IF IsFinite(d1) THEN d1
        ELSE IF IsFinite(d2) THEN d2
        ELSE IF oa > fa THEN oa - fa ELSE 0

\* The amounts the preview sets: originalAmount, discountAmount, finalAmount.
PreviewAmounts(res, oa) ==
    LET data == NormalizeBulkRegisterResponse(res)
    IN  [orig |-> oa, final |-> PreviewFinal(data, oa),
         disc |-> PreviewDiscount(data, oa)]
=============================================================================
