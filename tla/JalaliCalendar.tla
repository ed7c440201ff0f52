---------------------------- MODULE JalaliCalendar ----------------------------
(***************************************************************************)
(* The Jalali (Solar Hijri) calendar of CompetitionDetails.jsx, lines      *)
(* 199-304: jalCal finds the March day of Nowruz of a Jalali year from     *)
(* the table of break years, g2d and d2g convert between Gregorian dates   *)
(* and Julian day numbers, d2j turns a day number into a Jalali date, and *)
(* isoToJalaliFa shows an ISO date of the server (registration start and  *)
(* end, draw, weigh-in and competition dates, a birth date) as yyyy/mm/dd. *)
(* The digits, the padding and the Persian numerals of the text are left  *)
(* out: a shown date is the triple <<jy, jm, jd>>.                         *)
(*                                                                         *)
(* JavaScript's Math.trunc division and its % (the sign of the dividend)   *)
(* are kept: Div and Rem below.  All divisors are positive.               *)
(*                                                                         *)
(* The reference is the calendar itself: the Gregorian leap rule, the     *)
(* 33-year rule of Jalali leap years, which is exact for the years        *)
(* 1343-1472, and Nowruz 1401 on 21 March 2022.                           *)
(***************************************************************************)
EXTENDS Integers, Sequences, FiniteSetsExt

CONSTANTS
    Years         \* the Gregorian years of the ISO dates the server sends

VARIABLES
    iso,          \* the ISO date to show: <<gy, gm, gd>>
    shown         \* what isoToJalaliFa shows for it: <<jy, jm, jd>>

vars == <<iso, shown>>

\* const div = (a, b) => Math.trunc(a / b);
Div(a, b) == IF a >= 0 THEN a \div b ELSE -((-a) \div b)

\* a % b in JavaScript: the remainder of the truncating division.
Rem(a, b) == a - b * Div(a, b)

JalBreaks ==
    << -61, 9, 38, 199, 426, 686, 756, 818, 1111, 1181, 1210, 1635, 2060,
       2097, 2192, 2262, 2324, 2394, 2456, 3178 >>

\* jalCal's for loop from i: <<jp, jump, leapJ>> at its break.
RECURSIVE JalLoop(_, _, _, _, _)
JalLoop(jy, i, jp, jump, leapJ) ==
    IF i > Len(JalBreaks) THEN <<jp, jump, leapJ>>
    ELSE LET jm  == JalBreaks[i]
             jmp == jm - jp
         IN  IF jy < jm THEN <<jp, jmp, leapJ>>
             ELSE JalLoop(jy, i + 1, jm, jmp,
                          leapJ + Div(jmp, 33) * 8 + Div(Rem(jmp, 33), 4))

\* jalCal(jy): the Gregorian year of Nowruz and its day in March (its
\* leap flag is not read by d2j and is left out).
JalCal(jy) ==
    LET gy == jy + 621 IN
    IF jy < JalBreaks[1] \/ jy >= JalBreaks[Len(JalBreaks)]
    THEN [gy |-> gy, march |-> 20]
    ELSE LET s     == JalLoop(jy, 2, JalBreaks[1], 0, -14)
             jp    == s[1]
             jump  == s[2]
             n     == jy - jp
             leapJ == s[3] + Div(n, 33) * 8 + Div(Rem(n, 33), 4)
                      + (IF Rem(jump, 33) = 4 /\ jump - n = 4 THEN 1 ELSE 0)
             leapG == Div(gy, 4) - Div(Div(gy, 100) + 1, 4) + Div(gy, 400) - 70
         IN  [gy |-> gy, march |-> 20 + leapJ - leapG]

\* g2d(gy, gm, gd): the Julian day number of a Gregorian date.
G2D(gy, gm, gd) ==
    LET a == Div(14 - gm, 12)
        y == gy + 4800 - a
        m == gm + 12 * a - 3
    IN  gd + 365 * y + Div(y, 4) - Div(y, 100) + Div(y, 400)
           + Div(153 * m + 2, 5) - 32045

\* d2g(jdn): the Gregorian date of a Julian day number.
D2G(jdn) ==
    LET j  == jdn + 32044
        g  == Div(j, 146097)
        dg == Rem(j, 146097)
        c  == Div((Div(dg, 36524) + 1) * 3, 4)
        dc == dg - c * 36524
        b  == Div(dc, 1461)
        db == Rem(dc, 1461)
        a  == Div((Div(db, 365) + 1) * 3, 4)
        da == db - a * 365
        m0 == Div(5 * da + 308, 153) - 2
    IN  [gy |-> g * 400 + c * 100 + b * 4 + a - 4800 + Div(m0 + 2, 12),
         gm |-> Rem(m0 + 2, 12) + 1,
         gd |-> da - Div(153 * (m0 + 2) + 2, 5) + 1]

\* d2j(jdn): the Jalali year is the Gregorian year less 621, or one less
\* when the day falls before that year's Nowruz; six months of 31 days,
\* then months of 30 (Math.floor is \div for a positive divisor).
D2J(jdn) ==
    LET gy   == D2G(jdn).gy
        late == jdn >= G2D(gy, 3, JalCal(gy - 621).march)
        jy   == IF late THEN gy - 621 ELSE gy - 622
        jd0  == IF late THEN jdn - G2D(gy, 3, JalCal(gy - 621).march) + 1
                        ELSE jdn - G2D(gy - 1, 3, JalCal(gy - 622).march) + 1
    IN  IF jd0 <= 186
        THEN LET jm == 1 + (jd0 - 1) \div 31 IN <<jy, jm, jd0 - 31 * (jm - 1)>>
        ELSE LET jm == 7 + (jd0 - 187) \div 30 IN <<jy, jm, jd0 - 186 - 30 * (jm - 7)>>

GregorianToJalali(gy, gm, gd) == D2J(G2D(gy, gm, gd))

\* isoToJalaliFa of a yyyy-mm-dd string: a year before 1700 is taken
\* for a Jalali year and shown as it is.
IsoToJalaliFa(d) ==
    IF d[1] < 1700 THEN d ELSE GregorianToJalali(d[1], d[2], d[3])

-----------------------------------------------------------------------------
(* The reference calendar. *)

GLeap(y) == (y % 4 = 0 /\ y % 100 # 0) \/ y % 400 = 0

GMonthLen(y, m) ==
    CASE m = 2              -> IF GLeap(y) THEN 29 ELSE 28
      [] m \in {4, 6, 9, 11} -> 30
      [] OTHER              -> 31

\* The ISO dates of the years: every valid day.
Dates == UNION {{<<y, m, d>> : d \in 1..GMonthLen(y, m)} : y \in Years, m \in 1..12}

Origin == 2022

\* Days from 1 January of Origin.
RefDay(y, m, d) ==
    MapThenSumSet(LAMBDA k : IF GLeap(k) THEN 366 ELSE 365, Origin..(y - 1))
    + MapThenSumSet(LAMBDA k : GMonthLen(y, k), 1..(m - 1)) + d - 1

JLeap(jy) == (jy % 33) \in {1, 5, 9, 13, 17, 22, 26, 30}

JMonthLen(jy, m) ==
    CASE m <= 6  -> 31
      [] m <= 11 -> 30
      [] OTHER   -> IF JLeap(jy) THEN 30 ELSE 29

\* The day of Nowruz of a Jalali year from 1401 on.
RefNowruz(jy) ==
    RefDay(2022, 3, 21)
    + MapThenSumSet(LAMBDA k : IF JLeap(k) THEN 366 ELSE 365, 1401..(jy - 1))

RefJalali(d) ==
    LET t     == RefDay(d[1], d[2], d[3])
        jy    == CHOOSE k \in (Origin - 621)..(d[1] - 621) :
                   RefNowruz(k) <= t /\ t < RefNowruz(k + 1)
        start(m) == MapThenSumSet(LAMBDA k : JMonthLen(jy, k), 1..(m - 1))
        jm    == CHOOSE m \in 1..12 : start(m) <= t - RefNowruz(jy)
                                      /\ t - RefNowruz(jy) < start(m + 1)
    IN  <<jy, jm, t - RefNowruz(jy) - start(jm) + 1>>

\* The day of a Jalali date, counted as RefDay counts.
RefJDay(j) ==
    RefNowruz(j[1]) + MapThenSumSet(LAMBDA k : JMonthLen(j[1], k), 1..(j[2] - 1))
    + j[3] - 1

-----------------------------------------------------------------------------
(* The insurance card's issue date (CompetitionDetails.jsx 974-1047).  The  *)
(* date picker's minDate is the competition date in the Persian calendar   *)
(* one year back (DateObject's subtract, taken to keep the month and day   *)
(* and to clamp the 30th of Esfand); validateKY and validatePO refuse a    *)
(* date before the competition date one Gregorian year back (setFullYear,  *)
(* which turns 29 February into 1 March).  Both end 3 days before.         *)

\* minIssueDO: the day of the first date the picker offers.
MinIssueDay(d) ==
    LET j == RefJalali(d)
        y == j[1] - 1
    IN  RefJDay(<<y, j[2], IF j[3] > JMonthLen(y, j[2]) THEN JMonthLen(y, j[2]) ELSE j[3]>>)

\* oldest1y: the day of the first date validation accepts.
OldestDay(d) ==
    IF d[3] > GMonthLen(d[1] - 1, d[2]) THEN RefDay(d[1] - 1, 3, 1)
    ELSE RefDay(d[1] - 1, d[2], d[3])

-----------------------------------------------------------------------------
(* A date of the server is shown; showing it again shows the same text. *)

Init ==
    /\ iso \in Dates
    /\ shown = IsoToJalaliFa(iso)

Next == UNCHANGED vars

Spec == Init /\ [][Next]_vars

\* fmtDateFa shows a date the server sends in ISO form as the Jalali date
\* of that day.
ShowsJalaliDate == shown = RefJalali(iso)

\* For a competition on iso, the picker offers an issue date exactly when
\* validation accepts it as not expired: the windows start on the same
\* day.
InsuranceWindowAgrees == MinIssueDay(iso) = OldestDay(iso)
=============================================================================
