\* Every day of four years around the competitions of 1402-1405, with
\* the Gregorian leap day of 2024 and the Jalali leap year 1403.
CONSTANTS
    Years = {2023, 2024, 2025, 2026}
SPECIFICATION Spec
INVARIANT ShowsJalaliDate
CHECK_DEADLOCK FALSE
