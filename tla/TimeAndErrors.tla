---- MODULE TimeAndErrors ----
(***************************************************************************)
(* Timestamps and errors of the core, as operators.                        *)
(*                                                                         *)
(* KronroeTimestamp (kronroe_time.rs): microseconds since 1970, written    *)
(* and read back as RFC 3339 text.  A timestamp is <<days, seconds,        *)
(* micros>> here; a text is its fields, the parts of a date being what     *)
(* stands between the hyphens.                                             *)
(***************************************************************************)
EXTENDS Integers, Sequences

(* The last year whose microseconds all fit in 64 bits.                    *)
MaxYear == 294246

Refused == << >>
NotANumber == -1

IsLeapYear(year) == (year % 4 = 0 /\ year % 100 # 0) \/ year % 400 = 0
DaysInMonth(year, month) ==
    IF month \in {4, 6, 9, 11} THEN 30
    ELSE IF month # 2 THEN 31
    ELSE IF IsLeapYear(year) THEN 29 ELSE 28
ValidDate(year, month, day) ==
    month \in 1..12 /\ day \in 1..DaysInMonth(year, month)
ValidTime(hour, minute, second) == hour <= 23 /\ minute <= 59 /\ second <= 59

(* Days since 1970 of a date, counting years from March: eras of 400 years. *)
DaysFromCivil(year, month, day) ==
    LET y   == IF month <= 2 THEN year - 1 ELSE year
        era == y \div 400
        yoe == y - era * 400
        doy == (153 * (IF month > 2 THEN month - 3 ELSE month + 9) + 2) \div 5 + day - 1
        doe == yoe * 365 + yoe \div 4 - yoe \div 100 + doy
    IN  era * 146097 + doe - 719468

CivilFromDays(days) ==
    LET era   == (days + 719468) \div 146097
        doe   == days + 719468 - era * 146097
        yoe   == (doe - doe \div 1460 + doe \div 36524 - doe \div 146096) \div 365
        doy   == doe - (365 * yoe + yoe \div 4 - yoe \div 100)
        mp    == (5 * doy + 2) \div 153
        month == IF mp < 10 THEN mp + 3 ELSE mp - 9
        year  == yoe + era * 400
    IN  [year |-> IF month <= 2 THEN year + 1 ELSE year, month |-> month,
         day |-> doy - (153 * mp + 2) \div 5 + 1]

-----------------------------------------------------------------------------
(* The fraction: six digits without the trailing zeros, none for zero.     *)
Digit(micros, i) == (micros \div (10 ^ (6 - i))) % 10
Fraction(micros) ==
    LET width == CHOOSE w \in 0..6 : /\ \A i \in (w + 1)..6 : Digit(micros, i) = 0
                                     /\ w = 0 \/ Digit(micros, w) # 0
    IN  [i \in 1..width |-> Digit(micros, i)]
ReadFraction(digits) ==
    LET d == [i \in 1..6 |-> IF i <= Len(digits) THEN digits[i] ELSE 0]
    IN  ((((d[1] * 10 + d[2]) * 10 + d[3]) * 10 + d[4]) * 10 + d[5]) * 10 + d[6]

(* A negative year is printed with a hyphen, which ends an empty part.     *)
DateParts(date) ==
    IF date.year < 0 THEN <<NotANumber, -date.year, date.month, date.day>>
    ELSE <<date.year, date.month, date.day>>

(* format_rfc3339_z: always UTC.                                           *)
FormatRfc3339(t) ==
    [date |-> DateParts(CivilFromDays(t[1])),
     time |-> <<t[2] \div 3600, (t[2] % 3600) \div 60, t[2] % 60>>,
     fraction |-> Fraction(t[3]), offset |-> 0]

DateParses(parts) ==
    /\ Len(parts) = 3 /\ NotANumber \notin {parts[i] : i \in DOMAIN parts}
    /\ ValidDate(parts[1], parts[2], parts[3])

(* The instant `seconds` after the start of a day, which may be negative.  *)
Normal(days, seconds, micros) == <<days + seconds \div 86400, seconds % 86400, micros>>

(* parse_rfc3339_timestamp; offset is in minutes.  Past MaxYear the day    *)
(* number no longer converts to microseconds.  (From year 5879600 on it    *)
(* does not fit in the 32 bits of days_from_civil either, and wraps before *)
(* that is checked: such years are left out.)                              *)
ParseRfc3339(text) ==
    LET date == text.date
        t    == text.time
    IN  IF \/ ~DateParses(date) \/ date[1] > MaxYear
           \/ ~ValidTime(t[1], t[2], t[3]) \/ Len(text.fraction) > 6
           \/ text.offset \notin -1439..1439
        THEN Refused
        ELSE Normal(DaysFromCivil(date[1], date[2], date[3]),
                    t[1] * 3600 + t[2] * 60 + t[3] - text.offset * 60, ReadFraction(text.fraction))

-----------------------------------------------------------------------------
(* Spans saturate at the ends of the range instead of wrapping.            *)
Saturated(x, max) == IF x > max THEN max ELSE IF x < -max - 1 THEN -max - 1 ELSE x
Days(n, perDay, max) == Saturated(n * perDay, max)
Plus(t, span, max) == Saturated(t + span, max)
Minus(t, span, max) == Saturated(t - span, max)

-----------------------------------------------------------------------------
(* KronroeError (error.rs): a chain of kinds, outermost first.  The code   *)
(* of an error, which the language surfaces and the MCP server report, is  *)
(* the code of its outermost kind.                                         *)
ErrorCode ==
    [Storage |-> 1001, Serialization |-> 1002, SchemaMismatch |-> 1003, NotFound |-> 2001,
     InvalidFactId |-> 2002, InvalidEmbedding |-> 2003, InvalidInput |-> 2004, Search |-> 3001,
     ContradictionRejected |-> 4001, Internal |-> 9001]
Kinds == DOMAIN ErrorCode
Category(kind) == ErrorCode[kind] \div 1000

New(kind) == <<kind>>
Code(error) == ErrorCode[error[1]]
RootCause(error) == error[Len(error)]

(* The kind that wraps an error of another kind: the data of a mismatch or *)
(* of a contradiction cannot be carried along.                             *)
ContextKind(kind) ==
    IF kind \in {"Serialization", "SchemaMismatch"} THEN "Storage"
    ELSE IF kind = "ContradictionRejected" THEN "Internal" ELSE kind
Context(error) == <<ContextKind(error[1])>> \o error

(* contradictions() and schema_versions() ask the outermost kind only.     *)
HasContradictions(error) == error[1] = "ContradictionRejected"
HasSchemaVersions(error) == error[1] = "SchemaMismatch"
Chain(error) == error

(* What other failures become.                                             *)
Converted ==
    [ParseError |-> "Serialization", IoError |-> "Storage", ParseIntError |-> "InvalidInput",
     TryFromIntError |-> "InvalidInput", MissingOption |-> "InvalidInput"]
====
