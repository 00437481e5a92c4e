--------------------------- MODULE DateFunctions ---------------------------
(***************************************************************************)
(* The date and time functions of src/src/planner/datetime.rs: a date is   *)
(* turned into the number of its Julian day and back by integer            *)
(* arithmetic, modifiers are applied from left to right.  What they are    *)
(* checked against counts the days of years and months one after another.  *)
(* A text is what is parsed from it; a fraction of a day is in seconds.    *)
(***************************************************************************)
EXTENDS Integers, Sequences, FiniteSets, SequencesExt

DateTime(y, m, d, s) ==
    [year |-> y, month |-> m, day |-> d, hour |-> s \div 3600, min |-> (s % 3600) \div 60, sec |-> s % 60]
SecondOf(dt) == dt.hour * 3600 + dt.min * 60 + dt.sec

\* The division of Rust goes toward zero; a cast to u8 keeps the low byte.
Quot(a, b) == IF a < 0 THEN -((-a) \div b) ELSE a \div b
Rem(a, b)  == a - b * Quot(a, b)
U8(n)      == n % 256

Epoch == 2440588               \* the Julian day of 1970-01-01
DaySeconds == 86400

-----------------------------------------------------------------------------
(* Julian days.                                                            *)

\* A mutation, used only to confirm that DatesAgree can fail: every fourth year
\* is a leap year.
YmdToJulianNoCenturies(y, m, d) ==
    LET a  == (14 - m) \div 12
        yr == y + 4800 - a
    IN  d + (153 * (m + 12 * a - 3) + 2) \div 5 + 365 * yr + yr \div 4 - 32083

YmdToJulian(y, m, d) ==
    LET a  == (14 - m) \div 12
        yr == y + 4800 - a
    IN  d + (153 * (m + 12 * a - 3) + 2) \div 5 + 365 * yr + yr \div 4 - yr \div 100 + yr \div 400
        - 32045

JulianToYmd(jd) ==
    LET a == jd + 32044
        b == (4 * a + 3) \div 146097
        c == a - (146097 * b) \div 4
        d == (4 * c + 3) \div 1461
        e == c - (1461 * d) \div 4
        m == (5 * e + 2) \div 153
    IN  <<100 * b + d - 4800 + m \div 10, m + 3 - 12 * (m \div 10), e - (153 * m + 2) \div 5 + 1>>

JulianOf(dt) == YmdToJulian(dt.year, dt.month, dt.day)

FromUnix(secs) ==
    LET rem == Rem(secs, DaySeconds)
        ymd == JulianToYmd(Quot(secs, DaySeconds) + Epoch)
    IN  [year |-> ymd[1], month |-> ymd[2], day |-> ymd[3],
         hour |-> U8(Quot(rem, 3600)), min |-> U8(Quot(Rem(rem, 3600), 60)), sec |-> U8(Rem(rem, 60))]

ToUnix(dt) == (JulianOf(dt) - Epoch) * DaySeconds + SecondOf(dt)

\* A Julian day: whole days, and seconds.  It is counted from noon when it is
\* made, and from midnight when it is read.
ToJulianDay(dt) ==
    LET noon == SecondOf(dt) - DaySeconds \div 2
    IN  IF noon < 0 THEN <<JulianOf(dt) - 1, noon + DaySeconds>> ELSE <<JulianOf(dt), noon>>
FromJulianDay(jd) == FromUnix((jd[1] - Epoch) * DaySeconds + jd[2])

-----------------------------------------------------------------------------
(* Modifiers, by the word that tells them apart and a number.              *)

NoModifier == [op |-> "none", n |-> 0]
ParseModifier(word, n) ==
    CASE word \in {"start of month", "start of year", "start of day", "weekday",
                   "day", "month", "year"} -> [op |-> word, n |-> n]
      [] word = "hour" -> [op |-> "day", n |-> Quot(n, 24)]
      [] OTHER -> NoModifier

Midnight(dt) == [dt EXCEPT !.hour = 0, !.min = 0, !.sec = 0]
DayOfWeek(dt) == (JulianOf(dt) + 1) % 7           \* 0 is Sunday; so is strftime's %w

ApplyModifier(dt, m) ==
    CASE m.op = "day" -> FromUnix(ToUnix(dt) + m.n * DaySeconds)
      [] m.op = "month" ->
            LET total == dt.month - 1 + m.n
            IN  [dt EXCEPT !.month = (total % 12) + 1, !.year = @ + total \div 12]
      [] m.op = "year" -> [dt EXCEPT !.year = @ + m.n]
      [] m.op = "start of month" -> [Midnight(dt) EXCEPT !.day = 1]
      [] m.op = "start of year"  -> [Midnight(dt) EXCEPT !.month = 1, !.day = 1]
      [] m.op = "start of day"   -> Midnight(dt)
      [] m.op = "weekday" -> FromUnix(ToUnix(dt) + ((m.n - DayOfWeek(dt)) % 7) * DaySeconds)
      [] OTHER -> dt

ResolveDateTime(dt, ms) ==
    FoldLeft(LAMBDA t, m : ApplyModifier(t, ParseModifier(m[1], m[2])), dt, ms)

\* strftime's %j and %W.
DayOfYear(dt)  == JulianOf(dt) - YmdToJulian(dt.year, 1, 1) + 1
WeekOfYear(dt) == (JulianOf(dt) - YmdToJulian(dt.year, 1, 1)) \div 7

-----------------------------------------------------------------------------
(* The calendar, counted.  A day after the end of its month is as many     *)
(* days later, and a month counts from its own first day.                  *)

Leap(y) == y % 4 = 0 /\ (y % 100 = 0 => y % 400 = 0)
MonthLength(y, m) ==
    CASE m = 2 -> IF Leap(y) THEN 29 ELSE 28 [] m \in {4, 6, 9, 11} -> 30 [] OTHER -> 31
LeapsIn(years)  == Cardinality({y \in years : Leap(y)})
NewYear == [y \in 1598..2403 |->
               365 * (y - 1970) + (IF y < 1970 THEN -LeapsIn(y..1969) ELSE LeapsIn(1970..(y - 1)))]
DaysBefore == [leap \in BOOLEAN, m \in 1..12 |->
                  FoldLeft(LAMBDA total, k : total + MonthLength(IF leap THEN 2000 ELSE 2001, k), 0,
                           [k \in 1..(m - 1) |-> k])]

\* Days since 1970-01-01.
DayNumber(y, m, d) == NewYear[y] + DaysBefore[Leap(y), m] + d - 1

\* The date of a day near year y.
DateOf(day, y) ==
    LET yr == CHOOSE k \in (y - 2)..(y + 2) : NewYear[k] <= day /\ day < NewYear[k + 1]
        mo == CHOOSE k \in 1..12 : \E d \in 1..MonthLength(yr, k) : DayNumber(yr, k, d) = day
    IN  <<yr, mo, day - DayNumber(yr, mo, 1) + 1>>

\* A moment is a date and the second of the day.
Later(t, secs) ==
    LET s == t[2] + secs
    IN  <<DateOf(DayNumber(t[1][1], t[1][2], t[1][3]) + s \div DaySeconds, t[1][1]), s % DaySeconds>>
AfterDays(t, n) == Later(t, n * DaySeconds)
Meant(t, word, n) ==
    LET y == t[1][1]  mo == t[1][2]  d == t[1][3]
        WeekdayOf(day) == (day + 4) % 7                       \* 1970-01-01 was a Thursday
        ahead == CHOOSE k \in 0..6 : WeekdayOf(DayNumber(y, mo, d) + k) = n
    IN  CASE word = "day"   -> AfterDays(t, n)
          [] word = "hour"  -> Later(t, 3600 * n)
          [] word = "month" -> LET k == 12 * y + mo - 1 + n IN <<<<k \div 12, (k % 12) + 1, d>>, t[2]>>
          [] word = "year"  -> <<<<y + n, mo, d>>, t[2]>>
          [] word = "start of month" -> <<<<y, mo, 1>>, 0>>
          [] word = "start of year"  -> <<<<y, 1, 1>>, 0>>
          [] word = "start of day"   -> <<t[1], 0>>
          [] word = "weekday" -> AfterDays(t, ahead)
Moment(dt) == <<<<dt.year, dt.month, dt.day>>, SecondOf(dt)>>

\* "+N hours" moves by the whole days in N and drops the other hours.
DropsHours(t, n, got) ==
    \E k \in -72..72 : /\ k % 24 = 0 /\ (k - n) \in -23..23 /\ (IF n < 0 THEN k \in n..0 ELSE k \in 0..n)
                      /\ got = Later(t, 3600 * k)

\* Before 1970 a moment that is not at midnight comes out of its seconds as a date of
\* the day after, with an hour, minute or second that no clock has.
NoMoment(dt, dayAfter) ==
    /\ <<dt.year, dt.month, dt.day>> = dayAfter
    /\ dt.hour > 23 \/ dt.min > 59 \/ dt.sec > 59

\* Every sequence of modifiers leads to the moment it means (but for hours that make
\* no whole day, and for moments before 1970 that are not at midnight: from_unix takes
\* a negative remainder for a time), days are numbered and named as in the calendar,
\* and seconds lead back to the moment they were made of (datetime.rs:38,
\* datetime.rs:122, datetime.rs:152).  A Julian day does not: it is counted from noon
\* (datetime.rs:55, and the test at datetime.rs:342) and read as if from midnight
\* (datetime.rs:65), so julianday read again is twelve hours early, at every moment.
DatesAgree(dt, ms) ==
    LET moment == Moment(dt)
        meant  == FoldLeft(LAMBDA t, m : Meant(t, m[1], m[2]), moment, ms)
        got    == ResolveDateTime(dt, ms)
        y      == dt.year
        day    == DayNumber(y, dt.month, dt.day)
        told   == day >= 0 \/ SecondOf(dt) = 0
        whole  == \A i \in DOMAIN ms : ms[i][1] = "hour" => ms[i][2] % 24 = 0
    IN  /\ told /\ whole => Moment(got) = meant
        /\ ~whole => DropsHours(moment, ms[1][2], Moment(got))
        /\ ~told => NoMoment(got, DateOf(day + 1, y))
        /\ JulianOf(dt) = Epoch + day /\ JulianToYmd(Epoch + day) = <<y, dt.month, dt.day>>
        /\ DayOfWeek(dt) = (day + 4) % 7
        /\ DayOfYear(dt) = day - NewYear[y] + 1
        /\ WeekOfYear(dt) = Cardinality({k \in (NewYear[y] + 1)..day : (k - NewYear[y]) % 7 = 0})
        /\ told /\ ms # <<>> => FromUnix(ToUnix(dt)) = dt      \* TLC can count these seconds
        /\ day > 0 /\ ms # <<>> => Moment(FromJulianDay(ToJulianDay(dt))) = Later(moment, -DaySeconds \div 2)

-----------------------------------------------------------------------------
(* The dates that are checked: the ends of all months around the ends of   *)
(* centuries, and some with modifiers.                                     *)

Ends(y, m) == {1, 28} \cup {MonthLength(y, m)}
Dates(years, times) ==
    {DateTime(ymd[1], ymd[2], ymd[3], s) :
        ymd \in UNION {{y} \X {m} \X Ends(y, m) : y \in years, m \in 1..12}, s \in times}
Modifiers ==
    {<<"day", n>> : n \in {-366, -1, 1, 60}} \cup {<<"month", n>> : n \in {-13, -1, 1, 12}}
    \cup {<<"year", n>> : n \in {-1, 4}} \cup {<<"weekday", n>> : n \in {0, 4}}
    \cup {<<w, 0>> : w \in {"start of month", "start of year", "start of day"}} 
    \cup {<<"hour", n>> : n \in {-24, 48}}
Cases ==
    (Dates(UNION {(c - 1)..(c + 1) : c \in {1600, 1700, 1800, 1900, 2000, 2100, 2400}}, {0}) \X {<<>>})
    \cup (Dates({1908}, {0}) \X [1..2 -> Modifiers])
    \cup (Dates({1973, 2000}, {0, 50399, 86399}) \X {<<m, <<"day", 0>>>> : m \in Modifiers})
    \cup (Dates({2000}, {0, 50399}) \X {<<<<"hour", n>>>> : n \in {-30, 5, 30}})
    \cup (Dates({1969}, {1, 43200, 86399}) \X {<<<<"day", 0>>>>})
=============================================================================
