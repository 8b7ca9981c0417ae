----------------------------- MODULE Calendar ------------------------------
(***************************************************************************)
(* Dates and times: CDateTime, CDateTimeSpan and CTimeValue of             *)
(* src/common/common_datetime.cpp, and the date functions of               *)
(* common_api.cpp.  All of them are counts: of microseconds in the         *)
(* classes, of seconds in the functions.  The calendar is that of the C    *)
(* library, with a time zone that has a summer time.  The units are        *)
(* constants, so that a day can be short.                                  *)
(***************************************************************************)
EXTENDS Integers, Sequences, FiniteSets, SequencesExt

CONSTANTS
    US_PER_MS, MS_PER_SECOND, SECOND_PER_MINUTE, MINUTE_PER_HOUR, HOUR_PER_DAY,
    Offset,             \* the local time of the zone, in seconds
    Summer,             \* <<from, to>>: when the local time is an hour more
    IntRange            \* 2^32, smaller

SECOND_PER_HOUR == SECOND_PER_MINUTE * MINUTE_PER_HOUR
SECOND_PER_DAY == SECOND_PER_HOUR * HOUR_PER_DAY
US_PER_SECOND == US_PER_MS * MS_PER_SECOND

FirstYear == 1970
LastYear == FirstYear + 4
Leap(y) == y % 4 = 0
MonthDays(y, m) == IF m = 2 THEN IF Leap(y) THEN 29 ELSE 28 ELSE IF m \in {4, 6, 9, 11} THEN 30 ELSE 31
Numbers(from, to) == [k \in 1 .. to - from + 1 |-> from + k - 1]
YearBegins(y) == FoldLeft(LAMBDA days, k : days + IF Leap(k) THEN 366 ELSE 365, 0, Numbers(FirstYear, y - 1))
DayNumber(y, m, d) == YearBegins(y) + FoldLeft(LAMBDA days, k : days + MonthDays(y, k), 0, Numbers(1, m - 1)) + d - 1

IsSummer(t) == \E s \in Summer : s[1] <= t /\ t < s[2]
Saved(summer) == IF summer THEN SECOND_PER_HOUR ELSE 0

\* localtime_r and mktime: a struct tm with the day counted in its month.
TmOf(y, m, n, second, summer) ==
    [year |-> y, mon |-> m, mday |-> n - DayNumber(y, m, 1) + 1, hour |-> second \div SECOND_PER_HOUR,
     min |-> (second % SECOND_PER_HOUR) \div SECOND_PER_MINUTE, sec |-> second % SECOND_PER_MINUTE,
     yday |-> n - YearBegins(y), wday |-> (n + 4) % 7, isdst |-> summer]
YearOf(n) == CHOOSE y \in FirstYear .. LastYear : YearBegins(y) <= n /\ n < YearBegins(y + 1)
MonthOf(y, n) == CHOOSE m \in 1 .. 12 : DayNumber(y, m, 1) <= n /\ n <= DayNumber(y, m, MonthDays(y, m))
TmIn(y, n, second, summer) == TmOf(y, MonthOf(y, n), n, second, summer)
localtime(t) ==
    LET l == t + Offset + Saved(IsSummer(t))
        n == l \div SECOND_PER_DAY
    IN  TmIn(YearOf(n), n, l % SECOND_PER_DAY, IsSummer(t))
mktime(tm) == DayNumber(tm.year, tm.mon, tm.mday) * SECOND_PER_DAY + tm.hour * SECOND_PER_HOUR
              + tm.min * SECOND_PER_MINUTE + tm.sec - Offset - Saved(tm.isdst)

\* A struct tm is set up without tm_isdst, which makes it one of winter time; it goes to
\* seconds and back, and to seconds again.
Tm(year, month, day, hour, minute, second) ==
    [year |-> year, mon |-> month, mday |-> day, hour |-> hour, min |-> minute, sec |-> second, isdst |-> FALSE]
Settled(tm) == mktime(localtime(mktime(tm)))
-----------------------------------------------------------------------------
(* CDateTimeSpan and CDateTime                                             *)

SpanMs(days, hours, minutes, seconds, ms) ==
    ((((days * HOUR_PER_DAY + hours) * MINUTE_PER_HOUR + minutes) * SECOND_PER_MINUTE + seconds) * MS_PER_SECOND + ms) * US_PER_MS
Span(days, hours, minutes, seconds) ==
    (((days * HOUR_PER_DAY + hours) * MINUTE_PER_HOUR + minutes) * SECOND_PER_MINUTE + seconds) * US_PER_SECOND

CurrentDateTime(time) == time * US_PER_SECOND
FromDate(year, month, day) == Settled(Tm(year, month, day, 0, 0, 0)) * US_PER_SECOND
\* The milliseconds are multiplied by MS_PER_SECOND, which is US_PER_MS by its value only.
FromFields(year, month, day, hour, minute, second, ms) ==
    Settled(Tm(year, month, day, hour, minute, second)) * US_PER_SECOND + ms * MS_PER_SECOND
\* "YYYY-MM-DD hh:mm:ss", taken as its six numbers; a text that is shorter is no time.
FromText(text) == IF Len(text) < 6 THEN 0
                  ELSE Settled(Tm(text[1], text[2], text[3], text[4], text[5], text[6])) * US_PER_SECOND

Add(dt, span) == dt + span
AddDays(dt, n) == Add(dt, Span(n, 0, 0, 0))
AddHours(dt, n) == Add(dt, Span(0, n, 0, 0))
AddMinutes(dt, n) == Add(dt, Span(0, 0, n, 0))
AddSeconds(dt, n) == Add(dt, Span(0, 0, 0, n))
AddMilliseconds(dt, n) == Add(dt, SpanMs(0, 0, 0, 0, n))

Seconds(dt) == dt \div US_PER_SECOND
Year(dt) == localtime(Seconds(dt)).year
Month(dt) == localtime(Seconds(dt)).mon
Day(dt) == localtime(Seconds(dt)).mday
DayOfWeek(dt) == localtime(Seconds(dt)).wday
DayOfYear(dt) == localtime(Seconds(dt)).yday
Hour(dt) == localtime(Seconds(dt)).hour
Minute(dt) == localtime(Seconds(dt)).min
Second(dt) == localtime(Seconds(dt)).sec
Millisecond(dt) == (dt % US_PER_SECOND) \div US_PER_MS
Date(dt) == Year(dt) * 10000 + Month(dt) * 100 + Day(dt)

\* The texts, as the numbers printed.
DateOf(tm) == <<tm.year, tm.mon, tm.mday>>
TimeOf(tm) == <<tm.hour, tm.min, tm.sec>>
ToDateString(dt) == DateOf(localtime(Seconds(dt)))
ToTimeString(dt) == TimeOf(localtime(Seconds(dt)))
ToDateTimeString(dt) == DateOf(localtime(Seconds(dt))) \o TimeOf(localtime(Seconds(dt)))
-----------------------------------------------------------------------------
(* CTimeValue, of gettimeofday: seconds and microseconds                   *)

FromTimeval(sec, usec) == sec * US_PER_SECOND + usec
TimePlus(tv, sec, usec) == tv + sec * US_PER_SECOND + usec
TimeMinus(tv, sec, usec) == tv - sec * US_PER_SECOND - usec
TimeAddMilliseconds(tv, ms) == tv + ms * US_PER_MS
Milliseconds(tv) == tv \div US_PER_MS
\* Day, hour, minute and second of the value itself: no time zone.
ToDayString(tv) ==
    LET sec == tv \div US_PER_SECOND
    IN  <<sec \div SECOND_PER_DAY, (sec % SECOND_PER_DAY) \div SECOND_PER_HOUR,
          (sec % SECOND_PER_HOUR) \div SECOND_PER_MINUTE, sec % SECOND_PER_MINUTE>>
-----------------------------------------------------------------------------
(* The functions of common_api.cpp                                         *)

\* A pointer to an int32_t is passed for one to a time_t: what is above it is read too.
ReadTime(secs, above) == secs + above * IntRange

DateNumber(tm) == tm.year * 10000 + tm.mon * 100 + tm.mday
SecondOfDay(tm) == tm.hour * SECOND_PER_HOUR + tm.min * SECOND_PER_MINUTE + tm.sec
GetDateBySecs(secs, above) == DateNumber(localtime(ReadTime(secs, above)))
GetSecsFromMiddleNight(secs, above) == SecondOfDay(localtime(ReadTime(secs, above)))
GetMiddleNightTime(now, above) == mktime([localtime(ReadTime(now, above)) EXCEPT !.hour = 0, !.min = 0, !.sec = 0])
IsSameDay(t1, t2) == localtime(t1).yday = localtime(t2).yday /\ localtime(t1).year = localtime(t2).year
GetSecsByDate(date) == Settled(Tm(date \div 10000, (date \div 100) % 100, date % 100, 0, 0, 0))
GetNextDate(date, above) == GetDateBySecs(GetSecsByDate(date) + SECOND_PER_DAY, above)
=============================================================================
