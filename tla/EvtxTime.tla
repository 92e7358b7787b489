------------------------------ MODULE EvtxTime ------------------------------
(***************************************************************************)
(* The FILETIME that the pure-Rust EVTX writer puts in a record header     *)
(* (regression/evtx_writer.rs, system_time_to_filetime), checked on every  *)
(* day of a walk through the calendar.                                     *)
(*                                                                         *)
(* Time is counted in units of 72 s, which divide an hour, half an hour    *)
(* and UNIX_TO_FILETIME_NS; minutes are multiples of 6, and seconds and    *)
(* their fraction, which only add to the sum, are left out.                *)
(***************************************************************************)
EXTENDS Integers

CONSTANTS
  LastYear,   \* bound: the walk goes from 1601-01-01 to the end of this year
  Clocks,     \* times of day considered: <<hour, minute>>
  Zones       \* offsets considered: <<sign, hours, minutes>>

ASSUME EvtxTimeAssumption ==
  /\ LastYear \in Nat
  /\ Clocks \subseteq (0 .. 23) \X {6 * k : k \in 0 .. 9}
  /\ Zones \subseteq {-1, 1} \X (0 .. 23) \X {6 * k : k \in 0 .. 9}

VARIABLES year, month, day,   \* the civil date of the walk
          daysSince1601       \* the days walked

calendar == <<year, month, day, daysSince1601>>

Minutes(n) == (n * 5) \div 6      \* minutes in units, n a multiple of 6
Hours(n) == n * 50
Days(n) == n * 1200

-----------------------------------------------------------------------------
(* The reference: the civil calendar, one day after the other.             *)

Leap(y) == (y % 4 = 0 /\ y % 100 # 0) \/ y % 400 = 0

\* 30 days have September, April, June and November.
MonthLength(y, m) ==
  CASE m \in {4, 6, 9, 11} -> 30
    [] m = 2 -> IF Leap(y) THEN 29 ELSE 28
    [] OTHER -> 31

CalendarInit == year = 1601 /\ month = 1 /\ day = 1 /\ daysSince1601 = 0

NextDay == /\ day < MonthLength(year, month)
           /\ day' = day + 1
           /\ UNCHANGED <<year, month>>

NextMonth == /\ day = MonthLength(year, month) /\ month < 12
             /\ day' = 1 /\ month' = month + 1
             /\ UNCHANGED year

NextYear == /\ day = MonthLength(year, month) /\ month = 12 /\ year < LastYear
            /\ day' = 1 /\ month' = 1 /\ year' = year + 1

Walk == /\ NextDay \/ NextMonth \/ NextYear
        /\ daysSince1601' = daysSince1601 + 1

-----------------------------------------------------------------------------
(* The code.                                                               *)

\* parse_datetime_components: the dates it lets through.
Accepts(y, m, d) ==
  /\ m \in 1 .. 12
  /\ d \in 1 .. (CASE m \in {1, 3, 5, 7, 8, 10, 12} -> 31
                   [] m \in {4, 6, 9, 11} -> 30
                   [] m = 2 -> IF y % 4 = 0 /\ (y % 100 # 0 \/ y % 400 = 0)
                               THEN 29 ELSE 28)

\* Mutant: the year of an era loses the century correction.
UnixDaysNoCentury(y, m, d) ==
  LET adj == IF m <= 2 THEN y - 1 ELSE y
      era == adj \div 400
      yoe == adj - era * 400
      mp == IF m > 2 THEN m - 3 ELSE m + 9
      doy == (153 * mp + 2) \div 5 + d - 1
  IN era * 146097 + yoe * 365 + yoe \div 4 + doy - 719468

\* Days since 1970-01-01: years begin in March, eras have 400 years.
UnixDays(y, m, d) ==
  LET adj == IF m <= 2 THEN y - 1 ELSE y
      era == adj \div 400
      yoe == adj - era * 400
      mp == IF m > 2 THEN m - 3 ELSE m + 9
      doy == (153 * mp + 2) \div 5 + d - 1
      doe == yoe * 365 + yoe \div 4 - yoe \div 100 + doy
  IN era * 146097 + doe - 719468

\* UNIX_TO_FILETIME_NS, 116 444 736 000 000 000 ns.
UnixToFiletime == 1617288

\* Mutant: the offset is added to the local time.
ZoneOffsetAdded(zone) == -zone[1] * (Hours(zone[2]) + Minutes(zone[3]))

\* parse_timezone.
ZoneOffset(zone) == zone[1] * (Hours(zone[2]) + Minutes(zone[3]))

Error == -1

\* system_time_to_filetime; the result is in units as well.
Filetime(y, m, d, clock, zone) ==
  LET unix == Days(UnixDays(y, m, d)) + Hours(clock[1]) + Minutes(clock[2])
                - ZoneOffset(zone)
      filetime == unix + UnixToFiletime
  IN IF filetime < 0 THEN Error ELSE filetime

-----------------------------------------------------------------------------
UTC == <<1, 0, 0>>

\* The dates beside a date, as the calendar has them.
DateAfter(y, m, d) ==
  IF d < MonthLength(y, m) THEN <<y, m, d + 1>>
  ELSE IF m < 12 THEN <<y, m + 1, 1>> ELSE <<y + 1, 1, 1>>
DateBefore(y, m, d) ==
  IF d > 1 THEN <<y, m, d - 1>>
  ELSE IF m > 1 THEN <<y, m - 1, MonthLength(y, m - 1)>> ELSE <<y - 1, 12, 31>>

\* Hinnant's closed formula counts the days of the calendar, through leap
\* years, centuries and eras; 1601-01-01 is 134 774 days before 1970-01-01.  And
\* in every month of the walk exactly its real days pass the validation.
DaysAreCounted ==
  /\ UnixDays(year, month, day) = daysSince1601 - 134774
  /\ \A d \in 0 .. 32 : Accepts(year, month, d) <=> d \in 1 .. MonthLength(year, month)

\* The zone does not matter: a local time with its offset gets the FILETIME of
\* the date and the time that it is in UTC.  These are worked out by hand: the
\* minutes are carried or borrowed at 60, the hours at 24, and the date is then
\* the next or the last one of the calendar, over the end of a month, a leap day
\* and New Year.  What lies before 1601 in UTC is refused on both sides.
SameInstantSameFiletime ==
  \A clock \in Clocks, zone \in Zones :
    LET minutes == clock[2] - zone[1] * zone[3]
        hours == clock[1] - zone[1] * zone[2] + minutes \div 60
        utc == <<hours % 24, minutes % 60>>
        date == IF hours < 0 THEN DateBefore(year, month, day)
                ELSE IF hours > 23 THEN DateAfter(year, month, day)
                ELSE <<year, month, day>>
    IN Filetime(year, month, day, clock, zone)
         = Filetime(date[1], date[2], date[3], utc, UTC)
=============================================================================
