------------------------------ MODULE CallDates ------------------------------
(***************************************************************************)
(* domain/text/dates.py: the calendar dates a turn mentions, resolved      *)
(* against the date of the call.                                           *)
(*                                                                         *)
(* A mention is what the regular expressions find, in the order of the     *)
(* text: [weekday, day, month, year, ahead], each a number or Unsaid.      *)
(*   "2026-09-26"              day, month and year                         *)
(*   "26 de septiembre"        day and month, perhaps year                 *)
(*   "sabado 26"               weekday (Monday is 0) and day               *)
(*   "sabado 26 de septiembre" weekday, day and month: one mention, since  *)
(*                             two forms never share text                  *)
(*   "hoy", "manana", ...      ahead, in days                              *)
(* A date is [year, month, day]; a resolved mention is the set of the one  *)
(* day it names, numbered as Python's date.toordinal, or empty.            *)
(***************************************************************************)
EXTENDS Integers, Sequences

CONSTANT Unsaid

ASSUME UnsaidIsNoNumber == Unsaid \notin Int

(* What the patterns find: _RELATIVE, or the other three, of which ISO     *)
(* dates have two digits for a month.                                      *)
MentionForms ==
    [weekday : 0 .. 6 \cup {Unsaid}, day : 0 .. 99 \cup {Unsaid},
     month : 0 .. 99 \cup {Unsaid}, year : 0 .. 9999 \cup {Unsaid}, ahead : -1 .. 2 \cup {Unsaid}]
NamesADay(m) ==
    \/ m.ahead # Unsaid /\ {m.weekday, m.day, m.month, m.year} = {Unsaid}
    \/ /\ m.ahead = Unsaid
       /\ m.day # Unsaid
       /\ m.year # Unsaid => m.month # Unsaid
       /\ m.year = Unsaid => m.month \in 1 .. 12 \cup {Unsaid}
       /\ m.month = Unsaid => m.weekday # Unsaid
DateMentions == {m \in MentionForms : NamesADay(m)}

On(year, month, day) == [year |-> year, month |-> month, day |-> day]

-----------------------------------------------------------------------------
(* The calendar of Python's datetime.                                      *)

LeapYear(y) == y % 4 = 0 /\ (y % 100 # 0 \/ y % 400 = 0)

(* calendar.monthrange.                                                    *)
DaysInMonth(y, m) ==
    CASE m = 2 -> IF LeapYear(y) THEN 29 ELSE 28
      [] m \in {4, 6, 9, 11} -> 30
      [] OTHER -> 31

DaysBeforeMonth(y, m) ==
    LET before == <<0, 31, 59, 90, 120, 151, 181, 212, 243, 273, 304, 334>>
    IN  before[m] + (IF m > 2 /\ LeapYear(y) THEN 1 ELSE 0)

IsDate(d) == d.month \in 1 .. 12 /\ d.day \in 1 .. DaysInMonth(d.year, d.month)

CalendarDates == {d \in [year : Int, month : 1 .. 12, day : 1 .. 31] : IsDate(d)}

Ordinal(d) ==
    LET y == d.year - 1
    IN  365 * y + (y \div 4) - (y \div 100) + (y \div 400) + DaysBeforeMonth(d.year, d.month) + d.day

Weekday(ordinal) == (ordinal + 6) % 7

-----------------------------------------------------------------------------
(* The candidate next to the reference; one that falls on the weekday said *)
(* goes before all that do not, and of two as near the earlier.            *)
Nearest(candidates, weekday, reference) ==
    LET Distance(o) == IF o < reference THEN reference - o ELSE o - reference
        Misses(o) == weekday # Unsaid /\ Weekday(o) # weekday
        Before(o, p) ==
            \/ ~Misses(o) /\ Misses(p)
            \/ /\ Misses(o) = Misses(p)
               /\ \/ Distance(o) < Distance(p)
                  \/ Distance(o) = Distance(p) /\ o < p
    IN  {o \in candidates : \A p \in candidates \ {o} : Before(o, p)}

(* A day and a month without a year.                                       *)
NearestYear(m, reference) ==
    LET years == reference.year - 1 .. reference.year + 1
    IN  Nearest({Ordinal(On(y, m.month, m.day)) :
                     y \in {z \in years : m.day <= DaysInMonth(z, m.month)}},
                Unsaid, Ordinal(reference))

(* A plausible bug: the month before January and the one after December    *)
(* are looked up in the year of the call.                                  *)
MutantNearestMonth(m, reference) ==
    LET months == {On(reference.year, ((reference.month - 1 + offset) % 12) + 1, m.day) :
                       offset \in -1 .. 1}
    IN  Nearest({Ordinal(d) : d \in {e \in months : m.day <= DaysInMonth(e.year, e.month)}},
                m.weekday, Ordinal(reference))

(* A weekday and a day: this month, the one before or the one after.       *)
NearestMonth(m, reference) ==
    LET Index(offset) == reference.month - 1 + offset
        months == {On(reference.year + (Index(offset) \div 12), (Index(offset) % 12) + 1, m.day) :
                       offset \in -1 .. 1}
    IN  Nearest({Ordinal(d) : d \in {e \in months : m.day <= DaysInMonth(e.year, e.month)}},
                m.weekday, Ordinal(reference))

(* A day with its month; one that does not exist names nothing.            *)
DayOfMonth(m, reference) ==
    IF m.year # Unsaid
    THEN {Ordinal(d) : d \in {e \in {On(m.year, m.month, m.day)} : IsDate(e)}}
    ELSE IF m.day \in 1 .. 31 THEN NearestYear(m, reference)
    ELSE {}

(* date(year, month, 0) raises, and unlike the other forms this one is not *)
(* suppressed: a weekday followed by a zero.                               *)
Unreadable(m) == m.weekday # Unsaid /\ m.day = 0

(* From the most to the least specific form: the day with its month, and   *)
(* with the weekday if that names no date.                                 *)
Resolve(m, reference) ==
    IF m.ahead # Unsaid THEN {Ordinal(reference) + m.ahead}
    ELSE LET dated == IF m.month = Unsaid THEN {} ELSE DayOfMonth(m, reference)
         IN  IF dated = {} /\ m.weekday # Unsaid /\ ~Unreadable(m)
             THEN NearestMonth(m, reference)
             ELSE dated

(* extract_dates without the relative forms, as a set.                     *)
ExplicitDates(mentions, reference) ==
    UNION {Resolve(mentions[i], reference) :
               i \in {j \in DOMAIN mentions : mentions[j].ahead = Unsaid}}

(* The first of extract_dates with relative=True.                          *)
FirstDate(mentions, reference) ==
    LET named == {i \in DOMAIN mentions : Resolve(mentions[i], reference) # {}}
    IN  UNION {Resolve(mentions[i], reference) : i \in {j \in named : \A k \in named : j <= k}}

-----------------------------------------------------------------------------
(* What the resolution is compared with: the days around the call, found   *)
(* by walking the calendar, and which of them agree with all that was said.*)

DayAfter(d) ==
    IF d.day < DaysInMonth(d.year, d.month) THEN [d EXCEPT !.day = @ + 1]
    ELSE IF d.month < 12 THEN On(d.year, d.month + 1, 1)
    ELSE On(d.year + 1, 1, 1)

DayBefore(d) ==
    IF d.day > 1 THEN [d EXCEPT !.day = @ - 1]
    ELSE IF d.month > 1 THEN On(d.year, d.month - 1, DaysInMonth(d.year, d.month - 1))
    ELSE On(d.year - 1, 12, 31)

DayAt(reference, offset) ==
    LET later[n \in Nat] == IF n = 0 THEN reference ELSE DayAfter(later[n - 1])
        earlier[n \in Nat] == IF n = 0 THEN reference ELSE DayBefore(earlier[n - 1])
    IN  IF offset >= 0 THEN later[offset] ELSE earlier[-offset]

Agrees(said, is) == said \in {Unsaid, is}

(* The days near the call, as offsets, that the mention can mean.          *)
Meant(m, reference, near) ==
    {k \in near :
        \/ m.ahead = k
        \/ LET d == DayAt(reference, k)
           IN  /\ m.ahead = Unsaid
               /\ m.day = d.day
               /\ Agrees(m.month, d.month)
               /\ Agrees(m.year, d.year)
               /\ Agrees(m.weekday, (Weekday(Ordinal(reference)) + k) % 7)}
=============================================================================
