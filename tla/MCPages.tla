------------------------------ MODULE MCPages ------------------------------
\* Three parts that share no state, one in each behaviour: how a call and the
\* preview panel read the opening hours (BusinessHours), the page the hours are
\* edited on, and the way a browser tab finds its page.
EXTENDS BusinessHours

CONSTANTS Tenants, MaxBegins, EditedDays, TypedTimes, Dates, Glances, MaxEdits, None

VARIABLES part,
  fixture, status, kept, seen, at, info, reading, entering, loginError,
  begun, kakaoState, started, failure, exchanges, exchanged,
  stored, readHours, week, opened, chip, putHours, saved, typedOver, changes

A == INSTANCE ConsoleAccess
E == INSTANCE HoursEditor

ASSUME PartsAssumption == A!AccessAssumption /\ E!EditorAssumption

Alike == Permutations(Tenants)

access == <<fixture, status, kept, seen, at, info, reading, entering, loginError,
            begun, kakaoState, started, failure, exchanges, exchanged>>
editor == <<stored, readHours, week, opened, chip, putHours, saved, typedOver, changes>>
allVars == <<part, vars, access, editor>>

\* Day hours, overnight hours, round the clock, breaks over and after midnight,
\* a break that starts before the opening time and two written backwards.
DayOf(o, c, b) == [open |-> o, close |-> c, break |-> b]
Break(s, e) == [start |-> s, end |-> e]

MCHours == { Closed,
  DayOf(540, 1080, NoBreak), DayOf(540, 1080, Break(900, 1020)),
  DayOf(1080, 120, NoBreak), DayOf(1080, 120, Break(1380, 60)),
  DayOf(1080, 120, Break(30, 60)), DayOf(540, 540, NoBreak),
  DayOf(540, 1080, Break(480, 600)), DayOf(540, 1080, Break(1020, 900)),
  DayOf(1080, 1020, Break(45, 30)) }

\* Monday, Tuesday and Sunday differ; the other days are as Tuesday.
MCWeeks == { [d \in DaysOfWeek |-> CASE d = 0 -> a [] d = 6 -> z [] OTHER -> b] :
               a \in MCHours, b \in MCHours, z \in MCHours }
MCHolidays == { {}, {7}, {8}, {6, 7} }

\* Monday is date 7; its instants and those of Tuesday morning, in UTC.
Kst(date, m) == DAY_MINUTES * date + m - KST_OFFSET
MCInstants == << Kst(7, 0), Kst(7, 45), Kst(7, 60), Kst(7, 119), Kst(7, 120), Kst(7, 500), Kst(7, 539), Kst(7, 540),
                 Kst(7, 899), Kst(7, 900), Kst(7, 1020), Kst(7, 1079), Kst(7, 1080), Kst(7, 1400),
                 Kst(8, 0), Kst(8, 30), Kst(8, 60), Kst(8, 120), Kst(8, 540) >>
MCGlances == { Kst(7, 120), Kst(7, 600), Kst(7, 960), Kst(7, 1080) }

MCInit ==
  /\ Init /\ A!Init /\ E!Init
  /\ part \in {"hours", "access", "editor"}
  /\ part # "hours" => hours = NoHours
  /\ part # "access" => fixture = None /\ \A t \in Tenants : status[t] = "active"
  /\ part # "editor" => stored = None

MCNext ==
  \/ part = "hours" /\ Next /\ UNCHANGED <<part, access, editor>>
  \/ part = "access" /\ A!Next /\ UNCHANGED <<part, vars, editor>>
  \/ part = "editor" /\ E!Next /\ UNCHANGED <<part, vars, access>>

MCSpec == MCInit /\ [][MCNext]_allVars

\* The parts' properties, by the names of their modules; the hours' own come with
\* BusinessHours.
TabFindsItsPage == A!TabFindsItsPage
ScreenTellsTheHours == E!ScreenTellsTheHours
=============================================================================
