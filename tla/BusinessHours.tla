--------------------------- MODULE BusinessHours ---------------------------
(***************************************************************************)
(* Whether a place of business is open when a call comes in:               *)
(* packages/dialogue/src/business-hours.ts, read by                        *)
(* TenantResolverService at the moment a call is resolved                  *)
(* (tenant-resolver.service.ts:127-135), the summary of the week it puts   *)
(* into the prompt, and the console's own re-implementation of the same    *)
(* rules for its preview panel (apps/console/src/lib/business-hours.ts).   *)
(*                                                                         *)
(* Times of day are minutes after midnight, dates are day numbers, day 0   *)
(* is a Monday.  The machine is a clock that runs over the instants where  *)
(* windows open, close and cross midnight, with calls and looks at the     *)
(* preview panel in between.                                               *)
(***************************************************************************)
EXTENDS Integers, Sequences, SequencesExt

CONSTANTS
  Weeks,      \* the weeks the owner may have saved: hours or Closed per day
  Holidays,   \* the sets of temporary closing dates the owner may have saved
  Instants    \* the instants looked at, in minutes UTC, in a sequence

DAY_MINUTES == 1440
KST_OFFSET == 540

MinuteOfDay == 0 .. DAY_MINUTES - 1
DaysOfWeek == 0 .. 6                          \* DAYS_OF_WEEK: 0 is Monday
Closed == [closed |-> TRUE]
NoBreak == [none |-> TRUE]
Breaks == [start : MinuteOfDay, end : MinuteOfDay]
DayHours == [open : MinuteOfDay, close : MinuteOfDay, break : Breaks \cup {NoBreak}]
WeekDays == [DaysOfWeek -> DayHours \cup {Closed}]
Schedules == [days : WeekDays, holidays : SUBSET Int]
NoHours == [none |-> TRUE]                    \* businessHours null: always open

ASSUME WeeksAssumption == Weeks \subseteq WeekDays
ASSUME HolidaysAssumption == Holidays \subseteq SUBSET Int
ASSUME InstantsAssumption == Instants \in Seq(Int) /\ Instants # << >>

-----------------------------------------------------------------------------
\* toKstClock: Asia/Seoul is a fixed offset from UTC, without summer time.
ToKst(utc) == utc + KST_OFFSET
DateOf(t) == t \div DAY_MINUTES
MinutesOf(t) == t % DAY_MINUTES
DayKey(date) == date % 7

\* Mutants: 24-hour hours that close as they open, a preview that counts the closing
\* minute.
Mut_CloseOf(day) == IF day.close < day.open THEN day.close + DAY_MINUTES ELSE day.close
Mut_PreviewWithinDay(day, m) ==
  /\ IF day.close > day.open THEN day.open <= m /\ m <= day.close
                             ELSE day.open <= m \/ m < day.close
  /\ day.break # NoBreak => ~ (day.break.start <= m /\ m < day.break.end)

\* A closing time at or before the opening time is on the next day.
CloseOf(day) == IF day.close <= day.open THEN day.close + DAY_MINUTES ELSE day.close
BreakStartOf(day) ==
  IF day.break.start < day.open THEN day.break.start + DAY_MINUTES ELSE day.break.start
BreakEndOf(day) ==
  IF day.break.end <= BreakStartOf(day) THEN day.break.end + DAY_MINUTES ELSE day.break.end

\* isOpenInWindow: t counts from the midnight the business day started with.
IsOpenInWindow(hours, date, t) ==
  LET day == hours.days[DayKey(date)] IN
  /\ day # Closed
  /\ date \notin hours.holidays
  /\ day.open <= t /\ t < CloseOf(day)
  /\ day.break # NoBreak => ~ (BreakStartOf(day) <= t /\ t < BreakEndOf(day))

\* isWithinBusinessHours: today's window, or what is left of yesterday's.
IsWithinBusinessHours(hours, utc) ==
  LET t == ToKst(utc) IN
  \/ hours = NoHours
  \/ IsOpenInWindow(hours, DateOf(t), MinutesOf(t))
  \/ IsOpenInWindow(hours, DateOf(t) - 1, MinutesOf(t) + DAY_MINUTES)

-----------------------------------------------------------------------------
\* The console's preview, in the local time of a browser in Korea.
PreviewWithinDay(day, m) ==
  /\ IF day.close > day.open THEN day.open <= m /\ m < day.close
                             ELSE day.open <= m \/ m < day.close
  /\ day.break # NoBreak => ~ (day.break.start <= m /\ m < day.break.end)

PreviewTail(day, m) == day # Closed /\ day.close < day.open /\ m < day.close

IsWithinPreview(hours, utc) ==
  LET t == ToKst(utc)
      today == hours.days[DayKey(DateOf(t))]
      yesterday == hours.days[DayKey(DateOf(t) + 6)]
  IN \/ hours = NoHours
     \/ /\ DateOf(t) \notin hours.holidays
        /\ \/ today # Closed /\ PreviewWithinDay(today, MinutesOf(t))
           \/ PreviewTail(yesterday, MinutesOf(t))

-----------------------------------------------------------------------------
\* summarizeBusinessHours: runs of days with the same hours become one group.
Extend(groups, d, day) ==
  IF groups # << >> /\ Last(groups).day = day
  THEN [groups EXCEPT ![Len(groups)].days = Append(@, d)]
  ELSE Append(groups, [days |-> <<d>>, day |-> day])

Summary(hours) ==
  LET upTo[d \in DaysOfWeek] == Extend(IF d = 0 THEN << >> ELSE upTo[d - 1], d, hours.days[d])
  IN upTo[6]

\* groupLabel names the days of a group of up to two, and else its first and last.
GroupLabel(days) == IF Len(days) <= 2 THEN days ELSE <<days[1], "to", Last(days)>>

-----------------------------------------------------------------------------
VARIABLES
  hours,      \* agentConfig.businessHours of the tenant
  i,          \* the clock: Instants[i] is now
  answered,   \* how the call of this instant is answered, once it is
  shown       \* what the preview panel shows at this instant, once it is opened

vars == <<hours, i, answered, shown>>

Answers == {"none", "open", "after_hours"}

TypeOK ==
  /\ hours \in Schedules \cup {NoHours}
  /\ i \in 1 .. Len(Instants)
  /\ answered \in Answers
  /\ shown \in Answers

Init ==
  /\ hours \in [days : Weeks, holidays : Holidays] \cup {NoHours}
  /\ i = 1
  /\ answered = "none"
  /\ shown = "none"

\* resolveByTenantId: the prompt of the call gets its after-hours section now.
ResolveCall ==
  /\ answered' = IF IsWithinBusinessHours(hours, Instants[i]) THEN "open" ELSE "after_hours"
  /\ UNCHANGED <<hours, i, shown>>

\* BusinessHoursPage: "what if a call came in now?"
OpenPreview ==
  /\ shown' = IF IsWithinPreview(hours, Instants[i]) THEN "open" ELSE "after_hours"
  /\ UNCHANGED <<hours, i, answered>>

Tick ==
  /\ i < Len(Instants)
  /\ i' = i + 1
  /\ answered' = "none"
  /\ shown' = "none"
  /\ UNCHANGED hours

Next == ResolveCall \/ OpenPreview \/ Tick

Spec == Init /\ [][Next]_vars

-----------------------------------------------------------------------------
(***************************************************************************)
(* What the owner means by a week of hours, told by events and not by      *)
(* windows: the place opens at the opening time of every day that is       *)
(* neither closed nor a holiday, it closes at the next closing time on the *)
(* clock, a break begins at the next break time and ends at the next end   *)
(* of it.  Nearby bounds the dates looked at: no window is longer than a   *)
(* day.                                                                    *)
(***************************************************************************)
Nearby(t) == DateOf(t) - 2 .. DateOf(t) + 2
Instant(date, m) == DAY_MINUTES * date + m

OpenSince(h, date, t) ==
  LET day == h.days[DayKey(date)]
      o == Instant(date, day.open)
  IN /\ day # Closed
     /\ date \notin h.holidays
     /\ o <= t
     /\ \A c \in Nearby(t) : ~ (o < Instant(c, day.close) /\ Instant(c, day.close) <= t)
     /\ day.break # NoBreak =>
          \A b \in Nearby(t) :
             LET begin == Instant(b, day.break.start) IN
             o <= begin /\ begin <= t =>
               \E e \in Nearby(t) : LET end == Instant(e, day.break.end)
                                    IN begin < end /\ end <= t

IsOpen(h, utc) == h = NoHours \/ \E date \in Nearby(ToKst(utc)) : OpenSince(h, date, ToKst(utc))

(***************************************************************************)
(* A caller is told "we are closed" exactly when the place is closed: the  *)
(* two windows isWithinBusinessHours looks at, with closing times and      *)
(* breaks moved past midnight, are the opening, closing and break events   *)
(* of the week, overnight hours, breaks over midnight and holidays         *)
(* included (business-hours.ts:85-138).  A break that begins before the    *)
(* opening time and ends before it begins is the exception: nothing        *)
(* rejects one, and lines 110 and 111 read it as no break at all.          *)
(***************************************************************************)
BreakReadable(day) ==
  day = Closed \/ day.break = NoBreak
    \/ day.open <= day.break.start \/ day.break.start < day.break.end

Readable(h, utc) ==
  h = NoHours \/ \A date \in Nearby(ToKst(utc)) : BreakReadable(h.days[DayKey(date)])

AnsweredAsOpen ==
  (answered # "none" /\ Readable(hours, Instants[i]))
    => (answered = "open" <=> IsOpen(hours, Instants[i]))

Overnight(day) == day # Closed /\ day.close <= day.open
BreakInside(day) ==
  day = Closed \/ day.break = NoBreak
    \/ (day.open <= day.break.start /\ day.break.start < day.break.end)

\* m lies in the small hours of a night that began on the evening of `day`.
NightOf(day, m) == Overnight(day) /\ m < day.close

(***************************************************************************)
(* Where the two readings of one week meet.  In the small hours a call is  *)
(* answered by the night that began yesterday; the preview goes by today's *)
(* hours as well (withinDay, lines 41-46), which are those of the evening  *)
(* to come, by the holidays of today alone, and it knows no night that     *)
(* closes at the minute it opened (line 68).  So the night of yesterday    *)
(* and today's hours must say the same of m, and neither date be a         *)
(* holiday.  Breaks must lie in order after the opening time.              *)
(***************************************************************************)
RulesMeet(h, utc) ==
  LET t == ToKst(utc)
      m == MinutesOf(t)
      today == h.days[DayKey(DateOf(t))]
      yesterday == h.days[DayKey(DateOf(t) - 1)]
  IN \/ h = NoHours
     \/ /\ BreakInside(today) /\ BreakInside(yesterday)
        /\ NightOf(today, m) => NightOf(yesterday, m)
        /\ NightOf(yesterday, m) =>
             /\ {DateOf(t) - 1, DateOf(t)} \cap h.holidays = {}
             /\ NightOf(today, m) \/ yesterday.close < yesterday.open

(***************************************************************************)
(* The owner's preview panel and the prompt of a call at the same instant  *)
(* say the same wherever the two implementations meet, in the evening and  *)
(* the small hours of overnight hours too                                  *)
(* (apps/console/src/lib/business-hours.ts:36-71, business-hours.ts:85-138).*)
(***************************************************************************)
PreviewIsTheCall ==
  (answered # "none" /\ shown # "none" /\ RulesMeet(hours, Instants[i])) => answered = shown

(***************************************************************************)
(* What the head of the console's copy promises: "the same rules", hours   *)
(* that close before they open being open into the next day                *)
(* (apps/console/src/lib/business-hours.ts:5-8).  Said of weeks without a  *)
(* break, a holiday or hours of a whole day; it does not hold, see         *)
(* RulesMeet.                                                              *)
(***************************************************************************)
PreviewKeepsTheRules ==
  /\ answered # "none" /\ shown # "none"
  /\ hours # NoHours
  /\ hours.holidays = {}
  /\ \A d \in DaysOfWeek : hours.days[d] # Closed =>
       hours.days[d].break = NoBreak /\ hours.days[d].close # hours.days[d].open
  => answered = shown

(***************************************************************************)
(* The one line of hours the agent reads to callers tells the week that    *)
(* was saved: its groups name every day once and in order, a group that is *)
(* told as "first to last" is an unbroken run of days with those hours,    *)
(* and no two neighbouring groups could have been one                      *)
(* (business-hours.ts:148-178).                                            *)
(***************************************************************************)
LabelDays(label) ==
  IF Len(label) = 3 /\ label[2] = "to" THEN label[1] .. label[3] ELSE ToSet(label)

SummaryTellsTheWeek ==
  hours # NoHours =>
    LET groups == Summary(hours) IN
    /\ \A d \in DaysOfWeek :
         \E g \in DOMAIN groups :
           /\ d \in LabelDays(GroupLabel(groups[g].days))
           /\ groups[g].day = hours.days[d]
           /\ \A other \in DOMAIN groups \ {g} : d \notin LabelDays(GroupLabel(groups[other].days))
    /\ \A g \in 1 .. Len(groups) - 1 : groups[g].day # groups[g + 1].day
(***************************************************************************)
(* The two together: what the owner is shown of the week and what callers  *)
(* are told of it is what calls are answered by.                           *)
(***************************************************************************)
TheSameIsTold == PreviewIsTheCall /\ SummaryTellsTheWeek
=============================================================================
