---------------------------- MODULE PagesProofs ----------------------------
(***************************************************************************)
(* The pages' own rules, for every value of the constants.  The opening    *)
(* hours: for every week of hours, every list of holidays and every        *)
(* instant a call is answered as open exactly when the place is open, the  *)
(* preview panel says the same where the two implementations can agree,    *)
(* and the line of hours in the prompt tells the week.  The page the hours *)
(* are edited on shows what is saved from it.  A browser tab finds its     *)
(* page.                                                                   *)
(***************************************************************************)
EXTENDS MCPages, TLAPS

(***************************************************************************)
(* A minute of the day, as the numbers it ranges over.                     *)
(***************************************************************************)
IsMinute(n) == n \in Int /\ 0 <= n /\ n < 1440

\* An instant is its date and its minute of the day.
LEMMA Calendar ==
  ASSUME NEW t \in Int
  PROVE  /\ DateOf(t) \in Int
         /\ IsMinute(MinutesOf(t))
         /\ t = 1440 * DateOf(t) + MinutesOf(t)
BY SMT DEF DateOf, MinutesOf, DAY_MINUTES, IsMinute

\* Every date has a day of the week.
LEMMA DayKeyType ==
  ASSUME NEW d \in Int
  PROVE  DayKey(d) \in DaysOfWeek
BY SMT DEF DayKey, DaysOfWeek

LEMMA Minutes ==
  ASSUME NEW n \in MinuteOfDay
  PROVE  IsMinute(n)
<1>1. DAY_MINUTES \in Int
  BY DEF DAY_MINUTES
<1>2. n \in Int /\ 0 <= n /\ n < DAY_MINUTES
  BY <1>1 DEF MinuteOfDay
<1>. QED  BY <1>2 DEF DAY_MINUTES, IsMinute

\* The hours of a day that is not closed are minutes of the day.
LEMMA DayFields ==
  ASSUME NEW day \in DayHours
  PROVE  /\ IsMinute(day.open)
         /\ IsMinute(day.close)
         /\ day.break # NoBreak => /\ IsMinute(day.break.start)
                                   /\ IsMinute(day.break.end)
<1>1. day.break \in Breaks \cup {NoBreak}
  BY DEF DayHours
<1>2. IsMinute(day.open) /\ IsMinute(day.close)
  BY Minutes DEF DayHours
<1>3. ASSUME day.break \in Breaks
      PROVE  IsMinute(day.break.start) /\ IsMinute(day.break.end)
  BY <1>3, Minutes DEF Breaks
<1>. QED  BY <1>1, <1>2, <1>3

-----------------------------------------------------------------------------
(***************************************************************************)
(* The events of one day in plain integers: the day's opening o, its       *)
(* closing c, its break from s to e; the instant is minute m of date d.    *)
(***************************************************************************)
Shut(o, c) == IF c <= o THEN c + 1440 ELSE c
Begin(o, s) == IF s < o THEN s + 1440 ELSE s
End(o, s, e) == IF e <= Begin(o, s) THEN e + 1440 ELSE e

Between(date, o, k, c, d, m) ==
  1440 * date + o < 1440 * k + c /\ 1440 * k + c <= 1440 * d + m

HasClosed(date, o, c, d, m) == \E k \in d - 2 .. d + 2 : Between(date, o, k, c, d, m)

Begun(date, o, k, s, d, m) ==
  1440 * date + o <= 1440 * k + s /\ 1440 * k + s <= 1440 * d + m

NoBreakNow(date, o, s, e, d, m) ==
  \A b \in d - 2 .. d + 2 :
    Begun(date, o, b, s, d, m) => \E k \in d - 2 .. d + 2 : Between(b, s, k, e, d, m)

\* Of two instants the later one is not on an earlier date.
LEMMA LaterDate ==
  ASSUME NEW a \in Int, NEW x, IsMinute(x), NEW b \in Int, NEW y, IsMinute(y),
         1440 * a + x <= 1440 * b + y
  PROVE  a <= b /\ (y < x => a + 1 <= b)
BY DEF IsMinute

\* A window has closed exactly when a closing time lies since its opening.
LEMMA ClosingEvent ==
  ASSUME NEW o, IsMinute(o), NEW c, IsMinute(c),
         NEW d \in Int, NEW m, IsMinute(m), NEW date \in Int, date = d - 1 \/ date = d,
         1440 * date + o <= 1440 * d + m
  PROVE  HasClosed(date, o, c, d, m) <=> 1440 * date + Shut(o, c) <= 1440 * d + m
<1>1. ASSUME NEW k \in d - 2 .. d + 2, Between(date, o, k, c, d, m)
      PROVE  1440 * date + Shut(o, c) <= 1440 * d + m
  <2>1. k \in Int /\ date \in Int
    OBVIOUS
  <2>2. date <= k /\ (c <= o => date + 1 <= k)
    BY <1>1, <2>1 DEF Between, IsMinute
  <2>. QED  BY <1>1, <2>1, <2>2 DEF Between, Shut, IsMinute
<1>2. ASSUME 1440 * date + Shut(o, c) <= 1440 * d + m
      PROVE  HasClosed(date, o, c, d, m)
  <2>1. CASE c <= o
    <3>1. date + 1 \in d - 2 .. d + 2 /\ Between(date, o, date + 1, c, d, m)
      BY <1>2, <2>1 DEF Between, Shut, IsMinute
    <3>. QED  BY <3>1 DEF HasClosed
  <2>2. CASE ~ (c <= o)
    <3>1. date \in d - 2 .. d + 2 /\ Between(date, o, date, c, d, m)
      BY <1>2, <2>2 DEF Between, Shut, IsMinute
    <3>. QED  BY <3>1 DEF HasClosed
  <2>. QED  BY <2>1, <2>2
<1>. QED  BY <1>1, <1>2 DEF HasClosed

(***************************************************************************)
(* A break of that window, moved past midnight as the code does, holds     *)
(* exactly when its beginning has come and no end of it has come since.    *)
(***************************************************************************)
LEMMA BreakEvent ==
  ASSUME NEW o, IsMinute(o), NEW s, IsMinute(s), NEW e, IsMinute(e), s >= o \/ s < e,
         NEW d \in Int, NEW m, IsMinute(m), NEW date \in Int, date = d - 1 \/ date = d,
         1440 * date + o <= 1440 * d + m,
         1440 * d + m < 1440 * date + o + 1440
  PROVE  NoBreakNow(date, o, s, e, d, m)
         <=> ~ (1440 * date + Begin(o, s) <= 1440 * d + m /\ 1440 * d + m < 1440 * date + End(o, s, e))
<1>. DEFINE first == IF s < o THEN date + 1 ELSE date
            last == IF e <= s THEN first + 1 ELSE first
<1>1. /\ date \in Int /\ first \in Int /\ last \in Int
      /\ 1440 * date + Begin(o, s) = 1440 * first + s
  BY DEF Begin, IsMinute
<1>2. 1440 * date + End(o, s, e) = 1440 * last + e
  <2>1. CASE s < o
    BY <2>1, <1>1 DEF Begin, End, IsMinute
  <2>2. CASE ~ (s < o)
    BY <2>2, <1>1 DEF Begin, End, IsMinute
  <2>. QED  BY <2>1, <2>2
<1>3. ASSUME NEW b \in d - 2 .. d + 2, Begun(date, o, b, s, d, m)
      PROVE  b = first
  <2>0. b \in Int
    OBVIOUS
  <2>1. b \in Int /\ date <= b /\ (s < o => date + 1 <= b)
    BY <1>3, <1>1, <2>0, LaterDate DEF Begun
  <2>2. 1440 * b + s < 1440 * (date + 1) + o
    BY <1>3, <2>1, <1>1 DEF Begun, IsMinute
  <2>3. b <= date + 1 /\ (o <= s => b <= date)
    BY <2>1, <2>2, <1>1 DEF IsMinute
  <2>. QED  BY <2>1, <2>3, <1>1 DEF IsMinute
<1>4. ASSUME 1440 * first + s <= 1440 * d + m
      PROVE  first \in d - 2 .. d + 2 /\ Begun(date, o, first, s, d, m)
  BY <1>1, <1>4 DEF Begun, IsMinute
<1>5. ASSUME NEW k \in d - 2 .. d + 2, Between(first, s, k, e, d, m)
      PROVE  1440 * last + e <= 1440 * d + m
  <2>1. k \in Int /\ first <= k /\ (e <= s => first + 1 <= k)
    BY <1>5, <1>1 DEF Between, IsMinute
  <2>. QED  BY <1>5, <2>1, <1>1 DEF Between, IsMinute
<1>6. ASSUME 1440 * last + e <= 1440 * d + m
      PROVE  last \in d - 2 .. d + 2 /\ Between(first, s, last, e, d, m)
  BY <1>6, <1>1 DEF Between, IsMinute
<1>. HIDE DEF first, last
<1>7. CASE 1440 * last + e <= 1440 * d + m
  <2>1. NoBreakNow(date, o, s, e, d, m)
    BY <1>3, <1>6, <1>7 DEF NoBreakNow
  <2>. QED  BY <2>1, <1>1, <1>2, <1>7 DEF IsMinute
<1>8. CASE ~ (1440 * last + e <= 1440 * d + m) /\ 1440 * first + s <= 1440 * d + m
  <2>1. ~ NoBreakNow(date, o, s, e, d, m)
    BY <1>4, <1>5, <1>8 DEF NoBreakNow
  <2>2. 1440 * d + m < 1440 * last + e
    BY <1>8, <1>1 DEF IsMinute
  <2>. QED  BY <2>1, <2>2, <1>1, <1>2, <1>8
<1>9. CASE ~ (1440 * first + s <= 1440 * d + m)
  <2>1. NoBreakNow(date, o, s, e, d, m)
    BY <1>3, <1>9 DEF NoBreakNow, Begun
  <2>. QED  BY <2>1, <1>1, <1>9
<1>. QED  BY <1>7, <1>8, <1>9

-----------------------------------------------------------------------------
(***************************************************************************)
(* A business day's window, as the code draws it, holds at an instant of   *)
(* that day or of the next exactly when the day's events say it is open.   *)
(***************************************************************************)
LEMMA WindowIsEvents ==
  ASSUME NEW h \in Schedules, NEW t \in Int,
         NEW date \in {DateOf(t) - 1, DateOf(t)},
         BreakReadable(h.days[DayKey(date)])
  PROVE  IsOpenInWindow(h, date, t - 1440 * date) <=> OpenSince(h, date, t)
<1>. DEFINE day == h.days[DayKey(date)]
<1>1. PICK d \in Int, m \in Int :
        d = DateOf(t) /\ IsMinute(m) /\ t = 1440 * d + m
  BY Calendar DEF IsMinute
<1>2. date \in Int /\ (date = d - 1 \/ date = d)
  BY <1>1
<1>3. day \in DayHours \cup {Closed}
  BY <1>2, DayKeyType DEF Schedules, WeekDays
<1>4. CASE day = Closed
  BY <1>4 DEF IsOpenInWindow, OpenSince
<1>5. CASE date \in h.holidays
  BY <1>5 DEF IsOpenInWindow, OpenSince
<1>6. CASE day # Closed /\ date \notin h.holidays
  <2>1. day \in DayHours
    BY <1>3, <1>6
  <2>2. PICK x \in Int : x = t - 1440 * date
    BY <1>1, <1>2
  <2>3. IsOpenInWindow(h, date, x)
        <=> /\ day.open <= x /\ x < Shut(day.open, day.close)
            /\ day.break # NoBreak =>
                 ~ (/\ Begin(day.open, day.break.start) <= x
                    /\ x < End(day.open, day.break.start, day.break.end))
    BY <1>6 DEF IsOpenInWindow, CloseOf, BreakStartOf, BreakEndOf, Shut, Begin, End, DAY_MINUTES
  <2>4. OpenSince(h, date, t)
        <=> /\ 1440 * date + day.open <= 1440 * d + m
            /\ ~ HasClosed(date, day.open, day.close, d, m)
            /\ day.break # NoBreak =>
                 NoBreakNow(date, day.open, day.break.start, day.break.end, d, m)
    BY <1>1, <1>6 DEF OpenSince, HasClosed, NoBreakNow, Between, Begun, Instant, Nearby, DAY_MINUTES
  <2>. DEFINE o == day.open
              c == day.close
              s == day.break.start
              e == day.break.end
  <2>5. IsMinute(o) /\ IsMinute(c) /\ (day.break # NoBreak => IsMinute(s) /\ IsMinute(e))
    BY <2>1, DayFields
  <2>6. day.break # NoBreak => s >= o \/ s < e
    BY <1>6, <2>1, DayFields DEF BreakReadable, IsMinute
  <2>. HIDE DEF o, c, s, e
  <2>7. /\ Shut(o, c) \in Int /\ Shut(o, c) <= o + 1440 /\ o \in Int
        /\ o <= x <=> 1440 * date + o <= 1440 * d + m
        /\ x < Shut(o, c) <=> ~ (1440 * date + Shut(o, c) <= 1440 * d + m)
    BY <1>1, <1>2, <2>2, <2>5 DEF Shut, IsMinute
  <2>8. ASSUME o <= x
        PROVE  x < Shut(o, c) <=> ~ HasClosed(date, o, c, d, m)
    <3>1. 1440 * date + o <= 1440 * d + m
      BY <2>7, <2>8
    <3>2. HasClosed(date, o, c, d, m) <=> 1440 * date + Shut(o, c) <= 1440 * d + m
      BY <1>1, <1>2, <2>5, <3>1, ClosingEvent
    <3>. QED  BY <2>7, <3>2
  <2>9. ASSUME day.break # NoBreak, o <= x, x < Shut(o, c)
        PROVE  NoBreakNow(date, o, s, e, d, m) <=> ~ (Begin(o, s) <= x /\ x < End(o, s, e))
    <3>1. 1440 * date + o <= 1440 * d + m /\ 1440 * d + m < 1440 * date + o + 1440
      BY <1>1, <1>2, <2>2, <2>7, <2>9
    <3>2. NoBreakNow(date, o, s, e, d, m)
          <=> ~ (/\ 1440 * date + Begin(o, s) <= 1440 * d + m
                 /\ 1440 * d + m < 1440 * date + End(o, s, e))
      BY <1>1, <1>2, <2>5, <2>6, <2>9, <3>1, BreakEvent
    <3>3. Begin(o, s) \in Int
      BY <2>5, <2>9 DEF Begin, IsMinute
    <3>4. End(o, s, e) \in Int
      BY <2>5, <2>9, <3>3 DEF End, IsMinute
    <3>. QED  BY <1>1, <1>2, <2>2, <3>2, <3>3, <3>4
  <2>. QED  BY <2>2, <2>3, <2>4, <2>7, <2>8, <2>9 DEF o, c, s, e
<1>. QED  BY <1>4, <1>5, <1>6

(***************************************************************************)
(* The windows of two days are all the code has to look at: a day of the   *)
(* dates nearby that is open at t is the date of t or the one before.      *)
(***************************************************************************)
LEMMA OnlyTwoDays ==
  ASSUME NEW h \in Schedules, NEW t \in Int, NEW date \in Nearby(t), OpenSince(h, date, t)
  PROVE  date \in {DateOf(t) - 1, DateOf(t)}
<1>. DEFINE day == h.days[DayKey(date)]
<1>1. PICK d \in Int, m \in Int :
        d = DateOf(t) /\ IsMinute(m) /\ t = 1440 * d + m
  BY Calendar DEF IsMinute
<1>2. date \in Int /\ d - 2 <= date /\ date <= d + 2
  BY <1>1 DEF Nearby
<1>3. day \in DayHours
  BY <1>2, DayKeyType DEF Schedules, WeekDays, OpenSince
<1>. DEFINE o == day.open
            c == day.close
<1>4. IsMinute(o) /\ IsMinute(c)
  BY <1>3, DayFields
<1>5. 1440 * date + o <= 1440 * d + m /\ ~ HasClosed(date, o, c, d, m)
  BY <1>1 DEF OpenSince, HasClosed, Between, Instant, Nearby, DAY_MINUTES
<1>. HIDE DEF o, c
<1>6. date <= d
  BY <1>2, <1>5, <1>1, <1>4 DEF IsMinute
<1>7. ASSUME date = d - 2
      PROVE  FALSE
  <2>1. d - 1 \in d - 2 .. d + 2 /\ d - 2 \in d - 2 .. d + 2
    BY <1>1
  <2>2. CASE c <= o
    <3>1. Between(date, o, d - 1, c, d, m)
      BY <1>7, <1>1, <1>4, <2>2 DEF Between, IsMinute
    <3>. QED  BY <3>1, <2>1, <1>5 DEF HasClosed
  <2>3. CASE o < c
    <3>1. Between(date, o, d - 2, c, d, m)
      BY <1>7, <1>1, <1>4, <2>3 DEF Between, IsMinute
    <3>. QED  BY <3>1, <2>1, <1>5 DEF HasClosed
  <2>. QED  BY <2>2, <2>3, <1>4 DEF IsMinute
<1>8. date = d - 2 \/ date = d - 1 \/ date = d
  <2>1. PICK n \in Int : n = date - d /\ date = d + n
    BY <1>2, <1>1
  <2>2. -2 <= n /\ n <= 0
    BY <2>1, <1>2, <1>6, <1>1
  <2>3. n = -2 \/ n = -1 \/ n = 0
    BY <2>2
  <2>. QED  BY <2>1, <2>3, <1>1
<1>. QED  BY <1>1, <1>7, <1>8

(***************************************************************************)
(* The decision of the code at an instant is the meaning of the hours.     *)
(***************************************************************************)
LEMMA WithinIsOpen ==
  ASSUME NEW h \in Schedules \cup {NoHours}, NEW utc \in Int, Readable(h, utc)
  PROVE  IsWithinBusinessHours(h, utc) <=> IsOpen(h, utc)
<1>1. CASE h = NoHours
  BY <1>1 DEF IsWithinBusinessHours, IsOpen
<1>2. CASE h # NoHours
  <2>1. h \in Schedules
    BY <1>2
  <2>2. PICK t \in Int : t = ToKst(utc)
    BY DEF ToKst, KST_OFFSET
  <2>3. PICK d \in Int, m \in Int : /\ d = DateOf(t) /\ m = MinutesOf(t)
                                    /\ IsMinute(m) /\ t = 1440 * d + m
    BY Calendar DEF IsMinute
  <2>4. d \in Nearby(t) /\ d - 1 \in Nearby(t)
    BY <2>3 DEF Nearby
  <2>5. IsOpenInWindow(h, d, m) <=> OpenSince(h, d, t)
    <3>1. m = t - 1440 * d
      BY <2>3
    <3>2. BreakReadable(h.days[DayKey(d)])
      BY <1>2, <2>2, <2>4 DEF Readable
    <3>. QED  BY <2>1, <2>3, <3>1, <3>2, WindowIsEvents
  <2>6. IsOpenInWindow(h, d - 1, m + 1440) <=> OpenSince(h, d - 1, t)
    <3>1. m + 1440 = t - 1440 * (d - 1)
      BY <2>3
    <3>2. BreakReadable(h.days[DayKey(d - 1)])
      BY <1>2, <2>2, <2>4 DEF Readable
    <3>. QED  BY <2>1, <2>3, <3>1, <3>2, WindowIsEvents
  <2>7. IsOpen(h, utc) <=> OpenSince(h, d, t) \/ OpenSince(h, d - 1, t)
    BY <1>2, <2>1, <2>2, <2>3, <2>4, OnlyTwoDays DEF IsOpen
  <2>8. IsWithinBusinessHours(h, utc)
        <=> IsOpenInWindow(h, d, m) \/ IsOpenInWindow(h, d - 1, m + 1440)
    BY <1>2, <2>2, <2>3 DEF IsWithinBusinessHours, DAY_MINUTES
  <2>. QED  BY <2>5, <2>6, <2>7, <2>8
<1>. QED  BY <1>1, <1>2

-----------------------------------------------------------------------------
(* The line of hours in the prompt.                                        *)

\* A group's days are a run, from its first day to its last.
IsRun(days) == days \in Seq(Int) /\ Len(days) >= 1 /\ \A k \in 1 .. Len(days) : days[k] = days[1] + k - 1
FirstOf(x) == x.days[1]
LastOf(x) == x.days[1] + Len(x.days) - 1

\* The label of a run names its days.
LEMMA LabelOfRun ==
  ASSUME NEW days, IsRun(days)
  PROVE  LabelDays(GroupLabel(days)) = days[1] .. days[1] + Len(days) - 1
<1>1. PICK n \in Int : n = days[1]
  BY DEF IsRun
<1>2. PICK l \in Nat : l = Len(days) /\ l >= 1
  BY DEF IsRun
<1>3. DOMAIN days = 1 .. l /\ \A k \in 1 .. l : days[k] = n + k - 1
  BY <1>1, <1>2 DEF IsRun
<1>4. CASE l <= 2
  <2>1. GroupLabel(days) = days
    BY <1>2, <1>4 DEF GroupLabel
  <2>2. LabelDays(days) = ToSet(days)
    BY <1>2, <1>4 DEF LabelDays
  <2>3. ToSet(days) = {days[k] : k \in 1 .. l}
    BY <1>3 DEF ToSet
  <2>4. \A d : d \in ToSet(days) <=> d \in n .. n + l - 1
    <3>1. CASE l = 1
      BY <1>1, <1>3, <2>3, <3>1
    <3>2. CASE l = 2
      BY <1>1, <1>3, <2>3, <3>2
    <3>. QED  BY <1>2, <1>4, <3>1, <3>2
  <2>5. ToSet(days) = n .. n + l - 1
    BY <2>4
  <2>. QED  BY <1>1, <1>2, <2>1, <2>2, <2>5
<1>5. CASE l > 2
  <2>1. GroupLabel(days) = <<days[1], "to", days[l]>>
    BY <1>2, <1>5 DEF GroupLabel, Last
  <2>2. days[l] = n + l - 1
    BY <1>2, <1>3
  <2>3. GroupLabel(days) = <<n, "to", n + l - 1>>
    BY <1>1, <2>1, <2>2
  <2>. DEFINE label == <<n, "to", n + l - 1>>
  <2>4. Len(label) = 3 /\ label[2] = "to" /\ label[1] = n /\ label[3] = n + l - 1
    OBVIOUS
  <2>5. LabelDays(label) = label[1] .. label[3]
    BY <2>4 DEF LabelDays
  <2>. QED  BY <1>1, <1>2, <2>3, <2>4, <2>5
<1>. QED  BY <1>2, <1>4, <1>5

(***************************************************************************)
(* What the groups tell of the days 0 to n of a week: they are runs, one   *)
(* after the other, that leave no day out, have the hours of their days,   *)
(* and differ from their neighbours.                                       *)
(***************************************************************************)
TellDays(h, groups, n) ==
  /\ groups \in Seq([days : Seq(Int), day : DayHours \cup {Closed}]) /\ Len(groups) >= 1
  /\ \A g \in 1 .. Len(groups) : IsRun(groups[g].days)
  /\ \A d \in 0 .. n : \E g \in 1 .. Len(groups) : FirstOf(groups[g]) <= d /\ d <= LastOf(groups[g])
  /\ \A f, g \in 1 .. Len(groups) : f < g => LastOf(groups[f]) < FirstOf(groups[g])
  /\ \A g \in 1 .. Len(groups) : \A d \in Int :
       FirstOf(groups[g]) <= d /\ d <= LastOf(groups[g]) => h.days[d] = groups[g].day
  /\ \A g \in 1 .. Len(groups) : LastOf(groups[g]) <= n
  /\ LastOf(groups[Len(groups)]) = n
  /\ \A g \in 1 .. Len(groups) - 1 : groups[g].day # groups[g + 1].day

\* A day more makes the last run longer or begins a run of its own.
LEMMA LongerRun ==
  ASSUME NEW days, IsRun(days), NEW n \in Int, n = days[1] + Len(days) - 1
  PROVE  /\ IsRun(Append(days, n + 1))
         /\ Append(days, n + 1)[1] = days[1]
         /\ Len(Append(days, n + 1)) = Len(days) + 1
<1>1. PICK l \in Nat : l = Len(days) /\ l >= 1
  BY DEF IsRun
<1>2. /\ Append(days, n + 1) \in Seq(Int) /\ Len(Append(days, n + 1)) = l + 1
      /\ \A k \in 1 .. l : Append(days, n + 1)[k] = days[k]
      /\ Append(days, n + 1)[l + 1] = n + 1
  BY <1>1 DEF IsRun
<1>3. days[1] \in Int /\ n + 1 = days[1] + l
  BY <1>1 DEF IsRun
<1>4. Append(days, n + 1)[1] = days[1]
  BY <1>1, <1>2
<1>5. \A k \in 1 .. l + 1 : Append(days, n + 1)[k] = days[1] + k - 1
  <2>1. ASSUME NEW k \in 1 .. l + 1 PROVE Append(days, n + 1)[k] = days[1] + k - 1
    <3>1. CASE k \in 1 .. l
      BY <1>1, <1>2, <3>1 DEF IsRun
    <3>2. CASE k = l + 1
      BY <1>2, <1>3, <3>2
    <3>. QED  BY <1>1, <3>1, <3>2
  <2>. QED  BY <2>1
<1>. QED  BY <1>1, <1>2, <1>4, <1>5 DEF IsRun
LEMMA RunEnds ==
  ASSUME NEW x, IsRun(x.days)
  PROVE  FirstOf(x) \in Int /\ LastOf(x) \in Int /\ FirstOf(x) <= LastOf(x)
BY DEF IsRun, FirstOf, LastOf

\* One turn of the loop of summarizeBusinessHours.
LEMMA ExtendTells ==
  ASSUME NEW h, NEW n \in Nat, NEW groups, TellDays(h, groups, n),
         NEW day \in DayHours \cup {Closed}, h.days[n + 1] = day
  PROVE  TellDays(h, Extend(groups, n + 1, day), n + 1)
<1>. DEFINE Group == [days : Seq(Int), day : DayHours \cup {Closed}]
<1>1. PICK l \in Nat : l = Len(groups) /\ l >= 1
  BY DEF TellDays
<1>. HIDE DEF Group
<1>0. groups \in Seq(Group) /\ \A g \in 1 .. l : IsRun(groups[g].days)
  BY <1>1 DEF TellDays, Group
<1>2. groups \in Seq(Group) /\ \A g \in 1 .. l : groups[g] \in Group /\ IsRun(groups[g].days)
  BY <1>0, <1>1
<1>3. LastOf(groups[l]) = n
  BY <1>1 DEF TellDays
<1>4. groups # << >> /\ Last(groups) = groups[l]
  BY <1>1 DEF Last
<1>5. \A g \in 1 .. l : /\ FirstOf(groups[g]) \in Int /\ LastOf(groups[g]) \in Int
                        /\ FirstOf(groups[g]) <= LastOf(groups[g])
  BY <1>2, RunEnds
<1>6. CASE groups[l].day = day
  <2>. DEFINE longer == [groups EXCEPT ![l].days = Append(@, n + 1)]
  <2>1. Extend(groups, n + 1, day) = longer
    BY <1>1, <1>4, <1>6 DEF Extend
  <2>2. n = groups[l].days[1] + Len(groups[l].days) - 1
    BY <1>3 DEF LastOf
  <2>3. /\ IsRun(Append(groups[l].days, n + 1))
        /\ Append(groups[l].days, n + 1)[1] = groups[l].days[1]
        /\ Len(Append(groups[l].days, n + 1)) = Len(groups[l].days) + 1
    <3>1. l \in 1 .. l
      BY <1>1
    <3>2. IsRun(groups[l].days)
      BY <1>2, <3>1
    <3>3. n \in Int
      OBVIOUS
    <3>. QED  BY <2>2, <3>2, <3>3, LongerRun
  <2>4. /\ longer \in Seq(Group) /\ Len(longer) = l
        /\ \A g \in 1 .. l - 1 : longer[g] = groups[g]
        /\ longer[l].day = groups[l].day /\ longer[l].days = Append(groups[l].days, n + 1)
    <3>1. Append(groups[l].days, n + 1) \in Seq(Int)
      BY <2>3 DEF IsRun
    <3>2. l \in 1 .. l
      BY <1>1
    <3>3. groups[l] \in Group
      BY <1>2, <3>2
    <3>. HIDE DEF Group
    <3>4. longer = [groups EXCEPT ![l] = [groups[l] EXCEPT !.days = Append(groups[l].days, n + 1)]]
      OBVIOUS
    <3>5. [groups[l] EXCEPT !.days = Append(groups[l].days, n + 1)] \in Group
      BY <3>1, <3>3 DEF Group
    <3>6. longer \in Seq(Group) /\ Len(longer) = l
      BY <1>1, <1>2, <3>2, <3>4, <3>5
    <3>7. \A g \in 1 .. l - 1 : longer[g] = groups[g]
      BY <1>1, <1>2, <3>4
    <3>8. longer[l] = [groups[l] EXCEPT !.days = Append(groups[l].days, n + 1)]
      BY <1>1, <1>2, <3>2, <3>4
    <3>9. longer[l].day = groups[l].day /\ longer[l].days = Append(groups[l].days, n + 1)
      BY <3>3, <3>8 DEF Group
    <3>. QED  BY <3>6, <3>7, <3>9
  <2>. HIDE DEF longer
  <2>5. FirstOf(longer[l]) = FirstOf(groups[l]) /\ LastOf(longer[l]) = n + 1
    <3>1. Len(groups[l].days) \in Nat /\ groups[l].days[1] \in Int
      <4>1. l \in 1 .. l
        BY <1>1
      <4>2. IsRun(groups[l].days)
        BY <1>2, <4>1
      <4>. QED  BY <4>2 DEF IsRun
    <3>2. longer[l].days[1] = groups[l].days[1] /\ Len(longer[l].days) = Len(groups[l].days) + 1
      BY <2>3, <2>4
    <3>. QED  BY <2>2, <3>1, <3>2 DEF FirstOf, LastOf
  <2>61. \A g \in 1 .. l : g < l => longer[g] = groups[g]
    BY <1>1, <2>4
  <2>6. \A g \in 1 .. l : g < l => /\ FirstOf(longer[g]) = FirstOf(groups[g])
                                   /\ LastOf(longer[g]) = LastOf(groups[g])
                                   /\ longer[g].day = groups[g].day
    BY <2>61 DEF FirstOf, LastOf
  <2>7. \A g \in 1 .. l : IsRun(longer[g].days)
    <3>1. ASSUME NEW g \in 1 .. l PROVE IsRun(longer[g].days)
      <4>1. CASE g = l
        BY <2>3, <2>4, <4>1
      <4>2. CASE g < l
        BY <1>2, <2>61, <4>2
      <4>. QED  BY <1>1, <4>1, <4>2
    <3>. QED  BY <3>1
  <2>8. \A d \in 0 .. n + 1 : \E g \in 1 .. l : FirstOf(longer[g]) <= d /\ d <= LastOf(longer[g])
    <3>1. ASSUME NEW d \in 0 .. n + 1
          PROVE \E g \in 1 .. l : FirstOf(longer[g]) <= d /\ d <= LastOf(longer[g])
      <4>1. CASE d = n + 1
        BY <1>1, <1>3, <1>5, <2>5, <4>1
      <4>2. CASE d \in 0 .. n
        <5>1. PICK g \in 1 .. l : FirstOf(groups[g]) <= d /\ d <= LastOf(groups[g])
          BY <1>1, <4>2 DEF TellDays
        <5>2. CASE g = l
          BY <1>1, <2>5, <4>2, <5>1, <5>2
        <5>3. CASE g < l
          BY <2>6, <5>1, <5>3
        <5>. QED  BY <1>1, <5>2, <5>3
      <4>. QED  BY <3>1, <4>1, <4>2
    <3>. QED  BY <3>1
  <2>9. \A f, g \in 1 .. l : f < g => LastOf(longer[f]) < FirstOf(longer[g])
    <3>1. ASSUME NEW f \in 1 .. l, NEW g \in 1 .. l, f < g
          PROVE  LastOf(longer[f]) < FirstOf(longer[g])
      <4>1. LastOf(groups[f]) < FirstOf(groups[g]) /\ f < l
        BY <1>1, <3>1 DEF TellDays
      <4>2. CASE g = l
        BY <2>5, <2>6, <4>1, <4>2
      <4>3. CASE g < l
        BY <2>6, <4>1, <4>3
      <4>. QED  BY <1>1, <4>2, <4>3
    <3>. QED  BY <3>1
  <2>10. \A g \in 1 .. l : \A d \in Int :
           FirstOf(longer[g]) <= d /\ d <= LastOf(longer[g]) => h.days[d] = longer[g].day
    <3>1. ASSUME NEW g \in 1 .. l, NEW d \in Int,
                 FirstOf(longer[g]) <= d, d <= LastOf(longer[g])
          PROVE  h.days[d] = longer[g].day
      <4>1. CASE g < l
        BY <1>1, <2>6, <3>1, <4>1 DEF TellDays
      <4>2. CASE g = l /\ d = n + 1
        BY <1>6, <2>4, <4>2
      <4>3. CASE g = l /\ d # n + 1
        <5>1. d <= LastOf(groups[l]) /\ FirstOf(groups[l]) <= d
          BY <1>3, <2>5, <3>1, <4>3
        <5>2. h.days[d] = groups[l].day
          BY <1>1, <5>1 DEF TellDays
        <5>. QED  BY <2>4, <4>3, <5>2
      <4>. QED  BY <1>1, <4>1, <4>2, <4>3
    <3>. QED  BY <3>1
  <2>11. \A g \in 1 .. l : LastOf(longer[g]) <= n + 1
    <3>1. ASSUME NEW g \in 1 .. l PROVE LastOf(longer[g]) <= n + 1
      <4>1. CASE g = l
        BY <2>5, <4>1
      <4>2. CASE g < l
        <5>1. LastOf(groups[g]) <= n
          BY <1>1 DEF TellDays
        <5>. QED  BY <1>5, <2>6, <4>2, <5>1
      <4>. QED  BY <1>1, <4>1, <4>2
    <3>. QED  BY <3>1
  <2>12. \A g \in 1 .. l - 1 : longer[g].day # longer[g + 1].day
    <3>1. ASSUME NEW g \in 1 .. l - 1 PROVE longer[g].day # longer[g + 1].day
      <4>1. groups[g].day # groups[g + 1].day
        BY <1>1 DEF TellDays
      <4>2. longer[g].day = groups[g].day
        BY <1>1, <2>6
      <4>3. longer[g + 1].day = groups[g + 1].day
        <5>1. CASE g + 1 = l
          BY <2>4, <5>1
        <5>2. CASE g + 1 < l
          BY <1>1, <2>6, <5>2
        <5>. QED  BY <1>1, <5>1, <5>2
      <4>. QED  BY <4>1, <4>2, <4>3
    <3>. QED  BY <3>1
  <2>13. /\ longer \in Seq(Group) /\ Len(longer) = l /\ Len(longer) >= 1
         /\ LastOf(longer[Len(longer)]) = n + 1
    BY <1>1, <2>4, <2>5
  <2>14. TellDays(h, longer, n + 1)
    BY <2>7, <2>8, <2>9, <2>10, <2>11, <2>12, <2>13 DEF TellDays, Group
  <2>. QED  BY <2>1, <2>14
<1>7. CASE groups[l].day # day
  <2>. DEFINE new == [days |-> <<n + 1>>, day |-> day]
              longer == Append(groups, new)
  <2>1. Extend(groups, n + 1, day) = longer
    BY <1>1, <1>4, <1>7 DEF Extend
  <2>2. /\ new \in Group /\ IsRun(new.days) /\ new.day = day
        /\ FirstOf(new) = n + 1 /\ LastOf(new) = n + 1
    <3>1. <<n + 1>> \in Seq(Int) /\ Len(<<n + 1>>) = 1 /\ <<n + 1>>[1] = n + 1
      OBVIOUS
    <3>. QED  BY <3>1 DEF IsRun, FirstOf, LastOf, Group
  <2>. HIDE DEF new
  <2>3. /\ longer \in Seq(Group) /\ Len(longer) = l + 1
        /\ \A g \in 1 .. l : longer[g] = groups[g]
        /\ longer[l + 1] = new
    <3>1. new \in Group /\ groups \in Seq(Group) /\ l = Len(groups) /\ l \in Nat
      BY <1>1, <1>2, <2>2
    <3>. QED  BY <3>1
  <2>. HIDE DEF longer
  <2>4. \A g \in 1 .. l : g \in 1 .. l + 1
    BY <1>1
  <2>5. l + 1 \in 1 .. l + 1 /\ \A g \in 1 .. l + 1 : g = l + 1 \/ g \in 1 .. l
    BY <1>1
  <2>7. \A g \in 1 .. l + 1 : IsRun(longer[g].days)
    <3>1. ASSUME NEW g \in 1 .. l + 1 PROVE IsRun(longer[g].days)
      <4>1. CASE g = l + 1
        BY <2>2, <2>3, <4>1
      <4>2. CASE g \in 1 .. l
        BY <1>2, <2>3, <4>2
      <4>. QED  BY <2>5, <4>1, <4>2
    <3>. QED  BY <3>1
  <2>8. \A d \in 0 .. n + 1 :
          \E g \in 1 .. l + 1 : FirstOf(longer[g]) <= d /\ d <= LastOf(longer[g])
    <3>1. ASSUME NEW d \in 0 .. n + 1
          PROVE \E g \in 1 .. l + 1 : FirstOf(longer[g]) <= d /\ d <= LastOf(longer[g])
      <4>1. CASE d = n + 1
        <5>1. FirstOf(longer[l + 1]) <= d /\ d <= LastOf(longer[l + 1])
          BY <2>2, <2>3, <4>1
        <5>. QED  BY <2>5, <5>1
      <4>2. CASE d \in 0 .. n
        <5>1. PICK g \in 1 .. l : FirstOf(groups[g]) <= d /\ d <= LastOf(groups[g])
          BY <1>1, <4>2 DEF TellDays
        <5>2. FirstOf(longer[g]) <= d /\ d <= LastOf(longer[g])
          BY <2>3, <5>1
        <5>. QED  BY <2>4, <5>2
      <4>. QED  BY <3>1, <4>1, <4>2
    <3>. QED  BY <3>1
  <2>9. \A f, g \in 1 .. l + 1 : f < g => LastOf(longer[f]) < FirstOf(longer[g])
    <3>1. ASSUME NEW f \in 1 .. l + 1, NEW g \in 1 .. l + 1, f < g
          PROVE  LastOf(longer[f]) < FirstOf(longer[g])
      <4>1. f \in 1 .. l
        BY <1>1, <3>1
      <4>2. CASE g = l + 1
        <5>1. LastOf(groups[f]) <= n /\ LastOf(groups[f]) \in Int
          BY <1>1, <1>5, <4>1 DEF TellDays
        <5>. QED  BY <2>2, <2>3, <4>1, <4>2, <5>1
      <4>3. CASE g \in 1 .. l
        BY <1>1, <2>3, <3>1, <4>1, <4>3 DEF TellDays
      <4>. QED  BY <1>1, <4>2, <4>3
    <3>. QED  BY <3>1
  <2>10. \A g \in 1 .. l + 1 : \A d \in Int :
           FirstOf(longer[g]) <= d /\ d <= LastOf(longer[g]) => h.days[d] = longer[g].day
    <3>1. ASSUME NEW g \in 1 .. l + 1, NEW d \in Int,
                 FirstOf(longer[g]) <= d, d <= LastOf(longer[g])
          PROVE  h.days[d] = longer[g].day
      <4>1. CASE g \in 1 .. l
        BY <1>1, <2>3, <3>1, <4>1 DEF TellDays
      <4>2. CASE g = l + 1
        BY <2>2, <2>3, <3>1, <4>2
      <4>. QED  BY <1>1, <4>1, <4>2
    <3>. QED  BY <3>1
  <2>11. \A g \in 1 .. l + 1 : LastOf(longer[g]) <= n + 1
    <3>1. ASSUME NEW g \in 1 .. l + 1 PROVE LastOf(longer[g]) <= n + 1
      <4>1. CASE g = l + 1
        BY <2>2, <2>3, <4>1
      <4>2. CASE g \in 1 .. l
        <5>1. LastOf(groups[g]) <= n
          BY <1>1, <4>2 DEF TellDays
        <5>. QED  BY <1>5, <2>3, <4>2, <5>1
      <4>. QED  BY <1>1, <4>1, <4>2
    <3>. QED  BY <3>1
  <2>12. \A g \in 1 .. l : longer[g].day # longer[g + 1].day
    <3>1. ASSUME NEW g \in 1 .. l PROVE longer[g].day # longer[g + 1].day
      <4>1. CASE g = l
        BY <1>1, <1>7, <2>2, <2>3, <4>1
      <4>2. CASE g \in 1 .. l - 1
        <5>1. groups[g].day # groups[g + 1].day /\ g + 1 \in 1 .. l
          BY <1>1, <4>2 DEF TellDays
        <5>. QED  BY <2>3, <5>1
      <4>. QED  BY <1>1, <4>1, <4>2
    <3>. QED  BY <3>1
  <2>13. LastOf(longer[l + 1]) = n + 1
    BY <2>2, <2>3
  <2>14. /\ longer \in Seq(Group) /\ Len(longer) >= 1 /\ LastOf(longer[Len(longer)]) = n + 1
    BY <1>1, <2>3, <2>13
  <2>15. \A g \in 1 .. Len(longer) - 1 : longer[g].day # longer[g + 1].day
    BY <1>1, <2>3, <2>12
  <2>16. TellDays(h, longer, n + 1)
    BY <2>3, <2>7, <2>8, <2>9, <2>10, <2>11, <2>14, <2>15 DEF TellDays, Group
  <2>. QED  BY <2>1, <2>16
<1>. QED  BY <1>6, <1>7

\* The first turn.
LEMMA ExtendBegins ==
  ASSUME NEW h, NEW day \in DayHours \cup {Closed}, h.days[0] = day
  PROVE  TellDays(h, Extend(<< >>, 0, day), 0)
<1>. DEFINE new == [days |-> <<0>>, day |-> day]
<1>1. Extend(<< >>, 0, day) = <<new>>
  BY DEF Extend
<1>2. /\ new \in [days : Seq(Int), day : DayHours \cup {Closed}] /\ IsRun(new.days)
      /\ new.day = day /\ FirstOf(new) = 0 /\ LastOf(new) = 0
  <2>1. <<0>> \in Seq(Int) /\ Len(<<0>>) = 1 /\ <<0>>[1] = 0
    OBVIOUS
  <2>. QED  BY <2>1 DEF IsRun, FirstOf, LastOf
<1>. HIDE DEF new
<1>3. /\ <<new>> \in Seq([days : Seq(Int), day : DayHours \cup {Closed}])
      /\ Len(<<new>>) = 1 /\ <<new>>[1] = new
  BY <1>2
<1>4. \A g \in 1 .. 1 : g = 1
  OBVIOUS
<1>5. \A d \in 0 .. 0 : d = 0
  OBVIOUS
<1>. DEFINE one == <<new>>
<1>. HIDE DEF one
<1>6. one \in Seq([days : Seq(Int), day : DayHours \cup {Closed}]) /\ Len(one) = 1 /\ one[1] = new
  BY <1>3 DEF one
<1>7. TellDays(h, one, 0)
  <2>1. \A g \in 1 .. 1 : one[g] = new
    BY <1>6
  <2>2. \A d \in Int : FirstOf(new) <= d /\ d <= LastOf(new) => h.days[d] = new.day
    BY <1>2
  <2>. QED  BY <1>2, <1>6, <2>1, <2>2 DEF TellDays
<1>. QED  BY <1>1, <1>7 DEF one

\* What the loop has told after day d: summarizeBusinessHours, unrolled.
LEMMA SummaryUnrolled ==
  ASSUME NEW h
  PROVE  \E G : /\ Summary(h) = G[6]
                /\ \A d \in DaysOfWeek :
                     G[d] = Extend(IF d = 0 THEN << >> ELSE G[d - 1], d, h.days[d])
<1>. DEFINE e0 == Extend(<< >>, 0, h.days[0])
            e1 == Extend(e0, 1, h.days[1])
            e2 == Extend(e1, 2, h.days[2])
            e3 == Extend(e2, 3, h.days[3])
            e4 == Extend(e3, 4, h.days[4])
            e5 == Extend(e4, 5, h.days[5])
            e6 == Extend(e5, 6, h.days[6])
            W == [d \in DaysOfWeek |-> CASE d = 0 -> e0 [] d = 1 -> e1 [] d = 2 -> e2
                    [] d = 3 -> e3 [] d = 4 -> e4 [] d = 5 -> e5 [] OTHER -> e6]
            IsLoop(G) == G = [d \in DaysOfWeek |->
                           Extend(IF d = 0 THEN << >> ELSE G[d - 1], d, h.days[d])]
            G0 == CHOOSE G : IsLoop(G)
<1>1. Summary(h) = G0[6]
  BY DEF Summary
<1>2. /\ W[0] = e0 /\ W[1] = e1 /\ W[2] = e2 /\ W[3] = e3 /\ W[4] = e4 /\ W[5] = e5
      /\ W[6] = e6
  BY DEF DaysOfWeek
<1>3. e1 = Extend(e0, 1, h.days[1]) /\ e2 = Extend(e1, 2, h.days[2])
      /\ e3 = Extend(e2, 3, h.days[3]) /\ e4 = Extend(e3, 4, h.days[4])
      /\ e5 = Extend(e4, 5, h.days[5]) /\ e6 = Extend(e5, 6, h.days[6])
      /\ e0 = Extend(<< >>, 0, h.days[0])
  OBVIOUS
<1>4. W = [d \in DaysOfWeek |-> W[d]]
  OBVIOUS
<1>. HIDE DEF W, e0, e1, e2, e3, e4, e5, e6
<1>5. \A d \in DaysOfWeek : W[d] = Extend(IF d = 0 THEN << >> ELSE W[d - 1], d, h.days[d])
  <2>1. ASSUME NEW d \in DaysOfWeek
        PROVE  W[d] = Extend(IF d = 0 THEN << >> ELSE W[d - 1], d, h.days[d])
    <3>1. d = 0 \/ d = 1 \/ d = 2 \/ d = 3 \/ d = 4 \/ d = 5 \/ d = 6
      BY DEF DaysOfWeek
    <3>2. CASE d = 0
      BY <1>2, <1>3, <3>2
    <3>3. CASE d = 1
      BY <1>2, <1>3, <3>3
    <3>4. CASE d = 2
      BY <1>2, <1>3, <3>4
    <3>5. CASE d = 3
      BY <1>2, <1>3, <3>5
    <3>6. CASE d = 4
      BY <1>2, <1>3, <3>6
    <3>7. CASE d = 5
      BY <1>2, <1>3, <3>7
    <3>8. CASE d = 6
      BY <1>2, <1>3, <3>8
    <3>. QED  BY <3>1, <3>2, <3>3, <3>4, <3>5, <3>6, <3>7, <3>8
  <2>. QED  BY <2>1
<1>6. IsLoop(W)
  BY <1>4, <1>5
<1>7. IsLoop(G0)
  <2>1. \E G : IsLoop(G)
    BY <1>6
  <2>. HIDE DEF IsLoop
  <2>. QED  BY <2>1
<1>8. \A d \in DaysOfWeek : G0[d] = Extend(IF d = 0 THEN << >> ELSE G0[d - 1], d, h.days[d])
  <2>. HIDE DEF G0
  <2>1. G0 = [d \in DaysOfWeek |-> Extend(IF d = 0 THEN << >> ELSE G0[d - 1], d, h.days[d])]
    BY <1>7
  <2>. QED  BY <2>1
<1>. QED  BY <1>1, <1>8

\* Over the whole week.
LEMMA SummaryTells ==
  ASSUME NEW h \in Schedules
  PROVE  TellDays(h, Summary(h), 6)
<1>1. PICK G : /\ Summary(h) = G[6]
               /\ \A d \in DaysOfWeek :
                    G[d] = Extend(IF d = 0 THEN << >> ELSE G[d - 1], d, h.days[d])
  BY SummaryUnrolled
<1>2. \A d \in DaysOfWeek : h.days[d] \in DayHours \cup {Closed}
  <2>1. h.days \in [DaysOfWeek -> DayHours \cup {Closed}]
    BY DEF Schedules, WeekDays
  <2>. QED  BY <2>1
<1>3. /\ 0 \in DaysOfWeek /\ 1 \in DaysOfWeek /\ 2 \in DaysOfWeek /\ 3 \in DaysOfWeek
      /\ 4 \in DaysOfWeek /\ 5 \in DaysOfWeek /\ 6 \in DaysOfWeek
  BY DEF DaysOfWeek
<1>4. TellDays(h, G[0], 0)
  <2>1. G[0] = Extend(<< >>, 0, h.days[0])
    BY <1>1, <1>3
  <2>. QED  BY <1>2, <1>3, <2>1, ExtendBegins
<1>5. \A n \in 0 .. 5 : TellDays(h, G[n], n) => TellDays(h, G[n + 1], n + 1)
  <2>1. ASSUME NEW n \in 0 .. 5, TellDays(h, G[n], n) PROVE TellDays(h, G[n + 1], n + 1)
    <3>1. n \in Nat /\ n + 1 \in DaysOfWeek /\ n + 1 # 0 /\ (n + 1) - 1 = n
      BY DEF DaysOfWeek
    <3>2. G[n + 1] = Extend(G[n], n + 1, h.days[n + 1])
      BY <1>1, <3>1
    <3>3. h.days[n + 1] \in DayHours \cup {Closed}
      BY <1>2, <3>1
    <3>4. TellDays(h, Extend(G[n], n + 1, h.days[n + 1]), n + 1)
      BY <2>1, <3>1, <3>3, ExtendTells
    <3>. QED  BY <3>2, <3>4
  <2>. QED  BY <2>1
<1>6. TellDays(h, G[1], 1)
  BY <1>4, <1>5
<1>7. TellDays(h, G[2], 2)
  BY <1>5, <1>6
<1>8. TellDays(h, G[3], 3)
  BY <1>5, <1>7
<1>9. TellDays(h, G[4], 4)
  BY <1>5, <1>8
<1>10. TellDays(h, G[5], 5)
  BY <1>5, <1>9
<1>. QED  BY <1>1, <1>5, <1>10

\* The line of hours tells the week that was saved, whatever that is.
LEMMA SummaryIsTheWeek ==
  ASSUME hours \in Schedules \cup {NoHours}
  PROVE  SummaryTellsTheWeek
<1>. SUFFICES ASSUME hours \in Schedules PROVE SummaryTellsTheWeek
  BY DEF SummaryTellsTheWeek
<1>. DEFINE groups == Summary(hours)
<1>1. TellDays(hours, groups, 6)
  BY SummaryTells
<1>2. PICK l \in Nat : l = Len(groups)
  BY <1>1 DEF TellDays
<1>3. DOMAIN groups = 1 .. l
  BY <1>1, <1>2 DEF TellDays
<1>. HIDE DEF groups
<1>4. \A g \in 1 .. l : LabelDays(GroupLabel(groups[g].days)) = FirstOf(groups[g]) .. LastOf(groups[g])
  <2>1. ASSUME NEW g \in 1 .. l
        PROVE LabelDays(GroupLabel(groups[g].days)) = FirstOf(groups[g]) .. LastOf(groups[g])
    <3>1. IsRun(groups[g].days)
      BY <1>1, <1>2 DEF TellDays
    <3>. QED  BY <3>1, LabelOfRun DEF FirstOf, LastOf
  <2>. QED  BY <2>1
<1>5. \A g \in 1 .. l : FirstOf(groups[g]) \in Int /\ LastOf(groups[g]) \in Int
                        /\ FirstOf(groups[g]) <= LastOf(groups[g])
  BY <1>1, <1>2, RunEnds DEF TellDays
<1>6. ASSUME NEW d \in DaysOfWeek
      PROVE  \E g \in DOMAIN groups :
               /\ d \in LabelDays(GroupLabel(groups[g].days))
               /\ groups[g].day = hours.days[d]
               /\ \A other \in DOMAIN groups \ {g} :
                    d \notin LabelDays(GroupLabel(groups[other].days))
  <2>0. d \in Int /\ d \in 0 .. 6
    BY DEF DaysOfWeek
  <2>1. PICK g \in 1 .. l : FirstOf(groups[g]) <= d /\ d <= LastOf(groups[g])
    BY <1>1, <1>2, <2>0 DEF TellDays
  <2>2. d \in LabelDays(GroupLabel(groups[g].days))
    BY <1>4, <1>5, <2>0, <2>1
  <2>3. groups[g].day = hours.days[d]
    BY <1>1, <1>2, <2>0, <2>1 DEF TellDays
  <2>4. ASSUME NEW other \in (1 .. l) \ {g}
        PROVE  d \notin LabelDays(GroupLabel(groups[other].days))
    <3>1. other < g \/ g < other
      BY <1>2
    <3>2. LastOf(groups[other]) < FirstOf(groups[g]) \/ LastOf(groups[g]) < FirstOf(groups[other])
      BY <1>1, <1>2, <3>1 DEF TellDays
    <3>3. ~ (FirstOf(groups[other]) <= d /\ d <= LastOf(groups[other]))
      BY <1>5, <2>0, <2>1, <3>2
    <3>4. LabelDays(GroupLabel(groups[other].days)) = FirstOf(groups[other]) .. LastOf(groups[other])
      BY <1>4
    <3>5. FirstOf(groups[other]) \in Int /\ LastOf(groups[other]) \in Int
      BY <1>5
    <3>. QED  BY <2>0, <3>3, <3>4, <3>5
  <2>. QED  BY <1>3, <2>2, <2>3, <2>4
<1>7. \A g \in 1 .. Len(groups) - 1 : groups[g].day # groups[g + 1].day
  BY <1>1 DEF TellDays
<1>. QED  BY <1>6, <1>7 DEF SummaryTellsTheWeek, groups

-----------------------------------------------------------------------------
(***************************************************************************)
(* The console's own reading of the same hours.                            *)
(***************************************************************************)
\* Yesterday, counted back or on from today.
LEMMA Yesterday ==
  ASSUME NEW d \in Int
  PROVE  DayKey(d + 6) = DayKey(d - 1)
BY SMT DEF DayKey

\* What the server reads in today's hours.
InHours(day, m) ==
  /\ day.open <= m /\ m < CloseOf(day)
  /\ day.break # NoBreak => ~ (BreakStartOf(day) <= m /\ m < BreakEndOf(day))

\* Hours with a break in order: the preview of a day is the server's window and, for
\* overnight hours, the small hours as well; the small hours of the window that
\* began the day before are never in its break.
LEMMA OneDay ==
  ASSUME NEW day \in DayHours \cup {Closed}, day # Closed, NEW m, IsMinute(m),
         BreakInside(day)
  PROVE  /\ PreviewWithinDay(day, m) <=> InHours(day, m) \/ NightOf(day, m)
         /\ InHours(day, m + 1440) <=> NightOf(day, m)
         /\ PreviewTail(day, m) <=> NightOf(day, m) /\ day.close < day.open
<1>. DEFINE o == day.open
            c == day.close
            s == day.break.start
            e == day.break.end
<1>1. day \in DayHours
  OBVIOUS
<1>2. IsMinute(o) /\ IsMinute(c) /\ (day.break # NoBreak => IsMinute(s) /\ IsMinute(e))
  BY <1>1, DayFields
<1>3. day.break # NoBreak => o <= s /\ s < e
  BY DEF BreakInside
<1>4. CloseOf(day) = IF c <= o THEN c + 1440 ELSE c
  BY DEF CloseOf, DAY_MINUTES
<1>5. day.break # NoBreak => BreakStartOf(day) = s
  BY <1>2, <1>3 DEF BreakStartOf, IsMinute
<1>6. day.break # NoBreak => BreakEndOf(day) = e
  BY <1>2, <1>3, <1>5 DEF BreakEndOf, IsMinute
<1>7. NightOf(day, m) <=> c <= o /\ m < c
  BY DEF NightOf, Overnight
<1>8. PreviewWithinDay(day, m)
        <=> /\ IF c > o THEN o <= m /\ m < c ELSE o <= m \/ m < c
            /\ day.break # NoBreak => ~ (s <= m /\ m < e)
  BY DEF PreviewWithinDay
<1>9. PreviewTail(day, m) <=> c < o /\ m < c
  BY DEF PreviewTail
<1>10. ASSUME NEW t \in Int
       PROVE  InHours(day, t) <=> /\ o <= t /\ t < CloseOf(day)
                                  /\ day.break # NoBreak => ~ (s <= t /\ t < e)
  <2>1. CASE day.break = NoBreak
    BY <2>1 DEF InHours
  <2>2. CASE day.break # NoBreak
    BY <1>5, <1>6, <2>2 DEF InHours
  <2>. QED  BY <2>1, <2>2
<1>11a. m \in Int /\ m + 1440 \in Int
  BY DEF IsMinute
<1>11b. InHours(day, m) <=> /\ o <= m /\ m < CloseOf(day)
                            /\ day.break # NoBreak => ~ (s <= m /\ m < e)
  BY ONLY <1>10, <1>11a
<1>11c. InHours(day, m + 1440) <=>
          /\ o <= m + 1440 /\ m + 1440 < CloseOf(day)
          /\ day.break # NoBreak => ~ (s <= m + 1440 /\ m + 1440 < e)
  BY ONLY <1>10, <1>11a
<1>. HIDE DEF o, c, s, e
<1>11. PreviewWithinDay(day, m) <=> InHours(day, m) \/ NightOf(day, m)
  <2>1. CASE c > o
    <3>1. ~ NightOf(day, m)
      BY <1>2, <1>7, <2>1 DEF IsMinute
    <3>2. CloseOf(day) = c
      BY <1>2, <1>4, <2>1 DEF IsMinute
    <3>. QED  BY <1>8, <1>11b, <2>1, <3>1, <3>2
  <2>2. CASE ~ (c > o)
    <3>1. CloseOf(day) = c + 1440 /\ c <= o /\ m < c + 1440
      BY <1>2, <1>4, <2>2 DEF IsMinute
    <3>2. CASE day.break = NoBreak
      BY <1>7, <1>8, <1>11b, <2>2, <3>1, <3>2
    <3>3. CASE day.break # NoBreak
      <4>1. m < c => ~ (s <= m /\ m < e)
        BY <1>2, <1>3, <3>1, <3>3 DEF IsMinute
      <4>. QED  BY <1>7, <1>8, <1>11b, <2>2, <3>1, <3>3, <4>1
    <3>. QED  BY <3>2, <3>3
  <2>. QED  BY <2>1, <2>2
<1>12. InHours(day, m + 1440) <=> NightOf(day, m)
  <2>1. CASE day.break = NoBreak
    BY <1>2, <1>4, <1>7, <1>11c, <2>1 DEF IsMinute
  <2>2. CASE day.break # NoBreak
    BY <1>2, <1>3, <1>4, <1>7, <1>11c, <2>2 DEF IsMinute
  <2>. QED  BY <2>1, <2>2
<1>13. PreviewTail(day, m) <=> NightOf(day, m) /\ c < o
  BY <1>2, <1>7, <1>9 DEF IsMinute
<1>. QED  BY <1>11, <1>12, <1>13 DEF o, c

\* A day that is closed has no night.
LEMMA ClosedDay ==
  ASSUME NEW m
  PROVE  ~ NightOf(Closed, m) /\ ~ PreviewTail(Closed, m)
BY DEF NightOf, Overnight, PreviewTail

(***************************************************************************)
(* Where the two readings of a week meet, the preview panel says what a    *)
(* call is told: overnight hours included.                                 *)
(***************************************************************************)
LEMMA PreviewAgrees ==
  ASSUME NEW h \in Schedules \cup {NoHours}, NEW utc \in Int, RulesMeet(h, utc)
  PROVE  IsWithinPreview(h, utc) <=> IsWithinBusinessHours(h, utc)
<1>1. CASE h = NoHours
  BY <1>1 DEF IsWithinPreview, IsWithinBusinessHours
<1>2. CASE h # NoHours
  <2>1. h \in Schedules
    BY <1>2
  <2>2. PICK t \in Int : t = ToKst(utc)
    BY DEF ToKst, KST_OFFSET
  <2>3. PICK d \in Int, m \in Int : /\ d = DateOf(t) /\ m = MinutesOf(t)
                                    /\ IsMinute(m) /\ t = 1440 * d + m
    BY Calendar DEF IsMinute
  <2>. DEFINE today == h.days[DayKey(d)]
              yesterday == h.days[DayKey(d - 1)]
  <2>4. today \in DayHours \cup {Closed} /\ yesterday \in DayHours \cup {Closed}
    <3>1. h.days \in [DaysOfWeek -> DayHours \cup {Closed}]
      BY <2>1 DEF Schedules, WeekDays
    <3>2. DayKey(d) \in DaysOfWeek /\ DayKey(d - 1) \in DaysOfWeek
      BY DayKeyType
    <3>. QED  BY <3>1, <3>2
  <2>5. /\ BreakInside(today) /\ BreakInside(yesterday)
        /\ NightOf(today, m) => NightOf(yesterday, m)
        /\ (NightOf(yesterday, m) =>
             /\ d - 1 \notin h.holidays /\ d \notin h.holidays
             /\ NightOf(today, m) \/ yesterday.close < yesterday.open)
    BY <1>2, <2>2, <2>3 DEF RulesMeet
  <2>6. IsWithinPreview(h, utc)
        <=> /\ d \notin h.holidays
            /\ (today # Closed /\ PreviewWithinDay(today, m)) \/ PreviewTail(yesterday, m)
    BY <1>2, <2>2, <2>3, Yesterday DEF IsWithinPreview
  <2>7. IsWithinBusinessHours(h, utc)
        <=> IsOpenInWindow(h, d, m) \/ IsOpenInWindow(h, d - 1, m + 1440)
    BY <1>2, <2>2, <2>3 DEF IsWithinBusinessHours, DAY_MINUTES
  <2>8. /\ IsOpenInWindow(h, d, m)
             <=> today # Closed /\ d \notin h.holidays /\ InHours(today, m)
        /\ IsOpenInWindow(h, d - 1, m + 1440)
             <=> yesterday # Closed /\ d - 1 \notin h.holidays /\ InHours(yesterday, m + 1440)
    BY DEF IsOpenInWindow, InHours
  <2>. HIDE DEF today, yesterday
  <2>9. /\ (today # Closed /\ PreviewWithinDay(today, m))
             <=> (today # Closed /\ InHours(today, m)) \/ NightOf(today, m)
        /\ today = Closed => ~ NightOf(today, m)
    <3>1. CASE today = Closed
      BY <3>1, ClosedDay
    <3>2. CASE today # Closed
      BY <2>3, <2>4, <2>5, <3>2, OneDay
    <3>. QED  BY <3>1, <3>2
  <2>10. /\ PreviewTail(yesterday, m)
              <=> NightOf(yesterday, m) /\ yesterday.close < yesterday.open
         /\ (yesterday # Closed /\ InHours(yesterday, m + 1440)) <=> NightOf(yesterday, m)
    <3>1. CASE yesterday = Closed
      BY <3>1, ClosedDay
    <3>2. CASE yesterday # Closed
      BY <2>3, <2>4, <2>5, <3>2, OneDay
    <3>. QED  BY <3>1, <3>2
  <2>11. IsWithinBusinessHours(h, utc)
         <=> \/ today # Closed /\ d \notin h.holidays /\ InHours(today, m)
             \/ d - 1 \notin h.holidays /\ NightOf(yesterday, m)
    BY <2>7, <2>8, <2>10
  <2>12. IsWithinPreview(h, utc)
         <=> /\ d \notin h.holidays
             /\ \/ today # Closed /\ InHours(today, m)
                \/ NightOf(today, m)
                \/ NightOf(yesterday, m) /\ yesterday.close < yesterday.open
    BY <2>6, <2>9, <2>10
  <2>. QED  BY <2>5, <2>11, <2>12
<1>. QED  BY <1>1, <1>2

-----------------------------------------------------------------------------
(***************************************************************************)
(* The hours stay a schedule and the clock stays on an instant.            *)
(***************************************************************************)
THEOREM TypeCorrect == Spec => []TypeOK
<1>1. Init => TypeOK
  <2>1. Len(Instants) \in Nat /\ Len(Instants) >= 1
    BY InstantsAssumption
  <2>2. [days : Weeks, holidays : Holidays] \subseteq Schedules
    BY WeeksAssumption, HolidaysAssumption DEF Schedules
  <2>3. 1 \in 1 .. Len(Instants)
    BY <2>1
  <2>. QED  BY <2>2, <2>3 DEF Init, TypeOK, Answers
<1>2. ASSUME TypeOK, [Next]_vars PROVE TypeOK'
  <2>1. CASE ResolveCall
    BY <1>2, <2>1 DEF TypeOK, ResolveCall, Answers
  <2>2. CASE OpenPreview
    BY <1>2, <2>2 DEF TypeOK, OpenPreview, Answers
  <2>3. CASE Tick
    BY <1>2, <2>3, InstantsAssumption DEF TypeOK, Tick, Answers
  <2>4. CASE UNCHANGED vars
    BY <1>2, <2>4 DEF TypeOK, vars
  <2>. QED  BY <1>2, <2>1, <2>2, <2>3, <2>4 DEF Next
<1>. QED  BY <1>1, <1>2, PTL DEF Spec

(***************************************************************************)
(* Every call of every owner is answered as open exactly when the place is *)
(* open: AnsweredAsOpen of BusinessHours for every week, every list of     *)
(* holidays and every instant (business-hours.ts:85-138).                  *)
(***************************************************************************)
THEOREM AlwaysAnsweredAsOpen == Spec => []AnsweredAsOpen
<1>1. Init => AnsweredAsOpen
  BY DEF Init, AnsweredAsOpen
<1>2. ASSUME TypeOK, AnsweredAsOpen, [Next]_vars PROVE AnsweredAsOpen'
  <2>0. Instants[i] \in Int
    BY <1>2, InstantsAssumption DEF TypeOK
  <2>1. CASE ResolveCall
    <3>1. Readable(hours, Instants[i]) =>
            (IsWithinBusinessHours(hours, Instants[i]) <=> IsOpen(hours, Instants[i]))
      BY <1>2, <2>0, WithinIsOpen DEF TypeOK
    <3>2. hours' = hours /\ i' = i
      BY <2>1 DEF ResolveCall
    <3>3. answered' = "open" <=> IsWithinBusinessHours(hours, Instants[i])
      BY <2>1 DEF ResolveCall
    <3>. QED  BY <3>1, <3>2, <3>3 DEF AnsweredAsOpen
  <2>2. CASE OpenPreview
    BY <1>2, <2>2 DEF AnsweredAsOpen, OpenPreview
  <2>3. CASE Tick
    BY <2>3 DEF AnsweredAsOpen, Tick
  <2>4. CASE UNCHANGED vars
    BY <1>2, <2>4 DEF AnsweredAsOpen, vars
  <2>. QED  BY <1>2, <2>1, <2>2, <2>3, <2>4 DEF Next
<1>. QED  BY <1>1, <1>2, TypeCorrect, PTL DEF Spec

(***************************************************************************)
(* The panel and the answer, each read at the instant of the clock.        *)
(***************************************************************************)
ReadNow ==
  /\ answered # "none" => (answered = "open" <=> IsWithinBusinessHours(hours, Instants[i]))
  /\ shown # "none" => (shown = "open" <=> IsWithinPreview(hours, Instants[i]))

(***************************************************************************)
(* What the owner is shown of the week and what callers are told of it is  *)
(* what calls are answered by: TheSameIsTold of BusinessHours, for every   *)
(* week, every list of holidays and every instant                          *)
(* (apps/console/src/lib/business-hours.ts:52-71, business-hours.ts:85-178). *)
(***************************************************************************)
THEOREM AlwaysTheSame == Spec => []TheSameIsTold
<1>1. Init => ReadNow
  BY DEF Init, ReadNow
<1>2. ASSUME ReadNow, [Next]_vars PROVE ReadNow'
  <2>1. CASE ResolveCall
    BY <1>2, <2>1 DEF ReadNow, ResolveCall
  <2>2. CASE OpenPreview
    BY <1>2, <2>2 DEF ReadNow, OpenPreview
  <2>3. CASE Tick
    BY <2>3 DEF ReadNow, Tick
  <2>4. CASE UNCHANGED vars
    BY <1>2, <2>4 DEF ReadNow, vars
  <2>. QED  BY <1>2, <2>1, <2>2, <2>3, <2>4 DEF Next
<1>3. ASSUME TypeOK, ReadNow PROVE PreviewIsTheCall
  <2>1. Instants[i] \in Int
    BY <1>3, InstantsAssumption DEF TypeOK
  <2>2. RulesMeet(hours, Instants[i]) =>
          (IsWithinPreview(hours, Instants[i]) <=> IsWithinBusinessHours(hours, Instants[i]))
    BY <1>3, <2>1, PreviewAgrees DEF TypeOK
  <2>3. answered \in Answers /\ shown \in Answers
    BY <1>3 DEF TypeOK
  <2>. QED  BY <1>3, <2>2, <2>3 DEF ReadNow, PreviewIsTheCall, Answers
<1>4. ASSUME TypeOK PROVE SummaryTellsTheWeek
  BY <1>4, SummaryIsTheWeek DEF TypeOK
<1>5. TypeOK /\ ReadNow => TheSameIsTold
  BY <1>3, <1>4 DEF TheSameIsTold
<1>. QED  BY <1>1, <1>2, <1>5, TypeCorrect, PTL DEF Spec

-----------------------------------------------------------------------------
\* What may be typed is a minute of the day.
LEMMA TypedIsMinute ==
  ASSUME NEW v \in TypedTimes
  PROVE  v \in MinuteOfDay /\ IsMinute(v)
<1>1. TypedTimes \subseteq 0 .. 1439
  BY PartsAssumption DEF E!EditorAssumption
<1>2. v \in Int /\ 0 <= v /\ v <= 1439
  BY <1>1
<1>. QED  BY <1>2 DEF MinuteOfDay, IsMinute, DAY_MINUTES

\* A cleared time is read as midnight.
LEMMA MinutesRead ==
  ASSUME NEW v \in E!Times
  PROVE  E!ToMinutes(v) \in MinuteOfDay
<1>1. 0 \in MinuteOfDay /\ 540 \in MinuteOfDay /\ 1080 \in MinuteOfDay
  BY DEF MinuteOfDay, DAY_MINUTES
<1>. QED  BY <1>1, TypedIsMinute DEF E!Times, E!ToMinutes

\* The ends of a break that is in the draft whole.
LEMMA EndsRead ==
  ASSUME NEW v \in E!Ends, v \notin {E!Absent, E!Emptied}
  PROVE  v \in MinuteOfDay
<1>1. 900 \in MinuteOfDay /\ 1020 \in MinuteOfDay
  BY DEF MinuteOfDay, DAY_MINUTES
<1>. QED  BY <1>1, TypedIsMinute DEF E!Ends

-----------------------------------------------------------------------------
(***************************************************************************)
(* The page the hours are edited on.  Half a break is never in the draft,  *)
(* and the draft, the Save under way and the stored hours are tied         *)
(* together until something is typed.                                      *)
(***************************************************************************)
Paired(day) == day.start = E!Absent <=> day.end = E!Absent
HoursPaired(h) == h # None => \A d \in E!Days : h.days[d] # None => Paired(h.days[d])
Draft(h) == h \in E!Hours \cup {None} /\ HoursPaired(h)

EditorInv ==
  /\ Draft(stored) /\ Draft(readHours) /\ Draft(week) /\ Draft(putHours.body)
  /\ putHours \in [sent : BOOLEAN, body : E!Hours \cup {None}, typed : BOOLEAN]
  /\ opened \in [EditedDays -> BOOLEAN]
  /\ chip \in Dates \cup {E!Nonsense, None}
  /\ saved \in BOOLEAN /\ typedOver \in BOOLEAN /\ changes \in 0 .. MaxEdits
  /\ putHours.sent /\ ~ putHours.typed => week = putHours.body
  /\ saved /\ putHours.sent => ~ putHours.typed
  /\ saved /\ ~ typedOver => week = stored

LEMMA DraftOfNone == Draft(None)
BY DEF Draft, HoursPaired

\* Setting a day of a draft to a day with a whole break or none.
LEMMA DraftOfDay ==
  ASSUME NEW h \in E!Hours, HoursPaired(h), h # None, NEW d \in E!Days,
         NEW day \in E!Day \cup {None}, day # None => Paired(day)
  PROVE  [h EXCEPT !.days[d] = day] # None => Draft([h EXCEPT !.days[d] = day])
<1>1. h \in [days : [E!Days -> E!Day \cup {None}], holidays : SUBSET Dates]
  BY DEF E!Hours
<1>. DEFINE days == [h.days EXCEPT ![d] = day]
            new == [h EXCEPT !.days = days]
<1>2. days \in [E!Days -> E!Day \cup {None}]
  BY <1>1
<1>3. \A x \in E!Days : days[x] = (IF x = d THEN day ELSE h.days[x])
  BY <1>1
<1>4. \A x \in E!Days : days[x] # None => Paired(days[x])
  BY <1>3 DEF HoursPaired
<1>. HIDE DEF days
<1>5. new \in [days : [E!Days -> E!Day \cup {None}], holidays : SUBSET Dates] /\ new.days = days
  BY <1>1, <1>2
<1>. HIDE DEF new
<1>6. Draft(new)
  BY <1>4, <1>5 DEF Draft, HoursPaired, E!Hours
<1>. QED  BY <1>6 DEF new, days

\* A change of the draft is not the stored hours until it is saved.
LEMMA PatchKeeps ==
  ASSUME EditorInv, NEW h, Draft(h), E!Patch(h),
         opened' \in [EditedDays -> BOOLEAN], chip' \in Dates \cup {E!Nonsense, None}
  PROVE  EditorInv'
<1>1. /\ stored' = stored /\ readHours' = readHours /\ week' = h /\ saved' = FALSE
      /\ typedOver' = typedOver /\ changes' \in 0 .. MaxEdits
  <2>1. MaxEdits \in Nat
    BY PartsAssumption DEF E!EditorAssumption
  <2>. QED  BY <2>1 DEF E!Patch, EditorInv
<1>2. /\ putHours' \in [sent : BOOLEAN, body : E!Hours \cup {None}, typed : BOOLEAN]
      /\ putHours'.body = putHours.body /\ putHours'.sent = putHours.sent
      /\ putHours'.typed = putHours.sent
  <2>1. putHours \in [sent : BOOLEAN, body : E!Hours \cup {None}, typed : BOOLEAN]
    BY DEF EditorInv
  <2>2. putHours' = [putHours EXCEPT !.typed = putHours.sent]
    BY DEF E!Patch
  <2>. QED  BY <2>1, <2>2
<1>3. /\ Draft(stored') /\ Draft(readHours') /\ Draft(week') /\ Draft(putHours'.body)
  BY <1>1, <1>2 DEF EditorInv
<1>. QED  BY <1>1, <1>2, <1>3 DEF EditorInv, Draft, HoursPaired, Paired

\* What a change of a day puts into the draft.
LEMMA DayIsRow ==
  ASSUME EditorInv, NEW d \in E!Days, E!Open(d)
  PROVE  /\ week \in E!Hours /\ HoursPaired(week)
         /\ E!Row(d) \in E!Day /\ Paired(E!Row(d))
         /\ E!ShownStart(d) \in E!Ends \ {E!Absent} /\ E!ShownEnd(d) \in E!Ends \ {E!Absent}
<1>1. week \in E!Hours /\ HoursPaired(week) /\ week # None
  BY DEF EditorInv, Draft, E!Open
<1>2. E!Row(d) \in E!Day /\ Paired(E!Row(d))
  <2>1. week.days \in [E!Days -> E!Day \cup {None}]
    BY <1>1 DEF E!Hours
  <2>2. E!Row(d) = week.days[d] /\ E!Row(d) # None
    BY DEF E!Row, E!Open
  <2>. QED  BY <1>1, <2>1, <2>2 DEF HoursPaired
<1>3. E!Row(d).start \in E!Ends /\ E!Row(d).end \in E!Ends
  BY <1>2 DEF E!Day
<1>4. E!ShownStart(d) \in E!Ends \ {E!Absent}
  BY <1>3 DEF E!ShownStart, E!Ends, E!Absent
<1>5. E!ShownEnd(d) \in E!Ends \ {E!Absent}
  BY <1>3 DEF E!ShownEnd, E!Ends, E!Absent
<1>. QED  BY <1>1, <1>2, <1>4, <1>5

LEMMA DefaultDay == E!DEFAULT_DAY \in E!Day /\ Paired(E!DEFAULT_DAY)
BY DEF E!DEFAULT_DAY, E!Day, E!Times, E!Ends, E!Absent, Paired

LEMMA StandardWeek == Draft(E!Standard)
<1>. DEFINE days == [d \in E!Days |-> IF d < 5 THEN E!DEFAULT_DAY ELSE None]
<1>1. days \in [E!Days -> E!Day \cup {None}] /\ \A d \in E!Days : days[d] # None => Paired(days[d])
  BY DefaultDay
<1>2. E!Standard = [days |-> days, holidays |-> {}]
  BY DEF E!Standard
<1>. HIDE DEF days
<1>3. E!Standard \in E!Hours /\ E!Standard.days = days
  BY <1>1, <1>2 DEF E!Hours
<1>. QED  BY <1>1, <1>3 DEF Draft, HoursPaired

LEMMA SetDayKeeps ==
  ASSUME EditorInv, NEW d \in E!Days, week # None, NEW day \in E!Day \cup {None},
         day # None => Paired(day), E!SetDay(d, day),
         opened' \in [EditedDays -> BOOLEAN], chip' \in Dates \cup {E!Nonsense, None}
  PROVE  EditorInv'
<1>. DEFINE new == [week EXCEPT !.days[d] = day]
<1>1. E!Patch(new)
  BY DEF E!SetDay
<1>2. week \in E!Hours /\ HoursPaired(week)
  BY DEF EditorInv, Draft
<1>3. Draft(new)
  <2>1. CASE new = None
    BY <2>1, DraftOfNone
  <2>2. CASE new # None
    BY <1>2, <2>2, DraftOfDay
  <2>. QED  BY <2>1, <2>2
<1>. HIDE DEF new
<1>. QED  BY <1>1, <1>3, PatchKeeps

LEMMA EditorSame ==
  ASSUME EditorInv,
         UNCHANGED <<stored, readHours, week, putHours, saved, typedOver, changes>>,
         opened' \in [EditedDays -> BOOLEAN], chip' \in Dates \cup {E!Nonsense, None}
  PROVE  EditorInv'
BY DEF EditorInv, Draft, HoursPaired, Paired

LEMMA EditorKeeps ==
  ASSUME EditorInv, E!Next
  PROVE  EditorInv'
<1>0. /\ opened \in [EditedDays -> BOOLEAN] /\ chip \in Dates \cup {E!Nonsense, None}
      /\ EditedDays \subseteq E!Days
      /\ Draft(week) /\ Draft(stored) /\ Draft(readHours) /\ Draft(putHours.body)
  BY PartsAssumption DEF EditorInv, E!EditorAssumption, E!Days
<1>1. CASE E!ToggleAll
  <2>1. Draft(IF week = None THEN E!Standard ELSE None)
    BY StandardWeek, DraftOfNone
  <2>2. E!Patch(IF week = None THEN E!Standard ELSE None) /\ opened' = opened /\ chip' = chip
    BY <1>1 DEF E!ToggleAll
  <2>. QED  BY <1>0, <2>1, <2>2, PatchKeeps
<1>2. CASE E!ApplyWeekdays
  <2>. DEFINE mon == IF E!Row(0) = None THEN E!DEFAULT_DAY ELSE E!Row(0)
              days == [d \in E!Days |-> IF d < 5 THEN mon ELSE E!Row(d)]
              new == [week EXCEPT !.days = days]
  <2>1. E!Patch(new) /\ opened' = opened /\ chip' = chip /\ week # None
    BY <1>2 DEF E!ApplyWeekdays
  <2>2. week \in [days : [E!Days -> E!Day \cup {None}], holidays : SUBSET Dates] /\ HoursPaired(week)
    BY <1>0, <2>1 DEF Draft, E!Hours
  <2>3. \A d \in E!Days : E!Row(d) \in E!Day \cup {None} /\ (E!Row(d) # None => Paired(E!Row(d)))
    BY <2>1, <2>2 DEF E!Row, HoursPaired
  <2>4. mon \in E!Day /\ Paired(mon)
    <3>1. 0 \in E!Days
      BY DEF E!Days
    <3>. QED  BY <2>3, <3>1, DefaultDay
  <2>. HIDE DEF mon
  <2>5. days \in [E!Days -> E!Day \cup {None}] /\ \A d \in E!Days : days[d] # None => Paired(days[d])
    BY <2>3, <2>4
  <2>. HIDE DEF days
  <2>6. new \in E!Hours /\ new.days = days
    BY <2>2, <2>5 DEF E!Hours
  <2>. HIDE DEF new
  <2>7. Draft(new)
    BY <2>5, <2>6 DEF Draft, HoursPaired
  <2>. QED  BY <1>0, <2>1, <2>7, PatchKeeps
<1>3. CASE E!TypeChip
  <2>1. chip' \in Dates \cup {E!Nonsense, None} /\ opened' = opened
    BY <1>3 DEF E!TypeChip
  <2>2. UNCHANGED <<stored, readHours, week, putHours, saved, typedOver, changes>>
    BY <1>3 DEF E!TypeChip
  <2>. QED  BY <1>0, <2>1, <2>2, EditorSame
<1>4. ASSUME NEW days, days \in SUBSET Dates, week # None,
             E!Patch([week EXCEPT !.holidays = days])
      PROVE  Draft([week EXCEPT !.holidays = days])
  <2>1. week \in [days : [E!Days -> E!Day \cup {None}], holidays : SUBSET Dates] /\ HoursPaired(week)
    BY <1>0, <1>4 DEF Draft, E!Hours
  <2>. DEFINE new == [week EXCEPT !.holidays = days]
  <2>2. new \in E!Hours /\ new.days = week.days
    BY <1>4, <2>1 DEF E!Hours
  <2>. HIDE DEF new
  <2>3. Draft(new)
    BY <1>4, <2>1, <2>2 DEF Draft, HoursPaired
  <2>. QED  BY <2>3 DEF new
<1>5. CASE E!AddChip
  <2>1. week # None /\ chip' = None /\ opened' = opened
    BY <1>5 DEF E!AddChip
  <2>2. CASE chip \in week.holidays
    <3>1. UNCHANGED <<stored, readHours, week, putHours, saved, typedOver, changes>>
      BY <1>5, <2>2 DEF E!AddChip
    <3>. QED  BY <1>0, <2>1, <3>1, EditorSame
  <2>3. CASE chip \notin week.holidays
    <3>1. week.holidays \in SUBSET Dates
      BY <1>0, <2>1 DEF Draft, E!Hours
    <3>. DEFINE days == week.holidays \cup ({chip} \cap Dates)
    <3>2. E!Patch([week EXCEPT !.holidays = days])
      BY <1>5, <2>3 DEF E!AddChip
    <3>3. days \in SUBSET Dates
      BY <3>1
    <3>. HIDE DEF days
    <3>. QED  BY <1>0, <1>4, <2>1, <3>2, <3>3, PatchKeeps
  <2>. QED  BY <2>2, <2>3
<1>6. CASE E!RemoveChip
  <2>1. week # None /\ chip' = chip /\ opened' = opened
    BY <1>6 DEF E!RemoveChip
  <2>2. week.holidays \in SUBSET Dates
    BY <1>0, <2>1 DEF Draft, E!Hours
  <2>3. PICK v \in week.holidays : E!Patch([week EXCEPT !.holidays = @ \ {v}])
    BY <1>6 DEF E!RemoveChip
  <2>. DEFINE days == week.holidays \ {v}
  <2>4. days \in SUBSET Dates /\ E!Patch([week EXCEPT !.holidays = days])
    BY <2>2, <2>3
  <2>. HIDE DEF days
  <2>. QED  BY <1>0, <1>4, <2>1, <2>4, PatchKeeps
<1>7. ASSUME NEW d \in EditedDays, E!ToggleDay(d) PROVE EditorInv'
  <2>. DEFINE day == IF E!Row(d) = None THEN E!DEFAULT_DAY ELSE None
  <2>1. d \in E!Days /\ week # None /\ E!SetDay(d, day) /\ opened' = opened /\ chip' = chip
    BY <1>0, <1>7 DEF E!ToggleDay
  <2>2. day \in E!Day \cup {None} /\ (day # None => Paired(day))
    BY DefaultDay
  <2>. HIDE DEF day
  <2>. QED  BY <1>0, <2>1, <2>2, SetDayKeeps
<1>8. ASSUME NEW d \in EditedDays, E!TypeTime(d) PROVE EditorInv'
  <2>1. PICK v \in TypedTimes \cup {E!Emptied} :
          E!SetDay(d, [E!Row(d) EXCEPT !.open = v]) \/ E!SetDay(d, [E!Row(d) EXCEPT !.close = v])
    BY <1>8 DEF E!TypeTime
  <2>2. d \in E!Days /\ E!Open(d) /\ week # None /\ opened' = opened /\ chip' = chip
    BY <1>0, <1>8 DEF E!TypeTime, E!Open
  <2>3. E!Row(d) \in [open : E!Times, close : E!Times, start : E!Ends, end : E!Ends]
        /\ Paired(E!Row(d)) /\ v \in E!Times
    BY <2>1, <2>2, DayIsRow DEF E!Day, E!Times
  <2>4. /\ [E!Row(d) EXCEPT !.open = v] \in E!Day /\ Paired([E!Row(d) EXCEPT !.open = v])
        /\ [E!Row(d) EXCEPT !.close = v] \in E!Day /\ Paired([E!Row(d) EXCEPT !.close = v])
    BY <2>3 DEF E!Day, Paired
  <2>. QED  BY <1>0, <2>1, <2>2, <2>4, SetDayKeeps
<1>9. ASSUME NEW d \in EditedDays, E!BreakButton(d) PROVE EditorInv'
  <2>2. d \in E!Days /\ E!Open(d) /\ week # None /\ chip' = chip
    BY <1>0, <1>9 DEF E!BreakButton, E!Open
  <2>3. E!Row(d) \in [open : E!Times, close : E!Times, start : E!Ends, end : E!Ends]
    BY <2>2, DayIsRow DEF E!Day
  <2>4. CASE E!ShowsBreak(d)
    <3>. DEFINE day == [E!Row(d) EXCEPT !.start = E!Absent, !.end = E!Absent]
    <3>1. day \in E!Day /\ Paired(day)
      <4>1. E!Absent \in E!Ends
        BY DEF E!Ends
      <4>. QED  BY <2>3, <4>1 DEF E!Day, Paired
    <3>2. E!SetDay(d, day) /\ opened' \in [EditedDays -> BOOLEAN]
      BY <1>0, <1>9, <2>4 DEF E!BreakButton
    <3>. HIDE DEF day
    <3>. QED  BY <1>0, <2>2, <3>1, <3>2, SetDayKeeps
  <2>5. CASE ~ E!ShowsBreak(d)
    <3>1. UNCHANGED <<stored, readHours, week, putHours, saved, typedOver, changes>>
          /\ opened' \in [EditedDays -> BOOLEAN]
      BY <1>0, <1>9, <2>5 DEF E!BreakButton
    <3>. QED  BY <1>0, <2>2, <3>1, EditorSame
  <2>. QED  BY <2>4, <2>5
<1>10. ASSUME NEW d \in EditedDays, E!TypeBreak(d) PROVE EditorInv'
  <2>1. PICK v \in TypedTimes \cup {E!Emptied} :
          \/ E!SetDay(d, [E!Row(d) EXCEPT !.start = v, !.end = E!ShownEnd(d)])
          \/ E!SetDay(d, [E!Row(d) EXCEPT !.start = E!ShownStart(d), !.end = v])
    BY <1>10 DEF E!TypeBreak
  <2>2. d \in E!Days /\ E!Open(d) /\ week # None /\ opened' = opened /\ chip' = chip
    BY <1>0, <1>10 DEF E!TypeBreak, E!Open
  <2>3. E!Row(d) \in [open : E!Times, close : E!Times, start : E!Ends, end : E!Ends]
    BY <2>2, DayIsRow DEF E!Day
  <2>4. v \in E!Ends \ {E!Absent}
    <3>1. E!Absent \notin TypedTimes
      BY TypedIsMinute DEF E!Absent, IsMinute
    <3>. QED  BY <2>1, <3>1 DEF E!Ends, E!Emptied, E!Absent
  <2>5. \A a, b \in E!Ends \ {E!Absent} :
          LET day == [E!Row(d) EXCEPT !.start = a, !.end = b] IN day \in E!Day /\ Paired(day)
    BY <2>3 DEF E!Day, Paired
  <2>6. E!ShownStart(d) \in E!Ends \ {E!Absent} /\ E!ShownEnd(d) \in E!Ends \ {E!Absent}
    BY <2>2, DayIsRow
  <2>7. /\ [E!Row(d) EXCEPT !.start = v, !.end = E!ShownEnd(d)] \in E!Day
        /\ Paired([E!Row(d) EXCEPT !.start = v, !.end = E!ShownEnd(d)])
    BY <2>4, <2>5, <2>6
  <2>8. /\ [E!Row(d) EXCEPT !.start = E!ShownStart(d), !.end = v] \in E!Day
        /\ Paired([E!Row(d) EXCEPT !.start = E!ShownStart(d), !.end = v])
    BY <2>4, <2>5, <2>6
  <2>. QED  BY <1>0, <2>1, <2>2, <2>7, <2>8, SetDayKeeps
<1>11. CASE E!Save
  <2>1. /\ putHours' = [sent |-> TRUE, body |-> week, typed |-> FALSE]
        /\ UNCHANGED <<stored, readHours, week, opened, chip, saved, typedOver, changes>>
    BY <1>11 DEF E!Save
  <2>2. putHours'.body = week /\ putHours'.sent = TRUE /\ putHours'.typed = FALSE
        /\ putHours' \in [sent : BOOLEAN, body : E!Hours \cup {None}, typed : BOOLEAN]
    BY <1>0, <2>1 DEF Draft
  <2>. QED  BY <2>1, <2>2 DEF EditorInv, Draft, HoursPaired, Paired
<1>12. CASE E!SaveEnds
  <2>1. /\ putHours.sent /\ putHours' = E!NoPut /\ stored' = putHours.body /\ readHours' = stored'
        /\ saved' = TRUE /\ week' = (IF readHours' # readHours THEN readHours' ELSE week)
        /\ typedOver' = putHours.typed /\ UNCHANGED <<opened, chip, changes>>
    BY <1>12 DEF E!SaveEnds
  <2>2. /\ putHours' \in [sent : BOOLEAN, body : E!Hours \cup {None}, typed : BOOLEAN]
        /\ putHours'.sent = FALSE /\ putHours'.body = None
    BY <2>1 DEF E!NoPut
  <2>3. Draft(stored') /\ Draft(readHours') /\ Draft(week') /\ Draft(putHours'.body)
    <3>1. stored' = putHours.body /\ readHours' = putHours.body
          /\ (week' = putHours.body \/ week' = week)
      BY <2>1
    <3>. QED  BY <1>0, <2>2, <3>1, DraftOfNone
  <2>4. ~ typedOver' => week' = stored'
    BY <2>1 DEF EditorInv
  <2>5. typedOver' \in BOOLEAN
    BY <2>1 DEF EditorInv
  <2>. QED  BY <2>1, <2>2, <2>3, <2>4, <2>5 DEF EditorInv, Draft, HoursPaired, Paired
<1>13. CASE E!SaveFails
  <2>1. /\ putHours.sent /\ putHours' = E!NoPut /\ stored' \in {stored, putHours.body}
        /\ UNCHANGED <<readHours, week, opened, chip, saved, typedOver, changes>>
    BY <1>13 DEF E!SaveFails
  <2>2. /\ putHours' \in [sent : BOOLEAN, body : E!Hours \cup {None}, typed : BOOLEAN]
        /\ putHours'.sent = FALSE /\ putHours'.body = None
    BY <2>1 DEF E!NoPut
  <2>3. Draft(stored') /\ Draft(putHours'.body)
    BY <1>0, <2>1, <2>2, DraftOfNone
  <2>4. saved /\ ~ typedOver => week = stored'
    BY <2>1 DEF EditorInv
  <2>. QED  BY <2>1, <2>2, <2>3, <2>4 DEF EditorInv, Draft, HoursPaired, Paired
<1>. QED
  BY <1>1, <1>2, <1>3, <1>5, <1>6, <1>7, <1>8, <1>9, <1>10, <1>11, <1>12, <1>13 DEF E!Next

-----------------------------------------------------------------------------
\* The hours as both readings take them are hours.
LEMMA AsReadType ==
  ASSUME NEW h \in E!Hours \cup {None}
  PROVE  E!AsRead(h) \in Schedules \cup {NoHours}
<1>1. CASE h = None
  BY <1>1 DEF E!AsRead, E!BH!NoHours, NoHours
<1>2. CASE h # None
  <2>1. h \in [days : [E!Days -> E!Day \cup {None}], holidays : SUBSET Dates]
    BY <1>2 DEF E!Hours
  <2>. DEFINE read(x) ==
         IF x = None THEN Closed
         ELSE [open |-> E!ToMinutes(x.open), close |-> E!ToMinutes(x.close),
               break |-> IF E!Whole(x) THEN [start |-> x.start, end |-> x.end] ELSE NoBreak]
  <2>2. E!AsRead(h) = [holidays |-> h.holidays, days |-> [d \in E!Days |-> read(h.days[d])]]
    BY <1>2 DEF E!AsRead, E!BH!Closed, Closed, E!BH!NoBreak, NoBreak
  <2>3. ASSUME NEW x \in E!Day PROVE read(x) \in DayHours \cup {Closed}
    <3>1. /\ x.open \in E!Times /\ x.close \in E!Times /\ x.start \in E!Ends /\ x.end \in E!Ends
      BY DEF E!Day
    <3>2. E!ToMinutes(x.open) \in MinuteOfDay /\ E!ToMinutes(x.close) \in MinuteOfDay
      BY <3>1, MinutesRead
    <3>3. E!Whole(x) => x.start \in MinuteOfDay /\ x.end \in MinuteOfDay
      BY <3>1, EndsRead DEF E!Whole
    <3>. DEFINE break == IF E!Whole(x) THEN [start |-> x.start, end |-> x.end] ELSE NoBreak
    <3>4. break \in Breaks \cup {NoBreak}
      BY <3>3 DEF Breaks
    <3>. HIDE DEF break
    <3>5. [open |-> E!ToMinutes(x.open), close |-> E!ToMinutes(x.close), break |-> break] \in DayHours
      BY <3>2, <3>4 DEF DayHours
    <3>. QED  BY <3>5 DEF break
  <2>4. \A d \in E!Days : read(h.days[d]) \in DayHours \cup {Closed}
    <3>1. ASSUME NEW d \in E!Days PROVE read(h.days[d]) \in DayHours \cup {Closed}
      <4>1. h.days[d] \in E!Day \cup {None}
        BY <2>1
      <4>2. CASE h.days[d] = None
        BY <4>2
      <4>3. CASE h.days[d] # None
        BY <2>3, <4>1, <4>3
      <4>. QED  BY <4>2, <4>3
    <3>. QED  BY <3>1
  <2>5. h.holidays \in SUBSET Int
    <3>1. Dates \subseteq Int
      BY PartsAssumption DEF E!EditorAssumption
    <3>. QED  BY <2>1, <3>1
  <2>. HIDE DEF read
  <2>6. [d \in E!Days |-> read(h.days[d])] \in WeekDays
    BY <2>4 DEF WeekDays, DaysOfWeek, E!Days
  <2>. QED  BY <2>2, <2>5, <2>6 DEF Schedules
<1>. QED  BY <1>1, <1>2

\* The editor reads the hours by the same rules.
LEMMA SameRules ==
  ASSUME NEW h, NEW t
  PROVE  /\ E!BH!RulesMeet(h, t) <=> RulesMeet(h, t)
         /\ E!BH!IsWithinPreview(h, t) <=> IsWithinPreview(h, t)
         /\ E!BH!IsWithinBusinessHours(h, t) <=> IsWithinBusinessHours(h, t)
<1>1. E!BH!RulesMeet(h, t) <=> RulesMeet(h, t)
  BY DEF E!BH!RulesMeet, RulesMeet, E!BH!NightOf, NightOf, E!BH!MinutesOf, MinutesOf, E!BH!DateOf, DateOf, E!BH!ToKst, ToKst, E!BH!DayKey, DayKey,
         E!BH!Overnight, Overnight, E!BH!BreakInside, BreakInside, E!BH!NoHours, NoHours,
         E!BH!Closed, Closed, E!BH!NoBreak, NoBreak, E!BH!DAY_MINUTES, DAY_MINUTES,
         E!BH!KST_OFFSET, KST_OFFSET
<1>2. E!BH!IsWithinPreview(h, t) <=> IsWithinPreview(h, t)
  BY DEF E!BH!IsWithinPreview, IsWithinPreview, E!BH!DateOf, DateOf, E!BH!ToKst, ToKst,
         E!BH!DayKey, DayKey, E!BH!MinutesOf, MinutesOf, E!BH!NoHours, NoHours,
         E!BH!Closed, Closed, E!BH!NoBreak, NoBreak, E!BH!DAY_MINUTES, DAY_MINUTES,
         E!BH!KST_OFFSET, KST_OFFSET, E!BH!PreviewWithinDay, PreviewWithinDay,
         E!BH!PreviewTail, PreviewTail
<1>3. E!BH!IsWithinBusinessHours(h, t) <=> IsWithinBusinessHours(h, t)
  BY DEF E!BH!IsWithinBusinessHours, IsWithinBusinessHours, E!BH!IsOpenInWindow,
         IsOpenInWindow, E!BH!DateOf, DateOf, E!BH!ToKst, ToKst, E!BH!DayKey, DayKey,
         E!BH!MinutesOf, MinutesOf, E!BH!NoHours, NoHours, E!BH!Closed, Closed,
         E!BH!NoBreak, NoBreak, E!BH!DAY_MINUTES, DAY_MINUTES, E!BH!KST_OFFSET, KST_OFFSET,
         E!BH!CloseOf, CloseOf, E!BH!BreakStartOf, BreakStartOf, E!BH!BreakEndOf, BreakEndOf
<1>. QED  BY <1>1, <1>2, <1>3

(***************************************************************************)
(* The page shows what is saved from it, whatever is typed, saved and lost *)
(* and in whatever order: ScreenTellsTheHours of HoursEditor               *)
(* (BusinessHoursPage, useAgentConfigDraft).                               *)
(***************************************************************************)
THEOREM ThePageTellsTheHours == E!Spec => []ScreenTellsTheHours
<1>1. E!Init => EditorInv
  <2>1. SUFFICES ASSUME E!Init PROVE EditorInv
    OBVIOUS
  <2>2. /\ stored \in {None, E!Standard} /\ readHours = stored /\ week = stored
        /\ opened = [d \in EditedDays |-> FALSE] /\ chip = None
        /\ putHours = E!NoPut /\ saved = FALSE /\ typedOver = FALSE /\ changes = 0
    BY <2>1 DEF E!Init
  <2>3. Draft(stored) /\ Draft(readHours) /\ Draft(week) /\ Draft(None)
    BY <2>2, StandardWeek, DraftOfNone
  <2>4. /\ putHours \in [sent : BOOLEAN, body : E!Hours \cup {None}, typed : BOOLEAN]
        /\ putHours.sent = FALSE /\ putHours.body = None
    BY <2>2 DEF E!NoPut
  <2>5. changes \in 0 .. MaxEdits
    <3>1. MaxEdits \in Nat
      BY PartsAssumption DEF E!EditorAssumption
    <3>. QED  BY <2>2, <3>1
  <2>. QED  BY <2>2, <2>3, <2>4, <2>5 DEF EditorInv
<1>2. EditorInv /\ [E!Next]_E!vars => EditorInv'
  <2>1. ASSUME EditorInv, UNCHANGED E!vars PROVE EditorInv'
    BY <2>1, EditorSame DEF E!vars, EditorInv
  <2>. QED  BY <2>1, EditorKeeps
<1>3. ASSUME EditorInv PROVE E!TypeOK
  BY <1>3 DEF EditorInv, E!TypeOK, Draft
<1>4. ASSUME EditorInv PROVE E!PanelTellsTheCall
  <2>1. SUFFICES ASSUME saved, ~ typedOver, NEW t \in Glances, E!BH!RulesMeet(E!AsRead(stored), t)
                 PROVE  E!BH!IsWithinPreview(E!AsRead(week), t)
                          <=> E!BH!IsWithinBusinessHours(E!AsRead(stored), t)
    BY DEF E!PanelTellsTheCall
  <2>2. PICK h : h = E!AsRead(stored) /\ h = E!AsRead(week)
    BY <1>4, <2>1 DEF EditorInv
  <2>3. h \in Schedules \cup {NoHours}
    BY <1>4, <2>2, AsReadType DEF EditorInv, Draft
  <2>4. t \in Int
    BY PartsAssumption DEF E!EditorAssumption
  <2>5. RulesMeet(h, t)
    BY <2>1, <2>2, SameRules
  <2>6. IsWithinPreview(h, t) <=> IsWithinBusinessHours(h, t)
    BY <2>3, <2>4, <2>5, PreviewAgrees
  <2>. QED  BY <2>2, <2>6, SameRules
<1>5. ASSUME EditorInv PROVE E!BreakOnScreen
  <2>1. SUFFICES ASSUME NEW d \in EditedDays, E!Open(d),
                        E!Emptied \notin {E!Row(d).start, E!Row(d).end}
                 PROVE  \/ E!Row(d).start = E!Absent /\ E!Row(d).end = E!Absent
                        \/ /\ E!ShowsBreak(d) /\ E!Row(d).start = E!ShownStart(d)
                           /\ E!Row(d).end = E!ShownEnd(d)
    BY DEF E!BreakOnScreen
  <2>2. d \in E!Days
    BY PartsAssumption DEF E!EditorAssumption, E!Days
  <2>3. Paired(E!Row(d))
    BY <1>5, <2>1, <2>2, DayIsRow
  <2>. QED  BY <2>1, <2>3 DEF Paired, E!ShowsBreak, E!Whole, E!ShownStart, E!ShownEnd
<1>6. EditorInv => ScreenTellsTheHours
  BY <1>3, <1>4, <1>5 DEF ScreenTellsTheHours, E!ScreenTellsTheHours
<1>. QED  BY <1>1, <1>2, <1>6, PTL DEF E!Spec

-----------------------------------------------------------------------------
(***************************************************************************)
(* How a browser tab finds its page.  What is typed, and what is known of  *)
(* the sessions: the demo has no platform's account.                       *)
(***************************************************************************)
Sessions == A!Accounts \cup {None}
KnownSessions ==
  /\ fixture \in Tenants \cup {None}
  /\ kept \in Sessions /\ seen \in Sessions
  /\ fixture # None => kept # A!Platform /\ seen # A!Platform
QueryTyped ==
  /\ info \in [Tenants -> [data : A!Statuses \cup {None}, failed : BOOLEAN]]
  /\ reading \subseteq Tenants

\* The paths that redirect among each other; only the callback is not among them.
Placed == at \in A!Urls \cup A!Returns \cup {A!Url("kakao")}

LEMMA NamesApart ==
  /\ None \notin Tenants /\ None \notin A!Statuses /\ A!Platform \notin Tenants /\ A!Platform # None
  /\ A!Unapproved \subseteq A!Statuses /\ "active" \notin A!Unapproved /\ None \notin A!Ids
BY PartsAssumption DEF A!AccessAssumption, A!Statuses, A!Platform, A!Unapproved, A!Ids

LEMMA PageOf ==
  /\ \A p : A!Url(p).page = p
  /\ \A t : A!Console(t).page = "console" /\ A!Console(t) # A!Url("elsewhere") /\ A!Console(t) # A!Url("login")
            /\ A!Console(t) # A!Url("pending") /\ A!Console(t) # A!Url("admin")
  /\ \A n : A!Callback(n).page = "callback" /\ A!Callback(n).of = n
  /\ \A p, q : p # q => A!Url(p) # A!Url(q)
<1>1. \A p : A!Url(p).page = p
  BY DEF A!Url
<1>2. \A t : A!Console(t).page = "console"
  BY DEF A!Console
<1>3. \A n : A!Callback(n).page = "callback" /\ A!Callback(n).of = n
  BY DEF A!Callback
<1>. QED  BY <1>1, <1>2, <1>3

LEMMA CurrentType ==
  ASSUME KnownSessions
  PROVE  /\ A!Current \in Tenants \cup {None}
         /\ kept \in Tenants => A!Current = kept
         /\ kept \notin Tenants => A!Current = fixture
         /\ kept = A!Platform => A!Current = None
BY NamesApart DEF KnownSessions, A!Current, A!CurrentOf

\* The redirects by name.
LEMMA Targets ==
  ASSUME NEW s
  PROVE  /\ A!Target(A!Url("landing"), s) = A!OfLanding(s)
         /\ A!Target(A!Url("login"), s) = A!OfLogin(s)
         /\ A!Target(A!Url("pending"), s) = A!OfPending(s)
         /\ A!Target(A!Url("admin"), s) = A!OfAdmin(s)
         /\ A!Target(A!Url("elsewhere"), s) = A!OfConsole(A!Url("elsewhere"), s)
         /\ A!Target(A!Url("signup"), s) = A!Url("signup")
         /\ A!Target(A!Url("kakao"), s) = A!Url("kakao")
         /\ \A t : A!Target(A!Console(t), s) = A!OfConsole(A!Console(t), s)
         /\ \A n : A!Target(A!Callback(n), s) = IF s = None THEN A!Callback(n) ELSE A!Url("landing")
<1>1. /\ A!Target(A!Url("landing"), s) = A!OfLanding(s)
      /\ A!Target(A!Url("login"), s) = A!OfLogin(s)
      /\ A!Target(A!Url("pending"), s) = A!OfPending(s)
  BY PageOf DEF A!Target
<1>2. /\ A!Target(A!Url("admin"), s) = A!OfAdmin(s)
      /\ A!Target(A!Url("elsewhere"), s) = A!OfConsole(A!Url("elsewhere"), s)
  BY PageOf DEF A!Target
<1>3. A!Target(A!Url("signup"), s) = A!Url("signup") /\ A!Target(A!Url("kakao"), s) = A!Url("kakao")
  BY PageOf DEF A!Target
<1>4. \A t : A!Target(A!Console(t), s) = A!OfConsole(A!Console(t), s)
  <2>1. ASSUME NEW t PROVE A!Target(A!Console(t), s) = A!OfConsole(A!Console(t), s)
    <3>1. A!Console(t).page = "console"
      BY PageOf
    <3>. QED  BY <3>1 DEF A!Target
  <2>. QED  BY <2>1
<1>5. \A n : A!Target(A!Callback(n), s) = IF s = None THEN A!Callback(n) ELSE A!Url("landing")
  <2>1. ASSUME NEW n
        PROVE  A!Target(A!Callback(n), s) = IF s = None THEN A!Callback(n) ELSE A!Url("landing")
    <3>1. A!Callback(n).page = "callback"
      BY PageOf
    <3>. QED  BY <3>1 DEF A!Target
  <2>. QED  BY <2>1
<1>. QED  BY <1>1, <1>2, <1>3, <1>4, <1>5

\* Every path is one of these.
LEMMA EveryPath ==
  ASSUME NEW u \in A!Urls
  PROVE  \/ u = A!Url("landing") \/ u = A!Url("login") \/ u = A!Url("signup") \/ u = A!Url("pending")
         \/ u = A!Url("admin") \/ u = A!Url("elsewhere") \/ \E t \in Tenants : u = A!Console(t)
BY DEF A!Urls, A!Public

LEMMA PathsAre ==
  /\ A!Url("landing") \in A!Urls /\ A!Url("login") \in A!Urls /\ A!Url("signup") \in A!Urls
  /\ A!Url("pending") \in A!Urls /\ A!Url("admin") \in A!Urls /\ A!Url("elsewhere") \in A!Urls
  /\ \A t \in Tenants : A!Console(t) \in A!Urls
  /\ \A u \in A!Urls : u \notin A!Returns /\ u # A!Url("kakao")
  /\ \A u \in A!Returns : u # A!Url("kakao")
<1>1. /\ A!Url("landing") \in A!Urls /\ A!Url("login") \in A!Urls /\ A!Url("signup") \in A!Urls
      /\ A!Url("pending") \in A!Urls /\ A!Url("admin") \in A!Urls /\ A!Url("elsewhere") \in A!Urls
      /\ \A t \in Tenants : A!Console(t) \in A!Urls
  BY DEF A!Urls, A!Public
<1>2. \A u \in A!Urls : u.page # "callback" /\ u.page # "kakao"
  <2>1. ASSUME NEW u \in A!Urls PROVE u.page # "callback" /\ u.page # "kakao"
    BY EveryPath, PageOf
  <2>. QED  BY <2>1
<1>3. \A u \in A!Returns : u.page = "callback"
  BY PageOf DEF A!Returns
<1>. QED  BY <1>1, <1>2, <1>3, PageOf

\* A redirect leads to a path of the console's own.
LEMMA TargetType ==
  ASSUME KnownSessions, NEW u \in A!Urls \cup A!Returns \cup {A!Url("kakao")}, NEW s \in Sessions
  PROVE  A!Target(u, s) = u \/ (A!Target(u, s) \in A!Urls /\ A!Guard(A!Target(u, s)) # A!Guard(u))
           \/ (u = A!Url("elsewhere") /\ \E t \in Tenants :
                 A!Target(u, s) = A!Console(t) /\ A!OfConsole(A!Console(t), s) = A!Console(t))
<1>1. CASE u = A!Url("landing")
  BY <1>1, Targets, PageOf, PathsAre, CurrentType DEF A!OfLanding, A!Guard
<1>2. CASE u = A!Url("login")
  BY <1>2, Targets, PageOf, PathsAre DEF A!OfLogin, A!Guard, Sessions, A!Accounts
<1>3. CASE u = A!Url("pending")
  BY <1>3, Targets, PageOf, PathsAre, CurrentType DEF A!OfPending, A!Guard
<1>4. CASE u = A!Url("admin")
  BY <1>4, Targets, PageOf, PathsAre DEF A!OfAdmin, A!Guard, Sessions, A!Accounts
<1>5. CASE u = A!Url("elsewhere")
  <2>1. A!Target(u, s) = A!OfConsole(u, s)
    BY <1>5, Targets
  <2>2. \/ A!OfConsole(u, s) \in {u, A!Url("login"), A!Url("pending")}
        \/ /\ A!OfConsole(u, s) = A!OfUnknown(s)
           /\ \A t : t \in Tenants => A!OfConsole(A!Console(t), s) = A!Console(t)
    BY <1>5, PageOf DEF A!OfConsole
  <2>3. A!OfUnknown(s) = A!Url("landing") \/ \E t \in Tenants : A!OfUnknown(s) = A!Console(t)
    BY DEF A!OfUnknown, A!CurrentOf, KnownSessions
  <2>. QED  BY <1>5, <2>1, <2>2, <2>3, PageOf, PathsAre DEF A!Guard
<1>6. CASE \E t \in Tenants : u = A!Console(t)
  BY <1>6, Targets, PageOf, PathsAre, CurrentType DEF A!OfConsole, A!Guard
<1>7. CASE u \in A!Returns
  <2>1. PICK n : u = A!Callback(n)
    BY <1>7 DEF A!Returns
  <2>2. A!Target(u, s) = u \/ A!Target(u, s) = A!Url("landing")
    BY <2>1, Targets
  <2>3. A!Guard(A!Url("landing")) # A!Guard(u)
    BY <2>1, PageOf DEF A!Guard
  <2>. QED  BY <2>2, <2>3, PathsAre
<1>8. CASE u = A!Url("signup") \/ u = A!Url("kakao")
  BY <1>8, Targets
<1>. QED  BY <1>1, <1>2, <1>3, <1>4, <1>5, <1>6, <1>7, <1>8, EveryPath

-----------------------------------------------------------------------------
\* A visitor who arrives holds what is kept, and so does every hop.
Next1(u) == A!Target(u, kept)

LEMMA HopKept ==
  ASSUME NEW u
  PROVE  A!Hop([url |-> u, session |-> kept]) = [url |-> Next1(u), session |-> kept]
BY DEF A!Hop, A!HeldAt, Next1

LEMMA EndKept ==
  ASSUME NEW u
  PROVE  A!Arrival(u) = [url |-> Next1(Next1(Next1(u))), session |-> kept]
BY HopKept DEF A!Arrival, A!End

\* Two hops lead from any path to one that stays.
LEMMA TwoHops ==
  ASSUME KnownSessions, QueryTyped, NEW u \in A!Urls
  PROVE  Next1(Next1(Next1(u))) = Next1(Next1(u))
<1>0. kept \in Tenants \cup {A!Platform, None} /\ fixture \in Tenants \cup {None}
  BY DEF KnownSessions, Sessions, A!Accounts
<1>1. CASE A!Current = None
  <2>1. kept \notin Tenants /\ fixture = None
    BY <1>1, CurrentType, NamesApart
  <2>2. /\ \A t : Next1(A!Console(t)) = A!Url("login")
        /\ Next1(A!Url("elsewhere")) = A!Url("login") /\ Next1(A!Url("pending")) = A!Url("login")
        /\ Next1(A!Url("landing")) = A!Url("landing") /\ Next1(A!Url("signup")) = A!Url("signup")
    BY <1>1, Targets DEF Next1, A!OfConsole, A!OfPending, A!OfLanding
  <2>3. CASE kept = None
    <3>1. Next1(A!Url("login")) = A!Url("login") /\ Next1(A!Url("admin")) = A!Url("login")
      BY <2>1, <2>3, Targets, NamesApart DEF Next1, A!OfLogin, A!OfAdmin
    <3>. QED  BY <2>2, <3>1, EveryPath
  <2>4. CASE kept = A!Platform
    <3>1. Next1(A!Url("login")) = A!Url("admin") /\ Next1(A!Url("admin")) = A!Url("admin")
      BY <2>1, <2>4, Targets, NamesApart DEF Next1, A!OfLogin, A!OfAdmin
    <3>. QED  BY <2>2, <3>1, EveryPath
  <2>. QED  BY <1>0, <2>1, <2>3, <2>4
<1>2. CASE A!Current # None /\ info[A!Current].data \in A!Unapproved
  <2>1. A!Current \in Tenants /\ kept # A!Platform /\ ~ A!Loading(A!Current) /\ info[A!Current].data # "active"
    BY <1>2, CurrentType, NamesApart DEF A!Loading
  <2>2. ~ (fixture = None /\ kept = None)
    BY <1>2, CurrentType, NamesApart
  <2>3. /\ \A t : Next1(A!Console(t)) = A!Url("pending")
        /\ Next1(A!Url("elsewhere")) = A!Url("pending") /\ Next1(A!Url("pending")) = A!Url("pending")
        /\ Next1(A!Url("signup")) = A!Url("signup")
    BY <1>2, <2>1, <2>2, Targets DEF Next1, A!OfConsole, A!OfPending
  <2>4. Next1(A!Url("landing")) = A!Url("landing") \/ \E t : Next1(A!Url("landing")) = A!Console(t)
    BY Targets DEF Next1, A!OfLanding
  <2>5. Next1(A!Url("login")) = A!Url("login") \/ \E t : Next1(A!Url("login")) = A!Console(t)
    BY <2>1, Targets DEF Next1, A!OfLogin
  <2>6. \/ Next1(A!Url("admin")) = A!Url("admin") \/ \E t : Next1(A!Url("admin")) = A!Console(t)
    BY <2>1, <2>2, Targets, NamesApart DEF Next1, A!OfAdmin
  <2>. QED  BY <2>3, <2>4, <2>5, <2>6, EveryPath
<1>3. CASE A!Current # None /\ info[A!Current].data \notin A!Unapproved
  <2>1. A!Current \in Tenants /\ kept # A!Platform
    BY <1>3, CurrentType, NamesApart
  <2>2. ~ (fixture = None /\ kept = None)
    BY <1>3, CurrentType, NamesApart
  <2>3. \A t : Next1(A!Console(t)) = A!Console(t)
    BY <1>3, <2>1, <2>2, Targets, PageOf DEF Next1, A!OfConsole
  <2>4. Next1(A!Url("elsewhere")) = A!Url("elsewhere") \/ \E t : Next1(A!Url("elsewhere")) = A!Console(t)
    BY <1>3, <2>1, <2>2, Targets, PageOf DEF Next1, A!OfConsole, A!OfUnknown, A!Current
  <2>5. Next1(A!Url("pending")) = A!Url("pending") \/ \E t : Next1(A!Url("pending")) = A!Console(t)
    BY <1>3, <2>1, <2>2, Targets, PageOf DEF Next1, A!OfPending
  <2>6. Next1(A!Url("landing")) = A!Url("landing") \/ \E t : Next1(A!Url("landing")) = A!Console(t)
    BY Targets DEF Next1, A!OfLanding
  <2>7. Next1(A!Url("login")) = A!Url("login") \/ \E t : Next1(A!Url("login")) = A!Console(t)
    BY <2>1, Targets DEF Next1, A!OfLogin
  <2>8. Next1(A!Url("admin")) = A!Url("admin") \/ \E t : Next1(A!Url("admin")) = A!Console(t)
    BY <2>1, <2>2, Targets, NamesApart DEF Next1, A!OfAdmin
  <2>9. Next1(A!Url("signup")) = A!Url("signup")
    BY Targets DEF Next1
  <2>. QED  BY <2>3, <2>4, <2>5, <2>6, <2>7, <2>8, <2>9, EveryPath
<1>. QED  BY <1>1, <1>2, <1>3

\* From the callback it is one hop more.
LEMMA ThreeHops ==
  ASSUME KnownSessions, QueryTyped, NEW u \in A!Urls \cup A!Returns
  PROVE  Next1(Next1(Next1(Next1(u)))) = Next1(Next1(Next1(u)))
<1>1. CASE u \in A!Urls
  BY <1>1, TwoHops
<1>2. CASE u \in A!Returns
  <2>1. PICK n : u = A!Callback(n)
    BY <1>2 DEF A!Returns
  <2>2. Next1(u) = u \/ Next1(u) = A!Url("landing")
    BY <2>1, Targets DEF Next1
  <2>3. CASE Next1(u) = u
    BY <2>3
  <2>4. CASE Next1(u) = A!Url("landing")
    BY <2>4, TwoHops, PathsAre
  <2>. QED  BY <2>2, <2>3, <2>4
<1>. QED  BY <1>1, <1>2

LEMMA Settles ==
  ASSUME KnownSessions, QueryTyped, Placed
  PROVE  A!NavigationSettles
<1>1. ASSUME NEW u \in A!Urls \cup A!Returns
      PROVE  LET place == [url |-> u, session |-> kept] IN A!Hop(A!End(place)) = A!End(place)
  <2>1. A!Hop(A!Arrival(u)) = A!Arrival(u)
    BY <1>1, EndKept, HopKept, ThreeHops
  <2>. QED  BY <2>1 DEF A!Arrival
<1>2. LET place == [url |-> at, session |-> seen] IN A!Hop(A!End(place)) = A!End(place)
  <2>. DEFINE place == [url |-> at, session |-> seen]
              v == A!Target(at, seen)
  <2>0. seen \in Sessions /\ at \in A!Urls \cup A!Returns \cup {A!Url("kakao")}
    BY DEF KnownSessions, Placed
  <2>1. A!Hop(place) = [url |-> v, session |-> A!HeldAt(at, v, seen)]
    BY DEF A!Hop
  <2>2. CASE v = at
    <3>1. A!Hop(place) = place
      BY <2>1, <2>2 DEF A!HeldAt
    <3>. QED  BY <3>1 DEF A!End
  <2>3. CASE v \in A!Urls /\ A!Guard(v) # A!Guard(at)
    <3>1. A!Hop(place) = [url |-> v, session |-> kept]
      BY <2>1, <2>3 DEF A!HeldAt
    <3>2. Next1(Next1(Next1(v))) = Next1(Next1(v))
      BY <2>3, TwoHops
    <3>. HIDE DEF place, v
    <3>3. A!End(place) = [url |-> Next1(Next1(v)), session |-> kept]
      BY <3>1, HopKept DEF A!End
    <3>4. A!Hop(A!End(place)) = A!End(place)
      BY <3>2, <3>3, HopKept
    <3>. QED  BY <3>4 DEF place
  <2>4. CASE at = A!Url("elsewhere") /\ \E t \in Tenants :
               v = A!Console(t) /\ A!OfConsole(A!Console(t), seen) = A!Console(t)
    <3>0. PICK t \in Tenants : v = A!Console(t) /\ A!OfConsole(A!Console(t), seen) = A!Console(t)
      BY <2>4
    <3>. DEFINE there == [url |-> A!Console(t), session |-> seen]
    <3>1. A!Guard(A!Url("elsewhere")) = A!Guard(A!Console(t))
      BY PageOf DEF A!Guard
    <3>2. A!Hop(place) = there
      BY <2>1, <2>4, <3>0, <3>1 DEF A!HeldAt
    <3>3. A!Target(A!Console(t), seen) = A!Console(t)
      BY <3>0, Targets
    <3>4. A!Hop(there) = there
      BY <3>3 DEF A!Hop, A!HeldAt
    <3>. HIDE DEF place, there
    <3>5. A!End(place) = there
      BY <3>2, <3>4 DEF A!End
    <3>. QED  BY <3>4, <3>5 DEF place
  <2>. QED  BY <2>0, <2>2, <2>3, <2>4, TargetType
<1>. QED  BY <1>1, <1>2 DEF A!NavigationSettles

LEMMA LeadsHome ==
  ASSUME KnownSessions, QueryTyped
  PROVE  A!RedirectsLeadHome
<1>1. ASSUME kept # None PROVE A!AtHome(A!Arrival(A!Url("login")).url)
  <2>1. kept \in Tenants \/ kept = A!Platform
    BY <1>1 DEF KnownSessions, Sessions, A!Accounts
  <2>2. CASE kept = A!Platform
    <3>1. fixture = None
      BY <2>2 DEF KnownSessions
    <3>2. Next1(A!Url("login")) = A!Url("admin") /\ Next1(A!Url("admin")) = A!Url("admin")
      BY <2>2, <3>1, Targets, NamesApart DEF Next1, A!OfLogin, A!OfAdmin
    <3>3. A!Arrival(A!Url("login")).url = A!Url("admin")
      BY <3>2, EndKept
    <3>4. A!Home = A!Url("admin")
      BY <2>2, NamesApart DEF A!Home
    <3>. QED  BY <3>3, <3>4, PageOf DEF A!AtHome
  <2>3. CASE kept \in Tenants
    <3>1. A!Current = kept /\ kept # A!Platform /\ A!Home = A!Console(kept) /\ A!Home.page = "console"
      BY <2>3, CurrentType, NamesApart, PageOf DEF A!Home
    <3>2. Next1(A!Url("login")) = A!Console(kept)
      BY <1>1, <3>1, Targets DEF Next1, A!OfLogin
    <3>3. CASE info[kept].data \in A!Unapproved
      <4>1. ~ A!Loading(kept) /\ info[kept].data # "active"
        BY <3>3, NamesApart DEF A!Loading
      <4>2. Next1(A!Console(kept)) = A!Url("pending") /\ Next1(A!Url("pending")) = A!Url("pending")
        BY <1>1, <2>3, <3>1, <3>3, <4>1, Targets, NamesApart DEF Next1, A!OfConsole, A!OfPending
      <4>3. A!Arrival(A!Url("login")).url = A!Url("pending")
        BY <3>2, <4>2, EndKept
      <4>. QED  BY <3>1, <3>3, <4>1, <4>3 DEF A!AtHome
    <3>4. CASE info[kept].data \notin A!Unapproved
      <4>1. Next1(A!Console(kept)) = A!Console(kept)
        BY <1>1, <2>3, <3>1, <3>4, Targets, NamesApart, PageOf DEF Next1, A!OfConsole
      <4>2. A!Arrival(A!Url("login")).url = A!Console(kept)
        BY <3>2, <4>1, EndKept
      <4>. QED  BY <3>1, <3>4, <4>2 DEF A!AtHome
    <3>. QED  BY <3>3, <3>4
  <2>. QED  BY <2>1, <2>2, <2>3
<1>2. ASSUME NEW u \in A!Urls \ A!Public
      PROVE  LET v == A!Arrival(u).url IN
               /\ v.page = "console" => A!Current # None /\ info[A!Current].data \notin A!Unapproved
               /\ v.page = "pending" => A!Current # None
               /\ kept = A!Platform /\ fixture = None => v = A!Url("admin")
  <2>. DEFINE v == Next1(Next1(Next1(u)))
  <2>1. A!Arrival(u).url = v
    BY EndKept
  <2>2. Next1(v) = v
    BY ThreeHops
  <2>3. u \in {A!Url("pending"), A!Url("admin"), A!Url("elsewhere")} \/ \E t \in Tenants : u = A!Console(t)
    BY DEF A!Urls
  <2>4. CASE kept = A!Platform /\ fixture = None
    <3>1. A!Current = None
      BY <2>4, CurrentType, NamesApart
    <3>2. /\ Next1(A!Url("login")) = A!Url("admin") /\ Next1(A!Url("admin")) = A!Url("admin")
          /\ Next1(A!Url("pending")) = A!Url("login") /\ Next1(A!Url("elsewhere")) = A!Url("login")
          /\ \A t : Next1(A!Console(t)) = A!Url("login")
      BY <2>4, <3>1, Targets, NamesApart DEF Next1, A!OfLogin, A!OfAdmin, A!OfPending, A!OfConsole
    <3>3. v = A!Url("admin")
      BY <2>3, <3>2
    <3>. QED  BY <2>1, <3>3, PageOf
  <2>5. CASE ~ (kept = A!Platform /\ fixture = None)
    <3>1. v = u \/ v \in A!Urls
      <4>1. \A x \in A!Urls : Next1(x) \in A!Urls
        <5>1. kept \in Sessions
          BY DEF KnownSessions
        <5>2. \A t : t \in Tenants => A!Console(t) \in A!Urls
          BY PathsAre
        <5>. QED  BY <5>1, <5>2, TargetType, CurrentType DEF Next1
      <4>. QED  BY <4>1
    <3>2. v \in A!Urls
      BY <3>1
    <3>. HIDE DEF v
    <3>3. ASSUME v.page = "console" PROVE A!Current # None /\ info[A!Current].data \notin A!Unapproved
      <4>1. PICK t \in Tenants : v = A!Console(t)
        BY <3>2, <3>3, EveryPath, PageOf
      <4>2. A!OfConsole(A!Console(t), kept) = A!Console(t)
        BY <2>2, <4>1, Targets DEF Next1
      <4>3. A!Console(t) # A!Url("login") /\ A!Console(t) # A!Url("pending")
        BY PageOf
      <4>. QED  BY <4>2, <4>3, NamesApart DEF A!OfConsole, A!Loading
    <3>4. ASSUME v.page = "pending" PROVE A!Current # None
      <4>1. v = A!Url("pending")
        BY <3>2, <3>4, EveryPath, PageOf
      <4>2. A!OfPending(kept) = A!Url("pending") /\ A!Url("pending") # A!Url("login")
        BY <2>2, <4>1, Targets, PageOf DEF Next1
      <4>. QED  BY <4>2 DEF A!OfPending
    <3>. QED  BY <2>1, <2>5, <3>3, <3>4
  <2>. QED  BY <2>4, <2>5
<1>. QED  BY <1>1, <1>2 DEF A!RedirectsLeadHome

-----------------------------------------------------------------------------
(***************************************************************************)
(* A code is sent once: the saved state is of a login that was begun and   *)
(* whose code was not sent, and of no login still to begin was one sent.   *)
(***************************************************************************)
CodesInv ==
  /\ begun \in 0 .. MaxBegins /\ kakaoState \in A!Ids \cup {None}
  /\ exchanges \subseteq A!Ids /\ exchanged \in [A!Ids -> 0 .. 1]
  /\ \A n \in A!Ids : n > begun => exchanged[n] = 0
  /\ kakaoState \in A!Ids => kakaoState <= begun /\ exchanged[kakaoState] = 0

FormTyped == entering \subseteq {"here", "left"} /\ loginError \in BOOLEAN

AccessInv ==
  /\ KnownSessions /\ status \in [Tenants -> A!Statuses]
  /\ QueryTyped /\ FormTyped /\ Placed
  /\ CodesInv /\ started \in BOOLEAN /\ failure \in BOOLEAN
  /\ A!CallbackSpeaks

LEMMA QuerySame ==
  ASSUME QueryTyped, UNCHANGED A!query
  PROVE  QueryTyped'
BY DEF QueryTyped, A!query

LEMMA CodesSame ==
  ASSUME CodesInv, UNCHANGED <<begun, kakaoState, exchanges, exchanged>>
  PROVE  CodesInv'
BY DEF CodesInv

LEMMA BeganTyped ==
  ASSUME QueryTyped, NEW q
  PROVE  A!Began(q) \in [Tenants -> [data : A!Statuses \cup {None}, failed : BOOLEAN]]
<1>1. A!Fresh \in [data : A!Statuses \cup {None}, failed : BOOLEAN]
  BY DEF A!Fresh
<1>. QED  BY <1>1 DEF QueryTyped, A!Began

LEMMA MountKeeps ==
  ASSUME QueryTyped, fixture \in Tenants \cup {None}, NEW u, NEW k, A!Mount(u, k)
  PROVE  QueryTyped'
<1>1. CASE UNCHANGED A!query
  BY <1>1, QuerySame
<1>2. CASE A!CurrentOf(k) # None /\ reading' = reading \cup {A!CurrentOf(k)} /\ info' = A!Began({A!CurrentOf(k)})
  <2>1. A!CurrentOf(k) \in Tenants
    BY <1>2 DEF A!CurrentOf
  <2>2. info' \in [Tenants -> [data : A!Statuses \cup {None}, failed : BOOLEAN]]
    BY <1>2, BeganTyped
  <2>3. reading' \subseteq Tenants
    BY <1>2, <2>1 DEF QueryTyped
  <2>. QED  BY <2>2, <2>3 DEF QueryTyped
<1>. QED  BY <1>1, <1>2 DEF A!Mount

\* Where the tab goes to within the console.
LEMMA GoKeeps ==
  ASSUME QueryTyped, FormTyped, fixture \in Tenants \cup {None}, NEW v \in A!Urls, A!Go(v)
  PROVE  QueryTyped' /\ FormTyped' /\ Placed' /\ A!CallbackSpeaks'
<1>1. at' = v /\ A!Mount(v, kept') /\ entering' = A!Unmounted(v) /\ loginError' = (loginError /\ v = A!Url("login"))
  BY DEF A!Go
<1>2. QueryTyped'
  BY <1>1, MountKeeps
<1>3. FormTyped'
  BY <1>1 DEF FormTyped, A!Unmounted
<1>4. at' \in A!Urls /\ at' \notin A!Returns
  BY <1>1, PathsAre
<1>. QED  BY <1>2, <1>3, <1>4 DEF Placed, A!CallbackSpeaks

\* A document is loaded: the tab's memory is fresh.
LEMMA LoadKeeps ==
  ASSUME AccessInv, NEW u \in A!Urls \cup A!Returns, A!Load(u), kakaoState' = kakaoState
  PROVE  AccessInv'
<1>1. /\ at' = u /\ seen' = kept /\ kept' = kept /\ info' = [x \in Tenants |-> A!Fresh]
      /\ reading' = (IF A!Observes(u) /\ A!Current # None THEN {A!Current} ELSE {})
      /\ entering' = {} /\ loginError' = FALSE /\ started' = FALSE /\ failure' = FALSE
      /\ exchanges' = {} /\ fixture' = fixture /\ status' = status /\ begun' = begun
      /\ exchanged' = exchanged
  BY DEF A!Load, A!server
<1>2. KnownSessions'
  BY <1>1 DEF AccessInv, KnownSessions, Sessions, A!Accounts
<1>3. QueryTyped'
  <2>1. A!Fresh \in [data : A!Statuses \cup {None}, failed : BOOLEAN]
    BY DEF A!Fresh
  <2>2. A!Current \in Tenants \cup {None}
    BY CurrentType DEF AccessInv
  <2>. QED  BY <1>1, <2>1, <2>2 DEF QueryTyped
<1>4. CodesInv'
  BY <1>1 DEF AccessInv, CodesInv
<1>. QED  BY <1>1, <1>2, <1>3, <1>4 DEF AccessInv, FormTyped, Placed, A!CallbackSpeaks

\* Steps that leave the sessions and the paths alone.
LEMMA AccessKeeps ==
  ASSUME AccessInv, A!Next
  PROVE  AccessInv'
<1>0. /\ fixture \in Tenants \cup {None} /\ KnownSessions /\ QueryTyped /\ FormTyped /\ Placed
      /\ CodesInv /\ A!CallbackSpeaks /\ status \in [Tenants -> A!Statuses]
      /\ started \in BOOLEAN /\ failure \in BOOLEAN
      /\ kept \in Sessions /\ seen \in Sessions /\ A!Current \in Tenants \cup {None}
  BY CurrentType DEF AccessInv, KnownSessions
<1>1. CASE A!Follow
  <2>. DEFINE v == A!Target(at, seen)
  <2>1. v # at /\ kept' = kept /\ A!Go(v) /\ seen' = A!HeldAt(at, v, seen) /\ UNCHANGED <<A!server, A!kakao>>
    BY <1>1 DEF A!Follow
  <2>2. v \in A!Urls
    BY <1>0, <2>1, TargetType, PathsAre DEF Placed
  <2>. HIDE DEF v
  <2>3. QueryTyped' /\ FormTyped' /\ Placed' /\ A!CallbackSpeaks'
    BY <1>0, <2>1, <2>2, GoKeeps
  <2>4. seen' = seen \/ seen' = kept
    BY <2>1 DEF A!HeldAt
  <2>5. KnownSessions' /\ status' = status
    BY <1>0, <2>1, <2>4 DEF KnownSessions, Sessions, A!Accounts, A!server
  <2>6. CodesInv' /\ started' = started /\ failure' = failure
    BY <1>0, <2>1, CodesSame DEF A!kakao
  <2>. QED  BY <1>0, <2>3, <2>5, <2>6 DEF AccessInv
<1>2. CASE A!Visit
  <2>1. PICK u \in A!Urls \cup (IF at \in A!Returns THEN {at} ELSE {}) : A!Load(u)
    BY <1>2 DEF A!Visit
  <2>2. u \in A!Urls \cup A!Returns /\ kakaoState' = kakaoState
    BY <1>2 DEF A!Visit
  <2>. QED  BY <2>1, <2>2, LoadKeeps
<1>3. ASSUME NEW u \in A!Public, A!Link(u) PROVE AccessInv'
  <2>1. kept' = kept /\ A!Go(u) /\ seen' = kept /\ UNCHANGED <<A!server, A!kakao>>
    BY <1>3 DEF A!Link
  <2>2. u \in A!Urls
    BY DEF A!Urls
  <2>3. QueryTyped' /\ FormTyped' /\ Placed' /\ A!CallbackSpeaks'
    BY <1>0, <2>1, <2>2, GoKeeps
  <2>4. KnownSessions' /\ status' = status
    BY <1>0, <2>1 DEF KnownSessions, Sessions, A!Accounts, A!server
  <2>5. CodesInv' /\ started' = started /\ failure' = failure
    BY <1>0, <2>1, CodesSame DEF A!kakao
  <2>. QED  BY <1>0, <2>3, <2>4, <2>5 DEF AccessInv
<1>4. ASSUME UNCHANGED <<A!server, kept, seen, at, A!form, A!kakao>>, QueryTyped' PROVE AccessInv'
  <2>1. CodesInv' /\ started' = started /\ failure' = failure
    BY <1>0, <1>4, CodesSame DEF A!kakao
  <2>2. KnownSessions' /\ status' = status
    BY <1>0, <1>4 DEF KnownSessions, Sessions, A!Accounts, A!server
  <2>3. FormTyped' /\ Placed' /\ A!CallbackSpeaks'
    BY <1>0, <1>4 DEF FormTyped, Placed, A!CallbackSpeaks, A!form, A!kakao
  <2>. QED  BY <1>0, <1>4, <2>1, <2>2, <2>3 DEF AccessInv
<1>5. CASE A!InfoArrives
  <2>1. PICK t \in reading :
          /\ info' = [info EXCEPT ![t] = [data |-> status[t], failed |-> FALSE]]
          /\ reading' = reading \ {t}
          /\ UNCHANGED <<A!server, kept, seen, at, A!form, A!kakao>>
    BY <1>5 DEF A!InfoArrives
  <2>2. t \in Tenants /\ status[t] \in A!Statuses
    BY <1>0 DEF QueryTyped
  <2>3. [data |-> status[t], failed |-> FALSE] \in [data : A!Statuses \cup {None}, failed : BOOLEAN]
    BY <2>2
  <2>4. QueryTyped'
    BY <1>0, <2>1, <2>3 DEF QueryTyped
  <2>. QED  BY <1>4, <2>1, <2>4
<1>6. CASE A!InfoFails
  <2>1. PICK t \in reading :
          /\ info' = [info EXCEPT ![t].failed = TRUE]
          /\ reading' = reading \ {t}
          /\ UNCHANGED <<A!server, kept, seen, at, A!form, A!kakao>>
    BY <1>6 DEF A!InfoFails
  <2>2. t \in Tenants /\ info[t] \in [data : A!Statuses \cup {None}, failed : BOOLEAN]
    BY <1>0 DEF QueryTyped
  <2>3. [info[t] EXCEPT !.failed = TRUE] \in [data : A!Statuses \cup {None}, failed : BOOLEAN]
    BY <2>2
  <2>4. info' = [info EXCEPT ![t] = [info[t] EXCEPT !.failed = TRUE]]
    BY <2>1
  <2>5. QueryTyped'
    BY <1>0, <2>1, <2>3, <2>4 DEF QueryTyped
  <2>. QED  BY <1>4, <2>1, <2>5
<1>7. CASE A!ShellAsksAgain
  <2>1. /\ reading' = reading \cup {A!Current} /\ info' = A!Began({A!Current})
        /\ UNCHANGED <<A!server, kept, seen, at, A!form, A!kakao>>
        /\ A!Guard(at) = "RequireAuth" /\ A!Target(at, seen) = at
    BY <1>7 DEF A!ShellAsksAgain
  <2>2. A!Current # None
    <3>1. at \in A!Urls
      <4>1. A!Guard(A!Url("kakao")) # "RequireAuth" /\ \A u \in A!Returns : A!Guard(u) # "RequireAuth"
        BY PageOf DEF A!Guard, A!Returns
      <4>. QED  BY <1>0, <2>1, <4>1 DEF Placed
    <3>2. at = A!Url("elsewhere") \/ \E t \in Tenants : at = A!Console(t)
      BY <2>1, <3>1, EveryPath, PageOf DEF A!Guard
    <3>3. A!OfConsole(at, seen) = at
      BY <2>1, <3>2, Targets
    <3>4. at # A!Url("login")
      BY <3>2, PageOf
    <3>. QED  BY <3>3, <3>4 DEF A!OfConsole
  <2>3. QueryTyped'
    BY <1>0, <2>1, <2>2, BeganTyped DEF QueryTyped
  <2>. QED  BY <1>4, <2>1, <2>3
<1>8. CASE A!Refresh
  <2>1. /\ reading' = reading \cup {A!Current} /\ info' = info
        /\ UNCHANGED <<A!server, kept, seen, at, A!form, A!kakao>>
        /\ at = A!Url("pending") /\ A!Target(at, seen) = at
    BY <1>8 DEF A!Refresh
  <2>2. A!Current # None
    <3>1. A!OfPending(seen) = A!Url("pending") /\ A!Url("pending") # A!Url("login")
      BY <2>1, Targets, PageOf
    <3>. QED  BY <3>1 DEF A!OfPending
  <2>3. QueryTyped'
    BY <1>0, <2>1, <2>2 DEF QueryTyped
  <2>. QED  BY <1>4, <2>1, <2>3
<1>9. CASE A!Review
  <2>1. PICK t \in Tenants, s \in {"active", "rejected"} :
          /\ status' = [status EXCEPT ![t] = s]
          /\ UNCHANGED <<fixture, kept, seen, at, A!query, A!form, A!kakao>>
    BY <1>9 DEF A!Review
  <2>2. s \in A!Statuses
    BY DEF A!Statuses
  <2>3. status' \in [Tenants -> A!Statuses]
    BY <1>0, <2>1, <2>2
  <2>4. CodesInv' /\ started' = started /\ failure' = failure
    BY <1>0, <2>1, CodesSame DEF A!kakao
  <2>5. KnownSessions' /\ QueryTyped'
    BY <1>0, <2>1, QuerySame DEF KnownSessions, Sessions, A!Accounts
  <2>6. FormTyped' /\ Placed' /\ A!CallbackSpeaks'
    BY <1>0, <2>1 DEF FormTyped, Placed, A!CallbackSpeaks, A!form, A!kakao
  <2>. QED  BY <1>0, <2>3, <2>4, <2>5, <2>6 DEF AccessInv
<1>10. CASE A!SubmitLogin
  <2>1. /\ entering' = entering \cup {"here"} /\ loginError' = FALSE
        /\ UNCHANGED <<A!server, kept, seen, at, A!query, A!kakao>>
    BY <1>10 DEF A!SubmitLogin
  <2>2. FormTyped'
    BY <1>0, <2>1 DEF FormTyped
  <2>3. CodesInv' /\ started' = started /\ failure' = failure
    BY <1>0, <2>1, CodesSame DEF A!kakao
  <2>4. KnownSessions' /\ QueryTyped' /\ status' = status
    BY <1>0, <2>1, QuerySame DEF KnownSessions, Sessions, A!Accounts, A!server
  <2>5. Placed' /\ A!CallbackSpeaks'
    BY <1>0, <2>1 DEF Placed, A!CallbackSpeaks, A!kakao
  <2>. QED  BY <1>0, <2>2, <2>3, <2>4, <2>5 DEF AccessInv
<1>11. CASE A!LoginArrives
  <2>1. PICK l \in entering :
          /\ entering' = entering \ {l} /\ UNCHANGED <<A!server, at, A!query, A!kakao>>
          /\ \/ UNCHANGED <<kept, seen, loginError>>
             \/ \E a \in (IF fixture = None THEN A!Accounts ELSE {fixture}) :
                  A!SetSession(a) /\ UNCHANGED loginError
             \/ fixture = None /\ loginError' = TRUE /\ UNCHANGED <<kept, seen>>
    BY <1>11 DEF A!LoginArrives
  <2>2. FormTyped'
    BY <1>0, <2>1 DEF FormTyped
  <2>3. KnownSessions' /\ (seen' = None => seen = None)
    <3>1. CASE UNCHANGED <<kept, seen>>
      BY <1>0, <2>1, <3>1 DEF KnownSessions, Sessions, A!Accounts, A!server
    <3>2. CASE \E a \in (IF fixture = None THEN A!Accounts ELSE {fixture}) : A!SetSession(a)
      <4>1. PICK a \in (IF fixture = None THEN A!Accounts ELSE {fixture}) : kept' = a /\ seen' = a
        BY <3>2 DEF A!SetSession
      <4>2. a \in A!Accounts /\ a # None /\ (fixture # None => a # A!Platform)
        BY <1>0, NamesApart DEF A!Accounts
      <4>3. fixture' = fixture
        BY <2>1 DEF A!server
      <4>. QED  BY <1>0, <4>1, <4>2, <4>3 DEF KnownSessions, Sessions, A!Accounts
    <3>. QED  BY <2>1, <3>1, <3>2
  <2>4. CodesInv' /\ started' = started /\ failure' = failure
    BY <1>0, <2>1, CodesSame DEF A!kakao
  <2>5. QueryTyped' /\ status' = status
    BY <1>0, <2>1, QuerySame DEF A!server
  <2>6. Placed' /\ A!CallbackSpeaks'
    BY <1>0, <2>1, <2>3 DEF Placed, A!CallbackSpeaks, A!kakao
  <2>. QED  BY <1>0, <2>2, <2>3, <2>4, <2>5, <2>6 DEF AccessInv
<1>12. ASSUME NEW t \in Tenants \cup {None}, A!SetSession(t), NEW v \in A!Urls, A!Go(v),
              fixture' = fixture, status' = status, CodesInv',
              started' = started, failure' = failure
       PROVE  AccessInv'
  <2>1. KnownSessions'
    BY <1>0, <1>12, NamesApart DEF KnownSessions, Sessions, A!Accounts, A!SetSession
  <2>2. QueryTyped' /\ FormTyped' /\ Placed' /\ A!CallbackSpeaks'
    BY <1>0, <1>12, GoKeeps
  <2>. QED  BY <1>0, <1>12, <2>1, <2>2 DEF AccessInv
<1>13. CASE A!SignUp
  <2>1. PICK t \in Tenants : A!SetSession(t) /\ A!Go(A!Url("pending")) /\ UNCHANGED <<A!server, A!kakao>>
    BY <1>13 DEF A!SignUp
  <2>2. /\ fixture' = fixture /\ status' = status /\ CodesInv'
        /\ started' = started /\ failure' = failure
    BY <1>0, <2>1, CodesSame DEF A!server, A!kakao
  <2>. QED  BY <1>12, <2>1, <2>2, PathsAre
<1>14. CASE A!LogOut
  <2>1. /\ A!SetSession(None) /\ UNCHANGED <<A!server, A!kakao>>
        /\ \/ A!Go(A!Url("login")) \/ (fixture \in Tenants /\ A!Go(A!Console(fixture)))
    BY <1>0, <1>14 DEF A!LogOut
  <2>2. /\ fixture' = fixture /\ status' = status /\ CodesInv'
        /\ started' = started /\ failure' = failure
    BY <1>0, <2>1, CodesSame DEF A!server, A!kakao
  <2>3. PICK v \in A!Urls : A!Go(v)
    BY <2>1, PathsAre
  <2>. QED  BY <1>12, <2>1, <2>2, <2>3
<1>15. CASE A!OtherTab
  <2>1. kept' \in A!Known \cup {None} /\ UNCHANGED <<A!server, seen, at, A!query, A!form, A!kakao>>
    BY <1>15 DEF A!OtherTab
  <2>2. KnownSessions' /\ status' = status
    BY <1>0, <2>1, NamesApart DEF KnownSessions, Sessions, A!Accounts, A!Known, A!server
  <2>3. CodesInv' /\ started' = started /\ failure' = failure
    BY <1>0, <2>1, CodesSame DEF A!kakao
  <2>4. QueryTyped'
    BY <1>0, <2>1, QuerySame
  <2>5. FormTyped' /\ Placed' /\ A!CallbackSpeaks'
    BY <1>0, <2>1 DEF FormTyped, Placed, A!CallbackSpeaks, A!form, A!kakao
  <2>. QED  BY <1>0, <2>2, <2>3, <2>4, <2>5 DEF AccessInv
<1>16. CASE A!BeginKakao
  <2>1. /\ begun < MaxBegins /\ begun' = begun + 1 /\ kakaoState' = begun + 1
        /\ at' = A!Url("kakao") /\ info' = [t \in Tenants |-> A!Fresh] /\ reading' = {}
        /\ entering' = {} /\ loginError' = FALSE
        /\ exchanges' = {} /\ started' = FALSE /\ failure' = FALSE
        /\ UNCHANGED <<A!server, kept, seen, exchanged>>
    BY <1>16 DEF A!BeginKakao
  <2>2. MaxBegins \in Nat
    BY PartsAssumption DEF A!AccessAssumption
  <2>3. CodesInv'
    <3>1. begun \in Int /\ begun + 1 \in A!Ids
      BY <1>0, <2>1, <2>2 DEF CodesInv, A!Ids
    <3>2. \A n \in A!Ids : n > begun + 1 => exchanged[n] = 0
      BY <1>0, <3>1 DEF CodesInv, A!Ids
    <3>3. exchanged[begun + 1] = 0
      BY <1>0, <3>1 DEF CodesInv
    <3>4. begun + 1 \in 0 .. MaxBegins
      BY <2>2, <3>1 DEF A!Ids
    <3>. QED  BY <1>0, <2>1, <3>1, <3>2, <3>3, <3>4 DEF CodesInv
  <2>4. QueryTyped'
    <3>1. A!Fresh \in [data : A!Statuses \cup {None}, failed : BOOLEAN]
      BY DEF A!Fresh
    <3>. QED  BY <2>1, <3>1 DEF QueryTyped
  <2>5. KnownSessions' /\ status' = status
    BY <1>0, <2>1 DEF KnownSessions, Sessions, A!Accounts, A!server
  <2>. QED  BY <1>0, <2>1, <2>3, <2>4, <2>5 DEF AccessInv, FormTyped, Placed, A!CallbackSpeaks
<1>17. CASE A!KakaoReturns
  <2>1. PICK u \in {A!Callback(begun), A!Callback(0), A!Url("login")} : A!Load(u)
    BY <1>17 DEF A!KakaoReturns
  <2>2. kakaoState' = kakaoState
    BY <1>17 DEF A!KakaoReturns
  <2>3. u \in A!Urls \cup A!Returns
    <3>1. begun \in 0 .. MaxBegins /\ 0 \in 0 .. MaxBegins
      BY <1>0, PartsAssumption DEF CodesInv, A!AccessAssumption
    <3>. QED  BY <2>1, <3>1, PathsAre DEF A!Returns
  <2>. QED  BY <2>1, <2>2, <2>3, LoadKeeps
<1>18. CASE A!CallbackEffect
  <2>1. /\ at \in A!Returns /\ started' = TRUE
        /\ UNCHANGED <<A!server, kept, seen, at, A!query, A!form, begun>>
        /\ \/ failure' = TRUE /\ (kakaoState' = kakaoState \/ kakaoState' = None)
              /\ UNCHANGED <<exchanges, exchanged>>
           \/ /\ at.of # 0 /\ kakaoState = at.of /\ kakaoState' = None /\ failure' = failure
              /\ exchanges' = exchanges \cup {at.of}
              /\ exchanged' = [exchanged EXCEPT ![at.of] = @ + 1]
    BY <1>18 DEF A!CallbackEffect, A!Consumed
  <2>2. PICK n \in 0 .. MaxBegins : at.of = n
    BY <2>1, PageOf DEF A!Returns
  <2>3. CodesInv' /\ failure' \in BOOLEAN /\ (failure' \/ exchanges' # {})
    <3>1. CASE failure' = TRUE /\ kakaoState' = kakaoState /\ UNCHANGED <<exchanges, exchanged>>
      BY <1>0, <2>1, <3>1, CodesSame
    <3>2. CASE failure' = TRUE /\ kakaoState' = None /\ UNCHANGED <<exchanges, exchanged>>
      BY <1>0, <2>1, <3>2, NamesApart DEF CodesInv
    <3>3. CASE /\ n # 0 /\ kakaoState = n /\ kakaoState' = None /\ failure' = failure
               /\ exchanges' = exchanges \cup {n} /\ exchanged' = [exchanged EXCEPT ![n] = @ + 1]
      <4>1. n \in A!Ids /\ exchanged[n] = 0 /\ n <= begun
        BY <1>0, <3>3 DEF CodesInv, A!Ids
      <4>2. exchanged' \in [A!Ids -> 0 .. 1] /\ \A m \in A!Ids : m # n => exchanged'[m] = exchanged[m]
        BY <1>0, <3>3, <4>1 DEF CodesInv
      <4>3. \A m \in A!Ids : m > begun => exchanged'[m] = 0
        BY <1>0, <4>1, <4>2 DEF CodesInv, A!Ids
      <4>. QED  BY <1>0, <2>1, <3>3, <4>1, <4>2, <4>3, NamesApart DEF CodesInv
    <3>. QED  BY <2>1, <2>2, <3>1, <3>2, <3>3
  <2>4. KnownSessions' /\ QueryTyped' /\ status' = status
    BY <1>0, <2>1, QuerySame DEF KnownSessions, Sessions, A!Accounts, A!server
  <2>5. FormTyped' /\ Placed'
    BY <1>0, <2>1 DEF FormTyped, Placed, A!form
  <2>. QED  BY <1>0, <2>1, <2>3, <2>4, <2>5 DEF AccessInv, A!CallbackSpeaks
<1>19. CASE A!KakaoArrives
  <2>1. PICK n \in exchanges, t \in Tenants :
          /\ exchanges' = exchanges \ {n} /\ A!SetSession(t) /\ A!Go(A!Url("landing"))
          /\ UNCHANGED <<A!server, begun, kakaoState, started, failure, exchanged>>
    BY <1>19 DEF A!KakaoArrives
  <2>2. CodesInv'
    BY <1>0, <2>1 DEF CodesInv
  <2>. QED  BY <1>12, <2>1, <2>2, PathsAre DEF A!server
<1>20. CASE A!KakaoFails
  <2>1. PICK n \in exchanges :
          /\ exchanges' = exchanges \ {n} /\ failure' = (failure \/ at \in A!Returns)
          /\ UNCHANGED <<A!server, kept, seen, at, A!query, A!form, begun, kakaoState, started, exchanged>>
    BY <1>20 DEF A!KakaoFails
  <2>2. CodesInv'
    BY <1>0, <2>1 DEF CodesInv
  <2>3. KnownSessions' /\ QueryTyped' /\ status' = status
    BY <1>0, <2>1, QuerySame DEF KnownSessions, Sessions, A!Accounts, A!server
  <2>4. FormTyped' /\ Placed' /\ A!CallbackSpeaks' /\ failure' \in BOOLEAN
    BY <1>0, <2>1 DEF FormTyped, Placed, A!CallbackSpeaks, A!form
  <2>. QED  BY <1>0, <2>1, <2>2, <2>3, <2>4 DEF AccessInv
<1>. QED
  BY <1>1, <1>2, <1>3, <1>5, <1>6, <1>7, <1>8, <1>9, <1>10, <1>11, <1>13, <1>14, <1>15, <1>16,
     <1>17, <1>18, <1>19, <1>20 DEF A!Next

(***************************************************************************)
(* Whatever the tab holds and has read, and whatever other tabs and the    *)
(* server do meanwhile, it finds its page: TabFindsItsPage of              *)
(* ConsoleAccess, for any number of tenants and of Kakao logins (App's     *)
(* routes, KakaoCallbackPage).                                             *)
(***************************************************************************)
THEOREM EveryTabFindsItsPage == A!Spec => []TabFindsItsPage
<1>1. A!Init => AccessInv
  <2>1. SUFFICES ASSUME A!Init PROVE AccessInv
    OBVIOUS
  <2>2. KnownSessions
    BY <2>1, NamesApart DEF A!Init, KnownSessions, Sessions
  <2>3. QueryTyped
    <3>1. A!Fresh \in [data : A!Statuses \cup {None}, failed : BOOLEAN]
      BY DEF A!Fresh
    <3>. QED  BY <2>1, <3>1 DEF A!Init, QueryTyped
  <2>4. status \in [Tenants -> A!Statuses]
    BY <2>1 DEF A!Init, A!Statuses
  <2>5. CodesInv
    <3>1. MaxBegins \in Nat /\ exchanged = [n \in A!Ids |-> 0] /\ begun = 0 /\ exchanges = {}
      BY <2>1, PartsAssumption DEF A!Init, A!AccessAssumption
    <3>2. kakaoState = None
      BY <2>1 DEF A!Init
    <3>3. None \notin A!Ids
      BY NamesApart
    <3>. QED  BY <3>1, <3>2, <3>3 DEF CodesInv
  <2>6. Placed /\ at \notin A!Returns
    BY <2>1, PathsAre DEF A!Init, Placed
  <2>. QED  BY <2>1, <2>2, <2>3, <2>4, <2>5, <2>6 DEF A!Init, AccessInv, FormTyped, A!CallbackSpeaks
<1>2. AccessInv /\ [A!Next]_A!vars => AccessInv'
  <2>1. ASSUME AccessInv, UNCHANGED A!vars PROVE AccessInv'
    <3>1. /\ CodesInv /\ QueryTyped
          /\ UNCHANGED <<A!server, kept, seen, at, A!query, A!form, A!kakao>>
      BY <2>1 DEF AccessInv, A!vars
    <3>2. CodesInv' /\ QueryTyped'
      BY <3>1, CodesSame, QuerySame DEF A!kakao
    <3>. QED  BY <2>1, <3>1, <3>2 DEF AccessInv, KnownSessions, Sessions, A!Accounts, FormTyped,
                                      Placed, A!CallbackSpeaks, A!server, A!form, A!kakao
  <2>. QED  BY <2>1, AccessKeeps
<1>3. ASSUME AccessInv PROVE A!TypeOK /\ A!CodeSentOnce
  <2>1. exchanged \in [A!Ids -> 0 .. 3]
    BY <1>3 DEF AccessInv, CodesInv
  <2>2. A!TypeOK
    BY <1>3, <2>1 DEF AccessInv, A!TypeOK, KnownSessions, Sessions, QueryTyped, FormTyped, Placed, CodesInv
  <2>3. A!CodeSentOnce
    BY <1>3 DEF AccessInv, CodesInv, A!CodeSentOnce
  <2>. QED  BY <2>2, <2>3
<1>4. AccessInv => TabFindsItsPage
  BY <1>3, Settles, LeadsHome DEF AccessInv, TabFindsItsPage, A!TabFindsItsPage
<1>. QED  BY <1>1, <1>2, <1>4, PTL DEF A!Spec
=============================================================================
