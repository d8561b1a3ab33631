---------------------------- MODULE HoursEditor ----------------------------
(* The page of the opening hours: the week the owner edits, the row of a day's  *)
(* break, the closing dates, and the panel that tells what a call would hear    *)
(* now.  Saving goes through the draft of ConfigDraft; here there is one tab    *)
(* and nobody else writes.  BusinessHours has the two readings of the hours.   *)
EXTENDS Integers

CONSTANTS
  EditedDays,   \* the days whose row is used, 0 is Monday
  TypedTimes,   \* what may be typed into a time field, in minutes
  Dates,        \* closing dates, as day numbers
  Glances,      \* the instants the panel is looked at, in minutes UTC
  None,
  MaxEdits      \* bound: changes of the draft

EditorAssumption ==
  /\ EditedDays \subseteq 0..6 /\ TypedTimes \subseteq 0..1439
  /\ Dates \subseteq Int /\ Glances \subseteq Int /\ MaxEdits \in Nat

VARIABLES
  stored,      \* the hours in the tenant's configuration
  readHours,   \* the hours last read from it
  week,        \* the draft's hours
  opened,      \* breakOpenFor: rows whose break was opened by its button
  chip,        \* the date typed and not added yet, or None
  putHours,    \* a Save under way, its hours, and whether something was typed since
  saved,       \* "Saved." is shown
  typedOver,   \* history: something was typed while the Save of "Saved." was under way
  changes      \* changes of the draft so far

vars == <<stored, readHours, week, opened, chip, putHours, saved, typedOver, changes>>

Days == 0..6
Emptied == -1            \* a time field that was cleared: ""
Absent == -2             \* a break that is not in the draft
Nonsense == -1           \* a chip that is not a date
NoPut == [sent |-> FALSE, body |-> None, typed |-> FALSE]

Times == TypedTimes \cup {540, 1080, Emptied}
Ends == TypedTimes \cup {900, 1020, Emptied, Absent}
Day == [open : Times, close : Times, start : Ends, end : Ends]
Hours == [days : [Days -> Day \cup {None}], holidays : SUBSET Dates]

DEFAULT_DAY == [open |-> 540, close |-> 1080, start |-> Absent, end |-> Absent]
Standard == [days |-> [d \in Days |-> IF d < 5 THEN DEFAULT_DAY ELSE None], holidays |-> {}]

TypeOK ==
  /\ {stored, readHours, week} \subseteq Hours \cup {None}
  /\ opened \in [EditedDays -> BOOLEAN]
  /\ chip \in Dates \cup {Nonsense, None}
  /\ putHours \in [sent : BOOLEAN, body : Hours \cup {None}, typed : BOOLEAN]
  /\ saved \in BOOLEAN /\ typedOver \in BOOLEAN /\ changes \in 0..MaxEdits

Init ==
  /\ stored \in {None, Standard} /\ readHours = stored /\ week = stored
  /\ opened = [d \in EditedDays |-> FALSE] /\ chip = None
  /\ putHours = NoPut /\ saved = FALSE /\ typedOver = FALSE /\ changes = 0

-----------------------------------------------------------------------------
\* Mutant: "Saved." stays when the draft is changed.
Mut_Patch(h) ==
  /\ changes < MaxEdits /\ changes' = changes + 1
  /\ week' = h
  /\ putHours' = [putHours EXCEPT !.typed = putHours.sent]
  /\ UNCHANGED <<stored, readHours, saved, typedOver>>

\* patch: the draft changes and "Saved." goes. The form stays open during a Save.
Patch(h) ==
  /\ changes < MaxEdits /\ changes' = changes + 1
  /\ week' = h /\ saved' = FALSE
  /\ putHours' = [putHours EXCEPT !.typed = putHours.sent]
  /\ UNCHANGED <<stored, readHours, typedOver>>

SetDay(d, day) == Patch([week EXCEPT !.days[d] = day])
Row(d) == week.days[d]
Open(d) == week # None /\ Row(d) # None

\* The switch of the card: off forgets the week, on starts from the standard one.
ToggleAll == Patch(IF week = None THEN Standard ELSE None) /\ UNCHANGED <<opened, chip>>

ToggleDay(d) ==
  /\ week # None
  /\ SetDay(d, IF Row(d) = None THEN DEFAULT_DAY ELSE None) /\ UNCHANGED <<opened, chip>>

TypeTime(d) == \E v \in TypedTimes \cup {Emptied} :
  /\ Open(d)
  /\ SetDay(d, [Row(d) EXCEPT !.open = v]) \/ SetDay(d, [Row(d) EXCEPT !.close = v])
  /\ UNCHANGED <<opened, chip>>

\* showBreak: opened by the button, or whole in the draft.
Whole(day) == day.start \notin {Absent, Emptied} /\ day.end \notin {Absent, Emptied}
ShowsBreak(d) == opened[d] \/ Whole(Row(d))

\* The two fields of the row; a break that is not in the draft is shown at 15 to 17.
ShownStart(d) == IF Row(d).start = Absent THEN 900 ELSE Row(d).start
ShownEnd(d) == IF Row(d).end = Absent THEN 1020 ELSE Row(d).end

\* The button adds a row without a change of the draft, and removes both.
BreakButton(d) ==
  /\ Open(d) /\ UNCHANGED chip
  /\ IF ShowsBreak(d)
     THEN /\ SetDay(d, [Row(d) EXCEPT !.start = Absent, !.end = Absent])
          /\ opened' = [opened EXCEPT ![d] = FALSE]
     ELSE /\ opened' = [opened EXCEPT ![d] = TRUE]
          /\ UNCHANGED <<stored, readHours, week, putHours, saved, typedOver, changes>>

\* Typing one end puts both into the draft.
TypeBreak(d) == \E v \in TypedTimes \cup {Emptied} :
  /\ Open(d) /\ ShowsBreak(d)
  /\ \/ SetDay(d, [Row(d) EXCEPT !.start = v, !.end = ShownEnd(d)])
     \/ SetDay(d, [Row(d) EXCEPT !.start = ShownStart(d), !.end = v])
  /\ UNCHANGED <<opened, chip>>

\* Monday's hours, or the default ones if Monday is closed, from Monday to Friday.
ApplyWeekdays ==
  /\ week # None
  /\ LET mon == IF Row(0) = None THEN DEFAULT_DAY ELSE Row(0)
     IN Patch([week EXCEPT !.days = [d \in Days |-> IF d < 5 THEN mon ELSE Row(d)]])
  /\ UNCHANGED <<opened, chip>>

\* ChipsInput: what is typed counts once it is added; what is no date is dropped.
TypeChip ==
  /\ week # None /\ chip' \in (Dates \cup {Nonsense}) \ {chip}
  /\ UNCHANGED <<stored, readHours, week, opened, putHours, saved, typedOver, changes>>

AddChip ==
  /\ week # None /\ chip # None /\ chip' = None
  /\ IF chip \in week.holidays
     THEN UNCHANGED <<stored, readHours, week, putHours, saved, typedOver, changes>>
     ELSE Patch([week EXCEPT !.holidays = @ \cup ({chip} \cap Dates)])
  /\ UNCHANGED opened

RemoveChip ==
  /\ week # None
  /\ \E v \in week.holidays : Patch([week EXCEPT !.holidays = @ \ {v}])
  /\ UNCHANGED <<opened, chip>>

-----------------------------------------------------------------------------
Save ==
  /\ ~putHours.sent /\ putHours' = [sent |-> TRUE, body |-> week, typed |-> FALSE]
  /\ UNCHANGED <<stored, readHours, week, opened, chip, saved, typedOver, changes>>

\* Stored, read again, and copied over the draft if anything is new; the rows
\* that were opened stay open.
SaveEnds ==
  /\ putHours.sent /\ putHours' = NoPut
  /\ stored' = putHours.body /\ readHours' = stored' /\ saved' = TRUE
  /\ week' = IF readHours' # readHours THEN readHours' ELSE week
  /\ typedOver' = putHours.typed
  /\ UNCHANGED <<opened, chip, changes>>

\* Lost before or after it was stored.
SaveFails ==
  /\ putHours.sent /\ putHours' = NoPut
  /\ stored' \in {stored, putHours.body}
  /\ UNCHANGED <<readHours, week, opened, chip, saved, typedOver, changes>>

Next ==
  \/ ToggleAll \/ ApplyWeekdays \/ TypeChip \/ AddChip \/ RemoveChip
  \/ \E d \in EditedDays : ToggleDay(d) \/ TypeTime(d) \/ BreakButton(d) \/ TypeBreak(d)
  \/ Save \/ SaveEnds \/ SaveFails

Spec == Init /\ [][Next]_vars

-----------------------------------------------------------------------------
\* The hours as both readings take them: a cleared time is midnight, half a break
\* is none.
BH == INSTANCE BusinessHours WITH Weeks <- {}, Holidays <- {}, Instants <- <<0>>,
                                  hours <- week, i <- 1, answered <- "none", shown <- "none"

ToMinutes(v) == IF v = Emptied THEN 0 ELSE v

AsRead(h) ==
  IF h = None THEN BH!NoHours
  ELSE [holidays |-> h.holidays,
        days |-> [d \in Days |->
          IF h.days[d] = None THEN BH!Closed
          ELSE [open |-> ToMinutes(h.days[d].open), close |-> ToMinutes(h.days[d].close),
                break |-> IF Whole(h.days[d])
                          THEN [start |-> h.days[d].start, end |-> h.days[d].end]
                          ELSE BH!NoBreak]]]

\* Under "Saved." the panel, which reads the draft, tells what a call is told by
\* the stored hours: at the instants where the two readings agree
\* (PreviewIsTheCall), and unless something was typed while the Save was under
\* way - after a Save without changes that stays in the form, and is not stored.
PanelTellsTheCall ==
  saved /\ ~typedOver =>
    \A t \in Glances : BH!RulesMeet(AsRead(stored), t) =>
      (BH!IsWithinPreview(AsRead(week), t) <=> BH!IsWithinBusinessHours(AsRead(stored), t))

\* The break on the screen is the break of the draft, for each day, except a row
\* that was opened and not typed in - its 15 to 17 is shown and never saved - and
\* a break with a cleared end.
BreakOnScreen ==
  \A d \in EditedDays : Open(d) /\ Emptied \notin {Row(d).start, Row(d).end} =>
    \/ Row(d).start = Absent /\ Row(d).end = Absent
    \/ ShowsBreak(d) /\ Row(d).start = ShownStart(d) /\ Row(d).end = ShownEnd(d)
\* The two together, with the types: the page shows what is saved from it
\* (BusinessHoursPage, useAgentConfigDraft).
ScreenTellsTheHours == TypeOK /\ PanelTellsTheCall /\ BreakOnScreen
=============================================================================
