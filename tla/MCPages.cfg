CONSTANTS
  Weeks <- MCWeeks
  Holidays <- MCHolidays
  Instants <- MCInstants
  Tenants = {t1, t2}
  MaxBegins = 1
  EditedDays = {0, 5}
  TypedTimes = {600}
  Dates = {7}
  Glances <- MCGlances
  MaxEdits = 2
  None = None
SPECIFICATION MCSpec
SYMMETRY Alike
INVARIANTS
  AnsweredAsOpen
  TheSameIsTold
  TabFindsItsPage
  ScreenTellsTheHours
CHECK_DEADLOCK FALSE
