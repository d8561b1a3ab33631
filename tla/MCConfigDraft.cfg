SPECIFICATION FairSpec
CONSTANTS
  Tabs = {t1}
  Slices = {profile, hours}
  Saves = {k1, k2}
  MaxEdits = 2
  MaxWrites = 2
  Blank = Blank
  None = None
INVARIANTS
  ReadYourWrites
PROPERTIES
  OnlyTheSliceIsWritten
  RefetchKeepsTyping
  SaveSettles
CHECK_DEADLOCK FALSE
