CONSTANTS
  Addresses = {a1, a2}
  Plans = {"trial", "pro"}
  Tenants = {t1, t2}
  Numbers = {n1}
  AdminEmails = {e1}
  Filters = {"pending", "all"}
  MaxAsked = 2
  Clients = {c1, c2}
  Names = {k1, k2}
  Texts = {x1, x2}
  MaxMade = 2
  None = None
SPECIFICATION MCSpec
SYMMETRY Alike
INVARIANTS
  StoresKeepTheirRows
  WizardKeepsItsWord
PROPERTIES
  ImplementsRowStore
  ReviewersAreToldTrue
CHECK_DEADLOCK FALSE
