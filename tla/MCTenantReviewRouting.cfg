CONSTANTS
  Tenants = {t1, t2}
  Numbers = {n1, n2}
  Emails = {e1}
  Requests = {r1, r2}
  Ops <- RoutingOps
  Given <- LiveOrWaiting
  Pending = Pending
  Nobody = Nobody
SPECIFICATION Spec
SYMMETRY Alike
INVARIANTS
  RoutedWasLive
  HolderIsReached
