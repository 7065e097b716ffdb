SPECIFICATION Spec
CONSTANTS
  d1 = d1 d2 = d2
  Directors = {d1, d2}
  MaxRounds = 3
  MaxFiles = 3
  MaxIssues = 2
  MaxReviews = 2
  p1 = p1 p2 = p2 t1 = t1 t2 = t2
  Users = {1, 2}
  Projects = {p1, p2}
  Txns = {t1, t2}
  MaxTxns = 2
  Nobody = Nobody
  Idle = Idle
  k1 = k1 a1 = a1 may = may june = june
  Plans = {may, june}
  Unplanned = Unplanned
  Dialogs = {k1}
  Adjustments = {a1}
  MaxVersion = 5
  MaxWire = 2
SYMMETRY Interchangeable
INVARIANTS ReviewSafe HistoryIsAnswered MembersSafe ScheduleTold
PROPERTIES HistoryStands
CHECK_DEADLOCK FALSE
