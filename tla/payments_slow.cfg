SPECIFICATION FairSpec
CONSTANTS
  k1 = k1 k2 = k2 r1 = r1 r2 = r2 e1 = e1 e2 = e2 e3 = e3 e4 = e4 n1 = n1
  None = None
  NumSchedules = 2
  ScheduleAmount <- MCTwoSchedules
  MaxAmount = 2
  Sessions = {k1, k2}
  SessionSchedule <- MCSessions2
  Requests = {r1, r2}
  RequestKey <- MCRequests2
  SlowRequests = TRUE
  Events = {e1, e2}
  EventSession <- MCEvents2
  EventKind <- MCSuccess2
  Receivers = {w1, w2}
  CreditNotes = {n1}
  CreditAmount <- MCCredit
  MaxCrashes = 0
PROPERTIES OverpaidOnlyInARace CapturedSettles
CHECK_DEADLOCK FALSE
