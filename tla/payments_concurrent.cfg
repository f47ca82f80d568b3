SPECIFICATION Spec
CONSTANTS
  k1 = k1 k2 = k2 r1 = r1 r2 = r2 e1 = e1 e2 = e2 e3 = e3 e4 = e4 n1 = n1
  None = None
  NumSchedules = 2
  ScheduleAmount <- MCTwoSchedules
  MaxAmount = 2
  Sessions = {k1, k2}
  SessionSchedule <- MCSessions2
  Requests = {r1, r2}
  RequestKey <- MCRequests2
  SlowRequests = FALSE
  Events = {e1, e2, e3, e4}
  EventSession <- MCEvents4
  EventKind <- MCKinds4
  Receivers = {w1, w2}
  CreditNotes = {n1}
  CreditAmount <- MCCredit
  MaxCrashes = 1
INVARIANTS MoneyAccounted CheckoutExclusive ConfirmedBookingIsPaid
  OverpaidOnlyAfterALapse
CHECK_DEADLOCK FALSE
