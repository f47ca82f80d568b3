SPECIFICATION RefundSpec
CONSTANTS
  k1 = k1 r1 = r1 e1 = e1 q1 = q1 q2 = q2 q3 = q3 x1 = x1 x2 = x2 x3 = x3 x4 = x4
  None = None
  NumSchedules = 1
  ScheduleAmount <- MCOneSchedule
  MaxAmount = 2
  Sessions = {k1}
  SessionSchedule <- MCSession
  Requests = {r1}
  RequestKey <- MCRequest
  SlowRequests = FALSE
  Events = {e1}
  EventSession <- MCEvent
  EventKind <- MCSuccess
  Receivers = {w1}
  CreditNotes = {}
  CreditAmount <- MCNothing
  MaxCrashes = 1
  Refunds = {q1, q2, q3}
  RefundSession <- MCThree
  RefundAmount <- MCThreeAmounts
  Callers = {c1, c2}
  RefundEvents = {x1, x2, x3}
  EventRefund <- MCEventsOfTwo
  EventStatus <- MCStatusOfTwo
  Hooks = {h1}
  StripeRefunds = {q1}
SYMMETRY MCActorsAlike
INVARIANT RefundsAccounted
PROPERTY DeductionLostOnlyInARace
CHECK_DEADLOCK FALSE
