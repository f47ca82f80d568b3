SPECIFICATION RefundSpec
CONSTANTS
  k1 = k1 r1 = r1 e1 = e1 q1 = q1 q2 = q2 q3 = q3 x1 = x1 x2 = x2 x3 = x3 x4 = x4
  None = None
  NumSchedules = 1
  ScheduleAmount <- MCOneSchedule
  MaxAmount = 2
  Sessions = {k1}
  SessionSchedule <- MCSession
  Requests = {r1}
  RequestKey <- MCRequest
  SlowRequests = FALSE
  Events = {e1}
  EventSession <- MCEvent
  EventKind <- MCSuccess
  Receivers = {w1}
  CreditNotes = {}
  CreditAmount <- MCNothing
  MaxCrashes = 0
  Refunds = {q1}
  RefundSession <- MCPartial
  RefundAmount <- MCPartialAmount
  Callers = {c1}
  RefundEvents = {x1, x2, x3, x4}
  EventRefund <- MCEventsOfOne
  EventStatus <- MCStatusOfOne
  Hooks = {h1}
  StripeRefunds = {q1}
INVARIANT AcknowledgedRefundApplied
CHECK_DEADLOCK FALSE
