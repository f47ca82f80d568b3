SPECIFICATION Spec
CONSTANTS
  c1 = c1 c2 = c2 staff1 = staff1 staff2 = staff2 w1 = w1 l1 = l1 l2 = l2 driver1 = driver1 vehicle1 = vehicle1
  k1 = k1 k2 = k2 d1 = d1 d2 = d2 f1 = f1 f2 = f2 q1 = q1 u1 = u1 b1 = b1 b2 = b2
  e1 = e1 e2 = e2 e3 = e3 i1 = i1 r1 = r1 r2 = r2 s1 = s1 s2 = s2 t1 = t1 t2 = t2 t3 = t3
  o1 = o1 o2 = o2 p1 = p1 p2 = p2 p3 = p3 g1 = g1 g2 = g2 x1 = x1 x2 = x2 x3 = x3
  a1 = a1 a2 = a2 None = None
  Completions = {c1, c2}
  Legs = {l1, l2}
  Drivers = {driver1}
  Vehicles = {vehicle1}
  CheckIns = {k1}
  Dispatchers = {staff1, staff2}
  Duty <- MCDuty
  Sweeping = {w1}
  Papers = {d1, d2}
  Carriers = {c1, c2}
  Filings = {f1, f2}
  Declarants = {c1, c2}
  CoverQuotes = {q1}
  Free = {}
  Claims = {k1}
  ClaimPolicy <- MCClaimPolicy
  Claimed <- MCClaimed
  Amounts = {1, 2}
  Assessors = {c1, c2}
  Members = {b1, b2}
  Weight <- MCWeight
  MaxWeight = 2
  Units = {u1}
  Planners = {c1, c2}
  CutoffSweepers = {w1}
  MaxMoves = 7
  Packings = {k1, k2}
  Packages <- MCPackages
  CargoPackages = 2
  HandlingUnits = {u1}
  HandlingEvents = {e1, e2, e3}
  EventUnit <- MCEventUnit
  HandlingKey <- MCHandlingKey
  EventStatus <- MCEventStatus
  Handlers = {c1, c2}
  Items = {i1}
  Receptacles = {r1}
  Dispatches = {d1}
  PostalEvents = {e1, e2}
  EventItem <- MCEventItem
  PostalKey <- MCPostalKey
  EventCode <- MCEventCode
  Clerks = {c1, c2}
  MaxPostalMoves = 6
  Sessions = {s1, s2}
  Tokens = {t1, t2, t3}
  Codes = {k1}
  ResetTokens = {r1, r2}
  Agents = {c1, c2}
  MaxPassword = 3
  Orders = {o1, o2}
  ShopKey <- MCShopKey
  Deliveries = {d1}
  Shops = {c1, c2}
  Senders = {c1, c2}
  MaxAttempts = 2
  MaxMishaps = 1
  Linehauls = {s1, s2}
  LinehaulPlans = {p1, p2, p3}
  Mode <- MCMode
  LinehaulWeight = 2
  PlanWeight <- MCPlanWeight
  PostalRuns = {g1, g2}
  PostalReceptacles = {d1, d2, r1}
  PostalRoute <- MCPostalRoute
  PositionOf <- MCPositionOf
  Allocators = {c1, c2}
  Registrations = {l1, l2}
  EmailOf <- MCEmailOf
  MailTokens = {t1, t2}
  Secrets = {x1, x2, x3}
  Devices = {c1, c2}
  Roles = {r1}
  Permissions = {p1, p2}
  Users = {u1}
  Logins = {s1}
  UserOf <- MCUserOf
  Credentials = {k1}
  Requesters = {c1, c2}
  MaxChanges = 4
  Accounts = {a1, a2}
  Addresses = {i1}
  Maximum = 2
  MaxMore = 1
  Attempts = {c1, c2}
  ApiKeys = {t1, t2, t3}
  Rotators = {c1, c2}
  PerMinute = 1
  ApiCalls = {c1, c2}
  Notices = {e1, e2}
  NoticeOf <- MCNoticeOf
INVARIANTS
  TransportProven SessionsSound RepeatedOnce RecordsAgree AccessSound
PROPERTIES
  UnverifiedOnlyInARace CapacityExceededOnlyInARace DecisionsStand RightsEnd
SYMMETRY Symmetric
CHECK_DEADLOCK FALSE
