SPECIFICATION Spec
CONSTANTS
  c1 = c1 c2 = c2 p1 = p1 p2 = p2 w1 = w1 o1 = o1 e1 = e1 d1 = d1 d2 = d2 l1 = l1
  k1 = k1 driver1 = driver1 vehicle1 = vehicle1 b1 = b1 b2 = b2 u1 = u1
  offer1 = offer1 r1 = r1 None = None
  OutboxEvents = {e1}
  Publishers = {p1, p2}
  MaxTrouble = 3
  Orders = {o1}
  ShopKey <- MCShopKey
  Deliveries = {d1, d2}
  Shops = {c1}
  Senders = {w1}
  MaxAttempts = 2
  MaxMishaps = 1
  Keys = {offer1}
  OfferParent <- MCNoParent
  Requests = {r1}
  RequestKey <- MCRequestKey
  Unlucky = {}
  Perishable = {offer1}
  Acceptors = {a1}
  Sweepers = {s1, s2}
  Handlers = {}
  Disputes = {}
  MaxCrashes = 1
  Legs = {l1}
  Drivers = {driver1}
  Vehicles = {vehicle1}
  CheckIns = {k1}
  Dispatchers = {c1, c2}
  Duty <- MCDuty
  Sweeping = {w1}
  Members = {b1, b2}
  Weight <- MCWeight
  MaxWeight = 2
  Units = {u1}
  Planners = {c1}
  CutoffSweepers = {w1, w2}
  MaxMoves = 7
PROPERTIES
  NeitherLostNorRepeated MessagesArrive HoldsGivenBack LateIsNoticed
CHECK_DEADLOCK FALSE
