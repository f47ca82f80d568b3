SPECIFICATION EscrowSpec
CONSTANTS
  k1 = k1 k2 = k2 k3 = k3 r1 = r1 r2 = r2 r3 = r3 r4 = r4 a1 = a1 a2 = a2
  None = None
  Keys = {k1}
  OfferParent <- MCOneOffer
  Requests = {r1}
  RequestKey <- MCRequestKey1
  Unlucky = {}
  Perishable = {k1}
  Acceptors = {a1}
  Sweepers = {s1, s2}
  Handlers = {h1, h2}
  Disputes = {d1}
  MaxCrashes = 1
INVARIANTS PayoutJustified
CHECK_DEADLOCK FALSE
