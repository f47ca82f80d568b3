SPECIFICATION EscrowSpec
CONSTANTS
  k1 = k1 k2 = k2 k3 = k3 r1 = r1 r2 = r2 r3 = r3 r4 = r4 a1 = a1 a2 = a2
  None = None
  Keys = {k1, k2, k3}
  OfferParent <- MCParent
  Requests = {r1, r2, r3, r4}
  RequestKey <- MCRequestKey
  Unlucky = {r3}
  Perishable = {k1}
  Acceptors = {a1, a2}
  Sweepers = {s1}
  Handlers = {}
  Disputes = {}
  MaxCrashes = 1
INVARIANTS OneWinner HoldsAccounted
SYMMETRY MCSymmetry
CHECK_DEADLOCK FALSE
