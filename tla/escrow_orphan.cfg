SPECIFICATION EscrowSpec
CONSTANTS
  k1 = k1 k2 = k2 k3 = k3 r1 = r1 r2 = r2 r3 = r3 r4 = r4 a1 = a1 a2 = a2
  None = None
  Keys = {k1, k3}
  OfferParent <- MCNoParent
  Requests = {r1, r4}
  RequestKey <- MCRequestKey2
  Unlucky = {}
  Perishable = {}
  Acceptors = {a1}
  Sweepers = {s1}
  Handlers = {}
  Disputes = {}
  MaxCrashes = 0
INVARIANTS TerminalHoldsQueued
CHECK_DEADLOCK FALSE
