SPECIFICATION FairSpec
CONSTANTS
  i1 = i1 i2 = i2 o1 = o1 o2 = o2 l1 = l1 l2 = l2 l3 = l3 v1 = v1 v2 = v2
  f1 = f1 f2 = f2 k1 = k1 k2 = k2 r1 = r1 None = None
  Items <- MCItems
  Orders <- MCOrders
  Lines <- MCLines
  Vendors <- MCVendors
  LineOrder <- MCLineOrder
  LineItem <- MCLineItem
  LineVendor <- MCLineVendor
  LineQty <- MCLineQty
  MaxQty = 2
  InitialStock <- MCInitialStock
  Sweepers = {w1, w2}
  BatchSize = 1
  Returnable = {l1}
  MaxCrashes = 1
  Feeds = {}
  FeedKey <- MCNothing
  FeedItem <- MCNothing
  FeedQty <- MCNothing
  Receipts = {r1}
  ReceiptItem <- MCReceiptItem
  ReceiptQty <- MCReceiptQty
  Pickers = {}
INVARIANTS LedgerHolds
PROPERTIES ExpiredReservationsResolved ImplementsReservations
