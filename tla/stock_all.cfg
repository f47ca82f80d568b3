SPECIFICATION Spec
CONSTANTS
  i1 = i1 i2 = i2 o1 = o1 o2 = o2 l1 = l1 l2 = l2 l3 = l3 v1 = v1 v2 = v2
  f1 = f1 f2 = f2 k1 = k1 k2 = k2 r1 = r1 None = None
  Items <- MCItems
  Orders <- MCOrders
  Lines <- MCLines
  Vendors <- MCVendors
  LineOrder <- MCLineOrder
  LineItem <- MCLineItem
  LineVendor <- MCLineVendor
  LineQty <- MCLineQty
  MaxQty = 2
  InitialStock <- MCInitialStock
  Sweepers = {w1}
  BatchSize = 2
  Returnable = {l1}
  MaxCrashes = 0
  Feeds = {f1}
  FeedKey <- MCFeedKey1
  FeedItem <- MCFeedItem1
  FeedQty <- MCFeedQty1
  Receipts = {}
  ReceiptItem <- MCNothing
  ReceiptQty <- MCNothing
  Pickers = {p1, p2}
SYMMETRY MCPickersAlike
INVARIANTS SoldIsBacked UnitsKept
PROPERTIES MisstatedOnlyInARace
