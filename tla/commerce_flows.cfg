SPECIFICATION Spec
CONSTANTS
  c1 = c1 c2 = c2 editor1 = editor1 l1 = l1 l2 = l2 k1 = k1 k2 = k2 x1 = x1 m1 = m1 m2 = m2
  r1 = r1 r2 = r2 r3 = r3 e1 = e1 e2 = e2 e3 = e3 s1 = s1 s2 = s2 q1 = q1 q2 = q2 q3 = q3
  f1 = f1 f2 = f2 b1 = b1 b2 = b2 o1 = o1 o2 = o2
  a1 = a1 a2 = a2 p1 = p1 p2 = p2 p3 = p3 p4 = p4 i1 = i1 t1 = t1 t2 = t2 None = None
  FreightRequests = {f1, f2}
  Quotes = {q1, q2, q3}
  QuoteRequest <- MCQuoteRequest
  NetTerms = {q1, q2, q3}
  AlreadyQuoted = {q3}
  CreditLimit = 1
  Perishing = {q1}
  FreightCallers = {c1, c2}
  AsnLines = {l1, l2}
  Receipts = {r1, r2, r3}
  ReceiptKey <- MCReceiptKey
  ReceiptLines <- MCReceiptLines
  Putaways = {c1, c2}
  MaxPutaways = 2
  PackageCodes = {k1, k2}
  TrackingKeys = {l1}
  TowerExceptions = {x1}
  Routes = {m1, m2}
  RouteException <- MCRouteException
  Floor = {c1, c2}
  ReturnRequests = {r1, r2, r3}
  ReturnKey <- MCReturnKey
  ReturnQuantity <- MCReturnQuantity
  Ordered = 3
  ReturnClerks = {c1, c2}
  Entries = {e1, e2, e3}
  EntryKey <- MCEntryKey
  ReversalOf <- MCReversalOf
  EntryAmount <- MCEntryAmount
  Settlements = {s1, s2}
  Reserve <- MCReserve
  Accountants = {c1, c2}
  Proposals = {q1, q3}
  NeedsApproval = {q1}
  OverLimit = {q3}
  ItemLines = {l1, l2}
  Quantity <- MCQuantity
  Parcels <- MCParcels
  Sellers = {c1, c2}
  Buyers = {c1, c2}
  Clients = {k1, k2}
  Quantities = {0, 1, 2}
  OnHandAtFirst = 2
  Events = {e1, e2}
  ThirdPartyBills = {b1, b2}
  Managers = {c1, c2}
  CartOffers = {o1, o2}
  CartQuantities = {1}
  CheckoutRequests = {r1, r2, r3}
  PaymentKey <- MCPaymentKey
  Editors = {editor1}
  MaxEdits = 2
  Submissions = {s1, s2}
  SlugOf <- MCSlugOf
  Attributes = {a1, a2}
  GivenAttributes <- MCGivenAttributes
  Offers = {o1, o2}
  OfferOf <- MCOfferOf
  Reviewers = {c1, c2}
  Inputs = {i1}
  Lanes = {p1, p2, p3, p4}
  LaneCapacity <- MCLaneCapacity
  MinimumCapacity = 2
  Score <- MCScore
  LaneOrder <- MCLaneOrder
  Alternatives = 2
  Approvers = {c1, c2}
  Listings = {l1, l2}
  Prohibited = {l2}
  Parties = {p1, p2}
  Moderators = {c1, c2}
  Promotions = {p1, p2}
  PromotionCode <- MCPromotionCode
  PromotionKind <- MCPromotionKind
  PromotionValue <- MCPromotionValue
  MinimumMinor <- MCMinimumMinor
  Subtotals = {3, 10}
  Carts = {t1, t2}
  Shoppers = {c1, c2}
  Kinds = {a1, a2}
  Drawers = {c1, c2, m1}
  MaxNumber = 2
INVARIANTS
  AcceptanceBinds NumbersRunOn NoticePutAway GoodsLeaveInOrder BooksAgree
  HeldForAnOrder AdviceSound OffersSound
PROPERTIES
  LimitsExceededOnlyInARace DecidedUnlessOvertaken
SYMMETRY Symmetric
CHECK_DEADLOCK FALSE
