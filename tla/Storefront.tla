------------------------------ MODULE Storefront ------------------------------
(***************************************************************************)
(* Carts and promotions of one store before a checkout                     *)
(* (CommerceRepository: createCart, createPromotion, promotionDiscount;    *)
(* CommerceService.calculateQuote).                                        *)
(*                                                                         *)
(* A cart is looked for and then created; a promotion is valued when the   *)
(* quote is calculated and not looked at again when the order is placed.   *)
(***************************************************************************)
EXTENDS Integers, FiniteSets, Rows

CONSTANTS
    Promotions,     \* promotions that may be created
    PromotionCode,  \* [Promotions -> code, trimmed and in upper case]
    PromotionKind,  \* [Promotions -> {"PERCENTAGE", "FIXED"}]
    PromotionValue, \* [Promotions -> Nat]: percent or minor units
    MinimumMinor,   \* [Promotions -> Nat]
    Subtotals,      \* subtotals a cart may have, in minor units
    Carts,          \* carts of one customer that may be created
    Shoppers        \* concurrent HTTP requests of the customer

ASSUME StorefrontAssumption ==
    /\ PromotionValue \in [Promotions -> Nat] /\ MinimumMinor \in [Promotions -> Nat]
    /\ \A p \in Promotions : PromotionKind[p] = "PERCENTAGE" => PromotionValue[p] <= 100
    /\ Subtotals \subseteq Nat /\ None \notin Promotions
    /\ PromotionKind \in [Promotions -> {"PERCENTAGE", "FIXED"}]
    /\ IsFiniteSet(Shoppers)

VARIABLES
    promotion,      \* "NONE", "AHEAD", "RUNNING" or "OVER": now, startsAt and endsAt
    activeCarts,    \* carts with status ACTIVE that have not expired
    shopper,        \* what a request has read and goes on to write
    ordered         \* orders: promotion and discount

storefrontVars == <<promotion, activeCarts, shopper, ordered>>

ShopperIdle == [op |-> "idle", promotion |-> None, subtotal |-> 0, discount |-> 0]

StorefrontInit ==
    /\ promotion = [p \in Promotions |-> "NONE"] /\ activeCarts = {}
    /\ shopper = [c \in Shoppers |-> ShopperIdle] /\ ordered = {}

CodeFree(p) ==
    \A other \in Promotions : PromotionCode[other] = PromotionCode[p] => promotion[other] = "NONE"

\* With or without a start; the end comes after it.
CreatePromotion(p, stage) ==
    /\ promotion[p] = "NONE" /\ stage \in {"AHEAD", "RUNNING", "OVER"} /\ CodeFree(p)
    /\ promotion' = [promotion EXCEPT ![p] = stage]
    /\ UNCHANGED <<activeCarts, shopper, ordered>>

\* Time passes startsAt or endsAt.
PromotionTurns(p) ==
    /\ promotion[p] \in {"AHEAD", "RUNNING"}
    /\ promotion' = [promotion EXCEPT ![p] = IF @ = "AHEAD" THEN "RUNNING" ELSE "OVER"]
    /\ UNCHANGED <<activeCarts, shopper, ordered>>

NoCart == activeCarts = {}

CreateCartRead(c) ==
    /\ shopper[c] = ShopperIdle /\ NoCart
    /\ shopper' = [shopper EXCEPT ![c].op = "cart"]
    /\ UNCHANGED <<promotion, activeCarts, ordered>>

CreateCart(c, t) ==
    /\ shopper[c].op = "cart" /\ t \notin activeCarts
    /\ activeCarts' = activeCarts \cup {t}
    /\ shopper' = [shopper EXCEPT ![c] = ShopperIdle]
    /\ UNCHANGED <<promotion, ordered>>

Least(m, n) == IF m < n THEN m ELSE n

\* Percentages are rounded to the nearest unit, a half upwards.
Discount(p, subtotal) ==
    Least(subtotal, IF PromotionKind[p] = "PERCENTAGE"
                      THEN (subtotal * PromotionValue[p] + 50) \div 100
                      ELSE PromotionValue[p])

Available(p) == promotion[p] = "RUNNING"

\* The quote of a checkout.
QuoteDiscount(c, p, subtotal) ==
    /\ activeCarts # {} /\ shopper[c] = ShopperIdle
    /\ Available(p) /\ MinimumMinor[p] <= subtotal
    /\ shopper' = [shopper EXCEPT ![c] = [op |-> "order", promotion |-> p, subtotal |-> subtotal,
                                          discount |-> Discount(p, subtotal)]]
    /\ UNCHANGED <<promotion, activeCarts, ordered>>

\* The order is placed at the quoted discount, and its cart is closed.
OrderDiscounted(c, t) ==
    /\ shopper[c].op = "order" /\ t \in activeCarts
    /\ ordered' = ordered \cup {[promotion |-> shopper[c].promotion,
                                 subtotal |-> shopper[c].subtotal,
                                 discount |-> shopper[c].discount]}
    /\ activeCarts' = activeCarts \ {t}
    /\ shopper' = [shopper EXCEPT ![c] = ShopperIdle]
    /\ UNCHANGED promotion

\* The checkout fails: its cart has been closed or changed.
OrderRefused(c) ==
    /\ shopper[c].op = "order"
    /\ shopper' = [shopper EXCEPT ![c] = ShopperIdle]
    /\ UNCHANGED <<promotion, activeCarts, ordered>>

StorefrontNext ==
    \/ \E p \in Promotions, stage \in {"AHEAD", "RUNNING", "OVER"} : CreatePromotion(p, stage)
    \/ \E p \in Promotions : PromotionTurns(p)
    \/ \E c \in Shoppers : CreateCartRead(c) \/ OrderRefused(c)
    \/ \E c \in Shoppers, t \in Carts : CreateCart(c, t) \/ OrderDiscounted(c, t)
    \/ \E c \in Shoppers, p \in Promotions, subtotal \in Subtotals : QuoteDiscount(c, p, subtotal)

StorefrontSpec == StorefrontInit /\ [][StorefrontNext]_storefrontVars

-----------------------------------------------------------------------------
(***************************************************************************)
(* Properties.                                                             *)
(***************************************************************************)

\* A customer has more than one active cart only if requests for one overlapped
\* (createCart looks first and creates then).
ManyCartsOnlyInARace ==
    Cardinality(activeCarts) + Cardinality({c \in Shoppers : shopper[c].op = "cart"})
       <= Cardinality(Shoppers)

\* A discount is never more than the goods, and a percentage is exact to half a
\* minor unit (promotionDiscount).
DiscountIsSound ==
    \A o \in ordered :
       /\ o.discount \in 0..o.subtotal
       /\ PromotionKind[o.promotion] = "PERCENTAGE" =>
             100 * o.discount - o.subtotal * PromotionValue[o.promotion] \in -49..50

\* A promotion that is over is used only by a checkout that was quoted while it
\* ran (promotionDiscount; checkout does not look at it again).
UsedLateOnlyIfQuoted ==
    [][\A p \in Promotions : promotion[p] = "OVER" =>
          {c \in Shoppers : shopper[c].promotion = p}'
             \subseteq {c \in Shoppers : shopper[c].promotion = p}]_storefrontVars
=============================================================================
