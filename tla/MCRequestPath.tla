--------------------------- MODULE MCRequestPath ----------------------------
(***************************************************************************)
(* Six parts of the path of a request that share no state: the inventory,  *)
(* the context a request carries, quotes, carts, the gateway, and the      *)
(* verification of the trace a request leaves.  A behaviour picks one part *)
(* and takes only its steps, so the reachable states are the sum of the    *)
(* parts' states and not their product.                                    *)
(***************************************************************************)
EXTENDS Inventory, MCPropagation, Quoting, Carts, Gateway, TraceVerify, TLC

CONSTANTS q1, q2, a1, a2, b1, c1, c2

VARIABLE part

requestVars == <<part, vars, propagationVars, quotingVars, cartVars, gatewayVars, verifyVars>>

-----------------------------------------------------------------------------
(* Inventory: two requests compete for the last units; the first order has *)
(* two lines, of which one can be served by two locations.                 *)
MCRequestOf == (a1 :> q1) @@ (a2 :> q1) @@ (b1 :> q2)
MCQuantity == (a1 :> 2) @@ (a2 :> 3) @@ (b1 :> 2)
MCOffers == (a1 :> {1, 2}) @@ (a2 :> {2}) @@ (b1 :> {1, 2})
MCInitialOnHand == (1 :> 2) @@ (2 :> 4)

(* Quotes: a checkout that retries, with and without a promotion code, the *)
(* storefront, an unknown SKU, an empty quantity and too many items.  The  *)
(* two SKUs have the same hash: 31 * 65 + 80 = 31 * 66 + 49.               *)
MCSkuBytes == ("AP" :> <<65, 80>>) @@ ("B1" :> <<66, 49>>) @@ ("z" :> <<122>>)
MCHeadings == (TRUE :> 7) @@ (FALSE :> 5)
MCItem(sku, quantity) == [sku |-> sku, quantity |-> quantity]
MCQuote(door, retry, code, items) ==
    [door |-> door, retry |-> retry, code |-> code, items |-> items, text |-> TRUE]
MCQuoteRequests ==
    {MCQuote("checkout", 1, TRUE, <<MCItem("AP", 1), MCItem("B1", 2)>>),
     MCQuote("checkout", 0, TRUE, <<MCItem("AP", 3)>>),
     MCQuote("checkout", 0, TRUE, <<MCItem("B1", 3)>>),
     MCQuote("storefront", 0, TRUE, <<MCItem("AP", 1), MCItem("B1", 1)>>),
     MCQuote("storefront", 0, FALSE, <<MCItem("AP", 1), MCItem("z", 1)>>),
     MCQuote("checkout", 0, FALSE, <<MCItem("B1", 0)>>),
     MCQuote("storefront", 0, FALSE, <<MCItem("AP", 1), MCItem("B1", 1), MCItem("z", 1)>>)}
MCPriceBooks == <<("AP" :> 1) @@ ("B1" :> 7), ("AP" :> 9) @@ ("B1" :> 0)>>
MCTerms(kind, value, scope, minimum, max) ==
    [active |-> TRUE, kind |-> kind, value |-> value, scope |-> scope, minimum |-> minimum,
     max |-> max, redeemed |-> 0]
MCPromotions ==
    {MCTerms("percentage", 50, {"AP"}, 0, 1), MCTerms("fixed", 8, {"B1"}, 0, 1),
     MCTerms("percentage", 100, {"AP", "B1"}, 15, 0)}

(* Gateway: one client tries every operation, with and without a session,  *)
(* by GraphQL and by REST; the other asks for quotes.                      *)
MCAsk(operation, flaw, keyed, rest) ==
    [of |-> operation, flaw |-> flaw, keyed |-> keyed, session |-> ~rest, rest |-> rest]
MCAsks ==
    [c \in Clients |->
       IF c = c1
       THEN {MCAsk(o, "none", TRUE, FALSE) :
               o \in {catalog_product, catalog_products, catalog_categories, quote, checkout,
                      fetch_cart, add_cart_item, orders, order, analytics, analytics_summary,
                      record_analytics}}
              \cup {MCAsk(checkout, "payment", TRUE, FALSE), MCAsk(checkout, "none", TRUE, TRUE)}
       ELSE {MCAsk(quote, "none", FALSE, FALSE), MCAsk(quote, "items", FALSE, FALSE)}]

(* Verifier: a run without fault, one fault of each kind, and a delivery   *)
(* that was deferred.                                                      *)
MCFault(kind, at) == [kind |-> kind, at |-> at]
MCFaults ==
    {MCFault("none", None), MCFault("row", None), MCFault("detached", Notification),
     MCFault("baggage", Consumer(2)), MCFault("message", Producer), MCFault("order", Analytics),
     MCFault("unlinked", Consumer(2)), MCFault("carrier", Analytics), MCFault("state", Consumer(1)),
     MCFault("malformed", Analytics), MCFault("detached", Consumer(2)),
     MCFault("message", Notification), MCFault("deferred", Consumer(2))}

-----------------------------------------------------------------------------
RequestInit ==
    /\ part \in {"inventory", "propagation", "quoting", "carts", "gateway", "verify"}
    /\ Init /\ PropagationInit /\ QuotingInit /\ CartsInit /\ GatewayInit /\ VerifyInit

(* Only the part p moves.                                                  *)
Alone(p) ==
    /\ part = p
    /\ UNCHANGED part
    /\ p # "inventory" => UNCHANGED vars
    /\ p # "propagation" => UNCHANGED propagationVars
    /\ p # "quoting" => UNCHANGED quotingVars
    /\ p # "carts" => UNCHANGED cartVars
    /\ p # "gateway" => UNCHANGED gatewayVars
    /\ p # "verify" => UNCHANGED verifyVars

RequestNext ==
    \/ Alone("inventory") /\ Next
    \/ Alone("propagation") /\ PropagationNext
    \/ Alone("quoting") /\ QuotingNext
    \/ Alone("carts") /\ CartsNext
    \/ Alone("gateway") /\ GatewayNext
    \/ Alone("verify") /\ VerifyNext

(* The reaper of expired holds, as in module Inventory.                    *)
RequestFairness ==
    \A l \in Lines :
        WF_requestVars(Alone("inventory") /\ \E ls \in SUBSET Expired : l \in ls /\ Reap(ls))

RequestSpec == RequestInit /\ [][RequestNext]_requestVars /\ RequestFairness
=============================================================================
