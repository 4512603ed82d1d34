------------------------------ MODULE Quoting -------------------------------
(***************************************************************************)
(* A quote from the pricing service to the order it ends in.  Pricing      *)
(* prices a request, takes the promotion off and keeps the quote in Redis; *)
(* the storefront shows it, checkout turns it into an order, and the       *)
(* promotion is redeemed when the order is finalized, after the capture.   *)
(* How the saga gets from the pending order to the capture is module       *)
(* Checkout; concurrent price changes are module PriceJournal.             *)
(*                                                                         *)
(* All requests are of one tenant, customer and currency.  A reply of      *)
(* pricing is a quote or the code of a gRPC status.                        *)
(***************************************************************************)
EXTENDS Integers, Sequences, FiniteSetsExt

CONSTANTS
    Buyers,         \* callers of pricing: checkouts and the storefront
    QuoteRequests,  \* what they ask for
    PriceBooks,     \* the default prices, before and after a change
    Promotions,     \* what the promotions table may hold
    SkuBytes,       \* the bytes of a SKU
    Headings,       \* the hash of the fields before the items, with and without the code
    HashModulus,    \* 2^64
    AmountLimit,    \* i32::MAX
    ItemsLimit,     \* MAX_ITEMS
    QuantityLimit   \* MAX_QUANTITY

NoPromotion == [active |-> FALSE, kind |-> "none", value |-> 0, scope |-> {},
                minimum |-> 0, max |-> 0, redeemed |-> 0]

(* The types of a request, and what the checks of the tables prices and    *)
(* promotions say of their rows.                                           *)
ASSUME QuotingAssumption ==
    /\ IsFiniteSet(Buyers)
    /\ QuantityLimit \in Nat
    /\ \A r \in QuoteRequests :
          r.code \in BOOLEAN /\ r.items \in Seq([sku : STRING, quantity : Int])
    /\ Len(PriceBooks) \in Nat \ {0}
    /\ \A n \in 1..Len(PriceBooks) : \A sku \in DOMAIN PriceBooks[n] : PriceBooks[n][sku] \in Nat
    /\ \A p \in Promotions :
          /\ DOMAIN p = DOMAIN NoPromotion
          /\ p.kind \in {"percentage", "fixed"} /\ p.value \in Nat
          /\ p.max \in Nat /\ p.redeemed \in Nat
          /\ p.max > 0 => p.redeemed <= p.max

VARIABLES
    promotion,  \* the row of the code the buyers use; max 0 is no limit
    book,       \* how many price changes there were: the pricing version
    shelf,      \* quotes in Redis, by cache key
    buyer       \* the calls

quotingVars == <<promotion, book, shelf, buyer>>

IsQuote(reply) == "grand" \in DOMAIN reply
Status(code) == [status |-> code]

QuotingInit ==
    /\ promotion = NoPromotion
    /\ book = 1
    /\ shelf = [k \in {} |-> Status("none")]
    /\ buyer = [b \in Buyers |-> [pc |-> "idle"]]

-----------------------------------------------------------------------------
(* The pricing service. *)

(* text stands for the checks on identifiers, currency and context.        *)
validate_request(r) ==
    /\ r.text
    /\ r.items # <<>>
    /\ Len(r.items) <= ItemsLimit
    /\ \A i \in DOMAIN r.items : r.items[i].quantity \in 1..QuantityLimit
    /\ \A i, j \in DOMAIN r.items : r.items[i].sku = r.items[j].sku => i = j

(* The bytes of a number, and of an item: a bar, its SKU, a colon, its      *)
(* quantity.                                                               *)
Decimal[n \in Nat] == IF n < 10 THEN <<48 + n>> ELSE Append(Decimal[n \div 10], 48 + (n % 10))
ItemText(item) == <<124>> \o SkuBytes[item.sku] \o <<58>> \o Decimal[item.quantity]

(* The wrapping fold of some bytes onto a hash.                            *)
HashOf(start, bytes) ==
    LET hash[i \in 0..Len(bytes)] ==
          IF i = 0 THEN start ELSE (31 * hash[i - 1] + bytes[i]) % HashModulus
    IN  hash[Len(bytes)]

(* The hash of the text of a request, given the texts of its items.        *)
TextHash(code, texts) ==
    LET hash[i \in 0..Len(texts)] ==
          IF i = 0 THEN Headings[code] ELSE HashOf(hash[i - 1], texts[i])
    IN  hash[Len(texts)]

\* Mutant: the quantities are left out of the fingerprint.
FingerprintOfSkus(r) ==
    TextHash(r.code, [i \in DOMAIN r.items |-> <<124>> \o SkuBytes[r.items[i].sku]])

(* Without the request id.  Nothing keeps two requests apart whose texts   *)
(* have the same hash: SKUs that end in AP and in B1 are enough.           *)
stable_request_fingerprint(r) ==
    TextHash(r.code, [i \in DOMAIN r.items |-> ItemText(r.items[i])])

(* One collision is left out: of a request with the code and one without   *)
(* it, for the same items.  Their texts differ in the heading, and 31 is   *)
(* odd, so the whole 64 bits of it would have to agree.                    *)
ASSUME CodeAssumption ==
    \A r, s \in QuoteRequests :
      /\ validate_request(r) /\ validate_request(s)
      /\ \A i \in DOMAIN r.items : \E j \in DOMAIN s.items : s.items[j] = r.items[i]
      /\ stable_request_fingerprint(r) = stable_request_fingerprint(s)
      => r.code = s.code

(* Rounded up, so that a quote with a millisecond left is not zero seconds. *)
remaining_validity_seconds(q) == (q.left + 999) \div 1000

(* The sum of the totals of some lines is the number of their minor units: *)
(* the amounts are not negative.                                           *)
MinorUnits(lines, at) == UNION {{i} \X (1..lines[i].total) : i \in at}
SumOf(lines, at) == Cardinality(MinorUnits(lines, at))

(* The predicate the quote and the redemption share.                       *)
Redeemable(p) == p.active /\ (p.max = 0 \/ p.redeemed < p.max)

promotion_discount(lines, subtotal) ==
    LET scoped   == {i \in DOMAIN lines : lines[i].sku \in promotion.scope}
        eligible == SumOf(lines, scoped)
        raw      == IF promotion.kind = "percentage"
                    THEN (2 * eligible * promotion.value + 100) \div 200
                    ELSE promotion.value
    IN  IF Redeemable(promotion) /\ promotion.minimum <= subtotal
        THEN Min({raw, eligible})
        ELSE 0

(* The transaction is one snapshot of prices, version and promotion.       *)
ComputedQuote(r) ==
    LET prices   == PriceBooks[book]
        lines    == [i \in DOMAIN r.items |->
                       [sku |-> r.items[i].sku, quantity |-> r.items[i].quantity,
                        unit |-> prices[r.items[i].sku],
                        total |-> prices[r.items[i].sku] * r.items[i].quantity]]
        subtotal == SumOf(lines, DOMAIN lines)
        discount == IF r.code THEN promotion_discount(lines, subtotal) ELSE 0
    IN  [lines |-> lines, subtotal |-> subtotal, discount |-> discount, tax |-> 0,
         grand |-> subtotal - discount, version |-> book, left |-> 45000]

Priced(r) == \A i \in DOMAIN r.items : r.items[i].sku \in DOMAIN PriceBooks[book]

Reply(b, reply) == buyer' = [buyer EXCEPT ![b].pc = "reply", ![b].reply = reply]

(* An entry is served while it is valid and of the current version; it may *)
(* still expire before the response is built.                              *)
to_proto(q) == IF remaining_validity_seconds(q) = 0 THEN Status("FailedPrecondition") ELSE q

QuoteHit(b) ==
    /\ buyer[b].pc = "call"
    /\ validate_request(buyer[b].request)
    /\ LET key == stable_request_fingerprint(buyer[b].request)
       IN  /\ key \in DOMAIN shelf
           /\ remaining_validity_seconds(shelf[key]) > 0
           /\ shelf[key].version = book
           /\ \E left \in {shelf[key].left, 0} : Reply(b, to_proto([shelf[key] EXCEPT !.left = left]))
    /\ UNCHANGED <<promotion, book, shelf>>

(* A miss, an unreadable or obsolete entry, Redis away, or the database    *)
(* variant of the flag.  Only the cached variant writes, if Redis is up.   *)
QuoteMiss(b) ==
    /\ buyer[b].pc = "call"
    /\ validate_request(buyer[b].request)
    /\ Priced(buyer[b].request)
    /\ LET key == stable_request_fingerprint(buyer[b].request)
           q   == ComputedQuote(buyer[b].request)
       IN  /\ Reply(b, to_proto(q))
           /\ shelf' \in {shelf, [k \in DOMAIN shelf \cup {key} |-> IF k = key THEN q ELSE shelf[k]]}
    /\ UNCHANGED <<promotion, book>>

QuoteRefused(b) ==
    /\ buyer[b].pc = "call"
    /\ \/ ~validate_request(buyer[b].request) /\ Reply(b, Status("InvalidArgument"))
       \/ /\ validate_request(buyer[b].request)
          /\ ~Priced(buyer[b].request)
          /\ Reply(b, Status("NotFound"))
    /\ UNCHANGED <<promotion, book, shelf>>

(* The injected fault, or the database or its pool; or the client's clock. *)
PricingDown(b) ==
    /\ buyer[b].pc = "call"
    /\ \E code \in {"Unavailable", "DeadlineExceeded"} : Reply(b, Status(code))
    /\ UNCHANGED <<promotion, book, shelf>>

-----------------------------------------------------------------------------
(* What the callers make of a reply. *)

i32_amount(amount) == amount <= AmountLimit

FitsOrder(q) ==
    /\ \A i \in DOMAIN q.lines : i32_amount(q.lines[i].unit) /\ i32_amount(q.lines[i].total)
    /\ i32_amount(q.subtotal)

(* quote_money: an amount is present, in the currency and not negative.    *)
QuoteBalances(q) ==
    /\ remaining_validity_seconds(q) > 0
    /\ \A i \in DOMAIN q.lines : /\ q.lines[i].unit >= 0
                                 /\ q.lines[i].total = q.lines[i].unit * q.lines[i].quantity
    /\ q.subtotal = SumOf(q.lines, DOMAIN q.lines)
    /\ q.discount \in 0..q.subtotal
    /\ q.grand = q.subtotal - q.discount + q.tax

validate_quote_response(r, q) ==
    /\ QuoteBalances(q)
    /\ Len(q.lines) = Len(r.items)
    /\ \A i \in DOMAIN q.lines : \E j \in DOMAIN r.items :
          r.items[j] = [sku |-> q.lines[i].sku, quantity |-> q.lines[i].quantity]
    /\ FitsOrder(q)

(* The storefront does not compare the lines with its request.             *)
try_from_proto(q) == q.lines # <<>> /\ QuoteBalances(q)

pricing_error(status) ==
    CASE status = "InvalidArgument"  -> 400
      [] status = "NotFound"         -> 404
      [] status = "DeadlineExceeded" -> 504
      [] status = "Unavailable"      -> 503
      [] OTHER                       -> 502

Over(how) == [pc |-> how]

Ask(b) ==
    /\ buyer[b].pc = "idle"
    /\ \E r \in QuoteRequests :
          buyer' = [buyer EXCEPT ![b] = [pc |-> "call", request |-> r, tries |-> 1,
                                          reply |-> Status("none")]]
    /\ UNCHANGED <<promotion, book, shelf>>

(* quote_with_retry: at most three more calls, after 503 and 504 only.     *)
RetryQuote(b) ==
    /\ buyer[b].pc = "reply"
    /\ ~IsQuote(buyer[b].reply)
    /\ LET again == /\ buyer[b].request.door = "checkout"
                    /\ pricing_error(buyer[b].reply.status) \in {503, 504}
                    /\ buyer[b].tries <= Min({buyer[b].request.retry, 3})
       IN  buyer' = IF again THEN [buyer EXCEPT ![b].pc = "call", ![b].tries = @ + 1]
                             ELSE [buyer EXCEPT ![b] = Over("failed")]
    /\ UNCHANGED <<promotion, book, shelf>>

ShowQuote(b) ==
    /\ buyer[b].pc = "reply"
    /\ IsQuote(buyer[b].reply)
    /\ buyer[b].request.door = "storefront"
    /\ buyer' = [buyer EXCEPT ![b] = Over(IF try_from_proto(@.reply) THEN "shown" ELSE "failed")]
    /\ UNCHANGED <<promotion, book, shelf>>

(* create_pending_order checks the quote once more and stores its amounts. *)
PlaceOrder(b) ==
    /\ buyer[b].pc = "reply"
    /\ IsQuote(buyer[b].reply)
    /\ buyer[b].request.door = "checkout"
    /\ buyer' = [buyer EXCEPT ![b] =
                   IF validate_quote_response(@.request, @.reply)
                   THEN [pc |-> "pending", code |-> @.request.code, discount |-> @.reply.discount]
                   ELSE Over("failed")]
    /\ UNCHANGED <<promotion, book, shelf>>

(* The payment is captured and the stock consumed: module Checkout.        *)
CaptureOrder(b) ==
    /\ buyer[b].pc = "pending"
    /\ buyer' = [buyer EXCEPT ![b].pc = "captured"]
    /\ UNCHANGED <<promotion, book, shelf>>

\* Mutant: the redemption does not look at max_redemptions.
RedeemAlways(b) == promotion.active

RedeemPromotion(b) == Redeemable(promotion)

(* finalize_order redeems the code of the order, whatever its discount; if *)
(* it cannot, the transaction rolls back and the worker tries again.       *)
FinalizeQuoted(b) ==
    /\ buyer[b].pc = "captured"
    /\ buyer[b].code => RedeemPromotion(b)
    /\ promotion' = [promotion EXCEPT !.redeemed = IF buyer[b].code THEN @ + 1 ELSE @]
    /\ buyer' = [buyer EXCEPT ![b].pc = "paid"]
    /\ UNCHANGED <<book, shelf>>

-----------------------------------------------------------------------------
(* The rest of the world. *)

PublishPromotion ==
    /\ promotion = NoPromotion
    /\ \E p \in Promotions : promotion' = p
    /\ UNCHANGED <<book, shelf, buyer>>

EndPromotion ==
    /\ promotion.active
    /\ promotion' = [promotion EXCEPT !.active = FALSE]
    /\ UNCHANGED <<book, shelf, buyer>>

ChangePrices ==
    /\ book < Len(PriceBooks)
    /\ book' = book + 1
    /\ UNCHANGED <<promotion, shelf, buyer>>

(* Time passes for an entry: to its last millisecond, then beyond.         *)
AgeQuote(key) ==
    /\ shelf[key].left > 0
    /\ shelf' = [shelf EXCEPT ![key].left = IF @ > 1 THEN 1 ELSE 0]
    /\ UNCHANGED <<promotion, book, buyer>>

QuotingNext ==
    \/ \E b \in Buyers :
          \/ Ask(b) \/ QuoteHit(b) \/ QuoteMiss(b) \/ QuoteRefused(b) \/ PricingDown(b)
          \/ RetryQuote(b) \/ ShowQuote(b) \/ PlaceOrder(b) \/ CaptureOrder(b) \/ FinalizeQuoted(b)
    \/ PublishPromotion
    \/ EndPromotion
    \/ ChangePrices
    \/ \E key \in DOMAIN shelf : AgeQuote(key)

QuotingSpec == QuotingInit /\ [][QuotingNext]_quotingVars

-----------------------------------------------------------------------------
\* The texts of two requests have the same hash.
HashAlike(r, s) ==
    LET texts(x) == [i \in DOMAIN x.items |-> ItemText(x.items[i])]
    IN  TextHash(r.code, texts(r)) = TextHash(s.code, texts(s))

(* Pricing and its two clients agree about what a quote is: whatever mix   *)
(* of lines, discounts and cached entries a reply comes from, the          *)
(* storefront accepts it.  It is a quote for the buyer's request, or for   *)
(* one whose text has the same hash, and a checkout with that request      *)
(* accepts it unless an amount is beyond the order's integer columns.      *)
QuotesAreAccepted ==
    \A b \in Buyers :
      buyer[b].pc = "reply" /\ IsQuote(buyer[b].reply) =>
        LET q == buyer[b].reply
        IN  /\ try_from_proto(q)
            /\ \E r \in QuoteRequests :
                 /\ validate_request(r) /\ HashAlike(r, buyer[b].request)
                 /\ validate_quote_response(r, q) <=> FitsOrder(q)

(* Many buyers may hold quotes for the last redemption, fresh or cached:   *)
(* of the discounted orders no more get paid than the promotion allows.    *)
DiscountsWithinBudget ==
    LET discounted == {b \in Buyers : buyer[b].pc = "paid" /\ buyer[b].discount > 0}
    IN  promotion.max > 0 => Cardinality(discounted) <= promotion.max

(* What the cache key should give and does not: a reply is a quote for     *)
(* the buyer's own request.                                                *)
QuotesAreOwn ==
    \A b \in Buyers :
      buyer[b].pc = "reply" /\ IsQuote(buyer[b].reply) =>
        (validate_quote_response(buyer[b].request, buyer[b].reply) <=> FitsOrder(buyer[b].reply))
=============================================================================
