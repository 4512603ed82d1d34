----------------------------- MODULE Inventory ------------------------------
(***************************************************************************)
(* The inventory service: the stock ledger (inventory), the reservations   *)
(* of checkout order lines (inventory_reservations), the operations        *)
(* reserve, release and consume, and the reaper of expired holds.  Every   *)
(* operation is one database transaction and so one action; a request that *)
(* is refused (lease lost, out of stock, conflict, not found) rolls back   *)
(* and changes nothing.                                                    *)
(*                                                                         *)
(* The checkout service names its reservations after the request and the   *)
(* order line, so a line stands for its reservation id, and its request,   *)
(* quantity and SKU are constants.  A generation is a checkout lease       *)
(* token: reclaiming a checkout attempt issues the next one.               *)
(***************************************************************************)
EXTENDS Naturals, FiniteSets

CONSTANTS
    Requests,        \* checkout requests
    Lines,           \* order lines, which are reservation ids
    RequestOf,       \* the request of a line
    Quantity,        \* the quantity of a line
    MaxQuantity,     \* bound on the quantities
    Stocks,          \* inventory rows (variant at a location), in location order
    Offers,          \* the inventory rows of the line's SKU
    InitialOnHand,   \* on_hand_quantity after seeding
    MaxGeneration    \* bound: lease tokens of one request

ASSUME InventoryAssumption ==
    /\ IsFiniteSet(Lines)
    /\ Stocks \subseteq Nat \ {0}
    /\ RequestOf \in [Lines -> Requests]
    /\ MaxQuantity \in Nat
    /\ Quantity \in [Lines -> 1..MaxQuantity]
    /\ Offers \in [Lines -> SUBSET Stocks]
    /\ InitialOnHand \in [Stocks -> Nat]
    /\ MaxGeneration \in Nat

VARIABLES
    onHand,     \* on_hand_quantity
    reserved,   \* reserved_quantity
    hold,       \* inventory_reservations, by line
    fence       \* the checkout attempt's current generation and whether it is open

vars == <<onHand, reserved, hold, fence>>

HoldStatuses == {"absent", "reserved", "released", "consumed"}
NoStock == 0
Generations == 0..MaxGeneration

Holds == [status : HoldStatuses, stock : Stocks \cup {NoStock},
          generation : Generations, expired : BOOLEAN]
Fences == [generation : Generations, open : BOOLEAN]

Init ==
    /\ onHand = InitialOnHand
    /\ reserved = [s \in Stocks |-> 0]
    /\ hold = [l \in Lines |-> [status |-> "absent", stock |-> NoStock,
                                generation |-> 0, expired |-> FALSE]]
    /\ fence = [q \in Requests |-> [generation |-> 0, open |-> TRUE]]

-----------------------------------------------------------------------------
\* The single units of a set of lines; their number is the lines' quantity.
Units(ls) == {u \in ls \X (1..MaxQuantity) : u[2] <= Quantity[u[1]]}
Total(ls) == Cardinality(Units(ls))

LinesAt(s, status) == {l \in Lines : hold[l].status = status /\ hold[l].stock = s}

\* available_quantity, a generated column.
Available(s) == onHand[s] - reserved[s]

\* Mutant: the fence test without its token comparison.
HoldsFenceAnyToken(q, g) == fence[q].open

\* lock_current_checkout_fence: the caller's token is the attempt's current
\* one and the attempt is started and unexpired, failed, or pending with a
\* running reconciliation.
HoldsFence(q, g) == fence[q].open /\ fence[q].generation = g

\* The candidate query: enough available stock, lowest location code first.
CanReserve(l, s) ==
    /\ s \in Offers[l]
    /\ Available(s) >= Quantity[l]
    /\ \A t \in Offers[l] : Available(t) >= Quantity[l] => s <= t

Held(s, g) == [status |-> "reserved", stock |-> s, generation |-> g, expired |-> FALSE]

Freed(s, g) == [status |-> "released", stock |-> s, generation |-> g, expired |-> FALSE]

(* reserve, no row yet: pick the stock and insert the reservation. *)
ReserveNew(l, g, s) ==
    /\ HoldsFence(RequestOf[l], g)
    /\ hold[l].status = "absent"
    /\ CanReserve(l, s)
    /\ reserved' = [reserved EXCEPT ![s] = @ + Quantity[l]]
    /\ hold' = [hold EXCEPT ![l] = Held(s, g)]
    /\ UNCHANGED <<onHand, fence>>

(* reserve, released row: take the same stock again if it is available. *)
ReserveReleased(l, g) ==
    LET s == hold[l].stock
    IN  /\ HoldsFence(RequestOf[l], g)
        /\ hold[l].status = "released"
        /\ Available(s) >= Quantity[l]
        /\ reserved' = [reserved EXCEPT ![s] = @ + Quantity[l]]
        /\ hold' = [hold EXCEPT ![l] = Held(s, g)]
        /\ UNCHANGED <<onHand, fence>>

(* reserve, reserved row: renew it if it expired or changes generation.    *)
(* (A consumed row is reported as already_consumed and left alone.)        *)
ReserveAgain(l, g) ==
    /\ HoldsFence(RequestOf[l], g)
    /\ hold[l].status = "reserved"
    /\ hold[l].expired \/ hold[l].generation # g
    /\ hold' = [hold EXCEPT ![l] = Held(hold[l].stock, g)]
    /\ UNCHANGED <<onHand, reserved, fence>>

\* Mutant: a released row is released once more.
ReleasableAgain(l) == hold[l].status \in {"reserved", "released"}

\* A released row answers already_released, a consumed one is a conflict.
Releasable(l) == hold[l].status = "reserved"

\* Mutant: release without the status test and without the ledger test.
ReleaseBlindly(l, g) ==
    /\ HoldsFence(RequestOf[l], g)
    /\ hold[l].status # "absent"
    /\ reserved' = [reserved EXCEPT ![hold[l].stock] = @ - Quantity[l]]
    /\ hold' = [hold EXCEPT ![l] = Freed(hold[l].stock, g)]
    /\ UNCHANGED <<onHand, fence>>

(* release: give the units back; the row is rebound to the caller's generation. *)
Release(l, g) ==
    LET s == hold[l].stock
    IN  /\ HoldsFence(RequestOf[l], g)
        /\ Releasable(l)
        /\ reserved[s] >= Quantity[l]
        /\ reserved' = [reserved EXCEPT ![s] = @ - Quantity[l]]
        /\ hold' = [hold EXCEPT ![l] = Freed(s, g)]
        /\ UNCHANGED <<onHand, fence>>

-----------------------------------------------------------------------------
LinesOf(q) == {l \in Lines : RequestOf[l] = q}

\* Mutant: released rows are consumed without taking their stock again.
RecoverableUnchecked(q, s) == TRUE

\* Released rows must take their units again before they are consumed.
Recoverable(q, s) == Total(LinesOf(q) \cap LinesAt(s, "released")) <= Available(s)

\* Mutants: only the lines at the first location are consumed; lines already
\* consumed are consumed again.
ToConsumeOne(q) ==
    LET pending == {l \in LinesOf(q) : hold[l].status # "consumed"}
    IN  {l \in pending : \A k \in pending : hold[l].stock <= hold[k].stock}

ToConsumeAgain(q) == LinesOf(q)

\* Lines already consumed are skipped.
ToConsume(q) == {l \in LinesOf(q) : hold[l].status # "consumed"}

(* consume: all lines of the request, all or nothing.  The code goes       *)
(* through the rows one by one; the sums below are the effect of the loop, *)
(* because consuming a reserved row does not change what is available.     *)
Consume(q, g) ==
    /\ HoldsFence(q, g)
    /\ \A l \in LinesOf(q) : hold[l].status # "absent"
    /\ ToConsume(q) # {}
    /\ \A s \in Stocks : Recoverable(q, s)
    /\ LET taken(s) == {l \in ToConsume(q) : hold[l].stock = s}
           unreserved(s) == {l \in taken(s) : hold[l].status = "reserved"}
       IN  /\ \A s \in Stocks : /\ onHand[s] >= Total(taken(s))
                                /\ reserved[s] >= Total(unreserved(s))
           /\ onHand' = [s \in Stocks |-> onHand[s] - Total(taken(s))]
           /\ reserved' = [s \in Stocks |-> reserved[s] - Total(unreserved(s))]
    /\ hold' = [l \in Lines |->
                  IF l \in ToConsume(q)
                  THEN [status |-> "consumed", stock |-> hold[l].stock,
                        generation |-> g, expired |-> FALSE]
                  ELSE hold[l]]
    /\ UNCHANGED fence

Expired == {l \in Lines : hold[l].status = "reserved" /\ hold[l].expired}

\* Mutant: the reaper waits for the checkout attempt to end.
ReapClosed(ls) ==
    /\ ls # {}
    /\ \A l \in ls : ~fence[RequestOf[l]].open
    /\ reserved' = [s \in Stocks |-> reserved[s] - Total({l \in ls : hold[l].stock = s})]
    /\ hold' = [l \in Lines |->
                  IF l \in ls THEN Freed(hold[l].stock, hold[l].generation) ELSE hold[l]]
    /\ UNCHANGED <<onHand, fence>>

(* reap_expired_reservations: a batch of expired holds (rows another       *)
(* transaction has locked are skipped), without any fence.                 *)
Reap(ls) ==
    /\ ls # {}
    /\ \A s \in Stocks : reserved[s] >= Total({l \in ls : hold[l].stock = s})
    /\ reserved' = [s \in Stocks |-> reserved[s] - Total({l \in ls : hold[l].stock = s})]
    /\ hold' = [l \in Lines |->
                  IF l \in ls
                  THEN Freed(hold[l].stock, hold[l].generation)
                  ELSE hold[l]]
    /\ UNCHANGED <<onHand, fence>>

(* RESERVATION_HOLD passes. *)
HoldExpires(l) ==
    /\ hold[l].status = "reserved"
    /\ ~hold[l].expired
    /\ hold' = [hold EXCEPT ![l] = [@ EXCEPT !.expired = TRUE]]
    /\ UNCHANGED <<onHand, reserved, fence>>

-----------------------------------------------------------------------------
(* The checkout service moves its attempt: the lease expires or the attempt *)
(* ends, a reconciliation reopens it, a retry reclaims it.                  *)
FenceCloses(q) ==
    /\ fence[q].open
    /\ fence' = [fence EXCEPT ![q].open = FALSE]
    /\ UNCHANGED <<onHand, reserved, hold>>

FenceReopens(q) ==
    /\ ~fence[q].open
    /\ fence' = [fence EXCEPT ![q].open = TRUE]
    /\ UNCHANGED <<onHand, reserved, hold>>

FenceReclaimed(q) ==
    /\ fence[q].generation < MaxGeneration
    /\ fence' = [fence EXCEPT ![q] = [generation |-> @.generation + 1, open |-> TRUE]]
    /\ UNCHANGED <<onHand, reserved, hold>>

Operation(l, g) ==
    \/ \E s \in Stocks : ReserveNew(l, g, s)
    \/ ReserveReleased(l, g)
    \/ ReserveAgain(l, g)
    \/ Release(l, g)

Next ==
    \/ \E l \in Lines, g \in Generations : Operation(l, g)
    \/ \E q \in Requests, g \in Generations : Consume(q, g)
    \/ \E ls \in SUBSET Expired : Reap(ls)
    \/ \E l \in Lines : HoldExpires(l)
    \/ \E q \in Requests : FenceCloses(q) \/ FenceReopens(q) \/ FenceReclaimed(q)

Spec == Init /\ [][Next]_vars

(* The reaper runs every second and takes the oldest expired holds first. *)
Fairness == \A l \in Lines : WF_vars(\E ls \in SUBSET Expired : l \in ls /\ Reap(ls))

FairSpec == Spec /\ Fairness

-----------------------------------------------------------------------------
(* Statuses, generations and quantities in range. *)
TypeOK ==
    /\ onHand \in [Stocks -> Nat]
    /\ reserved \in [Stocks -> Nat]
    /\ hold \in [Lines -> Holds]
    /\ fence \in [Requests -> Fences]

(* reserved_quantity is exactly the sum of the holds that reserve it:       *)
(* reserve, release, consume, reuse and the reaper count every unit once,   *)
(* so "inventory reservation ledger is inconsistent" is never reported.     *)
LedgerBalances == \A s \in Stocks : reserved[s] = Total(LinesAt(s, "reserved"))

(* Units are neither lost nor sold twice: what is on hand and what was      *)
(* consumed add up to the seeded stock.                                     *)
StockConserved == \A s \in Stocks : onHand[s] + Total(LinesAt(s, "consumed")) = InitialOnHand[s]

(* No oversell: never more reserved than on hand.                           *)
NoOversell == \A s \in Stocks : reserved[s] <= onHand[s]

(* An order's lines are consumed together or not at all, also when single   *)
(* holds were reaped in between.                                            *)
ConsumedTogether ==
    \A q \in Requests :
        \/ \A l \in LinesOf(q) : hold[l].status = "consumed"
        \/ \A l \in LinesOf(q) : hold[l].status # "consumed"

(* Every seeded unit is counted exactly once, as free, held or consumed,    *)
(* and goes out with its whole order, in any interleaving of competing      *)
(* orders, expiries, the reaper, reused holds and repeated consumes.        *)
StockIsSound == LedgerBalances /\ StockConserved /\ NoOversell /\ ConsumedTogether

(* A stale generation changes no reservation: apart from the clock and the  *)
(* reaper, which only ends expired holds, a changed row belongs to the      *)
(* current generation of an open checkout attempt.  A consumed row never    *)
(* changes again.                                                           *)
OnlyCurrentGenerationWrites ==
    [][\A l \in Lines :
         hold'[l] # hold[l] =>
            /\ hold[l].status # "consumed"
            /\ \/ fence[RequestOf[l]] = [generation |-> hold'[l].generation, open |-> TRUE]
               \/ hold[l].expired /\ hold'[l].status = "released"
               \/ hold'[l] = [hold[l] EXCEPT !.expired = TRUE]]_vars

(* An abandoned hold ends: the reaper or its owner takes every expired row. *)
ExpiredHoldsEnd == \A l \in Lines : l \in Expired ~> l \notin Expired
=============================================================================
