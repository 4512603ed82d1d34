------------------------- MODULE RequestPathProofs --------------------------
(***************************************************************************)
(* Proofs about six parts of the path of a request that share no state,    *)
(* each for every value of its constants: the stock ledger, the identity a *)
(* request carries, quotes and promotions, carts, the gateway, and the     *)
(* verification of the trace a request leaves.                             *)
(***************************************************************************)
EXTENDS Inventory, Propagation, Quoting, Carts, Gateway, TraceVerify,
        FiniteSetTheorems, WellFoundedInduction, TLAPS

-----------------------------------------------------------------------------
(* The stock ledger. The argument counts the single units of sets of order *)
(* lines: sums of quantities are cardinalities, so disjoint sets of lines  *)
(* add up.                                                                 *)

USE InventoryAssumption

(* The units of a set of order lines are finitely many. *)
LEMMA UnitsFinite ==
  ASSUME NEW A \in SUBSET Lines
  PROVE  IsFiniteSet(Units(A))
<1>1. IsFiniteSet(A)
    BY FS_Subset
<1>2. IsFiniteSet(1..MaxQuantity)
    BY FS_Interval
<1>3. IsFiniteSet(A \X (1..MaxQuantity))
    BY <1>1, <1>2, FS_Product
<1>4. Units(A) \subseteq A \X (1..MaxQuantity)
    BY DEF Units
<1>5. QED
    BY <1>3, <1>4, FS_Subset

(* The total quantity of a set of order lines is a natural number. *)
LEMMA TotalNat ==
  ASSUME NEW A \in SUBSET Lines
  PROVE  Total(A) \in Nat
BY UnitsFinite, FS_CardinalityType DEF Total

(* One line counts as its quantity, as reserve and release count it. *)
LEMMA TotalOne ==
  ASSUME NEW l \in Lines
  PROVE  Total({l}) = Quantity[l]
<1> DEFINE f == [i \in 1..Quantity[l] |-> <<l, i>>]
<1>1. Units({l}) = {<<l, i>> : i \in 1..Quantity[l]}
    BY DEF Units
<1>2. f \in Bijection(1..Quantity[l], Units({l}))
    BY <1>1 DEF Bijection, Injection, Surjection, IsInjective
<1>3. QED
    BY <1>2, FS_CountingElements DEF ExistsBijection, Total

(* Disjoint sets of lines add up. *)
LEMMA TotalUnion ==
  ASSUME NEW A \in SUBSET Lines, NEW B \in SUBSET Lines, A \cap B = {}
  PROVE  Total(A \cup B) = Total(A) + Total(B)
<1>1. Units(A \cup B) = Units(A) \cup Units(B)
    BY DEF Units
<1>2. Units(A) \cap Units(B) = {}
    BY DEF Units
<1>3. IsFiniteSet(Units(A)) /\ IsFiniteSet(Units(B))
    BY UnitsFinite
<1>4. Cardinality(Units(A) \cup Units(B)) =
         Cardinality(Units(A)) + Cardinality(Units(B)) - Cardinality(Units(A) \cap Units(B))
    BY <1>3, FS_Union
<1>5. Cardinality(Units(A) \cap Units(B)) = 0
    BY <1>2, FS_EmptySet
<1>6. Cardinality(Units(A)) \in Nat /\ Cardinality(Units(B)) \in Nat
    BY <1>3, FS_CardinalityType
<1>7. Total(A \cup B) = Cardinality(Units(A) \cup Units(B))
    BY <1>1, Zenon DEF Total
<1>8. QED
    BY <1>4, <1>5, <1>6, <1>7 DEF Total

(* Removing lines subtracts their quantity. *)
LEMMA TotalMinus ==
  ASSUME NEW A \in SUBSET Lines, NEW B \in SUBSET A
  PROVE  Total(A) = Total(A \ B) + Total(B)
<1>1. A = (A \ B) \cup B
    OBVIOUS
<1>2. Total((A \ B) \cup B) = Total(A \ B) + Total(B)
    BY TotalUnion
<1>3. QED
    BY <1>1, <1>2

(* No lines, no units. *)
LEMMA TotalEmpty == Total({}) = 0
<1>1. Units({}) = {}
    BY DEF Units
<1>2. QED
    BY <1>1, FS_EmptySet DEF Total

-----------------------------------------------------------------------------
(* A reservation row names the inventory row it took its units from. *)
HoldsHaveStock == \A l \in Lines : hold[l].status # "absent" => hold[l].stock \in Stocks

IInv ==
    /\ TypeOK
    /\ HoldsHaveStock
    /\ LedgerBalances
    /\ StockConserved
    /\ NoOversell

\* The three ledger facts about one inventory row.
RowBalances(s) ==
    /\ reserved[s] = Total(LinesAt(s, "reserved"))
    /\ onHand[s] + Total(LinesAt(s, "consumed")) = InitialOnHand[s]
    /\ reserved[s] <= onHand[s]

(* The seeded stock, with nothing reserved, balances. *)
LEMMA InitIInv == Init => IInv
<1> SUFFICES ASSUME Init PROVE IInv
    OBVIOUS
<1>1. TypeOK /\ HoldsHaveStock
    BY DEF Init, TypeOK, HoldsHaveStock, Holds, Fences, HoldStatuses, Generations, NoStock
<1>2. \A s \in Stocks : LinesAt(s, "reserved") = {} /\ LinesAt(s, "consumed") = {}
    BY DEF Init, LinesAt
<1>3. ASSUME NEW s \in Stocks PROVE RowBalances(s)
  <2>1. Total(LinesAt(s, "reserved")) = 0 /\ Total(LinesAt(s, "consumed")) = 0
    BY <1>2, TotalEmpty
  <2>2. InitialOnHand[s] \in Nat
    OBVIOUS
  <2>3. QED
    BY <2>1, <2>2 DEF Init, RowBalances
<1>4. QED
    BY <1>1, <1>3 DEF IInv, RowBalances, LedgerBalances, StockConserved, NoOversell

(* reserve: one line joins the reserved lines of a stock with room for it. *)
LEMMA TakingBalances ==
  ASSUME IInv, NEW l \in Lines, NEW s \in Stocks, NEW g \in Generations,
         hold[l].status \in {"absent", "released"},
         Available(s) >= Quantity[l],
         reserved' = [reserved EXCEPT ![s] = @ + Quantity[l]],
         hold' = [hold EXCEPT ![l] = Held(s, g)],
         UNCHANGED <<onHand, fence>>
  PROVE  IInv'
<1> USE DEF IInv, TypeOK
<1>1. TypeOK' /\ HoldsHaveStock'
    BY DEF HoldsHaveStock, Holds, HoldStatuses, Held, Generations
<1>2. ASSUME NEW t \in Stocks PROVE RowBalances(t)'
  <2>1. LinesAt(t, "consumed")' = LinesAt(t, "consumed")
    BY DEF LinesAt, Held
  <2>2. CASE t # s
    <3>1. LinesAt(t, "reserved")' = LinesAt(t, "reserved")
      BY <2>2 DEF LinesAt, Held
    <3>2. QED
      BY <2>1, <2>2, <3>1 DEF RowBalances, LedgerBalances, StockConserved, NoOversell
  <2>3. CASE t = s
    <3>1. LinesAt(t, "reserved")' = LinesAt(t, "reserved") \cup {l}
      BY <2>3 DEF LinesAt, Held
    <3>2. /\ LinesAt(t, "reserved") \in SUBSET Lines
          /\ {l} \in SUBSET Lines
          /\ LinesAt(t, "reserved") \cap {l} = {}
      BY DEF LinesAt
    <3>3. Total(LinesAt(t, "reserved") \cup {l}) = Total(LinesAt(t, "reserved")) + Quantity[l]
      BY <3>2, TotalUnion, TotalOne, Zenon
    <3>4. Total(LinesAt(t, "reserved"))' = Total(LinesAt(t, "reserved")) + Quantity[l]
      BY <3>1, <3>3, Zenon
    <3>5. QED
      BY <2>1, <2>3, <3>2, <3>4, TotalNat
         DEF RowBalances, LedgerBalances, StockConserved, NoOversell, Available
  <2>4. QED
    BY <2>2, <2>3
<1>3. QED
    BY <1>1, <1>2 DEF RowBalances, LedgerBalances, StockConserved, NoOversell

(* release, and the reaper: a set of reserved lines is given back. *)
LEMMA FreeingBalances ==
  ASSUME IInv, NEW ls \in SUBSET Lines, NEW g,
         \A l \in ls : hold[l].status = "reserved" /\ g[l] \in Generations,
         reserved' = [s \in Stocks |-> reserved[s] - Total({l \in ls : hold[l].stock = s})],
         hold' = [l \in Lines |-> IF l \in ls THEN Freed(hold[l].stock, g[l]) ELSE hold[l]],
         UNCHANGED <<onHand, fence>>
  PROVE  IInv'
<1> USE DEF IInv
<1> DEFINE F(s) == {l \in ls : hold[l].stock = s}
<1>1. ASSUME NEW t \in Stocks PROVE RowBalances(t)' /\ reserved'[t] \in Nat
  <2>1. LinesAt(t, "consumed")' = LinesAt(t, "consumed")
    BY DEF LinesAt, Freed
  <2>2. LinesAt(t, "reserved")' = LinesAt(t, "reserved") \ F(t)
    BY DEF LinesAt, Freed
  <2>3. LinesAt(t, "reserved") \in SUBSET Lines /\ F(t) \in SUBSET LinesAt(t, "reserved")
    BY DEF LinesAt
  <2>4. Total(LinesAt(t, "reserved")) = Total(LinesAt(t, "reserved") \ F(t)) + Total(F(t))
    BY <2>3, TotalMinus
  <2>5. /\ Total(LinesAt(t, "reserved"))' = Total(LinesAt(t, "reserved") \ F(t))
        /\ Total(LinesAt(t, "consumed"))' = Total(LinesAt(t, "consumed"))
    BY <2>1, <2>2, Zenon
  <2>6. Total(F(t)) \in Nat /\ Total(LinesAt(t, "reserved") \ F(t)) \in Nat
    BY <2>3, TotalNat
  <2>7. reserved'[t] = reserved[t] - Total(F(t))
    OBVIOUS
  <2>8. onHand'[t] = onHand[t] /\ onHand[t] \in Nat
    BY DEF TypeOK
  <2>9. RowBalances(t)
    BY DEF RowBalances, LedgerBalances, StockConserved, NoOversell
  <2> HIDE DEF F
  <2>10. QED
    BY <2>4, <2>5, <2>6, <2>7, <2>8, <2>9 DEF RowBalances
<1>2. TypeOK' /\ HoldsHaveStock'
  <2>1. reserved' \in [Stocks -> Nat]
    BY <1>1
  <2>2. QED
    BY <2>1 DEF TypeOK, HoldsHaveStock, Holds, HoldStatuses, Freed, Generations
<1>3. QED
    BY <1>1, <1>2 DEF RowBalances, LedgerBalances, StockConserved, NoOversell

(* consume: the pending lines of a request leave the stock; what was        *)
(* released is covered by what is available.                                *)
LEMMA ConsumeBalances ==
  ASSUME IInv, NEW q \in Requests, NEW g \in Generations, Consume(q, g)
  PROVE  IInv'
<1> USE DEF IInv
<1> DEFINE T(s) == {l \in ToConsume(q) : hold[l].stock = s}
           U(s) == {l \in T(s) : hold[l].status = "reserved"}
           R(s) == LinesOf(q) \cap LinesAt(s, "released")
<1>1. ASSUME NEW t \in Stocks PROVE RowBalances(t)' /\ reserved'[t] \in Nat /\ onHand'[t] \in Nat
  <2>1. LinesAt(t, "consumed")' = LinesAt(t, "consumed") \cup T(t)
    BY DEF Consume, LinesAt, ToConsume, LinesOf
  <2>2. LinesAt(t, "reserved")' = LinesAt(t, "reserved") \ U(t)
    BY DEF Consume, LinesAt, ToConsume, LinesOf
  <2>3. T(t) = U(t) \cup R(t)
    BY DEF Consume, LinesAt, ToConsume, LinesOf, TypeOK, Holds, HoldStatuses
  <2>4. /\ LinesAt(t, "reserved") \in SUBSET Lines /\ U(t) \in SUBSET LinesAt(t, "reserved")
        /\ LinesAt(t, "consumed") \in SUBSET Lines /\ LinesAt(t, "consumed") \cap T(t) = {}
        /\ T(t) \in SUBSET Lines /\ U(t) \in SUBSET Lines /\ R(t) \in SUBSET Lines
        /\ U(t) \cap R(t) = {}
    BY DEF LinesAt, ToConsume, LinesOf
  <2>5. onHand'[t] = onHand[t] - Total(T(t)) /\ reserved'[t] = reserved[t] - Total(U(t))
    BY DEF Consume
  <2>6. Total(R(t)) <= Available(t)
    BY DEF Consume, Recoverable
  <2>7. onHand[t] \in Nat /\ reserved[t] \in Nat /\ InitialOnHand[t] \in Nat
    BY DEF TypeOK
  <2>8. RowBalances(t)
    BY DEF RowBalances, LedgerBalances, StockConserved, NoOversell
  <2> HIDE DEF T, U, R
  <2>9. Total(T(t)) = Total(U(t)) + Total(R(t))
    BY <2>3, <2>4, TotalUnion, Zenon
  <2>10. Total(LinesAt(t, "reserved")) = Total(LinesAt(t, "reserved") \ U(t)) + Total(U(t))
    BY <2>4, TotalMinus
  <2>11. Total(LinesAt(t, "consumed") \cup T(t)) = Total(LinesAt(t, "consumed")) + Total(T(t))
    BY <2>4, TotalUnion
  <2>12. /\ Total(LinesAt(t, "reserved"))' = Total(LinesAt(t, "reserved") \ U(t))
         /\ Total(LinesAt(t, "consumed"))' = Total(LinesAt(t, "consumed") \cup T(t))
    BY <2>1, <2>2, Zenon
  <2>13. /\ Total(U(t)) \in Nat /\ Total(R(t)) \in Nat /\ Total(LinesAt(t, "consumed")) \in Nat
         /\ Total(LinesAt(t, "reserved") \ U(t)) \in Nat
    BY <2>4, TotalNat
  <2>14. QED
    BY <2>5, <2>6, <2>7, <2>8, <2>9, <2>10, <2>11, <2>12, <2>13 DEF RowBalances, Available
<1>2. TypeOK' /\ HoldsHaveStock'
  <2>1. reserved' \in [Stocks -> Nat] /\ onHand' \in [Stocks -> Nat]
    BY <1>1 DEF Consume
  <2>2. hold' \in [Lines -> Holds]
    BY DEF Consume, TypeOK, Holds, HoldStatuses, Generations
  <2>3. HoldsHaveStock'
    BY DEF Consume, HoldsHaveStock, ToConsume, LinesOf
  <2>4. QED
    BY <2>1, <2>2, <2>3 DEF TypeOK, Consume
<1>3. QED
    BY <1>1, <1>2 DEF RowBalances, LedgerBalances, StockConserved, NoOversell

(* release is the reaper's step for one line and the caller's generation. *)
LEMMA ReleaseBalances ==
  ASSUME IInv, NEW l \in Lines, NEW g \in Generations, Release(l, g)
  PROVE  IInv'
<1> DEFINE gs == [k \in Lines |-> g]
<1>1. hold[l].status = "reserved" /\ hold[l].stock \in Stocks
    BY DEF IInv, HoldsHaveStock, Release, Releasable
<1>2. ASSUME NEW s \in Stocks
      PROVE  reserved'[s] = reserved[s] - Total({k \in {l} : hold[k].stock = s})
  <2>1. CASE s = hold[l].stock
    <3>1. {k \in {l} : hold[k].stock = s} = {l}
      BY <2>1
    <3>2. Total({k \in {l} : hold[k].stock = s}) = Quantity[l]
      BY <3>1, TotalOne, Zenon
    <3>3. QED
      BY <1>1, <2>1, <3>2 DEF Release, IInv, TypeOK
  <2>2. CASE s # hold[l].stock
    <3>1. {k \in {l} : hold[k].stock = s} = {}
      BY <2>2
    <3>2. Total({k \in {l} : hold[k].stock = s}) = 0
      BY <3>1, TotalEmpty, Zenon
    <3>3. QED
      BY <1>1, <2>2, <3>2 DEF Release, IInv, TypeOK
  <2>3. QED
    BY <2>1, <2>2
<1>3. reserved' = [s \in Stocks |-> reserved[s] - Total({k \in {l} : hold[k].stock = s})]
  <2>1. reserved' = [s \in Stocks |-> reserved'[s]]
    BY DEF Release, IInv, TypeOK
  <2>2. QED
    BY <1>2, <2>1
<1>4. hold' = [k \in Lines |-> IF k \in {l} THEN Freed(hold[k].stock, gs[k]) ELSE hold[k]]
    BY DEF Release, IInv, TypeOK
<1>5. /\ {l} \in SUBSET Lines
      /\ \A k \in {l} : hold[k].status = "reserved" /\ gs[k] \in Generations
      /\ UNCHANGED <<onHand, fence>>
    BY <1>1 DEF Release
<1> HIDE DEF gs
<1>6. QED
    BY <1>3, <1>4, <1>5, FreeingBalances

(* Every operation of the service, the reaper, the clock and the checkout   *)
(* fence preserve the ledger.                                               *)
LEMMA NextIInv == IInv /\ [Next]_vars => IInv'
<1> SUFFICES ASSUME IInv, [Next]_vars PROVE IInv'
    OBVIOUS
<1>1. ASSUME NEW l \in Lines, NEW g \in Generations, NEW s \in Stocks, ReserveNew(l, g, s)
      PROVE  IInv'
    BY <1>1, TakingBalances DEF ReserveNew, CanReserve
<1>2. ASSUME NEW l \in Lines, NEW g \in Generations, ReserveReleased(l, g) PROVE IInv'
  <2>1. hold[l].stock \in Stocks
    BY <1>2 DEF ReserveReleased, IInv, HoldsHaveStock
  <2>2. QED
    BY <1>2, <2>1, TakingBalances DEF ReserveReleased
<1>3. ASSUME UNCHANGED <<onHand, reserved>>, TypeOK', HoldsHaveStock',
             \A l \in Lines : hold'[l].status = hold[l].status /\ hold'[l].stock = hold[l].stock
      PROVE  IInv'
  <2>1. ASSUME NEW s \in Stocks
        PROVE  /\ LinesAt(s, "reserved")' = LinesAt(s, "reserved")
               /\ LinesAt(s, "consumed")' = LinesAt(s, "consumed")
    BY <1>3 DEF LinesAt
  <2>2. ASSUME NEW s \in Stocks
        PROVE  /\ Total(LinesAt(s, "reserved"))' = Total(LinesAt(s, "reserved"))
               /\ Total(LinesAt(s, "consumed"))' = Total(LinesAt(s, "consumed"))
    BY <2>1, Zenon
  <2>3. QED
    BY <1>3, <2>2 DEF IInv, LedgerBalances, StockConserved, NoOversell
<1>4. ASSUME NEW l \in Lines, NEW g \in Generations, ReserveAgain(l, g) PROVE IInv'
  <2>1. TypeOK' /\ HoldsHaveStock'
    BY <1>4 DEF ReserveAgain, Held, IInv, TypeOK, HoldsHaveStock, Holds, HoldStatuses
  <2>2. \A k \in Lines : hold'[k].status = hold[k].status /\ hold'[k].stock = hold[k].stock
    BY <1>4 DEF ReserveAgain, Held, IInv, TypeOK
  <2>3. QED
    BY <1>3, <1>4, <2>1, <2>2 DEF ReserveAgain
<1>5. ASSUME NEW l \in Lines, HoldExpires(l) PROVE IInv'
  <2>1. hold[l] \in Holds /\ [hold[l] EXCEPT !.expired = TRUE] \in Holds
    <3>1. hold[l] \in Holds
      BY DEF IInv, TypeOK
    <3>2. \A h \in Holds : [h EXCEPT !.expired = TRUE] \in Holds
      BY DEF Holds
    <3>3. QED
      BY <3>1, <3>2
  <2>2. TypeOK' /\ HoldsHaveStock'
    BY <1>5, <2>1 DEF HoldExpires, IInv, TypeOK, HoldsHaveStock, Holds
  <2>3. \A k \in Lines : hold'[k].status = hold[k].status /\ hold'[k].stock = hold[k].stock
    BY <1>5, <2>1 DEF HoldExpires, IInv, TypeOK, Holds
  <2>4. QED
    BY <1>3, <1>5, <2>2, <2>3 DEF HoldExpires
<1>6. ASSUME NEW q \in Requests, FenceCloses(q) \/ FenceReopens(q) \/ FenceReclaimed(q)
      PROVE  IInv'
  <2>1. fence' \in [Requests -> Fences] /\ UNCHANGED <<onHand, reserved, hold>>
    <3>1. CASE FenceCloses(q)
      BY <3>1 DEF FenceCloses, IInv, TypeOK, Fences
    <3>2. CASE FenceReopens(q)
      BY <3>2 DEF FenceReopens, IInv, TypeOK, Fences
    <3>3. CASE FenceReclaimed(q)
      BY <3>3 DEF FenceReclaimed, IInv, TypeOK, Fences, Generations
    <3>4. QED
      BY <1>6, <3>1, <3>2, <3>3
  <2>2. TypeOK' /\ HoldsHaveStock'
    BY <2>1 DEF IInv, TypeOK, HoldsHaveStock
  <2>3. QED
    BY <1>3, <2>1, <2>2
<1>7. ASSUME NEW ls \in SUBSET Expired, Reap(ls) PROVE IInv'
  <2> DEFINE gs == [k \in Lines |-> hold[k].generation]
  <2>1. ls \in SUBSET Lines /\ \A l \in ls : hold[l].status = "reserved" /\ gs[l] \in Generations
    BY DEF Expired, IInv, TypeOK, Holds
  <2>2. hold' = [l \in Lines |-> IF l \in ls THEN Freed(hold[l].stock, gs[l]) ELSE hold[l]]
    BY <1>7 DEF Reap
  <2>3. QED
    BY <1>7, <2>1, <2>2, FreeingBalances DEF Reap
<1>8. CASE UNCHANGED vars
  <2>1. TypeOK' /\ HoldsHaveStock'
    BY <1>8 DEF vars, IInv, TypeOK, HoldsHaveStock
  <2>2. QED
    BY <1>3, <1>8, <2>1 DEF vars
<1>9. QED
    BY <1>1, <1>2, <1>4, <1>5, <1>6, <1>7, <1>8, ReleaseBalances, ConsumeBalances
       DEF Next, Operation

-----------------------------------------------------------------------------
(* Statuses, generations and quantities stay in range; in particular no     *)
(* quantity of the inventory table becomes negative.                        *)
THEOREM TypeCorrect == Spec => []TypeOK
<1>1. IInv => TypeOK
    BY DEF IInv
<1>2. QED
    BY InitIInv, NextIInv, <1>1, PTL DEF Spec

(* reserved_quantity always equals the sum of the reserved holds.           *)
THEOREM LedgerAlwaysBalances == Spec => []LedgerBalances
<1>1. IInv => LedgerBalances
    BY DEF IInv
<1>2. QED
    BY InitIInv, NextIInv, <1>1, PTL DEF Spec

(* On hand plus consumed is the seeded stock.                               *)
THEOREM StockAlwaysConserved == Spec => []StockConserved
<1>1. IInv => StockConserved
    BY DEF IInv
<1>2. QED
    BY InitIInv, NextIInv, <1>1, PTL DEF Spec

(* No sequence of reservations, expiries, reuses and consumptions oversells. *)
THEOREM NeverOversold == Spec => []NoOversell
<1>1. IInv => NoOversell
    BY DEF IInv
<1>2. QED
    BY InitIInv, NextIInv, <1>1, PTL DEF Spec

(* reserve and release rewrite one row that is not consumed, for the        *)
(* generation that holds the fence.                                         *)
LEMMA OperationEffect ==
  ASSUME TypeOK, NEW k \in Lines, NEW g \in Generations, Operation(k, g)
  PROVE  /\ hold[k].status # "consumed"
         /\ HoldsFence(RequestOf[k], g)
         /\ \E s, st : /\ st \in {"reserved", "released"}
                       /\ hold' = [hold EXCEPT ![k] = [status |-> st, stock |-> s,
                                                       generation |-> g, expired |-> FALSE]]
<1>1. CASE \E s \in Stocks : ReserveNew(k, g, s)
    BY <1>1 DEF ReserveNew, Held
<1>2. CASE ReserveReleased(k, g)
    BY <1>2 DEF ReserveReleased, Held
<1>3. CASE ReserveAgain(k, g)
    BY <1>3 DEF ReserveAgain, Held
<1>4. CASE Release(k, g)
    BY <1>4 DEF Release, Releasable, Freed
<1>5. QED
    BY <1>1, <1>2, <1>3, <1>4 DEF Operation

(* consume takes all lines of an order or none: the only step that consumes *)
(* a line consumes every line of its request.                               *)
THEOREM OrdersConsumedTogether == Spec => []ConsumedTogether
<1> USE DEF ConsumedTogether, LinesOf
<1>1. Init => ConsumedTogether
    BY DEF Init
<1>2. TypeOK /\ ConsumedTogether /\ [Next]_vars => ConsumedTogether'
  <2> SUFFICES ASSUME TypeOK, ConsumedTogether, [Next]_vars PROVE ConsumedTogether'
    OBVIOUS
  <2>1. ASSUME NEW q \in Requests, NEW g \in Generations, Consume(q, g)
        PROVE  ConsumedTogether'
    BY <2>1 DEF Consume, ToConsume
  <2>2. ASSUME \A l \in Lines : hold'[l].status = "consumed" <=> hold[l].status = "consumed"
        PROVE  ConsumedTogether'
    BY <2>2
  <2>3. ASSUME NEW l \in Lines, NEW g \in Generations, Operation(l, g)
        PROVE  \A k \in Lines : hold'[k].status = "consumed" <=> hold[k].status = "consumed"
    BY <2>3, OperationEffect DEF TypeOK
  <2>4. ASSUME NEW ls \in SUBSET Expired, Reap(ls)
        PROVE  \A k \in Lines : hold'[k].status = "consumed" <=> hold[k].status = "consumed"
    BY <2>4 DEF Reap, Freed, Expired
  <2>5. ASSUME NEW l \in Lines, HoldExpires(l)
        PROVE  \A k \in Lines : hold'[k].status = "consumed" <=> hold[k].status = "consumed"
    BY <2>5 DEF HoldExpires, TypeOK, Holds
  <2>6. ASSUME hold' = hold PROVE ConsumedTogether'
    BY <2>6
  <2>7. QED
    BY <2>1, <2>2, <2>3, <2>4, <2>5, <2>6
       DEF Next, FenceCloses, FenceReopens, FenceReclaimed, vars
<1>3. QED
    BY <1>1, <1>2, TypeCorrect, PTL DEF Spec

(* Only the current generation of an open checkout attempt changes a        *)
(* reservation; the reaper ends expired holds; consumed rows are final.     *)
THEOREM StaleGenerationsFenced == Spec => OnlyCurrentGenerationWrites
<1> DEFINE A == \A l \in Lines :
         hold'[l] # hold[l] =>
            /\ hold[l].status # "consumed"
            /\ \/ fence[RequestOf[l]] = [generation |-> hold'[l].generation, open |-> TRUE]
               \/ hold[l].expired /\ hold'[l].status = "released"
               \/ hold'[l] = [hold[l] EXCEPT !.expired = TRUE]
<1>1. TypeOK /\ [Next]_vars => [A]_vars
  <2> SUFFICES ASSUME TypeOK, [Next]_vars, NEW l \in Lines, hold'[l] # hold[l]
               PROVE  /\ hold[l].status # "consumed"
                      /\ \/ fence[RequestOf[l]] = [generation |-> hold'[l].generation, open |-> TRUE]
                         \/ hold[l].expired /\ hold'[l].status = "released"
                         \/ hold'[l] = [hold[l] EXCEPT !.expired = TRUE]
    OBVIOUS
  <2> USE DEF TypeOK, Holds, Fences, HoldsFence
  <2>1. ASSUME NEW k \in Lines, NEW g \in Generations, Operation(k, g)
        PROVE  /\ hold[l].status # "consumed"
               /\ fence[RequestOf[l]] = [generation |-> hold'[l].generation, open |-> TRUE]
    <3>1. PICK s, st :
            hold' = [hold EXCEPT ![k] = [status |-> st, stock |-> s,
                                         generation |-> g, expired |-> FALSE]]
      BY <2>1, OperationEffect
    <3>2. k = l
      BY <3>1
    <3>3. hold'[l].generation = g
      BY <3>1, <3>2
    <3>4. hold[l].status # "consumed" /\ fence[RequestOf[l]].open /\ fence[RequestOf[l]].generation = g
      BY <2>1, <3>2, OperationEffect
    <3>5. fence[RequestOf[l]] \in [generation : Generations, open : BOOLEAN]
      OBVIOUS
    <3>6. QED
      BY <3>3, <3>4, <3>5
  <2>2. ASSUME NEW q \in Requests, NEW g \in Generations, Consume(q, g)
        PROVE  /\ hold[l].status # "consumed"
               /\ fence[RequestOf[l]] = [generation |-> hold'[l].generation, open |-> TRUE]
    BY <2>2 DEF Consume, ToConsume, LinesOf
  <2>3. ASSUME NEW ls \in SUBSET Expired, Reap(ls)
        PROVE  hold[l].status # "consumed" /\ hold[l].expired /\ hold'[l].status = "released"
    BY <2>3 DEF Reap, Expired, Freed
  <2>4. ASSUME NEW k \in Lines, HoldExpires(k)
        PROVE  hold[l].status # "consumed" /\ hold'[l] = [hold[l] EXCEPT !.expired = TRUE]
    BY <2>4 DEF HoldExpires
  <2>5. ASSUME hold' = hold PROVE FALSE
    BY <2>5
  <2>6. QED
    BY <2>1, <2>2, <2>3, <2>4, <2>5 DEF Next, FenceCloses, FenceReopens, FenceReclaimed, vars
<1>2. QED
    BY <1>1, TypeCorrect, PTL DEF Spec, OnlyCurrentGenerationWrites

(* The stock is sound for any orders, lines, quantities, locations and      *)
(* generations: the ledger, conservation, no oversell and whole orders.     *)
THEOREM StockAlwaysSound == Spec => []StockIsSound
<1>1. LedgerBalances /\ StockConserved /\ NoOversell /\ ConsumedTogether => StockIsSound
    BY DEF StockIsSound
<1>2. QED
    BY LedgerAlwaysBalances, StockAlwaysConserved, NeverOversold, OrdersConsumedTogether, <1>1, PTL

HIDE InventoryAssumption

-----------------------------------------------------------------------------
(* The identity of a request.                                              *)

USE PropagationAssumption

(* The baggage names the tenant. *)
Names(bag, tenant) == "tenant" \in DOMAIN bag /\ bag["tenant"].value = tenant

(* What has acted before a hop.  A request enters at the storefront, at     *)
(* checkout or at orders, so checkout may be the first or the second.       *)
Before(hop) ==
    CASE hop = "calls" -> "checkout"
      [] hop = "store" -> "checkout"
      [] hop = "relay" -> "store"
      [] hop = "fulfillment" -> "relay"
      [] hop = "notify" -> "fulfillment"
      [] hop = "job" -> "notify"
      [] hop = "queue" -> "orders"
      [] hop = "consumed" -> "queue"

(* A hop comes after the hops that lead to it.                             *)
ActedInOrder ==
    /\ journey.hop \in {"client", "storefront", "orders"} => DOMAIN acted = {}
    /\ journey.hop = "checkout" => DOMAIN acted \subseteq {"storefront"}
    /\ journey.hop \in {"calls", "store", "relay", "fulfillment", "notify", "job",
                        "queue", "consumed"} => Before(journey.hop) \in DOMAIN acted

(* Every hop acted for a tenant that the carrier names.                     *)
CarrierNames == \A h \in DOMAIN acted : acted[h] \in Tenants /\ Names(carrier.bag, acted[h])

(* A context that is still to be injected names it too.                     *)
ContextNames ==
    journey.hop \in {"calls", "store", "consumed"} =>
      \A h \in DOMAIN acted : Names(context.bag, acted[h])

(* Fulfillment sends only a carrier the notifications service can store.    *)
NotifyIsDurable == journey.hop = "notify" => validate_durable_context(carrier)

(* No service that was called has refused the identity.                    *)
NoneRefused == journey.hop # "callee refused"

(* The journey keeps its fields.                                           *)
JourneyIsRecord == journey = [hop |-> journey.hop, sent |-> journey.sent]

(* The inductive invariant of the journey.                                 *)
PropagationInv ==
    /\ JourneyIsRecord
    /\ ActedInOrder
    /\ CarrierNames
    /\ ContextNames
    /\ NotifyIsDurable
    /\ NoneRefused

(* An identifier is a safe entry: clone_baggage passes it on.              *)
LEMMA CloneNames ==
    ASSUME NEW bag, NEW T \in Tenants, Names(bag, T)
    PROVE  Names(clone_baggage(bag), T)
  BY DEF Names, clone_baggage, is_safe_baggage_entry, SAFE_BUSINESS_BAGGAGE_KEYS

(* New entries replace old ones of their own keys only.                    *)
LEMMA OverlayNames ==
    ASSUME NEW new, NEW old, NEW T,
           Names(new, T) \/ ("tenant" \notin DOMAIN new /\ Names(old, T))
    PROVE  Names(Overlay(new, old), T)
  BY DEF Names, Overlay

(* extend_baggage names the tenant it is given, or keeps the one it had.   *)
LEMMA ExtendNames ==
    ASSUME NEW bag, NEW values, NEW T \in Tenants,
           \/ "tenant" \in DOMAIN values /\ values["tenant"] = T
           \/ "tenant" \notin DOMAIN values /\ Names(bag, T)
    PROVE  Names(extend_baggage(bag, values), T)
  <1> DEFINE entries == [k \in DOMAIN values |-> [value |-> values[k], meta |-> Absent]]
  <1>1. CASE "tenant" \in DOMAIN values /\ values["tenant"] = T
    <2>1. Names(entries, T)
      BY <1>1 DEF Names
    <2>2. Names(clone_baggage(entries), T)
      BY <2>1, CloneNames
    <2> QED
      BY <2>2, OverlayNames DEF extend_baggage
  <1>2. CASE "tenant" \notin DOMAIN values /\ Names(bag, T)
    <2>1. "tenant" \notin DOMAIN clone_baggage(entries)
      BY <1>2 DEF clone_baggage
    <2>2. Names(clone_baggage(bag), T)
      BY <1>2, CloneNames
    <2> QED
      BY <2>1, <2>2, OverlayNames DEF extend_baggage
  <1> QED
    BY <1>1, <1>2

(* with_business_context_from_parent names the tenant it is given,         *)
(* whatever the parent's baggage says.                                     *)
LEMMA BusinessNames ==
    ASSUME NEW own, NEW parent, NEW T \in Tenants, NEW business
    PROVE  Names(with_business_context_from_parent(own, parent, T, business), T)
  <1> DEFINE bag == extend_baggage(with_safe_parent_baggage(own, parent), Only("tenant", T))
  <1>1. Names(bag, T)
    BY ExtendNames DEF Only
  <1>2. Names(extend_baggage(bag, Only("business", business)), T)
    BY <1>1, ExtendNames DEF Only
  <1> QED
    BY <1>1, <1>2 DEF with_business_context_from_parent

(* Sources that name one tenant resolve to it.                             *)
LEMMA OneCandidate ==
    ASSUME NEW T \in Tenants
    PROVE  resolve_tenant_candidates({T}) = T
  <1>1. Cardinality({T}) = 1
    BY FS_Singleton
  <1> QED
    BY <1>1 DEF resolve_tenant_candidates

(* Body, header and carrier that name the same tenant resolve to it, over  *)
(* HTTP and over gRPC.                                                     *)
LEMMA AgreeingSources ==
    ASSUME NEW c, NEW T \in Tenants, Names(c.bag, T), NEW explicit \in {Absent, T}
    PROVE  /\ resolve_http_tenant_identity(c, explicit, T) = T
           /\ resolve_grpc_tenant_identity(c, T) = T
  <1>1. Given(T) = {T} /\ Given(explicit) \subseteq {T}
    BY DEF Given, Absent
  <1>2. FromBaggage(c) = {T}
    BY DEF FromBaggage, Names
  <1>3. Given(T) \cup Given(explicit) \cup FromBaggage(c) = {T} /\ Given(T) \cup FromBaggage(c) = {T}
    BY <1>1, <1>2
  <1> QED
    BY <1>3, OneCandidate DEF resolve_http_tenant_identity, resolve_grpc_tenant_identity

(* Before the client sends, nobody has acted.                              *)
LEMMA PropagationInitInv == PropagationInit => PropagationInv
  BY DEF PropagationInit, PropagationInv, JourneyIsRecord, ActedInOrder, CarrierNames, ContextNames,
         NotifyIsDurable, NoneRefused

(* A hop that acts for the tenant of the earlier hops and passes on a       *)
(* carrier that names it keeps the invariant.                               *)
LEMMA GoKeeps ==
    ASSUME PropagationInv, NEW hop, NEW T \in Tenants, NEW ctx, NEW c, Go(hop, T, ctx, c),
           \A h \in DOMAIN acted : acted[h] = T,
           Names(c.bag, T),
           hop \in {"calls", "store", "consumed"} => Names(ctx.bag, T),
           hop = "notify" => validate_durable_context(c),
           hop \notin {"client", "storefront", "orders", "callee refused"},
           hop = "checkout" => journey.hop = "storefront",
           hop \in {"calls", "store", "relay", "fulfillment", "notify", "job", "queue", "consumed"} =>
             Before(hop) \in DOMAIN acted \cup {journey.hop}
    PROVE  PropagationInv'
  <1>1. journey' = [hop |-> hop, sent |-> journey.sent] /\ carrier' = c /\ context' = ctx
    BY DEF Go, PropagationInv, JourneyIsRecord
  <1>2. DOMAIN acted' = DOMAIN acted \cup {journey.hop} /\ \A h \in DOMAIN acted' : acted'[h] = T
    BY DEF Go, Overlay, Only
  <1>3. ActedInOrder'
    BY <1>1, <1>2 DEF PropagationInv, ActedInOrder, Before
  <1>4. CarrierNames' /\ ContextNames' /\ NotifyIsDurable' /\ NoneRefused' /\ JourneyIsRecord'
    BY <1>1, <1>2 DEF CarrierNames, ContextNames, NotifyIsDurable, NoneRefused, JourneyIsRecord, Names,
                      validate_durable_context, validate_trace_headers, validate_baggage_header
  <1> QED
    BY <1>3, <1>4 DEF PropagationInv

(* A refused request is at its end.                                        *)
LEMMA RefuseKeeps ==
    ASSUME PropagationInv, NEW reason \in {"refused", "row unreadable", "dead-lettered"}, Refuse(reason)
    PROVE  PropagationInv'
  <1>1. journey' = [hop |-> reason, sent |-> journey.sent] /\ UNCHANGED <<context, carrier, acted>>
    BY DEF Refuse, PropagationInv, JourneyIsRecord
  <1> QED
    BY <1>1 DEF PropagationInv, ActedInOrder, CarrierNames, ContextNames, NotifyIsDurable, NoneRefused,
                JourneyIsRecord, Names

(* The storefront or checkout names the tenant in the carrier it sends.     *)
LEMMA InjectNames ==
    ASSUME NEW ctx, NEW T \in Tenants, Names(ctx.bag, T)
    PROVE  Names(inject_context_headers(ctx).bag, T)
  BY CloneNames DEF inject_context_headers

(* extract_context passes the tenant of a carrier on.                      *)
LEMMA ExtractNames ==
    ASSUME NEW c, NEW T \in Tenants, Names(c.bag, T)
    PROVE  Names(extract_context(c).bag, T)
  BY CloneNames DEF extract_context

(* The client's request comes before every hop.                            *)
LEMMA ClientSendKeeps ==
    ASSUME PropagationInv, ClientSend
    PROVE  PropagationInv'
  <1>1. PICK r \in ClientRequests : journey' = [hop |-> r.door, sent |-> r]
    BY DEF ClientSend
  <1>2. DOMAIN acted = {} /\ acted' = acted
    BY DEF ClientSend, At, PropagationInv, ActedInOrder
  <1> QED
    BY <1>1, <1>2 DEF PropagationInv, JourneyIsRecord, ActedInOrder, CarrierNames, ContextNames,
                      NotifyIsDurable, NoneRefused

(* The storefront sends the identity it resolved in the baggage.           *)
LEMMA StorefrontKeeps ==
    ASSUME PropagationInv, Storefront
    PROVE  PropagationInv'
  <1> DEFINE tenant  == StorefrontTenant
             session == resolve_session_id(clone_baggage(carrier.bag), Sent.session, "fresh")
             ctx     == [trace |-> set_parent_if_valid(extract_context(carrier)),
                         bag |-> outbound_context_for_identity(for_request, tenant, session)]
  <1>1. journey.hop = "storefront" /\ DOMAIN acted = {}
    BY DEF Storefront, At, PropagationInv, ActedInOrder
  <1>2. \/ tenant \in Tenants /\ Go("checkout", tenant, ctx, inject_context_headers(ctx))
        \/ Refuse("refused")
    BY DEF Storefront, Resolved
  <1>3. CASE tenant \in Tenants /\ Go("checkout", tenant, ctx, inject_context_headers(ctx))
    <2>1. Names(ctx.bag, tenant)
      BY <1>3, BusinessNames DEF outbound_context_for_identity
    <2>2. Names(inject_context_headers(ctx).bag, tenant)
      BY <1>3, <2>1, InjectNames
    <2> HIDE DEF tenant, ctx
    <2> QED
      BY <1>1, <1>3, <2>2, GoKeeps
  <1> QED
    BY <1>2, <1>3, RefuseKeeps

(* Checkout resolves the storefront's tenant again, or its own.            *)
LEMMA CheckoutKeeps ==
    ASSUME PropagationInv, checkout_request
    PROVE  PropagationInv'
  <1> DEFINE parent  == extract_context(carrier)
             tenant  == resolve_http_tenant_identity(carrier, Body.header, Body.tenant)
             session == resolve_session_id(parent.bag, Body.session, "fresh")
             bag     == with_business_context_from_parent(NoBaggage, parent.bag, tenant, "std")
             ctx     == [trace |-> set_parent_if_valid(parent),
                         bag |-> extend_baggage(bag, Overlay(Only("session", session),
                                                             Only("variant", "v")))]
  <1>1. journey.hop = "checkout" /\ DOMAIN acted \subseteq {"storefront"}
    BY DEF checkout_request, At, PropagationInv, ActedInOrder
  <1>2. \/ tenant \in Tenants /\ Go("calls", tenant, ctx, inject_context_headers(ctx))
        \/ Refuse("refused")
    BY DEF checkout_request, Resolved
  <1>3. CASE tenant \in Tenants /\ Go("calls", tenant, ctx, inject_context_headers(ctx))
    <2>1. Names(bag, tenant)
      BY <1>3, BusinessNames
    <2>2. "tenant" \notin DOMAIN Overlay(Only("session", session), Only("variant", "v"))
      BY DEF Overlay, Only
    <2>3. Names(ctx.bag, tenant)
      BY <1>3, <2>1, <2>2, ExtendNames
    <2>4. Names(inject_context_headers(ctx).bag, tenant)
      BY <1>3, <2>3, InjectNames
    <2>5. ASSUME "storefront" \in DOMAIN acted
          PROVE  acted["storefront"] = tenant
      <3>1. Body.tenant = acted["storefront"] /\ Body.header = Absent
        BY <2>5 DEF Body
      <3>2. acted["storefront"] \in Tenants /\ Names(carrier.bag, acted["storefront"])
        BY <2>5 DEF PropagationInv, CarrierNames
      <3> QED
        BY <3>1, <3>2, AgreeingSources
    <2> HIDE DEF tenant, ctx
    <2> QED
      BY <1>1, <1>3, <2>3, <2>4, <2>5, GoKeeps DEF Before
  <1> QED
    BY <1>2, <1>3, RefuseKeeps

(* The tenant of the hop before, which all hops so far share.               *)
LEMMA SharedTenant ==
    ASSUME PropagationInv, NEW h \in DOMAIN acted
    PROVE  /\ acted[h] \in Tenants
           /\ Names(carrier.bag, acted[h])
           /\ \A i \in DOMAIN acted : acted[i] = acted[h]
  BY DEF PropagationInv, CarrierNames, Names

(* Pricing and inventory resolve the tenant checkout acted for.             *)
LEMMA DownstreamKeeps ==
    ASSUME PropagationInv, DownstreamCalls
    PROVE  PropagationInv'
  <1> DEFINE T == acted["checkout"]
  <1>1. journey.hop = "calls" /\ "checkout" \in DOMAIN acted
    BY DEF DownstreamCalls, At, PropagationInv, ActedInOrder, Before
  <1>2. T \in Tenants /\ Names(carrier.bag, T) /\ \A h \in DOMAIN acted : acted[h] = T
    BY <1>1, SharedTenant
  <1>3. quote_identity = T /\ reserve_identity = T
    BY <1>2, AgreeingSources DEF quote_identity, reserve_identity
  <1>4. Go("store", T, context, carrier)
    BY <1>2, <1>3 DEF DownstreamCalls, Resolved
  <1>5. Names(context.bag, T)
    BY <1>1 DEF PropagationInv, ContextNames
  <1> HIDE DEF T
  <1> QED
    BY <1>1, <1>2, <1>4, <1>5, GoKeeps DEF Before

(* The carrier stored with the outbox row names the order's tenant.        *)
LEMMA StoreKeeps ==
    ASSUME PropagationInv, stored_propagation
    PROVE  PropagationInv'
  <1> DEFINE T == acted["checkout"]
             c == inject_context_headers(context)
  <1>1. journey.hop = "store" /\ "checkout" \in DOMAIN acted
    BY DEF stored_propagation, At, PropagationInv, ActedInOrder, Before
  <1>2. T \in Tenants /\ \A h \in DOMAIN acted : acted[h] = T
    BY <1>1, SharedTenant
  <1>3. Names(c.bag, T)
    BY <1>1, <1>2, InjectNames DEF PropagationInv, ContextNames
  <1>4. Go("relay", T, NoContext, c) \/ Refuse("refused")
    BY DEF stored_propagation
  <1> HIDE DEF T, c
  <1>5. CASE Go("relay", T, NoContext, c)
    BY <1>1, <1>2, <1>3, <1>5, GoKeeps DEF Before
  <1> QED
    BY <1>4, <1>5, RefuseKeeps

(* The relay restores the stored carrier and sends its baggage on.         *)
LEMMA PublishKeeps ==
    ASSUME PropagationInv, publish_event
    PROVE  PropagationInv'
  <1> DEFINE T == acted["store"]
             parent == extract_context(carrier)
             ctx == [trace |-> set_parent_if_valid(parent),
                     bag |-> with_safe_parent_baggage(NoBaggage, parent.bag)]
             c == inject_context_headers(ctx)
  <1>1. journey.hop = "relay" /\ "store" \in DOMAIN acted
    BY DEF publish_event, At, PropagationInv, ActedInOrder, Before
  <1>2. T \in Tenants /\ Names(carrier.bag, T) /\ \A h \in DOMAIN acted : acted[h] = T
    BY <1>1, SharedTenant
  <1>3. Names(clone_baggage(parent.bag), T)
    BY <1>2, ExtractNames, CloneNames
  <1>4. Names(ctx.bag, T)
    BY <1>3, OverlayNames DEF with_safe_parent_baggage
  <1>5. Names(c.bag, T)
    BY <1>2, <1>4, InjectNames
  <1>6. Go("fulfillment", T, ctx, c) \/ Refuse("row unreadable")
    BY DEF publish_event
  <1> HIDE DEF T, c, ctx
  <1>7. CASE Go("fulfillment", T, ctx, c)
    BY <1>1, <1>2, <1>5, <1>7, GoKeeps DEF Before
  <1> QED
    BY <1>6, <1>7, RefuseKeeps

(* The carrier of the notification is the one fulfillment validated.        *)
LEMMA FulfillmentKeeps ==
    ASSUME PropagationInv, fulfillment_consume
    PROVE  PropagationInv'
  <1> DEFINE T == acted["relay"]
             ctx == extract_context(carrier)
             c == inject_context_headers(ctx)
  <1>1. journey.hop = "fulfillment" /\ "relay" \in DOMAIN acted
    BY DEF fulfillment_consume, At, PropagationInv, ActedInOrder, Before
  <1>2. T \in Tenants /\ Names(carrier.bag, T) /\ \A h \in DOMAIN acted : acted[h] = T
    BY <1>1, SharedTenant
  <1>3. Names(ctx.bag, T) /\ Names(c.bag, T)
    BY <1>2, ExtractNames, InjectNames
  <1>4. \/ validate_propagation_headers(carrier) /\ Go("notify", T, ctx, c)
        \/ Refuse("dead-lettered")
    BY DEF fulfillment_consume
  <1>5. ASSUME validate_propagation_headers(carrier)
        PROVE  validate_durable_context(c)
    <2>1. c.trace = carrier.trace /\ c.state /\ c.trace # Absent
      BY <1>5 DEF validate_propagation_headers, inject_context_headers, extract_context
    <2>2. c.bag # NoBaggage
      BY <1>3 DEF Names, NoBaggage
    <2>3. \A k \in DOMAIN c.bag : k \in DOMAIN carrier.bag /\ c.bag[k] = carrier.bag[k]
      BY DEF inject_context_headers, extract_context, clone_baggage
    <2>4. \A k \in DOMAIN c.bag : c.bag[k].meta # "broken"
      BY <1>5, <2>3 DEF validate_propagation_headers, validate_baggage, Absent
    <2> QED
      BY <2>1, <2>2, <2>4 DEF validate_durable_context, validate_trace_headers, validate_baggage_header
  <1> HIDE DEF T, c, ctx
  <1>6. CASE validate_propagation_headers(carrier) /\ Go("notify", T, ctx, c)
    BY <1>1, <1>2, <1>3, <1>5, <1>6, GoKeeps DEF Before
  <1> QED
    BY <1>4, <1>6, RefuseKeeps

(* The notifications service resolves fulfillment's tenant and does not    *)
(* refuse.                                                                 *)
LEMMA NotifyKeeps ==
    ASSUME PropagationInv, notify
    PROVE  PropagationInv'
  <1> DEFINE T == acted["fulfillment"]
  <1>1. journey.hop = "notify" /\ "fulfillment" \in DOMAIN acted
    BY DEF notify, At, PropagationInv, ActedInOrder, Before
  <1>2. T \in Tenants /\ Names(carrier.bag, T) /\ \A h \in DOMAIN acted : acted[h] = T
    BY <1>1, SharedTenant
  <1>3. resolve_http_tenant_identity(carrier, Absent, T) = T
    BY <1>2, AgreeingSources
  <1>4. Go("job", T, NoContext, carrier)
    BY <1>1, <1>2, <1>3 DEF notify, Resolved, PropagationInv, NotifyIsDurable
  <1> HIDE DEF T
  <1> QED
    BY <1>1, <1>2, <1>4, GoKeeps DEF Before

(* A delivery job carries the stored context.                              *)
LEMMA JobKeeps ==
    ASSUME PropagationInv, job_context_headers
    PROVE  PropagationInv'
  <1> DEFINE T == acted["notify"]
             ctx == extract_context(carrier)
  <1>1. journey.hop = "job" /\ "notify" \in DOMAIN acted
    BY DEF job_context_headers, At, PropagationInv, ActedInOrder, Before
  <1>2. T \in Tenants /\ Names(carrier.bag, T) /\ \A h \in DOMAIN acted : acted[h] = T
    BY <1>1, SharedTenant
  <1>3. Go("done", T, ctx, carrier) \/ Refuse("row unreadable")
    BY DEF job_context_headers
  <1> HIDE DEF T, ctx
  <1>4. CASE Go("done", T, ctx, carrier)
    BY <1>1, <1>2, <1>4, GoKeeps
  <1> QED
    BY <1>3, <1>4, RefuseKeeps

(* Orders names the tenant it resolved, an orphan included.                *)
LEMMA OrdersPublishKeeps ==
    ASSUME PropagationInv, orders_publish
    PROVE  PropagationInv'
  <1> DEFINE tenant == resolve_http_tenant_identity(carrier, Sent.header, Sent.tenant)
             parent(orphan) == IF orphan THEN NoContext ELSE extract_context(carrier)
             ctx(orphan) ==
               [trace |-> set_parent_if_valid(parent(orphan)),
                bag |-> with_business_context_from_parent(NoBaggage, parent(orphan).bag, tenant, "std")]
  <1>1. journey.hop = "orders" /\ DOMAIN acted = {}
    BY DEF orders_publish, At, PropagationInv, ActedInOrder
  <1>2. PICK orphan \in BOOLEAN :
          \/ tenant \in Tenants /\ Go("queue", tenant, ctx(orphan), inject_context_headers(ctx(orphan)))
          \/ Refuse("refused")
    BY DEF orders_publish, Resolved
  <1> DEFINE x == ctx(orphan)
  <1>3. CASE tenant \in Tenants /\ Go("queue", tenant, x, inject_context_headers(x))
    <2>1. Names(x.bag, tenant)
      BY <1>3, BusinessNames
    <2>2. Names(inject_context_headers(x).bag, tenant)
      BY <1>3, <2>1, InjectNames
    <2> HIDE DEF tenant, x
    <2> QED
      BY <1>1, <1>3, <2>2, GoKeeps DEF Before
  <1> QED
    BY <1>2, <1>3, RefuseKeeps

(* The consumer of orders acts for the tenant of the message.              *)
LEMMA OrdersConsumeKeeps ==
    ASSUME PropagationInv, orders_consume
    PROVE  PropagationInv'
  <1> DEFINE T == acted["orders"]
             ctx == extract_context(carrier)
  <1>1. journey.hop = "queue" /\ "orders" \in DOMAIN acted
    BY DEF orders_consume, At, PropagationInv, ActedInOrder, Before
  <1>2. T \in Tenants /\ Names(carrier.bag, T) /\ \A h \in DOMAIN acted : acted[h] = T
    BY <1>1, SharedTenant
  <1>3. Names(ctx.bag, T)
    BY <1>2, ExtractNames
  <1>4. Go("consumed", T, ctx, carrier) \/ Refuse("dead-lettered")
    BY DEF orders_consume
  <1> HIDE DEF T, ctx
  <1>5. CASE Go("consumed", T, ctx, carrier)
    BY <1>1, <1>2, <1>3, <1>5, GoKeeps DEF Before
  <1> QED
    BY <1>4, <1>5, RefuseKeeps

(* A retry keeps the inbound baggage.                                      *)
LEMMA RepublishKeeps ==
    ASSUME PropagationInv, republish
    PROVE  PropagationInv'
  <1> DEFINE T == acted["queue"]
             c == inject_context_headers(context)
  <1>1. journey.hop = "consumed" /\ "queue" \in DOMAIN acted
    BY DEF republish, At, PropagationInv, ActedInOrder, Before
  <1>2. T \in Tenants /\ \A h \in DOMAIN acted : acted[h] = T
    BY <1>1, SharedTenant
  <1>3. Names(c.bag, T)
    BY <1>1, <1>2, InjectNames DEF PropagationInv, ContextNames
  <1>4. Go("done", T, context, c) \/ Refuse("row unreadable")
    BY DEF republish
  <1> HIDE DEF T, c
  <1>5. CASE Go("done", T, context, c)
    BY <1>1, <1>2, <1>3, <1>5, GoKeeps
  <1> QED
    BY <1>4, <1>5, RefuseKeeps

(* Every hop keeps the invariant.                                          *)
LEMMA PropagationNextInv == PropagationInv /\ [PropagationNext]_propagationVars => PropagationInv'
  <1> SUFFICES ASSUME PropagationInv, [PropagationNext]_propagationVars
               PROVE  PropagationInv'
    OBVIOUS
  <1>1. CASE UNCHANGED propagationVars
    BY <1>1 DEF propagationVars, PropagationInv, JourneyIsRecord, ActedInOrder, CarrierNames, ContextNames,
                NotifyIsDurable, NoneRefused, Names, validate_durable_context,
                validate_trace_headers, validate_baggage_header
  <1> QED
    BY <1>1, ClientSendKeeps, StorefrontKeeps, CheckoutKeeps, DownstreamKeeps, StoreKeeps,
       PublishKeeps, FulfillmentKeeps, NotifyKeeps, JobKeeps, OrdersPublishKeeps,
       OrdersConsumeKeeps, RepublishKeeps DEF PropagationNext

(* All hops of a request act for one tenant, which the carrier names at    *)
(* every hop, and no called service refuses the identity, whatever the     *)
(* client put into body, header and baggage (resolve_http_tenant_identity, *)
(* resolve_grpc_tenant_identity and the baggage functions of the telemetry *)
(* library).                                                               *)
THEOREM OneTenantEverywhere == PropagationSpec => []OneTenantAllTheWay
  <1>1. PropagationInv => OneTenantAllTheWay
    BY DEF PropagationInv, CarrierNames, NoneRefused, OneTenantAllTheWay, Names, baggage_or
  <1> QED
    BY <1>1, PropagationInitInv, PropagationNextInv, PTL DEF PropagationSpec

HIDE PropagationAssumption

-----------------------------------------------------------------------------
(* Quotes and promotions.                                                  *)

USE QuotingAssumption

(* A promotion exists.                                                     *)
Published == promotion # NoPromotion

(* The checks of the promotions table.                                     *)
PromotionOK ==
    /\ DOMAIN promotion = DOMAIN NoPromotion
    /\ promotion.kind \in {"none", "percentage", "fixed"}
    /\ promotion.kind = "none" => promotion = NoPromotion
    /\ promotion.max \in Nat /\ promotion.redeemed \in Nat
    /\ promotion.max > 0 => promotion.redeemed <= promotion.max

(* The lines of a quote are those of a request.                            *)
LinesFrom(r, q) ==
    /\ DOMAIN q.lines = DOMAIN r.items
    /\ \A i \in DOMAIN r.items :
         q.lines[i].sku = r.items[i].sku /\ q.lines[i].quantity = r.items[i].quantity

(* A quote was computed for a request with this fingerprint, and has a     *)
(* discount only if that request has the code.                             *)
Source(print, q) ==
    \E r \in QuoteRequests :
      /\ validate_request(r) /\ stable_request_fingerprint(r) = print /\ LinesFrom(r, q)
      /\ q.discount > 0 => r.code = TRUE

(* A cached quote was computed for a request with its key, and one with a  *)
(* discount while the promotion existed.                                   *)
ShelfOK ==
    \A key \in DOMAIN shelf :
      /\ "discount" \in DOMAIN shelf[key] /\ "lines" \in DOMAIN shelf[key] /\ Source(key, shelf[key])
      /\ shelf[key].discount > 0 => Published

(* The fields of a call in each of its states.                             *)
BuyerShapes ==
    /\ DOMAIN buyer = Buyers
    /\ \A b \in Buyers :
        /\ buyer[b].pc \in {"call", "reply"} =>
             DOMAIN buyer[b] = {"pc", "request", "tries", "reply"} /\ buyer[b].request \in QuoteRequests
        /\ buyer[b].pc \in {"pending", "captured", "paid"} => DOMAIN buyer[b] = {"pc", "code", "discount"}
        /\ buyer[b].pc \in {"idle", "call", "reply", "pending", "captured", "paid", "shown", "failed"}

(* A reply comes from a request with the buyer's fingerprint; a discount   *)
(* in an order goes with the order's code.                                 *)
Earned(r) ==
    /\ r.pc = "reply" /\ IsQuote(r.reply) =>
         /\ validate_request(r.request) /\ Source(stable_request_fingerprint(r.request), r.reply)
         /\ r.reply.discount > 0 => Published
    /\ r.pc \in {"pending", "captured", "paid"} /\ r.discount > 0 => r.code = TRUE /\ Published

(* So it is for every call.                                                *)
DiscountsEarned == \A b \in Buyers : Earned(buyer[b])

(* The discounted orders that are paid.                                    *)
Discounted == {b \in Buyers : buyer[b].pc = "paid" /\ buyer[b].discount > 0}

(* Every one of them was counted by a redemption.                          *)
DiscountsCounted == Cardinality(Discounted) <= promotion.redeemed

(* The inductive invariant of the quotes.                                  *)
QuotingInv ==
    PromotionOK /\ ShelfOK /\ BuyerShapes /\ DiscountsEarned /\ DiscountsCounted

(* No promotion, no quote, no order.                                       *)
LEMMA QuotingInitInv == QuotingInit => QuotingInv
  <1> SUFFICES ASSUME QuotingInit PROVE QuotingInv
    OBVIOUS
  <1>1. Discounted = {}
    BY DEF QuotingInit, Discounted
  <1>2. Cardinality(Discounted) = 0
    BY <1>1, FS_EmptySet
  <1> QED
    BY <1>2 DEF QuotingInit, QuotingInv, PromotionOK, ShelfOK, BuyerShapes, DiscountsEarned, DiscountsCounted,
                Earned, NoPromotion

(* A promotion that cannot be redeemed gives no discount.                  *)
LEMMA NoDiscount ==
    ASSUME NEW lines, NEW subtotal, ~Redeemable(promotion)
    PROVE  promotion_discount(lines, subtotal) = 0
  BY DEF promotion_discount

(* A computed discount needs the code and a promotion that can be          *)
(* redeemed.                                                               *)
LEMMA ComputedDiscount ==
    ASSUME NEW r \in QuoteRequests, ComputedQuote(r).discount > 0
    PROVE  r.code = TRUE /\ Redeemable(promotion)
  BY NoDiscount, SMTT(30) DEF ComputedQuote

(* The fields of a computed quote.                                         *)
LEMMA ComputedShape ==
    ASSUME NEW r \in QuoteRequests
    PROVE  DOMAIN ComputedQuote(r) = {"lines", "subtotal", "discount", "tax", "grand", "version", "left"}
  BY DEF ComputedQuote

(* The lines of a computed quote are those of its request.                 *)
LEMMA ComputedLines ==
    ASSUME NEW r \in QuoteRequests
    PROVE  LinesFrom(r, ComputedQuote(r))
  BY DEF ComputedQuote, LinesFrom

(* A quote that differs in its time alone has the same source.             *)
LEMMA SourceAges ==
    ASSUME NEW print, NEW q, NEW old, Source(print, old), q.lines = old.lines, q.discount = old.discount
    PROVE  Source(print, q)
  BY DEF Source, LinesFrom

(* The fields of one call.                                                 *)
ShapeOK(r) ==
    /\ r.pc \in {"call", "reply"} =>
         DOMAIN r = {"pc", "request", "tries", "reply"} /\ r.request \in QuoteRequests
    /\ r.pc \in {"pending", "captured", "paid"} => DOMAIN r = {"pc", "code", "discount"}
    /\ r.pc \in {"idle", "call", "reply", "pending", "captured", "paid", "shown", "failed"}

(* A call that moves on, and not to a paid order, keeps the invariant.     *)
LEMMA BuyerMoves ==
    ASSUME QuotingInv, NEW b \in Buyers, NEW r, buyer' = [buyer EXCEPT ![b] = r], UNCHANGED promotion,
           ShapeOK(r), Earned(r), buyer[b].pc # "paid", r.pc # "paid", ShelfOK'
    PROVE  QuotingInv'
  <1>1. DOMAIN buyer' = Buyers /\ buyer'[b] = r /\ \A c \in Buyers \ {b} : buyer'[c] = buyer[c]
    BY DEF QuotingInv, BuyerShapes
  <1>2. Discounted' = Discounted
    BY <1>1 DEF Discounted
  <1>3. BuyerShapes' /\ DiscountsEarned'
    BY <1>1 DEF QuotingInv, BuyerShapes, DiscountsEarned, ShapeOK, Earned, Published
  <1> QED
    BY <1>2, <1>3 DEF QuotingInv, PromotionOK, DiscountsCounted

(* A reply whose discount was earned keeps the invariant.                  *)
LEMMA QuoteReplyKeeps ==
    ASSUME QuotingInv, NEW b \in Buyers, NEW reply, buyer[b].pc = "call", Reply(b, reply), UNCHANGED promotion,
           IsQuote(reply) => /\ validate_request(buyer[b].request)
                             /\ Source(stable_request_fingerprint(buyer[b].request), reply)
                             /\ reply.discount > 0 => Published,
           ShelfOK'
    PROVE  QuotingInv'
  <1>1. PICK r : r = [[buyer[b] EXCEPT !.pc = "reply"] EXCEPT !.reply = reply]
    OBVIOUS
  <1>2. buyer' = [buyer EXCEPT ![b] = r]
    BY <1>1 DEF Reply, QuotingInv, BuyerShapes
  <1>3. DOMAIN buyer[b] = {"pc", "request", "tries", "reply"} /\ buyer[b].request \in QuoteRequests
    BY DEF QuotingInv, BuyerShapes
  <1>4. DOMAIN r = {"pc", "request", "tries", "reply"} /\ r.pc = "reply" /\ r.reply = reply
          /\ r.request = buyer[b].request
    BY <1>1, <1>3
  <1> QED
    BY <1>2, <1>3, <1>4, BuyerMoves DEF ShapeOK, Earned

(* A call that is over holds no discount.                                  *)
LEMMA OverKeeps ==
    ASSUME QuotingInv, NEW b \in Buyers, NEW how \in {"shown", "failed"}, buyer[b].pc = "reply",
           buyer' = [buyer EXCEPT ![b] = Over(how)], UNCHANGED <<promotion, shelf>>
    PROVE  QuotingInv'
  <1>1. ShelfOK'
    BY DEF QuotingInv, ShelfOK, Published
  <1>2. PICK r : r = Over(how)
    OBVIOUS
  <1>3. r.pc = how
    BY <1>2 DEF Over
  <1>4. ShapeOK(r) /\ Earned(r)
    BY <1>3 DEF ShapeOK, Earned
  <1>5. r.pc # "paid" /\ buyer[b].pc # "paid"
    BY <1>3
  <1> QED
    BY <1>1, <1>2, <1>4, <1>5, BuyerMoves

(* A new call has no reply yet.                                            *)
LEMMA AskKeeps ==
    ASSUME QuotingInv, NEW b \in Buyers, Ask(b)
    PROVE  QuotingInv'
  <1>1. PICK r \in QuoteRequests :
          buyer' = [buyer EXCEPT ![b] = [pc |-> "call", request |-> r, tries |-> 1, reply |-> Status("none")]]
    BY DEF Ask
  <1>2. ShelfOK'
    BY DEF Ask, QuotingInv, ShelfOK, Published
  <1>3. PICK asking : asking = [pc |-> "call", request |-> r, tries |-> 1, reply |-> Status("none")]
    OBVIOUS
  <1>4. ShapeOK(asking) /\ Earned(asking) /\ asking.pc = "call"
    BY <1>3 DEF ShapeOK, Earned
  <1>5. buyer[b].pc = "idle" /\ UNCHANGED promotion
    BY DEF Ask
  <1>6. buyer' = [buyer EXCEPT ![b] = asking]
    BY <1>1, <1>3
  <1>7. buyer[b].pc # "paid" /\ asking.pc # "paid"
    BY <1>4, <1>5
  <1> QED
    BY <1>2, <1>4, <1>5, <1>6, <1>7, BuyerMoves

(* A cached quote is found under the fingerprint of its source.            *)
LEMMA HitKeeps ==
    ASSUME QuotingInv, NEW b \in Buyers, QuoteHit(b)
    PROVE  QuotingInv'
  <1> DEFINE key == stable_request_fingerprint(buyer[b].request)
  <1>1. /\ key \in DOMAIN shelf /\ buyer[b].pc = "call" /\ UNCHANGED <<promotion, book, shelf>>
        /\ validate_request(buyer[b].request)
    BY DEF QuoteHit
  <1>2. PICK left \in {shelf[key].left, 0} : Reply(b, to_proto([shelf[key] EXCEPT !.left = left]))
    BY DEF QuoteHit
  <1>3. PICK q : q = [shelf[key] EXCEPT !.left = left]
    OBVIOUS
  <1> HIDE DEF key
  <1>5. q.discount = shelf[key].discount /\ q.lines = shelf[key].lines
    BY <1>1, <1>3 DEF QuotingInv, ShelfOK
  <1>4. Source(key, q)
    BY <1>1, <1>5, SourceAges DEF QuotingInv, ShelfOK
  <1>6. IsQuote(to_proto(q)) => to_proto(q) = q
    BY DEF to_proto, IsQuote, Status
  <1>7. ShelfOK'
    BY <1>1 DEF QuotingInv, ShelfOK, Published
  <1>8. PICK reply : reply = to_proto(q)
    OBVIOUS
  <1>9. IsQuote(reply) => Source(key, reply) /\ (reply.discount > 0 => Published)
    BY <1>1, <1>4, <1>5, <1>6, <1>8 DEF QuotingInv, ShelfOK
  <1> QED
    BY <1>1, <1>2, <1>3, <1>7, <1>8, <1>9, QuoteReplyKeeps DEF key

(* A computed quote is replied and perhaps cached.                         *)
LEMMA MissKeeps ==
    ASSUME QuotingInv, NEW b \in Buyers, QuoteMiss(b)
    PROVE  QuotingInv'
  <1> DEFINE asked == buyer[b].request
             key == stable_request_fingerprint(asked)
  <1>1. buyer[b].pc = "call" /\ UNCHANGED promotion /\ asked \in QuoteRequests /\ validate_request(asked)
    BY DEF QuoteMiss, QuotingInv, BuyerShapes
  <1>2. PICK q : q = ComputedQuote(asked)
    OBVIOUS
  <1>3. /\ Reply(b, to_proto(q))
        /\ shelf' \in {shelf, [k \in DOMAIN shelf \cup {key} |-> IF k = key THEN q ELSE shelf[k]]}
    BY <1>2 DEF QuoteMiss
  <1>4. "discount" \in DOMAIN q /\ "lines" \in DOMAIN q /\ (q.discount > 0 => asked.code = TRUE /\ Redeemable(promotion))
    BY <1>1, <1>2, ComputedDiscount, ComputedShape
  <1>5. Redeemable(promotion) => Published
    BY DEF Redeemable, Published, NoPromotion
  <1>6. Source(key, q)
    BY <1>1, <1>2, <1>4, ComputedLines DEF Source
  <1> HIDE DEF key, asked
  <1>7. ShelfOK'
    BY <1>1, <1>3, <1>4, <1>5, <1>6 DEF QuotingInv, ShelfOK, Published
  <1>8. PICK reply : reply = to_proto(q)
    OBVIOUS
  <1>9. IsQuote(reply) => Source(key, reply) /\ (reply.discount > 0 => Published)
    BY <1>4, <1>5, <1>6, <1>8 DEF to_proto, IsQuote, Status
  <1> QED
    BY <1>1, <1>3, <1>7, <1>8, <1>9, QuoteReplyKeeps DEF key, asked

(* An error carries no discount.                                           *)
LEMMA StatusKeeps ==
    ASSUME QuotingInv, NEW b \in Buyers, QuoteRefused(b) \/ PricingDown(b)
    PROVE  QuotingInv'
  <1>1. PICK code : Reply(b, Status(code))
    BY DEF QuoteRefused, PricingDown
  <1>2. buyer[b].pc = "call" /\ UNCHANGED <<promotion, shelf>>
    BY DEF QuoteRefused, PricingDown
  <1>3. ShelfOK'
    BY <1>2 DEF QuotingInv, ShelfOK, Published
  <1>4. ~IsQuote(Status(code))
    BY DEF IsQuote, Status
  <1> QED
    BY <1>1, <1>2, <1>3, <1>4, QuoteReplyKeeps

(* A retry, or the end of the retries.                                     *)
LEMMA RetryKeeps ==
    ASSUME QuotingInv, NEW b \in Buyers, RetryQuote(b)
    PROVE  QuotingInv'
  <1>1. buyer[b].pc = "reply" /\ UNCHANGED <<promotion, shelf>>
    BY DEF RetryQuote
  <1>2. \/ buyer' = [buyer EXCEPT ![b].pc = "call", ![b].tries = @ + 1]
        \/ buyer' = [buyer EXCEPT ![b] = Over("failed")]
    BY DEF RetryQuote
  <1>3. CASE buyer' = [buyer EXCEPT ![b].pc = "call", ![b].tries = @ + 1]
    <2>1. PICK r : r = [[buyer[b] EXCEPT !.pc = "call"] EXCEPT !.tries = @ + 1]
      OBVIOUS
    <2>2. DOMAIN buyer[b] = {"pc", "request", "tries", "reply"} /\ buyer[b].request \in QuoteRequests
      BY <1>1 DEF QuotingInv, BuyerShapes
    <2>3. DOMAIN r = {"pc", "request", "tries", "reply"} /\ r.pc = "call" /\ r.request = buyer[b].request
      BY <2>1, <2>2
    <2>4. buyer' = [buyer EXCEPT ![b] = r]
      BY <1>3, <2>1, <2>2 DEF QuotingInv, BuyerShapes
    <2>5. ShelfOK'
      BY <1>1 DEF QuotingInv, ShelfOK, Published
    <2> QED
      BY <1>1, <2>2, <2>3, <2>4, <2>5, BuyerMoves DEF ShapeOK, Earned
  <1> QED
    BY <1>1, <1>2, <1>3, OverKeeps

(* Checkout compares the lines: an accepted quote comes from a request     *)
(* with the same items, and so with the same code.                         *)
LEMMA OwnCode ==
    ASSUME NEW s \in QuoteRequests, validate_request(s), NEW q,
           Source(stable_request_fingerprint(s), q), validate_quote_response(s, q), q.discount > 0
    PROVE  s.code = TRUE
  <1>1. PICK r \in QuoteRequests :
          /\ validate_request(r) /\ stable_request_fingerprint(r) = stable_request_fingerprint(s)
          /\ LinesFrom(r, q) /\ r.code = TRUE
    BY DEF Source
  <1>2. ASSUME NEW i \in DOMAIN r.items
        PROVE  \E j \in DOMAIN s.items : s.items[j] = r.items[i]
    <2>1. /\ i \in DOMAIN q.lines /\ q.lines[i].sku = r.items[i].sku
          /\ q.lines[i].quantity = r.items[i].quantity
      BY <1>1 DEF LinesFrom
    <2>2. PICK j \in DOMAIN s.items : s.items[j] = [sku |-> q.lines[i].sku, quantity |-> q.lines[i].quantity]
      BY <2>1 DEF validate_quote_response
    <2>3. PICK S : S = [sku : STRING, quantity : Int]
      OBVIOUS
    <2>4. r.items \in Seq(S)
      BY <2>3
    <2>5. r.items[i] \in S
      BY <2>4
    <2>6. r.items[i] = [sku |-> r.items[i].sku, quantity |-> r.items[i].quantity]
      BY <2>3, <2>5
    <2> QED
      BY <2>1, <2>2, <2>6
  <1> QED
    BY <1>1, <1>2, CodeAssumption

(* The order takes code and discount from request and quote.               *)
LEMMA PlaceKeeps ==
    ASSUME QuotingInv, NEW b \in Buyers, ShowQuote(b) \/ PlaceOrder(b)
    PROVE  QuotingInv'
  <1>1. buyer[b].pc = "reply" /\ IsQuote(buyer[b].reply) /\ UNCHANGED <<promotion, shelf>>
    BY DEF ShowQuote, PlaceOrder
  <1> DEFINE r == [pc |-> "pending", code |-> buyer[b].request.code, discount |-> buyer[b].reply.discount]
  <1>2. \/ \E how \in {"shown", "failed"} : buyer' = [buyer EXCEPT ![b] = Over(how)]
        \/ buyer' = [buyer EXCEPT ![b] = r] /\ validate_quote_response(buyer[b].request, buyer[b].reply)
    BY DEF ShowQuote, PlaceOrder, QuotingInv, BuyerShapes
  <1>3. CASE buyer' = [buyer EXCEPT ![b] = r] /\ validate_quote_response(buyer[b].request, buyer[b].reply)
    <2>1. Earned(r)
      <3>1. /\ buyer[b].request \in QuoteRequests /\ validate_request(buyer[b].request)
            /\ Source(stable_request_fingerprint(buyer[b].request), buyer[b].reply)
            /\ buyer[b].reply.discount > 0 => Published
        BY <1>1 DEF QuotingInv, BuyerShapes, DiscountsEarned, Earned
      <3>2. buyer[b].reply.discount > 0 => buyer[b].request.code = TRUE
        BY <1>3, <3>1, OwnCode
      <3> QED
        BY <3>1, <3>2 DEF Earned
    <2>2. ShapeOK(r) /\ r.pc = "pending"
      BY DEF ShapeOK
    <2>3. ShelfOK'
      BY <1>1 DEF QuotingInv, ShelfOK, Published
    <2> HIDE DEF r
    <2> QED
      BY <1>1, <1>3, <2>1, <2>2, <2>3, BuyerMoves
  <1> QED
    BY <1>1, <1>2, <1>3, OverKeeps

(* The capture leaves the order's amounts alone.                           *)
LEMMA CaptureKeeps ==
    ASSUME QuotingInv, NEW b \in Buyers, CaptureOrder(b)
    PROVE  QuotingInv'
  <1>1. PICK r : r = [buyer[b] EXCEPT !.pc = "captured"]
    OBVIOUS
  <1>2. DOMAIN buyer[b] = {"pc", "code", "discount"} /\ buyer[b].pc = "pending"
    BY DEF CaptureOrder, QuotingInv, BuyerShapes
  <1>3. DOMAIN r = {"pc", "code", "discount"} /\ r.pc = "captured" /\ r.code = buyer[b].code
          /\ r.discount = buyer[b].discount
    BY <1>1, <1>2
  <1>4. buyer' = [buyer EXCEPT ![b] = r] /\ UNCHANGED <<promotion, shelf>>
    BY <1>1 DEF CaptureOrder
  <1>5. ShelfOK'
    BY <1>4 DEF QuotingInv, ShelfOK, Published
  <1>6. Earned(r)
    BY <1>2, <1>3 DEF QuotingInv, DiscountsEarned, Earned
  <1> QED
    BY <1>2, <1>3, <1>4, <1>5, <1>6, BuyerMoves DEF ShapeOK

(* The redemption is counted in the transaction that makes the order paid. *)
LEMMA FinalizeKeeps ==
    ASSUME QuotingInv, NEW b \in Buyers, FinalizeQuoted(b)
    PROVE  QuotingInv'
  <1>1. PICK r : r = [buyer[b] EXCEPT !.pc = "paid"]
    OBVIOUS
  <1>2. DOMAIN buyer[b] = {"pc", "code", "discount"} /\ buyer[b].pc = "captured"
    BY DEF FinalizeQuoted, QuotingInv, BuyerShapes
  <1>3. DOMAIN r = {"pc", "code", "discount"} /\ r.pc = "paid" /\ r.code = buyer[b].code
          /\ r.discount = buyer[b].discount
    BY <1>1, <1>2
  <1>4. buyer' = [buyer EXCEPT ![b] = r] /\ shelf' = shelf
    BY <1>1 DEF FinalizeQuoted
  <1>5. DOMAIN buyer' = Buyers /\ buyer'[b] = r /\ \A c \in Buyers \ {b} : buyer'[c] = buyer[c]
    BY <1>4 DEF QuotingInv, BuyerShapes
  <1>6. PICK n \in Nat : n = IF buyer[b].code THEN promotion.redeemed + 1 ELSE promotion.redeemed
    BY DEF QuotingInv, PromotionOK
  <1>7. promotion' = [promotion EXCEPT !.redeemed = n]
    BY <1>6 DEF FinalizeQuoted
  <1>8. /\ promotion'.redeemed = n /\ promotion'.max = promotion.max /\ promotion'.kind = promotion.kind
        /\ DOMAIN promotion' = DOMAIN NoPromotion
    BY <1>7 DEF QuotingInv, PromotionOK, NoPromotion
  <1>9. buyer[b].code => Redeemable(promotion)
    BY DEF FinalizeQuoted, RedeemPromotion
  <1>10. PromotionOK' /\ (Published => Published')
    <2>1. promotion.kind = "none" => ~Redeemable(promotion)
      BY DEF QuotingInv, PromotionOK, Redeemable, NoPromotion
    <2>2. promotion.kind = "none" => promotion' = promotion
      BY <1>6, <1>7, <1>9, <2>1 DEF QuotingInv, PromotionOK, NoPromotion
    <2>3. promotion.max > 0 => n <= promotion.max
      BY <1>6, <1>9 DEF QuotingInv, PromotionOK, Redeemable
    <2>4. promotion.kind # "none" => promotion' # NoPromotion
      BY <1>8 DEF NoPromotion
    <2> QED
      BY <1>8, <2>2, <2>3, <2>4 DEF QuotingInv, PromotionOK, Published
  <1>11. ShelfOK' /\ BuyerShapes'
    BY <1>3, <1>4, <1>5, <1>10 DEF QuotingInv, ShelfOK, BuyerShapes
  <1>12. DiscountsEarned'
    BY <1>2, <1>3, <1>5, <1>10 DEF QuotingInv, DiscountsEarned, Earned
  <1>13. DiscountsCounted'
    <2>1. b \notin Discounted /\ IsFiniteSet(Discounted)
      BY <1>2, FS_Subset DEF Discounted
    <2>2. CASE r.discount > 0
      <3>1. Discounted' = Discounted \cup {b}
        BY <1>3, <1>5, <2>2 DEF Discounted
      <3>2. Cardinality(Discounted') = Cardinality(Discounted) + 1
        BY <2>1, <3>1, FS_AddElement
      <3>3. n = promotion.redeemed + 1
        BY <1>2, <1>3, <1>6, <2>2 DEF QuotingInv, DiscountsEarned, Earned
      <3>4. Cardinality(Discounted) \in Nat
        BY <2>1, FS_CardinalityType
      <3> QED
        BY <1>8, <3>2, <3>3, <3>4 DEF QuotingInv, DiscountsCounted, PromotionOK
    <2>3. CASE ~(r.discount > 0)
      <3>1. Discounted' = Discounted
        BY <1>2, <1>3, <1>5, <2>3 DEF Discounted
      <3>2. Cardinality(Discounted) \in Nat /\ n >= promotion.redeemed
        BY <2>1, <1>6, FS_CardinalityType DEF QuotingInv, PromotionOK
      <3> QED
        BY <1>8, <3>1, <3>2 DEF QuotingInv, DiscountsCounted, PromotionOK
    <2> QED
      BY <2>2, <2>3
  <1> QED
    BY <1>10, <1>11, <1>12, <1>13 DEF QuotingInv

(* A promotion that appears or ends leaves the count of redemptions behind *)
(* the discounts alone.                                                    *)
LEMMA PromotionMoves ==
    ASSUME QuotingInv, UNCHANGED <<shelf, buyer>>, PromotionOK', Published => Published',
           Published => promotion'.redeemed = promotion.redeemed
    PROVE  QuotingInv'
  <1>1. ShelfOK' /\ BuyerShapes' /\ DiscountsEarned'
    BY DEF QuotingInv, ShelfOK, BuyerShapes, DiscountsEarned, Earned
  <1>2. Discounted' = Discounted
    BY DEF Discounted
  <1>3. CASE Published
    BY <1>1, <1>2, <1>3 DEF QuotingInv, DiscountsCounted
  <1>4. CASE ~Published
    <2>1. Discounted = {}
      BY <1>4 DEF QuotingInv, DiscountsEarned, Earned, Discounted
    <2>2. Cardinality(Discounted') = 0
      BY <1>2, <2>1, FS_EmptySet
    <2> QED
      BY <1>1, <2>2 DEF QuotingInv, DiscountsCounted, PromotionOK
  <1> QED
    BY <1>3, <1>4

(* A new promotion finds no discounts.                                     *)
LEMMA PublishPromotionKeeps ==
    ASSUME QuotingInv, PublishPromotion
    PROVE  QuotingInv'
  <1>1. PICK p \in Promotions : promotion' = p
    BY DEF PublishPromotion
  <1>2. PromotionOK'
    BY <1>1 DEF PromotionOK
  <1> QED
    BY <1>1, <1>2, PromotionMoves DEF PublishPromotion, Published

(* The end of a promotion keeps its count.                                 *)
LEMMA EndPromotionKeeps ==
    ASSUME QuotingInv, EndPromotion
    PROVE  QuotingInv'
  <1>1. promotion # NoPromotion /\ promotion.kind # "none"
    BY DEF EndPromotion, NoPromotion, QuotingInv, PromotionOK
  <1>2. /\ promotion'.redeemed = promotion.redeemed /\ promotion'.max = promotion.max
        /\ promotion'.kind = promotion.kind /\ DOMAIN promotion' = DOMAIN NoPromotion
    BY DEF EndPromotion, QuotingInv, PromotionOK, NoPromotion
  <1>3. promotion' # NoPromotion
    BY <1>1, <1>2 DEF NoPromotion
  <1>4. PromotionOK'
    BY <1>1, <1>2 DEF QuotingInv, PromotionOK
  <1> QED
    BY <1>2, <1>3, <1>4, PromotionMoves DEF EndPromotion, Published

(* An aging cache entry keeps its amounts.                                 *)
LEMMA AgeKeeps ==
    ASSUME QuotingInv, NEW key \in DOMAIN shelf, AgeQuote(key)
    PROVE  QuotingInv'
  <1>1. PICK n : n = IF shelf[key].left > 1 THEN 1 ELSE 0
    OBVIOUS
  <1>2. shelf' = [shelf EXCEPT ![key].left = n] /\ UNCHANGED <<promotion, buyer>>
    BY <1>1 DEF AgeQuote
  <1>3. DOMAIN shelf' = DOMAIN shelf /\ \A k \in DOMAIN shelf :
          /\ "discount" \in DOMAIN shelf'[k] /\ shelf'[k].discount = shelf[k].discount
          /\ "lines" \in DOMAIN shelf'[k] /\ shelf'[k].lines = shelf[k].lines
    BY <1>2 DEF QuotingInv, ShelfOK
  <1>4. ShelfOK'
    BY <1>2, <1>3, SourceAges DEF QuotingInv, ShelfOK, Published
  <1>5. Discounted' = Discounted
    BY <1>2 DEF Discounted
  <1> QED
    BY <1>2, <1>4, <1>5 DEF QuotingInv, PromotionOK, BuyerShapes, DiscountsEarned, DiscountsCounted, Earned,
                            Published

(* Every step keeps the invariant.                                         *)
LEMMA QuotingNextInv == QuotingInv /\ [QuotingNext]_quotingVars => QuotingInv'
  <1> SUFFICES ASSUME QuotingInv, [QuotingNext]_quotingVars
               PROVE  QuotingInv'
    OBVIOUS
  <1>1. CASE UNCHANGED <<promotion, shelf, buyer>>
    <2>1. PromotionOK' /\ (Published => Published')
      BY <1>1 DEF QuotingInv, PromotionOK, Published
    <2> QED
      BY <1>1, <2>1, PromotionMoves
  <1>2. CASE ChangePrices \/ UNCHANGED quotingVars
    BY <1>1, <1>2 DEF ChangePrices, quotingVars
  <1> QED
    BY <1>2, AskKeeps, HitKeeps, MissKeeps, StatusKeeps, RetryKeeps, PlaceKeeps, CaptureKeeps, FinalizeKeeps,
       PublishPromotionKeeps, EndPromotionKeeps, AgeKeeps DEF QuotingNext

(* No more discounted orders are paid than the promotion has redemptions,  *)
(* however many buyers hold quotes for the last one, for any requests,     *)
(* prices and promotions (promotion_discount of pricing and the redemption *)
(* in finalize_order of checkout).                                         *)
THEOREM PromotionBudgetKept == QuotingSpec => []DiscountsWithinBudget
  <1>1. QuotingInv => DiscountsWithinBudget
    <2> SUFFICES ASSUME QuotingInv, promotion.max > 0
                 PROVE  Cardinality(Discounted) <= promotion.max
      BY DEF DiscountsWithinBudget, Discounted
    <2>1. Cardinality(Discounted) \in Nat
      BY FS_Subset, FS_CardinalityType DEF Discounted
    <2> QED
      BY <2>1 DEF QuotingInv, DiscountsCounted, PromotionOK
  <1> QED
    BY <1>1, QuotingInitInv, QuotingNextInv, PTL DEF QuotingSpec

(* A line of a quote, and a quote for some items.                          *)
LineFor(item, line) ==
    /\ line.sku = item.sku /\ line.quantity = item.quantity
    /\ line.unit \in Nat /\ line.total = line.unit * line.quantity
QuoteFor(items, q) ==
    /\ DOMAIN q = {"lines", "subtotal", "discount", "tax", "grand", "version", "left"}
    /\ q.lines = [i \in DOMAIN items |-> q.lines[i]]
    /\ \A i \in DOMAIN items : LineFor(items[i], q.lines[i])
    /\ q.subtotal = SumOf(q.lines, DOMAIN q.lines)
    /\ q.discount \in 0..q.subtotal
    /\ q.grand = q.subtotal - q.discount + q.tax
    /\ q.left \in Nat

(* A quote is one for a request with this fingerprint.                     *)
FitsPrint(print, q) ==
    \E r \in QuoteRequests :
      validate_request(r) /\ stable_request_fingerprint(r) = print /\ QuoteFor(r.items, q)

(* A reply that is a quote is one for a request with the fingerprint of    *)
(* the buyer's, and still valid.                                           *)
ReplyFor(r) ==
    r.pc = "reply" /\ IsQuote(r.reply) =>
      /\ FitsPrint(stable_request_fingerprint(r.request), r.reply)
      /\ remaining_validity_seconds(r.reply) > 0

(* The cache holds every quote under the fingerprint of its request.       *)
ShelfFits == \A key \in DOMAIN shelf : FitsPrint(key, shelf[key])

(* The inductive invariant of the amounts.                                 *)
AmountsInv ==
    /\ book \in 1..Len(PriceBooks)
    /\ promotion.value \in Nat
    /\ ShelfFits
    /\ \A b \in Buyers : ReplyFor(buyer[b])

(* There are finitely many minor units in finitely many lines, and no more *)
(* in some of the lines than in all of them.                               *)
LEMMA SumIsMonotone ==
    ASSUME NEW lines, NEW S, IsFiniteSet(S), \A i \in S : lines[i].total \in Nat, NEW T \in SUBSET S
    PROVE  SumOf(lines, T) \in Nat /\ SumOf(lines, S) \in Nat /\ SumOf(lines, T) <= SumOf(lines, S)
  <1> DEFINE U(i) == {i} \X (1..lines[i].total)
             F == {U(i) : i \in S}
             f == [i \in S |-> U(i)]
  <1>1. IsFiniteSet(F)
    <2>1. f \in [S -> F] /\ \A u \in F : \E i \in S : f[i] = u
      OBVIOUS
    <2> HIDE DEF f, F
    <2>2. f \in Surjection(S, F)
      BY <2>1 DEF Surjection
    <2> QED
      BY <2>2, FS_Surjection
  <1>2. \A u \in F : IsFiniteSet(u)
    <2> SUFFICES ASSUME NEW i \in S PROVE IsFiniteSet(U(i))
      OBVIOUS
    <2>1. IsFiniteSet({i})
      BY FS_Singleton
    <2>2. IsFiniteSet(1..lines[i].total)
      BY FS_Interval
    <2> QED
      BY <2>1, <2>2, FS_Product
  <1>3. IsFiniteSet(UNION F)
    <2> HIDE DEF F
    <2> QED
      BY <1>1, <1>2, FS_UNION
  <1>4. MinorUnits(lines, S) = UNION F /\ MinorUnits(lines, T) \subseteq MinorUnits(lines, S)
    BY DEF MinorUnits
  <1> HIDE DEF F
  <1>5. IsFiniteSet(MinorUnits(lines, S))
    BY <1>3, <1>4
  <1>6. /\ IsFiniteSet(MinorUnits(lines, T))
        /\ Cardinality(MinorUnits(lines, T)) <= Cardinality(MinorUnits(lines, S))
    BY <1>4, <1>5, FS_Subset
  <1> QED
    BY <1>5, <1>6, FS_CardinalityType DEF SumOf

(* The smaller of two numbers.                                             *)
LEMMA SmallerOfTwo ==
    ASSUME NEW x \in Nat, NEW y \in Nat
    PROVE  Min({x, y}) \in Nat /\ Min({x, y}) <= y
  <1>1. \E m \in {x, y} : \A n \in {x, y} : m <= n
    <2>1. CASE x <= y
      BY <2>1
    <2>2. CASE ~(x <= y)
      BY <2>2
    <2> QED
      BY <2>1, <2>2
  <1>2. Min({x, y}) \in {x, y} /\ \A n \in {x, y} : Min({x, y}) <= n
    BY <1>1, Zenon DEF Min
  <1> QED
    BY <1>2

(* A discount is not negative and not above the subtotal.                  *)
LEMMA DiscountFits ==
    ASSUME promotion.value \in Nat, NEW lines, IsFiniteSet(DOMAIN lines),
           \A i \in DOMAIN lines : lines[i].total \in Nat
    PROVE  promotion_discount(lines, SumOf(lines, DOMAIN lines)) \in 0..SumOf(lines, DOMAIN lines)
  <1> DEFINE subtotal == SumOf(lines, DOMAIN lines)
             scoped == {i \in DOMAIN lines : lines[i].sku \in promotion.scope}
             eligible == SumOf(lines, scoped)
             raw == IF promotion.kind = "percentage"
                    THEN (2 * eligible * promotion.value + 100) \div 200
                    ELSE promotion.value
  <1>1. eligible \in Nat /\ subtotal \in Nat /\ eligible <= subtotal
    <2>1. scoped \in SUBSET DOMAIN lines
      OBVIOUS
    <2> HIDE DEF scoped
    <2> QED
      BY <2>1, SumIsMonotone
  <1> HIDE DEF eligible, subtotal
  <1>2. raw \in Nat
    <2>1. PICK a \in Nat : a = 2 * eligible
      BY <1>1
    <2>2. PICK v \in Nat : v = promotion.value
      OBVIOUS
    <2>3. PICK x \in Nat : x = a * v
      OBVIOUS
    <2>4. (x + 100) \div 200 \in Nat
      OBVIOUS
    <2> QED
      BY <2>1, <2>2, <2>3, <2>4
  <1> HIDE DEF raw
  <1>3. Min({raw, eligible}) \in Nat /\ Min({raw, eligible}) <= eligible
    BY <1>1, <1>2, SmallerOfTwo
  <1>4. Min({raw, eligible}) \in 0..subtotal /\ 0 \in 0..subtotal
    BY <1>1, <1>3
  <1>5. promotion_discount(lines, subtotal)
          = IF Redeemable(promotion) /\ promotion.minimum <= subtotal THEN Min({raw, eligible}) ELSE 0
    BY DEF promotion_discount, raw, eligible
  <1>6. promotion_discount(lines, subtotal) \in 0..subtotal
    BY <1>4, <1>5
  <1> QED
    BY <1>6 DEF subtotal

(* A computed quote is a quote for its request.                            *)
LEMMA ComputedFits ==
    ASSUME AmountsInv, NEW r \in QuoteRequests, validate_request(r), Priced(r)
    PROVE  QuoteFor(r.items, ComputedQuote(r))
  <1> DEFINE prices == PriceBooks[book]
             lines == [i \in DOMAIN r.items |->
                       [sku |-> r.items[i].sku, quantity |-> r.items[i].quantity,
                        unit |-> prices[r.items[i].sku],
                        total |-> prices[r.items[i].sku] * r.items[i].quantity]]
             subtotal == SumOf(lines, DOMAIN lines)
             discount == IF r.code THEN promotion_discount(lines, subtotal) ELSE 0
  <1>2. \A i \in DOMAIN r.items : r.items[i].quantity \in Nat
    BY DEF validate_request
  <1>3. \A i \in DOMAIN r.items : prices[r.items[i].sku] \in Nat
    BY DEF Priced, AmountsInv
  <1> HIDE DEF prices
  <1>4. \A i \in DOMAIN r.items : LineFor(r.items[i], lines[i]) /\ lines[i].total \in Nat
    BY <1>2, <1>3 DEF LineFor
  <1>5. DOMAIN lines = DOMAIN r.items /\ lines = [i \in DOMAIN r.items |-> lines[i]]
    OBVIOUS
  <1>6. IsFiniteSet(DOMAIN lines)
    <2>1. DOMAIN r.items = 1..Len(r.items) /\ Len(r.items) \in Int
      OBVIOUS
    <2> QED
      BY <1>5, <2>1, FS_Interval
  <1>7. ComputedQuote(r) = [lines |-> lines, subtotal |-> subtotal, discount |-> discount, tax |-> 0,
                            grand |-> subtotal - discount, version |-> book, left |-> 45000]
    BY DEF ComputedQuote, prices
  <1> HIDE DEF lines
  <1>8. subtotal \in Nat
    BY <1>4, <1>5, <1>6, SumIsMonotone
  <1>9. discount \in 0..subtotal
    <2>1. promotion_discount(lines, subtotal) \in 0..subtotal
      BY <1>4, <1>5, <1>6, DiscountFits DEF AmountsInv
    <2> HIDE DEF subtotal
    <2> QED
      BY <1>8, <2>1
  <1> HIDE DEF discount
  <1>10. PICK q : q = ComputedQuote(r)
    OBVIOUS
  <1>11. /\ DOMAIN q = {"lines", "subtotal", "discount", "tax", "grand", "version", "left"}
         /\ q.lines = lines /\ q.subtotal = subtotal /\ q.discount = discount /\ q.tax = 0
         /\ q.grand = subtotal - discount /\ q.left = 45000
    <2> HIDE DEF subtotal
    <2> QED
      BY <1>7, <1>10
  <1>12. q.grand = q.subtotal - q.discount + q.tax
    <2> HIDE DEF subtotal
    <2> QED
      BY <1>8, <1>9, <1>11
  <1>13. PICK items : items = r.items
    OBVIOUS
  <1>14. q.lines = [i \in DOMAIN items |-> q.lines[i]] /\ \A i \in DOMAIN items : LineFor(items[i], q.lines[i])
    <2>1. DOMAIN items = DOMAIN r.items /\ q.lines = [i \in DOMAIN r.items |-> q.lines[i]]
      BY <1>5, <1>11, <1>13
    <2>2. \A i \in DOMAIN r.items : LineFor(items[i], q.lines[i])
      BY <1>4, <1>11, <1>13
    <2> QED
      BY <2>1, <2>2
  <1>15. /\ q.subtotal = SumOf(q.lines, DOMAIN q.lines) /\ q.discount \in 0..q.subtotal
         /\ q.left \in Nat
    BY <1>9, <1>11
  <1> HIDE DEF subtotal
  <1>16. QuoteFor(items, q)
    BY <1>11, <1>12, <1>14, <1>15 DEF QuoteFor
  <1> QED
    BY <1>10, <1>13, <1>16

(* Only the time that is left of a quote may change.                       *)
LEMMA QuoteAges ==
    ASSUME NEW print, NEW q, FitsPrint(print, q), NEW left \in Nat
    PROVE  FitsPrint(print, [q EXCEPT !.left = left])
  <1>0. PICK r \in QuoteRequests :
          validate_request(r) /\ stable_request_fingerprint(r) = print /\ QuoteFor(r.items, q)
    BY DEF FitsPrint
  <1>1. PICK p : p = [q EXCEPT !.left = left]
    OBVIOUS
  <1>2. /\ DOMAIN p = DOMAIN q /\ p.lines = q.lines /\ p.subtotal = q.subtotal
        /\ p.discount = q.discount /\ p.tax = q.tax /\ p.grand = q.grand /\ p.left = left
    BY <1>0, <1>1 DEF QuoteFor
  <1>3. QuoteFor(r.items, p)
    BY <1>0, <1>2 DEF QuoteFor
  <1> QED
    BY <1>0, <1>1, <1>3 DEF FitsPrint

(* Time left is a number.                                                  *)
LEMMA TimeLeft ==
    ASSUME NEW print, NEW q, FitsPrint(print, q)
    PROVE  q.left \in Nat
  BY DEF FitsPrint, QuoteFor

(* What is sent is the quote while it is valid.                            *)
LEMMA ProtoFits ==
    ASSUME NEW print, NEW q, FitsPrint(print, q), IsQuote(to_proto(q))
    PROVE  FitsPrint(print, to_proto(q)) /\ remaining_validity_seconds(to_proto(q)) > 0
  <1>1. remaining_validity_seconds(q) # 0 /\ to_proto(q) = q
    BY DEF to_proto, IsQuote, Status
  <1>2. q.left \in Nat
    BY TimeLeft
  <1>3. remaining_validity_seconds(q) \in Nat
    BY <1>2 DEF remaining_validity_seconds
  <1> QED
    BY <1>1, <1>3

(* Nothing was quoted.                                                     *)
LEMMA AmountsInit == QuotingInit => AmountsInv
  BY DEF QuotingInit, AmountsInv, ShelfFits, ReplyFor, NoPromotion

(* A call that moves on.                                                   *)
LEMMA AmountsMove ==
    ASSUME QuotingInv, AmountsInv, NEW b \in Buyers, NEW r, buyer' = [buyer EXCEPT ![b] = r],
           ReplyFor(r), UNCHANGED book, promotion'.value = promotion.value, ShelfFits'
    PROVE  AmountsInv'
  <1>1. buyer'[b] = r /\ \A c \in Buyers \ {b} : buyer'[c] = buyer[c]
    BY DEF QuotingInv, BuyerShapes
  <1>2. ASSUME NEW c \in Buyers PROVE ReplyFor(buyer'[c])
    BY <1>1 DEF AmountsInv
  <1>3. (\A c \in Buyers : ReplyFor(buyer[c]))'
    BY <1>2 DEF ReplyFor
  <1> QED
    BY <1>3 DEF AmountsInv

(* A reply.                                                                *)
LEMMA AmountsReply ==
    ASSUME QuotingInv, AmountsInv, NEW b \in Buyers, NEW reply, buyer[b].pc = "call", Reply(b, reply),
           IsQuote(reply) => /\ FitsPrint(stable_request_fingerprint(buyer[b].request), reply)
                             /\ remaining_validity_seconds(reply) > 0,
           UNCHANGED <<promotion, book>>, ShelfFits'
    PROVE  AmountsInv'
  <1>1. PICK r : r = [[buyer[b] EXCEPT !.pc = "reply"] EXCEPT !.reply = reply]
    OBVIOUS
  <1>2. buyer' = [buyer EXCEPT ![b] = r]
    BY <1>1 DEF Reply, QuotingInv, BuyerShapes
  <1>3. r.reply = reply /\ r.request = buyer[b].request
    BY <1>1 DEF QuotingInv, BuyerShapes
  <1>4. ReplyFor(r)
    BY <1>3 DEF ReplyFor
  <1> QED
    BY <1>2, <1>4, AmountsMove

(* A step that leaves the call without a reply.                            *)
LEMMA AmountsLeave ==
    ASSUME QuotingInv, AmountsInv, NEW b \in Buyers, NEW r, buyer' = [buyer EXCEPT ![b] = r],
           r.pc # "reply", UNCHANGED <<book, shelf>>, promotion'.value = promotion.value
    PROVE  AmountsInv'
  <1>1. ShelfFits'
    BY DEF AmountsInv, ShelfFits
  <1>2. ReplyFor(r)
    BY DEF ReplyFor
  <1> QED
    BY <1>1, <1>2, AmountsMove

(* A cached quote is one for the request whose fingerprint found it.       *)
LEMMA AmountsHit ==
    ASSUME QuotingInv, AmountsInv, NEW b \in Buyers, QuoteHit(b)
    PROVE  AmountsInv'
  <1> DEFINE key == stable_request_fingerprint(buyer[b].request)
  <1>1. key \in DOMAIN shelf /\ buyer[b].pc = "call" /\ UNCHANGED <<promotion, book, shelf>>
    BY DEF QuoteHit
  <1>2. PICK left \in {shelf[key].left, 0} : Reply(b, to_proto([shelf[key] EXCEPT !.left = left]))
    BY DEF QuoteHit
  <1> HIDE DEF key
  <1>4. FitsPrint(key, shelf[key])
    BY <1>1 DEF AmountsInv, ShelfFits
  <1>5. left \in Nat
    BY <1>4, TimeLeft
  <1>6. PICK q : q = [shelf[key] EXCEPT !.left = left]
    OBVIOUS
  <1>7. FitsPrint(key, q)
    BY <1>4, <1>5, <1>6, QuoteAges
  <1>8. PICK reply : reply = to_proto(q)
    OBVIOUS
  <1>9. IsQuote(reply) => FitsPrint(key, reply) /\ remaining_validity_seconds(reply) > 0
    BY <1>7, <1>8, ProtoFits
  <1>10. ShelfFits'
    BY <1>1 DEF AmountsInv, ShelfFits
  <1> QED
    BY <1>1, <1>2, <1>6, <1>8, <1>9, <1>10, AmountsReply DEF key

(* A computed quote is kept under the fingerprint of its request.          *)
LEMMA AmountsMiss ==
    ASSUME QuotingInv, AmountsInv, NEW b \in Buyers, QuoteMiss(b)
    PROVE  AmountsInv'
  <1> DEFINE asked == buyer[b].request
             key == stable_request_fingerprint(asked)
  <1>1. /\ buyer[b].pc = "call" /\ UNCHANGED <<promotion, book>> /\ asked \in QuoteRequests
        /\ validate_request(asked) /\ Priced(asked)
    BY DEF QuoteMiss, QuotingInv, BuyerShapes
  <1>2. PICK q : q = ComputedQuote(asked)
    OBVIOUS
  <1>3. /\ Reply(b, to_proto(q))
        /\ shelf' \in {shelf, [k \in DOMAIN shelf \cup {key} |-> IF k = key THEN q ELSE shelf[k]]}
    BY <1>2 DEF QuoteMiss
  <1>4. FitsPrint(key, q)
    <2>1. QuoteFor(asked.items, q)
      BY <1>1, <1>2, ComputedFits
    <2> QED
      BY <1>1, <2>1 DEF FitsPrint
  <1> HIDE DEF key, asked
  <1>6. ASSUME NEW k \in DOMAIN shelf' PROVE FitsPrint(k, shelf'[k])
    <2>1. \/ k \in DOMAIN shelf /\ shelf'[k] = shelf[k]
          \/ k = key /\ shelf'[k] = q
      BY <1>3
    <2> QED
      BY <1>4, <2>1 DEF AmountsInv, ShelfFits
  <1>7. ShelfFits'
    BY <1>6 DEF ShelfFits
  <1>8. PICK reply : reply = to_proto(q)
    OBVIOUS
  <1>9. IsQuote(reply) => FitsPrint(key, reply) /\ remaining_validity_seconds(reply) > 0
    BY <1>4, <1>8, ProtoFits
  <1> QED
    BY <1>1, <1>3, <1>7, <1>8, <1>9, AmountsReply DEF asked, key

(* An entry that ages.                                                     *)
LEMMA AmountsAge ==
    ASSUME QuotingInv, AmountsInv, NEW key \in DOMAIN shelf, AgeQuote(key)
    PROVE  AmountsInv'
  <1>1. PICK n \in Nat : n = IF shelf[key].left > 1 THEN 1 ELSE 0
    OBVIOUS
  <1>2. shelf' = [shelf EXCEPT ![key].left = n] /\ UNCHANGED <<promotion, book, buyer>>
    BY <1>1 DEF AgeQuote
  <1>3. PICK p : p = [shelf[key] EXCEPT !.left = n]
    OBVIOUS
  <1>4. FitsPrint(key, p)
    BY <1>3, QuoteAges DEF AmountsInv, ShelfFits
  <1>5. DOMAIN shelf' = DOMAIN shelf /\ shelf'[key] = p /\ \A k \in DOMAIN shelf \ {key} : shelf'[k] = shelf[k]
    BY <1>2, <1>3
  <1>6. ASSUME NEW k \in DOMAIN shelf' PROVE FitsPrint(k, shelf'[k])
    BY <1>4, <1>5 DEF AmountsInv, ShelfFits
  <1>7. ShelfFits'
    BY <1>6 DEF ShelfFits
  <1>8. (\A c \in Buyers : ReplyFor(buyer[c]))'
    BY <1>2 DEF AmountsInv, ReplyFor
  <1> QED
    BY <1>2, <1>7, <1>8 DEF AmountsInv

(* Steps of the callers that do not call pricing.                          *)
LEMMA AmountsCaller ==
    ASSUME QuotingInv, AmountsInv, NEW b \in Buyers,
           Ask(b) \/ RetryQuote(b) \/ ShowQuote(b) \/ PlaceOrder(b) \/ CaptureOrder(b) \/ FinalizeQuoted(b)
    PROVE  AmountsInv'
  <1> DEFINE Moves == \E r : buyer' = [buyer EXCEPT ![b] = r] /\ r.pc # "reply"
  <1>1. UNCHANGED <<book, shelf>>
    BY DEF Ask, RetryQuote, ShowQuote, PlaceOrder, CaptureOrder, FinalizeQuoted
  <1>2. promotion'.value = promotion.value
    BY DEF Ask, RetryQuote, ShowQuote, PlaceOrder, CaptureOrder, FinalizeQuoted, QuotingInv, PromotionOK,
           NoPromotion
  <1>3. ASSUME Ask(b) PROVE Moves
    <2>1. PICK r \in QuoteRequests :
            buyer' = [buyer EXCEPT ![b] = [pc |-> "call", request |-> r, tries |-> 1, reply |-> Status("none")]]
      BY <1>3 DEF Ask
    <2> QED
      <3>1. [pc |-> "call", request |-> r, tries |-> 1, reply |-> Status("none")].pc # "reply"
        OBVIOUS
      <3> QED
        BY <2>1, <3>1
  <1>4. ASSUME RetryQuote(b) PROVE Moves
    <2>1. \/ buyer' = [buyer EXCEPT ![b].pc = "call", ![b].tries = @ + 1]
          \/ buyer' = [buyer EXCEPT ![b] = Over("failed")]
      BY <1>4 DEF RetryQuote
    <2>2. PICK r : r = [[buyer[b] EXCEPT !.pc = "call"] EXCEPT !.tries = @ + 1]
      OBVIOUS
    <2>3. DOMAIN buyer[b] = {"pc", "request", "tries", "reply"}
      BY <1>4 DEF RetryQuote, QuotingInv, BuyerShapes
    <2>4. r.pc = "call" /\ Over("failed").pc = "failed"
      BY <2>2, <2>3 DEF Over
    <2>5. CASE buyer' = [buyer EXCEPT ![b].pc = "call", ![b].tries = @ + 1]
      <3>1. buyer' = [buyer EXCEPT ![b] = r]
        BY <2>2, <2>3, <2>5 DEF QuotingInv, BuyerShapes
      <3> QED
        BY <2>4, <3>1
    <2> QED
      BY <2>1, <2>4, <2>5
  <1>5. ASSUME ShowQuote(b) \/ PlaceOrder(b) PROVE Moves
    <2> DEFINE r == [pc |-> "pending", code |-> buyer[b].request.code, discount |-> buyer[b].reply.discount]
    <2>1. \/ \E how \in {"shown", "failed"} : buyer' = [buyer EXCEPT ![b] = Over(how)]
          \/ buyer' = [buyer EXCEPT ![b] = r]
      BY <1>5 DEF ShowQuote, PlaceOrder, QuotingInv, BuyerShapes
    <2>2. r.pc = "pending" /\ \A how : Over(how).pc = how
      BY DEF Over
    <2> HIDE DEF r
    <2> QED
      BY <2>1, <2>2
  <1>6. ASSUME CaptureOrder(b) PROVE Moves
    <2>1. PICK r : r = [buyer[b] EXCEPT !.pc = "captured"]
      OBVIOUS
    <2>2. buyer' = [buyer EXCEPT ![b] = r] /\ r.pc = "captured"
      BY <1>6, <2>1 DEF CaptureOrder, QuotingInv, BuyerShapes
    <2> QED
      BY <2>2
  <1>7. ASSUME FinalizeQuoted(b) PROVE Moves
    <2>1. PICK r : r = [buyer[b] EXCEPT !.pc = "paid"]
      OBVIOUS
    <2>2. buyer' = [buyer EXCEPT ![b] = r] /\ r.pc = "paid"
      BY <1>7, <2>1 DEF FinalizeQuoted, QuotingInv, BuyerShapes
    <2> QED
      BY <2>2
  <1>8. Moves
    BY <1>3, <1>4, <1>5, <1>6, <1>7
  <1>9. PICK r : buyer' = [buyer EXCEPT ![b] = r] /\ r.pc # "reply"
    BY <1>8
  <1> QED
    BY <1>1, <1>2, <1>9, AmountsLeave

(* Every step keeps the invariant.                                         *)
LEMMA AmountsNext == QuotingInv /\ AmountsInv /\ [QuotingNext]_quotingVars => AmountsInv'
  <1> SUFFICES ASSUME QuotingInv, AmountsInv, [QuotingNext]_quotingVars
               PROVE  AmountsInv'
    OBVIOUS
  <1>1. ASSUME NEW b \in Buyers, QuoteRefused(b) \/ PricingDown(b) PROVE AmountsInv'
    <2>1. PICK code : Reply(b, Status(code))
      BY <1>1 DEF QuoteRefused, PricingDown
    <2>2. buyer[b].pc = "call" /\ UNCHANGED <<promotion, book, shelf>>
      BY <1>1 DEF QuoteRefused, PricingDown
    <2>3. ShelfFits'
      BY <2>2 DEF AmountsInv, ShelfFits
    <2>4. ~IsQuote(Status(code))
      BY DEF IsQuote, Status
    <2> QED
      BY <2>1, <2>2, <2>3, <2>4, AmountsReply
  <1>2. CASE PublishPromotion \/ EndPromotion \/ ChangePrices \/ UNCHANGED quotingVars
    <2>1. UNCHANGED <<shelf, buyer>>
      BY <1>2 DEF PublishPromotion, EndPromotion, ChangePrices, quotingVars
    <2>2. promotion'.value \in Nat
      BY <1>2 DEF PublishPromotion, EndPromotion, ChangePrices, quotingVars, AmountsInv, QuotingInv,
                  PromotionOK, NoPromotion
    <2>3. book' \in 1..Len(PriceBooks)
      BY <1>2 DEF PublishPromotion, EndPromotion, ChangePrices, quotingVars, AmountsInv
    <2> QED
      BY <2>1, <2>2, <2>3 DEF AmountsInv, ShelfFits, ReplyFor
  <1> QED
    BY <1>1, <1>2, AmountsHit, AmountsMiss, AmountsAge, AmountsCaller DEF QuotingNext

(* A quote for its request balances and has its lines.                     *)
LEMMA QuoteIsAccepted ==
    ASSUME NEW r \in QuoteRequests, NEW q, QuoteFor(r.items, q), remaining_validity_seconds(q) > 0,
           validate_request(r)
    PROVE  try_from_proto(q) /\ (validate_quote_response(r, q) <=> FitsOrder(q))
  <1>2. r.items \in Seq([sku : STRING, quantity : Int]) /\ r.items # << >>
    BY DEF validate_request
  <1>3. PICK n \in Nat : n = Len(r.items) /\ DOMAIN r.items = 1..n /\ n > 0
    BY <1>2
  <1>4. q.lines = [i \in 1..n |-> q.lines[i]]
    BY <1>3 DEF QuoteFor
  <1>5. Len(q.lines) = n /\ q.lines # << >> /\ DOMAIN q.lines = 1..n
    <2>1. PICK l : l = [i \in 1..n |-> q.lines[i]]
      OBVIOUS
    <2>2. Len(l) = n /\ DOMAIN l = 1..n
      BY <2>1
    <2>3. l # << >>
      BY <1>3, <2>2
    <2> QED
      BY <1>4, <2>1, <2>2, <2>3
  <1>6. ASSUME NEW i \in 1..n
        PROVE  /\ q.lines[i].sku = r.items[i].sku /\ q.lines[i].quantity = r.items[i].quantity
               /\ q.lines[i].unit >= 0 /\ q.lines[i].total = q.lines[i].unit * q.lines[i].quantity
    <2>1. LineFor(r.items[i], q.lines[i])
      BY <1>3 DEF QuoteFor
    <2> QED
      BY <2>1 DEF LineFor
  <1>7. QuoteBalances(q)
    BY <1>5, <1>6 DEF QuoteBalances, QuoteFor
  <1>8. ASSUME NEW i \in 1..n
        PROVE  r.items[i] = [sku |-> q.lines[i].sku, quantity |-> q.lines[i].quantity]
    <2>1. PICK S : S = [sku : STRING, quantity : Int]
      OBVIOUS
    <2>2. r.items[i] \in S
      <3>1. r.items \in Seq(S) /\ i \in 1..Len(r.items)
        BY <1>2, <1>3, <2>1
      <3> QED
        BY <3>1
    <2> QED
      BY <1>6, <2>1, <2>2
  <1> QED
    BY <1>3, <1>5, <1>7, <1>8 DEF try_from_proto, validate_quote_response

(* Whatever pricing computes or serves from its cache, the storefront      *)
(* accepts, and it is a quote for the buyer's request or for one whose     *)
(* text has the same hash: a checkout with that request accepts it unless  *)
(* an amount is beyond the order's columns.  This holds for any SKUs,      *)
(* requests, prices, promotions and collisions: the discount never exceeds *)
(* the subtotal, and what is in the cache is as sound as what is computed  *)
(* (validate_quote_response and QuoteSnapshot::try_from_proto against      *)
(* calculate_quote and stable_request_fingerprint).                        *)
THEOREM EveryQuoteAccepted == QuotingSpec => []QuotesAreAccepted
  <1>1. QuotingInv /\ AmountsInv => QuotesAreAccepted
    <2> SUFFICES ASSUME QuotingInv, AmountsInv, NEW b \in Buyers, buyer[b].pc = "reply",
                        IsQuote(buyer[b].reply)
                 PROVE  /\ try_from_proto(buyer[b].reply)
                        /\ \E r \in QuoteRequests :
                             /\ validate_request(r) /\ HashAlike(r, buyer[b].request)
                             /\ validate_quote_response(r, buyer[b].reply) <=> FitsOrder(buyer[b].reply)
      BY DEF QuotesAreAccepted
    <2>1. /\ FitsPrint(stable_request_fingerprint(buyer[b].request), buyer[b].reply)
          /\ remaining_validity_seconds(buyer[b].reply) > 0
      BY DEF AmountsInv, ReplyFor
    <2>2. PICK r \in QuoteRequests :
            /\ validate_request(r) /\ QuoteFor(r.items, buyer[b].reply)
            /\ stable_request_fingerprint(r) = stable_request_fingerprint(buyer[b].request)
      BY <2>1 DEF FitsPrint
    <2>3. HashAlike(r, buyer[b].request)
      BY <2>2 DEF HashAlike, stable_request_fingerprint
    <2>4. /\ try_from_proto(buyer[b].reply)
          /\ validate_quote_response(r, buyer[b].reply) <=> FitsOrder(buyer[b].reply)
      BY <2>1, <2>2, QuoteIsAccepted
    <2> QED
      BY <2>2, <2>3, <2>4
  <1> QED
    BY <1>1, QuotingInitInv, QuotingNextInv, AmountsInit, AmountsNext, PTL DEF QuotingSpec

HIDE QuotingAssumption

-----------------------------------------------------------------------------
(* Carts.                                                                  *)

USE CartsAssumption

(* The sessions a cart may belong to.                                      *)
SomeSession == Sessions \cup NewSessions \cup {Unnamed}

(* A row of carts.                                                         *)
CartRows ==
    [status : {"active", "checked_out"}, customer : Customers, session : SomeSession,
     quantity : Nat] \cup {NoCart}

(* A call that is inside its transaction.                                  *)
LockedCalls ==
    [pc : {"locked"}, kind : {"add", "replace", "remove", "checkout"}, customer : Customers,
     session : SomeSession, cart : CartIds, advisory : BOOLEAN]

(* A call: inside its transaction, before it or after it.                  *)
CallRows == LockedCalls \cup [pc : {"new", "done"}]

(* A row of orders.                                                        *)
OrderRows ==
    [status : {"pending", "paid"}, cart : CartIds, customer : Customers, session : SomeSession]
      \cup [status : {"none"}]

(* The types of the carts' state.                                          *)
CartsTypeOK ==
    /\ cart \in [CartIds -> CartRows]
    /\ rowLock \in [CartIds -> CartCalls \cup {NoLock}]
    /\ call \in [CartCalls -> CallRows]
    /\ placed \in [CartCalls -> OrderRows]

(* A request keeps the lock on its row to its end, and so the cart that      *)
(* replace or remove found active is still active when the item changes.   *)
RowsAreLocked ==
    \A r \in CartCalls :
      call[r].pc = "locked" =>
        /\ rowLock[call[r].cart] = r
        /\ call[r].kind \in {"replace", "remove"} => cart[call[r].cart].status = "active"

(* The cart of a paid order is checked out.                                *)
PaidIsClosed ==
    \A r \in CartCalls : placed[r].status = "paid" => cart[placed[r].cart].status = "checked_out"

(* The inductive invariant of the carts.                                   *)
CartsInv == CartsTypeOK /\ RowsAreLocked /\ PaidIsClosed /\ OnePaidOrderPerCart

(* No cart, no order and no open transaction.                              *)
LEMMA CartsInitInv == CartsInit => CartsInv
  BY DEF CartsInit, CartsInv, CartsTypeOK, RowsAreLocked, PaidIsClosed, OnePaidOrderPerCart,
         CartRows, CallRows, OrderRows, NoCart, NoLock

(* What the type invariant says of one row.                                *)
LEMMA CartTypes ==
  ASSUME CartsInv
  PROVE  /\ \A c \in CartIds :
              /\ cart[c] \in CartRows
              /\ cart[c].status \in {"none", "active", "checked_out"}
         /\ \A r \in CartCalls :
              /\ call[r] \in CallRows
              /\ call[r].pc = "locked" => call[r] \in LockedCalls /\ call[r].cart \in CartIds
              /\ placed[r] \in OrderRows
              /\ placed[r].status \in {"none", "pending", "paid"}
              /\ placed[r].status # "none" => placed[r].cart \in CartIds
<1>1. \A c \in CartIds : cart[c] \in CartRows
  BY DEF CartsInv, CartsTypeOK
<1>2. \A r \in CartCalls : call[r] \in CallRows /\ placed[r] \in OrderRows
  BY DEF CartsInv, CartsTypeOK
<1>3. \A x \in CartRows : x.status \in {"none", "active", "checked_out"}
  BY DEF CartRows, NoCart
<1>4. \A x \in CallRows : x.pc = "locked" => x \in LockedCalls /\ x.cart \in CartIds
  BY DEF CallRows, LockedCalls
<1>5. \A x \in OrderRows : x.status \in {"none", "pending", "paid"} /\ (x.status # "none" => x.cart \in CartIds)
  BY DEF OrderRows
<1> QED
  BY <1>1, <1>2, <1>3, <1>4, <1>5

(* The end of a transaction lets go of its rows and of nobody else's.      *)
LEMMA EndsReleases ==
  ASSUME CartsInv, NEW r \in CartCalls, Ends(r)
  PROVE  /\ call' \in [CartCalls -> CallRows]
         /\ rowLock' \in [CartIds -> CartCalls \cup {NoLock}]
         /\ call'[r].pc = "done"
         /\ \A s \in CartCalls \ {r} : call'[s] = call[s]
         /\ \A s \in CartCalls \ {r} : call[s].pc = "locked" => rowLock'[call[s].cart] = s
<1>1. [pc |-> "done"] \in CallRows
  BY DEF CallRows
<1>2. /\ call' \in [CartCalls -> CallRows]
      /\ call'[r].pc = "done"
      /\ \A s \in CartCalls \ {r} : call'[s] = call[s]
  BY <1>1 DEF Ends, CartsInv, CartsTypeOK
<1>3. rowLock' \in [CartIds -> CartCalls \cup {NoLock}]
  BY DEF Ends, CartsInv, CartsTypeOK
<1>4. ASSUME NEW s \in CartCalls \ {r}, call[s].pc = "locked"
      PROVE  rowLock'[call[s].cart] = s
  BY <1>4, CartTypes DEF Ends, CartsInv, RowsAreLocked
<1> QED
  BY <1>2, <1>3, <1>4

(* A refused transaction changes neither carts nor orders.                 *)
LEMMA RefusedKeeps ==
  ASSUME CartsInv, NEW r \in CartCalls, Refused(r)
  PROVE  CartsInv' /\ cart' = cart
<1>1. Ends(r) /\ cart' = cart /\ placed' = placed
  BY DEF Refused
<1>2. CartsTypeOK'
  BY <1>1, EndsReleases DEF CartsInv, CartsTypeOK
<1>3. RowsAreLocked'
  <2> SUFFICES ASSUME NEW s \in CartCalls, call'[s].pc = "locked"
               PROVE  /\ rowLock'[call'[s].cart] = s
                      /\ call'[s].kind \in {"replace", "remove"} => cart'[call'[s].cart].status = "active"
    BY DEF RowsAreLocked
  <2>1. s # r /\ call'[s] = call[s]
    BY <1>1, EndsReleases
  <2> QED
    BY <1>1, <2>1, EndsReleases DEF CartsInv, RowsAreLocked
<1> QED
  BY <1>1, <1>2, <1>3 DEF CartsInv, PaidIsClosed, OnePaidOrderPerCart

(* A transaction that commits writes an active row where there was none or   *)
(* an active one, and perhaps a pending order of its own.                  *)
LEMMA CommitKeeps ==
  ASSUME CartsInv, NEW r \in CartCalls, Ends(r), call[r].pc = "locked",
         NEW entry \in CartRows, entry.status = "active",
         cart[call[r].cart].status # "checked_out",
         cart' = [cart EXCEPT ![call[r].cart] = entry],
         NEW p \in OrderRows, p = placed[r] \/ p.status = "pending",
         placed' = [placed EXCEPT ![r] = p]
  PROVE  CartsInv' /\ \A c \in CartIds : cart[c].status = "checked_out" => cart'[c] = cart[c]
<1>1. PICK c \in CartIds : c = call[r].cart
  BY CartTypes
<1>2. /\ cart' \in [CartIds -> CartRows] /\ cart'[c] = entry
      /\ \A d \in CartIds \ {c} : cart'[d] = cart[d]
      /\ placed' \in [CartCalls -> OrderRows] /\ placed'[r] = p
      /\ \A s \in CartCalls \ {r} : placed'[s] = placed[s]
  BY <1>1 DEF CartsInv, CartsTypeOK
<1>3. CartsTypeOK'
  BY <1>2, EndsReleases DEF CartsTypeOK
<1>4. \A d \in CartIds : cart[d].status = "checked_out" => cart'[d] = cart[d]
  BY <1>1, <1>2
<1>5. RowsAreLocked'
  <2> SUFFICES ASSUME NEW s \in CartCalls, call'[s].pc = "locked"
               PROVE  /\ rowLock'[call'[s].cart] = s
                      /\ call'[s].kind \in {"replace", "remove"} => cart'[call'[s].cart].status = "active"
    BY DEF RowsAreLocked
  <2>1. s # r /\ call'[s] = call[s]
    BY EndsReleases
  <2>2. call[s].cart \in CartIds
    BY <2>1, CartTypes
  <2>3. call[s].kind \in {"replace", "remove"} => cart[call[s].cart].status = "active"
    BY <2>1 DEF CartsInv, RowsAreLocked
  <2> QED
    BY <1>2, <2>1, <2>2, <2>3, EndsReleases
<1>6. \A s \in CartCalls : placed'[s].status = "paid" =>
         placed'[s] = placed[s] /\ placed[s].cart \in CartIds
  BY <1>2, CartTypes
<1>7. PaidIsClosed'
  <2> SUFFICES ASSUME NEW s \in CartCalls, placed'[s].status = "paid"
               PROVE  cart'[placed'[s].cart].status = "checked_out"
    BY DEF PaidIsClosed
  <2>1. cart[placed[s].cart].status = "checked_out"
    BY <1>6 DEF CartsInv, PaidIsClosed
  <2> QED
    BY <1>4, <1>6, <2>1
<1>8. OnePaidOrderPerCart'
  BY <1>6 DEF CartsInv, OnePaidOrderPerCart
<1> QED
  BY <1>3, <1>4, <1>5, <1>7, <1>8 DEF CartsInv

(* Finding a cart takes the lock on its row, which nobody has.               *)
LEMMA LockKeeps ==
  ASSUME CartsInv, NEW r \in CartCalls, NEW kind \in {"add", "replace", "remove", "checkout"},
         NEW customer \in Customers, NEW session \in SomeSession, NEW c \in CartIds,
         NEW advisory \in BOOLEAN, RowFree(c),
         kind \in {"replace", "remove"} => cart[c].status = "active",
         Locked(r, kind, customer, session, c, advisory)
  PROVE  CartsInv' /\ cart' = cart
<1>1. PICK j : j = [pc |-> "locked", kind |-> kind, customer |-> customer, session |-> session,
                    cart |-> c, advisory |-> advisory]
  OBVIOUS
<1>2. j \in CallRows /\ j.cart = c /\ j.kind = kind
  BY <1>1 DEF CallRows, LockedCalls
<1>3. /\ call' = [call EXCEPT ![r] = j] /\ rowLock' = [rowLock EXCEPT ![c] = r]
      /\ cart' = cart /\ placed' = placed
  BY <1>1 DEF Locked
<1>4. /\ call' \in [CartCalls -> CallRows] /\ call'[r] = j
      /\ \A s \in CartCalls \ {r} : call'[s] = call[s]
      /\ rowLock' \in [CartIds -> CartCalls \cup {NoLock}] /\ rowLock'[c] = r
      /\ \A d \in CartIds \ {c} : rowLock'[d] = rowLock[d]
  BY <1>2, <1>3 DEF CartsInv, CartsTypeOK
<1>5. RowsAreLocked'
  <2> SUFFICES ASSUME NEW s \in CartCalls, call'[s].pc = "locked"
               PROVE  /\ rowLock'[call'[s].cart] = s
                      /\ call'[s].kind \in {"replace", "remove"} => cart'[call'[s].cart].status = "active"
    BY DEF RowsAreLocked
  <2>1. CASE s = r
    BY <1>2, <1>3, <1>4, <2>1
  <2>2. CASE s # r
    <3>1. /\ call'[s] = call[s] /\ call[s].pc = "locked" /\ call[s].cart \in CartIds
          /\ rowLock[call[s].cart] = s
          /\ call[s].kind \in {"replace", "remove"} => cart[call[s].cart].status = "active"
      BY <1>4, <2>2, CartTypes DEF CartsInv, RowsAreLocked
    <3>2. call[s].cart # c
      BY <3>1 DEF RowFree, NoLock
    <3> QED
      BY <1>3, <1>4, <3>1, <3>2
  <2> QED
    BY <2>1, <2>2
<1> QED
  BY <1>3, <1>4, <1>5 DEF CartsInv, CartsTypeOK, PaidIsClosed, OnePaidOrderPerCart

(* The row a transaction reads or inserts.                                 *)
LEMMA InsertedRow ==
  ASSUME CartsInv, NEW c \in CartIds, NEW customer \in Customers, NEW session \in SomeSession,
         InsertedAs(c, customer, session).status # "none",
         Exists(c) => cart[c].status = "active"
  PROVE  /\ InsertedAs(c, customer, session) \in CartRows
         /\ InsertedAs(c, customer, session).status = "active"
         /\ InsertedAs(c, customer, session).quantity \in Nat
         /\ cart[c].status # "checked_out"
<1> DEFINE entry == InsertedAs(c, customer, session)
<1>1. cart[c] \in CartRows /\ cart[c].status \in {"none", "active", "checked_out"}
  BY CartTypes
<1>2. CASE Exists(c)
  <2>1. entry = cart[c] /\ entry.status = "active"
    BY <1>2 DEF InsertedAs
  <2>2. entry \in CartRows
    BY <1>1, <2>1
  <2>3. \A x \in CartRows : x.status = "active" => x.quantity \in Nat
    BY DEF CartRows, NoCart
  <2> QED
    BY <2>1, <2>2, <2>3
<1>3. CASE ~Exists(c)
  <2>1. entry = [status |-> "active", customer |-> customer, session |-> session, quantity |-> 0]
    BY <1>3 DEF InsertedAs, NoCart
  <2> QED
    BY <1>3, <2>1 DEF CartRows, Exists
<1> QED
  BY <1>2, <1>3

(* A change of the quantity leaves the other columns alone.                *)
LEMMA QuantityOnly ==
  ASSUME NEW entry \in CartRows, entry.status = "active", NEW n \in Nat
  PROVE  [entry EXCEPT !.quantity = n] \in CartRows /\ [entry EXCEPT !.quantity = n].status = "active"
  BY DEF CartRows, NoCart

(* No cart that is checked out changes in this step.                       *)
Frozen == \A c \in CartIds : cart[c].status = "checked_out" => cart'[c] = cart[c]

(* Adding an item finds the cart active, under its row lock.               *)
LEMMA AddItemKeeps ==
  ASSUME CartsInv, NEW r \in CartCalls, AddItem(r)
  PROVE  CartsInv' /\ Frozen
<1>1. CASE Refused(r)
  BY <1>1, RefusedKeeps DEF Frozen
<1>2. CASE ~Refused(r)
  <2>1. PICK c \in CartIds : c = call[r].cart
    BY CartTypes DEF AddItem
  <2>2. call[r].customer \in Customers /\ call[r].session \in SomeSession /\ call[r].pc = "locked"
    BY CartTypes DEF AddItem, LockedCalls
  <2>3. PICK s \in SomeSession, n \in 1 .. ItemLimit :
          /\ InsertedAs(c, call[r].customer, s).status # "none"
          /\ Exists(c) => ActiveInScope(c, call[r].customer, s)
          /\ cart' = [cart EXCEPT ![c] = [InsertedAs(c, call[r].customer, s) EXCEPT !.quantity = @ + n]]
          /\ Ends(r) /\ placed' = placed
    BY <1>2, <2>1, <2>2 DEF AddItem, SomeSession
  <2>4. PICK entry : entry = InsertedAs(c, call[r].customer, s)
    OBVIOUS
  <2>5. /\ entry \in CartRows /\ entry.status = "active" /\ entry.quantity \in Nat
        /\ cart[c].status # "checked_out"
    BY <2>2, <2>3, <2>4, InsertedRow DEF ActiveInScope
  <2>6. PICK m \in Nat : m = entry.quantity + n
    BY <2>5
  <2>7. PICK new : new = [entry EXCEPT !.quantity = m]
    OBVIOUS
  <2>8. new \in CartRows /\ new.status = "active"
    BY <2>5, <2>7, QuantityOnly
  <2>9. cart' = [cart EXCEPT ![call[r].cart] = new]
    BY <2>1, <2>3, <2>4, <2>6, <2>7
  <2>10. placed[r] \in OrderRows /\ placed' = [placed EXCEPT ![r] = placed[r]]
    BY <2>3, CartTypes DEF CartsInv, CartsTypeOK
  <2> QED
    BY <2>1, <2>2, <2>3, <2>5, <2>8, <2>9, <2>10, CommitKeeps DEF Frozen
<1> QED
  BY <1>1, <1>2

(* So does changing or removing one.                                       *)
LEMMA EditItemKeeps ==
  ASSUME CartsInv, NEW r \in CartCalls, EditItem(r)
  PROVE  CartsInv' /\ Frozen
<1>1. CASE Refused(r)
  BY <1>1, RefusedKeeps DEF Frozen
<1>2. CASE ~Refused(r)
  <2>1. PICK c \in CartIds : c = call[r].cart
    BY CartTypes DEF EditItem
  <2>2. PICK n \in Nat : /\ cart' = [cart EXCEPT ![c].quantity = n]
                         /\ Ends(r) /\ placed' = placed
    <3>1. PICK n \in IF call[r].kind = "remove" THEN {0} ELSE 1..ItemLimit :
            /\ cart' = [cart EXCEPT ![c].quantity = n]
            /\ Ends(r) /\ placed' = placed
      BY <1>2, <2>1 DEF EditItem
    <3>2. n \in Nat
      BY <3>1
    <3> QED
      BY <3>1, <3>2
  <2>3. cart[c] \in CartRows /\ cart[c].status = "active" /\ call[r].pc = "locked"
    BY <2>1, CartTypes DEF EditItem, CartsInv, RowsAreLocked
  <2>4. PICK new : new = [cart[c] EXCEPT !.quantity = n]
    OBVIOUS
  <2>5. new \in CartRows /\ new.status = "active"
    BY <2>3, <2>4, QuantityOnly
  <2>6. cart' = [cart EXCEPT ![call[r].cart] = new]
    BY <2>1, <2>2, <2>4
  <2>7. placed[r] \in OrderRows /\ placed' = [placed EXCEPT ![r] = placed[r]]
    BY <2>2, CartTypes DEF CartsInv, CartsTypeOK
  <2>8. cart[call[r].cart].status # "checked_out"
    BY <2>1, <2>3
  <2> QED
    BY <2>2, <2>3, <2>5, <2>6, <2>7, <2>8, CommitKeeps DEF Frozen
<1> QED
  BY <1>1, <1>2

(* An order is placed from a cart that is locked and active.               *)
LEMMA PlaceFromCartKeeps ==
  ASSUME CartsInv, NEW r \in CartCalls, PlaceFromCart(r)
  PROVE  CartsInv' /\ Frozen
<1>1. CASE Refused(r)
  BY <1>1, RefusedKeeps DEF Frozen
<1>2. CASE ~Refused(r)
  <2>1. PICK c \in CartIds : c = call[r].cart
    BY CartTypes DEF PlaceFromCart
  <2>2. call[r].customer \in Customers /\ call[r].session \in SomeSession /\ call[r].pc = "locked"
    BY CartTypes DEF PlaceFromCart, LockedCalls
  <2>3. PICK entry : entry = InsertedAs(c, call[r].customer, call[r].session)
    OBVIOUS
  <2>4. PICK p : p = [status |-> "pending", cart |-> c, customer |-> call[r].customer,
                      session |-> call[r].session]
    OBVIOUS
  <2>5. p \in OrderRows /\ p.status = "pending"
    BY <2>2, <2>4 DEF OrderRows
  <2>6. /\ entry.status # "none"
        /\ Exists(c) => ActiveInScope(c, call[r].customer, call[r].session)
        /\ placed' = [placed EXCEPT ![r] = p] /\ Ends(r)
    BY <1>2, <2>1, <2>3, <2>4 DEF PlaceFromCart
  <2>7. PICK n \in 1 .. ItemLimit : cart' = [cart EXCEPT ![c] = [entry EXCEPT !.quantity = n]]
    BY <1>2, <2>1, <2>3 DEF PlaceFromCart
  <2>8. entry \in CartRows /\ entry.status = "active" /\ cart[c].status # "checked_out"
    BY <2>2, <2>3, <2>6, InsertedRow DEF ActiveInScope
  <2>9. PICK new : new = [entry EXCEPT !.quantity = n]
    OBVIOUS
  <2>10. new \in CartRows /\ new.status = "active"
    BY <2>8, <2>9, QuantityOnly
  <2>11. cart' = [cart EXCEPT ![call[r].cart] = new]
    BY <2>1, <2>7, <2>9
  <2> QED
    BY <2>1, <2>2, <2>5, <2>6, <2>8, <2>10, <2>11, CommitKeeps DEF Frozen
<1> QED
  BY <1>1, <1>2

(* Finding or creating the cart of a session.                              *)
LEMMA FindKeeps ==
  ASSUME CartsInv, NEW r \in CartCalls, NEW customer \in Customers,
         \/ \E session \in Sessions : AddFind(r, customer, session) \/ CheckoutFind(r, customer, session)
         \/ \E session \in Sessions \cup {Unnamed}, kind \in {"replace", "remove"} :
               EditFind(r, kind, customer, session)
  PROVE  CartsInv' /\ Frozen
<1>1. ASSUME NEW session \in Sessions, AddFind(r, customer, session)
      PROVE  CartsInv' /\ Frozen
  <2>1. PICK c \in CartIds, advisory \in BOOLEAN :
          RowFree(c) /\ Locked(r, "add", customer, session, c, advisory)
    BY <1>1 DEF AddFind, KnownIds, CartForAdd, get_cart
  <2>2. session \in SomeSession
    BY DEF SomeSession
  <2> QED
    BY <2>1, <2>2, LockKeeps DEF Frozen
<1>2. ASSUME NEW session \in Sessions, CheckoutFind(r, customer, session)
      PROVE  CartsInv' /\ Frozen
  <2>1. PICK c \in CartIds : RowFree(c) /\ Locked(r, "checkout", customer, session, c, FALSE)
    BY <1>2 DEF CheckoutFind, KnownIds
  <2>2. session \in SomeSession
    BY DEF SomeSession
  <2> QED
    BY <2>1, <2>2, LockKeeps DEF Frozen
<1>3. ASSUME NEW session \in Sessions \cup {Unnamed}, NEW kind \in {"replace", "remove"},
             EditFind(r, kind, customer, session)
      PROVE  CartsInv' /\ Frozen
  <2>1. PICK c \in CartIds :
          /\ RowFree(c)
          /\ \/ Refused(r)
             \/ cart[c].status = "active" /\ Locked(r, kind, customer, session, c, FALSE)
    BY <1>3 DEF EditFind, ActiveInScope
  <2>2. session \in SomeSession
    BY DEF SomeSession
  <2> QED
    BY <2>1, <2>2, LockKeeps, RefusedKeeps DEF Frozen
<1> QED
  BY <1>1, <1>2, <1>3

(* finalize_order closes an active cart that no request has locked: none   *)
(* of its other orders was paid before, and none will be.                  *)
LEMMA FinalizeCartKeeps ==
  ASSUME CartsInv, NEW r \in CartCalls, FinalizeCart(r)
  PROVE  CartsInv' /\ Frozen
<1>1. PICK c \in CartIds : c = placed[r].cart
  BY CartTypes DEF FinalizeCart
<1>2. /\ placed[r] \in OrderRows /\ placed[r].status = "pending" /\ cart[c] \in CartRows
      /\ cart[c].status = "active" /\ RowFree(c)
  BY <1>1, CartTypes DEF FinalizeCart, ClosesCart
<1>3. PICK p : p = [placed[r] EXCEPT !.status = "paid"]
  OBVIOUS
<1>4. p \in OrderRows /\ p.status = "paid" /\ p.cart = c
  BY <1>1, <1>2, <1>3 DEF OrderRows
<1>5. PICK entry : entry = [cart[c] EXCEPT !.status = "checked_out"]
  OBVIOUS
<1>6. entry \in CartRows /\ entry.status = "checked_out"
  BY <1>2, <1>5 DEF CartRows, NoCart
<1>7. /\ cart' = [cart EXCEPT ![c] = entry] /\ placed' = [placed EXCEPT ![r] = p]
      /\ rowLock' = rowLock /\ call' = call
  BY <1>1, <1>3, <1>5 DEF FinalizeCart
<1>8. /\ cart' \in [CartIds -> CartRows] /\ cart'[c] = entry
      /\ \A d \in CartIds \ {c} : cart'[d] = cart[d]
      /\ placed' \in [CartCalls -> OrderRows] /\ placed'[r] = p
      /\ \A s \in CartCalls \ {r} : placed'[s] = placed[s]
  BY <1>4, <1>6, <1>7 DEF CartsInv, CartsTypeOK
<1>9. CartsTypeOK'
  BY <1>7, <1>8 DEF CartsInv, CartsTypeOK
<1>10. RowsAreLocked'
  <2> SUFFICES ASSUME NEW s \in CartCalls, call'[s].pc = "locked"
               PROVE  /\ rowLock'[call'[s].cart] = s
                      /\ call'[s].kind \in {"replace", "remove"} => cart'[call'[s].cart].status = "active"
    BY DEF RowsAreLocked
  <2>1. /\ call'[s] = call[s] /\ call[s].cart \in CartIds
        /\ rowLock[call[s].cart] = s
        /\ call[s].kind \in {"replace", "remove"} => cart[call[s].cart].status = "active"
    BY <1>7, CartTypes DEF CartsInv, RowsAreLocked
  <2>2. call[s].cart # c
    BY <1>2, <2>1 DEF RowFree, NoLock
  <2> QED
    BY <1>7, <1>8, <2>1, <2>2
<1>11. ASSUME NEW s \in CartCalls \ {r}, placed'[s].status = "paid"
       PROVE  /\ placed'[s] = placed[s] /\ placed[s].cart \in CartIds /\ placed[s].cart # c
              /\ cart'[placed[s].cart].status = "checked_out"
  <2>1. placed'[s] = placed[s] /\ placed[s].cart \in CartIds
    BY <1>8, <1>11, CartTypes
  <2>2. cart[placed[s].cart].status = "checked_out"
    BY <1>11, <2>1 DEF CartsInv, PaidIsClosed
  <2> QED
    BY <1>2, <1>8, <2>1, <2>2
<1>12. PaidIsClosed'
  BY <1>4, <1>6, <1>8, <1>11 DEF PaidIsClosed
<1>13. OnePaidOrderPerCart'
  BY <1>4, <1>8, <1>11 DEF CartsInv, OnePaidOrderPerCart
<1>14. Frozen
  BY <1>2, <1>8 DEF Frozen
<1> QED
  BY <1>9, <1>10, <1>12, <1>13, <1>14 DEF CartsInv

(* Every step keeps the invariant, and the carts that are checked out.     *)
LEMMA CartsNextInv == CartsInv /\ [CartsNext]_cartVars => CartsInv' /\ (Frozen \/ UNCHANGED cartVars)
<1> SUFFICES ASSUME CartsInv, [CartsNext]_cartVars
             PROVE  CartsInv' /\ (Frozen \/ UNCHANGED cartVars)
  OBVIOUS
<1>1. CASE UNCHANGED cartVars
  BY <1>1 DEF cartVars, CartsInv, CartsTypeOK, RowsAreLocked, PaidIsClosed, OnePaidOrderPerCart
<1>2. CASE CartsNext
  BY <1>2, AddItemKeeps, EditItemKeeps, PlaceFromCartKeeps, FinalizeCartKeeps, FindKeeps, RefusedKeeps
     DEF CartsNext, TransactionFails, Frozen
<1> QED
  BY <1>1, <1>2

(* A cart pays for one order, however many checkouts of it run at once,    *)
(* for any number of customers, sessions, carts and calls (the row lock of *)
(* the cart in create_pending_order and finalize_order).                   *)
THEOREM OnePaidPerCart == CartsSpec => []OnePaidOrderPerCart
<1>1. CartsInv => OnePaidOrderPerCart
  BY DEF CartsInv
<1> QED
  BY <1>1, CartsInitInv, CartsNextInv, PTL DEF CartsSpec

(* A cart that is checked out is never changed again: late calls of any    *)
(* session, and calls that waited for its row lock, find it closed (the    *)
(* status tests of the cart handlers).                                     *)
THEOREM CheckedOutStaysFrozen == CartsSpec => CheckedOutIsFrozen
<1>1. CartsInv /\ [CartsNext]_cartVars
        => [\A c \in CartIds : cart[c].status = "checked_out" => cart'[c] = cart[c]]_cartVars
  BY CartsNextInv DEF Frozen
<1> QED
  BY <1>1, CartsInitInv, CartsNextInv, PTL DEF CartsSpec, CheckedOutIsFrozen

(* The orders that are placed belong to a cart that is there and that has  *)
(* the session the order names, if it names one.                           *)
OrderInItsCart(p, carts) ==
    p.status # "none" =>
      /\ carts[p.cart].status # "none"
      /\ p.session \in {Unnamed, carts[p.cart].session}

(* A row is never removed and never moves to another session.              *)
SessionsStay ==
    \A c \in CartIds : Exists(c) => cart'[c].status # "none" /\ cart'[c].session = cart[c].session

(* A row that is written has a session: that of the row it replaces, if    *)
(* there was one.                                                          *)
LEMMA WrittenRow ==
  ASSUME CartsInv, NEW c \in CartIds, NEW entry \in CartRows, entry.status # "none",
         Exists(c) => entry.session = cart[c].session, cart' = [cart EXCEPT ![c] = entry]
  PROVE  SessionsStay /\ cart'[c] = entry
<1>1. cart'[c] = entry /\ \A d \in CartIds \ {c} : cart'[d] = cart[d]
  BY DEF CartsInv, CartsTypeOK
<1> QED
  BY <1>1 DEF SessionsStay, Exists

(* What a step does with one order and with the sessions of the carts.     *)
OrdersStep ==
    /\ SessionsStay
    /\ \A r \in CartCalls :
         \/ placed'[r] = placed[r]
         \/ placed[r].status = "pending" /\ placed'[r] = [placed[r] EXCEPT !.status = "paid"]
         \/ OrderInItsCart(placed'[r], cart')

(* A quantity is changed.                                                  *)
LEMMA SameSession ==
  ASSUME NEW entry \in CartRows, entry.status # "none", NEW n \in Nat
  PROVE  /\ [entry EXCEPT !.quantity = n] \in CartRows
         /\ [entry EXCEPT !.quantity = n].status = entry.status
         /\ [entry EXCEPT !.quantity = n].session = entry.session
  BY DEF CartRows, NoCart

(* The row that an add or a checkout inserts or finds.                     *)
LEMMA FoundRow ==
  ASSUME CartsInv, NEW c \in CartIds, NEW customer \in Customers, NEW session \in SomeSession,
         NEW entry, entry = InsertedAs(c, customer, session), entry.status # "none",
         Exists(c) => ActiveInScope(c, customer, session)
  PROVE  /\ entry \in CartRows /\ entry.quantity \in Nat
         /\ Exists(c) => entry.session = cart[c].session
         /\ session \in {Unnamed, entry.session}
<1>1. entry \in CartRows /\ entry.status = "active" /\ entry.quantity \in Nat
  BY InsertedRow DEF ActiveInScope
<1>2. CASE Exists(c)
  BY <1>1, <1>2 DEF InsertedAs, ActiveInScope
<1>3. CASE ~Exists(c)
  <2>1. ~SessionTaken(session)
    BY <1>3 DEF InsertedAs, NoCart
  <2>2. entry.session = session
    BY <1>3, <2>1 DEF InsertedAs
  <2> QED
    BY <1>1, <1>3, <2>2
<1> QED
  BY <1>2, <1>3

(* A step that leaves carts and orders alone.                              *)
LEMMA IdleOrders ==
  ASSUME cart' = cart, placed' = placed
  PROVE  OrdersStep
  BY DEF OrdersStep, SessionsStay, Exists

(* Adding an item leaves the orders alone and the session to the cart.     *)
LEMMA AddItemOrders ==
  ASSUME CartsInv, NEW r \in CartCalls, AddItem(r)
  PROVE  OrdersStep
<1>1. CASE Refused(r)
  BY <1>1, IdleOrders DEF Refused
<1>2. CASE ~Refused(r)
  <2>1. PICK c \in CartIds : c = call[r].cart
    BY CartTypes DEF AddItem
  <2>2. call[r].customer \in Customers /\ call[r].session \in SomeSession
    BY CartTypes DEF AddItem, LockedCalls
  <2>3. PICK s \in SomeSession, n \in 1 .. ItemLimit :
          /\ InsertedAs(c, call[r].customer, s).status # "none"
          /\ Exists(c) => ActiveInScope(c, call[r].customer, s)
          /\ cart' = [cart EXCEPT ![c] = [InsertedAs(c, call[r].customer, s) EXCEPT !.quantity = @ + n]]
          /\ placed' = placed
    BY <1>2, <2>1, <2>2 DEF AddItem, SomeSession
  <2>4. PICK entry : entry = InsertedAs(c, call[r].customer, s)
    OBVIOUS
  <2>5. /\ entry \in CartRows /\ entry.quantity \in Nat /\ entry.status # "none"
        /\ Exists(c) => entry.session = cart[c].session
    BY <2>2, <2>3, <2>4, FoundRow
  <2>6. PICK m \in Nat : m = entry.quantity + n
    BY <2>5
  <2>7. PICK new : new = [entry EXCEPT !.quantity = m]
    OBVIOUS
  <2>8. new \in CartRows /\ new.status # "none" /\ new.session = entry.session
    BY <2>5, <2>7, SameSession
  <2>9. cart' = [cart EXCEPT ![c] = new]
    BY <2>3, <2>4, <2>6, <2>7
  <2>10. SessionsStay
    BY <2>5, <2>8, <2>9, WrittenRow
  <2> QED
    BY <2>3, <2>10 DEF OrdersStep
<1> QED
  BY <1>1, <1>2

(* So does changing or removing one.                                       *)
LEMMA EditItemOrders ==
  ASSUME CartsInv, NEW r \in CartCalls, EditItem(r)
  PROVE  OrdersStep
<1>1. CASE Refused(r)
  BY <1>1, IdleOrders DEF Refused
<1>2. CASE ~Refused(r)
  <2>1. PICK c \in CartIds : c = call[r].cart
    BY CartTypes DEF EditItem
  <2>2. PICK n \in IF call[r].kind = "remove" THEN {0} ELSE 1..ItemLimit :
          cart' = [cart EXCEPT ![c].quantity = n] /\ placed' = placed
    BY <1>2, <2>1 DEF EditItem
  <2>3. n \in Nat
    OBVIOUS
  <2>4. cart[c] \in CartRows /\ cart[c].status # "none"
    BY <2>1, CartTypes DEF EditItem, CartsInv, RowsAreLocked
  <2>5. PICK new : new = [cart[c] EXCEPT !.quantity = n]
    OBVIOUS
  <2>6. new \in CartRows /\ new.status # "none" /\ new.session = cart[c].session
    BY <2>3, <2>4, <2>5, SameSession
  <2>7. cart' = [cart EXCEPT ![c] = new]
    BY <2>2, <2>5
  <2>8. SessionsStay
    BY <2>6, <2>7, WrittenRow
  <2> QED
    BY <2>2, <2>8 DEF OrdersStep
<1> QED
  BY <1>1, <1>2

(* The cart of a new order has the session that the request came with.     *)
LEMMA PlaceFromCartOrders ==
  ASSUME CartsInv, NEW r \in CartCalls, PlaceFromCart(r)
  PROVE  OrdersStep
<1>1. CASE Refused(r)
  BY <1>1, IdleOrders DEF Refused
<1>2. CASE ~Refused(r)
  <2>1. PICK c \in CartIds : c = call[r].cart
    BY CartTypes DEF PlaceFromCart
  <2>2. call[r].customer \in Customers /\ call[r].session \in SomeSession
    BY CartTypes DEF PlaceFromCart, LockedCalls
  <2>3. PICK entry : entry = InsertedAs(c, call[r].customer, call[r].session)
    OBVIOUS
  <2>4. PICK p : p = [status |-> "pending", cart |-> c, customer |-> call[r].customer,
                      session |-> call[r].session]
    OBVIOUS
  <2>5. /\ entry.status # "none"
        /\ Exists(c) => ActiveInScope(c, call[r].customer, call[r].session)
        /\ placed' = [placed EXCEPT ![r] = p]
    BY <1>2, <2>1, <2>3, <2>4 DEF PlaceFromCart
  <2>6. PICK n \in 1 .. ItemLimit : cart' = [cart EXCEPT ![c] = [entry EXCEPT !.quantity = n]]
    BY <1>2, <2>1, <2>3 DEF PlaceFromCart
  <2>7. /\ entry \in CartRows /\ (Exists(c) => entry.session = cart[c].session)
        /\ call[r].session \in {Unnamed, entry.session}
    BY <2>2, <2>3, <2>5, FoundRow
  <2>8. PICK new : new = [entry EXCEPT !.quantity = n]
    OBVIOUS
  <2>9. new \in CartRows /\ new.status # "none" /\ new.session = entry.session
    BY <2>5, <2>7, <2>8, SameSession
  <2>10. cart' = [cart EXCEPT ![c] = new]
    BY <2>6, <2>8
  <2>11. SessionsStay /\ cart'[c] = new
    BY <2>7, <2>9, <2>10, WrittenRow
  <2>12. placed'[r] = p /\ \A s \in CartCalls \ {r} : placed'[s] = placed[s]
    BY <2>5 DEF CartsInv, CartsTypeOK
  <2>13. OrderInItsCart(p, cart')
    BY <2>4, <2>7, <2>9, <2>11 DEF OrderInItsCart
  <2> QED
    BY <2>11, <2>12, <2>13 DEF OrdersStep
<1> QED
  BY <1>1, <1>2

(* Finalizing keeps the session of the cart and of the order.              *)
LEMMA FinalizeCartOrders ==
  ASSUME CartsInv, NEW r \in CartCalls, FinalizeCart(r)
  PROVE  OrdersStep
<1>1. PICK c \in CartIds : c = placed[r].cart
  BY CartTypes DEF FinalizeCart
<1>2. cart[c] \in CartRows /\ cart[c].status = "active" /\ placed[r].status = "pending"
  BY <1>1, CartTypes DEF FinalizeCart, ClosesCart
<1>3. PICK entry : entry = [cart[c] EXCEPT !.status = "checked_out"]
  OBVIOUS
<1>4. entry \in CartRows /\ entry.status # "none" /\ entry.session = cart[c].session
  BY <1>2, <1>3 DEF CartRows, NoCart
<1>5. cart' = [cart EXCEPT ![c] = entry]
  BY <1>1, <1>3 DEF FinalizeCart
<1>6. SessionsStay
  BY <1>4, <1>5, WrittenRow
<1>7. /\ placed'[r] = [placed[r] EXCEPT !.status = "paid"]
      /\ \A s \in CartCalls \ {r} : placed'[s] = placed[s]
  BY DEF FinalizeCart, CartsInv, CartsTypeOK
<1> QED
  BY <1>2, <1>6, <1>7 DEF OrdersStep

(* Every step.                                                             *)
LEMMA CartsNextOrders ==
  ASSUME CartsInv, [CartsNext]_cartVars
  PROVE  OrdersStep
<1>1. CASE UNCHANGED cartVars
  BY <1>1, IdleOrders DEF cartVars
<1>2. CASE CartsNext
  <2>1. PICK r \in CartCalls :
          \/ AddItem(r) \/ EditItem(r) \/ PlaceFromCart(r) \/ FinalizeCart(r)
          \/ cart' = cart /\ placed' = placed
    BY <1>2 DEF CartsNext, TransactionFails, Refused, AddFind, CheckoutFind, EditFind, Locked
  <2> QED
    BY <2>1, AddItemOrders, EditItemOrders, PlaceFromCartOrders, FinalizeCartOrders, IdleOrders
<1> QED
  BY <1>1, <1>2

(* An order stays in the listing of its customer with the session it was   *)
(* placed in and without one, although list_orders asks the cart and not   *)
(* the order for the session: a cart that once had a session keeps it, and *)
(* an order is placed only under the session of its cart.                  *)
THEOREM OrdersStayListed == CartsSpec => []OrdersAreFound
<1> DEFINE InTheirCarts == \A r \in CartCalls : OrderInItsCart(placed[r], cart)
<1>1. CartsInit => InTheirCarts
  BY DEF CartsInit, OrderInItsCart
<1>2. ASSUME CartsInv, InTheirCarts, [CartsNext]_cartVars
      PROVE  InTheirCarts'
  <2> SUFFICES ASSUME NEW r \in CartCalls PROVE OrderInItsCart(placed'[r], cart')
    OBVIOUS
  <2>1. /\ OrderInItsCart(placed[r], cart)
        /\ placed[r] \in OrderRows
        /\ placed[r].status # "none" => placed[r].cart \in CartIds
    BY <1>2, CartTypes
  <2>2. OrdersStep
    BY <1>2, CartsNextOrders
  <2>3. CASE placed'[r] = placed[r]
    BY <2>1, <2>2, <2>3 DEF OrderInItsCart, OrdersStep, SessionsStay, Exists
  <2>4. CASE placed[r].status = "pending" /\ placed'[r] = [placed[r] EXCEPT !.status = "paid"]
    <3>1. placed'[r].cart = placed[r].cart /\ placed'[r].session = placed[r].session
      BY <2>1, <2>4 DEF OrderRows
    <3> QED
      BY <2>1, <2>2, <2>4, <3>1 DEF OrderInItsCart, OrdersStep, SessionsStay, Exists
  <2> QED
    BY <2>2, <2>3, <2>4 DEF OrdersStep
<1>3. InTheirCarts => OrdersAreFound
  BY DEF OrderInItsCart, OrdersAreFound, list_orders
<1>4. CartsInv /\ InTheirCarts /\ [CartsNext]_cartVars => CartsInv' /\ InTheirCarts'
  BY <1>2, CartsNextInv
<1> HIDE DEF InTheirCarts
<1> QED
  BY <1>1, <1>3, <1>4, CartsInitInv, PTL DEF CartsSpec

HIDE CartsAssumption

-----------------------------------------------------------------------------
(* The gateway.                                                            *)

USE GatewayAssumption

(* The request of a client: none yet, one that is open, one that was       *)
(* answered.                                                               *)
OpenRequests(c) == [pc : Active, operation : Asks[c], sends : Nat, age : Int, left : Int]
(* A request the client has its answer to.                                 *)
AnsweredRequests(c) ==
    [pc : {"answered"}, operation : Asks[c], sends : Nat,
     told : {"decline", "invalid", "conflict", "failure", "ok", "retryable", "timeout", "unmarked"}]
(* The request of a client.                                                *)
RequestRows(c) == [pc : {"idle"}] \cup OpenRequests(c) \cup AnsweredRequests(c)

(* The types of the gateway's state.                                       *)
GatewayTypeOK ==
    /\ request \in [Clients -> UNION {RequestRows(c) : c \in Clients}]
    /\ \A c \in Clients : request[c] \in RequestRows(c)
    /\ wire \in [Clients -> SUBSET Nat]
    /\ work \in [Clients -> [Keys -> {"none", "started", "done", "payment_declined"}]]

(* The client named its operation, as in Named, of an operation.           *)
NamedOperation(o) ==
    \/ o.of.key = "event_id"
    \/ o.of.key = "request_id" /\ o.keyed

(* What may be under way and what may have been done downstream for a      *)
(* request: nothing for one that was not sent or does not write; what      *)
(* stands under the first key for one that the client named; and the       *)
(* outcome the client was told has been reached for good.                  *)
KeyedWork(r, calls, results) ==
    /\ r.pc = "idle" => calls = {} /\ \A k \in Keys : results[k] = "none"
    /\ r.pc # "idle" =>
         /\ ~r.operation.of.writes => calls = {} /\ \A k \in Keys : results[k] = "none"
         /\ NamedOperation(r.operation) =>
              calls \subseteq {1} /\ \A k \in Keys \ {1} : results[k] = "none"
    /\ r.pc = "answered" /\ NamedOperation(r.operation) =>
         /\ r.told = "ok" /\ r.operation.of.writes => results[1] = "done"
         /\ r.told = "decline" => results[1] = "payment_declined"

(* The inductive invariant of the gateway.                                 *)
GatewayInv ==
    GatewayTypeOK /\ \A c \in Clients : KeyedWork(request[c], wire[c], work[c])

(* Nobody has asked for anything.                                          *)
LEMMA GatewayInitInv == GatewayInit => GatewayInv
<1> SUFFICES ASSUME GatewayInit PROVE GatewayInv
  OBVIOUS
<1>1. \A c \in Clients : request[c] = [pc |-> "idle"] /\ wire[c] = {} /\ work[c] = [k \in Keys |-> "none"]
  BY DEF GatewayInit
<1>2. \A c \in Clients : request[c] \in RequestRows(c)
  BY <1>1 DEF RequestRows
<1>3. GatewayTypeOK
  BY <1>2 DEF GatewayTypeOK, GatewayInit
<1>4. \A c \in Clients : KeyedWork(request[c], wire[c], work[c])
  BY <1>1 DEF KeyedWork
<1> QED
  BY <1>3, <1>4 DEF GatewayInv

(* What the type invariant says of one client.                             *)
LEMMA GatewayTypes ==
  ASSUME GatewayInv, NEW c \in Clients
  PROVE  /\ request[c] \in RequestRows(c)
         /\ request[c].pc \in Active => request[c] \in OpenRequests(c)
         /\ request[c].pc = "answered" => request[c] \in AnsweredRequests(c)
         /\ request[c].pc # "idle" => request[c].operation \in Asks[c] /\ request[c].sends \in Nat
         /\ wire[c] \in SUBSET Nat
         /\ work[c] \in [Keys -> {"none", "started", "done", "payment_declined"}]
         /\ KeyedWork(request[c], wire[c], work[c])
         /\ 1 \in Keys
<1>1. /\ request[c] \in RequestRows(c) /\ KeyedWork(request[c], wire[c], work[c])
      /\ wire[c] \in SUBSET Nat
      /\ work[c] \in [Keys -> {"none", "started", "done", "payment_declined"}]
  BY DEF GatewayInv, GatewayTypeOK
<1>2. \A r \in RequestRows(c) :
        /\ r.pc \in Active => r \in OpenRequests(c)
        /\ r.pc = "answered" => r \in AnsweredRequests(c)
        /\ r.pc # "idle" => r.operation \in Asks[c] /\ r.sends \in Nat
  BY DEF RequestRows, OpenRequests, AnsweredRequests, Active
<1>3. 1 \in Keys
  BY DEF Keys
<1> QED
  BY <1>1, <1>2, <1>3

(* A step of one client, its late calls and its work.                      *)
LEMMA ClientStep ==
  ASSUME GatewayInv, NEW c \in Clients, NEW r \in RequestRows(c), NEW calls \in SUBSET Nat,
         NEW results \in [Keys -> {"none", "started", "done", "payment_declined"}],
         KeyedWork(r, calls, results),
         request' = [request EXCEPT ![c] = r], wire' = [wire EXCEPT ![c] = calls],
         work' = [work EXCEPT ![c] = results]
  PROVE  GatewayInv'
<1>1. /\ request'[c] = r /\ wire'[c] = calls /\ work'[c] = results
      /\ \A d \in Clients \ {c} :
           request'[d] = request[d] /\ wire'[d] = wire[d] /\ work'[d] = work[d]
      /\ wire' \in [Clients -> SUBSET Nat]
      /\ work' \in [Clients -> [Keys -> {"none", "started", "done", "payment_declined"}]]
  BY DEF GatewayInv, GatewayTypeOK
<1>2. \A d \in Clients : request'[d] \in RequestRows(d)
  BY <1>1 DEF GatewayInv, GatewayTypeOK
<1>3. request' \in [Clients -> UNION {RequestRows(d) : d \in Clients}]
  BY DEF GatewayInv, GatewayTypeOK
<1>4. ASSUME NEW d \in Clients PROVE KeyedWork(request'[d], wire'[d], work'[d])
  <2>1. CASE d = c
    BY <1>1, <2>1
  <2>2. CASE d # c
    BY <1>1, <2>2 DEF GatewayInv
  <2> QED
    BY <2>1, <2>2
<1> QED
  BY <1>1, <1>2, <1>3, <1>4 DEF GatewayInv, GatewayTypeOK

(* A step of the request alone.                                            *)
LEMMA RequestStep ==
  ASSUME GatewayInv, NEW c \in Clients, NEW r \in RequestRows(c),
         KeyedWork(r, wire[c], work[c]),
         request' = [request EXCEPT ![c] = r], wire' = wire, work' = work
  PROVE  GatewayInv'
<1>1. PICK calls \in SUBSET Nat : calls = wire[c]
  BY GatewayTypes
<1>2. PICK results \in [Keys -> {"none", "started", "done", "payment_declined"}] : results = work[c]
  BY GatewayTypes
<1>3. wire' = [wire EXCEPT ![c] = calls] /\ work' = [work EXCEPT ![c] = results]
  BY <1>1, <1>2 DEF GatewayInv, GatewayTypeOK
<1>4. KeyedWork(r, calls, results)
  BY <1>1, <1>2
<1> QED
  BY <1>3, <1>4, ClientStep

(* A request that is opened, opened again, or moves on stays one of the    *)
(* same operation.                                                         *)
LEMMA OpenStep ==
  ASSUME GatewayInv, NEW c \in Clients, NEW r \in OpenRequests(c),
         request[c].pc # "idle" => r.operation = request[c].operation,
         request' = [request EXCEPT ![c] = r], wire' = wire, work' = work
  PROVE  GatewayInv'
<1>1. r \in RequestRows(c) /\ r.pc # "idle" /\ r.pc # "answered"
  BY DEF RequestRows, OpenRequests, Active
<1>2. KeyedWork(r, wire[c], work[c])
  BY <1>1, GatewayTypes DEF KeyedWork
<1> QED
  BY <1>1, <1>2, RequestStep

(* client_safe_error_for_code and api_error report success and decline for *)
(* nothing else.                                                           *)
LEMMA CategoryOf ==
  ASSUME NEW c, NEW code
  PROVE  /\ api_error(c, code) \in {"decline", "invalid", "conflict", "failure", "ok", "retryable", "unmarked"}
         /\ api_error(c, code) = "ok" => code = "done"
         /\ api_error(c, code) = "decline" => code = "payment_declined"
<1>1. /\ category(code) \in {"decline", "invalid", "conflict", "failure", "ok", "retryable"}
      /\ category(code) = "ok" => code = "done"
      /\ category(code) = "decline" => code = "payment_declined"
  BY DEF category
<1> QED
  BY <1>1 DEF api_error

(* An answer that tells an outcome may be told when the outcome stands.    *)
LEMMA ToldStep ==
  ASSUME GatewayInv, NEW c \in Clients, request[c].pc \in Active,
         NEW told \in {"decline", "invalid", "conflict", "failure", "ok", "retryable", "timeout", "unmarked"},
         NamedOperation(request[c].operation) =>
           /\ told = "ok" /\ request[c].operation.of.writes => work[c][1] = "done"
           /\ told = "decline" => work[c][1] = "payment_declined",
         request' = [request EXCEPT ![c] = [pc |-> "answered", operation |-> request[c].operation,
                                             sends |-> request[c].sends, told |-> told]],
         wire' = wire, work' = work
  PROVE  GatewayInv'
<1>1. PICK r : r = [pc |-> "answered", operation |-> request[c].operation,
                    sends |-> request[c].sends, told |-> told]
  OBVIOUS
<1>2. request[c].operation \in Asks[c] /\ request[c].sends \in Nat /\ request[c].pc # "idle"
  BY GatewayTypes DEF Active
<1>3. /\ r \in RequestRows(c) /\ r.pc = "answered" /\ r.told = told
      /\ r.operation = request[c].operation
  BY <1>1, <1>2 DEF RequestRows, AnsweredRequests
<1>4. KeyedWork(r, wire[c], work[c])
  BY <1>2, <1>3, GatewayTypes DEF KeyedWork
<1> QED
  BY <1>1, <1>3, <1>4, RequestStep

(* An answer that reports an error of the storefront's own.                *)
LEMMA AnswerStep ==
  ASSUME GatewayInv, NEW c \in Clients, request[c].pc \in Active, NEW code, Answer(c, code),
         NamedOperation(request[c].operation) =>
           /\ code = "done" /\ request[c].operation.of.writes => work[c][1] = "done"
           /\ code = "payment_declined" => work[c][1] = "payment_declined",
         wire' = wire, work' = work
  PROVE  GatewayInv'
<1>1. PICK told : told = api_error(c, code)
  OBVIOUS
<1>2. request' = [request EXCEPT ![c] = [pc |-> "answered", operation |-> request[c].operation,
                                          sends |-> request[c].sends, told |-> told]]
  BY <1>1 DEF Answer
<1>3. /\ told \in {"decline", "invalid", "conflict", "failure", "ok", "retryable", "timeout", "unmarked"}
      /\ told = "ok" => code = "done"
      /\ told = "decline" => code = "payment_declined"
  BY <1>1, CategoryOf
<1>4. NamedOperation(request[c].operation) =>
        /\ told = "ok" /\ request[c].operation.of.writes => work[c][1] = "done"
        /\ told = "decline" => work[c][1] = "payment_declined"
  BY <1>3
<1> QED
  BY <1>2, <1>3, <1>4, ToldStep

(* A response ends the request with what it says.                          *)
LEMMA ResponseStep ==
  ASSUME GatewayInv, NEW c \in Clients, request[c].pc \in Active, NEW code \in ResponseCodes(c),
         Answer(c, code), wire' = wire, work' = work
  PROVE  GatewayInv'
<1>1. ASSUME NamedOperation(request[c].operation)
      PROVE  /\ code = "done" /\ request[c].operation.of.writes => work[c][1] = "done"
             /\ code = "payment_declined" => work[c][1] = "payment_declined"
  <2>1. DownstreamKey(c) = 1
    BY <1>1 DEF DownstreamKey, Named, NamedOperation
  <2>2. CASE ~request[c].operation.of.writes
    BY <2>2 DEF ResponseCodes, Writes
  <2>3. CASE request[c].operation.of.writes
    BY <2>1, <2>3 DEF ResponseCodes, Writes
  <2> QED
    BY <2>2, <2>3
<1> QED
  BY <1>1, AnswerStep

(* A call that moves by one hop keeps the keyed work of its client.        *)
LEMMA HopStep ==
  ASSUME GatewayInv, NEW c \in Clients, request[c].pc \in Active, NEW pc \in Active,
         BeginHop(c, pc), wire' = wire, work' = work
  PROVE  GatewayInv'
<1>1. request[c] \in OpenRequests(c) /\ request[c].pc # "idle"
  BY GatewayTypes DEF Active
<1>2. PICK left \in Int : left = remaining_timeout(c)
  BY <1>1 DEF remaining_timeout, OpenRequests
<1>3. CASE Answer(c, "downstream_error")
  BY <1>3, AnswerStep
<1>4. CASE ~Answer(c, "downstream_error")
  <2>1. PICK r : r = [[request[c] EXCEPT !.pc = pc] EXCEPT !.left = left]
    OBVIOUS
  <2>2. r \in OpenRequests(c) /\ r.operation = request[c].operation
    BY <1>1, <2>1 DEF OpenRequests
  <2>3. request' = [request EXCEPT ![c] = r]
    BY <1>2, <1>4, <2>1 DEF BeginHop
  <2> QED
    BY <2>2, <2>3, OpenStep
<1> QED
  BY <1>3, <1>4

(* The request only goes to another position.                              *)
LEMMA MoveStep ==
  ASSUME GatewayInv, NEW c \in Clients, request[c].pc \in Active, NEW pc \in Active,
         request' = [request EXCEPT ![c].pc = pc], wire' = wire, work' = work
  PROVE  GatewayInv'
<1>1. request[c] \in OpenRequests(c) /\ request[c].pc # "idle"
  BY GatewayTypes DEF Active
<1>2. PICK r : r = [request[c] EXCEPT !.pc = pc]
  OBVIOUS
<1>3. r \in OpenRequests(c) /\ r.operation = request[c].operation
  BY <1>1, <1>2 DEF OpenRequests
<1>4. request' = [request EXCEPT ![c] = r]
  BY <1>2
<1> QED
  BY <1>3, <1>4, OpenStep

(* A client sends a request.                                               *)
LEMMA SendRequestKeeps ==
  ASSUME GatewayInv, NEW c \in Clients, SendRequest(c)
  PROVE  GatewayInv'
<1>1. PICK o \in Asks[c] :
        request' = [request EXCEPT ![c] = [pc |-> "resolve", operation |-> o, sends |-> 1,
                                            age |-> 0, left |-> 0]]
  BY DEF SendRequest
<1>2. PICK r : r = [pc |-> "resolve", operation |-> o, sends |-> 1, age |-> 0, left |-> 0]
  OBVIOUS
<1>3. r \in OpenRequests(c)
  BY <1>2 DEF OpenRequests, Active
<1>4. request[c].pc = "idle" /\ wire' = wire /\ work' = work
  BY DEF SendRequest
<1> QED
  BY <1>1, <1>2, <1>3, <1>4, OpenStep

(* A client repeats a request under the same key.                          *)
LEMMA RetryRequestKeeps ==
  ASSUME GatewayInv, NEW c \in Clients, RetryRequest(c)
  PROVE  GatewayInv'
<1>1. /\ request[c].pc = "answered" /\ wire' = wire /\ work' = work
      /\ request[c].operation \in Asks[c] /\ request[c].sends \in Nat
  BY GatewayTypes DEF RetryRequest
<1>2. PICK r : r = [pc |-> "resolve", operation |-> request[c].operation,
                    sends |-> request[c].sends + 1, age |-> 0, left |-> 0]
  OBVIOUS
<1>3. r \in OpenRequests(c) /\ r.operation = request[c].operation
  BY <1>1, <1>2 DEF OpenRequests, Active
<1>4. request' = [request EXCEPT ![c] = r]
  BY <1>2 DEF RetryRequest
<1> QED
  BY <1>1, <1>3, <1>4, OpenStep

(* The gateway resolves a request by itself: an invalid one, or one too    *)
(* late.                                                                   *)
LEMMA ResolveRequestKeeps ==
  ASSUME GatewayInv, NEW c \in Clients, ResolveRequest(c)
  PROVE  GatewayInv'
<1>1. request[c].pc \in Active /\ wire' = wire /\ work' = work /\ {"channel", "send"} \subseteq Active
  BY DEF ResolveRequest, Active
<1>2. CASE Answer(c, "refused")
  BY <1>1, <1>2, AnswerStep
<1>3. CASE BeginHop(c, "channel")
  BY <1>1, <1>3, HopStep
<1>4. CASE request' = [request EXCEPT ![c].pc = "send"]
  BY <1>1, <1>4, MoveStep
<1> QED
  BY <1>2, <1>3, <1>4 DEF ResolveRequest

(* A channel is connected or lost.                                         *)
LEMMA ChannelKeeps ==
  ASSUME GatewayInv, NEW c \in Clients, UseChannel(c) \/ ConnectPricing(c)
  PROVE  GatewayInv'
<1>1. /\ request[c].pc \in Active /\ wire' = wire /\ work' = work
      /\ {"connecting", "send"} \subseteq Active
  BY DEF UseChannel, ConnectPricing, Active
<1>2. CASE request' = [request EXCEPT ![c].pc = "send"]
  BY <1>1, <1>2, MoveStep
<1>3. CASE request' = [request EXCEPT ![c].pc = "connecting"]
  BY <1>1, <1>3, MoveStep
<1>4. CASE Answer(c, "pricing_unavailable")
  BY <1>1, <1>4, AnswerStep
<1> QED
  BY <1>2, <1>3, <1>4 DEF UseChannel, ConnectPricing

(* A write is sent under its key: the first one when the client named it.  *)
LEMMA SendCallKeeps ==
  ASSUME GatewayInv, NEW c \in Clients, SendCall(c)
  PROVE  GatewayInv'
<1>1. /\ request[c].pc \in Active /\ request[c].pc # "idle" /\ request[c].pc # "answered"
      /\ work' = work /\ "wait" \in Active
  BY DEF SendCall, Active
<1>2. request[c] \in OpenRequests(c) /\ request[c].sends \in Nat
  BY <1>1, GatewayTypes
<1>3. PICK left \in Int : left = remaining_timeout(c)
  BY <1>2 DEF remaining_timeout, OpenRequests
<1>4. CASE ~(Writes(c) /\ left > 0)
  <2>1. wire' = wire
    BY <1>3, <1>4 DEF SendCall, GatewayInv, GatewayTypeOK
  <2> QED
    BY <1>1, <2>1, HopStep DEF SendCall
<1>5. CASE Writes(c) /\ left > 0
  <2>1. PICK key \in Nat : key = DownstreamKey(c)
    BY <1>2 DEF DownstreamKey
  <2>2. PICK calls : calls = wire[c] \cup {key}
    OBVIOUS
  <2>3. wire' = [wire EXCEPT ![c] = calls] /\ calls \in SUBSET Nat
    BY <1>3, <1>5, <2>1, <2>2, GatewayTypes DEF SendCall
  <2>4. PICK r : r = [[request[c] EXCEPT !.pc = "wait"] EXCEPT !.left = left]
    OBVIOUS
  <2>5. request' = [request EXCEPT ![c] = r]
    <3>1. ~(remaining_timeout(c) <= 0)
      BY <1>3, <1>5
    <3>2. BeginHop(c, "wait")
      BY DEF SendCall
    <3>3. request' = [request EXCEPT ![c].pc = "wait", ![c].left = remaining_timeout(c)]
      BY <3>1, <3>2 DEF BeginHop
    <3> QED
      BY <1>3, <2>4, <3>3
  <2>6. r \in OpenRequests(c) /\ r.operation = request[c].operation /\ r.pc = "wait"
    BY <1>1, <1>2, <2>4 DEF OpenRequests
  <2>7. r \in RequestRows(c)
    BY <2>6 DEF RequestRows
  <2>8. NamedOperation(request[c].operation) => key = 1
    BY <2>1 DEF DownstreamKey, Named, NamedOperation
  <2>9. KeyedWork(r, calls, work[c])
    <3>1. KeyedWork(request[c], wire[c], work[c])
      BY GatewayTypes
    <3> QED
      BY <1>1, <1>5, <2>2, <2>6, <2>8, <3>1 DEF KeyedWork, Writes
  <2>10. work' = [work EXCEPT ![c] = work[c]]
    BY <1>1 DEF GatewayInv, GatewayTypeOK
  <2> QED
    BY <2>3, <2>5, <2>7, <2>9, <2>10, ClientStep, GatewayTypes
<1> QED
  BY <1>4, <1>5

(* A late call starts the work under its key once; the work a client was   *)
(* told of has ended and stays as it is.                                   *)
LEMMA ArriveKeeps ==
  ASSUME GatewayInv, NEW c \in Clients, NEW k \in Keys, Arrive(c, k)
  PROVE  GatewayInv'
<1>0. /\ k \in wire[c] /\ wire[c] \in SUBSET Nat
      /\ work[c] \in [Keys -> {"none", "started", "done", "payment_declined"}]
      /\ KeyedWork(request[c], wire[c], work[c]) /\ request[c] \in RequestRows(c)
  BY GatewayTypes DEF Arrive
<1>1. PICK calls : calls = wire[c] \ {k}
  OBVIOUS
<1>2. PICK results : results = [work[c] EXCEPT ![k] = IF @ = "none" THEN "started" ELSE @]
  OBVIOUS
<1>3. /\ results \in [Keys -> {"none", "started", "done", "payment_declined"}]
      /\ results[k] = IF work[c][k] = "none" THEN "started" ELSE work[c][k]
      /\ \A i \in Keys \ {k} : results[i] = work[c][i]
  BY <1>0, <1>2
<1>4. /\ wire' = [wire EXCEPT ![c] = calls] /\ work' = [work EXCEPT ![c] = results]
      /\ request' = [request EXCEPT ![c] = request[c]]
  BY <1>1, <1>2 DEF Arrive, GatewayInv, GatewayTypeOK
<1>5. KeyedWork(request[c], calls, results)
  BY <1>0, <1>1, <1>3 DEF KeyedWork
<1>6. calls \in SUBSET Nat
  BY <1>0, <1>1
<1> QED
  BY <1>0, <1>3, <1>4, <1>5, <1>6, ClientStep

(* A service finishes the work and keeps its result under the key.         *)
LEMMA FinishWorkKeeps ==
  ASSUME GatewayInv, NEW c \in Clients, NEW k \in Keys, FinishWork(c, k)
  PROVE  GatewayInv'
<1>0. /\ work[c][k] = "started" /\ wire[c] \in SUBSET Nat
      /\ work[c] \in [Keys -> {"none", "started", "done", "payment_declined"}]
      /\ KeyedWork(request[c], wire[c], work[c]) /\ request[c] \in RequestRows(c)
  BY GatewayTypes DEF FinishWork
<1>1. PICK outcome \in {"done", "payment_declined"} : work' = [work EXCEPT ![c][k] = outcome]
  BY DEF FinishWork
<1>2. PICK results : results = [work[c] EXCEPT ![k] = outcome]
  OBVIOUS
<1>3. /\ results \in [Keys -> {"none", "started", "done", "payment_declined"}]
      /\ results[k] = outcome
      /\ \A i \in Keys \ {k} : results[i] = work[c][i]
  BY <1>0, <1>2
<1>4. /\ wire' = [wire EXCEPT ![c] = wire[c]] /\ work' = [work EXCEPT ![c] = results]
      /\ request' = [request EXCEPT ![c] = request[c]]
  BY <1>1, <1>2 DEF FinishWork, GatewayInv, GatewayTypeOK
<1>5. KeyedWork(request[c], wire[c], results)
  BY <1>0, <1>3 DEF KeyedWork
<1> QED
  BY <1>0, <1>3, <1>4, <1>5, ClientStep

(* A deadline passes for a call.                                           *)
LEMMA ExpireKeeps ==
  ASSUME GatewayInv, NEW c \in Clients, HopExpires(c) \/ RequestExpires(c)
  PROVE  GatewayInv'
<1>1. request[c].pc \in Active /\ wire' = wire /\ work' = work
  BY DEF HopExpires, RequestExpires, HopDue, RequestDue, Active, Timed
<1>2. CASE HopExpires(c)
  <2>1. Answer(c, "downstream_error")
    BY <1>2 DEF HopExpires
  <2> QED
    BY <1>1, <2>1, AnswerStep
<1>3. CASE RequestExpires(c)
  <2>1. request' = [request EXCEPT ![c] = [pc |-> "answered", operation |-> request[c].operation,
                                            sends |-> request[c].sends, told |-> "timeout"]]
    BY <1>3 DEF RequestExpires
  <2> QED
    BY <1>1, <2>1, ToldStep
<1> QED
  BY <1>2, <1>3

(* A reply reaches the gateway, or is too late for it.                     *)
LEMMA ReplyKeeps ==
  ASSUME GatewayInv, NEW c \in Clients, Respond(c) \/ ReadBody(c)
  PROVE  GatewayInv'
<1>1. request[c].pc \in Active /\ wire' = wire /\ work' = work /\ "read" \in Active
  BY DEF Respond, ReadBody, Active
<1>2. CASE Answer(c, "downstream_error")
  BY <1>1, <1>2, AnswerStep
<1>3. CASE \E code \in ResponseCodes(c) : Answer(c, code)
  BY <1>1, <1>3, ResponseStep
<1>4. CASE BeginHop(c, "read")
  BY <1>1, <1>4, HopStep
<1> QED
  BY <1>2, <1>3, <1>4 DEF Respond, ReadBody

(* Time passes for everybody.                                              *)
LEMMA TimePassesKeeps ==
  ASSUME GatewayInv, TimePasses
  PROVE  GatewayInv'
<1>1. /\ request' = [c \in Clients |-> Older(request[c])] /\ wire' = wire /\ work' = work
  BY DEF TimePasses
<1>2. ASSUME NEW c \in Clients
      PROVE  request'[c] \in RequestRows(c) /\ KeyedWork(request'[c], wire'[c], work'[c])
  <2>1. request'[c] = Older(request[c]) /\ wire'[c] = wire[c] /\ work'[c] = work[c]
    BY <1>1
  <2>2. CASE request[c].pc \notin Active
    BY <2>1, <2>2, GatewayTypes DEF Older
  <2>3. CASE request[c].pc \in Active
    <3>1. request[c] \in OpenRequests(c)
      BY <2>3, GatewayTypes
    <3>2. PICK age \in Int, left \in Int :
            /\ age = request[c].age + 1
            /\ left = IF request[c].pc \in Timed THEN request[c].left - 1 ELSE request[c].left
      BY <3>1 DEF OpenRequests
    <3>3. PICK i : i = [request[c] EXCEPT !.age = age]
      OBVIOUS
    <3>4. i \in OpenRequests(c) /\ i.left = request[c].left /\ i.operation = request[c].operation /\ i.pc = request[c].pc
      BY <3>1, <3>3 DEF OpenRequests
    <3>5. PICK r : r = [i EXCEPT !.left = left]
      OBVIOUS
    <3>6. r \in OpenRequests(c) /\ r.operation = request[c].operation /\ r.pc = request[c].pc
      BY <3>4, <3>5 DEF OpenRequests
    <3>7. Older(request[c]) = r
      BY <2>3, <3>2, <3>3, <3>4, <3>5 DEF Older
    <3>8. r \in RequestRows(c) /\ request[c].pc # "idle" /\ request[c].pc # "answered"
      BY <2>3, <3>6 DEF RequestRows, Active
    <3>9. KeyedWork(r, wire[c], work[c])
      BY <3>6, <3>8, GatewayTypes DEF KeyedWork
    <3> QED
      BY <2>1, <3>7, <3>8, <3>9
  <2> QED
    BY <2>2, <2>3
<1>3. request' \in [Clients -> UNION {RequestRows(c) : c \in Clients}]
  BY <1>1, <1>2
<1> QED
  BY <1>1, <1>2, <1>3 DEF GatewayInv, GatewayTypeOK

(* Every step keeps the invariant.                                         *)
LEMMA GatewayNextInv == GatewayInv /\ [GatewayNext]_gatewayVars => GatewayInv'
<1> SUFFICES ASSUME GatewayInv, [GatewayNext]_gatewayVars
             PROVE  GatewayInv'
  OBVIOUS
<1>1. CASE UNCHANGED gatewayVars
  BY <1>1 DEF gatewayVars, GatewayInv, GatewayTypeOK
<1>2. CASE GatewayNext
  BY <1>2, SendRequestKeeps, RetryRequestKeeps, ResolveRequestKeeps, ChannelKeeps, SendCallKeeps,
     ReplyKeeps, ExpireKeeps, ArriveKeeps, FinishWorkKeeps, TimePassesKeeps DEF GatewayNext
<1> QED
  BY <1>1, <1>2

(* The outcome a client was told stands: all that was started for a named  *)
(* operation has that outcome, and one reported as declined is never done  *)
(* afterwards, over retries under one key, timeouts and late calls, for    *)
(* any clients, operations and deadlines (the deadlines, retries and error *)
(* categories of the storefront).                                          *)
THEOREM ToldOutcomeIsFinal == GatewaySpec => []ToldOutcomeStands
<1>1. GatewayInv => ToldOutcomeStands
  <2> SUFFICES ASSUME GatewayInv, NEW c \in Clients, request[c].pc = "answered", Named(c),
                      NEW k \in Keys
               PROVE  /\ request[c].told = "ok" => work[c][k] \in {"none", "done"}
                      /\ request[c].told = "decline" => work[c][k] \in {"none", "payment_declined"}
    BY DEF ToldOutcomeStands
  <2>1. NamedOperation(request[c].operation)
    BY DEF Named, NamedOperation
  <2> QED
    BY <2>1, GatewayTypes DEF KeyedWork
<1> QED
  BY <1>1, GatewayInitInv, GatewayNextInv, PTL DEF GatewaySpec

(* A step of one client that opens a request at age 0, moves an open one   *)
(* on without making it older, or answers it.                              *)
LEMMA NoOlder ==
  ASSUME GatewayInv, AnsweredInTime, NEW c \in Clients, NEW r,
         \/ r.pc \notin Active
         \/ r.age = 0
         \/ request[c].pc \in Active /\ r.age = request[c].age,
         request' = [request EXCEPT ![c] = r]
  PROVE  AnsweredInTime'
<1>1. request'[c] = r /\ \A d \in Clients \ {c} : request'[d] = request[d]
  BY DEF GatewayInv, GatewayTypeOK
<1>2. r.pc \in Active => r.age <= RequestTimeout
  BY DEF AnsweredInTime
<1> QED
  BY <1>1, <1>2 DEF AnsweredInTime

(* An answer closes the request.                                           *)
LEMMA AnswerInTime ==
  ASSUME GatewayInv, AnsweredInTime, NEW c \in Clients, NEW code, Answer(c, code)
  PROVE  AnsweredInTime'
<1>1. PICK r : r = [pc |-> "answered", operation |-> request[c].operation,
                    sends |-> request[c].sends, told |-> api_error(c, code)]
  OBVIOUS
<1>2. request' = [request EXCEPT ![c] = r]
  BY <1>1 DEF Answer
<1>3. r.pc \notin Active
  BY <1>1 DEF Active
<1> QED
  BY <1>2, <1>3, NoOlder

(* The next position is reached at the same age.                           *)
LEMMA MoveInTime ==
  ASSUME GatewayInv, AnsweredInTime, NEW c \in Clients, request[c].pc \in Active,
         NEW pc \in Active, request' = [request EXCEPT ![c].pc = pc]
  PROVE  AnsweredInTime'
<1>1. request[c] \in OpenRequests(c)
  BY GatewayTypes
<1>2. PICK r : r = [request[c] EXCEPT !.pc = pc]
  OBVIOUS
<1>3. request' = [request EXCEPT ![c] = r] /\ r.age = request[c].age
  BY <1>1, <1>2 DEF OpenRequests
<1> QED
  BY <1>3, NoOlder

(* A hop begins at the same age, or the request is answered.               *)
LEMMA HopInTime ==
  ASSUME GatewayInv, AnsweredInTime, NEW c \in Clients, request[c].pc \in Active,
         NEW pc \in Active, BeginHop(c, pc)
  PROVE  AnsweredInTime'
<1>1. CASE Answer(c, "downstream_error")
  BY <1>1, AnswerInTime
<1>2. CASE ~Answer(c, "downstream_error")
  <2>1. request[c] \in OpenRequests(c)
    BY GatewayTypes
  <2>2. PICK left : left = remaining_timeout(c)
    OBVIOUS
  <2>3. PICK r : r = [[request[c] EXCEPT !.pc = pc] EXCEPT !.left = left]
    OBVIOUS
  <2>4. request' = [request EXCEPT ![c] = r]
    BY <1>2, <2>2, <2>3 DEF BeginHop
  <2>5. r.age = request[c].age
    BY <2>1, <2>3 DEF OpenRequests
  <2> QED
    BY <2>4, <2>5, NoOlder
<1> QED
  BY <1>1, <1>2

(* Time passes only while no request has come to its timeout.              *)
LEMMA TimeInTime ==
  ASSUME GatewayInv, AnsweredInTime, TimePasses
  PROVE  AnsweredInTime'
<1> SUFFICES ASSUME NEW c \in Clients, request'[c].pc \in Active
             PROVE  request'[c].age <= RequestTimeout
  BY DEF AnsweredInTime
<1>1. request'[c] = Older(request[c])
  BY DEF TimePasses
<1>2. request[c].pc \in Active
  BY <1>1 DEF Older
<1>3. request[c] \in OpenRequests(c)
  BY <1>2, GatewayTypes
<1>4. request[c].age < RequestTimeout /\ request[c].age \in Int
  BY <1>2, <1>3 DEF TimePasses, RequestDue, OpenRequests
<1>5. request'[c].age = request[c].age + 1
  BY <1>1, <1>2, <1>3 DEF Older, OpenRequests
<1> QED
  BY <1>4, <1>5

(* A step of one client.                                                   *)
LEMMA ClientInTime ==
  ASSUME GatewayInv, AnsweredInTime, NEW c \in Clients,
         \/ SendRequest(c) \/ RetryRequest(c) \/ ResolveRequest(c) \/ UseChannel(c)
         \/ ConnectPricing(c) \/ SendCall(c) \/ Respond(c) \/ ReadBody(c)
         \/ HopExpires(c) \/ RequestExpires(c)
  PROVE  AnsweredInTime'
<1>1. CASE SendRequest(c) \/ RetryRequest(c)
  <2>1. PICK r : r.age = 0 /\ request' = [request EXCEPT ![c] = r]
    <3>1. CASE SendRequest(c)
      <4>1. PICK o : request' = [request EXCEPT ![c] = [pc |-> "resolve", operation |-> o, sends |-> 1,
                                                        age |-> 0, left |-> 0]]
        BY <3>1 DEF SendRequest
      <4> QED
        BY <4>1
    <3>2. CASE RetryRequest(c)
      BY <3>2 DEF RetryRequest
    <3> QED
      BY <1>1, <3>1, <3>2
  <2> QED
    BY <2>1, NoOlder
<1>2. CASE ResolveRequest(c)
  BY <1>2, AnswerInTime, HopInTime, MoveInTime DEF ResolveRequest, Active
<1>3. CASE UseChannel(c) \/ ConnectPricing(c)
  BY <1>3, AnswerInTime, MoveInTime DEF UseChannel, ConnectPricing, Active
<1>4. CASE SendCall(c)
  BY <1>4, HopInTime DEF SendCall, Active
<1>5. CASE Respond(c) \/ ReadBody(c)
  BY <1>5, AnswerInTime, HopInTime DEF Respond, ReadBody, Active
<1>6. CASE HopExpires(c)
  BY <1>6, AnswerInTime DEF HopExpires
<1>7. CASE RequestExpires(c)
  <2>1. PICK r : /\ r = [pc |-> "answered", operation |-> request[c].operation,
                         sends |-> request[c].sends, told |-> "timeout"]
                 /\ request' = [request EXCEPT ![c] = r]
    BY <1>7 DEF RequestExpires
  <2>2. r.pc \notin Active
    BY <2>1 DEF Active
  <2> QED
    BY <2>1, <2>2, NoOlder
<1> QED
  BY <1>1, <1>2, <1>3, <1>4, <1>5, <1>6, <1>7

(* No request stays open past STOREFRONT_REQUEST_TIMEOUT, for any clients, *)
(* operations and budgets, although a request that waits for others to     *)
(* open the pricing channel uses a hop timeout worked out before the wait  *)
(* (request_timeout_middleware over remaining_timeout).                    *)
THEOREM EveryRequestAnsweredInTime == GatewaySpec => []AnsweredInTime
<1>1. GatewayInit => AnsweredInTime
  BY DEF GatewayInit, AnsweredInTime, Active
<1>2. ASSUME GatewayInv, AnsweredInTime, [GatewayNext]_gatewayVars
      PROVE  AnsweredInTime'
  <2>1. CASE request' = request
    BY <1>2, <2>1 DEF AnsweredInTime
  <2>2. CASE TimePasses
    BY <1>2, <2>2, TimeInTime
  <2>3. ASSUME NEW c \in Clients,
               \/ SendRequest(c) \/ RetryRequest(c) \/ ResolveRequest(c) \/ UseChannel(c)
               \/ ConnectPricing(c) \/ SendCall(c) \/ Respond(c) \/ ReadBody(c)
               \/ HopExpires(c) \/ RequestExpires(c)
        PROVE  AnsweredInTime'
    BY <1>2, <2>3, ClientInTime
  <2>4. \/ request' = request
        \/ TimePasses
        \/ \E c \in Clients :
             \/ SendRequest(c) \/ RetryRequest(c) \/ ResolveRequest(c) \/ UseChannel(c)
             \/ ConnectPricing(c) \/ SendCall(c) \/ Respond(c) \/ ReadBody(c)
             \/ HopExpires(c) \/ RequestExpires(c)
    BY <1>2 DEF GatewayNext, Arrive, FinishWork, gatewayVars
  <2> QED
    BY <2>1, <2>2, <2>3, <2>4
<1>3. GatewayInv /\ AnsweredInTime /\ [GatewayNext]_gatewayVars => GatewayInv' /\ AnsweredInTime'
  BY <1>2, GatewayNextInv
<1> QED
  BY <1>1, <1>3, GatewayInitInv, PTL DEF GatewaySpec

HIDE GatewayAssumption

-----------------------------------------------------------------------------
(* The verification of a trace.                                            *)

USE VerifyAssumption, FaultsAssumption

(* The spans that receive the message.                                     *)
Consumers == {Consumer(n) : n \in 1..Deliveries} \cup {Analytics}

(* Spans are told apart by their role.                                     *)
LEMMA SpanRoles ==
    /\ Root.role = "checkout" /\ Producer.role = "send" /\ Analytics.role = "analytics"
    /\ Notification.role = "notify" /\ None.role = "none"
    /\ \A service \in Steps : Step(service).role = "step"
    /\ \A n \in 1..Deliveries : Consumer(n).role = "orders"
  BY DEF Root, Producer, Analytics, Notification, None, Step, Consumer, Received, Span

(* The parents the run records.                                            *)
LEMMA SpanParents ==
    /\ Root.parent = None /\ Producer.parent = Root /\ Notification.parent = Consumer(1)
    /\ \A service \in Steps : Step(service).parent = Root
    /\ Analytics.parent = IF 0 \in Restarted THEN None ELSE Producer
    /\ \A n \in 1..Deliveries : Consumer(n).parent = IF n \in Restarted THEN None ELSE Producer
  BY DEF Root, Producer, Analytics, Notification, None, Step, Consumer, Received, Span

(* The traces the spans belong to.                                         *)
LEMMA SpanTraces ==
    /\ Root.trace = Anchor /\ Producer.trace = Anchor
    /\ Notification.trace = Consumer(1).trace
    /\ \A service \in Steps : Step(service).trace = Anchor
    /\ Analytics.trace = IF 0 \in Restarted THEN Delivery(0) ELSE Anchor
    /\ \A n \in 1..Deliveries : Consumer(n).trace = IF n \in Restarted THEN Delivery(n) ELSE Anchor
  BY DEF Root, Producer, Notification, Analytics, Step, Consumer, Received, Span

(* A run has finitely many spans.                                          *)
LEMMA SpansFinite == IsFiniteSet(Spans)
  <1>1. IsFiniteSet({Root, Producer, Analytics, Notification})
    <2>1. IsFiniteSet({Root})
      BY FS_Singleton
    <2>2. IsFiniteSet({Root} \cup {Producer})
      BY <2>1, FS_AddElement
    <2>3. IsFiniteSet(({Root} \cup {Producer}) \cup {Analytics})
      BY <2>2, FS_AddElement
    <2>4. IsFiniteSet((({Root} \cup {Producer}) \cup {Analytics}) \cup {Notification})
      BY <2>3, FS_AddElement
    <2>5. {Root, Producer, Analytics, Notification}
            = (({Root} \cup {Producer}) \cup {Analytics}) \cup {Notification}
      OBVIOUS
    <2> QED
      BY <2>4, <2>5
  <1>2. IsFiniteSet({Step(service) : service \in Steps})
    <2> DEFINE T == {Step(service) : service \in Steps}
               f == [service \in Steps |-> Step(service)]
    <2>1. f \in [Steps -> T] /\ \A t \in T : \E s \in Steps : f[s] = t
      OBVIOUS
    <2>2. f \in Surjection(Steps, T)
      BY <2>1 DEF Surjection
    <2> QED
      BY <2>2, FS_Surjection
  <1>3. IsFiniteSet({Consumer(n) : n \in 1..Deliveries})
    <2> DEFINE T == {Consumer(n) : n \in 1..Deliveries}
               f == [n \in 1..Deliveries |-> Consumer(n)]
    <2>1. f \in [1..Deliveries -> T] /\ \A t \in T : \E n \in 1..Deliveries : f[n] = t
      OBVIOUS
    <2>2. f \in Surjection(1..Deliveries, T)
      BY <2>1 DEF Surjection
    <2>3. IsFiniteSet(1..Deliveries)
      BY FS_Interval
    <2> QED
      BY <2>2, <2>3, FS_Surjection
  <1> QED
    BY <1>1, <1>2, <1>3, FS_Union DEF Spans

(* A span of the run is known by its role.                                 *)
LEMMA ByRole ==
    ASSUME NEW s \in Spans
    PROVE  /\ s.role = "checkout" => s = Root
           /\ s.role = "send" => s = Producer
           /\ s.role = "analytics" => s = Analytics
           /\ s.role = "notify" => s = Notification
           /\ s.role = "orders" => \E n \in 1..Deliveries : s = Consumer(n)
           /\ s # None
  BY SpanRoles DEF Spans

(* Only a delivery after the first can have been deferred.                 *)
DeferredLater == fault.kind = "deferred" => fault.at \in FaultySpans("deferred")

(* The evidence an attempt has to have seen.                                *)
LEMMA EvidenceIsThere ==
    ASSUME NEW N \in SUBSET Spans, analyze_details(N), DeferredLater
    PROVE  /\ {Root, Producer, Analytics, Notification, Consumer(1)} \subseteq N
           /\ parent_span_id(Notification) = Consumer(1)
           /\ business_baggage(Notification) = business_baggage(Root)
           /\ \A c \in With(N, "orders") :
                 order_id(Notification) = order_id(c) /\ message_id(Notification) = message_id(c)
  <1>1. PICK p \in N : p.role = "send"
    BY DEF analyze_details, required_evidence, With
  <1>2. PICK a \in N : a.role = "analytics"
    BY DEF analyze_details, required_evidence, With
  <1>3. PICK s \in With(N, "notify") :
          /\ parent_span_id(s) \in With(N, "orders")
          /\ business_baggage(s) = business_baggage(Root)
          /\ \A c \in With(N, "orders") : order_id(s) = order_id(c) /\ message_id(s) = message_id(c)
    BY DEF analyze_details, notification_evidence
  <1>4. With(N, "checkout") # {}
    <2>1. Cardinality(With(N, "checkout")) = 1
      BY DEF analyze_details, required_evidence
    <2> QED
      BY <2>1, FS_EmptySet
  <1>5. PICK r \in N : r.role = "checkout"
    BY <1>4 DEF With
  <1>6. p = Producer /\ a = Analytics /\ r = Root /\ s = Notification /\ s \in N
    BY <1>1, <1>2, <1>3, <1>5, ByRole DEF With
  <1>7. parent_span_id(Notification) = Consumer(1)
    <2>1. parent_span_id(s) # None
      BY <1>3, SpanRoles DEF With
    <2>2. ~Wrong(Notification, "deferred")
      BY SpanRoles DEF DeferredLater, FaultySpans, Wrong
    <2> QED
      BY <1>6, <2>1, <2>2, SpanParents DEF parent_span_id
  <1> QED
    BY <1>1, <1>2, <1>3, <1>5, <1>6, <1>7 DEF With

(* A span that lost its parent is a second root of its trace.               *)
LEMMA DetachedIsSeen ==
    ASSUME NEW N \in SUBSET Spans, analyze_details(N), fault.kind = "detached",
           fault.at \in FaultySpans("detached")
    PROVE  fault.at \notin N
  <1> SUFFICES ASSUME fault.at \in N PROVE FALSE
    OBVIOUS
  <1> DEFINE x == fault.at
             roots(t) == {s \in N : s.trace = t /\ parent_span_id(s) = None}
  <1>1. {Root, Consumer(1)} \subseteq N /\ parent_span_id(Notification) = Consumer(1)
    BY EvidenceIsThere DEF DeferredLater
  <1>2. x \in Spans /\ x.parent # None
    BY DEF FaultySpans
  <1>3. parent_span_id(x) = None
    BY DEF parent_span_id, Wrong
  <1>4. x # Notification
    BY <1>1, <1>3, SpanRoles
  <1>5. x.trace = Anchor /\ x # Root
    BY <1>2, <1>4, SpanTraces, SpanParents DEF Spans
  <1>6. parent_span_id(Root) = None /\ Root.trace = Anchor
    BY SpanParents, SpanTraces DEF parent_span_id, Wrong
  <1>7. x \in roots(Anchor) /\ Root \in roots(Anchor)
    BY <1>1, <1>3, <1>5, <1>6
  <1>8. Cardinality(roots(Anchor)) = 1
    BY <1>1, <1>6 DEF analyze_details, parent_topology
  <1>9. IsFiniteSet(roots(Anchor))
    BY SpansFinite, FS_Subset
  <1>10. \E y : roots(Anchor) = {y}
    BY <1>8, <1>9, FS_Singleton
  <1> QED
    BY <1>5, <1>7, <1>10

(* Baggage, message and order are compared over the spans of the message.   *)
LEMMA IdentityIsSeen ==
    ASSUME NEW N \in SUBSET Spans, analyze_details(N), fault.kind \in {"baggage", "message", "order"},
           fault.at \in FaultySpans(fault.kind)
    PROVE  fault.at \notin N
  <1> SUFFICES ASSUME fault.at \in N PROVE FALSE
    OBVIOUS
  <1> DEFINE x == fault.at
             messaging == With(N, "send") \cup With(N, "orders") \cup With(N, "analytics")
  <1>1. /\ {Root, Producer, Analytics, Notification, Consumer(1)} \subseteq N
        /\ business_baggage(Notification) = business_baggage(Root)
        /\ \A c \in With(N, "orders") :
              order_id(Notification) = order_id(c) /\ message_id(Notification) = message_id(c)
    BY EvidenceIsThere DEF DeferredLater
  <1>2. /\ \A s \in messaging : business_baggage(s) = business_baggage(Root)
        /\ \A s, t \in messaging : message_id(s) = message_id(t)
        /\ \A s, t \in messaging \ With(N, "send") : order_id(s) = order_id(t)
    BY DEF analyze_details, one_identity
  <1>3. Producer \in messaging /\ Analytics \in messaging \ With(N, "send")
          /\ Consumer(1) \in messaging \ With(N, "send") /\ Consumer(1) \in With(N, "orders")
    BY <1>1, SpanRoles DEF With
  <1>4. CASE fault.kind = "baggage"
    <2>1. x \in {Root, Producer, Notification} \cup Consumers
      BY <1>4 DEF FaultySpans, Consumers
    <2>2. x \in {Root, Notification} \/ x \in messaging
      BY <2>1, SpanRoles DEF Consumers, With
    <2>3. \A s : business_baggage(s) = IF s = x THEN "other" ELSE "tenant"
      BY <1>4 DEF business_baggage, Wrong
    <2>4. Producer # Root /\ Root # Notification /\ Notification # Producer
      BY SpanRoles
    <2>5. \A s \in messaging : s # Root
      BY SpanRoles DEF With
    <2> QED
      BY <1>1, <1>2, <1>3, <2>2, <2>3, <2>4, <2>5
  <1>5. CASE fault.kind = "message"
    <2>1. x \in {Producer, Notification} \cup Consumers
      BY <1>5 DEF FaultySpans, Consumers
    <2>2. x = Notification \/ x \in messaging
      BY <2>1, SpanRoles DEF Consumers, With
    <2>3. \A s : message_id(s) = IF s = x THEN "m2" ELSE "m1"
      BY <1>5 DEF message_id, Wrong
    <2>4. Producer # Analytics /\ Consumer(1) # Notification
      BY SpanRoles
    <2> QED
      BY <1>1, <1>2, <1>3, <2>2, <2>3, <2>4
  <1>6. CASE fault.kind = "order"
    <2>1. x \in {Notification} \cup Consumers
      BY <1>6 DEF FaultySpans, Consumers
    <2>2. x = Notification \/ x \in messaging \ With(N, "send")
      BY <2>1, SpanRoles DEF Consumers, With
    <2>3. \A s : order_id(s) = IF s = x THEN "o2" ELSE "o1"
      BY <1>6 DEF order_id, Wrong
    <2>4. Consumer(1) # Analytics /\ Consumer(1) # Notification
      BY SpanRoles
    <2> QED
      BY <1>1, <1>2, <1>3, <2>2, <2>3, <2>4
  <1> QED
    BY <1>4, <1>5, <1>6

(* The link of a consumer, as it is recorded.                              *)
LEMMA LinkOf ==
    ASSUME NEW s, NEW l \in typed_links(s)
    PROVE  /\ l.target = Sender(s)
           /\ l.traceparent = IF Wrong(s, "carrier") THEN Root ELSE Sender(s)
           /\ l.state = IF Wrong(s, "state") THEN "changed" ELSE "vendor"
           /\ l.bag = IF Wrong(s, "malformed") THEN "malformed" ELSE "tenant"
           /\ ~Wrong(s, "unlinked")
  BY DEF typed_links, Carrier

(* Every consumer's link was followed, and its carrier checked.             *)
LEMMA ConsumerLinks ==
    ASSUME NEW N \in SUBSET Spans, analyze_details(N), NEW s \in N, s.role \in {"orders", "analytics"}
    PROVE  \E l \in typed_links(s) : rabbit_edge(l)
  <1> DEFINE edges == {[source |-> c, link |-> l] : c \in With(N, s.role),
                          l \in UNION {typed_links(c) : c \in With(N, s.role)}}
             carried == {e \in edges : e.link \in typed_links(e.source)}
  <1>1. rabbit_edges(N, s.role)
    BY DEF analyze_details
  <1>2. s \in With(N, s.role)
    BY DEF With
  <1>3. /\ \A c \in With(N, s.role) : \E e \in carried : e.source = c
        /\ \A e \in carried : rabbit_edge(e.link)
    BY <1>1 DEF rabbit_edges
  <1>4. PICK e \in carried : e.source = s
    BY <1>2, <1>3
  <1>5. e.link \in typed_links(s) /\ rabbit_edge(e.link)
    BY <1>3, <1>4
  <1> QED
    BY <1>5

(* A link that is missing, or whose carrier is wrong, is noticed.          *)
LEMMA LinkIsSeen ==
    ASSUME NEW N \in SUBSET Spans, analyze_details(N),
           fault.kind \in {"unlinked", "carrier", "state", "malformed"},
           fault.at \in FaultySpans(fault.kind)
    PROVE  fault.at \notin N
  <1> SUFFICES ASSUME fault.at \in N PROVE FALSE
    OBVIOUS
  <1>1. PICK x : x = fault.at
    OBVIOUS
  <1>2. x \in Consumers
    BY <1>1 DEF FaultySpans, Consumers
  <1>3. x \in N /\ x.role \in {"orders", "analytics"} /\ Wrong(x, fault.kind)
    BY <1>1, <1>2, SpanRoles DEF Consumers, Wrong
  <1>4. PICK l \in typed_links(x) : rabbit_edge(l)
    BY <1>3, ConsumerLinks
  <1>5. fault.kind \notin {"unlinked", "carrier", "malformed"}
    <2>1. Sender(x) = Producer
      BY DEF Sender, Wrong
    <2> QED
      BY <1>3, <1>4, <2>1, LinkOf, SpanRoles DEF rabbit_edge, well_formed
  <1>6. fault.kind # "state"
    <2> SUFFICES ASSUME fault.kind = "state" PROVE FALSE
      OBVIOUS
    <2>1. PICK y \in {Analytics, Consumer(1)} : y # x
      BY SpanRoles
    <2>2. y \in N /\ y.role \in {"orders", "analytics"} /\ ~Wrong(y, "state")
      BY <1>1, <2>1, EvidenceIsThere, SpanRoles DEF Wrong, DeferredLater
    <2>3. PICK k \in typed_links(y) : rabbit_edge(k)
      BY <2>2, ConsumerLinks
    <2> DEFINE states == {m.state : m \in UNION {typed_links(s) : s \in N}}
    <2>4. "changed" \in states
      BY <1>3, <1>4, LinkOf
    <2>5. "vendor" \in states
      BY <2>2, <2>3, LinkOf
    <2>6. states \subseteq {"vendor", "changed"}
      BY LinkOf
    <2>7. IsFiniteSet({"vendor"} \cup {"changed"})
      BY FS_Singleton, FS_AddElement
    <2>8. IsFiniteSet(states)
      BY <2>6, <2>7, FS_Subset
    <2>9. Cardinality(states) = 1
      BY DEF analyze_details, one_tracestate
    <2>10. \E z : states = {z}
      BY <2>8, <2>9, FS_Singleton
    <2> HIDE DEF states
    <2> QED
      BY <2>4, <2>5, <2>10
  <1> QED
    BY <1>5, <1>6

(* An attempt that passed the analysis saw the whole run and not the fault. *)
SawTheRun ==
    /\ {Root, Producer, Analytics, Notification, Consumer(1)} \subseteq verifier.nodes
    /\ fault.kind # "deferred" => fault.at \notin verifier.nodes

(* The inductive invariant of the verification.                            *)
VerifyInv ==
    /\ stored \subseteq Spans
    /\ fault = [kind |-> "none", at |-> None] \/ fault \in Faults
    /\ DOMAIN verifier = DOMAIN Idle
    /\ verifier.nodes \subseteq stored
    /\ verifier.phase \in {"evidence", "passed"} => SawTheRun
    /\ verifier.phase = "passed" => row /\ fault.kind # "row"

(* Nothing is stored and nothing was seen.                                 *)
LEMMA VerifyInitInv == VerifyInit => VerifyInv
  BY DEF VerifyInit, VerifyInv, Idle

(* Nodes that pass the analysis are those of a complete run without the    *)
(* fault.                                                                  *)
LEMMA AnalysisIsSound ==
    ASSUME VerifyInv, analyze_details(verifier.nodes)
    PROVE  SawTheRun
  <1>1. verifier.nodes \in SUBSET Spans
    BY DEF VerifyInv
  <1>2. DeferredLater
    BY DEF VerifyInv, DeferredLater
  <1>3. {Root, Producer, Analytics, Notification, Consumer(1)} \subseteq verifier.nodes
    BY <1>1, <1>2, EvidenceIsThere
  <1>4. CASE fault.kind \in {"none", "row"}
    <2>1. FaultySpans(fault.kind) = {None}
      BY <1>4 DEF FaultySpans
    <2>2. fault \in Faults => fault.at = None
      BY <2>1
    <2>3. fault.at = None
      BY <2>2 DEF VerifyInv
    <2> QED
      BY <1>1, <1>3, <2>3, ByRole DEF SawTheRun
  <1>5. CASE fault.kind \notin {"none", "row", "deferred"}
    <2>1. fault \in Faults
      BY <1>5 DEF VerifyInv
    <2>2. fault.kind \in {"detached", "baggage", "message", "order",
                         "unlinked", "carrier", "state", "malformed"}
            /\ fault.at \in FaultySpans(fault.kind)
      BY <1>5, <2>1
    <2>3. fault.at \notin verifier.nodes
      BY <1>1, <2>2, DetachedIsSeen, IdentityIsSeen, LinkIsSeen
    <2> QED
      BY <1>3, <2>3 DEF SawTheRun
  <1>6. CASE fault.kind = "deferred"
    BY <1>3, <1>6 DEF SawTheRun
  <1> QED
    BY <1>4, <1>5, <1>6

(* A step of the verifier keeps the invariant when a passed analysis is    *)
(* behind its phase.                                                       *)
LEMMA VerifierMoves ==
    ASSUME VerifyInv, UNCHANGED <<fault, stored, row>>, DOMAIN verifier' = DOMAIN Idle,
           verifier'.nodes \subseteq stored,
           verifier'.phase \in {"evidence", "passed"} => verifier'.nodes = verifier.nodes /\ SawTheRun,
           verifier'.phase = "passed" => row /\ fault.kind # "row"
    PROVE  VerifyInv'
  BY DEF VerifyInv, SawTheRun

(* A failed attempt forgets what it saw.                                   *)
LEMMA RetryKeepsNothing ==
    ASSUME VerifyInv, NEW error, Retry(error), UNCHANGED <<fault, stored, row>>
    PROVE  VerifyInv'
  <1>1. DOMAIN verifier' = DOMAIN Idle /\ verifier'.nodes = {} /\ verifier'.phase \in {"failed", "asleep"}
    BY DEF Retry, Idle
  <1> QED
    BY <1>1, VerifierMoves

(* Every step keeps the invariant.                                         *)
LEMMA VerifyNextInv == VerifyInv /\ [VerifyNext]_verifyVars => VerifyInv'
  <1> SUFFICES ASSUME VerifyInv, [VerifyNext]_verifyVars
               PROVE  VerifyInv'
    OBVIOUS
  <1> USE DEF Idle
  <1>1. CASE BeginVerify
    <2>1. verifier' = [verifier EXCEPT !.phase = "due"] /\ fault' \in Faults /\ UNCHANGED <<stored, row>>
      BY <1>1 DEF BeginVerify
    <2>2. DOMAIN verifier' = DOMAIN Idle /\ verifier'.nodes = verifier.nodes /\ verifier'.phase = "due"
      BY <2>1 DEF VerifyInv
    <2> QED
      BY <2>1, <2>2 DEF VerifyInv
  <1>2. ASSUME NEW s \in Spans, ExportSpan(s) PROVE VerifyInv'
    BY <1>2 DEF ExportSpan, VerifyInv, SawTheRun
  <1>3. CASE IngestRow
    BY <1>3 DEF IngestRow, VerifyInv, SawTheRun
  <1>4. CASE StartAttempt
    <2>1. DOMAIN verifier' = DOMAIN Idle /\ verifier'.nodes \subseteq stored
            /\ verifier'.phase \in {"failed", "fetching"}
      BY <1>4 DEF StartAttempt, VerifyInv
    <2> QED
      BY <1>4, <2>1, VerifierMoves DEF StartAttempt
  <1>5. CASE FetchTrace
    <2> DEFINE t == Head(verifier.pending)
               found == {s \in stored : s.trace = t}
               new == linkedTraces(t) \ verifier.scheduled
    <2>1. \/ Retry("content")
          \/ \E p : verifier' = [verifier EXCEPT !.pending = p, !.scheduled = @ \cup new, !.nodes = @ \cup found]
      BY <1>5 DEF FetchTrace
    <2>2. UNCHANGED <<fault, stored, row>> /\ verifier.phase = "fetching"
      BY <1>5 DEF FetchTrace
    <2>3. ASSUME NEW p, verifier' = [verifier EXCEPT !.pending = p, !.scheduled = @ \cup new,
                                                    !.nodes = @ \cup found]
          PROVE  VerifyInv'
      <3>1. DOMAIN verifier' = DOMAIN Idle /\ verifier'.nodes = verifier.nodes \cup found
              /\ verifier'.phase = "fetching"
        BY <2>2, <2>3 DEF VerifyInv
      <3>2. verifier'.nodes \subseteq stored
        BY <3>1 DEF VerifyInv
      <3> QED
        BY <2>2, <3>1, <3>2, VerifierMoves
    <2> QED
      BY <2>1, <2>2, <2>3, RetryKeepsNothing
  <1>6. CASE Analyze
    <2>1. CASE analyze_details(verifier.nodes)
      <3>1. verifier' = [verifier EXCEPT !.phase = "evidence"] /\ UNCHANGED <<fault, stored, row>>
        BY <1>6, <2>1 DEF Analyze
      <3>2. DOMAIN verifier' = DOMAIN Idle /\ verifier'.nodes = verifier.nodes /\ verifier'.phase = "evidence"
        BY <3>1 DEF VerifyInv
      <3>3. verifier'.nodes \subseteq stored
        BY <3>2 DEF VerifyInv
      <3> QED
        BY <2>1, <3>1, <3>2, <3>3, AnalysisIsSound, VerifierMoves
    <2> QED
      BY <1>6, <2>1, RetryKeepsNothing DEF Analyze
  <1>7. CASE CheckEvidence
    <2>1. CASE row /\ fault.kind # "row"
      <3>1. verifier' = [verifier EXCEPT !.phase = "passed"] /\ UNCHANGED <<fault, stored, row>>
        BY <1>7, <2>1 DEF CheckEvidence
      <3>2. DOMAIN verifier' = DOMAIN Idle /\ verifier'.nodes = verifier.nodes /\ verifier'.phase = "passed"
        BY <3>1 DEF VerifyInv
      <3>3. verifier'.nodes \subseteq stored /\ SawTheRun
        BY <1>7, <3>2 DEF VerifyInv, CheckEvidence
      <3> QED
        BY <2>1, <3>1, <3>2, <3>3, VerifierMoves
    <2> QED
      BY <1>7, <2>1, RetryKeepsNothing DEF CheckEvidence
  <1>8. CASE RequestFails
    BY <1>8, RetryKeepsNothing DEF RequestFails
  <1>9. CASE VerifyTick
    <2>1. UNCHANGED <<fault, stored, row>>
      BY <1>9 DEF VerifyTick
    <2>2. /\ DOMAIN verifier' = DOMAIN Idle /\ verifier'.nodes = verifier.nodes
          /\ verifier'.phase = verifier.phase \/ verifier'.phase = "due"
      BY <1>9 DEF VerifyTick, VerifyInv
    <2>3. verifier'.nodes \subseteq stored
      BY <2>2 DEF VerifyInv
    <2> QED
      BY <2>1, <2>2, <2>3, VerifierMoves DEF VerifyInv
  <1>10. CASE VerifyTimeout
    <2>1. DOMAIN verifier' = DOMAIN Idle /\ verifier'.nodes = {} /\ verifier'.phase = "failed"
      BY <1>10 DEF VerifyTimeout
    <2> QED
      BY <1>10, <2>1, VerifierMoves DEF VerifyTimeout
  <1>11. CASE UNCHANGED verifyVars
    BY <1>11 DEF verifyVars, VerifyInv, SawTheRun
  <1> QED
    BY <1>1, <1>2, <1>3, <1>4, <1>5, <1>6, <1>7, <1>8, <1>9, <1>10, <1>11 DEF VerifyNext, VerifyStep

(* A run that passes the verification is complete and its fault was not in *)
(* what was read, for any number of services and deliveries, any fault a   *)
(* span can show, and any order in which spans arrive while the traces are *)
(* read (analyze_details and the polling loop of the CLI).                 *)
THEOREM VerifierIsSound == VerifySpec => []PassedRunIsSound
  <1>1. VerifyInv => PassedRunIsSound
    BY DEF VerifyInv, SawTheRun, PassedRunIsSound
  <1> QED
    BY <1>1, VerifyInitInv, VerifyNextInv, PTL DEF VerifySpec

-----------------------------------------------------------------------------
(* The verification of a complete run without fault.                       *)

(* MAX_TRACES leaves room for the anchor trace, the analytics trace and    *)
(* one for each delivery.                                                  *)
RunFits == Deliveries + 2 <= TraceLimit

(* The traces of the run.                                                  *)
Traces == {s.trace : s \in Spans}

(* Traces are told apart by their names and numbers.                       *)
LEMMA TracesDiffer ==
    \A m, n \in 0..Deliveries : Delivery(m) # Anchor /\ (Delivery(m) = Delivery(n) => m = n)
  BY DEF Anchor, Delivery

(* A span is in the anchor trace or in one that a consumer started.        *)
LEMMA TraceOfSpan ==
    ASSUME NEW s \in Spans
    PROVE  \/ s.trace = Anchor
           \/ /\ 0 \in Restarted /\ s = Analytics /\ s.trace = Delivery(0)
           \/ \E n \in 1..Deliveries :
                 n \in Restarted /\ s \in {Consumer(n), Notification} /\ s.trace = Delivery(n)
                   /\ Consumer(n).trace = Delivery(n)
  <1>1. 1 \in 1..Deliveries
    OBVIOUS
  <1> QED
    BY <1>1, SpanTraces DEF Spans

(* A run has at most two traces more than deliveries.                      *)
LEMMA TracesCount ==
    IsFiniteSet(Traces) /\ Cardinality(Traces) \in Nat /\ Cardinality(Traces) <= Deliveries + 2
  <1> DEFINE started == {Delivery(n) : n \in 0..Deliveries}
             f == [n \in 0..Deliveries |-> Delivery(n)]
  <1>1. f \in Surjection(0..Deliveries, started)
    <2>1. f \in [0..Deliveries -> started] /\ \A t \in started : \E n \in 0..Deliveries : f[n] = t
      OBVIOUS
    <2> HIDE DEF f, started
    <2> QED
      BY <2>1 DEF Surjection
  <1>2. IsFiniteSet(0..Deliveries) /\ Cardinality(0..Deliveries) = Deliveries + 1
    <2>1. 0 \in Int /\ Deliveries \in Int /\ 0 <= Deliveries /\ Deliveries - 0 + 1 = Deliveries + 1
      OBVIOUS
    <2> QED
      BY <2>1, FS_Interval
  <1>3. Traces \subseteq started \cup {Anchor}
    <2>1. 0 \in 0..Deliveries /\ \A n \in 1..Deliveries : n \in 0..Deliveries
      OBVIOUS
    <2> QED
      BY <2>1, TraceOfSpan DEF Traces
  <1> HIDE DEF f, started
  <1>4. IsFiniteSet(started) /\ Cardinality(started) \in Nat /\ Cardinality(started) <= Deliveries + 1
    BY <1>1, <1>2, FS_Surjection, FS_CardinalityType
  <1>5. /\ IsFiniteSet(started \cup {Anchor})
        /\ Cardinality(started \cup {Anchor}) \in {Cardinality(started), Cardinality(started) + 1}
    BY <1>4, FS_AddElement
  <1>6. IsFiniteSet(Traces) /\ Cardinality(Traces) <= Cardinality(started \cup {Anchor})
    BY <1>3, <1>5, FS_Subset
  <1>7. Cardinality(Traces) \in Nat
    BY <1>6, FS_CardinalityType
  <1> QED
    BY <1>4, <1>5, <1>6, <1>7

(* Without a fault every span says of itself what the run recorded.        *)
LEMMA CleanSpans ==
    ASSUME fault.kind = "none"
    PROVE  \A s : /\ parent_span_id(s) = s.parent
                  /\ business_baggage(s) = "tenant"
                  /\ message_id(s) = "m1" /\ order_id(s) = "o1"
                  /\ typed_links(s) = IF s.role \in {"orders", "analytics"} THEN {Carrier(Producer)} ELSE {}
  <1> SUFFICES ASSUME NEW s
               PROVE  /\ parent_span_id(s) = s.parent
                      /\ business_baggage(s) = "tenant"
                      /\ message_id(s) = "m1" /\ order_id(s) = "o1"
                      /\ typed_links(s) = IF s.role \in {"orders", "analytics"} THEN {Carrier(Producer)} ELSE {}
    OBVIOUS
  <1>1. /\ ~Wrong(s, "detached") /\ ~Wrong(s, "baggage") /\ ~Wrong(s, "message") /\ ~Wrong(s, "order")
        /\ ~Wrong(s, "unlinked") /\ ~Wrong(s, "carrier") /\ ~Wrong(s, "state") /\ ~Wrong(s, "malformed")
        /\ ~Wrong(s, "deferred")
    BY DEF Wrong
  <1>2. typed_links(s) = IF s.role \in {"orders", "analytics"} THEN {Carrier(Producer)} ELSE {}
    BY <1>1 DEF typed_links, Carrier, Sender
  <1> QED
    BY <1>1, <1>2 DEF parent_span_id, business_baggage, message_id, order_id

(* The fields of a carrier of the run.                                     *)
LEMMA CarrierFields ==
    /\ Carrier(Producer).target = Producer /\ Carrier(Producer).traceparent = Producer
    /\ Carrier(Producer).state = "vendor" /\ Carrier(Producer).bag = "tenant"
  BY DEF Carrier

(* The links lead from the anchor to every other trace, and nowhere else.  *)
LEMMA LinksOfTheRun ==
    ASSUME fault.kind = "none", stored = Spans
    PROVE  /\ linkedTraces(Anchor) \cup {Anchor} = Traces
           /\ \A t : linkedTraces(t) \subseteq Traces
  <1>1. Producer \in Spans /\ Producer.trace = Anchor /\ Anchor \in Traces
    BY SpanTraces DEF Spans, Traces
  <1>2. \A c : \A l \in typed_links(c) : l.target = Producer
    BY CleanSpans, CarrierFields
  <1>3. ASSUME NEW t PROVE linkedTraces(t) \subseteq Traces
    <2>1. {s.trace : s \in {c \in stored : \E l \in typed_links(c) : l.target.trace = t}} \subseteq Traces
      BY DEF Traces
    <2>2. {l.target.trace : l \in UNION {typed_links(c) : c \in {d \in stored : d.trace = t}}} \subseteq Traces
      BY <1>1, <1>2
    <2> QED
      BY <2>1, <2>2 DEF linkedTraces
  <1>4. ASSUME NEW c \in Spans, c.role \in {"orders", "analytics"} PROVE c.trace \in linkedTraces(Anchor)
    <2>1. Carrier(Producer) \in typed_links(c) /\ Carrier(Producer).target.trace = Anchor
      BY <1>1, <1>4, CleanSpans, CarrierFields
    <2>2. c \in {d \in stored : \E l \in typed_links(d) : l.target.trace = Anchor}
      BY <2>1
    <2> QED
      BY <2>2 DEF linkedTraces
  <1>5. ASSUME NEW s \in Spans, s.trace # Anchor PROVE s.trace \in linkedTraces(Anchor)
    <2>1. PICK c \in Spans : c.role \in {"orders", "analytics"} /\ c.trace = s.trace
      <3>1. Analytics \in Spans /\ \A n \in 1..Deliveries : Consumer(n) \in Spans
        BY DEF Spans
      <3> QED
        BY <1>5, <3>1, TraceOfSpan, SpanRoles
    <2> QED
      BY <1>4, <2>1
  <1>6. Traces \subseteq linkedTraces(Anchor) \cup {Anchor}
    BY <1>5 DEF Traces
  <1> QED
    BY <1>1, <1>3, <1>6

(* Every trace of the run has one root, and every parent is there.         *)
LEMMA TopologyOfTheRun ==
    ASSUME fault.kind = "none"
    PROVE  parent_topology(Spans)
  <1> DEFINE roots(t) == {s \in Spans : s.trace = t /\ parent_span_id(s) = None}
  <1>0. Producer # None /\ Root # None /\ Consumer(1) # None
    BY SpanRoles
  <1>1. ASSUME NEW s \in Spans, s.parent = None
        PROVE  \/ s = Root
               \/ s = Analytics /\ 0 \in Restarted
               \/ \E n \in 1..Deliveries : s = Consumer(n) /\ n \in Restarted
    BY <1>0, <1>1, SpanParents DEF Spans
  <1>2. \A s \in Spans : s.parent \in Spans \cup {None}
    BY SpanParents DEF Spans
  <1>3. 0 \in 0..Deliveries /\ \A n \in 1..Deliveries : n \in 0..Deliveries /\ n # 0
    OBVIOUS
  <1>4. \A s : parent_span_id(s) = s.parent
    BY CleanSpans
  <1>5. roots(Anchor) = {Root}
    <2>1. Root \in roots(Anchor)
      BY <1>4, SpanTraces, SpanParents DEF Spans
    <2>2. ASSUME NEW s \in roots(Anchor) PROVE s = Root
      BY <1>1, <1>3, <1>4, SpanTraces, TracesDiffer
    <2> QED
      BY <2>1, <2>2
  <1>6. 0 \in Restarted => roots(Delivery(0)) = {Analytics}
    BY <1>1, <1>3, <1>4, SpanTraces, SpanParents, TracesDiffer DEF Spans
  <1>7. ASSUME NEW n \in 1..Deliveries, n \in Restarted PROVE roots(Delivery(n)) = {Consumer(n)}
    BY <1>1, <1>3, <1>4, <1>7, SpanTraces, SpanParents, TracesDiffer DEF Spans
  <1>8. ASSUME NEW s \in Spans PROVE \E x : roots(s.trace) = {x}
    <2> HIDE DEF roots
    <2> QED
      BY <1>5, <1>6, <1>7, TraceOfSpan
  <1>9. ASSUME NEW s \in Spans PROVE Cardinality(roots(s.trace)) = 1
    BY <1>8, FS_Singleton
  <1> HIDE DEF roots
  <1> QED
    BY <1>2, <1>4, <1>9 DEF parent_topology, roots

(* Every consumer's link leads to the producer of its message.             *)
LEMMA LinksResolve ==
    ASSUME fault.kind = "none"
    PROVE  typed_links_resolve(Spans)
  BY CleanSpans, CarrierFields, SpanRoles DEF typed_links_resolve, Spans

(* A queue has as many edges as deliveries, each with a sound carrier.     *)
LEMMA EdgesOfTheRun ==
    ASSUME fault.kind = "none", NEW role \in {"orders", "analytics"}
    PROVE  rabbit_edges(Spans, role)
  <1> DEFINE C == Carrier(Producer)
             W == With(Spans, role)
             edges == {[source |-> s, link |-> l] : s \in W, l \in UNION {typed_links(c) : c \in W}}
             carried == {e \in edges : e.link \in typed_links(e.source)}
             f == [s \in W |-> [source |-> s, link |-> C]]
  <1>1. \A s \in W : typed_links(s) = {C}
    BY CleanSpans DEF With
  <1>2. carried = {[source |-> s, link |-> C] : s \in W}
    <2>1. ASSUME NEW e \in carried PROVE e \in {[source |-> s, link |-> C] : s \in W}
      <3>1. PICK s \in W, l \in UNION {typed_links(c) : c \in W} : e = [source |-> s, link |-> l]
        OBVIOUS
      <3>2. l = C
        BY <1>1
      <3> QED
        BY <3>1, <3>2
    <2>2. ASSUME NEW s \in W PROVE [source |-> s, link |-> C] \in carried
      BY <1>1
    <2> QED
      BY <2>1, <2>2
  <1>3. Cardinality(carried) = Cardinality(W)
    <2>1. f \in [W -> carried]
      BY <1>2
    <2>2. \A s, t \in W : f[s] = f[t] => s = t
      <3> SUFFICES ASSUME NEW s \in W, NEW t \in W, f[s] = f[t] PROVE s = t
        OBVIOUS
      <3>1. f[s].source = s /\ f[t].source = t
        OBVIOUS
      <3> QED
        BY <3>1
    <2>3. \A e \in carried : \E s \in W : f[s] = e
      BY <1>2
    <2>4. IsFiniteSet(W)
      BY SpansFinite, FS_Subset DEF With
    <2> HIDE DEF f, W, carried
    <2>5. f \in Bijection(W, carried)
      BY <2>1, <2>2, <2>3 DEF Bijection, Injection, Surjection, IsInjective
    <2> QED
      BY <2>4, <2>5, FS_Bijection DEF ExistsBijection
  <1>4. rabbit_edge(C)
    BY CarrierFields, CleanSpans DEF rabbit_edge, well_formed
  <1>5. ASSUME NEW s \in W PROVE \E e \in carried : e.source = s
    <2>1. [source |-> s, link |-> C] \in carried
      BY <1>2
    <2>2. [source |-> s, link |-> C].source = s
      OBVIOUS
    <2> HIDE DEF carried
    <2> QED
      BY <2>1, <2>2
  <1>6. \A e \in carried : rabbit_edge(e.link)
    BY <1>2, <1>4
  <1> QED
    BY <1>3, <1>5, <1>6 DEF rabbit_edges

(* The run has one tracestate and one identity, and all that is required.  *)
LEMMA EvidenceOfTheRun ==
    ASSUME fault.kind = "none"
    PROVE  /\ required_evidence(Spans) /\ one_tracestate(Spans)
           /\ one_identity(Spans) /\ notification_evidence(Spans)
  <1>1. required_evidence(Spans)
    <2>1. Steps = {s.service : s \in With(Spans, "step")}
      <3>1. \A service \in Steps : Step(service).service = service
        BY DEF Step, Span
      <3>2. With(Spans, "step") = {Step(service) : service \in Steps}
        BY SpanRoles DEF Spans, With
      <3> QED
        BY <3>1, <3>2
    <2>2. With(Spans, "checkout") = {Root}
      BY SpanRoles DEF Spans, With
    <2>3. Producer \in With(Spans, "send") /\ Consumer(1) \in With(Spans, "orders")
            /\ Analytics \in With(Spans, "analytics")
      BY SpanRoles DEF Spans, With
    <2>4. Cardinality(With(Spans, "checkout")) = 1
      BY <2>2, FS_Singleton
    <2> DEFINE services == {s.service : s \in With(Spans, "step")}
               browser == {"web", "storefront"}
    <2>5. Steps \ browser \subseteq services
      BY <2>1
    <2>6. browser \cap services # {} => browser \subseteq services
      <3>1. "web" \in Steps <=> "storefront" \in Steps
        BY VerifyAssumption
      <3> QED
        BY <2>1, <3>1
    <2>7. With(Spans, "send") # {} /\ With(Spans, "orders") # {} /\ With(Spans, "analytics") # {}
      BY <2>3
    <2> QED
      BY <2>4, <2>5, <2>6, <2>7 DEF required_evidence
  <1>2. one_tracestate(Spans)
    <2> DEFINE U == UNION {typed_links(s) : s \in Spans}
    <2>1. U = {Carrier(Producer)}
      BY CleanSpans, SpanRoles DEF Spans
    <2>2. U = {Carrier(Producer)} => {l.state : l \in U} = {"vendor"}
      BY CarrierFields
    <2> HIDE DEF U
    <2>3. Cardinality({l.state : l \in U}) = 1
      BY <2>1, <2>2, FS_Singleton
    <2> QED
      BY <2>3 DEF one_tracestate, U
  <1>3. one_identity(Spans)
    BY CleanSpans DEF one_identity
  <1>4. notification_evidence(Spans)
    <2>1. Notification \in With(Spans, "notify") /\ Consumer(1) \in With(Spans, "orders")
      BY SpanRoles DEF Spans, With
    <2> QED
      BY <2>1, CleanSpans, SpanParents DEF notification_evidence
  <1> QED
    BY <1>1, <1>2, <1>3, <1>4

(* What the search has reached after each round: the root, its children,   *)
(* the consumers of the message, and the notification below the first.     *)
Round0 == {Root}
Round1 == {Root, Producer} \cup {Step(service) : service \in Steps}
Round2 == Round1 \cup {Consumer(n) : n \in 1..Deliveries} \cup {Analytics}

(* A round of the breadth-first search over parents and links.             *)
Neighbours(frontier) ==
    {b \in Spans : \E a \in frontier :
        \/ parent_span_id(a) = b \/ parent_span_id(b) = a
        \/ \E l \in typed_links(a) : l.target = b
        \/ \E l \in typed_links(b) : l.target = a}

(* Three rounds reach all spans.                                           *)
LEMMA RoundsOfTheSearch ==
    ASSUME fault.kind = "none"
    PROVE  /\ {s \in Spans : s.trace = Anchor /\ parent_span_id(s) = None} = Round0
           /\ Round0 \cup Neighbours(Round0) = Round1
           /\ Round1 \cup Neighbours(Round1) = Round2
           /\ Round2 \cup Neighbours(Round2) = Spans
           /\ Spans \cup Neighbours(Spans) = Spans
  <1>1. /\ \A s : \A l \in typed_links(s) : l.target = Producer
        /\ \A s : s.role \in {"orders", "analytics"} => Carrier(Producer) \in typed_links(s)
        /\ \A s : s.role \notin {"orders", "analytics"} => typed_links(s) = {}
        /\ Carrier(Producer).target = Producer
    BY CleanSpans, CarrierFields
  <1>2. \A s : parent_span_id(s) = s.parent
    BY CleanSpans
  <1>3. \A s \in Spans : \/ s = Root \/ s = Producer \/ s = Analytics \/ s = Notification
                         \/ \E service \in Steps : s = Step(service)
                         \/ \E n \in 1..Deliveries : s = Consumer(n)
    BY DEF Spans
  <1>4. Round2 \cup {Notification} = Spans /\ Round1 \subseteq Spans /\ Round0 \subseteq Spans
    BY DEF Round0, Round1, Round2, Spans
  <1>5. {s \in Spans : s.trace = Anchor /\ parent_span_id(s) = None} = Round0
    <2>1. /\ Analytics.trace = Anchor => Analytics.parent # None
          /\ \A n \in 1..Deliveries : Consumer(n).trace = Anchor => Consumer(n).parent # None
      <3>1. 0 \in 0..Deliveries /\ \A n \in 1..Deliveries : n \in 0..Deliveries
        OBVIOUS
      <3> QED
        BY <3>1, SpanTraces, SpanParents, SpanRoles, TracesDiffer
    <2>2. Notification.parent # None /\ Producer.parent # None
            /\ \A service \in Steps : Step(service).parent # None
      BY SpanParents, SpanRoles
    <2> QED
      BY <1>2, <1>3, <2>1, <2>2, SpanParents, SpanTraces, <1>4 DEF Round0
  <1>6. Round0 \cup Neighbours(Round0) = Round1
    <2>1. ASSUME NEW b \in Neighbours(Round0) PROVE b \in Round1
      <3>1. b \in Spans /\ (b = None \/ b.parent = Root \/ b = Producer \/ \E l \in typed_links(b) : l.target = Root)
        BY <1>1, <1>2, SpanParents DEF Neighbours, Round0
      <3>2. ~\E l \in typed_links(b) : l.target = Root
        BY <1>1, SpanRoles
      <3>3. b # None
        BY <3>1, ByRole
      <3>4. b.parent = Root => b \in Round1
        BY <1>3, <3>1, SpanParents, SpanRoles DEF Round1
      <3> QED
        BY <3>1, <3>2, <3>3, <3>4 DEF Round1
    <2>2. ASSUME NEW b \in Round1, b # Root PROVE b \in Neighbours(Round0)
      BY <1>2, <1>4, <2>2, SpanParents DEF Neighbours, Round0, Round1
    <2> QED
      BY <2>1, <2>2 DEF Round0, Round1
  <1>7. Round1 \cup Neighbours(Round1) = Round2
    <2>1. ASSUME NEW b \in Neighbours(Round1) PROVE b \in Round2
      <3>1. b \in Spans
        BY DEF Neighbours
      <3>2. b # Notification
        <4> SUFFICES ASSUME b = Notification PROVE FALSE
          OBVIOUS
        <4>1. PICK a \in Round1 : \/ a.parent = b \/ b.parent = a
                                  \/ \E l \in typed_links(a) : l.target = b
                                  \/ \E l \in typed_links(b) : l.target = a
          BY <1>2 DEF Neighbours
        <4>2. a.parent = Root \/ a.parent = None
          BY <4>1, SpanParents DEF Round1
        <4>3. b.parent = Consumer(1) /\ Consumer(1) \notin Round1
          BY SpanParents, SpanRoles DEF Round1
        <4>4. typed_links(b) = {}
          BY <1>1, SpanRoles
        <4> QED
          BY <1>1, <4>1, <4>2, <4>3, <4>4, SpanRoles
      <3> QED
        BY <1>4, <3>1, <3>2
    <2>2. ASSUME NEW b \in Round2, b \notin Round1 PROVE b \in Neighbours(Round1)
      <3>1. b.role \in {"orders", "analytics"} /\ b \in Spans
        BY <1>4, <2>2, SpanRoles DEF Round2
      <3>2. Producer \in Round1
        BY DEF Round1
      <3> QED
        BY <1>1, <3>1, <3>2 DEF Neighbours
    <2> QED
      BY <2>1, <2>2 DEF Round2
  <1>8. Round2 \cup Neighbours(Round2) = Spans
    <2>1. Notification \in Neighbours(Round2)
      <3>1. Consumer(1) \in Round2 /\ Notification \in Spans
        BY DEF Round2, Spans
      <3> QED
        BY <1>2, <3>1, SpanParents DEF Neighbours
    <2>2. Neighbours(Round2) \subseteq Spans
      BY DEF Neighbours
    <2> QED
      BY <1>4, <2>1, <2>2
  <1>9. Spans \cup Neighbours(Spans) = Spans
    BY DEF Neighbours
  <1> QED
    BY <1>5, <1>6, <1>7, <1>8, <1>9

(* A non-empty set of natural numbers has a least one.                     *)
LEMMA LeastNatural ==
    ASSUME NEW S \in SUBSET Nat, S # {}
    PROVE  \E x \in S : \A y \in S : x <= y
  <1>1. PICK x \in S : \A y \in S : ~(<<y, x>> \in OpToRel(<, Nat))
    BY NatLessThanWellFounded, WFMin
  <1>2. ASSUME NEW y \in S, ~(x <= y) PROVE FALSE
    <2>1. <<y, x>> \in {ss \in Nat \X Nat : ss[1] < ss[2]}
      BY <1>2
    <2>2. <<y, x>> \in OpToRel(<, Nat)
      BY <2>1, Zenon DEF OpToRel
    <2> QED
      BY <1>1, <2>2
  <1> QED
    BY <1>2

(* A complete run has at least three spans.                                *)
LEMMA EnoughSpans == Cardinality(Spans) \in Nat /\ Cardinality(Spans) >= 3
  <1>1. IsFiniteSet({Root}) /\ Cardinality({Root}) = 1
    BY FS_Singleton
  <1>2. IsFiniteSet({Root} \cup {Producer}) /\ Cardinality({Root} \cup {Producer}) = 2
    <2>1. Producer \notin {Root}
      BY SpanRoles
    <2> QED
      BY <1>1, <2>1, FS_AddElement
  <1>3. /\ IsFiniteSet(({Root} \cup {Producer}) \cup {Analytics})
        /\ Cardinality(({Root} \cup {Producer}) \cup {Analytics}) = 3
    <2>1. Analytics \notin {Root} \cup {Producer}
      BY SpanRoles
    <2>2. PICK T : T = {Root} \cup {Producer}
      OBVIOUS
    <2>3. IsFiniteSet(T \cup {Analytics}) /\ Cardinality(T \cup {Analytics}) = Cardinality(T) + 1
      BY <1>2, <2>1, <2>2, FS_AddElement
    <2>4. Cardinality(T) = 2
      BY <1>2, <2>2
    <2>5. IsFiniteSet(T \cup {Analytics}) /\ Cardinality(T \cup {Analytics}) = 3
      BY <2>3, <2>4
    <2> QED
      BY <2>2, <2>5
  <1>4. ({Root} \cup {Producer}) \cup {Analytics} \subseteq Spans
    BY DEF Spans
  <1> QED
    BY <1>3, <1>4, SpansFinite, FS_Subset, FS_CardinalityType

(* The recursive definition of the search has a solution, and any solution *)
(* has reached all spans when it ends.                                     *)
LEMMA SearchEnds ==
    ASSUME fault.kind = "none", NEW C \in Nat, C >= 3
    PROVE  LET Eqn(f) == f = [n \in 0..C |->
                   IF n = 0 THEN {s \in Spans : s.trace = Anchor /\ parent_span_id(s) = None}
                   ELSE f[n - 1] \cup Neighbours(f[n - 1])]
           IN  /\ \E f : Eqn(f)
               /\ \A f : Eqn(f) => f[C] = Spans
  <1> DEFINE Start == {s \in Spans : s.trace = Anchor /\ parent_span_id(s) = None}
             Eqn(f) == f = [n \in 0..C |-> IF n = 0 THEN Start ELSE f[n - 1] \cup Neighbours(f[n - 1])]
             g == [n \in 0..C |-> IF n = 0 THEN Round0 ELSE IF n = 1 THEN Round1
                                   ELSE IF n = 2 THEN Round2 ELSE Spans]
  <1>1. Start = Round0
    BY RoundsOfTheSearch
  <1> HIDE DEF Start
  <1>2. Eqn(g)
    <2>1. ASSUME NEW n \in 0..C
          PROVE  g[n] = IF n = 0 THEN Start ELSE g[n - 1] \cup Neighbours(g[n - 1])
      <3>1. CASE n = 0
        BY <1>1, <3>1
      <3>2. CASE n = 1
        <4>1. g[n - 1] = Round0 /\ g[n] = Round1
          BY <3>2
        <4> QED
          BY <3>2, <4>1, RoundsOfTheSearch
      <3>3. CASE n = 2
        <4>1. g[n - 1] = Round1 /\ g[n] = Round2
          BY <3>3
        <4> QED
          BY <3>3, <4>1, RoundsOfTheSearch
      <3>4. CASE n = 3
        <4>1. g[n - 1] = Round2 /\ g[n] = Spans
          BY <3>4
        <4> QED
          BY <3>4, <4>1, RoundsOfTheSearch
      <3>5. CASE n > 3
        <4>1. n - 1 \in 0..C /\ n - 1 >= 3 /\ n # 0
          BY <3>5
        <4>2. g[n - 1] = Spans /\ g[n] = Spans
          BY <3>5, <4>1
        <4> HIDE DEF g
        <4> QED
          BY <4>1, <4>2, RoundsOfTheSearch
      <3> QED
        BY <3>1, <3>2, <3>3, <3>4, <3>5
    <2>2. g = [n \in 0..C |-> g[n]]
      OBVIOUS
    <2> HIDE DEF g
    <2> QED
      BY <2>1, <2>2
  <1>3. ASSUME NEW f, Eqn(f) PROVE f[C] = Spans
    <2>1. \A n \in 0..C : f[n] = IF n = 0 THEN Start ELSE f[n - 1] \cup Neighbours(f[n - 1])
      BY <1>3
    <2> HIDE DEF Eqn
    <2>2. f[0] = Round0
      <3>1. 0 \in 0..C
        OBVIOUS
      <3> QED
        BY <1>1, <2>1, <3>1, Zenon
    <2>3. ASSUME NEW n \in 1..C PROVE f[n] = f[n - 1] \cup Neighbours(f[n - 1])
      <3>1. n \in 0..C /\ n # 0
        OBVIOUS
      <3> QED
        BY <2>1, <3>1
    <2>4. 1 \in 1..C /\ 2 \in 1..C /\ 3 \in 1..C /\ 1 - 1 = 0 /\ 2 - 1 = 1 /\ 3 - 1 = 2
      OBVIOUS
    <2>5. f[1] = Round1
      BY <2>2, <2>3, <2>4, RoundsOfTheSearch
    <2>6. f[2] = Round2
      BY <2>5, <2>3, <2>4, RoundsOfTheSearch
    <2>7. f[3] = Spans
      BY <2>6, <2>3, <2>4, RoundsOfTheSearch
    <2> DEFINE bad == {n \in 3..C : f[n] # Spans}
    <2>8. bad = {}
      <3> SUFFICES ASSUME bad # {} PROVE FALSE
        OBVIOUS
      <3>1. PICK m \in bad : \A k \in bad : m <= k
        <4>1. bad \in SUBSET Nat
          OBVIOUS
        <4> HIDE DEF bad
        <4> QED
          BY <4>1, LeastNatural
      <3>2. m \in 4..C /\ m - 1 \in 3..C /\ f[m] # Spans
        BY <2>7
      <3>3. f[m - 1] = Spans
        BY <3>1, <3>2
      <3>4. f[m] = f[m - 1] \cup Neighbours(f[m - 1])
        <4>1. m \in 1..C
          BY <3>2
        <4> QED
          BY <2>3, <4>1
      <3> QED
        BY <3>2, <3>3, <3>4, RoundsOfTheSearch
    <2> QED
      BY <2>8
  <1> HIDE DEF g
  <1> QED
    BY <1>2, <1>3 DEF Start

(* The spans of a complete run are causally connected.                     *)
LEMMA ConnectedRun ==
    ASSUME fault.kind = "none"
    PROVE  causally_connected(Spans)
  <1> DEFINE C == Cardinality(Spans)
             Eqn(f) == f = [n \in 0..C |->
                   IF n = 0 THEN {s \in Spans : s.trace = Anchor /\ parent_span_id(s) = None}
                   ELSE f[n - 1] \cup Neighbours(f[n - 1])]
  <1>1. (\E f : Eqn(f)) /\ \A f : Eqn(f) => f[C] = Spans
    BY SearchEnds, EnoughSpans
  <1>2. (CHOOSE f : Eqn(f))[C] = Spans
    <2> HIDE DEF Eqn, C
    <2> QED
      BY <1>1, Zenon
  <1> QED
    BY <1>2, Zenon DEF causally_connected, Neighbours

(* The analysis accepts the spans of a complete run.                       *)
LEMMA CompleteRunIsAccepted ==
    ASSUME fault.kind = "none"
    PROVE  analyze_details(Spans)
  BY TopologyOfTheRun, LinksResolve, ConnectedRun, EdgesOfTheRun, EvidenceOfTheRun DEF analyze_details

(* The order in which FetchTrace appends new traces.                       *)
OrderOf(N) == CHOOSE q \in [1..Cardinality(N) -> N] : \A i, j \in DOMAIN q : q[i] = q[j] => i = j

(* It lists each of them.                                                  *)
LEMMA OrderOfNew ==
    ASSUME NEW N, IsFiniteSet(N)
    PROVE  OrderOf(N) \in Seq(N) /\ \A x \in N : \E i \in 1..Len(OrderOf(N)) : OrderOf(N)[i] = x
  <1> DEFINE n == Cardinality(N)
             Lists(q) == \A i, j \in DOMAIN q : q[i] = q[j] => i = j
             chain == CHOOSE q \in [1..n -> N] : Lists(q)
  <1>1. n \in Nat
    BY FS_CardinalityType
  <1>2. \E q \in [1..n -> N] : Lists(q)
    <2>1. PICK q : q \in Bijection(1..n, N)
      BY FS_CardinalityType DEF ExistsBijection
    <2>2. q \in [1..n -> N] /\ \A i, j \in 1..n : q[i] = q[j] => i = j
      BY <2>1 DEF Bijection, Injection, IsInjective
    <2> HIDE DEF n
    <2> QED
      BY <2>2
  <1>3. chain \in [1..n -> N] /\ Lists(chain)
    <2> HIDE DEF n, Lists
    <2> QED
      BY <1>2, Zenon
  <1> HIDE DEF chain, n
  <1>4. chain \in Injection(1..n, N)
    BY <1>3 DEF Injection, IsInjective
  <1>5. IsFiniteSet(1..n) /\ Cardinality(1..n) = n
    <2>1. 1 \in Int /\ n \in Int
      BY <1>1
    <2> QED
      BY <1>1, <2>1, FS_Interval
  <1>6. chain \in Surjection(1..n, N)
    BY <1>4, <1>5, FS_Injection DEF n
  <1>7. chain \in Seq(N) /\ Len(chain) = n
    BY <1>1, <1>3
  <1>8. \A x \in N : \E i \in 1..n : chain[i] = x
    BY <1>6 DEF Surjection
  <1>9. chain \in Seq(N) /\ \A x \in N : \E i \in 1..Len(chain) : chain[i] = x
    BY <1>7, <1>8
  <1> QED
    BY <1>9 DEF chain, n, OrderOf

(* An attempt that walks over a complete run: it is at the anchor, or it   *)
(* has scheduled every trace and each span is fetched or still to come.    *)
Walk ==
    \/ verifier.pending = <<Anchor>> /\ verifier.scheduled = {Anchor}
    \/ /\ verifier.pending \in Seq(Traces) /\ verifier.scheduled = Traces
       /\ \A s \in Spans : s \in verifier.nodes
                           \/ \E i \in 1..Len(verifier.pending) : verifier.pending[i] = s.trace

(* The inductive invariant of an attempt on a complete run.                *)
WholeInv ==
    /\ verifier.phase = "idle" => ~verifier.whole
    /\ verifier.whole => stored = Spans /\ row
    /\ CompleteRunPasses
    /\ verifier.whole /\ fault.kind = "none" /\ verifier.phase = "fetching" => Walk

(* The walk goes on: the trace at the head is found, the limit is not      *)
(* exceeded, and nothing is lost.                                          *)
LEMMA WalkGoesOn ==
    ASSUME RunFits, VerifyInv, WholeInv, FetchTrace, verifier.whole, fault.kind = "none"
    PROVE  Walk' /\ verifier'.error = verifier.error
  <1> DEFINE t == Head(verifier.pending)
             found == {s \in stored : s.trace = t}
             new == (linkedTraces(t)) \ verifier.scheduled
             chain == OrderOf(new)
  <1>1. stored = Spans /\ Walk /\ verifier.pending # << >>
    BY DEF WholeInv, FetchTrace
  <1>2. t \in Traces
    <2>1. Anchor \in Traces
      BY SpanTraces DEF Spans, Traces
    <2> QED
      BY <1>1, <2>1 DEF Walk
  <1>3. found # {}
    BY <1>1, <1>2 DEF Traces
  <1>4. verifier.scheduled \cup new = Traces
    <2>1. verifier.pending = <<Anchor>> => t = Anchor
      OBVIOUS
    <2>2. linkedTraces(t) \subseteq Traces
      BY <1>1, LinksOfTheRun
    <2>3. t = Anchor => linkedTraces(t) \cup {Anchor} = Traces
      BY <1>1, LinksOfTheRun
    <2> HIDE DEF t
    <2>4. CASE verifier.pending = <<Anchor>> /\ verifier.scheduled = {Anchor}
      BY <2>1, <2>3, <2>4
    <2>5. CASE verifier.scheduled = Traces
      BY <2>2, <2>5
    <2> QED
      BY <1>1, <2>4, <2>5 DEF Walk
  <1>5. ~(Cardinality(verifier.scheduled \cup new) > TraceLimit)
    <2> HIDE DEF new
    <2>1. Cardinality(verifier.scheduled \cup new) = Cardinality(Traces)
      BY <1>4, Zenon
    <2>2. /\ Cardinality(Traces) \in Nat /\ Cardinality(Traces) <= Deliveries + 2
          /\ Deliveries + 2 <= TraceLimit
      BY TracesCount DEF RunFits
    <2> QED
      BY <2>1, <2>2
  <1>6. verifier' = [verifier EXCEPT !.pending = Tail(@) \o chain,
                                     !.scheduled = @ \cup new, !.nodes = @ \cup found]
    <2>1. IF found = {} \/ Cardinality(verifier.scheduled \cup new) > TraceLimit
          THEN Retry("content")
          ELSE verifier' = [verifier EXCEPT !.pending = Tail(@) \o chain,
                                            !.scheduled = @ \cup new, !.nodes = @ \cup found]
      BY DEF FetchTrace, OrderOf
    <2> HIDE DEF found, new, chain
    <2> QED
      BY <1>3, <1>5, <2>1
  <1>7. chain \in Seq(new) /\ \A x \in new : \E i \in 1..Len(chain) : chain[i] = x
    <2>1. new \subseteq Traces
      BY <1>4
    <2>2. IsFiniteSet(new)
      BY <2>1, TracesCount, FS_Subset
    <2> HIDE DEF new
    <2> QED
      BY <2>2, OrderOfNew
  <1> HIDE DEF chain
  <1>8. chain \in Seq(Traces)
    <2>1. new \subseteq Traces
      BY <1>4
    <2> HIDE DEF new
    <2> QED
      BY <1>7, <2>1
  <1>9. /\ verifier'.pending = Tail(verifier.pending) \o chain
        /\ verifier'.scheduled = Traces
        /\ verifier'.nodes = verifier.nodes \cup found
        /\ verifier'.error = verifier.error
    <2> HIDE DEF new, found
    <2> QED
      BY <1>4, <1>6 DEF VerifyInv, Idle
  <1>10. Tail(verifier.pending) \in Seq(Traces) /\ Len(Tail(verifier.pending)) \in Nat
          /\ \A i \in 2..Len(verifier.pending) : /\ i - 1 \in 1..Len(Tail(verifier.pending))
                                                 /\ Tail(verifier.pending)[i - 1] = verifier.pending[i]
    <2>1. verifier.pending \in Seq(Traces)
      <3>1. Anchor \in Traces
        BY SpanTraces DEF Spans, Traces
      <3>2. <<Anchor>> \in Seq(Traces)
        BY <3>1
      <3> QED
        BY <1>1, <3>2 DEF Walk
    <2> QED
      BY <1>1, <2>1
  <1>11. ASSUME NEW s \in Spans
         PROVE  s \in verifier'.nodes \/ \E i \in 1..Len(verifier'.pending) : verifier'.pending[i] = s.trace
    <2>1. CASE s \in verifier.nodes \/ s.trace = t
      <3>1. s \in verifier.nodes \/ s \in found
        BY <1>1, <2>1
      <3> HIDE DEF found
      <3> QED
        BY <1>9, <3>1
    <2>2. CASE s.trace \in new
      <3>1. PICK j \in 1..Len(chain) : chain[j] = s.trace
        BY <1>7, <2>2
      <3>2. PICK p \in Seq(Traces) : p = Tail(verifier.pending)
        BY <1>10
      <3>3. /\ Len(p) + j \in 1..Len(p \o chain)
            /\ (p \o chain)[Len(p) + j] = chain[j]
        BY <1>8, <3>1, <3>2
      <3> QED
        BY <1>9, <3>1, <3>2, <3>3
    <2>3. CASE \E i \in 2..Len(verifier.pending) : verifier.pending[i] = s.trace
      <3>1. PICK i \in 2..Len(verifier.pending) : verifier.pending[i] = s.trace
        BY <2>3
      <3>2. PICK p \in Seq(Traces) : p = Tail(verifier.pending)
        BY <1>10
      <3>3. PICK k \in 1..Len(p) : p[k] = s.trace
        BY <1>10, <3>1, <3>2
      <3>4. k \in 1..Len(p \o chain) /\ (p \o chain)[k] = p[k]
        BY <1>8, <3>2, <3>3
      <3> QED
        BY <1>9, <3>2, <3>3, <3>4
    <2>4. \/ s \in verifier.nodes \/ s.trace = t
          \/ s.trace \in new
          \/ \E i \in 2..Len(verifier.pending) : verifier.pending[i] = s.trace
      <3>1. CASE verifier.pending = <<Anchor>> /\ verifier.scheduled = {Anchor}
        <4>1. s.trace \in Traces
          BY DEF Traces
        <4>2. t = Anchor
          BY <3>1
        <4> HIDE DEF t, new
        <4> QED
          BY <1>4, <3>1, <4>1, <4>2
      <3>2. CASE /\ verifier.pending \in Seq(Traces)
                 /\ s \in verifier.nodes
                    \/ \E i \in 1..Len(verifier.pending) : verifier.pending[i] = s.trace
        <4>1. CASE s \in verifier.nodes
          BY <4>1
        <4>2. CASE \E i \in 1..Len(verifier.pending) : verifier.pending[i] = s.trace
          <5>1. PICK i \in 1..Len(verifier.pending) : verifier.pending[i] = s.trace
            BY <4>2
          <5>2. i = 1 \/ i \in 2..Len(verifier.pending)
            BY <3>2
          <5>3. t = verifier.pending[1]
            BY <1>1, <3>2
          <5> QED
            BY <5>1, <5>2, <5>3
        <4> QED
          BY <3>2, <4>1, <4>2
      <3> QED
        BY <1>1, <3>1, <3>2 DEF Walk
    <2> QED
      BY <2>1, <2>2, <2>3, <2>4
  <1>12. verifier'.pending \in Seq(Traces)
    BY <1>8, <1>9, <1>10
  <1>13. Walk'
    <2>1. Spans' = Spans /\ Traces' = Traces
      OBVIOUS
    <2> QED
      BY <1>9, <1>11, <1>12 DEF Walk
  <1> QED
    BY <1>9, <1>13

(* Nothing was started.                                                    *)
LEMMA WholeInit == VerifyInit => WholeInv
  BY DEF VerifyInit, WholeInv, CompleteRunPasses, Idle

(* A step of the verifier that is not part of the walk.                    *)
LEMMA WholeMoves ==
    ASSUME WholeInv, UNCHANGED <<fault, stored, row>>,
           verifier'.phase \notin {"idle", "fetching"},
           verifier'.whole => verifier.whole,
           verifier'.whole /\ fault.kind = "none" => verifier'.error \in {verifier.error, "none", "request"}
    PROVE  WholeInv'
  BY DEF WholeInv, CompleteRunPasses

(* An attempt that ends without the content being wrong, or not whole.     *)
LEMMA WholeRetry ==
    ASSUME WholeInv, UNCHANGED <<fault, stored, row>>, NEW error, Retry(error),
           verifier.whole /\ fault.kind = "none" => error = "request"
    PROVE  WholeInv'
  <1>1. /\ verifier'.phase \in {"failed", "asleep"} /\ verifier'.whole = verifier.whole
        /\ verifier'.error = error
    BY DEF Retry, Idle
  <1> QED
    BY <1>1, WholeMoves

(* Every step keeps the invariant.                                         *)
LEMMA WholeNext ==
    RunFits /\ VerifyInv /\ WholeInv /\ [VerifyNext]_verifyVars => WholeInv'
  <1> SUFFICES ASSUME RunFits, VerifyInv, WholeInv, [VerifyNext]_verifyVars
               PROVE  WholeInv'
    OBVIOUS
  <1>0. DOMAIN verifier = DOMAIN Idle
    BY DEF VerifyInv
  <1>1. CASE BeginVerify
    <2>1. ~verifier.whole /\ verifier' = [verifier EXCEPT !.phase = "due"]
      BY <1>1 DEF BeginVerify, WholeInv
    <2>2. ~verifier'.whole /\ verifier'.phase = "due"
      BY <1>0, <2>1 DEF Idle
    <2> QED
      BY <2>2 DEF WholeInv, CompleteRunPasses
  <1>2. ASSUME NEW s \in Spans, ExportSpan(s) PROVE WholeInv'
    <2>1. ~verifier.whole /\ verifier' = verifier
      BY <1>2 DEF ExportSpan, WholeInv
    <2> QED
      BY <2>1 DEF WholeInv, CompleteRunPasses
  <1>3. CASE IngestRow
    <2>1. ~verifier.whole /\ verifier' = verifier
      BY <1>3 DEF IngestRow, WholeInv
    <2> QED
      BY <2>1 DEF WholeInv, CompleteRunPasses
  <1>4. CASE StartAttempt
    <2>1. UNCHANGED <<fault, stored, row>> /\ verifier.phase = "due"
      BY <1>4 DEF StartAttempt
    <2>2. CASE clock = VerifyTime
      <3>1. verifier'.phase = "failed" /\ verifier'.whole = verifier.whole /\ verifier'.error = verifier.error
        BY <1>0, <1>4, <2>2 DEF StartAttempt, Idle
      <3> QED
        BY <2>1, <3>1, WholeMoves
    <2>3. CASE clock # VerifyTime
      <3>1. verifier' = [phase |-> "fetching", pending |-> <<Anchor>>, scheduled |-> {Anchor},
                         nodes |-> {}, whole |-> stored = Spans /\ row, error |-> "none"]
        BY <1>4, <2>3 DEF StartAttempt
      <3>2. /\ verifier'.phase = "fetching" /\ verifier'.pending = <<Anchor>>
            /\ verifier'.scheduled = {Anchor} /\ verifier'.error = "none"
            /\ verifier'.whole => stored = Spans /\ row
        BY <3>1
      <3>3. Walk'
        BY <3>2 DEF Walk
      <3> QED
        BY <2>1, <3>2, <3>3 DEF WholeInv, CompleteRunPasses
    <2> QED
      BY <2>2, <2>3
  <1>5. CASE FetchTrace
    <2>1. UNCHANGED <<fault, stored, row>> /\ verifier.phase = "fetching"
      BY <1>5 DEF FetchTrace
    <2>2. CASE verifier.whole /\ fault.kind = "none"
      <3>1. Walk' /\ verifier'.error = verifier.error
        BY <1>5, <2>2, WalkGoesOn
      <3>2. verifier'.phase # "idle"
        BY <1>0, <1>5 DEF FetchTrace, Retry, Idle
      <3> QED
        BY <2>1, <2>2, <3>1, <3>2 DEF WholeInv, CompleteRunPasses
    <2>3. CASE ~(verifier.whole /\ fault.kind = "none")
      <3>1. verifier'.phase # "idle" /\ verifier'.whole = verifier.whole
        BY <1>0, <1>5 DEF FetchTrace, Retry, Idle
      <3> QED
        BY <2>1, <2>3, <3>1 DEF WholeInv, CompleteRunPasses
    <2> QED
      BY <2>2, <2>3
  <1>6. CASE Analyze
    <2>1. UNCHANGED <<fault, stored, row>> /\ verifier.phase = "fetching" /\ verifier.pending = << >>
      BY <1>6 DEF Analyze
    <2>2. CASE analyze_details(verifier.nodes)
      <3>1. verifier'.phase = "evidence" /\ verifier'.whole = verifier.whole /\ verifier'.error = verifier.error
        BY <1>0, <1>6, <2>2 DEF Analyze, Idle
      <3> QED
        BY <2>1, <3>1, WholeMoves
    <2>3. CASE ~analyze_details(verifier.nodes)
      <3>1. ~(verifier.whole /\ fault.kind = "none")
        <4> SUFFICES ASSUME verifier.whole, fault.kind = "none" PROVE FALSE
          OBVIOUS
        <4>1. stored = Spans /\ Walk
          BY <2>1 DEF WholeInv
        <4>2. verifier.nodes = Spans
          <5>1. << >> # <<Anchor>> /\ Len(<< >>) = 0
            OBVIOUS
          <5>2. \A s \in Spans : s \in verifier.nodes \/ \E i \in 1..Len(<< >>) : TRUE
            BY <2>1, <4>1, <5>1 DEF Walk
          <5>3. Spans \subseteq verifier.nodes
            BY <5>1, <5>2
          <5> QED
            BY <4>1, <5>3 DEF VerifyInv
        <4> QED
          BY <2>3, <4>2, CompleteRunIsAccepted
      <3> QED
        BY <1>6, <2>1, <2>3, <3>1, WholeRetry DEF Analyze
    <2> QED
      BY <2>2, <2>3
  <1>7. CASE CheckEvidence
    <2>1. UNCHANGED <<fault, stored, row>>
      BY <1>7 DEF CheckEvidence
    <2>2. CASE row /\ fault.kind # "row"
      <3>1. verifier'.phase = "passed" /\ verifier'.whole = verifier.whole /\ verifier'.error = verifier.error
        BY <1>0, <1>7, <2>2 DEF CheckEvidence, Idle
      <3> QED
        BY <2>1, <3>1, WholeMoves
    <2>3. CASE ~(row /\ fault.kind # "row")
      <3>1. ~(verifier.whole /\ fault.kind = "none")
        BY <2>3 DEF WholeInv
      <3> QED
        BY <1>7, <2>1, <2>3, <3>1, WholeRetry DEF CheckEvidence
    <2> QED
      BY <2>2, <2>3
  <1>8. CASE RequestFails
    BY <1>8, WholeRetry DEF RequestFails
  <1>9. CASE VerifyTick
    <2>1. UNCHANGED <<fault, stored, row>>
      BY <1>9 DEF VerifyTick
    <2>2. CASE verifier.phase = "asleep"
      <3>1. verifier'.phase = "due" /\ verifier'.whole = verifier.whole /\ verifier'.error = verifier.error
        BY <1>0, <1>9, <2>2 DEF VerifyTick, Idle
      <3> QED
        BY <2>1, <3>1, WholeMoves
    <2>3. CASE verifier.phase # "asleep"
      <3>1. verifier' = verifier
        BY <1>9, <2>3 DEF VerifyTick
      <3> QED
        BY <2>1, <3>1 DEF WholeInv, CompleteRunPasses, Walk
    <2> QED
      BY <2>2, <2>3
  <1>10. CASE VerifyTimeout
    <2>1. verifier'.phase = "failed" /\ ~verifier'.whole
      BY <1>10 DEF VerifyTimeout, Idle
    <2> QED
      BY <2>1 DEF WholeInv, CompleteRunPasses
  <1>11. CASE UNCHANGED verifyVars
    BY <1>11 DEF verifyVars, WholeInv, CompleteRunPasses, Walk
  <1> QED
    BY <1>1, <1>2, <1>3, <1>4, <1>5, <1>6, <1>7, <1>8, <1>9, <1>10, <1>11 DEF VerifyNext, VerifyStep

(* A run without fault in which no delivery was deferred is never rejected *)
(* for its content by an attempt that began when all of it was stored, for *)
(* any number of services and of deliveries that carry what the producer   *)
(* wrote, whether the consumers continue its trace or start their own: the *)
(* walk over the links (fetch_trace_graph) visits every trace, the         *)
(* breadth-first search reaches every span, and each of the checks of      *)
(* analyze_details accepts the run.  The hypothesis is the limit of        *)
(* fetch_trace_graph, MAX_TRACES: more traces than it has room for do fail *)
(* the verification.  A deferred delivery fails it too (DeferredRunPasses  *)
(* is false).                                                              *)
THEOREM CompleteRunsPass ==
    ASSUME RunFits PROVE VerifySpec => []CompleteRunPasses
  <1>1. WholeInv => CompleteRunPasses
    BY DEF WholeInv
  <1>2. VerifyInv /\ WholeInv /\ [VerifyNext]_verifyVars => WholeInv'
    BY WholeNext
  <1> QED
    BY <1>1, <1>2, VerifyInitInv, VerifyNextInv, WholeInit, PTL DEF VerifySpec
=============================================================================
