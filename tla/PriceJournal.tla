---------------------------- MODULE PriceJournal ----------------------------
(***************************************************************************)
(* Price changes of one tenant.  The catalog's updatePrice writes the new  *)
(* price and a row of the price journal in one transaction and notifies    *)
(* the listeners.  Subscriptions of the catalog and of the storefront      *)
(* replay the journal by sequence, and the pricing service tags its cached *)
(* quotes with the journal's largest sequence.                             *)
(*                                                                         *)
(* sequence is an identity column: a number is taken when the row is       *)
(* inserted and is gone if the transaction rolls back; the row is visible  *)
(* once the transaction commits.  A price is named by the sequence of the  *)
(* change that set it, 0 for the seeded one.                               *)
(***************************************************************************)
EXTENDS Naturals, FiniteSetsExt

CONSTANTS
    Skus,
    Writers,        \* callers of updatePrice
    Subscribers,
    Filter,         \* the SKUs a subscriber asked for; all of them when it named none
    Early,          \* the subscribers of the catalog: they read their baseline before LISTEN
    Quoters,        \* callers of calculate_quote
    Requested,      \* the SKUs they ask for
    MaxSequence,    \* bound: price changes tried
    MaxLosses       \* bound: LISTEN connections lost

ASSUME PriceAssumption ==
    /\ Filter \in [Subscribers -> SUBSET Skus]
    /\ Early \subseteq Subscribers
    /\ Requested \subseteq Skus
    /\ MaxSequence \in Nat
    /\ MaxLosses \in Nat

VARIABLES
    seq,       \* the identity column's counter
    tx,        \* open updatePrice transactions
    journal,   \* committed price_change_events
    price,     \* committed default prices
    sub,       \* the subscription tasks
    seen,      \* sequences sent to each subscriber
    passed,    \* sequences a storefront subscription passed over
    overtaken, \* history: the SKUs with a larger sequence at the commit of each
    cached,    \* the quote in Redis
    quoter,    \* calculate_quote calls
    losses

vars == <<seq, tx, journal, price, sub, seen, passed, overtaken, cached, quoter, losses>>
sent == <<seen, passed>>

Sequences == 0..MaxSequence
Changes == [sequence : Sequences \ {0}, sku : Skus]
Nothing == "nothing"
NoTx == [sku |-> Nothing, sequence |-> 0]
Quotes == [version : Sequences, price : [Requested -> Sequences]]
NoQuote == [version |-> 0, price |-> <<>>]
NoCall == [pc |-> "idle", quote |-> NoQuote]

\* Where a subscription task begins.
Start(s) == IF s \in Early THEN "baseline" ELSE "listen"

TypeOK ==
    /\ seq \in Sequences
    /\ tx \in [Writers -> [sku : Skus, sequence : Sequences] \cup {NoTx}]
    /\ journal \in SUBSET Changes
    /\ price \in [Skus -> Sequences]
    /\ sub \in [Subscribers -> [pc : {"baseline", "listen", "replay", "emit", "wait"},
                                captured : BOOLEAN, listening : BOOLEAN, notified : BOOLEAN,
                                before : SUBSET Sequences, last : Sequences,
                                batch : SUBSET Sequences]]
    /\ seen \in [Subscribers -> SUBSET Sequences]
    /\ passed \in [Subscribers -> SUBSET Sequences]
    /\ overtaken \in [Sequences -> SUBSET Skus]
    /\ cached \in Quotes \cup {NoQuote}
    /\ quoter \in [Quoters -> [pc : {"idle", "check", "compute", "set"},
                               quote : Quotes \cup {NoQuote}]]
    /\ losses \in 0..MaxLosses

Init ==
    /\ seq = 0
    /\ tx = [w \in Writers |-> NoTx]
    /\ journal = {}
    /\ price = [k \in Skus |-> 0]
    /\ sub = [s \in Subscribers |->
                [pc |-> Start(s), captured |-> FALSE, listening |-> FALSE, notified |-> FALSE,
                 before |-> {}, last |-> 0, batch |-> {}]]
    /\ seen = [s \in Subscribers |-> {}]
    /\ passed = [s \in Subscribers |-> {}]
    /\ overtaken = [n \in Sequences |-> {}]
    /\ cached = NoQuote
    /\ quoter = [q \in Quoters |-> NoCall]
    /\ losses = MaxLosses

-----------------------------------------------------------------------------
(* updatePrice. *)

\* Mutant: the variant row is read without FOR UPDATE.
UnlockedAlways(k) == TRUE

\* Transactions on one SKU are serialized by the lock on its variant row.
Unlocked(k) == \A w \in Writers : tx[w].sku # k

Insert(w, k) ==
    /\ tx[w] = NoTx
    /\ Unlocked(k)
    /\ seq < MaxSequence
    /\ seq' = seq + 1
    /\ tx' = [tx EXCEPT ![w] = [sku |-> k, sequence |-> seq + 1]]
    /\ UNCHANGED <<journal, price, sub, sent, overtaken, cached, quoter, losses>>

\* The SKUs of which a change with a larger sequence is committed.
SkusAbove(n) == {e.sku : e \in {f \in journal : f.sequence > n}}

(* The commit makes price and journal row visible and notifies everyone    *)
(* who listens.                                                            *)
Commit(w) ==
    /\ tx[w] # NoTx
    /\ journal' = journal \cup {[sequence |-> tx[w].sequence, sku |-> tx[w].sku]}
    /\ price' = [price EXCEPT ![tx[w].sku] = tx[w].sequence]
    /\ sub' = [s \in Subscribers |-> [sub[s] EXCEPT !.notified = @ \/ sub[s].listening]]
    /\ tx' = [tx EXCEPT ![w] = NoTx]
    /\ overtaken' = [overtaken EXCEPT ![tx[w].sequence] = SkusAbove(tx[w].sequence)]
    /\ UNCHANGED <<seq, sent, cached, quoter, losses>>

Rollback(w) ==
    /\ tx[w] # NoTx
    /\ tx' = [tx EXCEPT ![w] = NoTx]
    /\ UNCHANGED <<seq, journal, price, sub, sent, overtaken, cached, quoter, losses>>

-----------------------------------------------------------------------------
(* The subscription tasks: consume of the catalog's listener and           *)
(* run_price_change_subscription of the storefront.  The task keeps its    *)
(* position, last; before is history, what it is not owed: the changes     *)
(* that were committed when it read its baseline.                          *)

SequencesOf(skus) == {e.sequence : e \in {f \in journal : f.sku \in skus}}

Latest(skus) == Max(SequencesOf(skus) \cup {0})

Baseline(s) ==
    /\ sub[s].pc = "baseline"
    /\ sub' = [sub EXCEPT ![s].captured = TRUE, ![s].before = SequencesOf(Filter[s]),
                 ![s].last = Latest(Filter[s]),
                 ![s].pc = IF sub[s].listening THEN "replay" ELSE "listen"]
    /\ UNCHANGED <<seq, tx, journal, price, sent, overtaken, cached, quoter, losses>>

\* Mutant: a new connection waits for a notification before it replays.
AfterListenWaits(s) == IF sub[s].captured THEN "wait" ELSE "baseline"

AfterListen(s) == IF sub[s].captured THEN "replay" ELSE "baseline"

Listen(s) ==
    /\ sub[s].pc = "listen"
    /\ sub' = [sub EXCEPT ![s].listening = TRUE, ![s].notified = FALSE, ![s].pc = AfterListen(s)]
    /\ UNCHANGED <<seq, tx, journal, price, sent, overtaken, cached, quoter, losses>>

(* eventsAfter, events_after. *)
Replay(s) ==
    /\ sub[s].pc = "replay"
    /\ sub' = [sub EXCEPT ![s].pc = "emit",
                 ![s].batch = {n \in SequencesOf(Filter[s]) : n > sub[s].last}]
    /\ UNCHANGED <<seq, tx, journal, price, sent, overtaken, cached, quoter, losses>>

(* The events of the batch are worked off in order; then the task waits.   *)
(* The storefront looks the product up first and passes the event over if  *)
(* it is no longer that product's (Ok(None) of                             *)
(* price_change_from_notification).                                        *)
Emit(s) ==
    LET n == Min(sub[s].batch)
    IN  /\ sub[s].pc = "emit"
        /\ IF sub[s].batch = {}
           THEN sub' = [sub EXCEPT ![s].pc = "wait"] /\ UNCHANGED sent
           ELSE /\ sub' = [sub EXCEPT ![s].batch = @ \ {n}, ![s].last = n]
                /\ \/ seen' = [seen EXCEPT ![s] = @ \cup {n}] /\ UNCHANGED passed
                   \/ /\ s \notin Early
                      /\ passed' = [passed EXCEPT ![s] = @ \cup {n}]
                      /\ UNCHANGED seen
        /\ UNCHANGED <<seq, tx, journal, price, overtaken, cached, quoter, losses>>

(* A notification that came while the task was replaying is still there.   *)
Wake(s) ==
    /\ sub[s].pc = "wait"
    /\ sub[s].notified
    /\ sub' = [sub EXCEPT ![s].notified = FALSE, ![s].pc = "replay"]
    /\ UNCHANGED <<seq, tx, journal, price, sent, overtaken, cached, quoter, losses>>

(* A query, the projection of an event or the connection fails: the task   *)
(* connects again and keeps its baseline and its position.                 *)
Lose(s) ==
    /\ losses > 0
    /\ losses' = losses - 1
    /\ sub' = [sub EXCEPT ![s].listening = FALSE, ![s].notified = FALSE, ![s].batch = {},
                 ![s].pc = IF sub[s].captured THEN "listen" ELSE Start(s)]
    /\ UNCHANGED <<seq, tx, journal, price, sent, overtaken, cached, quoter>>

SubscriberStep(s) == Baseline(s) \/ Listen(s) \/ Replay(s) \/ Emit(s) \/ Wake(s)

-----------------------------------------------------------------------------
(* calculate_quote of the pricing service. *)

\* The transaction is REPEATABLE READ: version and prices are one snapshot.
Snapshot == [version |-> Latest(Skus), price |-> [k \in Requested |-> price[k]]]

(* The cache has no entry, an expired one, or Redis fails; or there is one. *)
Lookup(q) ==
    /\ quoter[q].pc = "idle"
    /\ \/ quoter' = [quoter EXCEPT ![q].pc = "compute"]
       \/ cached # NoQuote /\ quoter' = [quoter EXCEPT ![q] = [pc |-> "check", quote |-> cached]]
    /\ UNCHANGED <<seq, tx, journal, price, sub, sent, overtaken, cached, losses>>

\* Mutant: any entry that has not expired is served.
CurrentVersionAlways(quote) == TRUE

CurrentVersion(quote) == quote.version = Latest(Skus)

Check(q) ==
    /\ quoter[q].pc = "check"
    /\ quoter' = [quoter EXCEPT ![q] =
                    IF CurrentVersion(quoter[q].quote) THEN NoCall
                    ELSE [pc |-> "compute", quote |-> NoQuote]]
    /\ UNCHANGED <<seq, tx, journal, price, sub, sent, overtaken, cached, losses>>

Compute(q) ==
    /\ quoter[q].pc = "compute"
    /\ quoter' = [quoter EXCEPT ![q] = [pc |-> "set", quote |-> Snapshot]]
    /\ UNCHANGED <<seq, tx, journal, price, sub, sent, overtaken, cached, losses>>

(* A failed write is only logged. *)
Store(q) ==
    /\ quoter[q].pc = "set"
    /\ cached' \in {cached, quoter[q].quote}
    /\ quoter' = [quoter EXCEPT ![q] = NoCall]
    /\ UNCHANGED <<seq, tx, journal, price, sub, sent, overtaken, losses>>

ExpireQuote ==
    /\ cached # NoQuote
    /\ cached' = NoQuote
    /\ UNCHANGED <<seq, tx, journal, price, sub, sent, overtaken, quoter, losses>>

-----------------------------------------------------------------------------
Next ==
    \/ \E w \in Writers : (\E k \in Skus : Insert(w, k)) \/ Commit(w) \/ Rollback(w)
    \/ \E s \in Subscribers : SubscriberStep(s) \/ Lose(s)
    \/ \E q \in Quoters : Lookup(q) \/ Check(q) \/ Compute(q) \/ Store(q)
    \/ ExpireQuote

Spec == Init /\ [][Next]_vars

(* A subscription task runs until its client leaves. *)
Fairness == \A s \in Subscribers : WF_vars(SubscriberStep(s))

FairSpec == Spec /\ Fairness

-----------------------------------------------------------------------------
\* A change of these SKUs with a larger sequence was committed before n.
Overtaken(n, skus) == overtaken[n] \cap skus # {}

\* What a subscriber is owed: the changes committed since its baseline.
Owed(s) == IF sub[s].captured THEN SequencesOf(Filter[s]) \ sub[s].before ELSE {}

\* What its subscription has dealt with.
Handled(s) == seen[s] \cup passed[s]

(* The lock on the variant row: changes of one SKU are committed in the    *)
(* order of their sequences.                                               *)
SkuInOrder == \A e \in journal : e.sku \notin overtaken[e.sequence]

(* The journal closes the windows of lost connections and missed           *)
(* notifications: up to its position a subscription has handled the        *)
(* changes it is owed and nothing else.  It misses a change only if one    *)
(* with a larger sequence, of a SKU it also asked for, was committed       *)
(* first: never one of a single SKU, because those are in order.  (A       *)
(* subscription of the whole tenant does miss such changes.)               *)
NothingSkipped ==
    /\ SkuInOrder
    /\ \A s \in Subscribers :
         /\ Handled(s) \subseteq {n \in Owed(s) : n <= sub[s].last}
         /\ \A n \in Owed(s) \ Handled(s) : n <= sub[s].last => Overtaken(n, Filter[s])

(* A committed change that was not overtaken is handled by every           *)
(* subscription it is owed to, although a notification wakes only those    *)
(* who listen at the commit and connections are lost.                      *)
EveryChangeDelivered ==
    \A s \in Subscribers, n \in Sequences \ {0} :
      n \in Owed(s) /\ ~Overtaken(n, Filter[s]) ~> n \in Handled(s)

(* A cached quote is served only with the prices that are in force when    *)
(* its version is checked, or with an older price of a SKU whose change    *)
(* was committed after a change of another SKU with a larger sequence: the *)
(* version is the largest sequence of the tenant and does not move then.   *)
ServedQuoteIsCurrent ==
    [][\A q \in Quoters :
         quoter[q].pc = "check" /\ quoter'[q].pc = "idle" =>
           \A k \in Requested :
             \/ quoter[q].quote.price[k] = price[k]
             \/ quoter[q].quote.price[k] < price[k] /\ overtaken[price[k]] # {}]_vars

-----------------------------------------------------------------------------
(* What the listener's comment and the version check suggest, and the code *)
(* does not keep when changes of two SKUs are committed out of order.      *)

(* The journal closes every window: a subscription misses nothing.         *)
TenantMissesNothing ==
    \A s \in Subscribers : \A n \in Owed(s) : n <= sub[s].last => n \in Handled(s)

(* A cached quote is served only with the prices in force.                 *)
ServedPriceInForce ==
    [][\A q \in Quoters :
         quoter[q].pc = "check" /\ quoter'[q].pc = "idle" =>
           \A k \in Requested : quoter[q].quote.price[k] = price[k]]_vars
=============================================================================
