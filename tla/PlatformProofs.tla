--------------------------- MODULE PlatformProofs ---------------------------
(***************************************************************************)
(* Proofs about five parts of the platform that share no state, each for   *)
(* every value of its constants: the price change journal with its         *)
(* subscriptions and the quotes cached by its version, the registry of     *)
(* background tasks, the shared connections, the Compose stack and the     *)
(* database migrations.                                                    *)
(***************************************************************************)
EXTENDS PriceJournal, TaskRegistry, SharedConnection, Stack, Migrations,
        WellFoundedInduction, TLAPS

-----------------------------------------------------------------------------
(* The price change journal.                                               *)

USE PriceAssumption DEF sent

(* A set of natural numbers that is not empty has a smallest element.      *)
LEMMA MinOfNaturals ==
  ASSUME NEW S \in SUBSET Nat, S # {}
  PROVE  Min(S) \in S /\ \A y \in S : Min(S) <= y
<1>1. PICK x \in S : \A y \in S : ~(<<y, x>> \in OpToRel(<, Nat))
  BY NatLessThanWellFounded, WFMin
<1>2. \A y \in S : x <= y
  <2> SUFFICES ASSUME NEW y \in S, ~(x <= y) PROVE FALSE
    OBVIOUS
  <2>1. <<y, x>> \in {ss \in Nat \X Nat : ss[1] < ss[2]}
    OBVIOUS
  <2>2. <<y, x>> \in OpToRel(<, Nat)
    BY <2>1, Zenon DEF OpToRel
  <2> QED
    BY <1>1, <2>2
<1> QED
  BY <1>2 DEF Min

(* And a largest one when it is bounded.                                   *)
LEMMA MaxOfNaturals ==
  ASSUME NEW n \in Nat, NEW S \in SUBSET (0 .. n), S # {}
  PROVE  Max(S) \in S /\ \A y \in S : y <= Max(S)
<1> DEFINE T == {n - x : x \in S}
<1>1. T \in SUBSET Nat /\ T # {}
  <2>1. \A x \in S : n - x \in Nat
    OBVIOUS
  <2> QED
    BY <2>1
<1>2. PICK t \in T : \A u \in T : t <= u
  BY <1>1, MinOfNaturals
<1>3. PICK x \in S : t = n - x
  OBVIOUS
<1>4. \A y \in S : x >= y
  <2> SUFFICES ASSUME NEW y \in S PROVE x >= y
    OBVIOUS
  <2>1. n - y \in T
    OBVIOUS
  <2>2. n - x <= n - y
    BY <1>2, <1>3, <2>1
  <2> QED
    BY <2>2
<1>5. Max(S) \in S /\ \A y \in S : Max(S) >= y
  BY <1>4 DEF Max
<1> QED
  BY <1>5

(* A subscription task.                                                    *)
SubRows == [pc : {"baseline", "listen", "replay", "emit", "wait"},
            captured : BOOLEAN, listening : BOOLEAN, notified : BOOLEAN,
            before : SUBSET Sequences, last : Sequences, batch : SUBSET Sequences]
(* An open updatePrice transaction.                                        *)
OpenTx == [sku : Skus, sequence : Sequences]
(* A calculate_quote call.                                                 *)
QuoterRows == [pc : {"idle", "check", "compute", "set"}, quote : Quotes \cup {NoQuote}]

(* The type invariant, with its record sets named.                         *)
LEMMA JournalTypes ==
  TypeOK <=> /\ seq \in Sequences /\ tx \in [Writers -> OpenTx \cup {NoTx}] /\ journal \in SUBSET Changes
             /\ price \in [Skus -> Sequences] /\ sub \in [Subscribers -> SubRows]
             /\ seen \in [Subscribers -> SUBSET Sequences] /\ passed \in [Subscribers -> SUBSET Sequences]
             /\ overtaken \in [Sequences -> SUBSET Skus] /\ cached \in Quotes \cup {NoQuote}
             /\ quoter \in [Quoters -> QuoterRows] /\ losses \in 0 .. MaxLosses
  BY DEF TypeOK, OpenTx, SubRows, QuoterRows

(* What a subscription has handled, got, what is committed of its SKUs,    *)
(* known, which of that was overtaken, late, and the batch it works off:   *)
(* up to its position, and between its position and the end of the batch,  *)
(* it misses only what was overtaken.                                      *)
PositionOK(r, got, known, late) ==
    /\ r.last \in known \cup {0}
    /\ r.before \subseteq known /\ \A n \in r.before : n <= r.last
    /\ got \subseteq known \ r.before /\ \A n \in got : n <= r.last
    /\ \A n \in known \ r.before : n <= r.last => n \in got \/ n \in late
    /\ \A b \in r.batch : b \in known /\ b > r.last
    /\ \A b \in r.batch, n \in known : n > r.last /\ n < b => n \in r.batch \/ n \in late
    /\ ~r.captured => r.last = 0 /\ r.batch = {} /\ r.pc \in {"baseline", "listen"}
    /\ r.pc = "baseline" => ~r.captured

(* The lock on the variant row: an open transaction has its SKU to itself, *)
(* and a sequence above every committed one of that SKU.  The sequence is  *)
(* its own.                                                                *)
SkuIsLocked ==
    /\ \A e \in journal : e.sequence <= seq
    /\ \A w \in Writers :
         tx[w] # NoTx =>
           /\ tx[w].sequence \in 1 .. seq
           /\ \A e \in journal : e.sku = tx[w].sku => e.sequence < tx[w].sequence
           /\ \A e \in journal : e.sequence # tx[w].sequence
           /\ \A v \in Writers \ {w} :
                tx[v] # NoTx => tx[v].sku # tx[w].sku /\ tx[v].sequence # tx[w].sequence

(* The committed changes of some SKUs that one of them had overtaken.      *)
LateOf(K) == {n \in Sequences : Overtaken(n, K)}

(* Every subscriber's position is sound with respect to its SKUs.          *)
Positions == \A s \in Subscribers : PositionOK(sub[s], Handled(s), SequencesOf(Filter[s]), LateOf(Filter[s]))

(* What holds of the journal by itself.                                    *)
JournalInv == TypeOK /\ SkuIsLocked /\ SkuInOrder
(* The inductive invariant behind the subscriptions.                       *)
SubscriptionInv == JournalInv /\ Positions

(* Committed sequences are positive and bounded.                           *)
LEMMA SequencesOfBounded ==
  ASSUME TypeOK, NEW K
  PROVE  SequencesOf(K) \in SUBSET Sequences /\ 0 \notin SequencesOf(K)
<1>1. \A e \in journal : e.sequence \in Sequences \ {0}
  BY DEF TypeOK, Changes
<1> QED
  BY <1>1 DEF SequencesOf

(* The latest sequence of some SKUs is one of them, or 0, and bounds them  *)
(* all.                                                                    *)
LEMMA LatestOf ==
  ASSUME TypeOK, NEW K
  PROVE  /\ Latest(K) \in Sequences
         /\ Latest(K) \in SequencesOf(K) \cup {0}
         /\ \A n \in SequencesOf(K) : n <= Latest(K)
<1>1. SequencesOf(K) \cup {0} \in SUBSET (0 .. MaxSequence)
  BY SequencesOfBounded DEF Sequences
<1> QED
  BY <1>1, MaxOfNaturals DEF Latest, Sequences

(* The same after a step.                                                  *)
LEMMA LatestAfter ==
  ASSUME TypeOK'
  PROVE  /\ Latest(Skus)' \in Sequences
         /\ Latest(Skus)' \in SequencesOf(Skus)' \cup {0}
         /\ \A n \in SequencesOf(Skus)' : n <= Latest(Skus)'
<1>1. \A e \in journal' : e.sequence \in Sequences \ {0}
  BY DEF TypeOK, Changes
<1>2. SequencesOf(Skus)' \cup {0} \in SUBSET (0 .. MaxSequence)
  BY <1>1 DEF SequencesOf, Sequences
<1> QED
  BY <1>2, MaxOfNaturals DEF Latest, Sequences

(* With an empty journal nobody is owed anything.                          *)
LEMMA JournalInitInv == Init => SubscriptionInv
<1> SUFFICES ASSUME Init PROVE SubscriptionInv
  OBVIOUS
<1> USE DEF Sequences
<1>1. TypeOK
  <2>1. \A s \in Subscribers : sub[s] \in SubRows
    BY DEF Init, SubRows, Start
  <2>2. sub \in [Subscribers -> SubRows]
    BY <2>1 DEF Init
  <2>3. NoCall \in QuoterRows
    BY DEF NoCall, QuoterRows
  <2> QED
    BY <2>2, <2>3, JournalTypes DEF Init
<1>2. SkuIsLocked /\ SkuInOrder
  BY DEF Init, SkuIsLocked, SkuInOrder
<1>3. \A s \in Subscribers : SequencesOf(Filter[s]) = {}
  BY DEF Init, SequencesOf
<1>4. Positions
  <2> SUFFICES ASSUME NEW s \in Subscribers PROVE PositionOK(sub[s], Handled(s), {}, LateOf(Filter[s]))
    BY <1>3 DEF Positions
  <2> QED
    BY DEF Init, PositionOK, Start, Handled
<1> QED
  BY <1>1, <1>2, <1>4 DEF SubscriptionInv, JournalInv

(* The journal part is kept by every step that leaves it alone.            *)
LEMMA JournalKept ==
  ASSUME JournalInv, TypeOK', UNCHANGED <<seq, tx, journal, overtaken>>
  PROVE  JournalInv'
  BY DEF JournalInv, SkuIsLocked, SkuInOrder

(* A journal row is inserted under the lock of its SKU and with a fresh    *)
(* sequence.                                                               *)
LEMMA InsertKeeps ==
  ASSUME JournalInv, NEW w \in Writers, NEW k \in Skus, Insert(w, k)
  PROVE  JournalInv'
<1>1. PICK t : t = [sku |-> k, sequence |-> seq + 1]
  OBVIOUS
<1>2. seq \in Nat /\ seq + 1 \in Sequences /\ seq' = seq + 1
  BY DEF JournalInv, TypeOK, Sequences, Insert
<1>3. t \in OpenTx /\ t.sku = k /\ t.sequence = seq + 1
  BY <1>1, <1>2 DEF OpenTx
<1>4. /\ tx' = [tx EXCEPT ![w] = t] /\ Unlocked(k)
      /\ UNCHANGED <<journal, price, sub, sent, overtaken, cached, quoter, losses>>
  BY <1>1 DEF Insert
<1>5. /\ tx' \in [Writers -> OpenTx \cup {NoTx}] /\ tx'[w] = t
      /\ \A v \in Writers \ {w} : tx'[v] = tx[v]
  BY <1>3, <1>4, JournalTypes DEF JournalInv
<1>6. TypeOK'
  BY <1>2, <1>4, <1>5, JournalTypes DEF JournalInv, TypeOK, OpenTx
<1>7. \A e \in journal : e.sequence \in Nat /\ e.sequence <= seq
  BY DEF JournalInv, SkuIsLocked, TypeOK, Changes, Sequences
<1>8. ASSUME NEW u \in Writers, tx'[u] # NoTx
      PROVE  /\ tx'[u].sequence \in 1 .. seq'
             /\ \A e \in journal' : e.sku = tx'[u].sku => e.sequence < tx'[u].sequence
             /\ \A e \in journal' : e.sequence # tx'[u].sequence
             /\ \A v \in Writers \ {u} :
                  tx'[v] # NoTx => tx'[v].sku # tx'[u].sku /\ tx'[v].sequence # tx'[u].sequence
  <2>1. CASE u = w
    <3>1. \A v \in Writers \ {w} : tx[v] # NoTx => tx[v].sequence \in 1 .. seq
      BY DEF JournalInv, SkuIsLocked
    <3> QED
      BY <1>2, <1>3, <1>4, <1>5, <1>7, <2>1, <3>1 DEF Unlocked
  <2>2. CASE u # w
    <3>1. tx'[u] = tx[u] /\ tx[u].sequence \in 1 .. seq /\ tx[u].sku # k
      BY <1>4, <1>5, <1>8, <2>2 DEF JournalInv, SkuIsLocked, Unlocked
    <3>2. /\ \A e \in journal : e.sku = tx[u].sku => e.sequence < tx[u].sequence
          /\ \A e \in journal : e.sequence # tx[u].sequence
          /\ \A v \in Writers \ {u} :
               tx[v] # NoTx => tx[v].sku # tx[u].sku /\ tx[v].sequence # tx[u].sequence
      BY <1>8, <3>1 DEF JournalInv, SkuIsLocked
    <3> QED
      BY <1>2, <1>3, <1>4, <1>5, <3>1, <3>2
  <2> QED
    BY <2>1, <2>2
<1>9. \A e \in journal' : e.sequence <= seq'
  BY <1>2, <1>4, <1>7
<1> QED
  BY <1>4, <1>6, <1>8, <1>9 DEF JournalInv, SkuIsLocked, SkuInOrder

(* Rollback and the end of a commit free the SKU.                          *)
LEMMA CommitOrders ==
  ASSUME JournalInv, NEW w \in Writers, Commit(w)
  PROVE  /\ tx[w] \in OpenTx /\ tx[w].sequence \in 1 .. seq /\ tx[w].sku \in Skus
         /\ \A K : SequencesOf(K)' = IF tx[w].sku \in K THEN SequencesOf(K) \cup {tx[w].sequence}
                                      ELSE SequencesOf(K)
         /\ \A n \in SequencesOf({tx[w].sku}) : n < tx[w].sequence
         /\ \A K : tx[w].sequence \notin SequencesOf(K)
<1>1. tx[w] \in OpenTx /\ tx[w].sequence \in 1 .. seq
  BY JournalTypes DEF JournalInv, SkuIsLocked, Commit
<1>2. PICK e : e = [sequence |-> tx[w].sequence, sku |-> tx[w].sku]
  OBVIOUS
<1>3. journal' = journal \cup {e} /\ e.sequence = tx[w].sequence /\ e.sku = tx[w].sku
  BY <1>2 DEF Commit
<1>4. ASSUME NEW K
      PROVE  SequencesOf(K)' = IF tx[w].sku \in K THEN SequencesOf(K) \cup {tx[w].sequence}
                               ELSE SequencesOf(K)
  BY <1>3 DEF SequencesOf
<1>5. \A n \in SequencesOf({tx[w].sku}) : n < tx[w].sequence
  BY DEF SequencesOf, JournalInv, SkuIsLocked, Commit
<1>6. tx[w].sku \in Skus
  BY <1>1 DEF OpenTx
<1>7. ASSUME NEW K PROVE tx[w].sequence \notin SequencesOf(K)
  BY DEF SequencesOf, JournalInv, SkuIsLocked, Commit
<1> QED
  BY <1>1, <1>4, <1>5, <1>6, <1>7

(* A commit notes of its own sequence alone by which SKUs it was           *)
(* overtaken, and its own is not among them.                               *)
LEMMA CommitOvertaken ==
  ASSUME JournalInv, NEW w \in Writers, Commit(w)
  PROVE  /\ overtaken' \in [Sequences -> SUBSET Skus]
         /\ overtaken'[tx[w].sequence] = SkusAbove(tx[w].sequence)
         /\ \A n \in Sequences \ {tx[w].sequence} : overtaken'[n] = overtaken[n]
         /\ tx[w].sku \notin SkusAbove(tx[w].sequence)
         /\ \A K : \A n \in SequencesOf(K) :
              n > tx[w].sequence => SkusAbove(tx[w].sequence) \cap K # {}
<1>1. /\ tx[w].sequence \in 1 .. seq /\ seq \in Sequences
      /\ overtaken \in [Sequences -> SUBSET Skus] /\ tx[w].sequence \in Sequences
      /\ overtaken' = [overtaken EXCEPT ![tx[w].sequence] = SkusAbove(tx[w].sequence)]
  BY CommitOrders DEF JournalInv, TypeOK, Commit, Sequences
<1>2. SkusAbove(tx[w].sequence) \in SUBSET Skus
  <2>1. \A e \in journal : e.sku \in Skus
    BY DEF JournalInv, TypeOK, Changes
  <2> QED
    BY <2>1 DEF SkusAbove
<1>3. tx[w].sku \notin SkusAbove(tx[w].sequence)
  <2> SUFFICES ASSUME NEW e \in journal, e.sku = tx[w].sku, e.sequence > tx[w].sequence PROVE FALSE
    BY DEF SkusAbove
  <2>1. e.sequence < tx[w].sequence /\ e.sequence \in Nat /\ tx[w].sequence \in Nat
    BY <1>1 DEF JournalInv, SkuIsLocked, Commit, TypeOK, Changes, Sequences
  <2> QED
    BY <2>1
<1>4. ASSUME NEW K, NEW n \in SequencesOf(K), n > tx[w].sequence
      PROVE  SkusAbove(tx[w].sequence) \cap K # {}
  <2>1. PICK e \in journal : e.sku \in K /\ e.sequence = n
    BY DEF SequencesOf
  <2> QED
    BY <1>4, <2>1 DEF SkusAbove
<1>5. overtaken'[tx[w].sequence] = SkusAbove(tx[w].sequence)
  BY <1>1
<1>6. \A n \in Sequences \ {tx[w].sequence} : overtaken'[n] = overtaken[n]
  BY <1>1
<1>7. overtaken' \in [Sequences -> SUBSET Skus]
  BY <1>1, <1>2
<1> QED
  BY <1>3, <1>4, <1>5, <1>6, <1>7

(* The commit makes row and price visible and frees the SKU.               *)
LEMMA CommitKeepsJournal ==
  ASSUME JournalInv, NEW w \in Writers, Commit(w)
  PROVE  JournalInv'
<1>1. tx[w] \in OpenTx /\ tx[w].sequence \in 1 .. seq /\ tx[w].sku \in Skus /\ tx[w] # NoTx
  BY CommitOrders DEF Commit
<1>2. PICK e : e = [sequence |-> tx[w].sequence, sku |-> tx[w].sku]
  OBVIOUS
<1>3. /\ journal' = journal \cup {e} /\ e.sequence = tx[w].sequence /\ e.sku = tx[w].sku
      /\ price' = [price EXCEPT ![tx[w].sku] = tx[w].sequence]
      /\ tx' = [tx EXCEPT ![w] = NoTx] /\ UNCHANGED <<seq, sent, cached, quoter, losses>>
  BY <1>2 DEF Commit
<1>4. e \in Changes /\ seq \in Sequences
  BY <1>1, <1>2 DEF JournalInv, TypeOK, Changes, Sequences
<1>5. /\ tx' \in [Writers -> OpenTx \cup {NoTx}] /\ tx'[w] = NoTx
      /\ \A v \in Writers \ {w} : tx'[v] = tx[v]
  BY <1>3, JournalTypes DEF JournalInv
<1>6. \A s \in Subscribers : sub'[s] \in SubRows
  <2> SUFFICES ASSUME NEW s \in Subscribers PROVE sub'[s] \in SubRows
    OBVIOUS
  <2>1. sub[s] \in SubRows
    BY JournalTypes DEF JournalInv
  <2>2. sub'[s] = [sub[s] EXCEPT !.notified = sub[s].notified \/ sub[s].listening]
    BY DEF Commit
  <2> QED
    BY <2>1, <2>2 DEF SubRows
<1>7. sub' \in [Subscribers -> SubRows]
  BY <1>6 DEF Commit
<1>8. price' \in [Skus -> Sequences]
  BY <1>1, <1>3, <1>4, JournalTypes DEF JournalInv, OpenTx
<1>9. TypeOK'
  BY <1>3, <1>4, <1>5, <1>7, <1>8, CommitOvertaken, JournalTypes DEF JournalInv, TypeOK, OpenTx, SubRows
<1>10. ASSUME NEW u \in Writers, tx'[u] # NoTx
      PROVE  /\ tx'[u].sequence \in 1 .. seq'
             /\ \A f \in journal' : f.sku = tx'[u].sku => f.sequence < tx'[u].sequence
             /\ \A f \in journal' : f.sequence # tx'[u].sequence
             /\ \A v \in Writers \ {u} :
                  tx'[v] # NoTx => tx'[v].sku # tx'[u].sku /\ tx'[v].sequence # tx'[u].sequence
  <2>1. u # w /\ tx'[u] = tx[u] /\ tx[u] # NoTx
    BY <1>5, <1>10
  <2>2. /\ tx[u].sequence \in 1 .. seq
        /\ \A f \in journal : f.sku = tx[u].sku => f.sequence < tx[u].sequence
        /\ \A f \in journal : f.sequence # tx[u].sequence
        /\ \A v \in Writers \ {u} :
             tx[v] # NoTx => tx[v].sku # tx[u].sku /\ tx[v].sequence # tx[u].sequence
    BY <2>1 DEF JournalInv, SkuIsLocked
  <2> QED
    BY <1>1, <1>3, <1>5, <2>1, <2>2
<1>11. \A f \in journal' : f.sequence <= seq'
  BY <1>1, <1>3 DEF JournalInv, SkuIsLocked
<1>12. SkuInOrder'
  <2> SUFFICES ASSUME NEW f \in journal' PROVE f.sku \notin overtaken'[f.sequence]
    BY DEF SkuInOrder
  <2>1. CASE f = e
    BY <1>3, <2>1, CommitOvertaken
  <2>2. CASE f \in journal
    <3>1. f.sequence \in Sequences /\ f.sequence # tx[w].sequence /\ f.sku \notin overtaken[f.sequence]
      BY <1>1, <2>2 DEF JournalInv, TypeOK, Changes, SkuIsLocked, SkuInOrder
    <3> QED
      BY <3>1, CommitOvertaken
  <2> QED
    BY <1>3, <2>1, <2>2
<1> QED
  BY <1>9, <1>10, <1>11, <1>12 DEF JournalInv, SkuIsLocked

(* A rollback frees the SKU; its sequence is never used.                   *)
LEMMA RollbackKeeps ==
  ASSUME JournalInv, NEW w \in Writers, Rollback(w)
  PROVE  JournalInv'
<1>3. /\ tx' = [tx EXCEPT ![w] = NoTx]
      /\ UNCHANGED <<seq, journal, price, sub, sent, overtaken, cached, quoter, losses>>
  BY DEF Rollback
<1>5. /\ tx' \in [Writers -> OpenTx \cup {NoTx}] /\ tx'[w] = NoTx
      /\ \A v \in Writers \ {w} : tx'[v] = tx[v]
  BY <1>3, JournalTypes DEF JournalInv
<1>6. TypeOK'
  BY <1>3, <1>5 DEF JournalInv, TypeOK, OpenTx
<1> QED
  BY <1>3, <1>5, <1>6 DEF JournalInv, SkuIsLocked, SkuInOrder

(* A subscriber puts its own record and what it has handled.               *)
LEMMA SubscriberPuts ==
  ASSUME SubscriptionInv, NEW s \in Subscribers, NEW r \in SubRows,
         NEW a \in SUBSET Sequences, NEW b \in SUBSET Sequences,
         PositionOK(r, a \cup b, SequencesOf(Filter[s]), LateOf(Filter[s])),
         sub' = [sub EXCEPT ![s] = r], seen' = [seen EXCEPT ![s] = a], passed' = [passed EXCEPT ![s] = b],
         UNCHANGED <<seq, tx, journal, price, overtaken, cached, quoter>>, losses' \in 0 .. MaxLosses
  PROVE  SubscriptionInv'
<1>1. /\ sub' \in [Subscribers -> SubRows] /\ seen' \in [Subscribers -> SUBSET Sequences]
      /\ passed' \in [Subscribers -> SUBSET Sequences]
      /\ sub'[s] = r /\ seen'[s] = a /\ passed'[s] = b
      /\ \A t \in Subscribers \ {s} : sub'[t] = sub[t] /\ seen'[t] = seen[t] /\ passed'[t] = passed[t]
  BY JournalTypes DEF SubscriptionInv, JournalInv
<1>2. TypeOK'
  BY <1>1 DEF SubscriptionInv, JournalInv, TypeOK, SubRows
<1>3. \A K : SequencesOf(K)' = SequencesOf(K) /\ LateOf(K)' = LateOf(K)
  BY DEF SequencesOf, LateOf, Overtaken
<1>4. ASSUME NEW t \in Subscribers
      PROVE  PositionOK(sub'[t], Handled(t)', SequencesOf(Filter[t])', LateOf(Filter[t])')
  <2>1. CASE t = s
    BY <1>1, <1>3, <2>1 DEF Handled
  <2>2. CASE t # s
    BY <1>1, <1>3, <2>2 DEF SubscriptionInv, Positions, Handled
  <2> QED
    BY <2>1, <2>2
<1> QED
  BY <1>2, <1>4, JournalKept DEF SubscriptionInv, Positions

(* A record of a subscription task has its types.                          *)
LEMMA SubTypes ==
  ASSUME SubscriptionInv, NEW s \in Subscribers
  PROVE  /\ sub[s] \in SubRows /\ seen[s] \in SUBSET Sequences /\ passed[s] \in SUBSET Sequences
         /\ seen = [seen EXCEPT ![s] = seen[s]] /\ passed = [passed EXCEPT ![s] = passed[s]]
         /\ PositionOK(sub[s], seen[s] \cup passed[s], SequencesOf(Filter[s]), LateOf(Filter[s]))
         /\ SequencesOf(Filter[s]) \in SUBSET Sequences /\ 0 \notin SequencesOf(Filter[s])
         /\ losses \in 0 .. MaxLosses /\ TypeOK
  BY JournalTypes, SequencesOfBounded DEF SubscriptionInv, JournalInv, Positions, Handled

(* Reading the baseline: the subscriber is owed what follows it.           *)
LEMMA BaselineKeeps ==
  ASSUME SubscriptionInv, NEW s \in Subscribers, Baseline(s)
  PROVE  SubscriptionInv'
<1> DEFINE known == SequencesOf(Filter[s])
<1>1. PICK n \in Sequences : n = Latest(Filter[s]) /\ n \in known \cup {0} /\ \A m \in known : m <= n
  BY SubTypes, LatestOf
<1>2. PICK pc \in {"replay", "listen"} : pc = IF sub[s].listening THEN "replay" ELSE "listen"
  OBVIOUS
<1>3. PICK r : r = [[[[sub[s] EXCEPT !.captured = TRUE] EXCEPT !.before = known] EXCEPT !.last = n] EXCEPT !.pc = pc]
  OBVIOUS
<1>4. sub[s] \in SubRows /\ known \in SUBSET Sequences
  BY SubTypes
<1>5. /\ r \in SubRows /\ r.captured = TRUE /\ r.before = known /\ r.last = n /\ r.pc = pc
      /\ r.batch = sub[s].batch
  BY <1>1, <1>3, <1>4 DEF SubRows
<1>6. /\ sub' = [sub EXCEPT ![s] = r] /\ seen' = seen /\ passed' = passed
      /\ UNCHANGED <<seq, tx, journal, price, overtaken, cached, quoter, losses>>
  BY <1>1, <1>2, <1>3 DEF Baseline
<1>7. sub[s].pc = "baseline" /\ PositionOK(sub[s], seen[s] \cup passed[s], known, LateOf(Filter[s])) /\ known \in SUBSET Sequences
  BY SubTypes DEF Baseline
<1>8. sub[s].batch = {} /\ seen[s] \cup passed[s] = {}
  <2>1. sub[s].batch = {} /\ sub[s].last = 0 /\ 0 \notin known
    BY <1>7, SubTypes DEF PositionOK
  <2>2. \A m \in seen[s] \cup passed[s] : m \in known /\ m <= 0
    BY <1>7, <2>1 DEF PositionOK
  <2> QED
    BY <1>4, <2>1, <2>2 DEF Sequences
<1>9. PositionOK(r, seen[s] \cup passed[s], known, LateOf(Filter[s]))
  BY <1>1, <1>2, <1>5, <1>7, <1>8 DEF PositionOK, Sequences
<1> QED
  BY <1>5, <1>6, <1>9, SubTypes, SubscriberPuts

(* LISTEN leaves the position alone.                                       *)
LEMMA ListenKeeps ==
  ASSUME SubscriptionInv, NEW s \in Subscribers, Listen(s)
  PROVE  SubscriptionInv'
<1>2. PICK pc \in {"replay", "baseline"} : pc = AfterListen(s)
  BY DEF AfterListen
<1>3. PICK r : r = [[[sub[s] EXCEPT !.listening = TRUE] EXCEPT !.notified = FALSE] EXCEPT !.pc = pc]
  OBVIOUS
<1>4. sub[s] \in SubRows
  BY SubTypes
<1>5. /\ r \in SubRows /\ r.captured = sub[s].captured /\ r.before = sub[s].before
      /\ r.last = sub[s].last /\ r.pc = pc /\ r.batch = sub[s].batch
  BY <1>3, <1>4 DEF SubRows
<1>6. /\ sub' = [sub EXCEPT ![s] = r] /\ seen' = seen /\ passed' = passed
      /\ UNCHANGED <<seq, tx, journal, price, overtaken, cached, quoter, losses>>
  BY <1>2, <1>3 DEF Listen
<1>7. PositionOK(r, seen[s] \cup passed[s], SequencesOf(Filter[s]), LateOf(Filter[s]))
  BY <1>2, <1>5, SubTypes DEF PositionOK, AfterListen
<1> QED
  BY <1>5, <1>6, <1>7, SubTypes, SubscriberPuts

(* A replay reads every event after the position.                          *)
LEMMA ReplayKeeps ==
  ASSUME SubscriptionInv, NEW s \in Subscribers, Replay(s)
  PROVE  SubscriptionInv'
<1> DEFINE known == SequencesOf(Filter[s])
<1>1. PICK batch : batch = {n \in known : n > sub[s].last}
  OBVIOUS
<1>2. batch \in SUBSET Sequences
  BY <1>1, SubTypes
<1>3. PICK r : r = [[sub[s] EXCEPT !.pc = "emit"] EXCEPT !.batch = batch]
  OBVIOUS
<1>4. sub[s] \in SubRows
  BY SubTypes
<1>5. /\ r \in SubRows /\ r.captured = sub[s].captured /\ r.before = sub[s].before
      /\ r.last = sub[s].last /\ r.pc = "emit" /\ r.batch = batch
  BY <1>2, <1>3, <1>4 DEF SubRows
<1>6. /\ sub' = [sub EXCEPT ![s] = r] /\ seen' = seen /\ passed' = passed
      /\ UNCHANGED <<seq, tx, journal, price, overtaken, cached, quoter, losses>>
  BY <1>1, <1>3 DEF Replay
<1>7. sub[s].pc = "replay" /\ PositionOK(sub[s], seen[s] \cup passed[s], known, LateOf(Filter[s]))
  BY SubTypes DEF Replay
<1>8. PositionOK(r, seen[s] \cup passed[s], known, LateOf(Filter[s]))
  BY <1>1, <1>5, <1>7 DEF PositionOK
<1> QED
  BY <1>5, <1>6, <1>8, SubTypes, SubscriberPuts

(* Sending the smallest event of the batch moves the position to it and    *)
(* skips nothing.                                                          *)
LEMMA EmitKeeps ==
  ASSUME SubscriptionInv, NEW s \in Subscribers, Emit(s)
  PROVE  SubscriptionInv'
<1> DEFINE known == SequencesOf(Filter[s])
           late == LateOf(Filter[s])
<1>0. /\ sub[s] \in SubRows /\ sub[s].pc = "emit" /\ PositionOK(sub[s], seen[s] \cup passed[s], known, late)
      /\ known \in SUBSET Sequences /\ seen[s] \in SUBSET Sequences /\ passed[s] \in SUBSET Sequences
      /\ UNCHANGED <<seq, tx, journal, price, overtaken, cached, quoter, losses>>
  BY SubTypes DEF Emit
<1>1. CASE sub[s].batch = {}
  <2>1. PICK r : r = [sub[s] EXCEPT !.pc = "wait"]
    OBVIOUS
  <2>2. /\ r \in SubRows /\ r.captured = sub[s].captured /\ r.before = sub[s].before
        /\ r.last = sub[s].last /\ r.pc = "wait" /\ r.batch = sub[s].batch
    BY <1>0, <2>1 DEF SubRows
  <2>3. sub' = [sub EXCEPT ![s] = r] /\ seen' = seen /\ passed' = passed
    BY <1>1, <2>1 DEF Emit
  <2>4. PositionOK(r, seen[s] \cup passed[s], known, late)
    BY <1>0, <2>2 DEF PositionOK
  <2> QED
    BY <1>0, <2>2, <2>3, <2>4, SubTypes, SubscriberPuts
<1>2. CASE sub[s].batch # {}
  <2>1. sub[s].batch \in SUBSET Nat /\ sub[s].batch \in SUBSET Sequences
    BY <1>0 DEF SubRows, Sequences
  <2>2. PICK n \in sub[s].batch : n = Min(sub[s].batch) /\ \A b \in sub[s].batch : n <= b
    BY <1>2, <2>1, MinOfNaturals
  <2>3. PICK batch : batch = sub[s].batch \ {n}
    OBVIOUS
  <2>4. PICK r : r = [[sub[s] EXCEPT !.batch = batch] EXCEPT !.last = n]
    OBVIOUS
  <2>5. batch \in SUBSET Sequences /\ n \in Sequences
    BY <2>1, <2>3
  <2>6. /\ r \in SubRows /\ r.captured = sub[s].captured /\ r.before = sub[s].before
        /\ r.last = n /\ r.pc = "emit" /\ r.batch = batch
    BY <1>0, <2>4, <2>5 DEF SubRows
  <2>7. PICK got : got = seen[s] \cup passed[s] \cup {n}
    OBVIOUS
  <2>8. PICK c \in SUBSET Sequences, d \in SUBSET Sequences :
          /\ c \cup d = got /\ seen' = [seen EXCEPT ![s] = c] /\ passed' = [passed EXCEPT ![s] = d]
    <3>1. CASE seen' = [seen EXCEPT ![s] = seen[s] \cup {n}] /\ passed' = passed
      <4>1. seen[s] \cup {n} \in SUBSET Sequences /\ (seen[s] \cup {n}) \cup passed[s] = got
        BY <1>0, <2>5, <2>7
      <4> QED
        BY <1>0, <3>1, <4>1, SubTypes
    <3>2. CASE passed' = [passed EXCEPT ![s] = passed[s] \cup {n}] /\ seen' = seen
      <4>1. passed[s] \cup {n} \in SUBSET Sequences /\ seen[s] \cup (passed[s] \cup {n}) = got
        BY <1>0, <2>5, <2>7
      <4> QED
        BY <1>0, <3>2, <4>1, SubTypes
    <3> QED
      BY <1>2, <2>2, <3>1, <3>2 DEF Emit
  <2>9. sub' = [sub EXCEPT ![s] = r]
    BY <1>2, <2>2, <2>3, <2>4 DEF Emit
  <2>10. /\ sub[s].last \in Nat /\ n \in Nat /\ n \in known /\ n > sub[s].last /\ sub[s].captured
         /\ known \in SUBSET Nat /\ sub[s].before \in SUBSET Nat
    BY <1>0, <2>2, <2>5 DEF PositionOK, SubRows, Sequences
  <2>11. ASSUME NEW m \in known, m > sub[s].last, m <= n, m \notin late PROVE m = n
    <3>1. CASE m < n
      <4>1. m \in sub[s].batch
        BY <1>0, <2>2, <2>10, <2>11, <3>1 DEF PositionOK
      <4> QED
        BY <2>1, <2>2, <2>10, <3>1, <4>1
    <3> QED
      BY <2>10, <2>11, <3>1
  <2>12. /\ got \subseteq known \ sub[s].before /\ \A m \in got : m <= n
         /\ \A m \in known \ sub[s].before : m <= n => m \in got \/ m \in late
    <3>1. n \notin sub[s].before
      BY <1>0, <2>10 DEF PositionOK
    <3>2. ASSUME NEW m \in got PROVE m \in known /\ m \notin sub[s].before /\ m <= n
      BY <1>0, <2>7, <2>10, <3>1, <3>2 DEF PositionOK
    <3>3. ASSUME NEW m \in known, m \notin sub[s].before, m <= n, m \notin late PROVE m \in got
      <4>1. CASE m <= sub[s].last
        BY <1>0, <2>7, <3>3, <4>1 DEF PositionOK
      <4>2. CASE m > sub[s].last
        BY <2>7, <2>11, <3>3, <4>2
      <4> QED
        BY <2>10, <4>1, <4>2
    <3> QED
      BY <3>2, <3>3
  <2>13. \A b \in batch : b \in known /\ b > n
    BY <1>0, <2>1, <2>2, <2>3, <2>10 DEF PositionOK
  <2>14. ASSUME NEW b \in batch, NEW m \in known, m > n, m < b PROVE m \in batch \/ m \in late
    BY <1>0, <2>3, <2>10, <2>14 DEF PositionOK
  <2>15. \A m \in sub[s].before : m <= n
    BY <1>0, <2>10 DEF PositionOK
  <2>16. PositionOK(r, c \cup d, known, late)
    <3>1. sub[s].before \subseteq known
      BY <1>0 DEF PositionOK
    <3> QED
      BY <2>6, <2>8, <2>10, <2>12, <2>13, <2>14, <2>15, <3>1 DEF PositionOK
  <2> QED
    BY <1>0, <2>6, <2>8, <2>9, <2>16, SubTypes, SubscriberPuts
<1> QED
  BY <1>1, <1>2

(* A notification only starts a replay.                                    *)
LEMMA WakeKeeps ==
  ASSUME SubscriptionInv, NEW s \in Subscribers, Wake(s)
  PROVE  SubscriptionInv'
<1>1. sub[s] \in SubRows /\ PositionOK(sub[s], seen[s] \cup passed[s], SequencesOf(Filter[s]), LateOf(Filter[s])) /\ sub[s].pc = "wait"
  BY SubTypes DEF Wake
<1>2. PICK r : r = [[sub[s] EXCEPT !.notified = FALSE] EXCEPT !.pc = "replay"]
  OBVIOUS
<1>3. /\ r \in SubRows /\ r.captured = sub[s].captured /\ r.before = sub[s].before
      /\ r.last = sub[s].last /\ r.pc = "replay" /\ r.batch = sub[s].batch
  BY <1>1, <1>2 DEF SubRows
<1>4. /\ sub' = [sub EXCEPT ![s] = r] /\ seen' = seen /\ passed' = passed
      /\ UNCHANGED <<seq, tx, journal, price, overtaken, cached, quoter, losses>>
  BY <1>2 DEF Wake
<1>5. PositionOK(r, seen[s] \cup passed[s], SequencesOf(Filter[s]), LateOf(Filter[s]))
  BY <1>1, <1>3 DEF PositionOK
<1> QED
  BY <1>3, <1>4, <1>5, SubTypes, SubscriberPuts

(* A lost connection drops the batch and keeps the position.               *)
LEMMA LoseKeeps ==
  ASSUME SubscriptionInv, NEW s \in Subscribers, Lose(s)
  PROVE  SubscriptionInv'
<1>1. sub[s] \in SubRows /\ PositionOK(sub[s], seen[s] \cup passed[s], SequencesOf(Filter[s]), LateOf(Filter[s]))
  BY SubTypes
<1>2. PICK pc \in {"listen", "baseline"} : pc = IF sub[s].captured THEN "listen" ELSE Start(s)
  BY DEF Start
<1>3. PICK r : r = [[[[sub[s] EXCEPT !.listening = FALSE] EXCEPT !.notified = FALSE] EXCEPT !.batch = {}]
                     EXCEPT !.pc = pc]
  OBVIOUS
<1>4. /\ r \in SubRows /\ r.captured = sub[s].captured /\ r.before = sub[s].before
      /\ r.last = sub[s].last /\ r.pc = pc /\ r.batch = {}
  BY <1>1, <1>3 DEF SubRows
<1>5. /\ sub' = [sub EXCEPT ![s] = r] /\ seen' = seen /\ passed' = passed
      /\ UNCHANGED <<seq, tx, journal, price, overtaken, cached, quoter>>
  BY <1>2, <1>3 DEF Lose
<1>a. losses' \in 0 .. MaxLosses
  <2>1. losses \in 0 .. MaxLosses /\ losses > 0 /\ losses' = losses - 1
    BY SubTypes DEF Lose
  <2> QED
    BY <2>1
<1>6. PositionOK(r, seen[s] \cup passed[s], SequencesOf(Filter[s]), LateOf(Filter[s]))
  BY <1>1, <1>2, <1>4 DEF PositionOK
<1> QED
  BY <1>4, <1>5, <1>a, <1>6, SubTypes, SubscriberPuts

(* A committed change of a subscriber's SKUs comes after everything the    *)
(* subscription has handled or is about to, or it was overtaken.           *)
LEMMA ChangeCommitKeeps ==
  ASSUME SubscriptionInv, NEW w \in Writers, Commit(w)
  PROVE  SubscriptionInv'
<1>1. JournalInv /\ JournalInv'
  BY CommitKeepsJournal DEF SubscriptionInv
<1>2. ASSUME NEW s \in Subscribers
      PROVE  PositionOK(sub'[s], Handled(s)', SequencesOf(Filter[s])', LateOf(Filter[s])')
  <2> DEFINE known == SequencesOf(Filter[s])
             late == LateOf(Filter[s])
             got == seen[s] \cup passed[s]
             m == tx[w].sequence
  <2>1. /\ sub[s] \in SubRows /\ PositionOK(sub[s], got, known, late) /\ known \in SUBSET Sequences
        /\ 0 \notin known
    BY SubTypes
  <2>2. PICK r : r = [sub[s] EXCEPT !.notified = sub[s].notified \/ sub[s].listening]
    OBVIOUS
  <2>3. sub'[s] = r /\ Handled(s)' = got
    BY <2>2 DEF Commit, Handled
  <2>4. /\ r.captured = sub[s].captured /\ r.before = sub[s].before /\ r.last = sub[s].last
        /\ r.pc = sub[s].pc /\ r.batch = sub[s].batch
    BY <2>1, <2>2 DEF SubRows
  <2>5. PositionOK(r, got, known, late)
    BY <2>1, <2>4 DEF PositionOK
  <2>6. m \notin known /\ m \in Sequences \ {0}
    <3>1. seq \in Sequences /\ m \in 1 .. seq /\ m \notin known
      BY <1>1, CommitOrders DEF JournalInv, TypeOK
    <3> QED
      BY <3>1 DEF Sequences
  <2>7. \A n \in known : n \in LateOf(Filter[s])' <=> n \in late
    <3> SUFFICES ASSUME NEW n \in known PROVE n \in LateOf(Filter[s])' <=> n \in late
      OBVIOUS
    <3>1. n \in Sequences /\ overtaken'[n] = overtaken[n]
      BY <1>1, <2>1, <2>6, CommitOvertaken
    <3> QED
      BY <3>1 DEF LateOf, Overtaken
  <2> DEFINE late2 == LateOf(Filter[s])'
  <2>8. PositionOK(r, got, known, late2)
    <3> HIDE DEF late2, late, known, got
    <3>1. \A n \in known : n \in late2 <=> n \in late
      BY <2>7 DEF late2, late, known
    <3> QED
      BY <2>5, <3>1 DEF PositionOK
  <2>9. CASE tx[w].sku \notin Filter[s]
    <3>1. SequencesOf(Filter[s])' = known
      BY <1>1, <2>9, CommitOrders
    <3> QED
      BY <2>3, <2>8, <3>1
  <2>10. CASE tx[w].sku \in Filter[s]
    <3>1. SequencesOf(Filter[s])' = known \cup {m}
      BY <1>1, <2>10, CommitOrders
    <3>2. ASSUME NEW n \in known, n > m PROVE m \in late2
      <4>1. SkusAbove(m) \cap Filter[s] # {} /\ overtaken'[m] = SkusAbove(m)
        BY <1>1, <3>2, CommitOvertaken
      <4> QED
        BY <2>6, <4>1 DEF LateOf, Overtaken
    <3>3. PositionOK(r, got, known \cup {m}, late2)
      <4> HIDE DEF late2, late, known, got, m
      <4>1. r.last \in Nat /\ m \in Nat \ {0} /\ known \in SUBSET Nat /\ r.last \in known \cup {0}
            /\ r.before \subseteq known
        <5>1. known \in SUBSET Sequences /\ m \in Sequences \ {0}
          BY <2>1, <2>6
        <5>2. r.last \in known \cup {0} /\ r.before \subseteq known
          BY <2>5 DEF PositionOK
        <5>3. \A n \in Sequences : n \in Nat
          BY DEF Sequences
        <5>4. known \in SUBSET Nat
          BY <5>1, <5>3
        <5>5. m \in Nat \ {0}
          <6>1. m \in Nat /\ m # 0
            BY <5>1, <5>3
          <6> QED
            BY <6>1
        <5>6. r.last \in Nat
          <6>1. CASE r.last = 0
            BY <6>1
          <6>2. CASE r.last \in known
            BY <5>4, <6>2
          <6> QED
            BY <5>2, <6>1, <6>2
        <5> QED
          BY <5>2, <5>4, <5>5, <5>6
      <4>2. m <= r.last => m \in late2
        <5>1. ASSUME m <= r.last PROVE r.last \in known /\ r.last > m
          BY <2>6, <4>1, <5>1
        <5> QED
          BY <3>2, <5>1
      <4>3. ASSUME NEW n \in (known \cup {m}) \ r.before, n <= r.last PROVE n \in got \/ n \in late2
        BY <2>8, <4>2, <4>3 DEF PositionOK
      <4>4. ASSUME NEW b \in r.batch, NEW n \in known \cup {m}, n > r.last, n < b
            PROVE  n \in r.batch \/ n \in late2
        <5>1. b \in known
          BY <2>8 DEF PositionOK
        <5>2. CASE n = m
          BY <3>2, <4>4, <5>1, <5>2, <4>1
        <5>3. CASE n \in known
          BY <2>8, <4>4, <5>3 DEF PositionOK
        <5> QED
          BY <4>4, <5>2, <5>3
      <4>5. /\ r.last \in (known \cup {m}) \cup {0} /\ r.before \subseteq known \cup {m}
            /\ got \subseteq (known \cup {m}) \ r.before
            /\ \A b \in r.batch : b \in known \cup {m} /\ b > r.last
        BY <2>8 DEF PositionOK
      <4> QED
        BY <2>8, <4>3, <4>4, <4>5 DEF PositionOK
    <3> QED
      BY <2>3, <3>1, <3>3
  <2> QED
    BY <2>9, <2>10
<1> QED
  BY <1>1, <1>2 DEF SubscriptionInv, Positions

(* What the transaction of calculate_quote reads is a quote.               *)
LEMMA SnapshotIsQuote ==
  ASSUME TypeOK
  PROVE  Snapshot \in Quotes
<1>1. [k \in Requested |-> price[k]] \in [Requested -> Sequences] /\ Latest(Skus) \in Sequences
  BY LatestOf DEF TypeOK
<1> QED
  BY <1>1 DEF Snapshot, Quotes

(* A step of one calculate_quote call.                                     *)
QuoterStep(q) == Lookup(q) \/ Check(q) \/ Compute(q) \/ Store(q)

(* The quote path only reads the journal and the prices.                   *)
LEMMA QuotersKeepTypes ==
  ASSUME TypeOK, (\E q \in Quoters : QuoterStep(q)) \/ ExpireQuote
  PROVE  /\ TypeOK' /\ UNCHANGED <<seq, tx, journal, price, sub, sent, overtaken, losses>>
<1>1. UNCHANGED <<seq, tx, journal, price, sub, sent, overtaken, losses>>
  BY DEF QuoterStep, Lookup, Check, Compute, Store, ExpireQuote
<1>2. quoter \in [Quoters -> QuoterRows] /\ cached \in Quotes \cup {NoQuote}
  BY JournalTypes
<1>3. quoter' \in [Quoters -> QuoterRows] /\ cached' \in Quotes \cup {NoQuote}
  <2>1. CASE ExpireQuote
    BY <1>2, <2>1 DEF ExpireQuote
  <2>2. ASSUME NEW q \in Quoters, Lookup(q)
        PROVE  quoter' \in [Quoters -> QuoterRows] /\ cached' \in Quotes \cup {NoQuote}
    BY <1>2, <2>2 DEF Lookup, QuoterRows
  <2>3. ASSUME NEW q \in Quoters, Check(q)
        PROVE  quoter' \in [Quoters -> QuoterRows] /\ cached' \in Quotes \cup {NoQuote}
    <3>1. NoCall \in QuoterRows /\ [pc |-> "compute", quote |-> NoQuote] \in QuoterRows
      BY DEF NoCall, QuoterRows
    <3> QED
      BY <1>2, <2>3, <3>1 DEF Check
  <2>4. ASSUME NEW q \in Quoters, Compute(q)
        PROVE  quoter' \in [Quoters -> QuoterRows] /\ cached' \in Quotes \cup {NoQuote}
    <3>1. [pc |-> "set", quote |-> Snapshot] \in QuoterRows
      BY SnapshotIsQuote DEF QuoterRows
    <3> QED
      BY <1>2, <2>4, <3>1 DEF Compute
  <2>5. ASSUME NEW q \in Quoters, Store(q)
        PROVE  quoter' \in [Quoters -> QuoterRows] /\ cached' \in Quotes \cup {NoQuote}
    <3>1. NoCall \in QuoterRows /\ quoter[q].quote \in Quotes \cup {NoQuote}
      BY <1>2 DEF NoCall, QuoterRows
    <3> QED
      BY <1>2, <2>5, <3>1 DEF Store
  <2> QED
    BY <2>1, <2>2, <2>3, <2>4, <2>5 DEF QuoterStep
<1> QED
  BY <1>1, <1>3 DEF TypeOK, QuoterRows

(* Every step keeps the positions of the subscribers.                      *)
LEMMA JournalNextInv == SubscriptionInv /\ [Next]_vars => SubscriptionInv'
<1> SUFFICES ASSUME SubscriptionInv, [Next]_vars PROVE SubscriptionInv'
  OBVIOUS
<1>0. JournalInv /\ TypeOK
  BY DEF SubscriptionInv, JournalInv
<1>1. ASSUME JournalInv', UNCHANGED <<journal, sub, sent, overtaken>> PROVE SubscriptionInv'
  BY <1>1 DEF SubscriptionInv, Positions, SequencesOf, LateOf, Overtaken, Handled
<1>2. ASSUME NEW w \in Writers, NEW k \in Skus, Insert(w, k) PROVE SubscriptionInv'
  <2>1. UNCHANGED <<journal, sub, sent, overtaken>>
    BY <1>2 DEF Insert
  <2> QED
    BY <1>0, <1>1, <1>2, <2>1, InsertKeeps
<1>3. ASSUME NEW w \in Writers, Rollback(w) PROVE SubscriptionInv'
  <2>1. UNCHANGED <<journal, sub, sent, overtaken>>
    BY <1>3 DEF Rollback
  <2> QED
    BY <1>0, <1>1, <1>3, <2>1, RollbackKeeps
<1>4. ASSUME (\E q \in Quoters : QuoterStep(q)) \/ ExpireQuote PROVE SubscriptionInv'
  BY <1>0, <1>1, <1>4, QuotersKeepTypes, JournalKept
<1>5. CASE UNCHANGED vars
  <2>1. TypeOK' /\ UNCHANGED <<seq, tx, journal, sub, sent, overtaken>>
    BY <1>0, <1>5 DEF vars, TypeOK
  <2> QED
    BY <1>0, <1>1, <2>1, JournalKept
<1> QED
  BY <1>2, <1>3, <1>4, <1>5, ChangeCommitKeeps, BaselineKeeps, ListenKeeps, ReplayKeeps, EmitKeeps,
     WakeKeeps, LoseKeeps DEF Next, SubscriberStep, QuoterStep

(* A subscription handles every change it is owed up to its position, in   *)
(* order, for any SKUs, filters, writers, rolled back changes and lost     *)
(* connections, save a change that one with a larger sequence in its own   *)
(* filter overtook; changes of one SKU never overtake each other, so a     *)
(* subscription of one SKU misses none (updatePrice and the replay of the  *)
(* subscriptions).                                                         *)
THEOREM NothingIsSkipped == Spec => []NothingSkipped
<1>1. SubscriptionInv => NothingSkipped
  <2> SUFFICES ASSUME SubscriptionInv, NEW s \in Subscribers
               PROVE  /\ Handled(s) \subseteq {n \in Owed(s) : n <= sub[s].last}
                      /\ \A n \in Owed(s) \ Handled(s) : n <= sub[s].last => Overtaken(n, Filter[s])
    BY DEF NothingSkipped, SubscriptionInv, JournalInv
  <2> DEFINE known == SequencesOf(Filter[s])
             late == LateOf(Filter[s])
  <2>1. PositionOK(sub[s], Handled(s), known, late) /\ known \in SUBSET Sequences /\ 0 \notin known
    BY SubTypes DEF Handled
  <2>2. CASE sub[s].captured
    <3>1. Owed(s) = known \ sub[s].before
      BY <2>2 DEF Owed
    <3>2. Handled(s) \subseteq {n \in Owed(s) : n <= sub[s].last}
      BY <2>1, <3>1 DEF PositionOK
    <3>3. ASSUME NEW n \in Owed(s) \ Handled(s), n <= sub[s].last PROVE Overtaken(n, Filter[s])
      <4>1. n \in late
        BY <2>1, <3>1, <3>3 DEF PositionOK
      <4> QED
        BY <4>1 DEF LateOf
    <3> QED
      BY <3>2, <3>3
  <2>3. CASE ~sub[s].captured
    <3>1. sub[s].last = 0 /\ Owed(s) = {}
      BY <2>1, <2>3 DEF Owed, PositionOK
    <3>2. Handled(s) = {}
      <4>1. \A n \in Handled(s) : n \in known /\ n <= 0
        BY <2>1, <3>1 DEF PositionOK
      <4> QED
        BY <2>1, <4>1 DEF Sequences
    <3> QED
      BY <3>1, <3>2
  <2> QED
    BY <2>2, <2>3
<1> QED
  BY <1>1, JournalInitInv, JournalNextInv, PTL DEF Spec

-----------------------------------------------------------------------------
(* The version check of a cached quote.                                    *)

(* A quote has the prices in force, or its version is behind, or the price *)
(* that replaced one of its own was overtaken and left the version alone.  *)
Dated(quote) ==
    /\ quote.version <= Latest(Skus)
    /\ \A k \in Requested :
         \/ quote.price[k] = price[k]
         \/ quote.price[k] < price[k] /\ (quote.version < Latest(Skus) \/ overtaken[price[k]] # {})

(* A price in force is at most the latest committed sequence of its SKU.   *)
PricesAreCommitted == \A k \in Skus : price[k] \in SequencesOf({k}) \cup {0}

(* The quote in Redis, and every quote that a call holds, is dated.        *)
QuotesDated ==
    /\ cached # NoQuote => Dated(cached)
    /\ \A q \in Quoters : quoter[q].pc \in {"check", "set"} =>
         quoter[q].quote \in Quotes /\ Dated(quoter[q].quote)

(* The inductive invariant behind the cached quotes.                       *)
QuoteInv == JournalInv /\ PricesAreCommitted /\ QuotesDated

(* At first there are no quotes, and no price was ever changed.            *)
LEMMA QuoteInitInv == Init => QuoteInv
<1> SUFFICES ASSUME Init PROVE QuoteInv
  OBVIOUS
<1>1. JournalInv
  BY JournalInitInv DEF SubscriptionInv
<1> QED
  BY <1>1 DEF QuoteInv, PricesAreCommitted, QuotesDated, Init, NoCall

(* A commit leaves every quote dated: either the version moves past it, or *)
(* the change was overtaken.                                               *)
LEMMA CommitKeepsQuotes ==
  ASSUME QuoteInv, NEW w \in Writers, Commit(w)
  PROVE  QuoteInv'
<1> DEFINE l == tx[w].sku
           n == tx[w].sequence
<1>1. JournalInv /\ JournalInv' /\ TypeOK /\ TypeOK'
  BY CommitKeepsJournal DEF QuoteInv, JournalInv
<1>2. /\ l \in Skus /\ n \in 1 .. seq /\ n \in Sequences /\ n \notin SequencesOf(Skus)
      /\ SequencesOf(Skus)' = SequencesOf(Skus) \cup {n}
      /\ \A m \in SequencesOf({l}) : m < n
      /\ \A k \in Skus : SequencesOf({k})' = IF k = l THEN SequencesOf({k}) \cup {n} ELSE SequencesOf({k})
  <2>1. seq \in Sequences /\ n \in 1 .. seq /\ l \in Skus
    BY <1>1, CommitOrders DEF TypeOK
  <2>2. n \in Sequences
    BY <2>1 DEF Sequences
  <2> QED
    <3>1. \A k \in Skus : SequencesOf({k})' = IF k = l THEN SequencesOf({k}) \cup {n} ELSE SequencesOf({k})
      BY <1>1, CommitOrders
    <3>2. SequencesOf(Skus)' = SequencesOf(Skus) \cup {n}
      BY <1>1, <2>1, CommitOrders
    <3>3. n \notin SequencesOf(Skus) /\ \A m \in SequencesOf({l}) : m < n
      BY <1>1, CommitOrders
    <3> QED
      BY <2>1, <2>2, <3>1, <3>2, <3>3
<1>3. price' = [price EXCEPT ![l] = n] /\ price \in [Skus -> Sequences] /\ UNCHANGED <<cached, quoter>>
  BY <1>1 DEF Commit, TypeOK
<1>4. PricesAreCommitted'
  <2> SUFFICES ASSUME NEW k \in Skus PROVE price'[k] \in SequencesOf({k})' \cup {0}
    BY DEF PricesAreCommitted
  <2>1. CASE k = l
    BY <1>2, <1>3, <2>1
  <2>2. CASE k # l
    BY <1>2, <1>3, <2>2 DEF QuoteInv, PricesAreCommitted
  <2> QED
    BY <2>1, <2>2
<1>5. /\ Latest(Skus) \in Nat /\ Latest(Skus)' \in Nat /\ Latest(Skus) <= Latest(Skus)'
      /\ n <= Latest(Skus)' /\ n \in Nat /\ n # 0
      /\ Latest(Skus)' \in SequencesOf(Skus) \cup {n} \cup {0}
      /\ Latest(Skus) \in SequencesOf(Skus) \cup {0}
      /\ \A m \in SequencesOf(Skus) : m <= Latest(Skus)
  <2>1. /\ Latest(Skus) \in Sequences /\ Latest(Skus) \in SequencesOf(Skus) \cup {0}
        /\ \A m \in SequencesOf(Skus) : m <= Latest(Skus)
    BY <1>1, LatestOf
  <2>2. /\ Latest(Skus)' \in Sequences /\ Latest(Skus)' \in SequencesOf(Skus)' \cup {0}
        /\ \A m \in SequencesOf(Skus)' : m <= Latest(Skus)'
    BY <1>1, LatestAfter
  <2>3. n \in Nat /\ n # 0
    BY <1>2 DEF Sequences
  <2>4. Latest(Skus) <= Latest(Skus)'
    BY <1>2, <2>1, <2>2 DEF Sequences
  <2> QED
    BY <1>2, <2>1, <2>2, <2>3, <2>4 DEF Sequences
<1>6. ASSUME NEW quote \in Quotes, Dated(quote) PROVE Dated(quote)'
  <2>1. quote.version \in Nat /\ \A k \in Requested : quote.price[k] \in Nat /\ price[k] \in Nat
    BY <1>3 DEF Quotes, Sequences
  <2>2. quote.version <= Latest(Skus)'
    BY <1>5, <1>6, <2>1 DEF Dated
  <2>3. ASSUME NEW k \in Requested
        PROVE  \/ quote.price[k] = price'[k]
               \/ quote.price[k] < price'[k] /\ (quote.version < Latest(Skus)' \/ overtaken'[price'[k]] # {})
    <3>1. CASE k = l
      <4>1. price'[k] = n /\ price[k] < n
        BY <1>2, <1>3, <1>5, <3>1 DEF QuoteInv, PricesAreCommitted
      <4>2. quote.price[k] <= price[k]
        BY <1>6, <2>1 DEF Dated
      <4>3. quote.price[k] < n
        BY <1>5, <2>1, <4>1, <4>2
      <4>4. CASE n > Latest(Skus)
        BY <1>5, <1>6, <2>1, <4>1, <4>3, <4>4 DEF Dated
      <4>5. CASE ~(n > Latest(Skus))
        <5>1. Latest(Skus) \in SequencesOf(Skus) /\ Latest(Skus) > n
          BY <1>2, <1>5, <4>5
        <5>2. overtaken'[n] # {}
          BY <1>1, <5>1, CommitOvertaken
        <5> QED
          BY <4>1, <4>3, <5>2
      <4> QED
        BY <4>4, <4>5
    <3>2. CASE k # l
      <4>1. price'[k] = price[k] /\ price[k] \in Sequences /\ price[k] # n
        <5>1. price[k] \in SequencesOf({k}) \cup {0}
          BY DEF QuoteInv, PricesAreCommitted
        <5>2. n \notin SequencesOf({k})
          BY <1>1, CommitOrders
        <5> QED
          BY <1>3, <1>5, <3>2, <5>1, <5>2
      <4>2. overtaken'[price[k]] = overtaken[price[k]]
        BY <1>1, <4>1, CommitOvertaken
      <4> QED
        BY <1>5, <1>6, <2>1, <4>1, <4>2 DEF Dated
    <3> QED
      BY <3>1, <3>2
  <2> QED
    BY <2>2, <2>3 DEF Dated
<1>7. QuotesDated'
  <2>1. quoter \in [Quoters -> QuoterRows] /\ cached \in Quotes \cup {NoQuote}
    BY <1>1, JournalTypes
  <2>2. cached' # NoQuote => Dated(cached)'
    BY <1>3, <1>6, <2>1 DEF QuoteInv, QuotesDated
  <2>3. ASSUME NEW q \in Quoters, quoter[q].pc \in {"check", "set"}
        PROVE  quoter[q].quote \in Quotes /\ Dated(quoter[q].quote)'
    <3>1. quoter[q].quote \in Quotes /\ Dated(quoter[q].quote)
      BY <2>3 DEF QuoteInv, QuotesDated
    <3>2. PICK quote \in Quotes : quote = quoter[q].quote
      BY <3>1
    <3>3. Dated(quote)'
      BY <1>6, <3>1, <3>2
    <3> QED
      BY <1>3, <3>1, <3>2, <3>3 DEF Dated
  <2> QED
    BY <1>3, <2>2, <2>3 DEF QuotesDated, Dated
<1> QED
  BY <1>1, <1>4, <1>7 DEF QuoteInv

(* Version and prices are read in one snapshot.                            *)
LEMMA SnapshotDated ==
  ASSUME TypeOK
  PROVE  Dated(Snapshot) /\ Snapshot \in Quotes
<1>1. Latest(Skus) \in Nat
  BY LatestOf DEF Sequences
<1> QED
  BY <1>1, SnapshotIsQuote DEF Dated, Snapshot

(* The quote path moves whole quotes: from the snapshot to Redis and from  *)
(* Redis to the check.                                                     *)
LEMMA QuotesStayDated ==
  ASSUME QuoteInv, (\E q \in Quoters : QuoterStep(q)) \/ ExpireQuote
  PROVE  QuotesDated'
<1>0. UNCHANGED <<journal, price, overtaken>> /\ TypeOK
  BY QuotersKeepTypes DEF QuoteInv, JournalInv
<1>1. quoter \in [Quoters -> QuoterRows]
  BY <1>0, JournalTypes
<1>a. Latest(Skus)' = Latest(Skus)
  BY <1>0 DEF Latest, SequencesOf
<1>b. ASSUME NEW quote PROVE Dated(quote) => Dated(quote)'
  BY <1>0, <1>a DEF Dated
<1>2. CASE ExpireQuote
  <2>1. cached' = NoQuote /\ quoter' = quoter
    BY <1>2 DEF ExpireQuote
  <2> QED
    BY <1>0, <1>a, <2>1 DEF QuoteInv, QuotesDated, Dated
<1>3. ASSUME NEW q \in Quoters, NEW r, quoter' = [quoter EXCEPT ![q] = r],
             r.pc \in {"check", "set"} => r.quote \in Quotes /\ Dated(r.quote),
             cached' # NoQuote => cached' = cached \/ (cached' = quoter[q].quote /\ quoter[q].pc = "set")
      PROVE  QuotesDated'
  <2>1. quoter'[q] = r /\ \A p \in Quoters \ {q} : quoter'[p] = quoter[p]
    BY <1>1, <1>3
  <2>2. \A p \in Quoters : quoter'[p].pc \in {"check", "set"} =>
                            quoter'[p].quote \in Quotes /\ Dated(quoter'[p].quote)
    BY <1>3, <2>1 DEF QuoteInv, QuotesDated
  <2>3. cached' # NoQuote => Dated(cached')
    BY <1>3 DEF QuoteInv, QuotesDated
  <2> QED
    BY <1>0, <1>a, <2>2, <2>3 DEF QuotesDated, Dated
<1>4. ASSUME NEW q \in Quoters, Lookup(q) PROVE QuotesDated'
  <2>1. CASE quoter' = [quoter EXCEPT ![q].pc = "compute"]
    <3>1. PICK r : r = [quoter[q] EXCEPT !.pc = "compute"]
      OBVIOUS
    <3>2. quoter' = [quoter EXCEPT ![q] = r] /\ r.pc = "compute"
      BY <1>1, <2>1, <3>1 DEF QuoterRows
    <3> QED
      BY <1>3, <1>4, <3>2 DEF Lookup
  <2>2. CASE cached # NoQuote /\ quoter' = [quoter EXCEPT ![q] = [pc |-> "check", quote |-> cached]]
    <3>1. PICK r : r = [pc |-> "check", quote |-> cached]
      OBVIOUS
    <3>2. quoter' = [quoter EXCEPT ![q] = r] /\ r.quote \in Quotes /\ Dated(r.quote)
      BY <1>0, <2>2, <3>1, JournalTypes DEF QuoteInv, QuotesDated
    <3> QED
      BY <1>3, <1>4, <3>2 DEF Lookup
  <2> QED
    BY <1>4, <2>1, <2>2 DEF Lookup
<1>5. ASSUME NEW q \in Quoters, Check(q) PROVE QuotesDated'
  <2>1. PICK r \in {NoCall, [pc |-> "compute", quote |-> NoQuote]} : quoter' = [quoter EXCEPT ![q] = r]
    BY <1>5 DEF Check
  <2>2. r.pc \notin {"check", "set"}
    BY DEF NoCall
  <2> QED
    BY <1>3, <1>5, <2>1, <2>2 DEF Check
<1>6. ASSUME NEW q \in Quoters, Compute(q) PROVE QuotesDated'
  <2>1. PICK r : r = [pc |-> "set", quote |-> Snapshot]
    OBVIOUS
  <2>2. Dated(r.quote) /\ r.quote \in Quotes
    BY <1>0, <2>1, SnapshotDated
  <2>3. quoter' = [quoter EXCEPT ![q] = r]
    BY <1>6, <2>1 DEF Compute
  <2> QED
    BY <1>3, <1>6, <2>2, <2>3 DEF Compute
<1>7. ASSUME NEW q \in Quoters, Store(q) PROVE QuotesDated'
  <2>1. NoCall.pc = "idle"
    BY DEF NoCall
  <2>2. cached' # NoQuote => cached' = cached \/ (cached' = quoter[q].quote /\ quoter[q].pc = "set")
    BY <1>7 DEF Store
  <2> QED
    BY <1>3, <1>7, <2>1, <2>2 DEF Store
<1> QED
  BY <1>2, <1>4, <1>5, <1>6, <1>7 DEF QuoterStep

(* Every step keeps the quotes dated.                                      *)
LEMMA QuoteNextInv ==
  ASSUME SubscriptionInv, SubscriptionInv', QuoteInv, [Next]_vars
  PROVE  QuoteInv'
<1>0. JournalInv' /\ TypeOK
  BY DEF SubscriptionInv, JournalInv
<1>1. ASSUME UNCHANGED <<journal, price, overtaken, cached, quoter>> PROVE QuoteInv'
  <2>1. PricesAreCommitted' /\ QuotesDated'
    BY <1>1 DEF QuoteInv, PricesAreCommitted, QuotesDated, Dated, Latest, SequencesOf
  <2> QED
    BY <1>0, <2>1 DEF QuoteInv
<1>2. ASSUME (\E q \in Quoters : QuoterStep(q)) \/ ExpireQuote PROVE QuoteInv'
  <2>1. UNCHANGED <<journal, price>> /\ QuotesDated'
    BY <1>0, <1>2, QuotersKeepTypes, QuotesStayDated
  <2>2. PricesAreCommitted'
    BY <2>1 DEF QuoteInv, PricesAreCommitted, SequencesOf
  <2> QED
    BY <1>0, <2>1, <2>2 DEF QuoteInv
<1>3. ASSUME NEW w \in Writers, NEW k \in Skus, Insert(w, k) PROVE QuoteInv'
  BY <1>1, <1>3 DEF Insert
<1>4. ASSUME NEW w \in Writers, Rollback(w) PROVE QuoteInv'
  BY <1>1, <1>4 DEF Rollback
<1>5. ASSUME NEW s \in Subscribers, SubscriberStep(s) \/ Lose(s) PROVE QuoteInv'
  BY <1>1, <1>5 DEF SubscriberStep, Baseline, Listen, Replay, Emit, Wake, Lose
<1>6. CASE UNCHANGED vars
  BY <1>1, <1>6 DEF vars
<1> QED
  BY <1>2, <1>3, <1>4, <1>5, <1>6, CommitKeepsQuotes DEF Next, QuoterStep

(* A cached quote is served only if the version is still the largest       *)
(* sequence of the tenant, and then every price in it is the one in force, *)
(* or an older one that was replaced by a change overtaken by another:     *)
(* for any SKUs, writers and quoters (calculate_quote of pricing and       *)
(* updatePrice of the catalog).                                            *)
THEOREM CachedQuotesAreCurrent == Spec => ServedQuoteIsCurrent
<1>1. SubscriptionInv /\ QuoteInv /\ [Next]_vars =>
        [\A q \in Quoters :
           quoter[q].pc = "check" /\ quoter'[q].pc = "idle" =>
             \A k \in Requested :
               \/ quoter[q].quote.price[k] = price[k]
               \/ quoter[q].quote.price[k] < price[k] /\ overtaken[price[k]] # {}]_vars
  <2> SUFFICES ASSUME SubscriptionInv, QuoteInv, [Next]_vars, NEW q \in Quoters,
                      quoter[q].pc = "check", quoter'[q].pc = "idle", NEW k \in Requested
               PROVE  \/ quoter[q].quote.price[k] = price[k]
                      \/ quoter[q].quote.price[k] < price[k] /\ overtaken[price[k]] # {}
    OBVIOUS
  <2>1. TypeOK /\ quoter \in [Quoters -> QuoterRows]
    BY JournalTypes DEF SubscriptionInv, JournalInv
  <2>2. Dated(quoter[q].quote) /\ quoter[q].quote \in Quotes
    BY DEF QuoteInv, QuotesDated
  <2>3. Check(q)
    <3>1. quoter' # quoter
      OBVIOUS
    <3>2. PICK p \in Quoters : QuoterStep(p)
      BY <3>1 DEF Next, QuoterStep, Insert, Commit, Rollback, SubscriberStep, Baseline, Listen, Replay,
                  Emit, Wake, Lose, ExpireQuote, vars
    <3>3. p = q
      BY <2>1, <3>2 DEF QuoterStep, Lookup, Check, Compute, Store
    <3> QED
      BY <3>2, <3>3 DEF QuoterStep, Lookup, Compute, Store
  <2>4. CurrentVersion(quoter[q].quote)
    BY <2>1, <2>3 DEF Check
  <2>5. quoter[q].quote.version \in Nat /\ quoter[q].quote.version = Latest(Skus)
    BY <2>2, <2>4 DEF CurrentVersion, Quotes, Sequences
  <2> QED
    BY <2>2, <2>5 DEF Dated
<1>2. SubscriptionInv /\ QuoteInv /\ [Next]_vars => SubscriptionInv' /\ QuoteInv'
  BY JournalNextInv, QuoteNextInv
<1> QED
  BY <1>1, <1>2, JournalInitInv, QuoteInitInv, PTL DEF Spec, ServedQuoteIsCurrent

HIDE PriceAssumption DEF sent

-----------------------------------------------------------------------------
(* The task registry.                                                      *)

USE RegistryAssumption

(* The types of the registry's state.                                      *)
RegistryTypeOK ==
    /\ phase \in {"serving", "signalled", "closing", "cancelling", "draining", "exited"}
    /\ cancelled \in BOOLEAN
    /\ registered \subseteq RegistryTasks
    /\ taken \subseteq RegistryTasks
    /\ holder \in Streams \cup {Nobody}
    /\ runs \in [RegistryTasks ->
                   {"none", "running", "finished", "failed", "hung", "refused", "aborted"}]

(* A spawn that has seen the flag down holds the lock until its task is in *)
(* the registry, and nobody starts a task that was started before.         *)
SpawnIsFresh == holder # Nobody => runs[holder] = "none"

(* A task that has not ended is in the registry or in the list shutdown    *)
(* works off.                                                              *)
LiveIsKnown ==
    \A t \in RegistryTasks : runs[t] \in {"running", "hung"} => t \in registered \cup taken

(* Once shutdown has taken the tasks, the flag is up, the registry stays   *)
(* empty and no spawn is under way; when it returns, it waits for nobody.  *)
ShutdownProgress ==
    /\ phase \in {"cancelling", "draining", "exited"} => cancelled
    /\ phase \in {"draining", "exited"} => holder = Nobody /\ registered = {}
    /\ phase # "draining" => taken = {}

(* The inductive invariant of the task registry.                           *)
RegistryInv == RegistryTypeOK /\ SpawnIsFresh /\ LiveIsKnown /\ ShutdownProgress

(* A service that has registered nothing satisfies the invariant.          *)
LEMMA RegistryInitInv == RegistryInit => RegistryInv
  BY DEF RegistryInit, RegistryInv, RegistryTypeOK, SpawnIsFresh, LiveIsKnown, ShutdownProgress,
         RegistryTasks, Nobody

(* Every spawn, end, signal and drain keeps the invariant: a task that     *)
(* lives is registered or taken by the shutdown, and nothing is spawned    *)
(* after the registry is closed.                                           *)
LEMMA RegistryNextInv == RegistryInv /\ [RegistryNext]_registryVars => RegistryInv'
<1> SUFFICES ASSUME RegistryInv, [RegistryNext]_registryVars
             PROVE  RegistryInv'
  OBVIOUS
<1> USE DEF RegistryInv, RegistryTypeOK, SpawnIsFresh, LiveIsKnown, ShutdownProgress,
            RegistryTasks, Nobody, Done
<1>1. ASSUME NEW t \in Streams, SpawnLook(t) PROVE RegistryInv'
  BY <1>1 DEF SpawnLook
<1>2. ASSUME NEW t \in Streams, SpawnStart(t) PROVE RegistryInv'
  BY <1>2 DEF SpawnStart
<1>3. ASSUME NEW t \in RegistryTasks, NEW outcome \in {"finished", "failed", "hung"},
             TaskEnds(t, outcome)
      PROVE  RegistryInv'
  BY <1>3 DEF TaskEnds
<1>4. CASE Signal
  BY <1>4 DEF Signal
<1>5. ASSUME NEW t \in Workers, ConsumerStops(t) PROVE RegistryInv'
  BY <1>5 DEF ConsumerStops
<1>6. CASE ServerEnds
  BY <1>6 DEF ServerEnds
<1>7. CASE ServerFails
  BY <1>7 DEF ServerFails
<1>8. CASE ShutdownCancel
  BY <1>8 DEF ShutdownCancel
<1>9. CASE ShutdownTake
  BY <1>9 DEF ShutdownTake
<1>10. CASE DrainDeadline
  BY <1>10 DEF DrainDeadline
<1>11. ASSUME NEW t \in RegistryTasks, Join(t) PROVE RegistryInv'
  BY <1>11 DEF Join
<1>12. ASSUME NEW t \in RegistryTasks, Abort(t) PROVE RegistryInv'
  BY <1>12 DEF Abort
<1>13. CASE Exit
  BY <1>13 DEF Exit
<1>14. ASSUME NEW t \in Held, ClientStalls(t) PROVE RegistryInv'
  BY <1>14 DEF ClientStalls
<1>15. ASSUME NEW t \in Held, ClientReads(t) PROVE RegistryInv'
  BY <1>15 DEF ClientReads
<1>16. CASE UNCHANGED registryVars
  BY <1>16 DEF registryVars
<1> QED
  BY <1>1, <1>2, <1>3, <1>4, <1>5, <1>6, <1>7, <1>8, <1>9, <1>10, <1>11, <1>12, <1>13, <1>14, <1>15, <1>16
  DEF RegistryNext, TaskReturns, TaskPanics, TaskHangs, TaskSeesShutdown

(* No background task outlives the shutdown of its service, for any        *)
(* streams and workers, whichever of them is spawned while the signal      *)
(* arrives (spawn and shutdown of the task registry).                      *)
THEOREM ShutdownLeavesNothing == RegistrySpec => []NoTaskOutlivesShutdown
<1>1. RegistryInv => NoTaskOutlivesShutdown
  BY DEF RegistryInv, RegistryTypeOK, LiveIsKnown, ShutdownProgress, NoTaskOutlivesShutdown
<1> QED
  BY <1>1, RegistryInitInv, RegistryNextInv, PTL DEF RegistrySpec

HIDE RegistryAssumption

-----------------------------------------------------------------------------
(* Shared connections.                                                     *)

USE ConnectionAssumption

(* A shared connection: its current instance, the generation callers see,  *)
(* its lock and whether the server is up.                                  *)
LinkRows == [now : Nat, gen : Nat, lock : Callers \cup {Free}, up : BOOLEAN]
(* A caller: what it does, on which link, with which generation.           *)
CallerRows == [pc : {"idle", "locked", "using", "report"}, on : Links, gen : Nat, uses : Nat]

(* The types of the connections and their callers.                         *)
ConnectionTypeOK ==
    /\ link \in [Links -> LinkRows]
    /\ failed \in [Links -> SUBSET Nat]
    /\ caller \in [Callers -> CallerRows]

(* A report is about a generation that a call has failed on.               *)
ReportsFailed ==
    \A c \in Callers : caller[c].pc = "report" => caller[c].gen \in failed[caller[c].on]

(* The inductive invariant of the shared connections.                      *)
ConnectionInv == ConnectionTypeOK /\ ReportsFailed

(* Before the first call there is nothing to report.                       *)
LEMMA ConnectionInitInv == ConnectionInit => ConnectionInv
  BY DEF ConnectionInit, ConnectionInv, ConnectionTypeOK, ReportsFailed, Links, NoLink, Free,
         LinkRows, CallerRows

(* A step that puts a caller anywhere but before its report, and a link    *)
(* into any proper state, keeps the invariant.                             *)
LEMMA CallerMoves ==
  ASSUME ConnectionInv, NEW c \in Callers, NEW r \in CallerRows, r.pc # "report",
         NEW l \in Links, NEW k \in LinkRows,
         caller' = [caller EXCEPT ![c] = r], link' = [link EXCEPT ![l] = k], failed' = failed
  PROVE  ConnectionInv'
<1>1. /\ caller' \in [Callers -> CallerRows] /\ link' \in [Links -> LinkRows]
      /\ caller'[c] = r /\ \A d \in Callers \ {c} : caller'[d] = caller[d]
  BY DEF ConnectionInv, ConnectionTypeOK
<1> QED
  BY <1>1 DEF ConnectionInv, ConnectionTypeOK, ReportsFailed

(* The link with a new connection placed in it is a link.                  *)
LEMMA PlacedIsRow ==
  ASSUME ConnectionInv, NEW l \in Links
  PROVE  Placed(l) \in LinkRows /\ Placed(l).now = link[l].gen + 1
<1>1. link[l] \in LinkRows
  BY DEF ConnectionInv, ConnectionTypeOK
<1>2. PICK n \in Nat : n = link[l].gen + 1
  BY <1>1 DEF LinkRows
<1>3. PICK k : k = [[[[link[l] EXCEPT !.now = n] EXCEPT !.gen = n] EXCEPT !.lock = Free]
                      EXCEPT !.up = TRUE]
  OBVIOUS
<1>4. k \in LinkRows /\ k.now = n
  BY <1>1, <1>3 DEF LinkRows
<1>5. Placed(l) = k
  BY <1>2, <1>3 DEF Placed
<1> QED
  BY <1>2, <1>4, <1>5

(* invalidate and clear_failed leave a connection of another generation    *)
(* in its place.                                                           *)
LEMMA ClearedIsRow ==
  ASSUME ConnectionInv, NEW l \in Links, NEW g \in Nat
  PROVE  Cleared(l, g) \in LinkRows /\ (link[l].now # g => Cleared(l, g) = link[l])
<1>1. link[l] \in LinkRows
  BY DEF ConnectionInv, ConnectionTypeOK
<1>2. PICK n \in Nat : n = link[l].gen + 1
  BY <1>1 DEF LinkRows
<1>3. PICK i : i = [link[l] EXCEPT !.now = 0]
  OBVIOUS
<1>4. PICK k : k = [[i EXCEPT !.gen = n] EXCEPT !.up = FALSE]
  OBVIOUS
<1>5. i \in LinkRows /\ i.gen = link[l].gen
  BY <1>1, <1>3 DEF LinkRows
<1>6. k \in LinkRows
  BY <1>4, <1>5 DEF LinkRows
<1>7. k = [link[l] EXCEPT !.now = NoLink, !.gen = @ + 1, !.up = FALSE]
  BY <1>2, <1>3, <1>4, <1>5 DEF NoLink
<1>8. CASE link[l].now # g
  BY <1>1, <1>8 DEF Cleared
<1>9. CASE link[l].now = g /\ l = "rabbit"
  <2>1. Cleared(l, g) = i
    BY <1>3, <1>9 DEF Cleared, NoLink
  <2> QED
    BY <1>5, <1>9, <2>1
<1>10. CASE link[l].now = g /\ l # "rabbit"
  <2>1. Cleared(l, g) = k
    BY <1>7, <1>10 DEF Cleared
  <2> QED
    BY <1>6, <1>10, <2>1
<1> QED
  BY <1>8, <1>9, <1>10

(* Every call, report and outage keeps the invariant: a caller reports     *)
(* only a generation that failed it.                                       *)
LEMMA ConnectionNextInv == ConnectionInv /\ [ConnectionNext]_connectionVars => ConnectionInv'
<1> SUFFICES ASSUME ConnectionInv, [ConnectionNext]_connectionVars
             PROVE  ConnectionInv'
  OBVIOUS
<1>0. /\ \A c \in Callers : caller[c] \in CallerRows
      /\ \A l \in Links : link[l] \in LinkRows
      /\ failed \in [Links -> SUBSET Nat]
  BY DEF ConnectionInv, ConnectionTypeOK
<1>1. ASSUME NEW c \in Callers, NEW l \in Links, Begin(c, l) PROVE ConnectionInv'
  <2>0. PICK n \in Nat : n = caller[c].uses + 1
    BY <1>0 DEF CallerRows
  <2>a. PICK i : i = [[caller[c] EXCEPT !.pc = "locked"] EXCEPT !.on = l]
    OBVIOUS
  <2>b. i \in CallerRows /\ i.uses = caller[c].uses /\ i.pc = "locked"
    BY <1>0, <2>a DEF CallerRows
  <2>1. PICK r : r = [i EXCEPT !.uses = n]
    OBVIOUS
  <2>2. r \in CallerRows /\ r.pc # "report"
    BY <2>b, <2>1 DEF CallerRows
  <2>3. PICK k : k = [link[l] EXCEPT !.lock = c]
    OBVIOUS
  <2>4. k \in LinkRows
    BY <1>0, <2>3 DEF LinkRows
  <2>5. caller' = [caller EXCEPT ![c] = r] /\ link' = [link EXCEPT ![l] = k] /\ failed' = failed
    BY <1>1, <2>0, <2>a, <2>b, <2>1, <2>3 DEF Begin
  <2> QED
    BY <2>2, <2>4, <2>5, CallerMoves
<1>2. ASSUME NEW c \in Callers, Reuse(c) PROVE ConnectionInv'
  <2>0. PICK l \in Links : l = caller[c].on
    BY <1>0 DEF CallerRows
  <2>1. PICK r : r = [[caller[c] EXCEPT !.pc = "using"] EXCEPT !.gen = link[l].now]
    OBVIOUS
  <2>2. r \in CallerRows /\ r.pc # "report"
    BY <1>0, <2>1 DEF CallerRows, LinkRows
  <2>3. PICK k : k = [link[l] EXCEPT !.lock = Free]
    OBVIOUS
  <2>4. k \in LinkRows
    BY <1>0, <2>3 DEF LinkRows
  <2>5. caller' = [caller EXCEPT ![c] = r] /\ link' = [link EXCEPT ![l] = k] /\ failed' = failed
    BY <1>2, <2>0, <2>1, <2>3 DEF Reuse
  <2> QED
    BY <2>2, <2>4, <2>5, CallerMoves
<1>3. ASSUME NEW c \in Callers, Connect(c) PROVE ConnectionInv'
  <2>0. PICK l \in Links : l = caller[c].on
    BY <1>0 DEF CallerRows
  <2>a. PICK n \in Nat : n = link[l].gen + 1
    BY <1>0 DEF LinkRows
  <2>1. PICK r : r = [[caller[c] EXCEPT !.pc = "using"] EXCEPT !.gen = n]
    OBVIOUS
  <2>2. r \in CallerRows /\ r.pc # "report"
    BY <1>0, <2>1 DEF CallerRows
  <2>5. caller' = [caller EXCEPT ![c] = r] /\ link' = [link EXCEPT ![l] = Placed(l)] /\ failed' = failed
    BY <1>3, <2>0, <2>a, <2>1 DEF Connect
  <2> QED
    BY <2>2, <2>5, CallerMoves, PlacedIsRow
<1>4. ASSUME NEW c \in Callers, ConnectFails(c) PROVE ConnectionInv'
  <2>0. PICK l \in Links : l = caller[c].on
    BY <1>0 DEF CallerRows
  <2>1. PICK r : r = [caller[c] EXCEPT !.pc = "idle"]
    OBVIOUS
  <2>2. r \in CallerRows /\ r.pc # "report"
    BY <1>0, <2>1 DEF CallerRows
  <2>3. PICK k : k = [[link[l] EXCEPT !.lock = Free] EXCEPT !.now = NoLink]
    OBVIOUS
  <2>4. k \in LinkRows
    BY <1>0, <2>3 DEF LinkRows, NoLink
  <2>5. caller' = [caller EXCEPT ![c] = r] /\ link' = [link EXCEPT ![l] = k] /\ failed' = failed
    BY <1>4, <2>0, <2>1, <2>3 DEF ConnectFails
  <2> QED
    BY <2>2, <2>4, <2>5, CallerMoves
<1>5. ASSUME NEW c \in Callers, CallSucceeds(c) \/ ReportTimesOut(c) PROVE ConnectionInv'
  BY <1>5 DEF CallSucceeds, ReportTimesOut, ConnectionInv, ConnectionTypeOK, ReportsFailed,
              CallerRows
<1>6. ASSUME NEW c \in Callers, CallFails(c) PROVE ConnectionInv'
  BY <1>6 DEF CallFails, ConnectionInv, ConnectionTypeOK, ReportsFailed, CallerRows
<1>7. ASSUME NEW c \in Callers, Report(c) PROVE ConnectionInv'
  <2>0. PICK l \in Links : l = caller[c].on
    BY <1>0 DEF CallerRows
  <2>1. PICK r : r = [caller[c] EXCEPT !.pc = "idle"]
    OBVIOUS
  <2>2. r \in CallerRows /\ r.pc # "report"
    BY <1>0, <2>1 DEF CallerRows
  <2>3. caller[c].gen \in Nat
    BY <1>0 DEF CallerRows
  <2>5. /\ caller' = [caller EXCEPT ![c] = r] /\ failed' = failed
        /\ link' = [link EXCEPT ![l] = Cleared(l, caller[c].gen)]
    BY <1>7, <2>0, <2>1 DEF Report
  <2> QED
    BY <2>2, <2>3, <2>5, CallerMoves, ClearedIsRow
<1>9. CASE SuperviseRabbit
  <2>1. /\ link' = [link EXCEPT !["rabbit"] = Placed("rabbit")]
        /\ Placed("rabbit") \in LinkRows
        /\ UNCHANGED <<failed, caller>>
    BY <1>9, PlacedIsRow DEF SuperviseRabbit, Links
  <2> QED
    BY <2>1 DEF ConnectionInv, ConnectionTypeOK, ReportsFailed
<1>10. CASE SuperviseFails
  <2>1. PICK k : k = [link["rabbit"] EXCEPT !.now = NoLink]
    OBVIOUS
  <2>2. k \in LinkRows
    BY <1>0, <2>1 DEF LinkRows, Links, NoLink
  <2>3. link' = [link EXCEPT !["rabbit"] = k] /\ UNCHANGED <<failed, caller>>
    BY <1>10, <2>1 DEF SuperviseFails
  <2> QED
    BY <2>2, <2>3 DEF ConnectionInv, ConnectionTypeOK, ReportsFailed
<1>11. ASSUME NEW l \in Links, Break(l) PROVE ConnectionInv'
  BY <1>11 DEF Break, ConnectionInv, ConnectionTypeOK, ReportsFailed
<1>12. CASE UNCHANGED connectionVars
  BY <1>12 DEF connectionVars, ConnectionInv, ConnectionTypeOK, ReportsFailed
<1> QED
  BY <1>1, <1>2, <1>3, <1>4, <1>5, <1>6, <1>7, <1>9, <1>10, <1>11, <1>12
  DEF ConnectionNext, ConnectionStep

(* One step of a caller or of the network never takes a connection away    *)
(* that works.                                                             *)
LEMMA StepKeepsWorking ==
  ASSUME ConnectionInv, [ConnectionNext]_connectionVars, NEW l \in Links,
         link[l].now # NoLink, link'[l].now # link[l].now
  PROVE  link[l].now \in failed[l] \/ link[l].now \notin alive[l]
<1>0. /\ \A c \in Callers : caller[c] \in CallerRows
      /\ \A k \in Links : link[k] \in LinkRows
      /\ link \in [Links -> LinkRows]
  BY DEF ConnectionInv, ConnectionTypeOK
<1> USE DEF Links
<1>1. ASSUME NEW c \in Callers, NEW k \in Links, Begin(c, k) PROVE FALSE
  BY <1>0, <1>1 DEF Begin, LinkRows
<1>2. ASSUME NEW c \in Callers, Reuse(c) PROVE FALSE
  BY <1>0, <1>2 DEF Reuse, LinkRows, CallerRows
<1>3. ASSUME NEW c \in Callers, Connect(c) PROVE ~Reusable(l)
  BY <1>0, <1>3 DEF Connect, CallerRows
<1>4. ASSUME NEW c \in Callers, ConnectFails(c) PROVE ~Reusable(l)
  BY <1>0, <1>4 DEF ConnectFails, LinkRows, CallerRows
<1>5. ASSUME NEW c \in Callers, Report(c) PROVE link[l].now \in failed[l]
  <2>1. /\ caller[c].on \in Links /\ caller[c].gen \in Nat
        /\ caller[c].gen \in failed[caller[c].on]
        /\ link' = [link EXCEPT ![caller[c].on] = Cleared(caller[c].on, caller[c].gen)]
    BY <1>0, <1>5 DEF Report, CallerRows, ConnectionInv, ReportsFailed
  <2>2. caller[c].on = l
    BY <1>0, <2>1
  <2>3. link'[l] = Cleared(l, caller[c].gen)
    BY <1>0, <2>1, <2>2
  <2> QED
    BY <2>1, <2>2, <2>3, ClearedIsRow
<1>6. ASSUME NEW c \in Callers, CallSucceeds(c) \/ CallFails(c) \/ ReportTimesOut(c) PROVE FALSE
  BY <1>6 DEF CallSucceeds, CallFails, ReportTimesOut
<1>7. CASE SuperviseRabbit
  BY <1>0, <1>7 DEF SuperviseRabbit, Reusable
<1>8. CASE SuperviseFails
  BY <1>0, <1>8 DEF SuperviseFails, Reusable
<1>9. ASSUME NEW k \in Links, Break(k) PROVE FALSE
  BY <1>9 DEF Break
<1>10. CASE UNCHANGED connectionVars
  BY <1>10 DEF connectionVars
<1>11. CASE ~Reusable(l)
  BY <1>11 DEF Reusable
<1> QED
  BY <1>1, <1>2, <1>3, <1>4, <1>5, <1>6, <1>7, <1>8, <1>9, <1>10, <1>11
  DEF ConnectionNext, ConnectionStep

(* A connection that works is never thrown away by a caller that used an   *)
(* older one, for any number of callers, outages and uses (the generation  *)
(* test of the RabbitMQ and Redis pools).                                  *)
THEOREM WorkingConnectionKept == ConnectionSpec => WorkingConnectionStays
<1>1. ConnectionInv /\ [ConnectionNext]_connectionVars
        => [\A l \in Links : link[l].now # NoLink /\ link'[l].now # link[l].now
              => link[l].now \in failed[l] \/ link[l].now \notin alive[l]]_connectionVars
  BY StepKeepsWorking
<1> QED
  BY <1>1, ConnectionInitInv, ConnectionNextInv, PTL DEF ConnectionSpec, WorkingConnectionStays

HIDE ConnectionAssumption

-----------------------------------------------------------------------------
(* The Compose stack.                                                      *)

USE StackAssumption

(* The readiness check asks eleven endpoints, one of each service.         *)
LEMMA EndpointNames ==
  /\ Len(Endpoints) = 11 /\ DOMAIN Endpoints = 1 .. 11
  /\ \A i \in 1 .. 11 :
       Endpoints[i] \in {"checkout", "catalog", "inventory", "recommendation", "orders", "storefront",
                         "postgres", "rabbitmq", "pricing", "payment", "notifications"}
  /\ \A p \in Services : \E i \in 1 .. 11 : Endpoints[i] = p
<1>1. Len(Endpoints) = 11 /\ DOMAIN Endpoints = 1 .. 11
  BY DEF Endpoints
<1>2. ASSUME NEW i \in 1 .. 11
      PROVE  Endpoints[i] \in {"checkout", "catalog", "inventory", "recommendation", "orders", "storefront",
                         "postgres", "rabbitmq", "pricing", "payment", "notifications"}
  BY DEF Endpoints
<1>3. ASSUME NEW p \in Services PROVE \E i \in 1 .. 11 : Endpoints[i] = p
  BY <1>1 DEF Services
<1> QED
  BY <1>1, <1>2, <1>3

(* The check: not begun, asking the n-th endpoint, or over.                *)
CheckRows ==
    [at : {"idle", "waiting", "asking", "passed", "failed", "down"}, next : Nat \ {0}, since : Nat]

(* The types of the stack's state.                                         *)
StackTypeOK ==
    /\ outages \in Nat
    /\ check \in CheckRows
    /\ check.since <= outages
    /\ check.at \in {"idle", "waiting"} => check.next = 1
    /\ check.at = "passed" => check.next > 11

(* No container has stopped since verify_stack read the verdicts.          *)
Undisturbed == check.at \in {"asking", "passed"} /\ check.since = outages

(* While the stack is undisturbed every container runs, and what has been  *)
(* asked would give the same answer again.                                 *)
AnswersStand ==
    Undisturbed =>
      /\ Parts \subseteq running
      /\ \A i \in 1 .. 11 : i < check.next /\ Here(Endpoints[i]) => Answers[Endpoints[i]]

(* The inductive invariant of the stack.                                   *)
StackInv == StackTypeOK /\ AnswersStand

(* A stack in which no container runs satisfies the invariant.             *)
LEMMA StackInitInv == StackInit => StackInv
  BY DEF StackInit, StackInv, StackTypeOK, CheckRows, AnswersStand, Undisturbed

(* With every container running, a readiness answer only depends on the    *)
(* notes, and a service that notes more is not less ready.                 *)
LEMMA AnswersGrow ==
  ASSUME Parts \subseteq running, running \subseteq running', noted \subseteq noted',
         NEW p \in {"checkout", "catalog", "inventory", "recommendation", "orders", "storefront",
                    "postgres", "rabbitmq", "pricing", "payment", "notifications"},
         Answers[p]
  PROVE  Answers'[p]
<1>1. \A q : Runs(q)'
  BY DEF Runs, Here
<1>2. \A q : Noted(q) => Noted(q)'
  BY DEF Noted, Here
<1>3. /\ database_ready' /\ catalog_ready' /\ payment_ready' /\ inventory_health'
      /\ check_catalog_readiness'
  BY <1>1 DEF database_ready, catalog_ready, payment_ready, inventory_health, check_catalog_readiness
<1>4. /\ notifications_health => notifications_health'
      /\ orders_health => orders_health'
      /\ pricing_ready => pricing_ready'
  BY <1>1, <1>2, <1>3 DEF notifications_health, orders_health, pricing_ready
<1>5. health_response(health_snapshot) => health_response(health_snapshot)'
  <2>1. ASSUME health_response(health_snapshot) PROVE Noted("checkout") /\ pricing_ready
    BY <2>1 DEF health_response, health_snapshot
  <2>2. ASSUME Noted("checkout")', pricing_ready'
        PROVE  health_response(health_snapshot)'
    BY <1>3, <2>2 DEF health_response, health_snapshot
  <2> QED
    BY <1>2, <1>4, <2>1, <2>2
<1>6. checkout_readiness => checkout_readiness'
  BY <1>1, <1>5 DEF checkout_readiness
<1>7. storefront_readiness => storefront_readiness'
  BY <1>1, <1>3, <1>4, <1>6 DEF storefront_readiness
<1> QED
  BY <1>1, <1>3, <1>4, <1>6, <1>7 DEF Answers

(* A step that leaves the containers alone leaves their answers alone.     *)
LEMMA SameAnswers ==
  ASSUME UNCHANGED <<running, noted>>
  PROVE  Answers' = Answers
  BY DEF Answers, database_ready, catalog_ready, payment_ready, inventory_health,
         notifications_health, orders_health, pricing_ready, check_catalog_readiness,
         checkout_readiness, storefront_readiness, health_response, health_snapshot, Runs, Noted

(* A step of the containers that stops none of them.                       *)
LEMMA ContainersGrow ==
  ASSUME StackInv, check' = check, outages' = outages, running \subseteq running',
         Undisturbed => noted \subseteq noted'
  PROVE  StackInv'
<1>1. StackTypeOK'
  BY DEF StackInv, StackTypeOK, CheckRows
<1>2. ASSUME Undisturbed', NEW i \in 1 .. 11, i < check'.next, Here(Endpoints[i])
      PROVE  Answers'[Endpoints[i]]
  <2>1. Undisturbed /\ Parts \subseteq running /\ Answers[Endpoints[i]]
    BY <1>2 DEF StackInv, AnswersStand, Undisturbed
  <2> QED
    BY <2>1, AnswersGrow, EndpointNames
<1>3. Undisturbed' => Parts \subseteq running'
  BY DEF StackInv, AnswersStand, Undisturbed
<1> QED
  BY <1>1, <1>2, <1>3 DEF StackInv, AnswersStand, Here

(* Every start, exit, outage and answered request keeps the invariant:     *)
(* while no outage intervenes, an endpoint that answered keeps answering.  *)
LEMMA StackNextInv == StackInv /\ [StackNext]_stackVars => StackInv'
<1> SUFFICES ASSUME StackInv, [StackNext]_stackVars
             PROVE  StackInv'
  OBVIOUS
<1>1. ASSUME NEW p \in Parts, ContainerStep(p) PROVE StackInv'
  <2>1. check' = check /\ outages' = outages /\ running \subseteq running' /\ noted \subseteq noted'
    BY <1>1 DEF ContainerStep, Up, RunJob, Restart, Launch
  <2> QED
    BY <2>1, ContainersGrow
<1>2. ASSUME NEW p \in Parts, Stop(p) PROVE StackInv'
  <2>1. outages' = outages + 1 /\ check' = check
    BY <1>2 DEF Stop
  <2>2. StackTypeOK' /\ ~Undisturbed'
    BY <2>1 DEF StackInv, StackTypeOK, CheckRows, Undisturbed
  <2> QED
    BY <2>2 DEF StackInv, AnswersStand
<1>3. ASSUME NEW p \in Parts, HealthCheck(p) PROVE StackInv'
  <2>1. check' = check /\ outages' = outages /\ running' = running /\ noted' = noted
    BY <1>3 DEF HealthCheck
  <2> QED
    BY <2>1, ContainersGrow
<1>4. ASSUME NEW p \in Parts, Notice(p) PROVE StackInv'
  <2>1. check' = check /\ outages' = outages /\ running' = running
    BY <1>4 DEF Notice
  <2>2. Undisturbed => database_ready
    BY DEF StackInv, AnswersStand, database_ready, Runs, Here
  <2>3. Undisturbed => noted \subseteq noted'
    BY <1>4, <2>2 DEF Notice, RefreshPricing, PollDeliveries, Reconnect, Refresh
  <2> QED
    BY <2>1, <2>3, ContainersGrow
<1>5. CASE UpEnds
  <2>1. check' = check /\ outages' = outages /\ running' = running /\ noted' = noted
    BY <1>5 DEF UpEnds
  <2> QED
    BY <2>1, ContainersGrow
<1>6. CASE BeginCheck
  <2>1. StackTypeOK' /\ ~Undisturbed'
    BY <1>6 DEF BeginCheck, StackInv, StackTypeOK, CheckRows, Undisturbed
  <2> QED
    BY <2>1 DEF StackInv, AnswersStand
<1>7. CASE wait_for_compose_state
  <2>1. StackTypeOK' /\ check'.next = 1
    <3>1. check \in CheckRows /\ check.next = 1 /\ outages \in Nat /\ outages' = outages /\ check.since <= outages
      BY <1>7 DEF wait_for_compose_state, StackInv, StackTypeOK, CheckRows
    <3>2. CASE check' = [check EXCEPT !.at = "failed"]
      BY <3>1, <3>2 DEF StackTypeOK, CheckRows
    <3>3. CASE check' = [check EXCEPT !.at = "asking", !.since = outages]
      <4>1. check' \in CheckRows /\ check'.since = outages /\ check'.next = 1 /\ check'.at = "asking"
        BY <3>1, <3>3 DEF CheckRows
      <4> QED
        BY <3>1, <4>1 DEF StackTypeOK, CheckRows
    <3> QED
      BY <1>7, <3>2, <3>3 DEF wait_for_compose_state
  <2>2. check'.at = "failed" \/ (Parts \subseteq running /\ running' = running)
    BY <1>7 DEF wait_for_compose_state, verify_compose_state, StackInv, StackTypeOK, CheckRows
  <2> QED
    BY <2>1, <2>2 DEF StackInv, AnswersStand, Undisturbed
<1>8. CASE check_http_endpoint
  <2> DEFINE e == Endpoints[check.next]
  <2>1. /\ check.at = "asking" /\ check.next \in 1 .. 11 /\ check \in CheckRows
        /\ UNCHANGED <<running, noted, outages>>
    BY <1>8, EndpointNames DEF check_http_endpoint, StackInv, StackTypeOK, CheckRows
  <2>2. CASE Here(e) => Answers[e]
    <3>1. check' = [check EXCEPT !.next = check.next + 1]
      BY <1>8, <2>2 DEF check_http_endpoint
    <3>2. StackTypeOK' /\ check'.next = check.next + 1 /\ check'.at = check.at /\ check'.since = check.since
      BY <2>1, <3>1 DEF StackInv, StackTypeOK, CheckRows
    <3>3. Undisturbed' => Undisturbed
      BY <2>1, <3>2 DEF Undisturbed
    <3>4. Answers' = Answers
      BY <2>1, SameAnswers
    <3>5. ASSUME Undisturbed', NEW i \in 1 .. 11, i < check'.next, Here(Endpoints[i])
          PROVE  Answers'[Endpoints[i]]
      <4>1. CASE i = check.next
        BY <2>2, <3>4, <3>5, <4>1
      <4>2. CASE i < check.next
        BY <3>3, <3>4, <3>5, <4>2 DEF StackInv, AnswersStand
      <4> QED
        BY <2>1, <3>2, <3>5, <4>1, <4>2
    <3> QED
      BY <2>1, <3>2, <3>3, <3>5 DEF StackInv, AnswersStand, Here
  <2>3. CASE ~(Here(e) => Answers[e])
    <3>1. check' = [check EXCEPT !.at = "failed"]
      BY <1>8, <2>3 DEF check_http_endpoint
    <3>2. StackTypeOK' /\ ~Undisturbed'
      BY <2>1, <3>1 DEF StackInv, StackTypeOK, CheckRows, Undisturbed
    <3> QED
      BY <3>2 DEF StackInv, AnswersStand
  <2> QED
    BY <2>2, <2>3
<1>9. CASE Pass
  <2>1. /\ StackTypeOK' /\ check'.next = check.next /\ check'.since = check.since /\ check.at = "asking"
        /\ UNCHANGED <<running, noted, outages>>
    BY <1>9, EndpointNames DEF Pass, StackInv, StackTypeOK, CheckRows
  <2>2. Undisturbed' => Undisturbed
    BY <2>1 DEF Undisturbed
  <2>4. Answers' = Answers
      BY <2>1, SameAnswers
  <2> QED
    BY <2>1, <2>2, <2>4 DEF StackInv, AnswersStand, Here
<1>10. CASE TakeDown
  <2>1. StackTypeOK' /\ ~Undisturbed'
    BY <1>10 DEF TakeDown, StackInv, StackTypeOK, CheckRows, Undisturbed
  <2> QED
    BY <2>1 DEF StackInv, AnswersStand
<1>11. CASE UNCHANGED stackVars
  <2>1. check' = check /\ outages' = outages /\ running' = running /\ noted' = noted
    BY <1>11 DEF stackVars
  <2> QED
    BY <2>1, ContainersGrow
<1> QED
  BY <1>1, <1>2, <1>3, <1>4, <1>5, <1>6, <1>7, <1>8, <1>9, <1>10, <1>11 DEF StackNext

(* A stack that passed the readiness check is ready: unless a part went    *)
(* down since, every part the check stands for runs and answers, for every *)
(* set of parts (check_http_endpoint and the depends_on conditions of the  *)
(* Compose files).                                                         *)
THEOREM PassedStackIsReady == StackSpec => []VerifiedStackIsReady
<1>1. StackInv => VerifiedStackIsReady
  <2> SUFFICES ASSUME StackInv, check.at = "passed", check.since = outages, NEW p \in Services
               PROVE  Answers[p]
    BY DEF VerifiedStackIsReady, StackIsReady
  <2>1. PICK i \in 1 .. 11 : Endpoints[i] = p
    BY EndpointNames
  <2>2. Here(p) /\ i < check.next
    BY DEF Services, Here, StackInv, StackTypeOK, CheckRows
  <2> QED
    BY <2>1, <2>2 DEF StackInv, AnswersStand, Undisturbed
<1> QED
  BY <1>1, StackInitInv, StackNextInv, PTL DEF StackSpec

HIDE StackAssumption

-----------------------------------------------------------------------------
(* Database migrations.                                                    *)

USE MigrationsAssumption

(* The states a migrator can be in.                                        *)
MigratorStates ==
    [at : {"waiting", "next", "holding", "migrated", "failed"}, file : Nat \ {0}, runs : BOOLEAN]

(* The types of the migration state.                                       *)
MigrationsTypeOK ==
    /\ schema \in [1 .. Files -> Nat]
    /\ recorded \subseteq 1 .. Files
    /\ migrator \in [Migrators -> MigratorStates]
    /\ crashes \in Nat

(* An open script holds the advisory lock, and what it read of             *)
(* schema_migrations still stands when it commits.                         *)
LockKept ==
    \A m \in Migrators :
      migrator[m].at = "holding" =>
        /\ advisory = m
        /\ migrator[m].file \in 1 .. Files
        /\ migrator[m].runs <=> migrator[m].file \notin recorded

(* The files that took effect are the recorded ones, each once.            *)
AppliedIsRecorded ==
    \A f \in 1 .. Files :
      /\ schema[f] = IF f \in recorded THEN 1 ELSE 0
      /\ f \in recorded => Needs[f] \subseteq recorded

(* A migrator that reported success has found every verified file applied. *)
SuccessIsVerified ==
    \A m \in Migrators : migrator[m].at = "migrated" => Verified \subseteq recorded

(* The inductive invariant of the migrations.                              *)
MigrationsInv ==
    MigrationsTypeOK /\ LockKept /\ AppliedIsRecorded /\ SuccessIsVerified

(* An empty schema with no migrator at work satisfies the invariant.       *)
LEMMA MigrationsInitInv == MigrationsInit => MigrationsInv
  BY DEF MigrationsInit, MigrationsInv, MigrationsTypeOK, MigratorStates, LockKept,
         AppliedIsRecorded, SuccessIsVerified, NoMigrator

(* Every statement, crash and restart of a migrator keeps the invariant:   *)
(* the advisory lock keeps the others out while one applies a file and     *)
(* records it.                                                             *)
LEMMA MigrationsNextInv == MigrationsInv /\ [MigrationsNext]_migrationVars => MigrationsInv'
<1> SUFFICES ASSUME MigrationsInv, [MigrationsNext]_migrationVars
             PROVE  MigrationsInv'
  OBVIOUS
<1> USE DEF MigrationsInv, MigrationsTypeOK, LockKept, AppliedIsRecorded, SuccessIsVerified, NoMigrator, MigratorStates
<1>1. ASSUME NEW m \in Migrators, wait_for_postgres(m) PROVE MigrationsInv'
  BY <1>1 DEF wait_for_postgres, Goto
<1>2. ASSUME NEW m \in Migrators, BeginMigration(m) PROVE MigrationsInv'
  <2> DEFINE f == migrator[m].file
  <2>1. /\ f \in 1 .. Files
        /\ \A n \in Migrators : migrator[n].at # "holding"
    BY <1>2 DEF BeginMigration
  <2>2. PICK j : j = [[migrator[m] EXCEPT !.at = "holding"] EXCEPT !.runs = f \notin recorded]
    OBVIOUS
  <2>3. migrator' = [migrator EXCEPT ![m] = j]
    BY <1>2, <2>2 DEF BeginMigration
  <2>4. migrator[m] \in MigratorStates
    OBVIOUS
  <2>5. /\ j \in MigratorStates /\ j.at = "holding" /\ j.file = f
        /\ j.runs = (f \notin recorded)
    BY <2>2, <2>4
  <2>6. /\ migrator'[m] = j
        /\ \A n \in Migrators \ {m} : migrator'[n] = migrator[n]
        /\ migrator' \in [Migrators -> MigratorStates]
    BY <2>3, <2>5
  <2>7. UNCHANGED <<schema, recorded, crashes>> /\ advisory' = m
    BY <1>2 DEF BeginMigration
  <2>8. LockKept'
    BY <2>1, <2>5, <2>6, <2>7
  <2>9. MigrationsTypeOK'
    BY <2>6, <2>7
  <2>10. AppliedIsRecorded' /\ SuccessIsVerified'
    BY <2>5, <2>6, <2>7
  <2> QED
    BY <2>8, <2>9, <2>10
<1>3. ASSUME NEW m \in Migrators, LockBusy(m) PROVE MigrationsInv'
  <2>1. migrator[m].file + 1 \in Nat \ {0}
    OBVIOUS
  <2>2. CASE migrator' = [migrator EXCEPT ![m].file = @ + 1]
    BY <1>3, <2>1, <2>2 DEF LockBusy
  <2>3. CASE Goto(m, "failed")
    BY <1>3, <2>3 DEF LockBusy, Goto
  <2> QED
    BY <1>3, <2>2, <2>3 DEF LockBusy
<1>4. ASSUME NEW m \in Migrators, CommitMigration(m) PROVE MigrationsInv'
  <2> DEFINE f == migrator[m].file
  <2>1. /\ f \in 1 .. Files /\ advisory = m
        /\ migrator[m].runs <=> f \notin recorded
        /\ \A n \in Migrators \ {m} : migrator[n].at # "holding"
    BY <1>4 DEF CommitMigration
  <2>2. PICK j : j = [at |-> "next", file |-> f + 1, runs |-> FALSE]
    OBVIOUS
  <2>3. j \in MigratorStates /\ j.at = "next"
    BY <2>1, <2>2
  <2>4. migrator' = [migrator EXCEPT ![m] = j]
    BY <1>4, <2>2 DEF CommitMigration
  <2>5. /\ migrator'[m] = j
        /\ \A n \in Migrators \ {m} : migrator'[n] = migrator[n]
        /\ migrator' \in [Migrators -> MigratorStates]
    BY <2>3, <2>4
  <2>6. /\ recorded' = recorded \cup {f}
        /\ schema' \in [1 .. Files -> Nat] /\ AppliedIsRecorded'
    <3>1. CASE f \in recorded
      BY <1>4, <2>1, <3>1 DEF CommitMigration
    <3>2. CASE f \notin recorded
      <4>1. /\ recorded' = recorded \cup {f} /\ schema' = [schema EXCEPT ![f] = @ + 1]
            /\ \A n \in Needs[f] : schema[n] > 0
        BY <1>4, <2>1, <3>2 DEF CommitMigration
      <4>2. Needs[f] \subseteq recorded
        BY <2>1, <4>1
      <4>3. schema' \in [1 .. Files -> Nat]
        BY <2>1, <4>1
      <4>4. ASSUME NEW g \in 1 .. Files
            PROVE  schema'[g] = IF g \in recorded' THEN 1 ELSE 0
        BY <2>1, <3>2, <4>1
      <4>5. ASSUME NEW g \in recorded' PROVE Needs[g] \subseteq recorded'
        BY <2>1, <4>1, <4>2
      <4> QED
        BY <4>1, <4>3, <4>4, <4>5
    <3> QED
      BY <3>1, <3>2
  <2>7. UNCHANGED crashes
    BY <1>4 DEF CommitMigration
  <2>8. LockKept' /\ SuccessIsVerified'
    <3>1. ASSUME NEW n \in Migrators
          PROVE  /\ migrator'[n].at # "holding"
                 /\ migrator'[n].at = "migrated" => migrator[n].at = "migrated"
      BY <2>1, <2>3, <2>5
    <3> QED
      BY <2>6, <3>1
  <2>9. recorded' \subseteq 1 .. Files
    BY <2>1, <2>6
  <2> QED
    BY <2>5, <2>6, <2>7, <2>8, <2>9
<1>5. ASSUME NEW m \in Migrators, AbortMigration(m) PROVE MigrationsInv'
  BY <1>5 DEF AbortMigration, Goto
<1>6. ASSUME NEW m \in Migrators, postgres_verify(m) PROVE MigrationsInv'
  BY <1>6 DEF postgres_verify, Goto, SchemaIsComplete
<1>7. ASSUME NEW m \in Migrators, StartAgain(m) PROVE MigrationsInv'
  BY <1>7 DEF StartAgain
<1>8. CASE UNCHANGED migrationVars
  BY <1>8 DEF migrationVars
<1> QED
  BY <1>1, <1>2, <1>3, <1>4, <1>5, <1>6, <1>7, <1>8 DEF MigrationsNext

(* A file takes effect once, exactly when it is recorded, and a migrator   *)
(* that exits with success leaves what postgres_verify looks for, for any  *)
(* number of migrators, files, crashes and partly applied files            *)
(* (postgres_migrate and postgres_verify of the CLI).                      *)
THEOREM MigratedIsComplete == MigrationsSpec => []MigratedSchemaIsComplete
<1>1. MigrationsInv => MigratedSchemaIsComplete
  BY DEF MigrationsInv, AppliedIsRecorded, SuccessIsVerified, MigratedSchemaIsComplete
<1> QED
  BY <1>1, MigrationsInitInv, MigrationsNextInv, PTL DEF MigrationsSpec
=============================================================================
