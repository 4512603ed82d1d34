--------------------------- MODULE PaymentProofs ----------------------------
(***************************************************************************)
(* Proofs about the payment service for every set of orders and amounts,   *)
(* any number of authorize requests and any finite number of operations.   *)
(***************************************************************************)
EXTENDS Payment, FiniteSetTheorems, TLAPS

USE PaymentAssumption

(* A request id the service has not answered has left no payment behind.   *)
UnansweredIsAbsent == \A a \in AuthIds : answer[a] = "none" => pay[a].status = "absent"

IInv ==
    /\ TypeOK
    /\ BalancesMatchOperations
    /\ BalancesExplainStatus
    /\ OneActivePayment
    /\ AnswerAgreesWithPayment
    /\ UnansweredIsAbsent

(* The total of a payment's order is a positive amount in range.           *)
LEMMA TotalInRange == \A a \in AuthIds : Total(a) \in 1..MaxAmount /\ Total(a) \in Nat
BY DEF Total

(* The units a request id moved are finitely many.                         *)
LEMMA MovedFinite ==
  ASSUME NEW a, NEW kind
  PROVE  IsFiniteSet(Moved(a, kind)) /\ Cardinality(Moved(a, kind)) \in Nat
<1>1. IsFiniteSet(1..MaxAmount)
  <2>1. 1 \in Int /\ MaxAmount \in Int
      OBVIOUS
  <2>2. QED
      BY <2>1, FS_Interval, Zenon
<1>2. IsFiniteSet(OpIds \X (1..MaxAmount))
    BY <1>1, FS_Product
<1>3. Moved(a, kind) \subseteq OpIds \X (1..MaxAmount)
    BY DEF Moved
<1>4. QED
    BY <1>2, <1>3, FS_Subset, FS_CardinalityType

\* The request id r, not used before, stores an operation.
Stores(r, k, a, n, x) == Unused(r) /\ op' = [op EXCEPT ![r] = Stored(k, a, n, x)]

(* A stored operation moves its amount, once: the request id was unused.   *)
LEMMA StoredMoves ==
  ASSUME TypeOK, NEW r \in OpIds, NEW k \in {"capture", "void", "refund"}, NEW a \in AuthIds,
         NEW n \in 0..MaxAmount, NEW x, Stores(r, k, a, n, x),
         NEW b \in AuthIds, NEW kind \in {"capture", "refund"}
  PROVE  /\ b = a /\ kind = k => Cardinality(Moved(b, kind)') = Cardinality(Moved(b, kind)) + n
         /\ ~(b = a /\ kind = k) => Cardinality(Moved(b, kind)') = Cardinality(Moved(b, kind))
<1>1. /\ op'[r].kind = k /\ op'[r].payment = a /\ op'[r].amount = n
      /\ \A q \in OpIds \ {r} : op'[q] = op[q]
      /\ op[r].kind = "none"
    BY DEF TypeOK, Stores, Stored, Unused
<1> DEFINE New == {r} \X (1..n)
<1>2. CASE b = a /\ kind = k
  <2>1. Moved(b, kind)' = Moved(b, kind) \cup New
    <3>1. ASSUME NEW u \in OpIds \X (1..MaxAmount)
          PROVE  u \in Moved(b, kind)' <=> u \in Moved(b, kind) \cup New
      <4>1. CASE u[1] = r
          BY <1>1, <1>2, <4>1 DEF Moved
      <4>2. CASE u[1] # r
          BY <1>1, <1>2, <4>2 DEF Moved
      <4>3. QED
          BY <4>1, <4>2
    <3>2. /\ Moved(b, kind)' \subseteq OpIds \X (1..MaxAmount)
          /\ Moved(b, kind) \cup New \subseteq OpIds \X (1..MaxAmount)
        BY DEF Moved
    <3>3. QED
        BY <3>1, <3>2
  <2>2. Moved(b, kind) \cap New = {}
      BY <1>1 DEF Moved
  <2>3. IsFiniteSet(New) /\ Cardinality(New) = n
    <3>1. IsFiniteSet({r}) /\ Cardinality({r}) = 1
        BY FS_Singleton
    <3>2. 1 \in Int /\ n \in Int /\ n \in Nat
        OBVIOUS
    <3>3. IsFiniteSet(1..n) /\ Cardinality(1..n) = IF 1 > n THEN 0 ELSE n - 1 + 1
        BY <3>2, FS_Interval, Zenon
    <3>4. IsFiniteSet(New) /\ Cardinality(New) = Cardinality({r}) * Cardinality(1..n)
        BY <3>1, <3>3, FS_Product, Zenon
    <3>5. Cardinality(1..n) = n
        BY <3>2, <3>3
    <3>6. QED
        BY <3>1, <3>2, <3>4, <3>5
  <2>4. IsFiniteSet(Moved(b, kind)) /\ Cardinality(Moved(b, kind)) \in Nat
      BY MovedFinite
  <2>5. Cardinality(Moved(b, kind) \cup New)
          = Cardinality(Moved(b, kind)) + Cardinality(New) - Cardinality(Moved(b, kind) \cap New)
      BY <2>3, <2>4, FS_Union
  <2>6. Cardinality(Moved(b, kind) \cap New) = 0
      BY <2>2, FS_EmptySet
  <2>7. QED
      BY <1>2, <2>1, <2>3, <2>4, <2>5, <2>6
<1>3. CASE ~(b = a /\ kind = k)
  <2>1. Moved(b, kind)' = Moved(b, kind)
    <3>1. ASSUME NEW u \in OpIds \X (1..MaxAmount)
          PROVE  u \in Moved(b, kind)' <=> u \in Moved(b, kind)
      <4>1. CASE u[1] = r
          BY <1>1, <1>3, <4>1 DEF Moved
      <4>2. CASE u[1] # r
          BY <1>1, <4>2 DEF Moved
      <4>3. QED
          BY <4>1, <4>2
    <3>2. /\ Moved(b, kind)' \subseteq OpIds \X (1..MaxAmount)
          /\ Moved(b, kind) \subseteq OpIds \X (1..MaxAmount)
        BY DEF Moved
    <3>3. QED
        BY <3>1, <3>2
  <2>2. Cardinality(Moved(b, kind)) \in Nat
      BY MovedFinite
  <2>3. QED
      BY <1>3, <2>1, <2>2
<1>4. QED
    BY <1>2, <1>3

(* Nothing has been asked of the service yet.                              *)
LEMMA InitIInv == Init => IInv
<1> SUFFICES ASSUME Init PROVE IInv
    OBVIOUS
<1>1. TypeOK
    BY DEF Init, TypeOK, Payments, PayStatuses, Amounts, Decisions, Answers, Ops, ReconStatuses
<1>2. BalancesExplainStatus
    BY TotalInRange DEF Init, BalancesExplainStatus
<1>3. BalancesMatchOperations
  <2> SUFFICES ASSUME NEW a \in AuthIds, NEW kind \in {"capture", "refund"}
               PROVE  Cardinality(Moved(a, kind)) = 0
      BY DEF Init, BalancesMatchOperations
  <2>1. Moved(a, kind) = {}
      BY DEF Init, Moved
  <2>2. QED
      BY <2>1, FS_EmptySet
<1>4. OneActivePayment /\ AnswerAgreesWithPayment /\ UnansweredIsAbsent
    BY DEF Init, OneActivePayment, Active, AnswerAgreesWithPayment, UnansweredIsAbsent
<1>5. QED
    BY <1>1, <1>2, <1>3, <1>4 DEF IInv

\* What holds of one payment, given the answer and the decision of its request.
Explained(a, p) ==
    /\ p.refunded <= p.captured
    /\ p.captured <= Total(a)
    /\ p.status \in {"absent", "pending", "failed", "voided"} => p.captured = 0
    /\ p.status = "captured" => p.captured = Total(a) /\ p.refunded = 0
    /\ p.status = "refunded" => p.captured = p.refunded /\ p.captured > 0
    /\ p.status = "partially_refunded" => p.refunded \in 1..(p.captured - 1)
Agreed(p, d, x) ==
    /\ p.captured > 0 => d = "authorized"
    /\ x = "pending" <=> p.status = "pending"
    /\ x \in {"declined", "failed"} <=> p.status = "failed"
    /\ x = "refused" => p.status = "absent"
    /\ x = "none" => p.status = "absent"
\* findByMerchantReference, of one payment.
Bars(a, p) ==
    \/ p.status \in {"pending", "authorized", "captured", "partially_refunded"}
    \/ p.status = "refunded" /\ p.captured < Total(a)

(* A step that touches one payment, if any, keeps the invariant when that  *)
(* payment, its answer and its decision still fit each other, and when it  *)
(* bars others only if it did before or if the order had no other.         *)
LEMMA OnePaymentMoves ==
  ASSUME IInv, TypeOK', BalancesMatchOperations', NEW a \in AuthIds,
         \A b \in AuthIds \ {a} :
            pay'[b] = pay[b] /\ decision'[b] = decision[b] /\ answer'[b] = answer[b],
         Explained(a, pay'[a]), Agreed(pay'[a], decision'[a], answer'[a]),
         \/ Bars(a, pay'[a]) => Bars(a, pay[a])
         \/ \A b \in AuthIds : OrderOf[b] = OrderOf[a] => ~Active(b)
  PROVE  IInv'
<1>1. \A b \in AuthIds : Explained(b, pay'[b])
    BY DEF IInv, BalancesExplainStatus, Explained
<1>2. BalancesExplainStatus'
    BY <1>1 DEF BalancesExplainStatus, Explained, Total
<1>3. \A b \in AuthIds : Agreed(pay'[b], decision'[b], answer'[b])
    BY DEF IInv, AnswerAgreesWithPayment, UnansweredIsAbsent, Agreed, Proof
<1>4. AnswerAgreesWithPayment' /\ UnansweredIsAbsent'
    BY <1>3, Zenon DEF AnswerAgreesWithPayment, UnansweredIsAbsent, Agreed, Proof
<1>5. \A b \in AuthIds : (Active(b) <=> Bars(b, pay[b])) /\ (Active(b)' <=> Bars(b, pay'[b]))
    BY Zenon DEF Active, Bars, Total
<1>6. OneActivePayment'
  <2> SUFFICES ASSUME NEW b \in AuthIds, NEW c \in AuthIds, Active(b)', Active(c)',
                      OrderOf[b] = OrderOf[c]
               PROVE  b = c
      BY DEF OneActivePayment
  <2>1. \A d \in AuthIds \ {a} : Active(d)' => Active(d)
      BY <1>5
  <2>2. CASE Bars(a, pay'[a]) => Bars(a, pay[a])
    <3>1. Active(b) /\ Active(c)
        BY <1>5, <2>1, <2>2
    <3>2. QED
        BY <3>1 DEF IInv, OneActivePayment
  <2>3. CASE \A d \in AuthIds : OrderOf[d] = OrderOf[a] => ~Active(d)
    <3>1. CASE b # a /\ c # a
        BY <2>1, <3>1 DEF IInv, OneActivePayment
    <3>2. CASE b = a \/ c = a
        BY <2>1, <2>3, <3>2
    <3>3. QED
        BY <3>1, <3>2
  <2>4. QED
      BY <2>2, <2>3
<1>7. QED
    BY <1>2, <1>4, <1>6 DEF IInv

(* Authorizing, reconciling, moving funds, refusing, and what the checkout *)
(* service does to its orders keep the invariant.                          *)
LEMMA NextIInv == IInv /\ [Next]_vars => IInv'
<1> SUFFICES ASSUME IInv, [Next]_vars PROVE IInv'
    OBVIOUS
<1>0. /\ payable \subseteq Orders /\ pay \in [AuthIds -> Payments] /\ decision \in [AuthIds -> Decisions]
      /\ answer \in [AuthIds -> Answers] /\ op \in [OpIds -> Ops] /\ recon \in [AuthIds -> ReconStatuses]
    BY DEF IInv, TypeOK
<1>1. \A a \in AuthIds : /\ pay[a].status \in PayStatuses /\ pay[a].captured \in 0..MaxAmount
                         /\ pay[a].refunded \in 0..MaxAmount
    BY <1>0 DEF Payments, Amounts
<1>2. \A a \in AuthIds : Explained(a, pay[a])
    BY DEF IInv, BalancesExplainStatus, Explained
<1>3. \A a \in AuthIds : Agreed(pay[a], decision[a], answer[a])
    BY Zenon DEF IInv, AnswerAgreesWithPayment, UnansweredIsAbsent, Agreed, Proof
<1>4. ASSUME op' = op PROVE \A a, k : Moved(a, k)' = Moved(a, k)
    BY <1>4 DEF Moved
<1>5. \A a \in AuthIds : /\ pay[a].captured = Cardinality(Moved(a, "capture"))
                         /\ pay[a].refunded = Cardinality(Moved(a, "refund"))
    BY DEF IInv, BalancesMatchOperations
<1>6. ASSUME NEW a \in AuthIds, NEW o \in Outcomes, Authorize(a, o) PROVE IInv'
  <2> DEFINE p == [status |-> FirstStatus(o), captured |-> 0, refunded |-> 0]
  <2>1. /\ pay' = [pay EXCEPT ![a] = p] /\ decision' = [decision EXCEPT ![a] = FirstDecision(o)]
        /\ answer' = [answer EXCEPT ![a] = FirstAnswer(o)]
        /\ UNCHANGED <<payable, op, recon>>
        /\ answer[a] = "none"
        /\ \A b \in AuthIds : OrderOf[b] = OrderOf[a] => ~Active(b)
      BY <1>6 DEF Authorize
  <2>2. /\ FirstStatus(o) \in {"authorized", "failed", "pending"}
        /\ FirstDecision(o) \in Decisions /\ FirstAnswer(o) \in Answers
        /\ FirstAnswer(o) \in {"succeeded", "declined", "pending"}
        /\ FirstStatus(o) = "pending" <=> FirstAnswer(o) = "pending"
        /\ FirstStatus(o) = "failed" <=> FirstAnswer(o) = "declined"
      BY DEF Outcomes, FirstStatus, FirstDecision, FirstAnswer, Decisions, Answers
  <2>3. p \in Payments /\ p.captured = 0 /\ p.refunded = 0 /\ p.status = FirstStatus(o)
      BY <2>2 DEF Payments, PayStatuses, Amounts
  <2>4. TypeOK'
      BY <1>0, <2>1, <2>2, <2>3 DEF TypeOK
  <2>5. pay'[a] = p /\ decision'[a] = FirstDecision(o) /\ answer'[a] = FirstAnswer(o)
        /\ \A b \in AuthIds \ {a} :
             pay'[b] = pay[b] /\ decision'[b] = decision[b] /\ answer'[b] = answer[b]
      BY <1>0, <2>1
  <2>6. BalancesMatchOperations'
    <3>1. pay[a].captured = 0 /\ pay[a].refunded = 0
      <4>1. pay[a].status = "absent"
          BY <1>3, <2>1 DEF Agreed
      <4>2. QED
          BY <1>1, <1>2, <4>1 DEF Explained
    <3>2. \A b \in AuthIds : pay'[b].captured = pay[b].captured /\ pay'[b].refunded = pay[b].refunded
        BY <2>3, <2>5, <3>1
    <3>3. QED
        BY <1>4, <1>5, <2>1, <3>2 DEF BalancesMatchOperations
  <2>7. Explained(a, pay'[a]) /\ Agreed(pay'[a], decision'[a], answer'[a])
      BY <2>2, <2>3, <2>5, TotalInRange DEF Explained, Agreed
  <2>8. QED
      BY <2>1, <2>4, <2>5, <2>6, <2>7, OnePaymentMoves
<1>7. ASSUME NEW a \in AuthIds, AuthorizeRefused(a) PROVE IInv'
  <2>1. /\ answer[a] = "none" /\ answer' = [answer EXCEPT ![a] = "refused"]
        /\ UNCHANGED <<payable, pay, decision, op, recon>>
      BY <1>7 DEF AuthorizeRefused
  <2>2. TypeOK'
      BY <1>0, <2>1 DEF TypeOK, Answers
  <2>3. answer'[a] = "refused" /\ \A b \in AuthIds \ {a} : answer'[b] = answer[b]
      BY <1>0, <2>1
  <2>4. BalancesMatchOperations'
      BY <1>4, <1>5, <2>1 DEF BalancesMatchOperations
  <2>5. Agreed(pay'[a], decision'[a], answer'[a])
    <3>1. Agreed(pay[a], decision[a], answer[a])
        BY <1>3
    <3>2. QED
        BY <2>1, <2>3, <3>1 DEF Agreed
  <2>6. QED
      BY <1>2, <2>1, <2>2, <2>3, <2>4, <2>5, OnePaymentMoves
<1>8. ASSUME NEW a \in AuthIds, NEW d \in {"authorized", "failed"}, ProviderDecides(a, d) PROVE IInv'
  <2>1. /\ pay[a].status = "pending" /\ decision' = [decision EXCEPT ![a] = d]
        /\ UNCHANGED <<payable, pay, answer, op, recon>>
      BY <1>8 DEF ProviderDecides
  <2>2. TypeOK'
      BY <1>0, <2>1 DEF TypeOK, Decisions
  <2>3. \A b \in AuthIds \ {a} : decision'[b] = decision[b]
      BY <1>0, <2>1
  <2>4. BalancesMatchOperations'
      BY <1>4, <1>5, <2>1 DEF BalancesMatchOperations
  <2>5. Agreed(pay'[a], decision'[a], answer'[a])
    <3>1. Agreed(pay[a], decision[a], answer[a]) /\ Explained(a, pay[a])
        BY <1>2, <1>3
    <3>2. pay[a].captured = 0
        BY <2>1, <3>1 DEF Explained
    <3>3. QED
        BY <2>1, <3>1, <3>2 DEF Agreed
  <2>6. QED
      BY <1>2, <2>1, <2>2, <2>3, <2>4, <2>5, OnePaymentMoves
<1>9. ASSUME NEW a \in AuthIds, Reconcile(a) PROVE IInv'
  <2> DEFINE p == [status |-> decision[a], captured |-> 0, refunded |-> 0]
  <2>1. /\ pay[a].status = "pending" /\ decision[a] \in {"authorized", "failed"}
        /\ pay' = [pay EXCEPT ![a] = p]
        /\ answer' = [answer EXCEPT ![a] = ResolvedAnswer(a)]
        /\ recon' = [recon EXCEPT ![a] = Requeued(a)]
        /\ UNCHANGED <<payable, decision, op>>
      BY <1>0, <1>9 DEF Reconcile, Reconcilable, Decisions
  <2>2. /\ ResolvedAnswer(a) \in {"succeeded", "failed"}
        /\ ResolvedAnswer(a) = "failed" <=> decision[a] = "failed"
      BY <2>1 DEF ResolvedAnswer
  <2>3. p \in Payments /\ p.captured = 0 /\ p.refunded = 0 /\ p.status = decision[a]
      BY <2>1 DEF Payments, PayStatuses, Amounts
  <2>4. Requeued(a) \in ReconStatuses
      BY <1>0 DEF Requeued, ReconStatuses
  <2>5. TypeOK'
      BY <1>0, <2>1, <2>2, <2>3, <2>4 DEF TypeOK, Answers
  <2>6. pay'[a] = p /\ answer'[a] = ResolvedAnswer(a)
        /\ \A b \in AuthIds \ {a} : pay'[b] = pay[b] /\ answer'[b] = answer[b]
      BY <1>0, <2>1
  <2>7. BalancesMatchOperations'
    <3>1. pay[a].captured = 0 /\ pay[a].refunded = 0
        BY <1>1, <1>2, <2>1 DEF Explained
    <3>2. \A b \in AuthIds : pay'[b].captured = pay[b].captured /\ pay'[b].refunded = pay[b].refunded
        BY <2>3, <2>6, <3>1
    <3>3. QED
        BY <1>4, <1>5, <2>1, <3>2 DEF BalancesMatchOperations
  <2>8. Explained(a, pay'[a]) /\ Agreed(pay'[a], decision'[a], answer'[a])
      BY <2>1, <2>2, <2>3, <2>6, TotalInRange DEF Explained, Agreed
  <2>9. Bars(a, pay[a])
      BY <2>1 DEF Bars
  <2>10. QED
      BY <2>1, <2>5, <2>6, <2>7, <2>8, <2>9, OnePaymentMoves
<1>10. ASSUME NEW r \in OpIds, NEW k \in {"capture", "void", "refund"}, NEW a \in AuthIds,
              NEW n \in 0..MaxAmount, NEW x \in {"succeeded", "refused"}, Unused(r),
              op' = [op EXCEPT ![r] = Stored(k, a, n, x)],
              NEW p \in Payments, pay' = [pay EXCEPT ![a] = p],
              p.captured = pay[a].captured + IF k = "capture" THEN n ELSE 0,
              p.refunded = pay[a].refunded + IF k = "refund" THEN n ELSE 0,
              Explained(a, p), Agreed(p, decision[a], answer[a]),
              Bars(a, p) => Bars(a, pay[a]),
              UNCHANGED <<payable, decision, answer, recon>>
       PROVE  IInv'
  <2>1. pay'[a] = p /\ \A b \in AuthIds \ {a} : pay'[b] = pay[b]
      BY <1>0, <1>10
  <2>2. Stored(k, a, n, x) \in Ops
      BY DEF Stored, Ops, Amounts
  <2>3. TypeOK'
      BY <1>0, <1>10, <2>2 DEF TypeOK
  <2>4. BalancesMatchOperations'
    <3> SUFFICES ASSUME NEW b \in AuthIds
                 PROVE  /\ pay'[b].captured = Cardinality(Moved(b, "capture")')
                        /\ pay'[b].refunded = Cardinality(Moved(b, "refund")')
        BY DEF BalancesMatchOperations
    <3>1. TypeOK
        BY DEF IInv
    <3>2. Stores(r, k, a, n, x)
        BY <1>10 DEF Stores
    <3>a. ASSUME NEW kind \in {"capture", "refund"}
          PROVE  /\ b = a /\ kind = k =>
                      Cardinality(Moved(b, kind)') = Cardinality(Moved(b, kind)) + n
                 /\ ~(b = a /\ kind = k) => Cardinality(Moved(b, kind)') = Cardinality(Moved(b, kind))
        BY <3>1, <3>2, StoredMoves
    <3>3. CASE b = a
        BY <1>5, <1>1, <1>10, <2>1, <3>a, <3>3
    <3>4. CASE b # a
        BY <1>1, <1>5, <2>1, <3>a, <3>4
    <3>5. QED
        BY <3>3, <3>4
  <2>5. QED
      BY <1>10, <2>1, <2>3, <2>4, OnePaymentMoves
<1>11. ASSUME NEW r \in OpIds, NEW a \in AuthIds, NEW n \in 1..MaxAmount, Capture(r, a, n) PROVE IInv'
  <2> DEFINE c == pay[a].captured + n
             s == StatusForBalances(Total(a), c, pay[a].refunded)
             p == [status |-> s, captured |-> c, refunded |-> pay[a].refunded]
  <2>1. /\ Unused(r) /\ decision[a] = "authorized" /\ n \in 1..(Total(a) - pay[a].captured)
        /\ pay[a].status \in {"authorized", "partially_refunded", "refunded"}
        /\ pay' = [pay EXCEPT ![a] = p]
        /\ op' = [op EXCEPT ![r] = Stored("capture", a, n, "succeeded")]
        /\ UNCHANGED <<payable, decision, answer, recon>>
      BY <1>11 DEF Capture, Captureable, Proof, Remaining
  <2>2. /\ c \in 1..Total(a) /\ c \in 0..MaxAmount /\ c > pay[a].refunded /\ pay[a].captured < Total(a)
      BY <1>1, <1>2, <2>1, TotalInRange DEF Explained
  <2>3. /\ s \in {"authorized", "captured", "partially_refunded"}
        /\ s = "captured" => c = Total(a) /\ pay[a].refunded = 0
        /\ s = "partially_refunded" => pay[a].refunded > 0
    <3>1. CASE pay[a].refunded > 0
        BY <1>1, <2>2, <3>1 DEF StatusForBalances
    <3>2. CASE ~(pay[a].refunded > 0)
        BY <1>1, <2>2, <3>2, TotalInRange DEF StatusForBalances
    <3>3. QED
        BY <3>1, <3>2
  <2>4. p \in Payments /\ p.captured = c /\ p.refunded = pay[a].refunded /\ p.status = s
      BY <1>1, <2>2, <2>3 DEF Payments, PayStatuses, Amounts
  <2> HIDE DEF p, s, c
  <2>5. Explained(a, p)
      BY <1>1, <2>2, <2>3, <2>4, TotalInRange DEF Explained
  <2>6. Agreed(p, decision[a], answer[a])
    <3>1. Agreed(pay[a], decision[a], answer[a])
        BY <1>3
    <3>2. QED
        BY <2>1, <2>3, <2>4, <3>1 DEF Agreed
  <2>7. Bars(a, pay[a])
      BY <2>1, <2>2 DEF Bars
  <2>8. n \in 0..MaxAmount /\ p.captured = pay[a].captured + n /\ p.refunded = pay[a].refunded + 0
      BY <1>1, <2>4 DEF c
  <2>9. QED
      BY <1>10, <2>1, <2>4, <2>5, <2>6, <2>7, <2>8
<1>12. ASSUME NEW r \in OpIds, NEW a \in AuthIds, NEW n \in 1..MaxAmount, Refund(r, a, n) PROVE IInv'
  <2> DEFINE f == pay[a].refunded + n
             s == StatusForBalances(Total(a), pay[a].captured, f)
             p == [status |-> s, captured |-> pay[a].captured, refunded |-> f]
  <2>1. /\ Unused(r) /\ decision[a] = "authorized" /\ n \in 1..(pay[a].captured - pay[a].refunded)
        /\ pay[a].status \in {"authorized", "captured", "partially_refunded", "refunded"}
        /\ pay' = [pay EXCEPT ![a] = p]
        /\ op' = [op EXCEPT ![r] = Stored("refund", a, n, "succeeded")]
        /\ UNCHANGED <<payable, decision, answer, recon>>
      BY <1>12 DEF Refund, Refundable, Proof
  <2>2. /\ f \in 1..pay[a].captured /\ f \in 0..MaxAmount /\ pay[a].captured > pay[a].refunded
      BY <1>1, <2>1
  <2>3. s = IF f = pay[a].captured THEN "refunded" ELSE "partially_refunded"
      BY <1>1, <2>2 DEF StatusForBalances
  <2>4. p \in Payments /\ p.captured = pay[a].captured /\ p.refunded = f /\ p.status = s
      BY <1>1, <2>2, <2>3 DEF Payments, PayStatuses, Amounts
  <2> HIDE DEF p, s, f
  <2>5. Explained(a, p)
      BY <1>1, <1>2, <2>2, <2>3, <2>4, TotalInRange DEF Explained
  <2>6. Agreed(p, decision[a], answer[a])
    <3>1. Agreed(pay[a], decision[a], answer[a])
        BY <1>3
    <3>2. QED
        BY <2>1, <2>3, <2>4, <3>1 DEF Agreed
  <2>7. Bars(a, pay[a])
    <3>1. pay[a].status # "refunded"
        BY <1>1, <1>2, <2>2 DEF Explained
    <3>2. QED
        BY <2>1, <3>1 DEF Bars
  <2>8. n \in 0..MaxAmount /\ p.captured = pay[a].captured + 0 /\ p.refunded = pay[a].refunded + n
      BY <1>1, <2>4 DEF f
  <2>9. QED
      BY <1>10, <2>1, <2>4, <2>5, <2>6, <2>7, <2>8
<1>13. ASSUME NEW r \in OpIds, NEW a \in AuthIds, Void(r, a) PROVE IInv'
  <2> DEFINE p == [status |-> "voided", captured |-> pay[a].captured, refunded |-> pay[a].refunded]
  <2>1. /\ Unused(r) /\ pay[a].status = "authorized" /\ pay[a].captured = 0
        /\ pay' = [pay EXCEPT ![a] = p]
        /\ op' = [op EXCEPT ![r] = Stored("void", a, 0, "succeeded")]
        /\ UNCHANGED <<payable, decision, answer, recon>>
      BY <1>13 DEF Void, Voidable
  <2>2. p \in Payments /\ p.captured = pay[a].captured /\ p.refunded = pay[a].refunded
        /\ p.status = "voided"
      BY <1>1 DEF Payments, PayStatuses, Amounts
  <2> HIDE DEF p
  <2>3. Explained(a, p)
      BY <1>1, <1>2, <2>1, <2>2, TotalInRange DEF Explained
  <2>4. Agreed(p, decision[a], answer[a])
    <3>1. Agreed(pay[a], decision[a], answer[a])
        BY <1>3
    <3>2. QED
        BY <2>1, <2>2, <3>1 DEF Agreed
  <2>5. Bars(a, pay[a])
      BY <2>1 DEF Bars
  <2>6. 0 \in 0..MaxAmount /\ p.captured = pay[a].captured + 0 /\ p.refunded = pay[a].refunded + 0
      BY <1>1, <2>2
  <2>7. QED
      BY <1>10, <2>1, <2>2, <2>3, <2>4, <2>5, <2>6
<1>14. ASSUME NEW r \in OpIds, NEW a \in AuthIds, NEW k \in {"capture", "void", "refund"}, Refuse(r, a, k)
       PROVE  IInv'
  <2>1. /\ Unused(r) /\ op' = [op EXCEPT ![r] = Stored(k, a, 0, "refused")]
        /\ UNCHANGED <<payable, pay, decision, answer, recon>>
      BY <1>14 DEF Refuse
  <2>2. pay' = [pay EXCEPT ![a] = pay[a]] /\ pay[a] \in Payments
      BY <1>0, <2>1
  <2>3. Explained(a, pay[a]) /\ Agreed(pay[a], decision[a], answer[a])
      BY <1>2, <1>3
  <2>4. /\ 0 \in 0..MaxAmount
        /\ pay[a].captured = pay[a].captured + IF k = "capture" THEN 0 ELSE 0
        /\ pay[a].refunded = pay[a].refunded + IF k = "refund" THEN 0 ELSE 0
      BY <1>1
  <2>5. QED
      BY <1>10, <2>1, <2>2, <2>3, <2>4
<1>15. ASSUME UNCHANGED <<pay, decision, answer, op>>, payable' \subseteq Orders,
              recon' \in [AuthIds -> ReconStatuses]
       PROVE  IInv'
  <2>1. TypeOK'
      BY <1>0, <1>15 DEF TypeOK
  <2>2. BalancesMatchOperations'
      BY <1>4, <1>5, <1>15 DEF BalancesMatchOperations
  <2>3. BalancesExplainStatus' /\ OneActivePayment' /\ AnswerAgreesWithPayment' /\ UnansweredIsAbsent'
      BY <1>15 DEF IInv, BalancesExplainStatus, OneActivePayment, AnswerAgreesWithPayment,
                   UnansweredIsAbsent, Active, Total, Proof
  <2>4. QED
      BY <2>1, <2>2, <2>3 DEF IInv
<1>16. ASSUME NEW o \in Orders, OrderCloses(o) PROVE IInv'
    BY <1>0, <1>15, <1>16 DEF OrderCloses
<1>17. ASSUME NEW a \in AuthIds, NEW s \in ReconStatuses, CheckoutMoves(a, s) PROVE IInv'
    BY <1>0, <1>15, <1>17 DEF CheckoutMoves
<1>18. CASE UNCHANGED vars
    BY <1>0, <1>15, <1>18 DEF vars
<1>19. QED
    BY <1>6, <1>7, <1>8, <1>9, <1>11, <1>12, <1>13, <1>14, <1>16, <1>17, <1>18 DEF Next

-----------------------------------------------------------------------------
(* Payments, decisions and stored answers keep their types: no balance     *)
(* leaves the range of its order's total.                                  *)
THEOREM TypeCorrect == Spec => []TypeOK
<1>1. IInv => TypeOK
    BY DEF IInv
<1>2. QED
    BY InitIInv, NextIInv, <1>1, PTL DEF Spec

(* authorize leaves no order with two payments that hold or can still take *)
(* money, however they are captured, refunded, voided or reconciled        *)
(* (findByMerchantReference).                                              *)
THEOREM OneActivePaymentPerOrder == Spec => []OneActivePayment
<1>1. IInv => OneActivePayment
    BY DEF IInv
<1>2. QED
    BY InitIInv, NextIInv, <1>1, PTL DEF Spec

(* The captured and refunded balances are the sums of the stored           *)
(* operations, each request id once, and explain the status                *)
(* (executeIdempotently, statusForBalances).                               *)
THEOREM BalancesExact == Spec => []BalancesAddUp
<1>1. IInv => BalancesAddUp
    BY DEF IInv, BalancesAddUp
<1>2. QED
    BY InitIInv, NextIInv, <1>1, PTL DEF Spec

(* Funds move only on the provider's proof, and a repeated authorize is    *)
(* answered with what became of the payment (reconcilePending).            *)
THEOREM AnswersAgree == Spec => []AnswerAgreesWithPayment
<1>1. IInv => AnswerAgreesWithPayment
    BY DEF IInv
<1>2. QED
    BY InitIInv, NextIInv, <1>1, PTL DEF Spec

(* One step as SettledPaymentsStand wants it: of a payment, of the stored  *)
(* answer and of the stored operations.                                    *)
PaymentStands(a, p, q) ==
    /\ q.captured >= p.captured
    /\ q.refunded >= p.refunded
    /\ \/ p.status \in {"failed", "voided"}
       \/ p.status = "refunded" /\ p.captured = Total(a)
       => q = p
OperationsStand == \A r \in OpIds : op[r].kind # "none" => op'[r] = op[r]
AnswersStand == \A a \in AuthIds : answer[a] \notin {"none", "pending"} => answer'[a] = answer[a]

(* A step that touches one payment.                                        *)
LEMMA OnlyOnePayment ==
  ASSUME IInv, NEW a \in AuthIds, NEW q, PaymentStands(a, pay[a], q), pay' = [pay EXCEPT ![a] = q]
  PROVE  \A b \in AuthIds : PaymentStands(b, pay[b], pay'[b])
<1>1. pay'[a] = q /\ \A b \in AuthIds \ {a} : pay'[b] = pay[b]
    BY DEF IInv, TypeOK
<1>2. \A b \in AuthIds : pay[b].captured \in Nat /\ pay[b].refunded \in Nat
    BY DEF IInv, TypeOK, Payments, Amounts
<1>3. QED
    BY <1>1, <1>2 DEF PaymentStands

(* A step that leaves the payments alone.                                  *)
LEMMA NoPayment ==
  ASSUME IInv, pay' = pay
  PROVE  \A b \in AuthIds : PaymentStands(b, pay[b], pay'[b])
<1>1. \A b \in AuthIds : pay[b].captured \in Nat /\ pay[b].refunded \in Nat
    BY DEF IInv, TypeOK, Payments, Amounts
<1>2. QED
    BY <1>1 DEF PaymentStands

(* An operation is stored under a request id that had none.                *)
LEMMA StoredOnce ==
  ASSUME TypeOK, NEW r \in OpIds, NEW x, Unused(r), op' = [op EXCEPT ![r] = x]
  PROVE  OperationsStand
  BY DEF TypeOK, Unused, OperationsStand

(* Every step.                                                             *)
LEMMA NextStands ==
  ASSUME IInv, [Next]_vars
  PROVE  /\ \A a \in AuthIds : PaymentStands(a, pay[a], pay'[a])
         /\ OperationsStand /\ AnswersStand
<1>0. TypeOK
    BY DEF IInv
<1>1. \A a \in AuthIds : /\ pay[a].captured \in Nat /\ pay[a].refunded \in Nat
                         /\ pay[a].refunded <= pay[a].captured /\ pay[a].captured <= Total(a)
                         /\ Total(a) \in Nat
    BY TotalInRange DEF IInv, TypeOK, Payments, Amounts, BalancesExplainStatus
<1>2. ASSUME NEW a \in AuthIds, pay[a].status \in {"absent", "pending"}
      PROVE  pay[a].captured = 0 /\ pay[a].refunded = 0
    BY <1>1, <1>2 DEF IInv, BalancesExplainStatus
<1>3. ASSUME UNCHANGED <<pay, answer, op>>
      PROVE  /\ \A a \in AuthIds : PaymentStands(a, pay[a], pay'[a])
             /\ OperationsStand /\ AnswersStand
    BY <1>3, NoPayment DEF OperationsStand, AnswersStand
<1>4. ASSUME NEW a \in AuthIds, NEW o \in Outcomes, Authorize(a, o)
      PROVE  /\ \A b \in AuthIds : PaymentStands(b, pay[b], pay'[b])
             /\ OperationsStand /\ AnswersStand
  <2>1. PICK q : /\ q = [status |-> FirstStatus(o), captured |-> 0, refunded |-> 0]
                 /\ pay' = [pay EXCEPT ![a] = q]
      BY <1>4 DEF Authorize
  <2>2. answer[a] = "none" /\ op' = op /\ answer' = [answer EXCEPT ![a] = FirstAnswer(o)]
      BY <1>4 DEF Authorize
  <2>3. pay[a].status = "absent"
      BY <2>2 DEF IInv, UnansweredIsAbsent
  <2>4. pay[a].captured = 0 /\ pay[a].refunded = 0 /\ q.captured = 0 /\ q.refunded = 0
      BY <1>2, <2>1, <2>3
  <2>5. PaymentStands(a, pay[a], q)
      BY <2>3, <2>4 DEF PaymentStands
  <2>6. AnswersStand
      BY <1>0, <2>2 DEF AnswersStand, TypeOK
  <2>7. QED
      BY <2>1, <2>2, <2>5, <2>6, OnlyOnePayment DEF OperationsStand
<1>5. ASSUME NEW a \in AuthIds, AuthorizeRefused(a)
      PROVE  /\ \A b \in AuthIds : PaymentStands(b, pay[b], pay'[b])
             /\ OperationsStand /\ AnswersStand
  <2>1. answer[a] = "none" /\ op' = op /\ pay' = pay /\ answer' = [answer EXCEPT ![a] = "refused"]
      BY <1>5 DEF AuthorizeRefused
  <2>2. AnswersStand
      BY <1>0, <2>1 DEF AnswersStand, TypeOK
  <2>3. QED
      BY <2>1, <2>2, NoPayment DEF OperationsStand
<1>6. ASSUME NEW a \in AuthIds, Reconcile(a)
      PROVE  /\ \A b \in AuthIds : PaymentStands(b, pay[b], pay'[b])
             /\ OperationsStand /\ AnswersStand
  <2>1. PICK q : /\ q = [status |-> decision[a], captured |-> 0, refunded |-> 0]
                 /\ pay' = [pay EXCEPT ![a] = q]
      BY <1>6 DEF Reconcile
  <2>2. /\ pay[a].status = "pending" /\ op' = op
        /\ answer' = [answer EXCEPT ![a] = ResolvedAnswer(a)]
      BY <1>6 DEF Reconcile, Reconcilable
  <2>3. answer[a] = "pending"
      BY <2>2 DEF IInv, AnswerAgreesWithPayment
  <2>4. pay[a].captured = 0 /\ pay[a].refunded = 0 /\ q.captured = 0 /\ q.refunded = 0
      BY <1>2, <2>1, <2>2
  <2>5. PaymentStands(a, pay[a], q)
      BY <2>2, <2>4 DEF PaymentStands
  <2>6. AnswersStand
      BY <1>0, <2>2, <2>3 DEF AnswersStand, TypeOK
  <2>7. QED
      BY <2>1, <2>2, <2>5, <2>6, OnlyOnePayment DEF OperationsStand
<1>7. ASSUME NEW r \in OpIds, NEW a \in AuthIds, NEW n \in 1..MaxAmount, Capture(r, a, n)
      PROVE  /\ \A b \in AuthIds : PaymentStands(b, pay[b], pay'[b])
             /\ OperationsStand /\ AnswersStand
  <2>1. PICK s, q : /\ q = [status |-> s, captured |-> pay[a].captured + n, refunded |-> pay[a].refunded]
                    /\ pay' = [pay EXCEPT ![a] = q]
      BY <1>7 DEF Capture
  <2>2. /\ Unused(r) /\ answer' = answer
        /\ op' = [op EXCEPT ![r] = Stored("capture", a, n, "succeeded")]
        /\ Total(a) - pay[a].captured > 0
        /\ pay[a].status \in {"authorized", "partially_refunded", "refunded"}
      BY <1>7 DEF Capture, Captureable, Remaining
  <2>3. q.captured = pay[a].captured + n /\ q.refunded = pay[a].refunded
      BY <2>1
  <2>4. PaymentStands(a, pay[a], q)
      BY <1>1, <2>2, <2>3 DEF PaymentStands
  <2>5. OperationsStand
      BY <1>0, <2>2, StoredOnce
  <2>6. QED
      BY <2>1, <2>2, <2>4, <2>5, OnlyOnePayment DEF AnswersStand
<1>8. ASSUME NEW r \in OpIds, NEW a \in AuthIds, NEW n \in 1..MaxAmount, Refund(r, a, n)
      PROVE  /\ \A b \in AuthIds : PaymentStands(b, pay[b], pay'[b])
             /\ OperationsStand /\ AnswersStand
  <2>1. PICK s, q : /\ q = [status |-> s, captured |-> pay[a].captured, refunded |-> pay[a].refunded + n]
                    /\ pay' = [pay EXCEPT ![a] = q]
      BY <1>8 DEF Refund
  <2>2. /\ Unused(r) /\ answer' = answer
        /\ op' = [op EXCEPT ![r] = Stored("refund", a, n, "succeeded")]
        /\ pay[a].captured > pay[a].refunded
        /\ pay[a].status \in {"authorized", "captured", "partially_refunded", "refunded"}
      BY <1>8 DEF Refund, Refundable
  <2>3. pay[a].status # "refunded"
      BY <1>1, <2>2 DEF IInv, BalancesExplainStatus
  <2>4. q.captured = pay[a].captured /\ q.refunded = pay[a].refunded + n
      BY <2>1
  <2>5. PaymentStands(a, pay[a], q)
      BY <1>1, <2>2, <2>3, <2>4 DEF PaymentStands
  <2>6. OperationsStand
      BY <1>0, <2>2, StoredOnce
  <2>7. QED
      BY <2>1, <2>2, <2>5, <2>6, OnlyOnePayment DEF AnswersStand
<1>9. ASSUME NEW r \in OpIds, NEW a \in AuthIds, Void(r, a)
      PROVE  /\ \A b \in AuthIds : PaymentStands(b, pay[b], pay'[b])
             /\ OperationsStand /\ AnswersStand
  <2>1. PICK q : /\ q = [status |-> "voided", captured |-> pay[a].captured, refunded |-> pay[a].refunded]
                 /\ pay' = [pay EXCEPT ![a] = q]
      BY <1>9 DEF Void
  <2>2. /\ Unused(r) /\ answer' = answer /\ pay[a].status = "authorized"
        /\ op' = [op EXCEPT ![r] = Stored("void", a, 0, "succeeded")]
      BY <1>9 DEF Void, Voidable
  <2>3. q.captured = pay[a].captured /\ q.refunded = pay[a].refunded
      BY <2>1
  <2>4. PaymentStands(a, pay[a], q)
      BY <1>1, <2>2, <2>3 DEF PaymentStands
  <2>5. OperationsStand
      BY <1>0, <2>2, StoredOnce
  <2>6. QED
      BY <2>1, <2>2, <2>4, <2>5, OnlyOnePayment DEF AnswersStand
<1>10. ASSUME NEW r \in OpIds, NEW a \in AuthIds, NEW k \in {"capture", "void", "refund"}, Refuse(r, a, k)
       PROVE  /\ \A b \in AuthIds : PaymentStands(b, pay[b], pay'[b])
              /\ OperationsStand /\ AnswersStand
  <2>1. /\ Unused(r) /\ answer' = answer /\ pay' = pay
        /\ op' = [op EXCEPT ![r] = Stored(k, a, 0, "refused")]
      BY <1>10 DEF Refuse
  <2>2. OperationsStand
      BY <1>0, <2>1, StoredOnce
  <2>3. QED
      BY <2>1, <2>2, NoPayment DEF AnswersStand
<1>11. CASE UNCHANGED <<pay, answer, op>>
    BY <1>3, <1>11
<1>12. QED
    BY <1>4, <1>5, <1>6, <1>7, <1>8, <1>9, <1>10, <1>11
    DEF Next, ProviderDecides, OrderCloses, CheckoutMoves, vars

(* What callers were told of a payment stands (executeIdempotently,        *)
(* reconcilePending): balances only grow, a failed, voided or wholly       *)
(* refunded payment never moves again, and a stored answer or operation is *)
(* never changed, for any orders, request ids and interleaving.            *)
THEOREM SettledPaymentsDoStand == Spec => SettledPaymentsStand
<1>1. IInv /\ [Next]_vars =>
        [/\ \A a \in AuthIds :
              /\ pay'[a].captured >= pay[a].captured
              /\ pay'[a].refunded >= pay[a].refunded
              /\ \/ pay[a].status \in {"failed", "voided"}
                 \/ pay[a].status = "refunded" /\ pay[a].captured = Total(a)
                 => pay'[a] = pay[a]
              /\ answer[a] \notin {"none", "pending"} => answer'[a] = answer[a]
         /\ \A r \in OpIds : op[r].kind # "none" => op'[r] = op[r]]_vars
    BY NextStands DEF PaymentStands, OperationsStand, AnswersStand
<1>2. QED
    BY <1>1, InitIInv, NextIInv, PTL DEF Spec, SettledPaymentsStand
=============================================================================
