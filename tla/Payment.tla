------------------------------ MODULE Payment -------------------------------
(***************************************************************************)
(* The payment service: payments, the stored idempotent operations         *)
(* (payment_operation_requests), the provider's authorization decisions    *)
(* and the worker that reconciles pending payments.  Every call is one     *)
(* transaction and so one action: executeIdempotently runs the operation   *)
(* and stores its answer, success or refusal, under the request id.  A     *)
(* repeated request id replays that answer and changes nothing, unless it  *)
(* is a pending authorization, which the replay reconciles first.  A call  *)
(* that fails in the database rolls back; a transport fault of the         *)
(* provider leaves no row.                                                 *)
(*                                                                         *)
(* A payment id is a digest of its authorize request id, so a payment is   *)
(* named by that request id.                                               *)
(***************************************************************************)
EXTENDS Naturals, FiniteSets

CONSTANTS
    Orders,      \* orders of the checkout service
    Amount,      \* the total of an order, in minor units
    MaxAmount,   \* bound on the totals
    AuthIds,     \* authorize request ids, which are payment ids
    OrderOf,     \* the order an authorize request names
    OpIds        \* request ids of capture, void and refund calls

ASSUME PaymentAssumption ==
    /\ MaxAmount \in Nat
    /\ Amount \in [Orders -> 1..MaxAmount]
    /\ OrderOf \in [AuthIds -> Orders]
    /\ IsFiniteSet(OpIds)
    /\ AuthIds \cap OpIds = {}

VARIABLES
    payable,    \* the orders in status pending or confirmed
    pay,        \* payments
    decision,   \* payment_provider_authorization_decisions
    answer,     \* the stored answer of an authorize request
    op,         \* the stored capture, void or refund of a request id
    recon       \* checkout_payment_reconciliations of the authorize request

vars == <<payable, pay, decision, answer, op, recon>>

PayStatuses == {"absent", "pending", "authorized", "failed", "voided",
                "captured", "partially_refunded", "refunded"}
Amounts == 0..MaxAmount
Payments == [status : PayStatuses, captured : Amounts, refunded : Amounts]
Decisions == {"none", "authorized", "failed"}
Answers == {"none", "succeeded", "declined", "pending", "failed", "refused"}
\* "refused" is a stored PaymentRpcException.
Ops == [kind : {"none", "capture", "void", "refund"}, payment : AuthIds \cup OpIds,
        amount : Amounts, result : {"none", "succeeded", "refused"}]
\* What matters here of a reconciliation row: the provider step may requeue it.
ReconStatuses == {"none", "awaiting_provider", "queued", "processing"}

Init ==
    /\ payable = Orders
    /\ pay = [a \in AuthIds |-> [status |-> "absent", captured |-> 0, refunded |-> 0]]
    /\ decision = [a \in AuthIds |-> "none"]
    /\ answer = [a \in AuthIds |-> "none"]
    /\ op = [r \in OpIds |-> [kind |-> "none", payment |-> r, amount |-> 0, result |-> "none"]]
    /\ recon = [a \in AuthIds |-> "none"]

Total(a) == Amount[OrderOf[a]]

-----------------------------------------------------------------------------
\* Mutant: a partially captured, refunded payment is not active.
ActiveIgnoringRemainder(a) ==
    pay[a].status \in {"pending", "authorized", "captured", "partially_refunded"}

\* findByMerchantReference: the payments that bar another one of the order.
Active(a) ==
    \/ pay[a].status \in {"pending", "authorized", "captured", "partially_refunded"}
    \/ pay[a].status = "refunded" /\ pay[a].captured < Total(a)

\* The provider's answers (PaymentFaultPolicy): the payment's first status,
\* the decision row that exists from the start, the answer to the caller.
Outcomes == {"approve", "decline", "pend_authorized", "pend_failed", "pend_unknown"}
FirstStatus(o) ==
    CASE o = "approve" -> "authorized" [] o = "decline" -> "failed" [] OTHER -> "pending"
FirstDecision(o) ==
    CASE o \in {"approve", "pend_authorized"} -> "authorized"
      [] o = "pend_failed" -> "failed"
      [] OTHER -> "none"
FirstAnswer(o) ==
    CASE o = "approve" -> "succeeded" [] o = "decline" -> "declined" [] OTHER -> "pending"

(* authorize: one payment per payable order, created with the provider's   *)
(* decision when there is one.                                             *)
Authorize(a, o) ==
    /\ answer[a] = "none"
    /\ OrderOf[a] \in payable
    /\ \A b \in AuthIds : OrderOf[b] = OrderOf[a] => ~Active(b)
    /\ pay' = [pay EXCEPT ![a] = [status |-> FirstStatus(o), captured |-> 0, refunded |-> 0]]
    /\ decision' = [decision EXCEPT ![a] = FirstDecision(o)]
    /\ answer' = [answer EXCEPT ![a] = FirstAnswer(o)]
    /\ UNCHANGED <<payable, op, recon>>

(* authorize refused: the order is not payable or already has a payment. *)
AuthorizeRefused(a) ==
    /\ answer[a] = "none"
    /\ \/ OrderOf[a] \notin payable
       \/ \E b \in AuthIds : OrderOf[b] = OrderOf[a] /\ Active(b)
    /\ answer' = [answer EXCEPT ![a] = "refused"]
    /\ UNCHANGED <<payable, pay, decision, op, recon>>

(* The provider decides a payment it had left open. *)
ProviderDecides(a, d) ==
    /\ pay[a].status = "pending"
    /\ decision[a] = "none"
    /\ decision' = [decision EXCEPT ![a] = d]
    /\ UNCHANGED <<payable, pay, answer, op, recon>>

\* Mutant: the stored authorize answer keeps saying pending.
ResolvedAnswerKept(a) == answer[a]

ResolvedAnswer(a) == IF decision[a] = "authorized" THEN "succeeded" ELSE "failed"

\* requeueCheckoutReconciliation: only rows that wait or are queued.
Requeued(a) == IF recon[a] \in {"awaiting_provider", "queued"} THEN "queued" ELSE recon[a]

\* Without a decision the payment is only marked for manual reconciliation.
Reconcilable(a) == pay[a].status = "pending" /\ decision[a] # "none"

(* reconcilePending, run by the worker's tick, by GetPayment and by a      *)
(* repeated authorize: payment, stored answer and the checkout's           *)
(* reconciliation row change together.                                     *)
Reconcile(a) ==
    /\ Reconcilable(a)
    /\ pay' = [pay EXCEPT ![a] = [status |-> decision[a], captured |-> 0, refunded |-> 0]]
    /\ answer' = [answer EXCEPT ![a] = ResolvedAnswer(a)]
    /\ recon' = [recon EXCEPT ![a] = Requeued(a)]
    /\ UNCHANGED <<payable, decision, op>>

-----------------------------------------------------------------------------
\* Mutant: equal balances count as captured before the refund is looked at.
StatusForBalancesLate(total, captured, refunded) ==
    IF captured = total THEN "captured"
    ELSE IF refunded = captured /\ captured > 0 THEN "refunded"
    ELSE IF refunded > 0 THEN "partially_refunded"
    ELSE "authorized"

StatusForBalances(total, captured, refunded) ==
    IF refunded > 0
    THEN IF refunded = captured THEN "refunded" ELSE "partially_refunded"
    ELSE IF captured < total THEN "authorized" ELSE "captured"

Proof(a) == decision[a] = "authorized"

Remaining(a) == Total(a) - pay[a].captured

Captureable(a) ==
    /\ Proof(a)
    /\ Remaining(a) > 0
    /\ pay[a].status \in {"authorized", "partially_refunded", "refunded"}

Refundable(a) ==
    /\ Proof(a)
    /\ pay[a].captured > pay[a].refunded
    /\ pay[a].status \in {"authorized", "captured", "partially_refunded", "refunded"}

Voidable(a) == Proof(a) /\ pay[a].status = "authorized" /\ pay[a].captured = 0

\* Mutant: a repeated request id runs the operation again.
UnusedIgnored(r) == TRUE

\* executeIdempotently found no stored operation under the request id.
Unused(r) == op[r].kind = "none"

Stored(kind, a, amount, result) ==
    [kind |-> kind, payment |-> a, amount |-> amount, result |-> result]

(* capture of an amount, or of all that remains when the call names none. *)
Capture(r, a, amount) ==
    /\ Unused(r)
    /\ Captureable(a)
    /\ amount \in 1..Remaining(a)
    /\ LET captured == pay[a].captured + amount
       IN  pay' = [pay EXCEPT ![a] =
                     [status |-> StatusForBalances(Total(a), captured, pay[a].refunded),
                      captured |-> captured, refunded |-> pay[a].refunded]]
    /\ op' = [op EXCEPT ![r] = Stored("capture", a, amount, "succeeded")]
    /\ UNCHANGED <<payable, decision, answer, recon>>

Void(r, a) ==
    /\ Unused(r)
    /\ Voidable(a)
    /\ pay' = [pay EXCEPT ![a] = [status |-> "voided", captured |-> pay[a].captured,
                                  refunded |-> pay[a].refunded]]
    /\ op' = [op EXCEPT ![r] = Stored("void", a, 0, "succeeded")]
    /\ UNCHANGED <<payable, decision, answer, recon>>

Refund(r, a, amount) ==
    /\ Unused(r)
    /\ Refundable(a)
    /\ amount \in 1..(pay[a].captured - pay[a].refunded)
    /\ LET refunded == pay[a].refunded + amount
       IN  pay' = [pay EXCEPT ![a] =
                     [status |-> StatusForBalances(Total(a), pay[a].captured, refunded),
                      captured |-> pay[a].captured, refunded |-> refunded]]
    /\ op' = [op EXCEPT ![r] = Stored("refund", a, amount, "succeeded")]
    /\ UNCHANGED <<payable, decision, answer, recon>>

(* A refused operation stores its refusal: the request id is spent.        *)
(* Captures and refunds can always be refused, for an amount out of range  *)
(* or a wrong currency.                                                    *)
Refuse(r, a, kind) ==
    /\ Unused(r)
    /\ pay[a].status # "absent"
    /\ kind = "void" => ~Voidable(a)
    /\ op' = [op EXCEPT ![r] = Stored(kind, a, 0, "refused")]
    /\ UNCHANGED <<payable, pay, decision, answer, recon>>

-----------------------------------------------------------------------------
(* The checkout service pays or cancels the order. *)
OrderCloses(o) ==
    /\ o \in payable
    /\ payable' = payable \ {o}
    /\ UNCHANGED <<pay, decision, answer, op, recon>>

(* The checkout service registers, claims and reschedules its row. *)
CheckoutMoves(a, status) ==
    /\ answer[a] # "none"
    /\ status \in ReconStatuses \ {recon[a], "none"}
    /\ recon' = [recon EXCEPT ![a] = status]
    /\ UNCHANGED <<payable, pay, decision, answer, op>>

Next ==
    \/ \E a \in AuthIds, o \in Outcomes : Authorize(a, o)
    \/ \E a \in AuthIds : AuthorizeRefused(a) \/ Reconcile(a)
    \/ \E a \in AuthIds, d \in {"authorized", "failed"} : ProviderDecides(a, d)
    \/ \E r \in OpIds, a \in AuthIds, n \in 1..MaxAmount : Capture(r, a, n) \/ Refund(r, a, n)
    \/ \E r \in OpIds, a \in AuthIds : Void(r, a)
    \/ \E r \in OpIds, a \in AuthIds, k \in {"capture", "void", "refund"} : Refuse(r, a, k)
    \/ \E o \in Orders : OrderCloses(o)
    \/ \E a \in AuthIds, s \in ReconStatuses : CheckoutMoves(a, s)

Spec == Init /\ [][Next]_vars

-----------------------------------------------------------------------------
(* Statuses, amounts and stored answers in range. *)
TypeOK ==
    /\ payable \subseteq Orders
    /\ pay \in [AuthIds -> Payments]
    /\ decision \in [AuthIds -> Decisions]
    /\ answer \in [AuthIds -> Answers]
    /\ op \in [OpIds -> Ops]
    /\ recon \in [AuthIds -> ReconStatuses]

(* Money is neither invented nor given back twice, and the status that      *)
(* callers branch on says what the balances say.                            *)
BalancesExplainStatus ==
    \A a \in AuthIds :
        /\ pay[a].refunded <= pay[a].captured
        /\ pay[a].captured <= Total(a)
        /\ pay[a].status \in {"absent", "pending", "failed", "voided"} => pay[a].captured = 0
        /\ pay[a].status = "captured" => pay[a].captured = Total(a) /\ pay[a].refunded = 0
        /\ pay[a].status = "refunded" => pay[a].captured = pay[a].refunded /\ pay[a].captured > 0
        /\ pay[a].status = "partially_refunded" => pay[a].refunded \in 1..(pay[a].captured - 1)

(* An order never has two payments that hold or can still take money,       *)
(* whatever is voided, refunded in part or reconciled late.                 *)
OneActivePayment ==
    \A a, b \in AuthIds : (Active(a) /\ Active(b) /\ OrderOf[a] = OrderOf[b]) => a = b

\* The units moved by the successful stored operations of one kind.
Moved(a, kind) ==
    {u \in OpIds \X (1..MaxAmount) :
        op[u[1]].kind = kind /\ op[u[1]].payment = a /\ u[2] <= op[u[1]].amount}

(* The balances are exactly the sum of the stored operations: every request *)
(* id takes effect once, however often it is repeated.                      *)
BalancesMatchOperations ==
    \A a \in AuthIds :
        /\ pay[a].captured = Cardinality(Moved(a, "capture"))
        /\ pay[a].refunded = Cardinality(Moved(a, "refund"))

(* Money is neither invented nor moved twice: the balances are the sum of   *)
(* the operations, each request id once, and the status that callers branch *)
(* on says what the balances say, up to every boundary of partial captures  *)
(* and refunds.                                                             *)
BalancesAddUp == BalancesMatchOperations /\ BalancesExplainStatus

(* Funds move only on the provider's proof, and the answer stored for a     *)
(* repeated authorize agrees with the payment: it says pending exactly as   *)
(* long as the payment is, although the provider decides, a worker          *)
(* reconciles and captures, voids and refunds run between the first call    *)
(* and its repetition.                                                      *)
AnswerAgreesWithPayment ==
    \A a \in AuthIds :
        /\ pay[a].captured > 0 => Proof(a)
        /\ answer[a] = "pending" <=> pay[a].status = "pending"
        /\ answer[a] \in {"declined", "failed"} <=> pay[a].status = "failed"
        /\ answer[a] = "refused" => pay[a].status = "absent"

(* What callers were told of a payment stands, whoever works on it          *)
(* meanwhile: the balances never go down, a payment that failed, was voided *)
(* or was refunded to its total never moves again, a stored answer other    *)
(* than pending is what every repetition gets, and a stored operation is    *)
(* never run or answered differently.  The checkout saga builds on it.      *)
SettledPaymentsStand ==
    [][/\ \A a \in AuthIds :
            /\ pay'[a].captured >= pay[a].captured
            /\ pay'[a].refunded >= pay[a].refunded
            /\ \/ pay[a].status \in {"failed", "voided"}
               \/ pay[a].status = "refunded" /\ pay[a].captured = Total(a)
               => pay'[a] = pay[a]
            /\ answer[a] \notin {"none", "pending"} => answer'[a] = answer[a]
       /\ \A r \in OpIds : op[r].kind # "none" => op'[r] = op[r]]_vars
=============================================================================
