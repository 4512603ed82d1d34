---------------------------- MODULE Fulfillment -----------------------------
(***************************************************************************)
(* The fulfillment consumer for one order.  Deliveries of the order's      *)
(* events arrive from RabbitMQ at least once and in any order; those that  *)
(* ask for the same operation, fulfillment or cancellation, share one      *)
(* claim row.  The owner of the claim changes the order, queues two        *)
(* effects (a downstream event and a notification) in the same             *)
(* transaction, and then claims, dispatches and publishes them.            *)
(*                                                                         *)
(* A claim, and the claim of an effect, is made under a fresh token.  The  *)
(* attempts column grows with every claim, so its value stands for the     *)
(* token.  orders.updated_at, the aggregate version of an effect, changes  *)
(* exactly when the status does, so the status test stands for both.       *)
(* A lease is live or has run out.                                         *)
(***************************************************************************)
EXTENDS Naturals, FiniteSets

CONSTANTS
    Messages,      \* deliveries of the order's events
    OpOf,          \* the operation each of them asks for
    Workers,       \* listener threads of all replicas
    MaxAttempts,   \* MAX_CLAIM_ATTEMPTS
    MaxFaults,     \* bound: failed calls, database errors, crashes
    MayCrash       \* whether replicas die in this instance

Ops == {"fulfillment", "cancellation"}
Kinds == {"event", "notification"}
Effects == Ops \X Kinds

ASSUME FulfillmentAssumption ==
    /\ OpOf \in [Messages -> Ops]
    /\ MaxAttempts \in Nat \ {0}
    /\ MaxFaults \in Nat
    /\ MayCrash \in BOOLEAN

VARIABLES
    order,      \* orders.status
    shipment,   \* shipments.status of shipment 1
    claim,      \* fulfillment_processed_events
    effect,     \* fulfillment_effects
    sent,       \* how often the downstream services received an effect
    queue,      \* where each delivery is
    worker,     \* the listener threads
    faults

vars == <<order, shipment, claim, effect, sent, queue, worker, faults>>
orders == <<order, shipment>>

NoClaim == [status |-> "none", attempts |-> 0, live |-> FALSE]
None == "none"
NoToken == [k \in Kinds |-> 0]

(* A thread's position, its delivery, the token of its claim, the effects  *)
(* it still has to send with their tokens, the effect in hand, the retries *)
(* it has made, and whether the last error was permanent.                  *)
Idle == [pc |-> "idle", msg |-> None, lease |-> 0, batch |-> {}, token |-> NoToken,
         active |-> None, tries |-> 0, permanent |-> FALSE]

Rows(states) == [status : states, attempts : 0..MaxAttempts, live : BOOLEAN]

TypeOK ==
    /\ order \in {"paid", "processing", "shipped", "cancelled"}
    /\ shipment \in {"none", "label_created", "cancelled"}
    /\ claim \in [Ops -> Rows({"none", "processing", "failed", "completed", "dead_lettered"})]
    /\ effect \in [Effects -> Rows({"none", "queued", "publishing", "published",
                                    "cancelled", "failed"})]
    /\ sent \in [Effects -> 0..MaxAttempts]
    /\ queue \in [Messages -> {"queued", "held", "acked", "dead"}]
    /\ worker \in [Workers ->
         [pc : {"idle", "claim", "process", "effects", "validate", "dispatch", "publish",
                "complete", "ack", "release", "mark"},
          msg : Messages \cup {None}, lease : 0..MaxAttempts, batch : SUBSET Kinds,
          token : [Kinds -> 0..MaxAttempts], active : Kinds \cup {None},
          tries : 0..(MaxAttempts - 1), permanent : BOOLEAN]]
    /\ faults \in 0..MaxFaults

Init ==
    /\ order \in {"paid", "shipped"}
    /\ shipment = "none"
    /\ claim = [o \in Ops |-> NoClaim]
    /\ effect = [e \in Effects |-> NoClaim]
    /\ sent = [e \in Effects |-> 0]
    /\ queue = [m \in Messages |-> "queued"]
    /\ worker = [w \in Workers |-> Idle]
    /\ faults = MaxFaults

Op(w) == OpOf[worker[w].msg]
At(w, step) == worker[w].pc = step
Go(w, step) == worker' = [worker EXCEPT ![w].pc = step]

\* An error leaves the loop over the effects.
GiveUp(w) ==
    worker' = [worker EXCEPT ![w].pc = "mark", ![w].batch = {}, ![w].token = NoToken,
                             ![w].active = None]

\* The delivery leaves the thread: acknowledged, rejected or back in the queue.
Settle(w, outcome) ==
    /\ queue' = [queue EXCEPT ![worker[w].msg] = outcome]
    /\ worker' = [worker EXCEPT ![w] = Idle]

(* A failed call or a database error: a bounded number of them. *)
Fault == faults > 0 /\ faults' = faults - 1

-----------------------------------------------------------------------------
(* acquireClaim. *)

Deliver(w, m) ==
    /\ At(w, "idle")
    /\ queue[m] = "queued"
    /\ queue' = [queue EXCEPT ![m] = "held"]
    /\ worker' = [worker EXCEPT ![w] = [Idle EXCEPT !.pc = "claim", !.msg = m]]
    /\ UNCHANGED <<orders, claim, effect, sent, faults>>

\* Mutant: a claim whose owner died is never given up.
AbandonedNever(c) == c.status = "failed"

\* A failed attempt, or one whose lease ran out.
Abandoned(c) == c.status = "failed" \/ (c.status = "processing" /\ ~c.live)

Claim(w) ==
    LET c == claim[Op(w)]
    IN  /\ At(w, "claim")
        /\ c.status = "none" \/ (Abandoned(c) /\ c.attempts < MaxAttempts)
        /\ claim' = [claim EXCEPT ![Op(w)] =
                       [status |-> "processing", attempts |-> c.attempts + 1, live |-> TRUE]]
        /\ worker' = [worker EXCEPT ![w].pc = "process", ![w].lease = c.attempts + 1]
        /\ UNCHANGED <<orders, effect, sent, queue, faults>>

(* The claim is used up: it becomes dead_lettered and the delivery is      *)
(* rejected.                                                               *)
ClaimExhausted(w) ==
    /\ At(w, "claim")
    /\ Abandoned(claim[Op(w)]) /\ claim[Op(w)].attempts >= MaxAttempts
    /\ claim' = [claim EXCEPT ![Op(w)].status = "dead_lettered", ![Op(w)].live = FALSE]
    /\ Settle(w, "dead")
    /\ UNCHANGED <<orders, effect, sent, faults>>

\* Mutant: a delivery whose claim another thread holds counts as a duplicate.
DecisionActiveAcked(c) ==
    CASE c.status \in {"completed", "processing"} -> "acked"
      [] c.status = "dead_lettered" -> "dead"

\* A delivery that meets a live claim waits in the retry queue until the lease
\* would have run out, and comes back.
Decision(c) ==
    CASE c.status = "completed" -> "acked"
      [] c.status = "dead_lettered" -> "dead"
      [] c.status = "processing" -> "queued"

ClaimRefused(w) ==
    LET c == claim[Op(w)]
    IN  /\ At(w, "claim")
        /\ c.status # "none" /\ ~Abandoned(c)
        /\ Settle(w, Decision(c))
        /\ UNCHANGED <<orders, claim, effect, sent, faults>>

-----------------------------------------------------------------------------
(* processOrderInTransaction. *)

\* The order is not terminal, and is not shipped under another owner.
Fulfillable == order \in {"paid", "processing"}

\* Mutant: a claimed effect is left alone.
SupersededUnclaimed ==
    [e \in Effects |->
       IF e[1] = "fulfillment" /\ effect[e].status \in {"queued", "failed"}
       THEN [effect[e] EXCEPT !.status = "cancelled", !.live = FALSE]
       ELSE effect[e]]

\* cancelOrder, on the effects.
Superseded ==
    [e \in Effects |->
       IF e[1] = "fulfillment" /\ effect[e].status \in {"queued", "publishing", "failed"}
       THEN [effect[e] EXCEPT !.status = "cancelled", !.live = FALSE]
       ELSE effect[e]]

\* Mutant: an effect that exists is queued afresh.
QueuedAgain(op, effects) ==
    [e \in Effects |-> IF e[1] = op THEN [NoClaim EXCEPT !.status = "queued"] ELSE effects[e]]

\* queueEffects: an effect that exists is kept.
Queued(op, effects) ==
    [e \in Effects |->
       IF e[1] = op /\ effects[e].status = "none"
       THEN [NoClaim EXCEPT !.status = "queued"] ELSE effects[e]]

Fulfill ==
    /\ order' = "processing"
    /\ shipment' = IF shipment = "none" THEN "label_created" ELSE shipment
    /\ effect' = Queued("fulfillment", effect)

Cancel ==
    /\ order' = "cancelled"
    /\ shipment' = IF shipment = "label_created" THEN "cancelled" ELSE shipment
    /\ effect' = Queued("cancellation", Superseded)

Apply(op) ==
    CASE op = "fulfillment" /\ Fulfillable -> Fulfill
      [] op = "cancellation" /\ order \in {"paid", "processing"} -> Cancel
      [] OTHER -> UNCHANGED <<orders, effect>>

(* The transaction commits; or it fails, perhaps after the commit; or the  *)
(* event contradicts the order or its payment, which is permanent.         *)
Process(w) ==
    /\ At(w, "process")
    /\ \/ Apply(Op(w)) /\ Go(w, "effects") /\ UNCHANGED faults
       \/ /\ Apply(Op(w)) \/ UNCHANGED <<orders, effect>>
          /\ GiveUp(w) /\ Fault
       \/ /\ worker' = [worker EXCEPT ![w].pc = "mark", ![w].permanent = TRUE]
          /\ Fault
          /\ UNCHANGED <<orders, effect>>
    /\ UNCHANGED <<claim, sent, queue>>

-----------------------------------------------------------------------------
(* The effects. *)

\* The claim is still this thread's: the test of every later statement.
Holds(w) ==
    LET c == claim[Op(w)]
    IN  c.status = "processing" /\ c.attempts = worker[w].lease /\ c.live

OpenFor(op) ==
    IF op = "cancellation" THEN order = "cancelled" ELSE order \in {"paid", "processing"}

Due(e) ==
    /\ effect[e].attempts < MaxAttempts
    /\ \/ effect[e].status = "queued"
       \/ effect[e].status = "publishing" /\ ~effect[e].live

(* renewLease, then claimEffects: all effects of the operation that are    *)
(* due, in one statement.  An effect that is being published is not due.   *)
ClaimEffects(w) ==
    LET due == {k \in Kinds : OpenFor(Op(w)) /\ Due(<<Op(w), k>>)}
    IN  /\ At(w, "effects")
        /\ \/ /\ Holds(w)
              /\ effect' = [e \in Effects |->
                   IF e[1] = Op(w) /\ e[2] \in due
                   THEN [status |-> "publishing", attempts |-> effect[e].attempts + 1,
                         live |-> TRUE]
                   ELSE effect[e]]
              /\ worker' = [worker EXCEPT ![w].batch = due,
                   ![w].token = [k \in Kinds |->
                                   IF k \in due THEN effect[<<Op(w), k>>].attempts + 1 ELSE 0],
                   ![w].pc = IF due = {} THEN "complete" ELSE "validate"]
           \/ ~Holds(w) /\ GiveUp(w) /\ UNCHANGED effect
        /\ UNCHANGED <<orders, claim, sent, queue, faults>>

\* The effect is this thread's to publish.
EffectHeld(w, k) ==
    LET e == effect[<<Op(w), k>>]
    IN  /\ e.status = "publishing" /\ e.attempts = worker[w].token[k] /\ e.live
        /\ OpenFor(Op(w))
        /\ Holds(w)

(* validateEffectClaim, for the next effect of the batch. *)
Validate(w, k) ==
    /\ At(w, "validate")
    /\ k \in worker[w].batch
    /\ worker' = [worker EXCEPT ![w].active = k,
                                ![w].pc = IF EffectHeld(w, k) THEN "dispatch" ELSE "release"]
    /\ UNCHANGED <<orders, claim, effect, sent, queue, faults>>

Sent(w) == [sent EXCEPT ![<<Op(w), worker[w].active>>] = @ + 1]

(* dispatch, outside any transaction: the effect arrives; or the call      *)
(* fails, arrived or not; or the heartbeat has seen the claim lost.        *)
Dispatch(w) ==
    /\ At(w, "dispatch")
    /\ \/ sent' = Sent(w) /\ Go(w, "publish") /\ UNCHANGED faults
       \/ sent' \in {sent, Sent(w)} /\ Go(w, "release") /\ Fault
       \/ ~Holds(w) /\ Go(w, "release") /\ UNCHANGED <<sent, faults>>
    /\ UNCHANGED <<orders, claim, effect, queue>>

\* Mutant: published by whoever dispatched it.
CanPublishUnfenced(w) == TRUE

CanPublish(w) == EffectHeld(w, worker[w].active)

(* publishEffect. *)
Publish(w) ==
    LET k == worker[w].active
        rest == worker[w].batch \ {k}
    IN  /\ At(w, "publish")
        /\ \/ /\ CanPublish(w)
              /\ effect' = [effect EXCEPT ![<<Op(w), k>>].status = "published",
                                          ![<<Op(w), k>>].live = FALSE]
              /\ worker' = [worker EXCEPT ![w].batch = rest, ![w].active = None,
                              ![w].token[k] = 0,
                              ![w].pc = IF rest = {} THEN "complete" ELSE "validate"]
           \/ ~CanPublish(w) /\ Go(w, "release") /\ UNCHANGED effect
        /\ UNCHANGED <<orders, claim, sent, queue, faults>>

(* markCompleted, then the acknowledgement. *)
Complete(w) ==
    /\ At(w, "complete")
    /\ \/ /\ Holds(w)
          /\ claim' = [claim EXCEPT ![Op(w)].status = "completed", ![Op(w)].live = FALSE]
          /\ Go(w, "ack")
       \/ ~Holds(w) /\ GiveUp(w) /\ UNCHANGED claim
    /\ UNCHANGED <<orders, effect, sent, queue, faults>>

Ack(w) ==
    /\ At(w, "ack")
    /\ Settle(w, "acked")
    /\ UNCHANGED <<orders, claim, effect, sent, faults>>

-----------------------------------------------------------------------------
(* Failure. *)

(* releaseEffect: only the effect in hand, if its claim is still ours. *)
Release(w) ==
    LET e == <<Op(w), worker[w].active>>
    IN  /\ At(w, "release")
        /\ effect' =
             IF effect[e].status = "publishing" /\ effect[e].attempts = worker[w].token[e[2]]
             THEN [effect EXCEPT ![e].live = FALSE,
                     ![e].status = IF effect[e].attempts >= MaxAttempts
                                   THEN "failed" ELSE "queued"]
             ELSE effect
        /\ GiveUp(w)
        /\ UNCHANGED <<orders, claim, sent, queue, faults>>

\* The listener retries the delivery on the same thread.
RetriesLeft(w) == worker[w].tries < MaxAttempts - 1

(* markFailed, then a retry or the dead-letter queue. *)
MarkFailed(w) ==
    LET c == claim[Op(w)]
        spent == worker[w].permanent \/ c.attempts >= MaxAttempts
        owned == /\ c.status = "processing" /\ c.attempts = worker[w].lease
                 /\ worker[w].permanent \/ c.live
        retry == ~(owned /\ worker[w].permanent) /\ RetriesLeft(w)
    IN  /\ At(w, "mark")
        /\ claim' = IF owned
                    THEN [claim EXCEPT ![Op(w)].live = FALSE,
                            ![Op(w)].status = IF spent THEN "dead_lettered" ELSE "failed"]
                    ELSE claim
        /\ \/ /\ retry
              /\ worker' = [worker EXCEPT ![w] = [Idle EXCEPT !.pc = "claim",
                              !.msg = worker[w].msg, !.tries = worker[w].tries + 1]]
              /\ UNCHANGED queue
           \/ ~retry /\ Settle(w, "dead")
        /\ UNCHANGED <<orders, effect, sent, faults>>

(* A replica dies: the broker delivers its message again. *)
Crash(w) ==
    /\ MayCrash
    /\ worker[w].pc # "idle"
    /\ Fault
    /\ Settle(w, "queued")
    /\ UNCHANGED <<orders, claim, effect, sent>>

ExpireClaim(o) ==
    /\ claim[o].status = "processing" /\ claim[o].live
    /\ claim' = [claim EXCEPT ![o].live = FALSE]
    /\ UNCHANGED <<orders, effect, sent, queue, worker, faults>>

ExpireEffect(e) ==
    /\ effect[e].status = "publishing" /\ effect[e].live
    /\ effect' = [effect EXCEPT ![e].live = FALSE]
    /\ UNCHANGED <<orders, claim, sent, queue, worker, faults>>

-----------------------------------------------------------------------------
WorkerStep(w) ==
    \/ Claim(w) \/ ClaimExhausted(w) \/ ClaimRefused(w) \/ Process(w) \/ ClaimEffects(w)
    \/ \E k \in Kinds : Validate(w, k)
    \/ Dispatch(w) \/ Publish(w) \/ Complete(w) \/ Ack(w) \/ Release(w) \/ MarkFailed(w)

Settled == \A m \in Messages : queue[m] \in {"acked", "dead"}

\* Every delivery is settled; nothing else is left to do.
Finished == Settled /\ UNCHANGED vars

Next ==
    \/ \E w \in Workers : \/ \E m \in Messages : Deliver(w, m)
                          \/ WorkerStep(w)
                          \/ Crash(w)
    \/ \E o \in Ops : ExpireClaim(o)
    \/ \E e \in Effects : ExpireEffect(e)
    \/ Finished

Spec == Init /\ [][Next]_vars

(* The broker delivers what is queued, threads go on, and the lease of a   *)
(* dead owner runs out.                                                    *)
Fairness ==
    /\ \A w \in Workers : WF_vars(WorkerStep(w))
    /\ \A m \in Messages : SF_vars(\E w \in Workers : Deliver(w, m))
    /\ \A o \in Ops : WF_vars(ExpireClaim(o))

FairSpec == Spec /\ Fairness

-----------------------------------------------------------------------------
(* Properties that hold. *)

(* No delivery is lost: one that is acknowledged was handled, by this or   *)
(* by another delivery of the same operation (basicAck in onOrder).        *)
AckedWasHandled ==
    \A m \in Messages : queue[m] = "acked" => claim[OpOf[m]].status = "completed"

(* cancelOrder closes the rows: a cancelled order has no label, and no     *)
(* fulfillment effect waits to be claimed or settled.  This is about the   *)
(* rows only; a thread that validated its effect before is spoken of in    *)
(* CancellationIsFinal.                                                    *)
CancelledRowsClosed ==
    order = "cancelled" =>
      /\ shipment # "label_created"
      /\ \A k \in Kinds :
           effect[<<"fulfillment", k>>].status \in {"none", "published", "cancelled"}

(* Copies are bounded: the downstream services receive an effect at most   *)
(* once per claim of it, and an effect counts as published only if it was  *)
(* sent.                                                                   *)
CopiesBounded ==
    \A e \in Effects :
      /\ sent[e] <= effect[e].attempts
      /\ effect[e].status = "published" => sent[e] > 0

\* The thread is past validateEffectClaim, with a fulfillment effect to send.
MaySend(w) == At(w, "dispatch") /\ Op(w) = "fulfillment"

(* Cancellation is final.  A late fulfillment event does not revive the    *)
(* order; no thread that cancelOrder overtook moves a fulfillment effect;  *)
(* and no thread passes validateEffectClaim with one any more, so that     *)
(* what still reaches the downstream services had been validated before    *)
(* the cancellation was committed.                                         *)
CancellationIsFinal ==
    [][order = "cancelled" =>
         /\ order' = "cancelled"
         /\ \A k \in Kinds :
              LET e == <<"fulfillment", k>>
              IN  effect'[e].status = effect[e].status
         /\ \A w \in Workers : MaySend(w)' => MaySend(w)]_vars

(* Every delivery is acknowledged or dead-lettered in the end, although    *)
(* threads die and claims are contended.                                   *)
DeliveriesSettle == \A m \in Messages : <>(queue[m] \in {"acked", "dead"})

-----------------------------------------------------------------------------
(* Properties one may expect, and the code does not keep. *)

(* A cancelled order sends nothing any more.  A thread between             *)
(* validateEffectClaim and dispatch is not told of the cancellation.       *)
NothingSentOnceCancelled ==
    [][order = "cancelled" =>
         \A k \in Kinds : sent'[<<"fulfillment", k>>] = sent[<<"fulfillment", k>>]]_vars

(* The effects are durable and the caller retries them: an operation that  *)
(* is completed has none left to send.                                     *)
CompletedHasSentEffects ==
    \A o \in Ops, k \in Kinds :
      claim[o].status = "completed" => effect[<<o, k>>].status \notin {"queued", "publishing"}
=============================================================================
