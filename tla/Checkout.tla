------------------------------ MODULE Checkout ------------------------------
(***************************************************************************)
(* The checkout saga: one checkout request, its attempt row with the       *)
(* generation and lease that fence it, the order, and everybody who works  *)
(* on them: the request handler of each generation, the payment            *)
(* reconciliation workers and the compensation workers of the service's    *)
(* replicas.  They drive two remote services, whose state (the payment and *)
(* the reservations of the order) is the record ext; what the services do  *)
(* with a call is detailed in Payment and Inventory.                       *)
(*                                                                         *)
(* One step is one database transaction, or one remote call with the fence *)
(* checks around it.  A call that fails may have had its effect, or may    *)
(* have it later (late), or never.  A handler that dies takes no further   *)
(* step.  A lease is live or it has run out; time itself is left out.      *)
(* Task status prepared, which a worker may claim just like queued, is     *)
(* merged into queued.                                                     *)
(***************************************************************************)
EXTENDS Naturals, FiniteSets

CONSTANTS
    ReconcileWorkers,    \* replicas that run a payment reconciliation loop
    CompensateWorkers,   \* replicas that run a compensation loop
    MaxGeneration,       \* bound: generations (lease tokens) of the attempt
    MaxReconcile,        \* PAYMENT_RECONCILIATION_MAX_ATTEMPTS
    MaxCompensate,       \* COMPENSATION_MAX_ATTEMPTS
    MaxFaults            \* bound: failed calls, database errors, worker crashes

ASSUME CheckoutAssumption ==
    /\ MaxGeneration \in Nat \ {0}
    /\ MaxReconcile \in Nat \ {0}
    /\ MaxCompensate \in Nat \ {0}
    /\ MaxFaults \in Nat

VARIABLES
    degrade,   \* the request's degrade flag
    attempt,   \* checkout_attempts row
    order,     \* orders.status
    recon,     \* checkout_payment_reconciliations row
    task,      \* checkout_compensation_tasks rows, by kind and generation
    ext,       \* the payment and the reservations, kept by the remote services
    late,      \* calls that failed for their caller and may still be executed
    faults,    \* failures left
    pc,        \* what each actor does next
    job        \* the generation a worker's claimed row belongs to, and its kind

vars == <<degrade, attempt, order, recon, task, ext, late, faults, pc, job>>
rows == <<attempt, order, recon, task>>
remote == <<ext, late, faults>>

Generations == 1..MaxGeneration
Kinds == {"inventory_release", "payment"}
Nobody == <<"none">>

Handler(g) == <<"handler", g>>
Reconciler(w) == <<"reconciler", w>>
Compensator(w) == <<"compensator", w>>
Handlers == {Handler(g) : g \in Generations}
Reconcilers == {Reconciler(w) : w \in ReconcileWorkers}
Compensators == {Compensator(w) : w \in CompensateWorkers}
Actors == Handlers \cup Reconcilers \cup Compensators

Steps == {"idle", "create", "authorize", "recover", "rec_enqueue", "rec_undo",
          "absent", "cancel", "register_pending", "register_unknown",
          "register_post", "look", "reserve", "capture", "consume", "finalize",
          "stalled", "unreserve_enqueue", "unreserve", "release_enqueue", "release",
          "undo_enqueue", "undo", "undo_only_enqueue", "undo_only",
          "close", "lost", "reply_paid", "reply_pending",
          "reply_degraded", "reply_failed", "reply_post", "wake", "retry",
          "complete", "fail", "work", "worked", "failed", "done"}

Calls == {"authorize", "capture", "reserve", "consume", "release"}

NoRow == [status |-> "none", gen |-> 0, attempts |-> 0, owner |-> Nobody, live |-> FALSE]
NoTask == [status |-> "none", attempts |-> 0, owner |-> Nobody, live |-> FALSE]
NoJob == [gen |-> 0, kind |-> "payment"]

AttemptRows ==
    [status : {"none", "started", "pending", "paid", "degraded", "failed"},
     gen : 0..MaxGeneration, live : BOOLEAN]
ReconRows ==
    [status : {"none", "awaiting_provider", "queued", "processing", "completed", "failed"},
     gen : 0..MaxGeneration, attempts : 0..MaxReconcile,
     owner : Reconcilers \cup {Nobody}, live : BOOLEAN]
TaskRows ==
    [status : {"none", "queued", "processing", "completed", "failed", "superseded"},
     attempts : 0..MaxCompensate, owner : Compensators \cup {Nobody}, live : BOOLEAN]
External ==
    [payment : {"none", "pending", "authorized", "failed", "captured", "voided", "refunded"},
     authorized : {"none", "succeeded", "pending", "declined"},
     captured : {"none", "succeeded", "refused"},
     stock : {"none", "reserved", "released", "consumed"}]
Jobs == [gen : 0..MaxGeneration, kind : Kinds]

TypeOK ==
    /\ degrade \in BOOLEAN
    /\ attempt \in AttemptRows
    /\ order \in {"none", "pending", "paid", "cancelled"}
    /\ recon \in ReconRows
    /\ task \in [Kinds \X Generations -> TaskRows]
    /\ ext \in External
    /\ late \subseteq Calls \X Generations
    /\ faults \in 0..MaxFaults
    /\ pc \in [Actors -> Steps]
    /\ job \in [Reconcilers \cup Compensators -> Jobs]

Init ==
    /\ degrade \in BOOLEAN
    /\ attempt = [status |-> "none", gen |-> 0, live |-> FALSE]
    /\ order = "none"
    /\ recon = NoRow
    /\ task = [t \in Kinds \X Generations |-> NoTask]
    /\ ext = [payment |-> "none", authorized |-> "none", captured |-> "none",
              stock |-> "none"]
    /\ late = {}
    /\ faults = MaxFaults
    /\ pc = [a \in Actors |-> "idle"]
    /\ job = [a \in Reconcilers \cup Compensators |-> NoJob]

Go(a, step) == pc' = [pc EXCEPT ![a] = step]
Rest(a) == Go(a, "idle") /\ job' = [job EXCEPT ![a] = NoJob]

-----------------------------------------------------------------------------
(* Fences. *)

Gen(a) == IF a \in Handlers THEN a[2] ELSE job[a].gen

Started(g) == attempt.status = "started" /\ attempt.gen = g
Owned(g) == Started(g) /\ attempt.live

\* lock_checkout_parent, and the inventory service's test of the same rows:
\* the generation is current and its attempt still open for recovery work.
ParentOpen(g) ==
    /\ attempt.gen = g
    /\ \/ attempt.status = "failed"
       \/ attempt.status = "started" /\ attempt.live
       \/ /\ attempt.status = "pending"
          /\ recon.status = "processing" /\ recon.live /\ recon.gen = g

HoldsTask(a) ==
    LET t == task[job[a].kind, job[a].gen]
    IN  t.status = "processing" /\ t.owner = a /\ t.live

\* lock_checkout_fence and assert_checkout_fence.
Fence(a) ==
    IF a \in Handlers THEN Owned(Gen(a))
    ELSE /\ ParentOpen(Gen(a))
         /\ IF a \in Reconcilers
            THEN /\ recon.status = "processing" /\ recon.owner = a /\ recon.live
                 /\ recon.gen = Gen(a)
            ELSE HoldsTask(a)

-----------------------------------------------------------------------------
(* What the payment and the inventory service do with a call. *)

AuthorizeOutcomes ==
    {[ext EXCEPT !.payment = "authorized", !.authorized = "succeeded"],
     [ext EXCEPT !.payment = "failed", !.authorized = "declined"],
     [ext EXCEPT !.payment = "pending", !.authorized = "pending"]}

\* The payment service answers a repeated operation id with its first answer.
Captured ==
    IF ext.captured # "none" \/ ext.payment = "none" THEN ext
    ELSE IF ext.payment = "authorized"
         THEN [ext EXCEPT !.payment = "captured", !.captured = "succeeded"]
         ELSE [ext EXCEPT !.captured = "refused"]

\* Taking stock for a new or a released reservation fails when there is none left.
Taken(to) ==
    IF ext.stock \in {"none", "released"} THEN {ext, [ext EXCEPT !.stock = to]}
    ELSE {[ext EXCEPT !.stock = IF ext.stock = "consumed" THEN "consumed" ELSE to]}

Effects(call, g) ==
    CASE call = "authorize" ->
           IF ext.authorized = "none" /\ order = "pending" THEN AuthorizeOutcomes ELSE {ext}
      [] call = "capture" -> {Captured}
      [] call = "reserve" -> IF ~ParentOpen(g) THEN {ext} ELSE Taken("reserved")
      [] call = "consume" ->
           IF ~ParentOpen(g) \/ ext.stock = "none" THEN {ext} ELSE Taken("consumed")
      [] call = "release" ->
           {[ext EXCEPT !.stock = IF ParentOpen(g) /\ ext.stock = "reserved" THEN "released"
                                  ELSE ext.stock]}

\* Mutant: any answer to a consume counts as success.
AcceptedConsumeAlways(call, e) ==
    CASE call = "authorize" -> e.authorized = "succeeded"
      [] call = "capture" -> e.captured = "succeeded"
      [] call = "reserve" -> e.stock \in {"reserved", "consumed"}
      [] call = "consume" -> TRUE
      [] call = "release" -> e.stock # "consumed"

Accepted(call, e) ==
    CASE call = "authorize" -> e.authorized = "succeeded"
      [] call = "capture" -> e.captured = "succeeded"
      [] call = "reserve" -> e.stock \in {"reserved", "consumed"}
      [] call = "consume" -> e.stock = "consumed"
      [] call = "release" -> e.stock # "consumed"

Fault == faults > 0 /\ faults' = faults - 1

\* A call whose answer is lost: executed, or on its way, perhaps for ever.
Unanswered(call, g) ==
    /\ Fault
    /\ \/ ext' \in Effects(call, g) /\ UNCHANGED late
       \/ ext' = ext /\ late' = late \cup {<<call, g>>}

(* with_checkout_fence around a remote call.  Where an error leads depends *)
(* on which error it is.  A stalled caller waits for an answer until its   *)
(* lease is gone.                                                          *)
Call(a, call, accepted, refused, errors) ==
    /\ Fence(a)
    /\ \/ /\ ext' \in Effects(call, Gen(a))
          /\ Go(a, IF Accepted(call, ext') THEN accepted ELSE refused)
          /\ UNCHANGED <<late, faults>>
       \/ /\ Unanswered(call, Gen(a))
          /\ \E step \in errors \cup {"stalled"} : Go(a, step)
    /\ UNCHANGED <<degrade, rows, job>>

(* A late call reaches its service. *)
DeliverLate(m) ==
    /\ m \in late
    /\ ext' \in Effects(m[1], m[2])
    /\ late' = late \ {m}
    /\ UNCHANGED <<degrade, rows, faults, pc, job>>

\* requeueCheckoutReconciliation.
Requeued ==
    IF recon.status \in {"awaiting_provider", "queued"}
    THEN [recon EXCEPT !.status = "queued", !.attempts = 0, !.owner = Nobody]
    ELSE recon

(* The provider decides a pending payment; the payment service requeues    *)
(* the reconciliation row in the same transaction.                         *)
ProviderDecides ==
    /\ ext.payment = "pending"
    /\ \/ ext' = [ext EXCEPT !.payment = "authorized", !.authorized = "succeeded"]
       \/ ext' = [ext EXCEPT !.payment = "failed", !.authorized = "declined"]
    /\ recon' = Requeued
    /\ UNCHANGED <<degrade, attempt, order, task, late, faults, pc, job>>

(* The inventory reaper frees a reservation that expired. *)
Reap ==
    /\ ext.stock = "reserved"
    /\ ext' = [ext EXCEPT !.stock = "released"]
    /\ UNCHANGED <<degrade, rows, late, faults, pc, job>>

-----------------------------------------------------------------------------
(* Claiming the attempt: claim_checkout_attempt. *)

ClaimNew ==
    /\ attempt.status = "none"
    /\ attempt' = [status |-> "started", gen |-> 1, live |-> TRUE]
    /\ Go(Handler(1), "create")
    /\ UNCHANGED <<degrade, order, recon, task, remote, job>>

Stale == attempt.status = "started" /\ ~attempt.live

(* A stale attempt whose order was paid answers with the paid order. *)
ReclaimPaid ==
    /\ Stale
    /\ order = "paid"
    /\ attempt' = [attempt EXCEPT !.status = "paid"]
    /\ UNCHANGED <<degrade, order, recon, task, remote, pc, job>>

\* Mutant: the reclaiming transaction leaves the old tasks alone.
SupersededNone(g) == task

Superseded(g) ==
    [t \in Kinds \X Generations |->
       IF t[2] = g /\ task[t].status \notin {"none", "completed", "superseded"}
       THEN [NoTask EXCEPT !.status = "superseded", !.attempts = task[t].attempts]
       ELSE task[t]]

Transferred(g) ==
    IF recon.status \in {"none", "completed"} \/ recon.gen # attempt.gen THEN recon
    ELSE [recon EXCEPT !.gen = g, !.owner = Nobody, !.live = FALSE,
            !.status = IF @ # "processing" THEN @
                       ELSE IF recon.attempts < MaxReconcile THEN "queued"
                                                             ELSE "awaiting_provider"]

(* The next generation takes a stale attempt over: the reconciliation row  *)
(* moves to it, the old generation's compensation tasks are superseded.    *)
Reclaim ==
    LET g == attempt.gen + 1
    IN  /\ Stale
        /\ order \in {"none", "pending"}    \* stale_reclaim_order_is_safe
        /\ g \in Generations
        /\ attempt' = [status |-> "started", gen |-> g, live |-> TRUE]
        /\ recon' = Transferred(g)
        /\ task' = Superseded(attempt.gen)
        /\ Go(Handler(g), "create")
        /\ UNCHANGED <<degrade, order, remote, job>>

\* wake_payment_reconciliation: attempts are kept.
Woken ==
    IF recon.status \in {"awaiting_provider", "queued"}
    THEN [recon EXCEPT !.status = "queued", !.owner = Nobody]
    ELSE recon

(* A client repeats a request whose payment is pending. *)
ReplayPending ==
    /\ attempt.status = "pending"
    /\ recon' = Woken
    /\ UNCHANGED <<degrade, attempt, order, task, remote, pc, job>>

ExpireAttempt ==
    /\ attempt.status = "started" /\ attempt.live
    /\ attempt' = [attempt EXCEPT !.live = FALSE]
    /\ UNCHANGED <<degrade, order, recon, task, remote, pc, job>>

-----------------------------------------------------------------------------
(* The request handler: checkout_flow. *)

(* Catalog and quote, then create_pending_order, which finds the order of  *)
(* an earlier generation or inserts it.  It tests the token, not the lease.*)
CreateOrder(g) ==
    /\ pc[Handler(g)] = "create"
    /\ \/ /\ Started(g)
          /\ order' = IF order = "none" THEN "pending" ELSE order
          /\ Go(Handler(g), "authorize")
       \/ Go(Handler(g), "reply_failed") /\ UNCHANGED order
    /\ UNCHANGED <<degrade, attempt, recon, task, remote, job>>

AfterAuthorize(e) ==
    CASE e.authorized = "succeeded" -> "reserve"
      [] e.authorized = "pending" -> "register_pending"
      [] OTHER -> "cancel"

(* authorize_payment.  An error of the fence check itself is not one of    *)
(* the ambiguous payment errors, and leads to cancel.                      *)
Authorize(g) ==
    LET h == Handler(g)
    IN  /\ pc[h] = "authorize"
        /\ Fence(h)
        /\ \/ /\ ext' \in Effects("authorize", g)
              /\ Go(h, AfterAuthorize(ext'))
              /\ UNCHANGED <<late, faults>>
           \/ /\ Unanswered("authorize", g)
              /\ \E step \in {"recover", "cancel", "stalled"} : Go(h, step)
        /\ UNCHANGED <<degrade, rows, job>>

\* recover_authorization, second half: what the durable payment says.
AfterLookup(e) ==
    CASE e.payment = "none" -> "register_unknown"
      [] e.payment = "captured" -> "rec_enqueue"
      [] e.payment = "pending" -> "register_pending"
      [] e.payment = "authorized" -> "reserve"
      [] e.payment \in {"voided", "refunded"} -> "absent"
      [] e.payment = "failed" -> "cancel"

(* recover_authorization: repeat the call; if the answer is lost again,    *)
(* look the payment up; if that fails too, give up.                        *)
Recover(g) ==
    LET h == Handler(g)
    IN  /\ pc[h] = "recover"
        /\ Fence(h)
        /\ \/ /\ ext' \in Effects("authorize", g)
              /\ Go(h, AfterAuthorize(ext'))
              /\ UNCHANGED <<late, faults>>
           \/ /\ Unanswered("authorize", g)
              /\ \E step \in {AfterLookup(ext'), "reply_failed"} : Go(h, step)
        /\ UNCHANGED <<degrade, rows, job>>

(* cancel_order_fenced, after a refused or an absent authorization. *)
Cancel(g) ==
    LET h == Handler(g)
        done == Fence(h) /\ order = "pending"
    IN  /\ pc[h] \in {"cancel", "absent"}
        /\ order' = IF done THEN "cancelled" ELSE order
        /\ Go(h, IF done /\ pc[h] = "absent" /\ degrade THEN "reply_degraded"
                                                        ELSE "reply_failed")
        /\ UNCHANGED <<degrade, attempt, recon, task, remote, job>>

\* register_pending_payment_reconciliation_inner, the upsert.
Registered(g) ==
    IF recon.status = "none" THEN [NoRow EXCEPT !.status = "awaiting_provider", !.gen = g]
    ELSE IF recon.status = "completed" THEN recon
    ELSE [recon EXCEPT !.gen = g,
                       !.status = IF @ = "queued" THEN "awaiting_provider" ELSE @]

Register(g) ==
    LET h == Handler(g)
    IN  /\ pc[h] \in {"register_pending", "register_unknown", "register_post"}
        /\ recon' = IF Fence(h) THEN Registered(g) ELSE recon
        /\ Go(h, IF ~Fence(h) THEN "reply_failed"
                 ELSE CASE pc[h] = "register_pending" -> "reply_pending"
                        [] pc[h] = "register_post" -> "reply_post"
                        [] OTHER -> IF degrade THEN "reply_pending" ELSE "reply_failed")
        /\ UNCHANGED <<degrade, attempt, order, task, remote, job>>

(* queue_checkout_finalization_recovery, after a lease_lost error: the     *)
(* lease may be gone, but the row still carries the token.                 *)
QueueRecovery(g) ==
    LET h == Handler(g)
    IN  /\ \/ pc[h] = "lost"
           \/ ~Fence(h) /\ pc[h] \in {"authorize", "reserve", "capture", "consume",
                                      "finalize", "stalled"}
        /\ recon' = IF Started(g) THEN Registered(g) ELSE recon
        /\ Go(h, "reply_failed")
        /\ UNCHANGED <<degrade, attempt, order, task, remote, job>>

\* Mutant: the answer is written without looking at the lease token.
RecordedUnfenced(h, status) == [attempt EXCEPT !.status = status, !.live = FALSE]

\* record_checkout_response and record_checkout_failure need the live lease.
Recorded(h, status) ==
    IF Fence(h) THEN [attempt EXCEPT !.status = status, !.live = FALSE] ELSE attempt

Reply(g) ==
    LET h == Handler(g)
    IN  /\ \/ /\ pc[h] = "reply_paid"
              /\ attempt' = Recorded(h, "paid") /\ Go(h, "done")
           \/ /\ pc[h] = "reply_degraded"
              /\ attempt' = Recorded(h, "degraded") /\ Go(h, "done")
           \/ /\ pc[h] = "reply_pending"
              /\ attempt' = Recorded(h, "pending")
              /\ Go(h, IF Fence(h) THEN "wake" ELSE "done")
           \/ /\ pc[h] = "reply_failed"
              /\ attempt' = Recorded(h, "failed") /\ Go(h, "done")
           \/ /\ pc[h] = "reply_post"
              /\ attempt' = Recorded(h, "failed") /\ Go(h, "wake")
        /\ UNCHANGED <<degrade, order, recon, task, remote, job>>

Wake(g) ==
    /\ pc[Handler(g)] = "wake"
    /\ recon' = Woken
    /\ Go(Handler(g), "done")
    /\ UNCHANGED <<degrade, attempt, order, task, remote, job>>

-----------------------------------------------------------------------------
(* Steps the handler and the reconciler share.  An error sends the handler *)
(* to its reply and the reconciler to a retry.                             *)

Failed(a) == IF a \in Handlers THEN "reply_failed" ELSE "retry"
Forfeited(a) == IF a \in Handlers THEN "reply_failed" ELSE "lost"

Reserve(a) ==
    /\ pc[a] = "reserve"
    /\ Call(a, "reserve", IF a \in Handlers THEN "capture" ELSE "consume",
            "unreserve_enqueue", {"unreserve_enqueue"})

Capture(a) ==
    /\ pc[a] = "capture"
    /\ IF a \in Handlers
       THEN Call(a, "capture", "consume", "release_enqueue", {"release_enqueue"})
       ELSE Call(a, "capture", "look", "retry", {"retry"})

(* consume_inventory.  The handler leaves an ambiguous outcome to the      *)
(* reconciliation and undoes a definite one; the reconciler undoes both.   *)
Consume(a) ==
    /\ pc[a] = "consume"
    /\ Call(a, "consume", "finalize", "release_enqueue",
            IF a \in Handlers THEN {"register_post", "release_enqueue"} ELSE {"release_enqueue"})

Finished(a) == IF a \in Handlers THEN "reply_paid" ELSE "complete"
Unfinished(a) == IF a \in Handlers THEN "register_post" ELSE "retry"

\* Mutant: finalize without looking at the order.
CanFinalizeAnyOrder(a) == Fence(a)

CanFinalize(a) == Fence(a) /\ order = "pending"

(* finalize_order and finalization_committed: the transaction commits, is  *)
(* refused (order, cart or promotion), or its outcome is unknown and the   *)
(* order is looked at, which may fail as well.                             *)
Finalize(a) ==
    /\ pc[a] = "finalize"
    /\ \/ /\ CanFinalize(a)
          /\ order' = "paid"
          /\ \/ Go(a, Finished(a)) /\ UNCHANGED faults
             \/ Go(a, Failed(a)) /\ Fault
       \/ /\ Fence(a) /\ order = "pending"
          /\ Fault
          /\ \E step \in {Unfinished(a), Failed(a)} : Go(a, step)
          /\ UNCHANGED order
       \/ /\ Fence(a) /\ order # "pending"
          /\ Go(a, IF order = "paid" THEN Finished(a) ELSE Unfinished(a))
          /\ UNCHANGED <<order, faults>>
    /\ UNCHANGED <<degrade, attempt, recon, task, ext, late, job>>

-----------------------------------------------------------------------------
(* Compensation by the handler or the reconciler. *)

Key(a, kind) == <<kind, Gen(a)>>

\* enqueue_*_compensation_task and activate_compensation_intent.
Enqueued(t) ==
    IF task[t].status = "none" THEN [task EXCEPT ![t] = [NoTask EXCEPT !.status = "queued"]]
    ELSE task

\* A task that is no longer queued, processing or completed bars its generation.
Active(t) == task[t].status \in {"queued", "processing"}

Enqueue(a, step, kind, next, otherwise) ==
    /\ pc[a] = step
    /\ LET t == Key(a, kind)
           ok == Fence(a) /\ task[t].status \in {"none", "queued", "processing", "completed"}
       IN  /\ task' = IF ok THEN Enqueued(t) ELSE task
           /\ Go(a, IF ok THEN next ELSE otherwise)
    /\ UNCHANGED <<degrade, attempt, order, recon, remote, job>>

\* resolve_compensation_intent: a task a worker has claimed is left to it.
Resolved(t) ==
    IF task[t].status = "queued" THEN [task EXCEPT ![t].status = "completed"] ELSE task

\* Where a release leads: after a failed reserve a lost fence is reported as
\* such and any other failure forgotten; after a failed capture or consume
\* the handler remembers every failure.
AfterRelease(a, outcome) ==
    CASE outcome = "released" -> "undo_enqueue"
      [] outcome = "fenced" /\ pc[a] = "unreserve" -> "lost"
      [] outcome = "failed" /\ pc[a] = "unreserve" -> "undo_enqueue"
      [] OTHER -> "undo_only_enqueue"

(* release_inventory_with_recovery after its tasks are enqueued.  A task   *)
(* that a worker has completed meanwhile counts as a lost fence.           *)
Release(a) ==
    LET t == Key(a, "inventory_release")
    IN  /\ pc[a] \in {"release", "unreserve"}
        /\ \/ /\ Fence(a) /\ Active(t)
              /\ ext' \in Effects("release", Gen(a))
              /\ task' = IF Accepted("release", ext') THEN Resolved(t) ELSE task
              /\ Go(a, AfterRelease(a, IF Accepted("release", ext') THEN "released" ELSE "failed"))
              /\ UNCHANGED <<late, faults>>
           \/ /\ Fence(a) /\ Active(t)
              /\ Unanswered("release", Gen(a))
              /\ Go(a, AfterRelease(a, "failed"))
              /\ UNCHANGED task
           \/ /\ ~(Fence(a) /\ Active(t))
              /\ Go(a, AfterRelease(a, "fenced"))
              /\ UNCHANGED <<task, remote>>
        /\ UNCHANGED <<degrade, attempt, order, recon, job>>

Compensated(e) ==
    [e EXCEPT !.payment = CASE e.payment = "captured" -> "refunded"
                            [] e.payment = "authorized" -> "voided"
                            [] OTHER -> e.payment]

Confirmed(e) == e.payment \in {"voided", "refunded", "failed"}

\* What follows a confirmed compensation of the payment.
AfterUndo(a) ==
    CASE pc[a] = "rec_undo" -> "absent"
      [] pc[a] = "undo_only" /\ a \in Handlers -> "reply_failed"
      [] OTHER -> "close"

(* compensate_payment_with_fence: void or refund what the payment's state  *)
(* asks for, and resolve the task once the payment confirms it.            *)
Undo(a) ==
    LET t == Key(a, "payment")
    IN  /\ pc[a] \in {"undo", "undo_only", "rec_undo"}
        /\ \/ /\ Fence(a) /\ Active(t)
              /\ ext' = Compensated(ext)
              /\ task' = IF Confirmed(ext') THEN Resolved(t) ELSE task
              /\ Go(a, IF Confirmed(ext') THEN AfterUndo(a) ELSE Failed(a))
              /\ UNCHANGED <<late, faults>>
           \/ /\ Fence(a) /\ Active(t)
              /\ Fault
              /\ ext' \in {ext, Compensated(ext)}
              /\ Go(a, Failed(a))
              /\ UNCHANGED <<task, late>>
           \/ /\ ~(Fence(a) /\ Active(t))
              /\ Go(a, Forfeited(a))
              /\ UNCHANGED <<task, remote>>
        /\ UNCHANGED <<degrade, attempt, order, recon, job>>

OpenTasks == {t \in Kinds \X Generations :
                task[t].status \notin {"none", "completed", "superseded"}}

(* cancel_order_if_compensated. *)
Close(a) ==
    LET done == Fence(a) /\ order = "pending" /\ OpenTasks = {}
    IN  /\ pc[a] = "close"
        /\ order' = IF done THEN "cancelled" ELSE order
        /\ Go(a, IF done /\ a \in Reconcilers THEN "fail" ELSE Failed(a))
        /\ UNCHANGED <<degrade, attempt, recon, task, remote, job>>

Compensate(a) ==
    \/ Enqueue(a, "unreserve_enqueue", "inventory_release", "unreserve", "lost")
    \/ Enqueue(a, "release_enqueue", "inventory_release", "release", "undo_only_enqueue")
    \/ Release(a)
    \/ Enqueue(a, "undo_enqueue", "payment", "undo", Forfeited(a))
    \/ Enqueue(a, "undo_only_enqueue", "payment", "undo_only", Forfeited(a))
    \/ Enqueue(a, "rec_enqueue", "payment", "rec_undo", "reply_failed")
    \/ Undo(a)
    \/ Close(a)

-----------------------------------------------------------------------------
(* The reconciliation worker: process_one_payment_reconciliation. *)

ReconcileParent ==
    /\ attempt.gen = recon.gen
    /\ \/ attempt.status \in {"failed", "pending"}
       \/ attempt.status = "started" /\ attempt.live

\* Mutant: a job whose lease ran out is not claimed again.
ReconcileDueQueued == recon.status = "queued"

ReconcileDue ==
    \/ recon.status = "queued"
    \/ recon.status = "processing" /\ ~recon.live

AttemptsLeft == recon.attempts < MaxReconcile

ClaimReconciliation(a) ==
    /\ pc[a] = "idle"
    /\ ReconcileDue /\ ReconcileParent
    /\ AttemptsLeft
    /\ recon' = [recon EXCEPT !.status = "processing", !.attempts = @ + 1,
                              !.owner = a, !.live = TRUE]
    /\ job' = [job EXCEPT ![a].gen = recon.gen]
    /\ Go(a, "look")
    /\ UNCHANGED <<degrade, attempt, order, task, remote>>

(* reclaim_exhausted_payment_reconciliation. *)
ReclaimExhausted(a) ==
    /\ pc[a] = "idle"
    /\ recon.status = "processing" /\ ~recon.live
    /\ recon.attempts >= MaxReconcile
    /\ recon' = [recon EXCEPT !.status = "awaiting_provider", !.owner = Nobody]
    /\ UNCHANGED <<degrade, attempt, order, task, remote, pc, job>>

\* Mutant: an authorized payment is not captured before the stock is consumed.
AfterSnapshotEager(payment) ==
    CASE payment \in {"none", "pending"} -> "retry"
      [] payment \in {"authorized", "captured"} -> "reserve"
      [] OTHER -> "fail"

AfterSnapshot(payment) ==
    CASE payment \in {"none", "pending"} -> "retry"
      [] payment = "authorized" -> "capture"
      [] payment = "captured" -> "reserve"
      [] OTHER -> "fail"

(* reconcile_pending_payment: look the payment up, before and after capture. *)
Look(a) ==
    /\ pc[a] = "look"
    /\ Fence(a)
    /\ \/ Go(a, AfterSnapshot(ext.payment)) /\ UNCHANGED faults
       \/ Go(a, "retry") /\ Fault
    /\ UNCHANGED <<degrade, rows, ext, late, job>>

(* A worker that finds its fence gone drops the job. *)
Drop(a) ==
    /\ \/ pc[a] = "lost"
       \/ ~Fence(a) /\ pc[a] \in {"look", "reserve", "capture", "consume", "finalize",
                                  "stalled", "retry", "complete", "fail"}
    /\ Rest(a)
    /\ UNCHANGED <<degrade, rows, remote>>

NoOwner(status) == [recon EXCEPT !.status = status, !.owner = Nobody, !.live = FALSE]

RetryReconciliation(a) ==
    /\ pc[a] = "retry"
    /\ Fence(a)
    /\ recon' = NoOwner(IF recon.attempts >= MaxReconcile THEN "awaiting_provider" ELSE "queued")
    /\ Rest(a)
    /\ UNCHANGED <<degrade, attempt, order, task, remote>>

CompleteReconciliation(a) ==
    /\ pc[a] = "complete"
    /\ Fence(a)
    /\ attempt' = [attempt EXCEPT !.status = "paid", !.live = FALSE]
    /\ recon' = NoOwner("completed")
    /\ Rest(a)
    /\ UNCHANGED <<degrade, order, task, remote>>

\* Mutant: the attempt is left as it was.
FailedAttemptKept == attempt

FailedAttempt == [attempt EXCEPT !.status = "failed", !.live = FALSE]

(* fail_payment_reconciliation: attempt, order and row in one transaction. *)
FailReconciliation(a) ==
    /\ pc[a] = "fail"
    /\ Fence(a)
    /\ attempt' = FailedAttempt
    /\ order' = IF order = "pending" /\ OpenTasks = {} THEN "cancelled" ELSE order
    /\ recon' = NoOwner("failed")
    /\ Rest(a)
    /\ UNCHANGED <<degrade, task, remote>>

ExpireReconciliation ==
    /\ recon.status = "processing" /\ recon.live
    /\ recon' = [recon EXCEPT !.live = FALSE]
    /\ UNCHANGED <<degrade, attempt, order, task, remote, pc, job>>

-----------------------------------------------------------------------------
(* The compensation worker: process_one_compensation. *)

\* Mutant: a task whose worker died is not claimed again.
TaskDueQueued(t) == task[t].attempts < MaxCompensate /\ task[t].status = "queued"

TaskDue(t) ==
    /\ task[t].attempts < MaxCompensate
    /\ \/ task[t].status = "queued"
       \/ task[t].status = "processing" /\ ~task[t].live

ClaimTask(a, t) ==
    /\ pc[a] = "idle"
    /\ TaskDue(t)
    /\ ParentOpen(t[2])
    /\ task' = [task EXCEPT ![t] = [status |-> "processing", attempts |-> task[t].attempts + 1,
                                    owner |-> a, live |-> TRUE]]
    /\ job' = [job EXCEPT ![a] = [gen |-> t[2], kind |-> t[1]]]
    /\ Go(a, "work")
    /\ UNCHANGED <<degrade, attempt, order, recon, remote>>

(* process_compensation_task. *)
Work(a) ==
    /\ pc[a] = "work"
    /\ \/ /\ Fence(a)
          /\ IF job[a].kind = "payment"
             THEN /\ ext' = Compensated(ext)
                  /\ Go(a, IF Confirmed(ext') THEN "worked" ELSE "failed")
             ELSE /\ ext' \in Effects("release", Gen(a))
                  /\ Go(a, IF Accepted("release", ext') THEN "worked" ELSE "failed")
          /\ UNCHANGED <<late, faults>>
       \/ /\ Fence(a)
          /\ IF job[a].kind = "payment"
             THEN Fault /\ ext' \in {ext, Compensated(ext)} /\ UNCHANGED late
             ELSE Unanswered("release", Gen(a))
          /\ Go(a, "failed")
       \/ ~Fence(a) /\ Go(a, "failed") /\ UNCHANGED remote
    /\ UNCHANGED <<degrade, rows, job>>

Ended(t, status) ==
    [task EXCEPT ![t] = [NoTask EXCEPT !.status = status, !.attempts = task[t].attempts]]

(* complete_compensation_task: the last task to end cancels the order. *)
CompleteTask(a) ==
    LET t == <<job[a].kind, job[a].gen>>
    IN  /\ pc[a] = "worked"
        /\ task' = IF Fence(a) THEN Ended(t, "completed") ELSE task
        /\ order' = IF Fence(a) /\ order = "pending" /\ OpenTasks = {t}
                    THEN "cancelled" ELSE order
        /\ Rest(a)
        /\ UNCHANGED <<degrade, attempt, recon, remote>>

(* reschedule_compensation_task, which needs the claim only, or            *)
(* dead_letter_compensation_task, which needs the fence.                   *)
RetryTask(a) ==
    LET t == <<job[a].kind, job[a].gen>>
        exhausted == task[t].attempts >= MaxCompensate
        owned == IF exhausted THEN Fence(a) ELSE HoldsTask(a)
    IN  /\ pc[a] = "failed"
        /\ task' = IF owned THEN Ended(t, IF exhausted THEN "failed" ELSE "queued") ELSE task
        /\ Rest(a)
        /\ UNCHANGED <<degrade, attempt, order, recon, remote>>

(* dead_letter_expired_compensation_task. *)
DeadLetterExpired(a, t) ==
    /\ pc[a] = "idle"
    /\ task[t].status = "processing" /\ ~task[t].live
    /\ task[t].attempts >= MaxCompensate
    /\ task' = Ended(t, "failed")
    /\ UNCHANGED <<degrade, attempt, order, recon, remote, pc, job>>

(* The lease that a holds on the task runs out. *)
ExpireTask(a, t) ==
    /\ task[t].status = "processing" /\ task[t].live
    /\ task[t].owner = a
    /\ task' = [task EXCEPT ![t].live = FALSE]
    /\ UNCHANGED <<degrade, attempt, order, recon, remote, pc, job>>

(* A worker loop dies with its replica and starts again. *)
Crash(a) ==
    /\ pc[a] # "idle"
    /\ Fault
    /\ Rest(a)
    /\ UNCHANGED <<degrade, rows, ext, late>>

-----------------------------------------------------------------------------
HandlerStep(g) ==
    \/ CreateOrder(g) \/ Authorize(g) \/ Recover(g) \/ Cancel(g) \/ Register(g)
    \/ QueueRecovery(g) \/ Reply(g) \/ Wake(g)

SagaStep(a) == Reserve(a) \/ Capture(a) \/ Consume(a) \/ Finalize(a) \/ Compensate(a)

ReconcilerStep(a) ==
    \/ ReclaimExhausted(a) \/ ClaimReconciliation(a) \/ Look(a) \/ SagaStep(a) \/ Drop(a)
    \/ RetryReconciliation(a) \/ CompleteReconciliation(a) \/ FailReconciliation(a)

CompensatorStep(a) ==
    \/ \E t \in Kinds \X Generations : DeadLetterExpired(a, t) \/ ClaimTask(a, t)
    \/ Work(a) \/ CompleteTask(a) \/ RetryTask(a)

Client == ClaimNew \/ ReclaimPaid \/ Reclaim \/ ReplayPending

Environment ==
    \/ ProviderDecides \/ Reap
    \/ \E m \in Calls \X Generations : DeliverLate(m)
    \/ \E a \in Reconcilers \cup Compensators : Crash(a)

Expiry ==
    \/ ExpireAttempt \/ ExpireReconciliation
    \/ \E a \in Compensators, t \in Kinds \X Generations : ExpireTask(a, t)

Next ==
    \/ Client
    \/ \E g \in Generations : HandlerStep(g)
    \/ \E h \in Handlers : SagaStep(h)
    \/ \E a \in Reconcilers : ReconcilerStep(a)
    \/ \E a \in Compensators : CompensatorStep(a)
    \/ Environment
    \/ Expiry

Spec == Init /\ [][Next]_vars

(* The loops of the replicas keep running and the lease of a worker that   *)
(* died runs out.                                                          *)
ReconcileFairness ==
    /\ \A a \in Reconcilers : WF_vars(ReconcilerStep(a))
    /\ WF_vars(ExpireReconciliation)

CompensateFairness ==
    /\ \A a \in Compensators : WF_vars(CompensatorStep(a))
    /\ \A a \in Compensators, t \in Kinds \X Generations : WF_vars(ExpireTask(a, t))

WorkerSpec == Spec /\ ReconcileFairness /\ CompensateFairness

(* Nothing stops for good: handlers and workers alike, and every lease     *)
(* that is not renewed runs out.                                           *)
FairSpec ==
    /\ WorkerSpec
    /\ \A g \in Generations : WF_vars(HandlerStep(g)) /\ WF_vars(SagaStep(Handler(g)))
    /\ WF_vars(ExpireAttempt)

-----------------------------------------------------------------------------
(* Properties that hold. *)

(* A paid order is backed: its payment was captured and its stock is       *)
(* consumed, whichever handler or worker finalized it.                     *)
PaidOrderIsBacked ==
    order = "paid" => ext.captured = "succeeded" /\ ext.stock = "consumed"

(* Stock leaves the warehouse only for money that was taken: consume comes *)
(* after capture on every path, late calls included.                       *)
ConsumedAfterCapture == ext.stock = "consumed" => ext.captured = "succeeded"

(* The stored answer does not contradict the order: paid means paid,       *)
(* degraded means cancelled, and a pending answer always has an open       *)
(* reconciliation job of the same generation behind it.                    *)
AnswerMatchesOrder ==
    /\ attempt.status = "paid" => order = "paid"
    /\ attempt.status = "degraded" => order = "cancelled"
    /\ attempt.status = "pending" =>
         /\ order # "none"
         /\ recon.status \in {"awaiting_provider", "queued", "processing"}
         /\ recon.gen = attempt.gen

(* Reclaiming retires the old generation: none of its compensation tasks   *)
(* is open any more, and an open reconciliation job is the current one's.  *)
OldGenerationsRetired ==
    /\ \A t \in OpenTasks : t[2] = attempt.gen
    /\ recon.status \in {"awaiting_provider", "queued", "processing"} =>
         recon.gen = attempt.gen

(* A recorded answer stands: no handler or worker of an old generation, and *)
(* no late reply, changes a paid or degraded answer; recovery may turn a    *)
(* failed or pending one of the same generation into paid or failed; the    *)
(* generation never goes back.                                              *)
StoredAnswersStand ==
    [][/\ attempt.status \in {"paid", "degraded"} => attempt' = attempt
       /\ attempt.status \in {"failed", "pending"} =>
            /\ attempt'.gen = attempt.gen
            /\ attempt'.status \in {attempt.status, "failed", "paid"}
       /\ attempt'.gen >= attempt.gen]_vars

(* What the remote services did for the order stands, as they promise      *)
(* (SettledPaymentsStand of Payment, OnlyCurrentGenerationWrites of        *)
(* Inventory): no retry, replay, late call or compensation revives a       *)
(* payment that failed, was voided or refunded, changes the answer to a    *)
(* capture or to a decided authorization, or frees consumed stock.         *)
RemoteOutcomesStand ==
    [][/\ ext.payment \in {"failed", "voided", "refunded"} => ext'.payment = ext.payment
       /\ ext.authorized \in {"succeeded", "declined"} => ext'.authorized = ext.authorized
       /\ ext.captured # "none" => ext'.captured = ext.captured
       /\ ext.stock = "consumed" => ext'.stock = "consumed"]_vars

(* Reconciliation drains: a job that may still be claimed ends, or its     *)
(* attempts are used up, even if the worker that held it dies.             *)
ReconciliationsDrain ==
    /\ attempt.status \in {"pending", "failed"}
    /\ \/ recon.status = "processing"
       \/ recon.status = "queued" /\ recon.attempts < MaxReconcile
    ~> \/ recon.status \notin {"queued", "processing"}
       \/ recon.status = "queued" /\ recon.attempts >= MaxReconcile

(* Compensation drains: once the attempt has failed, all its tasks are     *)
(* completed, or failed after their last attempt, even if workers die,     *)
(* unless the reconciliation worker saves the checkout after all.          *)
CompensationsDrain ==
    attempt.status = "failed"
      ~> \/ \A t \in Kinds \X Generations : task[t].status \notin {"queued", "processing"}
         \/ attempt.status = "paid"

-----------------------------------------------------------------------------
(* Properties the repository's comments and docs state, and the code does  *)
(* not keep.                                                               *)

(* Replaying the deterministic operation ids is safe: an order that        *)
(* finalize_order marks paid, with payment status captured in its event,   *)
(* has its money.                                                          *)
PaidOrderHoldsFunds == order = "paid" => ext.payment = "captured"

(* A captured payment is refunded by the recovery path: while the order of *)
(* a captured payment is pending, a handler, a reconciliation job or a     *)
(* compensation task is there to finish it.                                *)
ChargeNeverForgotten ==
    ext.payment = "captured" /\ order = "pending" =>
      \/ attempt.status = "started"
      \/ recon.status \in {"awaiting_provider", "queued", "processing"}
      \/ <<"payment", attempt.gen>> \in OpenTasks

(* Once the inventory is consumed, recovery retries the finalization and   *)
(* does not compensate the payment.                                        *)
ConsumedOrderNotRefunded == ext.stock = "consumed" => ext.payment # "refunded"

(* The money of a cancelled order is given back: refunded if captured,     *)
(* voided if authorized.                                                   *)
CancelledFundsReturned ==
    order = "cancelled" ~> ext.payment \notin {"authorized", "captured"}
=============================================================================
