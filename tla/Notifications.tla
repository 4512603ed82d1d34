--------------------------- MODULE Notifications ----------------------------
(***************************************************************************)
(* The notification service: requests are recorded once per event key, and *)
(* the delivery workers of the service's replicas claim the rows under a   *)
(* lease, call the channel, and mark the row delivered, queued for another *)
(* attempt, or dead-lettered.  Every attempt has a row in an attempt log.  *)
(*                                                                         *)
(* The lease token is fresh for every claim; attempts grows with every     *)
(* claim, so its value stands for the token.  A lease is live or has run   *)
(* out, and back-off delays are left out.                                  *)
(***************************************************************************)
EXTENDS Naturals

CONSTANTS
    Keys,          \* event keys
    Contents,      \* what a request asks for: order, channel and payload
    Workers,       \* delivery workers
    MaxAttempts,   \* MAX_ATTEMPTS
    MaxCrashes     \* bound: workers that die

ASSUME NotificationsAssumption ==
    /\ MaxAttempts \in Nat \ {0}
    /\ MaxCrashes \in Nat

VARIABLES
    row,       \* notification_deliveries
    log,       \* notification_delivery_attempts
    message,   \* notification_channel_messages: the keys with an acknowledgement
    calls,     \* how often the channel was asked to deliver
    worker,    \* what each worker is doing
    crashes

vars == <<row, log, message, calls, worker, crashes>>

Nothing == "nothing"
Attempts == 1..MaxAttempts
NoRow == [status |-> "none", content |-> Nothing, attempts |-> 0, live |-> FALSE]
Idle == [pc |-> "idle", key |-> Nothing, attempt |-> 0]

Rows == [status : {"none", "queued", "processing", "delivered", "dead_lettered"},
         content : Contents \cup {Nothing}, attempts : 0..MaxAttempts, live : BOOLEAN]
Logs == [Attempts -> {"none", "processing", "retry", "delivered", "dead_lettered"}]
Jobs == [pc : {"idle", "dispatch", "delivered", "failed", "quarantine", "exhausted"},
         key : Keys \cup {Nothing}, attempt : 0..MaxAttempts]

TypeOK ==
    /\ row \in [Keys -> Rows]
    /\ log \in [Keys -> Logs]
    /\ message \in SUBSET Keys
    /\ calls \in [Keys -> Nat]
    /\ worker \in [Workers -> Jobs]
    /\ crashes \in 0..MaxCrashes

Init ==
    /\ row = [k \in Keys |-> NoRow]
    /\ log = [k \in Keys |-> [i \in Attempts |-> "none"]]
    /\ message = {}
    /\ calls = [k \in Keys |-> 0]
    /\ worker = [w \in Workers |-> Idle]
    /\ crashes = MaxCrashes

-----------------------------------------------------------------------------
\* Mutant: the upsert overwrites the stored request and queues it again.
RecordedAgain(k, c) == [NoRow EXCEPT !.status = "queued", !.content = c]

\* The upsert of record_delivery keeps a row that is there.
Recorded(k, c) ==
    IF row[k].status = "none" THEN [NoRow EXCEPT !.status = "queued", !.content = c]
    ELSE row[k]

(* record_delivery: a repeated request is answered from the stored row, a  *)
(* different one under the same key is refused; neither changes the row.   *)
Record(k, c) ==
    /\ row' = [row EXCEPT ![k] = Recorded(k, c)]
    /\ row' # row
    /\ UNCHANGED <<log, message, calls, worker, crashes>>

\* Mutant: only rows that were never claimed or were given back are due.
DueQueued(k) == row[k].attempts < MaxAttempts /\ row[k].status = "queued"

Due(k) ==
    /\ row[k].attempts < MaxAttempts
    /\ \/ row[k].status = "queued"
       \/ row[k].status = "processing" /\ ~row[k].live

(* claim_next. *)
ClaimNext(w, k) ==
    LET n == row[k].attempts + 1
    IN  /\ worker[w].pc = "idle"
        /\ Due(k)
        /\ row' = [row EXCEPT ![k] = [@ EXCEPT !.status = "processing", !.attempts = n,
                                               !.live = TRUE]]
        /\ log' = [log EXCEPT ![k] = [@ EXCEPT ![n] = "processing"]]
        /\ worker' = [worker EXCEPT ![w] = [pc |-> "dispatch", key |-> k, attempt |-> n]]
        /\ UNCHANGED <<message, calls, crashes>>

Spent(k) ==
    /\ row[k].attempts >= MaxAttempts
    /\ \/ row[k].status = "queued"
       \/ row[k].status = "processing" /\ ~row[k].live

(* reclaim_exhausted: the row first, its attempt in a second statement.    *)
ReclaimExhausted(w, k) ==
    /\ worker[w].pc = "idle"
    /\ Spent(k)
    /\ row' = [row EXCEPT ![k] = [@ EXCEPT !.status = "dead_lettered", !.live = FALSE]]
    /\ worker' = [worker EXCEPT ![w] = [pc |-> "exhausted", key |-> k,
                                        attempt |-> row[k].attempts]]
    /\ UNCHANGED <<log, message, calls, crashes>>

RecordExhausted(w) ==
    /\ worker[w].pc = "exhausted"
    /\ log' = [log EXCEPT ![worker[w].key] = [@ EXCEPT ![worker[w].attempt] = "dead_lettered"]]
    /\ worker' = [worker EXCEPT ![w] = Idle]
    /\ UNCHANGED <<row, message, calls, crashes>>

(* process_job: the stored trace context is broken; or the channel takes   *)
(* the message and its acknowledgement is stored; or the call fails, or    *)
(* storing the acknowledgement does, and the channel may have taken it.    *)
Dispatch(w) ==
    LET k == worker[w].key
    IN  /\ worker[w].pc = "dispatch"
        /\ \/ /\ calls' = [calls EXCEPT ![k] = @ + 1]
              /\ message' = message \cup {k}
              /\ worker' = [worker EXCEPT ![w] = [@ EXCEPT !.pc = "delivered"]]
           \/ /\ calls' \in {calls, [calls EXCEPT ![k] = @ + 1]}
              /\ worker' = [worker EXCEPT ![w] = [@ EXCEPT !.pc = "failed"]]
              /\ UNCHANGED message
           \/ /\ worker' = [worker EXCEPT ![w] = [@ EXCEPT !.pc = "quarantine"]]
              /\ UNCHANGED <<calls, message>>
        /\ UNCHANGED <<row, log, crashes>>

\* Mutant: whoever dispatched may mark the row.
OwnsAlways(w) == row[worker[w].key].status = "processing"

\* The row is still under this worker's token; the lease itself is not tested.
Owns(w) ==
    LET r == row[worker[w].key]
    IN  r.status = "processing" /\ r.attempts = worker[w].attempt

Mark(w, status, outcome) ==
    LET k == worker[w].key
    IN  /\ IF Owns(w)
           THEN /\ row' = [row EXCEPT ![k] = [@ EXCEPT !.status = status, !.live = FALSE]]
                /\ log' = [log EXCEPT ![k] = [@ EXCEPT ![worker[w].attempt] = outcome]]
           ELSE UNCHANGED <<row, log>>
        /\ worker' = [worker EXCEPT ![w] = Idle]
        /\ UNCHANGED <<message, calls, crashes>>

(* mark_delivered. *)
MarkDelivered(w) == worker[w].pc = "delivered" /\ Mark(w, "delivered", "delivered")

(* mark_failed_or_dead_letter. *)
MarkFailed(w) ==
    /\ worker[w].pc = "failed"
    /\ IF worker[w].attempt >= MaxAttempts
       THEN Mark(w, "dead_lettered", "dead_lettered")
       ELSE Mark(w, "queued", "retry")

(* dead_letter_invalid_propagation. *)
Quarantine(w) == worker[w].pc = "quarantine" /\ Mark(w, "dead_lettered", "dead_lettered")

(* A replica dies, or cannot write the outcome of its attempt. *)
Crash(w) ==
    /\ crashes > 0
    /\ worker[w].pc # "idle"
    /\ worker' = [worker EXCEPT ![w] = Idle]
    /\ crashes' = crashes - 1
    /\ UNCHANGED <<row, log, message, calls>>

Expire(k) ==
    /\ row[k].status = "processing" /\ row[k].live
    /\ row' = [row EXCEPT ![k] = [@ EXCEPT !.live = FALSE]]
    /\ UNCHANGED <<log, message, calls, worker, crashes>>

WorkerStep(w) ==
    \/ \E k \in Keys : ReclaimExhausted(w, k) \/ ClaimNext(w, k)
    \/ RecordExhausted(w) \/ Dispatch(w) \/ MarkDelivered(w) \/ MarkFailed(w) \/ Quarantine(w)

Next ==
    \/ \E k \in Keys, c \in Contents : Record(k, c)
    \/ \E w \in Workers : WorkerStep(w) \/ Crash(w)
    \/ \E k \in Keys : Expire(k)

Spec == Init /\ [][Next]_vars

(* The worker loops run until shutdown; a lease runs out. *)
Fairness ==
    /\ \A w \in Workers : WF_vars(WorkerStep(w))
    /\ \A k \in Keys : WF_vars(Expire(k))

FairSpec == Spec /\ Fairness

-----------------------------------------------------------------------------
(* A delivered notification was acknowledged by its channel, its last      *)
(* attempt says so and no other attempt claims the delivery, whichever     *)
(* worker was slow (mark_delivered, persist_channel_message).              *)
DeliveredIsAcknowledged ==
    \A k \in Keys :
      /\ row[k].status = "delivered" =>
           k \in message /\ log[k][row[k].attempts] = "delivered"
      /\ \A i \in Attempts :
           log[k][i] = "delivered" => row[k].status = "delivered" /\ i = row[k].attempts

(* The channel is called at most once per claim, so at most MAX_ATTEMPTS   *)
(* times, although workers die and leases run out under them.              *)
CallsWithinBudget == \A k \in Keys : calls[k] <= row[k].attempts

(* A delivery that ended stays as it is, and what was asked for first      *)
(* under an event key is what is delivered.                                *)
OutcomeIsFinal ==
    [][\A k \in Keys :
         /\ row[k].status \in {"delivered", "dead_lettered"} => row'[k] = row[k]
         /\ row[k].status # "none" => row'[k].content = row[k].content]_vars

(* The delivery queue keeps the promise of LeasedDelivery: one worker at a  *)
(* time, no more calls of the channel than claims, delivered only after a  *)
(* call, and the end is the end.                                           *)
PromisedState == [none |-> "none", queued |-> "open", processing |-> "held",
                  delivered |-> "done", dead_lettered |-> "dead"]
Promise == INSTANCE LeasedDelivery WITH
    Items <- Keys, Budget <- MaxAttempts, copies <- calls,
    item <- [k \in Keys |-> [state |-> PromisedState[row[k].status], live |-> row[k].live,
                             tries |-> row[k].attempts, round |-> 0]]
QueueKeepsPromise == Promise!Spec

(* Every recorded notification is delivered or dead-lettered in the end.   *)
EveryDeliveryEnds ==
    \A k \in Keys :
      row[k].status = "queued" ~> row[k].status \in {"delivered", "dead_lettered"}
=============================================================================
