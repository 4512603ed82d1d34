---------------------------- MODULE OrdersInbox -----------------------------
(***************************************************************************)
(* The orders service: POST /order publishes an event to a private         *)
(* exchange, and the consumers of the replicas process it behind a durable *)
(* inbox.  The inbox row of an event is claimed under a lease, its         *)
(* attempts fence the claim, and a poison event is published again with a  *)
(* higher attempt until it is dead-lettered.                               *)
(*                                                                         *)
(* A claim number is used once, so the event and the attempt in its body   *)
(* identify a message of the queue.  The queue keeps no order: a message   *)
(* that comes back may be seen before or after its retry.  The prefetch of *)
(* a consumer is 1.                                                        *)
(***************************************************************************)
EXTENDS Naturals

CONSTANTS
    Events,        \* order events: each request makes a fresh event_id
    Poison,        \* the events marked poison
    Malformed,     \* the events that are not valid order messages
    Consumers,     \* one consumer per replica
    MaxAttempts,   \* MAX_ATTEMPTS
    MaxFaults      \* bound: crashes, failed or lost calls, leases that run
                   \* out under a working consumer

ASSUME OrdersAssumption ==
    /\ Poison \subseteq Events
    /\ Malformed \subseteq Events
    /\ MaxAttempts \in Nat \ {0}
    /\ MaxFaults \in Nat

VARIABLES
    queue,      \* orders.dispatch: the messages not acknowledged yet
    dead,       \* orders.dispatch.dead: copies per event
    row,        \* orders_consumer_inbox
    consumer,   \* what each consumer is doing
    emitted,    \* order.consumed events per order event
    published,  \* the events the API published
    faults

vars == <<queue, dead, row, consumer, emitted, published, faults>>

Nothing == "nothing"
NoRow == [status |-> "none", attempts |-> 0, live |-> FALSE]
NoMessage == [event |-> Nothing, attempt |-> 0]
Idle == [pc |-> "idle", msg |-> NoMessage, claim |-> 0]
Messages == [event : Events, attempt : 1..MaxAttempts]

\* The steps between the delivery of a message and its settling.
Steps == {"claim", "work", "malformed", "retry_scheduled", "dead_lettered", "completed",
          "release", "ack"}

TypeOK ==
    /\ queue \in SUBSET Messages
    /\ dead \in [Events -> Nat]
    /\ row \in [Events -> [status : {"none", "processing", "retry_scheduled", "completed",
                                     "dead_lettered"},
                           attempts : Nat, live : BOOLEAN]]
    /\ consumer \in [Consumers -> [pc : {"idle"} \cup Steps, msg : Messages \cup {NoMessage},
                                   claim : Nat]]
    /\ emitted \in [Events -> Nat]
    /\ published \in SUBSET Events
    /\ faults \in 0..MaxFaults

Init ==
    /\ queue = {}
    /\ dead = [e \in Events |-> 0]
    /\ row = [e \in Events |-> NoRow]
    /\ consumer = [c \in Consumers |-> Idle]
    /\ emitted = [e \in Events |-> 0]
    /\ published = {}
    /\ faults = MaxFaults

-----------------------------------------------------------------------------
(* POST /order.  A publication that fails before it reaches the broker     *)
(* leaves nothing behind.                                                  *)
PublishOrder(e) ==
    /\ e \notin published
    /\ published' = published \cup {e}
    /\ queue' = queue \cup {[event |-> e, attempt |-> 1]}
    /\ UNCHANGED <<dead, row, consumer, emitted, faults>>

Fault == faults > 0 /\ faults' = faults - 1

Goto(c, pc) == consumer' = [consumer EXCEPT ![c].pc = pc]

(* The consumer drops its channel and subscribes again: the broker puts    *)
(* what was not acknowledged back on the queue.                            *)
Reconnect(c) == consumer' = [consumer EXCEPT ![c] = Idle]

(* consume_once hands the next message to process_delivery. *)
Deliver(c, msg) ==
    /\ consumer[c].pc = "idle"
    /\ msg \in queue
    /\ \A d \in Consumers : consumer[d].msg # msg
    /\ consumer' = [consumer EXCEPT ![c] =
         [pc |-> IF msg.event \in Malformed THEN "malformed" ELSE "claim",
          msg |-> msg, claim |-> 0]]
    /\ UNCHANGED <<queue, dead, row, emitted, published, faults>>

\* Mutant: the attempt in the payload replaces the durable one.
NextAttemptsPayload(r, incoming) == incoming

\* Mutant: a redelivery keeps the number of the claim it takes over.
NextAttemptsKept(r, incoming) == IF incoming > r.attempts THEN incoming ELSE r.attempts

NextAttempts(r, incoming) == IF incoming > r.attempts THEN incoming ELSE r.attempts + 1

\* Mutant: the end of a lease does not free the row.
ClaimableNewer(r, incoming) ==
    \/ r.status = "none"
    \/ r.status \in {"retry_scheduled", "processing"} /\ incoming > r.attempts

Claimable(r, incoming) ==
    \/ r.status = "none"
    \/ r.status = "retry_scheduled" /\ incoming > r.attempts
    \/ r.status = "processing" /\ (~r.live \/ incoming > r.attempts)

(* InboxStore::claim: claimed; or already handled, and acknowledged; or in *)
(* flight elsewhere, or the database failed, and the consumer reconnects.  *)
Claim(c) ==
    LET msg == consumer[c].msg
        r == row[msg.event]
        n == NextAttempts(r, msg.attempt)
    IN  /\ consumer[c].pc = "claim"
        /\ \/ /\ Claimable(r, msg.attempt)
              /\ row' = [row EXCEPT ![msg.event] =
                           [status |-> "processing", attempts |-> n, live |-> TRUE]]
              /\ consumer' = [consumer EXCEPT ![c].pc = "work", ![c].claim = n]
              /\ UNCHANGED faults
           \/ /\ ~Claimable(r, msg.attempt)
              /\ IF r.status = "processing" THEN Reconnect(c) ELSE Goto(c, "ack")
              /\ UNCHANGED <<row, faults>>
           \/ Fault /\ Reconnect(c) /\ UNCHANGED row
        /\ UNCHANGED <<queue, dead, emitted, published>>

\* The budget of redeliveries is spent, or the next retry would exceed it.
Exhausted(c) ==
    \/ consumer[c].claim > MaxAttempts
    \/ consumer[c].msg.event \in Poison /\ consumer[c].claim + 1 > MaxAttempts

Copied(e) == [dead EXCEPT ![e] = @ + 1]

(* publish_or_fail: confirmed; refused, and the claim is given back; or    *)
(* the outcome is unknown, and the consumer reconnects.                    *)
DeadLetter(c) ==
    LET e == consumer[c].msg.event
    IN  /\ consumer[c].pc = "work"
        /\ Exhausted(c)
        /\ \/ dead' = Copied(e) /\ Goto(c, "dead_lettered") /\ UNCHANGED faults
           \/ Fault /\ Goto(c, "release") /\ UNCHANGED dead
           \/ Fault /\ Reconnect(c) /\ dead' \in {dead, Copied(e)}
        /\ UNCHANGED <<queue, row, emitted, published>>

Retry(c) ==
    LET e == consumer[c].msg.event
        again == queue \cup {[event |-> e, attempt |-> consumer[c].claim + 1]}
    IN  /\ consumer[c].pc = "work"
        /\ ~Exhausted(c)
        /\ e \in Poison
        /\ \/ queue' = again /\ Goto(c, "retry_scheduled") /\ UNCHANGED faults
           \/ Fault /\ Goto(c, "release") /\ UNCHANGED queue
           \/ Fault /\ Reconnect(c) /\ queue' \in {queue, again}
        /\ UNCHANGED <<dead, row, emitted, published>>

Consume(c) ==
    LET e == consumer[c].msg.event
    IN  /\ consumer[c].pc = "work"
        /\ ~Exhausted(c)
        /\ e \notin Poison
        /\ emitted' = [emitted EXCEPT ![e] = @ + 1]
        /\ Goto(c, "completed")
        /\ UNCHANGED <<queue, dead, row, published, faults>>

\* Mutant: the update names the event and not the attempt.
FencedLoosely(c) == row[consumer[c].msg.event].status = "processing"

\* The row is still under this claim; the lease itself is not tested.
Fenced(c) ==
    LET r == row[consumer[c].msg.event]
    IN  r.status = "processing" /\ r.attempts = consumer[c].claim

(* After a publication the consumer must not republish, so it reconnects;  *)
(* an event that could not be completed gives its claim back.              *)
NotMarked(c) == IF consumer[c].pc = "completed" THEN Goto(c, "release") ELSE Reconnect(c)

(* mark_completed, mark_retry_scheduled, mark_dead_lettered. *)
Mark(c) ==
    LET e == consumer[c].msg.event
    IN  /\ consumer[c].pc \in {"completed", "retry_scheduled", "dead_lettered"}
        /\ \/ /\ Fenced(c)
              /\ row' = [row EXCEPT ![e].status = consumer[c].pc, ![e].live = FALSE]
              /\ Goto(c, "ack")
              /\ UNCHANGED faults
           \/ ~Fenced(c) /\ NotMarked(c) /\ UNCHANGED <<row, faults>>
           \/ Fault /\ NotMarked(c) /\ UNCHANGED row
        /\ UNCHANGED <<queue, dead, emitted, published>>

(* recover_failed_delivery: release_claim, then the message is nacked back *)
(* to the queue; either call may fail, and the consumer reconnects.        *)
Release(c) ==
    LET e == consumer[c].msg.event
    IN  /\ consumer[c].pc = "release"
        /\ \/ row' = [row EXCEPT ![e].live = @ /\ ~Fenced(c)] /\ UNCHANGED faults
           \/ Fault /\ UNCHANGED row
        /\ Reconnect(c)
        /\ UNCHANGED <<queue, dead, emitted, published>>

(* ack_delivery: done, or its outcome is unknown and the consumer          *)
(* reconnects.                                                             *)
Ack(c) ==
    /\ consumer[c].pc = "ack"
    /\ \/ queue' = queue \ {consumer[c].msg} /\ UNCHANGED faults
       \/ Fault /\ UNCHANGED queue
    /\ Reconnect(c)
    /\ UNCHANGED <<dead, row, emitted, published>>

(* recover_malformed_delivery and recover_invalid_context: a message       *)
(* without a valid body or context moves to the dead-letter queue, by a    *)
(* publication that is acknowledged after it or by a nack.                 *)
RecoverMalformed(c) ==
    LET e == consumer[c].msg.event
    IN  /\ consumer[c].pc = "malformed"
        /\ \/ dead' = Copied(e) /\ Goto(c, "ack") /\ UNCHANGED <<queue, faults>>
           \/ /\ dead' = Copied(e)
              /\ queue' = queue \ {consumer[c].msg}
              /\ Reconnect(c)
              /\ UNCHANGED faults
           \/ Fault /\ dead' \in {dead, Copied(e)} /\ Reconnect(c) /\ UNCHANGED queue
        /\ UNCHANGED <<row, emitted, published>>

(* A replica dies or loses its connection. *)
Crash(c) ==
    /\ Fault
    /\ consumer[c].pc # "idle"
    /\ Reconnect(c)
    /\ UNCHANGED <<queue, dead, row, emitted, published>>

Working(e) ==
    \E c \in Consumers : consumer[c].pc \notin {"idle", "claim"} /\ consumer[c].msg.event = e

(* A lease runs out once its consumer is gone, or under it when it is slow. *)
Expire(e) ==
    /\ row[e].status = "processing" /\ row[e].live
    /\ IF Working(e) THEN Fault ELSE UNCHANGED faults
    /\ row' = [row EXCEPT ![e].live = FALSE]
    /\ UNCHANGED <<queue, dead, consumer, emitted, published>>

ConsumerStep(c) ==
    \/ \E msg \in queue : Deliver(c, msg)
    \/ Claim(c) \/ DeadLetter(c) \/ Retry(c) \/ Consume(c) \/ Mark(c) \/ Release(c) \/ Ack(c)
    \/ RecoverMalformed(c)

Next ==
    \/ \E e \in Events : PublishOrder(e) \/ Expire(e)
    \/ \E c \in Consumers : ConsumerStep(c) \/ Crash(c)

Spec == Init /\ [][Next]_vars

(* The consume loops run until shutdown; an abandoned lease runs out. *)
Fairness ==
    /\ \A c \in Consumers : WF_vars(ConsumerStep(c))
    /\ \A e \in Events : WF_vars(Expire(e))

FairSpec == Spec /\ Fairness

-----------------------------------------------------------------------------
(* However often a message comes back and whoever dies, an event is        *)
(* consumed at most MAX_ATTEMPTS times and no claim is ahead of its row:   *)
(* redelivery cannot reset the retry budget (InboxStore::claim).           *)
BudgetNotReset ==
    \A e \in Events :
      /\ emitted[e] <= MaxAttempts
      /\ emitted[e] <= row[e].attempts
      /\ \A c \in Consumers :
           consumer[c].msg.event = e => consumer[c].claim <= row[e].attempts

(* Two consumers never work under the same claim of an event. *)
ClaimsDistinct ==
    \A c, d \in Consumers :
      /\ c # d
      /\ consumer[c].claim > 0
      /\ consumer[d].claim > 0
      /\ consumer[c].msg.event = consumer[d].msg.event
      => consumer[c].claim # consumer[d].claim

(* The queue still holds what an unfinished event needs: while a row waits *)
(* for its retry there is a message that may claim it, while it is         *)
(* processing there is one to come back to it, and a dead-lettered event   *)
(* is on the dead-letter queue, although the row, the queue and the        *)
(* acknowledgement are written one after the other.                        *)
NothingLost ==
    \A e \in published :
      CASE row[e].status = "retry_scheduled" ->
             \E msg \in queue : msg.event = e /\ msg.attempt > row[e].attempts
        [] row[e].status = "dead_lettered" -> dead[e] > 0
        [] row[e].status = "completed" -> e \notin Poison /\ emitted[e] > 0
        [] OTHER -> dead[e] > 0 \/ \E msg \in queue : msg.event = e

(* Every event is completed or on the dead-letter queue in the end, and    *)
(* the last of its messages is acknowledged.                               *)
EveryOrderEventSettles ==
    \A e \in Events :
      e \in published ~>
        /\ \A msg \in queue : msg.event # e
        /\ row[e].status = "completed" \/ dead[e] > 0
=============================================================================
