------------------------------- MODULE Outbox -------------------------------
(***************************************************************************)
(* The transactional outbox of the checkout service: rows of outbox_events *)
(* that the order transaction inserts, the publisher loops of the checkout *)
(* replicas (claim_outbox_event, publish_one_outbox,                       *)
(* publish_outbox_message), the RabbitMQ exchange they publish to, and the *)
(* operator's replay_failed_outbox_event.                                  *)
(*                                                                         *)
(* A claim token is a fresh UUID in the code.  Here it is the pair         *)
(* <<replays, attempts>> of the row at the claim, which is as unique: a    *)
(* claim increments attempts and only a replay resets it.  Wall-clock time *)
(* is the Boolean due of a row: its available_at (queued) or its           *)
(* claim_expires_at (processing) lies in the past.                         *)
(***************************************************************************)
EXTENDS Naturals, FiniteSets

CONSTANTS
    Events,       \* event ids, numbered in the order of created_at
    Publishers,   \* publisher loops, one per checkout replica
    MaxAttempts,  \* OUTBOX_MAX_ATTEMPTS
    MaxReplays    \* bound: operator replays of one event

ASSUME OutboxAssumption ==
    /\ Events \subseteq Nat \ {0}
    /\ MaxAttempts \in Nat \ {0}
    /\ MaxReplays \in Nat

VARIABLES
    row,        \* outbox_events, by event
    replays,    \* how often the operator replayed the event
    pub,        \* the local state of each publisher loop
    wire,       \* messages sent to the broker and not yet handled by it
    delivered   \* messages the exchange routed to the bound queues

vars == <<row, replays, pub, wire, delivered>>

Statuses == {"absent", "queued", "processing", "published", "failed"}
Tokens == Nat \X Nat
NoToken == <<0, 0>>
Messages == Events \X Tokens

\* idle: polling; claimed: row claimed, nothing sent; sent: awaiting the
\* confirmation; acked, transient, permanent: the result of
\* publish_outbox_message, not yet recorded in the row.
Phases == {"idle", "claimed", "sent", "acked", "transient", "permanent"}
NoEvent == 0

Rows == [status : Statuses, attempts : 0..MaxAttempts, token : Tokens, due : BOOLEAN]
Loops == [pc : Phases, event : Events \cup {NoEvent}, token : Tokens]

Idle == [pc |-> "idle", event |-> NoEvent, token |-> NoToken]
Queued == [status |-> "queued", attempts |-> 0, token |-> NoToken, due |-> TRUE]
Absent == [status |-> "absent", attempts |-> 0, token |-> NoToken, due |-> FALSE]

Init ==
    /\ row = [e \in Events |-> Absent]
    /\ replays = [e \in Events |-> 0]
    /\ pub = [p \in Publishers |-> Idle]
    /\ wire = {}
    /\ delivered = {}

-----------------------------------------------------------------------------
(* finalize_order inserts the row in the transaction that marks the order paid. *)
Enqueue(e) ==
    /\ row[e].status = "absent"
    /\ row' = [row EXCEPT ![e] = Queued]
    /\ UNCHANGED <<replays, pub, wire, delivered>>

(* The clock passes available_at or claim_expires_at. *)
Elapse(e) ==
    /\ row[e].status \in {"queued", "processing"}
    /\ ~row[e].due
    /\ row' = [row EXCEPT ![e].due = TRUE]
    /\ UNCHANGED <<replays, pub, wire, delivered>>

Exhausted(r) ==
    /\ r.attempts >= MaxAttempts
    /\ r.status = "queued" \/ (r.status = "processing" /\ r.due)

\* claim_token and claim_expires_at are cleared when a row leaves processing.
Released(r, status) ==
    [status |-> status, attempts |-> r.attempts, token |-> NoToken, due |-> FALSE]

\* The first statement of claim_outbox_event dead-letters every exhausted row.
Swept(e) == IF Exhausted(row[e]) THEN Released(row[e], "failed") ELSE row[e]

\* Mutants: the retry budget off by one; expired claims never reclaimed.
ClaimableOffByOne(e) ==
    /\ row[e].attempts <= MaxAttempts
    /\ row[e].status \in {"queued", "processing"}
    /\ row[e].due
ClaimableOnlyQueued(e) ==
    /\ row[e].attempts < MaxAttempts
    /\ row[e].status = "queued"
    /\ row[e].due

Claimable(e) ==
    /\ row[e].attempts < MaxAttempts
    /\ row[e].status \in {"queued", "processing"}
    /\ row[e].due

NextToken(e) == <<replays[e], row[e].attempts + 1>>

(* claim_outbox_event takes the oldest claimable row; the sweep commits with it. *)
Claim(p, e) ==
    /\ pub[p].pc = "idle"
    /\ Claimable(e)
    /\ \A f \in Events : Claimable(f) => e <= f
    /\ row' = [f \in Events |->
                 IF f = e
                 THEN [status |-> "processing", attempts |-> row[e].attempts + 1,
                       token |-> NextToken(e), due |-> FALSE]
                 ELSE Swept(f)]
    /\ pub' = [pub EXCEPT ![p] = [pc |-> "claimed", event |-> e, token |-> NextToken(e)]]
    /\ UNCHANGED <<replays, wire, delivered>>

(* claim_outbox_event finds no row to claim: only the sweep commits. *)
Sweep(p) ==
    /\ pub[p].pc = "idle"
    /\ \A e \in Events : ~Claimable(e)
    /\ \E e \in Events : Exhausted(row[e])
    /\ row' = [e \in Events |-> Swept(e)]
    /\ UNCHANGED <<replays, pub, wire, delivered>>

Message(p) == <<pub[p].event, pub[p].token>>

(* basic_publish hands the mandatory, persistent message to the connection. *)
Send(p) ==
    /\ pub[p].pc = "claimed"
    /\ pub' = [pub EXCEPT ![p].pc = "sent"]
    /\ wire' = wire \cup {Message(p)}
    /\ UNCHANGED <<row, replays, delivered>>

(* Nothing is sent: the stored context or payload is invalid, which is not *)
(* a transient error code, or no channel can be opened, which is.          *)
SendFails(p, result) ==
    /\ pub[p].pc = "claimed"
    /\ result \in {"transient", "permanent"}
    /\ pub' = [pub EXCEPT ![p].pc = result]
    /\ UNCHANGED <<row, replays, wire, delivered>>

\* Mutant: a returned message passes for routed.
ConfirmedIgnoringReturn(answer) ==
    IF answer = "nack" THEN "transient" ELSE "acked"

\* require_routed_confirmation: only Ack(None) is success; a returned
\* message is messaging_unroutable, not transient; a Nack is transient.
Confirmed(answer) ==
    CASE answer = "ack" -> "acked"
      [] answer = "returned" -> "permanent"
      [] answer = "nack" -> "transient"

Answers == {"ack", "returned", "nack"}

(* The broker handles the message of a publisher that still awaits it. *)
Answer(p, answer) ==
    /\ pub[p].pc = "sent"
    /\ Message(p) \in wire
    /\ wire' = wire \ {Message(p)}
    /\ delivered' = IF answer = "ack" THEN delivered \cup {Message(p)} ELSE delivered
    /\ pub' = [pub EXCEPT ![p].pc = Confirmed(answer)]
    /\ UNCHANGED <<row, replays>>

(* The broker routes or loses a message whose confirmation reaches nobody: *)
(* the publisher timed out, crashed, or loses the confirmation with the    *)
(* connection.                                                             *)
AnswerLost(m, routed) ==
    /\ m \in wire
    /\ wire' = wire \ {m}
    /\ delivered' = IF routed THEN delivered \cup {m} ELSE delivered
    /\ UNCHANGED <<row, replays, pub>>

(* The confirmation fails or OUTBOX_PUBLISH_TIMEOUT passes: both transient. *)
ConfirmFails(p) ==
    /\ pub[p].pc = "sent"
    /\ pub' = [pub EXCEPT ![p].pc = "transient"]
    /\ UNCHANGED <<row, replays, wire, delivered>>

-----------------------------------------------------------------------------
\* Mutant: the update without its token test.
HoldsClaimAnyToken(p) ==
    LET r == row[pub[p].event]
    IN  r.status = "processing" /\ ~r.due

\* The WHERE clause of both settling updates of publish_one_outbox.
HoldsClaim(p) ==
    LET r == row[pub[p].event]
    IN  r.status = "processing" /\ r.token = pub[p].token /\ ~r.due

\* outbox_failure_status, for the attempt number the claim returned.
FailureStatus(p) ==
    IF pub[p].pc = "permanent" \/ pub[p].token[2] >= MaxAttempts THEN "failed" ELSE "queued"

(* publish_one_outbox records the result; zero updated rows is            *)
(* outbox_state_conflict and leaves the row to whoever owns it.           *)
Settle(p) ==
    /\ pub[p].pc \in {"acked", "transient", "permanent"}
    /\ LET status == IF pub[p].pc = "acked" THEN "published" ELSE FailureStatus(p)
       IN  row' = IF HoldsClaim(p)
                  THEN [row EXCEPT ![pub[p].event] = Released(@, status)]
                  ELSE row
    /\ pub' = [pub EXCEPT ![p] = Idle]
    /\ UNCHANGED <<replays, wire, delivered>>

(* The replica stops, or a database error abandons the iteration: what the *)
(* loop knew is gone, the row and the messages on the wire are not.        *)
Crash(p) ==
    /\ pub[p].pc # "idle"
    /\ pub' = [pub EXCEPT ![p] = Idle]
    /\ UNCHANGED <<row, replays, wire, delivered>>

(* The operator calls replay_failed_outbox_event: a new publish budget. *)
Replay(e) ==
    /\ row[e].status = "failed"
    /\ replays[e] < MaxReplays
    /\ replays' = [replays EXCEPT ![e] = @ + 1]
    /\ row' = [row EXCEPT ![e] = Queued]
    /\ UNCHANGED <<pub, wire, delivered>>

-----------------------------------------------------------------------------
LoopStep(p) ==
    \/ Send(p)
    \/ \E result \in {"transient", "permanent"} : SendFails(p, result)
    \/ ConfirmFails(p)
    \/ Settle(p)

Poll(p) == Sweep(p) \/ \E e \in Events : Claim(p, e)

Next ==
    \/ \E e \in Events : Enqueue(e) \/ Elapse(e) \/ Replay(e)
    \/ \E p \in Publishers : Poll(p) \/ LoopStep(p) \/ Crash(p)
    \/ \E p \in Publishers, answer \in Answers : Answer(p, answer)
    \/ \E m \in wire, routed \in BOOLEAN : AnswerLost(m, routed)

Spec == Init /\ [][Next]_vars

(* The clock advances, a polling loop polls again (250 ms or 1 s later) and *)
(* a loop that holds a claim goes on: the publish timeout bounds the wait   *)
(* for the broker, so nothing is assumed of the broker.                     *)
Fairness ==
    /\ \A e \in Events : WF_vars(Elapse(e))
    /\ \A p \in Publishers : WF_vars(Poll(p)) /\ WF_vars(LoopStep(p))

FairSpec == Spec /\ Fairness

-----------------------------------------------------------------------------
(* The state the code can be in: statuses, counters and tokens in range. *)
TypeOK ==
    /\ row \in [Events -> Rows]
    /\ replays \in [Events -> 0..MaxReplays]
    /\ pub \in [Publishers -> Loops]
    /\ wire \subseteq Messages
    /\ delivered \subseteq Messages

(* An event recorded as published was routed to the queues at least once:   *)
(* no confirmation of another claim, no returned message and no stale       *)
(* publisher makes publish_one_outbox set published for a lost event.       *)
PublishedWasRouted ==
    \A e \in Events :
        row[e].status = "published" => \E m \in delivered : m[1] = e

(* Duplicates are bounded: every routed copy of an event belongs to one of  *)
(* the MaxAttempts claims of one publish budget, whatever crashes, timeouts *)
(* and late confirmations do; only an operator replay buys another budget.  *)
CopiesWithinBudget ==
    \A m \in delivered :
        /\ m[2][1] <= replays[m[1]]
        /\ m[2][2] \in 1..MaxAttempts

(* A row in processing whose lease runs is touched by nobody but the loop   *)
(* that holds its token: no second replica settles or reclaims it.          *)
LiveClaimIsExclusive ==
    [][\A e \in Events :
         (row[e].status = "processing" /\ ~row[e].due /\ row'[e] # row[e])
           => \/ row'[e] = [row[e] EXCEPT !.due = TRUE]
              \/ \E p \in Publishers :
                   /\ pub[p].event = e /\ pub[p].token = row[e].token
                   /\ pub'[p] = Idle]_vars

(* published is final, and a dead-lettered row is reopened only by the      *)
(* operator's replay: a late publisher revives neither.                     *)
TerminalRowsStay ==
    [][\A e \in Events :
         /\ row[e].status = "published" => row'[e] = row[e]
         /\ (row[e].status = "failed" /\ row'[e] # row[e]) => replays'[e] = replays[e] + 1]_vars

(* The outbox keeps the promise of LeasedDelivery: a live claim is not     *)
(* taken over, no more copies are routed than claims were made, published  *)
(* only after a copy was routed, final unless the operator replays.        *)
PromisedState == [absent |-> "none", queued |-> "open", processing |-> "held",
                  published |-> "done", failed |-> "dead"]
Promise == INSTANCE LeasedDelivery WITH
    Items <- Events, Budget <- MaxAttempts,
    copies <- [e \in Events |-> Cardinality({m \in delivered : m[1] = e})],
    item <- [e \in Events |->
               [state |-> PromisedState[row[e].status],
                live |-> row[e].status = "processing" /\ ~row[e].due,
                tries |-> row[e].attempts, round |-> replays[e]]]
OutboxKeepsPromise == Promise!Spec

(* Every enqueued event is eventually published or dead-lettered, however   *)
(* often replicas crash between the claim and the settling update.          *)
EveryEventSettles ==
    \A e \in Events :
        row[e].status = "queued" ~> row[e].status \in {"published", "failed"}
=============================================================================
