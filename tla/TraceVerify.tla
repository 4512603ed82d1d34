---------------------------- MODULE TraceVerify -----------------------------
(***************************************************************************)
(* The CLI's verification of a commerce trace.  The services export their  *)
(* spans in any order and at any time while the verifier polls: an attempt *)
(* walks from the anchor trace to every linked one, a request per trace,   *)
(* so that it sees the traces as they were at different times, then        *)
(* analyses what it has and asks the storefront for the analytics row.     *)
(* Any error ends the attempt and not the verification, which ends with    *)
(* the first attempt that passes or with the deadline.                     *)
(*                                                                         *)
(* The run that is verified: a checkout in the anchor trace, its message   *)
(* delivered Deliveries times to the order queue and once to the analytics *)
(* queue, and a notification below the first delivery.  A consumer has the *)
(* producer as its parent and links to it; the verifier allows for one     *)
(* that starts a trace of its own and only links (Restarted).  A fault is  *)
(* one span recorded wrongly, or one delivery that met a live claim and    *)
(* was deferred: what is delivered next carries the context of the         *)
(* consumer that deferred it.                                              *)
(***************************************************************************)
EXTENDS Integers, Sequences, FiniteSets

CONSTANTS
    Steps,        \* the services of the checkout whose spans are required
    Deliveries,   \* bound: deliveries of the order event
    Restarted,    \* deliveries whose consumer starts a trace; 0 is the analytics event
    Faults,       \* records: kind, at
    VerifyTime,   \* COMMERCE_VERIFY_TIMEOUT_SECONDS, in poll intervals
    TraceLimit    \* MAX_TRACES

ASSUME VerifyAssumption ==
    /\ IsFiniteSet(Steps) /\ ("web" \in Steps <=> "storefront" \in Steps)
    /\ Restarted \subseteq Nat
    /\ Deliveries \in Nat \ {0} /\ VerifyTime \in Nat \ {0} /\ TraceLimit \in Nat

VARIABLES
    fault,     \* what the run recorded wrongly
    stored,    \* spans Parallax has
    row,       \* whether ClickHouse has the analytics event
    verifier,  \* the attempt that is running
    clock      \* time since the verification began

verifyVars == <<fault, stored, row, verifier, clock>>

-----------------------------------------------------------------------------
(* The spans of the run.                                                   *)

None == [role |-> "none"]
Span(id, trace, parent, service, role) ==
    [id |-> id, trace |-> trace, parent |-> parent, service |-> service, role |-> role]
Carrier(sender) ==
    [target |-> sender, traceparent |-> sender, state |-> "vendor", bag |-> "tenant"]

Anchor == <<"checkout", 0>>
Delivery(n) == <<"delivery", n>>

(* A step stands for the spans that are required of a service: the quote,  *)
(* the reservation, the authorization of the payment.                      *)
Root == Span(0, Anchor, None, "checkout", "checkout")
Step(service) == Span(0, Anchor, Root, service, "step")
Producer == Span(0, Anchor, Root, "checkout", "send")

(* startConsumerSpan: the parent is what the message carries.              *)
Received(n, role) ==
    IF n \in Restarted THEN Span(n, Delivery(n), None, "fulfillment", role)
    ELSE Span(n, Anchor, Producer, "fulfillment", role)
Consumer(n) == Received(n, "orders")
Analytics == Received(0, "analytics")
Notification == Span(0, Consumer(1).trace, Consumer(1), "notifications", "notify")

Spans ==
    {Root, Producer, Analytics, Notification}
        \cup {Step(service) : service \in Steps}
        \cup {Consumer(n) : n \in 1..Deliveries}

(* A fault of each kind is at a span whose record shows it: a span with a  *)
(* parent, one that carries the business baggage, a message or an order,   *)
(* or a consumer; a deferred delivery comes after another in its trace.    *)
FaultySpans(kind) ==
    LET consumers == {Consumer(n) : n \in 1..Deliveries} \cup {Analytics}
    IN  IF kind \in {"none", "row"} THEN {None}
        ELSE IF kind = "detached" THEN {s \in Spans : s.parent # None}
        ELSE IF kind = "baggage" THEN {Root, Producer, Notification} \cup consumers
        ELSE IF kind = "message" THEN {Producer, Notification} \cup consumers
        ELSE IF kind = "order" THEN {Notification} \cup consumers
        ELSE IF kind = "deferred" THEN {Consumer(n) : n \in {m \in 2..Deliveries : {m - 1, m} \cap Restarted = {}}}
        ELSE consumers

ASSUME FaultsAssumption ==
    \A f \in Faults :
      /\ f.kind \in {"none", "row", "detached", "baggage", "message", "order",
                     "unlinked", "carrier", "state", "malformed", "deferred"}
      /\ f.at \in FaultySpans(f.kind)

Wrong(s, kind) == fault.kind = kind /\ fault.at = s

(* defer: the message is published again with the context of the consumer  *)
(* that met the live claim, here of the delivery before.                   *)
Sender(s) == IF Wrong(s, "deferred") THEN Consumer(s.id - 1) ELSE Producer

(* What a span says of itself, by its attributes and its typed links. *)
parent_span_id(s) ==
    IF Wrong(s, "detached") THEN None ELSE IF Wrong(s, "deferred") THEN Sender(s) ELSE s.parent
business_baggage(s) == IF Wrong(s, "baggage") THEN "other" ELSE "tenant"
message_id(s) == IF Wrong(s, "message") THEN "m2" ELSE "m1"
order_id(s) == IF Wrong(s, "order") THEN "o2" ELSE "o1"
typed_links(s) ==
    IF s.role \notin {"orders", "analytics"} \/ Wrong(s, "unlinked") THEN {}
    ELSE {[Carrier(Sender(s)) EXCEPT
              !.traceparent = IF Wrong(s, "carrier") THEN Root ELSE @,
              !.state = IF Wrong(s, "state") THEN "changed" ELSE @,
              !.bag = IF Wrong(s, "malformed") THEN "malformed" ELSE @]}

(* Parallax: the traces that a stored link joins to this one. *)
linkedTraces(t) ==
    {s.trace : s \in {c \in stored : \E l \in typed_links(c) : l.target.trace = t}}
        \cup {l.target.trace : l \in UNION {typed_links(c) : c \in {d \in stored : d.trace = t}}}

-----------------------------------------------------------------------------
(* The analysis of the spans that were fetched.                            *)

With(nodes, role) == {s \in nodes : s.role = role}

(* validate_parent_topology *)
parent_topology(nodes) ==
    LET roots(t) == {s \in nodes : s.trace = t /\ parent_span_id(s) = None}
    IN  /\ \A s \in nodes : parent_span_id(s) \in nodes \cup {None}
        /\ \A s \in nodes : Cardinality(roots(s.trace)) = 1

(* validate_typed_links, with the roles and the message that both ends     *)
(* name: a link to a consumer is refused                                   *)
typed_links_resolve(nodes) ==
    \A s \in nodes : \A l \in typed_links(s) :
        /\ l.target \in nodes
        /\ s.role \in {"orders", "analytics"} /\ l.target.role = "send"
        /\ message_id(s) = message_id(l.target)

(* validate_causal_connectivity: a breadth-first search over parents and   *)
(* links, both ways, from the root of the anchor trace                     *)
causally_connected(nodes) ==
    LET adjacent(a, b) ==
            \/ parent_span_id(a) = b \/ parent_span_id(b) = a
            \/ \E l \in typed_links(a) : l.target = b
            \/ \E l \in typed_links(b) : l.target = a
        reachable[n \in 0..Cardinality(nodes)] ==
            IF n = 0 THEN {s \in nodes : s.trace = Anchor /\ parent_span_id(s) = None}
            ELSE LET frontier == reachable[n - 1]
                 IN  frontier \cup {b \in nodes : \E a \in frontier : adjacent(a, b)}
    IN  reachable[Cardinality(nodes)] = nodes

(* analyze_details: the evidence that must be there.  A checkout that was  *)
(* not made in the browser has neither of its two services.                *)
required_evidence(nodes) ==
    LET services == {s.service : s \in With(nodes, "step")}
        browser == {"web", "storefront"}
    IN  /\ Steps \ browser \subseteq services
        /\ browser \cap services # {} => browser \subseteq services
        /\ With(nodes, "send") # {} /\ With(nodes, "orders") # {} /\ With(nodes, "analytics") # {}
        /\ Cardinality(With(nodes, "checkout")) = 1

(* carrier_from_attributes: every field of the carrier is W3C syntax.      *)
well_formed(l) == l.state # "malformed" /\ l.bag # "malformed"

(* validate_rabbit_edge: the carrier names the producer it links to and    *)
(* has the checkout's business baggage.                                    *)
rabbit_edge(l) ==
    well_formed(l) /\ l.traceparent = l.target /\ l.bag = business_baggage(Root)

\* Mutant: one edge for the queue, however often the message was delivered.
OneEdge(nodes, role) ==
    /\ Cardinality(With(nodes, role)) = 1
    /\ \A s \in With(nodes, role) :
          /\ typed_links(s) # {}
          /\ \A l \in typed_links(s) : rabbit_edge(l)

(* require_link_semantics and validate_checkout_rabbit_edges *)
rabbit_edges(nodes, role) ==
    LET edges == {[source |-> s, link |-> l] :
                     s \in With(nodes, role), l \in UNION {typed_links(c) : c \in With(nodes, role)}}
        carried == {e \in edges : e.link \in typed_links(e.source)}
    IN  /\ \A s \in With(nodes, role) : \E e \in carried : e.source = s
        /\ Cardinality(carried) = Cardinality(With(nodes, role))
        /\ \A e \in carried : rabbit_edge(e.link)

one_tracestate(nodes) ==
    Cardinality({l.state : l \in UNION {typed_links(s) : s \in nodes}}) = 1

\* Mutant: the consumers may name different orders.
OneMessage(nodes) ==
    LET messaging == With(nodes, "send") \cup With(nodes, "orders") \cup With(nodes, "analytics")
    IN  /\ \A s \in messaging : business_baggage(s) = business_baggage(Root)
        /\ \A s, t \in messaging : message_id(s) = message_id(t)

(* require_span_business_baggage and verified_commerce_identity *)
one_identity(nodes) ==
    LET messaging == With(nodes, "send") \cup With(nodes, "orders") \cup With(nodes, "analytics")
    IN  /\ \A s \in messaging : business_baggage(s) = business_baggage(Root)
        /\ \A s, t \in messaging : message_id(s) = message_id(t)
        /\ \A s, t \in messaging \ With(nodes, "send") : order_id(s) = order_id(t)

(* require_notification_evidence: some notification below an order         *)
(* consumer, of the order and the message; the run has one                 *)
notification_evidence(nodes) ==
    \E s \in With(nodes, "notify") :
        /\ parent_span_id(s) \in With(nodes, "orders")
        /\ business_baggage(s) = business_baggage(Root)
        /\ \A c \in With(nodes, "orders") :
              order_id(s) = order_id(c) /\ message_id(s) = message_id(c)

analyze_details(nodes) ==
    /\ parent_topology(nodes) /\ typed_links_resolve(nodes) /\ causally_connected(nodes)
    /\ required_evidence(nodes)
    /\ rabbit_edges(nodes, "orders") /\ rabbit_edges(nodes, "analytics") /\ one_tracestate(nodes)
    /\ one_identity(nodes) /\ notification_evidence(nodes)

-----------------------------------------------------------------------------
(* The verification.                                                       *)

Idle == [phase |-> "idle", pending |-> << >>, scheduled |-> {}, nodes |-> {},
         whole |-> FALSE, error |-> "none"]

VerifyInit ==
    /\ fault = [kind |-> "none", at |-> None]
    /\ stored = {}
    /\ row = FALSE
    /\ verifier = Idle
    /\ clock = 0

(* The checkout ran; the verifier is started on its trace. *)
BeginVerify ==
    /\ verifier.phase = "idle"
    /\ fault' \in Faults
    /\ verifier' = [verifier EXCEPT !.phase = "due"]
    /\ UNCHANGED <<stored, row, clock>>

ExportSpan(s) ==
    /\ verifier.phase \notin {"idle", "passed", "failed"}
    /\ s \notin stored
    /\ stored' = stored \cup {s}
    /\ UNCHANGED <<fault, row, verifier, clock>>

IngestRow ==
    /\ verifier.phase \notin {"idle", "passed", "failed"}
    /\ ~row
    /\ row' = TRUE
    /\ UNCHANGED <<fault, stored, verifier, clock>>

StartAttempt ==
    /\ verifier.phase = "due"
    /\ verifier' =
          IF clock = VerifyTime THEN [verifier EXCEPT !.phase = "failed"]
          ELSE [phase |-> "fetching", pending |-> <<Anchor>>, scheduled |-> {Anchor},
                nodes |-> {}, whole |-> stored = Spans /\ row, error |-> "none"]
    /\ UNCHANGED <<fault, stored, row, clock>>

(* The attempt fails: no time is left, or the next one is after a sleep. *)
Retry(error) ==
    verifier' = [Idle EXCEPT !.whole = verifier.whole, !.error = error,
                             !.phase = IF clock = VerifyTime THEN "failed" ELSE "asleep"]

(* One turn of fetch_trace_graph. *)
FetchTrace ==
    /\ verifier.phase = "fetching" /\ verifier.pending # << >>
    /\ LET t == Head(verifier.pending)
           found == {s \in stored : s.trace = t}
           new == (linkedTraces(t)) \ verifier.scheduled
           order == CHOOSE q \in [1..Cardinality(new) -> new] : \A i, j \in DOMAIN q : q[i] = q[j] => i = j
       IN  IF found = {} \/ Cardinality(verifier.scheduled \cup new) > TraceLimit
           THEN Retry("content")
           ELSE verifier' = [verifier EXCEPT !.pending = Tail(@) \o order,
                                             !.scheduled = @ \cup new, !.nodes = @ \cup found]
    /\ UNCHANGED <<fault, stored, row, clock>>

Analyze ==
    /\ verifier.phase = "fetching" /\ verifier.pending = << >>
    /\ IF analyze_details(verifier.nodes) THEN verifier' = [verifier EXCEPT !.phase = "evidence"]
       ELSE Retry("content")
    /\ UNCHANGED <<fault, stored, row, clock>>

(* verify_clickhouse_evidence: the row of this trace and this order *)
CheckEvidence ==
    /\ verifier.phase = "evidence"
    /\ IF row /\ fault.kind # "row" THEN verifier' = [verifier EXCEPT !.phase = "passed"]
       ELSE Retry("content")
    /\ UNCHANGED <<fault, stored, row, clock>>

(* A request fails or answers with an error. *)
RequestFails ==
    /\ verifier.phase \in {"fetching", "evidence"}
    /\ Retry("request")
    /\ UNCHANGED <<fault, stored, row, clock>>

(* Time passes under an attempt, or the sleep between two ends. *)
VerifyTick ==
    /\ clock < VerifyTime
    /\ verifier.phase \in {"fetching", "evidence", "asleep"}
    /\ clock' = clock + 1
    /\ verifier' = IF verifier.phase = "asleep" THEN [verifier EXCEPT !.phase = "due"] ELSE verifier
    /\ UNCHANGED <<fault, stored, row>>

(* tokio::time::timeout around the attempt *)
VerifyTimeout ==
    /\ clock = VerifyTime
    /\ verifier.phase \in {"fetching", "evidence"}
    /\ verifier' = [Idle EXCEPT !.phase = "failed"]
    /\ UNCHANGED <<fault, stored, row, clock>>

VerifyStep ==
    StartAttempt \/ FetchTrace \/ Analyze \/ CheckEvidence \/ RequestFails \/ VerifyTick \/ VerifyTimeout

VerifyNext == BeginVerify \/ (\E s \in Spans : ExportSpan(s)) \/ IngestRow \/ VerifyStep

VerifySpec == VerifyInit /\ [][VerifyNext]_verifyVars

-----------------------------------------------------------------------------
(* A verification passes only a run that was seen to its end: the producer *)
(* and both kinds of consumer, a notification and the analytics row exist, *)
(* and no span that was fetched is recorded wrongly.  The graph was read a *)
(* trace at a time while the services still exported.                      *)
PassedRunIsSound ==
    verifier.phase = "passed" =>
        /\ row /\ {Root, Producer, Analytics, Notification, Consumer(1)} \subseteq stored
        /\ fault.kind # "row"
        /\ fault.kind # "deferred" => fault.at \notin verifier.nodes

(* A run without fault in which no delivery was deferred is not rejected   *)
(* by an attempt that began when all of it was stored: the walk over the   *)
(* links finds every trace, and deliveries that the broker repeats with    *)
(* what the producer wrote do not count against the run.                   *)
CompleteRunPasses ==
    verifier.whole /\ fault.kind = "none" => verifier.error # "content"

(* False of the code: a complete run in which a delivery met a live claim  *)
(* and was deferred is rejected, by each attempt that has all of it, for   *)
(* its link from a consumer to a consumer (validate_link_semantics).       *)
DeferredRunPasses ==
    verifier.whole /\ fault.kind \in {"none", "deferred"} => verifier.error # "content"

=============================================================================
