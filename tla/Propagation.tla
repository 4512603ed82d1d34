---------------------------- MODULE Propagation -----------------------------
(***************************************************************************)
(* Identity and context over the hops of one request.  A client enters at  *)
(* the storefront, at checkout or at the publish endpoint of orders.       *)
(* Checkout calls pricing and inventory, stores a W3C carrier with its     *)
(* outbox row, and the relay sends the row to fulfillment, which notifies; *)
(* orders publishes to its own queue, consumes and republishes.            *)
(*                                                                         *)
(* A baggage is a function from keys to entries [value, meta].  The four   *)
(* fields with a default (user.tier, customer.segment, region and          *)
(* request.priority) are treated alike everywhere and are one key here,    *)
(* "business"; "cli" stands for the safe keys that services only pass on   *)
(* and "other" for every key that is not on the list.  A value is an       *)
(* identifier, "empty" or "oversize"; the metadata of an entry is absent,  *)
(* a property "key=value", a bare property, or one with an empty part.     *)
(***************************************************************************)
EXTENDS Naturals, FiniteSets

CONSTANTS
    Tenants,        \* tenant identifiers
    ClientRequests  \* what clients send: door, body, header and carrier

ASSUME PropagationAssumption ==
    /\ Tenants \cap {"absent", "empty", "oversize", "Invalid", "Missing", "Conflicting"} = {}
    /\ \A r \in ClientRequests : r.door \in {"storefront", "checkout", "orders"}

Absent == "absent"
SAFE_BUSINESS_BAGGAGE_KEYS == {"tenant", "session", "business", "variant", "cli"}
NoBaggage == [k \in {} |-> Absent]

(* One entry, and entries that replace the older ones of their keys.       *)
Only(key, value) == [k \in {key} |-> value]
Overlay(new, old) ==
    [k \in DOMAIN new \cup DOMAIN old |-> IF k \in DOMAIN new THEN new[k] ELSE old[k]]

VARIABLES
    journey,   \* the client's request, and where it is now
    context,   \* the active OpenTelemetry context: trace and baggage
    carrier,   \* the carrier last sent or stored
    acted      \* the tenant each hop acted for

propagationVars == <<journey, context, carrier, acted>>

NoContext == [trace |-> Absent, bag |-> NoBaggage]
NoCarrier == [trace |-> Absent, state |-> FALSE, bag |-> NoBaggage]

-----------------------------------------------------------------------------
(* The library: what may cross a boundary, and how contexts are built.     *)

is_safe_baggage_entry(key, entry) ==
    key \in SAFE_BUSINESS_BAGGAGE_KEYS /\ entry.value # "oversize"

clone_baggage(bag) ==
    [k \in {j \in DOMAIN bag : is_safe_baggage_entry(j, bag[j])} |-> bag[k]]

with_safe_parent_baggage(own, parent) == Overlay(clone_baggage(parent), clone_baggage(own))

(* New entries carry no metadata and replace the ones already there.       *)
extend_baggage(bag, values) ==
    Overlay(clone_baggage([k \in DOMAIN values |-> [value |-> values[k], meta |-> Absent]]),
            clone_baggage(bag))

baggage_or(bag, key, default) == IF key \in DOMAIN bag THEN bag[key].value ELSE default

\* Mutant: the tenant is taken from the parent's baggage only.
ContextWithoutTenant(own, parent, tenant, business) ==
    LET bag == with_safe_parent_baggage(own, parent)
    IN  IF "business" \in DOMAIN bag THEN bag ELSE extend_baggage(bag, Only("business", business))

with_business_context_from_parent(own, parent, tenant, business) ==
    LET bag == extend_baggage(with_safe_parent_baggage(own, parent), Only("tenant", tenant))
    IN  IF "business" \in DOMAIN bag THEN bag ELSE extend_baggage(bag, Only("business", business))

(* A carrier without a traceparent is extracted to a context without one.  *)
extract_context(c) == [trace |-> c.trace, bag |-> clone_baggage(c.bag)]

(* A server span continues a valid parent and starts a trace otherwise.    *)
set_parent_if_valid(parent) == IF parent.trace = Absent THEN "own" ELSE parent.trace

inject_context_headers(ctx) ==
    [trace |-> ctx.trace, state |-> ctx.trace # Absent, bag |-> clone_baggage(ctx.bag)]

(* A traceparent, and a tracestate with it.                                *)
validate_trace_headers(c) == c.trace # Absent /\ c.state

validate_baggage_header(bag) ==
    bag # NoBaggage /\ \A k \in DOMAIN bag : bag[k].meta # "broken"

validate_durable_context(c) == validate_trace_headers(c) /\ validate_baggage_header(c.bag)

(* The grammar of the RabbitMQ consumers asks for a value, and for         *)
(* metadata of the form key=value.                                         *)
validate_baggage(bag) ==
    bag # NoBaggage
      /\ \A k \in DOMAIN bag : bag[k].value # "empty" /\ bag[k].meta \in {Absent, "kv"}

validate_propagation_headers(c) == c.trace # Absent /\ c.state /\ validate_baggage(c.bag)

(* Every source that is present has to name the same valid tenant.         *)
resolve_tenant_candidates(candidates) ==
    IF candidates \cap {"empty", "oversize"} # {} THEN "Invalid"
    ELSE IF candidates = {} THEN "Missing"
    ELSE IF Cardinality(candidates) > 1 THEN "Conflicting"
    ELSE CHOOSE t \in candidates : TRUE

Given(value) == {value} \ {Absent}

FromBaggage(c) == IF "tenant" \in DOMAIN c.bag THEN {c.bag["tenant"].value} ELSE {}

resolve_http_tenant_identity(c, explicit, requested) ==
    resolve_tenant_candidates(Given(requested) \cup Given(explicit) \cup FromBaggage(c))

resolve_grpc_tenant_identity(c, requested) ==
    resolve_tenant_candidates(Given(requested) \cup FromBaggage(c))

Resolved(tenant) == tenant \in Tenants

(* A session may come from the body or the baggage; both must agree.  An   *)
(* empty value counts as none.                                             *)
resolve_session_id(bag, requested, fresh) ==
    LET propagated == baggage_or(bag, "session", Absent)
        named == (Given(requested) \cup Given(propagated)) \ {"empty"}
    IN  CASE Cardinality(named) > 1 -> "Conflicting"
          [] named = {} -> fresh
          [] OTHER -> CHOOSE s \in named : TRUE

-----------------------------------------------------------------------------
At(hop) == journey.hop = hop
Sent == journey.sent

(* The hop acts for a tenant and passes the journey on.                    *)
Go(hop, tenant, ctx, c) ==
    /\ journey' = [journey EXCEPT !.hop = hop]
    /\ acted' = Overlay(Only(journey.hop, tenant), acted)
    /\ context' = ctx
    /\ carrier' = c

Refuse(reason) ==
    /\ journey' = [journey EXCEPT !.hop = reason]
    /\ UNCHANGED <<context, carrier, acted>>

PropagationInit ==
    /\ journey = [hop |-> "client", sent |-> Absent]
    /\ context = NoContext
    /\ carrier = NoCarrier
    /\ acted = [h \in {} |-> Absent]

ClientSend ==
    /\ At("client")
    /\ \E r \in ClientRequests :
        /\ journey' = [hop |-> r.door, sent |-> r]
        /\ carrier' = [trace |-> r.trace, state |-> r.trace # Absent, bag |-> r.bag]
    /\ UNCHANGED <<context, acted>>

(* The storefront: identity from the request and the carrier, the business *)
(* fields from the baggage or their defaults, and a refusal of empty ones. *)
for_request ==
    LET inbound == extract_context(carrier)
    IN  extend_baggage(with_safe_parent_baggage(NoBaggage, inbound.bag),
                       Only("business", baggage_or(inbound.bag, "business", "std")))

StorefrontTenant ==
    LET inbound == resolve_http_tenant_identity(carrier, Sent.header, Absent)
        requested == IF Sent.tenant = "empty" THEN Absent ELSE Sent.tenant
    IN  IF inbound \in {"Invalid", "Conflicting"}
        THEN inbound
        ELSE resolve_tenant_candidates(Given(requested) \cup (Given(inbound) \ {"Missing"}))

outbound_context_for_identity(bag, tenant, session) ==
    with_business_context_from_parent(NoBaggage,
        extend_baggage(bag, Overlay(Only("tenant", tenant), Only("session", session))),
        tenant, "std")

Storefront ==
    /\ At("storefront")
    /\ LET tenant  == StorefrontTenant
           session == resolve_session_id(clone_baggage(carrier.bag), Sent.session, "fresh")
           ctx     == [trace |-> set_parent_if_valid(extract_context(carrier)),
                       bag |-> outbound_context_for_identity(for_request, tenant, session)]
       IN  IF Resolved(tenant) /\ session # "Conflicting"
                 /\ baggage_or(for_request, "business", "std") # "empty"
           THEN Go("checkout", tenant, ctx, inject_context_headers(ctx))
           ELSE Refuse("refused")

(* Checkout: the body is the storefront's or the client's own.             *)
Body ==
    IF "storefront" \in DOMAIN acted
    THEN [tenant |-> acted["storefront"], header |-> Absent,
          session |-> baggage_or(context.bag, "session", Absent)]
    ELSE [tenant |-> IF Sent.tenant = "empty" THEN Absent ELSE Sent.tenant,
          header |-> Sent.header, session |-> Sent.session]

checkout_request ==
    /\ At("checkout")
    /\ LET parent  == extract_context(carrier)
           tenant  == resolve_http_tenant_identity(carrier, Body.header, Body.tenant)
           session == resolve_session_id(parent.bag, Body.session, "fresh")
           bag     == with_business_context_from_parent(NoBaggage, parent.bag, tenant, "std")
           ctx     == [trace |-> set_parent_if_valid(parent),
                       bag |-> extend_baggage(bag, Overlay(Only("session", session),
                                                           Only("variant", "v")))]
       IN  IF Resolved(tenant) /\ session # "Conflicting"
           THEN Go("calls", tenant, ctx, inject_context_headers(ctx))
           ELSE Refuse("refused")

(* Pricing over gRPC and then inventory over HTTP resolve the identity     *)
(* from the request and the metadata checkout sent.                        *)
quote_identity == resolve_grpc_tenant_identity(carrier, acted["checkout"])
reserve_identity == resolve_http_tenant_identity(carrier, Absent, acted["checkout"])

DownstreamCalls ==
    /\ At("calls")
    /\ IF Resolved(quote_identity) /\ Resolved(reserve_identity)
       THEN Go("store", reserve_identity, context, carrier)
       ELSE Refuse("callee refused")

(* The carrier of the outbox row, the compensations and the reconciliation *)
(* jobs; the order is not created when it is incomplete.                   *)
stored_propagation ==
    /\ At("store")
    /\ LET c == inject_context_headers(context)
       IN  IF validate_durable_context(c)
           THEN Go("relay", acted["checkout"], NoContext, c)
           ELSE Refuse("refused")

stored_carrier_context == validate_durable_context(carrier)

publish_event ==
    /\ At("relay")
    /\ LET parent == extract_context(carrier)
           ctx == [trace |-> set_parent_if_valid(parent),
                   bag |-> with_safe_parent_baggage(NoBaggage, parent.bag)]
       IN  IF stored_carrier_context
           THEN Go("fulfillment", acted["store"], ctx, inject_context_headers(ctx))
           ELSE Refuse("row unreadable")

(* RabbitTraceContext (parseBaggage) refuses a bad carrier for good; the   *)
(* relay sent it by the rules of the stored carrier only.  A good one goes *)
(* with the notification request.                                          *)
fulfillment_consume ==
    /\ At("fulfillment")
    /\ IF validate_propagation_headers(carrier)
       THEN LET ctx == extract_context(carrier)
            IN  Go("notify", acted["relay"], ctx, inject_context_headers(ctx))
       ELSE Refuse("dead-lettered")

notify ==
    /\ At("notify")
    /\ LET tenant == resolve_http_tenant_identity(carrier, Absent, acted["fulfillment"])
       IN  IF Resolved(tenant) /\ validate_durable_context(carrier)
           THEN Go("job", tenant, NoContext, carrier)
           ELSE Refuse("callee refused")

job_context_headers ==
    /\ At("job")
    /\ IF validate_durable_context(carrier)
       THEN Go("done", acted["notify"], extract_context(carrier), carrier)
       ELSE Refuse("row unreadable")

(* Orders publishes only with a carrier its consumer will accept; an       *)
(* orphan is detached from the caller's context.                           *)
orders_publish ==
    /\ At("orders")
    /\ \E orphan \in BOOLEAN :
         LET parent == IF orphan THEN NoContext ELSE extract_context(carrier)
             tenant == resolve_http_tenant_identity(carrier, Sent.header, Sent.tenant)
             ctx == [trace |-> set_parent_if_valid(parent),
                     bag |-> with_business_context_from_parent(NoBaggage, parent.bag, tenant, "std")]
         IN  IF Resolved(tenant) /\ validate_propagation_headers(inject_context_headers(ctx))
             THEN Go("queue", tenant, ctx, inject_context_headers(ctx))
             ELSE Refuse("refused")

orders_consume ==
    /\ At("queue")
    /\ IF validate_propagation_headers(carrier)
       THEN Go("consumed", acted["orders"], extract_context(carrier), carrier)
       ELSE Refuse("dead-lettered")

(* A retry: the producer span with the inbound baggage, validated again.   *)
republish ==
    /\ At("consumed")
    /\ LET c == inject_context_headers(context)
       IN  IF validate_propagation_headers(c)
           THEN Go("done", acted["queue"], context, c)
           ELSE Refuse("row unreadable")

PropagationNext ==
    \/ ClientSend
    \/ Storefront
    \/ checkout_request
    \/ DownstreamCalls
    \/ stored_propagation
    \/ publish_event
    \/ fulfillment_consume
    \/ notify
    \/ job_context_headers
    \/ orders_publish
    \/ orders_consume
    \/ republish

PropagationSpec == PropagationInit /\ [][PropagationNext]_propagationVars

-----------------------------------------------------------------------------
(* The tenant a hop acts for is the tenant of its baggage and the one      *)
(* every earlier hop acted for, whichever of body, header and baggage the  *)
(* client used to name it; so no service a hop calls refuses the identity. *)
OneTenantAllTheWay ==
    /\ \A h, i \in DOMAIN acted : acted[h] = acted[i]
    /\ journey.hop # "callee refused"
    /\ \A h \in DOMAIN acted : baggage_or(carrier.bag, "tenant", Absent) = acted[h]

(* TOUR.md: "W3C context and business baggage cross every hop."  An event  *)
(* a service has committed and sent is not refused for its carrier.        *)
CarrierCrossesEveryHop == journey.hop # "dead-lettered"
=============================================================================
