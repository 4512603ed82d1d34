------------------------------ MODULE Gateway -------------------------------
(***************************************************************************)
(* The storefront's requests: a budget of time for the whole request, a    *)
(* smaller one for each hop, one pricing channel that all requests open    *)
(* and share, and clients that send again what they were told they may     *)
(* retry.  The downstream service of a write keeps the outcome under the   *)
(* key the storefront sent: the request id of a checkout, the event id of  *)
(* an analytics event.  A call the storefront gave up on may still arrive. *)
(*                                                                         *)
(* Time is in whole units and passes when no timer is due.                 *)
(***************************************************************************)
EXTENDS Integers, FiniteSets

CONSTANTS
    Clients,
    Asks,               \* what each client may ask for: operation, flaw, whether it
                        \* names a key and a session, and whether it asks by REST
    RequestTimeout,     \* STOREFRONT_REQUEST_TIMEOUT
    DownstreamTimeout,  \* DOWNSTREAM_REQUEST_TIMEOUT
    MaxSends            \* bound: how often a client sends one operation

ASSUME GatewayAssumption ==
    /\ RequestTimeout \in Nat \ {0}
    /\ DownstreamTimeout \in 1..RequestTimeout
    /\ MaxSends \in Nat \ {0}

VARIABLES
    request,   \* the request of each client
    channel,   \* the pricing channel's cell
    opener,    \* the request that is filling the cell
    wire,      \* keys of calls that may still arrive downstream
    work       \* what the downstream service keeps for a key

gatewayVars == <<request, channel, opener, wire, work>>

NoOne == "no one"
Keys == 1..MaxSends

-----------------------------------------------------------------------------
(* The operations: the service they call, the checks before the call, and  *)
(* the key under which the service knows a repeated write again.           *)

Reads(service, checks) == [service |-> service, checks |-> checks, writes |-> FALSE, key |-> "none"]
Alters(service, checks, key) == [service |-> service, checks |-> checks, writes |-> TRUE, key |-> key]

catalog_product == Reads("catalog", {"tenant"})
catalog_products == Reads("catalog", {"tenant"})
catalog_categories == Reads("catalog", {"tenant"})
quote == Reads("pricing", {"tenant", "customer", "items", "currency", "business"})
checkout == Alters("checkout", {"tenant", "customer", "session", "items", "currency", "payment", "business"}, "request_id")
fetch_cart == Reads("checkout", {"tenant", "customer"})
add_cart_item == Alters("checkout", {"tenant", "customer", "session", "items", "currency"}, "none")
orders == Reads("checkout", {"tenant"})
order == Reads("checkout", {"tenant", "customer"})
analytics == Reads("clickhouse", {"tenant"})
analytics_summary == Reads("clickhouse", {"tenant"})
record_analytics == Alters("clickhouse", {"tenant", "session", "properties"}, "event_id")

GatewayInit ==
    /\ request = [c \in Clients |-> [pc |-> "idle"]]
    /\ channel = "empty"
    /\ opener = NoOne
    /\ wire = [c \in Clients |-> {}]
    /\ work = [c \in Clients |-> [k \in Keys |-> "none"]]

-----------------------------------------------------------------------------
(* Errors as the client sees them. *)

(* client_safe_error_for_code and category: a code that is not on the list *)
(* becomes downstream_error, which may be retried.                         *)
category(code) ==
    CASE code = "payment_declined"          -> "decline"
      [] code = "invalid_request"           -> "invalid"
      [] code = "refused"                   -> "invalid"
      [] code = "checkout_request_conflict" -> "conflict"
      [] code = "cart_not_found"            -> "failure"
      [] code = "done"                      -> "ok"
      [] OTHER                              -> "retryable"

(* api_error: the REST answer names a category for what a service said and *)
(* none for an error of the storefront's own, checks of the input included. *)
api_error(c, code) ==
    IF request[c].operation.rest /\ code \in {"refused", "downstream_error", "pricing_unavailable"}
    THEN "unmarked" ELSE category(code)

Active == {"resolve", "channel", "connecting", "send", "wait", "read"}
Timed == {"connecting", "wait", "read"}

Answer(c, code) ==
    request' = [request EXCEPT ![c] = [pc |-> "answered", operation |-> @.operation,
                                        sends |-> @.sends, told |-> api_error(c, code)]]

(* A request that ends while it fills the cell leaves it to the next one.  *)
Released(c) == IF opener = c THEN NoOne ELSE opener

-----------------------------------------------------------------------------
(* The client, and the checks before anything is sent. *)

SendRequest(c) ==
    /\ request[c].pc = "idle"
    /\ \E o \in Asks[c] :
         request' = [request EXCEPT ![c] = [pc |-> "resolve", operation |-> o, sends |-> 1,
                                             age |-> 0, left |-> 0]]
    /\ UNCHANGED <<channel, opener, wire, work>>

RetryRequest(c) ==
    /\ request[c].pc = "answered"
    /\ request[c].told \in {"retryable", "timeout", "unmarked"}
    /\ request[c].sends < MaxSends
    /\ request' = [request EXCEPT ![c] = [pc |-> "resolve", operation |-> @.operation,
                                           sends |-> @.sends + 1, age |-> 0, left |-> 0]]
    /\ UNCHANGED <<channel, opener, wire, work>>

remaining_timeout(c) ==
    LET left == RequestTimeout - request[c].age
    IN  IF left < DownstreamTimeout THEN left ELSE DownstreamTimeout

(* A hop is begun with what is left, or refused.                           *)
BeginHop(c, pc) ==
    IF remaining_timeout(c) <= 0
    THEN Answer(c, "downstream_error")
    ELSE request' = [request EXCEPT ![c].pc = pc, ![c].left = remaining_timeout(c)]

Flawed(c) == request[c].operation.flaw \in request[c].operation.of.checks
Grpc(c) == request[c].operation.of.service = "pricing"

(* resolve_identity, validate_items, validate_currency_code and            *)
(* validated_business_context come before the first hop of each operation. *)
ResolveRequest(c) ==
    /\ request[c].pc = "resolve"
    /\ IF Flawed(c)
       THEN Answer(c, "refused")
       ELSE IF Grpc(c)
       THEN BeginHop(c, "channel")
       ELSE request' = [request EXCEPT ![c].pc = "send"]
    /\ UNCHANGED <<channel, opener, wire, work>>

-----------------------------------------------------------------------------
(* pricing_channel: the timeout is taken before the request waits for its  *)
(* turn at the cell, and used after it.                                    *)
UseChannel(c) ==
    /\ request[c].pc = "channel"
    /\ \/ /\ channel = "open"
          /\ request' = [request EXCEPT ![c].pc = "send"]
          /\ UNCHANGED opener
       \/ /\ channel = "empty"
          /\ opener = NoOne
          /\ opener' = c
          /\ request' = [request EXCEPT ![c].pc = "connecting"]
    /\ UNCHANGED <<channel, wire, work>>

ConnectPricing(c) ==
    /\ request[c].pc = "connecting"
    /\ opener' = NoOne
    /\ \/ channel' = "open" /\ request' = [request EXCEPT ![c].pc = "send"]
       \/ UNCHANGED channel /\ Answer(c, "pricing_unavailable")
    /\ UNCHANGED <<wire, work>>

-----------------------------------------------------------------------------
(* The call. *)

(* record_analytics requires its key; the request id of a checkout may be  *)
(* left out.                                                               *)
Named(c) ==
    \/ request[c].operation.of.key = "event_id"
    \/ request[c].operation.of.key = "request_id" /\ request[c].operation.keyed

\* Mutant: the storefront makes the key up instead of passing the client's on.
KeyPerSend(c) == request[c].sends

(* request_id of the checkout body and deterministic_event_id; without a   *)
(* key every call stands for itself.                                       *)
DownstreamKey(c) == IF Named(c) THEN 1 ELSE request[c].sends

Writes(c) == request[c].operation.of.writes

SendCall(c) ==
    /\ request[c].pc = "send"
    /\ BeginHop(c, "wait")
    /\ wire' = [wire EXCEPT ![c] = IF Writes(c) /\ remaining_timeout(c) > 0
                                   THEN @ \cup {DownstreamKey(c)} ELSE @]
    /\ UNCHANGED <<channel, opener, work>>

(* A call arrives, before or after its caller gave up: the service starts  *)
(* the work unless the key is known.                                       *)
Arrive(c, k) ==
    /\ k \in wire[c]
    /\ wire' = [wire EXCEPT ![c] = @ \ {k}]
    /\ work' = [work EXCEPT ![c][k] = IF @ = "none" THEN "started" ELSE @]
    /\ UNCHANGED <<request, channel, opener>>

FinishWork(c, k) ==
    /\ work[c][k] = "started"
    /\ \E outcome \in IF request[c].operation.of = checkout THEN {"done", "payment_declined"}
                       ELSE {"done"} :
          work' = [work EXCEPT ![c][k] = outcome]
    /\ UNCHANGED <<request, channel, opener, wire>>

(* A repeated checkout without a session gets another made-up one          *)
(* (resolve_identity), and is not the request that checkout knows.         *)
Restated(c) ==
    request[c].operation.of = checkout /\ ~request[c].operation.session /\ request[c].sends > 1

(* What a response can say.  Any error of pricing is told as its being     *)
(* away; another read or write may be refused or find the service away; a  *)
(* write has the state of its key, or conflicts with it.                   *)
ResponseCodes(c) ==
    LET known == work[c][DownstreamKey(c)]
        state == CASE known = "none"    -> {"invalid_request"}
                   [] known = "started" -> {"checkout_in_progress"}
                   [] OTHER             -> {known}
        conflict == IF Restated(c) /\ known # "none" THEN {"checkout_request_conflict"} ELSE {}
    IN  IF Writes(c) THEN {"unavailable"} \cup state \cup conflict
        ELSE IF Grpc(c) THEN {"done", "pricing_unavailable"}
        ELSE {"done", "invalid_request", "cart_not_found", "unavailable"}

(* A failed call, the whole response of a gRPC call, or the head of an     *)
(* HTTP response.                                                          *)
Respond(c) ==
    /\ request[c].pc = "wait"
    /\ \/ Answer(c, "downstream_error")
       \/ IF Grpc(c)
          THEN \E code \in ResponseCodes(c) : Answer(c, code)
          ELSE BeginHop(c, "read")
    /\ UNCHANGED <<channel, opener, wire, work>>

(* decode_json and the conversion of the payload.                          *)
ReadBody(c) ==
    /\ request[c].pc = "read"
    /\ \E code \in ResponseCodes(c) : Answer(c, code)
    /\ UNCHANGED <<channel, opener, wire, work>>

-----------------------------------------------------------------------------
(* Time. *)

HopDue(c) == request[c].pc \in Timed /\ request[c].left = 0

\* Mutant: requests are bounded by their hops alone.
NeverDue(c) == FALSE

(* request_timeout_middleware: the answer is 408, without a category.      *)
RequestDue(c) == request[c].pc \in Active /\ request[c].age >= RequestTimeout

HopExpires(c) ==
    /\ HopDue(c)
    /\ Answer(c, "downstream_error")
    /\ opener' = Released(c)
    /\ UNCHANGED <<channel, wire, work>>

RequestExpires(c) ==
    /\ RequestDue(c)
    /\ request' = [request EXCEPT ![c] = [pc |-> "answered", operation |-> @.operation,
                                           sends |-> @.sends, told |-> "timeout"]]
    /\ opener' = Released(c)
    /\ UNCHANGED <<channel, wire, work>>

Older(r) ==
    IF r.pc \notin Active THEN r
    ELSE [r EXCEPT !.age = @ + 1, !.left = IF r.pc \in Timed THEN @ - 1 ELSE @]

(* Only waiting takes time.                                                *)
Waiting(c) ==
    \/ request[c].pc \in Timed
    \/ request[c].pc = "channel" /\ channel = "empty" /\ opener # NoOne
    \/ request[c].pc \notin Active

TimePasses ==
    /\ \E c \in Clients : request[c].pc \in Active
    /\ \A c \in Clients : Waiting(c) /\ ~HopDue(c) /\ ~RequestDue(c)
    /\ request' = [c \in Clients |-> Older(request[c])]
    /\ UNCHANGED <<channel, opener, wire, work>>

GatewayNext ==
    \/ \E c \in Clients :
         \/ SendRequest(c) \/ RetryRequest(c) \/ ResolveRequest(c) \/ UseChannel(c)
         \/ ConnectPricing(c) \/ SendCall(c) \/ Respond(c) \/ ReadBody(c)
         \/ HopExpires(c) \/ RequestExpires(c)
         \/ \E k \in Keys : Arrive(c, k) \/ FinishWork(c, k)
    \/ TimePasses

GatewaySpec == GatewayInit /\ [][GatewayNext]_gatewayVars

-----------------------------------------------------------------------------
(* No request is open for longer than the request timeout, although a      *)
(* request may wait for others to fail at opening the pricing channel with *)
(* a hop timeout that was worked out before the wait.                      *)
AnsweredInTime ==
    \A c \in Clients : request[c].pc \in Active => request[c].age <= RequestTimeout

(* When a client that named its operation, and perhaps repeated it after   *)
(* timeouts and retryable errors, is told that it was done or declined,    *)
(* all that was started for it, late calls included, has that outcome.     *)
ToldOutcomeStands ==
    \A c \in Clients :
      request[c].pc = "answered" /\ Named(c) =>
        \A k \in Keys :
          /\ request[c].told = "ok" => work[c][k] \in {"none", "done"}
          /\ request[c].told = "decline" => work[c][k] \in {"none", "payment_declined"}
=============================================================================
