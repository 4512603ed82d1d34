-------------------------- MODULE SharedConnection --------------------------
(***************************************************************************)
(* The two connections that concurrent requests share and replace: the     *)
(* RabbitMQ channel of checkout's publisher and the Redis connection of    *)
(* pricing.  Each is kept behind a lock together with a generation; a call *)
(* that fails reports the generation it used, perhaps long after another   *)
(* caller has put a new connection in its place.                           *)
(***************************************************************************)
EXTENDS Naturals, FiniteSets

CONSTANTS
    Callers,    \* requests that use a connection
    MaxDrops,   \* bound: broken connections, failed attempts, timeouts
    MaxUses     \* bound: calls a caller makes

ASSUME ConnectionAssumption == MaxDrops \in Nat /\ MaxUses \in Nat

Links == {"rabbit", "redis"}
NoLink == 0
Free == "free"

VARIABLES
    link,     \* per connection: the generation in place, the counter, the lock, is_available
    alive,    \* generations whose connection still works
    failed,   \* generations some call has failed on
    caller,   \* position, connection and generation of each caller
    drops

connectionVars == <<link, alive, failed, caller, drops>>

ConnectionInit ==
    /\ link = [l \in Links |-> [now |-> NoLink, gen |-> 0, lock |-> Free, up |-> FALSE]]
    /\ alive = [l \in Links |-> {}]
    /\ failed = [l \in Links |-> {}]
    /\ caller = [c \in Callers |-> [pc |-> "idle", on |-> "rabbit", gen |-> 0, uses |-> 0]]
    /\ drops = 0

-----------------------------------------------------------------------------
\* Mutant: nobody asks whether the channel is still connected.
ReusableIfPlaced(l) == link[l].now # NoLink

(* A channel is reused while it is connected; a Redis connection manager   *)
(* as long as it has not been cleared.                                     *)
Reusable(l) ==
    /\ link[l].now # NoLink
    /\ l = "rabbit" => link[l].now \in alive[l]

Begin(c, l) ==
    /\ caller[c].pc = "idle"
    /\ caller[c].uses < MaxUses
    /\ link[l].lock = Free
    /\ link' = [link EXCEPT ![l].lock = c]
    /\ caller' = [caller EXCEPT ![c].pc = "locked", ![c].on = l, ![c].uses = @ + 1]
    /\ UNCHANGED <<alive, failed, drops>>

(* The connection in place, with its generation.                           *)
Reuse(c) ==
    LET l == caller[c].on
    IN  /\ caller[c].pc = "locked"
        /\ Reusable(l)
        /\ link' = [link EXCEPT ![l].lock = Free]
        /\ caller' = [caller EXCEPT ![c].pc = "using", ![c].gen = link[l].now]
        /\ UNCHANGED <<alive, failed, drops>>

(* A new connection under the next generation.                             *)
Placed(l) == [link[l] EXCEPT !.now = link[l].gen + 1, !.gen = @ + 1, !.lock = Free, !.up = TRUE]

Connect(c) ==
    LET l == caller[c].on
    IN  /\ caller[c].pc = "locked"
        /\ ~Reusable(l)
        /\ link' = [link EXCEPT ![l] = Placed(l)]
        /\ alive' = [alive EXCEPT ![l] = @ \cup {link[l].gen + 1}]
        /\ caller' = [caller EXCEPT ![c].pc = "using", ![c].gen = link[l].gen + 1]
        /\ UNCHANGED <<failed, drops>>

(* The connection attempt fails or times out: the publisher has already    *)
(* dropped the old channel; pricing goes on with PostgreSQL.               *)
ConnectFails(c) ==
    LET l == caller[c].on
    IN  /\ caller[c].pc = "locked"
        /\ ~Reusable(l)
        /\ drops < MaxDrops
        /\ drops' = drops + 1
        /\ link' = [link EXCEPT ![l].lock = Free, ![l].now = NoLink]
        /\ caller' = [caller EXCEPT ![c].pc = "idle"]
        /\ UNCHANGED <<alive, failed>>

CallSucceeds(c) ==
    /\ caller[c].pc = "using"
    /\ caller[c].gen \in alive[caller[c].on]
    /\ caller' = [caller EXCEPT ![c].pc = "idle"]
    /\ UNCHANGED <<link, alive, failed, drops>>

(* A call fails on a broken connection, or times out on a working one.     *)
CallFails(c) ==
    /\ caller[c].pc = "using"
    /\ IF caller[c].gen \in alive[caller[c].on]
       THEN drops < MaxDrops /\ drops' = drops + 1
       ELSE UNCHANGED drops
    /\ failed' = [failed EXCEPT ![caller[c].on] = @ \cup {caller[c].gen}]
    /\ caller' = [caller EXCEPT ![c].pc = "report"]
    /\ UNCHANGED <<link, alive>>

\* Mutant: a report clears whatever connection is in place.
ClearedAlways(l, gen) ==
    IF l = "rabbit" THEN [link[l] EXCEPT !.now = NoLink]
    ELSE [link[l] EXCEPT !.now = NoLink, !.gen = @ + 1, !.up = FALSE]

(* invalidate and clear_failed: only the generation that failed is         *)
(* dropped; pricing also moves the counter on and withdraws is_available.  *)
Cleared(l, gen) ==
    IF link[l].now # gen THEN link[l]
    ELSE IF l = "rabbit" THEN [link[l] EXCEPT !.now = NoLink]
    ELSE [link[l] EXCEPT !.now = NoLink, !.gen = @ + 1, !.up = FALSE]

Report(c) ==
    LET l == caller[c].on
    IN  /\ caller[c].pc = "report"
        /\ link[l].lock = Free
        /\ link' = [link EXCEPT ![l] = Cleared(l, caller[c].gen)]
        /\ caller' = [caller EXCEPT ![c].pc = "idle"]
        /\ UNCHANGED <<alive, failed, drops>>

(* Pricing gives up when the lock is not free in time.                     *)
ReportTimesOut(c) ==
    /\ caller[c].pc = "report"
    /\ caller[c].on = "redis"
    /\ link["redis"].lock # Free
    /\ caller' = [caller EXCEPT ![c].pc = "idle"]
    /\ UNCHANGED <<link, alive, failed, drops>>

(* The supervisor keeps the publisher connected whether or not anyone      *)
(* publishes; a failed attempt is retried after a delay.                   *)
SuperviseRabbit ==
    /\ link["rabbit"].lock = Free
    /\ ~Reusable("rabbit")
    /\ link' = [link EXCEPT !["rabbit"] = Placed("rabbit")]
    /\ alive' = [alive EXCEPT !["rabbit"] = @ \cup {link["rabbit"].gen + 1}]
    /\ UNCHANGED <<failed, caller, drops>>

SuperviseFails ==
    /\ link["rabbit"].lock = Free
    /\ ~Reusable("rabbit")
    /\ drops < MaxDrops
    /\ drops' = drops + 1
    /\ link' = [link EXCEPT !["rabbit"].now = NoLink]
    /\ UNCHANGED <<alive, failed, caller>>

(* A connection breaks.                                                    *)
Break(l) ==
    /\ drops < MaxDrops
    /\ drops' = drops + 1
    /\ \E g \in alive[l] : alive' = [alive EXCEPT ![l] = @ \ {g}]
    /\ UNCHANGED <<link, failed, caller>>

ConnectionStep(c) ==
    \/ Reuse(c) \/ Connect(c) \/ ConnectFails(c)
    \/ CallSucceeds(c) \/ CallFails(c)
    \/ Report(c) \/ ReportTimesOut(c)

ConnectionNext ==
    \/ \E c \in Callers : ConnectionStep(c)
    \/ \E c \in Callers, l \in Links : Begin(c, l)
    \/ SuperviseRabbit
    \/ SuperviseFails
    \/ \E l \in Links : Break(l)

ConnectionSpec == ConnectionInit /\ [][ConnectionNext]_connectionVars

-----------------------------------------------------------------------------
(* A late report never takes away a connection that works: the connection  *)
(* that leaves its place is one some call failed on, or one that broke.    *)
WorkingConnectionStays ==
    [][\A l \in Links : link[l].now # NoLink /\ link'[l].now # link[l].now
            => link[l].now \in failed[l] \/ link[l].now \notin alive[l]]_connectionVars

(* Once connections stop breaking, the publisher has a working channel and *)
(* keeps it, with or without anybody publishing.                           *)
PublisherReconnects == <>[](link["rabbit"].now \in alive["rabbit"])
=============================================================================
