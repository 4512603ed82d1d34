------------------------------- MODULE Stack -------------------------------
(***************************************************************************)
(* How the Compose stack comes up and how the CLI decides that it is up:   *)
(* the start order, the readiness every service reports (its own state,    *)
(* what it has noted about its broker, database or worker, and the answers *)
(* of the services it asks in turn), Docker's health verdicts, which lag   *)
(* behind, and verify_stack, which reads the verdicts first and asks the   *)
(* services afterwards.                                                    *)
(***************************************************************************)
EXTENDS Naturals, Sequences, TLC

CONSTANTS
    Parts,       \* the containers of the instance; the others count as up
    MaxOutages   \* bound: how often a container stops

Jobs == {"postgres-migrate"}

(* What verify_stack asks: the HTTP endpoints, then the probes.            *)
Endpoints ==
    <<"checkout", "catalog", "inventory", "recommendation", "orders", "storefront",
      "postgres", "rabbitmq", "pricing", "payment", "notifications">>

ASSUME StackAssumption ==
    /\ Parts \subseteq Jobs \cup {Endpoints[i] : i \in DOMAIN Endpoints}
    /\ MaxOutages \in Nat

(* What docker-compose.yml starts a container after.                       *)
depends_on ==
    LET migrated == {"postgres-migrate", "postgres"}
    IN  [postgres |-> {}, rabbitmq |-> {}, catalog |-> migrated, payment |-> migrated,
         inventory |-> migrated, pricing |-> migrated, notifications |-> migrated,
         recommendation |-> {"catalog"}, orders |-> migrated \cup {"rabbitmq"},
         checkout |-> migrated \cup {"pricing", "payment", "catalog", "inventory",
                                     "recommendation", "rabbitmq"},
         storefront |-> migrated \cup {"catalog", "pricing", "payment", "checkout"}]
           @@ ("postgres-migrate" :> {"postgres"})

VARIABLES
    started,   \* containers that compose up has created
    running,   \* containers that run; a job, once it has completed
    healthy,   \* containers Docker's last verdict calls healthy
    noted,     \* services that have noted that their broker, database or worker is there
    outages,
    up,        \* the command compose up: "running", "done" or "gave up"
    check      \* verify_stack: position, next endpoint, outages when it read the verdicts

stackVars == <<started, running, healthy, noted, outages, up, check>>

StackInit ==
    /\ started = {} /\ running = {} /\ healthy = {} /\ noted = {}
    /\ outages = 0
    /\ up = "running"
    /\ check = [at |-> "idle", next |-> 1, since |-> 0]

Here(p) == p \in Parts
Runs(p) == Here(p) => p \in running
Verdict(p) == Here(p) => p \in healthy
Noted(p) == Here(p) => p \in noted

-----------------------------------------------------------------------------
(* The readiness answers.                                                  *)
database_ready == Runs("postgres")
catalog_ready == Runs("catalog") /\ database_ready
payment_ready == Runs("payment") /\ database_ready
inventory_health == Runs("inventory") /\ database_ready
notifications_health == Runs("notifications") /\ database_ready /\ Noted("notifications")
orders_health == Runs("orders") /\ database_ready /\ Noted("orders")

(* pricing answers what its refresher last found.                          *)
pricing_ready == Runs("pricing") /\ Noted("pricing")

check_catalog_readiness == Runs("recommendation") /\ catalog_ready

health_snapshot ==
    [database |-> database_ready, rabbit |-> Noted("checkout"), catalog |-> catalog_ready,
     pricing |-> pricing_ready, payment |-> payment_ready, inventory |-> inventory_health,
     recommendation |-> check_catalog_readiness]

health_response(snapshot) == \A d \in DOMAIN snapshot : snapshot[d]

checkout_readiness == Runs("checkout") /\ health_response(health_snapshot)

storefront_readiness ==
    /\ Runs("storefront")
    /\ catalog_ready /\ pricing_ready /\ checkout_readiness /\ database_ready

Answers ==
    [postgres |-> database_ready, rabbitmq |-> Runs("rabbitmq"), catalog |-> catalog_ready,
     payment |-> payment_ready, inventory |-> inventory_health, pricing |-> pricing_ready,
     notifications |-> notifications_health, recommendation |-> check_catalog_readiness,
     orders |-> orders_health, checkout |-> checkout_readiness,
     storefront |-> storefront_readiness]

Services == Parts \ Jobs
StackIsReady == \A p \in Services : Answers[p]

-----------------------------------------------------------------------------
(* A process exits at once, and Docker starts it again, when what it opens *)
(* first is not there: the database, and for orders the broker too.        *)
opens_first ==
    [p \in Services |->
        CASE p \in {"postgres", "rabbitmq", "recommendation", "storefront"} -> {}
          [] p = "orders" -> {"postgres", "rabbitmq"}
          [] OTHER -> {"postgres"}]

(* pricing asks its database before it serves.                             *)
Launch(p) ==
    /\ \A q \in opens_first[p] : Runs(q)
    /\ running' = running \cup {p}
    /\ noted' = IF p = "pricing" THEN noted \cup {p} ELSE noted

Up(p) ==
    /\ up = "running"
    /\ p \in Services \ started
    /\ \A q \in depends_on[p] : Verdict(q)
    /\ Launch(p)
    /\ started' = started \cup {p}
    /\ UNCHANGED <<healthy, outages, up, check>>

(* The migration job: it completes, or its five restarts are used up and   *)
(* compose up gives up.                                                    *)
RunJob(p) ==
    /\ up = "running"
    /\ p \in (Parts \cap Jobs) \ started
    /\ \A q \in depends_on[p] : Verdict(q)
    /\ \/ /\ database_ready
          /\ started' = started \cup {p}
          /\ running' = running \cup {p}
          /\ healthy' = healthy \cup {p}
          /\ up' = up
       \/ /\ up' = "gave up"
          /\ UNCHANGED <<started, running, healthy>>
    /\ UNCHANGED <<noted, outages, check>>

(* --wait returns when everything is healthy; --wait-timeout ends it.      *)
UpEnds ==
    /\ up = "running"
    /\ up' = "gave up" \/ (Parts \subseteq healthy /\ up' = "done")
    /\ UNCHANGED <<started, running, healthy, noted, outages, check>>

Restart(p) ==
    /\ p \in (started \cap Services) \ running
    /\ Launch(p)
    /\ UNCHANGED <<started, healthy, outages, up, check>>

(* An outage: the process loses what it had noted, and when the broker     *)
(* stops, its clients lose their connections.                              *)
Stop(p) ==
    /\ p \in running \cap Services
    /\ outages < MaxOutages
    /\ running' = running \ {p}
    /\ healthy' = healthy \ {p}
    /\ noted' = noted \ ({p} \cup IF p = "rabbitmq" THEN {"checkout", "orders"} ELSE {})
    /\ outages' = outages + 1
    /\ UNCHANGED <<started, up, check>>

(* Docker's health check: one success makes the verdict healthy, a row of  *)
(* failures unhealthy.                                                     *)
HealthCheck(p) ==
    /\ p \in running \cap Services
    /\ healthy' = IF Answers[p] THEN healthy \cup {p} ELSE healthy \ {p}
    /\ UNCHANGED <<started, running, noted, outages, up, check>>

-----------------------------------------------------------------------------
\* Mutant: the refresher only ever takes the service out.
RefreshOut(p, there) == noted' = IF there THEN noted ELSE noted \ {p}

Refresh(p, there) == noted' = IF there THEN noted \cup {p} ELSE noted \ {p}

(* The refresher of pricing asks the database every five seconds.          *)
RefreshPricing(p) ==
    /\ p = "pricing"
    /\ Refresh(p, database_ready)

(* The delivery worker of notifications notes whether its last poll of the *)
(* database succeeded.                                                     *)
PollDeliveries(p) ==
    /\ p = "notifications"
    /\ Refresh(p, database_ready)

(* checkout's supervisor and orders' consume loop connect to the broker    *)
(* again.                                                                  *)
Reconnect(p) ==
    /\ p \in {"checkout", "orders"} \ noted
    /\ Runs("rabbitmq")
    /\ Refresh(p, TRUE)

(* The services that keep a note.                                          *)
Noting == {"pricing", "notifications", "checkout", "orders"}

Notice(p) ==
    /\ p \in running
    /\ RefreshPricing(p) \/ PollDeliveries(p) \/ Reconnect(p)
    /\ UNCHANGED <<started, running, healthy, outages, up, check>>

-----------------------------------------------------------------------------
(* verify_stack                                                            *)
verify_compose_state ==
    \A p \in Parts : p \in started /\ p \in running /\ p \in healthy

BeginCheck ==
    /\ check.at = "idle"
    /\ check' = [check EXCEPT !.at = "waiting"]
    /\ UNCHANGED <<started, running, healthy, noted, outages, up>>

(* The verdicts are polled until they are all healthy or time is up.       *)
wait_for_compose_state ==
    /\ check.at = "waiting"
    /\ \/ /\ verify_compose_state
          /\ check' = [check EXCEPT !.at = "asking", !.since = outages]
       \/ check' = [check EXCEPT !.at = "failed"]
    /\ UNCHANGED <<started, running, healthy, noted, outages, up>>

\* Mutant: the verdicts are taken for the answers.
SkipEndpoint ==
    /\ check.at = "asking"
    /\ check.next <= Len(Endpoints)
    /\ check' = [check EXCEPT !.next = @ + 1]
    /\ UNCHANGED <<started, running, healthy, noted, outages, up>>

(* The HTTP endpoints and then the probes, one after the other, each once. *)
check_http_endpoint ==
    /\ check.at = "asking"
    /\ check.next <= Len(Endpoints)
    /\ check' = IF Here(Endpoints[check.next]) => Answers[Endpoints[check.next]]
                THEN [check EXCEPT !.next = @ + 1]
                ELSE [check EXCEPT !.at = "failed"]
    /\ UNCHANGED <<started, running, healthy, noted, outages, up>>

Pass ==
    /\ check.at = "asking"
    /\ check.next > Len(Endpoints)
    /\ check' = [check EXCEPT !.at = "passed"]
    /\ UNCHANGED <<started, running, healthy, noted, outages, up>>

(* A managed stack is taken down again, whatever the result.               *)
TakeDown ==
    /\ check.at \in {"passed", "failed"}
    /\ check' = [check EXCEPT !.at = "down"]
    /\ started' = {} /\ running' = {} /\ healthy' = {} /\ noted' = {}
    /\ up' = "gave up"
    /\ UNCHANGED outages

ContainerStep(p) == Up(p) \/ RunJob(p) \/ Restart(p)

StackNext ==
    \/ \E p \in Parts : ContainerStep(p) \/ Stop(p) \/ HealthCheck(p) \/ Notice(p)
    \/ UpEnds
    \/ BeginCheck \/ wait_for_compose_state \/ check_http_endpoint \/ Pass \/ TakeDown

StackSpec == StackInit /\ [][StackNext]_stackVars

-----------------------------------------------------------------------------
(* When verify_stack passes and no container has stopped since it read the *)
(* verdicts, every service is ready, also the ones whose verdict or whose  *)
(* own note was older than that: asking the services afterwards makes up   *)
(* for the verdicts' age.                                                  *)
VerifiedStackIsReady ==
    check.at = "passed" /\ check.since = outages => StackIsReady

(* The stack comes up, and after every outage it becomes ready again by    *)
(* itself, unless compose up has given up or the stack was taken down: no  *)
(* service waits for one that waits for it, and no note stays behind.      *)
StackComesUp == []<>(up = "gave up" \/ StackIsReady)
=============================================================================
