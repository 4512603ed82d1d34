----------------------------- MODULE MCPlatform -----------------------------
(***************************************************************************)
(* Six parts that share no state and run beside the requests: the price    *)
(* subscriptions, the quote cache, the task registries, the shared         *)
(* connections, the start of the Compose stack and the migrations.  A      *)
(* behaviour picks one part and takes only its steps, so the reachable     *)
(* states are the sum of the parts' states and not their product.          *)
(***************************************************************************)
EXTENDS PriceJournal, TaskRegistry, SharedConnection, Stack, Migrations, TLC

CONSTANTS a, b, s1, s2

VARIABLE part

platformVars == <<part, vars, registryVars, connectionVars, stackVars, migrationVars>>

-----------------------------------------------------------------------------
(* Price journal: a catalog subscription of one SKU and a storefront       *)
(* subscription of the whole tenant.  The quote cache and the              *)
(* subscriptions only read the journal, so each has a part of its own.     *)
MCFilter == s1 :> {a} @@ s2 :> {a, b}

(* Migrations: two files that build on the first.                          *)
MCNeeds == <<{}, {1}, {1}>>

-----------------------------------------------------------------------------
PlatformInit ==
    /\ part \in {"price", "quotes", "registry", "connection", "stack", "migrations"}
    /\ Init /\ RegistryInit /\ ConnectionInit /\ StackInit /\ MigrationsInit

(* Only the part p moves.                                                  *)
Alone(p) ==
    /\ part = p
    /\ UNCHANGED part
    /\ p \notin {"price", "quotes"} => UNCHANGED vars
    /\ p # "registry" => UNCHANGED registryVars
    /\ p # "connection" => UNCHANGED connectionVars
    /\ p # "stack" => UNCHANGED stackVars
    /\ p # "migrations" => UNCHANGED migrationVars

PlatformNext ==
    \/ Alone("price") /\ Next /\ UNCHANGED <<cached, quoter>>
    \/ Alone("quotes") /\ Next /\ UNCHANGED <<sub, sent, losses>>
    \/ Alone("registry") /\ RegistryNext
    \/ Alone("connection") /\ ConnectionNext
    \/ Alone("stack") /\ StackNext
    \/ Alone("migrations") /\ MigrationsNext

PlatformFairness ==
    /\ \A s \in Subscribers : WF_platformVars(Alone("price") /\ SubscriberStep(s))
    /\ WF_platformVars(Alone("registry") /\ ShutdownStep)
    /\ \A t \in Streams : WF_platformVars(Alone("registry") /\ RegistryWakes(t))
    /\ WF_platformVars(Alone("connection") /\ SuperviseRabbit)
    /\ \A c \in Callers : WF_platformVars(Alone("connection") /\ ConnectionStep(c))
    /\ \A p \in Parts : WF_platformVars(Alone("stack") /\ ContainerStep(p))
    /\ \A p \in Services : WF_platformVars(Alone("stack") /\ HealthCheck(p))
    /\ \A p \in Parts \cap Noting : WF_platformVars(Alone("stack") /\ Notice(p))

PlatformSpec == PlatformInit /\ [][PlatformNext]_platformVars /\ PlatformFairness

-----------------------------------------------------------------------------
(* Checkout's publisher has a working channel again once connections stop  *)
(* breaking (PublisherReconnects).                                         *)
ReconnectsInTheEnd == part = "connection" => PublisherReconnects

(* The Compose stack comes up and becomes ready again after an outage      *)
(* (StackComesUp).                                                         *)
ComesUpInTheEnd == part = "stack" => StackComesUp
=============================================================================
