---------------------------- MODULE TaskRegistry ----------------------------
(***************************************************************************)
(* How a service stops.  The storefront keeps its price subscriptions, and *)
(* pricing its quote streams, in a registry behind a lock; checkout holds  *)
(* a fixed list of workers.  A signal sets the cancelled flag (an atomic,  *)
(* not under the lock) and closes the server; shutdown then takes the      *)
(* registered tasks and waits for them until one common deadline, after    *)
(* which it aborts what still runs.  Connections that were upgraded, or    *)
(* that are in flight, go on spawning tasks meanwhile.                     *)
(***************************************************************************)
EXTENDS Naturals, FiniteSets

CONSTANTS
    Streams,   \* subscriptions and quote streams clients may open
    Held,      \* streams whose open response keeps the server from ending
    Workers    \* tasks started with the service

ASSUME RegistryAssumption ==
    /\ Streams \cap Workers = {} /\ Held \subseteq Streams
    /\ "nobody" \notin Streams

RegistryTasks == Streams \cup Workers
Nobody == "nobody"

VARIABLES
    phase,       \* of the process
    cancelled,   \* the flag, and the value of the watch channel
    registered,  \* tasks in the registry
    taken,       \* tasks shutdown took out and still waits for
    holder,      \* who holds the registry's lock
    runs,        \* what became of each task
    stalled,     \* held streams whose client has stopped reading
    expired,     \* the drain deadline has passed
    result       \* what shutdown returns

registryVars == <<phase, cancelled, registered, taken, holder, runs, stalled, expired,
                  result>>

Done == {"finished", "failed"}

RegistryInit ==
    /\ phase = "serving"
    /\ cancelled = FALSE
    /\ registered = Workers
    /\ taken = {}
    /\ holder = Nobody
    /\ runs = [t \in RegistryTasks |-> IF t \in Workers THEN "running" ELSE "none"]
    /\ stalled = {}
    /\ expired = FALSE
    /\ result = "ok"

-----------------------------------------------------------------------------
(* spawn: under the lock, forget the finished tasks, look at the flag and  *)
(* start the task.  The flag may be set between the look and the start.    *)
SpawnLook(t) ==
    /\ phase # "exited"
    /\ t \in Streams
    /\ runs[t] = "none"
    /\ holder = Nobody
    /\ registered' = {r \in registered : runs[r] \notin Done}
    /\ IF cancelled
       THEN /\ runs' = [runs EXCEPT ![t] = "refused"]
            /\ UNCHANGED holder
       ELSE /\ holder' = t
            /\ UNCHANGED runs
    /\ UNCHANGED <<phase, cancelled, taken, stalled, expired, result>>

SpawnStart(t) ==
    /\ holder = t
    /\ phase # "exited"
    /\ holder' = Nobody
    /\ runs' = [runs EXCEPT ![t] = "running"]
    /\ registered' = registered \cup {t}
    /\ UNCHANGED <<phase, cancelled, taken, stalled, expired, result>>

(* The body of a task: it ends by itself or with its client, panics, stops *)
(* because it sees the flag, or hangs where it does not look at it.  A     *)
(* quote stream looks at it wherever it waits, save where it sends an      *)
(* encoding error: there it waits for a client that does not read.         *)
TaskEnds(t, outcome) ==
    /\ runs[t] = "running"
    /\ runs' = [runs EXCEPT ![t] = outcome]
    /\ UNCHANGED <<phase, cancelled, registered, taken, holder, stalled, expired, result>>

TaskReturns(t) == t \in Streams /\ TaskEnds(t, "finished")
TaskPanics(t) == TaskEnds(t, "failed")
TaskHangs(t) == (t \in Held => t \in stalled) /\ TaskEnds(t, "hung")
TaskSeesShutdown(t) == cancelled /\ TaskEnds(t, "finished")

(* The client of a held stream stops reading its response; it reads again, *)
(* or leaves, and then the send the stream waits in returns.               *)
ClientStalls(t) ==
    /\ t \in Held \ stalled
    /\ runs[t] = "running"
    /\ stalled' = stalled \cup {t}
    /\ UNCHANGED <<phase, cancelled, registered, taken, holder, runs, expired, result>>

ClientReads(t) ==
    /\ t \in stalled
    /\ phase # "exited"
    /\ stalled' = stalled \ {t}
    /\ runs' = IF runs[t] = "hung" THEN [runs EXCEPT ![t] = "finished"] ELSE runs
    /\ UNCHANGED <<phase, cancelled, registered, taken, holder, expired, result>>

-----------------------------------------------------------------------------
\* Mutant: the signal only closes the server.
SignalQuietly ==
    /\ phase = "serving"
    /\ phase' = "signalled"
    /\ UNCHANGED <<cancelled, registered, taken, holder, runs, stalled, expired, result>>

(* The signal handler inside the graceful shutdown of the server.          *)
Signal ==
    /\ phase = "serving"
    /\ phase' = "signalled"
    /\ cancelled' = TRUE
    /\ UNCHANGED <<registered, taken, holder, runs, stalled, expired, result>>

(* The consumer of orders stops before the server does: it closes it.      *)
ConsumerStops(t) ==
    /\ phase = "serving"
    /\ t \in Workers
    /\ runs[t] = "running"
    /\ phase' = "signalled"
    /\ cancelled' = TRUE
    /\ runs' = [runs EXCEPT ![t] = "failed"]
    /\ UNCHANGED <<registered, taken, holder, stalled, expired, result>>

(* The server future ends: gracefully once the responses it waits for are  *)
(* written to the last byte, or at any time with an error of its own.  The *)
(* wait has no deadline; the one of the drain starts after it.             *)
ServerEnds ==
    /\ phase = "signalled"
    /\ \A t \in Held : runs[t] \notin {"running", "hung"} /\ holder # t
    /\ stalled = {}
    /\ phase' = "closing"
    /\ UNCHANGED <<cancelled, registered, taken, holder, runs, stalled, expired, result>>

ServerFails ==
    /\ phase \in {"serving", "signalled"}
    /\ phase' = "closing"
    /\ UNCHANGED <<cancelled, registered, taken, holder, runs, stalled, expired, result>>

(* shutdown: set the flag, then take the tasks under the lock.             *)
ShutdownCancel ==
    /\ phase = "closing"
    /\ phase' = "cancelling"
    /\ cancelled' = TRUE
    /\ UNCHANGED <<registered, taken, holder, runs, stalled, expired, result>>

\* Mutant: the tasks are taken without the lock.
ShutdownTakeUnlocked ==
    /\ phase = "cancelling"
    /\ phase' = "draining"
    /\ taken' = registered
    /\ registered' = {}
    /\ UNCHANGED <<cancelled, holder, runs, stalled, expired, result>>

ShutdownTake ==
    /\ phase = "cancelling"
    /\ holder = Nobody
    /\ phase' = "draining"
    /\ taken' = registered
    /\ registered' = {}
    /\ UNCHANGED <<cancelled, holder, runs, stalled, expired, result>>

DrainDeadline ==
    /\ phase = "draining"
    /\ ~expired
    /\ expired' = TRUE
    /\ UNCHANGED <<phase, cancelled, registered, taken, holder, runs, stalled, result>>

(* One task is joined; a panic becomes the error shutdown returns.         *)
Join(t) ==
    /\ phase = "draining"
    /\ t \in taken
    /\ runs[t] \in Done
    /\ taken' = taken \ {t}
    /\ result' = IF runs[t] = "failed" THEN "error" ELSE result
    /\ UNCHANGED <<phase, cancelled, registered, holder, runs, stalled, expired>>

Abort(t) ==
    /\ phase = "draining"
    /\ expired
    /\ t \in taken
    /\ runs[t] \notin Done
    /\ taken' = taken \ {t}
    /\ runs' = [runs EXCEPT ![t] = "aborted"]
    /\ result' = "error"
    /\ UNCHANGED <<phase, cancelled, registered, holder, stalled, expired>>

Exit ==
    /\ phase = "draining"
    /\ taken = {}
    /\ phase' = "exited"
    /\ UNCHANGED <<cancelled, registered, taken, holder, runs, stalled, expired, result>>

ShutdownStep ==
    \/ ServerEnds
    \/ ShutdownCancel
    \/ ShutdownTake
    \/ DrainDeadline
    \/ \E t \in RegistryTasks : Join(t) \/ Abort(t)
    \/ Exit

(* Every step of shutdown is taken by the runtime, a spawn that holds the  *)
(* lock has nothing left to wait for, and a quote stream that is not stuck *)
(* in its send wakes up when the flag changes.  Nothing is assumed of the  *)
(* other tasks or of the clients.                                          *)
RegistryWakes(t) == SpawnStart(t) \/ (t \in Held /\ TaskSeesShutdown(t))

RegistryNext ==
    \/ \E t \in Streams : SpawnLook(t) \/ SpawnStart(t)
    \/ \E t \in RegistryTasks : TaskReturns(t) \/ TaskPanics(t) \/ TaskHangs(t) \/ TaskSeesShutdown(t)
    \/ \E t \in Held : ClientStalls(t) \/ ClientReads(t)
    \/ Signal
    \/ \E t \in Workers : ConsumerStops(t)
    \/ ServerEnds
    \/ ServerFails
    \/ ShutdownCancel
    \/ ShutdownTake
    \/ DrainDeadline
    \/ \E t \in RegistryTasks : Join(t) \/ Abort(t)
    \/ Exit

RegistrySpec == RegistryInit /\ [][RegistryNext]_registryVars

-----------------------------------------------------------------------------
(* When shutdown has returned, no task of the service is running, waiting  *)
(* in the registry or about to be started: not even one whose spawn had    *)
(* seen the flag still down.                                               *)
NoTaskOutlivesShutdown ==
    phase = "exited" =>
        /\ registered = {}
        /\ holder = Nobody
        /\ \A t \in RegistryTasks : runs[t] \notin {"running", "hung"}

(* A service that was told to stop, or whose server failed, ends, though   *)
(* tasks hang: the flag lets go the streams, the deadline the tasks.  The  *)
(* one exception is a client that holds a quote stream open and does not   *)
(* read: pricing's main waits for the server before any deadline runs.     *)
ShutdownEnds ==
    phase # "serving" ~> phase = "exited" \/ (phase = "signalled" /\ stalled # {})

(* What the drain deadlines suggest and the code does not keep.            *)
ShutdownAlwaysEnds == phase # "serving" ~> phase = "exited"
=============================================================================
