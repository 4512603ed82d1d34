------------------------ MODULE NotificationsProofs -------------------------
(***************************************************************************)
(* Proofs about notification deliveries for any number of keys, requests,  *)
(* workers and crashes and any budget of attempts.                         *)
(***************************************************************************)
EXTENDS Notifications, FiniteSetTheorems, TLAPS

USE NotificationsAssumption

(* A busy worker has an attempt that the row has issued; past its dispatch *)
(* the acknowledgement is stored, and a row it found exhausted is closed.  *)
AttemptIssued ==
    \A w \in Workers :
      worker[w].pc # "idle" =>
        worker[w].key \in Keys /\ worker[w].attempt \in 1..row[worker[w].key].attempts
DispatchedIsStored ==
    \A w \in Workers : worker[w].pc = "delivered" => worker[w].key \in message
ExhaustedIsClosed ==
    \A w \in Workers :
      worker[w].pc = "exhausted" => row[worker[w].key].status = "dead_lettered"

Unclaimed == \A k \in Keys : row[k].status = "none" => row[k].attempts = 0

IInv ==
    /\ TypeOK
    /\ Unclaimed
    /\ AttemptIssued
    /\ DispatchedIsStored
    /\ ExhaustedIsClosed
    /\ DeliveredIsAcknowledged

(* Before the first request there is nothing to explain. *)
LEMMA InitIInv == Init => IInv
BY DEF Init, IInv, TypeOK, Rows, Logs, Jobs, Unclaimed, AttemptIssued, DispatchedIsStored, ExhaustedIsClosed,
       DeliveredIsAcknowledged, NoRow, Idle, Attempts, Nothing

\* The row of a delivery that a request, a claim or the clock leaves open.
Open(k) == row[k].status \in {"none", "queued", "processing"}

(* While a row is open, no attempt of it counts as delivered: a late       *)
(* worker would have had to close the row in the same transaction.         *)
LEMMA OpenHasNoDelivery ==
  ASSUME IInv, NEW k \in Keys, Open(k), NEW i \in Attempts
  PROVE  log[k][i] # "delivered"
BY DEF IInv, DeliveredIsAcknowledged, Open

(* What a step must keep for the workers it does not touch, and show for   *)
(* the others: rows are claimed upwards, closed rows and stored            *)
(* acknowledgements stay.                                                  *)
LEMMA WorkersKeep ==
  ASSUME IInv, NEW w \in Workers,
         \A v \in Workers \ {w} : worker'[v] = worker[v],
         \A j \in Keys : /\ row'[j].attempts \in Nat
                         /\ row'[j].attempts >= row[j].attempts
                         /\ row[j].status = "dead_lettered" => row'[j].status = "dead_lettered",
         message \subseteq message',
         worker'[w].pc # "idle" =>
           /\ worker'[w].key \in Keys
           /\ worker'[w].attempt \in 1..row'[worker'[w].key].attempts
           /\ worker'[w].pc = "delivered" => worker'[w].key \in message'
           /\ worker'[w].pc = "exhausted" => row'[worker'[w].key].status = "dead_lettered"
  PROVE  AttemptIssued' /\ DispatchedIsStored' /\ ExhaustedIsClosed'
<1> SUFFICES ASSUME NEW v \in Workers, worker'[v].pc # "idle"
             PROVE  /\ worker'[v].key \in Keys
                    /\ worker'[v].attempt \in 1..row'[worker'[v].key].attempts
                    /\ worker'[v].pc = "delivered" => worker'[v].key \in message'
                    /\ worker'[v].pc = "exhausted" =>
                         row'[worker'[v].key].status = "dead_lettered"
    BY DEF AttemptIssued, DispatchedIsStored, ExhaustedIsClosed
<1>1. CASE v = w
    BY <1>1
<1>2. CASE v # w
  <2>1. worker'[v] = worker[v]
      BY <1>2
  <2>2. /\ worker[v].key \in Keys
        /\ worker[v].attempt \in 1..row[worker[v].key].attempts
        /\ worker[v].pc = "delivered" => worker[v].key \in message
        /\ worker[v].pc = "exhausted" => row[worker[v].key].status = "dead_lettered"
      BY <2>1 DEF IInv, AttemptIssued, DispatchedIsStored, ExhaustedIsClosed
  <2>3. row[worker[v].key].attempts \in Nat
      BY <2>2 DEF IInv, TypeOK, Rows
  <2>4. QED
      BY <2>1, <2>2, <2>3
<1>3. QED
    BY <1>1, <1>2

(* mark_delivered, mark_failed_or_dead_letter and                          *)
(* dead_letter_invalid_propagation preserve the invariant.                 *)
LEMMA MarkIInv ==
  ASSUME IInv, NEW w \in Workers, worker[w].pc # "idle",
         NEW status \in {"queued", "delivered", "dead_lettered"},
         NEW outcome \in {"retry", "delivered", "dead_lettered"},
         status = "delivered" <=> outcome = "delivered",
         status = "delivered" => worker[w].pc = "delivered",
         Mark(w, status, outcome)
  PROVE  IInv'
<1> DEFINE k == worker[w].key
           n == worker[w].attempt
           r == [row[k] EXCEPT !.status = status, !.live = FALSE]
           o == [log[k] EXCEPT ![n] = outcome]
<1>1. /\ k \in Keys /\ n \in 1..row[k].attempts
      /\ row[k] \in Rows /\ log[k] \in Logs
      /\ row[k].attempts \in 0..MaxAttempts
      /\ n \in Attempts
    BY DEF IInv, AttemptIssued, TypeOK, Rows, Attempts
<1>2. /\ worker' = [worker EXCEPT ![w] = Idle]
      /\ UNCHANGED <<message, calls, crashes>>
    BY DEF Mark
<1>3. /\ worker' \in [Workers -> Jobs]
      /\ worker'[w].pc = "idle"
      /\ \A v \in Workers \ {w} : worker'[v] = worker[v]
    BY <1>2 DEF IInv, TypeOK, Idle, Jobs
<1>4. CASE ~Owns(w)
  <2>1. row' = row /\ log' = log
      BY <1>4 DEF Mark
  <2>2. TypeOK' /\ Unclaimed' /\ DeliveredIsAcknowledged'
      BY <1>2, <1>3, <2>1 DEF IInv, TypeOK, Unclaimed, DeliveredIsAcknowledged
  <2>3. \A j \in Keys : row'[j].attempts \in Nat
      BY <2>1 DEF IInv, TypeOK, Rows
  <2>4. AttemptIssued' /\ DispatchedIsStored' /\ ExhaustedIsClosed'
      BY <1>2, <1>3, <2>1, <2>3, WorkersKeep
  <2>5. QED
      BY <2>2, <2>4 DEF IInv
<1>5. CASE Owns(w)
  <2>1. /\ row[k].status = "processing" /\ row[k].attempts = n
        /\ row' = [row EXCEPT ![k] = r]
        /\ log' = [log EXCEPT ![k] = o]
      BY <1>5 DEF Mark, Owns
  <2>2. \A i \in Attempts : log[k][i] # "delivered"
      BY <1>1, <2>1, OpenHasNoDelivery DEF Open
  <2>3. /\ r \in Rows /\ r.status = status /\ r.attempts = n
        /\ o \in Logs /\ o[n] = outcome
        /\ \A i \in Attempts \ {n} : o[i] = log[k][i]
      BY <1>1, <2>1 DEF Rows, Logs
  <2> HIDE DEF r, o
  <2>4. /\ row' \in [Keys -> Rows] /\ row'[k] = r
        /\ \A j \in Keys \ {k} : row'[j] = row[j]
        /\ log' \in [Keys -> Logs] /\ log'[k] = o
        /\ \A j \in Keys \ {k} : log'[j] = log[j]
      BY <1>1, <2>1, <2>3 DEF IInv, TypeOK
  <2>5. TypeOK' /\ Unclaimed'
      BY <1>2, <1>3, <2>3, <2>4 DEF IInv, TypeOK, Unclaimed
  <2>6. \A j \in Keys : /\ row'[j].attempts \in Nat
                        /\ row'[j].attempts >= row[j].attempts
                        /\ row[j].status = "dead_lettered" => row'[j].status = "dead_lettered"
      BY <1>1, <2>1, <2>3, <2>4 DEF IInv, TypeOK, Rows
  <2>7. AttemptIssued' /\ DispatchedIsStored' /\ ExhaustedIsClosed'
      BY <1>2, <1>3, <2>6, WorkersKeep
  <2>8. status = "delivered" => k \in message'
      BY <1>2 DEF IInv, DispatchedIsStored
  <2>9. DeliveredIsAcknowledged'
      BY <1>1, <1>2, <2>2, <2>3, <2>4, <2>8 DEF IInv, DeliveredIsAcknowledged
  <2>10. QED
      BY <2>5, <2>7, <2>9 DEF IInv
<1>6. QED
    BY <1>4, <1>5

(* Every step of the service, its workers and the clock preserves it. *)
LEMMA NextIInv == IInv /\ [Next]_vars => IInv'
<1> SUFFICES ASSUME IInv, [Next]_vars PROVE IInv'
    OBVIOUS
<1>0. /\ row \in [Keys -> Rows] /\ log \in [Keys -> Logs] /\ worker \in [Workers -> Jobs]
      /\ \A j \in Keys : row[j].attempts \in 0..MaxAttempts
    BY DEF IInv, TypeOK, Rows
<1>1. ASSUME NEW k \in Keys, NEW c \in Contents, Record(k, c) PROVE IInv'
  <2> DEFINE r == [NoRow EXCEPT !.status = "queued", !.content = c]
  <2>1. row[k].status = "none"
      BY <1>0, <1>1 DEF Record, Recorded
  <2>2. /\ row' = [row EXCEPT ![k] = r]
        /\ UNCHANGED <<log, message, calls, worker, crashes>>
      BY <1>1, <2>1 DEF Record, Recorded
  <2>3. \A i \in Attempts : log[k][i] # "delivered"
      BY <2>1, OpenHasNoDelivery DEF Open
  <2>4. r \in Rows /\ r.status = "queued" /\ r.attempts = 0
    <3>1. NoRow \in Rows /\ NoRow.attempts = 0
        BY DEF Rows, NoRow, Nothing
    <3>2. QED
        BY <3>1 DEF Rows
  <2> HIDE DEF r
  <2>5. /\ row' \in [Keys -> Rows] /\ row'[k] = r
        /\ \A j \in Keys \ {k} : row'[j] = row[j]
      BY <1>0, <2>2, <2>4
  <2>6. TypeOK' /\ Unclaimed' /\ DeliveredIsAcknowledged'
      BY <2>2, <2>3, <2>4, <2>5 DEF IInv, TypeOK, Unclaimed, DeliveredIsAcknowledged
  <2>7. \A v \in Workers : worker[v].pc # "idle" => worker[v].key \in Keys \ {k}
    <3> SUFFICES ASSUME NEW v \in Workers, worker[v].pc # "idle", worker[v].key = k
                 PROVE  FALSE
        BY DEF IInv, AttemptIssued
    <3> QED
        BY <1>0, <2>1 DEF IInv, AttemptIssued, Unclaimed
  <2>8. QED
      BY <2>2, <2>5, <2>6, <2>7
         DEF IInv, AttemptIssued, DispatchedIsStored, ExhaustedIsClosed
<1>2. ASSUME NEW w \in Workers, NEW k \in Keys, ClaimNext(w, k) PROVE IInv'
  <2> DEFINE n == row[k].attempts + 1
             r == [row[k] EXCEPT !.status = "processing", !.attempts = n, !.live = TRUE]
             o == [log[k] EXCEPT ![n] = "processing"]
             j == [pc |-> "dispatch", key |-> k, attempt |-> n]
  <2>1. /\ row[k].status \in {"queued", "processing"}
        /\ n \in Attempts
        /\ row' = [row EXCEPT ![k] = r]
        /\ log' = [log EXCEPT ![k] = o]
        /\ worker' = [worker EXCEPT ![w] = j]
        /\ UNCHANGED <<message, calls, crashes>>
      BY <1>0, <1>2 DEF ClaimNext, Due, Attempts
  <2>2. \A i \in Attempts : log[k][i] # "delivered"
      BY <2>1, OpenHasNoDelivery DEF Open
  <2>3. /\ r \in Rows /\ r.status = "processing" /\ r.attempts = n
        /\ o \in Logs /\ \A i \in Attempts : o[i] # "delivered"
    <3>1. row[k] \in Rows /\ log[k] \in Logs /\ n \in 0..MaxAttempts
        BY <1>0, <2>1 DEF Attempts
    <3> HIDE DEF n
    <3>2. r \in Rows /\ r.status = "processing" /\ r.attempts = n
        BY <3>1 DEF Rows
    <3>3. o \in Logs /\ \A i \in Attempts : o[i] # "delivered"
        BY <2>1, <2>2, <3>1 DEF Logs
    <3>4. QED
        BY <3>2, <3>3
  <2>4. j \in Jobs /\ j.pc = "dispatch" /\ j.key = k /\ j.attempt = n
      BY <2>1 DEF Jobs, Attempts
  <2> HIDE DEF r, o, j
  <2>5. /\ row' \in [Keys -> Rows] /\ row'[k] = r
        /\ \A i \in Keys \ {k} : row'[i] = row[i]
        /\ log' \in [Keys -> Logs] /\ log'[k] = o
        /\ \A i \in Keys \ {k} : log'[i] = log[i]
        /\ worker' \in [Workers -> Jobs] /\ worker'[w] = j
        /\ \A v \in Workers \ {w} : worker'[v] = worker[v]
      BY <1>0, <2>1, <2>3, <2>4
  <2>6. TypeOK' /\ Unclaimed' /\ DeliveredIsAcknowledged'
      BY <2>1, <2>3, <2>5 DEF IInv, TypeOK, Unclaimed, DeliveredIsAcknowledged
  <2>7. \A i \in Keys : /\ row'[i].attempts \in Nat
                        /\ row'[i].attempts >= row[i].attempts
                        /\ row[i].status = "dead_lettered" => row'[i].status = "dead_lettered"
      BY <1>0, <2>1, <2>3, <2>5 DEF Attempts
  <2>8. worker'[w].key \in Keys /\ worker'[w].attempt \in 1..row'[worker'[w].key].attempts
      BY <2>1, <2>3, <2>4, <2>5 DEF Attempts
  <2>9. AttemptIssued' /\ DispatchedIsStored' /\ ExhaustedIsClosed'
      BY <2>1, <2>4, <2>5, <2>7, <2>8, WorkersKeep
  <2>10. QED
      BY <2>6, <2>9 DEF IInv
<1>3. ASSUME NEW w \in Workers, NEW k \in Keys, ReclaimExhausted(w, k) PROVE IInv'
  <2> DEFINE r == [row[k] EXCEPT !.status = "dead_lettered", !.live = FALSE]
             j == [pc |-> "exhausted", key |-> k, attempt |-> MaxAttempts]
  <2>1. /\ row[k].status \in {"queued", "processing"}
        /\ row[k].attempts = MaxAttempts
      BY <1>0, <1>3 DEF ReclaimExhausted, Spent
  <2>2. /\ row' = [row EXCEPT ![k] = r]
        /\ worker' = [worker EXCEPT ![w] = j]
        /\ UNCHANGED <<log, message, calls, crashes>>
      BY <1>3, <2>1 DEF ReclaimExhausted
  <2>3. \A i \in Attempts : log[k][i] # "delivered"
      BY <2>1, OpenHasNoDelivery DEF Open
  <2>4. r \in Rows /\ r.status = "dead_lettered" /\ r.attempts = MaxAttempts
      BY <1>0, <2>1 DEF Rows
  <2>5. j \in Jobs /\ j.pc = "exhausted" /\ j.key = k /\ j.attempt = MaxAttempts
      BY DEF Jobs
  <2> HIDE DEF r, j
  <2>6. /\ row' \in [Keys -> Rows] /\ row'[k] = r
        /\ \A i \in Keys \ {k} : row'[i] = row[i]
        /\ worker' \in [Workers -> Jobs] /\ worker'[w] = j
        /\ \A v \in Workers \ {w} : worker'[v] = worker[v]
      BY <1>0, <2>2, <2>4, <2>5
  <2>7. TypeOK' /\ Unclaimed' /\ DeliveredIsAcknowledged'
      BY <2>2, <2>3, <2>4, <2>6 DEF IInv, TypeOK, Unclaimed, DeliveredIsAcknowledged
  <2>8. \A i \in Keys : /\ row'[i].attempts \in Nat
                        /\ row'[i].attempts >= row[i].attempts
                        /\ row[i].status = "dead_lettered" => row'[i].status = "dead_lettered"
      BY <1>0, <2>1, <2>4, <2>6
  <2>9. AttemptIssued' /\ DispatchedIsStored' /\ ExhaustedIsClosed'
      BY <2>2, <2>4, <2>5, <2>6, <2>8, WorkersKeep
  <2>10. QED
      BY <2>7, <2>9 DEF IInv
<1>4. ASSUME NEW w \in Workers, RecordExhausted(w) PROVE IInv'
  <2> DEFINE k == worker[w].key
             n == worker[w].attempt
             o == [log[k] EXCEPT ![n] = "dead_lettered"]
  <2>1. /\ k \in Keys /\ n \in Attempts
        /\ row[k].status = "dead_lettered"
        /\ log' = [log EXCEPT ![k] = o]
        /\ worker' = [worker EXCEPT ![w] = Idle]
        /\ UNCHANGED <<row, message, calls, crashes>>
      BY <1>0, <1>4 DEF RecordExhausted, IInv, AttemptIssued, ExhaustedIsClosed, Attempts
  <2>2. o \in Logs /\ \A i \in Attempts : o[i] = "delivered" => log[k][i] = "delivered"
      BY <1>0, <2>1 DEF Logs
  <2> HIDE DEF o
  <2>3. /\ log' \in [Keys -> Logs] /\ log'[k] = o
        /\ \A i \in Keys \ {k} : log'[i] = log[i]
      BY <1>0, <2>1, <2>2
  <2>4. /\ worker' \in [Workers -> Jobs] /\ worker'[w].pc = "idle"
        /\ \A v \in Workers \ {w} : worker'[v] = worker[v]
      BY <1>0, <2>1 DEF Idle, Jobs
  <2>5. TypeOK' /\ Unclaimed' /\ DeliveredIsAcknowledged'
      BY <2>1, <2>2, <2>3, <2>4 DEF IInv, TypeOK, Unclaimed, DeliveredIsAcknowledged
  <2>6. AttemptIssued' /\ DispatchedIsStored' /\ ExhaustedIsClosed'
      BY <1>0, <2>1, <2>4, WorkersKeep
  <2>7. QED
      BY <2>5, <2>6 DEF IInv
<1>5. ASSUME NEW w \in Workers, Dispatch(w) PROVE IInv'
  <2> DEFINE k == worker[w].key
  <2>1. k \in Keys /\ worker[w].attempt \in 1..row[k].attempts
      BY <1>5 DEF Dispatch, IInv, AttemptIssued
  <2>2. PICK step \in {"delivered", "failed", "quarantine"} :
          /\ worker' = [worker EXCEPT ![w] = [@ EXCEPT !.pc = step]]
          /\ step = "delivered" => message' = message \cup {k}
          /\ step # "delivered" => message' = message
          /\ calls' \in {calls, [calls EXCEPT ![k] = @ + 1]}
          /\ UNCHANGED <<row, log, crashes>>
      BY <1>5 DEF Dispatch
  <2> DEFINE j == [worker[w] EXCEPT !.pc = step]
  <2>3. j \in Jobs /\ j.pc = step /\ j.key = k /\ j.attempt = worker[w].attempt
      BY <1>0 DEF Jobs
  <2>4. worker' = [worker EXCEPT ![w] = j]
      BY <2>2
  <2> HIDE DEF j
  <2>5. /\ worker' \in [Workers -> Jobs] /\ worker'[w] = j
        /\ \A v \in Workers \ {w} : worker'[v] = worker[v]
      BY <1>0, <2>3, <2>4
  <2>6. calls' \in [Keys -> Nat] /\ message' \in SUBSET Keys /\ message \subseteq message'
      BY <2>1, <2>2 DEF IInv, TypeOK
  <2>7. TypeOK' /\ Unclaimed' /\ DeliveredIsAcknowledged'
      BY <2>2, <2>5, <2>6 DEF IInv, TypeOK, Unclaimed, DeliveredIsAcknowledged
  <2>8. AttemptIssued' /\ DispatchedIsStored' /\ ExhaustedIsClosed'
      BY <1>0, <2>1, <2>2, <2>3, <2>5, <2>6, WorkersKeep
  <2>9. QED
      BY <2>7, <2>8 DEF IInv
<1>6. ASSUME NEW w \in Workers, MarkDelivered(w) \/ MarkFailed(w) \/ Quarantine(w) PROVE IInv'
    BY <1>6, MarkIInv DEF MarkDelivered, MarkFailed, Quarantine
<1>7. ASSUME NEW w \in Workers, Crash(w) PROVE IInv'
  <2>1. /\ worker' \in [Workers -> Jobs] /\ worker'[w].pc = "idle"
        /\ \A v \in Workers \ {w} : worker'[v] = worker[v]
      BY <1>0, <1>7 DEF Crash, Idle, Jobs
  <2>2. TypeOK' /\ Unclaimed' /\ DeliveredIsAcknowledged'
      BY <1>7, <2>1 DEF Crash, IInv, TypeOK, Unclaimed, DeliveredIsAcknowledged
  <2>3. AttemptIssued' /\ DispatchedIsStored' /\ ExhaustedIsClosed'
      BY <1>0, <1>7, <2>1, WorkersKeep DEF Crash
  <2>4. QED
      BY <2>2, <2>3 DEF IInv
<1>8. ASSUME NEW k \in Keys, Expire(k) PROVE IInv'
  <2> DEFINE r == [row[k] EXCEPT !.live = FALSE]
  <2>1. r \in Rows /\ r.status = row[k].status /\ r.attempts = row[k].attempts
      BY <1>0 DEF Rows
  <2>2. row' = [row EXCEPT ![k] = r] /\ UNCHANGED <<log, message, calls, worker, crashes>>
      BY <1>8 DEF Expire
  <2> HIDE DEF r
  <2>3. /\ row' \in [Keys -> Rows]
        /\ \A i \in Keys : row'[i].status = row[i].status /\ row'[i].attempts = row[i].attempts
      BY <1>0, <2>1, <2>2
  <2>4. QED
      BY <2>2, <2>3 DEF IInv, TypeOK, Unclaimed, AttemptIssued, DispatchedIsStored, ExhaustedIsClosed,
                        DeliveredIsAcknowledged
<1>9. CASE UNCHANGED vars
    BY <1>9 DEF vars, IInv, TypeOK, Unclaimed, AttemptIssued, DispatchedIsStored, ExhaustedIsClosed,
                DeliveredIsAcknowledged
<1>10. QED
    BY <1>1, <1>2, <1>3, <1>4, <1>5, <1>6, <1>7, <1>8, <1>9 DEF Next, WorkerStep

-----------------------------------------------------------------------------
(* The rows of the delivery tables keep their types; attempts never exceed *)
(* MAX_ATTEMPTS.                                                           *)
THEOREM TypeCorrect == Spec => []TypeOK
<1>1. IInv => TypeOK
    BY DEF IInv
<1>2. QED
    BY InitIInv, NextIInv, <1>1, PTL DEF Spec

(* A delivered notification was acknowledged, by the attempt that the row  *)
(* names and by no other (mark_delivered, persist_channel_message).        *)
THEOREM DeliveriesAcknowledged == Spec => []DeliveredIsAcknowledged
<1>1. IInv => DeliveredIsAcknowledged
    BY DEF IInv
<1>2. QED
    BY InitIInv, NextIInv, <1>1, PTL DEF Spec

(* A delivery that ended is never reopened, however late a worker marks    *)
(* it, and its content is the one first recorded (record_delivery).        *)
THEOREM OutcomesFinal == Spec => OutcomeIsFinal
<1> DEFINE A == \A k \in Keys :
         /\ row[k].status \in {"delivered", "dead_lettered"} => row'[k] = row[k]
         /\ row[k].status # "none" => row'[k].content = row[k].content
<1>1. IInv /\ [Next]_vars => [A]_vars
  <2> SUFFICES ASSUME IInv, [Next]_vars, NEW k \in Keys, row[k].status # "none"
               PROVE  /\ row[k].status \in {"delivered", "dead_lettered"} => row'[k] = row[k]
                      /\ row'[k].content = row[k].content
    OBVIOUS
  <2> USE DEF IInv, TypeOK, Rows
  <2> DEFINE G == /\ row[k].status \in {"delivered", "dead_lettered"} => row'[k] = row[k]
                  /\ row'[k].content = row[k].content
  <2>1. ASSUME NEW j \in Keys, NEW c \in Contents, Record(j, c) PROVE G
    BY <2>1 DEF Record, Recorded
  <2>2. ASSUME NEW w \in Workers, NEW j \in Keys, ClaimNext(w, j) PROVE G
    BY <2>2 DEF ClaimNext, Due
  <2>3. ASSUME NEW w \in Workers, NEW j \in Keys, ReclaimExhausted(w, j) PROVE G
    BY <2>3 DEF ReclaimExhausted, Spent
  <2>4. ASSUME NEW w \in Workers, MarkDelivered(w) \/ MarkFailed(w) \/ Quarantine(w) PROVE G
    <3> DEFINE j == worker[w].key
    <3>1. j \in Keys
        BY <2>4 DEF AttemptIssued, MarkDelivered, MarkFailed, Quarantine
    <3>2. PICK status \in {"queued", "delivered", "dead_lettered"},
               outcome \in {"retry", "delivered", "dead_lettered"} : Mark(w, status, outcome)
        BY <2>4 DEF MarkDelivered, MarkFailed, Quarantine
    <3>3. CASE ~Owns(w)
        BY <3>2, <3>3 DEF Mark
    <3>4. CASE Owns(w)
      <4> DEFINE r == [row[j] EXCEPT !.status = status, !.live = FALSE]
      <4>1. row[j].status = "processing" /\ row' = [row EXCEPT ![j] = r]
          BY <3>2, <3>4 DEF Mark, Owns
      <4>2. r.content = row[j].content
          BY <3>1
      <4> HIDE DEF r
      <4>3. QED
          BY <3>1, <4>1, <4>2
    <3>5. QED
        BY <3>3, <3>4
  <2>5. ASSUME NEW j \in Keys, Expire(j) PROVE G
    BY <2>5 DEF Expire
  <2>6. ASSUME row' = row PROVE G
    BY <2>6
  <2>7. QED
    BY <2>1, <2>2, <2>3, <2>4, <2>5, <2>6
       DEF Next, WorkerStep, RecordExhausted, Dispatch, Crash, vars
<1>2. QED
    BY InitIInv, NextIInv, <1>1, PTL DEF Spec, OutcomeIsFinal

-----------------------------------------------------------------------------
(* The delivery queue implements LeasedDelivery.  Beyond IInv the           *)
(* refinement needs that only a row in processing has a lease, and that     *)
(* every claim still to be dispatched has its call in reserve.              *)

LeaseIsHeld == \A k \in Keys : row[k].live => row[k].status = "processing"

Dispatching(w, k) == worker[w].pc = "dispatch" /\ worker[w].key = k

\* The attempts of k that were claimed and have not reached the channel.
Pending(k) ==
    {n \in 1..row[k].attempts : \E w \in Workers : Dispatching(w, k) /\ worker[w].attempt = n}

PendingDistinct ==
    \A k \in Keys : \A v, w \in Workers :
      Dispatching(v, k) /\ Dispatching(w, k) /\ worker[v].attempt = worker[w].attempt => v = w
CallsAccounted == \A k \in Keys : calls[k] + Cardinality(Pending(k)) <= row[k].attempts
DeliveredWasCalled ==
    \A w \in Workers : worker[w].pc = "delivered" => calls[worker[w].key] > 0

RInv ==
    /\ LeaseIsHeld
    /\ PendingDistinct
    /\ CallsAccounted
    /\ DeliveredWasCalled

(* The claims that wait for their dispatch are finitely many.              *)
LEMMA PendingFinite ==
  ASSUME NEW k, row[k].attempts \in Nat
  PROVE  IsFiniteSet(Pending(k)) /\ Cardinality(Pending(k)) \in Nat
<1>0. ASSUME NEW n \in Nat PROVE IsFiniteSet(1..n)
  <2>1. 1 \in Int /\ n \in Int
    OBVIOUS
  <2>2. QED
    BY <2>1, FS_Interval, Zenon
<1>1. IsFiniteSet(1..row[k].attempts)
    BY <1>0
<1>2. Pending(k) \subseteq 1..row[k].attempts
    BY DEF Pending
<1>3. QED
    BY <1>1, <1>2, FS_Subset, FS_CardinalityType

(* A key without a new dispatcher and without a call keeps its account.    *)
LEMMA AccountKept ==
  ASSUME NEW k \in Keys, row[k].attempts \in Nat, row'[k].attempts = row[k].attempts,
         calls'[k] = calls[k], calls[k] \in Nat,
         calls[k] + Cardinality(Pending(k)) <= row[k].attempts,
         \A v \in Workers : Dispatching(v, k)' => worker'[v] = worker[v]
  PROVE  calls'[k] + Cardinality(Pending(k)') <= row'[k].attempts
<1>1. IsFiniteSet(Pending(k)) /\ Cardinality(Pending(k)) \in Nat
    BY PendingFinite
<1>2. Pending(k)' \subseteq Pending(k)
    BY DEF Pending, Dispatching
<1>3. Cardinality(Pending(k)') \in Nat /\ Cardinality(Pending(k)') <= Cardinality(Pending(k))
    BY <1>1, <1>2, FS_Subset, FS_CardinalityType
<1>4. QED
    BY <1>1, <1>3

(* No delivery has been requested: nothing is claimed.                     *)
LEMMA InitRInv == Init => RInv
<1> SUFFICES ASSUME Init PROVE RInv
    OBVIOUS
<1>1. LeaseIsHeld /\ PendingDistinct /\ DeliveredWasCalled
    BY DEF Init, LeaseIsHeld, PendingDistinct, DeliveredWasCalled, Dispatching, Idle, NoRow
<1>2. \A k \in Keys : Pending(k) = {}
    BY DEF Init, Pending, Dispatching, Idle
<1>3. ASSUME NEW k \in Keys PROVE calls[k] + Cardinality(Pending(k)) <= row[k].attempts
  <2>1. calls[k] = 0 /\ row[k].attempts = 0
    BY DEF Init, NoRow
  <2>2. Cardinality(Pending(k)) = 0
    BY <1>2, FS_EmptySet
  <2>3. QED
    BY <2>1, <2>2
<1>4. QED
    BY <1>1, <1>3 DEF RInv, CallsAccounted

(* Every step keeps the account of claims and calls. *)
LEMMA NextRInv == IInv /\ RInv /\ [Next]_vars => RInv'
<1> SUFFICES ASSUME IInv, RInv, [Next]_vars PROVE RInv'
    OBVIOUS
<1>0. /\ row \in [Keys -> Rows] /\ worker \in [Workers -> Jobs] /\ calls \in [Keys -> Nat]
      /\ \A j \in Keys : row[j].attempts \in 0..MaxAttempts /\ row[j].attempts \in Nat
      /\ \A j \in Keys : row[j].live \in BOOLEAN
    BY DEF IInv, TypeOK, Rows
<1>a. ASSUME \A j \in Keys : /\ row'[j].attempts = row[j].attempts /\ calls'[j] = calls[j]
                             /\ row'[j].live => row'[j].status = "processing",
             \A v \in Workers : \/ worker'[v] = worker[v]
                                \/ worker'[v].pc \notin {"dispatch", "delivered"}
      PROVE  RInv'
  <2>1. \A v \in Workers, j \in Keys : Dispatching(v, j)' => worker'[v] = worker[v] /\ Dispatching(v, j)
      BY <1>a DEF Dispatching
  <2>2. \A j \in Keys : calls[j] + Cardinality(Pending(j)) <= row[j].attempts
      BY DEF RInv, CallsAccounted
  <2>3. CallsAccounted'
      BY <1>0, <1>a, <2>1, <2>2, AccountKept DEF CallsAccounted
  <2>4. PendingDistinct'
      BY <2>1 DEF RInv, PendingDistinct
  <2>5. DeliveredWasCalled'
    <3> SUFFICES ASSUME NEW v \in Workers, worker'[v].pc = "delivered"
                 PROVE  calls'[worker'[v].key] > 0
        BY DEF DeliveredWasCalled
    <3>1. worker'[v] = worker[v]
        BY <1>a
    <3>2. worker[v].key \in Keys /\ calls[worker[v].key] > 0
        BY <3>1 DEF IInv, AttemptIssued, RInv, DeliveredWasCalled
    <3>3. QED
        BY <1>a, <3>1, <3>2
  <2>6. LeaseIsHeld'
      BY <1>a DEF LeaseIsHeld
  <2>7. QED
      BY <2>3, <2>4, <2>5, <2>6 DEF RInv
<1>1. ASSUME NEW k \in Keys, NEW c \in Contents, Record(k, c) PROVE RInv'
  <2>1. row[k].status = "none" /\ row[k].attempts = 0
      BY <1>0, <1>1 DEF Record, Recorded, IInv, Unclaimed
  <2>2. /\ row' = [row EXCEPT ![k] = [NoRow EXCEPT !.status = "queued", !.content = c]]
        /\ UNCHANGED <<calls, worker>>
      BY <1>1, <2>1 DEF Record, Recorded
  <2>3. \A j \in Keys : /\ row'[j].attempts = row[j].attempts
                        /\ row'[j].live => row'[j].status = "processing"
      BY <1>0, <2>1, <2>2 DEF NoRow, RInv, LeaseIsHeld
  <2>4. QED
      BY <1>a, <2>2, <2>3
<1>2. ASSUME NEW w \in Workers, NEW k \in Keys, ClaimNext(w, k) PROVE RInv'
  <2> DEFINE n == row[k].attempts + 1
  <2>1. /\ row' = [row EXCEPT ![k] = [row[k] EXCEPT !.status = "processing", !.attempts = n, !.live = TRUE]]
        /\ worker' = [worker EXCEPT ![w] = [pc |-> "dispatch", key |-> k, attempt |-> n]]
        /\ worker[w].pc = "idle"
        /\ UNCHANGED calls
      BY <1>2 DEF ClaimNext
  <2>2. /\ row'[k].attempts = n /\ row'[k].status = "processing"
        /\ \A j \in Keys \ {k} : row'[j] = row[j]
      BY <1>0, <2>1 DEF Rows
  <2>3. /\ worker'[w] = [pc |-> "dispatch", key |-> k, attempt |-> n]
        /\ \A v \in Workers \ {w} : worker'[v] = worker[v]
      BY <1>0, <2>1
  <2>4. LeaseIsHeld'
      BY <2>2 DEF RInv, LeaseIsHeld
  <2>5. \A v \in Workers \ {w} : Dispatching(v, k) => worker[v].attempt \in 1..row[k].attempts
      BY DEF IInv, AttemptIssued, Dispatching
  <2>6. PendingDistinct'
    <3> SUFFICES ASSUME NEW j \in Keys, NEW u \in Workers, NEW v \in Workers,
                        Dispatching(u, j)', Dispatching(v, j)', worker'[u].attempt = worker'[v].attempt
                 PROVE  u = v
        BY DEF PendingDistinct
    <3>1. CASE u # w /\ v # w
        BY <3>1, <2>3 DEF RInv, PendingDistinct, Dispatching
    <3>2. CASE u = w /\ v # w
      <4>1. j = k /\ worker[v].attempt = n /\ Dispatching(v, k)
          BY <3>2, <2>3 DEF Dispatching
      <4>2. QED
          BY <1>0, <3>2, <4>1, <2>5
    <3>3. CASE u # w /\ v = w
      <4>1. j = k /\ worker[u].attempt = n /\ Dispatching(u, k)
          BY <3>3, <2>3 DEF Dispatching
      <4>2. QED
          BY <1>0, <3>3, <4>1, <2>5
    <3>4. QED
        BY <3>1, <3>2, <3>3
  <2>7. ASSUME NEW j \in Keys, j # k
        PROVE  calls'[j] + Cardinality(Pending(j)') <= row'[j].attempts
    <3>1. calls[j] + Cardinality(Pending(j)) <= row[j].attempts
        BY DEF RInv, CallsAccounted
    <3>2. \A v \in Workers : Dispatching(v, j)' => worker'[v] = worker[v]
        BY <2>3, <2>7 DEF Dispatching
    <3>3. row'[j].attempts = row[j].attempts /\ calls'[j] = calls[j] /\ calls[j] \in Nat
        BY <1>0, <2>1, <2>2, <2>7
    <3>4. QED
        BY <1>0, <3>1, <3>2, <3>3, AccountKept
  <2>8. calls'[k] + Cardinality(Pending(k)') <= row'[k].attempts
    <3>1. Pending(k)' = Pending(k) \cup {n}
      <4>1. ASSUME NEW m \in Pending(k)' PROVE m \in Pending(k) \cup {n}
        <5>1. PICK v \in Workers : Dispatching(v, k)' /\ worker'[v].attempt = m
            BY <4>1 DEF Pending
        <5>2. CASE v = w
            BY <5>1, <5>2, <2>3
        <5>3. CASE v # w
            BY <1>0, <5>1, <5>3, <2>3, <2>5 DEF Pending, Dispatching
        <5>4. QED
            BY <5>2, <5>3
      <4>2. ASSUME NEW m \in Pending(k) PROVE m \in Pending(k)'
        <5>1. PICK v \in Workers : Dispatching(v, k) /\ worker[v].attempt = m
            BY <4>2 DEF Pending
        <5>2. worker'[v] = worker[v]
            BY <5>1, <2>1, <2>3 DEF Dispatching
        <5>3. m \in 1..n
            BY <1>0, <4>2 DEF Pending
        <5>4. QED
            BY <5>1, <5>2, <5>3, <2>2 DEF Pending, Dispatching
      <4>3. n \in Pending(k)'
        <5>1. n \in 1..n
            BY <1>0
        <5>2. Dispatching(w, k)' /\ worker'[w].attempt = n
            BY <2>3 DEF Dispatching
        <5>3. QED
            BY <5>1, <5>2, <2>2 DEF Pending
      <4>4. QED
          BY <4>1, <4>2, <4>3
    <3>2. n \notin Pending(k)
        BY <1>0 DEF Pending
    <3>3. IsFiniteSet(Pending(k)) /\ Cardinality(Pending(k)) \in Nat
        BY <1>0, PendingFinite
    <3>4. Cardinality(Pending(k)') = Cardinality(Pending(k)) + 1
        BY <3>1, <3>2, <3>3, FS_AddElement
    <3>5. calls[k] + Cardinality(Pending(k)) <= row[k].attempts
        BY DEF RInv, CallsAccounted
    <3>6. QED
        BY <1>0, <2>1, <2>2, <3>3, <3>4, <3>5
  <2>9. CallsAccounted'
      BY <2>7, <2>8 DEF CallsAccounted
  <2>10. DeliveredWasCalled'
      BY <2>1, <2>3 DEF RInv, DeliveredWasCalled
  <2>11. QED
      BY <2>4, <2>6, <2>9, <2>10 DEF RInv
<1>3. ASSUME NEW w \in Workers, NEW k \in Keys, ReclaimExhausted(w, k) PROVE RInv'
  <2>1. /\ row' = [row EXCEPT ![k] = [row[k] EXCEPT !.status = "dead_lettered", !.live = FALSE]]
        /\ worker' = [worker EXCEPT ![w] = [pc |-> "exhausted", key |-> k, attempt |-> row[k].attempts]]
        /\ UNCHANGED calls
      BY <1>3 DEF ReclaimExhausted
  <2>2. \A j \in Keys : /\ row'[j].attempts = row[j].attempts
                        /\ row'[j].live => row'[j].status = "processing"
      BY <1>0, <2>1 DEF Rows, RInv, LeaseIsHeld
  <2>3. \A v \in Workers : worker'[v] = worker[v] \/ worker'[v].pc \notin {"dispatch", "delivered"}
      BY <1>0, <2>1
  <2>4. QED
      BY <1>a, <2>1, <2>2, <2>3
<1>4. ASSUME NEW w \in Workers, RecordExhausted(w) \/ Crash(w) PROVE RInv'
  <2>1. worker' = [worker EXCEPT ![w] = Idle] /\ UNCHANGED <<row, calls>>
      BY <1>4 DEF RecordExhausted, Crash
  <2>2. \A v \in Workers : worker'[v] = worker[v] \/ worker'[v].pc \notin {"dispatch", "delivered"}
      BY <1>0, <2>1 DEF Idle
  <2>3. QED
      BY <1>a, <2>1, <2>2 DEF RInv, LeaseIsHeld
<1>5. ASSUME NEW w \in Workers, Dispatch(w) PROVE RInv'
  <2>1. PICK k \in Keys, n \in Nat :
          /\ Dispatching(w, k) /\ k = worker[w].key /\ n = worker[w].attempt
          /\ n \in 1..row[k].attempts
      BY <1>0, <1>5 DEF Dispatch, IInv, AttemptIssued, Dispatching
  <2>2. PICK step \in {"delivered", "failed", "quarantine"} :
          /\ worker' = [worker EXCEPT ![w] = [worker[w] EXCEPT !.pc = step]]
          /\ calls' \in {calls, [calls EXCEPT ![k] = @ + 1]}
          /\ step = "delivered" => calls' = [calls EXCEPT ![k] = @ + 1]
          /\ row' = row
      BY <1>5, <2>1 DEF Dispatch
  <2>3. /\ worker'[w].pc = step /\ worker'[w].key = k
        /\ \A v \in Workers \ {w} : worker'[v] = worker[v]
      BY <1>0, <2>1, <2>2 DEF Jobs
  <2>4. /\ calls'[k] \in Nat /\ calls[k] \in Nat /\ calls'[k] <= calls[k] + 1 /\ calls[k] <= calls'[k]
        /\ step = "delivered" => calls'[k] > 0
        /\ \A j \in Keys \ {k} : calls'[j] = calls[j]
      BY <1>0, <2>1, <2>2
  <2>5. LeaseIsHeld'
      BY <2>2 DEF RInv, LeaseIsHeld
  <2>6. \A v \in Workers, j \in Keys :
           Dispatching(v, j)' => v # w /\ worker'[v] = worker[v] /\ Dispatching(v, j)
      BY <2>3 DEF Dispatching
  <2>7. PendingDistinct'
      BY <2>6 DEF RInv, PendingDistinct
  <2>8. DeliveredWasCalled'
    <3> SUFFICES ASSUME NEW v \in Workers, worker'[v].pc = "delivered"
                 PROVE  calls'[worker'[v].key] > 0
        BY DEF DeliveredWasCalled
    <3>1. CASE v = w
        BY <3>1, <2>3, <2>4
    <3>2. CASE v # w
      <4>1. worker'[v] = worker[v] /\ worker[v].key \in Keys /\ calls[worker[v].key] > 0
          BY <3>2, <2>3 DEF IInv, AttemptIssued, RInv, DeliveredWasCalled
      <4>2. QED
          BY <1>0, <2>4, <4>1
    <3>3. QED
        BY <3>1, <3>2
  <2>9. ASSUME NEW j \in Keys, j # k
        PROVE  calls'[j] + Cardinality(Pending(j)') <= row'[j].attempts
    <3>1. calls[j] + Cardinality(Pending(j)) <= row[j].attempts
        BY DEF RInv, CallsAccounted
    <3>2. row'[j].attempts = row[j].attempts /\ calls'[j] = calls[j] /\ calls[j] \in Nat
        BY <1>0, <2>2, <2>4, <2>9
    <3>3. \A v \in Workers : Dispatching(v, j)' => worker'[v] = worker[v]
        BY <2>6
    <3>4. QED
        BY <1>0, <3>1, <3>2, <3>3, AccountKept
  <2>10. calls'[k] + Cardinality(Pending(k)') <= row'[k].attempts
    <3>1. Pending(k)' \subseteq Pending(k) \ {n}
      <4> SUFFICES ASSUME NEW m \in Pending(k)' PROVE m \in Pending(k) \ {n}
          OBVIOUS
      <4>1. PICK v \in Workers : Dispatching(v, k)' /\ worker'[v].attempt = m
          BY DEF Pending
      <4>2. m \in 1..row[k].attempts
          BY <2>2 DEF Pending
      <4>3. v # w /\ worker[v].attempt = m /\ Dispatching(v, k)
          BY <4>1, <2>1, <2>6
      <4>4. m # n
          BY <2>1, <4>3 DEF RInv, PendingDistinct
      <4>5. QED
          BY <4>2, <4>3, <4>4 DEF Pending
    <3>2. n \in Pending(k)
        BY <2>1 DEF Pending
    <3>3. IsFiniteSet(Pending(k)) /\ Cardinality(Pending(k)) \in Nat
        BY <1>0, <2>1, PendingFinite
    <3>4. IsFiniteSet(Pending(k) \ {n}) /\ Cardinality(Pending(k) \ {n}) = Cardinality(Pending(k)) - 1
        BY <3>2, <3>3, FS_RemoveElement
    <3>5. IsFiniteSet(Pending(k)') /\ Cardinality(Pending(k)') <= Cardinality(Pending(k)) - 1
        BY <3>1, <3>4, FS_Subset
    <3>6. Cardinality(Pending(k)') \in Nat
        BY <3>5, FS_CardinalityType
    <3>7. calls[k] + Cardinality(Pending(k)) <= row[k].attempts /\ row[k].attempts \in Nat
        BY <1>0, <2>1 DEF RInv, CallsAccounted
    <3>8. QED
        BY <2>2, <2>4, <3>3, <3>5, <3>6, <3>7
  <2>11. CallsAccounted'
      BY <2>9, <2>10 DEF CallsAccounted
  <2>12. QED
      BY <2>5, <2>7, <2>8, <2>11 DEF RInv
<1>6. ASSUME NEW w \in Workers, MarkDelivered(w) \/ MarkFailed(w) \/ Quarantine(w) PROVE RInv'
  <2>1. PICK status \in {"queued", "delivered", "dead_lettered"},
             outcome \in {"retry", "delivered", "dead_lettered"} : Mark(w, status, outcome)
      BY <1>6 DEF MarkDelivered, MarkFailed, Quarantine
  <2>2. PICK k \in Keys : k = worker[w].key
      BY <1>6 DEF MarkDelivered, MarkFailed, Quarantine, IInv, AttemptIssued
  <2>3. worker' = [worker EXCEPT ![w] = Idle] /\ UNCHANGED calls
      BY <2>1 DEF Mark
  <2>4. row' = row \/ row' = [row EXCEPT ![k] = [row[k] EXCEPT !.status = status, !.live = FALSE]]
      BY <2>1, <2>2 DEF Mark
  <2>5. \A j \in Keys : /\ row'[j].attempts = row[j].attempts
                        /\ row'[j].live => row'[j].status = "processing"
    <3>1. CASE row' = row
        BY <3>1 DEF RInv, LeaseIsHeld
    <3>2. CASE row' = [row EXCEPT ![k] = [row[k] EXCEPT !.status = status, !.live = FALSE]]
        BY <1>0, <3>2 DEF Rows, RInv, LeaseIsHeld
    <3>3. QED
        BY <2>4, <3>1, <3>2
  <2>6. \A v \in Workers : worker'[v] = worker[v] \/ worker'[v].pc \notin {"dispatch", "delivered"}
      BY <1>0, <2>3 DEF Idle
  <2>7. QED
      BY <1>a, <2>3, <2>5, <2>6
<1>7. ASSUME NEW k \in Keys, Expire(k) PROVE RInv'
  <2>1. row' = [row EXCEPT ![k] = [row[k] EXCEPT !.live = FALSE]] /\ UNCHANGED <<calls, worker>>
      BY <1>7 DEF Expire
  <2>2. \A j \in Keys : /\ row'[j].attempts = row[j].attempts
                        /\ row'[j].live => row'[j].status = "processing"
      BY <1>0, <2>1 DEF Rows, RInv, LeaseIsHeld
  <2>3. QED
      BY <1>a, <2>1, <2>2
<1>8. CASE UNCHANGED vars
    BY <1>8, <1>a DEF vars, RInv, LeaseIsHeld
<1>9. QED
    BY <1>1, <1>2, <1>3, <1>4, <1>5, <1>6, <1>7, <1>8 DEF Next, WorkerStep

\* A row of deliveries as LeasedDelivery sees it.
View(r) == [state |-> PromisedState[r.status], live |-> r.live, tries |-> r.attempts, round |-> 0]
Item(k) == View(row[k])

(* The states of the promise.                                              *)
LEMMA PromisedStates ==
  /\ PromisedState["none"] = "none" /\ PromisedState["queued"] = "open"
  /\ PromisedState["processing"] = "held" /\ PromisedState["delivered"] = "done"
  /\ PromisedState["dead_lettered"] = "dead"
BY DEF PromisedState

\* The items of the promise.
Views == [state: {"none", "open", "held", "done", "dead"}, live: BOOLEAN, tries: Nat, round: Nat]

(* What the rows look like to the promise.                                 *)
LEMMA RowView ==
  ASSUME NEW r \in Rows
  PROVE  /\ View(r) \in Views /\ View(r).state = PromisedState[r.status]
         /\ View(r).live = r.live /\ View(r).tries = r.attempts /\ View(r).round = 0
<1>1. /\ r.status \in {"none", "queued", "processing", "delivered", "dead_lettered"}
      /\ r.live \in BOOLEAN /\ r.attempts \in Nat
    BY DEF Rows
<1>2. PromisedState[r.status] \in {"none", "open", "held", "done", "dead"}
    BY <1>1, PromisedStates
<1>3. QED
    BY <1>1, <1>2 DEF View, Views

(* The moves of the promise, read field by field.                          *)
LEMMA ViewMoves ==
  ASSUME NEW x \in Views, NEW y \in Views, NEW k, y.round = x.round
  PROVE  /\ x.state = "none" /\ y.state = "open" /\ y.live = x.live /\ y.tries = x.tries
              => Promise!Accepted(x, y)
         /\ x.state \in {"open", "held"} /\ x.live = FALSE /\ x.tries < MaxAttempts /\ y.state = "held"
              /\ y.live = TRUE /\ y.tries = x.tries + 1
              => Promise!Taken(x, y)
         /\ x.live = TRUE /\ y.state = x.state /\ y.live = FALSE /\ y.tries = x.tries
              => Promise!Lapsed(x, y)
         /\ x.state = "held" /\ y.state = "open" /\ y.live = FALSE /\ y.tries = x.tries
              => Promise!PutBack(x, y)
         /\ (x.state = "held" \/ (x.state = "open" /\ x.tries >= MaxAttempts)) /\ y.state = "dead"
              /\ y.live = FALSE /\ y.tries = x.tries
              => Promise!GivenUp(x, y)
         /\ x.state = "held" /\ calls[k] > 0 /\ y.state = "done" /\ y.live = FALSE /\ y.tries = x.tries
              => Promise!Finished(k, x, y)
<1>1. ASSUME NEW s, y.state = s, y.live = x.live, y.tries = x.tries
      PROVE  y = [x EXCEPT !.state = s]
    BY <1>1 DEF Views
<1>2. ASSUME NEW s, y.state = s, y.live = FALSE, y.tries = x.tries
      PROVE  y = [x EXCEPT !.state = s, !.live = FALSE]
    BY <1>2 DEF Views
<1>3. ASSUME y.state = "held", y.live = TRUE, y.tries = x.tries + 1
      PROVE  y = [x EXCEPT !.state = "held", !.live = TRUE, !.tries = x.tries + 1]
    BY <1>3 DEF Views
<1>4. ASSUME y.state = x.state, y.live = FALSE, y.tries = x.tries
      PROVE  y = [x EXCEPT !.live = FALSE]
    BY <1>4 DEF Views
<1>5. x.state = "none" /\ y.state = "open" /\ y.live = x.live /\ y.tries = x.tries
        => Promise!Accepted(x, y)
    BY <1>1 DEF Promise!Accepted
<1>6. x.state \in {"open", "held"} /\ x.live = FALSE /\ x.tries < MaxAttempts /\ y.state = "held"
        /\ y.live = TRUE /\ y.tries = x.tries + 1
        => Promise!Taken(x, y)
    BY <1>3 DEF Promise!Taken
<1>7. x.live = TRUE /\ y.state = x.state /\ y.live = FALSE /\ y.tries = x.tries => Promise!Lapsed(x, y)
    BY <1>4 DEF Promise!Lapsed
<1>8. x.state = "held" /\ y.state = "open" /\ y.live = FALSE /\ y.tries = x.tries
        => Promise!PutBack(x, y)
    BY <1>2 DEF Promise!PutBack
<1>9. (x.state = "held" \/ (x.state = "open" /\ x.tries >= MaxAttempts)) /\ y.state = "dead"
        /\ y.live = FALSE /\ y.tries = x.tries
        => Promise!GivenUp(x, y)
    BY <1>2 DEF Promise!GivenUp
<1>10. x.state = "held" /\ calls[k] > 0 /\ y.state = "done" /\ y.live = FALSE /\ y.tries = x.tries
         => Promise!Finished(k, x, y)
    BY <1>2 DEF Promise!Finished
<1>11. QED
    BY <1>5, <1>6, <1>7, <1>8, <1>9, <1>10

(* A step that moves the row of k, if at all, as the promise allows, and   *)
(* calls no channel, is a step of the promise.                             *)
LEMMA RowMoves ==
  ASSUME NEW k \in Keys, \A j \in Keys \ {k} : row'[j] = row[j],
         \/ Item(k)' = Item(k)
         \/ Promise!Moved(k, Item(k), Item(k)'),
         calls' = calls
  PROVE  Promise!Next
<1>1. ASSUME NEW i \in Keys PROVE Item(i)' = Item(i) \/ Promise!Moved(i, Item(i), Item(i)')
  <2>1. CASE i = k
    BY <2>1
  <2>2. CASE i # k
    BY <2>2 DEF Item, View
  <2>3. QED
    BY <2>1, <2>2
<1>2. Promise!Move
    BY <1>1 DEF Promise!Move, Item, View
<1>3. QED
    BY <1>2 DEF Promise!Next

(* Every step is a step of the promise or changes nothing it speaks of.    *)
LEMMA StepKeepsPromise ==
  ASSUME IInv, RInv, [Next]_vars
  PROVE  Promise!Next \/ UNCHANGED <<row, calls>>
<1>0. /\ row \in [Keys -> Rows] /\ worker \in [Workers -> Jobs] /\ calls \in [Keys -> Nat]
      /\ \A j \in Keys : row[j].attempts \in 0..MaxAttempts /\ row[j].attempts \in Nat
      /\ \A j \in Keys : row[j].live \in BOOLEAN
    BY DEF IInv, TypeOK, Rows
<1>x. ASSUME NEW k \in Keys
      PROVE  /\ Item(k) \in Views /\ Item(k)' \in Views
             /\ Item(k).state = PromisedState[row[k].status]
             /\ Item(k)'.state = PromisedState[row'[k].status]
             /\ Item(k).live = row[k].live /\ Item(k)'.live = row'[k].live
             /\ Item(k).tries = row[k].attempts /\ Item(k)'.tries = row'[k].attempts
             /\ Item(k).round = 0 /\ Item(k)'.round = 0
  <2>1. row[k] \in Rows /\ row'[k] \in Rows
      BY NextIInv DEF IInv, TypeOK
  <2>2. QED
      BY <2>1, RowView DEF Item
<1> USE PromisedStates
<1>1. ASSUME NEW k \in Keys, NEW c \in Contents, Record(k, c) PROVE Promise!Next
  <2>1. row[k].status = "none" /\ row[k].attempts = 0 /\ row[k].live = FALSE
      BY <1>0, <1>1 DEF Record, Recorded, IInv, Unclaimed, RInv, LeaseIsHeld
  <2>2. /\ row' = [row EXCEPT ![k] = [NoRow EXCEPT !.status = "queued", !.content = c]]
        /\ UNCHANGED calls
      BY <1>1, <2>1 DEF Record, Recorded
  <2>3. /\ row'[k].status = "queued" /\ row'[k].attempts = 0 /\ row'[k].live = FALSE
        /\ \A j \in Keys \ {k} : row'[j] = row[j]
      BY <1>0, <2>2 DEF NoRow
  <2>4. Promise!Accepted(Item(k), Item(k)')
    <3>1. Item(k).state = "none" /\ Item(k)'.state = "open" /\ Item(k)'.live = Item(k).live
           /\ Item(k)'.tries = Item(k).tries
        BY <2>1, <2>3, <1>x
    <3>2. QED
        BY <1>x, <3>1, ViewMoves
  <2>5. QED
      BY <2>2, <2>3, <2>4, RowMoves DEF Promise!Moved
<1>2. ASSUME NEW w \in Workers, NEW k \in Keys, ClaimNext(w, k) PROVE Promise!Next
  <2>1. /\ row[k].attempts < MaxAttempts
        /\ row[k].status \in {"queued", "processing"}
        /\ row[k].live = FALSE
        /\ UNCHANGED calls
        /\ row' = [row EXCEPT ![k] = [row[k] EXCEPT !.status = "processing",
                                        !.attempts = row[k].attempts + 1, !.live = TRUE]]
      BY <1>0, <1>2 DEF ClaimNext, Due, RInv, LeaseIsHeld
  <2>2. /\ row'[k].status = "processing" /\ row'[k].attempts = row[k].attempts + 1
        /\ row'[k].live = TRUE
        /\ \A j \in Keys \ {k} : row'[j] = row[j]
      BY <1>0, <2>1 DEF Rows
  <2>3. Promise!Taken(Item(k), Item(k)')
    <3>0. PromisedState[row[k].status] \in {"open", "held"} /\ row[k].live = FALSE
        BY <2>1
    <3>a. row[k].attempts < MaxAttempts /\ PromisedState[row'[k].status] = "held" /\ row'[k].live = TRUE
          /\ row'[k].attempts = row[k].attempts + 1
        BY <2>1, <2>2
    <3>1. Item(k).state \in {"open", "held"} /\ Item(k).live = FALSE /\ Item(k).tries < MaxAttempts
           /\ Item(k)'.state = "held" /\ Item(k)'.live = TRUE /\ Item(k)'.tries = Item(k).tries + 1
        BY <3>0, <3>a, <1>x
    <3>2. QED
        BY <1>x, <3>1, ViewMoves
  <2>4. QED
      BY <2>1, <2>2, <2>3, RowMoves DEF Promise!Moved
<1>3. ASSUME NEW w \in Workers, NEW k \in Keys, ReclaimExhausted(w, k) PROVE Promise!Next
  <2>1. /\ row[k].attempts >= MaxAttempts
        /\ row[k].status \in {"queued", "processing"}
        /\ UNCHANGED calls
        /\ row' = [row EXCEPT ![k] = [row[k] EXCEPT !.status = "dead_lettered", !.live = FALSE]]
      BY <1>3 DEF ReclaimExhausted, Spent
  <2>2. /\ row'[k].status = "dead_lettered" /\ row'[k].attempts = row[k].attempts
        /\ row'[k].live = FALSE
        /\ \A j \in Keys \ {k} : row'[j] = row[j]
      BY <1>0, <2>1 DEF Rows
  <2>3. Promise!GivenUp(Item(k), Item(k)')
    <3>0. PromisedState[row[k].status] = "held" \/ (PromisedState[row[k].status] = "open" /\ row[k].attempts >= MaxAttempts)
        BY <2>1
    <3>a. /\ PromisedState[row'[k].status] = "dead" /\ row'[k].live = FALSE
          /\ row'[k].attempts = row[k].attempts
        BY <2>2
    <3>1. (Item(k).state = "held" \/ (Item(k).state = "open" /\ Item(k).tries >= MaxAttempts))
           /\ Item(k)'.state = "dead" /\ Item(k)'.live = FALSE /\ Item(k)'.tries = Item(k).tries
        BY <3>0, <3>a, <1>x, Zenon
    <3>2. QED
        BY <1>x, <3>1, ViewMoves
  <2>4. QED
      BY <2>1, <2>2, <2>3, RowMoves DEF Promise!Moved
<1>4. ASSUME NEW w \in Workers, Dispatch(w) PROVE Promise!Next \/ UNCHANGED <<row, calls>>
  <2>1. PICK k \in Keys : Dispatching(w, k) /\ worker[w].key = k
                          /\ worker[w].attempt \in 1..row[k].attempts
      BY <1>4 DEF Dispatch, IInv, AttemptIssued, Dispatching
  <2>2. row' = row /\ calls' \in {calls, [calls EXCEPT ![k] = calls[k] + 1]}
      BY <1>0, <1>4, <2>1 DEF Dispatch
  <2>3. calls[k] < row[k].attempts
    <3>1. IsFiniteSet(Pending(k)) /\ Cardinality(Pending(k)) \in Nat
        BY <1>0, PendingFinite
    <3>2. Pending(k) # {}
        BY <2>1 DEF Pending
    <3>3. Cardinality(Pending(k)) # 0
        BY <3>1, <3>2, FS_EmptySet
    <3>4. calls[k] + Cardinality(Pending(k)) <= row[k].attempts /\ calls[k] \in Nat
        BY <1>0 DEF RInv, CallsAccounted
    <3>5. QED
        BY <1>0, <3>1, <3>3, <3>4
  <2>4. CASE calls' = calls
      BY <2>2, <2>4
  <2>5. CASE calls' = [calls EXCEPT ![k] = calls[k] + 1]
    <3>0. \A x \in Nat : 0 * x = 0
        OBVIOUS
    <3>1. calls[k] < 0 * MaxAttempts + row[k].attempts
        BY <1>0, <2>3, <3>0, NotificationsAssumption
    <3>2. Promise!Leave(k)
        BY <2>2, <2>5, <3>1 DEF Promise!Leave
    <3>3. QED
        BY <3>2 DEF Promise!Next
  <2>6. QED
      BY <2>2, <2>4, <2>5
<1>5. ASSUME NEW w \in Workers, MarkDelivered(w) \/ MarkFailed(w) \/ Quarantine(w)
      PROVE  Promise!Next \/ UNCHANGED <<row, calls>>
  <2>1. PICK status \in {"queued", "delivered", "dead_lettered"},
             outcome \in {"retry", "delivered", "dead_lettered"} :
          Mark(w, status, outcome) /\ (status = "delivered" => worker[w].pc = "delivered")
      BY <1>5 DEF MarkDelivered, MarkFailed, Quarantine
  <2>2. PICK k \in Keys : k = worker[w].key
      BY <1>5 DEF MarkDelivered, MarkFailed, Quarantine, IInv, AttemptIssued
  <2>3. UNCHANGED calls
      BY <2>1 DEF Mark
  <2>4. CASE ~Owns(w)
      BY <2>1, <2>3, <2>4 DEF Mark
  <2>5. CASE Owns(w)
    <3>1. /\ row[k].status = "processing"
          /\ row' = [row EXCEPT ![k] = [row[k] EXCEPT !.status = status, !.live = FALSE]]
        BY <2>1, <2>2, <2>5 DEF Mark, Owns
    <3>2. /\ row'[k].status = status /\ row'[k].attempts = row[k].attempts
          /\ row'[k].live = FALSE
          /\ \A j \in Keys \ {k} : row'[j] = row[j]
        BY <1>0, <3>1 DEF Rows
    <3>3. status = "delivered" => calls[k] > 0
        BY <2>1, <2>2 DEF RInv, DeliveredWasCalled
    <3>4. CASE status = "queued"
      <4>1. Promise!PutBack(Item(k), Item(k)')
        <5>1. Item(k).state = "held" /\ Item(k)'.state = "open" /\ Item(k)'.live = FALSE
               /\ Item(k)'.tries = Item(k).tries
            BY <3>1, <3>2, <3>4, <1>x
        <5>2. QED
            BY <1>x, <5>1, ViewMoves
      <4>2. QED
          BY <2>3, <3>2, <4>1, RowMoves DEF Promise!Moved
    <3>5. CASE status = "delivered"
      <4>1. Promise!Finished(k, Item(k), Item(k)')
        <5>1. Item(k).state = "held" /\ calls[k] > 0 /\ Item(k)'.state = "done" /\ Item(k)'.live = FALSE
               /\ Item(k)'.tries = Item(k).tries
            BY <3>1, <3>2, <3>3, <3>5, <1>x
        <5>2. QED
            BY <1>x, <5>1, ViewMoves
      <4>2. QED
          BY <2>3, <3>2, <4>1, RowMoves DEF Promise!Moved
    <3>6. CASE status = "dead_lettered"
      <4>1. Promise!GivenUp(Item(k), Item(k)')
        <5>1. (Item(k).state = "held" \/ (Item(k).state = "open" /\ Item(k).tries >= MaxAttempts))
               /\ Item(k)'.state = "dead" /\ Item(k)'.live = FALSE /\ Item(k)'.tries = Item(k).tries
            BY <3>1, <3>2, <3>6, <1>x
        <5>2. QED
            BY <1>x, <5>1, ViewMoves
      <4>2. QED
          BY <2>3, <3>2, <4>1, RowMoves DEF Promise!Moved
    <3>7. QED
        BY <3>4, <3>5, <3>6
  <2>6. QED
      BY <2>4, <2>5
<1>6. ASSUME NEW k \in Keys, Expire(k) PROVE Promise!Next
  <2>1. /\ row[k].live = TRUE /\ UNCHANGED calls
        /\ row' = [row EXCEPT ![k] = [row[k] EXCEPT !.live = FALSE]]
      BY <1>0, <1>6 DEF Expire
  <2>2. /\ row'[k].status = row[k].status /\ row'[k].attempts = row[k].attempts
        /\ row'[k].live = FALSE
        /\ \A j \in Keys \ {k} : row'[j] = row[j]
      BY <1>0, <2>1 DEF Rows
  <2>3. Promise!Lapsed(Item(k), Item(k)')
    <3>0. /\ row[k].live = TRUE /\ row'[k].live = FALSE /\ row'[k].attempts = row[k].attempts
          /\ PromisedState[row'[k].status] = PromisedState[row[k].status]
        BY <2>1, <2>2, Zenon
    <3>1. Item(k).live = TRUE /\ Item(k)'.state = Item(k).state /\ Item(k)'.live = FALSE
           /\ Item(k)'.tries = Item(k).tries
        BY <3>0, <1>x, Zenon
    <3>2. QED
        BY <1>x, <3>1, ViewMoves
  <2>4. QED
      BY <2>1, <2>2, <2>3, RowMoves DEF Promise!Moved
<1>7. ASSUME NEW w \in Workers, RecordExhausted(w) \/ Crash(w) PROVE UNCHANGED <<row, calls>>
    BY <1>7 DEF RecordExhausted, Crash
<1>8. CASE UNCHANGED vars
    BY <1>8 DEF vars
<1>9. QED
    BY <1>1, <1>2, <1>3, <1>4, <1>5, <1>6, <1>7, <1>8 DEF Next, WorkerStep

(* The delivery queue of notifications implements LeasedDelivery, whatever *)
(* the number of keys, workers, crashes and attempts: a live claim is not  *)
(* taken over, the channel is called at most once per claim, and a row     *)
(* is delivered only after a call (claim_next, process_job,                *)
(* mark_delivered, mark_failed_or_dead_letter, reclaim_exhausted).         *)
THEOREM QueueImplementsPromise == Spec => QueueKeepsPromise
<1>1. Init => Promise!Init
  <2> SUFFICES ASSUME Init PROVE Promise!Init
      OBVIOUS
  <2>1. \A k \in Keys : row[k].status = "none" /\ row[k].live = FALSE /\ row[k].attempts = 0
      BY DEF Init, NoRow
  <2>2. \A k \in Keys : [state |-> PromisedState[row[k].status], live |-> row[k].live,
                          tries |-> row[k].attempts, round |-> 0]
                          = [state |-> "none", live |-> FALSE, tries |-> 0, round |-> 0]
      BY <2>1, PromisedStates, Zenon
  <2>3. QED
      BY <2>2 DEF Init, Promise!Init
<1>2. IInv /\ RInv /\ [Next]_vars => [Promise!Next]_(Promise!promiseVars)
  <2> SUFFICES ASSUME IInv, RInv, [Next]_vars PROVE [Promise!Next]_(Promise!promiseVars)
      OBVIOUS
  <2>1. CASE Promise!Next
      BY <2>1
  <2>2. CASE UNCHANGED <<row, calls>>
      BY <2>2 DEF Promise!promiseVars
  <2>3. QED
      BY <2>1, <2>2, StepKeepsPromise
<1>3. QED
    BY InitIInv, NextIInv, InitRInv, NextRInv, <1>1, <1>2, PTL
       DEF Spec, QueueKeepsPromise, Promise!Spec

(* The channel is called at most once per claim (CallsWithinBudget).       *)
THEOREM ChannelCallsBounded == Spec => []CallsWithinBudget
<1>1. IInv /\ RInv => CallsWithinBudget
  <2> SUFFICES ASSUME IInv, RInv, NEW k \in Keys PROVE calls[k] <= row[k].attempts
      BY DEF CallsWithinBudget
  <2>1. row[k].attempts \in Nat /\ calls[k] \in Nat
      BY DEF IInv, TypeOK, Rows
  <2>2. Cardinality(Pending(k)) \in Nat
      BY <2>1, PendingFinite
  <2>3. QED
      BY <2>1, <2>2 DEF RInv, CallsAccounted
<1>2. QED
    BY InitIInv, NextIInv, InitRInv, NextRInv, <1>1, PTL DEF Spec
=============================================================================
