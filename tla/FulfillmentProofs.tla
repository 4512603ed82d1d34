------------------------- MODULE FulfillmentProofs --------------------------
(***************************************************************************)
(* Proofs about the fulfillment consumer for every set of deliveries, any  *)
(* number of threads, any budget of claims and any number of faults.       *)
(***************************************************************************)
EXTENDS Fulfillment, FiniteSetTheorems, TLAPS

USE FulfillmentAssumption

Jobs ==
    [pc : {"idle", "claim", "process", "effects", "validate", "dispatch", "publish",
           "complete", "ack", "release", "mark"},
     msg : Messages \cup {None}, lease : 0..MaxAttempts, batch : SUBSET Kinds,
     token : [Kinds -> 0..MaxAttempts], active : Kinds \cup {None},
     tries : 0..(MaxAttempts - 1), permanent : BOOLEAN]
ClaimRows == Rows({"none", "processing", "failed", "completed", "dead_lettered"})
EffectRows == Rows({"none", "queued", "publishing", "published", "cancelled", "failed"})

(* What a thread's step says of its claim and of the effects in its batch. *)
JobOK(j) ==
    /\ j.pc # "idle" => j.msg \in Messages
    /\ j.pc \in {"dispatch", "publish", "release"} => j.active \in Kinds /\ j.active \in j.batch
    /\ j.pc = "ack" => claim[OpOf[j.msg]].status = "completed"
    /\ j.pc = "publish" => sent[<<OpOf[j.msg], j.active>>] > 0
    /\ \A k \in Kinds :
         j.pc \in {"validate", "dispatch", "publish"} /\ k \in j.batch
         => j.token[k] >= 1 /\ j.token[k] <= effect[<<OpOf[j.msg], k>>].attempts
JobsOK == \A w \in Workers : JobOK(worker[w])

RowsOK ==
    /\ \A o \in Ops : claim[o].status = "none" => claim[o].attempts = 0
    /\ \A e \in Effects : effect[e].status = "none" => effect[e].attempts = 0
    /\ \A e \in Effects : effect[e].status = "published" => sent[e] > 0

\* The thread j may still send effect k of operation o under token n.
Sends(j, o, k, n) ==
    /\ j.pc \in {"validate", "dispatch"} \/ (j.pc = "publish" /\ j.active # k)
    /\ OpOf[j.msg] = o
    /\ k \in j.batch
    /\ j.token[k] = n

TokensDistinct ==
    \A w, v \in Workers : \A o \in Ops, k \in Kinds, n \in Nat :
      Sends(worker[w], o, k, n) /\ Sends(worker[v], o, k, n) => w = v

\* The tokens of an effect that nobody will send it under any more.
SpentTokens(o, k) ==
    {n \in 1..MaxAttempts :
       n <= effect[<<o, k>>].attempts /\ \A w \in Workers : ~Sends(worker[w], o, k, n)}
SentIsSpent == \A o \in Ops, k \in Kinds : sent[<<o, k>>] <= Cardinality(SpentTokens(o, k))

IInv ==
    /\ TypeOK
    /\ JobsOK
    /\ RowsOK
    /\ TokensDistinct
    /\ SentIsSpent
    /\ AckedWasHandled
    /\ CancelledRowsClosed

(* Types, with the records named.                                          *)
LEMMA Typing ==
  ASSUME TypeOK
  PROVE  /\ order \in {"paid", "processing", "shipped", "cancelled"}
         /\ shipment \in {"none", "label_created", "cancelled"}
         /\ claim \in [Ops -> ClaimRows] /\ effect \in [Effects -> EffectRows]
         /\ sent \in [Effects -> 0..MaxAttempts]
         /\ queue \in [Messages -> {"queued", "held", "acked", "dead"}]
         /\ worker \in [Workers -> Jobs]
         /\ faults \in 0..MaxFaults
         /\ \A o \in Ops : claim[o].attempts \in 0..MaxAttempts
         /\ \A e \in Effects : effect[e].attempts \in 0..MaxAttempts
BY DEF TypeOK, ClaimRows, EffectRows, Jobs, Rows

(* No delivery has been handed to a thread.                                *)
LEMMA InitIInv == Init => IInv
<1> SUFFICES ASSUME Init PROVE IInv
    OBVIOUS
<1>1. NoToken \in [Kinds -> 0..MaxAttempts] /\ Idle \in Jobs /\ NoClaim \in ClaimRows /\ NoClaim \in EffectRows
    BY DEF NoToken, Idle, Jobs, NoClaim, ClaimRows, EffectRows, Rows, None
<1>2. TypeOK
    BY <1>1 DEF Init, TypeOK, ClaimRows, EffectRows, Jobs
<1>3. /\ \A w \in Workers : worker[w].pc = "idle"
      /\ \A o \in Ops : claim[o].status = "none" /\ claim[o].attempts = 0
      /\ \A e \in Effects : effect[e].status = "none" /\ effect[e].attempts = 0 /\ sent[e] = 0
    BY DEF Init, Idle, NoClaim
<1>4. JobsOK /\ RowsOK /\ TokensDistinct
    BY <1>3 DEF JobsOK, JobOK, RowsOK, TokensDistinct, Sends
<1>5. SentIsSpent
  <2> SUFFICES ASSUME NEW o \in Ops, NEW k \in Kinds
               PROVE  sent[<<o, k>>] <= Cardinality(SpentTokens(o, k))
      BY DEF SentIsSpent
  <2>1. <<o, k>> \in Effects
      BY DEF Effects
  <2>2. SpentTokens(o, k) = {}
      BY <1>3, <2>1 DEF SpentTokens
  <2>3. Cardinality(SpentTokens(o, k)) = 0 /\ sent[<<o, k>>] = 0
      BY <1>3, <2>1, <2>2, FS_EmptySet
  <2>4. QED
      BY <2>3
<1>6. AckedWasHandled /\ CancelledRowsClosed
    BY DEF Init, AckedWasHandled, CancelledRowsClosed
<1>7. QED
    BY <1>2, <1>4, <1>5, <1>6 DEF IInv

-----------------------------------------------------------------------------
\* The thread w is at j after the step, and the others are where they were.
Puts(w, j) == worker' = [worker EXCEPT ![w] = j]

\* Everything but the position is as before.
SameTask(j, i) ==
    /\ j.msg = i.msg /\ j.lease = i.lease /\ j.batch = i.batch /\ j.token = i.token
    /\ j.active = i.active /\ j.tries = i.tries

Pcs == {"idle", "claim", "process", "effects", "validate", "dispatch", "publish",
        "complete", "ack", "release", "mark"}

(* A thread that goes on keeps its delivery and its tokens.                *)
LEMMA GoPuts ==
  ASSUME NEW w \in Workers, NEW step \in Pcs, worker \in [Workers -> Jobs], Go(w, step)
  PROVE  \E j \in Jobs : Puts(w, j) /\ j.pc = step /\ SameTask(j, worker[w])
<1>1. worker[w] \in Jobs
    OBVIOUS
<1>2. PICK j : j = [worker[w] EXCEPT !.pc = step]
    OBVIOUS
<1>3. j \in Jobs /\ j.pc = step /\ SameTask(j, worker[w])
    BY <1>1, <1>2 DEF Jobs, Pcs, SameTask
<1>4. Puts(w, j)
    BY <1>2 DEF Go, Puts
<1>5. QED
    BY <1>3, <1>4

(* A thread that gives up keeps its delivery only.                         *)
LEMMA GiveUpPuts ==
  ASSUME NEW w \in Workers, worker \in [Workers -> Jobs], GiveUp(w)
  PROVE  \E j \in Jobs : Puts(w, j) /\ j.pc = "mark" /\ j.msg = worker[w].msg
<1>1. worker[w] \in Jobs /\ NoToken \in [Kinds -> 0..MaxAttempts]
    BY DEF NoToken
<1>2. PICK j : j = [[[[worker[w] EXCEPT !.pc = "mark"] EXCEPT !.batch = {}] EXCEPT !.token = NoToken]
                      EXCEPT !.active = None]
    OBVIOUS
<1>3. j \in Jobs /\ j.pc = "mark" /\ j.msg = worker[w].msg
    BY <1>1, <1>2 DEF Jobs
<1>4. Puts(w, j)
    BY <1>2 DEF GiveUp, Puts
<1>5. QED
    BY <1>3, <1>4

(* The thread that is done with a delivery has nothing.                    *)
LEMMA IdleJob == Idle \in Jobs /\ Idle.pc = "idle"
<1>1. NoToken \in [Kinds -> 0..MaxAttempts]
    BY DEF NoToken
<1>2. QED
    BY <1>1 DEF Idle, Jobs, None

(* The spent tokens are finitely many, at most the budget and at most the  *)
(* claims made of the effect.                                              *)
LEMMA SpentFinite ==
  ASSUME NEW o \in Ops, NEW k \in Kinds, effect[<<o, k>>].attempts \in Nat
  PROVE  /\ IsFiniteSet(SpentTokens(o, k)) /\ Cardinality(SpentTokens(o, k)) \in Nat
         /\ Cardinality(SpentTokens(o, k)) <= MaxAttempts
         /\ Cardinality(SpentTokens(o, k)) <= effect[<<o, k>>].attempts
<1>0. ASSUME NEW n \in Nat PROVE IsFiniteSet(1..n) /\ Cardinality(1..n) = n
  <2>1. 1 \in Int /\ n \in Int
      OBVIOUS
  <2>2. IsFiniteSet(1..n) /\ Cardinality(1..n) = IF 1 > n THEN 0 ELSE n - 1 + 1
      BY <2>1, FS_Interval, Zenon
  <2>3. QED
      BY <2>2
<1>1. PICK a \in Nat : a = effect[<<o, k>>].attempts
    OBVIOUS
<1>2. SpentTokens(o, k) \subseteq 1..MaxAttempts /\ SpentTokens(o, k) \subseteq 1..a
    BY <1>1 DEF SpentTokens
<1>3. MaxAttempts \in Nat
    OBVIOUS
<1>4. /\ IsFiniteSet(1..MaxAttempts) /\ Cardinality(1..MaxAttempts) = MaxAttempts
      /\ IsFiniteSet(1..a) /\ Cardinality(1..a) = a
    BY <1>0, <1>3
<1>5. /\ IsFiniteSet(SpentTokens(o, k)) /\ Cardinality(SpentTokens(o, k)) <= Cardinality(1..MaxAttempts)
      /\ Cardinality(SpentTokens(o, k)) <= Cardinality(1..a)
    BY <1>2, <1>4, FS_Subset
<1>6. QED
    BY <1>1, <1>4, <1>5, FS_CardinalityType

(* They grow when the effect is claimed and nobody takes up an old token.  *)
LEMMA SpentGrows ==
  ASSUME NEW o \in Ops, NEW k \in Kinds,
         effect[<<o, k>>].attempts \in Nat, effect'[<<o, k>>].attempts \in Nat,
         effect'[<<o, k>>].attempts >= effect[<<o, k>>].attempts,
         \A v \in Workers, n \in Nat :
           Sends(worker[v], o, k, n)' => Sends(worker[v], o, k, n) \/ n > effect[<<o, k>>].attempts
  PROVE  /\ SpentTokens(o, k) \subseteq SpentTokens(o, k)'
         /\ IsFiniteSet(SpentTokens(o, k)') /\ Cardinality(SpentTokens(o, k)') \in Nat
         /\ Cardinality(SpentTokens(o, k)') <= MaxAttempts
         /\ Cardinality(SpentTokens(o, k)) <= Cardinality(SpentTokens(o, k)')
<1>1. SpentTokens(o, k) \subseteq SpentTokens(o, k)'
    BY DEF SpentTokens
<1>2. IsFiniteSet(1..MaxAttempts) /\ Cardinality(1..MaxAttempts) = MaxAttempts
  <2>1. 1 \in Int /\ MaxAttempts \in Int
      OBVIOUS
  <2>2. IsFiniteSet(1..MaxAttempts) /\ Cardinality(1..MaxAttempts) = IF 1 > MaxAttempts THEN 0 ELSE MaxAttempts - 1 + 1
      BY <2>1, FS_Interval, Zenon
  <2>3. QED
      BY <2>2
<1>3. SpentTokens(o, k)' \subseteq 1..MaxAttempts
    BY DEF SpentTokens
<1>4. IsFiniteSet(SpentTokens(o, k)') /\ Cardinality(SpentTokens(o, k)') <= MaxAttempts
    BY <1>2, <1>3, FS_Subset
<1>5. QED
    BY <1>1, <1>4, FS_Subset, FS_CardinalityType

-----------------------------------------------------------------------------
\* Completed claims stay completed, and the counters of the effects only grow.
Advances ==
    /\ \A o \in Ops : claim[o].status = "completed" => claim'[o].status = "completed"
    /\ \A e \in Effects : effect'[e].attempts >= effect[e].attempts /\ sent'[e] >= sent[e]

(* A thread that does not move is still where its step says.               *)
LEMMA JobStays ==
  ASSUME TypeOK, TypeOK', Advances, NEW j \in Jobs, JobOK(j)
  PROVE  JobOK(j)'
<1>1. CASE j.pc = "idle"
    BY <1>1 DEF JobOK
<1>2. CASE j.pc # "idle"
  <2>1. PICK o \in Ops : o = OpOf[j.msg] /\ j.msg \in Messages
      BY <1>2 DEF JobOK
  <2>2. \A k \in Kinds : <<o, k>> \in Effects
      BY DEF Effects
  <2>3. \A e \in Effects : /\ effect[e].attempts \in 0..MaxAttempts /\ effect'[e].attempts \in 0..MaxAttempts
                           /\ sent[e] \in 0..MaxAttempts /\ sent'[e] \in 0..MaxAttempts
      BY DEF TypeOK, Rows
  <2>4. \A k \in Kinds : j.token[k] \in Nat
      BY DEF Jobs
  <2>5. j.pc = "publish" => sent'[<<o, j.active>>] > 0
    <3> SUFFICES ASSUME j.pc = "publish" PROVE sent'[<<o, j.active>>] > 0
        OBVIOUS
    <3>1. j.active \in Kinds /\ sent[<<o, j.active>>] > 0
        BY <2>1 DEF JobOK
    <3>2. QED
        BY <2>2, <2>3, <3>1 DEF Advances
  <2>6. ASSUME NEW k \in Kinds, j.pc \in {"validate", "dispatch", "publish"}, k \in j.batch
        PROVE  j.token[k] >= 1 /\ j.token[k] <= effect'[<<o, k>>].attempts
    <3>1. j.token[k] >= 1 /\ j.token[k] <= effect[<<o, k>>].attempts
        BY <2>1, <2>6 DEF JobOK
    <3>2. effect'[<<o, k>>].attempts >= effect[<<o, k>>].attempts
        BY <2>2 DEF Advances
    <3>3. QED
        BY <2>2, <2>3, <2>4, <3>1, <3>2
  <2>7. j.pc = "ack" => claim'[o].status = "completed"
      BY <2>1 DEF JobOK, Advances
  <2>8. QED
      BY <1>2, <2>1, <2>5, <2>6, <2>7 DEF JobOK
<1>3. QED
    BY <1>1, <1>2

(* What a step of one thread has to show: where the thread is, that it     *)
(* takes up no old token, and what the step does to the rows.              *)
LEMMA StepKeeps ==
  ASSUME IInv, TypeOK', Advances, NEW w \in Workers, NEW j \in Jobs, Puts(w, j), JobOK(j)',
         \A o \in Ops, k \in Kinds, n \in Nat :
           Sends(j, o, k, n) => Sends(worker[w], o, k, n) \/ n > effect[<<o, k>>].attempts,
         sent' = sent \/ SentIsSpent',
         RowsOK', AckedWasHandled', CancelledRowsClosed'
  PROVE  IInv'
<1>0. worker \in [Workers -> Jobs] /\ TypeOK
    BY Typing DEF IInv
<1>1. worker'[w] = j /\ \A v \in Workers \ {w} : worker'[v] = worker[v]
    BY <1>0 DEF Puts
<1>2. JobsOK'
  <2> SUFFICES ASSUME NEW v \in Workers PROVE JobOK(worker[v])'
      BY DEF JobsOK
  <2>1. PICK i \in Jobs : i = worker'[v] /\ JobOK(i)'
    <3>1. CASE v = w
        BY <1>1, <3>1
    <3>2. CASE v # w
      <4>1. PICK i \in Jobs : i = worker[v]
          BY <1>0
      <4>2. JobOK(i)
          BY <4>1 DEF IInv, JobsOK
      <4>3. JobOK(i)'
          BY <1>0, <4>2, JobStays
      <4>4. QED
          BY <1>1, <3>2, <4>1, <4>3
    <3>3. QED
        BY <3>1, <3>2
  <2>2. QED
      BY <2>1, Zenon DEF JobOK
<1>3. ASSUME NEW v \in Workers, NEW o \in Ops, NEW k \in Kinds, NEW n \in Nat, Sends(worker[v], o, k, n)
      PROVE  n <= effect[<<o, k>>].attempts
    BY <1>3 DEF IInv, JobsOK, JobOK, Sends
<1>4. ASSUME NEW v \in Workers, NEW o \in Ops, NEW k \in Kinds, NEW n \in Nat, Sends(worker[v], o, k, n)'
      PROVE  Sends(worker[v], o, k, n) \/ (v = w /\ n > effect[<<o, k>>].attempts)
  <2>1. CASE v = w
      BY <1>1, <1>4, <2>1 DEF Sends
  <2>2. CASE v # w
      BY <1>1, <1>4, <2>2 DEF Sends
  <2>3. QED
      BY <2>1, <2>2
<1>5. \A o \in Ops, k \in Kinds : /\ <<o, k>> \in Effects
                                  /\ effect[<<o, k>>].attempts \in Nat /\ effect'[<<o, k>>].attempts \in Nat
                                  /\ sent[<<o, k>>] \in Nat
  <2>1. \A o \in Ops, k \in Kinds : <<o, k>> \in Effects
      BY DEF Effects
  <2>2. \A e \in Effects : effect[e].attempts \in Nat /\ effect'[e].attempts \in Nat /\ sent[e] \in Nat
      BY <1>0 DEF TypeOK, Rows
  <2>3. QED
      BY <2>1, <2>2
<1>6. TokensDistinct'
  <2> SUFFICES ASSUME NEW v \in Workers, NEW u \in Workers, NEW o \in Ops, NEW k \in Kinds, NEW n \in Nat,
                      Sends(worker[v], o, k, n)', Sends(worker[u], o, k, n)'
               PROVE  v = u
      BY DEF TokensDistinct
  <2>1. Sends(worker[v], o, k, n) \/ (v = w /\ n > effect[<<o, k>>].attempts)
      BY <1>4
  <2>2. Sends(worker[u], o, k, n) \/ (u = w /\ n > effect[<<o, k>>].attempts)
      BY <1>4
  <2>3. ~(n <= effect[<<o, k>>].attempts /\ n > effect[<<o, k>>].attempts)
      BY <1>5
  <2>4. QED
      BY <1>3, <2>1, <2>2, <2>3 DEF IInv, TokensDistinct
<1>7. SentIsSpent'
  <2>1. CASE sent' = sent
    <3> SUFFICES ASSUME NEW o \in Ops, NEW k \in Kinds
                 PROVE  sent'[<<o, k>>] <= Cardinality(SpentTokens(o, k)')
        BY DEF SentIsSpent
    <3>1. effect'[<<o, k>>].attempts >= effect[<<o, k>>].attempts
        BY <1>5 DEF Advances
    <3>2. \A v \in Workers, n \in Nat :
            Sends(worker[v], o, k, n)' => Sends(worker[v], o, k, n) \/ n > effect[<<o, k>>].attempts
        BY <1>4
    <3>3. Cardinality(SpentTokens(o, k)') \in Nat
          /\ Cardinality(SpentTokens(o, k)) <= Cardinality(SpentTokens(o, k)')
        BY <1>5, <3>1, <3>2, SpentGrows
    <3>4. Cardinality(SpentTokens(o, k)) \in Nat /\ sent[<<o, k>>] <= Cardinality(SpentTokens(o, k))
        BY <1>5, SpentFinite DEF IInv, SentIsSpent
    <3>5. QED
        BY <1>5, <2>1, <3>3, <3>4
  <2>2. QED
      BY <2>1
<1>8. QED
    BY <1>2, <1>6, <1>7 DEF IInv

-----------------------------------------------------------------------------
(* Types are kept by whatever moves one thread and keeps the rows' types.  *)
LEMMA Typed ==
  ASSUME TypeOK, NEW w \in Workers, NEW j \in Jobs, Puts(w, j), faults' = faults \/ Fault,
         order' \in {"paid", "processing", "shipped", "cancelled"},
         shipment' \in {"none", "label_created", "cancelled"},
         claim' \in [Ops -> ClaimRows], effect' \in [Effects -> EffectRows],
         sent' \in [Effects -> 0..MaxAttempts],
         queue' \in [Messages -> {"queued", "held", "acked", "dead"}]
  PROVE  TypeOK'
<1>1. worker' \in [Workers -> Jobs]
    BY Typing DEF Puts
<1>2. faults' \in 0..MaxFaults
    BY Typing DEF Fault
<1>3. QED
    BY <1>1, <1>2 DEF TypeOK, Jobs, ClaimRows, EffectRows

(* What the steps of a busy thread start from.                             *)
LEMMA Busy ==
  ASSUME IInv, NEW w \in Workers, worker[w].pc # "idle"
  PROVE  /\ worker[w].msg \in Messages /\ Op(w) \in Ops /\ JobOK(worker[w])
         /\ worker[w] \in Jobs /\ worker \in [Workers -> Jobs] /\ TypeOK
BY Typing DEF IInv, JobsOK, JobOK, Op

(* A row under another status, or without its lease.                       *)
LEMMA RowStatus ==
  ASSUME NEW S, NEW r \in Rows(S), NEW s \in S, NEW b \in BOOLEAN
  PROVE  /\ [[r EXCEPT !.status = s] EXCEPT !.live = b] \in Rows(S)
         /\ [[r EXCEPT !.status = s] EXCEPT !.live = b].status = s
         /\ [[r EXCEPT !.status = s] EXCEPT !.live = b].attempts = r.attempts
         /\ [[r EXCEPT !.live = b] EXCEPT !.status = s] \in Rows(S)
         /\ [[r EXCEPT !.live = b] EXCEPT !.status = s].status = s
         /\ [[r EXCEPT !.live = b] EXCEPT !.status = s].attempts = r.attempts
         /\ [r EXCEPT !.live = b] \in Rows(S)
         /\ [r EXCEPT !.live = b].status = r.status
         /\ [r EXCEPT !.live = b].attempts = r.attempts
BY DEF Rows

(* A step that changes no effect and no order: it claims, closes or loses  *)
(* claims, and moves deliveries.                                           *)
LEMMA ClaimStepKeeps ==
  ASSUME IInv, NEW w \in Workers, NEW j \in Jobs, Puts(w, j),
         UNCHANGED <<orders, effect, sent>>, faults' = faults \/ Fault,
         claim' \in [Ops -> ClaimRows],
         \A o \in Ops : claim[o].status = "completed" => claim'[o].status = "completed",
         \A o \in Ops : claim'[o].status = "none" => claim'[o].attempts = 0,
         queue' \in [Messages -> {"queued", "held", "acked", "dead"}],
         \A m \in Messages : queue'[m] = "acked" => queue[m] = "acked" \/ claim'[OpOf[m]].status = "completed",
         JobOK(j)',
         \A o \in Ops, k \in Kinds, n \in Nat :
           Sends(j, o, k, n) => Sends(worker[w], o, k, n) \/ n > effect[<<o, k>>].attempts
  PROVE  IInv'
<1>1. TypeOK /\ order' = order /\ shipment' = shipment /\ effect' = effect /\ sent' = sent
    BY DEF IInv, orders
<1>2. TypeOK'
    BY <1>1, Typed, Typing
<1>3. Advances
  <2>1. \A e \in Effects : effect[e].attempts \in Nat /\ sent[e] \in Nat
      BY <1>1 DEF TypeOK, Rows
  <2>2. QED
      BY <1>1, <2>1 DEF Advances
<1>4. RowsOK' /\ CancelledRowsClosed'
    BY <1>1 DEF IInv, RowsOK, CancelledRowsClosed
<1>5. AckedWasHandled'
    BY DEF IInv, AckedWasHandled
<1>6. QED
    BY <1>1, <1>2, <1>3, <1>4, <1>5, StepKeeps

(* A delivery leaves the thread.                                           *)
LEMMA SettleKeeps ==
  ASSUME IInv, NEW w \in Workers, NEW outcome \in {"queued", "acked", "dead"}, worker[w].pc # "idle",
         Settle(w, outcome), UNCHANGED <<orders, effect, sent>>, faults' = faults \/ Fault,
         claim' \in [Ops -> ClaimRows],
         \A o \in Ops : claim[o].status = "completed" => claim'[o].status = "completed",
         \A o \in Ops : claim'[o].status = "none" => claim'[o].attempts = 0,
         outcome = "acked" => claim[Op(w)].status = "completed"
  PROVE  IInv'
<1>1. PICK j \in Jobs : j = Idle
    BY IdleJob
<1>2. Puts(w, j) /\ j.pc = "idle"
    BY <1>1, IdleJob DEF Settle, Puts
<1>3. JobOK(j)'
    BY <1>2 DEF JobOK
<1>4. \A o \in Ops, k \in Kinds, n \in Nat : ~Sends(j, o, k, n)
    BY <1>2 DEF Sends
<1>5. worker[w].msg \in Messages /\ Op(w) \in Ops /\ queue \in [Messages -> {"queued", "held", "acked", "dead"}]
    BY Busy, Typing
<1>6. /\ queue' \in [Messages -> {"queued", "held", "acked", "dead"}]
      /\ \A m \in Messages : queue'[m] = "acked" => queue[m] = "acked" \/ claim'[OpOf[m]].status = "completed"
    BY <1>5 DEF Settle, Op
<1>7. QED
    BY <1>2, <1>3, <1>4, <1>6, ClaimStepKeeps

(* A message is handed to an idle thread.                                  *)
LEMMA DeliverKeeps == ASSUME IInv, NEW w \in Workers, NEW m \in Messages, Deliver(w, m) PROVE IInv'
<1>1. TypeOK
    BY DEF IInv
<1>2. PICK j : j = [[Idle EXCEPT !.pc = "claim"] EXCEPT !.msg = m]
    OBVIOUS
<1>3. j \in Jobs /\ j.pc = "claim" /\ j.msg = m
  <2>1. Idle \in Jobs
      BY IdleJob
  <2>2. QED
      BY <1>2, <2>1 DEF Jobs
<1>4. Puts(w, j)
    BY <1>2 DEF Deliver, Puts
<1>5. JobOK(j)'
    BY <1>3 DEF JobOK
<1>6. \A o \in Ops, k \in Kinds, n \in Nat : ~Sends(j, o, k, n)
    BY <1>3 DEF Sends
<1>7. /\ queue' \in [Messages -> {"queued", "held", "acked", "dead"}]
      /\ \A i \in Messages : queue'[i] = "acked" => queue[i] = "acked"
    BY <1>1, Typing DEF Deliver
<1>8. UNCHANGED <<orders, effect, sent>> /\ faults' = faults /\ claim' = claim
    BY DEF Deliver
<1>9. claim \in [Ops -> ClaimRows] /\ \A o \in Ops : claim[o].status = "none" => claim[o].attempts = 0
    BY <1>1, Typing DEF IInv, RowsOK
<1>10. QED
    BY <1>3, <1>4, <1>5, <1>6, <1>7, <1>8, <1>9, ClaimStepKeeps

(* acquireClaim: the claim is made under the next token.                   *)
LEMMA ClaimKeeps == ASSUME IInv, NEW w \in Workers, Claim(w) PROVE IInv'
<1>1. /\ worker[w].msg \in Messages /\ Op(w) \in Ops /\ JobOK(worker[w]) /\ worker[w] \in Jobs
      /\ worker \in [Workers -> Jobs] /\ TypeOK
    BY Busy DEF Claim, At
<1>2. PICK o \in Ops, n \in Nat : o = Op(w) /\ n = claim[o].attempts + 1
    BY <1>1, Typing
<1>3. /\ claim[o].status = "none" \/ (Abandoned(claim[o]) /\ claim[o].attempts < MaxAttempts)
      /\ claim' = [claim EXCEPT ![o] = [status |-> "processing", attempts |-> n, live |-> TRUE]]
      /\ worker' = [worker EXCEPT ![w].pc = "process", ![w].lease = n]
      /\ UNCHANGED <<orders, effect, sent, queue, faults>>
    BY <1>2 DEF Claim
<1>4. n \in 0..MaxAttempts
    BY <1>1, <1>2, <1>3, Typing DEF IInv, RowsOK
<1>5. PICK r \in ClaimRows : r = [status |-> "processing", attempts |-> n, live |-> TRUE] /\ r.status = "processing"
  <2>1. [status |-> "processing", attempts |-> n, live |-> TRUE] \in ClaimRows
      BY <1>4 DEF ClaimRows, Rows
  <2>2. QED
      BY <2>1
<1>6. /\ claim' \in [Ops -> ClaimRows]
      /\ \A p \in Ops : claim[p].status = "completed" => claim'[p].status = "completed"
      /\ \A p \in Ops : claim'[p].status = "none" => claim'[p].attempts = 0
  <2>1. claim \in [Ops -> ClaimRows] /\ \A p \in Ops : claim[p].status = "none" => claim[p].attempts = 0
      BY <1>1, Typing DEF IInv, RowsOK
  <2>2. claim' = [claim EXCEPT ![o] = r] /\ claim[o].status # "completed"
      BY <1>3, <1>5 DEF Abandoned
  <2>3. QED
      BY <1>5, <2>1, <2>2
<1>7. PICK j : j = [[worker[w] EXCEPT !.pc = "process"] EXCEPT !.lease = n]
    OBVIOUS
<1>8. j \in Jobs /\ j.pc = "process" /\ j.msg = worker[w].msg
  <2>1. worker[w] \in Jobs
      BY <1>1
  <2>2. QED
      BY <1>4, <1>7, <2>1 DEF Jobs
<1>9. Puts(w, j)
    BY <1>3, <1>7 DEF Puts
<1>10. JobOK(j)'
    BY <1>1, <1>8 DEF JobOK
<1>11. \A p \in Ops, k \in Kinds, i \in Nat : ~Sends(j, p, k, i)
    BY <1>8 DEF Sends
<1>12. queue' = queue /\ queue \in [Messages -> {"queued", "held", "acked", "dead"}]
    BY <1>1, <1>3, Typing
<1>13. QED
    BY <1>3, <1>6, <1>8, <1>9, <1>10, <1>11, <1>12, ClaimStepKeeps

-----------------------------------------------------------------------------
\* The claim of o changes its status to s, without a lease.
Closes(o, s) ==
    \/ claim' = [claim EXCEPT ![o].status = s, ![o].live = FALSE]
    \/ claim' = [claim EXCEPT ![o].live = FALSE, ![o].status = s]

(* A claim that is open is closed; one that is completed stays so.         *)
LEMMA ClosingKeeps ==
  ASSUME IInv, NEW o \in Ops, NEW s \in {"failed", "completed", "dead_lettered"}, Closes(o, s),
         claim[o].status # "completed"
  PROVE  /\ claim' \in [Ops -> ClaimRows] /\ claim'[o].status = s
         /\ \A p \in Ops : claim[p].status = "completed" => claim'[p].status = "completed"
         /\ \A p \in Ops : claim'[p].status = "none" => claim'[p].attempts = 0
<1>1. claim \in [Ops -> ClaimRows] /\ \A p \in Ops : claim[p].status = "none" => claim[p].attempts = 0
    BY Typing DEF IInv, RowsOK
<1>2. PICK r \in ClaimRows : r = claim[o]
    BY <1>1
<1>3. PICK q : q \in ClaimRows /\ q.status = s /\ claim' = [claim EXCEPT ![o] = q]
  <2>1. CASE claim' = [claim EXCEPT ![o].status = s, ![o].live = FALSE]
    <3>1. claim' = [claim EXCEPT ![o] = [[r EXCEPT !.status = s] EXCEPT !.live = FALSE]]
        BY <1>1, <1>2, <2>1
    <3>2. [[r EXCEPT !.status = s] EXCEPT !.live = FALSE] \in ClaimRows
          /\ [[r EXCEPT !.status = s] EXCEPT !.live = FALSE].status = s
        BY DEF ClaimRows, Rows
    <3>3. QED
        BY <3>1, <3>2
  <2>2. CASE claim' = [claim EXCEPT ![o].live = FALSE, ![o].status = s]
    <3>1. claim' = [claim EXCEPT ![o] = [[r EXCEPT !.live = FALSE] EXCEPT !.status = s]]
        BY <1>1, <1>2, <2>2
    <3>2. [[r EXCEPT !.live = FALSE] EXCEPT !.status = s] \in ClaimRows
          /\ [[r EXCEPT !.live = FALSE] EXCEPT !.status = s].status = s
        BY DEF ClaimRows, Rows
    <3>3. QED
        BY <3>1, <3>2
  <2>3. QED
      BY <2>1, <2>2 DEF Closes
<1>4. QED
    BY <1>1, <1>3

(* A claim without attempts left is dead-lettered with its delivery.       *)
LEMMA ClaimExhaustedKeeps == ASSUME IInv, NEW w \in Workers, ClaimExhausted(w) PROVE IInv'
<1>1. PICK o \in Ops : o = Op(w)
    BY Busy DEF ClaimExhausted, At
<1>2. /\ worker[w].pc # "idle" /\ Abandoned(claim[o]) /\ Closes(o, "dead_lettered") /\ Settle(w, "dead")
      /\ UNCHANGED <<orders, effect, sent>> /\ faults' = faults
    BY <1>1 DEF ClaimExhausted, At, Closes
<1>3. claim[o].status # "completed"
    BY <1>2 DEF Abandoned
<1>4. QED
    BY <1>2, <1>3, ClosingKeeps, SettleKeeps

(* The claims as they are.                                                 *)
LEMMA ClaimsStand ==
  ASSUME IInv, claim' = claim
  PROVE  /\ claim' \in [Ops -> ClaimRows]
         /\ \A p \in Ops : claim[p].status = "completed" => claim'[p].status = "completed"
         /\ \A p \in Ops : claim'[p].status = "none" => claim'[p].attempts = 0
BY Typing DEF IInv, RowsOK

(* A duplicate is acknowledged only when the claim is completed.           *)
LEMMA ClaimRefusedKeeps == ASSUME IInv, NEW w \in Workers, ClaimRefused(w) PROVE IInv'
<1>1. PICK o \in Ops : o = Op(w) /\ TypeOK
    BY Busy DEF ClaimRefused, At
<1>2. /\ worker[w].pc # "idle" /\ claim[o].status # "none" /\ ~Abandoned(claim[o])
      /\ Settle(w, Decision(claim[o])) /\ UNCHANGED <<orders, effect, sent>> /\ faults' = faults
      /\ claim' = claim
    BY <1>1 DEF ClaimRefused, At
<1>3. claim[o].status \in {"processing", "completed", "dead_lettered"}
    BY <1>1, <1>2, Typing DEF ClaimRows, Rows, Abandoned
<1>4. PICK outcome \in {"queued", "acked", "dead"} :
        outcome = Decision(claim[o]) /\ (outcome = "acked" => claim[o].status = "completed")
    BY <1>3 DEF Decision
<1>5. Settle(w, outcome)
    BY <1>2, <1>4
<1>6. QED
    BY <1>1, <1>2, <1>4, <1>5, ClaimsStand, SettleKeeps

(* The acknowledgement after markCompleted.                                *)
LEMMA AckKeeps == ASSUME IInv, NEW w \in Workers, Ack(w) PROVE IInv'
<1>1. /\ worker[w].pc = "ack" /\ Settle(w, "acked") /\ UNCHANGED <<orders, effect, sent>>
      /\ faults' = faults /\ claim' = claim
    BY DEF Ack, At
<1>2. claim[Op(w)].status = "completed"
    BY <1>1 DEF IInv, JobsOK, JobOK, Op
<1>3. QED
    BY <1>1, <1>2, ClaimsStand, SettleKeeps

(* A replica dies.                                                         *)
LEMMA CrashKeeps == ASSUME IInv, NEW w \in Workers, Crash(w) PROVE IInv'
<1>1. /\ worker[w].pc # "idle" /\ Settle(w, "queued") /\ UNCHANGED <<orders, effect, sent>>
      /\ Fault /\ claim' = claim
    BY DEF Crash
<1>2. QED
    BY <1>1, ClaimsStand, SettleKeeps

(* A thread that gives up keeps nothing but its delivery.                  *)
LEMMA GiveUpKeeps ==
  ASSUME IInv, NEW w \in Workers, worker[w].pc # "idle", GiveUp(w), UNCHANGED <<orders, effect, sent>>,
         faults' = faults \/ Fault, claim' = claim, queue' = queue
  PROVE  IInv'
<1>1. /\ worker[w].msg \in Messages /\ worker \in [Workers -> Jobs] /\ TypeOK
    BY Busy
<1>2. PICK j \in Jobs : Puts(w, j) /\ j.pc = "mark" /\ j.msg = worker[w].msg
    BY <1>1, GiveUpPuts
<1>3. JobOK(j)'
    BY <1>1, <1>2 DEF JobOK
<1>4. \A p \in Ops, k \in Kinds, i \in Nat : ~Sends(j, p, k, i)
    BY <1>2 DEF Sends
<1>5. queue \in [Messages -> {"queued", "held", "acked", "dead"}]
    BY <1>1, Typing
<1>6. QED
    BY <1>2, <1>3, <1>4, <1>5, ClaimsStand, ClaimStepKeeps

(* markCompleted, fenced by the claim.                                     *)
LEMMA CompleteKeeps == ASSUME IInv, NEW w \in Workers, Complete(w) PROVE IInv'
<1>1. PICK o \in Ops : o = Op(w)
    BY Busy DEF Complete, At
<1>2. /\ worker[w].msg \in Messages /\ worker \in [Workers -> Jobs] /\ TypeOK
    BY Busy DEF Complete, At
<1>3. /\ worker[w].pc = "complete" /\ UNCHANGED <<orders, effect, sent>> /\ faults' = faults /\ queue' = queue
    BY DEF Complete, At
<1>4. CASE Holds(w) /\ Closes(o, "completed") /\ Go(w, "ack")
  <2>1. claim[o].status # "completed"
      BY <1>1, <1>4 DEF Holds
  <2>2. PICK j \in Jobs : Puts(w, j) /\ j.pc = "ack" /\ SameTask(j, worker[w])
      BY <1>2, <1>4, GoPuts DEF Pcs
  <2>3. claim'[o].status = "completed"
      BY <1>4, <2>1, ClosingKeeps
  <2>4. JobOK(j)'
      BY <1>1, <1>2, <2>2, <2>3 DEF JobOK, SameTask, Op
  <2>5. \A p \in Ops, k \in Kinds, i \in Nat : ~Sends(j, p, k, i)
      BY <2>2 DEF Sends
  <2>6. queue \in [Messages -> {"queued", "held", "acked", "dead"}]
      BY <1>2, Typing
  <2>7. QED
      BY <1>3, <1>4, <2>1, <2>2, <2>4, <2>5, <2>6, ClosingKeeps, ClaimStepKeeps
<1>5. CASE GiveUp(w) /\ UNCHANGED claim
    BY <1>3, <1>5, GiveUpKeeps
<1>6. QED
    BY <1>1, <1>4, <1>5 DEF Complete, Closes

(* markFailed, fenced by the claim, and a retry or the dead-letter queue.  *)
LEMMA MarkFailedKeeps == ASSUME IInv, NEW w \in Workers, MarkFailed(w) PROVE IInv'
<1>1. PICK o \in Ops : o = Op(w)
    BY Busy DEF MarkFailed, At
<1>2. /\ worker[w].msg \in Messages /\ worker \in [Workers -> Jobs] /\ TypeOK /\ worker[w] \in Jobs
    BY Busy DEF MarkFailed, At
<1>3. /\ worker[w].pc = "mark" /\ UNCHANGED <<orders, effect, sent>> /\ faults' = faults
    BY DEF MarkFailed, At
<1>4. \/ claim' = claim
      \/ claim[o].status = "processing" /\ (Closes(o, "dead_lettered") \/ Closes(o, "failed"))
    BY <1>1 DEF MarkFailed, Closes
<1>5. /\ claim' \in [Ops -> ClaimRows]
      /\ \A p \in Ops : claim[p].status = "completed" => claim'[p].status = "completed"
      /\ \A p \in Ops : claim'[p].status = "none" => claim'[p].attempts = 0
  <2>1. CASE claim' = claim
      BY <2>1, ClaimsStand
  <2>2. CASE claim[o].status = "processing" /\ (Closes(o, "dead_lettered") \/ Closes(o, "failed"))
      BY <2>2, ClosingKeeps
  <2>3. QED
      BY <1>4, <2>1, <2>2
<1>6. CASE Settle(w, "dead")
    BY <1>3, <1>5, <1>6, SettleKeeps
<1>7. CASE /\ RetriesLeft(w)
           /\ worker' = [worker EXCEPT ![w] = [Idle EXCEPT !.pc = "claim",
                              !.msg = worker[w].msg, !.tries = worker[w].tries + 1]]
           /\ UNCHANGED queue
  <2>1. worker[w].tries + 1 \in 0..(MaxAttempts - 1)
      BY <1>2, <1>7 DEF RetriesLeft, Jobs
  <2>2. PICK j : j = [Idle EXCEPT !.pc = "claim", !.msg = worker[w].msg, !.tries = worker[w].tries + 1]
      OBVIOUS
  <2>3. j \in Jobs /\ j.pc = "claim" /\ j.msg = worker[w].msg
    <3>1. Idle \in Jobs
        BY IdleJob
    <3>2. QED
        BY <1>2, <2>1, <2>2, <3>1 DEF Jobs
  <2>4. Puts(w, j)
      BY <1>7, <2>2 DEF Puts
  <2>5. JobOK(j)'
      BY <1>2, <2>3 DEF JobOK
  <2>6. \A p \in Ops, k \in Kinds, i \in Nat : ~Sends(j, p, k, i)
      BY <2>3 DEF Sends
  <2>7. queue \in [Messages -> {"queued", "held", "acked", "dead"}] /\ queue' = queue
      BY <1>2, <1>7, Typing
  <2>8. QED
      BY <1>3, <1>5, <2>3, <2>4, <2>5, <2>6, <2>7, ClaimStepKeeps
<1>8. QED
    BY <1>6, <1>7 DEF MarkFailed

(* validateEffectClaim takes up the next effect of the batch.              *)
LEMMA ValidateKeeps == ASSUME IInv, NEW w \in Workers, NEW k \in Kinds, Validate(w, k) PROVE IInv'
<1>1. /\ worker[w].msg \in Messages /\ worker \in [Workers -> Jobs] /\ TypeOK /\ worker[w] \in Jobs
      /\ JobOK(worker[w])
    BY Busy DEF Validate, At
<1>2. PICK pc \in {"dispatch", "release"} : worker' = [worker EXCEPT ![w].active = k, ![w].pc = pc]
    BY DEF Validate
<1>3. /\ worker[w].pc = "validate" /\ k \in worker[w].batch /\ UNCHANGED <<orders, effect, sent>>
      /\ faults' = faults /\ queue' = queue /\ claim' = claim
    BY DEF Validate, At
<1>4. PICK j : j = [[worker[w] EXCEPT !.active = k] EXCEPT !.pc = pc]
    OBVIOUS
<1>5. /\ j \in Jobs /\ j.pc = pc /\ j.active = k /\ j.msg = worker[w].msg /\ j.batch = worker[w].batch
      /\ j.token = worker[w].token
    BY <1>1, <1>4 DEF Jobs
<1>6. Puts(w, j)
    BY <1>2, <1>4 DEF Puts
<1>7. JobOK(j)'
    BY <1>1, <1>3, <1>5 DEF JobOK
<1>8. \A o \in Ops, i \in Kinds, n \in Nat : Sends(j, o, i, n) => Sends(worker[w], o, i, n)
    BY <1>3, <1>5 DEF Sends
<1>9. queue \in [Messages -> {"queued", "held", "acked", "dead"}]
    BY <1>1, Typing
<1>10. QED
    BY <1>3, <1>5, <1>6, <1>7, <1>8, <1>9, ClaimsStand, ClaimStepKeeps

-----------------------------------------------------------------------------
(* A step that changes the order and its effects, and no claim.            *)
LEMMA EffectStepKeeps ==
  ASSUME IInv, NEW w \in Workers, NEW j \in Jobs, Puts(w, j), faults' = faults \/ Fault,
         claim' = claim, queue' = queue,
         order' \in {"paid", "processing", "shipped", "cancelled"},
         shipment' \in {"none", "label_created", "cancelled"},
         effect' \in [Effects -> EffectRows], sent' \in [Effects -> 0..MaxAttempts],
         \A e \in Effects : /\ effect'[e].attempts >= effect[e].attempts
                            /\ effect'[e].status = "none" => effect'[e].attempts = 0
                            /\ effect'[e].status = "published" => effect[e].status = "published" \/ sent'[e] > 0,
         sent' = sent \/ ((\A e \in Effects : sent'[e] >= sent[e]) /\ SentIsSpent'),
         CancelledRowsClosed', JobOK(j)',
         \A o \in Ops, k \in Kinds, n \in Nat :
           Sends(j, o, k, n) => Sends(worker[w], o, k, n) \/ n > effect[<<o, k>>].attempts
  PROVE  IInv'
<1>1. TypeOK
    BY DEF IInv
<1>2. TypeOK'
    BY <1>1, Typed, Typing
<1>3. \A e \in Effects : sent[e] \in Nat /\ sent'[e] \in Nat /\ sent'[e] >= sent[e]
    BY <1>1, Typing
<1>4. Advances
    BY <1>3 DEF Advances
<1>5. RowsOK'
    BY <1>3 DEF IInv, RowsOK
<1>6. AckedWasHandled'
    BY DEF IInv, AckedWasHandled
<1>7. QED
    BY <1>2, <1>4, <1>5, <1>6, StepKeeps

(* queueEffects adds rows that were not there, and touches no other.       *)
LEMMA QueuedRows ==
  ASSUME NEW op \in Ops, NEW f \in [Effects -> EffectRows],
         \A e \in Effects : f[e].status = "none" => f[e].attempts = 0
  PROVE  /\ Queued(op, f) \in [Effects -> EffectRows]
         /\ \A e \in Effects :
              /\ Queued(op, f)[e].attempts = f[e].attempts
              /\ Queued(op, f)[e].status = "none" => f[e].status = "none"
              /\ Queued(op, f)[e].status = "published" => f[e].status = "published"
              /\ e[1] # op => Queued(op, f)[e] = f[e]
<1>1. PICK q : q = [NoClaim EXCEPT !.status = "queued"]
    OBVIOUS
<1>2. q \in EffectRows /\ q.status = "queued" /\ q.attempts = 0
  <2>1. NoClaim \in EffectRows /\ NoClaim.attempts = 0
      BY DEF NoClaim, EffectRows, Rows
  <2>2. QED
      BY <1>1, <2>1 DEF EffectRows, Rows
<1>3. Queued(op, f) = [e \in Effects |-> IF e[1] = op /\ f[e].status = "none" THEN q ELSE f[e]]
    BY <1>1 DEF Queued
<1>4. QED
    BY <1>2, <1>3

(* cancelOrder withdraws the fulfillment effects that are not out yet.     *)
LEMMA SupersededRows ==
  ASSUME IInv
  PROVE  /\ Superseded \in [Effects -> EffectRows]
         /\ \A e \in Effects :
              /\ Superseded[e].attempts = effect[e].attempts
              /\ Superseded[e].status = "none" => effect[e].status = "none"
              /\ Superseded[e].status = "published" => effect[e].status = "published"
              /\ e[1] = "fulfillment" => Superseded[e].status \in {"none", "published", "cancelled"}
<1>1. effect \in [Effects -> EffectRows]
    BY Typing DEF IInv
<1>2. ASSUME NEW e \in Effects
      PROVE  /\ [effect[e] EXCEPT !.status = "cancelled", !.live = FALSE] \in EffectRows
             /\ [effect[e] EXCEPT !.status = "cancelled", !.live = FALSE].status = "cancelled"
             /\ [effect[e] EXCEPT !.status = "cancelled", !.live = FALSE].attempts = effect[e].attempts
  <2>1. effect[e] \in EffectRows
      BY <1>1
  <2>2. QED
      BY <2>1 DEF EffectRows, Rows
<1>3. ASSUME NEW e \in Effects
      PROVE  effect[e].status \in {"none", "queued", "publishing", "published", "cancelled", "failed"}
    BY <1>1 DEF EffectRows, Rows
<1>4. ASSUME NEW e \in Effects
      PROVE  Superseded[e] = IF e[1] = "fulfillment" /\ effect[e].status \in {"queued", "publishing", "failed"}
                             THEN [effect[e] EXCEPT !.status = "cancelled", !.live = FALSE]
                             ELSE effect[e]
    BY DEF Superseded
<1>5. Superseded \in [Effects -> EffectRows]
    BY <1>1, <1>2 DEF Superseded
<1>6. ASSUME NEW e \in Effects
      PROVE  /\ Superseded[e].attempts = effect[e].attempts
             /\ Superseded[e].status = "none" => effect[e].status = "none"
             /\ Superseded[e].status = "published" => effect[e].status = "published"
             /\ e[1] = "fulfillment" => Superseded[e].status \in {"none", "published", "cancelled"}
  <2>1. CASE e[1] = "fulfillment" /\ effect[e].status \in {"queued", "publishing", "failed"}
    <3>1. Superseded[e].status = "cancelled" /\ Superseded[e].attempts = effect[e].attempts
        BY <1>2, <1>4, <2>1
    <3>2. QED
        BY <3>1
  <2>2. CASE ~(e[1] = "fulfillment" /\ effect[e].status \in {"queued", "publishing", "failed"})
    <3>1. Superseded[e] = effect[e]
        BY <1>4, <2>2
    <3>2. QED
        BY <1>3, <2>2, <3>1
  <2>3. QED
      BY <2>1, <2>2
<1>7. QED
    BY <1>5, <1>6

(* processOrderInTransaction keeps the rows' types and counters, and a     *)
(* cancelled order without shipping.                                       *)
LEMMA ApplyKeeps ==
  ASSUME IInv, NEW op \in Ops, Apply(op)
  PROVE  /\ order' \in {"paid", "processing", "shipped", "cancelled"}
         /\ shipment' \in {"none", "label_created", "cancelled"}
         /\ effect' \in [Effects -> EffectRows]
         /\ \A e \in Effects : /\ effect'[e].attempts = effect[e].attempts
                               /\ effect'[e].status = "none" => effect[e].status = "none"
                               /\ effect'[e].status = "published" => effect[e].status = "published"
         /\ CancelledRowsClosed'
<1>1. /\ order \in {"paid", "processing", "shipped", "cancelled"}
      /\ shipment \in {"none", "label_created", "cancelled"}
      /\ effect \in [Effects -> EffectRows]
      /\ \A e \in Effects : effect[e].status = "none" => effect[e].attempts = 0
    BY Typing DEF IInv, RowsOK
<1>2. CASE Fulfillable /\ Fulfill
  <2>1. "fulfillment" \in Ops
      BY DEF Ops
  <2>2. QED
      BY <1>1, <1>2, <2>1, QueuedRows DEF Fulfill, CancelledRowsClosed
<1>3. CASE order \in {"paid", "processing"} /\ Cancel
  <2>1. "cancellation" \in Ops /\ \A k \in Kinds : <<"fulfillment", k>> \in Effects
      BY DEF Ops, Effects
  <2>2. PICK f : f = Superseded
      OBVIOUS
  <2>3. /\ f \in [Effects -> EffectRows]
        /\ \A e \in Effects :
              /\ f[e].attempts = effect[e].attempts
              /\ f[e].status = "none" => effect[e].status = "none"
              /\ f[e].status = "published" => effect[e].status = "published"
              /\ e[1] = "fulfillment" => f[e].status \in {"none", "published", "cancelled"}
      BY <2>2, SupersededRows
  <2>4. effect' = Queued("cancellation", f)
      BY <1>3, <2>2 DEF Cancel
  <2>5. \A e \in Effects : f[e].status = "none" => f[e].attempts = 0
      BY <1>1, <2>3
  <2>6. /\ effect' \in [Effects -> EffectRows]
        /\ \A e \in Effects : /\ effect'[e].attempts = f[e].attempts
                              /\ effect'[e].status = "none" => f[e].status = "none"
                              /\ effect'[e].status = "published" => f[e].status = "published"
                              /\ e[1] # "cancellation" => effect'[e] = f[e]
      BY <2>1, <2>3, <2>4, <2>5, QueuedRows
  <2>7. ASSUME NEW k \in Kinds
        PROVE  effect'[<<"fulfillment", k>>].status \in {"none", "published", "cancelled"}
      BY <2>1, <2>3, <2>6
  <2>8. shipment' # "label_created" /\ shipment' \in {"none", "label_created", "cancelled"} /\ order' = "cancelled"
      BY <1>1, <1>3 DEF Cancel
  <2>9. QED
      BY <2>3, <2>6, <2>7, <2>8 DEF CancelledRowsClosed
<1>4. CASE UNCHANGED <<orders, effect>>
    BY <1>1, <1>4 DEF orders, IInv, CancelledRowsClosed
<1>5. QED
    BY <1>2, <1>3, <1>4 DEF Apply, Ops

(* Process: the transaction commits, fails before or after it, or the      *)
(* event is refused for good.                                              *)
LEMMA ProcessKeeps == ASSUME IInv, NEW w \in Workers, Process(w) PROVE IInv'
<1>1. /\ worker[w].msg \in Messages /\ worker \in [Workers -> Jobs] /\ TypeOK /\ worker[w] \in Jobs
      /\ Op(w) \in Ops /\ worker[w].pc = "process"
    BY Busy DEF Process, At
<1>2. claim' = claim /\ sent' = sent /\ queue' = queue /\ (faults' = faults \/ Fault)
    BY DEF Process
<1>3. Apply(Op(w)) \/ UNCHANGED <<orders, effect>>
    BY DEF Process
<1>4. /\ order' \in {"paid", "processing", "shipped", "cancelled"}
      /\ shipment' \in {"none", "label_created", "cancelled"}
      /\ effect' \in [Effects -> EffectRows]
      /\ \A e \in Effects : /\ effect'[e].attempts = effect[e].attempts
                            /\ effect'[e].status = "none" => effect[e].status = "none"
                            /\ effect'[e].status = "published" => effect[e].status = "published"
      /\ CancelledRowsClosed'
  <2>1. CASE Apply(Op(w))
      BY <1>1, <2>1, ApplyKeeps
  <2>2. CASE UNCHANGED <<orders, effect>>
      BY <1>1, <2>2, Typing DEF orders, IInv, CancelledRowsClosed
  <2>3. QED
      BY <1>3, <2>1, <2>2
<1>5. PICK j \in Jobs : Puts(w, j) /\ j.pc \in {"effects", "mark"} /\ j.msg = worker[w].msg
  <2>1. CASE Go(w, "effects")
      BY <1>1, <2>1, GoPuts DEF Pcs, SameTask
  <2>2. CASE GiveUp(w)
      BY <1>1, <2>2, GiveUpPuts
  <2>3. CASE worker' = [worker EXCEPT ![w].pc = "mark", ![w].permanent = TRUE]
    <3>1. PICK j : j = [[worker[w] EXCEPT !.pc = "mark"] EXCEPT !.permanent = TRUE]
        OBVIOUS
    <3>2. j \in Jobs /\ j.pc = "mark" /\ j.msg = worker[w].msg
      <4>1. worker[w] \in Jobs
          BY <1>1
      <4>2. QED
          BY <3>1, <4>1 DEF Jobs
    <3>3. Puts(w, j)
        BY <2>3, <3>1 DEF Puts
    <3>4. QED
        BY <3>2, <3>3
  <2>4. QED
      BY <2>1, <2>2, <2>3 DEF Process
<1>6. JobOK(j)'
    BY <1>1, <1>5 DEF JobOK
<1>7. \A p \in Ops, k \in Kinds, i \in Nat : ~Sends(j, p, k, i)
    BY <1>5 DEF Sends
<1>8. /\ sent \in [Effects -> 0..MaxAttempts]
      /\ \A e \in Effects : /\ effect[e].attempts \in Nat
                            /\ effect[e].status = "none" => effect[e].attempts = 0
    BY <1>1, Typing DEF IInv, RowsOK
<1>9. \A e \in Effects : effect'[e].attempts >= effect[e].attempts
    BY <1>4, <1>8
<1>10. QED
    BY <1>2, <1>4, <1>5, <1>6, <1>7, <1>8, <1>9, EffectStepKeeps

-----------------------------------------------------------------------------
(* A dispatch is paid for with the token of its effect.                    *)
LEMMA DispatchCounts ==
  ASSUME IInv, NEW w \in Workers, worker[w].pc = "dispatch", sent' \in {sent, Sent(w)}, effect' = effect,
         NEW j \in Jobs, Puts(w, j), j.pc \in {"publish", "release"}, SameTask(j, worker[w])
  PROVE  /\ sent' \in [Effects -> 0..MaxAttempts]
         /\ \A e \in Effects : sent'[e] >= sent[e]
         /\ SentIsSpent'
<1>1. /\ worker[w].msg \in Messages /\ worker \in [Workers -> Jobs] /\ TypeOK /\ worker[w] \in Jobs
      /\ Op(w) \in Ops /\ JobOK(worker[w])
    BY Busy
<1>2. PICK o \in Ops, k \in Kinds : o = Op(w) /\ k = worker[w].active /\ k \in worker[w].batch
    BY <1>1 DEF JobOK
<1>3. /\ \A p \in Ops, i \in Kinds : <<p, i>> \in Effects
      /\ \A p \in Ops, i \in Kinds : <<p, i>> = <<o, k>> => p = o /\ i = k
    BY DEF Effects
<1>4. sent \in [Effects -> 0..MaxAttempts] /\ \A e \in Effects : effect[e].attempts \in Nat
    BY <1>1, Typing
<1>5. PICK t \in Nat : t = worker[w].token[k] /\ t >= 1 /\ t <= effect[<<o, k>>].attempts /\ t \in 1..MaxAttempts
  <2>1. worker[w].token[k] \in 0..MaxAttempts
      BY <1>1 DEF Jobs
  <2>2. worker[w].token[k] >= 1 /\ worker[w].token[k] <= effect[<<o, k>>].attempts
      BY <1>1, <1>2 DEF JobOK, Op
  <2>3. QED
      BY <2>1, <2>2
<1>6. worker'[w] = j /\ \A v \in Workers \ {w} : worker'[v] = worker[v]
    BY <1>1 DEF Puts
<1>7. ASSUME NEW v \in Workers, NEW p \in Ops, NEW i \in Kinds, NEW n \in Nat, Sends(worker[v], p, i, n)'
      PROVE  Sends(worker[v], p, i, n)
  <2>1. CASE v = w
      BY <1>6, <1>7, <2>1 DEF Sends, SameTask
  <2>2. CASE v # w
      BY <1>6, <1>7, <2>2 DEF Sends
  <2>3. QED
      BY <2>1, <2>2
<1>8. ASSUME NEW p \in Ops, NEW i \in Kinds
      PROVE  /\ SpentTokens(p, i) \subseteq SpentTokens(p, i)'
             /\ IsFiniteSet(SpentTokens(p, i)) /\ Cardinality(SpentTokens(p, i)) \in Nat
             /\ IsFiniteSet(SpentTokens(p, i)') /\ Cardinality(SpentTokens(p, i)') \in Nat
             /\ Cardinality(SpentTokens(p, i)') <= MaxAttempts
             /\ Cardinality(SpentTokens(p, i)) <= Cardinality(SpentTokens(p, i)')
             /\ sent[<<p, i>>] <= Cardinality(SpentTokens(p, i))
  <2>1. effect[<<p, i>>].attempts \in Nat /\ effect'[<<p, i>>].attempts \in Nat
        /\ effect'[<<p, i>>].attempts >= effect[<<p, i>>].attempts
      BY <1>3, <1>4
  <2>2. \A v \in Workers, n \in Nat : Sends(worker[v], p, i, n)' => Sends(worker[v], p, i, n)
      BY <1>7
  <2>3. QED
      BY <2>1, <2>2, SpentGrows, SpentFinite DEF IInv, SentIsSpent
<1>9. sent[<<o, k>>] + 1 <= Cardinality(SpentTokens(o, k)')
  <2>1. CASE j.pc = "publish" \/ j.pc = "release"
    <3>1. Sends(worker[w], o, k, t)
        BY <1>2, <1>5 DEF Sends, Op
    <3>2. t \notin SpentTokens(o, k)
        BY <3>1 DEF SpentTokens
    <3>3. t \in SpentTokens(o, k)'
      <4>1. ASSUME NEW v \in Workers, Sends(worker[v], o, k, t)' PROVE FALSE
        <5>1. Sends(worker[v], o, k, t)
            BY <1>7, <4>1
        <5>2. v = w
            BY <3>1, <5>1 DEF IInv, TokensDistinct
        <5>3. QED
            BY <1>2, <1>6, <2>1, <4>1, <5>2 DEF Sends, SameTask
      <4>2. t <= effect'[<<o, k>>].attempts
          BY <1>5
      <4>3. QED
          BY <1>5, <4>1, <4>2 DEF SpentTokens
    <3>4. Cardinality(SpentTokens(o, k) \cup {t}) = Cardinality(SpentTokens(o, k)) + 1
        BY <1>8, <3>2, FS_AddElement
    <3>5. SpentTokens(o, k) \cup {t} \subseteq SpentTokens(o, k)'
        BY <1>8, <3>3
    <3>6. Cardinality(SpentTokens(o, k) \cup {t}) <= Cardinality(SpentTokens(o, k)')
        BY <1>8, <3>5, FS_Subset
    <3>7. sent[<<o, k>>] \in Nat
        BY <1>3, <1>4
    <3>8. QED
        BY <1>8, <3>4, <3>6, <3>7
  <2>2. QED
      BY <2>1
<1>10. Sent(w) = [sent EXCEPT ![<<o, k>>] = sent[<<o, k>>] + 1]
    BY <1>2 DEF Sent
<1>11. /\ sent'[<<o, k>>] \in {sent[<<o, k>>], sent[<<o, k>>] + 1}
       /\ \A e \in Effects : e # <<o, k>> => sent'[e] = sent[e]
    BY <1>3, <1>4, <1>10
<1>12. sent[<<o, k>>] + 1 \in 0..MaxAttempts
  <2>1. sent[<<o, k>>] \in Nat
      BY <1>3, <1>4
  <2>2. QED
      BY <1>8, <1>9, <2>1
<1>13. sent' \in [Effects -> 0..MaxAttempts]
    BY <1>4, <1>10, <1>12
<1>14. \A e \in Effects : sent'[e] >= sent[e]
    BY <1>3, <1>4, <1>11
<1>15. SentIsSpent'
  <2> SUFFICES ASSUME NEW p \in Ops, NEW i \in Kinds
               PROVE  sent'[<<p, i>>] <= Cardinality(SpentTokens(p, i)')
      BY DEF SentIsSpent
  <2>0. sent[<<p, i>>] \in Nat
      BY <1>3, <1>4
  <2>1. CASE <<p, i>> = <<o, k>>
    <3>1. p = o /\ i = k
        BY <1>3, <2>1
    <3>2. QED
        BY <1>8, <1>9, <1>11, <2>0, <3>1
  <2>2. CASE <<p, i>> # <<o, k>>
      BY <1>3, <1>8, <1>11, <2>0, <2>2
  <2>3. QED
      BY <2>1, <2>2
<1>16. QED
    BY <1>13, <1>14, <1>15

-----------------------------------------------------------------------------
(* The effect arrives downstream at most once for its token.               *)
LEMMA DispatchKeeps == ASSUME IInv, NEW w \in Workers, Dispatch(w) PROVE IInv'
<1>1. /\ worker[w].msg \in Messages /\ worker \in [Workers -> Jobs] /\ TypeOK /\ worker[w] \in Jobs
      /\ Op(w) \in Ops /\ JobOK(worker[w]) /\ worker[w].pc = "dispatch"
    BY Busy DEF Dispatch, At
<1>2. /\ order' = order /\ shipment' = shipment /\ claim' = claim /\ effect' = effect /\ queue' = queue
      /\ faults' = faults \/ Fault
    BY DEF Dispatch, orders
<1>3. PICK step \in {"publish", "release"} :
        /\ Go(w, step) /\ sent' \in {sent, Sent(w)} /\ (step = "publish" => sent' = Sent(w))
    BY DEF Dispatch
<1>4. PICK j \in Jobs : Puts(w, j) /\ j.pc = step /\ SameTask(j, worker[w])
    BY <1>1, <1>3, GoPuts DEF Pcs
<1>5. /\ sent' \in [Effects -> 0..MaxAttempts] /\ \A e \in Effects : sent'[e] >= sent[e]
      /\ SentIsSpent'
    BY <1>1, <1>2, <1>3, <1>4, DispatchCounts
<1>6. PICK o \in Ops, k \in Kinds : o = Op(w) /\ k = worker[w].active /\ k \in worker[w].batch
    BY <1>1 DEF JobOK
<1>7. step = "publish" => sent'[<<o, k>>] > 0
  <2> SUFFICES ASSUME step = "publish" PROVE sent'[<<o, k>>] > 0
      OBVIOUS
  <2>1. <<o, k>> \in Effects /\ sent \in [Effects -> 0..MaxAttempts]
      BY <1>1, Typing DEF Effects
  <2>2. sent' = [sent EXCEPT ![<<o, k>>] = sent[<<o, k>>] + 1]
      BY <1>3, <1>6 DEF Sent
  <2>3. sent[<<o, k>>] \in Nat /\ sent'[<<o, k>>] = sent[<<o, k>>] + 1
      BY <2>1, <2>2
  <2>4. QED
      BY <2>3
<1>8. JobOK(j)'
    BY <1>1, <1>2, <1>4, <1>6, <1>7 DEF JobOK, SameTask, Op
<1>9. \A p \in Ops, i \in Kinds, n \in Nat : Sends(j, p, i, n) => Sends(worker[w], p, i, n)
    BY <1>1, <1>4 DEF Sends, SameTask
<1>10. /\ order \in {"paid", "processing", "shipped", "cancelled"}
       /\ shipment \in {"none", "label_created", "cancelled"}
       /\ effect \in [Effects -> EffectRows]
       /\ \A e \in Effects : /\ effect[e].attempts \in Nat
                             /\ effect[e].status = "none" => effect[e].attempts = 0
    BY <1>1, Typing DEF IInv, RowsOK
<1>11. CancelledRowsClosed'
    BY <1>2 DEF IInv, CancelledRowsClosed
<1>12. \A e \in Effects : effect'[e].attempts >= effect[e].attempts
    BY <1>2, <1>10
<1>13. QED
    BY <1>2, <1>4, <1>5, <1>8, <1>9, <1>10, <1>11, <1>12, EffectStepKeeps

(* claimEffects hands out the next token of every effect that is due.      *)
LEMMA ClaimEffectsKeeps == ASSUME IInv, NEW w \in Workers, ClaimEffects(w) PROVE IInv'
<1>1. /\ worker[w].msg \in Messages /\ worker \in [Workers -> Jobs] /\ TypeOK /\ worker[w] \in Jobs
      /\ worker[w].pc = "effects"
    BY Busy DEF ClaimEffects, At
<1>2. PICK o \in Ops : o = Op(w)
    BY Busy DEF ClaimEffects, At
<1>3. /\ order' = order /\ shipment' = shipment /\ claim' = claim /\ sent' = sent /\ queue' = queue
      /\ faults' = faults /\ UNCHANGED <<orders, sent>>
    BY DEF ClaimEffects, orders
<1>4. PICK due : due = {k \in Kinds : OpenFor(o) /\ Due(<<o, k>>)}
    OBVIOUS
<1>5. CASE /\ effect' = [e \in Effects |->
                 IF e[1] = o /\ e[2] \in due
                 THEN [status |-> "publishing", attempts |-> effect[e].attempts + 1, live |-> TRUE]
                 ELSE effect[e]]
           /\ worker' = [worker EXCEPT ![w].batch = due,
                ![w].token = [k \in Kinds |-> IF k \in due THEN effect[<<o, k>>].attempts + 1 ELSE 0],
                ![w].pc = IF due = {} THEN "complete" ELSE "validate"]
  <2>1. /\ effect \in [Effects -> EffectRows] /\ sent \in [Effects -> 0..MaxAttempts]
        /\ order \in {"paid", "processing", "shipped", "cancelled"}
        /\ shipment \in {"none", "label_created", "cancelled"}
        /\ \A e \in Effects : effect[e].attempts \in 0..MaxAttempts
      BY <1>1, Typing
  <2>2. due \subseteq Kinds /\ \A k \in due : <<o, k>> \in Effects /\ OpenFor(o) /\ Due(<<o, k>>)
      BY <1>4 DEF Effects
  <2>3. \A k \in due : effect[<<o, k>>].attempts + 1 \in 0..MaxAttempts
    <3>1. \A k \in due : effect[<<o, k>>].attempts < MaxAttempts
        BY <2>2 DEF Due
    <3>2. QED
        BY <2>1, <2>2, <3>1
  <2>4. ASSUME NEW e \in Effects, e[1] = o, e[2] \in due
        PROVE  /\ e = <<o, e[2]>>
               /\ [status |-> "publishing", attempts |-> effect[e].attempts + 1, live |-> TRUE] \in EffectRows
    <3>1. e = <<o, e[2]>>
        BY <2>4 DEF Effects
    <3>2. effect[e].attempts + 1 \in 0..MaxAttempts
        BY <2>3, <2>4, <3>1
    <3>3. QED
        BY <3>1, <3>2 DEF EffectRows, Rows
  <2>5. effect' \in [Effects -> EffectRows]
      BY <1>5, <2>1, <2>4
  <2>6. ASSUME NEW e \in Effects
        PROVE  /\ effect'[e].attempts >= effect[e].attempts
               /\ effect'[e].status = "none" => effect'[e].attempts = 0
               /\ effect'[e].status = "published" => effect[e].status = "published"
    <3>1. CASE e[1] = o /\ e[2] \in due
      <4>1. effect'[e] = [status |-> "publishing", attempts |-> effect[e].attempts + 1, live |-> TRUE]
          BY <1>5, <3>1
      <4>2. effect'[e].status = "publishing" /\ effect'[e].attempts = effect[e].attempts + 1
          BY <4>1
      <4>3. QED
          BY <2>1, <4>2
    <3>2. CASE ~(e[1] = o /\ e[2] \in due)
      <4>1. effect'[e] = effect[e]
          BY <1>5, <3>2
      <4>2. QED
          BY <2>1, <4>1 DEF IInv, RowsOK
    <3>3. QED
        BY <3>1, <3>2
  <2>7. CancelledRowsClosed'
    <3> SUFFICES ASSUME order = "cancelled", NEW k \in Kinds
                 PROVE  effect'[<<"fulfillment", k>>].status \in {"none", "published", "cancelled"}
        BY <1>3 DEF IInv, CancelledRowsClosed
    <3>1. <<"fulfillment", k>> \in Effects
        BY DEF Effects, Ops
    <3>2. o = "fulfillment" => due = {}
        BY <1>4 DEF OpenFor
    <3>3. effect'[<<"fulfillment", k>>] = effect[<<"fulfillment", k>>]
        BY <1>5, <3>1, <3>2
    <3>4. QED
        BY <3>3 DEF IInv, CancelledRowsClosed
  <2>8. PICK tok : tok = [k \in Kinds |-> IF k \in due THEN effect[<<o, k>>].attempts + 1 ELSE 0]
      OBVIOUS
  <2>9. /\ tok \in [Kinds -> 0..MaxAttempts]
        /\ \A k \in due : tok[k] = effect[<<o, k>>].attempts + 1
      BY <2>2, <2>3, <2>8
  <2>10. PICK pc \in {"complete", "validate"} : pc = IF due = {} THEN "complete" ELSE "validate"
      OBVIOUS
  <2>11. PICK j : j = [[[worker[w] EXCEPT !.batch = due] EXCEPT !.token = tok] EXCEPT !.pc = pc]
      OBVIOUS
  <2>12. j \in Jobs /\ j.pc = pc /\ j.batch = due /\ j.token = tok /\ j.msg = worker[w].msg
    <3>1. worker[w] \in Jobs
        BY <1>1
    <3>2. QED
        BY <2>2, <2>9, <2>11, <3>1 DEF Jobs
  <2>13. Puts(w, j)
      BY <1>5, <2>8, <2>10, <2>11 DEF Puts
  <2>14. ASSUME NEW k \in due
         PROVE  j.token[k] >= 1 /\ j.token[k] <= effect'[<<o, k>>].attempts
                /\ j.token[k] > effect[<<o, k>>].attempts
    <3>1. <<o, k>> \in Effects /\ <<o, k>>[1] = o /\ <<o, k>>[2] = k
        BY <2>2
    <3>2. effect'[<<o, k>>] = [status |-> "publishing", attempts |-> effect[<<o, k>>].attempts + 1, live |-> TRUE]
        BY <1>5, <3>1
    <3>3. effect'[<<o, k>>].attempts = effect[<<o, k>>].attempts + 1 /\ effect[<<o, k>>].attempts \in Nat
        BY <2>1, <3>1, <3>2
    <3>4. QED
        BY <2>9, <2>12, <3>3
  <2>15. JobOK(j)'
      BY <1>1, <1>2, <2>12, <2>14 DEF JobOK, Op
  <2>16. ASSUME NEW p \in Ops, NEW k \in Kinds, NEW n \in Nat, Sends(j, p, k, n)
         PROVE  n > effect[<<p, k>>].attempts
      BY <1>2, <2>12, <2>14, <2>16 DEF Sends, Op
  <2>17. QED
      BY <1>3, <2>1, <2>5, <2>6, <2>7, <2>12, <2>13, <2>15, <2>16, EffectStepKeeps
<1>6. CASE GiveUp(w) /\ UNCHANGED effect
  <2>1. UNCHANGED <<orders, effect, sent>>
      BY <1>3, <1>6
  <2>2. QED
      BY <1>1, <1>3, <1>6, <2>1, GiveUpKeeps
<1>7. QED
    BY <1>2, <1>4, <1>5, <1>6 DEF ClaimEffects

-----------------------------------------------------------------------------
\* The effect of o and k changes its status to s; the lease ends.
Marks(o, k, s) ==
    /\ effect' \in [Effects -> EffectRows]
    /\ effect'[<<o, k>>].status = s /\ effect'[<<o, k>>].attempts = effect[<<o, k>>].attempts
    /\ \A e \in Effects : e # <<o, k>> => effect'[e] = effect[e]

(* A row of an effect with another status and without its lease.           *)
LEMMA MarksRow ==
  ASSUME TypeOK, NEW o \in Ops, NEW k \in Kinds, NEW s \in {"queued", "failed", "published"},
         \/ effect' = [effect EXCEPT ![<<o, k>>].status = s, ![<<o, k>>].live = FALSE]
         \/ effect' = [effect EXCEPT ![<<o, k>>].live = FALSE, ![<<o, k>>].status = s]
  PROVE  Marks(o, k, s)
<1>1. effect \in [Effects -> EffectRows] /\ <<o, k>> \in Effects
    BY Typing DEF Effects
<1>2. PICK e \in Effects : e = <<o, k>>
    BY <1>1
<1>3. PICK r \in EffectRows : r = effect[e]
    BY <1>1
<1>4. PICK q : q \in EffectRows /\ q.status = s /\ q.attempts = r.attempts /\ effect' = [effect EXCEPT ![e] = q]
  <2>1. CASE effect' = [effect EXCEPT ![e].status = s, ![e].live = FALSE]
    <3>1. effect' = [effect EXCEPT ![e] = [[r EXCEPT !.status = s] EXCEPT !.live = FALSE]]
        BY <1>1, <1>3, <2>1
    <3>2. /\ [[r EXCEPT !.status = s] EXCEPT !.live = FALSE] \in EffectRows
          /\ [[r EXCEPT !.status = s] EXCEPT !.live = FALSE].status = s
          /\ [[r EXCEPT !.status = s] EXCEPT !.live = FALSE].attempts = r.attempts
        BY DEF EffectRows, Rows
    <3>3. QED
        BY <3>1, <3>2
  <2>2. CASE effect' = [effect EXCEPT ![e].live = FALSE, ![e].status = s]
    <3>1. effect' = [effect EXCEPT ![e] = [[r EXCEPT !.live = FALSE] EXCEPT !.status = s]]
        BY <1>1, <1>3, <2>2
    <3>2. /\ [[r EXCEPT !.live = FALSE] EXCEPT !.status = s] \in EffectRows
          /\ [[r EXCEPT !.live = FALSE] EXCEPT !.status = s].status = s
          /\ [[r EXCEPT !.live = FALSE] EXCEPT !.status = s].attempts = r.attempts
        BY DEF EffectRows, Rows
    <3>3. QED
        BY <3>1, <3>2
  <2>3. QED
      BY <1>2, <2>1, <2>2
<1>5. QED
    BY <1>1, <1>2, <1>3, <1>4 DEF Marks

(* What a mark of an effect that is being published leaves alone.          *)
LEMMA MarkedKeeps ==
  ASSUME IInv, NEW o \in Ops, NEW k \in Kinds, NEW s \in {"queued", "failed", "published"}, Marks(o, k, s),
         effect[<<o, k>>].status = "publishing", order' = order, shipment' = shipment,
         s = "published" => sent[<<o, k>>] > 0
  PROVE  /\ effect' \in [Effects -> EffectRows]
         /\ \A e \in Effects : /\ effect'[e].attempts >= effect[e].attempts
                               /\ effect'[e].attempts = effect[e].attempts
                               /\ effect'[e].status = "none" => effect'[e].attempts = 0
                               /\ effect'[e].status = "published" => effect[e].status = "published" \/ sent[e] > 0
         /\ CancelledRowsClosed'
<1>1. /\ \A e \in Effects : effect[e].attempts \in Nat /\ (effect[e].status = "none" => effect[e].attempts = 0)
      /\ <<o, k>> \in Effects
    BY Typing DEF IInv, RowsOK, Effects
<1>2. ASSUME NEW e \in Effects
      PROVE  /\ effect'[e].attempts >= effect[e].attempts
             /\ effect'[e].attempts = effect[e].attempts
             /\ effect'[e].status = "none" => effect'[e].attempts = 0
             /\ effect'[e].status = "published" => effect[e].status = "published" \/ sent[e] > 0
  <2>1. CASE e = <<o, k>>
    <3>1. effect'[e].attempts = effect[e].attempts /\ effect'[e].status = s
        BY <2>1 DEF Marks
    <3>2. effect[e].attempts \in Nat
        BY <1>1
    <3>3. QED
        BY <2>1, <3>1, <3>2
  <2>2. CASE e # <<o, k>>
      BY <1>1, <2>2 DEF Marks
  <2>3. QED
      BY <2>1, <2>2
<1>3. CancelledRowsClosed'
  <2> SUFFICES ASSUME order = "cancelled", NEW i \in Kinds
               PROVE  effect'[<<"fulfillment", i>>].status \in {"none", "published", "cancelled"}
      BY DEF IInv, CancelledRowsClosed
  <2>1. <<"fulfillment", i>> \in Effects
      BY DEF Effects, Ops
  <2>2. effect[<<"fulfillment", i>>].status \in {"none", "published", "cancelled"}
      BY DEF IInv, CancelledRowsClosed
  <2>3. <<"fulfillment", i>> # <<o, k>>
      BY <2>2
  <2>4. QED
      BY <2>1, <2>2, <2>3 DEF Marks
<1>4. QED
    BY <1>2, <1>3 DEF Marks

(* publishEffect, fenced by the token, the claim and the order.            *)
LEMMA PublishKeeps == ASSUME IInv, NEW w \in Workers, Publish(w) PROVE IInv'
<1>1. /\ worker[w].msg \in Messages /\ worker \in [Workers -> Jobs] /\ TypeOK /\ worker[w] \in Jobs
      /\ Op(w) \in Ops /\ JobOK(worker[w]) /\ worker[w].pc = "publish"
    BY Busy DEF Publish, At
<1>2. PICK o \in Ops, k \in Kinds : o = Op(w) /\ k = worker[w].active /\ k \in worker[w].batch
    BY <1>1 DEF JobOK
<1>3. /\ order' = order /\ shipment' = shipment /\ claim' = claim /\ sent' = sent /\ queue' = queue
      /\ faults' = faults
    BY DEF Publish, orders
<1>4. /\ order \in {"paid", "processing", "shipped", "cancelled"}
      /\ shipment \in {"none", "label_created", "cancelled"}
      /\ effect \in [Effects -> EffectRows] /\ sent \in [Effects -> 0..MaxAttempts]
      /\ \A e \in Effects : effect[e].attempts \in Nat /\ (effect[e].status = "none" => effect[e].attempts = 0)
    BY <1>1, Typing DEF IInv, RowsOK
<1>5. PICK rest : rest = worker[w].batch \ {k}
    OBVIOUS
<1>6. CASE /\ CanPublish(w)
           /\ effect' = [effect EXCEPT ![<<o, k>>].status = "published", ![<<o, k>>].live = FALSE]
           /\ worker' = [worker EXCEPT ![w].batch = rest, ![w].active = None, ![w].token[k] = 0,
                           ![w].pc = IF rest = {} THEN "complete" ELSE "validate"]
  <2>1. Marks(o, k, "published")
      BY <1>1, <1>6, MarksRow
  <2>2. effect[<<o, k>>].status = "publishing" /\ sent[<<o, k>>] > 0
      BY <1>1, <1>2, <1>6 DEF CanPublish, EffectHeld, JobOK, Op
  <2>3. /\ effect' \in [Effects -> EffectRows]
        /\ \A e \in Effects : /\ effect'[e].attempts >= effect[e].attempts
                              /\ effect'[e].attempts = effect[e].attempts
                              /\ effect'[e].status = "none" => effect'[e].attempts = 0
                              /\ effect'[e].status = "published" => effect[e].status = "published" \/ sent[e] > 0
        /\ CancelledRowsClosed'
      BY <1>3, <2>1, <2>2, MarkedKeeps
  <2>4. PICK pc \in {"complete", "validate"} : pc = IF rest = {} THEN "complete" ELSE "validate"
      OBVIOUS
  <2>5. PICK tok : tok = [worker[w].token EXCEPT ![k] = 0]
      OBVIOUS
  <2>6. /\ tok \in [Kinds -> 0..MaxAttempts] /\ \A i \in Kinds : i # k => tok[i] = worker[w].token[i]
    <3>1. worker[w].token \in [Kinds -> 0..MaxAttempts]
        BY <1>1 DEF Jobs
    <3>2. QED
        BY <2>5, <3>1
  <2>7. PICK j : j = [[[[worker[w] EXCEPT !.batch = rest] EXCEPT !.active = None] EXCEPT !.token = tok]
                        EXCEPT !.pc = pc]
      OBVIOUS
  <2>8. j \in Jobs /\ j.pc = pc /\ j.batch = rest /\ j.token = tok /\ j.msg = worker[w].msg
    <3>1. worker[w] \in Jobs /\ rest \subseteq Kinds
        BY <1>1, <1>5 DEF Jobs
    <3>2. QED
        BY <2>6, <2>7, <3>1 DEF Jobs
  <2>9. Puts(w, j)
    <3>1. worker[w] \in Jobs
        BY <1>1
    <3>2. [[worker[w] EXCEPT !.batch = rest] EXCEPT !.active = None].token = worker[w].token
        BY <3>1 DEF Jobs
    <3>3. worker' = [worker EXCEPT ![w].batch = rest, ![w].active = None, ![w].token[k] = 0, ![w].pc = pc]
        BY <1>6, <2>4
    <3>4. PICK i : i = [[worker[w] EXCEPT !.batch = rest] EXCEPT !.active = None]
        OBVIOUS
    <3>5. i.token = worker[w].token
        BY <3>2, <3>4
    <3>6. worker' = [worker EXCEPT ![w] = [[i EXCEPT !.token = [i.token EXCEPT ![k] = 0]] EXCEPT !.pc = pc]]
        BY <3>3, <3>4
    <3>7. QED
        BY <2>5, <2>7, <3>4, <3>5, <3>6 DEF Puts
  <2>10. \A i \in rest : i \in worker[w].batch /\ i # k /\ i \in Kinds /\ <<o, i>> \in Effects
      BY <1>1, <1>5 DEF Jobs, Effects
  <2>11. JobOK(j)'
    <3>1. ASSUME NEW i \in rest PROVE j.token[i] >= 1 /\ j.token[i] <= effect'[<<o, i>>].attempts
      <4>1. j.token[i] = worker[w].token[i] /\ effect'[<<o, i>>].attempts = effect[<<o, i>>].attempts
          BY <2>3, <2>6, <2>8, <2>10
      <4>2. worker[w].token[i] >= 1 /\ worker[w].token[i] <= effect[<<o, i>>].attempts
          BY <1>1, <1>2, <2>10 DEF JobOK, Op
      <4>3. QED
          BY <4>1, <4>2
    <3>2. QED
        BY <1>1, <1>2, <2>8, <3>1 DEF JobOK, Op
  <2>12. \A p \in Ops, i \in Kinds, n \in Nat : Sends(j, p, i, n) => Sends(worker[w], p, i, n)
      BY <1>1, <1>2, <2>6, <2>8, <2>10 DEF Sends
  <2>13. QED
      BY <1>3, <1>4, <2>3, <2>8, <2>9, <2>11, <2>12, EffectStepKeeps
<1>7. CASE Go(w, "release") /\ UNCHANGED effect
  <2>1. PICK j \in Jobs : Puts(w, j) /\ j.pc = "release" /\ SameTask(j, worker[w])
      BY <1>1, <1>7, GoPuts DEF Pcs
  <2>2. JobOK(j)'
      BY <1>1, <2>1 DEF JobOK, SameTask
  <2>3. \A p \in Ops, i \in Kinds, n \in Nat : ~Sends(j, p, i, n)
      BY <2>1 DEF Sends
  <2>4. CancelledRowsClosed'
      BY <1>3, <1>7 DEF IInv, CancelledRowsClosed
  <2>5. \A e \in Effects : effect'[e].attempts >= effect[e].attempts
      BY <1>4, <1>7
  <2>6. QED
      BY <1>3, <1>4, <1>7, <2>1, <2>2, <2>3, <2>4, <2>5, EffectStepKeeps
<1>8. QED
    BY <1>2, <1>5, <1>6, <1>7 DEF Publish

(* releaseEffect gives back the effect in hand.                            *)
LEMMA ReleaseKeeps == ASSUME IInv, NEW w \in Workers, Release(w) PROVE IInv'
<1>1. /\ worker[w].msg \in Messages /\ worker \in [Workers -> Jobs] /\ TypeOK /\ worker[w] \in Jobs
      /\ Op(w) \in Ops /\ JobOK(worker[w]) /\ worker[w].pc = "release"
    BY Busy DEF Release, At
<1>2. PICK o \in Ops, k \in Kinds : o = Op(w) /\ k = worker[w].active
    BY <1>1 DEF JobOK
<1>3. /\ order' = order /\ shipment' = shipment /\ claim' = claim /\ sent' = sent /\ queue' = queue
      /\ faults' = faults /\ GiveUp(w) /\ UNCHANGED orders
    BY DEF Release, orders
<1>4. CASE effect' = effect
  <2>1. UNCHANGED <<orders, effect, sent>>
      BY <1>3, <1>4
  <2>2. QED
      BY <1>1, <1>3, <1>4, <2>1, GiveUpKeeps
<1>5. ASSUME NEW s \in {"queued", "failed"}, effect[<<o, k>>].status = "publishing",
             effect' = [effect EXCEPT ![<<o, k>>].live = FALSE, ![<<o, k>>].status = s]
      PROVE  IInv'
  <2>1. Marks(o, k, s)
      BY <1>1, <1>5, MarksRow
  <2>2. /\ effect' \in [Effects -> EffectRows]
        /\ \A e \in Effects : /\ effect'[e].attempts >= effect[e].attempts
                              /\ effect'[e].status = "none" => effect'[e].attempts = 0
                              /\ effect'[e].status = "published" => effect[e].status = "published" \/ sent[e] > 0
        /\ CancelledRowsClosed'
      BY <1>3, <1>5, <2>1, MarkedKeeps
  <2>3. PICK j \in Jobs : Puts(w, j) /\ j.pc = "mark" /\ j.msg = worker[w].msg
      BY <1>1, <1>3, GiveUpPuts
  <2>4. JobOK(j)'
      BY <1>1, <2>3 DEF JobOK
  <2>5. \A p \in Ops, i \in Kinds, n \in Nat : ~Sends(j, p, i, n)
      BY <2>3 DEF Sends
  <2>6. /\ order \in {"paid", "processing", "shipped", "cancelled"}
        /\ shipment \in {"none", "label_created", "cancelled"} /\ sent \in [Effects -> 0..MaxAttempts]
      BY <1>1, Typing
  <2>7. QED
      BY <1>3, <2>2, <2>3, <2>4, <2>5, <2>6, EffectStepKeeps
<1>6. QED
    BY <1>2, <1>4, <1>5 DEF Release

-----------------------------------------------------------------------------
(* A lease that runs out changes no status and no counter.                 *)
LEMMA ExpireKeeps ==
  ASSUME IInv, UNCHANGED <<orders, sent, queue, worker, faults>>,
         claim' \in [Ops -> ClaimRows], effect' \in [Effects -> EffectRows],
         \A o \in Ops : claim'[o].status = claim[o].status /\ claim'[o].attempts = claim[o].attempts,
         \A e \in Effects : effect'[e].status = effect[e].status /\ effect'[e].attempts = effect[e].attempts
  PROVE  IInv'
<1>1. order' = order /\ shipment' = shipment /\ sent' = sent /\ queue' = queue /\ worker' = worker /\ faults' = faults
    BY DEF orders
<1>2. TypeOK /\ worker \in [Workers -> Jobs]
    BY Typing DEF IInv
<1>3. TypeOK'
    BY <1>1, <1>2 DEF TypeOK, ClaimRows, EffectRows
<1>4. Advances
  <2>1. \A e \in Effects : effect[e].attempts \in Nat /\ sent[e] \in Nat
      BY <1>2 DEF TypeOK, Rows
  <2>2. QED
      BY <1>1, <2>1 DEF Advances
<1>5. JobsOK'
  <2> SUFFICES ASSUME NEW w \in Workers PROVE JobOK(worker[w])'
      BY DEF JobsOK
  <2>1. PICK j \in Jobs : j = worker[w]
      BY <1>2
  <2>2. JobOK(j)'
      BY <1>2, <1>3, <1>4, <2>1, JobStays DEF IInv, JobsOK
  <2>3. QED
      BY <1>1, <2>1, <2>2, Zenon DEF JobOK
<1>6. RowsOK' /\ TokensDistinct'
  <2>1. RowsOK'
      BY <1>1 DEF IInv, RowsOK
  <2>2. TokensDistinct'
      BY <1>1 DEF IInv, TokensDistinct, Sends
  <2>3. QED
      BY <2>1, <2>2
<1>7. SentIsSpent'
  <2> SUFFICES ASSUME NEW o \in Ops, NEW k \in Kinds
               PROVE  sent'[<<o, k>>] <= Cardinality(SpentTokens(o, k)')
      BY DEF SentIsSpent
  <2>1. <<o, k>> \in Effects
      BY DEF Effects
  <2>2. SpentTokens(o, k)' = SpentTokens(o, k)
      BY <1>1, <2>1 DEF SpentTokens, Sends
  <2>3. QED
      BY <1>1, <2>2 DEF IInv, SentIsSpent
<1>8. AckedWasHandled'
    BY <1>1 DEF IInv, AckedWasHandled
<1>9. CancelledRowsClosed'
  <2>1. \A k \in Kinds : <<"fulfillment", k>> \in Effects
      BY DEF Effects, Ops
  <2>2. QED
      BY <1>1, <2>1 DEF IInv, CancelledRowsClosed
<1>10. QED
    BY <1>3, <1>5, <1>6, <1>7, <1>8, <1>9 DEF IInv

(* The lease of a claim runs out.                                          *)
LEMMA ExpireClaimKeeps == ASSUME IInv, NEW o \in Ops, ExpireClaim(o) PROVE IInv'
<1>1. claim \in [Ops -> ClaimRows] /\ effect \in [Effects -> EffectRows]
    BY Typing DEF IInv
<1>2. PICK r \in ClaimRows : r = claim[o]
    BY <1>1
<1>3. claim' = [claim EXCEPT ![o] = [r EXCEPT !.live = FALSE]]
    BY <1>2 DEF ExpireClaim
<1>4. /\ [r EXCEPT !.live = FALSE] \in ClaimRows /\ [r EXCEPT !.live = FALSE].status = r.status
      /\ [r EXCEPT !.live = FALSE].attempts = r.attempts
    BY DEF ClaimRows, Rows
<1>5. /\ claim' \in [Ops -> ClaimRows]
      /\ \A p \in Ops : claim'[p].status = claim[p].status /\ claim'[p].attempts = claim[p].attempts
    BY <1>1, <1>2, <1>3, <1>4
<1>6. UNCHANGED <<orders, sent, queue, worker, faults>> /\ effect' = effect
    BY DEF ExpireClaim
<1>7. QED
    BY <1>1, <1>5, <1>6, ExpireKeeps

(* The lease of an effect runs out.                                        *)
LEMMA ExpireEffectKeeps == ASSUME IInv, NEW e \in Effects, ExpireEffect(e) PROVE IInv'
<1>1. claim \in [Ops -> ClaimRows] /\ effect \in [Effects -> EffectRows]
    BY Typing DEF IInv
<1>2. PICK r \in EffectRows : r = effect[e]
    BY <1>1
<1>3. effect' = [effect EXCEPT ![e] = [r EXCEPT !.live = FALSE]]
    BY <1>2 DEF ExpireEffect
<1>4. /\ [r EXCEPT !.live = FALSE] \in EffectRows /\ [r EXCEPT !.live = FALSE].status = r.status
      /\ [r EXCEPT !.live = FALSE].attempts = r.attempts
    BY DEF EffectRows, Rows
<1>5. /\ effect' \in [Effects -> EffectRows]
      /\ \A f \in Effects : effect'[f].status = effect[f].status /\ effect'[f].attempts = effect[f].attempts
    BY <1>1, <1>2, <1>3, <1>4
<1>6. UNCHANGED <<orders, sent, queue, worker, faults>> /\ claim' = claim
    BY DEF ExpireEffect
<1>7. QED
    BY <1>1, <1>5, <1>6, ExpireKeeps

-----------------------------------------------------------------------------
(* Every step of the threads, the broker and the clock keeps IInv.         *)
LEMMA NextIInv == IInv /\ [Next]_vars => IInv'
<1> SUFFICES ASSUME IInv, [Next]_vars PROVE IInv'
    OBVIOUS
<1>1. ASSUME NEW w \in Workers, NEW m \in Messages, Deliver(w, m) PROVE IInv'
    BY <1>1, DeliverKeeps
<1>2. ASSUME NEW w \in Workers, WorkerStep(w) PROVE IInv'
  <2>1. ASSUME NEW k \in Kinds, Validate(w, k) PROVE IInv'
      BY <2>1, ValidateKeeps
  <2>2. QED
      BY <1>2, <2>1, ClaimKeeps, ClaimExhaustedKeeps, ClaimRefusedKeeps, ProcessKeeps, ClaimEffectsKeeps,
         DispatchKeeps, PublishKeeps, CompleteKeeps, AckKeeps, ReleaseKeeps, MarkFailedKeeps DEF WorkerStep
<1>3. ASSUME NEW w \in Workers, Crash(w) PROVE IInv'
    BY <1>3, CrashKeeps
<1>4. ASSUME NEW o \in Ops, ExpireClaim(o) PROVE IInv'
    BY <1>4, ExpireClaimKeeps
<1>5. ASSUME NEW e \in Effects, ExpireEffect(e) PROVE IInv'
    BY <1>5, ExpireEffectKeeps
<1>6. CASE UNCHANGED vars
  <2>1. /\ UNCHANGED <<orders, sent, queue, worker, faults>> /\ claim' = claim /\ effect' = effect
        /\ claim \in [Ops -> ClaimRows] /\ effect \in [Effects -> EffectRows]
      BY <1>6, Typing DEF vars, orders, IInv
  <2>2. QED
      BY <2>1, ExpireKeeps
<1>7. QED
    BY <1>1, <1>2, <1>3, <1>4, <1>5, <1>6 DEF Next, Finished

(* IInv holds in every reachable state of the consumer.                    *)
LEMMA IInvHolds == Spec => []IInv
BY InitIInv, NextIInv, PTL DEF Spec

(* The order, the claims, the effects and the threads keep their types: no *)
(* claim and no effect is taken more than MAX_CLAIM_ATTEMPTS times, and no *)
(* effect is sent more often than that.                                    *)
THEOREM TypeCorrect == Spec => []TypeOK
BY IInvHolds, PTL DEF IInv

(* A delivery that onOrder acknowledges has been handled: its operation is *)
(* completed, by this or another delivery, whatever thread died between.   *)
THEOREM AckedMeansHandled == Spec => []AckedWasHandled
BY IInvHolds, PTL DEF IInv

(* The rows of a cancelled order are closed: it has no label, and no       *)
(* fulfillment effect waits for a claim or for its publication, whichever  *)
(* of the two events cancelOrder met first.                                *)
THEOREM CancelledOrdersAreClosed == Spec => []CancelledRowsClosed
BY IInvHolds, PTL DEF IInv

(* The downstream services receive an effect at most once per claim of it, *)
(* and publishEffect marks only what was sent.                             *)
THEOREM EffectCopiesBounded == Spec => []CopiesBounded
<1>1. IInv => CopiesBounded
  <2> SUFFICES ASSUME IInv, NEW e \in Effects
               PROVE  /\ sent[e] <= effect[e].attempts
                      /\ effect[e].status = "published" => sent[e] > 0
      BY DEF CopiesBounded
  <2>1. PICK o \in Ops, k \in Kinds : e = <<o, k>>
      BY DEF Effects
  <2>2. effect[e].attempts \in Nat /\ sent[e] \in Nat
      BY DEF IInv, TypeOK, Rows
  <2>3. sent[e] <= Cardinality(SpentTokens(o, k))
      BY <2>1 DEF IInv, SentIsSpent
  <2>4. Cardinality(SpentTokens(o, k)) \in Nat /\ Cardinality(SpentTokens(o, k)) <= effect[e].attempts
      BY <2>1, <2>2, SpentFinite
  <2>5. QED
      BY <2>2, <2>3, <2>4 DEF IInv, RowsOK
<1>2. QED
    BY <1>1, IInvHolds, PTL

(* A thread that reaches dispatch has passed validateEffectClaim, which    *)
(* refuses every fulfillment effect of a cancelled order.                  *)
LEMMA NoLateDispatch ==
  ASSUME IInv, Next, order = "cancelled", NEW w \in Workers, MaySend(w)'
  PROVE  MaySend(w)
<1>0. /\ worker \in [Workers -> Jobs] /\ worker'[w].pc = "dispatch"
      /\ OpOf[worker'[w].msg] = "fulfillment"
    BY Typing DEF IInv, MaySend, At, Op
<1>1. ASSUME NEW v \in Workers, NEW k \in Kinds, Validate(v, k) PROVE MaySend(w)
  <2>1. CASE v # w
      BY <1>0, <1>1, <2>1 DEF Validate, MaySend, At, Op
  <2>2. CASE v = w
    <3>1. worker'[w].msg = worker[w].msg
        BY <1>0, <1>1, <2>2 DEF Validate, Jobs
    <3>2. ~EffectHeld(w, k)
        BY <1>0, <3>1 DEF EffectHeld, OpenFor, Op
    <3>3. worker'[w].pc = "release"
        BY <1>0, <1>1, <2>2, <3>2 DEF Validate, Jobs
    <3>4. QED
        BY <1>0, <3>3
  <2>3. QED
      BY <2>1, <2>2
<1>2. ASSUME NEW v \in Workers, NEW j, worker' = [worker EXCEPT ![v] = j], j.pc # "dispatch"
      PROVE  MaySend(w)
  <2>1. v # w
      BY <1>0, <1>2
  <2>2. QED
      BY <1>0, <1>2, <2>1 DEF MaySend, At, Op
<1>3. ASSUME NEW v \in Workers, NEW q \in Pcs \ {"dispatch"}, Go(v, q) PROVE MaySend(w)
  <2>1. PICK j \in Jobs : Puts(v, j) /\ j.pc = q
      BY <1>0, <1>3, GoPuts
  <2>2. QED
      BY <1>2, <2>1 DEF Puts
<1>4. ASSUME NEW v \in Workers, GiveUp(v) PROVE MaySend(w)
  <2>1. PICK j \in Jobs : Puts(v, j) /\ j.pc = "mark"
      BY <1>0, <1>4, GiveUpPuts
  <2>2. QED
      BY <1>2, <2>1 DEF Puts
<1>5. ASSUME NEW v \in Workers, NEW out, Settle(v, out) PROVE MaySend(w)
    BY <1>2, <1>5, IdleJob DEF Settle
<1>6. CASE worker' = worker
    BY <1>0, <1>6 DEF MaySend, At, Op
<1>7. ASSUME NEW v \in Workers, NEW m \in Messages, Deliver(v, m) PROVE MaySend(w)
  <2>1. PICK j : j = [Idle EXCEPT !.pc = "claim", !.msg = m]
      OBVIOUS
  <2>2. j.pc = "claim"
      BY <2>1 DEF Idle
  <2>3. worker' = [worker EXCEPT ![v] = j]
      BY <1>7, <2>1 DEF Deliver
  <2>4. QED
      BY <1>2, <2>2, <2>3
<1>8. ASSUME NEW v \in Workers, Claim(v) \/ Publish(v) \/ ClaimEffects(v) \/ Process(v) \/ MarkFailed(v)
      PROVE  MaySend(w)
  <2>0. worker[v] \in Jobs
      BY <1>0
  <2>1. CASE Claim(v)
      BY <1>0, <2>0, <2>1 DEF Claim, MaySend, At, Op, Jobs
  <2>2. CASE Publish(v)
    <3>1. CASE Go(v, "release")
        BY <1>3, <3>1 DEF Pcs
    <3>2. CASE ~Go(v, "release")
      <4>1. v = w => worker'[w].pc \in {"complete", "validate"}
          BY <1>0, <2>0, <2>2, <3>2 DEF Publish, Jobs
      <4>2. v # w => worker'[w] = worker[w]
          BY <1>0, <2>2, <3>2 DEF Publish
      <4>3. QED
          BY <1>0, <4>1, <4>2 DEF MaySend, At, Op
    <3>3. QED
        BY <3>1, <3>2
  <2>3. CASE ClaimEffects(v)
    <3>1. CASE GiveUp(v)
        BY <1>4, <3>1
    <3>2. CASE ~GiveUp(v)
      <4>1. v = w => worker'[w].pc \in {"complete", "validate"}
        <5>1. PICK due, tok : worker' = [worker EXCEPT ![v].batch = due, ![v].token = tok,
                                           ![v].pc = IF due = {} THEN "complete" ELSE "validate"]
            BY <2>3, <3>2 DEF ClaimEffects
        <5>2. QED
            BY <1>0, <2>0, <5>1 DEF Jobs
      <4>2. v # w => worker'[w] = worker[w]
          BY <1>0, <2>3, <3>2 DEF ClaimEffects
      <4>3. QED
          BY <1>0, <4>1, <4>2 DEF MaySend, At, Op
    <3>3. QED
        BY <3>1, <3>2
  <2>4. CASE Process(v)
    <3>1. CASE worker' = [worker EXCEPT ![v].pc = "mark", ![v].permanent = TRUE]
        BY <1>0, <2>0, <3>1 DEF MaySend, At, Op, Jobs
    <3>2. QED
        BY <1>3, <1>4, <2>4, <3>1 DEF Process, Pcs
  <2>5. CASE MarkFailed(v)
    <3>1. CASE \E out : Settle(v, out)
        BY <1>5, <3>1
    <3>2. CASE worker' = [worker EXCEPT ![v] = [Idle EXCEPT !.pc = "claim",
                            !.msg = worker[v].msg, !.tries = worker[v].tries + 1]]
      <4>1. PICK j : j = [Idle EXCEPT !.pc = "claim", !.msg = worker[v].msg, !.tries = worker[v].tries + 1]
          OBVIOUS
      <4>2. j.pc = "claim"
          BY <4>1 DEF Idle
      <4>3. worker' = [worker EXCEPT ![v] = j]
          BY <3>2, <4>1
      <4>4. QED
          BY <1>2, <4>2, <4>3
    <3>3. QED
        BY <2>5, <3>1, <3>2 DEF MarkFailed
  <2>6. QED
      BY <1>8, <2>1, <2>2, <2>3, <2>4, <2>5
<1>9. ASSUME NEW v \in Workers, ClaimExhausted(v) \/ ClaimRefused(v) \/ Ack(v) \/ Crash(v) PROVE MaySend(w)
    BY <1>5, <1>9 DEF ClaimExhausted, ClaimRefused, Ack, Crash
<1>10. ASSUME NEW v \in Workers, Dispatch(v) \/ Complete(v) \/ Release(v) PROVE MaySend(w)
    BY <1>3, <1>4, <1>10 DEF Dispatch, Complete, Release, Pcs
<1>11. CASE (\E o \in Ops : ExpireClaim(o)) \/ (\E e \in Effects : ExpireEffect(e)) \/ Finished
    BY <1>6, <1>11 DEF ExpireClaim, ExpireEffect, Finished, vars
<1>12. QED
    BY <1>1, <1>7, <1>8, <1>9, <1>10, <1>11 DEF Next, WorkerStep

(* Cancellation is final: no late event revives the order, no thread that  *)
(* cancelOrder overtook moves a fulfillment effect afterwards, and none    *)
(* that had not passed validateEffectClaim sends one.                      *)
THEOREM CancellationStands == Spec => CancellationIsFinal
<1> DEFINE Stands == order = "cancelled" =>
                       /\ order' = "cancelled"
                       /\ \A k \in Kinds :
                            LET e == <<"fulfillment", k>>
                            IN  effect'[e].status = effect[e].status
                       /\ \A w \in Workers : MaySend(w)' => MaySend(w)
<1>1. IInv /\ [Next]_vars => [Stands]_vars
  <2> SUFFICES ASSUME IInv, Next, order = "cancelled", NEW k \in Kinds
               PROVE  /\ order' = "cancelled"
                      /\ effect'[<<"fulfillment", k>>].status = effect[<<"fulfillment", k>>].status
      BY NoLateDispatch DEF Kinds
  <2>1. PICK e \in Effects : e = <<"fulfillment", k>> /\ e[1] = "fulfillment" /\ e[2] = k
    <3>1. <<"fulfillment", k>> \in Effects
        BY DEF Effects, Ops
    <3>2. QED
        BY <3>1
  <2>2. effect[e].status \in {"none", "published", "cancelled"} /\ effect \in [Effects -> EffectRows]
      BY <2>1, Typing DEF IInv, CancelledRowsClosed
  <2>3. ASSUME NEW w \in Workers, ClaimEffects(w) PROVE order' = order /\ effect'[e].status = effect[e].status
    <3>1. order' = order
        BY <2>3 DEF ClaimEffects, orders
    <3>2. Op(w) = "fulfillment" => ~OpenFor(Op(w))
        BY DEF OpenFor
    <3>3. effect'[e] = effect[e]
        BY <2>1, <2>3, <3>2 DEF ClaimEffects
    <3>4. QED
        BY <3>1, <3>3
  <2>4. ASSUME NEW w \in Workers, Publish(w) PROVE order' = order /\ effect'[e].status = effect[e].status
    <3>1. /\ JobOK(worker[w]) /\ worker[w].pc = "publish" /\ Op(w) \in Ops /\ worker[w].active \in Kinds
      <4>1. worker[w].pc = "publish"
          BY <2>4 DEF Publish, At
      <4>2. QED
          BY <4>1, Busy DEF JobOK
    <3>2. PICK f \in Effects : f = <<Op(w), worker[w].active>>
        BY <3>1 DEF Effects
    <3>3. CASE /\ CanPublish(w)
               /\ effect' = [effect EXCEPT ![f].status = "published", ![f].live = FALSE]
      <4>1. effect[f].status = "publishing"
          BY <3>2, <3>3 DEF CanPublish, EffectHeld
      <4>2. f # e
          BY <2>2, <4>1
      <4>3. QED
          BY <2>2, <2>4, <3>3, <4>2 DEF Publish, orders
    <3>4. CASE UNCHANGED effect
        BY <2>4, <3>4 DEF Publish, orders
    <3>5. QED
        BY <2>4, <3>2, <3>3, <3>4 DEF Publish
  <2>5. ASSUME NEW w \in Workers, Release(w) PROVE order' = order /\ effect'[e].status = effect[e].status
    <3>1. PICK f : f = <<Op(w), worker[w].active>>
        OBVIOUS
    <3>2. CASE effect[f].status = "publishing"
        BY <2>2, <2>5, <3>1, <3>2 DEF Release, orders
    <3>3. CASE effect[f].status # "publishing"
        BY <2>5, <3>1, <3>3 DEF Release, orders
    <3>4. QED
        BY <3>2, <3>3
  <2>6. ASSUME NEW w \in Workers, Process(w) PROVE order' = order /\ effect'[e].status = effect[e].status
    <3>1. Op(w) \in Ops
        BY <2>6, Busy DEF Process, At
    <3>2. Apply(Op(w)) => UNCHANGED <<orders, effect>>
        BY <3>1 DEF Apply, Fulfillable, Ops
    <3>3. QED
        BY <2>6, <3>2 DEF Process, orders
  <2>7. ASSUME NEW f \in Effects, ExpireEffect(f) PROVE order' = order /\ effect'[e].status = effect[e].status
      BY <2>2, <2>7 DEF ExpireEffect, orders
  <2>8. ASSUME NEW w \in Workers, (\E i \in Kinds : Validate(w, i)) \/ (\E m \in Messages : Deliver(w, m))
        PROVE  order' = order /\ effect'[e].status = effect[e].status
      BY <2>8 DEF Validate, Deliver, orders
  <2>9. ASSUME NEW w \in Workers, \/ Claim(w) \/ ClaimExhausted(w) \/ ClaimRefused(w) \/ Dispatch(w)
                                  \/ Complete(w) \/ Ack(w) \/ MarkFailed(w) \/ Crash(w)
        PROVE  order' = order /\ effect'[e].status = effect[e].status
      BY <2>9 DEF Claim, ClaimExhausted, ClaimRefused, Dispatch, Complete, Ack, MarkFailed, Crash, orders
  <2>10. ASSUME NEW o \in Ops, ExpireClaim(o) PROVE order' = order /\ effect'[e].status = effect[e].status
      BY <2>10 DEF ExpireClaim, orders
  <2>11. CASE Finished
      BY <2>11 DEF Finished, vars
  <2>12. QED
      BY <2>1, <2>3, <2>4, <2>5, <2>6, <2>7, <2>8, <2>9, <2>10, <2>11 DEF Next, WorkerStep
<1>2. QED
    BY <1>1, IInvHolds, PTL DEF Spec, CancellationIsFinal
=============================================================================
