------------------------- MODULE OrdersInboxProofs --------------------------
(***************************************************************************)
(* Proofs about the orders consumer and its inbox for every set of events, *)
(* any number of consumers, any budget and any number of faults.           *)
(***************************************************************************)
EXTENDS OrdersInbox, FiniteSetTheorems, TLAPS

USE OrdersAssumption

Jobs == [pc : {"idle"} \cup Steps, msg : Messages \cup {NoMessage}, claim : Nat]
Rows == [status : {"none", "processing", "retry_scheduled", "completed", "dead_lettered"},
         attempts : Nat, live : BOOLEAN]

(* What a consumer that goes to acknowledge a message has seen: the event  *)
(* is at its end, or the row is past the message.                          *)
Settled(m) ==
    IF m.event \in Malformed THEN dead[m.event] > 0
    ELSE \/ row[m.event].status \in {"completed", "dead_lettered"}
         \/ m.attempt <= row[m.event].attempts

\* The steps under a claim.
UnderClaim == {"work", "retry_scheduled", "dead_lettered", "completed", "release"}

(* What a consumer's step says of the row, the queues and the outcome.     *)
JobOK(j) ==
    /\ j.pc = "idle" => j.msg = NoMessage /\ j.claim = 0
    /\ j.pc # "idle" =>
         /\ j.msg \in queue
         /\ j.claim <= row[j.msg.event].attempts
    /\ j.pc \in {"claim", "malformed"} => j.claim = 0
    /\ j.pc = "malformed" => j.msg.event \in Malformed
    /\ j.pc \in {"claim"} \cup UnderClaim => j.msg.event \notin Malformed
    /\ j.pc \in UnderClaim => j.claim >= 1 /\ j.msg.attempt <= j.claim
    /\ j.pc = "ack" => Settled(j.msg)
    /\ j.pc = "dead_lettered" => dead[j.msg.event] > 0
    /\ j.pc = "completed" => j.msg.event \notin Poison /\ emitted[j.msg.event] > 0
    /\ /\ j.pc = "retry_scheduled"
       /\ row[j.msg.event].status = "processing"
       /\ row[j.msg.event].attempts = j.claim
       => \E m \in queue : m.event = j.msg.event /\ m.attempt > j.claim
JobsOK == \A c \in Consumers : JobOK(consumer[c])

OneHolder ==
    \A c, d \in Consumers :
      consumer[c].pc # "idle" /\ consumer[c].msg = consumer[d].msg => c = d

RowOK(e) ==
    /\ row[e].status = "none" => row[e].attempts = 0
    /\ e \in Malformed \/ e \notin published => row[e].status = "none"
RowsOK == \A e \in Events : RowOK(e)
QueuePublished == \A m \in queue : m.event \in published

\* A message of the queue that nobody is about to acknowledge.
Kept(m) == m \in queue /\ \A c \in Consumers : consumer[c].pc = "ack" => consumer[c].msg # m

(* NothingLost, and the message an open event is left with is not the one  *)
(* that a consumer is about to take off the queue.                         *)
Backed(e) ==
    CASE row[e].status = "retry_scheduled" ->
           \E m \in queue : m.event = e /\ m.attempt > row[e].attempts
      [] row[e].status = "dead_lettered" -> dead[e] > 0
      [] row[e].status = "completed" -> e \notin Poison /\ emitted[e] > 0
      [] OTHER -> dead[e] > 0 \/ \E m \in queue : m.event = e /\ Kept(m)
AllBacked == \A e \in published : Backed(e)

\* The claims within the budget that are past the point where they consume.
Works(c, e, n) == consumer[c].pc = "work" /\ consumer[c].msg.event = e /\ consumer[c].claim = n
Spent(e) ==
    {n \in 1..MaxAttempts : n <= row[e].attempts /\ \A c \in Consumers : ~Works(c, e, n)}
EmittedIsSpent == \A e \in Events : emitted[e] <= Cardinality(Spent(e))

IInv ==
    /\ TypeOK
    /\ JobsOK
    /\ OneHolder
    /\ RowsOK
    /\ QueuePublished
    /\ AllBacked
    /\ ClaimsDistinct
    /\ EmittedIsSpent

(* No event is published and no consumer has a message.                    *)
LEMMA InitIInv == Init => IInv
<1> SUFFICES ASSUME Init PROVE IInv
    OBVIOUS
<1>1. TypeOK
    BY DEF Init, TypeOK, NoRow, Idle, NoMessage
<1>2. JobsOK /\ OneHolder /\ RowsOK /\ QueuePublished /\ AllBacked /\ ClaimsDistinct
    BY DEF Init, JobsOK, JobOK, UnderClaim, OneHolder, RowsOK, RowOK, QueuePublished, AllBacked,
           ClaimsDistinct, Idle, NoRow
<1>3. EmittedIsSpent
  <2> SUFFICES ASSUME NEW e \in Events PROVE emitted[e] <= Cardinality(Spent(e))
      BY DEF EmittedIsSpent
  <2>1. Spent(e) = {}
      BY DEF Init, Spent, NoRow
  <2>2. Cardinality(Spent(e)) = 0 /\ emitted[e] = 0
      BY <2>1, FS_EmptySet DEF Init
  <2>3. QED
      BY <2>2
<1>4. QED
    BY <1>1, <1>2, <1>3 DEF IInv

-----------------------------------------------------------------------------
\* The consumer c is afterwards at pc with this message and claim; the others are as before.
Sets(c, pc, msg, claim) ==
    /\ consumer' \in [Consumers -> Jobs]
    /\ consumer'[c].pc = pc /\ consumer'[c].msg = msg /\ consumer'[c].claim = claim
    /\ \A d \in Consumers \ {c} : consumer'[d] = consumer[d]

(* A consumer that goes on keeps its message and its claim.                *)
LEMMA GotoSets ==
  ASSUME NEW c \in Consumers, NEW pc \in Steps, consumer \in [Consumers -> Jobs], Goto(c, pc)
  PROVE  Sets(c, pc, consumer[c].msg, consumer[c].claim)
<1>1. consumer[c] \in Jobs
    OBVIOUS
<1>2. /\ [consumer[c] EXCEPT !.pc = pc] \in Jobs
      /\ [consumer[c] EXCEPT !.pc = pc].pc = pc
      /\ [consumer[c] EXCEPT !.pc = pc].msg = consumer[c].msg
      /\ [consumer[c] EXCEPT !.pc = pc].claim = consumer[c].claim
    BY <1>1 DEF Jobs
<1>3. consumer' = [consumer EXCEPT ![c] = [consumer[c] EXCEPT !.pc = pc]]
    BY DEF Goto
<1>4. QED
    BY <1>2, <1>3 DEF Sets

(* A consumer that reconnects forgets both.                                *)
LEMMA ReconnectSets ==
  ASSUME NEW c \in Consumers, consumer \in [Consumers -> Jobs], Reconnect(c)
  PROVE  Sets(c, "idle", NoMessage, 0)
BY DEF Reconnect, Idle, Jobs, Sets

(* The spent claims are finitely many, at most the budget and at most the  *)
(* claims made.                                                            *)
LEMMA SpentFinite ==
  ASSUME NEW e \in Events, row[e].attempts \in Nat
  PROVE  /\ IsFiniteSet(Spent(e)) /\ Cardinality(Spent(e)) \in Nat
         /\ Cardinality(Spent(e)) <= MaxAttempts
         /\ Cardinality(Spent(e)) <= row[e].attempts
<1>0. ASSUME NEW n \in Nat PROVE IsFiniteSet(1..n) /\ Cardinality(1..n) = n
  <2>1. 1 \in Int /\ n \in Int
      OBVIOUS
  <2>2. IsFiniteSet(1..n) /\ Cardinality(1..n) = IF 1 > n THEN 0 ELSE n - 1 + 1
      BY <2>1, FS_Interval, Zenon
  <2>3. QED
      BY <2>2
<1>1. Spent(e) \subseteq 1..MaxAttempts /\ Spent(e) \subseteq 1..row[e].attempts
    BY DEF Spent
<1>2. MaxAttempts \in Nat
    OBVIOUS
<1>3. /\ IsFiniteSet(1..MaxAttempts) /\ Cardinality(1..MaxAttempts) = MaxAttempts
      /\ IsFiniteSet(1..row[e].attempts) /\ Cardinality(1..row[e].attempts) = row[e].attempts
    BY <1>0, <1>2
<1>4. IsFiniteSet(Spent(e)) /\ Cardinality(Spent(e)) <= Cardinality(1..MaxAttempts)
    BY <1>1, <1>3, FS_Subset
<1>5. Cardinality(Spent(e)) <= Cardinality(1..row[e].attempts)
    BY <1>1, <1>3, FS_Subset
<1>6. QED
    BY <1>3, <1>4, <1>5, FS_CardinalityType

\* The row of e is after the step at least where it was.
Advances(e) ==
    /\ row'[e].attempts >= row[e].attempts
    /\ row[e].status \in {"completed", "dead_lettered"} => row'[e].status = row[e].status
    /\ row'[e].status = "processing" /\ row'[e].attempts = row[e].attempts
         => row[e].status = "processing"

(* A consumer that does not move is still where its step says, as long as  *)
(* rows advance, nothing dead-lettered or consumed is taken back, and only *)
(* settled messages leave the queue.                                       *)
LEMMA JobStays ==
  ASSUME TypeOK, NEW j \in Jobs, JobOK(j),
         \A e \in Events : /\ Advances(e) /\ row'[e].attempts \in Nat
                           /\ dead'[e] \in Nat /\ dead'[e] >= dead[e]
                           /\ emitted'[e] \in Nat /\ emitted'[e] >= emitted[e],
         \A m \in queue \ queue' : m # j.msg /\ (m.event \in Malformed \/ Settled(m))
  PROVE  JobOK(j)'
<1>1. CASE j.pc = "idle"
    BY <1>1 DEF JobOK, UnderClaim
<1>2. CASE j.pc # "idle"
  <2>1. PICK e \in Events : e = j.msg.event /\ j.msg \in queue /\ j.msg.attempt \in Nat
      BY <1>2 DEF JobOK, TypeOK, Messages
  <2>2. /\ row[e].attempts \in Nat /\ row'[e].attempts \in Nat /\ j.claim \in Nat
        /\ dead[e] \in Nat /\ emitted[e] \in Nat
      BY <2>1 DEF TypeOK, Jobs
  <2>3. j.msg \in queue' /\ j.claim <= row'[e].attempts
      BY <1>2, <2>1, <2>2 DEF JobOK, Advances
  <2>4. Settled(j.msg) => Settled(j.msg)'
      BY <2>1, <2>2 DEF Settled, Advances
  <2>5. (dead[e] > 0 => dead'[e] > 0) /\ (emitted[e] > 0 => emitted'[e] > 0)
      BY <2>2
  <2>6. ASSUME j.pc = "retry_scheduled", row'[e].status = "processing", row'[e].attempts = j.claim
        PROVE  \E m \in queue' : m.event = e /\ m.attempt > j.claim
    <3>1. row[e].attempts = j.claim /\ row[e].status = "processing"
        BY <1>2, <2>1, <2>2, <2>6 DEF JobOK, Advances
    <3>2. PICK m \in queue : m.event = e /\ m.attempt > j.claim
        BY <2>1, <2>6, <3>1 DEF JobOK
    <3>3. e \notin Malformed
        BY <2>1, <2>6 DEF JobOK, UnderClaim
    <3>4. m.attempt \in Nat
        BY DEF TypeOK, Messages
    <3>5. ~Settled(m)
        BY <2>2, <3>1, <3>2, <3>3, <3>4 DEF Settled
    <3>6. QED
        BY <3>2, <3>3, <3>5
  <2>7. QED
      BY <1>2, <2>1, <2>3, <2>4, <2>5, <2>6 DEF JobOK
<1>3. QED
    BY <1>1, <1>2

(* The spent claims of an event grow when its row advances and nobody goes *)
(* back to work under an old claim.                                        *)
LEMMA SpentGrows ==
  ASSUME NEW e \in Events, row[e].attempts \in Nat, row'[e].attempts \in Nat,
         row'[e].attempts >= row[e].attempts,
         \A d \in Consumers, n \in Nat : Works(d, e, n)' => Works(d, e, n) \/ n > row[e].attempts
  PROVE  /\ Spent(e) \subseteq Spent(e)'
         /\ IsFiniteSet(Spent(e)') /\ Cardinality(Spent(e)') \in Nat
         /\ Cardinality(Spent(e)) <= Cardinality(Spent(e)')
<1>1. Spent(e) \subseteq Spent(e)'
    BY DEF Spent
<1>2. IsFiniteSet(1..MaxAttempts)
  <2>1. 1 \in Int /\ MaxAttempts \in Int
      OBVIOUS
  <2>2. QED
      BY <2>1, FS_Interval, Zenon
<1>3. Spent(e)' \subseteq 1..MaxAttempts
    BY DEF Spent
<1>4. IsFiniteSet(Spent(e)')
    BY <1>2, <1>3, FS_Subset
<1>5. QED
    BY <1>1, <1>4, FS_Subset, FS_CardinalityType

\* The messages a step takes off the queue: at most the one c holds, acknowledged
\* or, when it is malformed, dead-lettered.
Removes(c) ==
    \A m \in queue \ queue' :
      /\ m = consumer[c].msg /\ consumer[c].pc # "idle" /\ consumer'[c].pc = "idle"
      /\ consumer[c].pc = "ack" \/ (m.event \in Malformed /\ dead'[m.event] > 0)

\* What c may acknowledge: the event is at its end, or waits for a later message.
MayAck(m) ==
    \/ row[m.event].status \in {"completed", "dead_lettered"}
    \/ row[m.event].status = "retry_scheduled" /\ m.attempt <= row[m.event].attempts
    \/ dead'[m.event] > 0

(* A consumer that moves on or reconnects, without a change of status or   *)
(* attempts of any row, keeps the invariant.                               *)
LEMMA StepKeeps ==
  ASSUME IInv, TypeOK', published' = published, NEW c \in Consumers, NEW pc, NEW msg, NEW claim,
         Sets(c, pc, msg, claim),
         \A e \in Events : /\ row'[e].status = row[e].status /\ row'[e].attempts = row[e].attempts
                           /\ dead'[e] >= dead[e] /\ emitted'[e] >= emitted[e],
         \A m \in queue' \ queue : m.event \in published,
         Removes(c),
         pc # "idle" => consumer[c].pc # "idle" /\ msg = consumer[c].msg,
         claim \in {0, consumer[c].claim},
         claim # 0 => msg = consumer[c].msg,
         JobOK(consumer[c])',
         pc = "ack" => MayAck(msg),
         EmittedIsSpent'
  PROVE  IInv'
<1>0. /\ queue \subseteq Messages /\ queue' \subseteq Messages /\ consumer \in [Consumers -> Jobs]
      /\ published \subseteq Events
      /\ \A e \in Events : /\ row[e].attempts \in Nat /\ row'[e].attempts \in Nat
                           /\ dead[e] \in Nat /\ dead'[e] \in Nat
                           /\ emitted[e] \in Nat /\ emitted'[e] \in Nat
    BY DEF IInv, TypeOK, Jobs
<1>1. /\ consumer'[c].pc = pc /\ consumer'[c].msg = msg /\ consumer'[c].claim = claim
      /\ \A d \in Consumers \ {c} : consumer'[d] = consumer[d]
    BY DEF Sets
<1>2. \A d \in Consumers : JobOK(consumer[d])
    BY DEF IInv, JobsOK
<1>3. \A m \in queue \ queue' : m.event \in Malformed \/ Settled(m)
  <2> SUFFICES ASSUME NEW m \in queue \ queue', m.event \notin Malformed PROVE Settled(m)
      OBVIOUS
  <2>1. consumer[c].pc = "ack" /\ m = consumer[c].msg
      BY DEF Removes
  <2>2. QED
      BY <1>2, <2>1 DEF JobOK
<1>4. JobsOK'
  <2> SUFFICES ASSUME NEW d \in Consumers PROVE JobOK(consumer[d])'
      BY DEF JobsOK
  <2>1. CASE d = c
      BY <2>1
  <2>2. CASE d # c
    <3>1. consumer[d] \in Jobs /\ consumer'[d] = consumer[d]
        BY <1>0, <1>1, <2>2
    <3>2. \A m \in queue \ queue' : m # consumer[d].msg
        BY <2>2 DEF Removes, IInv, OneHolder
    <3>3. \A e \in Events : Advances(e)
        BY <1>0 DEF Advances
    <3>4. TypeOK
        BY DEF IInv
    <3>5. PICK j \in Jobs : j = consumer[d]
        BY <3>1
    <3>6. JobOK(j)
        BY <1>2, <3>5
    <3>7. \A m \in queue \ queue' : m # j.msg /\ (m.event \in Malformed \/ Settled(m))
        BY <1>3, <3>2, <3>5
    <3>8. JobOK(j)'
        BY <1>0, <3>3, <3>4, <3>6, <3>7, JobStays
    <3>9. consumer'[d] = j
        BY <3>1, <3>5
    <3>10. QED
        BY <3>8, <3>9, Zenon DEF JobOK, Settled
  <2>3. QED
      BY <2>1, <2>2
<1>5. OneHolder'
  <2> SUFFICES ASSUME NEW d \in Consumers, NEW f \in Consumers, consumer'[d].pc # "idle",
                      consumer'[d].msg = consumer'[f].msg
               PROVE  d = f
      BY DEF OneHolder
  <2>1. \A g \in Consumers : consumer'[g].pc # "idle" =>
           consumer[g].pc # "idle" /\ consumer'[g].msg = consumer[g].msg
      BY <1>1
  <2>2. consumer'[f].pc # "idle"
    <3>1. consumer'[d].msg \in Messages
        BY <1>0, <1>4 DEF JobsOK, JobOK
    <3>2. consumer'[f].pc = "idle" => consumer'[f].msg = NoMessage
        BY <1>4 DEF JobsOK, JobOK
    <3>3. NoMessage \notin Messages
        BY DEF NoMessage, Messages
    <3>4. QED
        BY <3>1, <3>2, <3>3
  <2>3. QED
      BY <2>1, <2>2 DEF IInv, OneHolder
<1>6. RowsOK' /\ QueuePublished'
    BY <1>0 DEF IInv, RowsOK, RowOK, QueuePublished
<1>7. AllBacked'
  <2> SUFFICES ASSUME NEW e \in published PROVE Backed(e)'
      BY DEF AllBacked
  <2>0. /\ Backed(e) /\ e \in Events
        /\ row'[e].status = row[e].status /\ row'[e].attempts = row[e].attempts
        /\ dead'[e] >= dead[e] /\ emitted'[e] >= emitted[e]
      BY <1>0 DEF IInv, AllBacked
  <2>1. CASE row[e].status = "retry_scheduled"
    <3>1. PICK m \in queue : m.event = e /\ m.attempt > row[e].attempts
        BY <2>0, <2>1 DEF Backed
    <3>2. e \notin Malformed /\ m.attempt \in Nat
        BY <1>0, <2>0, <2>1 DEF IInv, RowsOK, RowOK, Messages
    <3>3. ~Settled(m)
        BY <1>0, <2>0, <2>1, <3>1, <3>2 DEF Settled
    <3>4. m \in queue'
        BY <1>3, <3>1, <3>2, <3>3
    <3>5. QED
        BY <2>0, <2>1, <3>1, <3>4 DEF Backed
  <2>2. CASE row[e].status \in {"dead_lettered", "completed"}
      BY <1>0, <2>0, <2>2 DEF Backed
  <2>3. CASE row[e].status \notin {"retry_scheduled", "dead_lettered", "completed"}
    <3>1. dead[e] > 0 \/ \E m \in queue : m.event = e /\ Kept(m)
        BY <2>0, <2>3 DEF Backed
    <3>2. CASE dead'[e] > 0
        BY <2>0, <2>3, <3>2 DEF Backed
    <3>3. CASE ~(dead'[e] > 0)
      <4>1. PICK m \in queue : m.event = e /\ Kept(m)
          BY <1>0, <2>0, <3>1, <3>3
      <4>2. m \in queue'
          BY <3>3, <4>1 DEF Removes, Kept
      <4>3. Kept(m)'
        <5> SUFFICES ASSUME NEW d \in Consumers, consumer'[d].pc = "ack", consumer'[d].msg = m
                     PROVE  FALSE
            BY <4>2 DEF Kept
        <5>1. CASE d # c
            BY <1>1, <4>1, <5>1 DEF Kept
        <5>2. CASE d = c
            BY <1>1, <2>3, <3>3, <4>1, <5>2 DEF MayAck
        <5>3. QED
            BY <5>1, <5>2
      <4>4. QED
          BY <2>0, <2>3, <4>1, <4>2, <4>3 DEF Backed
    <3>4. QED
        BY <3>2, <3>3
  <2>4. QED
      BY <2>1, <2>2, <2>3
<1>8. ClaimsDistinct'
  <2> SUFFICES ASSUME NEW d \in Consumers, NEW f \in Consumers, d # f, consumer'[d].claim > 0,
                      consumer'[f].claim > 0, consumer'[d].msg.event = consumer'[f].msg.event
               PROVE  consumer'[d].claim # consumer'[f].claim
      BY DEF ClaimsDistinct
  <2>1. \A g \in Consumers : consumer'[g].claim > 0 =>
           consumer'[g].claim = consumer[g].claim /\ consumer'[g].msg = consumer[g].msg
      BY <1>1
  <2>2. QED
      BY <2>1 DEF IInv, ClaimsDistinct
<1>9. QED
    BY <1>4, <1>5, <1>6, <1>7, <1>8 DEF IInv

-----------------------------------------------------------------------------
(* The claims stay spent when nobody takes up work.                        *)
LEMMA NoWorkNoSpending ==
  ASSUME IInv, emitted' = emitted, \A e \in Events : row'[e].attempts = row[e].attempts,
         \A d \in Consumers : consumer'[d] = consumer[d] \/ consumer'[d].pc # "work"
  PROVE  EmittedIsSpent'
<1> SUFFICES ASSUME NEW e \in Events PROVE emitted'[e] <= Cardinality(Spent(e)')
    BY DEF EmittedIsSpent
<1>1. row[e].attempts \in Nat /\ emitted[e] \in Nat /\ emitted[e] <= Cardinality(Spent(e))
    BY DEF IInv, TypeOK, EmittedIsSpent
<1>2. \A d \in Consumers, n \in Nat : Works(d, e, n)' => Works(d, e, n) \/ n > row[e].attempts
    BY DEF Works
<1>3. Cardinality(Spent(e)') \in Nat /\ Cardinality(Spent(e)) <= Cardinality(Spent(e)')
    BY <1>1, <1>2, SpentGrows
<1>4. Cardinality(Spent(e)) \in Nat
    BY <1>1, SpentFinite
<1>5. QED
    BY <1>1, <1>3, <1>4

(* A consumer that reconnects: its message stays on the queue or is        *)
(* settled.                                                                *)
LEMMA Leaves ==
  ASSUME IInv, TypeOK', published' = published, emitted' = emitted, NEW c \in Consumers,
         Reconnect(c),
         \A e \in Events : /\ row'[e].status = row[e].status /\ row'[e].attempts = row[e].attempts
                           /\ dead'[e] >= dead[e],
         \A m \in queue' \ queue : m.event \in published,
         \A m \in queue \ queue' :
            /\ m = consumer[c].msg /\ consumer[c].pc # "idle"
            /\ consumer[c].pc = "ack" \/ (m.event \in Malformed /\ dead'[m.event] > 0)
  PROVE  IInv'
<1>1. consumer \in [Consumers -> Jobs] /\ \A e \in Events : emitted[e] \in Nat
    BY DEF IInv, TypeOK, Jobs
<1>2. Sets(c, "idle", NoMessage, 0)
    BY <1>1, ReconnectSets
<1>3. /\ consumer'[c].pc = "idle" /\ consumer'[c].msg = NoMessage /\ consumer'[c].claim = 0
      /\ \A d \in Consumers \ {c} : consumer'[d] = consumer[d]
    BY <1>2 DEF Sets
<1>4. Removes(c)
    BY <1>3 DEF Removes
<1>5. JobOK(consumer[c])'
    BY <1>3 DEF JobOK, UnderClaim
<1>6. EmittedIsSpent'
    BY <1>3, NoWorkNoSpending
<1>7. \A e \in Events : emitted'[e] >= emitted[e]
    BY <1>1
<1>8. QED
    BY <1>2, <1>4, <1>5, <1>6, <1>7, StepKeeps

(* A consumer that goes on to a step that fits what it did.                *)
LEMMA GoesOn ==
  ASSUME IInv, TypeOK', published' = published, NEW c \in Consumers, NEW pc \in Steps \ {"work"},
         Goto(c, pc), consumer[c].pc # "idle", queue \subseteq queue',
         \A e \in Events : /\ row'[e].status = row[e].status /\ row'[e].attempts = row[e].attempts
                           /\ dead'[e] >= dead[e] /\ emitted'[e] >= emitted[e],
         \A m \in queue' \ queue : m.event \in published,
         \A j \in Jobs : j.pc = pc /\ j.msg = consumer[c].msg /\ j.claim = consumer[c].claim => JobOK(j)',
         pc = "ack" => MayAck(consumer[c].msg),
         emitted' = emitted \/ EmittedIsSpent'
  PROVE  IInv'
<1>1. consumer \in [Consumers -> Jobs] /\ consumer[c].claim \in Nat
    BY DEF IInv, TypeOK, Jobs
<1>2. Sets(c, pc, consumer[c].msg, consumer[c].claim)
    BY <1>1, GotoSets
<1>3. /\ consumer'[c].pc = pc /\ consumer'[c].msg = consumer[c].msg
      /\ consumer'[c].claim = consumer[c].claim /\ consumer'[c] \in Jobs
      /\ \A d \in Consumers \ {c} : consumer'[d] = consumer[d]
    BY <1>2 DEF Sets
<1>4. Removes(c)
    BY DEF Removes
<1>5. PICK j \in Jobs : j = consumer'[c]
    BY <1>3
<1>6. JobOK(j)'
    BY <1>3, <1>5
<1>7. JobOK(consumer[c])'
    BY <1>5, <1>6, Zenon DEF JobOK, Settled
<1>8. EmittedIsSpent'
    BY <1>3, NoWorkNoSpending
<1>9. QED
    BY <1>2, <1>4, <1>7, <1>8, StepKeeps

-----------------------------------------------------------------------------
(* What the steps of a busy consumer start from.                           *)
LEMMA BusyJob ==
  ASSUME IInv, NEW c \in Consumers, consumer[c].pc # "idle"
  PROVE  /\ consumer[c].msg \in queue /\ consumer[c].msg \in Messages
         /\ consumer[c].msg.event \in Events /\ consumer[c].msg.event \in published
         /\ consumer[c].msg.attempt \in 1..MaxAttempts
         /\ consumer[c].claim \in Nat
         /\ consumer[c].claim <= row[consumer[c].msg.event].attempts
         /\ JobOK(consumer[c])
<1>1. JobOK(consumer[c]) /\ queue \subseteq Messages /\ consumer[c].claim \in Nat
    BY DEF IInv, JobsOK, TypeOK, Jobs
<1>2. consumer[c].msg \in queue /\ consumer[c].claim <= row[consumer[c].msg.event].attempts
    BY <1>1 DEF JobOK
<1>3. QED
    BY <1>1, <1>2 DEF IInv, QueuePublished, Messages

(* Types are kept by whatever moves a consumer and bumps the counters.     *)
LEMMA Typed ==
  ASSUME TypeOK, NEW c \in Consumers,
         Reconnect(c) \/ (\E pc \in Steps : Goto(c, pc)),
         row' \in [Events -> Rows], queue' \subseteq Messages,
         faults' = faults \/ Fault, published' = published,
         emitted' \in [Events -> Nat], dead' \in [Events -> Nat]
  PROVE  TypeOK'
<1>1. consumer \in [Consumers -> Jobs]
    BY DEF TypeOK, Jobs
<1>2. consumer' \in [Consumers -> Jobs]
  <2>1. CASE Reconnect(c)
      BY <1>1, <2>1, ReconnectSets DEF Sets
  <2>2. ASSUME NEW pc \in Steps, Goto(c, pc) PROVE consumer' \in [Consumers -> Jobs]
      BY <1>1, <2>2, GotoSets DEF Sets
  <2>3. QED
      BY <2>1, <2>2
<1>3. faults' \in 0..MaxFaults
    BY DEF TypeOK, Fault
<1>4. QED
    BY <1>2, <1>3 DEF TypeOK, Jobs, Rows

(* A consumer stops work under its claim and consumes at most once.        *)
LEMMA DeadLetterKeeps == ASSUME IInv, NEW c \in Consumers, DeadLetter(c) PROVE IInv'
<1>1. PICK e \in Events : e = consumer[c].msg.event
    BY BusyJob DEF DeadLetter
<1>2. /\ consumer[c].pc = "work" /\ JobOK(consumer[c])
      /\ UNCHANGED <<queue, row, emitted, published>>
    BY BusyJob DEF DeadLetter
<1>3. /\ TypeOK /\ row \in [Events -> Rows] /\ dead \in [Events -> Nat] /\ emitted \in [Events -> Nat]
      /\ queue \subseteq Messages
    BY DEF IInv, TypeOK, Rows
<1>4. Copied(e) \in [Events -> Nat] /\ Copied(e)[e] > 0 /\ \A f \in Events : Copied(e)[f] >= dead[f]
    BY <1>3 DEF Copied
<1>5. "dead_lettered" \in Steps /\ "release" \in Steps
    BY DEF Steps
<1>6. CASE dead' = Copied(e) /\ Goto(c, "dead_lettered") /\ UNCHANGED faults
  <2>1. TypeOK'
      BY <1>2, <1>3, <1>4, <1>5, <1>6, Typed
  <2>2. ASSUME NEW j \in Jobs, j.pc = "dead_lettered", j.msg = consumer[c].msg, j.claim = consumer[c].claim
        PROVE  JobOK(j)'
      BY <1>1, <1>2, <1>4, <1>6, <2>2 DEF JobOK, UnderClaim
  <2>3. QED
      BY <1>2, <1>3, <1>4, <1>5, <1>6, <2>1, <2>2, GoesOn
<1>7. CASE Fault /\ Goto(c, "release") /\ UNCHANGED dead
  <2>1. TypeOK'
      BY <1>2, <1>3, <1>5, <1>7, Typed
  <2>2. ASSUME NEW j \in Jobs, j.pc = "release", j.msg = consumer[c].msg, j.claim = consumer[c].claim
        PROVE  JobOK(j)'
      BY <1>1, <1>2, <1>7, <2>2 DEF JobOK, UnderClaim
  <2>3. QED
      BY <1>2, <1>3, <1>5, <1>7, <2>1, <2>2, GoesOn
<1>8. CASE Fault /\ Reconnect(c) /\ dead' \in {dead, Copied(e)}
  <2>1. TypeOK'
      BY <1>2, <1>3, <1>4, <1>8, Typed
  <2>2. QED
      BY <1>2, <1>3, <1>4, <1>8, <2>1, Leaves
<1>9. QED
    BY <1>1, <1>6, <1>7, <1>8 DEF DeadLetter

(* The retry is published with the next attempt, within the budget.        *)
LEMMA RetryKeeps == ASSUME IInv, NEW c \in Consumers, Retry(c) PROVE IInv'
<1>1. PICK e \in Events : e = consumer[c].msg.event
    BY BusyJob DEF Retry
<1>2. /\ consumer[c].pc = "work" /\ JobOK(consumer[c]) /\ consumer[c].claim \in Nat /\ e \in published
      /\ ~Exhausted(c) /\ e \in Poison
      /\ UNCHANGED <<dead, row, emitted, published>>
    BY <1>1, BusyJob DEF Retry
<1>3. /\ TypeOK /\ row \in [Events -> Rows] /\ dead \in [Events -> Nat] /\ emitted \in [Events -> Nat]
      /\ queue \subseteq Messages
    BY DEF IInv, TypeOK, Rows
<1>4. PICK again : again = [event |-> e, attempt |-> consumer[c].claim + 1]
    OBVIOUS
<1>5. again \in Messages /\ again.event = e /\ again.attempt > consumer[c].claim
    BY <1>1, <1>2, <1>4 DEF Exhausted, Messages
<1>6. "retry_scheduled" \in Steps /\ "release" \in Steps
    BY DEF Steps
<1>7. CASE queue' = queue \cup {again} /\ Goto(c, "retry_scheduled") /\ UNCHANGED faults
  <2>1. TypeOK'
      BY <1>2, <1>3, <1>5, <1>6, <1>7, Typed
  <2>2. ASSUME NEW j \in Jobs, j.pc = "retry_scheduled", j.msg = consumer[c].msg, j.claim = consumer[c].claim
        PROVE  JobOK(j)'
      BY <1>1, <1>2, <1>5, <1>7, <2>2 DEF JobOK, UnderClaim
  <2>3. QED
      BY <1>2, <1>3, <1>5, <1>6, <1>7, <2>1, <2>2, GoesOn
<1>8. CASE Fault /\ Goto(c, "release") /\ UNCHANGED queue
  <2>1. TypeOK'
      BY <1>2, <1>3, <1>6, <1>8, Typed
  <2>2. ASSUME NEW j \in Jobs, j.pc = "release", j.msg = consumer[c].msg, j.claim = consumer[c].claim
        PROVE  JobOK(j)'
      BY <1>1, <1>2, <1>8, <2>2 DEF JobOK, UnderClaim
  <2>3. QED
      BY <1>2, <1>3, <1>6, <1>8, <2>1, <2>2, GoesOn
<1>9. CASE Fault /\ Reconnect(c) /\ queue' \in {queue, queue \cup {again}}
  <2>1. TypeOK'
      BY <1>2, <1>3, <1>5, <1>9, Typed
  <2>2. QED
      BY <1>2, <1>3, <1>5, <1>9, <2>1, Leaves
<1>10. QED
    BY <1>1, <1>4, <1>7, <1>8, <1>9 DEF Retry

(* An event is consumed under a claim that has not been spent.             *)
LEMMA ConsumeKeeps == ASSUME IInv, NEW c \in Consumers, Consume(c) PROVE IInv'
<1>1. PICK e \in Events : e = consumer[c].msg.event
    BY BusyJob DEF Consume
<1>2. /\ consumer[c].pc = "work" /\ JobOK(consumer[c]) /\ consumer[c].claim \in Nat
      /\ consumer[c].claim <= row[e].attempts /\ consumer[c].claim >= 1
      /\ ~Exhausted(c) /\ e \notin Poison
      /\ emitted' = [emitted EXCEPT ![e] = emitted[e] + 1] /\ Goto(c, "completed")
      /\ UNCHANGED <<queue, dead, row, published, faults>>
    BY <1>1, BusyJob DEF Consume, JobOK, UnderClaim
<1>3. /\ TypeOK /\ row \in [Events -> Rows] /\ dead \in [Events -> Nat] /\ emitted \in [Events -> Nat]
      /\ queue \subseteq Messages /\ consumer \in [Consumers -> Jobs]
      /\ \A f \in Events : row[f].attempts \in Nat
    BY DEF IInv, TypeOK, Rows, Jobs
<1>4. /\ emitted' \in [Events -> Nat] /\ emitted'[e] = emitted[e] + 1 /\ emitted'[e] > 0
      /\ \A f \in Events : emitted'[f] >= emitted[f] /\ (f # e => emitted'[f] = emitted[f])
    BY <1>2, <1>3
<1>5. "completed" \in Steps
    BY DEF Steps
<1>6. TypeOK'
    BY <1>2, <1>3, <1>4, <1>5, Typed
<1>7. ASSUME NEW j \in Jobs, j.pc = "completed", j.msg = consumer[c].msg, j.claim = consumer[c].claim
      PROVE  JobOK(j)'
    BY <1>1, <1>2, <1>4, <1>7 DEF JobOK, UnderClaim
<1>8. /\ consumer'[c].pc = "completed" /\ \A d \in Consumers \ {c} : consumer'[d] = consumer[d]
    BY <1>2, <1>3, <1>5, GotoSets DEF Sets
<1>9. ASSUME NEW f \in Events
      PROVE  /\ IsFiniteSet(Spent(f)') /\ Cardinality(Spent(f)') \in Nat
             /\ Cardinality(Spent(f)) <= Cardinality(Spent(f)') /\ Spent(f) \subseteq Spent(f)'
             /\ Cardinality(Spent(f)) \in Nat /\ IsFiniteSet(Spent(f))
             /\ emitted[f] <= Cardinality(Spent(f))
  <2>1. \A d \in Consumers, n \in Nat : Works(d, f, n)' => Works(d, f, n) \/ n > row[f].attempts
      BY <1>8 DEF Works
  <2>2. row'[f].attempts = row[f].attempts /\ row[f].attempts \in Nat
      BY <1>2, <1>3
  <2>3. QED
      BY <2>1, <2>2, SpentGrows, SpentFinite DEF IInv, EmittedIsSpent
<1>10. emitted'[e] <= Cardinality(Spent(e)')
  <2>1. PICK n \in Nat : n = consumer[c].claim
      BY <1>2
  <2>2. n \in 1..MaxAttempts
      BY <1>2, <2>1 DEF Exhausted
  <2>3. n \notin Spent(e) /\ Spent(e) \subseteq Spent(e)'
      BY <1>1, <1>2, <1>9, <2>1 DEF Spent, Works
  <2>4. n \in Spent(e)'
    <3> SUFFICES ASSUME NEW d \in Consumers, Works(d, e, n)' PROVE FALSE
        BY <1>2, <2>1, <2>2 DEF Spent
    <3>1. d # c /\ Works(d, e, n)
        BY <1>8 DEF Works
    <3>2. QED
        BY <1>1, <1>2, <2>1, <3>1 DEF IInv, ClaimsDistinct, Works
  <2>5. Cardinality(Spent(e) \cup {n}) = Cardinality(Spent(e)) + 1
      BY <1>9, <2>3, FS_AddElement
  <2>6. Cardinality(Spent(e) \cup {n}) <= Cardinality(Spent(e)')
      BY <1>9, <2>3, <2>4, FS_Subset
  <2>7. QED
      BY <1>3, <1>4, <1>9, <2>5, <2>6
<1>11. EmittedIsSpent'
    BY <1>3, <1>4, <1>9, <1>10 DEF EmittedIsSpent
<1>12. QED
    BY <1>2, <1>3, <1>4, <1>5, <1>6, <1>7, <1>11, GoesOn

(* A consumer that another's step leaves alone, with the queue as it was   *)
(* or longer.                                                              *)
LEMMA OtherStays ==
  ASSUME IInv, TypeOK', NEW d \in Consumers, consumer'[d] = consumer[d], queue \subseteq queue',
         dead' = dead, emitted' = emitted, \A e \in Events : Advances(e)
  PROVE  JobOK(consumer[d])'
<1>1. TypeOK /\ consumer[d] \in Jobs /\ JobOK(consumer[d])
    BY DEF IInv, TypeOK, Jobs, JobsOK
<1>2. \A e \in Events : /\ Advances(e) /\ row'[e].attempts \in Nat
                        /\ dead'[e] \in Nat /\ dead'[e] >= dead[e]
                        /\ emitted'[e] \in Nat /\ emitted'[e] >= emitted[e]
    BY DEF IInv, TypeOK
<1>3. PICK j \in Jobs : j = consumer[d]
    BY <1>1
<1>4. JobOK(j)
    BY <1>1, <1>3
<1>5. JobOK(j)'
    BY <1>1, <1>2, <1>4, JobStays
<1>6. consumer'[d] = j
    BY <1>3
<1>7. QED
    BY <1>5, <1>6, Zenon DEF JobOK, Settled

(* An event whose row is as it was and whose messages nobody has come to   *)
(* acknowledge is still backed.                                            *)
LEMMA StillBacked ==
  ASSUME IInv, NEW e \in published, row'[e] = row[e], queue \subseteq queue', dead' = dead,
         emitted' = emitted,
         \A d \in Consumers : \/ consumer'[d] = consumer[d] \/ consumer'[d].pc # "ack"
                              \/ consumer'[d].msg.event # e
  PROVE  Backed(e)'
<1>1. Backed(e)
    BY DEF IInv, AllBacked
<1>2. \A m \in queue : m.event = e /\ Kept(m) => Kept(m)'
    BY DEF Kept
<1>3. CASE row[e].status = "retry_scheduled"
    BY <1>1, <1>3 DEF Backed
<1>4. CASE row[e].status \in {"dead_lettered", "completed"}
    BY <1>1, <1>4 DEF Backed
<1>5. CASE row[e].status \notin {"retry_scheduled", "dead_lettered", "completed"}
  <2>1. dead[e] > 0 \/ \E m \in queue : m.event = e /\ Kept(m)
      BY <1>1, <1>5 DEF Backed
  <2>2. dead'[e] > 0 \/ \E m \in queue' : m.event = e /\ Kept(m)'
      BY <1>2, <2>1
  <2>3. QED
      BY <1>5, <2>2 DEF Backed
<1>6. QED
    BY <1>3, <1>4, <1>5

(* POST /order: the first message of an event.                             *)
LEMMA PublishKeeps == ASSUME IInv, NEW e \in Events, PublishOrder(e) PROVE IInv'
<1>1. PICK first : first = [event |-> e, attempt |-> 1]
    OBVIOUS
<1>2. /\ e \notin published /\ published' = published \cup {e} /\ queue' = queue \cup {first}
      /\ UNCHANGED <<dead, row, consumer, emitted, faults>>
    BY <1>1 DEF PublishOrder
<1>3. first \in Messages /\ first.event = e
    BY <1>1 DEF Messages
<1>4. TypeOK'
    BY <1>2, <1>3 DEF IInv, TypeOK
<1>5. JobsOK'
  <2>1. \A f \in Events : Advances(f)
      BY <1>2 DEF IInv, TypeOK, Advances
  <2>2. QED
      BY <1>2, <1>4, <2>1, OtherStays DEF JobsOK
<1>6. OneHolder' /\ ClaimsDistinct'
    BY <1>2 DEF IInv, OneHolder, ClaimsDistinct
<1>7. RowsOK' /\ QueuePublished'
    BY <1>2, <1>3 DEF IInv, RowsOK, RowOK, QueuePublished
<1>8. EmittedIsSpent'
    BY <1>2 DEF IInv, EmittedIsSpent, Spent, Works
<1>9. Backed(e)'
  <2>1. row'[e].status = "none"
      BY <1>2 DEF IInv, RowsOK, RowOK
  <2>2. first \notin queue
      BY <1>2, <1>3 DEF IInv, QueuePublished
  <2>3. Kept(first)'
    <3> SUFFICES ASSUME NEW d \in Consumers, consumer'[d].pc = "ack", consumer'[d].msg = first PROVE FALSE
        BY <1>2 DEF Kept
    <3>1. consumer[d].pc = "ack" /\ consumer[d].msg \in queue
        BY <1>2 DEF IInv, JobsOK, JobOK
    <3>2. QED
        BY <1>2, <2>2, <3>1
  <2>4. \E m \in queue' : m.event = e /\ Kept(m)'
      BY <1>2, <1>3, <2>3
  <2>5. QED
      BY <2>1, <2>4 DEF Backed
<1>10. AllBacked'
    BY <1>2, <1>9, StillBacked DEF AllBacked
<1>11. QED
    BY <1>4, <1>5, <1>6, <1>7, <1>8, <1>10 DEF IInv

(* consume_once hands a message to one consumer.                           *)
LEMMA DeliverKeeps == ASSUME IInv, NEW c \in Consumers, NEW msg \in queue, Deliver(c, msg) PROVE IInv'
<1>1. PICK pc \in {"malformed", "claim"} :
        /\ consumer' = [consumer EXCEPT ![c] = [pc |-> pc, msg |-> msg, claim |-> 0]]
        /\ pc = "malformed" <=> msg.event \in Malformed
    BY DEF Deliver
<1>2. /\ consumer[c].pc = "idle" /\ \A d \in Consumers : consumer[d].msg # msg
      /\ UNCHANGED <<queue, dead, row, emitted, published, faults>>
    BY DEF Deliver
<1>3. consumer \in [Consumers -> Jobs] /\ msg \in Messages /\ TypeOK /\ msg.event \in Events
      /\ row[msg.event].attempts \in Nat
    BY DEF IInv, TypeOK, Jobs, Messages
<1>4. [pc |-> pc, msg |-> msg, claim |-> 0] \in Jobs
    BY <1>3 DEF Jobs, Steps
<1>5. /\ consumer' \in [Consumers -> Jobs]
      /\ consumer'[c].pc = pc /\ consumer'[c].msg = msg /\ consumer'[c].claim = 0
      /\ \A d \in Consumers \ {c} : consumer'[d] = consumer[d]
    BY <1>1, <1>3, <1>4
<1>6. TypeOK'
    BY <1>2, <1>3, <1>5 DEF TypeOK, Jobs
<1>7. JobsOK'
  <2> SUFFICES ASSUME NEW d \in Consumers PROVE JobOK(consumer[d])'
      BY DEF JobsOK
  <2>1. CASE d = c
      BY <1>1, <1>2, <1>3, <1>5, <2>1 DEF JobOK, UnderClaim
  <2>2. CASE d # c
    <3>1. \A f \in Events : Advances(f)
        BY <1>2 DEF IInv, TypeOK, Advances
    <3>2. QED
        BY <1>2, <1>5, <1>6, <2>2, <3>1, OtherStays
  <2>3. QED
      BY <2>1, <2>2
<1>8. OneHolder'
    BY <1>2, <1>5 DEF IInv, OneHolder
<1>9. RowsOK' /\ QueuePublished'
    BY <1>2 DEF IInv, RowsOK, RowOK, QueuePublished
<1>10. AllBacked'
    BY <1>2, <1>5, StillBacked DEF AllBacked
<1>11. ClaimsDistinct'
    BY <1>5 DEF IInv, ClaimsDistinct
<1>12. EmittedIsSpent'
    BY <1>2, <1>5, NoWorkNoSpending
<1>13. QED
    BY <1>6, <1>7, <1>8, <1>9, <1>10, <1>11, <1>12 DEF IInv

(* A lease runs out.                                                       *)
LEMMA ExpireKeeps == ASSUME IInv, NEW e \in Events, Expire(e) PROVE IInv'
<1>1. /\ row' = [row EXCEPT ![e] = [row[e] EXCEPT !.live = FALSE]]
      /\ UNCHANGED <<queue, dead, consumer, emitted, published>>
      /\ faults' = faults \/ Fault
    BY DEF Expire
<1>2. TypeOK /\ row \in [Events -> Rows] /\ row[e] \in Rows
    BY DEF IInv, TypeOK, Rows
<1>3. /\ [row[e] EXCEPT !.live = FALSE] \in Rows
      /\ [row[e] EXCEPT !.live = FALSE].status = row[e].status
      /\ [row[e] EXCEPT !.live = FALSE].attempts = row[e].attempts
    BY <1>2 DEF Rows
<1>4. /\ row' \in [Events -> Rows]
      /\ \A f \in Events : row'[f].status = row[f].status /\ row'[f].attempts = row[f].attempts
    BY <1>1, <1>2, <1>3
<1>5. TypeOK'
    BY <1>1, <1>2, <1>4 DEF TypeOK, Fault, Rows
<1>6. JobsOK'
  <2>1. \A f \in Events : Advances(f)
      BY <1>4 DEF IInv, TypeOK, Advances
  <2>2. QED
      BY <1>1, <1>5, <2>1, OtherStays DEF JobsOK
<1>7. OneHolder' /\ ClaimsDistinct'
    BY <1>1 DEF IInv, OneHolder, ClaimsDistinct
<1>8. RowsOK' /\ QueuePublished'
    BY <1>1, <1>4 DEF IInv, RowsOK, RowOK, QueuePublished
<1>9. EmittedIsSpent'
    BY <1>1, <1>4, NoWorkNoSpending
<1>10. AllBacked'
  <2>1. \A f \in published : f \in Events
      BY DEF IInv, TypeOK
  <2>2. QED
      BY <1>1, <1>4, <2>1 DEF IInv, AllBacked, Backed, Kept
<1>11. QED
    BY <1>5, <1>6, <1>7, <1>8, <1>9, <1>10 DEF IInv

(* InboxStore::claim takes the row under a number above every claim made.  *)
LEMMA ClaimKeeps == ASSUME IInv, NEW c \in Consumers, Claim(c) PROVE IInv'
<1>1. PICK e \in Events, a \in Nat, n \in Nat :
        /\ e = consumer[c].msg.event /\ a = consumer[c].msg.attempt /\ n = NextAttempts(row[e], a)
  <2>1. consumer[c].msg.event \in Events /\ consumer[c].msg.attempt \in Nat
      BY BusyJob DEF Claim
  <2>2. row[consumer[c].msg.event].attempts \in Nat
      BY <2>1 DEF IInv, TypeOK
  <2>3. NextAttempts(row[consumer[c].msg.event], consumer[c].msg.attempt) \in Nat
      BY <2>1, <2>2 DEF NextAttempts
  <2>4. QED
      BY <2>1, <2>3
<1>2. /\ consumer[c].pc = "claim" /\ JobOK(consumer[c]) /\ e \in published
      /\ consumer[c].msg \in queue /\ a >= 1
      /\ UNCHANGED <<queue, dead, emitted, published>>
    BY <1>1, BusyJob DEF Claim
<1>3. /\ TypeOK /\ row \in [Events -> Rows] /\ dead \in [Events -> Nat] /\ emitted \in [Events -> Nat]
      /\ queue \subseteq Messages /\ consumer \in [Consumers -> Jobs]
      /\ \A f \in Events : row[f].attempts \in Nat
    BY DEF IInv, TypeOK, Rows, Jobs
<1>4. e \notin Malformed /\ consumer[c].claim = 0
    BY <1>1, <1>2 DEF JobOK, UnderClaim
<1>5. n > row[e].attempts /\ n >= a /\ n >= 1
    BY <1>1, <1>2, <1>3 DEF NextAttempts
<1>6. CASE /\ Claimable(row[e], a)
           /\ row' = [row EXCEPT ![e] = [status |-> "processing", attempts |-> n, live |-> TRUE]]
           /\ consumer' = [consumer EXCEPT ![c].pc = "work", ![c].claim = n]
           /\ UNCHANGED faults
  <2>1. /\ [status |-> "processing", attempts |-> n, live |-> TRUE] \in Rows
        /\ row' \in [Events -> Rows]
        /\ row'[e].status = "processing" /\ row'[e].attempts = n
        /\ \A f \in Events \ {e} : row'[f] = row[f]
      BY <1>3, <1>6 DEF Rows
  <2>2. /\ consumer' \in [Consumers -> Jobs]
        /\ consumer'[c].pc = "work" /\ consumer'[c].msg = consumer[c].msg /\ consumer'[c].claim = n
        /\ \A d \in Consumers \ {c} : consumer'[d] = consumer[d]
    <3>1. consumer[c] \in Jobs
        BY <1>3
    <3>2. /\ [[consumer[c] EXCEPT !.pc = "work"] EXCEPT !.claim = n] \in Jobs
          /\ [[consumer[c] EXCEPT !.pc = "work"] EXCEPT !.claim = n].pc = "work"
          /\ [[consumer[c] EXCEPT !.pc = "work"] EXCEPT !.claim = n].msg = consumer[c].msg
          /\ [[consumer[c] EXCEPT !.pc = "work"] EXCEPT !.claim = n].claim = n
        BY <3>1 DEF Jobs, Steps
    <3>3. consumer' = [consumer EXCEPT ![c] = [[consumer[c] EXCEPT !.pc = "work"] EXCEPT !.claim = n]]
        BY <1>3, <1>6
    <3>4. QED
        BY <1>3, <3>2, <3>3
  <2>3. TypeOK'
      BY <1>2, <1>3, <1>6, <2>1, <2>2 DEF TypeOK, Jobs, Rows
  <2>4. \A f \in Events : Advances(f)
    <3>1. row[e].status \notin {"completed", "dead_lettered"}
        BY <1>6 DEF Claimable
    <3>2. QED
        BY <1>3, <1>5, <2>1, <3>1 DEF Advances
  <2>5. JobsOK'
    <3> SUFFICES ASSUME NEW d \in Consumers PROVE JobOK(consumer[d])'
        BY DEF JobsOK
    <3>1. CASE d = c
        BY <1>1, <1>2, <1>4, <1>5, <2>1, <2>2, <3>1 DEF JobOK, UnderClaim
    <3>2. CASE d # c
        BY <1>2, <2>2, <2>3, <2>4, <3>2, OtherStays
    <3>3. QED
        BY <3>1, <3>2
  <2>6. OneHolder'
    <3>1. \A d \in Consumers : /\ consumer'[d].msg = consumer[d].msg
                               /\ consumer'[d].pc # "idle" => consumer[d].pc # "idle"
        BY <1>2, <2>2
    <3>2. QED
        BY <3>1 DEF IInv, OneHolder
  <2>7. RowsOK' /\ QueuePublished'
      BY <1>2, <1>4, <2>1 DEF IInv, RowsOK, RowOK, QueuePublished
  <2>8. ASSUME NEW f \in published PROVE Backed(f)'
    <3>1. CASE f # e
      <4>1. row'[f] = row[f]
          BY <2>1, <3>1 DEF IInv, TypeOK
      <4>2. QED
          BY <1>2, <2>2, <4>1, StillBacked
    <3>2. CASE f = e
      <4>1. Kept(consumer[c].msg)'
        <5> SUFFICES ASSUME NEW d \in Consumers, consumer'[d].pc = "ack",
                            consumer'[d].msg = consumer[c].msg
                     PROVE  FALSE
            BY <1>2, <2>2 DEF Kept
        <5>1. d # c /\ consumer[d].msg = consumer[c].msg /\ consumer[d].pc = "ack"
            BY <2>2
        <5>2. QED
            BY <1>2, <5>1 DEF IInv, OneHolder
      <4>2. \E m \in queue' : m.event = e /\ Kept(m)'
        <5>1. PICK m \in queue : m = consumer[c].msg
            BY <1>2
        <5>2. m \in queue' /\ m.event = e
            BY <1>1, <1>2, <5>1
        <5>3. Kept(m)'
            BY <4>1, <5>1, <2>2, Zenon DEF Kept
        <5>4. QED
            BY <5>2, <5>3
      <4>3. QED
          BY <2>1, <3>2, <4>2 DEF Backed
    <3>3. QED
        BY <3>1, <3>2
  <2>9. ClaimsDistinct'
    <3>1. \A d \in Consumers \ {c} : consumer[d].claim > 0 /\ consumer[d].msg.event = e =>
             consumer[d].claim < n
      <4> SUFFICES ASSUME NEW d \in Consumers \ {c}, consumer[d].claim > 0, consumer[d].msg.event = e
                   PROVE  consumer[d].claim < n
          OBVIOUS
      <4>1. consumer[d].pc # "idle"
          BY DEF IInv, JobsOK, JobOK
      <4>2. consumer[d].claim \in Nat /\ consumer[d].claim <= row[e].attempts
          BY <4>1, BusyJob
      <4>3. QED
          BY <1>3, <1>5, <4>2
    <3> SUFFICES ASSUME NEW d \in Consumers, NEW f \in Consumers, d # f, consumer'[d].claim > 0,
                        consumer'[f].claim > 0, consumer'[d].msg.event = consumer'[f].msg.event
                 PROVE  consumer'[d].claim # consumer'[f].claim
        BY DEF ClaimsDistinct
    <3>2. CASE d # c /\ f # c
        BY <2>2, <3>2 DEF IInv, ClaimsDistinct
    <3>3. CASE d = c \/ f = c
        BY <1>1, <2>2, <3>1, <3>3
    <3>4. QED
        BY <3>2, <3>3
  <2>10. EmittedIsSpent'
    <3> SUFFICES ASSUME NEW f \in Events PROVE emitted'[f] <= Cardinality(Spent(f)')
        BY DEF EmittedIsSpent
    <3>1. \A d \in Consumers, k \in Nat : Works(d, f, k)' => Works(d, f, k) \/ k > row[f].attempts
        BY <1>1, <1>5, <2>2 DEF Works
    <3>2. row[f].attempts \in Nat /\ row'[f].attempts \in Nat /\ row'[f].attempts >= row[f].attempts
        BY <1>3, <1>5, <2>1
    <3>3. Cardinality(Spent(f)') \in Nat /\ Cardinality(Spent(f)) <= Cardinality(Spent(f)')
        BY <3>1, <3>2, SpentGrows
    <3>4. emitted[f] \in Nat /\ emitted[f] <= Cardinality(Spent(f)) /\ Cardinality(Spent(f)) \in Nat
        BY <1>3, SpentFinite DEF IInv, EmittedIsSpent
    <3>5. QED
        BY <1>2, <3>3, <3>4
  <2>11. QED
      BY <1>2, <2>3, <2>5, <2>6, <2>7, <2>8, <2>9, <2>10 DEF IInv, AllBacked
<1>7. CASE ~Claimable(row[e], a) /\ row[e].status = "processing" /\ Reconnect(c) /\ UNCHANGED <<row, faults>>
  <2>1. TypeOK'
      BY <1>2, <1>3, <1>7, Typed
  <2>2. QED
      BY <1>2, <1>3, <1>7, <2>1, Leaves
<1>8. CASE ~Claimable(row[e], a) /\ row[e].status # "processing" /\ Goto(c, "ack") /\ UNCHANGED <<row, faults>>
  <2>1. "ack" \in Steps
      BY DEF Steps
  <2>2. TypeOK'
      BY <1>2, <1>3, <1>8, <2>1, Typed
  <2>3. row[e].status \in {"completed", "dead_lettered"} \/ (row[e].status = "retry_scheduled" /\ a <= row[e].attempts)
      BY <1>3, <1>8 DEF Claimable, Rows
  <2>4. MayAck(consumer[c].msg)
      BY <1>1, <2>3 DEF MayAck
  <2>5. ASSUME NEW j \in Jobs, j.pc = "ack", j.msg = consumer[c].msg, j.claim = consumer[c].claim
        PROVE  JobOK(j)'
    <3>1. Settled(j.msg)'
        BY <1>1, <1>2, <1>4, <1>8, <2>3, <2>5 DEF Settled
    <3>2. QED
        BY <1>1, <1>2, <1>8, <2>5, <3>1 DEF JobOK, UnderClaim
  <2>6. QED
      BY <1>2, <1>3, <1>8, <2>1, <2>2, <2>4, <2>5, GoesOn
<1>9. CASE Fault /\ Reconnect(c) /\ UNCHANGED row
  <2>1. TypeOK'
      BY <1>2, <1>3, <1>9, Typed
  <2>2. QED
      BY <1>2, <1>3, <1>9, <2>1, Leaves
<1>10. QED
    BY <1>1, <1>6, <1>7, <1>8, <1>9 DEF Claim

-----------------------------------------------------------------------------
(* mark_completed, mark_retry_scheduled and mark_dead_lettered close the   *)
(* row only under the claim that did the work.                             *)
LEMMA MarkKeeps == ASSUME IInv, NEW c \in Consumers, Mark(c) PROVE IInv'
<1>1. PICK e \in Events, pc \in {"completed", "retry_scheduled", "dead_lettered"} :
        e = consumer[c].msg.event /\ pc = consumer[c].pc
    BY BusyJob DEF Mark
<1>2. /\ JobOK(consumer[c]) /\ e \in published /\ consumer[c].msg \in queue
      /\ consumer[c].msg.attempt \in Nat /\ consumer[c].claim \in Nat
      /\ UNCHANGED <<queue, dead, emitted, published>>
    BY <1>1, BusyJob DEF Mark
<1>3. /\ TypeOK /\ row \in [Events -> Rows] /\ dead \in [Events -> Nat] /\ emitted \in [Events -> Nat]
      /\ queue \subseteq Messages /\ consumer \in [Consumers -> Jobs]
      /\ \A f \in Events : row[f].attempts \in Nat
    BY DEF IInv, TypeOK, Rows, Jobs
<1>4. /\ e \notin Malformed /\ consumer[c].msg.attempt <= consumer[c].claim
      /\ consumer[c].claim <= row[e].attempts
      /\ pc = "completed" => e \notin Poison /\ emitted[e] > 0
      /\ pc = "dead_lettered" => dead[e] > 0
    BY <1>1, <1>2 DEF JobOK, UnderClaim
<1>5. "ack" \in Steps /\ "release" \in Steps
    BY DEF Steps
<1>6. CASE /\ Fenced(c)
           /\ row' = [row EXCEPT ![e].status = pc, ![e].live = FALSE]
           /\ Goto(c, "ack")
           /\ UNCHANGED faults
  <2>1. row[e].status = "processing" /\ row[e].attempts = consumer[c].claim
      BY <1>1, <1>6 DEF Fenced
  <2>2. /\ row' \in [Events -> Rows] /\ row'[e].status = pc /\ row'[e].attempts = row[e].attempts
        /\ \A f \in Events \ {e} : row'[f] = row[f]
    <3>1. row[e] \in Rows
        BY <1>3
    <3>2. /\ [[row[e] EXCEPT !.status = pc] EXCEPT !.live = FALSE] \in Rows
          /\ [[row[e] EXCEPT !.status = pc] EXCEPT !.live = FALSE].status = pc
          /\ [[row[e] EXCEPT !.status = pc] EXCEPT !.live = FALSE].attempts = row[e].attempts
        BY <3>1 DEF Rows
    <3>3. row' = [row EXCEPT ![e] = [[row[e] EXCEPT !.status = pc] EXCEPT !.live = FALSE]]
        BY <1>3, <1>6
    <3>4. QED
        BY <1>3, <3>2, <3>3
  <2>3. /\ consumer' \in [Consumers -> Jobs]
        /\ consumer'[c].pc = "ack" /\ consumer'[c].msg = consumer[c].msg
        /\ consumer'[c].claim = consumer[c].claim
        /\ \A d \in Consumers \ {c} : consumer'[d] = consumer[d]
      BY <1>3, <1>5, <1>6, GotoSets DEF Sets
  <2>4. TypeOK'
      BY <1>2, <1>3, <1>5, <1>6, <2>2, Typed
  <2>5. \A f \in Events : Advances(f)
      BY <1>3, <2>1, <2>2 DEF Advances
  <2>6. JobsOK'
    <3> SUFFICES ASSUME NEW d \in Consumers PROVE JobOK(consumer[d])'
        BY DEF JobsOK
    <3>1. CASE d = c
        BY <1>1, <1>2, <1>3, <1>4, <2>1, <2>2, <2>3, <3>1 DEF JobOK, UnderClaim, Settled
    <3>2. CASE d # c
        BY <1>2, <2>3, <2>4, <2>5, <3>2, OtherStays
    <3>3. QED
        BY <3>1, <3>2
  <2>7. OneHolder'
    <3>1. consumer[c].pc # "idle"
        BY <1>1
    <3>2. \A d \in Consumers : /\ consumer'[d].msg = consumer[d].msg
                               /\ consumer'[d].pc # "idle" => consumer[d].pc # "idle"
        BY <2>3, <3>1
    <3>3. QED
        BY <3>2 DEF IInv, OneHolder
  <2>8. RowsOK' /\ QueuePublished'
      BY <1>2, <1>4, <2>2 DEF IInv, RowsOK, RowOK, QueuePublished
  <2>9. ASSUME NEW f \in published PROVE Backed(f)'
    <3>1. CASE f # e
      <4>1. row'[f] = row[f]
          BY <2>2, <3>1 DEF IInv, TypeOK
      <4>2. QED
          BY <1>1, <1>2, <2>3, <3>1, <4>1, StillBacked
    <3>2. CASE f = e
      <4>1. pc = "retry_scheduled" => \E m \in queue : m.event = e /\ m.attempt > row[e].attempts
          BY <1>1, <1>2, <2>1 DEF JobOK
      <4>2. QED
          BY <1>2, <1>4, <2>2, <3>2, <4>1 DEF Backed
    <3>3. QED
        BY <3>1, <3>2
  <2>10. ClaimsDistinct'
    <3>1. \A d \in Consumers : consumer'[d].msg = consumer[d].msg /\ consumer'[d].claim = consumer[d].claim
        BY <2>3
    <3>2. QED
        BY <3>1 DEF IInv, ClaimsDistinct
  <2>11. EmittedIsSpent'
    <3>1. \A f \in Events : row'[f].attempts = row[f].attempts
        BY <2>2
    <3>2. \A d \in Consumers : consumer'[d] = consumer[d] \/ consumer'[d].pc # "work"
        BY <2>3
    <3>3. QED
        BY <1>2, <3>1, <3>2, NoWorkNoSpending
  <2>12. QED
      BY <1>2, <2>4, <2>6, <2>7, <2>8, <2>9, <2>10, <2>11 DEF IInv, AllBacked
<1>7. CASE (UNCHANGED faults \/ Fault) /\ Goto(c, "release") /\ UNCHANGED row
  <2>1. TypeOK'
      BY <1>2, <1>3, <1>5, <1>7, Typed
  <2>2. ASSUME NEW j \in Jobs, j.pc = "release", j.msg = consumer[c].msg, j.claim = consumer[c].claim
        PROVE  JobOK(j)'
      BY <1>1, <1>2, <1>7, <2>2 DEF JobOK, UnderClaim
  <2>3. QED
      BY <1>1, <1>2, <1>3, <1>5, <1>7, <2>1, <2>2, GoesOn
<1>8. CASE (UNCHANGED faults \/ Fault) /\ Reconnect(c) /\ UNCHANGED row
  <2>1. TypeOK'
      BY <1>2, <1>3, <1>8, Typed
  <2>2. QED
      BY <1>2, <1>3, <1>8, <2>1, Leaves
<1>9. QED
    BY <1>1, <1>6, <1>7, <1>8 DEF Mark, NotMarked

(* release_claim ends the lease of the claim at most.                      *)
LEMMA ReleaseKeeps == ASSUME IInv, NEW c \in Consumers, Release(c) PROVE IInv'
<1>1. PICK e \in Events : e = consumer[c].msg.event
    BY BusyJob DEF Release
<1>2. Reconnect(c) /\ UNCHANGED <<queue, dead, emitted, published>> /\ (faults' = faults \/ Fault)
    BY DEF Release
<1>3. /\ TypeOK /\ row \in [Events -> Rows] /\ dead \in [Events -> Nat] /\ emitted \in [Events -> Nat]
      /\ queue \subseteq Messages
    BY DEF IInv, TypeOK, Rows
<1>4. PICK live \in BOOLEAN : row' = row \/ row' = [row EXCEPT ![e] = [row[e] EXCEPT !.live = live]]
  <2>1. row[e].live \in BOOLEAN
      BY <1>3 DEF Rows
  <2>2. (row[e].live /\ ~Fenced(c)) \in BOOLEAN
      BY <2>1
  <2>3. row' = row \/ row' = [row EXCEPT ![e] = [row[e] EXCEPT !.live = row[e].live /\ ~Fenced(c)]]
      BY <1>1 DEF Release
  <2>4. QED
      BY <2>2, <2>3
<1>5. /\ [row[e] EXCEPT !.live = live] \in Rows
      /\ [row[e] EXCEPT !.live = live].status = row[e].status
      /\ [row[e] EXCEPT !.live = live].attempts = row[e].attempts
  <2>1. row[e] \in Rows
      BY <1>3
  <2>2. QED
      BY <2>1 DEF Rows
<1>6. /\ row' \in [Events -> Rows]
      /\ \A f \in Events : row'[f].status = row[f].status /\ row'[f].attempts = row[f].attempts
    BY <1>3, <1>4, <1>5
<1>7. TypeOK'
    BY <1>2, <1>3, <1>6, Typed
<1>8. QED
    BY <1>2, <1>3, <1>6, <1>7, Leaves

(* ack_delivery takes a settled message off the queue.                     *)
LEMMA AckKeeps == ASSUME IInv, NEW c \in Consumers, Ack(c) PROVE IInv'
<1>1. /\ Reconnect(c) /\ consumer[c].pc = "ack" /\ UNCHANGED <<dead, row, emitted, published>>
      /\ faults' = faults \/ Fault
      /\ queue' \in {queue, queue \ {consumer[c].msg}}
    BY DEF Ack
<1>2. /\ TypeOK /\ row \in [Events -> Rows] /\ dead \in [Events -> Nat] /\ emitted \in [Events -> Nat]
      /\ queue \subseteq Messages
    BY DEF IInv, TypeOK, Rows
<1>3. TypeOK'
    BY <1>1, <1>2, Typed
<1>4. QED
    BY <1>1, <1>2, <1>3, Leaves

(* recover_malformed_delivery leaves a copy before the message goes.       *)
LEMMA RecoverMalformedKeeps == ASSUME IInv, NEW c \in Consumers, RecoverMalformed(c) PROVE IInv'
<1>1. PICK e \in Events : e = consumer[c].msg.event
    BY BusyJob DEF RecoverMalformed
<1>2. /\ consumer[c].pc = "malformed" /\ JobOK(consumer[c]) /\ e \in Malformed
      /\ UNCHANGED <<row, emitted, published>>
    BY <1>1, BusyJob DEF RecoverMalformed, JobOK
<1>3. /\ TypeOK /\ row \in [Events -> Rows] /\ dead \in [Events -> Nat] /\ emitted \in [Events -> Nat]
      /\ queue \subseteq Messages
    BY DEF IInv, TypeOK, Rows
<1>4. Copied(e) \in [Events -> Nat] /\ Copied(e)[e] > 0 /\ \A f \in Events : Copied(e)[f] >= dead[f]
    BY <1>3 DEF Copied
<1>5. CASE dead' = Copied(e) /\ Goto(c, "ack") /\ UNCHANGED <<queue, faults>>
  <2>1. "ack" \in Steps
      BY DEF Steps
  <2>2. TypeOK'
      BY <1>2, <1>3, <1>4, <1>5, <2>1, Typed
  <2>3. ASSUME NEW j \in Jobs, j.pc = "ack", j.msg = consumer[c].msg, j.claim = consumer[c].claim
        PROVE  JobOK(j)'
      BY <1>1, <1>2, <1>4, <1>5, <2>3 DEF JobOK, UnderClaim, Settled
  <2>4. MayAck(consumer[c].msg)
      BY <1>1, <1>4, <1>5 DEF MayAck
  <2>5. QED
      BY <1>2, <1>3, <1>4, <1>5, <2>1, <2>2, <2>3, <2>4, GoesOn
<1>6. CASE /\ dead' \in {dead, Copied(e)} /\ Reconnect(c) /\ (faults' = faults \/ Fault)
           /\ queue' = queue \/ (dead' = Copied(e) /\ queue' = queue \ {consumer[c].msg})
  <2>1. TypeOK'
      BY <1>2, <1>3, <1>4, <1>6, Typed
  <2>2. \A f \in Events : dead'[f] >= dead[f]
      BY <1>3, <1>4, <1>6
  <2>3. \A m \in queue \ queue' : /\ m = consumer[c].msg /\ consumer[c].pc # "idle"
                                  /\ m.event \in Malformed /\ dead'[m.event] > 0
      BY <1>1, <1>2, <1>4, <1>6
  <2>4. QED
      BY <1>2, <1>3, <1>6, <2>1, <2>2, <2>3, Leaves
<1>7. QED
    BY <1>1, <1>5, <1>6 DEF RecoverMalformed

(* A replica that dies leaves its message on the queue.                    *)
LEMMA CrashKeeps == ASSUME IInv, NEW c \in Consumers, Crash(c) PROVE IInv'
<1>1. Reconnect(c) /\ Fault /\ UNCHANGED <<queue, dead, row, emitted, published>>
    BY DEF Crash
<1>2. /\ TypeOK /\ row \in [Events -> Rows] /\ dead \in [Events -> Nat] /\ emitted \in [Events -> Nat]
      /\ queue \subseteq Messages
    BY DEF IInv, TypeOK, Rows
<1>3. TypeOK'
    BY <1>1, <1>2, Typed
<1>4. QED
    BY <1>1, <1>2, <1>3, Leaves

-----------------------------------------------------------------------------
(* Every step of the API, the broker and the consumers keeps IInv.         *)
LEMMA NextIInv == IInv /\ [Next]_vars => IInv'
<1> SUFFICES ASSUME IInv, [Next]_vars PROVE IInv'
    OBVIOUS
<1>1. ASSUME NEW e \in Events, PublishOrder(e) \/ Expire(e) PROVE IInv'
    BY <1>1, PublishKeeps, ExpireKeeps
<1>2. ASSUME NEW c \in Consumers, ConsumerStep(c) PROVE IInv'
  <2>1. ASSUME NEW msg \in queue, Deliver(c, msg) PROVE IInv'
      BY <2>1, DeliverKeeps
  <2>2. QED
      BY <1>2, <2>1, ClaimKeeps, DeadLetterKeeps, RetryKeeps, ConsumeKeeps, MarkKeeps, ReleaseKeeps,
         AckKeeps, RecoverMalformedKeeps DEF ConsumerStep
<1>3. ASSUME NEW c \in Consumers, Crash(c) PROVE IInv'
    BY <1>3, CrashKeeps
<1>4. CASE UNCHANGED vars
    BY <1>4 DEF vars, IInv, TypeOK, JobsOK, JobOK, Settled, OneHolder, RowsOK, RowOK, QueuePublished,
                AllBacked, Backed, Kept, ClaimsDistinct, EmittedIsSpent, Spent, Works
<1>5. QED
    BY <1>1, <1>2, <1>3, <1>4 DEF Next

(* IInv holds in every reachable state of the orders service.              *)
LEMMA IInvHolds == Spec => []IInv
BY InitIInv, NextIInv, PTL DEF Spec

(* The inbox, the queues and the consumers keep their types.               *)
THEOREM TypeCorrect == Spec => []TypeOK
BY IInvHolds, PTL DEF IInv

(* No order event is lost between POST /order and its end: an open event   *)
(* has a message that comes back to it, one that waits for its retry has a *)
(* message that may claim it, and a closed row has its outcome, whichever  *)
(* of the row, the publication and the acknowledgement fails.              *)
THEOREM NoEventIsLost == Spec => []NothingLost
<1>1. IInv => NothingLost
  <2> SUFFICES ASSUME IInv, NEW e \in published
               PROVE  CASE row[e].status = "retry_scheduled" ->
                             \E msg \in queue : msg.event = e /\ msg.attempt > row[e].attempts
                        [] row[e].status = "dead_lettered" -> dead[e] > 0
                        [] row[e].status = "completed" -> e \notin Poison /\ emitted[e] > 0
                        [] OTHER -> dead[e] > 0 \/ \E msg \in queue : msg.event = e
      BY Zenon DEF NothingLost
  <2>1. Backed(e)
      BY DEF IInv, AllBacked
  <2>2. QED
      BY <2>1 DEF Backed
<1>2. QED
    BY <1>1, IInvHolds, PTL

(* Redelivery cannot reset the retry budget: an event is consumed at most  *)
(* MAX_ATTEMPTS times and at most once per claim of its row, and no        *)
(* consumer works under a claim ahead of the row.                          *)
THEOREM RetryBudgetKept == Spec => []BudgetNotReset
<1>1. IInv => BudgetNotReset
  <2> SUFFICES ASSUME IInv, NEW e \in Events
               PROVE  /\ emitted[e] <= MaxAttempts
                      /\ emitted[e] <= row[e].attempts
                      /\ \A c \in Consumers :
                           consumer[c].msg.event = e => consumer[c].claim <= row[e].attempts
      BY DEF BudgetNotReset
  <2>1. row[e].attempts \in Nat /\ emitted[e] \in Nat /\ MaxAttempts \in Nat
      BY DEF IInv, TypeOK
  <2>2. emitted[e] <= Cardinality(Spent(e)) /\ Cardinality(Spent(e)) \in Nat
        /\ Cardinality(Spent(e)) <= MaxAttempts /\ Cardinality(Spent(e)) <= row[e].attempts
      BY <2>1, SpentFinite DEF IInv, EmittedIsSpent
  <2>3. ASSUME NEW c \in Consumers, consumer[c].msg.event = e
        PROVE  consumer[c].claim <= row[e].attempts
      BY <2>1, <2>3 DEF IInv, JobsOK, JobOK
  <2>4. QED
      BY <2>1, <2>2, <2>3
<1>2. QED
    BY <1>1, IInvHolds, PTL

(* Two consumers never work under the same claim of an event, although a   *)
(* lease may run out under a consumer that is only slow.                   *)
THEOREM ClaimsStayDistinct == Spec => []ClaimsDistinct
BY IInvHolds, PTL DEF IInv
=============================================================================
