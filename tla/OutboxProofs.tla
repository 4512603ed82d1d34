---------------------------- MODULE OutboxProofs ----------------------------
(***************************************************************************)
(* Proofs about the outbox for every set of events, every number of        *)
(* publisher loops and every budget.                                       *)
(***************************************************************************)
EXTENDS Outbox, FiniteSetTheorems, TLAPS

\* A claim of a message's event and token within the budgets spent so far.
InBudget(m) ==
    /\ m[2][1] <= replays[m[1]]
    /\ m[2][2] \in 1..MaxAttempts

(* What every loop and every message on the wire carries was issued by a   *)
(* claim, and a loop that saw its confirmation has its message routed.     *)
LoopsInBudget ==
    \A p \in Publishers :
        pub[p].pc # "idle" => pub[p].event \in Events /\ InBudget(Message(p))
WireInBudget == \A m \in wire : InBudget(m)
AckedWasRouted ==
    \A p \in Publishers : pub[p].pc = "acked" => Message(p) \in delivered

IInv ==
    /\ TypeOK
    /\ LoopsInBudget
    /\ WireInBudget
    /\ AckedWasRouted
    /\ PublishedWasRouted
    /\ CopiesWithinBudget

USE OutboxAssumption

(* The initial state, in which finalize_order has inserted no row yet,      *)
(* satisfies the inductive invariant.                                       *)
LEMMA InitIInv == Init => IInv
BY DEF Init, IInv, TypeOK, LoopsInBudget, WireInBudget, AckedWasRouted,
       PublishedWasRouted, CopiesWithinBudget, Idle, Absent, Rows, Loops,
       Statuses, Phases, Tokens, NoToken, NoEvent, Messages

\* The loop p enters phase x; nothing else about the loops changes.
Enters(p, x) ==
    /\ pub' \in [Publishers -> Loops]
    /\ \A q \in Publishers :
          /\ pub'[q].event = pub[q].event /\ pub'[q].token = pub[q].token
          /\ pub'[q].pc = IF q = p THEN x ELSE pub[q].pc

(* A loop that moves to another phase keeps its event and its token.        *)
LEMMA PhaseStep ==
    ASSUME NEW p \in Publishers, NEW x \in Phases,
           pub \in [Publishers -> Loops], pub' = [pub EXCEPT ![p].pc = x]
    PROVE  Enters(p, x)
<1>1. pub[p] \in Loops
    OBVIOUS
<1>2. /\ [pub[p] EXCEPT !.pc = x] \in Loops
      /\ [pub[p] EXCEPT !.pc = x].pc = x
      /\ [pub[p] EXCEPT !.pc = x].event = pub[p].event
      /\ [pub[p] EXCEPT !.pc = x].token = pub[p].token
    BY <1>1 DEF Loops
<1>3. pub' = [q \in Publishers |-> IF q = p THEN [pub[p] EXCEPT !.pc = x] ELSE pub[q]]
    OBVIOUS
<1>4. QED
    BY <1>2, <1>3 DEF Enters

(* Every step of the publisher loops, the broker, the clock and the         *)
(* operator preserves it.                                                   *)
LEMMA NextIInv == IInv /\ [Next]_vars => IInv'
<1> SUFFICES ASSUME IInv, [Next]_vars PROVE IInv'
    OBVIOUS
<1> USE DEF IInv, TypeOK, LoopsInBudget, WireInBudget, AckedWasRouted,
            PublishedWasRouted, CopiesWithinBudget, InBudget, Message, Messages,
            Rows, Loops, Statuses, Phases, Tokens, NoToken, NoEvent
<1>1. ASSUME NEW e \in Events, Enqueue(e) PROVE IInv'
    BY <1>1 DEF Enqueue, Queued
<1>2. ASSUME NEW e \in Events, Elapse(e) PROVE IInv'
  <2>1. /\ row' \in [Events -> Rows]
        /\ \A f \in Events : row'[f].status = row[f].status
    <3>1. row[e] \in Rows
      OBVIOUS
    <3>2. [row[e] EXCEPT !.due = TRUE] \in Rows
      BY <3>1
    <3>3. QED
      BY <1>2, <3>2 DEF Elapse
  <2>2. QED
    BY <1>2, <2>1 DEF Elapse
<1>3. ASSUME NEW e \in Events, Replay(e) PROVE IInv'
    BY <1>3 DEF Replay, Queued
<1>4. ASSUME NEW p \in Publishers, Sweep(p) PROVE IInv'
    BY <1>4 DEF Sweep, Swept, Released
<1>5. ASSUME NEW p \in Publishers, NEW e \in Events, Claim(p, e) PROVE IInv'
    BY <1>5 DEF Claim, Claimable, NextToken, Swept, Released
<1>6. ASSUME NEW p \in Publishers, Send(p) PROVE IInv'
    BY <1>6 DEF Send
<1>7. ASSUME NEW p \in Publishers, NEW r \in {"transient", "permanent"}, SendFails(p, r)
      PROVE IInv'
  <2>1. pub[p].pc = "claimed" /\ UNCHANGED <<row, replays, wire, delivered>>
    BY <1>7 DEF SendFails
  <2>2. Enters(p, r)
    <3>1. r \in Phases /\ pub' = [pub EXCEPT ![p].pc = r]
      BY <1>7 DEF SendFails
    <3>2. pub \in [Publishers -> Loops]
      OBVIOUS
    <3> HIDE DEF IInv, Phases, Loops
    <3>3. QED
      BY <3>1, <3>2, PhaseStep, Zenon
  <2>3. QED
    BY <2>1, <2>2 DEF Enters
<1>8. ASSUME NEW p \in Publishers, ConfirmFails(p) PROVE IInv'
  <2>1. pub[p].pc = "sent" /\ UNCHANGED <<row, replays, wire, delivered>>
    BY <1>8 DEF ConfirmFails
  <2>2. Enters(p, "transient")
    <3>1. "transient" \in Phases /\ pub' = [pub EXCEPT ![p].pc = "transient"]
      BY <1>8 DEF ConfirmFails
    <3>2. pub \in [Publishers -> Loops]
      OBVIOUS
    <3> HIDE DEF IInv, Phases, Loops
    <3>3. QED
      BY <3>1, <3>2, PhaseStep, Zenon
  <2>3. QED
    BY <2>1, <2>2 DEF Enters
<1>9. ASSUME NEW p \in Publishers, Settle(p) PROVE IInv'
  <2> DEFINE e == pub[p].event
             status == IF pub[p].pc = "acked" THEN "published" ELSE FailureStatus(p)
  <2>1. /\ pub[p].pc \in {"acked", "transient", "permanent"}
        /\ UNCHANGED <<replays, wire, delivered>>
        /\ pub' = [pub EXCEPT ![p] = Idle]
        /\ row' = row \/ row' = [row EXCEPT ![e] = Released(row[e], status)]
    BY <1>9 DEF Settle
  <2>2. pub' \in [Publishers -> Loops] /\ pub'[p].pc = "idle"
    BY <2>1 DEF Idle
  <2>3. \A q \in Publishers : q # p => pub'[q] = pub[q]
    BY <2>1
  <2>4. LoopsInBudget' /\ WireInBudget' /\ AckedWasRouted' /\ CopiesWithinBudget'
    BY <2>1, <2>2, <2>3
  <2>5. e \in Events /\ status \in Statuses
    BY <2>1 DEF FailureStatus
  <2>6. Released(row[e], status) \in Rows /\ Released(row[e], status).status = status
    BY <2>5 DEF Released
  <2>7. row' \in [Events -> Rows]
    BY <2>1, <2>5, <2>6
  <2>8. status = "published" => Message(p) \in delivered
    BY <2>1 DEF FailureStatus
  <2>9. PublishedWasRouted'
    BY <2>1, <2>5, <2>6, <2>8
  <2>10. QED
    BY <2>1, <2>2, <2>4, <2>7, <2>9
<1>10. ASSUME NEW p \in Publishers, Crash(p) PROVE IInv'
    BY <1>10 DEF Crash, Idle
<1>11. ASSUME NEW p \in Publishers, NEW a \in Answers, Answer(p, a) PROVE IInv'
  <2>1. Confirmed(a) \in {"acked", "permanent", "transient"}
        /\ (Confirmed(a) = "acked" <=> a = "ack")
    BY DEF Answers, Confirmed
  <2>2. /\ pub[p].pc = "sent" /\ Message(p) \in wire
        /\ UNCHANGED <<row, replays>>
        /\ wire' \subseteq wire
        /\ delivered' = IF a = "ack" THEN delivered \cup {Message(p)} ELSE delivered
    BY <1>11 DEF Answer
  <2>3. Enters(p, Confirmed(a))
    <3>1. Confirmed(a) \in Phases /\ pub' = [pub EXCEPT ![p].pc = Confirmed(a)]
      BY <1>11, <2>1 DEF Answer
    <3>2. pub \in [Publishers -> Loops]
      OBVIOUS
    <3> HIDE DEF IInv, Phases, Loops
    <3>3. QED
      BY <3>1, <3>2, PhaseStep, Zenon
  <2>4. TypeOK' /\ WireInBudget' /\ CopiesWithinBudget' /\ PublishedWasRouted'
    BY <2>2, <2>3 DEF Enters
  <2>5. LoopsInBudget'
    BY <2>1, <2>2, <2>3 DEF Enters
  <2>6. AckedWasRouted'
    BY <2>1, <2>2, <2>3 DEF Enters
  <2>7. QED
    BY <2>4, <2>5, <2>6
<1>12. ASSUME NEW m \in wire, NEW b \in BOOLEAN, AnswerLost(m, b) PROVE IInv'
    BY <1>12 DEF AnswerLost
<1>13. CASE UNCHANGED vars
    BY <1>13 DEF vars
<1> HIDE DEF IInv, TypeOK, LoopsInBudget, WireInBudget, AckedWasRouted,
             PublishedWasRouted, CopiesWithinBudget, InBudget, Message, Messages,
             Rows, Loops, Statuses, Phases, Tokens, NoToken, NoEvent
<1>14. QED
    BY <1>1, <1>2, <1>3, <1>4, <1>5, <1>6, <1>7, <1>8, <1>9, <1>10, <1>11, <1>12, <1>13
       DEF Next, Poll, LoopStep

-----------------------------------------------------------------------------
(* The outbox rows and publisher loops keep their types: attempts never      *)
(* exceeds OUTBOX_MAX_ATTEMPTS.                                             *)
THEOREM TypeCorrect == Spec => []TypeOK
<1>1. IInv => TypeOK
    BY DEF IInv
<1>2. QED
    BY InitIInv, NextIInv, <1>1, PTL DEF Spec

(* publish_one_outbox marks only routed events published.                   *)
THEOREM PublishedRouted == Spec => []PublishedWasRouted
<1>1. IInv => PublishedWasRouted
    BY DEF IInv
<1>2. QED
    BY InitIInv, NextIInv, <1>1, PTL DEF Spec

(* Every routed copy belongs to one claim of one publish budget.            *)
THEOREM DuplicatesBounded == Spec => []CopiesWithinBudget
<1>1. IInv => CopiesWithinBudget
    BY DEF IInv
<1>2. QED
    BY InitIInv, NextIInv, <1>1, PTL DEF Spec

(* While the lease of claim_outbox_event runs, only its holder settles the  *)
(* row.                                                                     *)
THEOREM ClaimExclusive == Spec => LiveClaimIsExclusive
<1> DEFINE A == \A e \in Events :
         (row[e].status = "processing" /\ ~row[e].due /\ row'[e] # row[e])
           => \/ row'[e] = [row[e] EXCEPT !.due = TRUE]
              \/ \E p \in Publishers :
                   /\ pub[p].event = e /\ pub[p].token = row[e].token
                   /\ pub'[p] = Idle
<1>1. IInv /\ [Next]_vars => [A]_vars
  <2> SUFFICES ASSUME IInv, [Next]_vars, NEW e \in Events,
                      row[e].status = "processing", ~row[e].due, row'[e] # row[e]
               PROVE  \/ row'[e] = [row[e] EXCEPT !.due = TRUE]
                      \/ \E p \in Publishers :
                           /\ pub[p].event = e /\ pub[p].token = row[e].token
                           /\ pub'[p] = Idle
    OBVIOUS
  <2> USE DEF IInv, TypeOK, Rows, Loops
  <2>1. ASSUME NEW f \in Events, Enqueue(f) \/ Elapse(f) \/ Replay(f)
        PROVE  row'[e] = [row[e] EXCEPT !.due = TRUE]
    BY <2>1 DEF Enqueue, Elapse, Replay
  <2>2. ASSUME NEW p \in Publishers, Sweep(p) PROVE FALSE
    BY <2>2 DEF Sweep, Swept, Exhausted
  <2>3. ASSUME NEW p \in Publishers, NEW f \in Events, Claim(p, f) PROVE FALSE
    BY <2>3 DEF Claim, Swept, Exhausted, Claimable
  <2>4. ASSUME NEW p \in Publishers, Settle(p)
        PROVE  pub[p].event = e /\ pub[p].token = row[e].token /\ pub'[p] = Idle
    BY <2>4 DEF Settle, HoldsClaim
  <2>5. ASSUME row' = row PROVE FALSE
    BY <2>5
  <2>6. QED
    BY <2>1, <2>2, <2>3, <2>4, <2>5
       DEF Next, Poll, LoopStep, Send, SendFails, ConfirmFails, Crash, Answer, AnswerLost, vars
<1>2. QED
    BY InitIInv, NextIInv, <1>1, PTL DEF Spec, LiveClaimIsExclusive

(* A published row never changes again, and a dead-lettered one only when  *)
(* the operator replays it: a publisher that wakes late revives neither.   *)
THEOREM TerminalRowsFinal == Spec => TerminalRowsStay
<1> DEFINE A == \A e \in Events :
         /\ row[e].status = "published" => row'[e] = row[e]
         /\ (row[e].status = "failed" /\ row'[e] # row[e]) => replays'[e] = replays[e] + 1
<1>1. IInv /\ [Next]_vars => [A]_vars
  <2> SUFFICES ASSUME IInv, [Next]_vars, NEW e \in Events,
                      row[e].status \in {"published", "failed"}, row'[e] # row[e]
               PROVE  row[e].status = "failed" /\ replays'[e] = replays[e] + 1
    OBVIOUS
  <2> USE DEF IInv, TypeOK, Rows, Loops
  <2>1. ASSUME NEW f \in Events, Enqueue(f) \/ Elapse(f) PROVE FALSE
    BY <2>1 DEF Enqueue, Elapse, Absent
  <2>2. ASSUME NEW f \in Events, Replay(f)
        PROVE  row[e].status = "failed" /\ replays'[e] = replays[e] + 1
    BY <2>2 DEF Replay
  <2>3. ASSUME NEW p \in Publishers, Sweep(p) PROVE FALSE
    BY <2>3 DEF Sweep, Swept, Exhausted
  <2>4. ASSUME NEW p \in Publishers, NEW f \in Events, Claim(p, f) PROVE FALSE
    BY <2>4 DEF Claim, Swept, Exhausted, Claimable
  <2>5. ASSUME NEW p \in Publishers, Settle(p) PROVE FALSE
    BY <2>5 DEF Settle, HoldsClaim
  <2>6. ASSUME row' = row PROVE FALSE
    BY <2>6
  <2>7. QED
    BY <2>1, <2>2, <2>3, <2>4, <2>5, <2>6
       DEF Next, Poll, LoopStep, Send, SendFails, ConfirmFails, Crash, Answer, AnswerLost, vars
<1>2. QED
    BY InitIInv, NextIInv, <1>1, PTL DEF Spec, TerminalRowsStay

-----------------------------------------------------------------------------
(* The outbox implements LeasedDelivery.  Its promise counts the copies of  *)
(* an event against the claims ever made for it, so the invariant has to    *)
(* say more than CopiesWithinBudget: the token of every copy was issued by  *)
(* a claim of an earlier budget or by one of the claims made so far in this *)
(* one, and the tokens issued are as many as those claims.                  *)

\* The tokens that the claims of an event with r replays and n attempts got.
Issued(r, n) == ((0..(r - 1)) \X (1..MaxAttempts)) \cup ({r} \X (1..n))

ByClaim(m) == m[2] \in Issued(replays[m[1]], row[m[1]].attempts)

LoopsByClaim == \A p \in Publishers : pub[p].pc # "idle" => ByClaim(Message(p))
WireByClaim == \A m \in wire : ByClaim(m)
CopiesByClaim == \A m \in delivered : ByClaim(m)
AbsentIsUnclaimed == \A e \in Events : row[e].status = "absent" => row[e].attempts = 0

RInv ==
    /\ LoopsByClaim
    /\ WireByClaim
    /\ CopiesByClaim
    /\ AbsentIsUnclaimed

\* A step may add to the claims of an event or open a new budget, and take none back.
BudgetGrows(e) ==
    \/ replays'[e] = replays[e] /\ row'[e].attempts >= row[e].attempts
    \/ replays'[e] = replays[e] + 1

(* An interval of numbers is finite and has as many members as its length.  *)
LEMMA UpTo ==
  ASSUME NEW n \in Nat
  PROVE  /\ IsFiniteSet(1..n) /\ Cardinality(1..n) = n
         /\ IsFiniteSet(0..(n - 1)) /\ Cardinality(0..(n - 1)) = n
<1>1. /\ 1 \in Int /\ n \in Int /\ 0 \in Int /\ n - 1 \in Int
    OBVIOUS
<1>2. /\ IsFiniteSet(1..n) /\ Cardinality(1..n) = IF 1 > n THEN 0 ELSE n - 1 + 1
      /\ IsFiniteSet(0..(n - 1)) /\ Cardinality(0..(n - 1)) = IF 0 > n - 1 THEN 0 ELSE (n - 1) - 0 + 1
    BY <1>1, FS_Interval, Zenon
<1>3. QED
    BY <1>2

(* As many tokens as claims.                                                *)
LEMMA IssuedCount ==
  ASSUME NEW r \in Nat, NEW n \in Nat
  PROVE  /\ IsFiniteSet(Issued(r, n))
         /\ Cardinality(Issued(r, n)) = r * MaxAttempts + n
<1> DEFINE A == (0..(r - 1)) \X (1..MaxAttempts)
           B == {r} \X (1..n)
<1>1. IsFiniteSet(A) /\ Cardinality(A) = r * MaxAttempts
  <2>1. MaxAttempts \in Nat
      OBVIOUS
  <2>2. /\ IsFiniteSet(0..(r - 1)) /\ Cardinality(0..(r - 1)) = r
        /\ IsFiniteSet(1..MaxAttempts) /\ Cardinality(1..MaxAttempts) = MaxAttempts
      BY <2>1, UpTo
  <2>3. /\ IsFiniteSet(A)
        /\ Cardinality(A) = Cardinality(0..(r - 1)) * Cardinality(1..MaxAttempts)
      BY <2>2, FS_Product, Zenon
  <2>4. QED
      BY <2>2, <2>3, Zenon
<1>2. IsFiniteSet(B) /\ Cardinality(B) = n
  <2>1. IsFiniteSet({r}) /\ Cardinality({r}) = 1
      BY FS_Singleton
  <2>2. IsFiniteSet(1..n) /\ Cardinality(1..n) = n
      BY UpTo
  <2>3. IsFiniteSet(B) /\ Cardinality(B) = Cardinality({r}) * Cardinality(1..n)
      BY <2>1, <2>2, FS_Product, Zenon
  <2>4. QED
      BY <2>1, <2>2, <2>3
<1>3. A \cap B = {}
    OBVIOUS
<1>4. /\ IsFiniteSet(A \cup B)
      /\ Cardinality(A \cup B) = Cardinality(A) + Cardinality(B) - Cardinality(A \cap B)
    BY <1>1, <1>2, FS_Union
<1>5. Cardinality(A \cap B) = 0
    BY <1>3, FS_EmptySet
<1>6. r * MaxAttempts \in Nat
    OBVIOUS
<1>7. QED
    BY <1>1, <1>2, <1>4, <1>5, <1>6 DEF Issued

(* A token once issued stays issued.                                        *)
LEMMA IssuedGrows ==
  ASSUME NEW r \in Nat, NEW n \in 0..MaxAttempts, NEW s \in Nat, NEW k \in Nat,
         (s = r /\ k >= n) \/ s = r + 1
  PROVE  Issued(r, n) \subseteq Issued(s, k)
BY DEF Issued

(* No row, no claim, no message.                                            *)
LEMMA InitRInv == Init => RInv
BY DEF Init, RInv, LoopsByClaim, WireByClaim, CopiesByClaim, AbsentIsUnclaimed, Idle, Absent

(* Every step only adds to the claims of an event, and a loop that takes a  *)
(* row gets the token of its new claim.                                     *)
LEMMA NextRInv == IInv /\ RInv /\ [Next]_vars => RInv'
<1> SUFFICES ASSUME IInv, RInv, [Next]_vars PROVE RInv'
    OBVIOUS
<1>0. /\ row \in [Events -> Rows] /\ pub \in [Publishers -> Loops] /\ wire \subseteq Messages
      /\ delivered \subseteq Messages /\ replays \in [Events -> Nat]
      /\ \A e \in Events : /\ row[e].attempts \in 0..MaxAttempts /\ row[e].attempts \in Nat
                           /\ replays[e] \in Nat
    BY DEF IInv, TypeOK, Rows
<1>1. \A p \in Publishers : pub[p].pc # "idle" => pub[p].event \in Events
    BY DEF IInv, LoopsInBudget
<1>t. row' \in [Events -> Rows] /\ replays' \in [Events -> Nat]
      /\ \A e \in Events : row'[e].attempts \in Nat /\ replays'[e] \in Nat
  <2>1. TypeOK'
      BY NextIInv DEF IInv
  <2>2. QED
      BY <2>1 DEF TypeOK, Rows
<1>a. ASSUME NEW e \in Events, BudgetGrows(e)
      PROVE  Issued(replays[e], row[e].attempts) \subseteq Issued(replays'[e], row'[e].attempts)
    BY <1>0, <1>t, <1>a, IssuedGrows DEF BudgetGrows
<1>b. ASSUME \A e \in Events : BudgetGrows(e),
             \A e \in Events : row'[e].status = "absent" => row'[e].attempts = 0,
             \A p \in Publishers : \/ pub'[p].event = pub[p].event /\ pub'[p].token = pub[p].token
                                      /\ (pub'[p].pc # "idle" => pub[p].pc # "idle")
                                   \/ pub'[p].pc = "idle"
                                   \/ ByClaim(Message(p))',
             wire' \subseteq wire \cup {Message(p) : p \in {q \in Publishers : pub[q].pc # "idle"}},
             delivered' \subseteq delivered \cup wire
      PROVE  RInv'
  <2>1. ASSUME NEW m, m[1] \in Events, ByClaim(m) PROVE ByClaim(m)'
      BY <1>a, <1>b, <2>1 DEF ByClaim
  <2>2. LoopsByClaim'
    <3> SUFFICES ASSUME NEW p \in Publishers, pub'[p].pc # "idle", ~ByClaim(Message(p))'
                 PROVE  FALSE
        BY DEF LoopsByClaim
    <3>1. pub[p].pc # "idle" /\ Message(p)' = Message(p)
        BY <1>b DEF Message
    <3>2. ByClaim(Message(p)) /\ Message(p)[1] \in Events
        BY <1>1, <3>1 DEF RInv, LoopsByClaim, Message
    <3>3. QED
        BY <2>1, <3>1, <3>2 DEF ByClaim
  <2>3. ASSUME NEW p \in Publishers, pub[p].pc # "idle"
        PROVE  Message(p)[1] \in Events /\ ByClaim(Message(p))
      BY <1>1, <2>3 DEF RInv, LoopsByClaim, Message
  <2>4. WireByClaim'
    <3> SUFFICES ASSUME NEW m \in wire' PROVE ByClaim(m)'
        BY DEF WireByClaim
    <3>1. m[1] \in Events /\ ByClaim(m)
      <4>1. CASE m \in wire
          BY <1>0, <4>1 DEF RInv, WireByClaim, Messages
      <4>2. CASE m \notin wire
          BY <1>b, <2>3, <4>2
      <4>3. QED
          BY <4>1, <4>2
    <3>2. QED
        BY <2>1, <3>1
  <2>5. CopiesByClaim'
    <3> SUFFICES ASSUME NEW m \in delivered' PROVE ByClaim(m)'
        BY DEF CopiesByClaim
    <3>1. m \in Messages /\ ByClaim(m)
        BY <1>0, <1>b DEF RInv, CopiesByClaim, WireByClaim
    <3>2. QED
        BY <2>1, <3>1 DEF Messages
  <2>6. QED
      BY <1>b, <2>2, <2>4, <2>5 DEF RInv, AbsentIsUnclaimed
<1>2. ASSUME row' = row, replays' = replays
      PROVE  /\ \A e \in Events : BudgetGrows(e)
             /\ \A e \in Events : row'[e].status = "absent" => row'[e].attempts = 0
    BY <1>0, <1>2 DEF BudgetGrows, RInv, AbsentIsUnclaimed
<1>3. ASSUME NEW e \in Events, Enqueue(e) \/ Elapse(e) \/ Replay(e) PROVE RInv'
  <2>1. \A f \in Events : BudgetGrows(f)
      BY <1>0, <1>3 DEF Enqueue, Elapse, Replay, Queued, BudgetGrows, RInv, AbsentIsUnclaimed, Rows
  <2>2. \A f \in Events : row'[f].status = "absent" => row'[f].attempts = 0
      BY <1>0, <1>3 DEF Enqueue, Elapse, Replay, Queued, RInv, AbsentIsUnclaimed, Rows
  <2>3. UNCHANGED <<pub, wire, delivered>>
      BY <1>3 DEF Enqueue, Elapse, Replay
  <2>4. QED
      BY <1>b, <2>1, <2>2, <2>3
<1>4. ASSUME NEW p \in Publishers, Sweep(p) PROVE RInv'
  <2>1. \A f \in Events : BudgetGrows(f)
      BY <1>0, <1>4 DEF Sweep, Swept, Released, BudgetGrows
  <2>2. \A f \in Events : row'[f].status = "absent" => row'[f].attempts = 0
      BY <1>0, <1>4 DEF Sweep, Swept, Released, RInv, AbsentIsUnclaimed
  <2>3. UNCHANGED <<pub, wire, delivered>>
      BY <1>4 DEF Sweep
  <2>4. QED
      BY <1>b, <2>1, <2>2, <2>3
<1>5. ASSUME NEW p \in Publishers, NEW e \in Events, Claim(p, e) PROVE RInv'
  <2>1. \A f \in Events : BudgetGrows(f)
      BY <1>0, <1>5 DEF Claim, Swept, Released, BudgetGrows
  <2>2. \A f \in Events : row'[f].status = "absent" => row'[f].attempts = 0
      BY <1>0, <1>5 DEF Claim, Swept, Released, RInv, AbsentIsUnclaimed
  <2>3. UNCHANGED <<wire, delivered, replays>> /\ row'[e].attempts = row[e].attempts + 1
      BY <1>5 DEF Claim
  <2>4. pub'[p].event = e /\ pub'[p].token = <<replays[e], row[e].attempts + 1>>
      BY <1>0, <1>5 DEF Claim, NextToken
  <2>5. \A q \in Publishers \ {p} : pub'[q] = pub[q]
      BY <1>0, <1>5 DEF Claim
  <2>6. ByClaim(Message(p))'
    <3>1. row[e].attempts + 1 \in 1..(row[e].attempts + 1)
        BY <1>0
    <3>2. <<replays[e], row[e].attempts + 1>> \in Issued(replays[e], row[e].attempts + 1)
        BY <3>1 DEF Issued
    <3>3. Message(p)' = <<e, <<replays[e], row[e].attempts + 1>>>>
        BY <2>4 DEF Message
    <3>4. QED
        BY <2>3, <3>2, <3>3 DEF ByClaim
  <2>7. QED
      BY <1>b, <2>1, <2>2, <2>3, <2>5, <2>6
<1>6. ASSUME NEW p \in Publishers, NEW x \in Phases, pub[p].pc # "idle", UNCHANGED <<row, replays>>,
             pub' = [pub EXCEPT ![p].pc = x],
             wire' \subseteq wire \cup {Message(p)}, delivered' \subseteq delivered \cup wire
      PROVE  RInv'
  <2>1. Enters(p, x)
      BY <1>0, <1>6, PhaseStep
  <2>2. \A q \in Publishers : pub'[q].event = pub[q].event /\ pub'[q].token = pub[q].token
                              /\ (pub'[q].pc # "idle" => pub[q].pc # "idle")
      BY <1>6, <2>1 DEF Enters
  <2>3. wire' \subseteq wire \cup {Message(q) : q \in {r \in Publishers : pub[r].pc # "idle"}}
      BY <1>6
  <2>4. QED
      BY <1>b, <1>2, <1>6, <2>2, <2>3
<1>7. ASSUME NEW p \in Publishers, Send(p) \/ ConfirmFails(p) PROVE RInv'
  <2>1. "sent" \in Phases /\ "transient" \in Phases
      BY DEF Phases
  <2>2. QED
      BY <1>6, <1>7, <2>1 DEF Send, ConfirmFails
<1>8. ASSUME NEW p \in Publishers, NEW r \in {"transient", "permanent"}, SendFails(p, r) PROVE RInv'
  <2>1. r \in Phases
      BY DEF Phases
  <2>2. QED
      BY <1>6, <1>8, <2>1 DEF SendFails
<1>9. ASSUME NEW p \in Publishers, Settle(p) PROVE RInv'
  <2>1. PICK e \in Events : e = pub[p].event
      BY <1>1, <1>9 DEF Settle
  <2>2. row' = row \/ \E s \in {"published", "failed", "queued"} :
                         row' = [row EXCEPT ![e] = Released(row[e], s)]
      BY <1>9, <2>1 DEF Settle, FailureStatus
  <2>3. UNCHANGED <<replays, wire, delivered>> /\ pub' = [pub EXCEPT ![p] = Idle]
      BY <1>9 DEF Settle
  <2>4. \A f \in Events : BudgetGrows(f)
      BY <1>0, <2>2, <2>3 DEF Released, BudgetGrows
  <2>5. \A f \in Events : row'[f].status = "absent" => row'[f].attempts = 0
      BY <1>0, <2>2 DEF Released, RInv, AbsentIsUnclaimed
  <2>6. \A q \in Publishers : pub'[q] = pub[q] \/ pub'[q].pc = "idle"
      BY <1>0, <2>3 DEF Idle
  <2>7. QED
      BY <1>b, <2>3, <2>4, <2>5, <2>6
<1>10. ASSUME NEW p \in Publishers, Crash(p) PROVE RInv'
  <2>1. UNCHANGED <<row, replays, wire, delivered>> /\ pub' = [pub EXCEPT ![p] = Idle]
      BY <1>10 DEF Crash
  <2>2. \A q \in Publishers : pub'[q] = pub[q] \/ pub'[q].pc = "idle"
      BY <1>0, <2>1 DEF Idle
  <2>3. QED
      BY <1>b, <1>2, <2>1, <2>2
<1>11. ASSUME NEW p \in Publishers, NEW a \in Answers, Answer(p, a) PROVE RInv'
  <2>1. Confirmed(a) \in Phases
      BY DEF Answers, Confirmed, Phases
  <2>2. /\ pub[p].pc # "idle" /\ UNCHANGED <<row, replays>>
        /\ pub' = [pub EXCEPT ![p].pc = Confirmed(a)]
        /\ wire' \subseteq wire \cup {Message(p)} /\ delivered' \subseteq delivered \cup wire
      BY <1>11 DEF Answer
  <2>3. QED
      BY <1>6, <2>1, <2>2
<1>12. ASSUME NEW m \in wire, NEW b \in BOOLEAN, AnswerLost(m, b) PROVE RInv'
  <2>1. /\ UNCHANGED <<row, replays, pub>>
        /\ wire' \subseteq wire /\ delivered' \subseteq delivered \cup wire
      BY <1>12 DEF AnswerLost
  <2>2. QED
      BY <1>b, <1>2, <2>1
<1>13. CASE UNCHANGED vars
  <2>1. row' = row /\ replays' = replays /\ pub' = pub /\ wire' = wire /\ delivered' = delivered
      BY <1>13 DEF vars
  <2>2. QED
      BY <1>b, <1>2, <2>1
<1>14. QED
    BY <1>3, <1>4, <1>5, <1>7, <1>8, <1>9, <1>10, <1>11, <1>12, <1>13 DEF Next, Poll, LoopStep

\* A row and its replays as LeasedDelivery sees them, and the copies of an event.
View(r, n) ==
    [state |-> PromisedState[r.status], live |-> r.status = "processing" /\ ~r.due,
     tries |-> r.attempts, round |-> n]
Item(e) == View(row[e], replays[e])
Copies(e) == {m \in delivered : m[1] = e}
Views == [state: {"none", "open", "held", "done", "dead"}, live: BOOLEAN, tries: Nat, round: Nat]

(* The states of the promise.                                              *)
LEMMA PromisedStates ==
  /\ PromisedState["absent"] = "none" /\ PromisedState["queued"] = "open"
  /\ PromisedState["processing"] = "held" /\ PromisedState["published"] = "done"
  /\ PromisedState["failed"] = "dead"
BY DEF PromisedState

(* What the rows look like to the promise.                                 *)
LEMMA RowView ==
  ASSUME NEW r \in Rows, NEW n \in Nat
  PROVE  /\ View(r, n) \in Views /\ View(r, n).state = PromisedState[r.status]
         /\ View(r, n).live = (r.status = "processing" /\ ~r.due)
         /\ View(r, n).tries = r.attempts /\ View(r, n).round = n
<1>1. /\ r.status \in Statuses
      /\ (r.status = "processing" /\ ~r.due) \in BOOLEAN /\ r.attempts \in Nat
    BY DEF Rows
<1>2. PromisedState[r.status] \in {"none", "open", "held", "done", "dead"}
    BY <1>1, PromisedStates DEF Statuses
<1>3. QED
    BY <1>1, <1>2 DEF View, Views

(* The moves of the promise, read field by field.                          *)
LEMMA ViewMoves ==
  ASSUME NEW x \in Views, NEW y \in Views
  PROVE  /\ x.state = "none" /\ y.state = "open" /\ y.live = x.live /\ y.tries = x.tries
              /\ y.round = x.round => Promise!Accepted(x, y)
         /\ x.state \in {"open", "held"} /\ x.live = FALSE /\ x.tries < MaxAttempts /\ y.state = "held"
              /\ y.live = TRUE /\ y.tries = x.tries + 1 /\ y.round = x.round => Promise!Taken(x, y)
         /\ x.live = TRUE /\ y.state = x.state /\ y.live = FALSE /\ y.tries = x.tries
              /\ y.round = x.round => Promise!Lapsed(x, y)
         /\ x.state = "held" /\ y.state = "open" /\ y.live = FALSE /\ y.tries = x.tries
              /\ y.round = x.round => Promise!PutBack(x, y)
         /\ (x.state = "held" \/ (x.state = "open" /\ x.tries >= MaxAttempts)) /\ y.state = "dead"
              /\ y.live = FALSE /\ y.tries = x.tries /\ y.round = x.round => Promise!GivenUp(x, y)
         /\ x.state = "dead" /\ y.state = "open" /\ y.live = FALSE /\ y.tries = 0
              /\ y.round = x.round + 1 => Promise!Reopened(x, y)
<1>1. ASSUME NEW s, y.state = s, y.live = x.live, y.tries = x.tries, y.round = x.round
      PROVE  y = [x EXCEPT !.state = s]
    BY <1>1 DEF Views
<1>2. ASSUME NEW s, y.state = s, y.live = FALSE, y.tries = x.tries, y.round = x.round
      PROVE  y = [x EXCEPT !.state = s, !.live = FALSE]
    BY <1>2 DEF Views
<1>3. ASSUME y.state = "held", y.live = TRUE, y.tries = x.tries + 1, y.round = x.round
      PROVE  y = [x EXCEPT !.state = "held", !.live = TRUE, !.tries = x.tries + 1]
    BY <1>3 DEF Views
<1>4. ASSUME y.state = x.state, y.live = FALSE, y.tries = x.tries, y.round = x.round
      PROVE  y = [x EXCEPT !.live = FALSE]
    BY <1>4 DEF Views
<1>5. x.state = "none" /\ y.state = "open" /\ y.live = x.live /\ y.tries = x.tries
        /\ y.round = x.round => Promise!Accepted(x, y)
    BY <1>1 DEF Promise!Accepted
<1>6. x.state \in {"open", "held"} /\ x.live = FALSE /\ x.tries < MaxAttempts /\ y.state = "held"
        /\ y.live = TRUE /\ y.tries = x.tries + 1 /\ y.round = x.round => Promise!Taken(x, y)
    BY <1>3 DEF Promise!Taken
<1>7. x.live = TRUE /\ y.state = x.state /\ y.live = FALSE /\ y.tries = x.tries
        /\ y.round = x.round => Promise!Lapsed(x, y)
    BY <1>4 DEF Promise!Lapsed
<1>8. x.state = "held" /\ y.state = "open" /\ y.live = FALSE /\ y.tries = x.tries
        /\ y.round = x.round => Promise!PutBack(x, y)
    BY <1>2 DEF Promise!PutBack
<1>9. (x.state = "held" \/ (x.state = "open" /\ x.tries >= MaxAttempts)) /\ y.state = "dead"
        /\ y.live = FALSE /\ y.tries = x.tries /\ y.round = x.round => Promise!GivenUp(x, y)
    BY <1>2 DEF Promise!GivenUp
<1>10. x.state = "dead" /\ y.state = "open" /\ y.live = FALSE /\ y.tries = 0
         /\ y.round = x.round + 1 => Promise!Reopened(x, y)
    BY DEF Promise!Reopened, Views
<1>11. QED
    BY <1>5, <1>6, <1>7, <1>8, <1>9, <1>10

(* Published with a copy out is the end the promise knows.                 *)
LEMMA ViewFinished ==
  ASSUME NEW e \in Events, NEW x \in Views, NEW y \in Views, Cardinality(Copies(e)) > 0,
         x.state = "held", y.state = "done", y.live = FALSE, y.tries = x.tries, y.round = x.round
  PROVE  Promise!Finished(e, x, y)
<1>1. y = [x EXCEPT !.state = "done", !.live = FALSE]
    BY DEF Views
<1>2. QED
    BY <1>1 DEF Promise!Finished, Copies

(* A step that delivers nothing and moves the rows, if at all, as the      *)
(* promise allows.                                                         *)
LEMMA RowMoves ==
  ASSUME \A e \in Events : Item(e)' = Item(e) \/ Promise!Moved(e, Item(e), Item(e)'),
         delivered' = delivered
  PROVE  Promise!Next
<1>1. Promise!Move
    BY DEF Promise!Move, Item, View
<1>2. QED
    BY <1>1 DEF Promise!Next

(* The copies of an event are finitely many, and no more than its claims.  *)
LEMMA CopiesCounted ==
  ASSUME IInv, RInv, NEW e \in Events
  PROVE  /\ IsFiniteSet(Copies(e)) /\ Cardinality(Copies(e)) \in Nat
         /\ \A m \in wire \ delivered : m[1] = e =>
               Cardinality(Copies(e)) < replays[e] * MaxAttempts + row[e].attempts
<1>0. replays[e] \in Nat /\ row[e].attempts \in Nat /\ delivered \subseteq Messages /\ wire \subseteq Messages
    BY DEF IInv, TypeOK, Rows
<1> DEFINE I == Issued(replays[e], row[e].attempts)
           All == {e} \X I
<1>1. IsFiniteSet(I) /\ Cardinality(I) = replays[e] * MaxAttempts + row[e].attempts
    BY <1>0, IssuedCount
<1>2. IsFiniteSet(All) /\ Cardinality(All) = Cardinality(I)
  <2>1. IsFiniteSet({e}) /\ Cardinality({e}) = 1
      BY FS_Singleton
  <2>2. IsFiniteSet(All) /\ Cardinality(All) = Cardinality({e}) * Cardinality(I)
      BY <1>1, <2>1, FS_Product, Zenon
  <2>3. Cardinality(I) \in Nat
      BY <1>1, FS_CardinalityType
  <2>4. QED
      BY <2>1, <2>2, <2>3
<1>3. ASSUME NEW m \in Messages, m[1] = e, ByClaim(m) PROVE m \in All
    BY <1>3 DEF ByClaim, Messages
<1>4. Copies(e) \subseteq All
    BY <1>0, <1>3 DEF Copies, RInv, CopiesByClaim
<1>5. IsFiniteSet(Copies(e)) /\ Cardinality(Copies(e)) \in Nat
    BY <1>2, <1>4, FS_Subset, FS_CardinalityType
<1>6. ASSUME NEW m \in wire, m \notin delivered, m[1] = e
      PROVE  Cardinality(Copies(e)) < replays[e] * MaxAttempts + row[e].attempts
  <2>1. m \in All /\ m \notin Copies(e)
      BY <1>0, <1>3, <1>6 DEF Copies, RInv, WireByClaim
  <2>2. Copies(e) # All
      BY <2>1
  <2>3. Cardinality(Copies(e)) <= Cardinality(All) /\ Cardinality(All) # Cardinality(Copies(e))
      BY <1>2, <1>4, <2>2, FS_Subset
  <2>4. Cardinality(All) \in Nat
      BY <1>2, FS_CardinalityType
  <2>5. Cardinality(Copies(e)) < Cardinality(All)
      BY <1>5, <2>3, <2>4
  <2>6. QED
      BY <1>1, <1>2, <2>5
<1>7. QED
    BY <1>5, <1>6

(* The broker routes a message: a copy leaves, or it is one already out.   *)
LEMMA CopyLeaves ==
  ASSUME IInv, RInv, NEW m \in wire, delivered' = delivered \cup {m}, UNCHANGED <<row, replays>>
  PROVE  Promise!Next \/ delivered' = delivered
<1>1. CASE m \in delivered
    BY <1>1
<1>2. CASE m \notin delivered
  <2>1. PICK e \in Events : e = m[1]
      BY DEF IInv, TypeOK, Messages
  <2>2. /\ IsFiniteSet(Copies(e)) /\ Cardinality(Copies(e)) \in Nat
        /\ Cardinality(Copies(e)) < replays[e] * MaxAttempts + row[e].attempts
      BY <1>2, <2>1, CopiesCounted
  <2>3. Copies(e)' = Copies(e) \cup {m} /\ m \notin Copies(e)
      BY <1>2, <2>1 DEF Copies
  <2>4. Cardinality(Copies(e)') = Cardinality(Copies(e)) + 1
      BY <2>2, <2>3, FS_AddElement
  <2>5. \A f \in Events \ {e} : Copies(f)' = Copies(f)
      BY <2>1 DEF Copies
  <2>6. [f \in Events |-> Cardinality(Copies(f)')]
          = [[f \in Events |-> Cardinality(Copies(f))] EXCEPT ![e] = Cardinality(Copies(e)) + 1]
      BY <2>4, <2>5
  <2>7. Promise!Leave(e)
      BY <2>2, <2>6 DEF Promise!Leave, Copies
  <2>8. QED
      BY <2>7 DEF Promise!Next
<1>3. QED
    BY <1>1, <1>2

(* Every step is a step of the promise or changes nothing it speaks of.    *)
LEMMA StepKeepsPromise ==
  ASSUME IInv, RInv, [Next]_vars
  PROVE  Promise!Next \/ UNCHANGED <<row, replays, delivered>>
<1>0. /\ row \in [Events -> Rows] /\ replays \in [Events -> Nat] /\ pub \in [Publishers -> Loops]
      /\ \A e \in Events : /\ row[e] \in Rows /\ row[e].attempts \in Nat /\ replays[e] \in Nat
                           /\ row[e].due \in BOOLEAN
    BY DEF IInv, TypeOK, Rows
<1>t. \A e \in Events : row'[e] \in Rows /\ replays'[e] \in Nat
    BY NextIInv DEF IInv, TypeOK
<1>x. ASSUME NEW e \in Events
      PROVE  /\ Item(e) \in Views /\ Item(e)' \in Views
             /\ Item(e).state = PromisedState[row[e].status]
             /\ Item(e)'.state = PromisedState[row'[e].status]
             /\ Item(e).tries = row[e].attempts /\ Item(e)'.tries = row'[e].attempts
             /\ Item(e).round = replays[e] /\ Item(e)'.round = replays'[e]
  <2>1. row[e] \in Rows /\ replays[e] \in Nat /\ row'[e] \in Rows /\ replays'[e] \in Nat
      BY <1>0, <1>t
  <2>2. QED
      BY <2>1, RowView, Zenon DEF Item
<1>l. ASSUME NEW e \in Events
      PROVE  /\ Item(e).live = (row[e].status = "processing" /\ ~row[e].due)
             /\ Item(e)'.live = (row'[e].status = "processing" /\ ~row'[e].due)
  <2>1. row[e] \in Rows /\ replays[e] \in Nat /\ row'[e] \in Rows /\ replays'[e] \in Nat
      BY <1>0, <1>t
  <2>2. QED
      BY <2>1, RowView, Zenon DEF Item
<1>m. ASSUME NEW e \in Events, row'[e] = row[e], replays'[e] = replays[e] PROVE Item(e)' = Item(e)
    BY <1>m DEF Item, View
<1>1. ASSUME NEW e \in Events, Enqueue(e) PROVE Promise!Next
  <2>1. /\ row[e].status = "absent" /\ row[e].attempts = 0 /\ row' = [row EXCEPT ![e] = Queued]
        /\ UNCHANGED <<replays, delivered>>
      BY <1>1 DEF Enqueue, RInv, AbsentIsUnclaimed
  <2>2. /\ row'[e].status = "queued" /\ row'[e].attempts = 0 /\ replays'[e] = replays[e]
        /\ \A f \in Events \ {e} : row'[f] = row[f] /\ replays'[f] = replays[f]
      BY <1>0, <2>1 DEF Queued
  <2>3. /\ Item(e).state = "none" /\ Item(e)'.state = "open"
        /\ Item(e)'.tries = Item(e).tries /\ Item(e)'.round = Item(e).round
      BY <1>x, <2>1, <2>2, PromisedStates
  <2>4. Item(e)'.live = Item(e).live
    <3>1. Item(e).live = FALSE
        BY <1>l, <2>1
    <3>2. Item(e)'.live = FALSE
        BY <1>l, <2>2
    <3>3. QED
        BY <3>1, <3>2
  <2>5. Promise!Accepted(Item(e), Item(e)')
      BY <1>x, <2>3, <2>4, ViewMoves
  <2>6. QED
      BY <1>m, <2>1, <2>2, <2>5, RowMoves DEF Promise!Moved
<1>2. ASSUME NEW e \in Events, Elapse(e) PROVE Promise!Next
  <2>1. /\ row[e].status \in {"queued", "processing"} /\ row[e].due = FALSE
        /\ row' = [row EXCEPT ![e] = [row[e] EXCEPT !.due = TRUE]] /\ UNCHANGED <<replays, delivered>>
      BY <1>0, <1>2 DEF Elapse
  <2>2. /\ row'[e].status = row[e].status /\ row'[e].attempts = row[e].attempts /\ row'[e].due = TRUE
        /\ replays'[e] = replays[e]
        /\ \A f \in Events \ {e} : row'[f] = row[f] /\ replays'[f] = replays[f]
      BY <1>0, <2>1 DEF Rows
  <2>3. /\ Item(e)'.state = Item(e).state /\ Item(e)'.live = FALSE
        /\ Item(e)'.tries = Item(e).tries /\ Item(e)'.round = Item(e).round
    <3>1. Item(e)'.live = FALSE
        BY <1>l, <2>2
    <3>2. QED
        BY <1>x, <2>2, <3>1
  <2>4. CASE row[e].status = "processing"
    <3>1. Item(e).live = TRUE
        BY <1>l, <2>1, <2>4
    <3>2. Promise!Lapsed(Item(e), Item(e)')
        BY <1>x, <2>3, <3>1, ViewMoves
    <3>3. QED
        BY <1>m, <2>1, <2>2, <3>2, RowMoves DEF Promise!Moved
  <2>5. CASE row[e].status = "queued"
    <3>1. Item(e).live = FALSE
        BY <1>l, <2>5
    <3>2. Item(e)' = Item(e)
        BY <1>x, <2>3, <3>1 DEF Views
    <3>3. QED
        BY <1>m, <2>1, <2>2, <3>2, RowMoves
  <2>6. QED
      BY <2>1, <2>4, <2>5
<1>3. ASSUME NEW e \in Events, Replay(e) PROVE Promise!Next
  <2>1. /\ row[e].status = "failed" /\ row' = [row EXCEPT ![e] = Queued]
        /\ replays' = [replays EXCEPT ![e] = replays[e] + 1] /\ UNCHANGED delivered
      BY <1>3 DEF Replay
  <2>2. /\ row'[e].status = "queued" /\ row'[e].attempts = 0 /\ replays'[e] = replays[e] + 1
        /\ \A f \in Events \ {e} : row'[f] = row[f] /\ replays'[f] = replays[f]
      BY <1>0, <2>1 DEF Queued
  <2>3. /\ Item(e).state = "dead" /\ Item(e)'.state = "open"
        /\ Item(e)'.tries = 0 /\ Item(e)'.round = Item(e).round + 1
      BY <1>x, <2>1, <2>2, PromisedStates
  <2>4. Item(e)'.live = FALSE
      BY <1>l, <2>2
  <2>5. Promise!Reopened(Item(e), Item(e)')
      BY <1>x, <2>3, <2>4, ViewMoves
  <2>6. QED
      BY <1>m, <2>1, <2>2, <2>5, RowMoves DEF Promise!Moved
<1>s. ASSUME NEW e \in Events, row'[e] = Swept(e), replays'[e] = replays[e]
      PROVE  Item(e)' = Item(e) \/ Promise!Moved(e, Item(e), Item(e)')
  <2>1. CASE ~Exhausted(row[e])
      BY <1>m, <1>s, <2>1 DEF Swept
  <2>2. CASE Exhausted(row[e])
    <3>1. /\ row'[e].status = "failed" /\ row'[e].attempts = row[e].attempts
          /\ row[e].attempts >= MaxAttempts /\ row[e].status \in {"queued", "processing"}
        BY <1>s, <2>2 DEF Swept, Released, Exhausted
    <3>2. /\ Item(e).state = "held" \/ (Item(e).state = "open" /\ Item(e).tries >= MaxAttempts)
          /\ Item(e)'.state = "dead" /\ Item(e)'.tries = Item(e).tries
          /\ Item(e)'.round = Item(e).round
        BY <1>s, <1>x, <3>1, PromisedStates
    <3>3. Item(e)'.live = FALSE
        BY <1>l, <3>1
    <3>4. Promise!GivenUp(Item(e), Item(e)')
        BY <1>x, <3>2, <3>3, ViewMoves
    <3>5. QED
        BY <3>4 DEF Promise!Moved
  <2>3. QED
      BY <2>1, <2>2
<1>4. ASSUME NEW p \in Publishers, Sweep(p) PROVE Promise!Next
  <2>1. UNCHANGED <<replays, delivered>> /\ \A e \in Events : row'[e] = Swept(e)
      BY <1>4 DEF Sweep
  <2>2. QED
      BY <1>s, <2>1, RowMoves
<1>5. ASSUME NEW p \in Publishers, NEW e \in Events, Claim(p, e) PROVE Promise!Next
  <2>1. /\ row[e].attempts < MaxAttempts /\ row[e].status \in {"queued", "processing"}
        /\ row[e].due /\ UNCHANGED <<replays, delivered>>
        /\ \A f \in Events \ {e} : row'[f] = Swept(f)
        /\ row'[e].status = "processing" /\ row'[e].attempts = row[e].attempts + 1 /\ ~row'[e].due
      BY <1>5 DEF Claim, Claimable
  <2>2. /\ Item(e).state \in {"open", "held"} /\ Item(e).tries < MaxAttempts
        /\ Item(e)'.state = "held" /\ Item(e)'.tries = Item(e).tries + 1
        /\ Item(e)'.round = Item(e).round
      BY <1>x, <2>1, PromisedStates
  <2>3. Item(e).live = FALSE /\ Item(e)'.live = TRUE
      BY <1>l, <2>1
  <2>4. Promise!Taken(Item(e), Item(e)')
      BY <1>x, <2>2, <2>3, ViewMoves
  <2>5. QED
      BY <1>s, <2>1, <2>4, RowMoves DEF Promise!Moved
<1>6. ASSUME NEW p \in Publishers, Settle(p)
      PROVE  Promise!Next \/ UNCHANGED <<row, replays, delivered>>
  <2>1. PICK e \in Events : e = pub[p].event
      BY <1>6 DEF Settle, IInv, LoopsInBudget
  <2>2. PICK s \in {"published", "failed", "queued"} :
          /\ row' = IF HoldsClaim(p) THEN [row EXCEPT ![e] = Released(row[e], s)] ELSE row
          /\ s = "published" => pub[p].pc = "acked"
      BY <1>6, <2>1 DEF Settle, FailureStatus
  <2>3. UNCHANGED <<replays, delivered>>
      BY <1>6 DEF Settle
  <2>4. CASE ~HoldsClaim(p)
      BY <2>2, <2>3, <2>4
  <2>5. CASE HoldsClaim(p)
    <3>1. /\ row[e].status = "processing"
          /\ row'[e].status = s /\ row'[e].attempts = row[e].attempts /\ replays'[e] = replays[e]
          /\ \A f \in Events \ {e} : row'[f] = row[f] /\ replays'[f] = replays[f]
        BY <1>0, <2>1, <2>2, <2>3, <2>5 DEF HoldsClaim, Released
    <3>2. /\ Item(e).state = "held" /\ Item(e)'.state = PromisedState[s] /\ Item(e)'.live = FALSE
          /\ Item(e)'.tries = Item(e).tries /\ Item(e)'.round = Item(e).round
      <4>1. Item(e)'.live = FALSE
          BY <1>l, <3>1
      <4>2. QED
          BY <1>x, <3>1, <4>1, PromisedStates
    <3>3. CASE s = "queued"
      <4>1. Item(e)'.state = "open"
          BY <3>2, <3>3, PromisedStates
      <4>2. Promise!PutBack(Item(e), Item(e)')
          BY <1>x, <3>2, <4>1, ViewMoves
      <4>3. QED
          BY <1>m, <2>3, <3>1, <4>2, RowMoves DEF Promise!Moved
    <3>4. CASE s = "failed"
      <4>1. Item(e)'.state = "dead"
          BY <3>2, <3>4, PromisedStates
      <4>2. Promise!GivenUp(Item(e), Item(e)')
          BY <1>x, <3>2, <4>1, ViewMoves
      <4>3. QED
          BY <1>m, <2>3, <3>1, <4>2, RowMoves DEF Promise!Moved
    <3>5. CASE s = "published"
      <4>1. Message(p) \in Copies(e)
          BY <2>1, <2>2, <3>5 DEF IInv, AckedWasRouted, Copies, Message
      <4>2. IsFiniteSet(Copies(e)) /\ Cardinality(Copies(e)) \in Nat
          BY CopiesCounted
      <4>3. Cardinality(Copies(e)) # 0
          BY <4>1, <4>2, FS_EmptySet
      <4>4. Cardinality(Copies(e)) > 0
          BY <4>2, <4>3
      <4>5. Item(e)'.state = "done"
          BY <3>2, <3>5, PromisedStates
      <4>6. Promise!Finished(e, Item(e), Item(e)')
          BY <1>x, <3>2, <4>4, <4>5, ViewFinished
      <4>7. QED
          BY <1>m, <2>3, <3>1, <4>6, RowMoves DEF Promise!Moved
    <3>6. QED
        BY <3>3, <3>4, <3>5
  <2>6. QED
      BY <2>4, <2>5
<1>7. ASSUME NEW p \in Publishers, NEW a \in Answers, Answer(p, a)
      PROVE  Promise!Next \/ UNCHANGED <<row, replays, delivered>>
  <2>1. /\ Message(p) \in wire /\ UNCHANGED <<row, replays>>
        /\ delivered' = delivered \cup {Message(p)} \/ delivered' = delivered
      BY <1>7 DEF Answer
  <2>2. QED
      BY <2>1, CopyLeaves
<1>8. ASSUME NEW m \in wire, NEW b \in BOOLEAN, AnswerLost(m, b)
      PROVE  Promise!Next \/ UNCHANGED <<row, replays, delivered>>
  <2>1. /\ UNCHANGED <<row, replays>>
        /\ delivered' = delivered \cup {m} \/ delivered' = delivered
      BY <1>8 DEF AnswerLost
  <2>2. QED
      BY <2>1, CopyLeaves
<1>9. ASSUME NEW p \in Publishers,
             Send(p) \/ (\E r \in {"transient", "permanent"} : SendFails(p, r))
               \/ ConfirmFails(p) \/ Crash(p)
      PROVE  UNCHANGED <<row, replays, delivered>>
    BY <1>9 DEF Send, SendFails, ConfirmFails, Crash
<1>10. CASE UNCHANGED vars
    BY <1>10 DEF vars
<1>11. QED
    BY <1>1, <1>2, <1>3, <1>4, <1>5, <1>6, <1>7, <1>8, <1>9, <1>10 DEF Next, Poll, LoopStep

(* The outbox implements LeasedDelivery for every set of events, every     *)
(* number of replicas and every budget: a live claim is not taken over, no *)
(* more copies of an event are routed than claims were made for it, and    *)
(* published or given up is the end unless the operator replays            *)
(* (claim_outbox_event, publish_one_outbox, replay_failed_outbox_event).   *)
THEOREM OutboxImplementsPromise == Spec => OutboxKeepsPromise
<1>1. Init => Promise!Init
  <2> SUFFICES ASSUME Init PROVE Promise!Init
      OBVIOUS
  <2>1. \A e \in Events : row[e].status = "absent" /\ row[e].attempts = 0 /\ replays[e] = 0
      BY DEF Init, Absent
  <2>2. \A e \in Events : (row[e].status = "processing" /\ ~row[e].due) = FALSE
      BY <2>1
  <2>3. \A e \in Events : [state |-> PromisedState[row[e].status],
                           live |-> row[e].status = "processing" /\ ~row[e].due,
                           tries |-> row[e].attempts, round |-> replays[e]]
                          = [state |-> "none", live |-> FALSE, tries |-> 0, round |-> 0]
      BY <2>1, <2>2, PromisedStates, Zenon
  <2>4. \A e \in Events : {m \in delivered : m[1] = e} = {}
      BY DEF Init
  <2>5. \A e \in Events : Cardinality({m \in delivered : m[1] = e}) = 0
      BY <2>4, FS_EmptySet
  <2>6. QED
      BY <2>3, <2>5 DEF Promise!Init
<1>2. IInv /\ RInv /\ [Next]_vars => [Promise!Next]_(Promise!promiseVars)
  <2> SUFFICES ASSUME IInv, RInv, [Next]_vars PROVE [Promise!Next]_(Promise!promiseVars)
      OBVIOUS
  <2>1. CASE Promise!Next
      BY <2>1
  <2>2. CASE UNCHANGED <<row, replays, delivered>>
      BY <2>2 DEF Promise!promiseVars
  <2>3. QED
      BY <2>1, <2>2, StepKeepsPromise
<1>3. QED
    BY InitIInv, NextIInv, InitRInv, NextRInv, <1>1, <1>2, PTL
       DEF Spec, OutboxKeepsPromise, Promise!Spec
=============================================================================
