--------------------------- MODULE CheckoutProofs ---------------------------
(***************************************************************************)
(* What the checkout saga keeps for any number of replicas, generations,   *)
(* attempts and failures: a paid order is backed by captured money and     *)
(* consumed stock, the stored answer agrees with the order and stands, and *)
(* a reclaimed generation leaves nothing open behind.                      *)
(*                                                                         *)
(* None of these is inductive.  An order may be marked paid by any actor   *)
(* that stands at finalize, long after the answers that led it there, so   *)
(* CheckoutInv says of every step an actor may be about to take, and of    *)
(* every call still on its way, what the payment and the inventory service *)
(* must already have done for it; and of the three rows, which states they *)
(* may be in together.  The services never take back what it says, which   *)
(* is why the steps of the other actors keep it (Forward).                 *)
(***************************************************************************)
EXTENDS Checkout, TLAPS

(* Reconciliation jobs that are not over.                                  *)
OpenJob == {"awaiting_provider", "queued", "processing"}

(* Steps of a handler whose order may not exist yet.                       *)
Early == {"idle", "create", "reply_failed", "done"}

(* Money first: nothing is consumed, and no payment is captured, without a *)
(* capture that was answered succeeded.                                    *)
ExtOK(e) ==
    /\ e.payment = "captured" => e.captured = "succeeded"
    /\ e.stock = "consumed" => e.captured = "succeeded"

(* What an actor that is about to take a step has earned: to finalize,     *)
(* consumed stock; to consume, and for the reconciler to reserve, captured *)
(* money; to answer paid or degraded, an order that is.                    *)
StepOK(a, step, o, e) ==
    /\ step = "finalize" => e.stock = "consumed"
    /\ step = "consume" => e.captured = "succeeded"
    /\ step = "reserve" /\ a \in Reconcilers => e.captured = "succeeded"
    /\ step \in {"reply_paid", "complete"} => o = "paid"
    /\ step = "reply_degraded" => o = "cancelled"
    /\ a \in Handlers /\ step \notin Early => o # "none"

(* The states attempt, order and reconciliation job may be in together.    *)
RowsOK(att, o, rec) ==
    /\ att.status = "paid" => o = "paid"
    /\ att.status = "degraded" => o = "cancelled"
    /\ att.status = "pending" => o # "none" /\ rec.status \in OpenJob
    /\ rec.status = "completed" => att.status = "paid"
    /\ rec.status = "failed" => att.status = "failed"
    /\ rec.status \in OpenJob => rec.gen = att.gen
    /\ rec.status # "none" => rec.gen \in Generations
    /\ IF att.status = "none" THEN att.gen = 0 ELSE att.gen \in Generations

(* Open compensation tasks are of the current generation.                  *)
TasksOK(tasks, att) ==
    \A t \in Kinds \X Generations :
      tasks[t].status \in {"queued", "processing", "failed"} => t[2] = att.gen

(* A consume still on its way has its money captured.                      *)
LateOK(calls, e) ==
    \A g \in Generations : <<"consume", g>> \in calls => e.captured = "succeeded"

(* The current handler about to answer pending has an open job.            *)
RepliesOK(steps, att, rec) ==
    \A g \in Generations :
      att.status = "started" /\ att.gen = g /\ steps[Handler(g)] = "reply_pending" =>
        rec.status \in OpenJob

(* The inductive invariant.                                                *)
CheckoutInv ==
    /\ TypeOK
    /\ ExtOK(ext)
    /\ order = "paid" => ext.stock = "consumed"
    /\ LateOK(late, ext)
    /\ \A a \in Actors : StepOK(a, pc[a], order, ext)
    /\ RowsOK(attempt, order, recon)
    /\ TasksOK(task, attempt)
    /\ RepliesOK(pc, attempt, recon)

(* What never goes back: decided orders, consumed stock, captured money.   *)
Forward(o, e, oo, ee) ==
    /\ o = "paid" => oo = "paid"
    /\ o = "cancelled" => oo = "cancelled"
    /\ o # "none" => oo # "none"
    /\ e.stock = "consumed" => ee.stock = "consumed"
    /\ e.captured = "succeeded" => ee.captured = "succeeded"

(* Handlers, reconcilers and compensators are different actors, and a      *)
(* handler is its generation.                                              *)
LEMMA ActorsApart ==
    /\ \A a \in Handlers : a \notin Reconcilers /\ a \notin Compensators
    /\ \A a \in Reconcilers : a \notin Compensators
    /\ \A g \in Generations : Handler(g) \in Handlers /\ Handler(g) \in Actors
    /\ Handlers \subseteq Actors /\ Reconcilers \subseteq Actors /\ Compensators \subseteq Actors
    /\ \A g, h \in Generations : Handler(g) = Handler(h) => g = h
    /\ \A g \in Generations : Handler(g)[2] = g
    /\ 1 \in Generations /\ Generations \subseteq 0..MaxGeneration /\ 0 \notin Generations
    /\ \A h \in Handlers : \E g \in Generations : h = Handler(g)
  BY CheckoutAssumption DEF Actors, Handlers, Reconcilers, Compensators, Handler, Reconciler,
     Compensator, Generations

(* What an actor may rely on stays true while orders and services only     *)
(* move forward.                                                           *)
LEMMA StepForward ==
    ASSUME NEW a, NEW step, NEW o, NEW e, NEW oo, NEW ee,
           StepOK(a, step, o, e), Forward(o, e, oo, ee)
    PROVE  StepOK(a, step, oo, ee)
  BY DEF StepOK, Forward

(* One actor moves, whatever else the step changes: the invariant follows  *)
(* from its parts, the other actors being covered by Forward.              *)
LEMMA Assemble ==
    ASSUME CheckoutInv, TypeOK', Forward(order, ext, order', ext'), ExtOK(ext'),
           order' = "paid" => ext'.stock = "consumed", LateOK(late', ext'),
           NEW a \in Actors, NEW step, pc' = [pc EXCEPT ![a] = step],
           step = pc[a] \/ StepOK(a, step, order', ext'),
           RowsOK(attempt', order', recon'), TasksOK(task', attempt'),
           RepliesOK(pc', attempt', recon')
    PROVE  CheckoutInv'
  <1>1. pc'[a] = step /\ \A b \in Actors \ {a} : pc'[b] = pc[b]
    BY DEF CheckoutInv, TypeOK
  <1>2. ASSUME NEW b \in Actors PROVE StepOK(b, pc'[b], order', ext')
    BY <1>1, <1>2, StepForward DEF CheckoutInv
  <1> QED
    BY <1>2 DEF CheckoutInv

(* A handler about to answer pending keeps its job when the attempt and    *)
(* the job stay open.                                                      *)
LEMMA RepliesKept ==
    ASSUME CheckoutInv, NEW a \in Actors, NEW step, pc' = [pc EXCEPT ![a] = step],
           step # "reply_pending" \/ step = pc[a],
           attempt'.status = "started" => attempt.status = "started" /\ attempt.gen = attempt'.gen,
           attempt'.status = "started" /\ recon.status \in OpenJob => recon'.status \in OpenJob
    PROVE  RepliesOK(pc', attempt', recon')
  <1>1. pc'[a] = step /\ \A b \in Actors \ {a} : pc'[b] = pc[b]
    BY DEF CheckoutInv, TypeOK
  <1>2. \A g \in Generations : Handler(g) \in Actors
    BY ActorsApart
  <1> QED
    BY <1>1, <1>2 DEF CheckoutInv, RepliesOK

(* A step that leaves the rows alone. *)
LEMMA RemoteStep ==
    ASSUME CheckoutInv, UNCHANGED <<degrade, attempt, order, recon, task, job>>,
           ext' \in External, late' \subseteq Calls \X Generations, faults' \in 0..MaxFaults,
           Forward(order, ext, order, ext'), ExtOK(ext'), LateOK(late', ext'),
           NEW a \in Actors, NEW step \in Steps, pc' = [pc EXCEPT ![a] = step],
           \/ step = pc[a]
           \/ step # "reply_pending" /\ StepOK(a, step, order, ext')
    PROVE  CheckoutInv'
  <1>1. RepliesOK(pc', attempt', recon')
    BY RepliesKept DEF CheckoutInv
  <1>2. pc' \in [Actors -> Steps]
    BY DEF CheckoutInv, TypeOK
  <1>3. TypeOK'
    BY <1>2 DEF CheckoutInv, TypeOK
  <1>4. order' = "paid" => ext'.stock = "consumed"
    BY DEF CheckoutInv, Forward
  <1> QED
    BY <1>1, <1>3, <1>4, Assemble DEF CheckoutInv

(* Whatever a service does with a call, captured money and consumed stock  *)
(* stay, and stock is only consumed for captured money.                    *)
LEMMA EffectsKeep ==
    ASSUME CheckoutInv, NEW call \in Calls, NEW g,
           call = "consume" => ext.captured = "succeeded", NEW e \in Effects(call, g)
    PROVE  /\ e \in External /\ ExtOK(e) /\ Forward(order, ext, order, e)
           /\ e.captured = ext.captured \/ call = "capture"
  <1>1. ext \in External /\ ExtOK(ext)
    BY DEF CheckoutInv, TypeOK
  <1>2. CASE call = "authorize"
    <2>1. CASE e = ext
      BY <1>1, <2>1 DEF Forward
    <2>2. CASE e \in AuthorizeOutcomes
      <3>1. PICK p \in {"authorized", "failed", "pending"},
                 u \in {"succeeded", "declined", "pending"} :
              e = [ext EXCEPT !.payment = p, !.authorized = u]
        BY <2>2 DEF AuthorizeOutcomes
      <3> QED
        BY <1>1, <3>1 DEF External, ExtOK, Forward
    <2> QED
      BY <1>2, <2>1, <2>2 DEF Effects
  <1>3. CASE call = "capture"
    BY <1>1, <1>3 DEF Effects, Captured, External, ExtOK, Forward
  <1>4. CASE call = "reserve"
    BY <1>1, <1>4 DEF Effects, Taken, External, ExtOK, Forward
  <1>5. CASE call = "consume"
    BY <1>1, <1>5 DEF Effects, Taken, External, ExtOK, Forward
  <1>6. CASE call = "release"
    BY <1>1, <1>6 DEF Effects, External, ExtOK, Forward
  <1> QED
    BY <1>2, <1>3, <1>4, <1>5, <1>6 DEF Calls

(* Steps that rely on nothing but the order being there.                   *)
Plain == Steps \ {"finalize", "consume", "reserve", "reply_paid", "complete", "reply_degraded",
                  "reply_pending"}

(* A step that relies on nothing may follow any other.                     *)
LEMMA PlainStep ==
    ASSUME NEW a, NEW from, NEW o, NEW e, NEW oo, NEW ee, NEW step \in Plain,
           StepOK(a, from, o, e), Forward(o, e, oo, ee),
           a \in Handlers => from \notin Early \/ step \in Early
    PROVE  step \in Steps /\ StepOK(a, step, oo, ee) /\ step # "reply_pending"
  BY DEF StepOK, Forward, Plain

(* Whoever passes the fence acts for the current generation, and its       *)
(* answer is not final.                                                    *)
LEMMA FenceOpen ==
    ASSUME CheckoutInv, NEW a \in Actors, Fence(a)
    PROVE  /\ Gen(a) \in Generations /\ Gen(a) = attempt.gen
           /\ attempt.status \in {"started", "pending", "failed"}
  BY ActorsApart DEF CheckoutInv, RowsOK, Fence, Owned, Started, ParentOpen

(* A failure leaves one fewer to come.                                     *)
LEMMA FaultSpent ==
    ASSUME CheckoutInv, Fault
    PROVE  faults' \in 0..MaxFaults
  BY CheckoutAssumption DEF CheckoutInv, TypeOK, Fault

(* A call that fails for its caller may have its effect now or later;      *)
(* either way nothing is consumed before the capture.                      *)
LEMMA UnansweredKeeps ==
    ASSUME CheckoutInv, NEW call \in Calls, NEW g \in Generations,
           call = "consume" => ext.captured = "succeeded", Unanswered(call, g)
    PROVE  /\ faults' \in 0..MaxFaults
           /\ ext' \in External /\ ExtOK(ext') /\ Forward(order, ext, order, ext')
           /\ late' \subseteq Calls \X Generations
           /\ LateOK(late', ext')
  <1>1. faults' \in 0..MaxFaults
    BY FaultSpent DEF Unanswered
  <1>2. CASE ext' \in Effects(call, g) /\ UNCHANGED late
    <2>1. ext' \in External /\ ExtOK(ext') /\ Forward(order, ext, order, ext')
      BY <1>2, EffectsKeep
    <2> QED
      BY <1>1, <1>2, <2>1 DEF CheckoutInv, TypeOK, LateOK, Forward
  <1>3. CASE ext' = ext /\ late' = late \cup {<<call, g>>}
    <2>1. late' \subseteq Calls \X Generations
      BY <1>3 DEF CheckoutInv, TypeOK
    <2>2. LateOK(late', ext')
      BY <1>3 DEF CheckoutInv, LateOK
    <2> QED
      BY <1>1, <1>3, <2>1, <2>2 DEF CheckoutInv, TypeOK, Forward
  <1> QED
    BY <1>2, <1>3 DEF Unanswered

(* Calls on their way stay harmless while the services move forward.       *)
LEMMA LateForward ==
    ASSUME CheckoutInv, Forward(order, ext, order, ext'), late' \subseteq late
    PROVE  late' \subseteq Calls \X Generations /\ LateOK(late', ext')
  BY DEF CheckoutInv, TypeOK, LateOK, Forward

(* A fenced call with any answer, or none: enough that an accepted answer  *)
(* earns the step that follows it.                                         *)
LEMMA CallKeeps ==
    ASSUME CheckoutInv, NEW a \in Handlers \cup Reconcilers, NEW call \in Calls,
           NEW accepted \in Steps, NEW refused \in Plain, NEW errors \in SUBSET Plain,
           a \in Handlers => pc[a] \notin Early,
           call = "consume" => ext.captured = "succeeded",
           accepted # "reply_pending",
           \A e \in External : ExtOK(e) /\ Forward(order, ext, order, e) /\ Accepted(call, e) =>
             StepOK(a, accepted, order, e),
           Call(a, call, accepted, refused, errors)
    PROVE  CheckoutInv'
  <1>1. a \in Actors /\ StepOK(a, pc[a], order, ext)
    BY ActorsApart DEF CheckoutInv
  <1>2. Gen(a) \in Generations
    BY <1>1, FenceOpen DEF Call
  <1>3. UNCHANGED <<degrade, attempt, order, recon, task, job>>
    BY DEF Call, rows
  <1>4. CASE /\ ext' \in Effects(call, Gen(a))
             /\ Go(a, IF Accepted(call, ext') THEN accepted ELSE refused)
             /\ UNCHANGED <<late, faults>>
    <2>1. ext' \in External /\ ExtOK(ext') /\ Forward(order, ext, order, ext')
      BY <1>4, EffectsKeep
    <2>2. late' \subseteq Calls \X Generations /\ LateOK(late', ext')
      BY <1>4, <2>1, LateForward
    <2>3. faults' \in 0..MaxFaults
      BY <1>4 DEF CheckoutInv, TypeOK
    <2>4. PICK step \in Steps : /\ step # "reply_pending" /\ StepOK(a, step, order, ext')
                                /\ pc' = [pc EXCEPT ![a] = step]
      BY <1>1, <1>4, <2>1, PlainStep DEF Go
    <2> QED
      BY <1>1, <1>3, <2>1, <2>2, <2>3, <2>4, RemoteStep
  <1>5. CASE /\ Unanswered(call, Gen(a))
             /\ \E step \in errors \cup {"stalled"} : Go(a, step)
    <2>1. /\ faults' \in 0..MaxFaults /\ ext' \in External /\ ExtOK(ext')
          /\ Forward(order, ext, order, ext') /\ late' \subseteq Calls \X Generations
          /\ LateOK(late', ext')
      BY <1>2, <1>5, UnansweredKeeps
    <2>2. PICK step \in Plain : pc' = [pc EXCEPT ![a] = step]
      BY <1>5 DEF Go, Plain, Steps
    <2>3. step \in Steps /\ step # "reply_pending" /\ StepOK(a, step, order, ext')
      BY <1>1, <2>1, <2>2, PlainStep
    <2> QED
      BY <1>1, <1>3, <2>1, <2>2, <2>3, RemoteStep
  <1> QED
    BY <1>4, <1>5 DEF Call

(* Before the first request nothing is claimed, called or stored.          *)
LEMMA InitInv == Init => CheckoutInv
  <1> SUFFICES ASSUME Init PROVE CheckoutInv
    OBVIOUS
  <1>1. attempt \in AttemptRows /\ recon \in ReconRows /\ NoTask \in TaskRows /\ ext \in External
    BY CheckoutAssumption DEF Init, AttemptRows, ReconRows, TaskRows, External, NoRow, NoTask
  <1>2. NoJob \in Jobs
    BY CheckoutAssumption DEF Jobs, NoJob, Kinds
  <1>3. faults \in 0..MaxFaults
    BY CheckoutAssumption DEF Init
  <1>4. TypeOK
    BY <1>1, <1>2, <1>3 DEF Init, TypeOK, Steps
  <1>5. ExtOK(ext) /\ LateOK(late, ext) /\ order # "paid"
    BY DEF Init, ExtOK, LateOK
  <1>6. \A a \in Actors : StepOK(a, pc[a], order, ext)
    BY DEF Init, StepOK, Early
  <1>7. RowsOK(attempt, order, recon) /\ RepliesOK(pc, attempt, recon)
    BY DEF Init, RowsOK, RepliesOK, NoRow, OpenJob
  <1>8. TasksOK(task, attempt)
    BY DEF Init, TasksOK, NoTask
  <1> QED
    BY <1>4, <1>5, <1>6, <1>7, <1>8 DEF CheckoutInv

(* A reservation leads the handler to the capture and the reconciler,      *)
(* whose payment is captured, to the consume.                              *)
LEMMA ReserveKeeps ==
    ASSUME CheckoutInv, NEW a \in Handlers \cup Reconcilers, Reserve(a)
    PROVE  CheckoutInv'
  <1> DEFINE next == IF a \in Handlers THEN "capture" ELSE "consume"
  <1>1. StepOK(a, "reserve", order, ext) /\ pc[a] = "reserve"
    BY ActorsApart DEF CheckoutInv, Reserve
  <1>2. \A e \in External : Forward(order, ext, order, e) => StepOK(a, next, order, e)
    BY <1>1, ActorsApart DEF StepOK, Forward, Early
  <1>3. next \in Steps /\ next # "reply_pending" /\ "unreserve_enqueue" \in Plain
    BY DEF Steps, Plain
  <1>4. Call(a, "reserve", next, "unreserve_enqueue", {"unreserve_enqueue"})
    BY DEF Reserve
  <1>5. "reserve" \in Calls /\ "reserve" \notin Early
    BY DEF Calls, Early
  <1> HIDE DEF next
  <1> QED
    BY <1>1, <1>2, <1>3, <1>4, <1>5, CallKeeps

(* Only an accepted capture leads the handler to the consume.              *)
LEMMA CaptureKeeps ==
    ASSUME CheckoutInv, NEW a \in Handlers \cup Reconcilers, Capture(a)
    PROVE  CheckoutInv'
  <1>1. StepOK(a, "capture", order, ext) /\ pc[a] = "capture"
    BY ActorsApart DEF CheckoutInv, Capture
  <1>2. "capture" \in Calls /\ "capture" \notin Early
    BY DEF Calls, Early
  <1>3. CASE a \in Handlers
    <2>1. \A e \in External : Forward(order, ext, order, e) /\ Accepted("capture", e) =>
            StepOK(a, "consume", order, e)
      BY <1>1, <1>2 DEF StepOK, Forward, Accepted
    <2>2. "consume" \in Steps /\ "consume" # "reply_pending" /\ "release_enqueue" \in Plain
      BY DEF Steps, Plain
    <2> QED
      BY <1>1, <1>2, <1>3, <2>1, <2>2, CallKeeps DEF Capture
  <1>4. CASE a \notin Handlers
    <2>1. \A e \in External : StepOK(a, "look", order, e)
      BY <1>4 DEF StepOK
    <2>2. "look" \in Steps /\ "look" # "reply_pending" /\ "retry" \in Plain
      BY DEF Steps, Plain
    <2> QED
      BY <1>1, <1>2, <1>4, <2>1, <2>2, CallKeeps DEF Capture
  <1> QED
    BY <1>3, <1>4

(* Only an accepted consume leads to finalize.                             *)
LEMMA ConsumeKeeps ==
    ASSUME CheckoutInv, NEW a \in Handlers \cup Reconcilers, Consume(a)
    PROVE  CheckoutInv'
  <1> DEFINE errors == IF a \in Handlers THEN {"register_post", "release_enqueue"}
                                         ELSE {"release_enqueue"}
  <1>1. StepOK(a, "consume", order, ext) /\ pc[a] = "consume"
    BY ActorsApart DEF CheckoutInv, Consume
  <1>2. "consume" \in Calls /\ "consume" \notin Early
    BY DEF Calls, Early
  <1>3. \A e \in External : Forward(order, ext, order, e) /\ Accepted("consume", e) =>
            StepOK(a, "finalize", order, e)
    BY <1>1, <1>2 DEF StepOK, Forward, Accepted
  <1>4. /\ "finalize" \in Steps /\ "finalize" # "reply_pending" /\ "release_enqueue" \in Plain
        /\ errors \in SUBSET Plain
    BY DEF Steps, Plain
  <1>5. Call(a, "consume", "finalize", "release_enqueue", errors)
    BY DEF Consume
  <1>6. ext.captured = "succeeded"
    BY <1>1 DEF StepOK
  <1> HIDE DEF errors
  <1> QED
    BY <1>1, <1>2, <1>3, <1>4, <1>5, <1>6, CallKeeps

(* The reconciler reserves only for a payment it saw captured.             *)
LEMMA LookKeeps ==
    ASSUME CheckoutInv, NEW a \in Reconcilers, Look(a)
    PROVE  CheckoutInv'
  <1>1. a \in Actors /\ a \notin Handlers
    BY ActorsApart
  <1>2. UNCHANGED <<degrade, attempt, order, recon, task, job>> /\ ext' = ext /\ late' = late
    BY DEF Look, rows
  <1>3. ext' \in External /\ ExtOK(ext') /\ Forward(order, ext, order, ext') /\ ext \in External
    BY <1>2 DEF CheckoutInv, TypeOK, Forward
  <1>4. late' \subseteq Calls \X Generations /\ LateOK(late', ext')
    BY <1>2, <1>3, LateForward
  <1>5. faults' \in 0..MaxFaults
    BY FaultSpent DEF Look, CheckoutInv, TypeOK
  <1>6. AfterSnapshot(ext.payment) \in {"retry", "capture", "reserve", "fail"}
        /\ (AfterSnapshot(ext.payment) = "reserve" => ext.captured = "succeeded")
    BY <1>3, <1>2 DEF AfterSnapshot, External, ExtOK
  <1>7. PICK step \in {"retry", "capture", "reserve", "fail"} :
          /\ pc' = [pc EXCEPT ![a] = step]
          /\ step = "reserve" => ext.captured = "succeeded"
    BY <1>6 DEF Look, Go
  <1>8. step \in Steps /\ step # "reply_pending" /\ StepOK(a, step, order, ext')
    BY <1>1, <1>2, <1>7 DEF StepOK, Steps
  <1> QED
    BY <1>1, <1>2, <1>3, <1>4, <1>5, <1>7, <1>8, RemoteStep

(* The environment's steps on the remote services. *)
LEMMA PcStands ==
    ASSUME CheckoutInv, UNCHANGED pc
    PROVE  \E a \in Actors : \E step \in Steps : step = pc[a] /\ pc' = [pc EXCEPT ![a] = step]
  <1>1. Handler(1) \in Actors
    BY ActorsApart
  <1>2. pc[Handler(1)] \in Steps /\ pc' = [pc EXCEPT ![Handler(1)] = pc[Handler(1)]]
    BY <1>1 DEF CheckoutInv, TypeOK
  <1> QED
    BY <1>1, <1>2

(* A late consume finds its money captured, because its sender did.        *)
LEMMA DeliverLateKeeps ==
    ASSUME CheckoutInv, NEW m \in Calls \X Generations, DeliverLate(m)
    PROVE  CheckoutInv'
  <1>1. UNCHANGED <<degrade, attempt, order, recon, task, job>> /\ UNCHANGED pc
    BY DEF DeliverLate, rows
  <1>2. m[1] \in Calls /\ m[2] \in Generations /\ m = <<m[1], m[2]>> /\ m \in late
    BY DEF DeliverLate
  <1>3. m[1] = "consume" => ext.captured = "succeeded"
    BY <1>2 DEF CheckoutInv, LateOK
  <1>4. ext' \in External /\ ExtOK(ext') /\ Forward(order, ext, order, ext')
    BY <1>2, <1>3, EffectsKeep DEF DeliverLate
  <1>5. late' \subseteq Calls \X Generations /\ LateOK(late', ext')
    BY <1>4, LateForward DEF DeliverLate
  <1>6. faults' \in 0..MaxFaults
    BY DEF DeliverLate, CheckoutInv, TypeOK
  <1>7. PICK a \in Actors : \E step \in Steps : step = pc[a] /\ pc' = [pc EXCEPT ![a] = step]
    BY <1>1, PcStands
  <1> QED
    BY <1>1, <1>4, <1>5, <1>6, <1>7, RemoteStep

(* The reaper frees reservations, never consumed stock.                    *)
LEMMA ReapKeeps ==
    ASSUME CheckoutInv, Reap
    PROVE  CheckoutInv'
  <1>1. UNCHANGED <<degrade, attempt, order, recon, task, job>> /\ UNCHANGED pc
    BY DEF Reap, rows
  <1>2. ext' \in External /\ ExtOK(ext') /\ Forward(order, ext, order, ext')
    BY DEF Reap, CheckoutInv, TypeOK, External, ExtOK, Forward
  <1>3. late' \subseteq Calls \X Generations /\ LateOK(late', ext')
    BY <1>2, LateForward DEF Reap
  <1>4. faults' \in 0..MaxFaults
    BY DEF Reap, CheckoutInv, TypeOK
  <1>5. PICK a \in Actors : \E step \in Steps : step = pc[a] /\ pc' = [pc EXCEPT ![a] = step]
    BY <1>1, PcStands
  <1> QED
    BY <1>1, <1>2, <1>3, <1>4, <1>5, RemoteStep

(* The steps after an authorization.                                       *)
LEMMA AfterAuthorizePlain ==
    ASSUME NEW e
    PROVE  AfterAuthorize(e) \in {"reserve", "register_pending", "cancel"}
  BY DEF AfterAuthorize

(* The steps after looking the payment up.                                 *)
LEMMA AfterLookupPlain ==
    ASSUME NEW e \in External
    PROVE  AfterLookup(e) \in {"register_unknown", "rec_enqueue", "register_pending", "reserve", "absent",
                               "cancel"}
  BY DEF AfterLookup, External

(* authorize_payment and recover_authorization ask the same question. *)
LEMMA AskKeeps ==
    ASSUME CheckoutInv, NEW h \in Handlers, pc[h] \notin Early,
           UNCHANGED <<degrade, attempt, order, recon, task, job>>,
           NEW g \in Generations,
           \/ ext' \in Effects("authorize", g) /\ UNCHANGED <<late, faults>>
           \/ Unanswered("authorize", g),
           NEW step \in Plain \cup {"reserve"}, pc' = [pc EXCEPT ![h] = step]
    PROVE  CheckoutInv'
  <1>1. h \in Actors /\ h \notin Reconcilers /\ StepOK(h, pc[h], order, ext)
    BY ActorsApart DEF CheckoutInv
  <1>2. "authorize" \in Calls
    BY DEF Calls
  <1>3. /\ ext' \in External /\ ExtOK(ext') /\ Forward(order, ext, order, ext')
        /\ late' \subseteq Calls \X Generations /\ LateOK(late', ext')
        /\ faults' \in 0..MaxFaults
    <2>1. CASE ext' \in Effects("authorize", g) /\ UNCHANGED <<late, faults>>
      <3>1. ext' \in External /\ ExtOK(ext') /\ Forward(order, ext, order, ext')
        BY <1>2, <2>1, EffectsKeep
      <3>2. late' \subseteq Calls \X Generations /\ LateOK(late', ext')
        BY <2>1, <3>1, LateForward
      <3> QED
        BY <2>1, <3>1, <3>2 DEF CheckoutInv, TypeOK
    <2>2. CASE Unanswered("authorize", g)
      BY <1>2, <2>2, UnansweredKeeps
    <2> QED
      BY <2>1, <2>2
  <1>4. step \in Steps /\ step # "reply_pending" /\ StepOK(h, step, order, ext')
    BY <1>1, <1>3 DEF StepOK, Forward, Plain, Steps
  <1> QED
    BY <1>1, <1>3, <1>4, RemoteStep

(* authorize_payment.                                                      *)
LEMMA AuthorizeKeeps ==
    ASSUME CheckoutInv, NEW g \in Generations, Authorize(g)
    PROVE  CheckoutInv'
  <1>1. Handler(g) \in Handlers /\ pc[Handler(g)] \notin Early
    BY ActorsApart DEF Authorize, Early
  <1>2. UNCHANGED <<degrade, attempt, order, recon, task, job>>
    BY DEF Authorize, rows
  <1>3. /\ \/ ext' \in Effects("authorize", g) /\ UNCHANGED <<late, faults>>
           \/ Unanswered("authorize", g)
        /\ \E step \in {"reserve", "register_pending", "cancel", "recover", "stalled"} :
             pc' = [pc EXCEPT ![Handler(g)] = step]
    BY AfterAuthorizePlain DEF Authorize, Go
  <1>4. {"reserve", "register_pending", "cancel", "recover", "stalled"} \subseteq Plain \cup {"reserve"}
    BY DEF Plain, Steps
  <1> QED
    BY <1>1, <1>2, <1>3, <1>4, AskKeeps

(* recover_authorization.                                                  *)
LEMMA RecoverKeeps ==
    ASSUME CheckoutInv, NEW g \in Generations, Recover(g)
    PROVE  CheckoutInv'
  <1> DEFINE next == {"reserve", "register_pending", "cancel", "register_unknown", "rec_enqueue",
                      "absent", "reply_failed"}
  <1>1. Handler(g) \in Handlers /\ pc[Handler(g)] \notin Early
    BY ActorsApart DEF Recover, Early
  <1>2. UNCHANGED <<degrade, attempt, order, recon, task, job>>
    BY DEF Recover, rows
  <1>3. CASE /\ ext' \in Effects("authorize", g)
             /\ Go(Handler(g), AfterAuthorize(ext'))
             /\ UNCHANGED <<late, faults>>
    <2>1. \E step \in next : pc' = [pc EXCEPT ![Handler(g)] = step]
      BY <1>3, AfterAuthorizePlain DEF Go
    <2>2. next \subseteq Plain \cup {"reserve"}
      BY DEF Plain, Steps
    <2> QED
      BY <1>1, <1>2, <1>3, <2>1, <2>2, AskKeeps
  <1>4. CASE /\ Unanswered("authorize", g)
             /\ \E step \in {AfterLookup(ext'), "reply_failed"} : Go(Handler(g), step)
    <2>1. ext' \in External
      BY <1>4, UnansweredKeeps DEF Calls
    <2>2. \E step \in next : pc' = [pc EXCEPT ![Handler(g)] = step]
      BY <1>4, <2>1, AfterLookupPlain DEF Go
    <2>3. next \subseteq Plain \cup {"reserve"}
      BY DEF Plain, Steps
    <2> QED
      BY <1>1, <1>2, <1>4, <2>2, <2>3, AskKeeps
  <1> QED
    BY <1>3, <1>4 DEF Recover

(* A decided order stays, and an order does not disappear.                 *)
OrderForward(o, oo) ==
    /\ o = "paid" => oo = "paid"
    /\ o = "cancelled" => oo = "cancelled"
    /\ o # "none" => oo # "none"

(* A step that leaves the remote services alone. *)
LEMMA RowStep ==
    ASSUME CheckoutInv, UNCHANGED <<degrade, ext, late>>,
           attempt' \in AttemptRows, order' \in {"none", "pending", "paid", "cancelled"},
           recon' \in ReconRows, task' \in [Kinds \X Generations -> TaskRows],
           faults' \in 0..MaxFaults, job' \in [Reconcilers \cup Compensators -> Jobs],
           OrderForward(order, order'), order' = "paid" => ext.stock = "consumed",
           NEW a \in Actors, NEW step \in Steps, pc' = [pc EXCEPT ![a] = step],
           step = pc[a] \/ StepOK(a, step, order', ext),
           RowsOK(attempt', order', recon'), TasksOK(task', attempt'),
           RepliesOK(pc', attempt', recon')
    PROVE  CheckoutInv'
  <1>1. pc' \in [Actors -> Steps]
    BY DEF CheckoutInv, TypeOK
  <1>2. TypeOK'
    BY <1>1 DEF CheckoutInv, TypeOK
  <1>3. Forward(order, ext, order', ext')
    BY DEF Forward, OrderForward
  <1>4. ExtOK(ext') /\ LateOK(late', ext')
    BY DEF CheckoutInv
  <1> QED
    BY <1>2, <1>3, <1>4, Assemble

(* The parts of the invariant.                                             *)
LEMMA Types ==
    ASSUME CheckoutInv
    PROVE  /\ degrade \in BOOLEAN /\ attempt \in AttemptRows
           /\ order \in {"none", "pending", "paid", "cancelled"} /\ recon \in ReconRows
           /\ task \in [Kinds \X Generations -> TaskRows] /\ ext \in External
           /\ late \subseteq Calls \X Generations /\ faults \in 0..MaxFaults
           /\ pc \in [Actors -> Steps] /\ job \in [Reconcilers \cup Compensators -> Jobs]
           /\ RowsOK(attempt, order, recon) /\ TasksOK(task, attempt)
           /\ RepliesOK(pc, attempt, recon) /\ ExtOK(ext) /\ LateOK(late, ext)
           /\ order = "paid" => ext.stock = "consumed"
           /\ \A a \in Actors : pc[a] \in Steps /\ StepOK(a, pc[a], order, ext)
  BY DEF CheckoutInv, TypeOK

(* A step of the attempt and its reconciliation job: the orders, tasks and *)
(* the jobs of the workers stay.                                           *)
LEMMA AttemptStep ==
    ASSUME CheckoutInv, UNCHANGED <<degrade, order, task, ext, late, faults>>,
           attempt' \in AttemptRows, recon' \in ReconRows,
           job' \in [Reconcilers \cup Compensators -> Jobs],
           NEW a \in Actors, NEW step \in Steps, pc' = [pc EXCEPT ![a] = step],
           step = pc[a] \/ StepOK(a, step, order, ext),
           attempt'.gen = attempt.gen,
           RowsOK(attempt', order, recon'), RepliesOK(pc', attempt', recon')
    PROVE  CheckoutInv'
  <1>1. TasksOK(task', attempt') /\ OrderForward(order, order')
    BY Types DEF TasksOK, OrderForward
  <1> QED
    BY <1>1, Types, RowStep

(* The first claim finds no row of an earlier generation.                  *)
LEMMA ClaimNewKeeps ==
    ASSUME CheckoutInv, ClaimNew
    PROVE  CheckoutInv'
  <1>1. Handler(1) \in Actors /\ "create" \in Steps /\ StepOK(Handler(1), "create", order, ext)
    BY ActorsApart DEF Steps, StepOK, Early
  <1>2. attempt' = [status |-> "started", gen |-> 1, live |-> TRUE] /\ attempt' \in AttemptRows
    BY ActorsApart DEF ClaimNew, AttemptRows
  <1>3. /\ UNCHANGED <<degrade, order, recon, task, ext, late, faults, job>>
        /\ pc' = [pc EXCEPT ![Handler(1)] = "create"]
    BY DEF ClaimNew, remote, Go
  <1>4. attempt.gen = 0 /\ recon.status = "none"
    BY Types, ActorsApart DEF ClaimNew, RowsOK, ReconRows, OpenJob
  <1>5. RowsOK(attempt', order, recon)
    BY <1>2, <1>4, ActorsApart DEF RowsOK, OpenJob
  <1>6. TasksOK(task, attempt')
    BY <1>4, Types, ActorsApart DEF TasksOK
  <1>7. pc'[Handler(1)] = "create"
    BY <1>1, <1>3, Types
  <1>8. RepliesOK(pc', attempt', recon)
    BY <1>2, <1>7 DEF RepliesOK
  <1>9. OrderForward(order, order')
    BY <1>3 DEF OrderForward
  <1> QED
    BY <1>1, <1>2, <1>3, <1>5, <1>6, <1>8, <1>9, Types, RowStep

(* Reclaiming an attempt whose order is paid answers paid.                 *)
LEMMA ReclaimPaidKeeps ==
    ASSUME CheckoutInv, ReclaimPaid
    PROVE  CheckoutInv'
  <1>1. /\ UNCHANGED <<degrade, order, recon, task, ext, late, faults, job, pc>>
        /\ attempt' = [attempt EXCEPT !.status = "paid"]
    BY DEF ReclaimPaid, remote
  <1>2. attempt' \in AttemptRows /\ attempt'.status = "paid" /\ attempt'.gen = attempt.gen
    BY <1>1, Types DEF AttemptRows
  <1>3. RowsOK(attempt', order, recon)
    BY <1>2, Types DEF ReclaimPaid, Stale, RowsOK, OpenJob
  <1>4. PICK a \in Actors : \E step \in Steps : step = pc[a] /\ pc' = [pc EXCEPT ![a] = step]
    BY <1>1, PcStands
  <1>5. RepliesOK(pc', attempt', recon')
    BY <1>2 DEF RepliesOK
  <1> QED
    BY <1>1, <1>2, <1>3, <1>4, <1>5, Types, AttemptStep

(* Reclaiming takes an open reconciliation job along.                      *)
LEMMA TransferredRow ==
    ASSUME CheckoutInv, NEW g \in Generations, attempt.status = "started"
    PROVE  /\ Transferred(g) \in ReconRows
           /\ Transferred(g).status \in OpenJob \cup {"none"}
           /\ Transferred(g).status \in OpenJob => Transferred(g).gen = g
           /\ recon.status \in OpenJob => Transferred(g).status \in OpenJob
  <1>1. recon.status \in OpenJob \cup {"none"} /\ (recon.status \in OpenJob => recon.gen = attempt.gen)
    BY Types DEF RowsOK, ReconRows, OpenJob
  <1>2. g \in 0..MaxGeneration /\ Nobody \in Reconcilers \cup {Nobody}
    BY ActorsApart
  <1>3. CASE recon.status = "none"
    BY <1>3, Types DEF Transferred, OpenJob
  <1>4. CASE recon.status \in OpenJob
    BY <1>1, <1>2, <1>4, Types DEF Transferred, ReconRows, OpenJob
  <1> QED
    BY <1>1, <1>3, <1>4

(* Reclaiming leaves no task of the old generation open.                   *)
LEMMA SupersededRows ==
    ASSUME CheckoutInv
    PROVE  /\ Superseded(attempt.gen) \in [Kinds \X Generations -> TaskRows]
           /\ \A t \in Kinds \X Generations :
                Superseded(attempt.gen)[t].status \notin {"queued", "processing", "failed"}
  <1>1. ASSUME NEW t \in Kinds \X Generations
        PROVE  /\ Superseded(attempt.gen)[t] \in TaskRows
               /\ Superseded(attempt.gen)[t].status \notin {"queued", "processing", "failed"}
    <2>1. task[t] \in TaskRows /\ Nobody \in Compensators \cup {Nobody}
      BY Types
    <2>2. task[t].status \in {"queued", "processing", "failed"} => t[2] = attempt.gen
      BY Types DEF TasksOK
    <2> QED
      BY <2>1, <2>2 DEF Superseded, TaskRows, NoTask
  <1> QED
    BY <1>1 DEF Superseded

(* The next generation starts with its predecessor retired.                *)
LEMMA ReclaimKeeps ==
    ASSUME CheckoutInv, Reclaim
    PROVE  CheckoutInv'
  <1>1. PICK g \in Generations :
          /\ g = attempt.gen + 1
          /\ attempt' = [status |-> "started", gen |-> g, live |-> TRUE]
          /\ recon' = Transferred(g) /\ task' = Superseded(attempt.gen)
          /\ pc' = [pc EXCEPT ![Handler(g)] = "create"]
          /\ UNCHANGED <<degrade, order, ext, late, faults, job>>
    BY DEF Reclaim, Go, remote
  <1>2. attempt.status = "started" /\ order \in {"none", "pending"}
    BY DEF Reclaim, Stale
  <1>3. Handler(g) \in Actors /\ "create" \in Steps /\ StepOK(Handler(g), "create", order, ext)
    BY ActorsApart DEF Steps, StepOK, Early
  <1>4. attempt' \in AttemptRows
    BY <1>1, ActorsApart DEF AttemptRows
  <1>5. recon' \in ReconRows /\ recon'.status \in OpenJob \cup {"none"}
        /\ (recon'.status \in OpenJob => recon'.gen = g)
    BY <1>1, <1>2, TransferredRow
  <1>6. task' \in [Kinds \X Generations -> TaskRows] /\ TasksOK(task', attempt')
    BY <1>1, SupersededRows DEF TasksOK
  <1>7. RowsOK(attempt', order', recon')
    BY <1>1, <1>2, <1>5, ActorsApart DEF RowsOK, OpenJob
  <1>8. pc'[Handler(g)] = "create"
    BY <1>1, <1>3, Types
  <1>9. RepliesOK(pc', attempt', recon')
    BY <1>1, <1>8 DEF RepliesOK
  <1>10. OrderForward(order, order')
    BY <1>1 DEF OrderForward
  <1> QED
    BY <1>1, <1>3, <1>4, <1>5, <1>6, <1>7, <1>9, <1>10, Types, RowStep

(* The row of a job that stays as it is, or stays open.                    *)
SameJob(row) ==
    \/ row = recon
    \/ /\ row \in ReconRows /\ row.status \in OpenJob
       /\ recon.status \in OpenJob /\ row.gen = recon.gen

(* A job that stays open in its generation agrees with the attempt as      *)
(* before.                                                                 *)
LEMMA SameJobRows ==
    ASSUME CheckoutInv, NEW row, SameJob(row)
    PROVE  /\ row \in ReconRows /\ RowsOK(attempt, order, row)
           /\ recon.status \in OpenJob => row.status \in OpenJob
  BY Types DEF SameJob, RowsOK, OpenJob

(* Waking and requeueing keep the job open and in its generation.          *)
LEMMA WokenSame ==
    ASSUME CheckoutInv
    PROVE  SameJob(Woken) /\ SameJob(Requeued)
  <1>1. recon \in ReconRows /\ Nobody \in Reconcilers \cup {Nobody} /\ 0 \in 0..MaxReconcile
    BY Types, CheckoutAssumption
  <1> QED
    BY <1>1 DEF SameJob, Woken, Requeued, ReconRows, OpenJob

(* A step of the reconciliation job alone. *)
LEMMA JobStep ==
    ASSUME CheckoutInv, UNCHANGED <<degrade, attempt, order, task, ext, late, faults>>,
           SameJob(recon'), job' \in [Reconcilers \cup Compensators -> Jobs],
           NEW a \in Actors, NEW step \in Steps, pc' = [pc EXCEPT ![a] = step],
           \/ step = pc[a]
           \/ step # "reply_pending" /\ StepOK(a, step, order, ext)
    PROVE  CheckoutInv'
  <1>1. recon' \in ReconRows /\ RowsOK(attempt', order', recon')
        /\ (recon.status \in OpenJob => recon'.status \in OpenJob)
    BY SameJobRows
  <1>2. RepliesOK(pc', attempt', recon')
    BY <1>1, RepliesKept
  <1>3. TasksOK(task', attempt') /\ OrderForward(order, order')
    BY Types DEF TasksOK, OrderForward
  <1> QED
    BY <1>1, <1>2, <1>3, Types, RowStep

(* A repeated request wakes the job.                                       *)
LEMMA ReplayPendingKeeps ==
    ASSUME CheckoutInv, ReplayPending
    PROVE  CheckoutInv'
  <1>1. UNCHANGED <<degrade, attempt, order, task, ext, late, faults, pc, job>> /\ SameJob(recon')
    BY WokenSame DEF ReplayPending, remote
  <1>2. PICK a \in Actors : \E step \in Steps : step = pc[a] /\ pc' = [pc EXCEPT ![a] = step]
    BY <1>1, PcStands
  <1> QED
    BY <1>1, <1>2, Types, JobStep

(* The handler wakes the job after its answer.                             *)
LEMMA WakeKeeps ==
    ASSUME CheckoutInv, NEW g \in Generations, Wake(g)
    PROVE  CheckoutInv'
  <1>1. /\ UNCHANGED <<degrade, attempt, order, task, ext, late, faults, job>> /\ SameJob(recon')
        /\ pc' = [pc EXCEPT ![Handler(g)] = "done"]
    BY WokenSame DEF Wake, remote, Go
  <1>2. Handler(g) \in Actors /\ "done" \in Steps /\ StepOK(Handler(g), "done", order, ext)
    BY ActorsApart DEF Steps, StepOK, Early
  <1> QED
    BY <1>1, <1>2, Types, JobStep

(* The decision of the provider authorizes or fails, it does not capture.  *)
LEMMA ProviderDecidesKeeps ==
    ASSUME CheckoutInv, ProviderDecides
    PROVE  CheckoutInv'
  <1>1. UNCHANGED <<degrade, attempt, order, task, late, faults, pc, job>> /\ SameJob(recon')
    BY WokenSame DEF ProviderDecides
  <1>2. ext' \in External /\ ExtOK(ext') /\ Forward(order, ext, order', ext')
    BY <1>1, Types DEF ProviderDecides, External, ExtOK, Forward
  <1>3. recon' \in ReconRows /\ RowsOK(attempt', order', recon')
        /\ (recon.status \in OpenJob => recon'.status \in OpenJob)
    BY <1>1, SameJobRows
  <1>4. PICK a \in Actors : \E step \in Steps : step = pc[a] /\ pc' = [pc EXCEPT ![a] = step]
    BY <1>1, PcStands
  <1>5. RepliesOK(pc', attempt', recon')
    BY <1>1, <1>3, <1>4, RepliesKept
  <1>6. TypeOK'
    BY <1>1, <1>2, <1>3 DEF CheckoutInv, TypeOK
  <1>7. LateOK(late', ext') /\ TasksOK(task', attempt') /\ (order' = "paid" => ext'.stock = "consumed")
    BY <1>1, <1>2, Types DEF LateOK, TasksOK, Forward
  <1> QED
    BY <1>2, <1>3, <1>4, <1>5, <1>6, <1>7, Assemble

(* A lease that runs out changes no answer.                                *)
LEMMA ExpireAttemptKeeps ==
    ASSUME CheckoutInv, ExpireAttempt
    PROVE  CheckoutInv'
  <1>1. /\ UNCHANGED <<degrade, order, recon, task, ext, late, faults, pc, job>>
        /\ attempt' = [attempt EXCEPT !.live = FALSE]
    BY DEF ExpireAttempt, remote
  <1>2. attempt' \in AttemptRows /\ attempt'.status = attempt.status /\ attempt'.gen = attempt.gen
    BY <1>1, Types DEF AttemptRows
  <1>3. PICK a \in Actors : \E step \in Steps : step = pc[a] /\ pc' = [pc EXCEPT ![a] = step]
    BY <1>1, PcStands
  <1>4. RowsOK(attempt', order, recon')
    BY <1>1, <1>2, Types DEF RowsOK
  <1>5. RepliesOK(pc', attempt', recon')
    BY <1>1, <1>2, <1>3, RepliesKept
  <1> QED
    BY <1>1, <1>2, <1>3, <1>4, <1>5, Types, AttemptStep

(* Nor does the lease of a job.                                            *)
LEMMA ExpireReconciliationKeeps ==
    ASSUME CheckoutInv, ExpireReconciliation
    PROVE  CheckoutInv'
  <1>1. UNCHANGED <<degrade, attempt, order, task, ext, late, faults, pc, job>>
    BY DEF ExpireReconciliation, remote
  <1>2. SameJob(recon')
    BY Types DEF ExpireReconciliation, SameJob, ReconRows, OpenJob
  <1>3. PICK a \in Actors : \E step \in Steps : step = pc[a] /\ pc' = [pc EXCEPT ![a] = step]
    BY <1>1, PcStands
  <1> QED
    BY <1>1, <1>2, <1>3, Types, JobStep

(* The upsert of the reconciliation row by the generation that is current. *)
LEMMA RegisteredRow ==
    ASSUME CheckoutInv, NEW g \in Generations, Started(g)
    PROVE  /\ Registered(g) \in ReconRows /\ Registered(g).status \in OpenJob
           /\ Registered(g).gen = g
  <1>1. recon.status \in OpenJob \cup {"none"} /\ recon \in ReconRows
    BY Types DEF RowsOK, ReconRows, OpenJob, Started
  <1>2. /\ g \in 0..MaxGeneration /\ Nobody \in Reconcilers \cup {Nobody}
        /\ 0 \in 0..MaxGeneration /\ 0 \in 0..MaxReconcile
    BY ActorsApart, CheckoutAssumption
  <1>3. CASE recon.status = "none"
    BY <1>2, <1>3 DEF Registered, NoRow, ReconRows, OpenJob
  <1>4. CASE recon.status \in OpenJob
    BY <1>1, <1>2, <1>4 DEF Registered, ReconRows, OpenJob
  <1> QED
    BY <1>1, <1>3, <1>4

(* A handler that still owns its token may register the job under its      *)
(* generation.                                                             *)
LEMMA UpsertKeeps ==
    ASSUME CheckoutInv, NEW g \in Generations, NEW step \in Steps,
           UNCHANGED <<degrade, attempt, order, task, ext, late, faults, job>>,
           recon' = IF Started(g) THEN Registered(g) ELSE recon,
           pc' = [pc EXCEPT ![Handler(g)] = step],
           step = "reply_pending" => Started(g), StepOK(Handler(g), step, order, ext)
    PROVE  CheckoutInv'
  <1>1. Handler(g) \in Actors
    BY ActorsApart
  <1>2. recon' \in ReconRows /\ RowsOK(attempt', order, recon')
    BY RegisteredRow, Types DEF RowsOK, OpenJob, Started
  <1>3. RepliesOK(pc', attempt', recon')
    <2>1. CASE Started(g)
      BY <2>1, RegisteredRow DEF RepliesOK
    <2>2. CASE ~Started(g)
      BY <1>1, <2>2, RepliesKept
    <2> QED
      BY <2>1, <2>2
  <1> QED
    BY <1>1, <1>2, <1>3, Types, AttemptStep

(* Registering precedes every pending answer, under the same fence.        *)
LEMMA RegisterKeeps ==
    ASSUME CheckoutInv, NEW g \in Generations, Register(g)
    PROVE  CheckoutInv'
  <1>1. Handler(g) \in Handlers /\ Handler(g) \in Actors /\ pc[Handler(g)] \notin Early /\ Gen(Handler(g)) = g
    BY ActorsApart DEF Register, Early, Gen
  <1>2. UNCHANGED <<degrade, attempt, order, task, ext, late, faults, job>>
    BY DEF Register, remote
  <1>3. order # "none"
    BY <1>1, Types DEF StepOK
  <1>4. \A step \in {"reply_pending", "reply_post", "reply_failed"} :
          step \in Steps /\ StepOK(Handler(g), step, order, ext)
    BY <1>3, <1>1, ActorsApart DEF StepOK, Steps
  <1>5. CASE Fence(Handler(g))
    <2>1. Started(g) /\ recon' = Registered(g)
      BY <1>1, <1>5 DEF Fence, Owned, Register
    <2>2. PICK step \in {"reply_pending", "reply_post", "reply_failed"} :
            pc' = [pc EXCEPT ![Handler(g)] = step]
      BY <1>5 DEF Register, Go
    <2> QED
      BY <1>2, <1>4, <2>1, <2>2, UpsertKeeps
  <1>6. CASE ~Fence(Handler(g))
    <2>1. SameJob(recon') /\ pc' = [pc EXCEPT ![Handler(g)] = "reply_failed"]
      BY <1>6 DEF Register, Go, SameJob
    <2> QED
      BY <1>1, <1>2, <1>4, <2>1, Types, JobStep
  <1> QED
    BY <1>5, <1>6

(* A handler that lost its lease registers only while it holds the token.  *)
LEMMA QueueRecoveryKeeps ==
    ASSUME CheckoutInv, NEW g \in Generations, QueueRecovery(g)
    PROVE  CheckoutInv'
  <1>1. "reply_failed" \in Steps /\ StepOK(Handler(g), "reply_failed", order, ext)
    BY DEF StepOK, Steps, Early
  <1>2. /\ UNCHANGED <<degrade, attempt, order, task, ext, late, faults, job>>
        /\ pc' = [pc EXCEPT ![Handler(g)] = "reply_failed"]
        /\ recon' = IF Started(g) THEN Registered(g) ELSE recon
    BY DEF QueueRecovery, remote, Go
  <1> QED
    BY <1>1, <1>2, UpsertKeeps

(* The handler's answer. *)
LEMMA RecordedKeeps ==
    ASSUME CheckoutInv, NEW g \in Generations, NEW status \in {"paid", "degraded", "pending", "failed"},
           NEW step \in {"done", "wake"},
           attempt' = Recorded(Handler(g), status),
           pc' = [pc EXCEPT ![Handler(g)] = step],
           UNCHANGED <<degrade, order, recon, task, ext, late, faults, job>>,
           status = "paid" => order = "paid",
           status = "degraded" => order = "cancelled",
           status = "pending" => pc[Handler(g)] = "reply_pending",
           step = "wake" => order # "none"
    PROVE  CheckoutInv'
  <1>1. Handler(g) \in Handlers /\ Handler(g) \in Actors /\ Gen(Handler(g)) = g
    BY ActorsApart DEF Gen
  <1>2. step \in Steps /\ StepOK(Handler(g), step, order, ext) /\ step # "reply_pending"
    BY DEF StepOK, Steps, Early
  <1>3. CASE Fence(Handler(g))
    <2>1. attempt.status = "started" /\ attempt.gen = g
      BY <1>1, <1>3 DEF Fence, Owned, Started
    <2>2. /\ attempt' \in AttemptRows /\ attempt'.status = status /\ attempt'.gen = g
      BY <1>3, <2>1, Types DEF Recorded, AttemptRows
    <2>3. status = "pending" => order # "none" /\ recon.status \in OpenJob
      BY <1>1, <2>1, Types DEF RepliesOK, StepOK, Early
    <2>4. RowsOK(attempt', order, recon')
      BY <2>1, <2>2, <2>3, Types DEF RowsOK, OpenJob
    <2>5. RepliesOK(pc', attempt', recon')
      BY <2>2 DEF RepliesOK
    <2> QED
      BY <1>1, <1>2, <2>1, <2>2, <2>4, <2>5, Types, AttemptStep
  <1>4. CASE ~Fence(Handler(g))
    <2>1. attempt' = attempt
      BY <1>4 DEF Recorded
    <2>2. SameJob(recon')
      BY DEF SameJob
    <2> QED
      BY <1>1, <1>2, <2>1, <2>2, Types, JobStep
  <1> QED
    BY <1>3, <1>4

(* record_checkout_response and record_checkout_failure.                   *)
LEMMA ReplyKeeps ==
    ASSUME CheckoutInv, NEW g \in Generations, Reply(g)
    PROVE  CheckoutInv'
  <1>1. UNCHANGED <<degrade, order, recon, task, ext, late, faults, job>>
    BY DEF Reply, remote
  <1>2. StepOK(Handler(g), pc[Handler(g)], order, ext) /\ Handler(g) \in Handlers
    BY ActorsApart, Types
  <1>3. CASE pc[Handler(g)] = "reply_paid" /\ attempt' = Recorded(Handler(g), "paid")
             /\ Go(Handler(g), "done")
    BY <1>1, <1>2, <1>3, RecordedKeeps DEF Go, StepOK
  <1>4. CASE pc[Handler(g)] = "reply_degraded" /\ attempt' = Recorded(Handler(g), "degraded")
             /\ Go(Handler(g), "done")
    BY <1>1, <1>2, <1>4, RecordedKeeps DEF Go, StepOK
  <1>5. CASE /\ pc[Handler(g)] = "reply_pending" /\ attempt' = Recorded(Handler(g), "pending")
             /\ Go(Handler(g), IF Fence(Handler(g)) THEN "wake" ELSE "done")
    <2>1. order # "none"
      BY <1>2, <1>5 DEF StepOK, Early
    <2>2. PICK step \in {"done", "wake"} : pc' = [pc EXCEPT ![Handler(g)] = step]
      BY <1>5 DEF Go
    <2> QED
      BY <1>1, <1>5, <2>1, <2>2, RecordedKeeps
  <1>6. CASE pc[Handler(g)] = "reply_failed" /\ attempt' = Recorded(Handler(g), "failed")
             /\ Go(Handler(g), "done")
    BY <1>1, <1>6, RecordedKeeps DEF Go
  <1>7. CASE pc[Handler(g)] = "reply_post" /\ attempt' = Recorded(Handler(g), "failed")
             /\ Go(Handler(g), "wake")
    <2>1. order # "none"
      BY <1>2, <1>7 DEF StepOK, Early
    <2> QED
      BY <1>1, <1>7, <2>1, RecordedKeeps DEF Go
  <1> QED
    BY <1>3, <1>4, <1>5, <1>6, <1>7 DEF Reply

(* A step of the order alone. *)
LEMMA OrderStep ==
    ASSUME CheckoutInv, UNCHANGED <<degrade, attempt, recon, task, ext, late, job>>,
           order' \in {"none", "pending", "paid", "cancelled"}, faults' \in 0..MaxFaults,
           OrderForward(order, order'), order' = "paid" => ext.stock = "consumed",
           NEW a \in Actors, NEW step \in Steps, pc' = [pc EXCEPT ![a] = step],
           step # "reply_pending", StepOK(a, step, order', ext)
    PROVE  CheckoutInv'
  <1>1. RowsOK(attempt', order', recon')
    BY Types DEF RowsOK, OrderForward
  <1>2. RepliesOK(pc', attempt', recon')
    BY RepliesKept
  <1>3. TasksOK(task', attempt')
    BY Types DEF TasksOK
  <1> QED
    BY <1>1, <1>2, <1>3, Types, RowStep

(* create_pending_order.                                                   *)
LEMMA CreateOrderKeeps ==
    ASSUME CheckoutInv, NEW g \in Generations, CreateOrder(g)
    PROVE  CheckoutInv'
  <1>1. Handler(g) \in Actors
    BY ActorsApart
  <1>2. UNCHANGED <<degrade, attempt, recon, task, ext, late, faults, job>>
    BY DEF CreateOrder, remote
  <1>3. PICK step \in {"authorize", "reply_failed"} :
          /\ pc' = [pc EXCEPT ![Handler(g)] = step]
          /\ order' = IF step = "authorize" /\ order = "none" THEN "pending" ELSE order
    BY DEF CreateOrder, Go
  <1>4. step \in Steps /\ step # "reply_pending" /\ StepOK(Handler(g), step, order', ext)
    BY <1>3 DEF StepOK, Steps, Early
  <1>5. /\ OrderForward(order, order') /\ order' \in {"none", "pending", "paid", "cancelled"}
        /\ order' = "paid" => ext.stock = "consumed"
    BY <1>3, Types DEF OrderForward
  <1> QED
    BY <1>1, <1>2, <1>3, <1>4, <1>5, Types, OrderStep

(* cancel_order_fenced cancels a pending order, and a degraded answer      *)
(* follows only that.                                                      *)
LEMMA CancelKeeps ==
    ASSUME CheckoutInv, NEW g \in Generations, Cancel(g)
    PROVE  CheckoutInv'
  <1>1. Handler(g) \in Actors
    BY ActorsApart
  <1>2. UNCHANGED <<degrade, attempt, recon, task, ext, late, faults, job>>
    BY DEF Cancel, remote
  <1>3. PICK step \in {"reply_degraded", "reply_failed"} :
          /\ pc' = [pc EXCEPT ![Handler(g)] = step]
          /\ \/ order' = order /\ step = "reply_failed"
             \/ order = "pending" /\ order' = "cancelled"
    <2>1. CASE Fence(Handler(g)) /\ order = "pending"
      BY <2>1 DEF Cancel, Go
    <2>2. CASE ~(Fence(Handler(g)) /\ order = "pending")
      BY <2>2 DEF Cancel, Go
    <2> QED
      BY <2>1, <2>2
  <1>4. step \in Steps /\ step # "reply_pending" /\ StepOK(Handler(g), step, order', ext)
    BY <1>3 DEF StepOK, Steps, Early
  <1>5. /\ OrderForward(order, order') /\ order' \in {"none", "pending", "paid", "cancelled"}
        /\ order' = "paid" => ext.stock = "consumed"
    BY <1>3, Types DEF OrderForward
  <1> QED
    BY <1>1, <1>2, <1>3, <1>4, <1>5, Types, OrderStep

(* finalize_order: the order becomes paid with its stock consumed.         *)
LEMMA FinalizeKeeps ==
    ASSUME CheckoutInv, NEW a \in Handlers \cup Reconcilers, Finalize(a)
    PROVE  CheckoutInv'
  <1>1. a \in Actors /\ pc[a] = "finalize" /\ StepOK(a, "finalize", order, ext) /\ faults \in 0..MaxFaults
    BY ActorsApart, Types DEF Finalize
  <1>2. UNCHANGED <<degrade, attempt, recon, task, ext, late, job>>
    BY DEF Finalize
  <1>3. ext.stock = "consumed"
    BY <1>1 DEF StepOK
  <1>4. PICK step \in {Finished(a), Failed(a), Unfinished(a)} :
          /\ pc' = [pc EXCEPT ![a] = step]
          /\ \/ order = "pending" /\ order' = "paid"
             \/ order' = order /\ (step = Finished(a) => order = "paid")
          /\ faults' = faults \/ Fault
    <2>1. CASE /\ CanFinalize(a) /\ order' = "paid"
               /\ \/ Go(a, Finished(a)) /\ UNCHANGED faults
                  \/ Go(a, Failed(a)) /\ Fault
      BY <2>1 DEF CanFinalize, Go
    <2>2. CASE /\ Fence(a) /\ order = "pending" /\ Fault
               /\ \E step \in {Unfinished(a), Failed(a)} : Go(a, step)
               /\ UNCHANGED order
      BY <2>2 DEF Go, Finished, Unfinished, Failed
    <2>3. CASE /\ Fence(a) /\ order # "pending"
               /\ Go(a, IF order = "paid" THEN Finished(a) ELSE Unfinished(a))
               /\ UNCHANGED <<order, faults>>
      BY <2>3 DEF Go, Finished, Unfinished
    <2> QED
      BY <2>1, <2>2, <2>3 DEF Finalize
  <1>5. step \in Steps /\ step # "reply_pending" /\ StepOK(a, step, order', ext)
    BY <1>1, <1>4, ActorsApart DEF StepOK, Steps, Early, Finished, Failed, Unfinished
  <1>6. faults' \in 0..MaxFaults
    BY <1>1, <1>4, FaultSpent
  <1>7. /\ OrderForward(order, order') /\ order' \in {"none", "pending", "paid", "cancelled"}
    BY <1>4, Types DEF OrderForward
  <1> QED
    BY <1>1, <1>2, <1>3, <1>4, <1>5, <1>6, <1>7, OrderStep

(* cancel_order_if_compensated.                                            *)
LEMMA CloseKeeps ==
    ASSUME CheckoutInv, NEW a \in Handlers \cup Reconcilers, Close(a)
    PROVE  CheckoutInv'
  <1>1. a \in Actors /\ pc[a] = "close" /\ StepOK(a, "close", order, ext)
    BY ActorsApart, Types DEF Close
  <1>2. UNCHANGED <<degrade, attempt, recon, task, ext, late, faults, job>>
    BY DEF Close, remote
  <1>3. PICK step \in {"fail", "reply_failed", "retry"} :
          /\ pc' = [pc EXCEPT ![a] = step]
          /\ order' = order \/ (order = "pending" /\ order' = "cancelled")
    <2>1. CASE Fence(a) /\ order = "pending" /\ OpenTasks = {}
      BY <2>1 DEF Close, Go, Failed
    <2>2. CASE ~(Fence(a) /\ order = "pending" /\ OpenTasks = {})
      BY <2>2 DEF Close, Go, Failed
    <2> QED
      BY <2>1, <2>2
  <1>4. step \in Steps /\ step # "reply_pending" /\ StepOK(a, step, order', ext)
    BY <1>1, <1>3 DEF StepOK, Steps, Early
  <1>5. /\ OrderForward(order, order') /\ order' \in {"none", "pending", "paid", "cancelled"}
        /\ order' = "paid" => ext.stock = "consumed"
    BY <1>3, Types DEF OrderForward
  <1> QED
    BY <1>1, <1>2, <1>3, <1>4, <1>5, Types, OrderStep

(* A worker that comes to rest relies on nothing.                          *)
LEMMA RestTyped ==
    ASSUME CheckoutInv, NEW a \in Reconcilers \cup Compensators, Rest(a)
    PROVE  /\ a \in Actors /\ "idle" \in Steps /\ pc' = [pc EXCEPT ![a] = "idle"]
           /\ job' \in [Reconcilers \cup Compensators -> Jobs]
           /\ \A o, e : StepOK(a, "idle", o, e)
  <1>1. a \in Actors /\ "idle" \in Steps /\ pc' = [pc EXCEPT ![a] = "idle"]
    BY ActorsApart DEF Rest, Go, Steps
  <1>2. NoJob \in Jobs
    BY CheckoutAssumption DEF Jobs, NoJob, Kinds
  <1>3. job' \in [Reconcilers \cup Compensators -> Jobs]
    BY <1>2, Types DEF Rest
  <1> QED
    BY <1>1, <1>3 DEF StepOK, Early

(* A worker that drops its job. *)
LEMMA RestKeeps ==
    ASSUME CheckoutInv, NEW a \in Reconcilers \cup Compensators, Rest(a),
           UNCHANGED <<degrade, attempt, order, recon, task, ext, late>>, faults' \in 0..MaxFaults
    PROVE  CheckoutInv'
  <1>1. /\ a \in Actors /\ "idle" \in Steps /\ pc' = [pc EXCEPT ![a] = "idle"]
        /\ job' \in [Reconcilers \cup Compensators -> Jobs] /\ StepOK(a, "idle", order', ext)
    BY RestTyped
  <1>2. RepliesOK(pc', attempt', recon')
    BY <1>1, RepliesKept
  <1>3. TasksOK(task', attempt') /\ OrderForward(order, order')
    BY Types DEF TasksOK, OrderForward
  <1> QED
    BY <1>1, <1>2, <1>3, Types, RowStep

(* A reconciler that lost its fence.                                       *)
LEMMA DropKeeps ==
    ASSUME CheckoutInv, NEW a \in Reconcilers, Drop(a)
    PROVE  CheckoutInv'
  <1>1. Rest(a) /\ UNCHANGED <<degrade, attempt, order, recon, task, ext, late, faults>>
    BY DEF Drop, rows, remote
  <1> QED
    BY <1>1, Types, RestKeeps

(* A worker that dies.                                                     *)
LEMMA CrashKeeps ==
    ASSUME CheckoutInv, NEW a \in Reconcilers \cup Compensators, Crash(a)
    PROVE  CheckoutInv'
  <1>1. Rest(a) /\ UNCHANGED <<degrade, attempt, order, recon, task, ext, late>>
    BY DEF Crash, rows
  <1>2. faults' \in 0..MaxFaults
    BY FaultSpent DEF Crash
  <1> QED
    BY <1>1, <1>2, RestKeeps

(* A claimed job stays open.                                               *)
LEMMA ClaimReconciliationKeeps ==
    ASSUME CheckoutInv, NEW a \in Reconcilers, ClaimReconciliation(a)
    PROVE  CheckoutInv'
  <1>1. /\ UNCHANGED <<degrade, attempt, order, task, ext, late, faults>>
        /\ pc' = [pc EXCEPT ![a] = "look"]
    BY DEF ClaimReconciliation, remote, Go
  <1>2. a \in Actors /\ "look" \in Steps /\ StepOK(a, "look", order, ext)
    BY ActorsApart DEF StepOK, Steps
  <1>3. PICK n \in 0..MaxReconcile : n = recon.attempts + 1
    BY Types, CheckoutAssumption DEF ClaimReconciliation, AttemptsLeft, ReconRows
  <1>4. SameJob(recon')
    BY <1>3, Types DEF ClaimReconciliation, ReconcileDue, SameJob, ReconRows, OpenJob
  <1>5. PICK r \in Jobs : r = [job[a] EXCEPT !.gen = recon.gen]
    BY Types DEF Jobs, ReconRows
  <1>6. job' = [job EXCEPT ![a] = r]
    BY <1>5, Types DEF ClaimReconciliation
  <1>7. job' \in [Reconcilers \cup Compensators -> Jobs]
    BY <1>6, Types
  <1> QED
    BY <1>1, <1>2, <1>4, <1>7, JobStep

(* An exhausted job waits for the provider, and stays open.                *)
LEMMA ReclaimExhaustedKeeps ==
    ASSUME CheckoutInv, NEW a \in Reconcilers, ReclaimExhausted(a)
    PROVE  CheckoutInv'
  <1>1. UNCHANGED <<degrade, attempt, order, task, ext, late, faults, pc, job>>
    BY DEF ReclaimExhausted, remote
  <1>2. SameJob(recon')
    BY Types DEF ReclaimExhausted, SameJob, ReconRows, OpenJob
  <1>3. PICK b \in Actors : \E step \in Steps : step = pc[b] /\ pc' = [pc EXCEPT ![b] = step]
    BY <1>1, PcStands
  <1> QED
    BY <1>1, <1>2, <1>3, Types, JobStep

(* The row a worker leaves behind.                                         *)
LEMMA NoOwnerRow ==
    ASSUME CheckoutInv, NEW status \in OpenJob \cup {"completed", "failed"}
    PROVE  /\ NoOwner(status) \in ReconRows /\ NoOwner(status).status = status
           /\ NoOwner(status).gen = recon.gen
  BY Types DEF NoOwner, ReconRows, OpenJob

\* What a reconciler's fence says about its rows.
LEMMA ReconcilerFence ==
    ASSUME CheckoutInv, NEW a \in Reconcilers, Fence(a)
    PROVE  /\ recon.status = "processing" /\ recon.gen = attempt.gen /\ recon.gen \in Generations
           /\ attempt.status \in {"started", "pending", "failed"}
  <1>1. a \notin Handlers /\ a \in Actors
    BY ActorsApart
  <1>2. recon.status = "processing" /\ recon.gen = Gen(a)
    BY <1>1 DEF Fence
  <1> QED
    BY <1>1, <1>2, FenceOpen

(* A retried job stays open.                                               *)
LEMMA RetryReconciliationKeeps ==
    ASSUME CheckoutInv, NEW a \in Reconcilers, RetryReconciliation(a)
    PROVE  CheckoutInv'
  <1>1. UNCHANGED <<degrade, attempt, order, task, ext, late, faults>> /\ Rest(a) /\ Fence(a)
    BY DEF RetryReconciliation, remote
  <1>2. PICK status \in {"awaiting_provider", "queued"} : recon' = NoOwner(status)
    BY DEF RetryReconciliation
  <1>3. SameJob(recon')
    BY <1>1, <1>2, NoOwnerRow, ReconcilerFence DEF SameJob, OpenJob
  <1> QED
    BY <1>1, <1>3, RestTyped, JobStep

(* The job completes with the attempt paid, and the order was paid before. *)
LEMMA CompleteReconciliationKeeps ==
    ASSUME CheckoutInv, NEW a \in Reconcilers, CompleteReconciliation(a)
    PROVE  CheckoutInv'
  <1>1. /\ UNCHANGED <<degrade, order, task, ext, late, faults>> /\ Rest(a) /\ Fence(a)
        /\ pc[a] = "complete" /\ recon' = NoOwner("completed")
    BY DEF CompleteReconciliation, remote
  <1>2. attempt' \in AttemptRows /\ attempt'.status = "paid" /\ attempt'.gen = attempt.gen
    BY Types DEF CompleteReconciliation, AttemptRows
  <1>3. order = "paid"
    BY <1>1, ActorsApart, Types DEF StepOK
  <1>4. recon' \in ReconRows /\ recon'.status = "completed" /\ recon'.gen = recon.gen
    BY <1>1, NoOwnerRow
  <1>5. RowsOK(attempt', order, recon')
    BY <1>1, <1>2, <1>3, <1>4, ReconcilerFence DEF RowsOK, OpenJob
  <1>6. RepliesOK(pc', attempt', recon')
    BY <1>2 DEF RepliesOK
  <1> QED
    BY <1>1, <1>2, <1>4, <1>5, <1>6, RestTyped, AttemptStep

(* The job fails with the attempt.                                         *)
LEMMA FailReconciliationKeeps ==
    ASSUME CheckoutInv, NEW a \in Reconcilers, FailReconciliation(a)
    PROVE  CheckoutInv'
  <1>1. /\ UNCHANGED <<degrade, task, ext, late, faults>> /\ Rest(a) /\ Fence(a)
        /\ recon' = NoOwner("failed")
    BY DEF FailReconciliation, remote
  <1>2. attempt' \in AttemptRows /\ attempt'.status = "failed" /\ attempt'.gen = attempt.gen
    BY Types DEF FailReconciliation, FailedAttempt, AttemptRows
  <1>3. order' = order \/ (order = "pending" /\ order' = "cancelled")
    BY DEF FailReconciliation
  <1>4. recon' \in ReconRows /\ recon'.status = "failed" /\ recon'.gen = recon.gen
    BY <1>1, NoOwnerRow
  <1>5. RowsOK(attempt', order', recon')
    BY <1>1, <1>2, <1>4, ReconcilerFence DEF RowsOK, OpenJob
  <1>6. RepliesOK(pc', attempt', recon')
    BY <1>2 DEF RepliesOK
  <1>7. TasksOK(task', attempt')
    BY <1>1, <1>2, Types DEF TasksOK
  <1>8. /\ OrderForward(order, order') /\ order' \in {"none", "pending", "paid", "cancelled"}
        /\ order' = "paid" => ext.stock = "consumed"
    BY <1>3, Types DEF OrderForward
  <1> QED
    BY <1>1, <1>2, <1>4, <1>5, <1>6, <1>7, <1>8, RestTyped, Types, RowStep

(* Tasks that are not over; a failed one still bars the cancellation.      *)
OpenTask == {"queued", "processing", "failed"}

(* A step that leaves the attempt and its reconciliation job alone. *)
LEMMA TaskStep ==
    ASSUME CheckoutInv, UNCHANGED <<degrade, attempt, recon>>,
           order' \in {"none", "pending", "paid", "cancelled"}, OrderForward(order, order'),
           order' = "paid" => order = "paid",
           task' \in [Kinds \X Generations -> TaskRows], TasksOK(task', attempt),
           ext' \in External, ExtOK(ext'), Forward(order, ext, order, ext'),
           late' \subseteq Calls \X Generations, LateOK(late', ext'),
           faults' \in 0..MaxFaults, job' \in [Reconcilers \cup Compensators -> Jobs],
           NEW a \in Actors, NEW step \in Plain \cup {pc[a]}, pc' = [pc EXCEPT ![a] = step],
           step = pc[a] \/ (a \in Handlers => pc[a] \notin Early)
    PROVE  CheckoutInv'
  <1>1. StepOK(a, pc[a], order, ext) /\ pc[a] \in Steps
    BY Types
  <1>2. Forward(order, ext, order', ext') /\ (order' = "paid" => ext'.stock = "consumed")
    BY Types DEF Forward, OrderForward
  <1>3. \/ step = pc[a] /\ step \in Steps
        \/ step \in Steps /\ step # "reply_pending" /\ StepOK(a, step, order', ext')
    BY <1>1, <1>2, PlainStep
  <1>4. RepliesOK(pc', attempt', recon')
    BY <1>3, RepliesKept
  <1>5. pc' \in [Actors -> Steps]
    BY <1>3, Types
  <1>6. TypeOK'
    BY <1>5, Types DEF TypeOK
  <1>7. RowsOK(attempt', order', recon')
    BY Types DEF RowsOK, OrderForward
  <1> QED
    BY <1>2, <1>3, <1>4, <1>6, <1>7, Assemble

(* Changing one task to a closed one, or to an open one of the current     *)
(* generation.                                                             *)
LEMMA TaskUpdated ==
    ASSUME CheckoutInv, NEW t, NEW row,
           t \in Kinds \X Generations =>
             row \in TaskRows /\ (row.status \in OpenTask => t[2] = attempt.gen)
    PROVE  /\ [task EXCEPT ![t] = row] \in [Kinds \X Generations -> TaskRows]
           /\ TasksOK([task EXCEPT ![t] = row], attempt)
  <1>1. ASSUME NEW u \in Kinds \X Generations
        PROVE  /\ [task EXCEPT ![t] = row][u] \in TaskRows
               /\ [task EXCEPT ![t] = row][u].status \in OpenTask => u[2] = attempt.gen
    <2>1. task[u] \in TaskRows /\ (task[u].status \in OpenTask => u[2] = attempt.gen)
      BY Types DEF TasksOK, OpenTask
    <2>2. [task EXCEPT ![t] = row][u] = IF u = t THEN row ELSE task[u]
      BY Types
    <2> QED
      BY <2>1, <2>2
  <1>2. [task EXCEPT ![t] = row] \in [Kinds \X Generations -> TaskRows]
    BY <1>1, Types
  <1> QED
    BY <1>1, <1>2 DEF TasksOK, OpenTask

(* A task is enqueued for the current generation.                          *)
LEMMA EnqueuedTasks ==
    ASSUME CheckoutInv, NEW t \in Kinds \X Generations, t[2] = attempt.gen
    PROVE  /\ Enqueued(t) \in [Kinds \X Generations -> TaskRows]
           /\ TasksOK(Enqueued(t), attempt)
  <1>1. [NoTask EXCEPT !.status = "queued"] \in TaskRows
    <2>1. 0 \in 0..MaxCompensate
      BY CheckoutAssumption
    <2> QED
      BY <2>1 DEF NoTask, TaskRows
  <1> QED
    BY <1>1, TaskUpdated, Types DEF Enqueued

(* Resolving closes a task.                                                *)
LEMMA ResolvedTasks ==
    ASSUME CheckoutInv, NEW t \in Kinds \X Generations
    PROVE  /\ Resolved(t) \in [Kinds \X Generations -> TaskRows]
           /\ TasksOK(Resolved(t), attempt)
  <1>1. PICK row : row = [task[t] EXCEPT !.status = "completed"]
    OBVIOUS
  <1>2. row \in TaskRows /\ row.status \notin OpenTask
    BY <1>1, Types DEF TaskRows, OpenTask
  <1>3. Resolved(t) = [task EXCEPT ![t] = row] \/ Resolved(t) = task
    BY <1>1, Types DEF Resolved
  <1> QED
    BY <1>2, <1>3, TaskUpdated, Types

(* Completing closes a task; rescheduling and dead-lettering concern one   *)
(* that was open.                                                          *)
LEMMA EndedTasks ==
    ASSUME CheckoutInv, NEW t, NEW status \in {"completed", "failed", "queued"},
           t \in Kinds \X Generations /\ status \in OpenTask => t[2] = attempt.gen
    PROVE  /\ Ended(t, status) \in [Kinds \X Generations -> TaskRows]
           /\ TasksOK(Ended(t, status), attempt)
  <1>1. PICK row : row = [NoTask EXCEPT !.status = status, !.attempts = task[t].attempts]
    OBVIOUS
  <1>2. row.status = status
    BY <1>1 DEF NoTask
  <1>3. t \in Kinds \X Generations => row \in TaskRows
    <2>1. t \in Kinds \X Generations => task[t].attempts \in 0..MaxCompensate
      BY Types DEF TaskRows
    <2> QED
      BY <1>1, <2>1 DEF NoTask, TaskRows
  <1>4. Ended(t, status) = [task EXCEPT ![t] = row]
    BY <1>1 DEF Ended
  <1>5. t \in Kinds \X Generations =>
          row \in TaskRows /\ (row.status \in OpenTask => t[2] = attempt.gen)
    BY <1>2, <1>3
  <1>6. /\ [task EXCEPT ![t] = row] \in [Kinds \X Generations -> TaskRows]
        /\ TasksOK([task EXCEPT ![t] = row], attempt)
    BY <1>5, TaskUpdated
  <1> QED
    BY <1>4, <1>6

(* Voiding and refunding leave the answer to the capture, and the stock,   *)
(* as they were.                                                           *)
LEMMA CompensatedExternal ==
    ASSUME CheckoutInv
    PROVE  /\ Compensated(ext) \in External /\ ExtOK(Compensated(ext))
           /\ Forward(order, ext, order, Compensated(ext))
           /\ ext \in External /\ ExtOK(ext) /\ Forward(order, ext, order, ext)
  BY Types DEF Compensated, External, ExtOK, Forward

(* Steps of a handler or reconciler that is compensating. *)
LEMMA EnqueueKeeps ==
    ASSUME CheckoutInv, NEW a \in Handlers \cup Reconcilers, NEW from \in Steps \ Early,
           NEW kind \in Kinds, NEW next \in Plain, NEW otherwise \in Plain,
           Enqueue(a, from, kind, next, otherwise)
    PROVE  CheckoutInv'
  <1>1. a \in Actors /\ pc[a] \notin Early
    BY ActorsApart DEF Enqueue
  <1>2. UNCHANGED <<degrade, attempt, order, recon, ext, late, faults, job>>
    BY DEF Enqueue, remote
  <1>3. task' \in [Kinds \X Generations -> TaskRows] /\ TasksOK(task', attempt)
    <2>1. CASE Fence(a)
      <3>1. Key(a, kind) \in Kinds \X Generations /\ Key(a, kind)[2] = attempt.gen
        BY <1>1, <2>1, FenceOpen DEF Key
      <3>2. task' = Enqueued(Key(a, kind)) \/ task' = task
        BY DEF Enqueue
      <3> QED
        BY <3>1, <3>2, EnqueuedTasks, Types
    <2>2. CASE ~Fence(a)
      BY <2>2, Types DEF Enqueue
    <2> QED
      BY <2>1, <2>2
  <1>4. PICK step \in Plain : pc' = [pc EXCEPT ![a] = step]
    BY DEF Enqueue, Go
  <1>5. ext' \in External /\ ExtOK(ext') /\ Forward(order, ext, order, ext') /\ OrderForward(order, order')
    BY <1>2, CompensatedExternal DEF OrderForward
  <1> QED
    BY <1>1, <1>2, <1>3, <1>4, <1>5, Types, TaskStep

(* The steps after a release.                                              *)
LEMMA AfterReleasePlain ==
    ASSUME NEW a, NEW outcome
    PROVE  AfterRelease(a, outcome) \in Plain
  <1>1. AfterRelease(a, outcome) \in {"undo_enqueue", "lost", "undo_only_enqueue"}
    BY DEF AfterRelease
  <1> QED
    BY <1>1 DEF Plain, Steps

(* release_inventory_with_recovery frees what is reserved, never what is   *)
(* consumed.                                                               *)
LEMMA ReleaseKeeps ==
    ASSUME CheckoutInv, NEW a \in Handlers \cup Reconcilers, Release(a)
    PROVE  CheckoutInv'
  <1> DEFINE t == Key(a, "inventory_release")
  <1>1. a \in Actors /\ pc[a] \notin Early
    BY ActorsApart DEF Release, Early
  <1>2. UNCHANGED <<degrade, attempt, order, recon, job>> /\ OrderForward(order, order')
    BY DEF Release, OrderForward
  <1>3. PICK step \in Plain : pc' = [pc EXCEPT ![a] = step]
    BY AfterReleasePlain DEF Release, Go
  <1>4. Fence(a) => t \in Kinds \X Generations /\ Gen(a) \in Generations
    BY <1>1, FenceOpen DEF Key, Kinds
  <1>5. "release" \in Calls
    BY DEF Calls
  <1>6. CASE /\ Fence(a) /\ ext' \in Effects("release", Gen(a))
             /\ task' = Resolved(t) \/ task' = task
             /\ UNCHANGED <<late, faults>>
    <2>1. ext' \in External /\ ExtOK(ext') /\ Forward(order, ext, order, ext')
      BY <1>5, <1>6, EffectsKeep
    <2>2. late' \subseteq Calls \X Generations /\ LateOK(late', ext')
      BY <1>6, <2>1, LateForward
    <2>3. task' \in [Kinds \X Generations -> TaskRows] /\ TasksOK(task', attempt)
      BY <1>4, <1>6, ResolvedTasks, Types
    <2> QED
      BY <1>1, <1>2, <1>3, <1>6, <2>1, <2>2, <2>3, Types, TaskStep
  <1>7. CASE Fence(a) /\ Unanswered("release", Gen(a)) /\ UNCHANGED task
    <2>1. /\ faults' \in 0..MaxFaults /\ ext' \in External /\ ExtOK(ext')
          /\ Forward(order, ext, order, ext') /\ late' \subseteq Calls \X Generations
          /\ LateOK(late', ext')
      BY <1>4, <1>5, <1>7, UnansweredKeeps
    <2> QED
      BY <1>1, <1>2, <1>3, <1>7, <2>1, Types, TaskStep
  <1>8. CASE UNCHANGED <<task, ext, late, faults>>
    BY <1>1, <1>2, <1>3, <1>8, CompensatedExternal, Types, TaskStep
  <1> HIDE DEF t
  <1> QED
    BY <1>6, <1>7, <1>8 DEF Release, remote, t

(* compensate_payment_with_fence.                                          *)
LEMMA UndoKeeps ==
    ASSUME CheckoutInv, NEW a \in Handlers \cup Reconcilers, Undo(a)
    PROVE  CheckoutInv'
  <1> DEFINE t == Key(a, "payment")
  <1>1. a \in Actors /\ pc[a] \notin Early
    BY ActorsApart DEF Undo, Early
  <1>2. UNCHANGED <<degrade, attempt, order, recon, job>> /\ OrderForward(order, order')
    BY DEF Undo, OrderForward
  <1>3. PICK step \in Plain : pc' = [pc EXCEPT ![a] = step]
    <2>1. AfterUndo(a) \in Plain /\ Failed(a) \in Plain /\ Forfeited(a) \in Plain
      BY DEF AfterUndo, Failed, Forfeited, Plain, Steps
    <2> QED
      BY <2>1 DEF Undo, Go
  <1>4. Fence(a) => t \in Kinds \X Generations
    BY <1>1, FenceOpen DEF Key, Kinds
  <1>5. /\ ext' \in {ext, Compensated(ext)}
        /\ UNCHANGED late
        /\ UNCHANGED faults \/ Fault
        /\ task' = task \/ (Fence(a) /\ task' = Resolved(t))
    BY DEF Undo, remote
  <1>6. ext' \in External /\ ExtOK(ext') /\ Forward(order, ext, order, ext')
    BY <1>5, CompensatedExternal
  <1>7. late' \subseteq Calls \X Generations /\ LateOK(late', ext')
    BY <1>5, <1>6, LateForward
  <1>8. task' \in [Kinds \X Generations -> TaskRows] /\ TasksOK(task', attempt)
    BY <1>4, <1>5, ResolvedTasks, Types
  <1>9. faults' \in 0..MaxFaults
    BY <1>5, FaultSpent, Types
  <1> QED
    BY <1>1, <1>2, <1>3, <1>6, <1>7, <1>8, <1>9, Types, TaskStep

(* All compensation steps of a handler or reconciler.                      *)
LEMMA CompensateKeeps ==
    ASSUME CheckoutInv, NEW a \in Handlers \cup Reconcilers, Compensate(a)
    PROVE  CheckoutInv'
  <1>1. /\ {"unreserve_enqueue", "release_enqueue", "undo_enqueue", "undo_only_enqueue", "rec_enqueue"}
             \subseteq Steps \ Early
        /\ {"unreserve", "lost", "release", "undo_only_enqueue", "undo", "undo_only", "rec_undo",
            "reply_failed", Forfeited(a)} \subseteq Plain
        /\ "inventory_release" \in Kinds /\ "payment" \in Kinds
    BY DEF Steps, Early, Plain, Kinds, Forfeited
  <1>2. CASE Enqueue(a, "unreserve_enqueue", "inventory_release", "unreserve", "lost")
    BY <1>1, <1>2, EnqueueKeeps
  <1>3. CASE Enqueue(a, "release_enqueue", "inventory_release", "release", "undo_only_enqueue")
    BY <1>1, <1>3, EnqueueKeeps
  <1>4. CASE Enqueue(a, "undo_enqueue", "payment", "undo", Forfeited(a))
    BY <1>1, <1>4, EnqueueKeeps
  <1>5. CASE Enqueue(a, "undo_only_enqueue", "payment", "undo_only", Forfeited(a))
    BY <1>1, <1>5, EnqueueKeeps
  <1>6. CASE Enqueue(a, "rec_enqueue", "payment", "rec_undo", "reply_failed")
    BY <1>1, <1>6, EnqueueKeeps
  <1> QED
    BY <1>2, <1>3, <1>4, <1>5, <1>6, ReleaseKeeps, UndoKeeps, CloseKeeps DEF Compensate

(* The compensation worker. *)
LEMMA ClaimTaskKeeps ==
    ASSUME CheckoutInv, NEW a \in Compensators, NEW t \in Kinds \X Generations, ClaimTask(a, t)
    PROVE  CheckoutInv'
  <1>1. a \in Actors /\ a \notin Handlers /\ "work" \in Plain
    BY ActorsApart DEF Plain, Steps
  <1>2. /\ UNCHANGED <<degrade, attempt, order, recon, ext, late, faults>> /\ OrderForward(order, order')
        /\ pc' = [pc EXCEPT ![a] = "work"]
    BY DEF ClaimTask, remote, Go, OrderForward
  <1>3. PICK n \in 0..MaxCompensate : n = task[t].attempts + 1
    BY Types, CheckoutAssumption DEF ClaimTask, TaskDue, TaskRows
  <1>4. PICK row : row = [status |-> "processing", attempts |-> n, owner |-> a, live |-> TRUE]
    OBVIOUS
  <1>5. row \in TaskRows
    BY <1>4 DEF TaskRows
  <1>6. t[2] = attempt.gen
    BY DEF ClaimTask, ParentOpen
  <1>7. task' = [task EXCEPT ![t] = row]
    BY <1>3, <1>4 DEF ClaimTask
  <1>8. task' \in [Kinds \X Generations -> TaskRows] /\ TasksOK(task', attempt)
    BY <1>5, <1>6, <1>7, TaskUpdated
  <1>9. [gen |-> t[2], kind |-> t[1]] \in Jobs
    BY ActorsApart DEF Jobs
  <1>10. job' \in [Reconcilers \cup Compensators -> Jobs]
    BY <1>9, Types DEF ClaimTask
  <1> QED
    BY <1>1, <1>2, <1>8, <1>10, CompensatedExternal, Types, TaskStep

(* process_compensation_task.                                              *)
LEMMA WorkKeeps ==
    ASSUME CheckoutInv, NEW a \in Compensators, Work(a)
    PROVE  CheckoutInv'
  <1>1. a \in Actors /\ a \notin Handlers /\ {"worked", "failed"} \subseteq Plain
    BY ActorsApart DEF Plain, Steps
  <1>2. UNCHANGED <<degrade, attempt, order, recon, task, job>> /\ OrderForward(order, order')
    BY DEF Work, rows, OrderForward
  <1>3. PICK step \in {"worked", "failed"} : pc' = [pc EXCEPT ![a] = step]
    BY DEF Work, Go
  <1>4. "release" \in Calls /\ (Fence(a) => Gen(a) \in Generations)
    BY <1>1, FenceOpen DEF Calls
  <1>5. CASE Fence(a) /\ Unanswered("release", Gen(a))
    <2>1. /\ faults' \in 0..MaxFaults /\ ext' \in External /\ ExtOK(ext')
          /\ Forward(order, ext, order, ext') /\ late' \subseteq Calls \X Generations
          /\ LateOK(late', ext')
      BY <1>4, <1>5, UnansweredKeeps
    <2> QED
      BY <1>1, <1>2, <1>3, <2>1, Types, TaskStep
  <1>6. CASE /\ \/ ext' \in {ext, Compensated(ext)}
                \/ ext' \in Effects("release", Gen(a))
             /\ UNCHANGED late
             /\ UNCHANGED faults \/ Fault
    <2>1. ext' \in External /\ ExtOK(ext') /\ Forward(order, ext, order, ext')
      BY <1>4, <1>6, EffectsKeep, CompensatedExternal
    <2>2. late' \subseteq Calls \X Generations /\ LateOK(late', ext')
      BY <1>6, <2>1, LateForward
    <2>3. faults' \in 0..MaxFaults
      BY <1>6, FaultSpent, Types
    <2> QED
      BY <1>1, <1>2, <1>3, <2>1, <2>2, <2>3, Types, TaskStep
  <1> QED
    BY <1>5, <1>6 DEF Work, remote

(* complete_compensation_task.                                             *)
LEMMA CompleteTaskKeeps ==
    ASSUME CheckoutInv, NEW a \in Compensators, CompleteTask(a)
    PROVE  CheckoutInv'
  <1>1. a \in Actors /\ a \notin Handlers /\ "idle" \in Plain
    BY ActorsApart DEF Plain, Steps
  <1>2. UNCHANGED <<degrade, attempt, recon, ext, late, faults>> /\ Rest(a)
    BY DEF CompleteTask, remote
  <1>3. order' = order \/ (order = "pending" /\ order' = "cancelled")
    BY DEF CompleteTask
  <1>4. task' = task \/ task' = Ended(<<job[a].kind, job[a].gen>>, "completed")
    BY DEF CompleteTask
  <1>5. task' \in [Kinds \X Generations -> TaskRows] /\ TasksOK(task', attempt)
    BY <1>4, EndedTasks, Types DEF OpenTask
  <1>6. /\ OrderForward(order, order') /\ order' \in {"none", "pending", "paid", "cancelled"}
        /\ order' = "paid" => order = "paid"
    BY <1>3, Types DEF OrderForward
  <1> QED
    BY <1>1, <1>2, <1>5, <1>6, RestTyped, CompensatedExternal, Types, TaskStep

(* Rescheduling needs the claim, which only a task of the current          *)
(* generation can have.                                                    *)
LEMMA RetryTaskKeeps ==
    ASSUME CheckoutInv, NEW a \in Compensators, RetryTask(a)
    PROVE  CheckoutInv'
  <1> DEFINE t == <<job[a].kind, job[a].gen>>
  <1>1. a \in Actors /\ a \notin Handlers /\ a \notin Reconcilers /\ "idle" \in Plain
    BY ActorsApart DEF Plain, Steps
  <1>2. UNCHANGED <<degrade, attempt, order, recon, ext, late, faults>> /\ Rest(a)
        /\ OrderForward(order, order')
    BY DEF RetryTask, remote, OrderForward
  <1>3. Fence(a) => HoldsTask(a)
    BY <1>1 DEF Fence
  <1>4. task' = task \/ (HoldsTask(a) /\ \E status \in {"failed", "queued"} : task' = Ended(t, status))
    <2>1. CASE task[t].attempts >= MaxCompensate
      BY <1>3, <2>1 DEF RetryTask
    <2>2. CASE ~(task[t].attempts >= MaxCompensate)
      BY <2>2 DEF RetryTask
    <2> QED
      BY <2>1, <2>2
  <1>5. HoldsTask(a) /\ t \in Kinds \X Generations => t[2] = attempt.gen
    BY Types DEF HoldsTask, TasksOK
  <1>6. task' \in [Kinds \X Generations -> TaskRows] /\ TasksOK(task', attempt)
    <2>1. CASE task' = task
      BY <2>1, Types
    <2>2. ASSUME HoldsTask(a), NEW status \in {"failed", "queued"}, task' = Ended(t, status)
          PROVE  task' \in [Kinds \X Generations -> TaskRows] /\ TasksOK(task', attempt)
      BY <1>5, <2>2, EndedTasks
    <2> QED
      BY <1>4, <2>1, <2>2
  <1> QED
    BY <1>1, <1>2, <1>6, RestTyped, CompensatedExternal, Types, TaskStep

(* dead_letter_expired_compensation_task.                                  *)
LEMMA DeadLetterExpiredKeeps ==
    ASSUME CheckoutInv, NEW a \in Compensators, NEW t \in Kinds \X Generations, DeadLetterExpired(a, t)
    PROVE  CheckoutInv'
  <1>1. /\ UNCHANGED <<degrade, attempt, order, recon, ext, late, faults, pc, job>>
        /\ OrderForward(order, order')
    BY DEF DeadLetterExpired, remote, OrderForward
  <1>2. t[2] = attempt.gen /\ task' = Ended(t, "failed")
    BY Types DEF DeadLetterExpired, TasksOK
  <1>3. task' \in [Kinds \X Generations -> TaskRows] /\ TasksOK(task', attempt)
    BY <1>2, EndedTasks
  <1>4. PICK b \in Actors : \E step \in Steps : step = pc[b] /\ pc' = [pc EXCEPT ![b] = step]
    BY <1>1, PcStands
  <1> QED
    BY <1>1, <1>3, <1>4, CompensatedExternal, Types, TaskStep

(* The lease of a task runs out.                                           *)
LEMMA ExpireTaskKeeps ==
    ASSUME CheckoutInv, NEW a \in Compensators, NEW t \in Kinds \X Generations, ExpireTask(a, t)
    PROVE  CheckoutInv'
  <1>1. /\ UNCHANGED <<degrade, attempt, order, recon, ext, late, faults, pc, job>>
        /\ OrderForward(order, order')
    BY DEF ExpireTask, remote, OrderForward
  <1>2. PICK row : row = [task[t] EXCEPT !.live = FALSE]
    OBVIOUS
  <1>3. row \in TaskRows /\ t[2] = attempt.gen
    BY <1>2, Types DEF ExpireTask, TasksOK, TaskRows
  <1>4. task' = [task EXCEPT ![t] = row]
    BY <1>2, Types DEF ExpireTask
  <1>5. task' \in [Kinds \X Generations -> TaskRows] /\ TasksOK(task', attempt)
    BY <1>3, <1>4, TaskUpdated
  <1>6. PICK b \in Actors : \E step \in Steps : step = pc[b] /\ pc' = [pc EXCEPT ![b] = step]
    BY <1>1, PcStands
  <1> QED
    BY <1>1, <1>5, <1>6, CompensatedExternal, Types, TaskStep

(* The steps handlers and reconcilers share.                               *)
LEMMA SagaStepKeeps ==
    ASSUME CheckoutInv, NEW a \in Handlers \cup Reconcilers, SagaStep(a)
    PROVE  CheckoutInv'
  BY ReserveKeeps, CaptureKeeps, ConsumeKeeps, FinalizeKeeps, CompensateKeeps DEF SagaStep

(* The handler of one generation.                                          *)
LEMMA HandlerStepKeeps ==
    ASSUME CheckoutInv, NEW g \in Generations, HandlerStep(g)
    PROVE  CheckoutInv'
  BY CreateOrderKeeps, AuthorizeKeeps, RecoverKeeps, CancelKeeps, RegisterKeeps, QueueRecoveryKeeps,
     ReplyKeeps, WakeKeeps DEF HandlerStep

(* A reconciliation worker.                                                *)
LEMMA ReconcilerStepKeeps ==
    ASSUME CheckoutInv, NEW a \in Reconcilers, ReconcilerStep(a)
    PROVE  CheckoutInv'
  BY ReclaimExhaustedKeeps, ClaimReconciliationKeeps, LookKeeps, SagaStepKeeps, DropKeeps,
     RetryReconciliationKeeps, CompleteReconciliationKeeps, FailReconciliationKeeps DEF ReconcilerStep

(* A compensation worker.                                                  *)
LEMMA CompensatorStepKeeps ==
    ASSUME CheckoutInv, NEW a \in Compensators, CompensatorStep(a)
    PROVE  CheckoutInv'
  BY DeadLetterExpiredKeeps, ClaimTaskKeeps, WorkKeeps, CompleteTaskKeeps, RetryTaskKeeps
     DEF CompensatorStep

(* Nothing happens.                                                        *)
LEMMA StutterKeeps ==
    ASSUME CheckoutInv, UNCHANGED vars
    PROVE  CheckoutInv'
  BY DEF CheckoutInv, TypeOK, vars

(* Every step of the system keeps the invariant.                           *)
LEMMA NextInv == CheckoutInv /\ [Next]_vars => CheckoutInv'
  <1> SUFFICES ASSUME CheckoutInv, [Next]_vars PROVE CheckoutInv'
    OBVIOUS
  <1>1. CASE Client
    BY <1>1, ClaimNewKeeps, ReclaimPaidKeeps, ReclaimKeeps, ReplayPendingKeeps DEF Client
  <1>2. ASSUME NEW g \in Generations, HandlerStep(g) PROVE CheckoutInv'
    BY <1>2, HandlerStepKeeps
  <1>3. ASSUME NEW h \in Handlers, SagaStep(h) PROVE CheckoutInv'
    BY <1>3, SagaStepKeeps
  <1>4. ASSUME NEW a \in Reconcilers, ReconcilerStep(a) PROVE CheckoutInv'
    BY <1>4, ReconcilerStepKeeps
  <1>5. ASSUME NEW a \in Compensators, CompensatorStep(a) PROVE CheckoutInv'
    BY <1>5, CompensatorStepKeeps
  <1>6. CASE Environment
    BY <1>6, ProviderDecidesKeeps, ReapKeeps, DeliverLateKeeps, CrashKeeps DEF Environment
  <1>7. CASE Expiry
    BY <1>7, ExpireAttemptKeeps, ExpireReconciliationKeeps, ExpireTaskKeeps DEF Expiry
  <1>8. CASE UNCHANGED vars
    BY <1>8, StutterKeeps
  <1> QED
    BY <1>1, <1>2, <1>3, <1>4, <1>5, <1>6, <1>7, <1>8 DEF Next

(* The inductive invariant holds in every reachable state of the saga.     *)
THEOREM SagaInvariant == Spec => []CheckoutInv
  BY InitInv, NextInv, PTL DEF Spec

(* Every row, call, step and claim of the saga stays within its type:      *)
(* generations, attempts and failures keep their bounds.                   *)
THEOREM TypeCorrect == Spec => []TypeOK
  BY SagaInvariant, PTL DEF CheckoutInv

(* However handlers, workers, crashes, expired leases, lost answers and    *)
(* late calls interleave, finalize_order marks an order paid only with its *)
(* payment captured and its stock consumed.                                *)
THEOREM PaidOrdersAreBacked == Spec => []PaidOrderIsBacked
  <1>1. CheckoutInv => PaidOrderIsBacked
    BY DEF CheckoutInv, ExtOK, PaidOrderIsBacked
  <1> QED
    BY <1>1, SagaInvariant, PTL

(* consume_inventory never precedes the capture, late calls included.      *)
THEOREM StockFollowsMoney == Spec => []ConsumedAfterCapture
  <1>1. CheckoutInv => ConsumedAfterCapture
    BY DEF CheckoutInv, ExtOK, ConsumedAfterCapture
  <1> QED
    BY <1>1, SagaInvariant, PTL

(* The answer the attempt row stores, and every later replay returns, is   *)
(* never at odds with the order: paid means paid, degraded means           *)
(* cancelled, and a pending answer has an open reconciliation job of its   *)
(* own generation.                                                         *)
THEOREM AnswersMatchOrders == Spec => []AnswerMatchesOrder
  <1>1. CheckoutInv => AnswerMatchesOrder
    BY DEF CheckoutInv, RowsOK, OpenJob, AnswerMatchesOrder
  <1> QED
    BY <1>1, SagaInvariant, PTL

(* After a reclaim, no compensation task and no open reconciliation job of *)
(* an older generation is left for a worker to claim.                      *)
THEOREM OldGenerationsAreRetired == Spec => []OldGenerationsRetired
  <1>1. CheckoutInv => OldGenerationsRetired
    <2> SUFFICES ASSUME CheckoutInv PROVE OldGenerationsRetired
      OBVIOUS
    <2>1. \A t \in Kinds \X Generations : task[t] \in TaskRows
      BY Types
    <2>2. \A t \in OpenTasks : t[2] = attempt.gen
      BY <2>1, Types DEF OpenTasks, TasksOK, TaskRows
    <2> QED
      BY <2>2, Types DEF OldGenerationsRetired, RowsOK, OpenJob
  <1> QED
    BY <1>1, SagaInvariant, PTL

(* One step as StoredAnswersStand wants it.                                *)
AnswerStands ==
    /\ attempt.status \in {"paid", "degraded"} => attempt' = attempt
    /\ attempt.status \in {"failed", "pending"} =>
         /\ attempt'.gen = attempt.gen
         /\ attempt'.status \in {attempt.status, "failed", "paid"}
    /\ attempt'.gen >= attempt.gen

(* A step that leaves the attempt alone.                                   *)
LEMMA SameAttempt ==
    ASSUME CheckoutInv, UNCHANGED attempt
    PROVE  AnswerStands
  <1>1. attempt.gen \in Nat
    BY Types, CheckoutAssumption DEF AttemptRows
  <1> QED
    BY <1>1 DEF AnswerStands

(* A step that answers an attempt that is still open.                      *)
LEMMA SameGeneration ==
    ASSUME CheckoutInv, attempt'.gen = attempt.gen,
           attempt.status \in {"started", "pending", "failed"},
           attempt.status # "started" => attempt'.status \in {"failed", "paid"}
    PROVE  AnswerStands
  <1>1. attempt.gen \in Nat
    BY Types, CheckoutAssumption DEF AttemptRows
  <1> QED
    BY <1>1 DEF AnswerStands

(* Claiming never touches an answered attempt.                             *)
LEMMA ClientStands ==
    ASSUME CheckoutInv, Client
    PROVE  AnswerStands
  <1>1. attempt.gen \in Nat /\ (attempt.status = "none" => attempt.gen = 0)
    BY Types, CheckoutAssumption DEF AttemptRows, RowsOK
  <1>2. CASE ClaimNew
    BY <1>1, <1>2 DEF ClaimNew, AnswerStands
  <1>3. CASE ReclaimPaid
    <2>1. attempt'.gen = attempt.gen /\ attempt.status = "started"
      BY <1>3, Types DEF ReclaimPaid, Stale, AttemptRows
    <2> QED
      BY <2>1, SameGeneration
  <1>4. CASE Reclaim
    <2>1. attempt'.gen = attempt.gen + 1 /\ attempt.status = "started"
      BY <1>4 DEF Reclaim, Stale
    <2> QED
      BY <1>1, <2>1 DEF AnswerStands
  <1>5. CASE ReplayPending
    BY <1>5, SameAttempt DEF ReplayPending
  <1> QED
    BY <1>2, <1>3, <1>4, <1>5 DEF Client

(* An answer is recorded only over a started attempt.                      *)
LEMMA RecordedStands ==
    ASSUME CheckoutInv, NEW h \in Handlers, NEW status, attempt' = Recorded(h, status)
    PROVE  AnswerStands
  <1>1. CASE Fence(h)
    <2>1. attempt.status = "started"
      BY <1>1 DEF Fence, Owned, Started
    <2>2. attempt'.gen = attempt.gen
      BY <1>1, Types DEF Recorded, AttemptRows
    <2> QED
      BY <2>1, <2>2, SameGeneration
  <1>2. CASE ~Fence(h)
    BY <1>2, SameAttempt DEF Recorded
  <1> QED
    BY <1>1, <1>2

(* The shared steps do not answer.                                         *)
LEMMA SagaStands ==
    ASSUME CheckoutInv, NEW a \in Handlers \cup Reconcilers, SagaStep(a)
    PROVE  AnswerStands
  <1>1. CASE Reserve(a) \/ Capture(a) \/ Consume(a)
    BY <1>1, SameAttempt DEF Reserve, Capture, Consume, Call, rows
  <1>2. CASE Finalize(a)
    BY <1>2, SameAttempt DEF Finalize
  <1>3. CASE Compensate(a)
    BY <1>3, SameAttempt DEF Compensate, Enqueue, Release, Undo, Close
  <1> QED
    BY <1>1, <1>2, <1>3 DEF SagaStep

(* The handler.                                                            *)
LEMMA HandlerStands ==
    ASSUME CheckoutInv, NEW g \in Generations, HandlerStep(g)
    PROVE  AnswerStands
  <1>1. CASE Reply(g)
    <2>1. PICK status : attempt' = Recorded(Handler(g), status)
      BY <1>1 DEF Reply
    <2> QED
      BY <2>1, RecordedStands, ActorsApart
  <1>2. CASE CreateOrder(g) \/ Cancel(g) \/ Register(g) \/ QueueRecovery(g) \/ Wake(g)
    BY <1>2, SameAttempt DEF CreateOrder, Cancel, Register, QueueRecovery, Wake
  <1>3. CASE Authorize(g) \/ Recover(g)
    BY <1>3, SameAttempt DEF Authorize, Recover, rows
  <1> QED
    BY <1>1, <1>2, <1>3 DEF HandlerStep

(* The reconciler answers only an attempt its fence found open.            *)
LEMMA ReconcilerStands ==
    ASSUME CheckoutInv, NEW a \in Reconcilers, ReconcilerStep(a)
    PROVE  AnswerStands
  <1>1. CASE CompleteReconciliation(a)
    <2>1. attempt'.gen = attempt.gen /\ attempt'.status = "paid" /\ Fence(a)
      BY <1>1, Types DEF CompleteReconciliation, AttemptRows
    <2> QED
      BY <2>1, ReconcilerFence, SameGeneration
  <1>2. CASE FailReconciliation(a)
    <2>1. attempt'.gen = attempt.gen /\ attempt'.status = "failed" /\ Fence(a)
      BY <1>2, Types DEF FailReconciliation, FailedAttempt, AttemptRows
    <2> QED
      BY <2>1, ReconcilerFence, SameGeneration
  <1>3. CASE ReclaimExhausted(a) \/ ClaimReconciliation(a) \/ RetryReconciliation(a)
    BY <1>3, SameAttempt DEF ReclaimExhausted, ClaimReconciliation, RetryReconciliation
  <1>4. CASE Look(a) \/ Drop(a)
    BY <1>4, SameAttempt DEF Look, Drop, rows
  <1> QED
    BY <1>1, <1>2, <1>3, <1>4, SagaStands DEF ReconcilerStep

(* Compensators, services and clocks do not answer.                        *)
LEMMA OthersStand ==
    ASSUME CheckoutInv,
           Environment \/ Expiry \/ UNCHANGED vars \/ \E a \in Compensators : CompensatorStep(a)
    PROVE  AnswerStands
  <1>1. CASE ExpireAttempt
    <2>1. attempt'.gen = attempt.gen /\ attempt.status = "started"
      BY <1>1, Types DEF ExpireAttempt, AttemptRows
    <2> QED
      BY <2>1, SameGeneration
  <1>2. CASE Environment
    BY <1>2, SameAttempt DEF Environment, ProviderDecides, Reap, DeliverLate, Crash, rows
  <1>3. CASE Expiry /\ ~ExpireAttempt
    BY <1>3, SameAttempt DEF Expiry, ExpireReconciliation, ExpireTask
  <1>4. CASE UNCHANGED vars
    BY <1>4, SameAttempt DEF vars
  <1>5. ASSUME NEW a \in Compensators, CompensatorStep(a) PROVE AnswerStands
    BY <1>5, SameAttempt DEF CompensatorStep, DeadLetterExpired, ClaimTask, Work,
       CompleteTask, RetryTask, rows
  <1> QED
    BY <1>1, <1>2, <1>3, <1>4, <1>5

(* A paid or degraded answer is never overwritten, a failed or pending one *)
(* only by the recovery of its own generation, and the generation never    *)
(* goes back.                                                              *)
THEOREM StoredAnswersDoStand == Spec => StoredAnswersStand
  <1>1. CheckoutInv /\ [Next]_vars => [AnswerStands]_vars
    <2> SUFFICES ASSUME CheckoutInv, [Next]_vars PROVE AnswerStands
      OBVIOUS
    <2> QED
      BY ClientStands, HandlerStands, SagaStands, ReconcilerStands, OthersStand DEF Next
  <1> QED
    BY <1>1, SagaInvariant, PTL DEF Spec, StoredAnswersStand, AnswerStands

(* The answer to authorize and the payment agree on whether there is one,  *)
(* and on whether the provider has decided it.                             *)
AnswerAndPayment(e) ==
    /\ e.authorized = "none" <=> e.payment = "none"
    /\ e.authorized = "pending" <=> e.payment = "pending"

(* What no call takes back.                                                *)
Outcomes(e, ee) ==
    /\ e.payment \in {"failed", "voided", "refunded"} => ee.payment = e.payment
    /\ e.authorized \in {"succeeded", "declined"} => ee.authorized = e.authorized
    /\ e.captured # "none" => ee.captured = e.captured
    /\ e.stock = "consumed" => ee.stock = "consumed"

(* What may happen to the payment and the stock in one step.               *)
RemoteEffect ==
    \/ ext' = ext
    \/ \E call \in Calls : \E g : ext' \in Effects(call, g)
    \/ ext' = Compensated(ext)
    \/ ProviderDecides
    \/ Reap

(* Every step is one of these, for the remote services.                    *)
LEMMA RemoteSteps ==
    ASSUME [Next]_vars
    PROVE  RemoteEffect
  <1>1. \A a \in Actors, call \in Calls : \A x, y, z : Call(a, call, x, y, z) => RemoteEffect
    BY DEF Call, Unanswered, RemoteEffect
  <1>2. ASSUME NEW a \in Actors, SagaStep(a) PROVE RemoteEffect
    <2>1. CASE Reserve(a) \/ Capture(a) \/ Consume(a)
      BY <1>1, <2>1 DEF Reserve, Capture, Consume, Calls
    <2>2. CASE Finalize(a) \/ Close(a)
      BY <2>2 DEF Finalize, Close, remote, RemoteEffect
    <2>3. ASSUME NEW from, NEW kind, NEW to, NEW other, Enqueue(a, from, kind, to, other)
          PROVE  RemoteEffect
      BY <2>3 DEF Enqueue, remote, RemoteEffect
    <2>4. CASE Release(a)
      BY <2>4 DEF Release, Unanswered, remote, RemoteEffect, Calls
    <2>5. CASE Undo(a)
      BY <2>5 DEF Undo, remote, RemoteEffect
    <2> QED
      BY <1>2, <2>1, <2>2, <2>3, <2>4, <2>5 DEF SagaStep, Compensate
  <1>3. ASSUME NEW g \in Generations, HandlerStep(g) PROVE RemoteEffect
    <2>1. CASE Authorize(g)
      BY <2>1 DEF Authorize, Unanswered, RemoteEffect, Calls
    <2>2. CASE Recover(g)
      BY <2>2 DEF Recover, Unanswered, RemoteEffect, Calls
    <2>3. CASE CreateOrder(g) \/ Cancel(g) \/ Register(g) \/ QueueRecovery(g) \/ Reply(g) \/ Wake(g)
      BY <2>3 DEF CreateOrder, Cancel, Register, QueueRecovery, Reply, Wake, remote, RemoteEffect
    <2> QED
      BY <1>3, <2>1, <2>2, <2>3 DEF HandlerStep
  <1>4. ASSUME NEW a \in Reconcilers, ReconcilerStep(a) PROVE RemoteEffect
    <2>1. a \in Actors
      BY ActorsApart
    <2> QED
      BY <1>2, <1>4, <2>1 DEF ReconcilerStep, ReclaimExhausted, ClaimReconciliation, Look, Drop,
         RetryReconciliation, CompleteReconciliation, FailReconciliation, remote, RemoteEffect
  <1>5. ASSUME NEW a \in Compensators, CompensatorStep(a) PROVE RemoteEffect
    <2>1. CASE Work(a)
      BY <2>1 DEF Work, Unanswered, remote, RemoteEffect, Calls
    <2> QED
      BY <1>5, <2>1 DEF CompensatorStep, DeadLetterExpired, ClaimTask, CompleteTask, RetryTask,
         remote, RemoteEffect
  <1>6. CASE Environment
    BY <1>6 DEF Environment, DeliverLate, Crash, RemoteEffect
  <1>7. CASE Client \/ Expiry
    BY <1>7 DEF Client, ClaimNew, ReclaimPaid, Reclaim, ReplayPending, Expiry, ExpireAttempt,
       ExpireReconciliation, ExpireTask, remote, RemoteEffect
  <1>8. CASE UNCHANGED vars
    BY <1>8 DEF vars, RemoteEffect
  <1> QED
    BY <1>2, <1>3, <1>4, <1>5, <1>6, <1>7, <1>8, ActorsApart DEF Next

(* A call that is executed, whenever and for whomever.                     *)
LEMMA EffectsStand ==
    ASSUME ext \in External, AnswerAndPayment(ext), NEW call \in Calls, NEW g,
           NEW e \in Effects(call, g)
    PROVE  AnswerAndPayment(e) /\ Outcomes(ext, e)
  <1>1. CASE call = "authorize"
    <2>1. CASE e = ext
      BY <2>1 DEF Outcomes
    <2>2. CASE e # ext
      <3>1. e \in AuthorizeOutcomes /\ ext.authorized = "none" /\ ext.payment = "none"
        BY <1>1, <2>2 DEF Effects, AnswerAndPayment
      <3> QED
        BY <3>1 DEF AuthorizeOutcomes, External, AnswerAndPayment, Outcomes
    <2> QED
      BY <2>1, <2>2
  <1>2. CASE call = "capture"
    BY <1>2 DEF Effects, Captured, External, AnswerAndPayment, Outcomes
  <1>3. CASE call = "reserve"
    BY <1>3 DEF Effects, Taken, External, AnswerAndPayment, Outcomes
  <1>4. CASE call = "consume"
    BY <1>4 DEF Effects, Taken, External, AnswerAndPayment, Outcomes
  <1>5. CASE call = "release"
    BY <1>5 DEF Effects, External, AnswerAndPayment, Outcomes
  <1> QED
    BY <1>1, <1>2, <1>3, <1>4, <1>5 DEF Calls

(* So does every step.                                                     *)
LEMMA RemoteStepStands ==
    ASSUME ext \in External, AnswerAndPayment(ext), RemoteEffect
    PROVE  AnswerAndPayment(ext') /\ Outcomes(ext, ext')
  <1>1. CASE ext' = ext
    BY <1>1 DEF Outcomes
  <1>2. CASE \E call \in Calls : \E g : ext' \in Effects(call, g)
    BY <1>2, EffectsStand
  <1>3. CASE ext' = Compensated(ext)
    BY <1>3 DEF Compensated, External, AnswerAndPayment, Outcomes
  <1>4. CASE ProviderDecides
    BY <1>4 DEF ProviderDecides, External, AnswerAndPayment, Outcomes
  <1>5. CASE Reap
    BY <1>5 DEF Reap, External, AnswerAndPayment, Outcomes
  <1> QED
    BY <1>1, <1>2, <1>3, <1>4, <1>5 DEF RemoteEffect

(* The saga never undoes what the services have settled for the order, in  *)
(* any interleaving of generations, workers, late calls and compensations: *)
(* a failed, voided or refunded payment is not revived, the answer to a    *)
(* capture or to a decided authorization stands, consumed stock stays      *)
(* consumed (authorize_payment, capture, consume, compensate_payment).     *)
THEOREM RemoteOutcomesDoStand == Spec => RemoteOutcomesStand
  <1>1. Init => AnswerAndPayment(ext)
    BY DEF Init, AnswerAndPayment
  <1>2. TypeOK /\ AnswerAndPayment(ext) /\ [Next]_vars => AnswerAndPayment(ext')
    BY RemoteSteps, RemoteStepStands DEF TypeOK
  <1>3. TypeOK /\ AnswerAndPayment(ext) /\ [Next]_vars => Outcomes(ext, ext')
    BY RemoteSteps, RemoteStepStands DEF TypeOK
  <1>4. Outcomes(ext, ext') =>
          [/\ ext.payment \in {"failed", "voided", "refunded"} => ext'.payment = ext.payment
           /\ ext.authorized \in {"succeeded", "declined"} => ext'.authorized = ext.authorized
           /\ ext.captured # "none" => ext'.captured = ext.captured
           /\ ext.stock = "consumed" => ext'.stock = "consumed"]_vars
    BY DEF Outcomes
  <1>5. AnswerAndPayment(ext)' <=> AnswerAndPayment(ext')
    BY DEF AnswerAndPayment
  <1> QED
    BY <1>1, <1>2, <1>3, <1>4, <1>5, TypeCorrect, PTL DEF Spec, RemoteOutcomesStand
=============================================================================
