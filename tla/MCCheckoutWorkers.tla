-------------------------- MODULE MCCheckoutWorkers -------------------------
(***************************************************************************)
(* The workers of the checkout service, one kind at a time: a behaviour    *)
(* keeps either the reconciliation loops or the compensation loops awake,  *)
(* so that each may die and retry within the bounds.                       *)
(***************************************************************************)
EXTENDS Checkout

VARIABLE awake

workersVars == <<awake, vars>>

WorkersInit == Init /\ awake \in {Reconcilers, Compensators}

WorkersNext ==
    /\ \/ Client
       \/ \E g \in Generations : HandlerStep(g)
       \/ \E h \in Handlers : SagaStep(h)
       \/ \E a \in Reconcilers \cap awake : ReconcilerStep(a)
       \/ \E a \in Compensators \cap awake : CompensatorStep(a)
       \/ Environment
       \/ Expiry
    /\ UNCHANGED awake

(* The loops that are awake keep running, and the lease of a worker that   *)
(* died runs out.                                                          *)
WorkersFairness ==
    /\ \A a \in Reconcilers : WF_workersVars(a \in awake /\ ReconcilerStep(a) /\ UNCHANGED awake)
    /\ WF_workersVars(ExpireReconciliation /\ UNCHANGED awake)
    /\ \A a \in Compensators : WF_workersVars(a \in awake /\ CompensatorStep(a) /\ UNCHANGED awake)
    /\ \A a \in Compensators, t \in Kinds \X Generations :
           WF_workersVars(ExpireTask(a, t) /\ UNCHANGED awake)

WorkersSpec == WorkersInit /\ [][WorkersNext]_workersVars /\ WorkersFairness

(* Reconciliation jobs end or use up their attempts although the worker    *)
(* dies, while its loop is started again (ReconciliationsDrain).           *)
ReconcilerDrains == awake = Reconcilers => ReconciliationsDrain

(* The compensation tasks of a failed attempt end although the worker      *)
(* dies, while its loop is started again (CompensationsDrain).             *)
CompensatorDrains == awake = Compensators => CompensationsDrain
=============================================================================
