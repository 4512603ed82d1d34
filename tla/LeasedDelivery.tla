--------------------------- MODULE LeasedDelivery ---------------------------
(***************************************************************************)
(* What a table of deliveries promises, whoever works on it: the outbox of *)
(* checkout and the delivery queue of notifications are two of them.  A    *)
(* delivery is accepted once, taken by one worker at a time, and ends      *)
(* delivered or given up; a lease that is in force is not taken over, no   *)
(* more copies leave than it was taken, and it is called delivered only    *)
(* when a copy has left.  Workers, tokens, clocks, logs and crashes are    *)
(* not part of the promise.                                                *)
(***************************************************************************)
EXTENDS Naturals

CONSTANTS
    Items,
    Budget    \* how often an item may be taken before it is given up

VARIABLES
    item,     \* per item: its state, its lease, the takes of this budget and of all
    copies    \* per item: how many copies have left

promiseVars == <<item, copies>>

Init ==
    /\ item = [i \in Items |-> [state |-> "none", live |-> FALSE, tries |-> 0, round |-> 0]]
    /\ copies = [i \in Items |-> 0]

-----------------------------------------------------------------------------
(* What one item may become, as a relation between it before and after.    *)
Accepted(x, y) == x.state = "none" /\ y = [x EXCEPT !.state = "open"]

Taken(x, y) ==
    /\ x.state \in {"open", "held"}
    /\ ~x.live
    /\ x.tries < Budget
    /\ y = [x EXCEPT !.state = "held", !.live = TRUE, !.tries = x.tries + 1]

Lapsed(x, y) == x.live /\ y = [x EXCEPT !.live = FALSE]

PutBack(x, y) == x.state = "held" /\ y = [x EXCEPT !.state = "open", !.live = FALSE]

(* By its holder; or by anyone once its budget is used up.                 *)
GivenUp(x, y) ==
    /\ x.state = "held" \/ (x.state = "open" /\ x.tries >= Budget)
    /\ y = [x EXCEPT !.state = "dead", !.live = FALSE]

Finished(i, x, y) ==
    /\ x.state = "held"
    /\ copies[i] > 0
    /\ y = [x EXCEPT !.state = "done", !.live = FALSE]

(* By the operator, with a new budget.                                     *)
Reopened(x, y) ==
    /\ x.state = "dead"
    /\ y = [state |-> "open", live |-> FALSE, tries |-> 0, round |-> x.round + 1]

Moved(i, x, y) ==
    \/ Accepted(x, y) \/ Taken(x, y) \/ Lapsed(x, y) \/ PutBack(x, y) \/ GivenUp(x, y)
    \/ Finished(i, x, y) \/ Reopened(x, y)

(* A sweep moves several items in one step.                                *)
Move ==
    /\ \A i \in Items : item'[i] = item[i] \/ Moved(i, item[i], item'[i])
    /\ UNCHANGED copies

Leave(i) ==
    /\ copies[i] < item[i].round * Budget + item[i].tries
    /\ copies' = [copies EXCEPT ![i] = copies[i] + 1]
    /\ UNCHANGED item

Next == Move \/ \E i \in Items : Leave(i)

Spec == Init /\ [][Next]_promiseVars
=============================================================================
