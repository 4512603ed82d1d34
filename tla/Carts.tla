------------------------------- MODULE Carts --------------------------------
(***************************************************************************)
(* The carts of one tenant and one currency: the cart endpoints of         *)
(* checkout, the cart an order is created from, and the finalization that  *)
(* closes it.  Every request is one transaction; it locks the row of its   *)
(* cart and keeps the lock to the end.  The schema allows one cart, of     *)
(* whatever status, for a session.                                         *)
(***************************************************************************)
EXTENDS Naturals, FiniteSets

CONSTANTS
    Customers, Sessions,
    CartIds,        \* ids clients may name, and ids the service makes up
    NamedCarts,     \* the former
    NewSessions,    \* sessions the service makes up
    CartCalls,      \* requests
    ItemLimit       \* MAX_QUANTITY

ASSUME CartsAssumption ==
    /\ NamedCarts \subseteq CartIds
    /\ Sessions \cap NewSessions = {}
    /\ "free" \notin CartCalls /\ ItemLimit \in Nat

NoCart == [status |-> "none"]
Unnamed == "unnamed"
NoLock == "free"

VARIABLES
    cart,      \* the row of each cart; its items are one quantity
    rowLock,   \* the request that has locked the row
    call,      \* the requests
    placed     \* orders: created by a checkout request, and then paid

cartVars == <<cart, rowLock, call, placed>>

CartsInit ==
    /\ cart = [c \in CartIds |-> NoCart]
    /\ rowLock = [c \in CartIds |-> NoLock]
    /\ call = [r \in CartCalls |-> [pc |-> "new"]]
    /\ placed = [r \in CartCalls |-> [status |-> "none"]]

-----------------------------------------------------------------------------
Exists(c) == cart[c].status # "none"
SessionTaken(s) == \E c \in CartIds : Exists(c) /\ cart[c].session = s

\* Mutant: the row is not asked for its status.
ScopeAnyStatus(c, customer, session) ==
    Exists(c) /\ cart[c].customer = customer /\ session \in {Unnamed, cart[c].session}

(* The cart is active and the customer's, and of the session if there is   *)
(* one.                                                                    *)
ActiveInScope(c, customer, session) ==
    /\ Exists(c)
    /\ cart[c].status = "active"
    /\ cart[c].customer = customer
    /\ session \in {Unnamed, cart[c].session}

(* The most recently updated cart: any of them here.                       *)
get_cart(customer, session) == {c \in CartIds : ActiveInScope(c, customer, session)}

list_orders(customer, session) ==
    {r \in CartCalls :
        /\ placed[r].status # "none"
        /\ placed[r].customer = customer
        /\ session \in {Unnamed, cart[placed[r].cart].session}}

RowFree(c) == rowLock[c] = NoLock
AdvisoryFree(customer) ==
    \A r \in CartCalls : call[r].pc = "locked" => ~(call[r].advisory /\ call[r].customer = customer)

Locked(r, kind, customer, session, c, advisory) ==
    /\ call' = [call EXCEPT ![r] = [pc |-> "locked", kind |-> kind, customer |-> customer,
                                     session |-> session, cart |-> c, advisory |-> advisory]]
    /\ rowLock' = [rowLock EXCEPT ![c] = r]
    /\ UNCHANGED <<cart, placed>>

Ends(r) ==
    /\ call' = [call EXCEPT ![r] = [pc |-> "done"]]
    /\ rowLock' = [c \in CartIds |-> IF rowLock[c] = r THEN NoLock ELSE rowLock[c]]

(* A refused transaction rolls back.                                       *)
Refused(r) == Ends(r) /\ UNCHANGED <<cart, placed>>

-----------------------------------------------------------------------------
(* add_cart_item.  A request without a cart id takes a lock for the        *)
(* customer and looks for a cart of the session, then for any active one,  *)
(* then makes an id up.  A request without a session is given one first.   *)
KnownIds == NamedCarts \cup {c \in CartIds : Exists(c)}
NewId(c) == c \notin NamedCarts /\ ~Exists(c) /\ RowFree(c)

CartForAdd(customer, session) ==
    LET own == get_cart(customer, session)
        any == get_cart(customer, Unnamed)
    IN  IF own # {} THEN own
        ELSE IF any # {} THEN any
        ELSE {c \in CartIds : NewId(c)}

AddFind(r, customer, session) ==
    /\ call[r].pc = "new"
    /\ \/ \E c \in KnownIds : RowFree(c) /\ Locked(r, "add", customer, session, c, FALSE)
       \/ /\ AdvisoryFree(customer)
          /\ \E c \in CartForAdd(customer, session) :
                RowFree(c) /\ Locked(r, "add", customer, session, c, TRUE)

(* The cart is inserted unless its id or its session is there already; a   *)
(* session that is taken gives way to a new one, unless the client named   *)
(* the cart.                                                               *)
InsertedAs(c, customer, session) ==
    IF Exists(c) THEN cart[c]
    ELSE IF SessionTaken(session) THEN NoCart
    ELSE [status |-> "active", customer |-> customer, session |-> session, quantity |-> 0]

AddItem(r) ==
    /\ call[r].pc = "locked"
    /\ call[r].kind = "add"
    /\ LET c == call[r].cart
           renewed == {s \in NewSessions : ~SessionTaken(s)}
       IN  \E s \in IF call[r].advisory /\ ~Exists(c) /\ SessionTaken(call[r].session)
                    THEN renewed ELSE {call[r].session} :
             LET row == InsertedAs(c, call[r].customer, s)
             IN  \E n \in 1..ItemLimit :
                   IF /\ row.status # "none"
                      /\ Exists(c) => ActiveInScope(c, call[r].customer, s)
                      /\ row.quantity + n <= ItemLimit
                   THEN /\ cart' = [cart EXCEPT ![c] = [row EXCEPT !.quantity = @ + n]]
                        /\ Ends(r)
                        /\ UNCHANGED placed
                   ELSE Refused(r)

(* replace_cart_item and remove_cart_item find their cart by id, customer  *)
(* and, if the baggage has one, session.                                   *)
EditFind(r, kind, customer, session) ==
    /\ call[r].pc = "new"
    /\ \E c \in CartIds :
          /\ RowFree(c)
          /\ IF ActiveInScope(c, customer, session)
             THEN Locked(r, kind, customer, session, c, FALSE)
             ELSE Refused(r)

EditItem(r) ==
    /\ call[r].pc = "locked"
    /\ call[r].kind \in {"replace", "remove"}
    /\ LET c == call[r].cart
       IN  IF cart[c].quantity = 0
           THEN Refused(r)
           ELSE /\ \E n \in IF call[r].kind = "remove" THEN {0} ELSE 1..ItemLimit :
                      cart' = [cart EXCEPT ![c].quantity = n]
                /\ Ends(r)
                /\ UNCHANGED placed

-----------------------------------------------------------------------------
(* create_pending_order: the cart is inserted unless it is there, locked,  *)
(* compared with the request, and given the items of the request.          *)
CheckoutFind(r, customer, session) ==
    /\ call[r].pc = "new"
    /\ \E c \in KnownIds \cup {d \in CartIds : NewId(d)} :
          RowFree(c) /\ Locked(r, "checkout", customer, session, c, FALSE)

PlaceFromCart(r) ==
    /\ call[r].pc = "locked"
    /\ call[r].kind = "checkout"
    /\ LET c == call[r].cart
           row == InsertedAs(c, call[r].customer, call[r].session)
       IN  IF row.status # "none" /\ (Exists(c) => ActiveInScope(c, call[r].customer, call[r].session))
           THEN /\ \E n \in 1..ItemLimit : cart' = [cart EXCEPT ![c] = [row EXCEPT !.quantity = n]]
                /\ placed' = [placed EXCEPT ![r] = [status |-> "pending", cart |-> c,
                                                     customer |-> call[r].customer,
                                                     session |-> call[r].session]]
                /\ Ends(r)
           ELSE Refused(r)

(* A product that is gone, or the database.                                *)
TransactionFails(r) == call[r].pc = "locked" /\ Refused(r)

\* Mutant: the number of carts changed is not looked at.
ClosesAlways(c) == TRUE

ClosesCart(c) == cart[c].status = "active"

(* finalize_order: if the cart is not active any more the transaction      *)
(* rolls back and the order, charged by then, stays pending.               *)
FinalizeCart(r) ==
    /\ placed[r].status = "pending"
    /\ RowFree(placed[r].cart)
    /\ ClosesCart(placed[r].cart)
    /\ placed' = [placed EXCEPT ![r].status = "paid"]
    /\ cart' = [cart EXCEPT ![placed[r].cart].status = "checked_out"]
    /\ UNCHANGED <<rowLock, call>>

CartsNext ==
    \E r \in CartCalls :
        \/ AddItem(r) \/ EditItem(r) \/ PlaceFromCart(r) \/ FinalizeCart(r) \/ TransactionFails(r)
        \/ \E customer \in Customers, session \in Sessions :
              AddFind(r, customer, session) \/ CheckoutFind(r, customer, session)
        \/ \E customer \in Customers, session \in Sessions \cup {Unnamed}, kind \in {"replace", "remove"} :
              EditFind(r, kind, customer, session)

CartsSpec == CartsInit /\ [][CartsNext]_cartVars

-----------------------------------------------------------------------------
(* A cart that was checked out is the record of what was bought: no add,   *)
(* replace, remove or checkout that was under way, or that still knows its *)
(* id, changes it or opens it again.                                       *)
CheckedOutIsFrozen ==
    [][\A c \in CartIds : cart[c].status = "checked_out" => cart'[c] = cart[c]]_cartVars

(* Several checkouts may hold a pending order for the same cart, and each  *)
(* may be charged: one of them is paid.                                    *)
OnePaidOrderPerCart ==
    \A r, s \in CartCalls :
      placed[r].status = "paid" /\ placed[s].status = "paid" /\ placed[r].cart = placed[s].cart
        => r = s

(* An order is listed for its customer with and without the session it was *)
(* placed in, although the listing asks the cart for the session.          *)
OrdersAreFound ==
    \A r \in CartCalls :
      placed[r].status # "none" =>
        \A s \in {placed[r].session, Unnamed} : r \in list_orders(placed[r].customer, s)
=============================================================================
