--------------------------- MODULE MCPropagation ----------------------------
(***************************************************************************)
(* The requests a client may send: with and without tenant, session and    *)
(* trace context, at each of the three public doors, and with baggage that *)
(* is complete, empty, oversized, malformed or foreign.                    *)
(***************************************************************************)
EXTENDS Propagation

MCEntries(values, metas) == [value : values, meta : metas]
MCNone == MCEntries({Absent}, {Absent})

MCBags ==
    LET choice == [tenant : MCEntries({"t1", "t2", "empty"}, {Absent}) \cup MCNone,
                   session : MCEntries({"s1"}, {Absent}) \cup MCNone,
                   business : MCEntries({"gold"}, {Absent, "broken"}) \cup MCNone,
                   cli : MCEntries({"i"}, {"kv", "bare"}) \cup MCEntries({"oversize"}, {Absent})
                           \cup MCNone,
                   other : MCEntries({"x"}, {Absent}) \cup MCNone]
    IN  {[k \in {j \in DOMAIN c : c[j].value # Absent} |-> c[k]] : c \in choice}

MCRequests ==
    [door : {"storefront", "checkout", "orders"}, tenant : {"t1", Absent},
     header : {"t1", "t2", Absent}, session : {"s2", Absent}, trace : {"client", Absent},
     bag : MCBags]
=============================================================================
