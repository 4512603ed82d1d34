\* Six parts, each with the smallest instance in which its hazards occur.
CONSTANTS
    q1 = q1
    q2 = q2
    a1 = a1
    a2 = a2
    b1 = b1
    Requests = {q1, q2}
    Lines = {a1, a2, b1}
    RequestOf <- MCRequestOf
    Quantity <- MCQuantity
    MaxQuantity = 3
    Stocks = {1, 2}
    Offers <- MCOffers
    InitialOnHand <- MCInitialOnHand
    MaxGeneration = 2
    c1 = c1
    c2 = c2
    Tenants = {"t1", "t2"}
    ClientRequests <- MCRequests
    Buyers = {"b1", "b2"}
    QuoteRequests <- MCQuoteRequests
    PriceBooks <- MCPriceBooks
    Promotions <- MCPromotions
    SkuBytes <- MCSkuBytes
    Headings <- MCHeadings
    HashModulus = 65536
    AmountLimit = 20
    ItemsLimit = 2
    QuantityLimit = 3
    Customers = {"u1", "u2"}
    Sessions = {"s1", "s2"}
    CartIds = {"k1", "g1"}
    NamedCarts = {"k1"}
    NewSessions = {"f1"}
    CartCalls = {"r1", "r2", "r3"}
    ItemLimit = 2
    Clients = {c1, c2}
    Asks <- MCAsks
    RequestTimeout = 3
    DownstreamTimeout = 2
    MaxSends = 2
    Steps = {"pricing"}
    Deliveries = 2
    Restarted = {0}
    Faults <- MCFaults
    VerifyTime = 1
    TraceLimit = 4
SPECIFICATION RequestSpec
INVARIANTS
    StockIsSound
    OneTenantAllTheWay
    QuotesAreAccepted
    DiscountsWithinBudget
    OnePaidOrderPerCart
    ToldOutcomeStands
    PassedRunIsSound
    CompleteRunPasses
PROPERTIES
    OnlyCurrentGenerationWrites
    ExpiredHoldsEnd
    CheckedOutIsFrozen
CHECK_DEADLOCK FALSE
