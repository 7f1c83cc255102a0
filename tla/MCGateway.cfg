\* One Express message, two workers, two providers: every race over a lease, and
\* what becomes of the message in the end.
CONSTANTS
    c1 = c1  m1 = m1  m2 = m2  p1 = p1  p2 = p2  w1 = w1  w2 = w2
    Customers = {c1}
    Messages <- OneMessage
    ChargeRefs = {1}
    Amounts = {3}
    Owner <- OwnerOne
    Cost <- CostOne
    Workers = {w1, w2}
    NoWorker = NoWorker
    Providers = {p1, p2}
    NoProvider = NoProvider
    Express = {m1}
    MaxAttempts = 2
    MaxLeases = 2
SPECIFICATION FairSpec
CHECK_DEADLOCK FALSE
INVARIANTS
    GatewayInv
    RefundIffFailedOrExpired
    BalanceMatchesTransactions
PROPERTIES
    StatusMoves
    LiveLeaseIsRespected
    LedgerSpec
    
    FinishedLeaveTheQueue
