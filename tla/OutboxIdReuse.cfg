CONSTANTS
    u1 = u1
    u2 = u2
    c1 = c1
    c2 = c2
    e1 = e1
    e2 = e2
    f1 = f1
    f2 = f2
    d1 = d1
    d2 = d2
    NoRow = NoRow
    NoChannel = NoChannel
    NoTask = NoTask
    NoLease = NoLease
    User = {u1}
    Channel = {c1}
    Event = {e1, e2}
    Config = {f1}
    RowId = {1}
    Dispatcher = {d1}
    MAX_PENDING_PER_USER = 2
    DISPATCH_BATCH_SIZE = 1
    DISPATCH_CONCURRENCY = 1
    MAX_DELIVERY_ATTEMPTS = 2
    MaxClaims = 4
    MaxLost = 0
    ChannelsMayVanish = TRUE
SPECIFICATION Spec
INVARIANTS SentIsBacked
