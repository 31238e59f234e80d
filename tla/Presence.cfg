SPECIFICATION SyncedSpec
CONSTANTS
    c1 = c1
    c2 = c2
    Conns <- MCConns
    Accounts <- MCAccounts
    h1 = h1
    h2 = h2
    Handlers <- MCHandlers
    Sweepers = {s1}
    Stale = 2
    SyncFails = FALSE
    None = None
INVARIANTS StatusIsDerived
PROPERTIES OfflineDetected PingRevives CallEndClears
