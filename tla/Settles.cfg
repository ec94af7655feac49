CONSTANTS
    Alert = {"a1", "a2"}
    Type = {"price"}
    MaxRows = 2
    MaxPriceFaults = 1
    ConnectedExchange = {"e1", "e2"}
    Danger = {"d1", "d2"}
    KeyOf <- MCKeyOf
    MaxRestarts = 1
    Call = {"c1", "c2", "c3", "c4"}
    MAX_IN_FLIGHT = 2
    PageSize = 2
    MaxHistory = 6
    MaxAttempts = 2
SPECIFICATION MCSpec
INVARIANTS PositionInv DnsInv PagingInv
PROPERTIES NeverForgotten DangerIsTold CallsEnd ReadingEnds
