CONSTANTS
    h1 = h1
    h2 = h2
    MaxOrders = 2
    MaxRequests = 4
    Methods = {"alipay", "virtual"}
    Handlers = {h1, h2}
    OrderLimit = 2
    Credits = 1
    MaxAdjusts = 1
SPECIFICATION Spec
SYMMETRY Symmetry
INVARIANTS PayTypeOK ToppedUpOnce BalanceIsJournal
PROPERTY OrderEndsOnce
CHECK_DEADLOCK FALSE
