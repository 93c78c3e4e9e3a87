CONSTANTS
    h1 = h1
    h2 = h2
    MaxOrders = 1
    MaxRequests = 5
    Methods = {"alipay"}
    Handlers = {h1, h2}
    OrderLimit = 2
    Credits = 1
    MaxAdjusts = 1
SPECIFICATION Spec
SYMMETRY Symmetry
CHECK_DEADLOCK FALSE
INVARIANT CollectedIsCredited
