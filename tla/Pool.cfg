\* Four requests and two connections.
CONSTANTS
    plan1 = plan1
    plan2 = plan2
    order1 = order1
    status1 = status1
    Requests = {plan1, plan2, order1, status1}
    Kind <- MixedKinds
    NoRequest = NoRequest
    MaxConns = 2
    MaxFaults = 2
CHECK_DEADLOCK FALSE
SPECIFICATION FairSpec
INVARIANTS
    NoHoldAndWait
    ConnectionsReturn
    NobodyStuck
PROPERTIES
    RequestEnds
