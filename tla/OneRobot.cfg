\* One robot, as the robot scenario runs it; its timed out requests leave
\* goroutines behind.
CONSTANTS
    MaxOrders = 3
    MaxUnits = 2
    MaxFaults = 2
    Users = {u1}
    Robots = {r1}
    Plans = {p1, p2}
    NoRobot = NoRobot
    Weight <- OrderWeight
    Value <- OrderValue
    Capacity = 3
SPECIFICATION FairSpec
INVARIANTS
    TypeOK
    UncommittedUnseen
    HandedLeftShipping
    DeliveringIsAccounted
PROPERTIES
    UnitsAppearTogether
    HandedOnce
    CompletedIsFinal
    LifecycleSpec
    ShippingIsResolved
