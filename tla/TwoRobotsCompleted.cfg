\* Two robots at once: a completed order does not stay completed.
CONSTANTS
    MaxOrders = 1
    MaxUnits = 1
    MaxFaults = 0
    Users = {u1}
    Robots = {r1, r2}
    Plans = {p1, p2}
    NoRobot = NoRobot
    Weight <- OrderWeight
    Value <- OrderValue
    Capacity = 3
SYMMETRY Symmetry
SPECIFICATION Spec
PROPERTIES
    CompletedIsFinal
