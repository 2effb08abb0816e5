\* Above the code's capacity limit the plan is not the most valuable one.
CONSTANTS
    Inputs <- LargeCapacity
    GreedyItems = 1000
    GreedyCapacity = 10000
    CheckEvery = 100
SPECIFICATION Spec
CHECK_DEADLOCK FALSE
INVARIANTS
    PlanIsOptimal
