\* Both algorithms on every small input; the limits are scaled down so that
\* capacities 0..3 use the table and 4 the greedy choice.
CONSTANTS
    Inputs <- SmallInputs
    GreedyItems = 1000
    GreedyCapacity = 3
    CheckEvery = 2
SPECIFICATION Spec
CHECK_DEADLOCK FALSE
INVARIANTS
    PlanFits
    ListedOnce
    TotalsAgree
    TableIsOptimal
    GreedyFillsUp
    GreedyMissesLess
