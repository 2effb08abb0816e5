\* A test that outlasts the visibility timeout.
CONSTANTS
    m1 = m1
    m2 = m2
    m3 = m3
    Workers = {w1, w2}
    NoWorker = NoWorker
    Requests = {m1, m2}
    NoRequest = NoRequest
    Team <- OneTeam
    Malformed = {}
    MaxFaults = 1
SYMMETRY Symmetry
SPECIFICATION Spec
INVARIANTS
    OneTestAtATime
