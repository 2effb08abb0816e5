\* Two workers, two requests of one team and a malformed message, with a fault.
CONSTANTS
    m1 = m1
    m2 = m2
    m3 = m3
    Workers = {w1, w2}
    NoWorker = NoWorker
    Requests = {m1, m2, m3}
    NoRequest = NoRequest
    Team <- OneTeam
    Malformed = {m3}
    MaxFaults = 1
CHECK_DEADLOCK FALSE
SPECIFICATION FairSpec
INVARIANTS
    OneTestPerTeam
    FinishedIsScored
    DeletedHasOutcome
PROPERTIES
    DeletedByHolder
    RequestIsSettled
