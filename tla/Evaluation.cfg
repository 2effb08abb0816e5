\* Two runs of the script on one machine, two workers, a fault.
CONSTANTS
    Workers = {w1, w2}
    NoWorker = NoWorker
    Requests = {m1, m2}
    NoRequest = NoRequest
    Team <- OneTeam
    Malformed = {}
    MaxFaults = 1
CHECK_DEADLOCK FALSE
SPECIFICATION FairSpec
INVARIANTS
    UndisturbedTest
PROPERTIES
    TestedAsRestored
    PollEnds
