\* A browser and a virtual user of k6, two users, two logins, a restart.
CONSTANTS
    Browsers = {b1}
    Journeys = {j1}
    Users = {u1, u2}
    NoUser = NoUser
    NoClient = NoClient
    Day = 2
    Steps = 2
    MaxTime = 4
    MaxLogins = 2
    MaxRestarts = 1
SPECIFICATION Spec
CHECK_DEADLOCK FALSE
INVARIANTS
    TypeOK
    ActsAsLogin
    CookieIsAlive
    CountedIsOrdered
PROPERTIES
    SessionEnds
