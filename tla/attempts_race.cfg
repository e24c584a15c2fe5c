\* One user in a hurry: starts and submits of two tests, in any order.
SPECIFICATION Spec
CONSTANTS
    Users = {u1}
    Tests = {t1, t2}
    EditedTests <- NoTests
    Requests = {r1, r2, r3, r4}
    TestRows <- SteadyRows
    Worths = {1}
    Nobody = Nobody
    NoSession = NoSession
    NoRow = NoRow
    NoDate = NoDate
    MaxReward = 150
    Second = 1
    Grace = 0
    DayLength = 2
    MaxNow = 3
    MaxEdition = 0
SYMMETRY RaceSymmetry
INVARIANTS
    TypeOK
    DecisionStands
    SessionSpentOnce
    AggregatesInSync
    UnlocksDeserved
    OfficialInTime
PROPERTIES
    PracticeNeverRanks
    KeepsLedger
