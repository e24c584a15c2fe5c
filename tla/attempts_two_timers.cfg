\* Two starts of the same test at once.
SPECIFICATION Spec
CONSTANTS
    Users = {u1}
    Tests = {t1}
    EditedTests <- NoTests
    Requests = {r1, r2}
    TestRows <- OneRow
    Worths = {1}
    Nobody = Nobody
    NoSession = NoSession
    NoRow = NoRow
    NoDate = NoDate
    MaxReward = 100
    Second = 1
    Grace = 1
    DayLength = 2
    MaxNow = 3
    MaxEdition = 0
INVARIANT OneRunningTimer
