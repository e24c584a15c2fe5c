\* Staff change the duration and the reward of the test, unpublish, empty, refill
\* and re-import it while it is being taken.
\* No symmetry: a liveness property is checked.
SPECIFICATION Spec
CONSTANTS
    Users = {u1}
    Tests = {t1}
    EditedTests = {t1}
    Requests = {r1, r2}
    TestRows <- TwoRows
    Worths = {0, 1}
    Nobody = Nobody
    NoSession = NoSession
    NoRow = NoRow
    NoDate = NoDate
    MaxReward = 100
    Second = 1
    Grace = 0
    DayLength = 1
    MaxNow = 1
    MaxEdition = 2
INVARIANT AggregatesInSync
PROPERTY EveryRequestAnswered
