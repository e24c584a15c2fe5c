\* Nine days and ten tests: every pattern of active days, every achievement.
SPECIFICATION Spec
CONSTANTS
    NoDate = NoDate
    Rewards = {0, 120}
    MaxDay = 9
    MaxTests = 11
INVARIANTS
    TypeOK
    StreakIsRun
    UnlocksFollowHistory
