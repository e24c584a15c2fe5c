\* Three users whose points, times and tests tie in every way.
SPECIFICATION Spec
CONSTANTS
    Users = {1, 2, 3}
    Rewards = {0, 1}
    Times = {1, 2}
    MaxPoints = 1
    MaxTests = 2
    MaxTime = 3
INVARIANTS
    PlacesAreNumbered
    RankWithinItsTie
PROPERTIES
    AttemptNeverMovesDown
