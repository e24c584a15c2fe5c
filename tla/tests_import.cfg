\* Two runs of the command, at once or one after the other, over batches that
\* share a title, with two kills or edits by hand.
SPECIFICATION Spec
CONSTANTS
    algebra = algebra
    algebra2 = algebra2
    geometry = geometry
    broken = broken
    binary = binary
    A = A
    G = G
    Runs = {r1, r2}
    Titles = {A, G}
    Payloads = {algebra, algebra2, geometry, broken, binary}
    TitleOf <- TitleOfC
    Size <- SizeC
    Invalid = {broken}
    Unreadable = {binary}
    Batches <- BatchesC
    MaxLength = 2
    NoRow = NoRow
    Free = Free
    MaxEdits = 2
INVARIANTS
    TypeOK
    TestsAreWhole
    TwinsOnlyFromRaces
    StatsTellTheTruth
PROPERTY EveryImportEnds
