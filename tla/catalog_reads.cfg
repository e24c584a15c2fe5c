\* One request of each kind over a chain of three categories, while the staff
\* edit twice, which is enough to close a circle.
SPECIFICATION Spec
CONSTANTS
    c1 = c1
    c2 = c2
    c3 = c3
    m1 = m1
    root = Top
    Categories = {c1, c2, c3}
    Materials = {m1}
    Tree <- TreeC
    Home <- HomeC
    Visitors = {v1}
    Listers = {l1}
    NoRow = NoRow
    Top = Top
    Nowhere = Nowhere
    MaxPath = 2
    MaxEdits = 2
INVARIANTS
    TypeOK
    CollectsSubtree
    StandingMaterialsListed
    CountsMatchListing
    
PROPERTY EveryRequestAnswered
