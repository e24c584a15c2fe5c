\* Every writer, those that save whole rows from old copies and the Django
\* admin's own delete included.
SPECIFICATION Spec
CONSTANTS
    Users = {admin, student}
    FirstAdmins = {admin}
    Requests = {r1, r2, r3}
    Endpoints <- Endpoint
    Names = {plain, listed}
    Languages = {uk}
    AdminUsernames = {listed}
    NoRow = NoRow
    NoDate = NoDate
    Nobody = Nobody
    Founding = Founding
    Deltas <- Adjustments
    Totals = {50, 300}
    Rewards = {150}
    Today = 1
SYMMETRY RequestSymmetry
INVARIANTS
    TypeOK
    RankMatchesPoints
PROPERTIES
    ModerationHolds
    OnlyTheChosenVanish
    RegistrationsStayApart
