\* An official attempt commits while an administrator adjusts the points.
SPECIFICATION Spec
CONSTANTS
    Users = {admin, student}
    FirstAdmins = {admin}
    Requests = {r1, r2}
    Endpoints <- Adjusting
    Names = {plain}
    Languages = {uk}
    AdminUsernames = {}
    NoRow = NoRow
    NoDate = NoDate
    Nobody = Nobody
    Founding = Founding
    Deltas <- Adjustments
    Totals = {50, 300}
    Rewards = {150}
    Today = 1
PROPERTY AuditTellsTheTruth
