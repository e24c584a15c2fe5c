\* A ban commits while an administrator edits the account.
SPECIFICATION Spec
CONSTANTS
    Users = {admin, student}
    FirstAdmins = {admin}
    Requests = {r1, r2}
    Endpoints <- Moderating
    Names = {plain}
    Languages = {uk}
    AdminUsernames = {}
    NoRow = NoRow
    NoDate = NoDate
    Nobody = Nobody
    Founding = Founding
    Deltas <- Adjustments
    Totals = {50, 300}
    Rewards = {150}
    Today = 1
PROPERTY EveryChangeIsTraced
