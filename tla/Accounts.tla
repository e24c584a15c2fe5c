------------------------------- MODULE Accounts -------------------------------
(***************************************************************************)
(* The writers of the User table: Telegram login, the user's own profile,  *)
(* the administrator API with its audit log, the Django admin's change     *)
(* form and delete view, and the scoring service.                          *)
(*                                                                         *)
(* A request reads the row it is about when it is authenticated or when it *)
(* looks its target up, works on that copy, and writes it back later in a  *)
(* transaction of its own; there is no lock in between.  What it writes is *)
(* the columns save(update_fields=...) names, or all of them.  The scoring *)
(* service alone reads and writes under the row lock, so its transaction   *)
(* is one action here (Attempts has its steps).                            *)
(***************************************************************************)
EXTENDS Gamification

CONSTANTS
    Users,             \* Telegram accounts: telegram_id is unique
    FirstAdmins,       \* the accounts that are administrators to begin with
    Requests,          \* one identity per HTTP request
    Endpoints,         \* what the requests of this instance may call
    Names, Languages,  \* values of username and language_code
    AdminUsernames,    \* settings.ADMIN_USERNAMES
    NoRow,             \* a row that does not exist
    Nobody,            \* the admin of an audit entry whose account is gone
    Founding,          \* identity of the rows there are to begin with
    Deltas,            \* what administrators add to points
    Totals,            \* what administrators set points to
    Rewards,           \* what an official attempt earns
    Today              \* the one day an instance spans

Endpoint ==
    {"award", "profile", "login", "adjust", "set", "reset", "ban", "unban",
     "grant", "revoke", "edit", "delete", "form", "remove"}

ByAdmin == Endpoint \ {"award", "profile", "login"}

ASSUME AccountsAssumption ==
    /\ FirstAdmins \subseteq Users
    /\ Endpoints \subseteq Endpoint
    /\ AdminUsernames \subseteq Names
    /\ Deltas \subseteq Int /\ Totals \subseteq Nat /\ Rewards \subseteq Nat
    /\ Today \in Nat /\ NoDate \notin Int
    /\ Founding \notin Requests /\ Nobody \notin Users

UserRow ==
    [id : Requests \cup {Founding}, points : Nat, completed_tests : Nat,
     streak : Nat, last_activity_date : Nat \cup {NoDate},
     current_rank : RankTier, is_admin : BOOLEAN, is_active : BOOLEAN,
     username : Names, language_code : Languages,
     last_login : Requests \cup {Founding}]

ASSUME NoRowAssumption == NoRow \notin UserRow

Call ==
    [do : Endpoint, by : Users, by_id : Requests \cup {Founding}, target : Users]

Column == {"id", "points", "completed_tests", "streak", "last_activity_date",
           "current_rank", "is_admin", "is_active", "username",
           "language_code", "last_login"}

VARIABLES
    rows,      \* the User table, by telegram_id
    audit,     \* AdminAuditLog: the entries each request appended
    welcomed,  \* Notification: the welcomes the row of each account got
    pc, call,
    copy       \* the User instance a request works on

vars == <<rows, audit, welcomed, pc, call, copy>>

TypeOK ==
    /\ rows \in [Users -> UserRow \cup {NoRow}]
    /\ \A r \in Requests : \A entry \in audit[r] :
          /\ entry.admin \in Users \cup {Nobody}
          /\ entry.action \in ByAdmin
          /\ DOMAIN entry.changes \subseteq Column
    /\ welcomed \in [Users -> {0, 1}]
    /\ pc \in [Requests -> {"idle", "opened", "recorded", "signed_in",
                             "done", "refused"}]
    /\ call \in [Requests -> Call \cup {NoRow}]
    /\ copy \in [Requests -> UserRow \cup {NoRow}]

NewRow(id, admin, name, language) ==
    [id |-> id, points |-> 0, completed_tests |-> 0, streak |-> 0,
     last_activity_date |-> NoDate, current_rank |-> "novice",
     is_admin |-> admin, is_active |-> TRUE, username |-> name,
     language_code |-> language, last_login |-> Founding]

Init ==
    /\ \E name \in Names \ AdminUsernames, language \in Languages :
          rows = [u \in Users |-> NewRow(Founding, u \in FirstAdmins, name, language)]
    /\ audit = [r \in Requests |-> {}]
    /\ welcomed = [u \in Users |-> 1]
    /\ pc = [r \in Requests |-> "idle"]
    /\ call = [r \in Requests |-> NoRow]
    /\ copy = [r \in Requests |-> NoRow]

-----------------------------------------------------------------------------
(* Django's save(). *)

Exists(u) == rows[u] # NoRow

(* The row a request has a copy of is still there. *)
StillThere(r) ==
    LET u == call[r].target
    IN  Exists(u) /\ rows[u].id = copy[r].id

(* The post_save receiver welcomes whom an INSERT created. *)
Welcome_Always(u) == welcomed' = [welcomed EXCEPT ![u] = @ + 1]
Welcome(u) == welcomed' = [welcomed EXCEPT ![u] = IF Exists(u) THEN @ ELSE 1]

(* UPDATE of the named columns; every other column keeps what it has. *)
Overwrite_AllColumns(row, instance, columns) == instance
Overwrite(row, instance, columns) ==
    [c \in Column |-> IF c \in columns THEN instance[c] ELSE row[c]]

(* save(update_fields=columns); on a row that is gone it raises. *)
SaveColumns(r, instance, columns) ==
    LET u == call[r].target
    IN  /\ StillThere(r)
        /\ rows' = [rows EXCEPT ![u] = Overwrite(@, instance, columns)]
        /\ UNCHANGED welcomed

(* save(): an UPDATE of all columns and, when no row has that id any more, *)
(* the INSERT of one.  An INSERT next to a newer row of the same           *)
(* telegram_id is refused.                                                 *)
SaveAll_ByTelegramId(r, instance) ==
    LET u == call[r].target
    IN  /\ rows' = [rows EXCEPT ![u] = instance]
        /\ Welcome(u)
SaveAll(r, instance) ==
    LET u == call[r].target
    IN  /\ Exists(u) => rows[u].id = instance.id
        /\ rows' = [rows EXCEPT ![u] = instance]
        /\ Welcome(u)

Goto(r, label) == pc' = [pc EXCEPT ![r] = label]

(* The response; the request forgets its copy. *)
Answer(r, label) ==
    /\ Goto(r, label)
    /\ copy' = [copy EXCEPT ![r] = NoRow]
    /\ UNCHANGED call

-----------------------------------------------------------------------------
(* Authentication, the IsAdminUser permission, and get_object(). *)

IsAdminUser(u) == Exists(u) /\ rows[u].is_active /\ rows[u].is_admin

Open(r, do, by, target) ==
    /\ pc[r] = "idle"
    /\ do \in Endpoints
    /\ call' = [call EXCEPT ![r] =
            [do |-> do, by |-> by, by_id |-> rows[by].id, target |-> target]]
    /\ copy' = [copy EXCEPT ![r] = rows[target]]
    /\ Goto(r, "opened")
    /\ UNCHANGED <<rows, audit, welcomed>>

(* A user submits a test or edits their profile. *)
OpenOwn(r, do, u) ==
    /\ do \in {"award", "profile"}
    /\ Exists(u) /\ rows[u].is_active
    /\ Open(r, do, u, u)

(* An administrator acts on a user, by the API or on the Django admin site. *)
OpenOther(r, do, admin, u) ==
    /\ do \in ByAdmin
    /\ IsAdminUser(admin)
    /\ Exists(u)
    /\ Open(r, do, admin, u)

-----------------------------------------------------------------------------
(* submit_test of an official attempt, which reads the row again. *)
Award(r, earned) ==
    LET u == call[r].target
    IN  /\ pc[r] = "opened" /\ call[r].do = "award"
        /\ StillThere(r)
        /\ rows' = [rows EXCEPT ![u] = ApplyOfficialResults(@, earned, Today)]
        /\ Answer(r, "done")
        /\ UNCHANGED <<audit, welcomed>>

(* PATCH of the profile: the serializer saves the instance. *)
SaveProfile(r, language) ==
    /\ pc[r] = "opened" /\ call[r].do = "profile"
    /\ SaveAll(r, [copy[r] EXCEPT !.language_code = language])
    /\ Answer(r, "done")
    /\ UNCHANGED audit

(* The Django admin's change form, which shows progress but saves the row. *)
SaveForm(r, active, admin, name) ==
    /\ pc[r] = "opened" /\ call[r].do = "form"
    /\ SaveAll(r, [copy[r] EXCEPT !.is_active = active, !.is_admin = admin,
                                  !.username = name])
    /\ Answer(r, "done")
    /\ UNCHANGED audit

-----------------------------------------------------------------------------
(* POST auth/telegram/ *)

ShouldBeAdmin(name) == name \in AdminUsernames

(* _sync_profile never demotes. *)
SyncProfile(row, name, language) ==
    [row EXCEPT !.username = name, !.language_code = language,
                !.is_admin = @ \/ ShouldBeAdmin(name)]

(* get_or_create under FOR UPDATE: the row is fresh when it is written. *)
SignIn(r, u, name, language) ==
    LET row == IF Exists(u) THEN SyncProfile(rows[u], name, language)
                            ELSE NewRow(r, ShouldBeAdmin(name), name, language)
    IN  /\ pc[r] = "idle" /\ "login" \in Endpoints
        /\ rows' = [rows EXCEPT ![u] = row]
        /\ Welcome(u)
        /\ call' = [call EXCEPT ![r] =
                [do |-> "login", by |-> u, by_id |-> row.id, target |-> u]]
        /\ copy' = [copy EXCEPT ![r] = row]
        /\ Goto(r, "signed_in")
        /\ UNCHANGED audit

(* The view then stamps last_login, in a transaction of its own. *)
StampLogin(r) ==
    /\ pc[r] = "signed_in"
    /\ SaveColumns(r, [copy[r] EXCEPT !.last_login = r], {"last_login"})
    /\ Answer(r, "done")
    /\ UNCHANGED audit

-----------------------------------------------------------------------------
(* The administrator API *)

(* record_action: what changed, from what the copy said.  The entry refers *)
(* to the administrator, who must still exist.                             *)
RecordAction(r, action, columns, instance) ==
    /\ Exists(call[r].by) /\ rows[call[r].by].id = call[r].by_id
    /\ audit' = [audit EXCEPT ![r] =
           {[admin |-> call[r].by, action |-> action, target |-> call[r].target,
             changes |-> [c \in columns |->
                             [from |-> copy[r][c], to |-> instance[c]]]]}]

(* _sync_rank, whenever points are assigned *)
WithPoints_OldRank(row, points) == [row EXCEPT !.points = points]
WithPoints(row, points) ==
    [row EXCEPT !.points = points, !.current_rank = RankForPoints(points)]

(* A service of the form: change the copy, save some columns, record them. *)
Service(r, do, instance, recorded, saved) ==
    /\ pc[r] = "opened" /\ call[r].do = do
    /\ SaveColumns(r, instance, saved)
    /\ RecordAction(r, do, recorded, instance)
    /\ Answer(r, "done")

AtLeastZero(n) == IF n > 0 THEN n ELSE 0

SetPoints(r, points) ==
    Service(r, "set", WithPoints(copy[r], AtLeastZero(points)),
            {"points"}, {"points", "current_rank"})

AdjustPoints(r, delta) ==
    Service(r, "adjust", WithPoints(copy[r], AtLeastZero(copy[r].points + delta)),
            {"points"}, {"points", "current_rank"})

ResetPoints(r) ==
    Service(r, "reset", WithPoints(copy[r], 0),
            {"points"}, {"points", "current_rank"})

ResetCounter(r, field) ==
    /\ field \in {"streak", "completed_tests"}
    /\ Service(r, "reset", [copy[r] EXCEPT ![field] = 0], {field}, {field})

SetActive(r) ==
    \/ Service(r, "ban", [copy[r] EXCEPT !.is_active = FALSE],
               {"is_active"}, {"is_active"})
    \/ Service(r, "unban", [copy[r] EXCEPT !.is_active = TRUE],
               {"is_active"}, {"is_active"})

SetAdmin(r) ==
    \/ Service(r, "grant", [copy[r] EXCEPT !.is_admin = TRUE],
               {"is_admin"}, {"is_admin"})
    \/ Service(r, "revoke", [copy[r] EXCEPT !.is_admin = FALSE],
               {"is_admin"}, {"is_admin"})

(* apply_edits: the edits that differ from the copy, and then a full save. *)
ApplyEdits(r, points, active, admin) ==
    LET edited == [copy[r] EXCEPT !.points = points, !.is_active = active,
                                  !.is_admin = admin]
        changed == {c \in {"points", "is_active", "is_admin"} :
                        edited[c] # copy[r][c]}
        instance == IF "points" \in changed THEN WithPoints(edited, points)
                                            ELSE edited
    IN  /\ pc[r] = "opened" /\ call[r].do = "edit"
        /\ IF changed = {}
           THEN UNCHANGED <<rows, welcomed, audit>>
           ELSE SaveAll(r, instance) /\ RecordAction(r, "edit", changed, instance)
        /\ Answer(r, "done")

(* delete_user: the entry is committed before the row is deleted. *)
RecordDelete(r) ==
    /\ pc[r] = "opened" /\ call[r].do = "delete"
    /\ RecordAction(r, "delete", {}, copy[r])
    /\ Goto(r, "recorded")
    /\ UNCHANGED <<rows, welcomed, call, copy>>

(* DELETE of the row the copy is of, if it is still there.  Entries by a    *)
(* deleted administrator stay, without their name.                         *)
Delete(r) ==
    LET u == call[r].target
    IN  IF StillThere(r)
        THEN /\ rows' = [rows EXCEPT ![u] = NoRow]
             /\ welcomed' = [welcomed EXCEPT ![u] = 0]
             /\ audit' = [q \in Requests |->
                     {[e EXCEPT !.admin = IF @ = u THEN Nobody ELSE @] :
                         e \in audit[q]}]
        ELSE UNCHANGED <<rows, welcomed, audit>>

DeleteRow_Unrecorded(r) ==
    /\ pc[r] \in {"opened", "recorded"} /\ call[r].do = "delete"
    /\ Delete(r)
    /\ Answer(r, "done")
DeleteRow(r) ==
    /\ pc[r] = "recorded"
    /\ Delete(r)
    /\ Answer(r, "done")

(* The Django admin's delete view and its "delete selected" action: they    *)
(* append nothing to AdminAuditLog.                                         *)
RemoveRow(r) ==
    /\ pc[r] = "opened" /\ call[r].do = "remove"
    /\ Delete(r)
    /\ Answer(r, "done")

-----------------------------------------------------------------------------
(* A request may end early at any point between its transactions: a payload *)
(* that does not validate, a missing row, a worker that dies.               *)
Fail(r) ==
    /\ pc[r] \in {"opened", "recorded", "signed_in"}
    /\ Answer(r, "refused")
    /\ UNCHANGED <<rows, audit, welcomed>>

Arrive(r) ==
    \/ \E do \in Endpoints, u \in Users : OpenOwn(r, do, u)
    \/ \E do \in Endpoints, admin \in Users, u \in Users : OpenOther(r, do, admin, u)
    \/ \E u \in Users, name \in Names, language \in Languages :
          SignIn(r, u, name, language)

Administer(r) ==
    \/ \E points \in Totals : SetPoints(r, points)
    \/ \E delta \in Deltas : AdjustPoints(r, delta)
    \/ ResetPoints(r)
    \/ \E field \in {"streak", "completed_tests"} : ResetCounter(r, field)
    \/ SetActive(r) \/ SetAdmin(r)
    \/ \E points \in Totals \cup {copy[r].points}, active, admin \in BOOLEAN :
          ApplyEdits(r, points, active, admin)
    \/ RecordDelete(r) \/ DeleteRow(r) \/ RemoveRow(r)

Step(r) ==
    \/ \E earned \in Rewards : Award(r, earned)
    \/ \E language \in Languages : SaveProfile(r, language)
    \/ \E active, admin \in BOOLEAN, name \in Names : SaveForm(r, active, admin, name)
    \/ StampLogin(r)
    \/ pc[r] # "idle" /\ copy[r] # NoRow /\ Administer(r)
    \/ Fail(r)

(* Nothing is in flight; an instance has no more requests, or nobody who may *)
(* make them.                                                                *)
Finished ==
    /\ \A r \in Requests : pc[r] \in {"idle", "done", "refused"}
    /\ UNCHANGED vars

Next == (\E r \in Requests : Arrive(r) \/ Step(r)) \/ Finished

Spec == Init /\ [][Next]_vars
-----------------------------------------------------------------------------
(* The properties. *)

(* The cached rank of every account is the one of its points, whoever wrote *)
(* last and from however old a copy (services/admin.py, "Point changes keep *)
(* the denormalised current_rank in sync").                                 *)
RankMatchesPoints ==
    \A u \in Users :
        Exists(u) => rows[u].current_rank = RankForPoints(rows[u].points)

(* What the step appends to the log; the step leaves the row in place. *)
Appended(r) == IF audit[r] = {} THEN audit'[r] ELSE {}

SameAccount(u) == Exists(u) /\ rows'[u] # NoRow /\ rows'[u].id = rows[u].id

(* The steps that carry a request about u out, and the ones that sign u in. *)
CarriesOut(r, u) == pc[r] # "done" /\ pc'[r] = "done" /\ call[r].target = u
SignsIn(r, u) == pc[r] = "idle" /\ pc'[r] = "signed_in" /\ call'[r].target = u

(* The request saves all columns of a row it has read earlier. *)
WholeRow == {"profile", "edit", "form"}

(* A ban, an unban and the grant or loss of administrator rights stay until  *)
(* another recorded action undoes them, a login of a listed name promotes,   *)
(* or the Django admin's form says otherwise; a whole-row save of the        *)
(* profile or of apply_edits may only put back what its request has read     *)
(* (services/admin.py, set_active, set_admin, apply_edits;                   *)
(* services/telegram.py; views/user.py).                                     *)
ModerationHolds ==
    [][\A u \in Users, c \in {"is_active", "is_admin"} :
          SameAccount(u) /\ rows'[u][c] # rows[u][c] =>
              \/ \E r \in Requests : \E entry \in Appended(r) :
                    entry.target = u /\ c \in DOMAIN entry.changes
              \/ /\ c = "is_admin" /\ rows'[u].is_admin
                 /\ rows'[u].username \in AdminUsernames
                 /\ \E r \in Requests : SignsIn(r, u)
              \/ \E r \in Requests :
                    /\ CarriesOut(r, u) /\ call[r].do \in WholeRow
                    /\ \/ call[r].do = "form"
                       \/ copy[r].id = rows[u].id /\ rows'[u][c] = copy[r][c]]_vars

(* An account disappears only by a request that looked up this very row,     *)
(* never a later registration of the same person, and by then an entry about *)
(* it is in the log: only the Django admin's own delete view goes without    *)
(* (services/admin.py, delete_user; admin.py, UserAdmin).                    *)
OnlyTheChosenVanish ==
    [][\A u \in Users : Exists(u) /\ rows'[u] = NoRow =>
          \E r \in Requests :
              /\ CarriesOut(r, u) /\ copy[r].id = rows[u].id
              /\ \/ call[r].do = "remove"
                 \/ \E entry \in audit[r] :
                       entry.action = "delete" /\ entry.target = u]_vars

(* A registration of its own: no progress, and an id nothing refers to yet. *)
Fresh(u) ==
    \E r \in Requests :
        /\ SignsIn(r, u) /\ rows'[u].id = r
        /\ rows'[u].points = 0 /\ rows'[u].completed_tests = 0
        /\ \A q \in Requests :
              copy[q] # NoRow => copy[q].id # r /\ call[q].by_id # r

(* A deleted account that a whole-row save inserts again, as it was read. *)
Restored(u) ==
    \E r \in Requests :
        /\ CarriesOut(r, u) /\ call[r].do \in WholeRow
        /\ rows'[u].id = copy[r].id
        /\ rows'[u].completed_tests = copy[r].completed_tests
        /\ call[r].do # "edit" => rows'[u].points = copy[r].points

(* A late save never turns one registration of a person into another: a row *)
(* keeps its id as long as it is there, and one that appears is a new       *)
(* registration or the deleted one that a profile, an edit or the form had  *)
(* read and saves whole, with the progress it had (signals.py, managers.py; *)
(* views/user.py; services/admin.py, apply_edits).                          *)
RegistrationsStayApart ==
    [][\A u \in Users : rows'[u] # NoRow =>
          IF Exists(u) THEN SameAccount(u) ELSE Fresh(u) \/ Restored(u)]_vars

(* Every change of an account that the administrator API makes is in an      *)
(* entry of the audit log (services/admin.py).                               *)
EveryChangeIsTraced ==
    [][\A u \in Users, c \in {"points", "is_active", "is_admin"} :
          SameAccount(u) /\ rows'[u][c] # rows[u][c] =>
              \E r \in Requests : \E entry \in Appended(r) :
                  entry.target = u /\ c \in DOMAIN entry.changes]_vars

(* An entry of the audit log says "how the value changed": the account had   *)
(* the value the entry gives as the old one.                                 *)
AuditTellsTheTruth ==
    [][\A r \in Requests : \A entry \in Appended(r) :
          \A c \in DOMAIN entry.changes :
              /\ rows[entry.target][c] = entry.changes[c].from
              /\ rows'[entry.target][c] = entry.changes[c].to]_vars
=============================================================================
