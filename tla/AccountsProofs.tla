---------------------------- MODULE AccountsProofs ----------------------------
(***************************************************************************)
(* What holds of Accounts for every number of accounts and requests.       *)
(***************************************************************************)
EXTENDS Accounts, GamificationProofs

(* The rows whose cached rank is right. *)
RankedRow == {row \in UserRow : row.current_rank = RankForPoints(row.points)}

OpenStates == {"opened", "recorded", "signed_in"}

(* A row and a copy of it are never out of rank. *)
Ranked ==
    /\ rows \in [Users -> RankedRow \cup {NoRow}]
    /\ copy \in [Requests -> RankedRow \cup {NoRow}]
    /\ pc \in [Requests -> {"idle", "done", "refused"} \cup OpenStates]
    /\ call \in [Requests -> Call \cup {NoRow}]
    /\ \A r \in Requests : pc[r] \in OpenStates =>
          call[r] \in Call /\ copy[r] \in RankedRow

-----------------------------------------------------------------------------
(* Rows under assignment. *)

LEMMA EditedRow ==
    ASSUME NEW row \in RankedRow
    PROVE  /\ \A n \in Names : [row EXCEPT !.username = n] \in RankedRow
           /\ \A l \in Languages : [row EXCEPT !.language_code = l] \in RankedRow
           /\ \A q \in Requests : [row EXCEPT !.last_login = q] \in RankedRow
           /\ [row EXCEPT !.streak = 0] \in RankedRow
           /\ [row EXCEPT !.completed_tests = 0] \in RankedRow
BY DEF RankedRow, UserRow

LEMMA ModeratedRow ==
    ASSUME NEW row \in RankedRow, NEW flag \in BOOLEAN
    PROVE  /\ [row EXCEPT !.is_admin = flag] \in RankedRow
           /\ [row EXCEPT !.is_active = flag] \in RankedRow
BY DEF RankedRow, UserRow

LEMMA WithPointsRanked ==
    ASSUME NEW row \in UserRow, NEW points \in Nat
    PROVE  WithPoints(row, points) \in RankedRow
<1> DEFINE rank == RankForPoints(points)
           row1 == [row EXCEPT !.points = points]
           row2 == [row1 EXCEPT !.current_rank = rank]
<1>1. rank \in RankTier
  BY RankForPointsReached
<1>2. WithPoints(row, points) = row2
  BY DEF WithPoints
<1>3. row1 \in UserRow /\ row1.points = points
  BY DEF UserRow
<1> HIDE DEF row1
<1>4. row2 \in UserRow /\ row2.points = points /\ row2.current_rank = rank
  BY <1>1, <1>3 DEF UserRow
<1> QED
  BY <1>2, <1>4 DEF RankedRow

LEMMA OverwriteRanked ==
    ASSUME NEW row \in RankedRow, NEW instance \in RankedRow,
           NEW columns \in SUBSET Column,
           "points" \in columns <=> "current_rank" \in columns
    PROVE  Overwrite(row, instance, columns) \in RankedRow
<1> DEFINE new == Overwrite(row, instance, columns)
<1>1. row \in UserRow /\ instance \in UserRow
  BY DEF RankedRow
<1>2. new \in UserRow
  BY <1>1 DEF Overwrite, UserRow, Column
<1>3. new.points = (IF "points" \in columns THEN instance.points ELSE row.points)
      /\ new.current_rank = (IF "points" \in columns THEN instance.current_rank
                                                    ELSE row.current_rank)
  BY <1>1 DEF Overwrite, Column
<1> QED
  BY <1>2, <1>3 DEF RankedRow

LEMMA AwardedRow ==
    ASSUME NEW row \in RankedRow, NEW earned \in Nat
    PROVE  ApplyOfficialResults(row, earned, Today) \in RankedRow
<1> DEFINE points == row.points + earned
           streak == NextStreak(row.streak, row.last_activity_date, Today)
           rank   == RankForPoints(points)
           row1   == [row EXCEPT !.points = points]
           row2   == [row1 EXCEPT !.completed_tests = @ + 1]
           row3   == [row2 EXCEPT !.streak = streak]
           row4   == [row3 EXCEPT !.last_activity_date = Today]
           row5   == [row4 EXCEPT !.current_rank = rank]
<1>1. row \in UserRow
  BY DEF RankedRow
<1>2. points \in Nat
  BY <1>1 DEF UserRow
<1>3. streak \in Nat
  BY <1>1, NextStreakType, AccountsAssumption DEF UserRow
<1>4. rank \in RankTier
  BY <1>2, RankForPointsReached
<1>5. ApplyOfficialResults(row, earned, Today) = row5
  BY DEF ApplyOfficialResults
<1> HIDE DEF streak, points
<1>6. row1 \in UserRow /\ row1.points = points
  BY <1>1, <1>2 DEF UserRow
<1> HIDE DEF row1
<1>7. row2 \in UserRow /\ row2.points = points
  BY <1>6 DEF UserRow
<1> HIDE DEF row2
<1>8. row3 \in UserRow /\ row3.points = points
  BY <1>3, <1>7 DEF UserRow
<1> HIDE DEF row3
<1>9. row4 \in UserRow /\ row4.points = points
  BY <1>8, AccountsAssumption DEF UserRow
<1> HIDE DEF row4
<1>10. row5 \in UserRow /\ row5.points = points /\ row5.current_rank = rank
  BY <1>4, <1>9 DEF UserRow
<1> QED
  BY <1>5, <1>10 DEF RankedRow

LEMMA NoPointsNoRank == RankForPoints(0) = "novice"
BY RankForPointsReached DEF RankTier, RankThreshold

LEMMA NewRowRanked ==
    ASSUME NEW id \in Requests \cup {Founding}, NEW admin \in BOOLEAN,
           NEW name \in Names, NEW language \in Languages
    PROVE  NewRow(id, admin, name, language) \in RankedRow
BY NoPointsNoRank DEF NewRow, RankedRow, UserRow, RankTier

-----------------------------------------------------------------------------
(* The two forms of save(). *)

LEMMA SaveColumnsRanked ==
    ASSUME Ranked, NEW r \in Requests, pc[r] \in OpenStates,
           NEW instance \in RankedRow, NEW columns \in SUBSET Column,
           "points" \in columns <=> "current_rank" \in columns,
           SaveColumns(r, instance, columns)
    PROVE  rows' \in [Users -> RankedRow \cup {NoRow}]
<1> DEFINE u   == call[r].target
           new == Overwrite(rows[u], instance, columns)
<1>1. u \in Users
  BY DEF Ranked, Call
<1>2. rows[u] \in RankedRow
  BY <1>1 DEF SaveColumns, StillThere, Exists, Ranked
<1>3. new \in RankedRow
  BY <1>2, OverwriteRanked
<1>4. rows' = [rows EXCEPT ![u] = new]
  BY <1>1 DEF SaveColumns, Ranked
<1> HIDE DEF new, u
<1> QED
  BY <1>1, <1>3, <1>4 DEF Ranked

LEMMA SaveAllRanked ==
    ASSUME Ranked, NEW r \in Requests, pc[r] \in OpenStates,
           NEW instance \in RankedRow, SaveAll(r, instance)
    PROVE  rows' \in [Users -> RankedRow \cup {NoRow}]
<1>1. call[r].target \in Users
  BY DEF Ranked, Call
<1> QED
  BY <1>1 DEF SaveAll, Ranked

(* A request that has its answer keeps no copy. *)
LEMMA AnswerRanked ==
    ASSUME Ranked, NEW r \in Requests, NEW label \in {"done", "refused"},
           Answer(r, label), rows' \in [Users -> RankedRow \cup {NoRow}]
    PROVE  Ranked'
<1>1. /\ pc' = [pc EXCEPT ![r] = label]
      /\ copy' = [copy EXCEPT ![r] = NoRow]
      /\ call' = call
  BY DEF Answer, Goto
<1>2. ASSUME NEW q \in Requests, pc'[q] \in OpenStates
      PROVE  call'[q] \in Call /\ copy'[q] \in RankedRow
  BY <1>1, <1>2 DEF Ranked, OpenStates
<1> QED
  BY <1>1, <1>2 DEF Ranked

-----------------------------------------------------------------------------
(* Arriving *)

LEMMA OpenRanked ==
    ASSUME Ranked, NEW r \in Requests, NEW do \in Endpoint,
           NEW by \in Users, NEW target \in Users,
           Exists(by), Exists(target), Open(r, do, by, target)
    PROVE  Ranked'
<1>1. rows[by] \in RankedRow /\ rows[target] \in RankedRow
  BY DEF Ranked, Exists
<1>2. rows[by].id \in Requests \cup {Founding}
  BY <1>1 DEF RankedRow, UserRow
<1> DEFINE entry == [do |-> do, by |-> by, by_id |-> rows[by].id, target |-> target]
<1>3. entry \in Call
  BY <1>2 DEF Call
<1>4. /\ pc' = [pc EXCEPT ![r] = "opened"]
      /\ copy' = [copy EXCEPT ![r] = rows[target]]
      /\ call' = [call EXCEPT ![r] = entry]
      /\ rows' = rows
  BY DEF Open, Goto
<1> HIDE DEF entry
<1>5. ASSUME NEW q \in Requests, pc'[q] \in OpenStates
      PROVE  call'[q] \in Call /\ copy'[q] \in RankedRow
  BY <1>1, <1>3, <1>4, <1>5 DEF Ranked
<1> QED
  BY <1>1, <1>3, <1>4, <1>5 DEF Ranked, OpenStates

LEMMA SignInRanked ==
    ASSUME Ranked, NEW r \in Requests, NEW u \in Users, NEW name \in Names,
           NEW language \in Languages, SignIn(r, u, name, language)
    PROVE  Ranked'
<1> DEFINE row == IF Exists(u) THEN SyncProfile(rows[u], name, language)
                  ELSE NewRow(r, ShouldBeAdmin(name), name, language)
           entry == [do |-> "login", by |-> u, by_id |-> row.id, target |-> u]
<1>1. ASSUME Exists(u) PROVE row \in RankedRow
  <2> DEFINE promoted == rows[u].is_admin \/ ShouldBeAdmin(name)
             row1 == [rows[u] EXCEPT !.username = name]
             row2 == [row1 EXCEPT !.language_code = language]
             row3 == [row2 EXCEPT !.is_admin = promoted]
  <2>1. rows[u] \in RankedRow
    BY <1>1 DEF Ranked, Exists
  <2>2. promoted \in BOOLEAN
    BY DEF ShouldBeAdmin
  <2>3. SyncProfile(rows[u], name, language) = row3
    BY DEF SyncProfile
  <2> HIDE DEF promoted
  <2>4. row1 \in RankedRow
    BY <2>1, EditedRow
  <2> HIDE DEF row1
  <2>5. row2 \in RankedRow
    BY <2>4, EditedRow
  <2> HIDE DEF row2
  <2>6. row3 \in RankedRow
    BY <2>2, <2>5, ModeratedRow, Zenon
  <2> HIDE DEF row3
  <2> QED
    BY <1>1, <2>3, <2>6
<1>2. ASSUME ~Exists(u) PROVE row \in RankedRow
  <2>1. ShouldBeAdmin(name) \in BOOLEAN
    BY DEF ShouldBeAdmin
  <2> QED
    BY <1>2, <2>1, NewRowRanked
<1> HIDE DEF row
<1>3. row \in RankedRow
  BY <1>1, <1>2
<1>4. row.id \in Requests \cup {Founding}
  BY <1>3 DEF RankedRow, UserRow
<1>5. entry \in Call
  BY <1>4 DEF Call, Endpoint
<1>6. /\ pc' = [pc EXCEPT ![r] = "signed_in"]
      /\ copy' = [copy EXCEPT ![r] = row]
      /\ call' = [call EXCEPT ![r] = entry]
      /\ rows' = [rows EXCEPT ![u] = row]
  BY DEF SignIn, Goto, row
<1> HIDE DEF entry
<1>7. ASSUME NEW q \in Requests, pc'[q] \in OpenStates
      PROVE  call'[q] \in Call /\ copy'[q] \in RankedRow
  BY <1>3, <1>5, <1>6, <1>7 DEF Ranked
<1> QED
  BY <1>3, <1>5, <1>6, <1>7 DEF Ranked, OpenStates

-----------------------------------------------------------------------------
(* Writing back *)

LEMMA AwardRanked ==
    ASSUME Ranked, NEW r \in Requests, NEW earned \in Rewards, Award(r, earned)
    PROVE  Ranked'
<1> DEFINE u   == call[r].target
           row == ApplyOfficialResults(rows[u], earned, Today)
<1>1. u \in Users
  BY DEF Award, Ranked, Call, OpenStates
<1>2. rows[u] \in RankedRow
  BY <1>1 DEF Award, StillThere, Exists, Ranked
<1>3. row \in RankedRow
  BY <1>2, AwardedRow, AccountsAssumption
<1>4. rows' = [rows EXCEPT ![u] = row] /\ Answer(r, "done")
  BY DEF Award
<1> HIDE DEF row, u
<1>5. rows' \in [Users -> RankedRow \cup {NoRow}]
  BY <1>1, <1>3, <1>4 DEF Ranked
<1> QED
  BY <1>4, <1>5, AnswerRanked

LEMMA SaveProfileRanked ==
    ASSUME Ranked, NEW r \in Requests, NEW language \in Languages,
           SaveProfile(r, language)
    PROVE  Ranked'
<1> DEFINE instance == [copy[r] EXCEPT !.language_code = language]
<1>1. pc[r] \in OpenStates /\ copy[r] \in RankedRow
  BY DEF SaveProfile, Ranked, OpenStates
<1>2. instance \in RankedRow
  BY <1>1, EditedRow
<1>3. SaveAll(r, instance) /\ Answer(r, "done")
  BY DEF SaveProfile
<1> HIDE DEF instance
<1> QED
  BY <1>1, <1>2, <1>3, SaveAllRanked, AnswerRanked

LEMMA SaveFormRanked ==
    ASSUME Ranked, NEW r \in Requests, NEW active \in BOOLEAN,
           NEW admin \in BOOLEAN, NEW name \in Names,
           SaveForm(r, active, admin, name)
    PROVE  Ranked'
<1> DEFINE row1 == [copy[r] EXCEPT !.is_active = active]
           row2 == [row1 EXCEPT !.is_admin = admin]
           row3 == [row2 EXCEPT !.username = name]
<1>1. pc[r] \in OpenStates /\ copy[r] \in RankedRow
  BY DEF SaveForm, Ranked, OpenStates
<1>2. SaveAll(r, row3) /\ Answer(r, "done")
  BY DEF SaveForm
<1>3. row1 \in RankedRow
  BY <1>1, ModeratedRow, Zenon
<1> HIDE DEF row1
<1>4. row2 \in RankedRow
  BY <1>3, ModeratedRow, Zenon
<1> HIDE DEF row2
<1>5. row3 \in RankedRow
  BY <1>4, EditedRow
<1> HIDE DEF row3
<1> QED
  BY <1>1, <1>2, <1>5, SaveAllRanked, AnswerRanked

LEMMA StampLoginRanked ==
    ASSUME Ranked, NEW r \in Requests, StampLogin(r)
    PROVE  Ranked'
<1> DEFINE instance == [copy[r] EXCEPT !.last_login = r]
<1>1. pc[r] \in OpenStates /\ copy[r] \in RankedRow
  BY DEF StampLogin, Ranked, OpenStates
<1>2. instance \in RankedRow
  BY <1>1, EditedRow
<1>3. SaveColumns(r, instance, {"last_login"}) /\ Answer(r, "done")
  BY DEF StampLogin
<1>4. {"last_login"} \in SUBSET Column
      /\ ("points" \in {"last_login"} <=> "current_rank" \in {"last_login"})
  BY DEF Column
<1> HIDE DEF instance
<1> QED
  BY <1>1, <1>2, <1>3, <1>4, SaveColumnsRanked, AnswerRanked

LEMMA ServiceRanked ==
    ASSUME Ranked, NEW r \in Requests, NEW do, NEW recorded,
           NEW saved \in SUBSET Column,
           "points" \in saved <=> "current_rank" \in saved,
           NEW instance, copy[r] \in RankedRow => instance \in RankedRow,
           Service(r, do, instance, recorded, saved)
    PROVE  Ranked'
<1>1. pc[r] \in OpenStates /\ copy[r] \in RankedRow
  BY DEF Service, Ranked, OpenStates
<1>2. SaveColumns(r, instance, saved) /\ Answer(r, "done")
  BY DEF Service
<1> QED
  BY <1>1, <1>2, SaveColumnsRanked, AnswerRanked

(* The services that assign points, and save the rank with them. *)
LEMMA PointsServiceRanked ==
    ASSUME Ranked, NEW r \in Requests, NEW do,
           NEW points, copy[r] \in RankedRow => points \in Nat,
           Service(r, do, WithPoints(copy[r], points),
                   {"points"}, {"points", "current_rank"})
    PROVE  Ranked'
<1>1. copy[r] \in RankedRow => WithPoints(copy[r], points) \in RankedRow
  BY WithPointsRanked DEF RankedRow
<1>2. {"points", "current_rank"} \in SUBSET Column
  BY DEF Column
<1> QED
  BY <1>1, <1>2, ServiceRanked

LEMMA AdjustedPoints ==
    ASSUME NEW row \in RankedRow, NEW delta \in Int
    PROVE  AtLeastZero(row.points + delta) \in Nat
BY DEF AtLeastZero, RankedRow, UserRow

LEMMA CounterServiceRanked ==
    ASSUME Ranked, NEW r \in Requests, NEW field \in {"streak", "completed_tests"},
           ResetCounter(r, field)
    PROVE  Ranked'
<1> DEFINE instance == [copy[r] EXCEPT ![field] = 0]
<1>1. copy[r] \in RankedRow => instance \in RankedRow
  BY EditedRow
<1>2. {field} \in SUBSET Column
      /\ ("points" \in {field} <=> "current_rank" \in {field})
  BY DEF Column
<1>3. Service(r, "reset", instance, {field}, {field})
  BY DEF ResetCounter
<1> HIDE DEF instance
<1> QED
  BY <1>1, <1>2, <1>3, ServiceRanked

LEMMA ModerationRanked ==
    ASSUME Ranked, NEW r \in Requests, SetActive(r) \/ SetAdmin(r)
    PROVE  Ranked'
<1> DEFINE active(flag) == [copy[r] EXCEPT !.is_active = flag]
           admin(flag)  == [copy[r] EXCEPT !.is_admin = flag]
<1>1. ASSUME NEW flag \in BOOLEAN, copy[r] \in RankedRow
      PROVE  active(flag) \in RankedRow /\ admin(flag) \in RankedRow
  BY <1>1, ModeratedRow, Zenon
<1>2. \/ Service(r, "ban", active(FALSE), {"is_active"}, {"is_active"})
      \/ Service(r, "unban", active(TRUE), {"is_active"}, {"is_active"})
      \/ Service(r, "grant", admin(TRUE), {"is_admin"}, {"is_admin"})
      \/ Service(r, "revoke", admin(FALSE), {"is_admin"}, {"is_admin"})
  BY DEF SetActive, SetAdmin
<1>3. /\ {"is_active"} \in SUBSET Column /\ {"is_admin"} \in SUBSET Column
      /\ "points" \in {"is_active"} <=> "current_rank" \in {"is_active"}
      /\ "points" \in {"is_admin"} <=> "current_rank" \in {"is_admin"}
  BY DEF Column
<1>4. TRUE \in BOOLEAN /\ FALSE \in BOOLEAN
  OBVIOUS
<1> HIDE DEF active, admin
<1> QED
  BY <1>1, <1>2, <1>3, <1>4, ServiceRanked

LEMMA ApplyEditsRanked ==
    ASSUME Ranked, NEW r \in Requests, NEW points,
           copy[r] \in RankedRow => points \in Nat,
           NEW active \in BOOLEAN, NEW admin \in BOOLEAN,
           ApplyEdits(r, points, active, admin)
    PROVE  Ranked'
<1> DEFINE row1 == [copy[r] EXCEPT !.points = points]
           row2 == [row1 EXCEPT !.is_active = active]
           edited == [row2 EXCEPT !.is_admin = admin]
           changed == {c \in {"points", "is_active", "is_admin"} :
                           edited[c] # copy[r][c]}
           instance == IF "points" \in changed THEN WithPoints(edited, points)
                                               ELSE edited
<1>1. pc[r] \in OpenStates /\ copy[r] \in RankedRow /\ points \in Nat
  BY DEF ApplyEdits, Ranked, OpenStates
<1>2. /\ \/ changed = {} /\ UNCHANGED rows
         \/ SaveAll(r, instance)
      /\ Answer(r, "done")
  BY DEF ApplyEdits
<1>3. row1 \in UserRow /\ row1.points = points
      /\ row1.current_rank = copy[r].current_rank
  BY <1>1 DEF RankedRow, UserRow
<1> HIDE DEF row1
<1>4. row2 \in UserRow /\ row2.points = points
      /\ row2.current_rank = copy[r].current_rank
  BY <1>3 DEF UserRow
<1> HIDE DEF row2
<1>5. edited \in UserRow /\ edited.points = points
      /\ edited.current_rank = copy[r].current_rank
  BY <1>4 DEF UserRow
<1>6. "points" \in changed <=> edited.points # copy[r].points
  OBVIOUS
<1> HIDE DEF edited, changed
<1>7. instance \in RankedRow
  <2>1. CASE "points" \in changed
    BY <1>1, <1>5, <2>1, WithPointsRanked
  <2>2. CASE "points" \notin changed
    BY <1>1, <1>5, <1>6, <2>2 DEF RankedRow
  <2> QED
    BY <2>1, <2>2
<1> HIDE DEF instance
<1>8. rows' \in [Users -> RankedRow \cup {NoRow}]
  BY <1>1, <1>2, <1>7, SaveAllRanked DEF Ranked
<1> QED
  BY <1>2, <1>8, AnswerRanked

(* The two ways an account is deleted. *)
Deletion(r) == DeleteRow(r) \/ RemoveRow(r)

LEMMA DeletionRanked ==
    ASSUME Ranked, NEW r \in Requests, RecordDelete(r) \/ Deletion(r)
    PROVE  Ranked'
<1>1. CASE RecordDelete(r)
  <2>1. /\ pc[r] = "opened" /\ pc' = [pc EXCEPT ![r] = "recorded"]
        /\ UNCHANGED <<rows, call, copy>>
    BY <1>1 DEF RecordDelete, Goto
  <2>2. ASSUME NEW q \in Requests, pc'[q] \in OpenStates
        PROVE  call'[q] \in Call /\ copy'[q] \in RankedRow
    BY <2>1, <2>2 DEF Ranked, OpenStates
  <2> QED
    BY <2>1, <2>2 DEF Ranked, OpenStates
<1>2. CASE Deletion(r)
  <2>1. call[r].target \in Users
    BY <1>2 DEF Deletion, DeleteRow, RemoveRow, Ranked, OpenStates, Call
  <2>2. rows' \in [Users -> RankedRow \cup {NoRow}] /\ Answer(r, "done")
    BY <1>2, <2>1 DEF Deletion, DeleteRow, RemoveRow, Delete, Ranked
  <2> QED
    BY <2>2, AnswerRanked
<1> QED
  BY <1>1, <1>2

-----------------------------------------------------------------------------

LEMMA AdministerRanked ==
    ASSUME Ranked, NEW r \in Requests, pc[r] # "idle", copy[r] # NoRow,
           Administer(r)
    PROVE  Ranked'
<1>1. ASSUME NEW points \in Totals, SetPoints(r, points) PROVE Ranked'
  <2>1. AtLeastZero(points) \in Nat
    BY AccountsAssumption DEF AtLeastZero
  <2> QED
    BY <1>1, <2>1, PointsServiceRanked DEF SetPoints
<1>2. ASSUME NEW delta \in Deltas, AdjustPoints(r, delta) PROVE Ranked'
  <2>1. copy[r] \in RankedRow => AtLeastZero(copy[r].points + delta) \in Nat
    BY AdjustedPoints, AccountsAssumption
  <2> QED
    BY <1>2, <2>1, PointsServiceRanked DEF AdjustPoints
<1>3. ASSUME ResetPoints(r) PROVE Ranked'
  BY <1>3, PointsServiceRanked DEF ResetPoints
<1>4. ASSUME NEW points \in Totals \cup {copy[r].points},
             NEW active \in BOOLEAN, NEW admin \in BOOLEAN,
             ApplyEdits(r, points, active, admin)
      PROVE  Ranked'
  <2>1. copy[r] \in RankedRow => points \in Nat
    BY AccountsAssumption DEF RankedRow, UserRow
  <2> QED
    BY <1>4, <2>1, ApplyEditsRanked
<1> QED
  BY <1>1, <1>2, <1>3, <1>4, CounterServiceRanked, ModerationRanked,
     DeletionRanked DEF Administer, Deletion

LEMMA RankedStep == Ranked /\ [Next]_vars => Ranked'
<1> SUFFICES ASSUME Ranked, [Next]_vars PROVE Ranked'
  OBVIOUS
<1>1. CASE UNCHANGED vars
  BY <1>1 DEF vars, Ranked
<1>2. ASSUME NEW r \in Requests, Arrive(r) PROVE Ranked'
  <2>1. ASSUME NEW do \in Endpoints, NEW u \in Users, OpenOwn(r, do, u)
        PROVE  Ranked'
    BY <2>1, OpenRanked, AccountsAssumption DEF OpenOwn
  <2>2. ASSUME NEW do \in Endpoints, NEW admin \in Users, NEW u \in Users,
               OpenOther(r, do, admin, u)
        PROVE  Ranked'
    BY <2>2, OpenRanked, AccountsAssumption DEF OpenOther, IsAdminUser
  <2> QED
    BY <1>2, <2>1, <2>2, SignInRanked DEF Arrive
<1>3. ASSUME NEW r \in Requests, Step(r) PROVE Ranked'
  <2>1. CASE Fail(r)
    BY <2>1, AnswerRanked DEF Fail, Ranked
  <2> QED
    BY <1>3, <2>1, AwardRanked, SaveProfileRanked, SaveFormRanked,
       StampLoginRanked, AdministerRanked DEF Step
<1>4. CASE Finished
  BY <1>1, <1>4 DEF Finished
<1> QED
  BY <1>1, <1>2, <1>3, <1>4 DEF Next

LEMMA InitRanked == Init => Ranked
<1> SUFFICES ASSUME Init PROVE Ranked
  OBVIOUS
<1>1. PICK name \in Names, language \in Languages :
        rows = [u \in Users |-> NewRow(Founding, u \in FirstAdmins, name, language)]
  BY DEF Init
<1>2. ASSUME NEW u \in Users
      PROVE  NewRow(Founding, u \in FirstAdmins, name, language) \in RankedRow
  <2>1. (u \in FirstAdmins) \in BOOLEAN
    OBVIOUS
  <2> QED
    BY <2>1, NewRowRanked
<1> QED
  BY <1>1, <1>2 DEF Init, Ranked, OpenStates

(* However many administrators, users and staff write accounts at once, and  *)
(* from however old a copy, the cached rank of an account is the one of its  *)
(* points.                                                                   *)
THEOREM RankAlwaysMatchesPoints == Spec => []RankMatchesPoints
<1>1. Ranked => RankMatchesPoints
  BY DEF Ranked, RankMatchesPoints, RankedRow, Exists
<1> QED
  BY <1>1, InitRanked, RankedStep, PTL DEF Spec

-----------------------------------------------------------------------------
(* Moderation *)

(* A request records nothing before it writes, and was let in at an endpoint. *)
Unrecorded ==
    /\ audit = [r \in Requests |-> audit[r]]
    /\ \A r \in Requests :
          /\ pc[r] \in {"idle", "opened", "signed_in"} => audit[r] = {}
          /\ pc[r] \in OpenStates => call[r].do \in Endpoints

(* What ModerationHolds asks of one column of one account. *)
ChangeAccounted(u, c) ==
    SameAccount(u) /\ rows'[u][c] # rows[u][c] =>
        \/ \E r \in Requests : \E entry \in Appended(r) :
              entry.target = u /\ c \in DOMAIN entry.changes
        \/ /\ c = "is_admin" /\ rows'[u].is_admin
           /\ rows'[u].username \in AdminUsernames
           /\ \E r \in Requests : SignsIn(r, u)
        \/ \E r \in Requests :
              /\ CarriesOut(r, u) /\ call[r].do \in WholeRow
              /\ \/ call[r].do = "form"
                 \/ copy[r].id = rows[u].id /\ rows'[u][c] = copy[r][c]

LEMMA SaveColumnsKeeps ==
    ASSUME Ranked, NEW r \in Requests, pc[r] \in OpenStates,
           NEW instance, NEW columns,
           SaveColumns(r, instance, columns), NEW u \in Users,
           NEW c \in Column, c \in columns => u # call[r].target
    PROVE  rows'[u][c] = rows[u][c]
<1> DEFINE target == call[r].target
           new == Overwrite(rows[target], instance, columns)
<1>1. target \in Users
  BY DEF Ranked, Call
<1>2. rows' = [rows EXCEPT ![target] = new]
  BY DEF SaveColumns
<1>3. c \notin columns => new[c] = rows[target][c]
  BY DEF Overwrite
<1> HIDE DEF new, target
<1>4. CASE u = target
  BY <1>1, <1>2, <1>3, <1>4 DEF Ranked, target
<1>5. CASE u # target
  BY <1>1, <1>2, <1>5 DEF Ranked
<1> QED
  BY <1>4, <1>5

LEMMA ServiceAccounted ==
    ASSUME Ranked, Unrecorded, NEW r \in Requests, NEW do, NEW instance,
           NEW recorded, NEW saved, NEW u \in Users,
           NEW c \in {"is_active", "is_admin"}, c \in saved => c \in recorded,
           Service(r, do, instance, recorded, saved)
    PROVE  ChangeAccounted(u, c)
<1>1. pc[r] = "opened" /\ pc[r] \in OpenStates /\ SaveColumns(r, instance, saved)
  BY DEF Service, OpenStates
<1>2. CASE c \in saved /\ u = call[r].target
  <2> DEFINE entry == [admin |-> call[r].by, action |-> do, target |-> u,
                       changes |-> [k \in recorded |->
                                       [from |-> copy[r][k], to |-> instance[k]]]]
  <2>1. audit' = [audit EXCEPT ![r] = {entry}]
    BY <1>2 DEF Service, RecordAction
  <2>2. entry.target = u /\ DOMAIN entry.changes = recorded
    OBVIOUS
  <2> HIDE DEF entry
  <2>3. audit[r] = {} /\ audit'[r] = {entry}
    BY <1>1, <2>1 DEF Unrecorded
  <2>4. entry \in Appended(r)
    BY <2>3 DEF Appended
  <2> QED
    BY <1>2, <2>2, <2>4 DEF ChangeAccounted
<1>3. CASE ~(c \in saved /\ u = call[r].target)
  <2>1. c \in Column
    BY DEF Column
  <2>2. rows'[u][c] = rows[u][c]
    BY <1>1, <1>3, <2>1, SaveColumnsKeeps
  <2> QED
    BY <2>2 DEF ChangeAccounted
<1> QED
  BY <1>2, <1>3

LEMMA AwardAccounted ==
    ASSUME Ranked, NEW r \in Requests, NEW earned \in Rewards, Award(r, earned),
           NEW u \in Users, NEW c \in {"is_active", "is_admin"}
    PROVE  ChangeAccounted(u, c)
<1> DEFINE target == call[r].target
           new == ApplyOfficialResults(rows[target], earned, Today)
<1>1. target \in Users
  BY DEF Award, Ranked, Call, OpenStates
<1>2. rows[target] \in UserRow
  BY <1>1 DEF Award, StillThere, Exists, Ranked, RankedRow
<1>3. new[c] = rows[target][c]
  BY <1>2 DEF ApplyOfficialResults, UserRow
<1>4. rows' = [rows EXCEPT ![target] = new]
  BY DEF Award
<1> HIDE DEF new, target
<1> QED
  BY <1>1, <1>3, <1>4 DEF Ranked, ChangeAccounted

LEMMA StampAccounted ==
    ASSUME Ranked, NEW r \in Requests, StampLogin(r),
           NEW u \in Users, NEW c \in {"is_active", "is_admin"}
    PROVE  ChangeAccounted(u, c)
<1>1. /\ pc[r] \in OpenStates
      /\ SaveColumns(r, [copy[r] EXCEPT !.last_login = r], {"last_login"})
  BY DEF StampLogin, OpenStates
<1>2. c \in Column /\ c \notin {"last_login"}
  BY DEF Column
<1>3. rows'[u][c] = rows[u][c]
  BY <1>1, <1>2, SaveColumnsKeeps
<1> QED
  BY <1>3 DEF ChangeAccounted

(* A login may promote, and only a name on the list. *)
LEMMA SignInAccounted ==
    ASSUME Ranked, NEW r \in Requests, NEW target \in Users, NEW name \in Names,
           NEW language \in Languages, SignIn(r, target, name, language),
           NEW u \in Users, NEW c \in {"is_active", "is_admin"}
    PROVE  ChangeAccounted(u, c)
<1> SUFFICES ASSUME SameAccount(u), rows'[u][c] # rows[u][c]
             PROVE  /\ c = "is_admin" /\ rows'[u].is_admin
                    /\ rows'[u].username \in AdminUsernames
                    /\ \E q \in Requests : SignsIn(q, u)
  BY DEF ChangeAccounted
<1> DEFINE promoted == rows[u].is_admin \/ ShouldBeAdmin(name)
           row1 == [rows[u] EXCEPT !.username = name]
           row2 == [row1 EXCEPT !.language_code = language]
           row3 == [row2 EXCEPT !.is_admin = promoted]
<1>1. u = target
  BY DEF SignIn, Ranked
<1>2. Exists(u) /\ rows[u] \in UserRow
  BY DEF SameAccount, Exists, Ranked, RankedRow
<1>3. rows'[u] = row3
  BY <1>1, <1>2 DEF SignIn, SyncProfile, Ranked
<1>4. promoted \in BOOLEAN
  BY DEF ShouldBeAdmin
<1> HIDE DEF promoted
<1>5. /\ rows'[u].is_active = rows[u].is_active
      /\ rows'[u].is_admin = promoted
      /\ rows'[u].username = name
  BY <1>2, <1>3, <1>4 DEF UserRow
<1>6. c = "is_admin" /\ promoted # rows[u].is_admin
  BY <1>5
<1>7. rows[u].is_admin \in BOOLEAN
  BY <1>2 DEF UserRow
<1>8. promoted /\ name \in AdminUsernames
  BY <1>6, <1>7 DEF promoted, ShouldBeAdmin
<1>9. SignsIn(r, u)
  <2>1. PICK id : call' = [call EXCEPT ![r] =
                      [do |-> "login", by |-> target, by_id |-> id, target |-> target]]
    BY DEF SignIn
  <2>2. pc[r] = "idle" /\ pc' = [pc EXCEPT ![r] = "signed_in"]
    BY DEF SignIn, Goto
  <2> QED
    BY <1>1, <2>1, <2>2 DEF SignsIn, Ranked
<1> QED
  BY <1>5, <1>6, <1>8, <1>9

(* A whole-row save touches its own account, and writes what its request has *)
(* read, what it records, or what the form says.                             *)
LEMMA SaveAllAccounted ==
    ASSUME Ranked, NEW r \in Requests, pc[r] = "opened", call[r].do \in WholeRow,
           NEW instance, instance.id = copy[r].id,
           SaveAll(r, instance), Answer(r, "done"),
           NEW u \in Users, NEW c \in {"is_active", "is_admin"},
           \/ call[r].do = "form"
           \/ instance[c] = copy[r][c]
           \/ \E entry \in Appended(r) :
                 entry.target = call[r].target /\ c \in DOMAIN entry.changes
    PROVE  ChangeAccounted(u, c)
<1> SUFFICES ASSUME SameAccount(u), rows'[u][c] # rows[u][c]
             PROVE  \/ \E entry \in Appended(r) :
                          entry.target = u /\ c \in DOMAIN entry.changes
                    \/ /\ CarriesOut(r, u)
                       /\ \/ call[r].do = "form"
                          \/ copy[r].id = rows[u].id /\ rows'[u][c] = copy[r][c]
  BY DEF ChangeAccounted
<1>1. rows' = [rows EXCEPT ![call[r].target] = instance]
      /\ (Exists(call[r].target) => rows[call[r].target].id = instance.id)
  BY DEF SaveAll
<1>2. u = call[r].target /\ rows'[u] = instance
  BY <1>1 DEF Ranked
<1>3. pc'[r] = "done"
  BY DEF Answer, Goto, Ranked
<1>4. CarriesOut(r, u) /\ copy[r].id = rows[u].id
  BY <1>1, <1>2, <1>3 DEF CarriesOut, SameAccount
<1> QED
  BY <1>2, <1>4

LEMMA SaveProfileAccounted ==
    ASSUME Ranked, NEW r \in Requests, NEW language \in Languages,
           SaveProfile(r, language),
           NEW u \in Users, NEW c \in {"is_active", "is_admin"}
    PROVE  ChangeAccounted(u, c)
<1> DEFINE instance == [copy[r] EXCEPT !.language_code = language]
<1>1. pc[r] = "opened" /\ call[r].do \in WholeRow /\ copy[r] \in UserRow
  BY DEF SaveProfile, WholeRow, Ranked, RankedRow, OpenStates
<1>2. instance.id = copy[r].id /\ instance[c] = copy[r][c]
  BY <1>1 DEF UserRow
<1>3. SaveAll(r, instance) /\ Answer(r, "done")
  BY DEF SaveProfile
<1> HIDE DEF instance
<1> QED
  BY <1>1, <1>2, <1>3, SaveAllAccounted

LEMMA SaveFormAccounted ==
    ASSUME Ranked, NEW r \in Requests, NEW active, NEW admin, NEW name,
           SaveForm(r, active, admin, name),
           NEW u \in Users, NEW c \in {"is_active", "is_admin"}
    PROVE  ChangeAccounted(u, c)
<1> DEFINE instance == [copy[r] EXCEPT !.is_active = active, !.is_admin = admin,
                                       !.username = name]
<1>1. pc[r] = "opened" /\ call[r].do \in WholeRow /\ copy[r] \in UserRow
      /\ call[r].do = "form"
  BY DEF SaveForm, WholeRow, Ranked, RankedRow, OpenStates
<1>2. instance.id = copy[r].id
  BY <1>1 DEF UserRow
<1>3. SaveAll(r, instance) /\ Answer(r, "done")
  BY DEF SaveForm
<1> HIDE DEF instance
<1> QED
  BY <1>1, <1>2, <1>3, SaveAllAccounted

(* apply_edits records the columns it was asked to change. *)
LEMMA ApplyEditsAccounted ==
    ASSUME Ranked, Unrecorded, NEW r \in Requests, NEW points, NEW active,
           NEW admin, ApplyEdits(r, points, active, admin),
           NEW u \in Users, NEW c \in {"is_active", "is_admin"}
    PROVE  ChangeAccounted(u, c)
<1> DEFINE edited == [copy[r] EXCEPT !.points = points, !.is_active = active,
                                     !.is_admin = admin]
           changed == {k \in {"points", "is_active", "is_admin"} :
                           edited[k] # copy[r][k]}
           instance == IF "points" \in changed THEN WithPoints(edited, points)
                                               ELSE edited
           entry == [admin |-> call[r].by, action |-> "edit",
                     target |-> call[r].target,
                     changes |-> [k \in changed |->
                                     [from |-> copy[r][k], to |-> instance[k]]]]
<1>1. pc[r] = "opened" /\ call[r].do \in WholeRow /\ copy[r] \in UserRow
  BY DEF ApplyEdits, WholeRow, Ranked, RankedRow, OpenStates
<1>2. CASE UNCHANGED rows
  BY <1>2 DEF ChangeAccounted
<1>3. CASE ~ UNCHANGED rows
  <2>1. /\ SaveAll(r, instance) /\ Answer(r, "done")
        /\ RecordAction(r, "edit", changed, instance)
    BY <1>3 DEF ApplyEdits
  <2>2. instance.id = copy[r].id /\ instance[c] = edited[c]
    BY <1>1 DEF WithPoints, UserRow
  <2>3. audit' = [audit EXCEPT ![r] = {entry}] /\ audit[r] = {}
    BY <1>1, <2>1 DEF RecordAction, Unrecorded
  <2>4. entry.target = call[r].target /\ DOMAIN entry.changes = changed
    OBVIOUS
  <2>5. c \in changed <=> edited[c] # copy[r][c]
    OBVIOUS
  <2> HIDE DEF edited, changed, instance, entry
  <2>6. entry \in Appended(r)
    BY <2>3 DEF Appended, Unrecorded
  <2>7. \/ instance[c] = copy[r][c]
        \/ \E e \in Appended(r) :
              e.target = call[r].target /\ c \in DOMAIN e.changes
    BY <2>2, <2>4, <2>5, <2>6
  <2> QED
    BY <1>1, <2>1, <2>2, <2>7, SaveAllAccounted
<1> QED
  BY <1>2, <1>3

LEMMA AdministerAccounted ==
    ASSUME Ranked, Unrecorded, NEW r \in Requests, pc[r] # "idle",
           copy[r] # NoRow, Administer(r),
           NEW u \in Users, NEW c \in {"is_active", "is_admin"}
    PROVE  ChangeAccounted(u, c)
<1>1. ASSUME NEW points \in Totals, SetPoints(r, points)
      PROVE  ChangeAccounted(u, c)
  BY <1>1, ServiceAccounted DEF SetPoints
<1>2. ASSUME NEW delta \in Deltas, AdjustPoints(r, delta)
      PROVE  ChangeAccounted(u, c)
  BY <1>2, ServiceAccounted DEF AdjustPoints
<1>3. ASSUME ResetPoints(r) PROVE ChangeAccounted(u, c)
  BY <1>3, ServiceAccounted DEF ResetPoints
<1>4. ASSUME NEW field \in {"streak", "completed_tests"}, ResetCounter(r, field)
      PROVE  ChangeAccounted(u, c)
  BY <1>4, ServiceAccounted DEF ResetCounter
<1>5. ASSUME SetActive(r) \/ SetAdmin(r) PROVE ChangeAccounted(u, c)
  BY <1>5, ServiceAccounted DEF SetActive, SetAdmin
<1>6. ASSUME NEW points, NEW active, NEW admin, ApplyEdits(r, points, active, admin)
      PROVE  ChangeAccounted(u, c)
  BY <1>6, ApplyEditsAccounted
<1>7. ASSUME RecordDelete(r) PROVE ChangeAccounted(u, c)
  BY <1>7 DEF RecordDelete, ChangeAccounted
<1>8. ASSUME Deletion(r) PROVE ChangeAccounted(u, c)
  <2>1. call[r].target \in Users
    BY <1>8 DEF Deletion, DeleteRow, RemoveRow, Ranked, OpenStates, Call
  <2>2. rows'[u] = NoRow \/ rows'[u] = rows[u]
    BY <1>8, <2>1 DEF Deletion, DeleteRow, RemoveRow, Delete, Ranked
  <2> QED
    BY <2>2 DEF ChangeAccounted, SameAccount
<1> QED
  BY <1>1, <1>2, <1>3, <1>4, <1>5, <1>6, <1>7, <1>8 DEF Administer, Deletion

(* A request that has its answer may have recorded something, or nothing. *)
LEMMA AnsweredUnrecorded ==
    ASSUME Ranked, Unrecorded, NEW r \in Requests,
           NEW label \in {"done", "refused"}, Answer(r, label),
           \/ UNCHANGED audit
           \/ \E entries : audit' = [audit EXCEPT ![r] = entries]
    PROVE  Unrecorded'
<1>1. pc' = [pc EXCEPT ![r] = label] /\ call' = call
  BY DEF Answer, Goto
<1>2. audit' = [q \in Requests |-> audit'[q]]
      /\ \A q \in Requests : q # r => audit'[q] = audit[q]
  BY DEF Unrecorded
<1>3. \A q \in Requests : q # r => pc'[q] = pc[q]
  BY <1>1 DEF Ranked
<1>4. pc'[r] \in {"done", "refused"}
  BY <1>1 DEF Ranked
<1> QED
  BY <1>1, <1>2, <1>3, <1>4 DEF Unrecorded, OpenStates

LEMMA OpenedUnrecorded ==
    ASSUME Ranked, Unrecorded, NEW r \in Requests, pc[r] = "idle",
           NEW label \in {"opened", "signed_in"},
           NEW entry, entry.do \in Endpoints, UNCHANGED audit,
           pc' = [pc EXCEPT ![r] = label], call' = [call EXCEPT ![r] = entry]
    PROVE  Unrecorded'
<1>1. ASSUME NEW q \in Requests
      PROVE  /\ pc'[q] \in {"idle", "opened", "signed_in"} => audit'[q] = {}
             /\ pc'[q] \in OpenStates => call'[q].do \in Endpoints
  BY DEF Ranked, Unrecorded, OpenStates
<1> QED
  BY <1>1 DEF Unrecorded

LEMMA AdministerUnrecorded ==
    ASSUME Ranked, Unrecorded, NEW r \in Requests, Administer(r)
    PROVE  Unrecorded'
<1>1. ASSUME NEW do, NEW instance, NEW recorded, NEW saved,
             Service(r, do, instance, recorded, saved)
      PROVE  Unrecorded'
  BY <1>1, AnsweredUnrecorded DEF Service, RecordAction
<1>2. ASSUME NEW points, NEW active, NEW admin, ApplyEdits(r, points, active, admin)
      PROVE  Unrecorded'
  <2>1. Answer(r, "done")
    BY <1>2 DEF ApplyEdits
  <2>2. \/ UNCHANGED audit
        \/ \E entries : audit' = [audit EXCEPT ![r] = entries]
    BY <1>2 DEF ApplyEdits, RecordAction
  <2> QED
    BY <2>1, <2>2, AnsweredUnrecorded
<1>3. ASSUME RecordDelete(r) PROVE Unrecorded'
  <2>1. pc' = [pc EXCEPT ![r] = "recorded"] /\ call' = call /\ pc[r] = "opened"
        /\ \E entries : audit' = [audit EXCEPT ![r] = entries]
    BY <1>3 DEF RecordDelete, RecordAction, Goto
  <2>2. audit' = [q \in Requests |-> audit'[q]]
        /\ \A q \in Requests : q # r => audit'[q] = audit[q]
    BY <2>1 DEF Unrecorded
  <2>3. ASSUME NEW q \in Requests
        PROVE  /\ pc'[q] \in {"idle", "opened", "signed_in"} => audit'[q] = {}
               /\ pc'[q] \in OpenStates => call'[q].do \in Endpoints
    BY <2>1, <2>2 DEF Ranked, Unrecorded, OpenStates
  <2> QED
    BY <2>2, <2>3 DEF Unrecorded
<1>4. ASSUME Deletion(r) PROVE Unrecorded'
  <2>1. CASE UNCHANGED audit
    BY <1>4, <2>1, AnsweredUnrecorded DEF Deletion, DeleteRow, RemoveRow
  <2>2. CASE ~UNCHANGED audit
    <3>1. Answer(r, "done")
      BY <1>4 DEF Deletion, DeleteRow, RemoveRow
    <3>2. audit' = [q \in Requests |->
              {[e EXCEPT !.admin = IF e.admin = call[r].target THEN Nobody
                                                             ELSE e.admin] :
                  e \in audit[q]}]
      BY <1>4, <2>2 DEF Deletion, DeleteRow, RemoveRow, Delete
    <3>3. \A q \in Requests : audit[q] = {} => audit'[q] = {}
      BY <3>2
    <3>4. audit' = [q \in Requests |-> audit'[q]]
      BY <3>2
    <3>5. pc' = [pc EXCEPT ![r] = "done"] /\ call' = call
      BY <3>1 DEF Answer, Goto
    <3> QED
      BY <3>3, <3>4, <3>5 DEF Ranked, Unrecorded, OpenStates
  <2> QED
    BY <2>1, <2>2
<1> QED
  BY <1>1, <1>2, <1>3, <1>4
     DEF Administer, SetPoints, AdjustPoints, ResetPoints, ResetCounter,
         SetActive, SetAdmin, Deletion

LEMMA UnrecordedStep == Ranked /\ Unrecorded /\ [Next]_vars => Unrecorded'
<1> SUFFICES ASSUME Ranked, Unrecorded, [Next]_vars PROVE Unrecorded'
  OBVIOUS
<1>1. CASE UNCHANGED vars
  BY <1>1 DEF vars, Unrecorded
<1>2. ASSUME NEW r \in Requests, Arrive(r) PROVE Unrecorded'
  <2>1. ASSUME NEW do, NEW by, NEW target, Open(r, do, by, target)
        PROVE  Unrecorded'
    BY <2>1, OpenedUnrecorded DEF Open, Goto
  <2>2. ASSUME NEW u, NEW name, NEW language, SignIn(r, u, name, language)
        PROVE  Unrecorded'
    <3>1. PICK id : call' = [call EXCEPT ![r] =
                        [do |-> "login", by |-> u, by_id |-> id, target |-> u]]
      BY <2>2 DEF SignIn
    <3> DEFINE entry == [do |-> "login", by |-> u, by_id |-> id, target |-> u]
    <3>2. entry.do \in Endpoints /\ UNCHANGED audit /\ pc[r] = "idle"
          /\ pc' = [pc EXCEPT ![r] = "signed_in"]
      BY <2>2 DEF SignIn, Goto
    <3> HIDE DEF entry
    <3> QED
      BY <3>1, <3>2, OpenedUnrecorded DEF entry
  <2> QED
    BY <1>2, <2>1, <2>2 DEF Arrive, OpenOwn, OpenOther
<1>3. ASSUME NEW r \in Requests, Step(r) PROVE Unrecorded'
  BY <1>3, AnsweredUnrecorded, AdministerUnrecorded
     DEF Step, Award, SaveProfile, SaveForm, StampLogin, Fail
<1>4. CASE Finished
  BY <1>1, <1>4 DEF Finished
<1> QED
  BY <1>1, <1>2, <1>3, <1>4 DEF Next

(* Whoever writes accounts, and from however old a copy, nobody is banned or   *)
(* readmitted, promoted or demoted but by a recorded action, a listed login,  *)
(* or the form; a stale whole-row save can only put back what it has read.    *)
THEOREM ModerationAlwaysHolds == Spec => ModerationHolds
<1>1. Ranked /\ Unrecorded /\ [Next]_vars =>
        [\A u \in Users, c \in {"is_active", "is_admin"} :
            ChangeAccounted(u, c)]_vars
  <2> SUFFICES ASSUME Ranked, Unrecorded, Next,
                      NEW u \in Users, NEW c \in {"is_active", "is_admin"}
               PROVE  ChangeAccounted(u, c)
    OBVIOUS
  <2>1. CASE UNCHANGED rows
    BY <2>1 DEF ChangeAccounted
  <2>2. ASSUME NEW r \in Requests, Arrive(r) PROVE ChangeAccounted(u, c)
    BY <2>1, <2>2, SignInAccounted DEF Arrive, OpenOwn, OpenOther, Open
  <2>3. ASSUME NEW r \in Requests, Step(r) PROVE ChangeAccounted(u, c)
    <3>1. CASE Fail(r)
      BY <2>1, <3>1 DEF Fail
    <3> QED
      BY <2>3, <3>1, AwardAccounted, SaveProfileAccounted, SaveFormAccounted,
         StampAccounted, AdministerAccounted DEF Step
  <2> QED
    BY <2>1, <2>2, <2>3 DEF Next, Finished, vars
<1>2. Init => Unrecorded
  BY DEF Init, Unrecorded, OpenStates
<1> QED
  BY <1>1, <1>2, InitRanked, RankedStep, UnrecordedStep, PTL
     DEF Spec, ModerationHolds, ChangeAccounted
-----------------------------------------------------------------------------
(* Accounts that come and go *)

(* No account appears, vanishes or becomes another one. *)
Kept == \A u \in Users : rows'[u] = rows[u] \/ SameAccount(u)

(* A request of one of the whole-row endpoints saves the row it has read. *)
WholeSave(r) ==
    /\ pc[r] = "opened" /\ pc'[r] = "done"
    /\ call[r].do \in WholeRow /\ call[r].target \in Users
    /\ \E row \in UserRow :
          /\ rows' = [rows EXCEPT ![call[r].target] = row]
          /\ row.id = copy[r].id
          /\ Exists(call[r].target) => rows[call[r].target].id = row.id
          /\ row.completed_tests = copy[r].completed_tests
          /\ call[r].do # "edit" => row.points = copy[r].points

LEMMA SaveColumnsKept ==
    ASSUME Ranked, NEW r \in Requests, pc[r] \in OpenStates, NEW columns,
           "id" \notin columns, NEW instance \in UserRow,
           SaveColumns(r, instance, columns)
    PROVE  Kept
<1> DEFINE target == call[r].target
           new == Overwrite(rows[target], instance, columns)
<1>1. target \in Users /\ Exists(target) /\ rows[target] \in UserRow
  BY DEF SaveColumns, StillThere, Exists, Ranked, RankedRow, Call
<1>2. new \in UserRow
  BY <1>1 DEF Overwrite, UserRow, Column
<1>3. new.id = rows[target].id
  BY DEF Overwrite, Column
<1>4. rows' = [rows EXCEPT ![target] = new]
  BY DEF SaveColumns
<1> HIDE DEF new, target
<1> QED
  BY <1>1, <1>2, <1>3, <1>4, NoRowAssumption DEF Kept, SameAccount, Ranked

LEMMA SaveAllStored ==
    ASSUME Ranked, NEW r \in Requests, pc[r] = "opened", call[r].do \in WholeRow,
           NEW instance \in UserRow, SaveAll(r, instance), Answer(r, "done"),
           instance.id = copy[r].id,
           instance.completed_tests = copy[r].completed_tests,
           call[r].do # "edit" => instance.points = copy[r].points
    PROVE  WholeSave(r)
<1>1. call[r].target \in Users
  BY DEF Ranked, Call, OpenStates
<1>2. pc'[r] = "done"
  BY DEF Answer, Goto, Ranked
<1> QED
  BY <1>1, <1>2 DEF SaveAll, WholeSave

LEMMA ServiceKept ==
    ASSUME Ranked, NEW r \in Requests, NEW do, NEW recorded, NEW saved,
           "id" \notin saved,
           NEW instance, copy[r] \in UserRow => instance \in UserRow,
           Service(r, do, instance, recorded, saved)
    PROVE  Kept
<1>1. pc[r] \in OpenStates /\ copy[r] \in UserRow
  BY DEF Service, Ranked, RankedRow, OpenStates
<1> QED
  BY <1>1, SaveColumnsKept DEF Service

LEMMA ApplyEditsStored ==
    ASSUME Ranked, NEW r \in Requests, NEW points \in Totals \cup {copy[r].points},
           NEW active \in BOOLEAN, NEW admin \in BOOLEAN,
           ApplyEdits(r, points, active, admin)
    PROVE  Kept \/ WholeSave(r)
<1> DEFINE row1 == [copy[r] EXCEPT !.points = points]
           row2 == [row1 EXCEPT !.is_active = active]
           edited == [row2 EXCEPT !.is_admin = admin]
           changed == {c \in {"points", "is_active", "is_admin"} :
                           edited[c] # copy[r][c]}
           instance == IF "points" \in changed THEN WithPoints(edited, points)
                                               ELSE edited
           Same(row) == /\ row.id = copy[r].id
                        /\ row.completed_tests = copy[r].completed_tests
<1>1. /\ pc[r] = "opened" /\ copy[r] \in UserRow
      /\ call[r].do = "edit" /\ call[r].do \in WholeRow
  BY DEF ApplyEdits, WholeRow, Ranked, RankedRow, OpenStates
<1>2. points \in Nat
  BY <1>1, AccountsAssumption DEF UserRow
<1>3. \/ changed = {} /\ UNCHANGED rows
      \/ SaveAll(r, instance) /\ Answer(r, "done")
  BY DEF ApplyEdits
<1>4. row1 \in UserRow /\ Same(row1)
  BY <1>1, <1>2 DEF UserRow
<1> HIDE DEF row1
<1>5. row2 \in UserRow /\ Same(row2)
  BY <1>4 DEF UserRow
<1> HIDE DEF row2
<1>6. edited \in UserRow /\ Same(edited)
  BY <1>5 DEF UserRow
<1> HIDE DEF edited, changed
<1>7. instance \in UserRow
  BY <1>2, <1>6, WithPointsRanked DEF RankedRow
<1>8. Same(instance)
  BY <1>6 DEF WithPoints, UserRow
<1> HIDE DEF instance
<1>9. CASE UNCHANGED rows
  BY <1>9 DEF Kept
<1>10. CASE SaveAll(r, instance) /\ Answer(r, "done")
  BY <1>1, <1>7, <1>8, <1>10, SaveAllStored
<1> QED
  BY <1>3, <1>9, <1>10

LEMMA AdministerStored ==
    ASSUME Ranked, NEW r \in Requests, Administer(r)
    PROVE  Kept \/ Deletion(r) \/ WholeSave(r)
<1>1. ASSUME NEW points \in Totals, SetPoints(r, points) PROVE Kept
  <2>1. AtLeastZero(points) \in Nat
    BY AccountsAssumption DEF AtLeastZero
  <2>2. copy[r] \in UserRow => WithPoints(copy[r], AtLeastZero(points)) \in UserRow
    BY <2>1, WithPointsRanked DEF RankedRow
  <2> QED
    BY <1>1, <2>2, ServiceKept DEF SetPoints
<1>2. ASSUME NEW delta \in Deltas, AdjustPoints(r, delta) PROVE Kept
  <2>1. copy[r] \in UserRow => AtLeastZero(copy[r].points + delta) \in Nat
    BY AccountsAssumption DEF AtLeastZero, UserRow
  <2>2. copy[r] \in UserRow =>
          WithPoints(copy[r], AtLeastZero(copy[r].points + delta)) \in UserRow
    BY <2>1, WithPointsRanked DEF RankedRow
  <2> QED
    BY <1>2, <2>2, ServiceKept DEF AdjustPoints
<1>3. ASSUME ResetPoints(r) PROVE Kept
  <2>1. copy[r] \in UserRow => WithPoints(copy[r], 0) \in UserRow
    BY WithPointsRanked DEF RankedRow
  <2> QED
    BY <1>3, <2>1, ServiceKept DEF ResetPoints
<1>4. ASSUME NEW field \in {"streak", "completed_tests"}, ResetCounter(r, field)
      PROVE  Kept
  <2>1. copy[r] \in UserRow => [copy[r] EXCEPT ![field] = 0] \in UserRow
    BY DEF UserRow
  <2> QED
    BY <1>4, <2>1, ServiceKept DEF ResetCounter
<1>5. ASSUME SetActive(r) \/ SetAdmin(r) PROVE Kept
  <2>1. ASSUME copy[r] \in UserRow, NEW flag \in BOOLEAN
        PROVE  /\ [copy[r] EXCEPT !.is_active = flag] \in UserRow
               /\ [copy[r] EXCEPT !.is_admin = flag] \in UserRow
    BY <2>1 DEF UserRow
  <2> QED
    BY <1>5, <2>1, ServiceKept DEF SetActive, SetAdmin
<1>6. ASSUME RecordDelete(r) PROVE Kept
  BY <1>6 DEF RecordDelete, Kept
<1> QED
  BY <1>1, <1>2, <1>3, <1>4, <1>5, <1>6, ApplyEditsStored DEF Administer, Deletion

(* What a step of a request may do to the set of accounts. *)
LEMMA StepStored ==
    ASSUME Ranked, NEW r \in Requests, Step(r)
    PROVE  Kept \/ Deletion(r) \/ WholeSave(r)
<1>1. ASSUME NEW earned \in Rewards, Award(r, earned) PROVE Kept
  <2> DEFINE target == call[r].target
             new == ApplyOfficialResults(rows[target], earned, Today)
  <2>1. target \in Users
    BY <1>1 DEF Award, Ranked, Call, OpenStates
  <2>2. Exists(target) /\ rows[target] \in RankedRow
    BY <1>1, <2>1 DEF Award, StillThere, Exists, Ranked
  <2>3. new \in UserRow
    BY <2>2, AwardedRow, AccountsAssumption DEF RankedRow
  <2>4. new.id = rows[target].id
    BY <2>2 DEF ApplyOfficialResults, RankedRow, UserRow
  <2>5. rows' = [rows EXCEPT ![target] = new]
    BY <1>1 DEF Award
  <2> HIDE DEF new, target
  <2> QED
    BY <2>1, <2>2, <2>3, <2>4, <2>5, NoRowAssumption DEF Kept, SameAccount, Ranked
<1>2. ASSUME NEW language \in Languages, SaveProfile(r, language)
      PROVE  WholeSave(r)
  <2> DEFINE instance == [copy[r] EXCEPT !.language_code = language]
  <2>1. pc[r] = "opened" /\ call[r].do \in WholeRow /\ copy[r] \in UserRow
    BY <1>2 DEF SaveProfile, WholeRow, Ranked, RankedRow, OpenStates
  <2>2. /\ instance \in UserRow /\ instance.id = copy[r].id
        /\ instance.completed_tests = copy[r].completed_tests
        /\ instance.points = copy[r].points
    BY <2>1 DEF UserRow
  <2>3. SaveAll(r, instance) /\ Answer(r, "done")
    BY <1>2 DEF SaveProfile
  <2> HIDE DEF instance
  <2> QED
    BY <2>1, <2>2, <2>3, SaveAllStored
<1>3. ASSUME NEW active \in BOOLEAN, NEW admin \in BOOLEAN, NEW name \in Names,
             SaveForm(r, active, admin, name)
      PROVE  WholeSave(r)
  <2> DEFINE instance == [copy[r] EXCEPT !.is_active = active, !.is_admin = admin,
                                         !.username = name]
  <2>1. pc[r] = "opened" /\ call[r].do \in WholeRow /\ copy[r] \in UserRow
    BY <1>3 DEF SaveForm, WholeRow, Ranked, RankedRow, OpenStates
  <2>2. instance \in UserRow
    BY <2>1 DEF UserRow
  <2>3. /\ instance.id = copy[r].id
        /\ instance.completed_tests = copy[r].completed_tests
        /\ instance.points = copy[r].points
    BY <2>1 DEF UserRow
  <2>4. SaveAll(r, instance) /\ Answer(r, "done")
    BY <1>3 DEF SaveForm
  <2> HIDE DEF instance
  <2> QED
    BY <2>1, <2>2, <2>3, <2>4, SaveAllStored
<1>4. ASSUME StampLogin(r) PROVE Kept
  <2>1. pc[r] \in OpenStates /\ copy[r] \in UserRow
    BY <1>4 DEF StampLogin, Ranked, RankedRow, OpenStates
  <2>2. [copy[r] EXCEPT !.last_login = r] \in UserRow
    BY <2>1 DEF UserRow
  <2> QED
    BY <1>4, <2>1, <2>2, SaveColumnsKept DEF StampLogin
<1>5. ASSUME Fail(r) PROVE Kept
  BY <1>5 DEF Fail, Kept
<1> QED
  BY <1>1, <1>2, <1>3, <1>4, <1>5, AdministerStored DEF Step

(* Signing in leaves every account there is, and begins a new one afresh. *)
LEMMA SignInStored ==
    ASSUME Ranked, NEW r \in Requests, NEW target \in Users, NEW name \in Names,
           NEW language \in Languages, SignIn(r, target, name, language)
    PROVE  \A u \in Users : rows'[u] # rows[u] =>
              /\ SignsIn(r, u)
              /\ \/ SameAccount(u)
                 \/ /\ ~ Exists(u) /\ rows'[u] # NoRow /\ rows'[u].id = r
                    /\ rows'[u].points = 0 /\ rows'[u].completed_tests = 0
<1> DEFINE new == IF Exists(target) THEN SyncProfile(rows[target], name, language)
                  ELSE NewRow(r, ShouldBeAdmin(name), name, language)
<1>1. rows' = [rows EXCEPT ![target] = new]
  BY DEF SignIn
<1>2. SignsIn(r, target)
  <2>1. PICK id : call' = [call EXCEPT ![r] =
                      [do |-> "login", by |-> target, by_id |-> id, target |-> target]]
    BY DEF SignIn
  <2>2. pc[r] = "idle" /\ pc' = [pc EXCEPT ![r] = "signed_in"]
    BY DEF SignIn, Goto
  <2> QED
    BY <2>1, <2>2 DEF SignsIn, Ranked
<1>3. ASSUME Exists(target) PROVE new \in UserRow /\ new.id = rows[target].id
  <2>1. rows[target] \in UserRow
    BY <1>3 DEF Ranked, RankedRow, Exists
  <2>2. (rows[target].is_admin \/ ShouldBeAdmin(name)) \in BOOLEAN
    OBVIOUS
  <2> QED
    BY <1>3, <2>1, <2>2 DEF SyncProfile, UserRow
<1>4. ASSUME ~ Exists(target)
      PROVE  /\ new \in UserRow /\ new.id = r
             /\ new.points = 0 /\ new.completed_tests = 0
  <2>1. new = NewRow(r, ShouldBeAdmin(name), name, language)
    BY <1>4
  <2>2. ShouldBeAdmin(name) \in BOOLEAN
    BY DEF ShouldBeAdmin
  <2> HIDE DEF new
  <2>3. new \in UserRow
    BY <2>1, <2>2, NewRowRanked DEF RankedRow
  <2> QED
    BY <2>1, <2>3 DEF NewRow
<1> HIDE DEF new
<1> QED
  BY <1>1, <1>2, <1>3, <1>4, NoRowAssumption DEF SameAccount, Exists, Ranked

(* A deletion was recorded before it is carried out. *)
Announced ==
    \A r \in Requests : pc[r] = "recorded" =>
        \E entry \in audit[r] : entry.action = "delete" /\ entry.target = call[r].target

LEMMA AnnouncedByOthers ==
    ASSUME Ranked, Unrecorded, Announced, NEW r \in Requests,
           NEW label, label # "recorded", pc' = [pc EXCEPT ![r] = label],
           \A q \in Requests : q # r => call'[q] = call[q],
           \/ UNCHANGED audit
           \/ \E entries : audit' = [audit EXCEPT ![r] = entries]
    PROVE  Announced'
<1>1. \A q \in Requests : q # r => audit'[q] = audit[q] /\ pc'[q] = pc[q]
  BY DEF Unrecorded, Ranked
<1>2. pc'[r] = label
  BY DEF Ranked
<1> QED
  BY <1>1, <1>2 DEF Announced

LEMMA DeletionAnnounced ==
    ASSUME Ranked, Unrecorded, Announced, NEW r \in Requests,
           RecordDelete(r) \/ Deletion(r)
    PROVE  Announced'
<1>1. CASE RecordDelete(r)
  <2> DEFINE entry == [admin |-> call[r].by, action |-> "delete",
                       target |-> call[r].target,
                       changes |-> [c \in {} |->
                                       [from |-> copy[r][c], to |-> copy[r][c]]]]
  <2>1. audit' = [audit EXCEPT ![r] = {entry}] /\ UNCHANGED call
        /\ pc' = [pc EXCEPT ![r] = "recorded"]
    BY <1>1 DEF RecordDelete, RecordAction, Goto
  <2>2. entry.action = "delete" /\ entry.target = call[r].target
    OBVIOUS
  <2> HIDE DEF entry
  <2>3. audit'[r] = {entry}
        /\ \A q \in Requests : q # r => audit'[q] = audit[q] /\ pc'[q] = pc[q]
    BY <2>1 DEF Unrecorded, Ranked
  <2> QED
    BY <2>1, <2>2, <2>3 DEF Announced
<1>2. CASE Deletion(r)
  <2>1. pc' = [pc EXCEPT ![r] = "done"] /\ UNCHANGED call
    BY <1>2 DEF Deletion, DeleteRow, RemoveRow, Answer, Goto
  <2>2. CASE UNCHANGED audit
    BY <2>1, <2>2, AnnouncedByOthers
  <2>3. CASE ~ UNCHANGED audit
    <3> DEFINE nameless(e) == [e EXCEPT !.admin = IF e.admin = call[r].target
                                                  THEN Nobody ELSE e.admin]
    <3>1. audit' = [q \in Requests |-> {nameless(e) : e \in audit[q]}]
      BY <1>2, <2>3 DEF Deletion, DeleteRow, RemoveRow, Delete
    <3>2. \A e : nameless(e).action = e.action /\ nameless(e).target = e.target
      OBVIOUS
    <3> HIDE DEF nameless
    <3>3. ASSUME NEW q \in Requests, pc'[q] = "recorded"
          PROVE  \E entry \in audit'[q] : /\ entry.action = "delete"
                                          /\ entry.target = call'[q].target
      <4>1. pc[q] = "recorded" /\ call'[q] = call[q]
        BY <2>1, <3>3 DEF Ranked
      <4>2. PICK e \in audit[q] : e.action = "delete" /\ e.target = call[q].target
        BY <4>1 DEF Announced
      <4>3. nameless(e) \in audit'[q]
        BY <3>1, <4>2
      <4> QED
        BY <3>2, <4>1, <4>2, <4>3
    <3> QED
      BY <3>3 DEF Announced
  <2> QED
    BY <2>2, <2>3
<1> QED
  BY <1>1, <1>2

LEMMA AnnouncedStep == Ranked /\ Unrecorded /\ Announced /\ [Next]_vars => Announced'
<1> SUFFICES ASSUME Ranked, Unrecorded, Announced, [Next]_vars PROVE Announced'
  OBVIOUS
<1>1. CASE UNCHANGED vars
  BY <1>1 DEF vars, Announced
<1>2. ASSUME NEW r \in Requests, Arrive(r) PROVE Announced'
  <2>1. /\ pc' = [pc EXCEPT ![r] = "opened"] \/ pc' = [pc EXCEPT ![r] = "signed_in"]
        /\ UNCHANGED audit
        /\ \E entry : call' = [call EXCEPT ![r] = entry]
    BY <1>2 DEF Arrive, OpenOwn, OpenOther, Open, SignIn, Goto
  <2>2. \A q \in Requests : q # r => call'[q] = call[q]
    BY <2>1 DEF Ranked
  <2> QED
    BY <2>1, <2>2, AnnouncedByOthers
<1>3. ASSUME NEW r \in Requests, NEW label \in {"done", "refused"}, Answer(r, label),
             \/ UNCHANGED audit
             \/ \E entries : audit' = [audit EXCEPT ![r] = entries]
      PROVE  Announced'
  BY <1>3, AnnouncedByOthers DEF Answer, Goto
<1>4. ASSUME NEW r \in Requests, NEW do, NEW instance, NEW recorded, NEW saved,
             Service(r, do, instance, recorded, saved)
      PROVE  Announced'
  BY <1>3, <1>4 DEF Service, RecordAction
<1>5. ASSUME NEW r \in Requests, NEW points, NEW active, NEW admin,
             ApplyEdits(r, points, active, admin)
      PROVE  Announced'
  BY <1>3, <1>5 DEF ApplyEdits, RecordAction
<1>6. ASSUME NEW r \in Requests, Administer(r) PROVE Announced'
  BY <1>4, <1>5, <1>6, DeletionAnnounced
     DEF Administer, SetPoints, AdjustPoints, ResetPoints, ResetCounter,
         SetActive, SetAdmin, Deletion
<1>7. ASSUME NEW r \in Requests, Step(r) PROVE Announced'
  BY <1>3, <1>6, <1>7 DEF Step, Award, SaveProfile, SaveForm, StampLogin, Fail
<1>8. CASE Finished
  BY <1>1, <1>8 DEF Finished
<1> QED
  BY <1>1, <1>2, <1>7, <1>8 DEF Next

(* What a deletion removes is the row its request has a copy of. *)
LEMMA DeletionChosen ==
    ASSUME Ranked, NEW r \in Requests, Deletion(r), NEW u \in Users,
           rows'[u] # rows[u]
    PROVE  CarriesOut(r, u) /\ copy[r].id = rows[u].id /\ rows'[u] = NoRow
<1>1. call[r].target \in Users /\ pc[r] \in {"opened", "recorded"}
  BY DEF Deletion, DeleteRow, RemoveRow, Ranked, OpenStates, Call
<1>2. u = call[r].target /\ StillThere(r) /\ rows'[u] = NoRow
  BY <1>1 DEF Deletion, DeleteRow, RemoveRow, Delete, Ranked
<1>3. pc'[r] = "done"
  BY DEF Deletion, DeleteRow, RemoveRow, Answer, Goto, Ranked
<1> QED
  BY <1>1, <1>2, <1>3 DEF CarriesOut, StillThere

(* A step of another kind than a deletion removes no account. *)
LEMMA VanishedByDeletion ==
    ASSUME Ranked, Next, NEW u \in Users, Exists(u), rows'[u] = NoRow
    PROVE  \E r \in Requests : Deletion(r)
<1>1. ~ UNCHANGED rows /\ ~ Kept /\ ~ SameAccount(u)
  BY DEF Kept, SameAccount, Exists
<1>2. ASSUME NEW r \in Requests PROVE ~ Arrive(r)
  BY <1>1, SignInStored DEF Arrive, OpenOwn, OpenOther, Open, Exists
<1>3. PICK r \in Requests : Step(r)
  BY <1>1, <1>2 DEF Next, Finished, vars
<1>4. ~ WholeSave(r)
  BY NoRowAssumption DEF WholeSave, Ranked, Exists
<1> QED
  BY <1>1, <1>3, <1>4, StepStored

(* Whatever else is under way, an account disappears only at the hands of a   *)
(* request that looked up this very row, and either has recorded its deletion *)
(* or is one of the Django admin, which records none.                         *)
THEOREM OnlyTheChosenEverVanish == Spec => OnlyTheChosenVanish
<1>1. Ranked /\ Announced /\ [Next]_vars =>
        [\A u \in Users : Exists(u) /\ rows'[u] = NoRow =>
            \E r \in Requests :
                /\ CarriesOut(r, u) /\ copy[r].id = rows[u].id
                /\ \/ call[r].do = "remove"
                   \/ \E entry \in audit[r] :
                         entry.action = "delete" /\ entry.target = u]_vars
  <2> SUFFICES ASSUME Ranked, Announced, Next,
                      NEW u \in Users, Exists(u), rows'[u] = NoRow
               PROVE  \E r \in Requests :
                          /\ CarriesOut(r, u) /\ copy[r].id = rows[u].id
                          /\ \/ call[r].do = "remove"
                             \/ \E entry \in audit[r] :
                                   entry.action = "delete" /\ entry.target = u
    OBVIOUS
  <2>1. PICK r \in Requests : Deletion(r)
    BY VanishedByDeletion
  <2>2. CarriesOut(r, u) /\ copy[r].id = rows[u].id
    BY <2>1, DeletionChosen DEF Exists
  <2>3. \/ call[r].do = "remove"
        \/ \E entry \in audit[r] : entry.action = "delete" /\ entry.target = u
    BY <2>1, <2>2 DEF Deletion, DeleteRow, RemoveRow, Announced, CarriesOut
  <2> QED
    BY <2>2, <2>3
<1>2. Init => Unrecorded /\ Announced
  BY DEF Init, Unrecorded, Announced, OpenStates
<1> QED
  BY <1>1, <1>2, InitRanked, RankedStep, UnrecordedStep, AnnouncedStep, PTL
     DEF Spec, OnlyTheChosenVanish

(* An id that a row or a request refers to has been given away. *)
Known(id) == id \in Requests => pc[id] # "idle"

Registered ==
    /\ \A u \in Users : Exists(u) => Known(rows[u].id)
    /\ \A q \in Requests : copy[q] # NoRow =>
          Known(copy[q].id) /\ Known(call[q].by_id)

(* A request ends, or has recorded a deletion. *)
LEMMA StepAnswers ==
    ASSUME NEW r \in Requests, Step(r)
    PROVE  \/ Answer(r, "done") \/ Answer(r, "refused")
           \/ UNCHANGED <<copy, call, rows>> /\ Goto(r, "recorded")
<1>1. ASSUME Administer(r)
      PROVE  \/ Answer(r, "done")
             \/ UNCHANGED <<copy, call, rows>> /\ Goto(r, "recorded")
  BY <1>1 DEF Administer, SetPoints, AdjustPoints, ResetPoints, ResetCounter,
              SetActive, SetAdmin, Service, ApplyEdits, RecordDelete, DeleteRow,
              RemoveRow
<1> QED
  BY <1>1 DEF Step, Award, SaveProfile, SaveForm, StampLogin, Fail

LEMMA RegisteredStep == Ranked /\ Registered /\ [Next]_vars => Registered'
<1> SUFFICES ASSUME Ranked, Registered, [Next]_vars PROVE Registered'
  OBVIOUS
<1> DEFINE KnownThen(id) == id \in Requests => pc'[id] # "idle"
<1>1. CASE UNCHANGED vars
  BY <1>1 DEF vars, Registered, Known, Exists
<1>2. ASSUME NEW r \in Requests, NEW label, label # "idle",
             pc' = [pc EXCEPT ![r] = label]
      PROVE  KnownThen(r) /\ \A id : Known(id) => KnownThen(id)
  BY <1>2 DEF Known, Ranked
<1>3. ASSUME NEW r \in Requests, Arrive(r) PROVE Registered'
  <2>1. ASSUME NEW do, NEW by \in Users, NEW target \in Users,
               Exists(by), Exists(target), Open(r, do, by, target)
        PROVE  Registered'
    <3>1. /\ pc' = [pc EXCEPT ![r] = "opened"] /\ UNCHANGED rows
          /\ copy' = [copy EXCEPT ![r] = rows[target]]
          /\ call' = [call EXCEPT ![r] =
                 [do |-> do, by |-> by, by_id |-> rows[by].id, target |-> target]]
      BY <2>1 DEF Open, Goto
    <3>2. \A id : Known(id) => KnownThen(id)
      BY <1>2, <3>1
    <3>3. copy'[r].id = rows[target].id /\ call'[r].by_id = rows[by].id
          /\ \A q \in Requests : q # r => copy'[q] = copy[q] /\ call'[q] = call[q]
      BY <3>1 DEF Ranked
    <3> QED
      BY <2>1, <3>1, <3>2, <3>3 DEF Registered, Exists, Known
  <2>2. CASE \E u \in Users, name \in Names, language \in Languages :
                SignIn(r, u, name, language)
    <3>1. PICK u \in Users, name \in Names, language \in Languages :
             SignIn(r, u, name, language)
      BY <2>2
    <3>2. PICK row :
             /\ pc' = [pc EXCEPT ![r] = "signed_in"]
             /\ rows' = [rows EXCEPT ![u] = row]
             /\ copy' = [copy EXCEPT ![r] = row]
             /\ call' = [call EXCEPT ![r] =
                    [do |-> "login", by |-> u, by_id |-> row.id, target |-> u]]
      BY <3>1 DEF SignIn, Goto
    <3>3. KnownThen(r) /\ \A id : Known(id) => KnownThen(id)
      BY <1>2, <3>2
    <3>4. rows'[u] = row /\ copy'[r] = row /\ call'[r].by_id = row.id
          /\ \A q \in Requests : q # r => copy'[q] = copy[q] /\ call'[q] = call[q]
          /\ \A v \in Users : v # u => rows'[v] = rows[v]
      BY <3>2 DEF Ranked
    <3>5. rows'[u] # NoRow => KnownThen(rows'[u].id)
      BY <3>1, <3>3, SignInStored DEF SameAccount, Registered, Exists
    <3>6. \A v \in Users : Exists(v)' => KnownThen(rows'[v].id)
      BY <3>3, <3>4, <3>5 DEF Registered, Exists
    <3>7. \A q \in Requests : copy'[q] # NoRow =>
             KnownThen(copy'[q].id) /\ KnownThen(call'[q].by_id)
      BY <3>3, <3>4, <3>5 DEF Registered
    <3> QED
      BY <3>6, <3>7 DEF Registered, Known, Exists
  <2> QED
    BY <1>3, <2>1, <2>2 DEF Arrive, OpenOwn, OpenOther, IsAdminUser
<1>4. ASSUME NEW r \in Requests, Step(r) PROVE Registered'
  <2>1. PICK label \in {"done", "refused", "recorded"} :
           pc' = [pc EXCEPT ![r] = label]
    BY <1>4, StepAnswers DEF Answer, Goto
  <2>2. \A id : Known(id) => KnownThen(id)
    BY <1>2, <2>1
  <2>3. \A q \in Requests :
           call'[q] = call[q] /\ (copy'[q] # NoRow => copy'[q] = copy[q])
    BY <1>4, StepAnswers DEF Answer, Ranked
  <2>4. ASSUME NEW u \in Users, Exists(u)' PROVE KnownThen(rows'[u].id)
    <3>1. CASE Kept
      BY <2>2, <2>4, <3>1 DEF Kept, SameAccount, Registered, Exists
    <3>2. CASE Deletion(r)
      BY <2>2, <2>4, <3>2, DeletionChosen DEF Registered, Exists
    <3>3. CASE WholeSave(r)
      <4>1. copy[r] # NoRow
        BY <3>3, NoRowAssumption DEF WholeSave, Ranked, RankedRow, OpenStates
      <4>2. rows'[u] = rows[u] \/ rows'[u].id = copy[r].id
        BY <3>3 DEF WholeSave, Ranked
      <4> QED
        BY <2>2, <2>4, <4>1, <4>2 DEF Registered, Exists
    <3> QED
      BY <1>4, <3>1, <3>2, <3>3, StepStored
  <2> QED
    BY <2>2, <2>3, <2>4 DEF Registered, Known, Exists
<1>5. CASE Finished
  BY <1>1, <1>5 DEF Finished
<1> QED
  BY <1>1, <1>3, <1>4, <1>5 DEF Next

LEMMA InitRegistered == Init => Registered
<1> SUFFICES ASSUME Init PROVE Registered
  OBVIOUS
<1>1. \A u \in Users : rows[u].id = Founding
  BY DEF Init, NewRow
<1> QED
  BY <1>1, AccountsAssumption DEF Init, Registered, Known

(* Whoever writes accounts, and from however old a copy: one registration of  *)
(* a person never becomes another, and an account that appears is a new one,  *)
(* or the deleted one that a profile, an edit or the form had read.           *)
THEOREM RegistrationsAlwaysStayApart == Spec => RegistrationsStayApart
<1>1. Ranked /\ Registered /\ [Next]_vars =>
        [\A u \in Users : rows'[u] # NoRow =>
            IF Exists(u) THEN SameAccount(u) ELSE Fresh(u) \/ Restored(u)]_vars
  <2> SUFFICES ASSUME Ranked, Registered, Next,
                      NEW u \in Users, rows'[u] # NoRow
               PROVE  IF Exists(u) THEN SameAccount(u) ELSE Fresh(u) \/ Restored(u)
    OBVIOUS
  <2>1. CASE rows'[u] = rows[u]
    BY <2>1 DEF SameAccount, Exists
  <2>2. ASSUME NEW r \in Requests, Arrive(r), rows'[u] # rows[u]
        PROVE  SameAccount(u) \/ (~ Exists(u) /\ Fresh(u))
    <3>1. PICK target \in Users, name \in Names, language \in Languages :
             SignIn(r, target, name, language)
      BY <2>2 DEF Arrive, OpenOwn, OpenOther, Open
    <3>2. SignsIn(r, u)
      BY <2>2, <3>1, SignInStored
    <3>3. \A q \in Requests :
             copy[q] # NoRow => copy[q].id # r /\ call[q].by_id # r
      BY <3>2 DEF SignsIn, Registered, Known
    <3> QED
      BY <2>2, <3>1, <3>2, <3>3, SignInStored DEF Fresh
  <2>3. ASSUME NEW r \in Requests, Step(r), rows'[u] # rows[u]
        PROVE  SameAccount(u) \/ (~ Exists(u) /\ Restored(u))
    <3>1. CASE Kept
      BY <2>3, <3>1 DEF Kept
    <3>2. CASE Deletion(r)
      BY <2>3, <3>2, DeletionChosen
    <3>3. CASE WholeSave(r)
      <4>1. u = call[r].target
        BY <2>3, <3>3 DEF WholeSave, Ranked
      <4>2. /\ rows'[u].id = copy[r].id
            /\ Exists(u) => rows[u].id = rows'[u].id
            /\ rows'[u].completed_tests = copy[r].completed_tests
            /\ call[r].do # "edit" => rows'[u].points = copy[r].points
            /\ call[r].do \in WholeRow
        BY <3>3, <4>1 DEF WholeSave, Ranked
      <4>3. CarriesOut(r, u)
        BY <3>3, <4>1 DEF WholeSave, CarriesOut
      <4> QED
        BY <4>2, <4>3 DEF SameAccount, Restored
    <3> QED
      BY <2>3, <3>1, <3>2, <3>3, StepStored
  <2> QED
    BY <2>1, <2>2, <2>3 DEF Next, Finished, vars, SameAccount, Exists
<1> QED
  BY <1>1, InitRanked, InitRegistered, RankedStep, RegisteredStep, PTL
     DEF Spec, RegistrationsStayApart
-----------------------------------------------------------------------------
(* The types.  Those of rows, copies and calls are part of Ranked; what is     *)
(* left is the audit log, whose entries a deletion rewrites, and the welcomes. *)
EntryTyped(entry) ==
    /\ {"admin", "action", "target", "changes"} \subseteq DOMAIN entry
    /\ entry.admin \in Users \cup {Nobody}
    /\ entry.action \in ByAdmin
    /\ DOMAIN entry.changes \subseteq Column

Logged ==
    /\ \A r \in Requests : \A entry \in audit[r] : EntryTyped(entry)
    /\ welcomed \in [Users -> {0, 1}]

LEMMA RecordedEntry ==
    ASSUME Ranked, Unrecorded, Logged, NEW r \in Requests, pc[r] \in OpenStates,
           NEW action \in ByAdmin, NEW columns \in SUBSET Column, NEW instance,
           RecordAction(r, action, columns, instance)
    PROVE  \A q \in Requests : \A entry \in audit'[q] : EntryTyped(entry)
<1> DEFINE changes == [c \in columns |-> [from |-> copy[r][c], to |-> instance[c]]]
           new == [admin |-> call[r].by, action |-> action,
                   target |-> call[r].target, changes |-> changes]
<1>1. audit' = [audit EXCEPT ![r] = {new}]
  BY DEF RecordAction
<1>2. call[r].by \in Users
  BY DEF Ranked, Call
<1>3. DOMAIN changes \subseteq Column
  OBVIOUS
<1> HIDE DEF changes
<1>4. EntryTyped(new)
  BY <1>2, <1>3 DEF EntryTyped
<1> HIDE DEF new
<1>5. audit'[r] = {new} /\ \A q \in Requests : q # r => audit'[q] = audit[q]
  BY <1>1 DEF Unrecorded
<1> QED
  BY <1>4, <1>5 DEF Logged

LEMMA WelcomeTyped ==
    ASSUME Logged, NEW u \in Users, Welcome(u)
    PROVE  welcomed' \in [Users -> {0, 1}]
BY DEF Logged, Welcome

LEMMA ServiceLogged ==
    ASSUME Ranked, Unrecorded, Logged, NEW r \in Requests, NEW do \in ByAdmin,
           NEW instance, NEW recorded \in SUBSET Column, NEW saved,
           Service(r, do, instance, recorded, saved)
    PROVE  Logged'
<1>1. pc[r] \in OpenStates /\ RecordAction(r, do, recorded, instance)
      /\ UNCHANGED welcomed
  BY DEF Service, OpenStates, SaveColumns
<1> QED
  BY <1>1, RecordedEntry DEF Logged

LEMMA SaveAllLogged ==
    ASSUME Ranked, Logged, NEW r \in Requests, pc[r] \in OpenStates,
           NEW instance, SaveAll(r, instance)
    PROVE  welcomed' \in [Users -> {0, 1}]
<1>1. call[r].target \in Users
  BY DEF Ranked, Call
<1> QED
  BY <1>1, WelcomeTyped DEF SaveAll

LEMMA ApplyEditsLogged ==
    ASSUME Ranked, Unrecorded, Logged, NEW r \in Requests,
           NEW points, NEW active, NEW admin, ApplyEdits(r, points, active, admin)
    PROVE  Logged'
<1> DEFINE edited   == [copy[r] EXCEPT !.points = points, !.is_active = active,
                                       !.is_admin = admin]
           changed  == {c \in {"points", "is_active", "is_admin"} :
                            edited[c] # copy[r][c]}
           instance == IF "points" \in changed THEN WithPoints(edited, points)
                                               ELSE edited
<1>1. pc[r] \in OpenStates
  BY DEF ApplyEdits, OpenStates
<1>2. \/ UNCHANGED <<welcomed, audit>>
      \/ SaveAll(r, instance) /\ RecordAction(r, "edit", changed, instance)
  BY DEF ApplyEdits
<1>3. changed \in SUBSET Column
  BY DEF Column
<1>4. "edit" \in ByAdmin
  BY DEF ByAdmin, Endpoint
<1> HIDE DEF changed, instance
<1>5. CASE UNCHANGED <<welcomed, audit>>
  BY <1>5 DEF Logged
<1>6. CASE SaveAll(r, instance) /\ RecordAction(r, "edit", changed, instance)
  BY <1>1, <1>3, <1>4, <1>6, SaveAllLogged, RecordedEntry DEF Logged
<1> QED
  BY <1>2, <1>5, <1>6

LEMMA DeleteLogged ==
    ASSUME Ranked, Unrecorded, Logged, NEW r \in Requests,
           RecordDelete(r) \/ Deletion(r)
    PROVE  Logged'
<1>1. CASE RecordDelete(r)
  <2>1. /\ pc[r] \in OpenStates /\ UNCHANGED welcomed
        /\ RecordAction(r, "delete", {}, copy[r])
    BY <1>1 DEF RecordDelete, OpenStates
  <2>2. "delete" \in ByAdmin /\ {} \in SUBSET Column
    BY DEF ByAdmin, Endpoint
  <2> QED
    BY <2>1, <2>2, RecordedEntry DEF Logged
<1>2. CASE Deletion(r)
  <2>1. CASE UNCHANGED <<welcomed, audit>>
    BY <2>1 DEF Logged
  <2>2. CASE ~ UNCHANGED <<welcomed, audit>>
    <3> DEFINE nameless(e) == [e EXCEPT !.admin = IF e.admin = call[r].target
                                                  THEN Nobody ELSE e.admin]
    <3>1. /\ audit' = [q \in Requests |-> {nameless(e) : e \in audit[q]}]
          /\ welcomed' = [welcomed EXCEPT ![call[r].target] = 0]
      BY <1>2, <2>2 DEF Deletion, DeleteRow, RemoveRow, Delete
    <3>2. ASSUME NEW e, EntryTyped(e) PROVE EntryTyped(nameless(e))
      <4>1. /\ DOMAIN nameless(e) = DOMAIN e
            /\ nameless(e).admin = IF e.admin = call[r].target THEN Nobody
                                                               ELSE e.admin
            /\ nameless(e).action = e.action /\ nameless(e).changes = e.changes
        BY <3>2 DEF EntryTyped
      <4> HIDE DEF nameless
      <4> QED
        BY <3>2, <4>1 DEF EntryTyped
    <3> HIDE DEF nameless
    <3> QED
      BY <3>1, <3>2 DEF Logged
  <2> QED
    BY <2>1, <2>2
<1> QED
  BY <1>1, <1>2

LEMMA AdministerLogged ==
    ASSUME Ranked, Unrecorded, Logged, NEW r \in Requests, Administer(r)
    PROVE  Logged'
<1>1. /\ {"set", "adjust", "reset", "ban", "unban", "grant", "revoke"}
            \subseteq ByAdmin
      /\ {"points"} \in SUBSET Column /\ {"is_active"} \in SUBSET Column
      /\ {"is_admin"} \in SUBSET Column
      /\ \A field \in {"streak", "completed_tests"} : {field} \in SUBSET Column
  BY DEF ByAdmin, Endpoint, Column
<1>2. CASE \/ \E points \in Totals : SetPoints(r, points)
           \/ \E delta \in Deltas : AdjustPoints(r, delta)
           \/ ResetPoints(r)
  BY <1>1, <1>2, ServiceLogged DEF SetPoints, AdjustPoints, ResetPoints
<1>3. CASE \E field \in {"streak", "completed_tests"} : ResetCounter(r, field)
  BY <1>1, <1>3, ServiceLogged DEF ResetCounter
<1>4. CASE SetActive(r) \/ SetAdmin(r)
  BY <1>1, <1>4, ServiceLogged DEF SetActive, SetAdmin
<1>5. CASE \E points \in Totals \cup {copy[r].points}, active, admin \in BOOLEAN :
              ApplyEdits(r, points, active, admin)
  BY <1>5, ApplyEditsLogged
<1>6. CASE RecordDelete(r) \/ Deletion(r)
  BY <1>6, DeleteLogged
<1> QED
  BY <1>2, <1>3, <1>4, <1>5, <1>6 DEF Administer, Deletion

LEMMA LoggedStep == Ranked /\ Unrecorded /\ Logged /\ [Next]_vars => Logged'
<1> SUFFICES ASSUME Ranked, Unrecorded, Logged, [Next]_vars PROVE Logged'
  OBVIOUS
<1>1. ASSUME UNCHANGED <<audit, welcomed>> PROVE Logged'
  BY <1>1 DEF Logged
<1>2. ASSUME UNCHANGED audit, welcomed' \in [Users -> {0, 1}] PROVE Logged'
  BY <1>2 DEF Logged
<1>3. ASSUME NEW r \in Requests, Arrive(r) PROVE Logged'
  <2>1. CASE \E u \in Users, name \in Names, language \in Languages :
                SignIn(r, u, name, language)
    <3>1. UNCHANGED audit /\ \E u \in Users : Welcome(u)
      BY <2>1 DEF SignIn
    <3> QED
      BY <1>2, <3>1, WelcomeTyped
  <2>2. CASE ~ \E u \in Users, name \in Names, language \in Languages :
                SignIn(r, u, name, language)
    BY <1>1, <1>3, <2>2 DEF Arrive, OpenOwn, OpenOther, Open
  <2> QED
    BY <2>1, <2>2
<1>4. ASSUME NEW r \in Requests, Step(r) PROVE Logged'
  <2>1. CASE \E earned \in Rewards : Award(r, earned)
    BY <1>1, <2>1 DEF Award
  <2>2. CASE \E language \in Languages : SaveProfile(r, language)
    <3>1. /\ pc[r] \in OpenStates /\ UNCHANGED audit
          /\ \E instance : SaveAll(r, instance)
      BY <2>2 DEF SaveProfile, OpenStates
    <3> QED
      BY <1>2, <3>1, SaveAllLogged
  <2>3. CASE \E active, admin \in BOOLEAN, name \in Names :
                SaveForm(r, active, admin, name)
    <3>1. /\ pc[r] \in OpenStates /\ UNCHANGED audit
          /\ \E instance : SaveAll(r, instance)
      BY <2>3 DEF SaveForm, OpenStates
    <3> QED
      BY <1>2, <3>1, SaveAllLogged
  <2>4. CASE StampLogin(r) \/ Fail(r)
    BY <1>1, <2>4 DEF StampLogin, SaveColumns, Fail
  <2>5. CASE Administer(r)
    BY <2>5, AdministerLogged
  <2> QED
    BY <1>4, <2>1, <2>2, <2>3, <2>4, <2>5 DEF Step
<1>5. CASE UNCHANGED vars
  BY <1>1, <1>5 DEF vars
<1> QED
  BY <1>3, <1>4, <1>5 DEF Next, Finished

(* The columns, the audit log and the welcomes keep their types, for any     *)
(* number of requests and whatever rows they save.  A deletion that rewrites *)
(* the entries of the log (on_delete=SET_NULL) leaves them well formed.      *)
THEOREM TypesAlwaysHold == Spec => []TypeOK
<1>1. Init => Unrecorded /\ Logged
  BY DEF Init, Unrecorded, OpenStates, Logged
<1>2. Ranked /\ Logged => TypeOK
  BY DEF Ranked, RankedRow, OpenStates, Logged, EntryTyped, TypeOK
<1> QED
  BY <1>1, <1>2, InitRanked, RankedStep, UnrecordedStep, LoggedStep, PTL DEF Spec
=============================================================================
