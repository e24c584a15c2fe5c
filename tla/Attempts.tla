------------------------------ MODULE Attempts ------------------------------
(***************************************************************************)
(* Taking tests: the "start" and "submit" endpoints of TestViewSet, the    *)
(* services behind them and the staff edits they race with.                *)
(*                                                                         *)
(* Every HTTP request runs in a worker of its own against a READ COMMITTED *)
(* database, so a request is a program counter with local values and each  *)
(* action is one of its steps: the statements between two points at which  *)
(* another request's commit or the clock can make a difference.  Writes of *)
(* a transaction become visible in the step that commits it.               *)
(***************************************************************************)
EXTENDS Gamification, FiniteSetsExt

CONSTANTS
    Users, Tests,
    EditedTests,   \* the tests that staff edit while the requests run
    Requests,      \* one identity per HTTP request; also names what it creates
    TestRows,      \* the settings a Test row may be saved with
    Worths,        \* the sums of question points a test may have; 0: no questions
    Nobody,        \* holder of a row lock that is free
    NoSession,     \* a submit body without session_id
    NoRow,         \* a row that does not exist
    MaxReward,     \* no test rewards more points than this
    Second,        \* clock ticks in a second
    Grace,         \* SUBMISSION_TIME_GRACE_SECONDS
    DayLength,     \* clock ticks in a day
    MaxNow,        \* bound on the clock
    MaxEdition     \* bound on how often a test loses all its questions

ASSUME ConstantsAssumption ==
    /\ Second \in Nat \ {0} /\ Grace \in Nat /\ DayLength \in Nat \ {0}
    /\ MaxNow \in Nat /\ MaxEdition \in Nat /\ MaxReward \in Nat
    /\ Worths \subseteq Nat
    /\ EditedTests \subseteq Tests
    /\ NoDate \notin Int
    /\ Nobody \notin Requests /\ NoSession \notin Requests

TestRow ==
    [is_published : BOOLEAN, is_active : BOOLEAN,
     start_datetime : Nat \cup {NoDate}, end_datetime : Nat \cup {NoDate},
     duration_seconds : Nat, reward_points : 0 .. MaxReward]

(* The question set of a test: how many sets were deleted before it, and its *)
(* points.                                                                   *)
Paper == [edition : Nat, worth : Nat]

SessionRow ==
    [user : Users, test : Tests, started_at : Nat, expires_at : Nat,
     is_completed : BOOLEAN]

SubmissionRow ==
    [user : Users, test : Tests, session : Requests \cup {NoSession},
     is_official : BOOLEAN, score : Nat, points_earned : 0 .. MaxReward,
     submitted_at : Nat, completion_time : Nat]

UserRow ==
    [points : Nat, completed_tests : Nat, streak : Nat,
     last_activity_date : Nat \cup {NoDate}, current_rank : RankTier]

Call == [user : Users, test : Tests, session : Requests \cup {NoSession}]

(* The local variables of a request that outlive one of its steps. *)
Locals ==
    [row : TestRow \cup {NoRow}, paper : Paper \cup {NoRow},
     started_at : Nat, elapsed : Nat, within_time : BOOLEAN,
     is_official : BOOLEAN, score : Nat, points_earned : 0 .. MaxReward,
     submitted_at : Nat]

ASSUME RowsAssumption ==
    /\ TestRows \subseteq TestRow
    /\ NoRow \notin SessionRow \cup SubmissionRow

VARIABLES
    now,           \* timezone.now()
    tests,         \* Test rows
    papers,        \* their questions
    sessions,      \* TestSession rows, named by the request that inserted them
    submissions,   \* Submission rows, named by the request that inserted them
    users,         \* the progress columns of the User rows
    unlocked,      \* UserAchievement: the codes of each user
    announced,     \* Notification: how often each unlock was announced
    active,        \* history: the days on which an official attempt of the user
                   \* was applied
    lock,          \* the row lock of each User row
    pc, call, local

database ==
    <<tests, papers, sessions, submissions, users, unlocked, announced, active>>
vars == <<now, database, lock, pc, call, local>>

Started   == {"starting", "inserting"}
InTransaction == {"locked", "timed", "graded"}
InFlight  == Started \cup {"submitting"} \cup InTransaction
Answered  == {"done", "refused"}

TypeOK ==
    /\ now \in Nat
    /\ tests \in [Tests -> TestRow]
    /\ papers \in [Tests -> Paper]
    /\ sessions \in [Requests -> SessionRow \cup {NoRow}]
    /\ submissions \in [Requests -> SubmissionRow \cup {NoRow}]
    /\ users \in [Users -> UserRow]
    /\ unlocked \in [Users -> SUBSET AchievementCode]
    /\ announced \in [Users -> [AchievementCode -> Nat]]
    /\ active \in [Users -> SUBSET Nat]
    /\ lock \in [Users -> Requests \cup {Nobody}]
    /\ pc \in [Requests -> {"idle"} \cup InFlight \cup Answered]
    /\ call \in [Requests -> Call \cup {NoRow}]
    /\ local \in [Requests -> Locals]

NoLocals ==
    [row |-> NoRow, paper |-> NoRow, started_at |-> 0, elapsed |-> 0,
     within_time |-> FALSE, is_official |-> FALSE, score |-> 0,
     points_earned |-> 0, submitted_at |-> 0]

NewUser ==
    [points |-> 0, completed_tests |-> 0, streak |-> 0,
     last_activity_date |-> NoDate, current_rank |-> "novice"]

Init ==
    /\ now = 0
    /\ tests \in [Tests -> TestRows]
    /\ \E worth \in [Tests -> Worths] :
          papers = [t \in Tests |-> [edition |-> 0, worth |-> worth[t]]]
    /\ sessions = [r \in Requests |-> NoRow]
    /\ submissions = [r \in Requests |-> NoRow]
    /\ users = [u \in Users |-> NewUser]
    /\ unlocked = [u \in Users |-> {}]
    /\ announced = [u \in Users |-> [c \in AchievementCode |-> 0]]
    /\ active = [u \in Users |-> {}]
    /\ lock = [u \in Users |-> Nobody]
    /\ pc = [r \in Requests |-> "idle"]
    /\ call = [r \in Requests |-> NoRow]
    /\ local = [r \in Requests |-> NoLocals]

Today == now \div DayLength

Tick ==
    /\ now < MaxNow
    /\ now' = now + 1
    /\ UNCHANGED <<database, lock, pc, call, local>>

-----------------------------------------------------------------------------
(* Rows as the code asks about them. *)

IsAvailable(test, moment) ==
    /\ test.is_published /\ test.is_active
    /\ test.start_datetime # NoDate => moment >= test.start_datetime
    /\ test.end_datetime # NoDate => moment <= test.end_datetime

IsExpired(session) == now > session.expires_at

SessionsOf(u, t) ==
    {s \in Requests : /\ sessions[s] # NoRow
                      /\ sessions[s].user = u /\ sessions[s].test = t}

SubmissionRows == {r \in Requests : submissions[r] # NoRow}

OfficialOf_Unchecked(u, t) == {}
OfficialOf(u, t) ==
    {r \in SubmissionRows : /\ submissions[r].is_official
                            /\ submissions[r].user = u
                            /\ submissions[r].test = t}

Goto(r, label, locals) ==
    /\ pc' = [pc EXCEPT ![r] = label]
    /\ local' = [local EXCEPT ![r] = locals]

(* The response: the worker forgets the request. *)
Answer(r, label) == Goto(r, label, NoLocals)

Release(r) == lock' = [lock EXCEPT ![call[r].user] = Nobody]

(* No transaction holds the user's row: a statement that needs it goes ahead. *)
RowIsFree_Unlocked(u) == TRUE
RowIsFree(u) == lock[u] = Nobody

(* get_object() over the published tests, before any transaction. *)
Fetch(r, u, t, s, label) ==
    /\ pc[r] = "idle"
    /\ tests[t].is_published
    /\ call' = [call EXCEPT ![r] = [user |-> u, test |-> t, session |-> s]]
    /\ Goto(r, label, [NoLocals EXCEPT !.row = tests[t]])
    /\ UNCHANGED <<now, database, lock>>

-----------------------------------------------------------------------------
(* POST tests/{id}/start/ *)

StartFetch(r, u, t) == Fetch(r, u, t, NoSession, "starting")

(* PermissionDenied *)
StartDenied(r) ==
    /\ pc[r] = "starting"
    /\ ~IsAvailable(local[r].row, now)
    /\ Answer(r, "refused")
    /\ UNCHANGED <<now, database, lock, call>>

(* order_by("-started_at").first() over the sessions not completed *)
Newest(u, t) ==
    LET unspent == {s \in SessionsOf(u, t) : ~sessions[s].is_completed}
    IN  {s \in unspent : \A other \in unspent :
                            sessions[other].started_at <= sessions[s].started_at}

(* The existing session is the answer. *)
StartResume(r) ==
    /\ pc[r] = "starting"
    /\ IsAvailable(local[r].row, now)
    /\ \E s \in Newest(call[r].user, call[r].test) : ~IsExpired(sessions[s])
    /\ Answer(r, "done")
    /\ UNCHANGED <<now, database, lock, call>>

StartInsert(r) ==
    LET existing == Newest(call[r].user, call[r].test)
    IN  /\ pc[r] = "starting"
        /\ IsAvailable(local[r].row, now)
        /\ existing = {} \/ \E s \in existing : IsExpired(sessions[s])
        /\ Goto(r, "inserting", [local[r] EXCEPT !.started_at = now])
        /\ UNCHANGED <<now, database, lock, call>>

(* The commit checks the foreign key to the user, a FOR KEY SHARE of its row. *)
StartCommit(r) ==
    /\ pc[r] = "inserting"
    /\ RowIsFree(call[r].user)
    /\ sessions' = [sessions EXCEPT ![r] =
            [user |-> call[r].user, test |-> call[r].test,
             started_at |-> local[r].started_at,
             expires_at |-> local[r].started_at
                              + local[r].row.duration_seconds * Second,
             is_completed |-> FALSE]]
    /\ Answer(r, "done")
    /\ UNCHANGED <<now, tests, papers, submissions, users, unlocked, announced,
                   active, lock, call>>

-----------------------------------------------------------------------------
(* POST tests/{id}/submit/ *)

(* The body names no session or one the server once handed out. *)
SubmitFetch(r, u, t, s) ==
    /\ s # NoSession => sessions[s] # NoRow
    /\ Fetch(r, u, t, s, "submitting")

(* SELECT ... FOR UPDATE of the user, then the questions of the test. *)
SubmitLock(r) ==
    /\ pc[r] = "submitting"
    /\ RowIsFree(call[r].user)
    /\ papers[call[r].test].worth # 0
    /\ lock' = [lock EXCEPT ![call[r].user] = r]
    /\ Goto(r, "locked", [local[r] EXCEPT !.paper = papers[call[r].test]])
    /\ UNCHANGED <<now, database, call>>

(* "This test has no questions." *)
SubmitEmpty(r) ==
    /\ pc[r] = "submitting"
    /\ RowIsFree(call[r].user)
    /\ papers[call[r].test].worth = 0
    /\ Answer(r, "refused")
    /\ UNCHANGED <<now, database, lock, call>>

Elapsed_Swapped(session) == (session.started_at - now) \div Second
Elapsed(session) ==
    IF now > session.started_at
    THEN (now - session.started_at) \div Second ELSE 0

WithinTime_ConvertedTwice(elapsed, test) ==
    elapsed <= 60 * test.duration_seconds + Grace
WithinTime(elapsed, test) == elapsed <= test.duration_seconds + Grace

(* The session the body names is this user's, of this test, and unused. *)
UsableSession_Reused(r) ==
    call[r].session \in SessionsOf(call[r].user, call[r].test)
UsableSession(r) ==
    LET s == call[r].session
    IN  s \in SessionsOf(call[r].user, call[r].test) /\ ~sessions[s].is_completed

(* _resolve_session, which compares with the duration read by get_object() *)
SubmitResolve(r) ==
    LET elapsed == Elapsed(sessions[call[r].session])
    IN  /\ pc[r] = "locked"
        /\ \/ /\ call[r].session = NoSession
              /\ Goto(r, "timed", local[r])
           \/ /\ UsableSession(r)
              /\ Goto(r, "timed", [local[r] EXCEPT
                    !.elapsed     = elapsed,
                    !.within_time = WithinTime(elapsed, local[r].row)])
        /\ UNCHANGED <<now, database, lock, call>>

(* "Invalid session for this test.", "This session has already been used." *)
SubmitBadSession(r) ==
    /\ pc[r] = "locked"
    /\ call[r].session # NoSession
    /\ ~UsableSession(r)
    /\ Answer(r, "refused")
    /\ Release(r)
    /\ UNCHANGED <<now, database, call>>

(* The decision whether the attempt counts, and its grading.  How many of the *)
(* points the answers earn is the user's affair.                              *)
SubmitDecide(r, correct_points) ==
    LET official == /\ OfficialOf(call[r].user, call[r].test) = {}
                    /\ call[r].session # NoSession
                    /\ local[r].within_time
                    /\ IsAvailable(local[r].row, now)
        total    == local[r].paper.worth
    IN  /\ pc[r] = "timed"
        /\ correct_points <= total
        /\ Goto(r, "graded", [local[r] EXCEPT
              !.is_official   = official,
              !.score         = Percentage(correct_points, total),
              !.points_earned = PointsEarned(official, local[r].row.reward_points,
                                             correct_points, total),
              !.submitted_at  = now])
        /\ UNCHANGED <<now, database, lock, call>>

(* The questions the answers refer to have been deleted. *)
QuestionsReplaced(r) == papers[call[r].test].edition # local[r].paper.edition

PersistSubmission(r) ==
    submissions' = [submissions EXCEPT ![r] =
        [user |-> call[r].user, test |-> call[r].test,
         session |-> call[r].session, is_official |-> local[r].is_official,
         score |-> local[r].score, points_earned |-> local[r].points_earned,
         submitted_at |-> local[r].submitted_at,
         completion_time |-> local[r].elapsed]]

CompleteSession(s) ==
    IF s = NoSession THEN UNCHANGED sessions
    ELSE sessions' = [sessions EXCEPT ![s].is_completed = TRUE]

(* _apply_official_results and evaluate_achievements, on the locked row *)
RewardUser_Practice(r) ==
    LET u == call[r].user
    IN  /\ users' = [users EXCEPT ![u] =
                ApplyOfficialResults(@, local[r].points_earned, Today)]
        /\ UNCHANGED <<unlocked, announced, active>>
RewardUser(r) ==
    LET u     == call[r].user
        row   == ApplyOfficialResults(users[u], local[r].points_earned, Today)
        fresh == CodesToUnlock(row, local[r].score = FullScore, unlocked[u])
    IN  IF local[r].is_official
        THEN /\ users' = [users EXCEPT ![u] = row]
             /\ unlocked' = [unlocked EXCEPT ![u] = @ \cup fresh]
             /\ announced' = [announced EXCEPT ![u] =
                    [c \in AchievementCode |-> IF c \in fresh THEN @[c] + 1
                                                              ELSE @[c]]]
             /\ active' = [active EXCEPT ![u] = @ \cup {Today}]
        ELSE UNCHANGED <<users, unlocked, announced, active>>

(* The writes of submit_test and its COMMIT.  The unique constraint refuses a *)
(* second official row.                                                       *)
SubmitCommit(r) ==
    /\ pc[r] = "graded"
    /\ ~QuestionsReplaced(r)
    /\ local[r].is_official => OfficialOf(call[r].user, call[r].test) = {}
    /\ PersistSubmission(r)
    /\ CompleteSession(call[r].session)
    /\ RewardUser(r)
    /\ Answer(r, "done")
    /\ Release(r)
    /\ UNCHANGED <<now, tests, papers, call>>

(* The foreign keys of the answers are checked at COMMIT. *)
SubmitOrphaned(r) ==
    /\ pc[r] = "graded"
    /\ QuestionsReplaced(r)
    /\ Answer(r, "refused")
    /\ Release(r)
    /\ UNCHANGED <<now, database, call>>

-----------------------------------------------------------------------------
(* What may end any request early: an answer the grader rejects, a violated *)
(* constraint, the death of the worker.  The transaction is rolled back.    *)
Fail_KeepsLock(r) ==
    /\ pc[r] \in InFlight
    /\ Answer(r, "refused")
    /\ UNCHANGED <<now, database, lock, call>>
Fail(r) ==
    /\ pc[r] \in InFlight
    /\ Answer(r, "refused")
    /\ IF pc[r] \in InTransaction THEN Release(r) ELSE UNCHANGED lock
    /\ UNCHANGED <<now, database, call>>

(* Staff: the Django admin form, its bulk actions, and import_tests. *)
(* A form may take every question away, and a later one put others there; when *)
(* it deletes some of them, a request that graded one of those Fails.          *)
SaveTest(t, row, worth) ==
    LET emptied == worth = 0 /\ papers[t].worth # 0
    IN  /\ emptied => papers[t].edition < MaxEdition
        /\ tests' = [tests EXCEPT ![t] = row]
        /\ papers' = [papers EXCEPT ![t] =
               [edition |-> IF emptied THEN @.edition + 1 ELSE @.edition,
                worth   |-> worth]]
        /\ UNCHANGED <<now, sessions, submissions, users, unlocked, announced,
                       active, lock, pc, call, local>>

BulkAction(t, flag) ==
    /\ \/ tests' = [tests EXCEPT ![t].is_published = flag]
       \/ tests' = [tests EXCEPT ![t].is_active = flag]
    /\ UNCHANGED <<now, papers, sessions, submissions, users, unlocked, announced,
                   active, lock, pc, call, local>>

(* update_or_create of the row, which leaves the window alone, and a new set *)
(* of questions.                                                             *)
ImportTest(t, row, worth) ==
    /\ worth # 0
    /\ papers[t].edition < MaxEdition
    /\ tests' = [tests EXCEPT ![t] =
            [row EXCEPT !.start_datetime = tests[t].start_datetime,
                        !.end_datetime   = tests[t].end_datetime]]
    /\ papers' = [papers EXCEPT ![t] = [edition |-> @.edition + 1, worth |-> worth]]
    /\ UNCHANGED <<now, sessions, submissions, users, unlocked, announced,
                   active, lock, pc, call, local>>

-----------------------------------------------------------------------------
(* A request arrives. *)
Arrive(r) ==
    \E u \in Users, t \in Tests :
        \/ StartFetch(r, u, t)
        \/ \E s \in Requests \cup {NoSession} : SubmitFetch(r, u, t, s)

(* A request in flight takes its next step. *)
Step(r) ==
    \/ StartDenied(r) \/ StartResume(r) \/ StartInsert(r) \/ StartCommit(r)
    \/ SubmitLock(r) \/ SubmitEmpty(r) \/ SubmitResolve(r) \/ SubmitBadSession(r)
    \/ pc[r] = "timed" /\ \E c \in 0 .. local[r].paper.worth : SubmitDecide(r, c)
    \/ SubmitCommit(r) \/ SubmitOrphaned(r)

Edit(t) ==
    \/ \E row \in TestRows, worth \in Worths :
          SaveTest(t, row, worth) \/ ImportTest(t, row, worth)
    \/ \E flag \in BOOLEAN : BulkAction(t, flag)

(* No request is in flight and the clock has reached its bound. *)
Finished ==
    /\ \A r \in Requests : pc[r] \notin InFlight
    /\ now = MaxNow
    /\ UNCHANGED vars

Next ==
    \/ Tick
    \/ \E r \in Requests : Arrive(r) \/ Step(r) \/ Fail(r)
    \/ \E t \in EditedTests : Edit(t)
    \/ Finished

(* A worker that has taken up a request keeps executing it. *)
Fairness == \A r \in Requests : WF_vars(Step(r))

Spec == Init /\ [][Next]_vars /\ Fairness
-----------------------------------------------------------------------------
(* The properties. *)

(* An attempt judged to be the official one while its transaction holds the  *)
(* user's row lock is still the first one when it commits, so the unique     *)
(* constraint behind the "already submitted" branch never has to refuse it   *)
(* (scoring.py, select_for_update in submit_test).                           *)
DecisionStands ==
    \A r \in Requests :
        pc[r] = "graded" /\ local[r].is_official
            => OfficialOf(call[r].user, call[r].test) = {}

(* A timer session is spent by one submission at most, and is marked         *)
(* completed exactly when there is one: no interleaving of two submits that  *)
(* name the same session gets both past "already been used".                 *)
SessionSpentOnce ==
    \A s \in Requests : sessions[s] # NoRow =>
        LET spenders == {r \in SubmissionRows : submissions[r].session = s}
        IN  /\ Cardinality(spenders) <= 1
            /\ sessions[s].is_completed <=> spenders # {}

SubmissionsOf(u) == {r \in SubmissionRows : submissions[r].user = u}
OfficialBy(u) == {r \in SubmissionsOf(u) : submissions[r].is_official}

PointsInSync ==
    \A u \in Users :
        users[u].points =
            MapThenSumSet(LAMBDA r : submissions[r].points_earned, SubmissionsOf(u))

CountInSync ==
    \A u \in Users : users[u].completed_tests = Cardinality(OfficialBy(u))

RankInSync ==
    \A u \in Users : users[u].current_rank = RankForPoints(users[u].points)

(* The denormalised counters of a user are what the submissions say: the     *)
(* points are the sum of what each one earned, completed_tests counts the    *)
(* official ones, and the rank is the one of the points (models/user.py).    *)
AggregatesInSync == PointsInSync /\ CountInSync /\ RankInSync

(* A user has an achievement exactly when the official attempts so far       *)
(* deserve it, "7 Day Streak" exactly when they cover a week in a row, and   *)
(* was notified of it exactly once (services/achievements.py).               *)
UnlocksDeserved ==
    \A u \in Users :
        LET perfect == \E r \in OfficialBy(u) : submissions[r].score = FullScore
        IN  /\ unlocked[u] = AchievementsOf(users[u], WeekInARow(active[u]), perfect)
            /\ \A c \in AchievementCode :
                    announced[u][c] = IF c \in unlocked[u] THEN 1 ELSE 0

(* An official attempt used a session of its own user and test that began    *)
(* and ended inside the test's window, and arrived before the deadline the   *)
(* session was created with, the grace period included.                      *)
OfficialInTime ==
    \A r \in SubmissionRows : submissions[r].is_official =>
        LET attempt == submissions[r]
            session == sessions[attempt.session]
            test    == tests[attempt.test]
        IN  /\ attempt.session \in SessionsOf(attempt.user, attempt.test)
            /\ IsAvailable(test, session.started_at)
            /\ IsAvailable(test, attempt.submitted_at)
            /\ attempt.completion_time * Second
                    <= session.expires_at - session.started_at + Grace * Second

(* A user has at most one running timer per test: starting again resumes it. *)
OneRunningTimer ==
    \A u \in Users, t \in Tests :
        \A s1, s2 \in SessionsOf(u, t) :
            /\ ~sessions[s1].is_completed /\ ~IsExpired(sessions[s1])
            /\ ~sessions[s2].is_completed /\ ~IsExpired(sessions[s2])
            => s1 = s2

(* Practice never ranks: the progress of a user moves only in a step that    *)
(* records an official submission of that user, and by what it earned.       *)
PracticeNeverRanks ==
    [][\A u \in Users : users'[u] # users[u] =>
          \E r \in Requests :
              /\ submissions[r] = NoRow /\ submissions'[r] # NoRow
              /\ submissions'[r].user = u /\ submissions'[r].is_official
              /\ users'[u].points = users[u].points + submissions'[r].points_earned
              /\ users'[u].completed_tests = users[u].completed_tests + 1]_vars

(* The refinement mapping to OfficialLedger. *)
OfficialRows == {r \in SubmissionRows : submissions[r].is_official}

Paid ==
    {[user |-> submissions[r].user, test |-> submissions[r].test,
      points |-> submissions[r].points_earned] : r \in OfficialRows}

Balance == [u \in Users |-> users[u].points]

Ledger == INSTANCE OfficialLedger WITH awards <- Paid, balance <- Balance

(* The official submissions are a ledger that pays each user once per test,  *)
(* and the points of a user are its balance (README, "Scoring & fairness     *)
(* rules").                                                                  *)
KeepsLedger == Ledger!Spec

(* Every request is answered, however many wait for the same user's row.     *)
EveryRequestAnswered ==
    \A r \in Requests : pc[r] \in InFlight ~> pc[r] \in Answered
=============================================================================
