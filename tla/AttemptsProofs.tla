--------------------------- MODULE AttemptsProofs ---------------------------
(* Theorems about Attempts for any users, tests, requests and clock. *)
EXTENDS Attempts, GamificationProofs

Labels == {"idle"} \cup InFlight \cup Answered

LEMMA DivType ==
    ASSUME NEW n \in Nat, NEW d \in Nat \ {0}
    PROVE  n \div d \in Nat
OBVIOUS

LEMMA NoLocalsType == NoLocals \in Locals
BY ConstantsAssumption DEF NoLocals, Locals

(* A request that moves on leaves the control state well typed. *)
LEMMA GotoType ==
    ASSUME TypeOK, NEW r \in Requests, NEW label \in Labels, NEW locals \in Locals,
           Goto(r, label, locals)
    PROVE  /\ pc' \in [Requests -> Labels]
           /\ local' \in [Requests -> Locals]
BY DEF TypeOK, Goto, Labels

LEMMA ApplyOfficialResultsType ==
    ASSUME NEW user \in UserRow, NEW earned \in Nat, NEW today \in Nat
    PROVE  ApplyOfficialResults(user, earned, today) \in UserRow
<1> DEFINE points == user.points + earned
           streak == NextStreak(user.streak, user.last_activity_date, today)
           rank   == RankForPoints(points)
           row1   == [user EXCEPT !.points = points]
           row2   == [row1 EXCEPT !.completed_tests = @ + 1]
           row3   == [row2 EXCEPT !.streak = streak]
           row4   == [row3 EXCEPT !.last_activity_date = today]
           row5   == [row4 EXCEPT !.current_rank = rank]
<1>1. points \in Nat
  BY DEF UserRow
<1>2. streak \in Nat
  BY NextStreakType DEF UserRow
<1>3. rank \in RankTier
  BY <1>1, RankForPointsReached
<1>4. ApplyOfficialResults(user, earned, today) = row5
  BY DEF ApplyOfficialResults
<1> HIDE DEF streak, points, rank
<1>5. row1 \in UserRow
  BY <1>1 DEF UserRow
<1> HIDE DEF row1
<1>6. row2 \in UserRow
  BY <1>5 DEF UserRow
<1> HIDE DEF row2
<1>7. row3 \in UserRow
  BY <1>2, <1>6 DEF UserRow
<1> HIDE DEF row3
<1>8. row4 \in UserRow
  BY <1>7 DEF UserRow
<1> HIDE DEF row4
<1>9. row5 \in UserRow
  BY <1>3, <1>8 DEF UserRow
<1> QED
  BY <1>4, <1>9

LEMMA PaperType ==
    ASSUME NEW edition \in Nat, NEW worth \in Nat
    PROVE  [edition |-> edition, worth |-> worth] \in Paper
BY DEF Paper

LEMMA InitType == Init => TypeOK
<1> SUFFICES ASSUME Init PROVE TypeOK
  OBVIOUS
<1>1. /\ now \in Nat
      /\ tests \in [Tests -> TestRow]
      /\ sessions \in [Requests -> SessionRow \cup {NoRow}]
      /\ submissions \in [Requests -> SubmissionRow \cup {NoRow}]
      /\ unlocked \in [Users -> SUBSET AchievementCode]
      /\ active \in [Users -> SUBSET Nat]
      /\ lock \in [Users -> Requests \cup {Nobody}]
      /\ pc \in [Requests -> {"idle"} \cup InFlight \cup Answered]
      /\ call \in [Requests -> Call \cup {NoRow}]
  BY RowsAssumption DEF Init
<1>2. papers \in [Tests -> Paper]
  <2>1. Worths \subseteq Nat
    BY ConstantsAssumption
  <2>2. PICK worth \in [Tests -> Worths] :
          papers = [t \in Tests |-> [edition |-> 0, worth |-> worth[t]]]
    BY DEF Init
  <2>3. ASSUME NEW t \in Tests PROVE [edition |-> 0, worth |-> worth[t]] \in Paper
    BY <2>1, <2>2, PaperType
  <2> QED
    BY <2>2, <2>3
<1>3. users \in [Users -> UserRow]
  BY DEF Init, NewUser, UserRow, RankTier
<1>4. announced \in [Users -> [AchievementCode -> Nat]]
  BY DEF Init
<1>5. local \in [Requests -> Locals]
  BY NoLocalsType DEF Init
<1> QED
  BY <1>1, <1>2, <1>3, <1>4, <1>5 DEF TypeOK

-----------------------------------------------------------------------------
(* A request in flight knows its user and test and the row it read; inside  *)
(* the transaction it knows the questions too.                              *)
Underway ==
    \A r \in Requests : pc[r] \in InFlight =>
        /\ call[r] \in Call
        /\ local[r].row \in TestRow
        /\ pc[r] \in InTransaction => local[r].paper \in Paper

Typed == TypeOK /\ Underway

LEMMA InitTyped == Init => Typed
BY InitType DEF Init, Typed, Underway, InFlight, Started, InTransaction

(* Underway looks at one request only, so a step of r needs a look at r. *)
LEMMA UnderwayStep ==
    ASSUME Typed, NEW r \in Requests, NEW label \in Labels, NEW locals \in Locals,
           Goto(r, label, locals), UNCHANGED call,
           label \in InFlight => /\ pc[r] \in InFlight
                                 /\ locals.row = local[r].row,
           label \in InTransaction => locals.paper \in Paper
    PROVE  Underway'
<1> SUFFICES ASSUME NEW q \in Requests, (pc[q] \in InFlight)'
             PROVE  (/\ call[q] \in Call
                     /\ local[q].row \in TestRow
                     /\ pc[q] \in InTransaction => local[q].paper \in Paper)'
  BY DEF Underway
<1>1. CASE q = r
  BY <1>1 DEF Goto, Typed, TypeOK, Underway
<1>2. CASE q # r
  BY <1>2 DEF Goto, Typed, TypeOK, Underway
<1> QED
  BY <1>1, <1>2

LEMMA AnswerStep ==
    ASSUME Typed, NEW r \in Requests, NEW label \in Answered,
           Answer(r, label), UNCHANGED call
    PROVE  /\ pc' \in [Requests -> Labels]
           /\ local' \in [Requests -> Locals]
           /\ Underway'
<1>1. label \in Labels /\ label \notin InFlight
  BY DEF Labels, Answered, InFlight, Started, InTransaction
<1>2. Goto(r, label, NoLocals)
  BY DEF Answer
<1>3. label \notin InTransaction
  BY <1>1 DEF InFlight
<1> QED
  BY <1>1, <1>2, <1>3, NoLocalsType, GotoType, UnderwayStep DEF Typed

(* A step that writes none of the tables keeps them typed. *)
LEMMA ReleaseType ==
    ASSUME TypeOK, NEW r \in Requests, Release(r)
    PROVE  lock' \in [Users -> Requests \cup {Nobody}]
BY DEF TypeOK, Release

LEMMA FetchTyped ==
    ASSUME Typed, NEW r \in Requests, NEW u \in Users, NEW t \in Tests,
           NEW s \in Requests \cup {NoSession},
           NEW label \in {"starting", "submitting"}, Fetch(r, u, t, s, label)
    PROVE  Typed'
<1> DEFINE c == [user |-> u, test |-> t, session |-> s]
           locals == [NoLocals EXCEPT !.row = tests[t]]
<1>1. c \in Call
  BY DEF Call
<1>2. locals \in Locals /\ locals.row \in TestRow
  BY NoLocalsType DEF Typed, TypeOK, Locals
<1>3. label \in Labels /\ label \notin InTransaction
  BY DEF Labels, InFlight, Started, InTransaction
<1>4. Goto(r, label, locals) /\ call' = [call EXCEPT ![r] = c]
  BY DEF Fetch
<1> HIDE DEF c, locals
<1>5. call' \in [Requests -> Call \cup {NoRow}]
  BY <1>1, <1>4 DEF Typed, TypeOK
<1>6. TypeOK'
  BY <1>2, <1>3, <1>4, <1>5, GotoType
     DEF Fetch, Typed, TypeOK, Labels, database
<1>7. ASSUME NEW q \in Requests, (pc[q] \in InFlight)'
      PROVE  (/\ call[q] \in Call
              /\ local[q].row \in TestRow
              /\ pc[q] \in InTransaction => local[q].paper \in Paper)'
  <2>1. CASE q = r
    BY <1>1, <1>2, <1>3, <1>4, <2>1 DEF Goto, Typed, TypeOK
  <2>2. CASE q # r
    BY <1>4, <1>7, <2>2 DEF Goto, Typed, TypeOK, Underway
  <2> QED
    BY <2>1, <2>2
<1> QED
  BY <1>6, <1>7 DEF Typed, Underway

(* The start endpoint. *)
LEMMA StartTyped ==
    ASSUME Typed, NEW r \in Requests,
           StartDenied(r) \/ StartResume(r) \/ StartInsert(r) \/ StartCommit(r)
    PROVE  Typed'
<1>1. CASE StartDenied(r) \/ StartResume(r)
  <2>1. \E label \in Answered : Answer(r, label)
    BY <1>1 DEF StartDenied, StartResume, Answered
  <2>2. UNCHANGED <<now, database, lock, call>>
    BY <1>1 DEF StartDenied, StartResume
  <2> QED
    BY <2>1, <2>2, AnswerStep DEF Typed, TypeOK, database, Labels
<1>2. CASE StartInsert(r)
  <2> DEFINE locals == [local[r] EXCEPT !.started_at = now]
  <2>1. pc[r] \in InFlight /\ Goto(r, "inserting", locals)
        /\ UNCHANGED <<now, database, lock, call>>
    BY <1>2 DEF StartInsert, InFlight, Started
  <2>2. locals \in Locals /\ locals.row = local[r].row
    <3>1. local[r] \in Locals /\ now \in Nat
      BY DEF Typed, TypeOK
    <3> QED
      BY <3>1 DEF Locals
  <2>3. "inserting" \in Labels /\ "inserting" \notin InTransaction
    BY DEF Labels, InFlight, Started, InTransaction
  <2> HIDE DEF locals
  <2>4. Underway'
    BY <2>1, <2>2, <2>3, UnderwayStep
  <2> QED
    BY <2>1, <2>2, <2>3, <2>4, GotoType DEF Typed, TypeOK, database, Labels
<1>3. CASE StartCommit(r)
  <2> DEFINE session == [user |-> call[r].user, test |-> call[r].test,
                         started_at |-> local[r].started_at,
                         expires_at |-> local[r].started_at
                                          + local[r].row.duration_seconds * Second,
                         is_completed |-> FALSE]
  <2>1. pc[r] \in InFlight
    BY <1>3 DEF StartCommit, InFlight, Started
  <2>2. call[r] \in Call /\ local[r].row \in TestRow /\ local[r] \in Locals
    BY <2>1 DEF Typed, TypeOK, Underway
  <2>3. local[r].row.duration_seconds * Second \in Nat
    BY <2>2, ConstantsAssumption DEF TestRow
  <2>4. session \in SessionRow
    BY <2>2, <2>3 DEF Call, Locals, SessionRow
  <2>5. /\ Answer(r, "done") /\ sessions' = [sessions EXCEPT ![r] = session]
        /\ UNCHANGED <<now, tests, papers, submissions, users, unlocked,
                       announced, active, lock, call>>
    BY <1>3 DEF StartCommit
  <2> HIDE DEF session
  <2>6. sessions' \in [Requests -> SessionRow \cup {NoRow}]
    BY <2>4, <2>5 DEF Typed, TypeOK
  <2>7. "done" \in Answered
    BY DEF Answered
  <2> QED
    BY <2>5, <2>6, <2>7, AnswerStep DEF Typed, TypeOK, Labels
<1> QED
  BY <1>1, <1>2, <1>3

(* The steps of a submit that only refuse it, and failures. *)
LEMMA RefusalTyped ==
    ASSUME Typed, NEW r \in Requests,
           SubmitEmpty(r) \/ SubmitBadSession(r) \/ SubmitOrphaned(r) \/ Fail(r)
    PROVE  Typed'
<1>1. Answer(r, "refused") /\ UNCHANGED <<now, database, call>>
  BY DEF SubmitEmpty, SubmitBadSession, SubmitOrphaned, Fail
<1>2. Release(r) \/ UNCHANGED lock
  BY DEF SubmitEmpty, SubmitBadSession, SubmitOrphaned, Fail
<1>3. lock' \in [Users -> Requests \cup {Nobody}]
  BY <1>2, ReleaseType DEF Typed, TypeOK
<1>4. "refused" \in Answered
  BY DEF Answered
<1> QED
  BY <1>1, <1>3, <1>4, AnswerStep DEF Typed, TypeOK, database, Labels

(* The steps of a submit inside its transaction, before the commit. *)
LEMMA SubmitLockTyped ==
    ASSUME Typed, NEW r \in Requests, SubmitLock(r)
    PROVE  Typed'
<1> DEFINE locals == [local[r] EXCEPT !.paper = papers[call[r].test]]
<1>1. pc[r] \in InFlight /\ Goto(r, "locked", locals)
      /\ UNCHANGED <<now, database, call>>
      /\ lock' = [lock EXCEPT ![call[r].user] = r]
  BY DEF SubmitLock, InFlight, Started
<1>2. papers[call[r].test] \in Paper
  BY <1>1 DEF Typed, TypeOK, Underway, Call
<1>3. locals \in Locals /\ locals.row = local[r].row /\ locals.paper \in Paper
  <2>1. local[r] \in Locals
    BY DEF Typed, TypeOK
  <2> QED
    BY <1>2, <2>1 DEF Locals
<1>4. "locked" \in Labels
  BY DEF Labels, InFlight, Started, InTransaction
<1> HIDE DEF locals
<1>5. Underway'
  BY <1>1, <1>3, <1>4, UnderwayStep
<1>6. lock' \in [Users -> Requests \cup {Nobody}]
  BY <1>1 DEF Typed, TypeOK
<1> QED
  BY <1>1, <1>3, <1>4, <1>5, <1>6, GotoType DEF Typed, TypeOK, database, Labels

LEMMA SubmitResolveTyped ==
    ASSUME Typed, NEW r \in Requests, SubmitResolve(r)
    PROVE  Typed'
<1>1. /\ pc[r] \in InFlight /\ pc[r] \in InTransaction
      /\ "timed" \in Labels
      /\ UNCHANGED <<now, database, lock, call>>
  BY DEF SubmitResolve, Labels, InFlight, Started, InTransaction
<1>2. \E locals \in Locals :
        /\ Goto(r, "timed", locals)
        /\ locals.row = local[r].row /\ locals.paper \in Paper
  <2>1. local[r] \in Locals /\ local[r].paper \in Paper
    BY <1>1 DEF Typed, TypeOK, Underway
  <2>2. CASE Goto(r, "timed", local[r])
    BY <2>1, <2>2
  <2>3. CASE ~Goto(r, "timed", local[r])
    <3> DEFINE elapsed == Elapsed(sessions[call[r].session])
               within  == WithinTime(elapsed, local[r].row)
               once    == [local[r] EXCEPT !.elapsed = elapsed]
               twice   == [once EXCEPT !.within_time = within]
    <3>1. UsableSession(r) /\ Goto(r, "timed", twice)
      BY <2>3 DEF SubmitResolve
    <3>2. sessions[call[r].session] \in SessionRow
      BY <3>1 DEF Typed, TypeOK, UsableSession, SessionsOf
    <3>3. elapsed \in Nat
      <4> DEFINE started == sessions[call[r].session].started_at
      <4>1. started \in Nat /\ now \in Nat /\ Second \in Nat \ {0}
        BY <3>2, ConstantsAssumption DEF Typed, TypeOK, SessionRow
      <4>2. CASE now > started
        <5>1. now - started \in Nat
          BY <4>1, <4>2
        <5>2. (now - started) \div Second \in Nat
          BY <4>1, <5>1, DivType
        <5> QED
          BY <4>2, <5>2 DEF Elapsed
      <4>3. CASE ~(now > started)
        BY <4>3 DEF Elapsed
      <4> QED
        BY <4>2, <4>3
    <3>4. within \in BOOLEAN
      BY DEF WithinTime
    <3> HIDE DEF elapsed, within
    <3>5. once \in Locals /\ once.row = local[r].row /\ once.paper \in Paper
      BY <2>1, <3>3 DEF Locals
    <3> HIDE DEF once
    <3>6. twice \in Locals /\ twice.row = local[r].row /\ twice.paper \in Paper
      BY <3>4, <3>5 DEF Locals
    <3> QED
      BY <3>1, <3>6
  <2> QED
    BY <2>2, <2>3
<1>3. PICK locals \in Locals :
        /\ Goto(r, "timed", locals)
        /\ locals.row = local[r].row /\ locals.paper \in Paper
  BY <1>2
<1>4. Underway'
  BY <1>1, <1>3, UnderwayStep
<1> QED
  BY <1>1, <1>3, <1>4, GotoType DEF Typed, TypeOK, database, Labels

LEMMA SubmitDecideTyped ==
    ASSUME Typed, NEW r \in Requests, pc[r] = "timed",
           NEW c \in 0 .. local[r].paper.worth, SubmitDecide(r, c)
    PROVE  Typed'
<1> DEFINE official == /\ OfficialOf(call[r].user, call[r].test) = {}
                       /\ call[r].session # NoSession
                       /\ local[r].within_time
                       /\ IsAvailable(local[r].row, now)
           total  == local[r].paper.worth
           reward == local[r].row.reward_points
           score  == Percentage(c, total)
           earned == PointsEarned(official, reward, c, total)
           step1  == [local[r] EXCEPT !.is_official = official]
           step2  == [step1 EXCEPT !.score = score]
           step3  == [step2 EXCEPT !.points_earned = earned]
           step4  == [step3 EXCEPT !.submitted_at = now]
<1>1. /\ pc[r] \in InFlight /\ pc[r] \in InTransaction
      /\ "graded" \in Labels
  BY DEF Labels, InFlight, Started, InTransaction
<1>2. Goto(r, "graded", step4) /\ UNCHANGED <<now, database, lock, call>>
  BY DEF SubmitDecide
<1>3. local[r] \in Locals /\ local[r].paper \in Paper /\ local[r].row \in TestRow
  BY <1>1 DEF Typed, TypeOK, Underway
<1>4. total \in Nat /\ c \in Nat /\ c <= total
  BY <1>3 DEF Paper
<1>5. reward \in 0 .. MaxReward
  BY <1>3 DEF TestRow
<1>6. official \in BOOLEAN
  OBVIOUS
<1> HIDE DEF official
<1>7. score \in Nat
  <2>1. FullScore \in Nat
    BY DEF FullScore
  <2>2. score \in 0 .. FullScore
    BY <1>4, PercentageBounds
  <2> QED
    BY <2>1, <2>2
<1>8. earned \in 0 .. MaxReward
  <2>1. reward \in Nat /\ reward <= MaxReward /\ MaxReward \in Nat
    BY <1>5, ConstantsAssumption
  <2>2. earned \in 0 .. reward
    BY <1>4, <1>6, <2>1, PointsEarnedBounds
  <2> HIDE DEF earned, reward
  <2> QED
    BY <2>1, <2>2
<1> HIDE DEF score, earned
<1>9. step1 \in Locals /\ step1.row = local[r].row /\ step1.paper \in Paper
  BY <1>3, <1>6 DEF Locals
<1> HIDE DEF step1
<1>10. step2 \in Locals /\ step2.row = local[r].row /\ step2.paper \in Paper
  BY <1>7, <1>9 DEF Locals
<1> HIDE DEF step2
<1>11. step3 \in Locals /\ step3.row = local[r].row /\ step3.paper \in Paper
  BY <1>8, <1>10 DEF Locals
<1> HIDE DEF step3
<1>12. step4 \in Locals /\ step4.row = local[r].row /\ step4.paper \in Paper
  BY <1>11 DEF Locals, Typed, TypeOK
<1> HIDE DEF step4
<1>13. Underway'
  BY <1>1, <1>2, <1>12, UnderwayStep
<1> QED
  BY <1>1, <1>2, <1>12, <1>13, GotoType DEF Typed, TypeOK, database, Labels

LEMMA RewardUserTyped ==
    ASSUME Typed, NEW r \in Requests, pc[r] \in InFlight, RewardUser(r)
    PROVE  /\ users' \in [Users -> UserRow]
           /\ unlocked' \in [Users -> SUBSET AchievementCode]
           /\ announced' \in [Users -> [AchievementCode -> Nat]]
           /\ active' \in [Users -> SUBSET Nat]
<1> DEFINE u     == call[r].user
           row   == ApplyOfficialResults(users[u], local[r].points_earned, Today)
           fresh == CodesToUnlock(row, local[r].score = FullScore, unlocked[u])
<1>1. CASE ~local[r].is_official
  BY <1>1 DEF RewardUser, Typed, TypeOK
<1>2. CASE local[r].is_official
  <2>1. u \in Users /\ local[r] \in Locals
    BY DEF Typed, TypeOK, Underway, Call
  <2>2. local[r].points_earned \in Nat
    BY <2>1, ConstantsAssumption DEF Locals
  <2>3. Today \in Nat
    BY ConstantsAssumption, DivType DEF Today, Typed, TypeOK
  <2>4. row \in UserRow
    BY <2>1, <2>2, <2>3, ApplyOfficialResultsType DEF Typed, TypeOK
  <2>5. fresh \subseteq AchievementCode
    BY DEF CodesToUnlock
  <2>6. [c \in AchievementCode |-> IF c \in fresh THEN announced[u][c] + 1
                                                   ELSE announced[u][c]]
            \in [AchievementCode -> Nat]
    BY <2>1 DEF Typed, TypeOK
  <2>7. /\ users' = [users EXCEPT ![u] = row]
        /\ unlocked' = [unlocked EXCEPT ![u] = @ \cup fresh]
        /\ announced' = [announced EXCEPT ![u] =
              [c \in AchievementCode |-> IF c \in fresh THEN announced[u][c] + 1
                                                         ELSE announced[u][c]]]
        /\ active' = [active EXCEPT ![u] = active[u] \cup {Today}]
    BY <1>2, <2>1 DEF RewardUser, Typed, TypeOK
  <2> HIDE DEF row, fresh, u
  <2>8. active' \in [Users -> SUBSET Nat]
    BY <2>1, <2>3, <2>7 DEF Typed, TypeOK
  <2> QED
    BY <2>1, <2>4, <2>5, <2>6, <2>7, <2>8 DEF Typed, TypeOK
<1> QED
  BY <1>1, <1>2

LEMMA CompleteSessionTyped ==
    ASSUME Typed, NEW s \in Requests \cup {NoSession}, CompleteSession(s),
           s # NoSession => sessions[s] # NoRow
    PROVE  sessions' \in [Requests -> SessionRow \cup {NoRow}]
<1>1. CASE s = NoSession
  BY <1>1 DEF CompleteSession, Typed, TypeOK
<1>2. CASE s # NoSession
  <2>1. sessions[s] \in SessionRow
    BY <1>2 DEF Typed, TypeOK
  <2>2. [sessions[s] EXCEPT !.is_completed = TRUE] \in SessionRow
    BY <2>1 DEF SessionRow
  <2>3. sessions' = [sessions EXCEPT ![s] =
                        [sessions[s] EXCEPT !.is_completed = TRUE]]
    BY <1>2 DEF CompleteSession, Typed, TypeOK
  <2> QED
    BY <2>2, <2>3 DEF Typed, TypeOK
<1> QED
  BY <1>1, <1>2

-----------------------------------------------------------------------------
(* What the row lock buys.  A request inside its transaction holds the lock *)
(* of its user, and while it does nobody else spends the session it is about *)
(* to spend.                                                                 *)
LockHeld ==
    \A r \in Requests : pc[r] \in InTransaction => lock[call[r].user] = r

SessionHeld ==
    \A r \in Requests :
        pc[r] \in {"timed", "graded"} /\ call[r].session # NoSession
            => UsableSession(r)

(* A request inserts its row in the step that answers it. *)
RowsOfAnswered ==
    \A r \in Requests :
        sessions[r] # NoRow \/ submissions[r] # NoRow => pc[r] \in Answered

Held == Typed /\ LockHeld /\ SessionHeld /\ RowsOfAnswered

LEMMA InitHeld == Init => Held
BY InitTyped DEF Init, Held, LockHeld, SessionHeld, RowsOfAnswered, InTransaction

(* A refusal or a failure. *)
Refusal(r) ==
    \/ StartDenied(r) \/ StartResume(r) \/ SubmitEmpty(r) \/ SubmitBadSession(r)
    \/ SubmitOrphaned(r) \/ Fail(r)

LEMMA RefusalShape ==
    ASSUME NEW r \in Requests, Refusal(r)
    PROVE  /\ \E label \in Answered : Answer(r, label)
           /\ UNCHANGED <<now, database, call>>
           /\ \/ pc[r] \in InTransaction /\ Release(r)
              \/ UNCHANGED lock
BY DEF Refusal, StartDenied, StartResume, SubmitEmpty, SubmitBadSession,
       SubmitOrphaned, Fail, Answered, InTransaction

LEMMA SubmitCommitTyped ==
    ASSUME Held, NEW r \in Requests, SubmitCommit(r)
    PROVE  Typed'
<1> DEFINE row == [user |-> call[r].user, test |-> call[r].test,
                   session |-> call[r].session,
                   is_official |-> local[r].is_official,
                   score |-> local[r].score,
                   points_earned |-> local[r].points_earned,
                   submitted_at |-> local[r].submitted_at,
                   completion_time |-> local[r].elapsed]
<1>1. pc[r] = "graded" /\ pc[r] \in InFlight /\ "done" \in Answered
  BY DEF SubmitCommit, InFlight, InTransaction, Answered
<1>2. call[r] \in Call /\ local[r] \in Locals
  BY <1>1 DEF Held, Typed, TypeOK, Underway
<1>3. row \in SubmissionRow
  BY <1>2 DEF Call, Locals, SubmissionRow
<1>4. submissions' = [submissions EXCEPT ![r] = row]
  BY DEF SubmitCommit, PersistSubmission
<1> HIDE DEF row
<1>5. submissions' \in [Requests -> SubmissionRow \cup {NoRow}]
  BY <1>3, <1>4 DEF Held, Typed, TypeOK
<1>6. call[r].session # NoSession => sessions[call[r].session] # NoRow
  BY <1>1 DEF Held, SessionHeld, UsableSession, SessionsOf
<1>7. sessions' \in [Requests -> SessionRow \cup {NoRow}]
  BY <1>2, <1>6, CompleteSessionTyped DEF SubmitCommit, Held, Call
<1>8. /\ users' \in [Users -> UserRow]
      /\ unlocked' \in [Users -> SUBSET AchievementCode]
      /\ announced' \in [Users -> [AchievementCode -> Nat]]
      /\ active' \in [Users -> SUBSET Nat]
  BY <1>1, RewardUserTyped DEF SubmitCommit, Held
<1>9. lock' \in [Users -> Requests \cup {Nobody}]
  BY ReleaseType DEF SubmitCommit, Held, Typed
<1>10. /\ pc' \in [Requests -> Labels]
       /\ local' \in [Requests -> Locals]
       /\ Underway'
  BY <1>1, AnswerStep DEF SubmitCommit, Held
<1>11. UNCHANGED <<now, tests, papers, call>>
  BY DEF SubmitCommit
<1> QED
  BY <1>5, <1>7, <1>8, <1>9, <1>10, <1>11 DEF Held, Typed, TypeOK, Labels

LEMMA EditTyped ==
    ASSUME Typed, NEW t \in Tests, Edit(t)
    PROVE  Typed' /\ UNCHANGED <<now, sessions, submissions, users, unlocked,
                                 announced, active, lock, pc, call, local>>
<1>1. UNCHANGED <<now, sessions, submissions, users, unlocked, announced,
                  active, lock, pc, call, local>>
  BY DEF Edit, SaveTest, ImportTest, BulkAction
<1>2. tests' \in [Tests -> TestRow] /\ papers' \in [Tests -> Paper]
  <2>1. ASSUME NEW row \in TestRows, NEW worth \in Worths, SaveTest(t, row, worth)
        PROVE  tests' \in [Tests -> TestRow] /\ papers' \in [Tests -> Paper]
    <3>1. row \in TestRow /\ worth \in Nat
      BY ConstantsAssumption, RowsAssumption
    <3>2. papers[t] \in Paper
      BY DEF Typed, TypeOK
    <3> DEFINE emptied == worth = 0 /\ papers[t].worth # 0
               edition == IF emptied THEN papers[t].edition + 1
                                     ELSE papers[t].edition
    <3>3. edition \in Nat
      BY <3>2 DEF Paper
    <3>4. /\ tests' = [tests EXCEPT ![t] = row]
          /\ papers' = [papers EXCEPT ![t] =
                            [edition |-> edition, worth |-> worth]]
      BY <2>1 DEF SaveTest, Typed, TypeOK
    <3> HIDE DEF emptied, edition
    <3>5. [edition |-> edition, worth |-> worth] \in Paper
      BY <3>1, <3>3, PaperType
    <3> QED
      BY <3>1, <3>4, <3>5 DEF Typed, TypeOK
  <2>2. ASSUME NEW row \in TestRows, NEW worth \in Worths, ImportTest(t, row, worth)
        PROVE  tests' \in [Tests -> TestRow] /\ papers' \in [Tests -> Paper]
    <3> DEFINE opened == [row EXCEPT !.start_datetime = tests[t].start_datetime]
               closed == [opened EXCEPT !.end_datetime = tests[t].end_datetime]
    <3>1. row \in TestRow /\ worth \in Nat
      BY ConstantsAssumption, RowsAssumption
    <3>2. tests[t] \in TestRow /\ papers[t] \in Paper
      BY DEF Typed, TypeOK
    <3>3. papers[t].edition + 1 \in Nat
      BY <3>2 DEF Paper
    <3>4. [edition |-> papers[t].edition + 1, worth |-> worth] \in Paper
      BY <3>1, <3>3, PaperType
    <3>5. opened \in TestRow
      BY <3>1, <3>2 DEF TestRow
    <3>6. tests' = [tests EXCEPT ![t] = closed]
      BY <2>2 DEF ImportTest
    <3> HIDE DEF opened
    <3>7. closed \in TestRow
      BY <3>2, <3>5 DEF TestRow
    <3> HIDE DEF closed
    <3>8. papers' = [papers EXCEPT ![t] =
                        [edition |-> papers[t].edition + 1, worth |-> worth]]
      BY <2>2 DEF ImportTest, Typed, TypeOK
    <3> QED
      BY <3>4, <3>6, <3>7, <3>8 DEF Typed, TypeOK
  <2>3. ASSUME NEW flag \in BOOLEAN, BulkAction(t, flag)
        PROVE  tests' \in [Tests -> TestRow] /\ papers' \in [Tests -> Paper]
    <3>1. tests[t] \in TestRow
      BY DEF Typed, TypeOK
    <3>2. /\ [tests[t] EXCEPT !.is_published = flag] \in TestRow
          /\ [tests[t] EXCEPT !.is_active = flag] \in TestRow
      BY <3>1 DEF TestRow
    <3>3. \/ tests' = [tests EXCEPT ![t] = [tests[t] EXCEPT !.is_published = flag]]
          \/ tests' = [tests EXCEPT ![t] = [tests[t] EXCEPT !.is_active = flag]]
      BY <2>3 DEF BulkAction, Typed, TypeOK
    <3> QED
      BY <2>3, <3>2, <3>3 DEF BulkAction, Typed, TypeOK
  <2> QED
    BY <2>1, <2>2, <2>3 DEF Edit
<1> QED
  BY <1>1, <1>2 DEF Typed, TypeOK, Underway

-----------------------------------------------------------------------------
(* The steps of the system, grouped by what they write. *)
Arrival(r) ==
    \E u \in Users, t \in Tests, s \in Requests \cup {NoSession},
       label \in {"starting", "submitting"} : Fetch(r, u, t, s, label)

Decide(r) ==
    pc[r] = "timed" /\ \E c \in 0 .. local[r].paper.worth : SubmitDecide(r, c)

(* Steps of a request that write no table. *)
Quiet(r) ==
    Arrival(r) \/ Refusal(r) \/ StartInsert(r) \/ SubmitLock(r)
        \/ SubmitResolve(r) \/ Decide(r)

LEMMA NextCases ==
    ASSUME [Next]_vars
    PROVE  \/ UNCHANGED vars
           \/ Tick
           \/ \E t \in Tests : Edit(t)
           \/ \E r \in Requests : Quiet(r) \/ StartCommit(r) \/ SubmitCommit(r)
<1>1. ASSUME NEW r \in Requests, Arrive(r) PROVE Arrival(r)
  BY <1>1 DEF Arrive, Arrival, StartFetch, SubmitFetch
<1>2. ASSUME NEW r \in Requests, Step(r) \/ Fail(r)
      PROVE  Quiet(r) \/ StartCommit(r) \/ SubmitCommit(r)
  BY <1>2 DEF Step, Quiet, Refusal, Decide
<1> QED
  BY <1>1, <1>2, ConstantsAssumption DEF Next, Finished, Quiet

LEMMA QuietTables ==
    ASSUME NEW r \in Requests, Quiet(r)
    PROVE  UNCHANGED <<now, database>>
<1>1. CASE Arrival(r)
  BY <1>1 DEF Arrival, Fetch
<1>2. CASE Refusal(r)
  BY <1>2, RefusalShape
<1>3. CASE StartInsert(r) \/ SubmitLock(r) \/ SubmitResolve(r)
  BY <1>3 DEF StartInsert, SubmitLock, SubmitResolve
<1>4. CASE Decide(r)
  BY <1>4 DEF Decide, SubmitDecide
<1> QED
  BY <1>1, <1>2, <1>3, <1>4 DEF Quiet

LEMMA TypedStep ==
    ASSUME Held, [Next]_vars
    PROVE  Typed'
<1>1. CASE UNCHANGED vars
  BY <1>1 DEF Held, Typed, TypeOK, Underway, vars, database
<1>2. CASE Tick
  BY <1>2 DEF Held, Typed, TypeOK, Underway, Tick, database
<1>3. ASSUME NEW t \in Tests, Edit(t) PROVE Typed'
  BY <1>3, EditTyped DEF Held
<1>4. ASSUME NEW r \in Requests, Quiet(r) \/ StartCommit(r) \/ SubmitCommit(r)
      PROVE  Typed'
  <2>1. CASE Arrival(r)
    BY <2>1, FetchTyped DEF Arrival, Held
  <2>2. CASE Refusal(r) \/ StartInsert(r) \/ StartCommit(r)
    BY <2>2, StartTyped, RefusalTyped DEF Refusal, Held
  <2>3. CASE SubmitLock(r) \/ SubmitResolve(r)
    BY <2>3, SubmitLockTyped, SubmitResolveTyped DEF Held
  <2>4. CASE Decide(r)
    BY <2>4, SubmitDecideTyped DEF Decide, Held
  <2>5. CASE SubmitCommit(r)
    BY <2>5, SubmitCommitTyped
  <2> QED
    BY <1>4, <2>1, <2>2, <2>3, <2>4, <2>5 DEF Quiet
<1> QED
  BY <1>1, <1>2, <1>3, <1>4, NextCases

(* A step of r changes the control state of no other request. *)
LEMMA OthersWait ==
    ASSUME Typed, NEW r \in Requests,
           Quiet(r) \/ StartCommit(r) \/ SubmitCommit(r),
           NEW q \in Requests, q # r
    PROVE  pc'[q] = pc[q] /\ call'[q] = call[q] /\ local'[q] = local[q]
<1>1. ASSUME NEW label, NEW locals, Goto(r, label, locals)
      PROVE  pc'[q] = pc[q] /\ local'[q] = local[q]
  BY <1>1 DEF Goto, Typed, TypeOK
<1>2. CASE Arrival(r)
  <2>1. call'[q] = call[q]
    BY <1>2 DEF Arrival, Fetch, Typed, TypeOK
  <2> QED
    BY <1>1, <1>2, <2>1 DEF Arrival, Fetch
<1>3. CASE Refusal(r)
  BY <1>1, <1>3, RefusalShape DEF Answer
<1>4. CASE StartInsert(r) \/ StartCommit(r)
  BY <1>1, <1>4 DEF StartInsert, StartCommit, Answer
<1>5. CASE SubmitLock(r) \/ SubmitResolve(r)
  BY <1>1, <1>5 DEF SubmitLock, SubmitResolve
<1>6. CASE Decide(r) \/ SubmitCommit(r)
  BY <1>1, <1>6 DEF Decide, SubmitDecide, SubmitCommit, Answer
<1> QED
  BY <1>2, <1>3, <1>4, <1>5, <1>6 DEF Quiet

LEMMA LockHeldStep ==
    ASSUME Held, [Next]_vars
    PROVE  LockHeld'
<1>1. CASE UNCHANGED <<pc, call, lock>>
  BY <1>1 DEF Held, LockHeld
<1>2. ASSUME NEW r \in Requests, Quiet(r) \/ StartCommit(r) \/ SubmitCommit(r)
      PROVE  LockHeld'
  <2> SUFFICES ASSUME NEW q \in Requests, (pc[q] \in InTransaction)'
               PROVE  (lock[call[q].user] = q)'
    BY DEF LockHeld
  <2>1. CASE q # r
    <3>1. pc[q] \in InTransaction /\ call'[q] = call[q]
      BY <1>2, <2>1, OthersWait DEF Held
    <3>2. lock[call[q].user] = q
      BY <3>1 DEF Held, LockHeld
    <3>3. call[q].user \in Users
      BY <3>1 DEF Held, Typed, Underway, Call, InFlight
    <3>4. \/ UNCHANGED lock
          \/ pc[r] \in InTransaction /\ Release(r)
          \/ SubmitLock(r)
      BY <1>2, RefusalShape
         DEF Quiet, Arrival, Fetch, StartInsert, SubmitResolve, Decide,
             SubmitDecide, StartCommit, SubmitCommit, InTransaction
    <3>5. CASE pc[r] \in InTransaction /\ Release(r)
      <4>1. lock[call[r].user] = r
        BY <3>5 DEF Held, LockHeld
      <4> QED
        BY <2>1, <3>1, <3>2, <3>3, <3>5, <4>1 DEF Release, Held, Typed, TypeOK
    <3>6. CASE SubmitLock(r)
      <4>1. lock[call[r].user] = Nobody
        BY <3>6 DEF SubmitLock, RowIsFree
      <4> QED
        BY <3>1, <3>2, <3>3, <3>6, <4>1, ConstantsAssumption
           DEF SubmitLock, Held, Typed, TypeOK
    <3> QED
      BY <3>1, <3>2, <3>4, <3>5, <3>6
  <2>2. CASE q = r
    <3>1. CASE SubmitLock(r)
      <4>1. call[r].user \in Users
        BY <3>1 DEF SubmitLock, Held, Typed, Underway, Call, InFlight
      <4> QED
        BY <2>2, <3>1, <4>1 DEF SubmitLock, Held, Typed, TypeOK
    <3>2. CASE SubmitResolve(r) \/ Decide(r)
      BY <2>2, <3>2
         DEF SubmitResolve, Decide, SubmitDecide, Held, LockHeld, InTransaction
    <3>3. CASE Arrival(r) \/ Refusal(r) \/ StartInsert(r) \/ StartCommit(r)
               \/ SubmitCommit(r)
      <4>1. pc'[r] \notin InTransaction
        BY <3>3, RefusalShape
           DEF Arrival, Fetch, StartInsert, StartCommit, SubmitCommit, Answer,
               Goto, InTransaction, Answered, Held, Typed, TypeOK
      <4> QED
        BY <2>2, <4>1
    <3> QED
      BY <1>2, <3>1, <3>2, <3>3 DEF Quiet
  <2> QED
    BY <2>1, <2>2
<1>3. UNCHANGED vars \/ Tick => UNCHANGED <<pc, call, lock>>
  BY DEF vars, Tick
<1>4. ASSUME NEW t \in Tests, Edit(t) PROVE UNCHANGED <<pc, call, lock>>
  BY <1>4, EditTyped DEF Held
<1> QED
  BY <1>1, <1>2, <1>3, <1>4, NextCases

(* An answered request takes no further step. *)
LEMMA AnsweredIsFinal ==
    ASSUME NEW r \in Requests, Quiet(r) \/ StartCommit(r) \/ SubmitCommit(r)
    PROVE  pc[r] \notin Answered
BY DEF Quiet, Arrival, Fetch, Refusal, StartDenied, StartResume, StartInsert,
       StartCommit, SubmitLock, SubmitEmpty, SubmitResolve, SubmitBadSession,
       Decide, SubmitCommit, SubmitOrphaned, Fail, InFlight, Started,
       InTransaction, Answered

(* Two requests inside their transactions are about different users. *)
LEMMA OneTransactionPerUser ==
    ASSUME Held, NEW p \in Requests, NEW q \in Requests,
           pc[p] \in InTransaction, pc[q] \in InTransaction,
           call[p].user = call[q].user
    PROVE  p = q
BY DEF Held, LockHeld

(* What a commit does to the sessions: it completes the one it spends. *)
LEMMA CommittedSessions ==
    ASSUME Held, NEW r \in Requests, SubmitCommit(r), NEW s \in Requests
    PROVE  /\ s # call[r].session => sessions'[s] = sessions[s]
           /\ s = call[r].session =>
                 /\ sessions[s] \in SessionRow
                 /\ sessions'[s] = [sessions[s] EXCEPT !.is_completed = TRUE]
<1>1. s = call[r].session => sessions[s] \in SessionRow
  BY ConstantsAssumption
     DEF SubmitCommit, Held, SessionHeld, UsableSession, SessionsOf, Typed, TypeOK
<1>2. sessions \in [Requests -> SessionRow \cup {NoRow}]
  BY DEF Held, Typed, TypeOK
<1>3. CASE call[r].session = NoSession
  <2>1. sessions' = sessions
    BY <1>3 DEF SubmitCommit, CompleteSession
  <2> QED
    BY <1>3, <2>1, ConstantsAssumption
<1>4. CASE call[r].session # NoSession
  <2>1. sessions' = [sessions EXCEPT ![call[r].session].is_completed = TRUE]
    BY <1>4 DEF SubmitCommit, CompleteSession
  <2> QED
    BY <1>1, <1>2, <2>1
<1> QED
  BY <1>3, <1>4

LEMMA RowsOfAnsweredStep ==
    ASSUME Held, [Next]_vars
    PROVE  RowsOfAnswered'
<1>1. ASSUME UNCHANGED <<pc, sessions, submissions>> PROVE RowsOfAnswered'
  BY <1>1 DEF Held, RowsOfAnswered
<1>2. ASSUME NEW r \in Requests, Quiet(r) \/ StartCommit(r) \/ SubmitCommit(r)
      PROVE  RowsOfAnswered'
  <2> SUFFICES ASSUME NEW q \in Requests,
                      sessions'[q] # NoRow \/ submissions'[q] # NoRow
               PROVE  pc'[q] \in Answered
    BY DEF RowsOfAnswered
  <2>1. CASE Quiet(r)
    <3>1. q # r
      BY <2>1, QuietTables, AnsweredIsFinal DEF Held, RowsOfAnswered, database
    <3> QED
      BY <2>1, <3>1, QuietTables, OthersWait DEF Held, RowsOfAnswered, database
  <2>2. CASE StartCommit(r) /\ q # r
    BY <2>2, OthersWait DEF StartCommit, Held, RowsOfAnswered, Typed, TypeOK
  <2>3. CASE SubmitCommit(r) /\ q # r
    <3>1. sessions'[q] # NoRow => sessions[q] # NoRow
      <4>1. CASE q = call[r].session
        BY <2>3, <4>1, ConstantsAssumption
           DEF SubmitCommit, Held, SessionHeld, UsableSession, SessionsOf
      <4>2. CASE q # call[r].session
        BY <2>3, <4>2, CommittedSessions
      <4> QED
        BY <4>1, <4>2
    <3>2. submissions'[q] = submissions[q]
      BY <2>3 DEF SubmitCommit, PersistSubmission, Held, Typed, TypeOK
    <3> QED
      BY <2>3, <3>1, <3>2, OthersWait DEF Held, RowsOfAnswered
  <2>4. CASE (StartCommit(r) \/ SubmitCommit(r)) /\ q = r
    BY <2>4
       DEF StartCommit, SubmitCommit, Answer, Goto, Answered, Held, Typed, TypeOK
  <2> QED
    BY <1>2, <2>1, <2>2, <2>3, <2>4
<1>3. UNCHANGED vars \/ Tick => UNCHANGED <<pc, sessions, submissions>>
  BY DEF vars, database, Tick
<1>4. ASSUME NEW t \in Tests, Edit(t) PROVE UNCHANGED <<pc, sessions, submissions>>
  BY <1>4, EditTyped DEF Held
<1> QED
  BY <1>1, <1>2, <1>3, <1>4, NextCases

LEMMA SessionHeldStep ==
    ASSUME Held, [Next]_vars
    PROVE  SessionHeld'
<1>1. ASSUME UNCHANGED <<pc, call, sessions>> PROVE SessionHeld'
  BY <1>1 DEF Held, SessionHeld, UsableSession, SessionsOf
<1>2. ASSUME NEW r \in Requests, Quiet(r) \/ StartCommit(r) \/ SubmitCommit(r)
      PROVE  SessionHeld'
  <2> SUFFICES ASSUME NEW q \in Requests,
                      (pc[q] \in {"timed", "graded"} /\ call[q].session # NoSession)'
               PROVE  UsableSession(q)'
    BY DEF SessionHeld
  <2>1. CASE q # r
    <3>1. pc[q] \in {"timed", "graded"} /\ call'[q] = call[q]
      BY <1>2, <2>1, OthersWait DEF Held
    <3>2. UsableSession(q)
      BY <2>1, <3>1 DEF Held, SessionHeld
    <3> DEFINE s == call[q].session
    <3>3. /\ s \in Requests /\ sessions[s] # NoRow /\ ~sessions[s].is_completed
          /\ sessions[s].user = call[q].user /\ sessions[s].test = call[q].test
      BY <3>2 DEF UsableSession, SessionsOf
    <3>4. sessions'[s] = sessions[s]
      <4>1. CASE Quiet(r)
        BY <4>1, QuietTables DEF database
      <4>2. CASE StartCommit(r)
        <5>1. s # r
          BY <3>3, <4>2, AnsweredIsFinal, Zenon DEF Held, RowsOfAnswered
        <5> QED
          BY <4>2, <5>1 DEF StartCommit, Held, Typed, TypeOK
      <4>3. CASE SubmitCommit(r)
        <5>1. ASSUME s = call[r].session PROVE FALSE
          <6>1. pc[r] = "graded" /\ UsableSession(r)
            BY <3>3, <4>3, <5>1, ConstantsAssumption
               DEF SubmitCommit, Held, SessionHeld
          <6>2. call[r].user = call[q].user
            BY <3>3, <5>1, <6>1 DEF UsableSession, SessionsOf
          <6> QED
            BY <2>1, <3>1, <6>1, <6>2, OneTransactionPerUser DEF InTransaction
        <5> QED
          BY <3>3, <4>3, <5>1, CommittedSessions
      <4> QED
        BY <1>2, <4>1, <4>2, <4>3
    <3> QED
      BY <3>1, <3>3, <3>4 DEF UsableSession, SessionsOf
  <2>2. CASE q = r
    <3>1. SubmitResolve(r) \/ Decide(r)
      BY <1>2, <2>2, RefusalShape
         DEF Quiet, Arrival, Fetch, StartInsert, SubmitLock, StartCommit,
             SubmitCommit, Answer, Goto, Answered, Held, Typed, TypeOK
    <3>2. UNCHANGED <<sessions, call>>
      BY <3>1 DEF SubmitResolve, Decide, SubmitDecide, database
    <3>3. UsableSession(r)
      BY <2>2, <3>1, <3>2
         DEF SubmitResolve, Decide, Held, SessionHeld
    <3> QED
      BY <2>2, <3>2, <3>3 DEF UsableSession, SessionsOf
  <2> QED
    BY <2>1, <2>2
<1>3. UNCHANGED vars \/ Tick => UNCHANGED <<pc, call, sessions>>
  BY DEF vars, database, Tick
<1>4. ASSUME NEW t \in Tests, Edit(t) PROVE UNCHANGED <<pc, call, sessions>>
  BY <1>4, EditTyped DEF Held
<1> QED
  BY <1>1, <1>2, <1>3, <1>4, NextCases

(* The inductive part common to all that follows. *)
THEOREM HeldInvariant == Spec => []Held
<1>1. Held /\ [Next]_vars => Held'
  BY TypedStep, LockHeldStep, SessionHeldStep, RowsOfAnsweredStep DEF Held
<1> QED
  BY <1>1, InitHeld, PTL DEF Spec

(* Every table, lock and local variable keeps its type. *)
THEOREM TypeCorrect == Spec => []TypeOK
<1>1. Held => TypeOK
  BY DEF Held, Typed
<1> QED
  BY <1>1, HeldInvariant, PTL

-----------------------------------------------------------------------------
(* What a commit does to the submissions: it adds the row of its request. *)
LEMMA CommittedSubmission ==
    ASSUME Held, NEW r \in Requests, SubmitCommit(r)
    PROVE  /\ submissions[r] = NoRow
           /\ submissions'[r] \in SubmissionRow /\ submissions'[r] # NoRow
           /\ submissions'[r].user = call[r].user
           /\ submissions'[r].test = call[r].test
           /\ submissions'[r].session = call[r].session
           /\ submissions'[r].is_official = local[r].is_official
           /\ submissions'[r].points_earned = local[r].points_earned
           /\ submissions'[r].score = local[r].score
           /\ submissions'[r].submitted_at = local[r].submitted_at
           /\ submissions'[r].completion_time = local[r].elapsed
           /\ \A q \in Requests : q # r => submissions'[q] = submissions[q]
<1> DEFINE row == [user |-> call[r].user, test |-> call[r].test,
                   session |-> call[r].session,
                   is_official |-> local[r].is_official,
                   score |-> local[r].score,
                   points_earned |-> local[r].points_earned,
                   submitted_at |-> local[r].submitted_at,
                   completion_time |-> local[r].elapsed]
<1>1. submissions[r] = NoRow
  BY AnsweredIsFinal DEF Held, RowsOfAnswered
<1>2. pc[r] \in InFlight
  BY DEF SubmitCommit, InFlight, InTransaction
<1>3. call[r] \in Call /\ local[r] \in Locals
  BY <1>2 DEF Held, Typed, TypeOK, Underway
<1>4. row \in SubmissionRow
  BY <1>3 DEF Call, Locals, SubmissionRow
<1>5. row # NoRow
  BY <1>4, RowsAssumption
<1>6. /\ submissions' = [submissions EXCEPT ![r] = row]
      /\ submissions \in [Requests -> SubmissionRow \cup {NoRow}]
  BY DEF SubmitCommit, PersistSubmission, Held, Typed, TypeOK
<1>7. /\ row.user = call[r].user /\ row.test = call[r].test
      /\ row.session = call[r].session
      /\ row.is_official = local[r].is_official
      /\ row.points_earned = local[r].points_earned
      /\ row.score = local[r].score
      /\ row.submitted_at = local[r].submitted_at
      /\ row.completion_time = local[r].elapsed
  OBVIOUS
<1> HIDE DEF row
<1> QED
  BY <1>1, <1>4, <1>5, <1>6, <1>7

(* What is decided is that no official attempt exists and a session does. *)
LEMMA DecidedOfficial ==
    ASSUME Held, NEW r \in Requests, Decide(r), local'[r].is_official
    PROVE  /\ OfficialOf(call[r].user, call[r].test) = {}
           /\ call[r].session # NoSession
<1> DEFINE official == /\ OfficialOf(call[r].user, call[r].test) = {}
                       /\ call[r].session # NoSession
                       /\ local[r].within_time
                       /\ IsAvailable(local[r].row, now)
<1>1. PICK c \in 0 .. local[r].paper.worth : SubmitDecide(r, c)
  BY DEF Decide
<1> DEFINE locals == [local[r] EXCEPT
              !.is_official   = official,
              !.score         = Percentage(c, local[r].paper.worth),
              !.points_earned = PointsEarned(official, local[r].row.reward_points,
                                             c, local[r].paper.worth),
              !.submitted_at  = now]
<1>2. Goto(r, "graded", locals)
  BY <1>1 DEF SubmitDecide
<1>3. local'[r] = locals
  BY <1>2 DEF Goto, Held, Typed, TypeOK
<1>4. local[r] \in Locals
  BY DEF Held, Typed, TypeOK
<1>5. locals.is_official = official
  <2> HIDE DEF official
  <2> QED
    BY <1>4 DEF Locals
<1>6. official
  BY <1>3, <1>5
<1> QED
  BY <1>6

LEMMA DecisionStandsStep ==
    ASSUME Held, DecisionStands, [Next]_vars
    PROVE  DecisionStands'
<1>1. ASSUME UNCHANGED <<pc, call, local, submissions>> PROVE DecisionStands'
  BY <1>1 DEF DecisionStands, OfficialOf, SubmissionRows
<1>2. ASSUME NEW r \in Requests, Quiet(r) \/ StartCommit(r) \/ SubmitCommit(r)
      PROVE  DecisionStands'
  <2> SUFFICES ASSUME NEW q \in Requests,
                      (pc[q] = "graded" /\ local[q].is_official)'
               PROVE  (OfficialOf(call[q].user, call[q].test) = {})'
    BY DEF DecisionStands
  <2>1. CASE q # r
    <3>1. /\ pc[q] = "graded" /\ local[q].is_official /\ call'[q] = call[q]
      BY <1>2, <2>1, OthersWait DEF Held
    <3>2. OfficialOf(call[q].user, call[q].test) = {}
      BY <3>1 DEF DecisionStands
    <3>3. CASE Quiet(r) \/ StartCommit(r)
      <4>1. UNCHANGED submissions
        BY <3>3, QuietTables DEF database, StartCommit
      <4> QED
        BY <3>1, <3>2, <4>1 DEF OfficialOf, SubmissionRows
    <3>4. CASE SubmitCommit(r)
      <4>1. call[r].user # call[q].user
        BY <2>1, <3>1, <3>4, OneTransactionPerUser
           DEF SubmitCommit, InTransaction
      <4> QED
        BY <3>1, <3>2, <3>4, <4>1, CommittedSubmission
           DEF OfficialOf, SubmissionRows
    <3> QED
      BY <1>2, <3>3, <3>4
  <2>2. CASE q = r
    <3>1. Decide(r)
      BY <1>2, <2>2, RefusalShape
         DEF Quiet, Arrival, Fetch, StartInsert, SubmitLock, SubmitResolve,
             StartCommit, SubmitCommit, Answer, Goto, Answered, Held, Typed,
             TypeOK
    <3>2. UNCHANGED <<call, submissions>>
      BY <3>1 DEF Decide, SubmitDecide, database
    <3>3. OfficialOf(call[r].user, call[r].test) = {}
      BY <2>2, <3>1, DecidedOfficial
    <3> QED
      BY <2>2, <3>2, <3>3 DEF OfficialOf, SubmissionRows
  <2> QED
    BY <2>1, <2>2
<1>3. UNCHANGED vars \/ Tick => UNCHANGED <<pc, call, local, submissions>>
  BY DEF vars, database, Tick
<1>4. ASSUME NEW t \in Tests, Edit(t)
      PROVE  UNCHANGED <<pc, call, local, submissions>>
  BY <1>4, EditTyped DEF Held
<1> QED
  BY <1>1, <1>2, <1>3, <1>4, NextCases

(* The unique constraint never has to refuse: the row lock makes "no official *)
(* attempt yet" stay true from the moment submit_test read it to its commit.  *)
THEOREM DecisionAlwaysStands == Spec => []DecisionStands
<1>1. Init => DecisionStands
  BY DEF Init, DecisionStands
<1>2. Held /\ DecisionStands /\ [Next]_vars => DecisionStands'
  BY DecisionStandsStep
<1> QED
  BY <1>1, <1>2, HeldInvariant, PTL DEF Spec

-----------------------------------------------------------------------------
(* The strengthening of SessionSpentOnce: a submission spends a completed     *)
(* session, a completed session has been spent, and no two submissions spend *)
(* the same one.                                                             *)
SpendsCompleted ==
    \A q \in SubmissionRows :
        LET s == submissions[q].session
        IN  s # NoSession => sessions[s] # NoRow /\ sessions[s].is_completed

CompletedIsSpent ==
    \A s \in Requests :
        sessions[s] # NoRow /\ sessions[s].is_completed
            => \E q \in SubmissionRows : submissions[q].session = s

SpentByOne ==
    \A p, q \in SubmissionRows :
        submissions[p].session = submissions[q].session
            /\ submissions[p].session # NoSession => p = q

Spent == SpendsCompleted /\ CompletedIsSpent /\ SpentByOne

LEMMA SpentStep ==
    ASSUME Held, Spent, [Next]_vars
    PROVE  Spent'
<1>1. ASSUME UNCHANGED <<sessions, submissions>> PROVE Spent'
  BY <1>1
     DEF Spent, SpendsCompleted, CompletedIsSpent, SpentByOne, SubmissionRows
<1>2. ASSUME NEW r \in Requests, StartCommit(r) PROVE Spent'
  <2>1. sessions[r] = NoRow
    BY <1>2, AnsweredIsFinal DEF Held, RowsOfAnswered
  <2>2. /\ UNCHANGED submissions
        /\ \A s \in Requests : s # r => sessions'[s] = sessions[s]
        /\ ~sessions'[r].is_completed
    BY <1>2 DEF StartCommit, Held, Typed, TypeOK
  <2>3. ASSUME NEW q \in SubmissionRows, submissions[q].session # NoSession
        PROVE  submissions[q].session \in Requests /\ submissions[q].session # r
    BY <2>1, <2>3
       DEF Spent, SpendsCompleted, SubmissionRows, Held, Typed, TypeOK,
           SubmissionRow
  <2>4. SpendsCompleted'
    BY <2>2, <2>3 DEF Spent, SpendsCompleted, SubmissionRows
  <2>5. CompletedIsSpent'
    BY <2>2 DEF Spent, CompletedIsSpent, SubmissionRows
  <2>6. SpentByOne'
    BY <2>2 DEF Spent, SpentByOne, SubmissionRows
  <2> QED
    BY <2>4, <2>5, <2>6 DEF Spent
<1>3. ASSUME NEW r \in Requests, SubmitCommit(r) PROVE Spent'
  <2> DEFINE s == call[r].session
  <2>1. /\ submissions[r] = NoRow /\ submissions'[r] # NoRow
        /\ submissions'[r].session = s
        /\ \A q \in Requests : q # r => submissions'[q] = submissions[q]
    BY <1>3, CommittedSubmission
  <2>2. /\ r \in SubmissionRows'
        /\ SubmissionRows' = SubmissionRows \cup {r}
        /\ r \notin SubmissionRows
    BY <2>1 DEF SubmissionRows
  <2>3. s # NoSession =>
            /\ s \in Requests /\ sessions[s] # NoRow /\ ~sessions[s].is_completed
            /\ sessions[s] \in SessionRow
    BY <1>3
       DEF SubmitCommit, Held, SessionHeld, UsableSession, SessionsOf, Typed, TypeOK
  <2>4. s # NoSession => sessions'[s] # NoRow /\ sessions'[s].is_completed
    <3>1. ASSUME s # NoSession PROVE sessions'[s] \in SessionRow
                                     /\ sessions'[s].is_completed
      <4>1. sessions'[s] = [sessions[s] EXCEPT !.is_completed = TRUE]
        BY <1>3, <2>3, <3>1, CommittedSessions
      <4>2. sessions[s] \in SessionRow
        BY <2>3, <3>1
      <4> QED
        BY <4>1, <4>2 DEF SessionRow
    <3> QED
      BY <3>1, RowsAssumption
  <2>5. \A other \in Requests : other # s => sessions'[other] = sessions[other]
    BY <1>3, CommittedSessions
  <2>6. \A q \in SubmissionRows : submissions[q].session = s => s = NoSession
    BY <2>3 DEF Spent, SpendsCompleted
  <2>7. \A q \in SubmissionRows :
            submissions[q].session \in Requests \cup {NoSession}
    BY DEF SubmissionRows, Held, Typed, TypeOK, SubmissionRow
  <2> HIDE DEF s
  <2>8. SpendsCompleted'
    <3> SUFFICES ASSUME NEW q \in SubmissionRows',
                        submissions'[q].session # NoSession
                 PROVE  /\ sessions'[submissions'[q].session] # NoRow
                        /\ sessions'[submissions'[q].session].is_completed
      BY DEF SpendsCompleted
    <3>1. CASE q = r
      BY <2>1, <2>4, <3>1
    <3>2. CASE q # r
      <4>1. q \in SubmissionRows /\ submissions'[q] = submissions[q]
        BY <2>1, <2>2, <3>2 DEF SubmissionRows
      <4> QED
        BY <2>5, <2>6, <2>7, <4>1 DEF Spent, SpendsCompleted
    <3> QED
      BY <3>1, <3>2
  <2>9. CompletedIsSpent'
    <3> SUFFICES ASSUME NEW c \in Requests, sessions'[c] # NoRow,
                        sessions'[c].is_completed
                 PROVE  \E q \in SubmissionRows' : submissions'[q].session = c
      BY DEF CompletedIsSpent
    <3>1. CASE c = s
      BY <2>1, <2>2, <3>1
    <3>2. CASE c # s
      <4>1. PICK q \in SubmissionRows : submissions[q].session = c
        BY <2>5, <3>2 DEF Spent, CompletedIsSpent
      <4> QED
        BY <2>1, <2>2, <4>1 DEF SubmissionRows
    <3> QED
      BY <3>1, <3>2
  <2>10. SpentByOne'
    <3> SUFFICES ASSUME NEW p \in SubmissionRows', NEW q \in SubmissionRows',
                        submissions'[p].session = submissions'[q].session,
                        submissions'[p].session # NoSession
                 PROVE  p = q
      BY DEF SpentByOne
    <3>1. \A o \in SubmissionRows' :
             o # r => o \in SubmissionRows /\ submissions'[o] = submissions[o]
      BY <2>1, <2>2 DEF SubmissionRows
    <3> QED
      BY <2>1, <2>6, <3>1 DEF Spent, SpentByOne
  <2> QED
    BY <2>8, <2>9, <2>10 DEF Spent
<1>4. UNCHANGED vars \/ Tick => UNCHANGED <<sessions, submissions>>
  BY DEF vars, database, Tick
<1>5. ASSUME NEW t \in Tests, Edit(t) PROVE UNCHANGED <<sessions, submissions>>
  BY <1>5, EditTyped DEF Held
<1>6. ASSUME NEW r \in Requests, Quiet(r) PROVE UNCHANGED <<sessions, submissions>>
  BY <1>6, QuietTables DEF database
<1> QED
  BY <1>1, <1>2, <1>3, <1>4, <1>5, <1>6, NextCases

LEMMA SpentOnce ==
    ASSUME Held, Spent
    PROVE  SessionSpentOnce
<1> SUFFICES ASSUME NEW s \in Requests, sessions[s] # NoRow
             PROVE  LET spenders == {r \in SubmissionRows :
                                        submissions[r].session = s}
                    IN  /\ Cardinality(spenders) <= 1
                        /\ sessions[s].is_completed <=> spenders # {}
  BY DEF SessionSpentOnce
<1> DEFINE spenders == {r \in SubmissionRows : submissions[r].session = s}
<1>1. s # NoSession
  BY ConstantsAssumption
<1>2. sessions[s].is_completed <=> spenders # {}
  BY <1>1 DEF Spent, SpendsCompleted, CompletedIsSpent, Held, Typed, TypeOK,
              SessionRow
<1>3. Cardinality(spenders) <= 1
  <2>1. \A p, q \in spenders : p = q
    BY <1>1 DEF Spent, SpentByOne
  <2> HIDE DEF spenders
  <2>2. CASE spenders = {}
    <3>1. Cardinality(spenders) = 0
      BY <2>2, FS_EmptySet, Zenon
    <3> QED
      BY <3>1
  <2>3. CASE spenders # {}
    <3>1. PICK q \in spenders : TRUE
      BY <2>3
    <3>2. spenders = {q}
      BY <2>1, <3>1
    <3>3. Cardinality({q}) = 1
      BY FS_Singleton
    <3> QED
      BY <3>2, <3>3
  <2> QED
    BY <2>2, <2>3
<1> QED
  BY <1>2, <1>3

(* No interleaving of submits spends a timer session twice, or completes it  *)
(* without a submission.                                                     *)
THEOREM SessionsSpentOnce == Spec => []SessionSpentOnce
<1>1. Init => Spent
  BY DEF Init, Spent, SpendsCompleted, CompletedIsSpent, SpentByOne,
         SubmissionRows
<1>2. Held /\ Spent /\ [Next]_vars => Spent'
  BY SpentStep
<1>3. Held /\ Spent => SessionSpentOnce
  BY SpentOnce
<1> QED
  BY <1>1, <1>2, <1>3, HeldInvariant, PTL DEF Spec

-----------------------------------------------------------------------------
(* The ledger.  Only a commit moves it, by the row it inserts. *)
LEMMA OnlyCommitsPay ==
    ASSUME Held, [Next]_vars, \A r \in Requests : ~SubmitCommit(r)
    PROVE  UNCHANGED <<submissions, users, unlocked, announced, active>>
<1> DEFINE paid == <<submissions, users, unlocked, announced, active>>
<1>1. UNCHANGED vars \/ Tick => UNCHANGED paid
  BY DEF vars, database, Tick
<1>2. ASSUME NEW t \in Tests, Edit(t) PROVE UNCHANGED paid
  BY <1>2, EditTyped DEF Held
<1>3. ASSUME NEW r \in Requests, Quiet(r) \/ StartCommit(r) PROVE UNCHANGED paid
  BY <1>3, QuietTables DEF database, StartCommit
<1> QED
  BY <1>1, <1>2, <1>3, NextCases

LEMMA CommittedReward ==
    ASSUME Held, NEW r \in Requests, SubmitCommit(r), NEW u \in Users
    PROVE  IF local[r].is_official /\ u = call[r].user
           THEN /\ users'[u].points = users[u].points + local[r].points_earned
                /\ users'[u].completed_tests = users[u].completed_tests + 1
           ELSE users'[u] = users[u]
<1> DEFINE v   == call[r].user
           row == ApplyOfficialResults(users[v], local[r].points_earned, Today)
<1>1. CASE ~local[r].is_official
  BY <1>1 DEF SubmitCommit, RewardUser
<1>2. CASE local[r].is_official
  <2>1. pc[r] \in InFlight
    BY DEF SubmitCommit, InFlight, InTransaction
  <2>2. v \in Users /\ users[v] \in UserRow
    BY <2>1 DEF Held, Typed, TypeOK, Underway, Call
  <2>3. users' = [users EXCEPT ![v] = row]
    BY <1>2 DEF SubmitCommit, RewardUser
  <2>4. /\ row.points = users[v].points + local[r].points_earned
        /\ row.completed_tests = users[v].completed_tests + 1
    BY <2>2 DEF ApplyOfficialResults, UserRow
  <2> HIDE DEF row
  <2> QED
    BY <1>2, <2>2, <2>3, <2>4 DEF Held, Typed, TypeOK
<1> QED
  BY <1>1, <1>2

LEMMA PracticeStep ==
    ASSUME Held, [Next]_vars, NEW u \in Users, users'[u] # users[u]
    PROVE  \E r \in Requests :
              /\ submissions[r] = NoRow /\ submissions'[r] # NoRow
              /\ submissions'[r].user = u /\ submissions'[r].is_official
              /\ users'[u].points = users[u].points + submissions'[r].points_earned
              /\ users'[u].completed_tests = users[u].completed_tests + 1
<1>1. PICK r \in Requests : SubmitCommit(r)
  BY OnlyCommitsPay
<1>2. local[r].is_official /\ u = call[r].user
  BY <1>1, CommittedReward
<1> WITNESS r \in Requests
<1> QED
  BY <1>1, <1>2, CommittedReward, CommittedSubmission

(* Nothing but an official submission moves a user's progress, and it moves  *)
(* the points by exactly what the submission records.                        *)
THEOREM PracticeNeverRanksAlways == Spec => PracticeNeverRanks
<1>1. Held /\ [Next]_vars =>
        [\A u \in Users : users'[u] # users[u] =>
          \E r \in Requests :
              /\ submissions[r] = NoRow /\ submissions'[r] # NoRow
              /\ submissions'[r].user = u /\ submissions'[r].is_official
              /\ users'[u].points = users[u].points + submissions'[r].points_earned
              /\ users'[u].completed_tests = users[u].completed_tests + 1]_vars
  BY PracticeStep
<1> QED
  BY <1>1, HeldInvariant, PTL DEF Spec, PracticeNeverRanks

LEMMA LedgerStep ==
    ASSUME Held, DecisionStands, [Next]_vars
    PROVE  [Ledger!Next]_<<Paid, Balance>>
<1>1. CASE \A r \in Requests : ~SubmitCommit(r)
  BY <1>1, OnlyCommitsPay
     DEF Paid, Balance, OfficialRows, SubmissionRows
<1>2. ASSUME NEW r \in Requests, SubmitCommit(r)
      PROVE  [Ledger!Next]_<<Paid, Balance>>
  <2> DEFINE u == call[r].user
             t == call[r].test
             points == local[r].points_earned
             award == [user |-> u, test |-> t, points |-> points]
  <2>1. pc[r] = "graded" /\ pc[r] \in InFlight
    BY <1>2 DEF SubmitCommit, InFlight, InTransaction
  <2>2. u \in Users /\ t \in Tests /\ points \in 0 .. MaxReward
    BY <2>1 DEF Held, Typed, TypeOK, Underway, Call, Locals
  <2>3. /\ submissions[r] = NoRow /\ submissions'[r] # NoRow
        /\ submissions'[r].user = u /\ submissions'[r].test = t
        /\ submissions'[r].points_earned = points
        /\ submissions'[r].is_official = local[r].is_official
        /\ \A q \in Requests : q # r => submissions'[q] = submissions[q]
    BY <1>2, CommittedSubmission
  <2>4. CASE ~local[r].is_official
    <3>1. OfficialRows' = OfficialRows
          /\ \A q \in OfficialRows : submissions'[q] = submissions[q]
      BY <2>3, <2>4 DEF OfficialRows, SubmissionRows
    <3>2. Paid' = Paid
      BY <3>1 DEF Paid
    <3>3. Balance' = Balance
      BY <1>2, <2>4 DEF Balance, SubmitCommit, RewardUser
    <3> QED
      BY <3>2, <3>3
  <2>5. CASE local[r].is_official
    <3>1. OfficialRows' = OfficialRows \cup {r} /\ r \notin OfficialRows
          /\ \A q \in OfficialRows : submissions'[q] = submissions[q]
      <4>1. r \notin OfficialRows
        BY <2>3 DEF OfficialRows, SubmissionRows
      <4>2. submissions'[r].is_official
        BY <2>3, <2>5
      <4>3. r \in OfficialRows'
        BY <2>3, <4>2 DEF OfficialRows, SubmissionRows
      <4>4. \A q \in Requests : q # r =>
                /\ q \in OfficialRows' <=> q \in OfficialRows
                /\ submissions'[q] = submissions[q]
        BY <2>3 DEF OfficialRows, SubmissionRows
      <4>5. OfficialRows \subseteq Requests /\ OfficialRows' \subseteq Requests
        BY DEF OfficialRows, SubmissionRows
      <4> QED
        BY <4>1, <4>3, <4>4, <4>5
    <3>2. Paid' = Paid \cup {award}
      BY <2>3, <3>1 DEF Paid
    <3>3. \A a \in Paid : ~(a.user = u /\ a.test = t)
      <4>1. OfficialOf(u, t) = {}
        BY <2>1, <2>5 DEF DecisionStands
      <4> QED
        BY <4>1 DEF Paid, OfficialRows, OfficialOf
    <3>4. Balance' = [Balance EXCEPT ![u] = @ + points]
      <4>1. \A v \in Users : users'[v].points =
                IF v = u THEN users[v].points + points ELSE users[v].points
        BY <1>2, <2>5, CommittedReward
      <4> HIDE DEF points, u
      <4> QED
        BY <2>2, <4>1 DEF Balance
    <3>5. Ledger!Pay(u, t, points)
      BY <3>2, <3>3, <3>4 DEF Ledger!Pay
    <3> QED
      BY <2>2, <3>5 DEF Ledger!Next
  <2> QED
    BY <2>4, <2>5
<1> QED
  BY <1>1, <1>2

(* The service implements the write-once ledger: whatever the requests, the *)
(* clock and the staff do, each user is paid at most once for each test and *)
(* the points of a user are the balance of the ledger.                      *)
THEOREM LedgerKept == Spec => KeepsLedger
<1>1. Init => Ledger!Init
  BY DEF Init, Ledger!Init, Paid, Balance, OfficialRows, SubmissionRows, NewUser
<1>2. Held /\ DecisionStands /\ [Next]_vars => [Ledger!Next]_<<Paid, Balance>>
  BY LedgerStep
<1> QED
  BY <1>1, <1>2, HeldInvariant, DecisionAlwaysStands, PTL
     DEF Spec, KeepsLedger, Ledger!Spec

-----------------------------------------------------------------------------
(* The counters: the number of official submissions, and the rank. *)
Counted ==
    /\ \A u \in Users : IsFiniteSet(OfficialBy(u))
    /\ CountInSync
    /\ RankInSync

LEMMA CommittedRank ==
    ASSUME Held, NEW r \in Requests, SubmitCommit(r), NEW u \in Users,
           users[u].current_rank = RankForPoints(users[u].points)
    PROVE  users'[u].current_rank = RankForPoints(users'[u].points)
<1> DEFINE v   == call[r].user
           row == ApplyOfficialResults(users[v], local[r].points_earned, Today)
<1>1. CASE ~local[r].is_official
  BY <1>1 DEF SubmitCommit, RewardUser
<1>2. CASE local[r].is_official
  <2>1. pc[r] \in InFlight
    BY DEF SubmitCommit, InFlight, InTransaction
  <2>2. v \in Users /\ users[v] \in UserRow
    BY <2>1 DEF Held, Typed, TypeOK, Underway, Call
  <2>3. users' = [users EXCEPT ![v] = row]
    BY <1>2 DEF SubmitCommit, RewardUser
  <2>4. /\ row.points = users[v].points + local[r].points_earned
        /\ row.current_rank = RankForPoints(users[v].points + local[r].points_earned)
    BY <2>2 DEF ApplyOfficialResults, UserRow
  <2>5. row.current_rank = RankForPoints(row.points)
    BY <2>4
  <2> HIDE DEF row
  <2> QED
    BY <2>2, <2>3, <2>5 DEF Held, Typed, TypeOK
<1> QED
  BY <1>1, <1>2

LEMMA CountedStep ==
    ASSUME Held, Counted, [Next]_vars
    PROVE  Counted'
<1>1. CASE \A r \in Requests : ~SubmitCommit(r)
  BY <1>1, OnlyCommitsPay
     DEF Counted, CountInSync, RankInSync, OfficialBy, SubmissionsOf, SubmissionRows
<1>2. ASSUME NEW r \in Requests, SubmitCommit(r) PROVE Counted'
  <2> SUFFICES ASSUME NEW u \in Users
               PROVE  (/\ IsFiniteSet(OfficialBy(u))
                       /\ users[u].completed_tests = Cardinality(OfficialBy(u))
                       /\ users[u].current_rank = RankForPoints(users[u].points))'
    BY DEF Counted, CountInSync, RankInSync
  <2>1. /\ submissions[r] = NoRow /\ submissions'[r] # NoRow
        /\ submissions'[r].user = call[r].user
        /\ submissions'[r].is_official = local[r].is_official
        /\ \A q \in Requests : q # r => submissions'[q] = submissions[q]
    BY <1>2, CommittedSubmission
  <2>2. /\ IsFiniteSet(OfficialBy(u))
        /\ users[u].completed_tests = Cardinality(OfficialBy(u))
    BY DEF Counted, CountInSync
  <2>3. users'[u].current_rank = RankForPoints(users'[u].points)
    BY <1>2, CommittedRank DEF Counted, RankInSync
  <2>4. CASE local[r].is_official /\ u = call[r].user
    <3>1. r \notin OfficialBy(u)
      BY <2>1 DEF OfficialBy, SubmissionsOf, SubmissionRows
    <3>2. r \in OfficialBy(u)'
      <4>1. submissions'[r].is_official /\ submissions'[r].user = u
        BY <2>1, <2>4
      <4> QED
        BY <2>1, <4>1 DEF OfficialBy, SubmissionsOf, SubmissionRows
    <3>3. \A q \in Requests : q # r => (q \in OfficialBy(u)' <=> q \in OfficialBy(u))
      BY <2>1 DEF OfficialBy, SubmissionsOf, SubmissionRows
    <3>4. OfficialBy(u) \subseteq Requests /\ OfficialBy(u)' \subseteq Requests
      BY DEF OfficialBy, SubmissionsOf, SubmissionRows
    <3>5. OfficialBy(u)' = OfficialBy(u) \cup {r}
      BY <3>2, <3>3, <3>4
    <3>6. /\ IsFiniteSet(OfficialBy(u) \cup {r})
          /\ Cardinality(OfficialBy(u) \cup {r}) = Cardinality(OfficialBy(u)) + 1
      BY <2>2, <3>1, FS_AddElement
    <3>7. users'[u].completed_tests = users[u].completed_tests + 1
      BY <1>2, <2>4, CommittedReward
    <3> QED
      BY <2>2, <2>3, <3>5, <3>6, <3>7
  <2>5. CASE ~(local[r].is_official /\ u = call[r].user)
    <3>1. r \notin OfficialBy(u) /\ r \notin OfficialBy(u)'
      <4>1. ~(submissions'[r].is_official /\ submissions'[r].user = u)
        BY <2>1, <2>5
      <4> QED
        BY <2>1, <4>1 DEF OfficialBy, SubmissionsOf, SubmissionRows
    <3>2. \A q \in Requests : q # r => (q \in OfficialBy(u)' <=> q \in OfficialBy(u))
      BY <2>1 DEF OfficialBy, SubmissionsOf, SubmissionRows
    <3>3. OfficialBy(u) \subseteq Requests /\ OfficialBy(u)' \subseteq Requests
      BY DEF OfficialBy, SubmissionsOf, SubmissionRows
    <3>4. OfficialBy(u)' = OfficialBy(u)
      BY <3>1, <3>2, <3>3
    <3>5. users'[u] = users[u]
      BY <1>2, <2>5, CommittedReward
    <3> QED
      BY <2>2, <2>3, <3>4, <3>5
  <2> QED
    BY <2>4, <2>5
<1> QED
  BY <1>1, <1>2

(* completed_tests is the number of official submissions of the user, and *)
(* the cached rank is the one of the cached points.                       *)
THEOREM CountersInSync == Spec => [](CountInSync /\ RankInSync)
<1>1. Init => Counted
  <2> SUFFICES ASSUME Init, NEW u \in Users
               PROVE  /\ IsFiniteSet(OfficialBy(u))
                      /\ users[u].completed_tests = Cardinality(OfficialBy(u))
                      /\ users[u].current_rank = RankForPoints(users[u].points)
    BY DEF Counted, CountInSync, RankInSync
  <2>1. OfficialBy(u) = {}
    BY DEF Init, OfficialBy, SubmissionsOf, SubmissionRows
  <2>2. users[u].completed_tests = 0 /\ users[u].points = 0
        /\ users[u].current_rank = "novice"
    BY DEF Init, NewUser
  <2>3. RankForPoints(0) = "novice"
    BY RankForPointsReached DEF RankTier, RankThreshold
  <2> QED
    BY <2>1, <2>2, <2>3, FS_EmptySet
<1>2. Held /\ Counted /\ [Next]_vars => Counted'
  BY CountedStep
<1>3. Counted => CountInSync /\ RankInSync
  BY DEF Counted
<1> QED
  BY <1>1, <1>2, <1>3, HeldInvariant, PTL DEF Spec

-----------------------------------------------------------------------------
(* The points.  They are a sum over the submissions, official or not, so the *)
(* invariant also says that practice earns nothing and that a user has       *)
(* finitely many submissions.                                                *)
PracticeUnpaid ==
    \A r \in Requests :
        pc[r] = "graded" /\ ~local[r].is_official => local[r].points_earned = 0

Points(rows, S) == Total([r \in S |-> rows[r].points_earned], S)

Balanced ==
    \A u \in Users :
        /\ IsFiniteSet(SubmissionsOf(u))
        /\ users[u].points = Points(submissions, SubmissionsOf(u))

(* MapThenSumSet computes the total of its terms. *)
LEMMA PointsSum ==
    ASSUME NEW rows, NEW S, IsFiniteSet(S)
    PROVE  MapThenSumSet(LAMBDA r : rows[r].points_earned, S) = Points(rows, S)
<1> DEFINE F == [r \in S |-> rows[r].points_earned]
           first(s) == CHOOSE x \in s : TRUE
           Solves(g) == g = [s \in SUBSET S |->
                               IF s = {} THEN 0
                               ELSE rows[first(s)].points_earned
                                    + g[s \ {first(s)}]]
           iter == CHOOSE g : Solves(g)
<1>1. ASSUME NEW g PROVE Solves(g) <=> SumEquation(g, F, S)
  <2>1. \A s \in SUBSET S : s # {} => F[first(s)] = rows[first(s)].points_earned
    OBVIOUS
  <2> HIDE DEF F
  <2>2. [s \in SUBSET S |->
           IF s = {} THEN 0
           ELSE rows[first(s)].points_earned + g[s \ {first(s)}]]
        = [s \in SUBSET S |->
             IF s = {} THEN 0 ELSE F[first(s)] + g[s \ {first(s)}]]
    BY <2>1
  <2> QED
    BY <2>2 DEF SumEquation
<1>2. \E g : SumEquation(g, F, S)
  BY SumExists
<1>3. SumEquation(iter, F, S)
  <2> HIDE DEF Solves, F
  <2> QED
    BY <1>1, <1>2
<1>4. iter[S] = Total(F, S)
  <2> HIDE DEF iter, F
  <2> QED
    BY <1>3, TotalSolves
<1>5. MapThenSumSet(LAMBDA r : rows[r].points_earned, S) = iter[S]
  BY DEF MapThenSumSet, MapThenFoldSet
<1> QED
  BY <1>4, <1>5 DEF Points

(* The decision pays nothing to an attempt that does not count. *)
LEMMA PracticeUnpaidStep ==
    ASSUME Held, PracticeUnpaid, [Next]_vars
    PROVE  PracticeUnpaid'
<1>1. UNCHANGED vars \/ Tick => UNCHANGED <<pc, local>>
  BY DEF vars, Tick
<1>2. ASSUME NEW t \in Tests, Edit(t) PROVE UNCHANGED <<pc, local>>
  BY <1>2, EditTyped DEF Held
<1>3. ASSUME NEW r \in Requests, Quiet(r) \/ StartCommit(r) \/ SubmitCommit(r)
      PROVE  PracticeUnpaid'
  <2> SUFFICES ASSUME NEW q \in Requests, pc'[q] = "graded", ~local'[q].is_official
               PROVE  local'[q].points_earned = 0
    BY DEF PracticeUnpaid
  <2>1. CASE q # r
    BY <1>3, <2>1, OthersWait DEF Held, PracticeUnpaid
  <2>2. CASE q = r
    <3>1. Decide(r)
      BY <1>3, <2>2, RefusalShape
         DEF Quiet, Arrival, Fetch, StartInsert, SubmitLock, SubmitResolve,
             StartCommit, SubmitCommit, Answer, Goto, Answered, Held, Typed, TypeOK
    <3> DEFINE official == /\ OfficialOf(call[r].user, call[r].test) = {}
                           /\ call[r].session # NoSession
                           /\ local[r].within_time
                           /\ IsAvailable(local[r].row, now)
    <3>2. PICK c \in 0 .. local[r].paper.worth : SubmitDecide(r, c)
      BY <3>1 DEF Decide
    <3> DEFINE score  == Percentage(c, local[r].paper.worth)
               earned == PointsEarned(official, local[r].row.reward_points,
                                      c, local[r].paper.worth)
               locals == [local[r] EXCEPT !.is_official = official,
                                          !.score = score,
                                          !.points_earned = earned,
                                          !.submitted_at = now]
    <3>3. Goto(r, "graded", locals)
      BY <3>2 DEF SubmitDecide
    <3>4. local'[r] = locals
      BY <3>3 DEF Goto, Held, Typed, TypeOK
    <3>5. local[r] \in Locals
      BY DEF Held, Typed, TypeOK
    <3>6. ~official => earned = 0
      BY DEF PointsEarned
    <3> HIDE DEF official, score, earned
    <3>7. locals.is_official = official /\ locals.points_earned = earned
      BY <3>5 DEF Locals
    <3> HIDE DEF locals
    <3> QED
      BY <2>2, <3>4, <3>6, <3>7
  <2> QED
    BY <2>1, <2>2
<1> QED
  BY <1>1, <1>2, <1>3, NextCases DEF PracticeUnpaid

LEMMA BalancedStep ==
    ASSUME Held, PracticeUnpaid, Balanced, [Next]_vars
    PROVE  Balanced'
<1>1. CASE \A r \in Requests : ~SubmitCommit(r)
  BY <1>1, OnlyCommitsPay DEF Balanced, SubmissionsOf, SubmissionRows
<1>2. ASSUME NEW r \in Requests, SubmitCommit(r), NEW u \in Users
      PROVE  (/\ IsFiniteSet(SubmissionsOf(u))
              /\ users[u].points = Points(submissions, SubmissionsOf(u)))'
  <2> DEFINE S == SubmissionsOf(u)
             F == [q \in S |-> submissions[q].points_earned]
             G == [q \in S' |-> submissions'[q].points_earned]
  <2>1. /\ submissions[r] = NoRow /\ submissions'[r] # NoRow
        /\ submissions'[r] \in SubmissionRow
        /\ submissions'[r].user = call[r].user
        /\ submissions'[r].is_official = local[r].is_official
        /\ submissions'[r].points_earned = local[r].points_earned
        /\ \A q \in Requests : q # r => submissions'[q] = submissions[q]
    BY <1>2, CommittedSubmission
  <2>2. IsFiniteSet(S) /\ users[u].points = Total(F, S)
    BY DEF Balanced, Points
  <2>3. S \subseteq Requests /\ r \notin S /\ S' \subseteq Requests
    BY <2>1 DEF SubmissionsOf, SubmissionRows
  <2>4. \A q \in Requests : q # r => (q \in S' <=> q \in S)
    BY <2>1 DEF SubmissionsOf, SubmissionRows
  <2>5. \A q \in S : submissions'[q] = submissions[q]
    BY <2>1, <2>3
  <2>6. pc[r] = "graded"
    BY <1>2 DEF SubmitCommit
  <2>7. CASE u # call[r].user
    <3>1. r \notin S'
      BY <2>1, <2>7 DEF SubmissionsOf, SubmissionRows
    <3>2. S' = S
      BY <2>3, <2>4, <3>1
    <3>3. users'[u] = users[u]
      BY <1>2, <2>7, CommittedReward
    <3>4. G = F
      BY <2>5, <3>2
    <3> HIDE DEF S, F, G
    <3>5. IsFiniteSet(S') /\ users'[u].points = Total(G, S')
      BY <2>2, <3>2, <3>3, <3>4
    <3> QED
      BY <3>5 DEF S, G, Points
  <2>8. CASE u = call[r].user
    <3>1. r \in S'
      BY <2>1, <2>8 DEF SubmissionsOf, SubmissionRows
    <3>2. S' = S \cup {r}
      BY <2>3, <2>4, <3>1
    <3>3. \A q \in S' : G[q] \in Int
      <4>1. \A q \in S' : submissions'[q] \in SubmissionRow
        <5>1. \A q \in S : submissions[q] \in SubmissionRow
          BY DEF SubmissionsOf, SubmissionRows, Held, Typed, TypeOK
        <5> QED
          BY <2>1, <2>5, <3>2, <5>1
      <4> QED
        BY <4>1 DEF SubmissionRow
    <3>4. \A q \in S : G[q] = F[q]
      BY <2>5, <3>2
    <3>5. G[r] = local[r].points_earned
      BY <2>1, <3>1
    <3>6. users'[u].points = users[u].points + G[r]
      <4>1. users[u].points \in Nat
        BY DEF Held, Typed, TypeOK, UserRow
      <4>2. local[r].is_official \/ G[r] = 0
        BY <2>6, <3>5 DEF PracticeUnpaid
      <4> HIDE DEF G
      <4> QED
        BY <1>2, <2>8, <3>5, <4>1, <4>2, CommittedReward
    <3> HIDE DEF F, G
    <3>7. Total(G, S) = Total(F, S)
      <4> HIDE DEF S
      <4> QED
        BY <2>2, <3>4, TotalCongruence
    <3>8. Total(G, S \cup {r}) = G[r] + Total(G, S) /\ IsFiniteSet(S \cup {r})
      <4> HIDE DEF S
      <4> QED
        BY <2>2, <2>3, <3>2, <3>3, TotalAdd, FS_AddElement
    <3>9. Total(G, S) \in Int /\ G[r] \in Int
      <4> HIDE DEF S
      <4> QED
        BY <2>2, <3>1, <3>2, <3>3, TotalType
    <3>10. IsFiniteSet(S') /\ users'[u].points = Total(G, S')
      <4> HIDE DEF S
      <4> QED
        BY <2>2, <3>2, <3>6, <3>7, <3>8, <3>9
    <3> QED
      BY <3>10 DEF S, G, Points
  <2> QED
    BY <2>7, <2>8
<1> QED
  BY <1>1, <1>2 DEF Balanced

(* The denormalised counters of a user are always what the submissions say: *)
(* the points are the sum of what each submission earned, completed_tests   *)
(* counts the official ones, and the cached rank is the one of the points.  *)
THEOREM AggregatesAlwaysInSync == Spec => []AggregatesInSync
<1>1. Init => PracticeUnpaid
  BY DEF Init, PracticeUnpaid
<1>2. Init => Balanced
  <2> SUFFICES ASSUME Init, NEW u \in Users
               PROVE  /\ IsFiniteSet(SubmissionsOf(u))
                      /\ users[u].points = Points(submissions, SubmissionsOf(u))
    BY DEF Balanced
  <2>1. SubmissionsOf(u) = {}
    BY DEF Init, SubmissionsOf, SubmissionRows
  <2>2. users[u].points = 0
    BY DEF Init, NewUser
  <2> QED
    BY <2>1, <2>2, FS_EmptySet, TotalEmpty DEF Points
<1>3. Held /\ PracticeUnpaid /\ [Next]_vars => PracticeUnpaid'
  BY PracticeUnpaidStep
<1>4. Held /\ PracticeUnpaid /\ Balanced /\ [Next]_vars => Balanced'
  BY BalancedStep
<1>5. Balanced => PointsInSync
  BY PointsSum DEF Balanced, PointsInSync
<1>6. CountInSync /\ RankInSync /\ PointsInSync => AggregatesInSync
  BY DEF AggregatesInSync
<1> QED
  BY <1>1, <1>2, <1>3, <1>4, <1>5, <1>6, HeldInvariant, CountersInSync, PTL
     DEF Spec

-----------------------------------------------------------------------------
(* The achievements.  The streak column counts the days of the history, which *)
(* is what connects the rule on it with a week in a row.                      *)
Remembered ==
    \A u \in Users :
        /\ active[u] \in SUBSET (0 .. Today)
        /\ IsRun(active[u], users[u].last_activity_date, users[u].streak)

LEMMA DivGrows ==
    ASSUME NEW n \in Nat, NEW d \in Nat \ {0}
    PROVE  n \div d <= (n + 1) \div d
<1>1. n \div d \in Nat /\ (n + 1) \div d \in Nat
  OBVIOUS
<1>2. d * (n \div d) <= n /\ n + 1 < d * ((n + 1) \div d + 1)
  BY SMT
<1>3. SUFFICES ASSUME (n + 1) \div d + 1 <= n \div d PROVE FALSE
  BY <1>1
<1>4. d * ((n + 1) \div d + 1) <= d * (n \div d)
  BY <1>1, <1>3, SMT
<1> QED
  BY <1>1, <1>2, <1>4

LEMMA TodayAdvances ==
    ASSUME Held, [Next]_vars
    PROVE  Today \in Nat /\ Today' \in Nat /\ Today <= Today'
<1>1. now' = now \/ now' = now + 1
  <2>1. ASSUME NEW r \in Requests, Quiet(r) \/ StartCommit(r) \/ SubmitCommit(r)
        PROVE  now' = now
    BY <2>1, QuietTables DEF StartCommit, SubmitCommit
  <2>2. ASSUME NEW t \in Tests, Edit(t) PROVE now' = now
    BY <2>2, EditTyped DEF Held
  <2> QED
    BY <2>1, <2>2, NextCases DEF vars, Tick
<1>2. now \in Nat /\ DayLength \in Nat \ {0}
  BY ConstantsAssumption DEF Held, Typed, TypeOK
<1>3. /\ now \div DayLength \in Nat /\ now' \div DayLength \in Nat
      /\ now \div DayLength <= now' \div DayLength
  <2>1. CASE now' = now
    BY <1>2, <2>1, DivType
  <2>2. CASE now' = now + 1
    BY <1>2, <2>2, DivType, DivGrows
  <2> QED
    BY <1>1, <2>1, <2>2
<1> QED
  BY <1>3 DEF Today

(* What a commit writes in the columns the streak depends on. *)
LEMMA CommittedDay ==
    ASSUME Held, NEW r \in Requests, SubmitCommit(r), NEW u \in Users
    PROVE  IF local[r].is_official /\ u = call[r].user
           THEN /\ users'[u].last_activity_date = Today
                /\ users'[u].streak = NextStreak(users[u].streak,
                                          users[u].last_activity_date, Today)
                /\ active'[u] = active[u] \cup {Today}
           ELSE users'[u] = users[u] /\ active'[u] = active[u]
<1> DEFINE v   == call[r].user
           row == ApplyOfficialResults(users[v], local[r].points_earned, Today)
<1>1. CASE ~local[r].is_official
  BY <1>1 DEF SubmitCommit, RewardUser
<1>2. CASE local[r].is_official
  <2>1. pc[r] \in InFlight
    BY DEF SubmitCommit, InFlight, InTransaction
  <2>2. v \in Users /\ users[v] \in UserRow
    BY <2>1 DEF Held, Typed, TypeOK, Underway, Call
  <2>3. /\ users' = [users EXCEPT ![v] = row]
        /\ active' = [active EXCEPT ![v] = active[v] \cup {Today}]
    BY <1>2, <2>2 DEF SubmitCommit, RewardUser, Held, Typed, TypeOK
  <2>4. /\ row.last_activity_date = Today
        /\ row.streak = NextStreak(users[v].streak,
                                   users[v].last_activity_date, Today)
    BY <2>2 DEF ApplyOfficialResults, UserRow
  <2> HIDE DEF row
  <2> QED
    BY <1>2, <2>2, <2>3, <2>4 DEF Held, Typed, TypeOK
<1> QED
  BY <1>1, <1>2

LEMMA RememberedStep ==
    ASSUME Held, Remembered, [Next]_vars
    PROVE  Remembered'
<1>1. Today \in Nat /\ Today' \in Nat /\ Today <= Today'
  BY TodayAdvances
<1>2. 0 .. Today \subseteq 0 .. Today' /\ Today \in 0 .. Today
  BY <1>1
<1> DEFINE Kept(u) == /\ active'[u] \in SUBSET (0 .. Today')
                      /\ IsRun(active'[u], users'[u].last_activity_date,
                               users'[u].streak)
<1>3. SUFFICES ASSUME NEW u \in Users PROVE Kept(u)
  BY DEF Remembered
<1>4. /\ active[u] \in SUBSET (0 .. Today)
      /\ IsRun(active[u], users[u].last_activity_date, users[u].streak)
  BY DEF Remembered
<1>5. CASE users'[u] = users[u] /\ active'[u] = active[u]
  <2>1. active'[u] \in SUBSET (0 .. Today')
    BY <1>2, <1>4, <1>5
  <2>2. IsRun(active'[u], users'[u].last_activity_date, users'[u].streak)
    BY <1>4, <1>5, Zenon
  <2> QED
    BY <2>1, <2>2
<1>6. ASSUME NEW r \in Requests, SubmitCommit(r) PROVE Kept(u)
  <2>1. CASE local[r].is_official /\ u = call[r].user
    <3> DEFINE last   == users[u].last_activity_date
               streak == users[u].streak
               grown  == active[u] \cup {Today}
    <3>1. /\ users'[u].last_activity_date = Today
          /\ users'[u].streak = NextStreak(streak, last, Today)
          /\ active'[u] = grown
      BY <1>6, <2>1, CommittedDay
    <3>2. last \in Nat \cup {NoDate} /\ streak \in Nat /\ NoDate \notin Int
      BY ConstantsAssumption DEF Held, Typed, TypeOK, UserRow
    <3>3. IsRun(grown, Today, NextStreak(streak, last, Today))
      <4> HIDE DEF last, streak
      <4>1. IsRun(active[u], last, streak)
        BY <1>4 DEF last, streak
      <4> QED
        BY <1>1, <1>4, <3>2, <4>1, RunGrows
    <3>4. active'[u] \in SUBSET (0 .. Today')
      BY <1>2, <1>4, <3>1
    <3> HIDE DEF last, streak, grown
    <3>5. IsRun(active'[u], users'[u].last_activity_date, users'[u].streak)
      BY <3>1, <3>3, Zenon
    <3> QED
      BY <3>4, <3>5
  <2>2. CASE ~(local[r].is_official /\ u = call[r].user)
    <3>1. users'[u] = users[u] /\ active'[u] = active[u]
      BY <1>6, <2>2, CommittedDay
    <3> QED
      BY <1>5, <3>1
  <2> QED
    BY <2>1, <2>2
<1>7. CASE \A r \in Requests : ~SubmitCommit(r)
  <2>1. users'[u] = users[u] /\ active'[u] = active[u]
    BY <1>7, OnlyCommitsPay
  <2> QED
    BY <1>5, <2>1
<1> QED
  BY <1>6, <1>7

(* The streak column of every user counts the days of the user's official     *)
(* attempts, whatever commits in between (services/streak.py).                *)
THEOREM StreaksAlwaysRemember == Spec => []Remembered
<1>1. Init => Remembered
  BY DEF Init, NewUser, Remembered, IsRun
<1>2. Held /\ Remembered /\ [Next]_vars => Remembered'
  BY RememberedStep
<1> QED
  BY <1>1, <1>2, HeldInvariant, PTL DEF Spec

(* What a commit unlocks and announces. *)
LEMMA CommittedUnlocks ==
    ASSUME Held, NEW r \in Requests, SubmitCommit(r), NEW u \in Users
    PROVE  IF local[r].is_official /\ u = call[r].user
           THEN \E fresh :
                    /\ fresh = CodesToUnlock(users'[u],
                                    local[r].score = FullScore, unlocked[u])
                    /\ unlocked'[u] = unlocked[u] \cup fresh
                    /\ \A c \in AchievementCode :
                          announced'[u][c] = IF c \in fresh THEN announced[u][c] + 1
                                                            ELSE announced[u][c]
           ELSE unlocked'[u] = unlocked[u] /\ announced'[u] = announced[u]
<1> DEFINE v     == call[r].user
           row   == ApplyOfficialResults(users[v], local[r].points_earned, Today)
           fresh == CodesToUnlock(row, local[r].score = FullScore, unlocked[v])
<1>1. CASE ~local[r].is_official
  BY <1>1 DEF SubmitCommit, RewardUser
<1>2. CASE local[r].is_official
  <2>1. pc[r] \in InFlight
    BY DEF SubmitCommit, InFlight, InTransaction
  <2>2. v \in Users
    BY <2>1 DEF Held, Typed, TypeOK, Underway, Call
  <2>3. /\ users' = [users EXCEPT ![v] = row]
        /\ unlocked' = [unlocked EXCEPT ![v] = @ \cup fresh]
        /\ announced' = [announced EXCEPT ![v] =
              [c \in AchievementCode |-> IF c \in fresh THEN announced[v][c] + 1
                                                         ELSE announced[v][c]]]
    BY <1>2, <2>2 DEF SubmitCommit, RewardUser, Held, Typed, TypeOK
  <2>4. users'[v] = row
    BY <2>2, <2>3 DEF Held, Typed, TypeOK
  <2>5. fresh = CodesToUnlock(users'[v], local[r].score = FullScore, unlocked[v])
    BY <2>4
  <2> HIDE DEF row, fresh
  <2>6. CASE u = v
    BY <1>2, <2>2, <2>3, <2>5, <2>6 DEF Held, Typed, TypeOK
  <2>7. CASE u # v
    BY <2>2, <2>3, <2>7 DEF Held, Typed, TypeOK
  <2> QED
    BY <2>6, <2>7
<1> QED
  BY <1>1, <1>2

Perfect(u) == \E r \in OfficialBy(u) : submissions[r].score = FullScore

LEMMA PerfectStep ==
    ASSUME Held, NEW r \in Requests, SubmitCommit(r), NEW u \in Users
    PROVE  Perfect(u)' <=>
              \/ Perfect(u)
              \/ local[r].is_official /\ u = call[r].user /\ local[r].score = FullScore
<1>1. /\ submissions[r] = NoRow /\ submissions'[r] # NoRow
      /\ submissions'[r].user = call[r].user
      /\ submissions'[r].is_official = local[r].is_official
      /\ submissions'[r].score = local[r].score
      /\ \A q \in Requests : q # r => submissions'[q] = submissions[q]
  BY CommittedSubmission
<1>2. r \notin OfficialBy(u)
  BY <1>1 DEF OfficialBy, SubmissionsOf, SubmissionRows
<1>3. r \in OfficialBy(u)' <=> local[r].is_official /\ u = call[r].user
  BY <1>1 DEF OfficialBy, SubmissionsOf, SubmissionRows
<1>4. \A q \in Requests : q # r => (q \in OfficialBy(u)' <=> q \in OfficialBy(u))
  BY <1>1 DEF OfficialBy, SubmissionsOf, SubmissionRows
<1>5. OfficialBy(u) \subseteq Requests /\ OfficialBy(u)' \subseteq Requests
  BY DEF OfficialBy, SubmissionsOf, SubmissionRows
<1> QED
  BY <1>1, <1>2, <1>3, <1>4, <1>5 DEF Perfect

Week(u) == WeekInARow(active[u])

(* A commit that counts completes a week in a row exactly when it leaves a    *)
(* streak of seven.                                                           *)
LEMMA WeekStep ==
    ASSUME Held, Held', Remembered, Remembered', NEW r \in Requests,
           SubmitCommit(r), local[r].is_official, NEW u \in Users,
           u = call[r].user
    PROVE  WeekInARow(active'[u]) <=> Week(u) \/ users'[u].streak >= 7
<1> DEFINE grown == active[u] \cup {Today}
<1>1. /\ users'[u].last_activity_date = Today /\ active'[u] = grown
  BY CommittedDay
<1>2. Today \in Nat /\ active[u] \in SUBSET (0 .. Today)
  BY ConstantsAssumption, DivType DEF Today, Held, Typed, TypeOK, Remembered
<1>3. users'[u].streak \in Nat
  BY DEF Held, Typed, TypeOK, UserRow
<1>4. IsRun(active'[u], users'[u].last_activity_date, users'[u].streak)
  BY DEF Remembered
<1> DEFINE streak == users'[u].streak
<1>5. WeekInARow(grown) <=> WeekInARow(active[u]) \/ streak >= 7
  <2>1. IsRun(grown, Today, streak)
    <3> HIDE DEF grown
    <3> QED
      BY <1>1, <1>4, Zenon
  <2>2. NoDate \notin Int /\ streak \in Nat
    BY <1>3, ConstantsAssumption
  <2> HIDE DEF streak
  <2> QED
    BY <1>2, <2>1, <2>2, WeekGrows
<1> HIDE DEF grown
<1>6. WeekInARow(active'[u]) <=> WeekInARow(grown)
  BY <1>1, Zenon
<1> QED
  BY <1>5, <1>6 DEF Week

Deserved(u) ==
    /\ unlocked[u] = AchievementsOf(users[u], Week(u), Perfect(u))
    /\ \A c \in AchievementCode :
          announced[u][c] = IF c \in unlocked[u] THEN 1 ELSE 0

LEMMA UnlocksByUser == UnlocksDeserved <=> \A u \in Users : Deserved(u)
BY DEF UnlocksDeserved, Deserved, Perfect, Week

LEMMA UnlocksDeservedStep ==
    ASSUME Held, Held', Remembered, Remembered', UnlocksDeserved, [Next]_vars
    PROVE  UnlocksDeserved'
<1> DEFINE Kept(u) ==
               /\ unlocked'[u] = AchievementsOf(users'[u], WeekInARow(active'[u]),
                                                Perfect(u)')
               /\ \A c \in AchievementCode :
                     announced'[u][c] = IF c \in unlocked'[u] THEN 1 ELSE 0
<1>1. SUFFICES ASSUME NEW u \in Users PROVE Kept(u)
  BY DEF UnlocksDeserved, Perfect
<1>2. /\ unlocked[u] = AchievementsOf(users[u], Week(u), Perfect(u))
      /\ \A c \in AchievementCode :
            announced[u][c] = IF c \in unlocked[u] THEN 1 ELSE 0
  BY UnlocksByUser DEF Deserved
<1>3. ASSUME users'[u] = users[u], unlocked'[u] = unlocked[u],
             announced'[u] = announced[u], active'[u] = active[u],
             Perfect(u)' = Perfect(u)
      PROVE  Kept(u)
  <2>1. unlocked'[u] = AchievementsOf(users'[u], WeekInARow(active'[u]), Perfect(u)')
    BY <1>2, <1>3, Zenon DEF Week
  <2>2. \A c \in AchievementCode :
           announced'[u][c] = IF c \in unlocked'[u] THEN 1 ELSE 0
    BY <1>2, <1>3
  <2> QED
    BY <2>1, <2>2
<1>4. CASE \A r \in Requests : ~SubmitCommit(r)
  <2>1. UNCHANGED <<submissions, users, unlocked, announced, active>>
    BY <1>4, OnlyCommitsPay
  <2>2. Perfect(u)' = Perfect(u)
    BY <2>1 DEF Perfect, OfficialBy, SubmissionsOf, SubmissionRows
  <2> HIDE DEF Kept
  <2> QED
    BY <1>3, <2>1, <2>2
<1>5. ASSUME NEW r \in Requests, SubmitCommit(r) PROVE Kept(u)
  <2>1. CASE ~(local[r].is_official /\ u = call[r].user)
    <3>1. /\ unlocked'[u] = unlocked[u] /\ announced'[u] = announced[u]
          /\ users'[u] = users[u] /\ active'[u] = active[u]
      BY <1>5, <2>1, CommittedUnlocks, CommittedDay
    <3>2. Perfect(u)' <=> Perfect(u)
      BY <1>5, <2>1, PerfectStep
    <3>3. Perfect(u)' = Perfect(u)
      BY <3>2 DEF Perfect
    <3> HIDE DEF Kept
    <3> QED
      BY <1>3, <3>1, <3>3
  <2>2. CASE local[r].is_official /\ u = call[r].user
    <3> DEFINE full   == local[r].score = FullScore
               row    == users[u]
               grown  == users'[u]
               before == Week(u)
               after  == WeekInARow(active'[u])
               perfect == Perfect(u)
    <3>1. PICK fresh :
            /\ fresh = CodesToUnlock(grown, full, unlocked[u])
            /\ unlocked'[u] = unlocked[u] \cup fresh
            /\ \A c \in AchievementCode :
                  announced'[u][c] = IF c \in fresh THEN announced[u][c] + 1
                                                    ELSE announced[u][c]
      BY <1>5, <2>2, CommittedUnlocks
    <3>2. Perfect(u)' = (perfect \/ full)
      <4>1. Perfect(u)' <=> Perfect(u) \/ full
        BY <1>5, <2>2, PerfectStep
      <4> QED
        BY <4>1 DEF Perfect
    <3>3. /\ perfect \in BOOLEAN /\ full \in BOOLEAN
          /\ before \in BOOLEAN /\ after \in BOOLEAN
      BY DEF Perfect, Week, WeekInARow
    <3>4. /\ row.points \in Nat /\ grown.points \in Nat
          /\ row.completed_tests \in Nat /\ grown.completed_tests \in Nat
          /\ "streak" \in DOMAIN row /\ "streak" \in DOMAIN grown
      BY DEF Held, Typed, TypeOK, UserRow
    <3>5. /\ row.points <= grown.points
          /\ row.completed_tests <= grown.completed_tests
      <4>1. local[r].points_earned \in Nat
        BY ConstantsAssumption DEF Held, Typed, TypeOK, Locals
      <4> QED
        BY <1>5, <2>2, <3>4, <4>1, CommittedReward
    <3>6. after <=> before \/ grown.streak >= 7
      BY <1>5, <2>2, WeekStep
    <3> HIDE DEF full, row, grown, before, after, perfect
    <3>7. AchievementsOf(grown, after, perfect \/ full)
            = AchievementsOf(row, before, perfect)
                \cup {code \in AchievementCode : Rules(grown, full)[code]}
      BY <3>3, <3>4, <3>5, <3>6, AchievementsGrow
    <3>8. unlocked[u] = AchievementsOf(row, before, perfect)
      BY <1>2 DEF row, before, perfect
    <3>9. unlocked[u] \cup fresh
            = unlocked[u] \cup {code \in AchievementCode : Rules(grown, full)[code]}
      BY <3>1 DEF CodesToUnlock
    <3>10. unlocked'[u] = AchievementsOf(grown, after, Perfect(u)')
      BY <3>1, <3>2, <3>7, <3>8, <3>9, Zenon
    <3>11. fresh \cap unlocked[u] = {}
      BY <3>1 DEF CodesToUnlock
    <3>12. \A c \in AchievementCode :
              announced'[u][c] = IF c \in unlocked'[u] THEN 1 ELSE 0
      BY <1>2, <3>1, <3>11
    <3> QED
      BY <3>10, <3>12 DEF grown, after
  <2> HIDE DEF Kept
  <2> QED
    BY <2>1, <2>2
<1> HIDE DEF Kept
<1> QED
  BY <1>4, <1>5

(* Whatever the requests and the staff do, a user has an achievement exactly *)
(* when the official attempts deserve it, "7 Day Streak" exactly when they    *)
(* cover a week in a row, and was told of it once (evaluate_achievements,    *)
(* which runs on the locked row).                                            *)
THEOREM UnlocksAlwaysDeserved == Spec => []UnlocksDeserved
<1>1. Init => UnlocksDeserved
  <2> SUFFICES ASSUME Init, NEW u \in Users PROVE Deserved(u)
    BY UnlocksByUser
  <2>1. unlocked[u] = {} /\ \A c \in AchievementCode : announced[u][c] = 0
    BY DEF Init
  <2>2. /\ users[u].completed_tests = 0 /\ users[u].points = 0
        /\ "streak" \in DOMAIN users[u]
    BY DEF Init, NewUser
  <2>3. ~Perfect(u) /\ Perfect(u) \in BOOLEAN
    BY DEF Init, Perfect, OfficialBy, SubmissionsOf, SubmissionRows
  <2>4. ~Week(u) /\ Week(u) \in BOOLEAN
    BY DEF Init, Week, WeekInARow
  <2> DEFINE row     == users[u]
             perfect == Perfect(u)
             week    == Week(u)
  <2>5. AchievementsOf(row, week, perfect) = {}
    <3>1. /\ row.completed_tests = 0 /\ row.points = 0 /\ "streak" \in DOMAIN row
          /\ ~perfect /\ perfect \in BOOLEAN /\ ~week /\ week \in BOOLEAN
      BY <2>2, <2>3, <2>4
    <3> HIDE DEF row, perfect, week
    <3> QED
      BY <3>1, AchievementsByCode
  <2> QED
    BY <2>1, <2>5 DEF Deserved
<1>2. Held /\ Held' /\ Remembered /\ Remembered' /\ UnlocksDeserved
        /\ [Next]_vars => UnlocksDeserved'
  BY UnlocksDeservedStep
<1> QED
  BY <1>1, <1>2, HeldInvariant, StreaksAlwaysRemember, PTL DEF Spec
-----------------------------------------------------------------------------
(* The window and the deadline, for tests that nobody edits.  A session keeps  *)
(* the deadline it was created with, and a request the row it fetched.         *)
SessionsInWindow ==
    \A s \in Requests : sessions[s] # NoRow =>
        LET session == sessions[s]
            test    == tests[session.test]
        IN  /\ IsAvailable(test, session.started_at)
            /\ session.expires_at
                  = session.started_at + test.duration_seconds * Second

OnTime(r) ==
    pc[r] \in InFlight =>
        /\ local[r].row = tests[call[r].test]
        /\ pc[r] = "inserting" => IsAvailable(local[r].row, local[r].started_at)
        /\ /\ pc[r] \in {"timed", "graded"}
           /\ call[r].session # NoSession /\ local[r].within_time
           => local[r].elapsed <= local[r].row.duration_seconds + Grace
        /\ pc[r] = "graded" /\ local[r].is_official =>
              /\ call[r].session # NoSession /\ local[r].within_time
              /\ IsAvailable(local[r].row, local[r].submitted_at)

AttemptInTime(r) ==
    LET attempt == submissions[r]
        session == sessions[attempt.session]
        test    == tests[attempt.test]
    IN  /\ attempt.session \in SessionsOf(attempt.user, attempt.test)
        /\ IsAvailable(test, session.started_at)
        /\ IsAvailable(test, attempt.submitted_at)
        /\ attempt.completion_time * Second
                <= session.expires_at - session.started_at + Grace * Second

InTime ==
    /\ SessionsInWindow
    /\ \A r \in Requests : OnTime(r)
    /\ \A r \in Requests :
          submissions[r] # NoRow /\ submissions[r].is_official => AttemptInTime(r)

LEMMA UneditedCases ==
    ASSUME EditedTests = {}, [Next]_vars
    PROVE  /\ UNCHANGED tests
           /\ \/ UNCHANGED <<sessions, submissions, pc, call, local>>
              \/ \E r \in Requests : Quiet(r) \/ StartCommit(r) \/ SubmitCommit(r)
<1>1. ASSUME NEW r \in Requests, Arrive(r) PROVE Arrival(r)
  BY <1>1 DEF Arrive, Arrival, StartFetch, SubmitFetch
<1>2. ASSUME NEW r \in Requests, Step(r) \/ Fail(r)
      PROVE  Quiet(r) \/ StartCommit(r) \/ SubmitCommit(r)
  BY <1>2 DEF Step, Quiet, Refusal, Decide
<1>3. ASSUME NEW r \in Requests, Quiet(r) \/ StartCommit(r) \/ SubmitCommit(r)
      PROVE  UNCHANGED tests
  BY <1>3, QuietTables DEF database, StartCommit, SubmitCommit
<1>4. UNCHANGED vars \/ Tick
        => UNCHANGED <<tests, sessions, submissions, pc, call, local>>
  BY DEF vars, database, Tick
<1>5. CASE \E r \in Requests : Arrive(r) \/ Step(r) \/ Fail(r)
  BY <1>1, <1>2, <1>3, <1>5 DEF Quiet
<1>6. CASE UNCHANGED vars \/ Tick
  BY <1>4, <1>6
<1> QED
  BY <1>5, <1>6 DEF Next, Finished

(* A session keeps whose it is, its test, its beginning and its deadline. *)
LEMMA SessionKept ==
    ASSUME Held, EditedTests = {}, [Next]_vars,
           NEW s \in Requests, sessions[s] # NoRow
    PROVE  /\ sessions'[s] # NoRow
           /\ sessions'[s].user = sessions[s].user
           /\ sessions'[s].test = sessions[s].test
           /\ sessions'[s].started_at = sessions[s].started_at
           /\ sessions'[s].expires_at = sessions[s].expires_at
<1>1. CASE sessions'[s] = sessions[s]
  BY <1>1
<1>2. ASSUME NEW r \in Requests, StartCommit(r) PROVE sessions'[s] = sessions[s]
  <2>1. s # r
    BY <1>2, AnsweredIsFinal DEF Held, RowsOfAnswered
  <2> QED
    BY <1>2, <2>1 DEF StartCommit, Held, Typed, TypeOK
<1>3. ASSUME NEW r \in Requests, SubmitCommit(r), s = call[r].session
      PROVE  /\ sessions'[s] # NoRow
             /\ sessions'[s].user = sessions[s].user
             /\ sessions'[s].test = sessions[s].test
             /\ sessions'[s].started_at = sessions[s].started_at
             /\ sessions'[s].expires_at = sessions[s].expires_at
  <2>1. /\ sessions[s] \in SessionRow
        /\ sessions'[s] = [sessions[s] EXCEPT !.is_completed = TRUE]
    BY <1>3, CommittedSessions
  <2>2. sessions'[s] \in SessionRow
    BY <2>1 DEF SessionRow
  <2> QED
    BY <2>1, <2>2, RowsAssumption DEF SessionRow
<1>4. ASSUME NEW r \in Requests, SubmitCommit(r), s # call[r].session
      PROVE  sessions'[s] = sessions[s]
  BY <1>4, CommittedSessions
<1>5. ASSUME NEW r \in Requests, Quiet(r) PROVE sessions'[s] = sessions[s]
  BY <1>5, QuietTables DEF database
<1> QED
  BY <1>1, <1>2, <1>3, <1>4, <1>5, UneditedCases

LEMMA SessionsInWindowStep ==
    ASSUME Held, InTime, EditedTests = {}, [Next]_vars
    PROVE  SessionsInWindow'
<1> SUFFICES ASSUME NEW s \in Requests, sessions'[s] # NoRow
             PROVE  /\ IsAvailable(tests'[sessions'[s].test], sessions'[s].started_at)
                    /\ sessions'[s].expires_at
                          = sessions'[s].started_at
                              + tests'[sessions'[s].test].duration_seconds * Second
  BY DEF SessionsInWindow
<1>1. tests' = tests
  BY UneditedCases
<1>2. CASE sessions[s] # NoRow
  BY <1>1, <1>2, SessionKept DEF InTime, SessionsInWindow
<1>3. CASE sessions[s] = NoRow
  <2>1. StartCommit(s)
    <3>1. ASSUME NEW r \in Requests, SubmitCommit(r) PROVE sessions'[s] = sessions[s]
      <4>1. s # call[r].session
        BY <1>3, <3>1, CommittedSessions, RowsAssumption
      <4> QED
        BY <3>1, <4>1, CommittedSessions
    <3>2. ASSUME NEW r \in Requests, Quiet(r) PROVE sessions'[s] = sessions[s]
      BY <3>2, QuietTables DEF database
    <3>3. ASSUME NEW r \in Requests, StartCommit(r), r # s
          PROVE  sessions'[s] = sessions[s]
      BY <3>3 DEF StartCommit, Held, Typed, TypeOK
    <3> QED
      BY <1>3, <3>1, <3>2, <3>3, UneditedCases
  <2>2. pc[s] = "inserting" /\ pc[s] \in InFlight
    BY <2>1 DEF StartCommit, InFlight, Started
  <2>3. /\ local[s].row = tests[call[s].test]
        /\ IsAvailable(local[s].row, local[s].started_at)
    BY <2>2 DEF InTime, OnTime
  <2>4. sessions'[s] = [user |-> call[s].user, test |-> call[s].test,
                        started_at |-> local[s].started_at,
                        expires_at |-> local[s].started_at
                                         + local[s].row.duration_seconds * Second,
                        is_completed |-> FALSE]
    BY <2>1 DEF StartCommit, Held, Typed, TypeOK
  <2>5. /\ sessions'[s].test = call[s].test
        /\ sessions'[s].started_at = local[s].started_at
        /\ sessions'[s].expires_at
              = local[s].started_at + local[s].row.duration_seconds * Second
    BY <2>4
  <2> QED
    BY <1>1, <2>3, <2>5
<1> QED
  BY <1>2, <1>3

(* What SubmitResolve and SubmitDecide leave in the locals of a request. *)
LEMMA ResolvedLocals ==
    ASSUME Held, NEW r \in Requests, SubmitResolve(r)
    PROVE  /\ local'[r].row = local[r].row
           /\ call[r].session # NoSession /\ local'[r].within_time
                => local'[r].elapsed <= local[r].row.duration_seconds + Grace
<1> DEFINE elapsed == Elapsed(sessions[call[r].session])
           within  == WithinTime(elapsed, local[r].row)
           once    == [local[r] EXCEPT !.elapsed = elapsed]
           twice   == [once EXCEPT !.within_time = within]
<1>1. local[r] \in Locals
  BY DEF Held, Typed, TypeOK
<1>2. CASE call[r].session = NoSession
  <2>1. Goto(r, "timed", local[r]) \/ Goto(r, "timed", twice)
    BY DEF SubmitResolve
  <2>2. local'[r] = local[r] \/ local'[r] = twice
    BY <2>1 DEF Goto, Held, Typed, TypeOK
  <2> HIDE DEF elapsed, within
  <2>3. twice.row = local[r].row
    BY <1>1 DEF Locals
  <2> QED
    BY <1>2, <2>2, <2>3
<1>3. CASE call[r].session # NoSession
  <2>1. Goto(r, "timed", twice)
    BY <1>3 DEF SubmitResolve
  <2>2. local'[r] = twice
    BY <2>1 DEF Goto, Held, Typed, TypeOK
  <2>3. within => elapsed <= local[r].row.duration_seconds + Grace
    BY DEF WithinTime
  <2> HIDE DEF elapsed, within
  <2>4. /\ twice.row = local[r].row /\ twice.elapsed = elapsed
        /\ twice.within_time = within
    BY <1>1 DEF Locals
  <2> HIDE DEF twice
  <2> QED
    BY <2>2, <2>3, <2>4
<1> QED
  BY <1>2, <1>3

LEMMA DecidedLocals ==
    ASSUME Held, NEW r \in Requests, Decide(r)
    PROVE  /\ local'[r].row = local[r].row
           /\ local'[r].elapsed = local[r].elapsed
           /\ local'[r].within_time = local[r].within_time
           /\ local'[r].is_official =>
                /\ call[r].session # NoSession /\ local[r].within_time
                /\ IsAvailable(local[r].row, local'[r].submitted_at)
<1> DEFINE official == /\ OfficialOf(call[r].user, call[r].test) = {}
                       /\ call[r].session # NoSession
                       /\ local[r].within_time
                       /\ IsAvailable(local[r].row, now)
<1>1. PICK c \in 0 .. local[r].paper.worth : SubmitDecide(r, c)
  BY DEF Decide
<1> DEFINE score  == Percentage(c, local[r].paper.worth)
           earned == PointsEarned(official, local[r].row.reward_points,
                                  c, local[r].paper.worth)
           locals == [local[r] EXCEPT !.is_official = official, !.score = score,
                                      !.points_earned = earned,
                                      !.submitted_at = now]
<1>2. Goto(r, "graded", locals)
  BY <1>1 DEF SubmitDecide
<1>3. local'[r] = locals
  BY <1>2 DEF Goto, Held, Typed, TypeOK
<1>4. local[r] \in Locals
  BY DEF Held, Typed, TypeOK
<1>5. official => /\ call[r].session # NoSession /\ local[r].within_time
                  /\ IsAvailable(local[r].row, now)
  OBVIOUS
<1> HIDE DEF official, score, earned
<1>6. /\ locals.row = local[r].row /\ locals.elapsed = local[r].elapsed
      /\ locals.within_time = local[r].within_time
      /\ locals.is_official = official /\ locals.submitted_at = now
  BY <1>4 DEF Locals
<1> HIDE DEF locals
<1> QED
  BY <1>3, <1>5, <1>6

LEMMA OnTimeStep ==
    ASSUME Held, InTime, EditedTests = {}, [Next]_vars, NEW q \in Requests
    PROVE  OnTime(q)'
<1>1. tests' = tests
  BY UneditedCases
<1>2. OnTime(q)
  BY DEF InTime
<1>3. CASE pc'[q] = pc[q] /\ call'[q] = call[q] /\ local'[q] = local[q]
  BY <1>1, <1>2, <1>3 DEF OnTime
<1>4. ASSUME Quiet(q) \/ StartCommit(q) \/ SubmitCommit(q) PROVE OnTime(q)'
  <2>1. ASSUME NEW label \in Answered, Answer(q, label) PROVE OnTime(q)'
    <3>1. pc'[q] = label
      BY <2>1 DEF Answer, Goto, Held, Typed, TypeOK
    <3> QED
      BY <3>1 DEF OnTime, Answered, InFlight, Started, InTransaction
  <2>2. CASE Refusal(q) \/ StartCommit(q) \/ SubmitCommit(q)
    <3>1. \E label \in Answered : Answer(q, label)
      BY <2>2, RefusalShape DEF StartCommit, SubmitCommit, Answered
    <3> QED
      BY <2>1, <3>1
  <2>3. CASE Arrival(q)
    <3>1. PICK u \in Users, t \in Tests, s \in Requests \cup {NoSession},
               label \in {"starting", "submitting"} : Fetch(q, u, t, s, label)
      BY <2>3 DEF Arrival
    <3>2. /\ pc'[q] = label
          /\ call'[q] = [user |-> u, test |-> t, session |-> s]
          /\ local'[q] = [NoLocals EXCEPT !.row = tests[t]]
      BY <3>1 DEF Fetch, Goto, Held, Typed, TypeOK
    <3>3. local'[q].row = tests[t] /\ call'[q].test = t
      BY <3>2 DEF NoLocals
    <3> QED
      BY <1>1, <3>2, <3>3 DEF OnTime
  <2>4. CASE StartInsert(q)
    <3>1. /\ pc'[q] = "inserting" /\ call' = call
          /\ local'[q] = [local[q] EXCEPT !.started_at = now]
          /\ IsAvailable(local[q].row, now) /\ pc[q] \in InFlight
      BY <2>4 DEF StartInsert, Goto, Held, Typed, TypeOK, InFlight, Started
    <3>2. local'[q].row = local[q].row /\ local'[q].started_at = now
      BY <3>1 DEF Held, Typed, TypeOK, Locals
    <3> QED
      BY <1>1, <1>2, <3>1, <3>2 DEF OnTime
  <2>5. CASE SubmitLock(q)
    <3>1. /\ pc'[q] = "locked" /\ call' = call /\ pc[q] \in InFlight
          /\ local'[q] = [local[q] EXCEPT !.paper = papers[call[q].test]]
      BY <2>5 DEF SubmitLock, Goto, Held, Typed, TypeOK, InFlight
    <3>2. local'[q].row = local[q].row
      BY <3>1 DEF Held, Typed, TypeOK, Locals
    <3> QED
      BY <1>1, <1>2, <3>1, <3>2 DEF OnTime
  <2>6. CASE SubmitResolve(q)
    <3>1. pc'[q] = "timed" /\ call' = call /\ pc[q] \in InFlight
      BY <2>6
         DEF SubmitResolve, Goto, Held, Typed, TypeOK, InFlight, InTransaction
    <3> QED
      BY <1>1, <1>2, <2>6, <3>1, ResolvedLocals DEF OnTime
  <2>7. CASE Decide(q)
    <3>1. pc'[q] = "graded" /\ call' = call /\ pc[q] = "timed"
      BY <2>7 DEF Decide, SubmitDecide, Goto, Held, Typed, TypeOK
    <3>2. pc[q] \in InFlight
      BY <3>1 DEF InFlight, InTransaction
    <3> QED
      BY <1>1, <1>2, <2>7, <3>1, <3>2, DecidedLocals DEF OnTime
  <2> QED
    BY <1>4, <2>2, <2>3, <2>4, <2>5, <2>6, <2>7 DEF Quiet
<1> QED
  BY <1>3, <1>4, UneditedCases, OthersWait DEF Held

LEMMA Seconds ==
    ASSUME NEW elapsed \in Nat, NEW duration \in Nat, NEW grace \in Nat,
           NEW second \in Nat, elapsed <= duration + grace
    PROVE  elapsed * second <= duration * second + grace * second
<1>1. PICK slack \in Nat : elapsed + slack = duration + grace
  <2> WITNESS duration + grace - elapsed \in Nat
  <2> QED
    OBVIOUS
<1>2. (elapsed + slack) * second = elapsed * second + slack * second
      /\ (duration + grace) * second = duration * second + grace * second
  OBVIOUS
<1>3. slack * second \in Nat /\ elapsed * second \in Nat
  OBVIOUS
<1> QED
  BY <1>1, <1>2, <1>3

LEMMA AttemptsInTimeStep ==
    ASSUME Held, InTime, EditedTests = {}, [Next]_vars, NEW r \in Requests,
           submissions'[r] # NoRow, submissions'[r].is_official
    PROVE  AttemptInTime(r)'
<1>1. tests' = tests
  BY UneditedCases
<1>2. CASE submissions'[r] = submissions[r]
  <2>1. AttemptInTime(r)
    BY <1>2 DEF InTime
  <2> DEFINE s == submissions[r].session
  <2>2. s \in Requests /\ sessions[s] # NoRow
    BY <2>1 DEF AttemptInTime, SessionsOf
  <2>3. /\ sessions'[s] # NoRow
        /\ sessions'[s].user = sessions[s].user
        /\ sessions'[s].test = sessions[s].test
        /\ sessions'[s].started_at = sessions[s].started_at
        /\ sessions'[s].expires_at = sessions[s].expires_at
    BY <2>2, SessionKept
  <2> QED
    BY <1>1, <1>2, <2>1, <2>3 DEF AttemptInTime, SessionsOf
<1>3. CASE submissions'[r] # submissions[r]
  <2>1. SubmitCommit(r)
    <3>1. PICK q \in Requests : SubmitCommit(q)
      BY <1>3, OnlyCommitsPay
    <3> QED
      BY <1>3, <3>1, CommittedSubmission
  <2> DEFINE s == call[r].session
             t == call[r].test
  <2>2. /\ submissions'[r].user = call[r].user /\ submissions'[r].test = t
        /\ submissions'[r].session = s
        /\ submissions'[r].submitted_at = local[r].submitted_at
        /\ submissions'[r].completion_time = local[r].elapsed
        /\ local[r].is_official
    BY <2>1, CommittedSubmission
  <2>3. pc[r] = "graded" /\ pc[r] \in InFlight
    BY <2>1 DEF SubmitCommit, InFlight, InTransaction
  <2>4. /\ local[r].row = tests[t] /\ s # NoSession
        /\ local[r].elapsed <= tests[t].duration_seconds + Grace
        /\ IsAvailable(tests[t], local[r].submitted_at)
    BY <2>2, <2>3 DEF InTime, OnTime
  <2>5. /\ s \in Requests /\ sessions[s] # NoRow
        /\ sessions[s].user = call[r].user /\ sessions[s].test = t
    BY <2>3, <2>4 DEF Held, SessionHeld, UsableSession, SessionsOf
  <2>6. /\ IsAvailable(tests[t], sessions[s].started_at)
        /\ sessions[s].expires_at
              = sessions[s].started_at + tests[t].duration_seconds * Second
    BY <2>5 DEF InTime, SessionsInWindow
  <2>7. /\ sessions'[s] # NoRow
        /\ sessions'[s].user = sessions[s].user
        /\ sessions'[s].test = sessions[s].test
        /\ sessions'[s].started_at = sessions[s].started_at
        /\ sessions'[s].expires_at = sessions[s].expires_at
    BY <2>5, SessionKept
  <2>8. /\ local[r].elapsed \in Nat /\ tests[t].duration_seconds \in Nat
        /\ sessions[s].started_at \in Nat
    <3>1. local[r] \in Locals /\ tests[t] \in TestRow /\ sessions[s] \in SessionRow
      BY <2>3, <2>4, <2>5 DEF Held, Typed, TypeOK, Underway
    <3> QED
      BY <3>1 DEF Locals, TestRow, SessionRow
  <2>9. local[r].elapsed * Second
            <= sessions[s].expires_at - sessions[s].started_at + Grace * Second
    <3> DEFINE span == tests[t].duration_seconds * Second
    <3>1. local[r].elapsed * Second <= span + Grace * Second
      BY <2>4, <2>8, Seconds, ConstantsAssumption
    <3>2. span \in Nat
      BY <2>8, ConstantsAssumption
    <3> HIDE DEF span
    <3>3. sessions[s].expires_at = sessions[s].started_at + span
      BY <2>6 DEF span
    <3>4. sessions[s].expires_at - sessions[s].started_at = span
      BY <2>8, <3>2, <3>3
    <3> QED
      BY <3>1, <3>4
  <2> QED
    BY <1>1, <2>2, <2>4, <2>5, <2>6, <2>7, <2>9 DEF AttemptInTime, SessionsOf
<1> QED
  BY <1>2, <1>3

(* As long as nobody edits a test, an official attempt lies in the window of  *)
(* its test and kept the deadline its session was created with, however the   *)
(* requests interleave and wherever the clock ticks between their steps.      *)
THEOREM OfficialAlwaysInTime ==
    ASSUME EditedTests = {}
    PROVE  Spec => []OfficialInTime
<1>1. Init => InTime
  BY DEF Init, InTime, SessionsInWindow, OnTime, InFlight, Started, InTransaction
<1>2. Held /\ InTime /\ [Next]_vars => InTime'
  BY SessionsInWindowStep, OnTimeStep, AttemptsInTimeStep DEF InTime
<1>3. InTime => OfficialInTime
  BY DEF InTime, OfficialInTime, AttemptInTime, SubmissionRows
<1> QED
  BY <1>1, <1>2, <1>3, HeldInvariant, PTL DEF Spec
=============================================================================
