----------------------------- MODULE CareerProofs -----------------------------
(* The streak and the achievements of a user, over any number of days. *)
EXTENDS Career, GamificationProofs

(* The streak alone says nothing about the days; together with the days it    *)
(* counts it is inductive, and the days bound it.                            *)
Counted == TypeOK /\ StreakIsRun

(* What a commit does to each column. *)
LEMMA AttemptColumns ==
    ASSUME Counted, NEW earned \in Rewards, NEW perfect_score \in BOOLEAN,
           OfficialAttempt(earned, perfect_score)
    PROVE  /\ user'.points = user.points + earned
           /\ user'.completed_tests = user.completed_tests + 1
           /\ user'.streak = NextStreak(user.streak, user.last_activity_date, today)
           /\ user'.last_activity_date = today
           /\ user'.current_rank = RankForPoints(user.points + earned)
BY DEF Counted, TypeOK, OfficialAttempt, ApplyOfficialResults

LEMMA CountedInit == Init => Counted
<1> SUFFICES ASSUME Init PROVE Counted
  OBVIOUS
<1>1. StreakIsRun
  BY DEF Init, StreakIsRun, IsRun
<1>2. "novice" \in RankTier /\ 0 \in 0 .. today + 1 /\ today \in Nat
  BY DEF RankTier, Init
<1>3. user \in [points : Nat, completed_tests : Nat, streak : 0 .. today + 1,
               last_activity_date : (0 .. today) \cup {NoDate},
               current_rank : RankTier]
  BY <1>2 DEF Init
<1>4. unlocked \in SUBSET AchievementCode /\ active \in SUBSET (0 .. today)
      /\ perfect \in BOOLEAN
  BY DEF Init
<1> QED
  BY <1>1, <1>2, <1>3, <1>4 DEF Counted, TypeOK

LEMMA RunStep ==
    ASSUME Counted, NEW earned \in Rewards, NEW perfect_score \in BOOLEAN,
           OfficialAttempt(earned, perfect_score)
    PROVE  StreakIsRun'
<1>1. /\ user'.streak = NextStreak(user.streak, user.last_activity_date, today)
      /\ user'.last_activity_date = today
  BY AttemptColumns
<1>2. active' = active \cup {today}
  BY DEF OfficialAttempt
<1>3. /\ today \in Nat /\ active \in SUBSET (0 .. today)
      /\ user.streak \in Nat /\ user.last_activity_date \in Nat \cup {NoDate}
  BY DEF Counted, TypeOK
<1>4. IsRun(active, user.last_activity_date, user.streak)
  BY DEF Counted, StreakIsRun
<1>5. IsRun(active \cup {today}, today,
            NextStreak(user.streak, user.last_activity_date, today))
  BY <1>3, <1>4, RunGrows, CareerAssumption
<1>6. IsRun(active', user'.last_activity_date, user'.streak)
  BY <1>1, <1>2, <1>5, Zenon
<1> QED
  BY <1>6 DEF StreakIsRun

LEMMA CountedStep == Counted /\ [Next]_vars => Counted'
<1> SUFFICES ASSUME Counted, [Next]_vars PROVE Counted'
  OBVIOUS
<1>1. CASE Midnight
  <2>1. today \in Nat /\ today' = today + 1
    BY <1>1 DEF Midnight, Counted, TypeOK
  <2>2. UNCHANGED <<user, unlocked, active, perfect>>
    BY <1>1 DEF Midnight
  <2>3. StreakIsRun'
    BY <2>2 DEF Counted, StreakIsRun
  <2>4. 0 .. today \subseteq 0 .. today' /\ 0 .. today + 1 \subseteq 0 .. today' + 1
    BY <2>1
  <2>5. TypeOK'
    BY <2>1, <2>2, <2>4 DEF Counted, TypeOK
  <2> QED
    BY <2>3, <2>5 DEF Counted
<1>2. CASE \E earned \in Rewards, perfect_score \in BOOLEAN :
               OfficialAttempt(earned, perfect_score)
  <2> PICK earned \in Rewards, perfect_score \in BOOLEAN :
               OfficialAttempt(earned, perfect_score)
    BY <1>2
  <2>1. StreakIsRun'
    BY RunStep
  <2>2. /\ today \in Nat /\ today' = today
        /\ active' = active \cup {today} /\ active' \subseteq 0 .. today
    BY DEF Counted, TypeOK, OfficialAttempt
  <2>3. user'.last_activity_date = today /\ today \notin {NoDate}
    BY <2>2, AttemptColumns, CareerAssumption
  <2>4. user'.streak \in Nat
    <3>1. user.streak \in Nat /\ user.last_activity_date \in Nat \cup {NoDate}
      BY DEF Counted, TypeOK
    <3> QED
      BY <2>2, <3>1, AttemptColumns, NextStreakType
  <2>5. user'.streak <= today + 1
    <3>1. /\ user'.streak >= 1
          /\ (today - user'.streak + 1) .. today \subseteq active'
      BY <2>1, <2>2, <2>3 DEF StreakIsRun, IsRun
    <3>2. today - user'.streak + 1 \in active'
      BY <2>2, <2>4, <3>1
    <3> QED
      BY <2>2, <2>4, <3>2
  <2>6. user.points + earned \in Nat /\ user.completed_tests + 1 \in Nat
    BY CareerAssumption DEF Counted, TypeOK
  <2>7. RankForPoints(user.points + earned) \in RankTier
    BY <2>6, RankForPointsReached
  <2>8. user' \in [points : Nat, completed_tests : Nat, streak : 0 .. today + 1,
                   last_activity_date : (0 .. today) \cup {NoDate},
                   current_rank : RankTier]
    <3>1. /\ user'.points \in Nat /\ user'.completed_tests \in Nat
          /\ user'.streak \in 0 .. today + 1
          /\ user'.last_activity_date \in (0 .. today) \cup {NoDate}
          /\ user'.current_rank \in RankTier
      BY <2>2, <2>3, <2>4, <2>5, <2>6, <2>7, AttemptColumns
    <3>2. user' = [points |-> user.points + earned,
                   completed_tests |-> user.completed_tests + 1,
                   streak |-> NextStreak(user.streak, user.last_activity_date, today),
                   last_activity_date |-> today,
                   current_rank |-> RankForPoints(user.points + earned)]
      BY DEF Counted, TypeOK, OfficialAttempt, ApplyOfficialResults
    <3> QED
      BY <3>1, <3>2
  <2>9. unlocked' \in SUBSET AchievementCode /\ perfect' \in BOOLEAN
    BY DEF Counted, TypeOK, OfficialAttempt, CodesToUnlock
  <2>10. TypeOK'
    BY <2>2, <2>8, <2>9 DEF TypeOK
  <2> QED
    BY <2>1, <2>10 DEF Counted
<1>3. CASE UNCHANGED vars
  BY <1>3 DEF vars, Counted, TypeOK, StreakIsRun
<1> QED
  BY <1>1, <1>2, <1>3 DEF Next, Finished

(* The types and the streak hold for ever: the inductive part of what follows *)
(* (services/streak.py).                                                      *)
THEOREM CountedAlways == Spec => []Counted
BY CountedInit, CountedStep, PTL DEF Spec

(* The columns of a career keep their types (models/user.py).                 *)
THEOREM TypesAlwaysHold == Spec => []TypeOK
<1>1. Counted => TypeOK
  BY DEF Counted
<1> QED
  BY <1>1, CountedAlways, PTL

(* The streak column always counts the days it claims to count, whatever the  *)
(* order of attempts and midnights (services/streak.py, next_streak).         *)
THEOREM StreakAlwaysIsRun == Spec => []StreakIsRun
<1>1. Counted => StreakIsRun
  BY DEF Counted
<1> QED
  BY <1>1, CountedAlways, PTL
-----------------------------------------------------------------------------
LEMMA UnlocksStep ==
    ASSUME Counted, Counted', UnlocksFollowHistory, NEW earned \in Rewards,
           NEW perfect_score \in BOOLEAN, OfficialAttempt(earned, perfect_score)
    PROVE  UnlocksFollowHistory'
<1> DEFINE Won == {code \in AchievementCode : Rules(user', perfect_score)[code]}
           before == WeekInARow(active)
           after  == WeekInARow(active \cup {today})
<1>1. unlocked' = unlocked \cup Won
  BY DEF OfficialAttempt, CodesToUnlock
<1>2. unlocked = AchievementsOf(user, before, perfect)
  BY DEF UnlocksFollowHistory
<1>3. /\ user.points \in Nat /\ user'.points \in Nat
      /\ user.points <= user'.points
      /\ user.completed_tests \in Nat /\ user'.completed_tests \in Nat
      /\ user.completed_tests <= user'.completed_tests
      /\ "streak" \in DOMAIN user /\ "streak" \in DOMAIN user'
  <2>1. earned \in Nat
    BY CareerAssumption
  <2> QED
    BY <2>1, AttemptColumns DEF Counted, TypeOK
<1>4. /\ perfect' = (perfect \/ perfect_score)
      /\ active' = active \cup {today}
      /\ perfect \in BOOLEAN
  BY DEF OfficialAttempt, Counted, TypeOK
<1>5. before \in BOOLEAN /\ after \in BOOLEAN
  BY DEF WeekInARow
<1>6. after <=> before \/ user'.streak >= 7
  <2>1. /\ today \in Nat /\ active \in SUBSET (0 .. today) /\ user'.streak \in Nat
        /\ user'.last_activity_date = today
    BY AttemptColumns DEF Counted, TypeOK
  <2>2. IsRun(active', user'.last_activity_date, user'.streak)
    BY DEF Counted, StreakIsRun
  <2>3. IsRun(active \cup {today}, today, user'.streak)
    BY <1>4, <2>1, <2>2, Zenon
  <2> QED
    BY <2>1, <2>3, WeekGrows, CareerAssumption
<1> HIDE DEF before, after
<1>7. AchievementsOf(user', after, perfect \/ perfect_score)
          = AchievementsOf(user, before, perfect) \cup Won
  BY <1>3, <1>4, <1>5, <1>6, AchievementsGrow
<1>8. unlocked' = AchievementsOf(user', after, perfect')
  BY <1>1, <1>2, <1>4, <1>7, Zenon
<1>9. unlocked' = AchievementsOf(user', WeekInARow(active'), perfect')
  BY <1>4, <1>8, Zenon DEF after
<1> QED
  BY <1>9 DEF UnlocksFollowHistory

(* Every achievement is unlocked exactly by the history that deserves it,     *)
(* however long ago that was (services/achievements.py).                      *)
THEOREM UnlocksAlwaysFollowHistory == Spec => []UnlocksFollowHistory
<1>1. Init => UnlocksFollowHistory
  <2> SUFFICES ASSUME Init PROVE UnlocksFollowHistory
    OBVIOUS
  <2>1. /\ ~ WeekInARow(active) /\ ~ perfect /\ unlocked = {}
        /\ "streak" \in DOMAIN user /\ user.points = 0 /\ user.completed_tests = 0
    BY DEF Init, WeekInARow
  <2>2. WeekInARow(active) \in BOOLEAN /\ perfect \in BOOLEAN
    BY DEF Init, WeekInARow
  <2>3. AchievementsOf(user, WeekInARow(active), perfect) = {}
    BY <2>1, <2>2, AchievementsByCode
  <2> QED
    BY <2>1, <2>3 DEF UnlocksFollowHistory
<1>2. Counted /\ Counted' /\ UnlocksFollowHistory /\ [Next]_vars
         => UnlocksFollowHistory'
  <2> SUFFICES ASSUME Counted, Counted', UnlocksFollowHistory, [Next]_vars
               PROVE  UnlocksFollowHistory'
    OBVIOUS
  <2>1. CASE \E earned \in Rewards, perfect_score \in BOOLEAN :
                 OfficialAttempt(earned, perfect_score)
    BY <2>1, UnlocksStep
  <2>2. CASE UNCHANGED <<user, unlocked, active, perfect>>
    BY <2>2 DEF UnlocksFollowHistory
  <2> QED
    BY <2>1, <2>2 DEF Next, Midnight, Finished, vars
<1> QED
  BY <1>1, <1>2, CountedAlways, PTL DEF Spec
=============================================================================
