---------------------------- MODULE Gamification ----------------------------
(***************************************************************************)
(* The arithmetic of the backend: how a graded attempt becomes a score and *)
(* reward points, and how an official one moves the counters of its user.  *)
(* Everything here is a pure operator; the state machines are in Attempts, *)
(* Career and Accounts.                                                    *)
(***************************************************************************)
EXTENDS Integers, FiniteSets

CONSTANT NoDate      \* SQL NULL in a date or a datetime column

(* decimal.ROUND_HALF_UP of the non-negative fraction n/d. *)
RoundHalfUp(n, d) == (2 * n + d) \div (2 * d)

(* A score is a count of hundredths of a percent: Decimal("0.01") steps. *)
FullScore == 10000

Percentage(correct_points, total_points) ==
    IF total_points <= 0 THEN 0
    ELSE RoundHalfUp(FullScore * correct_points, total_points)

PointsEarned(is_official, reward_points, correct_points, total_points) ==
    IF is_official /\ reward_points # 0 /\ total_points > 0
    THEN RoundHalfUp(reward_points * correct_points, total_points)
    ELSE 0

-----------------------------------------------------------------------------
(* constants.RANK_THRESHOLDS: the points at which each tier begins. *)
RankTier == {"novice", "bronze", "silver", "gold", "platinum", "diamond"}

RankThreshold ==
    [novice   |-> 0,   bronze   |-> 100,  silver  |-> 300,
     gold     |-> 700, platinum |-> 1500, diamond |-> 3000]

(* The loop stops at the first tier out of reach, so it ends on the reached *)
(* tier with the highest threshold.                                         *)
RankForPoints(points) ==
    CHOOSE tier \in RankTier :
        /\ points >= RankThreshold[tier]
        /\ \A other \in RankTier :
              points >= RankThreshold[other]
                => RankThreshold[other] <= RankThreshold[tier]

(* Dates are day numbers. *)
NextStreak_CountsAttempts(previous_streak, last_activity, today) ==
    CASE last_activity = NoDate    -> 1
      [] last_activity >= today - 1 -> previous_streak + 1
      [] OTHER                     -> 1
NextStreak_ForgivesAGap(previous_streak, last_activity, today) ==
    CASE last_activity = NoDate    -> 1
      [] last_activity = today     -> previous_streak
      [] last_activity >= today - 2 -> previous_streak + 1
      [] OTHER                     -> 1
NextStreak(previous_streak, last_activity, today) ==
    CASE last_activity = NoDate    -> 1
      [] last_activity = today     -> IF previous_streak > 1
                                      THEN previous_streak ELSE 1
      [] last_activity = today - 1 -> previous_streak + 1
      [] OTHER                     -> 1

-----------------------------------------------------------------------------
AchievementCode ==
    {"first_test", "tests_5", "tests_10", "points_100", "points_500",
     "points_1000", "perfect_score", "streak_7"}

Rules_MoreThanAWeek(user, perfect_score) ==
    [first_test    |-> user.completed_tests >= 1,
     tests_5       |-> user.completed_tests >= 5,
     tests_10      |-> user.completed_tests >= 10,
     points_100    |-> user.points >= 100,
     points_500    |-> user.points >= 500,
     points_1000   |-> user.points >= 1000,
     perfect_score |-> perfect_score,
     streak_7      |-> user.streak > 7]
Rules(user, perfect_score) ==
    [first_test    |-> user.completed_tests >= 1,
     tests_5       |-> user.completed_tests >= 5,
     tests_10      |-> user.completed_tests >= 10,
     points_100    |-> user.points >= 100,
     points_500    |-> user.points >= 500,
     points_1000   |-> user.points >= 1000,
     perfect_score |-> perfect_score,
     streak_7      |-> user.streak >= 7]

(* What evaluate_achievements adds to the codes a user already has. *)
CodesToUnlock_Again(user, perfect_score, already_unlocked) ==
    {code \in AchievementCode : Rules(user, perfect_score)[code]}
CodesToUnlock(user, perfect_score, already_unlocked) ==
    {code \in AchievementCode : Rules(user, perfect_score)[code]}
        \ already_unlocked

(* The five columns _apply_official_results writes. *)
ApplyOfficialResults_OldRank(user, points_earned, today) ==
    [user EXCEPT
        !.points             = @ + points_earned,
        !.completed_tests    = @ + 1,
        !.streak             = NextStreak(@, user.last_activity_date, today),
        !.last_activity_date = today,
        !.current_rank       = RankForPoints(user.points)]
ApplyOfficialResults(user, points_earned, today) ==
    LET points == user.points + points_earned
    IN  [user EXCEPT
            !.points             = points,
            !.completed_tests    = @ + 1,
            !.streak             = NextStreak(@, user.last_activity_date, today),
            !.last_activity_date = today,
            !.current_rank       = RankForPoints(points)]
-----------------------------------------------------------------------------
(* What the history of a user's official attempts says, to compare with. *)

(* The streak is the number of consecutive days that end at the last one. *)
IsRun(days, last, streak) ==
    IF days = {}
    THEN last = NoDate /\ streak = 0
    ELSE /\ last \in days /\ \A day \in days : day <= last
         /\ streak >= 1
         /\ (last - streak + 1) .. last \subseteq days
         /\ last - streak \notin days

(* Seven of the days follow each other, whatever gaps came after. *)
WeekInARow(days) == \E day \in days : day .. (day + 6) \subseteq days

(* The codes of a user with these counters and that history. *)
AchievementsOf(user, week, perfect) ==
    {code \in AchievementCode :
        Rules([user EXCEPT !.streak = IF week THEN 7 ELSE 0], perfect)[code]}
=============================================================================
