-------------------------------- MODULE Career --------------------------------
(***************************************************************************)
(* The official attempts of one user over many days.  Attempts shows that  *)
(* they commit one at a time, each on the counters the previous one left;  *)
(* here each is one step, so that streaks and achievements which take ten  *)
(* attempts or a week can be followed to their end.                        *)
(***************************************************************************)
EXTENDS Gamification

CONSTANTS
    Rewards,     \* what an official attempt may earn
    MaxDay,      \* bound on the calendar
    MaxTests     \* how many tests there are to take officially

ASSUME CareerAssumption ==
    /\ Rewards \subseteq Nat
    /\ MaxDay \in Nat /\ MaxTests \in Nat
    /\ NoDate \notin Int

VARIABLES
    today,       \* timezone.localdate()
    user,        \* the progress columns of the User row
    unlocked,    \* the codes of the user's UserAchievement rows
    active,      \* history: the days with an official attempt
    perfect      \* history: whether one of them was perfect

vars == <<today, user, unlocked, active, perfect>>

TypeOK ==
    /\ today \in Nat
    /\ user \in [points : Nat, completed_tests : Nat, streak : 0 .. today + 1,
                 last_activity_date : (0 .. today) \cup {NoDate},
                 current_rank : RankTier]
    /\ unlocked \in SUBSET AchievementCode
    /\ active \in SUBSET (0 .. today)
    /\ perfect \in BOOLEAN

Init ==
    /\ today = 0
    /\ user = [points |-> 0, completed_tests |-> 0, streak |-> 0,
               last_activity_date |-> NoDate, current_rank |-> "novice"]
    /\ unlocked = {}
    /\ active = {}
    /\ perfect = FALSE

Midnight ==
    /\ today < MaxDay
    /\ today' = today + 1
    /\ UNCHANGED <<user, unlocked, active, perfect>>

(* The commit of an official attempt: its reward, and whether the score was 100. *)
OfficialAttempt(earned, perfect_score) ==
    LET row == ApplyOfficialResults(user, earned, today)
    IN  /\ user.completed_tests < MaxTests
        /\ user' = row
        /\ unlocked' = unlocked \cup CodesToUnlock(row, perfect_score, unlocked)
        /\ active' = active \cup {today}
        /\ perfect' = (perfect \/ perfect_score)
        /\ UNCHANGED today

(* Every test has been taken on the last day. *)
Finished ==
    /\ user.completed_tests = MaxTests /\ today = MaxDay
    /\ UNCHANGED vars

Next ==
    \/ Midnight
    \/ \E earned \in Rewards, perfect_score \in BOOLEAN :
          OfficialAttempt(earned, perfect_score)
    \/ Finished

Spec == Init /\ [][Next]_vars
-----------------------------------------------------------------------------
(* The properties. *)

(* The streak, which the code computes from its own last value and one date, *)
(* is the number of consecutive active days that end at the last active one: *)
(* all of them have an attempt, and the day before them has none             *)
(* (services/streak.py).                                                     *)
StreakIsRun == IsRun(active, user.last_activity_date, user.streak)

(* Every achievement is unlocked as soon as the history deserves it and is    *)
(* never lost: "7 Day Streak" exactly by a week in a row, though the streak   *)
(* that the code keeps forgets the week after a gap (services/achievements). *)
UnlocksFollowHistory == unlocked = AchievementsOf(user, WeekInARow(active), perfect)
=============================================================================
