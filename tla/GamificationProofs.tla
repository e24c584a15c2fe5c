------------------------- MODULE GamificationProofs -------------------------
(* What the scoring arithmetic guarantees for every test and every answer. *)
(* Below it, what the proofs of several components share: what adding up a *)
(* finite set of numbers computes, and the positions in a strict order.    *)
EXTENDS Gamification, FiniteSetTheorems, WellFoundedInduction, TLAPS

(* Rounding half up never leaves the whole numbers that bound the fraction: *)
(* the quantize calls of _percentage and submit_test cannot overshoot.      *)
LEMMA RoundHalfUpBounds ==
    ASSUME NEW n \in Nat, NEW d \in Nat \ {0}, NEW k \in Nat, n <= k * d
    PROVE  RoundHalfUp(n, d) \in 0 .. k
<1> DEFINE top == 2 * n + d
           q   == top \div (2 * d)
<1>1. top \in Nat /\ 2 * d \in Nat \ {0}
  OBVIOUS
<1>2. q \in Nat /\ (2 * d) * q <= top
  BY <1>1
<1>3. top < (2 * d) * (k + 1)
  BY SMT
<1>4. ASSUME q > k PROVE FALSE
  <2>1. q >= k + 1
    BY <1>2, <1>4
  <2>2. (2 * d) * q >= (2 * d) * (k + 1)
    BY <1>1, <1>2, <2>1, SMT
  <2> QED
    BY <1>1, <1>2, <1>3, <2>2
<1> QED
  BY <1>2, <1>4 DEF RoundHalfUp

(* A score is a percentage, whatever the points of the questions. *)
THEOREM PercentageBounds ==
    ASSUME NEW correct_points \in Nat, NEW total_points \in Nat,
           correct_points <= total_points
    PROVE  Percentage(correct_points, total_points) \in 0 .. FullScore
<1>1. CASE total_points = 0
  BY <1>1 DEF Percentage, FullScore
<1>2. CASE total_points # 0
  <2>1. FullScore * correct_points \in Nat
        /\ FullScore * correct_points <= FullScore * total_points
    BY DEF FullScore
  <2>2. FullScore \in Nat
    BY DEF FullScore
  <2>3. RoundHalfUp(FullScore * correct_points, total_points) \in 0 .. FullScore
    BY <1>2, <2>1, <2>2, RoundHalfUpBounds
  <2> QED
    BY <1>2, <2>3 DEF Percentage
<1> QED
  BY <1>1, <1>2

(* No answer earns more than the reward of its test. *)
THEOREM PointsEarnedBounds ==
    ASSUME NEW is_official \in BOOLEAN, NEW reward_points \in Nat,
           NEW correct_points \in Nat, NEW total_points \in Nat,
           correct_points <= total_points
    PROVE  PointsEarned(is_official, reward_points, correct_points, total_points)
               \in 0 .. reward_points
<1>1. CASE total_points = 0
  BY <1>1 DEF PointsEarned
<1>2. CASE total_points # 0
  <2>1. reward_points * correct_points \in Nat
        /\ reward_points * correct_points <= reward_points * total_points
    BY SMT
  <2>2. RoundHalfUp(reward_points * correct_points, total_points)
            \in 0 .. reward_points
    BY <1>2, <2>1, RoundHalfUpBounds
  <2> QED
    BY <1>2, <2>2 DEF PointsEarned
<1> QED
  BY <1>1, <1>2

(* Rounding to hundredths of a percent never turns a faulty attempt into a  *)
(* perfect one, as long as the test has fewer than 20000 points.            *)
THEOREM PerfectMeansEverythingCorrect ==
    ASSUME NEW correct_points \in Nat, NEW total_points \in Nat \ {0},
           correct_points <= total_points, total_points < 20000,
           Percentage(correct_points, total_points) = FullScore
    PROVE  correct_points = total_points
<1> DEFINE top == 2 * (10000 * correct_points) + total_points
           q   == top \div (2 * total_points)
<1>1. top \in Nat /\ 2 * total_points \in Nat \ {0}
  OBVIOUS
<1>2. q = 10000
  BY DEF Percentage, RoundHalfUp, FullScore
<1>3. (2 * total_points) * q <= top
  BY <1>1
<1>4. 20000 * total_points <= 20000 * correct_points + total_points
  BY <1>2, <1>3
<1> QED
  BY <1>4

-----------------------------------------------------------------------------
(* Some tier is reached as soon as points are not negative. *)
LEMMA RankForPointsReached ==
    ASSUME NEW points \in Nat
    PROVE  /\ RankForPoints(points) \in RankTier
           /\ points >= RankThreshold[RankForPoints(points)]
           /\ \A other \in RankTier :
                 points >= RankThreshold[other] =>
                     RankThreshold[other] <= RankThreshold[RankForPoints(points)]
<1>1. \E tier \in RankTier :
        /\ points >= RankThreshold[tier]
        /\ \A other \in RankTier :
              points >= RankThreshold[other]
                => RankThreshold[other] <= RankThreshold[tier]
  <2> USE DEF RankTier, RankThreshold
  <2>1. CASE points < 100
    <3> WITNESS "novice" \in RankTier
    <3> QED BY <2>1
  <2>2. CASE points >= 100 /\ points < 300
    <3> WITNESS "bronze" \in RankTier
    <3> QED BY <2>2
  <2>3. CASE points >= 300 /\ points < 700
    <3> WITNESS "silver" \in RankTier
    <3> QED BY <2>3
  <2>4. CASE points >= 700 /\ points < 1500
    <3> WITNESS "gold" \in RankTier
    <3> QED BY <2>4
  <2>5. CASE points >= 1500 /\ points < 3000
    <3> WITNESS "platinum" \in RankTier
    <3> QED BY <2>5
  <2>6. CASE points >= 3000
    <3> WITNESS "diamond" \in RankTier
    <3> QED BY <2>6
  <2> QED BY <2>1, <2>2, <2>3, <2>4, <2>5, <2>6
<1> QED
  BY <1>1 DEF RankForPoints

(* More points never mean a lower tier. *)
THEOREM RankIsMonotone ==
    ASSUME NEW fewer \in Nat, NEW more \in Nat, fewer <= more
    PROVE  RankThreshold[RankForPoints(fewer)] <= RankThreshold[RankForPoints(more)]
<1>1. more >= RankThreshold[RankForPoints(fewer)]
  BY RankForPointsReached DEF RankTier, RankThreshold
<1> QED
  BY <1>1, RankForPointsReached

LEMMA NextStreakType ==
    ASSUME NEW previous \in Nat, NEW last \in Nat \cup {NoDate}, NEW today \in Nat
    PROVE  NextStreak(previous, last, today) \in Nat
BY DEF NextStreak

(* The rules, one code at a time. *)
LEMMA RulesByCode ==
    ASSUME NEW row, NEW perfect_score \in BOOLEAN
    PROVE  {code \in AchievementCode : Rules(row, perfect_score)[code]}
               = {code \in AchievementCode :
                     \/ code = "first_test" /\ row.completed_tests >= 1
                     \/ code = "tests_5" /\ row.completed_tests >= 5
                     \/ code = "tests_10" /\ row.completed_tests >= 10
                     \/ code = "points_100" /\ row.points >= 100
                     \/ code = "points_500" /\ row.points >= 500
                     \/ code = "points_1000" /\ row.points >= 1000
                     \/ code = "perfect_score" /\ perfect_score
                     \/ code = "streak_7" /\ row.streak >= 7}
<1> DEFINE rules == Rules(row, perfect_score)
<1>1. /\ rules["first_test"] <=> row.completed_tests >= 1
      /\ rules["tests_5"] <=> row.completed_tests >= 5
      /\ rules["tests_10"] <=> row.completed_tests >= 10
      /\ rules["points_100"] <=> row.points >= 100
      /\ rules["points_500"] <=> row.points >= 500
      /\ rules["points_1000"] <=> row.points >= 1000
      /\ rules["perfect_score"] <=> perfect_score
      /\ rules["streak_7"] <=> row.streak >= 7
  <2>1. rules["first_test"] <=> row.completed_tests >= 1
    BY ZenonT(30) DEF Rules
  <2>2. rules["tests_5"] <=> row.completed_tests >= 5
    BY ZenonT(30) DEF Rules
  <2>3. rules["tests_10"] <=> row.completed_tests >= 10
    BY ZenonT(30) DEF Rules
  <2>4. rules["points_100"] <=> row.points >= 100
    BY ZenonT(30) DEF Rules
  <2>5. rules["points_500"] <=> row.points >= 500
    BY ZenonT(30) DEF Rules
  <2>6. rules["points_1000"] <=> row.points >= 1000
    BY ZenonT(30) DEF Rules
  <2>7. rules["perfect_score"] <=> perfect_score
    BY ZenonT(30) DEF Rules
  <2>8. rules["streak_7"] <=> row.streak >= 7
    BY ZenonT(30) DEF Rules
  <2> QED
    BY <2>1, <2>2, <2>3, <2>4, <2>5, <2>6, <2>7, <2>8
<1> HIDE DEF rules
<1>2. {code \in AchievementCode : rules[code]}
          = {code \in AchievementCode :
                \/ code = "first_test" /\ row.completed_tests >= 1
                \/ code = "tests_5" /\ row.completed_tests >= 5
                \/ code = "tests_10" /\ row.completed_tests >= 10
                \/ code = "points_100" /\ row.points >= 100
                \/ code = "points_500" /\ row.points >= 500
                \/ code = "points_1000" /\ row.points >= 1000
                \/ code = "perfect_score" /\ perfect_score
                \/ code = "streak_7" /\ row.streak >= 7}
  BY <1>1 DEF AchievementCode
<1> QED
  BY <1>2 DEF rules
-----------------------------------------------------------------------------
(* Streaks and achievements against the history of active days. *)

(* One more attempt today keeps the streak the run that ends at the last day. *)
LEMMA RunGrows ==
    ASSUME NEW today \in Nat, NEW days \in SUBSET (0 .. today),
           NEW last \in Nat \cup {NoDate}, NEW streak \in Nat,
           NoDate \notin Int, IsRun(days, last, streak)
    PROVE  IsRun(days \cup {today}, today, NextStreak(streak, last, today))
<1> DEFINE grown == days \cup {today}
           next  == NextStreak(streak, last, today)
<1>1. SUFFICES /\ today \in grown /\ \A day \in grown : day <= today
               /\ next >= 1
               /\ (today - next + 1) .. today \subseteq grown
               /\ today - next \notin grown
  BY DEF IsRun
<1>2. CASE days = {}
  <2>1. next = 1
    BY <1>2 DEF IsRun, NextStreak
  <2> QED
    BY <1>2, <2>1
<1>3. CASE days # {}
  <2>1. /\ last \in days /\ \A day \in days : day <= last
        /\ streak >= 1
        /\ (last - streak + 1) .. last \subseteq days
        /\ last - streak \notin days
    BY <1>3 DEF IsRun
  <2>2. last \in 0 .. today /\ last # NoDate
    <3>1. last \in 0 .. today
      BY <2>1
    <3> QED
      BY <3>1
  <2>3. \A day \in grown : day <= today
    OBVIOUS
  <2>4. CASE last = today
    <3>1. next = streak
      BY <2>1, <2>2, <2>4 DEF NextStreak
    <3> QED
      BY <2>1, <2>3, <2>4, <3>1
  <2>5. CASE last = today - 1
    <3>1. next = streak + 1
      BY <2>1, <2>2, <2>5 DEF NextStreak
    <3>2. (today - (streak + 1) + 1) .. today \subseteq grown
      <4>1. \A day \in (today - (streak + 1) + 1) .. today :
                day = today \/ day \in (last - streak + 1) .. last
        BY <2>2, <2>5
      <4> QED
        BY <2>1, <4>1
    <3>3. today - (streak + 1) \notin grown
      <4>1. today - (streak + 1) = last - streak /\ today - (streak + 1) # today
        BY <2>2, <2>5
      <4> QED
        BY <2>1, <4>1
    <3> HIDE DEF next, grown
    <3>4. today \in grown
      BY DEF grown
    <3> QED
      BY <2>3, <3>1, <3>2, <3>3, <3>4
  <2>6. CASE last < today - 1
    <3>1. next = 1
      BY <2>2, <2>6 DEF NextStreak
    <3>2. (today - 1 + 1) .. today \subseteq grown
      OBVIOUS
    <3>3. today - 1 \notin grown
      <4>1. today - 1 # today /\ ~ (today - 1 <= last)
        BY <2>2, <2>6
      <4> QED
        BY <2>1, <4>1
    <3> HIDE DEF next, grown
    <3>4. today \in grown
      BY DEF grown
    <3> QED
      BY <2>3, <3>1, <3>2, <3>3, <3>4
  <2> QED
    BY <2>2, <2>4, <2>5, <2>6
<1> QED
  BY <1>2, <1>3

(* A week in a row only ever appears with an attempt that leaves a streak of  *)
(* seven or more, and every such attempt completes one.                       *)
LEMMA WeekGrows ==
    ASSUME NEW today \in Nat, NEW days \in SUBSET (0 .. today), NEW streak \in Nat,
           NoDate \notin Int, IsRun(days \cup {today}, today, streak)
    PROVE  WeekInARow(days \cup {today}) <=> WeekInARow(days) \/ streak >= 7
<1> DEFINE grown == days \cup {today}
<1>1. /\ (today - streak + 1) .. today \subseteq grown
      /\ today - streak \notin grown /\ streak >= 1
  BY DEF IsRun
<1>2. WeekInARow(days) => WeekInARow(grown)
  BY DEF WeekInARow
<1>3. ASSUME streak >= 7 PROVE WeekInARow(grown)
  <2>1. (today - 6) .. (today - 6) + 6 \subseteq grown /\ today - 6 \in grown
    BY <1>1, <1>3
  <2> HIDE DEF grown
  <2> QED
    BY <2>1 DEF WeekInARow
<1>4. ASSUME WeekInARow(grown), ~ WeekInARow(days) PROVE streak >= 7
  <2>1. PICK day \in grown : day .. (day + 6) \subseteq grown
    <3> HIDE DEF grown
    <3> QED
      BY <1>4 DEF WeekInARow
  <2>2. day \in Nat /\ day + 6 \in day .. (day + 6) /\ day \in day .. (day + 6)
    BY <2>1
  <2>3. day + 6 <= today
    BY <2>1, <2>2
  <2>4. today = day + 6
    <3>1. SUFFICES ASSUME day + 6 < today PROVE FALSE
      BY <2>2, <2>3
    <3>2. today \notin day .. (day + 6)
      BY <2>2, <3>1
    <3>3. day .. (day + 6) \subseteq days /\ day \in days
      BY <2>1, <2>2, <3>2
    <3> QED
      BY <1>4, <3>3 DEF WeekInARow
  <2>5. SUFFICES ASSUME streak < 7 PROVE FALSE
    OBVIOUS
  <2>6. today - streak \in day .. (day + 6)
    BY <1>1, <2>2, <2>4, <2>5
  <2> QED
    BY <1>1, <2>1, <2>6
<1> HIDE DEF grown
<1>5. WeekInARow(grown) <=> WeekInARow(days) \/ streak >= 7
  BY <1>2, <1>3, <1>4
<1> QED
  BY <1>5 DEF grown

LEMMA AchievementsByCode ==
    ASSUME NEW row, NEW week \in BOOLEAN, NEW perfect \in BOOLEAN,
           "streak" \in DOMAIN row
    PROVE  AchievementsOf(row, week, perfect)
               = {code \in AchievementCode :
                     \/ code = "first_test" /\ row.completed_tests >= 1
                     \/ code = "tests_5" /\ row.completed_tests >= 5
                     \/ code = "tests_10" /\ row.completed_tests >= 10
                     \/ code = "points_100" /\ row.points >= 100
                     \/ code = "points_500" /\ row.points >= 500
                     \/ code = "points_1000" /\ row.points >= 1000
                     \/ code = "perfect_score" /\ perfect
                     \/ code = "streak_7" /\ week}
<1> DEFINE seen == [row EXCEPT !.streak = IF week THEN 7 ELSE 0]
<1>1. seen.completed_tests = row.completed_tests /\ seen.points = row.points
  OBVIOUS
<1>2. seen.streak >= 7 <=> week
  <2>1. seen.streak = IF week THEN 7 ELSE 0
    OBVIOUS
  <2> HIDE DEF seen
  <2> QED
    BY <2>1
<1>3. AchievementsOf(row, week, perfect)
          = {code \in AchievementCode : Rules(seen, perfect)[code]}
  BY DEF AchievementsOf
<1> HIDE DEF seen
<1> QED
  BY <1>1, <1>2, <1>3, RulesByCode

(* What the rules add on a user whose counters grew is what the history newly *)
(* deserves: the codes are never forgotten and never come early.              *)
LEMMA AchievementsGrow ==
    ASSUME NEW row, NEW grown, "streak" \in DOMAIN row, "streak" \in DOMAIN grown,
           row.points \in Nat, grown.points \in Nat, row.points <= grown.points,
           row.completed_tests \in Nat, grown.completed_tests \in Nat,
           row.completed_tests <= grown.completed_tests,
           NEW before \in BOOLEAN, NEW after \in BOOLEAN,
           after <=> before \/ grown.streak >= 7,
           NEW perfect \in BOOLEAN, NEW perfect_score \in BOOLEAN
    PROVE  AchievementsOf(grown, after, perfect \/ perfect_score)
               = AchievementsOf(row, before, perfect)
                     \cup {code \in AchievementCode :
                              Rules(grown, perfect_score)[code]}
<1> DEFINE Old(code) ==
               \/ code = "first_test" /\ row.completed_tests >= 1
               \/ code = "tests_5" /\ row.completed_tests >= 5
               \/ code = "tests_10" /\ row.completed_tests >= 10
               \/ code = "points_100" /\ row.points >= 100
               \/ code = "points_500" /\ row.points >= 500
               \/ code = "points_1000" /\ row.points >= 1000
               \/ code = "perfect_score" /\ perfect
               \/ code = "streak_7" /\ before
           Won(code) ==
               \/ code = "first_test" /\ grown.completed_tests >= 1
               \/ code = "tests_5" /\ grown.completed_tests >= 5
               \/ code = "tests_10" /\ grown.completed_tests >= 10
               \/ code = "points_100" /\ grown.points >= 100
               \/ code = "points_500" /\ grown.points >= 500
               \/ code = "points_1000" /\ grown.points >= 1000
               \/ code = "perfect_score" /\ perfect_score
               \/ code = "streak_7" /\ grown.streak >= 7
           Now(code) ==
               \/ code = "first_test" /\ grown.completed_tests >= 1
               \/ code = "tests_5" /\ grown.completed_tests >= 5
               \/ code = "tests_10" /\ grown.completed_tests >= 10
               \/ code = "points_100" /\ grown.points >= 100
               \/ code = "points_500" /\ grown.points >= 500
               \/ code = "points_1000" /\ grown.points >= 1000
               \/ code = "perfect_score" /\ (perfect \/ perfect_score)
               \/ code = "streak_7" /\ after
<1>1. \A code : Now(code) <=> Old(code) \/ Won(code)
  OBVIOUS
<1>2. AchievementsOf(row, before, perfect) = {code \in AchievementCode : Old(code)}
  BY AchievementsByCode
<1>3. {code \in AchievementCode : Rules(grown, perfect_score)[code]}
          = {code \in AchievementCode : Won(code)}
  BY RulesByCode
<1>4. AchievementsOf(grown, after, perfect \/ perfect_score)
          = {code \in AchievementCode : Now(code)}
  <2>1. (perfect \/ perfect_score) \in BOOLEAN
    OBVIOUS
  <2> QED
    BY <2>1, AchievementsByCode
<1> HIDE DEF Old, Won, Now
<1> QED
  BY <1>1, <1>2, <1>3, <1>4
-----------------------------------------------------------------------------
(* Sums over finite sets. *)

(* Induction over the subsets of a finite set, with a set of good subsets in *)
(* the place of a predicate.                                                 *)
LEMMA SubsetInduction ==
    ASSUME NEW S, IsFiniteSet(S), NEW Good,
           \A T \in SUBSET S :
               (\A U \in SUBSET T : U # T => U \in Good) => T \in Good
    PROVE  SUBSET S \subseteq Good
<1> DEFINE Bad == {T \in SUBSET S : T \notin Good}
<1> SUFFICES ASSUME Bad # {} PROVE FALSE
  OBVIOUS
<1>1. IsWellFoundedOn(StrictSubsetOrdering(S), FiniteSubsetsOf(S))
  BY FS_StrictSubsetOrderingWellFounded
<1>2. Bad \subseteq FiniteSubsetsOf(S)
  BY FS_FiniteSubsetsOfFinite
<1>3. \E T \in Bad : \A U \in Bad : <<U, T>> \notin StrictSubsetOrdering(S)
  <2> HIDE DEF Bad
  <2> QED
    BY <1>1, <1>2, WFMin
<1>4. PICK T \in Bad : \A U \in Bad : <<U, T>> \notin StrictSubsetOrdering(S)
  BY <1>3
<1>5. \A U \in SUBSET T : U # T => U \in Good
  BY <1>4 DEF StrictSubsetOrdering
<1> QED
  BY <1>4, <1>5

(* The equation that MapThenSumSet solves to add up the terms F[x], and the *)
(* sum it defines.                                                          *)
SumEquation(g, F, S) ==
    g = [s \in SUBSET S |->
           IF s = {} THEN 0
           ELSE F[CHOOSE x \in s : TRUE] + g[s \ {CHOOSE x \in s : TRUE}]]

Total(F, S) == (CHOOSE g : SumEquation(g, F, S))[S]

(* A solution of the equation over a set solves it over every subset. *)
LEMMA SumRestricts ==
    ASSUME NEW S, NEW F, NEW g, SumEquation(g, F, S), NEW T \in SUBSET S
    PROVE  SumEquation([s \in SUBSET T |-> g[s]], F, T)
<1> DEFINE h == [s \in SUBSET T |-> g[s]]
           first(s) == CHOOSE x \in s : TRUE
<1>1. \A s \in SUBSET S :
         g[s] = IF s = {} THEN 0 ELSE F[first(s)] + g[s \ {first(s)}]
  BY DEF SumEquation
<1>2. \A s \in SUBSET T :
         h[s] = IF s = {} THEN 0 ELSE F[first(s)] + h[s \ {first(s)}]
  BY <1>1
<1>3. h = [s \in SUBSET T |-> IF s = {} THEN 0 ELSE F[first(s)] + h[s \ {first(s)}]]
  BY <1>2
<1> QED
  BY <1>3 DEF SumEquation

(* Over a finite set the equation has one solution, and only one. *)
LEMMA SumUnique ==
    ASSUME NEW S, IsFiniteSet(S), NEW F, NEW g, NEW h,
           SumEquation(g, F, S), SumEquation(h, F, S)
    PROVE  g = h
<1> DEFINE Good == {T \in SUBSET S : g[T] = h[T]}
           first(s) == CHOOSE x \in s : TRUE
<1>1. \A s \in SUBSET S :
         /\ g[s] = IF s = {} THEN 0 ELSE F[first(s)] + g[s \ {first(s)}]
         /\ h[s] = IF s = {} THEN 0 ELSE F[first(s)] + h[s \ {first(s)}]
  BY DEF SumEquation
<1>2. ASSUME NEW T \in SUBSET S, \A U \in SUBSET T : U # T => U \in Good
      PROVE  T \in Good
  <2>1. CASE T = {}
    BY <1>1, <2>1
  <2>2. CASE T # {}
    <3>1. first(T) \in T
      BY <2>2
    <3>2. T \ {first(T)} \in Good
      BY <3>1, <1>2
    <3> QED
      BY <1>1, <2>2, <3>2
  <2> QED
    BY <2>1, <2>2
<1>3. SUBSET S \subseteq Good
  <2> HIDE DEF Good
  <2> QED
    BY <1>2, SubsetInduction
<1>4. g = [s \in SUBSET S |-> g[s]] /\ h = [s \in SUBSET S |-> h[s]]
  BY DEF SumEquation
<1> QED
  BY <1>3, <1>4

LEMMA SumExists ==
    ASSUME NEW S, IsFiniteSet(S), NEW F
    PROVE  \E g : SumEquation(g, F, S)
<1> DEFINE Good == {T \in SUBSET S : \E g : SumEquation(g, F, T)}
           first(s) == CHOOSE x \in s : TRUE
<1>1. ASSUME NEW T \in SUBSET S, \A U \in SUBSET T : U # T => U \in Good
      PROVE  T \in Good
  <2> DEFINE G == [u \in SUBSET T |-> CHOOSE g : SumEquation(g, F, u)]
             g == [s \in SUBSET T |->
                     IF s = {} THEN 0
                     ELSE F[first(s)] + G[s \ {first(s)}][s \ {first(s)}]]
  <2>1. ASSUME NEW u \in SUBSET T, u # T PROVE SumEquation(G[u], F, u)
    BY <1>1, <2>1
  <2>2. ASSUME NEW u \in SUBSET T, u # T PROVE g[u] = G[u][u]
    <3>1. G[u] = [s \in SUBSET u |->
                    IF s = {} THEN 0
                    ELSE F[first(s)] + G[u][s \ {first(s)}]]
      BY <2>1, <2>2 DEF SumEquation
    <3>1a. G[u][u] = IF u = {} THEN 0 ELSE F[first(u)] + G[u][u \ {first(u)}]
      <4> HIDE DEF G
      <4> QED
        BY <3>1
    <3>2. CASE u = {}
      BY <3>1a, <3>2
    <3>3. CASE u # {}
      <4> DEFINE w == u \ {first(u)}
      <4>1. first(u) \in u /\ w \in SUBSET u /\ w # T /\ w \in SUBSET T
        BY <3>3, <2>2
      <4>2. SumEquation([s \in SUBSET w |-> G[u][s]], F, w)
        <5> HIDE DEF G, w
        <5> QED
          BY <2>1, <2>2, <4>1, SumRestricts
      <4>3. SumEquation(G[w], F, w)
        BY <2>1, <4>1
      <4>4. IsFiniteSet(w)
        BY FS_Subset
      <4>5. G[w] = [s \in SUBSET w |-> G[u][s]]
        <5> HIDE DEF G, w
        <5> QED
          BY <4>2, <4>3, <4>4, SumUnique
      <4>6. G[w][w] = G[u][w]
        <5> HIDE DEF G, w
        <5> QED
          BY <4>5
      <4>7. g[u] = F[first(u)] + G[w][w]
        BY <3>3
      <4> QED
        <5> HIDE DEF G, g
        <5> QED
          BY <4>6, <4>7, <3>1a, <3>3
    <3> QED
      BY <3>2, <3>3
  <2>3. ASSUME NEW s \in SUBSET T, s # {}
        PROVE  G[s \ {first(s)}][s \ {first(s)}] = g[s \ {first(s)}]
    <3>1. first(s) \in s /\ s \ {first(s)} \in SUBSET T /\ s \ {first(s)} # T
      BY <2>3
    <3> HIDE DEF G, g, first
    <3> QED
      BY <3>1, <2>2
  <2>4. SumEquation(g, F, T)
    <3>1. \A s \in SUBSET T :
            (IF s = {} THEN 0
                     ELSE F[first(s)] + G[s \ {first(s)}][s \ {first(s)}])
            = (IF s = {} THEN 0 ELSE F[first(s)] + g[s \ {first(s)}])
      <4> HIDE DEF G, g, first
      <4> QED
        BY <2>3
    <3>2. g = [s \in SUBSET T |->
               IF s = {} THEN 0 ELSE F[first(s)] + g[s \ {first(s)}]]
      <4> HIDE DEF G, first
      <4> QED
        BY <3>1
    <3> QED
      BY <3>2 DEF SumEquation
  <2> QED
    BY <2>4
<1>2. SUBSET S \subseteq Good
  <2> HIDE DEF Good
  <2> QED
    BY <1>1, SubsetInduction
<1> QED
  BY <1>2

(* The recursion that computes a total. *)
LEMMA TotalSteps ==
    ASSUME NEW S, IsFiniteSet(S), NEW F
    PROVE  Total(F, S) =
               IF S = {} THEN 0
               ELSE F[CHOOSE x \in S : TRUE]
                    + Total(F, S \ {CHOOSE x \in S : TRUE})
<1> DEFINE g == CHOOSE h : SumEquation(h, F, S)
           first == CHOOSE x \in S : TRUE
           rest == S \ {first}
           r == CHOOSE h : SumEquation(h, F, rest)
<1>1. SumEquation(g, F, S)
  BY SumExists
<1>2. IsFiniteSet(rest)
  BY FS_Subset
<1>3. SumEquation(r, F, rest)
  <2> HIDE DEF rest
  <2> QED
    BY <1>2, SumExists
<1>4. SumEquation([s \in SUBSET rest |-> g[s]], F, rest)
  <2>1. rest \in SUBSET S
    OBVIOUS
  <2> HIDE DEF g, rest
  <2> QED
    BY <1>1, <2>1, SumRestricts
<1>5. r = [s \in SUBSET rest |-> g[s]]
  <2> HIDE DEF g, r, rest
  <2> QED
    BY <1>2, <1>3, <1>4, SumUnique
<1>6. r[rest] = g[rest]
  <2> HIDE DEF g, r, rest
  <2> QED
    BY <1>5
<1>7. g[S] = IF S = {} THEN 0 ELSE F[first] + g[rest]
  <2> HIDE DEF g
  <2> QED
    BY <1>1 DEF SumEquation
<1> QED
  BY <1>6, <1>7 DEF Total

(* The value any solution of the equation has at the whole set. *)
LEMMA TotalSolves ==
    ASSUME NEW S, IsFiniteSet(S), NEW F, NEW g, SumEquation(g, F, S)
    PROVE  g[S] = Total(F, S)
<1>1. SumEquation(CHOOSE h : SumEquation(h, F, S), F, S)
  BY SumExists
<1>2. g = CHOOSE h : SumEquation(h, F, S)
  BY <1>1, SumUnique
<1> QED
  BY <1>2 DEF Total

LEMMA TotalEmpty == ASSUME NEW F PROVE Total(F, {}) = 0
BY TotalSteps, FS_EmptySet

LEMMA TotalType ==
    ASSUME NEW S, IsFiniteSet(S), NEW F, \A x \in S : F[x] \in Int
    PROVE  Total(F, S) \in Int
<1> DEFINE Good == {T \in SUBSET S : Total(F, T) \in Int}
<1>1. ASSUME NEW T \in SUBSET S, \A U \in SUBSET T : U # T => U \in Good
      PROVE  T \in Good
  <2>1. IsFiniteSet(T)
    BY FS_Subset
  <2>2. CASE T = {}
    BY <2>1, <2>2, TotalSteps
  <2>3. CASE T # {}
    <3> DEFINE first == CHOOSE x \in T : TRUE
    <3>1. first \in T
      BY <2>3
    <3>2. T \ {first} \in Good /\ F[first] \in Int
      BY <3>1, <1>1
    <3> QED
      BY <2>1, <2>3, <3>2, TotalSteps
  <2> QED
    BY <2>2, <2>3
<1>2. SUBSET S \subseteq Good
  <2> HIDE DEF Good
  <2> QED
    BY <1>1, SubsetInduction
<1> QED
  BY <1>2

(* Any term may be added first, whatever CHOOSE picks. *)
LEMMA TotalRemove ==
    ASSUME NEW S, IsFiniteSet(S), NEW F, \A x \in S : F[x] \in Int, NEW a \in S
    PROVE  Total(F, S) = F[a] + Total(F, S \ {a})
<1> DEFINE Good == {T \in SUBSET S :
                      \A x \in T : Total(F, T) = F[x] + Total(F, T \ {x})}
<1>1. ASSUME NEW T \in SUBSET S, \A U \in SUBSET T : U # T => U \in Good
      PROVE  T \in Good
  <2> SUFFICES ASSUME NEW x \in T
               PROVE  Total(F, T) = F[x] + Total(F, T \ {x})
    OBVIOUS
  <2> DEFINE c == CHOOSE y \in T : TRUE
  <2>1. c \in T
    OBVIOUS
  <2>2. Total(F, T) = F[c] + Total(F, T \ {c})
    BY FS_Subset, TotalSteps
  <2>3. CASE x = c
    BY <2>2, <2>3
  <2>4. CASE x # c
    <3> HIDE DEF c
    <3>1. Total(F, T \ {c}) = F[x] + Total(F, (T \ {c}) \ {x})
      BY <1>1, <2>1, <2>4
    <3>2. Total(F, T \ {x}) = F[c] + Total(F, (T \ {x}) \ {c})
      BY <1>1, <2>1, <2>4
    <3>3. (T \ {c}) \ {x} = (T \ {x}) \ {c}
      OBVIOUS
    <3>4. F[x] \in Int /\ F[c] \in Int
      BY <2>1
    <3>5. Total(F, (T \ {c}) \ {x}) \in Int
      BY FS_Subset, TotalType
    <3> DEFINE rest == Total(F, (T \ {c}) \ {x})
    <3>6. F[c] + (F[x] + rest) = F[x] + (F[c] + rest)
      <4>1. rest \in Int
        BY <3>5
      <4> HIDE DEF rest
      <4> QED
        BY <3>4, <4>1
    <3>7. Total(F, T) = F[c] + (F[x] + rest)
      BY <2>2, <3>1
    <3>8. F[x] + Total(F, T \ {x}) = F[x] + (F[c] + rest)
      BY <3>2, <3>3
    <3> QED
      BY <3>6, <3>7, <3>8
  <2> QED
    BY <2>3, <2>4
<1>2. SUBSET S \subseteq Good
  <2> HIDE DEF Good
  <2> QED
    BY <1>1, SubsetInduction
<1> QED
  BY <1>2

LEMMA TotalAdd ==
    ASSUME NEW S, IsFiniteSet(S), NEW F, NEW a, a \notin S,
           \A x \in S \cup {a} : F[x] \in Int
    PROVE  Total(F, S \cup {a}) = F[a] + Total(F, S)
<1>1. IsFiniteSet(S \cup {a})
  BY FS_AddElement
<1>2. (S \cup {a}) \ {a} = S
  OBVIOUS
<1> QED
  BY <1>1, <1>2, TotalRemove, a \in S \cup {a}

LEMMA TotalCongruence ==
    ASSUME NEW S, IsFiniteSet(S), NEW F, NEW G, \A x \in S : F[x] = G[x]
    PROVE  Total(F, S) = Total(G, S)
<1> DEFINE Good == {T \in SUBSET S : Total(F, T) = Total(G, T)}
<1>1. ASSUME NEW T \in SUBSET S, \A U \in SUBSET T : U # T => U \in Good
      PROVE  T \in Good
  <2>1. IsFiniteSet(T)
    BY FS_Subset
  <2>2. CASE T = {}
    BY <2>1, <2>2, TotalSteps
  <2>3. CASE T # {}
    <3> DEFINE first == CHOOSE x \in T : TRUE
    <3>1. first \in T
      BY <2>3
    <3>2. T \ {first} \in Good /\ F[first] = G[first]
      BY <3>1, <1>1
    <3> QED
      BY <2>1, <2>3, <3>2, TotalSteps
  <2> QED
    BY <2>2, <2>3
<1>2. SUBSET S \subseteq Good
  <2> HIDE DEF Good
  <2> QED
    BY <1>1, SubsetInduction
<1> QED
  BY <1>2

LEMMA TotalOfUnion ==
    ASSUME NEW S, IsFiniteSet(S), NEW R, IsFiniteSet(R), S \cap R = {}, NEW F,
           \A x \in S \cup R : F[x] \in Int
    PROVE  Total(F, S \cup R) = Total(F, S) + Total(F, R)
<1> DEFINE Good == {T \in SUBSET R : Total(F, S \cup T) = Total(F, S) + Total(F, T)}
<1>1. ASSUME NEW T \in SUBSET R, \A U \in SUBSET T : U # T => U \in Good
      PROVE  T \in Good
  <2>1. IsFiniteSet(T) /\ IsFiniteSet(S \cup T)
    BY FS_Subset, FS_Union
  <2>2. CASE T = {}
    <3>1. S \cup T = S /\ Total(F, S) \in Int
      BY <2>2, TotalType
    <3> QED
      BY <2>2, <3>1, TotalEmpty
  <2>3. CASE T # {}
    <3>1. PICK a \in T : TRUE
      BY <2>3
    <3>2. Total(F, T) = F[a] + Total(F, T \ {a})
      BY <2>1, <3>1, TotalRemove
    <3>3. Total(F, S \cup T) = F[a] + Total(F, (S \cup T) \ {a})
      BY <2>1, <3>1, TotalRemove
    <3>4. (S \cup T) \ {a} = S \cup (T \ {a})
      BY <3>1
    <3>5. Total(F, S \cup (T \ {a})) = Total(F, S) + Total(F, T \ {a})
      BY <1>1, <3>1
    <3>6. Total(F, S) \in Int /\ Total(F, T \ {a}) \in Int /\ F[a] \in Int
      BY <3>1, FS_Subset, TotalType
    <3> DEFINE left == Total(F, S)
               rest == Total(F, T \ {a})
    <3>7. F[a] + (left + rest) = left + (F[a] + rest)
      <4>1. left \in Int /\ rest \in Int /\ F[a] \in Int
        BY <3>6
      <4> HIDE DEF left, rest
      <4> QED
        BY <4>1
    <3>8. Total(F, S \cup T) = F[a] + (left + rest)
      BY <3>3, <3>4, <3>5
    <3>9. Total(F, S) + Total(F, T) = left + (F[a] + rest)
      BY <3>2
    <3>10. Total(F, S \cup T) = Total(F, S) + Total(F, T)
      BY <3>7, <3>8, <3>9
    <3> QED
      BY <3>10
  <2> QED
    BY <2>2, <2>3
<1>2. SUBSET R \subseteq Good
  <2> HIDE DEF Good
  <2> QED
    BY <1>1, SubsetInduction
<1> QED
  BY <1>2

LEMMA TotalNat ==
    ASSUME NEW S, IsFiniteSet(S), NEW F, \A x \in S : F[x] \in Nat
    PROVE  Total(F, S) \in Nat
<1> DEFINE Good == {T \in SUBSET S : Total(F, T) \in Nat}
<1>1. ASSUME NEW T \in SUBSET S, \A U \in SUBSET T : U # T => U \in Good
      PROVE  T \in Good
  <2>1. IsFiniteSet(T)
    BY FS_Subset
  <2>2. CASE T = {}
    BY <2>1, <2>2, TotalSteps
  <2>3. CASE T # {}
    <3> DEFINE first == CHOOSE x \in T : TRUE
    <3>1. first \in T
      BY <2>3
    <3>2. T \ {first} \in Good /\ F[first] \in Nat
      BY <3>1, <1>1
    <3> QED
      BY <2>1, <2>3, <3>2, TotalSteps
  <2> QED
    BY <2>2, <2>3
<1>2. SUBSET S \subseteq Good
  <2> HIDE DEF Good
  <2> QED
    BY <1>1, SubsetInduction
<1> QED
  BY <1>2

(* Counting a finite set by classes: the sizes of the classes of S add up to *)
(* the number of elements whose class is in S.                               *)
InClass(D, class, S) == {d \in D : class[d] \in S}

LEMMA TotalOfClasses ==
    ASSUME NEW D, IsFiniteSet(D), NEW class, NEW S, IsFiniteSet(S), NEW F,
           \A k \in S : F[k] = Cardinality(InClass(D, class, {k}))
    PROVE  Total(F, S) = Cardinality(InClass(D, class, S))
<1> DEFINE In(T) == InClass(D, class, T)
           Good == {T \in SUBSET S : Total(F, T) = Cardinality(In(T))}
<1>0. \A T : IsFiniteSet(In(T))
  BY FS_Subset DEF InClass
<1>1. ASSUME NEW T \in SUBSET S, \A U \in SUBSET T : U # T => U \in Good
      PROVE  T \in Good
  <2>1. IsFiniteSet(T)
    BY FS_Subset
  <2>2. CASE T = {}
    <3>1. In(T) = {}
      BY <2>2 DEF InClass
    <3>2. Cardinality(In(T)) = 0
      BY <3>1, FS_EmptySet
    <3> QED
      BY <2>2, <3>2, TotalEmpty
  <2>3. CASE T # {}
    <3>1. PICK k \in T : TRUE
      BY <2>3
    <3> DEFINE one  == In({k})
               rest == In(T \ {k})
    <3>2. IsFiniteSet(one) /\ IsFiniteSet(rest)
      BY <1>0
    <3>3. In(T) = one \cup rest /\ one \cap rest = {}
      BY <3>1 DEF InClass
    <3>4. F[k] = Cardinality(one)
      BY <3>1
    <3>5. Total(F, T \ {k}) = Cardinality(rest)
      BY <1>1, <3>1
    <3>6. ASSUME NEW x \in T PROVE F[x] \in Int
      <4> DEFINE same == In({x})
      <4>1. IsFiniteSet(same) /\ F[x] = Cardinality(same)
        BY <1>0
      <4> HIDE DEF same
      <4> QED
        BY <4>1, FS_CardinalityType
    <3>7. Total(F, T) = F[k] + Total(F, T \ {k})
      BY <2>1, <3>1, <3>6, TotalRemove
    <3>8. Cardinality(In(T)) = Cardinality(one) + Cardinality(rest)
      <4> HIDE DEF In, one, rest
      <4>1. Cardinality(one) \in Nat /\ Cardinality(rest) \in Nat
        BY <3>2, FS_CardinalityType
      <4>2. Cardinality(one \cup rest)
              = Cardinality(one) + Cardinality(rest) - Cardinality(one \cap rest)
        BY <3>2, FS_Union
      <4>3. Cardinality(one \cap rest) = 0
        BY <3>3, FS_EmptySet
      <4> QED
        BY <3>3, <4>1, <4>2, <4>3
    <3> QED
      BY <3>4, <3>5, <3>7, <3>8
  <2> QED
    BY <2>2, <2>3
<1>2. SUBSET S \subseteq Good
  <2> HIDE DEF Good
  <2> QED
    BY <1>1, SubsetInduction
<1> QED
  BY <1>2
-----------------------------------------------------------------------------
(* Counting up, and positions in a strict order. *)

(* Induction up to N, with a set of good numbers in the place of a predicate. *)
LEMMA CountingUp ==
    ASSUME NEW N \in Nat, NEW Good, 0 \in Good,
           \A n \in 1 .. N : n - 1 \in Good => n \in Good
    PROVE  0 .. N \subseteq Good
<1> DEFINE S == 1 .. N
           Fine == {T \in SUBSET S : \A n \in 0 .. N : T = 1 .. n => n \in Good}
<1>1. IsFiniteSet(S)
  BY FS_Interval
<1>2. ASSUME NEW T \in SUBSET S, \A U \in SUBSET T : U # T => U \in Fine
      PROVE  T \in Fine
  <2> SUFFICES ASSUME NEW n \in 0 .. N, T = 1 .. n PROVE n \in Good
    OBVIOUS
  <2>1. CASE n = 0
    BY <2>1
  <2>2. CASE n # 0
    <3> DEFINE U == 1 .. (n - 1)
    <3>1. n - 1 \in 0 .. N /\ n \in 1 .. N
      BY <2>2
    <3>2. U \in SUBSET T /\ n \in T /\ n \notin U
      BY <2>2
    <3>3. U \in Fine
      <4> HIDE DEF Fine, U
      <4> QED
        BY <1>2, <3>2
    <3>4. n - 1 \in Good
      BY <3>1, <3>3
    <3> QED
      BY <3>1, <3>4
  <2> QED
    BY <2>1, <2>2
<1>3. SUBSET S \subseteq Fine
  <2> HIDE DEF Fine, S
  <2> QED
    BY <1>1, <1>2, SubsetInduction
<1>4. ASSUME NEW n \in 0 .. N PROVE n \in Good
  <2>1. 1 .. n \in SUBSET S
    OBVIOUS
  <2>2. 1 .. n \in Fine
    BY <2>1, <1>3
  <2> QED
    BY <2>2
<1> QED
  BY <1>4

StrictOrder(S, Before) ==
    /\ \A a \in S : <<a, a>> \notin Before
    /\ \A a, b \in S : a # b => <<a, b>> \in Before \/ <<b, a>> \in Before
    /\ \A a, b, c \in S : <<a, b>> \in Before /\ <<b, c>> \in Before
                             => <<a, c>> \in Before

Positions(S, Before) == {1 + Cardinality({a \in S : <<a, b>> \in Before}) : b \in S}

(* Of two members of a finite strict order, the earlier has fewer ahead. *)
LEMMA FewerAhead ==
    ASSUME NEW S, IsFiniteSet(S), NEW Before, StrictOrder(S, Before),
           NEW a \in S, NEW b \in S, <<a, b>> \in Before
    PROVE  Cardinality({c \in S : <<c, a>> \in Before})
               < Cardinality({c \in S : <<c, b>> \in Before})
<1> DEFINE Ahead(d) == {c \in S : <<c, d>> \in Before}
<1>1. Ahead(a) \in SUBSET Ahead(b)
  BY DEF StrictOrder
<1>2. a \in Ahead(b) /\ a \notin Ahead(a)
  BY DEF StrictOrder
<1>3. IsFiniteSet(Ahead(b))
  BY FS_Subset
<1>4. Cardinality(Ahead(a)) < Cardinality(Ahead(b))
  <2> HIDE DEF Ahead
  <2>1. IsFiniteSet(Ahead(a)) /\ Cardinality(Ahead(a)) <= Cardinality(Ahead(b))
    BY <1>1, <1>3, FS_Subset
  <2>2. Cardinality(Ahead(a)) # Cardinality(Ahead(b))
    BY <1>1, <1>2, <1>3, FS_Subset
  <2>3. Cardinality(Ahead(a)) \in Nat /\ Cardinality(Ahead(b)) \in Nat
    BY <1>3, <2>1, FS_CardinalityType
  <2> QED
    BY <2>1, <2>2, <2>3
<1> QED
  BY <1>4

(* In any strict total order, the members of a finite set take exactly the    *)
(* positions one to their number.                                            *)
LEMMA PositionsOfAStrictOrder ==
    ASSUME NEW S, IsFiniteSet(S), NEW Before, StrictOrder(S, Before)
    PROVE  Positions(S, Before) = 1 .. Cardinality(S)
<1> DEFINE Ahead(b) == {a \in S : <<a, b>> \in Before}
           position == [b \in S |-> 1 + Cardinality(Ahead(b))]
           n == Cardinality(S)
<1>1. n \in Nat
  BY FS_CardinalityType
<1>2. \A b \in S : IsFiniteSet(Ahead(b)) /\ Cardinality(Ahead(b)) \in Nat
  BY FS_Subset, FS_CardinalityType
<1>3. \A b \in S : Cardinality(Ahead(b)) <= n - 1
  <2> SUFFICES ASSUME NEW b \in S PROVE Cardinality(Ahead(b)) <= n - 1
    OBVIOUS
  <2>1. IsFiniteSet(S \ {b}) /\ Cardinality(S \ {b}) = n - 1
    BY FS_RemoveElement
  <2>2. Ahead(b) \in SUBSET (S \ {b})
    BY DEF StrictOrder
  <2> HIDE DEF Ahead
  <2> QED
    BY <2>1, <2>2, FS_Subset
<1>4. ASSUME NEW a \in S, NEW b \in S, <<a, b>> \in Before
      PROVE  Cardinality(Ahead(a)) # Cardinality(Ahead(b))
  <2>1. Cardinality(Ahead(a)) < Cardinality(Ahead(b))
    BY <1>4, FewerAhead
  <2> HIDE DEF Ahead
  <2> QED
    BY <1>2, <2>1
<1>5. position \in [S -> 1 .. n]
  <2> HIDE DEF Ahead, n
  <2> QED
    BY <1>1, <1>2, <1>3
<1>6. \A a, b \in S : position[a] = position[b] => a = b
  <2> SUFFICES ASSUME NEW a \in S, NEW b \in S, a # b PROVE position[a] # position[b]
    OBVIOUS
  <2>1. Cardinality(Ahead(a)) # Cardinality(Ahead(b))
    <3>1. <<a, b>> \in Before \/ <<b, a>> \in Before
      BY DEF StrictOrder
    <3> HIDE DEF Ahead
    <3> QED
      BY <1>4, <3>1
  <2> HIDE DEF Ahead
  <2> QED
    BY <1>2, <2>1
<1>7. position \in Injection(S, 1 .. n)
  <2> HIDE DEF position, n
  <2> QED
    BY <1>5, <1>6 DEF Injection, IsInjective
<1>8. IsFiniteSet(1 .. n) /\ Cardinality(1 .. n) = n
  BY <1>1, FS_Interval
<1>9. position \in Surjection(S, 1 .. n)
  <2> HIDE DEF position
  <2> QED
    BY <1>7, <1>8, FS_Injection
<1>10. {position[b] : b \in S} = 1 .. n
  <2> HIDE DEF position, n
  <2> QED
    BY <1>9 DEF Surjection
<1> QED
  BY <1>10 DEF Positions
=============================================================================
