-------------------------- MODULE LeaderboardProofs --------------------------
(* The rankings for any number of users, attempts and ties. *)
EXTENDS Leaderboard, GamificationProofs

LEMMA TypeStep == TypeOK /\ [Next]_users => TypeOK'
<1> SUFFICES ASSUME TypeOK, [Next]_users PROVE TypeOK'
  OBVIOUS
<1> USE DEF TypeOK
<1>1. ASSUME NEW u \in Users, NEW earned \in Rewards, NEW time \in Times,
             Official(u, earned, time)
      PROVE  TypeOK'
  <2>1. earned \in Nat /\ time \in Nat
    BY LeaderboardAssumption
  <2> DEFINE row == users[u]
             next == [points |-> row.points + earned,
                      completed_tests |-> row.completed_tests + 1,
                      total_completion_time |-> row.total_completion_time + time,
                      is_active |-> row.is_active]
  <2>2. users' = [users EXCEPT ![u] = next]
    BY <1>1 DEF Official
  <2>3. next \in [points : Nat, completed_tests : Nat,
                 total_completion_time : Nat, is_active : BOOLEAN]
    BY <2>1
  <2> HIDE DEF next
  <2> QED
    BY <2>2, <2>3
<1>2. ASSUME NEW u \in Users, NEW points \in 0 .. MaxPoints, SetPoints(u, points)
      PROVE  TypeOK'
  BY <1>2, LeaderboardAssumption DEF SetPoints
<1>3. ASSUME NEW u \in Users, NEW tests \in 0 .. MaxTests, SetTests(u, tests)
      PROVE  TypeOK'
  BY <1>3, LeaderboardAssumption DEF SetTests
<1>4. ASSUME NEW u \in Users, NEW active \in BOOLEAN, SetActive(u, active)
      PROVE  TypeOK'
  BY <1>4 DEF SetActive
<1>5. CASE UNCHANGED users
  BY <1>5
<1> QED
  BY <1>1, <1>2, <1>3, <1>4, <1>5 DEF Next, Moderate

(* The columns the rankings read keep their types, whatever attempts and      *)
(* administrators do to them (services/admin.py, services/scoring.py).        *)
THEOREM TypeAlways == Spec => []TypeOK
<1>1. Init => TypeOK
  BY DEF Init, TypeOK
<1> QED
  BY <1>1, TypeStep, PTL DEF Spec

LEMMA ActiveIsFinite == IsFiniteSet(Active) /\ Active \subseteq Users
BY LeaderboardAssumption, FS_Subset DEF Active

(* Nobody shares a position with another user and no position is empty, for   *)
(* any number of users and whatever ties (rank_for_user).                     *)
LEMMA PositionsAlwaysDistinct == Spec => []PositionsAreDistinct
<1>1. TypeOK => PositionsAreDistinct
  <2> SUFFICES ASSUME TypeOK PROVE PositionsAreDistinct
    OBVIOUS
  <2> DEFINE Before ==
               {pair \in Active \X Active :
                  \/ users[pair[1]].points > users[pair[2]].points
                  \/ /\ users[pair[1]].points = users[pair[2]].points
                     /\ pair[1] < pair[2]}
  <2>1. \A u \in Active : u \in Nat /\ users[u].points \in Nat
    BY ActiveIsFinite, LeaderboardAssumption DEF TypeOK
  <2>2. \A a, b \in Active : <<a, b>> \in Before <=>
            \/ users[a].points > users[b].points
            \/ users[a].points = users[b].points /\ a < b
    OBVIOUS
  <2> HIDE DEF Before
  <2>3. Positions(Active, Before) = 1 .. Cardinality(Active)
    <3>1. \A a \in Active : <<a, a>> \notin Before
      BY <2>1, <2>2
    <3>2. \A a, b \in Active : a # b => <<a, b>> \in Before \/ <<b, a>> \in Before
      BY <2>1, <2>2
    <3>3. \A a, b, c \in Active : <<a, b>> \in Before /\ <<b, c>> \in Before
              => <<a, c>> \in Before
      BY <2>1, <2>2
    <3>4. StrictOrder(Active, Before)
      BY <3>1, <3>2, <3>3 DEF StrictOrder
    <3> QED
      BY <3>4, ActiveIsFinite, PositionsOfAStrictOrder
  <2>4. \A b \in Active :
            AheadOf(users[b].points, b) = {a \in Active : <<a, b>> \in Before}
    BY <2>2 DEF AheadOf
  <2> QED
    BY <2>3, <2>4 DEF PositionsAreDistinct, Position, rank_for_user, Positions
<1> QED
  BY <1>1, TypeAlways, PTL

(* Every ordering of the list is definite, for any number of users and        *)
(* whatever ties (LEADERBOARD_ORDERINGS).                                     *)
LEMMA ListAlwaysDefinite == Spec => []ListIsDefinite
<1>1. TypeOK => ListIsDefinite
  <2> SUFFICES ASSUME TypeOK, NEW ordering \in Ordering
               PROVE  {ListPosition(ordering, u) : u \in Active}
                          = 1 .. Cardinality(Active)
    BY DEF ListIsDefinite
  <2> DEFINE Before == {pair \in Active \X Active :
                          KeyLess(Key(ordering, pair[1]), Key(ordering, pair[2]))}
  <2>1. \A u \in Active : /\ u \in Nat /\ users[u].points \in Nat
                          /\ users[u].completed_tests \in Nat
                          /\ users[u].total_completion_time \in Nat
    BY ActiveIsFinite, LeaderboardAssumption DEF TypeOK
  <2>2. \A u \in Active : /\ Key(ordering, u)[1] \in Int
                          /\ Key(ordering, u)[2] \in Int
                          /\ Key(ordering, u)[3] = u
    BY <2>1 DEF Key, Ordering
  <2>3. \A a, b \in Active :
            <<a, b>> \in Before <=> KeyLess(Key(ordering, a), Key(ordering, b))
    OBVIOUS
  <2> HIDE DEF Before
  <2>4. Positions(Active, Before) = 1 .. Cardinality(Active)
    <3>1. \A a \in Active : <<a, a>> \notin Before
      BY <2>1, <2>2, <2>3 DEF KeyLess
    <3>2. \A a, b \in Active : a # b => <<a, b>> \in Before \/ <<b, a>> \in Before
      BY <2>1, <2>2, <2>3 DEF KeyLess
    <3>3. \A a, b, c \in Active : <<a, b>> \in Before /\ <<b, c>> \in Before
              => <<a, c>> \in Before
      BY <2>1, <2>2, <2>3 DEF KeyLess
    <3>4. StrictOrder(Active, Before)
      BY <3>1, <3>2, <3>3 DEF StrictOrder
    <3> QED
      BY <3>4, ActiveIsFinite, PositionsOfAStrictOrder
  <2>5. \A b \in Active :
            {a \in Active : KeyLess(Key(ordering, a), Key(ordering, b))}
                = {a \in Active : <<a, b>> \in Before}
    BY <2>3
  <2> QED
    BY <2>4, <2>5 DEF ListPosition, Positions
<1> QED
  BY <1>1, TypeAlways, PTL

(* The list and the own positions both number the active users, for any       *)
(* number of them (leaderboard_queryset, rank_for_user).                      *)
THEOREM PlacesAlwaysNumbered == Spec => []PlacesAreNumbered
<1>1. ListIsDefinite /\ PositionsAreDistinct => PlacesAreNumbered
  BY DEF PlacesAreNumbered
<1> QED
  BY <1>1, PositionsAlwaysDistinct, ListAlwaysDefinite, PTL

LEMMA OneMore ==
    ASSUME NEW S, IsFiniteSet(S), NEW x
    PROVE  /\ IsFiniteSet(S \cup {x})
           /\ Cardinality(S \cup {x}) \in Nat
           /\ Cardinality(S \cup {x}) <= Cardinality(S) + 1
<1>1. Cardinality(S) \in Nat
  BY FS_CardinalityType
<1>2. CASE x \in S
  <2>1. S \cup {x} = S
    BY <1>2
  <2>2. IsFiniteSet(S \cup {x}) /\ Cardinality(S \cup {x}) = Cardinality(S)
    BY <2>1, Zenon
  <2> QED
    BY <1>1, <2>2
<1>3. CASE x \notin S
  <2>1. IsFiniteSet(S \cup {x}) /\ Cardinality(S \cup {x}) = Cardinality(S) + 1
    BY <1>3, FS_AddElement
  <2> QED
    BY <1>1, <2>1
<1> QED
  BY <1>2, <1>3

(* Whatever an official attempt earns, its user is not moved down by it and   *)
(* nobody else up, and a position told across it is one too low at most, for  *)
(* any number of users (rank_for_user).                                       *)
THEOREM AttemptsNeverMoveDown == Spec => AttemptNeverMovesDown
<1> DEFINE Fair ==
        \A u \in Users, earned \in Rewards, time \in Times :
            Official(u, earned, time) =>
                /\ Position(u)' <= Position(u)
                /\ \A v \in Users \ {u} : Position(v)' >= Position(v)
                /\ \A points \in {users[u].points} :
                      rank_for_user(points, u)' <= Position(u) + 1
<1>1. TypeOK => Fair
  <2> SUFFICES ASSUME TypeOK, NEW u \in Users, NEW earned \in Rewards,
                      NEW time \in Times, Official(u, earned, time)
               PROVE  /\ Position(u)' <= Position(u)
                      /\ \A v \in Users \ {u} : Position(v)' >= Position(v)
                      /\ \A points \in {users[u].points} :
                            rank_for_user(points, u)' <= Position(u) + 1
    OBVIOUS
  <2>1. /\ \A v \in Users : users'[v].is_active = users[v].is_active
        /\ \A v \in Users \ {u} : users'[v].points = users[v].points
        /\ users'[u].points = users[u].points + earned
    BY DEF TypeOK, Official
  <2>2. /\ earned \in Nat /\ \A v \in Users : v \in Nat /\ users[v].points \in Nat
    BY LeaderboardAssumption DEF TypeOK
  <2>3. Active' = Active
    BY <2>1 DEF Active
  <2> DEFINE Before(points, v) ==
                 {w \in Active : \/ users[w].points > points
                                 \/ users[w].points = points /\ w < v}
             After(points, v) ==
                 {w \in Active : \/ users'[w].points > points
                                 \/ users'[w].points = points /\ w < v}
  <2>4. \A points, v : /\ IsFiniteSet(Before(points, v))
                       /\ IsFiniteSet(After(points, v))
                       /\ Cardinality(Before(points, v)) \in Nat
                       /\ Cardinality(After(points, v)) \in Nat
    BY ActiveIsFinite, FS_Subset, FS_CardinalityType
  <2>5. After(users'[u].points, u) \subseteq Before(users[u].points, u)
    BY <2>1, <2>2, ActiveIsFinite
  <2>6. \A v \in Users \ {u} :
            Before(users[v].points, v) \subseteq After(users'[v].points, v)
    BY <2>1, <2>2, ActiveIsFinite
  <2>7. After(users[u].points, u) \subseteq Before(users[u].points, u) \cup {u}
    BY <2>1, <2>2, ActiveIsFinite
  <2>8. /\ \A v : Position(v) = 1 + Cardinality(Before(users[v].points, v))
        /\ \A v : Position(v)' = 1 + Cardinality(After(users'[v].points, v))
        /\ \A points, v :
              rank_for_user(points, v)' = 1 + Cardinality(After(points, v))
    BY <2>3 DEF Position, rank_for_user, AheadOf
  <2> HIDE DEF Before, After
  <2>9. Cardinality(After(users'[u].points, u))
            <= Cardinality(Before(users[u].points, u))
    BY <2>4, <2>5, FS_Subset
  <2>10. \A v \in Users \ {u} : Cardinality(Before(users[v].points, v))
                                    <= Cardinality(After(users'[v].points, v))
    BY <2>4, <2>6, FS_Subset
  <2>11. Cardinality(After(users[u].points, u))
            <= Cardinality(Before(users[u].points, u)) + 1
    <3> DEFINE ahead == Before(users[u].points, u)
    <3>1. IsFiniteSet(ahead) /\ Cardinality(ahead) \in Nat
      BY <2>4
    <3> HIDE DEF ahead
    <3>2. /\ IsFiniteSet(ahead \cup {u})
          /\ Cardinality(ahead \cup {u}) \in Nat
          /\ Cardinality(ahead \cup {u}) <= Cardinality(ahead) + 1
      BY <3>1, OneMore
    <3>3. Cardinality(After(users[u].points, u)) <= Cardinality(ahead \cup {u})
      BY <2>7, <3>2, FS_Subset DEF ahead
    <3>4. Cardinality(After(users[u].points, u)) \in Nat
      BY <2>4
    <3>5. Cardinality(After(users[u].points, u)) <= Cardinality(ahead) + 1
      BY <3>1, <3>2, <3>3, <3>4
    <3> QED
      BY <3>5 DEF ahead
  <2> QED
    BY <2>4, <2>8, <2>9, <2>10, <2>11
<1> QED
  BY <1>1, TypeAlways, PTL DEF AttemptNeverMovesDown

(* The two positions of a user differ by no more than a tie, for any number   *)
(* of users and whatever ties (rank_for_user, leaderboard_queryset).          *)
THEOREM RankAlwaysWithinItsTie == Spec => []RankWithinItsTie
<1>1. TypeOK => RankWithinItsTie
  <2> SUFFICES ASSUME TypeOK, NEW u \in Active
               PROVE  LET above    == {v \in Active : users[v].points > users[u].points}
                          notBelow == {v \in Active : users[v].points >= users[u].points}
                      IN  {Position(u), ListPosition("points", u)}
                            \subseteq Cardinality(above) + 1 .. Cardinality(notBelow)
    BY DEF RankWithinItsTie
  <2> DEFINE above    == {v \in Active : users[v].points > users[u].points}
             notBelow == {v \in Active : users[v].points >= users[u].points}
             listed   == {v \in Active : KeyLess(Key("points", v), Key("points", u))}
             ahead    == AheadOf(users[u].points, u)
  <2>1. \A v \in Active : /\ v \in Nat /\ users[v].points \in Nat
                          /\ users[v].total_completion_time \in Nat
    BY ActiveIsFinite, LeaderboardAssumption DEF TypeOK
  <2>2. /\ above \subseteq ahead /\ ahead \subseteq notBelow \ {u}
        /\ u \in notBelow
    BY <2>1 DEF AheadOf
  <2>3. above \subseteq listed /\ listed \subseteq notBelow \ {u}
    BY <2>1 DEF Key, KeyLess
  <2>4. IsFiniteSet(notBelow) /\ notBelow \subseteq Active
    BY ActiveIsFinite, FS_Subset
  <2> HIDE DEF above, notBelow, listed, ahead
  <2>5. /\ IsFiniteSet(notBelow \ {u})
        /\ Cardinality(notBelow \ {u}) = Cardinality(notBelow) - 1
        /\ Cardinality(notBelow) \in Nat
    BY <2>2, <2>4, FS_RemoveElement, FS_CardinalityType
  <2>6. ASSUME NEW set, above \subseteq set, set \subseteq notBelow \ {u}
        PROVE  1 + Cardinality(set) \in Cardinality(above) + 1 .. Cardinality(notBelow)
    <3>1. /\ IsFiniteSet(set) /\ Cardinality(set) \in Nat
          /\ Cardinality(set) <= Cardinality(notBelow) - 1
      BY <2>5, <2>6, FS_Subset, FS_CardinalityType
    <3>2. Cardinality(above) \in Nat /\ Cardinality(above) <= Cardinality(set)
      BY <3>1, <2>6, FS_Subset, FS_CardinalityType
    <3> QED
      BY <2>5, <3>1, <3>2
  <2>7. 1 + Cardinality(ahead) \in Cardinality(above) + 1 .. Cardinality(notBelow)
    BY <2>2, <2>6
  <2>8. 1 + Cardinality(listed) \in Cardinality(above) + 1 .. Cardinality(notBelow)
    BY <2>3, <2>6
  <2> QED
    BY <2>7, <2>8
       DEF Position, rank_for_user, ListPosition, above, notBelow, listed, ahead
<1> QED
  BY <1>1, TypeAlways, PTL
=============================================================================
