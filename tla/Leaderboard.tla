----------------------------- MODULE Leaderboard -----------------------------
(***************************************************************************)
(* The ranking of the users: the ordered list of leaderboard/ and the own  *)
(* position of leaderboard/me/, while official attempts and administrators *)
(* move the columns they are computed from.                                *)
(***************************************************************************)
EXTENDS Integers, FiniteSets

CONSTANTS
    Users,         \* primary keys
    Rewards,       \* what an official attempt may earn
    Times,         \* how long it may take, in seconds
    MaxPoints, MaxTests, MaxTime    \* bounds

ASSUME LeaderboardAssumption ==
    /\ Users \subseteq Nat /\ IsFiniteSet(Users)
    /\ Rewards \subseteq Nat /\ Times \subseteq Nat
    /\ MaxPoints \in Nat /\ MaxTests \in Nat /\ MaxTime \in Nat

VARIABLE users     \* [Users -> the columns the rankings read]

TypeOK ==
    users \in [Users -> [points : Nat, completed_tests : Nat,
                         total_completion_time : Nat, is_active : BOOLEAN]]

Init ==
    users = [u \in Users |-> [points |-> 0, completed_tests |-> 0,
                              total_completion_time |-> 0, is_active |-> TRUE]]

(* _apply_official_results, and the new row under the Sum of the annotation. *)
Official(u, earned, time) ==
    /\ users[u].is_active
    /\ users[u].completed_tests < MaxTests /\ users[u].points + earned <= MaxPoints
    /\ users[u].total_completion_time + time <= MaxTime
    /\ users' = [users EXCEPT ![u].points = @ + earned,
                              ![u].completed_tests = @ + 1,
                              ![u].total_completion_time = @ + time]

(* services/admin.py: adjust_points, whose sum is clamped at zero, reset_field *)
(* and apply_edits, whose form has all three columns.                        *)
SetPoints(u, points) == users' = [users EXCEPT ![u].points = points]
SetTests(u, tests) == users' = [users EXCEPT ![u].completed_tests = tests]
SetActive(u, active) == users' = [users EXCEPT ![u].is_active = active]

Moderate(u) ==
    \/ \E points \in 0 .. MaxPoints : SetPoints(u, points)
    \/ \E tests \in 0 .. MaxTests : SetTests(u, tests)
    \/ \E active \in BOOLEAN : SetActive(u, active)

Next ==
    \E u \in Users :
        \/ \E earned \in Rewards, time \in Times : Official(u, earned, time)
        \/ Moderate(u)

Spec == Init /\ [][Next]_users
-----------------------------------------------------------------------------
(* The queries (selectors/leaderboard.py). *)

Active == {u \in Users : users[u].is_active}

Ordering == {"points", "completion_time", "completed_tests"}

(* LEADERBOARD_ORDERINGS, as sort keys to be compared from left to right. *)
Key_WithoutId(ordering, u) ==
    CASE ordering = "points" ->
            <<- users[u].points, users[u].total_completion_time, 0>>
      [] ordering = "completion_time" ->
            <<users[u].total_completion_time, - users[u].points, 0>>
      [] ordering = "completed_tests" ->
            <<- users[u].completed_tests, - users[u].points, 0>>
Key(ordering, u) ==
    CASE ordering = "points" ->
            <<- users[u].points, users[u].total_completion_time, u>>
      [] ordering = "completion_time" ->
            <<users[u].total_completion_time, - users[u].points, u>>
      [] ordering = "completed_tests" ->
            <<- users[u].completed_tests, - users[u].points, u>>

KeyLess(a, b) ==
    \/ a[1] < b[1]
    \/ a[1] = b[1] /\ a[2] < b[2]
    \/ a[1] = b[1] /\ a[2] = b[2] /\ a[3] < b[3]

(* The place of u in leaderboard_queryset. *)
ListPosition(ordering, u) ==
    1 + Cardinality({v \in Active : KeyLess(Key(ordering, v), Key(ordering, u))})

(* Those ahead of u, whose own points are the ones authentication has read. *)
AheadOf_Inactive(points, u) ==
    {v \in Users : \/ users[v].points > points
                   \/ users[v].points = points /\ v < u}
AheadOf_AsListed(points, u) ==
    {v \in Active : KeyLess(Key("points", v), Key("points", u))}
AheadOf(points, u) ==
    {v \in Active : \/ users[v].points > points
                    \/ users[v].points = points /\ v < u}

rank_for_user(points, u) == 1 + Cardinality(AheadOf(points, u))

(* What u is told when nothing is written between the two reads. *)
Position(u) == rank_for_user(users[u].points, u)
-----------------------------------------------------------------------------
(* The properties. *)

ListIsDefinite ==
    \A ordering \in Ordering :
        {ListPosition(ordering, u) : u \in Active} = 1 .. Cardinality(Active)

PositionsAreDistinct ==
    {Position(u) : u \in Active} = 1 .. Cardinality(Active)

(* However many users tie, every ordering a client may ask for puts the       *)
(* active ones in one definite order, so that pages of the list neither       *)
(* overlap nor leave a gap (LEADERBOARD_ORDERINGS); and no two active users   *)
(* are told the same own position, and none is skipped (rank_for_user).       *)
PlacesAreNumbered == ListIsDefinite /\ PositionsAreDistinct

(* An official attempt, whatever it earns and however long it takes, never    *)
(* moves its user down, nor anybody up.  A request of the user that was       *)
(* authenticated before it and counts after it, where its user may be ahead   *)
(* of their own old points, answers one place too low at most (rank_for_user; *)
(* request.user in views/leaderboard.py).                                     *)
AttemptNeverMovesDown ==
    [][\A u \in Users, earned \in Rewards, time \in Times :
          Official(u, earned, time) =>
              /\ Position(u)' <= Position(u)
              /\ \A v \in Users \ {u} : Position(v)' >= Position(v)
              /\ \A points \in {users[u].points} :
                    rank_for_user(points, u)' <= Position(u) + 1]_users

(* The own position and the place in the list break ties by different columns *)
(* (line 48 and line 11 of selectors/leaderboard.py), and still never differ  *)
(* by more than a tie: both lie below everybody with more points and above    *)
(* everybody with fewer (rank_for_user, leaderboard_queryset).                *)
RankWithinItsTie ==
    \A u \in Active :
        LET above    == {v \in Active : users[v].points > users[u].points}
            notBelow == {v \in Active : users[v].points >= users[u].points}
        IN  {Position(u), ListPosition("points", u)}
                \subseteq Cardinality(above) + 1 .. Cardinality(notBelow)
=============================================================================
