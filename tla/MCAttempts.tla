------------------------------ MODULE MCAttempts ------------------------------
(* Small instances of Attempts for TLC. *)
EXTENDS Attempts, TLC

Row(duration, reward, opens, closes) ==
    [is_published |-> TRUE, is_active |-> TRUE, start_datetime |-> opens,
     end_datetime |-> closes, duration_seconds |-> duration,
     reward_points |-> reward]

(* Nobody edits: a test that closes when its first session has expired. *)
SteadyRows == {Row(1, 150, 0, 2)}

OneRow == {Row(2, 100, NoDate, NoDate)}

(* Staff also save it with no time to spare and a smaller reward. *)
TwoRows == OneRow \cup {Row(0, 60, NoDate, NoDate)}

NoTests == {}

RaceSymmetry == Permutations(Requests) \cup Permutations(Tests)
=============================================================================
