---------------------------- MODULE MCQuestionBank ----------------------------
(* Every question with up to three choices, two pairs or a short text. *)
EXTENDS QuestionBank

Seqs(set, n) == UNION {[1 .. k -> set] : k \in 0 .. n}

Raw ==
    [type |-> "single", text |-> TRUE, exam |-> FALSE, choices |-> <<>>,
     correct_answer |-> <<>>, left |-> <<>>, right |-> <<>>, pairs |-> <<>>]

Choice(is_correct, order) == [text |-> TRUE, is_correct |-> is_correct, order |-> order]

ChoiceLists ==
    {[k \in DOMAIN marks |-> Choice(marks[k], 0)] : marks \in Seqs(BOOLEAN, 3)}
    \cup {<<Choice(TRUE, 0), [Choice(FALSE, 0) EXCEPT !.text = FALSE]>>}

Orders == {[k \in DOMAIN orders |-> Choice(FALSE, orders[k])] :
              orders \in Seqs({0, 1, 2}, 3)}

CharsC == {"a", "A", "space", "deg", "comma", "dot"}
Texts == Seqs(CharsC, 2)

(* The target r1_ is r1 with a blank at its end; `blank' is nothing else. *)
StrippedC ==
    [target \in {"r1", "r2", "r1_"} |-> IF target = "r1_" THEN "r1" ELSE target]

Pairs == Seqs({"l1", "l2"}, 2)
            \X (Seqs({"r1", "r2"}, 2) \cup {<<"r1_", "r2">>, <<"r2", "blank">>})

Maps == UNION {[domain -> {"r1", "r2", "r1_", "blank"}] : domain \in SUBSET {"l1", "l2"}}

RawQuestionsC ==
    {[Raw EXCEPT !.type = type, !.choices = choices, !.exam = exam] :
        type \in {"single", "single_choice", "SINGLE", "multiple", "multiple_choice"},
        choices \in ChoiceLists, exam \in BOOLEAN}
    \cup {[Raw EXCEPT !.type = "ordering", !.choices = choices] : choices \in Orders}
    \cup {[Raw EXCEPT !.type = "short_answer", !.correct_answer = text] : text \in Texts}
    \cup {[Raw EXCEPT !.type = "matching", !.left = pair[1], !.right = pair[2],
                      !.pairs = map] : pair \in Pairs, map \in Maps}
    \cup {[Raw EXCEPT !.text = FALSE], [Raw EXCEPT !.type = "essay"]}

(* Id 4 belongs to another question; an answer may fill a field in vain. *)
AnswersC ==
    {[EmptyAnswer EXCEPT !.choice_ids = ids] : ids \in Seqs(1 .. 4, 3)}
    \cup {[EmptyAnswer EXCEPT !.ordering = ids] : ids \in Seqs(1 .. 4, 3)}
    \cup {[EmptyAnswer EXCEPT !.text_answer = text] : text \in Texts}
    \cup {[EmptyAnswer EXCEPT !.choice_ids = <<1>>, !.text_answer = text] :
              text \in Seqs(CharsC, 1)}
    \cup {[EmptyAnswer EXCEPT !.matching = map] : map \in Maps}
=============================================================================
