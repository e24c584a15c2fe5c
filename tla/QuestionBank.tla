---------------------------- MODULE QuestionBank ----------------------------
(***************************************************************************)
(* A question from its author to its verdict: import_tests parses what the *)
(* author wrote, the row is stored, a user's answer passes the serializer  *)
(* and is graded.  The four functions are written against each other only  *)
(* through the data; here they are composed for every small question.      *)
(*                                                                         *)
(* Choices are numbered in the order of the file, which is the order of    *)
(* the keys bulk_create gives them.  Wordings are abstracted to whether    *)
(* they are there, except the text of a short answer, a sequence of        *)
(* characters.                                                             *)
(***************************************************************************)
EXTENDS Integers, Sequences, FiniteSets, Functions

CONSTANTS
    RawQuestions,    \* what authors write
    Answers,         \* what users send
    Chars,           \* the characters they write
    Stripped,        \* what CharField makes of the targets it takes: strip()
    Unparsed, Rejected, Unanswered

ASSUME QuestionsAssumption ==
    /\ \A source \in RawQuestions :
          /\ source.choices \in Seq([text : BOOLEAN, is_correct : BOOLEAN, order : Int])
          /\ source.correct_answer \in Seq(Chars)
          /\ source.pairs = [left \in DOMAIN source.pairs |-> source.pairs[left]]
    /\ \A sent \in Answers : sent.ordering \in Seq(Int) /\ sent.text_answer \in Seq(Chars)
    /\ {"a", "dot"} \subseteq Chars

(* The defaults of AnswerInputSerializer. *)
EmptyAnswer ==
    [choice_ids |-> <<>>, ordering |-> <<>>, text_answer |-> <<>>, matching |-> <<>>]

Lists(S) == UNION {[1 .. n -> S] : n \in 0 .. Cardinality(S)}

(* Users send what they like: any list of the choices of a question, and the  *)
(* text (a column and a field of 255 characters) or the pairs its author      *)
(* wrote.                                                                     *)
ASSUME AnswersAssumption ==
    \A source \in RawQuestions :
        /\ \A ids \in Lists(DOMAIN source.choices) :
              /\ [EmptyAnswer EXCEPT !.choice_ids = ids] \in Answers
              /\ [EmptyAnswer EXCEPT !.ordering = ids] \in Answers
        /\ [EmptyAnswer EXCEPT !.text_answer = source.correct_answer] \in Answers
        /\ [EmptyAnswer EXCEPT !.matching = source.pairs] \in Answers

VARIABLES
    raw,             \* the question in the JSON file
    question,        \* its row with its choices, Unparsed or Rejected
    answer,          \* the answer that passed the serializer
    verdict          \* "correct", "wrong", "invalid" (400) or Unanswered

QBvars == <<raw, question, answer, verdict>>

QuestionType == {"single", "multiple", "ordering", "short_answer", "matching"}

Admitted == question \notin {Unparsed, Rejected}

QBTypeOK ==
    /\ raw \in RawQuestions
    /\ Admitted =>
          /\ question.type \in QuestionType
          /\ question.type = "matching" =>
                question.matching \in [Range(raw.left) -> Range(raw.right)]
    /\ verdict \in {"correct", "wrong", "invalid", Unanswered}
-----------------------------------------------------------------------------
(* services/test_import.py *)

(* _parse_question lower-cases the type and knows two exam-style names. *)
CanonicalType(type) ==
    CASE type \in {"single_choice", "SINGLE"} -> "single"
      [] type = "multiple_choice"             -> "multiple"
      [] OTHER                                -> type

Blank(text) == \A k \in DOMAIN text : text[k] = "space"

(* Only the key `choices' is read.  An exam-style question has `answers' in its *)
(* place, marked by a letter.                                                  *)
ChoicesOf(source) == IF source.exam THEN <<>> ELSE source.choices

Marked(choices) == {k \in DOMAIN choices : choices[k].is_correct}

ChoicesAreValid_Unmarked(choices, type) ==
    /\ Len(choices) >= 2
    /\ \A k \in DOMAIN choices : choices[k].text
    /\ type = "single" => Cardinality(Marked(choices)) <= 1
ChoicesAreValid(choices, type) ==
    /\ Len(choices) >= 2
    /\ \A k \in DOMAIN choices : choices[k].text
    /\ type \in {"single", "multiple"} => Marked(choices) # {}
    /\ type = "single" => Cardinality(Marked(choices)) <= 1

MatchingIsValid_AnyTarget(source) ==
    /\ Len(source.left) >= 2 /\ Len(source.right) >= 2
    /\ DOMAIN source.pairs # {}
    /\ DOMAIN source.pairs = Range(source.left)
MatchingIsValid(source) ==
    /\ Len(source.left) >= 2 /\ Len(source.right) >= 2
    /\ DOMAIN source.pairs # {}
    /\ DOMAIN source.pairs = Range(source.left)
    /\ Range(source.pairs) \subseteq Range(source.right)

ParsesCleanly(source) ==
    LET type == CanonicalType(source.type)
    IN  /\ source.text
        /\ type \in QuestionType
        /\ type = "short_answer" => ~ Blank(source.correct_answer)
        /\ type = "matching" => MatchingIsValid(source)
        /\ type \in {"single", "multiple", "ordering"} =>
              ChoicesAreValid(ChoicesOf(source), type)

(* The row; the spaces strip() takes off are dropped by the grader too. *)
ParseQuestion(source) ==
    LET type == CanonicalType(source.type)
    IN  [type           |-> type,
         choices        |-> IF type \in {"short_answer", "matching"}
                            THEN <<>> ELSE ChoicesOf(source),
         correct_answer |-> IF type = "short_answer"
                            THEN source.correct_answer ELSE <<>>,
         matching       |-> IF type = "matching" THEN source.pairs ELSE <<>>]
-----------------------------------------------------------------------------
(* serializers/submissions.py *)

(* CharField takes no blank target. *)
AnswerIsValid(sent) ==
    /\ Range(sent.matching) \subseteq DOMAIN Stripped
    /\ \/ sent.choice_ids # <<>> \/ sent.ordering # <<>>
       \/ ~ Blank(sent.text_answer) \/ sent.matching # <<>>
    /\ IsInjective(sent.choice_ids)
    /\ IsInjective(sent.ordering)

(* The validated answer: the targets of a matching are stripped, its keys and *)
(* the text are not.                                                          *)
Received(sent) ==
    [choice_ids  |-> sent.choice_ids,
     ordering    |-> sent.ordering,
     text_answer |-> sent.text_answer,
     matching    |-> [left \in DOMAIN sent.matching |-> Stripped[sent.matching[left]]]]
-----------------------------------------------------------------------------
(* services/scoring.py *)

DegreeSigns == {"deg", "ordinal", "superscript0"}

NormalizeChar(char) ==
    CASE char = "comma"  -> "dot"
      [] char = "A"  -> "a"
      [] OTHER       -> char

(* What split() and replace() leave of the text, character by character. *)
Normalize(text) ==
    LET kept[n \in 0 .. Len(text)] ==
            IF n = 0 THEN <<>>
            ELSE IF text[n] \in DegreeSigns \cup {"space"} THEN kept[n - 1]
            ELSE Append(kept[n - 1], NormalizeChar(text[n]))
    IN  kept[Len(text)]

(* sorted(choices, key=lambda c: (c.order, c.id)) *)
CorrectSequence(choices) ==
    LET Before(a, b) == \/ choices[a].order < choices[b].order
                        \/ choices[a].order = choices[b].order /\ a < b
    IN  [k \in DOMAIN choices |->
            CHOOSE c \in DOMAIN choices :
                Cardinality({b \in DOMAIN choices : Before(b, c)}) = k - 1]

Judge(right) == IF right THEN "correct" ELSE "wrong"

GradeText(row, sent) ==
    Judge(/\ sent.text_answer # <<>>
          /\ Normalize(sent.text_answer) = Normalize(row.correct_answer))

GradeMatching(row, sent) ==
    Judge(row.matching # <<>> /\ sent.matching = row.matching)

GradeOrdering(row, sent) ==
    IF \/ Range(sent.ordering) # DOMAIN row.choices
       \/ Len(sent.ordering) # Cardinality(DOMAIN row.choices)
    THEN "invalid"
    ELSE Judge(sent.ordering = CorrectSequence(row.choices))

GradeChoices_AnyMarked(row, sent) ==
    LET selected == Range(sent.choice_ids)
    IN  IF \/ ~ (selected \subseteq DOMAIN row.choices)
           \/ IF row.type = "single" THEN Cardinality(selected) # 1 ELSE selected = {}
        THEN "invalid"
        ELSE Judge(selected \subseteq Marked(row.choices))
GradeChoices(row, sent) ==
    LET selected == Range(sent.choice_ids)
    IN  IF \/ ~ (selected \subseteq DOMAIN row.choices)
           \/ IF row.type = "single" THEN Cardinality(selected) # 1 ELSE selected = {}
        THEN "invalid"
        ELSE Judge(selected = Marked(row.choices))

GradeQuestion(row, sent) ==
    CASE row.type = "short_answer" -> GradeText(row, sent)
      [] row.type = "matching"     -> GradeMatching(row, sent)
      [] row.type = "ordering"     -> GradeOrdering(row, sent)
      [] OTHER                     -> GradeChoices(row, sent)
-----------------------------------------------------------------------------
(* An author writes a question, it is imported, users answer it. *)

QBInit ==
    /\ raw \in RawQuestions
    /\ question = Unparsed
    /\ answer = Unanswered
    /\ verdict = Unanswered

Import ==
    /\ question = Unparsed
    /\ question' = IF ParsesCleanly(raw) THEN ParseQuestion(raw) ELSE Rejected
    /\ UNCHANGED <<raw, answer, verdict>>

(* Answers do not influence each other: one is followed. *)
Submit(sent) ==
    /\ Admitted /\ answer = Unanswered
    /\ AnswerIsValid(sent)
    /\ answer' = sent
    /\ verdict' = GradeQuestion(question, Received(sent))
    /\ UNCHANGED <<raw, question>>

QBNext == Import \/ \E sent \in Answers : Submit(sent)

QBSpec == QBInit /\ [][QBNext]_QBvars
-----------------------------------------------------------------------------
(* The properties. *)

(* The importer does not strip the ids of a matching, the serializer strips   *)
(* the targets that users send: a target with blanks at its ends cannot be    *)
(* hit, and what follows is promised without it.                              *)
CanBeHit(target) == target \in DOMAIN Stripped /\ Stripped[target] = target

TargetsCanBeHit(source) == \A target \in Range(source.pairs) : CanBeHit(target)

(* The importer admits no question that the grader lets nobody answer: some   *)
(* answer that passes the serializer is correct.                              *)
EveryQuestionAnswerable ==
    Admitted /\ (question.type = "matching" => TargetsCanBeHit(raw)) =>
        \E sent \in Answers : /\ AnswerIsValid(sent)
                              /\ GradeQuestion(question, Received(sent)) = "correct"

(* Every choice once, by ascending `order' and then as written. *)
Ascending(choices, sequence) ==
    /\ Range(sequence) = DOMAIN choices /\ Len(sequence) = Len(choices)
    /\ \A j, k \in DOMAIN sequence : j < k =>
          \/ choices[sequence[j]].order < choices[sequence[k]].order
          \/ /\ choices[sequence[j]].order = choices[sequence[k]].order
             /\ sequence[j] < sequence[k]

(* The same text up to spaces, degree signs, case and the decimal comma. *)
AsWritten(text, written) ==
    LET Same(a, b) == a = b \/ {a, b} \in {{"comma", "dot"}, {"a", "A"}}
        Solid(t) == {k \in DOMAIN t : t[k] \notin DegreeSigns \cup {"space"}}
        Nth(t, k) == Cardinality({j \in Solid(t) : j < k})
    IN  /\ Cardinality(Solid(text)) = Cardinality(Solid(written))
        /\ \A j \in Solid(text), k \in Solid(written) :
              Nth(text, j) = Nth(written, k) => Same(text[j], written[k])

(* The same targets up to blanks at their ends. *)
SamePairs(sent, written) ==
    /\ DOMAIN sent = DOMAIN written
    /\ \A left \in DOMAIN written : Stripped[sent[left]] = Stripped[written[left]]

(* What the author meant: the text, exactly the pairs, the order, or exactly *)
(* the marked choices.                                                       *)
Intended(sent) ==
    CASE question.type = "short_answer" ->
            sent.text_answer # <<>> /\ AsWritten(sent.text_answer, raw.correct_answer)
      [] question.type = "matching" -> SamePairs(sent.matching, raw.pairs)
      [] question.type = "ordering" -> Ascending(raw.choices, sent.ordering)
      [] OTHER -> Range(sent.choice_ids)
                      = {k \in DOMAIN raw.choices : raw.choices[k].is_correct}

(* Whatever passes the serializer is judged by the words of the author       *)
(* (_grade_question after _parse_question).                                  *)
GradedAsAuthored ==
    /\ verdict # Unanswered
    /\ question.type = "matching" => TargetsCanBeHit(raw)
    => (verdict = "correct" <=> Intended(answer))
=============================================================================
