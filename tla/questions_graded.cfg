\* Every small question, every small answer.  A rejected or answered question
\* is the end of its story.
SPECIFICATION QBSpec
CONSTANTS
    RawQuestions <- RawQuestionsC
    Answers <- AnswersC
    Chars <- CharsC
    Stripped <- StrippedC
    Unparsed = Unparsed
    Rejected = Rejected
    Unanswered = Unanswered
INVARIANTS
    QBTypeOK
    EveryQuestionAnswerable
    GradedAsAuthored
CHECK_DEADLOCK FALSE
