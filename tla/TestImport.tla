----------------------------- MODULE TestImport -----------------------------
(***************************************************************************)
(* manage.py import_tests: tests are keyed by title and replaced whole.    *)
(* Several runs of the command, and staff who edit tests by hand, work on  *)
(* the same tables.  Each payload is a transaction under READ COMMITTED;   *)
(* what a transaction writes is seen by nobody before its COMMIT.          *)
(*                                                                         *)
(* Test.title is not unique, and a row lock cannot be taken on a row that  *)
(* is not there yet.                                                       *)
(***************************************************************************)
EXTENDS Integers, Sequences, FiniteSetsExt

CONSTANTS
    Runs,            \* runs of the command
    Titles,
    Payloads,        \* the tests in the JSON files
    TitleOf,         \* [Payloads -> Titles]
    Size,            \* [Payloads -> the number of questions]
    Invalid,         \* the payloads that do not pass validation
    Unreadable,      \* the files that are not UTF-8, one payload each
    Batches,         \* what a run may be given: sequences of payloads
    MaxLength,       \* bound on a batch
    NoRow, Free,
    MaxEdits         \* bound on edits by hand and kills

ASSUME TestImportAssumption ==
    /\ TitleOf \in [Payloads -> Titles] /\ Size \in [Payloads -> Nat]
    /\ MaxLength \in Nat /\ MaxEdits \in Nat
    /\ Batches \subseteq Seq(Payloads)
    /\ \A batch \in Batches : Len(batch) \in 1 .. MaxLength
    /\ Free \notin Runs

VARIABLES
    tests,    \* [Keys -> the committed row of a test with its questions, or NoRow]
    lock,     \* [Keys -> the run whose transaction has locked the row, or Free]
    run,      \* [Runs -> the local state of a run]
    edits     \* edits by hand and kills so far

vars == <<tests, lock, run, edits>>

(* A run inserts at most one test for each payload of its batch, so the place *)
(* of the payload serves as the primary key, and as the name of the import.   *)
Keys == Runs \X (1 .. MaxLength)
Questions == Keys \X Nat

(* `of' is the import that wrote the other columns.  `renamed' and `edited'   *)
(* are history variables: staff have given it another title, staff have saved *)
(* it since it was last imported.                                             *)
TestRow ==
    [title : Titles, of : Keys, questions : SUBSET Questions,
     renamed : BOOLEAN, edited : BOOLEAN]

ASSUME RowAssumption == NoRow \notin TestRow

Stats == [created : Nat, updated : Nat, questions : Nat, errors : Nat]

(* `met' is a history variable: the runs that were under way together with    *)
(* this one.                                                                  *)
Run ==
    [pc : {"idle", "next", "lock", "delete", "write", "done", "killed"},
     batch : Batches, at : 1 .. MaxLength + 1, dry_run : BOOLEAN,
     found : SUBSET Keys, test : Keys, created : BOOLEAN,
     gone : SUBSET Questions, written : Nat,
     stats : Stats,
     met : SUBSET Runs]

Stored == {key \in Keys : tests[key] # NoRow}
StoredQuestions == UNION {tests[key].questions : key \in Stored}
Named(title) == {key \in Stored : tests[key].title = title}
UnderWay(i) == run[i].pc \notin {"idle", "done", "killed"}
Busy(i) == run[i].pc \in {"lock", "delete", "write"}
InTransaction(i) == run[i].pc \in {"delete", "write"}

Here(i) == <<i, run[i].at>>
Payload(i) == run[i].batch[run[i].at]
QuestionsOf(key) ==
    {key} \X (1 .. Size[run[key[1]].batch[key[2]]])

(* The tables and the runs have their types, the rows a run has locked are    *)
(* among those its SELECT found, and it writes to a row it has locked         *)
(* (update_or_create).                                                        *)
TypeOK ==
    /\ tests \in [Keys -> TestRow \cup {NoRow}]
    /\ lock \in [Keys -> Runs \cup {Free}]
    /\ run \in [Runs -> Run]
    /\ edits \in 0 .. MaxEdits
    /\ \A key \in Keys, i \in Runs :
          lock[key] = i => Busy(i) /\ key \in run[i].found
    /\ \A i \in Runs : InTransaction(i) /\ ~ run[i].created => lock[run[i].test] = i

NoStats == [created |-> 0, updated |-> 0, questions |-> 0, errors |-> 0]

Init ==
    /\ tests = [key \in Keys |-> NoRow]
    /\ lock = [key \in Keys |-> Free]
    /\ run \in [Runs -> {[pc |-> "idle", batch |-> batch, at |-> 1, dry_run |-> dry_run,
                          found |-> {}, test |-> <<CHOOSE i \in Runs : TRUE, 1>>,
                          created |-> FALSE, gone |-> {}, written |-> 0,
                          stats |-> NoStats, met |-> {}] :
                            batch \in Batches, dry_run \in BOOLEAN}]
    /\ edits = 0
-----------------------------------------------------------------------------
(* The command (management/commands/import_tests.py). *)

Become(i, state) == run' = [run EXCEPT ![i] = state]

Start(i) ==
    /\ run[i].pc = "idle"
    /\ LET others == {j \in Runs : UnderWay(j)}
       IN  run' = [j \in Runs |->
                     IF j = i THEN [run[j] EXCEPT !.pc = "next", !.met = @ \cup others]
                     ELSE IF j \in others THEN [run[j] EXCEPT !.met = @ \cup {i}]
                     ELSE run[j]]
    /\ UNCHANGED <<tests, lock, edits>>

(* import_data goes on with the next payload. *)
Onward(state) == [state EXCEPT !.pc = "next", !.at = @ + 1, !.found = {}, !.gone = {},
                               !.written = 0, !.created = FALSE]

Processing(i) ==
    /\ run[i].pc = "next" /\ run[i].at <= Len(run[i].batch)
    /\ Payload(i) \notin Unreadable

(* UnicodeDecodeError is none of the errors import_path catches: the command  *)
(* ends with it, and prints no report.                                        *)
Undecodable(i) ==
    /\ run[i].pc = "next" /\ run[i].at <= Len(run[i].batch)
    /\ Payload(i) \in Unreadable
    /\ Become(i, [run[i] EXCEPT !.pc = "killed"])
    /\ UNCHANGED <<tests, lock, edits>>

(* TestValidationError, or anything else that _parse_question raises. *)
Reject(i) ==
    /\ Processing(i) /\ Payload(i) \in Invalid
    /\ Become(i, [Onward(run[i]) EXCEPT !.stats.errors = @ + 1])
    /\ UNCHANGED <<tests, lock, edits>>

DryRun(i) ==
    /\ Processing(i) /\ Payload(i) \notin Invalid /\ run[i].dry_run
    /\ LET known == Named(TitleOf[Payload(i)]) # {}
       IN  Become(i, [Onward(run[i]) EXCEPT
                        !.stats.updated = IF known THEN @ + 1 ELSE @,
                        !.stats.created = IF known THEN @ ELSE @ + 1,
                        !.stats.questions = @ + Size[Payload(i)]])
    /\ UNCHANGED <<tests, lock, edits>>

Finish(i) ==
    /\ run[i].pc = "next" /\ run[i].at > Len(run[i].batch)
    /\ Become(i, [run[i] EXCEPT !.pc = "done"])
    /\ UNCHANGED <<tests, lock, edits>>
-----------------------------------------------------------------------------
(* The transaction of _upsert_test (services/test_import.py). *)

Released(i) == [key \in Keys |-> IF lock[key] = i THEN Free ELSE lock[key]]

(* update_or_create: SELECT ... FOR UPDATE takes its snapshot ... *)
Select(i) ==
    /\ Processing(i) /\ Payload(i) \notin Invalid /\ ~ run[i].dry_run
    /\ Become(i, [run[i] EXCEPT !.pc = "lock",
                                !.found = Named(TitleOf[Payload(i)])])
    /\ UNCHANGED <<tests, lock, edits>>

(* ... locks the rows it found, one after the other and in no order one can   *)
(* rely on, waiting for those that others hold, ...                           *)
Lock(i) ==
    /\ run[i].pc = "lock"
    /\ \E key \in run[i].found :
          lock[key] = Free /\ lock' = [lock EXCEPT ![key] = i]
    /\ UNCHANGED <<tests, run, edits>>

Waits_Never(i) == FALSE
Waits(i) == \E key \in run[i].found : lock[key] # i

(* ... and drops those that match no longer, whose locks it keeps.            *)
Matching_WholeRow(i) ==
    {key \in run[i].found \cap Named(TitleOf[Payload(i)]) :
        LET of == tests[key].of
        IN  run[of[1]].batch[of[2]] = Payload(i)}
Matching(i) == run[i].found \cap Named(TitleOf[Payload(i)])

Insert(i) ==
    /\ run[i].pc = "lock" /\ ~ Waits(i) /\ Matching(i) = {}
    /\ Become(i, [run[i] EXCEPT !.pc = "write", !.created = TRUE, !.test = Here(i)])
    /\ UNCHANGED <<tests, lock, edits>>

Update(i) ==
    /\ run[i].pc = "lock" /\ ~ Waits(i)
    /\ \E key \in Matching(i) :
          /\ Matching(i) = {key}
          /\ Become(i, [run[i] EXCEPT !.pc = "delete", !.created = FALSE, !.test = key])
    /\ UNCHANGED <<tests, lock, edits>>

(* test.questions.all().delete() *)
DeleteQuestions(i) ==
    /\ run[i].pc = "delete"
    /\ Become(i, [run[i] EXCEPT !.pc = "write", !.gone = tests[run[i].test].questions])
    /\ UNCHANGED <<tests, lock, edits>>

(* A question with its choices. *)
CreateQuestion(i) ==
    /\ run[i].pc = "write" /\ run[i].written < Size[Payload(i)]
    /\ Become(i, [run[i] EXCEPT !.written = @ + 1, !.stats.questions = @ + 1])
    /\ UNCHANGED <<tests, lock, edits>>

(* What the row of the test is after the COMMIT. *)
Imported(i) ==
    LET state   == run[i]
        old     == IF state.created THEN {} ELSE tests[state.test].questions
    IN  [title     |-> IF state.created THEN TitleOf[Payload(i)]
                       ELSE tests[state.test].title,
         of        |-> Here(i),
         questions |-> (old \ state.gone) \cup ({Here(i)} \X (1 .. state.written)),
         renamed   |-> IF state.created THEN FALSE ELSE tests[state.test].renamed,
         edited    |-> FALSE]

Commit(i) ==
    /\ run[i].pc = "write" /\ run[i].written = Size[Payload(i)]
    /\ tests' = [tests EXCEPT ![run[i].test] = Imported(i)]
    /\ lock' = Released(i)
    /\ Become(i, [Onward(run[i]) EXCEPT
                    !.stats.created = IF run[i].created THEN @ + 1 ELSE @,
                    !.stats.updated = IF run[i].created THEN @ ELSE @ + 1])
    /\ UNCHANGED edits

(* A statement raises: MultipleObjectsReturned, or the database refuses it.   *)
(* The transaction is rolled back; the questions it counted stay counted.     *)
Raise_KeepsLock(i) ==
    /\ Busy(i)
    /\ UNCHANGED lock
    /\ Become(i, [Onward(run[i]) EXCEPT !.stats.errors = @ + 1])
    /\ UNCHANGED <<tests, edits>>
Raise_Silently(i) ==
    /\ Busy(i)
    /\ lock' = Released(i)
    /\ Become(i, Onward(run[i]))
    /\ UNCHANGED <<tests, edits>>
Raise(i) ==
    /\ Busy(i)
    /\ lock' = Released(i)
    /\ Become(i, [Onward(run[i]) EXCEPT !.stats.errors = @ + 1])
    /\ UNCHANGED <<tests, edits>>

Ambiguous_Retries(i) ==
    /\ run[i].pc = "lock" /\ ~ Waits(i) /\ Cardinality(Matching(i)) > 1
    /\ lock' = Released(i)
    /\ Become(i, [run[i] EXCEPT !.pc = "next", !.found = {}])
    /\ UNCHANGED <<tests, edits>>
Ambiguous(i) ==
    run[i].pc = "lock" /\ ~ Waits(i) /\ Cardinality(Matching(i)) > 1 /\ Raise(i)

(* Two tests of one title and two runs that have each locked one of them: the *)
(* database finds the circle and refuses one of the SELECTs.                  *)
InCircle(i) ==
    \E circle \in SUBSET Runs :
        /\ i \in circle
        /\ \A j \in circle :
              run[j].pc = "lock" /\ \E key \in run[j].found : lock[key] \in circle \ {j}
Deadlocked(i) == InCircle(i) /\ Raise(i)
-----------------------------------------------------------------------------
(* What happens around the runs. *)

(* The connection is lost with the process, and the transaction with it. *)
Kill(i) ==
    /\ UnderWay(i)
    /\ edits < MaxEdits
    /\ edits' = edits + 1
    /\ lock' = Released(i)
    /\ Become(i, [run[i] EXCEPT !.pc = "killed"])
    /\ UNCHANGED tests

(* The change form of a test in the Django admin writes every column, its     *)
(* inline form deletes questions (those it adds are left out); the UPDATE     *)
(* waits for the row.                                                         *)
SaveForm(key, title, kept) ==
    /\ key \in Stored /\ lock[key] = Free /\ kept \subseteq tests[key].questions
    /\ edits < MaxEdits
    /\ edits' = edits + 1
    /\ LET row     == tests[key]
           renamed == IF title = row.title THEN row.renamed ELSE TRUE
       IN  tests' = [tests EXCEPT ![key] =
                       [row EXCEPT !.title = title, !.questions = kept,
                                   !.renamed = renamed, !.edited = TRUE]]
    /\ UNCHANGED <<lock, run>>

Step(i) ==
    \/ Undecodable(i) \/ Reject(i) \/ DryRun(i) \/ Finish(i)
    \/ Select(i) \/ Lock(i) \/ Insert(i) \/ Update(i) \/ Ambiguous(i) \/ Deadlocked(i)
    \/ DeleteQuestions(i) \/ CreateQuestion(i) \/ Commit(i)

Surroundings ==
    \/ \E i \in Runs : Start(i) \/ Raise(i) \/ Kill(i)
    \/ \E key \in Keys, title \in Titles, kept \in SUBSET StoredQuestions :
          SaveForm(key, title, kept)

Finished == (\A i \in Runs : run[i].pc \in {"done", "killed"}) /\ UNCHANGED vars

Next == (\E i \in Runs : Step(i)) \/ Surroundings \/ Finished

(* A run goes on as long as its process lives. *)
Spec == Init /\ [][Next]_vars /\ \A i \in Runs : WF_vars(Step(i))
-----------------------------------------------------------------------------
(* The properties. *)

(* However imports of one title overlap, fail or are killed, and whatever     *)
(* staff did to the test before, a stored test that nobody has edited since   *)
(* its last import holds the questions of exactly one payload, all of them,   *)
(* and they are from the payload that wrote its other columns (_upsert_test   *)
(* in one transaction; "Replace questions wholesale so edits/removals take    *)
(* effect", services/test_import.py:188).                                     *)
TestsAreWhole ==
    \A key \in Stored :
        ~ tests[key].edited => tests[key].questions = QuestionsOf(tests[key].of)

(* Re-importing updates in place, except in a race: two tests of one title    *)
(* that nobody renamed come from runs that were under way at the same time    *)
(* ("tests are keyed by title", services/test_import.py:4).                   *)
TwinsOnlyFromRaces ==
    \A a, b \in Stored :
        /\ a # b /\ tests[a].title = tests[b].title
        /\ ~ tests[a].renamed /\ ~ tests[b].renamed
        => a[1] # b[1] /\ b[1] \in run[a[1]].met

(* The report of a run: every payload it has passed is counted once, what it  *)
(* says it created is what it put into the table, and without an error the    *)
(* questions are those of its payloads (TestImportStats).                     *)
StatsTellTheTruth ==
    \A i \in Runs :
        LET stats  == run[i].stats
            passed == 1 .. run[i].at - 1
        IN  /\ stats.created + stats.updated + stats.errors = run[i].at - 1
            /\ ~ run[i].dry_run => stats.created = Cardinality({k \in Stored : k[1] = i})
            /\ stats.errors = 0 /\ run[i].pc \in {"next", "done"} =>
                 stats.questions = MapThenSumSet(LAMBDA k : Size[run[i].batch[k]], passed)

(* A run that was started ends, whoever holds the rows it waits for           *)
(* (select_for_update).                                                       *)
EveryImportEnds ==
    \A i \in Runs : UnderWay(i) ~> run[i].pc \in {"done", "killed"}
=============================================================================
