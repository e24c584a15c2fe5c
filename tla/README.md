# Verification of the mehmat backend

TLA+ models of the Django backend in `mehmat_app`, checked with TLC, and theorems
about them checked with TLAPS. Paths below are relative to `mehmat_app/` unless
they begin with `README.md`, which is the repository's own.

## 1. The system

The backend serves a Telegram Mini App in which pupils prepare for a mathematics
exam: they sign in through Telegram, read materials, take timed tests, and are
ranked. Web workers run requests against one PostgreSQL database at READ
COMMITTED (`ATOMIC_REQUESTS` is off: a request is a sequence of statements and
transactions of its own). Staff work through an administrator API and the
Django admin; two management commands import materials and tests.

| Component | State | Operations | Modelled in |
| --- | --- | --- | --- |
| Test attempts (`services/scoring.py`, `services/sessions.py`, `views/tests.py`) | TestSession, Submission, the user's counters, achievements | start, submit; staff edit, publish, re-import a test | `Attempts`, `OfficialLedger` |
| Gamification (`services/ranking.py`, `streak.py`, `achievements.py`) | none: functions of the user row | points, percentage, rank, streak, unlocking | `Gamification`, `Career` |
| User accounts (`services/admin.py`, `views/user.py`, `services/telegram.py`, `signals.py`, `admin.py`) | User, AdminAuditLog, the welcome Notification | sign in, edit profile, adjust/set/reset points, ban, unban, grant, revoke, edit, delete; the Django admin's change form and delete view | `Accounts` |
| Material import (`services/material_import.py`, `management/commands/import_materials.py`) | Category, Material, MEDIA_ROOT, temporary directories | download, walk, upsert, clean up | `MaterialImport` |
| Question import and grading (`services/test_import.py`, `management/commands/import_tests.py`, `services/scoring.py`, `serializers/submissions.py`) | Test, Question, Choice; the statistics of a run | parse, store, re-import by title, report; validate an answer, grade | `QuestionBank`, `TestImport` |
| Leaderboard (`selectors/leaderboard.py`) | none: a query over User and Submission | three orderings, own position | `Leaderboard` |
| Material catalogue (`selectors/materials.py`, `views/materials.py`, `admin.py`) | Category, Material | subtree walk, counts, category filter; staff move, publish and delete | `Catalog` |
| Notifications (`views/notifications.py`) | `is_read` | list, mark one, mark all, count | not modelled (section 6) |
| Telegram signature, statistics, dashboard | none | verification; aggregation | not modelled (section 6) |
| Tokens, throttles, serializer layout, URLs, migrations | — | — | not modelled (section 6) |

How they meet:

- `submit_test` calls grading, ranking, streaks and achievements inside one
  transaction under `SELECT ... FOR UPDATE` of the user.
- The User row is shared by `submit_test`, which locks it, and by every writer of
  the accounts component, which do not.
- The post_save receiver of User creates a notification whenever a row is
  INSERTed, and so does unlocking an achievement.
- `import_tests` replaces the questions a request in flight is grading.
- `import_tests` locks the rows of tests that other runs of it, and the staff, update;
  of a title that is there twice it locks both.
- `import_materials` writes rows the staff edit at the same time, and the catalogue
  reads them in several queries.
- The leaderboard reads the counters that attempts and administrators write.

What is hard here:

- interleavings of requests of one user (several tabs, a double tap, a retry);
- copies of rows read before a transaction and written in it, sometimes whole;
- tests and materials that change under a request or an import;
- kills and interrupts between the steps of an import, and reruns;
- answers put together from several queries, with edits between them;
- circles of parents, which nothing keeps the staff from closing;
- row locks that requests and imports wait for;
- rounding, day boundaries and grace periods;
- counters, ranks and audit entries that must agree with what they summarise.

`PROJECT.json` lists each hazard at its line under `hazards`.

What makes each component correct:

- **Attempts**: one official attempt per user and test, within the session's
  time; sessions spent once; counters and achievements follow the submissions;
  practice moves nothing; every request is answered.
- **Gamification**: scores in 0..100, reward never exceeded, 100 only for an
  all-correct attempt, ranks monotone; a streak is the last run of days.
- **Accounts**: rank follows points; moderation stays until undone; the audit log
  says what happened; deletions are recorded and hit the row they were meant for; one
  registration of a person is never taken for another.
- **Material import**: reruns keep keys, slugs, files and publish states; nothing
  is lost without a report; what is removed of the downloads was whole.
- **Questions**: what is imported can be answered; verdicts are the author's.
- **Test import**: a stored test is one payload, whole, until staff edit it; re-imports
  update in place; reports are true; every run ends.
- **Leaderboard**: each list is totally ordered; own positions are distinct and
  within the tie of the list's; points never cost a position.
- **Catalogue**: a walk ends, with exactly the subtree; what nobody edited is
  listed; the counts are those of the lists; a list fails only over what is gone.

## 2. The modules

### Gamification
Operators only, shared by `Attempts`, `Accounts` and `Career`. Decimal numbers are
integers in hundredths (`FullScore` is 100.00); `RoundHalfUp` is the rounding of
`quantize(..., ROUND_HALF_UP)`. `ApplyOfficialResults` is the assignment block of
`_apply_official_results`, `CodesToUnlock` is `evaluate_achievements`.

### Attempts, OfficialLedger
One identity per HTTP request. A request is a program counter (`pc`), the body
(`call`) and its local variables (`local`), and takes one step per statement that
another request can observe:

| `pc` | Code |
| --- | --- |
| `starting` | `get_object()` has read the test row; `start_session` looks for a session |
| `inserting` | no session was found; the INSERT has not been committed |
| `submitting` | the test row is read; the user's row is waited for |
| `locked` | the row is locked and the questions are read |
| `timed` | `_resolve_session` is done |
| `graded` | the attempt is judged and graded; writes and COMMIT are next |

`lock` is the row lock of each user; a start takes its share of it through the
foreign key. The writes after grading are one step with the COMMIT, because no
other transaction sees them earlier and everything they depend on is locked. A
session is named by the request that created it, a submission by the request
that made it. The clock `now` counts ticks, `Second` of them to the second, so
that `int(total_seconds())` cuts off a fraction wherever `Second` is more than 1 (the
theorems hold for any; the run has one tick to the second, to see attempts that
are late); `DayLength` ticks are a day. The question set of a test has an `edition`,
counted up whenever all its questions are deleted, and a `worth`, its total points;
the answers of a request earn any number of them. `Fail` stands for answers the grader
rejects, for workers that die, and for a COMMIT that finds some of the graded questions
deleted by a form that left others. `Edit` is what staff do to the test: the form, which
writes every column and may empty and refill it (`SaveTest`), the bulk actions, the
re-import. `active` is a history variable: the days on which an official attempt of a
user was applied, which the code does not store.

`OfficialLedger` is what all of this promises: a write-once ledger that pays each
user at most once for each test, and balances nothing else moves. `Attempts`
implements it with the official submissions as the ledger (`KeepsLedger`).

### Career
One user, one step per official attempt: `Attempts` shows that they commit one at a
time. It carries the history (the active days, whether a score was perfect)
that the code does not store, so that the streak and the achievements can be
compared with it over ten days.

### Accounts
A request copies the row it is about when it is opened (`copy`), and writes it
back in a later step: named columns (`SaveColumns`, Django's
`save(update_fields=...)`), or all of them (`SaveAll`, Django's `save()`, which
INSERTs a row that is gone). Signing in reads under FOR UPDATE and so does the
scoring service, so these are one step each. `rows` is keyed by `telegram_id`,
which is unique; a row's `id` is the request that created it, so a row that was
deleted and registered again is a different one. `audit[r]` is what request `r`
appended. `Endpoints` selects the requests of an instance. The Django admin's change
form is one of them (`form`), its delete view and its "delete selected" action another
(`remove`), which append nothing to the log; a staff member is an administrator here.
`edit` carries points, is_active and is_admin for the nine fields of its
serializer; username and language_code stand for the profile that Telegram
sends. `RecordAction` records the columns of the change and leaves out label, ip
and delta.

### MaterialImport
A node of the Drive tree is a folder or a file; `rows` is the table of both, keyed
by `source_path`. A run visits the nodes in the order of `Walk`:

| `pc` | Code |
| --- | --- |
| `download` | `download_folder` is at a file of the listing |
| `load` | the next item is about to be read |
| `copy` | the row of a file is read and the file is not stored |
| `save` | the row is in hand, the INSERT or UPDATE is next |

Between any two of these steps another run, the staff or the surroundings may
change what was read. A folder is read by `LoadFolder` and written by `CreateFolder`
or `KeepFolder`, which are the two results of `get_or_create`; a file goes through
`LoadFile`, `CopyFile` if it has to, and `SaveFile`, which writes every column and
INSERTs a row that is gone. `cache` is the code's map from folders to categories,
`publish` and `dry_run` are the options of the command, which each run chooses. Any
item may raise before or after its read or its copy (`ItemFails`), the root's error
ends the command (`RootFails`), `Kill` ends a run anywhere without and `Interrupt`
with the `finally` of `handle`. `dirs` are the temporary directories with the files and
folders that are in them: a folder is made just before its first file, and a walk
visits what is there (`Visited`). During the download the command does not know yet
which files failed (`Remove`). A category is repaired when its name or its parent is not
the folder's; names are not in the rows, so that one that differs is a choice of
`KeepFolder`. gdown and the
storage are external: a download may fail for any file, and `AvailableName` is
`get_available_name`. The slug of a folder is computed with the read of its row and
not, as in `Category.save`, with its INSERT: the window in which another run may
take it is wider than in the code, never narrower.

Two history variables serve the properties. `touched` collects the rows that
somebody else moved, deleted or left without their file while the run was under
way; `restated` says that the publish state in the run's copy is not the last one
anybody set. Publishing is not an excuse for a row out of its place, so it does not
count as touching.

### TestImport
`manage.py import_tests`: a run is given a batch of payloads and imports each in a
transaction of its own. A transaction is a program counter (`lock`, `delete`,
`write`) with private effects (`gone`, `written`) that COMMIT applies at once, because
under READ COMMITTED nobody sees them earlier. `Select` takes the snapshot of
`update_or_create`'s `SELECT ... FOR UPDATE`; the run waits for the rows it found and
re-checks them when they are free (`Matching`), as the database does, so a row
inserted after the snapshot is not seen and one that was renamed drops out. It locks
them one after the other, in no order one can rely on, and keeps the locks to the end of
the transaction, those of renamed rows too (`Lock`); `lock` holds them. Two runs that
find two tests of one title may therefore wait for each other, and the database refuses
one of the two (`Deadlocked`); a run that gets both ends its payload in
MultipleObjectsReturned (`Ambiguous`). Any statement may raise (`Raise`), a process may be
killed, a file that is not UTF-8 ends the command (`Undecodable`), and staff may save the
form of a test meanwhile: another title, fewer questions, other columns (`SaveForm`). A
run inserts at most one test for each payload of its batch, so the place of the payload
serves as the primary key. `met`, `renamed` and `edited` are history variables. That
staff create or delete a test by hand, or add questions to one, is left out: a created one
is a test of a run that has ended, the deletion takes its questions along by CASCADE, and
nobody expects an edited test to be the payload of its import.

### QuestionBank
One question from the JSON file to a verdict. Wordings are abstracted to whether
they are there, but a short answer is a sequence of characters (`Chars`), because its
normalisation is what is checked. `Received` is what the serializer hands on:
CharField strips the targets of a matching (`Stripped`; a blank one is not in its
domain and refused), while the importer stores the ids as they were written. The
properties state what the author meant by a definition of its own (`Intended`),
independent of the grader's. The names that `TestImport` has too begin with `QB`: one
module, `TestImportProofs`, holds the proofs of both.

### Leaderboard
The columns the rankings read, moved by official attempts and administrators.
`ListPosition` is a user's place in one of the orderings of the list,
`rank_for_user` the position beside their own profile, which breaks ties otherwise. Its
`points` are those authentication has read, which a later query compares with the others';
`Position` is the case in which nothing was written in between. `SetPoints` and `SetTests`
stand for set, adjust, reset and edit, all of which end in some number that is not
negative.

### Catalog
The tables of categories and materials, edited by the staff in every way the Django
admin allows, a circle of parents included. `visit` is a request for the materials of
a category: the category is looked up (`Open`), the tree is read (`ReadTree`), walked
(`Walk`, one turn of the loop of `subtree_ids` each), and the materials are filtered
(`ReadMaterials`), in separate queries without a transaction around them. `listing`
is a request for all categories with their counts, in its three queries, after which the
serializer writes the `full_path` of each with a query per parent (`Climb`): a parent that
is gone by then raises and ends the request (`failed`), and `MaxPath` queries end the path
of a circle, 50 in the code. The order in which the categories are written is fixed but
arbitrary. The code's stack is a set here: which sibling is taken first is left open, and
that a category may be on the stack twice is kept by `collected`, which counts how often it
enters the list. `ListCategories` takes the walk of each category at once and by its result: it
reads nothing but the map already in hand, and `AlwaysCollectsSubtree` proves that the
result is `Below`. A created category may have the key of a deleted one, which a
database does not do; this only adds behaviours. Paging is a query per page and
search compares columns, so neither adds a state. `touched` is a history variable: what
was edited since the request began.

`MC*` modules give the constants their values where a `.cfg` cannot.

## 3. What is checked

Passing runs:

| Run | Bounds | Shows |
| --- | --- | --- |
| `attempts_race` | 1 user, 2 tests, 4 requests, 4 ticks, a day boundary, a window that closes | every order of starts and submits: `DecisionStands`, `SessionSpentOnce`, `AggregatesInSync`, `UnlocksDeserved`, `OfficialInTime`, `PracticeNeverRanks`, and the refinement of `OfficialLedger` (`KeepsLedger`) |
| `attempts_edits` | 2 requests, 2 ticks; the duration and the reward are edited, the test is unpublished, emptied, refilled and re-imported, up to 2 sets of questions deleted (170 thousand states) | the counters follow the submissions when the test changes under a request (`AggregatesInSync`), and every request is answered (`EveryRequestAnswered`) |
| `career_days` | 10 days, 11 attempts | `StreakIsRun`, `UnlocksFollowHistory`: a week, a gap, ten tests, 1000 points |
| `accounts_everyone` | 2 accounts, 3 requests, all endpoints | `RankMatchesPoints`, `ModerationHolds`, `OnlyTheChosenVanish`, `RegistrationsStayApart` |
| `materials_race` | a root, a folder, 2 files of one name; 2 runs at once or in sequence, every option, 1 kill, interrupt, edit or loss (1.3 million states) | `NothingLostSilently`, `KeysKept`, `PublishStateKept`, `OnlyCompleteDownloadsRemoved`, foreign keys |
| `questions_graded` | up to 3 choices, 2 pairs, 2 characters; 3 ids per answer | `EveryQuestionAnswerable`, `GradedAsAuthored` |
| `tests_import` | 2 runs, 5 payloads, three of one title, one of them not valid, and a file that is not UTF-8, batches of 1 or 2, 2 kills or edits (540 thousand states) | `TestsAreWhole`, `TwinsOnlyFromRaces`, `StatsTellTheTruth`, and every run ends (`EveryImportEnds`) |
| `leaderboard_order` | 3 users, points 0..1, 2 tests each, 3 seconds in all | `PlacesAreNumbered`, `RankWithinItsTie`, `AttemptNeverMovesDown` |
| `catalog_reads` | 3 categories in a chain, 1 material in the last, a request of each kind, 2 edits, paths of 2 (520 thousand states) | `CollectsSubtree`, `StandingMaterialsListed`, `CountsMatchListing`, `OnlyTheGoneAreMissed`, foreign keys, and every request is answered (`EveryRequestAnswered`) |

Why the bounds are enough to be interesting. A race here is between two
transactions over one row; four requests give two sessions, of one test or of
two, and two submissions that share them in every way. Four ticks let an attempt
be in time, late while the test is open, and in time after it has closed; the
grace period is 0 there, which changes where lateness begins and nothing else.
Three requests let a third write between the read and the write of a stale copy
whose account is meanwhile deleted and registered anew. Ten days hold a week in
a row with a gap before and after. Two files of one name make slugs collide; a
folder below the root gives a place that can be wrong; two runs with a kill, an
edit or a loss of the media at any moment are an interrupted import and its
rerun as well as two imports that race. No node of that tree is excluded: an
excluded node is passed over like one whose folder failed, at the price of twice
the states; the theorems hold with any. Two edits of a chain of three categories
close a circle, of two or of all three, or break a path and mend it elsewhere,
between any queries of a request. Two test imports with a title in common, one of
them twice in a batch, insert or update it in every order; a kill or an edit
falls anywhere, and two make twins that a later payload of a batch finds, or that two
runs lock in different orders. Three users tie in all ways a lexicographic order of
three columns can tell apart. `NoTests` in a configuration means that staff do not edit;
`MaxNow`, `MaxDay`, `MaxTests`, `MaxTime`, `MaxRuns`, `MaxEdits`, `MaxEdition`,
`MaxLength` and `MaxPoints` are the only caps on unbounded things; `MaxPath` is a limit of
the code, 50 there, and 2 in the run, so that a chain of three reaches it and a circle is
cut off. What the runs show beyond their bounds is what section 4 proves.

Deadlock is checked in every run but `questions_graded`, where an answered
question is the end. `Attempts`, `Career`, `Accounts`, `MaterialImport` and
`TestImport` have a `Finished` step for the state in which the bounds are used up and
nothing is in flight, so a request that waits for ever would be reported.

Fairness is weak and of three kinds. In `Attempts`, of each request's own next step;
in `Catalog`, of the next query or turn of a request that has begun: a worker that has
taken up a request keeps executing it. In `TestImport`, of each run's own next
step: a process that was started goes on unless it is killed, and a row lock that was
released goes to a transaction that waits for it. Nobody is assumed to send a request,
to start a run, the clock to tick, an error to occur, or staff to act. The other
modules state no fairness and no liveness.

### Where the code and its documentation disagree

Each of these runs checks one property, quoted from a comment or docstring, and
finds a counterexample.

| Run | Disagreement |
| --- | --- |
| `attempts_two_timers` | two concurrent starts create two running sessions (`services/sessions.py:23`) |
| `accounts_traced` | `apply_edits` saves every column of an old copy and takes back a ban committed meanwhile, without an entry (`services/admin.py:150`) |
| `accounts_adjust` | an adjustment computed from an old copy overwrites an award, and the audit entry is wrong (`services/admin.py:64`) |

The models show more of the kind, for which the project keeps no run, either because
the cause is one of those above or because one reading of the code shows it:

- Lateness is measured against the duration the test has at submission, not
  against the session's `expires_at` (`services/scoring.py:144`), so that
  `OfficialInTime` holds for tests whose duration nobody edits.
- The full save of `apply_edits` undoes a revoked right too, and so do those of a change
  of language and of the Django admin's form (`views/user.py:37`, `admin.py:50`); `ModerationHolds` says that
  nothing comes back but what the request has read.
- The Django admin's delete view and its "delete selected" action remove accounts without
  an entry in AdminAuditLog (`admin.py:50`, against `models/audit.py:11-13` only if the
  Django admin counts as the admin API); `OnlyTheChosenVanish` names them as its exception.
- A full `save()` of an account deleted meanwhile INSERTs it again, and the receiver
  welcomes it (`views/user.py:37`); `RegistrationsStayApart` says that it comes back as
  itself and never in the place of a newer registration.
- The same save of the whole row, on a change of language, puts back points and rank
  as authentication read them and loses an award (`views/user.py:37`);
  `RankMatchesPoints` says that the pair it puts back is at least consistent.
- The own position compares points that authentication has read with rows read later
  (`selectors/leaderboard.py:47`): a user who earns points in between is counted as ahead
  of itself. `AttemptNeverMovesDown` says that this costs one place at most.
- The own position breaks ties by fewer columns than the list
  (`selectors/leaderboard.py:48`, against line 11); `RankWithinItsTie` says how far
  the two can be apart.
- The refresh of a material puts back the publish state it read before copying
  the file (`services/material_import.py:360`, against lines 339-341);
  `PublishStateKept` says that an import that read the row afterwards does not.
- The downloaded directory is removed though items failed to import, and though the
  download was broken off by control-C or an error that is not of one file, because
  no failure is known then (`management/commands/import_materials.py:99`, against
  line 96). `OnlyCompleteDownloadsRemoved` names the second case as its exception.
- The same `--url` downloads into a new directory and resumes nothing
  (`management/commands/import_materials.py:77`, against lines 105-106).
- Two imports that both find the stored file of a material lost each store a copy, and
  only the last one is in the row (`services/material_import.py:353`).
- Two concurrent imports of a new title both insert it, and from then on every
  import of it ends in MultipleObjectsReturned, or in a deadlock of two of them
  (`services/test_import.py:186`, against line 4); `TwinsOnlyFromRaces` says that nothing
  else makes twins.
- The questions of a payload that is rolled back stay counted
  (`services/test_import.py:212`); `StatsTellTheTruth` is stated for the runs without an
  error in this part.
- A file that is not UTF-8 raises what `import_path` does not catch, so the command ends
  without a report of the files before it (`services/test_import.py:119-123`).
- A parent deleted while the paths of the categories are written ends the whole list in an
  error (`models/materials.py:83`); `OnlyTheGoneAreMissed` says that nothing else does.
- A slug of digits only is taken for a primary key and lists another category, or none
  (`views/materials.py:37`).
- The exam-style `answers` key of the importer's docstring is not read
  (`services/test_import.py:265`, against lines 54-56).
- A matching whose target ids have blanks at an end, or only blanks, is imported and
  cannot be answered, because users' targets are stripped
  (`serializers/submissions.py:34`); `EveryQuestionAnswerable` and `GradedAsAuthored`
  are stated for the other targets (`TargetsCanBeHit`).

Operators named `X_Something` next to an operator `X` are plausible bugs; the
`mutants` of `PROJECT.json` say which property notices which.

## 4. What is proved

For every value of the constants, from the named assumptions of the modules
(`*Assumption`) and nothing else:

| Module | Theorem | Says |
| --- | --- | --- |
| `GamificationProofs` | `PercentageBounds`, `PointsEarnedBounds`, `PerfectMeansEverythingCorrect`, `RankIsMonotone` | the arithmetic of scores and ranks |
| `AttemptsProofs` | `TypeCorrect` | `Spec => []TypeOK` |
| | `DecisionAlwaysStands` | an official decision is still right at COMMIT |
| | `SessionsSpentOnce` | a session has one submission iff it is completed |
| | `PracticeNeverRanksAlways` | only official submissions move progress |
| | `LedgerKept` | `Attempts` implements `OfficialLedger` |
| | `CountersInSync` | completed_tests counts the official submissions, and the rank is the one of the points |
| | `AggregatesAlwaysInSync` | and the points are the sum of what the submissions earned |
| | `StreaksAlwaysRemember` | the streak column is the last run of days with an official attempt |
| | `UnlocksAlwaysDeserved` | an achievement is held iff the official attempts deserve it, `streak_7` iff they cover a week in a row, and was announced once |
| | `OfficialAlwaysInTime` | official attempts keep window and deadline, provided nobody edits a test |
| `CareerProofs` | `TypesAlwaysHold`, `StreakAlwaysIsRun`, `UnlocksAlwaysFollowHistory` | for any number of days and tests |
| `AccountsProofs` | `TypesAlwaysHold`, `RankAlwaysMatchesPoints` | for every set of endpoints, those that save whole rows included |
| | `ModerationAlwaysHolds` | the same: bans and rights change only in the ways named |
| | `OnlyTheChosenEverVanish` | the same: a deletion hits the row it was meant for, and is recorded but for the Django admin's |
| | `RegistrationsAlwaysStayApart` | the same: a row keeps its identity, an account that appears is new or the deleted one as it was read |
| `LeaderboardProofs` | `PlacesAlwaysNumbered`, `AttemptsNeverMoveDown`, `RankAlwaysWithinItsTie` | for any finite set of users |
| `CatalogProofs` | `KeysAlwaysHold` | no edit leaves a row that points to one that is gone |
| | `AlwaysCollectsSubtree` | in any graph of categories the walk ends with the subtree, each category once |
| | `StandingMaterialsAlwaysListed` | for any number of edits between the queries |
| | `TypeAlwaysOK` | the types of tables, walks, answers and counts |
| | `CountsAlwaysMatchListing` | for any catalogue, the count is the length of the list |
| | `OnlyTheGoneAreEverMissed` | for any tree and limit of the paths |
| `TestImportProofs` | `TypesHold` | the types, and who holds which row lock |
| | `TestsAreAlwaysWhole`, `TwinsAlwaysFromRaces`, `StatsAlwaysTellTheTruth` | for any number of runs, payloads, kills and edits |
| | `QuestionTypeAlwaysOK`, `QuestionsAlwaysAnswerable`, `AlwaysGradedAsAuthored` | for questions and answers of any size |
| `MaterialImportProofs` | `TypesAlwaysHold` | the types and the foreign keys |
| | `NothingIsLostSilently` | what a run has passed is in its place, reported, or changed by others |
| | `KeysAreKept`, `PublishStateIsKept`, `RemovedDownloadsAreComplete` | for any tree and any number of concurrent runs, kills and edits |

Two of the assumptions say something about the surroundings. `AnswersAssumption`:
users can send what is right, namely any list of the choices of a question, its text and
its pairs; the serializer's fields take them all, the text because the column and the
field end at the same 255 characters. `QuestionsAssumption` and `RowAssumption` are
types: of the data an author writes, and of SQL's missing row.

The arguments:

- **Sums and counts.** The sums of the models are folds over finite sets, which the
  community modules define by a recursive function on subsets.
  `GamificationProofs` shows that its equation has exactly one solution
  (`SumEquation`, `SumUnique`, `SumExists`) and that this solution, `Total`, changes as
  it should when an element enters or leaves (`TotalAdd`, `TotalRemove`), or the set is a
  union of classes (`TotalOfClasses`). The induction over data that this needs goes through
  a set: the good subsets of a finite set, all of which are good if each is good whose
  proper subsets are (`SubsetInduction`, from the library's well-founded order of
  subsets). `CountingUp` is the same for the numbers to N.
- **Attempts.** The invariants are not inductive alone. What carries them is lock
  discipline: a request is in a transaction exactly when it holds the row of its
  user, so two requests of one user are never both past the lock, and a decision
  or a session check made under the lock cannot be overtaken by another
  submission. A session is completed only with the submission that spends it,
  and a request that has no submission yet is nobody's spender. Each of the
  three facts of an invariant (initial, step, implication) is a lemma; the step
  has one case per action.
- **AggregatesAlwaysInSync.** The points are the sum over all submissions of a user, the
  practised ones too, so the invariant adds that a request judged as practice carries no
  points (`PracticeUnpaid`). A COMMIT adds one element to the set summed over and the
  same number to the user, whose row nobody else can have written since it was locked.
- **UnlocksAlwaysDeserved.** All rules but that of the streak look at columns that only grow
  and at whether a perfect official attempt exists, so what was deserved stays deserved;
  and what a commit adds was not unlocked before, so its announcement is the first. For
  the streak, `Remembered` ties the column to the days of the history (`IsRun`): under the
  row lock it is computed from the last value anybody wrote. A week in a row first exists
  in the commit in which the run of the last day reaches seven, and then for ever.
- **OfficialAlwaysInTime.** With the tests fixed, the row a request has fetched is the row of
  the table, a session keeps the window and the deadline it was created with, and an
  attempt judged official was within both when it was judged (`InTime`).
- **LedgerKept.** A COMMIT of an official attempt maps to `Pay`: by
  `DecisionStands` no row of that user and test exists. Every other step leaves the
  official rows and the points alone, which is a stutter.
- **Accounts.** The invariant adds to `RankMatchesPoints` that every copy in
  flight satisfies it too; then whoever writes a whole copy writes a matching pair,
  and whoever names columns names both or neither. For `ModerationAlwaysHolds` each
  writer is asked what it may do to is_active and is_admin (`ChangeAccounted`): one that
  names columns changes only those, and those that name is_active or is_admin record it; one
  that saves a whole row puts back its copy, but for the edits that it records or the form
  that says so. The theorems on deletion and registration rest on what a step may do to the
  set of accounts: only a first login and a whole row saved late add one, only a deletion
  removes one. A request past `record` has its entry in the log until it is carried out,
  because anonymising an entry keeps its action and its target (`Announced`); an id that is
  in a row, a copy or a call belongs to a request that has begun (`Registered`), so that of
  a new registration is new.
- **Career.** `StreakIsRun` together with the types is inductive; achievements
  are monotone, and `UnlocksFollowHistory` follows because the run of the last active day
  reaches seven in the very step in which a week in a row first exists.
- **Leaderboard.** A strict total order on a finite set numbers its members 1 to n
  (`PositionsOfAStrictOrder` in `GamificationProofs`, which the proof about ordering
  questions uses too); both the sort keys with the id last and the relation of
  `rank_for_user` are such orders. An attempt only shrinks the set of those ahead of its
  user and only grows that of the others.
  `RankAlwaysWithinItsTie` bounds both positions by the number of users with
  more points and with at least as many.
- **Catalog.** The invariant of the walk: what is in `seen` was collected once, the rest
  never; the root is on the stack or seen; the children of what is seen are on the
  stack or seen; and all of it lies in `Below`. With an empty stack `seen` is then
  closed under `children` and inside the least closed set, so it is that set. For
  `StandingMaterialsAlwaysListed` the invariant compares the map that was read with the
  tables: for a category whose path no edit has touched, the path upwards is the same in
  both, and being below the root in the one is being on the path in the other.
- **OnlyTheGoneAreEverMissed.** A category on the way up is stored or was edited since the
  request began: the parents that were read were stored then, and only an edit removes one
  (`PathsHold`).
- **CountsAlwaysMatchListing.** What the list of categories has read is what the tables
  hold as long as no edit has touched anything (`ListHolds`), and so is the answer of a
  visitor (`AnswerCurrent`). Then both are compared in one state: the list adds up the
  materials of each category below the root, the visitor counts those whose category is
  below it, and a set of materials is the disjoint union of its classes by category.
- **TestImport.** Locks belong to transactions that update, so the questions such a
  transaction read, and will delete, are still those of the row at its COMMIT: that
  makes the row whole until staff save it. A row is of a title because its run found no row of that title
  in a snapshot taken after it started; whoever inserted another one since was
  under way together with it, or had that other one renamed.
- **StatsAlwaysTellTheTruth.** `ReportHolds` follows the questions of the payload being
  written apart from those of the payloads behind, because the code counts them before the
  COMMIT and does not take them back; the claim about the questions therefore ends with the
  first error, as it does in the code.
- **QuestionBank.** The state adds little (`QBInv`: the row is what was parsed, the verdict
  what the grader says of the answer received); the work is in the functions. A text
  normalises to its solid characters in their order, by `CountingUp` along the loop, so two
  texts have one normal form exactly if their solid characters agree place by place
  (`SameNormalForm`). Sorting by `order` and id puts each choice at the number of those
  before it, which numbers them without a gap, so exactly one sequence ascends
  (`CorrectSequencePlaces`, `OnlyOneAscends`). `SomeAnswerIsRight` gives the answer for each
  type of question.
- **MaterialImport.** The invariant (`IInv`) says what each run may rely on. A key that
  anybody remembers, in the table, in a copy or in a cache, belongs to one node and
  is below `serial` (`KeysOwned`), and all who remember a row by its key remember the
  same slug (`SlugsAgree`), so that not even a row that is deleted and INSERTed again
  comes back as another one. A directory in use belongs to one run (`DirHolds`); the
  files a download has passed are in its directory or among its failures
  (`DownloadHolds`). A copy has the publish state of the row unless somebody restated it
  (`PublishHolds`), and its file is stored unless the node was touched (`FileHolds`). Every
  item passed is in place or excused (`PlaceHolds`): an item out of place is below a
  touched or failed one, because `Path` is closed upwards and a deletion touches all it
  cascades to. The three action properties follow from a step lemma per action.

## 5. What is only model-checked

Liveness under fairness is beyond the prover: `EveryRequestAnswered` of `Attempts` and
of `Catalog`, and `EveryImportEnds`. With them stays that no reachable state is a
deadlock, which is a statement about ENABLED. Every invariant and every action property
of a passing run is stated by a theorem of section 4. The three runs that find a
counterexample have no theorem, of course; the other disagreements of section 3 appear
in the theorems as the exceptions they name.

## 6. What is not modelled

- Cryptography of Telegram's initData, JWT and DRF throttles: libraries and
  primitives. What follows a verified payload is `Accounts!SignIn`. The local login
  of DEBUG mode and the `createsuperuser` command are left out.
- Deletion of tests, sessions, submissions and achievements in the Django admin: it
  leaves the counters of the users as they are, so the aggregates say what the submissions
  said before. The lock order of a deletion against a submission: PostgreSQL aborts one
  of two transactions in a cycle, which the models allow at any step.
- Questions that staff add to a test, or edit and delete one at a time: `Attempts` has
  forms that save any total of points and those that take every question away; a request
  that graded a question deleted by another form is a `Fail`.
- Wording: titles, subjects, file types, reading times, messages, explanations.
- Notifications: marking one or all as read is a single UPDATE that can only set a
  boolean, and the count a single query; no order of them can go wrong. Their creation
  is `announced` in `Attempts` and `Welcome` in `Accounts`.
- Statistics and the dashboard: aggregations of one query each, for display only. The
  first day of the time series is cut because it begins at a time of day
  (`selectors/admin.py:25`): a bucket of a chart.
- Two Drive folders whose relative paths are equal share rows
  (`services/material_import.py:257`): a run is of one folder in `MaterialImport`, and
  the command has no way to tell two apart either.
- Users who move between the queries of two pages of the leaderboard: each query of
  `Leaderboard` is one moment.
- Serializer layout, search, pagination, URL tables, migrations.

## 7. Open ends

In order of worth: the deletion of tests and submissions in the Django admin, with its
order of locks; two queries of a leaderboard with an attempt in between; a second Drive
folder in `MaterialImport`.

## 8. Running

    tlc -config attempts_race.cfg MCAttempts.tla
    tlapm AttemptsProofs.tla

`PROJECT.json` names the module of every configuration.
