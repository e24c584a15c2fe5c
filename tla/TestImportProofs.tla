--------------------------- MODULE TestImportProofs ---------------------------
(* What the importer of tests promises for every set of runs, titles and      *)
(* payloads (TestImport), and what it and the grader promise of one question  *)
(* for every question and every answer (QuestionBank, at the end).  The two   *)
(* specifications share no state.                                             *)
EXTENDS TestImport, QuestionBank, GamificationProofs

(* The inductive invariant of TestImport. *)

PlaceHolds(i) == Busy(i) => run[i].at <= Len(run[i].batch)

(* What a transaction knows of the row it writes. *)
TransactionHolds(i) ==
    LET state == run[i]
    IN  /\ state.pc = "delete" => ~ state.created /\ state.test \in Stored
        /\ state.pc = "write" /\ state.created => state.test = Here(i)
        /\ state.pc = "write" /\ ~ state.created =>
             state.test \in Stored /\ state.gone = tests[state.test].questions

(* A place is passed before its test is stored, so a primary key is fresh. *)
Behind == \A key \in Stored : key[2] < run[key[1]].at

Rivals(i, j) == i # j /\ i \in run[j].met /\ j \in run[i].met

MetHolds == \A i, j \in Runs : i # j /\ UnderWay(i) /\ UnderWay(j) => Rivals(i, j)

(* A test of the title that the snapshot of a run did not have comes from a   *)
(* run it met.                                                                *)
Known(i, key) == run[i].pc = "lock" /\ key \in run[i].found

RivalsHold(i) ==
    run[i].pc = "lock" \/ (run[i].pc = "write" /\ run[i].created) =>
        \A key \in Named(TitleOf[Payload(i)]) :
            tests[key].renamed \/ Known(i, key) \/ Rivals(i, key[1])

IInv ==
    /\ TypeOK /\ Behind /\ MetHolds
    /\ TestsAreWhole /\ TwinsOnlyFromRaces
    /\ \A i \in Runs : PlaceHolds(i) /\ TransactionHolds(i) /\ RivalsHold(i)
-----------------------------------------------------------------------------
(* Types. *)

LEMMA BatchesTyped ==
    ASSUME NEW batch \in Batches
    PROVE  /\ Len(batch) \in 1 .. MaxLength
           /\ \A n \in 1 .. Len(batch) : batch[n] \in Payloads
<1>1. batch \in Seq(Payloads)
  BY TestImportAssumption
<1> QED
  BY <1>1, TestImportAssumption

LEMMA PayloadTyped ==
    ASSUME NEW i \in Runs, run[i] \in Run, run[i].at <= Len(run[i].batch)
    PROVE  /\ Here(i) \in Keys
           /\ run[i].at \in 1 .. MaxLength
           /\ Payload(i) \in Payloads
           /\ Size[Payload(i)] \in Nat
           /\ TitleOf[Payload(i)] \in Titles
<1>1. run[i].batch \in Batches /\ run[i].at \in 1 .. MaxLength + 1
  BY DEF Run
<1>2. /\ Len(run[i].batch) \in 1 .. MaxLength
      /\ \A n \in 1 .. Len(run[i].batch) : run[i].batch[n] \in Payloads
  BY <1>1, BatchesTyped
<1>3. MaxLength \in Nat
  BY TestImportAssumption
<1>4. run[i].at \in 1 .. MaxLength /\ run[i].at \in 1 .. Len(run[i].batch)
  BY <1>1, <1>2, <1>3
<1>5. Payload(i) \in Payloads
  BY <1>2, <1>4 DEF Payload
<1> QED
  BY <1>4, <1>5, TestImportAssumption DEF Here, Keys

LEMMA OnwardTyped ==
    ASSUME NEW state \in Run, state.at \in 1 .. MaxLength
    PROVE  /\ Onward(state) \in Run
           /\ Onward(state).pc = "next"
           /\ Onward(state).batch = state.batch
           /\ Onward(state).at = state.at + 1
           /\ Onward(state).met = state.met
           /\ Onward(state).stats \in Stats
<1>1. state.at + 1 \in 1 .. MaxLength + 1
  BY TestImportAssumption
<1> QED
  BY <1>1 DEF Onward, Run

LEMMA StatsTyped ==
    ASSUME NEW state \in Run, NEW stats \in Stats
    PROVE  [state EXCEPT !.stats = stats] \in Run
  BY DEF Run

(* A step of one run that leaves the tables alone keeps the invariant, if the *)
(* run itself does.                                                           *)
LEMMA AloneKeeps ==
    ASSUME IInv, TypeOK', NEW i \in Runs,
           tests' = tests,
           \A j \in Runs \ {i} : run'[j] = run[j],
           run'[i].batch = run[i].batch, run'[i].at >= run[i].at,
           run'[i].met = run[i].met, UnderWay(i)' => UnderWay(i),
           PlaceHolds(i)', TransactionHolds(i)', RivalsHold(i)'
    PROVE  IInv'
<1>1. \A j \in Runs : /\ run'[j].batch = run[j].batch /\ run'[j].met = run[j].met
                      /\ run[j].at \in Nat /\ run'[j].at \in Nat
                      /\ run'[j].at >= run[j].at
  <2>1. \A j \in Runs : run[j].at \in Nat /\ run'[j].at \in Nat
    <3>1. run \in [Runs -> Run] /\ run' \in [Runs -> Run]
      BY DEF IInv, TypeOK
    <3>2. \A state \in Run : state.at \in Nat
      BY TestImportAssumption DEF Run
    <3> QED
      BY <3>1, <3>2
  <2> QED
    BY <2>1
<1>2. Stored' = Stored /\ Stored \subseteq Keys
  BY DEF Stored
<1>3. Behind'
  <2>1. ASSUME NEW key \in Stored PROVE key[2] < run'[key[1]].at
    <3>1. key[1] \in Runs /\ key[2] \in Nat
      BY <1>2 DEF Keys
    <3>2. key[2] < run[key[1]].at
      BY DEF IInv, Behind
    <3> QED
      BY <3>1, <3>2, <1>1
  <2> QED
    BY <2>1, <1>2 DEF Behind
<1>4. MetHolds'
  <2>1. \A j \in Runs : UnderWay(j)' => UnderWay(j)
    BY DEF UnderWay
  <2> QED
    BY <2>1, <1>1 DEF MetHolds, Rivals, IInv
<1>5. TestsAreWhole'
  <2>1. ASSUME NEW key \in Stored
        PROVE  QuestionsOf(tests[key].of)' = QuestionsOf(tests[key].of)
    <3>1. tests[key].of[1] \in Runs
      BY <1>2 DEF IInv, TypeOK, TestRow, Stored, Keys
    <3> QED
      BY <3>1, <1>1 DEF QuestionsOf
  <2> QED
    BY <2>1, <1>2 DEF TestsAreWhole, IInv
<1>6. TwinsOnlyFromRaces'
  <2>1. \A key \in Stored : key[1] \in Runs
    BY <1>2 DEF Keys
  <2> QED
    BY <2>1, <1>1, <1>2 DEF TwinsOnlyFromRaces, IInv
<1>7. ASSUME NEW j \in Runs
      PROVE  (PlaceHolds(j) /\ TransactionHolds(j) /\ RivalsHold(j))'
  <2>1. CASE j = i
    BY <2>1
  <2>2. CASE j # i
    <3>1. run'[j] = run[j]
      BY <2>2
    <3>2. PlaceHolds(j)'
      BY <3>1 DEF PlaceHolds, Busy, IInv
    <3>3. TransactionHolds(j)'
      BY <3>1, <1>2 DEF TransactionHolds, Here, IInv
    <3>4. RivalsHold(j)'
      <4>1. \A key \in Stored : key[1] \in Runs
        BY <1>2 DEF Keys
      <4>2. Named(TitleOf[Payload(j)])' = Named(TitleOf[Payload(j)])
        BY <3>1, <1>2 DEF Named, Payload
      <4>3. Named(TitleOf[Payload(j)]) \subseteq Stored
        BY DEF Named
      <4>4. RivalsHold(j)
        BY DEF IInv
      <4> QED
        BY <3>1, <4>1, <4>2, <4>3, <4>4, <1>1 DEF RivalsHold, Known, Rivals
    <3> QED
      BY <3>2, <3>3, <3>4
  <2> QED
    BY <2>1, <2>2
<1> QED
  BY <1>3, <1>4, <1>5, <1>6, <1>7 DEF IInv

(* Neither the tables nor a run has changed. *)
LEMMA SameTables ==
    ASSUME IInv, TypeOK', UNCHANGED <<tests, run>>
    PROVE  IInv'
<1>1. Stored' = Stored
  BY DEF Stored
<1>2. (Behind /\ MetHolds /\ TestsAreWhole /\ TwinsOnlyFromRaces)'
  BY <1>1 DEF IInv, Behind, MetHolds, TestsAreWhole, TwinsOnlyFromRaces, UnderWay,
              Rivals, QuestionsOf, Payload
<1>3. \A i \in Runs : (PlaceHolds(i) /\ TransactionHolds(i))'
  BY <1>1 DEF IInv, PlaceHolds, TransactionHolds, Busy, Here
<1>4. \A i \in Runs : RivalsHold(i)'
  BY <1>1 DEF IInv, RivalsHold, Named, Known, Rivals, Payload
<1> QED
  BY <1>2, <1>3, <1>4 DEF IInv

LEMMA OnwardWithStats ==
    ASSUME NEW state \in Run, state.at \in 1 .. MaxLength, NEW stats \in Stats
    PROVE  LET next == [Onward(state) EXCEPT !.stats = stats]
           IN  /\ next \in Run /\ next.pc = "next"
               /\ next.batch = state.batch /\ next.met = state.met
               /\ next.at = state.at + 1 /\ next.at >= state.at
<1> DEFINE next == Onward(state)
<1>1. /\ next \in Run /\ next.pc = "next" /\ next.at = state.at + 1
      /\ next.batch = state.batch /\ next.met = state.met
  BY OnwardTyped
<1>2. next.at >= state.at
  BY <1>1 DEF Run
<1> HIDE DEF next
<1>3. [next EXCEPT !.stats = stats] \in Run
  BY <1>1, StatsTyped
<1>4. /\ [next EXCEPT !.stats = stats].pc = next.pc
      /\ [next EXCEPT !.stats = stats].batch = next.batch
      /\ [next EXCEPT !.stats = stats].met = next.met
      /\ [next EXCEPT !.stats = stats].at = next.at
  BY <1>1 DEF Run
<1> QED
  BY <1>1, <1>2, <1>3, <1>4 DEF next

LEMMA BecomeKeepsTypes ==
    ASSUME TypeOK, NEW i \in Runs, NEW state \in Run, Become(i, state),
           tests' \in [Keys -> TestRow \cup {NoRow}],
           lock' \in [Keys -> Runs \cup {Free}],
           edits' \in 0 .. MaxEdits,
           \A key \in Keys : lock'[key] = i =>
               state.pc \in {"lock", "delete", "write"} /\ key \in state.found,
           state.pc \in {"delete", "write"} /\ ~ state.created => lock'[state.test] = i,
           \A key \in Keys, j \in Runs \ {i} : lock'[key] = j <=> lock[key] = j
    PROVE  /\ TypeOK'
           /\ run'[i] = state
           /\ \A j \in Runs \ {i} : run'[j] = run[j]
<1>1. run \in [Runs -> Run]
  BY DEF TypeOK
<1>2. /\ run' \in [Runs -> Run] /\ run'[i] = state
      /\ \A j \in Runs \ {i} : run'[j] = run[j]
  BY <1>1 DEF Become
<1>3. ASSUME NEW key \in Keys, NEW j \in Runs, lock'[key] = j
      PROVE  Busy(j)' /\ key \in run'[j].found
  <2>1. CASE j = i
    BY <1>2, <1>3, <2>1 DEF Busy
  <2>2. CASE j # i
    <3>1. lock[key] = j /\ run'[j] = run[j]
      BY <1>2, <1>3, <2>2
    <3> QED
      BY <3>1 DEF Busy, TypeOK
  <2> QED
    BY <2>1, <2>2
<1>4. ASSUME NEW j \in Runs, InTransaction(j)', ~ run'[j].created
      PROVE  lock'[run'[j].test] = j
  <2>1. CASE j = i
    BY <1>2, <1>4, <2>1 DEF InTransaction
  <2>2. CASE j # i
    <3>1. run'[j] = run[j] /\ run[j] \in Run
      BY <1>1, <1>2, <2>2
    <3>2. lock[run[j].test] = j /\ run[j].test \in Keys
      BY <1>4, <3>1 DEF InTransaction, TypeOK, Run
    <3> QED
      BY <2>2, <3>1, <3>2
  <2> QED
    BY <2>1, <2>2
<1> QED
  BY <1>2, <1>3, <1>4 DEF TypeOK

LEMMA ReleasedTyped ==
    ASSUME TypeOK, NEW i \in Runs
    PROVE  /\ Released(i) \in [Keys -> Runs \cup {Free}]
           /\ \A key \in Keys : Released(i)[key] # i
           /\ \A key \in Keys, j \in Runs \ {i} : Released(i)[key] = j <=> lock[key] = j
  BY TestImportAssumption DEF TypeOK, Released

(* A step that leaves the lock and the tables alone, from outside a           *)
(* transaction to the start of one at most.                                   *)
LEMMA UnlockedStepKeepsTypes ==
    ASSUME TypeOK, NEW i \in Runs, NEW state \in Run, Become(i, state),
           UNCHANGED <<tests, lock, edits>>,
           ~ Busy(i), state.pc \notin {"delete", "write"}
    PROVE  /\ TypeOK'
           /\ run'[i] = state
           /\ \A j \in Runs \ {i} : run'[j] = run[j]
<1>1. \A key \in Keys : lock[key] # i
  BY DEF TypeOK
<1> QED
  BY <1>1, BecomeKeepsTypes DEF TypeOK
-----------------------------------------------------------------------------
(* One lemma for each action that leaves the tables alone. *)

(* A run that goes on with the next payload, or stops, owes nothing. *)
LEMMA IdleHolds ==
    ASSUME NEW i \in Runs, run'[i].pc \in {"next", "done", "killed"}
    PROVE  (PlaceHolds(i) /\ TransactionHolds(i) /\ RivalsHold(i))'
  BY DEF PlaceHolds, Busy, TransactionHolds, RivalsHold

LEMMA ProcessingTyped ==
    ASSUME TypeOK, NEW i \in Runs, Processing(i)
    PROVE  /\ run[i] \in Run /\ run[i].at \in 1 .. MaxLength
           /\ run[i].at <= Len(run[i].batch)
           /\ Here(i) \in Keys
           /\ Size[Payload(i)] \in Nat /\ TitleOf[Payload(i)] \in Titles
           /\ ~ Busy(i)
<1>1. run[i] \in Run /\ run[i].at <= Len(run[i].batch)
  BY DEF TypeOK, Processing
<1> QED
  BY <1>1, PayloadTyped DEF Processing, Busy

(* A run goes on with the next payload and a new report. *)
LEMMA GoingOnKeeps ==
    ASSUME IInv, NEW i \in Runs, NEW stats \in Stats,
           Processing(i), Become(i, [Onward(run[i]) EXCEPT !.stats = stats]),
           UNCHANGED <<tests, lock, edits>>
    PROVE  IInv'
<1> DEFINE state == [Onward(run[i]) EXCEPT !.stats = stats]
<1>1. TypeOK /\ UnderWay(i)
  BY DEF IInv, Processing, UnderWay
<1>2. run[i] \in Run /\ run[i].at \in 1 .. MaxLength /\ ~ Busy(i)
  BY <1>1, ProcessingTyped
<1>3. /\ state \in Run /\ state.pc = "next" /\ state.at >= run[i].at
      /\ state.batch = run[i].batch /\ state.met = run[i].met
  BY <1>2, OnwardWithStats
<1> HIDE DEF state
<1>4. TypeOK' /\ run'[i] = state /\ \A j \in Runs \ {i} : run'[j] = run[j]
  BY <1>1, <1>2, <1>3, UnlockedStepKeepsTypes DEF state
<1>5. (PlaceHolds(i) /\ TransactionHolds(i) /\ RivalsHold(i))'
  BY <1>3, <1>4, IdleHolds
<1> QED
  BY <1>1, <1>3, <1>4, <1>5, AloneKeeps

LEMMA RejectKeeps ==
    ASSUME IInv, NEW i \in Runs, Reject(i)
    PROVE  IInv'
<1> DEFINE next == Onward(run[i])
           stats == [next.stats EXCEPT !.errors = @ + 1]
<1>1. TypeOK /\ Processing(i)
  BY DEF IInv, Reject
<1>2. run[i] \in Run /\ run[i].at \in 1 .. MaxLength
  BY <1>1, ProcessingTyped
<1>3. next.stats \in Stats
  BY <1>2, OnwardTyped
<1>4. stats \in Stats
  BY <1>3 DEF Stats
<1>5. Become(i, [next EXCEPT !.stats = stats]) /\ UNCHANGED <<tests, lock, edits>>
  BY DEF Reject
<1> QED
  BY <1>1, <1>4, <1>5, GoingOnKeeps

LEMMA DryRunKeeps ==
    ASSUME IInv, NEW i \in Runs, DryRun(i)
    PROVE  IInv'
<1> DEFINE known == Named(TitleOf[Payload(i)]) # {}
           next == Onward(run[i])
           updated == IF known THEN next.stats.updated + 1 ELSE next.stats.updated
           created == IF known THEN next.stats.created ELSE next.stats.created + 1
           questions == next.stats.questions + Size[Payload(i)]
           stats == [next.stats EXCEPT !.updated = updated, !.created = created,
                                       !.questions = questions]
<1>1. TypeOK /\ Processing(i)
  BY DEF IInv, DryRun
<1>2. /\ run[i] \in Run /\ run[i].at \in 1 .. MaxLength
      /\ Size[Payload(i)] \in Nat
  BY <1>1, ProcessingTyped
<1>3. next.stats \in Stats
  BY <1>2, OnwardTyped
<1>4. stats \in Stats
  <2>1. updated \in Nat /\ created \in Nat /\ questions \in Nat
    BY <1>2, <1>3 DEF Stats
  <2> HIDE DEF updated, created, questions, next
  <2> QED
    BY <2>1, <1>3 DEF Stats
<1>5. Become(i, [next EXCEPT !.stats = stats]) /\ UNCHANGED <<tests, lock, edits>>
  BY DEF DryRun
<1> QED
  BY <1>1, <1>4, <1>5, GoingOnKeeps

LEMMA EndKeeps ==
    ASSUME IInv, NEW i \in Runs, NEW last \in {"done", "killed"}, run[i].pc = "next",
           Become(i, [run[i] EXCEPT !.pc = last]), UNCHANGED <<tests, lock, edits>>
    PROVE  IInv'
<1> DEFINE state == [run[i] EXCEPT !.pc = last]
<1>1. TypeOK /\ UnderWay(i) /\ ~ Busy(i) /\ run[i] \in Run
  BY DEF IInv, UnderWay, Busy, TypeOK
<1>2. /\ state \in Run /\ state.pc = last /\ state.at >= run[i].at
      /\ state.batch = run[i].batch /\ state.met = run[i].met
  BY <1>1 DEF Run
<1> HIDE DEF state
<1>3. TypeOK' /\ run'[i] = state /\ \A j \in Runs \ {i} : run'[j] = run[j]
  BY <1>1, <1>2, UnlockedStepKeepsTypes DEF state
<1>4. (PlaceHolds(i) /\ TransactionHolds(i) /\ RivalsHold(i))'
  BY <1>2, <1>3, IdleHolds
<1> QED
  BY <1>1, <1>2, <1>3, <1>4, AloneKeeps

(* The snapshot: every test of the title is known. *)
LEMMA SelectKeeps ==
    ASSUME IInv, NEW i \in Runs, Select(i)
    PROVE  IInv'
<1> DEFINE found == Named(TitleOf[Payload(i)])
           state == [run[i] EXCEPT !.pc = "lock", !.found = found]
<1>1. TypeOK /\ UnderWay(i) /\ ~ Busy(i) /\ run[i] \in Run
  BY DEF IInv, Select, Processing, UnderWay, Busy, TypeOK
<1>2. /\ state \in Run /\ state.pc = "lock" /\ state.at >= run[i].at
      /\ state.batch = run[i].batch /\ state.met = run[i].met
      /\ state.at = run[i].at /\ state.found = found
  <2>1. found \in SUBSET Keys
    BY DEF Named, Stored
  <2>2. run[i].at >= run[i].at
    BY <1>1 DEF Run
  <2> HIDE DEF found
  <2>3. state \in Run
    BY <1>1, <2>1 DEF Run
  <2> QED
    BY <1>1, <2>2, <2>3 DEF Run
<1> HIDE DEF state, found
<1>3. TypeOK' /\ run'[i] = state /\ \A j \in Runs \ {i} : run'[j] = run[j]
  BY <1>1, <1>2, UnlockedStepKeepsTypes DEF Select, state, found
<1>4. PlaceHolds(i)' /\ TransactionHolds(i)'
  BY <1>2, <1>3 DEF PlaceHolds, TransactionHolds, Select, Processing
<1>5. RivalsHold(i)'
  BY <1>2, <1>3 DEF RivalsHold, Known, Named, Stored, Payload, Select, found
<1> QED
  BY <1>1, <1>2, <1>3, <1>4, <1>5, AloneKeeps DEF Select

(* The rows that are locked are among those that were found. *)
LEMMA LockKeeps ==
    ASSUME IInv, NEW i \in Runs, Lock(i)
    PROVE  IInv'
<1>1. PICK key \in run[i].found :
          lock[key] = Free /\ lock' = [lock EXCEPT ![key] = i]
  BY DEF Lock
<1>2. TypeOK /\ run[i] \in Run /\ run[i].pc = "lock" /\ UNCHANGED <<tests, run, edits>>
  BY DEF IInv, Lock, TypeOK
<1>3. key \in Keys
  BY <1>2 DEF Run
<1>4. /\ lock' \in [Keys -> Runs \cup {Free}]
      /\ lock'[key] = i /\ \A k \in Keys \ {key} : lock'[k] = lock[k]
  BY <1>1, <1>2, <1>3 DEF TypeOK
<1>5. ASSUME NEW k \in Keys, NEW j \in Runs, lock'[k] = j
      PROVE  Busy(j)' /\ k \in run'[j].found
  <2>1. CASE k = key
    BY <1>1, <1>2, <1>4, <1>5, <2>1 DEF Busy
  <2>2. CASE k # key
    BY <1>2, <1>4, <1>5, <2>2 DEF Busy, TypeOK
  <2> QED
    BY <2>1, <2>2
<1>6. ASSUME NEW j \in Runs, InTransaction(j), ~ run[j].created
      PROVE  lock'[run[j].test] = j
  <2>1. lock[run[j].test] = j /\ run[j].test \in Keys
    BY <1>2, <1>6 DEF TypeOK, Run
  <2>2. run[j].test # key
    BY <1>1, <2>1, TestImportAssumption
  <2> QED
    BY <1>4, <2>1, <2>2
<1>7. TypeOK'
  BY <1>2, <1>4, <1>5, <1>6 DEF TypeOK, InTransaction
<1> QED
  BY <1>2, <1>7, SameTables

(* Nothing of the title is left of what the snapshot had. *)
LEMMA InsertKeeps ==
    ASSUME IInv, NEW i \in Runs, Insert(i)
    PROVE  IInv'
<1> DEFINE state == [run[i] EXCEPT !.pc = "write", !.created = TRUE, !.test = Here(i)]
<1>1. /\ TypeOK /\ UnderWay(i) /\ run[i] \in Run
      /\ run[i].at <= Len(run[i].batch) /\ run[i].pc = "lock"
  BY DEF IInv, Insert, PlaceHolds, Busy, UnderWay, TypeOK
<1>2. Here(i) \in Keys
  BY <1>1, PayloadTyped
<1>3. /\ state \in Run /\ state.pc = "write" /\ state.at >= run[i].at
      /\ state.batch = run[i].batch /\ state.met = run[i].met
      /\ state.at = run[i].at /\ state.created /\ state.test = Here(i)
      /\ state.found = run[i].found
  <2> DEFINE here == Here(i)
  <2>1. run[i].at >= run[i].at
    BY <1>1 DEF Run
  <2> HIDE DEF here
  <2>2. [run[i] EXCEPT !.pc = "write", !.created = TRUE, !.test = here] \in Run
    BY <1>1, <1>2 DEF Run, here
  <2>3. /\ state.pc = "write" /\ state.batch = run[i].batch /\ state.met = run[i].met
        /\ state.at = run[i].at /\ state.created = TRUE /\ state.test = Here(i)
        /\ state.found = run[i].found
    BY <1>1 DEF Run
  <2> QED
    BY <2>1, <2>2, <2>3 DEF here
<1> HIDE DEF state
<1>4. TypeOK' /\ run'[i] = state /\ \A j \in Runs \ {i} : run'[j] = run[j]
  <2>1. \A key \in Keys : lock[key] = i => key \in state.found
    BY <1>1, <1>3 DEF TypeOK
  <2>2. Become(i, state) /\ UNCHANGED <<tests, lock, edits>>
    BY DEF Insert, state
  <2> QED
    BY <1>1, <1>3, <2>1, <2>2, BecomeKeepsTypes DEF TypeOK
<1>5. PlaceHolds(i)' /\ TransactionHolds(i)'
  BY <1>1, <1>3, <1>4 DEF PlaceHolds, TransactionHolds, Here
<1>6. RivalsHold(i)'
  <2>1. Payload(i)' = Payload(i) /\ Named(TitleOf[Payload(i)])' = Named(TitleOf[Payload(i)])
    BY <1>3, <1>4 DEF Payload, Named, Stored, Insert
  <2>2. ASSUME NEW key \in Named(TitleOf[Payload(i)]), ~ tests[key].renamed
        PROVE  Rivals(i, key[1])'
    <3>1. key \notin run[i].found
      BY DEF Insert, Matching
    <3>2. Rivals(i, key[1]) /\ key[1] \in Runs
      BY <1>1, <2>2, <3>1 DEF IInv, RivalsHold, Known, Named, Stored, Keys
    <3> QED
      BY <3>2, <1>3, <1>4 DEF Rivals
  <2> QED
    BY <2>1, <2>2 DEF RivalsHold, Insert
<1> QED
  BY <1>1, <1>3, <1>4, <1>5, <1>6, AloneKeeps DEF Insert

(* The run has the lock of the one row it matched. *)
LEMMA UpdateKeeps ==
    ASSUME IInv, NEW i \in Runs, Update(i)
    PROVE  IInv'
<1>1. PICK key \in Matching(i) :
          Become(i, [run[i] EXCEPT !.pc = "delete", !.created = FALSE, !.test = key])
  BY DEF Update
<1> DEFINE state == [run[i] EXCEPT !.pc = "delete", !.created = FALSE, !.test = key]
<1>2. /\ TypeOK /\ UnderWay(i) /\ run[i] \in Run
      /\ run[i].at <= Len(run[i].batch) /\ run[i].pc = "lock"
      /\ UNCHANGED <<tests, lock, edits>>
  BY DEF IInv, Update, PlaceHolds, Busy, UnderWay, TypeOK
<1>3. key \in Stored /\ key \in Keys /\ key \in run[i].found
  BY DEF Matching, Named, Stored
<1>4. lock[key] = i
  BY <1>3 DEF Update, Waits
<1>5. /\ state \in Run /\ state.pc = "delete" /\ state.at >= run[i].at
      /\ state.batch = run[i].batch /\ state.met = run[i].met
      /\ state.at = run[i].at /\ ~ state.created /\ state.test = key
      /\ state.found = run[i].found
  <2>1. run[i].at >= run[i].at
    BY <1>2 DEF Run
  <2>2. state \in Run
    BY <1>2, <1>3 DEF Run
  <2> QED
    BY <1>2, <2>1, <2>2 DEF Run
<1> HIDE DEF state
<1>6. TypeOK' /\ run'[i] = state /\ \A j \in Runs \ {i} : run'[j] = run[j]
  <2>1. \A k \in Keys : lock[k] = i => k \in state.found
    BY <1>2, <1>5 DEF TypeOK
  <2>2. Become(i, state)
    BY <1>1 DEF state
  <2> QED
    BY <1>2, <1>4, <1>5, <2>1, <2>2, BecomeKeepsTypes DEF TypeOK
<1>7. (PlaceHolds(i) /\ TransactionHolds(i) /\ RivalsHold(i))'
  BY <1>2, <1>3, <1>5, <1>6 DEF PlaceHolds, TransactionHolds, RivalsHold, Stored
<1> QED
  BY <1>2, <1>5, <1>6, <1>7, AloneKeeps

LEMMA DeleteQuestionsKeeps ==
    ASSUME IInv, NEW i \in Runs, DeleteQuestions(i)
    PROVE  IInv'
<1> DEFINE gone == tests[run[i].test].questions
           state == [run[i] EXCEPT !.pc = "write", !.gone = gone]
<1>1. /\ TypeOK /\ UnderWay(i) /\ InTransaction(i) /\ run[i] \in Run
      /\ run[i].at <= Len(run[i].batch) /\ run[i].pc = "delete"
      /\ ~ run[i].created /\ run[i].test \in Stored
      /\ UNCHANGED <<tests, lock, edits>>
  BY DEF IInv, DeleteQuestions, PlaceHolds, TransactionHolds, Busy, UnderWay,
         InTransaction, TypeOK
<1>2. gone \in SUBSET Questions
  BY <1>1 DEF Stored, TypeOK, TestRow
<1> HIDE DEF gone
<1>3. /\ state \in Run /\ state.pc = "write" /\ state.at >= run[i].at
      /\ state.batch = run[i].batch /\ state.met = run[i].met
      /\ state.at = run[i].at /\ state.created = run[i].created
      /\ state.test = run[i].test /\ state.gone = gone
      /\ state.found = run[i].found
  <2>1. run[i].at >= run[i].at
    BY <1>1 DEF Run
  <2>2. state \in Run
    BY <1>1, <1>2 DEF Run
  <2> QED
    BY <1>1, <2>1, <2>2 DEF Run
<1> HIDE DEF state
<1>4. TypeOK' /\ run'[i] = state /\ \A j \in Runs \ {i} : run'[j] = run[j]
  <2>1. Become(i, state)
    BY DEF DeleteQuestions, state, gone
  <2>2. /\ \A key \in Keys : lock[key] = i => key \in run[i].found
        /\ lock[run[i].test] = i
    BY <1>1 DEF TypeOK
  <2> QED
    BY <1>1, <1>3, <2>1, <2>2, BecomeKeepsTypes DEF TypeOK
<1>5. (PlaceHolds(i) /\ TransactionHolds(i) /\ RivalsHold(i))'
  BY <1>1, <1>3, <1>4 DEF PlaceHolds, TransactionHolds, RivalsHold, Stored, gone
<1> QED
  BY <1>1, <1>3, <1>4, <1>5, AloneKeeps

LEMMA CreateQuestionKeeps ==
    ASSUME IInv, NEW i \in Runs, CreateQuestion(i)
    PROVE  IInv'
<1> DEFINE stats == [run[i].stats EXCEPT !.questions = @ + 1]
           state == [run[i] EXCEPT !.written = @ + 1, !.stats = stats]
<1>1. /\ TypeOK /\ UnderWay(i) /\ InTransaction(i) /\ run[i] \in Run
      /\ run[i].at <= Len(run[i].batch) /\ run[i].pc = "write"
      /\ UNCHANGED <<tests, lock, edits>>
      /\ TransactionHolds(i) /\ RivalsHold(i)
  BY DEF IInv, CreateQuestion, PlaceHolds, Busy, UnderWay, InTransaction, TypeOK
<1>2. Become(i, state)
  BY DEF CreateQuestion
<1>3. stats \in Stats /\ run[i].written + 1 \in Nat
  <2>1. run[i].stats \in Stats /\ run[i].written \in Nat
    BY <1>1 DEF Run
  <2> QED
    BY <2>1 DEF Stats
<1> HIDE DEF stats
<1>4. /\ state \in Run /\ state.pc = "write" /\ state.at >= run[i].at
      /\ state.batch = run[i].batch /\ state.met = run[i].met
      /\ state.at = run[i].at /\ state.created = run[i].created
      /\ state.test = run[i].test /\ state.gone = run[i].gone
      /\ state.found = run[i].found
  <2>1. run[i].at >= run[i].at
    BY <1>1 DEF Run
  <2>2. state \in Run
    BY <1>1, <1>3 DEF Run
  <2> QED
    BY <1>1, <2>1, <2>2 DEF Run
<1> HIDE DEF state
<1>5. TypeOK' /\ run'[i] = state /\ \A j \in Runs \ {i} : run'[j] = run[j]
  <2>1. /\ \A key \in Keys : lock[key] = i => key \in run[i].found
        /\ ~ run[i].created => lock[run[i].test] = i
    BY <1>1 DEF TypeOK
  <2> QED
    BY <1>1, <1>2, <1>4, <2>1, BecomeKeepsTypes DEF TypeOK
<1>6. PlaceHolds(i)' /\ TransactionHolds(i)'
  BY <1>1, <1>4, <1>5 DEF PlaceHolds, TransactionHolds, Stored, Here
<1>7. RivalsHold(i)'
  <2>1. Named(TitleOf[Payload(i)])' = Named(TitleOf[Payload(i)])
    BY <1>1, <1>4, <1>5 DEF Named, Stored, Payload
  <2>2. \A key \in Named(TitleOf[Payload(i)]) : key[1] \in Runs
    BY DEF Named, Stored, Keys
  <2> QED
    BY <1>1, <1>4, <1>5, <2>1, <2>2 DEF RivalsHold, Known, Rivals
<1> QED
  BY <1>1, <1>4, <1>5, <1>6, <1>7, AloneKeeps

(* The transaction of a run is rolled back, and its locks with it. *)
LEMMA RaiseKeeps ==
    ASSUME IInv, NEW i \in Runs, Raise(i)
    PROVE  IInv'
<1> DEFINE next == Onward(run[i])
           stats == [next.stats EXCEPT !.errors = @ + 1]
           state == [next EXCEPT !.stats = stats]
<1>1. /\ TypeOK /\ UnderWay(i) /\ run[i] \in Run
      /\ run[i].at <= Len(run[i].batch)
      /\ UNCHANGED <<tests, edits>> /\ lock' = Released(i)
  BY DEF IInv, Raise, PlaceHolds, Busy, UnderWay, TypeOK
<1>2. run[i].at \in 1 .. MaxLength
  BY <1>1, PayloadTyped
<1>3. next.stats \in Stats
  BY <1>1, <1>2, OnwardTyped
<1>4. stats \in Stats
  BY <1>3 DEF Stats
<1>5. Become(i, state)
  BY DEF Raise
<1> HIDE DEF stats
<1>6. /\ state \in Run /\ state.pc = "next" /\ state.at >= run[i].at
      /\ state.batch = run[i].batch /\ state.met = run[i].met
  BY <1>1, <1>2, <1>4, OnwardWithStats
<1> HIDE DEF state
<1>7. TypeOK' /\ run'[i] = state /\ \A j \in Runs \ {i} : run'[j] = run[j]
  BY <1>1, <1>5, <1>6, ReleasedTyped, BecomeKeepsTypes DEF TypeOK
<1>8. (PlaceHolds(i) /\ TransactionHolds(i) /\ RivalsHold(i))'
  BY <1>6, <1>7, IdleHolds
<1> QED
  BY <1>1, <1>6, <1>7, <1>8, AloneKeeps

LEMMA KillKeeps ==
    ASSUME IInv, NEW i \in Runs, Kill(i)
    PROVE  IInv'
<1> DEFINE state == [run[i] EXCEPT !.pc = "killed"]
<1>1. /\ TypeOK /\ UnderWay(i) /\ run[i] \in Run
      /\ tests' = tests /\ lock' = Released(i) /\ Become(i, state)
  BY DEF IInv, Kill, TypeOK
<1>2. edits' \in 0 .. MaxEdits
  BY TestImportAssumption DEF IInv, TypeOK, Kill
<1>3. /\ state \in Run /\ state.pc = "killed" /\ state.at >= run[i].at
      /\ state.batch = run[i].batch /\ state.met = run[i].met
  BY <1>1 DEF Run
<1> HIDE DEF state
<1>4. TypeOK' /\ run'[i] = state /\ \A j \in Runs \ {i} : run'[j] = run[j]
  BY <1>1, <1>2, <1>3, ReleasedTyped, BecomeKeepsTypes DEF TypeOK
<1>5. (PlaceHolds(i) /\ TransactionHolds(i) /\ RivalsHold(i))'
  BY <1>3, <1>4, IdleHolds
<1> QED
  BY <1>1, <1>3, <1>4, <1>5, AloneKeeps

(* The others are met, and every run keeps what it had. *)
LEMMA StartKeeps ==
    ASSUME IInv, NEW i \in Runs, Start(i)
    PROVE  IInv'
<1> DEFINE others == {j \in Runs : UnderWay(j)}
<1>1. /\ TypeOK /\ run[i].pc = "idle" /\ UNCHANGED <<tests, lock, edits>>
      /\ run \in [Runs -> Run]
  BY DEF IInv, Start, TypeOK
<1>2. /\ run' \in [Runs -> Run]
      /\ run'[i].pc = "next"
      /\ \A j \in Runs \ {i} : run'[j].pc = run[j].pc
      /\ \A j \in Runs :
            /\ run'[j].batch = run[j].batch /\ run'[j].at = run[j].at
            /\ run'[j].created = run[j].created /\ run'[j].test = run[j].test
            /\ run'[j].gone = run[j].gone /\ run'[j].found = run[j].found
      /\ \A j \in Runs : run[j].met \subseteq run'[j].met
      /\ others \subseteq run'[i].met
      /\ \A j \in others : i \in run'[j].met
  <2>1. run' = [j \in Runs |->
                  IF j = i THEN [run[j] EXCEPT !.pc = "next", !.met = @ \cup others]
                  ELSE IF j \in others THEN [run[j] EXCEPT !.met = @ \cup {i}]
                  ELSE run[j]]
    BY DEF Start
  <2>2. i \notin others
    BY <1>1 DEF UnderWay
  <2> HIDE DEF others
  <2>3. run'[i] = [run[i] EXCEPT !.pc = "next", !.met = @ \cup others]
    BY <2>1, Zenon
  <2>4. \A j \in others \cap Runs : run'[j] = [run[j] EXCEPT !.met = @ \cup {i}]
    BY <2>1, <2>2
  <2>5. \A j \in Runs \ (others \cup {i}) : run'[j] = run[j]
    BY <2>1
  <2>6. others \subseteq Runs
    BY DEF others
  <2>7. run'[i] \in Run
    BY <1>1, <2>3, <2>6 DEF Run
  <2>8. \A j \in others : run'[j] \in Run
    <3>1. ASSUME NEW j \in others PROVE run'[j] \in Run
      <4>1. run'[j] = [run[j] EXCEPT !.met = @ \cup {i}] /\ run[j] \in Run
        BY <1>1, <2>4, <2>6
      <4> QED
        BY <4>1 DEF Run
    <3> QED
      BY <3>1
  <2>9. run' \in [Runs -> Run]
    BY <1>1, <2>1, <2>5, <2>7, <2>8
  <2>10. /\ run'[i].pc = "next" /\ run'[i].met = run[i].met \cup others
         /\ run'[i].batch = run[i].batch /\ run'[i].at = run[i].at
         /\ run'[i].created = run[i].created /\ run'[i].test = run[i].test
         /\ run'[i].gone = run[i].gone /\ run'[i].found = run[i].found
    BY <1>1, <2>3 DEF Run
  <2>11. ASSUME NEW j \in others
         PROVE  /\ run'[j].pc = run[j].pc /\ run'[j].met = run[j].met \cup {i}
                /\ run'[j].batch = run[j].batch /\ run'[j].at = run[j].at
                /\ run'[j].created = run[j].created /\ run'[j].test = run[j].test
                /\ run'[j].gone = run[j].gone /\ run'[j].found = run[j].found
    <3>1. run'[j] = [run[j] EXCEPT !.met = @ \cup {i}] /\ run[j] \in Run
      BY <1>1, <2>4, <2>6
    <3> QED
      BY <3>1 DEF Run
  <2> QED
    BY <2>2, <2>5, <2>6, <2>9, <2>10, <2>11
<1>3. i \notin others /\ \A j \in Runs : j \in others <=> UnderWay(j)
  BY <1>1 DEF UnderWay
<1> HIDE DEF others
<1>4. Stored' = Stored /\ \A key \in Stored : key[1] \in Runs
  BY <1>1 DEF Stored, Keys
<1>5. TypeOK'
  <2>1. \A j \in Runs : /\ InTransaction(j)' <=> InTransaction(j)
                        /\ Busy(j)' <=> Busy(j)
    BY <1>1, <1>2 DEF InTransaction, Busy
  <2> QED
    BY <1>1, <1>2, <2>1 DEF TypeOK
<1>6. Behind'
  BY <1>1, <1>2, <1>4 DEF IInv, Behind
<1>7. MetHolds'
  <2>1. \A j \in Runs \ {i} : UnderWay(j)' <=> UnderWay(j)
    BY <1>2 DEF UnderWay
  <2>2. ASSUME NEW j \in Runs \ {i}, UnderWay(j)
        PROVE  Rivals(i, j)' /\ Rivals(j, i)'
    BY <1>2, <1>3, <2>2 DEF Rivals
  <2>3. ASSUME NEW j \in Runs \ {i}, NEW k \in Runs \ {i}, j # k,
               UnderWay(j), UnderWay(k)
        PROVE  Rivals(j, k)'
    BY <1>2, <2>3 DEF Rivals, MetHolds, IInv
  <2> QED
    BY <2>1, <2>2, <2>3 DEF MetHolds
<1>8. TestsAreWhole'
  <2>1. ASSUME NEW key \in Stored
        PROVE  QuestionsOf(tests[key].of)' = QuestionsOf(tests[key].of)
    <3>1. tests[key].of[1] \in Runs
      BY <1>1 DEF TypeOK, TestRow, Stored, Keys
    <3> QED
      BY <1>1, <1>2, <3>1 DEF QuestionsOf
  <2> QED
    BY <1>1, <1>4, <2>1 DEF TestsAreWhole, IInv
<1>9. TwinsOnlyFromRaces'
  BY <1>1, <1>2, <1>4 DEF TwinsOnlyFromRaces, IInv
<1>10. ASSUME NEW j \in Runs
       PROVE  (PlaceHolds(j) /\ TransactionHolds(j) /\ RivalsHold(j))'
  <2>1. CASE j = i
    BY <1>2, <2>1 DEF PlaceHolds, Busy, TransactionHolds, RivalsHold
  <2>2. CASE j # i
    <3>1. PlaceHolds(j) /\ TransactionHolds(j) /\ RivalsHold(j)
      BY DEF IInv
    <3>2. PlaceHolds(j)' /\ TransactionHolds(j)'
      BY <1>1, <1>2, <1>4, <2>2, <3>1 DEF PlaceHolds, Busy, TransactionHolds, Here
    <3>3. Named(TitleOf[Payload(j)])' = Named(TitleOf[Payload(j)])
      BY <1>1, <1>2, <1>4 DEF Named, Payload
    <3>4. \A key \in Named(TitleOf[Payload(j)]) : key[1] \in Runs
      BY <1>4 DEF Named
    <3>5. RivalsHold(j)'
      BY <1>1, <1>2, <2>2, <3>1, <3>3, <3>4 DEF RivalsHold, Known, Rivals
    <3> QED
      BY <3>2, <3>5
  <2> QED
    BY <2>1, <2>2
<1> QED
  BY <1>5, <1>6, <1>7, <1>8, <1>9, <1>10 DEF IInv
-----------------------------------------------------------------------------
(* The actions that change the tables. *)

(* What a COMMIT leaves in the row of the test. *)
LEMMA ImportedIsWhole ==
    ASSUME IInv, NEW i \in Runs, Commit(i)
    PROVE  /\ run[i].test \in Keys
           /\ Imported(i) \in TestRow
           /\ Imported(i).of = Here(i)
           /\ Imported(i).questions = QuestionsOf(Here(i))
           /\ run[i].created =>
                /\ run[i].test = Here(i) /\ Here(i) \notin Stored
                /\ Imported(i).title = TitleOf[Payload(i)]
           /\ ~ run[i].created =>
                /\ run[i].test \in Stored
                /\ Imported(i).title = tests[run[i].test].title
                /\ Imported(i).renamed = tests[run[i].test].renamed
<1> DEFINE key == run[i].test
           old == IF run[i].created THEN {} ELSE tests[key].questions
           title == IF run[i].created THEN TitleOf[Payload(i)] ELSE tests[key].title
           renamed == IF run[i].created THEN FALSE ELSE tests[key].renamed
           questions == (old \ run[i].gone) \cup ({Here(i)} \X (1 .. run[i].written))
<1>1. /\ run[i] \in Run /\ run[i].at <= Len(run[i].batch)
      /\ run[i].pc = "write" /\ run[i].written = Size[Payload(i)]
      /\ TransactionHolds(i) /\ TypeOK /\ Behind
  BY DEF IInv, TypeOK, PlaceHolds, Busy, Commit
<1>2. /\ key \in Keys /\ Here(i) \in Keys /\ run[i].written \in Nat
      /\ run[i].at \in Nat /\ TitleOf[Payload(i)] \in Titles
  BY <1>1, PayloadTyped DEF Run
<1>3. Imported(i) = [title |-> title, of |-> Here(i), questions |-> questions,
                     renamed |-> renamed, edited |-> FALSE]
  BY DEF Imported
<1>4. ~ run[i].created => key \in Stored /\ tests[key] \in TestRow
  BY <1>1 DEF TransactionHolds, TypeOK, Stored
<1>5. old \ run[i].gone = {}
  BY <1>1 DEF TransactionHolds
<1>6. questions = {Here(i)} \X (1 .. Size[Payload(i)])
  BY <1>1, <1>5
<1>7. QuestionsOf(Here(i)) = {Here(i)} \X (1 .. Size[Payload(i)])
  BY DEF QuestionsOf, Here, Payload
<1>8. questions \in SUBSET Questions
  BY <1>1, <1>2, <1>6 DEF Questions
<1>9. title \in Titles /\ renamed \in BOOLEAN
  BY <1>2, <1>4 DEF TestRow
<1>10. run[i].created => key = Here(i) /\ Here(i) \notin Stored
  <2>1. Here(i)[1] = i /\ Here(i)[2] = run[i].at
    BY DEF Here
  <2> QED
    BY <1>1, <1>2, <2>1 DEF TransactionHolds, Behind
<1>11. /\ Imported(i).title = title /\ Imported(i).of = Here(i)
       /\ Imported(i).questions = questions /\ Imported(i).renamed = renamed
  BY <1>3
<1>12. Imported(i) \in TestRow
  <2> HIDE DEF title, questions, renamed
  <2> QED
    BY <1>2, <1>3, <1>8, <1>9 DEF TestRow
<1> QED
  BY <1>2, <1>4, <1>6, <1>7, <1>10, <1>11, <1>12

LEMMA CommitKeeps ==
    ASSUME IInv, NEW i \in Runs, Commit(i)
    PROVE  IInv'
<1> DEFINE key == run[i].test
           row == Imported(i)
           next == Onward(run[i])
           created == IF run[i].created THEN next.stats.created + 1
                      ELSE next.stats.created
           updated == IF run[i].created THEN next.stats.updated
                      ELSE next.stats.updated + 1
           stats == [next.stats EXCEPT !.created = created, !.updated = updated]
           state == [next EXCEPT !.stats = stats]
<1>1. /\ TypeOK /\ UnderWay(i) /\ run[i] \in Run /\ run[i].pc = "write"
      /\ run[i].at <= Len(run[i].batch)
      /\ tests' = [tests EXCEPT ![key] = row] /\ lock' = Released(i) /\ edits' = edits
      /\ tests \in [Keys -> TestRow \cup {NoRow}]
  BY DEF IInv, Commit, PlaceHolds, Busy, UnderWay, TypeOK
<1>2. run[i].at \in 1 .. MaxLength /\ run[i].at \in Nat
  BY <1>1, PayloadTyped
<1>3. stats \in Stats
  <2>1. next.stats \in Stats
    BY <1>1, <1>2, OnwardTyped
  <2>2. created \in Nat /\ updated \in Nat
    BY <2>1 DEF Stats
  <2> HIDE DEF next, created, updated
  <2> QED
    BY <2>1, <2>2 DEF Stats
<1>4. Become(i, state)
  BY DEF Commit
<1> HIDE DEF stats
<1>5. /\ state \in Run /\ state.pc = "next" /\ state.at = run[i].at + 1
      /\ state.batch = run[i].batch /\ state.met = run[i].met
  BY <1>1, <1>2, <1>3, OnwardWithStats
<1> HIDE DEF state
<1>6. /\ key \in Keys /\ row \in TestRow /\ row.of = Here(i)
      /\ row.questions = QuestionsOf(Here(i))
      /\ run[i].created => /\ key = Here(i) /\ key \notin Stored
                           /\ row.title = TitleOf[Payload(i)]
      /\ ~ run[i].created => /\ key \in Stored /\ row.title = tests[key].title
                             /\ row.renamed = tests[key].renamed
      /\ ~ run[i].created => lock[key] = i
  <2>1. ~ run[i].created => lock[key] = i
    BY <1>1, ImportedIsWhole DEF TypeOK, InTransaction
  <2> QED
    BY <2>1, ImportedIsWhole
<1> HIDE DEF row
<1>7. TypeOK' /\ run'[i] = state /\ \A j \in Runs \ {i} : run'[j] = run[j]
  <2>1. tests' \in [Keys -> TestRow \cup {NoRow}] /\ edits' \in 0 .. MaxEdits
    BY <1>1, <1>6 DEF TypeOK
  <2> QED
    BY <1>1, <1>4, <1>5, <2>1, ReleasedTyped, BecomeKeepsTypes
<1>8. \A j \in Runs : /\ run'[j].batch = run[j].batch /\ run'[j].met = run[j].met
                      /\ run[j].at \in Nat /\ run'[j].at \in Nat
                      /\ run'[j].at >= run[j].at
  <2>1. run \in [Runs -> Run] /\ run' \in [Runs -> Run]
    BY <1>1, <1>7 DEF TypeOK
  <2>2. \A any \in Run : any.at \in Nat
    BY TestImportAssumption DEF Run
  <2>3. \A j \in Runs : run[j].at \in Nat /\ run'[j].at \in Nat
    BY <2>1, <2>2
  <2> QED
    BY <1>2, <1>5, <1>7, <2>3
<1>9. /\ Stored \subseteq Keys /\ Stored' \subseteq Stored \cup {key}
      /\ \A k \in Keys \ {key} : tests'[k] = tests[k] /\ (k \in Stored' <=> k \in Stored)
      /\ tests'[key] = row
      /\ \A k \in Keys : k[1] \in Runs /\ k[2] \in Nat
  BY <1>1, <1>6 DEF Stored, Keys
<1>10. Behind'
  <2>1. ASSUME NEW k \in Stored PROVE k[2] < run'[k[1]].at
    <3>1. k[2] < run[k[1]].at /\ k[1] \in Runs /\ k[2] \in Nat
      BY <1>9 DEF IInv, Behind
    <3> QED
      BY <1>8, <3>1
  <2>2. key[2] < run'[key[1]].at
    <3>1. CASE run[i].created
      BY <1>2, <1>5, <1>6, <1>7, <3>1 DEF Here
    <3>2. CASE ~ run[i].created
      BY <1>6, <2>1, <3>2
    <3> QED
      BY <3>1, <3>2
  <2> QED
    BY <1>9, <2>1, <2>2 DEF Behind
<1>11. MetHolds'
  <2>1. \A j \in Runs : UnderWay(j)' => UnderWay(j)
    BY <1>1, <1>7 DEF UnderWay
  <2> QED
    BY <1>8, <2>1 DEF MetHolds, Rivals, IInv
<1>12. TestsAreWhole'
  <2>1. ASSUME NEW k \in Stored', ~ tests'[k].edited
        PROVE  tests'[k].of \in Keys /\ tests'[k].questions = QuestionsOf(tests'[k].of)
    <3>1. CASE k = key
      BY <1>6, <1>9, <3>1 DEF TestRow
    <3>2. CASE k # key
      <4>1. k \in Stored /\ k \in Keys /\ tests'[k] = tests[k]
        BY <1>9, <3>2
      <4>2. tests[k].questions = QuestionsOf(tests[k].of) /\ tests[k] \in TestRow
        BY <1>1, <2>1, <4>1 DEF IInv, TestsAreWhole, Stored
      <4> QED
        BY <4>1, <4>2 DEF TestRow
    <3> QED
      BY <3>1, <3>2
  <2>2. \A k \in Keys : {k} \X (1 .. Size[run'[k[1]].batch[k[2]]]) = QuestionsOf(k)
    <3>1. \A k \in Keys : run'[k[1]].batch = run[k[1]].batch
      BY <1>8 DEF Keys
    <3> QED
      BY <3>1 DEF QuestionsOf
  <2>3. \A k \in Stored' : ~ tests'[k].edited =>
          tests'[k].questions
              = {tests'[k].of}
                    \X (1 .. Size[run'[tests'[k].of[1]].batch[tests'[k].of[2]]])
    BY <2>1, <2>2
  <2> QED
    BY <2>3 DEF TestsAreWhole, QuestionsOf
<1>13. \A j, k \in Runs : Rivals(j, k)' <=> Rivals(j, k)
  BY <1>8 DEF Rivals
<1>14. TwinsOnlyFromRaces'
  <2>1. ASSUME NEW k \in Stored, k # key, run[i].created,
               tests[k].title = row.title, ~ tests[k].renamed
        PROVE  Rivals(i, k[1])
    BY <1>1, <1>6, <2>1 DEF IInv, RivalsHold, Known, Named
  <2>2. ASSUME NEW a \in Stored', NEW b \in Stored', a # b,
               tests'[a].title = tests'[b].title,
               ~ tests'[a].renamed, ~ tests'[b].renamed
        PROVE  a[1] # b[1] /\ b[1] \in run'[a[1]].met
    <3>1. a[1] \in Runs /\ b[1] \in Runs
      BY <1>6, <1>9
    <3>2. CASE run[i].created /\ a = key
      <4>1. b \in Stored /\ tests'[b] = tests[b] /\ a[1] = i
        BY <1>6, <1>9, <2>2, <3>2 DEF Here
      <4> QED
        BY <1>8, <1>9, <2>1, <2>2, <3>1, <3>2, <4>1 DEF Rivals
    <3>3. CASE run[i].created /\ b = key
      <4>1. a \in Stored /\ tests'[a] = tests[a] /\ b[1] = i
        BY <1>6, <1>9, <2>2, <3>3 DEF Here
      <4> QED
        BY <1>8, <1>9, <2>1, <2>2, <3>1, <3>3, <4>1 DEF Rivals
    <3>4. CASE ~ run[i].created \/ (a # key /\ b # key)
      <4>1. /\ a \in Stored /\ tests'[a].title = tests[a].title
            /\ tests'[a].renamed = tests[a].renamed
        BY <1>6, <1>9, <3>4
      <4>2. /\ b \in Stored /\ tests'[b].title = tests[b].title
            /\ tests'[b].renamed = tests[b].renamed
        BY <1>6, <1>9, <3>4
      <4>3. a[1] # b[1] /\ b[1] \in run[a[1]].met
        BY <2>2, <4>1, <4>2 DEF IInv, TwinsOnlyFromRaces
      <4> QED
        BY <1>8, <3>1, <4>3
    <3> QED
      BY <3>2, <3>3, <3>4
  <2> QED
    BY <2>2 DEF TwinsOnlyFromRaces
<1>15. ASSUME NEW j \in Runs
       PROVE  (PlaceHolds(j) /\ TransactionHolds(j) /\ RivalsHold(j))'
  <2>1. CASE j = i
    BY <1>5, <1>7, <2>1, IdleHolds
  <2>2. CASE j # i
    <3>1. run'[j] = run[j] /\ PlaceHolds(j) /\ TransactionHolds(j) /\ RivalsHold(j)
      BY <1>7, <2>2 DEF IInv
    <3>2. PlaceHolds(j)'
      BY <3>1 DEF PlaceHolds, Busy
    <3>3. ASSUME InTransaction(j), ~ run[j].created
          PROVE  run[j].test # key
      <4>1. lock[run[j].test] = j /\ run[j].test \in Stored
        BY <1>1, <3>1, <3>3, <1>9 DEF TypeOK, TransactionHolds, InTransaction
      <4> QED
        BY <1>6, <2>2, <4>1
    <3>4. TransactionHolds(j)'
      BY <1>9, <3>1, <3>3 DEF TransactionHolds, InTransaction, Here
    <3>5. ASSUME run[j].pc = "lock" \/ (run[j].pc = "write" /\ run[j].created),
                 NEW k \in Stored', tests'[k].title = TitleOf[Payload(j)]
          PROVE  tests'[k].renamed \/ Known(j, k) \/ Rivals(j, k[1])
      <4>1. CASE k = key /\ run[i].created
        <5>1. UnderWay(j) /\ k[1] = i
          BY <1>6, <3>5, <4>1 DEF UnderWay, Here
        <5> QED
          BY <1>1, <2>2, <5>1 DEF IInv, MetHolds
      <4>2. CASE k # key \/ ~ run[i].created
        <5>1. /\ k \in Stored /\ tests'[k].title = tests[k].title
              /\ tests'[k].renamed = tests[k].renamed
          <6>1. k \in Stored \/ (k = key /\ ~ run[i].created)
            BY <1>9, <3>5, <4>2
          <6>2. k # key => tests'[k] = tests[k] /\ k \in Stored
            BY <1>9, <3>5
          <6> QED
            BY <1>6, <1>9, <4>2, <6>1, <6>2
        <5> QED
          BY <3>1, <3>5, <5>1 DEF RivalsHold, Named
      <4> QED
        BY <4>1, <4>2
    <3>6. RivalsHold(j)'
      <4>1. \A k \in Stored' : k[1] \in Runs
        BY <1>6, <1>9
      <4> QED
        BY <1>13, <3>1, <3>5, <4>1 DEF RivalsHold, Named, Known, Payload
    <3> QED
      BY <3>2, <3>4, <3>6
  <2> QED
    BY <2>1, <2>2
<1> QED
  BY <1>7, <1>10, <1>11, <1>12, <1>14, <1>15 DEF IInv

(* A renamed test is nobody's twin, an edited one need not be whole, and the  *)
(* lock keeps both from transactions.                                         *)
LEMMA SaveFormKeeps ==
    ASSUME IInv, NEW key \in Keys, NEW title \in Titles, NEW kept,
           SaveForm(key, title, kept)
    PROVE  IInv'
<1> DEFINE renamed == IF title = tests[key].title THEN tests[key].renamed ELSE TRUE
           row == [tests[key] EXCEPT !.title = title, !.questions = kept,
                                     !.renamed = renamed, !.edited = TRUE]
<1>1. /\ TypeOK /\ run' = run /\ lock' = lock /\ key \in Stored /\ lock[key] = Free
      /\ tests \in [Keys -> TestRow \cup {NoRow}] /\ tests[key] \in TestRow
      /\ kept \subseteq tests[key].questions
  BY DEF IInv, TypeOK, SaveForm, Stored
<1>2. /\ row \in TestRow /\ row.edited
      /\ row.renamed \/ (row.title = tests[key].title /\ ~ tests[key].renamed)
  <2>1. kept \in SUBSET Questions /\ renamed \in BOOLEAN
    BY <1>1 DEF TestRow
  <2>2. renamed \/ (title = tests[key].title /\ ~ tests[key].renamed)
    BY <1>1 DEF TestRow
  <2> HIDE DEF renamed
  <2>3. /\ row \in TestRow /\ row.edited = TRUE
        /\ row.renamed = renamed /\ row.title = title
    BY <1>1, <2>1 DEF TestRow
  <2> QED
    BY <2>2, <2>3
<1>3. tests' = [tests EXCEPT ![key] = row]
  BY <1>1 DEF SaveForm
<1> HIDE DEF row
<1>4. /\ Stored' \subseteq Stored /\ Stored \subseteq Keys
      /\ tests'[key] = row
      /\ \A k \in Keys \ {key} : tests'[k] = tests[k] /\ (k \in Stored' <=> k \in Stored)
  BY <1>1, <1>3 DEF Stored
<1>5. TypeOK'
  <2>1. tests' \in [Keys -> TestRow \cup {NoRow}]
    BY <1>1, <1>2, <1>3
  <2>2. edits' \in 0 .. MaxEdits
    BY TestImportAssumption DEF IInv, TypeOK, SaveForm
  <2> QED
    BY <1>1, <2>1, <2>2 DEF TypeOK, InTransaction, Busy
<1>6. Behind'
  BY <1>1, <1>4 DEF IInv, Behind
<1>7. MetHolds'
  BY <1>1 DEF IInv, MetHolds, UnderWay, Rivals
<1>8. TestsAreWhole'
  <2>1. \A k \in Stored' : ~ tests'[k].edited => k \in Stored /\ tests'[k] = tests[k]
    BY <1>2, <1>4
  <2> QED
    BY <1>1, <2>1 DEF IInv, TestsAreWhole, QuestionsOf
<1>9. TwinsOnlyFromRaces'
  <2>1. \A k \in Stored' : ~ tests'[k].renamed =>
          k \in Stored /\ tests'[k].title = tests[k].title /\ ~ tests[k].renamed
    BY <1>2, <1>4
  <2> QED
    BY <1>1, <2>1 DEF IInv, TwinsOnlyFromRaces
<1>10. ASSUME NEW j \in Runs
       PROVE  (PlaceHolds(j) /\ TransactionHolds(j) /\ RivalsHold(j))'
  <2>1. PlaceHolds(j) /\ TransactionHolds(j) /\ RivalsHold(j)
    BY DEF IInv
  <2>2. PlaceHolds(j)'
    BY <1>1, <2>1 DEF PlaceHolds, Busy
  <2>3. ASSUME InTransaction(j), ~ run[j].created
        PROVE  run[j].test # key
    <3>1. lock[run[j].test] = j
      BY <1>1, <2>1, <2>3, <1>4 DEF TypeOK, TransactionHolds, InTransaction
    <3> QED
      BY <1>1, <3>1, TestImportAssumption
  <2>4. TransactionHolds(j)'
    BY <1>1, <1>4, <2>1, <2>3 DEF TransactionHolds, InTransaction, Here
  <2>5. RivalsHold(j)'
    <3>1. ASSUME NEW k \in Stored', ~ tests'[k].renamed
          PROVE  k \in Stored /\ tests'[k].title = tests[k].title /\ ~ tests[k].renamed
      BY <1>2, <1>4, <3>1
    <3> QED
      BY <1>1, <2>1, <3>1 DEF RivalsHold, Named, Known, Rivals, Payload
  <2> QED
    BY <2>2, <2>4, <2>5
<1> QED
  BY <1>5, <1>6, <1>7, <1>8, <1>9, <1>10 DEF IInv
-----------------------------------------------------------------------------
(* The invariant of the specification. *)

LEMMA InitEstablishes == Init => IInv
<1> SUFFICES ASSUME Init PROVE IInv
  OBVIOUS
<1>1. Stored = {}
  BY DEF Init, Stored
<1>2. \A i \in Runs : run[i].pc = "idle"
  BY DEF Init
<1>3. run \in [Runs -> Run]
  <2>1. ASSUME NEW i \in Runs, NEW batch \in Batches, NEW dry_run \in BOOLEAN
        PROVE  [pc |-> "idle", batch |-> batch, at |-> 1, dry_run |-> dry_run,
                found |-> {}, test |-> <<CHOOSE j \in Runs : TRUE, 1>>,
                created |-> FALSE, gone |-> {}, written |-> 0,
                stats |-> NoStats, met |-> {}] \in Run
    <3>1. MaxLength \in Nat /\ MaxLength >= 1
      BY TestImportAssumption
    <3>2. 1 \in 1 .. MaxLength /\ 1 \in 1 .. MaxLength + 1
      BY <3>1
    <3>3. (CHOOSE j \in Runs : TRUE) \in Runs
      OBVIOUS
    <3>4. <<CHOOSE j \in Runs : TRUE, 1>> \in Keys
      BY <3>2, <3>3 DEF Keys
    <3>5. NoStats \in Stats
      BY DEF NoStats, Stats
    <3> QED
      BY <3>2, <3>4, <3>5 DEF Run
  <2> QED
    BY <2>1 DEF Init
<1>4. TypeOK
  BY <1>2, <1>3, TestImportAssumption DEF Init, TypeOK, InTransaction, Busy
<1>5. Behind /\ TestsAreWhole /\ TwinsOnlyFromRaces
  BY <1>1 DEF Behind, TestsAreWhole, TwinsOnlyFromRaces
<1>6. MetHolds
  BY <1>2 DEF MetHolds, UnderWay
<1>7. \A i \in Runs : PlaceHolds(i) /\ TransactionHolds(i) /\ RivalsHold(i)
  BY <1>2 DEF PlaceHolds, Busy, TransactionHolds, RivalsHold
<1> QED
  BY <1>4, <1>5, <1>6, <1>7 DEF IInv

LEMMA NextKeeps == IInv /\ [Next]_vars => IInv'
<1> SUFFICES ASSUME IInv, [Next]_vars PROVE IInv'
  OBVIOUS
<1>1. ASSUME NEW i \in Runs, Step(i) PROVE IInv'
  <2>1. CASE Ambiguous(i) \/ Deadlocked(i)
    BY <2>1, RaiseKeeps DEF Ambiguous, Deadlocked
  <2>2. CASE Undecodable(i) \/ Finish(i)
    BY <2>2, EndKeeps DEF Undecodable, Finish
  <2> QED
    BY <1>1, <2>1, <2>2, RejectKeeps, DryRunKeeps, SelectKeeps, LockKeeps, InsertKeeps,
       UpdateKeeps, DeleteQuestionsKeeps, CreateQuestionKeeps, CommitKeeps
       DEF Step
<1>2. CASE Surroundings
  BY <1>2, StartKeeps, RaiseKeeps, KillKeeps, SaveFormKeeps DEF Surroundings
<1>3. CASE UNCHANGED vars
  <2>1. TypeOK'
    BY <1>3 DEF vars, IInv, TypeOK, InTransaction, Busy
  <2> QED
    BY <1>3, <2>1, SameTables DEF vars
<1> QED
  BY <1>1, <1>2, <1>3 DEF Next, Finished

LEMMA InvariantHolds == Spec => []IInv
  BY InitEstablishes, NextKeeps, PTL DEF Spec

(* The tables and the runs have their types, a run has locked nothing but     *)
(* rows it found, and it writes to a row it has locked (_upsert_test).        *)
THEOREM TypesHold == Spec => []TypeOK
<1>1. IInv => TypeOK
  BY DEF IInv
<1> QED
  BY <1>1, InvariantHolds, PTL

(* For every number of runs, titles and payloads: a stored test that nobody   *)
(* has edited since its last import holds all the questions of the payload    *)
(* that wrote its columns, and no others (_upsert_test).                      *)
THEOREM TestsAreAlwaysWhole == Spec => []TestsAreWhole
<1>1. IInv => TestsAreWhole
  BY DEF IInv
<1> QED
  BY <1>1, InvariantHolds, PTL

(* For every number of runs, titles and payloads: two tests share a title     *)
(* only if somebody renamed one of them or their imports ran at once          *)
(* (update_or_create by title).                                               *)
THEOREM TwinsAlwaysFromRaces == Spec => []TwinsOnlyFromRaces
<1>1. IInv => TwinsOnlyFromRaces
  BY DEF IInv
<1> QED
  BY <1>1, InvariantHolds, PTL
-----------------------------------------------------------------------------
(* The report of a run. *)

(* The tests a run has put into the table. *)
Mine(i) == {k \in Stored : k[1] = i}

(* The questions of the first payloads of a batch. *)
QuestionSum(batch, S) == Total([k \in S |-> Size[batch[k]]], S)

(* While a payload is written, the questions it has so far are counted too. *)
ReportHolds(i) ==
    LET state == run[i]
        stats == run[i].stats
    IN  /\ state.at <= Len(state.batch) + 1
        /\ stats.created + stats.updated + stats.errors = state.at - 1
        /\ IsFiniteSet(Mine(i))
        /\ ~ state.dry_run => stats.created = Cardinality(Mine(i))
        /\ stats.errors = 0 /\ state.pc # "killed" =>
             stats.questions = QuestionSum(state.batch, 1 .. state.at - 1) + state.written
        /\ state.pc \notin {"write", "killed"} => state.written = 0

(* MapThenSumSet computes the total of its terms. *)
LEMMA QuestionSumIs ==
    ASSUME NEW batch, NEW S, IsFiniteSet(S)
    PROVE  MapThenSumSet(LAMBDA k : Size[batch[k]], S) = QuestionSum(batch, S)
<1> DEFINE F == [k \in S |-> Size[batch[k]]]
           first(s) == CHOOSE x \in s : TRUE
           Solves(g) == g = [s \in SUBSET S |->
                               IF s = {} THEN 0
                               ELSE Size[batch[first(s)]] + g[s \ {first(s)}]]
           iter == CHOOSE g : Solves(g)
<1>1. ASSUME NEW g PROVE Solves(g) <=> SumEquation(g, F, S)
  <2>1. \A s \in SUBSET S : s # {} => F[first(s)] = Size[batch[first(s)]]
    OBVIOUS
  <2> HIDE DEF F
  <2>2. [s \in SUBSET S |->
           IF s = {} THEN 0 ELSE Size[batch[first(s)]] + g[s \ {first(s)}]]
        = [s \in SUBSET S |->
             IF s = {} THEN 0 ELSE F[first(s)] + g[s \ {first(s)}]]
    BY <2>1
  <2> QED
    BY <2>2 DEF SumEquation
<1>2. \E g : SumEquation(g, F, S)
  BY SumExists
<1>3. SumEquation(iter, F, S)
  <2> HIDE DEF Solves, F
  <2> QED
    BY <1>1, <1>2
<1>4. iter[S] = Total(F, S)
  <2> HIDE DEF iter, F
  <2> QED
    BY <1>3, TotalSolves
<1>5. MapThenSumSet(LAMBDA k : Size[batch[k]], S) = iter[S]
  BY DEF MapThenSumSet, MapThenFoldSet
<1> QED
  BY <1>4, <1>5 DEF QuestionSum

LEMMA QuestionSumType ==
    ASSUME NEW batch \in Batches, NEW n \in Nat, n <= Len(batch)
    PROVE  QuestionSum(batch, 1 .. n) \in Int
<1> DEFINE F == [k \in 1 .. n |-> Size[batch[k]]]
<1>1. \A k \in 1 .. n : k \in 1 .. Len(batch) /\ batch[k] \in Payloads
  BY BatchesTyped
<1>2. \A k \in 1 .. n : F[k] \in Int
  BY <1>1, TestImportAssumption
<1>3. IsFiniteSet(1 .. n)
  BY FS_Interval
<1> HIDE DEF F
<1>4. Total(F, 1 .. n) \in Int
  BY <1>2, <1>3, TotalType
<1> QED
  BY <1>4 DEF QuestionSum, F

(* Passing a payload adds its questions. *)
LEMMA QuestionSumGrows ==
    ASSUME NEW batch \in Batches, NEW n \in Nat \ {0}, n <= Len(batch)
    PROVE  QuestionSum(batch, 1 .. n)
               = QuestionSum(batch, 1 .. n - 1) + Size[batch[n]]
<1> DEFINE F == [k \in 1 .. n |-> Size[batch[k]]]
           G == [k \in 1 .. n - 1 |-> Size[batch[k]]]
           S == 1 .. n - 1
<1>1. \A k \in 1 .. n : k \in 1 .. Len(batch) /\ batch[k] \in Payloads
  BY BatchesTyped
<1>2. \A k \in 1 .. n : F[k] \in Int
  BY <1>1, TestImportAssumption
<1>3. 1 .. n = S \cup {n} /\ n \notin S /\ IsFiniteSet(S)
  <2>1. n - 1 \in Int
    OBVIOUS
  <2>2. IsFiniteSet(S)
    BY <2>1, FS_Interval
  <2> QED
    BY <2>2
<1>4. \A k \in S : F[k] = G[k]
  BY <1>3
<1>5. F[n] = Size[batch[n]]
  BY <1>3
<1>6. /\ QuestionSum(batch, 1 .. n) = Total(F, 1 .. n)
      /\ QuestionSum(batch, 1 .. n - 1) = Total(G, S)
  BY Zenon DEF QuestionSum
<1> HIDE DEF F, G, S
<1>7. Total(F, S \cup {n}) = F[n] + Total(F, S)
  BY <1>2, <1>3, TotalAdd
<1>8. Total(F, S) = Total(G, S)
  BY <1>3, <1>4, TotalCongruence
<1>9. Total(F, S) \in Int /\ F[n] \in Int
  BY <1>2, <1>3, TotalType
<1>10. Total(F, 1 .. n) = Total(F, S \cup {n})
  BY <1>3, Zenon
<1>11. Total(F, 1 .. n) = Total(G, S) + F[n]
  BY <1>7, <1>8, <1>9, <1>10
<1> QED
  BY <1>5, <1>6, <1>11

(* What a run that goes on with its next payload keeps of its report. *)
LEMMA OnwardReport ==
    ASSUME NEW state \in Run, NEW stats \in Stats
    PROVE  LET next == [Onward(state) EXCEPT !.stats = stats]
           IN  /\ Onward(state).stats = state.stats
               /\ next.stats = stats /\ next.at = state.at + 1
               /\ next.written = 0 /\ next.pc = "next"
               /\ next.batch = state.batch /\ next.dry_run = state.dry_run
  BY DEF Onward, Run

(* A commit counts the test once, as created or as updated. *)
LEMMA CommittedReport ==
    ASSUME IInv, NEW i \in Runs, Commit(i)
    PROVE  /\ run[i].pc = "write" /\ run[i].written = Size[Payload(i)]
           /\ run'[i].pc = "next" /\ run'[i].at = run[i].at + 1
           /\ run'[i].written = 0
           /\ run'[i].batch = run[i].batch /\ run'[i].dry_run = run[i].dry_run
           /\ run'[i].stats = [run[i].stats EXCEPT
                 !.created = IF run[i].created THEN @ + 1 ELSE @,
                 !.updated = IF run[i].created THEN @ ELSE @ + 1]
           /\ \A j \in Runs \ {i} : run'[j] = run[j]
<1> DEFINE next == Onward(run[i])
           created == IF run[i].created THEN next.stats.created + 1
                      ELSE next.stats.created
           updated == IF run[i].created THEN next.stats.updated
                      ELSE next.stats.updated + 1
           stats == [next.stats EXCEPT !.created = created, !.updated = updated]
           state == [next EXCEPT !.stats = stats]
<1>1. run \in [Runs -> Run] /\ run[i] \in Run /\ run[i].stats \in Stats
  BY DEF IInv, TypeOK, Run
<1>2. next.stats = run[i].stats
  BY <1>1, OnwardReport
<1>3. stats \in Stats
  <2>1. created \in Nat /\ updated \in Nat
    BY <1>1, <1>2 DEF Stats
  <2> HIDE DEF created, updated, next
  <2> QED
    BY <1>1, <1>2, <2>1 DEF Stats
<1>4. run' = [run EXCEPT ![i] = state]
  BY DEF Commit, Become
<1>5. /\ run'[i] = state /\ \A j \in Runs \ {i} : run'[j] = run[j]
  <2> HIDE DEF state
  <2> QED
    BY <1>1, <1>4
<1>6. stats = [run[i].stats EXCEPT
                 !.created = IF run[i].created THEN @ + 1 ELSE @,
                 !.updated = IF run[i].created THEN @ ELSE @ + 1]
  <2> HIDE DEF next
  <2> QED
    BY <1>1, <1>2 DEF Stats
<1> HIDE DEF stats
<1>7. /\ state.stats = stats /\ state.at = run[i].at + 1
      /\ state.written = 0 /\ state.pc = "next"
      /\ state.batch = run[i].batch /\ state.dry_run = run[i].dry_run
  BY <1>1, <1>3, OnwardReport
<1> HIDE DEF state
<1> QED
  BY <1>5, <1>6, <1>7 DEF Commit

(* Only its own commits, of tests they create, put a run's tests into the *)
(* table.                                                                 *)
LEMMA MineStep ==
    ASSUME IInv, [Next]_vars, NEW i \in Runs
    PROVE  IF Commit(i) /\ run[i].created
           THEN Mine(i)' = Mine(i) \cup {Here(i)} /\ Here(i) \notin Mine(i)
           ELSE Mine(i)' = Mine(i)
<1>1. CASE tests' = tests
  <2>1. Mine(i)' = Mine(i)
    BY <1>1 DEF Mine, Stored
  <2>2. ASSUME Commit(i), run[i].created PROVE FALSE
    <3>1. Here(i) \notin Stored /\ run[i].test = Here(i) /\ Here(i) \in Keys
          /\ Imported(i) \in TestRow
      BY <2>2, ImportedIsWhole
    <3>2. tests' = [tests EXCEPT ![Here(i)] = Imported(i)]
      BY <2>2, <3>1 DEF Commit
    <3>3. tests'[Here(i)] = Imported(i)
      BY <3>1, <3>2 DEF IInv, TypeOK
    <3> QED
      BY <1>1, <3>1, <3>3, RowAssumption DEF Stored
  <2> QED
    BY <2>1, <2>2
<1>2. ASSUME NEW j \in Runs, Commit(j)
      PROVE  IF Commit(i) /\ run[i].created
             THEN Mine(i)' = Mine(i) \cup {Here(i)} /\ Here(i) \notin Mine(i)
             ELSE Mine(i)' = Mine(i)
  <2> DEFINE key == run[j].test
  <2>1. /\ key \in Keys /\ Imported(j) \in TestRow
        /\ run[j].created => key = Here(j) /\ key \notin Stored
        /\ ~ run[j].created => key \in Stored
    BY <1>2, ImportedIsWhole
  <2>2. tests' = [tests EXCEPT ![key] = Imported(j)]
    BY <1>2 DEF Commit
  <2>3. Stored' = Stored \cup {key}
    BY <2>1, <2>2, RowAssumption DEF Stored, IInv, TypeOK
  <2>4. run[j].created => key[1] = j
    BY <2>1 DEF Here
  <2>5. CASE j = i
    BY <1>2, <2>1, <2>3, <2>4, <2>5 DEF Mine
  <2>6. CASE j # i
    <3>1. ~ Commit(i)
      <4>1. ASSUME Commit(i) PROVE FALSE
        <5>1. run'[j].pc = "next" /\ run[j].pc = "write"
          BY <1>2, CommittedReport
        <5>2. run'[j] = run[j]
          BY <2>6, <4>1 DEF Commit, Become, IInv, TypeOK
        <5> QED
          BY <5>1, <5>2
      <4> QED
        BY <4>1
    <3> QED
      BY <2>1, <2>3, <2>4, <2>6, <3>1 DEF Mine
  <2> QED
    BY <2>5, <2>6
<1>3. ASSUME NEW key \in Keys, NEW title \in Titles, NEW kept, SaveForm(key, title, kept)
      PROVE  Mine(i)' = Mine(i) /\ ~ Commit(i)
  <2> DEFINE renamed == IF title = tests[key].title THEN tests[key].renamed ELSE TRUE
             row == [tests[key] EXCEPT !.title = title, !.questions = kept,
                                       !.renamed = renamed, !.edited = TRUE]
  <2>1. tests[key] \in TestRow /\ key \in Stored /\ kept \subseteq tests[key].questions
    BY <1>3 DEF SaveForm, Stored, IInv, TypeOK
  <2>2. row \in TestRow
    <3>1. kept \in SUBSET Questions /\ renamed \in BOOLEAN
      BY <2>1 DEF TestRow
    <3> HIDE DEF renamed
    <3> QED
      BY <2>1, <3>1 DEF TestRow
  <2>3. tests' = [tests EXCEPT ![key] = row]
    BY <1>3 DEF SaveForm
  <2> HIDE DEF row
  <2>4. Stored' = Stored
    BY <2>1, <2>2, <2>3, RowAssumption DEF Stored, IInv, TypeOK
  <2>5. ~ Commit(i)
    BY <1>3 DEF SaveForm, Commit, Become, Onward, IInv, TypeOK, Run
  <2> QED
    BY <2>4, <2>5 DEF Mine
<1>4. \/ tests' = tests
      \/ \E j \in Runs : Commit(j)
      \/ \E key \in Keys, title \in Titles, kept \in SUBSET StoredQuestions :
            SaveForm(key, title, kept)
  BY DEF Next, Step, Surroundings, Finished, vars, Undecodable, Reject, DryRun, Finish,
         Select, Lock, Insert, Update, Ambiguous, Deadlocked, DeleteQuestions,
         CreateQuestion, Start, Raise, Kill
<1> QED
  BY <1>1, <1>2, <1>3, <1>4

(* What a step may do to the report of a run: leave it alone, ... *)
SameReport(i) ==
    /\ run'[i].stats = run[i].stats /\ run'[i].at = run[i].at
    /\ run'[i].written = run[i].written
    /\ run'[i].batch = run[i].batch /\ run'[i].dry_run = run[i].dry_run
    /\ run[i].pc = "killed" => run'[i].pc = "killed"
    /\ run'[i].pc \notin {"write", "killed"} => run[i].pc \notin {"write", "killed"}

(* ... count a question, ... *)
CountsQuestion(i) ==
    /\ run[i].pc = "write" /\ run'[i].pc = "write"
    /\ run'[i].stats = [run[i].stats EXCEPT !.questions = @ + 1]
    /\ run'[i].at = run[i].at /\ run'[i].written = run[i].written + 1
    /\ run'[i].batch = run[i].batch /\ run'[i].dry_run = run[i].dry_run

(* ... or count a payload and go on. *)
GoesOn(i) ==
    /\ run[i].pc # "killed" /\ run'[i].pc = "next"
    /\ run[i].at <= Len(run[i].batch)
    /\ run'[i].at = run[i].at + 1 /\ run'[i].written = 0
    /\ run'[i].batch = run[i].batch /\ run'[i].dry_run = run[i].dry_run

CountsError(i) ==
    GoesOn(i) /\ run'[i].stats = [run[i].stats EXCEPT !.errors = @ + 1]

CountsDryRun(i) ==
    /\ GoesOn(i) /\ run[i].dry_run /\ run[i].pc = "next"
    /\ LET known == Named(TitleOf[Payload(i)]) # {}
       IN  run'[i].stats = [run[i].stats EXCEPT
               !.updated = IF known THEN @ + 1 ELSE @,
               !.created = IF known THEN @ ELSE @ + 1,
               !.questions = @ + Size[Payload(i)]]

CountsCommit(i) ==
    /\ GoesOn(i) /\ Commit(i) /\ run[i].pc = "write"
    /\ run[i].written = Size[Payload(i)]
    /\ run'[i].stats = [run[i].stats EXCEPT
           !.created = IF run[i].created THEN @ + 1 ELSE @,
           !.updated = IF run[i].created THEN @ ELSE @ + 1]

LEMMA ErrorReport ==
    ASSUME IInv, NEW i \in Runs, Reject(i) \/ Raise(i)
    PROVE  CountsError(i) /\ \A j \in Runs \ {i} : run'[j] = run[j]
<1> DEFINE next == Onward(run[i])
           stats == [next.stats EXCEPT !.errors = @ + 1]
           state == [next EXCEPT !.stats = stats]
<1>1. /\ run \in [Runs -> Run] /\ run[i] \in Run /\ run[i].stats \in Stats
      /\ run[i].at <= Len(run[i].batch) /\ run[i].pc # "killed"
  BY DEF IInv, TypeOK, Run, Reject, Raise, Processing, PlaceHolds, Busy
<1>2. next.stats = run[i].stats
  BY <1>1, OnwardReport
<1>3. stats = [run[i].stats EXCEPT !.errors = @ + 1]
  <2> HIDE DEF next
  <2> QED
    BY <1>2
<1>4. stats \in Stats
  <2> HIDE DEF next
  <2> QED
    BY <1>1, <1>3 DEF Stats
<1>5. run' = [run EXCEPT ![i] = state]
  BY DEF Reject, Raise, Become
<1>6. run'[i] = state /\ \A j \in Runs \ {i} : run'[j] = run[j]
  <2> HIDE DEF state
  <2> QED
    BY <1>1, <1>5
<1> HIDE DEF stats
<1>7. /\ state.stats = stats /\ state.at = run[i].at + 1
      /\ state.written = 0 /\ state.pc = "next"
      /\ state.batch = run[i].batch /\ state.dry_run = run[i].dry_run
  BY <1>1, <1>4, OnwardReport
<1> HIDE DEF state
<1> QED
  BY <1>1, <1>3, <1>6, <1>7 DEF CountsError, GoesOn

LEMMA DryRunReport ==
    ASSUME IInv, NEW i \in Runs, DryRun(i)
    PROVE  CountsDryRun(i) /\ \A j \in Runs \ {i} : run'[j] = run[j]
<1> DEFINE known == Named(TitleOf[Payload(i)]) # {}
           next == Onward(run[i])
           Counted(old) == [old EXCEPT
                              !.updated = IF known THEN @ + 1 ELSE @,
                              !.created = IF known THEN @ ELSE @ + 1,
                              !.questions = @ + Size[Payload(i)]]
           stats == Counted(next.stats)
           state == [next EXCEPT !.stats = stats]
<1>1. /\ run \in [Runs -> Run] /\ run[i] \in Run /\ run[i].stats \in Stats
      /\ run[i].at <= Len(run[i].batch) /\ run[i].pc = "next" /\ run[i].dry_run
  BY DEF IInv, TypeOK, Run, DryRun, Processing
<1>2. next.stats = run[i].stats
  BY <1>1, OnwardReport
<1>3. stats = Counted(run[i].stats)
  <2> HIDE DEF next, known
  <2> QED
    BY <1>2
<1>4. stats \in Stats
  <2>1. Size[Payload(i)] \in Nat
    BY <1>1, PayloadTyped
  <2>2. run[i].stats.questions + Size[Payload(i)] \in Nat
    BY <1>1, <2>1 DEF Stats
  <2> DEFINE updated == IF known THEN run[i].stats.updated + 1
                        ELSE run[i].stats.updated
             created == IF known THEN run[i].stats.created
                        ELSE run[i].stats.created + 1
             questions == run[i].stats.questions + Size[Payload(i)]
  <2>3. updated \in Nat /\ created \in Nat
    BY <1>1 DEF Stats
  <2>4. stats = [run[i].stats EXCEPT !.updated = updated, !.created = created,
                                     !.questions = questions]
    <3> HIDE DEF next, known
    <3> QED
      BY <1>1, <1>2 DEF Stats
  <2> HIDE DEF stats, updated, created, questions
  <2>5. questions \in Nat
    BY <2>2 DEF questions
  <2> QED
    BY <1>1, <2>3, <2>4, <2>5 DEF Stats
<1>5. run' = [run EXCEPT ![i] = state]
  BY DEF DryRun, Become
<1>6. run'[i] = state /\ \A j \in Runs \ {i} : run'[j] = run[j]
  <2> HIDE DEF state
  <2> QED
    BY <1>1, <1>5
<1> HIDE DEF stats
<1>7. /\ state.stats = stats /\ state.at = run[i].at + 1
      /\ state.written = 0 /\ state.pc = "next"
      /\ state.batch = run[i].batch /\ state.dry_run = run[i].dry_run
  BY <1>1, <1>4, OnwardReport
<1> HIDE DEF state
<1>8. GoesOn(i) /\ run'[i].stats = Counted(run[i].stats)
  <2> HIDE DEF Counted
  <2> QED
    BY <1>1, <1>3, <1>6, <1>7 DEF GoesOn
<1> QED
  BY <1>1, <1>6, <1>8 DEF CountsDryRun

LEMMA CreateQuestionReport ==
    ASSUME IInv, NEW i \in Runs, CreateQuestion(i)
    PROVE  CountsQuestion(i) /\ \A j \in Runs \ {i} : run'[j] = run[j]
<1> DEFINE stats == [run[i].stats EXCEPT !.questions = @ + 1]
           state == [run[i] EXCEPT !.written = @ + 1, !.stats = stats]
<1>1. run \in [Runs -> Run] /\ run[i] \in Run /\ run[i].pc = "write"
  BY DEF IInv, TypeOK, CreateQuestion
<1>2. run' = [run EXCEPT ![i] = state]
  BY DEF CreateQuestion, Become
<1>3. run'[i] = state /\ \A j \in Runs \ {i} : run'[j] = run[j]
  <2> HIDE DEF state
  <2> QED
    BY <1>1, <1>2
<1>4. /\ state.stats = stats /\ state.at = run[i].at /\ state.pc = run[i].pc
      /\ state.written = run[i].written + 1
      /\ state.batch = run[i].batch /\ state.dry_run = run[i].dry_run
  <2> HIDE DEF stats
  <2> QED
    BY <1>1 DEF Run
<1> HIDE DEF state
<1> QED
  BY <1>1, <1>3, <1>4 DEF CountsQuestion

(* The steps that only move a run along, or meet it with another. *)
LEMMA QuietReport ==
    ASSUME IInv, NEW i \in Runs,
           \/ Undecodable(i) \/ Finish(i) \/ Select(i) \/ Insert(i) \/ Update(i)
           \/ DeleteQuestions(i) \/ Kill(i)
    PROVE  \A j \in Runs : SameReport(j)
<1>1. run \in [Runs -> Run] /\ run[i] \in Run
  BY DEF IInv, TypeOK
<1>2. ASSUME NEW pc, NEW found, NEW created, NEW test, NEW gone,
             run[i].pc # "killed", pc \notin {"write", "killed"} => run[i].pc # "write",
             run' = [run EXCEPT ![i] = [run[i] EXCEPT !.pc = pc, !.found = found,
                       !.created = created, !.test = test, !.gone = gone]]
      PROVE  \A j \in Runs : SameReport(j)
  <2> DEFINE state == [run[i] EXCEPT !.pc = pc, !.found = found,
                                !.created = created, !.test = test, !.gone = gone]
  <2>1. /\ state.stats = run[i].stats /\ state.at = run[i].at /\ state.pc = pc
        /\ state.written = run[i].written
        /\ state.batch = run[i].batch /\ state.dry_run = run[i].dry_run
    BY <1>1 DEF Run
  <2>2. run' = [run EXCEPT ![i] = state]
    BY <1>2
  <2> HIDE DEF state
  <2>3. run'[i] = state /\ \A j \in Runs \ {i} : run'[j] = run[j]
    BY <1>1, <2>2
  <2>4. SameReport(i)
    BY <1>2, <2>1, <2>3 DEF SameReport
  <2> QED
    BY <2>3, <2>4 DEF SameReport
<1> DEFINE Becomes(pc, found, created, test, gone) ==
             /\ run[i].pc # "killed"
             /\ pc \notin {"write", "killed"} => run[i].pc # "write"
             /\ run' = [run EXCEPT ![i] = [run[i] EXCEPT !.pc = pc, !.found = found,
                         !.created = created, !.test = test, !.gone = gone]]
<1>3. \E pc, found, created, test, gone : Becomes(pc, found, created, test, gone)
  <2> DEFINE found == run[i].found
             created == run[i].created
             test == run[i].test
             gone == run[i].gone
  <2>1. CASE Finish(i)
    <3>1. Becomes("done", found, created, test, gone)
      BY <1>1, <2>1 DEF Finish, Become, Run
    <3> QED
      BY <3>1
  <2>2. CASE Select(i)
    <3>1. Becomes("lock", Named(TitleOf[Payload(i)]), created, test, gone)
      BY <1>1, <2>2 DEF Select, Become, Run, Processing
    <3> QED
      BY <3>1
  <2>3. CASE Insert(i)
    <3>1. Becomes("write", found, TRUE, Here(i), gone)
      BY <1>1, <2>3 DEF Insert, Become, Run
    <3> QED
      BY <3>1
  <2>4. CASE Update(i)
    <3>1. PICK key \in Matching(i) :
             Become(i, [run[i] EXCEPT !.pc = "delete", !.created = FALSE, !.test = key])
      BY <2>4 DEF Update
    <3>2. Becomes("delete", found, FALSE, key, gone)
      BY <1>1, <2>4, <3>1 DEF Update, Become, Run
    <3> QED
      BY <3>2
  <2>5. CASE DeleteQuestions(i)
    <3>1. Becomes("write", found, created, test, tests[test].questions)
      BY <1>1, <2>5 DEF DeleteQuestions, Become, Run
    <3> QED
      BY <3>1
  <2>6. CASE Undecodable(i) \/ Kill(i)
    <3>1. Become(i, [run[i] EXCEPT !.pc = "killed"]) /\ run[i].pc # "killed"
      BY <2>6 DEF Undecodable, Kill, UnderWay
    <3>2. Becomes("killed", found, created, test, gone)
      BY <1>1, <3>1 DEF Become, Run
    <3> QED
      BY <3>2
  <2> HIDE DEF Becomes
  <2> QED
    BY <2>1, <2>2, <2>3, <2>4, <2>5, <2>6
<1>4. PICK pc, found, created, test, gone : Becomes(pc, found, created, test, gone)
  BY <1>3
<1> QED
  BY <1>2, <1>4

LEMMA StartReport ==
    ASSUME IInv, NEW i \in Runs, Start(i)
    PROVE  \A j \in Runs : SameReport(j)
<1> DEFINE others == {j \in Runs : UnderWay(j)}
<1>1. run \in [Runs -> Run]
  BY DEF IInv, TypeOK
<1>2. run' = [j \in Runs |->
                IF j = i THEN [run[j] EXCEPT !.pc = "next", !.met = @ \cup others]
                ELSE IF j \in others THEN [run[j] EXCEPT !.met = @ \cup {i}]
                ELSE run[j]]
  BY DEF Start
<1>3. ASSUME NEW j \in Runs PROVE SameReport(j)
  <2>1. run[j] \in Run
    BY <1>1
  <2>2. CASE j = i
    <3>1. run'[j] = [run[j] EXCEPT !.pc = "next", !.met = @ \cup others]
      BY <1>2, <2>2
    <3>2. run[j].pc = "idle"
      BY <2>2 DEF Start
    <3> HIDE DEF others
    <3> QED
      BY <2>1, <3>1, <3>2 DEF SameReport, Run
  <2>3. CASE j # i /\ j \in others
    <3>1. run'[j] = [run[j] EXCEPT !.met = @ \cup {i}]
      BY <1>2, <2>3
    <3> QED
      BY <2>1, <3>1 DEF SameReport, Run
  <2>4. CASE j # i /\ j \notin others
    BY <1>2, <2>4 DEF SameReport
  <2> QED
    BY <2>2, <2>3, <2>4
<1> QED
  BY <1>3

LEMMA ReportCases ==
    ASSUME IInv, [Next]_vars, NEW i \in Runs
    PROVE  \/ SameReport(i) \/ CountsQuestion(i)
           \/ CountsError(i) \/ CountsDryRun(i) \/ CountsCommit(i)
<1>1. ASSUME run'[i] = run[i] PROVE SameReport(i)
  BY <1>1 DEF SameReport
<1>2. ASSUME NEW j \in Runs, Step(j) \/ Start(j) \/ Raise(j) \/ Kill(j)
      PROVE  \/ SameReport(i) \/ CountsQuestion(i)
             \/ CountsError(i) \/ CountsDryRun(i) \/ CountsCommit(i)
  <2>1. CASE Reject(j) \/ Raise(j) \/ Ambiguous(j) \/ Deadlocked(j)
    BY <1>1, <2>1, ErrorReport DEF Ambiguous, Deadlocked
  <2>2. CASE DryRun(j)
    BY <1>1, <2>2, DryRunReport
  <2>3. CASE CreateQuestion(j)
    BY <1>1, <2>3, CreateQuestionReport
  <2>4. CASE Commit(j)
    <3>1. CASE j = i
      <4>1. run[i].at <= Len(run[i].batch)
        BY <2>4, <3>1, CommittedReport DEF IInv, PlaceHolds, Busy
      <4> QED
        BY <2>4, <3>1, <4>1, CommittedReport DEF CountsCommit, GoesOn
    <3> QED
      BY <1>1, <2>4, <3>1, CommittedReport
  <2>5. CASE \/ Undecodable(j) \/ Finish(j) \/ Select(j) \/ Insert(j) \/ Update(j)
             \/ DeleteQuestions(j) \/ Kill(j) \/ Start(j)
    BY <2>5, QuietReport, StartReport
  <2>6. CASE Lock(j)
    BY <1>1, <2>6 DEF Lock
  <2> QED
    BY <1>2, <2>1, <2>2, <2>3, <2>4, <2>5, <2>6 DEF Step
<1>3. CASE run' = run
  BY <1>3 DEF SameReport
<1>4. \/ \E j \in Runs : Step(j) \/ Start(j) \/ Raise(j) \/ Kill(j)
      \/ run' = run
  BY DEF Next, Surroundings, Finished, vars, SaveForm
<1> QED
  BY <1>2, <1>3, <1>4

LEMMA ReportKeeps ==
    ASSUME IInv, [Next]_vars, NEW i \in Runs, ReportHolds(i)
    PROVE  ReportHolds(i)'
<1> DEFINE state == run[i]
           stats == run[i].stats
           at == run[i].at
           batch == run[i].batch
           Sum(n) == QuestionSum(batch, 1 .. n)
<1>1. /\ run[i] \in Run /\ stats \in Stats /\ at \in Nat \ {0} /\ batch \in Batches
      /\ state.written \in Nat
  BY TestImportAssumption DEF IInv, TypeOK, Run
<1>2. /\ stats.created \in Nat /\ stats.updated \in Nat
      /\ stats.errors \in Nat /\ stats.questions \in Nat
  BY <1>1 DEF Stats
<1>3. /\ at <= Len(batch) + 1
      /\ stats.created + stats.updated + stats.errors = at - 1
      /\ IsFiniteSet(Mine(i))
      /\ ~ state.dry_run => stats.created = Cardinality(Mine(i))
      /\ stats.errors = 0 /\ state.pc # "killed" =>
           stats.questions = Sum(at - 1) + state.written
      /\ state.pc \notin {"write", "killed"} => state.written = 0
  BY DEF ReportHolds
<1>4. /\ stats.created \in Nat /\ stats.updated \in Nat /\ stats.errors \in Nat
      /\ at \in Nat /\ stats.created + stats.updated + stats.errors = at - 1
  BY <1>1, <1>2, <1>3
<1>5. CASE SameReport(i)
  <2>1. ~ (Commit(i) /\ run[i].created)
    BY <1>5, CommittedReport, <1>1 DEF SameReport
  <2>2. Mine(i)' = Mine(i)
    BY <2>1, MineStep
  <2> QED
    BY <1>3, <1>5, <2>2 DEF ReportHolds, SameReport
<1>6. CASE CountsQuestion(i)
  <2>1. Mine(i)' = Mine(i)
    BY <1>6, CommittedReport, MineStep DEF CountsQuestion
  <2>2. /\ run'[i].stats.created = stats.created
        /\ run'[i].stats.updated = stats.updated
        /\ run'[i].stats.errors = stats.errors
        /\ run'[i].stats.questions = stats.questions + 1
    BY <1>1, <1>6 DEF CountsQuestion, Stats
  <2>3. /\ at - 1 \in Nat /\ at - 1 <= Len(batch)
    BY <1>1, <1>3, BatchesTyped
  <2>4. Sum(at - 1) \in Int
    BY <1>1, <2>3, QuestionSumType
  <2> HIDE DEF Sum
  <2>5. stats.errors = 0 => stats.questions + 1 = Sum(at - 1) + (state.written + 1)
    BY <1>1, <1>2, <1>3, <1>6, <2>4 DEF CountsQuestion
  <2> QED
    BY <1>3, <1>6, <2>1, <2>2, <2>5 DEF ReportHolds, CountsQuestion, Sum
<1>7. ASSUME GoesOn(i)
      PROVE  /\ Sum(at) = Sum(at - 1) + Size[Payload(i)]
             /\ Sum(at - 1) \in Int /\ Size[Payload(i)] \in Nat
             /\ run'[i].at - 1 = at /\ run'[i].at <= Len(batch) + 1
             /\ run'[i].batch = batch /\ run'[i].dry_run = state.dry_run
             /\ run'[i].written = 0 /\ run'[i].pc = "next"
  <2>1. at <= Len(batch) /\ Len(batch) \in Nat
    BY <1>1, <1>7, BatchesTyped, TestImportAssumption DEF GoesOn
  <2>2. Sum(at) = Sum(at - 1) + Size[batch[at]]
    BY <1>1, <2>1, QuestionSumGrows
  <2>3. at - 1 \in Nat /\ at - 1 <= Len(batch)
    BY <1>1, <2>1
  <2>4. Sum(at - 1) \in Int
    BY <1>1, <2>3, QuestionSumType
  <2>5. Size[Payload(i)] \in Nat
    BY <1>1, <2>1, PayloadTyped
  <2> HIDE DEF Sum
  <2> QED
    BY <1>1, <1>7, <2>1, <2>2, <2>4, <2>5 DEF GoesOn, Payload
<1>8. CASE CountsError(i)
  <2>1. ~ (Commit(i) /\ run[i].created)
    <3>1. ASSUME Commit(i), run[i].created PROVE FALSE
      <4>1. run'[i].stats.errors = stats.errors
        <5>1. run'[i].stats = [stats EXCEPT
                 !.created = IF run[i].created THEN @ + 1 ELSE @,
                 !.updated = IF run[i].created THEN @ ELSE @ + 1]
          BY <3>1, CommittedReport
        <5> QED
          BY <1>1, <5>1 DEF Stats
      <4>2. run'[i].stats.errors = stats.errors + 1
        BY <1>1, <1>8 DEF CountsError, Stats
      <4> QED
        BY <1>2, <4>1, <4>2
    <3> QED
      BY <3>1
  <2>2. Mine(i)' = Mine(i)
    BY <2>1, MineStep
  <2>3. /\ run'[i].stats.created = stats.created
        /\ run'[i].stats.updated = stats.updated
        /\ run'[i].stats.errors = stats.errors + 1
    BY <1>1, <1>8 DEF CountsError, Stats
  <2>4. GoesOn(i)
    BY <1>8 DEF CountsError
  <2> HIDE DEF Sum
  <2>5. run'[i].stats.created + run'[i].stats.updated + run'[i].stats.errors = at
    BY <1>4, <2>3
  <2>6. /\ run'[i].at - 1 = at /\ run'[i].at <= Len(batch) + 1
        /\ run'[i].batch = batch /\ run'[i].dry_run = state.dry_run
        /\ run'[i].written = 0 /\ run'[i].pc = "next"
    BY <1>7, <2>4
  <2>7. run'[i].stats.errors # 0
    BY <1>2, <2>3
  <2>8. ~ run'[i].dry_run => run'[i].stats.created = Cardinality(Mine(i)')
    BY <1>3, <2>2, <2>3, <2>6
  <2>9. IsFiniteSet(Mine(i)')
    BY <1>3, <2>2
  <2> HIDE DEF state, stats, at, batch
  <2> QED
    BY <2>5, <2>6, <2>7, <2>8, <2>9 DEF ReportHolds
<1>9. CASE CountsDryRun(i)
  <2>1. ~ (Commit(i) /\ run[i].created)
    BY <1>9, CommittedReport DEF CountsDryRun
  <2>2. Mine(i)' = Mine(i)
    BY <2>1, MineStep
  <2> DEFINE known == Named(TitleOf[Payload(i)]) # {}
  <2>3. /\ run'[i].stats.created = IF known THEN stats.created ELSE stats.created + 1
        /\ run'[i].stats.updated = IF known THEN stats.updated + 1 ELSE stats.updated
        /\ run'[i].stats.errors = stats.errors
        /\ run'[i].stats.questions = stats.questions + Size[Payload(i)]
    <3>1. run'[i].stats = [stats EXCEPT
               !.updated = IF known THEN @ + 1 ELSE @,
               !.created = IF known THEN @ ELSE @ + 1,
               !.questions = @ + Size[Payload(i)]]
      BY <1>9 DEF CountsDryRun
    <3> HIDE DEF known
    <3> QED
      BY <1>1, <3>1 DEF Stats
  <2> HIDE DEF known
  <2>4. GoesOn(i) /\ run[i].dry_run /\ run[i].pc = "next"
    BY <1>9 DEF CountsDryRun
  <2> HIDE DEF Sum
  <2>5. run'[i].stats.created + run'[i].stats.updated + run'[i].stats.errors = at
    BY <1>4, <2>3
  <2>6. stats.errors = 0 => run'[i].stats.questions = Sum(at) + 0
    BY <1>1, <1>2, <1>3, <1>7, <2>3, <2>4
  <2> QED
    BY <1>3, <1>7, <2>2, <2>3, <2>4, <2>5, <2>6 DEF ReportHolds, Sum
<1>10. CASE CountsCommit(i)
  <2>1. GoesOn(i) /\ Commit(i) /\ run[i].pc = "write"
        /\ run[i].written = Size[Payload(i)]
    BY <1>10 DEF CountsCommit
  <2>2. /\ run'[i].stats.created =
             IF run[i].created THEN stats.created + 1 ELSE stats.created
        /\ run'[i].stats.updated =
             IF run[i].created THEN stats.updated ELSE stats.updated + 1
        /\ run'[i].stats.errors = stats.errors
        /\ run'[i].stats.questions = stats.questions
    BY <1>1, <1>10 DEF CountsCommit, Stats
  <2>3. IF run[i].created
        THEN Mine(i)' = Mine(i) \cup {Here(i)} /\ Here(i) \notin Mine(i)
        ELSE Mine(i)' = Mine(i)
    BY <2>1, MineStep
  <2>4. IsFiniteSet(Mine(i)')
        /\ Cardinality(Mine(i)') = IF run[i].created THEN Cardinality(Mine(i)) + 1
                                   ELSE Cardinality(Mine(i))
    BY <1>3, <2>3, FS_AddElement
  <2> HIDE DEF Sum
  <2>5. run'[i].stats.created + run'[i].stats.updated + run'[i].stats.errors = at
    BY <1>4, <2>2
  <2>6. stats.errors = 0 => run'[i].stats.questions = Sum(at) + 0
    BY <1>1, <1>2, <1>3, <1>7, <2>1, <2>2
  <2> QED
    BY <1>3, <1>7, <2>1, <2>2, <2>4, <2>5, <2>6 DEF ReportHolds, Sum
<1> QED
  BY <1>5, <1>6, <1>8, <1>9, <1>10, ReportCases

(* For every set of runs, batches and payloads, whatever overlaps, fails or is *)
(* killed: a run counts each payload it has passed once, created is the number *)
(* of tests it put into the table, and without an error the questions are      *)
(* those of its payloads (TestImportStats).                                    *)
THEOREM StatsAlwaysTellTheTruth == Spec => []StatsTellTheTruth
<1> DEFINE Reported == \A i \in Runs : ReportHolds(i)
<1>1. Init => Reported
  <2> SUFFICES ASSUME Init, NEW i \in Runs PROVE ReportHolds(i)
    OBVIOUS
  <2>1. PICK batch \in Batches, dry_run \in BOOLEAN :
          run[i] = [pc |-> "idle", batch |-> batch, at |-> 1, dry_run |-> dry_run,
                    found |-> {}, test |-> <<CHOOSE j \in Runs : TRUE, 1>>,
                    created |-> FALSE, gone |-> {}, written |-> 0,
                    stats |-> NoStats, met |-> {}]
    BY DEF Init
  <2>2. /\ run[i].at = 1 /\ run[i].batch = batch /\ run[i].written = 0
        /\ run[i].stats = NoStats /\ run[i].pc = "idle"
    BY <2>1
  <2>3. Mine(i) = {}
    BY DEF Init, Mine, Stored
  <2>4. QuestionSum(batch, 1 .. 0) = 0
    <3>1. 1 .. 0 = {}
      OBVIOUS
    <3> QED
      BY <3>1, TotalEmpty, Zenon DEF QuestionSum
  <2>5. Len(batch) \in Nat
    BY BatchesTyped, TestImportAssumption
  <2> QED
    BY <2>2, <2>3, <2>4, <2>5, FS_EmptySet DEF ReportHolds, NoStats
<1>2. IInv /\ Reported /\ [Next]_vars => Reported'
  BY ReportKeeps
<1>3. IInv /\ Reported => StatsTellTheTruth
  <2> SUFFICES ASSUME IInv, Reported, NEW i \in Runs
               PROVE  LET stats  == run[i].stats
                          passed == 1 .. run[i].at - 1
                      IN  /\ stats.created + stats.updated + stats.errors = run[i].at - 1
                          /\ ~ run[i].dry_run =>
                               stats.created = Cardinality({k \in Stored : k[1] = i})
                          /\ stats.errors = 0 /\ run[i].pc \in {"next", "done"} =>
                               stats.questions =
                                 MapThenSumSet(LAMBDA k : Size[run[i].batch[k]], passed)
    BY DEF StatsTellTheTruth
  <2> DEFINE passed == 1 .. run[i].at - 1
             batch == run[i].batch
  <2>1. run[i].at \in Nat \ {0} /\ batch \in Batches
    BY TestImportAssumption DEF IInv, TypeOK, Run
  <2>2. IsFiniteSet(passed)
    <3>1. run[i].at - 1 \in Int
      BY <2>1
    <3> QED
      BY <3>1, FS_Interval
  <2>3. MapThenSumSet(LAMBDA k : Size[batch[k]], passed) = QuestionSum(batch, passed)
    <3> HIDE DEF passed, batch
    <3> QED
      BY <2>2, QuestionSumIs
  <2>4. run[i].at - 1 \in Nat /\ run[i].at - 1 <= Len(batch)
    BY <2>1, BatchesTyped, TestImportAssumption DEF ReportHolds
  <2>5. QuestionSum(batch, passed) \in Int
    BY <2>1, <2>4, QuestionSumType
  <2> HIDE DEF Reported
  <2>6. ReportHolds(i)
    BY DEF Reported
  <2> QED
    BY <2>3, <2>5, <2>6 DEF ReportHolds, Mine
<1> HIDE DEF Reported
<1> QED
  BY <1>1, <1>2, <1>3, InvariantHolds, PTL DEF Spec
-----------------------------------------------------------------------------
(* A question and its answers: what the grader makes of a short answer. *)

(* The characters of a text that count, and how many of them are before one. *)
Solid(text) == {k \in DOMAIN text : text[k] \notin DegreeSigns \cup {"space"}}
Nth(text, k) == Cardinality({j \in Solid(text) : j < k})

LEMMA SolidCounted ==
    ASSUME NEW text \in Seq(Chars)
    PROVE  /\ IsFiniteSet(Solid(text)) /\ Cardinality(Solid(text)) \in Nat
           /\ Solid(text) \subseteq 1 .. Len(text)
           /\ \A k : IsFiniteSet({j \in Solid(text) : j < k}) /\ Nth(text, k) \in Nat
<1>1. Len(text) \in Nat /\ DOMAIN text = 1 .. Len(text)
  OBVIOUS
<1>2. Solid(text) \subseteq 1 .. Len(text) /\ IsFiniteSet(1 .. Len(text))
  BY <1>1, FS_Interval DEF Solid
<1>3. IsFiniteSet(Solid(text))
  BY <1>2, FS_Subset
<1>4. \A k : {j \in Solid(text) : j < k} \in SUBSET Solid(text)
  OBVIOUS
<1>5. \A k : IsFiniteSet({j \in Solid(text) : j < k})
  BY <1>3, <1>4, FS_Subset
<1> QED
  BY <1>2, <1>3, <1>5, FS_CardinalityType DEF Nth

(* Numbering them is counting up without a gap. *)
LEMMA SolidNumbered ==
    ASSUME NEW text \in Seq(Chars)
    PROVE  {1 + Nth(text, k) : k \in Solid(text)} = 1 .. Cardinality(Solid(text))
<1> DEFINE S == Solid(text)
           Before == {pair \in S \X S : pair[1] < pair[2]}
<1>1. \A a, b \in S : <<a, b>> \in Before <=> a < b
  OBVIOUS
<1>2. S \subseteq Int /\ IsFiniteSet(S)
  BY SolidCounted
<1>3. StrictOrder(S, Before)
  <2> HIDE DEF S, Before
  <2> QED
    BY <1>1, <1>2 DEF StrictOrder
<1>4. Positions(S, Before) = 1 .. Cardinality(S)
  <2> HIDE DEF S, Before
  <2> QED
    BY <1>2, <1>3, PositionsOfAStrictOrder
<1>5. \A k \in S : {j \in S : <<j, k>> \in Before} = {j \in S : j < k}
  BY <1>1
<1> QED
  BY <1>4, <1>5 DEF Positions, Nth

(* The equation of the loop of _normalize_answer, for the first N characters. *)
Keeps(g, text, N) ==
    g = [n \in 0 .. N |->
           IF n = 0 THEN <<>>
           ELSE IF text[n] \in DegreeSigns \cup {"space"} THEN g[n - 1]
           ELSE Append(g[n - 1], NormalizeChar(text[n]))]

LEMMA KeepsExists ==
    ASSUME NEW text, NEW N \in Nat
    PROVE  \E g : Keeps(g, text, N)
<1> DEFINE Good == {n \in 0 .. N : \E g : Keeps(g, text, n)}
           Term(h, n) == IF n = 0 THEN <<>>
                         ELSE IF text[n] \in DegreeSigns \cup {"space"} THEN h[n - 1]
                         ELSE Append(h[n - 1], NormalizeChar(text[n]))
<1>1. 0 \in Good
  <2> DEFINE g == [n \in 0 .. 0 |-> <<>>]
  <2>1. g = [n \in 0 .. 0 |-> Term(g, n)]
    OBVIOUS
  <2>2. Keeps(g, text, 0)
    BY <2>1 DEF Keeps
  <2> QED
    BY <2>2
<1>2. ASSUME NEW n \in 1 .. N, n - 1 \in Good PROVE n \in Good
  <2>1. PICK h : Keeps(h, text, n - 1)
    BY <1>2
  <2>2. \A k \in 0 .. n - 1 : h[k] = Term(h, k)
    BY <2>1 DEF Keeps
  <2> DEFINE g == [k \in 0 .. n |-> IF k = n THEN Term(h, n) ELSE h[k]]
  <2>3. ASSUME NEW k \in 0 .. n PROVE g[k] = Term(g, k)
    <3>1. k # 0 => g[k - 1] = h[k - 1]
      OBVIOUS
    <3>2. g[k] = Term(h, k)
      <4> HIDE DEF Term
      <4> QED
        BY <2>2
    <3> HIDE DEF g
    <3> QED
      BY <3>1, <3>2
  <2>4. g = [k \in 0 .. n |-> Term(g, k)]
    <3> HIDE DEF Term
    <3> QED
      BY <2>3
  <2>5. Keeps(g, text, n)
    <3> HIDE DEF g
    <3> QED
      BY <2>4 DEF Keeps
  <2> QED
    BY <2>5
<1>3. 0 .. N \subseteq Good
  <2> HIDE DEF Good
  <2> QED
    BY <1>1, <1>2, CountingUp
<1> QED
  BY <1>3

LEMMA NormalizeCharTyped ==
    ASSUME NEW char \in Chars PROVE NormalizeChar(char) \in Chars
BY QuestionsAssumption DEF NormalizeChar

(* After n characters the loop has kept those that count, in their order. *)
LEMMA KeepsSolid ==
    ASSUME NEW text \in Seq(Chars), NEW g, Keeps(g, text, Len(text)),
           NEW n \in 0 .. Len(text)
    PROVE  /\ g[n] \in Seq(Chars)
           /\ Len(g[n]) = Cardinality({j \in Solid(text) : j < n + 1})
           /\ \A j \in Solid(text) :
                j <= n => g[n][1 + Nth(text, j)] = NormalizeChar(text[j])
<1> DEFINE First(m) == {j \in Solid(text) : j < m + 1}
           Holds(m) == /\ g[m] \in Seq(Chars)
                       /\ Len(g[m]) = Cardinality(First(m))
                       /\ \A j \in Solid(text) :
                            j <= m => g[m][1 + Nth(text, j)] = NormalizeChar(text[j])
           Good == {m \in 0 .. Len(text) : Holds(m)}
<1>1. Len(text) \in Nat /\ DOMAIN text = 1 .. Len(text)
  OBVIOUS
<1>2. \A m \in 0 .. Len(text) :
        g[m] = IF m = 0 THEN <<>>
               ELSE IF text[m] \in DegreeSigns \cup {"space"} THEN g[m - 1]
               ELSE Append(g[m - 1], NormalizeChar(text[m]))
  BY DEF Keeps
<1>3. \A m : IsFiniteSet(First(m)) /\ Cardinality(First(m)) \in Nat
  BY SolidCounted, FS_CardinalityType
<1>4. Solid(text) \subseteq 1 .. Len(text)
  BY SolidCounted
<1>5. Holds(0)
  <2>1. First(0) = {}
    BY <1>4
  <2>2. Cardinality(First(0)) = 0
    BY <2>1, FS_EmptySet
  <2>3. g[0] = <<>>
    BY <1>1, <1>2
  <2>4. \A j \in Solid(text) : ~ j <= 0
    BY <1>4
  <2> QED
    BY <2>2, <2>3, <2>4
<1>6. ASSUME NEW m \in 1 .. Len(text), Holds(m - 1) PROVE Holds(m)
  <2>0. m \in 0 .. Len(text) /\ m # 0 /\ m - 1 \in Nat
    OBVIOUS
  <2>1. CASE text[m] \in DegreeSigns \cup {"space"}
    <3>1. m \notin Solid(text)
      BY <2>1 DEF Solid
    <3>2. First(m) = First(m - 1)
      BY <3>1, <1>4
    <3>3. \A j \in Solid(text) : j <= m => j <= m - 1
      BY <3>1, <1>4
    <3>4. g[m] = g[m - 1]
      BY <1>2, <2>0, <2>1
    <3> HIDE DEF First
    <3> QED
      BY <1>6, <3>2, <3>3, <3>4
  <2>2. CASE text[m] \notin DegreeSigns \cup {"space"}
    <3>1. m \in Solid(text)
      BY <1>1, <2>2 DEF Solid
    <3>2. First(m) = First(m - 1) \cup {m} /\ m \notin First(m - 1)
      BY <3>1, <1>4
    <3>3. Cardinality(First(m)) = Cardinality(First(m - 1)) + 1
      <4> HIDE DEF First
      <4> QED
        BY <1>3, <3>2, FS_AddElement
    <3>4. g[m] = Append(g[m - 1], NormalizeChar(text[m]))
      BY <1>2, <2>0, <2>2
    <3>5. text[m] \in Chars
      BY <1>1
    <3>6. /\ g[m] \in Seq(Chars) /\ Len(g[m]) = Len(g[m - 1]) + 1
          /\ g[m][Len(g[m - 1]) + 1] = NormalizeChar(text[m])
          /\ \A i \in 1 .. Len(g[m - 1]) : g[m][i] = g[m - 1][i]
      <4> DEFINE old == g[m - 1]
                 new == NormalizeChar(text[m])
      <4>1. old \in Seq(Chars) /\ new \in Chars /\ g[m] = Append(old, new)
        BY <1>6, <3>4, <3>5, NormalizeCharTyped
      <4> HIDE DEF old, new
      <4>2. /\ g[m] \in Seq(Chars) /\ Len(g[m]) = Len(old) + 1
            /\ g[m][Len(old) + 1] = new
            /\ \A i \in 1 .. Len(old) : g[m][i] = old[i]
        BY <4>1
      <4> QED
        BY <4>2 DEF old, new
    <3>7. First(m - 1) = {j \in Solid(text) : j < m}
      BY <1>4
    <3>8. Nth(text, m) = Cardinality(First(m - 1))
      BY <3>7, Zenon DEF Nth
    <3>9. g[m][1 + Nth(text, m)] = NormalizeChar(text[m])
      <4> HIDE DEF First
      <4> QED
        BY <1>3, <1>6, <3>6, <3>8
    <3>10. ASSUME NEW j \in Solid(text), j <= m - 1
           PROVE  g[m][1 + Nth(text, j)] = NormalizeChar(text[j])
      <4>1. {i \in Solid(text) : i < j} \in SUBSET First(m - 1)
        BY <3>10, <1>4
      <4>2. j \in First(m - 1) /\ j \notin {i \in Solid(text) : i < j}
        BY <3>10, <1>4
      <4>3. 1 + Nth(text, j) \in 1 .. Cardinality(First(m - 1))
        <5> DEFINE before == {i \in Solid(text) : i < j}
        <5>1. before \cup {j} \in SUBSET First(m - 1) /\ j \notin before
          BY <4>1, <4>2
        <5>2. IsFiniteSet(before) /\ Cardinality(before) \in Nat
          BY SolidCounted, FS_CardinalityType
        <5> HIDE DEF before, First
        <5>3. Cardinality(before \cup {j}) = Cardinality(before) + 1
          BY <5>1, <5>2, FS_AddElement
        <5>4. Cardinality(before \cup {j}) <= Cardinality(First(m - 1))
          BY <5>1, <1>3, FS_Subset
        <5> QED
          BY <5>2, <5>3, <5>4, <1>3 DEF before, Nth
      <4>4. g[m][1 + Nth(text, j)] = g[m - 1][1 + Nth(text, j)]
        <5> HIDE DEF First
        <5> QED
          BY <1>6, <3>6, <4>3
      <4> QED
        BY <1>6, <3>10, <4>4
    <3>11. \A j \in Solid(text) : j <= m => j = m \/ j <= m - 1
      BY <1>4
    <3> HIDE DEF First
    <3> QED
      BY <1>3, <1>6, <3>3, <3>6, <3>9, <3>10, <3>11
  <2> QED
    BY <2>1, <2>2
<1>7. 0 .. Len(text) \subseteq Good
  <2>1. 0 \in Good /\ \A m \in 1 .. Len(text) : m - 1 \in Good => m \in Good
    <3>1. \A m \in 1 .. Len(text) : m \in 0 .. Len(text)
      BY <1>1
    <3>2. 0 \in 0 .. Len(text)
      BY <1>1
    <3> HIDE DEF Holds
    <3> QED
      BY <1>5, <1>6, <3>1, <3>2
  <2> HIDE DEF Good
  <2> QED
    BY <1>1, <2>1, CountingUp
<1> QED
  BY <1>7

LEMMA NormalizeSolves ==
    ASSUME NEW text, Len(text) \in Nat
    PROVE  \E g : Keeps(g, text, Len(text)) /\ Normalize(text) = g[Len(text)]
<1> DEFINE Solves(g) ==
             g = [n \in 0 .. Len(text) |->
                    IF n = 0 THEN <<>>
                    ELSE IF text[n] \in DegreeSigns \cup {"space"} THEN g[n - 1]
                    ELSE Append(g[n - 1], NormalizeChar(text[n]))]
           kept == CHOOSE g : Solves(g)
<1>1. \A g : Solves(g) <=> Keeps(g, text, Len(text))
  BY DEF Keeps
<1>2. \E g : Solves(g)
  <2> HIDE DEF Solves
  <2> QED
    BY <1>1, KeepsExists
<1>3. Solves(kept)
  <2> HIDE DEF Solves
  <2> QED
    BY <1>2
<1>4. Normalize(text) = kept[Len(text)]
  BY DEF Normalize
<1>5. Keeps(kept, text, Len(text))
  <2> HIDE DEF Solves, kept
  <2> QED
    BY <1>1, <1>3
<1> HIDE DEF kept
<1> QED
  BY <1>4, <1>5

(* The normal form: the characters that count, each in its own normal form. *)
LEMMA NormalizeKeepsSolid ==
    ASSUME NEW text \in Seq(Chars)
    PROVE  /\ Normalize(text) \in Seq(Chars)
           /\ Len(Normalize(text)) = Cardinality(Solid(text))
           /\ \A j \in Solid(text) :
                Normalize(text)[1 + Nth(text, j)] = NormalizeChar(text[j])
<1>1. Len(text) \in Nat
  OBVIOUS
<1>2. PICK g : Keeps(g, text, Len(text)) /\ Normalize(text) = g[Len(text)]
  BY <1>1, NormalizeSolves
<1>3. {j \in Solid(text) : j < Len(text) + 1} = Solid(text)
  BY <1>1, SolidCounted
<1>4. \A j \in Solid(text) : j <= Len(text)
  BY <1>1, SolidCounted
<1>5. Len(text) \in 0 .. Len(text)
  BY <1>1
<1>6. /\ g[Len(text)] \in Seq(Chars)
      /\ Len(g[Len(text)]) = Cardinality({j \in Solid(text) : j < Len(text) + 1})
      /\ \A j \in Solid(text) :
           j <= Len(text) => g[Len(text)][1 + Nth(text, j)] = NormalizeChar(text[j])
  BY <1>2, <1>5, KeepsSolid
<1> QED
  BY <1>2, <1>3, <1>4, <1>6, Zenon

LEMMA SameNormalChar ==
    ASSUME NEW a, NEW b
    PROVE  NormalizeChar(a) = NormalizeChar(b)
             <=> a = b \/ {a, b} \in {{"comma", "dot"}, {"a", "A"}}
<1>1. ASSUME NEW c, NEW d
      PROVE  {a, b} = {c, d} <=> (a = c /\ b = d) \/ (a = d /\ b = c)
  OBVIOUS
<1>2. {a, b} \in {{"comma", "dot"}, {"a", "A"}}
        <=> \/ a = "comma" /\ b = "dot"
            \/ a = "dot" /\ b = "comma"
            \/ a = "a" /\ b = "A"
            \/ a = "A" /\ b = "a"
  <2>1. {a, b} \in {{"comma", "dot"}, {"a", "A"}}
          <=> {a, b} = {"comma", "dot"} \/ {a, b} = {"a", "A"}
    OBVIOUS
  <2> QED
    BY <1>1, <2>1, Zenon
<1>3. /\ a = "comma" => NormalizeChar(a) = "dot"
      /\ a = "A" => NormalizeChar(a) = "a"
      /\ a # "comma" /\ a # "A" => NormalizeChar(a) = a
  BY DEF NormalizeChar
<1>4. /\ b = "comma" => NormalizeChar(b) = "dot"
      /\ b = "A" => NormalizeChar(b) = "a"
      /\ b # "comma" /\ b # "A" => NormalizeChar(b) = b
  BY DEF NormalizeChar
<1> QED
  BY <1>2, <1>3, <1>4

(* Two texts have one normal form exactly if they say the same. *)
LEMMA SameNormalForm ==
    ASSUME NEW text \in Seq(Chars), NEW written \in Seq(Chars)
    PROVE  Normalize(text) = Normalize(written) <=> AsWritten(text, written)
<1> DEFINE Same(a, b) == a = b \/ {a, b} \in {{"comma", "dot"}, {"a", "A"}}
           Alike == /\ Cardinality(Solid(text)) = Cardinality(Solid(written))
                    /\ \A j \in Solid(text), k \in Solid(written) :
                         Nth(text, j) = Nth(written, k) => Same(text[j], written[k])
           n == Cardinality(Solid(text))
<1>1. AsWritten(text, written) <=> Alike
  BY DEF AsWritten, Solid, Nth
<1>2. ASSUME Normalize(text) = Normalize(written) PROVE Alike
  <2>1. Cardinality(Solid(text)) = Cardinality(Solid(written))
    BY <1>2, NormalizeKeepsSolid
  <2>2. ASSUME NEW j \in Solid(text), NEW k \in Solid(written),
               Nth(text, j) = Nth(written, k)
        PROVE  Same(text[j], written[k])
    <3>1. NormalizeChar(text[j]) = NormalizeChar(written[k])
      BY <1>2, <2>2, NormalizeKeepsSolid
    <3> QED
      BY <3>1, SameNormalChar
  <2> QED
    BY <2>1, <2>2
<1>3. ASSUME Alike PROVE Normalize(text) = Normalize(written)
  <2>1. n \in Nat
    BY SolidCounted
  <2>2. /\ Normalize(text) \in Seq(Chars) /\ Len(Normalize(text)) = n
        /\ Normalize(written) \in Seq(Chars) /\ Len(Normalize(written)) = n
    BY <1>3, NormalizeKeepsSolid
  <2>3. ASSUME NEW i \in 1 .. n PROVE Normalize(text)[i] = Normalize(written)[i]
    <3>1. PICK j \in Solid(text) : 1 + Nth(text, j) = i
      BY SolidNumbered
    <3>2. PICK k \in Solid(written) : 1 + Nth(written, k) = i
      BY <1>3, SolidNumbered
    <3>3. Nth(text, j) = Nth(written, k)
      <4>1. Nth(text, j) \in Nat /\ Nth(written, k) \in Nat
        BY SolidCounted
      <4> QED
        BY <3>1, <3>2, <4>1
    <3>4. Same(text[j], written[k])
      BY <1>3, <3>3
    <3>5. NormalizeChar(text[j]) = NormalizeChar(written[k])
      BY <3>4, SameNormalChar
    <3> QED
      BY <3>1, <3>2, <3>5, NormalizeKeepsSolid
  <2> DEFINE one == Normalize(text)
             two == Normalize(written)
  <2>4. /\ one \in Seq(Chars) /\ Len(one) = n /\ two \in Seq(Chars) /\ Len(two) = n
        /\ \A i \in 1 .. n : one[i] = two[i]
    BY <2>2, <2>3
  <2>5. one = two
    <3> HIDE DEF one, two, n
    <3> QED
      BY <2>1, <2>4
  <2> QED
    BY <2>5
<1> QED
  BY <1>1, <1>2, <1>3
-----------------------------------------------------------------------------
(* What the grader makes of an ordering. *)

ChoiceList == Seq([text : BOOLEAN, is_correct : BOOLEAN, order : Int])

Earlier(choices) ==
    {pair \in (DOMAIN choices) \X (DOMAIN choices) :
        \/ choices[pair[1]].order < choices[pair[2]].order
        \/ choices[pair[1]].order = choices[pair[2]].order /\ pair[1] < pair[2]}

Place(choices, c) == Cardinality({b \in DOMAIN choices : <<b, c>> \in Earlier(choices)})

LEMMA Numbered ==
    ASSUME NEW n \in Nat PROVE IsFiniteSet(1 .. n) /\ Cardinality(1 .. n) = n
BY FS_Interval

LEMMA EarlierIsStrict ==
    ASSUME NEW choices \in ChoiceList
    PROVE  /\ DOMAIN choices = 1 .. Len(choices) /\ Len(choices) \in Nat
           /\ IsFiniteSet(DOMAIN choices) /\ Cardinality(DOMAIN choices) = Len(choices)
           /\ StrictOrder(DOMAIN choices, Earlier(choices))
           /\ \A a, b \in DOMAIN choices :
                <<a, b>> \in Earlier(choices)
                  <=> \/ choices[a].order < choices[b].order
                      \/ choices[a].order = choices[b].order /\ a < b
           /\ \A c \in DOMAIN choices : Place(choices, c) \in Nat
           /\ \A a, b \in DOMAIN choices :
                <<a, b>> \in Earlier(choices) => Place(choices, a) < Place(choices, b)
<1> DEFINE D == DOMAIN choices
<1>1. D = 1 .. Len(choices) /\ Len(choices) \in Nat
  BY DEF ChoiceList
<1>2. IsFiniteSet(D) /\ Cardinality(D) = Len(choices)
  <2> HIDE DEF D
  <2> QED
    BY <1>1, Numbered
<1>3. ASSUME NEW c \in D PROVE c \in Int /\ choices[c].order \in Int
  <2>1. c \in 1 .. Len(choices)
    BY <1>1
  <2>2. choices[c].order \in Int
    <3> DEFINE Choice == [text : BOOLEAN, is_correct : BOOLEAN, order : Int]
    <3>1. choices \in Seq(Choice)
      BY DEF ChoiceList
    <3>2. \A row \in Choice : row.order \in Int
      OBVIOUS
    <3> HIDE DEF Choice
    <3>3. choices[c] \in Choice
      BY <2>1, <3>1
    <3> QED
      BY <3>2, <3>3
  <2> QED
    BY <1>1, <2>1, <2>2
<1>4. \A a, b \in D :
        <<a, b>> \in Earlier(choices)
          <=> \/ choices[a].order < choices[b].order
              \/ choices[a].order = choices[b].order /\ a < b
  BY DEF Earlier
<1>5. StrictOrder(D, Earlier(choices))
  <2> HIDE DEF D
  <2> QED
    BY <1>3, <1>4 DEF StrictOrder
<1>6. ASSUME NEW c \in D PROVE Place(choices, c) \in Nat
  BY <1>2, FS_Subset, FS_CardinalityType DEF Place
<1>7. \A a, b \in D :
        <<a, b>> \in Earlier(choices) => Place(choices, a) < Place(choices, b)
  <2> HIDE DEF D
  <2> QED
    BY <1>2, <1>5, FewerAhead DEF Place, D
<1> QED
  BY <1>1, <1>2, <1>4, <1>5, <1>6, <1>7

(* The key that sorted() puts at k is the one with k - 1 keys before it. *)
LEMMA CorrectSequencePlaces ==
    ASSUME NEW choices \in ChoiceList
    PROVE  /\ CorrectSequence(choices) \in [DOMAIN choices -> DOMAIN choices]
           /\ \A k \in DOMAIN choices :
                Place(choices, CorrectSequence(choices)[k]) = k - 1
           /\ \A c \in DOMAIN choices : \E k \in DOMAIN choices :
                CorrectSequence(choices)[k] = c
<1> DEFINE D == DOMAIN choices
           Before(a, b) == \/ choices[a].order < choices[b].order
                           \/ choices[a].order = choices[b].order /\ a < b
           At(k) == CHOOSE c \in D : Cardinality({b \in D : Before(b, c)}) = k - 1
<1>1. CorrectSequence(choices) = [k \in D |-> At(k)]
  BY DEF CorrectSequence
<1>2. \A c \in D : Cardinality({b \in D : Before(b, c)}) = Place(choices, c)
  <2> SUFFICES ASSUME NEW c \in D
               PROVE  Cardinality({b \in D : Before(b, c)}) = Place(choices, c)
    OBVIOUS
  <2>1. {b \in D : Before(b, c)} = {b \in D : <<b, c>> \in Earlier(choices)}
    BY EarlierIsStrict
  <2> QED
    BY <2>1, Zenon DEF Place
<1>3. {1 + Place(choices, c) : c \in D} = D
  <2>1. Positions(D, Earlier(choices)) = 1 .. Cardinality(D)
    BY EarlierIsStrict, PositionsOfAStrictOrder
  <2> QED
    BY <2>1, EarlierIsStrict DEF Positions, Place
<1>4. ASSUME NEW k \in D PROVE At(k) \in D /\ Place(choices, At(k)) = k - 1
  <2>1. PICK c \in D : 1 + Place(choices, c) = k
    BY <1>3
  <2>2. Place(choices, c) = k - 1
    BY <2>1, EarlierIsStrict
  <2>3. Cardinality({b \in D : Before(b, c)}) = k - 1
    BY <1>2, <2>2
  <2>4. At(k) \in D /\ Cardinality({b \in D : Before(b, At(k))}) = k - 1
    <3> HIDE DEF D, Before
    <3> QED
      BY <2>3
  <2> HIDE DEF At, Before, D
  <2> QED
    BY <1>2, <2>4
<1>5. ASSUME NEW c \in D PROVE \E k \in D : At(k) = c
  <2> DEFINE k == 1 + Place(choices, c)
  <2>1. k \in D
    BY <1>3
  <2>2. At(k) \in D /\ Place(choices, At(k)) = Place(choices, c)
    <3>1. At(k) \in D /\ Place(choices, At(k)) = k - 1
      <4> HIDE DEF At, k
      <4> QED
        BY <1>4, <2>1
    <3>2. k - 1 = Place(choices, c)
      BY EarlierIsStrict
    <3> HIDE DEF At
    <3> QED
      BY <3>1, <3>2
  <2> HIDE DEF At, k
  <2>3. At(k) = c
    <3>1. /\ ~ Place(choices, At(k)) < Place(choices, c)
          /\ ~ Place(choices, c) < Place(choices, At(k))
      BY <2>2, EarlierIsStrict
    <3>2. <<At(k), c>> \notin Earlier(choices) /\ <<c, At(k)>> \notin Earlier(choices)
      BY <2>2, <3>1, EarlierIsStrict
    <3> QED
      BY <2>2, <3>2, EarlierIsStrict DEF StrictOrder
  <2> QED
    BY <2>1, <2>3
<1> HIDE DEF At
<1> QED
  BY <1>1, <1>4, <1>5

(* An ordering of all choices is the correct one exactly if it ascends. *)
LEMMA OnlyOneAscends ==
    ASSUME NEW choices \in ChoiceList, NEW sequence \in Seq(Int)
    PROVE  /\ Range(sequence) = DOMAIN choices
           /\ Len(sequence) = Cardinality(DOMAIN choices)
           /\ sequence = CorrectSequence(choices)
           <=> Ascending(choices, sequence)
<1> DEFINE D == DOMAIN choices
           n == Len(choices)
           right == CorrectSequence(choices)
<1>1. D = 1 .. n /\ n \in Nat /\ Cardinality(D) = n /\ IsFiniteSet(D)
  BY EarlierIsStrict
<1>2. DOMAIN sequence = 1 .. Len(sequence) /\ Len(sequence) \in Nat
  OBVIOUS
<1>3. \A a, b \in D :
        <<a, b>> \in Earlier(choices)
          <=> \/ choices[a].order < choices[b].order
              \/ choices[a].order = choices[b].order /\ a < b
  BY EarlierIsStrict
<1>4. ASSUME Range(sequence) = D, Len(sequence) = Cardinality(D), sequence = right
      PROVE  Ascending(choices, sequence)
  <2>1. DOMAIN sequence = D
    BY <1>1, <1>2, <1>4
  <2>2. ASSUME NEW j \in D, NEW k \in D, j < k
        PROVE  <<sequence[j], sequence[k]>> \in Earlier(choices)
    <3>1. /\ right[j] \in D /\ right[k] \in D
          /\ Place(choices, right[j]) = j - 1 /\ Place(choices, right[k]) = k - 1
      BY CorrectSequencePlaces
    <3>2. j \in Int /\ k \in Int
      BY <1>1
    <3>3. right[j] # right[k]
      BY <2>2, <3>1, <3>2
    <3>4. <<right[k], right[j]>> \notin Earlier(choices)
      BY <2>2, <3>1, <3>2, EarlierIsStrict
    <3>5. <<right[j], right[k]>> \in Earlier(choices)
      BY <3>1, <3>3, <3>4, EarlierIsStrict DEF StrictOrder
    <3> QED
      BY <1>4, <3>5
  <2>3. \A j \in D : sequence[j] \in D
    BY <1>4, CorrectSequencePlaces
  <2> HIDE DEF D, right, n
  <2> QED
    BY <1>1, <1>3, <1>4, <2>1, <2>2, <2>3 DEF Ascending, D, n
<1>5. ASSUME Ascending(choices, sequence)
      PROVE  /\ Range(sequence) = D /\ Len(sequence) = Cardinality(D)
             /\ sequence = right
  <2>1. Range(sequence) = D /\ Len(sequence) = n /\ DOMAIN sequence = D
    BY <1>1, <1>2, <1>5 DEF Ascending
  <2>2. \A j \in D : sequence[j] \in D
    BY <2>1 DEF Range
  <2>3. \A j, k \in D : j < k => <<sequence[j], sequence[k]>> \in Earlier(choices)
    BY <1>3, <1>5, <2>1, <2>2 DEF Ascending
  <2>4. ASSUME NEW k \in D PROVE Place(choices, sequence[k]) = k - 1
    <3> DEFINE ahead == {b \in D : <<b, sequence[k]>> \in Earlier(choices)}
               part == [j \in 1 .. (k - 1) |-> sequence[j]]
    <3>1. k \in Nat /\ k >= 1 /\ 1 .. (k - 1) \subseteq D
      BY <1>1
    <3>2. ASSUME NEW j \in 1 .. (k - 1) PROVE sequence[j] \in ahead
      <4>1. j \in D /\ j < k
        BY <3>1
      <4> QED
        BY <4>1, <2>2, <2>3
    <3>3. ASSUME NEW b \in ahead PROVE \E j \in 1 .. (k - 1) : sequence[j] = b
      <4>1. PICK j \in D : sequence[j] = b
        BY <2>1 DEF Range
      <4>2. j # k /\ ~ k < j
        <5>1. <<sequence[j], sequence[k]>> \in Earlier(choices)
          BY <4>1
        <5>2. <<sequence[k], sequence[k]>> \notin Earlier(choices)
          BY <2>2, EarlierIsStrict DEF StrictOrder
        <5>3. ASSUME k < j PROVE FALSE
          <6>1. <<sequence[k], sequence[j]>> \in Earlier(choices)
            BY <5>3, <2>3
          <6> QED
            BY <6>1, <5>1, <5>2, <2>2, EarlierIsStrict DEF StrictOrder
        <5> QED
          BY <5>1, <5>2, <5>3
      <4> QED
        BY <1>1, <3>1, <4>1, <4>2
    <3>4. \A i, j \in 1 .. (k - 1) : sequence[i] = sequence[j] => i = j
      <4> SUFFICES ASSUME NEW i \in 1 .. (k - 1), NEW j \in 1 .. (k - 1),
                          sequence[i] = sequence[j], i < j
                   PROVE  FALSE
        OBVIOUS
      <4>1. <<sequence[i], sequence[j]>> \in Earlier(choices) /\ sequence[i] \in D
        BY <2>2, <2>3, <3>1
      <4> QED
        BY <4>1, EarlierIsStrict DEF StrictOrder
    <3>5. part \in Bijection(1 .. (k - 1), ahead)
      <4>1. part \in [1 .. (k - 1) -> ahead]
        BY <3>2
      <4>2. \A i, j \in 1 .. (k - 1) : part[i] = part[j] => i = j
        BY <3>4
      <4>3. \A b \in ahead : \E j \in 1 .. (k - 1) : part[j] = b
        BY <3>3
      <4> HIDE DEF part, ahead
      <4> QED
        BY <4>1, <4>2, <4>3 DEF Bijection, Injection, Surjection, IsInjective
    <3>6. IsFiniteSet(1 .. (k - 1)) /\ Cardinality(1 .. (k - 1)) = k - 1
      <4>1. k - 1 \in Nat
        BY <3>1
      <4> QED
        BY <4>1, Numbered
    <3>7. Cardinality(ahead) = k - 1
      <4>1. ExistsBijection(1 .. (k - 1), ahead)
        BY <3>5 DEF ExistsBijection
      <4> HIDE DEF ahead
      <4> QED
        BY <3>6, <4>1, FS_Bijection
    <3> QED
      BY <3>7 DEF Place
  <2>5. ASSUME NEW k \in D PROVE sequence[k] = right[k]
    <3>1. /\ right[k] \in D /\ Place(choices, right[k]) = k - 1
          /\ sequence[k] \in D /\ Place(choices, sequence[k]) = k - 1
      BY <2>2, <2>4, CorrectSequencePlaces
    <3>2. /\ <<sequence[k], right[k]>> \notin Earlier(choices)
          /\ <<right[k], sequence[k]>> \notin Earlier(choices)
      BY <3>1, EarlierIsStrict
    <3> QED
      BY <3>1, <3>2, EarlierIsStrict DEF StrictOrder
  <2>6. right = [k \in D |-> right[k]] /\ sequence = [k \in D |-> sequence[k]]
    BY <2>1, CorrectSequencePlaces
  <2> HIDE DEF right, D
  <2>7. sequence = right
    BY <2>5, <2>6
  <2> QED
    BY <1>1, <2>1, <2>7
<1> QED
  BY <1>4, <1>5
-----------------------------------------------------------------------------
(* What the importer has stored of a question it admits. *)

LEMMA Parsed ==
    ASSUME NEW source \in RawQuestions, ParsesCleanly(source)
    PROVE  LET row  == ParseQuestion(source)
               type == CanonicalType(source.type)
           IN  /\ row.type = type /\ type \in QuestionType
               /\ type = "short_answer" =>
                     row.correct_answer = source.correct_answer
                     /\ ~ Blank(source.correct_answer)
               /\ type = "matching" =>
                     row.matching = source.pairs /\ MatchingIsValid(source)
               /\ type \in {"single", "multiple", "ordering"} =>
                     row.choices = source.choices
                     /\ ChoicesAreValid(source.choices, type)
               /\ source.choices \in ChoiceList /\ source.correct_answer \in Seq(Chars)
<1> DEFINE row  == ParseQuestion(source)
           type == CanonicalType(source.type)
<1>1. /\ type \in QuestionType
      /\ type = "short_answer" => ~ Blank(source.correct_answer)
      /\ type = "matching" => MatchingIsValid(source)
      /\ type \in {"single", "multiple", "ordering"} =>
            ChoicesAreValid(ChoicesOf(source), type)
  BY DEF ParsesCleanly
<1>2. /\ row.type = type
      /\ type = "short_answer" => row.correct_answer = source.correct_answer
      /\ type = "matching" => row.matching = source.pairs
      /\ type \in {"single", "multiple", "ordering"} => row.choices = ChoicesOf(source)
  <2> HIDE DEF type
  <2> QED
    BY DEF ParseQuestion, type
<1>3. ASSUME type \in {"single", "multiple", "ordering"}
      PROVE  ChoicesOf(source) = source.choices
  <2>1. Len(ChoicesOf(source)) >= 2
    BY <1>1, <1>3 DEF ChoicesAreValid
  <2> QED
    BY <2>1 DEF ChoicesOf
<1>4. source.choices \in ChoiceList /\ source.correct_answer \in Seq(Chars)
  BY QuestionsAssumption DEF ChoiceList
<1> HIDE DEF row, type
<1>5. /\ row.type = type /\ type \in QuestionType
      /\ type = "short_answer" =>
            row.correct_answer = source.correct_answer /\ ~ Blank(source.correct_answer)
      /\ type = "matching" => row.matching = source.pairs /\ MatchingIsValid(source)
      /\ type \in {"single", "multiple", "ordering"} =>
            row.choices = source.choices /\ ChoicesAreValid(source.choices, type)
  BY <1>1, <1>2, <1>3
<1> QED
  BY <1>4, <1>5 DEF row, type

LEMMA Judged ==
    \A right : (Judge(right) = "correct" <=> right) /\ Judge(right) \in {"correct", "wrong"}
BY DEF Judge

(* Of a question that has choices to mark, marking them is a legal answer. *)
LEMMA MarkedFits ==
    ASSUME NEW choices \in ChoiceList, NEW type \in {"single", "multiple"},
           ChoicesAreValid(choices, type)
    PROVE  /\ Marked(choices) \in SUBSET (DOMAIN choices) /\ Marked(choices) # {}
           /\ IsFiniteSet(Marked(choices)) /\ Cardinality(Marked(choices)) \in Nat
           /\ type = "single" => Cardinality(Marked(choices)) = 1
<1>1. Marked(choices) \in SUBSET (DOMAIN choices)
  BY DEF Marked
<1>2. Marked(choices) # {} /\ (type = "single" => Cardinality(Marked(choices)) <= 1)
  BY DEF ChoicesAreValid
<1>3. IsFiniteSet(Marked(choices))
  BY <1>1, EarlierIsStrict, FS_Subset
<1>4. Cardinality(Marked(choices)) \in Nat /\ Cardinality(Marked(choices)) # 0
  BY <1>2, <1>3, FS_CardinalityType, FS_EmptySet
<1> QED
  BY <1>1, <1>2, <1>3, <1>4

(* What the author of a question means by it. *)
Means(source, sent) ==
    CASE CanonicalType(source.type) = "short_answer" ->
            sent.text_answer # <<>> /\ AsWritten(sent.text_answer, source.correct_answer)
      [] CanonicalType(source.type) = "matching" -> SamePairs(sent.matching, source.pairs)
      [] CanonicalType(source.type) = "ordering" -> Ascending(source.choices, sent.ordering)
      [] OTHER -> Range(sent.choice_ids)
                      = {k \in DOMAIN source.choices : source.choices[k].is_correct}

(* Stripping the targets hits the pairs of the author exactly if the answer   *)
(* has the same pairs up to blanks at the ends.                               *)
LEMMA StrippedPairs ==
    ASSUME NEW source \in RawQuestions, TargetsCanBeHit(source), NEW sent
    PROVE  Received(sent).matching = source.pairs
              <=> SamePairs(sent.matching, source.pairs)
<1> DEFINE given == sent.matching
           pairs == source.pairs
<1>1. Received(sent).matching = [left \in DOMAIN given |-> Stripped[given[left]]]
  BY DEF Received
<1>2. pairs = [left \in DOMAIN pairs |-> pairs[left]]
  BY QuestionsAssumption
<1>3. \A left \in DOMAIN pairs : Stripped[pairs[left]] = pairs[left]
  BY DEF TargetsCanBeHit, CanBeHit, Range
<1>4. SamePairs(given, pairs)
        <=> /\ DOMAIN given = DOMAIN pairs
            /\ \A left \in DOMAIN pairs : Stripped[given[left]] = Stripped[pairs[left]]
  BY DEF SamePairs
<1> HIDE DEF given, pairs
<1>5. SamePairs(given, pairs)
        <=> [left \in DOMAIN given |-> Stripped[given[left]]] = pairs
  <2>1. ASSUME SamePairs(given, pairs)
        PROVE  [left \in DOMAIN given |-> Stripped[given[left]]] = pairs
    BY <1>2, <1>3, <1>4, <2>1
  <2>2. ASSUME [left \in DOMAIN given |-> Stripped[given[left]]] = pairs
        PROVE  SamePairs(given, pairs)
    <3>1. DOMAIN given = DOMAIN pairs
      BY <2>2
    <3>2. \A left \in DOMAIN pairs : Stripped[given[left]] = pairs[left]
      BY <2>2, <3>1
    <3> QED
      BY <1>3, <1>4, <3>1, <3>2
  <2> QED
    BY <2>1, <2>2
<1> QED
  BY <1>1, <1>5 DEF given, pairs

LEMMA GradeMeans ==
    ASSUME NEW source \in RawQuestions, ParsesCleanly(source), NEW sent \in Answers,
           CanonicalType(source.type) = "matching" => TargetsCanBeHit(source)
    PROVE  GradeQuestion(ParseQuestion(source), Received(sent)) = "correct"
              <=> Means(source, sent)
<1> DEFINE row  == ParseQuestion(source)
           type == CanonicalType(source.type)
           received == Received(sent)
<1>1. /\ row.type = type /\ type \in QuestionType
      /\ type = "short_answer" => row.correct_answer = source.correct_answer
      /\ type = "matching" => row.matching = source.pairs /\ MatchingIsValid(source)
      /\ type \in {"single", "multiple", "ordering"} =>
            row.choices = source.choices /\ ChoicesAreValid(source.choices, type)
      /\ source.choices \in ChoiceList /\ source.correct_answer \in Seq(Chars)
  BY Parsed
<1>2. /\ sent.ordering \in Seq(Int) /\ sent.text_answer \in Seq(Chars)
      /\ received.choice_ids = sent.choice_ids /\ received.ordering = sent.ordering
      /\ received.text_answer = sent.text_answer
  BY QuestionsAssumption DEF Received
<1>3. type = "matching" =>
        (received.matching = source.pairs <=> SamePairs(sent.matching, source.pairs))
  BY StrippedPairs
<1> HIDE DEF row, received
<1>4. CASE type = "short_answer"
  <2>1. GradeQuestion(row, received) = GradeText(row, received)
    BY <1>1, <1>4 DEF GradeQuestion
  <2>2. GradeText(row, received) = "correct"
          <=> /\ sent.text_answer # <<>>
              /\ Normalize(sent.text_answer) = Normalize(source.correct_answer)
    BY <1>1, <1>2, <1>4, Judged DEF GradeText
  <2>3. Normalize(sent.text_answer) = Normalize(source.correct_answer)
          <=> AsWritten(sent.text_answer, source.correct_answer)
    BY <1>1, <1>2, SameNormalForm
  <2> QED
    BY <1>4, <2>1, <2>2, <2>3 DEF Means, row, received
<1>5. CASE type = "matching"
  <2>1. GradeQuestion(row, received) = GradeMatching(row, received)
    BY <1>1, <1>5 DEF GradeQuestion
  <2>2. source.pairs # <<>>
    BY <1>1, <1>5 DEF MatchingIsValid
  <2>3. GradeMatching(row, received) = "correct" <=> received.matching = source.pairs
    BY <1>1, <1>5, <2>2, Judged DEF GradeMatching
  <2> QED
    BY <1>5, <1>3, <2>1, <2>3 DEF Means, row, received
<1>6. CASE type = "ordering"
  <2>1. GradeQuestion(row, received) = GradeOrdering(row, received) /\ row.choices = source.choices
    BY <1>1, <1>6 DEF GradeQuestion
  <2>2. GradeOrdering(row, received) = "correct"
          <=> /\ Range(sent.ordering) = DOMAIN source.choices
              /\ Len(sent.ordering) = Cardinality(DOMAIN source.choices)
              /\ sent.ordering = CorrectSequence(source.choices)
    BY <1>2, <2>1, Judged DEF GradeOrdering
  <2>3. GradeOrdering(row, received) = "correct" <=> Ascending(source.choices, sent.ordering)
    BY <1>1, <1>2, <2>2, OnlyOneAscends
  <2> QED
    BY <1>6, <2>1, <2>3 DEF Means, row, received
<1>7. CASE type \in {"single", "multiple"}
  <2> DEFINE selected == Range(sent.choice_ids)
             marked == Marked(source.choices)
  <2>1. /\ GradeQuestion(row, received) = GradeChoices(row, received)
        /\ row.choices = source.choices
    BY <1>1, <1>7 DEF GradeQuestion
  <2>2. /\ marked \in SUBSET (DOMAIN source.choices) /\ marked # {}
        /\ type = "single" => Cardinality(marked) = 1
    BY <1>1, <1>7, MarkedFits
  <2>3. ASSUME selected = marked PROVE GradeChoices(row, received) = "correct"
    <3>1. /\ selected \subseteq DOMAIN row.choices
          /\ row.type = "single" => Cardinality(selected) = 1
          /\ selected # {} /\ selected = Marked(row.choices)
      BY <1>1, <2>1, <2>2, <2>3
    <3> HIDE DEF selected
    <3> QED
      BY <1>2, <3>1, Judged DEF GradeChoices, selected
  <2>4. ASSUME GradeChoices(row, received) = "correct" PROVE selected = marked
    BY <1>2, <2>1, <2>4, Judged DEF GradeChoices
  <2>5. Means(source, sent) <=> selected = marked
    BY <1>7 DEF Means, Marked
  <2> QED
    BY <2>1, <2>3, <2>4, <2>5 DEF row, received
<1> QED
  BY <1>1, <1>4, <1>5, <1>6, <1>7 DEF QuestionType

(* A list of as many or fewer members of a set is one of the lists a user may *)
(* send.                                                                      *)
LEMMA ListedAreLists ==
    ASSUME NEW S, NEW f, NEW m \in 0 .. Cardinality(S), f \in [1 .. m -> S]
    PROVE  f \in Lists(S)
BY DEF Lists

(* A sequence that takes each of its places to a member of D and reaches all. *)
LEMMA ListsAll ==
    ASSUME NEW D, NEW n \in Nat, n >= 2, NEW f \in [1 .. n -> D],
           \A c \in D : \E k \in 1 .. n : f[k] = c
    PROVE  f # <<>> /\ Len(f) = n /\ Range(f) = D
<1>1. f \in Seq(D) /\ Len(f) = n /\ DOMAIN f = 1 .. n
  OBVIOUS
<1>2. Range(f) = D
  BY <1>1 DEF Range
<1> QED
  BY <1>1, <1>2

(* Some answer to every question that the importer admits is correct. *)
LEMMA SomeAnswerIsRight ==
    ASSUME NEW source \in RawQuestions, ParsesCleanly(source),
           CanonicalType(source.type) = "matching" => TargetsCanBeHit(source)
    PROVE  \E sent \in Answers :
              AnswerIsValid(sent)
              /\ GradeQuestion(ParseQuestion(source), Received(sent)) = "correct"
<1> DEFINE row  == ParseQuestion(source)
           type == CanonicalType(source.type)
           D == DOMAIN source.choices
<1>1. /\ row.type = type /\ type \in QuestionType
      /\ type = "short_answer" => row.correct_answer = source.correct_answer
                                  /\ ~ Blank(source.correct_answer)
      /\ type = "matching" => row.matching = source.pairs /\ MatchingIsValid(source)
      /\ type \in {"single", "multiple", "ordering"} =>
            row.choices = source.choices /\ ChoicesAreValid(source.choices, type)
      /\ source.choices \in ChoiceList
  BY Parsed
<1> HIDE DEF row
<1>2. IsInjective(<<>>) /\ Range(<<>>) = {} /\ EmptyAnswer.matching = <<>>
  BY DEF IsInjective, Range, EmptyAnswer
<1>3. CASE type = "short_answer"
  <2> DEFINE sent == [EmptyAnswer EXCEPT !.text_answer = source.correct_answer]
  <2>1. sent \in Answers
    BY AnswersAssumption
  <2>2. /\ sent.text_answer = source.correct_answer
        /\ sent.choice_ids = <<>> /\ sent.ordering = <<>> /\ sent.matching = <<>>
    BY DEF EmptyAnswer
  <2> HIDE DEF sent
  <2>3. AnswerIsValid(sent) /\ sent.text_answer # <<>>
    BY <1>1, <1>2, <1>3, <2>2 DEF AnswerIsValid, Blank
  <2>4. GradeQuestion(row, Received(sent)) = "correct"
    <3>1. Received(sent).text_answer = source.correct_answer
      BY <2>2 DEF Received
    <3>2. GradeQuestion(row, Received(sent)) = GradeText(row, Received(sent))
      BY <1>1, <1>3 DEF GradeQuestion
    <3> QED
      BY <1>1, <1>3, <2>2, <2>3, <3>1, <3>2, Judged DEF GradeText
  <2> QED
    BY <2>1, <2>3, <2>4 DEF row
<1>4. CASE type = "matching"
  <2> DEFINE sent == [EmptyAnswer EXCEPT !.matching = source.pairs]
  <2>1. sent \in Answers
    BY AnswersAssumption
  <2>2. /\ sent.matching = source.pairs
        /\ sent.choice_ids = <<>> /\ sent.ordering = <<>>
    BY DEF EmptyAnswer
  <2>3. source.pairs # <<>> /\ Range(source.pairs) \subseteq DOMAIN Stripped
    BY <1>1, <1>4 DEF MatchingIsValid, TargetsCanBeHit, CanBeHit
  <2> HIDE DEF sent
  <2>4. AnswerIsValid(sent)
    BY <1>2, <2>2, <2>3 DEF AnswerIsValid
  <2>5. GradeQuestion(row, Received(sent)) = "correct"
    <3>1. Received(sent).matching = source.pairs
      BY <1>4, <2>2, StrippedPairs DEF SamePairs
    <3>2. GradeQuestion(row, Received(sent)) = GradeMatching(row, Received(sent))
      BY <1>1, <1>4 DEF GradeQuestion
    <3> QED
      BY <1>1, <1>4, <2>3, <3>1, <3>2, Judged DEF GradeMatching
  <2> QED
    BY <2>1, <2>4, <2>5 DEF row
<1>5. CASE type = "ordering"
  <2> DEFINE right == CorrectSequence(source.choices)
             sent == [EmptyAnswer EXCEPT !.ordering = right]
             n == Len(source.choices)
  <2>1. D = 1 .. n /\ n \in Nat /\ Cardinality(D) = n /\ n >= 2
    BY <1>1, <1>5, EarlierIsStrict DEF ChoicesAreValid
  <2>2. /\ right \in [D -> D]
        /\ \A k \in D : Place(source.choices, right[k]) = k - 1
        /\ \A c \in D : \E k \in D : right[k] = c
    BY <1>1, CorrectSequencePlaces
  <2> HIDE DEF right, n
  <2>3. right \in Lists(D)
    <3>1. Cardinality(D) = n /\ right \in [1 .. n -> D] /\ n \in Nat
      BY <2>1, <2>2
    <3> HIDE DEF D
    <3>2. n \in 0 .. Cardinality(D)
      BY <3>1
    <3> QED
      BY <3>1, <3>2, ListedAreLists, Zenon
  <2>4. sent \in Answers
    BY <2>3, AnswersAssumption
  <2>5. sent.ordering = right /\ sent.choice_ids = <<>> /\ sent.matching = <<>>
    BY DEF EmptyAnswer
  <2> HIDE DEF sent
  <2>6. IsInjective(right)
    <3>1. \A j, k \in D : right[j] = right[k] => j = k
      BY <2>1, <2>2
    <3> QED
      BY <2>2, <3>1 DEF IsInjective
  <2>7. right # <<>> /\ Len(right) = n /\ Range(right) = D
    <3>1. right \in [1 .. n -> D] /\ \A c \in D : \E k \in 1 .. n : right[k] = c
      BY <2>1, <2>2
    <3> HIDE DEF D
    <3> QED
      BY <2>1, <3>1, ListsAll
  <2>8. AnswerIsValid(sent)
    BY <1>2, <2>5, <2>6, <2>7 DEF AnswerIsValid
  <2>9. GradeQuestion(row, Received(sent)) = "correct"
    <3>1. GradeQuestion(row, Received(sent)) = GradeOrdering(row, Received(sent))
          /\ row.choices = source.choices
      BY <1>1, <1>5 DEF GradeQuestion
    <3>2. Received(sent).ordering = right
      BY <2>5 DEF Received
    <3> QED
      BY <2>1, <2>7, <3>1, <3>2, Judged DEF GradeOrdering, right
  <2> QED
    BY <2>4, <2>8, <2>9 DEF row
<1>6. CASE type \in {"single", "multiple"}
  <2> DEFINE marked == Marked(source.choices)
             m == Cardinality(marked)
  <2>1. /\ marked \in SUBSET D /\ marked # {} /\ IsFiniteSet(marked) /\ m \in Nat
        /\ type = "single" => m = 1
    BY <1>1, <1>6, MarkedFits
  <2>2. m <= Cardinality(D) /\ Cardinality(D) \in Nat
    BY <1>1, <2>1, EarlierIsStrict, FS_Subset
  <2>3. PICK ids : ids \in Bijection(1 .. m, marked)
    <3> HIDE DEF marked
    <3> QED
      BY <2>1, FS_CardinalityType DEF ExistsBijection
  <2> DEFINE sent == [EmptyAnswer EXCEPT !.choice_ids = ids]
  <2> HIDE DEF marked, m
  <2>4. /\ ids \in [1 .. m -> marked] /\ IsInjective(ids)
        /\ \A c \in marked : \E k \in 1 .. m : ids[k] = c
    BY <2>3 DEF Bijection, Injection, Surjection, IsInjective
  <2>5. ids \in Lists(D)
    <3>1. ids \in [1 .. m -> D] /\ m \in 0 .. Cardinality(D)
      BY <2>1, <2>2, <2>4
    <3> QED
      BY <3>1 DEF Lists
  <2>6. sent \in Answers
    BY <2>5, AnswersAssumption
  <2>7. sent.choice_ids = ids /\ sent.ordering = <<>> /\ sent.matching = <<>>
    BY DEF EmptyAnswer
  <2> HIDE DEF sent
  <2>8. Range(ids) = marked /\ ids # <<>>
    BY <2>1, <2>4 DEF Range
  <2>9. AnswerIsValid(sent)
    BY <1>2, <2>4, <2>7, <2>8 DEF AnswerIsValid
  <2>10. Means(source, sent)
    BY <1>6, <2>7, <2>8 DEF Means, Marked, marked
  <2> QED
    BY <1>6, <2>6, <2>9, <2>10, GradeMeans
<1> QED
  BY <1>1, <1>3, <1>4, <1>5, <1>6 DEF QuestionType
-----------------------------------------------------------------------------
(* The question bank: the row is what was parsed, the verdict what the grader *)
(* says of it.                                                                *)
QBInv ==
    /\ raw \in RawQuestions
    /\ Admitted => ParsesCleanly(raw) /\ question = ParseQuestion(raw)
    /\ verdict # Unanswered =>
          /\ Admitted /\ answer \in Answers
          /\ verdict = GradeQuestion(question, Received(answer))

LEMMA QBInvariant == QBSpec => []QBInv
<1>1. QBInit => QBInv
  BY DEF QBInit, QBInv, Admitted
<1>2. QBInv /\ [QBNext]_QBvars => QBInv'
  <2> SUFFICES ASSUME QBInv, [QBNext]_QBvars PROVE QBInv'
    OBVIOUS
  <2>1. CASE Import
    <3>1. verdict = Unanswered
      BY <2>1 DEF QBInv, Import, Admitted
    <3>2. raw' = raw /\ verdict' = verdict
          /\ question' = IF ParsesCleanly(raw) THEN ParseQuestion(raw) ELSE Rejected
      BY <2>1 DEF Import
    <3>3. ParsesCleanly(raw)' <=> ParsesCleanly(raw)
      BY <3>2 DEF ParsesCleanly, MatchingIsValid, ChoicesAreValid, ChoicesOf, Marked, Blank
    <3>4. ParseQuestion(raw)' = ParseQuestion(raw)
      BY <3>2 DEF ParseQuestion, ChoicesOf
    <3> QED
      BY <3>1, <3>2, <3>3, <3>4 DEF QBInv, Admitted
  <2>2. ASSUME NEW sent \in Answers, Submit(sent) PROVE QBInv'
    BY <2>2 DEF QBInv, Submit, Admitted
  <2>3. CASE UNCHANGED QBvars
    BY <2>3 DEF QBInv, QBvars, Admitted
  <2> QED
    BY <2>1, <2>2, <2>3 DEF QBNext
<1> QED
  BY <1>1, <1>2, PTL DEF QBSpec

(* A row that the importer stores has a type the grader knows, and, if it is  *)
(* a matching, pairs every left item with a right one (_parse_matching).      *)
THEOREM QuestionTypeAlwaysOK == QBSpec => []QBTypeOK
<1>1. ASSUME QBInv, Admitted
      PROVE  /\ question.type \in QuestionType
             /\ question.type = "matching" =>
                   question.matching \in [Range(raw.left) -> Range(raw.right)]
  <2>1. /\ raw \in RawQuestions /\ ParsesCleanly(raw) /\ question = ParseQuestion(raw)
    BY <1>1 DEF QBInv
  <2>2. /\ question.type = CanonicalType(raw.type) /\ question.type \in QuestionType
        /\ question.type = "matching" =>
              question.matching = raw.pairs /\ MatchingIsValid(raw)
    BY <2>1, Parsed
  <2>3. ASSUME question.type = "matching"
        PROVE  question.matching \in [Range(raw.left) -> Range(raw.right)]
    <3>1. /\ DOMAIN raw.pairs = Range(raw.left)
          /\ Range(raw.pairs) \subseteq Range(raw.right)
      BY <2>2, <2>3 DEF MatchingIsValid
    <3>2. raw.pairs = [left \in DOMAIN raw.pairs |-> raw.pairs[left]]
      BY <2>1, QuestionsAssumption
    <3>3. \A left \in DOMAIN raw.pairs : raw.pairs[left] \in Range(raw.right)
      BY <3>1 DEF Range
    <3> QED
      BY <2>2, <2>3, <3>1, <3>2, <3>3
  <2> QED
    BY <2>2, <2>3
<1>2. ASSUME QBInv PROVE verdict \in {"correct", "wrong", "invalid", Unanswered}
  <2>1. \A row, sent :
          /\ GradeText(row, sent) \in {"correct", "wrong"}
          /\ GradeMatching(row, sent) \in {"correct", "wrong"}
          /\ GradeOrdering(row, sent) \in {"correct", "wrong", "invalid"}
          /\ GradeChoices(row, sent) \in {"correct", "wrong", "invalid"}
    BY Judged DEF GradeText, GradeMatching, GradeOrdering, GradeChoices
  <2>2. \A row, sent : GradeQuestion(row, sent) \in {"correct", "wrong", "invalid"}
    BY <2>1 DEF GradeQuestion
  <2> QED
    BY <1>2, <2>2 DEF QBInv
<1>3. QBInv => QBTypeOK
  BY <1>1, <1>2 DEF QBInv, QBTypeOK
<1> QED
  BY <1>3, QBInvariant, PTL

(* However many choices, pairs or characters a question has: if import_tests  *)
(* admits it and CharField changes none of its targets, an answer that passes *)
(* AnswerInputSerializer is graded correct.                                   *)
THEOREM QuestionsAlwaysAnswerable == QBSpec => []EveryQuestionAnswerable
<1>1. QBInv => EveryQuestionAnswerable
  <2> SUFFICES ASSUME QBInv, Admitted,
                      question.type = "matching" => TargetsCanBeHit(raw)
               PROVE  \E sent \in Answers :
                          /\ AnswerIsValid(sent)
                          /\ GradeQuestion(question, Received(sent)) = "correct"
    BY DEF EveryQuestionAnswerable
  <2>1. raw \in RawQuestions /\ ParsesCleanly(raw) /\ question = ParseQuestion(raw)
    BY DEF QBInv
  <2>2. question.type = CanonicalType(raw.type)
    BY <2>1, Parsed
  <2> QED
    BY <2>1, <2>2, SomeAnswerIsRight
<1> QED
  BY <1>1, QBInvariant, PTL

(* For questions and answers of any size: the grader calls an answer correct  *)
(* exactly if it is what the author of the file wrote (_grade_question after  *)
(* _parse_question).                                                          *)
THEOREM AlwaysGradedAsAuthored == QBSpec => []GradedAsAuthored
<1>1. ASSUME QBInv, verdict # Unanswered,
             question.type = "matching" => TargetsCanBeHit(raw)
      PROVE  verdict = "correct" <=> Intended(answer)
  <2>1. /\ raw \in RawQuestions /\ ParsesCleanly(raw) /\ question = ParseQuestion(raw)
        /\ answer \in Answers
        /\ verdict = GradeQuestion(question, Received(answer))
    BY <1>1 DEF QBInv
  <2>2. question.type = CanonicalType(raw.type)
    BY <2>1, Parsed
  <2>3. verdict = "correct" <=> Means(raw, answer)
    BY <1>1, <2>1, <2>2, GradeMeans
  <2>4. Means(raw, answer) <=> Intended(answer)
    BY <2>2 DEF Means, Intended
  <2> QED
    BY <2>3, <2>4
<1>2. QBInv => GradedAsAuthored
  BY <1>1 DEF GradedAsAuthored
<1> QED
  BY <1>2, QBInvariant, PTL
=============================================================================
