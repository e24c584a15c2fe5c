------------------------- MODULE MaterialImportProofs -------------------------
(* What MaterialImport promises for every tree and any number of runs. *)
EXTENDS MaterialImport, FiniteSetTheorems, WellFoundedInduction, TLAPS

(* The inductive invariant. *)

Working(i) == importer[i].pc \in {"load", "copy", "save"}
Holding(i) == importer[i].pc \in {"copy", "save"}

(* What a run that holds a row knows of it. *)
HoldingHolds(i) ==
    /\ Holding(i) <=> importer[i].copy # NoRow
    /\ importer[i].pc = "copy" => Here(i) \in Files
    /\ Holding(i) =>
          /\ importer[i].at <= Len(Walk) /\ Visited(i) /\ ~ importer[i].dry_run
          /\ Here(i) \in Files \/ importer[i].copy.id = Nothing =>
                importer[i].copy.parent = Wanted(i)

(* A run has its directory for itself. *)
DirHolds(i) ==
    importer[i].pc # "idle" =>
        /\ importer[i].dir \in 1 .. runs
        /\ dirs[importer[i].dir] # NoDir
        /\ \A j \in Importers \ {i} :
              importer[j].pc # "idle" => importer[j].dir # importer[i].dir

(* The directories of the runs to come do not exist. *)
DirsOfRuns == \A dir \in 1 .. MaxRuns : dirs[dir] # NoDir => dir <= runs

(* What is not in the directory of a download is among its failures. *)
DownloadHolds(i) ==
    LET present == dirs[importer[i].dir] \cup importer[i].failures
    IN  /\ importer[i].pc = "download" =>
             importer[i].cleanup
             /\ \A k \in 1 .. importer[i].at - 1 : Walk[k] \in Files => Walk[k] \in present
        /\ Working(i) /\ importer[i].cleanup => Files \subseteq present

(* A key belongs to one node, for as long as anybody remembers it. *)
Keyed(node, key) ==
    \/ rows[node] # NoRow /\ rows[node].id = key
    \/ \E i \in Importers : Holding(i) /\ Here(i) = node /\ importer[i].copy.id = key
    \/ node \in Folders /\ \E i \in Importers : importer[i].cache[node] = key

KeysOwned ==
    \A m \in Nodes, key \in Nat \ {0} :
        Keyed(m, key) => key < serial /\ \A n \in Nodes : Keyed(n, key) => m = n

KeysPositive ==
    /\ serial # 0
    /\ \A node \in Stored : rows[node].id # 0
    /\ \A i \in Importers : Holding(i) => importer[i].copy.id # 0

(* All who remember a row by its key remember the same slug. *)
Remembered(node, key, slug) ==
    \/ rows[node] # NoRow /\ rows[node].id = key /\ rows[node].slug = slug
    \/ \E i \in Importers : /\ Holding(i) /\ Here(i) = node
                            /\ importer[i].copy.id = key /\ importer[i].copy.slug = slug

SlugsAgree ==
    \A node \in Nodes, key \in Nat \ {0} : \A slug, other :
        Remembered(node, key, slug) /\ Remembered(node, key, other) => slug = other

PublishHolds(i) ==
    LET copy == importer[i].copy
        row  == rows[Here(i)]
    IN  Holding(i) /\ ~ importer[i].restated /\ row # NoRow /\ row.id = copy.id =>
            row.is_published = copy.is_published

FileHolds(i) ==
    importer[i].pc = "save" /\ Here(i) \in Files =>
        importer[i].copy.file \in media \/ Here(i) \in importer[i].touched

(* The row of a folder that a run has read is where the run read it, or has   *)
(* been put into its place since.                                             *)
FolderHolds(i) ==
    LET node == Here(i)
        copy == importer[i].copy
    IN  /\ importer[i].pc = "save" /\ node \in Folders /\ copy.id # Nothing
        /\ node \notin importer[i].touched
        => /\ rows[node] # NoRow /\ rows[node].id = copy.id
           /\ rows[node].parent = copy.parent \/ InPlace(node)

(* What a run has passed is in its place, and its map leads there. *)
PlaceHolds(i) ==
    Working(i) /\ ~ importer[i].dry_run =>
        \A node \in Done(i) :
            \/ Excused(i, node)
            \/ InPlace(node) /\ (node \in Folders => importer[i].cache[node] = rows[node].id)

Records == KeysOwned /\ KeysPositive /\ SlugsAgree

OwnHolds(i) ==
    /\ HoldingHolds(i) /\ DownloadHolds(i) /\ PublishHolds(i)
    /\ FileHolds(i) /\ FolderHolds(i) /\ PlaceHolds(i)

IInv ==
    /\ TypeOK /\ IsFiniteSet(media)
    /\ DirsOfRuns /\ Records
    /\ \A i \in Importers : DirHolds(i) /\ OwnHolds(i)
-----------------------------------------------------------------------------
(* The tree, and numbers that are free. *)

LEMMA WalkTyped ==
    /\ Len(Walk) \in Nat /\ DOMAIN Walk = 1 .. Len(Walk)
    /\ 1 \in 1 .. Len(Walk)
    /\ \A k \in 1 .. Len(Walk) : Walk[k] \in Nodes
    /\ \A node \in Nodes : \E k \in 1 .. Len(Walk) : node = Walk[k]
    /\ Root \in Folders /\ Root \in Nodes /\ Root \notin Files
<1>1. Len(Walk) \in Nat /\ DOMAIN Walk = 1 .. Len(Walk)
  BY MaterialImportAssumption
<1>2. \A k \in 1 .. Len(Walk) : Walk[k] \in Nodes
  BY MaterialImportAssumption, <1>1
<1>3. \A node \in Nodes : \E k \in 1 .. Len(Walk) : node = Walk[k]
  BY MaterialImportAssumption, <1>1
<1>4. Root \in Folders /\ Root \in Nodes /\ Root \notin Files
  BY MaterialImportAssumption DEF Nodes
<1>5. 1 \in 1 .. Len(Walk)
  BY <1>1, <1>3, <1>4
<1> QED
  BY <1>1, <1>2, <1>3, <1>4, <1>5

LEMMA ParentTyped ==
    ASSUME NEW k \in 1 .. Len(Walk), Walk[k] # Root
    PROVE  /\ Parent[Walk[k]] \in Folders /\ Parent[Walk[k]] \in Nodes
           /\ \E j \in 1 .. k - 1 : Walk[j] = Parent[Walk[k]]
<1>1. k \in 2 .. Len(Walk)
  BY WalkTyped DEF Root
<1> QED
  BY <1>1, MaterialImportAssumption DEF Nodes

LEMMA NodesFinite == IsFiniteSet(Nodes) /\ Cardinality(Nodes) \in Nat
<1>1. Walk \in Surjection(1 .. Len(Walk), Nodes)
  BY WalkTyped, MaterialImportAssumption DEF Surjection
<1>2. IsFiniteSet(1 .. Len(Walk))
  BY WalkTyped, FS_Interval
<1>3. IsFiniteSet(Nodes)
  BY <1>1, <1>2, FS_Surjection
<1> QED
  BY <1>3, FS_CardinalityType

(* Among more numbers than there are things in T, one is nobody's. *)
LEMMA SomeNumberIsFree ==
    ASSUME NEW T, IsFiniteSet(T), NEW f \in [1 .. Cardinality(T) + 1 -> T]
    PROVE  \E x, y \in 1 .. Cardinality(T) + 1 : x # y /\ f[x] = f[y]
<1>1. Cardinality(T) \in Nat
  BY FS_CardinalityType
<1>2. /\ IsFiniteSet(1 .. Cardinality(T) + 1)
      /\ Cardinality(1 .. Cardinality(T) + 1) = Cardinality(T) + 1
  BY <1>1, FS_Interval
<1> QED
  BY <1>1, <1>2, FS_PigeonHole

LEMMA LeastIsChosen ==
    ASSUME NEW S \in SUBSET Nat, S # {}
    PROVE  (CHOOSE k \in S : \A other \in S : k <= other) \in S
<1> DEFINE R == {ss \in Nat \X Nat : ss[1] < ss[2]}
<1>1. IsWellFoundedOn(R, Nat)
  BY NatLessThanWellFounded DEF OpToRel
<1> HIDE DEF R
<1>2. \E k \in S : \A other \in S : ~ (<<other, k>> \in R)
  BY <1>1, WFMin
<1>3. \A k, other \in S : ~ (<<other, k>> \in R) => k <= other
  BY DEF R
<1> QED
  BY <1>2, <1>3

LEMMA UniqueSlugTyped ==
    ASSUME NEW node \in Nodes
    PROVE  UniqueSlug(node) \in Slug
<1> DEFINE Try(k) == [base |-> Base[node], index |-> k]
           numbers == 1 .. Cardinality(Nodes) + 1
           free == {k \in numbers : \A other \in Stored \cap SameTable(node) :
                        rows[other].slug # Try(k)}
           f == [k \in numbers |-> CHOOSE other \in Nodes : rows[other].slug = Try(k)]
<1>1. free # {}
  <2> SUFFICES ASSUME free = {} PROVE FALSE
    OBVIOUS
  <2>1. \A k \in numbers : \E other \in Nodes : rows[other].slug = Try(k)
    BY DEF Stored
  <2>2. \A k \in numbers : f[k] \in Nodes /\ rows[f[k]].slug = Try(k)
    BY <2>1
  <2> HIDE DEF f
  <2>3. f \in [numbers -> Nodes]
    BY <2>2 DEF f
  <2>4. PICK x, y \in numbers : x # y /\ f[x] = f[y]
    BY <2>3, NodesFinite, SomeNumberIsFree
  <2>5. Try(x) = Try(y)
    BY <2>2, <2>4
  <2>6. Try(x).index = x /\ Try(y).index = y
    OBVIOUS
  <2> QED
    BY <2>4, <2>5, <2>6
<1>2. free \in SUBSET Nat
  BY NodesFinite
<1>3. (CHOOSE k \in free : \A other \in free : k <= other) \in free
  BY <1>1, <1>2, LeastIsChosen
<1>4. Try(CHOOSE k \in free : \A other \in free : k <= other) \in Slug
  BY <1>2, <1>3 DEF Slug
<1> QED
  BY <1>4 DEF UniqueSlug

LEMMA AvailableNameTyped ==
    ASSUME NEW node \in Files, IsFiniteSet(media)
    PROVE  AvailableName(node) \in Media
<1> DEFINE Try(k) == [of |-> node, copy |-> k]
           numbers == 1 .. Cardinality(media) + 1
           free == {k \in numbers : Try(k) \notin media}
           f == [k \in numbers |-> Try(k)]
<1>1. free # {}
  <2> SUFFICES ASSUME free = {} PROVE FALSE
    OBVIOUS
  <2>1. f \in [numbers -> media]
    OBVIOUS
  <2>2. \A k \in numbers : f[k].copy = k
    OBVIOUS
  <2> HIDE DEF f
  <2>3. PICK x, y \in numbers : x # y /\ f[x] = f[y]
    BY <2>1, SomeNumberIsFree
  <2> QED
    BY <2>2, <2>3
<1>2. free \in SUBSET Nat
  BY FS_CardinalityType
<1>3. (CHOOSE k \in free : \A other \in free : k <= other) \in free
  BY <1>1, <1>2, LeastIsChosen
<1>4. Try(CHOOSE k \in free : \A other \in free : k <= other) \in Media
  BY <1>2, <1>3 DEF Media
<1> QED
  BY <1>4 DEF AvailableName
-----------------------------------------------------------------------------
(* Types. *)

LEMMA RunTyped ==
    ASSUME NEW i \in Importers, importer \in [Importers -> Run]
    PROVE  /\ importer[i] \in Run
           /\ importer[i].at <= Len(Walk) =>
                 /\ importer[i].at \in 1 .. Len(Walk) /\ importer[i].at + 1 \in 1 .. Len(Walk) + 1
                 /\ Here(i) \in Nodes
                 /\ Here(i) # Root => Parent[Here(i)] \in Folders
                 /\ Wanted(i) \in Id
<1>1. importer[i] \in Run
  OBVIOUS
<1>2. importer[i].at \in 1 .. Len(Walk) + 1 /\ importer[i].cache \in [Folders -> Id]
  BY <1>1 DEF Run
<1>3. ASSUME importer[i].at <= Len(Walk)
      PROVE  /\ importer[i].at \in 1 .. Len(Walk)
             /\ importer[i].at + 1 \in 1 .. Len(Walk) + 1
  BY <1>2, <1>3, WalkTyped
<1>4. ASSUME importer[i].at <= Len(Walk)
      PROVE  Here(i) \in Nodes /\ (Here(i) # Root => Parent[Here(i)] \in Folders)
  BY <1>3, <1>4, WalkTyped, ParentTyped DEF Here
<1>5. ASSUME importer[i].at <= Len(Walk) PROVE Wanted(i) \in Id
  BY <1>2, <1>4, <1>5 DEF Wanted, Id
<1> QED
  BY <1>1, <1>3, <1>4, <1>5

LEMMA IdleTyped == Idle \in Run
<1>1. 1 \in 1 .. Len(Walk) + 1 /\ 0 \in 0 .. MaxRuns
  BY WalkTyped, MaterialImportAssumption
<1> QED
  BY <1>1 DEF Idle, Run, Id

LEMMA OnwardTyped ==
    ASSUME NEW state \in Run, state.at <= Len(Walk)
    PROVE  /\ Onward(state) \in Run
           /\ Onward(state).pc = "load" /\ Onward(state).at = state.at + 1
           /\ Onward(state).copy = NoRow /\ Onward(state).restated = FALSE
           /\ Onward(state).dir = state.dir /\ Onward(state).cleanup = state.cleanup
           /\ Onward(state).dry_run = state.dry_run /\ Onward(state).cache = state.cache
           /\ Onward(state).errors = state.errors /\ Onward(state).failures = state.failures
           /\ Onward(state).touched = state.touched
<1>1. state.at + 1 \in 1 .. Len(Walk) + 1
  BY WalkTyped DEF Run
<1> QED
  BY <1>1 DEF Onward, Run

LEMMA BecomeTyped ==
    ASSUME NEW i \in Importers, importer \in [Importers -> Run], NEW state \in Run,
           Become(i, state)
    PROVE  /\ importer' \in [Importers -> Run]
           /\ importer'[i] = state
           /\ \A j \in Importers \ {i} : importer'[j] = importer[j]
BY DEF Become

LEMMA RestatedTyped ==
    ASSUME NEW node, importer \in [Importers -> Run]
    PROVE  Restated(node) \in [Importers -> Run]
<1>1. ASSUME NEW j \in Importers PROVE [importer[j] EXCEPT !.restated = TRUE] \in Run
  <2>1. importer[j] \in Run
    OBVIOUS
  <2> QED
    BY <2>1 DEF Run
<1> QED
  BY <1>1 DEF Restated

LEMMA TouchedTyped ==
    ASSUME NEW state \in [Importers -> Run], NEW nodes \in SUBSET Nodes
    PROVE  Touched(state, nodes) \in [Importers -> Run]
<1>1. ASSUME NEW j \in Importers
      PROVE  [state[j] EXCEPT !.touched = @ \cup nodes] \in Run
  <2>1. state[j] \in Run
    OBVIOUS
  <2> QED
    BY <2>1 DEF Run
<1> QED
  BY <1>1 DEF Touched

LEMMA HeldTyped ==
    ASSUME NEW i \in Importers, TypeOK, HoldingHolds(i), Holding(i)
    PROVE  /\ importer[i].copy \in Row /\ Here(i) \in Nodes
           /\ importer[i].at <= Len(Walk) /\ Wanted(i) \in Id
BY RunTyped DEF TypeOK, HoldingHolds, Run

(* What no step of a run on its own disturbs: everything but the runs. *)
TablesTyped ==
    /\ rows \in [Nodes -> Row \cup {NoRow}]
    /\ \A node \in Stored : /\ rows[node].id \in Nat
                            /\ rows[node].parent \in CategoryIds \cup {Nothing}

OthersTyped ==
    /\ media \in SUBSET Media /\ IsFiniteSet(media)
    /\ serial \in Nat
    /\ dirs \in [1 .. MaxRuns -> {NoDir} \cup SUBSET Nodes]
    /\ runs \in 0 .. MaxRuns /\ edits \in 0 .. MaxEdits

Typed == TablesTyped /\ OthersTyped /\ importer \in [Importers -> Run]

LEMMA TypedIsTypeOK == Typed <=> TypeOK /\ IsFiniteSet(media)
BY DEF Typed, TablesTyped, OthersTyped, TypeOK

LEMMA TablesKept ==
    ASSUME TablesTyped, UNCHANGED rows
    PROVE  TablesTyped'
BY DEF TablesTyped, Stored, CategoryIds

LEMMA PathTyped ==
    ASSUME NEW node \in Nodes
    PROVE  /\ node \in Path[node] /\ Path[node] \in SUBSET Nodes
           /\ node # Root /\ Parent[node] \in Nodes => Path[Parent[node]] \subseteq Path[node]
<1>1. \A m \in Nodes : Path[m] =
        {n \in Nodes : \A S \in SUBSET Nodes :
            m \in S /\ (\A other \in S \ {Root} : Parent[other] \in S) => n \in S}
  BY DEF Path
<1>2. node \in Path[node] /\ Path[node] \in SUBSET Nodes
  BY <1>1
<1>3. ASSUME node # Root, Parent[node] \in Nodes, NEW n \in Path[Parent[node]]
      PROVE  n \in Path[node]
  <2>1. n \in Nodes
    BY <1>1, <1>3
  <2>2. ASSUME NEW S \in SUBSET Nodes, node \in S,
               \A other \in S \ {Root} : Parent[other] \in S
        PROVE  n \in S
    BY <1>1, <1>3, <2>2
  <2> QED
    BY <1>1, <2>1, <2>2
<1> QED
  BY <1>2, <1>3

LEMMA DirTyped ==
    ASSUME Typed, NEW i \in Importers, DirHolds(i), importer[i].pc # "idle"
    PROVE  importer[i].dir \in 1 .. MaxRuns /\ dirs[importer[i].dir] \in SUBSET Nodes
<1>1. importer[i].dir \in 1 .. runs /\ dirs[importer[i].dir] # NoDir
  BY DEF DirHolds
<1>2. importer[i].dir \in 1 .. MaxRuns
  BY <1>1, MaterialImportAssumption DEF Typed, OthersTyped
<1> QED
  BY <1>1, <1>2 DEF Typed, OthersTyped

LEMMA CleanupTyped ==
    ASSUME Typed, NEW i \in Importers, Cleanup(i), DirHolds(i)
    PROVE  /\ importer' \in [Importers -> Run]
           /\ dirs' \in [1 .. MaxRuns -> {NoDir} \cup SUBSET Nodes]
<1>1. importer' \in [Importers -> Run]
  BY IdleTyped, BecomeTyped DEF Cleanup, Typed
<1>2. dirs' \in [1 .. MaxRuns -> {NoDir} \cup SUBSET Nodes]
  <2>1. dirs' = [dirs EXCEPT ![importer[i].dir] = NoDir] \/ dirs' = dirs
    BY DEF Cleanup
  <2>2. dirs \in [1 .. MaxRuns -> {NoDir} \cup SUBSET Nodes]
    BY DEF Typed, OthersTyped
  <2> QED
    BY <2>1, <2>2
<1> QED
  BY <1>1, <1>2

LEMMA BeginTyped ==
    ASSUME Typed, NEW i \in Importers, Begin(i)
    PROVE  Typed'
<1>1. PICK dir \in 1 .. MaxRuns, cleanup, dry_run, publish \in BOOLEAN :
        /\ Start(i, dir, cleanup, dry_run, publish)
        /\ dirs' \in [1 .. MaxRuns -> {NoDir} \cup SUBSET Nodes]
        /\ UNCHANGED <<rows, media, serial, edits>>
  <2>1. CASE \E dry_run, publish \in BOOLEAN : StartUrl(i, dry_run, publish)
    <3>1. PICK dry_run, publish \in BOOLEAN : StartUrl(i, dry_run, publish)
      BY <2>1
    <3>2. runs + 1 \in 1 .. MaxRuns
      BY <3>1, MaterialImportAssumption DEF StartUrl, Start, Typed, OthersTyped
    <3>3. {Root} \in SUBSET Nodes
      BY MaterialImportAssumption DEF Nodes
    <3> QED
      BY <3>1, <3>2, <3>3 DEF StartUrl, Typed, OthersTyped
  <2>2. CASE \E dry_run, publish \in BOOLEAN, dir \in 1 .. MaxRuns :
               StartSource(i, dir, dry_run, publish)
    BY <2>2 DEF StartSource, Typed, OthersTyped
  <2> QED
    BY <2>1, <2>2 DEF Begin
<1>2. dir \in 0 .. MaxRuns
  BY MaterialImportAssumption
<1>3. importer' \in [Importers -> Run]
  <2> DEFINE state == [Idle EXCEPT !.pc = IF cleanup THEN "download" ELSE "load",
                              !.dir = dir, !.cleanup = cleanup, !.dry_run = dry_run,
                              !.publish = publish]
  <2>1. state \in Run
    BY <1>2, IdleTyped DEF Run
  <2> QED
    BY <1>1, <2>1 DEF Start, Become, Typed
<1>4. runs' \in 0 .. MaxRuns
  BY <1>1, MaterialImportAssumption DEF Start, Typed, OthersTyped
<1>5. TablesTyped'
  BY <1>1, TablesKept DEF Typed
<1> QED
  BY <1>1, <1>3, <1>4, <1>5 DEF Typed, OthersTyped

LEMMA CommandTyped ==
    ASSUME Typed, NEW i \in Importers, DirHolds(i), Command(i)
    PROVE  Typed'
<1>1. UNCHANGED <<rows, media, serial, runs, edits>>
  BY DEF Command, DownloadRaises, Download, Downloaded, Finish
<1>2. /\ importer' \in [Importers -> Run]
      /\ dirs' \in [1 .. MaxRuns -> {NoDir} \cup SUBSET Nodes]
  <2>1. CASE DownloadRaises(i) \/ Finish(i)
    BY <2>1, CleanupTyped DEF DownloadRaises, Finish
  <2>2. CASE Downloaded(i)
    <3>1. 1 \in 1 .. Len(Walk) + 1
      BY WalkTyped
    <3>2. [importer[i] EXCEPT !.pc = "load", !.at = 1] \in Run
      <4>1. importer[i] \in Run
        BY DEF Typed
      <4> QED
        BY <3>1, <4>1 DEF Run
    <3> QED
      BY <2>2, <3>2 DEF Downloaded, Become, Typed, OthersTyped
  <2>3. CASE Download(i)
    <3>1. importer[i].at + 1 \in 1 .. Len(Walk) + 1 /\ importer[i] \in Run
      BY <2>3, RunTyped DEF Download, Typed
    <3>2. dirs[importer[i].dir] \in SUBSET Nodes /\ importer[i].dir \in 1 .. MaxRuns
      BY <2>3, DirTyped DEF Download
    <3>3. [importer[i] EXCEPT !.at = @ + 1] \in Run
      BY <3>1 DEF Run
    <3>4. ASSUME Here(i) \in Files
          PROVE  /\ [[importer[i] EXCEPT !.at = @ + 1]
                       EXCEPT !.failures = @ \cup {Here(i)}] \in Run
                 /\ \A more \in SUBSET Nodes :
                       [dirs EXCEPT ![importer[i].dir] = @ \cup more]
                           \in [1 .. MaxRuns -> {NoDir} \cup SUBSET Nodes]
      BY <3>1, <3>2, <3>3, <3>4 DEF Run, Typed, OthersTyped
    <3>5. Here(i) \in Files => /\ Path[Here(i)] \in SUBSET Nodes
                               /\ Path[Here(i)] \cap Folders \in SUBSET Nodes
      BY PathTyped DEF Nodes
    <3>6. CASE Here(i) \in Folders \cup dirs[importer[i].dir] /\ UNCHANGED dirs
               /\ Become(i, [importer[i] EXCEPT !.at = @ + 1])
      BY <3>3, <3>6 DEF Become, Typed, OthersTyped
    <3>7. CASE /\ Here(i) \in Files
               /\ Become(i, [importer[i] EXCEPT !.at = @ + 1])
               /\ dirs' = [dirs EXCEPT ![importer[i].dir] = @ \cup Path[Here(i)]]
      BY <3>3, <3>4, <3>5, <3>7 DEF Become, Typed
    <3>8. CASE /\ Here(i) \in Files
               /\ Become(i, [[importer[i] EXCEPT !.at = @ + 1]
                                EXCEPT !.failures = @ \cup {Here(i)}])
               /\ dirs' = [dirs EXCEPT ![importer[i].dir] =
                              @ \cup (Path[Here(i)] \cap Folders)]
      BY <3>4, <3>5, <3>8 DEF Become, Typed
    <3> QED
      BY <2>3, <3>6, <3>7, <3>8 DEF Download
  <2> QED
    BY <2>1, <2>2, <2>3 DEF Command
<1> QED
  BY <1>1, <1>2, TablesKept DEF Typed, OthersTyped

(* A row that is written and keeps its key breaks no foreign key. *)
LEMMA RowWritten ==
    ASSUME TablesTyped, NEW node \in Nodes, NEW row \in Row,
           rows' = [rows EXCEPT ![node] = row],
           row.id \in Nat, row.parent \in CategoryIds \cup {Nothing},
           rows[node] # NoRow => rows[node].id = row.id
    PROVE  TablesTyped' /\ CategoryIds \subseteq CategoryIds'
<1>1. rows' \in [Nodes -> Row \cup {NoRow}] /\ row # NoRow
  BY MaterialImportAssumption DEF TablesTyped
<1>2. \A n \in Nodes : rows'[n] = IF n = node THEN row ELSE rows[n]
  BY DEF TablesTyped
<1>3. CategoryIds \subseteq CategoryIds'
  BY <1>1, <1>2 DEF CategoryIds, Stored
<1>4. ASSUME NEW n \in Stored'
      PROVE  rows'[n].id \in Nat /\ rows'[n].parent \in CategoryIds' \cup {Nothing}
  BY <1>2, <1>3 DEF Stored, TablesTyped
<1> QED
  BY <1>1, <1>3, <1>4 DEF TablesTyped

(* Insert writes the row of the run under a key that is its own or new. *)
LEMMA InsertTyped ==
    ASSUME Typed, NEW node \in Nodes, NEW row \in Row, Insert(node, row)
    PROVE  \E saved \in Row :
             /\ saved.id = IF row.id = Nothing THEN serial ELSE row.id
             /\ saved.parent = row.parent /\ saved.slug = row.slug
             /\ saved.file = row.file /\ saved.is_published = row.is_published
             /\ rows' = [rows EXCEPT ![node] = saved]
             /\ TablesTyped' /\ serial' \in Nat
             /\ serial' = IF row.id = Nothing THEN serial + 1 ELSE serial
             /\ rows[node] # NoRow => rows[node].id = row.id /\ row.id # Nothing
             /\ row.parent \in CategoryIds \cup (IF node = Root THEN {Nothing} ELSE {})
<1> DEFINE saved == IF row.id = Nothing THEN [row EXCEPT !.id = serial] ELSE row
<1>1. serial \in Nat /\ row.id \in Nat \cup {Nothing}
  BY DEF Typed, OthersTyped, Row, Id
<1>2. /\ saved \in Row
      /\ saved.id = IF row.id = Nothing THEN serial ELSE row.id
      /\ saved.parent = row.parent /\ saved.slug = row.slug
      /\ saved.file = row.file /\ saved.is_published = row.is_published
  BY <1>1 DEF Row, Id
<1>3. /\ rows[node] # NoRow => rows[node].id = row.id
      /\ row.parent \in CategoryIds \cup (IF node = Root THEN {Nothing} ELSE {})
      /\ rows' = [rows EXCEPT ![node] = saved]
      /\ serial' = IF row.id = Nothing THEN serial + 1 ELSE serial
  BY DEF Insert, Fits
<1>4. rows[node] # NoRow => row.id \in Nat /\ row.id # Nothing
  BY <1>3, MaterialImportAssumption DEF Typed, TablesTyped, Stored
<1>5. saved.id \in Nat /\ serial' \in Nat
  BY <1>1, <1>2, <1>3
<1> HIDE DEF saved
<1>6. TablesTyped'
  BY <1>2, <1>3, <1>4, <1>5, RowWritten DEF Typed
<1> QED
  BY <1>2, <1>3, <1>4, <1>5, <1>6

LEMMA NewRowTyped ==
    ASSUME NEW node \in Nodes, NEW parent \in Id, NEW publish \in BOOLEAN
    PROVE  /\ NewRow(node, parent, publish) \in Row
           /\ NewRow(node, parent, publish).id = Nothing
           /\ NewRow(node, parent, publish).parent = parent
           /\ NewRow(node, parent, publish).file = Nothing
BY UniqueSlugTyped DEF NewRow, Row, Id

(* What a run has read: the row, at the place the run wants for a file, or a  *)
(* new one.                                                                   *)
LEMMA ReadTyped ==
    ASSUME Typed, NEW i \in Importers, Walking(i, "load")
    PROVE  /\ Here(i) \in Nodes /\ Wanted(i) \in Id /\ importer[i] \in Run
           /\ LET new == NewRow(Here(i), Wanted(i), importer[i].publish)
              IN  new \in Row /\ new.id = Nothing /\ new.parent = Wanted(i)
           /\ rows[Here(i)] # NoRow => rows[Here(i)] \in Row
           /\ LET row == Refreshed(Here(i), Wanted(i), importer[i].publish)
              IN  /\ row \in Row /\ row.parent = Wanted(i)
                  /\ row.id = IF rows[Here(i)] = NoRow THEN Nothing ELSE rows[Here(i)].id
                  /\ rows[Here(i)] # NoRow =>
                        /\ row.slug = rows[Here(i)].slug
                        /\ row.is_published = rows[Here(i)].is_published
<1>1. Here(i) \in Nodes /\ Wanted(i) \in Id /\ importer[i] \in Run
  BY RunTyped DEF Typed, Walking
<1>2. importer[i].publish \in BOOLEAN
  BY <1>1 DEF Run
<1>3. LET new == NewRow(Here(i), Wanted(i), importer[i].publish)
      IN  new \in Row /\ new.id = Nothing /\ new.parent = Wanted(i)
  BY <1>1, <1>2, NewRowTyped
<1>4. rows[Here(i)] # NoRow => rows[Here(i)] \in Row
  BY <1>1 DEF Typed, TablesTyped
<1>5. CASE rows[Here(i)] = NoRow
  BY <1>1, <1>3, <1>4, <1>5 DEF Refreshed
<1>6. CASE rows[Here(i)] # NoRow
  BY <1>1, <1>3, <1>4, <1>6 DEF Refreshed, Row
<1> QED
  BY <1>5, <1>6
-----------------------------------------------------------------------------
(* What each action does, field by field. *)

Alone(i) == \A j \in Importers \ {i} : importer'[j] = importer[j]

SameErrands(i) ==
    /\ importer'[i].dir = importer[i].dir /\ importer'[i].cleanup = importer[i].cleanup
    /\ importer'[i].dry_run = importer[i].dry_run
    /\ importer'[i].failures = importer[i].failures

(* The run goes on with the next node. *)
Passes(i) ==
    /\ importer[i].at \in 1 .. Len(Walk)
    /\ importer'[i].pc = "load" /\ importer'[i].at = importer[i].at + 1
    /\ importer'[i].copy = NoRow /\ importer'[i].restated = FALSE
    /\ SameErrands(i) /\ importer'[i].touched = importer[i].touched

LEMMA SkipEffect ==
    ASSUME Typed, NEW i \in Importers, Skip(i)
    PROVE  /\ importer' \in [Importers -> Run] /\ Alone(i) /\ Passes(i)
           /\ importer'[i].cache = importer[i].cache
           /\ importer'[i].errors = importer[i].errors
<1>1. importer[i] \in Run /\ importer[i].at <= Len(Walk) /\ importer[i].at \in 1 .. Len(Walk)
  BY RunTyped DEF Skip, Walking, Typed
<1>2. Onward(importer[i]) \in Run
  BY <1>1, OnwardTyped
<1>3. importer' \in [Importers -> Run] /\ Alone(i) /\ importer'[i] = Onward(importer[i])
  BY <1>2, BecomeTyped DEF Skip, Alone, Typed
<1>4. LET next == Onward(importer[i])
      IN  /\ next.pc = "load" /\ next.at = importer[i].at + 1
          /\ next.copy = NoRow /\ next.restated = FALSE
          /\ next.dir = importer[i].dir /\ next.cleanup = importer[i].cleanup
          /\ next.dry_run = importer[i].dry_run /\ next.cache = importer[i].cache
          /\ next.errors = importer[i].errors /\ next.failures = importer[i].failures
          /\ next.touched = importer[i].touched
  BY <1>1, OnwardTyped
<1> QED
  BY <1>1, <1>3, <1>4 DEF Passes, SameErrands

LEMMA ItemFailsEffect ==
    ASSUME Typed, NEW i \in Importers, ItemFails(i)
    PROVE  /\ importer' \in [Importers -> Run] /\ Alone(i) /\ Passes(i)
           /\ importer'[i].cache = importer[i].cache
           /\ importer'[i].errors = importer[i].errors \cup {Here(i)}
<1>1. /\ importer[i] \in Run /\ importer[i].at <= Len(Walk) /\ importer[i].at \in 1 .. Len(Walk)
      /\ Here(i) \in Nodes
  BY RunTyped DEF ItemFails, Walking, Typed
<1>2. Onward(importer[i]) \in Run
  BY <1>1, OnwardTyped
<1> DEFINE state == [Onward(importer[i]) EXCEPT !.errors = @ \cup {Here(i)}]
<1>3. /\ state \in Run
      /\ state.errors = Onward(importer[i]).errors \cup {Here(i)}
      /\ \A field \in {"pc", "at", "copy", "restated", "dir", "cleanup", "dry_run",
                       "failures", "touched", "cache"} :
            state[field] = Onward(importer[i])[field]
  BY <1>1, <1>2 DEF Run
<1>4. importer' \in [Importers -> Run] /\ Alone(i) /\ importer'[i] = state
  <2>1. Become(i, state)
    BY DEF ItemFails
  <2> QED
    BY <1>3, <2>1, BecomeTyped DEF Alone, Typed
<1> QED
  BY <1>1, <1>3, <1>4, OnwardTyped DEF Passes, SameErrands

(* The run passes a folder and puts a key into its map. *)
LEMMA CacheEffect ==
    ASSUME Typed, NEW i \in Importers, importer[i].at <= Len(Walk),
           Here(i) \in Folders, NEW key \in Id,
           Become(i, [Onward(importer[i]) EXCEPT !.cache[Here(i)] = key])
    PROVE  /\ importer' \in [Importers -> Run] /\ Alone(i) /\ Passes(i)
           /\ importer'[i].cache = [importer[i].cache EXCEPT ![Here(i)] = key]
           /\ importer'[i].errors = importer[i].errors
<1>1. importer[i] \in Run /\ importer[i].at \in 1 .. Len(Walk)
  BY RunTyped DEF Typed
<1>2. Onward(importer[i]) \in Run
  BY <1>1, OnwardTyped
<1> DEFINE state == [Onward(importer[i]) EXCEPT !.cache[Here(i)] = key]
<1>3. /\ state \in Run
      /\ state.cache = [Onward(importer[i]).cache EXCEPT ![Here(i)] = key]
      /\ \A field \in {"pc", "at", "copy", "restated", "dir", "cleanup", "dry_run",
                       "failures", "touched", "errors"} :
            state[field] = Onward(importer[i])[field]
  BY <1>2 DEF Run
<1>4. importer' \in [Importers -> Run] /\ Alone(i) /\ importer'[i] = state
  BY <1>3, BecomeTyped DEF Alone, Typed
<1> QED
  BY <1>1, <1>3, <1>4, OnwardTyped DEF Passes, SameErrands

(* A dry run only fills its map. *)
LEMMA DryVisitEffect ==
    ASSUME Typed, NEW i \in Importers, DryVisit(i)
    PROVE  /\ importer' \in [Importers -> Run] /\ Alone(i) /\ Passes(i)
           /\ importer'[i].errors = importer[i].errors
           /\ \A node \in Folders :
                 \/ importer'[i].cache[node] = importer[i].cache[node]
                 \/ importer'[i].cache[node] = 0
                 \/ rows[node] # NoRow /\ importer'[i].cache[node] = rows[node].id
<1>1. /\ importer[i] \in Run /\ importer[i].at <= Len(Walk) /\ importer[i].at \in 1 .. Len(Walk)
      /\ Here(i) \in Nodes /\ importer[i].cache \in [Folders -> Id]
  BY RunTyped DEF DryVisit, Walking, Typed, Run
<1>2. CASE Here(i) \in Files
  <2>1. Become(i, Onward(importer[i])) /\ Onward(importer[i]) \in Run
    BY <1>1, <1>2, OnwardTyped DEF DryVisit
  <2>2. importer' \in [Importers -> Run] /\ Alone(i) /\ importer'[i] = Onward(importer[i])
    BY <2>1, BecomeTyped DEF Alone, Typed
  <2>3. importer'[i].cache = importer[i].cache
    BY <1>1, <2>2, OnwardTyped
  <2>4. importer[i] \in Run /\ importer[i].at <= Len(Walk) /\ importer[i].at \in 1 .. Len(Walk)
    BY <1>1
  <2>5. Passes(i) /\ importer'[i].errors = importer[i].errors
    <3> DEFINE state == Onward(importer[i])
    <3>1. /\ state.pc = "load" /\ state.at = importer[i].at + 1
          /\ state.copy = NoRow /\ state.restated = FALSE
          /\ state.dir = importer[i].dir /\ state.cleanup = importer[i].cleanup
          /\ state.dry_run = importer[i].dry_run /\ state.errors = importer[i].errors
          /\ state.failures = importer[i].failures /\ state.touched = importer[i].touched
      BY <2>4, OnwardTyped
    <3>2. importer'[i] = state
      BY <2>2
    <3> HIDE DEF state
    <3> QED
      BY <2>4, <3>1, <3>2 DEF Passes, SameErrands
  <2> QED
    BY <2>2, <2>3, <2>5
<1>3. CASE Here(i) \notin Files
  <2> DEFINE key == IF rows[Here(i)] = NoRow THEN 0 ELSE rows[Here(i)].id
  <2>1. Here(i) \in Folders /\ key \in Id
    <3>1. Here(i) \in Folders
      BY <1>1, <1>3 DEF Nodes
    <3>2. rows[Here(i)] # NoRow => rows[Here(i)].id \in Nat
      BY <1>1 DEF Typed, TablesTyped, Stored
    <3> QED
      BY <3>1, <3>2 DEF Id
  <2>2. Become(i, [Onward(importer[i]) EXCEPT !.cache[Here(i)] = key])
    BY <1>3 DEF DryVisit
  <2> HIDE DEF key
  <2>3. /\ importer' \in [Importers -> Run] /\ Alone(i) /\ Passes(i)
        /\ importer'[i].cache = [importer[i].cache EXCEPT ![Here(i)] = key]
        /\ importer'[i].errors = importer[i].errors
    BY <1>1, <2>1, <2>2, CacheEffect
  <2>4. \A node \in Folders :
           importer'[i].cache[node] = IF node = Here(i) THEN key ELSE importer[i].cache[node]
    BY <1>1, <2>1, <2>3
  <2> QED
    BY <2>3, <2>4 DEF key
<1> QED
  BY <1>2, <1>3

(* The run stays at its node. *)
Stays(i) ==
    /\ importer[i].at \in 1 .. Len(Walk) /\ importer'[i].at = importer[i].at
    /\ importer'[i].cache = importer[i].cache /\ importer'[i].errors = importer[i].errors
    /\ importer'[i].restated = importer[i].restated
    /\ SameErrands(i) /\ importer'[i].touched = importer[i].touched

LEMMA LoadFolderEffect ==
    ASSUME Typed, NEW i \in Importers, LoadFolder(i)
    PROVE  /\ importer' \in [Importers -> Run] /\ Alone(i) /\ Stays(i)
           /\ importer'[i].pc = "save" /\ importer'[i].copy \in Row
           /\ IF rows[Here(i)] = NoRow
              THEN importer'[i].copy.id = Nothing /\ importer'[i].copy.parent = Wanted(i)
              ELSE importer'[i].copy = rows[Here(i)]
<1> DEFINE copy == IF rows[Here(i)] = NoRow
                   THEN NewRow(Here(i), Wanted(i), importer[i].publish)
                   ELSE rows[Here(i)]
           state == [importer[i] EXCEPT !.pc = "save", !.copy = copy]
<1>1. importer[i] \in Run /\ importer[i].at \in 1 .. Len(Walk)
  BY RunTyped DEF LoadFolder, Walking, Typed
<1>2. /\ copy \in Row
      /\ rows[Here(i)] = NoRow => copy.id = Nothing /\ copy.parent = Wanted(i)
      /\ rows[Here(i)] # NoRow => copy = rows[Here(i)]
  BY ReadTyped DEF LoadFolder
<1>3. Become(i, state)
  BY DEF LoadFolder
<1> HIDE DEF copy
<1>4. /\ state \in Run /\ state.pc = "save" /\ state.copy = copy
      /\ \A field \in {"at", "cache", "errors", "restated", "dir", "cleanup", "dry_run",
                       "failures", "touched"} : state[field] = importer[i][field]
  BY <1>1, <1>2 DEF Run
<1>5. importer' \in [Importers -> Run] /\ Alone(i) /\ importer'[i] = state
  BY <1>3, <1>4, BecomeTyped DEF Alone, Typed
<1> QED
  BY <1>1, <1>2, <1>4, <1>5 DEF Stays, SameErrands

LEMMA LoadFileEffect ==
    ASSUME Typed, NEW i \in Importers, LoadFile(i)
    PROVE  /\ importer' \in [Importers -> Run] /\ Alone(i) /\ Stays(i)
           /\ LET copy == importer'[i].copy
              IN  /\ copy \in Row /\ copy.parent = Wanted(i)
                  /\ copy.id = IF rows[Here(i)] = NoRow THEN Nothing ELSE rows[Here(i)].id
                  /\ rows[Here(i)] # NoRow =>
                        /\ copy.slug = rows[Here(i)].slug
                        /\ copy.is_published = rows[Here(i)].is_published
                  /\ \/ importer'[i].pc = "copy"
                     \/ importer'[i].pc = "save" /\ copy.file \in media
<1> DEFINE copy == Refreshed(Here(i), Wanted(i), importer[i].publish)
           pc == IF NeedCopy(copy) THEN "copy" ELSE "save"
           state == [importer[i] EXCEPT !.pc = pc, !.copy = copy]
<1>1. importer[i] \in Run /\ importer[i].at \in 1 .. Len(Walk)
  BY RunTyped DEF LoadFile, Walking, Typed
<1>2. /\ copy \in Row /\ copy.parent = Wanted(i)
      /\ copy.id = IF rows[Here(i)] = NoRow THEN Nothing ELSE rows[Here(i)].id
      /\ rows[Here(i)] # NoRow =>
            /\ copy.slug = rows[Here(i)].slug
            /\ copy.is_published = rows[Here(i)].is_published
  BY ReadTyped DEF LoadFile
<1>3. pc = "copy" \/ (pc = "save" /\ copy.file \in media)
  BY DEF NeedCopy
<1>4. Become(i, state)
  BY DEF LoadFile
<1> HIDE DEF copy, pc
<1>5. /\ state \in Run /\ state.pc = pc /\ state.copy = copy
      /\ \A field \in {"at", "cache", "errors", "restated", "dir", "cleanup", "dry_run",
                       "failures", "touched"} : state[field] = importer[i][field]
  BY <1>1, <1>2, <1>3 DEF Run
<1>6. importer' \in [Importers -> Run] /\ Alone(i) /\ importer'[i] = state
  BY <1>4, <1>5, BecomeTyped DEF Alone, Typed
<1> QED
  BY <1>1, <1>2, <1>3, <1>5, <1>6 DEF Stays, SameErrands

LEMMA CopyFileEffect ==
    ASSUME Typed, NEW i \in Importers, HoldingHolds(i), CopyFile(i)
    PROVE  /\ importer' \in [Importers -> Run] /\ Alone(i) /\ Stays(i)
           /\ importer'[i].pc = "save" /\ importer[i].copy \in Row
           /\ LET copy == importer'[i].copy
              IN  /\ copy \in Row /\ copy.file \in media'
                  /\ copy.id = importer[i].copy.id /\ copy.parent = importer[i].copy.parent
                  /\ copy.slug = importer[i].copy.slug
                  /\ copy.is_published = importer[i].copy.is_published
           /\ media \subseteq media' /\ media' \in SUBSET Media /\ IsFiniteSet(media')
<1> DEFINE name == AvailableName(Here(i))
           state == [importer[i] EXCEPT !.pc = "save", !.copy.file = name]
<1>1. /\ importer[i] \in Run /\ importer[i].at \in 1 .. Len(Walk)
      /\ importer[i].copy \in Row /\ Here(i) \in Files
  <2>1. importer[i].pc = "copy" /\ importer[i].at <= Len(Walk)
    BY DEF CopyFile, Walking
  <2>2. importer[i] \in Run /\ importer[i].at \in 1 .. Len(Walk)
    BY <2>1, RunTyped DEF Typed
  <2>3. Holding(i) /\ Here(i) \in Files
    BY <2>1 DEF Holding, HoldingHolds
  <2> QED
    BY <2>2, <2>3, HeldTyped, TypedIsTypeOK
<1>2. name \in Media
  BY <1>1, AvailableNameTyped DEF Typed, OthersTyped
<1>3. Become(i, state) /\ media' = media \cup {name}
  BY DEF CopyFile
<1> HIDE DEF name
<1>4. /\ media \subseteq media' /\ media' \in SUBSET Media /\ IsFiniteSet(media')
      /\ name \in media'
  BY <1>2, <1>3, FS_AddElement DEF Typed, OthersTyped
<1>5. LET copy == [importer[i].copy EXCEPT !.file = name]
      IN  /\ copy \in Row /\ copy.file = name
          /\ copy.id = importer[i].copy.id /\ copy.parent = importer[i].copy.parent
          /\ copy.slug = importer[i].copy.slug
          /\ copy.is_published = importer[i].copy.is_published
  BY <1>1, <1>2 DEF Row
<1>6. /\ state \in Run /\ state.pc = "save"
      /\ state.copy = [importer[i].copy EXCEPT !.file = name]
      /\ \A field \in {"at", "cache", "errors", "restated", "dir", "cleanup", "dry_run",
                       "failures", "touched"} : state[field] = importer[i][field]
  BY <1>1, <1>5 DEF Run
<1>7. importer' \in [Importers -> Run] /\ Alone(i) /\ importer'[i] = state
  BY <1>3, <1>6, BecomeTyped DEF Alone, Typed
<1>8. Stays(i)
  BY <1>1, <1>6, <1>7 DEF Stays, SameErrands
<1> HIDE DEF state
<1> QED
  BY <1>1, <1>4, <1>5, <1>6, <1>7, <1>8

LEMMA CreateFolderEffect ==
    ASSUME Typed, NEW i \in Importers, HoldingHolds(i), CreateFolder(i)
    PROVE  /\ Typed' /\ Alone(i) /\ Passes(i) /\ UNCHANGED <<media, dirs, runs, edits>>
           /\ importer'[i].cache = [importer[i].cache EXCEPT ![Here(i)] = serial]
           /\ importer'[i].errors = importer[i].errors
           /\ Here(i) \in Folders /\ rows[Here(i)] = NoRow /\ serial' = serial + 1
           /\ \E saved \in Row :
                 /\ rows' = [rows EXCEPT ![Here(i)] = saved]
                 /\ saved.id = serial /\ saved.parent = Wanted(i)
                 /\ Here(i) # Root => Wanted(i) \in CategoryIds
<1> DEFINE node == Here(i)
           row  == importer[i].copy
<1>1. /\ importer[i].pc = "save" /\ importer[i].at <= Len(Walk) /\ node \in Folders
      /\ row.id = Nothing /\ rows[node] = NoRow /\ Insert(node, row)
      /\ Become(i, [Onward(importer[i]) EXCEPT !.cache[node] = serial])
      /\ UNCHANGED <<media, dirs, runs, edits>>
  BY DEF CreateFolder, Walking
<1>2. /\ row \in Row /\ node \in Nodes /\ row.parent = Wanted(i)
      /\ serial \in Nat /\ serial \in Id
  <2>1. Holding(i) /\ row.parent = Wanted(i)
    BY <1>1 DEF Holding, HoldingHolds
  <2> QED
    BY <2>1, HeldTyped, TypedIsTypeOK DEF Typed, OthersTyped, Id
<1>3. PICK saved \in Row :
        /\ saved.id = serial /\ saved.parent = Wanted(i)
        /\ rows' = [rows EXCEPT ![node] = saved]
        /\ TablesTyped' /\ serial' \in Nat /\ serial' = serial + 1
        /\ row.parent \in CategoryIds \cup (IF node = Root THEN {Nothing} ELSE {})
  <2> HIDE DEF node, row
  <2> QED
    BY <1>1, <1>2, InsertTyped
<1>4. /\ importer' \in [Importers -> Run] /\ Alone(i) /\ Passes(i)
      /\ importer'[i].cache = [importer[i].cache EXCEPT ![node] = serial]
      /\ importer'[i].errors = importer[i].errors
  BY <1>1, <1>2, CacheEffect
<1>5. Typed'
  BY <1>1, <1>3, <1>4 DEF Typed, OthersTyped
<1> QED
  BY <1>1, <1>2, <1>3, <1>4, <1>5

LEMMA KeepFolderEffect ==
    ASSUME Typed, NEW i \in Importers, HoldingHolds(i), KeepFolder(i)
    PROVE  /\ Typed' /\ Alone(i) /\ Passes(i) /\ UNCHANGED <<media, serial, dirs, runs, edits>>
           /\ importer[i].pc = "save" /\ Here(i) \in Folders /\ importer[i].copy \in Row
           /\ importer'[i].errors = importer[i].errors
           /\ LET row == IF importer[i].copy.id = Nothing
                         THEN rows[Here(i)] ELSE importer[i].copy
              IN  /\ row \in Row
                  /\ importer'[i].cache = [importer[i].cache EXCEPT ![Here(i)] = row.id]
                  /\ \/ UNCHANGED rows /\ row.parent = Wanted(i)
                     \/ /\ rows[Here(i)] # NoRow /\ rows[Here(i)].id = row.id
                        /\ Wanted(i) \in CategoryIds \cup {Nothing}
                        /\ rows' = [rows EXCEPT ![Here(i)].parent = Wanted(i)]
<1> DEFINE node == Here(i)
           copy == importer[i].copy
           row  == IF copy.id = Nothing THEN rows[node] ELSE copy
<1>1. /\ importer[i].pc = "save" /\ importer[i].at <= Len(Walk) /\ node \in Folders
      /\ row # NoRow
      /\ Become(i, [Onward(importer[i]) EXCEPT !.cache[node] = row.id])
      /\ UNCHANGED <<media, serial, dirs, runs, edits>>
  BY DEF KeepFolder, Walking
<1>2. \/ UNCHANGED rows /\ row.parent = Wanted(i)
      \/ /\ rows[node] # NoRow /\ rows[node].id = row.id
         /\ Wanted(i) \in CategoryIds \cup {Nothing}
         /\ rows' = [rows EXCEPT ![node].parent = Wanted(i)]
  BY DEF KeepFolder, Misplaced
<1>3. copy \in Row /\ node \in Nodes /\ Wanted(i) \in Id
  BY <1>1, HeldTyped, TypedIsTypeOK DEF Holding
<1>4. row \in Row /\ row.id \in Id
  BY <1>1, <1>3 DEF Typed, TablesTyped, Row
<1>5. /\ importer' \in [Importers -> Run] /\ Alone(i) /\ Passes(i)
      /\ importer'[i].cache = [importer[i].cache EXCEPT ![node] = row.id]
      /\ importer'[i].errors = importer[i].errors
  <2> HIDE DEF row
  <2> QED
    BY <1>1, <1>4, CacheEffect
<1>6. TablesTyped'
  <2>1. CASE UNCHANGED rows
    BY <2>1, TablesKept DEF Typed
  <2>2. CASE /\ rows[node] # NoRow
             /\ Wanted(i) \in CategoryIds \cup {Nothing}
             /\ rows' = [rows EXCEPT ![node].parent = Wanted(i)]
    <3> DEFINE new == [rows[node] EXCEPT !.parent = Wanted(i)]
    <3>1. rows[node] \in Row /\ rows[node].id \in Nat
      BY <1>3, <2>2 DEF Typed, TablesTyped, Stored
    <3>2. /\ new \in Row /\ new.id = rows[node].id /\ new.parent = Wanted(i)
          /\ rows' = [rows EXCEPT ![node] = new]
      BY <1>3, <2>2, <3>1 DEF Row
    <3> HIDE DEF new
    <3> QED
      BY <1>3, <2>2, <3>1, <3>2, RowWritten DEF Typed
  <2> QED
    BY <1>2, <2>1, <2>2
<1>7. Typed'
  BY <1>1, <1>5, <1>6 DEF Typed, OthersTyped
<1> HIDE DEF row
<1>8. /\ row \in Row
      /\ importer'[i].cache = [importer[i].cache EXCEPT ![Here(i)] = row.id]
      /\ \/ UNCHANGED rows /\ row.parent = Wanted(i)
         \/ /\ rows[Here(i)] # NoRow /\ rows[Here(i)].id = row.id
            /\ Wanted(i) \in CategoryIds \cup {Nothing}
            /\ rows' = [rows EXCEPT ![Here(i)].parent = Wanted(i)]
  BY <1>2, <1>4, <1>5
<1> QED
  BY <1>1, <1>3, <1>5, <1>7, <1>8 DEF row

(* What happens to a run by the hands of others: only its history grows. *)
Near(state, next) ==
    /\ next.pc = state.pc /\ next.at = state.at /\ next.dir = state.dir
    /\ next.cleanup = state.cleanup /\ next.dry_run = state.dry_run
    /\ next.cache = state.cache /\ next.copy = state.copy
    /\ next.errors = state.errors /\ next.failures = state.failures
    /\ state.touched \subseteq next.touched /\ (state.restated => next.restated)

LEMMA RestatedEffect ==
    ASSUME Typed, NEW node
    PROVE  /\ Restated(node) \in [Importers -> Run]
           /\ \A j \in Importers :
                 /\ Near(importer[j], Restated(node)[j])
                 /\ Holding(j) /\ Here(j) = node => Restated(node)[j].restated
<1>1. Restated(node) \in [Importers -> Run]
  BY RestatedTyped DEF Typed
<1>2. ASSUME NEW j \in Importers
      PROVE  /\ Near(importer[j], Restated(node)[j])
             /\ Holding(j) /\ Here(j) = node => Restated(node)[j].restated
  <2>1. importer[j] \in Run
    BY DEF Typed
  <2>2. Restated(node)[j] =
          IF Holding(j) /\ Here(j) = node
          THEN [importer[j] EXCEPT !.restated = TRUE] ELSE importer[j]
    BY DEF Restated, Holding
  <2> QED
    BY <2>1, <2>2 DEF Near, Run
<1> QED
  BY <1>1, <1>2

LEMMA TouchedEffect ==
    ASSUME NEW state \in [Importers -> Run], NEW nodes \in SUBSET Nodes
    PROVE  /\ Touched(state, nodes) \in [Importers -> Run]
           /\ \A j \in Importers :
                 /\ Near(state[j], Touched(state, nodes)[j])
                 /\ state[j].pc # "idle" => nodes \subseteq Touched(state, nodes)[j].touched
                 /\ state[j].restated => Touched(state, nodes)[j].restated
<1>1. Touched(state, nodes) \in [Importers -> Run]
  BY TouchedTyped
<1>2. ASSUME NEW j \in Importers
      PROVE  /\ Near(state[j], Touched(state, nodes)[j])
             /\ state[j].pc # "idle" => nodes \subseteq Touched(state, nodes)[j].touched
             /\ state[j].restated => Touched(state, nodes)[j].restated
  <2>1. state[j] \in Run
    OBVIOUS
  <2>2. Touched(state, nodes)[j] =
          IF state[j].pc = "idle" THEN state[j]
          ELSE [state[j] EXCEPT !.touched = @ \cup nodes]
    BY DEF Touched
  <2> QED
    BY <2>1, <2>2 DEF Near, Run
<1> QED
  BY <1>1, <1>2

LEMMA NearIsTransitive ==
    ASSUME NEW state, NEW middle, NEW next, Near(state, middle), Near(middle, next)
    PROVE  Near(state, next)
BY DEF Near

LEMMA SaveFileEffect ==
    ASSUME Typed, NEW i \in Importers, HoldingHolds(i), SaveFile(i)
    PROVE  LET node == Here(i)
               row  == importer[i].copy
           IN  /\ Typed' /\ Passes(i) /\ UNCHANGED <<media, dirs, runs, edits>>
               /\ importer[i].pc = "save"
               /\ importer'[i].cache = importer[i].cache
               /\ importer'[i].errors = importer[i].errors
               /\ node \in Files /\ row \in Row /\ row.parent = Wanted(i)
               /\ Wanted(i) \in CategoryIds
               /\ serial' = IF row.id = Nothing THEN serial + 1 ELSE serial
               /\ rows[node] # NoRow => rows[node].id = row.id /\ row.id # Nothing
               /\ \E saved \in Row :
                     /\ rows' = [rows EXCEPT ![node] = saved]
                     /\ saved.id = IF row.id = Nothing THEN serial ELSE row.id
                     /\ saved.parent = row.parent /\ saved.slug = row.slug
                     /\ saved.file = row.file /\ saved.is_published = row.is_published
               /\ \A j \in Importers \ {i} :
                     /\ Near(importer[j], importer'[j])
                     /\ importer[j].pc # "idle" /\ row.file \notin media =>
                           node \in importer'[j].touched
                     /\ Holding(j) /\ Here(j) = node =>
                           \/ importer'[j].restated
                           \/ /\ rows[node] # NoRow
                              /\ rows[node].is_published = row.is_published
<1> DEFINE node   == Here(i)
           row    == importer[i].copy
           others == IF rows[node] # NoRow /\ rows[node].is_published = row.is_published
                     THEN importer ELSE Restated(node)
           lost   == IF row.file \in media THEN {} ELSE {node}
<1>1. /\ importer[i].pc = "save" /\ importer[i].at <= Len(Walk) /\ node \in Files
      /\ Insert(node, row)
      /\ importer' = [Touched(others, lost) EXCEPT ![i] = Onward(importer[i])]
      /\ UNCHANGED <<media, dirs, runs, edits>>
  BY DEF SaveFile, Walking
<1>2. /\ row \in Row /\ node \in Nodes /\ row.parent = Wanted(i)
      /\ importer[i] \in Run /\ importer[i].at \in 1 .. Len(Walk)
  <2>1. Holding(i) /\ row.parent = Wanted(i)
    BY <1>1 DEF Holding, HoldingHolds
  <2> QED
    BY <1>1, <2>1, HeldTyped, RunTyped, TypedIsTypeOK DEF Typed
<1>3. PICK saved \in Row :
        /\ saved.id = IF row.id = Nothing THEN serial ELSE row.id
        /\ saved.parent = row.parent /\ saved.slug = row.slug
        /\ saved.file = row.file /\ saved.is_published = row.is_published
        /\ rows' = [rows EXCEPT ![node] = saved]
        /\ TablesTyped' /\ serial' \in Nat
        /\ serial' = IF row.id = Nothing THEN serial + 1 ELSE serial
        /\ rows[node] # NoRow => rows[node].id = row.id /\ row.id # Nothing
        /\ row.parent \in CategoryIds \cup (IF node = Root THEN {Nothing} ELSE {})
  <2> HIDE DEF node, row
  <2> QED
    BY <1>1, <1>2, InsertTyped
<1>4. Wanted(i) \in CategoryIds
  BY <1>1, <1>2, <1>3, WalkTyped
<1>5. /\ others \in [Importers -> Run]
      /\ \A j \in Importers :
            /\ Near(importer[j], others[j])
            /\ Holding(j) /\ Here(j) = node =>
                  \/ others[j].restated
                  \/ rows[node] # NoRow /\ rows[node].is_published = row.is_published
  <2>1. \A j \in Importers : Near(importer[j], importer[j])
    BY DEF Near
  <2>2. importer \in [Importers -> Run]
    BY DEF Typed
  <2> HIDE DEF node, row
  <2> QED
    BY <2>1, <2>2, RestatedEffect
<1>6. lost \in SUBSET Nodes /\ (row.file \notin media => node \in lost)
  BY <1>2
<1>7. /\ Touched(others, lost) \in [Importers -> Run]
      /\ \A j \in Importers :
            /\ Near(others[j], Touched(others, lost)[j])
            /\ others[j].pc # "idle" => lost \subseteq Touched(others, lost)[j].touched
            /\ others[j].restated => Touched(others, lost)[j].restated
  <2> HIDE DEF others, lost
  <2> QED
    BY <1>5, <1>6, TouchedEffect
<1>8. Onward(importer[i]) \in Run
  BY <1>1, <1>2, OnwardTyped
<1>9. /\ importer' \in [Importers -> Run] /\ importer'[i] = Onward(importer[i])
      /\ \A j \in Importers \ {i} : importer'[j] = Touched(others, lost)[j]
  <2> HIDE DEF others, lost
  <2> QED
    BY <1>1, <1>7, <1>8
<1>10. ASSUME NEW j \in Importers \ {i}
       PROVE  /\ Near(importer[j], importer'[j])
              /\ importer[j].pc # "idle" /\ row.file \notin media =>
                    node \in importer'[j].touched
              /\ Holding(j) /\ Here(j) = node =>
                    \/ importer'[j].restated
                    \/ rows[node] # NoRow /\ rows[node].is_published = row.is_published
  <2> HIDE DEF node, row, others, lost
  <2>1. Near(importer[j], importer'[j])
    BY <1>5, <1>7, <1>9, NearIsTransitive
  <2>2. others[j].pc = importer[j].pc
    BY <1>5 DEF Near
  <2> QED
    BY <1>5, <1>6, <1>7, <1>9, <2>1, <2>2
<1>11. Passes(i) /\ importer'[i].cache = importer[i].cache /\ importer'[i].errors = importer[i].errors
  BY <1>1, <1>2, <1>9, OnwardTyped DEF Passes, SameErrands
<1>12. Typed'
  BY <1>1, <1>3, <1>9 DEF Typed, OthersTyped
<1>13. \E s \in Row :
          /\ rows' = [rows EXCEPT ![node] = s]
          /\ s.id = IF row.id = Nothing THEN serial ELSE row.id
          /\ s.parent = row.parent /\ s.slug = row.slug
          /\ s.file = row.file /\ s.is_published = row.is_published
  BY <1>3
<1> HIDE DEF node, row, others, lost
<1> QED
  BY <1>1, <1>2, <1>3, <1>4, <1>10, <1>11, <1>12, <1>13 DEF node, row
-----------------------------------------------------------------------------
(* The command: starting, downloading and ending a run. *)

(* The run is not at work on the tables after the step, or at its beginning. *)
Rests(i) ==
    /\ UNCHANGED <<rows, media, serial>> /\ Alone(i)
    /\ importer'[i].pc \in {"idle", "download", "load"} /\ importer'[i].copy = NoRow
    /\ importer'[i].pc = "load" => importer'[i].at = 1
    /\ \A folder \in Folders :
          importer'[i].cache[folder] \in {importer[i].cache[folder], Nothing}

(* The directories of the others stay as they are. *)
DirsOfOthersStay(i) ==
    \A j \in Importers \ {i} :
        importer[j].pc # "idle" => dirs'[importer[j].dir] = dirs[importer[j].dir]

RemovesOnlyComplete(i) ==
    \A dir \in 1 .. MaxRuns : dirs[dir] # NoDir /\ dirs'[dir] = NoDir =>
        Files \subseteq dirs[dir] \/ (importer[i].pc = "download" /\ importer[i].dir = dir)

LEMMA IdleFields ==
    /\ Idle.pc = "idle" /\ Idle.copy = NoRow
    /\ \A folder \in Folders : Idle.cache[folder] = Nothing
BY DEF Idle

LEMMA EndEffect ==
    ASSUME Typed, DirsOfRuns,
           \A j \in Importers : DirHolds(j) /\ DownloadHolds(j),
           NEW i \in Importers, importer[i].pc # "idle", Become(i, Idle),
           UNCHANGED <<rows, media, serial, runs>>, edits' \in 0 .. MaxEdits,
           dirs' = dirs \/ (Remove(importer[i])
                               /\ dirs' = [dirs EXCEPT ![importer[i].dir] = NoDir])
    PROVE  /\ Typed' /\ Rests(i) /\ DirsOfOthersStay(i) /\ RemovesOnlyComplete(i)
           /\ DirsOfRuns' /\ \A j \in Importers : DirHolds(j)'
           /\ DownloadHolds(i)'
<1>1. importer' \in [Importers -> Run] /\ importer'[i] = Idle /\ Alone(i)
  BY IdleTyped, BecomeTyped DEF Alone, Typed
<1>2. importer[i].dir \in 1 .. MaxRuns /\ dirs[importer[i].dir] \in SUBSET Nodes
  BY DirTyped
<1>3. /\ dirs \in [1 .. MaxRuns -> {NoDir} \cup SUBSET Nodes]
      /\ dirs' \in [1 .. MaxRuns -> {NoDir} \cup SUBSET Nodes]
      /\ \A dir \in 1 .. MaxRuns :
            dirs'[dir] = dirs[dir] \/ (Remove(importer[i]) /\ dir = importer[i].dir)
  <2>1. dirs \in [1 .. MaxRuns -> {NoDir} \cup SUBSET Nodes]
    BY DEF Typed, OthersTyped
  <2> QED
    BY <1>2, <2>1
<1>4. Typed'
  BY <1>1, <1>3, TablesKept DEF Typed, OthersTyped
<1>5. Rests(i)
  BY <1>1, IdleFields DEF Rests
<1>6. ASSUME NEW j \in Importers \ {i}, importer[j].pc # "idle"
      PROVE  /\ importer[j].dir \in 1 .. MaxRuns
             /\ dirs'[importer[j].dir] = dirs[importer[j].dir]
  <2>1. importer[j].dir \in 1 .. MaxRuns
    BY <1>6, DirTyped
  <2>2. importer[j].dir # importer[i].dir
    BY <1>6 DEF DirHolds
  <2> QED
    BY <1>3, <2>1, <2>2
<1>7. DirsOfOthersStay(i)
  BY <1>6 DEF DirsOfOthersStay
<1>8. ASSUME NEW j \in Importers PROVE DirHolds(j)'
  <2>1. CASE j = i
    BY <1>1, <2>1, IdleFields DEF DirHolds
  <2>2. CASE j # i
    <3>1. importer'[j] = importer[j]
      BY <1>1, <2>2 DEF Alone
    <3>2. \A k \in Importers \ {j} : importer'[k].pc # "idle" => importer'[k] = importer[k]
      BY <1>1, IdleFields DEF Alone
    <3> QED
      BY <1>6, <2>2, <3>1, <3>2 DEF DirHolds
  <2> QED
    BY <2>1, <2>2
<1>9. RemovesOnlyComplete(i)
  <2>1. SUFFICES ASSUME NEW dir \in 1 .. MaxRuns, dirs[dir] # NoDir, dirs'[dir] = NoDir,
                        importer[i].pc # "download"
                 PROVE  Files \subseteq dirs[dir]
    <3>1. \A dir \in 1 .. MaxRuns : dirs[dir] # NoDir /\ dirs'[dir] = NoDir =>
                dir = importer[i].dir
      BY <1>3
    <3> QED
      BY <2>1, <3>1 DEF RemovesOnlyComplete
  <2>2. Remove(importer[i]) /\ dir = importer[i].dir
    BY <1>3, <2>1
  <2>3. importer[i].cleanup /\ importer[i].failures = {}
    BY <2>1, <2>2 DEF Remove
  <2>4. importer[i].pc \in {"load", "copy", "save"}
    BY <2>1 DEF Typed, Run
  <2>5. Files \subseteq dirs[dir]
    BY <2>2, <2>3, <2>4 DEF DownloadHolds, Working
  <2> QED
    BY <1>2, <2>2, <2>5
<1>10. DownloadHolds(i)'
  BY <1>1, IdleFields DEF DownloadHolds, Working
<1>11. DirsOfRuns'
  BY <1>3 DEF DirsOfRuns
<1> QED
  BY <1>4, <1>5, <1>7, <1>8, <1>9, <1>10, <1>11

LEMMA EndsEffect ==
    ASSUME Typed, DirsOfRuns,
           \A j \in Importers : DirHolds(j) /\ DownloadHolds(j),
           NEW i \in Importers,
           DownloadRaises(i) \/ Finish(i) \/ RootFails(i) \/ Kill(i) \/ Interrupt(i)
    PROVE  /\ Typed' /\ Rests(i) /\ DirsOfOthersStay(i) /\ RemovesOnlyComplete(i)
           /\ DirsOfRuns' /\ \A j \in Importers : DirHolds(j)'
           /\ DownloadHolds(i)'
<1>1. edits \in 0 .. MaxEdits /\ MaxEdits \in Nat
  BY MaterialImportAssumption DEF Typed, OthersTyped
<1>2. /\ importer[i].pc # "idle" /\ Become(i, Idle)
      /\ UNCHANGED <<rows, media, serial, runs>>
      /\ edits' = edits \/ (edits < MaxEdits /\ edits' = edits + 1)
      /\ dirs' = dirs \/ (Remove(importer[i])
                             /\ dirs' = [dirs EXCEPT ![importer[i].dir] = NoDir])
  BY DEF DownloadRaises, Finish, RootFails, Kill, Interrupt, Cleanup, Edit
<1>3. edits' \in 0 .. MaxEdits
  BY <1>1, <1>2
<1> QED
  BY <1>2, <1>3, EndEffect

LEMMA BeginEffect ==
    ASSUME Typed, DirsOfRuns, \A j \in Importers : DirHolds(j),
           NEW i \in Importers, Begin(i)
    PROVE  /\ Typed' /\ Rests(i) /\ DirsOfOthersStay(i) /\ RemovesOnlyComplete(i)
           /\ DirsOfRuns' /\ \A j \in Importers : DirHolds(j)'
           /\ DownloadHolds(i)'
<1>1. Typed'
  BY BeginTyped
<1>2. PICK dir \in 1 .. MaxRuns, cleanup, dry_run, publish \in BOOLEAN :
        /\ Start(i, dir, cleanup, dry_run, publish)
        /\ UNCHANGED <<rows, media, serial, edits>>
        /\ \/ dir = runs + 1 /\ dirs' = [dirs EXCEPT ![dir] = {Root}]
           \/ dirs[dir] # NoDir /\ ~ InUse(dir) /\ dirs' = dirs /\ ~ cleanup
  <2>1. CASE \E dry_run, publish \in BOOLEAN : StartUrl(i, dry_run, publish)
    <3>1. PICK dry_run, publish \in BOOLEAN : StartUrl(i, dry_run, publish)
      BY <2>1
    <3>2. runs + 1 \in 1 .. MaxRuns
      BY <3>1, MaterialImportAssumption DEF StartUrl, Start, Typed, OthersTyped
    <3> QED
      BY <3>1, <3>2 DEF StartUrl
  <2>2. CASE \E dry_run, publish \in BOOLEAN, dir \in 1 .. MaxRuns :
               StartSource(i, dir, dry_run, publish)
    BY <2>2 DEF StartSource
  <2> QED
    BY <2>1, <2>2 DEF Begin
<1>3. runs \in Nat /\ runs' = runs + 1 /\ runs < MaxRuns /\ MaxRuns \in Nat
  BY <1>2, MaterialImportAssumption DEF Start, Typed, OthersTyped
<1> DEFINE state == [Idle EXCEPT !.pc = IF cleanup THEN "download" ELSE "load",
                              !.dir = dir, !.cleanup = cleanup, !.dry_run = dry_run,
                              !.publish = publish]
<1>4. /\ state.pc = IF cleanup THEN "download" ELSE "load"
      /\ state.dir = dir /\ state.cleanup = cleanup /\ state.at = 1
      /\ state.copy = NoRow /\ \A folder \in Folders : state.cache[folder] = Nothing
  BY DEF Idle
<1>5. importer' = [importer EXCEPT ![i] = state] /\ importer[i].pc = "idle"
  BY <1>2 DEF Start, Become
<1> HIDE DEF state
<1>6. importer'[i] = state /\ Alone(i)
  BY <1>5 DEF Alone, Typed
<1>7. dirs \in [1 .. MaxRuns -> {NoDir} \cup SUBSET Nodes]
  BY DEF Typed, OthersTyped
<1>8. Rests(i)
  BY <1>2, <1>4, <1>6 DEF Rests
<1>9. ASSUME NEW j \in Importers \ {i}, importer[j].pc # "idle"
      PROVE  /\ importer[j].dir \in 1 .. runs
             /\ importer[j].dir # dir
             /\ dirs[importer[j].dir] # NoDir
             /\ dirs'[importer[j].dir] = dirs[importer[j].dir]
  <2>1. importer[j].dir \in 1 .. runs /\ dirs[importer[j].dir] # NoDir
    BY <1>9 DEF DirHolds
  <2>2. importer[j].dir # dir
    BY <1>2, <1>3, <1>9, <2>1 DEF InUse
  <2> QED
    BY <1>2, <1>3, <1>7, <2>1, <2>2
<1>10. dir \in 1 .. runs' /\ dirs'[dir] # NoDir
  <2>1. CASE dir = runs + 1 /\ dirs' = [dirs EXCEPT ![dir] = {Root}]
    <3>1. {Root} # NoDir
      BY MaterialImportAssumption DEF Nodes
    <3> QED
      BY <1>3, <1>7, <2>1, <3>1
  <2>2. CASE dirs[dir] # NoDir /\ ~ InUse(dir) /\ dirs' = dirs
    BY <2>2, <1>3, <1>7 DEF DirsOfRuns
  <2> QED
    BY <1>2, <2>1, <2>2
<1>11. DirsOfOthersStay(i)
  BY <1>9 DEF DirsOfOthersStay
<1>12. RemovesOnlyComplete(i)
  <2>1. \A d \in 1 .. MaxRuns : dirs'[d] = dirs[d] \/ d = dir
    BY <1>2, <1>7
  <2> QED
    BY <1>10, <2>1 DEF RemovesOnlyComplete
<1>13. ASSUME NEW j \in Importers PROVE DirHolds(j)'
  <2>1. CASE j = i
    BY <1>4, <1>6, <1>9, <1>10, <2>1 DEF DirHolds, Alone
  <2>2. CASE j # i
    <3>1. importer'[j] = importer[j]
      BY <1>6, <2>2 DEF Alone
    <3>2. SUFFICES ASSUME importer[j].pc # "idle"
                   PROVE  DirHolds(j)'
      BY <3>1 DEF DirHolds
    <3>3. importer[j].dir \in 1 .. runs' /\ dirs'[importer[j].dir] # NoDir /\ importer[j].dir # dir
      BY <1>3, <1>9, <2>2, <3>2
    <3>4. \A k \in Importers \ {j} : importer[k].pc # "idle" => importer[k].dir # importer[j].dir
      BY <3>2 DEF DirHolds
    <3> QED
      BY <1>4, <1>6, <3>1, <3>3, <3>4 DEF DirHolds, Alone
  <2> QED
    BY <2>1, <2>2
<1>14. DownloadHolds(i)'
  BY <1>2, <1>4, <1>6 DEF DownloadHolds, Working
<1>15. DirsOfRuns'
  <2>1. \A d \in 1 .. MaxRuns : dirs'[d] = dirs[d] \/ d = dir
    BY <1>2, <1>7
  <2> QED
    BY <1>3, <1>10, <2>1 DEF DirsOfRuns
<1> QED
  BY <1>1, <1>8, <1>11, <1>12, <1>13, <1>14, <1>15

LEMMA DownloadingEffect ==
    ASSUME Typed, DirsOfRuns,
           \A j \in Importers : DirHolds(j) /\ DownloadHolds(j) /\ HoldingHolds(j),
           NEW i \in Importers, Download(i) \/ Downloaded(i)
    PROVE  /\ Typed' /\ Rests(i) /\ DirsOfOthersStay(i) /\ RemovesOnlyComplete(i)
           /\ DirsOfRuns' /\ \A j \in Importers : DirHolds(j)'
           /\ DownloadHolds(i)'
<1> DEFINE dir == importer[i].dir
<1>1. Typed'
  BY CommandTyped DEF Command
<1>2. /\ importer[i].pc = "download" /\ importer[i] \in Run
      /\ UNCHANGED <<rows, media, serial, runs, edits>>
      /\ dir \in 1 .. MaxRuns /\ dirs[dir] \in SUBSET Nodes
      /\ dirs \in [1 .. MaxRuns -> {NoDir} \cup SUBSET Nodes]
  <2>1. importer[i].pc = "download" /\ UNCHANGED <<rows, media, serial, runs, edits>>
    BY DEF Download, Downloaded
  <2> QED
    BY <2>1, DirTyped DEF Typed, OthersTyped
<1>3. importer[i].copy = NoRow /\ importer[i].cleanup
  BY <1>2 DEF HoldingHolds, Holding, DownloadHolds
<1>4. PICK present \in SUBSET Nodes, at \in 1 .. Len(Walk) + 1, failures \in SUBSET Files :
        /\ dirs' = [dirs EXCEPT ![dir] = present] /\ dirs[dir] \subseteq present
        /\ importer[i].failures \subseteq failures
        /\ \/ /\ importer[i].at <= Len(Walk) /\ at = importer[i].at + 1
              /\ Here(i) \in Files => Here(i) \in present \cup failures
              /\ importer' = [importer EXCEPT ![i] =
                                 [importer[i] EXCEPT !.at = at, !.failures = failures]]
           \/ /\ importer[i].at > Len(Walk) /\ at = 1
              /\ failures = importer[i].failures
              /\ importer' = [importer EXCEPT ![i] =
                                 [importer[i] EXCEPT !.pc = "load", !.at = 1]]
  <2>1. CASE Downloaded(i)
    <3>1. 1 \in 1 .. Len(Walk) + 1
      BY WalkTyped
    <3>2. importer[i].failures \in SUBSET Files
      BY <1>2 DEF Run
    <3>3. dirs' = [dirs EXCEPT ![dir] = dirs[dir]]
      BY <1>2, <2>1 DEF Downloaded
    <3> QED
      BY <1>2, <2>1, <3>1, <3>2, <3>3 DEF Downloaded, Become
  <2>2. CASE Download(i)
    <3> DEFINE next == [importer[i] EXCEPT !.at = @ + 1]
    <3>1. /\ importer[i].at <= Len(Walk) /\ importer[i].at + 1 \in 1 .. Len(Walk) + 1
          /\ importer[i].failures \in SUBSET Files
      BY <1>2, <2>2, RunTyped DEF Download, Typed, Run
    <3>2. next = [importer[i] EXCEPT !.at = importer[i].at + 1,
                                     !.failures = importer[i].failures]
      BY <1>2 DEF Run
    <3>3. CASE /\ Here(i) \in Folders \cup dirs[dir] /\ Become(i, next) /\ UNCHANGED dirs
      <4>1. dirs' = [dirs EXCEPT ![dir] = dirs[dir]]
        BY <1>2, <3>3
      <4>2. Here(i) \in Files => Here(i) \in dirs[dir]
        BY <3>3, MaterialImportAssumption
      <4>3. importer' = [importer EXCEPT ![i] =
                           [importer[i] EXCEPT !.at = importer[i].at + 1,
                                               !.failures = importer[i].failures]]
        BY <3>2, <3>3 DEF Become
      <4>4. Here(i) \in Files => Here(i) \in dirs[dir] \cup importer[i].failures
        BY <4>2
      <4> QED
        BY <1>2, <3>1, <4>1, <4>3, <4>4
    <3>4. CASE /\ Here(i) \in Files \ dirs[dir] /\ Become(i, next)
               /\ dirs' = [dirs EXCEPT ![dir] = @ \cup Path[Here(i)]]
      <4> DEFINE present == dirs[dir] \cup Path[Here(i)]
      <4>1. dirs' = [dirs EXCEPT ![dir] = present]
        BY <3>4
      <4>2. present \in SUBSET Nodes /\ dirs[dir] \subseteq present /\ Here(i) \in present
        BY <1>2, <3>4, PathTyped DEF Nodes
      <4>3. importer' = [importer EXCEPT ![i] =
                           [importer[i] EXCEPT !.at = importer[i].at + 1,
                                               !.failures = importer[i].failures]]
        BY <3>2, <3>4 DEF Become
      <4> HIDE DEF present
      <4> QED
        BY <1>2, <3>1, <4>1, <4>2, <4>3
    <3>5. CASE /\ Here(i) \in Files \ dirs[dir]
               /\ Become(i, [next EXCEPT !.failures = @ \cup {Here(i)}])
               /\ dirs' = [dirs EXCEPT ![dir] = @ \cup (Path[Here(i)] \cap Folders)]
      <4> DEFINE present == dirs[dir] \cup (Path[Here(i)] \cap Folders)
      <4>1. dirs' = [dirs EXCEPT ![dir] = present]
        BY <3>5
      <4>4. present \in SUBSET Nodes /\ dirs[dir] \subseteq present
        BY <1>2 DEF Nodes
      <4> HIDE DEF present
      <4>2. [next EXCEPT !.failures = @ \cup {Here(i)}]
              = [importer[i] EXCEPT !.at = importer[i].at + 1,
                                    !.failures = importer[i].failures \cup {Here(i)}]
        BY <1>2 DEF Run
      <4>3. importer[i].failures \cup {Here(i)} \in SUBSET Files
        BY <3>1, <3>5
      <4> QED
        BY <1>2, <3>1, <3>5, <4>1, <4>2, <4>3, <4>4 DEF Become
    <3> QED
      BY <2>2, <3>3, <3>4, <3>5 DEF Download
  <2> QED
    BY <2>1, <2>2
<1>5. /\ importer'[i].dir = dir /\ importer'[i].cleanup /\ importer'[i].copy = NoRow
      /\ importer'[i].at = at /\ importer'[i].failures = failures
      /\ importer'[i].cache = importer[i].cache
      /\ importer'[i].pc = IF at = 1 THEN "load" ELSE "download"
      /\ Alone(i)
  <2>1. importer \in [Importers -> Run] /\ importer[i].at \in 1 .. Len(Walk) + 1
    BY <1>2 DEF Typed, Run
  <2>2. CASE importer' = [importer EXCEPT ![i] =
                            [importer[i] EXCEPT !.at = at, !.failures = failures]]
              /\ at = importer[i].at + 1
    BY <1>2, <1>3, <2>1, <2>2 DEF Alone, Run
  <2>3. CASE importer' = [importer EXCEPT ![i] =
                            [importer[i] EXCEPT !.pc = "load", !.at = 1]]
              /\ at = 1 /\ failures = importer[i].failures
    BY <1>2, <1>3, <2>1, <2>3 DEF Alone, Run
  <2> QED
    BY <1>4, <2>2, <2>3
<1>6. Rests(i)
  BY <1>2, <1>5 DEF Rests
<1>7. /\ dirs'[dir] = present /\ present # NoDir
      /\ \A d \in 1 .. MaxRuns : d # dir => dirs'[d] = dirs[d]
  BY <1>2, <1>4, MaterialImportAssumption
<1>8. DirsOfOthersStay(i)
  BY <1>2, <1>7, DirTyped DEF DirsOfOthersStay, DirHolds
<1>9. RemovesOnlyComplete(i)
  BY <1>7 DEF RemovesOnlyComplete
<1>10. dir \in 1 .. runs /\ DirsOfRuns'
  BY <1>2, <1>7 DEF DirsOfRuns, DirHolds
<1>11. ASSUME NEW j \in Importers PROVE DirHolds(j)'
  <2>1. /\ importer'[j].dir = importer[j].dir
        /\ \A k \in Importers : /\ importer'[k].dir = importer[k].dir
                                /\ importer'[k].pc # "idle" => importer[k].pc # "idle"
    BY <1>2, <1>5 DEF Alone
  <2>2. importer[j].pc # "idle" => dirs'[importer[j].dir] # NoDir
    BY <1>7, <1>8 DEF DirHolds, DirsOfOthersStay
  <2> QED
    BY <1>2, <2>1, <2>2 DEF DirHolds
<1>12. DownloadHolds(i)'
  <2>1. \A k \in 1 .. importer[i].at - 1 :
           Walk[k] \in Files => Walk[k] \in present \cup failures
    BY <1>2, <1>4 DEF DownloadHolds
  <2>2. importer[i].at \in 1 .. Len(Walk) + 1
    BY <1>2 DEF Run
  <2>3. CASE at # 1
    <3>1. at = importer[i].at + 1 /\ (Here(i) \in Files => Here(i) \in present \cup failures)
      BY <1>4, <2>3
    <3>2. \A k \in 1 .. at - 1 : Walk[k] \in Files => Walk[k] \in present \cup failures
      BY <2>1, <2>2, <3>1 DEF Here
    <3> QED
      BY <1>5, <1>7, <2>3, <3>2 DEF DownloadHolds, Working
  <2>4. CASE at = 1
    <3>1. importer[i].at = Len(Walk) + 1
      BY <1>4, <2>2, <2>4, WalkTyped
    <3>2. Files \subseteq present \cup failures
      BY <2>1, <3>1, WalkTyped DEF Nodes
    <3> QED
      BY <1>5, <1>7, <2>4, <3>2 DEF DownloadHolds, Working
  <2> QED
    BY <2>3, <2>4
<1> QED
  BY <1>1, <1>6, <1>8, <1>9, <1>10, <1>11, <1>12
-----------------------------------------------------------------------------
(* The surroundings. *)

Everybody(nodes) ==
    \A j \in Importers :
        /\ Near(importer[j], importer'[j])
        /\ importer[j].pc # "idle" => nodes \subseteq importer'[j].touched

LEMMA EditTyped ==
    ASSUME Typed, Edit
    PROVE  edits' \in 0 .. MaxEdits /\ edits' # edits
BY MaterialImportAssumption DEF Typed, OthersTyped, Edit

LEMMA TouchEffect ==
    ASSUME Typed, NEW nodes \in SUBSET Nodes, Touch(nodes),
           TablesTyped', media' \in SUBSET Media, IsFiniteSet(media')
    PROVE  /\ Typed' /\ Everybody(nodes) /\ UNCHANGED <<serial, dirs, runs>>
           /\ edits' # edits
<1>1. importer \in [Importers -> Run]
  BY DEF Typed
<1>2. importer' \in [Importers -> Run] /\ Everybody(nodes)
  BY <1>1, TouchedEffect DEF Touch, Everybody
<1>3. UNCHANGED <<serial, dirs, runs>> /\ edits' \in 0 .. MaxEdits /\ edits' # edits
  BY EditTyped DEF Touch
<1> QED
  BY <1>2, <1>3 DEF Typed, OthersTyped

LEMMA PublishEffect ==
    ASSUME Typed, NEW node \in Nodes, Publish(node)
    PROVE  /\ Typed' /\ Everybody({}) /\ UNCHANGED <<media, serial, dirs, runs>>
           /\ edits' # edits
           /\ \A j \in Importers : Holding(j) /\ Here(j) = node => importer'[j].restated
           /\ \A n \in Nodes :
                 /\ rows[n] = NoRow <=> rows'[n] = NoRow
                 /\ rows'[n].id = rows[n].id /\ rows'[n].parent = rows[n].parent
                 /\ rows'[n].slug = rows[n].slug /\ rows'[n].file = rows[n].file
                 /\ n # node => rows'[n] = rows[n]
<1> DEFINE new == [rows[node] EXCEPT !.is_published = ~ @]
<1>1. /\ rows[node] # NoRow /\ rows' = [rows EXCEPT ![node] = new]
      /\ UNCHANGED <<media, serial, dirs, runs>> /\ importer' = Restated(node)
      /\ edits' \in 0 .. MaxEdits /\ edits' # edits
  BY EditTyped DEF Publish, Stored
<1>2. /\ rows[node] \in Row /\ rows[node].id \in Nat
      /\ rows[node].parent \in CategoryIds \cup {Nothing}
      /\ rows \in [Nodes -> Row \cup {NoRow}]
  BY <1>1 DEF Typed, TablesTyped, Stored
<1>3. /\ new \in Row /\ new.id = rows[node].id /\ new.parent = rows[node].parent
      /\ new.slug = rows[node].slug /\ new.file = rows[node].file
  BY <1>2 DEF Row
<1>4. new # NoRow
  BY <1>3, MaterialImportAssumption
<1> HIDE DEF new
<1>5. TablesTyped'
  BY <1>1, <1>2, <1>3, RowWritten DEF Typed
<1>6. /\ importer' \in [Importers -> Run] /\ Everybody({})
      /\ \A j \in Importers : Holding(j) /\ Here(j) = node => importer'[j].restated
  BY <1>1, RestatedEffect DEF Everybody
<1>7. Typed'
  BY <1>1, <1>5, <1>6 DEF Typed, OthersTyped
<1> QED
  BY <1>1, <1>2, <1>3, <1>4, <1>6, <1>7

LEMMA DetachEffect ==
    ASSUME Typed, NEW node \in Nodes, Detach(node)
    PROVE  /\ Typed' /\ Everybody({node}) /\ UNCHANGED <<media, serial, dirs, runs>>
           /\ edits' # edits
           /\ \A n \in Nodes :
                 /\ rows[n] = NoRow <=> rows'[n] = NoRow
                 /\ rows'[n].id = rows[n].id /\ rows'[n].slug = rows[n].slug
                 /\ rows'[n].is_published = rows[n].is_published
                 /\ n # node => rows'[n] = rows[n]
<1> DEFINE new == [rows[node] EXCEPT !.parent = Nothing]
<1>1. /\ rows[node] # NoRow /\ rows' = [rows EXCEPT ![node] = new]
      /\ UNCHANGED media /\ Touch({node})
  BY DEF Detach, Stored
<1>2. /\ rows[node] \in Row /\ rows[node].id \in Nat
      /\ rows \in [Nodes -> Row \cup {NoRow}]
  BY <1>1 DEF Typed, TablesTyped, Stored
<1>3. /\ new \in Row /\ new.id = rows[node].id /\ new.parent = Nothing
      /\ new.slug = rows[node].slug /\ new.is_published = rows[node].is_published
  BY <1>2 DEF Row, Id
<1>4. new # NoRow
  BY <1>3, MaterialImportAssumption
<1> HIDE DEF new
<1>5. TablesTyped'
  BY <1>1, <1>2, <1>3, RowWritten DEF Typed
<1>6. /\ Typed' /\ Everybody({node}) /\ UNCHANGED <<serial, dirs, runs>> /\ edits' # edits
  BY <1>1, <1>5, TouchEffect DEF Typed, OthersTyped
<1> QED
  BY <1>1, <1>2, <1>3, <1>4, <1>6

LEMMA LoseMediaEffect ==
    ASSUME Typed, LoseMedia
    PROVE  /\ Typed' /\ Everybody(Files) /\ UNCHANGED <<rows, serial, dirs, runs>>
           /\ edits' # edits
<1>1. UNCHANGED rows /\ media' = {} /\ Touch(Files) /\ Files \in SUBSET Nodes
  BY DEF LoseMedia, Nodes
<1>2. media' \in SUBSET Media /\ IsFiniteSet(media')
  BY <1>1, FS_EmptySet
<1>3. TablesTyped'
  BY <1>1, TablesKept DEF Typed
<1> QED
  BY <1>1, <1>2, <1>3, TouchEffect

(* A deletion takes everything below with it, so no foreign key dangles. *)
LEMMA CascadeIsClosed ==
    ASSUME Typed, NEW node \in Stored
    PROVE  /\ Cascade(node) \subseteq Stored
           /\ \A above \in Cascade(node) \cap Folders, child \in Stored \cap Folders :
                 rows[child].parent = rows[above].id => child \in Cascade(node)
<1>1. CASE node \in Files
  BY <1>1, MaterialImportAssumption DEF Cascade
<1>2. CASE node \notin Files
  <2>1. Cascade(node) = {n \in Stored \cap Folders : \A S \in SUBSET Folders :
              node \in S /\ Children(S) \subseteq S => n \in S}
    BY <1>2 DEF Cascade
  <2>2. ASSUME NEW above \in Cascade(node) \cap Folders, NEW child \in Stored \cap Folders,
               rows[child].parent = rows[above].id,
               NEW S \in SUBSET Folders, node \in S, Children(S) \subseteq S
        PROVE  child \in S
    <3>1. above \in S \cap Stored
      BY <2>1, <2>2
    <3>2. child \in Children(S)
      BY <2>2, <3>1 DEF Children
    <3> QED
      BY <2>2, <3>2
  <2> QED
    BY <2>1, <2>2
<1> QED
  BY <1>1, <1>2

LEMMA DeleteEffect ==
    ASSUME Typed, NEW node \in Nodes, Delete(node)
    PROVE  /\ Typed' /\ UNCHANGED <<media, serial, dirs, runs>> /\ edits' # edits
           /\ \E moved \in SUBSET Nodes :
                 /\ Everybody(moved)
                 /\ \A n \in Nodes \ moved :
                       /\ rows'[n] = rows[n]
                       /\ rows[n] # NoRow => \A a \in Folders :
                             rows[a] # NoRow /\ rows[n].parent = rows[a].id =>
                                 rows'[a] # NoRow
           /\ \A n \in Nodes : rows'[n] # NoRow =>
                 /\ rows[n] # NoRow /\ rows'[n].id = rows[n].id
                 /\ rows'[n].slug = rows[n].slug
                 /\ rows'[n].file = rows[n].file
                 /\ rows'[n].is_published = rows[n].is_published
           /\ \A n \in Folders : rows'[n] \in {rows[n], NoRow}
<1> DEFINE gone    == Cascade(node)
           keys    == {rows[n].id : n \in gone \cap Folders}
           orphans == {n \in Stored \cap Files : rows[n].parent \in keys} \ gone
           moved   == gone \cup orphans
<1>1. /\ node \in Stored /\ Touch(moved) /\ UNCHANGED media
      /\ rows' = [n \in Nodes |->
                     CASE n \in gone    -> NoRow
                       [] n \in orphans -> [rows[n] EXCEPT !.parent = Nothing]
                       [] OTHER         -> rows[n]]
  BY DEF Delete
<1>2. /\ gone \subseteq Stored
      /\ \A above \in gone \cap Folders, child \in Stored \cap Folders :
            rows[child].parent = rows[above].id => child \in gone
  BY <1>1, CascadeIsClosed
<1>3. orphans \subseteq Stored \cap Files /\ orphans \cap gone = {} /\ moved \in SUBSET Nodes
  BY <1>2 DEF Stored
<1>4. \A above \in gone \cap Folders, n \in Stored \ moved : rows[n].parent # rows[above].id
  BY <1>2 DEF Stored, Nodes
<1> HIDE DEF gone, keys, orphans
<1>5. \A n \in Nodes :
         /\ n \in gone => rows'[n] = NoRow
         /\ n \in orphans => rows'[n] = [rows[n] EXCEPT !.parent = Nothing]
         /\ n \notin moved => rows'[n] = rows[n]
  BY <1>1, <1>3
<1>6. \A n \in Stored : rows[n] \in Row /\ rows[n].id \in Nat
  BY DEF Typed, TablesTyped, Stored
<1>7. \A n \in orphans :
         /\ rows'[n] \in Row /\ rows'[n].id = rows[n].id /\ rows'[n].parent = Nothing
         /\ rows'[n].slug = rows[n].slug /\ rows'[n].file = rows[n].file
         /\ rows'[n].is_published = rows[n].is_published
  <2> SUFFICES ASSUME NEW n \in orphans
               PROVE  /\ rows'[n] \in Row /\ rows'[n].id = rows[n].id
                      /\ rows'[n].parent = Nothing
                      /\ rows'[n].slug = rows[n].slug /\ rows'[n].file = rows[n].file
                      /\ rows'[n].is_published = rows[n].is_published
    OBVIOUS
  <2>1. rows'[n] = [rows[n] EXCEPT !.parent = Nothing] /\ rows[n] \in Row
    BY <1>3, <1>5, <1>6 DEF Stored
  <2> QED
    BY <2>1 DEF Row, Id
<1>8. \A n \in Folders : rows'[n] \in {rows[n], NoRow}
  BY <1>3, <1>5, MaterialImportAssumption DEF Nodes
<1>9. \A n \in Nodes : rows'[n] # NoRow =>
        /\ rows[n] # NoRow /\ rows'[n].id = rows[n].id
        /\ rows'[n].slug = rows[n].slug /\ rows'[n].file = rows[n].file
        /\ rows'[n].is_published = rows[n].is_published
  BY <1>3, <1>5, <1>7 DEF Stored
<1>10. ASSUME NEW n \in Nodes \ moved, rows[n] # NoRow,
              NEW a \in Folders, rows[a] # NoRow, rows[n].parent = rows[a].id
       PROVE  rows'[a] # NoRow
  <2>1. a \notin gone
    BY <1>4, <1>10 DEF Stored
  <2>2. a \notin moved
    BY <1>3, <2>1, MaterialImportAssumption
  <2> QED
    BY <1>5, <1>10, <2>2 DEF Nodes
<1>11. TablesTyped'
  <2>1. rows' \in [Nodes -> Row \cup {NoRow}]
    <3>1. \A n \in Nodes : rows'[n] \in Row \cup {NoRow}
      BY <1>3, <1>5, <1>6, <1>7 DEF Stored
    <3> QED
      BY <1>1, <3>1
  <2>2. ASSUME NEW n \in Nodes, rows'[n] # NoRow
        PROVE  rows'[n].id \in Nat /\ rows'[n].parent \in CategoryIds' \cup {Nothing}
    <3>1. CASE n \in orphans
      BY <1>3, <1>6, <1>7, <3>1
    <3>2. CASE n \notin orphans
      <4>1. n \notin moved /\ rows'[n] = rows[n] /\ n \in Stored
        BY <1>5, <2>2, <3>2 DEF Stored
      <4>2. rows[n].id \in Nat /\ rows[n].parent \in CategoryIds \cup {Nothing}
        BY <4>1 DEF Typed, TablesTyped
      <4>3. CASE rows[n].parent \in CategoryIds
        <5>1. PICK a \in Stored \cap Folders : rows[n].parent = rows[a].id
          BY <4>3 DEF CategoryIds
        <5>2. rows'[a] # NoRow
          BY <1>10, <4>1, <5>1 DEF Stored
        <5>3. rows'[a] = rows[a] /\ a \in Stored' \cap Folders
          BY <1>8, <5>1, <5>2 DEF Stored
        <5> QED
          BY <4>1, <4>2, <5>1, <5>3 DEF CategoryIds
      <4> QED
        BY <4>1, <4>2, <4>3
    <3> QED
      BY <3>1, <3>2
  <2> QED
    BY <2>1, <2>2 DEF TablesTyped, Stored
<1>12. /\ Typed' /\ Everybody(moved) /\ UNCHANGED <<serial, dirs, runs>> /\ edits' # edits
  <2> HIDE DEF moved
  <2> QED
    BY <1>1, <1>3, <1>11, TouchEffect DEF Typed, OthersTyped
<1> HIDE DEF moved
<1>13. \A n \in Nodes \ moved :
          /\ rows'[n] = rows[n]
          /\ rows[n] # NoRow => \A a \in Folders :
                rows[a] # NoRow /\ rows[n].parent = rows[a].id => rows'[a] # NoRow
  BY <1>5, <1>10
<1> QED
  BY <1>1, <1>3, <1>8, <1>9, <1>12, <1>13
-----------------------------------------------------------------------------
(* What a step leaves to the runs that do not take it. *)

Frame(j) ==
    /\ Near(importer[j], importer'[j])
    /\ importer[j].pc # "idle" => dirs'[importer[j].dir] = dirs[importer[j].dir]

LEMMA HoldingFramed ==
    ASSUME NEW j \in Importers, Frame(j), HoldingHolds(j)
    PROVE  HoldingHolds(j)'
<1>1. /\ Holding(j)' <=> Holding(j)
      /\ Here(j)' = Here(j) /\ Wanted(j)' = Wanted(j)
  BY DEF Frame, Near, Holding, Here, Wanted
<1>2. Holding(j) => (Visited(j)' <=> Visited(j))
  BY DEF Frame, Near, Holding, Here, Visited
<1>3. /\ importer'[j].pc = importer[j].pc /\ importer'[j].at = importer[j].at
      /\ importer'[j].copy = importer[j].copy /\ importer'[j].dry_run = importer[j].dry_run
  BY DEF Frame, Near
<1> QED
  BY <1>1, <1>2, <1>3 DEF HoldingHolds

LEMMA DownloadFramed ==
    ASSUME NEW j \in Importers, Frame(j), DownloadHolds(j)
    PROVE  DownloadHolds(j)'
BY DEF Frame, Near, DownloadHolds, Working

LEMMA DirsFramed ==
    ASSUME UNCHANGED <<dirs, runs>>, DirsOfRuns, \A j \in Importers : DirHolds(j),
           \A j \in Importers : /\ importer'[j].dir = importer[j].dir
                                /\ importer'[j].pc # "idle" => importer[j].pc # "idle"
    PROVE  DirsOfRuns' /\ \A j \in Importers : DirHolds(j)'
<1>1. dirs' = dirs /\ runs' = runs
  OBVIOUS
<1>2. DirsOfRuns'
  BY <1>1 DEF DirsOfRuns
<1>3. ASSUME NEW j \in Importers PROVE DirHolds(j)'
  <2>1. SUFFICES ASSUME importer'[j].pc # "idle" PROVE DirHolds(j)'
    BY DEF DirHolds
  <2>2. importer[j].pc # "idle" /\ importer'[j].dir = importer[j].dir
    BY <2>1
  <2>3. /\ importer[j].dir \in 1 .. runs /\ dirs[importer[j].dir] # NoDir
        /\ \A k \in Importers \ {j} :
              importer[k].pc # "idle" => importer[k].dir # importer[j].dir
    BY <2>2 DEF DirHolds
  <2> QED
    BY <1>1, <2>2, <2>3 DEF DirHolds
<1> QED
  BY <1>2, <1>3

LEMMA HoldingPassed ==
    ASSUME NEW i \in Importers, Passes(i)
    PROVE  HoldingHolds(i)' /\ PublishHolds(i)' /\ FileHolds(i)' /\ FolderHolds(i)'
BY DEF Passes, HoldingHolds, PublishHolds, FileHolds, FolderHolds, Holding

LEMMA DownloadPassed ==
    ASSUME NEW i \in Importers, DownloadHolds(i), Working(i), Working(i)', SameErrands(i),
           dirs' = dirs
    PROVE  DownloadHolds(i)'
BY DEF SameErrands, DownloadHolds, Working
-----------------------------------------------------------------------------
(* The keys and the slugs. *)

(* A step invents no key besides the next one, and gives that to the node new. *)
RunRemembers(j, new) ==
    /\ Holding(j)' =>
          \/ importer'[j].copy.id = Nothing
          \/ Remembered(Walk[importer'[j].at], importer'[j].copy.id, importer'[j].copy.slug)
    /\ \A folder \in Folders :
          LET key == importer'[j].cache[folder]
          IN  \/ key \in {0, Nothing} \/ Keyed(folder, key)
              \/ folder = new /\ key = serial /\ serial' = serial + 1

RowRemembers(node, new) ==
    rows'[node] # NoRow =>
        \/ Remembered(node, rows'[node].id, rows'[node].slug)
        \/ node = new /\ rows'[node].id = serial /\ serial' = serial + 1

LEMMA RememberedIsKeyed ==
    ASSUME NEW node, NEW key, NEW slug, Remembered(node, key, slug)
    PROVE  Keyed(node, key)
BY DEF Remembered, Keyed

LEMMA KeyedIsPositive ==
    ASSUME KeysPositive, NEW node \in Nodes, NEW slug
    PROVE  ~ Remembered(node, 0, slug)
BY DEF KeysPositive, Remembered, Stored

LEMMA RecordsStep ==
    ASSUME Typed, Records, serial' \in {serial, serial + 1}, NEW new,
           \A node \in Nodes : RowRemembers(node, new),
           \A j \in Importers : RunRemembers(j, new),
           \A j \in Importers : Holding(j)' => Walk[importer'[j].at] \in Nodes
    PROVE  Records'
<1>1. serial \in Nat /\ serial # 0 /\ Nothing \notin Nat
  BY MaterialImportAssumption DEF Typed, OthersTyped, Records, KeysPositive
<1>2. ASSUME NEW m \in Nodes, NEW key \in Nat \ {0}, Keyed(m, key)'
      PROVE  Keyed(m, key) \/ (m = new /\ key = serial /\ serial' = serial + 1)
  <2>1. CASE rows'[m] # NoRow /\ rows'[m].id = key
    BY <2>1, RememberedIsKeyed DEF RowRemembers
  <2>2. CASE \E i \in Importers : Holding(i)' /\ Here(i)' = m /\ importer'[i].copy.id = key
    <3>1. PICK i \in Importers : Holding(i)' /\ Here(i)' = m /\ importer'[i].copy.id = key
      BY <2>2
    <3>2. Remembered(m, key, importer'[i].copy.slug)
      BY <1>1, <3>1 DEF RunRemembers, Here
    <3> QED
      BY <3>2, RememberedIsKeyed
  <2>3. CASE m \in Folders /\ \E i \in Importers : importer'[i].cache[m] = key
    BY <1>1, <2>3 DEF RunRemembers
  <2> QED
    BY <1>2, <2>1, <2>2, <2>3 DEF Keyed
<1>3. ASSUME NEW m \in Nodes, NEW key \in Nat \ {0}, NEW slug, Remembered(m, key, slug)'
      PROVE  Remembered(m, key, slug) \/ (key = serial /\ rows'[m].slug = slug)
  <2>1. CASE rows'[m] # NoRow /\ rows'[m].id = key /\ rows'[m].slug = slug
    BY <2>1 DEF RowRemembers
  <2>2. CASE \E i \in Importers : /\ Holding(i)' /\ Here(i)' = m
                                  /\ importer'[i].copy.id = key /\ importer'[i].copy.slug = slug
    BY <1>1, <2>2 DEF RunRemembers, Here
  <2> QED
    BY <1>3, <2>1, <2>2 DEF Remembered
<1>4. KeysOwned'
  <2>1. \A m \in Nodes, key \in Nat \ {0} :
           Keyed(m, key) => key < serial /\ \A n \in Nodes : Keyed(n, key) => m = n
    BY DEF Records, KeysOwned
  <2>2. ASSUME NEW m \in Nodes, NEW key \in Nat \ {0}, Keyed(m, key)'
        PROVE  key < serial'
    BY <1>1, <1>2, <2>1, <2>2
  <2>3. ASSUME NEW m \in Nodes, NEW key \in Nat \ {0}, NEW n \in Nodes,
               Keyed(m, key)', Keyed(n, key)'
        PROVE  m = n
    BY <1>1, <1>2, <2>1, <2>3
  <2> QED
    BY <2>2, <2>3 DEF KeysOwned
<1>5. SlugsAgree'
  <2>1. SUFFICES ASSUME NEW m \in Nodes, NEW key \in Nat \ {0}, NEW slug, NEW other,
                        Remembered(m, key, slug)', Remembered(m, key, other)'
                 PROVE  slug = other
    BY DEF SlugsAgree
  <2>2. \A s : Remembered(m, key, s) => key < serial
    BY RememberedIsKeyed DEF Records, KeysOwned
  <2>3. key \in Nat
    OBVIOUS
  <2>4. CASE key = serial
    BY <1>1, <1>3, <2>1, <2>2, <2>4
  <2>5. CASE key # serial
    BY <1>3, <2>1, <2>5 DEF Records, SlugsAgree
  <2> QED
    BY <2>4, <2>5
<1>6. KeysPositive'
  <2>1. serial' # 0
    BY <1>1
  <2>2. ASSUME NEW node \in Nodes, rows'[node] # NoRow PROVE rows'[node].id # 0
    BY <1>1, <2>2, KeyedIsPositive DEF RowRemembers, Records
  <2>3. ASSUME NEW i \in Importers, Holding(i)' PROVE importer'[i].copy.id # 0
    <3>1. SUFFICES ASSUME importer'[i].copy.id = 0 PROVE FALSE
      OBVIOUS
    <3>2. 0 # Nothing
      BY <1>1
    <3>3. Remembered(Walk[importer'[i].at], 0, importer'[i].copy.slug)
      BY <2>3, <3>1, <3>2 DEF RunRemembers
    <3> QED
      BY <2>3, <3>3, KeyedIsPositive DEF Records
  <2> QED
    BY <2>1, <2>2, <2>3 DEF KeysPositive, Stored
<1> QED
  BY <1>4, <1>5, <1>6 DEF Records

LEMMA RowKeptRemembers ==
    ASSUME NEW node, NEW new, rows'[node] # NoRow => /\ rows[node] # NoRow
                                                     /\ rows'[node].id = rows[node].id
                                                     /\ rows'[node].slug = rows[node].slug
    PROVE  RowRemembers(node, new)
BY DEF RowRemembers, Remembered

LEMMA NearRemembers ==
    ASSUME NEW j \in Importers, NEW new, Near(importer[j], importer'[j])
    PROVE  /\ RunRemembers(j, new)
           /\ Holding(j)' => Holding(j) /\ Walk[importer'[j].at] = Here(j)
BY DEF Near, RunRemembers, Remembered, Keyed, Holding, Here

(* A run that passes its node remembers no more than its map. *)
LEMMA PassingRemembers ==
    ASSUME NEW i \in Importers, NEW new, importer'[i].pc \notin {"copy", "save"},
           \A folder \in Folders :
              LET key == importer'[i].cache[folder]
              IN  \/ key = importer[i].cache[folder] \/ key \in {0, Nothing}
                  \/ Keyed(folder, key)
                  \/ folder = new /\ key = serial /\ serial' = serial + 1
    PROVE  RunRemembers(i, new) /\ ~ Holding(i)'
<1>1. ~ Holding(i)'
  BY DEF Holding
<1>2. \A folder \in Folders : Keyed(folder, importer[i].cache[folder])
  BY DEF Keyed
<1> QED
  BY <1>1, <1>2 DEF RunRemembers
-----------------------------------------------------------------------------
(* The places. *)

LEMMA ExcusedAtOnce ==
    ASSUME NEW i, NEW node \in Nodes,
           node \in importer[i].errors \/ node \in importer[i].touched
    PROVE  Excused(i, node)
BY PathTyped DEF Excused

LEMMA ExcusedBelow ==
    ASSUME NEW i, NEW node \in Nodes \ {Root}, Parent[node] \in Folders,
           Excused(i, Parent[node])
    PROVE  Excused(i, node)
<1>1. Path[Parent[node]] \subseteq Path[node]
  BY PathTyped DEF Nodes
<1>2. CASE Parent[node] \in Ignored
  BY <1>2, MaterialImportAssumption DEF Excused
<1>3. CASE ~ Path[Parent[node]] \subseteq dirs[importer[i].dir]
  BY <1>1, <1>3 DEF Excused
<1>4. CASE Path[Parent[node]] \cap (importer[i].errors \cup importer[i].touched) # {}
  BY <1>1, <1>4 DEF Excused
<1> QED
  BY <1>2, <1>3, <1>4 DEF Excused

LEMMA ExcusedKept ==
    ASSUME NEW i, NEW node, Excused(i, node),
           importer[i].errors \subseteq importer'[i].errors,
           importer[i].touched \subseteq importer'[i].touched,
           dirs'[importer'[i].dir] = dirs[importer[i].dir]
    PROVE  Excused(i, node)'
BY DEF Excused

(* What a run can rely on in a step: what was in its place is there, unless    *)
(* somebody else has changed it, and then the run is excused.                 *)
PlacesStep(j) ==
    \A node \in Nodes \ importer'[j].touched :
        /\ InPlace(node) => InPlace(node)'
        /\ node \in Folders /\ rows[node] # NoRow =>
              /\ rows'[node] # NoRow /\ rows'[node].id = rows[node].id
              /\ rows'[node].parent = rows[node].parent \/ InPlace(node)'

LEMMA PlacesOfSameRows ==
    ASSUME NEW j, UNCHANGED rows,
           media \subseteq media' \/ Files \subseteq importer'[j].touched
    PROVE  PlacesStep(j)
BY DEF PlacesStep, InPlace

LEMMA DoneTyped ==
    ASSUME NEW i \in Importers, importer[i] \in Run
    PROVE  Done(i) \subseteq Nodes
BY WalkTyped DEF Done, Run

LEMMA KeptPlaces ==
    ASSUME NEW i \in Importers, importer[i] \in Run, PlacesStep(i), PlaceHolds(i),
           importer[i].errors \subseteq importer'[i].errors,
           importer[i].touched \subseteq importer'[i].touched,
           dirs'[importer'[i].dir] = dirs[importer[i].dir],
           Working(i), ~ importer[i].dry_run, NEW node \in Done(i)
    PROVE  \/ Excused(i, node)'
           \/ InPlace(node)' /\ (node \in Folders => importer[i].cache[node] = rows'[node].id)
<1>1. SUFFICES ASSUME ~ Excused(i, node)'
               PROVE  InPlace(node)' /\ (node \in Folders => importer[i].cache[node] = rows'[node].id)
  OBVIOUS
<1>2. node \in Nodes
  BY DoneTyped
<1>3. ~ Excused(i, node)
  BY <1>1, ExcusedKept
<1>4. node \notin importer'[i].touched
  BY <1>1, <1>2, PathTyped DEF Excused
<1>5. InPlace(node) /\ (node \in Folders => importer[i].cache[node] = rows[node].id)
  BY <1>3 DEF PlaceHolds
<1>6. rows[node] # NoRow
  BY <1>5 DEF InPlace
<1> QED
  BY <1>2, <1>4, <1>5, <1>6 DEF PlacesStep

LEMMA FramedPlaces ==
    ASSUME Typed, NEW j \in Importers, Frame(j), PlacesStep(j), PlaceHolds(j), FolderHolds(j)
    PROVE  PlaceHolds(j)' /\ FolderHolds(j)'
<1>1. /\ importer[j] \in Run
      /\ importer'[j].errors = importer[j].errors /\ importer'[j].cache = importer[j].cache
      /\ importer[j].touched \subseteq importer'[j].touched
      /\ importer'[j].pc = importer[j].pc /\ importer'[j].dir = importer[j].dir
      /\ importer'[j].at = importer[j].at /\ importer'[j].copy = importer[j].copy
      /\ importer'[j].dry_run = importer[j].dry_run
      /\ importer[j].pc # "idle" => dirs'[importer[j].dir] = dirs[importer[j].dir]
  BY DEF Typed, Frame, Near
<1>2. PlaceHolds(j)'
  <2>1. SUFFICES ASSUME Working(j)', ~ importer'[j].dry_run, NEW node \in Done(j)'
                 PROVE  \/ Excused(j, node)'
                        \/ InPlace(node)' /\ (node \in Folders =>
                                importer'[j].cache[node] = rows'[node].id)
    BY DEF PlaceHolds
  <2>2. /\ Working(j) /\ ~ importer[j].dry_run /\ node \in Done(j)
        /\ dirs'[importer'[j].dir] = dirs[importer[j].dir]
    BY <1>1, <2>1 DEF Working, Done
  <2> QED
    BY <1>1, <2>2, KeptPlaces
<1>3. FolderHolds(j)'
  <2> DEFINE copy == importer[j].copy
  <2>1. Here(j)' = Here(j)
    BY <1>1 DEF Here
  <2>2. SUFFICES ASSUME NEW node \in Folders, node = Here(j),
                        importer[j].pc = "save", copy.id # Nothing,
                        node \notin importer'[j].touched
                 PROVE  /\ rows'[node] # NoRow /\ rows'[node].id = copy.id
                        /\ rows'[node].parent = copy.parent \/ InPlace(node)'
    BY <1>1, <2>1 DEF FolderHolds, InPlace
  <2>3. /\ rows[node] # NoRow /\ rows[node].id = copy.id
        /\ rows[node].parent = copy.parent \/ InPlace(node)
    BY <1>1, <2>2 DEF FolderHolds
  <2>4. node \in Nodes \ importer'[j].touched
    BY <2>2 DEF Nodes
  <2> QED
    BY <2>2, <2>3, <2>4 DEF PlacesStep
<1> QED
  BY <1>2, <1>3

(* The node that a run passes joins the ones it answers for. *)
LEMMA PassedPlaces ==
    ASSUME Typed, NEW i \in Importers, Passes(i), Working(i), PlacesStep(i), PlaceHolds(i),
           importer[i].errors \subseteq importer'[i].errors, UNCHANGED dirs,
           \A folder \in Folders : folder # Here(i) =>
               importer'[i].cache[folder] = importer[i].cache[folder],
           ~ importer[i].dry_run => \A node \in {Here(i)} :
               \/ Excused(i, node)'
               \/ InPlace(node)' /\ (node \in Folders =>
                       importer'[i].cache[node] = rows'[node].id)
    PROVE  PlaceHolds(i)'
<1>1. SUFFICES ASSUME ~ importer'[i].dry_run, NEW node \in Done(i)'
               PROVE  \/ Excused(i, node)'
                      \/ InPlace(node)' /\ (node \in Folders =>
                              importer'[i].cache[node] = rows'[node].id)
  BY DEF PlaceHolds
<1>2. /\ importer[i] \in Run /\ importer[i].at \in 1 .. Len(Walk)
      /\ importer'[i].at = importer[i].at + 1 /\ ~ importer[i].dry_run
      /\ importer[i].touched \subseteq importer'[i].touched
      /\ dirs'[importer'[i].dir] = dirs[importer[i].dir]
  BY <1>1 DEF Passes, SameErrands, Typed
<1>3. node = Here(i) \/ node \in Done(i)
  <2>1. PICK k \in 1 .. importer[i].at : node = Walk[k]
    BY <1>1, <1>2 DEF Done
  <2>2. k = importer[i].at \/ k \in 1 .. importer[i].at - 1
    BY <1>2, <2>1
  <2> QED
    BY <2>1, <2>2 DEF Done, Here
<1>4. CASE node = Here(i)
  BY <1>2, <1>4
<1>5. CASE node # Here(i) /\ node \in Done(i)
  <2>1. \/ Excused(i, node)'
        \/ InPlace(node)' /\ (node \in Folders => importer[i].cache[node] = rows'[node].id)
    BY <1>2, <1>5, KeptPlaces
  <2> QED
    BY <1>5, <2>1
<1> QED
  BY <1>3, <1>4, <1>5
-----------------------------------------------------------------------------
(* What a run needs of the steps of the others. *)

PublishStep(j) ==
    LET row  == rows[Here(j)]
        next == rows'[Here(j)]
    IN  /\ Holding(j) /\ ~ importer'[j].restated
        /\ next # NoRow /\ next.id = importer[j].copy.id
        => row # NoRow /\ row.id = next.id /\ row.is_published = next.is_published

FileStep(j) ==
    importer[j].pc = "save" /\ Here(j) \in Files /\ importer[j].copy.file \in media =>
        importer[j].copy.file \in media' \/ Here(j) \in importer'[j].touched

Undisturbed(j) ==
    /\ importer[j].pc # "idle" => PlacesStep(j)
    /\ PublishStep(j) /\ FileStep(j)

LEMMA OwnFramed ==
    ASSUME Typed, NEW j \in Importers, Frame(j), Undisturbed(j), OwnHolds(j)
    PROVE  OwnHolds(j)'
<1>1. /\ importer'[j].pc = importer[j].pc /\ importer'[j].at = importer[j].at
      /\ importer'[j].copy = importer[j].copy
      /\ importer[j].restated => importer'[j].restated
      /\ importer[j].touched \subseteq importer'[j].touched
      /\ Here(j)' = Here(j) /\ Holding(j)' = Holding(j)
  BY DEF Frame, Near, Here, Holding
<1>2. HoldingHolds(j)' /\ DownloadHolds(j)'
  BY HoldingFramed, DownloadFramed DEF OwnHolds
<1>3. PublishHolds(j)'
  BY <1>1 DEF OwnHolds, PublishHolds, Undisturbed, PublishStep, Here, Holding
<1>4. FileHolds(j)'
  BY <1>1 DEF OwnHolds, FileHolds, Undisturbed, FileStep, Here
<1>5. CASE importer[j].pc = "idle"
  BY <1>1, <1>2, <1>3, <1>4, <1>5 DEF OwnHolds, FolderHolds, PlaceHolds, Working
<1>6. CASE importer[j].pc # "idle"
  BY <1>2, <1>3, <1>4, <1>6, FramedPlaces DEF OwnHolds, Undisturbed
<1> QED
  BY <1>5, <1>6

LEMMA SameRowsDisturbNobody ==
    ASSUME NEW j, UNCHANGED rows, media \subseteq media'
    PROVE  PlacesStep(j) /\ Undisturbed(j)
<1>1. PlacesStep(j)
  BY PlacesOfSameRows
<1>2. PublishStep(j) /\ FileStep(j)
  BY DEF PublishStep, FileStep
<1> QED
  BY <1>1, <1>2 DEF Undisturbed

LEMMA IInvIsTyped == IInv => Typed
BY TypedIsTypeOK DEF IInv

LEMMA NearItself ==
    ASSUME NEW state, NEW next, next = state
    PROVE  Near(state, next)
BY DEF Near

(* A step of one run that leaves the directories alone. *)
LEMMA OneRunPreserves ==
    ASSUME IInv, NEW i \in Importers, Typed', UNCHANGED <<dirs, runs>>,
           importer'[i].dir = importer[i].dir, importer[i].pc # "idle",
           \A j \in Importers \ {i} : Near(importer[j], importer'[j]) /\ Undisturbed(j),
           Records', OwnHolds(i)'
    PROVE  IInv'
<1>1. Typed
  BY IInvIsTyped
<1>2. DirsOfRuns' /\ \A j \in Importers : DirHolds(j)'
  <2>1. \A j \in Importers : /\ importer'[j].dir = importer[j].dir
                             /\ importer'[j].pc # "idle" => importer[j].pc # "idle"
    BY DEF Near
  <2> QED
    BY <2>1, DirsFramed DEF IInv
<1>3. ASSUME NEW j \in Importers \ {i} PROVE OwnHolds(j)'
  BY <1>1, OwnFramed DEF IInv, Frame
<1>4. TypeOK' /\ IsFiniteSet(media)'
  BY TypedIsTypeOK, PTL
<1> QED
  BY <1>2, <1>3, <1>4 DEF IInv

LEMMA EverybodyPreserves ==
    ASSUME IInv, Typed', UNCHANGED <<dirs, runs>>,
           \A j \in Importers : Near(importer[j], importer'[j]) /\ Undisturbed(j),
           Records'
    PROVE  IInv'
<1>1. Typed
  BY IInvIsTyped
<1>2. DirsOfRuns' /\ \A j \in Importers : DirHolds(j)'
  <2>1. \A j \in Importers : /\ importer'[j].dir = importer[j].dir
                             /\ importer'[j].pc # "idle" => importer[j].pc # "idle"
    BY DEF Near
  <2> QED
    BY <2>1, DirsFramed DEF IInv
<1>3. ASSUME NEW j \in Importers PROVE OwnHolds(j)'
  BY <1>1, OwnFramed DEF IInv, Frame
<1>4. TypeOK' /\ IsFiniteSet(media)'
  BY TypedIsTypeOK, PTL
<1> QED
  BY <1>2, <1>3, <1>4 DEF IInv

LEMMA RestsPreserves ==
    ASSUME IInv, NEW i \in Importers, Typed', Rests(i), DirsOfOthersStay(i),
           DirsOfRuns', \A j \in Importers : DirHolds(j)', DownloadHolds(i)'
    PROVE  IInv'
<1>1. Typed /\ Records
  BY IInvIsTyped DEF IInv
<1>2. UNCHANGED <<rows, media, serial>>
  BY DEF Rests
<1>3. ASSUME NEW j \in Importers \ {i} PROVE Near(importer[j], importer'[j]) /\ OwnHolds(j)'
  <2>1. Near(importer[j], importer'[j])
    BY NearItself DEF Rests, Alone
  <2>2. Frame(j)
    BY <2>1 DEF Frame, DirsOfOthersStay
  <2> QED
    BY <1>1, <1>2, <2>1, <2>2, SameRowsDisturbNobody, OwnFramed DEF IInv
<1>4. OwnHolds(i)'
  <2>1. importer'[i].pc \notin {"copy", "save"} /\ importer'[i].copy = NoRow
    BY DEF Rests
  <2>2. HoldingHolds(i)' /\ PublishHolds(i)' /\ FileHolds(i)' /\ FolderHolds(i)'
    BY <2>1 DEF HoldingHolds, PublishHolds, FileHolds, FolderHolds, Holding
  <2>3. Working(i)' => Done(i)' = {}
    <3>1. Working(i)' => importer'[i].at = 1
      BY DEF Rests, Working
    <3> QED
      BY <3>1 DEF Done
  <2> QED
    BY <2>2, <2>3 DEF OwnHolds, PlaceHolds
<1>5. Records'
  <2>1. RunRemembers(i, 0) /\ ~ Holding(i)'
    BY PassingRemembers DEF Rests
  <2>2. \A node \in Nodes : RowRemembers(node, 0)
    BY <1>2, RowKeptRemembers
  <2>3. \A j \in Importers : RunRemembers(j, 0)
    BY <1>3, <2>1, NearRemembers
  <2>4. \A j \in Importers : Holding(j)' => Walk[importer'[j].at] \in Nodes
    BY <1>1, <1>3, <2>1, NearRemembers, HeldTyped DEF IInv, OwnHolds
  <2> QED
    BY <1>1, <1>2, <2>2, <2>3, <2>4, RecordsStep
<1>6. TypeOK' /\ IsFiniteSet(media)'
  BY TypedIsTypeOK, PTL
<1> QED
  BY <1>3, <1>4, <1>5, <1>6 DEF IInv
-----------------------------------------------------------------------------
(* The actions of a run that only read. *)

LEMMA PassPreserves ==
    ASSUME IInv, NEW i \in Importers, Typed', Alone(i), Passes(i), Working(i),
           UNCHANGED <<rows, media, serial, dirs, runs>>,
           importer[i].errors \subseteq importer'[i].errors,
           \A folder \in Folders :
              \/ importer'[i].cache[folder] = importer[i].cache[folder]
              \/ importer'[i].cache[folder] = 0
              \/ rows[folder] # NoRow /\ importer'[i].cache[folder] = rows[folder].id,
           ~ importer[i].dry_run =>
              /\ importer'[i].cache = importer[i].cache
              /\ \A node \in {Here(i)} : Excused(i, node)'
    PROVE  IInv'
<1>1. Typed /\ Records /\ OwnHolds(i)
  BY IInvIsTyped DEF IInv
<1>2. \A j \in Importers \ {i} : Near(importer[j], importer'[j]) /\ Undisturbed(j)
  BY NearItself, SameRowsDisturbNobody DEF Alone
<1>3. HoldingHolds(i)' /\ PublishHolds(i)' /\ FileHolds(i)' /\ FolderHolds(i)'
  BY HoldingPassed
<1>4. DownloadHolds(i)'
  BY <1>1, DownloadPassed DEF Passes, Working, OwnHolds
<1>5. PlaceHolds(i)'
  <2>1. CASE importer[i].dry_run
    BY <2>1 DEF PlaceHolds, Passes, SameErrands
  <2>2. CASE ~ importer[i].dry_run
    <3>1. PlacesStep(i)
      BY SameRowsDisturbNobody
    <3> QED
      BY <1>1, <2>2, <3>1, PassedPlaces DEF OwnHolds
  <2> QED
    BY <2>1, <2>2
<1>6. Records'
  <2>1. RunRemembers(i, 0) /\ ~ Holding(i)'
    <3>1. importer'[i].pc \notin {"copy", "save"}
      BY DEF Passes
    <3>2. \A folder \in Folders :
             \/ importer'[i].cache[folder] = importer[i].cache[folder]
             \/ importer'[i].cache[folder] \in {0, Nothing}
             \/ Keyed(folder, importer'[i].cache[folder])
      BY DEF Keyed
    <3> QED
      BY <3>1, <3>2, PassingRemembers
  <2>2. \A node \in Nodes : RowRemembers(node, 0)
    BY RowKeptRemembers
  <2>3. \A j \in Importers : RunRemembers(j, 0)
    BY <1>2, <2>1, NearRemembers
  <2>4. \A j \in Importers : Holding(j)' => Walk[importer'[j].at] \in Nodes
    BY <1>1, <1>2, <2>1, NearRemembers, HeldTyped DEF IInv, OwnHolds
  <2> QED
    BY <1>1, <2>2, <2>3, <2>4, RecordsStep
<1>7. importer'[i].dir = importer[i].dir /\ importer[i].pc # "idle"
  BY DEF Passes, SameErrands, Working
<1> QED
  BY <1>2, <1>3, <1>4, <1>5, <1>6, <1>7, OneRunPreserves DEF OwnHolds

(* What a run does not visit is nothing it has to answer for. *)
LEMMA SkippedIsExcused ==
    ASSUME IInv, NEW i \in Importers, Walking(i, "load"), ~ Visited(i), ~ importer[i].dry_run
    PROVE  Excused(i, Here(i))
<1>1. /\ importer[i] \in Run /\ importer[i].at \in 1 .. Len(Walk) /\ Here(i) \in Nodes
      /\ Here(i) # Root => Parent[Here(i)] \in Folders
  BY IInvIsTyped, RunTyped DEF Walking, Typed
<1>2. CASE Here(i) \in Ignored \/ Here(i) \notin dirs[importer[i].dir]
  BY <1>1, <1>2, PathTyped DEF Excused
<1>3. CASE Here(i) # Root /\ importer[i].cache[Parent[Here(i)]] = Nothing
  <2> DEFINE parent == Parent[Here(i)]
  <2>1. parent \in Done(i) /\ parent \in Folders /\ parent \in Nodes
    BY <1>1, <1>3, ParentTyped DEF Here, Done
  <2>2. Excused(i, parent) \/ (InPlace(parent) /\ importer[i].cache[parent] = rows[parent].id)
    BY <2>1 DEF IInv, OwnHolds, PlaceHolds, Working, Walking
  <2>3. CASE Excused(i, parent)
    BY <1>1, <1>3, <2>3, ExcusedBelow
  <2>4. CASE InPlace(parent) /\ importer[i].cache[parent] = rows[parent].id
    <3>1. rows[parent].id \in Nat
      BY <2>1, <2>4, IInvIsTyped DEF InPlace, Typed, TablesTyped, Stored
    <3> QED
      BY <1>3, <2>4, <3>1, MaterialImportAssumption
  <2> QED
    BY <2>2, <2>3, <2>4
<1> QED
  BY <1>2, <1>3 DEF Visited

LEMMA SkipPreserves ==
    ASSUME IInv, NEW i \in Importers, Skip(i)
    PROVE  IInv'
<1>1. Typed
  BY IInvIsTyped
<1>2. /\ UNCHANGED <<rows, media, serial, dirs, runs, edits>>
      /\ Walking(i, "load") /\ ~ Visited(i)
  BY DEF Skip
<1>3. /\ importer' \in [Importers -> Run] /\ Alone(i) /\ Passes(i)
      /\ importer'[i].cache = importer[i].cache
      /\ importer'[i].errors = importer[i].errors
  BY <1>1, SkipEffect
<1>4. Typed' /\ Working(i)
  BY <1>1, <1>2, <1>3, TablesKept DEF Typed, OthersTyped, Working, Walking
<1>5. ASSUME ~ importer[i].dry_run, NEW node \in {Here(i)} PROVE Excused(i, node)'
  <2>1. Excused(i, node)
    BY <1>2, <1>5, SkippedIsExcused
  <2> QED
    BY <1>2, <1>3, <2>1, ExcusedKept DEF Passes, SameErrands
<1> QED
  BY <1>2, <1>3, <1>4, <1>5, PassPreserves

LEMMA ItemFailsPreserves ==
    ASSUME IInv, NEW i \in Importers, ItemFails(i)
    PROVE  IInv'
<1>1. Typed
  BY IInvIsTyped
<1>2. /\ UNCHANGED <<rows, media, serial, dirs, runs, edits>>
      /\ Walking(i, importer[i].pc) /\ Working(i)
  BY DEF ItemFails, Working
<1>3. /\ importer' \in [Importers -> Run] /\ Alone(i) /\ Passes(i)
      /\ importer'[i].cache = importer[i].cache
      /\ importer'[i].errors = importer[i].errors \cup {Here(i)}
  BY <1>1, ItemFailsEffect
<1>4. Typed'
  BY <1>1, <1>2, <1>3, TablesKept DEF Typed, OthersTyped
<1>5. ASSUME NEW node \in {Here(i)} PROVE Excused(i, node)'
  <2>1. node \in Nodes /\ node \in importer'[i].errors
    BY <1>1, <1>2, <1>3, RunTyped DEF Typed, Walking
  <2> QED
    BY <2>1, PathTyped DEF Excused
<1> QED
  BY <1>2, <1>3, <1>4, <1>5, PassPreserves

LEMMA DryVisitPreserves ==
    ASSUME IInv, NEW i \in Importers, DryVisit(i)
    PROVE  IInv'
<1>1. Typed
  BY IInvIsTyped
<1>2. /\ UNCHANGED <<rows, media, serial, dirs, runs, edits>>
      /\ Walking(i, "load") /\ importer[i].dry_run
  BY DEF DryVisit
<1>3. /\ importer' \in [Importers -> Run] /\ Alone(i) /\ Passes(i)
      /\ importer'[i].errors = importer[i].errors
      /\ \A node \in Folders :
            \/ importer'[i].cache[node] = importer[i].cache[node]
            \/ importer'[i].cache[node] = 0
            \/ rows[node] # NoRow /\ importer'[i].cache[node] = rows[node].id
  BY <1>1, DryVisitEffect
<1>4. Typed' /\ Working(i)
  BY <1>1, <1>2, <1>3, TablesKept DEF Typed, OthersTyped, Working, Walking
<1> QED
  BY <1>2, <1>3, <1>4, PassPreserves

(* The run takes a row into its hands, or puts a file into the one it holds. *)
LEMMA StayPreserves ==
    ASSUME IInv, NEW i \in Importers, Typed', Alone(i), Stays(i), Working(i), Working(i)',
           UNCHANGED <<rows, serial, dirs, runs>>, media \subseteq media',
           HoldingHolds(i)', PublishHolds(i)', FileHolds(i)', FolderHolds(i)',
           LET copy == importer'[i].copy
           IN  copy.id = Nothing \/ Remembered(Here(i), copy.id, copy.slug)
    PROVE  IInv'
<1>1. Typed /\ Records /\ OwnHolds(i)
  BY IInvIsTyped DEF IInv
<1>2. \A j \in Importers \ {i} : Near(importer[j], importer'[j]) /\ Undisturbed(j)
  BY NearItself, SameRowsDisturbNobody DEF Alone
<1>3. DownloadHolds(i)'
  BY <1>1, DownloadPassed DEF Stays, OwnHolds
<1>4. PlaceHolds(i)'
  <2>1. SUFFICES ASSUME ~ importer'[i].dry_run, NEW node \in Done(i)'
                 PROVE  \/ Excused(i, node)'
                        \/ InPlace(node)' /\ (node \in Folders =>
                                importer'[i].cache[node] = rows'[node].id)
    BY DEF PlaceHolds
  <2>2. /\ importer[i] \in Run /\ PlacesStep(i) /\ PlaceHolds(i)
        /\ ~ importer[i].dry_run /\ node \in Done(i)
    BY <1>1, <2>1, SameRowsDisturbNobody DEF Stays, SameErrands, Done, OwnHolds, Typed
  <2> QED
    BY <2>2, KeptPlaces DEF Stays, SameErrands
<1>5. Records'
  <2>1. RunRemembers(i, 0)
    <3>1. Walk[importer'[i].at] = Here(i)
      BY DEF Stays, Here
    <3>2. \A folder \in Folders : Keyed(folder, importer'[i].cache[folder])
      BY DEF Stays, Keyed
    <3> QED
      BY <3>1, <3>2 DEF RunRemembers
  <2>2. \A node \in Nodes : RowRemembers(node, 0)
    BY RowKeptRemembers
  <2>3. \A j \in Importers : RunRemembers(j, 0)
    BY <1>2, <2>1, NearRemembers
  <2>4. \A j \in Importers : Holding(j)' => Walk[importer'[j].at] \in Nodes
    <3>1. Walk[importer'[i].at] \in Nodes
      BY WalkTyped DEF Stays
    <3> QED
      BY <1>1, <1>2, <3>1, NearRemembers, HeldTyped DEF IInv, OwnHolds
  <2> QED
    BY <1>1, <2>2, <2>3, <2>4, RecordsStep
<1>6. importer'[i].dir = importer[i].dir /\ importer[i].pc # "idle"
  BY DEF Stays, SameErrands, Working
<1> QED
  BY <1>2, <1>3, <1>4, <1>5, <1>6, OneRunPreserves DEF OwnHolds

LEMMA StayKeepsPlace ==
    ASSUME NEW i \in Importers, Stays(i), UNCHANGED dirs
    PROVE  /\ Here(i)' = Here(i) /\ Wanted(i)' = Wanted(i) /\ (Visited(i)' <=> Visited(i))
           /\ importer'[i].at <= Len(Walk) /\ importer'[i].dry_run = importer[i].dry_run
<1>1. /\ importer'[i].at = importer[i].at /\ importer'[i].cache = importer[i].cache
      /\ importer'[i].dir = importer[i].dir /\ importer'[i].dry_run = importer[i].dry_run
      /\ importer[i].at <= Len(Walk)
  BY WalkTyped DEF Stays, SameErrands
<1> QED
  BY <1>1 DEF Here, Wanted, Visited

LEMMA LoadFolderPreserves ==
    ASSUME IInv, NEW i \in Importers, LoadFolder(i)
    PROVE  IInv'
<1> DEFINE copy == importer'[i].copy
<1>1. Typed
  BY IInvIsTyped
<1>2. /\ UNCHANGED <<rows, media, serial, dirs, runs, edits>>
      /\ Walking(i, "load") /\ Visited(i) /\ ~ importer[i].dry_run /\ Here(i) \in Folders
      /\ Here(i) \notin Files
  BY MaterialImportAssumption DEF LoadFolder
<1>3. /\ importer' \in [Importers -> Run] /\ Alone(i) /\ Stays(i)
      /\ importer'[i].pc = "save" /\ copy \in Row
      /\ IF rows[Here(i)] = NoRow
         THEN copy.id = Nothing /\ copy.parent = Wanted(i)
         ELSE copy = rows[Here(i)]
  BY <1>1, LoadFolderEffect
<1>4. /\ Here(i)' = Here(i) /\ Wanted(i)' = Wanted(i) /\ (Visited(i)' <=> Visited(i))
      /\ importer'[i].at <= Len(Walk) /\ importer'[i].dry_run = importer[i].dry_run
  BY <1>2, <1>3, StayKeepsPlace
<1>5. copy # NoRow
  BY <1>3, MaterialImportAssumption
<1>6. rows[Here(i)] # NoRow => rows[Here(i)].id # Nothing
  <2>1. Here(i) \in Nodes
    BY <1>2 DEF Nodes
  <2> QED
    BY <1>1, <2>1, MaterialImportAssumption DEF Typed, TablesTyped, Stored
<1>7. Typed' /\ Working(i) /\ Working(i)'
  BY <1>1, <1>2, <1>3, TablesKept DEF Typed, OthersTyped, Working, Walking
<1>8. HoldingHolds(i)'
  BY <1>2, <1>3, <1>4, <1>5, <1>6 DEF HoldingHolds, Holding
<1>9. PublishHolds(i)' /\ FolderHolds(i)'
  BY <1>2, <1>3, <1>4 DEF PublishHolds, FolderHolds
<1>10. FileHolds(i)'
  BY <1>2, <1>4 DEF FileHolds
<1>11. copy.id = Nothing \/ Remembered(Here(i), copy.id, copy.slug)
  BY <1>3 DEF Remembered
<1> QED
  BY <1>2, <1>3, <1>7, <1>8, <1>9, <1>10, <1>11, StayPreserves

LEMMA LoadFilePreserves ==
    ASSUME IInv, NEW i \in Importers, LoadFile(i)
    PROVE  IInv'
<1> DEFINE copy == importer'[i].copy
<1>1. Typed
  BY IInvIsTyped
<1>2. /\ UNCHANGED <<rows, media, serial, dirs, runs, edits>>
      /\ Walking(i, "load") /\ Visited(i) /\ ~ importer[i].dry_run /\ Here(i) \in Files
      /\ Here(i) \notin Folders
  BY MaterialImportAssumption DEF LoadFile
<1>3. /\ importer' \in [Importers -> Run] /\ Alone(i) /\ Stays(i)
      /\ copy \in Row /\ copy.parent = Wanted(i)
      /\ copy.id = IF rows[Here(i)] = NoRow THEN Nothing ELSE rows[Here(i)].id
      /\ rows[Here(i)] # NoRow =>
            /\ copy.slug = rows[Here(i)].slug
            /\ copy.is_published = rows[Here(i)].is_published
      /\ \/ importer'[i].pc = "copy"
         \/ importer'[i].pc = "save" /\ copy.file \in media
  BY <1>1, LoadFileEffect
<1>4. /\ Here(i)' = Here(i) /\ Wanted(i)' = Wanted(i) /\ (Visited(i)' <=> Visited(i))
      /\ importer'[i].at <= Len(Walk) /\ importer'[i].dry_run = importer[i].dry_run
  BY <1>2, <1>3, StayKeepsPlace
<1>5. copy # NoRow
  BY <1>3, MaterialImportAssumption
<1>6. Typed' /\ Working(i) /\ Working(i)'
  BY <1>1, <1>2, <1>3, TablesKept DEF Typed, OthersTyped, Working, Walking
<1>7. HoldingHolds(i)'
  BY <1>2, <1>3, <1>4, <1>5 DEF HoldingHolds, Holding
<1>8. PublishHolds(i)' /\ FileHolds(i)'
  BY <1>2, <1>3, <1>4 DEF PublishHolds, FileHolds
<1>9. FolderHolds(i)'
  BY <1>2, <1>4 DEF FolderHolds
<1>10. copy.id = Nothing \/ Remembered(Here(i), copy.id, copy.slug)
  BY <1>3 DEF Remembered
<1> QED
  BY <1>2, <1>3, <1>6, <1>7, <1>8, <1>9, <1>10, StayPreserves

LEMMA CopyFilePreserves ==
    ASSUME IInv, NEW i \in Importers, CopyFile(i)
    PROVE  IInv'
<1> DEFINE copy == importer'[i].copy
<1>1. Typed /\ HoldingHolds(i) /\ PublishHolds(i)
  BY IInvIsTyped DEF IInv, OwnHolds
<1>2. /\ UNCHANGED <<rows, serial, dirs, runs, edits>>
      /\ importer[i].pc = "copy" /\ Holding(i) /\ Here(i) \in Files
      /\ Here(i) \notin Folders
  BY <1>1, MaterialImportAssumption DEF CopyFile, Walking, Holding, HoldingHolds
<1>3. /\ importer' \in [Importers -> Run] /\ Alone(i) /\ Stays(i)
      /\ importer'[i].pc = "save" /\ copy \in Row /\ copy.file \in media'
      /\ copy.id = importer[i].copy.id /\ copy.parent = importer[i].copy.parent
      /\ copy.slug = importer[i].copy.slug
      /\ copy.is_published = importer[i].copy.is_published
      /\ media \subseteq media' /\ media' \in SUBSET Media /\ IsFiniteSet(media')
  BY <1>1, CopyFileEffect
<1>4. /\ Here(i)' = Here(i) /\ Wanted(i)' = Wanted(i) /\ (Visited(i)' <=> Visited(i))
      /\ importer'[i].at <= Len(Walk) /\ importer'[i].dry_run = importer[i].dry_run
  BY <1>2, <1>3, StayKeepsPlace
<1>5. copy # NoRow
  BY <1>3, MaterialImportAssumption
<1>6. Typed' /\ Working(i) /\ Working(i)'
  BY <1>1, <1>2, <1>3, TablesKept DEF Typed, OthersTyped, Working
<1>7. HoldingHolds(i)'
  BY <1>1, <1>2, <1>3, <1>4, <1>5 DEF HoldingHolds, Holding
<1>8. PublishHolds(i)'
  <2>1. importer'[i].restated = importer[i].restated
    BY <1>3 DEF Stays
  <2> QED
    BY <1>1, <1>2, <1>3, <1>4, <2>1 DEF PublishHolds
<1>9. FileHolds(i)' /\ FolderHolds(i)'
  BY <1>2, <1>3, <1>4 DEF FileHolds, FolderHolds
<1>10. copy.id = Nothing \/ Remembered(Here(i), copy.id, copy.slug)
  BY <1>2, <1>3 DEF Remembered
<1> QED
  BY <1>2, <1>3, <1>6, <1>7, <1>8, <1>9, <1>10, StayPreserves
-----------------------------------------------------------------------------
(* The actions of a run that write a row. *)

LEMMA ParentIsFolder ==
    ASSUME NEW node \in Nodes \ {Root}
    PROVE  Parent[node] \in Folders /\ Parent[node] \in Nodes /\ Parent[node] \notin Files
<1>1. PICK k \in 1 .. Len(Walk) : node = Walk[k]
  BY WalkTyped
<1> QED
  BY <1>1, ParentTyped, MaterialImportAssumption

(* A key in the map of a run that is the key of a category is the key of the  *)
(* folder above the node.                                                     *)
LEMMA WantedIsParent ==
    ASSUME Typed, Records, NEW i \in Importers, importer[i].at <= Len(Walk),
           Here(i) # Root, Wanted(i) \in CategoryIds
    PROVE  rows[Parent[Here(i)]] # NoRow /\ rows[Parent[Here(i)]].id = Wanted(i)
<1> DEFINE parent == Parent[Here(i)]
<1>1. parent \in Folders /\ parent \in Nodes
  BY RunTyped DEF Typed, Nodes
<1>2. PICK other \in Stored \cap Folders : Wanted(i) = rows[other].id
  BY DEF CategoryIds
<1>3. other \in Nodes /\ rows[other] # NoRow /\ Wanted(i) \in Nat \ {0}
  BY <1>2 DEF Stored, Typed, TablesTyped, Records, KeysPositive
<1>4. Keyed(parent, Wanted(i)) /\ Keyed(other, Wanted(i))
  BY <1>1, <1>2, <1>3 DEF Keyed, Wanted
<1>5. parent = other
  BY <1>1, <1>3, <1>4 DEF Records, KeysOwned
<1> QED
  BY <1>2, <1>3, <1>5

LEMMA SerialIsNew ==
    ASSUME Typed, Records, NEW node \in Nodes
    PROVE  ~ Keyed(node, serial) /\ serial \in Nat \ {0}
BY DEF Typed, OthersTyped, Records, KeysOwned, KeysPositive

LEMMA NewRowKeepsPlaces ==
    ASSUME Typed, NEW new \in Nodes, rows[new] = NoRow, NEW row,
           rows' = [rows EXCEPT ![new] = row], media' = media, NEW j
    PROVE  PlacesStep(j)
<1>1. \A node \in Nodes : node # new => rows'[node] = rows[node]
  BY DEF Typed, TablesTyped
<1>2. ASSUME NEW node \in Nodes, InPlace(node) PROVE InPlace(node)'
  <2>1. node # new /\ rows'[node] = rows[node]
    BY <1>1, <1>2 DEF InPlace
  <2>2. node # Root => rows'[Parent[node]] = rows[Parent[node]]
    BY <1>1, <1>2, ParentIsFolder DEF InPlace
  <2> QED
    BY <1>2, <2>1, <2>2 DEF InPlace
<1>3. \A node \in Nodes : rows[node] # NoRow => rows'[node] = rows[node]
  BY <1>1
<1> QED
  BY <1>2, <1>3 DEF PlacesStep, Nodes

LEMMA CreateFolderPreserves ==
    ASSUME IInv, NEW i \in Importers, CreateFolder(i)
    PROVE  IInv'
<1>1. Typed /\ Records /\ OwnHolds(i)
  BY IInvIsTyped DEF IInv
<1>2. PICK new \in Folders : new = Here(i)
  BY <1>1, CreateFolderEffect DEF OwnHolds
<1>3. /\ Typed' /\ Alone(i) /\ Passes(i) /\ UNCHANGED <<media, dirs, runs, edits>>
      /\ importer'[i].cache = [importer[i].cache EXCEPT ![new] = serial]
      /\ importer'[i].errors = importer[i].errors
      /\ rows[new] = NoRow /\ serial' = serial + 1
  BY <1>1, <1>2, CreateFolderEffect DEF OwnHolds
<1>4. PICK saved \in Row : /\ rows' = [rows EXCEPT ![new] = saved]
                           /\ saved.id = serial /\ saved.parent = Wanted(i)
                           /\ new # Root => Wanted(i) \in CategoryIds
  BY <1>1, <1>2, CreateFolderEffect DEF OwnHolds
<1>5. new \in Nodes /\ new \notin Files
  BY MaterialImportAssumption DEF Nodes
<1>6. /\ rows'[new] = saved /\ saved # NoRow
      /\ \A node \in Nodes : node # new => rows'[node] = rows[node]
  BY <1>1, <1>4, <1>5, MaterialImportAssumption DEF Typed, TablesTyped
<1>7. \A j : PlacesStep(j)
  BY <1>1, <1>3, <1>4, <1>5, NewRowKeepsPlaces
<1>8. ~ Keyed(new, serial) /\ serial \in Nat \ {0}
  BY <1>1, <1>5, SerialIsNew
<1>9. ASSUME NEW j \in Importers \ {i}
      PROVE  Near(importer[j], importer'[j]) /\ Undisturbed(j)
  <2>1. Near(importer[j], importer'[j])
    BY <1>3, NearItself DEF Alone
  <2>2. ASSUME Holding(j) PROVE PublishStep(j)
    <3>1. Here(j) \in Nodes
      BY <2>2, <1>1, HeldTyped DEF IInv, OwnHolds
    <3>2. CASE Here(j) = new
      <4>1. importer[j].copy.id # serial
        BY <1>8, <2>2, <3>2 DEF Keyed
      <4>2. rows'[Here(j)].id = serial
        BY <1>4, <1>6, <3>2
      <4> QED
        BY <4>1, <4>2 DEF PublishStep
    <3>3. CASE Here(j) # new
      <4>1. rows'[Here(j)] = rows[Here(j)]
        BY <1>6, <3>1, <3>3
      <4> QED
        BY <4>1 DEF PublishStep
    <3> QED
      BY <3>2, <3>3
  <2>3. PublishStep(j) /\ FileStep(j)
    BY <1>3, <2>2 DEF PublishStep, FileStep
  <2> QED
    BY <1>7, <2>1, <2>3 DEF Undisturbed
<1>10. Working(i) /\ importer[i].at <= Len(Walk)
  BY DEF CreateFolder, Walking, Working
<1>11. importer[i].cache \in [Folders -> Id]
  BY <1>1 DEF Typed, Run
<1>12. InPlace(new)'
  <2>1. CASE new = Root
    BY <1>5, <1>6, <2>1 DEF InPlace
  <2>2. CASE new # Root
    <3>1. rows[Parent[new]] # NoRow /\ rows[Parent[new]].id = Wanted(i)
      BY <1>1, <1>2, <1>4, <1>10, <2>2, WantedIsParent
    <3>2. rows'[Parent[new]] = rows[Parent[new]]
      BY <1>3, <1>5, <1>6, <2>2, <3>1, ParentIsFolder
    <3> QED
      BY <1>4, <1>5, <1>6, <3>1, <3>2 DEF InPlace
  <2> QED
    BY <2>1, <2>2
<1>13. PlaceHolds(i)'
  <2>1. /\ \A folder \in Folders : folder # new =>
              importer'[i].cache[folder] = importer[i].cache[folder]
        /\ importer'[i].cache[new] = serial
    BY <1>3, <1>11
  <2>2. \A node \in {new} :
           InPlace(node)' /\ (node \in Folders => importer'[i].cache[node] = rows'[node].id)
    BY <1>4, <1>6, <1>12, <2>1
  <2> QED
    BY <1>1, <1>2, <1>3, <1>7, <1>10, <2>1, <2>2, PassedPlaces DEF OwnHolds
<1>14. OwnHolds(i)'
  <2>1. DownloadHolds(i)'
    BY <1>1, <1>3, <1>10, DownloadPassed DEF Passes, Working, OwnHolds
  <2> QED
    BY <1>3, <1>13, <2>1, HoldingPassed DEF OwnHolds
<1>15. Records'
  <2>1. RunRemembers(i, new) /\ ~ Holding(i)'
    <3>1. importer'[i].pc \notin {"copy", "save"}
      BY <1>3 DEF Passes
    <3>2. \A folder \in Folders :
             \/ importer'[i].cache[folder] = importer[i].cache[folder]
             \/ folder = new /\ importer'[i].cache[folder] = serial
      BY <1>3, <1>11
    <3>3. serial' = serial + 1
      BY <1>3
    <3> QED
      BY <3>1, <3>2, <3>3, PassingRemembers
  <2>2. \A node \in Nodes : RowRemembers(node, new)
    <3>1. RowRemembers(new, new)
      BY <1>3, <1>4, <1>6 DEF RowRemembers
    <3>2. \A node \in Nodes : node # new => RowRemembers(node, new)
      BY <1>6, RowKeptRemembers
    <3> QED
      BY <3>1, <3>2
  <2>3. \A j \in Importers : RunRemembers(j, new)
    BY <1>9, <2>1, NearRemembers
  <2>4. \A j \in Importers : Holding(j)' => Walk[importer'[j].at] \in Nodes
    BY <1>1, <1>9, <2>1, NearRemembers, HeldTyped DEF IInv, OwnHolds
  <2> QED
    BY <1>1, <1>3, <2>2, <2>3, <2>4, RecordsStep
<1>16. importer'[i].dir = importer[i].dir /\ importer[i].pc # "idle"
  BY <1>3, <1>10 DEF Passes, SameErrands, Working
<1> QED
  BY <1>3, <1>9, <1>14, <1>15, <1>16, OneRunPreserves

LEMMA KeepFolderPreserves ==
    ASSUME IInv, NEW i \in Importers, KeepFolder(i)
    PROVE  IInv'
<1> DEFINE copy == importer[i].copy
<1>1. Typed /\ Records /\ OwnHolds(i) /\ HoldingHolds(i)
  BY IInvIsTyped DEF IInv, OwnHolds
<1>2. PICK new \in Folders : new = Here(i)
  BY <1>1, KeepFolderEffect
<1>3. PICK row \in Row : row = IF copy.id = Nothing THEN rows[new] ELSE copy
  BY <1>1, <1>2, KeepFolderEffect
<1>4. /\ Typed' /\ Alone(i) /\ Passes(i) /\ UNCHANGED <<media, serial, dirs, runs, edits>>
      /\ importer[i].pc = "save" /\ copy \in Row
      /\ importer'[i].errors = importer[i].errors
  BY <1>1, KeepFolderEffect
<1>5. /\ importer'[i].cache = [importer[i].cache EXCEPT ![new] = row.id]
      /\ \/ UNCHANGED rows /\ row.parent = Wanted(i)
         \/ /\ rows[new] # NoRow /\ rows[new].id = row.id
            /\ Wanted(i) \in CategoryIds \cup {Nothing}
            /\ rows' = [rows EXCEPT ![new].parent = Wanted(i)]
  BY <1>1, <1>2, <1>3, KeepFolderEffect
<1>6. new \in Nodes /\ new \notin Files /\ row # NoRow
  BY MaterialImportAssumption DEF Nodes
<1>7. /\ Holding(i) /\ Working(i) /\ importer[i].at <= Len(Walk)
      /\ new # Root => Wanted(i) # Nothing
  BY <1>1, <1>2, <1>4 DEF Holding, Working, HoldingHolds, Visited, Wanted
<1>8. importer[i].cache \in [Folders -> Id]
  BY <1>1 DEF Typed, Run
<1>9. ASSUME rows[new] # NoRow, rows[new].parent = Wanted(i) PROVE InPlace(new)
  <2>1. CASE new = Root
    BY <1>6, <1>9, <2>1 DEF InPlace
  <2>2. CASE new # Root
    <3>1. Wanted(i) \in CategoryIds
      BY <1>1, <1>6, <1>7, <1>9, <2>2 DEF Typed, TablesTyped, Stored
    <3> QED
      BY <1>1, <1>2, <1>6, <1>7, <1>9, <2>2, <3>1, WantedIsParent DEF InPlace
  <2> QED
    BY <2>1, <2>2
<1>10. \A node \in Nodes :
          /\ rows[node] = NoRow <=> rows'[node] = NoRow
          /\ rows'[node].id = rows[node].id /\ rows'[node].slug = rows[node].slug
          /\ rows'[node].is_published = rows[node].is_published
          /\ node # new => rows'[node] = rows[node]
  <2>1. CASE UNCHANGED rows
    BY <2>1
  <2>2. CASE rows[new] # NoRow /\ rows' = [rows EXCEPT ![new].parent = Wanted(i)]
    <3>1. rows[new] \in Row /\ Wanted(i) \in Id
      BY <1>1, <1>6, <1>7, <2>2, RunTyped DEF Typed, TablesTyped
    <3>2. [rows[new] EXCEPT !.parent = Wanted(i)] \in Row
      BY <3>1 DEF Row
    <3>3. /\ [rows[new] EXCEPT !.parent = Wanted(i)].id = rows[new].id
          /\ [rows[new] EXCEPT !.parent = Wanted(i)].slug = rows[new].slug
          /\ [rows[new] EXCEPT !.parent = Wanted(i)].is_published = rows[new].is_published
          /\ [rows[new] EXCEPT !.parent = Wanted(i)] # NoRow
      BY <3>1, <3>2, MaterialImportAssumption DEF Row
    <3>4. \A node \in Nodes : rows'[node] =
             IF node = new THEN [rows[new] EXCEPT !.parent = Wanted(i)] ELSE rows[node]
      BY <1>1, <1>6, <2>2 DEF Typed, TablesTyped
    <3> QED
      BY <1>6, <2>2, <3>3, <3>4
  <2> QED
    BY <1>5, <2>1, <2>2
<1>11. ASSUME rows' # rows PROVE InPlace(new)'
  <2>1. /\ rows[new] # NoRow /\ rows' = [rows EXCEPT ![new].parent = Wanted(i)]
        /\ Wanted(i) \in CategoryIds \cup {Nothing}
    BY <1>5, <1>11
  <2>2. rows[new] \in Row
    BY <1>1, <1>6, <2>1 DEF Typed, TablesTyped
  <2>3. rows'[new].parent = Wanted(i) /\ rows'[new] # NoRow
    BY <1>1, <1>6, <1>10, <2>1, <2>2 DEF Typed, TablesTyped, Row
  <2>4. CASE new = Root
    BY <1>6, <2>3, <2>4 DEF InPlace
  <2>5. CASE new # Root
    <3>1. rows[Parent[new]] # NoRow /\ rows[Parent[new]].id = Wanted(i)
      BY <1>1, <1>2, <1>7, <2>1, <2>5, WantedIsParent
    <3>2. rows'[Parent[new]] # NoRow /\ rows'[Parent[new]].id = Wanted(i)
      BY <1>6, <1>10, <2>5, <3>1, ParentIsFolder
    <3> QED
      BY <1>6, <2>3, <3>2 DEF InPlace
  <2> QED
    BY <2>4, <2>5
<1>12. ASSUME NEW j PROVE PlacesStep(j)
  <2>1. ASSUME NEW node \in Nodes, InPlace(node) PROVE InPlace(node)'
    <3>1. CASE node = new /\ rows' # rows
      BY <1>11, <3>1
    <3>2. CASE node # new \/ rows' = rows
      <4>1. rows'[node] = rows[node] /\ rows[node] # NoRow
        BY <1>10, <2>1, <3>2 DEF InPlace
      <4>2. node # Root => /\ rows'[Parent[node]] # NoRow
                           /\ rows'[Parent[node]].id = rows[Parent[node]].id
        BY <1>10, <2>1, ParentIsFolder DEF InPlace
      <4> QED
        BY <1>4, <2>1, <4>1, <4>2 DEF InPlace
    <3> QED
      BY <3>1, <3>2
  <2>2. ASSUME NEW node \in Folders, rows[node] # NoRow
        PROVE  /\ rows'[node] # NoRow /\ rows'[node].id = rows[node].id
               /\ rows'[node].parent = rows[node].parent \/ InPlace(node)'
    BY <1>10, <1>11, <2>2 DEF Nodes
  <2> QED
    BY <2>1, <2>2 DEF PlacesStep
<1>13. ASSUME NEW j \in Importers \ {i}
       PROVE  Near(importer[j], importer'[j]) /\ Undisturbed(j)
  <2>1. Near(importer[j], importer'[j])
    BY <1>4, NearItself DEF Alone
  <2>2. ASSUME Holding(j) PROVE PublishStep(j)
    <3>1. Here(j) \in Nodes
      BY <2>2, <1>1, HeldTyped DEF IInv, OwnHolds
    <3>2. /\ rows[Here(j)] = NoRow <=> rows'[Here(j)] = NoRow
          /\ rows'[Here(j)].id = rows[Here(j)].id
          /\ rows'[Here(j)].is_published = rows[Here(j)].is_published
      BY <1>10, <3>1
    <3> QED
      BY <3>2 DEF PublishStep
  <2>3. PublishStep(j) /\ FileStep(j)
    BY <1>4, <2>2 DEF PublishStep, FileStep
  <2> QED
    BY <1>12, <2>1, <2>3 DEF Undisturbed
<1>14. \A folder \in Folders :
          importer'[i].cache[folder] = IF folder = new THEN row.id ELSE importer[i].cache[folder]
  BY <1>5, <1>8
<1>15. \/ new \in importer'[i].touched
       \/ InPlace(new)' /\ row.id = rows'[new].id
  <2>1. CASE rows' # rows
    BY <1>5, <1>6, <1>10, <1>11, <2>1
  <2>2. CASE rows' = rows
    <3>1. rows[new] # NoRow /\ rows[new].id = row.id /\ rows[new].parent = Wanted(i) =>
             InPlace(new)' /\ row.id = rows'[new].id
      BY <1>4, <1>9, <2>2 DEF InPlace
    <3>2. CASE copy.id = Nothing
      <4>1. row = rows[new]
        BY <1>3, <3>2
      <4>2. rows[new].parent = Wanted(i) =>
               InPlace(new)' /\ row.id = rows'[new].id
        BY <1>6, <3>1, <4>1
      <4>3. \/ rows[new].parent = Wanted(i)
            \/ rows' = [rows EXCEPT ![new].parent = Wanted(i)]
        BY <1>5, <4>1
      <4>4. CASE rows' = [rows EXCEPT ![new].parent = Wanted(i)]
        <5>1. rows'[new].parent = Wanted(i)
          BY <1>1, <1>6, <4>1, <4>4 DEF Typed, TablesTyped, Row
        <5> QED
          BY <2>2, <4>2, <5>1
      <4> QED
        BY <4>2, <4>3, <4>4
    <3>3. CASE copy.id # Nothing
      <4>1. row = copy
        BY <1>3, <3>3
      <4>2. \/ new \in importer[i].touched
            \/ /\ rows[new] # NoRow /\ rows[new].id = copy.id
               /\ rows[new].parent = copy.parent \/ InPlace(new)
        BY <1>1, <1>2, <1>4, <3>3 DEF OwnHolds, FolderHolds
      <4>3. InPlace(new) => InPlace(new)'
        BY <1>4, <2>2 DEF InPlace
      <4>4. row.parent = Wanted(i) \/ (rows[new] # NoRow /\ rows[new].id = row.id
                                          /\ rows' = [rows EXCEPT ![new].parent = Wanted(i)])
        BY <1>5
      <4>5. ASSUME rows[new] # NoRow, rows' = [rows EXCEPT ![new].parent = Wanted(i)]
            PROVE  rows[new].parent = Wanted(i)
        <5>1. rows[new] \in Row
          BY <1>1, <1>6, <4>5 DEF Typed, TablesTyped
        <5>2. rows'[new].parent = Wanted(i)
          BY <1>1, <1>6, <4>5, <5>1 DEF Typed, TablesTyped, Row
        <5> QED
          BY <2>2, <5>2
      <4>6. importer'[i].touched = importer[i].touched
        BY <1>4 DEF Passes
      <4> QED
        BY <2>2, <3>1, <4>1, <4>2, <4>3, <4>4, <4>5, <4>6
    <3> QED
      BY <3>2, <3>3
  <2> QED
    BY <2>1, <2>2
<1>16. PlaceHolds(i)'
  <2>1. \A folder \in Folders : folder # new =>
           importer'[i].cache[folder] = importer[i].cache[folder]
    BY <1>14
  <2>2. new \in importer'[i].touched => Excused(i, new)'
    BY <1>6, PathTyped DEF Excused
  <2>3. importer'[i].cache[new] = row.id
    BY <1>14
  <2>4. \A node \in {new} :
           \/ Excused(i, node)'
           \/ InPlace(node)' /\ (node \in Folders => importer'[i].cache[node] = rows'[node].id)
    BY <1>15, <2>2, <2>3
  <2> QED
    BY <1>1, <1>2, <1>4, <1>7, <1>12, <2>1, <2>4, PassedPlaces DEF OwnHolds
<1>17. OwnHolds(i)'
  <2>1. DownloadHolds(i)'
    BY <1>1, <1>4, <1>7, DownloadPassed DEF Passes, Working, OwnHolds
  <2> QED
    BY <1>4, <1>16, <2>1, HoldingPassed DEF OwnHolds
<1>18. Records'
  <2>1. RunRemembers(i, 0) /\ ~ Holding(i)'
    <3>1. importer'[i].pc \notin {"copy", "save"}
      BY <1>4 DEF Passes
    <3>2. Keyed(new, row.id)
      BY <1>2, <1>3, <1>6, <1>7 DEF Keyed
    <3>3. \A folder \in Folders :
             \/ importer'[i].cache[folder] = importer[i].cache[folder]
             \/ Keyed(folder, importer'[i].cache[folder])
      BY <1>14, <3>2
    <3> QED
      BY <3>1, <3>3, PassingRemembers
  <2>2. \A node \in Nodes : RowRemembers(node, 0)
    BY <1>10, RowKeptRemembers
  <2>3. \A j \in Importers : RunRemembers(j, 0)
    BY <1>13, <2>1, NearRemembers
  <2>4. \A j \in Importers : Holding(j)' => Walk[importer'[j].at] \in Nodes
    BY <1>1, <1>13, <2>1, NearRemembers, HeldTyped DEF IInv, OwnHolds
  <2> QED
    BY <1>1, <1>4, <2>2, <2>3, <2>4, RecordsStep
<1>19. importer'[i].dir = importer[i].dir /\ importer[i].pc # "idle"
  BY <1>4 DEF Passes, SameErrands
<1> QED
  BY <1>4, <1>13, <1>17, <1>18, <1>19, OneRunPreserves

LEMMA SaveFilePreserves ==
    ASSUME IInv, NEW i \in Importers, SaveFile(i)
    PROVE  IInv'
<1> DEFINE row == importer[i].copy
<1>1. Typed /\ Records /\ OwnHolds(i) /\ HoldingHolds(i)
  BY IInvIsTyped DEF IInv, OwnHolds
<1>2. PICK new \in Files : new = Here(i)
  BY <1>1, SaveFileEffect
<1>3. /\ Typed' /\ Passes(i) /\ UNCHANGED <<media, dirs, runs, edits>>
      /\ importer[i].pc = "save"
      /\ importer'[i].cache = importer[i].cache
      /\ importer'[i].errors = importer[i].errors
      /\ row \in Row /\ row.parent = Wanted(i) /\ Wanted(i) \in CategoryIds
      /\ serial' = IF row.id = Nothing THEN serial + 1 ELSE serial
  BY <1>1, SaveFileEffect
<1>4. rows[new] # NoRow => rows[new].id = row.id /\ row.id # Nothing
  BY <1>1, <1>2, SaveFileEffect
<1>5. PICK saved \in Row :
        /\ rows' = [rows EXCEPT ![new] = saved]
        /\ saved.id = IF row.id = Nothing THEN serial ELSE row.id
        /\ saved.parent = Wanted(i) /\ saved.slug = row.slug
        /\ saved.file = row.file /\ saved.is_published = row.is_published
  BY <1>1, <1>2, <1>3, SaveFileEffect
<1>6. \A j \in Importers \ {i} :
         /\ Near(importer[j], importer'[j])
         /\ importer[j].pc # "idle" /\ row.file \notin media => new \in importer'[j].touched
         /\ Holding(j) /\ Here(j) = new =>
               \/ importer'[j].restated
               \/ rows[new] # NoRow /\ rows[new].is_published = row.is_published
  BY <1>1, <1>2, SaveFileEffect
<1>7. new \in Nodes /\ new \notin Folders /\ new # Root
  BY MaterialImportAssumption DEF Nodes
<1>8. /\ rows'[new] = saved /\ saved # NoRow
      /\ \A node \in Nodes : node # new => rows'[node] = rows[node]
  BY <1>1, <1>5, <1>7, MaterialImportAssumption DEF Typed, TablesTyped
<1>9. /\ Holding(i) /\ Working(i) /\ importer[i].at <= Len(Walk)
      /\ importer'[i].touched = importer[i].touched
  BY <1>1, <1>3 DEF Holding, Working, HoldingHolds, Passes
<1>10. rows[Parent[new]] # NoRow /\ rows[Parent[new]].id = Wanted(i)
  BY <1>1, <1>2, <1>3, <1>7, <1>9, WantedIsParent
<1>11. ASSUME row.file \in media PROVE InPlace(new)'
  <2>1. rows'[Parent[new]] = rows[Parent[new]]
    BY <1>7, <1>8, ParentIsFolder
  <2> QED
    BY <1>3, <1>5, <1>8, <1>10, <1>11, <2>1 DEF InPlace
<1>12. ASSUME NEW j, row.file \in media \/ new \in importer'[j].touched
       PROVE  PlacesStep(j)
  <2>1. ASSUME NEW node \in Nodes \ importer'[j].touched, InPlace(node) PROVE InPlace(node)'
    <3>1. CASE node = new
      BY <1>11, <1>12, <2>1, <3>1
    <3>2. CASE node # new
      <4>1. rows'[node] = rows[node] /\ rows[node] # NoRow
        BY <1>8, <2>1, <3>2 DEF InPlace
      <4>2. node # Root => rows'[Parent[node]] = rows[Parent[node]]
        BY <1>7, <1>8, <2>1, ParentIsFolder
      <4> QED
        BY <1>3, <2>1, <4>1, <4>2 DEF InPlace
    <3> QED
      BY <3>1, <3>2
  <2>2. \A node \in Folders : rows'[node] = rows[node]
    BY <1>7, <1>8 DEF Nodes
  <2> QED
    BY <2>1, <2>2 DEF PlacesStep
<1>13. row.file \in media \/ new \in importer'[i].touched
  BY <1>1, <1>2, <1>3, <1>9 DEF OwnHolds, FileHolds
<1>14. ASSUME NEW j \in Importers \ {i}
       PROVE  Near(importer[j], importer'[j]) /\ Undisturbed(j)
  <2>1. ASSUME Holding(j) PROVE PublishStep(j)
    <3>1. Here(j) \in Nodes
      BY <2>1, <1>1, HeldTyped DEF IInv, OwnHolds
    <3>2. CASE Here(j) # new
      <4>1. rows'[Here(j)] = rows[Here(j)]
        BY <1>8, <3>1, <3>2
      <4> QED
        BY <4>1 DEF PublishStep
    <3>3. CASE Here(j) = new
      <4>1. rows'[Here(j)] = saved
        BY <1>8, <3>3
      <4>2. \/ importer'[j].restated
            \/ /\ rows[Here(j)] # NoRow /\ rows[Here(j)].id = saved.id
               /\ rows[Here(j)].is_published = saved.is_published
        BY <1>4, <1>5, <1>6, <2>1, <3>3
      <4> QED
        BY <4>1, <4>2 DEF PublishStep
    <3> QED
      BY <3>2, <3>3
  <2>2. PublishStep(j) /\ FileStep(j)
    BY <1>3, <2>1 DEF PublishStep, FileStep
  <2>3. importer[j].pc # "idle" => PlacesStep(j)
    BY <1>6, <1>12
  <2> QED
    BY <1>6, <2>2, <2>3 DEF Undisturbed
<1>15. PlaceHolds(i)'
  <2>1. new \in importer'[i].touched => Excused(i, new)'
    BY <1>7, PathTyped DEF Excused
  <2>2. \A node \in {new} : Excused(i, node)' \/ (InPlace(node)' /\ node \notin Folders)
    BY <1>7, <1>11, <1>13, <2>1
  <2>3. PlacesStep(i)
    BY <1>12, <1>13
  <2> QED
    BY <1>1, <1>2, <1>3, <1>9, <2>2, <2>3, PassedPlaces DEF OwnHolds
<1>16. OwnHolds(i)'
  <2>1. DownloadHolds(i)'
    BY <1>1, <1>3, <1>9, DownloadPassed DEF Passes, Working, OwnHolds
  <2> QED
    BY <1>3, <1>15, <2>1, HoldingPassed DEF OwnHolds
<1>17. Records'
  <2>1. RunRemembers(i, new) /\ ~ Holding(i)'
    <3>1. importer'[i].pc \notin {"copy", "save"}
      BY <1>3 DEF Passes
    <3> QED
      BY <1>3, <3>1, PassingRemembers
  <2>2. \A node \in Nodes : RowRemembers(node, new)
    <3>1. CASE row.id = Nothing
      BY <1>3, <1>5, <1>8, <3>1, RowKeptRemembers DEF RowRemembers
    <3>2. CASE row.id # Nothing
      <4>1. Remembered(new, saved.id, saved.slug)
        BY <1>2, <1>5, <1>9, <3>2 DEF Remembered
      <4> QED
        BY <1>8, <4>1, RowKeptRemembers DEF RowRemembers
    <3> QED
      BY <3>1, <3>2
  <2>3. \A j \in Importers : RunRemembers(j, new)
    BY <1>14, <2>1, NearRemembers
  <2>4. \A j \in Importers : Holding(j)' => Walk[importer'[j].at] \in Nodes
    BY <1>1, <1>14, <2>1, NearRemembers, HeldTyped DEF IInv, OwnHolds
  <2> QED
    BY <1>1, <1>3, <2>2, <2>3, <2>4, RecordsStep
<1>18. importer'[i].dir = importer[i].dir /\ importer[i].pc # "idle"
  BY <1>3 DEF Passes, SameErrands
<1> QED
  BY <1>3, <1>14, <1>16, <1>17, <1>18, OneRunPreserves
-----------------------------------------------------------------------------
(* The surroundings preserve the invariant. *)

LEMMA KeptRowsPreserve ==
    ASSUME IInv, Typed', UNCHANGED <<serial, dirs, runs>>, NEW moved, Everybody(moved),
           \A j \in Importers : Undisturbed(j),
           \A n \in Nodes : rows'[n] # NoRow =>
               rows[n] # NoRow /\ rows'[n].id = rows[n].id /\ rows'[n].slug = rows[n].slug
    PROVE  IInv'
<1>1. Typed /\ Records
  BY IInvIsTyped DEF IInv
<1>2. \A j \in Importers : Near(importer[j], importer'[j])
  BY DEF Everybody
<1>3. Records'
  <2>1. \A node \in Nodes : RowRemembers(node, 0)
    BY RowKeptRemembers
  <2>2. \A j \in Importers : RunRemembers(j, 0)
    BY <1>2, NearRemembers
  <2>3. \A j \in Importers : Holding(j)' => Walk[importer'[j].at] \in Nodes
    BY <1>1, <1>2, NearRemembers, HeldTyped DEF IInv, OwnHolds
  <2> QED
    BY <1>1, <2>1, <2>2, <2>3, RecordsStep
<1> QED
  BY <1>2, <1>3, EverybodyPreserves

LEMMA PublishPreserves ==
    ASSUME IInv, NEW node \in Nodes, Publish(node)
    PROVE  IInv'
<1>1. Typed
  BY IInvIsTyped
<1>2. /\ Typed' /\ Everybody({}) /\ UNCHANGED <<media, serial, dirs, runs>>
      /\ \A j \in Importers : Holding(j) /\ Here(j) = node => importer'[j].restated
      /\ \A n \in Nodes :
            /\ rows[n] = NoRow <=> rows'[n] = NoRow
            /\ rows'[n].id = rows[n].id /\ rows'[n].parent = rows[n].parent
            /\ rows'[n].slug = rows[n].slug /\ rows'[n].file = rows[n].file
            /\ n # node => rows'[n] = rows[n]
  BY <1>1, PublishEffect
<1>3. \A n \in Nodes : InPlace(n) => InPlace(n)'
  BY <1>2, ParentIsFolder DEF InPlace
<1>4. ASSUME NEW j \in Importers PROVE Undisturbed(j)
  <2>1. PlacesStep(j)
    BY <1>2, <1>3 DEF PlacesStep, Nodes
  <2>2. ASSUME Holding(j), Here(j) # node PROVE PublishStep(j)
    <3>1. Here(j) \in Nodes
      BY <2>2, <1>1, HeldTyped DEF IInv, OwnHolds
    <3>2. rows'[Here(j)] = rows[Here(j)]
      BY <1>2, <2>2, <3>1
    <3> QED
      BY <3>2 DEF PublishStep
  <2>3. PublishStep(j) /\ FileStep(j)
    BY <1>2, <2>2 DEF PublishStep, FileStep
  <2> QED
    BY <2>1, <2>3 DEF Undisturbed
<1> QED
  BY <1>2, <1>4, KeptRowsPreserve

LEMMA DetachPreserves ==
    ASSUME IInv, NEW node \in Nodes, Detach(node)
    PROVE  IInv'
<1>1. Typed
  BY IInvIsTyped
<1>2. /\ Typed' /\ Everybody({node}) /\ UNCHANGED <<media, serial, dirs, runs>>
      /\ \A n \in Nodes :
            /\ rows[n] = NoRow <=> rows'[n] = NoRow
            /\ rows'[n].id = rows[n].id /\ rows'[n].slug = rows[n].slug
            /\ rows'[n].is_published = rows[n].is_published
            /\ n # node => rows'[n] = rows[n]
  BY <1>1, DetachEffect
<1>3. \A n \in Nodes : n # node /\ InPlace(n) => InPlace(n)'
  BY <1>2, ParentIsFolder DEF InPlace
<1>4. ASSUME NEW j \in Importers PROVE Undisturbed(j)
  <2>1. ASSUME importer[j].pc # "idle" PROVE PlacesStep(j)
    <3>1. node \in importer'[j].touched
      BY <1>2, <2>1 DEF Everybody
    <3> QED
      BY <1>2, <1>3, <3>1 DEF PlacesStep, Nodes
  <2>2. ASSUME Holding(j) PROVE PublishStep(j)
    <3>1. Here(j) \in Nodes
      BY <2>2, <1>1, HeldTyped DEF IInv, OwnHolds
    <3>2. /\ rows[Here(j)] = NoRow <=> rows'[Here(j)] = NoRow
          /\ rows'[Here(j)].id = rows[Here(j)].id
          /\ rows'[Here(j)].is_published = rows[Here(j)].is_published
      BY <1>2, <3>1
    <3> QED
      BY <3>2 DEF PublishStep
  <2>3. PublishStep(j) /\ FileStep(j)
    BY <1>2, <2>2 DEF PublishStep, FileStep
  <2> QED
    BY <2>1, <2>3 DEF Undisturbed
<1> QED
  BY <1>2, <1>4, KeptRowsPreserve

LEMMA LoseMediaPreserves ==
    ASSUME IInv, LoseMedia
    PROVE  IInv'
<1>1. /\ Typed' /\ Everybody(Files) /\ UNCHANGED <<rows, serial, dirs, runs>>
  BY IInvIsTyped, LoseMediaEffect
<1>2. ASSUME NEW j \in Importers PROVE Undisturbed(j)
  <2>1. importer[j].pc # "idle" => Files \subseteq importer'[j].touched
    BY <1>1 DEF Everybody
  <2>2. importer[j].pc # "idle" => PlacesStep(j)
    BY <1>1, <2>1, PlacesOfSameRows
  <2>3. PublishStep(j) /\ FileStep(j)
    BY <1>1, <2>1 DEF PublishStep, FileStep
  <2> QED
    BY <2>2, <2>3 DEF Undisturbed
<1> QED
  BY <1>1, <1>2, KeptRowsPreserve

LEMMA DeletePreserves ==
    ASSUME IInv, NEW node \in Nodes, Delete(node)
    PROVE  IInv'
<1>1. Typed
  BY IInvIsTyped
<1>2. /\ Typed' /\ UNCHANGED <<media, serial, dirs, runs>>
      /\ \A n \in Nodes : rows'[n] # NoRow =>
            /\ rows[n] # NoRow /\ rows'[n].id = rows[n].id
            /\ rows'[n].slug = rows[n].slug /\ rows'[n].file = rows[n].file
            /\ rows'[n].is_published = rows[n].is_published
      /\ \A n \in Folders : rows'[n] \in {rows[n], NoRow}
  BY <1>1, DeleteEffect
<1>3. PICK moved \in SUBSET Nodes :
        /\ Everybody(moved)
        /\ \A n \in Nodes \ moved :
              /\ rows'[n] = rows[n]
              /\ rows[n] # NoRow => \A a \in Folders :
                    rows[a] # NoRow /\ rows[n].parent = rows[a].id => rows'[a] # NoRow
  BY <1>1, DeleteEffect
<1>4. ASSUME NEW n \in Nodes \ moved, InPlace(n) PROVE InPlace(n)'
  <2>1. rows'[n] = rows[n] /\ rows[n] # NoRow
    BY <1>3, <1>4 DEF InPlace
  <2>2. n # Root => rows'[Parent[n]] = rows[Parent[n]] /\ rows[Parent[n]] # NoRow
    BY <1>2, <1>3, <1>4, <2>1, ParentIsFolder DEF InPlace
  <2> QED
    BY <1>2, <1>4, <2>1, <2>2 DEF InPlace
<1>5. ASSUME NEW j \in Importers PROVE Undisturbed(j)
  <2>1. ASSUME importer[j].pc # "idle" PROVE PlacesStep(j)
    <3>1. moved \subseteq importer'[j].touched
      BY <1>3, <2>1 DEF Everybody
    <3> QED
      BY <1>3, <1>4, <3>1 DEF PlacesStep
  <2>2. ASSUME Holding(j) PROVE PublishStep(j)
    <3>1. Here(j) \in Nodes
      BY <2>2, <1>1, HeldTyped DEF IInv, OwnHolds
    <3>2. rows'[Here(j)] # NoRow =>
             /\ rows[Here(j)] # NoRow /\ rows'[Here(j)].id = rows[Here(j)].id
             /\ rows'[Here(j)].is_published = rows[Here(j)].is_published
      BY <1>2, <3>1
    <3> QED
      BY <3>2 DEF PublishStep
  <2>3. PublishStep(j) /\ FileStep(j)
    BY <1>2, <2>2 DEF PublishStep, FileStep
  <2> QED
    BY <2>1, <2>3 DEF Undisturbed
<1> QED
  BY <1>2, <1>3, <1>5, KeptRowsPreserve
-----------------------------------------------------------------------------
(* The invariant holds. *)

LEMMA InitEstablishes == Init => IInv
<1> SUFFICES ASSUME Init PROVE IInv
  OBVIOUS
<1>1. /\ rows = [node \in Nodes |-> NoRow] /\ media = {} /\ serial = 1
      /\ dirs = [run \in 1 .. MaxRuns |-> NoDir] /\ runs = 0 /\ edits = 0
      /\ importer = [i \in Importers |-> Idle]
  BY DEF Init
<1>2. Stored = {}
  BY <1>1 DEF Stored
<1>3. TypeOK /\ IsFiniteSet(media)
  <2>1. 0 \in 0 .. MaxRuns /\ 0 \in 0 .. MaxEdits
    BY MaterialImportAssumption
  <2> QED
    BY <1>1, <1>2, <2>1, IdleTyped, FS_EmptySet DEF TypeOK
<1>4. \A i \in Importers : /\ importer[i].pc = "idle" /\ importer[i].copy = NoRow
                           /\ \A folder \in Folders : importer[i].cache[folder] = Nothing
  BY <1>1, IdleFields
<1>5. DirsOfRuns /\ \A i \in Importers : DirHolds(i)
  BY <1>1, <1>4 DEF DirsOfRuns, DirHolds
<1>6. \A node \in Nodes, key \in Nat : ~ Keyed(node, key)
  BY <1>1, <1>4, MaterialImportAssumption DEF Keyed, Holding
<1>7. Records
  <2>1. KeysOwned
    BY <1>6 DEF KeysOwned
  <2>2. KeysPositive
    BY <1>1, <1>2, <1>4 DEF KeysPositive, Holding
  <2>3. SlugsAgree
    BY <1>6, RememberedIsKeyed DEF SlugsAgree
  <2> QED
    BY <2>1, <2>2, <2>3 DEF Records
<1>8. ASSUME NEW i \in Importers PROVE OwnHolds(i)
  BY <1>4 DEF OwnHolds, HoldingHolds, DownloadHolds, PublishHolds, FileHolds, FolderHolds,
              PlaceHolds, Holding, Working
<1> QED
  BY <1>3, <1>5, <1>7, <1>8 DEF IInv

LEMMA NextPreserves == IInv /\ [Next]_vars => IInv'
<1> SUFFICES ASSUME IInv, [Next]_vars PROVE IInv'
  OBVIOUS
<1>1. Typed /\ DirsOfRuns
  BY IInvIsTyped DEF IInv
<1>2. \A j \in Importers : DirHolds(j) /\ DownloadHolds(j) /\ HoldingHolds(j)
  BY DEF IInv, OwnHolds
<1>3. ASSUME NEW i \in Importers,
             Begin(i) \/ Command(i) \/ RootFails(i) \/ Kill(i) \/ Interrupt(i)
      PROVE  IInv'
  <2>1. /\ Typed' /\ Rests(i) /\ DirsOfOthersStay(i)
        /\ DirsOfRuns' /\ \A j \in Importers : DirHolds(j)'
        /\ DownloadHolds(i)'
    <3>1. CASE Begin(i)
      BY <1>1, <1>2, <3>1, BeginEffect
    <3>2. CASE Download(i) \/ Downloaded(i)
      BY <1>1, <1>2, <3>2, DownloadingEffect
    <3>3. CASE DownloadRaises(i) \/ Finish(i) \/ RootFails(i) \/ Kill(i) \/ Interrupt(i)
      BY <1>1, <1>2, <3>3, EndsEffect
    <3> QED
      BY <1>3, <3>1, <3>2, <3>3 DEF Command
  <2> QED
    BY <2>1, RestsPreserves
<1>4. ASSUME NEW i \in Importers, Import(i)
      PROVE  IInv'
  BY <1>3, <1>4, SkipPreserves, DryVisitPreserves, LoadFolderPreserves, CreateFolderPreserves,
     KeepFolderPreserves, LoadFilePreserves, CopyFilePreserves, SaveFilePreserves,
     ItemFailsPreserves DEF Import
<1>5. CASE Surroundings
  BY <1>5, LoseMediaPreserves, PublishPreserves, DetachPreserves, DeletePreserves
     DEF Surroundings
<1>6. CASE UNCHANGED vars
  <2>1. UNCHANGED <<rows, media, serial, dirs, importer, runs, edits>>
    BY <1>6 DEF vars
  <2>2. Typed'
    BY <1>1, <2>1, TablesKept DEF Typed, OthersTyped
  <2>3. \A j \in Importers : Near(importer[j], importer'[j]) /\ Undisturbed(j)
    BY <2>1, NearItself, SameRowsDisturbNobody
  <2>4. Everybody({})
    BY <2>3 DEF Everybody
  <2> QED
    BY <2>1, <2>2, <2>3, <2>4, KeptRowsPreserve
<1>7. CASE Finished
  BY <1>6, <1>7 DEF Finished
<1> QED
  BY <1>3, <1>4, <1>5, <1>6, <1>7 DEF Next

LEMMA Invariance == Spec => []IInv
<1>1. Init => IInv
  BY InitEstablishes
<1>2. IInv /\ [Next]_vars => IInv'
  BY NextPreserves
<1> QED
  BY <1>1, <1>2, PTL DEF Spec
-----------------------------------------------------------------------------
(* What one step may do. *)

LEMMA NobodyElseWrites ==
    ASSUME [Next]_vars,
           \A i \in Importers : ~ CreateFolder(i) /\ ~ KeepFolder(i) /\ ~ SaveFile(i),
           ~ Surroundings
    PROVE  UNCHANGED rows
<1>1. ASSUME NEW i \in Importers, Begin(i) PROVE UNCHANGED rows
  BY <1>1 DEF Begin, StartUrl, StartSource
<1>2. ASSUME NEW i \in Importers, Command(i) PROVE UNCHANGED rows
  BY <1>2 DEF Command, DownloadRaises, Download, Downloaded, Finish
<1>3. ASSUME NEW i \in Importers, Import(i) PROVE UNCHANGED rows
  BY <1>3 DEF Import, Skip, DryVisit, LoadFolder, LoadFile, CopyFile, ItemFails, RootFails
<1>4. ASSUME NEW i \in Importers, Kill(i) \/ Interrupt(i) PROVE UNCHANGED rows
  BY <1>4 DEF Kill, Interrupt
<1> QED
  BY <1>1, <1>2, <1>3, <1>4 DEF Next, Finished, vars

KeysStep ==
    \A node \in Nodes :
        rows[node] # NoRow /\ rows'[node] # NoRow =>
            /\ rows'[node].id = rows[node].id
            /\ rows'[node].slug = rows[node].slug
            /\ rows[node].file \in media /\ rows'[node].file # rows[node].file =>
                  \/ rows'[node].file \in media
                  \/ \E i \in Importers : /\ Walking(i, "save") /\ Here(i) = node
                                          /\ node \in importer[i].touched

LEMMA StepKeepsKeys ==
    ASSUME IInv, [Next]_vars
    PROVE  KeysStep
<1>1. Typed
  BY IInvIsTyped
<1>2. CASE UNCHANGED rows
  BY <1>2 DEF KeysStep
<1>3. ASSUME NEW i \in Importers, CreateFolder(i) PROVE KeysStep
  <2>1. HoldingHolds(i)
    BY DEF IInv, OwnHolds
  <2>2. PICK saved \in Row : rows[Here(i)] = NoRow /\ rows' = [rows EXCEPT ![Here(i)] = saved]
    BY <1>1, <1>3, <2>1, CreateFolderEffect
  <2>3. \A node \in Nodes : rows[node] # NoRow => rows'[node] = rows[node]
    BY <1>1, <2>2 DEF Typed, TablesTyped
  <2> QED
    BY <2>3 DEF KeysStep
<1>4. ASSUME NEW i \in Importers, KeepFolder(i) PROVE KeysStep
  <2>1. /\ HoldingHolds(i) /\ Wanted(i) \in Id
    BY <1>1, <1>4, RunTyped DEF IInv, OwnHolds, KeepFolder, Walking, Typed
  <2>2. \/ UNCHANGED rows
        \/ rows[Here(i)] # NoRow /\ rows' = [rows EXCEPT ![Here(i)].parent = Wanted(i)]
    BY <1>1, <1>4, <2>1, KeepFolderEffect
  <2>3. CASE rows[Here(i)] # NoRow /\ rows' = [rows EXCEPT ![Here(i)].parent = Wanted(i)]
    <3>1. \A node \in Nodes : rows[node] # NoRow => rows[node] \in Row
      BY <1>1 DEF Typed, TablesTyped
    <3>2. ASSUME NEW node \in Nodes, rows[node] # NoRow
          PROVE  /\ rows'[node].id = rows[node].id /\ rows'[node].slug = rows[node].slug
                 /\ rows'[node].file = rows[node].file
      BY <1>1, <2>3, <3>1, <3>2 DEF Typed, TablesTyped, Row
    <3> QED
      BY <3>2 DEF KeysStep
  <2> QED
    BY <1>2, <2>2, <2>3
<1>5. ASSUME NEW i \in Importers, SaveFile(i) PROVE KeysStep
  <2> DEFINE row == importer[i].copy
  <2>1. /\ HoldingHolds(i) /\ FileHolds(i) /\ SlugsAgree /\ KeysPositive
    BY DEF IInv, OwnHolds, Records
  <2>2. PICK new \in Files : new = Here(i)
    BY <1>1, <1>5, <2>1, SaveFileEffect
  <2>3. /\ importer[i].pc = "save" /\ row \in Row
        /\ rows[new] # NoRow => rows[new].id = row.id /\ row.id # Nothing
    BY <1>1, <1>5, <2>1, <2>2, SaveFileEffect
  <2>4. PICK saved \in Row :
          /\ rows' = [rows EXCEPT ![new] = saved]
          /\ saved.id = IF row.id = Nothing THEN serial ELSE row.id
          /\ saved.slug = row.slug /\ saved.file = row.file
    BY <1>1, <1>5, <2>1, <2>2, SaveFileEffect
  <2>5. /\ new \in Nodes /\ rows'[new] = saved
        /\ \A node \in Nodes : node # new => rows'[node] = rows[node]
    BY <1>1, <2>4 DEF Typed, TablesTyped, Nodes
  <2>6. ASSUME rows[new] # NoRow PROVE saved.id = rows[new].id /\ saved.slug = rows[new].slug
    <3>1. rows[new].id \in Nat \ {0} /\ rows[new].id = row.id
      BY <1>1, <2>1, <2>3, <2>5, <2>6 DEF Typed, TablesTyped, Stored, KeysPositive
    <3>2. Remembered(new, rows[new].id, rows[new].slug) /\ Remembered(new, row.id, row.slug)
      BY <2>2, <2>3, <2>6 DEF Remembered, Holding
    <3> QED
      BY <2>1, <2>3, <2>4, <2>5, <2>6, <3>1, <3>2 DEF SlugsAgree
  <2>7. Walking(i, "save") /\ (saved.file \in media \/ new \in importer[i].touched)
    BY <1>5, <2>1, <2>2, <2>3, <2>4 DEF FileHolds, SaveFile
  <2> QED
    BY <2>2, <2>5, <2>6, <2>7 DEF KeysStep
<1>6. CASE Surroundings
  <2>1. CASE LoseMedia
    BY <1>1, <1>2, <2>1, LoseMediaEffect
  <2>2. ASSUME NEW node \in Nodes, Publish(node) PROVE KeysStep
    BY <1>1, <2>2, PublishEffect DEF KeysStep
  <2>3. ASSUME NEW node \in Nodes, Detach(node) PROVE KeysStep
    <3>1. rows' = [rows EXCEPT ![node].parent = Nothing] /\ rows[node] \in Row
      BY <1>1, <2>3 DEF Detach, Stored, Typed, TablesTyped
    <3>2. \A n \in Nodes : rows'[n].file = rows[n].file
      BY <1>1, <3>1 DEF Typed, TablesTyped, Row
    <3> QED
      BY <1>1, <2>3, <3>2, DetachEffect DEF KeysStep
  <2>4. ASSUME NEW node \in Nodes, Delete(node) PROVE KeysStep
    BY <1>1, <2>4, DeleteEffect DEF KeysStep
  <2> QED
    BY <1>6, <2>1, <2>2, <2>3, <2>4 DEF Surroundings
<1> QED
  BY <1>2, <1>3, <1>4, <1>5, <1>6, NobodyElseWrites

PublishStateStep ==
    \A node \in Nodes :
        /\ rows[node] # NoRow /\ rows'[node] # NoRow
        /\ rows'[node].is_published # rows[node].is_published
        => \/ edits' # edits
           \/ \E i \in Importers : /\ Walking(i, "save") /\ Here(i) = node
                                   /\ importer[i].restated

LEMMA StepKeepsPublishState ==
    ASSUME IInv, [Next]_vars
    PROVE  PublishStateStep
<1>1. Typed
  BY IInvIsTyped
<1>2. CASE UNCHANGED rows
  BY <1>2 DEF PublishStateStep
<1>3. ASSUME NEW i \in Importers, CreateFolder(i) PROVE PublishStateStep
  <2>1. HoldingHolds(i)
    BY DEF IInv, OwnHolds
  <2>2. PICK saved \in Row : rows[Here(i)] = NoRow /\ rows' = [rows EXCEPT ![Here(i)] = saved]
    BY <1>1, <1>3, <2>1, CreateFolderEffect
  <2>3. \A node \in Nodes : rows[node] # NoRow => rows'[node] = rows[node]
    BY <1>1, <2>2 DEF Typed, TablesTyped
  <2> QED
    BY <2>3 DEF PublishStateStep
<1>4. ASSUME NEW i \in Importers, KeepFolder(i) PROVE PublishStateStep
  <2>1. /\ HoldingHolds(i) /\ Wanted(i) \in Id
    BY <1>1, <1>4, RunTyped DEF IInv, OwnHolds, KeepFolder, Walking, Typed
  <2>2. \/ UNCHANGED rows
        \/ rows[Here(i)] # NoRow /\ rows' = [rows EXCEPT ![Here(i)].parent = Wanted(i)]
    BY <1>1, <1>4, <2>1, KeepFolderEffect
  <2>3. CASE rows[Here(i)] # NoRow /\ rows' = [rows EXCEPT ![Here(i)].parent = Wanted(i)]
    <3>1. \A node \in Nodes : rows[node] # NoRow => rows[node] \in Row
      BY <1>1 DEF Typed, TablesTyped
    <3>2. ASSUME NEW node \in Nodes, rows[node] # NoRow
          PROVE  rows'[node].is_published = rows[node].is_published
      BY <1>1, <2>3, <3>1, <3>2 DEF Typed, TablesTyped, Row
    <3> QED
      BY <3>2 DEF PublishStateStep
  <2> QED
    BY <1>2, <2>2, <2>3
<1>5. ASSUME NEW i \in Importers, SaveFile(i) PROVE PublishStateStep
  <2> DEFINE row == importer[i].copy
  <2>1. HoldingHolds(i) /\ PublishHolds(i)
    BY DEF IInv, OwnHolds
  <2>2. PICK new \in Files : new = Here(i)
    BY <1>1, <1>5, <2>1, SaveFileEffect
  <2>3. /\ importer[i].pc = "save"
        /\ rows[new] # NoRow => rows[new].id = row.id
    BY <1>1, <1>5, <2>1, <2>2, SaveFileEffect
  <2>4. PICK saved \in Row : /\ rows' = [rows EXCEPT ![new] = saved]
                             /\ saved.is_published = row.is_published
    BY <1>1, <1>5, <2>1, <2>2, SaveFileEffect
  <2>5. /\ rows'[new] = saved /\ Walking(i, "save")
        /\ \A node \in Nodes : node # new => rows'[node] = rows[node]
    BY <1>1, <1>5, <2>4 DEF Typed, TablesTyped, Nodes, SaveFile
  <2>6. rows[new] # NoRow /\ ~ importer[i].restated =>
           rows[new].is_published = saved.is_published
    BY <2>1, <2>2, <2>3, <2>4 DEF PublishHolds, Holding
  <2> QED
    BY <2>2, <2>5, <2>6 DEF PublishStateStep
<1>6. CASE Surroundings
  <2>1. edits' # edits
    BY <1>1, <1>6, LoseMediaEffect, PublishEffect, DetachEffect, DeleteEffect DEF Surroundings
  <2> QED
    BY <2>1 DEF PublishStateStep
<1> QED
  BY <1>2, <1>3, <1>4, <1>5, <1>6, NobodyElseWrites

RemovalStep ==
    \A dir \in 1 .. MaxRuns :
        dirs[dir] # NoDir /\ dirs'[dir] = NoDir =>
            \/ Files \subseteq dirs[dir]
            \/ \E i \in Importers :
                  importer[i].pc = "download" /\ importer[i].dir = dir

LEMMA StepRemovesComplete ==
    ASSUME IInv, [Next]_vars
    PROVE  RemovalStep
<1>1. Typed /\ DirsOfRuns
  BY IInvIsTyped DEF IInv
<1>2. \A j \in Importers : DirHolds(j) /\ DownloadHolds(j) /\ HoldingHolds(j)
  BY DEF IInv, OwnHolds
<1>3. ASSUME NEW i \in Importers,
             Begin(i) \/ Command(i) \/ RootFails(i) \/ Kill(i) \/ Interrupt(i)
      PROVE  RemovalStep
  <2>1. RemovesOnlyComplete(i)
    <3>1. CASE Begin(i)
      BY <1>1, <1>2, <3>1, BeginEffect
    <3>2. CASE Download(i) \/ Downloaded(i)
      BY <1>1, <1>2, <3>2, DownloadingEffect
    <3>3. CASE DownloadRaises(i) \/ Finish(i) \/ RootFails(i) \/ Kill(i) \/ Interrupt(i)
      BY <1>1, <1>2, <3>3, EndsEffect
    <3> QED
      BY <1>3, <3>1, <3>2, <3>3 DEF Command
  <2> QED
    BY <2>1 DEF RemovesOnlyComplete, RemovalStep
<1>4. CASE UNCHANGED dirs
  BY <1>4 DEF RemovalStep
<1>5. ASSUME NEW i \in Importers, Import(i), ~ RootFails(i) PROVE UNCHANGED dirs
  BY <1>5 DEF Import, Skip, DryVisit, LoadFolder, CreateFolder, KeepFolder, LoadFile, CopyFile,
              SaveFile, ItemFails
<1>6. ASSUME Surroundings PROVE UNCHANGED dirs
  BY <1>6 DEF Surroundings, LoseMedia, Publish, Detach, Delete, Touch
<1> QED
  BY <1>3, <1>4, <1>5, <1>6 DEF Next, Finished, vars
-----------------------------------------------------------------------------
(* The theorems. *)

(* The variables keep their types and the foreign keys of Category and        *)
(* Material hold, whatever the imports and the staff do to the tables.        *)
THEOREM TypesAlwaysHold == Spec => []TypeOK
<1>1. IInv => TypeOK
  BY DEF IInv
<1> QED
  BY <1>1, Invariance, PTL

(* import_tree never loses an item without a word: what a run has passed has  *)
(* a row below the row of its folder and a stored file, or the run has        *)
(* reported it, or somebody else has changed it, or a folder above it.        *)
THEOREM NothingIsLostSilently == Spec => []NothingLostSilently
<1>1. IInv => NothingLostSilently
  BY DEF IInv, OwnHolds, PlaceHolds, NothingLostSilently, Working
<1> QED
  BY <1>1, Invariance, PTL

(* No import, and no number of them at once, renumbers a row or changes its   *)
(* slug, and a stored file is replaced by a stored one (_upsert_material).    *)
THEOREM KeysAreKept == Spec => KeysKept
<1>1. IInv /\ [Next]_vars => [KeysStep]_vars
  BY StepKeepsKeys
<1>2. KeysKept <=> [][KeysStep]_vars
  BY DEF KeysKept, KeysStep
<1> QED
  BY <1>1, <1>2, Invariance, PTL DEF Spec

(* An import that read a material after the last change of its publish state  *)
(* leaves that state alone (_upsert_material).                                *)
THEOREM PublishStateIsKept == Spec => PublishStateKept
<1>1. IInv /\ [Next]_vars => [PublishStateStep]_vars
  BY StepKeepsPublishState
<1>2. PublishStateKept <=> [][PublishStateStep]_vars
  BY DEF PublishStateKept, PublishStateStep
<1> QED
  BY <1>1, <1>2, Invariance, PTL DEF Spec

(* The clean-up of the command removes a download only when it is complete,   *)
(* or when its run ends while it still downloads.                             *)
THEOREM RemovedDownloadsAreComplete == Spec => OnlyCompleteDownloadsRemoved
<1>1. IInv /\ [Next]_vars => [RemovalStep]_vars
  BY StepRemovesComplete
<1>2. OnlyCompleteDownloadsRemoved <=> [][RemovalStep]_vars
  BY DEF OnlyCompleteDownloadsRemoved, RemovalStep
<1> QED
  BY <1>1, <1>2, Invariance, PTL DEF Spec
=============================================================================
