--------------------------- MODULE MaterialImport ---------------------------
(***************************************************************************)
(* manage.py import_materials: download a Drive folder, then mirror it in  *)
(* the Category and Material tables, while other imports and the staff     *)
(* work on the same rows.  A folder and a file are both nodes of the Drive *)
(* tree, keyed by source_path; one `rows' stands for both tables.          *)
(*                                                                         *)
(* An import reads an item in one step, copies the file in a second where  *)
(* it has to, and saves the row in the last.  Any item may raise instead   *)
(* (an unreadable file, a title the column is too short for), and the      *)
(* process may be killed or interrupted between any two steps.             *)
(***************************************************************************)
EXTENDS Integers, Sequences, FiniteSets

CONSTANTS
    Folders, Files,  \* the nodes of the Drive folder
    Walk,            \* the nodes in the order of os.walk, the root first
    Parent,          \* [node |-> its folder]
    Ignored,         \* junk files, excluded folders and what is below them
    Base,            \* [node |-> the slug of its name]
    Importers,       \* concurrent runs of the command
    NoRow, NoDir, Nothing,
    MaxRuns,         \* bound on the runs of the command
    MaxEdits         \* bound on what happens around them

Nodes == Folders \cup Files
Root == Walk[1]

Id == Nat \cup {Nothing}
Slug == [base : {Base[node] : node \in Nodes}, index : Nat]
Media == [of : Files, copy : Nat]

Row ==
    [id : Id, parent : Id, slug : Slug, file : Media \cup {Nothing},
     is_published : BOOLEAN]

ASSUME MaterialImportAssumption ==
    /\ Folders \cap Files = {} /\ Ignored \subseteq Nodes
    /\ Walk \in Seq(Nodes) /\ {Walk[k] : k \in DOMAIN Walk} = Nodes
    /\ Root \in Folders \ Ignored
    /\ \A k \in 2 .. Len(Walk) : \E j \in 1 .. k - 1 :
          Walk[j] = Parent[Walk[k]] /\ Walk[j] \in Folders
    /\ \A node \in Nodes \ {Root} : Parent[node] \in Ignored => node \in Ignored
    /\ NoRow \notin Row /\ \A S \in SUBSET Nodes : NoDir # S
    /\ Nothing \notin Nat /\ Nothing \notin Media
    /\ MaxRuns \in Nat /\ MaxEdits \in Nat

VARIABLES
    rows,       \* [Nodes -> a row of Category or Material, or NoRow]
    media,      \* the files under MEDIA_ROOT
    serial,     \* the next primary key
    dirs,       \* [1 .. MaxRuns -> what is in a temporary directory, or NoDir]
    importer,   \* [Importers -> the local state of a run]
    runs,       \* how many runs were started
    edits       \* how many times the surroundings changed

vars == <<rows, media, serial, dirs, importer, runs, edits>>

(* Two history variables: somebody else has changed the publish state of the  *)
(* row since the run read it; which rows others moved, deleted or left without *)
(* their files during the run.                                                *)
Run ==
    [pc : {"idle", "download", "load", "copy", "save"}, at : 1 .. Len(Walk) + 1,
     dir : 0 .. MaxRuns, cleanup : BOOLEAN, dry_run : BOOLEAN, publish : BOOLEAN,
     cache : [Folders -> Id], copy : Row \cup {NoRow}, restated : BOOLEAN,
     errors : SUBSET Nodes, failures : SUBSET Files, touched : SUBSET Nodes]

Idle ==
    [pc |-> "idle", at |-> 1, dir |-> 0, cleanup |-> FALSE, dry_run |-> FALSE,
     publish |-> FALSE, cache |-> [folder \in Folders |-> Nothing], copy |-> NoRow,
     restated |-> FALSE, errors |-> {}, failures |-> {}, touched |-> {}]

Stored == {node \in Nodes : rows[node] # NoRow}
CategoryIds == {rows[node].id : node \in Stored \cap Folders}

(* The foreign keys of Category and Material hold in every state. *)
TypeOK ==
    /\ rows \in [Nodes -> Row \cup {NoRow}]
    /\ \A node \in Stored : /\ rows[node].id \in Nat
                            /\ rows[node].parent \in CategoryIds \cup {Nothing}
    /\ media \in SUBSET Media
    /\ serial \in Nat
    /\ dirs \in [1 .. MaxRuns -> {NoDir} \cup SUBSET Nodes]
    /\ importer \in [Importers -> Run]
    /\ runs \in 0 .. MaxRuns /\ edits \in 0 .. MaxEdits

Init ==
    /\ rows = [node \in Nodes |-> NoRow]
    /\ media = {}
    /\ serial = 1
    /\ dirs = [run \in 1 .. MaxRuns |-> NoDir]
    /\ importer = [i \in Importers |-> Idle]
    /\ runs = 0 /\ edits = 0
-----------------------------------------------------------------------------
(* The helpers. *)

SameTable(node) == IF node \in Folders THEN Folders ELSE Files

Taken(node) == {rows[other].slug : other \in (Stored \cap SameTable(node)) \ {node}}

(* The loop of _unique_slug for a row that has no primary key yet. *)
UniqueSlug(node) ==
    LET Try(k) == [base |-> Base[node], index |-> k]
        free == {k \in 1 .. Cardinality(Nodes) + 1 :
                    \A other \in Stored \cap SameTable(node) :
                        rows[other].slug # Try(k)}
    IN  Try(CHOOSE k \in free : \A other \in free : k <= other)

(* get_available_name of the storage. *)
AvailableName(node) ==
    LET free == {k \in 1 .. Cardinality(media) + 1 :
                    [of |-> node, copy |-> k] \notin media}
    IN  [of |-> node, copy |-> CHOOSE k \in free : \A other \in free : k <= other]

(* The node, its folder, and so on up. *)
Path ==
    [node \in Nodes |->
        {n \in Nodes : \A S \in SUBSET Nodes :
            node \in S /\ (\A m \in S \ {Root} : Parent[m] \in S) => n \in S}]

Here(i) == Walk[importer[i].at]
Wanted(i) == IF Here(i) = Root THEN Nothing ELSE importer[i].cache[Parent[Here(i)]]

(* What the constraints of the tables say of a row that is about to be saved. *)
Fits_PathNotUnique(node, row) ==
    /\ row.slug \notin Taken(node)
    /\ row.parent \in CategoryIds \cup (IF node = Root THEN {Nothing} ELSE {})
Fits(node, row) ==
    /\ rows[node] # NoRow => rows[node].id = row.id
    /\ row.slug \notin Taken(node)
    /\ row.parent \in CategoryIds \cup (IF node = Root THEN {Nothing} ELSE {})

InUse(run) == \E i \in Importers : importer[i].pc # "idle" /\ importer[i].dir = run

(* Only a file that is not stored is copied. *)
NeedCopy(row) == row.file = Nothing \/ row.file \notin media

Edit == edits < MaxEdits /\ edits' = edits + 1

Become(i, state) == importer' = [importer EXCEPT ![i] = state]
Onward(state) ==
    [state EXCEPT !.pc = "load", !.at = @ + 1, !.copy = NoRow, !.restated = FALSE]

(* Whoever has read the row and not saved it yet holds an older publish state. *)
Restated(node) ==
    [i \in Importers |->
        IF importer[i].pc \in {"copy", "save"} /\ Here(i) = node
        THEN [importer[i] EXCEPT !.restated = TRUE] ELSE importer[i]]

Touched(state, nodes) ==
    [i \in Importers |-> IF state[i].pc = "idle" THEN state[i]
                         ELSE [state[i] EXCEPT !.touched = @ \cup nodes]]
-----------------------------------------------------------------------------
(* The command (management/commands/import_materials.py). *)

Start(i, dir, cleanup, dry_run, publish) ==
    /\ importer[i].pc = "idle"
    /\ runs < MaxRuns
    /\ runs' = runs + 1
    /\ Become(i, [Idle EXCEPT !.pc = IF cleanup THEN "download" ELSE "load",
                              !.dir = dir, !.cleanup = cleanup, !.dry_run = dry_run,
                              !.publish = publish])

(* --url: every run downloads into a new directory of its own. *)
StartUrl(i, dry_run, publish) ==
    /\ Start(i, runs + 1, TRUE, dry_run, publish)
    /\ dirs' = [dirs EXCEPT ![runs + 1] = {Root}]
    /\ UNCHANGED <<rows, media, serial, edits>>

(* --source: a directory that an earlier run has left. *)
StartSource(i, dir, dry_run, publish) ==
    /\ dirs[dir] # NoDir /\ ~ InUse(dir)
    /\ Start(i, dir, FALSE, dry_run, publish)
    /\ UNCHANGED <<rows, media, serial, dirs, edits>>

(* The `finally' of handle: it knows of no failures until download_folder has  *)
(* returned them.                                                             *)
Remove_Always(run) == run.cleanup /\ ~ run.dry_run
Remove(run) ==
    run.cleanup /\ ~ run.dry_run /\ (run.pc = "download" \/ run.failures = {})

Cleanup(i) ==
    /\ Become(i, Idle)
    /\ dirs' = IF Remove(importer[i])
               THEN [dirs EXCEPT ![importer[i].dir] = NoDir] ELSE dirs

(* download_folder raises, for a listing that cannot be read or a full disk:  *)
(* CommandError.                                                              *)
DownloadRaises(i) ==
    /\ importer[i].pc = "download" /\ importer[i].at <= Len(Walk)
    /\ Cleanup(i)
    /\ UNCHANGED <<rows, media, serial, runs, edits>>

(* One file: present already, downloaded within the retries, or given up.  The *)
(* folders above a file are made just before the first attempt.              *)
Download(i) ==
    LET state == importer[i]
        next  == [state EXCEPT !.at = @ + 1]
    IN  /\ state.pc = "download" /\ state.at <= Len(Walk)
        /\ \/ /\ Here(i) \in Folders \cup dirs[state.dir]
              /\ Become(i, next)
              /\ UNCHANGED dirs
           \/ /\ Here(i) \in Files \ dirs[state.dir]
              /\ Become(i, next)
              /\ dirs' = [dirs EXCEPT ![state.dir] = @ \cup Path[Here(i)]]
           \/ /\ Here(i) \in Files \ dirs[state.dir]
              /\ Become(i, [next EXCEPT !.failures = @ \cup {Here(i)}])
              /\ dirs' = [dirs EXCEPT ![state.dir] = @ \cup (Path[Here(i)] \cap Folders)]
        /\ UNCHANGED <<rows, media, serial, runs, edits>>

Downloaded(i) ==
    /\ importer[i].pc = "download" /\ importer[i].at > Len(Walk)
    /\ Become(i, [importer[i] EXCEPT !.pc = "load", !.at = 1])
    /\ UNCHANGED <<rows, media, serial, dirs, runs, edits>>

Finish(i) ==
    /\ importer[i].pc = "load" /\ importer[i].at > Len(Walk)
    /\ Cleanup(i)
    /\ UNCHANGED <<rows, media, serial, runs, edits>>

Kill(i) ==
    /\ importer[i].pc # "idle"
    /\ Edit
    /\ Become(i, Idle)
    /\ UNCHANGED <<rows, media, serial, dirs, runs>>

(* Control-C: the `finally' is still executed. *)
Interrupt(i) ==
    /\ importer[i].pc # "idle"
    /\ Edit
    /\ Cleanup(i)
    /\ UNCHANGED <<rows, media, serial, runs>>
-----------------------------------------------------------------------------
(* The walk (services/material_import.py, import_tree). *)

Visited(i) ==
    /\ Here(i) \notin Ignored
    /\ Here(i) \in dirs[importer[i].dir]
    /\ Here(i) # Root => importer[i].cache[Parent[Here(i)]] # Nothing

Walking(i, pc) == importer[i].pc = pc /\ importer[i].at <= Len(Walk)

Skip(i) ==
    /\ Walking(i, "load") /\ ~ Visited(i)
    /\ Become(i, Onward(importer[i]))
    /\ UNCHANGED <<rows, media, serial, dirs, runs, edits>>

(* A dry run caches the row it found, or one without a key: 0. *)
DryVisit(i) ==
    LET state == importer[i]
        node  == Here(i)
    IN  /\ Walking(i, "load") /\ Visited(i) /\ state.dry_run
        /\ Become(i, IF node \in Files THEN Onward(state)
                     ELSE [Onward(state) EXCEPT
                             !.cache[node] = IF rows[node] = NoRow
                                             THEN 0 ELSE rows[node].id])
        /\ UNCHANGED <<rows, media, serial, dirs, runs, edits>>

NewRow(node, parent, publish) ==
    [id |-> Nothing, parent |-> parent, slug |-> UniqueSlug(node),
     file |-> Nothing, is_published |-> publish]

(* The SELECT of get_or_create. *)
LoadFolder(i) ==
    LET node == Here(i)
    IN  /\ Walking(i, "load") /\ Visited(i) /\ ~ importer[i].dry_run
        /\ node \in Folders
        /\ Become(i, [importer[i] EXCEPT
                        !.pc = "save",
                        !.copy = IF rows[node] = NoRow
                                 THEN NewRow(node, Wanted(i), importer[i].publish)
                                 ELSE rows[node]])
        /\ UNCHANGED <<rows, media, serial, dirs, runs, edits>>

(* The row of a file with its metadata refreshed. *)
Refreshed_Republishes(node, parent, publish) ==
    IF rows[node] = NoRow THEN NewRow(node, parent, publish)
    ELSE [rows[node] EXCEPT !.parent = parent, !.is_published = publish]
Refreshed(node, parent, publish) ==
    IF rows[node] = NoRow THEN NewRow(node, parent, publish)
    ELSE [rows[node] EXCEPT !.parent = parent]

(* The SELECT of _upsert_material, and whether the file has to be copied. *)
LoadFile(i) ==
    LET row == Refreshed(Here(i), Wanted(i), importer[i].publish)
    IN  /\ Walking(i, "load") /\ Visited(i) /\ ~ importer[i].dry_run
        /\ Here(i) \in Files
        /\ Become(i, [importer[i] EXCEPT
                        !.pc = IF NeedCopy(row) THEN "copy" ELSE "save",
                        !.copy = row])
        /\ UNCHANGED <<rows, media, serial, dirs, runs, edits>>

CopyFile(i) ==
    LET name == AvailableName(Here(i))
    IN  /\ Walking(i, "copy")
        /\ media' = media \cup {name}
        /\ Become(i, [importer[i] EXCEPT !.pc = "save", !.copy.file = name])
        /\ UNCHANGED <<rows, serial, dirs, runs, edits>>

(* An INSERT gives the row a key; a loaded row keeps its own. *)
Insert(node, row) ==
    /\ Fits(node, row)
    /\ rows' = [rows EXCEPT ![node] =
                    IF row.id = Nothing THEN [row EXCEPT !.id = serial] ELSE row]
    /\ serial' = IF row.id = Nothing THEN serial + 1 ELSE serial

CreateFolder(i) ==
    LET node == Here(i)
        row  == importer[i].copy
    IN  /\ Walking(i, "save") /\ node \in Folders
        /\ row.id = Nothing /\ rows[node] = NoRow
        /\ Insert(node, row)
        /\ Become(i, [Onward(importer[i]) EXCEPT !.cache[node] = serial])
        /\ UNCHANGED <<media, dirs, runs, edits>>

(* The row was there, or another run was faster: its name and its place are   *)
(* repaired together, when either differs.  Names are left out of the rows.   *)
Misplaced_Never(row, parent) == FALSE
Misplaced(row, parent) == row.parent # parent

KeepFolder(i) ==
    LET node == Here(i)
        row  == IF importer[i].copy.id = Nothing THEN rows[node] ELSE importer[i].copy
    IN  /\ Walking(i, "save") /\ node \in Folders /\ row # NoRow
        /\ \E renamed \in BOOLEAN :
             IF renamed \/ Misplaced(row, Wanted(i))
             THEN /\ rows[node] # NoRow /\ rows[node].id = row.id
                  /\ Wanted(i) \in CategoryIds \cup {Nothing}
                  /\ rows' = [rows EXCEPT ![node].parent = Wanted(i)]
             ELSE UNCHANGED rows
        /\ Become(i, [Onward(importer[i]) EXCEPT !.cache[node] = row.id])
        /\ UNCHANGED <<media, serial, dirs, runs, edits>>

(* material.save() writes every column, and INSERTs a row that is gone. *)
SaveFile(i) ==
    LET node   == Here(i)
        row    == importer[i].copy
        others == IF rows[node] # NoRow /\ rows[node].is_published = row.is_published
                  THEN importer ELSE Restated(node)
    IN  /\ Walking(i, "save") /\ node \in Files
        /\ Insert(node, row)
        /\ importer' = [Touched(others, IF row.file \in media THEN {} ELSE {node})
                          EXCEPT ![i] = Onward(importer[i])]
        /\ UNCHANGED <<media, dirs, runs, edits>>

(* An item raised, before its read or in its write; the walk goes on. *)
ItemFails(i) ==
    /\ Walking(i, importer[i].pc) /\ importer[i].pc \in {"load", "copy", "save"}
    /\ Visited(i) /\ ~ importer[i].dry_run /\ Here(i) # Root
    /\ Become(i, [Onward(importer[i]) EXCEPT !.errors = @ \cup {Here(i)}])
    /\ UNCHANGED <<rows, media, serial, dirs, runs, edits>>

(* The root category is written outside the loop: its error ends the command. *)
RootFails(i) ==
    /\ importer[i].pc \in {"load", "save"} /\ importer[i].at = 1
    /\ ~ importer[i].dry_run
    /\ Cleanup(i)
    /\ UNCHANGED <<rows, media, serial, runs, edits>>
-----------------------------------------------------------------------------
(* What happens around the runs. *)

Touch(nodes) ==
    /\ Edit
    /\ importer' = Touched(importer, nodes)
    /\ UNCHANGED <<serial, dirs, runs>>

(* make_published and make_unpublished, or the list form of the Django admin. *)
Publish(node) ==
    /\ node \in Stored
    /\ rows' = [rows EXCEPT ![node].is_published = ~ @]
    /\ Edit
    /\ importer' = Restated(node)
    /\ UNCHANGED <<media, serial, dirs, runs>>

(* A category is detached from its parent in the Django admin. *)
Detach(node) ==
    /\ node \in Stored \cap (Folders \ {Root})
    /\ rows' = [rows EXCEPT ![node].parent = Nothing]
    /\ Touch({node})
    /\ UNCHANGED media

(* on_delete = CASCADE below a category, SET_NULL on its materials. *)
Cascade_OneLevel(node) == {node}
Children(nodes) ==
    {child \in Stored \cap Folders :
        \E above \in nodes \cap Stored : rows[child].parent = rows[above].id}
Cascade(node) ==
    IF node \in Files THEN {node}
    ELSE {n \in Stored \cap Folders : \A S \in SUBSET Folders :
              node \in S /\ Children(S) \subseteq S => n \in S}

Delete(node) ==
    /\ node \in Stored
    /\ LET gone    == Cascade(node)
           keys    == {rows[n].id : n \in gone \cap Folders}
           orphans == {n \in Stored \cap Files : rows[n].parent \in keys} \ gone
       IN  /\ rows' = [n \in Nodes |->
                          CASE n \in gone    -> NoRow
                            [] n \in orphans -> [rows[n] EXCEPT !.parent = Nothing]
                            [] OTHER         -> rows[n]]
           /\ Touch(gone \cup orphans)
    /\ UNCHANGED media

(* The disk that holds MEDIA_ROOT is replaced. *)
LoseMedia ==
    /\ media # {}
    /\ media' = {}
    /\ Touch(Files)
    /\ UNCHANGED rows

(* The command may be started again as long as the bound allows. *)
Finished ==
    /\ runs = MaxRuns /\ \A i \in Importers : importer[i].pc = "idle"
    /\ UNCHANGED vars

Begin(i) ==
    \E dry_run, publish \in BOOLEAN :
        \/ StartUrl(i, dry_run, publish)
        \/ \E dir \in 1 .. MaxRuns : StartSource(i, dir, dry_run, publish)

Command(i) == DownloadRaises(i) \/ Download(i) \/ Downloaded(i) \/ Finish(i)

Import(i) ==
    \/ Skip(i) \/ DryVisit(i)
    \/ LoadFolder(i) \/ CreateFolder(i) \/ KeepFolder(i)
    \/ LoadFile(i) \/ CopyFile(i) \/ SaveFile(i)
    \/ ItemFails(i) \/ RootFails(i)

Surroundings ==
    \/ LoseMedia
    \/ \E node \in Nodes : Publish(node) \/ Detach(node) \/ Delete(node)

Next ==
    \/ \E i \in Importers : Begin(i) \/ Command(i) \/ Import(i) \/ Kill(i) \/ Interrupt(i)
    \/ Surroundings
    \/ Finished

Spec == Init /\ [][Next]_vars
-----------------------------------------------------------------------------
(* The properties. *)

Done(i) == {Walk[k] : k \in 1 .. importer[i].at - 1}

(* A node has a row in its place, and its file is stored. *)
InPlace(node) ==
    /\ rows[node] # NoRow
    /\ node = Root \/ /\ rows[Parent[node]] # NoRow
                      /\ rows[node].parent = rows[Parent[node]].id
    /\ node \in Files => rows[node].file \in media

(* The node or a folder above it is missing in the directory, is among the     *)
(* errors of the run, or was changed by somebody else during it.               *)
Excused(i, node) ==
    \/ node \in Ignored
    \/ ~ Path[node] \subseteq dirs[importer[i].dir]
    \/ Path[node] \cap (importer[i].errors \cup importer[i].touched) # {}

(* A run reports what it loses: every item it has passed is in its place or   *)
(* excused (import_tree, stats.errors).                                       *)
NothingLostSilently ==
    \A i \in Importers :
        importer[i].pc \in {"load", "copy", "save"} /\ ~ importer[i].dry_run
            => \A node \in Done(i) : InPlace(node) \/ Excused(i, node)

(* Re-running, several runs at once included, never renumbers a row or changes *)
(* its slug (README.md:118-119; the name of a category may change), and a     *)
(* material whose file is stored never ends with one that is not, unless the  *)
(* media were lost during the run that saves it (_upsert_material).           *)
KeysKept ==
    [][\A node \in Nodes :
          rows[node] # NoRow /\ rows'[node] # NoRow =>
              /\ rows'[node].id = rows[node].id
              /\ rows'[node].slug = rows[node].slug
              /\ rows[node].file \in media /\ rows'[node].file # rows[node].file =>
                    \/ rows'[node].file \in media
                    \/ \E i \in Importers : /\ Walking(i, "save") /\ Here(i) = node
                                            /\ node \in importer[i].touched]_vars

(* Re-running keeps "the publish state chosen by an admin" (_upsert_material, *)
(* services/material_import.py:341): besides the staff, only an import that   *)
(* read the row before the state was changed can change it back.              *)
PublishStateKept ==
    [][\A node \in Nodes :
          /\ rows[node] # NoRow /\ rows'[node] # NoRow
          /\ rows'[node].is_published # rows[node].is_published
          => \/ edits' # edits
             \/ \E i \in Importers : /\ Walking(i, "save") /\ Here(i) = node
                                     /\ importer[i].restated]_vars

(* A downloaded directory is removed only when all of it is there ("keep it if *)
(* some downloads failed", import_materials.py:97), unless the run ended in the *)
(* middle of its download, when the clean-up does not know what is missing.     *)
OnlyCompleteDownloadsRemoved ==
    [][\A dir \in 1 .. MaxRuns :
          dirs[dir] # NoDir /\ dirs'[dir] = NoDir =>
              \/ Files \subseteq dirs[dir]
              \/ \E i \in Importers :
                    importer[i].pc = "download" /\ importer[i].dir = dir]_vars
=============================================================================
