------------------------------- MODULE Catalog -------------------------------
(***************************************************************************)
(* Browsing the study materials: the list of categories with their counts, *)
(* and the materials of one category, while the staff rearrange the tree.  *)
(* Each request reads the tables in several queries with no transaction    *)
(* around them, so an edit may fall between any two.                       *)
(*                                                                         *)
(* Nothing stops the staff from closing a circle of parents.               *)
(***************************************************************************)
EXTENDS Integers, FiniteSetsExt

CONSTANTS
    Categories, Materials,   \* primary keys
    Visitors,                \* requests of materials/?category=
    Listers,                 \* requests of categories/
    NoRow, Top, Nowhere,     \* no such row; no parent; no category
    Tree, Home,              \* the imported folders: [category -> its parent], and
                             \* [material -> its category]
    MaxPath,                 \* the length of a full_path, 50
    MaxEdits                 \* bound on what the staff do

ASSUME CatalogAssumption ==
    /\ IsFiniteSet(Categories) /\ IsFiniteSet(Materials)
    /\ Top \notin Categories /\ Nowhere \notin Categories /\ NoRow \notin Categories
    /\ Tree \in [Categories -> Categories \cup {Top}] /\ Home \in [Materials -> Categories]
    /\ NoRow \notin [parent : Categories \cup {Top}, is_published : BOOLEAN]
    /\ MaxPath \in Nat \ {0} /\ MaxEdits \in Nat

VARIABLES
    categories,   \* [Categories -> a row, or NoRow]
    materials,    \* [Materials -> a row]
    visit,        \* [Visitors -> the local state of a request]
    listing,      \* [Listers -> the local state of a request]
    edits         \* how often the staff edited

vars == <<categories, materials, visit, listing, edits>>

CategoryRow == [parent : Categories \cup {Top}, is_published : BOOLEAN]
MaterialRow == [category : Categories \cup {Nowhere}, is_published : BOOLEAN]

ChildrenMap == [Categories -> SUBSET Categories]

(* `touched' is a history variable: the rows that were edited since the       *)
(* request began.  `collected' says how often a category is in the list.      *)
Visit ==
    [pc : {"idle", "tree", "walk", "answered"}, root : Categories \cup {Nowhere},
     children : ChildrenMap, stack : SUBSET Categories, seen : SUBSET Categories,
     collected : [Categories -> Nat], answer : SUBSET Materials,
     touched : SUBSET (Categories \cup Materials)]

(* `waiting' holds the parents of the listed categories that are still to be  *)
(* written out; `above' is the next category of the path that is written, and *)
(* `steps' how many of its categories were read.                              *)
Listing ==
    [pc : {"idle", "tree", "rows", "paths", "answered", "failed"},
     direct : [Categories -> Nat], children : ChildrenMap,
     counts : [Categories -> Nat \cup {NoRow}],
     waiting : [Categories -> Categories \cup {Top, NoRow}],
     above : Categories \cup {Top}, steps : 0 .. MaxPath,
     touched : SUBSET (Categories \cup Materials)]

Stored == {c \in Categories : categories[c] # NoRow}
Published == {c \in Stored : categories[c].is_published}

(* What may be reached from `from' along the edges `next': the smallest set   *)
(* that holds `from' and is closed under `next'.                              *)
Closed(next, S) == \A c \in S : next[c] \subseteq S
Below(next, from) ==
    {c \in Categories : \A S \in SUBSET Categories : from \in S /\ Closed(next, S) => c \in S}

Empty == [c \in Categories |-> {}]
Zero == [c \in Categories |-> 0]

(* The foreign keys hold in every state, a CASCADE in a circle included       *)
(* (models/materials.py).                                                     *)
KeysHold ==
    /\ categories \in [Categories -> CategoryRow \cup {NoRow}]
    /\ \A c \in Stored : categories[c].parent \in Stored \cup {Top}
    /\ materials \in [Materials -> MaterialRow]
    /\ \A m \in Materials : materials[m].category \in Stored \cup {Nowhere}

(* The tables keep their foreign keys and the requests their types            *)
(* (models/materials.py).                                                     *)
TypeOK ==
    /\ KeysHold
    /\ visit \in [Visitors -> Visit]
    /\ listing \in [Listers -> Listing]
    /\ edits \in 0 .. MaxEdits

NoVisit ==
    [pc |-> "idle", root |-> Nowhere, children |-> Empty, stack |-> {}, seen |-> {},
     collected |-> Zero, answer |-> {}, touched |-> {}]
NoListing ==
    [pc |-> "idle", direct |-> Zero, children |-> Empty,
     counts |-> [c \in Categories |-> NoRow], waiting |-> [c \in Categories |-> NoRow],
     above |-> Top, steps |-> 0, touched |-> {}]

(* What import_materials has left. *)
Init ==
    /\ categories = [c \in Categories |-> [parent |-> Tree[c], is_published |-> TRUE]]
    /\ materials = [m \in Materials |-> [category |-> Home[m], is_published |-> TRUE]]
    /\ visit = [v \in Visitors |-> NoVisit]
    /\ listing = [l \in Listers |-> NoListing]
    /\ edits = 0
-----------------------------------------------------------------------------
(* The staff (the Django admin) and the imports. *)

Touch(rows) ==
    /\ edits < MaxEdits
    /\ edits' = edits + 1
    /\ visit' = [v \in Visitors |->
          IF visit[v].pc = "idle" THEN visit[v]
          ELSE [visit[v] EXCEPT !.touched = @ \cup rows]]
    /\ listing' = [l \in Listers |->
          IF listing[l].pc = "idle" THEN listing[l]
          ELSE [listing[l] EXCEPT !.touched = @ \cup rows]]

(* A category is created, moved (below itself, if they like), or published.   *)
SaveCategory(c, parent, is_published) ==
    /\ parent \in Stored \cup {Top}
    /\ categories' = [categories EXCEPT
                        ![c] = [parent |-> parent, is_published |-> is_published]]
    /\ Touch({c})
    /\ UNCHANGED materials

SaveMaterial(m, category, is_published) ==
    /\ category \in Stored \cup {Nowhere}
    /\ materials' = [materials EXCEPT
                       ![m] = [category |-> category, is_published |-> is_published]]
    /\ Touch({m})
    /\ UNCHANGED categories

(* _children_map *)
Children ==
    [c \in Categories |-> {child \in Stored : categories[child].parent = c}]

(* on_delete = CASCADE below a category, SET_NULL on its materials. *)
Cascade_OneLevel(c) == {c} \cup Children[c]
Cascade(c) == Below(Children, c)

DeleteCategory(c) ==
    /\ c \in Stored
    /\ LET gone    == Cascade(c)
           orphans == {m \in Materials : materials[m].category \in gone}
       IN  /\ categories' = [k \in Categories |->
                               IF k \in gone THEN NoRow ELSE categories[k]]
           /\ materials' = [m \in Materials |->
                              IF m \in orphans
                              THEN [materials[m] EXCEPT !.category = Nowhere]
                              ELSE materials[m]]
           /\ Touch(gone \cup orphans)
-----------------------------------------------------------------------------
(* materials/?category= (views/materials.py, filter_category). *)

Proceed(v, state) ==
    /\ visit' = [visit EXCEPT ![v] = state]
    /\ UNCHANGED <<categories, materials, listing, edits>>

(* The root is looked up by its key or its slug: none, and nothing is listed. *)
Open(v, root) ==
    /\ visit[v].pc = "idle"
    /\ Proceed(v, [NoVisit EXCEPT
                     !.root = root,
                     !.pc = IF root \in Stored THEN "tree" ELSE "answered"])

ReadTree(v) ==
    /\ visit[v].pc = "tree"
    /\ Proceed(v, [visit[v] EXCEPT !.pc = "walk", !.children = Children,
                                   !.stack = {visit[v].root},
                                   !.seen = {}, !.collected = Zero])

(* One turn of the loop of subtree_ids.  The order of siblings is left open.  *)
Turn_GuardBeforePop(state, current) ==
    IF current \in state.seen THEN state
    ELSE [state EXCEPT !.stack = (@ \ {current}) \cup state.children[current],
                       !.seen = @ \cup {current},
                       !.collected[current] = @ + 1]
Turn_CollectsFirst(state, current) ==
    LET popped == [state EXCEPT !.stack = @ \ {current}, !.collected[current] = @ + 1]
    IN  IF current \in state.seen THEN popped
        ELSE [popped EXCEPT !.stack = @ \cup state.children[current],
                            !.seen = @ \cup {current}]
Turn(state, current) ==
    LET popped == [state EXCEPT !.stack = @ \ {current}]
    IN  IF current \in state.seen THEN popped
        ELSE [popped EXCEPT !.stack = @ \cup state.children[current],
                            !.seen = @ \cup {current},
                            !.collected[current] = @ + 1]

Walk(v) ==
    /\ visit[v].pc = "walk"
    /\ \E current \in visit[v].stack : Proceed(v, Turn(visit[v], current))

(* MaterialQuerySet.published *)
Shown(m) ==
    /\ materials[m].is_published
    /\ materials[m].category \in Published \cup {Nowhere}

ReadMaterials_RootOnly(v) ==
    /\ visit[v].pc = "walk" /\ visit[v].stack = {}
    /\ Proceed(v, [NoVisit EXCEPT
                     !.pc = "answered", !.root = visit[v].root, !.touched = visit[v].touched,
                     !.answer = {m \in Materials :
                                   Shown(m) /\ materials[m].category = visit[v].root}])
ReadMaterials(v) ==
    /\ visit[v].pc = "walk" /\ visit[v].stack = {}
    /\ Proceed(v, [NoVisit EXCEPT
                     !.pc = "answered", !.root = visit[v].root, !.touched = visit[v].touched,
                     !.answer = {m \in Materials :
                                   /\ Shown(m)
                                   /\ materials[m].category \in Categories
                                   /\ visit[v].collected[materials[m].category] > 0}])

Visiting(v) == ReadTree(v) \/ Walk(v) \/ ReadMaterials(v)
-----------------------------------------------------------------------------
(* categories/ (selectors/materials.py, published_categories_with_counts). *)

Continue(l, state) ==
    /\ listing' = [listing EXCEPT ![l] = state]
    /\ UNCHANGED <<categories, materials, visit, edits>>

Direct_Unpublished ==
    [c \in Categories |->
        IF c \in Published
        THEN Cardinality({m \in Materials : materials[m].category = c}) ELSE 0]
Direct ==
    [c \in Categories |->
        IF c \in Published
        THEN Cardinality({m \in Materials : /\ materials[m].category = c
                                            /\ materials[m].is_published}) ELSE 0]

CountDirect(l) ==
    /\ listing[l].pc = "idle"
    /\ Continue(l, [listing[l] EXCEPT !.pc = "tree", !.direct = Direct])

ReadChildren(l) ==
    /\ listing[l].pc = "tree"
    /\ Continue(l, [listing[l] EXCEPT !.pc = "rows", !.children = Children])

(* full_path of the listed categories, one after the other, in some order: a  *)
(* query for every category above.  When one is read to its end, the next is  *)
(* begun.                                                                     *)
AtTop_Forgotten(state) == state.steps = MaxPath
AtTop(state) == state.above = Top \/ state.steps = MaxPath

Onward(state) ==
    LET left == {c \in Categories : state.waiting[c] \in Categories}
        next == CHOOSE c \in left : TRUE
    IN  IF ~ AtTop(state) THEN state
        ELSE IF left = {} THEN [state EXCEPT !.pc = "answered", !.above = Top, !.steps = 0]
        ELSE [state EXCEPT !.above = state.waiting[next], !.steps = 0,
                           !.waiting[next] = NoRow]

(* A walk per category.  They touch nothing but the map that was read, so     *)
(* they are taken at once and by their result, which is that of Walk.         *)
ListCategories(l) ==
    /\ listing[l].pc = "rows"
    /\ Continue(l, Onward([NoListing EXCEPT
          !.pc = "paths", !.touched = listing[l].touched,
          !.waiting = [c \in Categories |->
              IF c \in Published THEN categories[c].parent ELSE NoRow],
          !.counts = [c \in Categories |->
              IF c \in Published
              THEN MapThenSumSet(LAMBDA k : listing[l].direct[k],
                                 Below(listing[l].children, c))
              ELSE NoRow]]))

Climb(l) ==
    LET state == listing[l]
    IN  /\ state.pc = "paths"
        /\ Continue(l, IF state.above \in Stored
                       THEN Onward([state EXCEPT !.above = categories[@].parent,
                                                 !.steps = @ + 1])
                       ELSE [NoListing EXCEPT !.pc = "failed", !.above = state.above,
                                              !.touched = state.touched])

Answering(l) == ReadChildren(l) \/ ListCategories(l) \/ Climb(l)
-----------------------------------------------------------------------------
(* One column at a time; a form that changes both is one edit after the other. *)
(* A new category may get the key of a deleted one, which a database does not *)
(* do: it only adds behaviours.                                               *)
Edit ==
    \/ \E c \in Stored, parent \in Categories \cup {Top} :
          /\ parent # categories[c].parent
          /\ SaveCategory(c, parent, categories[c].is_published)
    \/ \E c \in Stored :
          SaveCategory(c, categories[c].parent, ~ categories[c].is_published)
    \/ \E c \in Categories \ Stored, parent \in Categories \cup {Top} :
          SaveCategory(c, parent, TRUE)
    \/ \E m \in Materials, c \in Categories \cup {Nowhere} :
          /\ c # materials[m].category
          /\ SaveMaterial(m, c, materials[m].is_published)
    \/ \E m \in Materials :
          SaveMaterial(m, materials[m].category, ~ materials[m].is_published)
    \/ \E c \in Categories : DeleteCategory(c)

(* The client has read an answer and goes on. *)
Leave(v) ==
    /\ visit[v].pc = "answered"
    /\ Proceed(v, NoVisit)
LeaveList(l) ==
    /\ listing[l].pc \in {"answered", "failed"}
    /\ Continue(l, NoListing)

Next ==
    \/ Edit
    \/ \E v \in Visitors :
          (\E root \in Categories : Open(v, root)) \/ Visiting(v) \/ Leave(v)
    \/ \E l \in Listers :
          CountDirect(l) \/ Answering(l) \/ LeaveList(l)

(* A worker that has begun a request goes on with it. *)
Spec ==
    /\ Init /\ [][Next]_vars
    /\ \A v \in Visitors : WF_vars(Visiting(v))
    /\ \A l \in Listers : WF_vars(Answering(l))
-----------------------------------------------------------------------------
(* The properties. *)

(* A finished walk has collected the root and everything below it, each       *)
(* category once, whatever circles the parents close (subtree_ids).           *)
CollectsSubtree ==
    \A v \in Visitors :
        visit[v].pc = "walk" /\ visit[v].stack = {} =>
            LET subtree == Below(visit[v].children, visit[v].root)
            IN  visit[v].collected = [c \in Categories |-> IF c \in subtree THEN 1 ELSE 0]

(* The category, its parent, and so on up. *)
Parents ==
    [c \in Categories |->
        IF c \in Stored THEN {categories[c].parent} \ {Top} ELSE {}]
Path(c) == Below(Parents, c)

(* Edits elsewhere in the tree, between the queries of a request, neither hide *)
(* a material nor add one: if neither it nor a category on its path was edited *)
(* during the request, it is in the answer exactly if it is shown and below    *)
(* the category asked for (filter_category).                                   *)
StandingMaterialsListed ==
    \A v \in Visitors, m \in Materials :
        LET home  == materials[m].category
            quiet == /\ m \notin visit[v].touched /\ home # Nowhere
                     /\ Path(home) \cap visit[v].touched = {}
        IN  visit[v].pc = "answered" /\ quiet =>
              (m \in visit[v].answer <=> Shown(m) /\ visit[v].root \in Path(home))

(* The count beside a category is the number of materials that opening it     *)
(* lists, if nothing was edited since the two requests began, although the    *)
(* list sums numbers over the tree where the other filters rows               *)
(* (published_categories_with_counts, filter_category).                       *)
CountsMatchListing ==
    \A v \in Visitors, l \in Listers :
        /\ visit[v].pc = "answered" /\ listing[l].pc = "answered"
        /\ visit[v].touched = {} /\ listing[l].touched = {}
        /\ listing[l].counts[visit[v].root] # NoRow
        => listing[l].counts[visit[v].root] = Cardinality(visit[v].answer)

(* The list fails only over a category that somebody edited after the request *)
(* began: the paths are read without a transaction, and a parent may be gone  *)
(* (CategorySerializer.full_path).                                            *)
OnlyTheGoneAreMissed ==
    \A l \in Listers :
        listing[l].pc = "failed" => listing[l].above \in listing[l].touched

(* Every request ends, in a tree with a circle too (the guard "against        *)
(* accidental cycles" in subtree_ids, and the one of full_path).              *)
EveryRequestAnswered ==
    /\ \A v \in Visitors : visit[v].pc # "idle" ~> visit[v].pc = "answered"
    /\ \A l \in Listers : listing[l].pc # "idle" ~> listing[l].pc \in {"answered", "failed"}
=============================================================================
