---------------------------- MODULE CatalogProofs ----------------------------
(* What Catalog promises for every set of categories, materials and requests. *)
EXTENDS Catalog, GamificationProofs

(* Below holds its start, is closed, and is the smallest such set. *)
LEMMA BelowIsLeast ==
    ASSUME NEW next \in ChildrenMap, NEW from \in Categories
    PROVE  /\ Below(next, from) \subseteq Categories
           /\ from \in Below(next, from)
           /\ Closed(next, Below(next, from))
           /\ \A S \in SUBSET Categories :
                from \in S /\ Closed(next, S) => Below(next, from) \subseteq S
<1> DEFINE B == Below(next, from)
<1>1. B \subseteq Categories /\ from \in B
  BY DEF Below
<1>2. ASSUME NEW S \in SUBSET Categories, from \in S, Closed(next, S)
      PROVE  B \subseteq S
  BY <1>2 DEF Below
<1>3. ASSUME NEW c \in B, NEW d \in next[c] PROVE d \in B
  <2>1. d \in Categories
    BY <1>1 DEF ChildrenMap
  <2>2. ASSUME NEW S \in SUBSET Categories, from \in S, Closed(next, S)
        PROVE  d \in S
    BY <1>2, <2>2 DEF Closed
  <2> QED
    BY <2>1, <2>2 DEF Below
<1> QED
  BY <1>1, <1>2, <1>3 DEF Closed

(* What is below a category depends on the edges below it only. *)
LEMMA BelowAgrees ==
    ASSUME NEW one \in ChildrenMap, NEW two \in ChildrenMap, NEW from \in Categories,
           \A c \in Below(one, from) : one[c] = two[c]
    PROVE  Below(one, from) = Below(two, from)
<1>1. Closed(two, Below(one, from))
  BY BelowIsLeast DEF Closed
<1>2. Below(two, from) \subseteq Below(one, from)
  BY <1>1, BelowIsLeast
<1>3. Closed(one, Below(two, from))
  BY <1>2, BelowIsLeast DEF Closed
<1>4. Below(one, from) \subseteq Below(two, from)
  BY <1>3, BelowIsLeast
<1> QED
  BY <1>2, <1>4

(* A category is below another exactly if that other is on its path, provided *)
(* the two maps agree along the path.                                         *)
LEMMA BelowIsAbove ==
    ASSUME NEW down \in ChildrenMap, NEW up \in ChildrenMap,
           NEW root \in Categories, NEW home \in Categories,
           \A c \in Below(up, home), p \in Categories : c \in down[p] <=> p \in up[c]
    PROVE  home \in Below(down, root) <=> root \in Below(up, home)
<1> DEFINE B == Below(down, root)
           U == Below(up, home)
<1>b. /\ B \subseteq Categories /\ root \in B /\ Closed(down, B)
      /\ U \subseteq Categories /\ home \in U /\ Closed(up, U)
  BY BelowIsLeast
<1>1. ASSUME root \in U, home \notin B PROVE FALSE
  <2> DEFINE S == U \ B
  <2>1. home \in S /\ S \in SUBSET Categories
    BY <1>1, <1>b
  <2>2. ASSUME NEW c \in S, NEW p \in up[c] PROVE p \in S
    <3>1. p \in U /\ p \in Categories
      BY <1>b DEF Closed
    <3>2. c \in down[p]
      BY <3>1, <1>b
    <3>3. p \notin B
      BY <3>2, <1>b DEF Closed
    <3> QED
      BY <3>1, <3>3
  <2>3. Closed(up, S)
    BY <2>2 DEF Closed
  <2>4. U \subseteq S
    <3> HIDE DEF S
    <3> QED
      BY <2>1, <2>3, BelowIsLeast
  <2> QED
    BY <2>4, <1>1, <1>b
<1>2. ASSUME home \in B, root \notin U PROVE FALSE
  <2> DEFINE S == Categories \ U
  <2>1. root \in S /\ S \in SUBSET Categories
    BY <1>2, <1>b
  <2>2. ASSUME NEW p \in S, NEW c \in down[p] PROVE c \in S
    <3>1. c \in Categories
      BY DEF ChildrenMap
    <3>2. ASSUME c \in U PROVE FALSE
      <4>1. p \in up[c]
        BY <3>2, <1>b
      <4> QED
        BY <4>1, <3>2, <1>b DEF Closed
    <3> QED
      BY <3>1, <3>2
  <2>3. Closed(down, S)
    BY <2>2 DEF Closed
  <2>4. B \subseteq S
    <3> HIDE DEF S
    <3> QED
      BY <2>1, <2>3, BelowIsLeast
  <2> QED
    BY <2>4, <1>2, <1>b
<1> QED
  BY <1>1, <1>2
-----------------------------------------------------------------------------
(* The inductive invariant. *)

RootKnown(v) == visit[v].pc # "idle" => visit[v].root \in Categories

(* What a walk has seen and what is on its stack. *)
WalkInv(v) ==
    LET subtree == Below(visit[v].children, visit[v].root)
        reached == visit[v].seen \cup visit[v].stack
    IN  visit[v].pc = "walk" =>
          /\ visit[v].root \in reached
          /\ reached \subseteq subtree
          /\ \A c \in visit[v].seen : visit[v].children[c] \subseteq reached
          /\ visit[v].collected =
                [c \in Categories |-> IF c \in visit[v].seen THEN 1 ELSE 0]

(* A category that was not edited is where the map of the request has it. *)
MapHolds(v) ==
    visit[v].pc = "walk" =>
        \A c \in Categories \ visit[v].touched, p \in Categories :
            c \in visit[v].children[p] <=> p \in Parents[c]

Quiet(v, m) ==
    /\ m \in Materials \ visit[v].touched /\ materials[m].category # Nowhere
    /\ Path(materials[m].category) \cap visit[v].touched = {}

AnswerHolds(v) ==
    visit[v].pc = "answered" =>
        \A m \in Materials : Quiet(v, m) =>
            (m \in visit[v].answer
                <=> Shown(m) /\ visit[v].root \in Path(materials[m].category))

IInv ==
    /\ KeysHold
    /\ visit \in [Visitors -> Visit]
    /\ \A v \in Visitors : RootKnown(v) /\ WalkInv(v) /\ MapHolds(v) /\ AnswerHolds(v)
-----------------------------------------------------------------------------
(* The maps of the tree, and what a foreign key says of the path. *)

LEMMA MapsTyped ==
    ASSUME KeysHold
    PROVE  Children \in ChildrenMap /\ Parents \in ChildrenMap
<1>1. \A c \in Stored : categories[c] \in CategoryRow /\ categories[c].parent \in Categories \cup {Top}
  BY DEF KeysHold, Stored, CategoryRow
<1> QED
  BY <1>1 DEF Children, Parents, ChildrenMap, Stored

LEMMA PathStored ==
    ASSUME KeysHold, NEW c \in Stored
    PROVE  Path(c) \subseteq Stored
<1>1. Closed(Parents, Stored)
  BY DEF Closed, Parents, KeysHold, Stored
<1> QED
  BY <1>1, MapsTyped, BelowIsLeast DEF Path, Stored

LEMMA PathIsPath ==
    ASSUME KeysHold, NEW c \in Categories
    PROVE  Path(c) \subseteq Categories /\ c \in Path(c)
BY MapsTyped, BelowIsLeast DEF Path

(* A path none of whose categories was written is the same afterwards. *)
LEMMA PathSteady ==
    ASSUME KeysHold, KeysHold', NEW c \in Categories,
           \A k \in Path(c)' : categories'[k] = categories[k]
    PROVE  Path(c)' = Path(c)
<1>1. Parents \in ChildrenMap /\ Parents' \in ChildrenMap
  <2>1. Parents \in ChildrenMap
    BY MapsTyped
  <2>2. \A k \in Stored' : categories'[k].parent \in Categories \cup {Top}
    BY DEF KeysHold, Stored, CategoryRow
  <2>3. Parents' \in ChildrenMap
    BY <2>2 DEF Parents, ChildrenMap, Stored
  <2> QED
    BY <2>1, <2>3
<1>2. Path(c)' = Below(Parents', c) /\ Path(c) = Below(Parents, c)
  BY DEF Path, Below, Closed
<1>3. \A k \in Below(Parents', c) : Parents'[k] = Parents[k]
  <2>1. Below(Parents', c) \subseteq Categories
    BY <1>1, BelowIsLeast
  <2> QED
    BY <2>1, <1>2 DEF Parents, Stored
<1> QED
  BY <1>1, <1>2, <1>3, BelowAgrees
-----------------------------------------------------------------------------
(* What every edit keeps, whichever rows it writes. *)
LEMMA EditKeeps ==
    ASSUME IInv, KeysHold', NEW rows, rows \subseteq Categories \cup Materials, Touch(rows),
           \A c \in Categories \ rows : categories'[c] = categories[c],
           \A m \in Materials \ rows : materials'[m] = materials[m]
    PROVE  IInv'
<1>0. ASSUME NEW v \in Visitors
      PROVE  /\ visit[v] \in Visit /\ visit'[v] \in Visit
             /\ \/ visit'[v] = visit[v]
                \/ visit'[v] = [visit[v] EXCEPT !.touched = visit[v].touched \cup rows]
  <2>1. visit[v] \in Visit
    BY DEF IInv
  <2>2. \/ visit'[v] = visit[v]
        \/ visit'[v] = [visit[v] EXCEPT !.touched = visit[v].touched \cup rows]
    BY DEF Touch
  <2>3. visit[v].touched \cup rows \in SUBSET (Categories \cup Materials)
    BY <2>1 DEF Visit
  <2>4. visit'[v] \in Visit
    <3> HIDE DEF Visit
    <3>1. \A t \in SUBSET (Categories \cup Materials) :
            [visit[v] EXCEPT !.touched = t] \in Visit
      BY <2>1 DEF Visit
    <3> QED
      BY <2>1, <2>2, <2>3, <3>1
  <2> QED
    BY <2>1, <2>2, <2>4
<1>1. visit' \in [Visitors -> Visit]
  <2>1. visit' = [v \in Visitors |-> visit'[v]]
    BY DEF Touch
  <2> QED
    BY <1>0, <2>1
<1>2. ASSUME NEW v \in Visitors PROVE (RootKnown(v) /\ WalkInv(v))'
  <2>1. RootKnown(v) /\ WalkInv(v)
    BY DEF IInv
  <2>2. /\ visit'[v].pc = visit[v].pc /\ visit'[v].root = visit[v].root
        /\ visit'[v].children = visit[v].children /\ visit'[v].stack = visit[v].stack
        /\ visit'[v].seen = visit[v].seen /\ visit'[v].collected = visit[v].collected
    <3>1. CASE visit'[v] = visit[v]
      BY <3>1
    <3>2. CASE visit'[v] = [visit[v] EXCEPT !.touched = visit[v].touched \cup rows]
      BY <1>0, <3>2 DEF Visit
    <3> QED
      BY <1>0, <3>1, <3>2
  <2> QED
    BY <2>1, <2>2 DEF RootKnown, WalkInv, Below, Closed
<1>3. ASSUME NEW v \in Visitors PROVE MapHolds(v)'
  <2>1. MapHolds(v) /\ visit[v] \in Visit
    BY DEF IInv
  <2>2. ASSUME visit'[v].pc = "walk", NEW c \in Categories \ visit'[v].touched,
               NEW p \in Categories
        PROVE  c \in visit'[v].children[p] <=> p \in Parents'[c]
    <3>1. /\ visit[v].pc = "walk" /\ c \notin visit[v].touched /\ c \notin rows
          /\ visit'[v].children = visit[v].children
      BY <2>1, <2>2 DEF Touch, Visit
    <3>2. categories'[c] = categories[c]
      BY <3>1
    <3>3. Parents'[c] = Parents[c]
      BY <3>2 DEF Parents, Stored
    <3> QED
      BY <3>1, <3>3, <2>1 DEF MapHolds
  <2> QED
    BY <2>2 DEF MapHolds
<1>4. ASSUME NEW v \in Visitors PROVE AnswerHolds(v)'
  <2>1. AnswerHolds(v) /\ visit[v] \in Visit
    BY DEF IInv
  <2>2. ASSUME visit'[v].pc = "answered", NEW m \in Materials, Quiet(v, m)'
        PROVE  m \in visit'[v].answer
                 <=> Shown(m)' /\ visit'[v].root \in Path(materials[m].category)'
    <3>1. /\ visit[v].pc = "answered" /\ visit'[v].answer = visit[v].answer
          /\ visit'[v].root = visit[v].root
          /\ visit'[v].touched = visit[v].touched \cup rows
      BY <2>1, <2>2 DEF Touch, Visit
    <3>2. /\ materials'[m] = materials[m] /\ m \notin visit[v].touched
          /\ materials[m].category # Nowhere
      BY <2>2, <3>1 DEF Quiet
    <3>3. PICK home \in Categories : home = materials[m].category
      BY <3>2 DEF IInv, KeysHold, Stored
    <3>4. Path(home)' \cap visit'[v].touched = {}
      BY <2>2, <3>2, <3>3 DEF Quiet
    <3>5. Path(home)' \subseteq Categories /\ home \in Path(home)'
      <4>1. Parents' \in ChildrenMap
        <5>1. \A k \in Stored' : categories'[k].parent \in Categories \cup {Top}
          BY DEF KeysHold, Stored, CategoryRow
        <5> QED
          BY <5>1 DEF Parents, ChildrenMap, Stored
      <4>2. Path(home)' = Below(Parents', home)
        BY DEF Path, Below, Closed
      <4> QED
        BY <4>1, <4>2, BelowIsLeast
    <3>6. \A k \in Path(home)' : categories'[k] = categories[k]
      BY <3>1, <3>4, <3>5
    <3>7. Path(home)' = Path(home)
      BY <3>6, PathSteady DEF IInv
    <3>8. Quiet(v, m)
      BY <3>1, <3>2, <3>3, <3>4, <3>7 DEF Quiet
    <3>9. categories'[home] = categories[home]
      BY <3>5, <3>6
    <3>10. Shown(m)' <=> Shown(m)
      BY <3>2, <3>3, <3>9 DEF Shown, Published, Stored
    <3>11. m \in visit[v].answer <=> Shown(m) /\ visit[v].root \in Path(home)
      BY <2>1, <3>1, <3>3, <3>8 DEF AnswerHolds
    <3>12. Path(materials[m].category)' = Path(home)'
      BY <3>2, <3>3 DEF Path, Below, Closed
    <3> QED
      BY <3>1, <3>7, <3>10, <3>11, <3>12
  <2> QED
    BY <2>2 DEF AnswerHolds
<1> QED
  BY <1>1, <1>2, <1>3, <1>4 DEF IInv

LEMMA SaveCategoryKeeps ==
    ASSUME IInv, NEW c \in Categories, NEW parent, NEW b \in BOOLEAN,
           SaveCategory(c, parent, b)
    PROVE  IInv'
<1>1. /\ parent \in Stored \cup {Top} /\ Touch({c}) /\ materials' = materials
      /\ categories' = [categories EXCEPT ![c] = [parent |-> parent, is_published |-> b]]
  BY DEF SaveCategory
<1>2. [parent |-> parent, is_published |-> b] \in CategoryRow
  BY <1>1 DEF CategoryRow, Stored
<1>3. [parent |-> parent, is_published |-> b] # NoRow
  BY <1>2, CatalogAssumption DEF CategoryRow
<1>4. categories' \in [Categories -> CategoryRow \cup {NoRow}]
  BY <1>1, <1>2 DEF IInv, KeysHold
<1>5. Stored' = Stored \cup {c}
  BY <1>1, <1>3 DEF IInv, KeysHold, Stored
<1>6. ASSUME NEW k \in Stored' PROVE categories'[k].parent \in Stored' \cup {Top}
  <2>1. CASE k = c
    BY <1>1, <1>5, <2>1 DEF IInv, KeysHold
  <2>2. CASE k # c
    BY <1>1, <1>5, <2>2 DEF IInv, KeysHold, Stored
  <2> QED
    BY <2>1, <2>2
<1>7. KeysHold'
  BY <1>1, <1>4, <1>5, <1>6 DEF IInv, KeysHold
<1>8. \A k \in Categories \ {c} : categories'[k] = categories[k]
  BY <1>1 DEF IInv, KeysHold
<1> QED
  BY <1>1, <1>7, <1>8, EditKeeps

LEMMA SaveMaterialKeeps ==
    ASSUME IInv, NEW m \in Materials, NEW category, NEW b \in BOOLEAN,
           SaveMaterial(m, category, b)
    PROVE  IInv'
<1>1. /\ category \in Stored \cup {Nowhere} /\ Touch({m}) /\ categories' = categories
      /\ materials' = [materials EXCEPT ![m] = [category |-> category, is_published |-> b]]
  BY DEF SaveMaterial
<1>2. Stored' = Stored
  BY <1>1 DEF Stored
<1>3. [category |-> category, is_published |-> b] \in MaterialRow
  BY <1>1 DEF MaterialRow, Stored
<1>4. materials' \in [Materials -> MaterialRow]
  BY <1>1, <1>3 DEF IInv, KeysHold
<1>5. \A k \in Materials : materials'[k].category \in Stored \cup {Nowhere}
  BY <1>1 DEF IInv, KeysHold
<1>6. KeysHold'
  BY <1>1, <1>2, <1>4, <1>5 DEF IInv, KeysHold
<1>7. \A k \in Materials \ {m} : materials'[k] = materials[k]
  BY <1>1 DEF IInv, KeysHold
<1> QED
  BY <1>1, <1>6, <1>7, EditKeeps

LEMMA DeleteCategoryKeeps ==
    ASSUME IInv, NEW c \in Categories, DeleteCategory(c)
    PROVE  IInv'
<1> DEFINE gone == Cascade(c)
           orphans == {m \in Materials : materials[m].category \in gone}
<1>1. /\ categories' = [k \in Categories |-> IF k \in gone THEN NoRow ELSE categories[k]]
      /\ materials' = [m \in Materials |->
                          IF m \in orphans
                          THEN [materials[m] EXCEPT !.category = Nowhere]
                          ELSE materials[m]]
      /\ Touch(gone \cup orphans)
  BY DEF DeleteCategory
<1>2. gone \subseteq Categories /\ Closed(Children, gone)
  BY MapsTyped, BelowIsLeast DEF Cascade, IInv
<1>3. Stored' = Stored \ gone
  BY <1>1, <1>2 DEF Stored
<1>4. categories' \in [Categories -> CategoryRow \cup {NoRow}]
  BY <1>1 DEF IInv, KeysHold
<1>5. ASSUME NEW k \in Stored' PROVE categories'[k].parent \in Stored' \cup {Top}
  <2>1. k \in Stored /\ k \notin gone /\ categories'[k] = categories[k]
    BY <1>1, <1>3 DEF Stored
  <2>2. categories[k].parent \in Stored \cup {Top}
    BY <2>1 DEF IInv, KeysHold
  <2>3. ASSUME categories[k].parent \in gone PROVE FALSE
    <3>1. k \in Children[categories[k].parent]
      BY <1>2, <2>1, <2>3 DEF Children
    <3> QED
      BY <3>1, <1>2, <2>1, <2>3 DEF Closed
  <2> QED
    BY <2>1, <2>2, <2>3, <1>3
<1>6. ASSUME NEW m \in Materials
      PROVE  /\ materials'[m] \in MaterialRow
             /\ materials'[m].category \in Stored' \cup {Nowhere}
  <2>1. materials[m] \in MaterialRow /\ materials[m].category \in Stored \cup {Nowhere}
    BY DEF IInv, KeysHold
  <2>2. CASE m \in orphans
    BY <1>1, <2>1, <2>2 DEF MaterialRow
  <2>3. CASE m \notin orphans
    BY <1>1, <1>3, <2>1, <2>3
  <2> QED
    BY <2>2, <2>3
<1>7. materials' \in [Materials -> MaterialRow]
  BY <1>1, <1>6
<1>8. KeysHold'
  BY <1>4, <1>5, <1>6, <1>7 DEF KeysHold
<1>9. /\ \A k \in Categories \ (gone \cup orphans) : categories'[k] = categories[k]
      /\ \A m \in Materials \ (gone \cup orphans) : materials'[m] = materials[m]
  BY <1>1
<1>10. gone \cup orphans \subseteq Categories \cup Materials
  BY <1>2
<1> HIDE DEF gone, orphans
<1> QED
  BY <1>1, <1>8, <1>9, <1>10, EditKeeps
-----------------------------------------------------------------------------
(* What a step of a request keeps: the others are as they were. *)
LEMMA RequestKeeps ==
    ASSUME IInv, NEW v \in Visitors, NEW state \in Visit, Proceed(v, state),
           (RootKnown(v) /\ WalkInv(v) /\ MapHolds(v) /\ AnswerHolds(v))'
    PROVE  IInv'
<1>1. visit' = [visit EXCEPT ![v] = state] /\ UNCHANGED <<categories, materials>>
  BY DEF Proceed
<1>2. KeysHold'
  BY <1>1 DEF IInv, KeysHold, Stored
<1>3. visit' \in [Visitors -> Visit]
  BY <1>1 DEF IInv
<1>4. ASSUME NEW w \in Visitors, w # v
      PROVE  (RootKnown(w) /\ WalkInv(w) /\ MapHolds(w) /\ AnswerHolds(w))'
  <2>1. visit'[w] = visit[w]
    BY <1>1, <1>4 DEF IInv
  <2>2. RootKnown(w) /\ WalkInv(w) /\ MapHolds(w) /\ AnswerHolds(w)
    BY DEF IInv
  <2>3. (RootKnown(w) /\ WalkInv(w))'
    BY <2>1, <2>2 DEF RootKnown, WalkInv, Below, Closed
  <2>4. MapHolds(w)'
    BY <1>1, <2>1, <2>2 DEF MapHolds, Parents, Stored
  <2>5. \A m \in Materials : Quiet(w, m)' <=> Quiet(w, m)
    BY <1>1, <2>1 DEF Quiet, Path, Parents, Stored, Below, Closed
  <2>6. \A m \in Materials : /\ Shown(m)' <=> Shown(m)
                             /\ Path(materials[m].category)' = Path(materials[m].category)
    BY <1>1 DEF Shown, Published, Path, Parents, Stored, Below, Closed
  <2>7. AnswerHolds(w)'
    BY <2>1, <2>2, <2>5, <2>6 DEF AnswerHolds
  <2> QED
    BY <2>3, <2>4, <2>7
<1> QED
  BY <1>2, <1>3, <1>4 DEF IInv

LEMMA NoVisitTyped ==
    NoVisit \in Visit /\ NoVisit.touched = {} /\ NoVisit.answer = {}
BY DEF NoVisit, Visit, Empty, Zero, ChildrenMap

LEMMA OpenKeeps ==
    ASSUME IInv, NEW v \in Visitors, NEW root \in Categories, Open(v, root)
    PROVE  IInv'
<1> DEFINE pc    == IF root \in Stored THEN "tree" ELSE "answered"
           state == [NoVisit EXCEPT !.root = root, !.pc = pc]
<1>1. Proceed(v, state)
  BY DEF Open
<1>2. /\ state \in Visit /\ state.pc = pc /\ state.root = root
      /\ state.touched = {} /\ state.answer = {}
  BY NoVisitTyped DEF NoVisit, Visit
<1>3. visit'[v] = state /\ UNCHANGED <<categories, materials>>
  BY <1>1 DEF Proceed, IInv
<1> HIDE DEF state
<1>4. (RootKnown(v) /\ WalkInv(v) /\ MapHolds(v))'
  BY <1>2, <1>3 DEF RootKnown, WalkInv, MapHolds
<1>5. AnswerHolds(v)'
  <2>1. ASSUME root \notin Stored, NEW m \in Materials, materials[m].category # Nowhere
        PROVE  root \notin Path(materials[m].category)
    BY <2>1, PathStored DEF IInv, KeysHold
  <2>2. \A m \in Materials : Path(materials[m].category)' = Path(materials[m].category)
    BY <1>3 DEF Path, Parents, Stored, Below, Closed
  <2> QED
    BY <1>2, <1>3, <2>1, <2>2 DEF AnswerHolds, Quiet
<1> QED
  BY <1>1, <1>2, <1>4, <1>5, RequestKeeps

LEMMA LeaveKeeps ==
    ASSUME IInv, NEW v \in Visitors, Leave(v)
    PROVE  IInv'
<1>1. Proceed(v, NoVisit)
  BY DEF Leave
<1>2. visit'[v] = NoVisit
  BY <1>1 DEF Proceed, IInv
<1>3. (RootKnown(v) /\ WalkInv(v) /\ MapHolds(v) /\ AnswerHolds(v))'
  BY <1>2 DEF RootKnown, WalkInv, MapHolds, AnswerHolds, NoVisit
<1> QED
  BY <1>1, <1>3, NoVisitTyped, RequestKeeps

LEMMA ReadTreeKeeps ==
    ASSUME IInv, NEW v \in Visitors, ReadTree(v)
    PROVE  IInv'
<1> DEFINE state == [visit[v] EXCEPT !.pc = "walk", !.children = Children,
                                     !.stack = {visit[v].root},
                                     !.seen = {}, !.collected = Zero]
<1>1. visit[v] \in Visit /\ visit[v].pc = "tree" /\ Proceed(v, state)
  BY DEF IInv, ReadTree
<1>2. visit[v].root \in Categories /\ Children \in ChildrenMap
  BY <1>1, MapsTyped DEF IInv, RootKnown
<1>3. /\ state \in Visit /\ state.pc = "walk" /\ state.root = visit[v].root
      /\ state.children = Children /\ state.stack = {visit[v].root}
      /\ state.seen = {} /\ state.collected = Zero
  BY <1>1, <1>2 DEF Visit, Zero
<1>4. visit'[v] = state /\ UNCHANGED <<categories, materials>>
  BY <1>1 DEF Proceed, IInv
<1> HIDE DEF state
<1>5. (RootKnown(v) /\ AnswerHolds(v))'
  BY <1>2, <1>3, <1>4 DEF RootKnown, AnswerHolds
<1>6. WalkInv(v)'
  <2>1. visit[v].root \in Below(Children, visit[v].root)
    BY <1>2, BelowIsLeast
  <2>2. Below(visit'[v].children, visit'[v].root) = Below(Children, visit[v].root)
    BY <1>3, <1>4
  <2>3. Below(visit[v].children, visit[v].root)' = Below(Children, visit[v].root)
    BY <2>2 DEF Below, Closed
  <2> QED
    BY <1>3, <1>4, <2>1, <2>3 DEF WalkInv, Zero
<1>7. MapHolds(v)'
  <2>1. Parents' = Parents
    BY <1>4 DEF Parents, Stored
  <2>2. ASSUME NEW c \in Categories, NEW p \in Categories
        PROVE  c \in Children[p] <=> p \in Parents[c]
    BY CatalogAssumption DEF Children, Parents, Stored
  <2> QED
    BY <1>3, <1>4, <2>1, <2>2 DEF MapHolds
<1> QED
  BY <1>1, <1>3, <1>5, <1>6, <1>7, RequestKeeps

(* The turn of the loop is the heart of the walk: what leaves the stack is    *)
(* seen, and its children are on the stack or were seen.                      *)
LEMMA WalkKeeps ==
    ASSUME IInv, NEW v \in Visitors, Walk(v)
    PROVE  IInv'
<1>1. visit[v] \in Visit /\ visit[v].pc = "walk" /\ WalkInv(v) /\ MapHolds(v)
  BY DEF IInv, Walk
<1>2. PICK current \in visit[v].stack : Proceed(v, Turn(visit[v], current))
  BY DEF Walk
<1> DEFINE state == Turn(visit[v], current)
           subtree == Below(visit[v].children, visit[v].root)
<1>3. /\ current \in Categories /\ visit[v].children \in ChildrenMap
      /\ visit[v].children[current] \in SUBSET Categories
      /\ visit[v].root \in Categories
  BY <1>1 DEF Visit, ChildrenMap, IInv, RootKnown
<1>4. /\ state.pc = "walk" /\ state.root = visit[v].root
      /\ state.children = visit[v].children /\ state.touched = visit[v].touched
  BY <1>1 DEF Visit, Turn
<1> DEFINE Good ==
             LET reached == state.seen \cup state.stack
             IN  /\ visit[v].root \in reached
                 /\ reached \subseteq subtree
                 /\ \A c \in state.seen : visit[v].children[c] \subseteq reached
                 /\ state.collected =
                       [c \in Categories |-> IF c \in state.seen THEN 1 ELSE 0]
<1>5. /\ visit[v].root \in visit[v].seen \cup visit[v].stack
      /\ visit[v].seen \cup visit[v].stack \subseteq subtree
      /\ \A c \in visit[v].seen :
            visit[v].children[c] \subseteq visit[v].seen \cup visit[v].stack
      /\ visit[v].collected =
            [c \in Categories |-> IF c \in visit[v].seen THEN 1 ELSE 0]
  BY <1>1 DEF WalkInv
<1>6. visit[v].children[current] \subseteq subtree
  BY <1>3, <1>5, BelowIsLeast DEF Closed
<1> HIDE DEF subtree
<1>7. ASSUME current \in visit[v].seen PROVE state \in Visit /\ Good
  <2>1. state = [visit[v] EXCEPT !.stack = visit[v].stack \ {current}]
    BY <1>7 DEF Turn
  <2>2. state \in Visit /\ state.stack = visit[v].stack \ {current}
        /\ state.seen = visit[v].seen /\ state.collected = visit[v].collected
    BY <2>1, <1>1 DEF Visit
  <2> HIDE DEF state
  <2>3. Good
    BY <2>2, <1>5, <1>7
  <2> HIDE DEF Good
  <2> QED
    BY <2>2, <2>3
<1>8. ASSUME current \notin visit[v].seen PROVE state \in Visit /\ Good
  <2> DEFINE once == [visit[v].collected EXCEPT ![current] = @ + 1]
  <2>1. state = [visit[v] EXCEPT
                   !.stack = (visit[v].stack \ {current}) \cup visit[v].children[current],
                   !.seen = visit[v].seen \cup {current},
                   !.collected = once]
    BY <1>8 DEF Turn, Visit
  <2>2. once \in [Categories -> Nat]
    BY <1>1, <1>3 DEF Visit
  <2>3. once = [c \in Categories |->
                  IF c \in visit[v].seen \cup {current} THEN 1 ELSE 0]
    BY <1>3, <1>5, <1>8
  <2> HIDE DEF once
  <2>4. /\ (visit[v].stack \ {current}) \cup visit[v].children[current] \in SUBSET Categories
        /\ visit[v].seen \cup {current} \in SUBSET Categories
    BY <1>1, <1>3 DEF Visit
  <2>5. state \in Visit
        /\ state.stack = (visit[v].stack \ {current}) \cup visit[v].children[current]
        /\ state.seen = visit[v].seen \cup {current} /\ state.collected = once
    BY <2>1, <2>2, <2>4, <1>1 DEF Visit
  <2> HIDE DEF state
  <2>6. Good
    BY <2>3, <2>5, <1>5, <1>6
  <2> HIDE DEF Good
  <2> QED
    BY <2>5, <2>6
<1>9. state \in Visit /\ Good
  <2> HIDE DEF state, Good
  <2> QED
    BY <1>7, <1>8
<1>10. visit'[v] = state /\ UNCHANGED <<categories, materials>>
  BY <1>2 DEF Proceed, IInv
<1> HIDE DEF state
<1>11. (RootKnown(v) /\ AnswerHolds(v))'
  BY <1>3, <1>4, <1>10 DEF RootKnown, AnswerHolds
<1>12. MapHolds(v)'
  <2>1. Parents' = Parents
    BY <1>10 DEF Parents, Stored
  <2> QED
    BY <1>1, <1>4, <1>10, <2>1 DEF MapHolds
<1>13. WalkInv(v)'
  <2>1. Below(visit[v].children, visit[v].root)' = subtree
    BY <1>4, <1>10 DEF Below, Closed, subtree
  <2> QED
    BY <1>4, <1>9, <1>10, <2>1 DEF WalkInv
<1> QED
  BY <1>2, <1>9, <1>11, <1>12, <1>13, RequestKeeps DEF state

(* With an empty stack, what was seen is closed, hence everything below. *)
LEMMA WalkEnds ==
    ASSUME IInv, NEW v \in Visitors, visit[v].pc = "walk", visit[v].stack = {}
    PROVE  /\ visit[v].seen = Below(visit[v].children, visit[v].root)
           /\ visit[v].collected =
                 [c \in Categories |-> IF c \in visit[v].seen THEN 1 ELSE 0]
<1>1. visit[v] \in Visit /\ WalkInv(v) /\ visit[v].root \in Categories
  BY DEF IInv, RootKnown
<1>2. /\ visit[v].seen \in SUBSET Categories /\ visit[v].children \in ChildrenMap
      /\ visit[v].root \in visit[v].seen /\ Closed(visit[v].children, visit[v].seen)
      /\ visit[v].seen \subseteq Below(visit[v].children, visit[v].root)
      /\ visit[v].collected =
            [c \in Categories |-> IF c \in visit[v].seen THEN 1 ELSE 0]
  BY <1>1 DEF Visit, WalkInv, Closed
<1>3. Below(visit[v].children, visit[v].root) \subseteq visit[v].seen
  BY <1>1, <1>2, BelowIsLeast
<1>4. visit[v].seen = Below(visit[v].children, visit[v].root)
  BY <1>2, <1>3
<1> QED
  BY <1>2, <1>4

LEMMA ReadMaterialsKeeps ==
    ASSUME IInv, NEW v \in Visitors, ReadMaterials(v)
    PROVE  IInv'
<1> DEFINE answer == {m \in Materials :
                        /\ Shown(m)
                        /\ materials[m].category \in Categories
                        /\ visit[v].collected[materials[m].category] > 0}
           state  == [NoVisit EXCEPT
                        !.pc = "answered", !.root = visit[v].root,
                        !.touched = visit[v].touched, !.answer = answer]
<1>1. /\ visit[v].pc = "walk" /\ visit[v].stack = {} /\ visit[v] \in Visit
      /\ MapHolds(v) /\ visit[v].root \in Categories /\ Proceed(v, state)
  BY DEF ReadMaterials, IInv, RootKnown
<1>2. answer \in SUBSET Materials
  OBVIOUS
<1> HIDE DEF answer
<1>3. /\ state \in Visit /\ state.pc = "answered" /\ state.root = visit[v].root
      /\ state.touched = visit[v].touched /\ state.answer = answer
  BY <1>1, <1>2, NoVisitTyped DEF Visit
<1>4. visit'[v] = state /\ UNCHANGED <<categories, materials>>
  BY <1>1 DEF Proceed, IInv
<1> HIDE DEF state
<1>5. (RootKnown(v) /\ WalkInv(v) /\ MapHolds(v))'
  BY <1>1, <1>3, <1>4 DEF RootKnown, WalkInv, MapHolds
<1>6. ASSUME NEW m \in Materials, Quiet(v, m)
      PROVE  m \in answer <=> Shown(m) /\ visit[v].root \in Path(materials[m].category)
  <2>1. PICK home \in Categories : home = materials[m].category
    BY <1>6 DEF Quiet, IInv, KeysHold, Stored
  <2>2. Path(home) \subseteq Categories /\ Path(home) \cap visit[v].touched = {}
    BY <1>6, <2>1, PathIsPath DEF Quiet, IInv
  <2>3. \A c \in Path(home), p \in Categories :
          c \in visit[v].children[p] <=> p \in Parents[c]
    BY <1>1, <2>2 DEF MapHolds
  <2>4. visit[v].children \in ChildrenMap /\ Parents \in ChildrenMap
    BY <1>1, MapsTyped DEF Visit, IInv
  <2>5. home \in Below(visit[v].children, visit[v].root) <=> visit[v].root \in Path(home)
    BY <1>1, <2>3, <2>4, BelowIsAbove DEF Path
  <2>6. visit[v].collected[home] > 0
          <=> home \in Below(visit[v].children, visit[v].root)
    <3>1. visit[v].seen = Below(visit[v].children, visit[v].root)
      BY <1>1, WalkEnds
    <3>2. visit[v].collected = [c \in Categories |-> IF c \in visit[v].seen THEN 1 ELSE 0]
      BY <1>1, WalkEnds
    <3>3. visit[v].collected[home] = IF home \in visit[v].seen THEN 1 ELSE 0
      BY <3>2
    <3> QED
      BY <3>1, <3>3
  <2> QED
    BY <2>1, <2>5, <2>6 DEF answer
<1>7. AnswerHolds(v)'
  <2>1. ASSUME NEW m \in Materials, Quiet(v, m)'
        PROVE  m \in visit'[v].answer
                 <=> Shown(m)' /\ visit'[v].root \in Path(materials[m].category)'
    <3>1. visit'[v].answer = answer /\ visit'[v].root = visit[v].root
          /\ visit'[v].touched = visit[v].touched
      BY <1>3, <1>4
    <3>2. /\ Path(materials[m].category)' = Path(materials[m].category)
          /\ Shown(m)' <=> Shown(m)
      BY <1>4 DEF Path, Parents, Stored, Below, Closed, Shown, Published
    <3>3. Quiet(v, m)
      BY <2>1, <1>4, <3>1, <3>2 DEF Quiet
    <3>4. m \in answer <=> Shown(m) /\ visit[v].root \in Path(materials[m].category)
      BY <1>6, <3>3
    <3> QED
      BY <3>1, <3>4, <3>2
  <2> QED
    BY <2>1 DEF AnswerHolds
<1> QED
  BY <1>1, <1>3, <1>5, <1>7, RequestKeeps DEF state
-----------------------------------------------------------------------------
(* The theorems about the walk. *)

LEMMA InitIInv == Init => IInv
<1> SUFFICES ASSUME Init PROVE IInv
  OBVIOUS
<1>1. \A c \in Categories : [parent |-> Tree[c], is_published |-> TRUE] \in CategoryRow
  BY CatalogAssumption DEF CategoryRow
<1>2. \A c \in Categories : [parent |-> Tree[c], is_published |-> TRUE] # NoRow
  BY <1>1, CatalogAssumption DEF CategoryRow
<1>3. Stored = Categories
  BY <1>2 DEF Init, Stored
<1>4. KeysHold
  BY <1>1, <1>3, CatalogAssumption DEF Init, KeysHold, MaterialRow
<1>5. visit \in [Visitors -> Visit]
  BY NoVisitTyped DEF Init
<1>6. \A v \in Visitors : visit[v].pc = "idle"
  BY DEF Init, NoVisit
<1> QED
  BY <1>4, <1>5, <1>6 DEF IInv, RootKnown, WalkInv, MapHolds, AnswerHolds

LEMMA NextIInv == IInv /\ [Next]_vars => IInv'
<1> SUFFICES ASSUME IInv, [Next]_vars PROVE IInv'
  OBVIOUS
<1>1. CASE Edit
  <2>1. ASSUME NEW c \in Categories, NEW parent, NEW b \in BOOLEAN,
               SaveCategory(c, parent, b)
        PROVE  IInv'
    BY <2>1, SaveCategoryKeeps
  <2>2. ASSUME NEW m \in Materials, NEW category, NEW b \in BOOLEAN,
               SaveMaterial(m, category, b)
        PROVE  IInv'
    BY <2>2, SaveMaterialKeeps
  <2>3. \A c \in Stored : c \in Categories /\ categories[c].is_published \in BOOLEAN
    BY DEF IInv, KeysHold, Stored, CategoryRow
  <2>4. \A m \in Materials : materials[m].is_published \in BOOLEAN
    BY DEF IInv, KeysHold, MaterialRow
  <2> QED
    BY <1>1, <2>1, <2>2, <2>3, <2>4, DeleteCategoryKeeps DEF Edit
<1>2. ASSUME NEW v \in Visitors, (\E root \in Categories : Open(v, root)) \/ Leave(v)
      PROVE  IInv'
  BY <1>2, OpenKeeps, LeaveKeeps
<1>3. ASSUME NEW v \in Visitors, Visiting(v) PROVE IInv'
  BY <1>3, ReadTreeKeeps, WalkKeeps, ReadMaterialsKeeps DEF Visiting
<1>4. ASSUME UNCHANGED <<categories, materials, visit>> PROVE IInv'
  <2>1. KeysHold'
    BY <1>4 DEF IInv, KeysHold, Stored
  <2>2. ASSUME NEW v \in Visitors
        PROVE  (RootKnown(v) /\ WalkInv(v) /\ MapHolds(v) /\ AnswerHolds(v))'
    <3>1. RootKnown(v) /\ WalkInv(v) /\ MapHolds(v) /\ AnswerHolds(v)
      BY DEF IInv
    <3>2. (RootKnown(v) /\ WalkInv(v))'
      BY <1>4, <3>1 DEF RootKnown, WalkInv, Below, Closed
    <3>3. MapHolds(v)'
      BY <1>4, <3>1 DEF MapHolds, Parents, Stored
    <3>4. AnswerHolds(v)'
      <4>1. Parents' = Parents
        BY <1>4 DEF Parents, Stored
      <4>2. Stored' = Stored /\ (\A c : Path(c)' = Path(c))
        BY <1>4, <4>1 DEF Stored, Path, Below, Closed
      <4>3. \A m \in Materials : Shown(m)' = Shown(m)
        BY <1>4, <4>2 DEF Shown, Published, Stored
      <4>4. \A m : Quiet(v, m)' = Quiet(v, m)
        BY <1>4, <4>2 DEF Quiet
      <4> QED
        BY <1>4, <3>1, <4>2, <4>3, <4>4 DEF AnswerHolds
    <3> QED
      BY <3>2, <3>3, <3>4
  <2> QED
    BY <1>4, <2>1, <2>2 DEF IInv
<1>5. ASSUME NEW l \in Listers,
             CountDirect(l) \/ Answering(l) \/ LeaveList(l)
      PROVE  UNCHANGED <<categories, materials, visit>>
  BY <1>5 DEF CountDirect, Answering, ReadChildren, ListCategories, Climb, LeaveList, Continue
<1> QED
  BY <1>1, <1>2, <1>3, <1>4, <1>5 DEF Next, vars

LEMMA SpecIInv == Spec => []IInv
BY InitIInv, NextIInv, PTL DEF Spec

(* However the staff edit, in circles too, no row points to one that is gone. *)
THEOREM KeysAlwaysHold == Spec => []KeysHold
<1>1. IInv => KeysHold
  BY DEF IInv
<1> QED
  BY <1>1, SpecIInv, PTL

(* For a tree of any size and shape, circles included, a finished walk has    *)
(* collected exactly the categories below its root, each once (subtree_ids).  *)
THEOREM AlwaysCollectsSubtree == Spec => []CollectsSubtree
<1>1. ASSUME IInv, NEW v \in Visitors, visit[v].pc = "walk", visit[v].stack = {}
      PROVE  LET subtree == Below(visit[v].children, visit[v].root)
             IN  visit[v].collected = [c \in Categories |-> IF c \in subtree THEN 1 ELSE 0]
  <2>1. visit[v].seen = Below(visit[v].children, visit[v].root)
    BY <1>1, WalkEnds
  <2>2. visit[v].collected = [c \in Categories |-> IF c \in visit[v].seen THEN 1 ELSE 0]
    BY <1>1, WalkEnds
  <2> QED
    BY <2>1, <2>2
<1>2. IInv => CollectsSubtree
  BY <1>1 DEF CollectsSubtree
<1> QED
  BY <1>2, SpecIInv, PTL

(* For any number of edits between the queries of a request, a material that  *)
(* none of them touched is listed exactly if it is shown and below the        *)
(* category asked for (filter_category).                                      *)
THEOREM StandingMaterialsAlwaysListed == Spec => []StandingMaterialsListed
<1>1. IInv => StandingMaterialsListed
  BY DEF IInv, AnswerHolds, Quiet, StandingMaterialsListed
<1> QED
  BY <1>1, SpecIInv, PTL
-----------------------------------------------------------------------------
(* The counts.  What the list adds up over the tree is what the other request *)
(* filters, as long as neither was overtaken by an edit.                      *)

ShownBelow(root) ==
    {m \in Materials : Shown(m) /\ materials[m].category \in Below(Children, root)}

CountsNow ==
    [c \in Categories |->
        IF c \in Published THEN Cardinality(ShownBelow(c)) ELSE NoRow]

(* A list that no edit has overtaken holds what the tables hold now. *)
ListHolds(l) ==
    listing[l].touched = {} =>
        /\ listing[l].pc \in {"tree", "rows"} => listing[l].direct = Direct
        /\ listing[l].pc = "rows" => listing[l].children = Children
        /\ listing[l].pc \in {"paths", "answered"} => listing[l].counts = CountsNow

(* A key that a list still has to look up is stored, or was when the request  *)
(* began.                                                                     *)
Remains(waiting, known) ==
    \A c \in Categories : waiting[c] \in Categories => waiting[c] \in known

PathsHold(l) ==
    /\ listing[l].pc = "paths" =>
          /\ Remains(listing[l].waiting, Stored \cup listing[l].touched)
          /\ listing[l].above \in Categories \cap (Stored \cup listing[l].touched)
          /\ listing[l].steps < MaxPath
    /\ listing[l].pc = "failed" => listing[l].above \in listing[l].touched

(* An answer that no edit has overtaken is the one a query would give now. *)
AnswerCurrent(v) ==
    /\ visit[v].pc = "answered" /\ visit[v].touched = {} /\ visit[v].root \in Stored
    => visit[v].answer = ShownBelow(visit[v].root)

Counted ==
    /\ listing \in [Listers -> Listing]
    /\ edits \in 0 .. MaxEdits
    /\ \A v \in Visitors : AnswerCurrent(v)
    /\ \A l \in Listers : ListHolds(l) /\ PathsHold(l)

(* The sum of the code is the total of the library of sums. *)
LEMMA DirectSum ==
    ASSUME NEW direct, NEW S, IsFiniteSet(S)
    PROVE  MapThenSumSet(LAMBDA k : direct[k], S) = Total(direct, S)
<1> DEFINE first(s) == CHOOSE x \in s : TRUE
           Solves(g) == g = [s \in SUBSET S |->
                               IF s = {} THEN 0
                               ELSE direct[first(s)] + g[s \ {first(s)}]]
           iter == CHOOSE g : Solves(g)
<1>1. ASSUME NEW g PROVE Solves(g) <=> SumEquation(g, direct, S)
  BY DEF SumEquation
<1>2. \E g : SumEquation(g, direct, S)
  BY SumExists
<1>3. SumEquation(iter, direct, S)
  <2> HIDE DEF Solves
  <2> QED
    BY <1>1, <1>2
<1>4. iter[S] = Total(direct, S)
  <2> HIDE DEF iter
  <2> QED
    BY <1>3, TotalSolves
<1>5. MapThenSumSet(LAMBDA k : direct[k], S) = iter[S]
  BY DEF MapThenSumSet, MapThenFoldSet
<1> QED
  BY <1>4, <1>5

LEMMA DirectTyped == Direct \in [Categories -> Nat]
<1>1. ASSUME NEW c \in Categories
      PROVE  Cardinality({m \in Materials : /\ materials[m].category = c
                                            /\ materials[m].is_published}) \in Nat
  BY CatalogAssumption, FS_Subset, FS_CardinalityType
<1> QED
  BY <1>1 DEF Direct

(* A category that is not published holds nothing that is shown, so the total *)
(* of the direct counts is the size of the filtered table.                    *)
LEMMA DirectAddsUp ==
    ASSUME KeysHold, NEW S \in SUBSET Categories
    PROVE  Total(Direct, S)
             = Cardinality({m \in Materials : Shown(m) /\ materials[m].category \in S})
<1> DEFINE D == {m \in Materials : Shown(m)}
           home == [m \in Materials |-> materials[m].category]
<1>1. IsFiniteSet(D) /\ IsFiniteSet(S)
  BY CatalogAssumption, FS_Subset
<1>2. ASSUME NEW k \in S
      PROVE  Direct[k] = Cardinality(InClass(D, home, {k}))
  <2>1. k \in Categories /\ k # Nowhere
    BY CatalogAssumption
  <2>2. CASE k \in Published
    <3>1. InClass(D, home, {k})
            = {m \in Materials : materials[m].category = k /\ materials[m].is_published}
      BY <2>2 DEF Shown, InClass
    <3>2. Direct[k] = Cardinality({m \in Materials : /\ materials[m].category = k
                                                     /\ materials[m].is_published})
      BY <2>1, <2>2 DEF Direct
    <3> QED
      BY <3>1, <3>2, Zenon
  <2>3. CASE k \notin Published
    <3>1. InClass(D, home, {k}) = {}
      BY <2>1, <2>3 DEF Shown, InClass
    <3>2. Cardinality(InClass(D, home, {k})) = 0
      BY <3>1, FS_EmptySet, Zenon
    <3>3. Direct[k] = 0
      BY <2>1, <2>3 DEF Direct
    <3> QED
      BY <3>2, <3>3
  <2> QED
    BY <2>2, <2>3
<1>3. Total(Direct, S) = Cardinality(InClass(D, home, S))
  <2> HIDE DEF D, home
  <2> QED
    BY <1>1, <1>2, TotalOfClasses
<1>4. InClass(D, home, S)
        = {m \in Materials : Shown(m) /\ materials[m].category \in S}
  BY DEF InClass
<1> QED
  BY <1>3, <1>4, Zenon

(* While the tables stand still, so does everything read from them. *)
LEMMA TablesStand ==
    ASSUME UNCHANGED <<categories, materials>>
    PROVE  /\ Stored' = Stored /\ Published' = Published
           /\ Children' = Children /\ Direct' = Direct /\ CountsNow' = CountsNow
           /\ \A c : ShownBelow(c)' = ShownBelow(c)
<1>1. Stored' = Stored /\ Published' = Published
  BY DEF Stored, Published
<1>2. Children' = Children
  BY <1>1 DEF Children
<1>3. Direct' = Direct
  BY <1>1 DEF Direct
<1>4. \A m \in Materials : Shown(m)' <=> Shown(m)
  BY <1>1 DEF Shown
<1>5. \A c : ShownBelow(c)' = ShownBelow(c)
  BY <1>2, <1>4 DEF ShownBelow, Below, Closed
<1>6. CountsNow' = CountsNow
  BY <1>1, <1>5 DEF CountsNow
<1> QED
  BY <1>1, <1>2, <1>3, <1>5, <1>6

(* Every edit writes a row, hence overtakes every request under way, and      *)
(* deletes none that it does not write.                                       *)
Writes(rows) == rows # {} /\ Touch(rows) /\ Stored \subseteq Stored' \cup rows

LEMMA EditTouches ==
    ASSUME KeysHold, Edit
    PROVE  \E rows \in SUBSET (Categories \cup Materials) : Writes(rows)
<1>1. ASSUME NEW c \in Categories, NEW parent, NEW b, SaveCategory(c, parent, b)
      PROVE  \E rows \in SUBSET (Categories \cup Materials) : Writes(rows)
  <2>1. Touch({c}) /\ Stored \subseteq Stored' \cup {c}
    BY <1>1 DEF SaveCategory, Stored, KeysHold
  <2>2. {c} \in SUBSET (Categories \cup Materials) /\ {c} # {}
    OBVIOUS
  <2> QED
    BY <2>1, <2>2 DEF Writes
<1>2. ASSUME NEW m \in Materials, NEW category, NEW b, SaveMaterial(m, category, b)
      PROVE  \E rows \in SUBSET (Categories \cup Materials) : Writes(rows)
  <2>1. Touch({m}) /\ Stored' = Stored
    BY <1>2 DEF SaveMaterial, Stored
  <2>2. {m} \in SUBSET (Categories \cup Materials) /\ {m} # {}
    OBVIOUS
  <2> QED
    BY <2>1, <2>2 DEF Writes
<1>3. ASSUME NEW c \in Categories, DeleteCategory(c)
      PROVE  \E rows \in SUBSET (Categories \cup Materials) : Writes(rows)
  <2> DEFINE gone == Cascade(c)
             orphans == {m \in Materials : materials[m].category \in gone}
  <2>1. /\ Touch(gone \cup orphans)
        /\ categories' = [k \in Categories |-> IF k \in gone THEN NoRow ELSE categories[k]]
    BY <1>3 DEF DeleteCategory
  <2>2. c \in gone /\ gone \subseteq Categories
    BY MapsTyped, BelowIsLeast DEF Cascade
  <2>3. gone \cup orphans \in SUBSET (Categories \cup Materials) /\ gone \cup orphans # {}
    BY <2>2
  <2> HIDE DEF gone, orphans
  <2>4. Stored \subseteq Stored' \cup (gone \cup orphans)
    BY <2>1 DEF Stored
  <2> QED
    BY <2>1, <2>3, <2>4 DEF Writes
<1>4. Stored \subseteq Categories
  BY DEF Stored
<1> QED
  BY <1>1, <1>2, <1>3, <1>4 DEF Edit

LEMMA EditCounted ==
    ASSUME IInv, IInv', Counted, NEW rows \in SUBSET (Categories \cup Materials),
           Writes(rows)
    PROVE  Counted'
<1> USE DEF Writes
<1>1. edits' \in 0 .. MaxEdits
  BY CatalogAssumption DEF Touch, Counted
<1>2. ASSUME NEW l \in Listers
      PROVE  listing'[l] \in Listing /\ ListHolds(l)' /\ PathsHold(l)'
  <2>1. listing[l] \in Listing /\ PathsHold(l)
    BY DEF Counted
  <2>2. CASE listing[l].pc = "idle"
    <3>1. listing'[l] = listing[l]
      BY <2>2 DEF Touch
    <3> QED
      BY <2>1, <2>2, <3>1 DEF ListHolds, PathsHold
  <2>3. CASE listing[l].pc # "idle"
    <3> DEFINE t == listing[l].touched \cup rows
    <3>1. listing'[l] = [listing[l] EXCEPT !.touched = t]
      BY <2>3 DEF Touch
    <3>2. t \in SUBSET (Categories \cup Materials) /\ t # {}
      BY <2>1 DEF Listing
    <3>3. Stored \cup listing[l].touched \subseteq Stored' \cup t
      OBVIOUS
    <3>4. listing[l].touched \subseteq t
      OBVIOUS
    <3> HIDE DEF t
    <3>5. /\ listing'[l] \in Listing /\ listing'[l].touched = t
          /\ listing'[l].pc = listing[l].pc /\ listing'[l].waiting = listing[l].waiting
          /\ listing'[l].above = listing[l].above /\ listing'[l].steps = listing[l].steps
      BY <2>1, <3>1, <3>2 DEF Listing
    <3>6. PathsHold(l)'
      BY <2>1, <3>3, <3>4, <3>5 DEF PathsHold, Remains
    <3> QED
      BY <3>2, <3>5, <3>6 DEF ListHolds
  <2> QED
    BY <2>2, <2>3
<1>3. listing' \in [Listers -> Listing]
  <2>1. listing' = [l \in Listers |-> listing'[l]]
    BY DEF Touch
  <2> QED
    BY <1>2, <2>1
<1>4. ASSUME NEW v \in Visitors PROVE AnswerCurrent(v)'
  <2>1. visit[v] \in Visit
    BY DEF IInv
  <2>2. CASE visit[v].pc = "idle"
    <3>1. visit'[v] = visit[v]
      BY <2>2 DEF Touch
    <3> QED
      BY <2>2, <3>1 DEF AnswerCurrent
  <2>3. CASE visit[v].pc # "idle"
    <3>1. visit'[v].touched = visit[v].touched \cup rows
      BY <2>1, <2>3 DEF Touch, Visit
    <3> QED
      BY <3>1 DEF AnswerCurrent
  <2> QED
    BY <2>2, <2>3
<1> QED
  BY <1>1, <1>2, <1>3, <1>4 DEF Counted

(* A step of one visitor leaves the lists and the other visitors alone. *)
LEMMA VisitCounted ==
    ASSUME IInv, Counted, NEW v \in Visitors, NEW state, Proceed(v, state),
           AnswerCurrent(v)'
    PROVE  Counted'
<1>1. /\ visit' = [visit EXCEPT ![v] = state] /\ UNCHANGED <<listing, edits>>
      /\ UNCHANGED <<categories, materials>>
  BY DEF Proceed
<1>2. /\ Stored' = Stored /\ Children' = Children /\ Direct' = Direct
      /\ CountsNow' = CountsNow /\ \A c : ShownBelow(c)' = ShownBelow(c)
  BY <1>1, TablesStand
<1>3. ASSUME NEW w \in Visitors, w # v PROVE AnswerCurrent(w)'
  <2>1. visit'[w] = visit[w]
    BY <1>1, <1>3 DEF IInv
  <2>2. ShownBelow(visit[w].root)' = ShownBelow(visit[w].root)
    BY <1>1, <2>1, <1>2 DEF ShownBelow, Below, Closed, Shown, Published
  <2> QED
    BY <1>2, <2>1, <2>2 DEF AnswerCurrent, Counted
<1>4. ASSUME NEW l \in Listers PROVE ListHolds(l)' /\ PathsHold(l)'
  BY <1>1, <1>2 DEF ListHolds, PathsHold, Counted
<1> QED
  BY <1>1, <1>3, <1>4 DEF Counted

LEMMA ReadMaterialsCounted ==
    ASSUME IInv, Counted, NEW v \in Visitors, ReadMaterials(v)
    PROVE  Counted'
<1> DEFINE answer == {m \in Materials :
                        /\ Shown(m)
                        /\ materials[m].category \in Categories
                        /\ visit[v].collected[materials[m].category] > 0}
           state  == [NoVisit EXCEPT
                        !.pc = "answered", !.root = visit[v].root,
                        !.touched = visit[v].touched, !.answer = answer]
<1>1. /\ visit[v].pc = "walk" /\ visit[v].stack = {} /\ visit[v] \in Visit
      /\ MapHolds(v) /\ visit[v].root \in Categories /\ Proceed(v, state)
  BY DEF ReadMaterials, IInv, RootKnown
<1>2. state.root = visit[v].root /\ state.touched = visit[v].touched
      /\ state.answer = answer
  BY DEF NoVisit
<1>3. visit'[v] = state /\ UNCHANGED <<categories, materials>>
  BY <1>1 DEF Proceed, IInv
<1>4. ASSUME visit[v].touched = {} PROVE answer = ShownBelow(visit[v].root)
  <2>1. visit[v].children = Children
    <3>1. visit[v].children \in ChildrenMap /\ Children \in ChildrenMap
      BY <1>1, MapsTyped DEF Visit, IInv
    <3>2. ASSUME NEW c \in Categories, NEW p \in Categories
          PROVE  c \in visit[v].children[p] <=> c \in Children[p]
      <4>1. c \in visit[v].children[p] <=> p \in Parents[c]
        BY <1>1, <1>4 DEF MapHolds
      <4>2. c \in Children[p] <=> p \in Parents[c]
        BY CatalogAssumption DEF Children, Parents, Stored
      <4> QED
        BY <4>1, <4>2
    <3>3. ASSUME NEW p \in Categories PROVE visit[v].children[p] = Children[p]
      <4>1. visit[v].children[p] \subseteq Categories /\ Children[p] \subseteq Categories
        BY <3>1 DEF ChildrenMap
      <4> QED
        BY <3>2, <4>1
    <3> QED
      BY <3>1, <3>3 DEF ChildrenMap
  <2>2. \A c \in Categories : visit[v].collected[c] > 0
                                <=> c \in Below(Children, visit[v].root)
    <3>1. visit[v].seen = Below(Children, visit[v].root)
      BY <1>1, <2>1, WalkEnds
    <3>2. visit[v].collected = [c \in Categories |-> IF c \in visit[v].seen THEN 1 ELSE 0]
      BY <1>1, WalkEnds
    <3>3. \A c \in Categories :
             visit[v].collected[c] = IF c \in visit[v].seen THEN 1 ELSE 0
      BY <3>2
    <3> QED
      BY <3>1, <3>3
  <2>3. Below(Children, visit[v].root) \subseteq Categories
    BY DEF Below
  <2> QED
    BY <2>2, <2>3 DEF ShownBelow
<1> HIDE DEF answer, state
<1>5. AnswerCurrent(v)'
  <2>1. ShownBelow(visit[v].root)' = ShownBelow(visit[v].root)
    BY <1>2, <1>3 DEF ShownBelow, Below, Closed, Shown, Published, Children, Stored
  <2> QED
    BY <1>2, <1>3, <1>4, <2>1 DEF AnswerCurrent
<1> QED
  BY <1>1, <1>5, VisitCounted

LEMMA VisitorCounted ==
    ASSUME IInv, Counted, NEW v \in Visitors,
           \/ \E root \in Categories : Open(v, root)
           \/ Visiting(v)
           \/ Leave(v)
    PROVE  Counted'
<1>1. ASSUME NEW root \in Categories, Open(v, root) PROVE Counted'
  <2> DEFINE pc    == IF root \in Stored THEN "tree" ELSE "answered"
             state == [NoVisit EXCEPT !.root = root, !.pc = pc]
  <2>1. Proceed(v, state)
    BY <1>1 DEF Open
  <2>2. visit'[v] = state /\ UNCHANGED <<categories, materials>>
    BY <2>1 DEF Proceed, IInv
  <2>3. state.pc = pc /\ state.root = root
    BY DEF NoVisit
  <2>4. AnswerCurrent(v)'
    BY <2>2, <2>3, TablesStand DEF AnswerCurrent
  <2> QED
    BY <2>1, <2>4, VisitCounted
<1>2. ASSUME ReadTree(v) PROVE Counted'
  <2> DEFINE state == [visit[v] EXCEPT !.pc = "walk", !.children = Children,
                                       !.stack = {visit[v].root},
                                       !.seen = {}, !.collected = Zero]
  <2>1. Proceed(v, state)
    BY <1>2 DEF ReadTree
  <2>2. visit'[v] = state /\ visit[v] \in Visit
    BY <2>1 DEF Proceed, IInv
  <2>3. state.pc = "walk"
    BY <2>2 DEF Visit
  <2>4. AnswerCurrent(v)'
    BY <2>2, <2>3 DEF AnswerCurrent
  <2> QED
    BY <2>1, <2>4, VisitCounted
<1>3. ASSUME Walk(v) PROVE Counted'
  <2>1. PICK current \in visit[v].stack : Proceed(v, Turn(visit[v], current))
    BY <1>3 DEF Walk
  <2> DEFINE state == Turn(visit[v], current)
  <2>2. visit'[v] = state /\ visit[v] \in Visit /\ visit[v].pc = "walk"
    BY <1>3, <2>1 DEF Proceed, IInv, Walk
  <2>3. state.pc = "walk"
    BY <2>2 DEF Visit, Turn
  <2>4. AnswerCurrent(v)'
    BY <2>2, <2>3 DEF AnswerCurrent
  <2> QED
    BY <2>1, <2>4, VisitCounted
<1>4. ASSUME Leave(v) PROVE Counted'
  <2>1. Proceed(v, NoVisit)
    BY <1>4 DEF Leave
  <2>2. visit'[v] = NoVisit
    BY <2>1 DEF Proceed, IInv
  <2>3. AnswerCurrent(v)'
    BY <2>2 DEF AnswerCurrent, NoVisit
  <2> QED
    BY <2>1, <2>3, VisitCounted
<1> QED
  BY <1>1, <1>2, <1>3, <1>4, ReadMaterialsCounted DEF Visiting

(* A step of one list leaves the visitors and the other lists alone. *)
LEMMA ListCounted ==
    ASSUME Counted, NEW l \in Listers, NEW state \in Listing, Continue(l, state),
           ListHolds(l)', PathsHold(l)'
    PROVE  Counted'
<1>1. /\ listing' = [listing EXCEPT ![l] = state] /\ UNCHANGED <<visit, edits>>
      /\ UNCHANGED <<categories, materials>>
  BY DEF Continue
<1>2. /\ Stored' = Stored /\ Children' = Children /\ Direct' = Direct
      /\ CountsNow' = CountsNow
  BY <1>1, TablesStand
<1>3. listing' \in [Listers -> Listing]
  BY <1>1 DEF Counted
<1>4. ASSUME NEW k \in Listers, k # l PROVE ListHolds(k)' /\ PathsHold(k)'
  <2>1. listing'[k] = listing[k] /\ ListHolds(k) /\ PathsHold(k)
    BY <1>1, <1>4 DEF Counted
  <2> QED
    BY <1>2, <2>1 DEF ListHolds, PathsHold
<1>5. ASSUME NEW v \in Visitors PROVE AnswerCurrent(v)'
  <2>1. ShownBelow(visit[v].root)' = ShownBelow(visit[v].root)
    BY <1>1 DEF ShownBelow, Below, Closed, Shown, Published, Children, Stored
  <2>2. AnswerCurrent(v)
    BY DEF Counted
  <2> QED
    BY <1>1, <1>2, <2>1, <2>2 DEF AnswerCurrent
<1> QED
  BY <1>1, <1>3, <1>4, <1>5 DEF Counted

LEMMA NoListingTyped ==
    /\ NoListing \in Listing /\ NoListing.pc = "idle" /\ NoListing.touched = {}
    /\ NoListing.above = Top /\ NoListing.steps = 0
BY CatalogAssumption DEF NoListing, Listing, Empty, Zero, ChildrenMap

LEMMA CountDirectCounted ==
    ASSUME IInv, Counted, NEW l \in Listers, CountDirect(l)
    PROVE  Counted'
<1> DEFINE state == [listing[l] EXCEPT !.pc = "tree", !.direct = Direct]
<1>1. Continue(l, state) /\ listing[l] \in Listing
  BY DEF CountDirect, Counted
<1>2. state \in Listing /\ state.pc = "tree" /\ state.direct = Direct
  BY <1>1, DirectTyped DEF Listing
<1>3. listing'[l] = state /\ UNCHANGED <<categories, materials>>
  BY <1>1 DEF Continue, Counted
<1> HIDE DEF state
<1>4. ListHolds(l)' /\ PathsHold(l)'
  BY <1>2, <1>3, TablesStand DEF ListHolds, PathsHold
<1> QED
  BY <1>1, <1>2, <1>4, ListCounted

LEMMA ReadChildrenCounted ==
    ASSUME IInv, Counted, NEW l \in Listers, ReadChildren(l)
    PROVE  Counted'
<1> DEFINE state == [listing[l] EXCEPT !.pc = "rows", !.children = Children]
<1>1. /\ Continue(l, state) /\ listing[l] \in Listing /\ ListHolds(l)
      /\ listing[l].pc = "tree"
  BY DEF ReadChildren, Counted
<1>2. /\ state \in Listing /\ state.pc = "rows" /\ state.children = Children
      /\ state.direct = listing[l].direct /\ state.touched = listing[l].touched
  BY <1>1, MapsTyped DEF Listing, IInv
<1>3. listing'[l] = state /\ UNCHANGED <<categories, materials>>
  BY <1>1 DEF Continue, Counted
<1> HIDE DEF state
<1>4. ListHolds(l)' /\ PathsHold(l)'
  BY <1>1, <1>2, <1>3, TablesStand DEF ListHolds, PathsHold
<1> QED
  BY <1>1, <1>2, <1>4, ListCounted

(* Between two paths a list turns to the next category of those it knows.     *)
LEMMA OnwardHolds ==
    ASSUME NEW state \in Listing, NEW known, state.pc = "paths",
           Remains(state.waiting, known), state.above \in Categories => state.above \in known
    PROVE  /\ Onward(state) \in Listing
           /\ Onward(state).touched = state.touched /\ Onward(state).counts = state.counts
           /\ Onward(state).pc \in {"paths", "answered"}
           /\ Onward(state).pc = "paths" =>
                 /\ Remains(Onward(state).waiting, known)
                 /\ Onward(state).above \in Categories \cap known
                 /\ Onward(state).steps < MaxPath
<1> DEFINE left == {c \in Categories : state.waiting[c] \in Categories}
           next == CHOOSE c \in left : TRUE
           last == [state EXCEPT !.pc = "answered", !.above = Top, !.steps = 0]
           more == [state EXCEPT !.above = state.waiting[next], !.steps = 0,
                                 !.waiting[next] = NoRow]
<1>1. /\ state.waiting \in [Categories -> Categories \cup {Top, NoRow}]
      /\ state.above \in Categories \cup {Top} /\ state.steps \in 0 .. MaxPath
  BY DEF Listing
<1> DEFINE Steps == 0 .. MaxPath
<1>0. 0 \in Steps
  BY CatalogAssumption
<1>2. CASE ~ AtTop(state)
  <2>1. Onward(state) = state
    BY <1>2 DEF Onward
  <2> QED
    BY <1>1, <1>2, <2>1, CatalogAssumption DEF AtTop
<1>3. CASE AtTop(state) /\ left = {}
  <2>1. Onward(state) = last
    BY <1>3 DEF Onward
  <2>2. /\ last \in Listing /\ last.pc = "answered"
        /\ last.touched = state.touched /\ last.counts = state.counts
    <3> HIDE DEF Steps
    <3> QED
      BY <1>0 DEF Listing, Steps
  <2> HIDE DEF last
  <2> QED
    BY <2>1, <2>2
<1>4. CASE AtTop(state) /\ left # {}
  <2>1. Onward(state) = more
    BY <1>4 DEF Onward
  <2>2. next \in Categories /\ state.waiting[next] \in Categories
    BY <1>4
  <2> DEFINE rest == [state.waiting EXCEPT ![next] = NoRow]
  <2>3. rest \in [Categories -> Categories \cup {Top, NoRow}] /\ Remains(rest, known)
    <3> HIDE DEF next, left
    <3> QED
      BY <1>1, <2>2, CatalogAssumption DEF Remains
  <2>4. more = [state EXCEPT !.above = state.waiting[next], !.steps = 0, !.waiting = rest]
    BY DEF Listing
  <2> HIDE DEF rest, next, left, more
  <2>5. /\ more \in Listing /\ more.pc = "paths" /\ more.waiting = rest
        /\ more.above = state.waiting[next] /\ more.steps = 0
        /\ more.touched = state.touched /\ more.counts = state.counts
    BY <1>0, <2>2, <2>3, <2>4 DEF Listing
  <2> QED
    BY <2>1, <2>2, <2>3, <2>5, CatalogAssumption DEF Remains
<1> QED
  BY <1>2, <1>3, <1>4

LEMMA ListCategoriesCounted ==
    ASSUME IInv, Counted, NEW l \in Listers, ListCategories(l)
    PROVE  Counted'
<1> DEFINE direct == listing[l].direct
           subtree(c) == Below(listing[l].children, c)
           counts == [c \in Categories |->
                        IF c \in Published
                        THEN MapThenSumSet(LAMBDA k : listing[l].direct[k], subtree(c))
                        ELSE NoRow]
           waiting == [c \in Categories |->
                         IF c \in Published THEN categories[c].parent ELSE NoRow]
           state == [NoListing EXCEPT !.pc = "paths", !.touched = listing[l].touched,
                                      !.waiting = waiting, !.counts = counts]
<1>1. /\ Continue(l, Onward(state)) /\ listing[l] \in Listing /\ ListHolds(l)
      /\ listing[l].pc = "rows"
  BY DEF ListCategories, Counted
<1>2. direct \in [Categories -> Nat]
  BY <1>1 DEF Listing
<1>3. ASSUME NEW c \in Categories
      PROVE  /\ subtree(c) \in SUBSET Categories /\ IsFiniteSet(subtree(c))
             /\ MapThenSumSet(LAMBDA k : listing[l].direct[k], subtree(c))
                  = Total(direct, subtree(c))
  <2>1. subtree(c) \in SUBSET Categories
    BY DEF Below
  <2> HIDE DEF subtree
  <2>2. IsFiniteSet(subtree(c))
    BY <2>1, CatalogAssumption, FS_Subset
  <2>3. MapThenSumSet(LAMBDA k : listing[l].direct[k], subtree(c))
          = Total(listing[l].direct, subtree(c))
    BY <2>2, DirectSum
  <2> QED
    BY <2>1, <2>2, <2>3
<1>4. counts = [c \in Categories |->
                  IF c \in Published THEN Total(direct, subtree(c)) ELSE NoRow]
  BY <1>3
<1>5. ASSUME NEW c \in Categories PROVE Total(direct, subtree(c)) \in Nat
  <2>1. \A k \in subtree(c) : direct[k] \in Nat
    BY <1>2, <1>3
  <2> HIDE DEF direct, subtree
  <2> QED
    BY <1>3, <2>1, TotalNat
<1>6. counts \in [Categories -> Nat \cup {NoRow}]
  <2> HIDE DEF counts, direct, subtree
  <2> QED
    BY <1>4, <1>5
<1>7. ASSUME listing[l].touched = {} PROVE counts = CountsNow
  <2>1. direct = Direct /\ listing[l].children = Children
    BY <1>1, <1>7 DEF ListHolds
  <2>2. ASSUME NEW c \in Categories
        PROVE  Total(direct, subtree(c)) = Cardinality(ShownBelow(c))
    <3>1. subtree(c) = Below(Children, c)
      BY <2>1
    <3>2. Total(Direct, subtree(c))
            = Cardinality({m \in Materials :
                             Shown(m) /\ materials[m].category \in subtree(c)})
      <4> HIDE DEF subtree
      <4> QED
        BY <1>3, DirectAddsUp DEF IInv
    <3> QED
      BY <2>1, <3>1, <3>2, Zenon DEF ShownBelow
  <2> HIDE DEF counts, direct, subtree
  <2> QED
    BY <1>4, <2>2 DEF CountsNow
<1> HIDE DEF counts
<1>8. /\ waiting \in [Categories -> Categories \cup {Top, NoRow}]
      /\ Remains(waiting, Stored)
  BY CatalogAssumption DEF IInv, KeysHold, CategoryRow, Published, Stored, Remains
<1> HIDE DEF waiting
<1>9. /\ state \in Listing /\ state.pc = "paths" /\ state.counts = counts
      /\ state.touched = listing[l].touched /\ state.waiting = waiting
      /\ state.above = Top
  <2>1. listing[l].touched \in SUBSET (Categories \cup Materials)
    BY <1>1 DEF Listing
  <2> QED
    BY <1>6, <1>8, <2>1, NoListingTyped DEF Listing
<1> HIDE DEF state
<1> DEFINE known == Stored \cup listing[l].touched
<1>10. Remains(state.waiting, known) /\ Top \notin Categories
  BY <1>8, <1>9, CatalogAssumption DEF Remains
<1> DEFINE after == Onward(state)
<1> HIDE DEF known
<1>11. /\ after \in Listing /\ after.touched = listing[l].touched /\ after.counts = counts
       /\ after.pc \in {"paths", "answered"}
       /\ after.pc = "paths" => /\ Remains(after.waiting, known)
                                /\ after.above \in Categories \cap known
                                /\ after.steps < MaxPath
  BY <1>9, <1>10, OnwardHolds
<1> HIDE DEF after
<1>12. Continue(l, after) /\ listing'[l] = after /\ UNCHANGED <<categories, materials>>
  BY <1>1 DEF Continue, Counted, after
<1>13. ListHolds(l)'
  BY <1>7, <1>11, <1>12, TablesStand DEF ListHolds
<1>14. PathsHold(l)'
  BY <1>11, <1>12, TablesStand DEF PathsHold, known
<1> QED
  BY <1>11, <1>12, <1>13, <1>14, ListCounted

LEMMA ClimbCounted ==
    ASSUME IInv, Counted, NEW l \in Listers, Climb(l)
    PROVE  Counted'
<1> DEFINE known == Stored \cup listing[l].touched
<1>0. listing[l] \in Listing /\ ListHolds(l) /\ PathsHold(l)
  BY DEF Counted
<1>1. /\ listing[l].pc = "paths"
      /\ listing[l].above \in Categories \cap known
      /\ listing[l].steps < MaxPath
      /\ Remains(listing[l].waiting, known)
  BY <1>0 DEF Climb, PathsHold
<1>2. CASE listing[l].above \in Stored
  <2> DEFINE parent == categories[listing[l].above].parent
             state  == [listing[l] EXCEPT !.above = parent, !.steps = @ + 1]
             after  == Onward(state)
  <2>1. Continue(l, after)
    BY <1>2 DEF Climb
  <2>2. parent \in Stored \cup {Top} /\ Stored \subseteq Categories
    BY <1>2 DEF IInv, KeysHold, Stored
  <2> HIDE DEF parent
  <2>3. /\ state \in Listing /\ state.pc = "paths" /\ state.above = parent
        /\ state.waiting = listing[l].waiting /\ state.counts = listing[l].counts
        /\ state.touched = listing[l].touched
    <3>1. listing[l].steps + 1 \in 0 .. MaxPath
      BY <1>0, <1>1, CatalogAssumption DEF Listing
    <3>2. parent \in Categories \cup {Top}
      BY <2>2
    <3> QED
      BY <1>0, <1>1, <3>1, <3>2 DEF Listing
  <2>4. state.above \in Categories => state.above \in known
    BY <2>2, <2>3, CatalogAssumption
  <2> HIDE DEF state, known
  <2>5. /\ after \in Listing /\ after.touched = listing[l].touched
        /\ after.counts = listing[l].counts /\ after.pc \in {"paths", "answered"}
        /\ after.pc = "paths" => /\ Remains(after.waiting, known)
                                 /\ after.above \in Categories \cap known
                                 /\ after.steps < MaxPath
    BY <1>1, <2>3, <2>4, OnwardHolds
  <2> HIDE DEF after
  <2>6. listing'[l] = after /\ UNCHANGED <<categories, materials>>
    BY <2>1 DEF Continue, Counted
  <2>7. ListHolds(l)'
    BY <1>0, <1>1, <2>5, <2>6, TablesStand DEF ListHolds
  <2>8. PathsHold(l)'
    BY <2>5, <2>6, TablesStand DEF PathsHold, known
  <2> QED
    BY <2>1, <2>5, <2>7, <2>8, ListCounted
<1>3. CASE listing[l].above \notin Stored
  <2> DEFINE state == [NoListing EXCEPT !.pc = "failed", !.above = listing[l].above,
                                        !.touched = listing[l].touched]
  <2>1. Continue(l, state)
    BY <1>3 DEF Climb
  <2>2. /\ state \in Listing /\ state.pc = "failed" /\ state.above \in state.touched
    BY <1>0, <1>1, <1>3, NoListingTyped DEF Listing
  <2> HIDE DEF state
  <2>3. listing'[l] = state
    BY <2>1 DEF Continue, Counted
  <2>4. ListHolds(l)' /\ PathsHold(l)'
    BY <2>2, <2>3 DEF ListHolds, PathsHold
  <2> QED
    BY <2>1, <2>2, <2>4, ListCounted
<1> QED
  BY <1>2, <1>3

LEMMA LeaveListCounted ==
    ASSUME IInv, Counted, NEW l \in Listers, LeaveList(l)
    PROVE  Counted'
<1>1. Continue(l, NoListing)
  BY DEF LeaveList
<1>2. listing'[l] = NoListing
  BY <1>1 DEF Continue, Counted
<1>3. ListHolds(l)' /\ PathsHold(l)'
  BY <1>2, NoListingTyped DEF ListHolds, PathsHold
<1> QED
  BY <1>1, <1>3, NoListingTyped, ListCounted

LEMMA InitCounted == Init => Counted
<1> SUFFICES ASSUME Init PROVE Counted
  OBVIOUS
<1>1. \A v \in Visitors : visit[v].pc = "idle"
  BY DEF Init, NoVisit
<1>2. \A l \in Listers : listing[l] = NoListing
  BY DEF Init
<1>3. listing \in [Listers -> Listing]
  BY NoListingTyped DEF Init
<1> QED
  BY <1>1, <1>2, <1>3, NoListingTyped, CatalogAssumption
     DEF Counted, AnswerCurrent, ListHolds, PathsHold, Init

LEMMA NextCounted ==
    ASSUME IInv, IInv', Counted, [Next]_vars
    PROVE  Counted'
<1>1. CASE Edit
  BY <1>1, EditTouches, EditCounted DEF IInv
<1>2. ASSUME NEW v \in Visitors,
             (\E root \in Categories : Open(v, root)) \/ Visiting(v) \/ Leave(v)
      PROVE  Counted'
  BY <1>2, VisitorCounted
<1>3. ASSUME NEW l \in Listers,
             CountDirect(l) \/ Answering(l) \/ LeaveList(l)
      PROVE  Counted'
  BY <1>3, CountDirectCounted, ReadChildrenCounted, ListCategoriesCounted,
     ClimbCounted, LeaveListCounted DEF Answering
<1>4. CASE UNCHANGED vars
  <2>1. UNCHANGED <<categories, materials>> /\ visit' = visit /\ listing' = listing
        /\ edits' = edits
    BY <1>4 DEF vars
  <2>2. ASSUME NEW v \in Visitors PROVE AnswerCurrent(v)'
    <3>1. ShownBelow(visit[v].root)' = ShownBelow(visit[v].root)
      BY <2>1 DEF ShownBelow, Below, Closed, Shown, Published, Children, Stored
    <3> QED
      BY <2>1, <3>1, TablesStand DEF AnswerCurrent, Counted
  <2>3. ASSUME NEW l \in Listers PROVE ListHolds(l)' /\ PathsHold(l)'
    BY <2>1, TablesStand DEF ListHolds, PathsHold, Counted
  <2> QED
    BY <2>1, <2>2, <2>3 DEF Counted
<1> QED
  BY <1>1, <1>2, <1>3, <1>4 DEF Next

LEMMA SpecCounted == Spec => []Counted
<1>1. IInv /\ IInv' /\ Counted /\ [Next]_vars => Counted'
  BY NextCounted
<1> QED
  BY <1>1, InitCounted, SpecIInv, PTL DEF Spec

(* The tables keep their foreign keys and every request its types: a sum over *)
(* the tree, of any counts that were read, is never negative                  *)
(* (published_categories_with_counts).                                        *)
THEOREM TypeAlwaysOK == Spec => []TypeOK
<1>1. IInv /\ Counted => TypeOK
  BY DEF IInv, Counted, TypeOK
<1> QED
  BY <1>1, SpecIInv, SpecCounted, PTL

(* For a tree of any size and shape, circles included, and any number of      *)
(* materials in it: the number beside a category is the number of materials   *)
(* that opening it lists, unless an edit came between                         *)
(* (published_categories_with_counts, filter_category).                       *)
THEOREM CountsAlwaysMatchListing == Spec => []CountsMatchListing
<1>1. ASSUME IInv, Counted, NEW v \in Visitors, NEW l \in Listers,
             visit[v].pc = "answered", listing[l].pc = "answered",
             visit[v].touched = {}, listing[l].touched = {},
             listing[l].counts[visit[v].root] # NoRow
      PROVE  listing[l].counts[visit[v].root] = Cardinality(visit[v].answer)
  <2> DEFINE root == visit[v].root
  <2>1. root \in Categories
    BY <1>1 DEF IInv, RootKnown
  <2>2. listing[l].counts = CountsNow
    BY <1>1 DEF Counted, ListHolds
  <2>3. listing[l].counts[root]
          = IF root \in Published THEN Cardinality(ShownBelow(root)) ELSE NoRow
    BY <2>1, <2>2 DEF CountsNow
  <2>4. root \in Published /\ root \in Stored
    BY <1>1, <2>3 DEF Published
  <2>5. visit[v].answer = ShownBelow(root)
    BY <1>1, <2>4 DEF Counted, AnswerCurrent
  <2> QED
    BY <2>3, <2>4, <2>5
<1>2. IInv /\ Counted => CountsMatchListing
  BY <1>1 DEF CountsMatchListing
<1> QED
  BY <1>2, SpecIInv, SpecCounted, PTL

(* For a tree of any size and shape: the list of categories fails only over a *)
(* category that was edited while the request was answered (full_path).       *)
THEOREM OnlyTheGoneAreEverMissed == Spec => []OnlyTheGoneAreMissed
<1>1. Counted => OnlyTheGoneAreMissed
  BY DEF Counted, PathsHold, OnlyTheGoneAreMissed
<1> QED
  BY <1>1, SpecCounted, PTL
=============================================================================
