-------------------------- MODULE AdminStoreProofs --------------------------
(***************************************************************************)
(* Proofs about AdminStore, for any number of entities, handlers under     *)
(* way, edits and failing statements.                                      *)
(***************************************************************************)
EXTENDS AdminStore, TLAPS

LayerOps == {"layer_form", "layer_api"}

\* What a handler works on, by its operation; what was looked up has been shown.
TaskFits(j) ==
    /\ j.op \in LayerOps =>
        /\ j.id \in Layers /\ j.category \in Categories \cap shown
        /\ j.label \in Names
    /\ j.op = "save_style" => j.id \in Styles /\ j.category \in Categories
    /\ j.op = "delete_style" => j.id \in Styles
    /\ j.op = "new_category" => j.id \in Categories /\ j.label \in Names
    /\ j.op = "update_category" => j.id \in Categories \cap shown /\ j.label \in Names
    /\ j.op = "delete_category" => j.id \in Categories \cap shown
    /\ j.op \in {"new_group", "update_group", "delete_group"} => j.id \in Groups

TasksFit == task \in [Tasks -> {Idle} \cup Job] /\ \A t \in Tasks : TaskFits(task[t])

Typed == TypeOK /\ TasksFit

\* A new category or group is shown when it gets to the list, by one handler only,
\* and a new group has its row until then.
NewIdsFit ==
    \A t \in Tasks :
        /\ task[t].op \in {"new_category", "new_group"} =>
            /\ task[t].id \notin shown
            /\ \A u \in Tasks \ {t} : task[u].op = task[t].op => task[u].id # task[t].id
        /\ task[t].op = "new_group" => task[t].id \in db.groups

\* Whatever memory lists, and whatever a layer or user refers to or is about to
\* refer to, has been shown.
ListedIsShown == Listed(mem) \subseteq shown /\ FirstGroup \in shown

LayersReferToShown ==
    \A l \in Layers :
        /\ db.layers[l] # None => db.layers[l].groups \cup {db.layers[l].category} \subseteq shown
        /\ mem.layers[l] # None => mem.layers[l].groups \cup {mem.layers[l].category} \subseteq shown

UsersReferToShown ==
    \A u \in Users :
        /\ db.users[u] # None => db.users[u] \subseteq shown
        /\ mem.users[u] # None => mem.users[u] \subseteq shown

TasksReferToShown ==
    \A t \in Tasks :
        /\ task[t].op \in LayerOps => task[t].groups \subseteq shown
        /\ task[t].op \in {"update_group", "delete_group"} => task[t].id \in shown

RefersToShown ==
    ListedIsShown /\ LayersReferToShown /\ UsersReferToShown /\ TasksReferToShown

\* A row whose entity was in memory once has an entry there.
ShownRowsAreListed ==
    /\ \A l \in Layers \cap shown : db.layers[l] # None => mem.layers[l] # None
    /\ \A u \in Users \cap shown : db.users[u] # None => mem.users[u] # None

\* Memory knows no group without a row, but those left there.
GroupsAreKnown ==
    /\ mem.groups \subseteq db.groups \cup lingering
    /\ \A u \in Users : mem.users[u] # None => mem.users[u] \subseteq db.groups \cup lingering

\* The copies of the layers that showed no reference to x are as good as the
\* catalog itself, because of what counts as missed.
CopiedUnused(x) ==
    \A l \in Layers :
        /\ mem.layers[l] # None
        /\ x \in mem.layers[l].groups \cup {mem.layers[l].category}
        /\ x \in References(l)
        => <<l, x>> \in missed

\* What a deletion that has looked relies on.
DeletionsLooked ==
    \A t \in Tasks :
        /\ At(t, "delete_category", "check") /\ ~task[t].used => CopiedUnused(task[t].id)
        /\ At(t, "delete_group", "row") /\ ~task[t].used => CopiedUnused(task[t].id)
        /\ At(t, "delete_category", "row") =>
            \A e \in Layers \cup Styles \cup Users :
                task[t].id \in References(e) => <<e, task[t].id>> \in missed

IInv ==
    /\ Typed
    /\ NewIdsFit
    /\ RefersToShown
    /\ ShownRowsAreListed
    /\ GroupsAreKnown
    /\ DeletionsLooked
    /\ ReferencesResolve
    /\ LockedListsMirrorRows
    /\ LayersFollowRenames

-----------------------------------------------------------------------------
(***************************************************************************)
(* The type invariant.                                                     *)
(***************************************************************************)

LEMMA IdleFits == TaskFits(Idle)
BY DEF TaskFits, Idle, LayerOps

LEMMA InitTyped == Init => Typed
<1> SUFFICES ASSUME Init
             PROVE  Typed
  OBVIOUS
<1> USE AdminStoreAssumption
<1>1. FirstName \in Names
  BY DEF FirstName
<1>2. db \in Rows /\ mem \in Entries
  BY <1>1 DEF Init, Rows, Entries, NothingBut
<1>3. TypeOK
  BY <1>2 DEF Init, TypeOK, Ids
<1>4. TasksFit
  BY IdleFits DEF Init, TasksFit
<1>5. QED
  BY <1>3, <1>4 DEF Typed

\* An id is never forgotten, and is shown by being listed.
LEMMA ShownGrows ==
    ASSUME [Next]_vars
    PROVE  shown \subseteq shown' /\ shown' \subseteq shown \cup Listed(mem')
<1> USE DEF state, history, bounds, Show
<1>1. ASSUME NEW t \in Tasks, LayerStep(t)
      PROVE  shown \subseteq shown' /\ shown' \subseteq shown \cup Listed(mem')
  BY <1>1 DEF LayerStep, LookUpForLayer, ResolveGroups, LayerNotFound, SaveLayer, SaveLayerFails
<1>2. ASSUME NEW t \in Tasks, StyleStep(t)
      PROVE  shown \subseteq shown' /\ shown' \subseteq shown \cup Listed(mem')
  BY <1>2 DEF StyleStep, LookUpStyleToDelete, LookUpForStyle, WriteStyle, WriteStyleFails,
              ReadStyles, ReadStylesFails, SwapStyles
<1>3. ASSUME NEW t \in Tasks, CategoryStep(t)
      PROVE  shown \subseteq shown' /\ shown' \subseteq shown \cup Listed(mem')
  BY <1>3 DEF CategoryStep, NewCategory, LookUpCategory, PushCategory, WriteCategory,
              WriteCategoryFails, UpdateCategory, CopyLayers, CheckCategory, DeleteCategory,
              RemoveCategory
<1>4. ASSUME NEW t \in Tasks, GroupStep(t)
      PROVE  shown \subseteq shown' /\ shown' \subseteq shown \cup Listed(mem')
  BY <1>4 DEF GroupStep, NewGroup, FindGroup, CopyLayersForGroup, PushGroup, UpdateGroup,
              DeleteGroup
<1>5. CASE UserStep
  BY <1>5 DEF UserStep, DeleteUser, CreateUser, CreateUserFails, UpdateUser, UpdateUserFails
<1>6. ASSUME NEW l \in Layers, DeleteLayer(l) \/ SwitchPublished(l) \/ EditLayerFails(l)
      PROVE  shown \subseteq shown' /\ shown' \subseteq shown \cup Listed(mem')
  BY <1>6 DEF DeleteLayer, SwitchPublished, EditLayerFails
<1>7. CASE Restart
  BY <1>7 DEF Restart
<1>8. CASE UNCHANGED vars
  BY <1>8 DEF vars
<1>9. QED
  BY <1>1, <1>2, <1>3, <1>4, <1>5, <1>6, <1>7, <1>8 DEF Next

LEMMA ShowTyped ==
    ASSUME TypeOK, mem' \in Entries, Show
    PROVE  shown' \subseteq Ids
BY DEF TypeOK, Show, Listed, Present, Entries, Ids

LEMMA ReferTyped ==
    ASSUME TypeOK, NEW e \in Layers \cup Styles \cup Users,
           NEW late \in SUBSET (Categories \cup Groups), Refer(e, late)
    PROVE  missed' \subseteq (Layers \cup Styles \cup Users) \X (Categories \cup Groups)
BY DEF TypeOK, Refer

\* One handler goes on.
LEMMA TaskTyped ==
    ASSUME Typed, [Next]_vars, NEW t \in Tasks, NEW j \in {Idle} \cup Job, TaskFits(j),
           task' = [task EXCEPT ![t] = j]
    PROVE  TasksFit'
<1>1. shown \subseteq shown'
  BY ShownGrows
<1>2. \A k : TaskFits(k) => TaskFits(k)'
  BY <1>1 DEF TaskFits
<1>3. task \in [Tasks -> {Idle} \cup Job]
  BY DEF Typed, TypeOK
<1>4. ASSUME NEW u \in Tasks
      PROVE  TaskFits(task[u])'
  <2>1. PICK k : k = task'[u]
    OBVIOUS
  <2>2. TaskFits(k)
    BY <1>3, <2>1 DEF Typed, TasksFit
  <2>3. QED
    BY <1>2, <2>1, <2>2 DEF TaskFits
<1>5. QED
  BY <1>3, <1>4 DEF TasksFit

LEMMA StartTyped ==
    ASSUME Typed, [Next]_vars, NEW t \in Tasks, NEW j \in Job, TaskFits(j), Start(t, j)
    PROVE  TasksFit' /\ edits' \in 0..MaxEdits
<1>1. task' = [task EXCEPT ![t] = j]
  BY DEF Start
<1>2. edits' \in 0..MaxEdits
  BY AdminStoreAssumption DEF Start, Typed, TypeOK
<1>3. QED
  BY <1>1, <1>2, TaskTyped

LEMMA EndTyped ==
    ASSUME Typed, [Next]_vars, NEW t \in Tasks, End(t)
    PROVE  TasksFit'
BY IdleFits, TaskTyped DEF End

LEMMA ContinueTyped ==
    ASSUME Typed, [Next]_vars, NEW t \in Tasks, task[t].op \in Ops, NEW at \in Stages,
           Continue(t, at)
    PROVE  TasksFit'
<1>1. PICK old \in Job : old = task[t]
  BY DEF Typed, TasksFit, Idle, Ops
<1>2. PICK j : j = [old EXCEPT !.at = at]
  OBVIOUS
<1>3. j \in Job /\ TaskFits(j)
  BY <1>1, <1>2 DEF Job, TaskFits, LayerOps, Typed, TasksFit
<1>4. task' = [task EXCEPT ![t] = j]
  BY <1>1, <1>2 DEF Continue, Typed, TasksFit
<1>5. QED
  BY <1>3, <1>4, TaskTyped

LEMMA AtOnceTyped ==
    ASSUME Typed, [Next]_vars, AtOnce
    PROVE  TasksFit' /\ edits' \in 0..MaxEdits
<1>1. edits' \in 0..MaxEdits
  BY AdminStoreAssumption DEF AtOnce, Typed, TypeOK
<1>2. shown \subseteq shown'
  BY ShownGrows
<1>3. QED
  BY <1>1, <1>2 DEF AtOnce, Typed, TasksFit, TaskFits

LEMMA FaultTyped ==
    ASSUME TypeOK, Fault \/ UNCHANGED faults
    PROVE  faults' \in 0..MaxFaults
BY AdminStoreAssumption DEF Fault, TypeOK

LEMMA LayerStepTyped ==
    ASSUME Typed, NEW t \in Tasks, LayerStep(t)
    PROVE  Typed'
<1> USE AdminStoreAssumption DEF state, history, bounds
<1>1. TypeOK /\ TaskFits(task[t]) /\ [Next]_vars
  BY DEF Typed, TasksFit, Next
<1>2. PICK old \in {Idle} \cup Job : old = task[t]
  BY <1>1 DEF TypeOK
<1>3. ASSUME NEW l \in Layers, NEW c \in Categories,
             LookUpForLayer(t, "layer_form", l, c) \/ LookUpForLayer(t, "layer_api", l, c)
      PROVE  Typed'
  <2>1. PICK op \in LayerOps : LookUpForLayer(t, op, l, c)
    BY <1>3 DEF LayerOps
  <2>2. PICK j : j = [Begun(op, "groups", l) EXCEPT !.category = c, !.label = db.categories[c]]
    OBVIOUS
  <2>3. c \in shown /\ db.categories[c] \in Names
    BY <1>1, <2>1 DEF LookUpForLayer, TypeOK, Rows
  <2>4. j \in Job /\ TaskFits(j)
    BY <2>2, <2>3, ZenonT(30) DEF Begun, Job, Ops, Stages, LayerOps, TaskFits
  <2>5. TasksFit' /\ edits' \in 0..MaxEdits
    BY <1>1, <2>1, <2>2, <2>4, StartTyped DEF LookUpForLayer
  <2>6. QED
    BY <1>1, <2>1, <2>5 DEF LookUpForLayer, Typed, TypeOK, TasksFit
<1>4. ASSUME NEW gs \in SUBSET Groups, ResolveGroups(t, gs)
      PROVE  Typed'
  <2>1. PICK j : j = [old EXCEPT !.groups = gs, !.at = "save"]
    OBVIOUS
  <2>2. old \in Job /\ old.op \in LayerOps /\ gs \subseteq mem.groups
    BY <1>2, <1>4 DEF ResolveGroups, Idle, LayerOps
  <2>3. j \in Job /\ TaskFits(j)
    BY <1>1, <1>2, <2>1, <2>2 DEF Job, Stages, TaskFits, LayerOps
  <2>4. task' = [task EXCEPT ![t] = j]
    BY <1>1, <1>2, <1>4, <2>1 DEF ResolveGroups, TypeOK
  <2>5. TasksFit'
    BY <1>1, <2>3, <2>4, TaskTyped
  <2>6. QED
    BY <1>1, <1>4, <2>5 DEF ResolveGroups, Typed, TypeOK, TasksFit
<1>5. ASSUME LayerNotFound(t)
      PROVE  Typed'
  <2>1. TasksFit'
    BY <1>1, <1>5, EndTyped DEF LayerNotFound
  <2>2. QED
    BY <1>1, <1>5, <2>1 DEF LayerNotFound, Typed, TypeOK, TasksFit
<1>6. ASSUME NEW published \in BOOLEAN, SaveLayer(t, published) \/ SaveLayerFails(t, published)
      PROVE  Typed'
  <2> DEFINE l == task[t].id
             c == task[t].category
             row == [category |-> c, groups |-> task[t].groups, published |-> published]
             entry == [category |-> c, label |-> task[t].label, groups |-> task[t].groups,
                       published |-> published]
  <2>1. task[t] \in Job /\ task[t].op \in LayerOps
    BY <1>2, <1>6 DEF SaveLayer, SaveLayerFails, CanSaveLayer, LayerOps, Idle
  <2>2. /\ l \in Layers /\ c \in Categories /\ row \in LayerRow /\ entry \in Layer
        /\ row.groups \cup {row.category} \subseteq Categories \cup Groups
    BY <1>1, <2>1 DEF TaskFits, Job, LayerRow, Layer
  <2>3. TasksFit' /\ LayerCommitted(t, row)
    BY <1>1, <1>6, EndTyped DEF SaveLayer, SaveLayerFails
  <2> HIDE DEF l, c, row, entry
  <2>4. db' \in Rows
    <3>1. db' = db \/ db' = [db EXCEPT !.layers[l] = row]
      BY <2>3 DEF LayerCommitted, l
    <3>2. QED
      BY <1>1, <2>2, <3>1 DEF TypeOK, Rows
  <2>5. mem' \in Entries
    <3>1. mem' = mem \/ mem' = [mem EXCEPT !.layers[l] = entry]
      BY <1>6 DEF SaveLayer, SaveLayerFails, l, entry, c
    <3>2. QED
      BY <1>1, <2>2, <3>1 DEF TypeOK, Entries
  <2>6. missed' \subseteq (Layers \cup Styles \cup Users) \X (Categories \cup Groups)
    BY <1>1, <2>2, <2>3, ReferTyped DEF LayerCommitted, l
  <2>7. shown' \subseteq Ids /\ torn' \subseteq Layers \cup Users /\ outdated' \subseteq Layers
    BY <1>1, <1>6, <2>2, <2>5, ShowTyped DEF SaveLayer, SaveLayerFails, TypeOK, l, c
  <2>8. edits' \in 0..MaxEdits /\ faults' \in 0..MaxFaults /\ lingering' \subseteq Groups
    BY <1>1, <1>6 DEF SaveLayer, SaveLayerFails, Fault, TypeOK
  <2>9. QED
    BY <2>3, <2>4, <2>5, <2>6, <2>7, <2>8 DEF Typed, TypeOK, TasksFit
<1>7. QED
  BY <1>3, <1>4, <1>5, <1>6 DEF LayerStep

LEMMA SwitchedTyped ==
    ASSUME NEW S, S = LayerRow \/ S = Layer, NEW f \in [Layers -> S \cup {None}], NEW l \in Layers
    PROVE  Switched(f, l) \in [Layers -> S \cup {None}]
<1>1. PICK x \in S \cup {None} : x = f[l]
  OBVIOUS
<1>2. x # None => [x EXCEPT !.published = ~x.published] \in S
  BY DEF LayerRow, Layer
<1>3. QED
  BY <1>1, <1>2 DEF Switched

LEMMA LayerEditTyped ==
    ASSUME Typed, NEW l \in Layers, DeleteLayer(l) \/ SwitchPublished(l) \/ EditLayerFails(l)
    PROVE  Typed'
<1> USE AdminStoreAssumption DEF state, history, bounds
<1>1. TypeOK /\ [Next]_vars
  BY DEF Typed, Next
<1>2. TasksFit' /\ edits' \in 0..MaxEdits
  BY <1>1, AtOnceTyped DEF DeleteLayer, SwitchPublished, EditLayerFails
<1>3. faults' \in 0..MaxFaults
  BY <1>1, FaultTyped DEF DeleteLayer, SwitchPublished, EditLayerFails
<1>4. /\ Switched(db.layers, l) \in [Layers -> LayerRow \cup {None}]
      /\ Switched(mem.layers, l) \in [Layers -> Layer \cup {None}]
  <2>1. db.layers \in [Layers -> LayerRow \cup {None}] /\ mem.layers \in [Layers -> Layer \cup {None}]
    BY <1>1 DEF TypeOK, Rows, Entries
  <2>2. QED
    BY <2>1, SwitchedTyped
<1>5. db' \in Rows
  <2>1. db' = [db EXCEPT !.layers[l] = None] \/ db' = [db EXCEPT !.layers = Switched(db.layers, l)]
    BY DEF DeleteLayer, SwitchPublished, EditLayerFails
  <2>2. QED
    BY <1>1, <1>4, <2>1 DEF TypeOK, Rows
<1>6. mem' \in Entries
  <2>1. \/ mem' = mem
        \/ mem' = [mem EXCEPT !.layers[l] = None]
        \/ mem' = [mem EXCEPT !.layers = Switched(mem.layers, l)]
    BY DEF DeleteLayer, SwitchPublished, EditLayerFails
  <2>2. QED
    BY <1>1, <1>4, <2>1 DEF TypeOK, Entries
<1>7. missed' \subseteq (Layers \cup Styles \cup Users) \X (Categories \cup Groups)
  <2>1. Refer(l, {}) \/ missed' = missed
    BY DEF DeleteLayer, SwitchPublished, EditLayerFails
  <2>2. QED
    BY <1>1, <2>1, ReferTyped DEF TypeOK
<1>8. /\ torn' \subseteq Layers \cup Users /\ shown' \subseteq Ids
      /\ outdated' \subseteq Layers /\ lingering' \subseteq Groups
  BY <1>1 DEF DeleteLayer, SwitchPublished, EditLayerFails, TypeOK
<1>9. QED
  BY <1>2, <1>3, <1>5, <1>6, <1>7, <1>8 DEF Typed, TypeOK, TasksFit

LEMMA StyleStepTyped ==
    ASSUME Typed, NEW t \in Tasks, StyleStep(t)
    PROVE  Typed'
<1> USE AdminStoreAssumption DEF state, history, bounds
<1>1. TypeOK /\ TasksFit /\ [Next]_vars
  BY DEF Typed, Next
<1>2. ASSUME NEW s \in Styles, NEW c \in Categories,
             LookUpStyleToDelete(t, s) \/ LookUpForStyle(t, s, c)
      PROVE  Typed'
  <2>1. PICK j : /\ Start(t, j)
                 /\ \/ j = Begun("delete_style", "row", s)
                    \/ j = [Begun("save_style", "row", s) EXCEPT !.category = c]
    BY <1>2 DEF LookUpStyleToDelete, LookUpForStyle
  <2>2. j \in Job /\ TaskFits(j)
    <3>1. CASE j = Begun("delete_style", "row", s)
      BY <3>1 DEF Begun, Job, Ops, Stages, LayerOps, TaskFits
    <3>2. CASE j = [Begun("save_style", "row", s) EXCEPT !.category = c]
      BY <3>2 DEF Begun, Job, Ops, Stages, LayerOps, TaskFits
    <3>3. QED
      BY <2>1, <3>1, <3>2
  <2>3. TasksFit' /\ edits' \in 0..MaxEdits
    BY <1>1, <2>1, <2>2, StartTyped
  <2>4. QED
    BY <1>1, <1>2, <2>3 DEF LookUpStyleToDelete, LookUpForStyle, Typed, TypeOK, TasksFit
<1>3. ASSUME WriteStyle(t) \/ WriteStyleFails(t)
      PROVE  Typed'
  <2>1. StyleCommitted(t) /\ task[t].op \in {"save_style", "delete_style"}
    BY <1>3 DEF WriteStyle, WriteStyleFails, StyleCommitted
  <2>2. PICK s \in Styles : s = task[t].id
    BY <1>1, <2>1 DEF TasksFit, TaskFits
  <2>3. PICK c \in Categories \cup {None} : c = task[t].category
    BY <1>1, <2>1 DEF TasksFit, Job, Idle
  <2>4. db' \in Rows
    <3>1. db' = db \/ db' = [db EXCEPT !.styles[s] = c]
      BY <2>1, <2>2, <2>3 DEF StyleCommitted
    <3>2. QED
      BY <1>1, <3>1 DEF TypeOK, Rows
  <2>5. missed' \subseteq (Layers \cup Styles \cup Users) \X (Categories \cup Groups)
    <3>1. Refer(s, {}) \/ (c # None /\ Refer(s, {c}))
      BY <2>1, <2>2, <2>3 DEF StyleCommitted
    <3>2. QED
      BY <1>1, <3>1, ReferTyped
  <2>6. TasksFit'
    BY <1>1, <1>3, <2>1, ContinueTyped, EndTyped DEF WriteStyle, WriteStyleFails, Ops, Stages
  <2>7. faults' \in 0..MaxFaults
    BY <1>1, <1>3, FaultTyped DEF WriteStyle, WriteStyleFails
  <2>8. QED
    BY <1>1, <1>3, <2>1, <2>4, <2>5, <2>6, <2>7
       DEF WriteStyle, WriteStyleFails, StyleCommitted, Typed, TypeOK, TasksFit
<1>4. ASSUME ReadStyles(t)
      PROVE  Typed'
  <2>1. PICK old \in Job : old = task[t]
    BY <1>1, <1>4 DEF ReadStyles, Reloading, TasksFit, Idle
  <2>2. PICK j : j = [old EXCEPT !.read = db.styles, !.at = "swap"]
    OBVIOUS
  <2>3. j \in Job /\ TaskFits(j)
    BY <1>1, <2>1, <2>2, ZenonT(30) DEF TypeOK, Rows, Job, Stages, TaskFits, LayerOps, TasksFit
  <2>4. task' = [task EXCEPT ![t] = j]
    BY <1>1, <1>4, <2>1, <2>2 DEF ReadStyles, TasksFit
  <2>5. TasksFit'
    BY <1>1, <2>3, <2>4, TaskTyped
  <2>6. QED
    BY <1>1, <1>4, <2>5 DEF ReadStyles, Typed, TypeOK, TasksFit
<1>5. ASSUME ReadStylesFails(t)
      PROVE  Typed'
  <2>1. TasksFit'
    BY <1>1, <1>5, EndTyped DEF ReadStylesFails
  <2>2. faults' \in 0..MaxFaults
    BY <1>1, <1>5, FaultTyped DEF ReadStylesFails
  <2>3. QED
    BY <1>1, <1>5, <2>1, <2>2 DEF ReadStylesFails, Typed, TypeOK, TasksFit
<1>6. ASSUME SwapStyles(t)
      PROVE  Typed'
  <2>1. TasksFit'
    BY <1>1, <1>6, EndTyped DEF SwapStyles
  <2>2. task[t].read \in [Styles -> Categories \cup {None}]
    BY <1>1, <1>6 DEF SwapStyles, Reloading, TasksFit, Job, Idle
  <2>3. mem' \in Entries
    BY <1>1, <1>6, <2>2 DEF SwapStyles, TypeOK, Entries
  <2>4. shown' \subseteq Ids
    BY <1>1, <1>6, <2>3, ShowTyped DEF SwapStyles
  <2>5. QED
    BY <1>1, <1>6, <2>1, <2>3, <2>4 DEF SwapStyles, Typed, TypeOK, TasksFit
<1>7. QED
  BY <1>2, <1>3, <1>4, <1>5, <1>6 DEF StyleStep

\* Memory after a rename.
LEMMA RenamedTyped ==
    ASSUME TypeOK, NEW c \in Categories, NEW n \in Names
    PROVE  /\ Renamed(c, n) \in Entries
           /\ Renamed(c, n).categories = [mem.categories EXCEPT ![c] = n]
           /\ Renamed(c, n).styles = mem.styles
           /\ Renamed(c, n).groups = mem.groups
           /\ Renamed(c, n).users = mem.users
           /\ \A l \in Layers :
                /\ mem.layers[l] = None => Renamed(c, n).layers[l] = None
                /\ mem.layers[l] # None =>
                    /\ Renamed(c, n).layers[l] \in Layer
                    /\ Renamed(c, n).layers[l].category = mem.layers[l].category
                    /\ Renamed(c, n).layers[l].groups = mem.layers[l].groups
                    /\ Renamed(c, n).layers[l].published = mem.layers[l].published
                    /\ Renamed(c, n).layers[l].label =
                        IF mem.layers[l].category = c THEN n ELSE mem.layers[l].label
<1> DEFINE copied == [l \in Layers |->
                        IF mem.layers[l] # None /\ mem.layers[l].category = c
                        THEN [mem.layers[l] EXCEPT !.label = n] ELSE mem.layers[l]]
<1>1. mem \in Entries /\ mem.layers \in [Layers -> Layer \cup {None}]
  BY DEF TypeOK, Entries
<1>2. None \notin Layer
  BY AdminStoreAssumption
<1>3. ASSUME NEW l \in Layers, NEW x \in Layer, x = mem.layers[l]
      PROVE  /\ copied[l] \in Layer
             /\ copied[l].category = x.category
             /\ copied[l].groups = x.groups
             /\ copied[l].published = x.published
             /\ copied[l].label = IF x.category = c THEN n ELSE x.label
  <2>1. [x EXCEPT !.label = n] \in Layer
    BY DEF Layer
  <2>2. copied[l] = IF x.category = c THEN [x EXCEPT !.label = n] ELSE x
    BY <1>2, <1>3
  <2> HIDE DEF copied
  <2>3. CASE x.category = c
    BY <2>1, <2>2, <2>3 DEF Layer
  <2>4. CASE x.category # c
    BY <2>2, <2>4
  <2>5. QED
    BY <2>3, <2>4
<1>4. \A l \in Layers : mem.layers[l] = None => copied[l] = None
  OBVIOUS
<1>5. copied \in [Layers -> Layer \cup {None}]
  BY <1>1, <1>3, <1>4
<1>6. Renamed(c, n) = [mem EXCEPT !.categories[c] = n, !.layers = copied]
  BY DEF Renamed
<1> HIDE DEF copied
<1>7. /\ Renamed(c, n) \in Entries
      /\ Renamed(c, n).layers = copied
      /\ Renamed(c, n).categories = [mem.categories EXCEPT ![c] = n]
      /\ Renamed(c, n).styles = mem.styles
      /\ Renamed(c, n).groups = mem.groups
      /\ Renamed(c, n).users = mem.users
  <2>1. PICK m \in Entries : m = mem
    BY <1>1
  <2>2. PICK new : new = Renamed(c, n)
    OBVIOUS
  <2>3. new = [m EXCEPT !.categories = [m.categories EXCEPT ![c] = n], !.layers = copied]
    BY <1>6, <2>1, <2>2
  <2>4. /\ new.layers = copied
        /\ new.categories = [m.categories EXCEPT ![c] = n]
        /\ new.styles = m.styles
        /\ new.groups = m.groups
        /\ new.users = m.users
    BY <2>1, <2>3 DEF Entries
  <2>5. new \in Entries
    <3>1. [m.categories EXCEPT ![c] = n] \in [Categories -> Names \cup {None}]
      BY <2>1 DEF Entries
    <3>2. QED
      BY <1>5, <2>1, <2>3, <3>1 DEF Entries
  <2>6. QED
    BY <2>1, <2>2, <2>4, <2>5
<1>8. QED
  BY <1>1, <1>3, <1>4, <1>7

LEMMA HiddenTyped ==
    ASSUME TypeOK, NEW x \in Categories \cup Groups
    PROVE  Hidden(x) \subseteq (Layers \cup Styles \cup Users) \X (Categories \cup Groups)
BY DEF Hidden, Present, TypeOK, Rows

LEMMA CategoryStepTyped ==
    ASSUME Typed, NEW t \in Tasks, CategoryStep(t)
    PROVE  Typed'
<1> USE AdminStoreAssumption DEF state, history, bounds
<1>1. TypeOK /\ TasksFit /\ TaskFits(task[t]) /\ [Next]_vars
  BY DEF Typed, TasksFit, Next
<1>2. ASSUME NEW c \in Categories, NEW n \in Names, NewCategory(t, c, n)
      PROVE  Typed'
  <2>1. PICK j : j = [Begun("new_category", "memory", c) EXCEPT !.label = n]
    OBVIOUS
  <2>2. j \in Job /\ TaskFits(j)
    BY <2>1 DEF Begun, Job, Ops, Stages, LayerOps, TaskFits
  <2>3. TasksFit' /\ edits' \in 0..MaxEdits
    BY <1>1, <1>2, <2>1, <2>2, StartTyped, AtOnceTyped DEF NewCategory
  <2>4. faults' \in 0..MaxFaults
    BY <1>1, <1>2, FaultTyped DEF NewCategory
  <2>5. db' \in Rows
    BY <1>1, <1>2 DEF NewCategory, TypeOK, Rows
  <2>6. QED
    BY <1>1, <1>2, <2>3, <2>4, <2>5 DEF NewCategory, Typed, TypeOK, TasksFit
<1>3. ASSUME NEW c \in Categories, NEW n \in Names, LookUpCategory(t, c, n)
      PROVE  Typed'
  <2>1. PICK j : j = [Begun("update_category", "row", c) EXCEPT !.label = n]
    OBVIOUS
  <2>2. j \in Job /\ TaskFits(j)
    BY <1>3, <2>1 DEF LookUpCategory, Begun, Job, Ops, Stages, LayerOps, TaskFits
  <2>3. TasksFit' /\ edits' \in 0..MaxEdits
    BY <1>1, <1>3, <2>1, <2>2, StartTyped DEF LookUpCategory
  <2>4. QED
    BY <1>1, <1>3, <2>3 DEF LookUpCategory, Typed, TypeOK, TasksFit
<1>4. ASSUME PushCategory(t)
      PROVE  Typed'
  <2>1. TasksFit'
    BY <1>1, <1>4, EndTyped DEF PushCategory
  <2>2. mem' \in Entries
    BY <1>1, <1>4 DEF PushCategory, At, TaskFits, TypeOK, Entries
  <2>3. shown' \subseteq Ids
    BY <1>1, <1>4, <2>2, ShowTyped DEF PushCategory
  <2>4. QED
    BY <1>1, <1>4, <2>1, <2>2, <2>3 DEF PushCategory, Typed, TypeOK, TasksFit
<1>5. ASSUME WriteCategory(t) \/ WriteCategoryFails(t)
      PROVE  Typed'
  <2>1. task[t].op = "update_category"
    BY <1>5 DEF WriteCategory, WriteCategoryFails, At
  <2>2. TasksFit'
    BY <1>1, <1>5, <2>1, ContinueTyped, EndTyped DEF WriteCategory, WriteCategoryFails, Ops, Stages
  <2>3. db' \in Rows
    BY <1>1, <1>5, <2>1
       DEF WriteCategory, WriteCategoryFails, CategoryRenamed, TaskFits, TypeOK, Rows
  <2>4. faults' \in 0..MaxFaults
    BY <1>1, <1>5, FaultTyped DEF WriteCategory, WriteCategoryFails
  <2>5. QED
    BY <1>1, <1>5, <2>2, <2>3, <2>4 DEF WriteCategory, WriteCategoryFails, Typed, TypeOK, TasksFit
<1>6. ASSUME UpdateCategory(t)
      PROVE  Typed'
  <2>1. task[t].op = "update_category" /\ task[t].id \in Categories /\ task[t].label \in Names
    BY <1>1, <1>6 DEF UpdateCategory, At, TaskFits
  <2>2. TasksFit'
    BY <1>1, <1>6, <2>1, ContinueTyped DEF UpdateCategory, Ops, Stages
  <2>3. mem' \in Entries
    BY <1>1, <1>6, <2>1, RenamedTyped DEF UpdateCategory
  <2>4. outdated' \subseteq Layers
    BY <1>1, <1>6 DEF UpdateCategory, TypeOK
  <2>5. QED
    BY <1>1, <1>6, <2>2, <2>3, <2>4 DEF UpdateCategory, Typed, TypeOK, TasksFit
<1>7. ASSUME NEW c \in Categories, CopyLayers(t, c)
      PROVE  Typed'
  <2>1. PICK j : j = [Begun("delete_category", "check", c) EXCEPT
                        !.used = \E l \in Present(mem.layers) : mem.layers[l].category = c]
    OBVIOUS
  <2>2. j \in Job /\ TaskFits(j)
    <3>1. PICK used \in BOOLEAN :
            used = \E l \in Present(mem.layers) : mem.layers[l].category = c
      OBVIOUS
    <3>2. j = [Begun("delete_category", "check", c) EXCEPT !.used = used]
      BY <2>1, <3>1
    <3>3. QED
      BY <1>7, <3>2 DEF CopyLayers, Begun, Job, Ops, Stages, LayerOps, TaskFits
  <2>3. TasksFit' /\ edits' \in 0..MaxEdits
    BY <1>1, <1>7, <2>1, <2>2, StartTyped DEF CopyLayers
  <2>4. QED
    BY <1>1, <1>7, <2>3 DEF CopyLayers, Typed, TypeOK, TasksFit
<1>8. ASSUME CheckCategory(t)
      PROVE  Typed'
  <2>1. task[t].op = "delete_category" /\ task[t].id \in Categories
    BY <1>1, <1>8 DEF CheckCategory, At, TaskFits
  <2>2. TasksFit'
    BY <1>1, <1>8, <2>1, ContinueTyped, EndTyped DEF CheckCategory, Ops, Stages
  <2>3. missed' \subseteq (Layers \cup Styles \cup Users) \X (Categories \cup Groups)
    BY <1>1, <1>8, <2>1, HiddenTyped DEF CheckCategory, TypeOK
  <2>4. QED
    BY <1>1, <1>8, <2>2, <2>3 DEF CheckCategory, Typed, TypeOK, TasksFit
<1>9. ASSUME DeleteCategory(t) \/ RemoveCategory(t)
      PROVE  Typed'
  <2>1. task[t].op = "delete_category" /\ task[t].id \in Categories
    BY <1>1, <1>9 DEF DeleteCategory, RemoveCategory, At, TaskFits
  <2>2. TasksFit'
    BY <1>1, <1>9, <2>1, ContinueTyped, EndTyped DEF DeleteCategory, RemoveCategory, Ops, Stages
  <2>3. db' \in Rows
    BY <1>1, <1>9, <2>1 DEF DeleteCategory, RemoveCategory, TypeOK, Rows
  <2>4. mem' \in Entries
    BY <1>1, <1>9, <2>1 DEF DeleteCategory, RemoveCategory, TypeOK, Entries
  <2>5. faults' \in 0..MaxFaults
    BY <1>1, <1>9, FaultTyped DEF DeleteCategory, RemoveCategory
  <2>6. QED
    BY <1>1, <1>9, <2>2, <2>3, <2>4, <2>5
       DEF DeleteCategory, RemoveCategory, Typed, TypeOK, TasksFit
<1>10. QED
  BY <1>2, <1>3, <1>4, <1>5, <1>6, <1>7, <1>8, <1>9 DEF CategoryStep

LEMMA GroupStepTyped ==
    ASSUME Typed, NEW t \in Tasks, GroupStep(t)
    PROVE  Typed'
<1> USE AdminStoreAssumption DEF state, history, bounds
<1>1. TypeOK /\ TasksFit /\ TaskFits(task[t]) /\ [Next]_vars /\ mem.groups \subseteq Groups
  BY DEF Typed, TasksFit, Next, TypeOK, Entries
<1>2. ASSUME NEW g \in Groups, NewGroup(t, g)
      PROVE  Typed'
  <2>1. PICK j : j = Begun("new_group", "memory", g)
    OBVIOUS
  <2>2. j \in Job /\ TaskFits(j)
    BY <2>1 DEF Begun, Job, Ops, Stages, LayerOps, TaskFits
  <2>3. TasksFit' /\ edits' \in 0..MaxEdits
    BY <1>1, <1>2, <2>1, <2>2, StartTyped, AtOnceTyped DEF NewGroup
  <2>4. faults' \in 0..MaxFaults
    BY <1>1, <1>2, FaultTyped DEF NewGroup
  <2>5. db' \in Rows
    BY <1>1, <1>2 DEF NewGroup, TypeOK, Rows
  <2>6. QED
    BY <1>1, <1>2, <2>3, <2>4, <2>5 DEF NewGroup, Typed, TypeOK, TasksFit
<1>3. ASSUME NEW g \in Groups, FindGroup(t, g)
      PROVE  Typed'
  <2>1. PICK j : j = Begun("update_group", "memory", g)
    OBVIOUS
  <2>3. j \in Job /\ TaskFits(j)
    BY <2>1 DEF Begun, Job, Ops, Stages, LayerOps, TaskFits
  <2>4. TasksFit' /\ edits' \in 0..MaxEdits
    BY <1>1, <1>3, <2>1, <2>3, StartTyped DEF FindGroup
  <2>5. QED
    BY <1>1, <1>3, <2>4 DEF FindGroup, Typed, TypeOK, TasksFit
<1>4. ASSUME NEW g \in Groups, CopyLayersForGroup(t, g)
      PROVE  Typed'
  <2>1. PICK j : j = [Begun("delete_group", "row", g) EXCEPT
                        !.used = \E l \in Present(mem.layers) : g \in mem.layers[l].groups]
    OBVIOUS
  <2>3. j \in Job /\ TaskFits(j)
    <3>1. PICK used \in BOOLEAN :
            used = \E l \in Present(mem.layers) : g \in mem.layers[l].groups
      OBVIOUS
    <3>2. j = [Begun("delete_group", "row", g) EXCEPT !.used = used]
      BY <2>1, <3>1
    <3>3. QED
      BY <3>2 DEF Begun, Job, Ops, Stages, LayerOps, TaskFits
  <2>4. TasksFit' /\ edits' \in 0..MaxEdits
    BY <1>1, <1>4, <2>1, <2>3, StartTyped DEF CopyLayersForGroup
  <2>5. QED
    BY <1>1, <1>4, <2>4 DEF CopyLayersForGroup, Typed, TypeOK, TasksFit
<1>5. ASSUME PushGroup(t)
      PROVE  Typed'
  <2>1. TasksFit'
    BY <1>1, <1>5, EndTyped DEF PushGroup
  <2>2. mem' \in Entries
    BY <1>1, <1>5 DEF PushGroup, At, TaskFits, TypeOK, Entries
  <2>3. shown' \subseteq Ids
    BY <1>1, <1>5, <2>2, ShowTyped DEF PushGroup
  <2>4. QED
    BY <1>1, <1>5, <2>1, <2>2, <2>3 DEF PushGroup, Typed, TypeOK, TasksFit
<1>6. ASSUME UpdateGroup(t) \/ DeleteGroup(t)
      PROVE  Typed'
  <2>1. task[t].id \in Groups
    BY <1>1, <1>6 DEF UpdateGroup, DeleteGroup, At, TaskFits
  <2>2. TasksFit'
    BY <1>1, <1>6, EndTyped DEF UpdateGroup, DeleteGroup
  <2>3. db' \in Rows
    BY <1>1, <1>6 DEF UpdateGroup, DeleteGroup, TypeOK, Rows
  <2>4. mem' \in Entries
    BY <1>1, <1>6, <2>1 DEF UpdateGroup, DeleteGroup, TypeOK, Entries
  <2>5. faults' \in 0..MaxFaults
    BY <1>1, <1>6, FaultTyped DEF UpdateGroup, DeleteGroup
  <2>6. missed' \subseteq (Layers \cup Styles \cup Users) \X (Categories \cup Groups)
    BY <1>1, <1>6, <2>1, HiddenTyped DEF UpdateGroup, DeleteGroup, TypeOK
  <2>7. lingering' \subseteq Groups
    BY <1>1, <1>6, <2>1 DEF UpdateGroup, DeleteGroup, TypeOK
  <2>8. QED
    BY <1>1, <1>6, <2>2, <2>3, <2>4, <2>5, <2>6, <2>7
       DEF UpdateGroup, DeleteGroup, Typed, TypeOK, TasksFit
<1>7. QED
  BY <1>2, <1>3, <1>4, <1>5, <1>6 DEF GroupStep

LEMMA UserStepTyped ==
    ASSUME Typed, UserStep
    PROVE  Typed'
<1> USE AdminStoreAssumption DEF state, history, bounds
<1>1. TypeOK /\ [Next]_vars
  BY DEF Typed, Next
<1>2. PICK u \in Users :
        \/ DeleteUser(u)
        \/ \E gs \in SUBSET Groups :
            \/ CreateUser(u, gs) \/ UpdateUser(u, gs) \/ UpdateUserFails(u, gs)
            \/ \E api, committed \in BOOLEAN : CreateUserFails(u, gs, api, committed)
  BY DEF UserStep
<1>3. PICK users \in [Users -> (SUBSET Groups) \cup {None}] : db' = [db EXCEPT !.users = users]
  <2>1. db.users \in [Users -> (SUBSET Groups) \cup {None}]
    BY <1>1 DEF TypeOK, Rows
  <2>2. ASSUME NEW x \in (SUBSET Groups) \cup {None}
        PROVE  [db.users EXCEPT ![u] = x] \in [Users -> (SUBSET Groups) \cup {None}]
    BY <2>1
  <2>3. CASE DeleteUser(u)
    BY <2>2, <2>3 DEF DeleteUser
  <2>4. ASSUME NEW gs \in SUBSET Groups, CreateUser(u, gs)
        PROVE  \E users \in [Users -> (SUBSET Groups) \cup {None}] :
                    db' = [db EXCEPT !.users = users]
    BY <2>2, <2>4 DEF CreateUser
  <2>5. ASSUME NEW gs \in SUBSET Groups, UserCommitted(u, gs)
        PROVE  \E users \in [Users -> (SUBSET Groups) \cup {None}] :
                    db' = [db EXCEPT !.users = users]
    BY <2>1, <2>2, <2>5 DEF UserCommitted, Replace
  <2>6. ASSUME NEW gs \in SUBSET Groups, NEW api, NEW committed, CreateUserFails(u, gs, api, committed)
        PROVE  \E users \in [Users -> (SUBSET Groups) \cup {None}] :
                    db' = [db EXCEPT !.users = users]
    <3>1. db = [db EXCEPT !.users = db.users]
      BY <1>1 DEF TypeOK, Rows
    <3>2. QED
      BY <2>1, <2>2, <2>6, <3>1 DEF CreateUserFails
  <2>7. QED
    BY <1>2, <2>3, <2>4, <2>5, <2>6 DEF UpdateUser, UpdateUserFails
<1>4. db' \in Rows
  BY <1>1, <1>3 DEF TypeOK, Rows
<1>5. mem' \in Entries
  BY <1>1, <1>2 DEF DeleteUser, CreateUser, UpdateUser, UpdateUserFails, CreateUserFails,
                    Replace, TypeOK, Entries
<1>6. TasksFit' /\ edits' \in 0..MaxEdits
  BY <1>1, <1>2, AtOnceTyped
     DEF DeleteUser, CreateUser, UpdateUser, UpdateUserFails, CreateUserFails, UserCommitted
<1>7. faults' \in 0..MaxFaults
  BY <1>1, <1>2, FaultTyped
     DEF DeleteUser, CreateUser, UpdateUser, UpdateUserFails, CreateUserFails
<1>8. missed' \subseteq (Layers \cup Styles \cup Users) \X (Categories \cup Groups)
  <2>1. PICK late \in SUBSET Groups : Refer(u, late)
    BY <1>2 DEF DeleteUser, CreateUser, UpdateUser, UpdateUserFails, CreateUserFails,
                UserCommitted, Lingering
  <2>2. QED
    BY <1>1, <2>1, ReferTyped
<1>9. shown' \subseteq Ids
  BY <1>1, <1>2, <1>5, ShowTyped
     DEF DeleteUser, CreateUser, UpdateUser, UpdateUserFails, CreateUserFails, TypeOK
<1>10. torn' \subseteq Layers \cup Users /\ outdated' \subseteq Layers /\ lingering' \subseteq Groups
  BY <1>1, <1>2 DEF DeleteUser, CreateUser, UpdateUser, UpdateUserFails, CreateUserFails, TypeOK
<1>11. QED
  BY <1>4, <1>5, <1>6, <1>7, <1>8, <1>9, <1>10 DEF Typed, TypeOK, TasksFit

LEMMA AddAdministratorTyped ==
    ASSUME TypeOK, AddAdministrator
    PROVE  /\ db' \in Rows
           /\ missed' \subseteq (Layers \cup Styles \cup Users) \X (Categories \cup Groups)
           /\ db'.categories = db.categories /\ db'.layers = db.layers
           /\ db'.styles = db.styles /\ db'.groups = db.groups
<1> USE AdminStoreAssumption
<1>1. PICK u \in Users :
        /\ db' = [db EXCEPT !.users[u] = {FirstGroup}]
        /\ Refer(u, {FirstGroup} \ db.groups)
  BY DEF AddAdministrator
<1>2. missed' \subseteq (Layers \cup Styles \cup Users) \X (Categories \cup Groups)
  BY <1>1, ReferTyped
<1>3. QED
  BY <1>1, <1>2 DEF TypeOK, Rows

LEMMA RestartTyped ==
    ASSUME Typed, Restart
    PROVE  Typed'
<1> USE AdminStoreAssumption DEF state, history, bounds
<1>1. TypeOK /\ TasksFit /\ [Next]_vars
  BY DEF Typed, Next
<1>2. /\ db' \in Rows
      /\ missed' \subseteq (Layers \cup Styles \cup Users) \X (Categories \cup Groups)
      /\ db'.categories = db.categories /\ db'.layers = db.layers
  BY <1>1, AddAdministratorTyped DEF Restart, TypeOK
<1>3. ASSUME NEW l \in Layers
      PROVE  LoadLayer(l)' \in Layer \cup {None}
  <2>1. CASE db'.layers[l] = None
    BY <2>1 DEF LoadLayer
  <2>2. CASE db'.layers[l] # None
    <3>1. PICK x \in LayerRow : x = db'.layers[l]
      BY <1>2, <2>2 DEF Rows
    <3>2. db'.categories[x.category] \in Names
      BY <1>2, <2>2, <3>1 DEF Restart, LayersReadable, Rows, LayerRow
    <3>3. LoadLayer(l)' = [category |-> x.category, label |-> db'.categories[x.category],
                           groups |-> x.groups \cap db'.groups, published |-> x.published]
      BY <2>2, <3>1 DEF LoadLayer
    <3>4. QED
      BY <3>1, <3>2, <3>3 DEF LayerRow, Layer
  <2>3. QED
    BY <2>1, <2>2
<1>4. ASSUME NEW u \in Users
      PROVE  LoadUser(u)' \in (SUBSET Groups) \cup {None}
  BY <1>2 DEF LoadUser, Rows
<1>5. mem' \in Entries
  BY <1>2, <1>3, <1>4 DEF Restart, Load, Entries, Rows
<1>6. TasksFit'
  BY IdleFits DEF Restart, TasksFit, TaskFits, Idle, LayerOps
<1>7. shown' \subseteq Ids
  BY <1>1, <1>5, ShowTyped DEF Restart
<1>8. faults' \in 0..MaxFaults
  BY <1>1, FaultTyped DEF Restart
<1>9. QED
  BY <1>1, <1>2, <1>5, <1>6, <1>7, <1>8 DEF Restart, Typed, TypeOK, TasksFit

LEMMA StepTyped == Typed /\ [Next]_vars => Typed'
<1>1. ASSUME Typed, UNCHANGED vars
      PROVE  Typed'
  BY <1>1 DEF Typed, TypeOK, TasksFit, TaskFits, vars, state, history, bounds
<1>2. QED
  BY <1>1, LayerStepTyped, LayerEditTyped, StyleStepTyped, CategoryStepTyped, GroupStepTyped,
     UserStepTyped, RestartTyped DEF Next

\* Rows and entries have the shape of their tables and structs, and a layer that is
\* loaded finds the name of its category (get_layers, Catalog::new, main.rs).
THEOREM TypeCorrect == Spec => []TypeOK
<1>1. Typed => TypeOK
  BY DEF Typed
<1>2. QED
  BY <1>1, InitTyped, StepTyped, PTL DEF Spec

-----------------------------------------------------------------------------
(***************************************************************************)
(* Which steps change which list or its rows.                              *)
(***************************************************************************)

LEMMA LayerChanges ==
    ASSUME Typed, [Next]_vars
    PROVE  \/ db'.layers = db.layers /\ mem'.layers = mem.layers
           \/ \E t \in Tasks, published \in BOOLEAN :
                SaveLayer(t, published) \/ SaveLayerFails(t, published)
           \/ \E l \in Layers : DeleteLayer(l) \/ SwitchPublished(l) \/ EditLayerFails(l)
           \/ \E t \in Tasks : UpdateCategory(t)
           \/ Restart
<1> DEFINE Same == db'.layers = db.layers /\ mem'.layers = mem.layers
<1> USE DEF state, history, bounds
<1>1. db \in Rows /\ mem \in Entries
  BY DEF Typed, TypeOK
<1>2. ASSUME NEW t \in Tasks, LayerStep(t)
      PROVE  Same \/ \E published \in BOOLEAN : SaveLayer(t, published) \/ SaveLayerFails(t, published)
  BY <1>2 DEF LayerStep, LookUpForLayer, ResolveGroups, LayerNotFound
<1>3. ASSUME NEW t \in Tasks, StyleStep(t)
      PROVE  Same
  BY <1>1, <1>3 DEF StyleStep, LookUpStyleToDelete, LookUpForStyle, WriteStyle, WriteStyleFails,
              StyleCommitted, ReadStyles, ReadStylesFails, SwapStyles, Rows, Entries
<1>4. ASSUME NEW t \in Tasks, CategoryStep(t)
      PROVE  Same \/ UpdateCategory(t)
  BY <1>1, <1>4 DEF CategoryStep, NewCategory, LookUpCategory, PushCategory, WriteCategory,
              WriteCategoryFails, CategoryRenamed, CopyLayers, CheckCategory, DeleteCategory,
              RemoveCategory, Rows, Entries
<1>5. ASSUME NEW t \in Tasks, GroupStep(t)
      PROVE  Same
  BY <1>1, <1>5 DEF GroupStep, NewGroup, FindGroup, CopyLayersForGroup, PushGroup, UpdateGroup,
              DeleteGroup, Rows, Entries
<1>6. CASE UserStep
  BY <1>1, <1>6 DEF UserStep, DeleteUser, CreateUser, CreateUserFails, UserCommitted, UpdateUser,
              UpdateUserFails, Rows, Entries
<1>7. CASE UNCHANGED vars
  BY <1>7 DEF vars
<1>8. QED
  BY <1>2, <1>3, <1>4, <1>5, <1>6, <1>7 DEF Next

LEMMA UserChanges ==
    ASSUME Typed, [Next]_vars
    PROVE  (db'.users = db.users /\ mem'.users = mem.users) \/ UserStep \/ Restart
<1> DEFINE Same == db'.users = db.users /\ mem'.users = mem.users
<1> USE DEF state, history, bounds
<1>1. db \in Rows /\ mem \in Entries
  BY DEF Typed, TypeOK
<1>2. ASSUME NEW t \in Tasks, LayerStep(t)
      PROVE  Same
  BY <1>1, <1>2 DEF LayerStep, LookUpForLayer, ResolveGroups, LayerNotFound, SaveLayer,
              SaveLayerFails, LayerCommitted, Rows, Entries
<1>3. ASSUME NEW t \in Tasks, StyleStep(t)
      PROVE  Same
  BY <1>1, <1>3 DEF StyleStep, LookUpStyleToDelete, LookUpForStyle, WriteStyle, WriteStyleFails,
              StyleCommitted, ReadStyles, ReadStylesFails, SwapStyles, Rows, Entries
<1>4. ASSUME NEW t \in Tasks, CategoryStep(t)
      PROVE  Same
  BY <1>1, <1>4 DEF CategoryStep, NewCategory, LookUpCategory, PushCategory, WriteCategory,
              WriteCategoryFails, CategoryRenamed, UpdateCategory, Renamed, CopyLayers,
              CheckCategory, DeleteCategory, RemoveCategory, Rows, Entries
<1>5. ASSUME NEW t \in Tasks, GroupStep(t)
      PROVE  Same
  BY <1>1, <1>5 DEF GroupStep, NewGroup, FindGroup, CopyLayersForGroup, PushGroup, UpdateGroup,
              DeleteGroup, Rows, Entries
<1>6. ASSUME NEW l \in Layers, DeleteLayer(l) \/ SwitchPublished(l) \/ EditLayerFails(l)
      PROVE  Same
  BY <1>1, <1>6 DEF DeleteLayer, SwitchPublished, EditLayerFails, Rows, Entries
<1>7. CASE UNCHANGED vars
  BY <1>7 DEF vars
<1>8. QED
  BY <1>2, <1>3, <1>4, <1>5, <1>6, <1>7 DEF Next

LEMMA GroupChanges ==
    ASSUME Typed, [Next]_vars
    PROVE  \/ db'.groups = db.groups /\ mem'.groups = mem.groups /\ lingering' = lingering
           \/ \E t \in Tasks :
                \/ \E g \in Groups : NewGroup(t, g)
                \/ PushGroup(t) \/ UpdateGroup(t) \/ DeleteGroup(t)
           \/ Restart
<1> DEFINE Same == db'.groups = db.groups /\ mem'.groups = mem.groups /\ lingering' = lingering
<1> USE DEF state, history, bounds
<1>1. db \in Rows /\ mem \in Entries
  BY DEF Typed, TypeOK
<1>2. ASSUME NEW t \in Tasks, LayerStep(t)
      PROVE  Same
  BY <1>1, <1>2 DEF LayerStep, LookUpForLayer, ResolveGroups, LayerNotFound, SaveLayer,
              SaveLayerFails, LayerCommitted, Rows, Entries
<1>3. ASSUME NEW t \in Tasks, StyleStep(t)
      PROVE  Same
  BY <1>1, <1>3 DEF StyleStep, LookUpStyleToDelete, LookUpForStyle, WriteStyle, WriteStyleFails,
              StyleCommitted, ReadStyles, ReadStylesFails, SwapStyles, Rows, Entries
<1>4. ASSUME NEW t \in Tasks, CategoryStep(t)
      PROVE  Same
  BY <1>1, <1>4 DEF CategoryStep, NewCategory, LookUpCategory, PushCategory, WriteCategory,
              WriteCategoryFails, CategoryRenamed, UpdateCategory, Renamed, CopyLayers,
              CheckCategory, DeleteCategory, RemoveCategory, Rows, Entries
<1>5. ASSUME NEW t \in Tasks, GroupStep(t)
      PROVE  \/ Same
             \/ \E g \in Groups : NewGroup(t, g)
             \/ PushGroup(t) \/ UpdateGroup(t) \/ DeleteGroup(t)
  BY <1>1, <1>5 DEF GroupStep, FindGroup, CopyLayersForGroup, Rows, Entries
<1>6. CASE UserStep
  BY <1>1, <1>6 DEF UserStep, DeleteUser, CreateUser, CreateUserFails, UserCommitted, UpdateUser,
              UpdateUserFails, Rows, Entries
<1>7. ASSUME NEW l \in Layers, DeleteLayer(l) \/ SwitchPublished(l) \/ EditLayerFails(l)
      PROVE  Same
  BY <1>1, <1>7 DEF DeleteLayer, SwitchPublished, EditLayerFails, Rows, Entries
<1>8. CASE UNCHANGED vars
  BY <1>8 DEF vars
<1>9. QED
  BY <1>2, <1>3, <1>4, <1>5, <1>6, <1>7, <1>8 DEF Next

-----------------------------------------------------------------------------
(***************************************************************************)
(* What the steps that change layers do to them, row by row.               *)
(***************************************************************************)

\* The row of a layer, as it is in memory under a name of its category.
EntryOf(row, label) ==
    [category |-> row.category, label |-> label, groups |-> row.groups,
     published |-> row.published]

\* Nothing but layers changes.
OnlyLayersChange ==
    /\ db'.categories = db.categories /\ mem'.categories = mem.categories
    /\ db'.styles = db.styles /\ mem'.styles = mem.styles
    /\ db'.groups = db.groups /\ mem'.groups = mem.groups
    /\ db'.users = db.users /\ mem'.users = mem.users

\* The references that are missed when a layer is saved.
Late(refs) ==
    {x \in refs : x \notin Present(db.categories) \cup db.groups \/ DeletionLooked(x)}

\* t saves layer l: its row, unless it was deleted, and its entry.
Saved(t, published, l, row, label) ==
    /\ task[t].op \in LayerOps /\ l = task[t].id /\ label = task[t].label
    /\ row.category = task[t].category /\ row.groups = task[t].groups
    /\ OnlyLayersChange /\ task' = [task EXCEPT ![t] = Idle]
    /\ \A k \in Layers \ {l} :
        db'.layers[k] = db.layers[k] /\ mem'.layers[k] = mem.layers[k]
    /\ db'.layers[l] = IF l \notin shown \/ db.layers[l] # None THEN row ELSE None
    /\ SaveLayer(t, published) =>
        /\ mem'.layers[l] = IF l \notin shown \/ mem.layers[l] # None
                            THEN EntryOf(row, label) ELSE None
        /\ torn' = IF db'.layers[l] = row THEN torn \ {l} ELSE torn
    /\ SaveLayerFails(t, published) => mem' = mem /\ torn' = torn \cup {l}
    /\ Refer(l, IF l \notin shown \/ db.layers[l] # None
                THEN Late(row.groups \cup {row.category}) ELSE {})

LEMMA SaveLayerEffect ==
    ASSUME Typed, NEW t \in Tasks, NEW published \in BOOLEAN,
           SaveLayer(t, published) \/ SaveLayerFails(t, published)
    PROVE  \E l \in Layers, row \in LayerRow, label \in Names : Saved(t, published, l, row, label)
<1>1. db \in Rows /\ mem \in Entries
  BY DEF Typed, TypeOK
<1>2. /\ task[t] \in Job /\ task[t].op \in LayerOps /\ TaskFits(task[t])
  BY DEF SaveLayer, SaveLayerFails, CanSaveLayer, LayerOps, Idle, Typed, TasksFit
<1>3. PICK l \in Layers : l = task[t].id
  BY <1>2 DEF TaskFits
<1>4. PICK label \in Names : label = task[t].label
  BY <1>2 DEF TaskFits
<1>5. PICK row : row = [category |-> task[t].category, groups |-> task[t].groups,
                        published |-> published]
  OBVIOUS
<1>6. row \in LayerRow /\ row.category = task[t].category /\ row.groups = task[t].groups
  BY <1>2, <1>5 DEF TaskFits, Job, LayerRow
<1>7. EntryOf(row, label) = [category |-> task[t].category, label |-> task[t].label,
                             groups |-> task[t].groups, published |-> published]
  BY <1>4, <1>5 DEF EntryOf
<1>8. LayerCommitted(t, row)
  BY <1>5 DEF SaveLayer, SaveLayerFails
<1>9. PICK exists \in BOOLEAN : exists = (l \notin shown \/ db.layers[l] # None)
  OBVIOUS
<1>10. /\ db' = IF exists THEN [db EXCEPT !.layers[l] = row] ELSE db
       /\ Refer(l, IF exists
                   THEN Late(row.groups \cup {row.category}) ELSE {})
  BY <1>3, <1>8, <1>9 DEF LayerCommitted, Late
<1>11. /\ SaveLayer(t, published) =>
            mem' = IF l \notin shown \/ mem.layers[l] # None
                   THEN [mem EXCEPT !.layers[l] = EntryOf(row, label)] ELSE mem
       /\ SaveLayerFails(t, published) => mem' = mem
  BY <1>3, <1>7 DEF SaveLayer, SaveLayerFails
<1>12. /\ \A k \in Layers \ {l} : db'.layers[k] = db.layers[k]
       /\ db'.layers[l] = IF exists THEN row ELSE None
       /\ db'.categories = db.categories /\ db'.styles = db.styles
       /\ db'.groups = db.groups /\ db'.users = db.users
  BY <1>1, <1>9, <1>10 DEF Rows
<1>13. /\ \A k \in Layers \ {l} : mem'.layers[k] = mem.layers[k]
       /\ SaveLayer(t, published) =>
            mem'.layers[l] = IF l \notin shown \/ mem.layers[l] # None
                             THEN EntryOf(row, label) ELSE None
       /\ mem'.categories = mem.categories /\ mem'.styles = mem.styles
       /\ mem'.groups = mem.groups /\ mem'.users = mem.users
  BY <1>1, <1>11 DEF Entries
<1>14. task' = [task EXCEPT ![t] = Idle]
  BY DEF SaveLayer, SaveLayerFails, End
<1>15. /\ SaveLayer(t, published) => torn' = IF db'.layers[l] = row THEN torn \ {l} ELSE torn
       /\ SaveLayerFails(t, published) => torn' = torn \cup {l}
  BY <1>3, <1>5 DEF SaveLayer, SaveLayerFails
<1>16. Saved(t, published, l, row, label)
  <2>1. /\ Refer(l, IF l \notin shown \/ db.layers[l] # None
                    THEN Late(row.groups \cup {row.category}) ELSE {})
        /\ db'.layers[l] = IF l \notin shown \/ db.layers[l] # None THEN row ELSE None
    BY <1>9, <1>10, <1>12
  <2>2. OnlyLayersChange
    BY <1>12, <1>13 DEF OnlyLayersChange
  <2>3. QED
    BY <1>2, <1>3, <1>4, <1>6, <1>11, <1>12, <1>13, <1>14, <1>15, <2>1, <2>2 DEF Saved
<1>17. QED
  BY <1>6, <1>16

\* A row or entry that is there, switched.
SwitchedTo(new, old) ==
    /\ new = None <=> old = None
    /\ old # None =>
        /\ new.category = old.category /\ new.groups = old.groups
        /\ new.published = ~old.published

LEMMA LayerEditEffect ==
    ASSUME Typed, NEW l \in Layers, DeleteLayer(l) \/ SwitchPublished(l) \/ EditLayerFails(l)
    PROVE  /\ OnlyLayersChange /\ task' = task
           /\ \A k \in Layers \ {l} :
                db'.layers[k] = db.layers[k] /\ mem'.layers[k] = mem.layers[k]
           /\ \/ /\ DeleteLayer(l) /\ Refer(l, {})
                 /\ db'.layers[l] = None /\ mem'.layers[l] = None
              \/ /\ SwitchPublished(l) /\ missed' = missed
                 /\ SwitchedTo(db'.layers[l], db.layers[l])
                 /\ SwitchedTo(mem'.layers[l], mem.layers[l])
                 /\ mem.layers[l] # None => mem'.layers[l].label = mem.layers[l].label
              \/ /\ EditLayerFails(l) /\ mem' = mem
                 /\ \/ db'.layers[l] = None /\ Refer(l, {})
                    \/ SwitchedTo(db'.layers[l], db.layers[l]) /\ missed' = missed
<1> USE AdminStoreAssumption DEF state, history, bounds
<1>1. db \in Rows /\ mem \in Entries
  BY DEF Typed, TypeOK
<1>2. PICK x \in LayerRow \cup {None} : x = db.layers[l]
  BY <1>1 DEF Rows
<1>3. PICK y \in Layer \cup {None} : y = mem.layers[l]
  BY <1>1 DEF Entries
<1>4. /\ Switched(db.layers, l)[l] = IF x = None THEN x ELSE [x EXCEPT !.published = ~x.published]
      /\ Switched(mem.layers, l)[l] = IF y = None THEN y ELSE [y EXCEPT !.published = ~y.published]
      /\ \A k \in Layers \ {l} : Switched(db.layers, l)[k] = db.layers[k]
      /\ \A k \in Layers \ {l} : Switched(mem.layers, l)[k] = mem.layers[k]
  <2>1. db.layers \in [Layers -> LayerRow \cup {None}] /\ mem.layers \in [Layers -> Layer \cup {None}]
    BY <1>1 DEF Rows, Entries
  <2>2. QED
    BY <1>2, <1>3, <2>1 DEF Switched
<1>5. SwitchedTo(Switched(db.layers, l)[l], db.layers[l])
  <2>1. x # None => [x EXCEPT !.published = ~x.published] \in LayerRow
    BY DEF LayerRow
  <2>2. x # None => SwitchedTo([x EXCEPT !.published = ~x.published], x)
    BY <2>1 DEF LayerRow, SwitchedTo
  <2>3. QED
    BY <1>2, <1>4, <2>2 DEF SwitchedTo
<1>6. /\ SwitchedTo(Switched(mem.layers, l)[l], mem.layers[l])
      /\ mem.layers[l] # None => Switched(mem.layers, l)[l].label = mem.layers[l].label
  <2>1. y # None => [y EXCEPT !.published = ~y.published] \in Layer
    BY DEF Layer
  <2>2. y # None => SwitchedTo([y EXCEPT !.published = ~y.published], y)
    BY <2>1 DEF Layer, SwitchedTo
  <2>3. y # None => [y EXCEPT !.published = ~y.published].label = y.label
    BY DEF Layer
  <2>4. QED
    BY <1>3, <1>4, <2>2, <2>3 DEF SwitchedTo
<1>7. OnlyLayersChange /\ task' = task
  BY <1>1 DEF DeleteLayer, SwitchPublished, EditLayerFails, AtOnce, OnlyLayersChange, Rows, Entries
<1>8. CASE DeleteLayer(l)
  <2>1. db' = [db EXCEPT !.layers[l] = None] /\ mem' = [mem EXCEPT !.layers[l] = None] /\ Refer(l, {})
    BY <1>8 DEF DeleteLayer
  <2>2. QED
    BY <1>1, <1>7, <1>8, <2>1 DEF Rows, Entries
<1>9. CASE SwitchPublished(l)
  <2>1. /\ db' = [db EXCEPT !.layers = Switched(db.layers, l)]
        /\ mem' = [mem EXCEPT !.layers = Switched(mem.layers, l)]
        /\ missed' = missed
    BY <1>9 DEF SwitchPublished
  <2>2. db'.layers = Switched(db.layers, l) /\ mem'.layers = Switched(mem.layers, l)
    BY <1>1, <2>1 DEF Rows, Entries
  <2>3. QED
    BY <1>4, <1>5, <1>6, <1>7, <1>9, <2>1, <2>2
<1>10. CASE EditLayerFails(l)
  <2>1. mem' = mem
    BY <1>10 DEF EditLayerFails
  <2>2. CASE db' = [db EXCEPT !.layers[l] = None] /\ Refer(l, {})
    BY <1>1, <1>7, <1>10, <2>1, <2>2 DEF Rows
  <2>3. CASE db' = [db EXCEPT !.layers = Switched(db.layers, l)] /\ missed' = missed
    <3>1. db'.layers = Switched(db.layers, l)
      BY <1>1, <2>3 DEF Rows
    <3>2. QED
      BY <1>4, <1>5, <1>7, <1>10, <2>1, <2>3, <3>1
  <2>4. QED
    BY <1>10, <2>2, <2>3 DEF EditLayerFails
<1>11. QED
  BY <1>8, <1>9, <1>10

\* What a restart finds: the rows, with one administrator more if there was none.
LEMMA RestartEffect ==
    ASSUME Typed, Restart
    PROVE  /\ db'.categories = db.categories /\ mem'.categories = db.categories
           /\ db'.styles = db.styles /\ mem'.styles = db.styles
           /\ db'.groups = db.groups /\ mem'.groups = db.groups
           /\ db'.layers = db.layers
           /\ \A l \in Layers :
                /\ db.layers[l] = None => mem'.layers[l] = None
                /\ db.layers[l] # None =>
                    /\ mem'.layers[l] # None
                    /\ mem'.layers[l].category = db.layers[l].category
                    /\ mem'.layers[l].label = db.categories[db.layers[l].category]
                    /\ mem'.layers[l].groups = db.layers[l].groups \cap db.groups
                    /\ mem'.layers[l].published = db.layers[l].published
           /\ \A u \in Users :
                mem'.users[u] = IF db'.users[u] = None THEN None ELSE db'.users[u] \cap db.groups
           /\ \/ db'.users = db.users /\ missed' = missed
              \/ \E u \in Users :
                    /\ db'.users = [db.users EXCEPT ![u] = {FirstGroup}]
                    /\ Refer(u, {FirstGroup} \ db.groups)
<1> USE AdminStoreAssumption
<1>1. TypeOK /\ db \in Rows
  BY DEF Typed, TypeOK
<1>2. /\ db' \in Rows
      /\ db'.categories = db.categories /\ db'.layers = db.layers
      /\ db'.styles = db.styles /\ db'.groups = db.groups
  BY <1>1, AddAdministratorTyped DEF Restart
<1>3. \/ db'.users = db.users /\ missed' = missed
      \/ \E u \in Users :
            /\ db'.users = [db.users EXCEPT ![u] = {FirstGroup}]
            /\ Refer(u, {FirstGroup} \ db.groups)
  <2>1. CASE AddAdministrator
    <3>1. PICK u \in Users :
            /\ db' = [db EXCEPT !.users[u] = {FirstGroup}]
            /\ Refer(u, {FirstGroup} \ db.groups)
      BY <2>1 DEF AddAdministrator
    <3>2. QED
      BY <1>1, <3>1 DEF Rows
  <2>2. CASE UNCHANGED <<db, missed>>
    BY <2>2
  <2>3. QED
    BY <2>1, <2>2 DEF Restart
<1>4. /\ mem'.categories = db'.categories /\ mem'.styles = db'.styles /\ mem'.groups = db'.groups
  BY DEF Restart, Load
<1>5. ASSUME NEW l \in Layers, db.layers[l] # None
      PROVE  /\ mem'.layers[l] # None
             /\ mem'.layers[l].category = db.layers[l].category
             /\ mem'.layers[l].label = db.categories[db.layers[l].category]
             /\ mem'.layers[l].groups = db.layers[l].groups \cap db.groups
             /\ mem'.layers[l].published = db.layers[l].published
  <2>1. PICK x : x = mem'.layers[l]
    OBVIOUS
  <2>2. x = [category |-> db.layers[l].category,
             label |-> db.categories[db.layers[l].category],
             groups |-> db.layers[l].groups \cap db.groups,
             published |-> db.layers[l].published]
    BY <1>2, <1>5, <2>1 DEF Restart, Load, LoadLayer
  <2>3. x # None
    <3>1. db.layers[l] \in LayerRow
      BY <1>1, <1>5 DEF Rows
    <3>2. db.categories[db.layers[l].category] \in Names
      BY <1>1, <1>5, <3>1 DEF Restart, LayersReadable, Rows, LayerRow
    <3>3. x \in Layer
      BY <2>2, <3>1, <3>2 DEF LayerRow, Layer
    <3>4. QED
      BY <3>3
  <2>4. QED
    BY <2>1, <2>2, <2>3
<1>6. \A l \in Layers : db.layers[l] = None => mem'.layers[l] = None
  BY <1>2 DEF Restart, Load, LoadLayer
<1>7. \A u \in Users :
        mem'.users[u] = IF db'.users[u] = None THEN None ELSE db'.users[u] \cap db.groups
  BY <1>2 DEF Restart, Load, LoadUser
<1>8. QED
  BY <1>2, <1>3, <1>4, <1>5, <1>6, <1>7

\* What a rename leaves of the layers.
LEMMA UpdateCategoryEffect ==
    ASSUME Typed, NEW t \in Tasks, UpdateCategory(t)
    PROVE  /\ task[t].id \in Categories \cap shown /\ task[t].label \in Names
           /\ db' = db /\ mem' = Renamed(task[t].id, task[t].label)
           /\ mem'.categories = [mem.categories EXCEPT ![task[t].id] = task[t].label]
           /\ mem'.styles = mem.styles /\ mem'.groups = mem.groups /\ mem'.users = mem.users
           /\ \A l \in Layers :
                /\ mem.layers[l] = None => mem'.layers[l] = None
                /\ mem.layers[l] # None =>
                    /\ mem'.layers[l] # None
                    /\ mem'.layers[l].category = mem.layers[l].category
                    /\ mem'.layers[l].groups = mem.layers[l].groups
                    /\ mem'.layers[l].published = mem.layers[l].published
                    /\ mem'.layers[l].label =
                        IF mem.layers[l].category = task[t].id THEN task[t].label
                        ELSE mem.layers[l].label
           /\ task' = [task EXCEPT ![t].at = "read"]
           /\ shown' = shown /\ torn' = torn /\ missed' = missed
<1>1. TypeOK /\ TaskFits(task[t]) /\ task[t].op = "update_category"
  BY DEF Typed, TasksFit, UpdateCategory, At
<1>2. task[t].id \in Categories \cap shown /\ task[t].label \in Names
  BY <1>1 DEF TaskFits
<1>3. /\ db' = db /\ mem' = Renamed(task[t].id, task[t].label)
      /\ task' = [task EXCEPT ![t].at = "read"]
      /\ shown' = shown /\ torn' = torn /\ missed' = missed
  BY DEF UpdateCategory, Continue
<1>4. None \notin Layer
  BY AdminStoreAssumption
<1>5. QED
  BY <1>1, <1>2, <1>3, <1>4, RenamedTyped

\* u is created, updated or deleted, with the groups gs: what its row and its entry
\* become, and which of its references count as missed.
UserEdited(u, gs) ==
    /\ gs \subseteq Groups
    /\ gs \subseteq mem.groups \/ (mem.users[u] # None /\ gs = mem.users[u])
    /\ db'.categories = db.categories /\ mem'.categories = mem.categories
    /\ db'.layers = db.layers /\ mem'.layers = mem.layers
    /\ db'.styles = db.styles /\ mem'.styles = mem.styles
    /\ db'.groups = db.groups /\ mem'.groups = mem.groups
    /\ task' = task /\ lingering' = lingering
    /\ \A v \in Users \ {u} : db'.users[v] = db.users[v] /\ mem'.users[v] = mem.users[v]
    /\ \/ db'.users[u] = None /\ Refer(u, {})
       \/ db'.users[u] = gs /\ Refer(u, Lingering(gs))
    /\ mem'.users[u] \in {mem.users[u], None, gs}
    /\ Show \/ (shown' = shown /\ u \in shown)

LEMMA UserStepEffect ==
    ASSUME Typed, UserStep
    PROVE  \E u \in Users, gs \in SUBSET Groups : UserEdited(u, gs)
<1> USE AdminStoreAssumption DEF state, history, bounds
<1>1. db \in Rows /\ mem \in Entries
  BY DEF Typed, TypeOK
<1>2. ASSUME NEW u \in Users, DeleteUser(u)
      PROVE  UserEdited(u, {})
  BY <1>1, <1>2 DEF DeleteUser, AtOnce, UserEdited, Rows, Entries
<1>3. ASSUME NEW u \in Users, NEW gs \in SUBSET Groups, CreateUser(u, gs)
      PROVE  UserEdited(u, gs)
  BY <1>1, <1>3 DEF CreateUser, AtOnce, UserEdited, Rows, Entries
<1>4. ASSUME NEW u \in Users, NEW gs \in SUBSET Groups, UpdateUser(u, gs) \/ UpdateUserFails(u, gs)
      PROVE  UserEdited(u, gs)
  BY <1>1, <1>4 DEF UpdateUser, UpdateUserFails, UserCommitted, UserGroups, Replace, AtOnce,
                    UserEdited, Rows, Entries
<1>5. ASSUME NEW u \in Users, NEW gs \in SUBSET Groups, NEW api \in BOOLEAN, NEW committed \in BOOLEAN,
             CreateUserFails(u, gs, api, committed)
      PROVE  UserEdited(u, gs)
  <2>1. db.users[u] = None
    BY <1>1, <1>5 DEF CreateUserFails, Fresh, Listed, Present, Rows
  <2>2. QED
    BY <1>1, <1>5, <2>1 DEF CreateUserFails, AtOnce, UserEdited, Rows, Entries
<1>6. QED
  BY <1>2, <1>3, <1>4, <1>5 DEF UserStep

-----------------------------------------------------------------------------
(***************************************************************************)
(* What is referred to has been shown.                                     *)
(***************************************************************************)

LEMMA LayersReferToShownKept ==
    ASSUME Typed, RefersToShown, [Next]_vars
    PROVE  LayersReferToShown'
<1>1. shown \subseteq shown'
  BY ShownGrows
<1>2. LayersReferToShown /\ TasksReferToShown
  BY DEF RefersToShown
<1>3. CASE db'.layers = db.layers /\ mem'.layers = mem.layers
  BY <1>1, <1>2, <1>3 DEF LayersReferToShown
<1>4. ASSUME NEW t \in Tasks, NEW published \in BOOLEAN,
             SaveLayer(t, published) \/ SaveLayerFails(t, published)
      PROVE  LayersReferToShown'
  <2>1. PICK l \in Layers, row \in LayerRow, label \in Names : Saved(t, published, l, row, label)
    BY <1>4, SaveLayerEffect
  <2>2. row.groups \cup {row.category} \subseteq shown
    BY <1>2, <2>1 DEF Saved, TasksReferToShown, Typed, TasksFit, TaskFits
  <2>3. db'.layers[l] \in {row, None} /\ mem'.layers[l] \in {mem.layers[l], EntryOf(row, label), None}
    BY <1>4, <2>1 DEF Saved
  <2>4. EntryOf(row, label).groups = row.groups /\ EntryOf(row, label).category = row.category
    BY DEF EntryOf
  <2>5. \A k \in Layers \ {l} : db'.layers[k] = db.layers[k] /\ mem'.layers[k] = mem.layers[k]
    BY <2>1 DEF Saved
  <2>6. QED
    BY <1>1, <1>2, <2>2, <2>3, <2>4, <2>5 DEF LayersReferToShown
<1>5. ASSUME NEW l \in Layers, DeleteLayer(l) \/ SwitchPublished(l) \/ EditLayerFails(l)
      PROVE  LayersReferToShown'
  BY <1>1, <1>2, <1>5, LayerEditEffect DEF LayersReferToShown, SwitchedTo
<1>6. ASSUME NEW t \in Tasks, UpdateCategory(t)
      PROVE  LayersReferToShown'
  BY <1>1, <1>2, <1>6, UpdateCategoryEffect DEF LayersReferToShown
<1>7. CASE Restart
  BY <1>1, <1>2, <1>7, RestartEffect DEF LayersReferToShown
<1>8. QED
  BY <1>3, <1>4, <1>5, <1>6, <1>7, LayerChanges

LEMMA UsersReferToShownKept ==
    ASSUME Typed, RefersToShown, [Next]_vars
    PROVE  UsersReferToShown'
<1>1. shown \subseteq shown' /\ UsersReferToShown /\ mem.groups \subseteq shown /\ FirstGroup \in shown
  BY ShownGrows DEF RefersToShown, ListedIsShown, Listed
<1>2. CASE db'.users = db.users /\ mem'.users = mem.users
  BY <1>1, <1>2 DEF UsersReferToShown
<1>3. CASE UserStep
  <2>1. PICK u \in Users, gs \in SUBSET Groups : UserEdited(u, gs)
    BY <1>3, UserStepEffect
  <2>2. gs \subseteq shown
    BY <1>1, <2>1 DEF UserEdited, UsersReferToShown
  <2>3. QED
    BY <1>1, <2>1, <2>2 DEF UserEdited, UsersReferToShown
<1>4. CASE Restart
  <2>1. \A u \in Users : db'.users[u] = db.users[u] \/ db'.users[u] = {FirstGroup}
    BY <1>4, RestartEffect DEF Typed, TypeOK, Rows
  <2>2. \A u \in Users : mem'.users[u] = None \/ mem'.users[u] \subseteq db'.users[u]
    BY <1>4, RestartEffect
  <2>3. ASSUME NEW u \in Users, db'.users[u] # None
        PROVE  db'.users[u] \subseteq shown'
    BY <1>1, <2>1, <2>3 DEF UsersReferToShown
  <2>4. ASSUME NEW u \in Users, mem'.users[u] # None
        PROVE  mem'.users[u] \subseteq shown'
    BY <1>4, <2>2, <2>3, <2>4, RestartEffect
  <2>5. QED
    BY <2>3, <2>4 DEF UsersReferToShown
<1>5. QED
  BY <1>2, <1>3, <1>4, UserChanges

-----------------------------------------------------------------------------
(***************************************************************************)
(* How the handlers move.                                                  *)
(***************************************************************************)

\* j goes on with what old does.
Continues(t, old, j) ==
    /\ j.op = old.op /\ j.id = old.id /\ j.op \in Ops \ {"delete_group"}
    /\ j.groups = old.groups \/ j.groups \subseteq mem.groups
    /\ j.op = "delete_category" => (CheckCategory(t) /\ j.at = "row") \/ j.at = "memory"

\* j begins.
Begins(t, j) ==
    \/ j.op \in LayerOps /\ j.groups = {}
    \/ j.op \in {"save_style", "delete_style", "update_category"}
    \/ j.op = "new_category" /\ Fresh(j.id)
    \/ j.op = "new_group" /\ Fresh(j.id) /\ j.id \in db'.groups
    \/ j.op = "update_group" /\ j.id \in mem.groups
    \/ j.op = "delete_category" /\ CopyLayers(t, j.id)
    \/ j.op = "delete_group" /\ CopyLayersForGroup(t, j.id)

TaskMoves(t, j) ==
    /\ task' = [task EXCEPT ![t] = j]
    /\ \/ j = Idle
       \/ Continues(t, task[t], j)
       \/ task[t] = Idle /\ Begins(t, j)

LEMMA ContinueMoves ==
    ASSUME Typed, NEW t \in Tasks, NEW at, Continue(t, at),
           task[t].op \in Ops \ {"delete_category", "delete_group"}
    PROVE  \E j : TaskMoves(t, j)
<1>1. PICK old \in Job : old = task[t]
  BY DEF Typed, TasksFit, Idle, Ops
<1>2. PICK j : j = [old EXCEPT !.at = at]
  OBVIOUS
<1>3. j.op = old.op /\ j.id = old.id /\ j.groups = old.groups
  BY <1>1, <1>2 DEF Job
<1>4. task' = [task EXCEPT ![t] = j]
  BY <1>1, <1>2 DEF Continue, Typed, TasksFit
<1>5. Continues(t, task[t], j)
  BY <1>1, <1>3 DEF Continues
<1>6. QED
  BY <1>4, <1>5 DEF TaskMoves

LEMMA BeginMoves ==
    ASSUME NEW t \in Tasks, NEW j, Start(t, j), Begins(t, j)
    PROVE  \E k : TaskMoves(t, k)
BY DEF Start, TaskMoves

LEMMA EndMoves ==
    ASSUME NEW t \in Tasks, End(t)
    PROVE  \E j : TaskMoves(t, j)
BY DEF End, TaskMoves

LEMMA LayerStepMoves ==
    ASSUME Typed, NEW t \in Tasks, LayerStep(t)
    PROVE  \E j : TaskMoves(t, j)
<1>1. ASSUME NEW op \in LayerOps, NEW l \in Layers, NEW c \in Categories, LookUpForLayer(t, op, l, c)
      PROVE  \E j : TaskMoves(t, j)
  <2>1. PICK j : j = [Begun(op, "groups", l) EXCEPT !.category = c, !.label = db.categories[c]]
    OBVIOUS
  <2>2. j.op \in LayerOps /\ j.groups = {}
    BY <2>1 DEF Begun
  <2>3. QED
    BY <1>1, <2>1, <2>2, BeginMoves DEF LookUpForLayer, Begins
<1>2. ASSUME NEW gs \in SUBSET Groups, ResolveGroups(t, gs)
      PROVE  \E j : TaskMoves(t, j)
  <2>1. PICK old \in Job : old = task[t] /\ old.op \in LayerOps
    BY <1>2 DEF Typed, TasksFit, ResolveGroups, Idle, LayerOps
  <2>2. PICK j : j = [old EXCEPT !.groups = gs, !.at = "save"]
    OBVIOUS
  <2>3. j.op = old.op /\ j.id = old.id /\ j.groups = gs
    BY <2>1, <2>2 DEF Job
  <2>4. task' = [task EXCEPT ![t] = j] /\ gs \subseteq mem.groups
    BY <1>2, <2>1, <2>2 DEF ResolveGroups, Typed, TasksFit
  <2>5. Continues(t, task[t], j)
    BY <2>1, <2>3, <2>4 DEF Continues, LayerOps, Ops
  <2>6. QED
    BY <2>4, <2>5 DEF TaskMoves
<1>3. CASE End(t)
  BY <1>3, EndMoves
<1>4. QED
  BY <1>1, <1>2, <1>3 DEF LayerStep, LayerNotFound, SaveLayer, SaveLayerFails, LayerOps

LEMMA StyleStepMoves ==
    ASSUME Typed, NEW t \in Tasks, StyleStep(t)
    PROVE  \E j : TaskMoves(t, j)
<1>1. ASSUME NEW s \in Styles, LookUpStyleToDelete(t, s)
      PROVE  \E j : TaskMoves(t, j)
  BY <1>1, BeginMoves DEF LookUpStyleToDelete, Begun, Begins
<1>2. ASSUME NEW s \in Styles, NEW c \in Categories, LookUpForStyle(t, s, c)
      PROVE  \E j : TaskMoves(t, j)
  <2>1. PICK j : j = [Begun("save_style", "row", s) EXCEPT !.category = c]
    OBVIOUS
  <2>2. j.op = "save_style"
    BY <2>1 DEF Begun
  <2>3. QED
    BY <1>2, <2>1, <2>2, BeginMoves DEF LookUpForStyle, Begins
<1>3. ASSUME WriteStyle(t)
      PROVE  \E j : TaskMoves(t, j)
  BY <1>3, ContinueMoves DEF WriteStyle, StyleCommitted, Ops
<1>4. ASSUME ReadStyles(t)
      PROVE  \E j : TaskMoves(t, j)
  <2>1. PICK old \in Job : old = task[t] /\ old.op \in {"save_style", "delete_style", "update_category"}
    BY <1>4 DEF Typed, TasksFit, ReadStyles, Reloading, Idle
  <2>2. PICK j : j = [old EXCEPT !.read = db.styles, !.at = "swap"]
    OBVIOUS
  <2>3. j.op = old.op /\ j.id = old.id /\ j.groups = old.groups
    BY <2>1, <2>2 DEF Job
  <2>4. task' = [task EXCEPT ![t] = j]
    BY <1>4, <2>1, <2>2 DEF ReadStyles, Typed, TasksFit
  <2>5. Continues(t, task[t], j)
    BY <2>1, <2>3 DEF Continues, Ops
  <2>6. QED
    BY <2>4, <2>5 DEF TaskMoves
<1>5. CASE End(t)
  BY <1>5, EndMoves
<1>6. QED
  BY <1>1, <1>2, <1>3, <1>4, <1>5 DEF StyleStep, WriteStyleFails, ReadStylesFails, SwapStyles

LEMMA CategoryStepMoves ==
    ASSUME Typed, NEW t \in Tasks, CategoryStep(t)
    PROVE  task' = task \/ \E j : TaskMoves(t, j)
<1>1. ASSUME NEW c \in Categories, NEW n \in Names, NewCategory(t, c, n)
      PROVE  task' = task \/ \E j : TaskMoves(t, j)
  <2>1. PICK j : j = [Begun("new_category", "memory", c) EXCEPT !.label = n]
    OBVIOUS
  <2>2. j.op = "new_category" /\ j.id = c
    BY <2>1 DEF Begun
  <2>3. QED
    BY <1>1, <2>1, <2>2, BeginMoves DEF NewCategory, Begins, AtOnce
<1>2. ASSUME NEW c \in Categories, NEW n \in Names, LookUpCategory(t, c, n)
      PROVE  \E j : TaskMoves(t, j)
  <2>1. PICK j : j = [Begun("update_category", "row", c) EXCEPT !.label = n]
    OBVIOUS
  <2>2. j.op = "update_category"
    BY <2>1 DEF Begun
  <2>3. QED
    BY <1>2, <2>1, <2>2, BeginMoves DEF LookUpCategory, Begins
<1>3. ASSUME WriteCategory(t) \/ UpdateCategory(t)
      PROVE  \E j : TaskMoves(t, j)
  BY <1>3, ContinueMoves DEF WriteCategory, UpdateCategory, At, Ops
<1>4. ASSUME NEW c \in Categories, CopyLayers(t, c)
      PROVE  \E j : TaskMoves(t, j)
  <2>1. PICK j : j = [Begun("delete_category", "check", c) EXCEPT
                        !.used = \E l \in Present(mem.layers) : mem.layers[l].category = c]
    OBVIOUS
  <2>2. j.op = "delete_category" /\ j.id = c
    BY <2>1 DEF Begun
  <2>3. Start(t, j)
    BY <1>4, <2>1 DEF CopyLayers
  <2>4. Begins(t, j)
    BY <1>4, <2>2 DEF Begins
  <2>5. QED
    BY <2>3, <2>4, BeginMoves
<1>5. CASE End(t)
  BY <1>5, EndMoves
<1>6. ASSUME NEW at \in {"row", "memory"}, at = "row" => CheckCategory(t),
             task[t].op = "delete_category", Continue(t, at)
      PROVE  \E j : TaskMoves(t, j)
  <2>1. PICK old \in Job : old = task[t]
    BY <1>6 DEF Typed, TasksFit, Idle
  <2>2. PICK j : j = [old EXCEPT !.at = at]
    OBVIOUS
  <2>3. j.op = old.op /\ j.id = old.id /\ j.groups = old.groups /\ j.at = at
    BY <2>1, <2>2 DEF Job
  <2>4. task' = [task EXCEPT ![t] = j]
    BY <1>6, <2>1, <2>2 DEF Continue, Typed, TasksFit
  <2>5. Continues(t, task[t], j)
    BY <1>6, <2>1, <2>3 DEF Continues, Ops
  <2>6. QED
    BY <2>4, <2>5 DEF TaskMoves
<1>7. ASSUME CheckCategory(t)
      PROVE  \E j : TaskMoves(t, j)
  <2>1. task[t].op = "delete_category" /\ (End(t) \/ Continue(t, "row"))
    BY <1>7 DEF CheckCategory, At
  <2>2. CASE Continue(t, "row")
    BY <1>6, <1>7, <2>1, <2>2
  <2>3. QED
    BY <2>1, <2>2, EndMoves
<1>8. ASSUME DeleteCategory(t)
      PROVE  \E j : TaskMoves(t, j)
  <2>1. task[t].op = "delete_category" /\ (End(t) \/ Continue(t, "memory"))
    BY <1>8 DEF DeleteCategory, At
  <2>2. CASE Continue(t, "memory")
    BY <1>6, <2>1, <2>2
  <2>3. QED
    BY <2>1, <2>2, EndMoves
<1>9. QED
  BY <1>1, <1>2, <1>3, <1>4, <1>5, <1>7, <1>8
     DEF CategoryStep, PushCategory, WriteCategoryFails, RemoveCategory

LEMMA GroupStepMoves ==
    ASSUME Typed, NEW t \in Tasks, GroupStep(t)
    PROVE  task' = task \/ \E j : TaskMoves(t, j)
<1>1. ASSUME NEW g \in Groups, NewGroup(t, g)
      PROVE  task' = task \/ \E j : TaskMoves(t, j)
  <2>1. g \in db'.groups
    BY <1>1 DEF NewGroup, Typed, TypeOK, Rows
  <2>2. PICK j : j = Begun("new_group", "memory", g)
    OBVIOUS
  <2>3. j.op = "new_group" /\ j.id = g
    BY <2>2 DEF Begun
  <2>4. QED
    BY <1>1, <2>1, <2>2, <2>3, BeginMoves DEF NewGroup, Begins, AtOnce
<1>2. ASSUME NEW g \in Groups, FindGroup(t, g)
      PROVE  \E j : TaskMoves(t, j)
  BY <1>2, BeginMoves DEF FindGroup, Begun, Begins
<1>3. ASSUME NEW g \in Groups, CopyLayersForGroup(t, g)
      PROVE  \E j : TaskMoves(t, j)
  <2>1. PICK j : j = [Begun("delete_group", "row", g) EXCEPT
                        !.used = \E l \in Present(mem.layers) : g \in mem.layers[l].groups]
    OBVIOUS
  <2>2. j.op = "delete_group" /\ j.id = g
    BY <2>1 DEF Begun
  <2>3. Start(t, j)
    BY <1>3, <2>1 DEF CopyLayersForGroup
  <2>4. Begins(t, j)
    BY <1>3, <2>2 DEF Begins
  <2>5. QED
    BY <2>3, <2>4, BeginMoves
<1>4. CASE End(t)
  BY <1>4, EndMoves
<1>5. QED
  BY <1>1, <1>2, <1>3, <1>4 DEF GroupStep, PushGroup, UpdateGroup, DeleteGroup

LEMMA TaskChanges ==
    ASSUME Typed, [Next]_vars
    PROVE  \/ task' = task
           \/ \E t \in Tasks : \E j : TaskMoves(t, j)
           \/ Restart
<1>1. CASE UserStep
  BY <1>1, UserStepEffect DEF UserEdited
<1>2. ASSUME NEW l \in Layers, DeleteLayer(l) \/ SwitchPublished(l) \/ EditLayerFails(l)
      PROVE  task' = task
  BY <1>2, LayerEditEffect
<1>3. CASE UNCHANGED vars
  BY <1>3 DEF vars, state
<1>4. QED
  BY <1>1, <1>2, <1>3, LayerStepMoves, StyleStepMoves, CategoryStepMoves, GroupStepMoves DEF Next

LEMMA TasksReferToShownKept ==
    ASSUME Typed, RefersToShown, [Next]_vars
    PROVE  TasksReferToShown'
<1>1. shown \subseteq shown' /\ TasksReferToShown /\ mem.groups \subseteq shown
  BY ShownGrows DEF RefersToShown, ListedIsShown, Listed
<1>2. CASE task' = task
  BY <1>1, <1>2 DEF TasksReferToShown
<1>3. CASE Restart
  BY <1>3 DEF Restart, TasksReferToShown, Idle, LayerOps
<1>4. ASSUME NEW t \in Tasks, NEW j, TaskMoves(t, j)
      PROVE  TasksReferToShown'
  <2>1. task'[t] = j /\ \A u \in Tasks \ {t} : task'[u] = task[u]
    BY <1>4 DEF TaskMoves, Typed, TasksFit
  <2>2. /\ j.op \in LayerOps => j.groups \subseteq shown
        /\ j.op \in {"update_group", "delete_group"} => j.id \in shown
    <3>1. CASE j = Idle
      BY <3>1 DEF Idle, LayerOps
    <3>2. CASE Continues(t, task[t], j)
      BY <1>1, <3>2 DEF Continues, TasksReferToShown
    <3>3. CASE Begins(t, j)
      BY <1>1, <3>3 DEF Begins, CopyLayersForGroup, LayerOps
    <3>4. QED
      BY <1>4, <3>1, <3>2, <3>3 DEF TaskMoves
  <2>3. QED
    BY <1>1, <2>1, <2>2 DEF TasksReferToShown
<1>5. QED
  BY <1>2, <1>3, <1>4, TaskChanges

\* What reaches a list is shown, or had been shown.
LEMMA ListedIsShownKept ==
    ASSUME Typed, RefersToShown, [Next]_vars
    PROVE  ListedIsShown'
<1> USE AdminStoreAssumption DEF state, history, bounds
<1>1. db \in Rows /\ mem \in Entries
  BY DEF Typed, TypeOK
<1>2. shown \subseteq shown' /\ Listed(mem) \subseteq shown /\ FirstGroup \in shown
  BY ShownGrows DEF RefersToShown, ListedIsShown
<1>3. CASE Show
  BY <1>2, <1>3 DEF Show, ListedIsShown
<1>4. CASE mem' = mem
  BY <1>2, <1>4 DEF ListedIsShown
<1>5. ASSUME Listed(mem') \subseteq Listed(mem) \cup shown
      PROVE  ListedIsShown'
  BY <1>2, <1>5 DEF ListedIsShown
<1>6. ASSUME NEW t \in Tasks, LayerStep(t)
      PROVE  ListedIsShown'
  BY <1>3, <1>4, <1>6 DEF LayerStep, LookUpForLayer, ResolveGroups, LayerNotFound, SaveLayer,
                          SaveLayerFails
<1>7. ASSUME NEW t \in Tasks, StyleStep(t)
      PROVE  ListedIsShown'
  BY <1>3, <1>4, <1>7 DEF StyleStep, LookUpStyleToDelete, LookUpForStyle, WriteStyle,
                          WriteStyleFails, StyleCommitted, ReadStyles, ReadStylesFails, SwapStyles
<1>8. ASSUME NEW t \in Tasks, UpdateCategory(t)
      PROVE  ListedIsShown'
  <2>1. Present(mem'.layers) \subseteq Listed(mem)
    <3>1. mem' \in Entries
      BY <1>8, StepTyped DEF Typed, TypeOK
    <3>2. QED
      BY <1>1, <1>8, <3>1, UpdateCategoryEffect DEF Listed, Present, Entries
  <2>2. Present(mem'.categories) \subseteq Listed(mem) \cup shown
    <3>1. /\ mem'.categories = [mem.categories EXCEPT ![task[t].id] = task[t].label]
          /\ task[t].id \in shown
      BY <1>8, UpdateCategoryEffect
    <3>2. mem.categories \in [Categories -> Names \cup {None}]
      BY <1>1 DEF Entries
    <3>3. Present(mem'.categories) \subseteq Present(mem.categories) \cup {task[t].id}
      BY <3>1, <3>2 DEF Present
    <3>4. QED
      BY <3>1, <3>3 DEF Listed
  <2>3. QED
    BY <1>5, <1>8, <2>1, <2>2, UpdateCategoryEffect DEF Listed
<1>9. ASSUME NEW t \in Tasks, RemoveCategory(t)
      PROVE  ListedIsShown'
  BY <1>1, <1>5, <1>9 DEF RemoveCategory, Listed, Present, Entries
<1>10. ASSUME NEW t \in Tasks, CategoryStep(t)
       PROVE  ListedIsShown'
  BY <1>3, <1>4, <1>8, <1>9, <1>10
     DEF CategoryStep, NewCategory, LookUpCategory, PushCategory, WriteCategory,
         WriteCategoryFails, CopyLayers, CheckCategory, DeleteCategory
<1>11. ASSUME NEW t \in Tasks, UpdateGroup(t) \/ DeleteGroup(t)
       PROVE  ListedIsShown'
  <2>1. task[t].id \in shown
    BY <1>11 DEF UpdateGroup, DeleteGroup, At, RefersToShown, TasksReferToShown
  <2>2. \/ mem' = mem
        \/ mem' = [mem EXCEPT !.groups = mem.groups \cup {task[t].id}]
        \/ mem' = [mem EXCEPT !.groups = mem.groups \ {task[t].id}]
    BY <1>11 DEF UpdateGroup, DeleteGroup
  <2>3. Listed(mem') \subseteq Listed(mem) \cup shown
    BY <1>1, <2>1, <2>2 DEF Listed, Entries
  <2>4. QED
    BY <1>5, <2>3
<1>12. ASSUME NEW t \in Tasks, GroupStep(t)
       PROVE  ListedIsShown'
  BY <1>3, <1>4, <1>11, <1>12 DEF GroupStep, NewGroup, FindGroup, CopyLayersForGroup, PushGroup
<1>13. CASE UserStep
  <2>1. PICK u \in Users, gs \in SUBSET Groups : UserEdited(u, gs)
    BY <1>13, UserStepEffect
  <2>2. CASE shown' = shown /\ u \in shown
    <3>1. DOMAIN mem'.users = Users /\ DOMAIN mem.users = Users
      BY <1>1, <1>13, StepTyped DEF Typed, TypeOK, Entries
    <3>2. Present(mem'.users) \subseteq Present(mem.users) \cup {u}
      BY <2>1, <3>1 DEF UserEdited, Present
    <3>3. QED
      BY <1>5, <2>1, <2>2, <3>2 DEF UserEdited, Listed
  <2>3. QED
    BY <1>3, <2>1, <2>2 DEF UserEdited
<1>14. ASSUME NEW l \in Layers, DeleteLayer(l) \/ SwitchPublished(l) \/ EditLayerFails(l)
       PROVE  ListedIsShown'
  <2>1. DOMAIN mem'.layers = Layers /\ DOMAIN mem.layers = Layers
    BY <1>1, <1>14, StepTyped DEF Typed, TypeOK, Entries
  <2>2. \A k \in Layers : mem.layers[k] = None => mem'.layers[k] = None
    BY <1>14, LayerEditEffect DEF SwitchedTo
  <2>3. Present(mem'.layers) \subseteq Present(mem.layers)
    BY <2>1, <2>2 DEF Present
  <2>4. QED
    BY <1>5, <1>14, <2>3, LayerEditEffect DEF OnlyLayersChange, Listed
<1>15. CASE Restart
  BY <1>3, <1>15 DEF Restart
<1>16. CASE UNCHANGED vars
  BY <1>4, <1>16 DEF vars
<1>17. QED
  BY <1>6, <1>7, <1>10, <1>12, <1>13, <1>14, <1>15, <1>16 DEF Next

LEMMA RefersToShownKept ==
    ASSUME Typed, RefersToShown, [Next]_vars
    PROVE  RefersToShown'
BY ListedIsShownKept, LayersReferToShownKept, UsersReferToShownKept, TasksReferToShownKept
   DEF RefersToShown

LEMMA CategoryChanges ==
    ASSUME Typed, [Next]_vars
    PROVE  \/ mem'.categories = mem.categories
           \/ \E t \in Tasks : PushCategory(t) \/ UpdateCategory(t) \/ RemoveCategory(t)
           \/ Restart
<1> DEFINE Same == mem'.categories = mem.categories
<1> USE DEF state, history, bounds
<1>1. db \in Rows /\ mem \in Entries
  BY DEF Typed, TypeOK
<1>2. ASSUME NEW t \in Tasks, LayerStep(t)
      PROVE  Same
  BY <1>1, <1>2 DEF LayerStep, LookUpForLayer, ResolveGroups, LayerNotFound, SaveLayer,
              SaveLayerFails, Entries
<1>3. ASSUME NEW t \in Tasks, StyleStep(t)
      PROVE  Same
  BY <1>1, <1>3 DEF StyleStep, LookUpStyleToDelete, LookUpForStyle, WriteStyle, WriteStyleFails,
              StyleCommitted, ReadStyles, ReadStylesFails, SwapStyles, Entries
<1>4. ASSUME NEW t \in Tasks, CategoryStep(t)
      PROVE  Same \/ PushCategory(t) \/ UpdateCategory(t) \/ RemoveCategory(t)
  BY <1>1, <1>4 DEF CategoryStep, NewCategory, LookUpCategory, WriteCategory,
              WriteCategoryFails, CopyLayers, CheckCategory, DeleteCategory
<1>5. ASSUME NEW t \in Tasks, GroupStep(t)
      PROVE  Same
  BY <1>1, <1>5 DEF GroupStep, NewGroup, FindGroup, CopyLayersForGroup, PushGroup, UpdateGroup,
              DeleteGroup, Entries
<1>6. CASE UserStep
  BY <1>6, UserStepEffect DEF UserEdited
<1>7. ASSUME NEW l \in Layers, DeleteLayer(l) \/ SwitchPublished(l) \/ EditLayerFails(l)
      PROVE  Same
  BY <1>7, LayerEditEffect DEF OnlyLayersChange
<1>8. CASE UNCHANGED vars
  BY <1>8 DEF vars
<1>9. QED
  BY <1>2, <1>3, <1>4, <1>5, <1>6, <1>7, <1>8 DEF Next

\* A category or group is shown first by the handler that brings it.
LEMMA NewlyShown ==
    ASSUME Typed, RefersToShown, [Next]_vars,
           NEW x \in Categories \cup Groups, x \in shown', x \notin shown
    PROVE  \/ \E t \in Tasks : (PushCategory(t) \/ PushGroup(t)) /\ task[t].id = x
           \/ Restart
<1> USE AdminStoreAssumption
<1>1. mem \in Entries /\ mem' \in Entries
  BY StepTyped DEF Typed, TypeOK
<1>2. Listed(mem) \subseteq shown
  BY DEF RefersToShown, ListedIsShown
<1>3. x \in Listed(mem')
  BY ShownGrows
<1>4. CASE x \in Categories
  <2>1. mem'.categories[x] # None /\ mem.categories[x] = None
    BY <1>1, <1>2, <1>3, <1>4 DEF Listed, Present, Entries
  <2>2. ASSUME NEW t \in Tasks, PushCategory(t)
        PROVE  task[t].id = x
    BY <1>1, <2>1, <2>2 DEF PushCategory, Entries
  <2>3. ASSUME NEW t \in Tasks, UpdateCategory(t)
        PROVE  FALSE
    BY <1>1, <2>1, <2>3, UpdateCategoryEffect DEF Entries
  <2>4. ASSUME NEW t \in Tasks, RemoveCategory(t)
        PROVE  FALSE
    BY <1>1, <2>1, <2>4 DEF RemoveCategory, Entries
  <2>5. QED
    BY <2>1, <2>2, <2>3, <2>4, CategoryChanges
<1>5. CASE x \in Groups
  <2>1. x \in mem'.groups /\ x \notin mem.groups
    BY <1>1, <1>2, <1>3, <1>5 DEF Listed, Present, Entries
  <2>2. ASSUME NEW t \in Tasks, PushGroup(t)
        PROVE  task[t].id = x
    BY <1>1, <2>1, <2>2 DEF PushGroup, Entries
  <2>3. ASSUME NEW t \in Tasks, UpdateGroup(t)
        PROVE  FALSE
    <3>1. task[t].id \in shown
      BY <2>3 DEF UpdateGroup, At, RefersToShown, TasksReferToShown
    <3>2. QED
      BY <1>1, <2>1, <2>3, <3>1 DEF UpdateGroup, Entries
  <2>4. ASSUME NEW t \in Tasks, DeleteGroup(t)
        PROVE  FALSE
    BY <1>1, <2>1, <2>4 DEF DeleteGroup, Entries
  <2>5. ASSUME NEW t \in Tasks, NEW g \in Groups, NewGroup(t, g)
        PROVE  FALSE
    BY <2>1, <2>5 DEF NewGroup
  <2>6. QED
    BY <2>1, <2>2, <2>3, <2>4, <2>5, GroupChanges
<1>6. QED
  BY <1>4, <1>5

LEMMA NewIdsFitKept ==
    ASSUME Typed, RefersToShown, NewIdsFit, [Next]_vars
    PROVE  NewIdsFit'
<1> USE AdminStoreAssumption
<1> DEFINE New == {"new_category", "new_group"}
<1>1. CASE Restart
  BY <1>1 DEF Restart, NewIdsFit, Idle
<1>2. ASSUME NEW u \in Tasks, task[u].op \in New, task'[u].op = task[u].op
      PROVE  task[u].id \notin shown'
  <2>1. task[u].id \notin shown /\ task[u].id \in Categories \cup Groups
    BY <1>2 DEF NewIdsFit, Typed, TasksFit, TaskFits
  <2>2. SUFFICES ASSUME task[u].id \in shown'
                 PROVE  FALSE
    OBVIOUS
  <2>3. CASE Restart
    BY <1>2, <2>3 DEF Restart, Idle
  <2>4. ASSUME NEW t \in Tasks, PushCategory(t) \/ PushGroup(t), task[t].id = task[u].id
        PROVE  FALSE
    <3>1. task'[t] = Idle /\ task[t].op \in New
      BY <2>4 DEF PushCategory, PushGroup, End, At, Typed, TasksFit
    <3>2. task[t].op = task[u].op
      BY <1>2, <2>4, <3>1 DEF Typed, TasksFit, TaskFits
    <3>3. t = u
      BY <1>2, <2>4, <3>2 DEF NewIdsFit
    <3>4. QED
      BY <1>2, <3>1, <3>3 DEF Idle
  <2>5. QED
    BY <2>1, <2>2, <2>3, <2>4, NewlyShown
<1>3. ASSUME NEW u \in Tasks, task[u].op = "new_group"
      PROVE  task[u].id \in db'.groups \/ Restart
  <2>1. task[u].id \in db.groups /\ task[u].id \notin shown /\ db \in Rows
    BY <1>3 DEF NewIdsFit, Typed, TypeOK
  <2>2. ASSUME NEW t \in Tasks, DeleteGroup(t)
        PROVE  task[u].id \in db'.groups
    <3>1. task[t].id \in shown
      BY <2>2 DEF DeleteGroup, At, RefersToShown, TasksReferToShown
    <3>2. QED
      BY <2>1, <2>2, <3>1 DEF DeleteGroup, Rows
  <2>3. ASSUME NEW t \in Tasks, NEW g \in Groups, NewGroup(t, g)
        PROVE  task[u].id \in db'.groups
    BY <2>1, <2>3 DEF NewGroup, Rows
  <2>4. ASSUME NEW t \in Tasks, PushGroup(t) \/ UpdateGroup(t)
        PROVE  task[u].id \in db'.groups
    BY <2>1, <2>4 DEF PushGroup, UpdateGroup
  <2>5. QED
    BY <2>1, <2>2, <2>3, <2>4, GroupChanges
<1>4. CASE task' = task /\ ~Restart
  BY <1>2, <1>3, <1>4 DEF NewIdsFit
<1>5. ASSUME ~Restart, NEW t \in Tasks, NEW j, TaskMoves(t, j)
      PROVE  NewIdsFit'
  <2>1. task'[t] = j /\ \A u \in Tasks \ {t} : task'[u] = task[u]
    BY <1>5 DEF TaskMoves, Typed, TasksFit
  <2>2. CASE j = Idle
    BY <1>2, <1>3, <1>5, <2>1, <2>2 DEF NewIdsFit, Idle
  <2>3. CASE Continues(t, task[t], j)
    <3>1. j.op = task[t].op /\ j.id = task[t].id
      BY <2>3 DEF Continues
    <3>2. \A u \in Tasks : task'[u].op = task[u].op /\ task'[u].id = task[u].id
      BY <2>1, <3>1
    <3>3. QED
      BY <1>2, <1>3, <1>5, <3>2 DEF NewIdsFit
  <2>4. CASE task[t] = Idle /\ Begins(t, j)
    <3>1. CASE j.op \notin New
      BY <1>2, <1>3, <1>5, <2>1, <2>4, <3>1 DEF NewIdsFit
    <3>2. CASE j.op \in New
      <4>1. Fresh(j.id) /\ (j.op = "new_group" => j.id \in db'.groups)
        BY <2>4, <3>2 DEF Begins, LayerOps
      <4>2. \A u \in Tasks : task[u] # Idle => task[u].id # j.id
        BY <4>1 DEF Fresh
      <4>3. j.id \in Categories \cup Groups
        BY <2>1, <3>2, StepTyped DEF Typed, TasksFit, TaskFits
      <4>4. j.id \notin shown'
        <5>1. \A u \in Tasks : PushCategory(u) \/ PushGroup(u) => task[u] # Idle
          BY DEF PushCategory, PushGroup, At, Idle
        <5>2. j.id \notin shown
          BY <4>1 DEF Fresh
        <5>3. QED
          BY <1>5, <4>2, <4>3, <5>1, <5>2, NewlyShown
      <4>5. \A u \in Tasks \ {t} : task'[u].op \in New => task'[u].id # j.id
        BY <2>1, <4>2 DEF Idle
      <4>6. QED
        BY <1>2, <1>3, <1>5, <2>1, <3>2, <4>1, <4>4, <4>5 DEF NewIdsFit
    <3>3. QED
      BY <3>1, <3>2
  <2>5. QED
    BY <1>5, <2>2, <2>3, <2>4 DEF TaskMoves
<1>6. QED
  BY <1>1, <1>4, <1>5, TaskChanges

-----------------------------------------------------------------------------
(***************************************************************************)
(* Entries and rows, list by list.                                         *)
(***************************************************************************)

\* A group leaves the table when no user has it, or stays behind in memory.
LEMMA GroupsAreKnownKept ==
    ASSUME Typed, RefersToShown, NewIdsFit, GroupsAreKnown, [Next]_vars
    PROVE  GroupsAreKnown'
<1> USE AdminStoreAssumption
<1>1. db \in Rows /\ mem \in Entries
  BY DEF Typed, TypeOK
<1>2. CASE Restart
  <2>1. lingering' = lingering
    BY <1>2 DEF Restart
  <2>2. QED
    BY <1>2, <2>1, RestartEffect, ZenonT(30) DEF GroupsAreKnown
<1>3. CASE UserStep
  <2>1. PICK u \in Users, gs \in SUBSET Groups : UserEdited(u, gs)
    BY <1>3, UserStepEffect
  <2>2. gs \subseteq db.groups \cup lingering
    BY <2>1 DEF UserEdited, GroupsAreKnown
  <2>3. QED
    BY <2>1, <2>2 DEF UserEdited, GroupsAreKnown
<1>4. ASSUME NEW t \in Tasks, NEW g \in Groups, NewGroup(t, g)
      PROVE  GroupsAreKnown'
  BY <1>1, <1>4 DEF NewGroup, history, GroupsAreKnown, Rows
<1>5. ASSUME NEW t \in Tasks, PushGroup(t) \/ UpdateGroup(t)
      PROVE  GroupsAreKnown'
  <2>1. mem'.groups = mem.groups \cup {task[t].id} /\ mem'.users = mem.users /\ db' = db
    BY <1>1, <1>5 DEF PushGroup, UpdateGroup, Entries
  <2>2. lingering \subseteq lingering' /\ task[t].id \in db.groups \cup lingering'
    BY <1>5 DEF PushGroup, UpdateGroup, At, NewIdsFit
  <2>3. QED
    BY <2>1, <2>2 DEF GroupsAreKnown
<1>6. ASSUME NEW t \in Tasks, DeleteGroup(t)
      PROVE  GroupsAreKnown'
  <2>1. CASE GroupInUse(t)
    BY <1>6, <2>1 DEF DeleteGroup, GroupsAreKnown
  <2>2. CASE ~GroupInUse(t)
    <3>1. db'.groups = db.groups \ {task[t].id} /\ mem'.users = mem.users
      BY <1>1, <1>6, <2>2 DEF DeleteGroup, Rows, Entries
    <3>2. \A u \in Users : mem.users[u] # None => task[t].id \notin mem.users[u]
      BY <1>1, <2>2 DEF GroupInUse, Present, Entries
    <3>3. \/ mem'.groups = mem.groups \ {task[t].id} /\ lingering' = lingering
          \/ mem'.groups = mem.groups /\ lingering' = lingering \cup {task[t].id}
      BY <1>1, <1>6, <2>2 DEF DeleteGroup, Entries
    <3>4. QED
      BY <3>1, <3>2, <3>3 DEF GroupsAreKnown
  <2>3. QED
    BY <2>1, <2>2
<1>7. CASE /\ db'.groups = db.groups /\ mem'.groups = mem.groups /\ lingering' = lingering
           /\ mem'.users = mem.users
  BY <1>7 DEF GroupsAreKnown
<1>8. ASSUME NEW t \in Tasks, DeleteGroup(t) \/ PushGroup(t) \/ UpdateGroup(t)
      PROVE  GroupsAreKnown'
  BY <1>5, <1>6, <1>8
<1>9. QED
  BY <1>2, <1>3, <1>4, <1>7, <1>8, GroupChanges, UserChanges

\* A layer or user is shown first by the step that makes it.
LEMMA NewlyListed ==
    ASSUME Typed, RefersToShown, [Next]_vars, NEW x \in Layers \cup Users, x \in shown', x \notin shown
    PROVE  \/ x \in Layers /\ mem.layers[x] = None /\ mem'.layers[x] # None
           \/ x \in Users /\ mem.users[x] = None /\ mem'.users[x] # None
<1> USE AdminStoreAssumption
<1>1. mem \in Entries /\ mem' \in Entries
  BY StepTyped DEF Typed, TypeOK
<1>2. x \in Listed(mem') /\ x \notin Listed(mem)
  BY ShownGrows DEF RefersToShown, ListedIsShown
<1>3. QED
  BY <1>1, <1>2 DEF Listed, Present, Entries

\* No step drops the entry of a shown row, or shows a row without an entry.
LEMMA ShownRowsAreListedKept ==
    ASSUME Typed, RefersToShown, ShownRowsAreListed, [Next]_vars
    PROVE  ShownRowsAreListed'
<1> USE AdminStoreAssumption
<1>1. db \in Rows /\ mem \in Entries /\ db' \in Rows /\ mem' \in Entries
  BY StepTyped DEF Typed, TypeOK
<1>2. ASSUME NEW l \in Layers, l \in shown', db'.layers[l] # None, mem'.layers[l] = None
      PROVE  FALSE
  <2>1. l \in shown /\ (db.layers[l] # None => mem.layers[l] # None)
    BY <1>2, NewlyListed DEF ShownRowsAreListed
  <2>2. ASSUME NEW t \in Tasks, NEW published \in BOOLEAN,
               SaveLayer(t, published) \/ SaveLayerFails(t, published)
        PROVE  FALSE
    <3>1. PICK k \in Layers, row \in LayerRow, label \in Names : Saved(t, published, k, row, label)
      BY <2>2, SaveLayerEffect
    <3>2. EntryOf(row, label) # None
      BY DEF EntryOf, LayerRow, Layer
    <3>3. CASE k # l
      BY <1>2, <2>1, <3>1, <3>3 DEF Saved
    <3>4. CASE k = l
      BY <1>2, <2>1, <2>2, <3>1, <3>2, <3>4 DEF Saved
    <3>5. QED
      BY <3>3, <3>4
  <2>3. ASSUME NEW k \in Layers, DeleteLayer(k) \/ SwitchPublished(k) \/ EditLayerFails(k)
        PROVE  FALSE
    BY <1>2, <2>1, <2>3, LayerEditEffect DEF SwitchedTo
  <2>4. ASSUME NEW t \in Tasks, UpdateCategory(t)
        PROVE  FALSE
    BY <1>2, <2>1, <2>4, UpdateCategoryEffect
  <2>5. CASE Restart
    BY <1>2, <2>5, RestartEffect
  <2>6. QED
    BY <1>2, <2>1, <2>2, <2>3, <2>4, <2>5, LayerChanges
<1>3. ASSUME NEW u \in Users, u \in shown', db'.users[u] # None, mem'.users[u] = None
      PROVE  FALSE
  <2>1. u \in shown /\ (db.users[u] # None => mem.users[u] # None)
    BY <1>3, NewlyListed DEF ShownRowsAreListed
  <2>2. ASSUME NEW v \in Users, DeleteUser(v)
        PROVE  FALSE
    BY <1>1, <1>3, <2>1, <2>2 DEF DeleteUser, Rows, Entries
  <2>3. ASSUME NEW v \in Users, NEW gs \in SUBSET Groups,
               CreateUser(v, gs) \/ \E api, committed \in BOOLEAN : CreateUserFails(v, gs, api, committed)
        PROVE  FALSE
    BY <1>1, <1>3, <2>1, <2>3 DEF CreateUser, CreateUserFails, Fresh, Rows, Entries
  <2>4. ASSUME NEW v \in Users, NEW gs \in SUBSET Groups,
               UpdateUser(v, gs) \/ UpdateUserFails(v, gs)
        PROVE  FALSE
    BY <1>1, <1>3, <2>1, <2>4 DEF UpdateUser, UpdateUserFails, UserCommitted, Replace, Rows, Entries
  <2>5. CASE Restart
    <3>1. db'.users[u] \cap db.groups \in SUBSET Groups
      BY <1>1 DEF Rows
    <3>2. QED
      BY <1>3, <2>5, <3>1, RestartEffect
  <2>6. CASE db'.users = db.users /\ mem'.users = mem.users
    BY <1>3, <2>1, <2>6
  <2>7. QED
    BY <2>2, <2>3, <2>4, <2>5, <2>6, UserChanges DEF UserStep
<1>4. QED
  BY <1>2, <1>3 DEF ShownRowsAreListed

\* The entry a restart would load for the row, as far as the groups gs exist.
LayerMirrors(row, entry, gs) ==
    IF row = None THEN entry = None
    ELSE /\ entry # None
         /\ entry.category = row.category
         /\ entry.published = row.published
         /\ entry.groups \cap gs = row.groups \cap gs

UserMirrors(row, entry, gs) ==
    IF row = None THEN entry = None ELSE entry # None /\ entry \cap gs = row \cap gs

\* Who is no longer torn was saved or deleted, or all were loaded.
LEMMA TornChanges ==
    ASSUME Typed, [Next]_vars, ~Restart
    PROVE  /\ ~UserStep => \A u \in Users : u \in torn => u \in torn'
           /\ \/ \A l \in Layers : l \in torn => l \in torn'
              \/ \E t \in Tasks, published \in BOOLEAN : SaveLayer(t, published)
              \/ \E l \in Layers : DeleteLayer(l)
<1> USE AdminStoreAssumption DEF state, history, bounds
<1>1. ASSUME NEW t \in Tasks, LayerStep(t)
      PROVE  \/ torn \subseteq torn'
             \/ \E published \in BOOLEAN : SaveLayer(t, published)
  BY <1>1 DEF LayerStep, LookUpForLayer, ResolveGroups, LayerNotFound, SaveLayerFails
<1>2. ASSUME NEW t \in Tasks, NEW published \in BOOLEAN, SaveLayer(t, published)
      PROVE  \A u \in Users : u \in torn => u \in torn'
  <2>1. PICK l \in Layers, row \in LayerRow, label \in Names : Saved(t, published, l, row, label)
    BY <1>2, SaveLayerEffect
  <2>2. torn \ {l} \subseteq torn'
    BY <1>2, <2>1 DEF Saved
  <2>3. QED
    BY <2>2
<1>3. ASSUME NEW t \in Tasks, StyleStep(t)
      PROVE  torn' = torn
  BY <1>3 DEF StyleStep, LookUpStyleToDelete, LookUpForStyle, WriteStyle, WriteStyleFails,
              ReadStyles, ReadStylesFails, SwapStyles
<1>4. ASSUME NEW t \in Tasks, CategoryStep(t)
      PROVE  torn' = torn
  BY <1>4 DEF CategoryStep, NewCategory, LookUpCategory, PushCategory, WriteCategory,
              WriteCategoryFails, UpdateCategory, CopyLayers, CheckCategory, DeleteCategory,
              RemoveCategory
<1>5. ASSUME NEW t \in Tasks, GroupStep(t)
      PROVE  torn' = torn
  BY <1>5 DEF GroupStep, NewGroup, FindGroup, CopyLayersForGroup, PushGroup, UpdateGroup,
              DeleteGroup
<1>6. CASE UserStep
  BY <1>6 DEF UserStep, DeleteUser, CreateUser, CreateUserFails, UpdateUser, UpdateUserFails
<1>7. ASSUME NEW l \in Layers, SwitchPublished(l) \/ EditLayerFails(l)
      PROVE  torn \subseteq torn'
  BY <1>7 DEF SwitchPublished, EditLayerFails
<1>8. ASSUME NEW l \in Layers, DeleteLayer(l)
      PROVE  \A u \in Users : u \in torn => u \in torn'
  BY <1>8 DEF DeleteLayer
<1>9. CASE UNCHANGED vars
  BY <1>9 DEF vars
<1>10. QED
  BY <1>1, <1>2, <1>3, <1>4, <1>5, <1>6, <1>7, <1>8, <1>9 DEF Next

\* A group whose row is new has not been referred to.
LEMMA GroupRowsAreNew ==
    ASSUME Typed, [Next]_vars, NEW g \in db'.groups, g \notin db.groups
    PROVE  g \notin shown
<1>1. db \in Rows
  BY DEF Typed, TypeOK
<1>2. ASSUME NEW t \in Tasks, NEW h \in Groups, NewGroup(t, h)
      PROVE  g \notin shown
  BY <1>1, <1>2 DEF NewGroup, Fresh, Rows
<1>3. ASSUME NEW t \in Tasks, PushGroup(t) \/ UpdateGroup(t) \/ DeleteGroup(t)
      PROVE  FALSE
  BY <1>1, <1>3 DEF PushGroup, UpdateGroup, DeleteGroup, Rows
<1>4. QED
  BY <1>2, <1>3, GroupChanges, RestartEffect

LEMMA LayersMirrorKept ==
    ASSUME Typed, RefersToShown, ShownRowsAreListed, LockedListsMirrorRows, [Next]_vars,
           NEW l \in Layers, l \notin torn'
    PROVE  LayerMirrors(db'.layers[l], mem'.layers[l], db'.groups)
<1> USE AdminStoreAssumption
<1>1. l \notin torn => LayerMirrors(db.layers[l], mem.layers[l], db.groups)
  BY DEF LockedListsMirrorRows, LayerMirrors
<1>2. CASE Restart
  BY <1>2, RestartEffect DEF LayerMirrors
<1>3. ASSUME NEW t \in Tasks, NEW published \in BOOLEAN,
             SaveLayer(t, published) \/ SaveLayerFails(t, published)
      PROVE  LayerMirrors(db'.layers[l], mem'.layers[l], db'.groups)
  <2>1. PICK k \in Layers, row \in LayerRow, label \in Names : Saved(t, published, k, row, label)
    BY <1>3, SaveLayerEffect
  <2>2. EntryOf(row, label) # None /\ row # None /\ db'.groups = db.groups
    BY <2>1 DEF EntryOf, LayerRow, Layer, Saved, OnlyLayersChange
  <2>3. LayerMirrors(row, EntryOf(row, label), db.groups)
    BY <2>2 DEF LayerMirrors, EntryOf
  <2>4. CASE k # l
    <3>1. l \notin torn
      BY <1>3, <2>1, <2>4 DEF Saved
    <3>2. QED
      BY <1>1, <2>1, <2>2, <2>4, <3>1 DEF Saved
  <2>5. CASE k = l
    <3>1. SaveLayer(t, published)
      BY <1>3, <2>1, <2>5 DEF Saved
    <3>2. CASE l \notin shown
      BY <2>1, <2>2, <2>3, <2>5, <3>1, <3>2 DEF Saved
    <3>3. CASE l \in shown /\ db.layers[l] # None
      BY <2>1, <2>2, <2>3, <2>5, <3>1, <3>3 DEF Saved, ShownRowsAreListed
    <3>4. CASE l \in shown /\ db.layers[l] = None
      <4>1. db'.layers[l] = None /\ torn' = torn
        BY <2>1, <2>2, <2>5, <3>1, <3>4 DEF Saved
      <4>2. mem.layers[l] = None
        BY <1>1, <3>4, <4>1 DEF LayerMirrors
      <4>3. QED
        BY <2>1, <2>5, <3>1, <3>4, <4>1, <4>2 DEF Saved, LayerMirrors
    <3>5. QED
      BY <3>2, <3>3, <3>4
  <2>6. QED
    BY <2>4, <2>5
<1>4. ASSUME NEW k \in Layers, DeleteLayer(k) \/ SwitchPublished(k) \/ EditLayerFails(k)
      PROVE  LayerMirrors(db'.layers[l], mem'.layers[l], db'.groups)
  <2>1. torn \ {k} \subseteq torn' /\ (EditLayerFails(k) => k \in torn')
    BY <1>4 DEF DeleteLayer, SwitchPublished, EditLayerFails, history
  <2>2. db'.groups = db.groups
    BY <1>4, LayerEditEffect DEF OnlyLayersChange
  <2>3. CASE k # l
    BY <1>1, <1>4, <2>1, <2>2, <2>3, LayerEditEffect
  <2>4. CASE k = l /\ DeleteLayer(k)
    BY <1>4, <2>4 DEF DeleteLayer, Typed, TypeOK, Rows, Entries, LayerMirrors
  <2>5. CASE k = l /\ SwitchPublished(k)
    <3>1. torn' = torn
      BY <2>5 DEF SwitchPublished, history
    <3>2. CASE db'.layers[l] = None /\ mem'.layers[l] = None
      BY <3>2 DEF LayerMirrors
    <3>3. CASE SwitchedTo(db'.layers[l], db.layers[l]) /\ SwitchedTo(mem'.layers[l], mem.layers[l])
      BY <1>1, <2>2, <3>1, <3>3 DEF LayerMirrors, SwitchedTo
    <3>4. QED
      BY <1>4, <2>1, <2>5, <3>2, <3>3, LayerEditEffect
  <2>6. QED
    BY <1>4, <2>1, <2>3, <2>4, <2>5
<1>5. ASSUME NEW t \in Tasks, UpdateCategory(t)
      PROVE  LayerMirrors(db'.layers[l], mem'.layers[l], db'.groups)
  BY <1>1, <1>5, UpdateCategoryEffect DEF LayerMirrors
<1>6. CASE db'.layers = db.layers /\ mem'.layers = mem.layers /\ ~Restart
  <2>1. CASE l \notin torn
    <3>1. \A x \in shown : x \in db'.groups => x \in db.groups
      BY GroupRowsAreNew
    <3>2. /\ db.layers[l] # None => db.layers[l].groups \subseteq shown
          /\ mem.layers[l] # None => mem.layers[l].groups \subseteq shown
      BY DEF RefersToShown, LayersReferToShown
    <3>3. LayerMirrors(db.layers[l], mem.layers[l], db.groups)
      BY <1>1, <2>1
    <3>4. CASE db.layers[l] = None
      BY <1>6, <3>3, <3>4 DEF LayerMirrors
    <3>5. CASE db.layers[l] # None
      <4>1. mem.layers[l].groups \cap db.groups = db.layers[l].groups \cap db.groups
        BY <3>3, <3>5 DEF LayerMirrors
      <4>2. mem.layers[l].groups \cap db'.groups = db.layers[l].groups \cap db'.groups
        BY <3>1, <3>2, <3>3, <3>5, <4>1 DEF LayerMirrors
      <4>3. QED
        BY <1>6, <3>3, <3>5, <4>2 DEF LayerMirrors
    <3>6. QED
      BY <3>4, <3>5
  <2>2. CASE l \in torn
    BY <1>3, <1>4, <1>6, <2>2, TornChanges
  <2>3. QED
    BY <2>1, <2>2
<1>7. QED
  BY <1>2, <1>3, <1>4, <1>5, <1>6, LayerChanges

LEMMA UsersMirrorKept ==
    ASSUME Typed, RefersToShown, ShownRowsAreListed, LockedListsMirrorRows, [Next]_vars,
           NEW u \in Users, u \notin torn'
    PROVE  UserMirrors(db'.users[u], mem'.users[u], db'.groups)
<1> USE AdminStoreAssumption
<1>1. u \notin torn => UserMirrors(db.users[u], mem.users[u], db.groups)
  BY DEF LockedListsMirrorRows, UserMirrors
<1>2. db \in Rows /\ mem \in Entries /\ db' \in Rows
  BY StepTyped DEF Typed, TypeOK
<1>3. CASE Restart
  <2>1. db'.users[u] # None => db'.users[u] \cap db.groups \in SUBSET Groups
    BY <1>2 DEF Rows
  <2>2. QED
    BY <1>3, <2>1, RestartEffect DEF UserMirrors
<1>4. ASSUME NEW v \in Users, DeleteUser(v)
      PROVE  UserMirrors(db'.users[u], mem'.users[u], db'.groups)
  BY <1>1, <1>2, <1>4 DEF DeleteUser, UserMirrors, Rows, Entries
<1>5. ASSUME NEW v \in Users, NEW gs \in SUBSET Groups,
             CreateUser(v, gs) \/ \E api, committed \in BOOLEAN : CreateUserFails(v, gs, api, committed)
      PROVE  UserMirrors(db'.users[u], mem'.users[u], db'.groups)
  BY <1>1, <1>2, <1>5 DEF CreateUser, CreateUserFails, UserMirrors, Rows, Entries
<1>6. ASSUME NEW v \in Users, NEW gs \in SUBSET Groups,
             UpdateUser(v, gs) \/ UpdateUserFails(v, gs)
      PROVE  UserMirrors(db'.users[u], mem'.users[u], db'.groups)
  <2>1. CASE v # u
    BY <1>1, <1>2, <1>6, <2>1
       DEF UpdateUser, UpdateUserFails, UserCommitted, Replace, UserMirrors, Rows, Entries
  <2>2. CASE v = u /\ db.users[u] = None
    BY <1>1, <1>2, <1>6, <2>2
       DEF UpdateUser, UpdateUserFails, UserCommitted, Replace, UserMirrors, Rows, Entries
  <2>3. CASE v = u /\ db.users[u] # None
    BY <1>2, <1>6, <2>3 DEF UpdateUser, UpdateUserFails, UserCommitted, Replace, UserMirrors,
                            ShownRowsAreListed, Rows, Entries
  <2>4. QED
    BY <2>1, <2>2, <2>3
<1>7. CASE db'.users = db.users /\ mem'.users = mem.users /\ ~Restart /\ ~UserStep
  <2>1. UserMirrors(db.users[u], mem.users[u], db.groups)
    BY <1>1, <1>7, TornChanges
  <2>2. \A x \in shown : x \in db'.groups => x \in db.groups
    BY GroupRowsAreNew
  <2>3. /\ db.users[u] # None => db.users[u] \subseteq shown
        /\ mem.users[u] # None => mem.users[u] \subseteq shown
    BY DEF RefersToShown, UsersReferToShown
  <2>4. CASE db.users[u] = None
    BY <1>7, <2>1, <2>4 DEF UserMirrors
  <2>5. CASE db.users[u] # None
    BY <1>7, <2>1, <2>2, <2>3, <2>5 DEF UserMirrors
  <2>6. QED
    BY <2>4, <2>5
<1>8. QED
  BY <1>3, <1>4, <1>5, <1>6, <1>7, UserChanges DEF UserStep

LEMMA OutdatedChanges ==
    ASSUME Typed, [Next]_vars
    PROVE  \/ outdated' = outdated
           \/ \E t \in Tasks, published \in BOOLEAN : SaveLayer(t, published)
           \/ \E t \in Tasks : UpdateCategory(t)
           \/ Restart
<1> USE DEF state, history, bounds
<1>1. ASSUME NEW t \in Tasks, LayerStep(t)
      PROVE  outdated' = outdated \/ \E published \in BOOLEAN : SaveLayer(t, published)
  BY <1>1 DEF LayerStep, LookUpForLayer, ResolveGroups, LayerNotFound, SaveLayerFails
<1>2. ASSUME NEW t \in Tasks, StyleStep(t)
      PROVE  outdated' = outdated
  BY <1>2 DEF StyleStep, LookUpStyleToDelete, LookUpForStyle, WriteStyle, WriteStyleFails,
              ReadStyles, ReadStylesFails, SwapStyles
<1>3. ASSUME NEW t \in Tasks, CategoryStep(t)
      PROVE  outdated' = outdated \/ UpdateCategory(t)
  BY <1>3 DEF CategoryStep, NewCategory, LookUpCategory, PushCategory, WriteCategory,
              WriteCategoryFails, CopyLayers, CheckCategory, DeleteCategory, RemoveCategory
<1>4. ASSUME NEW t \in Tasks, GroupStep(t)
      PROVE  outdated' = outdated
  BY <1>4 DEF GroupStep, NewGroup, FindGroup, CopyLayersForGroup, PushGroup, UpdateGroup,
              DeleteGroup
<1>5. CASE UserStep
  BY <1>5 DEF UserStep, DeleteUser, CreateUser, CreateUserFails, UpdateUser, UpdateUserFails
<1>6. ASSUME NEW l \in Layers, DeleteLayer(l) \/ SwitchPublished(l) \/ EditLayerFails(l)
      PROVE  outdated' = outdated
  BY <1>6 DEF DeleteLayer, SwitchPublished, EditLayerFails
<1>7. CASE UNCHANGED vars
  BY <1>7 DEF vars
<1>8. QED
  BY <1>1, <1>2, <1>3, <1>4, <1>5, <1>6, <1>7 DEF Next

LEMMA LayersFollowRenamesKept ==
    ASSUME Typed, RefersToShown, NewIdsFit, LayersFollowRenames, [Next]_vars
    PROVE  LayersFollowRenames'
<1> USE AdminStoreAssumption
<1>1. mem \in Entries /\ mem' \in Entries
  BY StepTyped DEF Typed, TypeOK
<1>2. SUFFICES ASSUME NEW l \in Layers, mem'.layers[l] # None, l \notin outdated'
               PROVE  mem'.categories[mem'.layers[l].category] \in {mem'.layers[l].label, None}
  BY <1>1 DEF LayersFollowRenames, Present, Entries
<1>3. /\ mem.layers[l] \in Layer \cup {None}
      /\ mem.layers[l] # None /\ l \notin outdated =>
            mem.categories[mem.layers[l].category] \in {mem.layers[l].label, None}
  BY <1>1 DEF LayersFollowRenames, Present, Entries
<1>4. CASE Restart
  BY <1>2, <1>4, RestartEffect
<1>5. ASSUME NEW t \in Tasks, NEW published \in BOOLEAN, SaveLayer(t, published)
      PROVE  mem'.categories[mem'.layers[l].category] \in {mem'.layers[l].label, None}
  <2>1. PICK k \in Layers, row \in LayerRow, label \in Names : Saved(t, published, k, row, label)
    BY <1>5, SaveLayerEffect
  <2>2. outdated' = IF mem.categories[row.category] = label THEN outdated \ {k}
                    ELSE outdated \cup {k}
    BY <1>5, <2>1 DEF SaveLayer, Saved
  <2>3. mem'.categories = mem.categories
    BY <2>1 DEF Saved, OnlyLayersChange
  <2>4. CASE k # l
    BY <1>2, <1>3, <2>1, <2>2, <2>3, <2>4 DEF Saved
  <2>5. CASE k = l
    <3>1. mem'.layers[l] = EntryOf(row, label)
      BY <1>2, <1>5, <2>1, <2>5 DEF Saved
    <3>2. mem'.layers[l].category = row.category /\ mem'.layers[l].label = label
      BY <3>1 DEF EntryOf
    <3>3. QED
      BY <1>2, <2>2, <2>3, <2>5, <3>2
  <2>6. QED
    BY <2>4, <2>5
<1>6. ASSUME NEW t \in Tasks, UpdateCategory(t)
      PROVE  mem'.categories[mem'.layers[l].category] \in {mem'.layers[l].label, None}
  <2> DEFINE c == task[t].id
             n == task[t].label
  <2>1. outdated' = {k \in outdated : mem.layers[k] # None => mem.layers[k].category # c}
    BY <1>6 DEF UpdateCategory
  <2>2. c \in Categories /\ mem'.categories = [mem.categories EXCEPT ![c] = n]
    BY <1>6, UpdateCategoryEffect
  <2>3. /\ mem.layers[l] # None /\ mem'.layers[l].category = mem.layers[l].category
        /\ mem'.layers[l].label = IF mem.layers[l].category = c THEN n ELSE mem.layers[l].label
    BY <1>2, <1>6, UpdateCategoryEffect
  <2>4. mem.layers[l].category \in Categories /\ mem.categories \in [Categories -> Names \cup {None}]
    BY <1>1, <1>3, <2>3 DEF Layer, Entries
  <2> HIDE DEF c, n
  <2>5. CASE mem.layers[l].category = c
    BY <2>2, <2>3, <2>4, <2>5
  <2>6. CASE mem.layers[l].category # c
    BY <1>2, <1>3, <2>1, <2>2, <2>3, <2>4, <2>6
  <2>7. QED
    BY <2>5, <2>6
<1>7. CASE mem'.layers = mem.layers /\ outdated' = outdated
  <2>1. mem.layers[l].category \in Categories \cap shown
    BY <1>2, <1>3, <1>7 DEF Layer, RefersToShown, LayersReferToShown
  <2>2. CASE mem'.categories = mem.categories
    BY <1>2, <1>3, <1>7, <2>2
  <2>3. ASSUME NEW t \in Tasks, PushCategory(t)
        PROVE  mem'.categories[mem'.layers[l].category] \in {mem'.layers[l].label, None}
    <3>1. task[t].id \notin shown
      BY <2>3 DEF PushCategory, At, NewIdsFit
    <3>2. mem'.categories[mem.layers[l].category] = mem.categories[mem.layers[l].category]
      BY <1>1, <2>1, <2>3, <3>1 DEF PushCategory, Entries
    <3>3. QED
      BY <1>2, <1>3, <1>7, <3>2
  <2>4. ASSUME NEW t \in Tasks, RemoveCategory(t)
        PROVE  mem'.categories[mem'.layers[l].category] \in {mem'.layers[l].label, None}
    <3>1. mem'.categories[mem.layers[l].category] \in {mem.categories[mem.layers[l].category], None}
      BY <1>1, <2>1, <2>4 DEF RemoveCategory, Entries
    <3>2. QED
      BY <1>2, <1>3, <1>7, <3>1
  <2>5. QED
    BY <1>4, <1>6, <2>2, <2>3, <2>4, CategoryChanges
<1>8. ASSUME NEW k \in Layers, DeleteLayer(k) \/ SwitchPublished(k) \/ EditLayerFails(k)
      PROVE  mem'.categories[mem'.layers[l].category] \in {mem'.layers[l].label, None}
  <2>1. outdated' = outdated
    BY <1>8 DEF DeleteLayer, SwitchPublished, EditLayerFails, history
  <2>2. mem'.categories = mem.categories
    BY <1>8, LayerEditEffect DEF OnlyLayersChange
  <2>3. /\ mem.layers[l] # None /\ mem'.layers[l].category = mem.layers[l].category
        /\ mem'.layers[l].label = mem.layers[l].label
    BY <1>2, <1>8, LayerEditEffect DEF SwitchedTo
  <2>4. QED
    BY <1>2, <1>3, <2>1, <2>2, <2>3
<1>9. ASSUME NEW t \in Tasks, NEW published \in BOOLEAN, SaveLayerFails(t, published)
      PROVE  mem' = mem /\ outdated' = outdated
  BY <1>9 DEF SaveLayerFails
<1>10. QED
  BY <1>4, <1>5, <1>6, <1>7, <1>8, <1>9, LayerChanges, OutdatedChanges

-----------------------------------------------------------------------------
(***************************************************************************)
(* References: kept, written, or missed.                                   *)
(***************************************************************************)

\* What the row or entry of a layer refers to.
RefsOf(layer) == IF layer = None THEN {} ELSE layer.groups \cup {layer.category}

LEMMA ReferencesOfRows ==
    /\ \A l \in Layers : References(l) = RefsOf(db.layers[l])
    /\ \A l \in Layers : References(l)' = RefsOf(db'.layers[l])
    /\ \A s \in Styles : References(s) = {db.styles[s]} \ {None}
    /\ \A s \in Styles : References(s)' = {db'.styles[s]} \ {None}
    /\ \A u \in Users : References(u) = IF db.users[u] = None THEN {} ELSE db.users[u]
    /\ \A u \in Users : References(u)' = IF db'.users[u] = None THEN {} ELSE db'.users[u]
<1>1. \A e \in Styles \cup Users : e \notin Layers
  BY AdminStoreAssumption
<1>2. \A e \in Users : e \notin Styles
  BY AdminStoreAssumption
<1>3. QED
  BY <1>1, <1>2 DEF References, RefsOf

LEMMA ReferencesStay ==
    ASSUME NEW e \in Layers \cup Styles \cup Users,
           e \in Layers => db'.layers[e] = db.layers[e],
           e \in Styles => db'.styles[e] = db.styles[e],
           e \in Users => db'.users[e] = db.users[e]
    PROVE  References(e)' = References(e)
<1>1. CASE e \in Layers
  BY <1>1, ReferencesOfRows
<1>2. CASE e \in Styles
  BY <1>2, ReferencesOfRows
<1>3. CASE e \in Users
  BY <1>3, ReferencesOfRows
<1>4. QED
  BY <1>1, <1>2, <1>3

\* Styles refer to categories, users to groups, layers to both.
LEMMA ReferencesTyped ==
    ASSUME Typed
    PROVE  /\ \A l \in Layers : RefsOf(db.layers[l]) \subseteq Categories \cup Groups
           /\ \A s \in Styles : References(s) \subseteq Categories
           /\ \A u \in Users : References(u) \subseteq Groups
<1>1. db \in Rows
  BY DEF Typed, TypeOK
<1>2. QED
  BY <1>1, ReferencesOfRows DEF RefsOf, Rows, LayerRow

\* The reference of e to x was there before, and so was its copy in memory.
Kept(e, x) ==
    /\ x \in References(e)
    /\ <<e, x>> \in missed => <<e, x>> \in missed'
    /\ e \in Layers /\ x \in RefsOf(mem'.layers[e]) => x \in RefsOf(mem.layers[e])

\* The reference of e to x was written: x is there, and no deletion of it has
\* looked; one of a group counts the users at its end.
Written(e, x) ==
    /\ x \in Present(db.categories) \cup db.groups
    /\ db'.categories = db.categories /\ db'.groups = db.groups
    /\ (e \in Users /\ x \in Groups) \/ ~DeletionLooked(x)

Accounted(e, x) == Kept(e, x) \/ <<e, x>> \in missed' \/ Written(e, x)

\* The row of one entity is replaced, and the references of the others stay.
LEMMA ReferEffect ==
    ASSUME NEW e, NEW late, Refer(e, late)
    PROVE  /\ \A x \in late : <<e, x>> \in missed'
           /\ \A f, x : f # e /\ <<f, x>> \in missed => <<f, x>> \in missed'
<1>1. missed' = {m \in missed : m[1] # e} \cup {<<e, x>> : x \in late}
  BY DEF Refer
<1>2. ASSUME NEW f, NEW x, f # e, <<f, x>> \in missed
      PROVE  <<f, x>> \in missed'
  <2>1. <<f, x>>[1] = f
    OBVIOUS
  <2>2. QED
    BY <1>1, <1>2, <2>1
<1>3. QED
  BY <1>1, <1>2

\* Which steps replace the references of an entity; the others only add to missed.
LEMMA MissedChanges ==
    ASSUME Typed, [Next]_vars
    PROVE  \/ missed \subseteq missed' /\ db'.styles = db.styles
           \/ \E t \in Tasks, published \in BOOLEAN :
                SaveLayer(t, published) \/ SaveLayerFails(t, published)
           \/ \E l \in Layers : DeleteLayer(l) \/ SwitchPublished(l) \/ EditLayerFails(l)
           \/ \E t \in Tasks : WriteStyle(t) \/ WriteStyleFails(t)
           \/ UserStep
           \/ Restart
<1> DEFINE Same == missed \subseteq missed' /\ db'.styles = db.styles
<1> USE DEF state, history, bounds
<1>1. db \in Rows
  BY DEF Typed, TypeOK
<1>2. ASSUME NEW t \in Tasks, LayerStep(t)
      PROVE  Same \/ \E published \in BOOLEAN : SaveLayer(t, published) \/ SaveLayerFails(t, published)
  BY <1>2 DEF LayerStep, LookUpForLayer, ResolveGroups, LayerNotFound
<1>3. ASSUME NEW t \in Tasks, StyleStep(t)
      PROVE  Same \/ WriteStyle(t) \/ WriteStyleFails(t)
  BY <1>3 DEF StyleStep, LookUpStyleToDelete, LookUpForStyle, ReadStyles, ReadStylesFails, SwapStyles
<1>4. ASSUME NEW t \in Tasks, CategoryStep(t)
      PROVE  Same
  BY <1>1, <1>4 DEF CategoryStep, NewCategory, LookUpCategory, PushCategory, WriteCategory,
              WriteCategoryFails, CategoryRenamed, UpdateCategory, CopyLayers, CheckCategory,
              DeleteCategory, RemoveCategory, Rows
<1>5. ASSUME NEW t \in Tasks, GroupStep(t)
      PROVE  Same
  BY <1>1, <1>5 DEF GroupStep, NewGroup, FindGroup, CopyLayersForGroup, PushGroup, UpdateGroup,
              DeleteGroup, Rows
<1>6. CASE UNCHANGED vars
  BY <1>6 DEF vars
<1>7. QED
  BY <1>2, <1>3, <1>4, <1>5, <1>6 DEF Next

LEMMA LayerReferencesAccounted ==
    ASSUME Typed, NEW t \in Tasks, NEW published \in BOOLEAN,
           SaveLayer(t, published) \/ SaveLayerFails(t, published),
           NEW e \in Layers \cup Styles \cup Users, NEW x \in References(e)'
    PROVE  Accounted(e, x)
<1>1. PICK l \in Layers, row \in LayerRow, label \in Names : Saved(t, published, l, row, label)
  BY SaveLayerEffect
<1>2. OnlyLayersChange
  BY <1>1 DEF Saved
<1>3. CASE e # l
  <2>1. References(e)' = References(e)
    BY <1>1, <1>2, <1>3, ReferencesStay DEF Saved, OnlyLayersChange
  <2>2. <<e, x>> \in missed => <<e, x>> \in missed'
    <3>1. PICK late : Refer(l, late)
      BY <1>1 DEF Saved
    <3>2. QED
      BY <1>3, <3>1, ReferEffect
  <2>3. e \in Layers => mem'.layers[e] = mem.layers[e]
    BY <1>1, <1>3 DEF Saved
  <2>4. QED
    BY <2>1, <2>2, <2>3 DEF Accounted, Kept
<1>4. CASE e = l
  <2>1. x \in RefsOf(db'.layers[l])
    BY <1>4, ReferencesOfRows
  <2>2. l \notin shown \/ db.layers[l] # None
    BY <1>1, <2>1 DEF Saved, RefsOf
  <2>3. x \in row.groups \cup {row.category} /\ Refer(l, Late(row.groups \cup {row.category}))
    BY <1>1, <2>1, <2>2 DEF Saved, RefsOf
  <2>4. CASE x \in Late(row.groups \cup {row.category})
    BY <1>4, <2>3, <2>4, ReferEffect DEF Accounted
  <2>5. CASE x \notin Late(row.groups \cup {row.category})
    <3>1. x \in Present(db.categories) \cup db.groups /\ ~DeletionLooked(x)
      BY <2>3, <2>5 DEF Late
    <3>2. QED
      BY <1>2, <3>1 DEF Accounted, Written, OnlyLayersChange
  <2>6. QED
    BY <2>4, <2>5
<1>5. QED
  BY <1>3, <1>4

LEMMA LayerEditAccounted ==
    ASSUME Typed, NEW l \in Layers, DeleteLayer(l) \/ SwitchPublished(l) \/ EditLayerFails(l),
           NEW e \in Layers \cup Styles \cup Users, NEW x \in References(e)'
    PROVE  Accounted(e, x)
<1>1. OnlyLayersChange
  BY LayerEditEffect
<1>2. CASE e # l
  <2>1. References(e)' = References(e)
    BY <1>1, <1>2, LayerEditEffect, ReferencesStay DEF OnlyLayersChange
  <2>2. <<e, x>> \in missed => <<e, x>> \in missed'
    BY <1>2, LayerEditEffect, ReferEffect
  <2>3. e \in Layers => mem'.layers[e] = mem.layers[e]
    BY <1>2, LayerEditEffect
  <2>4. QED
    BY <2>1, <2>2, <2>3 DEF Accounted, Kept
<1>3. CASE e = l
  <2>1. x \in RefsOf(db'.layers[l])
    BY <1>3, ReferencesOfRows
  <2>2. db'.layers[l] # None
    BY <2>1 DEF RefsOf
  <2>3. /\ SwitchedTo(db'.layers[l], db.layers[l]) /\ missed' = missed
        /\ mem' = mem \/ SwitchedTo(mem'.layers[l], mem.layers[l])
    BY <2>2, LayerEditEffect
  <2>4. x \in RefsOf(db.layers[l])
    BY <2>1, <2>3 DEF SwitchedTo, RefsOf
  <2>5. x \in RefsOf(mem'.layers[l]) => x \in RefsOf(mem.layers[l])
    BY <2>3 DEF SwitchedTo, RefsOf
  <2>6. QED
    BY <1>3, <2>3, <2>4, <2>5, ReferencesOfRows DEF Accounted, Kept
<1>4. QED
  BY <1>2, <1>3

LEMMA StyleReferencesAccounted ==
    ASSUME Typed, NEW t \in Tasks, WriteStyle(t) \/ WriteStyleFails(t),
           NEW e \in Layers \cup Styles \cup Users, NEW x \in References(e)'
    PROVE  Accounted(e, x)
<1> USE AdminStoreAssumption
<1>1. db \in Rows /\ StyleCommitted(t)
  BY DEF Typed, TypeOK, WriteStyle, WriteStyleFails
<1>2. PICK s \in Styles : s = task[t].id
  BY <1>1 DEF StyleCommitted, Typed, TasksFit, TaskFits
<1>3. PICK c : c = task[t].category
  OBVIOUS
<1>4. PICK exists \in BOOLEAN : exists = (s \notin shown \/ db.styles[s] # None)
  OBVIOUS
<1>5. /\ db' = IF exists THEN [db EXCEPT !.styles[s] = c] ELSE db
      /\ Refer(s, IF exists /\ c # None /\ (db.categories[c] = None \/ DeletionLooked(c))
                  THEN {c} ELSE {})
      /\ mem' = mem
  BY <1>1, <1>2, <1>3, <1>4 DEF StyleCommitted
<1>6. /\ db'.layers = db.layers /\ db'.categories = db.categories
      /\ db'.groups = db.groups /\ db'.users = db.users
      /\ db'.styles = IF exists THEN [db.styles EXCEPT ![s] = c] ELSE db.styles
  BY <1>1, <1>5 DEF Rows
<1>7. CASE e # s
  <2>1. References(e)' = References(e)
    BY <1>1, <1>6, <1>7, ReferencesStay DEF Rows
  <2>2. <<e, x>> \in missed => <<e, x>> \in missed'
    <3>1. PICK late : Refer(s, late)
      BY <1>5
    <3>2. QED
      BY <1>7, <3>1, ReferEffect
  <2>3. QED
    BY <1>5, <2>1, <2>2 DEF Accounted, Kept
<1>8. CASE e = s
  <2>1. x \in {db'.styles[s]} \ {None}
    BY <1>8, ReferencesOfRows
  <2>2. exists
    BY <1>4, <1>6, <2>1
  <2>3. x = c /\ c # None
    BY <1>1, <1>6, <2>1, <2>2 DEF Rows
  <2>4. CASE db.categories[c] = None \/ DeletionLooked(c)
    <3>1. Refer(s, {c})
      BY <1>5, <2>2, <2>3, <2>4
    <3>2. QED
      BY <1>8, <2>3, <3>1, ReferEffect DEF Accounted
  <2>5. CASE ~(db.categories[c] = None \/ DeletionLooked(c))
    <3>1. c \in Categories
      <4>1. task[t] \in Job
        BY <1>1 DEF StyleCommitted, Typed, TypeOK, Idle
      <4>2. QED
        BY <1>3, <2>3, <4>1 DEF Job
    <3>2. c \in Present(db.categories)
      BY <1>1, <2>5, <3>1 DEF Present, Rows
    <3>3. QED
      BY <1>6, <2>3, <2>5, <3>2 DEF Accounted, Written
  <2>6. QED
    BY <2>4, <2>5
<1>9. QED
  BY <1>7, <1>8

LEMMA UserReferencesAccounted ==
    ASSUME Typed, GroupsAreKnown, UserStep,
           NEW e \in Layers \cup Styles \cup Users, NEW x \in References(e)'
    PROVE  Accounted(e, x)
<1> USE AdminStoreAssumption
<1>1. PICK u \in Users, gs \in SUBSET Groups : UserEdited(u, gs)
  BY UserStepEffect
<1>2. CASE e # u
  <2>1. References(e)' = References(e)
    BY <1>1, <1>2, ReferencesStay DEF UserEdited
  <2>2. <<e, x>> \in missed => <<e, x>> \in missed'
    <3>1. PICK late : Refer(u, late)
      BY <1>1 DEF UserEdited
    <3>2. QED
      BY <1>2, <3>1, ReferEffect
  <2>3. QED
    BY <1>1, <2>1, <2>2 DEF Accounted, Kept, UserEdited
<1>3. CASE e = u
  <2>1. db'.users[u] = gs /\ x \in gs /\ Refer(u, Lingering(gs))
    BY <1>1, <1>3, ReferencesOfRows DEF UserEdited
  <2>2. CASE x \in Lingering(gs)
    BY <1>3, <2>1, <2>2, ReferEffect DEF Accounted
  <2>3. CASE x \notin Lingering(gs)
    <3>1. x \in db.groups \cup lingering
      BY <1>1, <2>1 DEF UserEdited, GroupsAreKnown
    <3>2. x \in db.groups
      BY <2>1, <2>3, <3>1 DEF Lingering
    <3>3. QED
      BY <1>1, <1>3, <2>1, <3>2 DEF UserEdited, Accounted, Written
  <2>4. QED
    BY <2>2, <2>3
<1>4. QED
  BY <1>2, <1>3

LEMMA ReferencesAccounted ==
    ASSUME Typed, GroupsAreKnown, [Next]_vars, ~Restart,
           NEW e \in Layers \cup Styles \cup Users, NEW x \in References(e)'
    PROVE  Accounted(e, x)
<1>1. CASE /\ missed \subseteq missed'
           /\ db'.layers = db.layers /\ db'.styles = db.styles /\ db'.users = db.users
           /\ \A l \in Layers : RefsOf(mem'.layers[l]) = RefsOf(mem.layers[l])
  <2>1. References(e)' = References(e)
    BY <1>1, ReferencesStay
  <2>2. QED
    BY <1>1, <2>1 DEF Accounted, Kept
<1>2. ASSUME NEW t \in Tasks, UpdateCategory(t)
      PROVE  Accounted(e, x)
  <2>1. \A l \in Layers : RefsOf(mem'.layers[l]) = RefsOf(mem.layers[l])
    BY <1>2, UpdateCategoryEffect DEF RefsOf
  <2>2. db' = db /\ missed' = missed
    BY <1>2, UpdateCategoryEffect
  <2>3. QED
    BY <1>1, <2>1, <2>2
<1>3. CASE UserStep
  BY <1>3, UserReferencesAccounted
<1>4. CASE /\ missed \subseteq missed' /\ db'.styles = db.styles
           /\ db'.layers = db.layers /\ mem'.layers = mem.layers
           /\ db'.users = db.users
  BY <1>1, <1>4
<1>5. QED
  BY <1>2, <1>3, <1>4, LayerChanges, UserChanges, MissedChanges,
     LayerReferencesAccounted, LayerEditAccounted, StyleReferencesAccounted

\* Who refers to x in its row is hidden, or is seen to refer to it in memory.
LEMMA SeenOrHidden ==
    ASSUME Typed, NEW e \in Layers \cup Styles \cup Users, NEW x \in References(e)
    PROVE  \/ <<e, x>> \in Hidden(x)
           \/ e \in Layers /\ x \in RefsOf(mem.layers[e])
           \/ e \in Styles /\ mem.styles[e] = x
           \/ e \in Users /\ mem.users[e] # None /\ x \in mem.users[e]
<1>1. db \in Rows
  BY DEF Typed, TypeOK
<1>2. CASE e \in Layers
  <2>1. db.layers[e] # None /\ x \in db.layers[e].groups \cup {db.layers[e].category}
    BY <1>2, ReferencesOfRows DEF RefsOf
  <2>2. e \in Present(db.layers)
    BY <1>1, <1>2, <2>1 DEF Present, Rows
  <2>3. QED
    BY <1>2, <2>1, <2>2 DEF Hidden, RefsOf
<1>3. CASE e \in Styles
  <2>1. db.styles[e] = x /\ x # None
    BY <1>3, ReferencesOfRows
  <2>2. e \in Present(db.styles)
    BY <1>1, <1>3, <2>1 DEF Present, Rows
  <2>3. QED
    BY <1>3, <2>1, <2>2 DEF Hidden
<1>4. CASE e \in Users
  <2>1. db.users[e] # None /\ x \in db.users[e]
    BY <1>4, ReferencesOfRows
  <2>2. e \in Present(db.users)
    BY <1>1, <1>4, <2>1 DEF Present, Rows
  <2>3. QED
    BY <1>4, <2>1, <2>2 DEF Hidden
<1>5. QED
  BY <1>2, <1>3, <1>4

LEMMA CategoryRowChanges ==
    ASSUME Typed, [Next]_vars
    PROVE  \/ db'.categories = db.categories
           \/ \E t \in Tasks :
                \/ \E c \in Categories, n \in Names : NewCategory(t, c, n)
                \/ WriteCategory(t) \/ WriteCategoryFails(t) \/ DeleteCategory(t)
<1> DEFINE Same == db'.categories = db.categories
<1> USE DEF state, history, bounds
<1>1. db \in Rows
  BY DEF Typed, TypeOK
<1>2. ASSUME NEW t \in Tasks, LayerStep(t)
      PROVE  Same
  BY <1>1, <1>2 DEF LayerStep, LookUpForLayer, ResolveGroups, LayerNotFound, SaveLayer,
              SaveLayerFails, LayerCommitted, Rows
<1>3. ASSUME NEW t \in Tasks, StyleStep(t)
      PROVE  Same
  BY <1>1, <1>3 DEF StyleStep, LookUpStyleToDelete, LookUpForStyle, WriteStyle, WriteStyleFails,
              StyleCommitted, ReadStyles, ReadStylesFails, SwapStyles, Rows
<1>4. ASSUME NEW t \in Tasks, CategoryStep(t)
      PROVE  \/ Same
             \/ \E c \in Categories, n \in Names : NewCategory(t, c, n)
             \/ WriteCategory(t) \/ WriteCategoryFails(t) \/ DeleteCategory(t)
  BY <1>1, <1>4 DEF CategoryStep, LookUpCategory, PushCategory, UpdateCategory, CopyLayers,
              CheckCategory, RemoveCategory
<1>5. ASSUME NEW t \in Tasks, GroupStep(t)
      PROVE  Same
  BY <1>1, <1>5 DEF GroupStep, NewGroup, FindGroup, CopyLayersForGroup, PushGroup, UpdateGroup,
              DeleteGroup, Rows
<1>6. CASE UserStep
  BY <1>6, UserStepEffect DEF UserEdited
<1>7. ASSUME NEW l \in Layers, DeleteLayer(l) \/ SwitchPublished(l) \/ EditLayerFails(l)
      PROVE  Same
  BY <1>7, LayerEditEffect DEF OnlyLayersChange
<1>8. CASE Restart
  BY <1>8, RestartEffect
<1>9. CASE UNCHANGED vars
  BY <1>9 DEF vars
<1>10. QED
  BY <1>2, <1>3, <1>4, <1>5, <1>6, <1>7, <1>8, <1>9 DEF Next

\* A category or group leaves its table by a deletion.
LEMMA TargetGone ==
    ASSUME Typed, [Next]_vars, NEW x \in Present(db.categories) \cup db.groups,
           x \notin Present(db'.categories) \cup db'.groups
    PROVE  \E t \in Tasks :
                task[t].id = x /\ (DeleteCategory(t) \/ (DeleteGroup(t) /\ ~GroupInUse(t)))
<1> USE AdminStoreAssumption DEF state, history, bounds
<1>1. db \in Rows /\ db' \in Rows
  BY StepTyped DEF Typed, TypeOK
<1>2. CASE x \in Categories
  <2>1. db.categories[x] # None /\ db'.categories[x] = None
    BY <1>1, <1>2 DEF Present, Rows
  <2>2. ASSUME NEW t \in Tasks, WriteCategory(t) \/ WriteCategoryFails(t)
        PROVE  FALSE
    <3>1. task[t].label # None
      BY <2>2 DEF WriteCategory, WriteCategoryFails, At, Typed, TasksFit, TaskFits
    <3>2. CategoryRenamed(t) \/ db' = db
      BY <2>2 DEF WriteCategory, WriteCategoryFails
    <3>3. PICK c, n : c = task[t].id /\ n = task[t].label
      OBVIOUS
    <3>4. db' = db \/ db' = [db EXCEPT !.categories[c] = n]
      BY <3>2, <3>3 DEF CategoryRenamed
    <3>5. QED
      BY <1>1, <1>2, <2>1, <3>1, <3>3, <3>4 DEF Rows
  <2>3. ASSUME NEW t \in Tasks, NEW c \in Categories, NEW n \in Names, NewCategory(t, c, n)
        PROVE  FALSE
    BY <1>1, <2>1, <2>3 DEF NewCategory, Rows
  <2>4. ASSUME NEW t \in Tasks, DeleteCategory(t)
        PROVE  task[t].id = x
    BY <1>1, <2>1, <2>4 DEF DeleteCategory, Rows
  <2>5. QED
    BY <2>1, <2>2, <2>3, <2>4, CategoryRowChanges
<1>3. CASE x \in Groups
  <2>1. x \in db.groups /\ x \notin db'.groups
    BY <1>1, <1>3 DEF Present, Rows
  <2>2. ASSUME NEW t \in Tasks, PushGroup(t) \/ UpdateGroup(t)
        PROVE  FALSE
    BY <2>1, <2>2 DEF PushGroup, UpdateGroup
  <2>3. ASSUME NEW t \in Tasks, NEW g \in Groups, NewGroup(t, g)
        PROVE  FALSE
    BY <1>1, <2>1, <2>3 DEF NewGroup, Rows
  <2>4. ASSUME NEW t \in Tasks, DeleteGroup(t)
        PROVE  task[t].id = x /\ ~GroupInUse(t)
    BY <1>1, <2>1, <2>4 DEF DeleteGroup, Rows
  <2>5. QED
    BY <2>1, <2>2, <2>3, <2>4, GroupChanges, RestartEffect
<1>4. QED
  BY <1>1, <1>2, <1>3 DEF Present, Rows

\* Whoever refers to a group that is deleted was not to be seen.
LEMMA GroupDeletionSees ==
    ASSUME Typed, DeletionsLooked, NEW t \in Tasks, DeleteGroup(t), ~GroupInUse(t),
           NEW e \in Layers \cup Styles \cup Users, task[t].id \in References(e)
    PROVE  <<e, task[t].id>> \in missed'
<1> USE AdminStoreAssumption
<1>1. PICK g \in Groups : g = task[t].id
  BY DEF DeleteGroup, At, Typed, TasksFit, TaskFits
<1>2. missed' = missed \cup Hidden(g)
  BY <1>1 DEF DeleteGroup
<1>3. ~task[t].used /\ \A u \in Present(mem.users) : g \notin mem.users[u]
  BY <1>1 DEF GroupInUse
<1>4. CASE <<e, g>> \in Hidden(g)
  BY <1>1, <1>2, <1>4
<1>5. CASE e \in Layers /\ g \in RefsOf(mem.layers[e])
  <2>1. CopiedUnused(g)
    BY <1>1, <1>3 DEF DeletionsLooked, DeleteGroup
  <2>2. <<e, g>> \in missed
    BY <1>1, <1>5, <2>1 DEF CopiedUnused, RefsOf
  <2>3. QED
    BY <1>1, <1>2, <2>2
<1>6. CASE e \in Styles
  BY <1>1, <1>6, ReferencesTyped
<1>7. CASE e \in Users /\ mem.users[e] # None /\ g \in mem.users[e]
  <2>1. e \in Present(mem.users)
    BY <1>7 DEF Present, Typed, TypeOK, Entries
  <2>2. QED
    BY <1>3, <1>7, <2>1
<1>8. QED
  BY <1>1, <1>4, <1>5, <1>6, <1>7, SeenOrHidden

\* Nor whoever refers to a category that is found to be unused.
LEMMA CategoryCheckSees ==
    ASSUME Typed, DeletionsLooked, NEW t \in Tasks, CheckCategory(t), task'[t].at = "row",
           task'[t] # Idle,
           NEW e \in Layers \cup Styles \cup Users, task[t].id \in References(e)
    PROVE  <<e, task[t].id>> \in missed'
<1> USE AdminStoreAssumption
<1>1. PICK c \in Categories : c = task[t].id
  BY DEF CheckCategory, At, Typed, TasksFit, TaskFits
<1>2. ~CategoryInUse(t)
  BY DEF CheckCategory, End, Typed, TasksFit
<1>3. missed' = missed \cup Hidden(c)
  BY <1>1, <1>2 DEF CheckCategory
<1>4. ~task[t].used /\ \A s \in Styles : mem.styles[s] # c
  BY <1>1, <1>2 DEF CategoryInUse
<1>5. CASE <<e, c>> \in Hidden(c)
  BY <1>1, <1>3, <1>5
<1>6. CASE e \in Layers /\ c \in RefsOf(mem.layers[e])
  <2>1. CopiedUnused(c)
    BY <1>1, <1>4 DEF DeletionsLooked, CheckCategory
  <2>2. <<e, c>> \in missed
    BY <1>1, <1>6, <2>1 DEF CopiedUnused, RefsOf
  <2>3. QED
    BY <1>1, <1>3, <2>2
<1>7. CASE e \in Users
  BY <1>1, <1>7, ReferencesTyped
<1>8. QED
  BY <1>1, <1>4, <1>5, <1>6, <1>7, SeenOrHidden

LEMMA ReferencesResolveKept ==
    ASSUME Typed, GroupsAreKnown, DeletionsLooked, ReferencesResolve, [Next]_vars
    PROVE  ReferencesResolve'
<1>1. SUFFICES ASSUME NEW e \in Layers \cup Styles \cup Users, NEW x \in References(e)',
                      x \notin Present(db'.categories) \cup db'.groups
               PROVE  <<e, x>> \in missed'
  BY DEF ReferencesResolve
<1>2. ASSUME x \in References(e)
      PROVE  x \in Present(db.categories) \cup db.groups \/ <<e, x>> \in missed
  BY <1>2 DEF ReferencesResolve
<1>3. CASE Restart
  <2>1. /\ db'.layers = db.layers /\ db'.styles = db.styles
        /\ db'.categories = db.categories /\ db'.groups = db.groups
    BY <1>3, RestartEffect
  <2>2. CASE db'.users = db.users /\ missed' = missed
    BY <1>1, <1>2, <2>1, <2>2, ReferencesStay
  <2>3. ASSUME NEW u \in Users, db'.users = [db.users EXCEPT ![u] = {FirstGroup}],
               Refer(u, {FirstGroup} \ db.groups)
        PROVE  <<e, x>> \in missed'
    <3>1. db.users \in [Users -> (SUBSET Groups) \cup {None}]
      BY DEF Typed, TypeOK, Rows
    <3>2. CASE e = u
      <4>1. x = FirstGroup
        BY <2>3, <3>1, <3>2, ReferencesOfRows
      <4>2. QED
        BY <1>1, <2>1, <2>3, <3>2, <4>1, ReferEffect
    <3>3. CASE e # u
      <4>1. x \in References(e)
        BY <2>1, <2>3, <3>1, <3>3, ReferencesStay
      <4>2. QED
        BY <1>1, <1>2, <2>1, <2>3, <3>3, <4>1, ReferEffect
    <3>4. QED
      BY <3>2, <3>3
  <2>4. QED
    BY <1>3, <2>2, <2>3, RestartEffect
<1>4. CASE ~Restart
  <2>1. CASE <<e, x>> \in missed'
    BY <2>1
  <2>2. CASE Written(e, x)
    BY <1>1, <2>2 DEF Written
  <2>3. CASE Kept(e, x) /\ x \in Present(db.categories) \cup db.groups
    <3>1. PICK t \in Tasks :
            task[t].id = x /\ (DeleteCategory(t) \/ (DeleteGroup(t) /\ ~GroupInUse(t)))
      BY <1>1, <2>3, TargetGone
    <3>2. CASE DeleteCategory(t)
      BY <2>3, <3>1, <3>2 DEF DeleteCategory, DeletionsLooked, Kept
    <3>3. CASE DeleteGroup(t) /\ ~GroupInUse(t)
      BY <2>3, <3>1, <3>3, GroupDeletionSees DEF Kept
    <3>4. QED
      BY <3>1, <3>2, <3>3
  <2>4. QED
    BY <1>2, <1>4, <2>1, <2>2, <2>3, ReferencesAccounted DEF Accounted, Kept
<1>5. QED
  BY <1>3, <1>4

LEMMA CopiedUnusedKept ==
    ASSUME Typed, GroupsAreKnown, [Next]_vars, ~Restart, NEW x, CopiedUnused(x), DeletionLooked(x)
    PROVE  CopiedUnused(x)'
<1>1. SUFFICES ASSUME NEW l \in Layers, x \in RefsOf(mem'.layers[l]), x \in References(l)'
               PROVE  <<l, x>> \in missed'
  BY DEF CopiedUnused, RefsOf
<1>2. CASE Kept(l, x)
  <2>1. x \in RefsOf(mem.layers[l])
    BY <1>1, <1>2 DEF Kept
  <2>2. QED
    BY <1>2, <2>1 DEF Kept, CopiedUnused, RefsOf
<1>3. CASE Written(l, x)
  BY <1>3, AdminStoreAssumption DEF Written
<1>4. QED
  BY <1>1, <1>2, <1>3, ReferencesAccounted DEF Accounted

\* The copy of the layers shows no reference: there is none in memory.
LEMMA CopyLayersLooks ==
    ASSUME Typed, NEW t \in Tasks, NEW c \in Categories, CopyLayers(t, c)
    PROVE  task'[t].id = c /\ task'[t].at = "check" /\ (~task'[t].used => CopiedUnused(c)')
<1>1. mem \in Entries
  BY DEF Typed, TypeOK
<1>2. PICK used \in BOOLEAN : used <=> \E l \in Present(mem.layers) : mem.layers[l].category = c
  OBVIOUS
<1>3. PICK j : j = [Begun("delete_category", "check", c) EXCEPT !.used = used]
  OBVIOUS
<1>4. task' = [task EXCEPT ![t] = j]
  BY <1>2, <1>3 DEF CopyLayers, Start
<1>5. task'[t] = j
  BY <1>4 DEF Typed, TasksFit
<1>6. j.id = c /\ j.at = "check" /\ j.used = used
  BY <1>3 DEF Begun
<1>7. ASSUME ~used
      PROVE  CopiedUnused(c)'
  <2>1. mem' = mem
    BY DEF CopyLayers
  <2>2. \A l \in Layers : mem.layers[l] # None =>
            mem.layers[l].category # c /\ mem.layers[l].groups \subseteq Groups
    BY <1>1, <1>2, <1>7 DEF Present, Entries, Layer
  <2>3. QED
    BY <2>1, <2>2, AdminStoreAssumption DEF CopiedUnused
<1>8. QED
  BY <1>5, <1>6, <1>7

LEMMA CopyLayersForGroupLooks ==
    ASSUME Typed, NEW t \in Tasks, NEW g \in Groups, CopyLayersForGroup(t, g)
    PROVE  task'[t].id = g /\ (~task'[t].used => CopiedUnused(g)')
<1>1. mem \in Entries
  BY DEF Typed, TypeOK
<1>2. PICK used \in BOOLEAN : used <=> \E l \in Present(mem.layers) : g \in mem.layers[l].groups
  OBVIOUS
<1>3. PICK j : j = [Begun("delete_group", "row", g) EXCEPT !.used = used]
  OBVIOUS
<1>4. task' = [task EXCEPT ![t] = j]
  BY <1>2, <1>3 DEF CopyLayersForGroup, Start
<1>5. task'[t] = j
  BY <1>4 DEF Typed, TasksFit
<1>6. j.id = g /\ j.used = used
  BY <1>3 DEF Begun
<1>7. ASSUME ~used
      PROVE  CopiedUnused(g)'
  <2>1. mem' = mem
    BY DEF CopyLayersForGroup
  <2>2. \A l \in Layers : mem.layers[l] # None =>
            g \notin mem.layers[l].groups /\ mem.layers[l].category \in Categories
    BY <1>1, <1>2, <1>7 DEF Present, Entries, Layer
  <2>3. QED
    BY <2>1, <2>2, AdminStoreAssumption DEF CopiedUnused
<1>8. QED
  BY <1>5, <1>6, <1>7

\* What a deletion that has looked relies on, for one handler.
Looked(t) ==
    /\ At(t, "delete_category", "check") /\ ~task[t].used => CopiedUnused(task[t].id)
    /\ At(t, "delete_group", "row") /\ ~task[t].used => CopiedUnused(task[t].id)
    /\ At(t, "delete_category", "row") =>
        \A e \in Layers \cup Styles \cup Users :
            task[t].id \in References(e) => <<e, task[t].id>> \in missed

LEMMA DeletionsLookedKept ==
    ASSUME Typed, GroupsAreKnown, DeletionsLooked, [Next]_vars
    PROVE  DeletionsLooked'
<1> USE AdminStoreAssumption
<1>1. SUFFICES ASSUME NEW t \in Tasks
               PROVE  Looked(t)'
  BY DEF DeletionsLooked, Looked
<1>2. Looked(t)
  BY DEF DeletionsLooked, Looked
<1>3. CASE task'[t] = Idle
  BY <1>3 DEF Looked, At, Idle
<1>4. CASE task'[t] = task[t] /\ ~Restart
  <2>1. PICK x : x = task[t].id
    OBVIOUS
  <2>2. DeletionLooked(x) /\ CopiedUnused(x) => CopiedUnused(x)'
    BY <1>4, CopiedUnusedKept
  <2>3. ASSUME At(t, "delete_category", "check") \/ At(t, "delete_group", "row")
                \/ At(t, "delete_category", "row")
        PROVE  DeletionLooked(x)
    BY <2>1, <2>3 DEF At, DeletionLooked
  <2>4. ASSUME At(t, "delete_category", "row"), NEW e \in Layers \cup Styles \cup Users,
               x \in References(e)'
        PROVE  <<e, x>> \in missed'
    <3>1. x \in Categories
      BY <2>1, <2>4 DEF At, Typed, TasksFit, TaskFits
    <3>2. CASE Kept(e, x)
      BY <1>2, <2>1, <2>4, <3>2 DEF Looked, Kept
    <3>3. CASE Written(e, x)
      BY <2>3, <2>4, <3>1, <3>3 DEF Written
    <3>4. QED
      BY <1>4, <2>4, <3>2, <3>3, ReferencesAccounted DEF Accounted
  <2>5. /\ At(t, "delete_category", "check") /\ ~task[t].used => CopiedUnused(x)'
        /\ At(t, "delete_group", "row") /\ ~task[t].used => CopiedUnused(x)'
    BY <1>2, <2>1, <2>2, <2>3 DEF Looked
  <2>6. task'[t].id = x
    BY <1>4, <2>1
  <2>7. /\ At(t, "delete_category", "check")' => At(t, "delete_category", "check")
        /\ At(t, "delete_group", "row")' => At(t, "delete_group", "row")
        /\ At(t, "delete_category", "row")' => At(t, "delete_category", "row")
    BY <1>4 DEF At
  <2>8. QED
    BY <1>4, <2>4, <2>5, <2>6, <2>7 DEF Looked, CopiedUnused
<1>5. ASSUME NEW j, TaskMoves(t, j), ~Restart
      PROVE  Looked(t)'
  <2>1. task'[t] = j
    BY <1>5 DEF TaskMoves, Typed, TasksFit
  <2>2. CASE j = Idle
    BY <1>3, <2>1, <2>2
  <2>3. CASE Continues(t, task[t], j)
    <3>1. PICK c : c = task[t].id /\ c = j.id
      BY <2>3 DEF Continues
    <3>2. j.op # "delete_group" /\ (j.op = "delete_category" => j.at # "check")
      BY <2>3 DEF Continues
    <3>3. ASSUME j.op = "delete_category", j.at = "row",
                 NEW e \in Layers \cup Styles \cup Users, c \in References(e)'
          PROVE  <<e, c>> \in missed'
      <4>1. CheckCategory(t)
        BY <2>3, <3>3 DEF Continues
      <4>2. db' = db
        BY <4>1 DEF CheckCategory
      <4>3. c \in References(e)
        BY <3>3, <4>2, ReferencesStay
      <4>4. j # Idle
        BY <3>3 DEF Idle
      <4>5. QED
        BY <2>1, <3>1, <3>3, <4>1, <4>3, <4>4, CategoryCheckSees
    <3>4. QED
      BY <2>1, <3>1, <3>2, <3>3 DEF Looked, At
  <2>4. CASE Begins(t, j)
    <3>1. PICK x : x = j.id
      OBVIOUS
    <3>2. ASSUME j.op = "delete_category"
          PROVE  j.at = "check" /\ (~j.used => CopiedUnused(x)')
      <4>1. CopyLayers(t, x) /\ x \in Categories
        <5>1. CopyLayers(t, x)
          BY <2>4, <3>1, <3>2 DEF Begins, LayerOps
        <5>2. x \in Categories
          BY <2>1, <3>1, <3>2, StepTyped DEF Typed, TasksFit, TaskFits
        <5>3. QED
          BY <5>1, <5>2
      <4>2. QED
        BY <2>1, <4>1, CopyLayersLooks
    <3>3. ASSUME j.op = "delete_group"
          PROVE  ~j.used => CopiedUnused(x)'
      <4>1. CopyLayersForGroup(t, x) /\ x \in Groups
        <5>1. CopyLayersForGroup(t, x)
          BY <2>4, <3>1, <3>3 DEF Begins, LayerOps
        <5>2. x \in Groups
          BY <5>1 DEF CopyLayersForGroup, Typed, TypeOK, Entries
        <5>3. QED
          BY <5>1, <5>2
      <4>2. QED
        BY <2>1, <4>1, CopyLayersForGroupLooks
    <3>4. QED
      BY <2>1, <3>1, <3>2, <3>3 DEF Looked, At, CopiedUnused
  <2>5. QED
    BY <1>5, <2>2, <2>3, <2>4 DEF TaskMoves
<1>6. CASE Restart
  BY <1>3, <1>6 DEF Restart
<1>7. ASSUME NEW u \in Tasks, u # t, NEW j, TaskMoves(u, j)
      PROVE  task'[t] = task[t]
  BY <1>7 DEF TaskMoves, Typed, TasksFit
<1>8. QED
  BY <1>4, <1>5, <1>6, <1>7, TaskChanges

-----------------------------------------------------------------------------
(***************************************************************************)
(* The inductive invariant.                                                *)
(***************************************************************************)

LEMMA LockedListsMirrorRowsKept ==
    ASSUME Typed, RefersToShown, ShownRowsAreListed, LockedListsMirrorRows, [Next]_vars
    PROVE  LockedListsMirrorRows'
<1>1. \A l \in Layers \ torn' : LayerMirrors(db'.layers[l], mem'.layers[l], db'.groups)
  BY LayersMirrorKept
<1>2. \A u \in Users \ torn' : UserMirrors(db'.users[u], mem'.users[u], db'.groups)
  BY UsersMirrorKept
<1>3. QED
  BY <1>1, <1>2 DEF LockedListsMirrorRows, LayerMirrors, UserMirrors

LEMMA InitInductive == Init => IInv
<1> SUFFICES ASSUME Init
             PROVE  IInv
  OBVIOUS
<1> USE AdminStoreAssumption
<1>1. Typed
  BY InitTyped
<1>2. /\ \A l \in Layers : db.layers[l] = None /\ mem.layers[l] = None
      /\ \A s \in Styles : db.styles[s] = None
      /\ \A u \in Users : db.users[u] = mem.users[u] /\ db.users[u] \in {None, {FirstGroup}}
      /\ db.groups = {FirstGroup} /\ mem.groups = {FirstGroup}
      /\ shown = {FirstCategory, FirstGroup, FirstUser}
      /\ \A t \in Tasks : task[t] = Idle
  BY DEF Init, NothingBut
<1>3. NewIdsFit
  BY <1>2 DEF NewIdsFit, Idle
<1>4. Listed(mem) \subseteq shown
  BY DEF Init, NothingBut, Listed, Present
<1>5. RefersToShown
  BY <1>2, <1>4 DEF RefersToShown, ListedIsShown, LayersReferToShown, UsersReferToShown,
                    TasksReferToShown, Idle, LayerOps
<1>6. ShownRowsAreListed /\ GroupsAreKnown
  BY <1>2 DEF ShownRowsAreListed, GroupsAreKnown
<1>7. DeletionsLooked
  BY <1>2 DEF DeletionsLooked, At, Idle
<1>8. ReferencesResolve
  <2>1. ASSUME NEW e \in Layers \cup Styles \cup Users, NEW x \in References(e)
        PROVE  x \in db.groups
    <3>1. CASE e \in Layers
      BY <1>2, <2>1, <3>1, ReferencesOfRows DEF RefsOf
    <3>2. CASE e \in Styles
      BY <1>2, <2>1, <3>2, ReferencesOfRows
    <3>3. CASE e \in Users
      BY <1>2, <2>1, <3>3, ReferencesOfRows
    <3>4. QED
      BY <3>1, <3>2, <3>3
  <2>2. QED
    BY <2>1 DEF ReferencesResolve
<1>9. LockedListsMirrorRows
  BY <1>2 DEF LockedListsMirrorRows
<1>10. LayersFollowRenames
  BY <1>1, <1>2 DEF LayersFollowRenames, Present, Typed, TypeOK, Entries
<1>11. QED
  BY <1>1, <1>3, <1>5, <1>6, <1>7, <1>8, <1>9, <1>10 DEF IInv

LEMMA StepInductive == IInv /\ [Next]_vars => IInv'
BY StepTyped, NewIdsFitKept, RefersToShownKept, ShownRowsAreListedKept, GroupsAreKnownKept,
   DeletionsLookedKept, ReferencesResolveKept, LockedListsMirrorRowsKept, LayersFollowRenamesKept
   DEF IInv

LEMMA Inductive == Spec => []IInv
BY InitInductive, StepInductive, PTL DEF Spec

\* A row refers to no category or group that is gone, but for the references the
\* deletion could not have seen (count_category_references, count_group_references),
\* however the deletions and the edits of layers, styles and users overlap.
THEOREM ReferencesAlwaysResolve == Spec => []ReferencesResolve
<1>1. IInv => ReferencesResolve
  BY DEF IInv
<1>2. QED
  BY <1>1, Inductive, PTL

\* CATALOG's layers and AUTH's users are those a restart would load, but for the
\* entities a statement failed for (their methods hold the write guard from the row
\* to the entry).
THEOREM ListsAlwaysMirrorRows == Spec => []LockedListsMirrorRows
<1>1. IInv => LockedListsMirrorRows
  BY DEF IInv
<1>2. QED
  BY <1>1, Inductive, PTL

\* A layer carries the name CATEGORIES shows for its category, unless it was saved
\* with a name looked up before a rename (Category::update_category).
THEOREM LayersAlwaysFollowRenames == Spec => []LayersFollowRenames
<1>1. IInv => LayersFollowRenames
  BY DEF IInv
<1>2. QED
  BY <1>1, Inductive, PTL

=============================================================================
