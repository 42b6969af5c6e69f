----------------------------- MODULE AdminStore -----------------------------
(***************************************************************************)
(* The administrators' edits of one standalone process: layers, styles,    *)
(* categories, groups and users as rows of SQLite (config/*.rs), which     *)
(* refer to each other by id, and as the lists in memory (models/*.rs,     *)
(* auth/models.rs), which embed copies of what they refer to.  SQLite has  *)
(* no foreign keys: a category or group is deleted when no entry in memory *)
(* refers to it.                                                           *)
(*                                                                         *)
(* A handler is cut at the awaits where another one can change what it     *)
(* goes on to use.  What it does under a write guard of the only list it   *)
(* touches is one step.  A statement that fails changes no row, and its    *)
(* handler returns: what it leaves behind matters only when the row is     *)
(* committed and the version bump behind it fails.                         *)
(***************************************************************************)
EXTENDS Naturals, FiniteSets

CONSTANTS
    Tasks,       \* handlers that may be under way at a time
    Categories, Groups, Layers, Styles, Users,  \* ids
    Names,       \* names of categories
    None,        \* no row, no entry
    FirstCategory, FirstGroup,  \* the rows the migrations insert
    FirstUser,   \* the administrator init_sqlite adds
    MaxEdits,    \* bound: handlers started
    MaxFaults    \* bound: failing statements and restarts

LayerRow == [category : Categories, groups : SUBSET Groups, published : BOOLEAN]

\* A layer in memory carries the name its category had when it was copied.
Layer == [category : Categories, label : Names, groups : SUBSET Groups, published : BOOLEAN]

Ids == Categories \cup Groups \cup Layers \cup Styles \cup Users

\* An id is a uuid: it is the id of one entity only.
ASSUME AdminStoreAssumption ==
    /\ FirstCategory \in Categories
    /\ FirstGroup \in Groups
    /\ FirstUser \in Users
    /\ Names # {}
    /\ Categories \cap (Groups \cup Layers \cup Styles \cup Users) = {}
    /\ Groups \cap (Layers \cup Styles \cup Users) = {}
    /\ Layers \cap (Styles \cup Users) = {}
    /\ Styles \cap Users = {}
    /\ None \notin Names \cup Ids /\ None \notin LayerRow /\ None \notin Layer
    /\ \A gs \in SUBSET Groups : gs # None
    /\ MaxEdits \in Nat
    /\ MaxFaults \in Nat

VARIABLES
    db,       \* the rows
    mem,      \* CATEGORIES, CATALOG, STYLES and AUTH
    task,     \* task[t]: the handler t runs, and what it has read so far
    \* history and bounds
    shown,    \* ids that have been in memory: a page or an answer may have shown them
    torn,     \* layers and users a statement failed for, since the last start
    missed,   \* references the deletion of their target had no chance to see
    outdated, \* layers saved with another name of their category than memory has
    lingering,\* groups left in memory, or put back there, when their row was deleted
    edits, faults

state == <<db, mem, task>>
history == <<shown, torn, missed, outdated, lingering>>
bounds == <<edits, faults>>
vars == <<state, history, bounds>>

-----------------------------------------------------------------------------
(***************************************************************************)
(* Rows, entries, and loading the ones from the others.                    *)
(***************************************************************************)

Rows ==
    [categories : [Categories -> Names \cup {None}],
     layers : [Layers -> LayerRow \cup {None}],
     styles : [Styles -> Categories \cup {None}],
     groups : SUBSET Groups,
     users : [Users -> (SUBSET Groups) \cup {None}]]

Entries ==
    [categories : [Categories -> Names \cup {None}],
     layers : [Layers -> Layer \cup {None}],
     styles : [Styles -> Categories \cup {None}],
     groups : SUBSET Groups,
     users : [Users -> (SUBSET Groups) \cup {None}]]

\* The LEFT JOIN has a category for every row: `row.get` does not panic.
StylesReadable ==
    \A s \in Styles : db.styles[s] # None => db.categories[db.styles[s]] # None
LayersReadable ==
    \A l \in Layers : db.layers[l] # None => db.categories[db.layers[l].category] # None

\* A get_layers without the joins.
BareLayer(l) == db.layers[l]

\* get_layers: the category by a join, and of the groups those that exist.
LoadLayer(l) ==
    IF db.layers[l] = None THEN None
    ELSE [category |-> db.layers[l].category,
          label |-> db.categories[db.layers[l].category],
          groups |-> db.layers[l].groups \cap db.groups,
          published |-> db.layers[l].published]

LoadUser(u) == IF db.users[u] = None THEN None ELSE db.users[u] \cap db.groups

Load ==
    [categories |-> db.categories,
     layers |-> [l \in Layers |-> LoadLayer(l)],
     styles |-> db.styles,
     groups |-> db.groups,
     users |-> [u \in Users |-> LoadUser(u)]]

Present(f) == {x \in DOMAIN f : f[x] # None}

\* Every id that memory shows.
Listed(m) ==
    Present(m.categories) \cup Present(m.layers) \cup Present(m.styles) \cup m.groups
        \cup Present(m.users)

-----------------------------------------------------------------------------
(***************************************************************************)
(* Handlers under way.                                                     *)
(***************************************************************************)

Idle == [op |-> "none"]

Ops == {"layer_form", "layer_api", "save_style", "delete_style", "new_category",
        "update_category", "delete_category", "new_group", "update_group", "delete_group"}
Stages == {"groups", "save", "row", "read", "swap", "memory", "check"}

\* What a handler works on: the entity, the category it names, that
\* category's name, groups, what it saw in the catalog, styles it has read.
Job ==
    [op : Ops, at : Stages, id : Categories \cup Groups \cup Layers \cup Styles,
     category : Categories \cup {None}, label : Names \cup {None},
     groups : SUBSET Groups, used : BOOLEAN, read : [Styles -> Categories \cup {None}]]

Begun(op, at, id) ==
    [op |-> op, at |-> at, id |-> id, category |-> None, label |-> None, groups |-> {},
     used |-> FALSE, read |-> [s \in Styles |-> None]]

At(t, op, at) == task[t].op = op /\ task[t].at = at

Start(t, job) ==
    /\ task[t] = Idle
    /\ edits < MaxEdits
    /\ task' = [task EXCEPT ![t] = job]
    /\ edits' = edits + 1

Continue(t, at) == task' = [task EXCEPT ![t].at = at]
End(t) == task' = [task EXCEPT ![t] = Idle]

\* A handler that is one step.
AtOnce ==
    /\ edits < MaxEdits
    /\ edits' = edits + 1
    /\ UNCHANGED task

\* A statement fails.
Fault == faults < MaxFaults /\ faults' = faults + 1

\* The uuid of a new entity was never seen before.
Fresh(x) ==
    /\ x \notin shown \cup Listed(db)
    /\ \A t \in Tasks : task[t] # Idle => task[t].id # x

\* update_category keeps its guards of CATEGORIES and CATALOG while it reloads
\* the styles.
CatalogFree ==
    \A t \in Tasks : task[t].op = "update_category" => task[t].at \notin {"read", "swap"}

\* The forms for a layer keep a read guard of AUTH from the groups to the end.
AuthFree == \A t \in Tasks : task[t].op = "layer_form" => task[t].at # "save"

\* A deletion of x has looked at the catalog already.
DeletionLooked(x) ==
    \E t \in Tasks :
        /\ task[t].op \in {"delete_category", "delete_group"}
        /\ task[t].id = x
        /\ task[t].at \in {"check", "row"}

Show == shown' = shown \cup Listed(mem')

\* The row of e is replaced: of its references, those to `late` were missed.
Refer(e, late) == missed' = {m \in missed : m[1] # e} \cup {<<e, x>> : x \in late}

\* References in the rows that memory does not show when the deletion looks there.
Hidden(x) ==
    {<<e, x>> : e \in
        {l \in Present(db.layers) :
            /\ x = db.layers[l].category \/ x \in db.layers[l].groups
            /\ mem.layers[l] = None \/ x \notin mem.layers[l].groups \cup {mem.layers[l].category}}
        \cup {s \in Present(db.styles) : db.styles[s] = x /\ mem.styles[s] # x}
        \cup {u \in Present(db.users) :
                x \in db.users[u] /\ (mem.users[u] = None \/ x \notin mem.users[u])}}

-----------------------------------------------------------------------------
(***************************************************************************)
(* Layers.                                                                 *)
(***************************************************************************)

\* Category::from_id, for a new layer or for one that a page has shown.
LookUpForLayer(t, op, l, c) ==
    /\ l \in shown \/ Fresh(l)
    /\ c \in shown
    /\ db.categories[c] # None
    /\ Start(t, [Begun(op, "groups", l) EXCEPT !.category = c, !.label = db.categories[c]])
    /\ UNCHANGED <<db, mem, history, faults>>

\* Names of groups that AUTH does not have are left out.
ResolveGroups(t, gs) ==
    /\ task[t].op \in {"layer_form", "layer_api"}
    /\ task[t].at = "groups"
    /\ gs \subseteq mem.groups
    /\ task' = [task EXCEPT ![t].groups = gs, ![t].at = "save"]
    /\ UNCHANGED <<db, mem, history, bounds>>

\* INSERT OR REPLACE for new layers and updates alike.
UpsertLayer(t, row) ==
    /\ db' = [db EXCEPT !.layers[task[t].id] = row]
    /\ Refer(task[t].id, {x \in row.groups \cup {row.category} :
                            x \notin Present(db.categories) \cup db.groups
                            \/ DeletionLooked(x)})

\* The row of the layer as t writes it: an update of a row that is gone does nothing.
LayerCommitted(t, row) ==
    LET l == task[t].id
        exists == l \notin shown \/ db.layers[l] # None
        refs == row.groups \cup {row.category}
    IN  /\ db' = IF exists THEN [db EXCEPT !.layers[l] = row] ELSE db
        /\ Refer(l, IF exists
                    THEN {x \in refs : x \notin Present(db.categories) \cup db.groups
                                        \/ DeletionLooked(x)}
                    ELSE {})

\* The API looks the layer up in the catalog before it updates it.
LayerNotFound(t) ==
    /\ At(t, "layer_api", "save")
    /\ CatalogFree
    /\ task[t].id \in shown
    /\ mem.layers[task[t].id] = None
    /\ End(t)
    /\ UNCHANGED <<db, mem, history, bounds>>

CanSaveLayer(t) ==
    /\ task[t].op \in {"layer_form", "layer_api"}
    /\ task[t].at = "save"
    /\ CatalogFree
    /\ (task[t].op = "layer_api" /\ task[t].id \in shown) => mem.layers[task[t].id] # None

\* Row and memory, under the write guard of the catalog.
SaveLayer(t, published) ==
    LET l == task[t].id
        c == task[t].category
        row == [category |-> c, groups |-> task[t].groups, published |-> published]
        entry == [category |-> c, label |-> task[t].label, groups |-> task[t].groups,
                  published |-> published]
    IN  /\ CanSaveLayer(t)
        /\ LayerCommitted(t, row)
        /\ mem' = IF l \notin shown \/ mem.layers[l] # None
                  THEN [mem EXCEPT !.layers[l] = entry] ELSE mem
        /\ torn' = IF db'.layers[l] = row THEN torn \ {l} ELSE torn
        /\ outdated' = IF mem.categories[c] = task[t].label THEN outdated \ {l}
                       ELSE outdated \cup {l}
        /\ Show
        /\ End(t)
        /\ UNCHANGED <<lingering, bounds>>

SaveLayerFails(t, published) ==
    LET row == [category |-> task[t].category, groups |-> task[t].groups,
                published |-> published]
    IN  /\ CanSaveLayer(t)
        /\ Fault
        /\ LayerCommitted(t, row)
        /\ torn' = torn \cup {task[t].id}
        /\ End(t)
        /\ UNCHANGED <<mem, shown, outdated, lingering, edits>>

DeleteLayer(l) ==
    /\ l \in shown
    /\ CatalogFree
    /\ AtOnce
    /\ db' = [db EXCEPT !.layers[l] = None]
    /\ mem' = [mem EXCEPT !.layers[l] = None]
    /\ torn' = torn \ {l}
    /\ Refer(l, {})
    /\ UNCHANGED <<shown, outdated, lingering, faults>>

\* Either list is switched from its own value.
Switched(f, l) == IF f[l] = None THEN f ELSE [f EXCEPT ![l].published = ~@]

SwitchPublished(l) ==
    /\ l \in shown
    /\ CatalogFree
    /\ db.layers[l] # None
    /\ AtOnce
    /\ db' = [db EXCEPT !.layers = Switched(@, l)]
    /\ mem' = [mem EXCEPT !.layers = Switched(@, l)]
    /\ UNCHANGED <<history, faults>>

\* The bump behind the row of a deletion or a switch fails.
EditLayerFails(l) ==
    /\ l \in shown
    /\ CatalogFree
    /\ db.layers[l] # None
    /\ AtOnce
    /\ Fault
    /\ \/ db' = [db EXCEPT !.layers[l] = None] /\ Refer(l, {})
       \/ db' = [db EXCEPT !.layers = Switched(@, l)] /\ UNCHANGED missed
    /\ torn' = torn \cup {l}
    /\ UNCHANGED <<mem, shown, outdated, lingering>>

-----------------------------------------------------------------------------
(***************************************************************************)
(* Styles: the row, then all of them are read back and swapped in.         *)
(***************************************************************************)

\* Style::from_id finds s; its join panics when the category is gone.
StyleFound(s) ==
    /\ s \in shown
    /\ db.styles[s] # None
    /\ db.categories[db.styles[s]] # None

\* Style::from_id, unless the style is new, and Category::from_id.
LookUpForStyle(t, s, c) ==
    /\ StyleFound(s) \/ Fresh(s)
    /\ c \in shown
    /\ db.categories[c] # None
    /\ Start(t, [Begun("save_style", "row", s) EXCEPT !.category = c])
    /\ UNCHANGED <<db, mem, history, faults>>

LookUpStyleToDelete(t, s) ==
    /\ StyleFound(s)
    /\ Start(t, Begun("delete_style", "row", s))
    /\ UNCHANGED <<db, mem, history, faults>>

\* The row; it is gone already when another handler has deleted the style.
StyleCommitted(t) ==
    LET s == task[t].id
        c == task[t].category
        exists == s \notin shown \/ db.styles[s] # None
    IN  /\ task[t].op \in {"save_style", "delete_style"}
        /\ task[t].at = "row"
        /\ db' = IF exists THEN [db EXCEPT !.styles[s] = c] ELSE db
        /\ Refer(s, IF exists /\ c # None /\ (db.categories[c] = None \/ DeletionLooked(c))
                    THEN {c} ELSE {})
        /\ UNCHANGED mem

WriteStyle(t) ==
    /\ StyleCommitted(t)
    /\ Continue(t, "read")
    /\ UNCHANGED <<shown, torn, outdated, lingering, bounds>>

WriteStyleFails(t) ==
    /\ StyleCommitted(t)
    /\ Fault
    /\ End(t)
    /\ UNCHANGED <<shown, torn, outdated, lingering, edits>>

\* The handlers that reload the styles.
Reloading(t) == task[t].op \in {"save_style", "delete_style", "update_category"}

\* reload_styles_cache, first half.
ReadStyles(t) ==
    /\ Reloading(t)
    /\ task[t].at = "read"
    /\ StylesReadable
    /\ task' = [task EXCEPT ![t].read = db.styles, ![t].at = "swap"]
    /\ UNCHANGED <<db, mem, history, bounds>>

\* The query fails, or panics on a style without category.
ReadStylesFails(t) ==
    /\ Reloading(t)
    /\ task[t].at = "read"
    /\ IF StylesReadable THEN Fault ELSE UNCHANGED faults
    /\ End(t)
    /\ UNCHANGED <<db, mem, history, edits>>

\* reload_styles_cache, second half.
SwapStyles(t) ==
    /\ Reloading(t)
    /\ task[t].at = "swap"
    /\ mem' = [mem EXCEPT !.styles = task[t].read]
    /\ Show
    /\ End(t)
    /\ UNCHANGED <<db, torn, missed, outdated, lingering, bounds>>

-----------------------------------------------------------------------------
(***************************************************************************)
(* Categories: the row first, the guards afterwards.                       *)
(***************************************************************************)

\* categories.name is UNIQUE.
NameFree(c, n) == \A d \in Categories \ {c} : db.categories[d] # n

NewCategory(t, c, n) ==
    /\ Fresh(c)
    /\ NameFree(c, n)
    /\ db' = [db EXCEPT !.categories[c] = n]
    /\ \/ /\ Start(t, [Begun("new_category", "memory", c) EXCEPT !.label = n])
          /\ UNCHANGED faults
       \/ AtOnce /\ Fault
    /\ UNCHANGED <<mem, history>>

PushCategory(t) ==
    /\ At(t, "new_category", "memory")
    /\ CatalogFree
    /\ mem' = [mem EXCEPT !.categories[task[t].id] = task[t].label]
    /\ Show
    /\ End(t)
    /\ UNCHANGED <<db, torn, missed, outdated, lingering, bounds>>

\* Category::from_id.
LookUpCategory(t, c, n) ==
    /\ c \in shown
    /\ db.categories[c] # None
    /\ Start(t, [Begun("update_category", "row", c) EXCEPT !.label = n])
    /\ UNCHANGED <<db, mem, history, faults>>

CategoryRenamed(t) ==
    LET c == task[t].id IN
    db' = IF db.categories[c] = None THEN db ELSE [db EXCEPT !.categories[c] = task[t].label]

WriteCategory(t) ==
    /\ At(t, "update_category", "row")
    /\ NameFree(task[t].id, task[t].label)
    /\ CategoryRenamed(t)
    /\ Continue(t, "memory")
    /\ UNCHANGED <<mem, history, bounds>>

\* The name is taken, or the bump behind the row fails.
WriteCategoryFails(t) ==
    /\ At(t, "update_category", "row")
    /\ IF NameFree(task[t].id, task[t].label) THEN CategoryRenamed(t) /\ Fault
       ELSE UNCHANGED <<db, faults>>
    /\ End(t)
    /\ UNCHANGED <<mem, history, edits>>

\* An update_category that leaves the catalog to the next reload.
RenamedAlone(c, n) == [mem EXCEPT !.categories[c] = n]

\* The category and its copy in each of its layers; one that is not in the list
\* is added.
Renamed(c, n) ==
    [mem EXCEPT !.categories[c] = n,
                !.layers = [l \in Layers |->
                    IF mem.layers[l] # None /\ mem.layers[l].category = c
                    THEN [mem.layers[l] EXCEPT !.label = n] ELSE mem.layers[l]]]

UpdateCategory(t) ==
    LET c == task[t].id IN
    /\ At(t, "update_category", "memory")
    /\ CatalogFree
    /\ mem' = Renamed(c, task[t].label)
    /\ outdated' = {l \in outdated : mem.layers[l] # None => mem.layers[l].category # c}
    /\ Continue(t, "read")
    /\ UNCHANGED <<db, shown, torn, missed, lingering, bounds>>

\* Category::from_id, and delete_category's copy of the layers.
CopyLayers(t, c) ==
    /\ c \in shown
    /\ db.categories[c] # None
    /\ CatalogFree
    /\ Start(t, [Begun("delete_category", "check", c) EXCEPT
                    !.used = \E l \in Present(mem.layers) : mem.layers[l].category = c])
    /\ UNCHANGED <<db, mem, history, faults>>

\* A count that leaves the styles out.
LayersOnly(t) == task[t].used

\* count_category_references on the copies of the layers and the styles.
CategoryInUse(t) == task[t].used \/ \E s \in Styles : mem.styles[s] = task[t].id

CheckCategory(t) ==
    /\ At(t, "delete_category", "check")
    /\ IF CategoryInUse(t) THEN End(t) /\ UNCHANGED missed
       ELSE Continue(t, "row") /\ missed' = missed \cup Hidden(task[t].id)
    /\ UNCHANGED <<db, mem, shown, torn, outdated, lingering, bounds>>

DeleteCategory(t) ==
    /\ At(t, "delete_category", "row")
    /\ db' = [db EXCEPT !.categories[task[t].id] = None]
    /\ \/ Continue(t, "memory") /\ UNCHANGED faults
       \/ End(t) /\ Fault
    /\ UNCHANGED <<mem, history, edits>>

RemoveCategory(t) ==
    /\ At(t, "delete_category", "memory")
    /\ CatalogFree
    /\ mem' = [mem EXCEPT !.categories[task[t].id] = None]
    /\ End(t)
    /\ UNCHANGED <<db, history, bounds>>

-----------------------------------------------------------------------------
(***************************************************************************)
(* Groups.  A new name changes nothing that is modelled here.              *)
(***************************************************************************)

NewGroup(t, g) ==
    /\ Fresh(g)
    /\ db' = [db EXCEPT !.groups = @ \cup {g}]
    /\ \/ Start(t, Begun("new_group", "memory", g)) /\ UNCHANGED faults
       \/ AtOnce /\ Fault
    /\ UNCHANGED <<mem, history>>

PushGroup(t) ==
    /\ At(t, "new_group", "memory")
    /\ AuthFree
    /\ mem' = [mem EXCEPT !.groups = @ \cup {task[t].id}]
    /\ Show
    /\ End(t)
    /\ UNCHANGED <<db, torn, missed, outdated, lingering, bounds>>

\* Group::from_id looks in memory.
FindGroup(t, g) ==
    /\ g \in mem.groups
    /\ Start(t, Begun("update_group", "memory", g))
    /\ UNCHANGED <<db, mem, history, faults>>

\* update_group's entry in memory; one that is not in the list is added.
UpdateGroup(t) ==
    LET g == task[t].id IN
    /\ At(t, "update_group", "memory")
    /\ AuthFree
    /\ mem' = [mem EXCEPT !.groups = @ \cup {g}]
    /\ lingering' = IF g \in db.groups THEN lingering ELSE lingering \cup {g}
    /\ End(t)
    /\ UNCHANGED <<db, shown, torn, missed, outdated, bounds>>

\* Group::from_id, and delete_group's copy of the layers.
CopyLayersForGroup(t, g) ==
    /\ g \in mem.groups
    /\ CatalogFree
    /\ Start(t, [Begun("delete_group", "row", g) EXCEPT
                    !.used = \E l \in Present(mem.layers) : g \in mem.layers[l].groups])
    /\ UNCHANGED <<db, mem, history, faults>>

\* count_group_references: the copied layers, and the users of AUTH.
GroupInUse(t) == task[t].used \/ \E u \in Present(mem.users) : task[t].id \in mem.users[u]

\* The rest of delete_group, under the write guard of AUTH.
DeleteGroup(t) ==
    LET g == task[t].id IN
    /\ At(t, "delete_group", "row")
    /\ AuthFree
    /\ End(t)
    /\ IF GroupInUse(t) THEN UNCHANGED <<db, mem, missed, lingering, faults>>
       ELSE /\ db' = [db EXCEPT !.groups = @ \ {g}]
            /\ missed' = missed \cup Hidden(g)
            /\ \/ /\ mem' = [mem EXCEPT !.groups = @ \ {g}]
                  /\ UNCHANGED <<lingering, faults>>
               \/ /\ Fault
                  /\ lingering' = lingering \cup {g}
                  /\ UNCHANGED mem
    /\ UNCHANGED <<shown, torn, outdated, edits>>

-----------------------------------------------------------------------------
(***************************************************************************)
(* Users: each edit is made under the write guard of AUTH.                 *)
(***************************************************************************)

\* References to a group that memory still lists.
Lingering(gs) == (gs \cap lingering) \ db.groups

CreateUser(u, gs) ==
    /\ Fresh(u)
    /\ gs \subseteq mem.groups
    /\ AuthFree
    /\ AtOnce
    /\ db' = [db EXCEPT !.users[u] = gs]
    /\ mem' = [mem EXCEPT !.users[u] = gs]
    /\ Refer(u, Lingering(gs))
    /\ Show
    /\ UNCHANGED <<torn, outdated, lingering, faults>>

\* The form refreshes memory last, the API (Auth::create_user) first; the row
\* fails, or its bump does.
CreateUserFails(u, gs, api, committed) ==
    /\ Fresh(u)
    /\ api \/ committed
    /\ gs \subseteq mem.groups
    /\ AuthFree
    /\ AtOnce
    /\ Fault
    /\ db' = IF committed THEN [db EXCEPT !.users[u] = gs] ELSE db
    /\ mem' = IF api THEN [mem EXCEPT !.users[u] = gs] ELSE mem
    /\ Refer(u, IF committed THEN Lingering(gs) ELSE {})
    /\ torn' = IF api /\ committed THEN torn ELSE torn \cup {u}
    /\ Show
    /\ UNCHANGED <<outdated, lingering>>

\* The groups are resolved in AUTH, or the API keeps those the user has there.
UserGroups(u, gs) ==
    gs \subseteq mem.groups \/ (mem.users[u] # None /\ gs = mem.users[u])

\* An update of a row or an entry that is gone does nothing.
Replace(f, u, gs) == IF f[u] = None THEN f ELSE [f EXCEPT ![u] = gs]

UserCommitted(u, gs) ==
    /\ u \in shown
    /\ UserGroups(u, gs)
    /\ AuthFree
    /\ AtOnce
    /\ db' = [db EXCEPT !.users = Replace(@, u, gs)]
    /\ Refer(u, IF db.users[u] = None THEN {} ELSE Lingering(gs))

UpdateUser(u, gs) ==
    /\ UserCommitted(u, gs)
    /\ mem' = [mem EXCEPT !.users = Replace(@, u, gs)]
    /\ torn' = IF db.users[u] = None THEN torn ELSE torn \ {u}
    /\ UNCHANGED <<shown, outdated, lingering, faults>>

UpdateUserFails(u, gs) ==
    /\ UserCommitted(u, gs)
    /\ Fault
    /\ torn' = torn \cup {u}
    /\ UNCHANGED <<mem, shown, outdated, lingering>>

DeleteUser(u) ==
    /\ u \in shown
    /\ AuthFree
    /\ AtOnce
    /\ db' = [db EXCEPT !.users[u] = None]
    /\ Refer(u, {})
    /\ \/ /\ mem' = [mem EXCEPT !.users[u] = None]
          /\ torn' = torn \ {u}
          /\ UNCHANGED faults
       \/ Fault /\ torn' = torn \cup {u} /\ UNCHANGED mem
    /\ UNCHANGED <<shown, outdated, lingering>>

-----------------------------------------------------------------------------
\* init_sqlite: when nobody is called admin, a user of the group the migrations
\* insert, which may be gone.
AddAdministrator ==
    \E u \in Users :
        /\ Fresh(u)
        /\ db' = [db EXCEPT !.users[u] = {FirstGroup}]
        /\ Refer(u, {FirstGroup} \ db.groups)

\* The process dies and starts again; it does not come up on rows it cannot read.
Restart ==
    /\ Fault
    /\ LayersReadable
    /\ StylesReadable
    /\ \/ AddAdministrator
       \/ Present(db.users) # {} /\ UNCHANGED <<db, missed>>
    /\ mem' = Load'
    /\ task' = [t \in Tasks |-> Idle]
    /\ torn' = {}
    /\ outdated' = {}
    /\ Show
    /\ UNCHANGED <<lingering, edits>>

FirstName == CHOOSE n \in Names : TRUE

NothingBut(S, x, v) == [y \in S |-> IF y = x THEN v ELSE None]

\* A new database: a category and a group from the migrations, an administrator.
Init ==
    /\ db = [categories |-> NothingBut(Categories, FirstCategory, FirstName),
             layers |-> [l \in Layers |-> None],
             styles |-> [s \in Styles |-> None],
             groups |-> {FirstGroup},
             users |-> NothingBut(Users, FirstUser, {FirstGroup})]
    /\ mem = db
    /\ task = [t \in Tasks |-> Idle]
    /\ shown = {FirstCategory, FirstGroup, FirstUser}
    /\ torn = {}
    /\ missed = {}
    /\ outdated = {}
    /\ lingering = {}
    /\ edits = 0
    /\ faults = 0

LayerStep(t) ==
    \/ \E l \in Layers, c \in Categories :
        LookUpForLayer(t, "layer_form", l, c) \/ LookUpForLayer(t, "layer_api", l, c)
    \/ \E gs \in SUBSET Groups : ResolveGroups(t, gs)
    \/ LayerNotFound(t)
    \/ \E published \in BOOLEAN : SaveLayer(t, published) \/ SaveLayerFails(t, published)

StyleStep(t) ==
    \/ \E s \in Styles : LookUpStyleToDelete(t, s) \/ \E c \in Categories : LookUpForStyle(t, s, c)
    \/ WriteStyle(t) \/ WriteStyleFails(t)
    \/ ReadStyles(t) \/ ReadStylesFails(t) \/ SwapStyles(t)

CategoryStep(t) ==
    \/ \E c \in Categories, n \in Names : NewCategory(t, c, n) \/ LookUpCategory(t, c, n)
    \/ PushCategory(t)
    \/ WriteCategory(t) \/ WriteCategoryFails(t) \/ UpdateCategory(t)
    \/ \E c \in Categories : CopyLayers(t, c)
    \/ CheckCategory(t) \/ DeleteCategory(t) \/ RemoveCategory(t)

GroupStep(t) ==
    \/ \E g \in Groups : NewGroup(t, g) \/ FindGroup(t, g) \/ CopyLayersForGroup(t, g)
    \/ PushGroup(t) \/ UpdateGroup(t) \/ DeleteGroup(t)

UserStep ==
    \E u \in Users :
        \/ DeleteUser(u)
        \/ \E gs \in SUBSET Groups :
            \/ CreateUser(u, gs) \/ UpdateUser(u, gs) \/ UpdateUserFails(u, gs)
            \/ \E api, committed \in BOOLEAN : CreateUserFails(u, gs, api, committed)

Next ==
    \/ \E t \in Tasks : LayerStep(t) \/ StyleStep(t) \/ CategoryStep(t) \/ GroupStep(t)
    \/ \E l \in Layers : DeleteLayer(l) \/ SwitchPublished(l) \/ EditLayerFails(l)
    \/ UserStep
    \/ Restart

Spec == Init /\ [][Next]_vars

-----------------------------------------------------------------------------
(***************************************************************************)
(* Properties.                                                             *)
(***************************************************************************)

\* Rows and entries have the shape of their tables and structs.
TypeOK ==
    /\ db \in Rows
    /\ mem \in Entries
    /\ task \in [Tasks -> {Idle} \cup Job]
    /\ shown \subseteq Ids
    /\ torn \subseteq Layers \cup Users
    /\ missed \subseteq (Layers \cup Styles \cup Users) \X (Categories \cup Groups)
    /\ outdated \subseteq Layers
    /\ lingering \subseteq Groups
    /\ edits \in 0..MaxEdits
    /\ faults \in 0..MaxFaults

\* What the row of e refers to.
References(e) ==
    IF e \in Layers THEN
        IF db.layers[e] = None THEN {} ELSE db.layers[e].groups \cup {db.layers[e].category}
    ELSE IF e \in Styles THEN {db.styles[e]} \ {None}
    ELSE IF db.users[e] = None THEN {} ELSE db.users[e]

\* A category or group that is deleted leaves no row behind that refers to it, but
\* for the references the deletion could not have seen: rows whose entry in memory
\* lags behind (a bump or a reload failed, an older reload came last), rows a
\* handler commits behind the check, users given a group that
\* memory lists though its row is gone
\* (count_category_references, count_group_references).
ReferencesResolve ==
    \A e \in Layers \cup Styles \cup Users : \A x \in References(e) :
        x \in Present(db.categories) \cup db.groups \/ <<e, x>> \in missed

\* Layers and users in memory are those a restart would load: only a failing
\* statement sets a list and its table apart, and only for the entity it failed
\* for, however the handlers overlap (Catalog and Auth methods on a write guard).
LockedListsMirrorRows ==
    /\ \A l \in Layers \ torn :
        IF db.layers[l] = None THEN mem.layers[l] = None
        ELSE /\ mem.layers[l] # None
             /\ mem.layers[l].category = db.layers[l].category
             /\ mem.layers[l].published = db.layers[l].published
             /\ mem.layers[l].groups \cap db.groups = db.layers[l].groups \cap db.groups
    /\ \A u \in Users \ torn :
        IF db.users[u] = None THEN mem.users[u] = None
        ELSE mem.users[u] # None /\ mem.users[u] \cap db.groups = db.users[u] \cap db.groups

\* A layer is found under the name the list of categories shows for its category,
\* through renames, deletions and updates that overlap; the exception is a layer
\* saved with a name that was looked up before a rename, or that never got to the
\* list (Category::update_category).
LayersFollowRenames ==
    \A l \in Present(mem.layers) \ outdated :
        mem.categories[mem.layers[l].category] \in {mem.layers[l].label, None}

\* The store can be read back: "DELETE endpoints for Group/Category must block
\* deletion when the entity is still referenced"
\* (docs/superpowers/specs/2026-07-28-admin-api-completion-phase2-design.md:57-58).
StoreIsReadable == LayersReadable /\ StylesReadable

=============================================================================
