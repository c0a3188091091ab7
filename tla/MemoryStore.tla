---------------------------- MODULE MemoryStore ----------------------------
(***************************************************************************)
(* What tasks do to one database through one connection: the rows of a     *)
(* SQLiteAdapter, the vectors and the embedding pin a VectorAdapter adds,  *)
(* the edges of an EdgeStore (arcana/memory/adapters/sqlite.py, vector.py, *)
(* _sql.py, arcana/memory/edges.py).  Statements run one after the other   *)
(* in the driver's thread; tasks take turns between them, and share the    *)
(* one transaction the connection has.                                     *)
(***************************************************************************)
EXTENDS Naturals, Sequences

CONSTANTS
    Tasks,       \* tasks that share the adapters
    Ids,         \* memory ids
    Contents,    \* what an entry may say
    Embedders,   \* families of embedding models, each of a dimension of its own
    Ops,         \* the operations the tasks perform
    Faults,      \* what may happen: "crash", "cancel", "error", no embedder ("down")
    None         \* no row, no vector, no embedder

VARIABLES
    db,       \* what is committed
    view,     \* what the connection sees
    intx,     \* it is in a transaction
    vec,      \* the vector extension: _vec_attempted and _vec_ok
    owed,     \* owed[i]: of entry i, a write was executed, then acknowledged
    task      \* task[t]: the operation of t

vars == <<db, view, intx, vec, owed, task>>

\* rows, vectors by the content they were computed from, the dimension of the index,
\* pinned models, the edges of one source with the pass that wrote each.
Rows == [text : Contents, pinned : BOOLEAN, archived : BOOLEAN]
Empty == [rows |-> [i \in Ids |-> None], vecs |-> [i \in Ids |-> None], index |-> None,
          pins |-> <<>>, edges |-> {}]

\* What the constants are.
ConstantsFit ==
    /\ Tasks # {} /\ Embedders # {} /\ None \notin Embedders
    /\ None \notin Contents /\ None \notin Rows

Idle == [at |-> "idle", op |-> "none", id |-> None, row |-> None, model |-> None, ids |-> {}]

Init ==
    /\ db = Empty /\ view = Empty /\ intx = FALSE
    /\ vec = "untried"
    /\ owed = [i \in Ids |-> "no"]
    /\ task = [t \in Tasks |-> Idle]

-----------------------------------------------------------------------------
(* Bugs this code could have.  Each takes the place of a definition below to
   see that a property notices; the model uses none of them. *)

\* A purge leaves the vectors to a trigger that vec0 does not have.
KeepsVectors(v, ids) == v

\* Archiving drops the vectors, which a restored entry then lacks.
LosesVectors(v, ids) == [v EXCEPT !.vecs = [i \in Ids |-> IF i \in ids THEN None ELSE @[i]]]

\* Pinned rows are spared by the importance floor only.
AnyRow(v) == {i \in Ids : v.rows[i] # None}

\* The pin is written with every embedded write.
PinsAgain(t) == TRUE

\* The replaced edges are removed in a transaction of their own.
Separately(t) ==
    view' = [view EXCEPT !.edges = {}] /\ db' = view' /\ intx' = FALSE /\ UNCHANGED vec

\* The row is committed with the next thing that commits.
NoCommit(t) == UNCHANGED <<db, view, intx, vec>>

\* The vector of an entry that has one is kept.
KeepsOld(t) == view

\* A statement outside a transaction begins none.
BeginsNone(v) == view' = v /\ UNCHANGED <<db, intx, vec>>

-----------------------------------------------------------------------------
At(t, where) == task[t].at = where
Goes(t, where) == task' = [task EXCEPT ![t].at = where]
Ends(t) == task' = [task EXCEPT ![t] = Idle]

\* A statement that changes rows begins a transaction if there is none.
Executes(v) == view' = v /\ intx' = TRUE /\ UNCHANGED <<db, vec>>
Commits == db' = view /\ intx' = FALSE /\ UNCHANGED <<view, vec>>
RollsBack == view' = db /\ intx' = FALSE /\ UNCHANGED db

Removed(v, ids) ==
    [v EXCEPT !.rows = [i \in Ids |-> IF i \in ids THEN None ELSE @[i]]]
Unindexed(v, ids) == [v EXCEPT !.vecs = [i \in Ids |-> IF i \in ids THEN None ELSE @[i]]]
Archived(v, ids) ==
    [v EXCEPT !.rows = [i \in Ids |-> IF i \in ids /\ @[i] # None THEN [@[i] EXCEPT !.archived = TRUE] ELSE @[i]]]

Forgets(ids) == owed' = [i \in Ids |-> IF i \in ids THEN "no" ELSE owed[i]]

-----------------------------------------------------------------------------
(* VectorAdapter.connect, which every operation calls first *)

Connect(t) ==
    /\ At(t, "idle") /\ vec = "untried"
    /\ vec' = "loading"
    /\ task' = [task EXCEPT ![t] = [Idle EXCEPT !.at = "load", !.op = "connect"]]
    /\ UNCHANGED <<db, view, intx, owed>>

Load(t) ==
    /\ At(t, "load")
    /\ vec' = "ok"
    /\ Ends(t)
    /\ UNCHANGED <<db, view, intx, owed>>

-----------------------------------------------------------------------------
(* write: VectorAdapter.write around SQLiteAdapter.write *)

StartWrite(t) ==
    /\ At(t, "idle") /\ "write" \in Ops
    /\ vec # "untried"
    /\ \E i \in Ids, c \in Contents, pinned \in BOOLEAN :
         task' = [task EXCEPT ![t] = [Idle EXCEPT !.at = "pins", !.op = "write", !.id = i,
                                        !.row = [text |-> c, pinned |-> pinned, archived |-> FALSE]]]
    /\ UNCHANGED <<db, view, intx, vec, owed>>

\* resolve: a healthy embedder, of the pinned model if there is a pin; or none.
Resolved(pins) ==
    IF vec # "ok" THEN {None}
    ELSE {e \in Embedders : pins = <<>> \/ e = pins[1]} \cup (IF "down" \in Faults THEN {None} ELSE {})
First(t) == view.pins = <<>>
Resolve(t) ==
    /\ At(t, "pins")
    /\ \E e \in Resolved(view.pins) :
         task' = [task EXCEPT ![t].model = e, ![t].at = IF e # None /\ First(t) THEN "index" ELSE "write"]
    /\ UNCHANGED <<db, view, intx, vec, owed>>

Made(v, e) == IF v.index = None THEN [v EXCEPT !.index = e] ELSE v

\* CREATE VIRTUAL TABLE IF NOT EXISTS, outside a transaction unless one is open.
CreateIndex(t) ==
    /\ At(t, "index")
    /\ view' = Made(view, task[t].model)
    /\ db' = IF intx THEN db ELSE Made(db, task[t].model)
    /\ Goes(t, "pin")
    /\ UNCHANGED <<intx, vec, owed>>

\* _pin_meta; the table has no key.
Pin(t) ==
    /\ At(t, "pin")
    /\ Executes([view EXCEPT !.pins = Append(@, task[t].model)])
    /\ Goes(t, "write")
    /\ UNCHANGED owed

Upsert(t) ==
    /\ At(t, "write")
    /\ Executes([view EXCEPT !.rows[task[t].id] = task[t].row])
    /\ owed' = [owed EXCEPT ![task[t].id] = IF @ = "no" THEN "written" ELSE @]
    /\ Goes(t, "commit row")

CommitsRow(t) == Commits
CommitRow(t) ==
    /\ At(t, "commit row")
    /\ CommitsRow(t)
    /\ IF task[t].model = None
       THEN Ends(t) /\ owed' = [owed EXCEPT ![task[t].id] = IF @ = "written" THEN "acknowledged" ELSE @]
       ELSE Goes(t, "unindex") /\ UNCHANGED owed

WithoutOld(t) == Unindexed(view, {task[t].id})
Unindex(t) ==
    /\ At(t, "unindex")
    /\ Executes(WithoutOld(t))
    /\ Goes(t, "insert")
    /\ UNCHANGED owed

\* A vector of another dimension, or of an id that has one, is refused.
Fits(t) == view.index = task[t].model /\ view.vecs[task[t].id] = None
Insert(t) ==
    /\ At(t, "insert")
    /\ IF Fits(t)
       THEN Executes([view EXCEPT !.vecs[task[t].id] = task[t].row.text]) /\ Goes(t, "commit vector")
       ELSE Ends(t) /\ UNCHANGED <<db, view, intx, vec>>
    /\ UNCHANGED owed

CommitVector(t) ==
    /\ At(t, "commit vector")
    /\ Commits
    /\ owed' = [owed EXCEPT ![task[t].id] = IF @ = "written" THEN "acknowledged" ELSE @]
    /\ Ends(t)

-----------------------------------------------------------------------------
(* delete and prune *)

StartDelete(t) ==
    /\ At(t, "idle") /\ "delete" \in Ops /\ vec # "untried"
    /\ \E i \in Ids, hard \in BOOLEAN :
         task' = [task EXCEPT ![t] = [Idle EXCEPT !.at = IF hard THEN "delete" ELSE "archive",
                                                    !.op = "delete", !.ids = {i}]]
    /\ UNCHANGED <<db, view, intx, vec, owed>>

\* Rows a prune may choose: not pinned; a purge may take archived ones too.
Prunable(v) == {i \in Ids : v.rows[i] # None /\ ~v.rows[i].pinned}

\* The counting and the choice by importance, over the floor or the cap.
StartPrune(t) ==
    /\ At(t, "idle") /\ "prune" \in Ops
    /\ \E ids \in SUBSET Prunable(view) \ {{}}, purge \in BOOLEAN :
         /\ purge \/ \A i \in ids : ~view.rows[i].archived
         /\ task' = [task EXCEPT ![t] = [Idle EXCEPT !.at = IF purge THEN "delete" ELSE "archive",
                                                       !.op = "prune", !.ids = ids]]
    /\ UNCHANGED <<db, view, intx, vec, owed>>

Archive(t) ==
    /\ At(t, "archive")
    /\ Executes(Archived(view, task[t].ids))
    /\ Goes(t, "commit")
    /\ UNCHANGED owed

\* Vectors go if there is an index; delete looks first whether there was a row.
Delete(t) ==
    /\ At(t, "delete")
    /\ Executes(Removed(view, task[t].ids))
    /\ Forgets(task[t].ids)
    /\ Goes(t, IF view.index # None /\ (task[t].op = "prune" \/ \E i \in task[t].ids : view.rows[i] # None)
               THEN "vectors" ELSE "commit")

DeletedVectors(v, ids) == Unindexed(v, ids)
DeleteVectors(t) ==
    /\ At(t, "vectors")
    /\ Executes(DeletedVectors(view, task[t].ids))
    /\ Goes(t, "commit")
    /\ UNCHANGED owed

Commit(t) ==
    /\ At(t, "commit")
    /\ Commits
    /\ Ends(t)
    /\ UNCHANGED owed

-----------------------------------------------------------------------------
(* search bumps the access count of what it read: an update and a commit *)

Search(t) ==
    /\ At(t, "idle") /\ "search" \in Ops /\ vec # "untried"
    /\ task' = [task EXCEPT ![t] = [Idle EXCEPT !.at = "touch", !.op = "search"]]
    /\ UNCHANGED <<db, view, intx, vec, owed>>

Touch(t) ==
    /\ At(t, "touch")
    /\ Executes(view)
    /\ Goes(t, "commit")
    /\ UNCHANGED owed

-----------------------------------------------------------------------------
(* EdgeStore.replace_source *)

\* Two edges, which the replacement may keep or drop.
Edges == {"old", "new"}

StartReplace(t) ==
    /\ At(t, "idle") /\ "edges" \in Ops
    /\ \E set \in SUBSET Edges :
         task' = [task EXCEPT ![t] = [Idle EXCEPT !.at = "begin", !.op = "edges", !.ids = set]]
    /\ UNCHANGED <<db, view, intx, vec, owed>>

\* BEGIN fails inside a transaction; the handler rolls that one back.
Begin(t) ==
    /\ At(t, "begin")
    /\ IF intx THEN RollsBack /\ Ends(t)
       ELSE intx' = TRUE /\ Goes(t, "clear") /\ UNCHANGED <<db, view>>
    /\ UNCHANGED <<vec, owed>>

Cleared(t) == Executes([view EXCEPT !.edges = {}])
Clear(t) ==
    /\ At(t, "clear")
    /\ Cleared(t)
    /\ Goes(t, "insert edges")
    /\ UNCHANGED owed

InsertEdges(t) ==
    /\ At(t, "insert edges")
    /\ Executes([view EXCEPT !.edges = task[t].ids])
    /\ Goes(t, "commit")
    /\ UNCHANGED owed

-----------------------------------------------------------------------------
\* A statement fails: only replace_source rolls back; a failed load is not tried again.
Fail(t) ==
    /\ "error" \in Faults /\ ~At(t, "idle")
    /\ IF task[t].op = "edges" THEN RollsBack ELSE UNCHANGED <<db, view, intx>>
    /\ Ends(t)
    /\ UNCHANGED <<vec, owed>>

\* A budget ends the operation where it waits, before or after a statement.
Cancel(t) ==
    /\ "cancel" \in Faults /\ ~At(t, "idle")
    /\ Ends(t)
    /\ UNCHANGED <<db, view, intx, vec, owed>>

Crash ==
    /\ "crash" \in Faults
    /\ RollsBack
    /\ vec' = "untried"
    /\ task' = [t \in Tasks |-> Idle]
    /\ UNCHANGED owed

Next ==
    \/ \E t \in Tasks : Connect(t) \/ Load(t)
    \/ \E t \in Tasks : StartWrite(t) \/ Resolve(t) \/ CreateIndex(t) \/ Pin(t) \/ Upsert(t)
    \/ \E t \in Tasks : CommitRow(t) \/ Unindex(t) \/ Insert(t) \/ CommitVector(t)
    \/ \E t \in Tasks : StartDelete(t) \/ StartPrune(t) \/ Archive(t) \/ Delete(t) \/ DeleteVectors(t) \/ Commit(t)
    \/ \E t \in Tasks : Search(t) \/ Touch(t)
    \/ \E t \in Tasks : StartReplace(t) \/ Begin(t) \/ Clear(t) \/ InsertEdges(t)
    \/ \E t \in Tasks : Fail(t) \/ Cancel(t)
    \/ Crash

Spec == Init /\ [][Next]_vars

-----------------------------------------------------------------------------
(* Properties *)

Quiet == \A t \in Tasks : At(t, "idle")

\* Every variable keeps its values; what is committed differs from what is seen only
\* inside a transaction.
TypeOK ==
    /\ \A v \in {db, view} :
         /\ v.rows \in [Ids -> Rows \cup {None}]
         /\ v.vecs \in [Ids -> Contents \cup {None}]
         /\ v.index \in Embedders \cup {None}
         /\ v.pins \in Seq(Embedders) /\ v.edges \subseteq Edges
    /\ ~intx => db = view
    /\ vec \in {"untried", "loading", "ok"}
    /\ owed \in [Ids -> {"no", "written", "acknowledged"}]

\* When nothing runs, the vector of an entry was computed from what its row says: an
\* update replaces it (VEC_DELETE before VEC_INSERT).
VectorsMatchRows ==
    Quiet => \A i \in Ids : db.rows[i] # None /\ db.vecs[i] # None => db.vecs[i] = db.rows[i].text

\* With the extension and an embedder at hand, an entry whose write returned has a vector.
RowsHaveVectors ==
    Quiet => \A i \in Ids : owed[i] = "acknowledged" => db.vecs[i] # None

\* No vector outlives its row (delete, prune).
VectorsHaveRows == \A i \in Ids : db.vecs[i] # None => db.rows[i] # None

\* An entry whose write returned is committed until somebody deletes it (write).
WrittenStays == \A i \in Ids : owed[i] = "acknowledged" => db.rows[i] # None

\* A prune changes no row that is pinned; one the process dies in leaves what is
\* committed (prune).
PinnedStays ==
    \A t \in Tasks : task[t].op = "prune" /\ task'[t] # task[t] /\ view' # db =>
        \A i \in Ids : view.rows[i] # None /\ view.rows[i].pinned => view'.rows[i] = view.rows[i]

\* The database is pinned to one model (embedding_meta).
OnePin == Len(db.pins) <= 1

\* The index has the dimension of the pinned model: else no vector can be written
\* (vec_table_ddl, _pin_meta).
PinFitsIndex == db.pins # <<>> => db.index = db.pins[1]

\* The edges of a source are replaced as a whole (replace_source).
EdgesWhole ==
    db'.edges # db.edges =>
        \E t \in Tasks : task[t].op = "edges" /\ db'.edges = task[t].ids

OneAtATime == \A t, u \in Tasks : t = u

\* What one operation after the other keeps: an acknowledged write stays, the database has
\* one pin, whatever fails or is cut off; unless a statement fails or is cut off, no vector
\* outlives its row; and unless anything fails, each entry has the vector of its row
\* (VectorAdapter and SQLiteAdapter: write, delete, prune).
RowsAndVectors ==
    /\ TypeOK
    /\ OneAtATime => WrittenStays /\ OnePin
    /\ OneAtATime /\ Faults \subseteq {"crash", "down"} => VectorsHaveRows
    /\ OneAtATime /\ Faults = {} => VectorsMatchRows /\ RowsHaveVectors

\* One operation after the other prunes no pinned row, and replaces the edges of a source
\* as a whole unless one is cut off.
StepSpoilsNothing == OneAtATime => PinnedStays /\ ("cancel" \notin Faults => EdgesWhole)

=============================================================================
