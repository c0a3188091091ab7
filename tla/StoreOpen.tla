----------------------------- MODULE StoreOpen -----------------------------
(***************************************************************************)
(* The connections of SQLiteAdapters on one database file                  *)
(* (arcana/memory/adapters/sqlite.py, arcana/memory/migrations/runner.py): *)
(* opened by the first operation that needs one, checked, migrated,        *)
(* dropped when the file turns out to be damaged, closed.                  *)
(***************************************************************************)
EXTENDS Naturals

CONSTANTS
    Tasks,       \* tasks that use the file
    Adapters,    \* one set of tasks for each adapter on it
    Handles,     \* names for connections (a name is used again when nothing refers to it)
    None,        \* no connection
    NewFile,     \* the file may be without a schema at the start
    Faults       \* what may happen: "damage" to the file, "cancel" of a task

VARIABLES
    file,      \* schema version, damage, the connection that holds the write lock
    quick,     \* quick[a]: _quick_check_on_open
    conn,      \* conn[a]: _conn
    corrupt,   \* corrupt[a]: _corrupt is set
    open,      \* open[a]: the connections adapter a opened and did not close
    task,      \* task[t]: the operation of t and the connection it works with
    spurious   \* an operation failed on a file with no damage

vars == <<file, quick, conn, corrupt, open, task, spurious>>

\* What the constants are: every task works through one adapter.
ConstantsFit ==
    /\ \A t \in Tasks : \E a \in Adapters : t \in a
    /\ \A a, b \in Adapters : a \subseteq Tasks /\ a # {} /\ (a # b => a \cap b = {})
    /\ NewFile \in BOOLEAN /\ None \notin Handles

On(t) == CHOOSE a \in Adapters : t \in a
Idle == [at |-> "idle", op |-> "use", c |-> None, seen |-> 0]
Latest == 1

Init ==
    /\ file \in [version : IF NewFile THEN {0} ELSE {Latest}, damaged : {FALSE}, lock : {None}]
    /\ quick \in [Adapters -> BOOLEAN]
    /\ conn = [a \in Adapters |-> None]
    /\ corrupt = [a \in Adapters |-> FALSE]
    /\ open = [a \in Adapters |-> {}]
    /\ task = [t \in Tasks |-> Idle]
    /\ spurious = FALSE

-----------------------------------------------------------------------------
(* Bugs this code could have.  Each takes the place of a definition below to
   see that a property notices; the model uses none of them. *)

\* A connection that fails its checks is left to the garbage collector.
LeftOpen(c) == UNCHANGED open

\* Any error of the driver is taken for corruption.
AnyError(t) == [corrupt EXCEPT ![On(t)] = TRUE]

\* The write lock outlives the process.
KeepsLock(a) == file

\* Corruption is remembered but the connection is kept.
StillConnected(t) == UNCHANGED <<conn, open>>

\* The version is not looked at.
Reapplies(t) == 0

-----------------------------------------------------------------------------
At(t, where) == task[t].at = where
Goes(t, where) == task' = [task EXCEPT ![t].at = where]
Opened == UNION {open[a] : a \in Adapters}
Unused == {h \in Handles \ Opened : (\A t \in Tasks : task[t].c # h) /\ \A a \in Adapters : conn[a] # h}

\* The operation is over; an error counts as spurious if the file is sound.
Ends(t) == task' = [task EXCEPT ![t] = Idle]
Returns(t) == Ends(t) /\ UNCHANGED spurious
Raises(t) == Ends(t) /\ spurious' = (spurious \/ ~file.damaged)

Closes(c) == open' = [a \in Adapters |-> open[a] \ {c}]

-----------------------------------------------------------------------------
(* connect *)

\* _ensure, and the first lines of connect.
Start(t, op) ==
    /\ At(t, "idle")
    /\ op \in {"use", "health"}
    /\ IF conn[On(t)] # None
       THEN task' = [task EXCEPT ![t] = [Idle EXCEPT !.at = "using", !.op = op, !.c = conn[On(t)]]]
       ELSE /\ ~corrupt[On(t)]
            /\ task' = [task EXCEPT ![t] = [Idle EXCEPT !.at = "opening", !.op = op]]
    /\ UNCHANGED <<file, quick, conn, corrupt, open, spurious>>

Open(t) ==
    /\ At(t, "opening")
    /\ \E h \in Unused :
         /\ open' = [open EXCEPT ![On(t)] = @ \cup {h}]
         /\ task' = [task EXCEPT ![t].at = "checking", ![t].c = h]
    /\ UNCHANGED <<file, quick, conn, corrupt, spurious>>

\* The handler of an error on the way closes the connection it was opening.
Abandons(c) == Closes(c)

\* _run_quick_check and _translate_sqlite_error set _corrupt.
Latched(t) == [corrupt EXCEPT ![On(t)] = TRUE]

\* Pragmas, FTS5 and quick_check; damage they come across is an error.  Then the
\* schema version is read.
Version(t) == file.version
Check(t) ==
    /\ At(t, "checking")
    /\ \/ /\ file.damaged
          /\ Abandons(task[t].c) /\ corrupt' = Latched(t) /\ Raises(t)
       \/ /\ ~(file.damaged /\ quick[On(t)])
          /\ task' = [task EXCEPT ![t].at = "versioned", ![t].seen = Version(t)]
          /\ UNCHANGED <<open, corrupt, spurious>>
    /\ UNCHANGED <<file, quick, conn>>

\* _translate_sqlite_error of an error that is no damage.
Contended(t) == corrupt

\* A migration begins by taking the write lock, and waits no longer than busy_timeout;
\* a table that is there by now cannot be created.
Migrate(t) ==
    /\ At(t, "versioned") /\ task[t].seen < Latest
    /\ \/ /\ file.lock = None /\ file.version < Latest
          /\ file' = [file EXCEPT !.lock = task[t].c]
          /\ Goes(t, "migrating") /\ UNCHANGED <<open, corrupt, spurious>>
       \/ /\ file.version = Latest \/ (file.lock # None /\ \A u \in Tasks : task[u].c # file.lock)
          /\ Abandons(task[t].c) /\ corrupt' = Contended(t) /\ Raises(t) /\ UNCHANGED file
    /\ UNCHANGED <<quick, conn>>

\* The connection becomes the adapter's, and the operation goes on with it.
Connected(t) ==
    /\ conn' = [conn EXCEPT ![On(t)] = task[t].c]
    /\ Goes(t, "using")

UpToDate(t) ==
    /\ At(t, "versioned") /\ task[t].seen = Latest
    /\ Connected(t)
    /\ UNCHANGED <<file, quick, corrupt, open, spurious>>

Migrated(t) ==
    /\ At(t, "migrating")
    /\ file' = [file EXCEPT !.version = Latest, !.lock = None]
    /\ Connected(t)
    /\ UNCHANGED <<quick, corrupt, open, spurious>>

-----------------------------------------------------------------------------
(* The operations *)

\* Statements on the connection the operation was given, when that is still open.
Use(t) ==
    /\ At(t, "using")
    /\ task[t].c \in Opened
    /\ Returns(t)
    /\ UNCHANGED <<file, quick, conn, corrupt, open>>

\* _close_conn_quietly closes the connection the adapter has now.
Quarantines(t) ==
    /\ conn' = [conn EXCEPT ![On(t)] = None]
    /\ Closes(conn[On(t)])

\* Corruption an operation meets is latched; a health check only reports it.
Corruption(t) ==
    /\ At(t, "using") /\ file.damaged
    /\ IF task[t].op = "use" /\ task[t].c \in Opened
       THEN corrupt' = Latched(t) /\ Quarantines(t)
       ELSE UNCHANGED <<corrupt, conn, open>>
    /\ Raises(t)
    /\ UNCHANGED <<file, quick>>

\* Another task closed the connection in the meantime.
Gone(t) ==
    /\ At(t, "using") /\ task[t].c \notin Opened
    /\ Returns(t)
    /\ UNCHANGED <<file, quick, conn, corrupt, open>>

\* aclose: checkpoint, close, forget; it looks _conn up each time.
Close(t) ==
    /\ At(t, "idle") /\ conn[On(t)] # None
    /\ task' = [task EXCEPT ![t] = [Idle EXCEPT !.at = "checkpointing", !.op = "close"]]
    /\ UNCHANGED <<file, quick, conn, corrupt, open, spurious>>

Checkpointed(t) == task' = [task EXCEPT ![t].at = "shutting"]
Checkpoint(t) ==
    /\ At(t, "checkpointing")
    /\ IF conn[On(t)] = None
       THEN Ends(t) /\ UNCHANGED open
       ELSE Checkpointed(t) /\ Closes(conn[On(t)])
    /\ UNCHANGED <<file, quick, conn, corrupt, spurious>>

Forget(t) ==
    /\ At(t, "shutting")
    /\ conn' = [conn EXCEPT ![On(t)] = None]
    /\ Returns(t)
    /\ UNCHANGED <<file, quick, corrupt, open>>

-----------------------------------------------------------------------------
Damage ==
    /\ "damage" \in Faults /\ ~file.damaged
    /\ file' = [file EXCEPT !.damaged = TRUE]
    /\ UNCHANGED <<quick, conn, corrupt, open, task, spurious>>

\* The resilience layer's budget ends the operation where it waits; only driver errors
\* and corruption are handled there.
Cancel(t) ==
    /\ "cancel" \in Faults /\ ~At(t, "idle")
    /\ Returns(t)
    /\ UNCHANGED <<file, quick, conn, corrupt, open>>

\* The process with the adapter ends and starts again; the driver rolls back.
Released(a) == IF file.lock \in open[a] THEN [file EXCEPT !.lock = None] ELSE file
Restart(a) ==
    /\ file' = Released(a)
    /\ conn' = [conn EXCEPT ![a] = None] /\ corrupt' = [corrupt EXCEPT ![a] = FALSE]
    /\ open' = [open EXCEPT ![a] = {}]
    /\ task' = [t \in Tasks |-> IF t \in a THEN Idle ELSE task[t]]
    /\ UNCHANGED <<quick, spurious>>

Next ==
    \/ \E t \in Tasks, op \in {"use", "health"} : Start(t, op)
    \/ \E t \in Tasks : Open(t) \/ Check(t) \/ Migrate(t) \/ UpToDate(t) \/ Migrated(t)
    \/ \E t \in Tasks : Use(t) \/ Corruption(t) \/ Gone(t)
    \/ \E t \in Tasks : Close(t) \/ Checkpoint(t) \/ Forget(t)
    \/ Damage
    \/ \E t \in Tasks : Cancel(t)
    \/ \E a \in Adapters : Restart(a)

Spec == Init /\ [][Next]_vars

-----------------------------------------------------------------------------
(* Properties *)

\* Every variable keeps its values.
TypeOK ==
    /\ file.version \in 0..Latest /\ file.damaged \in BOOLEAN /\ file.lock \in Opened \cup {None}
    /\ conn \in [Adapters -> Handles \cup {None}]
    /\ corrupt \in [Adapters -> BOOLEAN]
    /\ open \in [Adapters -> SUBSET Handles]
    /\ \A t \in Tasks :
         /\ task[t].at \in {"idle", "opening", "checking", "versioned", "migrating", "using",
                            "checkpointing", "shutting"}
         /\ task[t].op \in {"use", "health", "close"} /\ task[t].c \in Handles \cup {None}

\* A connection that is open belongs to an adapter, or to the operation that is opening
\* it: none is left behind with its thread by a failed open, a second open or a close
\* (connect, _close_conn_quietly, aclose).
NoLostConnection ==
    \A h \in Opened :
        \/ \E a \in Adapters : conn[a] = h
        \/ \E t \in Tasks : task[t].c = h /\ task[t].at \in {"checking", "versioned", "migrating"}

\* A quarantined store stays quarantined: it has no connection any more (_corrupt).
QuarantineHolds == \A a \in Adapters : corrupt[a] => conn[a] = None

\* Only damage quarantines a store: contention, cancellation or a lost race never does
\* (_translate_sqlite_error).
OnlyDamageQuarantines == (\E a \in Adapters : corrupt[a]) => file.damaged

\* Operations on a sound file wait for each other instead of failing (busy_timeout).
SoundFileWorks == ~spurious

\* No two tasks share an adapter.
OneEach == \A a \in Adapters : \A t, u \in a : t = u

\* Damage quarantines a store and nothing else does, and on a file that has its schema
\* no operation fails without damage.  Where each adapter serves one task after the other
\* and none is cancelled, no connection is lost and a quarantined store has none
\* (SQLiteAdapter.connect, aclose; migrations/runner.py).
StoresOpen ==
    /\ TypeOK /\ OnlyDamageQuarantines
    /\ ~NewFile => SoundFileWorks
    /\ "cancel" \notin Faults /\ OneEach => NoLostConnection /\ QuarantineHolds

=============================================================================
