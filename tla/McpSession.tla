------------------------------ MODULE McpSession ------------------------------
(***************************************************************************)
(* The session one MCPToolAdapter holds open to its server                 *)
(* (arcana/tools/adapters/mcp.py): connect on first use, one call at a     *)
(* time, teardown after a transport error, close.  Every task that uses    *)
(* the adapter may be cancelled at any await, for the tool gateway runs it *)
(* under a timeout of its own.                                             *)
(***************************************************************************)
EXTENDS Naturals

CONSTANTS
    Callers,     \* tasks that use the adapter
    Sessions,    \* names for sessions (a name is used again when forgotten)
    None,        \* no session, no holder
    Credentials  \* there is a provider whose on_unauthorized may refresh

ASSUME SessionAssumption ==
    /\ None \notin Callers \cup Sessions
    /\ Credentials \in BOOLEAN

VARIABLES
    fresh,       \* cfg.ephemeral_stdio: a session for each call
    conn,        \* conn[s]: the transport of session s
    session,     \* _session, and _stack, which is set with it
    connecting,  \* the task holding _connect_lock
    calling,     \* the task holding _lock
    healthy,     \* _healthy
    task         \* task[c]: the operation c is in

vars == <<fresh, conn, session, connecting, calling, healthy, task>>
locks == <<connecting, calling>>

\* s: the session the operation was given, opens or tears down.
Task == [at: {"idle", "locking", "opening", "renewing", "queued", "sent", "listing", "closing"},
         op: {"call", "discover", "aclose"}, s: Sessions \cup {None}, attempt: 0..1]

Idle == [at |-> "idle", op |-> "call", s |-> None, attempt |-> 0]

Init ==
    /\ fresh \in BOOLEAN
    /\ conn = [s \in Sessions |-> "none"]
    /\ session = None
    /\ connecting = None /\ calling = None
    /\ healthy = TRUE
    /\ task = [c \in Callers |-> Idle]

At(c, where) == task[c].at = where

Forgotten == {s \in Sessions : conn[s] = "none" /\ s # session /\ \A c \in Callers : task[c].s # s}

\* A session that serves one call only.
OneShot(c) == fresh /\ task[c].op = "call"

Ends(c) == task' = [task EXCEPT ![c] = Idle]
Goes(c, where, s) == task' = [task EXCEPT ![c].at = where, ![c].s = s]

\* A session, once there is one, is used.
Uses(c, s) == Goes(c, IF task[c].op = "discover" THEN "listing" ELSE "queued", s)

-----------------------------------------------------------------------------
(* Bugs this code could have.  Each takes the place of a definition below to
   see that a property notices; the model uses none of them. *)

\* The session is not looked for again once the lock is held.
NotAgain == FALSE

\* A timed out or cancelled call keeps the lock; two calls share the stream.
KeepsLock(c) == UNCHANGED calling
NoLock == TRUE

\* A handshake that fails, or is cut off, leaves its transport open.
LeavesOpen(c) == UNCHANGED conn

\* A connect that fails is tried for as long as the credentials are renewed.
AlwaysRenews(c) == Credentials

-----------------------------------------------------------------------------
(* Operations up to their first await *)

Opens(c, s) ==
    /\ conn' = [conn EXCEPT ![s] = "opening"]
    /\ Goes(c, "opening", s)

\* execute and discover: the live session, or the connect lock; a one-shot call
\* connects at once.
Begin(c, op) ==
    LET begun == [Idle EXCEPT !.op = op]
    IN  /\ At(c, "idle")
        /\ \/ /\ fresh /\ op = "call"
              /\ \E s \in Forgotten :
                   /\ conn' = [conn EXCEPT ![s] = "opening"]
                   /\ task' = [task EXCEPT ![c] = [begun EXCEPT !.at = "opening", !.s = s]]
           \/ /\ ~(fresh /\ op = "call") /\ session = None
              /\ task' = [task EXCEPT ![c] = [begun EXCEPT !.at = "locking"]]
              /\ UNCHANGED conn
           \/ /\ ~(fresh /\ op = "call") /\ session # None
              /\ task' = [task EXCEPT ![c] =
                   [begun EXCEPT !.at = IF op = "call" THEN "queued" ELSE "listing", !.s = session]]
              /\ UNCHANGED conn
        /\ UNCHANGED <<fresh, session, locks, healthy>>

\* _reset: the session is dropped first and torn down then.  A call that failed
\* marks the server down afterwards.
Resets(c) ==
    /\ session' = None
    /\ IF session = None
       THEN Ends(c) /\ healthy' = (healthy /\ task[c].op # "call")
       ELSE Goes(c, "closing", session) /\ UNCHANGED healthy

Close(c) ==
    /\ At(c, "idle") /\ session # None
    /\ session' = None
    /\ task' = [task EXCEPT ![c] = [Idle EXCEPT !.at = "closing", !.op = "aclose", !.s = session]]
    /\ UNCHANGED <<fresh, conn, locks, healthy>>

-----------------------------------------------------------------------------
(* Connecting *)

ConnectLockFree == connecting = None

\* _ensure_session, with the lock: another task may have connected meanwhile.
Connected == session # None

TakeConnect(c) ==
    /\ At(c, "locking") /\ ConnectLockFree
    /\ \/ Connected /\ Uses(c, session) /\ UNCHANGED <<conn, connecting>>
       \/ /\ ~Connected
          /\ \E s \in Forgotten : Opens(c, s)
          /\ connecting' = c
    /\ UNCHANGED <<fresh, session, calling, healthy>>

ReleaseConnect(c) == connecting' = IF connecting = c THEN None ELSE connecting

\* The handshake is completed.
Opened(c) ==
    LET s == task[c].s
    IN  /\ At(c, "opening")
        /\ conn' = [conn EXCEPT ![s] = "open"]
        /\ IF OneShot(c)
           THEN Goes(c, "sent", s) /\ UNCHANGED <<session, healthy>>
           ELSE Uses(c, s) /\ session' = s /\ healthy' = TRUE
        /\ ReleaseConnect(c)
        /\ UNCHANGED <<fresh, calling>>

TornDown(c) == conn' = [conn EXCEPT ![task[c].s] = "none"]

\* No session: a call fails and marks the server down, discover raises.
Unavailable(c) ==
    /\ Ends(c)
    /\ ReleaseConnect(c)
    /\ healthy' = (healthy /\ task[c].op # "call")

MayRenew(c) == Credentials /\ task[c].attempt = 0

\* The connect fails or times out.
OpenFails(c) ==
    /\ At(c, "opening")
    /\ TornDown(c)
    /\ IF MayRenew(c) THEN Goes(c, "renewing", None) /\ UNCHANGED <<connecting, healthy>>
       ELSE Unavailable(c)
    /\ UNCHANGED <<fresh, session, calling>>

\* on_unauthorized has refreshed the credentials, or not.
Renewed(c) ==
    /\ At(c, "renewing")
    /\ \E s \in Forgotten :
         /\ conn' = [conn EXCEPT ![s] = "opening"]
         /\ task' = [task EXCEPT ![c].at = "opening", ![c].s = s, ![c].attempt = @ + 1]
    /\ UNCHANGED <<fresh, session, locks, healthy>>

NotRenewed(c) ==
    /\ At(c, "renewing")
    /\ Unavailable(c)
    /\ UNCHANGED <<fresh, conn, session, calling>>

-----------------------------------------------------------------------------
(* Calling *)

CallLockFree == calling = None

Send(c) ==
    /\ At(c, "queued") /\ CallLockFree
    /\ calling' = c
    /\ Goes(c, "sent", task[c].s)
    /\ UNCHANGED <<fresh, conn, session, connecting, healthy>>

ReleaseCall(c) == calling' = IF calling = c THEN None ELSE calling

\* The server answers (a reported error is an answer), or the call times out.
Answer(c) ==
    /\ At(c, "sent")
    /\ conn[task[c].s] = "open"
    /\ IF OneShot(c) THEN TornDown(c) ELSE UNCHANGED conn
    /\ Ends(c) /\ ReleaseCall(c)
    /\ UNCHANGED <<fresh, session, connecting, healthy>>

Timeout(c) ==
    /\ At(c, "sent")
    /\ IF OneShot(c) THEN TornDown(c) ELSE UNCHANGED conn
    /\ Ends(c) /\ ReleaseCall(c)
    /\ UNCHANGED <<fresh, session, connecting, healthy>>

\* The transport fails, as it must when it was torn down or its server died.
Error(c) ==
    /\ At(c, "sent")
    /\ IF OneShot(c) THEN TornDown(c) /\ Ends(c) /\ UNCHANGED <<session, healthy>>
       ELSE Resets(c) /\ UNCHANGED conn
    /\ ReleaseCall(c)
    /\ UNCHANGED <<fresh, connecting>>

\* The rest of _reset.
Closed(c) ==
    /\ At(c, "closing")
    /\ TornDown(c)
    /\ Ends(c)
    /\ healthy' = (healthy /\ task[c].op # "call")
    /\ UNCHANGED <<fresh, session, locks>>

\* discover: tools/list has no timeout.
Listed(c) ==
    /\ At(c, "listing")
    /\ Ends(c)
    /\ UNCHANGED <<fresh, conn, session, locks, healthy>>

-----------------------------------------------------------------------------

\* The caller gives up at an await.  What the task has opened for itself, or is
\* tearing down, is torn down all the same.
Cancel(c) ==
    /\ ~At(c, "idle")
    /\ IF task[c].at \in {"opening", "closing"} \/ (At(c, "sent") /\ OneShot(c))
       THEN TornDown(c) ELSE UNCHANGED conn
    /\ Ends(c)
    /\ ReleaseConnect(c) /\ ReleaseCall(c)
    /\ UNCHANGED <<fresh, session, healthy>>

\* External: the server dies, or its connection breaks.
Dies(s) ==
    /\ conn[s] = "open"
    /\ conn' = [conn EXCEPT ![s] = "broken"]
    /\ UNCHANGED <<fresh, session, locks, healthy, task>>

Next ==
    \/ \E c \in Callers, op \in {"call", "discover"} : Begin(c, op)
    \/ \E c \in Callers : Close(c)
    \/ \E c \in Callers : TakeConnect(c)
    \/ \E c \in Callers : Opened(c)
    \/ \E c \in Callers : OpenFails(c)
    \/ \E c \in Callers : Renewed(c)
    \/ \E c \in Callers : NotRenewed(c)
    \/ \E c \in Callers : Send(c)
    \/ \E c \in Callers : Answer(c)
    \/ \E c \in Callers : Timeout(c)
    \/ \E c \in Callers : Error(c)
    \/ \E c \in Callers : Closed(c)
    \/ \E c \in Callers : Listed(c)
    \/ \E c \in Callers : Cancel(c)
    \/ \E s \in Sessions : Dies(s)

Spec == Init /\ [][Next]_vars

\* Connects and calls have timeouts, a refresh of the credentials and a teardown
\* end; asyncio.Lock serves its waiters in turn.  Nothing is assumed of answers.
Fairness ==
    \A c \in Callers :
        /\ SF_vars(TakeConnect(c)) /\ SF_vars(Send(c))
        /\ WF_vars(OpenFails(c)) /\ WF_vars(Renewed(c) \/ NotRenewed(c))
        /\ WF_vars(Timeout(c)) /\ WF_vars(Closed(c))

FairSpec == Spec /\ Fairness

-----------------------------------------------------------------------------
(* Properties *)

\* Every variable keeps the values the code can give it; a connect is tried at
\* most twice (_connect).
TypeOK ==
    /\ fresh \in BOOLEAN /\ healthy \in BOOLEAN
    /\ conn \in [Sessions -> {"none", "opening", "open", "broken"}]
    /\ session \in Sessions \cup {None}
    /\ connecting \in Callers \cup {None} /\ calling \in Callers \cup {None}
    /\ task \in [Callers -> Task]

\* No transport is lost: whatever is open is the adapter's session, or belongs to
\* a task that will keep it or tear it down (_ensure_session, _open, _reset).
NoLostTransport ==
    \A s \in Sessions : conn[s] # "none" =>
        \/ s = session
        \/ \E c \in Callers : /\ task[c].s = s
                              /\ \/ task[c].at \in {"opening", "closing"}
                                 \/ At(c, "sent") /\ OneShot(c)

\* While the adapter holds a session nobody opens another one to share, however
\* many tasks found none before (_ensure_session).
OneConnect ==
    session # None => \A c \in Callers : At(c, "opening") => OneShot(c)

\* Calls never interleave on one stream (_execute_persistent).
CallsTakeTurns ==
    \A c, d \in Callers : At(c, "sent") /\ At(d, "sent") /\ task[c].s = task[d].s => c = d

\* No transport is left behind or opened twice, and no two calls share a stream
\* (_ensure_session, _execute_persistent).
SessionSound == TypeOK /\ NoLostTransport /\ OneConnect /\ CallsTakeTurns

\* Every call and every close ends, whatever the server does and whoever is
\* cancelled: nobody keeps a lock, nothing is awaited without end.
CallsEnd ==
    \A c \in Callers :
        (~At(c, "idle") /\ task[c].op \in {"call", "aclose"}) ~> At(c, "idle")

\* A call whose transport failed drops that session, "so the next call reconnects"
\* (_execute_persistent), and not one that was opened since.
DropsItsOwn ==
    [][\A c \in Callers :
         At(c, "sent") /\ ~At(c, "sent")' /\ session # None /\ session' = None
            => session = task[c].s]_vars

=============================================================================
