--------------------------- MODULE McpSessionProofs ---------------------------
(***************************************************************************)
(* What the session of one MCP adapter promises, for any number of tasks   *)
(* that share it, with any of them cancelled at any await.                 *)
(***************************************************************************)
EXTENDS McpSession, TLAPS

\* A task that serves one call with a session of its own.
Alone(t) == fresh /\ t.op = "call"

\* A task nobody shares a session with, one that will tear its session down or
\* keep it, and one that connects for everybody.
Private(t) == t.at = "opening" \/ (t.at = "sent" /\ Alone(t))
Owner(t) == t.at = "closing" \/ Private(t)
Connects(t) == t.at \in {"opening", "renewing"} /\ ~Alone(t)

Types ==
    /\ fresh \in BOOLEAN /\ healthy \in BOOLEAN
    /\ conn \in [Sessions -> {"none", "opening", "open", "broken"}]
    /\ session \in Sessions \cup {None}
    /\ connecting \in Callers \cup {None} /\ calling \in Callers \cup {None}
    /\ task \in [Callers -> Task]

Locked(c) ==
    /\ Connects(task[c]) => connecting = c /\ session = None
    /\ (task[c].at = "sent" /\ ~Alone(task[c])) => calling = c
    /\ task[c].at = "renewing" => task[c].attempt = 0
    /\ task[c].at \in {"locking", "queued"} => ~Alone(task[c])

Unshared(c) ==
    Private(task[c]) =>
        /\ task[c].s \in Sessions /\ task[c].s # session
        /\ \A q \in Callers : q # c => task[q].s # task[c].s

Kept(s) == conn[s] # "none" => s = session \/ \E c \in Callers : task[c].s = s /\ Owner(task[c])

IInv ==
    /\ Types
    /\ \A c \in Callers : Locked(c) /\ Unshared(c)
    /\ \A s \in Sessions : Kept(s)

-----------------------------------------------------------------------------
(* Lemmas *)

\* A step of task c, after which it is d: nobody else's lock, session or transport
\* is touched.
LEMMA TaskSteps ==
    ASSUME IInv, NEW c \in Callers, NEW d, d \in Task, task' \in [Callers -> Task], task'[c] = d,
           \A q \in Callers : q # c => task'[q] = task[q],
           UNCHANGED fresh, healthy' \in BOOLEAN,
           conn' \in [Sessions -> {"none", "opening", "open", "broken"}],
           session' \in {session, None, task[c].s},
           session' \in {session, None} \/ connecting = c,
           connecting' \in Callers \cup {None}, connecting' = connecting \/ connecting \in {None, c},
           calling' \in Callers \cup {None}, calling' = calling \/ calling \in {None, c},
           Connects(d) => connecting' = c /\ session' = None,
           (d.at = "sent" /\ ~Alone(d)) => calling' = c,
           d.at = "renewing" => d.attempt = 0, d.at \in {"locking", "queued"} => ~Alone(d),
           d.s \in {task[c].s, session, None} \/ d.s \in Forgotten,
           Private(d) => \/ Private(task[c]) /\ d.s = task[c].s /\ session' \in {session, None}
                         \/ d.s \in Forgotten /\ session' = session,
           \A s \in Sessions : conn'[s] # "none" =>
               \/ s = session' \/ (d.s = s /\ Owner(d))
               \/ conn[s] # "none" /\ s # session /\ ~(task[c].s = s /\ Owner(task[c]))
    PROVE  IInv'
<1> USE SessionAssumption DEF Types
<1>1. Types'
  BY DEF IInv, Task
<1>2. ASSUME NEW q \in Callers, q # c
      PROVE  Locked(q)' /\ Unshared(q)'
  <2>1. task'[q] = task[q] /\ Locked(q) /\ Unshared(q) /\ task[q] \in Task
    BY <1>2 DEF IInv
  <2>2. Locked(q)'
    BY <1>2, <2>1 DEF Locked, Connects, Alone
  <2>3. ASSUME Private(task[q])
        PROVE  /\ task[q].s \in Sessions /\ task[q].s # session' /\ d.s # task[q].s
               /\ \A r \in Callers : r # q => task'[r].s # task[q].s
    <3>1. task[q].s \in Sessions /\ task[q].s # session /\ \A r \in Callers : r # q => task[r].s # task[q].s
      BY <2>1, <2>3 DEF Unshared
    <3>2. task[c].s # task[q].s
      BY <1>2, <3>1
    <3>3. d.s # task[q].s
      BY <3>1, <3>2 DEF Forgotten
    <3> QED BY <3>1, <3>2, <3>3
  <2>4. Unshared(q)'
    BY <2>1, <2>3 DEF Unshared, Private, Alone
  <2> QED BY <2>2, <2>4
<1>3. Locked(c)'
  BY DEF Locked, Connects, Alone
<1>4. ASSUME Private(d)
      PROVE  d.s \in Sessions /\ d.s # session' /\ \A q \in Callers : q # c => task'[q].s # d.s
  <2>1. CASE Private(task[c]) /\ d.s = task[c].s /\ session' \in {session, None}
    BY <2>1 DEF IInv, Unshared
  <2>2. CASE d.s \in Forgotten /\ session' = session
    BY <2>2 DEF Forgotten
  <2> QED BY <1>4, <2>1, <2>2
<1>5. Unshared(c)'
  BY <1>4 DEF Unshared, Private, Alone
<1>6. ASSUME NEW s \in Sessions, conn'[s] # "none"
      PROVE  s = session' \/ \E q \in Callers : task'[q].s = s /\ Owner(task'[q])
  <2>1. CASE s = session'
    BY <2>1
  <2>2. CASE d.s = s /\ Owner(d)
    BY <2>2
  <2>3. CASE conn[s] # "none" /\ s # session /\ ~(task[c].s = s /\ Owner(task[c]))
    <3>1. PICK q \in Callers : task[q].s = s /\ Owner(task[q])
      BY <2>3 DEF IInv, Kept
    <3>2. q # c
      BY <2>3, <3>1
    <3> QED BY <3>1, <3>2
  <2> QED BY <1>6, <2>1, <2>2, <2>3
<1>7. \A q \in Callers : task'[q] = task[q] \/ task'[q] = d
  OBVIOUS
<1>8. \A s \in Sessions : Kept(s)'
  BY <1>6 DEF Kept, Owner, Private, Alone
<1> QED BY <1>1, <1>2, <1>3, <1>5, <1>8 DEF IInv

\* A task that goes on with a session, and one that ends.
LEMMA Gone ==
    ASSUME task \in [Callers -> Task], NEW c \in Callers, NEW where, NEW s \in Sessions \cup {None},
           where \in {"opening", "renewing", "queued", "sent", "listing", "closing"}, Goes(c, where, s)
    PROVE  /\ task' \in [Callers -> Task] /\ \A q \in Callers : q # c => task'[q] = task[q]
           /\ task'[c] \in Task /\ task'[c].at = where /\ task'[c].s = s
           /\ task'[c].op = task[c].op /\ task'[c].attempt = task[c].attempt
<1>1. PICK d : d = [[task[c] EXCEPT !.at = where] EXCEPT !.s = s]
  OBVIOUS
<1>2. task' = [task EXCEPT ![c] = d]
  BY <1>1, Zenon DEF Goes
<1>3. d \in Task /\ d.at = where /\ d.s = s /\ d.op = task[c].op /\ d.attempt = task[c].attempt
  BY <1>1 DEF Task
<1> QED BY <1>2, <1>3

LEMMA Ended ==
    ASSUME task \in [Callers -> Task], NEW c \in Callers, Ends(c)
    PROVE  /\ task' \in [Callers -> Task] /\ \A q \in Callers : q # c => task'[q] = task[q]
           /\ task'[c] \in Task /\ task'[c] = Idle
           /\ task'[c].at = "idle" /\ task'[c].s = None
<1>1. Idle \in Task
  BY DEF Idle, Task
<1> QED BY <1>1 DEF Ends, Idle

\* An operation that starts.
LEMMA Fresh ==
    ASSUME NEW op, NEW where, NEW s
    PROVE  /\ [[Idle EXCEPT !.op = op] EXCEPT !.at = where] = [at |-> where, op |-> op, s |-> None, attempt |-> 0]
           /\ [[[Idle EXCEPT !.op = op] EXCEPT !.at = where] EXCEPT !.s = s]
              = [at |-> where, op |-> op, s |-> s, attempt |-> 0]
           /\ [[[Idle EXCEPT !.at = where] EXCEPT !.op = op] EXCEPT !.s = s]
              = [at |-> where, op |-> op, s |-> s, attempt |-> 0]
<1>1. [Idle EXCEPT !.op = op] = [at |-> "idle", op |-> op, s |-> None, attempt |-> 0]
  BY DEF Idle
<1>2. [[at |-> "idle", op |-> op, s |-> None, attempt |-> 0] EXCEPT !.at = where]
      = [at |-> where, op |-> op, s |-> None, attempt |-> 0]
  OBVIOUS
<1>3. [[at |-> where, op |-> op, s |-> None, attempt |-> 0] EXCEPT !.s = s]
      = [at |-> where, op |-> op, s |-> s, attempt |-> 0]
  OBVIOUS
<1>4. [Idle EXCEPT !.at = where] = [at |-> where, op |-> "call", s |-> None, attempt |-> 0]
  BY DEF Idle
<1>5. [[at |-> where, op |-> "call", s |-> None, attempt |-> 0] EXCEPT !.op = op]
      = [at |-> where, op |-> op, s |-> None, attempt |-> 0]
  OBVIOUS
<1> QED BY <1>1, <1>2, <1>3, <1>4, <1>5, Zenon

-----------------------------------------------------------------------------
(* The steps *)

\* An operation starts: with a session of its own, waiting for the lock, or with
\* the session that is open.
LEMMA Begins ==
    ASSUME IInv, NEW c \in Callers, NEW op \in {"call", "discover"}, Begin(c, op)
    PROVE  IInv'
<1>1. task \in [Callers -> Task] /\ task[c].at = "idle" /\ UNCHANGED <<fresh, session, locks, healthy>>
  BY DEF IInv, Types, Begin, At
<1>2. CASE /\ fresh /\ op = "call"
           /\ \E s \in Forgotten :
                /\ conn' = [conn EXCEPT ![s] = "opening"]
                /\ task' = [task EXCEPT ![c] = [[Idle EXCEPT !.op = op] EXCEPT !.at = "opening", !.s = s]]
  <2>1. PICK s \in Forgotten :
          /\ conn' = [conn EXCEPT ![s] = "opening"]
          /\ task' = [task EXCEPT ![c] = [[Idle EXCEPT !.op = op] EXCEPT !.at = "opening", !.s = s]]
    BY <1>2
  <2>2. PICK d : d = [[[Idle EXCEPT !.op = op] EXCEPT !.at = "opening"] EXCEPT !.s = s]
    OBVIOUS
  <2>3. task' = [task EXCEPT ![c] = d]
    BY <2>1, <2>2, Zenon
  <2>4. s \in Sessions
    BY DEF Forgotten
  <2>5. d \in Task /\ d.at = "opening" /\ d.s = s /\ d.op = op
    <3>1. d = [at |-> "opening", op |-> op, s |-> s, attempt |-> 0]
      BY <2>2, Fresh, Zenon
    <3> QED BY <2>4, <3>1 DEF Task
  <2>6. task' \in [Callers -> Task] /\ task'[c] = d /\ \A q \in Callers : q # c => task'[q] = task[q]
    BY <1>1, <2>3, <2>5
  <2>8. ~Connects(d) /\ Alone(d)
    BY <1>1, <1>2, <2>5 DEF Connects, Alone
  <2>9. conn' \in [Sessions -> {"none", "opening", "open", "broken"}]
    BY <2>1 DEF IInv, Types
  <2>7. ASSUME NEW r \in Sessions, conn'[r] # "none"
        PROVE  r = session' \/ (d.s = r /\ Owner(d))
               \/ (conn[r] # "none" /\ r # session /\ ~(task[c].s = r /\ Owner(task[c])))
    BY <1>1, <2>1, <2>4, <2>5, <2>7 DEF IInv, Types, Owner, Private
  <2> QED BY <1>1, <2>5, <2>6, <2>7, <2>8, <2>9, TaskSteps DEF IInv, Types, locks
<1>3. CASE /\ ~(fresh /\ op = "call") /\ session = None
           /\ task' = [task EXCEPT ![c] = [[Idle EXCEPT !.op = op] EXCEPT !.at = "locking"]]
           /\ UNCHANGED conn
  <2>1. PICK d : d = [[Idle EXCEPT !.op = op] EXCEPT !.at = "locking"]
    OBVIOUS
  <2>2. task' = [task EXCEPT ![c] = d]
    BY <1>3, <2>1, Zenon
  <2>3. d \in Task /\ d.at = "locking" /\ d.s = None /\ d.op = op
    <3>1. d = [at |-> "locking", op |-> op, s |-> None, attempt |-> 0]
      BY <2>1, Fresh, Zenon
    <3> QED BY <3>1 DEF Task
  <2>4. task' \in [Callers -> Task] /\ task'[c] = d /\ \A q \in Callers : q # c => task'[q] = task[q]
    BY <1>1, <2>2, <2>3
  <2> QED BY <1>1, <1>3, <2>3, <2>4, TaskSteps DEF IInv, Types, Connects, Private, Owner, Alone, locks
<1>4. CASE /\ ~(fresh /\ op = "call") /\ session # None
           /\ task' = [task EXCEPT ![c] = [[Idle EXCEPT !.op = op] EXCEPT
                                              !.at = IF op = "call" THEN "queued" ELSE "listing", !.s = session]]
           /\ UNCHANGED conn
  <2>0. PICK where : where = IF op = "call" THEN "queued" ELSE "listing"
    OBVIOUS
  <2>1. PICK d : d = [[[Idle EXCEPT !.op = op] EXCEPT !.at = where] EXCEPT !.s = session]
    OBVIOUS
  <2>2. task' = [task EXCEPT ![c] = d]
    BY <1>4, <2>0, <2>1, Zenon
  <2>3. d \in Task /\ d.at \in {"queued", "listing"} /\ d.s = session /\ d.op = op
    <3>1. d = [at |-> where, op |-> op, s |-> session, attempt |-> 0]
      BY <2>1, Fresh, Zenon
    <3> QED BY <1>4, <2>0, <3>1 DEF Task, IInv, Types
  <2>4. task' \in [Callers -> Task] /\ task'[c] = d /\ \A q \in Callers : q # c => task'[q] = task[q]
    BY <1>1, <2>2, <2>3
  <2> QED BY <1>1, <1>4, <2>3, <2>4, TaskSteps DEF IInv, Types, Connects, Private, Owner, Alone, locks
<1> QED BY <1>2, <1>3, <1>4, Zenon DEF Begin

\* The session is dropped, and its task will tear it down.
LEMMA Drops ==
    ASSUME IInv, NEW c \in Callers, NEW d, d \in Task, task' \in [Callers -> Task], task'[c] = d,
           \A q \in Callers : q # c => task'[q] = task[q], UNCHANGED <<fresh, conn, connecting>>,
           healthy' \in BOOLEAN, session' = None, d.s = session,
           d.at = "closing" \/ (session = None /\ d.at = "idle"), ~Owner(task[c]),
           calling' \in Callers \cup {None}, calling' = calling \/ calling \in {None, c}
    PROVE  IInv'
<1>1. ~Connects(d) /\ ~Private(d) /\ d.at # "sent" /\ d.at # "renewing"
  BY DEF Connects, Private
<1>2. ASSUME NEW s \in Sessions, conn'[s] # "none"
      PROVE  (d.s = s /\ Owner(d)) \/ (conn[s] # "none" /\ s # session /\ ~(task[c].s = s /\ Owner(task[c])))
  BY <1>2, SessionAssumption DEF Owner
<1> QED BY <1>1, <1>2, TaskSteps DEF IInv, Types

LEMMA Closes ==
    ASSUME IInv, NEW c \in Callers, Close(c)
    PROVE  IInv'
<1>1. task \in [Callers -> Task] /\ task[c].at = "idle" /\ UNCHANGED <<fresh, conn, locks, healthy>> /\ session' = None
  BY DEF IInv, Types, Close, At
<1>2. PICK d : d = [[[Idle EXCEPT !.at = "closing"] EXCEPT !.op = "aclose"] EXCEPT !.s = session]
  OBVIOUS
<1>3. task' = [task EXCEPT ![c] = d]
  BY <1>2, Zenon DEF Close
<1>4. d \in Task /\ d.at = "closing" /\ d.s = session
  <2>1. d = [at |-> "closing", op |-> "aclose", s |-> session, attempt |-> 0]
    BY <1>2, Fresh, Zenon
  <2> QED BY <2>1 DEF Task, IInv, Types
<1>5. task' \in [Callers -> Task] /\ task'[c] = d /\ \A q \in Callers : q # c => task'[q] = task[q]
  BY <1>1, <1>3, <1>4
<1> QED BY <1>1, <1>4, <1>5, Drops DEF IInv, Types, Owner, Private, locks

\* The lock of the connect: a session is found, or one is opened.
LEMMA TakesConnect ==
    ASSUME IInv, NEW c \in Callers, TakeConnect(c)
    PROVE  IInv'
<1>1. /\ task \in [Callers -> Task] /\ task[c].at = "locking" /\ connecting = None
      /\ UNCHANGED <<fresh, session, calling, healthy>>
  BY DEF IInv, Types, TakeConnect, At, ConnectLockFree
<1>2. CASE Connected /\ Uses(c, session) /\ UNCHANGED <<conn, connecting>>
  <2>1. PICK where \in {"queued", "listing"} : Goes(c, where, session)
    BY <1>2 DEF Uses
  <2>2. /\ task' \in [Callers -> Task] /\ \A q \in Callers : q # c => task'[q] = task[q]
        /\ task'[c] \in Task /\ task'[c].at = where /\ task'[c].s = session
        /\ task'[c].op = task[c].op
    BY <1>1, <2>1, Gone DEF IInv, Types
  <2>3. ~Alone(task'[c])
    BY <1>1, <2>2 DEF IInv, Locked, Alone
  <2>4. ~Connects(task'[c]) /\ ~Private(task'[c]) /\ task'[c].at \notin {"sent", "renewing"} /\ ~Owner(task[c])
    BY <1>1, <2>2 DEF Connects, Private, Owner
  <2> QED BY <1>1, <1>2, <2>2, <2>3, <2>4, TaskSteps DEF IInv, Types
<1>3. CASE ~Connected /\ (\E s \in Forgotten : Opens(c, s)) /\ connecting' = c
  <2>1. PICK s \in Forgotten : conn' = [conn EXCEPT ![s] = "opening"] /\ Goes(c, "opening", s)
    BY <1>3 DEF Opens
  <2>2. s \in Sessions
    BY DEF Forgotten
  <2>3. /\ task' \in [Callers -> Task] /\ \A q \in Callers : q # c => task'[q] = task[q]
        /\ task'[c] \in Task /\ task'[c].at = "opening" /\ task'[c].s = s
    BY <1>1, <2>1, <2>2, Gone
  <2>4. session = None
    BY <1>3 DEF Connected
  <2>5. ASSUME NEW r \in Sessions, conn'[r] # "none"
        PROVE  (task'[c].s = r /\ Owner(task'[c]))
               \/ (conn[r] # "none" /\ r # session /\ ~(task[c].s = r /\ Owner(task[c])))
    BY <1>1, <2>1, <2>2, <2>3, <2>4, <2>5, SessionAssumption DEF IInv, Types, Owner, Private
  <2>6. conn' \in [Sessions -> {"none", "opening", "open", "broken"}]
    BY <2>1 DEF IInv, Types
  <2> QED BY <1>1, <1>3, <2>3, <2>4, <2>5, <2>6, TaskSteps DEF IInv, Types
<1> QED BY <1>2, <1>3 DEF TakeConnect

\* A connect succeeds: its session is the adapter's, or its own.
LEMMA Opening ==
    ASSUME IInv, NEW c \in Callers, Opened(c)
    PROVE  IInv'
<1>1. PICK s : s = task[c].s
  OBVIOUS
<1>2. /\ task \in [Callers -> Task] /\ task[c].at = "opening" /\ task[c].s = s
      /\ conn' = [conn EXCEPT ![s] = "open"] /\ ReleaseConnect(c) /\ UNCHANGED <<fresh, calling>>
  BY <1>1 DEF IInv, Types, Opened, At
<1>3. s \in Sessions /\ s # session
  BY <1>2 DEF IInv, Unshared, Private
<1>4. conn' \in [Sessions -> {"none", "opening", "open", "broken"}]
  BY <1>2 DEF IInv, Types
<1>5. connecting' \in Callers \cup {None} /\ (connecting' = connecting \/ connecting \in {None, c})
  BY <1>2 DEF ReleaseConnect, IInv, Types
<1>6. CASE OneShot(c)
  <2>1. Goes(c, "sent", s) /\ UNCHANGED <<session, healthy>>
    BY <1>1, <1>6 DEF Opened
  <2>2. /\ task' \in [Callers -> Task] /\ \A q \in Callers : q # c => task'[q] = task[q]
        /\ task'[c] \in Task /\ task'[c].at = "sent" /\ task'[c].s = s /\ task'[c].op = task[c].op
    BY <1>2, <1>3, <2>1, Gone
  <2>3. Private(task[c]) /\ Alone(task[c]) /\ Alone(task'[c]) /\ Owner(task'[c]) /\ ~Connects(task'[c])
    BY <1>2, <1>6, <2>2 DEF Private, Alone, Owner, OneShot, Connects
  <2>4. ASSUME NEW r \in Sessions, conn'[r] # "none"
        PROVE  r = session' \/ (task'[c].s = r /\ Owner(task'[c]))
               \/ (conn[r] # "none" /\ r # session /\ ~(task[c].s = r /\ Owner(task[c])))
    BY <1>2, <1>3, <2>1, <2>2, <2>3, <2>4 DEF IInv, Types
  <2> QED BY <1>2, <1>4, <1>5, <2>1, <2>2, <2>3, <2>4, TaskSteps DEF IInv, Types
<1>7. CASE ~OneShot(c)
  <2>1. PICK where \in {"queued", "listing"} : Goes(c, where, s)
    BY <1>1, <1>7 DEF Opened, Uses
  <2>2. /\ task' \in [Callers -> Task] /\ \A q \in Callers : q # c => task'[q] = task[q]
        /\ task'[c] \in Task /\ task'[c].at = where /\ task'[c].s = s
        /\ task'[c].op = task[c].op
    BY <1>2, <1>3, <2>1, Gone
  <2>3. session' = s /\ healthy' = TRUE
    BY <1>1, <1>7 DEF Opened
  <2>4. connecting = c /\ session = None
    BY <1>2, <1>7 DEF IInv, Locked, Connects, Alone, OneShot
  <2>5. ASSUME NEW r \in Sessions, conn'[r] # "none"
        PROVE  r = session' \/ (conn[r] # "none" /\ r # session /\ ~(task[c].s = r /\ Owner(task[c])))
    BY <1>2, <1>3, <2>3, <2>4, <2>5, SessionAssumption DEF IInv, Types
  <2>6. ~Connects(task'[c]) /\ ~Private(task'[c]) /\ task'[c].at \notin {"sent", "renewing"} /\ ~Alone(task'[c])
    BY <1>2, <1>7, <2>2 DEF Connects, Private, Alone, OneShot
  <2> QED BY <1>2, <1>4, <1>5, <2>2, <2>3, <2>4, <2>5, <2>6, TaskSteps DEF IInv, Types
<1> QED BY <1>6, <1>7

\* A task ends, and tears down what it has opened.
LEMMA Leaves ==
    ASSUME IInv, NEW c \in Callers, Ends(c), UNCHANGED <<fresh, session>>, healthy' \in BOOLEAN,
           TornDown(c) \/ (UNCHANGED conn /\ ~Owner(task[c])),
           UNCHANGED connecting \/ ReleaseConnect(c), UNCHANGED calling \/ ReleaseCall(c)
    PROVE  IInv'
<1>1. task \in [Callers -> Task] /\ conn \in [Sessions -> {"none", "opening", "open", "broken"}]
  BY DEF IInv, Types
<1>2. /\ task' \in [Callers -> Task] /\ \A q \in Callers : q # c => task'[q] = task[q]
      /\ task'[c] \in Task /\ task'[c].at = "idle" /\ task'[c].s = None
  BY <1>1, Ended
<1>3. conn' \in [Sessions -> {"none", "opening", "open", "broken"}]
  BY <1>1 DEF TornDown
<1>4. ASSUME NEW s \in Sessions, conn'[s] # "none"
      PROVE  s = session' \/ (conn[s] # "none" /\ s # session /\ ~(task[c].s = s /\ Owner(task[c])))
  BY <1>1, <1>4 DEF TornDown
<1>5. ~Connects(task'[c]) /\ ~Private(task'[c]) /\ task'[c].at \notin {"sent", "renewing"}
  BY <1>2 DEF Connects, Private
<1>6. /\ connecting' \in Callers \cup {None} /\ (connecting' = connecting \/ connecting \in {None, c})
      /\ calling' \in Callers \cup {None} /\ (calling' = calling \/ calling \in {None, c})
  BY DEF ReleaseConnect, ReleaseCall, IInv, Types
<1> QED BY <1>2, <1>3, <1>4, <1>5, <1>6, TaskSteps

\* A connect fails, and may be tried once more.
LEMMA OpeningFails ==
    ASSUME IInv, NEW c \in Callers, OpenFails(c)
    PROVE  IInv'
<1>1. /\ task \in [Callers -> Task] /\ task[c].at = "opening" /\ UNCHANGED <<fresh, session, calling>>
      /\ conn' = [conn EXCEPT ![task[c].s] = "none"]
  BY DEF IInv, Types, OpenFails, At, TornDown
<1>2. CASE MayRenew(c)
  <2>1. Goes(c, "renewing", None) /\ UNCHANGED <<connecting, healthy>> /\ task[c].attempt = 0
    BY <1>2 DEF OpenFails, MayRenew
  <2>2. /\ task' \in [Callers -> Task] /\ \A q \in Callers : q # c => task'[q] = task[q]
        /\ task'[c] \in Task /\ task'[c].at = "renewing" /\ task'[c].s = None
        /\ task'[c].op = task[c].op /\ task'[c].attempt = 0
    BY <1>1, <2>1, Gone
  <2>3. Connects(task'[c]) => connecting' = c /\ session' = None
    BY <1>1, <2>1, <2>2 DEF Connects, Alone, IInv, Locked
  <2>4. ASSUME NEW s \in Sessions, conn'[s] # "none"
        PROVE  s = session' \/ (conn[s] # "none" /\ s # session /\ ~(task[c].s = s /\ Owner(task[c])))
    BY <1>1, <2>4 DEF IInv, Types
  <2>5. conn' \in [Sessions -> {"none", "opening", "open", "broken"}] /\ ~Private(task'[c])
    BY <1>1, <2>2 DEF IInv, Types, Private
  <2> QED BY <1>1, <2>1, <2>2, <2>3, <2>4, <2>5, TaskSteps DEF IInv, Types
<1>3. CASE ~MayRenew(c)
  BY <1>1, <1>3, Leaves DEF OpenFails, Unavailable, TornDown, IInv, Types
<1> QED BY <1>2, <1>3

LEMMA Renewing ==
    ASSUME IInv, NEW c \in Callers, Renewed(c)
    PROVE  IInv'
<1>1. /\ task \in [Callers -> Task] /\ task[c].at = "renewing" /\ UNCHANGED <<fresh, session, locks, healthy>>
      /\ task[c].attempt = 0
  BY DEF IInv, Types, Renewed, At, Locked
<1>2. PICK s \in Forgotten :
        /\ conn' = [conn EXCEPT ![s] = "opening"]
        /\ task' = [task EXCEPT ![c].at = "opening", ![c].s = s, ![c].attempt = @ + 1]
  BY Zenon DEF Renewed
<1>3. s \in Sessions
  BY DEF Forgotten
<1>4. PICK d : d = [[[task[c] EXCEPT !.at = "opening"] EXCEPT !.s = s] EXCEPT !.attempt = task[c].attempt + 1]
  OBVIOUS
<1>5. task' = [task EXCEPT ![c] = d]
  BY <1>2, <1>4
<1>6. d \in Task /\ d.at = "opening" /\ d.s = s /\ d.op = task[c].op
  <2>1. PICK n : n = task[c].attempt + 1
    OBVIOUS
  <2>2. n = 1
    BY <1>1, <2>1
  <2>3. task[c] = [at |-> task[c].at, op |-> task[c].op, s |-> task[c].s, attempt |-> task[c].attempt]
        /\ task[c].op \in {"call", "discover", "aclose"}
    BY <1>1 DEF Task
  <2>4. [task[c] EXCEPT !.at = "opening"]
        = [at |-> "opening", op |-> task[c].op, s |-> task[c].s, attempt |-> task[c].attempt]
    BY <2>3
  <2>5. [[at |-> "opening", op |-> task[c].op, s |-> task[c].s, attempt |-> task[c].attempt] EXCEPT !.s = s]
        = [at |-> "opening", op |-> task[c].op, s |-> s, attempt |-> task[c].attempt]
    OBVIOUS
  <2>6. [[at |-> "opening", op |-> task[c].op, s |-> s, attempt |-> task[c].attempt] EXCEPT !.attempt = n]
        = [at |-> "opening", op |-> task[c].op, s |-> s, attempt |-> n]
    OBVIOUS
  <2>7. d = [at |-> "opening", op |-> task[c].op, s |-> s, attempt |-> n]
    BY <1>4, <2>1, <2>4, <2>5, <2>6, Zenon
  <2> QED BY <1>3, <2>2, <2>3, <2>7 DEF Task
<1>7. task' \in [Callers -> Task] /\ task'[c] = d /\ \A q \in Callers : q # c => task'[q] = task[q]
  BY <1>1, <1>5, <1>6
<1>8. Connects(d) => connecting = c /\ session = None
  BY <1>1, <1>6 DEF Connects, Alone, IInv, Locked
<1>9. ASSUME NEW r \in Sessions, conn'[r] # "none"
      PROVE  r = session' \/ (d.s = r /\ Owner(d))
             \/ (conn[r] # "none" /\ r # session /\ ~(task[c].s = r /\ Owner(task[c])))
  BY <1>1, <1>2, <1>3, <1>6, <1>9 DEF IInv, Types, Owner, Private
<1>10. conn' \in [Sessions -> {"none", "opening", "open", "broken"}]
  BY <1>2 DEF IInv, Types
<1> QED BY <1>1, <1>6, <1>7, <1>8, <1>9, <1>10, TaskSteps DEF IInv, Types, locks

\* A call is sent under the lock of the session.
LEMMA Sends ==
    ASSUME IInv, NEW c \in Callers, Send(c)
    PROVE  IInv'
<1>1. /\ task \in [Callers -> Task] /\ task[c].at = "queued" /\ calling = None /\ calling' = c
      /\ UNCHANGED <<fresh, conn, session, connecting, healthy>> /\ Goes(c, "sent", task[c].s)
  BY DEF IInv, Types, Send, At, CallLockFree
<1>2. task[c].s \in Sessions \cup {None}
  BY <1>1 DEF Task
<1>3. /\ task' \in [Callers -> Task] /\ \A q \in Callers : q # c => task'[q] = task[q]
      /\ task'[c] \in Task /\ task'[c].at = "sent" /\ task'[c].s = task[c].s /\ task'[c].op = task[c].op
  BY <1>1, <1>2, Gone
<1>4. ~Owner(task[c]) /\ ~Connects(task'[c]) /\ ~Private(task'[c])
  BY <1>1, <1>3 DEF Connects, Private, Owner, IInv, Locked, Alone
<1> QED BY <1>1, <1>3, <1>4, TaskSteps DEF IInv, Types

\* A call that failed drops the session.
LEMMA Errors ==
    ASSUME IInv, NEW c \in Callers, Error(c)
    PROVE  IInv'
<1>1. /\ task \in [Callers -> Task] /\ task[c].at = "sent" /\ UNCHANGED <<fresh, connecting>> /\ ReleaseCall(c)
  BY DEF IInv, Types, Error, At
<1>2. CASE OneShot(c)
  BY <1>1, <1>2, Leaves DEF Error, IInv, Types
<1>3. CASE ~OneShot(c)
  <2>1. Resets(c) /\ UNCHANGED conn /\ ~Owner(task[c])
    BY <1>1, <1>3 DEF Error, Owner, Private, Alone, OneShot
  <2>2. calling' \in Callers \cup {None} /\ (calling' = calling \/ calling \in {None, c})
    BY <1>1 DEF ReleaseCall, IInv, Types
  <2>3. CASE session = None
    <3>1. Ends(c) /\ session' = None /\ healthy' \in BOOLEAN
      BY <2>1, <2>3 DEF Resets, IInv, Types
    <3>2. /\ task' \in [Callers -> Task] /\ \A q \in Callers : q # c => task'[q] = task[q]
          /\ task'[c] \in Task /\ task'[c].at = "idle" /\ task'[c].s = None
      BY <1>1, <3>1, Ended
    <3> QED BY <1>1, <2>1, <2>2, <2>3, <3>1, <3>2, Drops
  <2>4. CASE session # None
    <3>1. Goes(c, "closing", session) /\ session' = None /\ healthy' \in BOOLEAN
      BY <2>1, <2>4 DEF Resets, IInv, Types
    <3>2. /\ task' \in [Callers -> Task] /\ \A q \in Callers : q # c => task'[q] = task[q]
          /\ task'[c] \in Task /\ task'[c].at = "closing" /\ task'[c].s = session
      BY <1>1, <3>1, Gone DEF IInv, Types
    <3> QED BY <1>1, <2>1, <2>2, <2>4, <3>1, <3>2, Drops
  <2> QED BY <2>3, <2>4
<1> QED BY <1>2, <1>3

\* The operations that end: answered, timed out, torn down, listed, refused.
LEMMA Finishes ==
    ASSUME IInv, NEW c \in Callers,
           NotRenewed(c) \/ Answer(c) \/ Timeout(c) \/ Closed(c) \/ Listed(c) \/ Cancel(c)
    PROVE  IInv'
<1>1. Ends(c) /\ UNCHANGED <<fresh, session>>
  BY DEF NotRenewed, Unavailable, Answer, Timeout, Closed, Listed, Cancel, locks
<1>2. healthy' \in BOOLEAN
  BY DEF NotRenewed, Unavailable, Answer, Timeout, Closed, Listed, Cancel, locks, IInv, Types
<1>3. TornDown(c) \/ (UNCHANGED conn /\ ~Owner(task[c]))
  BY DEF NotRenewed, Answer, Timeout, Closed, Listed, Cancel, At, OneShot, Owner, Private, Alone
<1>4. (UNCHANGED connecting \/ ReleaseConnect(c)) /\ (UNCHANGED calling \/ ReleaseCall(c))
  BY DEF NotRenewed, Unavailable, Answer, Timeout, Closed, Listed, Cancel, locks
<1> QED BY <1>1, <1>2, <1>3, <1>4, Leaves

\* A server dies, or nothing happens.
LEMMA Elsewhere ==
    ASSUME IInv, (\E s \in Sessions : Dies(s)) \/ UNCHANGED vars
    PROVE  IInv'
<1>1. /\ UNCHANGED <<fresh, session, connecting, calling, healthy, task>>
      /\ conn' \in [Sessions -> {"none", "opening", "open", "broken"}]
      /\ \A r \in Sessions : conn'[r] # "none" => conn[r] # "none"
  BY DEF IInv, Types, Dies, vars, locks
<1>2. Types' /\ \A s \in Sessions : Kept(s)'
  BY <1>1 DEF IInv, Types, Kept, Owner, Private, Alone
<1>3. \A c \in Callers : Locked(c)' /\ Unshared(c)'
  BY <1>1 DEF IInv, Locked, Unshared, Connects, Private, Alone
<1> QED BY <1>2, <1>3 DEF IInv

LEMMA Starts == Init => IInv
<1> SUFFICES ASSUME Init PROVE IInv
  OBVIOUS
<1>1. Types
  BY DEF Init, Types, Idle, Task
<1>2. \A c \in Callers : task[c].at = "idle"
  BY DEF Init, Idle
<1>3. \A s \in Sessions : conn[s] = "none"
  BY DEF Init
<1> QED BY <1>1, <1>2, <1>3 DEF IInv, Locked, Unshared, Kept, Connects, Private

LEMMA Inductive == Spec => []IInv
<1>1. ASSUME IInv, [Next]_vars
      PROVE  IInv'
  BY <1>1, Begins, Closes, TakesConnect, Opening, OpeningFails, Renewing, Sends, Errors, Finishes, Elsewhere
  DEF Next
<1> QED BY <1>1, Starts, PTL DEF Spec

-----------------------------------------------------------------------------

\* The state keeps its types, and no connect is tried a third time (_connect).
THEOREM TypeCorrect == Spec => []TypeOK
<1>1. IInv => TypeOK
  BY DEF IInv, Types, TypeOK
<1> QED BY <1>1, Inductive, PTL

\* Whatever is open is the adapter's session, or some task's to keep or tear down,
\* whoever is cancelled (_ensure_session, _open, _reset).
THEOREM NothingIsLost == Spec => []NoLostTransport
<1>1. IInv => NoLostTransport
  BY DEF IInv, Kept, NoLostTransport, Owner, Private, Alone, At, OneShot
<1> QED BY <1>1, Inductive, PTL

\* Nobody opens a session to share while there is one (_ensure_session).
THEOREM ConnectsOnce == Spec => []OneConnect
<1>1. IInv => OneConnect
  BY DEF IInv, OneConnect, Locked, Connects, Alone, At, OneShot
<1> QED BY <1>1, Inductive, PTL

\* No two calls are on one stream: the lock keeps those that share it apart, and a
\* session of one's own is in nobody else's hands (_execute_persistent).
THEOREM StreamsAreNotShared == Spec => []CallsTakeTurns
<1>1. ASSUME IInv, NEW c \in Callers, NEW d \in Callers, task[c].at = "sent", task[d].at = "sent",
             task[c].s = task[d].s
      PROVE  c = d
  <2>1. CASE Alone(task[c]) \/ Alone(task[d])
    BY <1>1, <2>1 DEF IInv, Unshared, Private
  <2>2. CASE ~Alone(task[c]) /\ ~Alone(task[d])
    BY <1>1, <2>2 DEF IInv, Locked
  <2> QED BY <2>1, <2>2
<1>2. IInv => CallsTakeTurns
  BY <1>1 DEF CallsTakeTurns, At
<1> QED BY <1>2, Inductive, PTL

\* No transport is left behind or opened twice, and no two calls share a stream
\* (_ensure_session, _execute_persistent).
THEOREM SessionIsSound == Spec => []SessionSound
BY TypeCorrect, NothingIsLost, ConnectsOnce, StreamsAreNotShared, PTL DEF SessionSound

=============================================================================
