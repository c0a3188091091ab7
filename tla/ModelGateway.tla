----------------------------- MODULE ModelGateway -----------------------------
(***************************************************************************)
(* The pool of model adapters and the calls that go through it             *)
(* (ModelGateway in arcana/models/gateway.py).                             *)
(*                                                                         *)
(* A call takes the lock of its connection to find or connect the pooled   *)
(* adapter, fast-fails while the adapter is in its cooldown, and then      *)
(* tries it up to MaxRetries + 1 times.  Every await lets the other calls, *)
(* and a close of the whole gateway, run.                                  *)
(*                                                                         *)
(* The adapters are external: they connect or not, answer, stream, fail    *)
(* in a way that may be retried or not, and fail when they are closed.     *)
(***************************************************************************)
EXTENDS Integers, FiniteSets

CONSTANTS
    Callers,      \* tasks calling models
    Keys,         \* connection identities: the keys of the cache
    Adapters,     \* names for the adapters that exist at one time
    NoAdapter,
    MaxRetries,   \* RetryPolicy.max_retries
    Cooldown,     \* ticks an adapter is out after an exhausted call
    MaxCloses     \* bound: closes of the gateway in a behaviour

ASSUME GatewayAssumption ==
    /\ NoAdapter \notin Adapters
    /\ MaxRetries \in Nat /\ Cooldown \in Nat /\ MaxCloses \in Nat

VARIABLES
    cache,      \* cache[k]: the adapter pooled for k, or NoAdapter
    entry,      \* entry[a]: the adapter a and its _CacheEntry
    epoch,      \* how often _cache_locks was cleared: a lock is a key and an epoch
    task,       \* task[c]: the call of c; heard: the attempts its consumer had chunks of
    closer      \* the task in aclose

vars == <<cache, entry, epoch, task, closer>>

Kinds == {"complete", "stream", "health"}

\* downFor: time since unhealthy_since, up to the cooldown.
Entry == [life: {"gone", "connecting", "open", "closed"}, healthy: BOOLEAN, downFor: 0..Cooldown]

Fresh(life) == [life |-> life, healthy |-> TRUE, downFor |-> 0]

IsOpen(a) == ~entry[a].healthy /\ entry[a].downFor < Cooldown

MarkHealthy(a) == entry' = [entry EXCEPT ![a].healthy = TRUE, ![a].downFor = 0]
MarkUnhealthy(a) == entry' = [entry EXCEPT ![a].healthy = FALSE, ![a].downFor = 0]

Busy == {"locking", "connecting", "probing", "calling", "sleeping", "billing"}

Init ==
    /\ cache = [k \in Keys |-> NoAdapter]
    /\ entry = [a \in Adapters |-> Fresh("gone")]
    /\ epoch = 0
    /\ task = [c \in Callers |-> [at |-> "idle"]]
    /\ closer = [at |-> "none", todo |-> {}, size |-> 0]

At(c, where) == task[c].at = where

\* c's call goes on at another place, or returns to its caller.
Goes(c, where) == task' = [task EXCEPT ![c].at = where]

Returns(c, outcome) ==
    task' = [task EXCEPT ![c] = [at |-> "returned", outcome |-> outcome,
                                 billed |-> task[c].billed]]

-----------------------------------------------------------------------------
(* Bugs this code could have.  The model uses none of them: each takes the
   place of a definition below to see that a property notices. *)

\* The adapter is connected without the lock of its key.
Unlocked(c) == TRUE

\* A failure is retried although chunks were already delivered.
NeverSurfaces(c) == FALSE

\* Every failed attempt of a call is billed.
BilledOnFailure(c) == task[c].billed + 1

\* A call that finds its adapter in cooldown starts the cooldown anew.
FastFailExtends(c, a) ==
    Returns(c, "cooldown") /\ MarkUnhealthy(a)

\* One attempt more than the policy grants; a retry that is not counted.
RetriesOnceMore(c) == task[c].attempt <= MaxRetries
SameAttempt(c) == task[c].attempt

\* The closed adapters stay in the cache.
CacheKept == UNCHANGED cache

-----------------------------------------------------------------------------
(* _get_cache_entry *)

Begin(c, kind, k) ==
    /\ task[c].at \in {"idle", "returned"}
    /\ task' = [task EXCEPT ![c] = [at |-> "locking", kind |-> kind, key |-> k, epoch |-> epoch,
                                    adapter |-> NoAdapter, attempt |-> 0, heard |-> {}, billed |-> 0]]
    /\ UNCHANGED <<cache, entry, epoch, closer>>

\* A lock is held by the task that connects under it.
LockFree(c) ==
    ~ \E d \in Callers :
        /\ At(d, "connecting")
        /\ task[d].key = task[c].key /\ task[d].epoch = task[c].epoch

FastFail(c, a) ==
    Returns(c, "cooldown") /\ UNCHANGED entry

UseEntry(c, a) ==
    \/ /\ task[c].kind = "health"
       /\ task' = [task EXCEPT ![c].at = "probing", ![c].adapter = a]
       /\ UNCHANGED entry
    \/ /\ task[c].kind # "health" /\ ~IsOpen(a)
       /\ task' = [task EXCEPT ![c].at = "calling", ![c].adapter = a]
       /\ UNCHANGED entry
    \/ /\ task[c].kind # "health" /\ IsOpen(a)
       /\ FastFail(c, a)

\* The lock is free and the key is pooled: the lock is taken and released in
\* one step, and the call goes on with the entry.
Hit(c) ==
    /\ At(c, "locking") /\ LockFree(c)
    /\ cache[task[c].key] # NoAdapter
    /\ UseEntry(c, cache[task[c].key])
    /\ UNCHANGED <<cache, epoch, closer>>

Unused == {a \in Adapters : entry[a].life = "gone"}

Miss(c) ==
    /\ At(c, "locking") /\ LockFree(c)
    /\ cache[task[c].key] = NoAdapter
    /\ Unused # {}
    /\ LET a == CHOOSE x \in Unused : TRUE
       IN  /\ entry' = [entry EXCEPT ![a] = Fresh("connecting")]
           /\ task' = [task EXCEPT ![c].at = "connecting", ![c].adapter = a]
    /\ UNCHANGED <<cache, epoch, closer>>

\* The adapter is connected and pooled, and the call goes on with it.
Connected(c) ==
    LET a == task[c].adapter
    IN  /\ At(c, "connecting")
        /\ cache' = [cache EXCEPT ![task[c].key] = a]
        /\ entry' = [entry EXCEPT ![a] = Fresh("open")]
        /\ Goes(c, IF task[c].kind = "health" THEN "probing" ELSE "calling")
        /\ UNCHANGED <<epoch, closer>>

\* connect raises, or the provider or its credentials are missing.
ConnectFails(c) ==
    /\ At(c, "connecting")
    /\ entry' = [entry EXCEPT ![task[c].adapter] = Fresh("gone")]
    /\ Returns(c, "failed")
    /\ UNCHANGED <<cache, epoch, closer>>

-----------------------------------------------------------------------------
(* health of one connection *)

Probed(c) ==
    /\ At(c, "probing")
    /\ \/ entry[task[c].adapter].life = "open" /\ MarkHealthy(task[c].adapter)
       \/ UNCHANGED entry
    /\ Returns(c, "probed")
    /\ UNCHANGED <<cache, epoch, closer>>

-----------------------------------------------------------------------------
(* The retry loops of complete and stream *)

Chunk(c) ==
    /\ At(c, "calling") /\ task[c].kind = "stream"
    /\ entry[task[c].adapter].life = "open"
    /\ task' = [task EXCEPT ![c].heard = @ \cup {task[c].attempt}]
    /\ UNCHANGED <<cache, entry, epoch, closer>>

\* The response, or the end of the stream: the cost sink is called at once and
\* then awaited.
Answered(c) ==
    /\ At(c, "calling")
    /\ entry[task[c].adapter].life = "open"
    /\ MarkHealthy(task[c].adapter)
    /\ task' = [task EXCEPT ![c].at = "billing", ![c].billed = @ + 1]
    /\ UNCHANGED <<cache, epoch, closer>>

\* What the sink raises is swallowed.
Billed(c) ==
    /\ At(c, "billing")
    /\ Returns(c, "ok")
    /\ UNCHANGED <<cache, entry, epoch, closer>>

\* A stream that has begun cannot be replayed.
Surfaces(c) == task[c].attempt \in task[c].heard

RetriesLeft(c) == task[c].attempt < MaxRetries

BilledSoFar(c) == task[c].billed

\* A transient failure; unavailable: the kind that puts an exhausted adapter in
\* its cooldown.  The loop also ends when its total timeout is used up.
Retryable(c, unavailable) ==
    /\ At(c, "calling")
    /\ \/ /\ ~Surfaces(c) /\ RetriesLeft(c)
          /\ task' = [task EXCEPT ![c].at = "sleeping", ![c].billed = BilledSoFar(c)]
          /\ UNCHANGED entry
       \/ /\ ~Surfaces(c)   \* attempts or time used up
          /\ Returns(c, "failed")
          /\ IF unavailable THEN MarkUnhealthy(task[c].adapter) ELSE UNCHANGED entry
       \/ /\ Surfaces(c)
          /\ Returns(c, "failed")
          /\ UNCHANGED entry
    /\ UNCHANGED <<cache, epoch, closer>>

\* Any other error, that of a closed adapter included, surfaces at once.
Fatal(c) ==
    /\ At(c, "calling")
    /\ Returns(c, "failed")
    /\ UNCHANGED <<cache, entry, epoch, closer>>

NextAttempt(c) == task[c].attempt + 1

\* The backoff is over.
Wake(c) ==
    /\ At(c, "sleeping")
    /\ task' = [task EXCEPT ![c].at = "calling", ![c].attempt = NextAttempt(c)]
    /\ UNCHANGED <<cache, entry, epoch, closer>>

\* The caller is cancelled, or a consumer closes its stream, at any await.
Abandon(c) ==
    /\ task[c].at \in Busy
    /\ entry' = IF At(c, "connecting")
                THEN [entry EXCEPT ![task[c].adapter] = Fresh("gone")] ELSE entry
    /\ Returns(c, "abandoned")
    /\ UNCHANGED <<cache, epoch, closer>>

-----------------------------------------------------------------------------
(* aclose walks the cache, awaiting each adapter.  The walk raises when an
   adapter does, or when a connect has added a key meanwhile; then the cache is
   left as it is. *)

Pooled == {k \in Keys : cache[k] # NoAdapter}

NotClosing == [at |-> "none", todo |-> {}, size |-> 0]

CacheCleared == cache' = [k \in Keys |-> NoAdapter]

ClearPool ==
    /\ CacheCleared
    /\ epoch' = epoch + 1
    /\ closer' = NotClosing

CloseBegin(k) ==
    /\ closer.at # "closing" /\ epoch < MaxCloses
    /\ k \in Pooled
    /\ closer' = [at |-> "closing", todo |-> Pooled \ {k}, size |-> Cardinality(Pooled)]
    /\ entry' = [entry EXCEPT ![cache[k]].life = "closed"]
    /\ UNCHANGED <<cache, epoch, task>>

CloseEmpty ==
    /\ closer.at # "closing" /\ epoch < MaxCloses
    /\ Pooled = {}
    /\ ClearPool
    /\ UNCHANGED <<entry, task>>

CloseOne(k) ==
    /\ closer.at = "closing" /\ k \in closer.todo
    /\ Cardinality(Pooled) = closer.size
    /\ entry' = [entry EXCEPT ![cache[k]].life = "closed"]
    /\ closer' = [closer EXCEPT !.todo = @ \ {k}]
    /\ UNCHANGED <<cache, epoch, task>>

CloseRaises ==
    /\ closer.at = "closing"
    /\ closer' = [NotClosing EXCEPT !.at = "raised"]
    /\ UNCHANGED <<cache, entry, epoch, task>>

CloseEnd ==
    /\ closer.at = "closing" /\ closer.todo = {}
    /\ Cardinality(Pooled) = closer.size
    /\ ClearPool
    /\ UNCHANGED <<entry, task>>

\* The monotonic clock.
Tick ==
    /\ entry' = [a \in Adapters |->
                   IF ~entry[a].healthy /\ entry[a].downFor < Cooldown
                   THEN [entry[a] EXCEPT !.downFor = @ + 1] ELSE entry[a]]
    /\ UNCHANGED <<cache, epoch, task, closer>>

\* An adapter nobody refers to any more is collected: one that was closed, or
\* one that a connect under a stale lock has replaced in the pool.
Collect(a) ==
    /\ entry[a].life \in {"open", "closed"}
    /\ \A k \in Keys : cache[k] # a
    /\ \A c \in Callers : task[c].at \in Busy => task[c].adapter # a
    /\ entry' = [entry EXCEPT ![a] = Fresh("gone")]
    /\ UNCHANGED <<cache, epoch, task, closer>>

Next ==
    \/ \E c \in Callers, kind \in Kinds, k \in Keys : Begin(c, kind, k)
    \/ \E c \in Callers : Hit(c)
    \/ \E c \in Callers : Miss(c)
    \/ \E c \in Callers : Connected(c)
    \/ \E c \in Callers : ConnectFails(c)
    \/ \E c \in Callers : Probed(c)
    \/ \E c \in Callers : Chunk(c)
    \/ \E c \in Callers : Answered(c)
    \/ \E c \in Callers : Billed(c)
    \/ \E c \in Callers, unavailable \in BOOLEAN : Retryable(c, unavailable)
    \/ \E c \in Callers : Fatal(c)
    \/ \E c \in Callers : Wake(c)
    \/ \E c \in Callers : Abandon(c)
    \/ \E k \in Keys : CloseBegin(k)
    \/ CloseEmpty
    \/ \E k \in Keys : CloseOne(k)
    \/ CloseRaises
    \/ CloseEnd
    \/ Tick
    \/ \E a \in Adapters : Collect(a)

Spec == Init /\ [][Next]_vars

\* A call that has no lock to wait for goes on.
Advances(c) ==
    \/ Connected(c) \/ ConnectFails(c)
    \/ Probed(c)
    \/ Answered(c) \/ Fatal(c) \/ \E u \in BOOLEAN : Retryable(c, u)
    \/ Billed(c)
    \/ Wake(c)

\* The loop wakes sleepers and hands a lock to its waiters in turn; adapters
\* answer or fail within the timeouts of their HTTP clients; time passes; what
\* nobody refers to is collected.
Fairness ==
    /\ WF_vars(Tick)
    /\ WF_vars(\E a \in Adapters : Collect(a))
    /\ \A c \in Callers :
         /\ SF_vars(Hit(c) \/ Miss(c))
         /\ WF_vars(Advances(c))

FairSpec == Spec /\ Fairness

-----------------------------------------------------------------------------
(* Properties *)

\* Every variable keeps the values the code can give it; a call never makes
\* more attempts than its policy grants.
TypeOK ==
    /\ cache \in [Keys -> Adapters \cup {NoAdapter}]
    /\ entry \in [Adapters -> Entry]
    /\ epoch \in 0..MaxCloses
    /\ \A c \in Callers :
         /\ task[c].at \in {"idle", "returned"} \cup Busy
         /\ task[c].at \in Busy =>
              /\ task[c].kind \in Kinds /\ task[c].key \in Keys /\ task[c].epoch \in 0..epoch
              /\ task[c].adapter \in Adapters \/ At(c, "locking")
              /\ task[c].attempt \in 0..MaxRetries /\ task[c].heard \subseteq 0..MaxRetries
    /\ closer.at \in {"none", "closing", "raised"} /\ closer.todo \subseteq Keys

\* The adapters of k that are connected or being connected.
Live(k) == {a \in Adapters :
              \/ cache[k] = a /\ entry[a].life = "open"
              \/ \E c \in Callers : /\ task[c].at \in Busy \ {"locking"}
                                     /\ task[c].key = k /\ task[c].adapter = a
                                     /\ entry[a].life \in {"connecting", "open"}}

\* Until the gateway has been closed once, the calls of a connection share one
\* adapter, however many of them start together (_get_cache_entry).
OneAdapterPerKey ==
    epoch = 0 => \A k \in Keys : Cardinality(Live(k)) <= 1

\* A consumer never receives chunks of two attempts: what was delivered is not
\* replayed (stream: retry applies only before the first token).
NoReplay ==
    \A c \in Callers :
        task[c].at \in Busy => Cardinality(task[c].heard) <= 1

\* A call that returns an answer was billed once, one that failed was not
\* billed, and one that was abandoned at most once, whatever was retried in
\* between (complete, _retry_stream).
BilledIffAnswered ==
    \A c \in Callers :
        task[c].at = "returned" =>
            task[c].billed \in CASE task[c].outcome = "ok"        -> {1}
                                 [] task[c].outcome = "abandoned" -> {0, 1}
                                 [] OTHER                         -> {0}

\* Within the attempts its policy grants, a call is heard once and billed once
\* (complete, stream).
AnsweredOnce == TypeOK /\ NoReplay /\ BilledIffAnswered

\* Except in the middle of a close, and after one that raised, what is pooled
\* is usable: a call never gets an adapter that was closed before it (aclose).
CacheHoldsOpen ==
    closer.at = "none" => \A k \in Pooled : entry[cache[k]].life = "open"

\* Neither a race of connects nor a close leaves the pool with two adapters of
\* one connection or one of no use (_get_cache_entry, aclose).
CacheSound == OneAdapterPerKey /\ CacheHoldsOpen

\* Every call returns, as long as its adapter answers or fails: neither the
\* locks nor the retries hold it for ever.  And no adapter stays in its cooldown
\* for ever, also while calls keep failing fast on it.
CallsEnd ==
    /\ \A c \in Callers : task[c].at \in Busy ~> task[c].at = "returned"
    /\ \A a \in Adapters : []<>~IsOpen(a)

=============================================================================
