--------------------------- MODULE ModelGatewayProofs ---------------------------
(***************************************************************************)
(* Safety of the gateway for any number of calls, connections, adapters    *)
(* and retries.                                                            *)
(***************************************************************************)
EXTENDS ModelGateway, FiniteSetTheorems, TLAPS

Outcomes == {"ok", "cooldown", "failed", "probed", "abandoned"}

Call == [at : Busy, kind : Kinds, key : Keys, epoch : Nat, adapter : Adapters \cup {NoAdapter},
         attempt : 0..MaxRetries, heard : SUBSET (0..MaxRetries), billed : {0, 1}]
Past == [at : {"returned"}, outcome : Outcomes, billed : {0, 1}]
Tasks == Call \cup Past \cup [at : {"idle"}]

Types ==
    /\ cache \in [Keys -> Adapters \cup {NoAdapter}]
    /\ entry \in [Adapters -> Entry]
    /\ task \in [Callers -> Tasks]
    /\ epoch \in Nat
    /\ closer.at \in {"none", "closing", "raised"} /\ closer.todo \subseteq Keys
    /\ closer = [at |-> closer.at, todo |-> closer.todo, size |-> closer.size]

\* What a call has heard and was billed follows from where it is.
Local(c) ==
    /\ task[c].at \in Busy =>
         /\ task[c].heard \subseteq {task[c].attempt}
         /\ task[c].at \notin {"calling", "billing"} => task[c].heard = {}
         /\ task[c].at = "sleeping" => task[c].attempt < MaxRetries
         /\ task[c].billed = IF task[c].at = "billing" THEN 1 ELSE 0
         /\ task[c].at # "locking" => task[c].adapter \in Adapters
         /\ task[c].epoch <= epoch
    /\ task[c].at = "returned" =>
         /\ task[c].outcome = "ok" => task[c].billed = 1
         /\ task[c].outcome \notin {"ok", "abandoned"} => task[c].billed = 0

\* A close that is under way was counted for.
Counted == epoch <= MaxCloses /\ (closer.at = "closing" => epoch < MaxCloses)

\* An adapter is connected by one call, and pooled only when it is connected.
Lives ==
    /\ \A k \in Keys : cache[k] # NoAdapter => entry[cache[k]].life \in {"open", "closed"}
    /\ \A c \in Callers : At(c, "connecting") => entry[task[c].adapter].life = "connecting"
    /\ \A c, d \in Callers :
         At(c, "connecting") /\ At(d, "connecting") /\ task[c].adapter = task[d].adapter => c = d

\* A close has still to walk over adapters that are pooled.
Walking == closer.at = "closing" => closer.todo \subseteq Pooled

\* Before the first close every call uses what is pooled for its key, and one
\* call of a key connects while nothing is pooled.
Shared ==
    epoch = 0 =>
        \A c \in Callers :
            /\ At(c, "connecting") =>
                 /\ cache[task[c].key] = NoAdapter
                 /\ \A d \in Callers : At(d, "connecting") /\ task[d].key = task[c].key => d = c
            /\ task[c].at \in Busy \ {"locking", "connecting"} => cache[task[c].key] = task[c].adapter

IInv ==
    /\ Types
    /\ \A c \in Callers : Local(c)
    /\ Counted
    /\ Lives
    /\ CacheHoldsOpen
    /\ Shared
    /\ Walking

-----------------------------------------------------------------------------
(* Steps of one call *)

Others(c) == \A d \in Callers \ {c} : task'[d] = task[d]

\* A call that is under way has all its fields.
LEMMA BusyIsCall ==
    ASSUME Types, NEW c \in Callers
    PROVE  task[c].at \in Busy <=> task[c] \in Call
<1>1. task[c] \in Tasks
  BY DEF Types
<1> QED BY <1>1 DEF Tasks, Call, Past, Busy

\* A call that goes elsewhere is the same call otherwise (_Goes_ and the
\* assignments of complete and stream).
LEMMA GoesOn ==
    ASSUME Types, NEW c \in Callers, task[c] \in Call, NEW where \in Busy, Goes(c, where)
    PROVE  /\ task' \in [Callers -> Tasks] /\ task'[c] \in Call /\ Others(c)
           /\ task'[c].at = where
           /\ task'[c].kind = task[c].kind /\ task'[c].key = task[c].key
           /\ task'[c].epoch = task[c].epoch /\ task'[c].adapter = task[c].adapter
           /\ task'[c].attempt = task[c].attempt /\ task'[c].heard = task[c].heard
           /\ task'[c].billed = task[c].billed
<1> DEFINE r == [task[c] EXCEPT !.at = where]
<1>1. r \in Call
  BY Zenon DEF Call
<1>2. /\ r.at = where /\ r.kind = task[c].kind /\ r.key = task[c].key /\ r.epoch = task[c].epoch
      /\ r.adapter = task[c].adapter /\ r.attempt = task[c].attempt /\ r.heard = task[c].heard
      /\ r.billed = task[c].billed
  BY DEF Call
<1>3. task' = [task EXCEPT ![c] = r]
  BY Zenon DEF Goes
<1> HIDE DEF r
<1> QED BY <1>1, <1>2, <1>3 DEF Types, Tasks, Others

\* A call that returns keeps what it was billed.
LEMMA ReturnsPast ==
    ASSUME Types, NEW c \in Callers, task[c] \in Call, NEW outcome \in Outcomes, Returns(c, outcome)
    PROVE  /\ task' \in [Callers -> Tasks] /\ Others(c)
           /\ task'[c].at = "returned" /\ task'[c].outcome = outcome
           /\ task'[c].billed = task[c].billed
<1> DEFINE r == [at |-> "returned", outcome |-> outcome, billed |-> task[c].billed]
<1>1. r \in Past
  BY DEF Past, Call
<1>2. r.at = "returned" /\ r.outcome = outcome /\ r.billed = task[c].billed
  OBVIOUS
<1>3. task' = [task EXCEPT ![c] = r]
  BY DEF Returns
<1> HIDE DEF r
<1> QED BY <1>1, <1>2, <1>3 DEF Types, Tasks, Others

-----------------------------------------------------------------------------
(* Steps of an adapter *)

\* The health marks do not touch the life of an adapter.
LEMMA Marked ==
    ASSUME Types, NEW a \in Adapters, MarkHealthy(a) \/ MarkUnhealthy(a)
    PROVE  entry' \in [Adapters -> Entry] /\ \A b \in Adapters : entry'[b].life = entry[b].life
<1>1. 0 \in 0..Cooldown
  BY GatewayAssumption
<1>2. \A h \in BOOLEAN : LET r == [entry[a] EXCEPT !.healthy = h, !.downFor = 0]
                         IN  r \in Entry /\ r.life = entry[a].life
  BY <1>1 DEF Types, Entry
<1>3. PICK h \in BOOLEAN : entry' = [entry EXCEPT ![a] = [entry[a] EXCEPT !.healthy = h, !.downFor = 0]]
  <2>1. CASE MarkHealthy(a)
    BY <2>1, TRUE \in BOOLEAN, Zenon DEF MarkHealthy, Types
  <2>2. CASE MarkUnhealthy(a)
    BY <2>2, FALSE \in BOOLEAN, Zenon DEF MarkUnhealthy, Types
  <2> QED BY <2>1, <2>2
<1> DEFINE r == [entry[a] EXCEPT !.healthy = h, !.downFor = 0]
<1>4. r \in Entry /\ r.life = entry[a].life
  BY <1>2
<1>5. entry' = [entry EXCEPT ![a] = r]
  BY <1>3
<1> HIDE DEF r
<1> QED BY <1>4, <1>5 DEF Types

\* An adapter that closes stays what it was otherwise.
LEMMA Closes ==
    ASSUME Types, NEW a \in Adapters, entry' = [entry EXCEPT ![a].life = "closed"]
    PROVE  /\ entry' \in [Adapters -> Entry] /\ entry'[a].life = "closed"
           /\ \A b \in Adapters \ {a} : entry'[b] = entry[b]
<1> DEFINE r == [entry[a] EXCEPT !.life = "closed"]
<1>1. r \in Entry /\ r.life = "closed"
  BY DEF Types, Entry
<1>2. entry' = [entry EXCEPT ![a] = r]
  BY Zenon DEF Types
<1> HIDE DEF r
<1> QED BY <1>1, <1>2 DEF Types

\* An adapter that is made, connected or given up starts healthy.
LEMMA Renewed ==
    ASSUME Types, NEW a \in Adapters, NEW life \in {"gone", "connecting", "open"},
           entry' = [entry EXCEPT ![a] = Fresh(life)]
    PROVE  /\ entry' \in [Adapters -> Entry] /\ entry'[a].life = life
           /\ \A b \in Adapters \ {a} : entry'[b] = entry[b]
<1>1. Fresh(life) \in Entry /\ Fresh(life).life = life
  BY GatewayAssumption DEF Fresh, Entry
<1> QED BY <1>1 DEF Types

\* Time does not touch the life of an adapter.
LEMMA Ticks ==
    ASSUME Types, Tick
    PROVE  entry' \in [Adapters -> Entry] /\ \A b \in Adapters : entry'[b].life = entry[b].life
<1>1. SUFFICES ASSUME NEW b \in Adapters
               PROVE  entry'[b] \in Entry /\ entry'[b].life = entry[b].life
  BY <1>1 DEF Tick
<1>2. CASE ~entry[b].healthy /\ entry[b].downFor < Cooldown
  <2> DEFINE r == [entry[b] EXCEPT !.downFor = @ + 1]
  <2>1. r \in Entry /\ r.life = entry[b].life
    BY <1>2, GatewayAssumption DEF Types, Entry
  <2>2. entry'[b] = r
    BY <1>2 DEF Tick
  <2> QED BY <2>1, <2>2
<1>3. CASE ~(~entry[b].healthy /\ entry[b].downFor < Cooldown)
  BY <1>3 DEF Tick, Types
<1> QED BY <1>2, <1>3

-----------------------------------------------------------------------------
(* Types, and what a call heard and was billed *)

\* A call that moved and is sound there leaves every call sound, while no lock
\* is renewed.
LEMMA LocalKept ==
    ASSUME NEW c \in Callers, Types, \A d \in Callers : Local(d), Others(c), Local(c)', epoch' = epoch
    PROVE  \A d \in Callers : Local(d)'
<1> TAKE d \in Callers
<1>1. CASE d = c
  BY <1>1
<1>2. CASE d # c
  BY <1>2 DEF Others, Local
<1> QED BY <1>1, <1>2

\* The steps of a call keep types and what is local to a call.
LEMMA CallerStep ==
    ASSUME IInv, NEW c \in Callers,
           \/ \E kind \in Kinds, k \in Keys : Begin(c, kind, k)
           \/ Hit(c) \/ Miss(c) \/ Connected(c) \/ ConnectFails(c) \/ Probed(c) \/ Chunk(c)
           \/ Answered(c) \/ Billed(c) \/ (\E u \in BOOLEAN : Retryable(c, u)) \/ Fatal(c)
           \/ Wake(c) \/ Abandon(c)
    PROVE  Types' /\ Counted' /\ (\A d \in Callers : Local(d)') /\ Others(c)
<1> USE DEF IInv
<1>. DEFINE Good == task' \in [Callers -> Tasks] /\ Others(c) /\ Local(c)'
           Kept == entry' \in [Adapters -> Entry] /\ cache' \in [Keys -> Adapters \cup {NoAdapter}]
                   /\ epoch' = epoch /\ closer' = closer
<1>c. task[c].at \in Busy => task[c] \in Call
  BY BusyIsCall
<1>a. task[c] \in Call /\ task[c].at # "locking" => task[c].adapter \in Adapters
  BY <1>c DEF Local, Call
<1>1. ASSUME NEW kind \in Kinds, NEW k \in Keys, Begin(c, kind, k)
      PROVE  Good /\ Kept
  <2> DEFINE r == [at |-> "locking", kind |-> kind, key |-> k, epoch |-> epoch,
                   adapter |-> NoAdapter, attempt |-> 0, heard |-> {}, billed |-> 0]
  <2>1. 0 \in 0..MaxRetries
    BY GatewayAssumption
  <2>2. r \in Call
    BY <2>1 DEF Call, Busy, Types
  <2>3. r.at = "locking" /\ r.heard = {} /\ r.billed = 0 /\ r.epoch = epoch
    OBVIOUS
  <2>4. task' = [task EXCEPT ![c] = r]
    BY <1>1 DEF Begin
  <2> HIDE DEF r
  <2>5. task'[c] = r
    BY <2>4 DEF Types
  <2>6. Local(c)'
    BY <1>1, <2>3, <2>5 DEF Begin, Local, Types
  <2> QED BY <1>1, <2>2, <2>4, <2>6 DEF Begin, Others, Tasks, Types
<1>2. ASSUME Hit(c)
      PROVE  Good /\ Kept
  <2> DEFINE a == cache[task[c].key]
  <2>1. task[c] \in Call /\ At(c, "locking") /\ a \in Adapters
    BY <1>2, <1>c DEF Hit, At, Busy, Types, Call
  <2>2. ASSUME NEW where \in {"probing", "calling"},
               task' = [task EXCEPT ![c].at = where, ![c].adapter = a], UNCHANGED entry
        PROVE  Good
    <3> DEFINE r == [task[c] EXCEPT !.at = where, !.adapter = a]
    <3>1. r \in Call
      BY <2>1, Zenon DEF Call, Busy
    <3>2. /\ r.at = where /\ r.adapter = a /\ r.heard = task[c].heard /\ r.billed = task[c].billed
          /\ r.attempt = task[c].attempt /\ r.epoch = task[c].epoch
      BY <2>1 DEF Call
    <3>3. task' = [task EXCEPT ![c] = r]
      BY <2>2, Zenon DEF Types
    <3> HIDE DEF r
    <3>4. task'[c] = r
      BY <3>3 DEF Types
    <3>5. Local(c)'
      BY <1>2, <2>1, <3>2, <3>4 DEF Hit, Local, At, Busy
    <3> QED BY <3>1, <3>3, <3>5 DEF Others, Tasks, Types
  <2>3. ASSUME FastFail(c, a)
        PROVE  Good
    <3>1. /\ task' \in [Callers -> Tasks] /\ Others(c) /\ task'[c].at = "returned"
          /\ task'[c].outcome = "cooldown" /\ task'[c].billed = task[c].billed
      BY <2>1, <2>3, ReturnsPast DEF FastFail, Outcomes
    <3> QED BY <2>1, <3>1 DEF Local, At, Busy
  <2>4. entry' = entry
    BY <1>2 DEF Hit, UseEntry, FastFail
  <2> QED BY <1>2, <2>2, <2>3, <2>4 DEF Hit, UseEntry, Types
<1>3. ASSUME Miss(c)
      PROVE  Good /\ Kept
  <2>1. task[c] \in Call /\ At(c, "locking")
    BY <1>3, <1>c DEF Miss, At, Busy
  <2>2. PICK a \in Adapters : /\ entry' = [entry EXCEPT ![a] = Fresh("connecting")]
                               /\ task' = [task EXCEPT ![c].at = "connecting", ![c].adapter = a]
    BY <1>3 DEF Miss, Unused
  <2> DEFINE r == [task[c] EXCEPT !.at = "connecting", !.adapter = a]
  <2>3. r \in Call
    BY <2>1, Zenon DEF Call, Busy
  <2>4. /\ r.at = "connecting" /\ r.adapter = a /\ r.heard = task[c].heard /\ r.billed = task[c].billed
        /\ r.attempt = task[c].attempt /\ r.epoch = task[c].epoch
    BY <2>1 DEF Call
  <2>5. task' = [task EXCEPT ![c] = r]
    BY <2>2, Zenon DEF Types
  <2> HIDE DEF r
  <2>6. task'[c] = r
    BY <2>5 DEF Types
  <2>7. Local(c)'
    BY <1>3, <2>1, <2>4, <2>6 DEF Miss, Local, At, Busy
  <2>8. entry' \in [Adapters -> Entry]
    BY <2>2, Renewed
  <2>9. task' \in [Callers -> Tasks] /\ Others(c)
    BY <2>3, <2>5 DEF Others, Tasks, Types
  <2> QED BY <1>3, <2>7, <2>8, <2>9 DEF Miss, Types
<1>4. ASSUME Connected(c)
      PROVE  Good /\ Kept
  <2>1. task[c] \in Call /\ At(c, "connecting") /\ task[c].adapter \in Adapters
    BY <1>4, <1>c, <1>a DEF Connected, At, Busy
  <2>2. PICK where \in {"probing", "calling"} : Goes(c, where)
    BY <1>4 DEF Connected
  <2>3. /\ task' \in [Callers -> Tasks] /\ Others(c) /\ task'[c].at = where
        /\ task'[c].epoch = task[c].epoch /\ task'[c].adapter = task[c].adapter
        /\ task'[c].heard = task[c].heard /\ task'[c].billed = task[c].billed
    BY <2>1, <2>2, GoesOn DEF Busy
  <2>4. Local(c)'
    BY <1>4, <2>1, <2>3 DEF Connected, Local, At, Busy
  <2>5. entry' \in [Adapters -> Entry]
    BY <1>4, <2>1, Renewed DEF Connected
  <2> QED BY <1>4, <2>1, <2>3, <2>4, <2>5 DEF Connected, Types
<1>5. ASSUME NEW outcome \in Outcomes \ {"ok"}, task[c] \in Call, Returns(c, outcome),
             outcome = "abandoned" \/ task[c].at # "billing", epoch' = epoch
      PROVE  Good
  <2>1. /\ task' \in [Callers -> Tasks] /\ Others(c) /\ task'[c].at = "returned"
        /\ task'[c].outcome = outcome /\ task'[c].billed = task[c].billed
    BY <1>5, ReturnsPast
  <2>2. task[c].at \in Busy
    BY <1>5, BusyIsCall
  <2> QED BY <1>5, <2>1, <2>2 DEF Local, Busy
<1>6. ASSUME ConnectFails(c)
      PROVE  Good /\ Kept
  <2>1. task[c] \in Call /\ At(c, "connecting") /\ task[c].adapter \in Adapters
    BY <1>6, <1>c, <1>a DEF ConnectFails, At, Busy
  <2>2. entry' \in [Adapters -> Entry]
    BY <1>6, <2>1, Renewed DEF ConnectFails
  <2> QED BY <1>6, <1>5, <2>1, <2>2 DEF ConnectFails, Types, Outcomes, At
<1>7. ASSUME Probed(c)
      PROVE  Good /\ Kept
  <2>1. task[c] \in Call /\ At(c, "probing") /\ task[c].adapter \in Adapters
    BY <1>7, <1>c, <1>a DEF Probed, At, Busy
  <2>2. entry' \in [Adapters -> Entry]
    BY <1>7, <2>1, Marked DEF Probed, Types
  <2> QED BY <1>7, <1>5, <2>1, <2>2 DEF Probed, Types, Outcomes, At
<1>8. ASSUME Chunk(c)
      PROVE  Good /\ Kept
  <2>1. task[c] \in Call /\ At(c, "calling")
    BY <1>8, <1>c DEF Chunk, At, Busy
  <2> DEFINE r == [task[c] EXCEPT !.heard = @ \cup {task[c].attempt}]
  <2>2. task[c].heard \cup {task[c].attempt} \in SUBSET (0..MaxRetries)
    BY <2>1 DEF Call
  <2>3. r \in Call
    BY <2>1, <2>2, Zenon DEF Call
  <2>4. /\ r.at = "calling" /\ r.heard = task[c].heard \cup {task[c].attempt}
        /\ r.adapter = task[c].adapter /\ r.billed = task[c].billed
        /\ r.attempt = task[c].attempt /\ r.epoch = task[c].epoch
    BY <2>1 DEF Call, At
  <2>5. task' = [task EXCEPT ![c] = r]
    BY <1>8, Zenon DEF Chunk, Types
  <2> HIDE DEF r
  <2>6. task'[c] = r
    BY <2>5 DEF Types
  <2>7. Local(c)'
    BY <1>8, <2>1, <2>4, <2>6 DEF Chunk, Local, At, Busy
  <2> QED BY <1>8, <2>3, <2>5, <2>7 DEF Chunk, Others, Tasks, Types
<1>9. ASSUME Answered(c)
      PROVE  Good /\ Kept
  <2>1. task[c] \in Call /\ At(c, "calling") /\ task[c].adapter \in Adapters /\ task[c].billed = 0
    BY <1>9, <1>c, <1>a DEF Answered, At, Busy, Local
  <2> DEFINE r == [task[c] EXCEPT !.at = "billing", !.billed = @ + 1]
  <2>2. task[c].billed + 1 = 1
    BY <2>1
  <2>3. r = [task[c] EXCEPT !.at = "billing", !.billed = 1]
    BY <2>2
  <2>4. r \in Call
    BY <2>1, <2>3, Zenon DEF Call, Busy
  <2>5. /\ r.at = "billing" /\ r.billed = 1 /\ r.heard = task[c].heard
        /\ r.adapter = task[c].adapter /\ r.attempt = task[c].attempt /\ r.epoch = task[c].epoch
    BY <2>1, <2>3 DEF Call
  <2>6. task' = [task EXCEPT ![c] = r]
    BY <1>9, Zenon DEF Answered, Types
  <2> HIDE DEF r
  <2>7. task'[c] = r
    BY <2>6 DEF Types
  <2>8. Local(c)'
    BY <1>9, <2>1, <2>5, <2>7 DEF Answered, Local, At, Busy
  <2>9. entry' \in [Adapters -> Entry]
    BY <1>9, <2>1, Marked DEF Answered
  <2> QED BY <1>9, <2>4, <2>6, <2>8, <2>9 DEF Answered, Others, Tasks, Types
<1>10. ASSUME Billed(c)
       PROVE  Good /\ Kept
  <2>1. task[c] \in Call /\ At(c, "billing") /\ task[c].billed = 1
    BY <1>10, <1>c DEF Billed, At, Busy, Local
  <2>2. /\ task' \in [Callers -> Tasks] /\ Others(c) /\ task'[c].at = "returned"
        /\ task'[c].outcome = "ok" /\ task'[c].billed = task[c].billed
    BY <1>10, <2>1, ReturnsPast DEF Billed, Outcomes
  <2> QED BY <1>10, <2>1, <2>2 DEF Billed, Local, Busy, Types
<1>11. ASSUME NEW u \in BOOLEAN, Retryable(c, u)
       PROVE  Good /\ Kept
  <2>1. task[c] \in Call /\ At(c, "calling") /\ task[c].adapter \in Adapters
    BY <1>11, <1>c, <1>a DEF Retryable, At, Busy
  <2>2. ASSUME ~Surfaces(c), RetriesLeft(c),
               task' = [task EXCEPT ![c].at = "sleeping", ![c].billed = BilledSoFar(c)]
        PROVE  Good
    <3> DEFINE r == [task[c] EXCEPT !.at = "sleeping", !.billed = BilledSoFar(c)]
    <3>1. r \in Call
      BY <2>1, Zenon DEF Call, Busy, BilledSoFar
    <3>2. /\ r.at = "sleeping" /\ r.billed = task[c].billed /\ r.heard = task[c].heard
          /\ r.adapter = task[c].adapter /\ r.attempt = task[c].attempt /\ r.epoch = task[c].epoch
      BY <2>1 DEF Call, BilledSoFar
    <3>3. task' = [task EXCEPT ![c] = r]
      BY <2>2, Zenon DEF Types
    <3> HIDE DEF r
    <3>4. task'[c] = r
      BY <3>3 DEF Types
    <3>a. task[c].heard \subseteq {task[c].attempt}
      BY <2>1 DEF Local, At, Busy
    <3>5. task[c].heard = {}
      BY <2>2, <3>a, Zenon DEF Surfaces
    <3>6. Local(c)'
      BY <1>11, <2>1, <2>2, <3>2, <3>4, <3>5 DEF Retryable, RetriesLeft, Local, At, Busy
    <3> QED BY <3>1, <3>3, <3>6 DEF Others, Tasks, Types
  <2>3. ASSUME Returns(c, "failed")
        PROVE  Good
    BY <1>11, <1>5, <2>1, <2>3 DEF Retryable, Outcomes, At
  <2>4. entry' \in [Adapters -> Entry]
    BY <1>11, <2>1, Marked DEF Retryable, Types
  <2> QED BY <1>11, <2>2, <2>3, <2>4 DEF Retryable, Types
<1>12. ASSUME Fatal(c)
       PROVE  Good /\ Kept
  BY <1>12, <1>5, <1>c DEF Fatal, Types, Outcomes, At, Busy
<1>13. ASSUME Wake(c)
       PROVE  Good /\ Kept
  <2>1. task[c] \in Call /\ At(c, "sleeping")
    BY <1>13, <1>c DEF Wake, At, Busy
  <2>2. task[c].attempt + 1 \in 0..MaxRetries
    BY <2>1, GatewayAssumption DEF Local, At, Busy, Call
  <2> DEFINE r == [task[c] EXCEPT !.at = "calling", !.attempt = NextAttempt(c)]
  <2>3. r \in Call
    BY <2>1, <2>2, Zenon DEF Call, Busy, NextAttempt
  <2>4. /\ r.at = "calling" /\ r.attempt = task[c].attempt + 1 /\ r.heard = task[c].heard
        /\ r.billed = task[c].billed /\ r.adapter = task[c].adapter /\ r.epoch = task[c].epoch
    BY <2>1 DEF Call, NextAttempt
  <2>5. task' = [task EXCEPT ![c] = r]
    BY <1>13, Zenon DEF Wake, Types
  <2> HIDE DEF r
  <2>6. task'[c] = r
    BY <2>5 DEF Types
  <2>7. Local(c)'
    BY <1>13, <2>1, <2>4, <2>6 DEF Wake, Local, At, Busy
  <2>8. task' \in [Callers -> Tasks] /\ Others(c)
    BY <2>3, <2>5 DEF Others, Tasks, Types
  <2>9. Kept
    BY <1>13 DEF Wake, Types
  <2> QED BY <2>7, <2>8, <2>9
<1>14. ASSUME Abandon(c)
       PROVE  Good /\ Kept
  <2>1. task[c] \in Call
    BY <1>14, <1>c DEF Abandon
  <2>2. entry' \in [Adapters -> Entry]
    BY <1>14, <1>a, <2>1, Renewed DEF Abandon, Types, At
  <2> QED BY <1>14, <1>5, <2>1, <2>2 DEF Abandon, Types, Outcomes
<1>15. Good /\ Kept
  BY <1>1, <1>2, <1>3, <1>4, <1>6, <1>7, <1>8, <1>9, <1>10, <1>11, <1>12, <1>13, <1>14
<1>16. \A d \in Callers : Local(d)'
  BY <1>15, LocalKept
<1> QED BY <1>15, <1>16 DEF Types, Counted

-----------------------------------------------------------------------------
(* What is pooled, and which call connects *)

SameLives == \A b \in Adapters : entry'[b].life = entry[b].life

\* A step of c that connects nothing: what c uses from then on was pooled for
\* its key, or is what c used before.
Follows(c) ==
    /\ cache' = cache /\ SameLives /\ Others(c)
    /\ task'[c].at # "connecting"
    /\ task'[c].at \in Busy \ {"locking"} =>
         /\ task'[c].key = task[c].key
         /\ \/ task'[c].adapter = cache[task[c].key]
            \/ task'[c].adapter = task[c].adapter /\ task[c].at \in Busy \ {"locking", "connecting"}

\* All steps of a call but those that connect are of that kind.
LEMMA CallFollows ==
    ASSUME IInv, NEW c \in Callers,
           \/ \E kind \in Kinds, k \in Keys : Begin(c, kind, k)
           \/ Hit(c) \/ Probed(c) \/ Chunk(c) \/ Answered(c) \/ Billed(c)
           \/ (\E u \in BOOLEAN : Retryable(c, u)) \/ Fatal(c) \/ Wake(c)
    PROVE  Follows(c)
<1> USE DEF IInv
<1>a. Others(c)
  BY CallerStep
<1>b. task[c].at \in Busy => task[c] \in Call
  BY BusyIsCall
<1>c. task[c].at \in Busy \ {"locking"} => task[c].adapter \in Adapters
  BY DEF Local
<1>1. ASSUME NEW kind \in Kinds, NEW k \in Keys, Begin(c, kind, k)
      PROVE  Follows(c)
  BY <1>1, <1>a DEF Begin, Follows, SameLives, Types
<1>2. ASSUME NEW outcome, task[c] \in Call, Returns(c, outcome), cache' = cache, SameLives
      PROVE  Follows(c)
  BY <1>2, <1>a DEF Returns, Follows, Busy, Types
<1>3. ASSUME Hit(c)
      PROVE  Follows(c)
  <2> DEFINE a == cache[task[c].key]
  <2>1. task[c] \in Call
    BY <1>3, <1>b DEF Hit, At, Busy
  <2>2. ASSUME NEW where \in {"probing", "calling"},
               task' = [task EXCEPT ![c].at = where, ![c].adapter = a], UNCHANGED entry, cache' = cache
        PROVE  Follows(c)
    <3> DEFINE r == [task[c] EXCEPT !.at = where, !.adapter = a]
    <3>1. r.at = where /\ r.key = task[c].key /\ r.adapter = a
      BY <2>1 DEF Call
    <3>2. task' = [task EXCEPT ![c] = r]
      BY <2>2, Zenon DEF Types
    <3> HIDE DEF r
    <3> QED BY <1>a, <2>2, <3>1, <3>2 DEF Follows, SameLives, Types
  <2>3. CASE FastFail(c, a)
    BY <1>2, <1>3, <2>1, <2>3 DEF Hit, FastFail, SameLives
  <2> QED BY <1>3, <2>2, <2>3 DEF Hit, UseEntry
<1>4. ASSUME Probed(c)
      PROVE  Follows(c)
  <2>1. task[c] \in Call /\ task[c].adapter \in Adapters
    BY <1>4, <1>b, <1>c DEF Probed, At, Busy
  <2>2. SameLives
    BY <1>4, <2>1, Marked DEF Probed, SameLives
  <2> QED BY <1>2, <1>4, <2>1, <2>2 DEF Probed
<1>5. ASSUME Chunk(c)
      PROVE  Follows(c)
  <2>1. task[c] \in Call /\ task[c].at = "calling"
    BY <1>5, <1>b DEF Chunk, At, Busy
  <2> DEFINE r == [task[c] EXCEPT !.heard = @ \cup {task[c].attempt}]
  <2>2. r.at = task[c].at /\ r.key = task[c].key /\ r.adapter = task[c].adapter
    BY <2>1 DEF Call
  <2>3. task' = [task EXCEPT ![c] = r]
    BY <1>5, Zenon DEF Chunk, Types
  <2>4. cache' = cache /\ SameLives
    BY <1>5 DEF Chunk, SameLives
  <2> HIDE DEF r
  <2> QED BY <1>a, <2>1, <2>2, <2>3, <2>4 DEF Follows, Busy, Types
<1>6. ASSUME Answered(c)
      PROVE  Follows(c)
  <2>1. task[c] \in Call /\ task[c].at = "calling" /\ task[c].adapter \in Adapters
    BY <1>6, <1>b, <1>c DEF Answered, At, Busy
  <2> DEFINE r == [task[c] EXCEPT !.at = "billing", !.billed = @ + 1]
  <2>2. r.at = "billing" /\ r.key = task[c].key /\ r.adapter = task[c].adapter
    BY <2>1 DEF Call
  <2>3. task' = [task EXCEPT ![c] = r]
    BY <1>6, Zenon DEF Answered, Types
  <2>4. cache' = cache /\ SameLives
    BY <1>6, <2>1, Marked DEF Answered, SameLives
  <2> HIDE DEF r
  <2> QED BY <1>a, <2>1, <2>2, <2>3, <2>4 DEF Follows, Busy, Types
<1>7. ASSUME Billed(c)
      PROVE  Follows(c)
  BY <1>2, <1>7, <1>b DEF Billed, SameLives, At, Busy
<1>8. ASSUME NEW u \in BOOLEAN, Retryable(c, u)
      PROVE  Follows(c)
  <2>1. task[c] \in Call /\ task[c].at = "calling" /\ task[c].adapter \in Adapters
    BY <1>8, <1>b, <1>c DEF Retryable, At, Busy
  <2>2. cache' = cache /\ SameLives
    BY <1>8, <2>1, Marked DEF Retryable, SameLives
  <2>3. ASSUME task' = [task EXCEPT ![c].at = "sleeping", ![c].billed = BilledSoFar(c)]
        PROVE  Follows(c)
    <3> DEFINE r == [task[c] EXCEPT !.at = "sleeping", !.billed = BilledSoFar(c)]
    <3>1. r.at = "sleeping" /\ r.key = task[c].key /\ r.adapter = task[c].adapter
      BY <2>1 DEF Call
    <3>2. task' = [task EXCEPT ![c] = r]
      BY <2>3, Zenon DEF Types
    <3> HIDE DEF r
    <3> QED BY <1>a, <2>1, <2>2, <3>1, <3>2 DEF Follows, Busy, Types
  <2>4. ASSUME Returns(c, "failed")
        PROVE  Follows(c)
    BY <1>2, <2>1, <2>2, <2>4
  <2> QED BY <1>8, <2>3, <2>4 DEF Retryable
<1>9. ASSUME Fatal(c)
      PROVE  Follows(c)
  BY <1>2, <1>9, <1>b DEF Fatal, SameLives, At, Busy
<1>10. ASSUME Wake(c)
       PROVE  Follows(c)
  <2>1. task[c] \in Call /\ task[c].at = "sleeping"
    BY <1>10, <1>b DEF Wake, At, Busy
  <2> DEFINE r == [task[c] EXCEPT !.at = "calling", !.attempt = NextAttempt(c)]
  <2>2. r.at = "calling" /\ r.key = task[c].key /\ r.adapter = task[c].adapter
    BY <2>1 DEF Call
  <2>3. task' = [task EXCEPT ![c] = r]
    BY <1>10, Zenon DEF Wake, Types
  <2>4. cache' = cache /\ SameLives
    BY <1>10 DEF Wake, SameLives
  <2> HIDE DEF r
  <2> QED BY <1>a, <2>1, <2>2, <2>3, <2>4 DEF Follows, Busy, Types
<1> QED BY <1>1, <1>3, <1>4, <1>5, <1>6, <1>7, <1>8, <1>9, <1>10

Pools == Lives /\ CacheHoldsOpen /\ Shared /\ Walking

\* Such a step keeps what is known of the pool.
LEMMA FollowsKeeps ==
    ASSUME IInv, NEW c \in Callers, Follows(c), epoch' = epoch, closer' = closer
    PROVE  Pools'
<1>1. \A k \in Keys : cache[k] # NoAdapter => cache[k] \in Adapters
  BY DEF IInv, Types
<1>2. \A d \in Callers : task[d].at \in Busy \ {"locking"} => task[d].adapter \in Adapters
  BY DEF IInv, Local
<1>3. \A d \in Callers : At(d, "connecting")' => d # c /\ At(d, "connecting") /\ task'[d] = task[d]
  BY DEF Follows, Others, At
<1>4. Lives'
  BY <1>1, <1>2, <1>3 DEF IInv, Lives, Follows, SameLives, At, Busy
<1>5. CacheHoldsOpen'
  BY <1>1 DEF IInv, CacheHoldsOpen, Pooled, Follows, SameLives
<1>6. ASSUME epoch' = 0, NEW d \in Callers, task'[d].at \in Busy \ {"locking", "connecting"}
      PROVE  cache'[task'[d].key] = task'[d].adapter
  <2>1. CASE d # c
    BY <1>6, <2>1 DEF IInv, Shared, Follows, Others
  <2>2. CASE d = c
    BY <1>6, <2>2 DEF IInv, Shared, Follows
  <2> QED BY <2>1, <2>2
<1>7. Shared'
  BY <1>3, <1>6 DEF IInv, Shared, Follows, At
<1>8. Walking'
  BY DEF IInv, Walking, Pooled, Follows
<1> QED BY <1>4, <1>5, <1>7, <1>8 DEF Pools

\* So does a step that creates, connects or gives up an adapter.
LEMMA ConnectKeeps ==
    ASSUME IInv, NEW c \in Callers, Miss(c) \/ Connected(c) \/ ConnectFails(c) \/ Abandon(c)
    PROVE  Pools'
<1> USE DEF IInv
<1>a. Others(c)
  BY CallerStep
<1>b. task[c].at \in Busy => task[c] \in Call
  BY BusyIsCall
<1>c. \A d \in Callers : task[d].at \in Busy \ {"locking"} => task[d].adapter \in Adapters
  BY DEF Local
<1>d. \A k \in Keys : cache[k] # NoAdapter =>
        cache[k] \in Adapters /\ entry[cache[k]].life \in {"open", "closed"}
  BY DEF Types, Lives
<1>1. ASSUME Miss(c)
      PROVE  Pools'
  <2>1. task[c] \in Call /\ task[c].at = "locking"
    BY <1>1, <1>b DEF Miss, At, Busy
  <2>2. PICK a \in Adapters : /\ entry[a].life = "gone"
                               /\ entry' = [entry EXCEPT ![a] = Fresh("connecting")]
                               /\ task' = [task EXCEPT ![c].at = "connecting", ![c].adapter = a]
    BY <1>1 DEF Miss, Unused
  <2>3. /\ cache' = cache /\ epoch' = epoch /\ closer' = closer /\ LockFree(c)
        /\ cache[task[c].key] = NoAdapter
    BY <1>1 DEF Miss
  <2>4. entry'[a].life = "connecting" /\ \A b \in Adapters \ {a} : entry'[b] = entry[b]
    BY <2>2, Renewed
  <2> DEFINE r == [task[c] EXCEPT !.at = "connecting", !.adapter = a]
  <2>5. r.at = "connecting" /\ r.key = task[c].key /\ r.adapter = a
    BY <2>1 DEF Call
  <2>6. task' = [task EXCEPT ![c] = r]
    BY <2>2, Zenon DEF Types
  <2> HIDE DEF r
  <2>7. task'[c].at = "connecting" /\ task'[c].key = task[c].key /\ task'[c].adapter = a
    BY <2>5, <2>6 DEF Types
  <2>8. \A d \in Callers \ {c} : At(d, "connecting") => task[d].adapter \in Adapters \ {a}
    BY <1>c, <2>2 DEF Lives, At, Busy
  <2>a. \A k \in Keys : cache'[k] # NoAdapter => entry'[cache'[k]].life \in {"open", "closed"}
    BY <1>d, <2>2, <2>3, <2>4
  <2>b. \A d \in Callers : At(d, "connecting")' =>
          \/ d = c
          \/ At(d, "connecting") /\ task'[d] = task[d] /\ task[d].adapter \in Adapters \ {a}
    BY <1>a, <2>8 DEF Others, At
  <2>9. Lives'
    BY <2>a, <2>b, <2>4, <2>7 DEF Lives, At
  <2>10. CacheHoldsOpen'
    BY <1>d, <2>2, <2>3, <2>4 DEF CacheHoldsOpen, Pooled
  <2>11. ASSUME epoch = 0, NEW d \in Callers \ {c}, At(d, "connecting")
         PROVE  task[d].key # task[c].key
    <3>1. task[c].epoch = 0 /\ task[d].epoch = 0
      <4>1. task[d] \in Call
        BY <2>11, BusyIsCall DEF At, Busy
      <4>2. task[c].epoch <= 0 /\ task[d].epoch <= 0
        BY <2>1, <2>11 DEF Local, At, Busy
      <4> QED BY <2>1, <4>1, <4>2 DEF Call
    <3> QED BY <2>3, <2>11, <3>1 DEF LockFree
  <2>12. Shared'
    BY <1>a, <2>3, <2>7, <2>11 DEF Shared, Others, At
  <2>13. Walking'
    BY <2>3 DEF Walking, Pooled
  <2> QED BY <2>9, <2>10, <2>12, <2>13 DEF Pools
<1>2. ASSUME Connected(c)
      PROVE  Pools'
  <2> DEFINE a == task[c].adapter
             k == task[c].key
  <2>1. task[c] \in Call /\ task[c].at = "connecting" /\ a \in Adapters /\ k \in Keys
    BY <1>2, <1>b, <1>c DEF Connected, At, Busy, Call
  <2>2. /\ cache' = [cache EXCEPT ![k] = a] /\ entry' = [entry EXCEPT ![a] = Fresh("open")]
        /\ epoch' = epoch /\ closer' = closer
    BY <1>2 DEF Connected
  <2>3. entry'[a].life = "open" /\ \A b \in Adapters \ {a} : entry'[b] = entry[b]
    BY <2>1, <2>2, Renewed
  <2>4. cache'[k] = a /\ \A j \in Keys \ {k} : cache'[j] = cache[j]
    BY <2>1, <2>2 DEF Types
  <2>5. PICK where \in {"probing", "calling"} : Goes(c, where)
    BY <1>2 DEF Connected
  <2>6. task'[c].at = where /\ task'[c].key = k /\ task'[c].adapter = a
    BY <2>1, <2>5, GoesOn DEF Busy
  <2>7. entry[a].life = "connecting"
    BY <2>1 DEF Lives, At
  <2>8. \A j \in Keys : cache[j] # a
    BY <1>d, <2>1, <2>7, GatewayAssumption
  <2>9. \A d \in Callers \ {c} : At(d, "connecting") => task[d].adapter \in Adapters \ {a}
    BY <1>c, <2>1 DEF Lives, At, Busy
  <2>10. \A j \in Keys : cache'[j] # NoAdapter => entry'[cache'[j]].life \in {"open", "closed"}
    BY <1>d, <2>1, <2>3, <2>4, <2>8
  <2>11. Lives'
    BY <1>a, <2>3, <2>6, <2>9, <2>10 DEF Lives, Others, At
  <2>12. CacheHoldsOpen'
    <3> SUFFICES ASSUME closer.at = "none", NEW j \in Keys, cache'[j] # NoAdapter
                 PROVE  entry'[cache'[j]].life = "open"
      BY <2>2 DEF CacheHoldsOpen, Pooled
    <3>1. CASE j = k
      BY <2>3, <2>4, <3>1
    <3>2. CASE j # k
      BY <1>d, <2>3, <2>4, <2>8, <3>2 DEF CacheHoldsOpen, Pooled
    <3> QED BY <3>1, <3>2
  <2>13. ASSUME epoch = 0, NEW d \in Callers \ {c}, task[d].at \in Busy \ {"locking"}
         PROVE  task[d].key # k
    <3>1. cache[k] = NoAdapter
      BY <2>1, <2>13 DEF Shared, At
    <3>2. CASE At(d, "connecting")
      BY <2>1, <2>13, <3>2 DEF Shared, At
    <3>3. CASE ~At(d, "connecting")
      BY <1>c, <2>13, <3>1, <3>3, GatewayAssumption DEF Shared, At
    <3> QED BY <3>2, <3>3
  <2>14. Shared'
    <3> SUFFICES ASSUME epoch = 0, NEW d \in Callers
                 PROVE  /\ At(d, "connecting")' =>
                             /\ cache'[task'[d].key] = NoAdapter
                             /\ \A e \in Callers : At(e, "connecting")' /\ task'[e].key = task'[d].key => e = d
                        /\ task'[d].at \in Busy \ {"locking", "connecting"} =>
                             cache'[task'[d].key] = task'[d].adapter
      BY <2>2 DEF Shared
    <3>1. CASE d = c
      BY <2>4, <2>6, <3>1 DEF At
    <3>2. CASE d # c
      <4>1. task'[d] = task[d] /\ (task[d].at \in Busy => task[d].key \in Keys)
        BY <1>a, <3>2, BusyIsCall DEF Others, Call
      <4>2. \A e \in Callers : At(e, "connecting")' => e # c /\ task'[e] = task[e]
        BY <1>a, <2>6 DEF Others, At
      <4> QED BY <2>4, <2>13, <3>2, <4>1, <4>2 DEF Shared, At, Busy
    <3> QED BY <3>1, <3>2
  <2>15. Walking'
    BY <2>1, <2>2, <2>4, GatewayAssumption DEF Walking, Pooled
  <2> QED BY <2>11, <2>12, <2>14, <2>15 DEF Pools
<1>3. ASSUME NEW outcome, task[c] \in Call, Returns(c, outcome), cache' = cache,
             epoch' = epoch, closer' = closer
      PROVE  task'[c].at = "returned" /\ (SameLives => Pools')
  <2>1. task'[c].at = "returned"
    BY <1>3 DEF Returns, Types
  <2>2. SameLives => Follows(c)
    BY <1>3, <1>a, <2>1 DEF Follows, Busy
  <2> QED BY <1>3, <2>1, <2>2, FollowsKeeps
<1>4. ASSUME task[c].at = "connecting", entry' = [entry EXCEPT ![task[c].adapter] = Fresh("gone")],
             cache' = cache, epoch' = epoch, closer' = closer, task'[c].at = "returned"
      PROVE  Pools'
  <2> DEFINE a == task[c].adapter
  <2>1. a \in Adapters /\ entry[a].life = "connecting"
    BY <1>4, <1>c DEF Lives, At, Busy
  <2>2. \A b \in Adapters \ {a} : entry'[b] = entry[b]
    BY <1>4, <2>1, Renewed
  <2>3. \A j \in Keys : cache[j] # a
    BY <1>d, <2>1, GatewayAssumption
  <2>4. \A d \in Callers : At(d, "connecting")' =>
          d # c /\ task'[d] = task[d] /\ At(d, "connecting") /\ task[d].adapter \in Adapters \ {a}
    BY <1>a, <1>c, <1>4 DEF Lives, Others, At, Busy
  <2>5. Lives'
    BY <1>d, <1>4, <2>2, <2>3, <2>4 DEF Lives
  <2>6. CacheHoldsOpen'
    BY <1>d, <1>4, <2>2, <2>3 DEF CacheHoldsOpen, Pooled
  <2>7. Shared'
    BY <1>a, <1>4, <2>4 DEF Shared, Others, At, Busy
  <2>8. Walking'
    BY <1>4 DEF Walking, Pooled
  <2> QED BY <2>5, <2>6, <2>7, <2>8 DEF Pools
<1>5. ASSUME ConnectFails(c)
      PROVE  Pools'
  BY <1>3, <1>4, <1>5, <1>b DEF ConnectFails, At, Busy
<1>6. ASSUME Abandon(c)
      PROVE  Pools'
  <2>1. task'[c].at = "returned" /\ (SameLives => Pools')
    BY <1>3, <1>6, <1>b DEF Abandon
  <2>2. CASE At(c, "connecting")
    BY <1>4, <1>6, <2>1, <2>2 DEF Abandon, At
  <2>3. CASE ~At(c, "connecting")
    BY <1>6, <2>1, <2>3 DEF Abandon, SameLives
  <2> QED BY <2>2, <2>3
<1> QED BY <1>1, <1>2, <1>5, <1>6

-----------------------------------------------------------------------------
(* The invariant *)

\* The steps of a close, of time and of the collector.
LEMMA GatewayStep ==
    ASSUME IInv,
           \/ \E k \in Keys : CloseBegin(k) \/ CloseOne(k)
           \/ CloseEmpty \/ CloseRaises \/ CloseEnd \/ Tick \/ \E a \in Adapters : Collect(a)
    PROVE  IInv'
<1> USE DEF IInv
<1>a. \A d \in Callers : task[d].at \in Busy \ {"locking"} => task[d].adapter \in Adapters
  BY DEF Local
<1>b. \A k \in Keys : cache[k] # NoAdapter =>
        cache[k] \in Adapters /\ entry[cache[k]].life \in {"open", "closed"}
  BY DEF Types, Lives
<1> DEFINE Calm == cache' = cache /\ task' = task /\ epoch' = epoch
           Ageing == /\ entry' \in [Adapters -> Entry]
                     /\ \A b \in Adapters :
                          \/ entry'[b].life = entry[b].life
                          \/ entry[b].life = "open" /\ entry'[b].life = "closed" /\ closer'.at # "none"
                          \/ entry[b].life \in {"open", "closed"} /\ \A k \in Keys : cache[k] # b
           Closer == /\ closer'.at = "none" => closer.at = "none"
                     /\ closer'.at \in {"none", "closing", "raised"} /\ closer'.todo \subseteq Keys
                     /\ closer' = [at |-> closer'.at, todo |-> closer'.todo, size |-> closer'.size]
                     /\ closer'.at = "closing" => epoch < MaxCloses /\ closer'.todo \subseteq Pooled
<1>c. ASSUME Calm, Ageing, Closer
      PROVE  IInv'
  <2>1. Lives'
    <3>1. \A k \in Keys : cache'[k] # NoAdapter => entry'[cache'[k]].life \in {"open", "closed"}
      BY <1>b, <1>c
    <3>2. \A d \in Callers : At(d, "connecting") => entry'[task[d].adapter].life = "connecting"
      BY <1>a, <1>c DEF Lives, At, Busy
    <3> QED BY <1>c, <3>1, <3>2 DEF Lives, At
  <2>2. CacheHoldsOpen'
    BY <1>b, <1>c DEF CacheHoldsOpen, Pooled
  <2>3. Shared'
    BY <1>c DEF Shared, At
  <2>4. Types' /\ Counted'
    BY <1>c DEF Types, Counted
  <2>5. \A d \in Callers : Local(d)'
    BY <1>c DEF Local
  <2>6. Walking'
    BY <1>c DEF Walking, Pooled
  <2> QED BY <2>1, <2>2, <2>3, <2>4, <2>5, <2>6
<1>1. ASSUME NEW k \in Keys, CloseBegin(k) \/ CloseOne(k)
      PROVE  IInv'
  <2> DEFINE a == cache[k]
  <2>1. Calm /\ a \in Adapters /\ entry[a].life \in {"open", "closed"}
        /\ entry' = [entry EXCEPT ![a].life = "closed"]
    <3>1. CASE CloseBegin(k)
      BY <1>b, <3>1 DEF CloseBegin, Pooled
    <3>2. CASE CloseOne(k)
      <4>1. Calm /\ entry' = [entry EXCEPT ![a].life = "closed"]
        BY <3>2 DEF CloseOne
      <4>2. a # NoAdapter
        BY <3>2 DEF CloseOne, Walking, Pooled
      <4> QED BY <1>b, <4>1, <4>2
    <3> QED BY <1>1, <3>1, <3>2
  <2>2. Closer /\ closer'.at = "closing"
    <3>1. CASE CloseBegin(k)
      BY <3>1 DEF CloseBegin, Pooled
    <3>2. CASE CloseOne(k)
      BY <3>2 DEF CloseOne, Counted, Types, Walking
    <3> QED BY <1>1, <3>1, <3>2
  <2>3. Ageing
    BY <2>1, <2>2, Closes
  <2> QED BY <1>c, <2>1, <2>2, <2>3
<1>2. ASSUME ClearPool, UNCHANGED <<entry, task>>, epoch < MaxCloses
      PROVE  IInv'
  <2>1. /\ cache' = [k \in Keys |-> NoAdapter] /\ epoch' = epoch + 1 /\ entry' = entry /\ task' = task
        /\ closer' = [at |-> "none", todo |-> {}, size |-> 0]
    BY <1>2 DEF ClearPool, CacheCleared, NotClosing
  <2>2. epoch' \in Nat /\ epoch' <= MaxCloses /\ epoch' # 0 /\ epoch <= epoch'
    BY <1>2, <2>1, GatewayAssumption DEF Types
  <2>3. Types' /\ Counted' /\ Shared'
    BY <2>1, <2>2 DEF Types, Counted, Shared
  <2>6. Walking'
    BY <2>1 DEF Walking
  <2>4. Lives' /\ CacheHoldsOpen'
    BY <2>1 DEF Lives, CacheHoldsOpen, Pooled, At
  <2>5. ASSUME NEW d \in Callers
        PROVE  Local(d)'
    <3>1. task[d].at \in Busy => task[d].epoch \in Nat /\ task[d].epoch <= epoch
      BY BusyIsCall DEF Call, Local
    <3>2. task[d].at \in Busy => task[d].epoch <= epoch'
      BY <2>2, <3>1 DEF Types
    <3> QED BY <2>1, <3>2 DEF Local
  <2> QED BY <2>3, <2>4, <2>5, <2>6
<1>3. CASE CloseRaises
  <2>1. Calm /\ entry' = entry /\ closer' = [at |-> "raised", todo |-> {}, size |-> 0]
    BY <1>3 DEF CloseRaises, NotClosing
  <2> QED BY <1>c, <2>1 DEF Types
<1>4. CASE Tick
  <2>1. Calm /\ closer' = closer
    BY <1>4 DEF Tick
  <2>2. Ageing
    BY <1>4, Ticks
  <2>3. Closer
    BY <2>1 DEF Types, Counted, Walking
  <2> QED BY <1>c, <2>1, <2>2, <2>3
<1>5. ASSUME NEW a \in Adapters, Collect(a)
      PROVE  IInv'
  <2>1. /\ Calm /\ closer' = closer /\ entry[a].life \in {"open", "closed"} /\ \A k \in Keys : cache[k] # a
        /\ entry' = [entry EXCEPT ![a] = Fresh("gone")]
    BY <1>5 DEF Collect
  <2>2. entry' \in [Adapters -> Entry] /\ \A b \in Adapters \ {a} : entry'[b] = entry[b]
    BY <2>1, Renewed
  <2>3. Ageing
    BY <2>1, <2>2
  <2>4. Closer
    BY <2>1 DEF Types, Counted, Walking
  <2> QED BY <1>c, <2>1, <2>3, <2>4
<1> QED BY <1>1, <1>2, <1>3, <1>4, <1>5 DEF CloseEmpty, CloseEnd, Counted

\* The invariant holds at the start and is kept by every step.
LEMMA Inductive == Spec => []IInv
<1>1. Init => IInv
  <2> SUFFICES ASSUME Init
               PROVE  IInv
    OBVIOUS
  <2>1. Fresh("gone") \in Entry
    BY GatewayAssumption DEF Fresh, Entry
  <2>2. [at |-> "idle"] \in Tasks
    BY DEF Tasks
  <2> QED BY <2>1, <2>2, GatewayAssumption DEF Init, IInv, Types, Local, Counted, Lives, CacheHoldsOpen, Pooled,
                                               Shared, Walking, At, Busy
<1>2. IInv /\ [Next]_vars => IInv'
  <2> SUFFICES ASSUME IInv, [Next]_vars
               PROVE  IInv'
    OBVIOUS
  <2>1. ASSUME NEW c \in Callers,
               \/ \E kind \in Kinds, k \in Keys : Begin(c, kind, k)
               \/ Hit(c) \/ Probed(c) \/ Chunk(c) \/ Answered(c) \/ Billed(c)
               \/ (\E u \in BOOLEAN : Retryable(c, u)) \/ Fatal(c) \/ Wake(c)
        PROVE  IInv'
    <3>1. epoch' = epoch /\ closer' = closer
      BY <2>1 DEF Begin, Hit, Probed, Chunk, Answered, Billed, Retryable, Fatal, Wake
    <3>2. Types' /\ Counted' /\ \A d \in Callers : Local(d)'
      BY <2>1, CallerStep
    <3>3. Pools'
      BY <2>1, <3>1, CallFollows, FollowsKeeps
    <3> QED BY <3>2, <3>3 DEF IInv, Pools
  <2>2. ASSUME NEW c \in Callers, Miss(c) \/ Connected(c) \/ ConnectFails(c) \/ Abandon(c)
        PROVE  IInv'
    BY <2>2, CallerStep, ConnectKeeps DEF IInv, Pools
  <2>3. CASE UNCHANGED vars
    BY <2>3 DEF vars, IInv, Types, Local, Counted, Lives, CacheHoldsOpen, Pooled, Shared, Walking, At
  <2> QED BY <2>1, <2>2, <2>3, GatewayStep DEF Next
<1> QED BY <1>1, <1>2, PTL DEF Spec

-----------------------------------------------------------------------------
(* What follows from it *)

\* The variables keep their types, and no call makes more attempts than its
\* policy grants, for any number of calls, connections and retries.
THEOREM TypeCorrect == Spec => []TypeOK
<1>1. ASSUME IInv
      PROVE  TypeOK
  <2>1. \A c \in Callers : /\ task[c].at \in {"idle", "returned"} \cup Busy
                           /\ task[c].at \in Busy => task[c] \in Call
    BY <1>1, BusyIsCall DEF IInv, Types, Tasks, Call, Past
  <2> QED BY <1>1, <2>1, GatewayAssumption DEF IInv, Types, Counted, Local, TypeOK, Call, At
<1> QED BY <1>1, Inductive, PTL

\* A consumer never hears chunks of two attempts, however many fail.
THEOREM NeverReplays == Spec => []NoReplay
<1>1. ASSUME IInv
      PROVE  NoReplay
  <2> SUFFICES ASSUME NEW c \in Callers, task[c].at \in Busy
               PROVE  Cardinality(task[c].heard) <= 1
    BY DEF NoReplay
  <2>1. task[c].heard = {} \/ task[c].heard = {task[c].attempt}
    BY <1>1 DEF IInv, Local
  <2>2. Cardinality({}) = 0 /\ Cardinality({task[c].attempt}) = 1
    BY FS_EmptySet, FS_Singleton
  <2> QED BY <2>1, <2>2
<1> QED BY <1>1, Inductive, PTL

\* An answer is billed once and a failure never, however many attempts it took.
THEOREM BilledOnce == Spec => []BilledIffAnswered
<1>1. ASSUME IInv
      PROVE  BilledIffAnswered
  <2> SUFFICES ASSUME NEW c \in Callers, task[c].at = "returned"
               PROVE  task[c].billed \in CASE task[c].outcome = "ok"        -> {1}
                                           [] task[c].outcome = "abandoned" -> {0, 1}
                                           [] OTHER                         -> {0}
    BY DEF BilledIffAnswered
  <2>1. task[c] \in Past
    BY <1>1 DEF IInv, Types, Tasks, Call, Busy
  <2> QED BY <1>1, <2>1 DEF IInv, Local, Past
<1> QED BY <1>1, Inductive, PTL

\* A call never gets an adapter that a finished close had closed before.
THEOREM PoolIsOpen == Spec => []CacheHoldsOpen
BY Inductive, PTL DEF IInv

\* However many calls of a connection start together, before the first close
\* they share one adapter.
THEOREM OneAdapter == Spec => []OneAdapterPerKey
<1>1. ASSUME IInv
      PROVE  OneAdapterPerKey
  <2> SUFFICES ASSUME epoch = 0, NEW k \in Keys
               PROVE  Cardinality(Live(k)) <= 1
    BY DEF OneAdapterPerKey
  <2>1. \A a, b \in Live(k) : a = b
    <3>1. CASE \E c \in Callers : At(c, "connecting") /\ task[c].key = k
      <4> PICK c \in Callers : At(c, "connecting") /\ task[c].key = k
        BY <3>1
      <4>1. cache[k] = NoAdapter
        BY <1>1 DEF IInv, Shared
      <4>2. \A a \in Live(k) : a = task[c].adapter
        BY <1>1, <4>1, GatewayAssumption DEF IInv, Live, Shared, Local, At, Busy
      <4> QED BY <4>2
    <3>2. CASE ~ \E c \in Callers : At(c, "connecting") /\ task[c].key = k
      <4>1. \A a \in Live(k) : a = cache[k]
        BY <1>1, <3>2 DEF IInv, Live, Shared, At, Busy
      <4> QED BY <4>1
    <3> QED BY <3>1, <3>2
  <2>2. Live(k) = {} \/ \E a : Live(k) = {a}
    BY <2>1, Zenon
  <2>3. CASE Live(k) = {}
    <3>1. Cardinality({}) = 0
      BY FS_EmptySet
    <3> QED BY <2>3, <3>1
  <2>4. ASSUME NEW a, Live(k) = {a}
        PROVE  Cardinality(Live(k)) <= 1
    <3>1. Cardinality({a}) = 1
      BY FS_Singleton
    <3> QED BY <2>4, <3>1
  <2> QED BY <2>2, <2>3, <2>4
<1> QED BY <1>1, Inductive, PTL

\* The pool shares one adapter per connection until it is closed, and what it
\* holds after a finished close is open, whatever races with whatever.
THEOREM PoolIsSound == Spec => []CacheSound
BY OneAdapter, PoolIsOpen, PTL DEF CacheSound

\* Within the attempts its policy grants, a call is heard once and billed once
\* (complete, stream).
THEOREM AnswersOnce == Spec => []AnsweredOnce
BY TypeCorrect, NeverReplays, BilledOnce, PTL DEF AnsweredOnce

=============================================================================
