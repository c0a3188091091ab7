-------------------------- MODULE MemoryFederation --------------------------
(***************************************************************************)
(* Writes, searches and forgets over the tiers of an agent's memory        *)
(* (MemoryFederation in arcana/memory/federation.py), routed by            *)
(* MemoryRouter, each leg behind the ResilientTier of its tier.            *)
(*                                                                         *)
(* A write or a search fans out to its tiers with asyncio.gather and       *)
(* returns when every leg has; legs of one operation and operations of     *)
(* different clients interleave at every await.  Forget walks the tiers    *)
(* past the breakers.  A backend may answer, fail, report corruption or    *)
(* never answer.  A tier whose breaker is open skips a call; when that is  *)
(* so is the subject of module ResilientTier.  A write that is cut off may *)
(* still land later, when another operation commits the open transaction   *)
(* of the tier's shared connection.  A row counts as stored from its       *)
(* commit on.                                                              *)
(*                                                                         *)
(* Entries carry an id and the number of the operation that wrote them.    *)
(* Ranking and truncation of a search's result are left out: they choose   *)
(* among entries, never between two copies of one.                         *)
(***************************************************************************)
EXTENDS Naturals, FiniteSets, Sequences

CONSTANTS
    Clients,    \* tasks using the federation
    Ids,        \* memory ids
    TierOrder,  \* the registered tiers, in routing order
    ReadOnly,   \* tiers whose backend cannot delete
    Queries,    \* the scopes searches ask for: a tier, or "any"
    MaxOps      \* bound: operations started, the earlier session counting as one

Tiers == {TierOrder[i] : i \in 1..Len(TierOrder)}

ASSUME FederationAssumption ==
    /\ TierOrder \in Seq(STRING) /\ Len(TierOrder) > 0
    /\ \A i, j \in 1..Len(TierOrder) : TierOrder[i] = TierOrder[j] => i = j
    /\ TierOrder[1] = "private"
    /\ \A i \in 1..Len(TierOrder) : TierOrder[i] = "global" => i = Len(TierOrder)
    /\ ReadOnly \subseteq Tiers
    /\ Queries \subseteq Tiers \cup {"any"}
    /\ MaxOps \in Nat \ {0}

VARIABLES
    store,      \* store[t][i]: tier t's copy of id i
    op,         \* op[c]: the operation of client c
    stray,      \* writes cut off at their backend that may land yet: <<tier, entry>>
    started,    \* operations started; a write is numbered by it
    kept,       \* history: <<tier, number>> of every write that landed
    lacked      \* history: <<tier, id>> not visible at some moment of c's search

vars == <<store, op, stray, started, kept, lacked>>

\* number 0: the tier has no row; hidden: the row is archived.
Copy   == [number: 0..MaxOps, hidden: BOOLEAN]
Absent == [number |-> 0, hidden |-> FALSE]

Visible(copy) == copy.number # 0 /\ ~copy.hidden

\* home is the tier of the entry's scope and pool; promoted: importance >= 0.9.
Entry == [id: Ids, number: 1..MaxOps, home: Tiers, promoted: BOOLEAN]

\* The tiers may hold rows of an earlier session: those of operation 1.
Init ==
    /\ \E old \in SUBSET (Tiers \X Ids) :
         /\ store = [t \in Tiers |-> [i \in Ids |->
                       IF <<t, i>> \in old THEN [number |-> 1, hidden |-> FALSE] ELSE Absent]]
         /\ kept = {<<x[1], 1>> : x \in old}
    /\ started = 1
    /\ op = [c \in Clients |-> [at |-> "idle"]]
    /\ stray = {}
    /\ lacked = [c \in Clients |-> {}]

-----------------------------------------------------------------------------
(* Bugs this code could have.  The model uses none of them: each takes the
   place of a definition below to see that a property notices. *)

\* The fan-out goes to every registered tier.
LegsEverywhere(targets, skipped) == [t \in Tiers |-> IF t \in skipped THEN "lost" ELSE "running"]

\* The fan-out returns with its first leg (gather without return_exceptions).
GatheredOne(c) == \E t \in DOMAIN op[c].leg : op[c].leg[t] \in {"done", "lost"}

\* Every lost leg is fatal; no lost leg is.
AllFatal(lost) ==
    IF lost # {} THEN [outcome |-> "raised", reports |-> {}] ELSE [outcome |-> "ok", reports |-> {}]
NoneFatal(lost) == [outcome |-> "ok", reports |-> lost]

\* The last copy merged wins.
MergedLast(c, i) ==
    {TierOrder[n] : n \in {m \in 1..Len(TierOrder) :
        /\ TierOrder[m] \in DOMAIN op[c].leg /\ op[c].seen[TierOrder[m]][i] # 0
        /\ \A k \in 1..Len(TierOrder) :
             k > m /\ TierOrder[k] \in DOMAIN op[c].leg => op[c].seen[TierOrder[k]][i] = 0}}

\* Forget refuses read-only tiers only.
RefusesReadOnly(t) == t \in ReadOnly

-----------------------------------------------------------------------------
(* MemoryRouter *)

\* A promoted private entry also goes to the global tier, when there is one.
RouteWrite(e) ==
    {e.home} \cup {t \in Tiers : t = "global" /\ e.promoted}

\* A query without scope reads every tier; one with a scope reads that tier.
RouteRead(query) == IF query = "any" THEN Tiers ELSE {query}

-----------------------------------------------------------------------------
(* What every step does to the history: while a search is under way, the
   tiers and ids it could have missed are noted. *)

Gaps(c) == {x \in (DOMAIN op[c].leg) \X Ids : ~Visible(store[x[1]][x[2]])}

Noting ==
    lacked' = [c \in Clients |->
                 CASE op'[c].at = "searched" -> lacked[c]
                   [] op'[c].at = "search"   ->
                        Gaps(c)' \cup IF op[c].at = "search" THEN lacked[c] ELSE {}
                   [] OTHER -> {}]

-----------------------------------------------------------------------------
(* write and search, up to gather *)

\* A client that holds no operation starts one.
Free(c) == op[c].at \in {"idle", "wrote", "searched", "forgot"}

Start(c) ==
    /\ Free(c)
    /\ started < MaxOps
    /\ started' = started + 1
    /\ UNCHANGED <<store, stray, kept>>

\* The first steps of the legs run back to back in the loop; a leg whose
\* breaker is open is lost there and then.
Legs(targets, skipped) == [t \in targets |-> IF t \in skipped THEN "lost" ELSE "running"]

StartWrite(c, i, home, promoted) ==
    LET e == [id |-> i, number |-> started + 1, home |-> home, promoted |-> promoted]
    IN  /\ Start(c)
        /\ promoted => home = "private"
        /\ \E skipped \in SUBSET RouteWrite(e) :
             op' = [op EXCEPT ![c] = [at |-> "write", entry |-> e,
                                      leg |-> Legs(RouteWrite(e), skipped)]]

StartSearch(c, query) ==
    /\ Start(c)
    /\ \E skipped \in SUBSET RouteRead(query) :
         op' = [op EXCEPT ![c] = [at |-> "search", leg |-> Legs(RouteRead(query), skipped),
                                  seen |-> [t \in RouteRead(query) |-> [i \in Ids |-> 0]]]]

-----------------------------------------------------------------------------
(* One leg: ResilientTier.write and ResilientTier.search after their breaker *)

Fanned(c, t) == op[c].at \in {"write", "search"} /\ t \in DOMAIN op[c].leg

LegAt(c, t, where) == Fanned(c, t) /\ op[c].leg[t] \in where

\* The upsert of a write is committed (it clears an archived flag).
Land(t, e) ==
    /\ store' = [store EXCEPT ![t][e.id] = [number |-> e.number, hidden |-> FALSE]]
    /\ kept' = kept \cup {<<t, e.number>>}

LegCommit(c, t) ==
    /\ LegAt(c, t, {"running"}) /\ op[c].at = "write"
    /\ Land(t, op[c].entry)
    /\ op' = [op EXCEPT ![c].leg[t] = "landed"]
    /\ UNCHANGED <<stray, started>>

\* The rows of a search are fetched; archived ones are filtered out.
LegFetch(c, t) ==
    /\ LegAt(c, t, {"running"}) /\ op[c].at = "search"
    /\ op' = [op EXCEPT ![c].leg[t] = "landed",
                        ![c].seen[t] = [i \in Ids |-> IF Visible(store[t][i])
                                                      THEN store[t][i].number ELSE 0]]
    /\ UNCHANGED <<store, stray, started, kept>>

LegAnswer(c, t) ==
    /\ LegAt(c, t, {"landed"})
    /\ op' = [op EXCEPT ![c].leg[t] = "done"]
    /\ UNCHANGED <<store, stray, started, kept>>

\* A leg that is cut off may leave its statement with the connection.
CutOff(c, legs) ==
    \/ UNCHANGED stray
    \/ /\ op[c].at = "write"
       /\ stray' = stray \cup {<<t, op[c].entry>> : t \in {u \in legs : op[c].leg[u] = "running"}}

LegLost(c, t) ==
    /\ LegAt(c, t, {"running", "landed"})
    /\ op' = [op EXCEPT ![c].leg[t] = "lost"]
    /\ UNCHANGED <<store, started, kept>>

LegTimeout(c, t) == LegLost(c, t) /\ CutOff(c, {t})

LegError(c, t) == LegLost(c, t) /\ CutOff(c, {t})

\* A corrupt store closes its connection, and the open transaction with it.
LegCorrupt(c, t) ==
    /\ LegLost(c, t)
    /\ stray' = {s \in stray : s[1] # t}

\* A statement that was cut off is committed with some later operation.
StrayLand(t, e) ==
    /\ <<t, e>> \in stray
    /\ Land(t, e)
    /\ stray' = stray \ {<<t, e>>}
    /\ UNCHANGED <<op, started>>

-----------------------------------------------------------------------------
(* write and search, after gather *)

Gathered(c) == \A t \in DOMAIN op[c].leg : op[c].leg[t] \in {"done", "lost"}

Lost(c) == {t \in DOMAIN op[c].leg : op[c].leg[t] = "lost"}

\* A lost private leg raises, whatever the other legs did, and no degraded
\* event is emitted; any other lost leg is reported as degraded.
WriteOutcome(lost) ==
    IF "private" \in lost THEN [outcome |-> "raised", reports |-> {}]
                          ELSE [outcome |-> "ok", reports |-> lost]

FinishWrite(c) ==
    /\ op[c].at = "write"
    /\ Gathered(c)
    /\ LET result == WriteOutcome(Lost(c))
       IN  op' = [op EXCEPT ![c] = [at |-> "wrote", entry |-> op[c].entry,
                                    outcome |-> result.outcome, reports |-> result.reports]]
    /\ UNCHANGED <<store, stray, started, kept>>

\* The places in routing order of the answered tiers that returned a copy of i.
Having(c, i) ==
    {n \in 1..Len(TierOrder) :
        /\ TierOrder[n] \in DOMAIN op[c].leg
        /\ op[c].leg[TierOrder[n]] = "done"
        /\ op[c].seen[TierOrder[n]][i] # 0}

\* First copy wins, in routing order; a lost leg contributes nothing.
MergedFrom(c, i) == {TierOrder[n] : n \in {m \in Having(c, i) : \A k \in Having(c, i) : m <= k}}

FinishSearch(c) ==
    /\ op[c].at = "search"
    /\ Gathered(c)
    /\ op' = [op EXCEPT ![c] =
                [at     |-> "searched",
                 routed |-> DOMAIN op[c].leg,
                 lost   |-> Lost(c),
                 from   |-> [i \in Ids |-> MergedFrom(c, i)]]]
    /\ UNCHANGED <<store, stray, started, kept>>

\* The caller's task is cancelled: gather cancels every leg and waits for them.
CancelFan(c) ==
    /\ op[c].at \in {"write", "search"}
    /\ op' = [op EXCEPT ![c] = [at |-> "idle"]]
    /\ CutOff(c, DOMAIN op[c].leg)
    /\ UNCHANGED <<store, started, kept>>

-----------------------------------------------------------------------------
(* forget: the tiers are asked one after the other, past their breakers; the
   first that has a row is the owner, and an await later the row is deleted. *)

StartForget(c, i, hard) ==
    /\ Start(c)
    /\ op' = [op EXCEPT ![c] = [at |-> "find", id |-> i, hard |-> hard, tier |-> 1]]

Forgot(c, outcome) == op' = [op EXCEPT ![c] = [at |-> "forgot", id |-> op[c].id, outcome |-> outcome]]

\* GlobalDeleteRefused, ReadOnlyTierDelete
Refuses(t) == t = "global" \/ t \in ReadOnly

FindOwner(c) ==
    LET t == TierOrder[op[c].tier]
    IN  /\ op[c].at = "find"
        /\ \/ /\ store[t][op[c].id] = Absent
              /\ IF op[c].tier < Len(TierOrder)
                 THEN op' = [op EXCEPT ![c].tier = op[c].tier + 1]
                 ELSE Forgot(c, "not_found")
           \/ /\ store[t][op[c].id] # Absent
              /\ IF Refuses(t) THEN Forgot(c, "refused")
                 ELSE op' = [op EXCEPT ![c].at = "delete"]
        /\ UNCHANGED <<store, stray, started, kept>>

\* hard removes the row, otherwise it is archived.
RemoveRow(t, i, hard) ==
    /\ store[t][i] # Absent
    /\ store' = [store EXCEPT ![t][i] = IF hard THEN Absent ELSE [@ EXCEPT !.hidden = TRUE]]

\* The row may be gone by the time it is deleted.
DeleteRow(c) ==
    LET t == TierOrder[op[c].tier]
        i == op[c].id
    IN  /\ op[c].at = "delete"
        /\ \/ RemoveRow(t, i, op[c].hard) /\ Forgot(c, "found")
           \/ store[t][i] = Absent /\ Forgot(c, "not_found") /\ UNCHANGED store
        /\ UNCHANGED <<stray, started, kept>>

\* An error of the backend, or a cancellation, surfaces from forget, whether
\* or not the row was deleted.
ForgetFails(c) ==
    /\ op[c].at \in {"find", "delete"}
    /\ Forgot(c, "raised")
    /\ \/ UNCHANGED store
       \/ op[c].at = "delete" /\ RemoveRow(TierOrder[op[c].tier], op[c].id, op[c].hard)
    /\ UNCHANGED <<stray, started, kept>>

-----------------------------------------------------------------------------
\* The bound is used up and nothing is under way: the only place to stop.
Quiet ==
    /\ started = MaxOps
    /\ \A c \in Clients : Free(c)
    /\ stray = {}
    /\ UNCHANGED <<store, op, stray, started, kept>>

ClientStep(c) ==
    \/ \E i \in Ids, home \in Tiers \ ReadOnly, promoted \in BOOLEAN :
          StartWrite(c, i, home, promoted)
    \/ \E query \in Queries : StartSearch(c, query)
    \/ \E i \in Ids, hard \in BOOLEAN : StartForget(c, i, hard)
    \/ \E t \in Tiers : LegCommit(c, t)
    \/ \E t \in Tiers : LegFetch(c, t)
    \/ \E t \in Tiers : LegAnswer(c, t)
    \/ \E t \in Tiers : LegTimeout(c, t)
    \/ \E t \in Tiers : LegError(c, t)
    \/ \E t \in Tiers : LegCorrupt(c, t)
    \/ FinishWrite(c)
    \/ FinishSearch(c)
    \/ CancelFan(c)
    \/ FindOwner(c)
    \/ DeleteRow(c)
    \/ ForgetFails(c)

Next ==
    /\ \/ \E c \in Clients : ClientStep(c)
       \/ \E s \in stray : StrayLand(s[1], s[2])
       \/ Quiet
    /\ Noting

Spec == Init /\ [][Next]_vars

-----------------------------------------------------------------------------
(* Properties *)

LegState == {"running", "landed", "done", "lost"}

WriteOp(x) ==
    /\ x.entry \in Entry
    /\ x.leg \in [RouteWrite(x.entry) -> LegState]

SearchOp(x) ==
    /\ \E query \in Queries : DOMAIN x.leg = RouteRead(query)
    /\ x.leg \in [DOMAIN x.leg -> LegState]
    /\ x.seen \in [DOMAIN x.leg -> [Ids -> 0..MaxOps]]

\* Every variable keeps the values the code can give it; in particular an
\* operation has a leg for each tier it was routed to and for no other.
TypeOK ==
    /\ store \in [Tiers -> [Ids -> Copy]]
    /\ DOMAIN op = Clients
    /\ \A c \in Clients :
         CASE op[c].at = "idle"     -> TRUE
           [] op[c].at = "write"    -> WriteOp(op[c])
           [] op[c].at = "search"   -> SearchOp(op[c])
           [] op[c].at = "wrote"    -> op[c].entry \in Entry /\ op[c].reports \subseteq Tiers
           [] op[c].at = "searched" -> op[c].from \in [Ids -> SUBSET Tiers]
           [] op[c].at = "forgot"   -> op[c].id \in Ids
           [] OTHER                 -> /\ op[c].id \in Ids
                                       /\ op[c].tier \in 1..Len(TierOrder)
    /\ stray \subseteq Tiers \X Entry
    /\ started \in 0..MaxOps
    /\ kept \subseteq Tiers \X (1..MaxOps)
    /\ lacked \in [Clients -> SUBSET (Tiers \X Ids)]

\* A write that returns normally has landed in every tier it was routed to,
\* except those it reported as degraded, and never the private one
\* (MemoryFederation.write).
NoSilentLoss ==
    \A c \in Clients :
        op[c].at = "wrote" /\ op[c].outcome = "ok" =>
            \A t \in RouteWrite(op[c].entry) :
                \/ <<t, op[c].entry.number>> \in kept
                \/ t # "private" /\ t \in op[c].reports

\* An operation has a leg for each routed tier and no other, and what it does not
\* report as lost is stored (write).
WritesAccounted == TypeOK /\ NoSilentLoss

\* The private tier is the anchor: a write whose private leg was answered
\* returns normally, however the shared and global tiers fare.
AnchorDecides ==
    [][\A c \in Clients :
         /\ op[c].at = "write" /\ op'[c].at = "wrote"
         /\ ("private" \in DOMAIN op[c].leg => op[c].leg["private"] = "done")
         => op'[c].outcome = "ok"]_vars

\* A search returns a copy from a farther tier only if each nearer tier it was
\* routed to was lost, or did not show the id at some moment of the search
\* (_gather_merged: most-local copy wins).
MostLocalWins ==
    \A c \in Clients :
        op[c].at = "searched" =>
            \A i \in Ids, far, near \in 1..Len(TierOrder) :
                /\ near < far
                /\ TierOrder[far] \in op[c].from[i]
                /\ TierOrder[near] \in op[c].routed
                => TierOrder[near] \in op[c].lost \/ <<TierOrder[near], i>> \in lacked[c]

\* A global copy is never deleted or archived by a forget, whatever moves
\* between the tiers while the forget looks for the owner (forget).
ForgetSparesGlobal ==
    [][\A t \in Tiers, i \in Ids :
         t = "global" /\ store[t][i] # Absent => Visible(store'[t][i])]_vars

\* The private leg decides whether a write raises, and no step takes a global row
\* (write, forget).
StepsAllowed == AnchorDecides /\ ForgetSparesGlobal

Anchor == INSTANCE DurableMemory WITH
    Keys   <- Ids,
    rows   <- [i \in Ids |-> store["private"][i]],
    asked  <- started,
    landed <- {n \in 1..started : <<"private", n>> \in kept},
    acked  <- {n \in 1..started : \E c \in Clients :
                  /\ op[c].at = "wrote" /\ op[c].outcome = "ok"
                  /\ op[c].entry.number = n /\ op[c].entry.home = "private"}

\* The private tier, seen through the federation, is a durable store: what is
\* acknowledged was stored, and each write is stored at most once, so a late
\* write cannot bring back what it stored before it was forgotten.
AnchorIsDurable == Anchor!DurableSpec

=============================================================================
