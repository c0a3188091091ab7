------------------------- MODULE MemoryFederationProofs -------------------------
(***************************************************************************)
(* Safety of the federation for any number of clients, ids and tiers.      *)
(***************************************************************************)
EXTENDS MemoryFederation, TLAPS

Rec(c) ==
    CASE op[c].at = "write"  -> [at |-> "write", entry |-> op[c].entry, leg |-> op[c].leg]
      [] op[c].at = "search" -> [at |-> "search", leg |-> op[c].leg, seen |-> op[c].seen]
      [] op[c].at \in {"find", "delete"} ->
           [at |-> op[c].at, id |-> op[c].id, hard |-> op[c].hard, tier |-> op[c].tier]
      [] OTHER -> op[c]

\* An operation has the fields of its kind.
Shape(c) ==
    /\ op[c].at \in {"idle", "write", "search", "wrote", "searched", "forgot", "find", "delete"}
    /\ op[c] = Rec(c)
    /\ op[c].at = "write" => WriteOp(op[c])
    /\ op[c].at = "search" => SearchOp(op[c])
    /\ op[c].at = "wrote" => op[c].entry \in Entry /\ op[c].reports \subseteq Tiers
    /\ op[c].at = "searched" => op[c].from \in [Ids -> SUBSET Tiers]
    /\ op[c].at = "forgot" => op[c].id \in Ids
    /\ op[c].at \in {"find", "delete"} => op[c].id \in Ids /\ op[c].tier \in 1..Len(TierOrder)

Types ==
    /\ store \in [Tiers -> [Ids -> Copy]]
    /\ op = [c \in Clients |-> op[c]]
    /\ stray \subseteq Tiers \X Entry
    /\ started \in 0..MaxOps
    /\ kept \subseteq Tiers \X (1..MaxOps)
    /\ lacked \in [Clients -> SUBSET (Tiers \X Ids)]

\* A leg of a write that landed was stored; a write that returned normally was
\* stored wherever it was not reported.
Written(c) ==
    /\ op[c].at = "write" =>
         \A t \in DOMAIN op[c].leg :
             op[c].leg[t] \in {"landed", "done"} => <<t, op[c].entry.number>> \in kept
    /\ op[c].at = "wrote" /\ op[c].outcome = "ok" =>
         \A t \in RouteWrite(op[c].entry) :
             \/ <<t, op[c].entry.number>> \in kept
             \/ t # "private" /\ t \in op[c].reports

\* An id that the fetch of a leg did not return was lacked there; so a farther
\* copy comes only past such a leg or a lost one.
Searched(c) ==
    /\ op[c].at = "search" =>
         \A t \in DOMAIN op[c].leg, i \in Ids :
             op[c].leg[t] \in {"landed", "done"} /\ op[c].seen[t][i] = 0 => <<t, i>> \in lacked[c]
    /\ op[c].at = "searched" =>
         \A i \in Ids, far, near \in 1..Len(TierOrder) :
             near < far /\ TierOrder[far] \in op[c].from[i] /\ TierOrder[near] \in op[c].routed
             => TierOrder[near] \in op[c].lost \/ <<TierOrder[near], i>> \in lacked[c]

\* Only a row of a tier that lets it be deleted is about to be.
Deleting(c) == op[c].at = "delete" => ~Refuses(TierOrder[op[c].tier])

Sound(c) == Shape(c) /\ Written(c) /\ Searched(c) /\ Deleting(c)

\* No global row is archived.
GlobalShown == "global" \in Tiers => \A i \in Ids : ~store["global"][i].hidden

IInv == Types /\ GlobalShown /\ \A c \in Clients : Sound(c)

-----------------------------------------------------------------------------
(* Parts of a step *)

\* The tiers of an operation are registered (MemoryRouter).
LEMMA Routed ==
    /\ \A e \in Entry : RouteWrite(e) \subseteq Tiers
    /\ \A query \in Queries : RouteRead(query) \subseteq Tiers
    /\ \A n \in 1..Len(TierOrder) : TierOrder[n] \in Tiers
BY FederationAssumption DEF Entry, RouteWrite, RouteRead, Tiers

\* The legs of a fan-out are legs of registered tiers.
LEMMA Fans ==
    ASSUME IInv, NEW c \in Clients, op[c].at \in {"write", "search"}
    PROVE  /\ DOMAIN op[c].leg \subseteq Tiers
           /\ op[c].leg \in [DOMAIN op[c].leg -> LegState]
<1>1. CASE op[c].at = "write"
  BY <1>1, Routed DEF IInv, Sound, Shape, WriteOp
<1>2. CASE op[c].at = "search"
  BY <1>2, Routed DEF IInv, Sound, Shape, SearchOp
<1> QED BY <1>1, <1>2

\* A step of one client that loses nothing that was stored leaves the other
\* clients sound.
LEMMA OthersSound ==
    ASSUME IInv, Noting, NEW d \in Clients, op'[d] = op[d], kept \subseteq kept'
    PROVE  Sound(d)'
<1>1. Shape(d)' /\ Deleting(d)'
  BY DEF IInv, Sound, Shape, Rec, Deleting
<1>2. op[d].at = "search" => lacked[d] \subseteq lacked'[d]
  BY DEF Noting
<1>3. op[d].at = "searched" => lacked'[d] = lacked[d]
  BY DEF Noting
<1>4. Written(d)'
  BY DEF IInv, Sound, Written
<1>5. Searched(d)'
  BY <1>2, <1>3 DEF IInv, Sound, Searched
<1> QED BY <1>1, <1>4, <1>5 DEF Sound

\* What is noted is a set of tiers and ids.
LEMMA NotingType ==
    ASSUME IInv, Noting, \A c \in Clients : Shape(c)'
    PROVE  lacked' \in [Clients -> SUBSET (Tiers \X Ids)]
<1> SUFFICES ASSUME NEW c \in Clients
             PROVE  lacked'[c] \subseteq Tiers \X Ids
  BY DEF Noting
<1>1. lacked[c] \subseteq Tiers \X Ids
  BY DEF IInv, Types
<1>2. op'[c].at = "search" => DOMAIN op'[c].leg \subseteq Tiers
  BY Routed DEF Shape, SearchOp
<1>3. op'[c].at = "search" => Gaps(c)' \subseteq Tiers \X Ids
  BY <1>2 DEF Gaps
<1> QED BY <1>1, <1>3 DEF Noting

\* What one client does, with all its conditions, keeps the invariant.
LEMMA ClientKeeps ==
    ASSUME IInv, Noting, NEW c \in Clients, NEW r, op' = [op EXCEPT ![c] = r], Sound(c)',
           store' \in [Tiers -> [Ids -> Copy]], stray' \subseteq Tiers \X Entry,
           started' \in 0..MaxOps, kept \subseteq kept', kept' \subseteq Tiers \X (1..MaxOps), GlobalShown'
    PROVE  IInv'
<1>1. \A d \in Clients \ {c} : op'[d] = op[d]
  BY DEF IInv, Types
<1>2. \A d \in Clients : Sound(d)'
  BY <1>1, OthersSound
<1>3. lacked' \in [Clients -> SUBSET (Tiers \X Ids)]
  BY <1>2, NotingType DEF Sound
<1>4. op' = [d \in Clients |-> op'[d]]
  BY DEF IInv, Types
<1> QED BY <1>2, <1>3, <1>4 DEF IInv, Types

\* A committed upsert is a row that shows, and is remembered as stored.
LEMMA LandType ==
    ASSUME IInv, NEW t \in Tiers, NEW e \in Entry, Land(t, e)
    PROVE  /\ store' \in [Tiers -> [Ids -> Copy]] /\ GlobalShown'
           /\ kept \subseteq kept' /\ kept' \subseteq Tiers \X (1..MaxOps) /\ <<t, e.number>> \in kept'
<1> DEFINE row == [number |-> e.number, hidden |-> FALSE]
<1>1. row \in Copy /\ ~row.hidden /\ e.id \in Ids /\ e.number \in 1..MaxOps
  BY FederationAssumption DEF Copy, Entry
<1>2. store' = [store EXCEPT ![t] = [store[t] EXCEPT ![e.id] = row]]
  BY Zenon DEF Land, IInv, Types
<1> HIDE DEF row
<1>3. store' \in [Tiers -> [Ids -> Copy]]
  BY <1>1, <1>2 DEF IInv, Types
<1>4. GlobalShown'
  BY <1>1, <1>2 DEF IInv, Types, GlobalShown
<1> QED BY <1>1, <1>3, <1>4 DEF Land, IInv, Types

\* A forget removes or archives a row, of no global tier.
LEMMA RemoveType ==
    ASSUME IInv, NEW t \in Tiers, t # "global", NEW i \in Ids, NEW hard, RemoveRow(t, i, hard)
    PROVE  store' \in [Tiers -> [Ids -> Copy]] /\ GlobalShown'
<1> DEFINE row == IF hard THEN Absent ELSE [store[t][i] EXCEPT !.hidden = TRUE]
<1>a. Absent \in Copy
  BY FederationAssumption DEF Copy, Absent
<1>b. store[t][i] \in Copy
  BY DEF IInv, Types
<1>c. [store[t][i] EXCEPT !.hidden = TRUE] \in Copy
  BY <1>b DEF Copy
<1>1. row \in Copy
  BY <1>a, <1>c
<1>2. store' = [store EXCEPT ![t] = [store[t] EXCEPT ![i] = row]]
  BY Zenon DEF RemoveRow, IInv, Types
<1> HIDE DEF row
<1> QED BY <1>1, <1>2 DEF IInv, Types, GlobalShown

-----------------------------------------------------------------------------
(* The steps of a client *)

\* A write starts with a leg for each tier it is routed to.
LEMMA StartsWrite ==
    ASSUME IInv, Noting, NEW c \in Clients, NEW i \in Ids, NEW home \in Tiers, NEW promoted \in BOOLEAN,
           StartWrite(c, i, home, promoted)
    PROVE  IInv'
<1> DEFINE e == [id |-> i, number |-> started + 1, home |-> home, promoted |-> promoted]
<1>1. /\ started < MaxOps /\ started' = started + 1
      /\ store' = store /\ stray' = stray /\ kept' = kept
  BY DEF StartWrite, Start
<1>2. e \in Entry
  BY <1>1, FederationAssumption DEF Entry, IInv, Types
<1>3. PICK skipped \in SUBSET RouteWrite(e) :
        op' = [op EXCEPT ![c] = [at |-> "write", entry |-> e, leg |-> Legs(RouteWrite(e), skipped)]]
  BY DEF StartWrite
<1> DEFINE r == [at |-> "write", entry |-> e, leg |-> Legs(RouteWrite(e), skipped)]
<1> HIDE DEF e
<1>4. r.leg \in [RouteWrite(e) -> LegState] /\ \A t \in DOMAIN r.leg : r.leg[t] \notin {"landed", "done"}
  BY DEF Legs, LegState
<1>5. r.at = "write" /\ r.entry = e /\ r = [at |-> "write", entry |-> r.entry, leg |-> r.leg]
  OBVIOUS
<1> HIDE DEF r
<1>6. op'[c] = r
  BY <1>3 DEF r, IInv, Types
<1>7. Sound(c)'
  BY <1>2, <1>4, <1>5, <1>6 DEF Sound, Shape, Rec, WriteOp, Written, Searched, Deleting
<1>8. started' \in 0..MaxOps
  BY <1>1, FederationAssumption DEF IInv, Types
<1>9. op' = [op EXCEPT ![c] = r]
  BY <1>3 DEF r
<1> QED BY <1>1, <1>7, <1>8, <1>9, ClientKeeps DEF IInv, Types, GlobalShown

\* So does a search; none of its legs has fetched.
LEMMA StartsSearch ==
    ASSUME IInv, Noting, NEW c \in Clients, NEW query \in Queries, StartSearch(c, query)
    PROVE  IInv'
<1>1. /\ started < MaxOps /\ started' = started + 1
      /\ store' = store /\ stray' = stray /\ kept' = kept
  BY DEF StartSearch, Start
<1> DEFINE R == RouteRead(query)
           none == [t \in R |-> [i \in Ids |-> 0]]
<1>2. PICK skipped \in SUBSET R :
        op' = [op EXCEPT ![c] = [at |-> "search", leg |-> Legs(R, skipped), seen |-> none]]
  BY DEF StartSearch
<1> DEFINE r == [at |-> "search", leg |-> Legs(R, skipped), seen |-> none]
<1>3. r.leg \in [R -> LegState] /\ \A t \in R : r.leg[t] \notin {"landed", "done"}
  BY DEF Legs, LegState
<1>4. r.seen \in [R -> [Ids -> 0..MaxOps]]
  BY FederationAssumption
<1>5. r.at = "search" /\ r = [at |-> "search", leg |-> r.leg, seen |-> r.seen]
  OBVIOUS
<1>a. op' = [op EXCEPT ![c] = r]
  BY <1>2
<1> HIDE DEF r, R
<1>6. op'[c] = r
  BY <1>a DEF IInv, Types
<1>7. Sound(c)'
  BY <1>3, <1>4, <1>5, <1>6 DEF R, Sound, Shape, Rec, SearchOp, Written, Searched, Deleting
<1>8. started' \in 0..MaxOps
  BY <1>1, FederationAssumption DEF IInv, Types
<1> QED BY <1>1, <1>7, <1>8, <1>a, ClientKeeps DEF IInv, Types, GlobalShown

\* A leg that moves keeps its operation otherwise.
LEMMA LegMoves ==
    ASSUME IInv, NEW c \in Clients, op[c].at \in {"write", "search"}, NEW t \in DOMAIN op[c].leg,
           NEW where \in LegState,
           op' = [op EXCEPT ![c] = [op[c] EXCEPT !.leg = [op[c].leg EXCEPT ![t] = where]]]
    PROVE  LET leg == [op[c].leg EXCEPT ![t] = where]
               r == [op[c] EXCEPT !.leg = leg]
           IN  /\ op' = [op EXCEPT ![c] = r] /\ op'[c] = r
               /\ Shape(c)'
               /\ r.at = op[c].at /\ r.leg = leg /\ DOMAIN leg = DOMAIN op[c].leg
               /\ r.leg \in [DOMAIN op[c].leg -> LegState]
               /\ op[c].at = "write" => r.entry = op[c].entry
               /\ op[c].at = "search" => r.seen = op[c].seen
<1> DEFINE leg == [op[c].leg EXCEPT ![t] = where]
           r == [op[c] EXCEPT !.leg = leg]
<1>1. leg \in [DOMAIN op[c].leg -> LegState] /\ DOMAIN leg = DOMAIN op[c].leg
  BY Fans
<1>2. op' = [op EXCEPT ![c] = r]
  OBVIOUS
<1> HIDE DEF leg
<1>3. op[c] = Rec(c) /\ Shape(c)
  BY DEF IInv, Sound, Shape
<1>4. CASE op[c].at = "write"
  <2>1. op[c] = [at |-> "write", entry |-> op[c].entry, leg |-> op[c].leg]
    BY <1>3, <1>4 DEF Rec
  <2>2. r.at = "write" /\ r.entry = op[c].entry /\ r.leg = leg
        /\ r = [at |-> "write", entry |-> r.entry, leg |-> r.leg]
    BY <2>1
  <2> HIDE DEF r
  <2>3. op'[c] = r
    BY <1>2 DEF IInv, Types
  <2>4. WriteOp(r)
    BY <1>1, <1>3, <1>4, <2>2 DEF Shape, WriteOp
  <2>5. Shape(c)'
    BY <2>2, <2>3, <2>4 DEF Shape, Rec
  <2> QED BY <1>1, <1>2, <1>4, <2>2, <2>3, <2>5 DEF leg, r
<1>5. CASE op[c].at = "search"
  <2>1. op[c] = [at |-> "search", leg |-> op[c].leg, seen |-> op[c].seen]
    BY <1>3, <1>5 DEF Rec
  <2>2. r.at = "search" /\ r.seen = op[c].seen /\ r.leg = leg
        /\ r = [at |-> "search", leg |-> r.leg, seen |-> r.seen]
    BY <2>1
  <2> HIDE DEF r
  <2>3. op'[c] = r
    BY <1>2 DEF IInv, Types
  <2>4. SearchOp(r)
    BY <1>1, <1>3, <1>5, <2>2 DEF Shape, SearchOp
  <2>5. Shape(c)'
    BY <2>2, <2>3, <2>4 DEF Shape, Rec
  <2> QED BY <1>1, <1>2, <1>5, <2>2, <2>3, <2>5 DEF leg, r
<1> QED BY <1>4, <1>5

\* The commit of a leg is remembered before the leg counts as landed.
LEMMA Commits ==
    ASSUME IInv, Noting, NEW c \in Clients, NEW t \in Tiers, LegCommit(c, t)
    PROVE  IInv'
<1>1. op[c].at = "write" /\ t \in DOMAIN op[c].leg /\ op[c].entry \in Entry
  BY DEF LegCommit, LegAt, Fanned, IInv, Sound, Shape, WriteOp
<1>2. /\ store' \in [Tiers -> [Ids -> Copy]] /\ GlobalShown'
      /\ kept \subseteq kept' /\ kept' \subseteq Tiers \X (1..MaxOps)
      /\ <<t, op[c].entry.number>> \in kept'
  BY <1>1, LandType DEF LegCommit
<1> DEFINE leg == [op[c].leg EXCEPT ![t] = "landed"]
           r == [op[c] EXCEPT !.leg = leg]
<1>a. op' = [op EXCEPT ![c] = [op[c] EXCEPT !.leg = [op[c].leg EXCEPT ![t] = "landed"]]]
  BY Zenon DEF LegCommit
<1>3. /\ op' = [op EXCEPT ![c] = r] /\ op'[c] = r /\ Shape(c)'
      /\ r.at = "write" /\ r.leg = leg /\ r.entry = op[c].entry /\ DOMAIN leg = DOMAIN op[c].leg
  BY <1>1, <1>a, LegMoves DEF LegState
<1>4. \A u \in DOMAIN leg : u # t => leg[u] = op[c].leg[u]
  OBVIOUS
<1> HIDE DEF leg, r
<1>5. Written(c)'
  BY <1>1, <1>2, <1>3, <1>4 DEF Written, IInv, Sound
<1>6. Sound(c)'
  BY <1>3, <1>5 DEF Sound, Searched, Deleting
<1> QED BY <1>2, <1>3, <1>6, ClientKeeps DEF LegCommit, IInv, Types

\* What a fetch does not return is noted in the same step.
LEMMA Fetches ==
    ASSUME IInv, Noting, NEW c \in Clients, NEW t \in Tiers, LegFetch(c, t)
    PROVE  IInv'
<1> DEFINE leg == [op[c].leg EXCEPT ![t] = "landed"]
           rows == [i \in Ids |-> IF Visible(store[t][i]) THEN store[t][i].number ELSE 0]
           seen == [op[c].seen EXCEPT ![t] = rows]
           r == [op[c] EXCEPT !.leg = leg, !.seen = seen]
<1>1. op[c].at = "search" /\ t \in DOMAIN op[c].leg /\ SearchOp(op[c])
      /\ op[c] = [at |-> "search", leg |-> op[c].leg, seen |-> op[c].seen]
  BY DEF LegFetch, LegAt, Fanned, IInv, Sound, Shape, Rec
<1>2. op' = [op EXCEPT ![c] = r]
  BY Zenon DEF LegFetch
<1>3. rows \in [Ids -> 0..MaxOps]
  BY FederationAssumption DEF IInv, Types, Copy
<1>4. leg \in [DOMAIN op[c].leg -> LegState] /\ DOMAIN leg = DOMAIN op[c].leg
  BY <1>1, Fans DEF LegState
<1>5. seen \in [DOMAIN op[c].leg -> [Ids -> 0..MaxOps]]
  BY <1>1, <1>3 DEF SearchOp
<1>6. \A i \in Ids : rows[i] = 0 => ~Visible(store[t][i])
  BY DEF Visible
<1>7. seen[t] = rows /\ \A u \in DOMAIN leg \ {t} : leg[u] = op[c].leg[u] /\ seen[u] = op[c].seen[u]
  BY <1>1, <1>4, <1>5 DEF SearchOp
<1> HIDE DEF leg, seen, rows
<1> DEFINE whole == [at |-> "search", leg |-> op[c].leg, seen |-> op[c].seen]
<1>a. [whole EXCEPT !.leg = leg] = [at |-> "search", leg |-> leg, seen |-> op[c].seen]
  OBVIOUS
<1>b. [[at |-> "search", leg |-> leg, seen |-> op[c].seen] EXCEPT !.seen = seen]
      = [at |-> "search", leg |-> leg, seen |-> seen]
  OBVIOUS
<1>c. r = [[whole EXCEPT !.leg = leg] EXCEPT !.seen = seen]
  BY <1>1, Zenon
<1>8. r.at = "search" /\ r.leg = leg /\ r.seen = seen /\ r = [at |-> "search", leg |-> r.leg, seen |-> r.seen]
  BY <1>a, <1>b, <1>c
<1> HIDE DEF r
<1>9. op'[c] = r
  BY <1>2 DEF IInv, Types
<1>10. store' = store /\ stray' = stray /\ started' = started /\ kept' = kept
  BY DEF LegFetch
<1>11. lacked'[c] = Gaps(c)' \cup lacked[c]
  BY <1>1, <1>8, <1>9 DEF Noting
<1>12. Searched(c)'
  <2> SUFFICES ASSUME NEW u \in DOMAIN leg, NEW i \in Ids, leg[u] \in {"landed", "done"}, seen[u][i] = 0
               PROVE  <<u, i>> \in lacked'[c]
    BY <1>8, <1>9 DEF Searched
  <2>1. CASE u = t
    BY <1>6, <1>7, <1>8, <1>9, <1>10, <1>11, <2>1 DEF Gaps
  <2>2. CASE u # t
    BY <1>1, <1>4, <1>7, <1>11, <2>2 DEF Searched, IInv, Sound
  <2> QED BY <2>1, <2>2
<1>13. Shape(c)'
  BY <1>1, <1>4, <1>5, <1>8, <1>9 DEF Shape, Rec, SearchOp
<1>14. Sound(c)'
  BY <1>8, <1>9, <1>12, <1>13 DEF Sound, Written, Deleting
<1> QED BY <1>2, <1>10, <1>14, ClientKeeps DEF IInv, Types, GlobalShown

\* A leg that is answered or lost has landed nothing new.
LEMMA LegEnds ==
    ASSUME IInv, Noting, NEW c \in Clients, NEW t \in Tiers, NEW where \in {"done", "lost"},
           Fanned(c, t), where = "done" => op[c].leg[t] = "landed",
           op' = [op EXCEPT ![c] = [op[c] EXCEPT !.leg = [op[c].leg EXCEPT ![t] = where]]],
           UNCHANGED <<store, started, kept>>, stray' \subseteq Tiers \X Entry
    PROVE  IInv'
<1> DEFINE leg == [op[c].leg EXCEPT ![t] = where]
           r == [op[c] EXCEPT !.leg = leg]
<1>1. op[c].at \in {"write", "search"} /\ t \in DOMAIN op[c].leg /\ where \in LegState
  BY DEF Fanned, LegState
<1>2. /\ op' = [op EXCEPT ![c] = r] /\ op'[c] = r /\ Shape(c)'
      /\ r.at = op[c].at /\ r.leg = leg /\ DOMAIN leg = DOMAIN op[c].leg
      /\ op[c].at = "write" => r.entry = op[c].entry
      /\ op[c].at = "search" => r.seen = op[c].seen
  <2>1. op' = [op EXCEPT ![c] = r]
    OBVIOUS
  <2>2. op'[c] = r
    BY DEF IInv, Types
  <2>6. Shape(c)'
    BY <1>1, LegMoves
  <2>3. r.at = op[c].at /\ r.leg = leg /\ DOMAIN leg = DOMAIN op[c].leg
    BY <1>1, LegMoves
  <2>4. op[c].at = "write" => r.entry = op[c].entry
    BY <1>1, LegMoves
  <2>5. op[c].at = "search" => r.seen = op[c].seen
    BY <1>1, LegMoves
  <2> QED BY <2>1, <2>2, <2>3, <2>4, <2>5, <2>6
<1>3. \A u \in DOMAIN leg : leg[u] \in {"landed", "done"} => op[c].leg[u] \in {"landed", "done"}
  BY <1>1
<1> HIDE DEF leg, r
<1>4. Written(c)'
  BY <1>1, <1>2, <1>3 DEF Written, IInv, Sound
<1>5. op[c].at = "search" => lacked[c] \subseteq lacked'[c]
  BY <1>2 DEF Noting
<1>6. Searched(c)'
  BY <1>1, <1>2, <1>3, <1>5 DEF Searched, IInv, Sound
<1>7. Sound(c)'
  BY <1>1, <1>2, <1>4, <1>6 DEF Sound, Deleting
<1> QED BY <1>2, <1>7, ClientKeeps DEF IInv, Types, GlobalShown

\* A statement that is cut off was part of a write.
LEMMA CutOffType ==
    ASSUME IInv, NEW c \in Clients, op[c].at \in {"write", "search"},
           NEW legs \in SUBSET DOMAIN op[c].leg, CutOff(c, legs)
    PROVE  stray' \subseteq Tiers \X Entry
<1>1. DOMAIN op[c].leg \subseteq Tiers /\ (op[c].at = "write" => op[c].entry \in Entry)
  BY Fans DEF IInv, Sound, Shape, WriteOp
<1> QED BY <1>1 DEF CutOff, IInv, Types

\* An operation that gathers its legs, or is cancelled, ends with what they
\* were.
LEMMA Gathers ==
    ASSUME IInv, Noting, NEW c \in Clients, FinishWrite(c) \/ FinishSearch(c) \/ CancelFan(c)
    PROVE  IInv'
<1>1. ASSUME FinishWrite(c)
      PROVE  IInv'
  <2> DEFINE result == WriteOutcome(Lost(c))
             r == [at |-> "wrote", entry |-> op[c].entry, outcome |-> result.outcome,
                   reports |-> result.reports]
  <2>1. op[c].at = "write" /\ WriteOp(op[c]) /\ Gathered(c) /\ DOMAIN op[c].leg = RouteWrite(op[c].entry)
    BY <1>1 DEF FinishWrite, IInv, Sound, Shape, WriteOp
  <2>2. op' = [op EXCEPT ![c] = r]
    BY <1>1 DEF FinishWrite
  <2>3. Lost(c) \subseteq Tiers
    BY <2>1, Fans DEF Lost
  <2>4. result.reports \subseteq Tiers /\ (result.outcome = "ok" => result.reports = Lost(c) /\ "private" \notin Lost(c))
    BY <2>3 DEF WriteOutcome
  <2> HIDE DEF result
  <2>5. r.at = "wrote" /\ r.entry = op[c].entry /\ r.outcome = result.outcome /\ r.reports = result.reports
    OBVIOUS
  <2> HIDE DEF r
  <2>6. op'[c] = r
    BY <2>2 DEF IInv, Types
  <2>7. \A t \in RouteWrite(op[c].entry) : <<t, op[c].entry.number>> \in kept \/ t \in Lost(c)
    BY <2>1 DEF Gathered, Lost, IInv, Sound, Written
  <2>8. UNCHANGED <<store, stray, started, kept>>
    BY <1>1 DEF FinishWrite
  <2>a. Shape(c)'
    BY <2>1, <2>4, <2>5, <2>6, <2>8 DEF Shape, Rec, WriteOp
  <2>b. Written(c)'
    BY <2>4, <2>5, <2>6, <2>7, <2>8 DEF Written
  <2>c. Searched(c)' /\ Deleting(c)'
    BY <2>5, <2>6 DEF Searched, Deleting
  <2>9. Sound(c)'
    BY <2>a, <2>b, <2>c DEF Sound
  <2> QED BY <2>2, <2>8, <2>9, ClientKeeps DEF IInv, Types, GlobalShown
<1>2. ASSUME FinishSearch(c)
      PROVE  IInv'
  <2> DEFINE r == [at |-> "searched", routed |-> DOMAIN op[c].leg, lost |-> Lost(c),
                   from |-> [i \in Ids |-> MergedFrom(c, i)]]
  <2>1. op[c].at = "search" /\ Gathered(c)
    BY <1>2 DEF FinishSearch
  <2>2. op' = [op EXCEPT ![c] = r]
    BY <1>2 DEF FinishSearch
  <2>3. r.at = "searched" /\ r.routed = DOMAIN op[c].leg /\ r.lost = Lost(c)
        /\ r.from = [i \in Ids |-> MergedFrom(c, i)]
    OBVIOUS
  <2> HIDE DEF r
  <2>4. op'[c] = r
    BY <2>2 DEF IInv, Types
  <2>5. UNCHANGED <<store, stray, started, kept>>
    BY <1>2 DEF FinishSearch
  <2>6. lacked'[c] = lacked[c]
    BY <2>3, <2>4 DEF Noting
  <2>7. r.from \in [Ids -> SUBSET Tiers]
    BY <2>3, Routed DEF MergedFrom, Having
  <2>8. ASSUME NEW i \in Ids, NEW far \in 1..Len(TierOrder), NEW near \in 1..Len(TierOrder),
               near < far, TierOrder[far] \in MergedFrom(c, i), TierOrder[near] \in DOMAIN op[c].leg
        PROVE  TierOrder[near] \in Lost(c) \/ <<TierOrder[near], i>> \in lacked[c]
    <3>1. PICK m \in Having(c, i) : TierOrder[m] = TierOrder[far] /\ \A k \in Having(c, i) : m <= k
      BY <2>8 DEF MergedFrom
    <3>2. m = far
      BY <3>1, FederationAssumption DEF Having
    <3>3. near \notin Having(c, i)
      BY <2>8, <3>1, <3>2
    <3>4. op[c].leg[TierOrder[near]] = "lost" \/ op[c].seen[TierOrder[near]][i] = 0
      BY <2>1, <2>8, <3>3 DEF Having, Gathered
    <3> QED BY <2>1, <2>8, <3>4 DEF Lost, Gathered, IInv, Sound, Searched
  <2>9. Searched(c)'
    BY <2>3, <2>4, <2>6, <2>8 DEF Searched
  <2>10. Sound(c)'
    BY <2>3, <2>4, <2>7, <2>9 DEF Sound, Shape, Rec, Written, Deleting
  <2> QED BY <2>2, <2>5, <2>10, ClientKeeps DEF IInv, Types, GlobalShown
<1>3. ASSUME CancelFan(c)
      PROVE  IInv'
  <2> DEFINE r == [at |-> "idle"]
  <2>1. op' = [op EXCEPT ![c] = r] /\ r.at = "idle"
    BY <1>3 DEF CancelFan
  <2>2. stray' \subseteq Tiers \X Entry
    BY <1>3, CutOffType DEF CancelFan
  <2> HIDE DEF r
  <2>3. op'[c] = r
    BY <2>1 DEF IInv, Types
  <2>4. Sound(c)'
    BY <2>1, <2>3 DEF Sound, Shape, Rec, Written, Searched, Deleting
  <2> QED BY <1>3, <2>1, <2>2, <2>4, ClientKeeps DEF CancelFan, IInv, Types, GlobalShown
<1> QED BY <1>1, <1>2, <1>3

\* Each way a leg can end.
LEMMA LegFinishes ==
    ASSUME IInv, Noting, NEW c \in Clients, NEW t \in Tiers,
           LegAnswer(c, t) \/ LegTimeout(c, t) \/ LegError(c, t) \/ LegCorrupt(c, t)
    PROVE  IInv'
<1>1. ASSUME LegAnswer(c, t)
      PROVE  IInv'
  <2>1. op' = [op EXCEPT ![c] = [op[c] EXCEPT !.leg = [op[c].leg EXCEPT ![t] = "done"]]]
    BY <1>1, Zenon DEF LegAnswer
  <2>2. Fanned(c, t) /\ op[c].leg[t] = "landed" /\ UNCHANGED <<store, stray, started, kept>>
    BY <1>1 DEF LegAnswer, LegAt
  <2>3. stray' \subseteq Tiers \X Entry
    BY <2>2 DEF IInv, Types
  <2> QED BY <2>1, <2>2, <2>3, LegEnds
<1>2. ASSUME LegLost(c, t), stray' \subseteq Tiers \X Entry
      PROVE  IInv'
  <2>1. op' = [op EXCEPT ![c] = [op[c] EXCEPT !.leg = [op[c].leg EXCEPT ![t] = "lost"]]]
    BY <1>2, Zenon DEF LegLost
  <2>2. Fanned(c, t) /\ UNCHANGED <<store, started, kept>>
    BY <1>2 DEF LegLost, LegAt
  <2> QED BY <1>2, <2>1, <2>2, LegEnds
<1>3. ASSUME LegLost(c, t), CutOff(c, {t})
      PROVE  IInv'
  <2>1. op[c].at \in {"write", "search"} /\ {t} \subseteq DOMAIN op[c].leg
    BY <1>3 DEF LegLost, LegAt, Fanned
  <2> QED BY <1>2, <1>3, <2>1, CutOffType
<1>4. ASSUME LegCorrupt(c, t)
      PROVE  IInv'
  BY <1>2, <1>4 DEF LegCorrupt, IInv, Types
<1> QED BY <1>1, <1>3, <1>4 DEF LegTimeout, LegError

\* A forget starts with the nearest tier.
LEMMA StartsForget ==
    ASSUME IInv, Noting, NEW c \in Clients, NEW i \in Ids, NEW hard \in BOOLEAN, StartForget(c, i, hard)
    PROVE  IInv'
<1> DEFINE r == [at |-> "find", id |-> i, hard |-> hard, tier |-> 1]
<1>1. /\ started < MaxOps /\ started' = started + 1
      /\ store' = store /\ stray' = stray /\ kept' = kept
  BY DEF StartForget, Start
<1>2. op' = [op EXCEPT ![c] = r]
  BY DEF StartForget
<1>3. r.at = "find" /\ r.id = i /\ r.tier = 1 /\ r = [at |-> r.at, id |-> r.id, hard |-> r.hard, tier |-> r.tier]
  OBVIOUS
<1> HIDE DEF r
<1>4. op'[c] = r
  BY <1>2 DEF IInv, Types
<1>5. 1 \in 1..Len(TierOrder)
  BY FederationAssumption
<1>6. Sound(c)'
  BY <1>3, <1>4, <1>5 DEF Sound, Shape, Rec, Written, Searched, Deleting
<1>7. started' \in 0..MaxOps
  BY <1>1, FederationAssumption DEF IInv, Types
<1> QED BY <1>1, <1>2, <1>6, <1>7, ClientKeeps DEF IInv, Types, GlobalShown

\* However a forget ends, nothing but its row may have changed.
LEMMA Forgets ==
    ASSUME IInv, Noting, NEW c \in Clients, op[c].at \in {"find", "delete"},
           NEW outcome, Forgot(c, outcome), UNCHANGED <<stray, started, kept>>,
           store' \in [Tiers -> [Ids -> Copy]], GlobalShown'
    PROVE  IInv'
<1> DEFINE r == [at |-> "forgot", id |-> op[c].id, outcome |-> outcome]
<1>1. op' = [op EXCEPT ![c] = r] /\ r.at = "forgot" /\ r.id = op[c].id
  BY DEF Forgot
<1>2. op[c].id \in Ids
  BY DEF IInv, Sound, Shape
<1> HIDE DEF r
<1>3. op'[c] = r
  BY <1>1 DEF IInv, Types
<1>4. Sound(c)'
  BY <1>1, <1>2, <1>3 DEF Sound, Shape, Rec, Written, Searched, Deleting
<1> QED BY <1>1, <1>4, ClientKeeps DEF IInv, Types

\* A forget goes on to the next tier, or to a row it may delete.
LEMMA Finds ==
    ASSUME IInv, Noting, NEW c \in Clients, FindOwner(c)
    PROVE  IInv'
<1> DEFINE tier == TierOrder[op[c].tier]
<1>1. /\ op[c].at = "find" /\ UNCHANGED <<store, stray, started, kept>>
      /\ op[c].id \in Ids /\ op[c].tier \in 1..Len(TierOrder)
      /\ op[c] = [at |-> "find", id |-> op[c].id, hard |-> op[c].hard, tier |-> op[c].tier]
  BY DEF FindOwner, IInv, Sound, Shape, Rec
<1>2. store' \in [Tiers -> [Ids -> Copy]] /\ GlobalShown'
  BY <1>1 DEF IInv, Types, GlobalShown
<1>3. ASSUME op[c].tier < Len(TierOrder), op' = [op EXCEPT ![c] = [op[c] EXCEPT !.tier = op[c].tier + 1]]
      PROVE  IInv'
  <2> DEFINE r == [op[c] EXCEPT !.tier = op[c].tier + 1]
  <2>1. r.at = "find" /\ r.id = op[c].id /\ r.tier = op[c].tier + 1
        /\ r = [at |-> r.at, id |-> r.id, hard |-> r.hard, tier |-> r.tier]
    BY <1>1
  <2>2. op' = [op EXCEPT ![c] = r]
    BY <1>3
  <2> HIDE DEF r
  <2>3. op'[c] = r
    BY <2>2 DEF IInv, Types
  <2>4. r.tier \in 1..Len(TierOrder)
    BY <1>1, <1>3, <2>1, FederationAssumption
  <2>5. Sound(c)'
    BY <1>1, <2>1, <2>3, <2>4 DEF Sound, Shape, Rec, Written, Searched, Deleting
  <2> QED BY <1>1, <1>2, <2>2, <2>5, ClientKeeps DEF IInv, Types
<1>4. ASSUME ~Refuses(tier), op' = [op EXCEPT ![c] = [op[c] EXCEPT !.at = "delete"]]
      PROVE  IInv'
  <2> DEFINE r == [op[c] EXCEPT !.at = "delete"]
  <2>1. r.at = "delete" /\ r.id = op[c].id /\ r.tier = op[c].tier
        /\ r = [at |-> r.at, id |-> r.id, hard |-> r.hard, tier |-> r.tier]
    BY <1>1
  <2>2. op' = [op EXCEPT ![c] = r]
    BY <1>4
  <2> HIDE DEF r
  <2>3. op'[c] = r
    BY <2>2 DEF IInv, Types
  <2>4. Sound(c)'
    BY <1>1, <1>4, <2>1, <2>3 DEF Sound, Shape, Rec, Written, Searched, Deleting, Refuses
  <2> QED BY <1>1, <1>2, <2>2, <2>4, ClientKeeps DEF IInv, Types
<1>5. ASSUME NEW outcome, Forgot(c, outcome)
      PROVE  IInv'
  BY <1>1, <1>2, <1>5, Forgets
<1>6. \/ op[c].tier < Len(TierOrder) /\ op' = [op EXCEPT ![c] = [op[c] EXCEPT !.tier = op[c].tier + 1]]
      \/ ~Refuses(tier) /\ op' = [op EXCEPT ![c] = [op[c] EXCEPT !.at = "delete"]]
      \/ \E outcome \in {"not_found", "refused"} : Forgot(c, outcome)
  BY Zenon DEF FindOwner
<1> QED BY <1>3, <1>4, <1>5, <1>6

\* The row that is deleted is in a tier that is not the global one.
LEMMA Deletes ==
    ASSUME IInv, Noting, NEW c \in Clients, DeleteRow(c) \/ ForgetFails(c)
    PROVE  IInv'
<1>1. op[c].at \in {"find", "delete"} /\ UNCHANGED <<stray, started, kept>>
  BY DEF DeleteRow, ForgetFails
<1>2. PICK outcome \in {"found", "not_found", "raised"} : Forgot(c, outcome)
  BY DEF DeleteRow, ForgetFails
<1>3. \/ UNCHANGED store
      \/ op[c].at = "delete" /\ RemoveRow(TierOrder[op[c].tier], op[c].id, op[c].hard)
  BY DEF DeleteRow, ForgetFails
<1>4. store' \in [Tiers -> [Ids -> Copy]] /\ GlobalShown'
  <2>1. CASE UNCHANGED store
    BY <2>1 DEF IInv, Types, GlobalShown
  <2>2. CASE op[c].at = "delete" /\ RemoveRow(TierOrder[op[c].tier], op[c].id, op[c].hard)
    <3>1. TierOrder[op[c].tier] \in Tiers /\ op[c].id \in Ids /\ TierOrder[op[c].tier] # "global"
      BY <2>2, Routed DEF IInv, Sound, Shape, Deleting, Refuses
    <3> QED BY <2>2, <3>1, RemoveType
  <2> QED BY <1>3, <2>1, <2>2
<1> QED BY <1>1, <1>2, <1>4, Forgets

\* A write that was cut off and lands late disturbs no operation.
LEMMA StrayLands ==
    ASSUME IInv, Noting, NEW s \in stray, StrayLand(s[1], s[2])
    PROVE  IInv'
<1>1. s[1] \in Tiers /\ s[2] \in Entry
  BY DEF IInv, Types
<1>2. /\ store' \in [Tiers -> [Ids -> Copy]] /\ GlobalShown'
      /\ kept \subseteq kept' /\ kept' \subseteq Tiers \X (1..MaxOps)
  BY <1>1, LandType DEF StrayLand
<1>3. op' = op /\ started' = started /\ stray' \subseteq stray
  BY DEF StrayLand
<1>4. \A d \in Clients : Sound(d)'
  BY <1>2, <1>3, OthersSound
<1>5. lacked' \in [Clients -> SUBSET (Tiers \X Ids)]
  BY <1>4, NotingType DEF Sound
<1> QED BY <1>2, <1>3, <1>4, <1>5 DEF IInv, Types

-----------------------------------------------------------------------------
(* The invariant *)

LEMMA Starts == Init => IInv
<1> SUFFICES ASSUME Init
             PROVE  IInv
  OBVIOUS
<1>1. PICK old \in SUBSET (Tiers \X Ids) :
        /\ store = [t \in Tiers |-> [i \in Ids |->
                      IF <<t, i>> \in old THEN [number |-> 1, hidden |-> FALSE] ELSE Absent]]
        /\ kept = {<<x[1], 1>> : x \in old}
  BY DEF Init
<1>2. Absent \in Copy /\ [number |-> 1, hidden |-> FALSE] \in Copy /\ ~Absent.hidden
  BY FederationAssumption DEF Copy, Absent
<1>3. store \in [Tiers -> [Ids -> Copy]] /\ \A t \in Tiers, i \in Ids : ~store[t][i].hidden
  BY <1>1, <1>2
<1>4. kept \subseteq Tiers \X (1..MaxOps) /\ started \in 0..MaxOps /\ stray = {}
  BY <1>1, FederationAssumption DEF Init
<1>5. op = [c \in Clients |-> op[c]] /\ \A c \in Clients : op[c].at = "idle"
  BY DEF Init
<1>6. lacked \in [Clients -> SUBSET (Tiers \X Ids)]
  BY DEF Init
<1>7. \A c \in Clients : Sound(c)
  BY <1>5 DEF Sound, Shape, Rec, Written, Searched, Deleting
<1> QED BY <1>3, <1>4, <1>5, <1>6, <1>7 DEF IInv, Types, GlobalShown

LEMMA ClientStepKeeps ==
    ASSUME IInv, Noting, NEW c \in Clients, ClientStep(c)
    PROVE  IInv'
<1>1. CASE \E i \in Ids, home \in Tiers \ ReadOnly, promoted \in BOOLEAN : StartWrite(c, i, home, promoted)
  BY <1>1, StartsWrite
<1>2. CASE \E query \in Queries : StartSearch(c, query)
  BY <1>2, StartsSearch
<1>3. CASE \E i \in Ids, hard \in BOOLEAN : StartForget(c, i, hard)
  BY <1>3, StartsForget
<1>4. CASE \E t \in Tiers : LegCommit(c, t)
  BY <1>4, Commits
<1>5. CASE \E t \in Tiers : LegFetch(c, t)
  BY <1>5, Fetches
<1>6. CASE \E t \in Tiers : LegAnswer(c, t) \/ LegTimeout(c, t) \/ LegError(c, t) \/ LegCorrupt(c, t)
  BY <1>6, LegFinishes
<1>7. CASE FinishWrite(c) \/ FinishSearch(c) \/ CancelFan(c)
  BY <1>7, Gathers
<1>8. CASE FindOwner(c)
  BY <1>8, Finds
<1>9. CASE DeleteRow(c) \/ ForgetFails(c)
  BY <1>9, Deletes
<1> QED BY <1>1, <1>2, <1>3, <1>4, <1>5, <1>6, <1>7, <1>8, <1>9 DEF ClientStep

LEMMA Stutters == ASSUME IInv, UNCHANGED vars PROVE IInv'
<1>1. /\ store' = store /\ op' = op /\ stray' = stray /\ started' = started
      /\ kept' = kept /\ lacked' = lacked
  BY DEF vars
<1>2. \A d \in Clients : Sound(d)'
  BY <1>1 DEF IInv, Sound, Shape, Rec, Written, Searched, Deleting
<1> QED BY <1>1, <1>2 DEF IInv, Types, GlobalShown

\* Nothing happens in a quiet system.
LEMMA QuietKeeps ==
    ASSUME IInv, Noting, Quiet
    PROVE  IInv'
<1>1. /\ store' = store /\ op' = op /\ stray' = stray /\ started' = started /\ kept' = kept
  BY DEF Quiet
<1>2. \A d \in Clients : Sound(d)'
  BY <1>1, OthersSound
<1>3. lacked' \in [Clients -> SUBSET (Tiers \X Ids)]
  BY <1>2, NotingType DEF Sound
<1> QED BY <1>1, <1>2, <1>3 DEF IInv, Types, GlobalShown

LEMMA Inductive == Spec => []IInv
<1>1. Init => IInv
  BY Starts
<1>2. IInv /\ [Next]_vars => IInv'
  BY ClientStepKeeps, StrayLands, QuietKeeps, Stutters DEF Next
<1> QED BY <1>1, <1>2, PTL DEF Spec

-----------------------------------------------------------------------------
(* What follows *)

\* Every operation has a leg for each tier it was routed to and for no other,
\* whatever was lost, cut off or cancelled (MemoryFederation, MemoryRouter).
THEOREM TypeCorrect == Spec => []TypeOK
<1>1. IInv => TypeOK
  BY DEF IInv, Types, Sound, Shape, TypeOK
<1> QED BY <1>1, Inductive, PTL

\* A write that returns normally is stored in every tier it was routed to or
\* reported there, and always in the private one (MemoryFederation.write).
THEOREM NothingLostSilently == Spec => []NoSilentLoss
<1>1. IInv => NoSilentLoss
  BY DEF IInv, Sound, Written, NoSilentLoss
<1> QED BY <1>1, Inductive, PTL

\* A search returns a farther copy only past a nearer tier that was lost or
\* lacked the id at some moment (MemoryFederation.search, _gather_merged).
THEOREM NearestCopyWins == Spec => []MostLocalWins
<1>1. IInv => MostLocalWins
  BY DEF IInv, Sound, Searched, MostLocalWins
<1> QED BY <1>1, Inductive, PTL

\* A write returns only through FinishWrite.
LEMMA ReturnsOnce ==
    ASSUME IInv, NEW c \in Clients, NEW d \in Clients, ClientStep(d),
           op[c].at = "write", op'[c].at = "wrote"
    PROVE  FinishWrite(c)
<1>1. ASSUME NEW r, op' = [op EXCEPT ![d] = r], d # c \/ r.at # "wrote"
      PROVE  FALSE
  BY <1>1 DEF IInv, Types
<1>2. ASSUME NEW t, NEW where, op' = [op EXCEPT ![d] = [op[d] EXCEPT !.leg = where]]
      PROVE  FALSE
  <2>1. d = c
    BY <1>1, <1>2
  <2>2. op[c] = [at |-> "write", entry |-> op[c].entry, leg |-> op[c].leg]
    BY DEF IInv, Sound, Shape, Rec
  <2>3. [op[c] EXCEPT !.leg = where].at = "write"
    BY <2>2
  <2> QED BY <1>1, <1>2, <2>1, <2>3
<1>3. CASE \E i \in Ids, home \in Tiers \ ReadOnly, promoted \in BOOLEAN : StartWrite(d, i, home, promoted)
  BY <1>1, <1>3 DEF StartWrite
<1>4. CASE \E query \in Queries : StartSearch(d, query)
  BY <1>1, <1>4 DEF StartSearch
<1>5. CASE \E i \in Ids, hard \in BOOLEAN : StartForget(d, i, hard)
  BY <1>1, <1>5 DEF StartForget
<1>6. CASE \E t \in Tiers : LegCommit(d, t)
  BY <1>2, <1>6, Zenon DEF LegCommit
<1>7. CASE \E t \in Tiers : LegFetch(d, t)
  <2>1. op[d].at = "search"
    BY <1>7 DEF LegFetch
  <2>2. PICK r : op' = [op EXCEPT ![d] = r]
    BY <1>7, Zenon DEF LegFetch
  <2> QED BY <1>1, <2>1, <2>2
<1>8. CASE \E t \in Tiers : LegAnswer(d, t)
  BY <1>2, <1>8, Zenon DEF LegAnswer
<1>9. CASE \E t \in Tiers : LegTimeout(d, t) \/ LegError(d, t) \/ LegCorrupt(d, t)
  BY <1>2, <1>9, Zenon DEF LegTimeout, LegError, LegCorrupt, LegLost
<1>10. CASE FinishWrite(d)
  BY <1>1, <1>10 DEF FinishWrite
<1>11. CASE FinishSearch(d)
  BY <1>1, <1>11 DEF FinishSearch
<1>12. CASE CancelFan(d)
  BY <1>1, <1>12 DEF CancelFan
<1>13. CASE FindOwner(d) \/ DeleteRow(d) \/ ForgetFails(d)
  <2>1. op[d].at \in {"find", "delete"}
    BY <1>13 DEF FindOwner, DeleteRow, ForgetFails
  <2>2. PICK r : op' = [op EXCEPT ![d] = r]
    BY <1>13, Zenon DEF FindOwner, DeleteRow, ForgetFails, Forgot
  <2> QED BY <1>1, <2>1, <2>2
<1> QED BY <1>3, <1>4, <1>5, <1>6, <1>7, <1>8, <1>9, <1>10, <1>11, <1>12, <1>13 DEF ClientStep

\* The private leg alone decides how a write returns (MemoryFederation.write).
THEOREM AnchorAlone == Spec => AnchorDecides
<1>1. ASSUME IInv, [Next]_vars, NEW c \in Clients, op[c].at = "write", op'[c].at = "wrote",
             "private" \in DOMAIN op[c].leg => op[c].leg["private"] = "done"
      PROVE  op'[c].outcome = "ok"
  <2>1. op' # op
    BY <1>1
  <2>2. \E d \in Clients : ClientStep(d)
    BY <1>1, <2>1 DEF Next, StrayLand, Quiet, vars
  <2>3. FinishWrite(c)
    BY <1>1, <2>2, ReturnsOnce
  <2>4. "private" \notin Lost(c)
    BY <1>1 DEF Lost
  <2>5. op' = [op EXCEPT ![c] = [at |-> "wrote", entry |-> op[c].entry,
                                 outcome |-> WriteOutcome(Lost(c)).outcome,
                                 reports |-> WriteOutcome(Lost(c)).reports]]
    BY <2>3 DEF FinishWrite
  <2>6. WriteOutcome(Lost(c)).outcome = "ok"
    BY <2>4 DEF WriteOutcome
  <2> QED BY <1>1, <2>5, <2>6 DEF IInv, Types
<1>2. IInv /\ [Next]_vars =>
        [\A c \in Clients :
           /\ op[c].at = "write" /\ op'[c].at = "wrote"
           /\ ("private" \in DOMAIN op[c].leg => op[c].leg["private"] = "done")
           => op'[c].outcome = "ok"]_vars
  BY <1>1
<1> QED BY <1>2, Inductive, PTL DEF Spec, AnchorDecides

\* A step changes a row by an upsert, or removes one of a tier that is not the
\* global one.
LEMMA RowsChange ==
    ASSUME IInv, [Next]_vars
    PROVE  \/ UNCHANGED store
           \/ \E t \in Tiers, e \in Entry : Land(t, e)
           \/ \E t \in Tiers \ {"global"}, i \in Ids : \E hard : RemoveRow(t, i, hard)
<1>1. CASE UNCHANGED vars
  BY <1>1 DEF vars
<1>2. CASE \E s \in stray : StrayLand(s[1], s[2])
  BY <1>2 DEF StrayLand, IInv, Types
<1>3. CASE Quiet
  BY <1>3 DEF Quiet
<1>4. ASSUME NEW c \in Clients, ClientStep(c)
      PROVE  \/ UNCHANGED store
             \/ \E t \in Tiers : LegCommit(c, t)
             \/ op[c].at = "delete" /\ RemoveRow(TierOrder[op[c].tier], op[c].id, op[c].hard)
  BY <1>4 DEF ClientStep, StartWrite, StartSearch, StartForget, Start, LegFetch, LegAnswer, LegTimeout,
              LegError, LegCorrupt, LegLost, FinishWrite, FinishSearch, CancelFan, FindOwner, DeleteRow,
              ForgetFails
<1>5. ASSUME NEW c \in Clients, NEW t \in Tiers, LegCommit(c, t)
      PROVE  \E e \in Entry : Land(t, e)
  BY <1>5 DEF LegCommit, IInv, Sound, Shape, WriteOp
<1>6. ASSUME NEW c \in Clients, op[c].at = "delete"
      PROVE  TierOrder[op[c].tier] \in Tiers \ {"global"} /\ op[c].id \in Ids
  BY <1>6, Routed DEF IInv, Sound, Shape, Deleting, Refuses
<1> QED BY <1>1, <1>2, <1>3, <1>4, <1>5, <1>6 DEF Next

\* No forget removes or hides a global row (MemoryFederation.forget).
THEOREM GlobalIsSpared == Spec => ForgetSparesGlobal
<1>1. ASSUME IInv, [Next]_vars, NEW t \in Tiers, NEW i \in Ids, t = "global", store[t][i] # Absent
      PROVE  Visible(store'[t][i])
  <2>1. store[t][i] \in Copy /\ ~store[t][i].hidden
    BY <1>1 DEF IInv, Types, GlobalShown
  <2>2. store[t][i].number # 0
    BY <1>1, <2>1 DEF Copy, Absent
  <2>3. CASE UNCHANGED store
    BY <2>1, <2>2, <2>3 DEF Visible
  <2>4. CASE \E u \in Tiers, e \in Entry : Land(u, e)
    BY <1>1, <2>1, <2>2, <2>4 DEF Land, Visible, Entry, IInv, Types
  <2>5. CASE \E u \in Tiers \ {"global"}, j \in Ids : \E hard : RemoveRow(u, j, hard)
    BY <1>1, <2>1, <2>2, <2>5 DEF RemoveRow, Visible, IInv, Types
  <2> QED BY <1>1, <2>3, <2>4, <2>5, RowsChange
<1>2. IInv /\ [Next]_vars =>
        [\A t \in Tiers, i \in Ids : t = "global" /\ store[t][i] # Absent => Visible(store'[t][i])]_vars
  BY <1>1
<1> QED BY <1>2, Inductive, PTL DEF Spec, ForgetSparesGlobal

\* An operation has a leg for each routed tier and no other, and what it does not
\* report as lost is stored (write).
THEOREM WritesAreAccounted == Spec => []WritesAccounted
BY TypeCorrect, NothingLostSilently, PTL DEF WritesAccounted

\* The private leg decides whether a write raises, and no step takes a global row
\* (write, forget).
THEOREM StepsAreAllowed == Spec => StepsAllowed
BY AnchorAlone, GlobalIsSpared, PTL DEF StepsAllowed

-----------------------------------------------------------------------------
(* The private tier, seen through the federation, is a durable store (module *)
(* DurableMemory): what is inductive about its numbers and rows.            *)

\* A write whose leg in t has not come to its statement.
Pending(c, t) == op[c].at = "write" /\ t \in DOMAIN op[c].leg /\ op[c].leg[t] = "running"

Number(c) == op[c].entry.number

\* No number was given out twice, and what is under way has one that was given out.
Numbered ==
    /\ started >= 1
    /\ \A x \in kept : x[2] <= started
    /\ \A s \in stray : s[2].number <= started
    /\ \A c \in Clients : op[c].at \in {"write", "wrote"} => Number(c) <= started
    /\ \A c, d \in Clients : c # d /\ op[c].at = "write" /\ op[d].at = "write" => Number(c) # Number(d)

\* A statement that may run yet has not been committed, and is in one place only.
Once ==
    /\ \A s \in stray : <<s[1], s[2].number>> \notin kept
    /\ \A s, r \in stray : s[1] = r[1] /\ s[2].number = r[2].number => s = r
    /\ \A c \in Clients, t \in Tiers :
         Pending(c, t) => <<t, Number(c)>> \notin kept /\ \A s \in stray : s[1] = t => s[2].number # Number(c)

\* Every row was committed.
Rows == \A t \in Tiers, i \in Ids : store[t][i] # Absent => <<t, store[t][i].number>> \in kept

DInv == IInv /\ Numbered /\ Once /\ Rows

-----------------------------------------------------------------------------
(* Parts of a step *)

\* A step of client c that commits nothing: its write goes on with no new leg to run,
\* or is over, or is new; what it cut off no longer runs.
LEMMA Continues ==
    ASSUME DInv, IInv', NEW c \in Clients, NEW r, op' = [op EXCEPT ![c] = r], kept' = kept, Rows',
           \/ /\ started' = started
              /\ stray' \subseteq stray \cup {<<t, op[c].entry>> : t \in {u \in Tiers : Pending(c, u)}}
              /\ r.at \in {"write", "wrote"} => op[c].at = "write" /\ r.entry = op[c].entry
              /\ r.at = "write" => \A t \in DOMAIN r.leg : r.leg[t] = "running" =>
                     Pending(c, t) /\ <<t, op[c].entry>> \notin stray' \ stray
           \/ /\ started' = started + 1 /\ stray' = stray
              /\ r.at # "wrote" /\ (r.at = "write" => r.entry.number = started + 1)
    PROVE  DInv'
<1>1. op'[c] = r /\ \A d \in Clients : d # c => op'[d] = op[d]
  BY DEF DInv, IInv, Types
<1>2. started \in Nat /\ kept \subseteq Tiers \X (1..MaxOps) /\ stray \subseteq Tiers \X Entry /\ stray' \subseteq Tiers \X Entry
      /\ \A e \in Entry : e.number \in Nat
  BY FederationAssumption DEF DInv, IInv, Types, Entry
<1>3. \A d \in Clients : op[d].at \in {"write", "wrote"} => Number(d) \in Nat
  BY <1>2 DEF DInv, IInv, Sound, Shape, WriteOp, Number
<1>4. ASSUME /\ started' = started
             /\ stray' \subseteq stray \cup {<<t, op[c].entry>> : t \in {u \in Tiers : Pending(c, u)}}
             /\ r.at \in {"write", "wrote"} => op[c].at = "write" /\ r.entry = op[c].entry
             /\ r.at = "write" => \A t \in DOMAIN r.leg : r.leg[t] = "running" =>
                    Pending(c, t) /\ <<t, op[c].entry>> \notin stray' \ stray
      PROVE  Numbered' /\ Once'
  <2>1. \A s \in stray' : s \in stray \/ \E t \in Tiers : s = <<t, op[c].entry>> /\ Pending(c, t)
    BY <1>4
  <2>2. \A s \in stray' : s[2].number <= started
    BY <2>1 DEF DInv, Numbered, Number, Pending
  <2>3. \A d \in Clients : op'[d].at \in {"write", "wrote"} => op'[d].entry.number <= started
    BY <1>1, <1>4 DEF DInv, Numbered, Number
  <2>4. \A b, d \in Clients : b # d /\ op'[b].at = "write" /\ op'[d].at = "write"
                              => op'[b].entry.number # op'[d].entry.number
    BY <1>1, <1>4 DEF DInv, Numbered, Number
  <2>a. \A t \in Tiers : Pending(c, t) =>
           <<t, op[c].entry.number>> \notin kept /\ \A s \in stray : s[1] = t => s[2].number # op[c].entry.number
    BY DEF DInv, Once, Number
  <2>b. \A s \in stray' : s \in stray \/ (s[2] = op[c].entry /\ s = <<s[1], s[2]>> /\ s[1] \in Tiers /\ Pending(c, s[1]))
    BY <2>1
  <2>5. ASSUME NEW s \in stray'
        PROVE  <<s[1], s[2].number>> \notin kept
    <3>1. CASE s \in stray
      BY <3>1 DEF DInv, Once
    <3>2. CASE s[2] = op[c].entry /\ s[1] \in Tiers /\ Pending(c, s[1])
      BY <2>a, <3>2
    <3> QED BY <2>b, <3>1, <3>2
  <2>6. ASSUME NEW s \in stray', NEW q \in stray', s[1] = q[1], s[2].number = q[2].number
        PROVE  s = q
    <3>1. CASE s \in stray /\ q \in stray
      BY <2>6, <3>1 DEF DInv, Once
    <3>2. CASE s \notin stray /\ q \notin stray
      BY <2>6, <2>b, <3>2
    <3>3. CASE s \in stray /\ q \notin stray
      BY <2>6, <2>a, <2>b, <3>3
    <3>4. CASE s \notin stray /\ q \in stray
      BY <2>6, <2>a, <2>b, <3>4
    <3> QED BY <3>1, <3>2, <3>3, <3>4
  <2>7. ASSUME NEW d \in Clients, NEW t \in Tiers, op'[d].at = "write", t \in DOMAIN op'[d].leg,
               op'[d].leg[t] = "running"
        PROVE  <<t, op'[d].entry.number>> \notin kept
               /\ \A s \in stray' : s[1] = t => s[2].number # op'[d].entry.number
    <3>1. Pending(d, t) /\ op'[d].entry = op[d].entry
      BY <1>1, <1>4, <2>7 DEF Pending
    <3>2. <<t, Number(d)>> \notin kept /\ \A s \in stray : s[1] = t => s[2].number # Number(d)
      BY <3>1 DEF DInv, Once
    <3>3. ASSUME NEW s \in stray', s \notin stray, s[1] = t
          PROVE  s[2].number # Number(d)
      <4>1. s = <<t, op[c].entry>> /\ Pending(c, t)
        BY <2>1, <3>3
      <4>2. d # c
        BY <1>1, <1>4, <2>7, <3>3, <4>1
      <4> QED BY <3>1, <4>1, <4>2 DEF DInv, Numbered, Number, Pending
    <3> QED BY <3>1, <3>2, <3>3 DEF Number
  <2>8. Numbered'
    BY <1>4, <2>2, <2>3, <2>4 DEF DInv, Numbered, Number
  <2>9. Once'
    BY <2>5, <2>6, <2>7 DEF Once, Pending, Number
  <2> QED BY <2>8, <2>9
<1>5. ASSUME /\ started' = started + 1 /\ stray' = stray
             /\ r.at # "wrote" /\ (r.at = "write" => r.entry.number = started + 1)
      PROVE  Numbered' /\ Once'
  <2>1. \A d \in Clients : op'[d].at \in {"write", "wrote"} =>
           op'[d].entry.number <= started + 1 /\ (d = c => op'[d].entry.number = started + 1)
           /\ (d # c => op'[d].entry.number <= started)
    BY <1>1, <1>2, <1>3, <1>5 DEF DInv, Numbered, Number
  <2>2. Numbered'
    BY <1>2, <1>5, <2>1 DEF DInv, Numbered, Number
  <2>3. ASSUME NEW t \in Tiers
        PROVE  <<t, started + 1>> \notin kept /\ \A s \in stray : s[2].number # started + 1
    BY <1>2 DEF DInv, Numbered
  <2>4. ASSUME NEW d \in Clients, NEW t \in Tiers, op'[d].at = "write", t \in DOMAIN op'[d].leg,
               op'[d].leg[t] = "running"
        PROVE  <<t, op'[d].entry.number>> \notin kept
               /\ \A s \in stray : s[1] = t => s[2].number # op'[d].entry.number
    <3>1. CASE d = c
      BY <2>1, <2>3, <2>4, <3>1
    <3>2. CASE d # c
      BY <1>1, <2>4, <3>2 DEF DInv, Once, Pending, Number
    <3> QED BY <3>1, <3>2
  <2>5. Once'
    BY <1>5, <2>4 DEF DInv, Once, Pending, Number
  <2> QED BY <2>2, <2>5
<1> QED BY <1>4, <1>5 DEF DInv

\* A row that is stored or removed leaves only rows that were stored.
LEMMA LandRows ==
    ASSUME DInv, NEW t \in Tiers, NEW e \in Entry, Land(t, e)
    PROVE  Rows'
<1> DEFINE row == [number |-> e.number, hidden |-> FALSE]
<1>1. store' = [store EXCEPT ![t] = [store[t] EXCEPT ![e.id] = row]]
  BY Zenon DEF Land, DInv, IInv, Types
<1>2. row.number = e.number /\ kept' = kept \cup {<<t, e.number>>}
  BY DEF Land
<1> HIDE DEF row
<1>3. ASSUME NEW u \in Tiers, NEW i \in Ids, store'[u][i] # Absent
      PROVE  <<u, store'[u][i].number>> \in kept'
  <2>1. CASE u = t /\ i = e.id
    BY <1>1, <1>2, <2>1 DEF DInv, IInv, Types
  <2>2. CASE ~(u = t /\ i = e.id)
    <3>1. store'[u][i] = store[u][i]
      BY <1>1, <2>2 DEF DInv, IInv, Types
    <3> QED BY <1>2, <1>3, <3>1 DEF DInv, Rows
  <2> QED BY <2>1, <2>2
<1> QED BY <1>3 DEF Rows

LEMMA RemoveRows ==
    ASSUME DInv, NEW t \in Tiers, NEW i \in Ids, NEW hard, RemoveRow(t, i, hard), kept' = kept
    PROVE  Rows'
<1> DEFINE row == IF hard THEN Absent ELSE [store[t][i] EXCEPT !.hidden = TRUE]
<1>1. store' = [store EXCEPT ![t] = [store[t] EXCEPT ![i] = row]] /\ store[t][i] # Absent
  BY Zenon DEF RemoveRow, DInv, IInv, Types
<1>2. store[t][i] \in Copy
  BY DEF DInv, IInv, Types
<1>3. row = Absent \/ row.number = store[t][i].number
  BY <1>2 DEF Copy
<1> HIDE DEF row
<1>4. ASSUME NEW u \in Tiers, NEW j \in Ids, store'[u][j] # Absent
      PROVE  <<u, store'[u][j].number>> \in kept
  <2>1. CASE u = t /\ j = i
    BY <1>1, <1>3, <1>4, <2>1 DEF DInv, IInv, Types, Rows
  <2>2. CASE ~(u = t /\ j = i)
    <3>1. store'[u][j] = store[u][j]
      BY <1>1, <2>2 DEF DInv, IInv, Types
    <3> QED BY <1>4, <3>1 DEF DInv, Rows
  <2> QED BY <2>1, <2>2
<1> QED BY <1>4 DEF Rows

-----------------------------------------------------------------------------
(* The steps of a client *)

\* A search whose leg fetches goes on.
LEMMA SearchStays ==
    ASSUME DInv, NEW c \in Clients, NEW t \in Tiers, LegFetch(c, t)
    PROVE  op'[c].at = "search"
<1>1. op[c] = [at |-> "search", leg |-> op[c].leg, seen |-> op[c].seen]
  BY DEF LegFetch, DInv, IInv, Sound, Shape, Rec
<1> DEFINE leg == [op[c].leg EXCEPT ![t] = "landed"]
           rows == [i \in Ids |-> IF Visible(store[t][i]) THEN store[t][i].number ELSE 0]
           seen == [op[c].seen EXCEPT ![t] = rows]
<1>2. op' = [op EXCEPT ![c] = [[op[c] EXCEPT !.leg = leg] EXCEPT !.seen = seen]]
  BY Zenon DEF LegFetch
<1> HIDE DEF leg, rows, seen
<1>3. [op[c] EXCEPT !.leg = leg] = [at |-> "search", leg |-> leg, seen |-> op[c].seen]
  BY <1>1
<1>4. [[at |-> "search", leg |-> leg, seen |-> op[c].seen] EXCEPT !.seen = seen].at = "search"
  OBVIOUS
<1>5. op'[c] = [[at |-> "search", leg |-> leg, seen |-> op[c].seen] EXCEPT !.seen = seen]
  BY <1>2, <1>3 DEF DInv, IInv, Types
<1> QED BY <1>4, <1>5

\* An operation that starts takes the next number.
LEMMA StartsOnce ==
    ASSUME DInv, IInv', NEW c \in Clients,
           \/ \E i \in Ids, home \in Tiers \ ReadOnly, promoted \in BOOLEAN : StartWrite(c, i, home, promoted)
           \/ \E query \in Queries : StartSearch(c, query)
           \/ \E i \in Ids, hard \in BOOLEAN : StartForget(c, i, hard)
    PROVE  DInv' /\ UNCHANGED <<store, kept>> /\ started' = started + 1
           /\ Free(c) /\ op'[c].at \notin {"wrote"} /\ \A d \in Clients : d # c => op'[d] = op[d]
<1>1. UNCHANGED <<store, stray, kept>> /\ started' = started + 1 /\ Free(c)
  BY DEF StartWrite, StartSearch, StartForget, Start
<1>2. Rows'
  BY <1>1 DEF DInv, Rows
<1>3. PICK r : /\ op' = [op EXCEPT ![c] = r] /\ r.at # "wrote"
               /\ r.at = "write" => r.entry.number = started + 1
  <2>1. CASE \E i \in Ids, home \in Tiers \ ReadOnly, promoted \in BOOLEAN : StartWrite(c, i, home, promoted)
    <3>1. PICK i \in Ids, home \in Tiers \ ReadOnly, promoted \in BOOLEAN : StartWrite(c, i, home, promoted)
      BY <2>1
    <3> DEFINE e == [id |-> i, number |-> started + 1, home |-> home, promoted |-> promoted]
    <3>2. PICK skipped \in SUBSET RouteWrite(e) :
            op' = [op EXCEPT ![c] = [at |-> "write", entry |-> e, leg |-> Legs(RouteWrite(e), skipped)]]
      BY <3>1 DEF StartWrite
    <3>3. e.number = started + 1
      OBVIOUS
    <3> HIDE DEF e
    <3>4. PICK r : r = [at |-> "write", entry |-> e, leg |-> Legs(RouteWrite(e), skipped)]
      OBVIOUS
    <3>5. op' = [op EXCEPT ![c] = r] /\ r.at = "write" /\ r.entry.number = started + 1
      BY <3>2, <3>3, <3>4
    <3> QED BY <3>5
  <2>2. CASE \E query \in Queries : StartSearch(c, query)
    <3>0. PICK query \in Queries : StartSearch(c, query)
      BY <2>2
    <3>1. PICK skipped \in SUBSET RouteRead(query) :
            op' = [op EXCEPT ![c] = [at |-> "search", leg |-> Legs(RouteRead(query), skipped),
                                     seen |-> [t \in RouteRead(query) |-> [i \in Ids |-> 0]]]]
      BY <3>0 DEF StartSearch
    <3>2. PICK r : r = [at |-> "search", leg |-> Legs(RouteRead(query), skipped),
                        seen |-> [t \in RouteRead(query) |-> [i \in Ids |-> 0]]]
      OBVIOUS
    <3>3. op' = [op EXCEPT ![c] = r] /\ r.at = "search"
      BY <3>1, <3>2
    <3> QED BY <3>3
  <2>3. CASE \E i \in Ids, hard \in BOOLEAN : StartForget(c, i, hard)
    <3>1. PICK i \in Ids, hard \in BOOLEAN : op' = [op EXCEPT ![c] = [at |-> "find", id |-> i, hard |-> hard, tier |-> 1]]
      BY <2>3 DEF StartForget
    <3>2. PICK r : r = [at |-> "find", id |-> i, hard |-> hard, tier |-> 1]
      OBVIOUS
    <3>3. op' = [op EXCEPT ![c] = r] /\ r.at = "find"
      BY <3>1, <3>2
    <3> QED BY <3>3
  <2> QED BY <2>1, <2>2, <2>3
<1>4. DInv'
  BY <1>1, <1>2, <1>3, Continues
<1>5. op'[c] = r /\ \A d \in Clients : d # c => op'[d] = op[d]
  BY <1>3 DEF DInv, IInv, Types
<1> QED BY <1>1, <1>3, <1>4, <1>5

\* A leg that ends no longer runs, whatever it leaves with its connection.
LEMMA LegsOnce ==
    ASSUME DInv, IInv', NEW c \in Clients, NEW t \in Tiers,
           LegFetch(c, t) \/ LegAnswer(c, t) \/ LegTimeout(c, t) \/ LegError(c, t) \/ LegCorrupt(c, t)
    PROVE  DInv' /\ UNCHANGED <<store, started, kept>> /\ op[c].at # "wrote" /\ op'[c].at # "wrote"
           /\ \A d \in Clients : d # c => op'[d] = op[d]
<1>1. /\ UNCHANGED <<store, started, kept>> /\ op[c].at \in {"write", "search"} /\ t \in DOMAIN op[c].leg
      /\ stray' \subseteq stray \cup {<<u, op[c].entry>> : u \in {v \in {t} : op[c].at = "write" /\ op[c].leg[v] = "running"}}
  BY DEF LegFetch, LegAnswer, LegTimeout, LegError, LegCorrupt, LegLost, LegAt, Fanned, CutOff
<1>2. Rows'
  BY <1>1 DEF DInv, Rows
<1>3. stray' \subseteq stray \cup {<<u, op[c].entry>> : u \in {v \in Tiers : Pending(c, v)}}
  BY <1>1 DEF Pending
<1>4. CASE op[c].at = "search"
  <2>1. PICK r : op' = [op EXCEPT ![c] = r]
    BY Zenon DEF LegFetch, LegAnswer, LegTimeout, LegError, LegCorrupt, LegLost
  <2>2. op'[c] = r /\ \A d \in Clients : d # c => op'[d] = op[d]
    BY <2>1 DEF DInv, IInv, Types
  <2>3. r.at = "search"
    <3>1. CASE LegFetch(c, t)
      BY <1>4, <2>2, <3>1, SearchStays DEF DInv
    <3>2. CASE ~LegFetch(c, t)
      <4>1. PICK where \in LegState : op' = [op EXCEPT ![c] = [op[c] EXCEPT !.leg = [op[c].leg EXCEPT ![t] = where]]]
        BY <3>2, Zenon DEF LegAnswer, LegTimeout, LegError, LegCorrupt, LegLost, LegState
      <4>2. [op[c] EXCEPT !.leg = [op[c].leg EXCEPT ![t] = where]].at = "search"
        BY <1>1, <1>4, <4>1, LegMoves DEF DInv
      <4> QED BY <2>2, <4>1, <4>2 DEF DInv, IInv, Types
    <3> QED BY <3>1, <3>2
  <2>4. DInv'
    BY <1>1, <1>2, <1>3, <2>1, <2>3, Continues
  <2> QED BY <1>1, <1>4, <2>2, <2>3, <2>4
<1>5. CASE op[c].at = "write"
  <2>1. PICK where \in {"done", "lost"} :
          op' = [op EXCEPT ![c] = [op[c] EXCEPT !.leg = [op[c].leg EXCEPT ![t] = where]]]
    BY <1>5, Zenon DEF LegFetch, LegAnswer, LegTimeout, LegError, LegCorrupt, LegLost
  <2> DEFINE leg == [op[c].leg EXCEPT ![t] = where]
             r == [op[c] EXCEPT !.leg = leg]
  <2>2. op' = [op EXCEPT ![c] = r]
    BY <2>1
  <2>3. r.at = "write"
    BY <1>1, <1>5, <2>1, LegMoves DEF DInv, LegState
  <2>4. r.leg = leg
    BY <1>1, <1>5, <2>1, LegMoves DEF DInv, LegState
  <2>5. r.entry = op[c].entry
    BY <1>1, <1>5, <2>1, LegMoves DEF DInv, LegState
  <2>6. DOMAIN leg = DOMAIN op[c].leg /\ leg[t] # "running" /\ DOMAIN op[c].leg \subseteq Tiers
        /\ \A u \in DOMAIN leg : u # t => leg[u] = op[c].leg[u]
    BY <1>1, <2>1, Fans DEF DInv
  <2> HIDE DEF leg, r
  <2>7. \A u \in DOMAIN r.leg : r.leg[u] = "running" => u # t /\ Pending(c, u)
    BY <1>5, <2>4, <2>6 DEF Pending
  <2>8. \A s \in stray' \ stray : s[1] = t
    BY <1>1
  <2>9. \A u \in DOMAIN r.leg : r.leg[u] = "running" => Pending(c, u) /\ <<u, op[c].entry>> \notin stray' \ stray
    BY <2>7, <2>8
  <2>10. DInv'
    BY <1>1, <1>2, <1>3, <1>5, <2>2, <2>3, <2>5, <2>9, Continues
  <2>11. op'[c] = r /\ \A d \in Clients : d # c => op'[d] = op[d]
    BY <2>2 DEF DInv, IInv, Types
  <2> QED BY <1>1, <1>5, <2>3, <2>10, <2>11
<1> QED BY <1>1, <1>4, <1>5

\* A commit is remembered, and its leg no longer runs.
LEMMA CommitsOnce ==
    ASSUME DInv, IInv', NEW c \in Clients, NEW t \in Tiers, LegCommit(c, t)
    PROVE  /\ DInv' /\ started' = started
           /\ op[c].entry \in Entry /\ Land(t, op[c].entry) /\ Number(c) <= started /\ <<t, Number(c)>> \notin kept
           /\ op[c].at # "wrote" /\ op'[c].at # "wrote" /\ \A d \in Clients : d # c => op'[d] = op[d]
<1>1. op[c].at = "write" /\ t \in DOMAIN op[c].leg /\ Pending(c, t) /\ op[c].entry \in Entry
  BY DEF LegCommit, LegAt, Fanned, Pending, DInv, IInv, Sound, Shape, WriteOp
<1>2. /\ Land(t, op[c].entry) /\ kept' = kept \cup {<<t, Number(c)>>}
      /\ stray' = stray /\ started' = started
  BY DEF LegCommit, Land, Number
<1>3. /\ Number(c) <= started /\ <<t, Number(c)>> \notin kept
      /\ \A s \in stray : s[1] = t => s[2].number # Number(c)
  BY <1>1 DEF DInv, Numbered, Once
<1> DEFINE leg == [op[c].leg EXCEPT ![t] = "landed"]
           r == [op[c] EXCEPT !.leg = leg]
<1>4. op' = [op EXCEPT ![c] = [op[c] EXCEPT !.leg = [op[c].leg EXCEPT ![t] = "landed"]]]
  BY Zenon DEF LegCommit
<1>5. op' = [op EXCEPT ![c] = r]
  BY <1>4
<1>6. r.at = "write"
  BY <1>1, <1>4, LegMoves DEF DInv, LegState
<1>7. r.leg = leg
  BY <1>1, <1>4, LegMoves DEF DInv, LegState
<1>8. r.entry = op[c].entry
  BY <1>1, <1>4, LegMoves DEF DInv, LegState
<1>9. DOMAIN leg = DOMAIN op[c].leg /\ leg[t] # "running" /\ \A u \in DOMAIN leg : u # t => leg[u] = op[c].leg[u]
  BY <1>1, Fans DEF DInv
<1> HIDE DEF leg, r
<1>10. op'[c] = r /\ \A d \in Clients : d # c => op'[d] = op[d]
  BY <1>5 DEF DInv, IInv, Types
<1>11. Numbered'
  <2>1. \A x \in kept' : x[2] <= started
    BY <1>2, <1>3 DEF DInv, Numbered
  <2>2. \A d \in Clients : op'[d].at \in {"write", "wrote"} => op'[d].entry.number <= started
    BY <1>3, <1>8, <1>10 DEF DInv, Numbered, Number
  <2>3. \A b, d \in Clients : b # d /\ op'[b].at = "write" /\ op'[d].at = "write"
                              => op'[b].entry.number # op'[d].entry.number
    BY <1>1, <1>6, <1>8, <1>10 DEF DInv, Numbered, Number
  <2> QED BY <1>2, <2>1, <2>2, <2>3 DEF DInv, Numbered, Number
<1>12. \A s \in stray : <<s[1], s[2].number>> \notin kept'
  BY <1>2, <1>3 DEF DInv, Once
<1>13. ASSUME NEW d \in Clients, NEW u \in Tiers, op'[d].at = "write", u \in DOMAIN op'[d].leg, op'[d].leg[u] = "running"
       PROVE  <<u, op'[d].entry.number>> \notin kept' /\ \A s \in stray : s[1] = u => s[2].number # op'[d].entry.number
  <2>1. Pending(d, u) /\ op'[d].entry = op[d].entry /\ (d = c => u # t)
    BY <1>1, <1>7, <1>8, <1>9, <1>10, <1>13 DEF Pending
  <2>2. <<u, Number(d)>> \notin kept /\ \A s \in stray : s[1] = u => s[2].number # Number(d)
    BY <2>1 DEF DInv, Once
  <2>3. d # c => Number(d) # Number(c)
    BY <1>1, <2>1 DEF DInv, Numbered, Pending
  <2> QED BY <1>2, <2>1, <2>2, <2>3 DEF Number
<1>14. Once'
  BY <1>2, <1>12, <1>13 DEF DInv, Once, Pending, Number
<1>15. Rows'
  BY <1>1, <1>2, LandRows
<1> QED BY <1>1, <1>2, <1>3, <1>6, <1>10, <1>11, <1>14, <1>15 DEF DInv

\* A write that was cut off lands once.
LEMMA StraysOnce ==
    ASSUME DInv, IInv', NEW s \in stray, StrayLand(s[1], s[2])
    PROVE  /\ DInv' /\ started' = started /\ op' = op
           /\ s[1] \in Tiers /\ s[2] \in Entry /\ Land(s[1], s[2]) /\ s[2].number <= started
           /\ <<s[1], s[2].number>> \notin kept
<1>1. s[1] \in Tiers /\ s[2] \in Entry /\ Land(s[1], s[2])
  BY DEF StrayLand, DInv, IInv, Types
<1>2. /\ kept' = kept \cup {<<s[1], s[2].number>>} /\ stray' = stray \ {s}
      /\ op' = op /\ started' = started
  BY DEF StrayLand, Land, DInv, IInv, Types
<1>3. <<s[1], s[2].number>> \notin kept /\ s[2].number <= started
      /\ \A r \in stray : s[1] = r[1] /\ s[2].number = r[2].number => s = r
  BY DEF DInv, Once, Numbered
<1>4. Numbered'
  BY <1>2, <1>3 DEF DInv, Numbered, Number
<1>5. \A r \in stray' : <<r[1], r[2].number>> \notin kept'
  BY <1>2, <1>3 DEF DInv, Once
<1>6. \A c \in Clients, t \in Tiers : Pending(c, t) => <<t, Number(c)>> \notin kept'
  BY <1>1, <1>2 DEF DInv, Once
<1>7. Once'
  BY <1>2, <1>5, <1>6 DEF DInv, Once, Pending, Number
<1>8. Rows'
  BY <1>1, LandRows
<1> QED BY <1>1, <1>2, <1>3, <1>4, <1>7, <1>8 DEF DInv

\* A write that returns keeps its entry; a fan-out that is cancelled cuts off the
\* legs that run.
LEMMA GathersOnce ==
    ASSUME DInv, IInv', NEW c \in Clients, FinishWrite(c) \/ FinishSearch(c) \/ CancelFan(c)
    PROVE  /\ DInv' /\ UNCHANGED <<store, started, kept>>
           /\ op[c].at # "wrote" /\ (op'[c].at = "wrote" => op[c].at = "write")
           /\ \A d \in Clients : d # c => op'[d] = op[d]
<1>1. UNCHANGED <<store, started, kept>> /\ op[c].at \in {"write", "search"}
  BY DEF FinishWrite, FinishSearch, CancelFan
<1>2. Rows'
  BY <1>1 DEF DInv, Rows
<1>3. DOMAIN op[c].leg \subseteq Tiers
  BY <1>1, Fans DEF DInv
<1>4. stray' \subseteq stray \cup {<<t, op[c].entry>> : t \in {u \in Tiers : Pending(c, u)}}
  BY <1>3 DEF FinishWrite, FinishSearch, CancelFan, CutOff, Pending
<1>5. PICK r : /\ op' = [op EXCEPT ![c] = r] /\ r.at # "write"
               /\ r.at = "wrote" => op[c].at = "write" /\ r.entry = op[c].entry
  <2>1. CASE FinishWrite(c)
    <3>1. PICK r : r = [at |-> "wrote", entry |-> op[c].entry, outcome |-> WriteOutcome(Lost(c)).outcome,
                        reports |-> WriteOutcome(Lost(c)).reports]
      OBVIOUS
    <3>2. op' = [op EXCEPT ![c] = r] /\ r.at = "wrote" /\ r.entry = op[c].entry /\ op[c].at = "write"
      BY <2>1, <3>1 DEF FinishWrite
    <3> QED BY <3>2
  <2>2. CASE FinishSearch(c)
    <3>1. PICK r : r = [at |-> "searched", routed |-> DOMAIN op[c].leg, lost |-> Lost(c),
                        from |-> [i \in Ids |-> MergedFrom(c, i)]]
      OBVIOUS
    <3>2. op' = [op EXCEPT ![c] = r] /\ r.at = "searched"
      BY <2>2, <3>1 DEF FinishSearch
    <3> QED BY <3>2
  <2>3. CASE CancelFan(c)
    <3>1. PICK r : r = [at |-> "idle"]
      OBVIOUS
    <3>2. op' = [op EXCEPT ![c] = r] /\ r.at = "idle"
      BY <2>3, <3>1 DEF CancelFan
    <3> QED BY <3>2
  <2> QED BY <2>1, <2>2, <2>3
<1>6. DInv'
  BY <1>1, <1>2, <1>4, <1>5, Continues
<1>7. op'[c] = r /\ \A d \in Clients : d # c => op'[d] = op[d]
  BY <1>5 DEF DInv, IInv, Types
<1> QED BY <1>1, <1>5, <1>6, <1>7

\* A forget stores nothing.
LEMMA ForgetsOnce ==
    ASSUME DInv, IInv', NEW c \in Clients, FindOwner(c) \/ DeleteRow(c) \/ ForgetFails(c)
    PROVE  /\ DInv' /\ UNCHANGED <<started, kept>>
           /\ op[c].at # "wrote" /\ op'[c].at # "wrote" /\ \A d \in Clients : d # c => op'[d] = op[d]
           /\ \/ UNCHANGED store
              \/ \E t \in Tiers, i \in Ids : \E hard : RemoveRow(t, i, hard)
<1>1. UNCHANGED <<stray, started, kept>> /\ op[c].at \in {"find", "delete"}
  BY DEF FindOwner, DeleteRow, ForgetFails
<1>2. \/ UNCHANGED store
      \/ RemoveRow(TierOrder[op[c].tier], op[c].id, op[c].hard)
  BY DEF FindOwner, DeleteRow, ForgetFails
<1>3. TierOrder[op[c].tier] \in Tiers /\ op[c].id \in Ids
      /\ op[c] = [at |-> op[c].at, id |-> op[c].id, hard |-> op[c].hard, tier |-> op[c].tier]
  BY <1>1, Routed DEF DInv, IInv, Sound, Shape, Rec
<1>4. Rows'
  <2>1. CASE UNCHANGED store
    BY <1>1, <2>1 DEF DInv, Rows
  <2>2. CASE RemoveRow(TierOrder[op[c].tier], op[c].id, op[c].hard)
    BY <1>1, <1>3, <2>2, RemoveRows
  <2> QED BY <1>2, <2>1, <2>2
<1>5. PICK r : op' = [op EXCEPT ![c] = r] /\ r.at \notin {"write", "wrote"}
  <2>1. \/ \E outcome : Forgot(c, outcome)
        \/ op' = [op EXCEPT ![c] = [op[c] EXCEPT !.tier = op[c].tier + 1]]
        \/ op' = [op EXCEPT ![c] = [op[c] EXCEPT !.at = "delete"]]
    BY Zenon DEF FindOwner, DeleteRow, ForgetFails
  <2>2. CASE \E outcome : Forgot(c, outcome)
    <3>1. PICK outcome : op' = [op EXCEPT ![c] = [at |-> "forgot", id |-> op[c].id, outcome |-> outcome]]
      BY <2>2 DEF Forgot
    <3>2. PICK r : r = [at |-> "forgot", id |-> op[c].id, outcome |-> outcome]
      OBVIOUS
    <3>3. op' = [op EXCEPT ![c] = r] /\ r.at = "forgot"
      BY <3>1, <3>2
    <3> QED BY <3>3
  <2>3. CASE op' = [op EXCEPT ![c] = [op[c] EXCEPT !.tier = op[c].tier + 1]]
    <3>1. PICK n : n = op[c].tier + 1
      OBVIOUS
    <3>2. PICK r : r = [op[c] EXCEPT !.tier = n]
      OBVIOUS
    <3>3. op' = [op EXCEPT ![c] = r] /\ r.at = op[c].at
      BY <1>3, <2>3, <3>1, <3>2
    <3> QED BY <1>1, <3>3
  <2>4. CASE op' = [op EXCEPT ![c] = [op[c] EXCEPT !.at = "delete"]]
    <3>1. PICK r : r = [op[c] EXCEPT !.at = "delete"]
      OBVIOUS
    <3>2. op' = [op EXCEPT ![c] = r] /\ r.at = "delete"
      BY <1>3, <2>4, <3>1
    <3> QED BY <3>2
  <2> QED BY <2>1, <2>2, <2>3, <2>4
<1>6. DInv'
  BY <1>1, <1>4, <1>5, Continues
<1>7. op'[c] = r /\ \A d \in Clients : d # c => op'[d] = op[d]
  BY <1>5 DEF DInv, IInv, Types
<1> QED BY <1>1, <1>2, <1>3, <1>5, <1>6, <1>7

-----------------------------------------------------------------------------
(* The durable store *)

Landed == {n \in 1..started : <<"private", n>> \in kept}
Acked == {n \in 1..started : \E c \in Clients :
              /\ op[c].at = "wrote" /\ op[c].outcome = "ok"
              /\ op[c].entry.number = n /\ op[c].entry.home = "private"}
AnchorRows == [i \in Ids |-> store["private"][i]]

Stored == <<AnchorRows, started, Landed, Acked>>

\* A row of the private tier is stored, or the step is none of the store's.
LEMMA Keeps ==
    ASSUME DInv, NEW t \in Tiers, NEW e \in Entry, Land(t, e), e.number <= started, <<t, e.number>> \notin kept,
           started' = started, Acked' = Acked
    PROVE  Anchor!DurableNext \/ UNCHANGED Stored
<1>0. "private" \in Tiers
  BY FederationAssumption DEF Tiers
<1>1. e.number \in 1..started /\ e.id \in Ids /\ "private" \in Tiers
  <2>1. e.number \in 1..MaxOps /\ e.id \in Ids /\ started \in 0..MaxOps
    BY DEF Entry, DInv, IInv, Types
  <2> QED BY <1>0, <2>1, FederationAssumption
<1>2. kept' = kept \cup {<<t, e.number>>}
  BY DEF Land
<1> DEFINE row == [number |-> e.number, hidden |-> FALSE]
<1>3. store' = [store EXCEPT ![t] = [store[t] EXCEPT ![e.id] = row]]
  BY Zenon DEF Land, DInv, IInv, Types
<1>4. CASE t = "private"
  <2>1. Landed' = Landed \cup {e.number} /\ e.number \notin Landed
    BY <1>1, <1>2, <1>4 DEF Landed
  <2>2. AnchorRows' = [AnchorRows EXCEPT ![e.id] = row]
    <3> HIDE DEF row
    <3> QED BY <1>1, <1>3, <1>4 DEF AnchorRows, DInv, IInv, Types
  <2>3. Anchor!Keep(e.number, e.id)
    BY <1>1, <2>1, <2>2 DEF Anchor!Keep, Landed, Acked, AnchorRows
  <2> QED BY <1>1, <2>3 DEF Anchor!DurableNext
<1>5. CASE t # "private"
  <2> HIDE DEF row
  <2>1. Landed' = Landed /\ AnchorRows' = AnchorRows
    BY <1>1, <1>2, <1>3, <1>5 DEF Landed, AnchorRows, DInv, IInv, Types
  <2> QED BY <2>1 DEF Stored
<1> QED BY <1>4, <1>5

\* A row of the private tier is removed or hidden.
LEMMA Forgotten ==
    ASSUME DInv, NEW t \in Tiers, NEW i \in Ids, NEW hard, RemoveRow(t, i, hard),
           UNCHANGED <<started, kept>>, Acked' = Acked
    PROVE  Anchor!DurableNext \/ UNCHANGED Stored
<1>1. Landed' = Landed /\ "private" \in Tiers
  BY FederationAssumption DEF Landed, Tiers
<1> DEFINE hide == [store[t][i] EXCEPT !.hidden = TRUE]
           row == IF hard THEN Absent ELSE hide
<1>2. store' = [store EXCEPT ![t] = [store[t] EXCEPT ![i] = row]] /\ store[t][i] # Absent
  BY Zenon DEF RemoveRow, DInv, IInv, Types
<1>3. store[t][i] = [number |-> store[t][i].number, hidden |-> store[t][i].hidden] /\ store[t][i] \in Copy
  BY DEF DInv, IInv, Types, Copy
<1>4. CASE t = "private"
  <2>1. AnchorRows[i] = store[t][i] /\ AnchorRows[i].number # 0
    <3>1. <<t, store[t][i].number>> \in kept
      BY <1>2 DEF DInv, Rows
    <3>2. store[t][i].number # 0
      BY <3>1 DEF DInv, IInv, Types
    <3> QED BY <1>4, <3>2 DEF AnchorRows
  <2>2. AnchorRows' = [AnchorRows EXCEPT ![i] = row]
    <3> HIDE DEF row
    <3> QED BY <1>1, <1>2, <1>4 DEF AnchorRows, DInv, IInv, Types
  <2>3. CASE hard
    <3>1. [AnchorRows[i] EXCEPT !.number = 0] = [number |-> 0, hidden |-> store[t][i].hidden]
      BY <1>3, <2>1
    <3>2. [[number |-> 0, hidden |-> store[t][i].hidden] EXCEPT !.hidden = FALSE] = Absent
      <4>1. [[number |-> 0, hidden |-> store[t][i].hidden] EXCEPT !.hidden = FALSE] = [number |-> 0, hidden |-> FALSE]
        <5>1. \A h, g : [[number |-> 0, hidden |-> h] EXCEPT !.hidden = g] = [number |-> 0, hidden |-> g]
          OBVIOUS
        <5> QED BY <5>1, Zenon
      <4> QED BY <4>1 DEF Absent
    <3>3. [[AnchorRows[i] EXCEPT !.number = 0] EXCEPT !.hidden = FALSE] = Absent
      BY <3>1, <3>2, Zenon
    <3>4. AnchorRows' = [AnchorRows EXCEPT ![i] = [[AnchorRows[i] EXCEPT !.number = 0] EXCEPT !.hidden = FALSE]]
      BY <2>2, <2>3, <3>3, Zenon
    <3>5. [AnchorRows EXCEPT ![i].number = 0, ![i].hidden = FALSE]
          = [AnchorRows EXCEPT ![i] = [[AnchorRows[i] EXCEPT !.number = 0] EXCEPT !.hidden = FALSE]]
      BY DEF AnchorRows
    <3>6. Anchor!Remove(i)
      BY <1>1, <2>1, <3>4, <3>5 DEF Anchor!Remove, Landed, Acked, AnchorRows
    <3> QED BY <3>6 DEF Anchor!DurableNext
  <2>4. CASE ~hard
    <3>1. AnchorRows' = [AnchorRows EXCEPT ![i] = [AnchorRows[i] EXCEPT !.hidden = TRUE]]
      BY <2>1, <2>2, <2>4, Zenon
    <3>2. AnchorRows' = [AnchorRows EXCEPT ![i].hidden = TRUE]
      BY <3>1, Zenon
    <3>3. Anchor!Remove(i)
      BY <1>1, <2>1, <3>2 DEF Anchor!Remove, Landed, Acked, AnchorRows
    <3> QED BY <3>3 DEF Anchor!DurableNext
  <2> QED BY <2>3, <2>4
<1>5. CASE t # "private"
  <2> HIDE DEF row
  <2>1. AnchorRows' = AnchorRows
    BY <1>1, <1>2, <1>5 DEF AnchorRows, DInv, IInv, Types
  <2> QED BY <1>1, <2>1 DEF Stored
<1> QED BY <1>4, <1>5

\* No acknowledgement is given or given up.
LEMMA AcksStay ==
    ASSUME started' = started, \A c \in Clients : op'[c] = op[c] \/ (op[c].at # "wrote" /\ op'[c].at # "wrote")
    PROVE  Acked' = Acked
BY DEF Acked

\* A new operation gives up what its client held.
LEMMA Asks ==
    ASSUME DInv, NEW c \in Clients, UNCHANGED <<store, kept>>, started' = started + 1,
           op'[c].at # "wrote", \A d \in Clients : d # c => op'[d] = op[d]
    PROVE  Anchor!DurableNext
<1>1. started \in Nat
  BY FederationAssumption DEF DInv, IInv, Types
<1>2. Landed' = Landed
  BY <1>1 DEF Landed, DInv, Numbered
<1>3. \A d \in Clients : op'[d].at = "wrote" => op'[d] = op[d] /\ op[d].entry.number <= started
  BY DEF DInv, Numbered, Number
<1>4. \A n \in 1..(started + 1) : n <= started => n \in 1..started
  BY <1>1
<1>5. Acked' \subseteq Acked
  BY <1>1, <1>3, <1>4 DEF Acked
<1>6. AnchorRows' = AnchorRows
  BY DEF AnchorRows
<1>7. Anchor!Ask
  BY <1>2, <1>5, <1>6 DEF Anchor!Ask, Landed, Acked, AnchorRows
<1> QED BY <1>7 DEF Anchor!DurableNext

\* A write that returns normally was stored in its private tier.
LEMMA Acknowledges ==
    ASSUME DInv, NEW c \in Clients, UNCHANGED <<store, started, kept>>, DInv', op[c].at # "wrote",
           \A d \in Clients : d # c => op'[d] = op[d]
    PROVE  Anchor!DurableNext \/ UNCHANGED Stored
<1>1. Landed' = Landed /\ AnchorRows' = AnchorRows /\ started \in Nat
  BY FederationAssumption DEF Landed, AnchorRows, DInv, IInv, Types
<1>2. CASE op'[c].at = "wrote" /\ op'[c].outcome = "ok" /\ op'[c].entry.home = "private"
  <2>1. PICK n : n = op'[c].entry.number
    OBVIOUS
  <2>2. op'[c].entry \in Entry /\ n \in 1..MaxOps /\ n <= started
    BY <1>2, <2>1 DEF DInv, IInv, Sound, Shape, Entry, Numbered, Number
  <2>3. n \in 1..started
    BY <1>1, <2>2, FederationAssumption
  <2>4. <<"private", n>> \in kept
    BY <1>2, <2>1 DEF DInv, IInv, Sound, Written, RouteWrite
  <2>5. Acked' = Acked \cup {n}
    <3>1. \A m \in 1..started : m \in Acked' <=> m \in Acked \/ m = n
      BY <1>2, <2>1 DEF Acked
    <3>2. Acked \subseteq 1..started /\ Acked' \subseteq 1..started
      BY DEF Acked
    <3> QED BY <2>3, <3>1, <3>2
  <2>6. Anchor!Acknowledge(n)
    BY <1>1, <2>3, <2>4, <2>5 DEF Anchor!Acknowledge, Landed, Acked, AnchorRows
  <2> QED BY <2>3, <2>6 DEF Anchor!DurableNext
<1>3. CASE ~(op'[c].at = "wrote" /\ op'[c].outcome = "ok" /\ op'[c].entry.home = "private")
  <2>1. Acked' = Acked
    BY <1>3 DEF Acked
  <2> QED BY <1>1, <2>1 DEF Stored
<1> QED BY <1>2, <1>3

\* Each step of the federation is a step of the store, or none.
LEMMA Maps ==
    ASSUME DInv, IInv', [Next]_vars
    PROVE  DInv' /\ (Anchor!DurableNext \/ UNCHANGED Stored)
<1>1. CASE UNCHANGED vars \/ Quiet
  <2>1. UNCHANGED <<store, op, stray, started, kept>>
    BY <1>1 DEF vars, Quiet
  <2>2. DInv'
    BY <2>1 DEF DInv, Numbered, Once, Rows, Pending, Number
  <2>3. UNCHANGED Stored
    BY <2>1 DEF Stored, AnchorRows, Landed, Acked
  <2> QED BY <2>2, <2>3
<1>2. ASSUME NEW s \in stray, StrayLand(s[1], s[2])
      PROVE  DInv' /\ (Anchor!DurableNext \/ UNCHANGED Stored)
  <2>1. Acked' = Acked
    BY <1>2, StraysOnce, AcksStay
  <2> QED BY <1>2, <2>1, StraysOnce, Keeps
<1>3. ASSUME NEW c \in Clients, ClientStep(c)
      PROVE  DInv' /\ (Anchor!DurableNext \/ UNCHANGED Stored)
  <2>1. CASE \/ \E i \in Ids, home \in Tiers \ ReadOnly, promoted \in BOOLEAN : StartWrite(c, i, home, promoted)
             \/ \E query \in Queries : StartSearch(c, query)
             \/ \E i \in Ids, hard \in BOOLEAN : StartForget(c, i, hard)
    BY <2>1, StartsOnce, Asks
  <2>2. ASSUME NEW t \in Tiers, LegCommit(c, t)
        PROVE  DInv' /\ (Anchor!DurableNext \/ UNCHANGED Stored)
    <3>1. /\ DInv' /\ started' = started
          /\ op[c].entry \in Entry /\ Land(t, op[c].entry) /\ op[c].entry.number <= started
          /\ <<t, op[c].entry.number>> \notin kept
          /\ op[c].at # "wrote" /\ op'[c].at # "wrote" /\ \A d \in Clients : d # c => op'[d] = op[d]
      BY <2>2, CommitsOnce DEF Number
    <3>2. Acked' = Acked
      BY <3>1, AcksStay
    <3> QED BY <3>1, <3>2, Keeps
  <2>3. CASE \E t \in Tiers :
               LegFetch(c, t) \/ LegAnswer(c, t) \/ LegTimeout(c, t) \/ LegError(c, t) \/ LegCorrupt(c, t)
    BY <2>3, LegsOnce, Acknowledges
  <2>4. CASE FinishWrite(c) \/ FinishSearch(c) \/ CancelFan(c)
    BY <2>4, GathersOnce, Acknowledges
  <2>5. CASE FindOwner(c) \/ DeleteRow(c) \/ ForgetFails(c)
    <3>1. /\ DInv' /\ UNCHANGED <<started, kept>>
          /\ op[c].at # "wrote" /\ op'[c].at # "wrote" /\ \A d \in Clients : d # c => op'[d] = op[d]
          /\ \/ UNCHANGED store
             \/ \E t \in Tiers, i \in Ids : \E hard : RemoveRow(t, i, hard)
      BY <2>5, ForgetsOnce
    <3>2. Acked' = Acked
      BY <3>1, AcksStay
    <3>3. CASE UNCHANGED store
      BY <3>1, <3>3, Acknowledges
    <3>4. CASE \E t \in Tiers, i \in Ids : \E hard : RemoveRow(t, i, hard)
      BY <3>1, <3>2, <3>4, Forgotten
    <3> QED BY <3>1, <3>3, <3>4
  <2> QED BY <1>3, <2>1, <2>2, <2>3, <2>4, <2>5 DEF ClientStep
<1> QED BY <1>1, <1>2, <1>3 DEF Next

LEMMA Opens == Init => DInv /\ Anchor!DurableInit
<1> SUFFICES ASSUME Init
             PROVE  DInv /\ Anchor!DurableInit
  OBVIOUS
<1>1. PICK old \in SUBSET (Tiers \X Ids) :
        /\ store = [t \in Tiers |-> [i \in Ids |->
                      IF <<t, i>> \in old THEN [number |-> 1, hidden |-> FALSE] ELSE Absent]]
        /\ kept = {<<x[1], 1>> : x \in old}
  BY DEF Init
<1>2. IInv /\ started = 1 /\ stray = {} /\ \A c \in Clients : op[c].at = "idle"
  BY Starts DEF Init
<1>3. \A x \in kept : x[2] = 1
  BY <1>1
<1>4. \A t \in Tiers, i \in Ids : <<t, i>> \in old => <<t, 1>> \in kept
  BY <1>1
<1>5. \A t \in Tiers, i \in Ids : store[t][i] = Absent \/ (store[t][i].number = 1 /\ <<t, 1>> \in kept)
  BY <1>1, <1>4
<1>6. DInv
  <2>1. Numbered
    BY <1>2, <1>3 DEF Numbered
  <2>2. Once
    BY <1>2 DEF Once, Pending
  <2>3. Rows
    BY <1>5 DEF Rows
  <2> QED BY <1>2, <2>1, <2>2, <2>3 DEF DInv
<1>7. Acked = {}
  BY <1>2 DEF Acked
<1>8. \A i \in Ids : AnchorRows[i].number \in {0} \cup Landed
  <2>1. "private" \in Tiers
    BY FederationAssumption DEF Tiers
  <2>2. ASSUME NEW i \in Ids
        PROVE  AnchorRows[i].number \in {0} \cup Landed
    <3>1. AnchorRows[i] = store["private"][i]
      BY DEF AnchorRows
    <3>2. CASE store["private"][i] = Absent
      BY <3>1, <3>2 DEF Absent
    <3>3. CASE store["private"][i].number = 1 /\ <<"private", 1>> \in kept
      BY <1>2, <3>1, <3>3 DEF Landed
    <3> QED BY <1>5, <2>1, <3>2, <3>3
  <2> QED BY <2>2
<1>9. Anchor!DurableInit
  <2>1. DOMAIN AnchorRows = Ids /\ Landed \subseteq 1..started
    BY DEF AnchorRows, Landed
  <2> QED BY <1>2, <1>7, <1>8, <2>1 DEF Anchor!DurableInit, AnchorRows, Landed, Acked
<1> QED BY <1>6, <1>9

-----------------------------------------------------------------------------

\* What the federation acknowledges was stored in the private tier, nothing is stored
\* twice, and nothing it was not asked for (MemoryFederation.write and forget, over
\* ResilientTier and a store whose cut off writes may land late).
THEOREM AnchorKeeps == Spec => AnchorIsDurable
<1>1. Spec => []DInv
  <2>1. Init => DInv
    BY Opens
  <2>2. DInv /\ IInv' /\ [Next]_vars => DInv'
    BY Maps
  <2> QED BY <2>1, <2>2, Inductive, PTL DEF Spec
<1>2. Init => Anchor!DurableInit
  BY Opens
<1>3. DInv /\ IInv' /\ [Next]_vars => [Anchor!DurableNext]_(Anchor!durableVars)
  BY Maps DEF Stored, AnchorRows, Landed, Acked, Anchor!durableVars
<1> QED BY <1>1, <1>2, <1>3, Inductive, PTL DEF Spec, AnchorIsDurable, Anchor!DurableSpec

=============================================================================
