-------------------------- MODULE FederationUpkeep --------------------------
(***************************************************************************)
(* The upkeep of an agent's federation: a prune of all its tiers at once   *)
(* and the teardown that closes them (MemoryFederation.prune and aclose).  *)
(*                                                                         *)
(* prune gathers one leg per prunable store, past the breakers; the first  *)
(* leg that fails ends it and leaves the others running.  The owner closes *)
(* the federation when its prune has ended or without any.  What a store   *)
(* removes, and the cancellation of its statements, are the subject of     *)
(* module MemoryStore; the steps of opening one that of StoreOpen.         *)
(***************************************************************************)
EXTENDS Naturals, Sequences

CONSTANTS
    Order,      \* the tiers in routing order
    Prunable    \* those whose backend supports prune and aclose

Tiers == {Order[n] : n \in 1..Len(Order)}

\* What the constants are.
ConstantsFit == Len(Order) \in Nat \ {0} /\ Prunable \subseteq Tiers

VARIABLES
    conn,       \* conn[t]: the store of t holds an open connection
    leg,        \* leg[t]: where the prune of t is
    removed,    \* tiers whose victims are removed and committed
    prune,      \* the call of prune
    counted,    \* tiers the report counts
    closer      \* the call of aclose: "idle", "closed", "failed", or the place it is at

vars == <<conn, leg, removed, prune, counted, closer>>

Init ==
    /\ conn \in [Tiers -> BOOLEAN]
    /\ \A t \in Tiers \ Prunable : ~conn[t]
    /\ leg = [t \in Tiers |-> "none"]
    /\ removed = {}
    /\ prune = "idle"
    /\ counted = {}
    /\ closer = [at |-> "idle", place |-> 1]

-----------------------------------------------------------------------------
(* Bugs this code could have. *)

\* The failures are gathered with the results and left out of the report.
GatheredQuietly == \A t \in Prunable : leg[t] \in {"done", "failed"}

\* The walk ends before the last tier, or one tier too late.
EndsEarly(place) == place + 1 >= Len(Order)
EndsLate(place) == place > Len(Order)

-----------------------------------------------------------------------------
(* prune *)

Start ==
    /\ prune = "idle" /\ closer.at = "idle"
    /\ prune' = "running"
    /\ leg' = [t \in Tiers |-> IF t \notin Prunable THEN "none"
                               ELSE IF conn[t] THEN "removing" ELSE "opening"]
    /\ UNCHANGED <<conn, removed, counted, closer>>

Opened(t) ==
    /\ leg[t] = "opening"
    /\ leg' = [leg EXCEPT ![t] = "removing"]
    /\ conn' = [conn EXCEPT ![t] = TRUE]
    /\ UNCHANGED <<removed, prune, counted, closer>>

\* The victims go in one committed transaction; an await later the leg ends.
Removed(t) ==
    /\ leg[t] = "removing" /\ conn[t]
    /\ leg' = [leg EXCEPT ![t] = "removed"]
    /\ removed' = removed \cup {t}
    /\ UNCHANGED <<conn, prune, counted, closer>>

Ends(t) ==
    /\ leg[t] = "removed"
    /\ leg' = [leg EXCEPT ![t] = "done"]
    /\ UNCHANGED <<conn, removed, prune, counted, closer>>

\* A store that turns out corrupt closes its connection; a closed one fails.
Fails(t) ==
    /\ leg[t] \in {"opening", "removing"}
    /\ leg' = [leg EXCEPT ![t] = "failed"]
    /\ \/ UNCHANGED conn
       \/ conn' = [conn EXCEPT ![t] = FALSE]
    /\ UNCHANGED <<removed, prune, counted, closer>>

GatheredAll == \A t \in Prunable : leg[t] = "done"

Return ==
    /\ prune = "running" /\ GatheredAll
    /\ prune' = "returned"
    /\ counted' = Prunable
    /\ UNCHANGED <<conn, leg, removed, closer>>

\* The first failure is raised, and the other legs are left to themselves.
Raise ==
    /\ prune = "running"
    /\ \E t \in Prunable : leg[t] = "failed"
    /\ prune' = "raised"
    /\ UNCHANGED <<conn, leg, removed, counted, closer>>

-----------------------------------------------------------------------------
(* aclose: one store after the other *)

EndsAt(place) == place >= Len(Order)

Onward == closer' = IF EndsAt(closer.place) THEN [closer EXCEPT !.at = "closed"]
                    ELSE [at |-> "walking", place |-> closer.place + 1]

StartClose ==
    /\ closer.at = "idle" /\ prune # "running" /\ Len(Order) > 0
    /\ closer' = [at |-> "walking", place |-> 1]
    /\ UNCHANGED <<conn, leg, removed, prune, counted>>

\* A tier without a connection, or without aclose, is passed by.
Pass ==
    /\ closer.at = "walking" /\ ~conn[Order[closer.place]]
    /\ Onward
    /\ UNCHANGED <<conn, leg, removed, prune, counted>>

\* The checkpoint is best effort; closing takes an await.
CloseTier ==
    /\ closer.at = "walking" /\ conn[Order[closer.place]]
    /\ closer' = [closer EXCEPT !.at = "closing"]
    /\ UNCHANGED <<conn, leg, removed, prune, counted>>

TierClosed ==
    /\ closer.at = "closing"
    /\ conn' = [conn EXCEPT ![Order[closer.place]] = FALSE]
    /\ Onward
    /\ UNCHANGED <<leg, removed, prune, counted>>

\* The error of one store ends the walk.
CloseFails ==
    /\ closer.at = "closing"
    /\ closer' = [closer EXCEPT !.at = "failed"]
    /\ UNCHANGED <<conn, leg, removed, prune, counted>>

-----------------------------------------------------------------------------
\* Both calls are over and no leg runs: the only place to stop.
Over ==
    /\ closer.at \in {"closed", "failed"}
    /\ \A t \in Tiers : leg[t] \in {"none", "done", "failed"}
    /\ UNCHANGED vars

Next ==
    \/ Start \/ Return \/ Raise
    \/ \E t \in Prunable : Opened(t) \/ Removed(t) \/ Ends(t) \/ Fails(t)
    \/ StartClose \/ Pass \/ CloseTier \/ TierClosed \/ CloseFails
    \/ Over

Spec == Init /\ [][Next]_vars

-----------------------------------------------------------------------------
(* Properties *)

\* Every variable keeps the values the code can give it; a tier that cannot be
\* pruned has no leg.
TypeOK ==
    /\ conn \in [Tiers -> BOOLEAN]
    /\ leg \in [Tiers -> {"none", "opening", "removing", "removed", "done", "failed"}]
    /\ \A t \in Tiers \ Prunable : leg[t] = "none"
    /\ removed \subseteq Prunable /\ counted \subseteq Prunable
    /\ prune \in {"idle", "running", "returned", "raised"}
    /\ closer \in [at: {"idle", "walking", "closing", "closed", "failed"}, place: 1..Len(Order) \cup {1}]

\* A report counts the tiers whose victims were removed, and no other (MemoryFederation.prune).
ReportIsWhole == counted \subseteq removed

\* Unless a prune failed, a teardown that returns leaves no connection open
\* (MemoryFederation.aclose).
ClosedIsShut == closer.at = "closed" /\ prune # "raised" => \A t \in Tiers : ~conn[t]

\* A report counts what was pruned, and a federation that is closed holds nothing open.
ReportsHold == TypeOK /\ ReportIsWhole /\ ClosedIsShut

\* A prune that has ended removes nothing more (MemoryFederation.prune).
EndedIsOver == [][(prune \in {"returned", "raised"}) => UNCHANGED removed]_vars

\* A teardown that returns leaves no connection open, and none is opened
\* behind it (MemoryFederation.aclose).
NoneLeftOpen == closer.at = "closed" => \A t \in Tiers : ~conn[t]

=============================================================================
