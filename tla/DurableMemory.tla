---------------------------- MODULE DurableMemory ----------------------------
(***************************************************************************)
(* What an agent may rely on of the store that anchors its memory: a write *)
(* that was acknowledged was stored, one that was not may be stored at any *)
(* later time or never, and no write is stored twice.                      *)
(***************************************************************************)
EXTENDS Naturals

CONSTANTS Keys

VARIABLES
    rows,     \* rows[k].number: the write that made the row of k, 0 if none
    asked,    \* requests, numbered from 1; any may be a write
    landed,   \* writes that were stored
    acked     \* writes whose acknowledgement a client holds

durableVars == <<rows, asked, landed, acked>>

\* Rows of an earlier session are rows of requests that landed in it.
DurableInit ==
    /\ asked \in Nat
    /\ landed \subseteq 1..asked
    /\ acked = {}
    /\ DOMAIN rows = Keys
    /\ \A k \in Keys : rows[k].number \in {0} \cup landed

\* The client's previous acknowledgement is given up with the new request.
Ask ==
    /\ asked' = asked + 1
    /\ acked' \subseteq acked
    /\ UNCHANGED <<rows, landed>>

Keep(n, k) ==
    /\ n \in (1..asked) \ landed
    /\ rows' = [rows EXCEPT ![k] = [number |-> n, hidden |-> FALSE]]
    /\ landed' = landed \cup {n}
    /\ UNCHANGED <<asked, acked>>

Acknowledge(n) ==
    /\ n \in landed
    /\ acked' = acked \cup {n}
    /\ UNCHANGED <<rows, asked, landed>>

GiveUp ==
    /\ acked' \subseteq acked
    /\ UNCHANGED <<rows, asked, landed>>

\* A removal empties the row or hides it.
Remove(k) ==
    /\ rows[k].number # 0
    /\ \/ rows' = [rows EXCEPT ![k].number = 0, ![k].hidden = FALSE]
       \/ rows' = [rows EXCEPT ![k].hidden = TRUE]
    /\ UNCHANGED <<asked, landed, acked>>

DurableNext ==
    \/ Ask
    \/ \E n \in 1..asked, k \in Keys : Keep(n, k)
    \/ \E n \in 1..asked : Acknowledge(n)
    \/ GiveUp
    \/ \E k \in Keys : Remove(k)

DurableSpec == DurableInit /\ [][DurableNext]_durableVars

=============================================================================
