------------------------------ MODULE TierGate ------------------------------
(***************************************************************************)
(* What the breaker of a memory tier promises its backend: while the gate  *)
(* is down nobody is admitted until it has rested, and a failure of one    *)
(* who was admitted through a rested gate starts the rest again.           *)
(* When the gate goes down, and on how many failures, is left open.        *)
(***************************************************************************)
EXTENDS Naturals

CONSTANTS Clients, Rest

VARIABLES
    gate,       \* "up" or "down"
    rested,     \* how long the gate has been down
    busy,       \* the clients who were admitted and have not left
    verdict     \* verdict[c]: what c's last visit said of the backend

gateVars == <<gate, rested, busy, verdict>>

GateInit ==
    /\ gate = "up" /\ rested = 0 /\ busy = {}
    /\ verdict = [c \in Clients |-> "none"]

Depart(c, word) ==
    /\ c \in busy
    /\ busy' = busy \ {c}
    /\ verdict' = [verdict EXCEPT ![c] = word]

Admit(c) ==
    /\ c \notin busy
    /\ gate = "up" \/ rested >= Rest
    /\ busy' = busy \cup {c}
    /\ verdict' = [verdict EXCEPT ![c] = "none"]
    /\ UNCHANGED <<gate, rested>>

Vouch(c) ==
    /\ Depart(c, "ok")
    /\ gate' = "up"
    /\ rested' = 0

\* A failure is let pass while the gate is up, or down and not yet rested;
\* otherwise it puts the gate down and the rest starts anew.
Blame(c) ==
    /\ Depart(c, "failed")
    /\ \/ gate' = "down" /\ rested' = 0
       \/ (gate = "up" \/ rested < Rest) /\ UNCHANGED <<gate, rested>>

\* One who gives up says nothing of the backend.
Leave(c) ==
    /\ Depart(c, "none")
    /\ UNCHANGED <<gate, rested>>

Elapse ==
    /\ gate = "down" /\ rested < Rest
    /\ rested' = rested + 1
    /\ UNCHANGED <<gate, busy, verdict>>

GateNext ==
    \/ \E c \in Clients : Admit(c)
    \/ \E c \in Clients : Vouch(c)
    \/ \E c \in Clients : Blame(c)
    \/ \E c \in Clients : Leave(c)
    \/ Elapse

GateSpec == GateInit /\ [][GateNext]_gateVars

=============================================================================
