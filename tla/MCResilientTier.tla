-------------------------- MODULE MCResilientTier --------------------------
(***************************************************************************)
(* Three tasks on one tier, a threshold of two, a cooldown of two ticks; a *)
(* keyword read has a budget of one tick, a semantic read and a write two. *)
(* The tier is extended with the tasks whose current call was let in by a  *)
(* half-open breaker, which what the source says of that state is about.   *)
(***************************************************************************)
EXTENDS ResilientTier

MCBudget == [op \in Ops |-> IF op = "keyword" THEN 1 ELSE 2]

VARIABLE probes   \* tasks whose current call began on a half-open breaker

ProbeInit == Init /\ probes = {}

ProbeNext ==
    /\ Next
    /\ probes' = {c \in Callers :
                    /\ call'[c].at = "waiting"
                    /\ \/ c \in probes
                       \/ ~Waiting(c) /\ breaker'.state = "half_open"}

ProbeSpec == ProbeInit /\ [][ProbeNext]_<<vars, probes>> /\ Fairness

\* "cooldown elapsed -- one probe call is allowed through": while the breaker
\* is half open at most one call let in by it is under way.
SingleProbe ==
    breaker.state = "half_open" => Cardinality(probes) <= 1

=============================================================================
