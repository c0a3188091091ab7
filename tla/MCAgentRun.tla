----------------------------- MODULE MCAgentRun -----------------------------
(***************************************************************************)
(* Two tools whose names are the same on the wire, one of them with a rule *)
(* of its own; rule sets in which a confirmation comes before and after    *)
(* other rules, blocks or only warns.                                      *)
(***************************************************************************)
EXTENDS AgentRun

CONSTANTS t1, t2

MCSubscribed == <<t1, t2>>
MCBase == [t \in {t1, t2} |-> "a__b__c"]

Rule(kind, severity, tools) == [kind |-> kind, severity |-> severity, tools |-> tools]

MCBaseline == [t \in {t1, t2} |-> IF t = t1 THEN <<Rule("static", "block", {t1})>> ELSE <<>>]

MCRuleSets ==
    { <<>>,
      <<Rule("confirm", "warn", {t1}), Rule("static", "block", {t2})>>,
      <<Rule("confirm", "block", {t1, t2}), Rule("confirm", "block", {t2})>>,
      <<Rule("unknown", "warn", {}), Rule("confirm", "block", {t1})>> }

=============================================================================
