------------------------------ MODULE MCAgents ------------------------------
(***************************************************************************)
(* The agents and the World around one run of an agent, each on small      *)
(* instances: conversations, the routing of tasks to the agents on disk,   *)
(* the blend of an agent's cards, and the evaluation harness.              *)
(***************************************************************************)
EXTENDS Parts, SequencesExt, TLC

CONSTANTS Missing, Torn

\* Two agents, conversations over at most two sessions, with cancellations and
\* crashes.
ChatParts ==
    "chat" :> [module |-> "ChatSession", Agents |-> {"a1", "a2"}, Prompts |-> {"p"}, Costs |-> {1},
               MaxSessions |-> 2, MaxMessages |-> 3, Torn |-> Torn]

\* One command after the other; every file of at most two rules under every
\* spread; two commands at a time, which may die.
RulesOf(targets, tasks) == [target : targets, priority : {0, 1}, enabled : BOOLEAN, tasks : tasks]
WorldsOf(rules, spreads) ==
    [rules : rules, spread : spreads, scoped : {"b", None}, default : {"a", None}, reflex : BOOLEAN]
AllWorlds == WorldsOf(BoundedSeq(RulesOf({"a", "b"}, {{"t1"}}), 2), {None, {}, {"a"}, {"a", "b"}})
OneRule == <<[target |-> "b", priority |-> 0, enabled |-> TRUE, tasks |-> {"t1"}]>>
FewWorlds == {w \in WorldsOf({OneRule}, {None, {"a", "b"}}) : w.scoped = None /\ w.default = "a"}

WorldParts ==
    LET c == [module |-> "World", Agents |-> {"a", "b"}, Procs |-> {"p1"}, Tasks |-> {"t1", "t2"}, Blank |-> "blank",
              Cards |-> {"hermit"}, WorldCard |-> "world", Worlds |-> FewWorlds,
              Ops |-> {"create", "delete", "route", "named"}, Crashes |-> FALSE, Runs |-> 3,
              Torn |-> Torn, Missing |-> Missing]
    IN  "commands" :> c
        @@ "rules" :> [c EXCEPT !.Worlds = AllWorlds, !.Ops = {"route"}, !.Runs = 1]
        @@ "two" :> [c EXCEPT !.Procs = {"p1", "p2"}, !.Tasks = {"t1"}, !.Ops = @ \cup {"edit"}, !.Crashes = TRUE,
                              !.Runs = 2]

\* Four cards and the reserved one, two of which leave their half-life to the
\* default; tensions stated by one side only.
BlendParts ==
    "cards" :> [module |-> "CardBlend", Cards |-> {"fool", "hermit", "tower", "sun", "world"}, WORLD |-> "world",
                Temperature |-> "fool" :> 95 @@ "hermit" :> 40 @@ "tower" :> 81 @@ "world" :> 50 @@ "sun" :> 70,
                HalfLife |-> "fool" :> 30 @@ "hermit" :> None @@ "tower" :> 210 @@ "world" :> 365000 @@ "sun" :> None,
                TensionCards |-> "fool" :> {} @@ "hermit" :> {"fool"} @@ "tower" :> {"hermit"} @@ "world" :> {}
                                 @@ "sun" :> {"tower", "hermit"},
                Default |-> 140, MAX_MODIFIERS |-> 2]

\* A case with rules and dimensions, one with neither, one with rules only, and
\* one that is skipped; a second run in a later second.
SomeReplies == {[score |-> 1500, floor |-> TRUE], [score |-> 800, floor |-> FALSE]}
EvalParts ==
    "eval" :> [module |-> "EvalRun", Cases |-> {"a", "b", "d", "e"}, Marked |-> {"e"},
               Rules |-> "a" :> 1 @@ "b" :> 0 @@ "d" :> 2 @@ "e" :> 2,
               Forbidden |-> "a" :> 1 @@ "b" :> 0 @@ "d" :> 1 @@ "e" :> 0, Judged |-> {"a"}, Threshold |-> 700,
               Replies |-> SomeReplies, Concurrency |-> 2, JudgeFails |-> TRUE, Seconds |-> {0, 1}, MinTick |-> 1]

AgentParts == ChatParts @@ WorldParts @@ BlendParts @@ EvalParts

-----------------------------------------------------------------------------
\* The fairness of ChatSession and of World: what a submission awaits comes back,
\* the classifier has a timeout and the rest of a route waits for nobody.
Talk == Parts["chat"]
Two == Parts["two"]
Fairness ==
    /\ WF_vars(/\ part = "chat"
               /\ \/ Chat(Talk)!Recall \/ Chat(Talk)!Answer \/ Chat(Talk)!Extract \/ Chat(Talk)!Summarise
                  \/ Chat(Talk)!Consolidate \/ Chat(Talk)!Route \/ Chat(Talk)!Leave \/ Chat(Talk)!Build
               /\ Same9)
    /\ \A p \in {"p1", "p2"} : /\ WF_vars(part = "two" /\ Routing(Two)!FallThrough(p) /\ Same8)
                               /\ WF_vars(part = "two" /\ Routing(Two)!Settle(p) /\ Same8)
                               /\ WF_vars(part = "two" /\ Routing(Two)!Load(p) /\ Same8)

AgentSpec == Spec /\ Fairness

\* Every submission and every route comes to an end.
EveryTurnEnds ==
    /\ (part = "chat" /\ Chat(Talk)!Submitted) ~> (part = "chat" /\ Chat(Talk)!IsIdle)
    /\ \A p \in {"p1", "p2"} :
         (part = "two" /\ Routing(Two)!Asked(p)) ~> (part = "two" /\ Routing(Two)!Routed(p))

=============================================================================
