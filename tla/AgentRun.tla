------------------------------ MODULE AgentRun ------------------------------
(***************************************************************************)
(* Agent.run (arcana/agents/agent.py): complete, dispatch the tool calls   *)
(* of the answer all at once, complete again, up to a cap.  The dispatch   *)
(* is ToolGateway's (arcana/tools/gateway.py), with the guardrails of      *)
(* arcana/tools/guardrails.py.  Several runs of one agent share the tool   *)
(* gateway, and with it the map from wire names to tools that each of them *)
(* rebuilds.                                                               *)
(***************************************************************************)
EXTENDS Naturals, Sequences, FiniteSetsExt

CONSTANTS
    Runs,            \* runs of the agent that may overlap
    Slots,           \* places for the tool calls of one answer
    Subscribed,      \* the agent's tools, in the order they are resolved in
    Base,            \* Base[t]: the name of tool t with its "/" replaced
    Baseline,        \* Baseline[t]: the rules tool t ships with
    RuleSets,        \* the World's rules and the agent's, one after the other
    MaxIterations,   \* _max_tool_iterations
    None             \* no tool, no rule

VARIABLES
    rules,       \* _guardrails.rules
    confirmer,   \* there is a confirmer to ask
    wires,       \* _wire_to_qualified, as the set of wire names in it
    run,         \* run[r]: where run r is, the names it offered, completions so far
    call         \* call[r][k]: the call in place k of run r's last answer

vars == <<rules, confirmer, wires, run, call>>

Tools == {Subscribed[i] : i \in 1..Len(Subscribed)}
Places == 1..Len(Subscribed)

\* A rule names the tools it is about (GuardrailRule); its kind and its severity
\* may be unknown.
Rules == [kind: STRING, severity: STRING, tools: SUBSET Tools]

ASSUME RunAssumption ==
    /\ MaxIterations \in Nat \ {0}
    /\ Subscribed \in Seq(Tools)
    /\ \A t \in Tools : Baseline[t] \in Seq(Rules)
    /\ RuleSets \subseteq Seq(Rules)

\* _add_tool: of the tools with one sanitised name, all but the first get a number.
WireOf(i) ==
    <<Base[Subscribed[i]], Cardinality({j \in 1..i : Base[Subscribed[j]] = Base[Subscribed[i]]})>>
AllWires == {WireOf(i) : i \in Places}
Unknown == <<"unknown", 1>>
ToolAt(w) == Subscribed[CHOOSE i \in Places : WireOf(i) = w]

\* What a call's arguments are to the static rules, if they can be read at all.
Arguments == {"fine", "bad", "unreadable"}
NoCall == [at |-> "none", wire |-> Unknown, tool |-> None, args |-> "fine", rule |-> 0, approved |-> {}]

Idle == [at |-> "idle", allowed |-> {}, iterations |-> 0]

Init ==
    /\ rules \in RuleSets
    /\ confirmer \in BOOLEAN
    /\ wires = {}
    /\ run = [r \in Runs |-> Idle]
    /\ call = [r \in Runs |-> [k \in Slots |-> NoCall]]

Goes(r, where) == run' = [run EXCEPT ![r].at = where]
NoCalls(r) == [call EXCEPT ![r] = [k \in Slots |-> NoCall]]

-----------------------------------------------------------------------------
(* Bugs this code could have.  Each takes the place of a definition below to
   see that a property notices; the model uses none of them. *)

\* `guardrails or ...': the agent's rules are dropped where a tool has its own.
OnlyBaseline(t) == IF t # None /\ Baseline[t] # <<>> THEN Baseline[t] ELSE rules

\* The cap is noticed one pass too late.
CapPassed(n) == n > MaxIterations

\* A failed tool is tried again.
Retries(r, k) == UNCHANGED call

\* A name is not restored but looked up among the tools by its base.
FirstOfBase(w) == Subscribed[CHOOSE i \in Places : Base[Subscribed[i]] = w[1]]

-----------------------------------------------------------------------------
(* Guardrails *)

\* _with_tool_baseline: the shipped rules of the routed tool come first.
Screened(t) == (IF t = None THEN <<>> ELSE Baseline[t]) \o rules

Names(rule, t) == t \in rule.tools

\* enforce stops at a rule that refuses the call, and at one that has to ask; an
\* unenforceable rule always refuses, and so does a confirmation nobody can give.
Asks(rule, t) == rule.kind = "confirm" /\ Names(rule, t) /\ confirmer
Refuses(rule, t, args) ==
    CASE rule.kind = "static"  -> Names(rule, t) /\ args = "bad"
      [] rule.kind = "confirm" -> Names(rule, t) /\ ~confirmer
      [] OTHER                 -> TRUE

Denies(rule) == rule.severity = "block"

\* Rules from place i on that end the screening of a call, or suspend it.
Stops(c, i) ==
    {j \in i..Len(Screened(c.tool)) :
        LET rule == Screened(c.tool)[j]
        IN  Asks(rule, c.tool) \/ (Refuses(rule, c.tool, c.args) /\ Denies(rule))}

\* The call after its rules from place i on were evaluated.
ScreenedFrom(c, i) ==
    IF Stops(c, i) # {}
    THEN LET j == Min(Stops(c, i))
         IN  IF Asks(Screened(c.tool)[j], c.tool) THEN [c EXCEPT !.at = "asking", !.rule = j]
             ELSE [c EXCEPT !.at = "denied"]
    ELSE [c EXCEPT !.at = IF c.tool = None THEN "denied" ELSE "executing"]

-----------------------------------------------------------------------------
(* A run *)

\* The session is begun, memory is searched; then tools_for rebuilds the map, and
\* offers nothing for a model that calls no tools.
Start(r) ==
    /\ run[r].at = "idle"
    /\ Goes(r, "resolving")
    /\ UNCHANGED <<rules, confirmer, wires, call>>

Resolve(r) ==
    /\ run[r].at = "resolving"
    /\ \E offered \in {AllWires, {}} :
         /\ wires' = offered
         /\ run' = [run EXCEPT ![r] = [at |-> "completing", allowed |-> offered, iterations |-> 0]]
    /\ UNCHANGED <<rules, confirmer, call>>

CapHit(n) == n >= MaxIterations

\* The model answers without tool calls, or on the last pass.
Finish(r) ==
    /\ run[r].at = "completing"
    /\ run' = [run EXCEPT ![r] = Idle]
    /\ UNCHANGED <<rules, confirmer, wires, call>>

\* The model asks for tools by wire name; only a model that was offered some does.
Complete(r) ==
    /\ run[r].at = "completing" /\ run[r].allowed # {}
    /\ ~CapHit(run[r].iterations + 1)
    /\ run' = [run EXCEPT ![r].at = "dispatching", ![r].iterations = @ + 1]
    /\ \E asked \in SUBSET Slots \ {{}} :
       \E w \in [asked -> AllWires \cup {Unknown}], a \in [asked -> Arguments] :
         call' = [call EXCEPT ![r] =
                    [k \in Slots |-> IF k \in asked
                                     THEN [NoCall EXCEPT !.at = "begun", !.wire = w[k], !.args = a[k]]
                                     ELSE NoCall]]
    /\ UNCHANGED <<rules, confirmer, wires>>

\* The canonical name, if the map has the wire name; no adapter knows a wire name.
Restored(w) == ToolAt(w)
Named(w) == IF w \in wires THEN Restored(w) ELSE None

\* dispatch up to its first await: membership, name, arguments, adapter, rules.
Dispatch(r, k) ==
    LET c == call[r][k]
        named == [c EXCEPT !.tool = Named(c.wire)]
    IN  /\ run[r].at = "dispatching" /\ c.at = "begun"
        /\ call' = [call EXCEPT ![r][k] =
               IF c.wire \notin run[r].allowed \/ c.args = "unreadable" THEN [c EXCEPT !.at = "denied"]
               ELSE ScreenedFrom(named, 1)]
        /\ UNCHANGED <<rules, confirmer, wires, run>>

\* The confirmer approves, declines or raises.
Confirm(r, k) ==
    LET c == call[r][k]
    IN  /\ c.at = "asking"
        /\ \E yes \in BOOLEAN :
             call' = [call EXCEPT ![r][k] =
                 IF ~yes /\ Denies(Screened(c.tool)[c.rule]) THEN [c EXCEPT !.at = "denied"]
                 ELSE ScreenedFrom(IF yes THEN [c EXCEPT !.approved = @ \cup {c.rule}] ELSE c, c.rule + 1)]
        /\ UNCHANGED <<rules, confirmer, wires, run>>

\* The adapter answers, raises or is timed out: a result in any case.
Settles(r, k) == call' = [call EXCEPT ![r][k].at = "ran"]

Execute(r, k) ==
    /\ call[r][k].at = "executing"
    /\ Settles(r, k)
    /\ UNCHANGED <<rules, confirmer, wires, run>>

\* gather: each call has its result.
Gathered(r) ==
    /\ run[r].at = "dispatching"
    /\ \A k \in Slots : call[r][k].at \in {"none", "denied", "ran"}
    /\ call' = NoCalls(r)
    /\ Goes(r, "completing")
    /\ UNCHANGED <<rules, confirmer, wires>>

\* Memory or model raise, or the caller cancels the run and its calls with it.
Abandon(r) ==
    /\ run[r].at # "idle"
    /\ run' = [run EXCEPT ![r] = Idle]
    /\ call' = NoCalls(r)
    /\ UNCHANGED <<rules, confirmer, wires>>

Next ==
    \/ \E r \in Runs : Start(r)
    \/ \E r \in Runs : Resolve(r)
    \/ \E r \in Runs : Finish(r)
    \/ \E r \in Runs : Complete(r)
    \/ \E r \in Runs, k \in Slots : Dispatch(r, k)
    \/ \E r \in Runs, k \in Slots : Confirm(r, k)
    \/ \E r \in Runs, k \in Slots : Execute(r, k)
    \/ \E r \in Runs : Gathered(r)
    \/ \E r \in Runs : Abandon(r)

Spec == Init /\ [][Next]_vars

\* Model, memory and adapters answer or time out, and somebody answers the confirmer.
Fairness ==
    \A r \in Runs :
        /\ WF_vars(Resolve(r) \/ Finish(r) \/ Complete(r) \/ Gathered(r))
        /\ \A k \in Slots : WF_vars(Dispatch(r, k) \/ Confirm(r, k) \/ Execute(r, k))

FairSpec == Spec /\ Fairness

-----------------------------------------------------------------------------
(* Properties *)

\* Every variable keeps its values.  Tools run only if their results can still be
\* sent back: never on the last allowed pass (run).
TypeOK ==
    /\ rules \in RuleSets /\ confirmer \in BOOLEAN
    /\ wires \in {AllWires, {}}
    /\ \A r \in Runs :
         /\ run[r].at \in {"idle", "resolving", "completing", "dispatching"}
         /\ run[r].allowed \in {AllWires, {}}
         /\ run[r].iterations < MaxIterations
         /\ \A k \in Slots :
              /\ call[r][k].at \in {"none", "begun", "asking", "executing", "denied", "ran"}
              /\ call[r][k].tool \in Tools \cup {None} /\ call[r][k].args \in Arguments

\* A tool that runs was refused by no rule that blocks, neither one it ships with nor
\* one of the World or the agent, and each confirmation it needs was given for this
\* very call (enforce, _with_tool_baseline).
NothingBlockedRuns ==
    \A r \in Runs, k \in Slots :
        LET c == call[r][k]
            all == (IF c.tool = None THEN <<>> ELSE Baseline[c.tool]) \o rules
        IN  c.at \in {"executing", "ran"} =>
                \A j \in 1..Len(all) : all[j].severity = "block" =>
                    /\ ~Refuses(all[j], c.tool, c.args)
                    /\ Asks(all[j], c.tool) => j \in c.approved

\* No call is dispatched past the cap of the loop or past a rule that blocks it
\* (Agent._loop, ToolGateway).
GuardHolds == TypeOK /\ NothingBlockedRuns

\* The tool that runs is the one the model was offered under the name it used,
\* although other runs rebuild the map in the meantime (tools_for, dispatch).
SameTool ==
    \A r \in Runs, k \in Slots :
        LET c == call[r][k]
        IN  c.at \in {"executing", "ran"} =>
                /\ c.wire \in run[r].allowed
                /\ \E i \in Places : WireOf(i) = c.wire /\ Subscribed[i] = c.tool

\* Every run ends: each call comes back with a result, and the loop has a cap.
RunsEnd == \A r \in Runs : (run[r].at # "idle") ~> (run[r].at = "idle")

=============================================================================
