--------------------------- MODULE AgentRunProofs ---------------------------
(***************************************************************************)
(* What the guardrails promise of an agent's tool calls, for any number of *)
(* runs, calls, tools and rules.                                           *)
(***************************************************************************)
EXTENDS AgentRun, WellFoundedInduction, TLAPS

CallShape ==
    [at: {"none", "begun", "asking", "executing", "denied", "ran"}, wire: AllWires \cup {Unknown},
     tool: Tools \cup {None}, args: Arguments, rule: Nat, approved: SUBSET Nat]
RunShape ==
    [at: {"idle", "resolving", "completing", "dispatching"}, allowed: {AllWires, {}},
     iterations: 0..(MaxIterations - 1)]

Types ==
    /\ rules \in RuleSets /\ confirmer \in BOOLEAN
    /\ wires \in {AllWires, {}}
    /\ run \in [Runs -> RunShape]
    /\ call \in [Runs -> [Slots -> CallShape]]

\* The rules of a call before place n let it run.
Cleared(c, n) ==
    \A j \in 1..Len(Screened(c.tool)) :
        j < n /\ Screened(c.tool)[j].severity = "block" =>
            /\ ~Refuses(Screened(c.tool)[j], c.tool, c.args)
            /\ Asks(Screened(c.tool)[j], c.tool) => j \in c.approved

\* What a call has behind it once it is asking, or runs.
Asking(c) ==
    /\ c.rule \in 1..Len(Screened(c.tool))
    /\ Asks(Screened(c.tool)[c.rule], c.tool)
    /\ Cleared(c, c.rule)
Running(c) == c.tool # None /\ Cleared(c, Len(Screened(c.tool)) + 1)

Guarded(c) ==
    /\ c.at = "asking" => Asking(c)
    /\ c.at \in {"executing", "ran"} => Running(c)

\* Its tool is the one that was offered under the name it used.
Offered(r, c) ==
    c.at \in {"asking", "executing", "ran"} =>
        /\ c.wire \in run[r].allowed
        /\ c.tool = None \/ (\E i \in Places : WireOf(i) = c.wire /\ Subscribed[i] = c.tool)

\* Calls live while their run dispatches.
Live(r, c) == c.at # "none" => run[r].at = "dispatching"

Sound(r, c) == Guarded(c) /\ Offered(r, c) /\ Live(r, c)

IInv == Types /\ \A r \in Runs, k \in Slots : Sound(r, call[r][k])

-----------------------------------------------------------------------------
(* Lemmas *)

\* A set of natural numbers that is not empty has a least one.
LEMMA HasLeast ==
    ASSUME NEW T \in SUBSET Nat, T # {}
    PROVE  \E x \in T : \A y \in T : x <= y
<1> DEFINE R == {ss \in Nat \X Nat : ss[1] < ss[2]}
<1>1. IsWellFoundedOn(R, Nat)
  BY NatLessThanWellFounded DEF OpToRel
<1>2. \E x \in T : \A y \in T : ~(<<y, x>> \in R)
  <2> HIDE DEF R
  <2> QED BY <1>1, WFMin
<1>3. PICK x \in T : \A y \in T : ~(<<y, x>> \in R)
  BY <1>2
<1>4. \A y \in T : ~(y < x)
  <2> TAKE y \in T
  <2>1. <<y, x>> \in Nat \X Nat
    OBVIOUS
  <2> QED BY <1>3, <2>1
<1> QED BY <1>4

LEMMA LeastIsMin ==
    ASSUME NEW T \in SUBSET Nat, T # {}
    PROVE  Min(T) \in T /\ \A y \in T : Min(T) <= y
BY HasLeast DEF Min

\* The rules a call is screened by are rules (_with_tool_baseline).
LEMMA ScreenedType ==
    ASSUME Types, NEW t \in Tools \cup {None}
    PROVE  Screened(t) \in Seq(Rules)
<1>1. rules \in Seq(Rules)
  BY RunAssumption DEF Types
<1>2. (IF t = None THEN <<>> ELSE Baseline[t]) \in Seq(Rules)
  BY RunAssumption
<1> QED BY <1>1, <1>2 DEF Screened

\* Screening on from a place up to which the rules let the call run ends in a
\* call that asks, runs or is denied, with the same name, tool and arguments
\* (enforce).
LEMMA ScreeningGuards ==
    ASSUME Types, NEW c \in CallShape, NEW i \in Nat \ {0}, Cleared(c, i)
    PROVE  /\ ScreenedFrom(c, i) \in CallShape
           /\ ScreenedFrom(c, i).at \in {"asking", "executing", "denied"}
           /\ ScreenedFrom(c, i).wire = c.wire /\ ScreenedFrom(c, i).tool = c.tool
           /\ Guarded(ScreenedFrom(c, i))
<1> DEFINE S == Screened(c.tool)
           T == Stops(c, i)
<1>1. S \in Seq(Rules) /\ Len(S) \in Nat
  BY ScreenedType DEF CallShape
<1>2. T \subseteq i..Len(S) /\ T \in SUBSET Nat
  BY <1>1 DEF Stops
<1>3. \A j \in i..Len(S) : j \notin T => ~Asks(S[j], c.tool) /\ ~(Refuses(S[j], c.tool, c.args) /\ S[j].severity = "block")
  BY DEF Stops, Denies
<1>4. ASSUME T = {}
      PROVE  Cleared(c, Len(S) + 1)
  BY <1>1, <1>3, <1>4 DEF Cleared
<1>5. ASSUME NEW j \in T, \A k \in T : j <= k
      PROVE  Cleared(c, j) /\ j \in 1..Len(S)
  BY <1>1, <1>2, <1>3, <1>5 DEF Cleared
<1>6. CASE T = {}
  <2> DEFINE d == [c EXCEPT !.at = IF c.tool = None THEN "denied" ELSE "executing"]
  <2>1. ScreenedFrom(c, i) = d
    BY <1>6 DEF ScreenedFrom
  <2>2. d \in CallShape
    BY DEF CallShape
  <2>3. d.at = (IF c.tool = None THEN "denied" ELSE "executing") /\ d.wire = c.wire /\ d.tool = c.tool
        /\ d.args = c.args /\ d.approved = c.approved
    BY DEF CallShape
  <2> HIDE DEF d
  <2>4. Guarded(d)
    BY <1>4, <1>6, <2>3 DEF Guarded, Running, Cleared
  <2> QED BY <2>1, <2>2, <2>3, <2>4
<1>7. CASE T # {}
  <2> DEFINE j == Min(T)
  <2>1. j \in T /\ \A k \in T : j <= k
    BY <1>2, <1>7, LeastIsMin
  <2> HIDE DEF j
  <2>2. Cleared(c, j) /\ j \in 1..Len(S) /\ j \in Nat
    BY <1>1, <1>5, <2>1
  <2>3. CASE Asks(S[j], c.tool)
    <3> DEFINE d == [c EXCEPT !.at = "asking", !.rule = j]
    <3>1. ScreenedFrom(c, i) = d
      BY <1>7, <2>3 DEF ScreenedFrom, j
    <3>2. d \in CallShape
      BY <2>2, Zenon DEF CallShape
    <3>3. d.at = "asking" /\ d.rule = j /\ d.wire = c.wire /\ d.tool = c.tool
          /\ d.args = c.args /\ d.approved = c.approved
      BY DEF CallShape
    <3> HIDE DEF d
    <3>4. Guarded(d)
      BY <2>2, <2>3, <3>3 DEF Guarded, Asking, Cleared
    <3> QED BY <3>1, <3>2, <3>3, <3>4
  <2>4. CASE ~Asks(S[j], c.tool)
    <3> DEFINE d == [c EXCEPT !.at = "denied"]
    <3>1. ScreenedFrom(c, i) = d
      BY <1>7, <2>4 DEF ScreenedFrom, j
    <3>2. d \in CallShape /\ d.at = "denied" /\ d.wire = c.wire /\ d.tool = c.tool
      BY DEF CallShape
    <3> QED BY <3>1, <3>2 DEF Guarded
  <2> QED BY <2>3, <2>4
<1> QED BY <1>6, <1>7

\* The rules and the confirmer never change, so a guarded call stays guarded.
LEMMA StaysGuarded ==
    ASSUME NEW q, NEW m, NEW c, Guarded(c), call'[q][m] = c, UNCHANGED <<rules, confirmer>>
    PROVE  Guarded(call[q][m])'
BY DEF Guarded, Asking, Running, Cleared, Screened, Refuses, Asks, Names

\* One call moves on.
LEMMA CallMoves ==
    ASSUME IInv, NEW r \in Runs, NEW k \in Slots, NEW d \in CallShape,
           call' = [call EXCEPT ![r] = [call[r] EXCEPT ![k] = d]],
           UNCHANGED <<rules, confirmer, wires, run>>,
           Guarded(d), Offered(r, d), run[r].at = "dispatching"
    PROVE  IInv'
<1>1. Types'
  BY DEF IInv, Types
<1>2. call'[r][k] = d /\ \A q \in Runs, m \in Slots : (q # r \/ m # k) => call'[q][m] = call[q][m]
  BY DEF IInv, Types
<1>3. ASSUME NEW q \in Runs, NEW m \in Slots
      PROVE  Sound(q, call[q][m])'
  <2>1. CASE q = r /\ m = k
    BY <1>2, <2>1, StaysGuarded DEF Sound, Offered, Live
  <2>2. CASE q # r \/ m # k
    BY <1>2, <2>2, StaysGuarded DEF IInv, Sound, Offered, Live
  <2> QED BY <2>1, <2>2
<1> QED BY <1>1, <1>3 DEF IInv

\* One run moves on, with calls that have not been dispatched or with none.
LEMMA RunMoves ==
    ASSUME IInv, NEW r \in Runs, NEW rr \in RunShape, NEW cs \in [Slots -> CallShape],
           \A k \in Slots : cs[k].at \in {"none", "begun"} /\ (cs[k].at = "begun" => rr.at = "dispatching"),
           run' = [run EXCEPT ![r] = rr], call' = [call EXCEPT ![r] = cs],
           UNCHANGED <<rules, confirmer>>, wires' \in {AllWires, {}}
    PROVE  IInv'
<1>1. Types'
  BY DEF IInv, Types
<1>2. run'[r] = rr /\ call'[r] = cs
      /\ \A q \in Runs : q # r => run'[q] = run[q] /\ call'[q] = call[q]
  BY DEF IInv, Types
<1>3. ASSUME NEW q \in Runs, NEW m \in Slots
      PROVE  Sound(q, call[q][m])'
  <2>1. CASE q = r
    BY <1>2, <2>1 DEF Sound, Guarded, Offered, Live
  <2>2. CASE q # r
    BY <1>2, <2>2, StaysGuarded DEF IInv, Sound, Offered, Live
  <2> QED BY <2>1, <2>2
<1> QED BY <1>1, <1>3 DEF IInv

\* A run that does not dispatch has no calls.
LEMMA Quiescent ==
    ASSUME IInv, NEW r \in Runs, run[r].at # "dispatching"
    PROVE  /\ call[r] \in [Slots -> CallShape] /\ \A k \in Slots : call[r][k].at = "none"
           /\ call = [call EXCEPT ![r] = call[r]]
BY DEF IInv, Types, Sound, Live

LEMMA NoCallType == NoCall \in CallShape /\ NoCall.at = "none"
BY DEF NoCall, CallShape, Arguments

-----------------------------------------------------------------------------
(* The steps of a run *)

LEMMA Ended ==
    ASSUME IInv, NEW r \in Runs, run' = [run EXCEPT ![r] = Idle],
           call' = NoCalls(r) \/ (run[r].at # "dispatching" /\ UNCHANGED call),
           UNCHANGED <<rules, confirmer, wires>>
    PROVE  IInv'
<1>1. Idle \in RunShape
  BY RunAssumption DEF Idle, RunShape
<1>2. CASE call' = NoCalls(r)
  <2> DEFINE cs == [k \in Slots |-> NoCall]
  <2>1. cs \in [Slots -> CallShape] /\ \A k \in Slots : cs[k].at = "none"
    BY NoCallType
  <2>2. call' = [call EXCEPT ![r] = cs]
    BY <1>2 DEF NoCalls
  <2> QED BY <1>1, <2>1, <2>2, RunMoves DEF IInv, Types
<1>3. CASE run[r].at # "dispatching" /\ UNCHANGED call
  BY <1>1, <1>3, Quiescent, RunMoves DEF IInv, Types
<1> QED BY <1>2, <1>3

LEMMA Prepares ==
    ASSUME IInv, NEW r \in Runs, Start(r) \/ Resolve(r)
    PROVE  IInv'
<1>1. ASSUME Start(r)
      PROVE  IInv'
  <2> DEFINE rr == [run[r] EXCEPT !.at = "resolving"]
  <2>1. run' = [run EXCEPT ![r] = rr] /\ run[r].at = "idle"
    BY <1>1 DEF Start, Goes
  <2>2. rr \in RunShape
    BY DEF IInv, Types, RunShape
  <2> HIDE DEF rr
  <2>3. UNCHANGED <<rules, confirmer, wires, call>>
    BY <1>1 DEF Start
  <2>4. /\ call[r] \in [Slots -> CallShape] /\ \A k \in Slots : call[r][k].at = "none"
        /\ call' = [call EXCEPT ![r] = call[r]]
    BY <2>1, <2>3, Quiescent
  <2>5. wires' \in {AllWires, {}}
    BY <2>3 DEF IInv, Types
  <2> QED BY <2>1, <2>2, <2>3, <2>4, <2>5, RunMoves
<1>2. ASSUME Resolve(r)
      PROVE  IInv'
  <2>1. PICK offered \in {AllWires, {}} :
          wires' = offered /\ run' = [run EXCEPT ![r] = [at |-> "completing", allowed |-> offered, iterations |-> 0]]
    BY <1>2 DEF Resolve
  <2>2. [at |-> "completing", allowed |-> offered, iterations |-> 0] \in RunShape
    BY RunAssumption DEF RunShape
  <2>3. run[r].at = "resolving" /\ UNCHANGED <<rules, confirmer, call>>
    BY <1>2 DEF Resolve
  <2> QED BY <2>1, <2>2, <2>3, Quiescent, RunMoves
<1> QED BY <1>1, <1>2

\* A dispatched pass is never the last allowed one.
LEMMA Completes ==
    ASSUME IInv, NEW r \in Runs, Complete(r)
    PROVE  IInv'
<1> DEFINE rr == [run[r] EXCEPT !.at = "dispatching", !.iterations = run[r].iterations + 1]
<1>1. run' = [run EXCEPT ![r] = rr]
  BY Zenon DEF Complete
<1>b. run[r].iterations \in 0..(MaxIterations - 1)
  BY DEF IInv, Types, RunShape
<1>c. ~(run[r].iterations + 1 >= MaxIterations)
  BY Zenon DEF Complete, CapHit
<1>2. run[r].iterations + 1 \in 0..(MaxIterations - 1)
  BY <1>b, <1>c, RunAssumption
<1>3. rr \in RunShape /\ rr.at = "dispatching"
  <2>1. run[r] \in RunShape
    BY DEF IInv, Types
  <2>2. rr \in RunShape
    BY <1>2, <2>1, Zenon DEF RunShape
  <2> QED BY <2>1, <2>2 DEF RunShape
<1> HIDE DEF rr
<1>a. PICK asked \in SUBSET Slots \ {{}} :
        \E w \in [asked -> AllWires \cup {Unknown}], a \in [asked -> Arguments] :
          call' = [call EXCEPT ![r] =
                     [k \in Slots |-> IF k \in asked
                                      THEN [NoCall EXCEPT !.at = "begun", !.wire = w[k], !.args = a[k]]
                                      ELSE NoCall]]
  BY DEF Complete
<1>4. PICK w \in [asked -> AllWires \cup {Unknown}], a \in [asked -> Arguments] :
        call' = [call EXCEPT ![r] =
                   [k \in Slots |-> IF k \in asked
                                    THEN [NoCall EXCEPT !.at = "begun", !.wire = w[k], !.args = a[k]]
                                    ELSE NoCall]]
  BY <1>a
<1>5. ASSUME NEW k \in asked
      PROVE  LET d == [NoCall EXCEPT !.at = "begun", !.wire = w[k], !.args = a[k]]
             IN  d \in CallShape /\ d.at = "begun"
  <2> DEFINE d == [NoCall EXCEPT !.at = "begun", !.wire = w[k], !.args = a[k]]
  <2>1. d \in CallShape
    BY NoCallType, Zenon DEF CallShape
  <2>2. d.at = "begun"
    BY NoCallType DEF CallShape
  <2> QED BY <2>1, <2>2
<1> DEFINE cs == [k \in Slots |-> IF k \in asked
                                  THEN [NoCall EXCEPT !.at = "begun", !.wire = w[k], !.args = a[k]]
                                  ELSE NoCall]
<1>6. cs \in [Slots -> CallShape] /\ \A k \in Slots : cs[k].at \in {"none", "begun"}
  BY <1>5, NoCallType
<1>7. call' = [call EXCEPT ![r] = cs]
  BY <1>4
<1> HIDE DEF cs
<1>8. UNCHANGED <<rules, confirmer, wires>>
  BY DEF Complete
<1> QED BY <1>1, <1>3, <1>6, <1>7, <1>8, RunMoves DEF IInv, Types

\* A call gets the tool of its name, is checked, and screened from the first
\* rule on (ToolGateway.dispatch).
LEMMA Dispatches ==
    ASSUME IInv, NEW r \in Runs, NEW k \in Slots, Dispatch(r, k)
    PROVE  IInv'
<1> DEFINE c == call[r][k]
           named == [c EXCEPT !.tool = Named(c.wire)]
           refused == [c EXCEPT !.at = "denied"]
<1>1. c \in CallShape /\ run[r].at = "dispatching" /\ c.at = "begun" /\ UNCHANGED <<rules, confirmer, wires, run>>
  BY DEF Dispatch, IInv, Types
<1>2. Named(c.wire) \in Tools \cup {None}
      /\ (Named(c.wire) = None \/ \E i \in Places : WireOf(i) = c.wire /\ Subscribed[i] = Named(c.wire))
  <2>1. CASE c.wire \in wires
    <3>1. \E i \in Places : WireOf(i) = c.wire
      BY <2>1 DEF IInv, Types, AllWires
    <3>2. PICK i \in Places : WireOf(i) = c.wire /\ ToolAt(c.wire) = Subscribed[i]
      BY <3>1 DEF ToolAt
    <3>3. Named(c.wire) = Subscribed[i]
      BY <2>1, <3>2 DEF Named, Restored
    <3> QED BY <3>2, <3>3 DEF Tools, Places
  <2>2. CASE c.wire \notin wires
    BY <2>2 DEF Named
  <2> QED BY <2>1, <2>2
<1>3. refused \in CallShape /\ Guarded(refused) /\ Offered(r, refused)
  BY <1>1 DEF CallShape, Guarded, Offered
<1>4. named \in CallShape /\ named.wire = c.wire /\ named.tool = Named(c.wire)
  BY <1>1, <1>2 DEF CallShape
<1> HIDE DEF c, named, refused
<1>5. CASE c.wire \notin run[r].allowed \/ c.args = "unreadable"
  <2>1. call' = [call EXCEPT ![r] = [call[r] EXCEPT ![k] = refused]]
    BY <1>5, Zenon DEF Dispatch, c, refused
  <2> QED BY <1>1, <1>3, <2>1, CallMoves
<1>6. CASE ~(c.wire \notin run[r].allowed \/ c.args = "unreadable")
  <2> DEFINE d == ScreenedFrom(named, 1)
  <2>1. call' = [call EXCEPT ![r] = [call[r] EXCEPT ![k] = d]]
    BY <1>6, Zenon DEF Dispatch, c, named
  <2>2. Cleared(named, 1)
    BY DEF Cleared
  <2>3. d \in CallShape /\ Guarded(d) /\ d.wire = c.wire /\ d.tool = Named(c.wire)
    BY <1>4, <2>2, ScreeningGuards DEF IInv
  <2> HIDE DEF d
  <2>4. Offered(r, d)
    BY <1>2, <1>6, <2>3 DEF Offered
  <2> QED BY <1>1, <2>1, <2>3, <2>4, CallMoves
<1> QED BY <1>5, <1>6

\* An answer settles the rule that asked; the rules after it are next.
LEMMA Confirms ==
    ASSUME IInv, NEW r \in Runs, NEW k \in Slots, Confirm(r, k)
    PROVE  IInv'
<1> DEFINE c == call[r][k]
           rule == Screened(c.tool)[c.rule]
           refused == [c EXCEPT !.at = "denied"]
<1>1. /\ c \in CallShape /\ c.at = "asking" /\ UNCHANGED <<rules, confirmer, wires, run>>
      /\ Asking(c) /\ Offered(r, c) /\ run[r].at = "dispatching"
  BY DEF Confirm, IInv, Types, Sound, Guarded, Live
<1>2. PICK yes \in BOOLEAN :
        call' = [call EXCEPT ![r][k] =
            IF ~yes /\ Denies(rule) THEN refused
            ELSE ScreenedFrom(IF yes THEN [c EXCEPT !.approved = c.approved \cup {c.rule}] ELSE c, c.rule + 1)]
  BY Zenon DEF Confirm
<1>3. refused \in CallShape /\ Guarded(refused) /\ Offered(r, refused)
  BY <1>1 DEF CallShape, Guarded, Offered
<1>4. CASE ~yes /\ Denies(rule)
  <2>1. call' = [call EXCEPT ![r] = [call[r] EXCEPT ![k] = refused]]
    BY <1>2, <1>4, Zenon
  <2> QED BY <1>1, <1>3, <2>1, CallMoves
<1>5. CASE ~(~yes /\ Denies(rule))
  <2> DEFINE told == IF yes THEN [c EXCEPT !.approved = c.approved \cup {c.rule}] ELSE c
             d == ScreenedFrom(told, c.rule + 1)
  <2>1. call' = [call EXCEPT ![r] = [call[r] EXCEPT ![k] = d]]
    BY <1>2, <1>5, Zenon
  <2>2. c.rule \in 1..Len(Screened(c.tool)) /\ c.rule \in Nat
    BY <1>1 DEF Asking, CallShape
  <2>3. told \in CallShape /\ told.wire = c.wire /\ told.tool = c.tool /\ told.args = c.args
        /\ told.approved = IF yes THEN c.approved \cup {c.rule} ELSE c.approved
    BY <1>1, <2>2 DEF CallShape
  <2> HIDE DEF told
  <2>4. Cleared(told, c.rule + 1)
    <3> SUFFICES ASSUME NEW j \in 1..Len(Screened(c.tool)), j < c.rule + 1, Screened(c.tool)[j].severity = "block"
                 PROVE  /\ ~Refuses(Screened(c.tool)[j], c.tool, c.args)
                        /\ Asks(Screened(c.tool)[j], c.tool) => j \in told.approved
      BY <2>3 DEF Cleared
    <3>1. CASE j = c.rule
      BY <1>1, <1>5, <2>3, <3>1 DEF Asking, Asks, Refuses, Denies
    <3>2. CASE j < c.rule
      BY <1>1, <2>3, <3>2 DEF Asking, Cleared
    <3> QED BY <2>2, <3>1, <3>2
  <2>5. d \in CallShape /\ Guarded(d) /\ d.wire = c.wire /\ d.tool = c.tool
    BY <2>2, <2>3, <2>4, ScreeningGuards DEF IInv
  <2> HIDE DEF d
  <2>6. Offered(r, d)
    BY <1>1, <2>5 DEF Offered
  <2> QED BY <1>1, <2>1, <2>5, <2>6, CallMoves
<1> QED BY <1>4, <1>5

LEMMA Executes ==
    ASSUME IInv, NEW r \in Runs, NEW k \in Slots, Execute(r, k)
    PROVE  IInv'
<1> DEFINE c == call[r][k]
           d == [c EXCEPT !.at = "ran"]
<1>1. /\ c \in CallShape /\ c.at = "executing" /\ UNCHANGED <<rules, confirmer, wires, run>>
      /\ Running(c) /\ Offered(r, c) /\ run[r].at = "dispatching"
  BY DEF Execute, IInv, Types, Sound, Guarded, Live
<1>2. call' = [call EXCEPT ![r] = [call[r] EXCEPT ![k] = d]]
  BY Zenon DEF Execute, Settles
<1>3. d \in CallShape /\ d.at = "ran" /\ d.wire = c.wire /\ d.tool = c.tool /\ d.args = c.args /\ d.approved = c.approved
  BY <1>1 DEF CallShape
<1> HIDE DEF d
<1>4. Guarded(d) /\ Offered(r, d)
  BY <1>1, <1>3 DEF Guarded, Offered, Running, Cleared
<1> QED BY <1>1, <1>2, <1>3, <1>4, CallMoves

\* The results are gathered.
LEMMA Gathers ==
    ASSUME IInv, NEW r \in Runs, Gathered(r)
    PROVE  IInv'
<1> DEFINE rr == [run[r] EXCEPT !.at = "completing"]
           cs == [k \in Slots |-> NoCall]
<1>1. run' = [run EXCEPT ![r] = rr] /\ call' = [call EXCEPT ![r] = cs] /\ UNCHANGED <<rules, confirmer, wires>>
  BY DEF Gathered, Goes, NoCalls
<1>2. rr \in RunShape
  BY DEF IInv, Types, RunShape
<1>3. cs \in [Slots -> CallShape] /\ \A k \in Slots : cs[k].at = "none"
  BY NoCallType
<1> HIDE DEF rr, cs
<1> QED BY <1>1, <1>2, <1>3, RunMoves DEF IInv, Types

-----------------------------------------------------------------------------
(* The invariant *)

LEMMA Inductive == Spec => []IInv
<1>1. Init => IInv
  <2> SUFFICES ASSUME Init
               PROVE  IInv
    OBVIOUS
  <2>1. Idle \in RunShape
    BY RunAssumption DEF Idle, RunShape
  <2>2. Types
    BY <2>1, NoCallType DEF Init, Types
  <2> QED BY <2>2, NoCallType DEF Init, IInv, Sound, Guarded, Offered, Live
<1>2. IInv /\ [Next]_vars => IInv'
  <2> SUFFICES ASSUME IInv, [Next]_vars
               PROVE  IInv'
    OBVIOUS
  <2>1. CASE \E r \in Runs : Start(r) \/ Resolve(r)
    BY <2>1, Prepares
  <2>2. CASE \E r \in Runs : Finish(r) \/ Abandon(r)
    BY <2>2, Ended DEF Finish, Abandon
  <2>3. CASE \E r \in Runs : Complete(r)
    BY <2>3, Completes
  <2>4. CASE \E r \in Runs, k \in Slots : Dispatch(r, k)
    BY <2>4, Dispatches
  <2>5. CASE \E r \in Runs, k \in Slots : Confirm(r, k)
    BY <2>5, Confirms
  <2>6. CASE \E r \in Runs, k \in Slots : Execute(r, k)
    BY <2>6, Executes
  <2>7. CASE \E r \in Runs : Gathered(r)
    BY <2>7, Gathers
  <2>8. CASE UNCHANGED vars
    BY <2>8, StaysGuarded DEF vars, IInv, Types, Sound, Offered, Live
  <2> QED BY <2>1, <2>2, <2>3, <2>4, <2>5, <2>6, <2>7, <2>8 DEF Next
<1> QED BY <1>1, <1>2, PTL DEF Spec

-----------------------------------------------------------------------------
(* What follows *)

\* The state keeps its types, and no call is dispatched on the last allowed
\* pass of a run (Agent.run).
THEOREM TypeCorrect == Spec => []TypeOK
<1>1. IInv => TypeOK
  BY RunAssumption DEF IInv, Types, TypeOK, RunShape, CallShape
<1> QED BY <1>1, Inductive, PTL

\* Whatever is asked, approved or declined, and in whichever order: a tool runs
\* only past every rule that blocks it (enforce, _with_tool_baseline).
THEOREM BlockedNeverRuns == Spec => []NothingBlockedRuns
<1>1. IInv => NothingBlockedRuns
  <2> SUFFICES ASSUME IInv, NEW r \in Runs, NEW k \in Slots, call[r][k].at \in {"executing", "ran"},
                      NEW j \in 1..Len(Screened(call[r][k].tool)),
                      Screened(call[r][k].tool)[j].severity = "block"
               PROVE  /\ ~Refuses(Screened(call[r][k].tool)[j], call[r][k].tool, call[r][k].args)
                      /\ Asks(Screened(call[r][k].tool)[j], call[r][k].tool) => j \in call[r][k].approved
    BY DEF NothingBlockedRuns, Screened
  <2>1. Running(call[r][k]) /\ call[r][k] \in CallShape
    BY DEF IInv, Types, Sound, Guarded
  <2>2. Len(Screened(call[r][k].tool)) \in Nat
    BY <2>1, ScreenedType DEF IInv, CallShape
  <2> QED BY <2>1, <2>2 DEF Running, Cleared
<1> QED BY <1>1, Inductive, PTL

\* The tool that runs is the one that was offered under the name the model
\* used, however runs rebuild the map they share (tools_for, dispatch).
THEOREM OfferedToolRuns == Spec => []SameTool
<1>1. IInv => SameTool
  BY DEF IInv, Sound, Guarded, Running, Offered, SameTool
<1> QED BY <1>1, Inductive, PTL

\* No call is dispatched past the cap of the loop or past a rule that blocks it
\* (Agent._loop, ToolGateway).
THEOREM GuardIsKept == Spec => []GuardHolds
BY TypeCorrect, BlockedNeverRuns, PTL DEF GuardHolds

=============================================================================
