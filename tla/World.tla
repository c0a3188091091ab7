------------------------------- MODULE World -------------------------------
(***************************************************************************)
(* The agents on disk and the World that routes tasks to them: AgentRegistry,*)
(* the commands `agent create`, `edit` and `delete`, and WorldEngine.route *)
(* with its store, router, reflex classifier, audit and retry signal.      *)
(* Every command is a process of its own; a record is written with         *)
(* write_text, which empties the file first.                               *)
(***************************************************************************)
EXTENDS Integers, Sequences

CONSTANTS
    Agents,     \* ids of agents
    Procs,      \* commands that run at the same time
    Tasks,      \* prompts; blank is one without text
    Blank,
    Cards,      \* cards an agent may have
    WorldCard,  \* the reserved card
    Worlds,     \* what world.json and the active spread may hold
    Ops,        \* the commands used: "create", "edit", "delete", "route", "named"
    Crashes,    \* whether a process may die
    Runs,       \* bound: commands in a behaviour
    Torn,       \* an emptied or half-written file
    Missing,    \* no file
    None

VARIABLES
    file,       \* file[a]: the agent.json of a
    world,      \* world.json and the spread it names
    last,       \* last[a]: the prompt that opened the newest session of a, within the window
    deleted,    \* agents that the user was told are deleted
    audit,      \* the decisions written
    signals,    \* the retry signals written
    proc,       \* proc[p]: the command of p
    runs        \* commands begun

vars == <<file, world, last, deleted, audit, signals, proc, runs>>

Record == [card : Cards \cup {WorldCard}, model : BOOLEAN, archived : BOOLEAN]
Rule == [target : Agents, priority : Int, enabled : BOOLEAN, tasks : SUBSET Tasks]
ConstantsFit ==
    /\ None \notin Agents /\ WorldCard \notin Cards /\ Torn \notin Record /\ Missing \notin Record \cup {Torn}
    /\ \A w \in Worlds : w.rules \in Seq(Rule) /\ (w.spread # None => w.spread \subseteq Agents)
\* Commands take turns, and none is cut off.
TakeTurns == ~Crashes /\ \A p, q \in Procs : p = q

Idle == [at |-> "idle", op |-> "none", task |-> Blank, agent |-> None, record |-> None,
         pool |-> {}, layer |-> "none", audited |-> "no"]

Init ==
    /\ file \in [Agents -> [card : Cards, model : {TRUE}, archived : BOOLEAN] \cup {Missing}]
    /\ world \in Worlds
    /\ last = [a \in Agents |-> None]
    /\ deleted = {a \in Agents : file[a] # Missing /\ file[a].archived}
    /\ audit = {} /\ signals = {} /\ runs = 0
    /\ proc = [p \in Procs |-> Idle]

Whole(a) == file[a] \notin {Torn, Missing}

-----------------------------------------------------------------------------
(* Bugs this code could have.  Each takes the place of a definition below to
   see that a property notices; the model uses none of them. *)

\* The router takes the rules in the order of the file.
InOrder(firing) == CHOOSE i \in firing : \A j \in firing : i <= j

\* The pool keeps the archived agents.
AnyWhole == {a \in Agents : Whole(a)}

\* A member of the spread must exist.
NeedsMembers == world.spread # None /\ \E a \in world.spread : ~Whole(a)

-----------------------------------------------------------------------------
(* The router *)

Listed == {a \in Agents : Whole(a) /\ ~file[a].archived}

\* list() skips a record it cannot read; get(), for the members of a spread, raises.
Pool == IF world.spread = None THEN Listed ELSE Listed \cap world.spread
PoolFails == world.spread # None /\ \E a \in world.spread : file[a] = Torn

\* The rules that match; the first by priority, then in the order of the file
\* (sorted is stable).
Firing(task, pool) ==
    {i \in DOMAIN world.rules : LET r == world.rules[i] IN r.enabled /\ r.target \in pool /\ task \in r.tasks}
Outranks(i, j) ==
    \/ world.rules[j].priority < world.rules[i].priority
    \/ world.rules[j].priority = world.rules[i].priority /\ i <= j
First(firing) == CHOOSE i \in firing : \A j \in firing : Outranks(i, j)

Default(pool) ==
    IF world.spread # None /\ world.scoped \in pool THEN world.scoped
    ELSE IF world.default \in pool THEN world.default
    ELSE IF \E a \in pool : pool = {a} THEN CHOOSE a \in pool : TRUE
    ELSE None

Resolve(task, pool) ==
    IF Firing(task, pool) # {}
    THEN [agent |-> world.rules[First(Firing(task, pool))].target, layer |-> "rule"]
    ELSE [agent |-> Default(pool), layer |-> "default"]

-----------------------------------------------------------------------------
Begin(p) == proc[p].at = "idle" /\ runs < Runs /\ runs' = runs + 1
At(p, where) == proc[p].at = where
Goto(p, q) == proc' = [proc EXCEPT ![p] = q]
Step(p, where) == Goto(p, [proc[p] EXCEPT !.at = where])
Done(p) == Goto(p, Idle)
Same == UNCHANGED <<world, last, deleted, audit, signals, runs>>

-----------------------------------------------------------------------------
(* More of them. *)

\* The reply is not compared with the pool.
AnyPick(p) == Agents

\* The decision is written when the agent has answered.
AuditedLater(p) ==
    /\ At(p, "settle")
    /\ Step(p, IF proc[p].agent = None THEN "asked" ELSE "load")
    /\ UNCHANGED <<file, world, last, deleted, audit, signals, runs>>

\* A slow classifier is waited for.
NoTimeout(p) == At(p, "never") /\ UNCHANGED vars

\* An archived record is dropped.
Erased(record) == [record EXCEPT !.archived = FALSE]

\* A deletion saves no record.
NoRecord(record) == None

\* The card of a new agent is not compared with the reserved one.
AnyCard == Cards \cup {WorldCard}

-----------------------------------------------------------------------------
(* agent create, edit, delete: a record is read, the user is asked, the record
   is written. *)

Creatable == Cards
Create(p) ==
    /\ Begin(p) /\ "create" \in Ops
    /\ \E a \in Agents, c \in Creatable :
         /\ file[a] = Missing /\ \A q \in Procs : proc[q].op # "create" \/ proc[q].agent # a
         /\ Goto(p, [Idle EXCEPT !.at = "save", !.op = "create", !.agent = a,
                                 !.record = [card |-> c, model |-> TRUE, archived |-> FALSE]])
    /\ UNCHANGED <<file, world, last, deleted, audit, signals>>

\* edit: any card may be chosen; all of the record that was read is saved again.
Edit(p) ==
    /\ Begin(p) /\ "edit" \in Ops
    /\ \E a \in Listed, c \in Cards \cup {WorldCard} :
         Goto(p, [Idle EXCEPT !.at = "save", !.op = "edit", !.agent = a, !.record = [file[a] EXCEPT !.card = c]])
    /\ UNCHANGED <<file, world, last, deleted, audit, signals>>

Delete(p) ==
    /\ Begin(p) /\ "delete" \in Ops
    /\ \E a \in Listed : Goto(p, [Idle EXCEPT !.at = "confirm", !.op = "delete", !.agent = a])
    /\ UNCHANGED <<file, world, last, deleted, audit, signals>>

\* Confirmed: the record is read once more.
Archived(record) == [record EXCEPT !.archived = TRUE]
Confirm(p) ==
    /\ At(p, "confirm")
    /\ IF Whole(proc[p].agent)
       THEN Goto(p, [proc[p] EXCEPT !.at = "save", !.record = Archived(file[proc[p].agent])])
       ELSE Done(p)
    /\ UNCHANGED file /\ Same

\* write_text empties the file and writes it.
Truncate(p) ==
    /\ At(p, "save")
    /\ file' = [file EXCEPT ![proc[p].agent] = Torn]
    /\ Step(p, "write") /\ Same

WriteOut(p) ==
    /\ At(p, "write")
    /\ file' = [file EXCEPT ![proc[p].agent] = proc[p].record]
    /\ deleted' = IF proc[p].op = "delete" THEN deleted \cup {proc[p].agent} ELSE deleted
    /\ Done(p) /\ UNCHANGED <<world, last, audit, signals, runs>>

-----------------------------------------------------------------------------
(* route, and the run it is for *)

\* --agent: the record is found by its name or id and no rule is tried, but the pool
\* is gathered all the same.
Named(p) ==
    /\ Begin(p) /\ "named" \in Ops
    /\ \E a \in Listed, task \in Tasks :
         Goto(p, [Idle EXCEPT !.at = IF PoolFails THEN "raised" ELSE "settle", !.op = "named", !.task = task, !.agent = a,
                              !.record = file[a], !.layer = "explicit"])
    /\ UNCHANGED <<file, world, last, deleted, audit, signals>>

\* The inputs are read, the pool is gathered and the rules are tried; the reflex
\* classifier is asked when none of them matched a task with text.
Route(p) ==
    /\ Begin(p) /\ "route" \in Ops
    /\ \E task \in Tasks \cup {Blank} :
         LET d == Resolve(task, Pool)
             reflex == d.layer = "default" /\ task # Blank /\ world.reflex /\ Pool # {}
             at == IF PoolFails THEN "raised" ELSE IF reflex THEN "classify" ELSE "settle"
         IN  Goto(p, [Idle EXCEPT !.op = "route", !.task = task, !.agent = d.agent, !.pool = Pool,
                                  !.layer = d.layer, !.at = at])
    /\ UNCHANGED <<file, world, last, deleted, audit, signals>>

\* A reply that names an agent of the pool is taken, whatever its confidence.
Picks(p) == proc[p].pool
Classified(p) ==
    /\ At(p, "classify")
    /\ \E a \in Picks(p) : Goto(p, [proc[p] EXCEPT !.at = "settle", !.agent = a, !.layer = "reflex"])
    /\ UNCHANGED file /\ Same

\* Anything else, a failure or the timeout, keeps the default.
FallThrough(p) == At(p, "classify") /\ Step(p, "settle") /\ UNCHANGED file /\ Same

\* The audit is written before the agent runs, and so is the retry signal; both
\* writes may fail.
Retries(a, task) == last[a] = task
Settle(p) ==
    LET d == [task |-> proc[p].task, agent |-> proc[p].agent, layer |-> proc[p].layer]
        next == IF d.agent = None THEN "asked" ELSE "load"
    IN  /\ At(p, "settle")
        /\ \/ audit' = audit \cup {d} /\ Goto(p, [proc[p] EXCEPT !.audited = "yes", !.at = next])
           \/ audit' = audit /\ Goto(p, [proc[p] EXCEPT !.audited = "failed", !.at = next])
        /\ signals' = IF d.agent # None /\ Retries(d.agent, d.task)
                      THEN signals \cup {[agent |-> d.agent, task |-> d.task]} ELSE signals
        /\ UNCHANGED <<file, world, last, deleted, runs>>

\* A routed agent is read again; an explicit one was read before.
Load(p) ==
    /\ At(p, "load")
    /\ LET record == IF proc[p].op = "named" THEN proc[p].record ELSE file[proc[p].agent]
           at == IF record = Torn THEN "raised" ELSE IF record = Missing THEN "unloadable" ELSE "run"
       IN  Goto(p, [proc[p] EXCEPT !.at = at, !.record = record])
    /\ UNCHANGED file /\ Same

\* The turn ends and its session is the newest.
Answered(p) ==
    /\ At(p, "run")
    /\ last' = [last EXCEPT ![proc[p].agent] = proc[p].task]
    /\ Done(p)
    /\ UNCHANGED <<file, world, deleted, audit, signals, runs>>

\* The window of the retry passes.
Forget(a) ==
    /\ last[a] # None
    /\ last' = [last EXCEPT ![a] = None]
    /\ UNCHANGED <<file, world, deleted, audit, signals, proc, runs>>

\* The user has been told.
Exits(p) == proc[p].at \in {"asked", "raised", "unloadable"} /\ Done(p) /\ UNCHANGED file /\ Same

Crash(p) == Crashes /\ proc[p].at # "idle" /\ Done(p) /\ UNCHANGED file /\ Same

Routing(p) == Classified(p) \/ FallThrough(p) \/ Settle(p) \/ Load(p) \/ Answered(p) \/ Exits(p)
Next ==
    \/ \E p \in Procs : Create(p) \/ Edit(p) \/ Delete(p) \/ Confirm(p) \/ Truncate(p) \/ WriteOut(p)
    \/ \E p \in Procs : Named(p) \/ Route(p) \/ Routing(p) \/ Crash(p)
    \/ \E a \in Agents : Forget(a)

Spec == Init /\ [][Next]_vars

\* The classifier has a timeout, and the rest of a route waits for nobody.
FairSpec == Spec /\ \A p \in Procs : WF_vars(FallThrough(p)) /\ WF_vars(Settle(p)) /\ WF_vars(Load(p))

-----------------------------------------------------------------------------
(* Properties *)

\* Every variable keeps its values.
TypeOK ==
    /\ file \in [Agents -> Record \cup {Torn, Missing}]
    /\ last \in [Agents -> Tasks \cup {Blank, None}]
    /\ \A p \in Procs : proc[p].agent \in Agents \cup {None} /\ proc[p].pool \subseteq Agents
    /\ \A d \in audit : d.layer \in {"explicit", "rule", "reflex", "default"}

\* A decision by rule is the one no selectable, matching, enabled rule outranks, and there
\* is one by default or reflex only when no rule matches (Router.resolve).
FirstRuleWins ==
    \A p \in Procs : proc[p].op = "route" /\ proc[p].at \in {"classify", "settle"} =>
      LET fires(i) == world.rules[i].enabled /\ world.rules[i].target \in proc[p].pool
                      /\ proc[p].task \in world.rules[i].tasks
          all == {i \in DOMAIN world.rules : fires(i)}
      IN  IF all = {} THEN proc[p].layer \in {"default", "reflex"}
          ELSE /\ proc[p].layer = "rule"
               /\ \E i \in all : /\ world.rules[i].target = proc[p].agent
                                 /\ \A j \in all : \/ world.rules[j].priority < world.rules[i].priority
                                                   \/ world.rules[j].priority = world.rules[i].priority /\ i <= j

\* A routed agent is one of the pool, whatever the model replied (_parse, Router.resolve).
RoutedInPool ==
    \A p \in Procs : proc[p].op = "route" => proc[p].agent \in proc[p].pool \cup {None}

\* No agent runs and no user is asked before the decision was written, or failed to be (route).
AuditedFirst ==
    \A p \in Procs : proc[p].at \in {"load", "run", "asked"} =>
      \/ proc[p].audited = "failed"
      \/ \E d \in audit : d.agent = proc[p].agent /\ d.task = proc[p].task /\ d.layer = proc[p].layer

\* A route ends in an agent or in a question to the user, never in an exception (WorldStore, _candidate_pool).
NeverStranded == \A p \in Procs : proc[p].op = "route" => proc[p].at # "raised"

\* An agent that The World has picked is not archived when it runs (_candidate_pool).
RunsSelectable == \A p \in Procs : proc[p].op = "route" /\ At(p, "run") => ~proc[p].record.archived

\* A deleted agent stays archived (AgentRegistry.delete).
DeletedStays == \A a \in deleted : Whole(a) => file[a].archived

\* No agent has the reserved card (agent create).
Reserved == \A a \in Agents : Whole(a) => file[a].card # WorldCard

RoutingHolds ==
    /\ TypeOK /\ FirstRuleWins /\ RoutedInPool /\ AuditedFirst
    /\ TakeTurns => NeverStranded /\ RunsSelectable /\ DeletedStays
    /\ "edit" \notin Ops => Reserved

\* Every route comes to an end (the timeout of the classifier).
Asked(p) == proc[p].op = "route"
Routed(p) == proc[p].at \in {"idle", "asked", "raised", "unloadable", "run"}
Resting == \A p \in Procs : Routed(p)
RouteEnds == \A p \in Procs : Asked(p) ~> Routed(p)

=============================================================================
