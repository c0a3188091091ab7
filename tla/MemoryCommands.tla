--------------------------- MODULE MemoryCommands ---------------------------
(***************************************************************************)
(* The commands over an agent's memory (arcana_cli/commands/memory.py):     *)
(* forget looks an entry up, asks its user, and looks it up again to delete *)
(* it (memory/federation.py); connect rewrites the registry of connectors,  *)
(* which shares its file with the resilience budgets (memory/connectors.py); *)
(* export writes a file it must not clobber (memory/paths.py).  Agents,     *)
(* The World and the user's editor change all of this meanwhile.            *)
(***************************************************************************)
EXTENDS Naturals, FiniteSets

CONSTANTS Procs, Ids, Names,
          Ops,          \* the commands that are run: forget, connect, export
          Others,       \* who else acts: "agent", "world", "editor", and "meanwhile", between two steps of a command
          Faults,       \* "crash", "disk"
          None

VARIABLES store,     \* what each tier holds of each entry
          registry,  \* memory-adapters.json: its connectors and the budgets beside them
          out,       \* the file at export's target
          litter,    \* a temporary file is left
          proc,      \* the commands that are running
          told,      \* what forget reported of each entry
          listed     \* the connectors that connect reported

vars == <<store, registry, out, litter, proc, told, listed>>

\* What the constants are.
ConstantsFit == Faults \subseteq {"crash", "disk"} /\ None \notin {"private", "global", "deleted", "archived", "pruned"}

Tiers == {"private", "global"}
States == {"none", "live", "archived"}
Idle == [at |-> "idle", id |-> None, hard |-> FALSE, yes |-> FALSE, tier |-> None, name |-> None, read |-> None, ours |-> None]
Budgets == {"old", "new"}
Corrupt == [names |-> {}, budgets |-> "corrupt"]

Init == /\ store = [t \in Tiers |-> [i \in Ids |-> "none"]]
        /\ registry = [names |-> {}, budgets |-> "old"]
        /\ out = None /\ litter = FALSE
        /\ proc = [p \in Procs |-> Idle]
        /\ told = [i \in Ids |-> None]
        /\ listed = {}

files == <<registry, out, litter, listed>>
memory == <<store, told>>
Goto(p, r) == proc' = [proc EXCEPT ![p] = r]
Step(p, at) == proc[p].at = at

-----------------------------------------------------------------------------
\* The tier that owns an entry, archived or not: the most local one that holds it.
Owner(i) == IF store["private"][i] # "none" THEN "private"
            ELSE IF store["global"][i] # "none" THEN "global" ELSE None

\* forget_cmd: unknown and GLOBAL entries end the command before it asks.
Look(p) ==
  /\ "forget" \in Ops /\ Step(p, "idle")
  /\ \E i \in Ids, hard \in BOOLEAN :
       /\ Owner(i) = "private"
       /\ Goto(p, [Idle EXCEPT !.at = "confirm", !.id = i, !.hard = hard])
  /\ UNCHANGED <<memory, files>>

Confirm(p) ==
  /\ Step(p, "confirm")
  /\ Goto(p, [proc[p] EXCEPT !.at = "find"]) \/ Goto(p, Idle)
  /\ UNCHANGED <<memory, files>>

\* MUTANT of Deletable: the tier was checked before the prompt.
Anywhere(t) == t # None

\* MemoryFederation.forget refuses a GLOBAL entry once more.
Deletable(t) == t = "private"

Find(p) ==
  /\ Step(p, "find")
  /\ Goto(p, IF Deletable(Owner(proc[p].id)) THEN [proc[p] EXCEPT !.at = "delete", !.tier = Owner(proc[p].id)] ELSE Idle)
  /\ UNCHANGED <<memory, files>>

\* MUTANT of Left: an archive that leaves the entry as it is.
Unmarked(state, hard) == IF hard THEN "none" ELSE state

\* What delete makes of an entry; of one that is gone, nothing, and it is not reported.
Left(state, hard) == IF hard \/ state = "none" THEN "none" ELSE "archived"

Delete(p) ==
  /\ Step(p, "delete")
  /\ LET r == proc[p]
         had == store[r.tier][r.id]
     IN /\ store' = [store EXCEPT ![r.tier][r.id] = Left(had, r.hard)]
        /\ told' = IF had = "none" THEN told
                   ELSE [told EXCEPT ![r.id] = IF r.hard THEN "deleted" ELSE "archived"]
  /\ Goto(p, Idle)
  /\ UNCHANGED files

-----------------------------------------------------------------------------
\* _connect: the path is checked, the registry is read, and a corrupt one is left to the user.
Readable(f) == f # Corrupt

Load(p) ==
  /\ "connect" \in Ops /\ Step(p, "idle")
  /\ Readable(registry)
  /\ \E n \in Names : Goto(p, [Idle EXCEPT !.at = "save", !.name = n, !.read = registry])
  /\ UNCHANGED <<memory, files>>

\* MUTANT of Rewritten: the file holds what this component knows of.
OwnKey(read, n) == [names |-> read.names \cup {n}, budgets |-> "old"]

\* MUTANT of Rewritten: the file holds the new connector.
OnlyNew(read, n) == [read EXCEPT !.names = {n}]

\* _save: the connectors key is replaced, every other key is carried through.
Rewritten(read, n) == [read EXCEPT !.names = @ \cup {n}]

Save(p) ==
  /\ Step(p, "save")
  /\ registry' = Rewritten(proc[p].read, proc[p].name)
  /\ listed' = listed \cup {proc[p].name}
  /\ Goto(p, Idle)
  /\ UNCHANGED <<memory, out, litter>>

-----------------------------------------------------------------------------
\* export_cmd: the whole of the private store that is not archived.
Browse(p) ==
  /\ "export" \in Ops /\ Step(p, "idle")
  /\ \E yes \in BOOLEAN :
       Goto(p, [Idle EXCEPT !.at = "check", !.yes = yes, !.ours = {i \in Ids : store["private"][i] = "live"}])
  /\ UNCHANGED <<memory, files>>

\* MUTANT of MayWrite: the flag is not looked at.
Always(yes) == TRUE

MayWrite(yes) == out = None \/ yes

\* atomic_write_text refuses to clobber before it opens anything.
Check(p) ==
  /\ Step(p, "check")
  /\ Goto(p, IF MayWrite(proc[p].yes) THEN [proc[p] EXCEPT !.at = "write"] ELSE Idle)
  /\ UNCHANGED <<memory, files>>

\* The bytes go to a temporary file first.
WriteTemp(p) ==
  /\ Step(p, "write")
  /\ litter' = TRUE
  /\ Goto(p, [proc[p] EXCEPT !.at = "replace"])
  /\ UNCHANGED <<memory, registry, out, listed>>

Replace(p) ==
  /\ Step(p, "replace")
  /\ out' = proc[p].ours
  /\ litter' = FALSE
  /\ Goto(p, Idle)
  /\ UNCHANGED <<memory, registry, listed>>

\* MUTANT of TempLeft: what was written stays.
Kept == TRUE

\* A disk that fails unlinks the temporary file and leaves the target.
TempLeft == FALSE

DiskFails(p) ==
  /\ "disk" \in Faults
  /\ proc[p].at \in {"write", "replace", "save"}
  /\ litter' = (litter /\ (Step(p, "replace") => TempLeft))
  /\ Goto(p, Idle)
  /\ UNCHANGED <<memory, registry, out, listed>>

Crash(p) ==
  /\ "crash" \in Faults
  /\ proc[p].at # "idle"
  /\ Goto(p, Idle)
  /\ UNCHANGED <<memory, files>>

-----------------------------------------------------------------------------
\* The others act between commands, or at any time.
MayAct(who) == who \in Others /\ ("meanwhile" \in Others \/ \A p \in Procs : proc[p].at = "idle")

\* An agent remembers something new (its id is never used again), and may promote it.
Remember(i) ==
  /\ MayAct("agent")
  /\ told[i] = None /\ \A t \in Tiers : store[t][i] = "none"
  /\ store' \in {[store EXCEPT !["private"][i] = "live"], [t \in Tiers |-> [store[t] EXCEPT ![i] = "live"]]}
  /\ UNCHANGED <<files, proc, told>>

\* A prune takes an entry of either tier.
Prune(t, i) ==
  /\ MayAct("world")
  /\ store[t][i] # "none"
  /\ store' = [store EXCEPT ![t][i] = "none"]
  /\ told' = [told EXCEPT ![i] = "pruned"]
  /\ UNCHANGED <<files, proc>>

\* The user sets the budgets, or leaves the file unreadable, or writes the export's target.
EditBudgets ==
  /\ MayAct("editor")
  /\ registry' \in {[registry EXCEPT !.budgets = "new"], Corrupt} \ {registry}
  /\ listed' = IF registry' = Corrupt THEN {} ELSE listed
  /\ UNCHANGED <<memory, out, litter, proc>>

EditOut ==
  /\ MayAct("editor")
  /\ out = None
  /\ out' = {}
  /\ UNCHANGED <<memory, registry, litter, proc, listed>>

Next == \/ \E p \in Procs : \/ Look(p) \/ Confirm(p) \/ Find(p) \/ Delete(p)
                            \/ Load(p) \/ Save(p) \/ Browse(p) \/ Check(p) \/ WriteTemp(p) \/ Replace(p)
                            \/ DiskFails(p) \/ Crash(p)
        \/ \E i \in Ids : Remember(i) \/ \E t \in Tiers : Prune(t, i)
        \/ EditBudgets \/ EditOut

Spec == Init /\ [][Next]_vars

\* No command runs.
Resting == \A p \in Procs : proc[p] = Idle

-----------------------------------------------------------------------------
\* Every variable has its type; without a crash no temporary file outlives its command.
TypeOK == /\ store \in [Tiers -> [Ids -> States]]
          /\ registry.names \subseteq Names /\ registry.budgets \in Budgets \cup {"corrupt"}
          /\ out \in (SUBSET Ids) \cup {None}
          /\ told \in [Ids -> {None, "deleted", "archived", "pruned"}] /\ listed \subseteq Names
          /\ litter => (\E p \in Procs : Step(p, "replace")) \/ "crash" \in Faults

\* No command takes an entry of the GLOBAL tier, also not when the entry it
\* asked about has lost its private copy while the user was answering
\* (GlobalDeleteRefused: "the World owns GLOBAL").
GlobalKept ==
  \A i \in Ids : store'["global"][i] # store["global"][i] =>
    proc' = proc /\ (told'[i] = "pruned" \/ store["global"][i] = "none")

\* What forget reported holds: a deleted entry is in the agent's own memory no
\* more, an archived one is not live, whichever commands ran at the same time.
ForgottenStays ==
  \A i \in Ids : /\ told[i] = "deleted"  => store["private"][i] = "none"
                 /\ told[i] = "archived" => store["private"][i] # "live"

\* The registry file is shared: connect leaves the budgets as the user has them
\* (KnowledgeConnectorStore: "registering a connector never clobbers a resilience config").
BudgetsKept == registry'.budgets # registry.budgets => proc' = proc

\* A connector that was reported is in the registry until the user breaks the file.
ConnectedStays == listed \subseteq registry.names

\* Nothing that was at the target is exchanged unless the user said --yes
\* (atomic_write_text: "refuse to clobber an existing target unless told to").
NeverClobbers == out # None /\ out' # out => \E p \in Procs : proc[p].yes /\ proc'[p] # proc[p]

OneAtATime == \A p, q \in Procs : p = q

\* What forget reported holds, and what connect reported does where one command runs after the other.
ReportsHold == TypeOK /\ ForgottenStays /\ (OneAtATime => ConnectedStays)

\* No step takes an entry that The World owns; and with one command after the other, where
\* the others act between them, none exchanges a setting or a file the user did not name.
StepSpoilsNothing ==
  /\ GlobalKept
  /\ OneAtATime /\ "meanwhile" \notin Others => BudgetsKept /\ NeverClobbers
=============================================================================
