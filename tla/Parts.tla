------------------------------- MODULE Parts -------------------------------
(***************************************************************************)
(* The parts of the program beside the main ones, which share no state: a   *)
(* behaviour of all is one of each.  The first state picks the part, whose  *)
(* variables v1, v2... then are.  A part is an instance of a component: its *)
(* record names the module and gives its constants their values.            *)
(***************************************************************************)
EXTENDS Naturals

CONSTANTS Parts,    \* of each part: its module, and the module's constants
          None

VARIABLES part, v1, v2, v3, v4, v5, v6, v7, v8, v9, v10, v11
vars == <<part, v1, v2, v3, v4, v5, v6, v7, v8, v9, v10, v11>>

Opening(c) == INSTANCE StoreOpen WITH
    Tasks <- c.Tasks, Adapters <- c.Adapters, Handles <- c.Handles, NewFile <- c.NewFile, Faults <- c.Faults,
    file <- v1, quick <- v2, conn <- v3, corrupt <- v4, open <- v5, task <- v6, spurious <- v7

Rows(c) == INSTANCE MemoryStore WITH
    Tasks <- c.Tasks, Ids <- c.Ids, Contents <- c.Contents, Embedders <- c.Embedders, Ops <- c.Ops, Faults <- c.Faults,
    db <- v1, view <- v2, intx <- v3, vec <- v4, owed <- v5, task <- v6

Search(c) == INSTANCE VectorSearch WITH
    Count <- c.Count, Distances <- c.Distances, WordScores <- c.WordScores, Limit <- c.Limit, K <- c.K,
    Modes <- c.Modes, Embedders <- c.Embedders, Changes <- c.Changes,
    mode <- v1, embedder <- v2, row <- v3, pc <- v4, near <- v5, word <- v6, rows <- v7, found <- v8

Notes(c) == INSTANCE NoteFolder WITH
    Paths <- c.Paths, Bodies <- c.Bodies, Readers <- c.Readers, Size <- c.Size, Links <- c.Links, Stem <- c.Stem,
    Key <- c.Key, MaxBytes <- c.MaxBytes, MaxTick <- c.MaxTick, Ops <- c.Ops, KeepsTime <- c.KeepsTime,
    disk <- v1, tick <- v2, index <- v3, task <- v4, edges <- v5, current <- v6

Life(c) == INSTANCE MemoryLife WITH
    Count <- c.Count, MaxTime <- c.MaxTime, MaxTurns <- c.MaxTurns, Limit <- c.Limit, UseLlm <- c.UseLlm,
    AgentCap <- c.AgentCap, MinStore <- c.MinStore,
    rows <- v1, now <- v2, open <- v3, durable <- v4, extracted <- v5, shown <- v6, lapsed <- v7,
    turns <- v8, lost <- v9, touched <- v10

Commands(c) == INSTANCE MemoryCommands WITH
    Procs <- c.Procs, Ids <- c.Ids, Names <- c.Names, Ops <- c.Ops, Others <- c.Others, Faults <- c.Faults,
    store <- v1, registry <- v2, out <- v3, litter <- v4, proc <- v5, told <- v6, listed <- v7

Upkeep(c) == INSTANCE FederationUpkeep WITH
    Order <- c.Order, Prunable <- c.Prunable,
    conn <- v1, leg <- v2, removed <- v3, prune <- v4, counted <- v5, closer <- v6

Routing(c) == INSTANCE World WITH
    Agents <- c.Agents, Procs <- c.Procs, Tasks <- c.Tasks, Blank <- c.Blank, Cards <- c.Cards,
    WorldCard <- c.WorldCard, Worlds <- c.Worlds, Ops <- c.Ops, Crashes <- c.Crashes, Runs <- c.Runs,
    Torn <- c.Torn, Missing <- c.Missing,
    file <- v1, world <- v2, last <- v3, deleted <- v4, audit <- v5, signals <- v6, proc <- v7, runs <- v8

Blend(c) == INSTANCE CardBlend WITH
    Cards <- c.Cards, WORLD <- c.WORLD, Temperature <- c.Temperature, HalfLife <- c.HalfLife, Default <- c.Default,
    TensionCards <- c.TensionCards, MAX_MODIFIERS <- c.MAX_MODIFIERS,
    card <- v1, modifiers <- v2, config <- v3

Eval(c) == INSTANCE EvalRun WITH
    Cases <- c.Cases, Marked <- c.Marked, Rules <- c.Rules, Forbidden <- c.Forbidden, Judged <- c.Judged,
    Threshold <- c.Threshold, Replies <- c.Replies, Concurrency <- c.Concurrency, JudgeFails <- c.JudgeFails, Seconds <- c.Seconds,
    MinTick <- c.MinTick,
    harness <- v1, phase <- v2, kept <- v3, result <- v4, open <- v5, id <- v6, base <- v7,
    saved <- v8, earlier <- v9, report <- v10, summary <- v11

Chat(c) == INSTANCE ChatSession WITH
    Agents <- c.Agents, Prompts <- c.Prompts, Costs <- c.Costs, MaxSessions <- c.MaxSessions,
    MaxMessages <- c.MaxMessages, Torn <- c.Torn,
    proc <- v1, disk <- v2, sess <- v3, record <- v4, off <- v5, loaded <- v6, turn <- v7, asked <- v8, cut <- v9

\* The parts that are instances of a module.
Of(module) == {p \in DOMAIN Parts : Parts[p].module = module}
Openings == Of("StoreOpen")
Databases == Of("MemoryStore")
Searches == Of("VectorSearch")
Folders == Of("NoteFolder")
Lives == Of("MemoryLife")
CommandSets == Of("MemoryCommands")
Upkeeps == Of("FederationUpkeep")
Worlds == Of("World")
Blends == Of("CardBlend")
Evals == Of("EvalRun")
Chats == Of("ChatSession")

ASSUME PartsFit ==
    /\ \A p \in Openings : Opening(Parts[p])!ConstantsFit
    /\ \A p \in Databases : Rows(Parts[p])!ConstantsFit
    /\ \A p \in Searches : Search(Parts[p])!ConstantsFit
    /\ \A p \in Folders : Notes(Parts[p])!ConstantsFit
    /\ \A p \in Lives : Life(Parts[p])!ConstantsFit
    /\ \A p \in CommandSets : Commands(Parts[p])!ConstantsFit
    /\ \A p \in Upkeeps : Upkeep(Parts[p])!ConstantsFit
    /\ \A p \in Worlds : Routing(Parts[p])!ConstantsFit
    /\ \A p \in Blends : Blend(Parts[p])!ConstantsFit
    /\ \A p \in Evals : Eval(Parts[p])!ConstantsFit
    /\ \A p \in Chats : Chat(Parts[p])!ConstantsFit

-----------------------------------------------------------------------------
\* The variables a part does not have.
Unused10 == v11 = None
Unused9 == v10 = None /\ Unused10
Unused8 == v9 = None /\ Unused9
Unused7 == v8 = None /\ Unused8
Unused6 == v7 = None /\ Unused7
Unused5 == v6 = None /\ Unused6
Unused3 == v4 = None /\ v5 = None /\ Unused5

Init ==
    \/ \E p \in Openings : part = p /\ Opening(Parts[p])!Init /\ Unused7
    \/ \E p \in Databases : part = p /\ Rows(Parts[p])!Init /\ Unused6
    \/ \E p \in Searches : part = p /\ Search(Parts[p])!Init /\ Unused8
    \/ \E p \in Folders : part = p /\ Notes(Parts[p])!Init /\ Unused6
    \/ \E p \in Lives : part = p /\ Life(Parts[p])!Init /\ Unused10
    \/ \E p \in CommandSets : part = p /\ Commands(Parts[p])!Init /\ Unused7
    \/ \E p \in Upkeeps : part = p /\ Upkeep(Parts[p])!Init /\ Unused6
    \/ \E p \in Worlds : part = p /\ Routing(Parts[p])!Init /\ Unused8
    \/ \E p \in Blends : part = p /\ Blend(Parts[p])!Init /\ Unused3
    \/ \E p \in Evals : part = p /\ Eval(Parts[p])!Init
    \/ \E p \in Chats : part = p /\ Chat(Parts[p])!Init /\ Unused9

Same10 == UNCHANGED <<part, v11>>
Same9 == UNCHANGED v10 /\ Same10
Same8 == UNCHANGED v9 /\ Same9
Same7 == UNCHANGED v8 /\ Same8
Same6 == UNCHANGED v7 /\ Same7
Same5 == UNCHANGED v6 /\ Same6
Same3 == UNCHANGED <<v4, v5>> /\ Same5

\* A part may stop where nothing is under way; the others go on for ever.
Rests ==
    \/ \E p \in Searches : part = p /\ Search(Parts[p])!Resting
    \/ \E p \in Folders : part = p /\ Notes(Parts[p])!Resting
    \/ \E p \in CommandSets : part = p /\ Commands(Parts[p])!Resting
    \/ \E p \in Worlds : part = p /\ Routing(Parts[p])!Resting
    \/ \E p \in Evals : part = p /\ Eval(Parts[p])!Resting

Next ==
    \/ \E p \in Openings : part = p /\ Opening(Parts[p])!Next /\ Same7
    \/ \E p \in Databases : part = p /\ Rows(Parts[p])!Next /\ Same6
    \/ \E p \in Searches : part = p /\ Search(Parts[p])!Next /\ Same8
    \/ \E p \in Folders : part = p /\ Notes(Parts[p])!Next /\ Same6
    \/ \E p \in Lives : part = p /\ Life(Parts[p])!Next /\ Same10
    \/ \E p \in CommandSets : part = p /\ Commands(Parts[p])!Next /\ Same7
    \/ \E p \in Upkeeps : part = p /\ Upkeep(Parts[p])!Next /\ Same6
    \/ \E p \in Worlds : part = p /\ Routing(Parts[p])!Next /\ Same8
    \/ \E p \in Blends : part = p /\ Blend(Parts[p])!Next /\ Same3
    \/ \E p \in Evals : part = p /\ Eval(Parts[p])!Next /\ UNCHANGED part
    \/ \E p \in Chats : part = p /\ Chat(Parts[p])!Next /\ Same9
    \/ Rests /\ UNCHANGED vars

Spec == Init /\ [][Next]_vars

-----------------------------------------------------------------------------
(* Properties: what the modules promise of their part *)

\* Damage quarantines a store and nothing else does; between processes a sound
\* store is opened, shared and closed without losing a connection or an
\* operation (SQLiteAdapter.connect, aclose; migrations/runner.py).
StoresOpen == \A p \in Openings : part = p => Opening(Parts[p])!StoresOpen

\* Row, vector and pin agree whenever nothing runs, and in a process that dies no
\* vector outlives its row; an acknowledged write stays, whatever fails or is cut
\* off after it (VectorAdapter and SQLiteAdapter: write, delete, prune).
RowsAndVectors == \A p \in Databases : part = p => Rows(Parts[p])!RowsAndVectors

\* A search returns only what passes its filters, and ranks no row behind one
\* that it beats (VectorAdapter.search and its fusion).
SearchIsSound == \A p \in Searches : part = p => Search(Parts[p])!SearchIsSound

\* A scan returns what the notes were during it, and misses none; the edges after
\* a reindex are the links on disk (MarkdownFolderAdapter, WikilinkEdgeExtractor).
NotesAreCurrent == \A p \in Folders : part = p => Notes(Parts[p])!NotesAreCurrent

\* A turn leaves memories, the session lists these alone and misses at most one row
\* for each write that failed, and the agent's word has no more confidence than its
\* cap (extractors.py, _extract_memory, SessionManager).
TurnsRemembered == \A p \in Lives : part = p => Life(Parts[p])!TurnsRemembered

\* What a command or a prune reported is so: an entry reported as forgotten is not
\* found, a connector reported as added is registered, a tier reported as pruned was
\* pruned, a federation that is closed holds nothing open (memory.py, federation.py).
ReportsHold ==
    /\ \A p \in CommandSets : part = p => Commands(Parts[p])!ReportsHold
    /\ \A p \in Upkeeps : part = p => Upkeep(Parts[p])!ReportsHold

\* A task goes to the agent of the first rule that fires, or to one of the pool,
\* and that agent is neither archived nor run before the decision is written; a
\* deleted agent stays deleted, and none has the reserved card (WorldEngine,
\* Router, AgentRegistry, between commands that take turns).
RoutingHolds == \A p \in Worlds : part = p => Routing(Parts[p])!RoutingHolds

\* A blend lies between its cards, shows each tension once, and never has the
\* reserved card among its modifiers (CardEngine, agent create and edit).
BlendHolds == \A p \in Blends : part = p => Blend(Parts[p])!BlendHolds

\* Cases keep within the semaphore, pass only with a score and without an error that
\* has a text, are counted once each and are compared with what the earlier run found
\* (EvalHarness, the judges).
VerdictsHold == \A p \in Evals : part = p => Eval(Parts[p])!VerdictsHold

\* A session holds each prompt as often as it was asked, is on disk when a
\* submission is over and lies with the agent shown (Agent, SessionManager, chat_cmd).
ConversationKept == \A p \in Chats : part = p => Chat(Parts[p])!ConversationKept

\* No step prunes a pinned row, replaces the edges of a source by halves, drops a
\* fact as aged out or returns a stale episode, takes a row that The World owns, or
\* exchanges a file or a setting the user did not name.
NothingSpoiled ==
    [][/\ \A p \in Databases : part = p => Rows(Parts[p])!StepSpoilsNothing
       /\ \A p \in Lives : part = p => Life(Parts[p])!StepSpoilsNothing
       /\ \A p \in CommandSets : part = p => Commands(Parts[p])!StepSpoilsNothing]_vars

=============================================================================
