------------------------------ MODULE MCMemory ------------------------------
(***************************************************************************)
(* The parts of the memory beside the federation, each on small instances: *)
(* the opening of a store, its rows, its search, a folder of notes, the    *)
(* life of memories, the commands over them, and the upkeep of the tiers.  *)
(***************************************************************************)
EXTENDS Parts, TLC

\* Two processes on a file that may be damaged at any time; two tasks that
\* share one adapter on a new file and are cancelled at any await.
OpeningParts ==
    LET c == [module |-> "StoreOpen", Tasks |-> {"t1", "t2"}, Adapters |-> {{"t1"}, {"t2"}},
              Handles |-> {"h1", "h2", "h3"}, NewFile |-> FALSE, Faults |-> {"damage"}]
    IN  "opening" :> c
        @@ "shared" :> [c EXCEPT !.Adapters = {{"t1", "t2"}}, !.NewFile = TRUE, !.Faults = {"damage", "cancel"}]

\* One task after the other: with two entries; with a process that may die and
\* an embedder that may be down; with statements that fail or are cut off.
RowParts ==
    LET c == [module |-> "MemoryStore", Tasks |-> {"t1"}, Ids |-> {"e1", "e2"}, Contents |-> {"x", "y"},
              Embedders |-> {"m1", "m2"}, Ops |-> {"write", "delete", "prune", "search", "edges"}, Faults |-> {}]
    IN  "rows" :> c
        @@ "dying" :> [c EXCEPT !.Ids = {"e1"}, !.Faults = {"crash", "down"}]
        @@ "failing" :> [c EXCEPT !.Ids = {"e1"}, !.Embedders = {"m1"}, !.Ops = @ \ {"prune"}, !.Faults = {"cancel", "error"}]

\* Every mode of a search among rows that change; the ranks of three rows that
\* do not.
SearchParts ==
    LET c == [module |-> "VectorSearch", Count |-> 2, Distances |-> {1, 2}, WordScores |-> {1, 2}, Limit |-> 1, K |-> 2,
              Modes |-> {"keyword", "semantic", "hybrid"}, Embedders |-> BOOLEAN, Changes |-> TRUE]
    IN  "search" :> c
        @@ "ranks" :> [c EXCEPT !.Count = 3, !.Distances = {1, 2, 4}, !.Limit = 2, !.Modes = {"semantic", "hybrid"},
                                !.Embedders = {TRUE}, !.Changes = FALSE]

\* Notes that link by name and by path, to one note, to two of one name and to
\* none; "large" is over the cap.
Sizes == [b \in {"linked", "pointing", "large"} |-> IF b = "large" THEN 9 ELSE 2]
Target(kind, key) == [kind |-> kind, key |-> key]
Targets == [b \in {"linked", "pointing", "large"} |->
              CASE b = "linked" -> {Target("name", "note"), Target("name", "lost")}
                [] b = "pointing" -> {Target("name", "other"), Target("path", "dir/note")}
                [] OTHER -> {}]
Stems == [p \in {"note", "other", "twin"} |-> IF p = "other" THEN "other" ELSE "note"]
Keys == [p \in {"note", "other", "twin"} |->
           IF p = "note" THEN "dir/note" ELSE IF p = "twin" THEN "old/note" ELSE "dir/other"]
FolderParts ==
    LET c == [module |-> "NoteFolder", Paths |-> {"note"}, Bodies |-> {"linked", "pointing", "large"},
              Readers |-> {"r1", "r2"}, Size |-> Sizes, Links |-> Targets, Stem |-> Stems, Key |-> Keys,
              MaxBytes |-> 2, MaxTick |-> 3, Ops |-> {"search"}, KeepsTime |-> FALSE]
    IN  "scans" :> c
        @@ "graph" :> [c EXCEPT !.Paths = {"note", "other", "twin"}, !.Bodies = {"linked", "pointing"},
                                !.Readers = {"r1"}, !.Size = [b \in {"linked", "pointing"} |-> 2], !.Ops = {"reindex"}]

\* Extraction by rules, and by a model that may fail.
LifeParts ==
    LET c == [module |-> "MemoryLife", Count |-> 3, MaxTime |-> 2, MaxTurns |-> 2, Limit |-> 2, UseLlm |-> FALSE,
              AgentCap |-> 70, MinStore |-> 30]
    IN  "life" :> c @@ "model" :> [c EXCEPT !.MaxTime = 3, !.MaxTurns = 1, !.UseLlm = TRUE]

\* Two forgets at a time; connect and export one after the other.
CommandParts ==
    LET c == [module |-> "MemoryCommands", Procs |-> {"p1", "p2"}, Ids |-> {"i1", "i2"}, Names |-> {"n1"},
              Ops |-> {"forget"}, Others |-> {"agent", "world", "meanwhile"}, Faults |-> {"crash"}]
    IN  "forgets" :> c
        @@ "files" :> [c EXCEPT !.Procs = {"p1"}, !.Ids = {"i1"}, !.Names = {"n1", "n2"}, !.Ops = {"connect", "export"},
                                !.Others = {"agent", "editor"}, !.Faults = {"disk"}]

\* Four tiers, one of which can neither be pruned nor closed.
UpkeepParts == "upkeep" :> [module |-> "FederationUpkeep", Order |-> <<"private", "team", "vault", "global">>,
                        Prunable |-> {"private", "team", "global"}]

MemoryParts == OpeningParts @@ RowParts @@ SearchParts @@ FolderParts @@ LifeParts @@ CommandParts @@ UpkeepParts
=============================================================================
