------------------------------ MODULE MCTools ------------------------------
(***************************************************************************)
(* The parts of ToolParts on small instances, with the fairness of those   *)
(* that something is to happen in.                                         *)
(***************************************************************************)
EXTENDS ToolParts, TLC

CONSTANT TornFile

\* One call at a time, under caps and between two filesystems; the same in a
\* process that may die; two deletes at once, on a clock that may be set back.
FileParts ==
    LET c == [module |-> "FileTools", Threads |-> {"t1"}, Names |-> {"a", "b"}, Data |-> {"d1", "d2"},
              Special |-> {}, Limit |-> 1, Ops |-> {"create", "overwrite", "append", "delete", "move", "copy"},
              Faults |-> {"cap", "cross"}, History |-> TRUE]
    IN  "files" :> c
        @@ "stuck" :> [c EXCEPT !.Ops = {"delete", "move", "copy"}, !.Faults = @ \cup {"locked", "slow"}]
        @@ "killed" :> [c EXCEPT !.Ops = {"overwrite", "move", "copy"}, !.Faults = @ \cup {"crash"}, !.History = FALSE]
        @@ "trash" :> [c EXCEPT !.Threads = {"t1", "t2"}, !.Names = {"a", "b", "c"}, !.Data = {"d1", "d2", "d3"},
                                !.Ops = {"delete"}, !.Faults = {"clock"}, !.History = FALSE]

\* A program that may fork, hang or close its output; one in a container; one
\* that writes more than is kept, on a clock that need not run out.
ProgramParts ==
    LET c == [module |-> "Sandbox", Container |-> FALSE, Scratch |-> TRUE, Output |-> 3, PipeSize |-> 1, Cap |-> 1,
              Forks |-> TRUE, Cancels |-> TRUE]
        d == [c EXCEPT !.Forks = FALSE, !.Cancels = FALSE]
    IN  "program" :> c
        @@ "box" :> [d EXCEPT !.Container = TRUE, !.Scratch = FALSE, !.Output = 6]
        @@ "drain" :> [d EXCEPT !.Output = 8]

\* Two redirects, a body over the cap; a page of six tokens.
WebParts ==
    "fetch" :> [module |-> "WebFetch", Refused |-> {"private", "file"}, Open |-> {"here", "there"},
                MaxRedirects |-> 2, MaxBytes |-> 3, MaxBody |-> 5]
    @@ "page" :> [module |-> "HtmlText", MaxTokens |-> 6]

\* One command after the other: with two connections and commands that crash or
\* meet a keyring that fails; with every command and neither.
ConnectionParts ==
    LET c == [module |-> "Connections", Procs |-> {"p1"}, Names |-> {"m", "n"}, Ids |-> {"i1", "i2", "i3"},
              Endpoints |-> {"e1"}, Ops |-> {"add", "login", "edit", "remove"}, Faults |-> {"kind", "crash", "keyring"}]
    IN  "records" :> c
        @@ "secrets" :> [c EXCEPT !.Endpoints = {"e1", "e2"}, !.Ops = @ \cup {"rotate"}, !.Faults = {}]

\* Both grants, in a browser that opens connections it does not use, beside
\* another sign-in on the same port and a server that does not check PKCE; on
\* Python 3.11, whose listener closes at once, and on a later one.
SignInParts ==
    LET c == [module |-> "SignIn", Grants |-> {"code", "device"}, Browser |-> {"idle", "stale"}, Pkce |-> FALSE,
              WaitsForIdle |-> FALSE, MaxIdle |-> 2, Expiries |-> {4, 9}, Asks |-> {0, 1, 3}, Ceiling |-> 6,
              Default |-> 2, Floor |-> 2, Slower |-> 2, Delay |-> 1]
    IN  "login" :> c @@ "waits" :> [c EXCEPT !.Grants = {"code"}, !.WaitsForIdle = TRUE]

\* Every adapter and credential, with connections that are lost and without.
CallParts ==
    LET c == [module |-> "ModelAdapters", Kinds |-> {"anthropic", "openai", "ollama", "custom"},
              Creds |-> {"none", "key", "oauth"}, MaxText |-> 2, Drops |-> TRUE]
    IN  "lossy" :> c @@ "steady" :> [c EXCEPT !.Drops = FALSE]

\* One command at a time, killed anywhere, on a server of two tools.
RegistryParts ==
    "registry" :> [module |-> "ToolRegistry", Servers |-> {"s1"}, Tools |-> {"t1", "t2"}, Commands |-> {"p1"},
                   MaxVersion |-> 2, Torn |-> TornFile]

\* The requests of a session, over a window of one turn, with two rounds of at most
\* two calls in a run.
WireParts ==
    "wire" :> [module |-> "WireMessages", Turns |-> 1, Rounds |-> 3, Slots |-> 2, Naming |-> "own", MaxSaid |-> 9]

AllTooling ==
    FileParts @@ ProgramParts @@ WebParts @@ ConnectionParts @@ SignInParts @@ CallParts @@ RegistryParts @@ WireParts

\* The fairness of Sandbox, of its slow clock and of SignIn, each for its part:
\* the event loop runs what is ready; a program that drains goes on writing.
Program == Tooling["program"]
Drain == Tooling["drain"]
SignIn == Tooling["login"]
Waits == Tooling["waits"]
Fairness ==
    /\ WF_toolvars(part = "program" /\ Running(Program)!Pump /\ UNCHANGED part)
    /\ WF_toolvars(part = "program" /\ Running(Program)!Reap /\ UNCHANGED part)
    /\ WF_toolvars(part = "program" /\ Running(Program)!Finish /\ UNCHANGED part)
    /\ WF_toolvars(part = "program" /\ Running(Program)!Timeout /\ UNCHANGED part)
    /\ WF_toolvars(part = "program" /\ Running(Program)!KillBox /\ UNCHANGED part)
    /\ WF_toolvars(part = "program" /\ Running(Program)!TimedOut /\ UNCHANGED part)
    /\ WF_toolvars(part = "drain" /\ Running(Drain)!Pump /\ UNCHANGED part)
    /\ WF_toolvars(part = "drain" /\ Running(Drain)!Write /\ UNCHANGED part)
    /\ WF_toolvars(part = "drain" /\ Running(Drain)!ChildExits /\ UNCHANGED part)
    /\ WF_toolvars(part = "login" /\ Signing(SignIn)!Client /\ Same10)
    /\ WF_toolvars(part = "waits" /\ Signing(Waits)!Client /\ Same10)

Spec == ToolSpec /\ Fairness

-----------------------------------------------------------------------------
\* A run of a program ends whatever the program does, one that writes too much is
\* not blocked, and a sign-in ends whatever the user does: on Python 3.11 always, on
\* a later one unless the browser holds a connection of the closing listener open.
EverythingEnds ==
    /\ (part = "program" /\ Running(Program)!Started) ~> (part = "program" /\ Running(Program)!IsOver)
    /\ (part = "drain" /\ Running(Drain)!Running) ~> (part = "drain" /\ ~Running(Drain)!Running)
    /\ part = "login" ~> (part = "login" /\ Signing(SignIn)!IsOver)
    /\ part = "waits" ~> (part = "waits" /\ (Signing(Waits)!IsOver \/ Signing(Waits)!Held))

=============================================================================
