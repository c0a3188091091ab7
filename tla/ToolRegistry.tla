---------------------------- MODULE ToolRegistry ----------------------------
(***************************************************************************)
(* The registry of MCP servers (arcana/tools/registry.py), the file it is  *)
(* kept in, and the commands that change it (arcana_cli/commands/mcp.py).  *)
(* Each command is a process: it loads the whole file, signs in, lists the *)
(* server's tools or asks the user, and saves the whole file.  Nothing     *)
(* keeps two commands from overlapping, and any of them may be killed.  An *)
(* agent is one more process: it loads the file once and never saves.      *)
(***************************************************************************)
EXTENDS Naturals

CONSTANTS
    Servers,      \* names of servers
    Tools,        \* names of tools, the same on every server
    Commands,     \* processes that run one command after another
    MaxVersion,   \* bound: versions of a tool's description and schema
    Torn
ASSUME RegistryAssumption == MaxVersion \in Nat \ {0}

VARIABLES
    remote,     \* remote[s][t]: the version server s offers of tool t, 0 for none
    file,       \* mcps.json: file[s] is server s, or Absent; or Torn
    keyring,    \* keyring[s]: there is an entry mcp_<s>_auth
    command,    \* command[p]: what process p is doing, with the registry it loaded
    trusted     \* history: versions that were seen first or approved

vars == <<remote, file, keyring, command, trusted>>

Versions == 1..MaxVersion
Auth == {"none", "bearer", "oauth"}
Listing == [Tools -> [version : 0..MaxVersion, status : {"active", "changed"}]]
ServerConfig == [status : {"connected", "changed", "unreachable"}, tools : Listing, auth : Auth]

Absent == [status |-> "absent"]
Registry == [Servers -> ServerConfig \cup {Absent}]

Empty == [s \in Servers |-> Absent]
NoTools == [t \in Tools |-> [version |-> 0, status |-> "active"]]
Idle == [at |-> "idle"]

Command == {Idle} \cup
    [at : {"signing", "listing", "saving", "deleting"}, op : {"add", "refresh", "login", "approve", "remove"},
     s : Servers, auth : Auth, registry : Registry]

Init ==
    /\ remote \in [Servers -> [Tools -> 0..1]]
    /\ file = Empty
    /\ keyring = [s \in Servers |-> FALSE]
    /\ command = [p \in Commands |-> Idle]
    /\ trusted = {}

-----------------------------------------------------------------------------
(* Bugs this code could have.  Each takes the place of a definition below to
   see that a property notices; the model uses none of them. *)

\* A changed tool is compared with its changed copy the next time, and passes.
DiffersOnly(previous, version) == previous.version # version

\* An approval leaves the server's status as it was.
StatusKept(config, tools) == config.status

\* remove deletes the credential before it saves.
CredentialFirst(p, s) ==
    IF keyring[s]
    THEN keyring' = [keyring EXCEPT ![s] = FALSE] /\ UNCHANGED <<file, command>>
    ELSE /\ file' = [command[p].registry EXCEPT ![s] = Absent]
         /\ command' = [command EXCEPT ![p] = Idle]
         /\ UNCHANGED keyring

\* A failed discovery is saved without its status.
StillSame(config) == config

-----------------------------------------------------------------------------
(* What the registry computes *)

Known(config) == {t \in Tools : config.tools[t].version # 0}
Changed(tools) == {t \in Tools : tools[t].version # 0 /\ tools[t].status = "changed"}

\* A tool the registry has a copy of stays withheld once it has changed.
Withheld(previous, version) == previous.version # version \/ previous.status = "changed"

\* diff_discovered: a tool that is not in the persisted list is trusted.
Diff(persisted, fresh) ==
    [t \in Tools |->
        [version |-> fresh[t],
         status |-> IF /\ fresh[t] # 0 /\ persisted[t].version # 0
                       /\ Withheld(persisted[t], fresh[t])
                    THEN "changed" ELSE "active"]]

Resolvable(config) == config.status \in {"connected", "changed"}

Discovered(config, fresh) ==
    LET tools == Diff(config.tools, fresh)
    IN  [config EXCEPT !.tools = tools,
                       !.status = IF Changed(tools) = {} THEN "connected" ELSE "changed"]

\* approve recomputes the status of a server that is resolvable.
StatusAfter(config, tools) ==
    IF ~Resolvable(config) THEN config.status
    ELSE IF Changed(tools) = {} THEN "connected" ELSE "changed"

Approved(config, wanted) ==
    LET tools == [t \in Tools |->
                    IF t \in wanted THEN [config.tools[t] EXCEPT !.status = "active"] ELSE config.tools[t]]
    IN  [config EXCEPT !.tools = tools, !.status = StatusAfter(config, tools)]

\* resolve, for a wildcard and for one subscription to each tool.
Resolved(registry, s) ==
    {t \in Tools : /\ registry[s] # Absent /\ Resolvable(registry[s])
                   /\ registry[s].tools[t].version # 0
                   /\ registry[s].tools[t].status = "active"}

\* provides: the adapter's own list, which it shares with the registry.
Provided(registry, s) == IF registry[s] = Absent THEN {} ELSE Known(registry[s])

\* tools_for, with a subscription to each of the tools by name.
Offered(registry, s) == Resolved(registry, s) \cup Provided(registry, s)

-----------------------------------------------------------------------------
(* Commands *)

Begins(p, at, op, s, auth) ==
    command' = [command EXCEPT ![p] =
        [at |-> at, op |-> op, s |-> s, auth |-> auth, registry |-> file]]

Ready(p) == command[p] = Idle /\ file # Torn

\* A bearer token is stored at once, a sign-in takes its time.
Add(p, s) ==
    /\ Ready(p) /\ file[s] = Absent
    /\ \/ Begins(p, "signing", "add", s, "oauth") /\ UNCHANGED keyring
       \/ Begins(p, "listing", "add", s, "bearer") /\ keyring' = [keyring EXCEPT ![s] = TRUE]
       \/ Begins(p, "listing", "add", s, "none") /\ UNCHANGED keyring
    /\ UNCHANGED <<remote, file, trusted>>

Refresh(p, s) ==
    /\ Ready(p) /\ file[s] # Absent
    /\ Begins(p, "listing", "refresh", s, file[s].auth)
    /\ UNCHANGED <<remote, file, keyring, trusted>>

Login(p, s) ==
    /\ Ready(p) /\ file[s] # Absent /\ file[s].auth = "oauth"
    /\ Begins(p, "signing", "login", s, "oauth")
    /\ UNCHANGED <<remote, file, keyring, trusted>>

Approve(p, s) ==
    /\ Ready(p) /\ file[s] # Absent /\ Changed(file[s].tools) # {}
    /\ Begins(p, "saving", "approve", s, file[s].auth)
    /\ UNCHANGED <<remote, file, keyring, trusted>>

\* With --force, or when no agent subscribes.
Remove(p, s) ==
    /\ Ready(p) /\ file[s] # Absent
    /\ Begins(p, "saving", "remove", s, file[s].auth)
    /\ UNCHANGED <<remote, file, keyring, trusted>>

\* The token goes to the keyring before the server is saved.
SignedIn(p) ==
    /\ command[p].at = "signing"
    /\ keyring' = [keyring EXCEPT ![command[p].s] = TRUE]
    /\ command' = [command EXCEPT ![p].at = "listing"]
    /\ UNCHANGED <<remote, file, trusted>>

SignInFails(p) ==
    /\ command[p].at = "signing"
    /\ command' = [command EXCEPT ![p] = Idle]
    /\ UNCHANGED <<remote, file, keyring, trusted>>

\* The server discover is given: a new one, or the registry's own.
Given(p) ==
    LET c == command[p]
    IN  IF c.op = "add" THEN [status |-> "disconnected", tools |-> NoTools, auth |-> c.auth]
        ELSE c.registry[c.s]

Saves(p, config) ==
    /\ file' = [command[p].registry EXCEPT ![command[p].s] = config]
    /\ command' = [command EXCEPT ![p] = Idle]

\* discover: the tools are listed, compared and saved.
Listed(p) ==
    /\ command[p].at = "listing"
    /\ LET s == command[p].s
           fresh == remote[s]
       IN  /\ Saves(p, Discovered(Given(p), fresh))
           /\ trusted' = trusted \cup
                {<<s, t, fresh[t]>> : t \in {u \in Tools : fresh[u] # 0 /\ Given(p).tools[u].version = 0}}
    /\ UNCHANGED <<remote, keyring>>

\* Its last-known tools stay.
Unreached(config) == [config EXCEPT !.status = "unreachable"]

ListFails(p) ==
    /\ command[p].at = "listing"
    /\ Saves(p, Unreached(Given(p)))
    /\ UNCHANGED <<remote, keyring, trusted>>

SaveApproval(p) ==
    /\ command[p].at = "saving" /\ command[p].op = "approve"
    /\ \E wanted \in SUBSET Changed(Given(p).tools) \ {{}} :
         /\ Saves(p, Approved(Given(p), wanted))
         /\ trusted' = trusted \cup {<<command[p].s, t, Given(p).tools[t].version>> : t \in wanted}
    /\ UNCHANGED <<remote, keyring>>

\* remove_server, and then the credential this command line created.
SaveRemoval(p, s) ==
    /\ file' = [command[p].registry EXCEPT ![s] = Absent]
    /\ command' = [command EXCEPT ![p] = IF @.auth = "none" THEN Idle ELSE [@ EXCEPT !.at = "deleting"]]
    /\ UNCHANGED keyring

Removed(p) ==
    /\ command[p].at = "saving" /\ command[p].op = "remove"
    /\ SaveRemoval(p, command[p].s)
    /\ UNCHANGED <<remote, trusted>>

\* An error of the keyring is swallowed.
DeleteCredential(p) ==
    /\ command[p].at = "deleting"
    /\ \E gone \in BOOLEAN : keyring' = [keyring EXCEPT ![command[p].s] = @ /\ ~gone]
    /\ command' = [command EXCEPT ![p] = Idle]
    /\ UNCHANGED <<remote, file, trusted>>

-----------------------------------------------------------------------------
(* Crashes and servers *)

\* A command is killed; if it was saving, it may leave half a file.
Crash(p) ==
    /\ command[p] # Idle
    /\ file' \in {file} \cup (IF command[p].at \in {"listing", "saving"} THEN {Torn} ELSE {})
    /\ command' = [command EXCEPT ![p] = Idle]
    /\ UNCHANGED <<remote, keyring, trusted>>

\* External: the server offers another version of a tool, a new one or none.
Offers(s, t, v) ==
    /\ remote[s][t] # v
    /\ remote' = [remote EXCEPT ![s][t] = v]
    /\ UNCHANGED <<file, keyring, command, trusted>>

Next ==
    \/ \E p \in Commands, s \in Servers :
         Add(p, s) \/ Refresh(p, s) \/ Login(p, s) \/ Approve(p, s) \/ Remove(p, s)
    \/ \E p \in Commands : SignedIn(p)
    \/ \E p \in Commands : SignInFails(p)
    \/ \E p \in Commands : Listed(p)
    \/ \E p \in Commands : ListFails(p)
    \/ \E p \in Commands : SaveApproval(p)
    \/ \E p \in Commands : Removed(p)
    \/ \E p \in Commands : DeleteCredential(p)
    \/ \E p \in Commands : Crash(p)
    \/ \E s \in Servers, t \in Tools, v \in 0..MaxVersion : Offers(s, t, v)

Spec == Init /\ [][Next]_vars

-----------------------------------------------------------------------------
(* Properties *)

\* The file and every loaded copy of it keep their form: a server in it has been asked
\* for its tools, so none is "disconnected".
TypeOK ==
    /\ remote \in [Servers -> [Tools -> 0..MaxVersion]]
    /\ file \in Registry \cup {Torn}
    /\ keyring \in [Servers -> BOOLEAN]
    /\ command \in [Commands -> Command]
    /\ trusted \subseteq Servers \X Tools \X Versions

\* What the registry resolves for an agent that loads the file was seen first in this
\* form or approved in it, however refreshes, approvals and removals overlap (diff_discovered,
\* approve, resolve).
OnlyTrusted ==
    file # Torn =>
        \A s \in Servers : \A t \in Resolved(file, s) : <<s, t, file[s].tools[t].version>> \in trusted

\* The file is whole or torn, and resolves only what was seen first or approved
\* (McpRegistry).
TrustHolds == TypeOK /\ OnlyTrusted

\* The status of a reachable server tells whether a tool of it is withheld, in every
\* file a command leaves behind (discover, approve).
StatusTells ==
    file # Torn =>
        \A s \in Servers : file[s] # Absent /\ Resolvable(file[s]) =>
            (file[s].status = "changed" <=> Changed(file[s].tools) # {})

\* A registered server with a credential of its own has it in the keyring, although
\* the two are written in separate steps and a command may be killed between them
\* (add_cmd, remove_cmd); for commands that do not overlap.
CredentialIsThere ==
    file # Torn =>
        \A s \in Servers : file[s] # Absent /\ file[s].auth # "none" => keyring[s]

\* So it is where commands do not overlap.
CredentialsKept == (\A p, q \in Commands : p = q) => CredentialIsThere

\* "withheld from resolution until re-approved": an agent that
\* loads the file is not offered a tool that has changed (ToolStatus, ToolGateway.tools_for).
ChangedNotOffered ==
    file # Torn =>
        \A s \in Servers : file[s] # Absent => Changed(file[s].tools) \cap Offered(file, s) = {}

=============================================================================
