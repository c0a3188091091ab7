------------------------------ MODULE ToolParts ------------------------------
(***************************************************************************)
(* What an agent reaches through its tools and its models: the files of a  *)
(* workspace, a program that is run, a page that is fetched, connections   *)
(* and their secrets, a sign-in, the file of the tool servers, the call of *)
(* a provider and the messages of its requests.  They share no state: as   *)
(* in Parts, the first state picks one, whose variables v1, v2... then     *)
(* are.  The names differ from those of the components, so that a module   *)
(* can extend one of these as well.                                        *)
(***************************************************************************)
EXTENDS Naturals

CONSTANTS Tooling,   \* of each part: its module, and the module's constants
          None, Unread, Nothing, Gone

VARIABLES part, v1, v2, v3, v4, v5, v6, v7, v8, v9, v10, v11, v12, v13
toolvars == <<part, v1, v2, v3, v4, v5, v6, v7, v8, v9, v10, v11, v12, v13>>

Filing(c) == INSTANCE FileTools WITH
    Threads <- c.Threads, Names <- c.Names, Data <- c.Data, Special <- c.Special, Limit <- c.Limit,
    Ops <- c.Ops, Faults <- c.Faults, History <- c.History,
    ws <- v1, trash <- v2, debris <- v3, made <- v4, gone <- v5, task <- v6

Running(c) == INSTANCE Sandbox WITH
    Container <- c.Container, Scratch <- c.Scratch, Output <- c.Output, PipeSize <- c.PipeSize, Cap <- c.Cap,
    Forks <- c.Forks, Cancels <- c.Cancels,
    call <- v1, child <- v2, kid <- v3, kidWrites <- v4, box <- v5, closed <- v6, left <- v7,
    pipe <- v8, kept <- v9, dropped <- v10, led <- v11, result <- v12, dir <- v13

Fetching(c) == INSTANCE WebFetch WITH
    Refused <- c.Refused, Open <- c.Open, MaxRedirects <- c.MaxRedirects, MaxBytes <- c.MaxBytes, MaxBody <- c.MaxBody,
    pc <- v1, url <- v2, hop <- v3, sent <- v4, held <- v5, body <- v6, read <- v7,
    content <- v8, truncated <- v9, result <- v10

Reading(c) == INSTANCE HtmlText WITH
    MaxTokens <- c.MaxTokens,
    depth <- v1, stack <- v2, kept <- v3, due <- v4, seen <- v5, odd <- v6

Connecting(c) == INSTANCE Connections WITH
    Procs <- c.Procs, Names <- c.Names, Ids <- c.Ids, Endpoints <- c.Endpoints, Ops <- c.Ops, Faults <- c.Faults,
    file <- v1, ring <- v2, proc <- v3, said <- v4

Signing(c) == INSTANCE SignIn WITH
    Grants <- c.Grants, Browser <- c.Browser, Pkce <- c.Pkce, WaitsForIdle <- c.WaitsForIdle, MaxIdle <- c.MaxIdle,
    Expiries <- c.Expiries, Asks <- c.Asks, Ceiling <- c.Ceiling, Default <- c.Default, Floor <- c.Floor,
    Slower <- c.Slower, Delay <- c.Delay,
    at <- v1, grant <- v2, why <- v3, got <- v4, future <- v5, idle <- v6, asked <- v7, foreign <- v8,
    clock <- v9, dev <- v10

Calling(c) == INSTANCE ModelAdapters WITH
    Kinds <- c.Kinds, Creds <- c.Creds, MaxText <- c.MaxText, Drops <- c.Drops,
    kind <- v1, creds <- v2, streaming <- v3, pc <- v4, attempt <- v5, cred <- v6, tokens <- v7,
    conn <- v8, text <- v9, ended <- v10, cause <- v11, outcome <- v12

Registering(c) == INSTANCE ToolRegistry WITH
    Servers <- c.Servers, Tools <- c.Tools, Commands <- c.Commands, MaxVersion <- c.MaxVersion, Torn <- c.Torn,
    remote <- v1, file <- v2, keyring <- v3, command <- v4, trusted <- v5

Asking(c) == INSTANCE WireMessages WITH
    Turns <- c.Turns, Rounds <- c.Rounds, Slots <- c.Slots, Naming <- c.Naming, MaxSaid <- c.MaxSaid,
    transcript <- v1, history <- v2, rounds <- v3, said <- v4, busy <- v5

\* The parts that are instances of a module.
Of(module) == {p \in DOMAIN Tooling : Tooling[p].module = module}
Filings == Of("FileTools")
Programs == Of("Sandbox")
Fetches == Of("WebFetch")
Pages == Of("HtmlText")
Stores == Of("Connections")
SignIns == Of("SignIn")
Calls == Of("ModelAdapters")
McpFiles == Of("ToolRegistry")
Wires == Of("WireMessages")

ASSUME ToolingFits ==
    /\ \A p \in Filings : Filing(Tooling[p])!ConstantsFit
    /\ \A p \in Programs : Running(Tooling[p])!ConstantsFit
    /\ \A p \in Fetches : Fetching(Tooling[p])!ConstantsFit
    /\ \A p \in Pages : Reading(Tooling[p])!ConstantsFit
    /\ \A p \in Stores : Connecting(Tooling[p])!ConstantsFit
    /\ \A p \in SignIns : Signing(Tooling[p])!ConstantsFit
    /\ \A p \in Calls : Calling(Tooling[p])!ConstantsFit
    /\ \A p \in Wires : Asking(Tooling[p])!ConstantsFit

-----------------------------------------------------------------------------
\* The variables a part does not have.
Unused12 == v13 = None
Unused10 == v11 = None /\ v12 = None /\ Unused12
Unused6 == v7 = None /\ v8 = None /\ v9 = None /\ v10 = None /\ Unused10
Unused5 == v6 = None /\ Unused6
Unused4 == v5 = None /\ Unused5

ToolInit ==
    \/ \E p \in Filings : part = p /\ Filing(Tooling[p])!Init /\ Unused6
    \/ \E p \in Programs : part = p /\ Running(Tooling[p])!Init
    \/ \E p \in Fetches : part = p /\ Fetching(Tooling[p])!Init /\ Unused10
    \/ \E p \in Pages : part = p /\ Reading(Tooling[p])!Init /\ Unused6
    \/ \E p \in Stores : part = p /\ Connecting(Tooling[p])!Init /\ Unused4
    \/ \E p \in SignIns : part = p /\ Signing(Tooling[p])!Init /\ Unused10
    \/ \E p \in Calls : part = p /\ Calling(Tooling[p])!Init /\ Unused12
    \/ \E p \in McpFiles : part = p /\ Registering(Tooling[p])!Init /\ Unused5
    \/ \E p \in Wires : part = p /\ Asking(Tooling[p])!Init /\ Unused5

Same12 == UNCHANGED <<part, v13>>
Same10 == UNCHANGED <<v11, v12>> /\ Same12
Same6 == UNCHANGED <<v7, v8, v9, v10>> /\ Same10
Same5 == UNCHANGED v6 /\ Same6
Same4 == UNCHANGED v5 /\ Same5

\* A part may stop where nothing is under way; a registry goes on for ever.
ToolRests ==
    \/ \E p \in Filings : part = p /\ Filing(Tooling[p])!Resting
    \/ \E p \in Programs : part = p /\ Running(Tooling[p])!IsOver
    \/ \E p \in Fetches : part = p /\ Fetching(Tooling[p])!Resting
    \/ \E p \in Pages : part = p
    \/ \E p \in Stores : part = p /\ Connecting(Tooling[p])!Resting
    \/ \E p \in SignIns : part = p /\ Signing(Tooling[p])!IsOver
    \/ \E p \in Calls : part = p /\ Calling(Tooling[p])!Resting
    \/ \E p \in Wires : part = p /\ Asking(Tooling[p])!Resting

ToolNext ==
    \/ \E p \in Filings : part = p /\ Filing(Tooling[p])!Next /\ Same6
    \/ \E p \in Programs : part = p /\ Running(Tooling[p])!Next /\ UNCHANGED part
    \/ \E p \in Fetches : part = p /\ Fetching(Tooling[p])!Next /\ Same10
    \/ \E p \in Pages : part = p /\ Reading(Tooling[p])!Next /\ Same6
    \/ \E p \in Stores : part = p /\ Connecting(Tooling[p])!Next /\ Same4
    \/ \E p \in SignIns : part = p /\ Signing(Tooling[p])!Next /\ Same10
    \/ \E p \in Calls : part = p /\ Calling(Tooling[p])!Next /\ Same12
    \/ \E p \in McpFiles : part = p /\ Registering(Tooling[p])!Next /\ Same5
    \/ \E p \in Wires : part = p /\ Asking(Tooling[p])!Next /\ Same5
    \/ ToolRests /\ UNCHANGED toolvars

ToolSpec == ToolInit /\ [][ToolNext]_toolvars

-----------------------------------------------------------------------------
(* Properties: what the modules promise of their part *)

\* What was written is whole somewhere until a call that was asked to destroys it,
\* no path holds a half-built copy, and the trash keeps to its limit (fs: Staging,
\* Trash, the write, delete, move and copy handlers).
FilesKept == \A p \in Filings : part = p => Filing(Tooling[p])!FilesKept

\* A program's output is handed over whole or said to be cut, and when its time is
\* up its group and its workspace go, and its container is stopped or its kill was
\* tried and failed (run_process, _kill_group, _kill).  Of the web only checked
\* addresses are requested, each response is released and what is cut is said to be;
\* a page keeps the text a reader sees, where no head was left open, and no other,
\* where no skipped element has a stray end tag (fetch_url, _html.py).
ProgramsAndPages ==
    /\ \A p \in Programs : part = p => Running(Tooling[p])!RunHolds
    /\ \A p \in Fetches : part = p => Fetching(Tooling[p])!FetchHolds
    /\ \A p \in Pages : part = p => Reading(Tooling[p])!PageHolds

\* A connection that signs in has its token, what a command reported stays, and no
\* secret outlives its connection (ConnectionStore, providers.py); a tool server of
\* the registry has the credential its entry names (mcp.py).  A sign-in stands
\* for the approval of its own request, and gives up only on an approval that came
\* too late (authorize_code, _poll_device_token).
CredentialsHold ==
    /\ \A p \in Stores : part = p => Connecting(Tooling[p])!ConnectionsHold
    /\ \A p \in McpFiles : part = p => Registering(Tooling[p])!CredentialsKept
    /\ \A p \in SignIns : part = p => Signing(Tooling[p])!SignInHolds

\* A provider call gives its response back, repeats itself with a fresh credential
\* only, and ends with the error its cause is; of what ends a reply early only a body
\* cut in order passes for its end (the adapters' _translate, _reauth, stream).
CallsTranslated == \A p \in Calls : part = p => Calling(Tooling[p])!CallHolds

\* A request asks the prompt of the run and pairs each call with its result, in every
\* provider's form (_build_messages, _to_openai_message).
RequestsSound == \A p \in Wires : part = p => Asking(Tooling[p])!RequestHolds

\* No step of a call on files that fails in time leaves a path changed, but what the
\* system refused to remove or to put back; none reports a deletion or a move that did
\* not take place, gives a connection another id or polls too soon.
NothingUntold ==
    [][/\ \A p \in Filings : part = p => Filing(Tooling[p])!StepTells
       /\ \A p \in Stores : part = p => Connecting(Tooling[p])!StepTells
       /\ \A p \in SignIns : part = p => Signing(Tooling[p])!PollsSpaced]_toolvars

=============================================================================
