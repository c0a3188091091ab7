# Arcana OS in TLA+

Arcana OS runs AI agents on one machine: an agent has a memory, calls language
models, uses tools, and is chosen for a task by a router called the World.
Everything runs in one `asyncio` event loop; the command line is another process
on the same files and the same OS keyring. Between two `await`s a task runs
alone, and at each `await` every other task may run. The modules here use that
as their unit: **one action is what a task does from one `await` to the next**,
and what other tasks, the clock, a remote server or the other process do in
between are actions of their own.

Paths below are relative to `packages/arcana-core/arcana/`.

## Inventory

| Part | State it keeps | Operations | What is hard about it | What makes it correct |
|---|---|---|---|---|
| Tier resilience, `memory/resilience.py` | breaker state, failure count, opening time | `search`, `write` behind a budget and a breaker | answers of overlapping calls arrive in any order, the state is read as a side effect of many methods | closed exactly when earned; a full cooldown; no call hangs; a tier comes back |
| Federation and router, `memory/federation.py`, `memory/router.py` | the registered tiers | `write`, `search`, `browse`, `get`, `forget`, `prune`, `aclose` | a fan-out of which some legs fail, late landings, rows that move between two awaits | a normal return accounts for every tier; the private tier decides; the most local copy wins; global rows are spared |
| Stores, `memory/adapters/*`, `memory/edges.py`, `memory/migrations/` | one shared connection, rows, keyword and vector index, pinned embedding model | `connect`, `write`, `search`, `get`, `delete`, `prune` | one transaction for all tasks; row and vector committed apart; lazy connect | row and vector agree; one connection; one pinned model |
| Note folder, `memory/adapters/markdown.py`, `memory/wikilinks.py` | a cached index, the link edges | scan, reindex | notes change between the stat, the read and the swap; two reindexes at once | what is served was there during the scan; edges are the links on disk |
| Extraction, decay, retrieval, `memory/extraction/`, `memory/decay.py`, `memory/router.py` | rows with importance, confidence and a clock | extract a turn, consolidate, retrieve | a read resets the clock that decides what is read next | a turn leaves a trace; caps hold; only what lapsed is dropped |
| Memory commands, `memory.py` of the command line | connectors, budgets, exports | `forget`, `connect`, `export` | a prompt between the look and the deed, files shared with other writers | what was reported is so; nothing unnamed is replaced |
| Model gateway, `models/gateway.py` | pool of adapters, a lock per connection, health of each adapter | `complete`, `stream`, `health`, `aclose` | connect stampedes, retries, a close that walks the pool across awaits | one adapter per connection; no replay; one bill per answer; a cooldown ends |
| Model adapters, `models/adapters/*` | an HTTP client | translate requests, answers and errors | retry after a 401, errors of the libraries, broken streams | at most one more attempt; a cause reaches the gateway as what it is |
| OAuth provider, `auth/provider.py` | keyring entry, a lock | `get_token`, `on_unauthorized`, refresh | refresh stampedes with rotating refresh tokens; sign-out in another process | one refresh per token; never locks itself out |
| Sign-in, `auth/oauth.py` | a listener, a poll loop | the loopback and the device grant | a browser's unused connections, stale redirects, intervals | the token is of this request; a sign-in ends, unless a browser holds the listener |
| Connection store, `models/connection_store.py` | a JSON file and its cached list | `upsert`, `delete`, token helpers | two processes on one file | no update lost |
| MCP adapter, `tools/adapters/mcp.py` | session, its exit stack, a health flag, two locks | `execute`, `discover`, `aclose` | a late failure resets a newer session; a close during a connect | one session; a live session is not torn down by a stale call |
| Tool registry, gateway, guardrails, `tools/*.py` | servers, status of each tool, wire names | `register`, `sync`, `approve`, `resolve`, `dispatch` | a tool that changed after its approval, from two sources | a changed tool is withheld; only offered tools run |
| Agent and sessions, `agents/*` | history, session record, files | `run`, `stream`, resume | errors in the middle of the tool loop, abandoned streams | every session ends closed and stored; tokens add up |
| World, `world/*` | routing rules, audit file, learning store | `route`, reflex, retry signal | order of the tiers of routing; side effects before the run | an explicit route is obeyed; each decision is audited |
| File tools, `tools/builtins/fs/*` | the jailed tree, staging names, a bounded trash | copy, move, delete, restore | crashes between two renames, checks before use | the destination is the old or the new tree |
| Sandbox, shell, web tools | child processes, HTTP | run, fetch | cancellation, unbounded waits | no child outlives its call |
| Cards, `cards/*` | card definitions | blend | arithmetic only | weights stay in range |
| Evaluation harness, `evals/*` | results on disk | run, judge, compare | cases side by side, a judge that fails | a pass is earned; each case counts once |
| Types, soul, observability, rendering of the command line | records, a text file, output | | | |

The parts meet as follows. An agent calls the model gateway and the tool gateway
and writes to and searches the federation. The federation calls one resilient
tier per store. Model adapters and the MCP adapter ask the OAuth provider for a
token before a request and after a 401. The command line writes the connection
store and the keyring the provider reads. The main hazards, forty of them, at their
lines, are in `PROJECT.json`.

## Modules

| Module | Models | Kind |
|---|---|---|
| `CircuitBreaker`, `ResilientTier` | `memory/resilience.py`: a breaker, a tier behind it used by several tasks | component |
| `TierGate` | what callers of a tier may rely on | abstract specification |
| `MemoryFederation` | `MemoryFederation` and `MemoryRouter`: write, search, forget | component |
| `DurableMemory` | what the private tier promises | abstract specification |
| `FederationUpkeep` | `MemoryFederation.prune`, `aclose` | component |
| `StoreOpen` | `SQLiteAdapter`'s connection, quarantine, migrations, close | component |
| `MemoryStore` | rows, vectors, the embedding pin and edges on one connection | component |
| `VectorSearch` | a search of `VectorAdapter` and its fused ranking | component |
| `NoteFolder` | `MarkdownFolderAdapter`'s scans, the wikilink graph | component |
| `MemoryLife` | extraction, consolidation, decay, retrieval | component |
| `MemoryCommands` | `arcana memory forget`, `connect`, `export` | component |
| `ModelGateway` | `ModelGateway` | component |
| `ModelAdapters` | one call of each provider adapter and its errors | component |
| `WireMessages` | the messages of a request in both provider forms | component |
| `OAuthCredential` | `OAuthCredentialProvider`, the retry in `ModelAdapter._reauth` | component |
| `SignIn` | `auth/oauth.py` under `arcana providers login` | component |
| `Connections` | `ConnectionStore` and the commands of `providers` | component |
| `McpSession` | `MCPToolAdapter` | component |
| `ToolRegistry` | the registry of MCP servers, its file, the commands of `mcp` | component |
| `AgentRun` | the tool loop of `Agent.run`, `ToolGateway.dispatch`, guardrails | component |
| `ChatSession` | `arcana chat`, `arcana run`, `Agent`'s session, `SessionManager` | component |
| `World` | `AgentRegistry`, `WorldEngine.route`, commands of `agent` | component |
| `FileTools` | the file tools, staging and trash of a workspace | component |
| `Sandbox` | running a program: `run_process`, group kill, containers | component |
| `WebFetch`, `HtmlText` | `fetch_url`, the text taken from a page | component |
| `CardBlend` | cards of an agent and their blend | component |
| `EvalRun` | the evaluation harness and its judge | component |
| `ResilientTierProofs`, `MemoryFederationProofs`, `ModelGatewayProofs`, `OAuthCredentialProofs`, `McpSessionProofs`, `ToolProofs`, `AgentRunProofs`, `PartsProofs` | | theorems |
| `Parts` | the seven modules of the memory beside the federation, `World`, `CardBlend`, `EvalRun` and `ChatSession`: a part is an instance of one, for any constants | composition |
| `ToolParts` | the same for `FileTools`, `Sandbox`, `WebFetch`, `HtmlText`, `Connections`, `SignIn`, `ModelAdapters` and `ToolRegistry` | composition |
| `MCMemory`, `MCTools`, `MCAgents` | the parts of an area, one in each behaviour | instances for TLC |
| `MCResilientTier`, `MCMemoryFederation`, `MCModelGateway`, `MCAgentRun` | one component | instances for TLC |

Each component module ends its first half with the operators *Bugs this code
could have*. The model does not use them. Put in the place of the definition
named in `PROJECT.json` under `mutants`, each makes one property fail: this is
how we know that the property depends on the code. A property that stands for
several statements (`SessionSound`, `RowsAndVectors`) has a mutant for each.

### CircuitBreaker and ResilientTier

The breaker record holds the state, the count of consecutive failures, up to the
threshold, and the time since it was opened, up to the cooldown (the clock is
only ever compared with the opening time, and the count with the threshold, so
nothing is lost). `Observed` is the `state` property, which turns an open breaker
to half-open when it is read: `allow`, `record_failure` and the publishing of the
state in every `finally` go through it.

`Begin` and `Skip` are a call up to its `await`; `Succeed`, `Timeout`,
`BackendError`, `Corrupt` and `Cancel` are what follows it. A read that is
answered empty and a write that raises `TierWriteFailed` are the same to the
breaker. `Tick` is the clock, which also lets budgets run out. `streak` and
`poisoned` are history: they record what the callers were answered.

### MemoryFederation

`store[t][i]` is what tier `t` holds of id `i`: the number of the write it comes
from, and whether it is archived. `op[c]` is the operation of a client, with one
leg per routed tier. A leg of a write goes from *running* to *landed* (its commit)
to *done* (its answer), or is *lost* at any point before it is done: budget,
error, corruption, or a breaker that is open, for which any set of routed tiers
may be skipped (an over-approximation of what `ResilientTier` decides). A write
cut off by its budget may leave its statement in the open transaction of the
tier's connection; `stray` holds it until another operation commits it
(`StrayLand`), and a corrupt store, which closes its connection, drops it.
`FinishWrite` and `FinishSearch` are what `write` and `_gather_merged` do after
`gather`. `forget` is `StartForget`, one `FindOwner` per tier, `DeleteRow`.

### ModelGateway

`cache[k]` is the pooled adapter of connection `k` and `entry[a]` an adapter with
its health. A lock belongs to a key and an `epoch`, as `aclose` throws all locks
away and the next call makes new ones while an old holder may still be connecting.
A call goes from `locking` through `connecting` to `calling`, `sleeping`
(backoff) and `billing` (the cost sink). `aclose` is a walk: `CloseBegin`, one
`CloseOne` per adapter, and `CloseEnd`, or `CloseRaises` when an adapter raises or
the pool has grown during the walk. `Collect` reuses the names of adapters nobody
refers to any more; it is bookkeeping of the model, not code.

### OAuthCredential

Tokens are pairs of numbers given out by the server. `keyring` is the stored
pair, `server.refs` the refresh tokens that are still accepted (a refresh may
rotate or keep its refresh token) and `expiring` the access tokens within the
skew. A request gets a token, sends it, and after a 401 may renew and try once
more. A task under `_refresh` waits for the lock, reloads (`Take`), and asks the
server (`Grant`); the answer is stored (`Save`) or lost (`RefreshFails`,
`Cancel`). A keyring that cannot be read yields no token, at any load. `SignIn`,
`SignOut` are the command line, which takes no lock.

### FederationUpkeep

`prune` gathers one leg per prunable tier past the breakers: `Start`, then
`Opened`, `Removed`, `Ends` or `Fails` per tier, then `Return` or `Raise`. The
first failure raises and leaves the other legs running. `aclose` is a walk:
`StartClose`, `Pass` over a tier that is not open, `CloseTier`, `TierClosed`,
`CloseFails`, `Over`. The owner closes when its prune has ended, or without one.

### StoreOpen

`file` is the database: schema version, damage, the holder of the write lock.
`conn[a]` is the connection of adapter `a`, `corrupt[a]` its quarantine, `open[a]`
every connection it opened and did not close (each has a thread). An operation
goes through `Open`, `Check` (the quick check), `Migrate` or `UpToDate`,
`Migrated`, `Use`; `Corruption` quarantines; `Close`, `Checkpoint`, `Forget` are
`aclose`. `Damage`, `Cancel` and `Restart` may come at any await. Two adapters
are two processes, or two stores of one, on the same file.

### MemoryStore

`db` is what is committed and `view` what the connection sees; they differ inside
the one transaction (`intx`) that all tasks of the connection share. Each
statement is an action, as each is one await of the driver: a write is `Upsert`,
`CommitRow`, `Unindex`, `Insert`, `CommitVector`, with the resolution of the
embedder and the pin before it; then delete, prune (archive or purge), search
with its refresh of the access times, and `replace_source`. `Fail` is an error of
a statement, `Cancel` comes at an await, `Crash` loses `view`.

### VectorSearch

`Keyword`, or `Knn`, `Words` (hybrid only), `Fetch`, `Rank`, each an await, and
`Change` between them: another task removes or archives a row. A row has a
distance or no vector, a BM25 score or no match, and passes the filters or not.
The fused score is 0.7 of the one leg and 0.3 of the other, each put on [0, 1] by
its least and greatest score; `Fused` has it times the two spans, so that it is
exact and an integer for every integer score. Ties are broken as the index pleases
(`Best`, `Ordered`), and the cut takes a prefix of the order (`Results`).

### NoteFolder

A scan stats all notes (`Stat`), reads those whose mtime or size differ from the
cache (`Read`), and swaps its index in (`Swap`); an editor saves and deletes
notes at any step, on a clock whose ticks may be coarser than an edit
(`KeepsTime`). A reindex resolves the links of what its scan saw and replaces the
edges. `current` is history: the last reindex to end began after the last edit. One
that began before may end after it and bring the old edges back; then it is false.

### MemoryLife

A turn is extracted into typed entries by rules or by a model with a fallback to
the rules (`Turn`), the close distils one more (`Close`), and `Retrieve` and
`Browse` score rows by age, drop what decayed below its type's threshold, and
reset the clock of what they read. Importance and confidence are in hundredths,
time in half-lives, so that decay is a division by a power of two (`Halved`, 128 and
more leave nothing of 100). A write may fail before or after its row is committed
(`Written`): the row then stays and the session does not list it; `lost` counts these
failures. Entries are numbered in the order they are stored in.

### MemoryCommands

`forget` looks an entry up, asks, looks it up again and deletes it (`Look`,
`Confirm`, `Find`, `Delete`); `connect` loads and saves the file it shares with
the resilience budgets; `export` checks, writes a temporary file and replaces the
target. Agents, the World and an editor act between the steps (`Others`).

### ModelAdapters and WireMessages

`ModelAdapters` is one call: the credential, `Send`, what the provider or the
client library answers (`Answered`, `Refused`, `Unanswered`, `Garbled`), the one
reactive refresh (`Reauth`), the stream with its breaks, and the release of the
response. `cause` is what happened and `outcome` the error the gateway is given,
so a property compares the two. `WireMessages` has the session's transcript, the
cut to the window, and the two message forms as functions of the same history.

### SignIn and Connections

`SignIn` runs the browser grant (a listener that takes one connection, then the
exchange) or the device grant (a poll loop with its interval, slow-down and expiry)
on a small clock. The browser may open connections it never uses and another sign-
in's redirect may reach the port. `WaitsForIdle` is the Python the program runs on:
from 3.12 on closing the listener waits for the connections that are open, and a
browser that holds one holds the sign-in (`Held`); the runs have both. `Connections`
has `models.json` and the keyring; every command loads the whole list, asks or signs
in, and writes both in an order of its own; it may be killed between any two writes,
or a write to the keyring may fail.

### McpSession

`conn[s]` is the transport of session `s` and `session` the one the adapter holds.
A task takes `_connect_lock` (`TakeConnect`), opens (`Opened`, `OpenFails`), may
renew its credential once (`Renewed`, `NotRenewed`), then takes `_lock` and sends
(`Send`); `Answer`, `Timeout`, `Error` end the call, the last with a teardown.
`Close` is `aclose`. With `fresh` each call opens a session of its own. Any task
may be cancelled at any await, and a server may die (`Dies`).

### ToolRegistry

`file` is `mcps.json`, read and written as a whole by each command (`Add`,
`Refresh`, `Login`, `Approve`, `Remove`), each of which may be killed (`Crash`;
one killed while it writes leaves the file torn) and may overlap another.
`remote` is what a server offers now; it changes at any time (`Offers`).
`trusted` is history: versions of a tool that were seen first or were approved.

### AgentRun

A run resolves its tools, completes, dispatches all calls of the answer at once,
and completes again, up to the cap. `wires` is the tool gateway's map of wire
names, which every run of the agent rebuilds, so it is shared. A call is screened
by the rules in their order; a rule that asks suspends it (`Confirm`), others run
meanwhile. `Abandon` is a consumer that stops listening.

### ChatSession

One submitted line is one task: recall, answer, extraction, the store of the
session; Ctrl+C (`Cancel`) cuts it off at any await and `Crash` ends the process,
also in the middle of a write of the session's file. `Fresh`, `Switch`, `Exit`
are the slash commands, step by step, because they set the record, the mode and
the runtime agent one after the other.

### World

Each command is a process. A record is written by truncating the file and writing
it (`Truncate`, `WriteOut`), so that others may read it torn. `Route` reads the
world file, the pool, the rules, asks the reflex classifier, writes the audit
record and the retry signal, and loads the agent. `runs` bounds the commands.

### FileTools

Each call runs in a worker thread, one system call per action: `Compose`,
`Write`, the staging protocol `Prepare`, `Displace`, `Stage`, `Built`, `Install`
with `Restore` and `Discard` on failure, and for deletes `Place`, `Prune`,
`Remove`, `Rmdir`. The system may refuse any of them (`RefusesFirst`,
`RefusesNext`, `RefusesRmdir`, `RefusesRestore`, `RefusesPrune`): a tree may be
removed in part and a displaced entry not be put back. `Timeout` answers for a call
whose thread goes on, except for a write between its two threads, which ends there
(`told` marks a call that was answered; two `Threads` stand for it and the next call);
`GivesUp` ends a removal that could not begin; `Crash` ends the process between two system calls. `made` and `gone` are
history: what was written and what a call was asked to destroy.

### Sandbox, WebFetch and HtmlText

In `Sandbox` the call (`Spawn`, `Pump`, `Finish`, `Timeout`, `KillBox`,
`Misses`, `TimedOut`, `Cancel`) meets a child that writes, closes its output, forks and
exits when it likes, a pipe that fills, and the reaping by the event loop.
`WebFetch` walks redirects, checks each address before it is requested and reads
the body up to its cap. `HtmlText` runs the extractor's counter beside the stack
of elements that are really open; an end tag may be stray, and a `body` may come
while the head is open.

### CardBlend and EvalRun

`CardBlend` has the record (`Create`, `Edit`, `EditFlag`) and the blend
(`Resolve`) in fixed-point arithmetic. In `EvalRun` cases pass a semaphore, are
answered, and scored by rules and by a judge whose reply may be no JSON, and may be any
number; of an agent that raised only the text of the error is kept, and where that is
empty (`mute`) the judges score its empty response; `Finish`
saves, reads the baseline and counts; `Again` is a second run.

## Runs

Seven components have a run of their own, three more runs cover an area each, and
two state what the source says and the code does not do.

| Run | Module | Question | Distinct states |
|---|---|---|---|
| `resilient_tier` | `MCResilientTier` | Do overlapping calls keep breaker, cooldown and budget right? | 47 thousand |
| `federation` | `MCMemoryFederation` | Does the outcome of an operation tell the truth about every tier? | 369 thousand |
| `model_gateway` | `MCModelGateway` | Pool, retries, cooldown, billing, with a close | 120 thousand |
| `oauth` | `OAuthCredential` | Refresh stampedes, lost answers, sign-out | 201 thousand |
| `mcp_session` | `McpSession` | One session under cancellations, timeouts and a close | 27 thousand |
| `tool_registry` | `ToolRegistry` | Trust across overlapping commands and changed tools | 402 thousand |
| `agent_run` | `MCAgentRun` | Guardrails and tool names of two concurrent runs | 30 thousand |
| `memory` | `MCMemory` | What the memory does beside the federation | 1.4 million |
| `tools` | `MCTools` | What the tools, connections and providers do | 615 thousand |
| `agents` | `MCAgents` | Conversations, routing, cards, evaluation | 1.0 million |
| `half_open` | `MCResilientTier` | Is there one probe while half-open, as the comments say? **No.** | stops at the violation |
| `registry_offer` | `ToolRegistry` | Is a changed tool withheld from the model? **No.** | stops at the violation |

**The area runs.** `Parts` (whose constant of that name `MCMemory` and `MCAgents`
give a value each) and `ToolParts` (which `MCTools` gives values for `Tooling`) hold several instances of component modules over one set of variables
`v1`, `v2`...; the first state picks the `part`, and a behaviour then is one of that
instance. The parts share no state in the code either (a note folder and a sign-in,
say), so a product of them would show nothing more than their union, and the union
is checked in the time of the largest part. A property of such a run is a
conjunction over the parts, each conjunct guarded by its part and stated in the
component's module. One component may be several parts, with another instance each:
`rows`, `dying` and `failing` are `MemoryStore` with two entries, with crashes and a
dead embedder, and with failing statements and cancellations.

| Run | Parts |
|---|---|
| `memory` | `opening`, `shared` (StoreOpen); `rows`, `dying`, `failing` (MemoryStore); `search`, `ranks` (VectorSearch); `scans`, `graph` (NoteFolder); `life`, `model` (MemoryLife); `forgets`, `files` (MemoryCommands); `upkeep` (FederationUpkeep) |
| `tools` | `files`, `stuck`, `killed`, `trash` (FileTools); `program`, `box`, `drain` (Sandbox); `fetch` (WebFetch); `page` (HtmlText); `records`, `secrets` (Connections); `login`, `waits` (SignIn); `lossy`, `steady` (ModelAdapters); `registry` (ToolRegistry); `wire` (WireMessages) |
| `agents` | `chat` (ChatSession); `commands`, `rules`, `two` (World); `cards` (CardBlend); `eval` (EvalRun) |

### Bounds

`MaxOps` 3 (federation): operations in a behaviour; the earlier session, whose
rows the initial states hold in any subset of the tiers, counts as one, so two
more give every pair of overlapping ones. One id suffices because operations on
different ids never read each other's rows. A tier of each kind is there: the
anchor, one that cannot delete, the global one. `MaxBudget`, `FailThreshold`,
`ResetAfter`: two of each are the least with which "one short of" and "reached"
differ; three tasks let two late answers meet one probe. `MaxRetries` 1 gives a
first, a last, and an exhausted attempt. `MaxCloses` 1: locks of two generations;
two connections, so that a close has a walk to make; the calls of one are only
health checks and only one caller streams (`CallsAllowed`, an action constraint on
`Begin`, which no fairness speaks of); `ModelGatewayProofs` has every call of every
caller on every connection. There are two adapter
names; when none is free `Miss` waits for `Collect`, which is fair, and `CallsEnd`
shows that this ends. `MaxIssued` 3: a first
token, its successor, and one more by a second refresh or a sign-in. Four
sessions for two MCP callers: each may hold one that closes and open another.
`MaxVersion` 2: a version and a changed one. Two tools of one wire name and two
call slots: the least in which two runs can exchange a name.

`StoreOpen`: two tasks, three handles (one per task and one left behind).
`MemoryStore`: two entries where entries meet, one where faults multiply states;
what its tasks do to each other is among the divergences below, so the checked
parts have one task. `NoteFolder`: `MaxTick` 3 gives two edits around a scan.
`MemoryLife`: three entries; two turns over two half-lives, and one turn over three,
which bring an entry of each type and of full importance past its threshold. `FileTools`: `Limit` 1, so each delete prunes.
`Sandbox`: `PipeSize` 1 and `Cap` 1, so that a program of 3 to 8 chunks fills
both. `WebFetch`: two redirects and a body of up to 5 chunks under a cap of 3.
`HtmlText`: six tokens nest two skipped elements with text on each side.
`World`: `Runs` 1 to 3 commands. `EvalRun`: four cases, two places.

Deadlock is checked in every run. The federation stutters once its bound is used up
and nothing is under way (`Quiet`); in the area runs a part whose behaviours end may
stop where its module says that nothing is under way (`Rests`: a call has returned,
no command or scan runs), so that a call that hangs half-way is found. Symmetry is
used where no liveness is checked.

### Fairness

Only what the event loop or a timeout gives. A timer that is due fires
(`Timeout`), time passes (`Tick`); of a memory backend nothing is assumed. Model
adapters and the authorization server answer or fail, since their HTTP clients
have timeouts: weak fairness of "answers or fails", never of answering well. An
adapter nobody refers to is collected, so that its name is free again. A
stream is in the hands of its adapter until its consumer has read or closed it,
so `CallsEnd` of the gateway also assumes of the consumers that they do one or
the other. `asyncio.Lock` serves waiters in the order of their arrival, which
justifies strong fairness for the step that takes a lock. In `McpSession` a call
has its timeout; a discovery has none, and `CallsEnd` leaves discoveries out. In
`AgentRun` the confirmer answers (the timeout of a dispatch covers the execution
only). In `Sandbox` the loop runs what is ready and the clock runs out; the
program may hang for ever, except in the part `drain`, which has no clock and
asks whether a program that goes on writing can end. In `SignIn` the client's
own steps are fair, which include its timeouts; the user and the browser owe
nothing. In `World` the classifier has a timeout. Nothing is assumed of
cancellations, of closes, of crashes and of the command line.

### What the runs show

The properties are stated, with the code they are about, in the modules. In
short:

* **A tier.** The breaker is closed exactly as long as its callers have seen
  neither a corruption nor a full run of failures since the last success, and
  half-open only after a full cooldown (`BreakerSound`); it behaves like `TierGate`
  (`ImplementsGate`); a silent backend stalls nobody and a tripped tier is tried
  again (`AlwaysRecovers`).
* **The federation.** A write that returns normally is in every routed tier except
  those it reported, and always in the private one (`WritesAccounted`); only a
  lost private leg makes a private write raise and no forget touches a global row
  (`StepsAllowed`); a farther copy is returned only when the nearer tier failed or
  did not have the entry at some moment of the search (`MostLocalWins`); the
  private tier implements `DurableMemory` even with late landings
  (`AnchorIsDurable`): a write that was reported as failed may still appear, but
  once, and what was acknowledged was stored.
* **The gateway.** Calls of one connection share an adapter (`CacheSound`, its first half
  until a close: a connect that is under way during a close is pooled afterwards,
  next to the adapter of a later call); streams are not replayed and exactly the
  answers are billed (`AnsweredOnce`); after a close that did not raise no closed
  adapter is in the pool (its second half; after one that did, closed adapters
  stay there, and the premise says so); calls return and cooldowns end (`CallsEnd`).
* **Credentials.** A token is refreshed once however many tasks see it expire,
  unless an answer was lost, and a second attempt has another token
  (`RenewedOnce`); the stored token can be refreshed, with the same exception
  (`StaysRenewable`); a sign-out is final if no refresh is on its way
  (`SignOutIsFinal`); requests end (`RequestsEnd`). Commands one at a time leave a
  token with every signed-in connection, keep what they reported, and leave no
  secret without an owner; a sign-in stands for its own request (`CredentialsHold`).
* **MCP and tools.** Every open transport is somebody's to close, connects are
  shared and calls take turns (`SessionSound`), and calls end (`CallsEnd`). What
  the registry's file resolves was seen first or approved (`TrustHolds`), and a
  server's status tells of what is withheld (`StatusTells`). A tool runs only past
  every rule that blocks it (`GuardHolds`), and it is the tool that was offered
  under the name the model used (`SameTool`); runs end (`RunsEnd`).
* **The memory around it.** `StoresOpen`, `RowsAndVectors`, `SearchIsSound`,
  `NotesAreCurrent`, `TurnsRemembered`, `ReportsHold`, `NothingSpoiled`: processes
  that share a migrated file, one task of a store after the other, searches among
  changes, scans among edits, and commands keep what the code says of them. Under
  more concurrency than that several do not; see *Divergences*.
* **The tools.** One file call at a time loses nothing at any crash (`FilesKept`);
  what programs write and pages show is handed over whole or said to be cut, up to
  markup whose tags do not match (`ProgramsAndPages`);
  errors of the vendor libraries and httpx reach the gateway as what they are, apart
  from the divergences: a body that ends early and in order ends a reply for every
  adapter (`CallsTranslated`); a request asks the run's prompt and pairs
  calls with results (`RequestsSound`); what a step reports took place, and a
  call on files that fails before its timeout leaves the paths as they were, unless the
  system refuses its last step (`NothingUntold`); programs end, and so do sign-ins,
  unless a browser holds an idle connection to a listener of Python 3.12 or later
  (`EverythingEnds`).
* **The agents.** `ConversationKept`, `RoutingHolds`, `BlendHolds`, `VerdictsHold`,
  `EveryTurnEnds`.

## Findings

* `memory/resilience.py:34` says of the half-open state "one probe call is allowed
  through", and the class docstring "recovers via a single probe call". `allow`
  (line 73) only checks that the state is not open, so every task that calls before
  the first probe is answered gets through. `half_open` shows it with two tasks.
* `types/tool.py:96` says of a changed tool that it "is withheld from resolution
  until re-approved, so mutated third-party metadata never reaches the model".
  The registry withholds it, and then `ToolGateway.tools_for`
  (`tools/gateway.py:106`) adds every definition of the adapter's own list that a
  subscription names. `registry_offer` shows it.

## Divergences

More places where a text of the repository says one thing and the code another,
met while the modules were written. Each is a property of a module that TLC
refutes on the instance in brackets (put the property and these constants in a
`.cfg` of the module). The area runs check the same properties on the instances
where they hold, which delimits each of these: one task instead of two, no crash,
a clock that moves. Paths in `arcana-core/arcana/` are shortened.

* `McpSession.DropsItsOwn` (two callers, four sessions, no cancellation). _reset
  tears down whatever session the adapter holds when the failure is handled, so a
  call that was queued on a broken session and fails after another call has
  reconnected closes the new, healthy session; the comment at
  tools/adapters/mcp.py:268 says "Transport/protocol failure: drop the session so
  the next call reconnects" and the docstring of _reset at line 347 "drop the
  session so the next call reconnects", of the session that failed.
* `ChatSession.ShownIsLoaded` (two agents, two sessions, one prompt). _new_session
  and _switch set memory_off, the record and the session one after the other around
  awaits, and the runtime agent last; Ctrl+C or an error in between leaves the old
  runtime agent, its memory included, answering under the new name and mode;
  arcana-cli/arcana_cli/commands/chat/editor.py:51 says of /no-memory "start a new
  stateless session (memory off)" and line 46 of /switch "load another agent in a
  new session".
* `ChatSession.TotalsGrow` (as before, turns of 0 or 1 token). stream and run assign
  the tokens of the turn to the session's totals, so a session of several turns
  keeps those of the last one only; the field is called total_input_tokens and
  arcana-core/README.md:75 says "Each run records a `Session` (messages + token
  totals)", of sessions that agents/agent.py:255 says can be resumed.
* `StoreOpen.NoLostConnection` (two tasks on one adapter, no fault). connect() tests
  _conn before it awaits aiosqlite.connect and assigns it after the migrations, so
  two first users each open a connection and the first assigned is dropped unclosed;
  memory/adapters/sqlite.py:99 says "Idempotent — safe to call repeatedly" and
  memory/adapters/sqlite.py:183-184 that an open connection "only leaks its worker
  thread — a non-daemon thread that blocks interpreter shutdown".
* `StoreOpen.QuarantineHolds` (two tasks on one adapter, damage). _corrupt is looked
  at before the awaits of connect() only: a task that is opening assigns _conn after
  another task latched the corruption, and every later operation uses it, since
  _ensure looks at _conn alone; memory/adapters/sqlite.py:73-74 says "Latches: a
  quarantined store stays quarantined for this adapter's lifetime".
* `StoreOpen.SoundFileWorks` (two adapters on a new file). user_version is read
  before BEGIN, so two processes that open a new file (two agents and the global
  store) both see version 0; the second waits for the first and then fails with
  "table already exists". memory/adapters/sqlite.py:111-112 says of the connection
  "busy_timeout: wait rather than fail on transient lock contention" and
  memory/migrations/runner.py:30 "Idempotent: a database already at head applies
  nothing".
* `MemoryStore.VectorsHaveRows` (two tasks: write, delete). The row is committed by
  one await and its vector inserted after it; a hard delete in between removes row
  and (no) vector, then the vector is written. memory/adapters/sqlite.py:343-345
  says a delete clears the vec0 index and memory/adapters/_sql.py:355-356 that "row
  + vector writes share one connection and stay consistent".
* `MemoryStore.VectorsMatchRows` (one task: write, embedder down). With no healthy
  embedder write() stores the row and returns, leaving the vector of the entry's
  previous text in the index, where the next semantic search ranks the new text by
  the old vector; memory/adapters/vector.py:189-190 says the entry is "stored and
  keyword-searchable, just without a vector".
* `MemoryStore.RowsHaveVectors` (two tasks: write). _vec_attempted is set before the
  awaits that load the extension and _vec_ok after them; an operation that arrives
  in between takes the extension for missing and writes without a vector.
  memory/adapters/vector.py:115 says of connect "Idempotent" and degrades only "If
  sqlite-vec is missing or the SQLite build cannot load extensions".
* `MemoryStore.VectorsHaveRows` (one task: write, prune, failing statements). A
  failing statement leaves its transaction open on the shared connection, so the
  rows a purge had deleted before it failed are committed by the next operation and
  their vectors stay; memory/adapters/sqlite.py:374-375 says the victims are
  "removed in one committed transaction".
* `MemoryStore.WrittenStays` (two tasks: write, edges). replace_source begins with
  BEGIN, which fails inside the transaction another task has open on the same
  connection; the handler then rolls that transaction back, and the other task
  commits nothing and returns. memory/adapters/_sql.py:355-356 says writes that
  share the connection "stay consistent"; memory/edges.py:97 promises atomicity of
  the replacement only for itself.
* `MemoryStore.EdgesWhole` (one task: search, edges, cancellation). Only aiosqlite
  errors roll back: a cancellation after the DELETE leaves the transaction open and
  the next operation's commit makes the deletion permanent; memory/edges.py:97 says
  "Atomically replace every edge tagged source with edges".
* `MemoryStore.PinnedStays` (two tasks: write, prune). The victims are chosen by one
  await and removed by a later one with no condition on pinned; an entry pinned in
  between is archived or purged. memory/adapters/sqlite.py:370 says "pinned entries
  are never touched".
* `MemoryStore.OnePin` (two tasks: write, two embedders). Both first writers read no
  embedding_meta before their awaits and both insert a row;
  memory/adapters/_sql.py:386 calls it "Single-row embedding_meta table".
* `MemoryStore.PinFitsIndex` (one task: write, two embedders, crash). The index is
  created outside the transaction of its pin (DDL does not open one), so after a
  crash between them the next process may pin another model, for which CREATE ... IF
  NOT EXISTS keeps the old dimension, and every vector write fails from then on;
  memory/adapters/vector.py:191-192 says the first embedded write "pins the database
  to the model (embedding_meta) and creates the dimension-sized vec0 index".
* `FileTools.Kept` (two threads: create). create tests that the file does not exist
  in one thread and writes it with os.replace in the next, so of two creates of one
  path both succeed and the first text is lost; tools/builtins/fs/handlers.py:46
  says `create` refuses to clobber.
* `FileTools.Kept` (two threads: append). append reads the file in one thread and
  replaces it in the next, so two appends to one file keep only one of the texts;
  tools/builtins/fs/handlers.py:339 says `appending can never silently truncate it`.
* `FileTools.Kept` (two threads: overwrite, move, cap and cross-filesystem).
  _restore purges whatever is at the destination, also what another call wrote there
  after the displacement; tools/builtins/fs/staging.py:22 says `A failure at any
  step restores what was there`.
* `FileTools.Kept` (one thread: move, a special file, cross-filesystem). A move
  across filesystems removes its source with the special files and escaping links
  its copy skipped; tools/builtins/fs/staging.py:100 says `a failed move never loses
  data`, and tools/builtins/fs/handlers.py:251 that the delete of the source is
  verified.
* `FileTools.Moved` (one thread: move, cross-filesystem, locked source). purge
  swallows the failure to remove the source, so a move across filesystems answers
  success and leaves the tree at both paths; tools/builtins/fs/handlers.py:251 says
  it is `a guarded copy followed by a verified delete of the source`.
* `FileTools.Recoverable` (one thread: delete, clock set back). _prune orders by the
  timestamp in the name, so after the clock is set back the entry that was just
  placed is the oldest and goes; tools/builtins/fs/trash.py:39 says the answer tells
  the model exactly what to recover.
* `World.RunsSelectable` (two processes: delete, route). The routed agent is read
  again after the classifier's await and its archived flag is not looked at, so an
  agent that was deleted meanwhile runs; world/engine.py:220 says `Archived agents
  are never included, so a rule or default can't route to one`.
* `World.DeletedStays` (two processes: edit, delete). edit saves the whole record it
  read before its prompts, so an agent that was deleted meanwhile is listed again;
  agents/registry.py:142 says delete marks the agent `so list() excludes it`.
* `World.Reserved` (one process: edit). edit takes any card of _validate_card, the
  World's too; arcana-cli/arcana_cli/commands/agent.py:164 says `The World is
  reserved and cannot be assigned.`
* `World.NeverStranded` (two processes: edit, route, a spread). The members of a
  spread are read with get, which raises on a record that another process is
  writing; world/store.py:7 says the router `can always resolve (never stranding a
  session on a bad config file)`.
* `Connections.SecretsHaveOwners` (one process: add, remove, change of kind). delete
  takes one keyring entry, the one the connection refers to now, so the API key of a
  connection that was overwritten with OAuth stays for good;
  models/connection_store.py:120 says `Remove the connection with the given name and
  delete its keyring credential.`
* `Connections.OAuthHasToken` (one process: add, rotate). edit --rotate-key does not
  look at auth_type and writes the key to the entry of the OAuth token, after which
  the connection is not signed in; arcana-cli/arcana_cli/commands/providers.py:383
  says `Rotate the stored API key (interactive hidden prompt)`.
* `Connections.ToldHolds` (two processes: add, remove). upsert writes back the list
  its process read before the prompts and the sign-in, so a connection another
  command saved meanwhile disappears; models/connection_store.py:105 says `Insert
  conn, or replace the existing provider connection with the same name.`
* `SignIn.MismatchMeansForeign` (code grant, idle browser, PKCE checked). The
  listener's future takes whatever connection comes first, also one that is closed
  without a request (its query is {}), and the sign-in then ends with `authorization
  callback state mismatch`; auth/oauth.py:208 says it `accepts exactly one
  callback`.
* `SignIn.SignInEnds` (as before, `WaitsForIdle`). Closing the listener awaits
  wait_closed, which since Python 3.12 waits for the open connections; one the
  browser opened and does not use blocks it, timeout or not; auth/config.py:31 says
  `A stalled login must not hang the CLI forever.`
* `NoteFolder.Fresh` (one note, `KeepsTime`). A note is re-read only when its mtime
  or its size differs from the cached ones, so an edit that leaves both (a sync tool
  or a move that keeps the time, a clock tick) is served stale for good;
  memory/adapters/markdown.py:10 says `A live read stays fresh`.
* `NoteFolder.GraphIsCurrent` (two notes, two reindexes). The scan and
  replace_source of one reindex are not ordered against another's: the one that
  scanned earlier may write last; memory/wikilinks.py:69 says `the graph reflects
  exactly the links present on disk right now`. The property asks this only of a
  reindex that began after the last edit.
* `NoteFolder.NeverGuessed` (two notes of one key). Two notes whose paths differ
  only in extension or case share one key of _by_path, and a path link resolves to
  the last of the walk; memory/wikilinks.py:13 says `Ambiguous names and dangling
  targets are skipped and counted, never guessed.`
* `MemoryCommands.BudgetsKept` (one connect, an editor meanwhile). _save writes back
  the whole document that load read, so a budget set in between is lost;
  memory/connectors.py:14 says `connector never clobbers a resilience config (and
  vice versa)`.
* `MemoryCommands.NeverClobbers` (one export, an editor meanwhile). The target is
  looked for before the temporary file is written and os.replace does not look
  again, so a file that appears meanwhile is exchanged; memory/paths.py:119 says it
  `Refuses to overwrite an existing path unless overwrite is set`.
* `MemoryLife.StaleStaysOut` (2 ids, 3 half-lives). Every row a search matched gets
  a fresh clock, also the rows the ranking then drops as aged out, so the next
  retrieval (or the first one after a listing) returns them; memory/router.py:193
  says they are dropped `so a fast-decaying type stops surfacing once stale`.
* `MemoryLife.FreshNotCrowdedOut` (3 ids, limit 1). The store applies the limit by
  stored importance (or by relevance) before the ranking drops the aged-out rows, so
  stale rows use the places of fresh ones; memory/decay.py:9 says `so a fresh,
  relevant memory naturally outranks a stale one`.
* `MemoryLife.AgentCapped` (cap 60). build_consolidated_entry uses the default cap,
  never the configured one; docs/api/memory.md:513 says `agent_confidence_cap`
  bounds agent-asserted confidence.
* `MemoryLife.NeverWeak` (threshold 80). The consolidated memory is written without
  filter_storable; agents/agent.py:50 says of min_confidence_to_store `entries below
  it are never persisted`.
* `Sandbox.TimeoutTakesAll` (forks, no cancellation). The group is looked up through
  the pid of the child; when the child has ended (`sleep 100 & echo started`) it was
  reaped, getpgid raises ProcessLookupError, which is suppressed, and the background
  process runs on. arcana-core/tests/tools/test_shell_handlers.py:168 says it `is
  taken down with the whole process` group, but only looks at the time taken.
* `Sandbox.NothingRunsOn` (cancellation). Only TimeoutError is caught: a cancelled
  call (Ctrl+C, or the timeout of the tool gateway when it is the shorter one) kills
  nothing, and the program runs on past its clock in a removed workspace;
  tools/builtins/code/sandbox/base.py:67 says the contract is to `run code to
  completion or to the wall-clock bound`.
* `ModelAdapters.SlowIsNotDown` (`anthropic` and `openai`). The connection error is
  asked for before the timeout, which is a subclass of it in both vendor libraries,
  so the timeout branch below is dead: a slow reply becomes ModelUnavailableError,
  and after the retries the gateway opens the cooldown of the connection.
  models/errors.py:13 says `Retryable error: timeout, connection reset, 429,
  500/502/503.` and models/errors.py:21 keeps the other class for `Connection
  refused`.
* `ModelAdapters.RetryableIsRetried` (`ollama` and `custom`, lost connections).
  httpx.ReadError and RemoteProtocolError fall through _translate of the httpx
  adapters and reach the gateway untranslated, where they are not retried;
  models/errors.py:13 says `Retryable error: timeout, connection reset, 429,
  500/502/503.`
* `ModelAdapters.WholeReply` (`ollama` and `custom`, none lost). A line that holds
  an error has no message and no done, so it is passed over and the stream ends like
  a complete one (the custom adapter drops such an event likewise);
  models/gateway.py:418 says `mid-stream failures` are `surfaced immediately`.
* `EvalRun.SkippedNotFailed` (one case marked). A skipped case carries a verdict and
  no error, so it is among the scored ones: cases_failed and the pass rate count it.
  evals/harness.py:56 says `Run each case (skipping marked cases)` and
  evals/types.py:94 calls it `set to skip this case with a message`.
* `EvalRun.RulesAllKept` (five rules on one case). The rules pass when the fraction
  kept reaches pass_threshold: with five rules and a threshold of 0.7 one may be
  broken. The comment of the line says `all required/forbidden must pass`
  (evals/judge.py:316), and evals/types.py:49 says `substrings that MUST appear in
  output`.
* `EvalRun.OneFailsAlone` (the judge may fail). The judge is called after the try,
  so a reply that is no JSON, or a judge that cannot be reached, raises out of
  gather: no result file is written, and the other cases run on over a closed
  gateway. evals/harness.py:58 says `Store results to ~/.arcana/evals/results/`.
* `EvalRun.BaselineStands` (two runs within one second (`MinTick` 0)). The id of a
  run is the second it began in and results are saved before the baseline is read: a
  second run within that second overwrites the first and is compared with itself, so
  no regression is seen. evals/types.py:140 says the id `groups results from one
  full eval run`.
* `WebFetch.ToldMeansCut` (as in `MCTools`). The loop stops when the total reaches
  the cap, before it knows whether anything follows: a body of exactly
  fetch_max_bytes is flagged though nothing was cut. tools/builtins/web/egress.py:12
  says `the body is read in chunks and aborted past the limit,` and
  tools/builtins/web/config.py:40 says `Streamed and aborted on exceed, marking
  the`.
* `HtmlText.PageKept` (`Optional`). `head` raises the skip count, and HTML lets its
  end tag be left out; the count then never returns to zero, and extract_text of
  `<head><title>x</title><body><p>hello</p></body>` is the empty string.
  tools/builtins/web/extract.py:3 says `HTML is reduced to its main text`.
* `CardBlend.NoSelfBlend` (as in `MCAgents`). `agent edit --card`, or the picker
  with the modifiers left as they are, keeps the modifiers of the record even if the
  new primary card is one of them; the card is then blended with itself.
  arcana-cli/arcana_cli/ui/card_picker.py:268 says `Pass `exclude` to hide specific
  cards from the picker (e.g. the primary card, Card.WORLD).`
* `VectorSearch.FillsLimit` (5 ids, limit 1, pool of 4). The pool of nearest
  neighbours has a fixed size and the filters apply after it, so enough nearer rows
  that are archived, of another scope or too unimportant leave fewer than `limit`
  results, or none, though rows that pass are indexed;
  memory/adapters/vector.py:94-95 says `fetch ``limit * multiplier`` neighbours so
  metadata filtering still leaves enough to fill ``limit```.
* `WireMessages.WholeTurns` (as in `MCAgents`). The prompt is added before the
  history is cut to an even number of messages, so the cut of a long session falls
  inside a turn and the request begins with a reply whose prompt is gone;
  agents/agent.py:41 says `Oldest turns are dropped from the replayed context window
  only`.
* `WireMessages.OneCallPerLink` (`Naming` = position). The adapters of Ollama and of
  custom endpoints number the calls of each answer from 0, so the second round of a
  run has calls of the ids of the first and a result's id names two calls;
  models/adapters/base.py:106 says of ``tool_call_id`` `on a ``tool`` result turn,
  linking it to its call.`
* `FederationUpkeep.EndedIsOver` (as in `MCMemory`). prune gathers its legs without
  return_exceptions, so the first tier that fails ends the call while the other
  tiers go on removing rows that nothing reports; memory/federation.py:188-190 says
  a failure propagates `because losing track of a destructive operation should
  surface`.
* `FederationUpkeep.NoneLeftOpen` (as in `MCMemory`). After a failed prune another
  tier may still be opening its store; the teardown passes it by and the connection
  opens behind it. memory/federation.py:255 says the teardown releases the stores
  `leaving no open connections behind`.
* `FileTools.FailureRestores` (a delete of a folder, a call that times out). A
  recursive hard delete that meets an entry it may not remove has removed the ones
  before it when it reports failure (tools/builtins/fs/tree.py:181-195); the
  gateway's timeout (tools/gateway.py:177) reports failure while the worker thread
  goes on. tools/builtins/fs/handlers.py:4-7 says an OS error comes back `never
  after touching the filesystem`. The property excepts the entries the system
  refused and the calls that timed out.
* `FileTools.FailureRestores` (a move or copy over an entry). The rename that puts
  the displaced entry back may fail too; its error is swallowed
  (tools/builtins/fs/staging.py:132-135) and the destination stays under its
  dot-name. tools/builtins/fs/staging.py:22 says `A failure at any step restores
  what was there`.
* `Sandbox.BoxStops` (a container whose kill fails). The kill of a container is
  bounded and its errors are suppressed
  (tools/builtins/code/sandbox/container.py:147-160), so a run may report its
  timeout while the container goes on; the comment there says so. The property
  excepts the kills that failed.
* `HtmlText.PageHolds` (pages with tags that do not match). A `<head>` that is never
  closed takes the whole body with it, and an end tag of another skipped element
  ends the skip early, so that text of a script is returned
  (tools/builtins/web/extract.py:64-84); the class says it collects `readable text,
  skipping non-content tags`. The property asks for the text of the pages whose
  skipped elements match.
* `ModelAdapters.WholeReply` (a body that ends in order before the reply does). The
  streams over the client libraries end normally whenever the iteration does, with
  no look at `[DONE]`, `message_stop` or a finish reason
  (models/adapters/openai_compat.py:274-286, models/adapters/anthropic.py:309-319),
  so half a reply passes for a whole one; models/gateway.py:418 speaks of
  `mid-stream failures`, which this one never becomes. `ErrorsSurface`, which the
  runs check, excepts it.
* `EvalRun.ErrorsFail` (an agent that raises without a text). The error of a case is
  the text of its exception (evals/harness.py:160-170) and every later test asks
  whether that is empty (evals/judge.py:60, 155, evals/harness.py:298-299): an
  exception without one is scored on the empty response, counts as no error and may
  pass. `PassIsEarned`, which the runs check, asks it of the errors with a text.
* `EvalRun.TypeOK` (a judge that answers 1.7). The judge's numbers are taken without
  a clamp (evals/judge.py:246), so a verdict may leave the range evals/types.py:114
  gives it, `0.0-1.0`.
* `MemoryLife.SessionListsItsOwn` (a write that raises after its row is committed).
  The row is committed before its vector is written
  (memory/adapters/vector.py:234-243) and the id is appended after the write
  returned (agents/agent.py:424-426), so a session may have stored an entry it does
  not list. The property allows one for each write that failed.
* `CardBlend.Picks` (no terminal). The numbered fallback of the picker takes any
  number of cards, and one of them twice (ui/card_picker.py:99-143); only the count
  is refused later, by resolve.

## Proofs

Eight modules of theorems, checked by `tlapm` for every value of the constants
that satisfies the assumption of the module. Each has the same shape: an invariant
that is inductive (`IInv`; in `PartsProofs` and `ToolProofs` one per component), a lemma per action
(or per kind of step) that it is preserved, and a theorem per property that follows
from it. A theorem whose property a run checks names it in `PROJECT.json`.

* `ResilientTierProofs`: `BreakerHolds` (with `TypeCorrect`, `ClosedEarned`,
  `HalfOpenRested`) and the refinement `TierImplementsGate`. `ClosedIffEarned` is not
  inductive: a breaker whose counter runs ahead of or behind the failures its callers
  saw would trip at the wrong moment. `IInv` adds that a closed breaker counts
  exactly those failures; of one that is not closed it only says that it is down with
  reason, because there the counter may lag. The refinement maps each action to a
  step of `TierGate` or to a stuttering step, with `IInv` on both ends.
* `MemoryFederationProofs`: `WritesAreAccounted`, `NearestCopyWins`, `StepsAreAllowed`
  and the statements they consist of. `IInv` is `Types`, `GlobalShown` (no global row
  is archived) and, for each client, `Shape` (an operation has the fields of its
  kind and a leg per routed tier), `Written` (a leg that landed was stored),
  `Searched` (an id a leg did not return was lacked there) and `Deleting` (only a
  row of a tier that lets it be deleted is about to be). What makes the properties
  hold is that the results of legs are history a client cannot lose: a late landing
  of one client never changes what another has gathered (`OthersSound`).
  The same module proves `AnchorKeeps`, that the federation implements
  `DurableMemory`. `DInv` adds `Numbered` (no two operations have a number), `Once`
  (a statement that may still run has not been committed, and is in one place: a leg
  or a stray) and `Rows` (every row was committed). A commit maps to the store of a
  request, a finished write to its acknowledgement, a removal to a forget, all else
  to stuttering.
* `ModelGatewayProofs`: `PoolIsSound` (of `OneAdapter` and `PoolIsOpen`), `AnswersOnce`. `IInv` is `Types`;
  `Local`, what a call has heard and was billed, from where it is; `Counted`, a close
  that is under way was counted for; `Lives`, an adapter is connected by one call and
  pooled only when it is connected; `CacheHoldsOpen`; `Shared`, before the first close
  every call uses what is pooled for its key; and `Walking`, a close has still to walk
  over adapters that are pooled. Every step of a call except a connect is of one kind
  (`Follows`), so that the pool is argued once for all of them (`FollowsKeeps`).
* `OAuthCredentialProofs`: `RenewsOnce`, `RenewableStays`, `SignOutFinal`. `IInv`
  tells why the lock is enough: it is held exactly by the task that is refreshing
  (`LockHeld`); numbers are handed out in order (`Numbered`); what is stored, and what
  is being refreshed, was not refreshed yet and has a refresh token the server takes,
  unless an answer is about to replace it (`Unrenewed`, the only part that needs that
  no answer was lost); after a sign-out nobody is refreshing (`SignedOut`); the stored
  token is not about to be stored again (`StoredOnce`); and `Spent` follows the token
  of a request until it is gone from the keyring for good (`GoneStays`). The steps are
  first sorted into six kinds (`StepKinds`).
* `McpSessionProofs`: `SessionIsSound`. `Locked`: who connects for all holds the
  connect lock and there is no session, who has sent on the shared session holds the
  call lock. `Unshared`: a private session is one task's alone. `Kept`: every
  transport is the adapter's session or has an owner. The first alone is not
  inductive, because a task that opens a session would overwrite one nobody holds.
* `ToolProofs`, first part: `TrustIsKept`, `StatusIsRight` of `ToolRegistry`. The file is torn or `Good`,
  and so is every copy a running command has loaded (`Held`), since it is that copy a
  command writes back, over whatever others wrote meanwhile. `Good` is `Vouched`
  (an active tool is in a trusted version) and `Tells`, for each server.
* `AgentRunProofs`: `GuardIsKept`, `OfferedToolRuns`. For each call, `Guarded` (one
  that asks has been cleared by the blocking rules up to the one that asks, one that
  runs by all), `Offered` (its tool is the one offered under its wire name) and
  `Live` (calls live while their run dispatches).

* `PartsProofs`: the seven modules of the memory beside the federation, `World`,
  `CardBlend`, `EvalRun` and `ChatSession`, as `Parts` composes them.
  `StoresOpenAlways`, `RowsAndVectorsAlways`, `SearchIsSoundAlways`,
  `NotesAreCurrentAlways`, `TurnsRememberedAlways`, `ReportsHoldAlways`,
  `RoutingHoldsAlways`, `BlendHoldsAlways`, `VerdictsHoldAlways`,
  `ConversationKeptAlways` and the action
  property `NothingSpoiledAlways`, for any set of parts and any constants of theirs
  that satisfy `PartsFit`, which is each module's `ConstantsFit`: types and sizes of
  the constants, and that `None` is no other value. What a component promises only
  under a condition (one operation after the other, no cancellation, an edit always
  moves the time of a note) has that condition in the property, so that the theorem
  covers the other instances too, with what then still holds. Per component:
  * `StoreOpen` (`OInv`): a connection a task is opening is its own and no adapter's
    yet; the holder of the file's write lock is the one who migrates it, and no adapter
    is connected to a file without its schema; on a file with its schema no opener has
    seen an older version. Where each adapter has one task and none is cancelled,
    `ONeat` gives, for each place a task can be in, exactly the connections that are
    open; without it nothing says that an error leaves none behind.
  * `MemoryStore` (`RInv`): `ROne` says, for each of the statements between two awaits,
    what the database has: the acknowledged rows in `db` and in `view`
    (`RKeeps`), no pinned row among those a prune has chosen (`RSpares`), whole edges in
    `db` (`RWhole`), a row for each vector but those between the two deletions
    (`RCovers`), and, where nothing fails, a vector for each row but the one that is
    being written (`RFits`). Each part is claimed under the faults it survives.
    Every statement has a lemma.
  * `VectorSearch` (`SInv`): the candidates of a leg have its scores and the rows fetched
    pass. That no row is ranked behind one it beats is arithmetic: a row that is better
    in one leg and not worse in the other has a greater fused score, for any integer
    scores, tied or not, and wherever a leg lacks it (`Weighted`). Of the scores it is
    assumed that finitely many of them have a least and a greatest.
  * `NoteFolder` (`NInv`): cached items may be stale, but one with the time of a note
    has its body (`NCurrent`), and one with the time that a scan met has a body the note
    had since (`NSince`); a scan with no edit since it began has found what is on disk
    (`NStill`), and only so its reindex leaves the links that are there. The proof found
    that the claim about the graph was too weak: it excused every moment at which another
    reindex was under way. It is now claimed from the end of a reindex that began after
    the last edit until the next edit, or until one that began before it ends.
  * `MemoryLife` (`LInv`): the ids of the entries are 1 to some `n` that is at least what
    the turns and the close owe if no write failed, the list of the session misses no more
    of them than writes failed, and nothing is more trusted than what the code gives
    out. What ages out is an episode, and one that two half-lives have passed over has,
    or three if its importance is full (25 is not below the threshold).
  * `MemoryCommands` (`CInv`) and `FederationUpkeep` (`UInv`): what a command carries
    from one step to the next still holds when it is used, where one command runs after
    the other; a leg that is done removed what it reported, and unless a prune failed none
    runs while the federation closes.
  * `World` (`WInv`): `WOne` says of a command by itself what it will write and what it
    routed: that is a whole record, a decision the rules made, written before the agent
    is loaded. Nobody changes the rules or takes a decision out of the audit meanwhile,
    so this survives any interleaving and any crash. What was read of the agents on disk
    does not: a record is torn while it is written, and an edit saves an old one over a
    deletion. `WAlone` (no file is torn but the one being written, the pool is still
    selectable, what is about to be saved is not deleted) is claimed where commands take
    turns and none is cut off (`TakeTurns`), and with it `NeverStranded`,
    `RunsSelectable` and `DeletedStays`; *Divergences* has what happens otherwise. That
    some rule is the first (`WBest`, by a least index) is why the router's `First`
    denotes one.
  * `CardBlend` (`BInv`): the properties, and that an agent that does not exist has
    nothing. The proof is about the blend of one card with up to two others: seven parts
    to three of whatever numbers, rounded, lie between the least and the greatest of
    them; and of two positions with the same pair of cards the first is listed, so that
    each tension is, once.
  * `EvalRun` (`EInv`): a case has a verdict exactly when it is done; the semaphore
    counts a finite set, which a step enlarges by one case at most; the scores of the rules
    stay in 0..1000 through an integer division (`EQuotient`), those with a judge are any; and the file of the earlier run
    is another than this one's (`EFiles`), which needs that a run does not begin in the
    second of the one before (`MinTick`).
  * `ChatSession` (`HInv`): what the user wants answered is what the conversation asks,
    prompt by prompt (`HTalk`); the session in memory is on disk unless it was cut off,
    which every submission that asks may be until it is stored, and a file that can be read
    is of its own session (`HFiles`). That a retry takes back exactly the prompt it asks
    again, and that a resumed session and a new one never share a number, are its lemmas.

  A part is an instance of one module and stays so (`PartStays`), so that a behaviour
  of `Parts` is one of a component over the variables `v1`, `v2`... The modules avoid,
  for the prover's sake, what it does not expand in an instance: cardinalities, powers and
  selections of a sequence are written as the bounded cases they are.

* `ToolProofs`, the rest: the nine modules that `ToolParts` composes.
  `FilesKeptAlways`, `ProgramsAndPagesAlways`, `CredentialsHoldAlways`,
  `CallsTranslatedAlways`, `RequestsSoundAlways` and the action property
  `NothingUntoldAlways`, for any set of parts and any constants that satisfy `ToolingFits`.
  Per component:
  * `FileTools` (`FInv`): whatever runs at the same time, what a call holds was made,
    and its copy is whole before it is installed (`FShelves`, `FCall`). Where calls follow
    one another, `FSolo` says for each place a call can be in what it may rely on: the
    destination is free once it was displaced (`FFree`); what is about to be removed is
    in the copy, up to the links a copy skips, or was asked to go (`FHeld`); and the
    workspace it began with is the one it has, with what it set aside put back
    (`FBefore`). `FWhole`, everything made is whole on some shelf, then survives every
    system call, and a crash after any, because no action empties one shelf before
    another has the entry. It is claimed of one call at a time and of trees without
    skipped links across filesystems; *Divergences* has what is lost otherwise. The
    limit of the trash is claimed for any number of calls at once.
  * `Sandbox` (`BInv`): each chunk is with the program, in the pipe, kept or dropped, and
    none is dropped before the buffer is full (`BCount`); after the clock ran out on a
    child that leads its group nothing of the group runs, and the kill of the container
    was tried (`BFlags`).
  * `WebFetch` (`WInv`): one response is held exactly while it is looked at, and one
    request was made for each hop. `HtmlText` (`HInv`): where every head is closed only the
    first open element can be a head and only the last a script, so that a count tells
    as much as the stack.
  * `Connections` (`CInv`): a command runs on the list that is on file and its
    connection keeps to its name (`CNamed`); from the moment its token is stored what it
    wrote is its own (`CDone`, `COwned`), so a command that dies there leaves a secret
    the next one of that name takes over. `ToolRegistry` (`KInv`): the copy a command
    holds is the file, and what it adds has its credential before it is listed.
  * `SignIn` (`GInv`): only the redirect of this request is exchanged (`GFlow`); a poll
    that was answered as pending saw no approval, so an approval that is there came
    after it and the next poll, if in time, hears it (`GClock`).
  * `ModelAdapters` (`AInv`): the credential of a request is that of its attempt
    (`ASent`); a refresh follows only an error of the credential and precedes any text.
  * `WireMessages` (`MInv`): in the history of a request the results of a round are what
    follows its calls, and nothing else is a result (`MShape`), which a round keeps because it
    adds both (`MLonger`) and a window of the session because it has neither. The
    messages of Anthropic's form are built in a loop over the turns. What holds after
    each turn (`MLoop`: what waits are the results since the message built last, which is
    of the turn before them; `MSame`: what was built and what waits say what the turns
    said) is shown by induction over their number: the induction theorems of the
    library take an operator, so `MInduct` takes the least number at which a statement
    fails (`WFMin`, of a set of numbers) instead. Where no result follows, the results
    that wait are all those of the calls before them (`MRun`).

  For every value of the constants, two statements need a condition that one small
  instance does not show: the trash keeps its limit unless a process dies between an
  entry and the sweep, and a soft delete keeps its entry unless the trash is set to hold
  none. Both are in the properties (`FilesKept`, `StepTells`).

Only model-checked: all liveness (`AlwaysRecovers`, every `CallsEnd`, `RequestsEnd`,
`RunsEnd`, `EverythingEnds`, `EveryTurnEnds`), which needs `ENABLED`, out of the
prover's reach.
That `probes` of `MCResilientTier` may hold two (`half_open`) and that a changed tool is
offered (`registry_offer`) are counterexamples and need no proof.

## What is abstracted

Names, texts, scores, prices, timestamps, logging, events and metrics are left out,
except where an outcome depends on them (a degraded report, a bill, the rank of a
search, the mtime of a note). In the federation ranking and truncation choose among
entries and never between two copies of one; `VectorSearch` has the ranking. An
exception is a value of an outcome. Libraries, providers, the authorization server,
MCP servers, the operating system's pipes and processes, users and editors are the
environment: they do what the code shows it expects of them, in any order, with
failure where the code handles failure.

## Not modelled

* **Observability** (`observability/`): spans, metrics and events, output only.
* **Types, context, automations**: data classes, a text file, an empty package.
* **Rendering of the command line**: a command that changes shared state is an
  action of the module of that state; prompts, tables and colours are not.
* **The embedding gateway's requests, full-text tokenizer and query text**: only
  that a row matches or does not.
* **How each sandbox backend isolates a program**, the resource limits, how an address
  is classified, the search providers: they decide by data what the models take as given.
* **Health checks** of gateway and adapters: they change one entry's health, which the
  gateway's `health` of one connection has; the sweep over all adapters is left out.
* **Assembly and extraction by text heuristics**, and the exporter's formats.
* **Two providers of one keyring entry** with a lock each, and two processes on one
  session file: nothing in the repository says what should hold there.

## Plan

Done: the modules above, and a theorem for every safety property that a run checks. What
would come next, in the order of its weight:

1. The composition of `AgentRun` with `ToolRegistry`: what is offered, from the
   registry's statuses and the adapter's own list.
2. The health sweep of the gateway, and the embedding gateway's pinning.

Run everything with `tlc -workers 2 -config <cfg> <module>` and `tlapm` on the eight
modules of proofs.
