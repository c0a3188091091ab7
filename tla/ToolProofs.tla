----------------------------- MODULE ToolProofs -----------------------------
(***************************************************************************)
(* What the tools promise, for every value of their constants: the         *)
(* registry of MCP servers, for any number of commands that overlap, crash *)
(* and write their copies over each other, and then each of the parts of   *)
(* ToolParts, by an inductive invariant of its module.                     *)
(***************************************************************************)
EXTENDS ToolRegistry, ToolParts, SequenceTheorems, WellFoundedInduction, TLAPS


Busy == [at : {"signing", "listing", "saving", "deleting"}, op : {"add", "refresh", "login", "approve", "remove"},
         s : Servers, auth : Auth, registry : Registry]

\* A tool that is not withheld was seen first, or approved, in this version.
Vouched(s, config) ==
    \A t \in Tools :
        config.tools[t].version # 0 /\ config.tools[t].status = "active"
            => <<s, t, config.tools[t].version>> \in trusted

Tells(config) == Resolvable(config) => (config.status = "changed" <=> Changed(config.tools) # {})

\* A server as a command leaves it, and a whole registry of them.
GoodServer(s, config) == config \in ServerConfig /\ Vouched(s, config) /\ Tells(config)

Good(registry) ==
    /\ registry \in Registry
    /\ \A s \in Servers : registry[s] # Absent => GoodServer(s, registry[s])

\* The copy a command loaded is as good as the file was; the server it is about
\* is in it, unless the command adds it.
Held(c) ==
    \/ c = Idle
    \/ c \in Busy /\ Good(c.registry) /\ (c.op # "add" => c.registry[c.s] # Absent)

IInv ==
    /\ remote \in [Servers -> [Tools -> 0..MaxVersion]]
    /\ file = Torn \/ Good(file)
    /\ keyring \in [Servers -> BOOLEAN]
    /\ command = [p \in Commands |-> command[p]]
    /\ \A p \in Commands : Held(command[p])
    /\ trusted \subseteq Servers \X Tools \X Versions

-----------------------------------------------------------------------------
(* Lemmas *)

\* What was good stays good: nothing is distrusted again.
LEMMA StaysGood ==
    ASSUME NEW r, Good(r), trusted \subseteq trusted'
    PROVE  file' = r => Good(file)'
BY DEF Good, GoodServer, Vouched, Tells

LEMMA StaysHeld ==
    ASSUME NEW p, Held(command[p]), command'[p] = command[p], trusted \subseteq trusted'
    PROVE  Held(command[p])'
BY DEF Held, Good, GoodServer, Vouched, Tells

\* A step of one command.
LEMMA CommandSteps ==
    ASSUME IInv, NEW p \in Commands, NEW d, command' = [command EXCEPT ![p] = d],
           Held(command[p])', file' = Torn \/ Good(file)', UNCHANGED remote,
           keyring' \in [Servers -> BOOLEAN],
           trusted \subseteq trusted', trusted' \subseteq Servers \X Tools \X Versions
    PROVE  IInv'
<1>1. \A q \in Commands : q # p => command'[q] = command[q]
  BY DEF IInv
<1>2. \A q \in Commands : Held(command[q])'
  BY <1>1, StaysHeld DEF IInv
<1>3. command' = [q \in Commands |-> command'[q]]
  BY DEF IInv
<1> QED BY <1>2, <1>3 DEF IInv

\* A server that was added or refreshed is saved into the copy of its command.
LEMMA Stored ==
    ASSUME NEW r, Good(r), NEW s \in Servers, NEW config, GoodServer(s, config)',
           config \in ServerConfig, trusted \subseteq trusted', file' = [r EXCEPT ![s] = config]
    PROVE  Good(file)'
<1>1. file' \in Registry
  BY DEF Good, Registry
<1>2. ASSUME NEW q \in Servers, file'[q] # Absent
      PROVE  GoodServer(q, file[q])'
  <2>1. CASE q = s
    <3>1. file'[q] = config
      BY <2>1 DEF Good, Registry
    <3> QED BY <2>1, <3>1 DEF GoodServer, Vouched, Tells
  <2>2. CASE q # s
    <3>1. file'[q] = r[q] /\ GoodServer(q, r[q])
      BY <1>2, <2>2 DEF Good, Registry
    <3> QED BY <3>1 DEF GoodServer, Vouched, Tells
  <2> QED BY <2>1, <2>2
<1> QED BY <1>1, <1>2 DEF Good

\* The server a command is about, new or as the copy has it.
LEMMA GivenType ==
    ASSUME IInv, NEW p \in Commands, command[p] # Idle
    PROVE  /\ command[p] \in Busy /\ Good(command[p].registry) /\ command[p].s \in Servers
           /\ Given(p).tools \in Listing /\ Given(p).auth \in Auth
           /\ Given(p) = [status |-> Given(p).status, tools |-> Given(p).tools, auth |-> Given(p).auth]
           /\ Vouched(command[p].s, Given(p))
           /\ command[p].op # "add" => GoodServer(command[p].s, Given(p))
<1>1. command[p] \in Busy /\ Good(command[p].registry) /\ command[p].s \in Servers
      /\ (command[p].op # "add" => command[p].registry[command[p].s] # Absent)
  BY DEF IInv, Held, Busy
<1>2. CASE command[p].op = "add"
  <2>1. NoTools \in Listing
    BY RegistryAssumption DEF NoTools, Listing
  <2>2. Given(p) = [status |-> "disconnected", tools |-> NoTools, auth |-> command[p].auth]
    BY <1>2 DEF Given
  <2>3. command[p].auth \in Auth
    BY <1>1 DEF Busy
  <2> QED BY <1>1, <1>2, <2>1, <2>2, <2>3 DEF Vouched, NoTools
<1>3. CASE command[p].op # "add"
  <2>1. Given(p) = command[p].registry[command[p].s] /\ GoodServer(command[p].s, Given(p))
    BY <1>1, <1>3 DEF Given, Good
  <2> QED BY <1>1, <1>3, <2>1 DEF GoodServer, ServerConfig
<1> QED BY <1>2, <1>3

-----------------------------------------------------------------------------
(* The commands *)

\* A command that ends or is killed, or does not look at its copy.
LEMMA Idles ==
    ASSUME IInv, NEW p \in Commands, command' = [command EXCEPT ![p] = Idle],
           file' = Torn \/ Good(file)', UNCHANGED remote, keyring' \in [Servers -> BOOLEAN],
           trusted \subseteq trusted', trusted' \subseteq Servers \X Tools \X Versions
    PROVE  IInv'
<1>1. command'[p] = Idle
  BY DEF IInv
<1>2. Held(command[p])'
  BY <1>1 DEF Held, Idle
<1> QED BY <1>2, CommandSteps

\* A command begins with a copy of the file.
LEMMA Begun ==
    ASSUME IInv, NEW p \in Commands, NEW at \in {"signing", "listing", "saving", "deleting"},
           NEW op \in {"add", "refresh", "login", "approve", "remove"}, NEW s \in Servers, NEW auth \in Auth,
           file # Torn, op # "add" => file[s] # Absent, Begins(p, at, op, s, auth),
           UNCHANGED <<remote, file, trusted>>, keyring' \in [Servers -> BOOLEAN]
    PROVE  IInv'
<1>1. PICK d : d = [at |-> at, op |-> op, s |-> s, auth |-> auth, registry |-> file]
  OBVIOUS
<1>2. command' = [command EXCEPT ![p] = d]
  BY <1>1 DEF Begins
<1>3. Good(file) /\ Good(file)'
  BY StaysGood DEF IInv
<1>4. d \in Busy /\ d.registry = file /\ d.op = op /\ d.s = s
  BY <1>1, <1>3 DEF Busy, Good
<1>5. command'[p] = d
  BY <1>2 DEF IInv
<1>6. Good(command[p].registry)'
  BY <1>3, <1>4, <1>5 DEF Good, GoodServer, Vouched, Tells
<1>7. Held(command[p])'
  BY <1>4, <1>5, <1>6 DEF Held
<1> QED BY <1>2, <1>3, <1>7, CommandSteps DEF IInv

LEMMA Begins5 ==
    ASSUME IInv, NEW p \in Commands, NEW s \in Servers,
           Add(p, s) \/ Refresh(p, s) \/ Login(p, s) \/ Approve(p, s) \/ Remove(p, s)
    PROVE  IInv'
<1>1. file # Torn /\ Good(file) /\ UNCHANGED <<remote, file, trusted>>
  BY DEF Add, Refresh, Login, Approve, Remove, Ready, IInv
<1>2. ASSUME Add(p, s)
      PROVE  IInv'
  <2>1. PICK at \in {"signing", "listing"}, auth \in Auth :
          Begins(p, at, "add", s, auth) /\ keyring' \in [Servers -> BOOLEAN]
    BY <1>2 DEF Add, Auth, IInv
  <2> QED BY <1>1, <2>1, Begun
<1>3. ASSUME ~Add(p, s)
      PROVE  IInv'
  <2>1. file[s] # Absent /\ file[s].auth \in Auth /\ keyring' = keyring
    BY <1>1, <1>3 DEF Refresh, Login, Approve, Remove, Good, GoodServer, ServerConfig
  <2>2. PICK at \in {"signing", "listing", "saving"}, op \in {"refresh", "login", "approve", "remove"}, auth \in Auth :
          Begins(p, at, op, s, auth)
    BY <1>3, <2>1 DEF Refresh, Login, Approve, Remove
  <2> QED BY <1>1, <2>1, <2>2, Begun DEF IInv
<1> QED BY <1>2, <1>3

\* A sign-in that succeeds stores its token and goes on with its copy.
LEMMA SignsIn ==
    ASSUME IInv, NEW p \in Commands, SignedIn(p)
    PROVE  IInv'
<1>1. /\ command[p].at = "signing" /\ UNCHANGED <<remote, file, trusted>>
      /\ command' = [command EXCEPT ![p] = [command[p] EXCEPT !.at = "listing"]]
  BY Zenon DEF SignedIn
<1>2. command[p] # Idle /\ keyring' \in [Servers -> BOOLEAN]
  <2>1. command[p] # Idle
    BY <1>1 DEF Idle
  <2>2. keyring' = [keyring EXCEPT ![command[p].s] = TRUE]
    BY Zenon DEF SignedIn
  <2>3. keyring \in [Servers -> BOOLEAN]
    BY DEF IInv
  <2> QED BY <2>1, <2>2, <2>3
<1>3. PICK d : d = [command[p] EXCEPT !.at = "listing"]
  OBVIOUS
<1>4. command[p] \in Busy /\ Held(command[p])
  BY <1>2, GivenType DEF IInv
<1>5. d \in Busy /\ d.registry = command[p].registry /\ d.op = command[p].op /\ d.s = command[p].s
  BY <1>3, <1>4 DEF Busy
<1>6. command'[p] = d /\ command' = [command EXCEPT ![p] = d]
  BY <1>1, <1>3 DEF IInv
<1>7. Held(command[p])'
  <2>1. Good(command[p].registry) /\ (command[p].op # "add" => command[p].registry[command[p].s] # Absent)
    BY <1>2, <1>4 DEF Held
  <2>2. Good(command[p].registry)'
    BY <1>1, <1>5, <1>6, <2>1 DEF Good, GoodServer, Vouched, Tells
  <2> QED BY <1>5, <1>6, <2>1, <2>2 DEF Held
<1>8. file' = Torn \/ Good(file)'
  BY <1>1, StaysGood DEF IInv
<1> QED BY <1>1, <1>2, <1>6, <1>7, <1>8, CommandSteps DEF IInv

\* A command saves a server into its copy and ends.
LEMMA Saved ==
    ASSUME IInv, NEW p \in Commands, command[p] # Idle, NEW config \in ServerConfig, Saves(p, config),
           Vouched(command[p].s, config), Tells(config), UNCHANGED <<remote, keyring, trusted>>
    PROVE  IInv'
<1>0. Good(command[p].registry) /\ command[p].s \in Servers
  BY GivenType
<1>1. PICK r, s : r = command[p].registry /\ s = command[p].s
  OBVIOUS
<1>2. GoodServer(s, config)'
  BY <1>1 DEF GoodServer, Vouched, Tells
<1>3. file' = [r EXCEPT ![s] = config]
  BY <1>1 DEF Saves
<1>4. Good(file)'
  BY <1>0, <1>1, <1>2, <1>3, Stored
<1> QED BY <1>4, Idles DEF Saves, IInv

\* A discovery withholds what has changed, and vouches for what it sees first.
LEMMA Discovers ==
    ASSUME IInv, NEW p \in Commands, Listed(p)
    PROVE  IInv'
<1>1. command[p].at = "listing" /\ command[p] # Idle
  BY DEF Listed, Idle
<1>0. /\ Good(command[p].registry) /\ command[p].s \in Servers
      /\ Given(p).tools \in Listing /\ Given(p).auth \in Auth /\ Vouched(command[p].s, Given(p))
      /\ Given(p) = [status |-> Given(p).status, tools |-> Given(p).tools, auth |-> Given(p).auth]
      /\ remote[command[p].s] \in [Tools -> 0..MaxVersion]
  BY <1>1, GivenType DEF IInv
<1>2. PICK given, s, r, fresh :
        given = Given(p) /\ s = command[p].s /\ r = command[p].registry /\ fresh = remote[command[p].s]
  OBVIOUS
<1>3a. /\ s \in Servers /\ Good(r) /\ given.tools \in Listing /\ given.auth \in Auth /\ Vouched(s, given)
      /\ given = [status |-> given.status, tools |-> given.tools, auth |-> given.auth]
      /\ fresh \in [Tools -> 0..MaxVersion]
  BY <1>0, <1>2
<1>3. PICK tools, config : tools = Diff(given.tools, fresh) /\ config = Discovered(given, fresh)
  OBVIOUS
<1>4. tools \in Listing
  BY <1>2, <1>3a, <1>3, RegistryAssumption DEF Diff, Listing
<1>5. /\ trusted' = trusted \cup {<<s, t, fresh[t]>> : t \in {u \in Tools : fresh[u] # 0 /\ given.tools[u].version = 0}}
      /\ file' = [r EXCEPT ![s] = config] /\ command' = [command EXCEPT ![p] = Idle]
      /\ UNCHANGED <<remote, keyring>>
  BY <1>2, <1>3a, <1>3 DEF Listed, Saves
<1>6. config = [status |-> IF Changed(tools) = {} THEN "connected" ELSE "changed", tools |-> tools, auth |-> given.auth]
  <2> DEFINE whole == [status |-> given.status, tools |-> given.tools, auth |-> given.auth]
             status == IF Changed(tools) = {} THEN "connected" ELSE "changed"
  <2>1. config = [[whole EXCEPT !.tools = tools] EXCEPT !.status = status]
    BY <1>2, <1>3a, <1>3, Zenon DEF Discovered
  <2> HIDE DEF status
  <2>2. [whole EXCEPT !.tools = tools] = [status |-> given.status, tools |-> tools, auth |-> given.auth]
    OBVIOUS
  <2>3. [[status |-> given.status, tools |-> tools, auth |-> given.auth] EXCEPT !.status = status]
        = [status |-> status, tools |-> tools, auth |-> given.auth]
    OBVIOUS
  <2> QED BY <2>1, <2>2, <2>3 DEF status
<1>7. config \in ServerConfig /\ config.tools = tools /\ Tells(config)
  BY <1>2, <1>3a, <1>4, <1>6 DEF ServerConfig, Tells
<1>8. ASSUME NEW t \in Tools, tools[t].version # 0, tools[t].status = "active"
      PROVE  <<s, t, tools[t].version>> \in trusted'
  <2>1. tools[t].version = fresh[t] /\ fresh[t] # 0
        /\ (given.tools[t].version = 0
            \/ (given.tools[t].version = fresh[t] /\ given.tools[t].status # "changed"))
    BY <1>3, <1>8 DEF Diff, Withheld
  <2>2. given.tools[t].status \in {"active", "changed"}
    BY <1>2, <1>3a DEF Listing
  <2>3. CASE given.tools[t].version = 0
    BY <1>5, <2>1, <2>3
  <2>4. CASE given.tools[t].version = fresh[t] /\ given.tools[t].status # "changed"
    BY <1>2, <1>3a, <1>5, <2>1, <2>2, <2>4 DEF Vouched
  <2> QED BY <2>1, <2>3, <2>4
<1>9. trusted \subseteq trusted' /\ trusted' \subseteq Servers \X Tools \X Versions
  <2>1. \A t \in Tools : fresh[t] # 0 => fresh[t] \in Versions
    BY <1>2, <1>3a, RegistryAssumption DEF Versions
  <2> QED BY <1>3a, <1>5, <2>1 DEF IInv
<1>10. GoodServer(s, config)'
  BY <1>7, <1>8 DEF GoodServer, Vouched, Tells
<1>11. Good(file)'
  BY <1>2, <1>3a, <1>5, <1>7, <1>9, <1>10, Stored
<1> QED BY <1>5, <1>9, <1>11, Idles DEF IInv

\* A discovery that fails leaves the tools and a status that resolves none.
LEMMA FailsToList ==
    ASSUME IInv, NEW p \in Commands, ListFails(p)
    PROVE  IInv'
<1>1. command[p].at = "listing" /\ command[p] # Idle /\ UNCHANGED <<remote, keyring, trusted>>
  BY DEF ListFails, Idle
<1>2. PICK given, config : given = Given(p) /\ config = Unreached(given)
  OBVIOUS
<1>3. /\ given.tools \in Listing /\ given.auth \in Auth /\ Vouched(command[p].s, given)
      /\ given = [status |-> given.status, tools |-> given.tools, auth |-> given.auth]
  BY <1>1, <1>2, GivenType
<1>4. config = [status |-> "unreachable", tools |-> given.tools, auth |-> given.auth]
  BY <1>2, <1>3 DEF Unreached
<1>5. config \in ServerConfig /\ Vouched(command[p].s, config) /\ Tells(config)
  BY <1>3, <1>4 DEF ServerConfig, Vouched, Tells, Resolvable
<1>6. Saves(p, config)
  BY <1>2 DEF ListFails
<1> QED BY <1>1, <1>5, <1>6, Saved

\* An approval vouches for the versions in the copy, and recomputes the status.
LEMMA Approves ==
    ASSUME IInv, NEW p \in Commands, SaveApproval(p)
    PROVE  IInv'
<1>1. command[p].op # "add" /\ command[p] # Idle /\ UNCHANGED <<remote, keyring>>
  BY DEF SaveApproval, Idle
<1>0. Good(command[p].registry) /\ command[p].s \in Servers /\ GoodServer(command[p].s, Given(p))
  BY <1>1, GivenType
<1>2. PICK given, s, r : given = Given(p) /\ s = command[p].s /\ r = command[p].registry
  OBVIOUS
<1>3a. s \in Servers /\ Good(r) /\ GoodServer(s, given)
  BY <1>0, <1>2
<1>3. PICK wanted \in SUBSET Changed(given.tools) :
        Saves(p, Approved(given, wanted))
        /\ trusted' = trusted \cup {<<s, t, given.tools[t].version>> : t \in wanted}
  BY <1>2, <1>3a DEF SaveApproval
<1>4. PICK tools, config :
        /\ tools = [t \in Tools |->
                      IF t \in wanted THEN [given.tools[t] EXCEPT !.status = "active"] ELSE given.tools[t]]
        /\ config = Approved(given, wanted)
  OBVIOUS
<1>5. given.tools \in Listing /\ given.auth \in Auth /\ given.status \in {"connected", "changed", "unreachable"}
      /\ given = [status |-> given.status, tools |-> given.tools, auth |-> given.auth]
  BY <1>2, <1>3a DEF GoodServer, ServerConfig
<1>6. \A t \in Tools : tools[t] \in [version : 0..MaxVersion, status : {"active", "changed"}]
                       /\ tools[t].version = given.tools[t].version
                       /\ tools[t].status = IF t \in wanted THEN "active" ELSE given.tools[t].status
  BY <1>4, <1>5 DEF Listing
<1>7. tools \in Listing
  BY <1>4, <1>6 DEF Listing
<1>8. config = [status |-> StatusAfter(given, tools), tools |-> tools, auth |-> given.auth]
  <2> DEFINE whole == [status |-> given.status, tools |-> given.tools, auth |-> given.auth]
  <2>1. config = [[whole EXCEPT !.tools = tools] EXCEPT !.status = StatusAfter(given, tools)]
    BY <1>4, <1>5, Zenon DEF Approved
  <2>2. [whole EXCEPT !.tools = tools] = [status |-> given.status, tools |-> tools, auth |-> given.auth]
    OBVIOUS
  <2>3. [[status |-> given.status, tools |-> tools, auth |-> given.auth] EXCEPT !.status = StatusAfter(given, tools)]
        = [status |-> StatusAfter(given, tools), tools |-> tools, auth |-> given.auth]
    OBVIOUS
  <2> QED BY <2>1, <2>2, <2>3
<1>9. config \in ServerConfig /\ config.tools = tools /\ Tells(config)
  BY <1>5, <1>7, <1>8 DEF ServerConfig, Tells, StatusAfter, Resolvable
<1>10. ASSUME NEW t \in Tools, tools[t].version # 0, tools[t].status = "active"
       PROVE  <<s, t, tools[t].version>> \in trusted'
  BY <1>2, <1>3a, <1>3, <1>6, <1>10 DEF GoodServer, Vouched
<1>11. trusted \subseteq trusted' /\ trusted' \subseteq Servers \X Tools \X Versions
  <2>1. \A t \in wanted : t \in Tools /\ given.tools[t].version \in Versions
    BY <1>5, RegistryAssumption DEF Changed, Listing, Versions
  <2> QED BY <1>3a, <1>3, <2>1 DEF IInv
<1>12. GoodServer(s, config)'
  BY <1>9, <1>10 DEF GoodServer, Vouched, Tells
<1>13. file' = [r EXCEPT ![s] = config] /\ command' = [command EXCEPT ![p] = Idle]
  BY <1>2, <1>3a, <1>3, <1>4 DEF Saves
<1>14. Good(file)'
  BY <1>2, <1>3a, <1>9, <1>11, <1>12, <1>13, Stored
<1> QED BY <1>1, <1>11, <1>13, <1>14, Idles DEF IInv

\* A removal takes its server out of its copy; the credential goes later.
LEMMA Removes ==
    ASSUME IInv, NEW p \in Commands, Removed(p)
    PROVE  IInv'
<1>1. command[p].op = "remove" /\ command[p] # Idle /\ UNCHANGED <<remote, keyring, trusted>>
  BY DEF Removed, SaveRemoval, Idle
<1>2. PICK s, r : s = command[p].s /\ r = command[p].registry
  OBVIOUS
<1>2a. s \in Servers /\ Good(r)
  BY <1>1, <1>2, GivenType
<1>3. file' = [r EXCEPT ![s] = Absent]
  BY <1>2 DEF Removed, SaveRemoval
<1>4. Good(file)'
  BY <1>1, <1>2a, <1>3 DEF Good, Registry, GoodServer, Vouched, Tells
<1>5. \/ command' = [command EXCEPT ![p] = Idle]
      \/ command' = [command EXCEPT ![p] = [command[p] EXCEPT !.at = "deleting"]]
  BY Zenon DEF Removed, SaveRemoval
<1>6. CASE command' = [command EXCEPT ![p] = Idle]
  BY <1>1, <1>4, <1>6, Idles DEF IInv
<1>7. CASE command' = [command EXCEPT ![p] = [command[p] EXCEPT !.at = "deleting"]]
  <2>1. PICK d : d = [command[p] EXCEPT !.at = "deleting"]
    OBVIOUS
  <2>2. command[p] \in Busy /\ Held(command[p])
    BY <1>1, GivenType DEF IInv
  <2>3. d \in Busy /\ d.registry = command[p].registry /\ d.op = command[p].op /\ d.s = command[p].s
    BY <2>1, <2>2 DEF Busy
  <2>4. command'[p] = d /\ command' = [command EXCEPT ![p] = d]
    BY <1>7, <2>1 DEF IInv
  <2>5. Held(command[p])'
    BY <1>1, <2>2, <2>3, <2>4 DEF Held, Good, GoodServer, Vouched, Tells
  <2> QED BY <1>1, <1>4, <2>4, <2>5, CommandSteps DEF IInv
<1> QED BY <1>5, <1>6, <1>7

\* The rest leaves the file alone, or half of it.
LEMMA Others ==
    ASSUME IInv, NEW p \in Commands, SignInFails(p) \/ DeleteCredential(p) \/ Crash(p)
    PROVE  IInv'
<1>1. command' = [command EXCEPT ![p] = Idle] /\ UNCHANGED <<remote, trusted>>
  BY DEF SignInFails, DeleteCredential, Crash
<1>2. file' = Torn \/ file' = file
  BY DEF SignInFails, DeleteCredential, Crash
<1>3. file' = Torn \/ Good(file)'
  BY <1>1, <1>2, StaysGood DEF IInv
<1>4. keyring' \in [Servers -> BOOLEAN]
  BY DEF SignInFails, DeleteCredential, Crash, IInv
<1> QED BY <1>1, <1>3, <1>4, Idles DEF IInv

\* What a server offers is nobody's copy.
LEMMA ServerOffers ==
    ASSUME IInv, NEW s \in Servers, NEW t \in Tools, NEW v \in 0..MaxVersion, Offers(s, t, v)
    PROVE  IInv'
<1>1. UNCHANGED <<file, keyring, command, trusted>>
  BY DEF Offers
<1>2. remote' = [remote EXCEPT ![s] = [remote[s] EXCEPT ![t] = v]]
  BY Zenon DEF Offers
<1>3. remote' \in [Servers -> [Tools -> 0..MaxVersion]]
  BY <1>2 DEF IInv
<1>4. file' = Torn \/ Good(file)'
  BY <1>1, StaysGood DEF IInv
<1>5. \A p \in Commands : Held(command[p])'
  BY <1>1, StaysHeld DEF IInv
<1> QED BY <1>1, <1>3, <1>4, <1>5 DEF IInv

-----------------------------------------------------------------------------
(* The invariant *)

LEMMA Inductive == Spec => []IInv
<1>1. Init => IInv
  <2> SUFFICES ASSUME Init
               PROVE  IInv
    OBVIOUS
  <2>1. Good(file)
    BY DEF Init, Empty, Good, Registry
  <2>2. remote \in [Servers -> [Tools -> 0..MaxVersion]]
    BY RegistryAssumption DEF Init
  <2> QED BY <2>1, <2>2 DEF Init, IInv, Held
<1>2. IInv /\ [Next]_vars => IInv'
  <2> SUFFICES ASSUME IInv, [Next]_vars
               PROVE  IInv'
    OBVIOUS
  <2>1. CASE UNCHANGED vars
    <3>1. UNCHANGED <<remote, file, keyring, command, trusted>>
      BY <2>1 DEF vars
    <3>2. (file' = Torn \/ Good(file)') /\ \A p \in Commands : Held(command[p])'
      BY <3>1, StaysGood, StaysHeld DEF IInv
    <3> QED BY <3>1, <3>2 DEF IInv
  <2>2. CASE Next
    BY <2>2, Begins5, SignsIn, Discovers, FailsToList, Approves, Removes, Others, ServerOffers DEF Next
  <2> QED BY <2>1, <2>2
<1> QED BY <1>1, <1>2, PTL DEF Spec

-----------------------------------------------------------------------------
(* What follows *)

\* The file is whole or torn, never of another form (the registry's load and
\* save).
THEOREM TypeCorrect == Spec => []TypeOK
<1>1. IInv => TypeOK
  BY DEF IInv, Good, Held, Busy, Command, TypeOK
<1> QED BY <1>1, Inductive, PTL

\* However commands overlap and crash, an agent that loads the file resolves
\* only tools in a version that was seen first or approved (diff_discovered,
\* approve, resolve).
THEOREM NothingSlipsIn == Spec => []OnlyTrusted
<1>1. IInv => OnlyTrusted
  BY DEF IInv, Good, GoodServer, Vouched, Resolved, OnlyTrusted
<1> QED BY <1>1, Inductive, PTL

\* The status of a server that can be resolved tells whether a tool of it is
\* withheld (discover, approve).
THEOREM StatusIsRight == Spec => []StatusTells
<1>1. IInv => StatusTells
  BY DEF IInv, Good, GoodServer, Tells, StatusTells
<1> QED BY <1>1, Inductive, PTL

\* The file is whole or torn, and resolves only what was seen first or approved
\* (McpRegistry).
THEOREM TrustIsKept == Spec => []TrustHolds
BY TypeCorrect, NothingSlipsIn, PTL DEF TrustHolds

-----------------------------------------------------------------------------
(***************************************************************************)
(* ModelAdapters.  The credential of a request is that of its attempt, a   *)
(* call is refreshed only on an error of the credential, before any text,  *)
(* and a response is open only while it is read.                           *)
(***************************************************************************)

adapter == v1
credKind == v2
streams == v3
place == v4
attempt == v5
cred == v6
tokens == v7
response == v8
text == v9
complete == v10
cause == v11
outcome == v12
USE DEF adapter, credKind, streams, place, attempt, cred, tokens, response, text, complete, cause, outcome

\* What was sent with the requests made so far.
ASent ==
    /\ cred = attempt
    /\ place = "token" => Len(tokens) = attempt
    /\ place \in {"sent", "reading", "reauth"} => Len(tokens) = attempt + 1
    /\ Len(tokens) <= attempt + 1
    /\ Len(tokens) > 0 => tokens[1] = 0
    /\ Len(tokens) = 2 => tokens[2] = 1

\* What a call under way has met: nothing, or an error of the credential.
AUnderWay(c) ==
    /\ place # "over" =>
         outcome = "none" /\ (cause # "none" => cause \in Calling(c)!Status /\ Calling(c)!Translate(cause) = "Auth")
    /\ place \in {"token", "sent", "reauth"} => text = <<>>
    /\ place = "reauth" => attempt = 0 /\ cause # "none"
    /\ response = "open" => place = "reading"

AInv(c) == Calling(c)!CallHolds /\ ASent /\ AUnderWay(c)

LEMMA ATranslated ==
    ASSUME NEW c, NEW e \in Calling(c)!Causes
    PROVE  /\ Calling(c)!Translate(e) \in Calling(c)!Errors
           /\ Calling(c)!Translate(e) = "Auth" => e \in Calling(c)!Status /\ e \notin Calling(c)!Retryable
           /\ adapter \notin Calling(c)!Library /\ e = "timeout" => Calling(c)!Translate(e) = "Transient"
           /\ e \in Calling(c)!Retryable \ {"reset", "stalled", "dropped"} =>
                Calling(c)!Translate(e) \in {"Transient", "Unavailable"}
BY DEF Calling!Translate, Calling!OfStatus, Calling!Causes, Calling!Errors, Calling!Status, Calling!Retryable,
       Calling!Lost, Calling!Torn, Calling!Library

LEMMA AInit == ASSUME NEW c, Calling(c)!ConstantsFit, Calling(c)!Init PROVE AInv(c)
<1>1. credKind \in {"none", "key", "oauth"}
  BY DEF Calling!Init, Calling!ConstantsFit
<1>2. /\ text = <<>> /\ tokens = <<>> /\ place = "token" /\ attempt = 0 /\ cred = 0
      /\ response = "none" /\ cause = "none" /\ outcome = "none" /\ adapter \in c.Kinds
  BY DEF Calling!Init
<1>3. Calling(c)!TypeOK
  <2>1. c.MaxText \in Nat /\ complete \in BOOLEAN /\ streams \in BOOLEAN
    BY DEF Calling!Init, Calling!ConstantsFit
  <2>2. text \in Seq(0..1) /\ tokens \in Seq(0..1) /\ Len(text) = 0 /\ Len(tokens) = 0
    BY <1>2
  <2> QED BY <1>1, <1>2, <2>1, <2>2 DEF Calling!TypeOK, Calling!Causes
<1>4. Calling(c)!Released /\ Calling(c)!RetryIsFresh
  BY <1>2 DEF Calling!Released, Calling!RetryIsFresh
<1>5. Calling(c)!ErrorsSurface /\ Calling(c)!SlowIsNotDown /\ Calling(c)!RetryableIsRetried
  BY <1>2 DEF Calling!ErrorsSurface, Calling!SlowIsNotDown, Calling!RetryableIsRetried
<1>6. ASent /\ AUnderWay(c)
  <2>1. Len(tokens) = 0
    BY <1>2
  <2>2. ASent
    BY <1>2, <2>1 DEF ASent
  <2>3. AUnderWay(c)
    BY <1>2 DEF AUnderWay
  <2> QED BY <2>2, <2>3
<1> QED BY <1>3, <1>4, <1>5, <1>6 DEF AInv, Calling!CallHolds

\* A call that fails, on an error that a connection which is not lost can give.
LEMMA AFails ==
    ASSUME NEW c, AInv(c), NEW e \in Calling(c)!Causes \ {"none"}, Calling(c)!Fail(e), place \in {"sent", "reading"},
           ~c.Drops => e \notin {"reset", "stalled", "dropped"},
           UNCHANGED <<adapter, credKind, streams, attempt, cred, tokens, text, complete>>
    PROVE  AInv(c)'
<1> USE DEF AInv, Calling!CallHolds
<1>1. /\ Calling(c)!Translate(e) \in Calling(c)!Errors
      /\ Calling(c)!Translate(e) = "Auth" => e \in Calling(c)!Status /\ e \notin Calling(c)!Retryable
      /\ adapter \notin Calling(c)!Library /\ e = "timeout" => Calling(c)!Translate(e) = "Transient"
      /\ e \in Calling(c)!Retryable \ {"reset", "stalled", "dropped"} =>
           Calling(c)!Translate(e) \in {"Transient", "Unavailable"}
  BY ATranslated
<1>2. cause' = e /\ response' \in {"none", "closed"}
  BY DEF Calling!Fail, Calling!Close, Calling!TypeOK
<1>3. \/ place' = "reauth" /\ outcome' = outcome /\ attempt = 0 /\ text = <<>> /\ Calling(c)!Translate(e) = "Auth"
      \/ place' = "over" /\ outcome' = Calling(c)!Translate(e)
  BY DEF Calling!Fail, Calling!MayReauth, Calling!MayHelp, Calling!Over
<1>4. Calling(c)!TypeOK'
  BY <1>1, <1>2, <1>3 DEF Calling!TypeOK
<1>5. ASent'
  BY <1>3 DEF ASent
<1>6. Calling(c)!Translate(e)' = Calling(c)!Translate(e)
  BY DEF Calling!Translate, Calling!OfStatus
<1>7. AUnderWay(c)'
  BY <1>1, <1>2, <1>3, <1>6 DEF AUnderWay
<1>8. Calling(c)!Released' /\ Calling(c)!RetryIsFresh'
  BY <1>2 DEF Calling!Released, Calling!RetryIsFresh
<1>9. outcome' # "done"
  BY <1>1, <1>3 DEF AUnderWay, Calling!Errors
<1>10. adapter \notin Calling(c)!Library => Calling(c)!SlowIsNotDown'
  BY <1>1, <1>2, <1>3 DEF Calling!SlowIsNotDown, AUnderWay
<1>11. ~c.Drops => Calling(c)!RetryableIsRetried'
  BY <1>1, <1>2, <1>3 DEF Calling!RetryableIsRetried
<1> QED BY <1>4, <1>5, <1>7, <1>8, <1>9, <1>10, <1>11 DEF Calling!ErrorsSurface

\* A step that keeps what a call has sent and met.
LEMMA ALike ==
    ASSUME NEW c, adapter' = adapter
    PROVE  \A e : Calling(c)!Translate(e)' = Calling(c)!Translate(e)
BY DEF Calling!Translate, Calling!OfStatus

LEMMA ASends == ASSUME NEW c, AInv(c), Calling(c)!Send PROVE AInv(c)'
<1> USE DEF AInv, Calling!CallHolds
<1>1. /\ tokens' = Append(tokens, cred) /\ place' = "sent" /\ place = "token"
      /\ UNCHANGED <<adapter, credKind, streams, attempt, cred, response, text, complete, cause, outcome>>
  BY DEF Calling!Send, Calling!call
<1>2. tokens \in Seq(0..1) /\ cred \in 0..1 /\ attempt \in 0..1 /\ Len(tokens) = attempt /\ cred = attempt
  BY <1>1 DEF ASent, Calling!TypeOK
<1>3. tokens' \in Seq(0..1) /\ Len(tokens') = attempt + 1 /\ tokens'[attempt + 1] = attempt
      /\ (attempt = 1 => tokens'[1] = tokens[1])
  BY <1>1, <1>2
<1>4. ASent'
  BY <1>1, <1>2, <1>3 DEF ASent
<1>5. Calling(c)!TypeOK'
  BY <1>1, <1>2, <1>3 DEF Calling!TypeOK
<1>6. AUnderWay(c)'
  BY <1>1, ALike DEF AUnderWay
<1>7. Calling(c)!Released'
  BY <1>1 DEF Calling!Released
<1>8. Calling(c)!RetryIsFresh'
  BY <1>4 DEF Calling!RetryIsFresh, ASent
<1>9. outcome' = "none" /\ place' = "sent"
  BY <1>1 DEF AUnderWay
<1> QED BY <1>4, <1>5, <1>6, <1>7, <1>8, <1>9
        DEF Calling!ErrorsSurface, Calling!SlowIsNotDown, Calling!RetryableIsRetried

\* A call that ends otherwise than by failing, or goes on.
LEMMA AEnds ==
    ASSUME NEW c, AInv(c), adapter' = adapter, credKind' = credKind, streams' = streams,
           attempt' = attempt, cred' = cred, tokens' = tokens, response' \in {"none", "closed"},
           place # "over", place' = "over",
           complete' \in BOOLEAN, text' \in Seq(0..1), Len(text') <= c.MaxText,
           cause' \in {cause, "signed_out", "garbled", "told", "cut"},
           outcome' \in {"raw", "done", "abandoned", "Auth"},
           outcome' = "done" /\ ~complete' =>
             cause' \in (IF adapter \in Calling(c)!Library THEN {"cut"} ELSE {"cut", "told"})
    PROVE  AInv(c)'
<1> USE DEF AInv, Calling!CallHolds
<1>1. ASent'
  BY DEF ASent
<1>2. AUnderWay(c)'
  BY DEF AUnderWay
<1>3. cause' \notin Calling(c)!Retryable /\ cause' # "timeout" /\ cause' \in Calling(c)!Causes
  <2>1. cause \notin Calling(c)!Retryable /\ cause # "timeout"
    <3>1. CASE cause = "none"
      BY <3>1 DEF Calling!Retryable, Calling!Lost, Calling!Torn
    <3>2. CASE cause # "none"
      <4>1. cause \in Calling(c)!Causes /\ cause \in Calling(c)!Status /\ Calling(c)!Translate(cause) = "Auth"
        BY <3>2 DEF AUnderWay, Calling!TypeOK
      <4>2. cause \notin Calling(c)!Retryable
        BY <4>1, ATranslated
      <4> QED BY <4>1, <4>2 DEF Calling!Status
    <3> QED BY <3>1, <3>2
  <2>2. /\ "none" \notin Calling(c)!Retryable
        /\ {"signed_out", "garbled", "told", "cut"} \cap Calling(c)!Retryable = {}
        /\ {"signed_out", "garbled", "told", "cut"} \subseteq Calling(c)!Causes
    BY DEF Calling!Retryable, Calling!Lost, Calling!Torn, Calling!Causes
  <2> QED BY <2>1, <2>2 DEF Calling!TypeOK
<1>4. outcome' \in Calling(c)!Errors \cup {"done", "abandoned"}
  BY DEF Calling!Errors
<1>5. Calling(c)!TypeOK'
  BY <1>3, <1>4 DEF Calling!TypeOK
<1>6. Calling(c)!Released' /\ Calling(c)!RetryIsFresh'
  BY DEF Calling!Released, Calling!RetryIsFresh
<1> QED BY <1>1, <1>2, <1>3, <1>5, <1>6 DEF Calling!ErrorsSurface, Calling!SlowIsNotDown, Calling!RetryableIsRetried

\* A refreshed credential is sent once.
LEMMA AReauths == ASSUME NEW c, AInv(c), Calling(c)!Reauth PROVE AInv(c)'
<1> USE DEF AInv, Calling!CallHolds
<1>1. /\ place = "reauth" /\ attempt = 0 /\ cred = 0 /\ response # "open" /\ text = <<>> /\ outcome = "none"
      /\ cause # "none"
      /\ UNCHANGED <<adapter, credKind, streams, tokens, response, text, complete, cause>>
  BY DEF Calling!Reauth, Calling!call, ASent, AUnderWay
<1>2. CASE cred' = cred + 1 /\ attempt' = 1 /\ place' = "token" /\ UNCHANGED outcome
  <2>1. cred' = 1
    BY <1>1, <1>2
  <2>2. ASent'
    BY <1>1, <1>2, <2>1 DEF ASent
  <2>3. AUnderWay(c)'
    BY <1>1, <1>2, ALike DEF AUnderWay
  <2>4. Calling(c)!TypeOK'
    BY <1>1, <1>2, <2>1 DEF Calling!TypeOK
  <2>5. Calling(c)!Released' /\ Calling(c)!RetryIsFresh'
    BY <1>1, <1>2, <2>2 DEF Calling!Released, Calling!RetryIsFresh
  <2> QED BY <1>1, <1>2, <2>2, <2>3, <2>4, <2>5
          DEF Calling!ErrorsSurface, Calling!SlowIsNotDown, Calling!RetryableIsRetried
<1>3. CASE place' = "over" /\ outcome' = Calling(c)!Translate(cause) /\ UNCHANGED <<attempt, cred>>
  <2>1. Calling(c)!Translate(cause) = "Auth"
    BY <1>1 DEF AUnderWay
  <2>2. /\ text' \in Seq(0..1) /\ Len(text') <= c.MaxText /\ complete' \in BOOLEAN
        /\ response' \in {"none", "closed"}
    BY <1>1 DEF Calling!TypeOK
  <2> QED BY <1>1, <1>3, <2>1, <2>2, AEnds
<1> QED BY <1>1, <1>2, <1>3 DEF Calling!Reauth, Calling!Over

\* A response that is opened, and its chunks.
LEMMA AReads ==
    ASSUME NEW c, AInv(c), UNCHANGED <<adapter, credKind, streams, attempt, cred, tokens, complete, cause, outcome>>,
           place \in {"sent", "reading"}, place' = "reading", response' \in {"none", "open", "closed"},
           text' \in Seq(0..1), Len(text') <= c.MaxText
    PROVE  AInv(c)'
<1> USE DEF AInv, Calling!CallHolds
<1>1. ASent'
  BY DEF ASent
<1>2. AUnderWay(c)'
  BY ALike DEF AUnderWay
<1>3. Calling(c)!TypeOK'
  BY DEF Calling!TypeOK
<1>4. outcome' = "none"
  BY DEF AUnderWay
<1> QED BY <1>1, <1>2, <1>3, <1>4 DEF Calling!Released, Calling!RetryIsFresh, Calling!ErrorsSurface,
        Calling!SlowIsNotDown, Calling!RetryableIsRetried

LEMMA AStep ==
    ASSUME NEW c, Calling(c)!ConstantsFit, AInv(c), [Calling(c)!Next]_(Calling(c)!vars)
    PROVE  AInv(c)'
<1> DEFINE Rest == UNCHANGED <<adapter, credKind, streams, attempt, cred, tokens>>
<1>0. /\ text \in Seq(0..1) /\ Len(text) <= c.MaxText /\ complete \in BOOLEAN /\ attempt \in 0..1
      /\ response \in {"none", "open", "closed"} /\ (place # "reading" => response # "open")
      /\ c.MaxText \in Nat \ {0}
  BY DEF AInv, Calling!CallHolds, Calling!TypeOK, AUnderWay, Calling!ConstantsFit
<1>1. CASE Calling(c)!Send
  BY <1>1, ASends
<1>2. CASE Calling(c)!SignedOut
  <2>1. Rest /\ place = "token" /\ place' = "over" /\ cause' = "signed_out" /\ outcome' = "raw"
        /\ UNCHANGED <<response, text, complete>>
    BY <1>2 DEF Calling!SignedOut, Calling!Over, Calling!call
  <2> QED BY <1>0, <2>1, AEnds, ATranslated
<1>3. CASE Calling(c)!Unanswered
  <2>1. PICK e \in {"refused", "timeout"} \cup (IF c.Drops THEN {"reset"} ELSE {}) : Calling(c)!Fail(e)
    BY <1>3 DEF Calling!Unanswered
  <2>2. e \in Calling(c)!Causes \ {"none"} /\ (~c.Drops => e \notin {"reset", "stalled", "dropped"})
    BY DEF Calling!Causes, Calling!Lost
  <2>3. Rest /\ place = "sent" /\ UNCHANGED <<text, complete>>
    BY <1>3 DEF Calling!Unanswered, Calling!call
  <2> QED BY <2>1, <2>2, <2>3, AFails
<1>4. CASE Calling(c)!Refused
  <2>1. PICK e \in Calling(c)!Status : Calling(c)!Fail(e)
    BY <1>4 DEF Calling!Refused
  <2>2. e \in Calling(c)!Causes \ {"none"} /\ e \notin {"reset", "stalled", "dropped"}
    BY DEF Calling!Causes, Calling!Status
  <2>3. Rest /\ place = "sent" /\ UNCHANGED <<text, complete>>
    BY <1>4 DEF Calling!Refused, Calling!call
  <2> QED BY <2>1, <2>2, <2>3, AFails
<1>5. CASE Calling(c)!Answered
  <2>1. Rest /\ place = "sent" /\ place' = "over" /\ text' = <<attempt>> /\ complete' = TRUE /\ outcome' = "done"
        /\ UNCHANGED <<response, cause>>
    BY <1>5 DEF Calling!Answered, Calling!Over, Calling!call
  <2>2. text' \in Seq(0..1) /\ Len(text') <= c.MaxText
    BY <1>0, <2>1
  <2>3. complete' /\ complete' \in BOOLEAN
    BY <2>1
  <2> QED BY <1>0, <2>1, <2>2, <2>3, AEnds
<1>6. CASE Calling(c)!Garbled
  <2>1. Rest /\ place = "sent" /\ place' = "over" /\ cause' = "garbled" /\ outcome' = "raw"
        /\ UNCHANGED <<response, text, complete>>
    BY <1>6 DEF Calling!Garbled, Calling!Over, Calling!call
  <2> QED BY <1>0, <2>1, AEnds
<1>7. CASE Calling(c)!Opened
  <2>1. Rest /\ place = "sent" /\ place' = "reading" /\ response' = "open" /\ UNCHANGED <<text, complete, cause, outcome>>
    BY <1>7 DEF Calling!Opened, Calling!call
  <2>2. text' \in Seq(0..1) /\ Len(text') <= c.MaxText /\ response' \in {"none", "open", "closed"}
    BY <1>0, <2>1
  <2> QED BY <2>1, <2>2, AReads
<1>8. CASE Calling(c)!Chunk
  <2>1. Rest /\ place = "reading" /\ place' = place /\ text' = Append(text, attempt) /\ Len(text) < c.MaxText
        /\ UNCHANGED <<response, complete, cause, outcome>>
    BY <1>8 DEF Calling!Chunk, Calling!call
  <2>2. text' \in Seq(0..1) /\ Len(text') <= c.MaxText
    BY <1>0, <2>1
  <2>3. response' \in {"none", "open", "closed"}
    BY <1>0, <2>1
  <2> QED BY <2>1, <2>2, <2>3, AReads
<1>9. CASE Calling(c)!Complete
  <2>1. Rest /\ place = "reading" /\ place' = "over" /\ complete' = TRUE /\ outcome' = "done"
        /\ response' \in {"none", "closed"} /\ UNCHANGED <<text, cause>>
    BY <1>0, <1>9 DEF Calling!Complete, Calling!Over, Calling!Close, Calling!call
  <2>2. complete' /\ complete' \in BOOLEAN
    BY <2>1
  <2> QED BY <1>0, <2>1, <2>2, AEnds
<1>10. CASE Calling(c)!Break
  <2>1. PICK e \in Calling(c)!Torn : Calling(c)!Fail(e)
    BY <1>10 DEF Calling!Break
  <2>2. e \in Calling(c)!Causes \ {"none"} /\ c.Drops
    BY <1>10 DEF Calling!Causes, Calling!Torn, Calling!Break
  <2>3. Rest /\ place = "reading" /\ UNCHANGED <<text, complete>>
    BY <1>10 DEF Calling!Break, Calling!call
  <2> QED BY <2>1, <2>2, <2>3, AFails
<1>11. CASE Calling(c)!Told
  <2>1. Rest /\ place = "reading" /\ UNCHANGED <<text, complete>>
    BY <1>11 DEF Calling!Told, Calling!call
  <2>2. CASE adapter \in Calling(c)!Library
    <3>1. Calling(c)!Fail("told") /\ "told" \in Calling(c)!Causes \ {"none"}
      BY <1>11, <2>2 DEF Calling!Told, Calling!OnTold, Calling!Causes
    <3> QED BY <2>1, <3>1, AFails
  <2>3. CASE adapter \notin Calling(c)!Library
    <3>1. place' = "over" /\ cause' = "told" /\ outcome' = "done" /\ response' \in {"none", "closed"}
      BY <1>0, <1>11, <2>3 DEF Calling!Told, Calling!OnTold, Calling!Over, Calling!Close
    <3> QED BY <1>0, <2>1, <2>3, <3>1, AEnds
  <2> QED BY <2>2, <2>3
<1>15. CASE Calling(c)!CutShort
  <2>1. Rest /\ place = "reading" /\ place' = "over" /\ outcome' = "done" /\ cause' = "cut"
        /\ response' \in {"none", "closed"} /\ UNCHANGED <<text, complete>>
    BY <1>0, <1>15 DEF Calling!CutShort, Calling!Over, Calling!Close, Calling!call
  <2> QED BY <1>0, <2>1, AEnds
<1>12. CASE Calling(c)!Abandon
  <2>1. Rest /\ place = "reading" /\ place' = "over" /\ outcome' = "abandoned"
        /\ response' \in {"none", "closed"} /\ UNCHANGED <<text, complete, cause>>
    BY <1>0, <1>12 DEF Calling!Abandon, Calling!Over, Calling!Close, Calling!call
  <2> QED BY <1>0, <2>1, AEnds
<1>13. CASE Calling(c)!Reauth
  BY <1>13, AReauths
<1>14. CASE UNCHANGED Calling(c)!vars
  <2>1. Rest /\ UNCHANGED <<place, response, text, complete, cause, outcome>>
    BY <1>14 DEF Calling!vars
  <2>2. Calling(c)!CallHolds'
    BY <2>1 DEF AInv, Calling!CallHolds, Calling!TypeOK, Calling!Released, Calling!RetryIsFresh, Calling!ErrorsSurface,
                Calling!SlowIsNotDown, Calling!RetryableIsRetried
  <2>3. ASent' /\ AUnderWay(c)'
    BY <2>1, ALike DEF AInv, ASent, AUnderWay
  <2> QED BY <2>2, <2>3 DEF AInv
<1> QED BY <1>1, <1>2, <1>3, <1>4, <1>5, <1>6, <1>7, <1>8, <1>9, <1>10, <1>11, <1>12, <1>13, <1>14, <1>15
        DEF Calling!Next

LEMMA AHolds == ASSUME NEW c, AInv(c) PROVE Calling(c)!CallHolds
BY DEF AInv

-----------------------------------------------------------------------------
(***************************************************************************)
(* HtmlText.  Only the first element open can be a head and only the last  *)
(* one a script; the count is at most that of both unless a head was left  *)
(* open, and at least that unless an end tag closed nothing in one.        *)
(***************************************************************************)

depth == v1
open == v2
keptText == v3
dueText == v4
oddTags == v6
USE DEF depth, open, keptText, dueText, oddTags

InHead == Len(open) > 0 /\ open[1] = "head"
InScript == Len(open) > 0 /\ open[Len(open)] = "script"

Inside == (IF InHead THEN 1 ELSE 0) + (IF InScript THEN 1 ELSE 0)

HInv ==
    /\ open \in Seq({"head", "script", "body", "div"})
    /\ \A i \in 1..Len(open) : (open[i] = "head" => i = 1) /\ (open[i] = "script" => i = Len(open))
    /\ depth \in Nat
    /\ "implied" \notin oddTags => depth <= Inside /\ dueText \subseteq keptText
    /\ "stray" \notin oddTags => depth >= Inside /\ keptText \subseteq dueText

LEMMA HSkips == ASSUME NEW c, HInv PROVE (Reading(c)!Skipping <=> Inside # 0) /\ Inside \in Nat
<1>1. Reading(c)!Skipping <=> InHead \/ InScript
  BY DEF HInv, Reading!Skipping, Reading!Skipped, InHead, InScript
<1> QED BY <1>1 DEF Inside

LEMMA HInit == ASSUME NEW c, Reading(c)!Init PROVE HInv
BY DEF Reading!Init, HInv, Inside, InHead, InScript

\* What the count may be after a step that keeps the texts.
LEMMA HCounts ==
    ASSUME NEW c, HInv, open' \in Seq({"head", "script", "body", "div"}),
           \A i \in 1..Len(open') : (open'[i] = "head" => i = 1) /\ (open'[i] = "script" => i = Len(open')),
           depth' \in Nat, UNCHANGED <<keptText, dueText>>, oddTags \subseteq oddTags',
           "implied" \notin oddTags' /\ depth <= Inside => depth' <= Inside',
           "stray" \notin oddTags' /\ depth >= Inside => depth' >= Inside'
    PROVE  HInv'
BY DEF HInv

\* An element that opens.
LEMMA HStarts == ASSUME NEW c, HInv, Reading(c)!Start PROVE HInv'
<1>1. PICK tag \in {"head", "script", "body", "div"} :
        /\ open # <<>> => open[Len(open)] # "script"
        /\ tag = "head" => open = <<>>
        /\ depth' = IF tag \in {"head", "script"} THEN depth + 1 ELSE depth
        /\ open' = Append(IF tag = "body" THEN Reading(c)!HeadClosed ELSE open, tag)
        /\ oddTags' = IF tag = "body" /\ Reading(c)!HeadClosed # open THEN oddTags \cup {"implied"} ELSE oddTags
        /\ UNCHANGED <<keptText, dueText>>
  BY DEF Reading!Start, Reading!Skipped, Reading!Innermost
<1>2. open \in Seq({"head", "script", "body", "div"}) /\ Len(open) \in Nat
  BY DEF HInv
<1>3. ~InScript
  BY <1>1, <1>2 DEF InScript
<1> DEFINE rest == IF tag = "body" THEN Reading(c)!HeadClosed ELSE open
<1>4. /\ rest \in Seq({"head", "script", "body", "div"}) /\ Len(rest) \in Nat
      /\ \A i \in 1..Len(rest) : (rest[i] = "head" => i = 1) /\ rest[i] # "script"
      /\ tag = "head" => Len(rest) = 0
      /\ rest = open \/ (tag = "body" /\ "implied" \in oddTags' /\ InHead /\ (Len(rest) > 0 => rest[1] # "head"))
  <2>1. CASE rest = open
    BY <1>1, <1>2, <1>3, <2>1 DEF HInv, InScript
  <2>2. CASE rest # open
    <3>1. tag = "body" /\ Reading(c)!HeadClosed = Tail(open) /\ open # <<>> /\ open[1] = "head" /\ "implied" \in oddTags'
      BY <1>1, <2>2 DEF Reading!HeadClosed
    <3>2. /\ rest = Tail(open) /\ Len(rest) = Len(open) - 1 /\ rest \in Seq({"head", "script", "body", "div"})
          /\ \A i \in 1..Len(rest) : rest[i] = open[i + 1] /\ i + 1 \in 1..Len(open) /\ i + 1 # 1
      BY <1>2, <3>1
    <3>3. \A i \in 1..Len(rest) : rest[i] # "head"
      BY <3>2 DEF HInv
    <3>4. \A i \in 1..Len(rest) : rest[i] # "script"
      <4>1. SUFFICES ASSUME NEW i \in 1..Len(rest), rest[i] = "script" PROVE FALSE
        OBVIOUS
      <4>2. i + 1 = Len(open)
        BY <3>2, <4>1 DEF HInv
      <4> QED BY <1>3, <3>2, <4>1, <4>2 DEF InScript
    <3>5. InHead /\ Len(rest) \in Nat
      BY <1>2, <3>1, <3>2 DEF InHead
    <3>6. Len(rest) > 0 => rest[1] # "head"
      BY <3>3, <3>5
    <3> HIDE DEF rest
    <3> QED BY <3>1, <3>2, <3>3, <3>4, <3>5, <3>6
  <2> QED BY <2>1, <2>2
<1>5. open' = Append(rest, tag)
  BY <1>1
<1> HIDE DEF rest
<1>6. /\ open' \in Seq({"head", "script", "body", "div"}) /\ Len(open') = Len(rest) + 1
      /\ open'[Len(rest) + 1] = tag /\ \A i \in 1..Len(rest) : open'[i] = rest[i]
  BY <1>4, <1>5
<1>7. \A i \in 1..Len(open') : (open'[i] = "head" => i = 1) /\ (open'[i] = "script" => i = Len(open'))
  BY <1>4, <1>6
<1>8. (InScript' <=> tag = "script") /\ (InHead' <=> tag = "head" \/ (Len(rest) > 0 /\ rest[1] = "head"))
  BY <1>4, <1>6 DEF InHead, InScript
<1>9. (Len(rest) > 0 /\ rest[1] = "head") => InHead
  BY <1>4 DEF InHead
<1>10. InHead => (Len(rest) > 0 /\ rest[1] = "head") \/ "implied" \in oddTags'
  BY <1>4 DEF InHead
<1>11. tag = "head" => ~InHead
  BY <1>1, <1>2 DEF InHead
<1>12. depth \in Nat /\ depth' \in Nat
  BY <1>1 DEF HInv
<1>13. "implied" \notin oddTags' /\ depth <= Inside => depth' <= Inside'
  BY <1>1, <1>3, <1>8, <1>10, <1>11, <1>12 DEF Inside
<1>14. depth >= Inside => depth' >= Inside'
  BY <1>1, <1>3, <1>8, <1>9, <1>11, <1>12 DEF Inside
<1> QED BY <1>1, <1>6, <1>7, <1>12, <1>13, <1>14, HCounts

\* What comes before the k-th of a sequence.
LEMMA HCut ==
    ASSUME NEW S, NEW s \in Seq(S), NEW k \in 1..Len(s)
    PROVE  LET less == SubSeq(s, 1, k - 1)
           IN  less \in Seq(S) /\ Len(less) = k - 1 /\ \A i \in 1..k - 1 : less[i] = s[i]
<1>1. k \in Nat /\ k - 1 \in Nat /\ Len(s) \in Nat /\ k <= Len(s) /\ DOMAIN s = 1..Len(s)
  OBVIOUS
<1> QED BY <1>1

\* The innermost element closes.
LEMMA HEnds == ASSUME NEW c, HInv, Reading(c)!End PROVE HInv'
<1>1. /\ open \in Seq({"head", "script", "body", "div"}) /\ open # <<>>
      /\ open' = SubSeq(open, 1, Len(open) - 1) /\ UNCHANGED <<keptText, dueText, oddTags>>
      /\ depth' = IF open[Len(open)] \in {"head", "script"}
                  THEN IF depth > 0 THEN depth - 1 ELSE 0 ELSE depth
  BY DEF HInv, Reading!End, Reading!Down, Reading!Skipped, Reading!Innermost
<1>2. /\ open' \in Seq({"head", "script", "body", "div"}) /\ Len(open) \in Nat \ {0} /\ Len(open') = Len(open) - 1
      /\ \A i \in 1..Len(open') : open'[i] = open[i]
  <2>1. Len(open) \in Nat \ {0} /\ Len(open) \in 1..Len(open)
    BY <1>1
  <2> DEFINE rest == SubSeq(open, 1, Len(open) - 1)
  <2>2. /\ rest \in Seq({"head", "script", "body", "div"}) /\ Len(rest) = Len(open) - 1
        /\ \A i \in 1..Len(open) - 1 : rest[i] = open[i]
    BY <1>1, <2>1, HCut
  <2> QED BY <1>1, <2>1, <2>2
<1>3. \A i \in 1..Len(open') : (open'[i] = "head" => i = 1) /\ open'[i] # "script"
  BY <1>2 DEF HInv
<1>4. ~InScript'
  BY <1>2, <1>3 DEF InScript
<1>5. InHead' <=> InHead /\ Len(open) > 1
  BY <1>2 DEF InHead
<1>6. /\ open[Len(open)] = "head" => Len(open) = 1 /\ InHead /\ ~InScript
      /\ open[Len(open)] = "script" => InScript /\ (InHead => Len(open) > 1)
      /\ open[Len(open)] \notin {"head", "script"} => ~InScript /\ (InHead => Len(open) > 1)
  BY <1>2 DEF HInv, InHead, InScript
<1>7. depth \in Nat /\ depth' \in Nat
  BY <1>1 DEF HInv
<1>8. (depth <= Inside => depth' <= Inside') /\ (depth >= Inside => depth' >= Inside')
  BY <1>1, <1>4, <1>5, <1>6, <1>7 DEF Inside
<1> QED BY <1>1, <1>2, <1>3, <1>7, <1>8, HCounts

\* An end tag that closes nothing.
LEMMA HStrays == ASSUME NEW c, HInv, Reading(c)!Stray PROVE HInv'
<1>1. /\ UNCHANGED <<open, keptText, dueText>> /\ depth' = IF depth > 0 THEN depth - 1 ELSE 0
      /\ oddTags' = IF Reading(c)!Skipping THEN oddTags \cup {"stray"} ELSE oddTags
  BY DEF Reading!Stray, Reading!Down
<1>2. depth \in Nat /\ depth' \in Nat /\ depth' <= depth
  BY <1>1 DEF HInv
<1>3. Inside' = Inside
  BY <1>1 DEF Inside, InHead, InScript
<1>4. "stray" \notin oddTags' => Inside = 0
  BY <1>1, HSkips
<1>5. Inside \in Nat
  BY HSkips
<1>6. open \in Seq({"head", "script", "body", "div"})
      /\ \A i \in 1..Len(open) : (open[i] = "head" => i = 1) /\ (open[i] = "script" => i = Len(open))
  BY DEF HInv
<1>7. "implied" \notin oddTags' /\ depth <= Inside => depth' <= Inside'
  BY <1>2, <1>3, <1>5
<1>8. "stray" \notin oddTags' => depth' >= Inside'
  BY <1>2, <1>3, <1>4
<1>9. oddTags \subseteq oddTags'
  BY <1>1
<1> QED BY <1>1, <1>2, <1>6, <1>7, <1>8, <1>9, HCounts

LEMMA HStep == ASSUME NEW c, HInv, [Reading(c)!Next]_(Reading(c)!vars) PROVE HInv'
<1>1. CASE Reading(c)!Start
  BY <1>1, HStarts
<1>2. CASE Reading(c)!End
  BY <1>2, HEnds
<1>3. CASE Reading(c)!Empty \/ UNCHANGED Reading(c)!vars
  <2>1. UNCHANGED <<depth, open, keptText, dueText, oddTags>>
    BY <1>3 DEF Reading!Empty, Reading!vars
  <2> QED BY <2>1 DEF HInv, Inside, InHead, InScript
<1>4. CASE Reading(c)!Stray
  BY <1>4, HStrays
<1>5. CASE Reading(c)!Data
  <2>1. /\ UNCHANGED <<depth, open, oddTags>>
        /\ keptText' = IF depth = 0 THEN keptText \cup {v5} ELSE keptText
        /\ dueText' = IF Reading(c)!Skipping THEN dueText ELSE dueText \cup {v5}
    BY <1>5 DEF Reading!Data
  <2>2. Inside' = Inside /\ Inside \in Nat
    BY <2>1, HSkips DEF Inside, InHead, InScript
  <2>3. "implied" \notin oddTags => dueText' \subseteq keptText'
    <3>1. "implied" \notin oddTags /\ ~Reading(c)!Skipping => depth = 0
      BY <2>2, HSkips DEF HInv
    <3> QED BY <2>1, <3>1 DEF HInv
  <2>4. "stray" \notin oddTags => keptText' \subseteq dueText'
    <3>1. "stray" \notin oddTags /\ depth = 0 => ~Reading(c)!Skipping
      BY <2>2, HSkips DEF HInv
    <3> QED BY <2>1, <3>1 DEF HInv
  <2> QED BY <2>1, <2>2, <2>3, <2>4 DEF HInv
<1> QED BY <1>1, <1>2, <1>3, <1>4, <1>5 DEF Reading!Next

LEMMA HHolds == ASSUME NEW c, HInv PROVE Reading(c)!PageHolds
BY DEF HInv, Reading!PageHolds

-----------------------------------------------------------------------------
(***************************************************************************)
(* WebFetch.  One response is open exactly while it is looked at, and one  *)
(* request was made for each hop.                                          *)
(***************************************************************************)

stage == v1
url == v2
hop == v3
requested == v4
held == v5
page == v6
got == v7
content == v8
truncated == v9
fetched == v10
USE DEF stage, url, hop, requested, held, page, got, content, truncated, fetched

WInv(c) ==
    /\ Fetching(c)!FetchHolds
    /\ held = IF stage \in {"head", "body"} THEN 1 ELSE 0
    /\ stage = "send" => url \in c.Open
    /\ stage \in {"check", "send"} => hop <= c.MaxRedirects /\ Len(requested) = hop
    /\ stage \in {"head", "body"} => hop <= c.MaxRedirects /\ Len(requested) = hop + 1
    /\ stage = "head" => got = 0
    /\ stage = "body" => got < c.MaxBytes \/ got = 0
    /\ stage # "over" => fetched = None

LEMMA WInit == ASSUME NEW c, Fetching(c)!ConstantsFit, Fetching(c)!Init PROVE WInv(c)
<1>1. /\ stage = "check" /\ url \in Fetching(c)!Urls /\ hop = 0 /\ requested = <<>> /\ held = 0 /\ page = 0
      /\ got = 0 /\ content = 0 /\ truncated = FALSE /\ fetched = None
      /\ c.MaxRedirects \in Nat /\ c.MaxBytes \in Nat /\ c.MaxBody \in Nat
  BY DEF Fetching!Init, Fetching!ConstantsFit
<1>2. None # "ok"
  BY DEF Fetching!ConstantsFit
<1>3. requested \in Seq(Fetching(c)!Urls) /\ Len(requested) = 0
  BY <1>1
<1>4. Fetching(c)!TypeOK
  <2>1. truncated \in BOOLEAN
    BY DEF Fetching!Init
  <2>2. content \in 0..c.MaxBytes /\ page \in 0..c.MaxBody /\ got \in 0..page /\ hop \in 0..c.MaxRedirects + 1
    BY <1>1
  <2>3. stage \in {"check", "send", "head", "body", "over"} /\ held \in 0..1 /\ fetched \in {None, "ok", "blocked", "failed"}
    BY <1>1
  <2>4. url \in Fetching(c)!Urls
    BY <1>1
  <2> QED BY <1>3, <2>1, <2>2, <2>3, <2>4 DEF Fetching!TypeOK
<1>5. Fetching(c)!OnlyChecked
  BY <1>1 DEF Fetching!OnlyChecked
<1>6. Fetching(c)!WalkEnds /\ Fetching(c)!Released /\ Fetching(c)!WholeUnlessTold
  BY <1>1, <1>2, <1>3 DEF Fetching!WalkEnds, Fetching!Released, Fetching!WholeUnlessTold
<1> QED BY <1>1, <1>3, <1>4, <1>5, <1>6 DEF WInv, Fetching!FetchHolds

LEMMA WStep ==
    ASSUME NEW c, Fetching(c)!ConstantsFit, WInv(c), [Fetching(c)!Next]_(Fetching(c)!vars)
    PROVE  WInv(c)'
<1> USE DEF WInv, Fetching!FetchHolds, Fetching!TypeOK
<1>0. c.MaxRedirects \in Nat /\ c.MaxBytes \in Nat /\ c.MaxBody \in Nat /\ None \notin {"ok", "blocked", "failed"}
  BY DEF Fetching!ConstantsFit
<1> DEFINE Walked == UNCHANGED requested
<1>a. requested' = requested => Fetching(c)!OnlyChecked'
  BY DEF Fetching!OnlyChecked
<1>1. CASE Fetching(c)!Check
  BY <1>0, <1>1, <1>a DEF Fetching!Check, Fetching!Allowed, Fetching!Over, Fetching!WalkEnds, Fetching!Released,
     Fetching!WholeUnlessTold
<1>2. CASE Fetching(c)!Send
  <2>1. /\ stage = "send" /\ requested' = Append(requested, url) /\ UNCHANGED <<url, hop, content, truncated>>
        /\ \/ held' = held + 1 /\ stage' = "head" /\ page' \in 0..c.MaxBody /\ got' = 0 /\ UNCHANGED fetched
           \/ stage' = "over" /\ fetched' = "failed" /\ UNCHANGED <<held, page, got>>
    BY <1>2 DEF Fetching!Send, Fetching!Over
  <2>2. requested \in Seq(Fetching(c)!Urls) /\ url \in Fetching(c)!Urls /\ url \in c.Open /\ Len(requested) = hop
    BY <2>1
  <2>3. /\ requested' \in Seq(Fetching(c)!Urls) /\ Len(requested') = Len(requested) + 1
        /\ requested'[Len(requested) + 1] = url
        /\ \A i \in 1..Len(requested) : requested'[i] = requested[i]
        /\ DOMAIN requested = 1..Len(requested) /\ DOMAIN requested' = 1..(Len(requested) + 1)
    BY <2>1, <2>2
  <2>4. Fetching(c)!OnlyChecked'
    BY <2>2, <2>3 DEF Fetching!OnlyChecked
  <2>5. Fetching(c)!TypeOK'
    BY <1>0, <2>1, <2>3
  <2> QED BY <1>0, <2>1, <2>2, <2>3, <2>4, <2>5 DEF Fetching!WalkEnds, Fetching!Released, Fetching!WholeUnlessTold
<1>3. CASE Fetching(c)!Redirect
  BY <1>0, <1>3, <1>a DEF Fetching!Redirect, Fetching!Close, Fetching!MaxHops, Fetching!Over, Fetching!WalkEnds,
     Fetching!Released, Fetching!WholeUnlessTold
<1>4. CASE Fetching(c)!Terminal
  BY <1>0, <1>4, <1>a DEF Fetching!Terminal, Fetching!WalkEnds, Fetching!Released, Fetching!WholeUnlessTold
<1>5. CASE Fetching(c)!Chunk
  <2>1. PICK n \in 1..2 :
          /\ got + n <= page /\ got' = got + n
          /\ IF got' >= c.MaxBytes
             THEN Fetching(c)!Reached(got')
             ELSE UNCHANGED <<stage, held, content, truncated, fetched>>
    BY <1>5 DEF Fetching!Chunk
  <2>2. stage = "body" /\ UNCHANGED <<url, hop, requested, page>>
    BY <1>5 DEF Fetching!Chunk
  <2>3. CASE got' < c.MaxBytes
    <3>1. UNCHANGED <<stage, held, content, truncated, fetched>>
      BY <1>0, <2>1, <2>2, <2>3
    <3> QED BY <1>0, <1>a, <2>1, <2>2, <2>3, <3>1 DEF Fetching!WalkEnds, Fetching!Released, Fetching!WholeUnlessTold
  <2>4. CASE ~(got' < c.MaxBytes)
    <3>1. Fetching(c)!Reached(got')
      BY <1>0, <2>1, <2>2, <2>4
    <3>2. truncated' /\ truncated' \in BOOLEAN
      BY <3>1 DEF Fetching!Reached, Fetching!Returned
    <3>3. content' \in 0..c.MaxBytes /\ held' = held - 1 /\ stage' = "over" /\ fetched' = "ok"
      BY <1>0, <2>1, <2>2, <3>1 DEF Fetching!Reached, Fetching!Returned, Fetching!Cut, Fetching!Close, Fetching!Over
    <3> QED BY <1>0, <1>a, <2>1, <2>2, <3>2, <3>3 DEF Fetching!WalkEnds, Fetching!Released, Fetching!WholeUnlessTold
  <2> QED BY <2>3, <2>4
<1>6. CASE Fetching(c)!EndOfBody
  <2>1. /\ stage = "body" /\ got = page /\ content' = got /\ held' = held - 1 /\ stage' = "over" /\ fetched' = "ok"
        /\ UNCHANGED <<url, hop, requested, page, got>>
    BY <1>6 DEF Fetching!EndOfBody, Fetching!Returned, Fetching!Close, Fetching!Over
  <2>2. truncated' \in BOOLEAN
    BY <1>6 DEF Fetching!EndOfBody, Fetching!Returned
  <2>3. content' \in 0..c.MaxBytes
    BY <1>0, <2>1
  <2> QED BY <1>0, <1>a, <2>1, <2>2, <2>3 DEF Fetching!WalkEnds, Fetching!Released, Fetching!WholeUnlessTold
<1>7. CASE Fetching(c)!Broken
  BY <1>0, <1>7, <1>a DEF Fetching!Broken, Fetching!Close, Fetching!Over, Fetching!WalkEnds, Fetching!Released,
     Fetching!WholeUnlessTold
<1>8. CASE UNCHANGED Fetching(c)!vars
  BY <1>0, <1>8, <1>a DEF Fetching!vars, Fetching!WalkEnds, Fetching!Released, Fetching!WholeUnlessTold
<1> QED BY <1>1, <1>2, <1>3, <1>4, <1>5, <1>6, <1>7, <1>8 DEF Fetching!Next

LEMMA WHolds == ASSUME NEW c, WInv(c) PROVE Fetching(c)!FetchHolds
BY DEF WInv

-----------------------------------------------------------------------------
(***************************************************************************)
(* Sandbox.  Each chunk is with the program, in the pipe, kept or dropped, *)
(* and none is dropped before the buffer is full; after the clock ran out  *)
(* on a child that leads its group, nothing of the group runs.             *)
(***************************************************************************)

run == v1
child == v2
kid == v3
kidWrites == v4
box == v5
muted == v6
left == v7
pipe == v8
kept == v9
dropped == v10
led == v11
ending == v12
scratch == v13
USE DEF run, child, kid, kidWrites, box, muted, left, pipe, kept, dropped, led, ending, scratch

\* Where the chunks are.
BCount(c) ==
    /\ left \in 0..c.Output /\ pipe \in 0..c.PipeSize /\ kept \in 0..c.Cap /\ dropped \in 0..c.Output
    /\ left + pipe + kept + dropped = c.Output
    /\ dropped > 0 => kept = c.Cap

\* What runs at each place of the call.
BPlace(c) ==
    /\ run \in {"idle", "draining", "killing", "reaping", "over"}
    /\ child \in {"none", "running", "dead", "reaped"} /\ kid \in {"none", "running", "dead"}
    /\ box \in {"none", "running", "missed", "gone"}
    /\ run = "idle" => child = "none"
    /\ run \in {"draining", "killing", "reaping"} => child # "none"
    /\ run = "idle" => box = "none"
    /\ run \in {"killing", "reaping"} /\ led => child \in {"dead", "reaped"} /\ kid # "running"
    /\ ~c.Container => box = "none"
    /\ run = "reaping" => box # "running"

\* The flags and the workspace.
BFlags(c) ==
    /\ kidWrites \in BOOLEAN /\ muted \in BOOLEAN /\ led \in BOOLEAN /\ scratch \in BOOLEAN
    /\ Running(c)!NoScratchLeft

\* The result.
BEnd(c) ==
    \/ ending = None
    \/ /\ ending \in [timed_out : BOOLEAN, truncated : BOOLEAN] /\ run = "over" /\ child = "reaped"
       /\ ending.timed_out => box # "running" /\ (led => kid # "running")
       /\ ~ending.timed_out => /\ pipe = 0 /\ (kid = "running" => ~kidWrites)
                               /\ ending.truncated <=> dropped > 0

BInv(c) == BCount(c) /\ BPlace(c) /\ BFlags(c) /\ BEnd(c)

LEMMA BInit == ASSUME NEW c, Running(c)!ConstantsFit, Running(c)!Init PROVE BInv(c)
<1>1. BCount(c)
  BY DEF Running!Init, Running!ConstantsFit, BCount
<1>2. BPlace(c)
  BY DEF Running!Init, BPlace
<1>3. BFlags(c)
  BY DEF Running!Init, BFlags, Running!NoScratchLeft
<1>4. BEnd(c)
  BY DEF Running!Init, BEnd
<1> QED BY <1>1, <1>2, <1>3, <1>4 DEF BInv

LEMMA BHolds == ASSUME NEW c, Running(c)!ConstantsFit, BInv(c) PROVE Running(c)!RunHolds
<1> USE DEF BInv
<1>1. Running(c)!TypeOK
  BY DEF Running!TypeOK, BCount, BPlace, BFlags, BEnd
<1>2. Running(c)!NothingLost
  <2>1. SUFFICES ASSUME ending # None, ending.timed_out = FALSE
                 PROVE  kept + dropped = c.Output - left /\ (ending.truncated <=> c.Output - left > c.Cap)
    BY DEF Running!NothingLost, Running!Ended
  <2>2. pipe = 0 /\ (ending.truncated <=> dropped > 0)
    BY <2>1 DEF BEnd
  <2>3. kept + dropped = c.Output - left /\ (dropped > 0 <=> c.Output - left > c.Cap)
    BY <2>2 DEF BCount, Running!ConstantsFit
  <2> QED BY <2>2, <2>3
<1>3. Running(c)!GroupGoesDown /\ Running(c)!BoxStops
  BY DEF Running!GroupGoesDown, Running!BoxStops, Running!Ended, BEnd
<1>4. Running(c)!NoScratchLeft
  BY DEF BFlags
<1> QED BY <1>1, <1>2, <1>3, <1>4 DEF Running!RunHolds

LEMMA BStep ==
    ASSUME NEW c, Running(c)!ConstantsFit, BInv(c), [Running(c)!Next]_(Running(c)!vars)
    PROVE  BInv(c)'
<1> USE DEF BInv
<1>a. UNCHANGED <<left, pipe, kept, dropped>> => BCount(c)'
  BY DEF BCount
<1>b. UNCHANGED <<run, child, kid, box, led>> => BPlace(c)'
  BY DEF BPlace
<1>c. UNCHANGED <<run, kidWrites, muted, led, scratch>> => BFlags(c)'
  BY DEF BFlags, Running!NoScratchLeft
<1>d. run # "over" /\ ending' = ending => BEnd(c)'
  BY DEF BEnd
<1>1. CASE Running(c)!Spawn
  <2>1. BCount(c)'
    BY <1>1, <1>a DEF Running!Spawn
  <2>2. BPlace(c)'
    BY <1>1 DEF Running!Spawn, BPlace
  <2>3. BFlags(c)'
    BY <1>1 DEF Running!Spawn, BFlags, BPlace, Running!NoScratchLeft
  <2>4. BEnd(c)'
    BY <1>1, <1>d DEF Running!Spawn, BEnd, BPlace, BCount, BFlags
  <2> QED BY <2>1, <2>2, <2>3, <2>4
<1>2. CASE Running(c)!LaunchFails
  <2>1. BCount(c)'
    BY <1>2, <1>a DEF Running!LaunchFails, Running!program
  <2>2. BPlace(c)'
    BY <1>2 DEF Running!LaunchFails, Running!program, BPlace
  <2>3. BFlags(c)'
    BY <1>2 DEF Running!LaunchFails, Running!program, BFlags, BPlace, Running!NoScratchLeft
  <2>4. BEnd(c)'
    BY <1>2, <1>d DEF Running!LaunchFails, Running!program, BEnd, BPlace, BCount, BFlags
  <2> QED BY <2>1, <2>2, <2>3, <2>4
<1>3. CASE Running(c)!Write
  <2>1. BCount(c)'
    BY <1>3, <1>a DEF Running!Write, BCount, Running!ConstantsFit
  <2>2. BPlace(c)'
    BY <1>3 DEF Running!Write, BPlace
  <2>3. BFlags(c)'
    BY <1>3 DEF Running!Write, BFlags, BPlace, Running!NoScratchLeft
  <2>4. BEnd(c)'
    BY <1>3, <1>d DEF Running!Write, BEnd, BPlace, BCount, BFlags
  <2> QED BY <2>1, <2>2, <2>3, <2>4
<1>4. CASE Running(c)!CloseOutput
  <2>1. BCount(c)'
    BY <1>4, <1>a DEF Running!CloseOutput
  <2>2. BPlace(c)'
    BY <1>4 DEF Running!CloseOutput, BPlace
  <2>3. BFlags(c)'
    BY <1>4 DEF Running!CloseOutput, BFlags, BPlace, Running!NoScratchLeft
  <2>4. BEnd(c)'
    BY <1>4, <1>d DEF Running!CloseOutput, BEnd, BPlace, BCount, BFlags
  <2> QED BY <2>1, <2>2, <2>3, <2>4
<1>5. CASE \E inherits \in BOOLEAN : Running(c)!Fork(inherits)
  <2>1. BCount(c)'
    BY <1>5, <1>a DEF Running!Fork
  <2>2. BPlace(c)'
    BY <1>5 DEF Running!Fork, BPlace
  <2>3. BFlags(c)'
    BY <1>5 DEF Running!Fork, BFlags, BPlace, Running!NoScratchLeft
  <2>4. BEnd(c)'
    BY <1>5, <1>d DEF Running!Fork, BEnd, BPlace, BCount, BFlags
  <2> QED BY <2>1, <2>2, <2>3, <2>4
<1>6. CASE Running(c)!ChildExits
  <2>1. BCount(c)'
    BY <1>6, <1>a DEF Running!ChildExits
  <2>2. BPlace(c)'
    BY <1>6 DEF Running!ChildExits, BPlace
  <2>3. BFlags(c)'
    BY <1>6 DEF Running!ChildExits, BFlags, BPlace, Running!NoScratchLeft
  <2>4. BEnd(c)'
    BY <1>6, <1>d DEF Running!ChildExits, BEnd, BPlace, BCount, BFlags
  <2> QED BY <2>1, <2>2, <2>3, <2>4
<1>7. CASE Running(c)!KidExits
  <2>1. BCount(c)'
    BY <1>7, <1>a DEF Running!KidExits
  <2>2. BPlace(c)'
    BY <1>7 DEF Running!KidExits, BPlace
  <2>3. BFlags(c)'
    BY <1>7 DEF Running!KidExits, BFlags, BPlace, Running!NoScratchLeft
  <2>4. BEnd(c)'
    BY <1>7, <1>d DEF Running!KidExits, BEnd, BPlace, BCount, BFlags
  <2> QED BY <2>1, <2>2, <2>3, <2>4
<1>8. CASE Running(c)!BoxExits
  <2>1. BCount(c)'
    BY <1>8, <1>a DEF Running!BoxExits
  <2>2. BPlace(c)'
    BY <1>8 DEF Running!BoxExits, BPlace
  <2>3. BFlags(c)'
    BY <1>8 DEF Running!BoxExits, BFlags, BPlace, Running!NoScratchLeft
  <2>4. BEnd(c)'
    BY <1>8, <1>d DEF Running!BoxExits, BEnd, BPlace, BCount, BFlags
  <2> QED BY <2>1, <2>2, <2>3, <2>4
<1>9. CASE Running(c)!Reap
  <2>1. BCount(c)'
    BY <1>9, <1>a DEF Running!Reap
  <2>2. BPlace(c)'
    BY <1>9 DEF Running!Reap, BPlace
  <2>3. BFlags(c)'
    BY <1>9 DEF Running!Reap, BFlags, BPlace, Running!NoScratchLeft
  <2>4. BEnd(c)'
    BY <1>9, <1>d DEF Running!Reap, BEnd, BPlace, BCount, BFlags
  <2> QED BY <2>1, <2>2, <2>3, <2>4
<1>10. CASE Running(c)!Pump
  <2>1. BCount(c)'
    BY <1>10, <1>a DEF Running!Pump, Running!program, Running!Feed, BCount, Running!ConstantsFit
  <2>2. BPlace(c)'
    BY <1>10 DEF Running!Pump, Running!program, Running!Feed, BPlace
  <2>3. BFlags(c)'
    BY <1>10 DEF Running!Pump, Running!program, Running!Feed, BFlags, BPlace, Running!NoScratchLeft
  <2>4. BEnd(c)'
    BY <1>10, <1>d DEF Running!Pump, Running!program, Running!Feed, BEnd, BPlace, BCount, BFlags
  <2> QED BY <2>1, <2>2, <2>3, <2>4
<1>11. CASE Running(c)!Finish
  <2>1. BCount(c)'
    BY <1>11, <1>a DEF Running!Finish, Running!program, Running!Return, Running!Cleanup, Running!Drained, Running!Eof
  <2>2. BPlace(c)'
    BY <1>11 DEF Running!Finish, Running!program, Running!Return, Running!Cleanup, Running!Drained, Running!Eof, BPlace
  <2>3. BFlags(c)'
    BY <1>11 DEF Running!Finish, Running!program, Running!Return, Running!Cleanup, Running!Drained, Running!Eof, BFlags, BPlace, Running!NoScratchLeft
  <2>4. BEnd(c)'
    <3>1. ending' = [timed_out |-> FALSE, truncated |-> dropped > 0]
      BY <1>11 DEF Running!Finish, Running!Return
    <3>2. ending'.timed_out = FALSE /\ ending' \in [timed_out : BOOLEAN, truncated : BOOLEAN]
      BY <3>1
    <3>3. ending'.truncated <=> dropped' > 0
      BY <1>11, <3>1 DEF Running!Finish
    <3>4. run' = "over" /\ child' = "reaped" /\ pipe' = 0 /\ (kid' = "running" => ~kidWrites')
      BY <1>11 DEF Running!Finish, Running!program, Running!Return, Running!Drained, Running!Eof
    <3> QED BY <3>2, <3>3, <3>4 DEF BEnd
  <2> QED BY <2>1, <2>2, <2>3, <2>4
<1>12. CASE Running(c)!Timeout
  <2>1. BCount(c)'
    BY <1>12, <1>a DEF Running!Timeout, Running!Clocked, Running!KillGroup
  <2>2. BPlace(c)'
    <3>1. led' => child # "reaped"
      BY <1>12 DEF Running!Timeout
    <3>2. run = "draining" /\ box' = box /\ run' = IF c.Container THEN "killing" ELSE "reaping"
      BY <1>12 DEF Running!Timeout, Running!Clocked
    <3>3. IF child \in {"running", "dead"}
          THEN child' = "dead" /\ kid' = IF kid = "running" THEN "dead" ELSE kid
          ELSE UNCHANGED <<child, kid>>
      BY <1>12 DEF Running!Timeout, Running!KillGroup
    <3>4. child' \in {"dead", "reaped"} /\ kid' \in {"none", "running", "dead"}
          /\ (child \in {"running", "dead"} => child' = "dead" /\ kid' # "running")
      BY <3>2, <3>3 DEF BPlace
    <3>5. run' = IF c.Container THEN "killing" ELSE "reaping"
      BY <3>2
    <3>6. (~c.Container => box' = "none") /\ (run' = "reaping" => box' # "running") /\ box' \in {"none", "running", "missed", "gone"}
      BY <3>2 DEF BPlace
    <3>7. run' \in {"killing", "reaping"}
      BY <3>2
    <3>8. led' => child' \in {"dead", "reaped"} /\ kid' # "running"
      BY <3>1, <3>4, <3>2 DEF BPlace
    <3> QED BY <3>4, <3>6, <3>7, <3>8 DEF BPlace
  <2>3. BFlags(c)'
    BY <1>12 DEF Running!Timeout, Running!Clocked, Running!KillGroup, BFlags, BPlace, Running!NoScratchLeft
  <2>4. BEnd(c)'
    BY <1>12, <1>d DEF Running!Timeout, Running!Clocked, Running!KillGroup, BEnd, BPlace, BCount, BFlags
  <2> QED BY <2>1, <2>2, <2>3, <2>4
<1>13. CASE Running(c)!KillBox
  <2>1. BCount(c)'
    BY <1>13, <1>a DEF Running!KillBox, Running!Teardown, Running!Misses
  <2>2. BPlace(c)'
    BY <1>13 DEF Running!KillBox, Running!Teardown, Running!Misses, BPlace
  <2>3. BFlags(c)'
    BY <1>13 DEF Running!KillBox, Running!Teardown, Running!Misses, BFlags, BPlace, Running!NoScratchLeft
  <2>4. BEnd(c)'
    BY <1>13, <1>d DEF Running!KillBox, Running!Teardown, Running!Misses, BEnd, BPlace, BCount, BFlags
  <2> QED BY <2>1, <2>2, <2>3, <2>4
<1>14. CASE Running(c)!TimedOut
  <2>1. BCount(c)'
    BY <1>14, <1>a DEF Running!TimedOut, Running!program, Running!Return, Running!Cleanup
  <2>2. BPlace(c)'
    BY <1>14 DEF Running!TimedOut, Running!program, Running!Return, Running!Cleanup, BPlace
  <2>3. BFlags(c)'
    BY <1>14 DEF Running!TimedOut, Running!program, Running!Return, Running!Cleanup, BFlags, BPlace, Running!NoScratchLeft
  <2>4. BEnd(c)'
    BY <1>14, <1>d DEF Running!TimedOut, Running!program, Running!Return, Running!Cleanup, BEnd, BPlace, BCount, BFlags
  <2> QED BY <2>1, <2>2, <2>3, <2>4
<1>15. CASE Running(c)!Cancel
  <2>1. BCount(c)'
    BY <1>15, <1>a DEF Running!Cancel, Running!program, Running!Return, Running!Cleanup
  <2>2. BPlace(c)'
    BY <1>15 DEF Running!Cancel, Running!program, Running!Return, Running!Cleanup, BPlace
  <2>3. BFlags(c)'
    BY <1>15 DEF Running!Cancel, Running!program, Running!Return, Running!Cleanup, BFlags, BPlace, Running!NoScratchLeft
  <2>4. BEnd(c)'
    BY <1>15, <1>d DEF Running!Cancel, Running!program, Running!Return, Running!Cleanup, BEnd, BPlace, BCount, BFlags
  <2> QED BY <2>1, <2>2, <2>3, <2>4
<1>16. CASE UNCHANGED Running(c)!vars
  BY <1>16, <1>a, <1>b, <1>c DEF Running!vars, BEnd
<1> QED BY <1>1, <1>2, <1>3, <1>4, <1>5, <1>6, <1>7, <1>8, <1>9, <1>10, <1>11, <1>12, <1>13, <1>14, <1>15, <1>16 DEF Running!Next

-----------------------------------------------------------------------------
(***************************************************************************)
(* SignIn.  Only the redirect of this request is exchanged, and its user   *)
(* approved; a poll that is answered as pending saw no approval, so that   *)
(* one that is there came after it.                                        *)
(***************************************************************************)

where == v1
grant == v2
why == v3
token == v4
answer == v5
unused == v6
decided == v7
foreign == v8
clock == v9
dev == v10
USE DEF where, grant, why, token, answer, unused, decided, foreign, clock, dev

\* The poll loop's type.
GReplies == {None, "token", "access_denied", "authorization_pending", "slow_down", "expired_token"}
GDev == [interval : Nat, demanded : Nat, wake : Nat, deadline : Nat, polled : Nat, reply : GReplies, approved : Nat \cup {None}]

\* What the flow of the grant has come to.
GFlow(c) ==
    /\ where \in {"listen", "close", "exchange"} => grant = "code"
    /\ where \in {"notify", "sleep", "poll"} => grant = "device"
    /\ where \notin {"close", "failed"} => why = None
    /\ where = "close" => why \in {None, "timeout"}
    /\ answer = "own" => decided = "approved"
    /\ where = "exchange" => answer = "own"
    /\ where = "done" => decided = "approved" /\ token = "own"
    /\ dev.approved # None => decided = "approved"
    /\ where = "poll" /\ dev.reply = "token" => decided = "approved"

\* How long the client has slept, and what it was asked to.
GClock(c) ==
    /\ where \in {"sleep", "poll"} => dev.polled <= clock
    /\ where = "sleep" => dev.interval >= dev.demanded /\ dev.wake >= dev.polled + dev.interval
    /\ where = "poll" => clock <= dev.polled + c.Delay
    /\ where = "poll" /\ dev.reply # "slow_down" => dev.interval >= dev.demanded
    /\ where = "poll" /\ dev.reply = "slow_down" => dev.interval + c.Slower >= dev.demanded
    /\ where = "poll" /\ dev.reply \in {"authorization_pending", "slow_down"} /\ dev.approved # None => dev.approved >= dev.polled

GInv(c) == Signing(c)!TypeOK /\ Signing(c)!ApprovalHeard /\ dev \in GDev /\ GFlow(c) /\ GClock(c)

LEMMA GConstants ==
    ASSUME NEW c, Signing(c)!ConstantsFit
    PROVE  /\ c.MaxIdle \in Nat /\ c.Expiries \subseteq Nat /\ c.Asks \subseteq Nat /\ c.Grants \subseteq {"code", "device"}
           /\ c.Ceiling \in Nat /\ c.Default \in Nat /\ c.Floor \in Nat /\ c.Slower \in Nat /\ c.Delay \in Nat
           /\ Signing(c)!Horizon \in Nat
           /\ None \notin Nat /\ None \notin {"network", "timeout", "denied", "mismatch", "own", "old", "empty"}
<1>1. /\ c.MaxIdle \in Nat /\ c.Expiries \subseteq Nat /\ c.Asks \subseteq Nat /\ c.Grants \subseteq {"code", "device"}
      /\ c.Ceiling \in Nat /\ c.Default \in Nat /\ c.Floor \in Nat /\ c.Slower \in Nat /\ c.Delay \in Nat
      /\ None \notin Nat /\ None \notin {"network", "timeout", "denied", "mismatch", "own", "old", "empty"}
  BY DEF Signing!ConstantsFit
<1>2. Signing(c)!Horizon \in Nat
  BY <1>1 DEF Signing!Horizon
<1> QED BY <1>1, <1>2

LEMMA GInit == ASSUME NEW c, Signing(c)!ConstantsFit, Signing(c)!Init PROVE GInv(c)
<1>1. /\ where = "discover" /\ grant \in c.Grants /\ why = None /\ token = None /\ answer = None /\ unused = 0
      /\ decided = "unseen" /\ foreign = FALSE /\ clock = 0 /\ dev = Signing(c)!NoDevice
  BY DEF Signing!Init
<1>2. dev \in GDev /\ dev.approved = None /\ dev.interval = 0 /\ dev.demanded = 0
  BY <1>1 DEF GDev, GReplies, Signing!NoDevice
<1>3. Signing(c)!TypeOK
  <2>1. foreign \in BOOLEAN
    BY <1>1
  <2>2. unused \in 0..c.MaxIdle /\ clock \in 0..Signing(c)!Horizon /\ grant \in c.Grants
    BY <1>1, GConstants
  <2>3. dev.interval \in Nat /\ dev.demanded \in Nat
    BY <1>2
  <2> QED BY <1>1, <2>1, <2>2, <2>3 DEF Signing!TypeOK, Signing!Ended
<1> QED BY <1>1, <1>2, <1>3, GConstants DEF GInv, GFlow, GClock, Signing!ApprovalHeard

\* The poll loop with some of its fields set anew.
GStarted(i, a, t, d, w) == [interval |-> i, demanded |-> a, wake |-> w, deadline |-> d, polled |-> t, reply |-> None, approved |-> None]
GPolled(d, r, t, a) == [d EXCEPT !.reply = r, !.polled = t, !.demanded = a]
GHeard(d, i, w) == [d EXCEPT !.reply = None, !.interval = i, !.wake = w]

LEMMA GPolls ==
    ASSUME NEW d \in GDev, NEW r \in GReplies, NEW t \in Nat, NEW a \in Nat
    PROVE  LET e == GPolled(d, r, t, a)
           IN  /\ e \in GDev /\ e.reply = r /\ e.polled = t /\ e.demanded = a /\ e.interval = d.interval
               /\ e.wake = d.wake /\ e.deadline = d.deadline /\ e.approved = d.approved
BY DEF GDev, GPolled

LEMMA GHears ==
    ASSUME NEW d \in GDev, NEW i \in Nat, NEW w \in Nat
    PROVE  LET e == GHeard(d, i, w)
           IN  /\ e \in GDev /\ e.reply = None /\ e.interval = i /\ e.wake = w /\ e.polled = d.polled
               /\ e.demanded = d.demanded /\ e.deadline = d.deadline /\ e.approved = d.approved
BY DEF GDev, GHeard, GReplies

\* The steps of the loopback flow, and of what precedes it, leave the poll loop alone.
LEMMA GLoopback ==
    ASSUME NEW c, Signing(c)!ConstantsFit, GInv(c),
           \/ Signing(c)!NetworkFails \/ Signing(c)!Discover \/ Signing(c)!Register \/ Signing(c)!Wait \/ Signing(c)!Close
           \/ Signing(c)!Exchange \/ Signing(c)!UserDecides \/ Signing(c)!Redirect \/ Signing(c)!StaleRedirect
           \/ Signing(c)!Preconnect \/ Signing(c)!Disconnect
    PROVE  GInv(c)'
<1> USE DEF GInv
<1>0. /\ c.MaxIdle \in Nat /\ c.Grants \subseteq {"code", "device"} /\ Signing(c)!Horizon \in Nat
      /\ None \notin {"network", "timeout", "denied", "mismatch", "own", "old", "empty"}
  BY GConstants
<1>1. CASE Signing(c)!NetworkFails \/ Signing(c)!Discover \/ Signing(c)!Register
  BY <1>0, <1>1 DEF Signing!NetworkFails, Signing!Discover, Signing!Register, Signing!Fail, Signing!listener, Signing!timer,
     Signing!TypeOK, Signing!Queries, Signing!Ended, GFlow, GClock, Signing!ApprovalHeard
<1>2. CASE Signing(c)!Wait \/ Signing(c)!Close \/ Signing(c)!Exchange
  BY <1>0, <1>2 DEF Signing!Wait, Signing!Close, Signing!Exchange, Signing!Accepted, Signing!Fail, Signing!listener, Signing!timer,
     Signing!TypeOK, Signing!Queries, Signing!Ended, GFlow, GClock, Signing!ApprovalHeard
<1>3. CASE Signing(c)!UserDecides \/ Signing(c)!Redirect \/ Signing(c)!StaleRedirect
  BY <1>0, <1>3 DEF Signing!UserDecides, Signing!Redirect, Signing!StaleRedirect, Signing!Listening, Signing!Deliver, Signing!listener,
     Signing!timer, Signing!TypeOK, Signing!Queries, Signing!Ended, GFlow, GClock, Signing!ApprovalHeard
<1>4. CASE Signing(c)!Preconnect \/ Signing(c)!Disconnect
  BY <1>0, <1>4 DEF Signing!Preconnect, Signing!Disconnect, Signing!Listening, Signing!Deliver, Signing!listener,
     Signing!timer, Signing!TypeOK, Signing!Queries, Signing!Ended, GFlow, GClock, Signing!ApprovalHeard
<1> QED BY <1>1, <1>2, <1>3, <1>4

LEMMA GNotify ==
    ASSUME NEW c, Signing(c)!ConstantsFit, GInv(c), Signing(c)!Notify
    PROVE  GInv(c)'
<1> USE DEF GInv
<1>1. PICK expires \in c.Expiries, ask \in c.Asks :
        dev' = [Signing(c)!NoDevice EXCEPT !.interval = Signing(c)!FirstInterval(ask), !.demanded = ask, !.polled = clock,
                      !.deadline = clock + Signing(c)!Smaller(expires, c.Ceiling), !.wake = clock + Signing(c)!FirstInterval(ask)]
  BY DEF Signing!Notify
<1>2. PICK i, d : i = Signing(c)!FirstInterval(ask) /\ d = clock + Signing(c)!Smaller(expires, c.Ceiling)
  OBVIOUS
<1>3. clock \in Nat /\ where = "notify" /\ where' = "sleep" /\ UNCHANGED <<grant, why, token, decided, answer, unused, foreign, clock>>
  BY GConstants DEF Signing!Notify, Signing!TypeOK, Signing!listener
<1>4. i \in Nat /\ i >= ask /\ i >= c.Floor /\ d \in Nat /\ ask \in Nat
  BY <1>1, <1>2, <1>3, GConstants DEF Signing!FirstInterval, Signing!Larger, Signing!Smaller
<1>5. dev' = GStarted(i, ask, clock, d, clock + i)
  BY <1>1, <1>2 DEF GStarted, Signing!NoDevice
<1>6. /\ dev' \in GDev /\ dev'.interval = i /\ dev'.demanded = ask /\ dev'.polled = clock /\ dev'.wake = clock + i
      /\ dev'.approved = None
  BY <1>3, <1>4, <1>5 DEF GStarted, GDev, GReplies
<1>7. Signing(c)!TypeOK'
  BY <1>3, <1>4, <1>6 DEF Signing!TypeOK, Signing!Ended, GFlow
<1>8. GFlow(c)' /\ GClock(c)' /\ Signing(c)!ApprovalHeard'
  BY <1>3, <1>4, <1>6, GConstants DEF GFlow, GClock, Signing!ApprovalHeard
<1> QED BY <1>6, <1>7, <1>8

LEMMA GDecide ==
    ASSUME NEW c, Signing(c)!ConstantsFit, GInv(c), Signing(c)!Decide
    PROVE  GInv(c)'
<1> USE DEF GInv
<1>1. /\ grant = "device" /\ where \in {"sleep", "poll"} /\ decided = "unseen" /\ decided' \in {"approved", "denied"}
      /\ dev' = [dev EXCEPT !.approved = IF decided' = "approved" THEN clock ELSE None]
      /\ UNCHANGED <<where, grant, why, token, answer, unused, foreign, clock>>
  BY DEF Signing!Decide, Signing!listener
<1>2. clock \in Nat
  BY GConstants DEF Signing!TypeOK
<1>3. /\ dev' \in GDev /\ dev'.approved = IF decided' = "approved" THEN clock ELSE None
      /\ dev'.interval = dev.interval /\ dev'.demanded = dev.demanded /\ dev'.wake = dev.wake /\ dev'.polled = dev.polled
      /\ dev'.reply = dev.reply
  BY <1>1, <1>2 DEF GDev
<1>4. Signing(c)!TypeOK'
  BY <1>1, <1>3 DEF Signing!TypeOK
<1>5. GFlow(c)' /\ GClock(c)' /\ Signing(c)!ApprovalHeard'
  BY <1>1, <1>2, <1>3, GConstants DEF GFlow, GClock, Signing!ApprovalHeard
<1> QED BY <1>3, <1>4, <1>5

LEMMA GPoll ==
    ASSUME NEW c, Signing(c)!ConstantsFit, GInv(c), Signing(c)!Poll
    PROVE  GInv(c)' /\ clock - dev.polled >= dev.demanded
<1> USE DEF GInv
<1> DEFINE asks(r) == IF r = "slow_down" THEN Signing(c)!Larger(dev.demanded, dev.interval) + c.Slower ELSE dev.demanded
<1>1. PICK r \in GReplies :
        /\ dev' = GPolled(dev, r, clock, asks(r))
        /\ r = "token" => decided = "approved"
        /\ r \in {"authorization_pending", "slow_down"} => decided = "unseen"
  BY DEF Signing!Poll, GPolled, GReplies, Signing!TypeOK
<1> DEFINE a == asks(r)
<1>2. /\ where = "sleep" /\ clock >= dev.wake /\ where' = "poll"
      /\ UNCHANGED <<grant, why, token, decided, answer, unused, foreign, clock>>
  BY DEF Signing!Poll, Signing!listener
<1>3. /\ clock \in Nat /\ c.Slower \in Nat /\ c.Delay \in Nat
      /\ dev.interval \in Nat /\ dev.demanded \in Nat /\ dev.polled \in Nat /\ dev.wake \in Nat
      /\ dev.approved \in Nat \cup {None}
  BY GConstants DEF Signing!TypeOK, GDev
<1>4. dev.interval >= dev.demanded /\ dev.wake >= dev.polled + dev.interval
  BY <1>2 DEF GClock
<1>5. a \in Nat /\ (r # "slow_down" => a = dev.demanded) /\ (r = "slow_down" => a = dev.interval + c.Slower)
  BY <1>3, <1>4 DEF Signing!Larger
<1> HIDE DEF a
<1>6. /\ dev' \in GDev /\ dev'.reply = r /\ dev'.polled = clock /\ dev'.demanded = a /\ dev'.interval = dev.interval
      /\ dev'.approved = dev.approved /\ dev'.deadline = dev.deadline
  <2>1. dev \in GDev /\ r \in GReplies /\ clock \in Nat /\ a \in Nat
    BY <1>1, <1>3, <1>5
  <2>2. dev' = GPolled(dev, r, clock, a)
    BY <1>1 DEF a
  <2> QED BY <2>1, <2>2, GPolls
<1>7. Signing(c)!TypeOK'
  BY <1>2, <1>3, <1>5, <1>6 DEF Signing!TypeOK, Signing!Ended
<1>8. GFlow(c)'
  BY <1>1, <1>2, <1>6 DEF GFlow
<1>9. r \in {"authorization_pending", "slow_down"} => dev.approved = None
  BY <1>1 DEF GFlow
<1>10. GClock(c)' /\ Signing(c)!ApprovalHeard'
  BY <1>2, <1>3, <1>4, <1>5, <1>6, <1>9, GConstants DEF GClock, GFlow, Signing!ApprovalHeard
<1>11. clock - dev.polled >= dev.demanded
  BY <1>2, <1>3, <1>4
<1> QED BY <1>6, <1>7, <1>8, <1>10, <1>11

LEMMA GAnswer ==
    ASSUME NEW c, Signing(c)!ConstantsFit, GInv(c), Signing(c)!Answer \/ Signing(c)!PollFails
    PROVE  GInv(c)'
<1> USE DEF GInv
<1>0. /\ clock \in Nat /\ c.Slower \in Nat /\ c.Delay \in Nat /\ c.Floor \in Nat
      /\ dev.interval \in Nat /\ dev.demanded \in Nat /\ dev.polled \in Nat /\ dev.wake \in Nat /\ dev.deadline \in Nat
      /\ dev.approved \in Nat \cup {None} /\ dev \in GDev
      /\ None \notin {"network", "timeout", "denied", "mismatch", "own", "old", "empty"}
  BY GConstants DEF Signing!TypeOK, GDev
<1>1. where = "poll" /\ UNCHANGED <<grant, decided, answer, unused, foreign, clock>>
  BY DEF Signing!Answer, Signing!PollFails, Signing!listener, Signing!Fail
<1>2. PICK i : i = IF dev.reply = "slow_down" THEN dev.interval + c.Slower ELSE dev.interval
  OBVIOUS
<1>3. i \in Nat /\ i >= dev.demanded /\ i >= c.Floor
  BY <1>0, <1>1, <1>2 DEF GClock, Signing!TypeOK
<1>4. \/ dev.reply = "token" /\ where' = "done" /\ token' = "own" /\ dev' = GHeard(dev, dev.interval, dev.wake) /\ UNCHANGED why
      \/ where' = "sleep" /\ dev' = GHeard(dev, i, clock + i) /\ UNCHANGED <<why, token>>
      \/ /\ dev.reply \in {"authorization_pending", "slow_down"} /\ ~(clock < dev.deadline)
         /\ where' = "failed" /\ why' = "timeout" /\ dev' = GHeard(dev, i, dev.wake) /\ UNCHANGED token
      \/ where' = "failed" /\ why' \in {"denied", "network"} /\ dev' = GHeard(dev, dev.interval, dev.wake) /\ UNCHANGED token
  <2>1. [dev EXCEPT !.reply = None] = GHeard(dev, dev.interval, dev.wake)
    BY <1>0 DEF GHeard, GDev
  <2>2. PICK next : next = [dev EXCEPT !.reply = None, !.interval = i]
    OBVIOUS
  <2>3. next = GHeard(dev, i, dev.wake) /\ [next EXCEPT !.wake = clock + next.interval] = GHeard(dev, i, clock + i)
    BY <1>0, <2>2 DEF GHeard, GDev
  <2>4. next = [dev EXCEPT !.reply = None, !.interval = IF dev.reply = "slow_down" THEN @ + c.Slower ELSE @]
    BY <1>2, <2>2
  <2>5. CASE Signing(c)!PollFails
    BY <2>1, <2>5 DEF Signing!PollFails, Signing!Fail
  <2>6. CASE Signing(c)!Answer
    <3>1. \/ /\ dev.reply = "token"
             /\ where' = "done" /\ token' = "own" /\ dev' = [dev EXCEPT !.reply = None]
             /\ UNCHANGED <<grant, why, decided>>
          \/ where' = "sleep" /\ dev' = [next EXCEPT !.wake = clock + next.interval] /\ UNCHANGED <<grant, why, token, decided>>
          \/ dev.reply \in {"authorization_pending", "slow_down"} /\ ~Signing(c)!Again(dev) /\ dev' = next /\ Signing(c)!Fail("timeout")
          \/ dev' = [dev EXCEPT !.reply = None] /\ Signing(c)!Fail("denied")
      BY <2>4, <2>6, Zenon DEF Signing!Answer
    <3> QED BY <2>1, <2>3, <3>1 DEF Signing!Fail, Signing!Again
  <2> QED BY <2>5, <2>6
<1>5. /\ \A j \in {i, dev.interval}, w \in {dev.wake, clock + i} :
           LET e == GHeard(dev, j, w)
           IN  /\ e \in GDev /\ e.reply = None /\ e.interval = j /\ e.wake = w /\ e.polled = dev.polled
               /\ e.demanded = dev.demanded /\ e.deadline = dev.deadline /\ e.approved = dev.approved
  <2>1. {i, dev.interval} \subseteq Nat /\ {dev.wake, clock + i} \subseteq Nat
    BY <1>0, <1>3
  <2>2. SUFFICES ASSUME NEW j \in {i, dev.interval}, NEW w \in {dev.wake, clock + i}
                 PROVE  LET e == GHeard(dev, j, w)
                        IN  /\ e \in GDev /\ e.reply = None /\ e.interval = j /\ e.wake = w /\ e.polled = dev.polled
                            /\ e.demanded = dev.demanded /\ e.deadline = dev.deadline /\ e.approved = dev.approved
    OBVIOUS
  <2>3. dev \in GDev /\ j \in Nat /\ w \in Nat
    BY <1>0, <2>1
  <2> QED BY <2>3, GHears
<1>6. /\ dev' \in GDev /\ dev'.reply = None /\ dev'.polled = dev.polled /\ dev'.demanded = dev.demanded /\ dev'.deadline = dev.deadline
      /\ dev'.approved = dev.approved /\ (where' = "sleep" => dev'.interval = i /\ dev'.wake = clock + i)
  BY <1>4, <1>5
<1>7. Signing(c)!TypeOK'
  <2>1. dev'.interval \in Nat /\ dev'.demanded \in Nat
    BY <1>6 DEF GDev
  <2> QED BY <1>0, <1>1, <1>3, <1>4, <1>6, <2>1 DEF Signing!TypeOK, Signing!Ended, GFlow
<1>8. GFlow(c)'
  BY <1>0, <1>1, <1>4, <1>6 DEF GFlow
<1>9. GClock(c)'
  BY <1>0, <1>1, <1>3, <1>4, <1>6 DEF GClock
<1>10. Signing(c)!ApprovalHeard'
  <2>1. clock <= dev.polled + c.Delay /\ why = None
    BY <1>1 DEF GClock, GFlow
  <2>2. CASE dev.reply \in {"authorization_pending", "slow_down"} /\ ~(clock < dev.deadline) /\ dev.approved # None
    <3>1. dev.approved >= dev.polled /\ dev.approved \in Nat
      BY <1>0, <1>1, <2>2 DEF GClock
    <3> QED BY <1>0, <1>6, <2>1, <2>2, <3>1 DEF Signing!ApprovalHeard
  <2>3. CASE ~(dev.reply \in {"authorization_pending", "slow_down"} /\ ~(clock < dev.deadline) /\ dev.approved # None)
    BY <1>0, <1>4, <1>6, <2>1, <2>3 DEF Signing!ApprovalHeard
  <2> QED BY <2>2, <2>3
<1> QED BY <1>6, <1>7, <1>8, <1>9, <1>10

LEMMA GTick ==
    ASSUME NEW c, Signing(c)!ConstantsFit, GInv(c), Signing(c)!Tick
    PROVE  GInv(c)'
<1> USE DEF GInv
<1>1. /\ (where = "sleep" /\ clock < dev.wake) \/ (where = "poll" /\ clock < dev.polled + c.Delay)
      /\ clock < Signing(c)!Horizon /\ clock' = clock + 1
      /\ UNCHANGED <<where, grant, why, token, decided, answer, unused, foreign, dev>>
  BY DEF Signing!Tick, Signing!listener
<1>2. /\ clock \in Nat /\ c.Delay \in Nat /\ Signing(c)!Horizon \in Nat
      /\ dev.polled \in Nat /\ dev \in GDev
  BY GConstants DEF Signing!TypeOK, GDev
<1>3. Signing(c)!TypeOK'
  BY <1>1, <1>2 DEF Signing!TypeOK
<1>4. GFlow(c)' /\ GClock(c)' /\ Signing(c)!ApprovalHeard'
  BY <1>1, <1>2 DEF GFlow, GClock, Signing!ApprovalHeard
<1> QED BY <1>1, <1>3, <1>4

LEMMA GStep ==
    ASSUME NEW c, Signing(c)!ConstantsFit, GInv(c), [Signing(c)!Next]_(Signing(c)!vars)
    PROVE  GInv(c)'
<1>1. CASE UNCHANGED Signing(c)!vars
  BY <1>1 DEF Signing!vars, GInv, Signing!TypeOK, Signing!ApprovalHeard, GFlow, GClock
<1> QED BY <1>1, GLoopback, GNotify, GDecide, GPoll, GAnswer, GTick DEF Signing!Next, Signing!Client, Signing!World

LEMMA GHolds == ASSUME NEW c, GInv(c) PROVE Signing(c)!SignInHolds
BY DEF GInv, GFlow, Signing!SignInHolds, Signing!OwnApproval

LEMMA GTells ==
    ASSUME NEW c, Signing(c)!ConstantsFit, GInv(c), [Signing(c)!Next]_(Signing(c)!vars)
    PROVE  Signing(c)!PollsSpaced
<1> SUFFICES ASSUME where = "sleep", where' = "poll" PROVE clock - dev.polled >= dev.demanded
  BY DEF Signing!PollsSpaced
<1>1. Signing(c)!Poll
  BY DEF Signing!vars, Signing!Next, Signing!Client, Signing!World, Signing!NetworkFails, Signing!Discover, Signing!Register,
     Signing!Wait, Signing!Close, Signing!Exchange, Signing!Notify, Signing!Answer, Signing!PollFails, Signing!Tick, Signing!Fail,
     Signing!UserDecides, Signing!Redirect, Signing!StaleRedirect, Signing!Preconnect, Signing!Disconnect, Signing!Decide
<1> QED BY <1>1, GPoll

-----------------------------------------------------------------------------
(***************************************************************************)
(* Connections, one command after the other.  A command runs on the list   *)
(* that is on file, and its connection keeps to its name; from the moment  *)
(* its token is stored until it ends, what it wrote is its own.            *)
(***************************************************************************)

listed == v1
secrets == v2
working == v3
reported == v4
USE DEF listed, secrets, working, reported

CAlone(c) == \A p, q \in c.Procs : p = q

\* The type of a command, and the entry that a connection refers to.
CRun(c) ==
    [at : Connecting(c)!Steps, op : c.Ops \cup {"none", "edit"}, name : c.Names \cup {None},
     conn : Connecting(c)!Connection \cup {None}, list : [c.Names -> Connecting(c)!Connection \cup {None}] \cup {Unread}]
CRight(k) == (k.auth = "token" <=> k.ref = "token") /\ (k.ref \in {None, k.auth})

\* The connection of a command is the one of its name, or a new one.
CNamed(c, r) ==
    /\ r.name \in c.Names /\ r.conn \in Connecting(c)!Connection /\ r.list = listed /\ CRight(r.conn)
    /\ listed[r.name] # None => r.conn.id = listed[r.name].id
    /\ \A m \in c.Names \ {r.name} : listed[m] # None => listed[m].id # r.conn.id
    /\ "kind" \notin c.Faults /\ listed[r.name] # None => r.conn.auth = listed[r.name].auth

\* What a command has done when it comes to a step.
CDone(c, r) ==
    /\ r.at = "token" => r.conn.auth = "token"
    /\ r.at = "rotate" => "rotate" \in c.Ops
    /\ r.at = "key" => r.conn.auth = "key" /\ listed[r.name] = r.conn
    /\ r.at = "drop" => listed[r.name] = r.conn
    /\ r.at = "forget" => listed[r.name] = None
    /\ r.at = "save" /\ r.conn.auth = "token" /\ "rotate" \notin c.Ops => secrets[<<r.conn.id, "token">>] = "token"

CWork(c, r) == r.at # "idle" => CNamed(c, r) /\ CDone(c, r)

CSaid(n) ==
    /\ reported[n] = Gone => listed[n] = None
    /\ reported[n] \notin {Nothing, Gone} => listed[n] = reported[n]
CTold(c) == \A n \in c.Names : (\A p \in c.Procs : working[p].at \in {"key", "forget"} => working[p].name # n) => CSaid(n)

CTokens(c) ==
    \A n \in c.Names : listed[n] # None =>
        CRight(listed[n]) /\ ("rotate" \notin c.Ops /\ listed[n].auth = "token" => secrets[<<listed[n].id, "token">>] = "token")

COwns(s, r) == r.at \in {"save", "key", "forget"} /\ s = <<r.conn.id, r.conn.auth>>
COwned(c) ==
    c.Faults = {} => \A s \in Connecting(c)!Slots : secrets[s] # None =>
        \/ \E n \in c.Names : listed[n] # None /\ s = <<listed[n].id, listed[n].auth>>
        \/ \E p \in c.Procs : COwns(s, working[p])

CTypes(c) ==
    /\ listed \in [c.Names -> Connecting(c)!Connection \cup {None}]
    /\ secrets \in [Connecting(c)!Slots -> Connecting(c)!Auths \cup {None}]
    /\ reported \in [c.Names -> Connecting(c)!Connection \cup {Nothing, Gone}]
    /\ working \in [c.Procs -> CRun(c)]
    /\ \A m, n \in c.Names : m # n /\ listed[m] # None /\ listed[n] # None => listed[m].id # listed[n].id

CBody(c) == CTypes(c) /\ (\A p \in c.Procs : CWork(c, working[p])) /\ CTold(c) /\ CTokens(c) /\ COwned(c)
CInv(c) == CAlone(c) => CBody(c)

\* What the constants are, a step at a time.
LEMMA CConstants ==
    ASSUME NEW c, Connecting(c)!ConstantsFit
    PROVE  /\ None \notin Connecting(c)!Connection /\ Unread \notin Connecting(c)!Connection
           /\ Nothing \notin Connecting(c)!Connection /\ Gone \notin Connecting(c)!Connection
           /\ None \notin c.Names /\ None \notin {"key", "token"} /\ Nothing # Gone /\ Nothing # None
BY DEF Connecting!ConstantsFit, Connecting!Auths

LEMMA CInit == ASSUME NEW c, Connecting(c)!ConstantsFit, Connecting(c)!Init PROVE CInv(c)
<1>1. /\ listed = [n \in c.Names |-> None] /\ secrets = [s \in Connecting(c)!Slots |-> None]
      /\ reported = [n \in c.Names |-> Nothing] /\ working = [p \in c.Procs |-> Connecting(c)!Idle]
  BY DEF Connecting!Init
<1>2. Connecting(c)!Idle \in CRun(c) /\ Connecting(c)!Idle.at = "idle"
  BY DEF Connecting!Idle, CRun, Connecting!Steps
<1>3. CTypes(c)
  BY <1>1, <1>2 DEF CTypes
<1>4. \A p \in c.Procs : CWork(c, working[p])
  BY <1>1, <1>2 DEF CWork
<1>5. CTold(c) /\ CTokens(c) /\ COwned(c)
  BY <1>1, CConstants DEF CTold, CTokens, COwned, CSaid
<1> QED BY <1>3, <1>4, <1>5 DEF CInv, CBody

LEMMA CHolds ==
    ASSUME NEW c, Connecting(c)!ConstantsFit, CInv(c)
    PROVE  Connecting(c)!ConnectionsHold
<1> SUFFICES ASSUME CAlone(c), CBody(c)
             PROVE  /\ Connecting(c)!TypeOK /\ Connecting(c)!ToldHolds
                    /\ "rotate" \notin c.Ops => Connecting(c)!OAuthHasToken
                    /\ c.Faults = {} => Connecting(c)!SecretsHaveOwners
  BY DEF CInv, CAlone, Connecting!ConnectionsHold, Connecting!OneAtATime
<1> USE DEF CBody
<1>1. Connecting(c)!TypeOK
  BY DEF CTypes, Connecting!TypeOK, CRun
<1>2. Connecting(c)!ToldHolds
  <2>1. SUFFICES ASSUME NEW n \in c.Names, \A p \in c.Procs : working[p].name # n
                 PROVE  CASE reported[n] = Nothing -> TRUE
                          [] reported[n] = Gone -> listed[n] = None
                          [] OTHER -> listed[n] = reported[n]
    BY Zenon DEF Connecting!ToldHolds
  <2>2. CSaid(n) /\ Nothing # Gone
    BY <2>1, CConstants DEF CTold
  <2> QED BY <2>2, Zenon DEF CSaid
<1>3. ASSUME "rotate" \notin c.Ops PROVE Connecting(c)!OAuthHasToken
  BY <1>3 DEF CTokens, CRight, Connecting!OAuthHasToken
<1>4. ASSUME c.Faults = {} PROVE Connecting(c)!SecretsHaveOwners
  <2>1. SUFFICES ASSUME \A p \in c.Procs : working[p] = Connecting(c)!Idle, NEW s \in Connecting(c)!Slots, secrets[s] # None
                 PROVE  \E n \in c.Names : listed[n] # None /\ listed[n].id = s[1]
    BY DEF Connecting!SecretsHaveOwners
  <2>2. \A p \in c.Procs : ~COwns(s, working[p])
    BY <2>1 DEF COwns, Connecting!Idle
  <2> QED BY <1>4, <2>1, <2>2 DEF COwned
<1> QED BY <1>1, <1>2, <1>3, <1>4


\* One command runs, and it becomes r.
LEMMA CSets ==
    ASSUME NEW c, CAlone(c), CTypes(c), NEW p \in c.Procs, NEW r \in CRun(c), working' = [working EXCEPT ![p] = r]
    PROVE  working' \in [c.Procs -> CRun(c)] /\ working'[p] = r /\ \A q \in c.Procs : q = p
BY DEF CTypes, CAlone

\* A step that changes the command only, before it has written anything.
LEMMA CGoesOn ==
    ASSUME NEW c, CAlone(c), CBody(c), NEW p \in c.Procs, NEW r \in CRun(c), working' = [working EXCEPT ![p] = r],
           UNCHANGED <<listed, secrets, reported>>, CWork(c, r), r.at \notin {"key", "forget"},
           working[p].at \notin {"key", "forget"}, working[p].at = "save" => c.Faults # {}
    PROVE  CBody(c)'
<1> USE DEF CBody
<1>1. working' \in [c.Procs -> CRun(c)] /\ working'[p] = r /\ \A q \in c.Procs : q = p
  BY CSets
<1>2. CTypes(c)'
  BY <1>1 DEF CTypes, CRun, Connecting!Steps
<1>3. \A q \in c.Procs : CWork(c, working[q])'
  BY <1>1 DEF CWork, CNamed, CDone
<1>4. CTold(c)'
  BY <1>1 DEF CTold, CSaid
<1>5. CTokens(c)'
  BY DEF CTokens
<1>6. COwned(c)'
  BY <1>1 DEF COwned, COwns
<1> QED BY <1>2, <1>3, <1>4, <1>5, <1>6

\* A command that stops says nothing of its name any more.
LEMMA CStops ==
    ASSUME NEW c, Connecting(c)!ConstantsFit, CAlone(c), CBody(c), NEW p \in c.Procs,
           working' = [working EXCEPT ![p] = Connecting(c)!Idle],
           UNCHANGED <<listed, secrets>>, c.Faults # {}, working[p].at # "idle",
           reported' = [reported EXCEPT ![working[p].name] = Nothing]
    PROVE  CBody(c)'
<1> USE DEF CBody
<1>0. Connecting(c)!Idle \in CRun(c) /\ Connecting(c)!Idle.at = "idle"
  BY DEF Connecting!Idle, CRun, Connecting!Steps
<1>1. working' \in [c.Procs -> CRun(c)] /\ working'[p].at = "idle" /\ \A q \in c.Procs : q = p
  BY <1>0, CSets
<1>2. working[p].name \in c.Names
  BY DEF CWork, CNamed
<1>3. CTypes(c)'
  BY <1>1, <1>2 DEF CTypes
<1>4. \A q \in c.Procs : CWork(c, working[q])'
  BY <1>1 DEF CWork
<1>5. CTold(c)'
  BY <1>1, <1>2, CConstants DEF CTold, CSaid, CTypes
<1>6. CTokens(c)' /\ COwned(c)'
  BY DEF CTokens, COwned
<1> QED BY <1>3, <1>4, <1>5, <1>6

\* The five ways a command begins.
LEMMA CBegins ==
    ASSUME NEW c, CBody(c), NEW n \in c.Names, NEW p \in c.Procs, NEW at \in {"token", "rotate", "save", "drop"},
           NEW op \in c.Ops \cup {"edit"}, NEW k \in Connecting(c)!Connection, CRight(k),
           listed[n] # None => k.id = listed[n].id /\ ("kind" \notin c.Faults => k.auth = listed[n].auth),
           \A m \in c.Names \ {n} : listed[m] # None => listed[m].id # k.id,
           CDone(c, [at |-> at, op |-> op, name |-> n, conn |-> k, list |-> listed]),
           Connecting(c)!Run(p, at, op, n, k)
    PROVE  \E r \in CRun(c) : r.at = at /\ CWork(c, r) /\ working' = [working EXCEPT ![p] = r]
<1> DEFINE r == [at |-> at, op |-> op, name |-> n, conn |-> k, list |-> listed]
<1>1. r \in CRun(c) /\ r.at = at
  BY DEF CBody, CTypes, CRun, Connecting!Steps
<1>2. CNamed(c, r)
  BY DEF CNamed
<1>3. working' = [working EXCEPT ![p] = r]
  BY DEF Connecting!Run
<1> QED BY <1>1, <1>2, <1>3 DEF CWork

LEMMA CBeginsAnew ==
    ASSUME NEW c, Connecting(c)!ConstantsFit, CAlone(c), CBody(c), NEW n \in c.Names, NEW p \in c.Procs,
           Connecting(c)!Add(p, n) \/ Connecting(c)!Login(p, n) \/ Connecting(c)!Edit(p, n) \/ Connecting(c)!Remove(p, n)
    PROVE  CBody(c)'
<1> USE DEF CBody
<1>0. working[p].at = "idle" /\ UNCHANGED <<listed, secrets, reported>>
  BY DEF Connecting!Add, Connecting!Login, Connecting!Edit, Connecting!Remove, Connecting!Idle
<1>a. /\ \A m \in c.Names : listed[m] # None => listed[m] \in Connecting(c)!Connection /\ CRight(listed[m])
      /\ \A m \in c.Names \ {n} : listed[m] # None /\ listed[n] # None => listed[m].id # listed[n].id
      /\ listed[n] # None /\ "rotate" \notin c.Ops /\ listed[n].auth = "token" => secrets[<<listed[n].id, "token">>] = "token"
  BY DEF CTypes, CTokens
<1>b. SUFFICES \E r \in CRun(c) : /\ r.at \in {"token", "rotate", "save", "drop"} /\ CWork(c, r)
                                  /\ working' = [working EXCEPT ![p] = r]
  BY <1>0, CGoesOn
<1>1. CASE Connecting(c)!Add(p, n)
  <2>1. PICK i \in c.Ids, a \in Connecting(c)!Auths, e \in c.Endpoints :
          /\ Connecting(c)!IdOf(n, i)
          /\ listed[n] # None /\ "kind" \notin c.Faults => a = listed[n].auth
          /\ Connecting(c)!Run(p, IF a = "token" THEN "token" ELSE "save", "add", n,
                  [id |-> i, auth |-> a, ref |-> IF a = "token" THEN a ELSE None, endpoint |-> e])
    BY <1>1 DEF Connecting!Add
  <2>2. PICK k : k = [id |-> i, auth |-> a, ref |-> IF a = "token" THEN a ELSE None, endpoint |-> e]
    OBVIOUS
  <2>3. PICK at : at = IF a = "token" THEN "token" ELSE "save"
    OBVIOUS
  <2>4. k \in Connecting(c)!Connection /\ CRight(k) /\ k.id = i /\ k.auth = a
    BY <2>2, CConstants DEF Connecting!Connection, CRight, Connecting!Auths
  <2>5. \A m \in c.Names : listed[m] # None /\ listed[n] = None => listed[m].id # i
    BY <2>1 DEF Connecting!IdOf, Connecting!Used
  <2>6. listed[n] # None => listed[n].id = i
    BY <2>1 DEF Connecting!IdOf
  <2>7. CDone(c, [at |-> at, op |-> "add", name |-> n, conn |-> k, list |-> listed])
    BY <2>3, <2>4 DEF CDone
  <2>8. "add" \in c.Ops /\ at \in {"token", "rotate", "save", "drop"} /\ Connecting(c)!Run(p, at, "add", n, k)
    BY <1>1, <2>1, <2>2, <2>3 DEF Connecting!Add
  <2> QED BY <1>a, <2>1, <2>4, <2>5, <2>6, <2>7, <2>8, CBegins
<1>2. CASE Connecting(c)!Login(p, n)
  <2>1. "login" \in c.Ops /\ listed[n] # None /\ listed[n].auth = "token" /\ Connecting(c)!Run(p, "token", "login", n, listed[n])
    BY <1>2 DEF Connecting!Login
  <2>2. CDone(c, [at |-> "token", op |-> "login", name |-> n, conn |-> listed[n], list |-> listed])
    BY <2>1 DEF CDone
  <2> QED BY <1>a, <2>1, <2>2, CBegins
<1>3. CASE Connecting(c)!Remove(p, n)
  <2>1. "remove" \in c.Ops /\ listed[n] # None /\ Connecting(c)!Run(p, "drop", "remove", n, listed[n])
    BY <1>3 DEF Connecting!Remove
  <2>2. CDone(c, [at |-> "drop", op |-> "remove", name |-> n, conn |-> listed[n], list |-> listed])
    BY DEF CDone
  <2> QED BY <1>a, <2>1, <2>2, CBegins
<1>4. CASE Connecting(c)!Edit(p, n)
  <2>1. PICK e \in c.Endpoints, at \in {"save", "rotate"} :
          /\ at = "rotate" => "rotate" \in c.Ops
          /\ Connecting(c)!Run(p, at, "edit", n, [listed[n] EXCEPT !.endpoint = e])
    BY <1>4 DEF Connecting!Edit
  <2>2. listed[n] # None
    BY <1>4 DEF Connecting!Edit
  <2>3. PICK k : k = [listed[n] EXCEPT !.endpoint = e]
    OBVIOUS
  <2>4. k \in Connecting(c)!Connection /\ k.id = listed[n].id /\ k.auth = listed[n].auth /\ k.ref = listed[n].ref
    BY <1>a, <2>2, <2>3 DEF Connecting!Connection
  <2>5. CDone(c, [at |-> at, op |-> "edit", name |-> n, conn |-> k, list |-> listed])
    BY <1>a, <2>1, <2>2, <2>4 DEF CDone
  <2>6. CRight(k) /\ Connecting(c)!Run(p, at, "edit", n, k)
    BY <1>a, <2>1, <2>2, <2>3, <2>4 DEF CRight
  <2> QED BY <1>a, <2>1, <2>2, <2>4, <2>5, <2>6, CBegins
<1> QED BY <1>1, <1>2, <1>3, <1>4


\* What a running command is, and what it is when it takes its next step.
LEMMA CRunning ==
    ASSUME NEW c, CBody(c), NEW p \in c.Procs, working[p].at # "idle"
    PROVE  /\ working[p] \in CRun(c) /\ CNamed(c, working[p]) /\ CDone(c, working[p])
           /\ working[p].name \in c.Names /\ working[p].conn \in Connecting(c)!Connection /\ working[p].list = listed
BY DEF CBody, CTypes, CWork, CNamed

CMoves(r, at, k) == [r EXCEPT !.at = at, !.conn = k]
CLists(r, at, l) == [r EXCEPT !.at = at, !.list = l]

LEMMA CNext1 ==
    ASSUME NEW c, NEW r \in CRun(c), NEW at \in Connecting(c)!Steps, NEW k \in Connecting(c)!Connection
    PROVE  LET x == CMoves(r, at, k)
           IN  x \in CRun(c) /\ x.at = at /\ x.name = r.name /\ x.conn = k /\ x.list = r.list
BY DEF CRun, CMoves

LEMMA CNext2 ==
    ASSUME NEW c, NEW r \in CRun(c), NEW at \in Connecting(c)!Steps,
           NEW l \in [c.Names -> Connecting(c)!Connection \cup {None}]
    PROVE  LET x == CLists(r, at, l)
           IN  x \in CRun(c) /\ x.at = at /\ x.name = r.name /\ x.conn = r.conn /\ x.list = l
BY DEF CRun, CLists

\* A command writes its secret to an entry of its own, and goes on.
LEMMA CWrites ==
    ASSUME NEW c, Connecting(c)!ConstantsFit, CAlone(c), CBody(c), NEW p \in c.Procs,
           Connecting(c)!StoreToken(p) \/ Connecting(c)!RotateKey(p)
    PROVE  CBody(c)'
<1> USE DEF CBody
<1>0. working[p].at \in {"token", "rotate"} /\ UNCHANGED <<listed, reported>>
  BY DEF Connecting!StoreToken, Connecting!RotateKey
<1>1. /\ working[p] \in CRun(c) /\ CNamed(c, working[p]) /\ CDone(c, working[p])
      /\ working[p].name \in c.Names /\ working[p].conn \in Connecting(c)!Connection /\ working[p].list = listed
  BY <1>0, CRunning
<1>2. PICK o, n : o = working[p].conn /\ n = working[p].name
  OBVIOUS
<1>3. \E k \in Connecting(c)!Connection, v \in Connecting(c)!Auths :
        /\ k.id = o.id /\ k.auth = o.auth /\ CRight(k)
        /\ secrets' = [secrets EXCEPT ![<<o.id, o.auth>>] = v] /\ (k.auth = "token" /\ "rotate" \notin c.Ops => v = "token")
        /\ working' = [working EXCEPT ![p] = [working[p] EXCEPT !.at = "save", !.conn = k]]
  <2>1. CASE Connecting(c)!StoreToken(p)
    <3>1. working[p].at = "token" /\ secrets' = [secrets EXCEPT ![<<o.id, "token">>] = "token"]
      BY <1>2, <2>1 DEF Connecting!StoreToken
    <3>2. working' = [working EXCEPT ![p] = [working[p] EXCEPT !.at = "save"]]
      BY <2>1, Zenon DEF Connecting!StoreToken
    <3>3. [working[p] EXCEPT !.at = "save"] = [working[p] EXCEPT !.at = "save", !.conn = o]
      BY <1>1, <1>2 DEF CRun
    <3>4. o.auth = "token" /\ CRight(o)
      BY <1>1, <1>2, <3>1 DEF CDone, CNamed
    <3> QED BY <1>1, <1>2, <3>1, <3>2, <3>3, <3>4 DEF Connecting!Auths
  <2>2. CASE Connecting(c)!RotateKey(p)
    <3> DEFINE s == IF o.ref = None THEN "key" ELSE o.ref
               k == [o EXCEPT !.ref = s]
    <3>1. /\ working[p].at = "rotate" /\ secrets' = [secrets EXCEPT ![Connecting(c)!KeySlot(o)] = "key"]
          /\ working' = [working EXCEPT ![p] = [working[p] EXCEPT !.at = "save", !.conn.ref = Connecting(c)!KeySlot(o)[2]]]
      BY <1>2, <2>2, Zenon DEF Connecting!RotateKey
    <3>2. Connecting(c)!KeySlot(o) = <<o.id, s>> /\ Connecting(c)!KeySlot(o)[2] = s
      BY DEF Connecting!KeySlot
    <3>3. CRight(o) /\ "rotate" \in c.Ops /\ o \in Connecting(c)!Connection
      BY <1>1, <1>2, <3>1 DEF CDone, CNamed
    <3>4. s = o.auth /\ s \in Connecting(c)!Auths
      BY <3>3, CConstants DEF CRight, Connecting!Auths, Connecting!Connection
    <3>5. k \in Connecting(c)!Connection /\ k.id = o.id /\ k.auth = o.auth /\ k.ref = s
      <4> HIDE DEF s
      <4> QED BY <3>3, <3>4 DEF Connecting!Connection
    <3>6. CRight(k)
      BY <3>3, <3>4, <3>5 DEF CRight, Connecting!Auths
    <3>7. [working[p] EXCEPT !.at = "save", !.conn.ref = s] = [working[p] EXCEPT !.at = "save", !.conn = k]
      <4> HIDE DEF s
      <4> QED BY <1>1, <1>2 DEF CRun
    <3>8. "key" \in Connecting(c)!Auths
      BY DEF Connecting!Auths
    <3> HIDE DEF k, s
    <3> QED BY <3>1, <3>2, <3>3, <3>4, <3>5, <3>6, <3>7, <3>8
  <2> QED BY <2>1, <2>2
<1>4. PICK k \in Connecting(c)!Connection, v \in Connecting(c)!Auths :
        /\ k.id = o.id /\ k.auth = o.auth /\ CRight(k)
        /\ secrets' = [secrets EXCEPT ![<<o.id, o.auth>>] = v] /\ (k.auth = "token" /\ "rotate" \notin c.Ops => v = "token")
        /\ working' = [working EXCEPT ![p] = [working[p] EXCEPT !.at = "save", !.conn = k]]
  BY <1>3
<1>5. PICK r : r = [working[p] EXCEPT !.at = "save", !.conn = k]
  OBVIOUS
<1>6. r \in CRun(c) /\ r.at = "save" /\ r.name = n /\ r.conn = k /\ r.list = listed
  <2>1. "save" \in Connecting(c)!Steps /\ listed \in [c.Names -> Connecting(c)!Connection \cup {None}]
    BY DEF CTypes, Connecting!Steps
  <2>2. PICK w, l : w = working[p] /\ l = listed
    OBVIOUS
  <2>3. w \in CRun(c) /\ r = CMoves(w, "save", k) /\ l = w.list /\ k \in Connecting(c)!Connection
    BY <1>1, <1>4, <1>5, <2>2 DEF CMoves
  <2>5. "save" \in Connecting(c)!Steps /\ l \in [c.Names -> Connecting(c)!Connection \cup {None}]
    BY <2>1, <2>2
  <2>4. r \in CRun(c) /\ r.at = "save" /\ r.name = w.name /\ r.conn = k /\ r.list = l
    BY <2>3, <2>5, CNext1
  <2> QED BY <1>2, <2>2, <2>4
<1>7. working' \in [c.Procs -> CRun(c)] /\ working'[p] = r /\ \A q \in c.Procs : q = p
  BY <1>4, <1>5, <1>6, CSets
<1>8. <<o.id, o.auth>> \in Connecting(c)!Slots
  BY <1>1, <1>2 DEF Connecting!Slots, Connecting!Connection
<1>9. secrets' \in [Connecting(c)!Slots -> Connecting(c)!Auths \cup {None}]
  BY <1>4, <1>8 DEF CTypes
<1>10. CTypes(c)'
  BY <1>0, <1>7, <1>9 DEF CTypes, CRun, Connecting!Steps
<1>11. CNamed(c, r)
  BY <1>1, <1>2, <1>4, <1>6 DEF CNamed
<1>12. k.auth = "token" /\ "rotate" \notin c.Ops => secrets'[<<k.id, "token">>] = "token"
  BY <1>4, <1>8 DEF CTypes
<1>13. \A q \in c.Procs : CWork(c, working[q])'
  BY <1>0, <1>6, <1>7, <1>11, <1>12 DEF CWork, CNamed, CDone
<1>14. CTold(c)'
  BY <1>0, <1>1, <1>7 DEF CTold, CSaid
<1>15. CTokens(c)'
  <2>1. ASSUME NEW m \in c.Names, listed[m] # None, "rotate" \notin c.Ops, listed[m].auth = "token"
        PROVE  secrets'[<<listed[m].id, "token">>] = "token"
    <3>1. <<listed[m].id, "token">> \in Connecting(c)!Slots /\ secrets[<<listed[m].id, "token">>] = "token"
      BY <2>1 DEF CTokens, CTypes, Connecting!Slots, Connecting!Connection, Connecting!Auths
    <3>2. CASE <<listed[m].id, "token">> = <<o.id, o.auth>>
      BY <1>4, <1>8, <2>1, <3>2 DEF CTypes
    <3>3. CASE <<listed[m].id, "token">> # <<o.id, o.auth>>
      BY <1>4, <1>8, <3>1, <3>3 DEF CTypes
    <3> QED BY <3>2, <3>3
  <2> QED BY <1>0, <2>1 DEF CTokens
<1>16. COwned(c)'
  <2>1. SUFFICES ASSUME c.Faults = {}, NEW s \in Connecting(c)!Slots, secrets'[s] # None
                 PROVE  \/ \E m \in c.Names : listed[m] # None /\ s = <<listed[m].id, listed[m].auth>>
                        \/ \E q \in c.Procs : COwns(s, working'[q])
    BY <1>0 DEF COwned, COwns
  <2>2. CASE s = <<o.id, o.auth>>
    BY <1>4, <1>6, <1>7, <2>2 DEF COwns
  <2>3. CASE s # <<o.id, o.auth>>
    <3>1. secrets'[s] = secrets[s]
      BY <1>4, <2>3 DEF CTypes
    <3>2. \A q \in c.Procs : ~COwns(s, working[q])
      BY <1>0, <1>7 DEF COwns
    <3> QED BY <2>1, <3>1, <3>2 DEF COwned
  <2> QED BY <2>2, <2>3
<1> QED BY <1>10, <1>13, <1>14, <1>15, <1>16


\* What the file and the ring are after a save, a removal, and the end of each.
LEMMA CSaves ==
    ASSUME NEW c, Connecting(c)!ConstantsFit, CAlone(c), CBody(c), NEW p \in c.Procs, Connecting(c)!Save(p)
    PROVE  CBody(c)'
<1> USE DEF CBody
<1>0. working[p].at = "save" /\ UNCHANGED secrets
  BY DEF Connecting!Save
<1>1. /\ working[p] \in CRun(c) /\ CNamed(c, working[p]) /\ CDone(c, working[p])
      /\ working[p].name \in c.Names /\ working[p].conn \in Connecting(c)!Connection /\ working[p].list = listed
  BY <1>0, CRunning
<1>2. PICK k, n, keyed : k = working[p].conn /\ n = working[p].name /\ keyed = (working[p].op = "add" /\ k.auth = "key")
  OBVIOUS
<1>3. listed' = [listed EXCEPT ![n] = k]
  <2>1. listed' = [listed EXCEPT ![n] = IF listed[n] = None THEN k ELSE [k EXCEPT !.id = listed[n].id]]
    BY <1>1, <1>2 DEF Connecting!Save, Connecting!Upserted
  <2>2. listed[n] # None => [k EXCEPT !.id = listed[n].id] = k
    BY <1>1, <1>2 DEF CNamed, Connecting!Connection
  <2> QED BY <2>1, <2>2
<1>4. listed' \in [c.Names -> Connecting(c)!Connection \cup {None}] /\ listed'[n] = k /\ \A m \in c.Names \ {n} : listed'[m] = listed[m]
  BY <1>1, <1>2, <1>3 DEF CTypes
<1>5. PICK r : r = IF keyed THEN [working[p] EXCEPT !.at = "key", !.list = listed'] ELSE Connecting(c)!Idle
  OBVIOUS
<1>6. working' = [working EXCEPT ![p] = r] /\ reported' = [reported EXCEPT ![n] = IF keyed THEN @ ELSE k]
  BY <1>2, <1>5 DEF Connecting!Save
<1>7. r \in CRun(c) /\ IF keyed THEN r.at = "key" /\ r.name = n /\ r.conn = k /\ r.list = listed' ELSE r.at = "idle"
  <2>1. CASE keyed
    <3>1. "key" \in Connecting(c)!Steps
      BY DEF Connecting!Steps
    <3>2. PICK w, l : w = working[p] /\ l = listed'
      OBVIOUS
    <3>3. w \in CRun(c) /\ r = CLists(w, "key", l) /\ k = w.conn /\ k \in Connecting(c)!Connection
      BY <1>1, <1>2, <1>5, <2>1, <3>2 DEF CLists
    <3>4. r \in CRun(c) /\ r.at = "key" /\ r.name = w.name /\ r.conn = k /\ r.list = l
      BY <1>4, <3>1, <3>2, <3>3, CNext2
    <3> QED BY <1>2, <2>1, <3>2, <3>4
  <2>2. CASE ~keyed
    BY <1>5, <2>2 DEF Connecting!Idle, CRun, Connecting!Steps
  <2> QED BY <2>1, <2>2
<1>8. working' \in [c.Procs -> CRun(c)] /\ working'[p] = r /\ \A q \in c.Procs : q = p
  BY <1>6, <1>7, CSets
<1>9. /\ CRight(k) /\ \A m \in c.Names \ {n} : listed[m] # None => listed[m].id # k.id
      /\ "kind" \notin c.Faults /\ listed[n] # None => k.auth = listed[n].auth
      /\ listed[n] # None => k.id = listed[n].id
      /\ k.auth = "token" /\ "rotate" \notin c.Ops => secrets[<<k.id, "token">>] = "token"
  BY <1>0, <1>1, <1>2 DEF CNamed, CDone
<1>10. CTypes(c)'
  <2>1. reported' \in [c.Names -> Connecting(c)!Connection \cup {Nothing, Gone}]
    BY <1>1, <1>2, <1>6 DEF CTypes
  <2>2. \A m, o \in c.Names : m # o /\ listed'[m] # None /\ listed'[o] # None => listed'[m].id # listed'[o].id
    BY <1>4, <1>9 DEF CTypes
  <2> QED BY <1>0, <1>4, <1>8, <2>1, <2>2 DEF CTypes, CRun, Connecting!Steps
<1>11. CWork(c, r)'
  <2>1. CASE keyed
    <3>1. CNamed(c, r)'
      BY <1>1, <1>2, <1>4, <1>7, <1>9, <2>1 DEF CNamed
    <3>2. k.auth = "key"
      BY <1>2, <2>1
    <3>3. CDone(c, r)'
      BY <1>4, <1>7, <2>1, <3>2 DEF CDone
    <3> QED BY <3>1, <3>3 DEF CWork
  <2>2. CASE ~keyed
    BY <1>7, <2>2 DEF CWork
  <2> QED BY <2>1, <2>2
<1>12. \A q \in c.Procs : CWork(c, working[q])'
  BY <1>8, <1>11 DEF CWork, CNamed, CDone
<1>13. CTold(c)'
  <2>1. SUFFICES ASSUME NEW m \in c.Names, \A q \in c.Procs : working'[q].at \in {"key", "forget"} => working'[q].name # m
                 PROVE  CSaid(m)'
    BY DEF CTold
  <2>2. CASE m = n
    <3>1. ~keyed
      BY <1>7, <1>8, <2>1, <2>2
    <3>2. reported'[m] = k
      BY <1>1, <1>2, <1>6, <2>2, <3>1 DEF CTypes
    <3> QED BY <1>1, <1>2, <1>4, <2>2, <3>2, CConstants DEF CSaid
  <2>3. CASE m # n
    <3>1. CSaid(m) /\ reported'[m] = reported[m] /\ listed'[m] = listed[m]
      BY <1>0, <1>4, <1>6, <1>8, <2>3 DEF CTold, CTypes
    <3> QED BY <3>1 DEF CSaid
  <2> QED BY <2>2, <2>3
<1>14. CTokens(c)'
  BY <1>0, <1>4, <1>9 DEF CTokens
<1>15. COwned(c)'
  <2>1. SUFFICES ASSUME c.Faults = {}, NEW s \in Connecting(c)!Slots, secrets[s] # None
                 PROVE  \E m \in c.Names : listed'[m] # None /\ s = <<listed'[m].id, listed'[m].auth>>
    BY <1>0 DEF COwned, COwns
  <2>2. k # None
    BY <1>1, <1>2, CConstants
  <2>3. (\E m \in c.Names : listed[m] # None /\ s = <<listed[m].id, listed[m].auth>>) \/ s = <<k.id, k.auth>>
    BY <1>2, <1>8, <2>1 DEF COwned, COwns
  <2>4. n \in c.Names
    BY <1>1, <1>2
  <2> QED BY <1>4, <1>9, <2>1, <2>2, <2>3, <2>4
<1> QED BY <1>10, <1>12, <1>13, <1>14, <1>15

LEMMA CDrops ==
    ASSUME NEW c, Connecting(c)!ConstantsFit, CAlone(c), CBody(c), NEW p \in c.Procs, Connecting(c)!Drop(p)
    PROVE  CBody(c)'
<1> USE DEF CBody
<1>0. working[p].at = "drop" /\ UNCHANGED <<secrets, reported>>
  BY DEF Connecting!Drop
<1>1. /\ working[p] \in CRun(c) /\ CNamed(c, working[p]) /\ CDone(c, working[p])
      /\ working[p].name \in c.Names /\ working[p].conn \in Connecting(c)!Connection /\ working[p].list = listed
  BY <1>0, CRunning
<1>2. PICK k, n : k = working[p].conn /\ n = working[p].name
  OBVIOUS
<1>3. listed' = [listed EXCEPT ![n] = None] /\ listed[n] = k
  BY <1>0, <1>1, <1>2 DEF Connecting!Drop, CDone
<1>4. listed' \in [c.Names -> Connecting(c)!Connection \cup {None}] /\ listed'[n] = None /\ \A m \in c.Names \ {n} : listed'[m] = listed[m]
  BY <1>1, <1>2, <1>3 DEF CTypes
<1>5. PICK r : r = [working[p] EXCEPT !.at = "forget", !.list = listed']
  OBVIOUS
<1>6. working' = [working EXCEPT ![p] = r]
  BY <1>5, Zenon DEF Connecting!Drop
<1>7. r \in CRun(c) /\ r.at = "forget" /\ r.name = n /\ r.conn = k /\ r.list = listed'
  <2>1. "forget" \in Connecting(c)!Steps
    BY DEF Connecting!Steps
  <2>2. PICK w, l : w = working[p] /\ l = listed'
    OBVIOUS
  <2>3. w \in CRun(c) /\ r = CLists(w, "forget", l) /\ k = w.conn /\ k \in Connecting(c)!Connection
    BY <1>1, <1>2, <1>5, <2>2 DEF CLists
  <2>4. r \in CRun(c) /\ r.at = "forget" /\ r.name = w.name /\ r.conn = k /\ r.list = l
    BY <1>4, <2>1, <2>2, <2>3, CNext2
  <2> QED BY <1>2, <2>2, <2>4
<1>8. working' \in [c.Procs -> CRun(c)] /\ working'[p] = r /\ \A q \in c.Procs : q = p
  BY <1>6, <1>7, CSets
<1>9. CTypes(c)'
  BY <1>0, <1>4, <1>8 DEF CTypes, CRun, Connecting!Steps
<1>10. CWork(c, r)'
  <2>1. CRight(k) /\ k \in Connecting(c)!Connection /\ n \in c.Names /\ \A m \in c.Names \ {n} : listed[m] # None => listed[m].id # k.id
    BY <1>1, <1>2 DEF CNamed
  <2>2. CNamed(c, r)'
    BY <1>4, <1>7, <2>1 DEF CNamed
  <2>3. CDone(c, r)'
    BY <1>4, <1>7 DEF CDone
  <2> QED BY <2>2, <2>3 DEF CWork
<1>11. \A q \in c.Procs : CWork(c, working[q])'
  BY <1>8, <1>10 DEF CWork, CNamed, CDone
<1>12. CTold(c)'
  BY <1>0, <1>4, <1>7, <1>8 DEF CTold, CSaid
<1>13. CTokens(c)'
  BY <1>0, <1>4 DEF CTokens
<1>14. COwned(c)'
  <2>1. SUFFICES ASSUME c.Faults = {}, NEW s \in Connecting(c)!Slots, secrets[s] # None
                 PROVE  \/ \E m \in c.Names : listed'[m] # None /\ s = <<listed'[m].id, listed'[m].auth>>
                        \/ s = <<k.id, k.auth>>
    BY <1>0, <1>7, <1>8 DEF COwned, COwns
  <2>2. \E m \in c.Names : listed[m] # None /\ s = <<listed[m].id, listed[m].auth>>
    BY <1>0, <1>8, <2>1 DEF COwned, COwns
  <2> QED BY <1>3, <1>4, <2>2
<1> QED BY <1>9, <1>11, <1>12, <1>13, <1>14


\* The key is written last, to the entry of a connection that is on file.
LEMMA CKeys ==
    ASSUME NEW c, Connecting(c)!ConstantsFit, CAlone(c), CBody(c), NEW p \in c.Procs, Connecting(c)!SetKey(p)
    PROVE  CBody(c)'
<1> USE DEF CBody
<1>0. working[p].at = "key" /\ UNCHANGED listed
  BY DEF Connecting!SetKey
<1>1. /\ CNamed(c, working[p]) /\ CDone(c, working[p])
      /\ working[p].name \in c.Names /\ working[p].conn \in Connecting(c)!Connection
  BY <1>0, CRunning
<1>2. PICK k, n : k = working[p].conn /\ n = working[p].name
  OBVIOUS
<1>3. /\ secrets' = [secrets EXCEPT ![<<k.id, "key">>] = "key"] /\ reported' = [reported EXCEPT ![n] = k]
      /\ working' = [working EXCEPT ![p] = Connecting(c)!Idle]
  BY <1>2 DEF Connecting!SetKey
<1>4. listed[n] = k /\ k.auth = "key" /\ n \in c.Names /\ k \in Connecting(c)!Connection
  BY <1>0, <1>1, <1>2 DEF CDone
<1>5. Connecting(c)!Idle \in CRun(c) /\ Connecting(c)!Idle.at = "idle"
  BY DEF Connecting!Idle, CRun, Connecting!Steps
<1>6. working' \in [c.Procs -> CRun(c)] /\ working'[p].at = "idle" /\ \A q \in c.Procs : q = p
  BY <1>3, <1>5, CSets
<1>7. <<k.id, "key">> \in Connecting(c)!Slots /\ "key" \in Connecting(c)!Auths
  BY <1>4 DEF Connecting!Slots, Connecting!Connection, Connecting!Auths
<1>8. /\ secrets' \in [Connecting(c)!Slots -> Connecting(c)!Auths \cup {None}]
      /\ \A s \in Connecting(c)!Slots : s # <<k.id, "key">> => secrets'[s] = secrets[s]
  BY <1>3, <1>7 DEF CTypes
<1>9. reported' \in [c.Names -> Connecting(c)!Connection \cup {Nothing, Gone}]
  BY <1>3, <1>4 DEF CTypes
<1>10. CTypes(c)'
  BY <1>0, <1>6, <1>8, <1>9 DEF CTypes
<1>11. \A q \in c.Procs : CWork(c, working[q])'
  BY <1>6 DEF CWork
<1>12. CTold(c)'
  <2>1. SUFFICES ASSUME NEW m \in c.Names PROVE CSaid(m)'
    BY DEF CTold
  <2>2. CASE m = n
    <3>1. reported'[m] = k /\ listed'[m] = k
      BY <1>0, <1>3, <1>4, <2>2 DEF CTypes
    <3> QED BY <1>4, <3>1, CConstants DEF CSaid
  <2>3. CASE m # n
    <3>1. CSaid(m)
      BY <1>2, <1>6, <2>3 DEF CTold
    <3> QED BY <1>0, <1>3, <2>3, <3>1 DEF CSaid, CTypes
  <2> QED BY <2>2, <2>3
<1>13. CTokens(c)'
  <2>1. ASSUME NEW m \in c.Names, listed[m] # None
        PROVE  <<listed[m].id, "token">> \in Connecting(c)!Slots /\ <<listed[m].id, "token">> # <<k.id, "key">>
    BY <2>1 DEF CTypes, Connecting!Slots, Connecting!Connection, Connecting!Auths
  <2> QED BY <1>0, <1>8, <2>1 DEF CTokens
<1>14. COwned(c)'
  <2>1. SUFFICES ASSUME c.Faults = {}, NEW s \in Connecting(c)!Slots, secrets'[s] # None
                 PROVE  \E m \in c.Names : listed[m] # None /\ s = <<listed[m].id, listed[m].auth>>
    BY <1>0 DEF COwned, COwns
  <2>2. k # None
    BY <1>4, CConstants
  <2>3. CASE s = <<k.id, "key">>
    BY <1>4, <2>2, <2>3
  <2>4. CASE s # <<k.id, "key">>
    <3>1. (\E m \in c.Names : listed[m] # None /\ s = <<listed[m].id, listed[m].auth>>) \/ s = <<k.id, k.auth>>
      BY <1>2, <1>6, <1>8, <2>1, <2>4 DEF COwned, COwns
    <3> QED BY <1>4, <2>4, <3>1
  <2> QED BY <2>3, <2>4
<1> QED BY <1>10, <1>11, <1>12, <1>13, <1>14

\* The entry of a connection that was removed is no other's.
LEMMA CForgets ==
    ASSUME NEW c, Connecting(c)!ConstantsFit, CAlone(c), CBody(c), NEW p \in c.Procs, Connecting(c)!Forget(p)
    PROVE  CBody(c)'
<1> USE DEF CBody
<1>0. working[p].at = "forget" /\ UNCHANGED listed
  BY DEF Connecting!Forget
<1>1. /\ CNamed(c, working[p]) /\ CDone(c, working[p])
      /\ working[p].name \in c.Names /\ working[p].conn \in Connecting(c)!Connection
  BY <1>0, CRunning
<1>2. PICK k, n : k = working[p].conn /\ n = working[p].name
  OBVIOUS
<1>3. reported' = [reported EXCEPT ![n] = Gone] /\ working' = [working EXCEPT ![p] = Connecting(c)!Idle]
  BY <1>2 DEF Connecting!Forget
<1>4. /\ listed[n] = None /\ n \in c.Names /\ k \in Connecting(c)!Connection /\ CRight(k)
      /\ \A m \in c.Names \ {n} : listed[m] # None => listed[m].id # k.id
  BY <1>0, <1>1, <1>2 DEF CDone, CNamed
<1>5. Connecting(c)!KeySlot(k) = <<k.id, k.auth>>
  BY <1>4, CConstants DEF Connecting!KeySlot, CRight, Connecting!Connection, Connecting!Auths
<1>6. \/ secrets' = [s \in Connecting(c)!Slots |-> IF s = <<k.id, k.auth>> THEN None ELSE secrets[s]]
      \/ "keyring" \in c.Faults /\ secrets' = secrets
  BY <1>2, <1>5 DEF Connecting!Forget, Connecting!Forgotten
<1>7. Connecting(c)!Idle \in CRun(c) /\ Connecting(c)!Idle.at = "idle"
  BY DEF Connecting!Idle, CRun, Connecting!Steps
<1>8. working' \in [c.Procs -> CRun(c)] /\ working'[p].at = "idle" /\ \A q \in c.Procs : q = p
  BY <1>3, <1>7, CSets
<1>9. /\ secrets' \in [Connecting(c)!Slots -> Connecting(c)!Auths \cup {None}]
      /\ \A s \in Connecting(c)!Slots : s # <<k.id, k.auth>> => secrets'[s] = secrets[s]
      /\ c.Faults = {} => \A s \in Connecting(c)!Slots : s = <<k.id, k.auth>> => secrets'[s] = None
  BY <1>6 DEF CTypes
<1>10. reported' \in [c.Names -> Connecting(c)!Connection \cup {Nothing, Gone}]
  BY <1>3, <1>4 DEF CTypes
<1>11. CTypes(c)'
  BY <1>0, <1>8, <1>9, <1>10 DEF CTypes
<1>12. \A q \in c.Procs : CWork(c, working[q])'
  BY <1>8 DEF CWork
<1>13. CTold(c)'
  <2>1. SUFFICES ASSUME NEW m \in c.Names PROVE CSaid(m)'
    BY DEF CTold
  <2>2. CASE m = n
    <3>1. reported'[m] = Gone /\ listed'[m] = None
      BY <1>0, <1>3, <1>4, <2>2 DEF CTypes
    <3> QED BY <3>1, CConstants DEF CSaid
  <2>3. CASE m # n
    <3>1. CSaid(m)
      BY <1>2, <1>8, <2>3 DEF CTold
    <3> QED BY <1>0, <1>3, <2>3, <3>1 DEF CSaid, CTypes
  <2> QED BY <2>2, <2>3
<1>14. CTokens(c)'
  <2>1. ASSUME NEW m \in c.Names, listed[m] # None
        PROVE  <<listed[m].id, "token">> \in Connecting(c)!Slots /\ <<listed[m].id, "token">> # <<k.id, k.auth>>
    BY <1>4, <2>1 DEF CTypes, Connecting!Slots, Connecting!Connection, Connecting!Auths
  <2> QED BY <1>0, <1>9, <2>1 DEF CTokens
<1>15. COwned(c)'
  <2>1. SUFFICES ASSUME c.Faults = {}, NEW s \in Connecting(c)!Slots, secrets'[s] # None
                 PROVE  \E m \in c.Names : listed[m] # None /\ s = <<listed[m].id, listed[m].auth>>
    BY <1>0 DEF COwned, COwns
  <2>2. s # <<k.id, k.auth>> /\ secrets[s] # None
    BY <1>9, <2>1
  <2> QED BY <1>2, <1>8, <2>1, <2>2 DEF COwned, COwns
<1> QED BY <1>11, <1>12, <1>13, <1>14, <1>15

LEMMA CFails ==
    ASSUME NEW c, Connecting(c)!ConstantsFit, CAlone(c), CBody(c), NEW p \in c.Procs,
           Connecting(c)!Fails(p) \/ Connecting(c)!Crash(p)
    PROVE  CBody(c)'
<1>0. /\ working' = [working EXCEPT ![p] = Connecting(c)!Idle] /\ UNCHANGED <<listed, secrets>>
      /\ working[p].at # "idle"
  BY DEF Connecting!Fails, Connecting!Crash
<1>1. CASE reported' = reported /\ working[p].at \in {"token", "rotate"}
  <2>1. Connecting(c)!Idle \in CRun(c) /\ Connecting(c)!Idle.at = "idle"
    BY DEF Connecting!Idle, CRun, Connecting!Steps
  <2>2. CWork(c, Connecting(c)!Idle)
    BY <2>1 DEF CWork
  <2> QED BY <1>0, <1>1, <2>1, <2>2, CGoesOn
<1>2. CASE c.Faults # {} /\ reported' = [reported EXCEPT ![working[p].name] = Nothing]
  BY <1>0, <1>2, CStops
<1>3. Connecting(c)!Fails(p) => \/ reported' = reported /\ working[p].at \in {"token", "rotate"}
                                \/ c.Faults # {} /\ reported' = [reported EXCEPT ![working[p].name] = Nothing]
  BY DEF Connecting!Fails
<1>4. Connecting(c)!Crash(p) => c.Faults # {} /\ reported' = [reported EXCEPT ![working[p].name] = Nothing]
  BY DEF Connecting!Crash
<1> QED BY <1>1, <1>2, <1>3, <1>4

LEMMA CStep ==
    ASSUME NEW c, Connecting(c)!ConstantsFit, CInv(c), [Connecting(c)!Next]_(Connecting(c)!vars)
    PROVE  CInv(c)'
<1> SUFFICES ASSUME CAlone(c), CBody(c) PROVE CBody(c)'
  BY DEF CInv, CAlone
<1>1. CASE Connecting(c)!Next
  <2>1. PICK p \in c.Procs :
          \/ \E n \in c.Names : \/ Connecting(c)!Add(p, n) \/ Connecting(c)!Login(p, n)
                                \/ Connecting(c)!Edit(p, n) \/ Connecting(c)!Remove(p, n)
          \/ Connecting(c)!Fails(p) \/ Connecting(c)!StoreToken(p) \/ Connecting(c)!RotateKey(p) \/ Connecting(c)!Save(p)
          \/ Connecting(c)!SetKey(p) \/ Connecting(c)!Drop(p) \/ Connecting(c)!Forget(p) \/ Connecting(c)!Crash(p)
    BY <1>1 DEF Connecting!Next
  <2> QED BY <2>1, CBeginsAnew, CFails, CWrites, CSaves, CKeys, CDrops, CForgets
<1>2. CASE UNCHANGED Connecting(c)!vars
  BY <1>2 DEF Connecting!vars, CBody, CTypes, CWork, CNamed, CDone, CTold, CSaid, CTokens, COwned, COwns
<1> QED BY <1>1, <1>2

\* A connection keeps its id: what is saved has that of the list, and one who removes it does not add it.
LEMMA CTells ==
    ASSUME NEW c, Connecting(c)!ConstantsFit, CInv(c), [Connecting(c)!Next]_(Connecting(c)!vars)
    PROVE  Connecting(c)!StepTells
<1> SUFFICES ASSUME CAlone(c), CBody(c), NEW n \in c.Names, listed[n] # None, listed'[n] # None
             PROVE  listed'[n].id = listed[n].id
  BY DEF CInv, CAlone, Connecting!StepTells, Connecting!OneAtATime, Connecting!IdKept
<1>1. UNCHANGED listed \/ \E p \in c.Procs : Connecting(c)!Save(p) \/ Connecting(c)!Drop(p)
  BY DEF Connecting!Next, Connecting!vars, Connecting!Add, Connecting!Login, Connecting!Edit, Connecting!Remove,
     Connecting!Fails, Connecting!StoreToken, Connecting!RotateKey, Connecting!SetKey, Connecting!Forget, Connecting!Crash
<1>2. ASSUME NEW p \in c.Procs, Connecting(c)!Drop(p) PROVE listed'[n].id = listed[n].id
  <2>1. working[p].list = listed
    BY <1>2, CRunning DEF Connecting!Drop
  <2> QED BY <1>2, <2>1 DEF Connecting!Drop, CBody, CTypes
<1>3. ASSUME NEW p \in c.Procs, Connecting(c)!Save(p) PROVE listed'[n].id = listed[n].id
  <2>1. /\ working[p].list = listed /\ working[p].conn \in Connecting(c)!Connection
        /\ working[p].name \in c.Names
    BY <1>3, CRunning DEF Connecting!Save
  <2>2. PICK k, m : k = working[p].conn /\ m = working[p].name
    OBVIOUS
  <2>3. listed' = [listed EXCEPT ![m] = IF listed[m] = None THEN k ELSE [k EXCEPT !.id = listed[m].id]]
    BY <1>3, <2>1, <2>2 DEF Connecting!Save, Connecting!Upserted
  <2>4. [k EXCEPT !.id = listed[n].id].id = listed[n].id
    BY <2>1, <2>2 DEF Connecting!Connection
  <2> QED BY <2>3, <2>4 DEF CBody, CTypes
<1> QED BY <1>1, <1>2, <1>3

-----------------------------------------------------------------------------
(***************************************************************************)
(* The registry's credentials, one command after the other: a command's    *)
(* copy is the file, and what it adds has its credential before it is      *)
(* listed.                                                                 *)
(***************************************************************************)

offered == v1
saved == v2
ring == v3
doing == v4
approved == v5
USE DEF offered, saved, ring, doing, approved

KAlone(c) == \A p, q \in c.Commands : p = q

\* The form of a server of the file, and of the file.
KServer(x) == x = [status |-> x.status, tools |-> x.tools, auth |-> x.auth]
KFile(c, f) == f = [s \in c.Servers |-> f[s]] /\ \A s \in c.Servers : f[s] # Registering(c)!Absent => KServer(f[s])
KThere(c, f, r) == \A s \in c.Servers : f[s] # Registering(c)!Absent /\ f[s].auth # "none" => r[s]

\* What a command that runs has.
KForm(x) == x = [at |-> x.at, op |-> x.op, s |-> x.s, auth |-> x.auth, registry |-> x.registry]
KRun(c, x) ==
    /\ KForm(x) /\ x.s \in c.Servers /\ x.at \in {"signing", "listing", "saving", "deleting"}
    /\ x.at # "deleting" => x.registry = saved /\ saved # c.Torn
    /\ x.at = "deleting" /\ saved # c.Torn => saved[x.s] = Registering(c)!Absent
    /\ x.at \in {"signing", "listing", "saving"} /\ x.op # "add" => saved[x.s] # Registering(c)!Absent
    /\ x.at = "listing" /\ x.op = "add" /\ x.auth # "none" => ring[x.s]
    /\ x.at \in {"signing", "listing"} => x.op \in {"add", "refresh", "login"}

KBody(c) ==
    /\ ring \in [c.Servers -> BOOLEAN]
    /\ saved # c.Torn => KFile(c, saved) /\ KThere(c, saved, ring)
    /\ doing = [p \in c.Commands |-> doing[p]]
    /\ \A p \in c.Commands : doing[p] # Registering(c)!Idle => KRun(c, doing[p])

KInv(c) == KAlone(c) => KBody(c)

LEMMA KInit == ASSUME NEW c, Registering(c)!Init PROVE KInv(c)
<1>1. /\ saved = [s \in c.Servers |-> Registering(c)!Absent] /\ ring = [s \in c.Servers |-> FALSE]
      /\ doing = [p \in c.Commands |-> Registering(c)!Idle]
  BY DEF Registering!Init, Registering!Empty
<1> QED BY <1>1 DEF KInv, KBody, KFile, KThere

LEMMA KHolds == ASSUME NEW c, KInv(c) PROVE Registering(c)!CredentialsKept
BY DEF KInv, KBody, KAlone, KThere, Registering!CredentialsKept, Registering!CredentialIsThere

\* The one command ends, with a file and a ring that agree.
LEMMA KEnds ==
    ASSUME NEW c, KAlone(c), KBody(c), NEW p \in c.Commands, doing' = [doing EXCEPT ![p] = Registering(c)!Idle],
           ring' \in [c.Servers -> BOOLEAN], saved' # c.Torn => KFile(c, saved') /\ KThere(c, saved', ring')
    PROVE  KBody(c)'
<1>1. doing' = [q \in c.Commands |-> doing'[q]] /\ doing'[p] = Registering(c)!Idle /\ \A q \in c.Commands : q = p
  BY DEF KAlone, KBody
<1> QED BY <1>1 DEF KBody, KFile, KThere

\* It goes on, or it begins.
LEMMA KGoes ==
    ASSUME NEW c, KAlone(c), KBody(c), NEW p \in c.Commands, NEW x, doing' = [doing EXCEPT ![p] = x], KRun(c, x)',
           ring' \in [c.Servers -> BOOLEAN], saved' # c.Torn => KFile(c, saved') /\ KThere(c, saved', ring')
    PROVE  KBody(c)'
<1>1. doing' = [q \in c.Commands |-> doing'[q]] /\ doing'[p] = x /\ \A q \in c.Commands : q = p
  BY DEF KAlone, KBody
<1> QED BY <1>1 DEF KBody, KFile, KThere, KRun, KForm

LEMMA KBegins ==
    ASSUME NEW c, KAlone(c), KBody(c), NEW p \in c.Commands, NEW s \in c.Servers,
           \/ Registering(c)!Add(p, s) \/ Registering(c)!Refresh(p, s) \/ Registering(c)!Login(p, s)
           \/ Registering(c)!Approve(p, s) \/ Registering(c)!Remove(p, s)
    PROVE  KBody(c)'
<1>1. saved # c.Torn /\ UNCHANGED saved
  BY DEF Registering!Add, Registering!Refresh, Registering!Login, Registering!Approve, Registering!Remove, Registering!Ready
<1>2. PICK at, op, auth :
        /\ Registering(c)!Begins(p, at, op, s, auth) /\ at \in {"signing", "listing", "saving"}
        /\ op # "add" => saved[s] # Registering(c)!Absent
        /\ at \in {"signing", "listing"} => op \in {"add", "refresh", "login"}
        /\ \/ op = "add" /\ saved[s] = Registering(c)!Absent /\ ring' = [ring EXCEPT ![s] = TRUE]
           \/ (at = "listing" /\ op = "add" => auth = "none") /\ ring' = ring
  BY DEF Registering!Add, Registering!Refresh, Registering!Login, Registering!Approve, Registering!Remove
<1>3. PICK x : x = [at |-> at, op |-> op, s |-> s, auth |-> auth, registry |-> saved]
  OBVIOUS
<1>4. doing' = [doing EXCEPT ![p] = x]
  BY <1>2, <1>3 DEF Registering!Begins
<1>5. ring \in [c.Servers -> BOOLEAN] /\ KFile(c, saved) /\ KThere(c, saved, ring)
  BY <1>1 DEF KBody
<1>6. ring' \in [c.Servers -> BOOLEAN] /\ KThere(c, saved, ring')
  BY <1>2, <1>5 DEF KThere
<1>7. /\ KForm(x) /\ x.at = at /\ x.op = op /\ x.s = s /\ x.auth = auth /\ x.registry = saved
  BY <1>3 DEF KForm
<1>8. at = "listing" /\ op = "add" /\ auth # "none" => ring'[s]
  BY <1>2, <1>5
<1>9. KRun(c, x)'
  BY <1>1, <1>2, <1>7, <1>8 DEF KRun, KForm
<1>10. KFile(c, saved') /\ KThere(c, saved', ring')
  BY <1>1, <1>5, <1>6
<1> QED BY <1>4, <1>6, <1>9, <1>10, KGoes

\* A sign-in stores its token, and goes on.
LEMMA KSigns ==
    ASSUME NEW c, KAlone(c), KBody(c), NEW p \in c.Commands, Registering(c)!SignedIn(p)
    PROVE  KBody(c)'
<1>1. doing[p].at = "signing" /\ UNCHANGED saved
  BY DEF Registering!SignedIn
<1>2. doing[p] # Registering(c)!Idle
  BY <1>1 DEF Registering!Idle
<1>3. PICK w : w = doing[p]
  OBVIOUS
<1>4. KRun(c, w) /\ w.at = "signing" /\ saved # c.Torn
  BY <1>1, <1>2, <1>3 DEF KBody, KRun
<1>5. PICK x : x = [w EXCEPT !.at = "listing"]
  OBVIOUS
<1>6. x = [at |-> "listing", op |-> w.op, s |-> w.s, auth |-> w.auth, registry |-> w.registry]
  BY <1>4, <1>5 DEF KRun, KForm
<1>7. doing' = [doing EXCEPT ![p] = x] /\ ring' = [ring EXCEPT ![w.s] = TRUE]
  BY <1>3, <1>5, Zenon DEF Registering!SignedIn
<1>8. w.s \in c.Servers /\ ring \in [c.Servers -> BOOLEAN] /\ KFile(c, saved) /\ KThere(c, saved, ring)
  BY <1>4 DEF KRun, KBody
<1>9. ring' \in [c.Servers -> BOOLEAN] /\ KThere(c, saved, ring') /\ ring'[w.s]
  BY <1>7, <1>8 DEF KThere
<1>10. KRun(c, x)'
  BY <1>1, <1>4, <1>6, <1>9 DEF KRun, KForm
<1>11. KFile(c, saved') /\ KThere(c, saved', ring')
  BY <1>1, <1>8, <1>9
<1> QED BY <1>7, <1>9, <1>10, <1>11, KGoes

\* A server that is saved has the credential its entry names.
LEMMA KSaves ==
    ASSUME NEW c, KAlone(c), KBody(c), NEW p \in c.Commands, doing[p].at \in {"listing", "saving"},
           doing[p].at = "saving" => doing[p].op # "add", UNCHANGED ring,
           NEW config, KServer(config), config.auth = Registering(c)!Given(p).auth, Registering(c)!Saves(p, config)
    PROVE  KBody(c)'
<1>1. doing[p] # Registering(c)!Idle
  BY DEF Registering!Idle
<1>2. PICK s : s = doing[p].s
  OBVIOUS
<1>3. /\ KRun(c, doing[p]) /\ s \in c.Servers /\ saved # c.Torn /\ doing[p].registry = saved
      /\ KFile(c, saved) /\ KThere(c, saved, ring) /\ ring \in [c.Servers -> BOOLEAN]
  BY <1>1, <1>2 DEF KBody, KRun
<1>4. saved' = [saved EXCEPT ![s] = config] /\ doing' = [doing EXCEPT ![p] = Registering(c)!Idle]
  BY <1>2, <1>3 DEF Registering!Saves
<1>5. config.auth # "none" => ring[s]
  <2>1. CASE doing[p].op = "add"
    BY <1>2, <1>3, <2>1 DEF KRun, Registering!Given
  <2>2. CASE doing[p].op # "add"
    BY <1>2, <1>3, <2>2 DEF KRun, KThere, Registering!Given
  <2> QED BY <2>1, <2>2
<1>6. saved'[s] = config /\ \A u \in c.Servers \ {s} : saved'[u] = saved[u]
  BY <1>3, <1>4 DEF KFile
<1>7. saved' = [u \in c.Servers |-> saved'[u]]
  BY <1>3, <1>4 DEF KFile
<1>8. KFile(c, saved') /\ KThere(c, saved', ring')
  BY <1>3, <1>5, <1>6, <1>7 DEF KFile, KThere
<1> QED BY <1>3, <1>4, <1>8, KEnds

\* What a discovery and an approval save is the server they were given, with its credential.
LEMMA KGiven ==
    ASSUME NEW c, KBody(c), NEW p \in c.Commands, doing[p].at \in {"listing", "saving"},
           doing[p].at = "saving" => doing[p].op # "add"
    PROVE  KServer(Registering(c)!Given(p))
<1>1. doing[p] # Registering(c)!Idle
  BY DEF Registering!Idle
<1>2. KRun(c, doing[p]) /\ saved # c.Torn /\ doing[p].registry = saved /\ KFile(c, saved) /\ doing[p].s \in c.Servers
  BY <1>1 DEF KBody, KRun
<1>3. CASE doing[p].op = "add"
  BY <1>3 DEF Registering!Given, KServer
<1>4. CASE doing[p].op # "add"
  BY <1>2, <1>4 DEF Registering!Given, KRun, KFile
<1> QED BY <1>3, <1>4

KWith(x, tools, status) == [x EXCEPT !.tools = tools, !.status = status]
LEMMA KChanged ==
    ASSUME NEW x, KServer(x), NEW tools, NEW status
    PROVE  KServer(KWith(x, tools, status)) /\ KWith(x, tools, status).auth = x.auth
<1>1. PICK a, b, d : x = [status |-> a, tools |-> b, auth |-> d]
  BY DEF KServer
<1>2. x \in [status : {a}, tools : {b}, auth : {d}]
  BY <1>1
<1>3. KWith(x, tools, status) \in [status : {status}, tools : {tools}, auth : {d}]
  BY <1>2 DEF KWith
<1>4. \A y \in [status : {status}, tools : {tools}, auth : {d}] : KServer(y) /\ y.auth = d
  BY DEF KServer
<1> QED BY <1>1, <1>3, <1>4

LEMMA KResults ==
    ASSUME NEW c, NEW x, KServer(x), NEW fresh, NEW wanted, NEW y,
           y \in {Registering(c)!Discovered(x, fresh), Registering(c)!Unreached(x), Registering(c)!Approved(x, wanted)}
    PROVE  KServer(y) /\ y.auth = x.auth
<1>1. CASE y = Registering(c)!Discovered(x, fresh)
  <2> DEFINE tools == Registering(c)!Diff(x.tools, fresh)
             status == IF Registering(c)!Changed(tools) = {} THEN "connected" ELSE "changed"
  <2>1. y = KWith(x, tools, status)
    BY <1>1, Zenon DEF Registering!Discovered, KWith
  <2> HIDE DEF tools, status
  <2> QED BY <2>1, KChanged
<1>2. CASE y = Registering(c)!Unreached(x)
  <2>1. y = [x EXCEPT !.status = "unreachable"]
    BY <1>2, Zenon DEF Registering!Unreached
  <2> QED BY <2>1 DEF KServer
<1>3. CASE y = Registering(c)!Approved(x, wanted)
  <2> DEFINE tools == [t \in c.Tools |-> IF t \in wanted THEN [x.tools[t] EXCEPT !.status = "active"] ELSE x.tools[t]]
             status == Registering(c)!StatusAfter(x, tools)
  <2>1. y = KWith(x, tools, status)
    BY <1>3, Zenon DEF Registering!Approved, KWith
  <2> HIDE DEF tools, status
  <2> QED BY <2>1, KChanged
<1> QED BY <1>1, <1>2, <1>3

LEMMA KLists ==
    ASSUME NEW c, KAlone(c), KBody(c), NEW p \in c.Commands,
           Registering(c)!Listed(p) \/ Registering(c)!ListFails(p) \/ Registering(c)!SaveApproval(p)
    PROVE  KBody(c)'
<1>1. doing[p].at \in {"listing", "saving"} /\ (doing[p].at = "saving" => doing[p].op # "add") /\ UNCHANGED ring
  BY DEF Registering!Listed, Registering!ListFails, Registering!SaveApproval
<1>2. PICK x : x = Registering(c)!Given(p)
  OBVIOUS
<1>3. KServer(x)
  BY <1>1, <1>2, KGiven
<1>4. PICK fresh, wanted : \/ Registering(c)!Saves(p, Registering(c)!Discovered(x, fresh))
                           \/ Registering(c)!Saves(p, Registering(c)!Unreached(x))
                           \/ Registering(c)!Saves(p, Registering(c)!Approved(x, wanted))
  BY <1>2, Zenon DEF Registering!Listed, Registering!ListFails, Registering!SaveApproval
<1>5. PICK y : /\ y \in {Registering(c)!Discovered(x, fresh), Registering(c)!Unreached(x), Registering(c)!Approved(x, wanted)}
               /\ Registering(c)!Saves(p, y)
  BY <1>4, Zenon
<1>6. KServer(y) /\ y.auth = Registering(c)!Given(p).auth
  BY <1>2, <1>3, <1>5, KResults
<1> QED BY <1>1, <1>5, <1>6, KSaves

LEMMA KRemoves ==
    ASSUME NEW c, KAlone(c), KBody(c), NEW p \in c.Commands, Registering(c)!Removed(p)
    PROVE  KBody(c)'
<1>1. doing[p].at = "saving" /\ UNCHANGED ring
  BY DEF Registering!Removed, Registering!SaveRemoval
<1>2. doing[p] # Registering(c)!Idle
  BY <1>1 DEF Registering!Idle
<1>3. PICK w, s : w = doing[p] /\ s = w.s
  OBVIOUS
<1>4. /\ KRun(c, w) /\ s \in c.Servers /\ saved # c.Torn /\ w.registry = saved
      /\ KFile(c, saved) /\ KThere(c, saved, ring) /\ ring \in [c.Servers -> BOOLEAN]
  BY <1>1, <1>2, <1>3 DEF KBody, KRun
<1>5. PICK x : x = [w EXCEPT !.at = "deleting"]
  OBVIOUS
<1>6. saved' = [saved EXCEPT ![s] = Registering(c)!Absent]
  BY <1>3, <1>4 DEF Registering!Removed, Registering!SaveRemoval
<1>7. doing' = [doing EXCEPT ![p] = Registering(c)!Idle] \/ doing' = [doing EXCEPT ![p] = x]
  BY <1>3, <1>5, Zenon DEF Registering!Removed, Registering!SaveRemoval
<1>8. x = [at |-> "deleting", op |-> w.op, s |-> w.s, auth |-> w.auth, registry |-> w.registry]
  BY <1>4, <1>5 DEF KRun, KForm
<1>9. saved' = [u \in c.Servers |-> saved'[u]] /\ saved'[s] = Registering(c)!Absent /\ \A u \in c.Servers \ {s} : saved'[u] = saved[u]
  BY <1>4, <1>6 DEF KFile
<1>10. KFile(c, saved') /\ KThere(c, saved', ring')
  BY <1>1, <1>4, <1>9 DEF KFile, KThere
<1>11. KRun(c, x)'
  BY <1>3, <1>4, <1>8, <1>9 DEF KRun, KForm
<1> QED BY <1>1, <1>4, <1>7, <1>10, <1>11, KGoes, KEnds

LEMMA KOthers ==
    ASSUME NEW c, KAlone(c), KBody(c), NEW p \in c.Commands,
           Registering(c)!SignInFails(p) \/ Registering(c)!DeleteCredential(p) \/ Registering(c)!Crash(p)
    PROVE  KBody(c)'
<1>1. doing' = [doing EXCEPT ![p] = Registering(c)!Idle] /\ saved' \in {saved, c.Torn}
  BY DEF Registering!SignInFails, Registering!DeleteCredential, Registering!Crash
<1>2. CASE UNCHANGED ring
  BY <1>1, <1>2, KEnds DEF KBody
<1>3. CASE Registering(c)!DeleteCredential(p)
  <2>1. doing[p].at = "deleting" /\ UNCHANGED saved
    BY <1>3 DEF Registering!DeleteCredential
  <2>2. PICK s : s = doing[p].s
    OBVIOUS
  <2>3. doing[p] # Registering(c)!Idle
    BY <2>1 DEF Registering!Idle
  <2>4. s \in c.Servers /\ ring \in [c.Servers -> BOOLEAN] /\ (saved # c.Torn => saved[s] = Registering(c)!Absent)
    BY <2>1, <2>2, <2>3 DEF KBody, KRun
  <2>5. PICK b : ring' = [ring EXCEPT ![s] = b] /\ b \in BOOLEAN
    <3>1. PICK gone \in BOOLEAN : ring' = [ring EXCEPT ![s] = ring[s] /\ ~gone]
      BY <1>3, <2>2, Zenon DEF Registering!DeleteCredential
    <3> QED BY <3>1, Zenon
  <2>6. ring' \in [c.Servers -> BOOLEAN] /\ \A u \in c.Servers \ {s} : ring'[u] = ring[u]
    BY <2>4, <2>5
  <2>7. saved' # c.Torn => KFile(c, saved') /\ KThere(c, saved', ring')
    BY <2>1, <2>4, <2>6 DEF KBody, KThere
  <2> QED BY <1>1, <2>6, <2>7, KEnds
<1> QED BY <1>2, <1>3 DEF Registering!SignInFails, Registering!Crash

LEMMA KStep ==
    ASSUME NEW c, KInv(c), [Registering(c)!Next]_(Registering(c)!vars)
    PROVE  KInv(c)'
<1> SUFFICES ASSUME KAlone(c), KBody(c) PROVE KBody(c)'
  BY DEF KInv, KAlone
<1>1. CASE UNCHANGED <<saved, ring, doing>>
  BY <1>1 DEF KBody, KFile, KThere, KRun, KForm
<1>2. (\E s \in c.Servers, t \in c.Tools, v \in 0..c.MaxVersion : Registering(c)!Offers(s, t, v)) => UNCHANGED <<saved, ring, doing>>
  BY DEF Registering!Offers
<1>3. UNCHANGED Registering(c)!vars => UNCHANGED <<saved, ring, doing>>
  BY DEF Registering!vars
<1> QED BY <1>1, <1>2, <1>3, KBegins, KSigns, KLists, KRemoves, KOthers DEF Registering!Next

-----------------------------------------------------------------------------
(***************************************************************************)
(* FileTools.  Whatever runs at the same time, what a call holds was made  *)
(* and its copy is whole before it is installed.  One call after the       *)
(* other, a destination is free once it is displaced, and what is removed  *)
(* is in the copy or was asked to go.                                      *)
(***************************************************************************)

ws == v1
trash == v2
debris == v3
made == v4
gone == v5
task == v6
USE DEF ws, trash, debris, made, gone, task

FMoving == {"displace", "relocate", "stage", "building", "install", "purge", "purged", "discard", "restore"}
FTask(c) ==
    [at : FMoving \cup {"idle", "write", "trash", "hard", "prune", "rmdir", "stranded"},
     op : {"none", "create", "overwrite", "append", "trash", "hard", "move", "copy"},
     src : c.Names \cup {None}, dst : c.Names \cup {None}, over : BOOLEAN,
     load : Filing(c)!Entry \cup {None}, staged : Filing(c)!Entry \cup {None}, aside : Filing(c)!Entry \cup {None},
     before : [c.Names -> Filing(c)!Entry \cup {None}] \cup {None}, ok : BOOLEAN, told : BOOLEAN]

FTypes(c) ==
    /\ ws \in [c.Names -> Filing(c)!Entry \cup {None}]
    /\ trash \in Seq(Filing(c)!Entry) /\ debris \subseteq Filing(c)!Entry
    /\ made \subseteq c.Data /\ gone \subseteq made
    /\ task \in [c.Threads -> FTask(c)]

\* Something made, and no copy under way.
FSound(e) == e = None \/ (e.data \subseteq made /\ e.state # "building")
FShelves(c) == (\A n \in c.Names : FSound(ws[n])) /\ (\A i \in 1..Len(trash) : FSound(trash[i]))

\* A call, whatever the others do.
FCall(c, t) ==
    /\ task[t].at = "write" => task[t].dst \in c.Names /\ task[t].load # None /\ task[t].load.state = "whole"
    /\ task[t].at \in {"trash", "hard", "rmdir"} => task[t].src \in c.Names
    /\ task[t].at \in {"hard", "rmdir"} => task[t].op = "hard"
    /\ task[t].at \in FMoving =>
         task[t].src \in c.Names /\ task[t].dst \in c.Names /\ task[t].src # task[t].dst /\ task[t].op \in {"move", "copy"}
    /\ task[t].at \in {"relocate", "purge", "purged"} => task[t].op = "move"
    /\ FSound(task[t].aside) /\ (task[t].at \notin FMoving => task[t].aside = None)
    /\ task[t].at = "building" => task[t].staged # None /\ task[t].staged.data \subseteq made
    /\ (task[t].at = "install" \/ (task[t].at = "displace" /\ task[t].op = "copy")) =>
         task[t].staged # None /\ task[t].staged.data \subseteq made /\ task[t].staged.state = "whole"

FBound(c) == {"crash", "locked"} \cap c.Faults = {} => Filing(c)!BoundedTrash

\* A call beside no other: its destination...
FFree(c, t) ==
    /\ task[t].at = "write" /\ ~task[t].over =>
         ws[task[t].dst] = None \/ ws[task[t].dst].data \subseteq task[t].load.data
    /\ (task[t].at = "displace" \/ (task[t].op = "copy" /\ task[t].at \in {"stage", "building"})) =>
         task[t].aside = None /\ (~task[t].over => ws[task[t].dst] = None)
    /\ (task[t].at \in {"relocate", "install"} \/ (task[t].op = "move" /\ task[t].at \in {"stage", "building"})) =>
         ws[task[t].dst] = None
    /\ task[t].at = "restore" => task[t].aside = None \/ ws[task[t].dst] = None
    /\ task[t].at \in FMoving /\ ~task[t].over => task[t].aside = None

\* ...its source, its copy and its entry in the trash...
FHeld(c, t) ==
    /\ task[t].op = "move" /\ task[t].at \in {"stage", "building", "install", "purge", "purged"} => "cross" \in c.Faults
    /\ task[t].op = "move" /\ task[t].at \in {"building", "install"} =>
         ws[task[t].src] = None \/ ws[task[t].src].data \ c.Special \subseteq task[t].staged.data
    /\ task[t].at = "purge" =>
         /\ ws[task[t].dst] # None /\ ws[task[t].dst].state = "whole"
         /\ ws[task[t].src] = None \/ ws[task[t].src].data \ c.Special \subseteq ws[task[t].dst].data
    /\ task[t].at \in {"purged", "rmdir"} => ws[task[t].src] = None \/ ws[task[t].src].state = "removing"
    /\ task[t].at = "discard" /\ task[t].op = "move" /\ "locked" \notin c.Faults => ws[task[t].src] = None
    /\ task[t].at = "prune" /\ "clock" \notin c.Faults => Len(trash) > 0 /\ trash[Len(trash)] = task[t].load

\* ...and the workspace it began with.
FBefore(c, t) ==
    c.History =>
      /\ task[t].at # "idle" => task[t].before \in [c.Names -> Filing(c)!Entry \cup {None}]
      /\ (task[t].at \in {"write", "trash", "hard", "displace"} \/ (task[t].op = "copy" /\ task[t].at \in {"stage", "building"}))
           => ws = task[t].before
      /\ (task[t].at \in {"relocate", "install"} \/ (task[t].op = "move" /\ task[t].at \in {"stage", "building"}))
           => task[t].aside = task[t].before[task[t].dst] /\ ws = [task[t].before EXCEPT ![task[t].dst] = None]
      /\ task[t].at = "rmdir" => ws = [task[t].before EXCEPT ![task[t].src].state = "removing"]
      /\ task[t].at = "restore" => Filing(c)!Restored(t) = task[t].before
      /\ task[t].at = "stranded" => Filing(c)!Stranded(t)

FSolo(c, t) == FFree(c, t) /\ FHeld(c, t) /\ FBefore(c, t)

\* Something is whole on one of the shelves.
FIs(e, d) == e # None /\ e.state = "whole" /\ d \in e.data
FSafe(c, d) ==
    \/ \E n \in c.Names : FIs(ws[n], d)
    \/ \E i \in 1..Len(trash) : FIs(trash[i], d)
    \/ \E e \in debris : FIs(e, d)
    \/ \E t \in c.Threads : FIs(task[t].aside, d)
FWhole(c) == \A d \in made \ gone : FSafe(c, d)

FAlone(c) == \A s, t \in c.Threads : s = t
FNoLinks(c) == c.Special = {} \/ "cross" \notin c.Faults

FInv(c) ==
    /\ FTypes(c) /\ FShelves(c) /\ (\A t \in c.Threads : FCall(c, t)) /\ FBound(c)
    /\ FAlone(c) => \A t \in c.Threads : FSolo(c, t)
    /\ FAlone(c) /\ FNoLinks(c) => FWhole(c)

LEMMA FHolds == ASSUME NEW c, Filing(c)!ConstantsFit, FInv(c) PROVE Filing(c)!FilesKept
<1>1. Filing(c)!TypeOK
  <2>1. \A t \in c.Threads : {task[t].staged, task[t].aside, task[t].load} \subseteq Filing(c)!Entry \cup {None}
    BY DEF FInv, FTypes, FTask
  <2> QED BY <2>1 DEF FInv, FTypes, Filing!TypeOK
<1>2. Filing(c)!NoHalfCopy
  BY DEF FInv, FShelves, FSound, Filing!NoHalfCopy
<1>3. ASSUME FWhole(c) PROVE Filing(c)!Kept
  <2>1. SUFFICES ASSUME NEW d \in made \ gone
                 PROVE  \E e \in Filing(c)!Places \ {None} : e.state = "whole" /\ d \in e.data
    BY DEF Filing!Kept
  <2>2. FSafe(c, d)
    BY <1>3 DEF FWhole
  <2>3. \A n \in c.Names : ws[n] \in Filing(c)!Places
    BY DEF Filing!Places
  <2>4. \A i \in 1..Len(trash) : trash[i] \in Filing(c)!Places
    BY DEF Filing!Places, FInv, FTypes
  <2>5. \A e \in debris : e \in Filing(c)!Places
    BY DEF Filing!Places
  <2>6. \A t \in c.Threads : task[t].aside \in Filing(c)!Places
    BY DEF Filing!Places
  <2> QED BY <2>2, <2>3, <2>4, <2>5, <2>6 DEF FSafe, FIs
<1>4. Filing(c)!OneAtATime <=> FAlone(c)
  BY DEF Filing!OneAtATime, FAlone
<1> QED BY <1>1, <1>2, <1>3, <1>4 DEF FInv, FBound, FNoLinks, Filing!FilesKept

\* What a step of one call has to show.
FTold(c, t) ==
    /\ FTypes(c)' /\ made \subseteq made' /\ FShelves(c)' /\ FCall(c, t)'
    /\ \A s \in c.Threads \ {t} : task'[s] = task[s]
    /\ \/ trash' = trash /\ (task[t].at = "prune" => task'[t].at = "prune")
       \/ task'[t].at = "prune" \/ Len(trash') <= c.Limit \/ "locked" \in c.Faults
    /\ FAlone(c) => FSolo(c, t)'
    /\ FAlone(c) /\ FNoLinks(c) => FWhole(c)'

LEMMA FFrame == ASSUME NEW c, FInv(c), NEW t \in c.Threads, FTold(c, t) PROVE FInv(c)'
<1> USE DEF FInv, FTold
<1>1. \A s \in c.Threads : FCall(c, s)'
  <2>1. SUFFICES ASSUME NEW s \in c.Threads, s # t PROVE FCall(c, s)'
    OBVIOUS
  <2>2. task'[s] = task[s]
    BY <2>1
  <2>4. FCall(c, s)
    BY <2>1
  <2>3. \A e : FSound(e) => FSound(e)'
    BY DEF FSound
  <2> QED BY <2>2, <2>3, <2>4 DEF FCall, FSound
<1>2. FBound(c)'
  BY DEF FBound, Filing!BoundedTrash, Filing!At
<1>3. FAlone(c)' <=> FAlone(c)
  BY DEF FAlone
<1>4. FAlone(c) => \A s \in c.Threads : FSolo(c, s)'
  BY DEF FAlone
<1> QED BY <1>1, <1>2, <1>3, <1>4 DEF FNoLinks

\* A call that ends, goes on and is changed otherwise.
LEMMA FEnds ==
    ASSUME NEW c, FTypes(c), NEW t \in c.Threads, NEW ok \in BOOLEAN, Filing(c)!Ends(t, ok)
    PROVE  /\ task' \in [c.Threads -> FTask(c)] /\ \A s \in c.Threads \ {t} : task'[s] = task[s]
           /\ task'[t].at = "idle" /\ task'[t].aside = None /\ task'[t].ok = ok
           /\ FCall(c, t)' /\ FSolo(c, t)'
<1> DEFINE k == [Filing(c)!Idle EXCEPT !.ok = ok]
<1>1. task' = [task EXCEPT ![t] = k]
  BY DEF Filing!Ends
<1>2. k \in FTask(c) /\ k.at = "idle" /\ k.aside = None /\ k.ok = ok /\ k.op = "none"
  BY DEF Filing!Idle, FTask
<1> HIDE DEF k
<1>3. task' \in [c.Threads -> FTask(c)] /\ task'[t] = k /\ \A s \in c.Threads \ {t} : task'[s] = task[s]
  BY <1>1, <1>2 DEF FTypes
<1>4. FCall(c, t)'
  BY <1>2, <1>3 DEF FCall, FSound, FMoving
<1>5. FFree(c, t)' /\ FHeld(c, t)'
  BY <1>2, <1>3 DEF FFree, FHeld, FMoving
<1>6. FBefore(c, t)'
  BY <1>2, <1>3 DEF FBefore
<1> QED BY <1>2, <1>3, <1>4, <1>5, <1>6 DEF FSolo

LEMMA FGoes ==
    ASSUME NEW c, FTypes(c), NEW t \in c.Threads, NEW x \in FMoving \cup {"rmdir"}, Filing(c)!Goes(t, x)
    PROVE  /\ task' \in [c.Threads -> FTask(c)] /\ \A s \in c.Threads \ {t} : task'[s] = task[s]
           /\ task'[t].at = x /\ task'[t].op = task[t].op /\ task'[t].src = task[t].src /\ task'[t].dst = task[t].dst
           /\ task'[t].over = task[t].over /\ task'[t].load = task[t].load /\ task'[t].staged = task[t].staged
           /\ task'[t].aside = task[t].aside /\ task'[t].before = task[t].before
<1> DEFINE k == [task[t] EXCEPT !.at = x]
<1>1. task' = [task EXCEPT ![t] = k]
  BY DEF Filing!Goes
<1>2. task[t] \in FTask(c)
  BY DEF FTypes
<1>3. /\ k \in FTask(c) /\ k.at = x /\ k.op = task[t].op /\ k.src = task[t].src /\ k.dst = task[t].dst
      /\ k.over = task[t].over /\ k.load = task[t].load /\ k.staged = task[t].staged
      /\ k.aside = task[t].aside /\ k.before = task[t].before
  BY <1>2 DEF FTask
<1>4. task' \in [c.Threads -> FTask(c)] /\ task'[t] = k /\ \A s \in c.Threads \ {t} : task'[s] = task[s]
  BY <1>1, <1>3 DEF FTypes
<1> QED BY <1>3, <1>4

LEMMA FSets ==
    ASSUME NEW c, FTypes(c), NEW t \in c.Threads, NEW k \in FTask(c), task' = [task EXCEPT ![t] = k]
    PROVE  task' \in [c.Threads -> FTask(c)] /\ task'[t] = k /\ \A s \in c.Threads \ {t} : task'[s] = task[s]
BY DEF FTypes

\* What is whole stays, if what leaves a shelf is on another or gone.
LEMMA FStays ==
    ASSUME NEW c, FWhole(c), NEW more, made' = made \cup more, gone \subseteq gone', debris \subseteq debris',
           \A d \in more : FSafe(c, d)',
           \A d \in made \ gone' : /\ \A n \in c.Names : FIs(ws[n], d) => FSafe(c, d)'
                                   /\ \A i \in 1..Len(trash) : FIs(trash[i], d) => FSafe(c, d)'
                                   /\ \A s \in c.Threads : FIs(task[s].aside, d) => FSafe(c, d)'
    PROVE  FWhole(c)'
<1>1. SUFFICES ASSUME NEW d \in made \ gone' PROVE FSafe(c, d)'
  BY DEF FWhole
<1>2. FSafe(c, d)
  BY <1>1 DEF FWhole
<1>3. ASSUME NEW e \in debris, FIs(e, d) PROVE FSafe(c, d)'
  BY <1>3 DEF FSafe, FIs
<1> QED BY <1>2, <1>3 DEF FSafe

LEMMA FStill ==
    ASSUME NEW c, FWhole(c), UNCHANGED <<ws, trash, debris, made>>, gone \subseteq gone',
           \A s \in c.Threads : task'[s].aside = task[s].aside
    PROVE  FWhole(c)'
BY DEF FWhole, FSafe, FIs

\* Where each shelf's part is told for any datum.
LEMMA FShifts ==
    ASSUME NEW c, FWhole(c), made' = made, gone \subseteq gone', debris \subseteq debris',
           \A n \in c.Names, d \in made \ gone' : FIs(ws[n], d) => FSafe(c, d)',
           \A i \in 1..Len(trash), d \in made \ gone' : FIs(trash[i], d) => FSafe(c, d)',
           \A s \in c.Threads, d \in made \ gone' : FIs(task[s].aside, d) => FSafe(c, d)'
    PROVE  FWhole(c)'
<1>1. SUFFICES ASSUME NEW d \in made \ gone' PROVE FSafe(c, d)'
  BY DEF FWhole
<1>2. FSafe(c, d)
  BY <1>1 DEF FWhole
<1>3. ASSUME NEW e \in debris, FIs(e, d) PROVE FSafe(c, d)'
  BY <1>3 DEF FSafe, FIs
<1> QED BY <1>2, <1>3 DEF FSafe

\* A call that ends without a change, and had nothing aside.
LEMMA FStops ==
    ASSUME NEW c, FInv(c), NEW t \in c.Threads, NEW ok \in BOOLEAN, Filing(c)!Ends(t, ok), task[t].at # "prune",
           task[t].aside = None, UNCHANGED <<ws, trash, debris, made, gone>>
    PROVE  FTold(c, t)
<1> USE DEF FInv
<1>1. /\ task' \in [c.Threads -> FTask(c)] /\ \A s \in c.Threads \ {t} : task'[s] = task[s]
      /\ task'[t].at = "idle" /\ task'[t].aside = None /\ FCall(c, t)' /\ FSolo(c, t)'
  BY FEnds
<1>2. FTypes(c)' /\ FShelves(c)'
  BY <1>1 DEF FTypes, FShelves, FSound
<1>3. FWhole(c) => FWhole(c)'
  BY <1>1, FStill
<1> QED BY <1>1, <1>2, <1>3 DEF FTold

\* Where nothing enters or leaves the trash.
LEMMA FPaths ==
    ASSUME NEW c, FWhole(c), UNCHANGED <<trash, made>>, gone \subseteq gone', debris \subseteq debris',
           \A n \in c.Names, d \in made \ gone' : FIs(ws[n], d) => FSafe(c, d)',
           \A s \in c.Threads, d \in made \ gone' : FIs(task[s].aside, d) => FSafe(c, d)'
    PROVE  FWhole(c)'
<1>1. ASSUME NEW d, NEW i \in 1..Len(trash), FIs(trash[i], d) PROVE FSafe(c, d)'
  BY <1>1 DEF FSafe, FIs
<1> QED BY <1>1, FShifts


\* An entry more in the trash, and the newest of it.
FGrows(S, s, e, r) == s \in Seq(S) /\ e \in S /\ (r = Append(s, e) \/ r = <<e>> \o s)
LEMMA FMore ==
    ASSUME NEW S, NEW s, NEW e, NEW r, FGrows(S, s, e, r)
    PROVE  /\ r \in Seq(S) /\ Len(r) = Len(s) + 1 /\ Len(s) \in Nat
           /\ \E i \in 1..Len(r) : r[i] = e
           /\ \A i \in 1..Len(s) : \E j \in 1..Len(r) : r[j] = s[i]
           /\ \A j \in 1..Len(r) : r[j] = e \/ \E i \in 1..Len(s) : r[j] = s[i]
           /\ r = Append(s, e) => r[Len(r)] = e
<1> USE DEF FGrows
<1>1. CASE r = Append(s, e)
  <2>1. /\ r \in Seq(S) /\ Len(r) = Len(s) + 1 /\ Len(s) \in Nat /\ r[Len(s) + 1] = e
        /\ \A i \in 1..Len(s) : r[i] = s[i]
    BY <1>1
  <2> QED BY <2>1
<1>2. CASE r = <<e>> \o s
  <2>1. <<e>> \in Seq(S) /\ Len(<<e>>) = 1 /\ <<e>>[1] = e
    OBVIOUS
  <2>2. /\ r \in Seq(S) /\ Len(r) = Len(s) + 1 /\ Len(s) \in Nat /\ r[1] = e
        /\ \A i \in 1..Len(s) : r[i + 1] = s[i]
    BY <1>2, <2>1
  <2>3. \A i \in 1..Len(s) : i + 1 \in 1..Len(r)
    BY <2>2
  <2>4. \A j \in 1..Len(r) : j = 1 \/ (j - 1 \in 1..Len(s) /\ r[j] = s[j - 1])
    BY <2>2
  <2>5. 1 \in 1..Len(r)
    BY <2>2
  <2>6. ASSUME r = Append(s, e) PROVE r[Len(r)] = e
    BY <2>6
  <2> QED BY <2>2, <2>3, <2>4, <2>5, <2>6
<1> QED BY <1>1, <1>2

LEMMA FLess ==
    ASSUME NEW S, NEW s \in Seq(S), NEW n \in Nat, Len(s) > n
    PROVE  LET r == SubSeq(s, Len(s) - n + 1, Len(s))
           IN  r \in Seq(S) /\ Len(r) = n /\ \A i \in 1..n : r[i] = s[Len(s) - n + i]
<1>1. Len(s) \in Nat /\ Len(s) - n + 1 \in Nat /\ Len(s) - n + 1 >= 1
  OBVIOUS
<1> QED BY <1>1

\* What is put back where it was displaced.
LEMMA FBack ==
    ASSUME NEW S, NEW T, NEW f \in [S -> T], NEW n \in S, NEW g, g = [f EXCEPT ![n] = None]
    PROVE  (IF f[n] = None THEN g ELSE [g EXCEPT ![n] = f[n]]) = f
OBVIOUS

\* A call that takes something, and goes on.
FAside(r, e, x) == [r EXCEPT !.aside = e, !.at = x]
FStaged(r, e, x) == [r EXCEPT !.staged = e, !.at = x]
LEMMA FTakes ==
    ASSUME NEW c, NEW r \in FTask(c), NEW x \in FMoving, NEW e \in Filing(c)!Entry \cup {None}
    PROVE  LET a == FAside(r, e, x)
               b == FStaged(r, e, x)
           IN  /\ a \in FTask(c) /\ a.at = x /\ a.aside = e /\ a.staged = r.staged
               /\ a.op = r.op /\ a.src = r.src /\ a.dst = r.dst /\ a.over = r.over /\ a.before = r.before
               /\ b \in FTask(c) /\ b.at = x /\ b.staged = e /\ b.aside = r.aside
               /\ b.op = r.op /\ b.src = r.src /\ b.dst = r.dst /\ b.over = r.over /\ b.before = r.before
<1> USE DEF FAside, FStaged
<1> DEFINE a == FAside(r, e, x)
           b == FStaged(r, e, x)
<1>1. a \in FTask(c)
  BY DEF FTask
<1>2. /\ a.at = x /\ a.aside = e /\ a.staged = r.staged
      /\ a.op = r.op /\ a.src = r.src /\ a.dst = r.dst /\ a.over = r.over /\ a.before = r.before
  BY DEF FTask
<1>3. b \in FTask(c)
  BY DEF FTask
<1>4. /\ b.at = x /\ b.staged = e /\ b.aside = r.aside
      /\ b.op = r.op /\ b.src = r.src /\ b.dst = r.dst /\ b.over = r.over /\ b.before = r.before
  BY DEF FTask
<1> QED BY <1>1, <1>2, <1>3, <1>4


LEMMA FComposes == ASSUME NEW c, Filing(c)!ConstantsFit, FInv(c), NEW t \in c.Threads, Filing(c)!Compose(t) PROVE FTold(c, t)
<1> USE DEF FInv
<1>1. PICK n \in c.Names, mode \in {"create", "overwrite", "append"} \cap c.Ops, d \in c.Data \ (made \cup c.Special) :
        task' = [task EXCEPT ![t] =
          [Filing(c)!Idle EXCEPT !.at = "write", !.op = mode, !.dst = n, !.over = (mode = "overwrite"),
                                 !.before = Filing(c)!Remembered,
                                 !.load = Filing(c)!File({d} \cup (IF mode = "append" THEN Filing(c)!Contents(ws[n]) ELSE {}))]]
        /\ (ws[n] # None => mode # "create")
  BY DEF Filing!Compose
<1>2. task[t].at = "idle" /\ UNCHANGED <<ws, trash, debris, made, gone>>
  BY DEF Filing!Compose, Filing!At
<1> DEFINE load == Filing(c)!File({d} \cup (IF mode = "append" THEN Filing(c)!Contents(ws[n]) ELSE {}))
           k == [Filing(c)!Idle EXCEPT !.at = "write", !.op = mode, !.dst = n, !.over = (mode = "overwrite"),
                                       !.before = Filing(c)!Remembered, !.load = load]
<1>3. /\ load \in Filing(c)!Entry /\ load.state = "whole" /\ load # None
      /\ mode = "append" => ws[n] = None \/ ws[n].data \subseteq load.data
  BY DEF Filing!File, Filing!Entry, Filing!Contents, Filing!ConstantsFit, FTypes
<1>4. Filing(c)!Remembered = (IF c.History THEN ws ELSE None)
  BY DEF Filing!Remembered
<1>5. Filing(c)!Remembered \in [c.Names -> Filing(c)!Entry \cup {None}] \cup {None}
  BY <1>4 DEF FTypes
<1>6. (mode = "overwrite") \in BOOLEAN
  OBVIOUS
<1> HIDE DEF load
<1>7. k \in FTask(c)
  BY <1>3, <1>5, <1>6 DEF Filing!Idle, FTask
<1>8. /\ k.at = "write" /\ k.op = mode /\ k.dst = n /\ k.before = Filing(c)!Remembered /\ k.load = load /\ k.aside = None
      /\ k.over = (mode = "overwrite")
  BY DEF Filing!Idle
<1>9. task' = [task EXCEPT ![t] = k]
  BY <1>1 DEF load
<1> HIDE DEF k
<1>10. task' \in [c.Threads -> FTask(c)] /\ task'[t] = k /\ \A s \in c.Threads \ {t} : task'[s] = task[s]
  BY <1>7, <1>9, FSets
<1>11. FTypes(c)' /\ FShelves(c)'
  BY <1>2, <1>10 DEF FTypes, FShelves, FSound
<1>12. FCall(c, t)'
  BY <1>2, <1>3, <1>8, <1>10 DEF FCall, FSound, FMoving
<1>13. ~k.over => mode # "overwrite"
  BY <1>8
<1>14. FFree(c, t)'
  BY <1>1, <1>2, <1>3, <1>8, <1>10, <1>13 DEF FFree, FMoving
<1>15. FHeld(c, t)'
  BY <1>2, <1>8, <1>10 DEF FHeld, FMoving
<1>16. FBefore(c, t)'
  <2>1. c.History => k.before = ws /\ ws \in [c.Names -> Filing(c)!Entry \cup {None}]
    BY <1>4, <1>8 DEF FTypes
  <2> QED BY <1>2, <1>8, <1>10, <2>1 DEF FBefore
<1>17. FWhole(c) => FWhole(c)'
  <2>1. task[t].aside = None
    BY <1>2 DEF FCall, FMoving
  <2>2. \A s \in c.Threads : task'[s].aside = task[s].aside
    BY <1>8, <1>10, <2>1
  <2> QED BY <1>2, <2>2, FStill
<1> QED BY <1>2, <1>10, <1>11, <1>12, <1>14, <1>15, <1>16, <1>17 DEF FTold, FSolo

\* What a timeout does: it ends a write, or the caller is told and the thread goes on.
FCut(c, t) == task[t].at = "write" /\ Filing(c)!Fails(t) /\ UNCHANGED <<ws, trash, debris, made, gone>>
FSlow(c, t) ==
    task[t].at # "idle" /\ task' = [task EXCEPT ![t].told = TRUE] /\ UNCHANGED <<ws, trash, debris, made, gone>>

LEMMA FTimes == ASSUME NEW c, NEW t, Filing(c)!Timeout(t) PROVE FCut(c, t) \/ FSlow(c, t)
BY Zenon DEF Filing!Timeout, Filing!At, FCut, FSlow

LEMMA FWrites ==
    ASSUME NEW c, Filing(c)!ConstantsFit, FInv(c), NEW t \in c.Threads, Filing(c)!Write(t) \/ FCut(c, t)
    PROVE  FTold(c, t)
<1> USE DEF FInv
<1>1. /\ task[t].at = "write" /\ UNCHANGED <<trash, debris>>
      /\ \/ /\ ws' = [ws EXCEPT ![task[t].dst] = task[t].load] /\ made' = made \cup task[t].load.data
            /\ gone' = IF task[t].over THEN gone \cup Filing(c)!Contents(ws[task[t].dst]) ELSE gone
            /\ Filing(c)!Ends(t, TRUE)
         \/ Filing(c)!Ends(t, FALSE) /\ UNCHANGED <<ws, made, gone>>
  BY DEF Filing!Write, FCut, Filing!At, Filing!Put, Filing!Succeeds, Filing!Fails
<1>2. /\ task' \in [c.Threads -> FTask(c)] /\ \A s \in c.Threads \ {t} : task'[s] = task[s]
      /\ task'[t].at = "idle" /\ task'[t].aside = None /\ FCall(c, t)' /\ FSolo(c, t)'
  BY <1>1, FEnds
<1>3. task[t].aside = None /\ task[t].dst \in c.Names /\ task[t].load # None /\ task[t].load.state = "whole"
  BY <1>1 DEF FCall, FMoving
<1>4. \A s \in c.Threads : task'[s].aside = task[s].aside
  BY <1>2, <1>3
<1>5. CASE Filing(c)!Ends(t, FALSE) /\ UNCHANGED <<ws, made, gone>>
  <2>1. FTypes(c)' /\ FShelves(c)'
    BY <1>1, <1>2, <1>5 DEF FTypes, FShelves, FSound
  <2>2. FWhole(c) => FWhole(c)'
    BY <1>1, <1>4, <1>5, FStill
  <2> QED BY <1>1, <1>2, <1>5, <2>1, <2>2 DEF FTold
<1>6. CASE /\ ws' = [ws EXCEPT ![task[t].dst] = task[t].load] /\ made' = made \cup task[t].load.data
           /\ gone' = IF task[t].over THEN gone \cup Filing(c)!Contents(ws[task[t].dst]) ELSE gone
           /\ Filing(c)!Ends(t, TRUE)
  <2> DEFINE n == task[t].dst
             e == task[t].load
  <2>1. e \in Filing(c)!Entry /\ e.data \subseteq c.Data /\ n \in c.Names
    BY <1>3 DEF FTypes, FTask, Filing!Entry
  <2>2. /\ ws' \in [c.Names -> Filing(c)!Entry \cup {None}] /\ ws'[n] = e
        /\ \A m \in c.Names \ {n} : ws'[m] = ws[m]
    BY <1>6, <2>1 DEF FTypes
  <2>3. Filing(c)!Contents(ws[n]) = (IF ws[n] = None THEN {} ELSE ws[n].data) /\ Filing(c)!Contents(ws[n]) \subseteq made
    BY <2>1 DEF Filing!Contents, FShelves, FSound
  <2>4. FTypes(c)'
    BY <1>1, <1>2, <1>6, <2>1, <2>2, <2>3 DEF FTypes
  <2>5. FShelves(c)'
    BY <1>1, <1>3, <1>6, <2>1, <2>2 DEF FShelves, FSound
  <2>6. ASSUME FAlone(c), FWhole(c) PROVE FWhole(c)'
    <3>1. ~task[t].over => ws[n] = None \/ ws[n].data \subseteq e.data
      BY <1>1, <2>6 DEF FSolo, FFree
    <3>2. \A d \in e.data : FSafe(c, d)'
      BY <1>3, <2>1, <2>2 DEF FSafe, FIs
    <3>3. ASSUME NEW d \in made \ gone' PROVE \A m \in c.Names : FIs(ws[m], d) => FSafe(c, d)'
      <4>1. SUFFICES ASSUME NEW m \in c.Names, FIs(ws[m], d) PROVE FSafe(c, d)'
        OBVIOUS
      <4>2. CASE m # n
        BY <2>2, <4>1, <4>2 DEF FSafe, FIs
      <4>3. CASE m = n
        <5>1. d \in Filing(c)!Contents(ws[n]) /\ ws[n] # None
          BY <2>3, <4>1, <4>3 DEF FIs
        <5>2. ~task[t].over
          BY <1>6, <3>3, <5>1
        <5> QED BY <2>3, <3>1, <3>2, <5>1, <5>2
      <4> QED BY <4>2, <4>3
    <3>4. ASSUME NEW d \in made \ gone'
          PROVE  /\ \A i \in 1..Len(trash) : FIs(trash[i], d) => FSafe(c, d)'
                 /\ \A s \in c.Threads : FIs(task[s].aside, d) => FSafe(c, d)'
      BY <1>1, <1>4 DEF FSafe, FIs
    <3>5. gone \subseteq gone'
      BY <1>6
    <3> QED BY <1>1, <1>6, <2>6, <3>2, <3>3, <3>4, <3>5, FStays
  <2> QED BY <1>1, <1>2, <1>6, <2>4, <2>5, <2>6 DEF FTold
<1> QED BY <1>1, <1>5, <1>6


LEMMA FChecks == ASSUME NEW c, Filing(c)!ConstantsFit, FInv(c), NEW t \in c.Threads, Filing(c)!CheckDelete(t) PROVE FTold(c, t)
<1> USE DEF FInv
<1>1. PICK n \in c.Names, op \in {"trash", "hard"} :
        task' = [task EXCEPT ![t] =
          [Filing(c)!Idle EXCEPT !.at = op, !.op = op, !.src = n, !.before = Filing(c)!Remembered]]
  BY DEF Filing!CheckDelete
<1>2. task[t].at = "idle" /\ UNCHANGED <<ws, trash, debris, made, gone>>
  BY DEF Filing!CheckDelete, Filing!At
<1> DEFINE k == [Filing(c)!Idle EXCEPT !.at = op, !.op = op, !.src = n, !.before = Filing(c)!Remembered]
<1>3. Filing(c)!Remembered = (IF c.History THEN ws ELSE None)
  BY DEF Filing!Remembered
<1>4. Filing(c)!Remembered \in [c.Names -> Filing(c)!Entry \cup {None}] \cup {None}
  BY <1>3 DEF FTypes
<1>5. k \in FTask(c)
  BY <1>4 DEF Filing!Idle, FTask
<1>6. k.at = op /\ k.op = op /\ k.src = n /\ k.before = Filing(c)!Remembered /\ k.aside = None
  BY DEF Filing!Idle
<1> HIDE DEF k
<1>7. task' \in [c.Threads -> FTask(c)] /\ task'[t] = k /\ \A s \in c.Threads \ {t} : task'[s] = task[s]
  BY <1>1, <1>5, FSets DEF k
<1>8. FTypes(c)' /\ FShelves(c)'
  BY <1>2, <1>7 DEF FTypes, FShelves, FSound
<1>9. FCall(c, t)'
  BY <1>6, <1>7 DEF FCall, FSound, FMoving
<1>10. FFree(c, t)' /\ FHeld(c, t)'
  BY <1>2, <1>6, <1>7 DEF FFree, FHeld, FMoving
<1>11. FBefore(c, t)'
  <2>1. c.History => k.before = ws /\ ws \in [c.Names -> Filing(c)!Entry \cup {None}]
    BY <1>3, <1>6 DEF FTypes
  <2> QED BY <1>2, <1>6, <1>7, <2>1 DEF FBefore
<1>12. FWhole(c) => FWhole(c)'
  <2>1. task[t].aside = None
    BY <1>2 DEF FCall, FMoving
  <2>2. \A s \in c.Threads : task'[s].aside = task[s].aside
    BY <1>6, <1>7, <2>1
  <2> QED BY <1>2, <2>2, FStill
<1> QED BY <1>2, <1>7, <1>8, <1>9, <1>10, <1>11, <1>12 DEF FTold, FSolo

LEMMA FPlaces == ASSUME NEW c, Filing(c)!ConstantsFit, FInv(c), NEW t \in c.Threads, Filing(c)!Place(t) PROVE FTold(c, t)
<1> USE DEF FInv
<1> DEFINE n == task[t].src
           e == ws[n]
<1>1. task[t].at = "trash" /\ UNCHANGED <<debris, made, gone>> /\ n \in c.Names /\ task[t].aside = None
  BY DEF Filing!Place, Filing!At, FCall, FMoving
<1>2. CASE e = None
  <2>1. Filing(c)!Ends(t, FALSE) /\ UNCHANGED <<ws, trash>>
    BY <1>2 DEF Filing!Place, Filing!Fails
  <2>2. /\ task' \in [c.Threads -> FTask(c)] /\ \A s \in c.Threads \ {t} : task'[s] = task[s]
        /\ task'[t].at = "idle" /\ task'[t].aside = None /\ FCall(c, t)' /\ FSolo(c, t)'
    BY <2>1, FEnds
  <2>3. FTypes(c)' /\ FShelves(c)'
    BY <1>1, <2>1, <2>2 DEF FTypes, FShelves, FSound
  <2>4. \A s \in c.Threads : task'[s].aside = task[s].aside
    BY <1>1, <2>2
  <2>5. FWhole(c) => FWhole(c)'
    BY <1>1, <2>1, <2>4, FStill
  <2> QED BY <1>1, <2>1, <2>2, <2>3, <2>5 DEF FTold
<1>3. CASE e # None
  <2>1. /\ ws' = [ws EXCEPT ![n] = None] /\ task' = [task EXCEPT ![t] = [task[t] EXCEPT !.at = "prune", !.load = e]]
        /\ \/ trash' = Append(trash, e)
           \/ "clock" \in c.Faults /\ trash' = <<e>> \o trash
    BY <1>3 DEF Filing!Place, Filing!Put
  <2> DEFINE k == [task[t] EXCEPT !.at = "prune", !.load = e]
  <2>2. task[t] \in FTask(c) /\ e \in Filing(c)!Entry /\ trash \in Seq(Filing(c)!Entry)
    BY <1>1, <1>3 DEF FTypes
  <2>3. k \in FTask(c) /\ k.at = "prune" /\ k.load = e /\ k.aside = None /\ k.before = task[t].before
    BY <1>1, <2>2 DEF FTask
  <2>4. task' \in [c.Threads -> FTask(c)] /\ task'[t] = k /\ \A s \in c.Threads \ {t} : task'[s] = task[s]
    BY <2>1, <2>3, FSets
  <2> HIDE DEF k
  <2>5. /\ ws' \in [c.Names -> Filing(c)!Entry \cup {None}] /\ ws'[n] = None
        /\ \A m \in c.Names \ {n} : ws'[m] = ws[m]
    BY <1>1, <2>1 DEF FTypes
  <2>6. /\ trash' \in Seq(Filing(c)!Entry) /\ Len(trash') = Len(trash) + 1 /\ Len(trash) \in Nat
        /\ \E i \in 1..Len(trash') : trash'[i] = e
        /\ \A i \in 1..Len(trash) : \E j \in 1..Len(trash') : trash'[j] = trash[i]
        /\ \A j \in 1..Len(trash') : trash'[j] = e \/ \E i \in 1..Len(trash) : trash'[j] = trash[i]
        /\ "clock" \notin c.Faults => trash'[Len(trash')] = e
    <3>1. trash' = Append(trash, e) \/ trash' = <<e>> \o trash
      BY <2>1
    <3> HIDE DEF e
    <3>3. FGrows(Filing(c)!Entry, trash, e, trash')
      BY <2>2, <3>1 DEF FGrows
    <3>2. /\ trash' \in Seq(Filing(c)!Entry) /\ Len(trash') = Len(trash) + 1 /\ Len(trash) \in Nat
          /\ \E i \in 1..Len(trash') : trash'[i] = e
          /\ \A i \in 1..Len(trash) : \E j \in 1..Len(trash') : trash'[j] = trash[i]
          /\ \A j \in 1..Len(trash') : trash'[j] = e \/ \E i \in 1..Len(trash) : trash'[j] = trash[i]
          /\ trash' = Append(trash, e) => trash'[Len(trash')] = e
      BY <3>3, FMore
    <3> QED BY <2>1, <3>2
  <2>7. FTypes(c)'
    BY <1>1, <2>4, <2>5, <2>6 DEF FTypes
  <2>8. FShelves(c)'
    <3>1. FSound(e)
      BY <1>1 DEF FShelves
    <3>2. \A m \in c.Names : FSound(ws[m])'
      BY <1>1, <2>5 DEF FShelves, FSound
    <3>3. \A i \in 1..Len(trash) : FSound(trash[i])
      BY DEF FShelves
    <3>4. \A j \in 1..Len(trash') : FSound(trash'[j])
      BY <2>6, <3>1, <3>3
    <3>5. \A j \in 1..Len(trash') : FSound(trash[j])'
      BY <1>1, <3>4 DEF FSound
    <3> QED BY <3>2, <3>5 DEF FShelves
  <2>9. FCall(c, t)'
    BY <2>3, <2>4 DEF FCall, FSound, FMoving
  <2>10. FFree(c, t)'
    BY <2>3, <2>4 DEF FFree, FMoving
  <2>11. FHeld(c, t)'
    BY <2>3, <2>4, <2>6 DEF FHeld, FMoving
  <2>12. ASSUME FAlone(c) PROVE FBefore(c, t)'
    BY <1>1, <2>3, <2>4, <2>12 DEF FBefore, FSolo
  <2>13. ASSUME FWhole(c) PROVE FWhole(c)'
    <3>1. ASSUME NEW d, NEW m \in c.Names, FIs(ws[m], d) PROVE FSafe(c, d)'
      <4>1. CASE m = n
        BY <2>6, <3>1, <4>1 DEF FSafe, FIs
      <4>2. CASE m # n
        BY <2>5, <3>1, <4>2 DEF FSafe, FIs
      <4> QED BY <4>1, <4>2
    <3>2. ASSUME NEW d, NEW i \in 1..Len(trash), FIs(trash[i], d) PROVE FSafe(c, d)'
      BY <2>6, <3>2 DEF FSafe, FIs
    <3>3. ASSUME NEW d, NEW s \in c.Threads, FIs(task[s].aside, d) PROVE FSafe(c, d)'
      BY <1>1, <2>4, <3>3 DEF FSafe, FIs
    <3>4. made' = made /\ gone \subseteq gone' /\ debris \subseteq debris'
      BY <1>1
    <3> QED BY <2>13, <3>1, <3>2, <3>3, <3>4, FShifts
  <2> QED BY <1>1, <2>3, <2>4, <2>7, <2>8, <2>9, <2>10, <2>11, <2>12, <2>13 DEF FTold, FSolo
<1> QED BY <1>2, <1>3


LEMMA FPrunes == ASSUME NEW c, Filing(c)!ConstantsFit, FInv(c), NEW t \in c.Threads, Filing(c)!Prune(t) PROVE FTold(c, t)
<1> USE DEF FInv
<1> DEFINE more == Len(trash) - c.Limit
           pruned == UNION {trash[i].data : i \in {j \in 1..Len(trash) : j <= more}}
<1>1. /\ task[t].at = "prune" /\ UNCHANGED <<ws, debris, made>> /\ Filing(c)!Ends(t, TRUE)
      /\ trash' = Filing(c)!Newest(trash)
  BY DEF Filing!Prune, Filing!At, Filing!Succeeds
<1>2. trash \in Seq(Filing(c)!Entry) /\ c.Limit \in Nat /\ DOMAIN trash = 1..Len(trash) /\ Len(trash) \in Nat
  BY DEF FTypes, Filing!ConstantsFit
<1>3. gone' = gone \cup pruned
  BY <1>2 DEF Filing!Prune
<1> HIDE DEF pruned
<1>4. /\ task' \in [c.Threads -> FTask(c)] /\ \A s \in c.Threads \ {t} : task'[s] = task[s]
      /\ task'[t].at = "idle" /\ task'[t].aside = None /\ FCall(c, t)' /\ FSolo(c, t)'
  BY <1>1, FEnds
<1>5. task[t].aside = None
  BY <1>1 DEF FCall, FMoving
<1>6. /\ trash' \in Seq(Filing(c)!Entry) /\ Len(trash') <= c.Limit
      /\ \A i \in 1..Len(trash') : \E j \in 1..Len(trash) : trash'[i] = trash[j]
      /\ \A j \in 1..Len(trash) : j > more => \E i \in 1..Len(trash') : trash'[i] = trash[j]
  <2>1. CASE Len(trash) > c.Limit
    <3>1. trash' = SubSeq(trash, Len(trash) - c.Limit + 1, Len(trash))
      BY <1>1, <2>1 DEF Filing!Newest
    <3>2. /\ trash' \in Seq(Filing(c)!Entry) /\ Len(trash') = c.Limit
          /\ \A i \in 1..c.Limit : trash'[i] = trash[Len(trash) - c.Limit + i]
      BY <1>2, <2>1, <3>1, FLess
    <3>3. \A i \in 1..c.Limit : Len(trash) - c.Limit + i \in 1..Len(trash)
      BY <1>2, <2>1
    <3>4. \A j \in 1..Len(trash) : j > more => j - more \in 1..c.Limit /\ Len(trash) - c.Limit + (j - more) = j
      BY <1>2, <2>1
    <3>5. ASSUME NEW i \in 1..Len(trash') PROVE \E j \in 1..Len(trash) : trash'[i] = trash[j]
      <4>1. Len(trash) - c.Limit + i \in 1..Len(trash) /\ trash'[i] = trash[Len(trash) - c.Limit + i]
        BY <3>2, <3>3
      <4> QED BY <4>1
    <3>6. ASSUME NEW j \in 1..Len(trash), j > more PROVE \E i \in 1..Len(trash') : trash'[i] = trash[j]
      <4>1. j - more \in 1..Len(trash') /\ Len(trash) - c.Limit + (j - more) = j
        BY <3>2, <3>4, <3>6
      <4> QED BY <3>2, <4>1
    <3>7. Len(trash') <= c.Limit
      BY <1>2, <3>2
    <3> QED BY <3>2, <3>5, <3>6, <3>7
  <2>2. CASE ~(Len(trash) > c.Limit)
    <3>1. trash' = trash
      BY <1>1, <2>2 DEF Filing!Newest
    <3> QED BY <1>2, <2>2, <3>1
  <2> QED BY <2>1, <2>2
<1>7. pruned \subseteq made
  <2>1. SUFFICES ASSUME NEW i \in 1..Len(trash) PROVE trash[i].data \subseteq made
    BY DEF pruned
  <2>2. trash[i] \in Filing(c)!Entry /\ FSound(trash[i])
    BY <1>2 DEF FShelves
  <2>3. trash[i] # None
    BY <2>2 DEF Filing!ConstantsFit
  <2> QED BY <2>2, <2>3 DEF FSound
<1>8. FTypes(c)'
  BY <1>1, <1>3, <1>4, <1>6, <1>7 DEF FTypes
<1>9. FShelves(c)'
  <2>1. \A i \in 1..Len(trash') : FSound(trash'[i])
    BY <1>6 DEF FShelves
  <2>2. \A i \in 1..Len(trash') : FSound(trash[i])'
    BY <1>1, <2>1 DEF FSound
  <2> QED BY <1>1, <2>2 DEF FShelves, FSound
<1>10. ASSUME FWhole(c) PROVE FWhole(c)'
  <2>1. ASSUME NEW d \in made \ gone', NEW i \in 1..Len(trash), FIs(trash[i], d) PROVE FSafe(c, d)'
    <3>1. ~(i <= more)
      BY <1>2, <1>3, <2>1 DEF pruned, FIs
    <3>2. PICK j \in 1..Len(trash') : trash'[j] = trash[i]
      BY <1>2, <1>6, <3>1
    <3> QED BY <2>1, <3>2 DEF FSafe, FIs
  <2>2. ASSUME NEW d, NEW m \in c.Names, FIs(ws[m], d) PROVE FSafe(c, d)'
    BY <1>1, <2>2 DEF FSafe, FIs
  <2>3. ASSUME NEW d, NEW s \in c.Threads, FIs(task[s].aside, d) PROVE FSafe(c, d)'
    BY <1>4, <1>5, <2>3 DEF FSafe, FIs
  <2>4. made' = made /\ gone \subseteq gone' /\ debris \subseteq debris'
    BY <1>1, <1>3
  <2> QED BY <1>10, <2>1, <2>2, <2>3, <2>4, FShifts
<1> QED BY <1>1, <1>4, <1>6, <1>8, <1>9, <1>10 DEF FTold

\* A tree that begins to go.
LEMMA FRemoving ==
    ASSUME NEW c, FTypes(c), FShelves(c), NEW n \in c.Names, ws[n] # None,
           ws' = [ws EXCEPT ![n] = [ws[n] EXCEPT !.state = "removing"]], made' = made, trash' = trash
    PROVE  /\ ws' \in [c.Names -> Filing(c)!Entry \cup {None}] /\ FShelves(c)'
           /\ ws'[n].state = "removing" /\ \A m \in c.Names \ {n} : ws'[m] = ws[m]
<1> DEFINE e == [ws[n] EXCEPT !.state = "removing"]
<1>1. ws[n] \in Filing(c)!Entry
  BY DEF FTypes
<1>2. e \in Filing(c)!Entry /\ e.state = "removing" /\ e.data = ws[n].data
  BY <1>1 DEF Filing!Entry
<1> HIDE DEF e
<1>3. ws' = [ws EXCEPT ![n] = e]
  BY DEF e
<1>4. /\ ws' \in [c.Names -> Filing(c)!Entry \cup {None}] /\ ws'[n] = e
      /\ \A m \in c.Names \ {n} : ws'[m] = ws[m]
  BY <1>2, <1>3 DEF FTypes
<1>5. FShelves(c)'
  BY <1>2, <1>4 DEF FShelves, FSound
<1> QED BY <1>2, <1>4, <1>5

LEMMA FRemoves == ASSUME NEW c, Filing(c)!ConstantsFit, FInv(c), NEW t \in c.Threads, Filing(c)!Remove(t) PROVE FTold(c, t)
<1> USE DEF FInv
<1> DEFINE n == task[t].src
<1>1. /\ task[t].at = "hard" /\ UNCHANGED <<trash, debris, made>> /\ n \in c.Names /\ task[t].aside = None
      /\ task[t].op = "hard" /\ gone' = gone \cup Filing(c)!Contents(ws[n])
  BY DEF Filing!Remove, Filing!At, FCall, FMoving
<1>2. Filing(c)!Contents(ws[n]) = (IF ws[n] = None THEN {} ELSE ws[n].data) /\ Filing(c)!Contents(ws[n]) \subseteq made
  BY <1>1 DEF Filing!Contents, FShelves, FSound
<1>3. CASE ws[n] # None
  <2>1. ws' = [ws EXCEPT ![n] = [ws[n] EXCEPT !.state = "removing"]] /\ Filing(c)!Goes(t, "rmdir")
    BY <1>3 DEF Filing!Remove, Filing!Removing, Filing!Put
  <2>2. /\ ws' \in [c.Names -> Filing(c)!Entry \cup {None}] /\ FShelves(c)'
        /\ ws'[n].state = "removing" /\ \A m \in c.Names \ {n} : ws'[m] = ws[m]
    BY <1>1, <1>3, <2>1, FRemoving
  <2>3. /\ task' \in [c.Threads -> FTask(c)] /\ \A s \in c.Threads \ {t} : task'[s] = task[s]
        /\ task'[t].at = "rmdir" /\ task'[t].src = n /\ task'[t].aside = None /\ task'[t].before = task[t].before
        /\ task'[t].op = "hard"
    BY <1>1, <2>1, FGoes
  <2>4. FTypes(c)'
    BY <1>1, <1>2, <2>2, <2>3 DEF FTypes
  <2>5. FCall(c, t)'
    BY <1>1, <2>3 DEF FCall, FSound, FMoving
  <2>6. FFree(c, t)' /\ FHeld(c, t)'
    BY <2>2, <2>3 DEF FFree, FHeld, FMoving
  <2>7. ASSUME FAlone(c) PROVE FBefore(c, t)'
    <3>1. c.History => task[t].before = ws
      BY <1>1, <2>7 DEF FBefore, FSolo
    <3>2. c.History => ws' = [task[t].before EXCEPT ![n].state = "removing"]
      BY <2>1, <3>1
    <3>3. ws \in [c.Names -> Filing(c)!Entry \cup {None}]
      BY DEF FTypes
    <3> QED BY <2>3, <3>1, <3>2, <3>3 DEF FBefore
  <2>8. ASSUME FWhole(c) PROVE FWhole(c)'
    <3>1. ASSUME NEW m \in c.Names, NEW d \in made \ gone', FIs(ws[m], d) PROVE FSafe(c, d)'
      <4>1. m # n
        BY <1>1, <1>2, <1>3, <3>1 DEF FIs
      <4> QED BY <2>2, <3>1, <4>1 DEF FSafe, FIs
    <3>2. ASSUME NEW d, NEW i \in 1..Len(trash), FIs(trash[i], d) PROVE FSafe(c, d)'
      BY <1>1, <3>2 DEF FSafe, FIs
    <3>3. ASSUME NEW d, NEW s \in c.Threads, FIs(task[s].aside, d) PROVE FSafe(c, d)'
      BY <1>1, <2>3, <3>3 DEF FSafe, FIs
    <3>4. made' = made /\ gone \subseteq gone' /\ debris \subseteq debris'
      BY <1>1
    <3> QED BY <2>8, <3>1, <3>2, <3>3, <3>4, FShifts
  <2> QED BY <1>1, <2>2, <2>3, <2>4, <2>5, <2>6, <2>7, <2>8 DEF FTold, FSolo
<1>4. CASE ws[n] = None
  <2>1. Filing(c)!Ends(t, FALSE) /\ UNCHANGED ws /\ gone' = gone
    BY <1>1, <1>2, <1>4 DEF Filing!Remove, Filing!Removing, Filing!Fails
  <2> QED BY <1>1, <2>1, FStops
<1> QED BY <1>3, <1>4

LEMMA FRmdirs == ASSUME NEW c, Filing(c)!ConstantsFit, FInv(c), NEW t \in c.Threads, Filing(c)!Rmdir(t) PROVE FTold(c, t)
<1> USE DEF FInv
<1> DEFINE n == task[t].src
<1>1. task[t].at = "rmdir" /\ UNCHANGED <<trash, debris, made, gone>> /\ n \in c.Names /\ task[t].aside = None
  BY DEF Filing!Rmdir, Filing!At, FCall, FMoving
<1>2. CASE ws[n] # None => ws[n].state = "removing"
  <2>1. ws' = [ws EXCEPT ![n] = None] /\ Filing(c)!Ends(t, TRUE)
    BY <1>2 DEF Filing!Rmdir, Filing!Put, Filing!Succeeds
  <2>2. /\ task' \in [c.Threads -> FTask(c)] /\ \A s \in c.Threads \ {t} : task'[s] = task[s]
        /\ task'[t].at = "idle" /\ task'[t].aside = None /\ FCall(c, t)' /\ FSolo(c, t)'
    BY <2>1, FEnds
  <2>3. /\ ws' \in [c.Names -> Filing(c)!Entry \cup {None}] /\ ws'[n] = None
        /\ \A m \in c.Names \ {n} : ws'[m] = ws[m]
    BY <1>1, <2>1 DEF FTypes
  <2>4. FTypes(c)' /\ FShelves(c)'
    BY <1>1, <2>2, <2>3 DEF FTypes, FShelves, FSound
  <2>5. ASSUME FWhole(c) PROVE FWhole(c)'
    <3>1. ASSUME NEW d, NEW m \in c.Names, FIs(ws[m], d) PROVE FSafe(c, d)'
      <4>1. m # n
        BY <1>2, <3>1 DEF FIs
      <4> QED BY <2>3, <3>1, <4>1 DEF FSafe, FIs
    <3>2. ASSUME NEW d, NEW i \in 1..Len(trash), FIs(trash[i], d) PROVE FSafe(c, d)'
      BY <1>1, <3>2 DEF FSafe, FIs
    <3>3. ASSUME NEW d, NEW s \in c.Threads, FIs(task[s].aside, d) PROVE FSafe(c, d)'
      BY <1>1, <2>2, <3>3 DEF FSafe, FIs
    <3>4. made' = made /\ gone \subseteq gone' /\ debris \subseteq debris'
      BY <1>1
    <3> QED BY <2>5, <3>1, <3>2, <3>3, <3>4, FShifts
  <2> QED BY <1>1, <2>2, <2>4, <2>5 DEF FTold
<1>3. CASE ~(ws[n] # None => ws[n].state = "removing")
  <2>1. Filing(c)!Ends(t, FALSE) /\ UNCHANGED ws
    BY <1>3 DEF Filing!Rmdir, Filing!Fails
  <2> QED BY <1>1, <2>1, FStops
<1> QED BY <1>2, <1>3


LEMMA FPrepares == ASSUME NEW c, Filing(c)!ConstantsFit, FInv(c), NEW t \in c.Threads, Filing(c)!Prepare(t) PROVE FTold(c, t)
<1> USE DEF FInv
<1>1. PICK src \in c.Names, dst \in c.Names, op \in {"move", "copy"} \cap c.Ops, over \in BOOLEAN :
        /\ src # dst /\ ws[src] # None
        /\ ws[dst] = None \/ over
        /\ task' = [task EXCEPT ![t] =
             [Filing(c)!Idle EXCEPT !.at = IF op = "move" THEN "displace" ELSE "stage", !.op = op, !.src = src,
                                    !.dst = dst, !.over = over, !.before = Filing(c)!Remembered]]
  BY DEF Filing!Prepare
<1>2. task[t].at = "idle" /\ UNCHANGED <<ws, trash, debris, made, gone>>
  BY DEF Filing!Prepare, Filing!At
<1> DEFINE k == [Filing(c)!Idle EXCEPT !.at = IF op = "move" THEN "displace" ELSE "stage", !.op = op, !.src = src,
                                       !.dst = dst, !.over = over, !.before = Filing(c)!Remembered]
<1>3. Filing(c)!Remembered = (IF c.History THEN ws ELSE None)
  BY DEF Filing!Remembered
<1>4. Filing(c)!Remembered \in [c.Names -> Filing(c)!Entry \cup {None}] \cup {None}
  BY <1>3 DEF FTypes
<1>5. k \in FTask(c)
  BY <1>4 DEF Filing!Idle, FTask, FMoving
<1>6. /\ k.at = (IF op = "move" THEN "displace" ELSE "stage") /\ k.op = op /\ k.src = src /\ k.dst = dst
      /\ k.over = over /\ k.before = Filing(c)!Remembered /\ k.aside = None
  BY DEF Filing!Idle
<1> HIDE DEF k
<1>7. task' \in [c.Threads -> FTask(c)] /\ task'[t] = k /\ \A s \in c.Threads \ {t} : task'[s] = task[s]
  BY <1>1, <1>5, FSets DEF k
<1>8. FTypes(c)' /\ FShelves(c)'
  BY <1>2, <1>7 DEF FTypes, FShelves, FSound
<1>9. FCall(c, t)'
  BY <1>1, <1>6, <1>7 DEF FCall, FSound, FMoving
<1>10. FFree(c, t)' /\ FHeld(c, t)'
  <2>1. ~k.over => ws[dst] = None
    BY <1>1, <1>6
  <2> QED BY <1>2, <1>6, <1>7, <2>1 DEF FFree, FHeld, FMoving
<1>11. FBefore(c, t)'
  <2>1. c.History => k.before = ws /\ ws \in [c.Names -> Filing(c)!Entry \cup {None}]
    BY <1>3, <1>6 DEF FTypes
  <2> QED BY <1>2, <1>6, <1>7, <2>1 DEF FBefore
<1>12. FWhole(c) => FWhole(c)'
  <2>1. task[t].aside = None
    BY <1>2 DEF FCall, FMoving
  <2>2. \A s \in c.Threads : task'[s].aside = task[s].aside
    BY <1>6, <1>7, <2>1
  <2> QED BY <1>2, <2>2, FStill
<1> QED BY <1>2, <1>7, <1>8, <1>9, <1>10, <1>11, <1>12 DEF FTold, FSolo

LEMMA FDisplaces == ASSUME NEW c, Filing(c)!ConstantsFit, FInv(c), NEW t \in c.Threads, Filing(c)!Displace(t) PROVE FTold(c, t)
<1> USE DEF FInv
<1> DEFINE n == task[t].dst
           x == IF task[t].op = "move" THEN "relocate" ELSE "install"
           k == FAside(task[t], ws[n], x)
<1>1. /\ task[t].at = "displace" /\ UNCHANGED <<trash, debris, made, gone>> /\ n \in c.Names
      /\ ws' = [ws EXCEPT ![n] = None] /\ task' = [task EXCEPT ![t] = k]
  BY DEF Filing!Displace, Filing!At, Filing!Aside, Filing!Put, FCall, FMoving, FAside
<1>2. task[t] \in FTask(c) /\ ws[n] \in Filing(c)!Entry \cup {None}
  BY <1>1 DEF FTypes
<1>a. x \in FMoving
  BY DEF FMoving
<1> HIDE DEF x
<1>3. /\ k \in FTask(c) /\ k.at = x /\ k.aside = ws[n] /\ k.op = task[t].op /\ k.src = task[t].src /\ k.dst = n
      /\ k.over = task[t].over /\ k.staged = task[t].staged /\ k.before = task[t].before
  BY <1>2, <1>a, FTakes
<1>b. x = IF task[t].op = "move" THEN "relocate" ELSE "install"
  BY DEF x
<1>4. task' \in [c.Threads -> FTask(c)] /\ task'[t] = k /\ \A s \in c.Threads \ {t} : task'[s] = task[s]
  BY <1>1, <1>3, FSets
<1> HIDE DEF k
<1>5. /\ ws' \in [c.Names -> Filing(c)!Entry \cup {None}] /\ ws'[n] = None
      /\ \A m \in c.Names \ {n} : ws'[m] = ws[m]
  BY <1>1 DEF FTypes
<1>6. FTypes(c)' /\ FShelves(c)'
  BY <1>1, <1>4, <1>5 DEF FTypes, FShelves, FSound
<1>7. FCall(c, t)'
  <2>1. FSound(ws[n])
    BY <1>1 DEF FShelves
  <2> QED BY <1>1, <1>b, <1>3, <1>4, <2>1 DEF FCall, FSound, FMoving
<1>8. ASSUME FAlone(c) PROVE FFree(c, t)' /\ FHeld(c, t)' /\ FBefore(c, t)' /\ task[t].aside = None
  <2>1. FFree(c, t) /\ FHeld(c, t) /\ FBefore(c, t) /\ FCall(c, t)
    BY <1>8 DEF FSolo
  <2>2. FFree(c, t)'
    BY <1>1, <1>b, <1>3, <1>4, <1>5, <2>1 DEF FFree, FMoving
  <2>3. FHeld(c, t)'
    BY <1>1, <1>b, <1>3, <1>4, <1>5, <2>1 DEF FHeld, FMoving
  <2>4. FBefore(c, t)'
    BY <1>1, <1>b, <1>3, <1>4, <2>1 DEF FBefore
  <2> QED BY <1>1, <2>1, <2>2, <2>3, <2>4 DEF FFree
<1>9. ASSUME FAlone(c), FWhole(c) PROVE FWhole(c)'
  <2>1. ASSUME NEW m \in c.Names, NEW d, FIs(ws[m], d) PROVE FSafe(c, d)'
    <3>1. CASE m = n
      BY <1>3, <1>4, <2>1, <3>1 DEF FSafe, FIs
    <3>2. CASE m # n
      BY <1>5, <2>1, <3>2 DEF FSafe, FIs
    <3> QED BY <3>1, <3>2
  <2>2. ASSUME NEW s \in c.Threads, NEW d, FIs(task[s].aside, d) PROVE FSafe(c, d)'
    BY <1>4, <1>8, <1>9, <2>2 DEF FSafe, FIs
  <2>3. UNCHANGED <<trash, made>> /\ gone \subseteq gone' /\ debris \subseteq debris'
    BY <1>1
  <2> QED BY <1>9, <2>1, <2>2, <2>3, FPaths
<1> QED BY <1>1, <1>4, <1>6, <1>7, <1>8, <1>9 DEF FTold, FSolo

LEMMA FRelocates == ASSUME NEW c, Filing(c)!ConstantsFit, FInv(c), NEW t \in c.Threads, Filing(c)!Relocate(t) PROVE FTold(c, t)
<1> USE DEF FInv
<1> DEFINE n == task[t].dst
           m == task[t].src
           e == ws[m]
<1>1. /\ task[t].at = "relocate" /\ UNCHANGED <<trash, debris, made, gone>> /\ n \in c.Names /\ m \in c.Names /\ m # n
      /\ task[t].op = "move"
  BY DEF Filing!Relocate, Filing!At, FCall, FMoving
<1>2. PICK x \in {"discard", "restore", "stage"} :
        /\ Filing(c)!Goes(t, x)
        /\ x = "discard" => e # None /\ ws' = [ws EXCEPT ![n] = e, ![m] = None]
        /\ x # "discard" => UNCHANGED ws
        /\ x = "stage" => "cross" \in c.Faults
  BY DEF Filing!Relocate
<1>3. /\ task' \in [c.Threads -> FTask(c)] /\ \A s \in c.Threads \ {t} : task'[s] = task[s]
      /\ task'[t].at = x /\ task'[t].op = task[t].op /\ task'[t].src = m /\ task'[t].dst = n
      /\ task'[t].over = task[t].over /\ task'[t].staged = task[t].staged
      /\ task'[t].aside = task[t].aside /\ task'[t].before = task[t].before
  <2>1. x \in FMoving \cup {"rmdir"} /\ Filing(c)!Goes(t, x)
    BY <1>2 DEF FMoving
  <2> QED BY <2>1, FGoes
<1>4. /\ ws' \in [c.Names -> Filing(c)!Entry \cup {None}]
      /\ x = "discard" => /\ ws'[n] = e /\ ws'[m] = None
                          /\ \A a \in c.Names \ {m, n} : ws'[a] = ws[a]
  BY <1>1, <1>2 DEF FTypes
<1>5. FTypes(c)'
  BY <1>1, <1>3, <1>4 DEF FTypes
<1>6. FShelves(c)'
  BY <1>1, <1>2, <1>4 DEF FShelves, FSound
<1>7. FCall(c, t)'
  BY <1>1, <1>3 DEF FCall, FSound, FMoving
<1>8. ASSUME FAlone(c) PROVE FFree(c, t)' /\ FHeld(c, t)' /\ FBefore(c, t)' /\ ws[n] = None
  <2>1. FFree(c, t) /\ FHeld(c, t) /\ FBefore(c, t)
    BY <1>8 DEF FSolo
  <2>2. ws[n] = None
    BY <1>1, <2>1 DEF FFree
  <2>3. FFree(c, t)'
    BY <1>1, <1>2, <1>3, <2>1, <2>2 DEF FFree, FMoving
  <2>4. FHeld(c, t)'
    BY <1>1, <1>2, <1>3, <1>4, <2>1 DEF FHeld, FMoving
  <2>5. FBefore(c, t)'
    <3>1. SUFFICES ASSUME c.History
                   PROVE  /\ task'[t].before \in [c.Names -> Filing(c)!Entry \cup {None}]
                          /\ x = "stage" => /\ task'[t].aside = task'[t].before[n]
                                            /\ ws' = [task'[t].before EXCEPT ![n] = None]
                          /\ x = "restore" => Filing(c)!Restored(t)' = task'[t].before
      BY <1>1, <1>2, <1>3 DEF FBefore
    <3>2. /\ task[t].before \in [c.Names -> Filing(c)!Entry \cup {None}]
          /\ task[t].aside = task[t].before[n] /\ ws = [task[t].before EXCEPT ![n] = None]
      BY <1>1, <2>1, <3>1 DEF FBefore
    <3>3. x = "restore" => ws' = ws
      BY <1>2
    <3>4. x = "restore" => Filing(c)!Restored(t)' = task'[t].before
      BY <1>1, <1>3, <3>2, <3>3, FBack DEF Filing!Restored, Filing!Put
    <3> QED BY <1>2, <1>3, <3>2, <3>4
  <2> QED BY <2>2, <2>3, <2>4, <2>5
<1>9. ASSUME FAlone(c), FWhole(c) PROVE FWhole(c)'
  <2>1. ASSUME NEW a \in c.Names, NEW d, FIs(ws[a], d) PROVE FSafe(c, d)'
    <3>1. CASE x # "discard"
      BY <1>2, <2>1, <3>1 DEF FSafe, FIs
    <3>2. CASE x = "discard" /\ a = m
      BY <1>1, <1>4, <2>1, <3>2 DEF FSafe, FIs
    <3>3. CASE x = "discard" /\ a # m
      <4>1. a # n
        BY <1>8, <1>9, <2>1 DEF FIs
      <4> QED BY <1>4, <2>1, <3>3, <4>1 DEF FSafe, FIs
    <3> QED BY <3>1, <3>2, <3>3
  <2>2. ASSUME NEW s \in c.Threads, NEW d, FIs(task[s].aside, d) PROVE FSafe(c, d)'
    BY <1>3, <2>2 DEF FSafe, FIs
  <2>3. UNCHANGED <<trash, made>> /\ gone \subseteq gone' /\ debris \subseteq debris'
    BY <1>1
  <2> QED BY <1>9, <2>1, <2>2, <2>3, FPaths
<1> QED BY <1>1, <1>3, <1>5, <1>6, <1>7, <1>8, <1>9 DEF FTold, FSolo


\* A move or a copy that gives up before its destination is filled.
LEMMA FGivesUp ==
    ASSUME NEW c, FTypes(c), NEW t \in c.Threads, FCall(c, t), FSolo(c, t), 
           task[t].at \in {"relocate", "stage", "building", "install"}, ws' = ws,
           task'[t].at = "restore", task'[t].op = task[t].op, task'[t].dst = task[t].dst,
           task'[t].over = task[t].over, task'[t].aside = task[t].aside, task'[t].before = task[t].before
    PROVE  FSolo(c, t)'
<1> USE DEF FSolo
<1>1. task[t].op \in {"move", "copy"} /\ task[t].dst \in c.Names
  BY DEF FCall, FMoving
<1>2. FFree(c, t)'
  BY <1>1 DEF FFree, FMoving
<1>3. FHeld(c, t)'
  BY DEF FHeld, FMoving
<1>4. FBefore(c, t)'
  <2>1. SUFFICES ASSUME c.History
                 PROVE  /\ task[t].before \in [c.Names -> Filing(c)!Entry \cup {None}]
                        /\ Filing(c)!Restored(t)' = task[t].before
    BY DEF FBefore
  <2>2. task[t].before \in [c.Names -> Filing(c)!Entry \cup {None}]
    BY <2>1 DEF FBefore
  <2>3. CASE task[t].op = "copy" /\ task[t].at \in {"stage", "building"}
    BY <2>1, <2>3 DEF FBefore, FFree, Filing!Restored
  <2>4. CASE task[t].op = "move" \/ task[t].at \in {"relocate", "install"}
    <3>1. task[t].aside = task[t].before[task[t].dst] /\ ws = [task[t].before EXCEPT ![task[t].dst] = None]
      BY <2>1, <2>4 DEF FBefore
    <3> QED BY <1>1, <2>2, <3>1, FBack DEF Filing!Restored, Filing!Put
  <2> QED BY <1>1, <2>2, <2>3, <2>4
<1> QED BY <1>2, <1>3, <1>4


LEMMA FStages == ASSUME NEW c, Filing(c)!ConstantsFit, FInv(c), NEW t \in c.Threads, Filing(c)!Stage(t) PROVE FTold(c, t)
<1> USE DEF FInv
<1> DEFINE n == task[t].dst
           m == task[t].src
           e == ws[m]
<1>1. /\ task[t].at = "stage" /\ UNCHANGED <<ws, trash, debris, made, gone>> /\ n \in c.Names /\ m \in c.Names
      /\ m # n /\ task[t].op \in {"move", "copy"}
  BY DEF Filing!Stage, Filing!At, Filing!Builds, FCall, FMoving
<1>2. CASE e = None
  <2>1. Filing(c)!Goes(t, "restore")
    BY <1>2 DEF Filing!Stage
  <2>2. "restore" \in FMoving \cup {"rmdir"}
    BY DEF FMoving
  <2>3. /\ task' \in [c.Threads -> FTask(c)] /\ \A s \in c.Threads \ {t} : task'[s] = task[s]
        /\ task'[t].at = "restore" /\ task'[t].op = task[t].op /\ task'[t].src = m /\ task'[t].dst = n
        /\ task'[t].over = task[t].over /\ task'[t].aside = task[t].aside /\ task'[t].before = task[t].before
    BY <2>1, <2>2, FGoes
  <2>4. FTypes(c)' /\ FShelves(c)'
    BY <1>1, <2>3 DEF FTypes, FShelves, FSound
  <2>5. FCall(c, t)'
    BY <1>1, <2>3 DEF FCall, FSound, FMoving
  <2>6. ASSUME FAlone(c) PROVE FSolo(c, t)'
    BY <1>1, <2>3, <2>6, FGivesUp
  <2>7. \A s \in c.Threads : task'[s].aside = task[s].aside
    BY <2>3
  <2>8. FWhole(c) => FWhole(c)'
    BY <1>1, <2>7, FStill
  <2> QED BY <1>1, <2>3, <2>4, <2>5, <2>6, <2>8 DEF FTold
<1>3. CASE e # None
  <2> DEFINE b == [e EXCEPT !.data = @ \ c.Special, !.state = "building"]
             k == FStaged(task[t], b, "building")
  <2>1. task' = [task EXCEPT ![t] = k]
    BY <1>3 DEF Filing!Stage, Filing!Builds, FStaged
  <2>2. task[t] \in FTask(c) /\ e \in Filing(c)!Entry
    BY <1>1, <1>3 DEF FTypes
  <2>3. b \in Filing(c)!Entry /\ b.data = e.data \ c.Special
    BY <2>2 DEF Filing!Entry
  <2>4. b # None
    BY <2>3 DEF Filing!ConstantsFit
  <2> HIDE DEF b
  <2>5. b \in Filing(c)!Entry \cup {None} /\ "building" \in FMoving
    BY <2>3 DEF FMoving
  <2>6. /\ k \in FTask(c) /\ k.at = "building" /\ k.staged = b /\ k.aside = task[t].aside
        /\ k.op = task[t].op /\ k.src = m /\ k.dst = n /\ k.over = task[t].over /\ k.before = task[t].before
    BY <2>2, <2>5, FTakes
  <2> HIDE DEF k
  <2>7. task' \in [c.Threads -> FTask(c)] /\ task'[t] = k /\ \A s \in c.Threads \ {t} : task'[s] = task[s]
    BY <2>1, <2>6, FSets
  <2>8. FTypes(c)' /\ FShelves(c)'
    BY <1>1, <2>7 DEF FTypes, FShelves, FSound
  <2>9. FCall(c, t)'
    <3>1. FSound(e)
      BY <1>1 DEF FShelves
    <3> QED BY <1>1, <1>3, <2>3, <2>4, <2>6, <2>7, <3>1 DEF FCall, FSound, FMoving
  <2>10. ASSUME FAlone(c) PROVE FFree(c, t)' /\ FHeld(c, t)' /\ FBefore(c, t)'
    <3>1. FFree(c, t) /\ FHeld(c, t) /\ FBefore(c, t)
      BY <2>10 DEF FSolo
    <3>2. FFree(c, t)'
      BY <1>1, <2>6, <2>7, <3>1 DEF FFree, FMoving
    <3>3. FHeld(c, t)'
      BY <1>1, <2>3, <2>6, <2>7, <3>1 DEF FHeld, FMoving
    <3>4. FBefore(c, t)'
      BY <1>1, <2>6, <2>7, <3>1 DEF FBefore
    <3> QED BY <3>2, <3>3, <3>4
  <2>11. \A s \in c.Threads : task'[s].aside = task[s].aside
    BY <2>6, <2>7
  <2>12. FWhole(c) => FWhole(c)'
    BY <1>1, <2>11, FStill
  <2> QED BY <1>1, <2>6, <2>7, <2>8, <2>9, <2>10, <2>12 DEF FTold, FSolo
<1> QED BY <1>2, <1>3

LEMMA FBuilds == ASSUME NEW c, Filing(c)!ConstantsFit, FInv(c), NEW t \in c.Threads, Filing(c)!Built(t) PROVE FTold(c, t)
<1> USE DEF FInv
<1> DEFINE n == task[t].dst
           m == task[t].src
           y == IF task[t].op = "copy" THEN "displace" ELSE "install"
           b == [task[t].staged EXCEPT !.state = "whole"]
<1>1. /\ task[t].at = "building" /\ UNCHANGED <<ws, trash, debris, made, gone>> /\ n \in c.Names /\ m \in c.Names
      /\ m # n /\ task[t].op \in {"move", "copy"} /\ task[t].staged # None /\ task[t].staged.data \subseteq made
  BY DEF Filing!Built, Filing!At, FCall, FMoving
<1>2. PICK e \in {b, None}, x \in {y, "restore"} :
        /\ task' = [task EXCEPT ![t] = FStaged(task[t], e, x)]
        /\ (e = b /\ x = y) \/ (e = None /\ x = "restore")
  BY DEF Filing!Built, FStaged
<1> DEFINE k == FStaged(task[t], e, x)
<1>3. task[t] \in FTask(c) /\ task[t].staged \in Filing(c)!Entry
  BY <1>1 DEF FTypes, FTask
<1>4. b \in Filing(c)!Entry /\ b.data = task[t].staged.data /\ b.state = "whole"
  BY <1>3 DEF Filing!Entry
<1>5. b # None
  BY <1>4 DEF Filing!ConstantsFit
<1> HIDE DEF b
<1>6. e \in Filing(c)!Entry \cup {None} /\ x \in FMoving
  BY <1>2, <1>4 DEF FMoving
<1>7. /\ k \in FTask(c) /\ k.at = x /\ k.staged = e /\ k.aside = task[t].aside
      /\ k.op = task[t].op /\ k.src = m /\ k.dst = n /\ k.over = task[t].over /\ k.before = task[t].before
  BY <1>3, <1>6, FTakes
<1>8. task' = [task EXCEPT ![t] = k]
  BY <1>2
<1> HIDE DEF k
<1>9. task' \in [c.Threads -> FTask(c)] /\ task'[t] = k /\ \A s \in c.Threads \ {t} : task'[s] = task[s]
  BY <1>7, <1>8, FSets
<1>10. FTypes(c)' /\ FShelves(c)'
  BY <1>1, <1>9 DEF FTypes, FShelves, FSound
<1>11. FCall(c, t)'
  BY <1>1, <1>2, <1>4, <1>5, <1>7, <1>9 DEF FCall, FSound, FMoving
<1>12. ASSUME FAlone(c) PROVE FSolo(c, t)'
  <2>1. FFree(c, t) /\ FHeld(c, t) /\ FBefore(c, t)
    BY <1>12 DEF FSolo
  <2>2. CASE e = b /\ x = y
    <3>1. FFree(c, t)'
      BY <1>1, <1>7, <1>9, <2>1, <2>2 DEF FFree, FMoving
    <3>2. FHeld(c, t)'
      BY <1>1, <1>4, <1>7, <1>9, <2>1, <2>2 DEF FHeld, FMoving
    <3>3. FBefore(c, t)'
      BY <1>1, <1>7, <1>9, <2>1, <2>2 DEF FBefore
    <3> QED BY <3>1, <3>2, <3>3 DEF FSolo
  <2>3. CASE e = None /\ x = "restore"
    BY <1>1, <1>7, <1>9, <1>12, <2>3, FGivesUp
  <2> QED BY <1>2, <2>2, <2>3
<1>13. \A s \in c.Threads : task'[s].aside = task[s].aside
  BY <1>7, <1>9
<1>14. FWhole(c) => FWhole(c)'
  BY <1>1, <1>13, FStill
<1> QED BY <1>1, <1>7, <1>9, <1>10, <1>11, <1>12, <1>14 DEF FTold

LEMMA FInstalls == ASSUME NEW c, Filing(c)!ConstantsFit, FInv(c), NEW t \in c.Threads, Filing(c)!Install(t) PROVE FTold(c, t)
<1> USE DEF FInv
<1> DEFINE n == task[t].dst
           m == task[t].src
           y == IF task[t].op = "move" THEN "purge" ELSE "discard"
           s0 == task[t].staged
<1>1. /\ task[t].at = "install" /\ UNCHANGED <<trash, debris, made, gone>> /\ n \in c.Names /\ m \in c.Names
      /\ m # n /\ task[t].op \in {"move", "copy"} /\ s0 # None /\ s0.data \subseteq made /\ s0.state = "whole"
  BY DEF Filing!Install, Filing!At, FCall, FMoving
<1>2. PICK x \in {y, "restore"} :
        /\ task' = [task EXCEPT ![t] = FStaged(task[t], None, x)]
        /\ (x = y /\ ws' = [ws EXCEPT ![n] = s0]) \/ (x = "restore" /\ ~Filing(c)!Renames(s0, n) /\ UNCHANGED ws)
  BY DEF Filing!Install, FStaged, Filing!Put
<1> DEFINE k == FStaged(task[t], None, x)
<1>3. task[t] \in FTask(c) /\ s0 \in Filing(c)!Entry
  BY <1>1 DEF FTypes, FTask
<1>6. None \in Filing(c)!Entry \cup {None} /\ x \in FMoving
  BY <1>2 DEF FMoving
<1>7. /\ k \in FTask(c) /\ k.at = x /\ k.aside = task[t].aside
      /\ k.op = task[t].op /\ k.src = m /\ k.dst = n /\ k.over = task[t].over /\ k.before = task[t].before
  BY <1>3, <1>6, FTakes
<1>8. task' = [task EXCEPT ![t] = k]
  BY <1>2
<1> HIDE DEF k
<1>9. task' \in [c.Threads -> FTask(c)] /\ task'[t] = k /\ \A s \in c.Threads \ {t} : task'[s] = task[s]
  BY <1>7, <1>8, FSets
<1>10. /\ ws' \in [c.Names -> Filing(c)!Entry \cup {None}]
       /\ x = y => ws'[n] = s0 /\ \A a \in c.Names \ {n} : ws'[a] = ws[a]
       /\ x # y => ws' = ws
  BY <1>1, <1>2, <1>3 DEF FTypes
<1>11. FTypes(c)'
  BY <1>1, <1>9, <1>10 DEF FTypes
<1>12. FShelves(c)'
  BY <1>1, <1>2, <1>10 DEF FShelves, FSound
<1>13. FCall(c, t)'
  BY <1>1, <1>2, <1>7, <1>9 DEF FCall, FSound, FMoving
<1>14. ASSUME FAlone(c) PROVE FSolo(c, t)' /\ ws[n] = None /\ x = y
  <2>1. FFree(c, t) /\ FHeld(c, t) /\ FBefore(c, t)
    BY <1>14 DEF FSolo
  <2>2. ws[n] = None
    BY <1>1, <2>1 DEF FFree
  <2>3. x = y
    BY <1>2, <2>2 DEF Filing!Renames
  <2>4. FFree(c, t)'
    BY <1>1, <1>7, <1>9, <2>1, <2>3 DEF FFree, FMoving
  <2>5. FHeld(c, t)'
    BY <1>1, <1>7, <1>9, <1>10, <2>1, <2>3 DEF FHeld, FMoving
  <2>6. FBefore(c, t)'
    BY <1>1, <1>7, <1>9, <2>1, <2>3 DEF FBefore
  <2> QED BY <2>2, <2>3, <2>4, <2>5, <2>6 DEF FSolo
<1>15. ASSUME FAlone(c), FWhole(c) PROVE FWhole(c)'
  <2>1. ASSUME NEW a \in c.Names, NEW d, FIs(ws[a], d) PROVE FSafe(c, d)'
    <3>1. a # n /\ x = y
      BY <1>14, <1>15, <2>1 DEF FIs
    <3> QED BY <1>10, <2>1, <3>1 DEF FSafe, FIs
  <2>2. ASSUME NEW s \in c.Threads, NEW d, FIs(task[s].aside, d) PROVE FSafe(c, d)'
    BY <1>7, <1>9, <2>2 DEF FSafe, FIs
  <2>3. UNCHANGED <<trash, made>> /\ gone \subseteq gone' /\ debris \subseteq debris'
    BY <1>1
  <2> QED BY <1>15, <2>1, <2>2, <2>3, FPaths
<1> QED BY <1>1, <1>7, <1>9, <1>11, <1>12, <1>13, <1>14, <1>15 DEF FTold


LEMMA FPurges == ASSUME NEW c, Filing(c)!ConstantsFit, FInv(c), NEW t \in c.Threads, Filing(c)!PurgeSource(t) PROVE FTold(c, t)
<1> USE DEF FInv
<1> DEFINE n == task[t].dst
           m == task[t].src
<1>1. /\ task[t].at = "purge" /\ UNCHANGED <<trash, debris, made, gone>> /\ n \in c.Names /\ m \in c.Names
      /\ m # n /\ task[t].op = "move"
  BY DEF Filing!PurgeSource, Filing!At, FCall, FMoving
<1>2. PICK x \in {"purged", "discard"} :
        /\ Filing(c)!Goes(t, x)
        /\ x = "purged" => ws[m] # None /\ ws' = [ws EXCEPT ![m] = [ws[m] EXCEPT !.state = "removing"]]
        /\ x = "discard" => (ws[m] = None \/ "locked" \in c.Faults) /\ UNCHANGED ws
  BY DEF Filing!PurgeSource, Filing!Removing, Filing!Put
<1>3. x \in FMoving \cup {"rmdir"} /\ Filing(c)!Goes(t, x)
  BY <1>2 DEF FMoving
<1>4. /\ task' \in [c.Threads -> FTask(c)] /\ \A s \in c.Threads \ {t} : task'[s] = task[s]
      /\ task'[t].at = x /\ task'[t].op = task[t].op /\ task'[t].src = m /\ task'[t].dst = n
      /\ task'[t].over = task[t].over /\ task'[t].aside = task[t].aside /\ task'[t].before = task[t].before
  BY <1>3, FGoes
<1>5. /\ ws' \in [c.Names -> Filing(c)!Entry \cup {None}] /\ FShelves(c)'
      /\ x = "purged" => ws'[m].state = "removing"
      /\ \A a \in c.Names \ {m} : ws'[a] = ws[a]
  <2>1. CASE x = "purged"
    <3>1. ws[m] # None /\ ws' = [ws EXCEPT ![m] = [ws[m] EXCEPT !.state = "removing"]]
      BY <1>2, <2>1
    <3> QED BY <1>1, <3>1, FRemoving
  <2>2. CASE x = "discard"
    BY <1>1, <1>2, <2>2 DEF FTypes, FShelves, FSound
  <2> QED BY <2>1, <2>2
<1>6. FTypes(c)'
  BY <1>1, <1>4, <1>5 DEF FTypes
<1>7. FCall(c, t)'
  BY <1>1, <1>4 DEF FCall, FSound, FMoving
<1>8. ASSUME FAlone(c) PROVE FSolo(c, t)'
  <2>1. FFree(c, t) /\ FHeld(c, t) /\ FBefore(c, t)
    BY <1>8 DEF FSolo
  <2>2. FFree(c, t)'
    BY <1>1, <1>4, <2>1 DEF FFree, FMoving
  <2>3. FHeld(c, t)'
    BY <1>1, <1>2, <1>4, <1>5, <2>1 DEF FHeld, FMoving
  <2>4. FBefore(c, t)'
    BY <1>1, <1>4, <2>1 DEF FBefore
  <2> QED BY <2>2, <2>3, <2>4 DEF FSolo
<1>9. ASSUME FAlone(c), FNoLinks(c), FWhole(c) PROVE FWhole(c)'
  <2>1. FHeld(c, t)
    BY <1>9 DEF FSolo
  <2>2. c.Special = {}
    BY <1>1, <1>9, <2>1 DEF FHeld, FNoLinks
  <2>3. ws[n] # None /\ ws[n].state = "whole" /\ (ws[m] = None \/ ws[m].data \subseteq ws[n].data)
    BY <1>1, <2>1, <2>2 DEF FHeld
  <2>4. ASSUME NEW a \in c.Names, NEW d, FIs(ws[a], d) PROVE FSafe(c, d)'
    <3>1. CASE a # m
      BY <1>5, <2>4, <3>1 DEF FSafe, FIs
    <3>2. CASE a = m
      <4>1. FIs(ws[n], d)
        BY <2>3, <2>4, <3>2 DEF FIs
      <4> QED BY <1>1, <1>5, <4>1 DEF FSafe, FIs
    <3> QED BY <3>1, <3>2
  <2>5. ASSUME NEW s \in c.Threads, NEW d, FIs(task[s].aside, d) PROVE FSafe(c, d)'
    BY <1>4, <2>5 DEF FSafe, FIs
  <2>6. UNCHANGED <<trash, made>> /\ gone \subseteq gone' /\ debris \subseteq debris'
    BY <1>1
  <2> QED BY <1>9, <2>4, <2>5, <2>6, FPaths
<1> QED BY <1>1, <1>4, <1>5, <1>6, <1>7, <1>8, <1>9 DEF FTold

LEMMA FLets ==
    ASSUME NEW c, FTypes(c), NEW t \in c.Threads, Filing(c)!Goes(t, "discard")
    PROVE  /\ task' \in [c.Threads -> FTask(c)] /\ \A s \in c.Threads \ {t} : task'[s] = task[s]
           /\ task'[t].at = "discard" /\ task'[t].op = task[t].op /\ task'[t].src = task[t].src /\ task'[t].dst = task[t].dst
           /\ task'[t].over = task[t].over /\ task'[t].aside = task[t].aside /\ task'[t].before = task[t].before
<1>1. "discard" \in FMoving \cup {"rmdir"}
  BY DEF FMoving
<1> QED BY <1>1, FGoes

LEMMA FPurged == ASSUME NEW c, Filing(c)!ConstantsFit, FInv(c), NEW t \in c.Threads, Filing(c)!Purged(t) PROVE FTold(c, t)
<1> USE DEF FInv
<1> DEFINE n == task[t].dst
           m == task[t].src
<1>1. /\ task[t].at = "purged" /\ UNCHANGED <<trash, debris, made, gone>> /\ n \in c.Names /\ m \in c.Names
      /\ m # n /\ task[t].op = "move" /\ Filing(c)!Goes(t, "discard")
      /\ ws' = [ws EXCEPT ![m] = None] \/ ("locked" \in c.Faults /\ UNCHANGED ws)
  BY DEF Filing!Purged, Filing!At, Filing!Put, FCall, FMoving
<1>4. /\ task' \in [c.Threads -> FTask(c)] /\ \A s \in c.Threads \ {t} : task'[s] = task[s]
      /\ task'[t].at = "discard" /\ task'[t].op = task[t].op /\ task'[t].src = m /\ task'[t].dst = n
      /\ task'[t].over = task[t].over /\ task'[t].aside = task[t].aside /\ task'[t].before = task[t].before
  BY <1>1, FLets
<1>5. /\ ws' \in [c.Names -> Filing(c)!Entry \cup {None}] /\ (ws'[m] = None \/ ("locked" \in c.Faults /\ ws'[m] = ws[m]))
      /\ \A a \in c.Names \ {m} : ws'[a] = ws[a]
  BY <1>1 DEF FTypes
<1>6. FTypes(c)' /\ FShelves(c)'
  BY <1>1, <1>4, <1>5 DEF FTypes, FShelves, FSound
<1>7. FCall(c, t)'
  BY <1>1, <1>4 DEF FCall, FSound, FMoving
<1>8. ASSUME FAlone(c) PROVE FSolo(c, t)'
  <2>1. FFree(c, t) /\ FHeld(c, t) /\ FBefore(c, t)
    BY <1>8 DEF FSolo
  <2>2. FFree(c, t)'
    BY <1>1, <1>4, <2>1 DEF FFree, FMoving
  <2>3. FHeld(c, t)'
    BY <1>1, <1>4, <1>5 DEF FHeld, FMoving
  <2>4. FBefore(c, t)'
    BY <1>1, <1>4, <2>1 DEF FBefore
  <2> QED BY <2>2, <2>3, <2>4 DEF FSolo
<1>9. ASSUME FAlone(c), FWhole(c) PROVE FWhole(c)'
  <2>1. ws[m] = None \/ ws[m].state = "removing"
    BY <1>1, <1>9 DEF FSolo, FHeld
  <2>2. ASSUME NEW a \in c.Names, NEW d, FIs(ws[a], d) PROVE FSafe(c, d)'
    <3>1. a # m
      BY <2>1, <2>2 DEF FIs
    <3> QED BY <1>5, <2>2, <3>1 DEF FSafe, FIs
  <2>3. ASSUME NEW s \in c.Threads, NEW d, FIs(task[s].aside, d) PROVE FSafe(c, d)'
    BY <1>4, <2>3 DEF FSafe, FIs
  <2>4. UNCHANGED <<trash, made>> /\ gone \subseteq gone' /\ debris \subseteq debris'
    BY <1>1
  <2> QED BY <1>9, <2>2, <2>3, <2>4, FPaths
<1> QED BY <1>1, <1>4, <1>6, <1>7, <1>8, <1>9 DEF FTold

LEMMA FDiscards == ASSUME NEW c, Filing(c)!ConstantsFit, FInv(c), NEW t \in c.Threads, Filing(c)!Discard(t) PROVE FTold(c, t)
<1> USE DEF FInv
<1>1. /\ task[t].at = "discard" /\ UNCHANGED <<ws, trash, debris, made>> /\ Filing(c)!Ends(t, TRUE)
      /\ gone' = IF task[t].over THEN gone \cup Filing(c)!Contents(task[t].aside) ELSE gone
  BY DEF Filing!Discard, Filing!At, Filing!Succeeds
<1>2. /\ task' \in [c.Threads -> FTask(c)] /\ \A s \in c.Threads \ {t} : task'[s] = task[s]
      /\ task'[t].at = "idle" /\ task'[t].aside = None /\ FCall(c, t)' /\ FSolo(c, t)'
  BY <1>1, FEnds
<1>3. /\ Filing(c)!Contents(task[t].aside) = (IF task[t].aside = None THEN {} ELSE task[t].aside.data)
      /\ Filing(c)!Contents(task[t].aside) \subseteq made
  BY DEF Filing!Contents, FCall, FSound
<1>4. FTypes(c)' /\ FShelves(c)'
  BY <1>1, <1>2, <1>3 DEF FTypes, FShelves, FSound
<1>5. ASSUME FAlone(c), FWhole(c) PROVE FWhole(c)'
  <2>1. ASSUME NEW a \in c.Names, NEW d, FIs(ws[a], d) PROVE FSafe(c, d)'
    BY <1>1, <2>1 DEF FSafe, FIs
  <2>2. ~task[t].over => task[t].aside = None
    BY <1>1, <1>5 DEF FSolo, FFree, FMoving
  <2>3. ASSUME NEW s \in c.Threads, NEW d \in made \ gone', FIs(task[s].aside, d) PROVE FSafe(c, d)'
    <3>1. s = t
      BY <1>5 DEF FAlone
    <3>2. FALSE
      BY <1>1, <1>3, <2>2, <2>3, <3>1 DEF FIs
    <3> QED BY <3>2
  <2>4. UNCHANGED <<trash, made>> /\ gone \subseteq gone' /\ debris \subseteq debris'
    BY <1>1
  <2> QED BY <1>5, <2>1, <2>3, <2>4, FPaths
<1> QED BY <1>1, <1>2, <1>4, <1>5 DEF FTold

LEMMA FRestores == ASSUME NEW c, Filing(c)!ConstantsFit, FInv(c), NEW t \in c.Threads, Filing(c)!Restore(t) PROVE FTold(c, t)
<1> USE DEF FInv
<1> DEFINE n == task[t].dst
<1>1. /\ task[t].at = "restore" /\ UNCHANGED <<trash, debris, made, gone>> /\ Filing(c)!Ends(t, FALSE) /\ n \in c.Names
      /\ ws' = IF task[t].aside = None THEN ws ELSE [ws EXCEPT ![n] = task[t].aside]
  BY DEF Filing!Restore, Filing!At, Filing!Fails, Filing!Restored, Filing!Put, FCall, FMoving
<1>2. /\ task' \in [c.Threads -> FTask(c)] /\ \A s \in c.Threads \ {t} : task'[s] = task[s]
      /\ task'[t].at = "idle" /\ task'[t].aside = None /\ FCall(c, t)' /\ FSolo(c, t)'
  BY <1>1, FEnds
<1>3. task[t].aside \in Filing(c)!Entry \cup {None} /\ FSound(task[t].aside)
  BY DEF FTypes, FTask, FCall
<1>4. /\ ws' \in [c.Names -> Filing(c)!Entry \cup {None}] /\ ws'[n] = (IF task[t].aside = None THEN ws[n] ELSE task[t].aside)
      /\ \A a \in c.Names \ {n} : ws'[a] = ws[a]
  BY <1>1, <1>3 DEF FTypes
<1>5. FTypes(c)' /\ FShelves(c)'
  BY <1>1, <1>2, <1>3, <1>4 DEF FTypes, FShelves, FSound
<1>6. ASSUME FAlone(c), FWhole(c) PROVE FWhole(c)'
  <2>1. task[t].aside = None \/ ws[n] = None
    BY <1>1, <1>6 DEF FSolo, FFree
  <2>2. ASSUME NEW a \in c.Names, NEW d, FIs(ws[a], d) PROVE FSafe(c, d)'
    <3>1. ws'[a] = ws[a]
      BY <1>4, <2>1, <2>2 DEF FIs
    <3> QED BY <2>2, <3>1 DEF FSafe, FIs
  <2>3. ASSUME NEW s \in c.Threads, NEW d, FIs(task[s].aside, d) PROVE FSafe(c, d)'
    <3>1. s = t
      BY <1>6 DEF FAlone
    <3>2. FIs(ws'[n], d)
      BY <1>4, <2>3, <3>1 DEF FIs
    <3> QED BY <1>1, <3>2 DEF FSafe, FIs
  <2>4. UNCHANGED <<trash, made>> /\ gone \subseteq gone' /\ debris \subseteq debris'
    BY <1>1
  <2> QED BY <1>6, <2>2, <2>3, <2>4, FPaths
<1> QED BY <1>1, <1>2, <1>5, <1>6 DEF FTold

\* A call whose caller is told earlier.
LEMMA FSlows == ASSUME NEW c, FInv(c), NEW t \in c.Threads, FSlow(c, t) PROVE FTold(c, t)
<1> USE DEF FInv
<1> DEFINE k == [task[t] EXCEPT !.told = TRUE]
<1>1. task' = [task EXCEPT ![t] = k] /\ UNCHANGED <<ws, trash, debris, made, gone>>
  BY DEF FSlow
<1>2. task[t] \in FTask(c)
  BY DEF FTypes
<1>3. /\ k \in FTask(c) /\ k.at = task[t].at /\ k.op = task[t].op /\ k.src = task[t].src /\ k.dst = task[t].dst
      /\ k.over = task[t].over /\ k.load = task[t].load /\ k.staged = task[t].staged
      /\ k.aside = task[t].aside /\ k.before = task[t].before
  BY <1>2 DEF FTask
<1> HIDE DEF k
<1>4. task' \in [c.Threads -> FTask(c)] /\ task'[t] = k /\ \A s \in c.Threads \ {t} : task'[s] = task[s]
  BY <1>1, <1>3, FSets
<1>5. FTypes(c)' /\ FShelves(c)'
  BY <1>1, <1>4 DEF FTypes, FShelves, FSound
<1>6. FCall(c, t)'
  BY <1>1, <1>3, <1>4 DEF FCall, FSound
<1>7. ASSUME FAlone(c) PROVE FSolo(c, t)'
  <2>1. FFree(c, t)' /\ FHeld(c, t)'
    BY <1>1, <1>3, <1>4, <1>7 DEF FSolo, FFree, FHeld
  <2>2. FBefore(c, t) /\ (task[t].at = "restore" => Filing(c)!Restored(t)' = Filing(c)!Restored(t))
        /\ (Filing(c)!Stranded(t) => Filing(c)!Stranded(t)')
    BY <1>1, <1>3, <1>4, <1>7 DEF FSolo, Filing!Restored, Filing!Put, Filing!Stranded
  <2>3. FBefore(c, t)'
    BY <1>1, <1>3, <1>4, <2>2 DEF FBefore
  <2> QED BY <2>1, <2>3 DEF FSolo
<1>8. FWhole(c) => FWhole(c)'
  <2>1. \A s \in c.Threads : task'[s].aside = task[s].aside
    BY <1>3, <1>4
  <2> QED BY <1>1, <2>1, FStill
<1> QED BY <1>1, <1>3, <1>4, <1>5, <1>6, <1>7, <1>8 DEF FTold

\* What the system refuses first ends the call.
LEMMA FRefusesFirst == ASSUME NEW c, FInv(c), NEW t \in c.Threads, Filing(c)!RefusesFirst(t) PROVE FTold(c, t)
<1> USE DEF FInv
<1>1. /\ task[t].at \in {"write", "trash", "hard", "displace"} /\ UNCHANGED <<ws, trash, made, gone>>
      /\ debris' = debris \cup Filing(c)!Debris(task[t].staged) /\ Filing(c)!Ends(t, FALSE)
      /\ "locked" \in c.Faults
  BY DEF Filing!RefusesFirst, Filing!Refusal, Filing!Fails
<1>2. /\ task' \in [c.Threads -> FTask(c)] /\ \A s \in c.Threads \ {t} : task'[s] = task[s]
      /\ task'[t].at = "idle" /\ task'[t].aside = None /\ FCall(c, t)' /\ FSolo(c, t)'
  BY <1>1, FEnds
<1>3. FTypes(c)' /\ FShelves(c)'
  <2>1. Filing(c)!Debris(task[t].staged) \subseteq Filing(c)!Entry
    BY DEF FTypes, FTask, Filing!Debris
  <2> QED BY <1>1, <1>2, <2>1 DEF FTypes, FShelves, FSound
<1>4. ASSUME FAlone(c), FWhole(c) PROVE FWhole(c)'
  <2>1. task[t].aside = None
    BY <1>1, <1>4 DEF FSolo, FFree, FCall, FMoving
  <2>2. ASSUME NEW a \in c.Names, NEW d, FIs(ws[a], d) PROVE FSafe(c, d)'
    BY <1>1, <2>2 DEF FSafe, FIs
  <2>3. ASSUME NEW s \in c.Threads, NEW d, FIs(task[s].aside, d) PROVE FSafe(c, d)'
    BY <1>4, <2>1, <2>3 DEF FIs, FAlone
  <2>4. UNCHANGED <<trash, made>> /\ gone \subseteq gone' /\ debris \subseteq debris'
    BY <1>1
  <2> QED BY <1>4, <2>2, <2>3, <2>4, FPaths
<1> QED BY <1>1, <1>2, <1>3, <1>4 DEF FTold

\* What it refuses next is undone.
LEMMA FRefusesNext == ASSUME NEW c, FInv(c), NEW t \in c.Threads, Filing(c)!RefusesNext(t) PROVE FTold(c, t)
<1> USE DEF FInv
<1> DEFINE k == FStaged(task[t], None, "restore")
<1>1. /\ task[t].at \in {"relocate", "stage", "building", "install"} /\ UNCHANGED <<ws, trash, made, gone>>
      /\ debris' \in {debris, debris \cup Filing(c)!Debris(task[t].staged)}
      /\ task' = [task EXCEPT ![t] = k] /\ "locked" \in c.Faults
  BY DEF Filing!RefusesNext, Filing!Refusal, FStaged
<1>2. task[t] \in FTask(c) /\ None \in Filing(c)!Entry \cup {None} /\ "restore" \in FMoving
  BY DEF FTypes, FMoving
<1>3. /\ k \in FTask(c) /\ k.at = "restore" /\ k.staged = None /\ k.aside = task[t].aside
      /\ k.op = task[t].op /\ k.src = task[t].src /\ k.dst = task[t].dst /\ k.over = task[t].over
      /\ k.before = task[t].before
  BY <1>2, FTakes
<1> HIDE DEF k
<1>4. task' \in [c.Threads -> FTask(c)] /\ task'[t] = k /\ \A s \in c.Threads \ {t} : task'[s] = task[s]
  BY <1>1, <1>3, FSets
<1>5. FTypes(c)' /\ FShelves(c)'
  <2>1. Filing(c)!Debris(task[t].staged) \subseteq Filing(c)!Entry
    BY DEF FTypes, FTask, Filing!Debris
  <2> QED BY <1>1, <1>4, <2>1 DEF FTypes, FShelves, FSound
<1>6. FCall(c, t)'
  BY <1>1, <1>3, <1>4 DEF FCall, FSound, FMoving
<1>7. ASSUME FAlone(c) PROVE FSolo(c, t)'
  BY <1>1, <1>3, <1>4, <1>7, FGivesUp
<1>8. ASSUME FWhole(c) PROVE FWhole(c)'
  <2>1. ASSUME NEW a \in c.Names, NEW d, FIs(ws[a], d) PROVE FSafe(c, d)'
    BY <1>1, <2>1 DEF FSafe, FIs
  <2>2. ASSUME NEW s \in c.Threads, NEW d, FIs(task[s].aside, d) PROVE FSafe(c, d)'
    BY <1>3, <1>4, <2>2 DEF FSafe, FIs
  <2>3. UNCHANGED <<trash, made>> /\ gone \subseteq gone' /\ debris \subseteq debris'
    BY <1>1
  <2> QED BY <1>8, <2>1, <2>2, <2>3, FPaths
<1> QED BY <1>1, <1>3, <1>4, <1>5, <1>6, <1>7, <1>8 DEF FTold

\* A tree of which something is left.
LEMMA FRefusesRmdir == ASSUME NEW c, FInv(c), NEW t \in c.Threads, Filing(c)!RefusesRmdir(t) PROVE FTold(c, t)
<1> USE DEF FInv
<1> DEFINE k == [task[t] EXCEPT !.at = "stranded"]
<1>1. /\ task[t].at = "rmdir" /\ UNCHANGED <<ws, trash, debris, made, gone>> /\ task' = [task EXCEPT ![t] = k]
      /\ task[t].op = "hard" /\ task[t].aside = None /\ "locked" \in c.Faults
  BY DEF Filing!RefusesRmdir, Filing!Refusal, Filing!At, Filing!Goes, FCall, FMoving
<1>2. task[t] \in FTask(c)
  BY DEF FTypes
<1>3. /\ k \in FTask(c) /\ k.at = "stranded" /\ k.op = "hard" /\ k.src = task[t].src /\ k.aside = None
      /\ k.before = task[t].before
  BY <1>1, <1>2 DEF FTask
<1> HIDE DEF k
<1>4. task' \in [c.Threads -> FTask(c)] /\ task'[t] = k /\ \A s \in c.Threads \ {t} : task'[s] = task[s]
  BY <1>1, <1>3, FSets
<1>5. FTypes(c)' /\ FShelves(c)'
  BY <1>1, <1>4 DEF FTypes, FShelves, FSound
<1>6. FCall(c, t)'
  BY <1>3, <1>4 DEF FCall, FSound, FMoving
<1>7. ASSUME FAlone(c) PROVE FSolo(c, t)'
  <2>1. FFree(c, t)' /\ FHeld(c, t)'
    BY <1>3, <1>4 DEF FFree, FHeld, FMoving
  <2>2. c.History => /\ task[t].before \in [c.Names -> Filing(c)!Entry \cup {None}]
                     /\ ws' = [task[t].before EXCEPT ![task[t].src].state = "removing"]
    BY <1>1, <1>7 DEF FSolo, FBefore
  <2>3. FBefore(c, t)'
    BY <1>3, <1>4, <2>2 DEF FBefore, Filing!Stranded
  <2> QED BY <2>1, <2>3 DEF FSolo
<1>8. FWhole(c) => FWhole(c)'
  <2>1. \A s \in c.Threads : task'[s].aside = task[s].aside
    BY <1>1, <1>3, <1>4
  <2> QED BY <1>1, <2>1, FStill
<1> QED BY <1>1, <1>3, <1>4, <1>5, <1>6, <1>7, <1>8 DEF FTold

\* A destination that is not put back is whole in a sibling.
LEMMA FRefusesRestore == ASSUME NEW c, FInv(c), NEW t \in c.Threads, Filing(c)!RefusesRestore(t) PROVE FTold(c, t)
<1> USE DEF FInv
<1> DEFINE n == task[t].dst
           e == task[t].aside
           k == FAside(task[t], None, "stranded")
<1>1. /\ task[t].at = "restore" /\ UNCHANGED <<trash, made, gone>> /\ e # None /\ debris' = debris \cup {e}
      /\ task' = [task EXCEPT ![t] = k] /\ ws' \in {ws, [ws EXCEPT ![n] = None]} /\ "locked" \in c.Faults
  BY DEF Filing!RefusesRestore, Filing!Refusal, Filing!At, Filing!Put, FAside
<1>2. task[t] \in FTask(c) /\ n \in c.Names /\ task[t].op \in {"move", "copy"} /\ e \in Filing(c)!Entry
  BY <1>1 DEF FTypes, FTask, FCall, FMoving
<1>3. /\ k \in FTask(c) /\ k.at = "stranded" /\ k.op = task[t].op /\ k.dst = n /\ k.aside = None
      /\ k.before = task[t].before
  BY <1>2 DEF FTask, FAside
<1> HIDE DEF k
<1>4. task' \in [c.Threads -> FTask(c)] /\ task'[t] = k /\ \A s \in c.Threads \ {t} : task'[s] = task[s]
  BY <1>1, <1>3, FSets
<1>5. ws' \in [c.Names -> Filing(c)!Entry \cup {None}] /\ \A a \in c.Names : ws'[a] = ws[a] \/ (a = n /\ ws'[a] = None)
  BY <1>1 DEF FTypes
<1>6. FTypes(c)' /\ FShelves(c)'
  BY <1>1, <1>2, <1>4, <1>5 DEF FTypes, FShelves, FSound
<1>7. FCall(c, t)'
  BY <1>2, <1>3, <1>4 DEF FCall, FSound, FMoving
<1>8. ASSUME FAlone(c) PROVE FSolo(c, t)' /\ ws[n] = None
  <2>1. ws[n] = None
    BY <1>1, <1>8 DEF FSolo, FFree
  <2>2. FFree(c, t)' /\ FHeld(c, t)'
    BY <1>2, <1>3, <1>4 DEF FFree, FHeld, FMoving
  <2>3. c.History => /\ task[t].before \in [c.Names -> Filing(c)!Entry \cup {None}]
                     /\ [ws EXCEPT ![n] = e] = task[t].before
    BY <1>1, <1>8 DEF FSolo, FBefore, Filing!Restored, Filing!Put
  <2>4. c.History => ws' = [task[t].before EXCEPT ![n] = None] /\ task[t].before[n] = e
    <3>1. ws \in [c.Names -> Filing(c)!Entry \cup {None}]
      BY DEF FTypes
    <3> QED BY <1>1, <1>2, <2>1, <2>3, <3>1
  <2>5. FBefore(c, t)'
    BY <1>1, <1>2, <1>3, <1>4, <2>3, <2>4 DEF FBefore, Filing!Stranded
  <2> QED BY <2>1, <2>2, <2>5 DEF FSolo
<1>9. ASSUME FAlone(c), FWhole(c) PROVE FWhole(c)'
  <2>1. ASSUME NEW a \in c.Names, NEW d, FIs(ws[a], d) PROVE FSafe(c, d)'
    <3>1. ws'[a] = ws[a]
      BY <1>5, <1>8, <1>9, <2>1 DEF FIs
    <3> QED BY <2>1, <3>1 DEF FSafe, FIs
  <2>2. ASSUME NEW s \in c.Threads, NEW d, FIs(task[s].aside, d) PROVE FSafe(c, d)'
    <3>1. task[s].aside \in debris'
      BY <1>1, <1>9 DEF FAlone
    <3> QED BY <2>2, <3>1 DEF FSafe, FIs
  <2>3. UNCHANGED <<trash, made>> /\ gone \subseteq gone' /\ debris \subseteq debris'
    BY <1>1
  <2> QED BY <1>9, <2>1, <2>2, <2>3, FPaths
<1> QED BY <1>1, <1>3, <1>4, <1>6, <1>7, <1>8, <1>9 DEF FTold

\* A sweep that does not get rid of the oldest entry.
LEMMA FRefusesPrune ==
    ASSUME NEW c, Filing(c)!ConstantsFit, FInv(c), NEW t \in c.Threads, Filing(c)!RefusesPrune(t)
    PROVE  FTold(c, t)
<1> USE DEF FInv
<1> DEFINE e == [trash[1] EXCEPT !.state = "removing"]
<1>1. /\ task[t].at = "prune" /\ UNCHANGED <<ws, debris, made>> /\ Len(trash) = c.Limit + 1 /\ "locked" \in c.Faults
      /\ trash' = [trash EXCEPT ![1] = e] /\ gone' = gone \cup trash[1].data /\ Filing(c)!Ends(t, TRUE)
  BY DEF Filing!RefusesPrune, Filing!Refusal, Filing!At, Filing!Succeeds
<1>2. trash \in Seq(Filing(c)!Entry) /\ c.Limit \in Nat /\ Len(trash) \in Nat /\ 1 \in 1..Len(trash)
  BY <1>1 DEF FTypes, Filing!ConstantsFit
<1>3. trash[1] \in Filing(c)!Entry /\ trash[1] # None /\ FSound(trash[1])
  BY <1>2 DEF FShelves, Filing!ConstantsFit
<1>4. e \in Filing(c)!Entry /\ e.state = "removing" /\ e.data = trash[1].data
  BY <1>3 DEF Filing!Entry
<1> HIDE DEF e
<1>5. /\ trash' \in Seq(Filing(c)!Entry) /\ Len(trash') = Len(trash) /\ trash'[1] = e
      /\ \A i \in 1..Len(trash) : i # 1 => trash'[i] = trash[i]
  BY <1>1, <1>2, <1>4
<1>6. /\ task' \in [c.Threads -> FTask(c)] /\ \A s \in c.Threads \ {t} : task'[s] = task[s]
      /\ task'[t].at = "idle" /\ task'[t].aside = None /\ FCall(c, t)' /\ FSolo(c, t)'
  BY <1>1, FEnds
<1>7. FTypes(c)'
  BY <1>1, <1>3, <1>5, <1>6 DEF FTypes, FSound
<1>8. FShelves(c)'
  <2>1. \A i \in 1..Len(trash') : FSound(trash'[i])
    BY <1>3, <1>4, <1>5 DEF FShelves, FSound
  <2>2. \A i \in 1..Len(trash') : FSound(trash[i])'
    BY <1>1, <2>1 DEF FSound
  <2> QED BY <1>1, <2>2 DEF FShelves, FSound
<1>9. ASSUME FWhole(c) PROVE FWhole(c)'
  <2>1. ASSUME NEW d \in made \ gone', NEW i \in 1..Len(trash), FIs(trash[i], d) PROVE FSafe(c, d)'
    <3>1. i # 1
      BY <1>1, <2>1 DEF FIs
    <3> QED BY <1>5, <2>1, <3>1 DEF FSafe, FIs
  <2>2. ASSUME NEW d, NEW m \in c.Names, FIs(ws[m], d) PROVE FSafe(c, d)'
    BY <1>1, <2>2 DEF FSafe, FIs
  <2>3. ASSUME NEW d, NEW s \in c.Threads, FIs(task[s].aside, d) PROVE FSafe(c, d)'
    <3>1. task[t].aside = None
      BY <1>1 DEF FCall, FMoving
    <3> QED BY <1>6, <2>3, <3>1 DEF FSafe, FIs
  <2>4. made' = made /\ gone \subseteq gone' /\ debris \subseteq debris'
    BY <1>1
  <2> QED BY <1>9, <2>1, <2>2, <2>3, <2>4, FShifts
<1> QED BY <1>1, <1>6, <1>7, <1>8, <1>9 DEF FTold

LEMMA FGives == ASSUME NEW c, FInv(c), NEW t \in c.Threads, Filing(c)!GivesUp(t) PROVE FTold(c, t)
<1> USE DEF FInv
<1>1. /\ task[t].at = "stranded" /\ UNCHANGED <<ws, trash, debris, made, gone>> /\ Filing(c)!Ends(t, FALSE)
      /\ task[t].aside = None
  BY DEF Filing!GivesUp, Filing!At, Filing!Fails, FCall, FMoving
<1> QED BY <1>1, FStops

LEMMA FCrashes == ASSUME NEW c, Filing(c)!ConstantsFit, FInv(c), Filing(c)!Crash PROVE FInv(c)'
<1> USE DEF FInv
<1>1. /\ "crash" \in c.Faults /\ UNCHANGED <<ws, trash, made, gone>>
      /\ debris' = debris \cup UNION {Filing(c)!Debris(task[t].staged) \cup Filing(c)!Debris(task[t].aside) : t \in c.Threads}
      /\ task' = [t \in c.Threads |-> Filing(c)!Idle]
  BY DEF Filing!Crash
<1>2. Filing(c)!Idle \in FTask(c) /\ Filing(c)!Idle.at = "idle" /\ Filing(c)!Idle.aside = None /\ Filing(c)!Idle.op = "none"
  BY DEF Filing!Idle, FTask
<1>3. task' \in [c.Threads -> FTask(c)] /\ \A t \in c.Threads : task'[t] = Filing(c)!Idle
  BY <1>1, <1>2
<1>4. \A t \in c.Threads : {task[t].staged, task[t].aside} \subseteq Filing(c)!Entry \cup {None}
  BY DEF FTypes, FTask
<1>5. debris' \subseteq Filing(c)!Entry
  BY <1>1, <1>4 DEF FTypes, Filing!Debris
<1>6. FTypes(c)' /\ FShelves(c)'
  BY <1>1, <1>3, <1>5 DEF FTypes, FShelves, FSound
<1>7. \A t \in c.Threads : FCall(c, t)'
  BY <1>2, <1>3 DEF FCall, FSound, FMoving
<1>8. \A t \in c.Threads : FFree(c, t)' /\ FHeld(c, t)' /\ FBefore(c, t)'
  <2>1. \A t \in c.Threads : FFree(c, t)' /\ FHeld(c, t)'
    BY <1>2, <1>3 DEF FFree, FHeld, FMoving
  <2>2. \A t \in c.Threads : FBefore(c, t)'
    BY <1>2, <1>3 DEF FBefore
  <2> QED BY <2>1, <2>2
<1>9. FBound(c)'
  BY <1>1 DEF FBound
<1>10. ASSUME FWhole(c) PROVE FWhole(c)'
  <2>1. ASSUME NEW a \in c.Names, NEW d, FIs(ws[a], d) PROVE FSafe(c, d)'
    BY <1>1, <2>1 DEF FSafe, FIs
  <2>2. ASSUME NEW s \in c.Threads, NEW d, FIs(task[s].aside, d) PROVE FSafe(c, d)'
    <3>1. task[s].aside \in debris'
      BY <1>1, <2>2 DEF FIs, Filing!Debris
    <3> QED BY <2>2, <3>1 DEF FSafe, FIs
  <2>3. UNCHANGED <<trash, made>> /\ gone \subseteq gone' /\ debris \subseteq debris'
    BY <1>1
  <2> QED BY <1>10, <2>1, <2>2, <2>3, FPaths
<1> QED BY <1>6, <1>7, <1>8, <1>9, <1>10 DEF FSolo, FAlone, FNoLinks

LEMMA FInit == ASSUME NEW c, Filing(c)!ConstantsFit, Filing(c)!Init PROVE FInv(c)
<1>1. PICK start \in [c.Names -> {None} \cup Filing(c)!Single] :
        /\ \A n, m \in c.Names : n # m /\ start[n] # None /\ start[m] # None => start[n].data # start[m].data
        /\ \A n \in c.Names : start[n] # None /\ start[n].kind = "file" => start[n].data \cap c.Special = {}
        /\ ws = [n \in c.Names |-> IF start[n] # None /\ start[n].kind = "dir"
                                   THEN [start[n] EXCEPT !.data = @ \cup c.Special] ELSE start[n]]
        /\ made = UNION {ws[n].data : n \in {m \in c.Names : ws[m] # None}}
  BY DEF Filing!Init
<1>2. trash = <<>> /\ debris = {} /\ gone = {} /\ task = [t \in c.Threads |-> Filing(c)!Idle]
  BY DEF Filing!Init
<1>3. \A n \in c.Names : ws[n] = None \/ (ws[n] \in Filing(c)!Entry /\ ws[n].state = "whole")
  <2>1. SUFFICES ASSUME NEW n \in c.Names, start[n] # None
                 PROVE  ws[n] \in Filing(c)!Entry /\ ws[n].state = "whole"
    BY <1>1
  <2>2. start[n] \in Filing(c)!Single
    BY <2>1
  <2>3. start[n] \in Filing(c)!Entry /\ start[n].state = "whole"
    BY <2>2 DEF Filing!Single
  <2>4. [start[n] EXCEPT !.data = @ \cup c.Special] \in Filing(c)!Entry
        /\ [start[n] EXCEPT !.data = @ \cup c.Special].state = "whole"
    BY <2>3 DEF Filing!Entry, Filing!ConstantsFit
  <2>5. ws[n] = IF start[n].kind = "dir" THEN [start[n] EXCEPT !.data = @ \cup c.Special] ELSE start[n]
    BY <1>1, <2>1
  <2> QED BY <2>3, <2>4, <2>5
<1>4. Filing(c)!Idle \in FTask(c) /\ Filing(c)!Idle.at = "idle" /\ Filing(c)!Idle.aside = None /\ Filing(c)!Idle.op = "none"
  BY DEF Filing!Idle, FTask
<1>5. task \in [c.Threads -> FTask(c)] /\ \A t \in c.Threads : task[t] = Filing(c)!Idle
  BY <1>2, <1>4
<1>6. \A n \in c.Names : ws[n] # None => ws[n].data \subseteq made
  BY <1>1
<1>7. made \subseteq c.Data
  <2>1. \A n \in {m \in c.Names : ws[m] # None} : ws[n].data \subseteq c.Data
    BY <1>3 DEF Filing!Entry
  <2> QED BY <1>1, <2>1
<1>8. FTypes(c)
  <2>1. ws \in [c.Names -> Filing(c)!Entry \cup {None}]
    BY <1>1, <1>3
  <2>2. trash \in Seq(Filing(c)!Entry)
    BY <1>2
  <2> QED BY <1>2, <1>5, <1>7, <2>1, <2>2 DEF FTypes
<1>9. Len(trash) = 0
  BY <1>2
<1>10. FShelves(c)
  BY <1>3, <1>6, <1>9 DEF FShelves, FSound
<1>11. \A t \in c.Threads : FCall(c, t)
  BY <1>4, <1>5 DEF FCall, FSound, FMoving
<1>12. \A t \in c.Threads : FFree(c, t) /\ FHeld(c, t)
  BY <1>4, <1>5 DEF FFree, FHeld, FMoving
<1>13. \A t \in c.Threads : FBefore(c, t)
  BY <1>4, <1>5 DEF FBefore
<1>14. FBound(c)
  BY <1>9 DEF FBound, Filing!BoundedTrash, Filing!ConstantsFit
<1>15. FWhole(c)
  BY <1>1, <1>3 DEF FWhole, FSafe, FIs
<1> QED BY <1>8, <1>10, <1>11, <1>12, <1>13, <1>14, <1>15 DEF FInv, FSolo

FRefused(c, t) ==
    \/ Filing(c)!RefusesFirst(t) \/ Filing(c)!RefusesNext(t) \/ Filing(c)!RefusesRmdir(t)
    \/ Filing(c)!RefusesRestore(t) \/ Filing(c)!RefusesPrune(t) \/ Filing(c)!GivesUp(t)

LEMMA FStep ==
    ASSUME NEW c, Filing(c)!ConstantsFit, FInv(c), [Filing(c)!Next]_(Filing(c)!vars)
    PROVE  FInv(c)'
<1>1. ASSUME NEW t \in c.Threads, Filing(c)!Compose(t) \/ Filing(c)!Write(t) \/ Filing(c)!Timeout(t) PROVE FInv(c)'
  BY <1>1, FComposes, FTimes, FWrites, FSlows, FFrame
<1>2. ASSUME NEW t \in c.Threads,
             Filing(c)!CheckDelete(t) \/ Filing(c)!Place(t) \/ Filing(c)!Prune(t) \/ Filing(c)!Remove(t) \/ Filing(c)!Rmdir(t)
      PROVE  FInv(c)'
  BY <1>2, FChecks, FPlaces, FPrunes, FRemoves, FRmdirs, FFrame
<1>3. ASSUME NEW t \in c.Threads,
             Filing(c)!Prepare(t) \/ Filing(c)!Displace(t) \/ Filing(c)!Relocate(t) \/ Filing(c)!Stage(t) \/ Filing(c)!Built(t)
      PROVE  FInv(c)'
  BY <1>3, FPrepares, FDisplaces, FRelocates, FStages, FBuilds, FFrame
<1>4. ASSUME NEW t \in c.Threads,
             Filing(c)!Install(t) \/ Filing(c)!PurgeSource(t) \/ Filing(c)!Purged(t) \/ Filing(c)!Discard(t) \/ Filing(c)!Restore(t)
      PROVE  FInv(c)'
  BY <1>4, FInstalls, FPurges, FPurged, FDiscards, FRestores, FFrame
<1>6. ASSUME NEW t \in c.Threads, FRefused(c, t) PROVE FInv(c)'
  BY <1>6, FRefusesFirst, FRefusesNext, FRefusesRmdir, FRefusesRestore, FRefusesPrune, FGives, FFrame DEF FRefused
<1>5. CASE UNCHANGED Filing(c)!vars
  <2>1. UNCHANGED <<ws, trash, debris, made, gone, task>>
    BY <1>5 DEF Filing!vars
  <2>2. FTypes(c)' /\ FShelves(c)' /\ FBound(c)'
    BY <2>1 DEF FInv, FTypes, FShelves, FSound, FBound, Filing!BoundedTrash, Filing!At
  <2>3. \A t \in c.Threads : FCall(c, t)'
    BY <2>1 DEF FInv, FCall, FSound
  <2>4. FAlone(c) => \A t \in c.Threads : FFree(c, t)' /\ FHeld(c, t)'
    BY <2>1 DEF FInv, FSolo, FFree, FHeld
  <2>5. FAlone(c) => \A t \in c.Threads : FBefore(c, t)'
    BY <2>1 DEF FInv, FSolo, FBefore, Filing!Restored, Filing!Put, Filing!Stranded
  <2>6. FWhole(c) => FWhole(c)'
    BY <2>1, FStill
  <2> QED BY <2>2, <2>3, <2>4, <2>5, <2>6 DEF FInv, FSolo, FAlone, FNoLinks
<1> QED BY <1>1, <1>2, <1>3, <1>4, <1>5, <1>6, FCrashes DEF Filing!Next, FRefused


\* Where a call stands when it takes each step.
LEMMA FStands ==
    ASSUME NEW c, NEW t
    PROVE  /\ Filing(c)!Compose(t) \/ Filing(c)!CheckDelete(t) \/ Filing(c)!Prepare(t) => task[t].at = "idle"
           /\ Filing(c)!Write(t) \/ FCut(c, t) => task[t].at = "write"
           /\ Filing(c)!Place(t) => task[t].at = "trash"
           /\ Filing(c)!Prune(t) => task[t].at = "prune"
           /\ Filing(c)!Remove(t) => task[t].at = "hard"
           /\ Filing(c)!Rmdir(t) => task[t].at = "rmdir"
           /\ Filing(c)!Displace(t) => task[t].at = "displace"
           /\ Filing(c)!Relocate(t) => task[t].at = "relocate"
           /\ Filing(c)!Stage(t) => task[t].at = "stage"
           /\ Filing(c)!Built(t) => task[t].at = "building"
           /\ Filing(c)!Install(t) => task[t].at = "install"
           /\ Filing(c)!PurgeSource(t) => task[t].at = "purge"
           /\ Filing(c)!Purged(t) => task[t].at = "purged"
           /\ Filing(c)!Discard(t) => task[t].at = "discard"
           /\ Filing(c)!Restore(t) => task[t].at = "restore"
<1>1. /\ Filing(c)!Compose(t) \/ Filing(c)!CheckDelete(t) \/ Filing(c)!Prepare(t) => task[t].at = "idle"
      /\ Filing(c)!Write(t) \/ FCut(c, t) => task[t].at = "write"
      /\ Filing(c)!Place(t) => task[t].at = "trash"
      /\ Filing(c)!Prune(t) => task[t].at = "prune"
      /\ Filing(c)!Remove(t) => task[t].at = "hard"
      /\ Filing(c)!Rmdir(t) => task[t].at = "rmdir"
  BY Zenon DEF Filing!At, Filing!Compose, Filing!CheckDelete, Filing!Prepare, Filing!Write, FCut, Filing!Place,
     Filing!Prune, Filing!Remove, Filing!Rmdir
<1>2. /\ Filing(c)!Displace(t) => task[t].at = "displace"
      /\ Filing(c)!Relocate(t) => task[t].at = "relocate"
      /\ Filing(c)!Stage(t) => task[t].at = "stage"
      /\ Filing(c)!Built(t) => task[t].at = "building"
      /\ Filing(c)!Install(t) => task[t].at = "install"
      /\ Filing(c)!PurgeSource(t) => task[t].at = "purge"
      /\ Filing(c)!Purged(t) => task[t].at = "purged"
      /\ Filing(c)!Discard(t) => task[t].at = "discard"
      /\ Filing(c)!Restore(t) => task[t].at = "restore"
  BY Zenon DEF Filing!At, Filing!Displace, Filing!Relocate, Filing!Stage, Filing!Built, Filing!Install, Filing!PurgeSource,
     Filing!Purged, Filing!Discard, Filing!Restore
<1> QED BY <1>1, <1>2

FActs(c, t) ==
    \/ Filing(c)!Compose(t) \/ Filing(c)!Write(t) \/ FCut(c, t)
    \/ Filing(c)!CheckDelete(t) \/ Filing(c)!Place(t) \/ Filing(c)!Prune(t) \/ Filing(c)!Remove(t) \/ Filing(c)!Rmdir(t)
    \/ Filing(c)!Prepare(t) \/ Filing(c)!Displace(t) \/ Filing(c)!Relocate(t) \/ Filing(c)!Stage(t) \/ Filing(c)!Built(t)
    \/ Filing(c)!Install(t) \/ Filing(c)!PurgeSource(t) \/ Filing(c)!Purged(t) \/ Filing(c)!Discard(t)
    \/ Filing(c)!Restore(t)

LEMMA FMoves ==
    ASSUME NEW c, FTypes(c), NEW t \in c.Threads, task'[t].at = "idle"
    PROVE  \A x \in FMoving \cup {"rmdir"} : ~Filing(c)!Goes(t, x)
<1>1. ASSUME NEW x \in FMoving \cup {"rmdir"}, Filing(c)!Goes(t, x) PROVE task'[t].at = x
  <2> DEFINE k == [task[t] EXCEPT !.at = x]
  <2>1. task' = [task EXCEPT ![t] = k]
    BY <1>1 DEF Filing!Goes
  <2>2. k.at = x
    BY DEF FTypes, FTask
  <2>3. task'[t] = k
    <3> HIDE DEF k
    <3> QED BY <2>1 DEF FTypes
  <2> QED BY <2>2, <2>3
<1> QED BY <1>1 DEF FMoving

\* A call fails from the workspace it began with.
LEMMA FFails ==
    ASSUME NEW c, FInv(c), FAlone(c), c.History, NEW t \in c.Threads, FActs(c, t), task[t].at # "idle",
           task'[t].at = "idle", task'[t].ok # TRUE
    PROVE  ws' = task[t].before /\ task[t].at # "stranded"
<1> USE DEF FInv
<1>1. FTypes(c) /\ task[t] \in FTask(c) /\ FCall(c, t) /\ FHeld(c, t) /\ FFree(c, t) /\ FBefore(c, t)
  BY DEF FTypes, FSolo
<1>2. ~Filing(c)!Ends(t, TRUE)
  <2>1. Filing(c)!Ends(t, TRUE) => task'[t].ok = TRUE
    BY <1>1, FEnds
  <2> QED BY <2>1
<1>3. \A x \in FMoving \cup {"rmdir"} : ~Filing(c)!Goes(t, x)
  BY <1>1, FMoves
<1>4. \A e \in Filing(c)!Entry \cup {None}, x \in FMoving :
        task' # [task EXCEPT ![t] = FAside(task[t], e, x)] /\ task' # [task EXCEPT ![t] = FStaged(task[t], e, x)]
  <2>1. SUFFICES ASSUME NEW e \in Filing(c)!Entry \cup {None}, NEW x \in FMoving, NEW k,
                        k = FAside(task[t], e, x) \/ k = FStaged(task[t], e, x), task' = [task EXCEPT ![t] = k]
                 PROVE  FALSE
    OBVIOUS
  <2>2. k \in FTask(c) /\ k.at = x
    BY <1>1, <2>1, FTakes
  <2>3. task'[t] = k
    BY <1>1, <2>1, <2>2, FSets
  <2> QED BY <2>2, <2>3 DEF FMoving
<1>5. CASE task[t].at \in {"write", "hard"}
  <2>1. UNCHANGED ws
    BY <1>2, <1>3, <1>5, FStands DEF FActs, FMoving, Filing!Write, FCut, Filing!Remove, Filing!Removing, Filing!Succeeds
  <2> QED BY <1>1, <1>5, <2>1 DEF FBefore
<1>6. CASE task[t].at = "trash"
  <2>1. CASE ws[task[t].src] = None
    <3>1. Filing(c)!Place(t)
      BY <1>6, FStands DEF FActs
    <3>2. UNCHANGED ws
      BY <2>1, <3>1 DEF Filing!Place
    <3> QED BY <1>1, <1>6, <3>2 DEF FBefore
  <2>2. CASE ws[task[t].src] # None
    <3> DEFINE k == [task[t] EXCEPT !.at = "prune", !.load = ws[task[t].src]]
    <3>1. Filing(c)!Place(t)
      BY <1>6, FStands DEF FActs
    <3>2. task' = [task EXCEPT ![t] = k]
      BY <2>2, <3>1 DEF Filing!Place
    <3>3. k.at = "prune"
      BY <1>1 DEF FTask
    <3>4. task'[t] = k
      BY <1>1, <3>2 DEF FTypes
    <3> QED BY <3>3, <3>4
  <2> QED BY <2>1, <2>2
<1>7. CASE task[t].at = "rmdir"
  <2>1. Filing(c)!Rmdir(t)
    BY <1>7, FStands DEF FActs
  <2> QED BY <1>1, <1>2, <1>7, <2>1 DEF Filing!Rmdir, FHeld, Filing!Succeeds
<1>8. CASE task[t].at \in {"prune", "discard"}
  <2>1. Filing(c)!Prune(t) \/ Filing(c)!Discard(t)
    BY <1>8, FStands DEF FActs
  <2> QED BY <1>2, <2>1 DEF Filing!Prune, Filing!Discard, Filing!Succeeds
<1>9. CASE task[t].at \in {"relocate", "purge", "purged"}
  <2>1. Filing(c)!Relocate(t) \/ Filing(c)!PurgeSource(t) \/ Filing(c)!Purged(t)
    BY <1>9, FStands DEF FActs
  <2>2. {"discard", "restore", "stage", "purged"} \subseteq FMoving
    BY DEF FMoving
  <2> QED BY <1>3, <2>1, <2>2 DEF Filing!Relocate, Filing!PurgeSource, Filing!Purged, Filing!Removing
<1>10. CASE task[t].at = "displace"
  <2>1. Filing(c)!Displace(t)
    BY <1>10, FStands DEF FActs
  <2>2. \E x \in {"relocate", "install"} : task' = [task EXCEPT ![t] = FAside(task[t], ws[task[t].dst], x)]
    BY <2>1, <1>10 DEF Filing!Displace, Filing!Aside, FAside
  <2>3. ws[task[t].dst] \in Filing(c)!Entry \cup {None} /\ {"relocate", "install"} \subseteq FMoving
    BY <1>1, <1>10 DEF FTypes, FCall, FMoving
  <2> QED BY <1>4, <2>2, <2>3
<1>11. CASE task[t].at = "stage"
  <2>1. Filing(c)!Stage(t) /\ {"restore", "building"} \subseteq FMoving
    BY <1>11, FStands DEF FActs, FMoving
  <2> DEFINE b == [ws[task[t].src] EXCEPT !.data = @ \ c.Special, !.state = "building"]
  <2>2. CASE ws[task[t].src] # None
    <3>1. task' = [task EXCEPT ![t] = FStaged(task[t], b, "building")]
      BY <2>1, <2>2 DEF Filing!Stage, Filing!Builds, FStaged
    <3>2. ws[task[t].src] \in Filing(c)!Entry
      BY <1>1, <1>11, <2>2 DEF FTypes, FCall, FMoving
    <3>3. b \in Filing(c)!Entry
      BY <3>2 DEF Filing!Entry
    <3> QED BY <1>4, <2>1, <3>1, <3>3
  <2>3. CASE ws[task[t].src] = None
    BY <1>3, <2>1, <2>3 DEF Filing!Stage
  <2> QED BY <2>2, <2>3
<1>12. CASE task[t].at \in {"building", "install"}
  <2>1. Filing(c)!Built(t) \/ Filing(c)!Install(t)
    BY <1>12, FStands DEF FActs
  <2> DEFINE b == [task[t].staged EXCEPT !.state = "whole"]
  <2>2. \E e \in {None, b}, x \in FMoving :
          task' = [task EXCEPT ![t] = FStaged(task[t], e, x)] /\ (e = None \/ task[t].at = "building")
    BY <2>1, FStands DEF Filing!Built, Filing!Install, FStaged, FMoving
  <2>3. task[t].at = "building" => b \in Filing(c)!Entry
    <3>1. task[t].at = "building" => task[t].staged \in Filing(c)!Entry
      BY <1>1 DEF FCall, FTask
    <3> QED BY <3>1 DEF Filing!Entry
  <2> HIDE DEF b
  <2> QED BY <1>4, <2>2, <2>3
<1>13. CASE task[t].at = "restore"
  <2>1. Filing(c)!Restore(t)
    BY <1>13, FStands DEF FActs
  <2> QED BY <1>1, <1>13, <2>1 DEF Filing!Restore, FBefore
<1>14. task[t].at # "stranded"
  BY FStands DEF FActs
<1> QED BY <1>1, <1>5, <1>6, <1>7, <1>8, <1>9, <1>10, <1>11, <1>12, <1>13, <1>14 DEF FTask, FMoving

\* How a call goes on that is slow or is refused something.
LEMMA FHalts ==
    ASSUME NEW c, Filing(c)!ConstantsFit, FInv(c), NEW t \in c.Threads, FSlow(c, t) \/ FRefused(c, t),
           task[t].at # "idle", task'[t].at = "idle"
    PROVE  /\ Filing(c)!RefusesFirst(t) \/ Filing(c)!RefusesPrune(t) \/ Filing(c)!GivesUp(t)
           /\ Filing(c)!RefusesPrune(t) => task'[t].ok = TRUE
<1> USE DEF FInv
<1>1. task \in [c.Threads -> FTask(c)] /\ task[t] \in FTask(c)
  BY DEF FTypes
<1>2. ~FSlow(c, t)
  BY <1>1 DEF FSlow, FTask
<1>3. ~Filing(c)!RefusesNext(t)
  BY <1>1 DEF Filing!RefusesNext, FTask
<1>4. ~Filing(c)!RefusesRmdir(t)
  BY <1>1 DEF Filing!RefusesRmdir, Filing!Goes, FTask
<1>5. ~Filing(c)!RefusesRestore(t)
  BY <1>1 DEF Filing!RefusesRestore, FTask
<1>6. Filing(c)!RefusesPrune(t) => task'[t].ok = TRUE
  <2>1. Filing(c)!RefusesPrune(t) => Filing(c)!Ends(t, TRUE)
    BY DEF Filing!RefusesPrune, Filing!Succeeds
  <2> QED BY <2>1, FEnds
<1> QED BY <1>2, <1>3, <1>4, <1>5, <1>6 DEF FRefused

LEMMA FTells ==
    ASSUME NEW c, Filing(c)!ConstantsFit, FInv(c), [Filing(c)!Next]_(Filing(c)!vars)
    PROVE  Filing(c)!StepTells
<1> USE DEF FInv
<1>1. (\E t \in c.Threads : FActs(c, t) \/ FSlow(c, t) \/ FRefused(c, t)) \/ Filing(c)!Crash \/ UNCHANGED <<ws, trash, task>>
  BY FTimes DEF Filing!Next, Filing!vars, FActs, FRefused
<1>2. ASSUME Filing(c)!Crash
      PROVE  UNCHANGED <<ws, trash>> /\ \A t \in c.Threads : task'[t].ok = TRUE
  BY <1>2 DEF Filing!Crash, Filing!Idle
<1>3. Filing(c)!OneAtATime <=> FAlone(c)
  BY DEF Filing!OneAtATime, FAlone
<1>4. ASSUME FAlone(c), c.History PROVE Filing(c)!FailureRestores
  <2>1. SUFFICES ASSUME NEW t \in c.Threads, task[t].at # "idle", task'[t].at = "idle", task'[t].ok # TRUE
                 PROVE  IF task[t].at = "stranded" THEN Filing(c)!Stranded(t) /\ UNCHANGED ws ELSE ws' = task[t].before
    BY DEF Filing!FailureRestores, Filing!At
  <2>2. CASE \E s \in c.Threads : FActs(c, s)
    <3>1. FActs(c, t)
      BY <1>4, <2>2 DEF FAlone
    <3> QED BY <1>4, <2>1, <3>1, FFails
  <2>3. CASE Filing(c)!Crash
    <3>1. task'[t].ok = TRUE
      BY <1>2, <2>3
    <3> QED BY <2>1, <3>1
  <2>4. CASE UNCHANGED <<ws, trash, task>>
    <3>1. task'[t] = task[t]
      BY <2>4
    <3> QED BY <2>1, <3>1
  <2>5. CASE \E s \in c.Threads : FSlow(c, s) \/ FRefused(c, s)
    <3>1. FSlow(c, t) \/ FRefused(c, t)
      BY <1>4, <2>5 DEF FAlone
    <3>2. Filing(c)!RefusesFirst(t) \/ Filing(c)!GivesUp(t)
      BY <2>1, <3>1, FHalts
    <3>3. FBefore(c, t)
      BY <1>4 DEF FSolo
    <3>4. CASE Filing(c)!RefusesFirst(t)
      BY <1>4, <3>3, <3>4 DEF Filing!RefusesFirst, FBefore
    <3>5. CASE Filing(c)!GivesUp(t)
      BY <1>4, <3>3, <3>5 DEF Filing!GivesUp, Filing!At, FBefore
    <3> QED BY <3>2, <3>4, <3>5
  <2> QED BY <1>1, <2>2, <2>3, <2>4, <2>5
<1>5. ASSUME FAlone(c), "locked" \notin c.Faults PROVE Filing(c)!Moved
  <2>1. SUFFICES ASSUME NEW t \in c.Threads, task[t].op = "move", task'[t].at = "idle", task[t].at = "discard"
                 PROVE  ws'[task[t].src] = None
    BY DEF Filing!Moved, Filing!At
  <2>2. ws[task[t].src] = None
    BY <1>5, <2>1 DEF FSolo, FHeld
  <2>3. CASE \E s \in c.Threads : FActs(c, s)
    <3>1. FActs(c, t)
      BY <1>5, <2>3 DEF FAlone
    <3>2. Filing(c)!Discard(t)
      BY <2>1, <3>1, FStands DEF FActs
    <3> QED BY <2>2, <3>2 DEF Filing!Discard
  <2>4. CASE \E s \in c.Threads : FSlow(c, s) \/ FRefused(c, s)
    <3>1. FSlow(c, t) \/ FRefused(c, t)
      BY <1>5, <2>4 DEF FAlone
    <3>2. Filing(c)!RefusesFirst(t) \/ Filing(c)!RefusesPrune(t) \/ Filing(c)!GivesUp(t)
      BY <2>1, <3>1, FHalts
    <3> QED BY <2>1, <3>2 DEF Filing!RefusesFirst, Filing!RefusesPrune, Filing!GivesUp, Filing!At
  <2> QED BY <1>1, <1>2, <2>1, <2>2, <2>3, <2>4
<1>6. ASSUME FAlone(c), "clock" \notin c.Faults, c.Limit > 0 PROVE Filing(c)!Recoverable
  <2>1. SUFFICES ASSUME NEW t \in c.Threads, task[t].at = "prune", task'[t].at = "idle"
                 PROVE  \E i \in DOMAIN trash' : trash'[i] = task[t].load
    BY DEF Filing!Recoverable, Filing!At
  <2>2. /\ Len(trash) > 0 /\ trash[Len(trash)] = task[t].load /\ trash \in Seq(Filing(c)!Entry) /\ Len(trash) \in Nat
        /\ DOMAIN trash = 1..Len(trash)
    BY <1>6, <2>1 DEF FSolo, FHeld, FTypes
  <2>3. CASE \E s \in c.Threads : FActs(c, s)
    <3>1. FActs(c, t)
      BY <1>6, <2>3 DEF FAlone
    <3>2. Filing(c)!Prune(t)
      BY <2>1, <3>1, FStands DEF FActs
    <3>3. trash' = Filing(c)!Newest(trash)
      BY <3>2 DEF Filing!Prune
    <3>4. CASE Len(trash) > c.Limit
      <4>1. trash' = SubSeq(trash, Len(trash) - c.Limit + 1, Len(trash))
        BY <3>3, <3>4 DEF Filing!Newest
      <4>4. c.Limit \in Nat
        BY DEF Filing!ConstantsFit
      <4>2. /\ trash' \in Seq(Filing(c)!Entry) /\ Len(trash') = c.Limit
            /\ \A i \in 1..c.Limit : trash'[i] = trash[Len(trash) - c.Limit + i]
        BY <2>2, <3>4, <4>1, <4>4, FLess
      <4>3. c.Limit \in 1..c.Limit /\ Len(trash) - c.Limit + c.Limit = Len(trash) /\ DOMAIN trash' = 1..c.Limit
        BY <1>6, <2>2, <4>2, <4>4
      <4> QED BY <2>2, <4>2, <4>3
    <3>5. CASE ~(Len(trash) > c.Limit)
      <4>1. trash' = trash
        BY <3>3, <3>5 DEF Filing!Newest
      <4> QED BY <2>2, <4>1
    <3> QED BY <3>4, <3>5
  <2>5. CASE \E s \in c.Threads : FSlow(c, s) \/ FRefused(c, s)
    <3>1. FSlow(c, t) \/ FRefused(c, t)
      BY <1>6, <2>5 DEF FAlone
    <3>2. Filing(c)!RefusesPrune(t)
      <4>1. Filing(c)!RefusesFirst(t) \/ Filing(c)!RefusesPrune(t) \/ Filing(c)!GivesUp(t)
        BY <2>1, <3>1, FHalts
      <4> QED BY <2>1, <4>1 DEF Filing!RefusesFirst, Filing!GivesUp, Filing!At
    <3>3. Len(trash) = c.Limit + 1 /\ trash' = [trash EXCEPT ![1].state = "removing"] /\ c.Limit \in Nat
      BY <3>2 DEF Filing!RefusesPrune, Filing!ConstantsFit
    <3>4. Len(trash) # 1 /\ Len(trash) \in DOMAIN trash
      BY <1>6, <2>2, <3>3
    <3>5. DOMAIN trash' = DOMAIN trash /\ trash'[Len(trash)] = trash[Len(trash)]
      BY <2>2, <3>3, <3>4
    <3> QED BY <2>2, <3>4, <3>5
  <2>4. CASE ~\E s \in c.Threads : FActs(c, s) \/ FSlow(c, s) \/ FRefused(c, s)
    <3>1. trash' = trash
      BY <1>1, <1>2, <2>4
    <3>2. Len(trash) \in DOMAIN trash
      BY <2>2
    <3> QED BY <2>2, <3>1, <3>2
  <2> QED BY <2>3, <2>4, <2>5
<1> QED BY <1>3, <1>4, <1>5, <1>6 DEF Filing!StepTells

-----------------------------------------------------------------------------
(***************************************************************************)
(* WireMessages.  In the history of a request the results of a round are   *)
(* what follows its calls, and nothing else is a result.  What the loops   *)
(* over it have built after n turns is shown by induction over n: a number *)
(* at which a statement fails would have a least one before it.            *)
(***************************************************************************)

session == v1
talk == v2
taken == v3
numbered == v4
asking == v5
USE DEF session, talk, taken, numbered, asking

LEMMA MLeast == ASSUME NEW T, T \subseteq Nat, T # {} PROVE \E m \in T : \A n \in T : ~(n < m)
<1>1. \E m \in T : \A n \in T : ~(<<n, m>> \in OpToRel(<, Nat))
  BY NatLessThanWellFounded, WFMin, Zenon
<1>2. \A n, m \in Nat : <<n, m>> \in OpToRel(<, Nat) <=> n < m
  BY DEF OpToRel
<1> QED BY <1>1, <1>2

LEMMA MInduct ==
    ASSUME NEW N \in Nat, NEW S, 0 \in S, \A n \in 0..N : n > 0 /\ n - 1 \in S => n \in S
    PROVE  \A n \in 0..N : n \in S
<1> DEFINE T == {n \in 0..N : n \notin S}
<1>1. SUFFICES ASSUME T # {} PROVE FALSE
  OBVIOUS
<1>2. PICK m \in T : \A n \in T : ~(n < m)
  <2>1. T \subseteq Nat
    OBVIOUS
  <2> HIDE DEF T
  <2> QED BY <1>1, <2>1, MLeast
<1>3. m > 0 /\ m \in 0..N
  BY <1>2
<1>4. m - 1 \in 0..N /\ m - 1 < m
  BY <1>3
<1>5. m - 1 \in S
  BY <1>2, <1>4
<1> QED BY <1>2, <1>3, <1>5

\* A function that is given by its predecessor's value exists: the loop over a history...
MStart == [done |-> <<>>, pending |-> <<>>]
MIsBuilt(c, h, n, f) ==
    f = [i \in 0..n |-> IF i = 0 THEN MStart ELSE Asking(c)!Place(f[i - 1], h[i])]

LEMMA MBuildsOne ==
    ASSUME NEW c, NEW h, NEW n \in Nat, NEW g, MIsBuilt(c, h, n, g)
    PROVE  \E f : MIsBuilt(c, h, n + 1, f)
<1> DEFINE k == [i \in 0..n + 1 |-> IF i = n + 1 THEN Asking(c)!Place(g[n], h[n + 1]) ELSE g[i]]
<1>1. ASSUME NEW i \in 0..n + 1
      PROVE  k[i] = IF i = 0 THEN MStart ELSE Asking(c)!Place(k[i - 1], h[i])
  <2>1. CASE i = n + 1
    <3>1. k[n] = g[n] /\ i - 1 = n /\ i # 0
      BY <2>1
    <3>2. k[i] = Asking(c)!Place(g[n], h[n + 1])
      BY <2>1
    <3> HIDE DEF k
    <3> QED BY <3>1, <3>2, <2>1
  <2>2. CASE i # n + 1 /\ i = 0
    BY <2>2 DEF MIsBuilt
  <2>3. CASE i # n + 1 /\ i # 0
    <3>1. k[i] = g[i] /\ k[i - 1] = g[i - 1] /\ i \in 0..n
      BY <2>3
    <3>2. g[i] = IF i = 0 THEN MStart ELSE Asking(c)!Place(g[i - 1], h[i])
      BY <3>1 DEF MIsBuilt
    <3> QED BY <3>1, <3>2
  <2> QED BY <2>1, <2>2, <2>3
<1> HIDE DEF k
<1>2. DOMAIN k = 0..n + 1 /\ k = [i \in DOMAIN k |-> k[i]]
  BY DEF k
<1>3. MIsBuilt(c, h, n + 1, k)
  BY <1>1, <1>2 DEF MIsBuilt
<1> QED BY <1>3

LEMMA MBuilt ==
    ASSUME NEW c, NEW S, NEW h \in Seq(S)
    PROVE  /\ Asking(c)!Built(h)[0] = MStart
           /\ \A n \in 1..Len(h) : Asking(c)!Built(h)[n] = Asking(c)!Place(Asking(c)!Built(h)[n - 1], h[n])
<1>1. Len(h) \in Nat
  OBVIOUS
<1> DEFINE T == {n \in Nat : \E f : MIsBuilt(c, h, n, f)}
<1>2. 0 \in T
  <2>1. MIsBuilt(c, h, 0, [i \in 0..0 |-> MStart])
    BY DEF MIsBuilt
  <2> QED BY <2>1
<1>3. \A n \in 0..Len(h) : n > 0 /\ n - 1 \in T => n \in T
  <2>1. SUFFICES ASSUME NEW n \in 0..Len(h), n > 0, n - 1 \in T PROVE n \in T
    OBVIOUS
  <2>2. n - 1 \in Nat /\ (n - 1) + 1 = n /\ n \in Nat
    BY <1>1, <2>1
  <2>3. PICK g : MIsBuilt(c, h, n - 1, g)
    BY <2>1
  <2>4. \E f : MIsBuilt(c, h, n, f)
    BY <2>2, <2>3, MBuildsOne
  <2> QED BY <2>2, <2>4
<1>4. \E f : MIsBuilt(c, h, Len(h), f)
  <2>1. \A n \in 0..Len(h) : n \in T
    BY <1>1, <1>2, <1>3, MInduct
  <2>2. Len(h) \in 0..Len(h)
    BY <1>1
  <2>3. Len(h) \in T
    BY <2>1, <2>2
  <2> QED BY <2>3
<1>5. MIsBuilt(c, h, Len(h), CHOOSE f : MIsBuilt(c, h, Len(h), f))
  BY <1>4
<1>6. MIsBuilt(c, h, Len(h), Asking(c)!Built(h))
  BY <1>5 DEF MIsBuilt, MStart, Asking!Built
<1> HIDE DEF T
<1>7. ASSUME NEW n \in 0..Len(h)
      PROVE  Asking(c)!Built(h)[n] = IF n = 0 THEN MStart ELSE Asking(c)!Place(Asking(c)!Built(h)[n - 1], h[n])
  BY <1>6 DEF MIsBuilt
<1> QED BY <1>1, <1>7

\* ...and what a sequence of texts says.
MIsJoined(s, n, f) == f = [i \in 0..n |-> IF i = 0 THEN <<>> ELSE f[i - 1] \o s[i]]

LEMMA MJoinsOne ==
    ASSUME NEW s, NEW n \in Nat, NEW g, MIsJoined(s, n, g)
    PROVE  \E f : MIsJoined(s, n + 1, f)
<1> DEFINE k == [i \in 0..n + 1 |-> IF i = n + 1 THEN g[n] \o s[n + 1] ELSE g[i]]
<1>1. ASSUME NEW i \in 0..n + 1
      PROVE  k[i] = IF i = 0 THEN <<>> ELSE k[i - 1] \o s[i]
  <2>1. CASE i = n + 1
    <3>1. k[n] = g[n] /\ i - 1 = n /\ i # 0
      BY <2>1
    <3>2. k[i] = g[n] \o s[n + 1]
      BY <2>1
    <3> HIDE DEF k
    <3> QED BY <3>1, <3>2, <2>1
  <2>2. CASE i # n + 1 /\ i = 0
    BY <2>2 DEF MIsJoined
  <2>3. CASE i # n + 1 /\ i # 0
    <3>1. k[i] = g[i] /\ k[i - 1] = g[i - 1] /\ i \in 0..n
      BY <2>3
    <3>2. g[i] = IF i = 0 THEN <<>> ELSE g[i - 1] \o s[i]
      BY <3>1 DEF MIsJoined
    <3> QED BY <3>1, <3>2
  <2> QED BY <2>1, <2>2, <2>3
<1> HIDE DEF k
<1>2. DOMAIN k = 0..n + 1 /\ k = [i \in DOMAIN k |-> k[i]]
  BY DEF k
<1>3. MIsJoined(s, n + 1, k)
  BY <1>1, <1>2 DEF MIsJoined
<1> QED BY <1>3

LEMMA MJoining ==
    ASSUME NEW c, NEW s \in Seq(Seq(Nat))
    PROVE  /\ Asking(c)!Joining(s)[0] = <<>>
           /\ \A n \in 1..Len(s) : Asking(c)!Joining(s)[n] = Asking(c)!Joining(s)[n - 1] \o s[n]
           /\ \A n \in 0..Len(s) : Asking(c)!Joining(s)[n] \in Seq(Nat)
<1>1. Len(s) \in Nat
  OBVIOUS
<1> DEFINE T == {n \in Nat : \E f : MIsJoined(s, n, f)}
<1>2. 0 \in T
  <2>1. MIsJoined(s, 0, [i \in 0..0 |-> <<>>])
    BY DEF MIsJoined
  <2> QED BY <2>1
<1>3. \A n \in 0..Len(s) : n > 0 /\ n - 1 \in T => n \in T
  <2>1. SUFFICES ASSUME NEW n \in 0..Len(s), n > 0, n - 1 \in T PROVE n \in T
    OBVIOUS
  <2>2. n - 1 \in Nat /\ (n - 1) + 1 = n /\ n \in Nat
    BY <1>1, <2>1
  <2>3. PICK g : MIsJoined(s, n - 1, g)
    BY <2>1
  <2>4. \E f : MIsJoined(s, n, f)
    BY <2>2, <2>3, MJoinsOne
  <2> QED BY <2>2, <2>4
<1>4. \E f : MIsJoined(s, Len(s), f)
  <2>1. \A n \in 0..Len(s) : n \in T
    BY <1>1, <1>2, <1>3, MInduct
  <2>2. Len(s) \in 0..Len(s)
    BY <1>1
  <2>3. Len(s) \in T
    BY <2>1, <2>2
  <2> QED BY <2>3
<1>5. MIsJoined(s, Len(s), CHOOSE f : MIsJoined(s, Len(s), f))
  BY <1>4
<1>6. MIsJoined(s, Len(s), Asking(c)!Joining(s))
  BY <1>5 DEF MIsJoined, Asking!Joining
<1> HIDE DEF T
<1>7. ASSUME NEW n \in 0..Len(s)
      PROVE  Asking(c)!Joining(s)[n] = IF n = 0 THEN <<>> ELSE Asking(c)!Joining(s)[n - 1] \o s[n]
  BY <1>6 DEF MIsJoined
<1> DEFINE f == Asking(c)!Joining(s)
<1>8. f[0] = <<>>
  BY <1>1, <1>7
<1>9. \A n \in 1..Len(s) : f[n] = f[n - 1] \o s[n]
  <2>1. SUFFICES ASSUME NEW n \in 1..Len(s) PROVE f[n] = f[n - 1] \o s[n]
    OBVIOUS
  <2>2. n \in 0..Len(s) /\ n # 0
    BY <1>1
  <2>3. f[n] = IF n = 0 THEN <<>> ELSE f[n - 1] \o s[n]
    BY <2>2, <1>7
  <2> QED BY <2>2, <2>3
<1>10. \A n \in 1..Len(s) : s[n] \in Seq(Nat)
  OBVIOUS
<1> HIDE DEF f
<1> DEFINE U == {n \in Nat : f[n] \in Seq(Nat)}
<1>11. 0 \in U
  <2>1. <<>> \in Seq(Nat) /\ 0 \in Nat
    OBVIOUS
  <2> QED BY <1>8, <2>1, Zenon
<1>12. \A n \in 0..Len(s) : n > 0 /\ n - 1 \in U => n \in U
  <2>1. SUFFICES ASSUME NEW n \in 0..Len(s), n > 0, n - 1 \in U PROVE n \in U
    OBVIOUS
  <2>2. n \in 1..Len(s) /\ n \in Nat /\ f[n - 1] \in Seq(Nat)
    BY <1>1, <2>1
  <2>3. f[n] = f[n - 1] \o s[n] /\ s[n] \in Seq(Nat)
    BY <1>9, <1>10, <2>2
  <2>4. f[n] \in Seq(Nat)
    BY <2>2, <2>3
  <2> QED BY <2>2, <2>4
<1>13. \A n \in 0..Len(s) : n \in U
  <2> HIDE DEF U
  <2> QED BY <1>1, <1>11, <1>12, MInduct
<1>14. \A n \in 0..Len(s) : f[n] \in Seq(Nat)
  BY <1>13
<1> QED BY <1>8, <1>9, <1>14 DEF f

\* One text more is said last.
LEMMA MJoinLast ==
    ASSUME NEW c, NEW s \in Seq(Seq(Nat)), NEW x \in Seq(Nat)
    PROVE  /\ Asking(c)!Joined(s) \in Seq(Nat)
           /\ Asking(c)!Joined(Append(s, x)) = Asking(c)!Joined(s) \o x
<1> DEFINE t == Append(s, x)
<1>1. /\ t \in Seq(Seq(Nat)) /\ Len(s) \in Nat /\ Len(t) = Len(s) + 1 /\ t[Len(s) + 1] = x
      /\ \A n \in 1..Len(s) : t[n] = s[n]
  OBVIOUS
<1> HIDE DEF t
<1> DEFINE T == {n \in 0..Len(s) : Asking(c)!Joining(t)[n] = Asking(c)!Joining(s)[n]}
<1>2. 0 \in T
  <2>1. Asking(c)!Joining(s)[0] = <<>> /\ Asking(c)!Joining(t)[0] = <<>>
    BY <1>1, MJoining, Zenon
  <2>2. 0 \in 0..Len(s)
    BY <1>1
  <2> QED BY <2>1, <2>2, Zenon
<1>3. \A n \in 0..Len(s) : n > 0 /\ n - 1 \in T => n \in T
  <2>1. SUFFICES ASSUME NEW n \in 0..Len(s), n > 0, n - 1 \in T PROVE n \in T
    OBVIOUS
  <2>2. n \in 1..Len(s) /\ n \in 1..Len(t)
    BY <1>1, <2>1
  <2>3. Asking(c)!Joining(s)[n] = Asking(c)!Joining(s)[n - 1] \o s[n]
    BY <2>2, MJoining
  <2>4. Asking(c)!Joining(t)[n] = Asking(c)!Joining(t)[n - 1] \o t[n]
    BY <1>1, <2>2, MJoining
  <2>5. Asking(c)!Joining(t)[n - 1] = Asking(c)!Joining(s)[n - 1]
    BY <2>1
  <2> QED BY <1>1, <2>2, <2>3, <2>4, <2>5
<1>4. Len(s) \in T
  <2>1. \A n \in 0..Len(s) : n \in T
    BY <1>1, <1>2, <1>3, MInduct
  <2> QED BY <1>1, <2>1
<1>5. Asking(c)!Joining(t)[Len(s)] = Asking(c)!Joining(s)[Len(s)]
  BY <1>4
<1>6. Asking(c)!Joining(t)[Len(t)] = Asking(c)!Joining(t)[Len(s)] \o x
  <2>1. Len(t) \in 1..Len(t) /\ Len(t) - 1 = Len(s)
    BY <1>1
  <2> QED BY <1>1, <2>1, MJoining
<1>7. Asking(c)!Joining(s)[Len(s)] \in Seq(Nat)
  <2>1. Len(s) \in 0..Len(s)
    BY <1>1
  <2> QED BY <2>1, MJoining
<1> QED BY <1>5, <1>6, <1>7 DEF Asking!Joined, t

\* The turns of a conversation, as the session keeps them and as a request takes them up...
MLinks == Nat \X Nat
MTurns == [role : {"user", "assistant", "tool"}, text : Nat, calls : Seq(MLinks), link : MLinks \cup {<<>>}]
MSaid == [role : {"user", "assistant"}, text : Nat, calls : {<<>>}, link : {<<>>}]

\* ...where the results of a round are what follows its calls, and nothing else is a result.
MShape(h) ==
    /\ h \in Seq(MTurns)
    /\ \A i \in 1..Len(h) :
           /\ \A k \in 1..Len(h[i].calls) :
                  i + k <= Len(h) /\ h[i + k].role = "tool" /\ h[i + k].link = h[i].calls[k]
           /\ h[i].calls # <<>> => h[i].role # "tool"
           /\ h[i].calls # <<>> /\ i + Len(h[i].calls) + 1 <= Len(h) => h[i + Len(h[i].calls) + 1].role # "tool"
    /\ \A j \in 1..Len(h) : h[j].role = "tool" => \E i \in 1 .. j - 1 : j - i <= Len(h[i].calls)

\* The last p of the n turns are results, and the turn before them, if there is one, is not.
MWaiting(h, n, p) ==
    /\ \A k \in 1..p : h[n - p + k].role = "tool"
    /\ p < n => h[n - p].role # "tool"

\* Where no result follows, the results that wait are all those of the calls before them.
LEMMA MRun ==
    ASSUME NEW h, MShape(h), NEW n \in 0..Len(h), NEW p \in 0..n, MWaiting(h, n, p),
           n < Len(h) => h[n + 1].role # "tool"
    PROVE  /\ n = p => p = 0
           /\ p < n => p = Len(h[n - p].calls) /\ \A k \in 1..p : h[n - p + k].link = h[n - p].calls[k]
<1>1. Len(h) \in Nat /\ n \in Nat /\ p \in Nat /\ n <= Len(h) /\ p <= n
  BY DEF MShape
<1>2. \A i \in 1..Len(h) : h[i].calls \in Seq(MLinks) /\ Len(h[i].calls) \in Nat
  <2>1. ASSUME NEW i \in 1..Len(h) PROVE h[i] \in MTurns
    BY DEF MShape
  <2>2. ASSUME NEW i \in 1..Len(h) PROVE h[i].calls \in Seq(MLinks)
    BY <2>1 DEF MTurns
  <2>3. \A s \in Seq(MLinks) : Len(s) \in Nat
    OBVIOUS
  <2> QED BY <2>2, <2>3
<1>3. ASSUME NEW i \in 1..Len(h)
      PROVE  /\ \A k \in 1..Len(h[i].calls) :
                    i + k <= Len(h) /\ h[i + k].role = "tool" /\ h[i + k].link = h[i].calls[k]
             /\ h[i].calls # <<>> /\ i + Len(h[i].calls) + 1 <= Len(h) => h[i + Len(h[i].calls) + 1].role # "tool"
  BY DEF MShape
<1>4. ASSUME NEW j \in 1..Len(h), h[j].role = "tool"
      PROVE  \E i \in 1 .. j - 1 : j - i <= Len(h[i].calls)
  BY <1>4 DEF MShape
<1>5. ASSUME n = p, p # 0 PROVE FALSE
  <2>1. h[1].role = "tool" /\ 1 \in 1..Len(h)
    BY <1>1, <1>5 DEF MWaiting
  <2> QED BY <1>4, <2>1
<1>6. ASSUME p < n
      PROVE  p = Len(h[n - p].calls)
  <2> DEFINE j == n - p
             L == Len(h[j].calls)
  <2>1. j \in 1..Len(h) /\ j + p = n /\ L \in Nat /\ h[j].role # "tool" /\ j \in Nat
    BY <1>1, <1>2, <1>6 DEF MWaiting
  <2>2. \A k \in 1..p : h[j + k].role = "tool"
    BY DEF MWaiting
  <2> HIDE DEF j, L
  <2>3. ASSUME L > p PROVE FALSE
    <3>1. p + 1 \in 1..Len(h[j].calls)
      BY <1>1, <2>1, <2>3 DEF L
    <3>2. j + (p + 1) <= Len(h) /\ h[j + (p + 1)].role = "tool"
      BY <1>3, <2>1, <3>1
    <3>3. j + (p + 1) = n + 1
      BY <1>1, <2>1
    <3> QED BY <1>1, <3>2, <3>3
  <2>4. ASSUME L < p, L # 0 PROVE FALSE
    <3>1. h[j].calls # <<>>
      BY <2>4 DEF L
    <3>2. L + 1 \in 1..p /\ j + (L + 1) = j + L + 1 /\ j + L + 1 <= Len(h)
      BY <1>1, <2>1, <2>4
    <3>3. h[j + L + 1].role = "tool"
      BY <2>2, <3>2
    <3> QED BY <1>3, <2>1, <3>1, <3>2, <3>3 DEF L
  <2>5. ASSUME p > 0, L = 0 PROVE FALSE
    <3>1. h[j + 1].role = "tool" /\ j + 1 \in 1..Len(h)
      BY <1>1, <2>1, <2>2, <2>5
    <3>2. PICK i \in 1 .. (j + 1) - 1 : (j + 1) - i <= Len(h[i].calls)
      BY <1>4, <3>1
    <3>3. i \in 1..Len(h) /\ i \in Nat /\ Len(h[i].calls) \in Nat
      BY <1>1, <1>2, <2>1, <3>2
    <3>4. i # j
      <4>1. SUFFICES ASSUME i = j PROVE FALSE
        OBVIOUS
      <4>2. Len(h[i].calls) = 0
        BY <2>5, <4>1 DEF L
      <4> QED BY <2>1, <3>2, <4>1, <4>2
    <3>5. j - i \in 1..Len(h[i].calls) /\ i + (j - i) = j
      BY <2>1, <3>2, <3>3, <3>4
    <3>6. h[i + (j - i)].role = "tool"
      BY <1>3, <3>3, <3>5
    <3> QED BY <2>1, <3>5, <3>6
  <2> QED BY <1>1, <2>1, <2>3, <2>4, <2>5 DEF L, j
<1>7. ASSUME p < n
      PROVE  \A k \in 1..p : h[n - p + k].link = h[n - p].calls[k]
  <2>1. n - p \in 1..Len(h)
    BY <1>1, <1>7
  <2> QED BY <1>3, <1>6, <1>7, <2>1
<1> QED BY <1>1, <1>5, <1>6, <1>7

\* What the loop over a conversation builds: messages, and results that wait for the next one.
MResults == [link : MLinks \cup {<<>>}, text : Nat]
MMessages == [role : {"user", "assistant"}, text : Nat, uses : Seq(MLinks), results : Seq(MResults)]
MStates == [done : Seq(MMessages), pending : Seq(MResults)]

MPaired(c, a) ==
    \A i \in 1..Len(a) :
        /\ a[i].uses # <<>> /\ i < Len(a) => Asking(c)!Links(a[i + 1].results) = a[i].uses
        /\ a[i].results # <<>> => i > 1 /\ a[i - 1].uses = Asking(c)!Links(a[i].results)

\* What waits are the last turns, and the message that was built last is of the turn before them.
MLoop(c, h, n, s) ==
    /\ s \in MStates /\ Len(s.pending) \in 0..n
    /\ MWaiting(h, n, Len(s.pending))
    /\ \A k \in 1..Len(s.pending) : s.pending[k].link = h[n - Len(s.pending) + k].link
    /\ Len(s.pending) = n => s.done = <<>>
    /\ Len(s.pending) < n =>
           /\ s.done # <<>> /\ s.done[Len(s.done)].uses = h[n - Len(s.pending)].calls
           /\ s.done[Len(s.done)].results = <<>>
    /\ MPaired(c, s.done)

\* What messages say, and what is said by results.
MTexts(r) == [k \in DOMAIN r |-> r[k].text]
MTalk(c, a) == Asking(c)!Joined([i \in DOMAIN a |-> Asking(c)!WordsOf(a[i])])

\* Results that are flushed answer the calls before them.
LEMMA MFlushed ==
    ASSUME NEW c, NEW h, MShape(h), NEW n \in 0..Len(h), NEW s, MLoop(c, h, n, s),
           n < Len(h) => h[n + 1].role # "tool"
    PROVE  Asking(c)!Flushed(s) \in Seq(MMessages) /\ Asking(c)!CallsAnswered(Asking(c)!Flushed(s))
<1> DEFINE a == s.done
           r == s.pending
           p == Len(r)
<1>1. a \in Seq(MMessages) /\ r \in Seq(MResults) /\ p \in 0..n /\ MWaiting(h, n, p) /\ MPaired(c, a) /\ p \in Nat
  BY DEF MLoop, MStates
<1>2. n = p => p = 0 /\ a = <<>>
  BY <1>1, MRun DEF MLoop
<1>3. p < n => /\ p = Len(h[n - p].calls) /\ a # <<>> /\ a[Len(a)].uses = h[n - p].calls
               /\ \A k \in 1..p : r[k].link = h[n - p].calls[k]
  <2>1. p < n => p = Len(h[n - p].calls) /\ \A k \in 1..p : h[n - p + k].link = h[n - p].calls[k]
    BY <1>1, MRun
  <2> QED BY <2>1 DEF MLoop
<1>4. p < n => h[n - p].calls \in Seq(MLinks)
  <2>1. SUFFICES ASSUME p < n PROVE h[n - p].calls \in Seq(MLinks)
    OBVIOUS
  <2>2. Len(h) \in Nat /\ n - p \in 1..Len(h)
    BY <1>1, <2>1 DEF MShape
  <2>3. h[n - p] \in MTurns
    BY <2>2 DEF MShape
  <2> QED BY <2>3 DEF MTurns
<1>5. p < n => a[Len(a)].uses = Asking(c)!Links(r)
  <2>1. SUFFICES ASSUME p < n PROVE h[n - p].calls = Asking(c)!Links(r)
    BY <1>3
  <2> DEFINE u == h[n - p].calls
  <2>2. u \in Seq(MLinks) /\ Len(u) = p /\ \A k \in 1..p : r[k].link = u[k]
    BY <1>3, <1>4, <2>1
  <2> HIDE DEF u
  <2>3. DOMAIN r = 1..p /\ u = [k \in 1..p |-> u[k]]
    BY <1>1, <2>2
  <2>4. Asking(c)!Links(r) = [k \in 1..p |-> r[k].link]
    BY <2>3 DEF Asking!Links
  <2> QED BY <2>2, <2>3, <2>4 DEF u
<1>6. p = n \/ p < n
  BY <1>1
<1>7. CASE p = 0
  <2>1. r = <<>> /\ Asking(c)!Flushed(s) = a
    BY <1>1, <1>7 DEF Asking!Flushed
  <2>2. a # <<>> => a[Len(a)].uses = <<>>
    <3>1. p < n => h[n - p].calls = <<>>
      BY <1>3, <1>4, <1>7
    <3> QED BY <1>2, <1>3, <1>6, <3>1
  <2>3. Len(a) \in Nat /\ DOMAIN a = 1..Len(a)
    BY <1>1
  <2>4. \A i \in 1..Len(a) : a[i].uses # <<>> => i < Len(a)
    BY <2>2, <2>3
  <2> HIDE DEF a
  <2>5. Asking(c)!CallsAnswered(a)
    BY <1>1, <2>3, <2>4 DEF MPaired, Asking!CallsAnswered
  <2> QED BY <1>1, <2>1, <2>5
<1>8. CASE p # 0
  <2> DEFINE m == Asking(c)!Message("user", 0, <<>>, r)
             b == Append(a, m)
  <2>1. r # <<>> /\ p < n /\ Asking(c)!Flushed(s) = b
    BY <1>1, <1>2, <1>6, <1>8 DEF Asking!Flushed
  <2>2. m \in MMessages /\ m.uses = <<>> /\ m.results = r
    <3>1. <<>> \in Seq(MLinks)
      OBVIOUS
    <3> QED BY <1>1, <3>1 DEF MMessages, Asking!Message
  <2>3. a # <<>> /\ a[Len(a)].uses = Asking(c)!Links(r)
    BY <1>3, <1>5, <2>1
  <2> HIDE DEF m, a, r
  <2>4. /\ b \in Seq(MMessages) /\ Len(a) \in Nat /\ Len(a) > 0 /\ Len(b) = Len(a) + 1 /\ DOMAIN b = 1..Len(a) + 1
        /\ \A i \in 1..Len(a) : b[i] = a[i]
        /\ b[Len(a) + 1] = m
    BY <1>1, <2>2, <2>3
  <2> HIDE DEF b
  <2>5. ASSUME NEW i \in 1..Len(a) + 1
        PROVE  /\ b[i].uses # <<>> => i < Len(b) /\ Asking(c)!Links(b[i + 1].results) = b[i].uses
               /\ b[i].results # <<>> => i > 1 /\ b[i - 1].uses = Asking(c)!Links(b[i].results)
    <3>1. CASE i < Len(a)
      <4>1. i \in 1..Len(a) /\ i + 1 \in 1..Len(a) /\ (i > 1 => i - 1 \in 1..Len(a))
        BY <2>4, <3>1
      <4>2. /\ a[i].uses # <<>> => Asking(c)!Links(a[i + 1].results) = a[i].uses
            /\ a[i].results # <<>> => i > 1 /\ a[i - 1].uses = Asking(c)!Links(a[i].results)
        BY <1>1, <3>1, <4>1 DEF MPaired
      <4>3. b[i] = a[i] /\ b[i + 1] = a[i + 1] /\ (i > 1 => b[i - 1] = a[i - 1]) /\ i < Len(b)
        BY <2>4, <3>1, <4>1
      <4> QED BY <4>2, <4>3
    <3>2. CASE i = Len(a)
      <4>1. i \in 1..Len(a) /\ (i > 1 => i - 1 \in 1..Len(a))
        BY <2>4, <3>2
      <4>2. a[i].results # <<>> => i > 1 /\ a[i - 1].uses = Asking(c)!Links(a[i].results)
        BY <1>1, <4>1 DEF MPaired
      <4>3. b[i] = a[i] /\ b[i + 1] = m /\ (i > 1 => b[i - 1] = a[i - 1]) /\ i < Len(b)
        BY <2>4, <3>2, <4>1
      <4>4. Asking(c)!Links(b[i + 1].results) = b[i].uses
        BY <2>2, <2>3, <3>2, <4>3
      <4> QED BY <4>2, <4>3, <4>4
    <3>3. CASE i = Len(a) + 1
      <4>1. b[i] = m /\ i > 1 /\ i - 1 = Len(a) /\ b[i - 1] = a[Len(a)]
        BY <2>4, <3>3
      <4> QED BY <2>2, <2>3, <4>1
    <3> QED BY <2>4, <3>1, <3>2, <3>3
  <2>6. Asking(c)!CallsAnswered(b)
    BY <2>4, <2>5 DEF Asking!CallsAnswered
  <2> QED BY <2>1, <2>4, <2>6
<1> QED BY <1>7, <1>8

LEMMA MLooped ==
    ASSUME NEW c, NEW h, NEW n \in Nat, NEW p \in 0..n, NEW t \in MStates, Len(t.pending) = p,
           MWaiting(h, n, p), \A k \in 1..p : t.pending[k].link = h[n - p + k].link,
           p = n => t.done = <<>>,
           p < n => /\ t.done # <<>> /\ t.done[Len(t.done)].uses = h[n - p].calls
                    /\ t.done[Len(t.done)].results = <<>>,
           MPaired(c, t.done)
    PROVE  MLoop(c, h, n, t)
BY DEF MLoop

\* A turn becomes a message, or it is a result and waits.
LEMMA MPlaced ==
    ASSUME NEW c, NEW h, MShape(h), NEW n \in 0..Len(h), n < Len(h), NEW s, MLoop(c, h, n, s)
    PROVE  MLoop(c, h, n + 1, Asking(c)!Place(s, h[n + 1]))
<1> DEFINE m == h[n + 1]
           t == Asking(c)!Place(s, m)
           p == Len(s.pending)
<1>1. s \in MStates /\ p \in 0..n /\ p \in Nat /\ n \in Nat /\ n + 1 \in 1..Len(h) /\ m \in MTurns
      /\ MWaiting(h, n, p) /\ MPaired(c, s.done)
  BY DEF MLoop, MShape
<1>2. CASE m.role = "tool"
  <2> DEFINE x == [link |-> m.link, text |-> m.text]
             r == Append(s.pending, x)
  <2>1. t = [s EXCEPT !.pending = r]
    BY <1>2 DEF Asking!Place
  <2>2. x \in MResults
    BY <1>1 DEF MTurns, MResults
  <2>3. s.pending \in Seq(MResults) /\ s.done \in Seq(MMessages)
    BY <1>1 DEF MStates
  <2>4. t \in MStates /\ t.done = s.done /\ t.pending = r
    <3>1. r \in Seq(MResults)
      BY <2>2, <2>3
    <3> HIDE DEF r
    <3> QED BY <1>1, <2>1, <3>1 DEF MStates
  <2>5. Len(r) = p + 1 /\ r[p + 1] = x /\ \A k \in 1..p : r[k] = s.pending[k]
    BY <2>2, <2>3
  <2>0. \A k \in 1..p : h[n - p + k].role = "tool" /\ s.pending[k].link = h[n - p + k].link
    BY <1>1 DEF MWaiting, MLoop
  <2>9. p = n => s.done = <<>>
    BY DEF MLoop
  <2>10. p < n => /\ s.done # <<>> /\ s.done[Len(s.done)].uses = h[n - p].calls
                  /\ s.done[Len(s.done)].results = <<>>
    BY DEF MLoop
  <2>13. p < n => h[n - p].role # "tool"
    BY <1>1 DEF MWaiting
  <2> HIDE DEF t, r, p
  <2>6. (n + 1) - (p + 1) = n - p /\ p + 1 \in 0..n + 1 /\ (p + 1 < n + 1 <=> p < n) /\ (p + 1 = n + 1 <=> p = n)
    BY <1>1
  <2>7. ASSUME NEW k \in 1..p + 1
        PROVE  h[n - p + k].role = "tool" /\ r[k].link = h[n - p + k].link
    <3>1. CASE k = p + 1
      <4>1. n - p + k = n + 1
        BY <1>1, <3>1
      <4> QED BY <1>2, <2>5, <3>1, <4>1 DEF m
    <3>2. CASE k # p + 1
      <4>1. k \in 1..p
        BY <1>1, <3>2
      <4> QED BY <2>0, <2>5, <4>1
    <3> QED BY <3>1, <3>2
  <2>8. MWaiting(h, n + 1, p + 1)
    BY <2>6, <2>7, <2>13 DEF MWaiting
  <2>11. \A k \in 1..p + 1 : t.pending[k].link = h[(n + 1) - (p + 1) + k].link
    BY <2>4, <2>6, <2>7
  <2>12. Len(t.pending) = p + 1
    BY <2>4, <2>5
  <2>14. MPaired(c, t.done) /\ n + 1 \in Nat
    BY <1>1, <2>4
  <2>15. p + 1 = n + 1 => t.done = <<>>
    BY <2>4, <2>6, <2>9
  <2>16. p + 1 < n + 1 => /\ t.done # <<>> /\ t.done[Len(t.done)].uses = h[(n + 1) - (p + 1)].calls
                          /\ t.done[Len(t.done)].results = <<>>
    BY <2>4, <2>6, <2>10
  <2>17. MLoop(c, h, n + 1, t)
    BY <2>4, <2>6, <2>8, <2>11, <2>12, <2>14, <2>15, <2>16, MLooped
  <2> QED BY <2>17 DEF t
<1>3. CASE m.role # "tool"
  <2> DEFINE a == Asking(c)!Flushed(s)
             x == Asking(c)!Message(m.role, Asking(c)!Spoken(m), m.calls, <<>>)
             b == Append(a, x)
  <2>1. a \in Seq(MMessages) /\ Asking(c)!CallsAnswered(a)
    BY <1>3, MFlushed
  <2>2. t = [done |-> b, pending |-> <<>>]
    BY <1>3 DEF Asking!Place
  <2>3. x \in MMessages /\ x.uses = m.calls /\ x.results = <<>>
    <3>1. <<>> \in Seq(MResults)
      OBVIOUS
    <3>2. m.role \in {"user", "assistant"} /\ m.text \in Nat /\ m.calls \in Seq(MLinks)
      BY <1>1, <1>3 DEF MTurns
    <3> QED BY <3>1, <3>2 DEF MMessages, Asking!Message, Asking!Spoken
  <2> HIDE DEF a, x, t
  <2>4. /\ b \in Seq(MMessages) /\ Len(a) \in Nat /\ Len(b) = Len(a) + 1 /\ DOMAIN a = 1..Len(a)
        /\ \A i \in 1..Len(a) : b[i] = a[i]
        /\ b[Len(a) + 1] = x /\ b # <<>>
    BY <2>1, <2>3
  <2> HIDE DEF b
  <2>5. t \in MStates /\ t.done = b /\ Len(t.pending) = 0 /\ t.pending = <<>>
    <3>1. <<>> \in Seq(MResults) /\ Len(<<>>) = 0
      OBVIOUS
    <3> QED BY <2>2, <2>4, <3>1 DEF MStates
  <2>6. ASSUME NEW i \in 1..Len(a) + 1
        PROVE  /\ b[i].uses # <<>> /\ i < Len(b) => Asking(c)!Links(b[i + 1].results) = b[i].uses
               /\ b[i].results # <<>> => i > 1 /\ b[i - 1].uses = Asking(c)!Links(b[i].results)
    <3>1. CASE i \in 1..Len(a)
      <4>1. /\ a[i].uses # <<>> => i < Len(a) /\ Asking(c)!Links(a[i + 1].results) = a[i].uses
            /\ a[i].results # <<>> => i > 1 /\ a[i - 1].uses = Asking(c)!Links(a[i].results)
        BY <2>1, <2>4, <3>1 DEF Asking!CallsAnswered
      <4>2. b[i] = a[i] /\ (i < Len(a) => b[i + 1] = a[i + 1]) /\ (i > 1 => b[i - 1] = a[i - 1])
        BY <2>4, <3>1
      <4> QED BY <4>1, <4>2
    <3>2. CASE i = Len(a) + 1
      BY <2>3, <2>4, <3>2
    <3> QED BY <2>4, <3>1, <3>2
  <2>7. MPaired(c, b)
    BY <2>4, <2>6 DEF MPaired
  <2>8. MWaiting(h, n + 1, 0)
    <3>1. (n + 1) - 0 = n + 1 /\ 1..0 = {}
      BY <1>1
    <3> QED BY <1>3, <3>1 DEF MWaiting
  <2>9. 0 \in 0..n + 1 /\ 0 # n + 1 /\ (n + 1) - 0 = n + 1 /\ 1..0 = {}
    BY <1>1
  <2>10. b[Len(b)].uses = h[n + 1].calls /\ b[Len(b)].results = <<>>
    BY <2>3, <2>4
  <2>11. n + 1 \in Nat
    BY <1>1
  <2>12. MLoop(c, h, n + 1, t)
    BY <2>4, <2>5, <2>7, <2>8, <2>9, <2>10, <2>11, MLooped
  <2> QED BY <2>12 DEF t
<1> QED BY <1>2, <1>3

\* So it is after each turn, and the messages of a request pair its calls and results.
LEMMA MLoops ==
    ASSUME NEW c, NEW h, MShape(h)
    PROVE  \A n \in 0..Len(h) : MLoop(c, h, n, Asking(c)!Built(h)[n])
<1>1. h \in Seq(MTurns) /\ Len(h) \in Nat
  BY DEF MShape
<1>2. /\ Asking(c)!Built(h)[0] = MStart
      /\ \A n \in 1..Len(h) : Asking(c)!Built(h)[n] = Asking(c)!Place(Asking(c)!Built(h)[n - 1], h[n])
  BY <1>1, MBuilt
<1> DEFINE T == {n \in Nat : n <= Len(h) /\ MLoop(c, h, n, Asking(c)!Built(h)[n])}
<1>3. 0 \in T
  <2>1. <<>> \in Seq(MMessages) /\ <<>> \in Seq(MResults) /\ Len(<<>>) = 0 /\ 1..0 = {} /\ 0 \in 0..0
    OBVIOUS
  <2>2. MStart \in MStates /\ MStart.done = <<>> /\ MStart.pending = <<>>
    BY <2>1 DEF MStart, MStates
  <2>3. MPaired(c, MStart.done)
    BY <2>1, <2>2 DEF MPaired
  <2>4. MWaiting(h, 0, 0)
    BY <2>1 DEF MWaiting
  <2>5. MLoop(c, h, 0, MStart)
    BY <2>1, <2>2, <2>3, <2>4 DEF MLoop
  <2> QED BY <1>1, <1>2, <2>5
<1>4. \A n \in 0..Len(h) : n > 0 /\ n - 1 \in T => n \in T
  <2>1. SUFFICES ASSUME NEW n \in 0..Len(h), n > 0, n - 1 \in T PROVE n \in T
    OBVIOUS
  <2>2. n \in 1..Len(h) /\ n \in Nat /\ n - 1 \in 0..Len(h) /\ n - 1 < Len(h) /\ (n - 1) + 1 = n /\ n <= Len(h)
    BY <1>1, <2>1
  <2>3. MLoop(c, h, n - 1, Asking(c)!Built(h)[n - 1])
    BY <2>1
  <2>4. MLoop(c, h, n, Asking(c)!Place(Asking(c)!Built(h)[n - 1], h[n]))
    BY <2>2, <2>3, MPlaced
  <2>5. MLoop(c, h, n, Asking(c)!Built(h)[n])
    BY <1>2, <2>2, <2>4
  <2> QED BY <2>2, <2>5
<1>5. \A n \in 0..Len(h) : n \in T
  <2> HIDE DEF T
  <2> QED BY <1>1, <1>3, <1>4, MInduct
<1> QED BY <1>5

\* Nothing said is lost: what was built says what the turns said so far.
LEMMA MSays ==
    ASSUME NEW c, NEW m \in MMessages
    PROVE  /\ Asking(c)!WordsOf(m) \in Seq(Nat) /\ MTexts(m.results) \in Seq(Nat)
           /\ m.text = 0 => Asking(c)!WordsOf(m) = MTexts(m.results)
           /\ m.text # 0 => Asking(c)!WordsOf(m) = <<m.text>> \o MTexts(m.results)
<1>1. m.text \in Nat /\ m.results \in Seq(MResults)
  BY DEF MMessages
<1>2. MTexts(m.results) \in Seq(Nat)
  <2> DEFINE r == m.results
  <2>1. r \in Seq(MResults) /\ DOMAIN r = 1..Len(r) /\ Len(r) \in Nat
    BY <1>1
  <2>2. \A k \in 1..Len(r) : r[k].text \in Nat
    <3>1. \A k \in 1..Len(r) : r[k] \in MResults
      BY <2>1
    <3> QED BY <3>1 DEF MResults
  <2> HIDE DEF r
  <2>3. [k \in 1..Len(r) |-> r[k].text] \in Seq(Nat)
    BY <2>1, <2>2
  <2> QED BY <2>1, <2>3 DEF MTexts, r
<1>3. Asking(c)!WordsOf(m) = (IF m.text = 0 THEN <<>> ELSE <<m.text>>) \o MTexts(m.results)
  BY DEF Asking!WordsOf, Asking!Empty, MTexts
<1> DEFINE x == MTexts(m.results)
           y == m.text
<1>4. x \in Seq(Nat) /\ y \in Nat
  BY <1>1, <1>2
<1> HIDE DEF x, y
<1>5. <<>> \o x = x /\ <<y>> \o x \in Seq(Nat)
  BY <1>4
<1> QED BY <1>2, <1>3, <1>4, <1>5 DEF x, y

LEMMA MTalks ==
    ASSUME NEW c, NEW a \in Seq(MMessages), NEW m \in MMessages
    PROVE  /\ MTalk(c, a) \in Seq(Nat)
           /\ MTalk(c, Append(a, m)) = MTalk(c, a) \o Asking(c)!WordsOf(m)
<1> DEFINE b == Append(a, m)
           f == [i \in DOMAIN a |-> Asking(c)!WordsOf(a[i])]
           g == [i \in DOMAIN b |-> Asking(c)!WordsOf(b[i])]
           x == Asking(c)!WordsOf(m)
<1>1. /\ Len(a) \in Nat /\ DOMAIN a = 1..Len(a) /\ DOMAIN b = 1..Len(a) + 1 /\ b[Len(a) + 1] = m
      /\ \A i \in 1..Len(a) : a[i] \in MMessages /\ b[i] = a[i]
  OBVIOUS
<1>2. x \in Seq(Nat) /\ \A i \in 1..Len(a) : Asking(c)!WordsOf(a[i]) \in Seq(Nat)
  BY <1>1, MSays
<1>3. f \in Seq(Seq(Nat)) /\ Len(f) = Len(a)
  BY <1>1, <1>2
<1>4. g = Append(f, x)
  <2>1. Append(f, x) = [i \in 1..Len(a) + 1 |-> IF i = Len(a) + 1 THEN x ELSE f[i]]
    BY <1>1, <1>3
  <2>2. \A i \in 1..Len(a) + 1 : Asking(c)!WordsOf(b[i]) = IF i = Len(a) + 1 THEN x ELSE f[i]
    BY <1>1
  <2> QED BY <1>1, <2>1, <2>2
<1>5. Asking(c)!Joined(f) \in Seq(Nat) /\ Asking(c)!Joined(Append(f, x)) = Asking(c)!Joined(f) \o x
  BY <1>2, <1>3, MJoinLast
<1> QED BY <1>4, <1>5 DEF MTalk

LEMMA MUntalked == ASSUME NEW c PROVE MTalk(c, <<>>) = <<>>
<1> DEFINE f == [i \in DOMAIN <<>> |-> Asking(c)!WordsOf(<<>>[i])]
<1>1. DOMAIN <<>> = {}
  OBVIOUS
<1>2. f \in Seq(Seq(Nat)) /\ Len(f) = 0
  BY <1>1
<1>3. Asking(c)!Joining(f)[0] = <<>>
  BY <1>2, MJoining, Zenon
<1> QED BY <1>2, <1>3 DEF MTalk, Asking!Joined

LEMMA MFlushedTalk ==
    ASSUME NEW c, NEW s \in MStates
    PROVE  /\ MTalk(c, Asking(c)!Flushed(s)) = MTalk(c, s.done) \o MTexts(s.pending)
           /\ MTalk(c, s.done) \in Seq(Nat) /\ MTexts(s.pending) \in Seq(Nat)
           /\ Asking(c)!Flushed(s) \in Seq(MMessages)
<1> DEFINE a == s.done
           r == s.pending
           m == Asking(c)!Message("user", 0, <<>>, r)
<1>1. a \in Seq(MMessages) /\ r \in Seq(MResults)
  BY DEF MStates
<1>2. m \in MMessages /\ m.text = 0 /\ m.results = r
  <2>1. <<>> \in Seq(MLinks)
    OBVIOUS
  <2> QED BY <1>1, <2>1 DEF MMessages, Asking!Message
<1>3. Asking(c)!Flushed(s) = IF r = <<>> THEN a ELSE Append(a, m)
  BY DEF Asking!Flushed
<1> HIDE DEF a, r, m
<1>4. MTexts(r) \in Seq(Nat) /\ Asking(c)!WordsOf(m) = MTexts(r)
  BY <1>2, MSays
<1>5. MTalk(c, a) \in Seq(Nat) /\ MTalk(c, Append(a, m)) = MTalk(c, a) \o MTexts(r)
  BY <1>1, <1>2, <1>4, MTalks
<1>6. Append(a, m) \in Seq(MMessages)
  BY <1>1, <1>2
<1>7. CASE r = <<>>
  <2>1. MTexts(r) = <<>>
    BY <1>7 DEF MTexts
  <2>2. MTalk(c, a) \o <<>> = MTalk(c, a)
    BY <1>5
  <2>3. Asking(c)!Flushed(s) = a
    BY <1>3, <1>7
  <2> QED BY <1>1, <1>4, <1>5, <2>1, <2>2, <2>3 DEF a, r
<1>8. CASE r # <<>>
  <2>1. Asking(c)!Flushed(s) = Append(a, m)
    BY <1>3, <1>8
  <2> QED BY <1>4, <1>5, <1>6, <2>1 DEF a, r
<1> QED BY <1>7, <1>8

MRows(c, h) == [i \in DOMAIN h |-> Asking(c)!Words(h[i])]

LEMMA MRowsAre ==
    ASSUME NEW c, NEW h, MShape(h)
    PROVE  /\ MRows(c, h) \in Seq(Seq(Nat)) /\ Len(MRows(c, h)) = Len(h)
           /\ \A i \in 1..Len(h) : MRows(c, h)[i] = Asking(c)!Words(h[i])
<1>1. DOMAIN h = 1..Len(h) /\ Len(h) \in Nat /\ \A i \in 1..Len(h) : h[i] \in MTurns
  BY DEF MShape
<1>2. ASSUME NEW m \in MTurns PROVE Asking(c)!Words(m) \in Seq(Nat)
  <2>1. m.text \in Nat
    BY DEF MTurns
  <2>2. <<>> \in Seq(Nat) /\ <<m.text>> \in Seq(Nat)
    BY <2>1
  <2> QED BY <2>2 DEF Asking!Words
<1>3. \A i \in 1..Len(h) : Asking(c)!Words(h[i]) \in Seq(Nat)
  BY <1>1, <1>2
<1>4. MRows(c, h) = [i \in 1..Len(h) |-> Asking(c)!Words(h[i])]
  BY <1>1 DEF MRows
<1> QED BY <1>1, <1>3, <1>4

MSame(c, h, n, s) == MTalk(c, s.done) \o MTexts(s.pending) = Asking(c)!Joining(MRows(c, h))[n]

LEMMA MSamePlaced ==
    ASSUME NEW c, NEW h, MShape(h), NEW n \in 0..Len(h), n < Len(h), NEW s \in MStates, MSame(c, h, n, s)
    PROVE  MSame(c, h, n + 1, Asking(c)!Place(s, h[n + 1]))
<1> DEFINE m == h[n + 1]
           t == Asking(c)!Place(s, m)
           y == Asking(c)!Joining(MRows(c, h))[n]
           w == Asking(c)!Words(m)
           A == MTalk(c, s.done)
           B == MTexts(s.pending)
<1>1. n + 1 \in 1..Len(h) /\ n \in Nat /\ (n + 1) - 1 = n /\ m \in MTurns
  BY DEF MShape
<1>2. m.text \in Nat /\ m.calls \in Seq(MLinks) /\ m.role \in {"user", "assistant", "tool"}
  BY <1>1 DEF MTurns
<1>3. Asking(c)!Joining(MRows(c, h))[n + 1] = y \o w
  <2>1. MRows(c, h)[n + 1] = w
    BY <1>1, MRowsAre
  <2>2. MRows(c, h) \in Seq(Seq(Nat)) /\ n + 1 \in 1..Len(MRows(c, h))
    BY <1>1, MRowsAre
  <2> HIDE DEF w, m
  <2>3. Asking(c)!Joining(MRows(c, h))[n + 1] = Asking(c)!Joining(MRows(c, h))[(n + 1) - 1] \o MRows(c, h)[n + 1]
    BY <2>2, MJoining
  <2> QED BY <1>1, <2>1, <2>3
<1>4. A \o B = y
  BY DEF MSame
<1>5. A \in Seq(Nat) /\ B \in Seq(Nat) /\ MTalk(c, Asking(c)!Flushed(s)) = A \o B
  BY MFlushedTalk
<1>6. CASE m.role = "tool"
  <2> DEFINE x == [link |-> m.link, text |-> m.text]
             r == Append(s.pending, x)
  <2>1. t = [s EXCEPT !.pending = r]
    BY <1>6 DEF Asking!Place
  <2>2. w = <<m.text>>
    BY <1>6 DEF Asking!Words
  <2>3. x \in MResults /\ x.text = m.text
    BY <1>1 DEF MTurns, MResults
  <2>4. s.pending \in Seq(MResults)
    BY DEF MStates
  <2>5. t.done = s.done /\ t.pending = r
    <3> HIDE DEF r
    <3> QED BY <2>1 DEF MStates
  <2>6. MTexts(r) = Append(B, m.text)
    <3> DEFINE q == s.pending
    <3>1. /\ q \in Seq(MResults) /\ Len(q) \in Nat /\ DOMAIN q = 1..Len(q) /\ DOMAIN r = 1..Len(q) + 1
          /\ r[Len(q) + 1] = x /\ \A k \in 1..Len(q) : r[k] = q[k]
      BY <2>3, <2>4
    <3>2. B = [k \in 1..Len(q) |-> q[k].text]
      BY <3>1 DEF MTexts
    <3>3. MTexts(r) = [k \in 1..Len(q) + 1 |-> r[k].text]
      BY <3>1 DEF MTexts
    <3> HIDE DEF q, B, r, x
    <3>4. Len(B) = Len(q)
      BY <1>5, <3>1, <3>2
    <3>5. Append(B, m.text) = [k \in 1..Len(q) + 1 |-> IF k = Len(q) + 1 THEN m.text ELSE B[k]]
      BY <1>5, <3>4
    <3>6. \A k \in 1..Len(q) + 1 : r[k].text = IF k = Len(q) + 1 THEN m.text ELSE B[k]
      BY <2>3, <3>1, <3>2
    <3> QED BY <3>3, <3>5, <3>6
  <2> HIDE DEF A, B, y, w, m, t, r
  <2>7. A \o Append(B, m.text) = (A \o B) \o <<m.text>>
    BY <1>2, <1>5
  <2>8. MTalk(c, t.done) \o MTexts(t.pending) = y \o w
    BY <1>4, <2>2, <2>5, <2>6, <2>7 DEF A
  <2>9. MSame(c, h, n + 1, t)
    BY <1>3, <2>8 DEF MSame
  <2> QED BY <2>9 DEF t, m
<1>7. CASE m.role # "tool"
  <2> DEFINE a == Asking(c)!Flushed(s)
             x == Asking(c)!Message(m.role, Asking(c)!Spoken(m), m.calls, <<>>)
  <2>1. t = [done |-> Append(a, x), pending |-> <<>>]
    BY <1>7 DEF Asking!Place
  <2>2. x \in MMessages /\ x.text = m.text /\ x.results = <<>>
    <3>1. <<>> \in Seq(MResults)
      OBVIOUS
    <3>2. m.role \in {"user", "assistant"}
      BY <1>2, <1>7
    <3> QED BY <1>2, <3>1, <3>2 DEF MMessages, Asking!Message, Asking!Spoken
  <2>3. a \in Seq(MMessages) /\ MTalk(c, a) = y
    BY <1>4, <1>5, MFlushedTalk
  <2> HIDE DEF a, x, y
  <2>4. MTalk(c, Append(a, x)) = y \o Asking(c)!WordsOf(x) /\ y \in Seq(Nat)
    BY <2>2, <2>3, MTalks
  <2>5. Asking(c)!WordsOf(x) = w /\ w \in Seq(Nat)
    <3>1. MTexts(x.results) = <<>>
      BY <2>2 DEF MTexts
    <3>2. w = IF m.text = 0 THEN <<>> ELSE <<m.text>>
      BY <1>7 DEF Asking!Words, Asking!Empty
    <3>3. CASE m.text = 0
      <4>1. Asking(c)!WordsOf(x) = <<>>
        BY <2>2, <3>1, <3>3, MSays
      <4>2. <<>> \in Seq(Nat)
        OBVIOUS
      <4> QED BY <3>2, <3>3, <4>1, <4>2
    <3>4. CASE m.text # 0
      <4>1. Asking(c)!WordsOf(x) = <<m.text>> \o <<>>
        BY <2>2, <3>1, <3>4, MSays
      <4>2. <<m.text>> \o <<>> = <<m.text>> /\ <<m.text>> \in Seq(Nat)
        BY <1>2
      <4> QED BY <3>2, <3>4, <4>1, <4>2
    <3> QED BY <3>3, <3>4
  <2>6. t.done = Append(a, x) /\ t.pending = <<>>
    BY <2>1
  <2>7. MTexts(t.pending) = <<>>
    BY <2>6 DEF MTexts
  <2> HIDE DEF t, w, m
  <2>8. (y \o w) \o <<>> = y \o w
    BY <2>4, <2>5
  <2>9. MTalk(c, t.done) \o MTexts(t.pending) = y \o w
    BY <2>4, <2>5, <2>6, <2>7, <2>8
  <2>10. MSame(c, h, n + 1, t)
    BY <1>3, <2>9 DEF MSame, y
  <2> QED BY <2>10 DEF t, m
<1> QED BY <1>6, <1>7

\* The messages of a request, in both forms.
LEMMA MRequest ==
    ASSUME NEW c, NEW h, MShape(h)
    PROVE  /\ Asking(c)!CallsAnswered(Asking(c)!Anthropic(h))
           /\ Asking(c)!AnsweredInTurn(Asking(c)!OpenAI(h))
           /\ MTalk(c, Asking(c)!Anthropic(h)) = Asking(c)!Joined(MRows(c, h))
<1> DEFINE built == Asking(c)!Built(h)
<1>1. h \in Seq(MTurns) /\ Len(h) \in Nat /\ DOMAIN h = 1..Len(h) /\ Len(h) \in 0..Len(h)
  BY DEF MShape
<1>2. \A n \in 0..Len(h) : MLoop(c, h, n, built[n])
  BY MLoops
<1>3. \A n \in 0..Len(h) : built[n] \in MStates
  BY <1>2 DEF MLoop
<1>4. built[0] = MStart /\ \A n \in 1..Len(h) : built[n] = Asking(c)!Place(built[n - 1], h[n])
  BY <1>1, MBuilt
<1>5. Asking(c)!Anthropic(h) = Asking(c)!Flushed(built[Len(h)])
  BY DEF Asking!Anthropic
<1> HIDE DEF built
<1> DEFINE T == {n \in Nat : n <= Len(h) /\ MSame(c, h, n, built[n])}
<1>6. 0 \in T
  <2>1. MTalk(c, MStart.done) = <<>> /\ MTexts(MStart.pending) = <<>>
    BY MUntalked DEF MStart, MTexts
  <2>2. Asking(c)!Joining(MRows(c, h))[0] = <<>>
    BY MRowsAre, MJoining, Zenon
  <2>3. <<>> \o <<>> = <<>> /\ 0 <= Len(h) /\ 0 \in Nat
    BY <1>1
  <2> QED BY <1>4, <2>1, <2>2, <2>3 DEF MSame
<1>7. \A n \in 0..Len(h) : n > 0 /\ n - 1 \in T => n \in T
  <2>1. SUFFICES ASSUME NEW n \in 0..Len(h), n > 0, n - 1 \in T PROVE n \in T
    OBVIOUS
  <2>2. n \in 1..Len(h) /\ n \in Nat /\ n - 1 \in 0..Len(h) /\ n - 1 < Len(h) /\ (n - 1) + 1 = n /\ n <= Len(h)
    BY <1>1, <2>1
  <2>3. MSame(c, h, n - 1, built[n - 1]) /\ built[n - 1] \in MStates
    BY <1>3, <2>1, <2>2
  <2>4. MSame(c, h, n, Asking(c)!Place(built[n - 1], h[n]))
    BY <2>2, <2>3, MSamePlaced
  <2>5. MSame(c, h, n, built[n])
    BY <1>4, <2>2, <2>4
  <2> QED BY <2>2, <2>5
<1>8. Len(h) \in T
  <2>1. \A n \in 0..Len(h) : n \in T
    <3> HIDE DEF T
    <3> QED BY <1>1, <1>6, <1>7, MInduct
  <2> QED BY <1>1, <2>1
<1>9. MTalk(c, Asking(c)!Anthropic(h)) = Asking(c)!Joined(MRows(c, h))
  <2>1. MSame(c, h, Len(h), built[Len(h)])
    BY <1>8
  <2>2. MTalk(c, Asking(c)!Anthropic(h)) = MTalk(c, built[Len(h)].done) \o MTexts(built[Len(h)].pending)
    BY <1>1, <1>3, <1>5, MFlushedTalk
  <2> QED BY <2>1, <2>2, MRowsAre DEF MSame, Asking!Joined
<1>10. Asking(c)!CallsAnswered(Asking(c)!Anthropic(h))
  BY <1>1, <1>2, <1>5, MFlushed
<1>11. Asking(c)!AnsweredInTurn(Asking(c)!OpenAI(h))
  <2> DEFINE o == Asking(c)!OpenAI(h)
  <2>1. DOMAIN o = 1..Len(h) /\ Len(o) = Len(h)
    BY <1>1 DEF Asking!OpenAI
  <2>2. \A i \in 1..Len(h) : /\ o[i].role = h[i].role /\ o[i].calls = h[i].calls
                             /\ h[i].role = "tool" => o[i].link = h[i].link
    BY <1>1 DEF Asking!OpenAI
  <2> HIDE DEF o
  <2>3. ASSUME NEW i \in 1..Len(h), NEW k \in DOMAIN o[i].calls
        PROVE  i + k <= Len(o) /\ o[i + k].role = "tool" /\ o[i + k].link = o[i].calls[k]
    <3>1. h[i] \in MTurns
      BY <1>1
    <3>2. h[i].calls \in Seq(MLinks)
      BY <3>1 DEF MTurns
    <3>3. k \in 1..Len(h[i].calls) /\ k \in Nat
      BY <2>2, <3>2
    <3>4. i + k <= Len(h) /\ h[i + k].role = "tool" /\ h[i + k].link = h[i].calls[k]
      BY <3>3 DEF MShape
    <3>5. i + k \in 1..Len(h)
      BY <1>1, <3>3, <3>4
    <3> QED BY <2>1, <2>2, <3>4, <3>5
  <2> QED BY <2>1, <2>3 DEF Asking!AnsweredInTurn, o
<1> QED BY <1>9, <1>10, <1>11

\* A round adds its calls and their results to the request.
MCalling(words, calls) == [role |-> "assistant", text |-> words, calls |-> calls, link |-> <<>>]
MAnswers(n, last, calls) == [k \in 1..n |-> [role |-> "tool", text |-> last, calls |-> <<>>, link |-> calls[k]]]

\* The conversation g is h and one round more.
MLongerBy(h, n, words, last, calls, g) ==
    /\ MShape(h) /\ n \in Nat /\ n > 0 /\ calls \in [1..n -> MLinks] /\ words \in Nat /\ last \in Nat
    /\ g = h \o <<MCalling(words, calls)>> \o MAnswers(n, last, calls)

MOneLonger(h, n, words, last, calls, g) ==
    /\ MShape(g) /\ Len(h) \in Nat /\ Len(g) = Len(h) + 1 + n
    /\ g[Len(h) + 1] = MCalling(words, calls) /\ \A i \in 1..Len(h) : g[i] = h[i]
    /\ \A k \in 1..n : g[Len(h) + 1 + k] = MAnswers(n, last, calls)[k]

LEMMA MLonger ==
    ASSUME NEW h, NEW n, NEW words, NEW last, NEW calls, NEW g, MLongerBy(h, n, words, last, calls, g)
    PROVE  MOneLonger(h, n, words, last, calls, g)
<1>0. /\ MShape(h) /\ n \in Nat /\ n > 0 /\ calls \in [1..n -> MLinks] /\ words \in Nat /\ last \in Nat
      /\ g = h \o <<MCalling(words, calls)>> \o MAnswers(n, last, calls)
  BY DEF MLongerBy
<1> USE <1>0
<1> DEFINE a == MCalling(words, calls)
           r == MAnswers(n, last, calls)
           x == Len(h)
<1>1. h \in Seq(MTurns) /\ x \in Nat
  BY DEF MShape
<1>2. calls \in Seq(MLinks) /\ Len(calls) = n /\ calls # <<>>
  OBVIOUS
<1>3. a \in MTurns
  BY <1>2 DEF MTurns, MCalling
<1>4. \A k \in 1..n : r[k] \in MTurns /\ r[k].role = "tool" /\ r[k].calls = <<>> /\ r[k].link = calls[k]
  <2>1. <<>> \in Seq(MLinks)
    OBVIOUS
  <2> QED BY <2>1 DEF MTurns, MAnswers
<1>5. r \in Seq(MTurns) /\ Len(r) = n
  <2>1. r = [k \in 1..n |-> r[k]]
    BY DEF MAnswers
  <2>2. \A k \in 1..n : r[k] \in MTurns
    BY <1>4
  <2> HIDE DEF r
  <2>3. r \in [1..n -> MTurns]
    BY <2>1, <2>2
  <2> QED BY <2>3
<1>6. a.role = "assistant" /\ a.calls = calls
  BY DEF MCalling
<1> HIDE DEF a, r
<1>7. /\ g \in Seq(MTurns) /\ Len(g) = x + 1 + n /\ g[x + 1] = a
      /\ \A i \in 1..x : g[i] = h[i]
      /\ \A k \in 1..n : g[x + 1 + k] = r[k]
  <2> DEFINE f == h \o <<a>>
  <2>1. f \in Seq(MTurns) /\ Len(f) = x + 1 /\ f[x + 1] = a /\ \A i \in 1..x : f[i] = h[i]
    BY <1>1, <1>3
  <2>5. x + 1 \in Nat
    BY <1>1
  <2> HIDE DEF f, x
  <2>2. /\ f \o r \in Seq(MTurns) /\ Len(f \o r) = x + 1 + n
        /\ \A i \in 1..x + 1 : (f \o r)[i] = f[i]
        /\ \A k \in 1..n : (f \o r)[x + 1 + k] = r[k]
    <3>1. f \o r \in Seq(MTurns) /\ Len(f \o r) = x + 1 + n
      <4>1. f \o r \in Seq(MTurns) /\ Len(f \o r) = Len(f) + Len(r)
        BY <1>5, <2>1, ConcatProperties, Zenon
      <4> QED BY <1>5, <2>1, <4>1
    <3>2. \A i \in 1 .. Len(f) + Len(r) : (f \o r)[i] = IF i <= Len(f) THEN f[i] ELSE r[i - Len(f)]
      BY <1>5, <2>1, ConcatProperties, Zenon
    <3>3. ASSUME NEW i \in 1..x + 1 PROVE (f \o r)[i] = f[i]
      <4>1. i \in 1 .. Len(f) + Len(r) /\ i <= Len(f)
        BY <1>5, <2>1, <2>5
      <4> QED BY <3>2, <4>1
    <3>4. ASSUME NEW k \in 1..n PROVE (f \o r)[x + 1 + k] = r[k]
      <4> DEFINE i == x + 1 + k
      <4>1. i \in 1 .. Len(f) + Len(r) /\ ~(i <= Len(f)) /\ i - Len(f) = k
        BY <1>5, <2>1, <2>5
      <4> HIDE DEF i
      <4>2. (f \o r)[i] = r[k]
        BY <3>2, <4>1
      <4> QED BY <4>2 DEF i
    <3> QED BY <3>1, <3>3, <3>4
  <2>3. g = f \o r
    BY DEF f, a, r
  <2>4. x + 1 \in 1..x + 1 /\ \A i \in 1..x : i \in 1..x + 1
    BY <1>1
  <2> QED BY <2>1, <2>2, <2>3, <2>4
<1> HIDE DEF x
<1>8. ASSUME NEW i \in 1..Len(g)
      PROVE  /\ \A k \in 1..Len(g[i].calls) :
                    i + k <= Len(g) /\ g[i + k].role = "tool" /\ g[i + k].link = g[i].calls[k]
             /\ g[i].calls # <<>> => g[i].role # "tool"
             /\ g[i].calls # <<>> /\ i + Len(g[i].calls) + 1 <= Len(g) => g[i + Len(g[i].calls) + 1].role # "tool"
  <2>1. CASE i \in 1..x
    <3> DEFINE L == Len(h[i].calls)
    <3>1. g[i] = h[i] /\ h[i].calls \in Seq(MLinks) /\ L \in Nat /\ (h[i].calls # <<>> => L \in 1..L)
      <4>1. h[i] \in MTurns
        BY <1>1, <2>1 DEF x
      <4>2. h[i].calls \in Seq(MLinks)
        BY <4>1 DEF MTurns
      <4> QED BY <1>7, <2>1, <4>2
    <3>2. /\ \A k \in 1..L : i + k <= x /\ h[i + k].role = "tool" /\ h[i + k].link = h[i].calls[k]
          /\ h[i].calls # <<>> => h[i].role # "tool"
          /\ h[i].calls # <<>> /\ i + L + 1 <= x => h[i + L + 1].role # "tool"
      BY <2>1 DEF MShape, x
    <3> HIDE DEF L
    <3>3. \A k \in 1..L : i + k <= Len(g) /\ g[i + k] = h[i + k]
      <4>1. SUFFICES ASSUME NEW k \in 1..L PROVE i + k <= Len(g) /\ g[i + k] = h[i + k]
        OBVIOUS
      <4>2. i + k <= x
        BY <3>2
      <4>3. i + k \in 1..x
        BY <1>1, <2>1, <4>2
      <4> QED BY <1>1, <1>7, <4>2, <4>3
    <3>4. h[i].calls # <<>> => g[i + L + 1].role # "tool"
      <4>1. SUFFICES ASSUME h[i].calls # <<>> PROVE g[i + L + 1].role # "tool"
        OBVIOUS
      <4>2. i + L <= x /\ i + L + 1 \in 1..x + 1
        <5>1. i + L <= x /\ L \in Nat /\ x \in Nat
          BY <1>1, <3>1, <3>2, <4>1 DEF x
        <5> QED BY <2>1, <5>1
      <4>3. CASE i + L + 1 = x + 1
        BY <1>6, <1>7, <4>3
      <4>4. CASE i + L + 1 # x + 1
        <5>1. i + L + 1 \in 1..x /\ i + L + 1 <= x
          BY <1>1, <4>2, <4>4
        <5> QED BY <1>7, <3>2, <4>1, <5>1
      <4> QED BY <4>3, <4>4
    <3> QED BY <3>1, <3>2, <3>3, <3>4 DEF L
  <2>2. CASE i = x + 1
    <3>1. g[i].calls = calls /\ Len(g[i].calls) = n /\ g[i].role = "assistant"
      BY <1>2, <1>6, <1>7, <2>2
    <3>2. ASSUME NEW k \in 1..n
          PROVE  i + k <= Len(g) /\ g[i + k].role = "tool" /\ g[i + k].link = calls[k]
      <4>1. i + k = x + 1 + k /\ i + k <= Len(g)
        BY <1>1, <1>7, <2>2
      <4> QED BY <1>4, <1>7, <4>1
    <3>3. ~(i + n + 1 <= Len(g))
      BY <1>1, <1>7, <2>2
    <3> QED BY <3>1, <3>2, <3>3
  <2>3. CASE i \notin 1..x /\ i # x + 1
    <3>1. i - (x + 1) \in 1..n /\ x + 1 + (i - (x + 1)) = i
      BY <1>1, <1>7, <2>3
    <3>2. g[i].calls = <<>>
      BY <1>4, <1>7, <3>1
    <3>3. Len(<<>>) = 0 /\ 1..0 = {}
      OBVIOUS
    <3> QED BY <3>2, <3>3
  <2> QED BY <2>1, <2>2, <2>3
<1>9. ASSUME NEW j \in 1..Len(g), g[j].role = "tool"
      PROVE  \E i \in 1 .. j - 1 : j - i <= Len(g[i].calls)
  <2>1. CASE j \in 1..x
    <3>1. h[j].role = "tool"
      BY <1>7, <1>9, <2>1
    <3>2. PICK i \in 1 .. j - 1 : j - i <= Len(h[i].calls)
      BY <2>1, <3>1 DEF MShape, x
    <3>3. i \in 1..x
      BY <1>1, <2>1, <3>2
    <3>4. g[i] = h[i]
      BY <1>7, <3>3
    <3> QED BY <3>2, <3>4
  <2>2. CASE j = x + 1
    BY <1>6, <1>7, <1>9, <2>2
  <2>3. CASE j \notin 1..x /\ j # x + 1
    <3>1. x + 1 \in 1 .. j - 1 /\ j - (x + 1) <= n
      BY <1>1, <1>7, <2>3
    <3>2. Len(g[x + 1].calls) = n
      BY <1>2, <1>6, <1>7
    <3> QED BY <3>1, <3>2
  <2> QED BY <2>1, <2>2, <2>3
<1>10. MShape(g)
  BY <1>7, <1>8, <1>9 DEF MShape
<1> QED BY <1>1, <1>7, <1>10 DEF a, r, x, MOneLonger

-----------------------------------------------------------------------------
(* The run of an agent: the session keeps texts, and every request is one of these conversations. *)
MInv(c) ==
    /\ numbered \in 0..c.MaxSaid /\ taken \in 0 .. c.Rounds - 1 /\ asking \in BOOLEAN
    /\ session \in Seq(MSaid)
    /\ MShape(talk) /\ \A i \in 1..Len(talk) : talk[i].text <= numbered
    /\ \A i \in 1..Len(session) : session[i].text <= numbered
    /\ Asking(c)!PromptIsAsked

LEMMA MEmpty == MShape(<<>>) /\ Len(<<>>) = 0 /\ 1..0 = {}
<1>1. <<>> \in Seq(MTurns) /\ Len(<<>>) = 0 /\ 1..0 = {}
  OBVIOUS
<1> QED BY <1>1 DEF MShape

\* A prompt or a reply joins the session.
LEMMA MAppended ==
    ASSUME NEW s \in Seq(MSaid), NEW N \in Nat, \A i \in 1..Len(s) : s[i].text <= N, NEW role \in {"user", "assistant"},
           NEW words \in 0..N, NEW q, q = [role |-> role, text |-> words, calls |-> <<>>, link |-> <<>>]
    PROVE  /\ Append(s, q) \in Seq(MSaid) /\ Append(s, q) # <<>>
           /\ \A i \in 1..Len(Append(s, q)) : Append(s, q)[i].text <= N
<1>1. q \in MSaid /\ q.text <= N
  BY DEF MSaid
<1> DEFINE t == Append(s, q)
<1>2. /\ t \in Seq(MSaid) /\ Len(s) \in Nat /\ Len(t) = Len(s) + 1 /\ t[Len(s) + 1] = q
      /\ \A i \in 1..Len(s) : t[i] = s[i]
  BY <1>1
<1> HIDE DEF t
<1>3. t # <<>>
  BY <1>2
<1>4. \A i \in 1..Len(t) : t[i].text <= N
  BY <1>1, <1>2
<1> QED BY <1>2, <1>3, <1>4 DEF t

\* The window of a session is its end, and as it calls no tools it is a conversation.
LEMMA MWindow ==
    ASSUME NEW c, Asking(c)!ConstantsFit, NEW s \in Seq(MSaid), s # <<>>, NEW w, w = Asking(c)!Window(s)
    PROVE  /\ w \in Seq(MSaid) /\ Len(w) \in 1..Len(s)
           /\ \A i \in 1..Len(w) : w[i] = s[Len(s) - Len(w) + i]
<1>1. c.Turns \in Nat /\ c.Turns > 0 /\ Len(s) \in Nat /\ Len(s) > 0
  BY DEF Asking!ConstantsFit
<1> DEFINE a == IF Len(s) > 2 * c.Turns THEN Len(s) - 2 * c.Turns + 1 ELSE 1
<1>2. w = SubSeq(s, a, Len(s))
  BY DEF Asking!Window
<1>3. a \in 1..Len(s)
  BY <1>1
<1> HIDE DEF a
<1>4. /\ SubSeq(s, a, Len(s)) \in Seq(MSaid)
      /\ Len(SubSeq(s, a, Len(s))) = Len(s) - a + 1
      /\ \A i \in 1 .. Len(s) - a + 1 : SubSeq(s, a, Len(s))[i] = s[a + i - 1]
  BY <1>1, <1>3
<1>5. Len(w) \in 1..Len(s) /\ Len(w) = Len(s) - a + 1
  BY <1>1, <1>2, <1>3, <1>4
<1>6. ASSUME NEW i \in 1..Len(w) PROVE w[i] = s[Len(s) - Len(w) + i]
  <2>1. a + i - 1 = Len(s) - Len(w) + i
    BY <1>1, <1>3, <1>5
  <2> QED BY <1>2, <1>4, <1>5, <2>1
<1> QED BY <1>2, <1>4, <1>5, <1>6

LEMMA MPlain == ASSUME NEW h \in Seq(MSaid) PROVE MShape(h)
<1>1. \A i \in 1..Len(h) : h[i] \in MSaid
  OBVIOUS
<1>2. \A m \in MSaid : m \in MTurns /\ m.calls = <<>> /\ m.role # "tool"
  <2>1. <<>> \in Seq(MLinks)
    OBVIOUS
  <2> QED BY <2>1 DEF MSaid, MTurns
<1>3. h \in Seq(MTurns)
  <2>1. h = [i \in 1..Len(h) |-> h[i]] /\ Len(h) \in Nat
    OBVIOUS
  <2>2. \A i \in 1..Len(h) : h[i] \in MTurns
    BY <1>1, <1>2
  <2> QED BY <2>1, <2>2
<1>4. \A i \in 1..Len(h) : h[i].calls = <<>> /\ h[i].role # "tool"
  BY <1>1, <1>2
<1>5. Len(<<>>) = 0 /\ 1..0 = {}
  OBVIOUS
<1> QED BY <1>3, <1>4, <1>5 DEF MShape

\* Agent.run and Agent.stream: the prompt joins the session, whose newest messages are replayed.
LEMMA MAsk == ASSUME NEW c, Asking(c)!ConstantsFit, MInv(c), Asking(c)!Ask PROVE MInv(c)'
<1> DEFINE q == Asking(c)!Turn("user", numbered + 1)
<1>1. /\ session' = Append(session, q) /\ talk' = Asking(c)!Window(session')
      /\ taken' = 0 /\ asking' = TRUE /\ numbered' = numbered + 1 /\ numbered' \in 0..c.MaxSaid
  <2>1. c.MaxSaid \in Nat
    BY DEF Asking!ConstantsFit
  <2> QED BY <2>1 DEF MInv, Asking!Ask
<1>2. numbered \in Nat /\ session \in Seq(MSaid) /\ (\A i \in 1..Len(session) : session[i].text <= numbered)
      /\ numbered' \in Nat
  <2>1. c.MaxSaid \in Nat
    BY DEF Asking!ConstantsFit
  <2> QED BY <1>1, <2>1 DEF MInv
<1>3. q = [role |-> "user", text |-> numbered', calls |-> <<>>, link |-> <<>>]
  BY <1>1 DEF Asking!Turn
<1>4. \A i \in 1..Len(session) : session[i].text <= numbered'
  <2>1. SUFFICES ASSUME NEW i \in 1..Len(session) PROVE session[i].text <= numbered'
    OBVIOUS
  <2>2. session[i] \in MSaid
    BY <1>2
  <2>3. session[i].text \in Nat
    BY <2>2 DEF MSaid
  <2> QED BY <1>1, <1>2, <2>3
<1> HIDE DEF q
<1>5. /\ session' \in Seq(MSaid) /\ session' # <<>>
      /\ \A i \in 1..Len(session') : session'[i].text <= numbered'
  <2>1. numbered' \in 0..numbered' /\ "user" \in {"user", "assistant"}
    BY <1>2
  <2> QED BY <1>1, <1>2, <1>3, <1>4, <2>1, MAppended
<1>6. /\ talk' \in Seq(MSaid) /\ Len(talk') \in 1..Len(session') /\ Len(session') \in Nat
      /\ \A i \in 1..Len(talk') : talk'[i] = session'[Len(session') - Len(talk') + i]
  <2>1. Len(session') \in Nat
    BY <1>5
  <2>2. talk' = Asking(c)!Window(session')
    BY <1>1
  <2>3. ASSUME NEW s \in Seq(MSaid), s # <<>>
        PROVE  /\ Asking(c)!Window(s) \in Seq(MSaid) /\ Len(Asking(c)!Window(s)) \in 1..Len(s)
               /\ \A i \in 1..Len(Asking(c)!Window(s)) :
                      Asking(c)!Window(s)[i] = s[Len(s) - Len(Asking(c)!Window(s)) + i]
    BY <2>3, MWindow
  <2> QED BY <1>5, <2>1, <2>2, <2>3
<1>7. \A i \in 1..Len(talk') : talk'[i].text <= numbered'
  <2>1. SUFFICES ASSUME NEW i \in 1..Len(talk') PROVE talk'[i].text <= numbered'
    OBVIOUS
  <2>2. Len(session') - Len(talk') + i \in 1..Len(session')
    BY <1>6
  <2> QED BY <1>5, <1>6, <2>2
<1>8. \E i \in DOMAIN talk' : talk'[i] = session'[Len(session')] /\ \A j \in i + 1 .. Len(talk') : talk'[j].role # "user"
  <2>1. DOMAIN talk' = 1..Len(talk')
    BY <1>6
  <2> DEFINE i == Len(talk')
  <2>2. i \in 1..Len(talk') /\ Len(session') - i + i = Len(session') /\ i + 1 .. i = {}
    BY <1>6
  <2>3. talk'[i] = session'[Len(session')]
    BY <1>6, <2>2
  <2> QED BY <2>1, <2>2, <2>3
<1>9. MShape(talk')
  BY <1>6, MPlain
<1>10. taken' \in 0 .. c.Rounds - 1
  <2>1. c.Rounds \in Nat \ {0}
    BY DEF Asking!ConstantsFit
  <2> QED BY <1>1, <2>1
<1> QED BY <1>1, <1>5, <1>7, <1>8, <1>9, <1>10 DEF MInv, MShape, Asking!PromptIsAsked

\* A reply joins the session, or there is none: the run is over.
LEMMA MEnds ==
    ASSUME NEW c, Asking(c)!ConstantsFit, MInv(c), Asking(c)!Reply \/ Asking(c)!Fail
    PROVE  MInv(c)'
<1>1. asking' = FALSE /\ taken' = 0 /\ talk' = <<>>
  BY DEF Asking!Reply, Asking!Fail
<1>2. taken' \in 0 .. c.Rounds - 1
  <2>1. c.Rounds \in Nat \ {0}
    BY DEF Asking!ConstantsFit
  <2> QED BY <1>1, <2>1
<1>3. MShape(talk') /\ \A i \in 1..Len(talk') : talk'[i].text <= numbered'
  BY <1>1, MEmpty
<1>4. numbered \in 0..c.MaxSaid /\ c.MaxSaid \in Nat /\ session \in Seq(MSaid)
      /\ \A i \in 1..Len(session) : session[i].text <= numbered
  BY DEF MInv, Asking!ConstantsFit
<1>5. /\ numbered' \in 0..c.MaxSaid /\ session' \in Seq(MSaid)
      /\ \A i \in 1..Len(session') : session'[i].text <= numbered'
  <2>1. CASE Asking(c)!Fail
    BY <1>4, <2>1 DEF Asking!Fail
  <2>2. CASE Asking(c)!Reply
    <3>1. PICK words \in {0, numbered'} : session' = Append(session, Asking(c)!Turn("assistant", words))
      BY <2>2 DEF Asking!Reply
    <3>2. numbered' = numbered + 1 /\ numbered' \in 0..c.MaxSaid
      BY <1>4, <2>2 DEF Asking!Reply
    <3>3. \A i \in 1..Len(session) : session[i].text <= numbered'
      <4>1. SUFFICES ASSUME NEW i \in 1..Len(session) PROVE session[i].text <= numbered'
        OBVIOUS
      <4>2. session[i] \in MSaid
        BY <1>4
      <4>3. session[i].text \in Nat
        BY <4>2 DEF MSaid
      <4> QED BY <1>4, <3>2, <4>3
    <3>4. words \in 0..numbered' /\ numbered' \in Nat /\ "assistant" \in {"user", "assistant"}
      BY <1>4, <3>2
    <3>5. Asking(c)!Turn("assistant", words) = [role |-> "assistant", text |-> words, calls |-> <<>>, link |-> <<>>]
      BY DEF Asking!Turn
    <3> QED BY <1>4, <3>1, <3>2, <3>3, <3>4, <3>5, MAppended
  <2> QED BY <2>1, <2>2
<1> QED BY <1>1, <1>2, <1>3, <1>5 DEF MInv, MShape, Asking!PromptIsAsked

\* A round of tool calls: they and their results join the request, never the session.
LEMMA MRounds == ASSUME NEW c, Asking(c)!ConstantsFit, MInv(c), Asking(c)!Round PROVE MInv(c)'
<1>1. /\ taken' = taken + 1 /\ taken + 1 < c.Rounds /\ numbered' = numbered + 2 /\ numbered + 2 <= c.MaxSaid
      /\ session' = session /\ asking' = asking /\ asking
  BY DEF Asking!Round, Asking!MayRound
<1>2. /\ c.Rounds \in Nat /\ c.MaxSaid \in Nat /\ c.Slots \in Nat
      /\ numbered \in Nat /\ taken \in Nat /\ session \in Seq(MSaid) /\ MShape(talk)
      /\ \A i \in 1..Len(talk) : talk[i].text <= numbered
      /\ \A i \in 1..Len(session) : session[i].text <= numbered
  <2>1. c.Rounds \in Nat /\ c.MaxSaid \in Nat /\ c.Slots \in Nat
    BY DEF Asking!ConstantsFit
  <2> QED BY <2>1 DEF MInv
<1>3. PICK n \in 1..c.Slots, words \in {0, numbered + 2} :
          LET calls == [k \in 1..n |-> Asking(c)!CallName(k)]
          IN  talk' = talk \o <<[Asking(c)!Turn("assistant", words) EXCEPT !.calls = calls]>> \o Asking(c)!Results(calls)
  BY DEF Asking!Round
<1> DEFINE calls == [k \in 1..n |-> Asking(c)!CallName(k)]
           x == Len(talk)
<1>4. n \in Nat /\ n > 0 /\ words \in Nat /\ words <= numbered + 2 /\ numbered + 1 \in Nat
  BY <1>2
<1>5. calls \in [1..n -> MLinks]
  <2>1. \A k \in 1..n : Asking(c)!CallName(k) \in MLinks
    BY <1>2, <1>4 DEF Asking!CallName, MLinks
  <2> QED BY <2>1
<1>6. [Asking(c)!Turn("assistant", words) EXCEPT !.calls = calls] = MCalling(words, calls)
  BY DEF Asking!Turn, MCalling
<1>7. Asking(c)!Results(calls) = MAnswers(n, numbered + 1, calls)
  <2>1. DOMAIN calls = 1..n
    OBVIOUS
  <2> HIDE DEF calls
  <2>2. Asking(c)!Results(calls) =
            [k \in 1..n |-> [Asking(c)!Turn("tool", numbered + 1) EXCEPT !.link = calls[k]]]
    BY <2>1 DEF Asking!Results
  <2>3. ASSUME NEW k \in 1..n
        PROVE  [Asking(c)!Turn("tool", numbered + 1) EXCEPT !.link = calls[k]]
               = [role |-> "tool", text |-> numbered + 1, calls |-> <<>>, link |-> calls[k]]
    BY DEF Asking!Turn
  <2> QED BY <2>2, <2>3 DEF MAnswers
<1>8. talk' = talk \o <<MCalling(words, calls)>> \o MAnswers(n, numbered + 1, calls)
  BY <1>3, <1>6, <1>7
<1> HIDE DEF calls
<1>9. /\ MShape(talk') /\ x \in Nat /\ Len(talk') = x + 1 + n
      /\ talk'[x + 1] = MCalling(words, calls) /\ \A i \in 1..x : talk'[i] = talk[i]
      /\ \A k \in 1..n : talk'[x + 1 + k] = MAnswers(n, numbered + 1, calls)[k]
  <2> DEFINE g == talk \o <<MCalling(words, calls)>> \o MAnswers(n, numbered + 1, calls)
  <2>2. talk' = g
    BY <1>8
  <2> DEFINE N == numbered + 1
  <2>3. g = talk \o <<MCalling(words, calls)>> \o MAnswers(n, N, calls) /\ N \in Nat
    BY <1>4
  <2> HIDE DEF g, N
  <2>1. /\ MShape(g) /\ Len(talk) \in Nat /\ Len(g) = Len(talk) + 1 + n
        /\ g[Len(talk) + 1] = MCalling(words, calls) /\ \A i \in 1..Len(talk) : g[i] = talk[i]
        /\ \A k \in 1..n : g[Len(talk) + 1 + k] = MAnswers(n, N, calls)[k]
    <3>1. MLongerBy(talk, n, words, N, calls, g)
      BY <1>2, <1>4, <1>5, <2>3 DEF MLongerBy
    <3>2. MOneLonger(talk, n, words, N, calls, g)
      BY <3>1, MLonger, Zenon
    <3> QED BY <3>2 DEF MOneLonger
  <2> QED BY <2>1, <2>2 DEF MShape, N
<1>10. ASSUME NEW i \in 1..Len(talk')
       PROVE  talk'[i].text <= numbered' /\ (i > x => talk'[i].role # "user")
  <2>1. CASE i \in 1..x
    <3>1. talk'[i] = talk[i] /\ talk[i].text <= numbered /\ ~(i > x)
      BY <1>2, <1>9, <2>1
    <3>2. talk[i] \in MTurns
      BY <1>2, <2>1 DEF MShape
    <3>3. talk[i].text \in Nat
      BY <3>2 DEF MTurns
    <3> QED BY <1>1, <1>2, <3>1, <3>3
  <2>2. CASE i = x + 1
    <3>1. talk'[i].text = words /\ talk'[i].role = "assistant"
      BY <1>9, <2>2 DEF MCalling
    <3> QED BY <1>1, <1>4, <3>1
  <2>3. CASE i \notin 1..x /\ i # x + 1
    <3> DEFINE k == i - (x + 1)
    <3>1. k \in 1..n /\ x + 1 + k = i
      BY <1>4, <1>9, <2>3
    <3> HIDE DEF k
    <3>2. talk'[i] = MAnswers(n, numbered + 1, calls)[k]
      BY <1>9, <3>1
    <3>3. talk'[i].text = numbered + 1 /\ talk'[i].role = "tool"
      BY <3>1, <3>2 DEF MAnswers
    <3> QED BY <1>1, <1>2, <3>3
  <2> QED BY <2>1, <2>2, <2>3
<1>11. \A i \in 1..Len(session') : session'[i].text <= numbered'
  <2>1. SUFFICES ASSUME NEW i \in 1..Len(session) PROVE session[i].text <= numbered'
    BY <1>1
  <2>2. session[i] \in MSaid
    BY <1>2
  <2>3. session[i].text \in Nat
    BY <2>2 DEF MSaid
  <2> QED BY <1>1, <1>2, <2>3
<1>12. \E i \in DOMAIN talk' : talk'[i] = session'[Len(session')] /\ \A j \in i + 1 .. Len(talk') : talk'[j].role # "user"
  <2>1. PICK i \in DOMAIN talk : talk[i] = session[Len(session)] /\ \A j \in i + 1 .. Len(talk) : talk[j].role # "user"
    BY <1>1 DEF MInv, Asking!PromptIsAsked
  <2>2. i \in 1..x /\ DOMAIN talk' = 1..Len(talk')
    BY <1>2, <1>9 DEF MShape
  <2>3. i \in 1..Len(talk') /\ talk'[i] = session'[Len(session')]
    BY <1>1, <1>4, <1>9, <2>1, <2>2
  <2>4. ASSUME NEW j \in i + 1 .. Len(talk') PROVE talk'[j].role # "user"
    <3>1. j \in 1..Len(talk')
      BY <1>9, <2>2
    <3>2. CASE j > x
      BY <1>10, <3>1, <3>2
    <3>3. CASE ~(j > x)
      <4>1. j \in i + 1 .. Len(talk) /\ j \in 1..x
        BY <1>9, <2>2, <3>3
      <4> QED BY <1>9, <2>1, <4>1
    <3> QED BY <3>2, <3>3
  <2> QED BY <2>2, <2>3, <2>4
<1>13. numbered' \in 0..c.MaxSaid /\ taken' \in 0 .. c.Rounds - 1
  BY <1>1, <1>2
<1>14. MShape(talk') /\ session' \in Seq(MSaid) /\ asking' \in BOOLEAN
  BY <1>1, <1>2, <1>9
<1> QED BY <1>10, <1>11, <1>12, <1>13, <1>14 DEF MInv, MShape, Asking!PromptIsAsked

LEMMA MInit == ASSUME NEW c, Asking(c)!ConstantsFit, Asking(c)!Init PROVE MInv(c)
<1>1. session = <<>> /\ talk = <<>> /\ taken = 0 /\ numbered = 0 /\ asking = FALSE
  BY DEF Asking!Init
<1>2. c.Rounds \in Nat \ {0} /\ c.MaxSaid \in Nat
  BY DEF Asking!ConstantsFit
<1>3. <<>> \in Seq(MSaid)
  OBVIOUS
<1>4. numbered \in 0..c.MaxSaid /\ taken \in 0 .. c.Rounds - 1 /\ asking \in BOOLEAN
  <2>1. numbered \in 0..c.MaxSaid /\ taken \in 0 .. c.Rounds - 1
    BY <1>1, <1>2
  <2>2. asking \in BOOLEAN
    BY <1>1, Zenon
  <2> QED BY <2>1, <2>2
<1>5. session \in Seq(MSaid) /\ Len(session) = 0
  <2>1. session \in Seq(MSaid)
    BY <1>1, <1>3, Zenon
  <2>2. Len(session) = 0
    BY <1>1, MEmpty, Zenon
  <2> QED BY <2>1, <2>2
<1>6. MShape(talk) /\ Len(talk) = 0
  BY <1>1, MEmpty
<1>7. Asking(c)!PromptIsAsked
  BY <1>1 DEF Asking!PromptIsAsked
<1> QED BY <1>4, <1>5, <1>6, <1>7, MEmpty DEF MInv

LEMMA MStep == ASSUME NEW c, Asking(c)!ConstantsFit, MInv(c), [Asking(c)!Next]_(Asking(c)!vars) PROVE MInv(c)'
<1>1. CASE Asking(c)!Next
  BY <1>1, MAsk, MEnds, MRounds DEF Asking!Next
<1>2. CASE UNCHANGED Asking(c)!vars
  BY <1>2 DEF Asking!vars, MInv, MShape, Asking!PromptIsAsked
<1> QED BY <1>1, <1>2

\* What every request is, and a session keeps.
LEMMA MHolds == ASSUME NEW c, Asking(c)!ConstantsFit, MInv(c) PROVE Asking(c)!RequestHolds
<1>1. Asking(c)!TypeOK
  <2>1. session \in Seq(MSaid) /\ DOMAIN session = 1..Len(session)
    BY DEF MInv
  <2>2. \A i \in 1..Len(session) : session[i].role \in {"user", "assistant"} /\ session[i].calls = <<>>
    <3>1. \A i \in 1..Len(session) : session[i] \in MSaid
      BY <2>1
    <3> QED BY <3>1 DEF MSaid
  <2>3. talk \in Seq(MTurns) /\ DOMAIN talk = 1..Len(talk)
    BY DEF MInv, MShape
  <2>4. \A i \in 1..Len(talk) : talk[i].role \in {"user", "assistant", "tool"}
    <3>1. \A i \in 1..Len(talk) : talk[i] \in MTurns
      BY <2>3
    <3> QED BY <3>1 DEF MTurns
  <2> QED BY <2>1, <2>2, <2>3, <2>4 DEF MInv, Asking!TypeOK
<1>2. MShape(talk) /\ Asking(c)!PromptIsAsked
  BY DEF MInv
<1>3. Asking(c)!ResultsFollowCalls
  BY <1>2, MRequest DEF Asking!ResultsFollowCalls
<1>4. Asking(c)!SameConversation
  <2>1. MTalk(c, Asking(c)!Anthropic(talk)) = Asking(c)!Joined(MRows(c, talk))
    BY <1>2, MRequest
  <2> QED BY <2>1 DEF MTalk, MRows, Asking!SameConversation
<1> QED BY <1>1, <1>2, <1>3, <1>4 DEF Asking!RequestHolds

-----------------------------------------------------------------------------
(* From the components to the parts: a behaviour of the parts is a behaviour of one. *)

\* A part stays what the first state made it.
LEMMA ToolStays == ASSUME [ToolNext]_toolvars PROVE part' = part
BY DEF ToolNext, toolvars, Same12, Same10, Same6, Same5, Same4

\* A part is an instance of one module only.
LEMMA FilingOnly ==
    ASSUME NEW p \in Filings
    PROVE  /\ p \notin Programs /\ p \notin Fetches /\ p \notin Pages /\ p \notin Stores
           /\ p \notin SignIns /\ p \notin Calls /\ p \notin McpFiles /\ p \notin Wires
BY DEF Filings, Programs, Fetches, Pages, Stores, SignIns, Calls, McpFiles, Wires, Of

LEMMA ProgramOnly ==
    ASSUME NEW p \in Programs
    PROVE  /\ p \notin Filings /\ p \notin Fetches /\ p \notin Pages /\ p \notin Stores
           /\ p \notin SignIns /\ p \notin Calls /\ p \notin McpFiles /\ p \notin Wires
BY DEF Filings, Programs, Fetches, Pages, Stores, SignIns, Calls, McpFiles, Wires, Of

LEMMA FetchOnly ==
    ASSUME NEW p \in Fetches
    PROVE  /\ p \notin Filings /\ p \notin Programs /\ p \notin Pages /\ p \notin Stores
           /\ p \notin SignIns /\ p \notin Calls /\ p \notin McpFiles /\ p \notin Wires
BY DEF Filings, Programs, Fetches, Pages, Stores, SignIns, Calls, McpFiles, Wires, Of

LEMMA PageOnly ==
    ASSUME NEW p \in Pages
    PROVE  /\ p \notin Filings /\ p \notin Programs /\ p \notin Fetches /\ p \notin Stores
           /\ p \notin SignIns /\ p \notin Calls /\ p \notin McpFiles /\ p \notin Wires
BY DEF Filings, Programs, Fetches, Pages, Stores, SignIns, Calls, McpFiles, Wires, Of

LEMMA StoreOnly ==
    ASSUME NEW p \in Stores
    PROVE  /\ p \notin Filings /\ p \notin Programs /\ p \notin Fetches /\ p \notin Pages
           /\ p \notin SignIns /\ p \notin Calls /\ p \notin McpFiles /\ p \notin Wires
BY DEF Filings, Programs, Fetches, Pages, Stores, SignIns, Calls, McpFiles, Wires, Of

LEMMA SignInOnly ==
    ASSUME NEW p \in SignIns
    PROVE  /\ p \notin Filings /\ p \notin Programs /\ p \notin Fetches /\ p \notin Pages
           /\ p \notin Stores /\ p \notin Calls /\ p \notin McpFiles /\ p \notin Wires
BY DEF Filings, Programs, Fetches, Pages, Stores, SignIns, Calls, McpFiles, Wires, Of

LEMMA CallOnly ==
    ASSUME NEW p \in Calls
    PROVE  /\ p \notin Filings /\ p \notin Programs /\ p \notin Fetches /\ p \notin Pages
           /\ p \notin Stores /\ p \notin SignIns /\ p \notin McpFiles /\ p \notin Wires
BY DEF Filings, Programs, Fetches, Pages, Stores, SignIns, Calls, McpFiles, Wires, Of

LEMMA McpFileOnly ==
    ASSUME NEW p \in McpFiles
    PROVE  /\ p \notin Filings /\ p \notin Programs /\ p \notin Fetches /\ p \notin Pages
           /\ p \notin Stores /\ p \notin SignIns /\ p \notin Calls /\ p \notin Wires
BY DEF Filings, Programs, Fetches, Pages, Stores, SignIns, Calls, McpFiles, Wires, Of

LEMMA WireOnly ==
    ASSUME NEW p \in Wires
    PROVE  /\ p \notin Filings /\ p \notin Programs /\ p \notin Fetches /\ p \notin Pages
           /\ p \notin Stores /\ p \notin SignIns /\ p \notin Calls /\ p \notin McpFiles
BY DEF Filings, Programs, Fetches, Pages, Stores, SignIns, Calls, McpFiles, Wires, Of

\* The part that is one of the Filings starts and steps as its module says.
LEMMA FilingStarts ==
    ASSUME NEW p \in Filings, part = p, ToolInit
    PROVE  Filing(Tooling[p])!Init
BY FilingOnly DEF ToolInit

LEMMA FilingSteps ==
    ASSUME NEW p \in Filings, part = p, [ToolNext]_toolvars
    PROVE  [Filing(Tooling[p])!Next]_(Filing(Tooling[p])!vars)
<1>1. Filing(Tooling[p])!Next \/ UNCHANGED toolvars
  BY FilingOnly DEF ToolNext
<1> QED BY <1>1 DEF toolvars, Filing!vars

\* The part that is one of the Programs starts and steps as its module says.
LEMMA ProgramStarts ==
    ASSUME NEW p \in Programs, part = p, ToolInit
    PROVE  Running(Tooling[p])!Init
BY ProgramOnly DEF ToolInit

LEMMA ProgramSteps ==
    ASSUME NEW p \in Programs, part = p, [ToolNext]_toolvars
    PROVE  [Running(Tooling[p])!Next]_(Running(Tooling[p])!vars)
<1>1. Running(Tooling[p])!Next \/ UNCHANGED toolvars
  BY ProgramOnly DEF ToolNext
<1> QED BY <1>1 DEF toolvars, Running!vars

\* The part that is one of the Fetches starts and steps as its module says.
LEMMA FetchStarts ==
    ASSUME NEW p \in Fetches, part = p, ToolInit
    PROVE  Fetching(Tooling[p])!Init
BY FetchOnly DEF ToolInit

LEMMA FetchSteps ==
    ASSUME NEW p \in Fetches, part = p, [ToolNext]_toolvars
    PROVE  [Fetching(Tooling[p])!Next]_(Fetching(Tooling[p])!vars)
<1>1. Fetching(Tooling[p])!Next \/ UNCHANGED toolvars
  BY FetchOnly DEF ToolNext
<1> QED BY <1>1 DEF toolvars, Fetching!vars

\* The part that is one of the Pages starts and steps as its module says.
LEMMA PageStarts ==
    ASSUME NEW p \in Pages, part = p, ToolInit
    PROVE  Reading(Tooling[p])!Init
BY PageOnly DEF ToolInit

LEMMA PageSteps ==
    ASSUME NEW p \in Pages, part = p, [ToolNext]_toolvars
    PROVE  [Reading(Tooling[p])!Next]_(Reading(Tooling[p])!vars)
<1>1. Reading(Tooling[p])!Next \/ UNCHANGED toolvars
  BY PageOnly DEF ToolNext
<1> QED BY <1>1 DEF toolvars, Reading!vars

\* The part that is one of the Stores starts and steps as its module says.
LEMMA StoreStarts ==
    ASSUME NEW p \in Stores, part = p, ToolInit
    PROVE  Connecting(Tooling[p])!Init
BY StoreOnly DEF ToolInit

LEMMA StoreSteps ==
    ASSUME NEW p \in Stores, part = p, [ToolNext]_toolvars
    PROVE  [Connecting(Tooling[p])!Next]_(Connecting(Tooling[p])!vars)
<1>1. Connecting(Tooling[p])!Next \/ UNCHANGED toolvars
  BY StoreOnly DEF ToolNext
<1> QED BY <1>1 DEF toolvars, Connecting!vars

\* The part that is one of the SignIns starts and steps as its module says.
LEMMA SignInStarts ==
    ASSUME NEW p \in SignIns, part = p, ToolInit
    PROVE  Signing(Tooling[p])!Init
BY SignInOnly DEF ToolInit

LEMMA SignInSteps ==
    ASSUME NEW p \in SignIns, part = p, [ToolNext]_toolvars
    PROVE  [Signing(Tooling[p])!Next]_(Signing(Tooling[p])!vars)
<1>1. Signing(Tooling[p])!Next \/ UNCHANGED toolvars
  BY SignInOnly DEF ToolNext
<1> QED BY <1>1 DEF toolvars, Signing!vars

\* The part that is one of the Calls starts and steps as its module says.
LEMMA CallStarts ==
    ASSUME NEW p \in Calls, part = p, ToolInit
    PROVE  Calling(Tooling[p])!Init
BY CallOnly DEF ToolInit

LEMMA CallSteps ==
    ASSUME NEW p \in Calls, part = p, [ToolNext]_toolvars
    PROVE  [Calling(Tooling[p])!Next]_(Calling(Tooling[p])!vars)
<1>1. Calling(Tooling[p])!Next \/ UNCHANGED toolvars
  BY CallOnly DEF ToolNext
<1> QED BY <1>1 DEF toolvars, Calling!vars

\* The part that is one of the McpFiles starts and steps as its module says.
LEMMA McpFileStarts ==
    ASSUME NEW p \in McpFiles, part = p, ToolInit
    PROVE  Registering(Tooling[p])!Init
BY McpFileOnly DEF ToolInit

LEMMA McpFileSteps ==
    ASSUME NEW p \in McpFiles, part = p, [ToolNext]_toolvars
    PROVE  [Registering(Tooling[p])!Next]_(Registering(Tooling[p])!vars)
<1>1. Registering(Tooling[p])!Next \/ UNCHANGED toolvars
  BY McpFileOnly DEF ToolNext
<1> QED BY <1>1 DEF toolvars, Registering!vars

\* The part that is one of the Wires starts and steps as its module says.
LEMMA WireStarts ==
    ASSUME NEW p \in Wires, part = p, ToolInit
    PROVE  Asking(Tooling[p])!Init
BY WireOnly DEF ToolInit

LEMMA WireSteps ==
    ASSUME NEW p \in Wires, part = p, [ToolNext]_toolvars
    PROVE  [Asking(Tooling[p])!Next]_(Asking(Tooling[p])!vars)
<1>1. Asking(Tooling[p])!Next \/ UNCHANGED toolvars
  BY WireOnly DEF ToolNext
<1> QED BY <1>1 DEF toolvars, Asking!vars

-----------------------------------------------------------------------------
(* The theorems: each property has an inductive invariant of its component, which is *)
(* true of the part that runs.                                                        *)

\* What was written is whole somewhere until a call that was asked to destroys it, no path
\* holds a half-built copy, and the trash keeps to its limit (fs: Staging, Trash, the handlers).
THEOREM FilesKeptAlways == ToolSpec => []FilesKept
<1> DEFINE Inv == \A p \in Filings : part = p => FInv(Tooling[p])
<1>1. ToolInit => Inv
  BY FilingStarts, FInit, ToolingFits
<1>2. Inv /\ [ToolNext]_toolvars => Inv'
  BY ToolStays, FilingSteps, FStep, ToolingFits
<1>3. Inv => FilesKept
  BY FHolds, ToolingFits DEF FilesKept
<1> QED BY <1>1, <1>2, <1>3, PTL DEF ToolSpec

\* A program's output is whole or said to be cut, its group and workspace go and its container is
\* stopped or its kill was tried; only checked addresses are requested; a page keeps its text and
\* no other, where its heads are closed and no end tag is stray (run_process, fetch_url, _html.py).
THEOREM ProgramsAndPagesAlways == ToolSpec => []ProgramsAndPages
<1> DEFINE Inv == /\ \A p \in Programs : part = p => BInv(Tooling[p])
                  /\ \A p \in Fetches : part = p => WInv(Tooling[p])
                  /\ \A p \in Pages : part = p => HInv
<1>1. ToolInit => Inv
  BY ProgramStarts, FetchStarts, PageStarts, BInit, WInit, HInit, ToolingFits
<1>2. Inv /\ [ToolNext]_toolvars => Inv'
  BY ToolStays, ProgramSteps, FetchSteps, PageSteps, BStep, WStep, HStep, ToolingFits
<1>3. Inv => ProgramsAndPages
  BY BHolds, WHolds, HHolds, ToolingFits DEF ProgramsAndPages
<1> QED BY <1>1, <1>2, <1>3, PTL DEF ToolSpec

\* A connection has its token and no secret outlives it, a tool server has the credential its
\* entry names, and a sign-in stands for its own approval (ConnectionStore, mcp.py, oauth.py).
THEOREM CredentialsHoldAlways == ToolSpec => []CredentialsHold
<1> DEFINE Inv == /\ \A p \in Stores : part = p => CInv(Tooling[p])
                  /\ \A p \in McpFiles : part = p => KInv(Tooling[p])
                  /\ \A p \in SignIns : part = p => GInv(Tooling[p])
<1>1. ToolInit => Inv
  BY StoreStarts, McpFileStarts, SignInStarts, CInit, KInit, GInit, ToolingFits
<1>2. Inv /\ [ToolNext]_toolvars => Inv'
  BY ToolStays, StoreSteps, McpFileSteps, SignInSteps, CStep, KStep, GStep, ToolingFits
<1>3. Inv => CredentialsHold
  BY CHolds, KHolds, GHolds, ToolingFits DEF CredentialsHold
<1> QED BY <1>1, <1>2, <1>3, PTL DEF ToolSpec

\* A provider call gives its response back, repeats itself with a fresh credential only, and
\* ends with the error its cause is, unless its body was cut in order (_translate, _reauth, stream).
THEOREM CallsTranslatedAlways == ToolSpec => []CallsTranslated
<1> DEFINE Inv == \A p \in Calls : part = p => AInv(Tooling[p])
<1>1. ToolInit => Inv
  BY CallStarts, AInit, ToolingFits
<1>2. Inv /\ [ToolNext]_toolvars => Inv'
  BY ToolStays, CallSteps, AStep, ToolingFits
<1>3. Inv => CallsTranslated
  BY AHolds, ToolingFits DEF CallsTranslated
<1> QED BY <1>1, <1>2, <1>3, PTL DEF ToolSpec

\* Every request asks the prompt of its run, follows each call by its result, and says in every
\* provider's form what the session said, in the same order (_build_messages, _to_openai_message).
THEOREM RequestsSoundAlways == ToolSpec => []RequestsSound
<1> DEFINE Inv == \A p \in Wires : part = p => MInv(Tooling[p])
<1>1. ToolInit => Inv
  BY WireStarts, MInit, ToolingFits
<1>2. Inv /\ [ToolNext]_toolvars => Inv'
  BY ToolStays, WireSteps, MStep, ToolingFits
<1>3. Inv => RequestsSound
  BY MHolds, ToolingFits DEF RequestsSound
<1> QED BY <1>1, <1>2, <1>3, PTL DEF ToolSpec

\* No step of a call that fails in time leaves a path changed, but for what the system refused to
\* remove or to put back, reports a deletion or a move that did not take place, gives a connection
\* another id or polls too soon (fs handlers, upsert, _poll_device_token).
THEOREM NothingUntoldAlways == ToolSpec => NothingUntold
<1> DEFINE Inv == /\ \A p \in Filings : part = p => FInv(Tooling[p])
                  /\ \A p \in Stores : part = p => CInv(Tooling[p])
                  /\ \A p \in SignIns : part = p => GInv(Tooling[p])
           Told == /\ \A p \in Filings : part = p => Filing(Tooling[p])!StepTells
                   /\ \A p \in Stores : part = p => Connecting(Tooling[p])!StepTells
                   /\ \A p \in SignIns : part = p => Signing(Tooling[p])!PollsSpaced
<1>1. ToolInit => Inv
  BY FilingStarts, StoreStarts, SignInStarts, FInit, CInit, GInit, ToolingFits
<1>2. Inv /\ [ToolNext]_toolvars => Inv' /\ Told
  BY ToolStays, FilingSteps, StoreSteps, SignInSteps, FStep, CStep, GStep, FTells, CTells, GTells, ToolingFits
<1>3. Inv /\ [ToolNext]_toolvars => [Told]_toolvars
  BY <1>2
<1> QED BY <1>1, <1>2, <1>3, PTL DEF ToolSpec, NothingUntold

=============================================================================
