---------------------------- MODULE Connections ----------------------------
(***************************************************************************)
(* The model connections (arcana/models/connection_store.py) and the       *)
(* commands that change them (arcana_cli/commands/providers.py).  A command *)
(* is a process: it reads the whole of models.json once, asks its user,     *)
(* signs in, and then writes the keyring and the file in an order of its    *)
(* own, the file always as a whole and from the list it read.               *)
(***************************************************************************)
EXTENDS Naturals

CONSTANTS Procs, Names, Ids, Endpoints,
          Ops,          \* the commands that are run: add, login, edit, rotate, remove
          Faults,       \* "crash", "keyring", and "kind": an overwrite may change the auth type
          None, Unread,  \* no connection (no secret); a list that has not been read
          Nothing, Gone  \* of a name: nothing was reported; it was removed

VARIABLES file,    \* models.json: what it says of each name
          ring,    \* the OS keyring: what each entry of each connection holds
          proc,    \* the commands that are running
          said     \* what the last command that ended said of each name

vars == <<file, ring, proc, said>>

Auths == {"key", "token"}                 \* AuthType.API_KEY, AuthType.OAUTH
Slots == Ids \X Auths                     \* <id>_api_key, <id>_oauth_token
Connection == [id: Ids, auth: Auths, ref: Auths \cup {None}, endpoint: Endpoints]

\* What the constants are.
ConstantsFit ==
  /\ {None, Unread, Nothing, Gone} \cap Connection = {} /\ None \notin Names \cup Auths
  /\ Nothing \notin {None, Gone} /\ Unread # None

Steps == {"idle", "token", "rotate", "save", "key", "drop", "forget"}
Idle == [at |-> "idle", op |-> "none", name |-> None, conn |-> None, list |-> Unread]

Init == /\ file = [n \in Names |-> None]
        /\ ring = [s \in Slots |-> None]
        /\ proc = [p \in Procs |-> Idle]
        /\ said = [n \in Names |-> Nothing]

\* _cred_ref: the entry a static key of the connection is written to.
KeySlot(c) == <<c.id, IF c.ref = None THEN "key" ELSE c.ref>>

Used == {file[n].id : n \in {m \in Names : file[m] # None}}
        \cup {s[1] : s \in {t \in Slots : ring[t] # None}}
        \cup {proc[p].conn.id : p \in {q \in Procs : proc[q].conn # None}}

\* MUTANT of IdOf: an id that may be another connection's.
AnyId(n, i) == file[n] # None => i = file[n].id

\* uuid4 never gives an id that anything still refers to.
IdOf(n, i) == IF file[n] # None THEN i = file[n].id ELSE i \notin Used

Run(p, at, op, n, c) ==
  proc' = [proc EXCEPT ![p] = [at |-> at, op |-> op, name |-> n, conn |-> c, list |-> file]]

\* add reads the list, keeps the id of the name it overwrites, and with OAuth signs in before it writes anything.
Add(p, n) ==
  /\ "add" \in Ops /\ proc[p] = Idle
  /\ \E i \in Ids, a \in Auths, e \in Endpoints :
       /\ IdOf(n, i)
       /\ file[n] # None /\ "kind" \notin Faults => a = file[n].auth
       /\ Run(p, IF a = "token" THEN "token" ELSE "save", "add", n,
              [id |-> i, auth |-> a, ref |-> IF a = "token" THEN a ELSE None, endpoint |-> e])
  /\ UNCHANGED <<file, ring, said>>

Login(p, n) ==
  /\ "login" \in Ops /\ proc[p] = Idle
  /\ file[n] # None
  /\ file[n].auth = "token"
  /\ Run(p, "token", "login", n, file[n])
  /\ UNCHANGED <<file, ring, said>>

\* edit --rotate-key writes its key before it touches the file, and refers to it from then on.
Edit(p, n) ==
  /\ proc[p] = Idle
  /\ file[n] # None
  /\ \E e \in Endpoints : \/ "edit" \in Ops /\ Run(p, "save", "edit", n, [file[n] EXCEPT !.endpoint = e])
                          \/ "rotate" \in Ops /\ Run(p, "rotate", "edit", n, [file[n] EXCEPT !.endpoint = e])
  /\ UNCHANGED <<file, ring, said>>

Remove(p, n) ==
  /\ "remove" \in Ops /\ proc[p] = Idle
  /\ file[n] # None
  /\ Run(p, "drop", "remove", n, file[n])
  /\ UNCHANGED <<file, ring, said>>

\* The sign-in, or a write to the keyring, fails: the command exits with what it has already written.
Fails(p) ==
  /\ \/ proc[p].at = "token"
     \/ proc[p].at \in {"rotate", "key"} /\ "keyring" \in Faults
  /\ proc' = [proc EXCEPT ![p] = Idle]
  /\ said' = IF proc[p].at = "key" THEN [said EXCEPT ![proc[p].name] = Nothing] ELSE said
  /\ UNCHANGED <<file, ring>>

\* MUTANT of StoreToken: add saves the connection and leaves the token for the first login.
SaveFirst(p) ==
  /\ proc[p].at = "token"
  /\ proc' = [proc EXCEPT ![p].at = "save"]
  /\ UNCHANGED <<file, ring, said>>

StoreToken(p) ==
  /\ proc[p].at = "token"
  /\ ring' = [ring EXCEPT ![<<proc[p].conn.id, "token">>] = "token"]
  /\ proc' = [proc EXCEPT ![p].at = "save"]
  /\ UNCHANGED <<file, said>>

RotateKey(p) ==
  /\ proc[p].at = "rotate"
  /\ ring' = [ring EXCEPT ![KeySlot(proc[p].conn)] = "key"]
  /\ proc' = [proc EXCEPT ![p].at = "save", ![p].conn.ref = KeySlot(proc[p].conn)[2]]
  /\ UNCHANGED <<file, said>>

\* MUTANT of Upserted: the connection that is written is the only one.
Alone(list, n, c) == [m \in Names |-> IF m = n THEN c ELSE None]

\* MUTANT of Upserted: the replaced connection gets an id of its own.
NewId(list, n, c) ==
  [list EXCEPT ![n] = IF list[n] = None THEN c ELSE [c EXCEPT !.id = CHOOSE i \in Ids : i # c.id]]

\* upsert replaces by name, in the list this process read, and writes all of that list.
Upserted(list, n, c) == [list EXCEPT ![n] = IF list[n] = None THEN c ELSE [c EXCEPT !.id = list[n].id]]

Save(p) ==
  /\ proc[p].at = "save"
  /\ LET r == proc[p]
         keyed == r.op = "add" /\ r.conn.auth = "key"
     IN /\ file' = Upserted(r.list, r.name, r.conn)
        /\ proc' = [proc EXCEPT ![p] = IF keyed THEN [r EXCEPT !.at = "key", !.list = file'] ELSE Idle]
        /\ said' = [said EXCEPT ![r.name] = IF keyed THEN @ ELSE r.conn]
  /\ UNCHANGED ring

\* add writes its API key last.
SetKey(p) ==
  /\ proc[p].at = "key"
  /\ ring' = [ring EXCEPT ![<<proc[p].conn.id, "key">>] = "key"]
  /\ said' = [said EXCEPT ![proc[p].name] = proc[p].conn]
  /\ proc' = [proc EXCEPT ![p] = Idle]
  /\ UNCHANGED file

Drop(p) ==
  /\ proc[p].at = "drop"
  /\ file' = [proc[p].list EXCEPT ![proc[p].name] = None]
  /\ proc' = [proc EXCEPT ![p].at = "forget", ![p].list = file']
  /\ UNCHANGED <<ring, said>>

\* MUTANT of Forgotten: the key's entry, whatever the connection refers to.
KeyOnly(c) == {<<c.id, "key">>}

\* delete takes one entry of the keyring with it.
Forgotten(c) == {KeySlot(c)}

\* A keyring that fails is not heard of: the connection was removed.
Forget(p) ==
  /\ proc[p].at = "forget"
  /\ ring' \in {[s \in Slots |-> IF s \in Forgotten(proc[p].conn) THEN None ELSE ring[s]]}
               \cup (IF "keyring" \in Faults THEN {ring} ELSE {})
  /\ said' = [said EXCEPT ![proc[p].name] = Gone]
  /\ proc' = [proc EXCEPT ![p] = Idle]
  /\ UNCHANGED file

\* os.replace leaves the old file or the new one; nothing is known to have been done.
Crash(p) ==
  /\ "crash" \in Faults
  /\ proc[p].at # "idle"
  /\ proc' = [proc EXCEPT ![p] = Idle]
  /\ said' = [said EXCEPT ![proc[p].name] = Nothing]
  /\ UNCHANGED <<file, ring>>

Next == \E p \in Procs : \/ \E n \in Names : Add(p, n) \/ Login(p, n) \/ Edit(p, n) \/ Remove(p, n)
                         \/ Fails(p) \/ StoreToken(p) \/ RotateKey(p) \/ Save(p) \/ SetKey(p)
                         \/ Drop(p) \/ Forget(p) \/ Crash(p)

Spec == Init /\ [][Next]_vars

\* No command runs.
Resting == \A p \in Procs : proc[p] = Idle

-----------------------------------------------------------------------------
\* Every field has its type, and no two connections share an id.
TypeOK == /\ file \in [Names -> Connection \cup {None}]
          /\ ring \in [Slots -> Auths \cup {None}]
          /\ \A m, n \in Names : m # n /\ file[m] # None /\ file[n] # None => file[m].id # file[n].id
          /\ said \in [Names -> Connection \cup {Nothing, Gone}]
          /\ proc \in [Procs -> [at: Steps, op: Ops \cup {"none", "edit"}, name: Names \cup {None},
                                 conn: Connection \cup {None}, list: [Names -> Connection \cup {None}] \cup {Unread}]]

\* A connection that signs in with OAuth has its token in the keyring from the
\* moment models.json names it: every command stores the token before the
\* record, so neither a crash nor a keyring that fails between the two leaves a
\* record that points at nothing (add_cmd: "a failed/aborted sign-in leaves
\* models.json untouched").
OAuthHasToken ==
  \A n \in Names : file[n] # None /\ file[n].auth = "token" => ring[<<file[n].id, file[n].ref>>] = "token"

\* Between commands every secret in the keyring belongs to a connection on
\* file: remove takes the credential with it (ConnectionStore.delete).
SecretsHaveOwners ==
  (\A p \in Procs : proc[p] = Idle) =>
    \A s \in Slots : ring[s] # None => \E n \in Names : file[n] # None /\ file[n].id = s[1]

\* What a command reported stays so until another command changes that name: a
\* removed connection is gone, a saved one is on file as it was saved.  Each
\* command writes the whole list, so this is about the commands for OTHER names.
ToldHolds ==
  \A n \in Names :
    (\A p \in Procs : proc[p].name # n) =>
      CASE said[n] = Nothing -> TRUE
        [] said[n] = Gone    -> file[n] = None
        [] OTHER               -> file[n] = said[n]

\* A connection keeps its id for as long as it is on file (agents and keyring
\* entries refer to it by that id), whoever overwrites it.
IdKept == \A n \in Names : file[n] # None /\ file'[n] # None => file'[n].id = file[n].id

\* Commands follow one another.
OneAtATime == \A p, q \in Procs : p = q

\* What holds of them then: a key written over a token by a rotation is no token any
\* more, and a command that dies or a keyring that fails leaves secrets behind.
ConnectionsHold ==
  OneAtATime => /\ TypeOK /\ ToldHolds
                /\ "rotate" \notin Ops => OAuthHasToken
                /\ Faults = {} => SecretsHaveOwners

StepTells == OneAtATime => IdKept
=============================================================================
