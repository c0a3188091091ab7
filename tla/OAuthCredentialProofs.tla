------------------------- MODULE OAuthCredentialProofs -------------------------
(***************************************************************************)
(* Safety of one OAuth credential, for any number of tasks and of tokens.  *)
(***************************************************************************)
EXTENDS OAuthCredential, TLAPS

\* The lock is held exactly by the task that is refreshing.
LockHeld == \A c \in Callers : lock = c <=> task[c].at \in {"asking", "answer"}

\* Only numbers that were issued are about, and only they were refreshed.
Numbered ==
    /\ keyring.acc <= server.issued
    /\ keyring.acc = 0 => keyring.ref = 0
    /\ \A c \in Callers :
         /\ task[c].sent[0] <= server.issued /\ task[c].sent[1] <= server.issued
         /\ task[c].at \in {"asking", "answer"} => task[c].got.acc \in 1..server.issued
    /\ \A t \in Issued : t > server.issued => past.renewed[t] = 0

\* A token that may yet be refreshed was not refreshed before, and a token the
\* server has just given out can be refreshed.
Unrenewed ==
    /\ \A t \in Issued : past.renewed[t] <= 1
    /\ \A c \in Callers :
         task[c].at \in {"asking", "answer"} => past.renewed[task[c].got.acc] = 0
    /\ \A c \in Callers : At(c, "answer") => task[c].got.ref \in server.refs
    /\ \/ \E c \in Callers : At(c, "answer")
       \/ /\ keyring.acc # 0 => past.renewed[keyring.acc] = 0
          /\ keyring.ref \in server.refs \cup {0}

\* After a sign-out that met no refresh, none starts.
SignedOut == past.out => keyring = NoToken /\ \A c \in Callers : task[c].at \notin {"asking", "answer"}

\* a is no longer to be stored; it is neither stored nor to be stored.
Settled(a) == \A c \in Callers : At(c, "answer") => task[c].got.acc # a
Gone(a) == keyring.acc # a /\ Settled(a)

\* The stored token is not about to be stored a second time.
StoredOnce == keyring.acc # 0 => Settled(keyring.acc)

\* What is known of the token a request was sent with.
Spent(c) ==
    /\ task[c].sent[0] # 0 => Settled(task[c].sent[0])
    /\ task[c].sent[0] # 0 /\ task[c].attempt = 1 => Gone(task[c].sent[0])
    /\ task[c].sent[0] # 0 /\ At(c, "waiting") /\ task[c].purpose = "renew" =>
         task[c].seen.acc = task[c].sent[0] \/ Gone(task[c].sent[0])
    /\ task[c].attempt = 0 => task[c].sent[1] = 0
    /\ task[c].purpose = "renew" => task[c].attempt = 0
    /\ task[c].sent[1] # 0 => task[c].sent[1] # task[c].sent[0]

IInv ==
    /\ TypeOK
    /\ LockHeld
    /\ Numbered
    /\ ~past.lost => Unrenewed
    /\ SignedOut
    /\ StoredOnce
    /\ \A c \in Callers : Spent(c)

-----------------------------------------------------------------------------
(* Types *)

\* The initial request record, and the idle one, are requests (GetToken starts
\* from the one, a request that is over leaves the other).
LEMMA NewTaskType == NewTask \in Task /\ Idle \in Task
<1>1. 0 \in Zero
  BY CredentialAssumption, SMT DEF Zero
<1>2. NoToken \in Token
  BY <1>1 DEF NoToken, Token
<1>3. [i \in 0..1 |-> 0] \in [0..1 -> Zero]
  BY <1>1
<1>4. NewTask \in Task
  BY <1>2, <1>3, SMT DEF NewTask, Task
<1> QED BY <1>4, SMT DEF Idle, Task

\* A request that gets a token, waits for the lock, is retried or ends stays a
\* request (get_token, _refresh, on_unauthorized).
LEMMA MoveType ==
    ASSUME TypeOK, NEW c \in Callers
    PROVE  /\ Over(c) => task' \in [Callers -> Task]
           /\ \A acc \in Zero : Sends(c, acc) => task' \in [Callers -> Task]
           /\ \A seen \in Token, purpose \in {"get", "renew"} :
                Waits(c, purpose, seen) => task' \in [Callers -> Task]
           /\ \A acc \in Zero :
                Obtained(c, acc) /\ (task[c].purpose = "renew" => task[c].attempt = 0)
                => task' \in [Callers -> Task]
<1>1. task \in [Callers -> Task] /\ task[c] \in Task
  BY DEF TypeOK
<1>2. NoToken \in Token
  BY CredentialAssumption, SMT DEF NoToken, Token, Zero
<1>3. Over(c) => task' \in [Callers -> Task]
  BY <1>1, NewTaskType, Zenon DEF Over
<1>4. ASSUME NEW acc \in Zero, Sends(c, acc)
      PROVE  task' \in [Callers -> Task]
  <2> DEFINE r == task[c]
             sent == [r.sent EXCEPT ![r.attempt] = acc]
             sends == [r EXCEPT !.at = "sending", !.sent = sent, !.seen = NoToken, !.got = NoToken]
  <2>1. sent \in [0..1 -> Zero]
    BY <1>1 DEF Task
  <2>2. sends \in Task
    <3> HIDE DEF sent
    <3> QED BY <1>1, <1>2, <2>1, Zenon DEF Task
  <2>3. task' = [task EXCEPT ![c] = sends]
    BY <1>1, <1>4 DEF Sends, Task
  <2> HIDE DEF sends
  <2> QED BY <1>1, <2>2, <2>3
<1>5. ASSUME NEW seen \in Token, NEW purpose \in {"get", "renew"}, Waits(c, purpose, seen)
      PROVE  task' \in [Callers -> Task]
  <2> DEFINE waits == [task[c] EXCEPT !.at = "waiting", !.purpose = purpose, !.seen = seen]
  <2>1. waits \in Task
    BY <1>1, Zenon DEF Task
  <2>2. task' = [task EXCEPT ![c] = waits]
    BY <1>1, <1>5, Zenon DEF Waits
  <2> HIDE DEF waits
  <2> QED BY <1>1, <2>1, <2>2
<1>6. ASSUME NEW acc \in Zero, Obtained(c, acc),
             task[c].purpose = "renew" => task[c].attempt = 0
      PROVE  task' \in [Callers -> Task]
  <2>1. CASE task[c].purpose = "get"
    BY <1>4, <1>6, <2>1 DEF Obtained
  <2>2. CASE task[c].purpose = "renew"
    <3> DEFINE again == [task[c] EXCEPT !.at = "start", !.attempt = 1, !.purpose = "get",
                                        !.seen = NoToken, !.got = NoToken]
    <3>1. again \in Task
      BY <1>1, <1>2, 1 \in 0..1, Zenon DEF Task
    <3>2. task' = [task EXCEPT ![c] = again]
      BY <1>1, <1>6, <2>2, 0 + 1 = 1 DEF Obtained
    <3> HIDE DEF again
    <3> QED BY <1>1, <3>1, <3>2
  <2> QED BY <1>1, <2>1, <2>2 DEF Task
<1> QED BY <1>3, <1>4, <1>5, <1>6

\* A request that is over has no token and no attempt behind it.
LEMMA IdleFields ==
    /\ Idle.at = "over" /\ Idle.attempt = 0 /\ Idle.purpose = "get"
    /\ Idle.sent[0] = 0 /\ Idle.sent[1] = 0
<1>1. NewTask.sent[0] = 0 /\ NewTask.sent[1] = 0
  BY DEF NewTask
<1>2. Idle.sent = NewTask.sent
  BY Zenon DEF Idle, NewTask
<1>3. Idle.at = "over" /\ Idle.attempt = 0 /\ Idle.purpose = "get"
  BY DEF Idle, NewTask
<1> QED BY <1>1, <1>2, <1>3

\* A new provider, with what an earlier sign-in left in the keyring (__init__).
LEMMA InitIInv == Init => IInv
<1> SUFFICES ASSUME Init PROVE IInv
  OBVIOUS
<1>1. 0 \in Zero /\ 1 \in Zero /\ 1 \in Issued /\ \A t \in Issued : t # 0
  BY CredentialAssumption, SMT DEF Zero, Issued
<1>2. keyring \in Token /\ keyring.acc = 1 /\ keyring.ref \in {0, 1}
  BY <1>1 DEF Init, Token
<1>3. \A c \in Callers : /\ task[c] = Idle
                          /\ task[c].at = "over" /\ task[c].attempt = 0 /\ task[c].purpose = "get"
                          /\ task[c].sent[0] = 0 /\ task[c].sent[1] = 0
  BY IdleFields DEF Init
<1>4. /\ past.renewed = [t \in Issued |-> 0] /\ past.lost = FALSE /\ past.out = FALSE
      /\ \A t \in Issued : past.renewed[t] = 0
  BY DEF Init
<1>5. server.issued = 1 /\ server.refs = {keyring.ref} \ {0} /\ lock = Nobody
  BY DEF Init
<1>6. TypeOK
  <2>1. server \in [issued: Issued, refs: SUBSET Issued]
    BY <1>1, <1>2 DEF Init
  <2>2. past \in [renewed: [Issued -> Nat], lost: BOOLEAN, out: BOOLEAN]
    BY DEF Init
  <2>3. expiring \subseteq Issued /\ lock \in Callers \cup {Nobody} /\ task \in [Callers -> Task]
    BY NewTaskType DEF Init
  <2> QED BY <1>2, <2>1, <2>2, <2>3 DEF TypeOK
<1>7. LockHeld
  BY <1>3, <1>5, CredentialAssumption DEF LockHeld
<1>8. Numbered
  BY <1>2, <1>3, <1>4, <1>5 DEF Numbered
<1>9. Unrenewed
  BY <1>1, <1>2, <1>3, <1>4, <1>5 DEF Unrenewed, At
<1>10. SignedOut
  BY <1>4 DEF SignedOut
<1>11. \A c \in Callers : Spent(c)
  BY <1>3 DEF Spent, At
<1>12. StoredOnce
  BY <1>3 DEF StoredOnce, Settled, At
<1> QED BY <1>6, <1>7, <1>8, <1>9, <1>10, <1>11, <1>12 DEF IInv

-----------------------------------------------------------------------------
(* What a move does to the requests *)

Others(c) == \A d \in Callers \ {c} : task'[d] = task[d]

\* A request that ends forgets its tokens.
LEMMA OverMoves ==
    ASSUME TypeOK, NEW c \in Callers, Over(c)
    PROVE  /\ Others(c)
           /\ task'[c] = Idle /\ task'[c].at = "over" /\ task'[c].attempt = 0
           /\ task'[c].purpose = "get" /\ task'[c].sent[0] = 0 /\ task'[c].sent[1] = 0
<1>1. Others(c) /\ task'[c] = Idle
  BY DEF Over, TypeOK, Others
<1> QED BY <1>1, IdleFields

\* A token is put on the current attempt of the request.
LEMMA SendsMoves ==
    ASSUME TypeOK, NEW c \in Callers, NEW acc, Sends(c, acc)
    PROVE  /\ Others(c)
           /\ task'[c].at = "sending"
           /\ task'[c].attempt = task[c].attempt /\ task'[c].purpose = task[c].purpose
           /\ task'[c].sent[task[c].attempt] = acc
           /\ \A i \in 0..1 : i # task[c].attempt => task'[c].sent[i] = task[c].sent[i]
<1>1. task \in [Callers -> Task] /\ task[c] \in Task
  BY DEF TypeOK
<1>2. Others(c)
  BY <1>1 DEF Sends, Others
<1>3. task'[c].at = "sending" /\ task'[c].attempt = task[c].attempt /\ task'[c].purpose = task[c].purpose
  BY <1>1 DEF Sends, Task
<1>4. task'[c].sent = [task[c].sent EXCEPT ![task[c].attempt] = acc]
  BY <1>1 DEF Sends, Task
<1>5. task[c].sent \in [0..1 -> Zero] /\ task[c].attempt \in 0..1
  BY <1>1 DEF Task
<1> QED BY <1>2, <1>3, <1>4, <1>5

\* A task that starts to wait for the lock remembers the token it saw.
LEMMA WaitsMoves ==
    ASSUME TypeOK, NEW c \in Callers, NEW purpose, NEW seen, Waits(c, purpose, seen)
    PROVE  /\ Others(c)
           /\ task'[c].at = "waiting" /\ task'[c].purpose = purpose /\ task'[c].seen = seen
           /\ task'[c].attempt = task[c].attempt /\ task'[c].sent = task[c].sent
<1>1. task \in [Callers -> Task] /\ task[c] \in Task
  BY DEF TypeOK
<1>2. Others(c)
  BY <1>1 DEF Waits, Others
<1> QED BY <1>1, <1>2 DEF Waits, Task

\* A refresh that gave a token sends it, or starts the second attempt.
LEMMA ObtainedMoves ==
    ASSUME TypeOK, NEW c \in Callers, NEW acc, Obtained(c, acc), task[c].purpose # "get"
    PROVE  /\ Others(c)
           /\ task'[c].at = "start" /\ task'[c].purpose = "get"
           /\ task'[c].attempt = task[c].attempt + 1 /\ task'[c].sent = task[c].sent
<1>1. task \in [Callers -> Task] /\ task[c] \in Task
  BY DEF TypeOK
<1>2. Others(c)
  BY <1>1 DEF Obtained, Others
<1> QED BY <1>1, <1>2 DEF Obtained, Task

\* The server is asked with the stored token, and answers with a new one; only
\* the place of the request and the token it refreshes change.
LEMMA AskMoves ==
    ASSUME TypeOK, NEW c \in Callers, NEW where \in {"asking", "answer"}, NEW got \in Token,
           task' = [task EXCEPT ![c].at = where, ![c].got = got]
    PROVE  /\ Others(c)
           /\ task' \in [Callers -> Task]
           /\ task'[c].at = where /\ task'[c].got = got /\ task'[c].sent = task[c].sent
           /\ task'[c].attempt = task[c].attempt /\ task'[c].purpose = task[c].purpose
<1> DEFINE asks == [task[c] EXCEPT !.at = where, !.got = got]
<1>1. task \in [Callers -> Task] /\ task[c] \in Task
  BY DEF TypeOK
<1>2. asks \in Task
  BY <1>1, Zenon DEF Task
<1>3. task' = [task EXCEPT ![c] = asks]
  BY <1>1, Zenon
<1>4. asks.at = where /\ asks.got = got /\ asks.sent = task[c].sent
      /\ asks.attempt = task[c].attempt /\ asks.purpose = task[c].purpose
  BY <1>1 DEF Task
<1> HIDE DEF asks
<1> QED BY <1>1, <1>2, <1>3, <1>4 DEF Others

\* Every step keeps the types; a request is sent at most twice (all handlers).
LEMMA TypeStep == ASSUME IInv, Next PROVE TypeOK'
<1>0. /\ TypeOK /\ keyring \in Token /\ Loaded \subseteq Token /\ NoToken \in Token
      /\ \A token \in Token : token.acc \in Zero /\ token.ref \in Zero
  BY NewTaskType, CredentialAssumption, SMT DEF IInv, TypeOK, Loaded, Token, NoToken, Zero
<1>1. ASSUME NEW c \in Callers, Begin(c)
      PROVE  TypeOK'
  BY <1>0, <1>1, NewTaskType DEF Begin, TypeOK
<1>2. ASSUME NEW c \in Callers, GetToken(c)
      PROVE  TypeOK'
  <2>1. task' \in [Callers -> Task]
    BY <1>0, <1>2, MoveType DEF GetToken
  <2> QED BY <1>0, <1>2, <2>1 DEF GetToken, TypeOK
<1>3. ASSUME NEW c \in Callers, Served(c)
      PROVE  TypeOK'
  BY <1>0, <1>3, MoveType DEF Served, TypeOK
<1>4. ASSUME NEW c \in Callers, Rejected(c)
      PROVE  TypeOK'
  <2>1. task' \in [Callers -> Task]
    BY <1>0, <1>4, MoveType DEF Rejected
  <2> QED BY <1>0, <1>4, <2>1 DEF Rejected, TypeOK
<1>5. ASSUME NEW c \in Callers
      PROVE  task[c].purpose = "renew" => task[c].attempt = 0
  BY DEF IInv, Spent
<1>6. ASSUME NEW c \in Callers, Take(c)
      PROVE  TypeOK'
  <2>1. PICK stored \in Loaded :
          \/ Over(c) /\ UNCHANGED lock
          \/ Obtained(c, stored.acc) /\ UNCHANGED lock
          \/ task' = [task EXCEPT ![c].at = "asking", ![c].got = stored] /\ lock' = c
    BY <1>6 DEF Take, Reloaded
  <2>2. task' \in [Callers -> Task]
    BY <1>0, <1>5, <2>1, MoveType, AskMoves
  <2>3. lock' \in Callers \cup {Nobody}
    BY <1>0, <2>1 DEF TypeOK
  <2> QED BY <1>0, <1>6, <2>2, <2>3 DEF Take, TypeOK
<1>7. ASSUME NEW c \in Callers, NEW rotates \in BOOLEAN, Grant(c, rotates)
      PROVE  TypeOK'
  <2> DEFINE n == server.issued + 1
             got == [acc |-> n, ref |-> IF rotates THEN n ELSE task[c].got.ref]
  <2>1. task[c].got \in Token /\ n \in Issued /\ n \in Zero
    BY <1>0, <1>7, CredentialAssumption, SMT DEF Grant, TypeOK, Task, Issued, Zero
  <2>2. got \in Token
    BY <1>0, <2>1 DEF Token
  <2>3. task' \in [Callers -> Task]
    <3>1. task' = [task EXCEPT ![c].at = "answer", ![c].got = got]
      BY <1>7 DEF Grant
    <3> HIDE DEF got
    <3> QED BY <1>0, <2>2, <3>1, AskMoves
  <2>4. server' \in [issued: Issued, refs: SUBSET Issued]
    BY <1>0, <1>7, <2>1 DEF Grant, TypeOK
  <2>5. past' \in [renewed: [Issued -> Nat], lost: BOOLEAN, out: BOOLEAN]
    BY <1>0, <1>7 DEF Grant, TypeOK
  <2> QED BY <1>0, <1>7, <2>3, <2>4, <2>5 DEF Grant, TypeOK
<1>8. ASSUME NEW c \in Callers, Save(c)
      PROVE  TypeOK'
  <2>1. task[c].got \in Token /\ task' \in [Callers -> Task]
    BY <1>0, <1>5, <1>8, MoveType DEF Save, TypeOK, Task
  <2> QED BY <1>0, <1>8, <2>1 DEF Save, Stored, Release, TypeOK
<1>9. ASSUME NEW c \in Callers, Over(c), Release(c), UNCHANGED <<keyring, server, expiring>>,
             past' = [past EXCEPT !.lost = @ \/ At(c, "answer")]
      PROVE  TypeOK'
  <2>1. past' \in [renewed: [Issued -> Nat], lost: BOOLEAN, out: BOOLEAN]
    BY <1>0, <1>9 DEF TypeOK, At
  <2> QED BY <1>0, <1>9, <2>1, MoveType DEF Release, TypeOK
<1>10. ASSUME NEW renewable \in BOOLEAN, SignIn(renewable)
       PROVE  TypeOK'
  <2>1. server.issued + 1 \in Issued /\ server.issued + 1 \in Zero /\ 0 \in Zero
    BY <1>10, CredentialAssumption, SMT DEF SignIn, Issued, Zero
  <2>2. keyring' \in Token
    BY <1>10, <2>1 DEF SignIn, Token
  <2>3. server' \in [issued: Issued, refs: SUBSET Issued]
    BY <1>0, <1>10, <2>1 DEF SignIn, TypeOK
  <2>4. past' \in [renewed: [Issued -> Nat], lost: BOOLEAN, out: BOOLEAN]
    BY <1>0, <1>10 DEF SignIn, TypeOK
  <2> QED BY <1>0, <1>10, <2>2, <2>3, <2>4 DEF SignIn, TypeOK
<1>11. ASSUME SignOut
       PROVE  TypeOK'
  <2>1. past' \in [renewed: [Issued -> Nat], lost: BOOLEAN, out: BOOLEAN]
    BY <1>0, <1>11 DEF SignOut, TypeOK
  <2> QED BY <1>0, <1>11, <2>1 DEF SignOut, TypeOK
<1>12. ASSUME NEW t \in Issued, Expire(t)
       PROVE  TypeOK'
  BY <1>0, <1>12 DEF Expire, TypeOK
<1> QED
  BY <1>1, <1>2, <1>3, <1>4, <1>6, <1>7, <1>8, <1>9, <1>10, <1>11, <1>12
     DEF Next, RefreshFails, Cancel

-----------------------------------------------------------------------------
(* The kinds of steps, as far as a refresh is concerned *)

\* c does something that leads neither into a refresh nor out of one.
Aside(c) ==
    /\ task[c].at \notin {"asking", "answer"} /\ task'[c].at \notin {"asking", "answer"}
    /\ \A i \in 0..1 : task'[c].sent[i] \in {0, keyring.acc, task[c].sent[i]}
    /\ Others(c)
    /\ UNCHANGED <<keyring, server, lock, past>>

\* c takes the lock to refresh what is stored.
Asks(c) ==
    /\ task[c].at = "waiting" /\ lock = Nobody /\ lock' = c
    /\ keyring.ref # 0
    /\ task' = [task EXCEPT ![c].at = "asking", ![c].got = keyring]
    /\ UNCHANGED <<keyring, server, past>>

\* c gives up, whatever it was at.
Drops(c) ==
    /\ Over(c)
    /\ Release(c)
    /\ past' = [past EXCEPT !.lost = @ \/ At(c, "answer")]
    /\ UNCHANGED <<keyring, server>>

\* The command line, the clock, or nobody.
Outside ==
    \/ \E renewable \in BOOLEAN : SignIn(renewable)
    \/ SignOut
    \/ UNCHANGED <<keyring, server, lock, task, past>>

\* A refresh that is not a get_token's sends nothing and starts the second
\* attempt; in either case c is no longer refreshing.
LEMMA ObtainedLeaves ==
    ASSUME TypeOK, NEW c \in Callers, NEW acc, Obtained(c, acc)
    PROVE  /\ Others(c)
           /\ task'[c].at \in {"sending", "start"}
           /\ \A i \in 0..1 : task'[c].sent[i] \in {acc, task[c].sent[i]}
<1>1. CASE task[c].purpose = "get"
  <2>1. Sends(c, acc)
    BY <1>1 DEF Obtained
  <2> QED BY <2>1, SendsMoves
<1>2. CASE task[c].purpose # "get"
  BY <1>2, ObtainedMoves
<1> QED BY <1>1, <1>2

\* Every step is of one of these kinds.
LEMMA StepKinds ==
    ASSUME IInv, Next
    PROVE  \/ \E c \in Callers : Aside(c) \/ Asks(c) \/ Save(c) \/ Drops(c)
           \/ \E c \in Callers, rotates \in BOOLEAN : Grant(c, rotates)
           \/ Outside
<1>0. /\ TypeOK /\ NewTask.at = "start" /\ NewTask.sent[0] = 0 /\ NewTask.sent[1] = 0
      /\ \A token \in Loaded : token.acc \in {0, keyring.acc}
  BY DEF IInv, NewTask, Loaded, NoToken
<1>1. ASSUME NEW c \in Callers, Begin(c)
      PROVE  Aside(c)
  BY <1>0, <1>1 DEF Begin, Aside, At, Others, TypeOK
<1>2. ASSUME NEW c \in Callers, GetToken(c)
      PROVE  Aside(c)
  <2>1. PICK token \in Loaded : Over(c) \/ Sends(c, token.acc) \/ Waits(c, "get", token)
    BY <1>2 DEF GetToken
  <2>2. Others(c) /\ task'[c].at \in {"over", "sending", "waiting"}
    BY <1>0, <2>1, OverMoves, SendsMoves, WaitsMoves
  <2>3. \A i \in 0..1 : task'[c].sent[i] \in {0, keyring.acc, task[c].sent[i]}
    BY <1>0, <2>1, OverMoves, SendsMoves, WaitsMoves
  <2> QED BY <1>2, <2>2, <2>3 DEF GetToken, At, Aside
<1>3. ASSUME NEW c \in Callers, Served(c)
      PROVE  Aside(c)
  BY <1>0, <1>3, OverMoves DEF Served, At, Aside
<1>4. ASSUME NEW c \in Callers, Rejected(c)
      PROVE  Aside(c)
  <2>1. /\ Others(c) /\ task'[c].at \in {"over", "waiting"}
        /\ \A i \in 0..1 : task'[c].sent[i] \in {0, task[c].sent[i]}
    BY <1>0, <1>4, OverMoves, WaitsMoves DEF Rejected
  <2> QED BY <1>4, <2>1 DEF Rejected, At, Aside
<1>5. ASSUME NEW c \in Callers, Take(c)
      PROVE  Aside(c) \/ Asks(c)
  <2>1. task[c].at = "waiting" /\ lock = Nobody /\ UNCHANGED <<keyring, server, past>>
    BY <1>5 DEF Take, At, LockFree
  <2>2. PICK stored \in Loaded :
          \/ Over(c) /\ UNCHANGED lock
          \/ Obtained(c, stored.acc) /\ UNCHANGED lock
          \/ /\ stored.ref # 0 /\ lock' = c
             /\ task' = [task EXCEPT ![c].at = "asking", ![c].got = stored]
    BY <1>5 DEF Take, Reloaded
  <2>3. CASE Over(c) /\ UNCHANGED lock
    BY <1>0, <2>1, <2>3, OverMoves DEF Aside
  <2>4. CASE Obtained(c, stored.acc) /\ UNCHANGED lock
    BY <1>0, <2>1, <2>4, ObtainedLeaves DEF Aside
  <2>5. CASE /\ stored.ref # 0 /\ lock' = c
             /\ task' = [task EXCEPT ![c].at = "asking", ![c].got = stored]
    <3>1. stored = keyring
      BY <2>5 DEF Loaded, NoToken
    <3> QED BY <2>1, <2>5, <3>1 DEF Asks
  <2> QED BY <2>2, <2>3, <2>4, <2>5
<1>6. ASSUME NEW c \in Callers, RefreshFails(c) \/ Cancel(c)
      PROVE  Drops(c)
  BY <1>6 DEF RefreshFails, Cancel, Drops
<1>7. ASSUME NEW t \in Issued, Expire(t)
      PROVE  Outside
  BY <1>7 DEF Expire, Outside
<1> QED
  BY <1>1, <1>2, <1>3, <1>4, <1>5, <1>6, <1>7, Zenon DEF Next, Outside

\* The lock is held exactly during a refresh (_refresh, async with _lock).
LEMMA LockStep == ASSUME IInv, Next PROVE LockHeld'
<1>0. TypeOK /\ LockHeld /\ task \in [Callers -> Task] /\ keyring \in Token
  BY DEF IInv, TypeOK
<1>1. ASSUME NEW c \in Callers, Aside(c)
      PROVE  LockHeld'
  BY <1>0, <1>1 DEF Aside, Others, LockHeld
<1>2. ASSUME NEW c \in Callers, Asks(c)
      PROVE  LockHeld'
  <2>1. Others(c) /\ task'[c].at = "asking"
    BY <1>0, <1>2, AskMoves DEF Asks
  <2> QED BY <1>0, <1>2, <2>1, CredentialAssumption DEF Asks, Others, LockHeld
<1>3. ASSUME NEW c \in Callers, Save(c)
      PROVE  LockHeld'
  <2>1. Others(c) /\ task'[c].at \in {"sending", "start"}
    BY <1>0, <1>3, ObtainedLeaves DEF Save
  <2> QED BY <1>0, <1>3, <2>1, CredentialAssumption DEF Save, Release, At, Others, LockHeld
<1>4. ASSUME NEW c \in Callers, Drops(c)
      PROVE  LockHeld'
  <2>1. Others(c) /\ task'[c].at = "over"
    BY <1>0, <1>4, OverMoves DEF Drops
  <2> QED BY <1>0, <1>4, <2>1, CredentialAssumption DEF Drops, Release, Others, LockHeld
<1>5. ASSUME NEW c \in Callers, NEW rotates \in BOOLEAN, Grant(c, rotates)
      PROVE  LockHeld'
  <2>1. Others(c) /\ task'[c].at = "answer"
    BY <1>0, <1>5 DEF Grant, Others
  <2> QED BY <1>0, <1>5, <2>1 DEF Grant, At, Others, LockHeld
<1>6. ASSUME Outside
      PROVE  LockHeld'
  BY <1>0, <1>6 DEF Outside, SignIn, SignOut, LockHeld
<1> QED BY <1>1, <1>2, <1>3, <1>4, <1>5, <1>6, StepKinds

\* Whatever is stored, sent or asked for was issued (all handlers).
LEMMA NumberedStep == ASSUME IInv, Next PROVE Numbered'
<1>0. /\ TypeOK /\ Numbered /\ TypeOK' /\ task \in [Callers -> Task] /\ keyring \in Token
      /\ server.issued \in Nat /\ keyring.acc \in Nat
      /\ \A c \in Callers : /\ task[c].got \in Token /\ task[c].got.acc \in Nat
                            /\ task[c].sent[0] \in Nat /\ task[c].sent[1] \in Nat
  <2>1. TypeOK /\ Numbered /\ TypeOK'
    BY TypeStep DEF IInv
  <2>2. Zero \subseteq Nat /\ Issued \subseteq Nat
    BY CredentialAssumption, SMT DEF Zero, Issued
  <2>3. task \in [Callers -> Task] /\ keyring \in Token /\ server.issued \in Nat /\ keyring.acc \in Nat
    BY <2>1, <2>2 DEF TypeOK, Token
  <2>4. ASSUME NEW c \in Callers
        PROVE  /\ task[c].got \in Token /\ task[c].got.acc \in Nat
               /\ task[c].sent[0] \in Nat /\ task[c].sent[1] \in Nat
    <3>1. task[c].got \in Token /\ task[c].sent \in [0..1 -> Zero]
      BY <2>3 DEF Task
    <3>2. task[c].got.acc \in Zero
      BY <3>1 DEF Token
    <3>3. task[c].sent[0] \in Zero /\ task[c].sent[1] \in Zero
      BY <3>1
    <3> QED BY <2>2, <3>1, <3>2, <3>3
  <2> QED BY <2>1, <2>3, <2>4
<1>1. ASSUME NEW c \in Callers, Aside(c)
      PROVE  Numbered'
  <2>1. task'[c].sent[0] <= server.issued /\ task'[c].sent[1] <= server.issued
    BY <1>0, <1>1 DEF Aside, Numbered
  <2> QED BY <1>0, <1>1, <2>1 DEF Aside, Others, Numbered
<1>2. ASSUME NEW c \in Callers, Asks(c)
      PROVE  Numbered'
  <2>1. Others(c) /\ task'[c].got = keyring /\ task'[c].sent = task[c].sent
    BY <1>0, <1>2, AskMoves DEF Asks
  <2>2. keyring.acc \in 1..server.issued
    BY <1>0, <1>2 DEF Asks, Numbered
  <2> QED BY <1>0, <1>2, <2>1, <2>2 DEF Asks, Others, Numbered
<1>3. ASSUME NEW c \in Callers, Save(c)
      PROVE  Numbered'
  <2>1. /\ Others(c) /\ task'[c].at \in {"sending", "start"}
        /\ \A i \in 0..1 : task'[c].sent[i] \in {task[c].got.acc, task[c].sent[i]}
    BY <1>0, <1>3, ObtainedLeaves DEF Save
  <2>2. task[c].got.acc \in 1..server.issued /\ keyring' = task[c].got /\ UNCHANGED <<server, past>>
    BY <1>0, <1>3 DEF Save, At, Stored, Numbered
  <2>3. task'[c].sent[0] <= server.issued /\ task'[c].sent[1] <= server.issued
    BY <1>0, <2>1, <2>2 DEF Numbered
  <2> QED BY <1>0, <2>1, <2>2, <2>3 DEF Others, Numbered
<1>4. ASSUME NEW c \in Callers, Drops(c)
      PROVE  Numbered'
  <2>1. Others(c) /\ task'[c].at = "over" /\ task'[c].sent[0] = 0 /\ task'[c].sent[1] = 0
    BY <1>0, <1>4, OverMoves DEF Drops
  <2>2. past'.renewed = past.renewed
    BY <1>0, <1>4 DEF Drops, TypeOK
  <2> QED BY <1>0, <1>4, <2>1, <2>2 DEF Drops, Others, Numbered
<1>5. ASSUME NEW c \in Callers, NEW rotates \in BOOLEAN, Grant(c, rotates)
      PROVE  Numbered'
  <2>1. /\ Others(c) /\ server'.issued = server.issued + 1 /\ task'[c].got.acc = server'.issued
        /\ task'[c].sent = task[c].sent /\ UNCHANGED keyring
    BY <1>0, <1>5 DEF Grant, Others, Task
  <2>2. past'.renewed = [past.renewed EXCEPT ![task[c].got.acc] = @ + 1]
    BY <1>0, <1>5 DEF Grant, TypeOK
  <2>3. task[c].got.acc \in 1..server.issued
    BY <1>0, <1>5 DEF Grant, At, Numbered
  <2>4. \A t \in Issued : t > server'.issued => past'.renewed[t] = 0
    <3>1. past.renewed \in [Issued -> Nat] /\ \A t \in Issued : t \in Nat
      BY <1>0, CredentialAssumption, SMT DEF TypeOK, Issued
    <3> QED BY <1>0, <2>1, <2>2, <2>3, <3>1 DEF Numbered
  <2>5. /\ keyring'.acc <= server'.issued /\ task'[c].got.acc \in 1..server'.issued
        /\ task'[c].sent[0] <= server'.issued /\ task'[c].sent[1] <= server'.issued
    BY <1>0, <2>1 DEF Numbered
  <2>6. ASSUME NEW d \in Callers, d # c
        PROVE  /\ task'[d].sent[0] <= server'.issued /\ task'[d].sent[1] <= server'.issued
               /\ task'[d].at \in {"asking", "answer"} => task'[d].got.acc \in 1..server'.issued
    BY <1>0, <2>1, <2>6 DEF Others, Numbered
  <2> QED BY <1>0, <2>1, <2>4, <2>5, <2>6 DEF Numbered
<1>6. ASSUME NEW renewable \in BOOLEAN, SignIn(renewable)
      PROVE  Numbered'
  <2>1. /\ server'.issued = server.issued + 1 /\ keyring'.acc = server'.issued /\ keyring'.acc # 0
        /\ task' = task /\ past'.renewed = past.renewed
    BY <1>0, <1>6 DEF SignIn, TypeOK
  <2>2. \A t \in Issued : t \in Nat
    BY CredentialAssumption, SMT DEF Issued
  <2> QED BY <1>0, <2>1, <2>2 DEF Numbered
<1>7. ASSUME SignOut
      PROVE  Numbered'
  <2>1. keyring' = NoToken /\ UNCHANGED <<server, task>> /\ past'.renewed = past.renewed
    BY <1>0, <1>7 DEF SignOut, TypeOK
  <2> QED BY <1>0, <2>1 DEF NoToken, Numbered
<1>8. ASSUME UNCHANGED <<keyring, server, lock, task, past>>
      PROVE  Numbered'
  BY <1>0, <1>8 DEF Numbered
<1> QED BY <1>1, <1>2, <1>3, <1>4, <1>5, <1>6, <1>7, <1>8, StepKinds DEF Outside

\* As long as no answer is lost, what may be refreshed was not refreshed before,
\* and what is stored or about to be stored can be (_refresh).
LEMMA UnrenewedStep == ASSUME IInv, Next, ~past'.lost PROVE Unrenewed'
<1>0. /\ TypeOK /\ LockHeld /\ Numbered /\ task \in [Callers -> Task] /\ keyring \in Token
      /\ past \in [renewed: [Issued -> Nat], lost: BOOLEAN, out: BOOLEAN]
      /\ past.renewed \in [Issued -> Nat] /\ server.issued \in Nat
      /\ Issued = 1..MaxIssued /\ MaxIssued \in Nat
  BY CredentialAssumption, SMT DEF IInv, TypeOK, Issued
<1>1. ASSUME NEW c \in Callers, Aside(c)
      PROVE  Unrenewed'
  <2>1. Unrenewed
    BY <1>1 DEF IInv, Aside
  <2> QED BY <1>0, <1>1, <2>1 DEF Aside, Others, At, Unrenewed
<1>2. ASSUME NEW c \in Callers, Asks(c)
      PROVE  Unrenewed'
  <2>1. Unrenewed /\ past' = past /\ UNCHANGED <<keyring, server>>
    BY <1>2 DEF IInv, Asks
  <2>2. Others(c) /\ task'[c].at = "asking" /\ task'[c].got = keyring
    BY <1>0, <1>2, AskMoves DEF Asks
  <2>3. \A d \in Callers : ~At(d, "answer") /\ ~At(d, "answer")'
    BY <1>0, <1>2, <2>2, CredentialAssumption DEF Asks, LockHeld, Others, At
  <2>4. keyring.acc # 0 /\ past.renewed[keyring.acc] = 0
    BY <1>0, <1>2, <2>1, <2>3 DEF Asks, Numbered, Unrenewed
  <2> QED BY <1>0, <2>1, <2>2, <2>3, <2>4 DEF Others, Unrenewed
<1>3. ASSUME NEW c \in Callers, Save(c)
      PROVE  Unrenewed'
  <2>1. Unrenewed /\ past' = past /\ server' = server /\ keyring' = task[c].got
    BY <1>3 DEF IInv, Save, Stored
  <2>2. Others(c) /\ task'[c].at \in {"sending", "start"}
    BY <1>0, <1>3, ObtainedLeaves DEF Save
  <2>3. past.renewed[task[c].got.acc] = 0 /\ task[c].got.ref \in server.refs
    BY <1>3, <2>1 DEF Save, At, Unrenewed
  <2> QED BY <2>1, <2>2, <2>3 DEF Others, At, Unrenewed
<1>4. ASSUME NEW c \in Callers, Drops(c)
      PROVE  Unrenewed'
  <2>1. ~past.lost /\ ~At(c, "answer") /\ past'.renewed = past.renewed
    BY <1>0, <1>4 DEF Drops
  <2>2. Others(c) /\ task'[c].at = "over" /\ UNCHANGED <<keyring, server>>
    BY <1>0, <1>4, OverMoves DEF Drops
  <2>3. Unrenewed
    BY <2>1 DEF IInv
  <2> QED BY <2>1, <2>2, <2>3 DEF Others, At, Unrenewed
<1>5. ASSUME NEW c \in Callers, NEW rotates \in BOOLEAN, Grant(c, rotates)
      PROVE  Unrenewed'
  <2> DEFINE n == server.issued + 1
             a == task[c].got.acc
  <2>1. Unrenewed /\ lock = c
    BY <1>0, <1>5 DEF IInv, Grant, At, LockHeld
  <2>2. /\ Others(c) /\ task'[c].at = "answer" /\ task'[c].got.acc = n
        /\ task'[c].got.ref = IF rotates THEN n ELSE task[c].got.ref
    BY <1>0, <1>5 DEF Grant, Others, Task
  <2>3. past'.renewed = [past.renewed EXCEPT ![a] = @ + 1]
    BY <1>0, <1>5 DEF Grant
  <2>4. a \in 1..server.issued /\ past.renewed[a] = 0 /\ n \in Issued /\ n # a
    BY <1>0, <1>5, <2>1 DEF Grant, At, Numbered, Unrenewed
  <2>5. \A t \in Issued : past'.renewed[t] <= 1
    BY <1>0, <2>1, <2>3, <2>4 DEF Unrenewed
  <2>6. past'.renewed[n] = 0
    BY <1>0, <2>3, <2>4 DEF Numbered
  <2>7. \A d \in Callers : d # c => task'[d].at \notin {"asking", "answer"}
    BY <1>0, <2>1, <2>2 DEF LockHeld, Others
  <2>8. task'[c].got.ref \in server'.refs
    BY <1>5, <2>2 DEF Grant
  <2> QED BY <2>2, <2>5, <2>6, <2>7, <2>8 DEF At, Unrenewed
<1>6. ASSUME NEW renewable \in BOOLEAN, SignIn(renewable)
      PROVE  Unrenewed'
  <2>1. /\ past'.lost = past.lost /\ past'.renewed = past.renewed /\ task' = task
        /\ keyring'.acc = server.issued + 1 /\ server.issued + 1 \in Issued
        /\ server.refs \subseteq server'.refs /\ keyring'.ref \in server'.refs \cup {0}
    BY <1>0, <1>6 DEF SignIn
  <2>2. Unrenewed
    BY <2>1 DEF IInv
  <2>3. past.renewed[server.issued + 1] = 0
    BY <1>0, <2>1 DEF Numbered
  <2> QED BY <2>1, <2>2, <2>3 DEF At, Unrenewed
<1>7. ASSUME SignOut
      PROVE  Unrenewed'
  <2>1. /\ past'.lost = past.lost /\ past'.renewed = past.renewed /\ task' = task
        /\ server' = server /\ keyring'.acc = 0 /\ keyring'.ref = 0
    BY <1>0, <1>7 DEF SignOut, NoToken
  <2>2. Unrenewed
    BY <2>1 DEF IInv
  <2> QED BY <2>1, <2>2 DEF At, Unrenewed
<1>8. ASSUME UNCHANGED <<keyring, server, lock, task, past>>
      PROVE  Unrenewed'
  BY <1>8 DEF IInv, At, Unrenewed
<1> QED BY <1>1, <1>2, <1>3, <1>4, <1>5, <1>6, <1>7, <1>8, StepKinds DEF Outside

\* Once the user has signed out no refresh begins, as there is nothing to
\* refresh with (_refresh loads again under the lock).
LEMMA SignedOutStep == ASSUME IInv, Next PROVE SignedOut'
<1>0. /\ TypeOK /\ SignedOut /\ task \in [Callers -> Task] /\ keyring \in Token
      /\ past \in [renewed: [Issued -> Nat], lost: BOOLEAN, out: BOOLEAN]
  BY DEF IInv, TypeOK
<1>1. ASSUME NEW c \in Callers, Aside(c)
      PROVE  SignedOut'
  BY <1>0, <1>1 DEF Aside, Others, SignedOut
<1>2. ASSUME NEW c \in Callers, Asks(c)
      PROVE  SignedOut'
  BY <1>0, <1>2 DEF Asks, NoToken, SignedOut
<1>3. ASSUME NEW c \in Callers, Save(c)
      PROVE  SignedOut'
  BY <1>0, <1>3 DEF Save, At, SignedOut
<1>4. ASSUME NEW c \in Callers, Drops(c)
      PROVE  SignedOut'
  <2>1. Others(c) /\ task'[c].at = "over" /\ keyring' = keyring /\ past'.out = past.out
    BY <1>0, <1>4, OverMoves DEF Drops
  <2> QED BY <1>0, <2>1 DEF Others, SignedOut
<1>5. ASSUME NEW c \in Callers, NEW rotates \in BOOLEAN, Grant(c, rotates)
      PROVE  SignedOut'
  <2>1. past'.out = past.out /\ ~past.out
    BY <1>0, <1>5 DEF Grant, At, SignedOut
  <2> QED BY <2>1 DEF SignedOut
<1>6. ASSUME NEW renewable \in BOOLEAN, SignIn(renewable)
      PROVE  SignedOut'
  <2>1. past'.out = FALSE
    BY <1>0, <1>6 DEF SignIn
  <2> QED BY <2>1 DEF SignedOut
<1>7. ASSUME SignOut
      PROVE  SignedOut'
  <2>1. task' = task /\ keyring' = NoToken /\ (past'.out => past.out \/ Refreshing = {})
    BY <1>0, <1>7 DEF SignOut
  <2> QED BY <1>0, <2>1 DEF Refreshing, SignedOut
<1>8. ASSUME UNCHANGED <<keyring, server, lock, task, past>>
      PROVE  SignedOut'
  BY <1>0, <1>8 DEF SignedOut
<1> QED BY <1>1, <1>2, <1>3, <1>4, <1>5, <1>6, <1>7, <1>8, StepKinds DEF Outside

-----------------------------------------------------------------------------
(* A token that was replaced does not come back *)

\* A token that was issued and is on its way to the keyring no more stays so;
\* once it is replaced there, it stays replaced (every store is of a new token).
LEMMA GoneStays ==
    ASSUME IInv, Next, NEW a \in 1..server.issued
    PROVE  /\ Settled(a) => Settled(a)'
           /\ Gone(a) => Gone(a)'
<1>0. /\ TypeOK /\ LockHeld /\ task \in [Callers -> Task] /\ server.issued \in Nat
  BY CredentialAssumption, SMT DEF IInv, TypeOK, Issued
<1>1. ASSUME NEW c \in Callers, Others(c), task'[c].at # "answer"
      PROVE  Settled(a) => Settled(a)'
  BY <1>1 DEF Others, Settled, At
<1>2. ASSUME NEW c \in Callers, Aside(c) \/ Asks(c) \/ Drops(c)
      PROVE  Others(c) /\ task'[c].at # "answer" /\ keyring' = keyring
  <2>1. CASE Aside(c)
    BY <2>1 DEF Aside
  <2>2. CASE Asks(c)
    BY <1>0, <2>2, AskMoves DEF Asks, TypeOK
  <2>3. CASE Drops(c)
    BY <1>0, <2>3, OverMoves DEF Drops
  <2> QED BY <1>2, <2>1, <2>2, <2>3
<1>3. ASSUME NEW c \in Callers, Save(c)
      PROVE  /\ Settled(a) => Settled(a)'
             /\ Gone(a) => Gone(a)'
  <2>1. Others(c) /\ task'[c].at # "answer"
    BY <1>0, <1>3, ObtainedLeaves DEF Save
  <2>2. keyring' = task[c].got /\ At(c, "answer")
    BY <1>3 DEF Save, Stored
  <2> QED BY <1>1, <2>1, <2>2 DEF Gone, Settled
<1>4. ASSUME NEW c \in Callers, NEW rotates \in BOOLEAN, Grant(c, rotates)
      PROVE  /\ Settled(a) => Settled(a)'
             /\ Gone(a) => Gone(a)'
  <2>1. Others(c) /\ task'[c].got.acc = server.issued + 1 /\ keyring' = keyring
    BY <1>0, <1>4 DEF Grant, Others, Task
  <2>2. task'[c].got.acc # a
    BY <1>0, <2>1
  <2> QED BY <2>1, <2>2 DEF Others, Gone, Settled, At
<1>5. ASSUME Outside
      PROVE  /\ Settled(a) => Settled(a)'
             /\ Gone(a) => Gone(a)'
  <2>1. task' = task /\ keyring'.acc \in {0, keyring.acc, server.issued + 1}
    BY <1>5 DEF Outside, SignIn, SignOut, NoToken
  <2> QED BY <1>0, <2>1 DEF Gone, Settled, At
<1> QED BY <1>1, <1>2, <1>3, <1>4, <1>5, StepKinds DEF Gone

\* The first token of a request, if it has one, was issued.
LEMMA FirstIssued ==
    ASSUME IInv, NEW c \in Callers
    PROVE  task[c].sent[0] # 0 => task[c].sent[0] \in 1..server.issued
<1>1. task[c].sent[0] \in Zero /\ task[c].sent[0] <= server.issued
  BY DEF IInv, TypeOK, Task, Numbered
<1>2. server.issued \in Issued
  BY DEF IInv, TypeOK
<1> QED BY <1>1, <1>2, CredentialAssumption, SMT DEF Zero, Issued

\* Each token enters the keyring once (_save, store_token).
LEMMA StoredOnceStep == ASSUME IInv, Next PROVE StoredOnce'
<1>0. /\ TypeOK /\ LockHeld /\ Numbered /\ StoredOnce /\ server.issued \in Nat /\ keyring.acc \in Nat
  BY CredentialAssumption, SMT DEF IInv, TypeOK, Token, Issued, Zero
<1>1. CASE keyring'.acc \in {0, keyring.acc}
  <2>1. ASSUME NEW c \in Callers, keyring'.acc # 0, task'[c].at = "answer"
        PROVE  task'[c].got.acc # keyring'.acc
    <3>1. PICK a \in 1..server.issued : a = keyring.acc
      BY <1>0, <1>1, <2>1 DEF Numbered
    <3>2. Settled(a)'
      BY <1>0, <2>1, <3>1, GoneStays DEF StoredOnce
    <3> QED BY <1>1, <2>1, <3>1, <3>2 DEF Settled, At
  <2> QED BY <2>1 DEF StoredOnce, Settled, At
<1>2. ASSUME NEW c \in Callers, Save(c)
      PROVE  StoredOnce'
  <2>1. Others(c) /\ task'[c].at # "answer" /\ lock = c
    BY <1>0, <1>2, ObtainedLeaves DEF Save, At, LockHeld
  <2> QED BY <1>0, <2>1 DEF Others, LockHeld, StoredOnce, Settled, At
<1>3. ASSUME NEW renewable \in BOOLEAN, SignIn(renewable)
      PROVE  StoredOnce'
  <2>1. task' = task /\ keyring'.acc = server.issued + 1
    BY <1>3 DEF SignIn
  <2>2. \A c \in Callers : At(c, "answer") => task[c].got.acc \in 1..server.issued
    BY <1>0 DEF At, Numbered
  <2> QED BY <1>0, <2>1, <2>2 DEF StoredOnce, Settled, At
<1>4. ASSUME ~\E c \in Callers : Save(c), ~\E renewable \in BOOLEAN : SignIn(renewable)
      PROVE  keyring'.acc \in {0, keyring.acc}
  <2>1. ASSUME NEW c \in Callers, Aside(c) \/ Asks(c) \/ Drops(c)
        PROVE  keyring' = keyring
    BY <2>1 DEF Aside, Asks, Drops
  <2>2. ASSUME NEW c \in Callers, NEW rotates \in BOOLEAN, Grant(c, rotates)
        PROVE  keyring' = keyring
    BY <2>2 DEF Grant
  <2>3. ASSUME SignOut
        PROVE  keyring'.acc = 0
    BY <2>3 DEF SignOut, NoToken
  <2> QED BY <1>4, <2>1, <2>2, <2>3, StepKinds DEF Outside
<1> QED BY <1>1, <1>2, <1>3, <1>4

\* What is known of a request's first token is known as long as the request
\* does not move (its task is at an await).
LEMMA SpentStays ==
    ASSUME IInv, Next, NEW d \in Callers,
           task'[d].sent = task[d].sent, task'[d].attempt = task[d].attempt,
           task'[d].purpose = task[d].purpose \/ task'[d].purpose = "get",
           task'[d].at = "waiting" /\ task'[d].purpose = "renew" =>
             task'[d].seen = task[d].seen /\ task[d].at = "waiting"
    PROVE  Spent(d)'
<1>1. Spent(d)
  BY DEF IInv
<1>2. PICK b : b = task[d].sent[0] /\ (b # 0 => b \in 1..server.issued)
  BY FirstIssued
<1>3. b # 0 => (Settled(b) => Settled(b)') /\ (Gone(b) => Gone(b)')
  BY <1>2, GoneStays
<1> QED BY <1>1, <1>2, <1>3 DEF Spent, Settled, Gone, At

\* A token that goes on a request is not on its way to the keyring any more,
\* and is not the one the request was sent with before.
LEMMA SendsSpent ==
    ASSUME IInv, Next, NEW c \in Callers, NEW acc, Sends(c, acc),
           acc # 0 => Settled(acc)',
           task[c].attempt = 1 /\ task[c].sent[0] # 0 => acc # task[c].sent[0]
    PROVE  Spent(c)'
<1>1. Spent(c) /\ TypeOK /\ task[c].attempt \in {0, 1}
  BY DEF IInv, TypeOK, Task
<1>2. PICK b : b = task[c].sent[0] /\ (b # 0 => b \in 1..server.issued)
  BY FirstIssued
<1>3. b # 0 => (Settled(b) => Settled(b)') /\ (Gone(b) => Gone(b)')
  BY <1>2, GoneStays
<1>4. /\ task'[c].at = "sending"
      /\ task'[c].attempt = task[c].attempt /\ task'[c].purpose = task[c].purpose
      /\ task[c].attempt = 0 => task'[c].sent[0] = acc /\ task'[c].sent[1] = task[c].sent[1]
      /\ task[c].attempt = 1 => task'[c].sent[1] = acc /\ task'[c].sent[0] = task[c].sent[0]
  BY <1>1, SendsMoves
<1>5. CASE task[c].attempt = 0
  BY <1>1, <1>4, <1>5 DEF Spent, Settled, Gone, At
<1>6. CASE task[c].attempt = 1
  BY <1>1, <1>2, <1>3, <1>4, <1>6 DEF Spent, Settled, Gone, At
<1> QED BY <1>1, <1>5, <1>6

\* A second attempt starts when the first token is replaced for good.
LEMMA AgainSpent ==
    ASSUME IInv, Next, NEW c \in Callers, NEW acc, Obtained(c, acc), task[c].purpose = "renew",
           task[c].sent[0] # 0 =>
             keyring'.acc # task[c].sent[0]
    PROVE  Spent(c)'
<1>1. Spent(c) /\ TypeOK /\ task[c].attempt = 0
  BY DEF IInv, Spent
<1>2. PICK b : b = task[c].sent[0] /\ (b # 0 => b \in 1..server.issued)
  BY FirstIssued
<1>3. b # 0 => Settled(b)'
  BY <1>1, <1>2, GoneStays DEF Spent
<1>4. task'[c].at = "start" /\ task'[c].purpose = "get" /\ task'[c].attempt = 1
      /\ task'[c].sent = task[c].sent
  BY <1>1, ObtainedMoves
<1> QED BY <1>1, <1>2, <1>3, <1>4 DEF Spent, Settled, Gone, At

\* A request never repeats a token it was sent with: a token that was put on it
\* is replaced before the second attempt (_refresh, on_unauthorized, _reauth).
LEMMA SpentStep == ASSUME IInv, Next PROVE \A d \in Callers : Spent(d)'
<1>0. /\ TypeOK /\ LockHeld /\ Numbered /\ StoredOnce
      /\ \A c \in Callers : Spent(c) /\ task[c].attempt \in {0, 1} /\ task[c].purpose \in {"get", "renew"}
  BY DEF IInv, TypeOK, Task
<1>1. ASSUME NEW c \in Callers, Others(c), Spent(c)'
      PROVE  \A d \in Callers : Spent(d)'
  <2> SUFFICES ASSUME NEW d \in Callers, d # c PROVE Spent(d)'
    BY <1>1
  <2>1. task'[d] = task[d]
    BY <1>1 DEF Others
  <2> QED BY <2>1, SpentStays
<1>2. ASSUME NEW c \in Callers, Over(c)
      PROVE  Others(c) /\ Spent(c)'
  BY <1>0, <1>2, OverMoves DEF Spent, At
<1>3. PICK stored : stored = keyring.acc /\ (stored # 0 => stored \in 1..server.issued /\ Settled(stored))
  <2>1. keyring.acc # 0 => keyring.acc \in 1..server.issued /\ Settled(keyring.acc)
    BY <1>0, CredentialAssumption, SMT DEF TypeOK, Token, Zero, Issued, Numbered, StoredOnce
  <2> QED BY <2>1
<1>4. stored # 0 => Settled(stored)'
  BY <1>3, GoneStays
<1>5. ASSUME NEW c \in Callers, NEW token \in Loaded, token # NoToken
      PROVE  token = keyring /\ token.acc = stored
  BY <1>3, <1>5 DEF Loaded
<1>6. ASSUME NEW c \in Callers, Begin(c)
      PROVE  Others(c) /\ Spent(c)'
  <2>1. /\ NewTask.at = "start" /\ NewTask.attempt = 0 /\ NewTask.purpose = "get"
        /\ NewTask.sent[0] = 0 /\ NewTask.sent[1] = 0
    BY DEF NewTask
  <2>2. Others(c) /\ task'[c] = NewTask
    BY <1>0, <1>6 DEF Begin, Others, TypeOK
  <2> QED BY <2>1, <2>2 DEF Spent, At
<1>7. ASSUME NEW c \in Callers, GetToken(c)
      PROVE  Others(c) /\ Spent(c)'
  <2>1. PICK token \in Loaded :
          Over(c) \/ (token # NoToken /\ Sends(c, token.acc)) \/ Waits(c, "get", token)
    BY <1>7 DEF GetToken
  <2>2. CASE token # NoToken /\ Sends(c, token.acc)
    <3>1. Sends(c, stored)
      BY <1>5, <2>2
    <3>2. task[c].attempt = 1 /\ task[c].sent[0] # 0 => stored # task[c].sent[0]
      BY <1>0, <1>3 DEF Spent, Gone
    <3> QED BY <1>0, <1>4, <3>1, <3>2, SendsMoves, SendsSpent
  <2>3. CASE Waits(c, "get", token)
    BY <1>0, <2>3, WaitsMoves, SpentStays
  <2> QED BY <1>2, <2>1, <2>2, <2>3
<1>8. ASSUME NEW c \in Callers, Rejected(c)
      PROVE  Others(c) /\ Spent(c)'
  <2>1. PICK before \in Loaded :
          Over(c) \/ (~LastAttempt(c) /\ before.ref # 0 /\ Waits(c, "renew", before))
    BY <1>8 DEF Rejected, Loaded
  <2>2. CASE ~LastAttempt(c) /\ before.ref # 0 /\ Waits(c, "renew", before)
    <3>1. task[c].attempt = 0 /\ before.acc = stored
      BY <1>0, <1>5, <2>2 DEF LastAttempt, NoToken
    <3>2. /\ Others(c) /\ task'[c].at = "waiting" /\ task'[c].purpose = "renew"
          /\ task'[c].seen.acc = stored /\ task'[c].attempt = 0 /\ task'[c].sent = task[c].sent
      BY <1>0, <2>2, <3>1, WaitsMoves
    <3>3. PICK b : b = task[c].sent[0] /\ (b # 0 => b \in 1..server.issued)
      BY FirstIssued
    <3>4. b # 0 => (Settled(b) => Settled(b)') /\ (Gone(b) => Gone(b)')
      BY <3>3, GoneStays
    <3>5. b # 0 => Settled(b) /\ (stored # b => Gone(b))
      BY <1>0, <1>3, <3>3 DEF Spent, Gone
    <3> QED BY <1>0, <3>1, <3>2, <3>3, <3>4, <3>5 DEF Spent, Settled, Gone, At
  <2> QED BY <1>2, <2>1, <2>2
<1>9. ASSUME NEW c \in Callers, Take(c)
      PROVE  Others(c) /\ Spent(c)'
  <2>1. At(c, "waiting") /\ keyring' = keyring
    BY <1>9 DEF Take
  <2>2. PICK token \in Loaded :
          \/ Over(c)
          \/ token # NoToken /\ AlreadyFresh(c, token) /\ Obtained(c, token.acc)
          \/ token.ref # 0 /\ task' = [task EXCEPT ![c].at = "asking", ![c].got = token]
    BY <1>9 DEF Take, Reloaded
  <2>3. CASE token # NoToken /\ AlreadyFresh(c, token) /\ Obtained(c, token.acc)
    <3>1. token.acc = stored /\ Obtained(c, stored) /\ Others(c)
      BY <1>0, <1>5, <2>3, ObtainedLeaves
    <3>2. CASE task[c].purpose = "get"
      <4>1. Sends(c, stored)
        BY <3>1, <3>2 DEF Obtained
      <4>2. task[c].attempt = 1 /\ task[c].sent[0] # 0 => stored # task[c].sent[0]
        BY <1>0, <1>3 DEF Spent, Gone
      <4> QED BY <1>4, <3>1, <4>1, <4>2, SendsSpent
    <3>3. CASE task[c].purpose = "renew"
      <4>1. stored # task[c].seen.acc
        BY <2>3, <3>1, <3>3 DEF AlreadyFresh
      <4>2. task[c].sent[0] # 0 => keyring'.acc # task[c].sent[0]
        BY <1>0, <1>3, <2>1, <3>3, <4>1 DEF Spent, Gone
      <4> QED BY <3>1, <3>3, <4>2, AgainSpent
    <3> QED BY <1>0, <3>2, <3>3
  <2>4. CASE token.ref # 0 /\ task' = [task EXCEPT ![c].at = "asking", ![c].got = token]
    <3>1. token \in Token
      BY <1>0, <2>4 DEF Loaded, TypeOK, NoToken
    <3> QED BY <1>0, <2>4, <3>1, AskMoves, SpentStays
  <2> QED BY <1>2, <2>2, <2>3, <2>4
<1>10. ASSUME NEW c \in Callers, NEW rotates \in BOOLEAN, Grant(c, rotates)
       PROVE  Others(c) /\ Spent(c)'
  <2>1. /\ Others(c) /\ task'[c].at = "answer" /\ task'[c].sent = task[c].sent
        /\ task'[c].attempt = task[c].attempt /\ task'[c].purpose = task[c].purpose
    BY <1>0, <1>10 DEF Grant, Others, TypeOK, Task
  <2> QED BY <2>1, SpentStays
<1>11. ASSUME NEW c \in Callers, Save(c)
       PROVE  Others(c) /\ Spent(c)'
  <2>1. PICK acc : acc = task[c].got.acc /\ Obtained(c, acc) /\ keyring'.acc = acc
    BY <1>11 DEF Save, Stored
  <2>2. /\ At(c, "answer") /\ lock = c /\ Others(c) /\ task'[c].at # "answer"
    BY <1>0, <1>11, <2>1, ObtainedLeaves DEF Save, At, LockHeld
  <2>3. Settled(acc)'
    BY <1>0, <2>2 DEF Settled, At, LockHeld, Others
  <2>4. task[c].sent[0] # 0 => acc # task[c].sent[0]
    BY <1>0, <2>1, <2>2 DEF Spent, Settled
  <2>5. CASE task[c].purpose = "get"
    <3>1. Sends(c, acc)
      BY <2>1, <2>5 DEF Obtained
    <3> QED BY <2>2, <2>3, <2>4, <3>1, SendsSpent
  <2>6. CASE task[c].purpose = "renew"
    BY <2>1, <2>2, <2>4, <2>6, AgainSpent
  <2> QED BY <1>0, <2>5, <2>6
<1>12. ASSUME task' = task
       PROVE  \A d \in Callers : Spent(d)'
  BY <1>12, SpentStays
<1> QED
  BY <1>1, <1>2, <1>6, <1>7, <1>8, <1>9, <1>10, <1>11, <1>12
     DEF Next, Served, RefreshFails, Cancel, SignIn, SignOut, Expire

-----------------------------------------------------------------------------
(* Theorems *)

\* IInv is an invariant: the whole story of a refresh, on every credential.
THEOREM IInvHolds == Spec => []IInv
<1>1. ASSUME IInv, Next PROVE IInv'
  <2>1. ~past'.lost => Unrenewed'
    BY <1>1, UnrenewedStep
  <2> QED BY <1>1, <2>1, TypeStep, LockStep, NumberedStep, SignedOutStep, StoredOnceStep, SpentStep
          DEF IInv
<1>2. ASSUME IInv, UNCHANGED vars PROVE IInv'
  BY <1>2 DEF vars, IInv, TypeOK, LockHeld, Numbered, Unrenewed, SignedOut, StoredOnce, Spent,
              Gone, Settled, At
<1>3. IInv /\ [Next]_vars => IInv'
  BY <1>1, <1>2
<1> QED BY InitIInv, <1>3, PTL DEF Spec

\* Every variable keeps the values the code can give it; a request is sent at
\* most twice (_reauth).
THEOREM TypeCorrect == Spec => []TypeOK
<1>1. IInv => TypeOK
  BY DEF IInv
<1> QED BY <1>1, IInvHolds, PTL

\* However many tasks meet the same expired or rejected token, it is refreshed
\* once, unless the answer to a refresh was lost (_refresh).
THEOREM OneRenewal == Spec => []OneRenewalEach
<1>1. IInv => OneRenewalEach
  BY DEF IInv, Unrenewed, OneRenewalEach
<1> QED BY <1>1, IInvHolds, PTL

\* The connection never locks itself out: what is stored, or about to be, can
\* be refreshed, unless an answer was lost (_refresh).
THEOREM RenewableStays == Spec => []StaysRenewable
<1>1. IInv => StaysRenewable
  BY DEF IInv, Unrenewed, StaysRenewable
<1> QED BY <1>1, IInvHolds, PTL

\* No task that was waiting to refresh brings back the token of a connection
\* the user signed out of (_refresh reloads under the lock).
THEOREM SignOutFinal == Spec => []SignOutIsFinal
<1>1. IInv => SignOutIsFinal
  BY DEF IInv, SignedOut, SignOutIsFinal
<1> QED BY <1>1, IInvHolds, PTL

\* The second attempt of a request carries another token than the first
\* (on_unauthorized, get_token).
THEOREM RetryFresh == Spec => []RetryHasNewToken
<1>1. IInv => RetryHasNewToken
  BY DEF IInv, Spent, RetryHasNewToken
<1> QED BY <1>1, IInvHolds, PTL

\* A token is renewed once, and the one repetition of a request carries another
\* one (get_token, on_unauthorized).
THEOREM RenewsOnce == Spec => []RenewedOnce
BY TypeCorrect, OneRenewal, RetryFresh, PTL DEF RenewedOnce

=============================================================================
