---------------------------- MODULE OAuthCredential ----------------------------
(***************************************************************************)
(* The OAuth credential of one connection (OAuthCredentialProvider in      *)
(* arcana/auth/provider.py) and the requests that use it: at most two      *)
(* attempts each, with a refresh between them when the first is rejected   *)
(* (_reauth in arcana/models/adapters/base.py).                            *)
(*                                                                         *)
(* The keyring is shared with the command line, which signs in and out.    *)
(* The authorization server is external: it numbers the tokens it issues,  *)
(* and a refresh may rotate the refresh token.                             *)
(***************************************************************************)
EXTENDS Integers

CONSTANTS
    Callers,     \* tasks sending requests for the connection
    Nobody,      \* holds a free lock
    MaxIssued    \* bound: tokens the server issues in a behaviour

ASSUME CredentialAssumption ==
    /\ Nobody \notin Callers
    /\ MaxIssued \in Nat \ {0}

VARIABLES
    keyring,   \* the stored token: its access and its refresh token
    server,    \* issued: tokens so far; refs: refresh tokens it accepts
    expiring,  \* access tokens that expire within REFRESH_SKEW
    lock,      \* the task holding the provider's _lock
    task,      \* task[c]: the request of c
    past       \* history: renewed, for each token; lost, out: see below

vars == <<keyring, server, expiring, lock, task, past>>

Issued == 1..MaxIssued
Zero == 0..MaxIssued

\* acc or ref 0: no such token.
Token == [acc: Zero, ref: Zero]
NoToken == [acc |-> 0, ref |-> 0]

\* purpose: the refresh serves get_token or on_unauthorized.  sent: the access
\* tokens that were put on the request, one for each attempt.
Task == [at: {"start", "waiting", "asking", "answer", "sending", "over"},
         attempt: 0..1, purpose: {"get", "renew"}, seen: Token, got: Token,
         sent: [0..1 -> Zero]]

NewTask == [at |-> "start", attempt |-> 0, purpose |-> "get", seen |-> NoToken,
            got |-> NoToken, sent |-> [i \in 0..1 |-> 0]]

Idle == [NewTask EXCEPT !.at = "over"]

\* lost: an answer of the server was not stored.  out: the user signed out
\* while no refresh was on its way, and has not signed in again.
Init ==
    /\ keyring \in {[acc |-> 1, ref |-> 1], [acc |-> 1, ref |-> 0]}
    /\ server = [issued |-> 1, refs |-> {keyring.ref} \ {0}]
    /\ expiring = {}
    /\ lock = Nobody
    /\ task = [c \in Callers |-> Idle]
    /\ past = [renewed |-> [t \in Issued |-> 0], lost |-> FALSE, out |-> FALSE]

At(c, where) == task[c].at = where

Over(c) == task' = [task EXCEPT ![c] = Idle]

\* load_token: a keyring that cannot be read looks like an empty one.
Loaded == {keyring, NoToken}

Refreshing == {c \in Callers : task[c].at \in {"asking", "answer"}}

-----------------------------------------------------------------------------
(* Bugs this code could have.  The model uses none of them: each takes the
   place of a definition below to see that a property notices. *)

\* The refresh goes ahead with the token the caller saw before it waited.
SeenAgain(c) == {task[c].seen}

\* Two refreshes at a time; a refresh that keeps the lock when it ends.
NoLock == TRUE
KeepsLock(c) == UNCHANGED lock

\* A refresh after a 401 skips a token that has not expired.
SkipsUnexpired(c, stored) == stored.acc # task[c].seen.acc \/ stored.acc \notin expiring

\* The answer is used without being stored.
NotStored(c) == UNCHANGED keyring

\* A request is retried as long as it is rejected.
NeverLast(c) == FALSE

-----------------------------------------------------------------------------
(* A request *)

Begin(c) ==
    /\ At(c, "over")
    /\ task' = [task EXCEPT ![c] = NewTask]
    /\ UNCHANGED <<keyring, server, expiring, lock, past>>

Sends(c, acc) ==
    task' = [task EXCEPT ![c].at = "sending", ![c].sent[task[c].attempt] = acc,
                         ![c].seen = NoToken, ![c].got = NoToken]

Waits(c, purpose, seen) ==
    task' = [task EXCEPT ![c].at = "waiting", ![c].purpose = purpose, ![c].seen = seen]

\* Each attempt asks the provider for a token.
GetToken(c) ==
    /\ At(c, "start")
    /\ \E token \in Loaded :
         \/ token = NoToken /\ Over(c)
         \/ token # NoToken /\ token.acc \notin expiring /\ Sends(c, token.acc)
         \/ token # NoToken /\ token.acc \in expiring /\ Waits(c, "get", token)
    /\ UNCHANGED <<keyring, server, expiring, lock, past>>

\* The request succeeds, or fails in a way that has nothing to do with the token.
Served(c) ==
    /\ At(c, "sending")
    /\ Over(c)
    /\ UNCHANGED <<keyring, server, expiring, lock, past>>

LastAttempt(c) == task[c].attempt = 1

\* A 401 or 403.
Rejected(c) ==
    /\ At(c, "sending")
    /\ \/ LastAttempt(c) /\ Over(c)
       \/ /\ ~LastAttempt(c)
          /\ \E before \in Loaded :
               \/ before.ref = 0 /\ Over(c)
               \/ before.ref # 0 /\ Waits(c, "renew", before)
    /\ UNCHANGED <<keyring, server, expiring, lock, past>>

-----------------------------------------------------------------------------
(* _refresh *)

LockFree == lock = Nobody

Release(c) == lock' = IF lock = c THEN Nobody ELSE lock

\* The refresh gave a token: get_token returns it, on_unauthorized a TRUE that
\* starts the second attempt.
Obtained(c, acc) ==
    IF task[c].purpose = "get" THEN Sends(c, acc)
    ELSE task' = [task EXCEPT ![c].at = "start", ![c].attempt = @ + 1, ![c].purpose = "get",
                              ![c].seen = NoToken, ![c].got = NoToken]

Reloaded(c) == Loaded

\* Another task has rotated the token, or it needs no refresh after all.
AlreadyFresh(c, stored) ==
    \/ stored.acc # task[c].seen.acc
    \/ task[c].purpose = "get" /\ stored.acc \notin expiring

\* The lock is taken.  It is released at once unless the server is asked.
Take(c) ==
    /\ At(c, "waiting") /\ LockFree
    /\ \E stored \in Reloaded(c) :
         \/ /\ stored = NoToken \/ (~AlreadyFresh(c, stored) /\ stored.ref = 0)
            /\ Over(c)
            /\ UNCHANGED lock
         \/ /\ stored # NoToken /\ AlreadyFresh(c, stored)
            /\ Obtained(c, stored.acc)
            /\ UNCHANGED lock
         \/ /\ stored.ref # 0 /\ ~AlreadyFresh(c, stored)
            /\ task' = [task EXCEPT ![c].at = "asking", ![c].got = stored]
            /\ lock' = c
    /\ UNCHANGED <<keyring, server, expiring, past>>

\* External: the server issues a token and may rotate the refresh token with it.
Grant(c, rotates) ==
    LET n     == server.issued + 1
        asked == task[c].got
    IN  /\ At(c, "asking")
        /\ asked.ref \in server.refs /\ n \in Issued
        /\ server' = [issued |-> n,
                      refs |-> IF rotates THEN (server.refs \ {asked.ref}) \cup {n} ELSE server.refs]
        /\ task' = [task EXCEPT ![c].at = "answer",
                                ![c].got = [acc |-> n, ref |-> IF rotates THEN n ELSE asked.ref]]
        /\ past' = [past EXCEPT !.renewed[asked.acc] = @ + 1]
        /\ UNCHANGED <<keyring, expiring, lock>>

Stored(c) == keyring' = task[c].got

\* The answer arrives, is stored and used.
Save(c) ==
    /\ At(c, "answer")
    /\ Stored(c)
    /\ Obtained(c, task[c].got.acc)
    /\ Release(c)
    /\ UNCHANGED <<server, expiring, past>>

\* The server refuses or cannot be reached, or its answer is lost or cannot be
\* stored.  get_token raises and on_unauthorized returns FALSE.
RefreshFails(c) ==
    /\ c \in Refreshing
    /\ Over(c)
    /\ Release(c)
    /\ past' = [past EXCEPT !.lost = @ \/ At(c, "answer")]
    /\ UNCHANGED <<keyring, server, expiring>>

\* The task is cancelled at an await.
Cancel(c) ==
    /\ task[c].at \in {"waiting", "asking", "answer", "sending"}
    /\ Over(c)
    /\ Release(c)
    /\ past' = [past EXCEPT !.lost = @ \/ At(c, "answer")]
    /\ UNCHANGED <<keyring, server, expiring>>

-----------------------------------------------------------------------------
(* The command line, in another process, and the clock *)

SignIn(renewable) ==
    LET n == server.issued + 1
    IN  /\ n \in Issued
        /\ keyring' = [acc |-> n, ref |-> IF renewable THEN n ELSE 0]
        /\ server' = [issued |-> n, refs |-> IF renewable THEN server.refs \cup {n} ELSE server.refs]
        /\ past' = [past EXCEPT !.out = FALSE]
        /\ UNCHANGED <<expiring, lock, task>>

\* The connection is deleted, and its credential with it.
SignOut ==
    /\ keyring' = NoToken
    /\ past' = [past EXCEPT !.out = @ \/ Refreshing = {}]
    /\ UNCHANGED <<server, expiring, lock, task>>

Expire(t) ==
    /\ t <= server.issued
    /\ expiring' = expiring \cup {t}
    /\ UNCHANGED <<keyring, server, lock, task, past>>

Next ==
    \/ \E c \in Callers : Begin(c)
    \/ \E c \in Callers : GetToken(c)
    \/ \E c \in Callers : Served(c)
    \/ \E c \in Callers : Rejected(c)
    \/ \E c \in Callers : Take(c)
    \/ \E c \in Callers, rotates \in BOOLEAN : Grant(c, rotates)
    \/ \E c \in Callers : Save(c)
    \/ \E c \in Callers : RefreshFails(c)
    \/ \E c \in Callers : Cancel(c)
    \/ \E renewable \in BOOLEAN : SignIn(renewable)
    \/ SignOut
    \/ \E t \in Issued : Expire(t)

Spec == Init /\ [][Next]_vars

\* asyncio.Lock serves its waiters in turn; requests and refreshes end within
\* the timeouts of their HTTP clients.
Fairness ==
    \A c \in Callers :
        /\ WF_vars(GetToken(c))
        /\ WF_vars(Served(c) \/ Rejected(c))
        /\ SF_vars(Take(c))
        /\ WF_vars(Save(c) \/ RefreshFails(c))

FairSpec == Spec /\ Fairness

-----------------------------------------------------------------------------
(* Properties *)

\* Every variable keeps the values the code can give it; a request is sent at
\* most twice (_reauth).
TypeOK ==
    /\ keyring \in Token
    /\ server \in [issued: Issued, refs: SUBSET Issued]
    /\ expiring \subseteq Issued
    /\ lock \in Callers \cup {Nobody}
    /\ task \in [Callers -> Task]
    /\ past \in [renewed: [Issued -> Nat], lost: BOOLEAN, out: BOOLEAN]

\* However many tasks see the same token expire or be rejected, it is refreshed
\* once, unless the answer to a refresh was lost (_refresh).
OneRenewalEach ==
    ~past.lost => \A t \in Issued : past.renewed[t] <= 1

\* The connection never locks itself out: what the keyring holds can be
\* refreshed, unless an answer was lost or one is about to be stored.  The
\* rotated token is persisted before it is used (_refresh).
StaysRenewable ==
    \/ past.lost
    \/ keyring.ref \in server.refs \cup {0}
    \/ \E c \in Callers : At(c, "answer")

\* A sign-out that meets no refresh on its way is final: no task that was
\* waiting to refresh brings the token back (_refresh reloads under the lock).
SignOutIsFinal == past.out => keyring = NoToken

\* The second attempt of a request does not repeat the token that was rejected
\* (on_unauthorized refreshes a token that has not expired, too).
RetryHasNewToken ==
    \A c \in Callers : task[c].sent[1] # 0 => task[c].sent[1] # task[c].sent[0]

\* A token is renewed once, and the one repetition of a request carries another
\* one (get_token, on_unauthorized).
RenewedOnce == TypeOK /\ OneRenewalEach /\ RetryHasNewToken

\* Every request ends: no refresh, failed or cancelled ones included, keeps the
\* others from the lock.
RequestsEnd == \A c \in Callers : At(c, "start") ~> At(c, "over")

=============================================================================
