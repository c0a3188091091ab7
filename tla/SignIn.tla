------------------------------- MODULE SignIn -------------------------------
(***************************************************************************)
(* One OAuth sign-in (arcana/auth/oauth.py under arcana_cli/_oauth.py): the *)
(* client finds the server, registers itself, and then either listens on   *)
(* the loopback for the browser's redirect and exchanges the code it        *)
(* carries, or polls for a device code the user approves elsewhere.  The    *)
(* browser may open connections it never uses, and another sign-in's        *)
(* redirect may reach the port.                                             *)
(***************************************************************************)
EXTENDS Naturals

CONSTANTS Grants,                            \* the flows that are run: "code", "device"
          Browser,                           \* what the browser does besides: "idle", "stale"
          Pkce,                              \* the server checks the verifier of a code
          WaitsForIdle,                      \* wait_closed waits for open connections (Python 3.12; 3.11 does not)
          MaxIdle, Expiries, Asks,           \* unused connections; what the server says of a device code
          Ceiling, Default, Floor, Slower,   \* device_timeout_s, device_poll_interval_s, _MIN_DEVICE_POLL_S, +5.0
          Delay,                             \* the longest a poll's answer takes (http_timeout_s)
          None

VARIABLES at,      \* where the client is
          grant,   \* the flow it runs
          why,     \* how it ended
          got,     \* whose approval the token it got stands for
          future,  \* the query of the first connection to the listener
          idle,    \* the browser's connections that have sent nothing
          asked,   \* what the user did with this request: unseen, approved, denied
          foreign, \* another sign-in's redirect reached the listener
          clock,   \* the time, which matters to the device grant only
          dev      \* the poll loop

vars == <<at, grant, why, got, future, idle, asked, foreign, clock, dev>>
listener == <<future, idle, foreign>>
timer == <<clock, dev>>

\* What the constants are.
ConstantsFit ==
  /\ Grants \subseteq {"code", "device"} /\ Browser \subseteq {"idle", "stale"} /\ {Pkce, WaitsForIdle} \subseteq BOOLEAN
  /\ MaxIdle \in Nat /\ Expiries \subseteq Nat /\ Asks \subseteq Nat
  /\ {Ceiling, Default, Floor, Slower, Delay} \subseteq Nat
  /\ None \notin Nat \cup {"network", "timeout", "denied", "mismatch", "own", "old", "empty"}

Larger(a, b) == IF a > b THEN a ELSE b
Smaller(a, b) == IF a < b THEN a ELSE b

Queries == {"own", "old", "denied", "empty"}
NoDevice == [interval |-> 0, demanded |-> 0, wake |-> 0, deadline |-> 0, polled |-> 0, reply |-> None, approved |-> None]
Ended == {"done", "failed"}
\* Bound: no answer is outstanding after this.
Horizon == Ceiling + Default + 2 * Slower + Delay

Init == /\ at = "discover" /\ grant \in Grants
        /\ why = None /\ got = None
        /\ future = None /\ idle = 0 /\ asked = "unseen" /\ foreign = FALSE
        /\ clock = 0 /\ dev = NoDevice

Fail(reason) == /\ at' = "failed" /\ why' = reason
                /\ UNCHANGED <<grant, got, asked>>

\* discover_auth_server, register_client, _exchange_code and the device request may fail, and fail closed.
NetworkFails == /\ at \in {"discover", "register", "exchange", "notify"}
                /\ Fail("network")
                /\ UNCHANGED <<listener, timer>>

Discover == /\ at = "discover" /\ at' = "register"
            /\ UNCHANGED <<grant, why, got, asked, listener, timer>>

Register == /\ at = "register" /\ at' = IF grant = "code" THEN "listen" ELSE "notify"
            /\ UNCHANGED <<grant, why, got, asked, listener, timer>>

-----------------------------------------------------------------------------
\* The loopback flow.
Listening == at \in {"listen", "close"}

\* The listener's future takes the first result and ignores the others.
Deliver(q) == future' = IF future = None THEN q ELSE future

UserDecides == /\ grant = "code" /\ at = "listen" /\ asked = "unseen"
               /\ asked' \in {"approved", "denied"}
               /\ UNCHANGED <<at, grant, why, got, listener, timer>>

\* The browser follows the server's redirect to the listener.
Redirect == /\ Listening /\ asked \in {"approved", "denied"}
            /\ Deliver(IF asked = "approved" THEN "own" ELSE "denied")
            /\ UNCHANGED <<at, grant, why, got, asked, idle, foreign, timer>>

\* The redirect of an earlier sign-in reaches a listener that was given the same port.
StaleRedirect == /\ "stale" \in Browser /\ Listening /\ ~foreign
                 /\ foreign' = TRUE
                 /\ Deliver("old")
                 /\ UNCHANGED <<at, grant, why, got, asked, idle, timer>>

Preconnect == /\ "idle" \in Browser /\ at = "listen" /\ idle < MaxIdle
              /\ idle' = idle + 1
              /\ UNCHANGED <<at, grant, why, got, asked, future, foreign, timer>>

\* A connection that is closed unused has an empty request line, whose query is {}: it is delivered too.
Disconnect == /\ idle > 0
              /\ idle' = idle - 1
              /\ IF Listening THEN Deliver("empty") ELSE UNCHANGED future
              /\ UNCHANGED <<at, grant, why, got, asked, foreign, timer>>

\* wait: the future is set or the time is up; either way the listener is closed first.
Wait == /\ at = "listen"
        /\ at' = "close"
        /\ why' = IF future = None THEN "timeout" ELSE None
        /\ UNCHANGED <<grant, got, asked, listener, timer>>

\* MUTANT of Closed: the server is closed once its callback has been answered.
Answered == future # None

\* The context manager closes the server and waits for its connections.
Closed == WaitsForIdle => idle = 0

\* MUTANT of Accepted: the code of whatever callback came.
AnyCode(q) == q \in {"own", "old"}

\* authorize_code looks at the error, then at the state, then at the code.
Accepted(q) == q = "own"

Close == /\ at = "close" /\ Closed
         /\ \/ why = "timeout" /\ Fail("timeout")
            \/ why = None /\ future = "denied" /\ Fail("denied")
            \/ why = None /\ future # "denied" /\ ~Accepted(future) /\ Fail("mismatch")
            \/ /\ why = None /\ Accepted(future)
               /\ at' = "exchange"
               /\ UNCHANGED <<grant, why, got, asked>>
         /\ UNCHANGED <<listener, timer>>

\* The server gives a token for the code, if it is the one its challenge was for or it does not look.
Exchange == /\ at = "exchange"
            /\ future = "old" => ~Pkce
            /\ at' = "done" /\ got' = future
            /\ UNCHANGED <<grant, why, asked, listener, timer>>

-----------------------------------------------------------------------------
\* The device flow.
\* MUTANT of FirstInterval: the configured interval, whatever the server asks for.
OwnInterval(ask) == Default

\* MUTANT of FirstInterval: as often as the server allows.
NoFloor(ask) == IF ask = 0 THEN Default ELSE ask

FirstInterval(ask) == Larger(IF ask = 0 THEN Default ELSE ask, Floor)

Notify == /\ at = "notify"
          /\ \E expires \in Expiries, ask \in Asks :
               dev' = [NoDevice EXCEPT !.interval = FirstInterval(ask), !.demanded = ask, !.polled = clock,
                                       !.deadline = clock + Smaller(expires, Ceiling), !.wake = clock + FirstInterval(ask)]
          /\ at' = "sleep"
          /\ UNCHANGED <<grant, why, got, asked, listener, clock>>

\* The user approves or denies on another device.
Decide == /\ grant = "device" /\ at \in {"sleep", "poll"} /\ asked = "unseen"
          /\ asked' \in {"approved", "denied"}
          /\ dev' = [dev EXCEPT !.approved = IF asked' = "approved" THEN clock ELSE None]
          /\ UNCHANGED <<at, grant, why, got, listener, clock>>

\* The server answers the poll as it sees the request now; slow_down is a pending request.  What
\* was decided may still be refused: the code has expired on the server's clock, or is used up.
Poll == /\ at = "sleep" /\ clock >= dev.wake
        /\ \E r \in CASE asked = "approved" -> {"token", "expired_token", "access_denied"}
                      [] asked = "denied"   -> {"access_denied", "expired_token"}
                      [] asked = "unseen"   -> {"authorization_pending", "slow_down", "expired_token"} :
             dev' = [dev EXCEPT !.reply = r, !.polled = clock,
                                !.demanded = IF r = "slow_down" THEN Larger(@, dev.interval) + Slower ELSE @]
        /\ at' = "poll"
        /\ UNCHANGED <<grant, why, got, asked, listener, clock>>

\* MUTANT of Again: the next poll must also be before the deadline.
InTime(d) == clock + d.interval < d.deadline

\* The loop's condition, before the sleep.
Again(d) == clock < d.deadline

Answer ==
  /\ at = "poll"
  /\ LET pending == dev.reply \in {"authorization_pending", "slow_down"}
         next == [dev EXCEPT !.reply = None, !.interval = IF dev.reply = "slow_down" THEN @ + Slower ELSE @]
     IN \/ /\ dev.reply = "token"
           /\ at' = "done" /\ got' = "own" /\ dev' = [dev EXCEPT !.reply = None]
           /\ UNCHANGED <<grant, why, asked>>
        \/ /\ pending /\ Again(dev)
           /\ at' = "sleep" /\ dev' = [next EXCEPT !.wake = clock + next.interval]
           /\ UNCHANGED <<grant, why, got, asked>>
        \/ pending /\ ~Again(dev) /\ dev' = next /\ Fail("timeout")
        \/ ~pending /\ dev.reply # "token" /\ dev' = [dev EXCEPT !.reply = None] /\ Fail("denied")
  /\ UNCHANGED <<listener, clock>>

\* A poll that raises (httpx: no answer within its timeout) ends the sign-in.
PollFails == /\ at = "poll" /\ dev' = [dev EXCEPT !.reply = None]
             /\ Fail("network")
             /\ UNCHANGED <<listener, clock>>

\* A sleeper wakes when its time is up; an answer is there after Delay.
Tick == /\ \/ at = "sleep" /\ clock < dev.wake
           \/ at = "poll" /\ clock < dev.polled + Delay
        /\ clock < Horizon
        /\ clock' = clock + 1
        /\ UNCHANGED <<at, grant, why, got, asked, listener, dev>>

-----------------------------------------------------------------------------
Client == \/ NetworkFails \/ Discover \/ Register \/ Wait \/ Close \/ Exchange
          \/ Notify \/ Poll \/ Answer \/ PollFails \/ Tick
World == UserDecides \/ Redirect \/ StaleRedirect \/ Preconnect \/ Disconnect \/ Decide
Next == Client \/ World

Spec == Init /\ [][Next]_vars
\* The event loop runs the client and its timers fire; nothing is assumed of the user, the browser or the server.
FairSpec == Spec /\ WF_vars(Client)

-----------------------------------------------------------------------------
\* Every variable has its type; a token is there exactly at a successful end, and no poll interval is below the floor.
TypeOK == /\ at \in {"discover", "register", "listen", "close", "exchange", "notify", "sleep", "poll"} \cup Ended
          /\ grant \in Grants /\ asked \in {"unseen", "approved", "denied"}
          /\ why \in {None, "network", "timeout", "denied", "mismatch"}
          /\ got \in {None, "own", "old"} /\ future \in Queries \cup {None}
          /\ idle \in 0..MaxIdle /\ foreign \in BOOLEAN /\ clock \in 0..Horizon
          /\ dev.interval \in Nat /\ dev.demanded \in Nat
          /\ (at = "done") <=> (got # None)
          /\ at \in {"sleep", "poll"} => dev.interval >= Floor /\ grant = "device"

\* A sign-in that succeeds stands for the approval of this very request: the
\* redirect of another sign-in that reaches the listener, first or later, is
\* never exchanged, also when the server does not check PKCE (authorize_code).
OwnApproval == at = "done" => got = "own" /\ asked = "approved"

\* The device grant says that it timed out before the user approved only if
\* that is so: an approval that is earlier than the deadline by more than the
\* time an answer takes is always heard, whatever the interval has grown to
\* (_poll_device_token looks at the clock before it sleeps, not after).
ApprovalHeard ==
  grant = "device" /\ why = "timeout" /\ dev.approved # None => dev.approved + Delay >= dev.deadline

\* All of it, of one sign-in.
SignInHolds == TypeOK /\ OwnApproval /\ ApprovalHeard

\* Two polls are never closer than the server asked for, and each slow_down
\* makes them rarer: what the client sleeps is at least what was demanded.
PollsSpaced == at = "sleep" /\ at' = "poll" => clock - dev.polled >= dev.demanded

\* "state mismatch - request rejected" is what the user is told when the
\* callback was another request's.
MismatchMeansForeign == why = "mismatch" => foreign

\* Every sign-in ends: the listener, the device loop and each request have a
\* time limit ("A stalled login must not hang the CLI forever", auth/config.py).
\* So it is where the listener closes at once; where it waits for its
\* connections, a sign-in ends unless the browser holds one of them open.
IsOver == at \in Ended
SignInEnds == <>IsOver
Held == WaitsForIdle /\ at = "close" /\ idle > 0
=============================================================================
