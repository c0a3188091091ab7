--------------------------- MODULE ModelAdapters ---------------------------
(* One call of a provider adapter by the model gateway, complete() or        *)
(* stream(): the credential, the request, the provider's answer or error,    *)
(* the one reactive refresh, the translation of the error and the release of *)
(* the response.  Four adapters share the control: the two over a vendor's   *)
(* client library ("anthropic", "openai"), the two over httpx ("ollama",     *)
(* "custom").                                                                *)
(*                                                                          *)
(* The client libraries are the environment: they raise one connection error *)
(* for what httpx could not send, of which their timeout is a subclass, and  *)
(* pass httpx's own errors on while a stream is read.                        *)
EXTENDS Naturals, Sequences

CONSTANTS Kinds,     \* adapters of this run
          Creds,     \* credentials of this run: "none", "key", "oauth"
          MaxText,   \* chunks of a reply
          Drops      \* a connection may be lost under a request

VARIABLES kind, creds, streaming,   \* the adapter and the call
          pc, attempt,
          cred,                     \* version of the stored credential
          tokens,                   \* the version sent with each request
          conn,                     \* the response held open by stream()
          text,                     \* chunks handed on, by attempt
          ended,                    \* the provider said that its reply is complete
          cause, outcome

vars == <<kind, creds, streaming, pc, attempt, cred, tokens, conn, text, ended, cause, outcome>>
call == <<kind, creds, streaming>>

(* What the constants are. *)
ConstantsFit ==
    /\ Kinds \subseteq {"anthropic", "openai", "ollama", "custom"} /\ Creds \subseteq {"none", "key", "oauth"}
    /\ MaxText \in Nat \ {0} /\ Drops \in BOOLEAN

Library == {"anthropic", "openai"}
Status == {"unauthorized", "forbidden", "missing", "rejected", "limited", "failing"}
Lost == {"timeout", "reset"}        \* under a request
Torn == {"stalled", "dropped"}      \* while a stream is read
Retryable == {"refused", "limited", "failing"} \cup Lost \cup Torn
Causes == Status \cup Lost \cup Torn \cup {"none", "refused", "garbled", "told", "cut", "signed_out"}
Errors == {"Unavailable", "Transient", "Auth", "NotFound", "BadRequest", "raw"}

Init ==
    /\ kind \in Kinds /\ creds \in (IF kind = "ollama" THEN {"none"} ELSE Creds)
    /\ streaming \in BOOLEAN
    /\ pc = "token" /\ attempt = 0 /\ cred = 0 /\ tokens = <<>>
    /\ conn = "none" /\ text = <<>> /\ ended = FALSE
    /\ cause = "none" /\ outcome = "none"

-----------------------------------------------------------------------------
(* Mutant: the 5xx are not translated. *)
FailingRaw(c) ==
    CASE c \in {"unauthorized", "forbidden"} -> "Auth"
      [] c = "missing" -> "NotFound"
      [] c = "rejected" -> "BadRequest"
      [] c = "limited" -> "Transient"
      [] OTHER -> "raw"

OfStatus(c) ==
    CASE c \in {"unauthorized", "forbidden"} -> IF kind = "ollama" THEN "raw" ELSE "Auth"
      [] c = "missing" -> "NotFound"
      [] c = "rejected" -> "BadRequest"
      [] OTHER -> "Transient"

(* Mutant: the broader class is asked for first, as the libraries nest them. *)
TimeoutIsUnavailable(c) ==
    IF c \in Status THEN OfStatus(c)
    ELSE IF c \in {"refused", "timeout", "reset"} THEN "Unavailable" ELSE "raw"

(* _translate.  The library adapters ask for the connection error before its *)
(* subclass the timeout; a read error under httpx is no ConnectError, no     *)
(* TimeoutException and no HTTPStatusError.                                  *)
Translate(c) ==
    IF c \in Status THEN OfStatus(c)
    ELSE IF kind \in Library
         THEN IF c \in {"refused", "timeout", "reset"} THEN "Unavailable" ELSE "raw"
         ELSE CASE c = "refused" -> "Unavailable"
                [] c \in {"timeout", "stalled"} -> "Transient"
                [] OTHER -> "raw"

(* An error a refresh may help: _reauth but for its `attempt`, and, for a     *)
(* stream, `not started`.  Mutant of MayReauth. *)
MayHelp(c) == text = <<>> /\ creds # "none" /\ Translate(c) = "Auth"
MayReauth(c) == attempt = 0 /\ MayHelp(c)

Over(how) == pc' = "over" /\ outcome' = how

(* Mutant: the response is left to the collector. *)
NoClose == UNCHANGED conn

(* The async with around the response, or the finally of the openai adapter. *)
Close == conn' = IF conn = "open" THEN "closed" ELSE conn

Fail(c) ==
    /\ cause' = c /\ Close
    /\ IF MayReauth(c) THEN pc' = "reauth" /\ UNCHANGED outcome ELSE Over(Translate(c))

-----------------------------------------------------------------------------
(* Mutant: the header is built once, before the loop. *)
SendFirst ==
    /\ pc = "token"
    /\ tokens' = Append(tokens, IF tokens = <<>> THEN cred ELSE tokens[1])
    /\ pc' = "sent" /\ UNCHANGED <<call, attempt, cred, conn, text, ended, cause, outcome>>

(* _auth_headers, and the request with its answer outstanding. *)
Send ==
    /\ pc = "token"
    /\ tokens' = Append(tokens, cred)
    /\ pc' = "sent" /\ UNCHANGED <<call, attempt, cred, conn, text, ended, cause, outcome>>
(* get_token raises before the try: nothing is stored, or no refresh is left. *)
SignedOut ==
    /\ pc = "token" /\ creds # "none"
    /\ cause' = "signed_out" /\ Over("raw")
    /\ UNCHANGED <<call, attempt, cred, tokens, conn, text, ended>>

Unanswered ==
    /\ pc = "sent"
    /\ \E c \in {"refused", "timeout"} \cup (IF Drops THEN {"reset"} ELSE {}) : Fail(c)
    /\ UNCHANGED <<call, attempt, cred, tokens, text, ended>>
(* An error status.  A provider takes a credential that was just refreshed   *)
(* no more surely than the first. *)
Refused ==
    /\ pc = "sent" /\ \E c \in Status : Fail(c)
    /\ UNCHANGED <<call, attempt, cred, tokens, text, ended>>
(* complete(): the body is read with the request and parsed after the try,   *)
(* where a body that is no JSON raises what json raises. *)
Answered ==
    /\ pc = "sent" /\ ~streaming
    /\ text' = <<attempt>> /\ ended' = TRUE /\ Over("done")
    /\ UNCHANGED <<call, attempt, cred, tokens, conn, cause>>
Garbled ==
    /\ pc = "sent" /\ ~streaming
    /\ cause' = "garbled" /\ Over("raw")
    /\ UNCHANGED <<call, attempt, cred, tokens, conn, text, ended>>

Opened ==
    /\ pc = "sent" /\ streaming
    /\ conn' = "open" /\ pc' = "reading"
    /\ UNCHANGED <<call, attempt, cred, tokens, text, ended, cause, outcome>>
Chunk ==
    /\ pc = "reading" /\ Len(text) < MaxText
    /\ text' = Append(text, attempt)
    /\ UNCHANGED <<call, attempt, pc, cred, tokens, conn, ended, cause, outcome>>
(* The last event of the provider, and the usage chunk. *)
Complete ==
    /\ pc = "reading"
    /\ ended' = TRUE /\ Close /\ Over("done")
    /\ UNCHANGED <<call, attempt, cred, tokens, text, cause>>
Break ==
    /\ pc = "reading" /\ Drops /\ \E c \in Torn : Fail(c)
    /\ UNCHANGED <<call, attempt, cred, tokens, text, ended>>

(* The provider sends an error in the stream and ends it.  The libraries     *)
(* raise; the ollama adapter finds no message in the line and the custom     *)
(* adapter no choices, and the stream ends as a whole one does. *)
OnTold(c) ==
    IF kind \in Library THEN Fail(c)
    ELSE cause' = c /\ Close /\ Over("done")
Told ==
    /\ pc = "reading" /\ OnTold("told")
    /\ UNCHANGED <<call, attempt, cred, tokens, text, ended>>

(* The body ends early and in order, as behind a proxy that closes it: the   *)
(* iteration ends, and no adapter asks whether the last event was there. *)
CutShort ==
    /\ pc = "reading" /\ Drops
    /\ cause' = "cut" /\ Close /\ Over("done")
    /\ UNCHANGED <<call, attempt, cred, tokens, text, ended>>

(* The consumer stops reading, or is cancelled, at the yield: the generator  *)
(* is closed. *)
Abandon ==
    /\ pc = "reading"
    /\ Close /\ Over("abandoned")
    /\ UNCHANGED <<call, attempt, cred, tokens, text, ended, cause>>

(* on_unauthorized: a static key never changes; a refresh may fail.  The     *)
(* loop has two turns: a third `continue` leaves it, and complete() asserts  *)
(* while stream() returns. *)
Reauth ==
    /\ pc = "reauth"
    /\ \/ /\ creds = "oauth"
          /\ cred' = cred + 1
          /\ IF attempt = 0
             THEN attempt' = 1 /\ pc' = "token" /\ UNCHANGED outcome
             ELSE UNCHANGED attempt /\ Over(IF streaming THEN "done" ELSE "raw")
       \/ Over(Translate(cause)) /\ UNCHANGED <<attempt, cred>>
    /\ UNCHANGED <<call, tokens, conn, text, ended, cause>>

Next ==
    \/ Send \/ SignedOut \/ Unanswered \/ Refused \/ Answered \/ Garbled
    \/ Opened \/ Chunk \/ Complete \/ Break \/ Told \/ CutShort \/ Abandon \/ Reauth
Spec == Init /\ [][Next]_vars

\* The call has returned.
Resting == pc = "over"

-----------------------------------------------------------------------------
(* Types of the state. *)
TypeOK ==
    /\ kind \in Kinds /\ creds \in {"none", "key", "oauth"} /\ streaming \in BOOLEAN
    /\ pc \in {"token", "sent", "reading", "reauth", "over"}
    /\ attempt \in 0..1 /\ cred \in 0..1
    /\ tokens \in Seq(0..1) /\ Len(tokens) \in 0..2
    /\ conn \in {"none", "open", "closed"}
    /\ text \in Seq(0..1) /\ Len(text) <= MaxText
    /\ ended \in BOOLEAN /\ cause \in Causes
    /\ outcome \in Errors \cup {"none", "done", "abandoned"}

(* A call that ended has given its response back, however it ended: with a   *)
(* reply, an error, or a consumer that stopped reading. *)
Released == pc = "over" => conn # "open"

(* The second request carries the refreshed credential, not the one the      *)
(* provider has just turned down. *)
RetryIsFresh == Len(tokens) = 2 => tokens[2] # tokens[1]

(* A stream that ends as if complete was completed by the provider: the      *)
(* gateway says that mid-stream failures are surfaced.  No adapter keeps it: *)
(* a body that ends early and in order is a reply to all of them. *)
WholeReply == outcome = "done" => ended

(* What is left of it: no error that the gateway was given ends a reply as   *)
(* if it were whole, neither a torn stream, nor a credential turned down a   *)
(* second time, nor, over a library, an error told in the stream. *)
ErrorsSurface ==
    outcome = "done" /\ ~ended => cause \in (IF kind \in Library THEN {"cut"} ELSE {"cut", "told"})

(* A server that answers too slowly is not taken for one that is not there:  *)
(* only the latter opens the cooldown of the connection. *)
SlowIsNotDown == cause = "timeout" => outcome # "Unavailable"

(* What the taxonomy calls retryable reaches the gateway as one of its own   *)
(* errors, so that it is retried, as long as nothing was handed on. *)
RetryableIsRetried ==
    (pc = "over" /\ cause \in Retryable /\ text = <<>>) => outcome \in {"Transient", "Unavailable"}

(* All of it, as far as the adapter keeps it: those over a library take a    *)
(* timeout for a connection error, and none translates all of a lost         *)
(* connection, nor misses the end of a body that is cut.                     *)
CallHolds ==
    /\ TypeOK /\ Released /\ RetryIsFresh /\ ErrorsSurface
    /\ kind \notin Library => SlowIsNotDown
    /\ ~Drops => RetryableIsRetried
=============================================================================
