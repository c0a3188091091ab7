--------------------------- MODULE MCModelGateway ---------------------------
(***************************************************************************)
(* Two connections, so that a close has several adapters to walk over      *)
(* while a call connects another one.  To bound the instance, the calls of *)
(* one of them are only health checks, and only one caller streams.        *)
(***************************************************************************)
EXTENDS ModelGateway

CONSTANTS CheckedOnly,   \* the connections that are only checked
          Streamers      \* the callers that may stream

\* A call that begins is one the bound allows.
CallsAllowed ==
    \A c \in Callers :
        task[c].at # "locking" /\ task'[c].at = "locking" =>
            /\ task'[c].key \in CheckedOnly => task'[c].kind = "health"
            /\ task'[c].kind = "stream" => c \in Streamers
=============================================================================
