------------------------------ MODULE WebFetch ------------------------------
(* One call of fetch_url: the check of each address before it is requested,  *)
(* the redirects walked by hand, the body read in chunks up to a cap, the    *)
(* release of each response, and the result that never is an exception.      *)
(*                                                                          *)
(* An address is one of a few kinds; where a site redirects to, how long its *)
(* body is and which call fails is the environment's choice.                 *)
EXTENDS Naturals, Sequences

CONSTANTS None,
          Refused,       \* addresses the check refuses: scheme, host, range
          Open,          \* addresses it lets through
          MaxRedirects,  \* max_redirects
          MaxBytes,      \* fetch_max_bytes
          MaxBody        \* the longest body

Urls == Refused \cup Open

(* What the constants are. *)
ConstantsFit == {MaxRedirects, MaxBytes, MaxBody} \subseteq Nat /\ None \notin {"ok", "blocked", "failed"}

VARIABLES pc, url, hop,
          sent,          \* the addresses requested so far
          held,          \* responses open
          body,          \* bytes of the body of this response
          read,          \* bytes read of it
          content,       \* bytes returned
          truncated, result

vars == <<pc, url, hop, sent, held, body, read, content, truncated, result>>

Init ==
    /\ pc = "check" /\ url \in Urls /\ hop = 0
    /\ sent = <<>> /\ held = 0 /\ body = 0 /\ read = 0
    /\ content = 0 /\ truncated = FALSE /\ result = None

Over(r) == pc' = "over" /\ result' = r

(* Mutant: only the first address is checked. *)
OnlyFirst == hop = 0 => url \in Open

(* check_url: the scheme, the host, and every address the name resolves to. *)
Allowed == url \in Open

Check ==
    /\ pc = "check"
    /\ IF Allowed THEN pc' = "send" /\ UNCHANGED result ELSE Over("blocked")
    /\ UNCHANGED <<url, hop, sent, held, body, read, content, truncated>>

Send ==
    /\ pc = "send"
    /\ sent' = Append(sent, url)
    /\ \/ /\ held' = held + 1 /\ pc' = "head"
          /\ body' \in 0..MaxBody /\ read' = 0 /\ UNCHANGED result
       \/ Over("failed") /\ UNCHANGED <<held, body, read>>
    /\ UNCHANGED <<url, hop, content, truncated>>

(* Mutants: responses stay open; one hop too many; the whole of the last     *)
(* chunk is returned. *)
CloseNothing == UNCHANGED held
HopsOneMore == MaxRedirects + 1
WholeChunk(n) == n

Close == held' = held - 1
MaxHops == MaxRedirects
Cut(n) == IF n > MaxBytes THEN MaxBytes ELSE n

(* A 3xx with a Location; the finally closes before the next turn. *)
Redirect ==
    /\ pc = "head"
    /\ Close
    /\ \E u \in Urls : url' = u
    /\ hop' = hop + 1
    /\ IF hop < MaxHops THEN pc' = "check" /\ UNCHANGED result ELSE Over("blocked")
    /\ UNCHANGED <<sent, body, read, content, truncated>>
Terminal ==
    /\ pc = "head" /\ pc' = "body"
    /\ UNCHANGED <<url, hop, sent, held, body, read, content, truncated, result>>

Returned(n, cut) ==
    /\ content' = n /\ truncated' = cut
    /\ Close /\ Over("ok")

(* Mutant: the end of the cap is taken for the end of the body. *)
ReachedUnflagged(n) == Returned(Cut(n), FALSE)

(* _read_capped stops at the cap. *)
Reached(n) == Returned(Cut(n), TRUE)

(* A chunk of one or two bytes. *)
Chunk ==
    /\ pc = "body" /\ read < body
    /\ \E n \in 1..2 :
          /\ read + n <= body /\ read' = read + n
          /\ IF read' >= MaxBytes
             THEN Reached(read')
             ELSE UNCHANGED <<pc, held, content, truncated, result>>
    /\ UNCHANGED <<url, hop, sent, body>>
EndOfBody ==
    /\ pc = "body" /\ read = body
    /\ Returned(read, FALSE)
    /\ UNCHANGED <<url, hop, sent, body, read>>
(* A read that fails, or a call that is cancelled. *)
Broken ==
    /\ pc \in {"head", "body"}
    /\ Close /\ Over("failed")
    /\ UNCHANGED <<url, hop, sent, body, read, content, truncated>>

Next == Check \/ Send \/ Redirect \/ Terminal \/ Chunk \/ EndOfBody \/ Broken
Spec == Init /\ [][Next]_vars

\* The call has returned.
Resting == pc = "over"

-----------------------------------------------------------------------------
(* Types of the state. *)
TypeOK ==
    /\ pc \in {"check", "send", "head", "body", "over"}
    /\ url \in Urls /\ hop \in 0..(MaxRedirects + 1)
    /\ sent \in Seq(Urls) /\ held \in 0..1
    /\ body \in 0..MaxBody /\ read \in 0..body
    /\ content \in 0..MaxBytes /\ truncated \in BOOLEAN
    /\ result \in {None, "ok", "blocked", "failed"}

(* Nothing is requested that the check refuses, at whichever hop. *)
OnlyChecked == \A i \in DOMAIN sent : sent[i] \in Open

(* The walk ends: no more requests than the redirects allowed and the first. *)
WalkEnds == Len(sent) <= MaxRedirects + 1

(* A call that is over holds no response open, whether it followed it, read  *)
(* it, cut it short or failed on it. *)
Released == pc = "over" => held = 0

(* What is returned without the flag is the whole body. *)
WholeUnlessTold == (result = "ok" /\ ~truncated) => content = body

(* All of it, of one call. *)
FetchHolds == TypeOK /\ OnlyChecked /\ WalkEnds /\ Released /\ WholeUnlessTold

(* The flag says that something was cut off. *)
ToldMeansCut == truncated => content < body
=============================================================================
