---------------------------- MODULE WireMessages ----------------------------
(* The conversation of one session as its agent keeps it, and the messages   *)
(* of a request as each kind of adapter writes them: Anthropic's, where the  *)
(* results of a round of tool calls are blocks of one user turn, and the     *)
(* OpenAI form, where each is a turn of its own.                             *)
(*                                                                           *)
(* A text is the number of the message it was said in, 0 when it is empty.   *)
EXTENDS Naturals, Sequences

CONSTANTS Turns,       \* MAX_HISTORY_TURNS
          Rounds,      \* rounds of tool calls an agent may take in one run
          Slots,       \* calls in one round
          Naming,      \* "own": the provider names its calls; "position": Ollama's adapter does
          MaxSaid      \* bound on the messages of the model

VARIABLES transcript,  \* session.messages
          history,     \* the messages of the request under way
          rounds,      \* rounds taken in this run
          said,        \* messages numbered so far
          busy         \* a run is under way, its next request about to be sent

vars == <<transcript, history, rounds, said, busy>>

\* What the constants are.
ConstantsFit ==
    {Turns, Rounds} \subseteq Nat \ {0} /\ {Slots, MaxSaid} \subseteq Nat /\ Naming \in {"own", "position"}

Turn(role, text) == [role |-> role, text |-> text, calls |-> <<>>, link |-> <<>>]
Empty(text) == text = 0

Init == transcript = <<>> /\ history = <<>> /\ rounds = 0 /\ said = 0 /\ busy = FALSE

-----------------------------------------------------------------------------
(* Bugs this code could have.  Each takes the place of a definition below. *)
OldestFirst(s) == SubSeq(s, 1, IF Len(s) < 2 * Turns THEN Len(s) ELSE 2 * Turns)
Unordered(calls) == [k \in DOMAIN calls |-> [Turn("tool", said + 1) EXCEPT !.link = calls[Len(calls) + 1 - k]]]
OneMore == rounds < Rounds
NoText(m) == 0
-----------------------------------------------------------------------------

(* The newest messages, an even number of them. *)
Window(s) == SubSeq(s, IF Len(s) > 2 * Turns THEN Len(s) - 2 * Turns + 1 ELSE 1, Len(s))

(* Agent.run and Agent.stream: the prompt joins the session, whose user and  *)
(* assistant texts are replayed. *)
Ask ==
    /\ ~busy /\ said < MaxSaid
    /\ said' = said + 1
    /\ transcript' = Append(transcript, Turn("user", said'))
    /\ history' = Window(transcript')
    /\ rounds' = 0 /\ busy' = TRUE

(* A complete reply, or what a stream had sent when it broke: possibly none. *)
Reply ==
    /\ busy /\ said < MaxSaid
    /\ said' = said + 1
    /\ \E text \in {0, said'} : transcript' = Append(transcript, Turn("assistant", text))
    /\ busy' = FALSE /\ rounds' = 0 /\ history' = <<>>

(* A failed completion of run leaves the prompt unanswered. *)
Fail ==
    /\ busy
    /\ busy' = FALSE /\ rounds' = 0 /\ history' = <<>>
    /\ UNCHANGED <<transcript, said>>

(* Some providers name each call; for Ollama and for an endpoint that gives  *)
(* no id, the adapter takes the place in the answer. *)
CallName(k) == IF Naming = "own" THEN <<said, k>> ELSE <<0, k>>

(* _tool_result_message for each call, in the order of the calls. *)
Results(calls) == [k \in DOMAIN calls |-> [Turn("tool", said + 1) EXCEPT !.link = calls[k]]]

(* The last round allowed is not run: its results could never be sent. *)
MayRound == rounds + 1 < Rounds

(* The tool calls of an answer and all their results join the history, never *)
(* the session. *)
Round ==
    /\ busy /\ MayRound /\ said + 2 <= MaxSaid
    /\ rounds' = rounds + 1 /\ said' = said + 2
    /\ \E n \in 1..Slots, text \in {0, said + 2} :
           LET calls == [k \in 1..n |-> CallName(k)]
           IN  history' = history \o <<[Turn("assistant", text) EXCEPT !.calls = calls]>> \o Results(calls)
    /\ UNCHANGED <<transcript, busy>>

Next == Ask \/ Reply \/ Fail \/ Round
Spec == Init /\ [][Next]_vars

\* No run is under way.
Resting == ~busy

-----------------------------------------------------------------------------
(* AnthropicAdapter._build_messages: results wait until the next turn that   *)
(* is no result, or the end. *)
Message(role, text, uses, results) == [role |-> role, text |-> text, uses |-> uses, results |-> results]

(* A text block of a turn that also calls tools, if there is a text. *)
Spoken(m) == m.text

Flushed(state) ==
    IF state.pending = <<>> THEN state.done
    ELSE Append(state.done, Message("user", 0, <<>>, state.pending))

Place(state, m) ==
    IF m.role = "tool" THEN [state EXCEPT !.pending = Append(@, [link |-> m.link, text |-> m.text])]
    ELSE [done |-> Append(Flushed(state), Message(m.role, Spoken(m), m.calls, <<>>)), pending |-> <<>>]

(* The loop over the turns, after each of them. *)
Built(h) ==
    LET upto[n \in 0 .. Len(h)] ==
            IF n = 0 THEN [done |-> <<>>, pending |-> <<>>] ELSE Place(upto[n - 1], h[n])
    IN  upto

Anthropic(h) == Flushed(Built(h)[Len(h)])

(* _to_openai_message, _to_openai_like_message and _to_ollama_message: turn  *)
(* by turn.  Ollama's form has no link to a call, only the tool's name: its  *)
(* results are told apart by their places, which AnsweredInTurn is about.    *)
OpenAI(h) ==
    [i \in DOMAIN h |->
        [role |-> h[i].role, text |-> h[i].text, calls |-> h[i].calls,
         link |-> IF h[i].role = "tool" THEN h[i].link ELSE <<>>]]

-----------------------------------------------------------------------------
(* Types of the state; of a session's messages only texts are kept. *)
TypeOK ==
    /\ said \in 0..MaxSaid /\ rounds \in 0 .. Rounds - 1 /\ busy \in BOOLEAN
    /\ \A i \in DOMAIN transcript : transcript[i].role \in {"user", "assistant"} /\ transcript[i].calls = <<>>
    /\ \A i \in DOMAIN history : history[i].role \in {"user", "assistant", "tool"} /\ history[i].text <= said

Links(results) == [k \in DOMAIN results |-> results[k].link]

(* Each call is answered by the message in its place after it... *)
CallsAnswered(a) ==
    \A i \in DOMAIN a :
        /\ a[i].uses # <<>> => i < Len(a) /\ Links(a[i + 1].results) = a[i].uses
        /\ a[i].results # <<>> => i > 1 /\ a[i - 1].uses = Links(a[i].results)
AnsweredInTurn(o) ==
    \A i \in DOMAIN o : \A k \in DOMAIN o[i].calls :
        i + k <= Len(o) /\ o[i + k].role = "tool" /\ o[i + k].link = o[i].calls[k]

(* In every request the results of a round are what follows its calls, each  *)
(* in its call's place, and no result is sent without its call. *)
ResultsFollowCalls == busy => CallsAnswered(Anthropic(history)) /\ AnsweredInTurn(OpenAI(history))

(* What is said in a turn, in a message of Anthropic's form, and in a row.   *)
Words(m) == IF m.role = "tool" \/ ~Empty(m.text) THEN <<m.text>> ELSE <<>>
WordsOf(m) ==
    (IF Empty(m.text) THEN <<>> ELSE <<m.text>>) \o [k \in DOMAIN m.results |-> m.results[k].text]
Joining(s) ==
    LET upto[n \in 0 .. Len(s)] == IF n = 0 THEN <<>> ELSE upto[n - 1] \o s[n]
    IN  upto
Joined(s) == Joining(s)[Len(s)]

(* Both forms of a request say the same things in the same order: a text     *)
(* next to a tool call, an empty turn or the last result is not lost. *)
SameConversation ==
    LET a == Anthropic(history)
    IN  busy => Joined([i \in DOMAIN a |-> WordsOf(a[i])]) = Joined([i \in DOMAIN history |-> Words(history[i])])

(* Every request of a run still asks its prompt, however long the session is *)
(* and however many rounds it took. *)
PromptIsAsked ==
    busy => \E i \in DOMAIN history :
                /\ history[i] = transcript[Len(transcript)]
                /\ \A j \in i + 1 .. Len(history) : history[j].role # "user"

(* All of it, of any number of rounds and calls. *)
RequestHolds == TypeOK /\ ResultsFollowCalls /\ SameConversation /\ PromptIsAsked

(* Whole turns are dropped from the replayed window: the first message of a  *)
(* request is a prompt. *)
WholeTurns == busy => Head(history).role = "user"

(* The id of a result links it to one call of its request. *)
OneCallPerLink ==
    \A i, j \in DOMAIN history : i # j =>
        \A k \in DOMAIN history[i].calls, l \in DOMAIN history[j].calls : history[i].calls[k] # history[j].calls[l]
=============================================================================
