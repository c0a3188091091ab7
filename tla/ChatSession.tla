---------------------------- MODULE ChatSession ----------------------------
(***************************************************************************)
(* A conversation: `arcana chat' (arcana_cli/commands/chat) and `arcana    *)
(* run' drive an Agent (arcana/agents/agent.py) whose session the          *)
(* SessionManager keeps in a file.  One submitted line is one task; Ctrl+C *)
(* cancels it at whatever it awaits.                                       *)
(***************************************************************************)
EXTENDS Naturals, Sequences

CONSTANTS
    Agents,       \* agents with a record and a model
    Prompts,      \* lines a user may submit
    Costs,        \* tokens a turn may take
    MaxSessions,  \* bound: session ids, in the order the sessions are started
    MaxMessages,  \* bound: a turn begins only below this many messages
    None,         \* no file
    Torn          \* a file whose writing was cut off

VARIABLES
    proc,    \* the command that runs: "chat", "run" or "down"
    disk,    \* disk[i]: the file of session i
    sess,    \* the session in memory; the last one, after the process ended
    record,  \* the agent shown
    off,     \* memory_off
    loaded,  \* the runtime agent: whose it is, and whether it has a memory
    turn,    \* where the submission is, what it is, the agent it switches to
    asked,   \* the prompts the user wants answered in this session
    cut      \* the last submission was cut off before its session was stored

vars == <<proc, disk, sess, record, off, loaded, turn, asked, cut>>

Ids == 1..MaxSessions
User(p) == [role |-> "user", text |-> p]
Assistant(p) == [role |-> "assistant", text |-> p]
Messages == {User(p) : p \in Prompts} \cup {Assistant(p) : p \in Prompts}
NewSession(i, a) == [id |-> i, owner |-> a, msgs |-> <<>>, tokens |-> 0]
Idle(a) == [at |-> "idle", op |-> "ask", to |-> a]

Session == [id : Nat, owner : Agents, msgs : Seq(Messages), tokens : Costs \cup {0}]
ConstantsFit ==
    /\ MaxSessions \in Nat /\ MaxMessages \in Nat /\ Costs \subseteq Nat
    /\ None \notin Session /\ Torn \notin Session /\ None # Torn

\* Where in a conversation the user speaks, and where last.
Turns(msgs) == {i \in DOMAIN msgs : msgs[i].role = "user"}
LastTurn(msgs) == CHOOSE k \in Turns(msgs) : \A i \in Turns(msgs) : i <= k
LastPrompt(msgs) == msgs[LastTurn(msgs)].text

\* The prompts of a conversation are those of q: the k-th of q is said at place[k].
Asks(q, msgs) ==
    \E place \in [DOMAIN q -> Turns(msgs)] :
        /\ \A i \in Turns(msgs) : \E k \in DOMAIN q : place[k] = i
        /\ \A j, k \in DOMAIN q : j < k => place[j] < place[k]
        /\ \A k \in DOMAIN q : msgs[place[k]].text = q[k]
PromptsOf(msgs) == {q \in UNION {[1..n -> Prompts] : n \in 0..Len(msgs)} : Asks(q, msgs)}

Init ==
    /\ proc = "down"
    /\ disk = [i \in Ids |-> None]
    /\ \E a \in Agents :
         /\ record = a /\ loaded = [agent |-> a, memory |-> FALSE]
         /\ sess = NewSession(0, a) /\ turn = Idle(a)
    /\ off = FALSE /\ asked = <<>> /\ cut = FALSE

-----------------------------------------------------------------------------
(* Bugs this code could have.  Each takes the place of a definition below to
   see that a property notices; the model uses none of them. *)

\* /retry takes the last exchange to be two messages.
LastTwo(msgs) == SubSeq(msgs, 1, Len(msgs) - (IF Len(msgs) < 2 THEN Len(msgs) ELSE 2))

\* stream stores the session after its loop, not in a finally.
EndsAtOnce(at) ==
    /\ turn' = [turn EXCEPT !.at = "idle"] /\ cut' = IF at = "answering" THEN FALSE ELSE cut
    /\ proc' = IF proc = "run" THEN "down" ELSE proc
    /\ UNCHANGED sess

\* One file for every session.
OneFile == disk' = [disk EXCEPT ![1] = sess]

\* Extraction that found nothing is begun again.
Waits == "extracting"

-----------------------------------------------------------------------------
Readable(i) == disk[i] \notin {None, Torn}
Up == proc # "down"
AtWork(where) == Up /\ turn.at = where
Ready == proc = "chat" /\ turn.at = "idle"
\* The id of a new session is the next of those in use.  A torn file is never read
\* again, so its id may be given again.
InUse == {i \in Ids : Readable(i)} \cup (IF Up THEN {sess.id} ELSE {})
NewIds == {i \in Ids : (\A j \in InUse : j < i) /\ (i = 1 \/ i - 1 \in InUse)}

\* _persist, after Session.close.
Stores == disk' = [disk EXCEPT ![sess.id] = sess]

\* The submission is over, and with it the process if it was `arcana run'.
Over(unsaved) ==
    /\ turn' = [turn EXCEPT !.at = "idle"]
    /\ proc' = IF proc = "run" THEN "down" ELSE proc
    /\ cut' = unsaved

Goes(where) == turn' = [turn EXCEPT !.at = where] /\ UNCHANGED <<proc, cut>>

-----------------------------------------------------------------------------
(* The commands *)

\* A session of the agent that can be read, or a new one.
Resumes(a) == {[disk[i] EXCEPT !.owner = a] : i \in {i \in Ids : Readable(i) /\ disk[i].owner = a}}
Begins(a) == Resumes(a) \cup {NewSession(i, a) : i \in NewIds}

Launch(a, memory) ==
    /\ ~Up
    /\ \E s \in Begins(a) : sess' = s /\ asked' \in PromptsOf(s.msgs)
    /\ record' = a /\ off' = ~memory /\ loaded' = [agent |-> a, memory |-> memory]
    /\ turn' = Idle(a) /\ proc' = "chat" /\ cut' = FALSE
    /\ UNCHANGED disk

\* The first step of Agent.run and Agent.stream: the prompt joins the session.
First == IF loaded'.memory THEN "recalling" ELSE "answering"
Prompt(msgs, p, op) ==
    /\ sess' = [sess EXCEPT !.msgs = Append(msgs, User(p))]
    /\ turn' = [at |-> First, op |-> op, to |-> record']

\* run_cmd: --session, --continue or a new session.
RunOnce(a, memory, p) ==
    /\ ~Up
    /\ \E s \in Begins(a) :
         /\ Len(s.msgs) < MaxMessages
         /\ sess' = [s EXCEPT !.msgs = Append(@, User(p))]
         /\ \E q \in PromptsOf(s.msgs) : asked' = Append(q, p)
    /\ record' = a /\ off' = ~memory /\ loaded' = [agent |-> a, memory |-> memory]
    /\ \E op \in {"run", "ask"} : turn' = [at |-> First, op |-> op, to |-> a]
    /\ proc' = "run" /\ cut' = TRUE
    /\ UNCHANGED disk

Submit(p) ==
    /\ Ready /\ Len(sess.msgs) < MaxMessages
    /\ UNCHANGED <<proc, disk, record, off, loaded>>
    /\ Prompt(sess.msgs, p, "ask")
    /\ asked' = Append(asked, p) /\ cut' = TRUE

\* Messages after the last prompt are dropped, and the prompt itself.
WithoutLast(msgs) == SubSeq(msgs, 1, LastTurn(msgs) - 1)

Retry ==
    /\ Ready /\ Turns(sess.msgs) # {}
    /\ UNCHANGED <<proc, disk, record, off, loaded, asked>>
    /\ Prompt(WithoutLast(sess.msgs), LastPrompt(sess.msgs), "retry")
    /\ cut' = TRUE

Save == Ready /\ Stores /\ cut' = FALSE /\ UNCHANGED <<proc, sess, record, off, loaded, turn, asked>>

\* /exit, Ctrl+D or Ctrl+C when no submission runs.
Exit ==
    /\ Ready /\ Stores
    /\ proc' = "down" /\ cut' = FALSE
    /\ UNCHANGED <<sess, record, off, loaded, turn, asked>>

\* The process dies, perhaps while it writes the session's file.
Crash ==
    /\ Up
    /\ disk' \in {disk, [disk EXCEPT ![sess.id] = Torn]}
    /\ proc' = "down" /\ turn' = Idle(record) /\ cut' = TRUE
    /\ UNCHANGED <<sess, record, off, loaded, asked>>

-----------------------------------------------------------------------------
(* A turn *)

\* _retrieve_memory_context, which is not guarded.
Recall ==
    /\ AtWork("recalling")
    /\ Goes("answering") \/ Over(TRUE)
    /\ UNCHANGED <<disk, sess, record, off, loaded, asked>>

\* run: an answer, or an error that leaves the session as it is; stream: its finally
\* takes the parts there are.  Tokens are those of this turn.
Answered ==
    /\ \E n \in Costs : sess' = [sess EXCEPT !.msgs = Append(@, Assistant(LastPrompt(@))), !.tokens = n]
    /\ Goes(IF loaded.memory THEN "extracting" ELSE "summarising")

Answer ==
    /\ AtWork("answering")
    /\ \/ Answered
       \/ turn.op = "run" /\ Over(TRUE) /\ UNCHANGED sess
    /\ UNCHANGED <<disk, record, off, loaded, asked>>

\* _extract_memory swallows what fails.
Extracted == "summarising"
Extract ==
    /\ AtWork("extracting")
    /\ Goes(Extracted)
    /\ UNCHANGED <<disk, sess, record, off, loaded, asked>>

\* summarise falls back and persists; then a consolidated memory is written, if there
\* is one to write and a memory to take it.
Summarise ==
    /\ AtWork("summarising")
    /\ Stores
    /\ \/ loaded.memory /\ turn' = [turn EXCEPT !.at = "consolidating"] /\ cut' = FALSE /\ UNCHANGED proc
       \/ Over(FALSE)
    /\ UNCHANGED <<sess, record, off, loaded, asked>>

Consolidate ==
    /\ AtWork("consolidating")
    /\ Stores /\ Over(FALSE)
    /\ UNCHANGED <<sess, record, off, loaded, asked>>

\* Ctrl+C while the task awaits; in stream's loop it runs the finally first.
CutOff(at) == IF at = "answering" /\ turn.op # "run" THEN Answered ELSE Over(cut) /\ UNCHANGED sess

Cancel ==
    /\ Up /\ turn.at # "idle"
    /\ CutOff(turn.at)
    /\ UNCHANGED <<disk, record, off, loaded, asked>>

-----------------------------------------------------------------------------
(* /fresh, /no-memory, /switch *)

\* The runtime for the record shown is there.
Built ==
    /\ loaded' = [agent |-> record', memory |-> ~off']
    /\ turn' = Idle(record')

\* Another of them: the new session is started before the record is switched.
OfTheLast(a) ==
    /\ \E i \in NewIds : sess' = NewSession(i, record)
    /\ record' = a /\ asked' = <<>>

\* sm.close, then a new session of the agent, then its runtime.
Starts(a) ==
    /\ \E i \in NewIds : sess' = NewSession(i, a)
    /\ record' = a /\ asked' = <<>>
Opens(a) ==
    /\ Stores /\ Starts(a)
    /\ IF off' THEN Built ELSE turn' = [turn EXCEPT !.at = "building", !.to = a] /\ UNCHANGED loaded

\* The federation is closed first, if there is one.
Leaves(a) ==
    IF loaded.memory
    THEN turn' = [turn EXCEPT !.at = "leaving", !.to = a] /\ UNCHANGED <<disk, sess, record, loaded, asked, cut>>
    ELSE Opens(a) /\ cut' = FALSE

Fresh(memory) ==
    /\ Ready /\ NewIds # {}
    /\ off' = ~memory /\ Leaves(record)
    /\ UNCHANGED proc

\* The routing audit is written before anything is closed.
Switch(a) ==
    /\ Ready /\ NewIds # {}
    /\ turn' = [at |-> "routing", op |-> "switch", to |-> a]
    /\ UNCHANGED <<proc, disk, sess, record, off, loaded, asked, cut>>

Route ==
    /\ AtWork("routing")
    /\ UNCHANGED <<proc, off>>
    /\ Leaves(turn.to)

Leave ==
    /\ AtWork("leaving")
    /\ UNCHANGED <<proc, off>>
    /\ Opens(turn.to) /\ cut' = FALSE

\* What is raised on the way ends the task, like a cancellation.
Build ==
    /\ AtWork("building")
    /\ UNCHANGED <<proc, disk, sess, record, off, asked, cut>>
    /\ Built

Next ==
    \/ \E a \in Agents, memory \in BOOLEAN : Launch(a, memory)
    \/ \E a \in Agents, memory \in BOOLEAN, p \in Prompts : RunOnce(a, memory, p)
    \/ \E p \in Prompts : Submit(p)
    \/ Retry \/ Save \/ Exit \/ Crash
    \/ Recall \/ Answer \/ Extract \/ Summarise \/ Consolidate \/ Cancel
    \/ \E memory \in BOOLEAN : Fresh(memory)
    \/ \E a \in Agents : Switch(a)
    \/ Route \/ Leave \/ Build

Spec == Init /\ [][Next]_vars

\* What a submission awaits comes back: models and tiers have timeouts.
Fairness == WF_vars(Recall \/ Answer \/ Extract \/ Summarise \/ Consolidate \/ Route \/ Leave \/ Build)

FairSpec == Spec /\ Fairness

-----------------------------------------------------------------------------
(* Properties *)

\* Every variable keeps its values.
TypeOK ==
    /\ proc \in {"down", "chat", "run"}
    /\ record \in Agents /\ off \in BOOLEAN /\ cut \in BOOLEAN
    /\ loaded \in [agent : Agents, memory : BOOLEAN]
    /\ turn.at \in {"idle", "recalling", "answering", "extracting", "summarising", "consolidating",
                    "routing", "leaving", "building"}
    /\ turn.op \in {"ask", "retry", "run", "switch"} /\ turn.to \in Agents
    /\ \A i \in Ids : Readable(i) => disk[i].id = i
    /\ \A i \in DOMAIN sess.msgs : sess.msgs[i] \in Messages
    /\ sess.tokens \in Costs \cup {0}

\* The conversation holds the user's prompts in order, each as often as it was asked:
\* a retry takes the place of the last one, answered or not (_retry).
AskedOnce == Asks(asked, sess.msgs)

\* An exchange whose answer began is on disk when the submission is over, also when the
\* model failed or Ctrl+C was pressed, unless the finalisation was cut off itself; so is
\* the whole session when the chat is left (Agent.stream's finally, chat_cmd's finally).
Stored == (turn.at = "idle" /\ ~cut /\ sess.msgs # <<>>) => disk[sess.id] = sess

\* The session in memory belongs to the agent shown, whatever was cut off, and its file
\* lies with that agent (_switch, _session_path).
OwnSession == sess.owner = record /\ (sess.id \in Ids /\ Readable(sess.id) => disk[sess.id].owner = record)

ConversationKept == TypeOK /\ AskedOnce /\ Stored /\ OwnSession

\* A submission comes to an end (_guarded_submit).
Submitted == Up /\ turn.at # "idle"
IsIdle == turn.at = "idle"
TurnsEnd == Submitted ~> IsIdle

\* The agent that answers is the one shown, with the memory the footer shows.
ShownIsLoaded == Ready => loaded = [agent |-> record, memory |-> ~off]

\* A session's token total never goes down.
TotalsGrow == [][Up /\ sess'.id = sess.id => sess'.tokens >= sess.tokens]_vars

=============================================================================
