----------------------------- MODULE MemoryLife -----------------------------
(* The life of one agent's memories in its private store: a turn is         *)
(* extracted into typed entries, the close of the session distils one more,  *)
(* and every later retrieval scores the rows by age, drops the ones that     *)
(* decayed below their threshold and resets the clock of the rows it read.   *)
(*                                                                          *)
(* Importance and confidence are in hundredths.  Time advances in ticks of   *)
(* one half-life; the card gives every type the same half-life, as           *)
(* CardDecayConfig allows, so types differ by floor and threshold.           *)
EXTENDS Naturals, Sequences, FiniteSets

CONSTANTS None,        \* no row under an id
          Count,       \* bound on the entries that are stored
          MaxTime,     \* bound on the half-lives that pass
          MaxTurns,    \* bound on the turns of the session
          Limit,       \* the limit a retrieval asks for
          UseLlm,      \* the extraction strategy is "llm" and has a model
          AgentCap,    \* agent_confidence_cap of the configuration
          MinStore     \* min_confidence_to_store of the configuration

VARIABLES rows,        \* memory_entries of the private store
          now,
          open,        \* the session is running
          durable,     \* some user message stated a durable fact
          extracted,   \* session.memories_extracted
          shown,       \* what the last retrieval returned
          lapsed,      \* what the last retrieval dropped as aged out
          turns,
          lost,        \* how many writes failed or were cancelled
          touched      \* when each row was last read or written

vars == <<rows, now, open, durable, extracted, shown, lapsed, turns, lost, touched>>

\* The ids the entries get, in the order they are stored in.
Ids == 1..Count

Row == [type : {"episodic", "semantic", "procedural"}, importance : 0..100,
        confidence : 0..100, source : {"agent", "user"}, pinned : BOOLEAN,
        accessed : 0..MaxTime]

\* What the constants are.
ConstantsFit ==
    /\ Count \in Nat /\ None \notin Row
    /\ MaxTime \in Nat /\ MaxTurns \in Nat /\ Limit \in Nat /\ UseLlm \in BOOLEAN
    /\ AgentCap \in 0..100 /\ MinStore \in 0..100

Floor(type)     == CASE type = "episodic" -> 5 [] type = "semantic" -> 20 [] OTHER -> 30
Threshold(type) == CASE type = "episodic" -> 25 [] type = "semantic" -> 10 [] OTHER -> 5
UserConfirmed   == 90
DefaultCap      == 70
MinContext      == 50      \* min_confidence_for_context
Larger(a, b)    == IF a > b THEN a ELSE b

(* 0.5 ^ age, as what it divides by: nothing is left of 100 hundredths after seven. *)
Halved(age) ==
    CASE age = 0 -> 1 [] age = 1 -> 2 [] age = 2 -> 4 [] age = 3 -> 8
      [] age = 4 -> 16 [] age = 5 -> 32 [] age = 6 -> 64 [] OTHER -> 128

(* Mutants: the floor is forgotten; the age is measured after the refresh. *)
NoFloor(r) == IF r.pinned THEN r.importance ELSE r.importance \div Halved(now - r.accessed)
FreshClock(r) == ~r.pinned /\ Larger(Floor(r.type), r.importance) < Threshold(r.type)

(* effective_importance at the clock's present reading. *)
Effective(r) ==
    IF r.pinned THEN r.importance
    ELSE Larger(Floor(r.type), r.importance \div Halved(now - r.accessed))

(* should_consolidate: the entry has aged out. *)
AgedOut(r) == ~r.pinned /\ Effective(r) < Threshold(r.type)

Live == {i \in Ids : rows[i] # None}
Stored == CHOOSE n \in 0..Count : Live = 1..n

Entry(type, importance, confidence, source) ==
    [type |-> type, importance |-> importance, confidence |-> confidence,
     source |-> source, pinned |-> FALSE, accessed |-> now]

(* Mutant: the answer's steps are trusted like the user's words. *)
Trusted(states, steps, bonus) ==
    <<Entry("episodic", 40, AgentCap, "agent")>>
    \o (IF steps THEN <<Entry("procedural", 40, UserConfirmed, "agent")>> ELSE <<>>)

(* HeuristicExtractor.extract: always an episode, then a fact the user       *)
(* stated, then the steps of an answer; imperative language in the prompt    *)
(* adds the signal bonus.                                                    *)
Heuristic(states, steps, bonus) ==
    LET gain == IF bonus THEN 20 ELSE 0
    IN  <<Entry("episodic", 40 + gain, AgentCap, "agent")>>
        \o (IF states THEN <<Entry("semantic", 50 + gain, UserConfirmed, "user")>> ELSE <<>>)
        \o (IF steps THEN <<Entry("procedural", 40, AgentCap, "agent")>> ELSE <<>>)

(* LLMExtractor.extract: the entries of the reply that validate, of any      *)
(* importance, cut to 0..100; a failed call or an empty list leaves it to    *)
(* the heuristic.                                                            *)
Replies == {<<>>} \cup {<<Entry(t, imp, AgentCap, "agent")>> :
                            t \in {"episodic", "semantic"}, imp \in {10, 100}}

(* Mutant: a failed model call leaves the turn without entries. *)
NoFallback(reply, heuristic) == IF UseLlm THEN reply ELSE heuristic

Extract(reply, heuristic) == IF ~UseLlm \/ reply = <<>> THEN heuristic ELSE reply

(* filter_storable, of the at most three entries an extraction has. *)
Kept(entries, k) ==
    IF k <= Len(entries) /\ entries[k].confidence >= MinStore THEN <<entries[k]>> ELSE <<>>
Storable(entries) == Kept(entries, 1) \o Kept(entries, 2) \o Kept(entries, 3)

(* A loop over entries comes past the first n of them.  The next write, if   *)
(* one is left, has failed: after its row was committed (m = n + 1) or       *)
(* before.                                                                   *)
Written(entries, n, m) ==
    LET top == Stored
        ids == top + 1 .. top + m
    IN  /\ m \in {n, n + 1}
        /\ rows' = [i \in Ids |-> IF i \in ids THEN entries[i - top] ELSE rows[i]]
        /\ touched' = [i \in Ids |-> IF i \in ids THEN now ELSE touched[i]]
        /\ lost' = lost + (IF n < Len(entries) THEN 1 ELSE 0)

(* Mutants: an id is listed before its write; a failure forgets the batch. *)
ListedFirst(entries) ==
    /\ Stored + Len(entries) <= Count
    /\ \E n, m \in 0..Len(entries) : Written(entries, n, m)
    /\ extracted' = extracted \cup (Stored + 1 .. Stored + Len(entries))
BatchForgotten(entries) ==
    /\ Stored + Len(entries) <= Count
    /\ \E n, m \in 0..Len(entries) :
          /\ Written(entries, n, m)
          /\ extracted' = (IF n < Len(entries) THEN extracted ELSE extracted \cup (Stored + 1 .. Stored + n))

(* The entries are written one by one and each is listed after its write; a  *)
(* failed write is swallowed and ends the loop.  When its row was committed  *)
(* and its vector failed, the store holds a row the session does not list.   *)
Persist(entries) ==
    /\ Stored + Len(entries) <= Count
    /\ \E n, m \in 0..Len(entries) :
          /\ Written(entries, n, m)
          /\ extracted' = extracted \cup (Stored + 1 .. Stored + n)

Init ==
    /\ rows = [i \in Ids |-> None]
    /\ now = 0 /\ open = TRUE /\ durable = FALSE
    /\ extracted = {} /\ shown = {} /\ lapsed = {}
    /\ turns = 0 /\ lost = 0 /\ touched = [i \in Ids |-> 0]

(* Agent._extract_memory after a turn. *)
Turn(states, steps, bonus, reply) ==
    /\ open /\ turns < MaxTurns
    /\ Persist(Storable(Extract(reply, Heuristic(states, steps, bonus))))
    /\ durable' = (durable \/ states)
    /\ turns' = turns + 1
    /\ UNCHANGED <<now, open, shown, lapsed>>

(* build_consolidated_entry: the distilled summary, typed by content. *)
Consolidated ==
    Entry(IF durable THEN "semantic" ELSE "episodic", 70, DefaultCap, "agent")

(* SessionManager.close_and_summarise: the summary is written as it is. *)
Close ==
    /\ open /\ turns > 0
    /\ open' = FALSE
    /\ Persist(<<Consolidated>>)
    /\ UNCHANGED <<now, durable, shown, lapsed, turns>>

Before(i, j) ==     \* ORDER BY pinned DESC, importance DESC, last_accessed_at DESC
    LET a == rows[i]  b == rows[j]
    IN  \/ a.pinned /\ ~b.pinned
        \/ a.pinned = b.pinned /\ a.importance > b.importance
        \/ a.pinned = b.pinned /\ a.importance = b.importance /\ a.accessed > b.accessed

(* SQLiteAdapter.search: at most Limit rows, the best by the stored columns; *)
(* with a text, the best by BM25, which may be any of the matches.           *)
Searched(text, least) ==
    LET matching == {i \in Live : rows[i].confidence >= least}
        full     == Cardinality(matching)
    IN  {c \in SUBSET matching :
            /\ Cardinality(c) = (IF full < Limit THEN full ELSE Limit)
            /\ ~text => \A i \in c, j \in matching \ c : ~Before(j, i)}

(* _refresh_access: the stored rows get a fresh clock, the returned entries  *)
(* keep the one they were read with.                                         *)
Refresh(read) ==
    rows' = [i \in Ids |-> IF i \in read THEN [rows[i] EXCEPT !.accessed = now] ELSE rows[i]]

(* MemoryRouter.rank of what the store returned. *)
Ranked(read) == {i \in read : ~AgedOut(rows[i])}

(* Agent._retrieve_memory_context through MemoryFederation.search. *)
Retrieve(text, read) ==
    /\ read \in Searched(text, MinContext)
    /\ Refresh(read)
    /\ shown' = Ranked(read)
    /\ lapsed' = read \ Ranked(read)
    /\ touched' = [i \in Ids |-> IF i \in read THEN now ELSE touched[i]]
    /\ UNCHANGED <<now, open, durable, extracted, turns, lost>>

(* MemoryFederation.browse: a listing is a search too, and drops nothing. *)
Browse(read) ==
    /\ read \in Searched(FALSE, 0)
    /\ Refresh(read)
    /\ touched' = [i \in Ids |-> IF i \in read THEN now ELSE touched[i]]
    /\ UNCHANGED <<now, open, durable, extracted, shown, lapsed, turns, lost>>

(* A caller writes an entry back with its pin set (an upsert). *)
Pin(i) ==
    /\ i \in Live /\ ~rows[i].pinned
    /\ rows' = [rows EXCEPT ![i].pinned = TRUE]
    /\ UNCHANGED <<now, open, durable, extracted, shown, lapsed, turns, lost, touched>>

Tick ==
    /\ now < MaxTime
    /\ now' = now + 1
    /\ shown' = {}
    /\ UNCHANGED <<rows, open, durable, extracted, lapsed, turns, lost, touched>>

Next ==
    \/ \E states, steps, bonus \in BOOLEAN, reply \in Replies : Turn(states, steps, bonus, reply)
    \/ Close
    \/ \E text \in BOOLEAN, read \in SUBSET Ids : Retrieve(text, read)
    \/ \E read \in SUBSET Ids : Browse(read)
    \/ \E i \in Ids : Pin(i)
    \/ Tick

Spec == Init /\ [][Next]_vars
-----------------------------------------------------------------------------
(* Every row has the shape of an entry and the sets name stored rows. *)
TypeOK ==
    /\ rows \in [Ids -> Row \cup {None}]
    /\ now \in 0..MaxTime /\ turns \in 0..MaxTurns /\ lost \in 0..MaxTurns + 1
    /\ extracted \cup shown \cup lapsed \subseteq Live

(* A retrieval never returns an episode nobody read or wrote for two         *)
(* half-lives, or three for one of full importance, which is exactly at the  *)
(* threshold after two: what it returns is scored by the age it had, not by  *)
(* the clock the read itself reset.                                          *)
Lasts(r) == IF r.importance = 100 THEN 3 ELSE 2
IdleEpisodesLapse ==
    shown' # shown =>
        \A i \in shown' : rows[i].pinned \/ rows[i].type # "episodic" \/ now - touched[i] < Lasts(rows[i])

(* Only unpinned episodes are dropped as aged out: a stated fact and a       *)
(* procedure stay, however long nobody asked for them.                       *)
OnlyEpisodesLapse == lapsed' # lapsed => \A i \in lapsed' : rows[i].type = "episodic" /\ ~rows[i].pinned

(* Every turn and every close whose writes went through left a memory, also  *)
(* when the model that extracts failed or answered with nothing.             *)
TurnLeavesTrace == lost = 0 => 1 .. (turns + (IF open THEN 0 ELSE 1)) \subseteq Live

(* The session lists only what the store holds, and all of it but a row for  *)
(* each write that failed, wherever in the loops of the session that was.    *)
SessionListsItsOwn == extracted \subseteq Live /\ Cardinality(Live \ extracted) <= lost

(* Text of the agent never holds more confidence than its configured cap. *)
AgentCapped == \A i \in Live : rows[i].source = "agent" => rows[i].confidence <= AgentCap

(* A turn leaves memories, the session lists these alone and misses none but *)
(* a failed write's, and the agent's word has no more confidence than its    *)
(* cap, where the configuration lets the agent's word be stored and trusts   *)
(* it no less than the default does.                                         *)
TurnsRemembered ==
    /\ TypeOK /\ SessionListsItsOwn
    /\ MinStore <= AgentCap => TurnLeavesTrace
    /\ AgentCap >= DefaultCap => AgentCapped

(* A step drops no fact as aged out and returns no stale episode. *)
StepSpoilsNothing == OnlyEpisodesLapse /\ IdleEpisodesLapse

(* No row is below the confidence the configuration asks of a stored one. *)
NeverWeak == \A i \in Live : rows[i].confidence >= MinStore

(* A row the last retrieval dropped as stale is not returned by the next one *)
(* unless somebody pinned it.                                                *)
StaleStaysOut == [][\A i \in lapsed : i \in shown' \ shown => rows[i].pinned]_vars

(* A stale row never takes the place of a fresh one: when a retrieval drops  *)
(* rows, it has returned every row that is still fresh.                      *)
FreshNotCrowdedOut ==
    [][lapsed' # lapsed /\ lapsed' # {} =>
          \A i \in Live : rows[i].confidence >= MinContext /\ ~AgedOut(rows[i]) => i \in shown']_vars
=============================================================================
