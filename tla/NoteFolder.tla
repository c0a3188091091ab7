----------------------------- MODULE NoteFolder -----------------------------
(***************************************************************************)
(* A folder of notes that is served as memory                              *)
(* (arcana/memory/adapters/markdown.py) and whose links are kept as edges   *)
(* (arcana/memory/wikilinks.py).  A scan stats the whole tree, then reads    *)
(* the notes whose fingerprint is not the cached one, and swaps its index   *)
(* in; scans run in threads of their own, and an editor changes the notes   *)
(* at any time.                                                             *)
(***************************************************************************)
EXTENDS Naturals

CONSTANTS Paths, Bodies, Readers,
          Size,      \* of each body, in bytes
          Links,     \* of each body: the targets of its links, code and aliases stripped
          Stem, Key, \* of each path: its name and its whole path, without the extension
          MaxBytes, MaxTick,
          Ops,       \* what the readers run: "search", "reindex"
          KeepsTime, \* an edit may leave an mtime that was there before: a coarse clock, a move, a sync tool
          None

VARIABLES disk,     \* the notes: what each path holds, and since when
          tick,     \* the newest mtime
          index,    \* the adapter's cache
          task,     \* the scans that are running
          edges,    \* the wikilink edges in the store
          current   \* GHOST: the last reindex to finish began after the last edit

vars == <<disk, tick, index, task, edges, current>>

\* What the constants are.
ConstantsFit ==
  /\ MaxBytes \in Nat /\ MaxTick \in Nat /\ KeepsTime \in BOOLEAN
  /\ Size \in [Bodies -> Nat] /\ None \notin Bodies
  /\ None \notin [body: Bodies, mtime: Nat]
  /\ None \notin [mtime: Nat, size: Nat] /\ None \notin [mtime: Nat, size: Nat, body: Bodies]

File == [body: Bodies, mtime: 0..MaxTick]
Mark(f) == [mtime |-> f.mtime, size |-> Size[f.body]]
Held(p) == IF disk[p] = None THEN None ELSE disk[p].body

Nowhere == [p \in Paths |-> None]
Idle == [at |-> "idle", op |-> "none", todo |-> {}, stats |-> Nowhere, found |-> Nowhere,
         held |-> [p \in Paths |-> {}], edited |-> FALSE]

Init == /\ disk = Nowhere /\ tick = 0
        /\ index = Nowhere
        /\ task = [r \in Readers |-> Idle]
        /\ edges = {} /\ current = FALSE

-----------------------------------------------------------------------------
\* The editor saves, replaces or removes a note.
Edit(p, f) ==
  /\ disk[p] # f
  /\ disk' = [disk EXCEPT ![p] = f]
  /\ task' = [r \in Readers |->
                IF task[r].at = "idle" THEN Idle
                ELSE [task[r] EXCEPT !.edited = TRUE, !.held[p] = @ \cup {IF f = None THEN None ELSE f.body}]]
  /\ current' = FALSE
  /\ UNCHANGED <<index, edges>>

Save(p) ==
  \E b \in Bodies, t \in 1..MaxTick :
    /\ t = tick + 1 \/ (KeepsTime /\ t <= tick)
    /\ tick' = IF t > tick THEN t ELSE tick
    /\ Edit(p, [body |-> b, mtime |-> t])

Delete(p) == Edit(p, None) /\ UNCHANGED tick

-----------------------------------------------------------------------------
\* search, get and scan start a rescan; reindex is one that goes on to the links.
Begin(r, op) ==
  /\ task[r].at = "idle"
  /\ task' = [task EXCEPT ![r] = [Idle EXCEPT !.at = "walk", !.op = op, !.todo = Paths,
                                              !.held = [p \in Paths |-> {Held(p)}]]]
  /\ UNCHANGED <<disk, tick, index, edges, current>>

\* MUTANT of Eligible: no cap.
AnySize(f) == f # None

\* MUTANT of Eligible: the cap itself is too large.
Below(f) == IF f = None THEN FALSE ELSE Size[f.body] < MaxBytes

\* _discover: a note that is absent or too large has no stat.
Eligible(f) == IF f = None THEN FALSE ELSE Size[f.body] <= MaxBytes

Stat(r) ==
  /\ task[r].at = "walk"
  /\ \E p \in task[r].todo :
       task' = [task EXCEPT ![r].todo = @ \ {p},
                            ![r].stats[p] = IF Eligible(disk[p]) THEN Mark(disk[p]) ELSE None]
  /\ UNCHANGED <<disk, tick, index, edges, current>>

Walked(r) ==
  /\ task[r].at = "walk" /\ task[r].todo = {}
  /\ task' = [task EXCEPT ![r].at = "read", ![r].todo = {p \in Paths : task[r].stats[p] # None}]
  /\ UNCHANGED <<disk, tick, index, edges, current>>

\* MUTANT of Cached: the time is not compared.
SameSize(p, s) == index[p] # None /\ index[p].size = s.size

Cached(p, s) == index[p] # None /\ index[p].mtime = s.mtime /\ index[p].size = s.size

\* _rescan: a note whose fingerprint is cached is not read; one that is gone by now is skipped.
Read(r) ==
  /\ task[r].at = "read"
  /\ \E p \in task[r].todo :
       LET s == task[r].stats[p]
           body == IF Cached(p, s) THEN index[p].body ELSE Held(p)
           item == IF body = None THEN None ELSE [mtime |-> s.mtime, size |-> s.size, body |-> body]
       IN task' = [task EXCEPT ![r].todo = @ \ {p}, ![r].found[p] = item]
  /\ UNCHANGED <<disk, tick, index, edges, current>>

\* The index is swapped as a whole; the last scan to end wins.
Swap(r) ==
  /\ task[r].at = "read" /\ task[r].todo = {}
  /\ index' = task[r].found
  /\ task' = [task EXCEPT ![r].at = IF task[r].op = "reindex" THEN "resolve" ELSE "done"]
  /\ UNCHANGED <<disk, tick, edges, current>>

Return(r) ==
  /\ task[r].at = "done"
  /\ task' = [task EXCEPT ![r] = Idle]
  /\ UNCHANGED <<disk, tick, index, edges, current>>

-----------------------------------------------------------------------------
\* A target is a bare name or a relative path.
Fits(t, p) == IF t.kind = "name" THEN Stem[p] = t.key ELSE Key[p] = t.key

\* MUTANT of Resolve: the first note with the name.
FirstMatch(t, notes) == {CHOOSE p \in notes : Fits(t, p) : x \in {y \in {t} : \E p \in notes : Fits(t, p)}}

\* _Resolver: a name that several notes have is ambiguous; of the notes with one
\* path (note.md, note.markdown) the dictionary keeps the last of the walk.
Resolve(t, notes) ==
  LET fits == {p \in notes : Fits(t, p)}
  IN IF t.kind = "name" THEN IF \E p \in fits : fits = {p} THEN fits ELSE {}
                        ELSE IF fits = {} THEN {} ELSE {CHOOSE p \in fits : TRUE}

\* The edges of what a scan found: no self-links, no duplicates, nothing for a dangling link.
LinksOf(body) ==
  LET notes == {p \in Paths : body[p] # None}
  IN {e \in notes \X notes : e[1] # e[2] /\ \E t \in Links[body[e[1]]] : e[2] \in Resolve(t, notes)}

Bodied(found) == [p \in Paths |-> IF found[p] = None THEN None ELSE found[p].body]

\* MUTANT of Replaced: the edges that are gone stay.
Added(old, new) == old \cup new

\* replace_source: this producer's edges are exchanged in one transaction.
Replaced(old, new) == new

Reindex(r) ==
  /\ task[r].at = "resolve"
  /\ edges' = Replaced(edges, LinksOf(Bodied(task[r].found)))
  /\ current' = ~task[r].edited
  /\ task' = [task EXCEPT ![r] = Idle]
  /\ UNCHANGED <<disk, tick, index>>

Next == \/ \E p \in Paths : Save(p) \/ Delete(p)
        \/ \E r \in Readers : \/ \E op \in Ops : Begin(r, op)
                              \/ Stat(r) \/ Walked(r) \/ Read(r) \/ Swap(r) \/ Return(r) \/ Reindex(r)

Spec == Init /\ [][Next]_vars

\* No scan runs.
Resting == \A r \in Readers : task[r] = Idle

-----------------------------------------------------------------------------
Item == [mtime: 0..MaxTick, size: {Size[b] : b \in Bodies}, body: Bodies] \cup {None}

\* Every variable has its type, and no note over the cap is ever cached under its own size.
TypeOK == /\ disk \in [Paths -> File \cup {None}] /\ tick \in 0..MaxTick
          /\ index \in [Paths -> Item]
          /\ edges \subseteq Paths \X Paths /\ current \in BOOLEAN
          /\ \A r \in Readers : /\ task[r].at \in {"idle", "walk", "read", "resolve", "done"}
                                /\ task[r].found \in [Paths -> Item]
          /\ \A p \in Paths : index[p] # None => index[p].size <= MaxBytes

\* A live read stays fresh: what a scan returns of a note is something the note
\* was at some moment of this very scan, however many scans share the cache and
\* whatever was cached before (MarkdownFolderAdapter._rescan).
Fresh ==
  \A r \in Readers : task[r].at \in {"resolve", "done"} =>
    \A p \in Paths : task[r].found[p] # None => task[r].found[p].body \in task[r].held[p]

\* A note that was there, and no larger than the cap, during the whole scan is
\* in its result.
NothingMissed ==
  \A r \in Readers : task[r].at \in {"resolve", "done"} =>
    \A p \in Paths : (\A b \in task[r].held[p] : b # None /\ Size[b] <= MaxBytes) => task[r].found[p] # None

\* When the last reindex to end began after the last edit, the edges are the links
\* on disk, no more and no fewer, whatever scans share its cache
\* (WikilinkEdgeExtractor.reindex: "the graph reflects exactly the links present on disk right now").
GraphIsCurrent ==
  current => edges = LinksOf([p \in Paths |-> IF Eligible(disk[p]) THEN disk[p].body ELSE None])

\* Every edge comes from a link that exactly one note of the scan fits
\* ("Ambiguous names and dangling targets are skipped and counted, never guessed").
NeverGuessed ==
  \A r \in Readers : task[r].at = "resolve" =>
    LET found == Bodied(task[r].found)
        notes == {p \in Paths : found[p] # None}
    IN \A e \in LinksOf(found) :
         \E t \in Links[found[e[1]]] : {p \in notes : Fits(t, p)} = {e[2]}

\* No two notes have one path without its extension.
OneNoteAPath == \A p, q \in Paths : Key[p] = Key[q] => p = q

\* A scan returns what the notes were during it and misses none, and a reindex
\* leaves the links on disk, where every edit moves the time of its note; an edge
\* is never guessed, where no two notes have one path.
NotesAreCurrent ==
  /\ TypeOK /\ NothingMissed
  /\ ~KeepsTime => Fresh /\ GraphIsCurrent
  /\ OneNoteAPath => NeverGuessed
=============================================================================
