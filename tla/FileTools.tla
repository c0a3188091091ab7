----------------------------- MODULE FileTools -----------------------------
(***************************************************************************)
(* The filesystem tools of one workspace (arcana/tools/builtins/fs): write,*)
(* delete, move and copy, with the staging protocol and the trash.  Each   *)
(* call runs in a worker thread, one system call after the other, each of  *)
(* which the system may refuse; a call that timed out is answered while    *)
(* its thread goes on, and two sessions of an agent share its workspace.   *)
(***************************************************************************)
EXTENDS Naturals, Sequences

CONSTANTS
    Threads,    \* worker threads at the same time
    Names,      \* paths of the workspace
    Data,       \* what files and trees are made of
    Special,    \* links out of the jail, pipes: what a copy skips
    Limit,      \* trash_max_entries
    Ops,        \* the tools called
    Faults,     \* what may happen: "cap", "cross" filesystem, "crash", "locked", "slow", "clock"
    History,    \* a call remembers the workspace it began with (for FailureRestores)
    None        \* nothing there

VARIABLES
    ws,       \* ws[n]: what is at path n
    trash,    \* the entries of .trash, oldest name first
    debris,   \* siblings that a killed process left
    made,     \* everything ever written
    gone,     \* what calls were asked to destroy, and at least began to
    task      \* task[t]: the call of thread t

vars == <<ws, trash, debris, made, gone, task>>

Entry == [kind : {"file", "dir"}, data : SUBSET Data, state : {"whole", "building", "removing"}]

\* What the constants are.
ConstantsFit == Limit \in Nat /\ Special \subseteq Data /\ None \notin Entry /\ History \in BOOLEAN

File(ds) == [kind |-> "file", data |-> ds, state |-> "whole"]
Idle == [at |-> "idle", op |-> "none", src |-> None, dst |-> None, over |-> FALSE, load |-> None,
         staged |-> None, aside |-> None, before |-> None, ok |-> TRUE, told |-> FALSE]

Single == {e \in Entry : e.state = "whole" /\ \E d \in Data : e.data = {d}}

\* Files and trees at some of the names, none of them twice.
Init ==
    /\ \E start \in [Names -> {None} \cup Single] :
         /\ \A n, m \in Names : n # m /\ start[n] # None /\ start[m] # None => start[n].data # start[m].data
         /\ \A n \in Names : start[n] # None /\ start[n].kind = "file" => start[n].data \cap Special = {}
         /\ ws = [n \in Names |-> IF start[n] # None /\ start[n].kind = "dir"
                                  THEN [start[n] EXCEPT !.data = @ \cup Special] ELSE start[n]]
         /\ made = UNION {ws[n].data : n \in {m \in Names : ws[m] # None}}
    /\ trash = <<>> /\ debris = {} /\ gone = {}
    /\ task = [t \in Threads |-> Idle]

-----------------------------------------------------------------------------
At(t, where) == task[t].at = where
Goes(t, where) == task' = [task EXCEPT ![t].at = where]
Ends(t, ok) == task' = [task EXCEPT ![t] = [Idle EXCEPT !.ok = ok]]
Succeeds(t) == Ends(t, TRUE)
Fails(t) == Ends(t, FALSE)

Remembered == IF History THEN ws ELSE None

\* rename: onto nothing, or a file onto a file.
Renames(e, n) == ws[n] # None => e.kind = "file" /\ ws[n].kind = "file"
Put(n, e) == [ws EXCEPT ![n] = e]

Debris(e) == IF e = None THEN {} ELSE {e}
Contents(e) == IF e = None THEN {} ELSE e.data
IsTree(e) == e # None /\ e.kind = "dir"

-----------------------------------------------------------------------------
(* Bugs this code could have.  Each takes the place of a definition below to
   see that a property notices; the model uses none of them. *)

\* A copy is assembled at its destination.
InPlace(t, e) == ws' = [ws EXCEPT ![task[t].dst] = e] /\ task' = [task EXCEPT ![t].at = "building"]

\* The displaced destination is removed at once.
NotAside(t) == None

\* What a failed replacement displaced stays beside its path.
LeavesAside(t) ==
    /\ At(t, "restore")
    /\ debris' = debris \cup Debris(task[t].aside)
    /\ Fails(t)
    /\ UNCHANGED <<ws, trash, made, gone>>

\* The sweep counts the entries before the new one.
OffByOne(s) == IF Len(s) > Limit + 1 THEN Tail(s) ELSE s

\* The sweep sorts the other way.
PrunesNewest(t) ==
    /\ At(t, "prune")
    /\ trash' = IF Len(trash) > Limit THEN SubSeq(trash, 1, Limit) ELSE trash
    /\ gone' = gone \cup UNION {trash[i].data : i \in {j \in DOMAIN trash : j > Limit}}
    /\ Succeeds(t)
    /\ UNCHANGED <<ws, debris, made>>

\* A soft delete does not notice that its entry has gone.
PlacesAnything(t) ==
    /\ At(t, "trash")
    /\ ws' = Put(task[t].src, None) /\ trash' = Append(trash, ws[task[t].src])
    /\ task' = [task EXCEPT ![t].at = "prune", ![t].load = ws[task[t].src]]
    /\ UNCHANGED <<debris, made, gone>>

\* A move across filesystems leaves its source.
KeepsSource(t) == At(t, "purge") /\ Goes(t, "discard") /\ UNCHANGED <<ws, trash, debris, made, gone>>

-----------------------------------------------------------------------------
(* write_file: the payload is composed in one thread, written in the next *)

Compose(t) ==
    /\ At(t, "idle")
    /\ \E n \in Names, mode \in {"create", "overwrite", "append"} \cap Ops, d \in Data \ (made \cup Special) :
         /\ ws[n] # None => ws[n].kind = "file" /\ mode # "create"
         /\ task' = [task EXCEPT ![t] =
              [Idle EXCEPT !.at = "write", !.op = mode, !.dst = n, !.over = (mode = "overwrite"), !.before = Remembered,
                           !.load = File({d} \cup (IF mode = "append" THEN Contents(ws[n]) ELSE {}))]]
    /\ UNCHANGED <<ws, trash, debris, made, gone>>

\* atomic_write: a temporary file and os.replace.
Write(t) ==
    /\ At(t, "write")
    /\ IF Renames(task[t].load, task[t].dst)
       THEN /\ ws' = Put(task[t].dst, task[t].load)
            /\ made' = made \cup task[t].load.data
            /\ gone' = IF task[t].over THEN gone \cup Contents(ws[task[t].dst]) ELSE gone
            /\ Succeeds(t)
       ELSE Fails(t) /\ UNCHANGED <<ws, made, gone>>
    /\ UNCHANGED <<trash, debris>>

\* The timeout of the gateway: a write may be between its two threads and ends; of
\* any other call the thread goes on, and nobody hears of what it does.
Timeout(t) ==
    /\ ~At(t, "idle")
    /\ \/ At(t, "write") /\ Fails(t)
       \/ "slow" \in Faults /\ task' = [task EXCEPT ![t].told = TRUE]
    /\ UNCHANGED <<ws, trash, debris, made, gone>>

-----------------------------------------------------------------------------
(* delete_file and delete_dir *)

\* The checks, and the measuring of a tree against the caps.
CheckDelete(t) ==
    /\ At(t, "idle") /\ "delete" \in Ops
    /\ \E n \in Names, op \in {"trash", "hard"} :
         /\ ws[n] # None
         /\ task' = [task EXCEPT ![t] = [Idle EXCEPT !.at = op, !.op = op, !.src = n, !.before = Remembered]]
    /\ UNCHANGED <<ws, trash, debris, made, gone>>

\* Trash.place; the clock that names the entry may have been set back.
Place(t) ==
    /\ At(t, "trash")
    /\ LET e == ws[task[t].src]
       IN  IF e = None THEN Fails(t) /\ UNCHANGED <<ws, trash>>
           ELSE /\ ws' = Put(task[t].src, None)
                /\ \/ trash' = Append(trash, e)
                   \/ "clock" \in Faults /\ trash' = <<e>> \o trash
                /\ task' = [task EXCEPT ![t].at = "prune", ![t].load = e]
    /\ UNCHANGED <<debris, made, gone>>

\* _prune: the oldest names beyond the limit.
Newest(s) == IF Len(s) > Limit THEN SubSeq(s, Len(s) - Limit + 1, Len(s)) ELSE s
Prune(t) ==
    /\ At(t, "prune")
    /\ trash' = Newest(trash)
    /\ gone' = gone \cup UNION {trash[i].data : i \in {j \in DOMAIN trash : j <= Len(trash) - Limit}}
    /\ Succeeds(t)
    /\ UNCHANGED <<ws, debris, made>>

\* hard_delete, or an entry that is in the trash already: a tree goes file by file.
Removing(t, next) ==
    /\ ws[task[t].src] # None
    /\ ws' = Put(task[t].src, [ws[task[t].src] EXCEPT !.state = "removing"])
    /\ Goes(t, next)

Remove(t) ==
    /\ At(t, "hard")
    /\ \/ Removing(t, "rmdir")
       \/ ws[task[t].src] = None /\ Fails(t) /\ UNCHANGED ws
    /\ gone' = gone \cup Contents(ws[task[t].src])
    /\ UNCHANGED <<trash, debris, made>>

Rmdir(t) ==
    /\ At(t, "rmdir")
    /\ IF ws[task[t].src] # None => ws[task[t].src].state = "removing"
       THEN ws' = Put(task[t].src, None) /\ Succeeds(t)
       ELSE Fails(t) /\ UNCHANGED ws
    /\ UNCHANGED <<trash, debris, made, gone>>

-----------------------------------------------------------------------------
(* move and copy *)

\* _resolve_pair and _prepare_destination.
Prepare(t) ==
    /\ At(t, "idle")
    /\ \E src, dst \in Names, op \in {"move", "copy"} \cap Ops, over \in BOOLEAN :
         /\ src # dst /\ ws[src] # None
         /\ ws[dst] = None \/ over
         /\ task' = [task EXCEPT ![t] =
              [Idle EXCEPT !.at = IF op = "move" THEN "displace" ELSE "stage", !.op = op, !.src = src,
                           !.dst = dst, !.over = over, !.before = Remembered]]
    /\ UNCHANGED <<ws, trash, debris, made, gone>>

Aside(t) == ws[task[t].dst]
Displace(t) ==
    /\ At(t, "displace")
    /\ ws' = Put(task[t].dst, None)
    /\ task' = [task EXCEPT ![t].aside = Aside(t), ![t].at = IF @ = "displace" /\ task[t].op = "move"
                                                              THEN "relocate" ELSE "install"]
    /\ UNCHANGED <<trash, debris, made, gone>>

\* os.rename(src, dst), or EXDEV.
Relocate(t) ==
    /\ At(t, "relocate")
    /\ LET e == ws[task[t].src]
       IN  \/ /\ e # None /\ Renames(e, task[t].dst)
              /\ ws' = [ws EXCEPT ![task[t].dst] = e, ![task[t].src] = None]
              /\ Goes(t, "discard")
           \/ /\ e # None => ~Renames(e, task[t].dst)
              /\ Goes(t, "restore") /\ UNCHANGED ws
           \/ "cross" \in Faults /\ Goes(t, "stage") /\ UNCHANGED ws
    /\ UNCHANGED <<trash, debris, made, gone>>

\* copy_into builds the tree in a sibling.
Builds(t, e) == task' = [task EXCEPT ![t].staged = e, ![t].at = "building"] /\ UNCHANGED ws
Stage(t) ==
    /\ At(t, "stage")
    /\ LET e == ws[task[t].src]
       IN  IF e = None THEN Goes(t, "restore") /\ UNCHANGED ws
           ELSE Builds(t, [e EXCEPT !.data = @ \ Special, !.state = "building"])
    /\ UNCHANGED <<trash, debris, made, gone>>

\* The walk ends, or it meets a cap and what was built is purged.
Built(t) ==
    /\ At(t, "building")
    /\ \/ /\ task' = [task EXCEPT ![t].staged.state = "whole",
                                  ![t].at = IF task[t].op = "copy" THEN "displace" ELSE "install"]
       \/ /\ "cap" \in Faults
          /\ task' = [task EXCEPT ![t].staged = None, ![t].at = "restore"]
    /\ UNCHANGED <<ws, trash, debris, made, gone>>

Install(t) ==
    /\ At(t, "install")
    /\ IF Renames(task[t].staged, task[t].dst)
       THEN /\ ws' = Put(task[t].dst, task[t].staged)
            /\ task' = [task EXCEPT ![t].staged = None, ![t].at = IF task[t].op = "move" THEN "purge" ELSE "discard"]
       ELSE /\ task' = [task EXCEPT ![t].staged = None, ![t].at = "restore"]
            /\ UNCHANGED ws
    /\ UNCHANGED <<trash, debris, made, gone>>

\* A move across filesystems ends with the source's removal, best-effort.
PurgeSource(t) ==
    /\ At(t, "purge")
    /\ \/ Removing(t, "purged")
       \/ /\ ws[task[t].src] = None \/ "locked" \in Faults
          /\ Goes(t, "discard") /\ UNCHANGED ws
    /\ UNCHANGED <<trash, debris, made, gone>>

Purged(t) ==
    /\ At(t, "purged")
    /\ \/ ws' = Put(task[t].src, None)
       \/ "locked" \in Faults /\ IsTree(ws[task[t].src]) /\ UNCHANGED ws
    /\ Goes(t, "discard")
    /\ UNCHANGED <<trash, debris, made, gone>>

Discard(t) ==
    /\ At(t, "discard")
    /\ gone' = IF task[t].over THEN gone \cup Contents(task[t].aside) ELSE gone
    /\ Succeeds(t)
    /\ UNCHANGED <<ws, trash, debris, made>>

\* _restore purges the destination and renames what was displaced; nothing was if
\* the copy did not get that far.
Restored(t) == IF task[t].aside = None THEN ws ELSE Put(task[t].dst, task[t].aside)
Restore(t) ==
    /\ At(t, "restore")
    /\ ws' = Restored(t)
    /\ Fails(t)
    /\ UNCHANGED <<trash, debris, made, gone>>

-----------------------------------------------------------------------------
(* The system refuses a rename or a removal.  Bound: until siblings are left,
   and the trash is one entry too long *)

Refusal == "locked" \in Faults /\ debris = {}

\* A first step of the call, which returns; what a copy had built stays.
RefusesFirst(t) ==
    /\ Refusal /\ task[t].at \in {"write", "trash", "hard", "displace"}
    /\ debris' = debris \cup Debris(task[t].staged)
    /\ Fails(t)
    /\ UNCHANGED <<ws, trash, made, gone>>

\* A step between what is set aside and what takes its place; what was built is
\* purged, which may be refused as well.
RefusesNext(t) ==
    /\ Refusal /\ task[t].at \in {"relocate", "stage", "building", "install"}
    /\ debris' \in {debris, debris \cup Debris(task[t].staged)}
    /\ task' = [task EXCEPT ![t].staged = None, ![t].at = "restore"]
    /\ UNCHANGED <<ws, trash, made, gone>>

\* A removal half-way through a tree, which ends the walk.
RefusesRmdir(t) ==
    /\ Refusal /\ At(t, "rmdir") /\ IsTree(ws[task[t].src])
    /\ Goes(t, "stranded")
    /\ UNCHANGED <<ws, trash, debris, made, gone>>

\* The rename of _restore, whose error is swallowed.
RefusesRestore(t) ==
    /\ Refusal /\ At(t, "restore") /\ task[t].aside # None
    /\ debris' = debris \cup {task[t].aside}
    /\ task' = [task EXCEPT ![t].aside = None, ![t].at = "stranded"]
    /\ ws' \in {ws, Put(task[t].dst, None)}
    /\ UNCHANGED <<trash, made, gone>>

\* A removal of the sweep; what is left of the stale entries stays.
RefusesPrune(t) ==
    /\ Refusal /\ At(t, "prune") /\ Len(trash) = Limit + 1
    /\ trash' = [trash EXCEPT ![1].state = "removing"]
    /\ gone' = gone \cup trash[1].data
    /\ Succeeds(t)
    /\ UNCHANGED <<ws, debris, made>>

\* A call that could not undo what it did returns the error it met first.
GivesUp(t) ==
    /\ At(t, "stranded") /\ Fails(t)
    /\ UNCHANGED <<ws, trash, debris, made, gone>>

-----------------------------------------------------------------------------
\* The process dies; the siblings stay.  Bound: until some are left.
Crash ==
    /\ "crash" \in Faults /\ debris = {} /\ \E t \in Threads : ~At(t, "idle")
    /\ debris' = debris \cup UNION {Debris(task[t].staged) \cup Debris(task[t].aside) : t \in Threads}
    /\ task' = [t \in Threads |-> Idle]
    /\ UNCHANGED <<ws, trash, made, gone>>

Next ==
    \/ \E t \in Threads : Compose(t) \/ Write(t) \/ Timeout(t)
    \/ \E t \in Threads : CheckDelete(t) \/ Place(t) \/ Prune(t) \/ Remove(t) \/ Rmdir(t)
    \/ \E t \in Threads : Prepare(t) \/ Displace(t) \/ Relocate(t) \/ Stage(t) \/ Built(t)
    \/ \E t \in Threads : Install(t) \/ PurgeSource(t) \/ Purged(t) \/ Discard(t) \/ Restore(t)
    \/ \E t \in Threads : RefusesFirst(t) \/ RefusesNext(t) \/ RefusesRmdir(t) \/ RefusesRestore(t)
    \/ \E t \in Threads : RefusesPrune(t) \/ GivesUp(t)
    \/ Crash

Spec == Init /\ [][Next]_vars

\* No call is under way.
Resting == \A t \in Threads : At(t, "idle")

-----------------------------------------------------------------------------
(* Properties *)

\* Every variable keeps its values.
TypeOK ==
    /\ ws \in [Names -> Entry \cup {None}]
    /\ trash \in Seq(Entry) /\ debris \subseteq Entry
    /\ made \subseteq Data /\ gone \subseteq made
    /\ \A t \in Threads : {task[t].staged, task[t].aside, task[t].load} \subseteq Entry \cup {None}

Places ==
    {ws[n] : n \in Names} \cup {trash[i] : i \in DOMAIN trash} \cup debris \cup {task[t].aside : t \in Threads}

\* What was written is whole in the workspace, in the trash or set aside, until a call
\* that was asked to destroys it: no failure, crash or cap loses it (Staging, Trash, atomic_write).
Kept == \A d \in made \ gone : \E e \in Places \ {None} : e.state = "whole" /\ d \in e.data

\* No path ever holds a half-built copy (Staging).
NoHalfCopy == \A n \in Names : ws[n] # None => ws[n].state # "building"

\* What a call leaves that could not undo what it did: of a tree to be removed what is
\* left of it; of a destination that was not put back nothing, and the whole of it in
\* a sibling.
Stranded(t) ==
    LET was == task[t].before
    IN  IF task[t].op = "hard" THEN ws = [was EXCEPT ![task[t].src].state = "removing"]
        ELSE ws = [was EXCEPT ![task[t].dst] = None] /\ was[task[t].dst] \in debris

\* A call that fails, and did not time out, leaves every path as it found it, or as
\* Stranded says where the system refused its last step (Staging, write_file, remove).
FailureRestores ==
    \A t \in Threads : ~At(t, "idle") /\ ~task[t].told /\ task'[t].at = "idle" /\ ~task'[t].ok =>
      IF At(t, "stranded") THEN Stranded(t) /\ UNCHANGED ws ELSE ws' = task[t].before

\* A move that reports success left nothing at its source (move, purge).
Moved ==
    \A t \in Threads : task[t].op = "move" /\ task'[t].at = "idle" /\ At(t, "discard") /\ task'[t].ok
        => ws'[task[t].src] = None

\* A soft delete that reports success left its entry in the trash (place, _prune).
Recoverable ==
    \A t \in Threads : At(t, "prune") /\ task'[t].at = "idle" =>
      \E i \in DOMAIN trash' : trash'[i] = task[t].load

\* The trash stays within its limit, but for deletes in progress (_prune).
BoundedTrash == (\A t \in Threads : ~At(t, "prune")) => Len(trash) <= Limit

\* Calls follow one another.
OneAtATime == \A s, t \in Threads : s = t

\* One call after the other loses nothing, at any crash and whatever is refused, unless
\* a tree with links that are skipped goes to another filesystem; a process that dies
\* between an entry and the sweep, and a sweep that is refused, leave the trash too long.
FilesKept ==
    /\ TypeOK /\ NoHalfCopy
    /\ OneAtATime /\ (Special = {} \/ "cross" \notin Faults) => Kept
    /\ {"crash", "locked"} \cap Faults = {} => BoundedTrash

\* What the step that ends a call tells, where calls follow one another; a source that
\* is not removed, a clock set back and a trash of no entries are told otherwise.
StepTells ==
    /\ OneAtATime /\ History => FailureRestores
    /\ OneAtATime /\ "locked" \notin Faults => Moved
    /\ OneAtATime /\ "clock" \notin Faults /\ Limit > 0 => Recoverable

=============================================================================
