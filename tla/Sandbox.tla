------------------------------ MODULE Sandbox ------------------------------
(* One run of a program behind run_code or run_command: the handler, the     *)
(* spawn-and-collect core with its wall clock, the child that leads a        *)
(* process group of its own, a process it may leave behind, and the          *)
(* container of the container backend, whose client is the child.            *)
(*                                                                          *)
(* Bytes are counted in chunks and the two output streams are one.  Process  *)
(* groups, pipes and the event loop's reaping of children are the            *)
(* environment; the wall clock may run out at any step.                      *)
EXTENDS Naturals

CONSTANTS None,        \* no result yet
          Container,   \* the container backend is configured
          Scratch,     \* run_code: the workspace is a throw-away directory
          Output,      \* chunks the program writes
          PipeSize,    \* chunks the pipe holds
          Cap,         \* max_output_bytes, in chunks
          Forks,       \* the program may start a process that outlives it
          Cancels      \* the call may be cancelled: Ctrl+C, the gateway's timeout

VARIABLES call,        \* where run_process stands
          child, kid,  \* the child, and a process it started
          kidWrites,   \* the started process inherited the pipe
          box,         \* the container
          closed,      \* the child closed its output early
          left,        \* chunks the program has still to write
          pipe, kept, dropped,
          led,         \* the child was not yet reaped when the clock ran out
          result, dir

vars == <<call, child, kid, kidWrites, box, closed, left, pipe, kept, dropped, led, result, dir>>
program == <<child, kid, kidWrites, box, closed, left>>

(* What the constants are. *)
ConstantsFit ==
    /\ {Container, Scratch, Forks, Cancels} \subseteq BOOLEAN /\ {Output, PipeSize, Cap} \subseteq Nat
    /\ None \notin [timed_out : BOOLEAN, truncated : BOOLEAN]

Init ==
    /\ call = "idle" /\ child = "none" /\ kid = "none" /\ kidWrites = FALSE
    /\ box = "none" /\ closed = FALSE /\ left = Output
    /\ pipe = 0 /\ kept = 0 /\ dropped = 0 /\ led = FALSE
    /\ result = None /\ dir = FALSE

(* Mutant: the workspace stays. *)
NoCleanup == UNCHANGED dir

(* The finally of CodeTools._execute; run_command leaves its workspace. *)
Cleanup == dir' = (dir /\ ~Scratch)

Return(how) == /\ call' = "over" /\ result' = how /\ Cleanup

(* CodeTools._execute and ShellTools._execute up to the spawn, which fails   *)
(* with a result when the binary is gone.                                    *)
Spawn ==
    /\ call = "idle"
    /\ call' = "draining" /\ child' = "running" /\ dir' = TRUE
    /\ box' = IF Container THEN "running" ELSE box
    /\ UNCHANGED <<kid, kidWrites, closed, left, pipe, kept, dropped, led, result>>
LaunchFails ==
    /\ call = "idle"
    /\ call' = "over" /\ dir' = ~Scratch
    /\ UNCHANGED <<program, pipe, kept, dropped, led, result>>

(* What the program may do. *)
Write ==
    /\ left > 0 /\ pipe < PipeSize
    /\ \/ child = "running" /\ ~closed
       \/ kid = "running" /\ kidWrites
    /\ left' = left - 1 /\ pipe' = pipe + 1
    /\ UNCHANGED <<call, child, kid, kidWrites, box, closed, kept, dropped, led, result, dir>>
CloseOutput ==
    /\ child = "running" /\ ~closed
    /\ closed' = TRUE
    /\ UNCHANGED <<call, child, kid, kidWrites, box, left, pipe, kept, dropped, led, result, dir>>
Fork(inherits) ==
    /\ Forks /\ child = "running" /\ kid = "none"
    /\ kid' = "running" /\ kidWrites' = (inherits /\ ~closed)
    /\ UNCHANGED <<call, child, box, closed, left, pipe, kept, dropped, led, result, dir>>
(* It ends when it has written all, or left the writing to the process it    *)
(* started; the client of a container ends after its container.              *)
ChildExits ==
    /\ child = "running" /\ box # "running"
    /\ left = 0 \/ closed \/ kidWrites
    /\ child' = "dead"
    /\ UNCHANGED <<call, kid, kidWrites, box, closed, left, pipe, kept, dropped, led, result, dir>>
KidExits ==
    /\ kid = "running" /\ kid' = "dead"
    /\ UNCHANGED <<call, child, kidWrites, box, closed, left, pipe, kept, dropped, led, result, dir>>
BoxExits ==
    /\ (box = "running" /\ left = 0) \/ box = "missed"
    /\ box' = "gone"
    /\ UNCHANGED <<call, child, kid, kidWrites, closed, left, pipe, kept, dropped, led, result, dir>>

(* The event loop's child watcher reaps the child; its pid names nothing     *)
(* from here on.                                                             *)
Reap ==
    /\ child = "dead" /\ child' = "reaped"
    /\ UNCHANGED <<call, kid, kidWrites, box, closed, left, pipe, kept, dropped, led, result, dir>>

(* Mutants: nothing is capped; reading stops at the cap. *)
FeedAll == pipe' = pipe - 1 /\ kept' = kept + 1 /\ UNCHANGED dropped
FeedToCap == kept < Cap /\ FeedAll

(* _CappedBuffer.feed: past the cap a chunk is read and dropped. *)
Feed ==
    /\ pipe' = pipe - 1
    /\ IF kept < Cap THEN kept' = kept + 1 /\ UNCHANGED dropped
                     ELSE dropped' = dropped + 1 /\ UNCHANGED kept

(* _pump *)
Pump ==
    /\ call = "draining" /\ pipe > 0
    /\ Feed
    /\ UNCHANGED <<call, program, led, result, dir>>

Eof == /\ pipe = 0
       /\ child # "running" \/ closed
       /\ ~(kid = "running" /\ kidWrites)

(* Mutant: the streams are not waited for. *)
OnlyReaped == child = "reaped"

(* _drain_and_wait ends when both streams ended and the child is reaped. *)
Drained == Eof /\ child = "reaped"
Finish ==
    /\ call = "draining" /\ Drained
    /\ Return([timed_out |-> FALSE, truncated |-> dropped > 0])
    /\ UNCHANGED <<program, pipe, kept, dropped, led>>

(* Mutant: only the child is killed. *)
KillChild == /\ child' = IF child = "running" THEN "dead" ELSE child
             /\ UNCHANGED kid

(* _kill_group: the group is found through the pid of the child, and a pid   *)
(* that was reaped is not found.                                             *)
KillGroup ==
    IF child \in {"running", "dead"}
    THEN /\ child' = "dead"
         /\ kid' = IF kid = "running" THEN "dead" ELSE kid
    ELSE UNCHANGED <<child, kid>>

(* Mutant: the process is waited for outside of the clock. *)
ClockOnPumps == call = "draining" /\ ~Eof

(* The one wall clock covers the draining and the reaping. *)
Clocked == call = "draining"
Timeout ==
    /\ Clocked
    /\ KillGroup
    /\ led' = (child # "reaped")
    /\ call' = IF Container THEN "killing" ELSE "reaping"
    /\ UNCHANGED <<kidWrites, box, closed, left, pipe, kept, dropped, result, dir>>

(* Mutant: no teardown of the backend. *)
NoTeardown == UNCHANGED box

(* ContainerSandbox._kill, the backend's on_timeout.  Its command may fail,  *)
(* or take longer than it is waited for and take effect later, or never.     *)
Teardown == box' = IF box = "running" THEN "gone" ELSE box
Misses == box = "running" /\ box' = "missed"
KillBox ==
    /\ call = "killing"
    /\ Teardown \/ Misses
    /\ call' = "reaping"
    /\ UNCHANGED <<child, kid, kidWrites, closed, left, pipe, kept, dropped, led, result, dir>>

TimedOut ==
    /\ call = "reaping" /\ child = "reaped"
    /\ Return([timed_out |-> TRUE, truncated |-> dropped > 0])
    /\ UNCHANGED <<program, pipe, kept, dropped, led>>

(* A CancelledError passes run_process, which catches only the TimeoutError. *)
Cancel ==
    /\ Cancels /\ call \in {"draining", "killing", "reaping"}
    /\ Return(result)
    /\ UNCHANGED <<program, pipe, kept, dropped, led>>

Next ==
    \/ Spawn \/ LaunchFails
    \/ Write \/ CloseOutput \/ \E inherits \in BOOLEAN : Fork(inherits)
    \/ ChildExits \/ KidExits \/ BoxExits \/ Reap
    \/ Pump \/ Finish \/ Timeout \/ KillBox \/ TimedOut \/ Cancel

Spec == Init /\ [][Next]_vars

(* The event loop runs what is ready and its timers fire; nothing is assumed *)
(* of the program, which may hang for ever.                                  *)
FairSpec == Spec /\ WF_vars(Pump) /\ WF_vars(Reap) /\ WF_vars(Finish)
                 /\ WF_vars(Timeout) /\ WF_vars(KillBox) /\ WF_vars(TimedOut)

(* A clock that need not run out, and a program that goes on writing and     *)
(* then ends.                                                                *)
DrainSpec == Spec /\ WF_vars(Pump) /\ WF_vars(Write) /\ WF_vars(ChildExits) /\ WF_vars(BoxExits)
-----------------------------------------------------------------------------
(* Every variable has its type and the pipe and the buffer keep their size. *)
TypeOK ==
    /\ call \in {"idle", "draining", "killing", "reaping", "over"}
    /\ child \in {"none", "running", "dead", "reaped"} /\ kid \in {"none", "running", "dead"}
    /\ box \in {"none", "running", "missed", "gone"}
    /\ kidWrites \in BOOLEAN /\ closed \in BOOLEAN /\ led \in BOOLEAN /\ dir \in BOOLEAN
    /\ left \in 0..Output /\ pipe \in 0..PipeSize /\ kept \in 0..Cap /\ dropped \in 0..Output
    /\ result \in [timed_out : BOOLEAN, truncated : BOOLEAN] \cup {None}

Ended(timed) == result # None /\ result.timed_out = timed

(* A run that ended by itself hands over all that was written, or says that  *)
(* it was cut; nothing is still on its way when the result is built.         *)
NothingLost ==
    Ended(FALSE) => /\ kept + dropped = Output - left
                    /\ result.truncated <=> Output - left > Cap

(* When the clock runs out before the child is reaped, the whole group goes  *)
(* down: nothing the program started runs when the result is returned.       *)
GroupGoesDown == Ended(TRUE) /\ led => child # "running" /\ kid # "running"

(* Killing the client is not enough: when the result of a run that timed out *)
(* is returned its container is stopped, or its kill was tried and failed.   *)
BoxStops == Ended(TRUE) => box # "running"

(* The throw-away workspace is gone after the call, however it ended. *)
NoScratchLeft == call = "over" /\ Scratch => ~dir

(* All of it, of one run. *)
RunHolds == TypeOK /\ NothingLost /\ GroupGoesDown /\ BoxStops /\ NoScratchLeft

(* Every call ends, whatever the program does: closing its output and        *)
(* hanging, filling the pipe, or leaving a process behind.                   *)
Started == call = "draining"
IsOver == call = "over"
CallEnds == Started ~> IsOver

(* A program that writes more than the cap is not blocked on a full pipe:    *)
(* without any timeout it comes to its end.                                  *)
Running == child = "running"
ProgramEnds == Running ~> ~Running

(* Nothing the program started runs on after a timeout. *)
TimeoutTakesAll == Ended(TRUE) => child # "running" /\ kid # "running"

(* The program runs to its completion or to the clock, and not past the end  *)
(* of the call.                                                              *)
NothingRunsOn == call = "over" => child # "running" /\ box \notin {"running", "missed"}
=============================================================================
