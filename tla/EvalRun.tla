------------------------------ MODULE EvalRun ------------------------------
(* The evaluation harness: cases run side by side under a semaphore, each    *)
(* answered by an agent and scored by the rules and, for a case with         *)
(* qualitative dimensions, by a judge model; the results are saved under an  *)
(* id made of the second the run began in, compared with those of an earlier *)
(* run and counted.                                                          *)
(*                                                                          *)
(* Scores are in thousandths.  A response is the number of rules it keeps; a *)
(* judge's reply is one of Replies, whose score may be any number.           *)
EXTENDS Integers, FiniteSets

CONSTANTS None,
          Cases,
          Marked,       \* the cases with a skip_reason
          Rules,        \* required and forbidden elements of a case
          Forbidden,    \* those of them that an empty response keeps
          Judged,       \* cases with dimensions, when the judge model is used
          Threshold,    \* pass_threshold
          Replies,      \* what the judge may say: [score, floor]
          Concurrency,
          JudgeFails,   \* the judge model may fail, or reply with no JSON
          Seconds,      \* ids of the runs: a second run may begin in the first
          MinTick       \* 0: two runs may begin in one second

(* A scored result.  Its error is the text of what the agent raised, which   *)
(* an exception may leave empty. *)
Verdicts == [score : Int, passed : BOOLEAN, error : {"none", "empty", "text"}, skipped : BOOLEAN,
             clean : BOOLEAN, floor : BOOLEAN]

ConstantsFit ==
    /\ None \notin Verdicts
    /\ IsFiniteSet(Cases) /\ Marked \subseteq Cases /\ Judged \subseteq Cases
    /\ Rules \in [Cases -> Nat] /\ Threshold \in 0..1000 /\ Concurrency \in Nat
    /\ Forbidden \in [Cases -> Nat] /\ \A c \in Cases : Forbidden[c] <= Rules[c]
    /\ Replies \subseteq [score : Int, floor : BOOLEAN]
    /\ Seconds \subseteq Nat /\ 0 \in Seconds /\ MinTick \in Nat

VARIABLES harness,      \* "running", "raised", "over"
          phase, kept,  \* per case: where it stands; the rules its response keeps
          result,       \* per case: the scored result
          open,         \* the gateway of the run
          id, base,     \* run_id, baseline_run_id
          saved,        \* the result files
          earlier,      \* what the earlier run found (history)
          report, summary

vars == <<harness, phase, kept, result, open, id, base, saved, earlier, report, summary>>
runs == <<id, base, saved, earlier>>

Init ==
    /\ harness = "running" /\ phase = [c \in Cases |-> "new"]
    /\ kept = [c \in Cases |-> 0] /\ result = [c \in Cases |-> None]
    /\ open = TRUE /\ id = 0 /\ base = None
    /\ saved = [s \in Seconds |-> None] /\ earlier = None
    /\ report = None /\ summary = None

Go(c, from, to) == phase[c] = from /\ phase' = [phase EXCEPT ![c] = to]

-----------------------------------------------------------------------------
(* One case: EvalHarness._run_one. *)

Failed(error, skipped) ==
    [score |-> 0, floor |-> TRUE, clean |-> FALSE, error |-> error, skipped |-> skipped, passed |-> FALSE]

Skip(c) ==
    /\ c \in Marked /\ Go(c, "new", "done")
    /\ result' = [result EXCEPT ![c] = Failed("none", TRUE)]
    /\ UNCHANGED <<harness, kept, open, runs, report, summary>>

InSem == {c \in Cases : phase[c] \in {"running", "answered", "mute", "errored"}}

(* Mutant: no semaphore. *)
EnterAll(c) ==
    /\ c \notin Marked /\ Go(c, "new", "running")
    /\ UNCHANGED <<harness, kept, result, open, runs, report, summary>>

Enter(c) ==
    /\ c \notin Marked /\ Go(c, "new", "running")
    /\ Cardinality(InSem) < Concurrency
    /\ UNCHANGED <<harness, kept, result, open, runs, report, summary>>

(* _execute_case; an agent that raises is a result with an error, and with   *)
(* an empty response. *)
Answer(c) ==
    /\ Go(c, "running", "answered")
    /\ \E k \in 0..Rules[c] : kept' = [kept EXCEPT ![c] = k]
    /\ UNCHANGED <<harness, result, open, runs, report, summary>>
AgentRaises(c) ==
    /\ \/ Go(c, "running", "errored") /\ UNCHANGED kept
       \/ Go(c, "running", "mute") /\ kept' = [kept EXCEPT ![c] = Forbidden[c]]
    /\ UNCHANGED <<harness, result, open, runs, report, summary>>

(* Mutant: the score is not divided by the number of rules. *)
RuleSum(c) == IF Rules[c] = 0 THEN 1000 ELSE 1000 * kept[c]

(* RuleJudge.score: a case without rules keeps all of them. *)
RuleScore(c) == IF Rules[c] = 0 THEN 1000 ELSE (1000 * kept[c]) \div Rules[c]
Verdict(c, score, floor) ==
    [score |-> score, floor |-> floor, clean |-> kept[c] = Rules[c], skipped |-> FALSE,
     error |-> IF phase[c] = "mute" THEN "empty" ELSE "none",
     passed |-> score >= Threshold /\ floor /\ RuleScore(c) >= Threshold]

(* LLMJudge.score merged by CompositeJudge.score, seven parts to three. *)
Composite(c, reply) == Verdict(c, (7 * reply.score + 3 * RuleScore(c)) \div 10, reply.floor)

(* Mutant: a case whose agent raised is scored on its empty response. *)
ErrorScored(c) == [Verdict(c, RuleScore(c), TRUE) EXCEPT !.error = "text"]

ErrorVerdict(c) == Failed("text", FALSE)

Scored(c, v) ==
    /\ result' = [result EXCEPT ![c] = v]
    /\ UNCHANGED <<harness, kept, open, runs, report, summary>>
(* The judges ask whether the error has a text: one that has none is scored  *)
(* on the empty response. *)
GoScored(c, to) == Go(c, "answered", to) \/ Go(c, "mute", to)
ScoreError(c) == Go(c, "errored", "done") /\ Scored(c, ErrorVerdict(c))
ScoreRules(c) == c \notin Judged /\ GoScored(c, "done") /\ Scored(c, Verdict(c, RuleScore(c), TRUE))
ScoreJudge(c) ==
    /\ c \in Judged /\ GoScored(c, "done")
    /\ \E reply \in Replies : Scored(c, Composite(c, reply))

(* The judge is called outside the try: gather passes its error on at once,  *)
(* the gateway is closed, nothing is saved, and the other cases run on. *)
JudgeRaises(c) ==
    /\ JudgeFails /\ c \in Judged /\ GoScored(c, "raised")
    /\ IF harness = "running"
       THEN harness' = "raised" /\ open' = FALSE
       ELSE UNCHANGED <<harness, open>>
    /\ UNCHANGED <<kept, result, runs, report, summary>>

-----------------------------------------------------------------------------
(* The run. *)

Tolerance == 50

(* _compare_to_baseline: what the file of the baseline run holds now. *)
Compare(old, new) ==
    [regressed |-> {c \in Cases : new[c].score + Tolerance < old[c].score},
     improved  |-> {c \in Cases : new[c].score > old[c].score + Tolerance}]

(* Mutant: an errored case is among the scored ones. *)
AllScored(res) == Cases
ScoredCases(res) == {c \in Cases : res[c].error # "text"}

(* _build_summary. *)
Count(res) ==
    LET scored == ScoredCases(res)
        passed == {c \in scored : res[c].passed}
    IN  [passed |-> passed, failed |-> scored \ passed,
         skipped |-> {c \in Cases : res[c].skipped},
         errored |-> {c \in Cases : res[c].error = "text"}]

(* Mutant: the results are compared with those just saved. *)
OwnFile(files) == files[id]
BaseFile(files) == files[base]

Finish ==
    /\ harness = "running" /\ \A c \in Cases : phase[c] = "done"
    /\ harness' = "over" /\ open' = FALSE
    /\ saved' = [saved EXCEPT ![id] = result]
    /\ report' = IF base = None THEN None ELSE Compare(BaseFile(saved'), result)
    /\ summary' = Count(result)
    /\ UNCHANGED <<phase, kept, result, id, base, earlier>>

(* A second run with the first as its baseline. *)
Again ==
    /\ harness = "over" /\ base = None
    /\ \E s \in Seconds : s >= id + MinTick /\ id' = s
    /\ base' = id /\ earlier' = result
    /\ harness' = "running" /\ open' = TRUE
    /\ phase' = [c \in Cases |-> "new"] /\ kept' = [c \in Cases |-> 0]
    /\ result' = [c \in Cases |-> None]
    /\ report' = None /\ summary' = None
    /\ UNCHANGED saved

Next ==
    \/ \E c \in Cases :
          \/ Skip(c) \/ Enter(c) \/ Answer(c) \/ AgentRaises(c)
          \/ ScoreError(c) \/ ScoreRules(c) \/ ScoreJudge(c) \/ JudgeRaises(c)
    \/ Finish \/ Again
Spec == Init /\ [][Next]_vars

\* The run is over, or raised and has no case left.
Resting ==
    \/ harness = "over"
    \/ harness = "raised" /\ \A c \in Cases : phase[c] \in {"done", "raised"}

-----------------------------------------------------------------------------
Done(c) == result[c] # None

(* Types of the state. *)
TypeOK ==
    /\ harness \in {"running", "raised", "over"}
    /\ \A c \in Cases :
          /\ phase[c] \in {"new", "running", "answered", "mute", "errored", "done", "raised"}
          /\ kept[c] \in 0..Rules[c]
          /\ Done(c) <=> phase[c] = "done"
          /\ Done(c) => result[c].score \in (IF c \in Judged THEN Int ELSE 0..1000)
    /\ open \in BOOLEAN /\ id \in Seconds
    /\ base # None => base \in Seconds

(* No more cases than the semaphore allows are with the agent or the judge,  *)
(* those that outlive a failed run included. *)
Bounded == Cardinality(InSem) <= Concurrency

(* A case passes only if its agent raised no error, or one without a text,   *)
(* its score reached the threshold and no dimension fell below its floor. *)
PassIsEarned ==
    \A c \in Cases : (Done(c) /\ result[c].passed) =>
        /\ result[c].error # "text" /\ ~result[c].skipped
        /\ result[c].floor /\ result[c].score >= Threshold

(* The counts of the summary add up to the cases: each is passed, failed or  *)
(* errored, and only one of them. *)
EveryCaseCounted ==
    summary # None =>
        /\ summary.passed \cup summary.failed \cup summary.errored = Cases
        /\ summary.passed \cap summary.errored = {}
        /\ summary.failed \cap summary.errored = {}

(* What a run is compared with is what the earlier run found. *)
BaselineStands == report # None => report = Compare(earlier, result)

(* Runs that begin in one second share an id. *)
VerdictsHold ==
    /\ TypeOK /\ Bounded /\ PassIsEarned /\ EveryCaseCounted
    /\ MinTick > 0 => BaselineStands

(* A case that was skipped is not counted among the failed ones. *)
SkippedNotFailed == summary # None => summary.skipped \cap summary.failed = {}

(* A case passes only with every required element in its response and no     *)
(* forbidden one. *)
RulesAllKept == \A c \in Cases : (Done(c) /\ result[c].passed) => result[c].clean

(* A case passes only if its agent answered. *)
ErrorsFail == \A c \in Cases : (Done(c) /\ result[c].passed) => result[c].error = "none"

(* A case that fails does not take the results of the others with it. *)
OneFailsAlone == harness = "raised" => \A c \in Cases \ Marked : ~Done(c)
=============================================================================
