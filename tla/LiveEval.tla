------------------------------ MODULE LiveEval ------------------------------
(***************************************************************************)
(* LiveEvalRunner (evals/live_runner.py): suites of attempts, one after    *)
(* the other, given the same output directory.  A suite runs every attempt *)
(* of every case, judges it by its run, its workspace and its trace file,  *)
(* and overwrites results.json and the report after each one; the process  *)
(* may die, and a write fail, at any moment.                               *)
(*                                                                         *)
(* An attempt's run is AgentRuntime and its file is TraceFile, both at the *)
(* grain that the results depend on: an event is a model response (with    *)
(* its usage), a denied call, or another one; a file is how many of them   *)
(* its ended lines hold, what follows the last line feed, and whether an   *)
(* ended line is malformed.  What else the verdict depends on, the run's   *)
(* tool results and its workspace, is taken from Contexts.                 *)
(***************************************************************************)
EXTENDS Evaluators, LiveReport, SequencesExt

CONSTANTS
    Plans,          \* cases, in the order discover finds them, and a bound: how
                    \* many suites of them are given the directory
    RunsPerCase,    \* runs_per_case
    Pricing,        \* LivePricing
    Reported,       \* the tokens a provider reports of a response
    Tool,           \* the tool that is denied
    Contexts,       \* tool results and workspaces a run may leave behind
    MaxResponses,   \* bound: the responses of an attempt
    MaxDenials      \* bound: the denied calls of an attempt

\* discover raises where there is no case; LiveEvalCase rejects replay expectations.
ASSUME PlansAssumption ==
    \A p \in Plans :
        /\ p.suites \in Nat
        /\ Len(p.cases) \in Nat \ {0} /\ DOMAIN p.cases = 1 .. Len(p.cases)
        /\ \A i \in DOMAIN p.cases : p.cases[i].expected.replay = {}
ASSUME UsageAssumption == Reported \in [TokenKinds -> Nat]
ASSUME PricingAssumption == Pricing \in [TokenKinds -> SUBSET Nat]
ASSUME RunsAssumption == RunsPerCase \in Nat \ {0}
ASSUME BoundsAssumption == {MaxResponses, MaxDenials} \subseteq Nat

VARIABLES
    plan,       \* what the directory is used for
    pc,         \* what run_all is doing; "idle" when no suite runs
    suite,      \* the suite that runs, or ran last
    position,   \* the attempt in progress, counted over all cases
    attempts,   \* suite.attempts, in memory
    traces,     \* the trace files
    own,        \* history: the events of each kind of the attempt in progress
    before,     \* history: those its file held when it began
    status,     \* the status of its run
    results,    \* results.json
    report,     \* README.md beside it
    completed   \* history: the suites whose run_all returned

vars == <<plan, pc, suite, position, attempts, traces, own, before, status, results, report, completed>>

diskVars == <<traces, results, report>>
runVars == <<own, before, status>>

\* The events a result depends on.
Counted == {"response", "denial"}
Kinds == Counted \cup {"other"}

None == [kind \in Counted |-> 0]

NoFile == [counts |-> None, tail |-> "ended", damaged |-> FALSE]

\* A file of results: whole once it has been written, not so before or meanwhile.
Unwritten == [whole |-> FALSE, suite |-> 0, content |-> <<>>]
Written(content) == [whole |-> TRUE, suite |-> suite, content |-> content]

Total == Len(plan.cases) * RunsPerCase

\* The trace of the attempt at a position: traces/<case name>/attempt-<n>.jsonl.
CaseAt(p) == plan.cases[1 + ((p - 1) \div RunsPerCase)]
Slot(p) == <<CaseAt(p).name, 1 + ((p - 1) % RunsPerCase)>>

Slots == {Slot(p) : p \in 1 .. Total}

Init ==
    /\ plan \in Plans
    /\ pc = "idle"
    /\ suite = 0
    /\ position = 0
    /\ attempts = <<>>
    /\ traces = [slot \in Slots |-> NoFile]
    /\ own = None
    /\ before = None
    /\ status = "running"
    /\ results = Unwritten
    /\ report = Unwritten
    /\ completed = {}

-----------------------------------------------------------------------------
(* The trace files.                                                         *)

\* A line appended to text that no line feed ends spoils both.
Extended(file, kind) ==
    IF file.tail # "ended" THEN [file EXCEPT !.tail = "ended", !.damaged = TRUE]
    ELSE IF kind \in Counted THEN [file EXCEPT !.counts[kind] = @ + 1]
    ELSE file

\* What a write cut short leaves: nothing, the head of the line, the whole line
\* without its line feed, or all of it.
CutShort(file, kind) ==
    {file, [file EXCEPT !.tail = "torn"], Extended(file, kind)} \cup
    (IF file.tail = "ended" THEN {[file EXCEPT !.tail = kind]} ELSE {})

\* Mutant: a malformed line is passed over wherever it is.
ReadableAnyhow(file) == TRUE

\* TraceReader.read returns: only text after the last line feed may be malformed.
Readable(file) == ~file.damaged

\* _usage_from_events and policy_denials: all the events of the file.
Events(file) ==
    [kind \in Counted |-> file.counts[kind] + (IF file.tail = kind THEN 1 ELSE 0)]

\* The trace file of the attempt in progress.
current == traces[Slot(position)]

RecordLine(kind) == traces' = [traces EXCEPT ![Slot(position)] = Extended(@, kind)]

-----------------------------------------------------------------------------
(* run_all.                                                                 *)

\* Mutant: a suite goes on with the attempts of the one before it.
StartSuiteAnew ==
    /\ pc = "idle"
    /\ suite < plan.suites
    /\ suite' = suite + 1
    /\ position' = 1
    /\ pc' = "attempt"
    /\ UNCHANGED <<attempts, diskVars, runVars, completed>>

StartSuite ==
    /\ pc = "idle"
    /\ suite < plan.suites
    /\ suite' = suite + 1
    /\ attempts' = <<>>
    /\ position' = 1
    /\ pc' = "attempt"
    /\ UNCHANGED <<diskVars, runVars, completed>>

\* The fixture is copied and run_started recorded.
StartAttempt ==
    /\ pc = "attempt"
    /\ own' = None
    /\ before' = Events(current)
    /\ status' = "running"
    /\ RecordLine("other")
    /\ pc' = "running"
    /\ UNCHANGED <<suite, position, attempts, results, report, completed>>

\* A run's events: its responses, a denied call of one of them, and others.
CanRecord(kind) ==
    /\ kind = "response" => own["response"] < MaxResponses
    /\ kind = "denial" => own["denial"] < MaxDenials /\ own["response"] > 0

With(kind) == IF kind \in Counted THEN [own EXCEPT ![kind] = @ + 1] ELSE own

RecordEvent ==
    /\ pc = "running"
    /\ \E kind \in Counted :
          /\ CanRecord(kind)
          /\ own' = With(kind)
          /\ RecordLine(kind)
    /\ UNCHANGED <<pc, suite, position, attempts, before, status, results, report, completed>>

\* The run ends and records so; a run that did not fail has had a response.
EndRun ==
    /\ pc = "running"
    /\ RecordLine("other")
    /\ status' \in (IF own["response"] > 0 THEN {"completed", "max_turns", "failed"}
                    ELSE {"failed"})
    /\ pc' = "evaluating"
    /\ UNCHANGED <<suite, position, attempts, own, before, results, report, completed>>

\* An event, or the last of a run, cannot be written; the run then records that
\* it failed.
RecordFails ==
    /\ pc = "running"
    /\ \E kind \in Kinds :
          /\ CanRecord(kind)
          /\ own' = With(kind)
          /\ \E file \in CutShort(current, kind) :
                traces' = [traces EXCEPT ![Slot(position)] = Extended(file, "other")]
    /\ status' = "failed"
    /\ pc' = "evaluating"
    /\ UNCHANGED <<suite, position, attempts, before, results, report, completed>>

\* What a run of this status and these events leaves: a result "denied" for each
\* denied call, save for one whose recording failed, and results only of the calls
\* of a response that was not the last of a completed run.
CanLeave(context) ==
    LET denied == CountOf(context.tool_results, LAMBDA result : result.status = "denied")
    IN  /\ \/ denied = own["denial"]
           \/ status = "failed" /\ denied + 1 = own["denial"]
        /\ context.tool_results # <<>> =>
              own["response"] > (IF status = "completed" THEN 1 ELSE 0)

\* The EvalContext.  No other decision than these is expected of a case here.
Context(context, events) ==
    [tool_results |-> context.tool_results, files |-> context.files,
     exit_codes |-> context.exit_codes, status |-> status,
     denials |-> events["denial"], divergence |-> {},
     decisions |-> IF events["denial"] > 0
                   THEN {[tool_name |-> Tool, decision |-> "deny"]} ELSE {}]

UsageOf(events) == [kind \in TokenKinds |-> events["response"] * ModelUsage(Reported)[kind]]

AttemptResult(verdict, events) ==
    [passed |-> verdict.passed, artifact_passed |-> verdict.artifact_passed,
     runtime_passed |-> verdict.runtime_passed,
     tool_contract_passed |-> verdict.tool_contract_passed,
     failure_category |-> verdict.failure_category,
     case_name |-> CaseAt(position).name, attempt |-> Slot(position)[2],
     usage |-> UsageOf(events), cost |-> EstimateUsd(Pricing, UsageOf(events)),
     denials |-> events["denial"], status |-> status]

\* run_attempt returns a result.
Evaluate ==
    /\ pc = "evaluating"
    /\ Readable(current)
    /\ \E context \in {c \in Contexts : CanLeave(c)} :
          LET events == Events(current)
              verdict == Verdict(CaseAt(position).expected, Context(context, events))
          IN  attempts' = Append(attempts, AttemptResult(verdict, events))
    /\ pc' = "results"
    /\ UNCHANGED <<suite, position, diskVars, runVars, completed>>

\* read raises TraceFormatError, which leaves run_attempt and run_all.
EvaluationFails ==
    /\ pc = "evaluating"
    /\ ~Readable(current)
    /\ pc' = "idle"
    /\ UNCHANGED <<suite, position, attempts, diskVars, runVars, completed>>

\* _persist: each of the two files is emptied and then written.
OpenResults ==
    /\ pc = "results"
    /\ results' = Unwritten
    /\ pc' = "writing results"
    /\ UNCHANGED <<suite, position, attempts, traces, runVars, report, completed>>

WriteResults ==
    /\ pc = "writing results"
    /\ results' = Written(attempts)
    /\ pc' = "report"
    /\ UNCHANGED <<suite, position, attempts, traces, runVars, report, completed>>

OpenReport ==
    /\ pc = "report"
    /\ report' = Unwritten
    /\ pc' = "writing report"
    /\ UNCHANGED <<suite, position, attempts, traces, runVars, results, completed>>

WriteReport ==
    /\ pc = "writing report"
    /\ report' = Written(Report(attempts))
    /\ pc' = "next"
    /\ UNCHANGED <<suite, position, attempts, traces, runVars, results, completed>>

\* Mutant: one attempt too many.
NextAttemptTooFar ==
    /\ pc = "next"
    /\ position <= Total
    /\ position' = position + 1
    /\ pc' = "attempt"
    /\ UNCHANGED <<suite, attempts, diskVars, runVars, completed>>

NextAttempt ==
    /\ pc = "next"
    /\ position < Total
    /\ position' = position + 1
    /\ pc' = "attempt"
    /\ UNCHANGED <<suite, attempts, diskVars, runVars, completed>>

Complete ==
    /\ pc = "next"
    /\ position = Total
    /\ completed' = completed \cup {suite}
    /\ pc' = "idle"
    /\ UNCHANGED <<suite, position, attempts, diskVars, runVars>>

\* The process dies, or an exception leaves run_all: a fixture that cannot be
\* copied, a full disk, Ctrl-C, a workspace that cannot be removed because what a
\* command left running still writes to it.  The line being recorded may be cut short.
Die ==
    /\ pc # "idle"
    /\ IF pc \in {"attempt", "running"}
       THEN \E kind \in (IF pc = "running" THEN Kinds ELSE {"other"}) :
                /\ CanRecord(kind)
                /\ \E file \in CutShort(current, kind) :
                      traces' = [traces EXCEPT ![Slot(position)] = file]
       ELSE UNCHANGED traces
    /\ pc' = "idle"
    /\ UNCHANGED <<suite, position, attempts, runVars, results, report, completed>>

Step ==
    \/ StartSuite \/ StartAttempt \/ RecordEvent \/ EndRun
    \/ RecordFails \/ Evaluate \/ EvaluationFails
    \/ OpenResults \/ WriteResults \/ OpenReport \/ WriteReport
    \/ NextAttempt \/ Complete \/ Die

Next == Step /\ UNCHANGED plan

Spec == Init /\ [][Next]_vars

-----------------------------------------------------------------------------
Tally == [Counted -> Nat]

Result == [passed : BOOLEAN, artifact_passed : BOOLEAN, runtime_passed : BOOLEAN,
           tool_contract_passed : BOOLEAN, failure_category : FailureCategories,
           case_name : {CaseAt(p).name : p \in 1 .. Total}, attempt : 1 .. RunsPerCase,
           usage : [TokenKinds -> Nat], cost : SUBSET Nat, denials : Nat,
           status : {"completed", "max_turns", "failed"}]

TypeOK ==
    /\ plan \in Plans
    /\ pc \in {"idle", "attempt", "running", "evaluating", "results", "writing results",
               "report", "writing report", "next"}
    /\ suite \in 0 .. plan.suites
    /\ position \in 0 .. Total
    /\ attempts \in Seq(Result)
    /\ traces \in [Slots -> [counts : Tally, tail : Kinds \cup {"ended", "torn"},
                             damaged : BOOLEAN]]
    /\ own \in Tally
    /\ before \in Tally
    /\ status \in {"running", "completed", "max_turns", "failed"}
    /\ results.whole \in BOOLEAN
    /\ results.suite \in 0 .. suite
    /\ results.content \in Seq(Result)
    /\ report.whole \in BOOLEAN
    /\ report.suite \in 0 .. suite
    /\ completed \subseteq 1 .. suite

\* results.json, whenever it can be read, holds the attempts of one suite, none
\* missing, repeated or out of order, and of a suite that returned it holds all.
ResultsAreOfOneSuite ==
    results.whole =>
        /\ Len(results.content) \in 1 .. Total
        /\ \A p \in DOMAIN results.content :
              <<results.content[p].case_name, results.content[p].attempt>> = Slot(p)
        /\ results.suite \in completed => Len(results.content) = Total
        /\ results.suite = suite => IsPrefix(results.content, attempts)

\* The usage and the denials of a result are those of its attempt plus all that
\* the file held before it: its own only if no attempt of that name and number
\* has used the file before, which an earlier suite in the directory has done, and
\* an earlier case of the same name.  A run that failed may have had one event
\* that is not counted.  Every token the provider reported is charged once, at the
\* rate of its own kind, and the sum is rounded.
UsageIsOfTheFile ==
    pc = "results" =>
        LET result == Last(attempts)
            all == [kind \in Counted |-> own[kind] + before[kind]]
            Charge == MapThenSumSet(LAMBDA kind : Reported[kind] * RateOrZero(Pricing[kind]),
                                    TokenKinds)
            Counts(events) ==
                /\ result.usage.output = events["response"] * Reported.output
                /\ result.denials = events["denial"]
                /\ result.cost \in {{}, {Rounded(events["response"] * Charge)}}
                /\ (\A kind \in TokenKinds : Pricing[kind] # {}) => result.cost # {}
        IN  \/ Counts(all)
            \/ /\ status = "failed"
               /\ \E kind \in Counted : own[kind] > 0 /\ Counts([all EXCEPT ![kind] = @ - 1])

\* A result is consistent with itself and its run: it passed if its three groups
\* did, and then alone has no failure category; a category that names the run's
\* end names the end it had.  A denial that made it pass, or that it is put down
\* to, is the run's own unless the file held one before.
VerdictIsOfTheRun ==
    pc = "results" =>
        LET result == Last(attempts)
            expected == CaseAt(position).expected
        IN  /\ result.passed <=> /\ result.artifact_passed
                                 /\ result.runtime_passed
                                 /\ result.tool_contract_passed
            /\ result.passed <=> result.failure_category = "none"
            /\ result.failure_category = "max_turns" => status = "max_turns"
            /\ ~result.passed /\ status = "failed" => result.failure_category = "provider_error"
            /\ \/ result.failure_category = "policy_denied"
               \/ result.passed /\ expected.policy_decision_equals # {}
               => own["denial"] + before["denial"] > 0

\* The report, whenever it can be read, adds up: its rows are of all attempts and
\* no other, what failed has a category, no case fails a group and passes, and
\* the cost is that of the tokens, but for half a millionth of a dollar an attempt,
\* as each is rounded before they are added.  Pass@k is not below the pass rate
\* once every name has had as many attempts, and only then: a report written in
\* the middle of a suite, or of cases with one name, may say otherwise.  It tells
\* of attempts of results.json, when both can be read: of all, of all but the last,
\* or of an earlier suite while results.json has the first attempt of a later one.
\* (When results.json cannot be read, as after a death in the middle of a write,
\* this says nothing, and the attempts before are lost.)
ReportAddsUp ==
    report.whole =>
        LET content == report.content
            rows == content.cases
            SumOfRows(field) == MapThenSumSet(LAMBDA name : rows[name][field], DOMAIN rows)
            failed == MapThenSumSet(LAMBDA c : content.failures[c], DOMAIN content.failures)
        IN  /\ SumOfRows("attempts") = content.attempts
            /\ \A verdict \in Verdicts :
                  /\ SumOfRows(verdict) = content.rate[verdict][1]
                  /\ content.at_k[verdict][1]
                        = Cardinality({name \in DOMAIN rows : rows[name][verdict] > 0})
                  /\ content.rate["passed"][1] <= content.rate[verdict][1]
                  /\ (\A name, other \in DOMAIN rows : rows[name].attempts = rows[other].attempts)
                     => content.rate[verdict][1] * content.at_k[verdict][2]
                            <= content.at_k[verdict][1] * content.rate[verdict][2]
            /\ failed = content.attempts - content.rate["passed"][1]
            /\ "none" \notin DOMAIN content.failures
            /\ content.cost = {} <=> EstimateUsd(Pricing, content.usage) = {}
            /\ \A cost \in content.cost :
                  IsRounded(cost, Price(Pricing, content.usage), content.attempts)
            /\ results.whole =>
                  \/ /\ report.suite = results.suite
                     /\ content.attempts \in {Len(results.content) - 1, Len(results.content)}
                     /\ content = Report(SubSeq(results.content, 1, content.attempts))
                  \/ report.suite < results.suite /\ Len(results.content) = 1

\* A malformed line within a trace is for ever: no suite given this directory
\* comes to its end again, the one in progress included.
DamagedTraceStopsSuites ==
    [][(\E slot \in Slots : traces[slot].damaged) => completed' = completed]_vars
=============================================================================
