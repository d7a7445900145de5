# Verification of mini-coding-agent-harness

TLA+ models of the harness in `src/src/mini_harness` (paths below are relative to
that directory), the TLC configurations that check them on small instances, and
theorems about every one of these models that TLAPS checks for every value of the
constants.

## 1. The system

The harness runs a language model against a workspace. One *run* alternates between
asking the model and executing the tool calls it answers with, writes every step to a
JSONL trace, and ends with a result for the caller. Around that loop there are a policy
that decides on each call, tools that read, write and execute, clients for two model
providers, a replay facility that feeds a trace back, and two evaluation runners.

| Component | Source | State it keeps | Operations | What makes it correct |
|---|---|---|---|---|
| Agent runtime | `runtime.py`, `messages.py` | turn, conversation, results | `run`, `_execute_call`, `_finish` | effects only after an allow that is on the trace; every call of a conversation sent to the model is answered; the trace and the caller are told the same end; every step moves on, within the budget of turns |
| Policy and approval | `policy/*.py` | none | `evaluate`, `approve` | outside paths and dangerous commands never pass; "ask" passes only with this call's consent |
| Registry and tools | `tools/*.py` | the workspace | `execute` | every failure becomes a result, which tells what became of the files; nothing outside the workspace is touched; the deadline of `wait_for` bounds a call |
| Trace recorder | `trace/recorder.py` | sequence number, sensitive values, the file | `record`, `register_sensitive_value` | written and flushed before the step it announces; no string that holds a registered value whole |
| Trace reader | `trace/reader.py` | none | `read`, `model_responses` | loses no recorded event; passes over one torn last line only |
| Matcher and replay | `trace/matcher.py`, `models/replay.py`, `cli.py`, `evals/runner.py` | position in the responses | `compare`, `complete` | a match means the same calls in the same order; a difference is reported |
| Local executor | `executors.py` | one process group | `run`, `_terminate_process_group` | after a deadline the call ends and no process of the group is left |
| Docker executor | `executors.py` | one container | `run`, `_cleanup_cancelled_run` | a cleanup ends, and once its second removal is confirmed nothing of the command runs, in whatever order the daemon served it |
| OpenAI client | `models/openai.py` | response id, own copy of the conversation, tool mode | `complete` | each request puts the whole conversation before the model once, with all calls answered |
| Anthropic client | `models/anthropic.py` | none | `complete` | every conversation a run sends is one the Messages API accepts; usage counts each token once |
| Live eval runner | `evals/live_runner.py` | suite result, output directory | `run_all`, `run_attempt`, `_persist` | results of one suite, in order; usage and verdict of the attempt; the report adds up; survives interruption |
| Evaluators | `evals/evaluators.py` | none | `evaluate`, `build_evaluators` | an attempt passes if its groups do; a command's deadline ends it |
| Reports | `evals/live_report.py`, `LiveSuiteResult` | none | `metrics`, `format_live_markdown_report` | rows, rates, Pass@k and price agree |
| Cases, configuration, CLI | `evals/case.py`, `config.py`, `cli.py` | none | — | parsing, formatting |

How they interact. `AgentRuntime.run` is one coroutine. It calls `record` between all
other steps (synchronously; each call opens, writes, flushes and closes the file and may
raise), awaits the model client, the approval handler and the registry, and may be
cancelled at those awaits. The registry puts a deadline around the tool
(`asyncio.wait_for`), which reaches an executor as a cancellation of its
`communicate()`. The replay command, the eval runner and the live eval runner each build
a runtime, run it and read the trace file it wrote.

What is hard here: which step a failure or cancellation falls between (a raising
recorder, an unresolvable path in `evaluate`, Ctrl-C at a prompt); the order of
*register, redact, record*; the turn budget with its extra finalization turn; processes
that outlive their shell, pipes that stay open, an exit learned late; a daemon that
serves requests in any order, and after their sender is gone; a record that raises although its
line is written; a trace cut short and appended to later; two
places that may keep a provider conversation; files and links that change between a
decision and its use; evidence left by an earlier suite; and comparisons that are skipped. Each of
them is listed, at its line, under `hazards` in `PROJECT.json`, with the properties that
would catch it.

## 2. Modules

```
PolicyEngine <- ToolRegistry <- AgentRuntime -- implements --> RunContract
                                   ^
                           AnthropicClient <- MCAgentRuntime, AgentRuntimeProofs
LocalExecutor <- MCLocalExecutor, LocalExecutorProofs
DockerExecutor <- DockerExecutorProofs
Workspace <- MCWorkspace, WorkspaceProofs
TraceFile <- TraceFileProofs
Replay <- MCReplay, ReplayProofs
OpenAIClient <- OpenAIClientProofs
Evaluators, LiveReport <- LiveEval <- MCLiveEval, LiveEvalProofs
```

An arrow is EXTENDS, except the refinement. The satellites are separate state machines
rather than parts of one product: each meets the runtime at one narrow interface (a
result of `ToolRegistry!Execute`, a model response, a line of the trace), and its own
difficulty lies on the far side of that interface.

### PolicyEngine, ToolRegistry (pure)

`Evaluate` is `PolicyEngine.evaluate`: first the shape of the arguments, then the
workspace boundary or the dangerous patterns, then the configured policy. A call's
arguments are one of seven classes that the code tells apart; which strings belong to a
class (regular expressions, symbolic links) is not computed. `EvaluateRaises` is the
one way out that is no outcome: `resolve_workspace_path` turns only a path outside the
workspace into `PathOutsideWorkspaceError`. `Execute` is the set of results
`ToolRegistry.execute` may return, `HasEffects` says which calls may have changed the
workspace by then. A text is the set of pieces of sensitive content it quotes. The output of
a sensitive read or of a command is nothing, the content, or, truncated, any part of it and
the marker that `truncate_output` adds.

### AgentRuntime

`pc` names the record or the await at which the run is, so that one action is the code
between two points where something else can happen. The other variables are the locals
and fields of the code under their names; `consented` is a history variable. In
particular

| Action | Code |
|---|---|
| `Start`, `BeginTurn`, `BeginFinalization`, `ExhaustTurns` | the head of `run`, the loop and its end |
| `RequestModel`, `ModelResponds`, `ModelFails`, `RecordResponse` | one exchange with the model client |
| `RequestTool`, `EvaluatePolicy`, `EvaluationFails`, `Approve`, `ApprovalFails`, `RecordAllow`, `RecordDeny`, `StartTool`, `ToolReturns` | `_execute_call` |
| `FinishTool` | registration of a sensitive value, `tool_finished`, and the two appends of the loop |
| `Complete`, `FinishAtLimit`, `ReportFailure`, `ReportCancel` | `_finish` and the two handlers |
| `Cancel`, `RecorderFails` | `CancelledError` at an await that suspends; `record` raising anywhere |

`Sanitize` is what `_sanitize` does with the values that were registered: one is replaced
wherever a string value of the event holds all of it. What stands outside string values, the
names of arguments and numbers (`names`), is copied as it is. `FinishTool` and `RecorderFails`
of `tool_finished` register the value first, as the code does.

`record` may raise in `write`, `flush`, `fsync` or `close`, so `RecordRaises` leaves nothing, a
part or all of the line in the file. The next line is glued to a part, and the reader loses
both: the trace then ends in an event "torn". That the line is there although `record` raised
shows in three ways, which the properties admit and nothing else: `run_finished` is followed by
`run_failed`, a terminal event is on the trace of a run whose caller sees the exception of
`record`, and the trace may have one answer more than the caller of a run that failed.

### RunContract

What a run promises, in six actions on four counters: consult the model within the
budget, ask for a call, run it, answer it, finish in good order, or break off, when the caller
may lack the last answer and no other. `AgentRuntime!Contract` maps a run onto
it *through what the trace and the caller show*: the open call is read off the last event
of the trace, not off `pc`.

### Workspace

One call of `read_file`, `write_file` or `edit_file` after the other, from the policy's
look at its path to the `tool_finished` record: `Request` and `Refuse` (policy and
approval), `Resolve` (the tool's own resolution), `ReadFile` and `EditFile` (reading),
`Open`, `WriteText` and `WriteFails` (writing in place, which may stop after any
beginning of the text), `RecordFinished` (which outputs are registered). Between any two of
them `Act` lets another process rewrite or remove a file or move a link. `moved` and
`touched` are history variables: since which of the two resolutions a link has moved, and
whether anyone has acted since the tool's. The properties say exactly how far the two
resolutions protect: what happens before the second one is caught, what happens after it
is not. `ReadText` is `read_text`, which turns every line ending into a line feed (`AsRead`
says of a piece what it is read as); `write_text` writes what it is given, as on POSIX. So an
edit writes back the text as it was read, and all line endings of a CRLF file change with the
one piece that was asked for.

### AnthropicClient

The client keeps no state, so it is an operator, `ToAnthropicMessages`, over the
conversation of AgentRuntime, and its property is checked in the `runtime` run on every
conversation a run can send, and proved with the properties of the runtime.

### LocalExecutor, DockerExecutor

LocalExecutor has two callers. `executor` is `LocalCommandExecutor.run`. `evaluator` is
`CommandExitCode.evaluate`, which starts a shell in the same way but in the group of the
harness, has a deadline of its own, kills the shell alone (`TimeOut`), and has two ways out
that are not handled: `TimeOutFails`, when the process is gone as the deadline passes, and
`Abandon`, when the suite is cancelled.

The parts of the system outside `src/` that the executors depend on are explicit here and
marked external in `PROJECT.json`: processes fork, leave the session, hold or drop the
pipe, exit; the event loop learns of the shell's exit later; a reader with too much
unread output pauses its pipe; `Process.wait()` needs the exit *and* the closed pipes.
The daemon serves or refuses requests in any order, late or never; the Docker CLI may exit at
any time, because its connection is lost while its container goes on. The asyncio
behaviour was taken from CPython 3.11's `base_subprocess` and `subprocess` modules, as
`runtime.py` and `executors.py` use them.

### TraceFile

Lines of whole or torn events, with or without a line feed; writes cut short by a death
or an exception at four points; later runs given the same path.

### OpenAIClient

The client's three fields, the conversation of the runtime, and what the provider has
stored under each response. A context is compared with the conversation as sequences of
named entries.

### Replay

Two runs, one after the other, at the grain of turns and decisions; the first with a
model that may answer anything from `Responses`, and that may be broken off anywhere; the
second from the recorded responses or, in a case of the eval runner, from the case's own.
A comparison gives the index, the reason and the turn of the first difference. The caller is the command (default configuration,
leaves before comparing when the replay did not complete) or the eval runner.

### LiveEval

Suites given one output directory, with the trace of each attempt, `results.json` and the
report as three kinds of file that are written in several steps. The run inside an
attempt is AgentRuntime reduced to the events that a result counts; what else it leaves,
its tool results and its workspace, is one of `Contexts` that agrees with those events.
`Evaluate` then judges it by two pure modules. Evaluators has every evaluator as an
assertion over an `EvalContext`, the three groups, and the failure category as the first
of a list of conditions. LiveReport has the usage and its price, the rates, Pass@k and the
rows of the report; a rate is the pair of its counts. The price of an attempt is rounded to a
multiple of the unit of money, a millionth of a dollar (`Rounded`; `RateScale` says how many of
the rates' fractions make one unit). The two
modules read different evidence where the code does: statuses and results from the run,
decisions and denials from the whole trace file.

## 3. Runs

Every run is exhaustive within its bounds. Deadlock checking is off in all of them because
every machine here ends.

| Run | Distinct states | Checks |
|---|---|---|
| `runtime` | 488 702 | `TypeOK`, `WriteAheadTrace`, `EffectsArePermitted`, `ConversationPaired`, `TerminalEventIsTheResult`, `RequestsSettled`, `NoSensitiveEcho`, `RunMovesOn`, `KeepsContract`, `RequestIsAccepted` |
| `local_executor` | 2 729 | `ResultIsComplete`, `CutOffGroupIsDead`, `HangsOnlyOnHeldOutput` |
| `docker_executor` | 1 024 | `NothingRunsAfterCleanup`, `CleanupHangsOnlyOnOutput` |
| `trace_file` | 35 472 | `ReadableAfterDeath`, `NoRecordedEventIsLost`, `EventsAreOrdered` |
| `openai_client` | 606 | `ModelSeesTheConversation`, `CallsAreAnswered`, `RequestCanBeFormed` |
| `replay` | 9 483 | `DivergenceIsTheFirst`, `CompletedRunMatches`, `SameConfigurationMatches`, `MatchIsOfTheWholeRun` |
| `live_eval` | 1 097 520 | `ResultsAreOfOneSuite`, `UsageIsOfTheFile`, `VerdictIsOfTheRun`, `ReportAddsUp`, `DamagedTraceStopsSuites` |
| `workspace` | 6 091 630 | `ResultTellsTheFiles`, `SensitiveOutputIsRegistered`, `ToolsStayInside` |

Every passing run also checks its module's `TypeOK`. What the less obvious ones show, and
where they end:

- `TerminalEventIsTheResult`: a run that returns has its status and turns in the last line of
  the trace. The exceptions are those of a `record` that raised: a failed run's last line may be
  torn, and a `run_finished` may stand right before the `run_failed` that contradicts it, in a
  run whose caller is told of the failure.
- `NoSensitiveEcho`: from its own `tool_finished` on, no string value holds the whole of an
  output that was registered. That is what the code does, and less than "content read from
  paths matching `sensitive_paths` is also redacted from tool events and subsequent recorded
  model responses" (`README.md:166`): an argument's *name* is not looked at; a truncated output
  is registered with its marker, so that a quotation of the part that was kept is written; and so
  is any other part of a content. The model has all three, in `names`, `Outputs` and `Sanitize`.
- `RunMovesOn`: no step gives back a turn, repeats a call or goes back within one, whatever
  fails. With the budget of turns, which `TypeOK` and `KeepsContract` bound, no run is endless
  unless something it awaits is.
- `NothingRunsAfterCleanup`: the second removal is sent when the CLI, the one that would ask
  for a start, is gone, so that no order in which the daemon serves creation, start and removals
  leaves something running behind a confirmed second removal. A container that was created and
  never started may remain. Of a second removal that was refused, timed out or was left out, and
  of a CLI that lost its connection (its run *returns*, and nothing is removed), nothing is
  claimed; the model has these steps.
- `RequestCanBeFormed`: none of the client's own checks raises. It says nothing of a client
  used after a request failed, which no caller does.
- `RequestIsAccepted`: whatever was denied or failed in a response of several calls, the
  results become one user message in the order of the calls, and the finalization turn
  and every later one start from an accepted conversation.
- `ResultTellsTheFiles`: a read returns the text with the line endings `read_text` makes of it.
  The success of a write is the whole of what was asked and nothing else. That of an edit is what
  was asked *and* the translation of every line ending of the file, so that in a CRLF file it is
  not the "precise local change" its description speaks of. A refusal has changed nothing,
  and a failed write or edit may have left any beginning of its text: its error does not say
  whether the old text is still there.
- `ToolsStayInside`, `SensitiveOutputIsRegistered`: an approval that takes minutes is covered by
  the tool's own resolution; a link that moves between that and the `open` is not, and the
  recorder decides what is sensitive by the policy's resolution, not by the tool's.
- `UsageIsOfTheFile`, `VerdictIsOfTheRun`: in a new directory a result is that of its own
  attempt. In a used one it also counts, and can pass by or be put down to, what the file
  held before; and the directory is a used one for the second of two cases with one name. The
  charge is the price of the tokens, rounded.
- `ResultsAreOfOneSuite`, `ReportAddsUp`: these speak of a `results.json` and a report that can
  be read. A death in the middle of rewriting them loses every earlier attempt's result with
  the last one's; the model has these steps (`OpenResults`, `OpenReport`, `Die`), and both
  properties are silent about what is left.
- `ReportAddsUp`: the rows of the report add up to its totals, the cost is that of the tokens but
  for half a unit an attempt, and Pass@k is at least the pass rate when every case, by name, has
  had as many attempts; a report from the middle of a suite, or of two cases of one name beside
  another, may show less.

Four more runs expect a violation; each is a disagreement between a document and the code:

- `finalization_unanswered`: a response to the finalization turn that holds calls ends the
  run with status `max_turns` and the calls without a result, against "every model tool
  request receives exactly one result" (`README.md:66`). `ConversationPaired` shows the
  consequence stays inside: such a conversation is never sent to a model.
- `local_group_survives`: `_terminate_process_group` does nothing once the shell's exit is
  known. `sleep 60 & exit 0` keeps the pipe, so `communicate()` runs into the deadline, and
  the `sleep` survives it. `CutOffGroupIsDead` is the part that does hold.
- `local_deadline_hangs`: after the kill, `process.wait()` waits for closed pipes. With
  unread output (`yes`) the paused reader never sees the end; with `setsid sleep 60` it
  comes when that process ends. Both were reproduced with the code.
  `HangsOnlyOnHeldOutput` is the part that does hold.
- `replay_unreported`: `_print_run_result` raises `Exit(1)` for a replay that did not
  complete, before the comparison.

### Bounds, and why they are enough

- `runtime`: at most three turns (two and a finalization turn), two calls in a response, two
  call ids of which one repeats within a response, a sensitive text of two pieces and the
  marker. That has every order of two calls, a call after a denied or failed one, a repeated id,
  a sensitive text that is read whole or truncated and quoted in part and in whole, in string
  values and in argument names, before and after it is known, and a completion in the last turn
  and in the finalization turn. Responses are six, one for
  each way a call can go: sensitive read, allowed and asked effects, outside,
  unresolvable, malformed and dangerous arguments, unknown tool. Configurations are five
  that put each policy and each handler to use. All four kinds of fault are enabled, a
  `record` that raises with each part of a line written.
  The properties are invariants of a single call or of two neighbouring ones, and the
  theorems below carry all of them to every bound.
- `local_executor`: a shell and two descendants; two suffice for one that stays in the group
  and one that leaves it, and for a fork by a process that has left; for both callers.
- `docker_executor`: unbounded by constants; one command has finitely many states.
- `trace_file`: two runs of three events: a torn line, one glued to it, and events after
  both.
- `openai_client`: three responses of up to two calls: a first turn, a continuation and one
  that continues a continuation, in every mode and profile, with a fallback at each.
- `replay`: recordings of one to three turns with a finalization turn or without, replayed
  with a default of two, so recordings are shorter than, equal to and longer than it; a
  case's own responses end too early, are the same, or differ in a call.
- `live_eval`: two suites of two cases; or one of three of which two have one name and share a
  trace file; or one of two with one name and no other, so that this name has two attempts and
  Pass@k can exceed the pass rate (else there is one attempt per case). Two responses and one
  denial each, so that an attempt has a call whose result the model saw. The cases between them
  use every kind of expectation but truncation and replay; prices of the four kinds of token
  differ, so that a token charged at the wrong rate, or twice, shows, and four fractions make a
  unit, so that rounding changes what is charged.
- `workspace`: two calls and two acts of other processes, a file that links are made of, a
  sensitive one and one outside, texts of up to two pieces, line endings of both kinds among
  them, of which the longer exceed the output limit. One act is a change before the second resolution or after it, two are one of
  each, or a link moved there and back; the second call finds what the first and the acts
  left. A path is caught by its own two resolutions, so no third call or act adds a case.

### Fairness

- `LocalExecutor!FairSpec`, `DockerExecutor!FairSpec`: the caller's steps, the event loop
  learning an exit, and the deadline. Nothing is assumed of the command's processes, of
  the daemon (its replies are raced by a timeout in the code) or of a second
  cancellation.
- The other modules state safety only and have no fairness. In particular AgentRuntime assumes
  of no tool, model or person that they answer: a command can hold the loop for ever
  (`local_deadline_hangs`).

## 4. Theorems

Each holds for every value of the constants that the named assumptions of its module admit:
any ids, values and calls, any set of responses of any length, any limits, any number of
processes, runs, turns, suites, events or acts, any fault the model has. An invariant of a run
is seldom inductive; the middle of each proof is the invariant that is, which is a conjunction
of named parts in the proof module, and preserved by every action in a step of its own. TLC
checked these invariants on the runs of section 3 where they are finite to evaluate:
`PartlyAnswered`, `LastTurn` and `ReportInv` speak of some sequence among all of them. Of
`LastTurn` it checked the part that needs none, and the other two are proved only.

The theorems state all invariants of the passing runs, the action properties `NoSensitiveEcho`, `RunMovesOn`,
`ToolsStayInside` and `DamagedTraceStopsSuites`, and the refinement `KeepsContract`.

### The runtime

`AgentRuntimeProofs`.

| Theorem | States | Argument |
|---|---|---|
| `TypeCorrect` | `TypeOK` | inductive with one strengthening that is part of it: inside `_execute_call`, `position` is a call of the response |
| `EffectsPermitted` | `EffectsArePermitted` | the property speaks of one location. The invariant carries the decision to it: from `approval` on, `outcome` is what `Evaluate` says of this very call up to `approved`, which at `decided` is true only with `consented = <<turns, position>>`; from `start_tool` on it is `Allowed` |
| `WrittenAhead` | `WriteAheadTrace` | the last one, two or three lines of the trace are known at each location of a call, including that no fault leads from one location of a call to a later one |
| `TerminalEvent` | `TerminalEventIsTheResult` | `TerminalInv`: until `done` the only terminal event there can be is a `run_finished` at the end of the trace of a run at `failing`. What a step adds to a trace is nothing, one line or a torn one, and a torn one is no terminal event |
| `NoEcho` | `NoSensitiveEcho` | an action property: `Sanitize` with the values registered *by that step* leaves no whole value in the text it returns, a lemma about sets; every step that writes a line, whole or in part, uses it |
| `RunsMoveOn` | `RunMovesOn` | one step per action, from `TypeOK` alone: the order in which turn, stage, call and step of the call go up |
| `PairedConversation` | `ConversationPaired` | `ConversationInv`: between turns the conversation is paired; inside a response the last assistant message is known and exactly its calls before `position` are answered, one message each |
| `ContractKept` | `KeepsContract` | the refinement of RunContract, step by step: `OpenInv` reads off each location what the last event says of the open call, `CountInv` counts the answers in the trace against the caller's (one more at `failing`, when the record of an answer raised with its line written), and `BudgetInv` bounds the turns, those with tools more tightly than the finalization turn |
| `RequestsAreSettled` | `RequestsSettled` | two invariants. `SettledInv`: all lines but the last one, two or three, depending on the location, belong to a call that is settled. `ResultsInv`: the `tool_finished` lines, the tool messages and `tool_results` are the same list, compared by rank, which is why an append of the greatest number leaves all other ranks alone |
| `RequestsAreAccepted` | `RequestIsAccepted` | `RequestInv`: between turns the request made of the conversation is accepted and ends with the user (`Answered`); inside a response it is one such request, the calls, and one user message with the results of the calls before `position` (`PartlyAnswered`). `ToAnthropicMessages` is a fold: the function whose value for the first messages is their conversion satisfies its equation (`ConversionExists`), so one message more is one conversion more (`RequestGrows`) |

### The executors

`LocalExecutorProofs` and `DockerExecutorProofs`.

| Theorem | States | Argument |
|---|---|---|
| `ExecutorTypeCorrect`, `DockerTypeCorrect` | `TypeOK` of both | inductive |
| `CompleteResult` | `ResultIsComplete` | `ExitIsKnown` (an exit the event loop has learned has happened) and that nobody can open a closed pipe again |
| `GroupDead` | `CutOffGroupIsDead` | a dead group is closed: a forked process has never been there before, and it takes its parent's group, which has to be alive |
| `NothingRuns` | `NothingRunsAfterCleanup` | `RemovalInv`: once the second removal is served the container does not run, and a start that is still to be served finds none. `CreationInv`: a creation and a start are never both to be served, and one of them is sent by a living CLI only. `CliInv`: at the second removal the CLI is gone, so what is still served can create a container, and nobody is left to start it |

### The workspace and the trace file

`WorkspaceProofs` and `TraceFileProofs`.

| Theorem | States | Argument |
|---|---|---|
| `WorkspaceTypeCorrect`, `TraceFileTypeCorrect` | `TypeOK` of both | inductive; in Workspace with lemmas about reading, replacing, truncating and overwriting a text, and about moving a link |
| `ResultTold` | `ResultTellsTheFiles` | `FilesAreFound`: as long as no other process acts, the files are those the tool found but for the one it has emptied, and what it is about to write is what it was asked to |
| `OutputRegistered` | `SensitiveOutputIsRegistered` | `ResolutionsHold`, the policy's half: until a link moves, what the policy decided on is where the path leads, where the tool resolved it to, and where the output came from |
| `StaysInside` | `ToolsStayInside` | the tool's half: until a link moves after the tool's resolution, the path it holds is no link and lies inside |
| `ReadAfterDeath` | `ReadableAfterDeath` | `OneRunIsExact`: without a failed write the file is what was recorded, line by line, and after the death at most one line more |
| `RecordedIsRead` | `NoRecordedEventIsLost` | `RecordedIsHeld`: every recorded event is the first of a line that parses, or some line is damaged for good, because a line that was ended is never touched again. `LinesInOrder` and `NumbersGoUp` make the reader return each of them once, and in order |
| `ReadInOrder` | `EventsAreOrdered` | `LinesInOrder`: a later line begins with a later event, across runs by the run and within one by the number |

### The replay

`ReplayProofs`. All invariants of the `replay` run.

| Theorem | States | Argument |
|---|---|---|
| `ReplayTypeCorrect` | `TypeOK` | inductive with `NothingReplayed`: the replay's variables are untouched while the first run goes on |
| `CompletedRunIsConfirmed` | `CompletedRunMatches` | `MirrorInv`. A *place* is a turn and a number of its calls, and each trace holds the decisions before the run's place and no other (`HoldsUpTo`). The recorded run is always at the end of its responses, the replay at a place where it has passed only turns with calls and calls that can be evaluated, and both agree on the indices they share. `EndsAt` lists the places at which a run can end: for this replay there is one |
| `DivergenceIsExplained` | `SameConfigurationMatches` | the same, by where the recorded run ended: unless it was broken off inside a turn there is one place for the replay, else its place is further in that turn or at the end of it, so that the first difference is that turn's next call |
| `DivergenceIsFirst` | `DivergenceIsTheFirst` | of any two traces: the least index that differs (a set of naturals has a least element, `FirstIndex`) is behind a common prefix, and no longer one is common (`WhereTheyPart`) |
| `MatchCoversTheRun` | `MatchIsOfTheWholeRun` | a replay that completed is at the last response, and so was the recording. The recursive function in `FlattenSeq` is the one whose values are the beginnings of the trace at the turns' offsets: these satisfy its equation, and a least index at which two solutions of it differ cannot exist (`Flattened`) |

### The OpenAI client

`OpenAIClientProofs`. All invariants of the `openai_client` run.

| Theorem | States | Argument |
|---|---|---|
| `ClientTypeCorrect` | `TypeOK` | inductive with `ClientInv`, which bounds the turns and says that there is a result to be sent on |
| `TheModelSeesAll` | `ModelSeesTheConversation` | `ClientInv`. `Kept`: the side that keeps the conversation, the provider under `previous_response_id` or the client in `stateless_input`, has all of the last context. `LastTurn`: the conversation is what that context says, which ends with the assistant's message, and the results of its calls. `Asked`: a request under way is what is kept and those results, and a fallback makes the same request in the other mode |
| `NativeCallsAreAnswered` | `CallsAreAnswered` | `LastTurn`: until a codex client may have fallen back, all calls of a context but those of its last response are answered in it, and the next request answers those |
| `RequestsAreFormed` | `RequestCanBeFormed` | `LatestTools`: behind the last assistant message of such a conversation there are exactly the results of the last turn, at least one |

Requests and what they say are made by `FlattenSeq`, whose recursive function the prover knows
nothing of. `FlattenMore` says what one element more adds: the function that joins the first
sequences exists and satisfies the equation (`JoinExists`). What n calls or results are is then
counted up from 0 by `CountUp`, a lemma about sets of numbers.

### The live evaluation

`LiveEvalProofs`. All properties of the `live_eval` run.

| Theorem | States | Argument |
|---|---|---|
| `LiveEvalTypeCorrect` | `TypeOK` | inductive with `InSuite`: a suite that runs is at one of its attempts |
| `OneSuiteInResults` | `ResultsAreOfOneSuite` | `AttemptsInv`: in memory are the attempts before the one in progress, in the order of the plan. `ResultsInv`: a file that can be read holds a beginning of that list, or one that an earlier suite had, and a suite that returned has written all |
| `DamageStopsSuites` | `DamagedTraceStopsSuites` | `UndamagedInv`: no judged attempt of this suite has a damaged trace, unless the attempt in progress writes to the same file and has damaged it since; the last attempt is judged before the suite returns |
| `UsageIsCounted` | `UsageIsOfTheFile` | `EventsInv`: a trace that can be read holds the events of the attempt and those it held before, and lacks one at most, after a failure; `ChargeIsASum` is the price by its four terms, and `RoundedFacts` says that a price has a nearest unit, so that the one chosen for `Rounded` is near |
| `VerdictsAreOfTheRun` | `VerdictIsOfTheRun` | `EventsInv`, and lemmas about the pure modules: the category is that of the first condition that holds (`CategoryIsTheFirst`) and there is none but "none" for an attempt that passes |
| `TheReportAddsUp` | `ReportAddsUp` | `ReportInv`: a report that can be read is that of a beginning of some list of attempts, with or without the last one of results.json. That the numbers of such a report add up is a lemma about finite sets: `MapThenSumSet` over the cases, or the categories, of the number of attempts each of them has is the number of attempts, added one at a time; the costs likewise, each with its own error (`SumRounded`) |

### Only model-checked

Liveness: `HangsOnlyOnHeldOutput`, `CleanupHangsOnlyOnOutput`. It needs fairness
and ENABLED, which these provers do not have.

## 5. Not modelled

- The key and pattern based redaction (it removes more than is modelled here, never less), the
  characters of texts and paths: which string
  matches which pattern is a class of the input everywhere.
- The offline suite's averages and its text and JSON reports, durations and their averages,
  the text form of the live report: numbers nothing else depends on, and formatting.
- Configuration layering, the remaining commands, schemas of cases: parsing, one fold of
  dictionaries, printing. No step of theirs meets another actor.
- `scripts/`, example data, tests.

Hazards that have no property are listed with the reason. Most have their step in a model
(`CancelSpawn`, `CancelAgain`, `RecorderFails`) and nothing in the repository that promises
anything for it.

## 6. State of the plan

Done: the core (PolicyEngine, ToolRegistry, AgentRuntime, RunContract), the satellites
LocalExecutor with both its callers, DockerExecutor, TraceFile, OpenAIClient, AnthropicClient,
Workspace, Replay, and LiveEval with Evaluators and LiveReport, their runs, and the theorems of
section 4.

Left, should the project be carried on: the offline suite's averages; the key and pattern based
redaction, for which the classes of a text would have to be finer.
