---------------------------- MODULE AgentRuntime ----------------------------
(***************************************************************************)
(* AgentRuntime.run (runtime.py): one agent run, from run_started to its   *)
(* terminal trace event, with the policy, the approval handler, the tool   *)
(* registry and the trace recorder it calls.                               *)
(*                                                                         *)
(* Granularity.  Every TraceRecorder.record call writes and flushes one    *)
(* line and may raise, whatever part of the line is in the file by then,   *)
(* and every await may raise or be cancelled, so each of them is a step:   *)
(* pc names the record or the await the run is at.                         *)
(*                                                                         *)
(* Faults says which components may fail.  An unresolvable path is no      *)
(* fault: it is what the model asked for, and evaluate raises on it.       *)
(***************************************************************************)
EXTENDS ToolRegistry, Naturals, Sequences, FiniteSets

CONSTANTS
    Ids,        \* tool call ids, chosen by the provider; they may repeat
    Values,     \* the pieces of sensitive content a text can quote
    Content,    \* the text of a non-empty sensitive file
    Marker,     \* the piece that says that an output was truncated
    Responses,  \* the responses the model may give
    Configs,    \* the configurations a run may start with
    Faults      \* the components that may fail in this run

Texts == SUBSET Values

\* text is what the string values among a call's arguments quote, names what
\* stands outside string values: the arguments' names and their numbers.
ToolCall == [id : Ids, name : ToolNames, arguments : ArgumentClasses,
             text : Texts, names : Texts]

ModelResponse == [text : Texts, tool_calls : Seq(ToolCall)]

Approvals == {"approve", "deny", "interactive"}

Config == [max_turns : Nat \ {0}, finalization_turn : BOOLEAN,
           write_policy : Decisions, shell_policy : Decisions, approval : Approvals]

ASSUME ContentAssumption == Content \in Texts \ {{}} /\ Marker \in Values \ Content
ASSUME ResponsesAssumption == Responses \subseteq ModelResponse
ASSUME ConfigsAssumption == Configs \subseteq Config
ASSUME FaultsAssumption == Faults \subseteq {"model", "approval", "recorder", "cancel"}

VARIABLES
    pc,                \* the record or the await the run is at
    config,            \* the run's HarnessConfig and approval handler
    turns,             \* the local of that name
    response,          \* the model's last response
    position,          \* index in response.tool_calls of the call in progress
    outcome,           \* the policy's outcome for that call
    tool_result,       \* its result, before it is recorded
    messages,          \* the conversation
    tool_results,      \* the results the caller will be given
    trace,             \* the events written so far
    sensitive_values,  \* what register_sensitive_value has been given
    consented,         \* history: the call the approval handler last accepted
    result             \* what the caller sees of the run

vars == <<pc, config, turns, response, position, outcome, tool_result, messages,
          tool_results, trace, sensitive_values, consented, result>>

\* The variables a step of the loop itself, between two calls, leaves alone.
callVars == <<position, outcome, tool_result, tool_results, consented>>

Awaits == {"model", "approval", "tool"}

\* The locations where the next thing the run does is to record an event.
Records == {"start", "request", "response", "call", "decided", "start_tool",
            "finished", "completed", "exhausted", "failing", "cancelling"}

Locations == Awaits \cup Records \cup {"loop", "policy", "done"}

Terminal == {"run_finished", "run_failed"}

EventTypes == Terminal \cup
    {"run_started", "model_request", "model_response", "tool_requested",
     "policy_decided", "tool_started", "tool_finished"}

RunStatuses == {"running", "completed", "max_turns", "failed", "cancelled", "raised"}

\* One trace line: the call it is about, if any, the decision or status it
\* states, and what it quotes, in string values and outside them.
Event(type, id, detail, text, names) ==
    [type |-> type, turn |-> turns, id |-> id, detail |-> detail,
     text |-> text, names |-> names]

NoCall == {}
About(call) == {call.id}

Message(role, calls) == [role |-> role, calls |-> calls]

call == response.tool_calls[position]

\* The turn in which the model gets no tools (the code's finalization=True).
Finalizing == turns = config.max_turns + 1

Running(status) == result = [status |-> status, turns |-> 0]

Init ==
    /\ pc = "start"
    /\ config \in Configs
    /\ turns = 0
    /\ response = [text |-> {}, tool_calls |-> <<>>]
    /\ position = 0
    /\ outcome = Outcome("deny", "workspace_boundary")
    /\ tool_result = Result("error", {})
    /\ messages = <<Message("user", <<>>)>>
    /\ tool_results = <<>>
    /\ trace = <<>>
    /\ sensitive_values = {}
    /\ consented = <<0, 0>>
    /\ Running("running")

-----------------------------------------------------------------------------
(* The recorder.                                                            *)

\* A registered value is replaced wherever a string value holds all of it; a
\* text that quotes it in part is left as it is, and so is all that is not a
\* string value: the keys of an object, which _sanitize copies, and numbers.
Sanitize(text, registered) ==
    text \ UNION {value \in registered : value \subseteq text}

\* register_sensitive_value ignores an empty value.
Registered(value) == sensitive_values \cup ({value} \ {{}})

IsSensitiveRead ==
    /\ call.name = "read_file"
    /\ tool_result.status = "success"
    /\ call.arguments = "sensitive"

\* The values registered by the time tool_finished is recorded.
SensitiveValuesAtFinish ==
    IF IsSensitiveRead THEN Registered(tool_result.output) ELSE sensitive_values

\* The text of tool_finished: "[REDACTED]" for a sensitive read.
FinishedText == IF IsSensitiveRead THEN {} ELSE tool_result.output

\* Mutant: the event is recorded before the content is registered, unredacted.
FinishedLineFirst ==
    Event("tool_finished", About(call), tool_result.status,
          Sanitize(tool_result.output, sensitive_values), {})

FinishedLine ==
    Event("tool_finished", About(call), tool_result.status,
          Sanitize(FinishedText, SensitiveValuesAtFinish), {})

\* A line about the call in progress that carries its arguments.
CallLine(type, detail) ==
    Event(type, About(call), detail, Sanitize(call.text, sensitive_values), call.names)

\* model_response carries the whole response, its calls' arguments included.
ResponseText ==
    response.text \cup
    UNION {response.tool_calls[i].text : i \in DOMAIN response.tool_calls}

ResponseNames == UNION {response.tool_calls[i].names : i \in DOMAIN response.tool_calls}

\* The line that each of Records writes.
Line ==
    CASE pc = "start"      -> Event("run_started", NoCall, "none", {}, {})
      [] pc = "request"    -> Event("model_request", NoCall, "none", {}, {})
      [] pc = "response"   -> Event("model_response", NoCall, "none",
                                    Sanitize(ResponseText, sensitive_values), ResponseNames)
      [] pc = "call"       -> CallLine("tool_requested", "none")
      [] pc = "decided"    -> CallLine("policy_decided",
                                       IF Allowed(outcome) THEN "allow" ELSE "deny")
      [] pc = "start_tool" -> Event("tool_started", About(call), "none", {}, {})
      [] pc = "finished"   -> FinishedLine
      [] pc = "completed"  -> Event("run_finished", NoCall, "completed", {}, {})
      [] pc = "exhausted"  -> Event("run_finished", NoCall, "max_turns", {}, {})
      [] pc = "failing"    -> Event("run_failed", NoCall, "failed", {}, {})
      [] pc = "cancelling" -> Event("run_failed", NoCall, "cancelled", {}, {})

\* The trace ends in a part of a line, which the next line is glued to and with
\* which it is lost to the reader.
Torn == trace # <<>> /\ trace[Len(trace)].type = "torn"

WriteLine(line) == trace' = IF Torn THEN trace ELSE Append(trace, line)

Record == WriteLine(Line)

\* record raises before, between or after the bytes of the line: in write, flush,
\* fsync or close.
RecordRaises ==
    \/ UNCHANGED trace
    \/ \E text \in SUBSET Line.text, names \in SUBSET Line.names :
          WriteLine(Event("torn", NoCall, "none", text, names))
    \/ Record

-----------------------------------------------------------------------------
(* The run and its turns.                                                   *)

Start ==
    /\ pc = "start"
    /\ Record
    /\ pc' = "loop"
    /\ UNCHANGED <<config, turns, response, messages, sensitive_values, result, callVars>>

\* Mutant: a turn after a denied call is not counted.
BeginTurnUncounted ==
    /\ pc = "loop"
    /\ turns < config.max_turns
    /\ turns' = IF tool_result.status = "denied" THEN turns ELSE turns + 1
    /\ pc' = "request"
    /\ UNCHANGED <<config, response, messages, trace, sensitive_values, result, callVars>>

BeginTurn ==
    /\ pc = "loop"
    /\ turns < config.max_turns
    /\ turns' = turns + 1
    /\ pc' = "request"
    /\ UNCHANGED <<config, response, messages, trace, sensitive_values, result, callVars>>

BeginFinalization ==
    /\ pc = "loop"
    /\ turns = config.max_turns
    /\ config.finalization_turn
    /\ turns' = config.max_turns + 1
    /\ pc' = "request"
    /\ UNCHANGED <<config, response, messages, trace, sensitive_values, result, callVars>>

ExhaustTurns ==
    /\ pc = "loop"
    /\ turns = config.max_turns
    /\ ~config.finalization_turn
    /\ pc' = "exhausted"
    /\ UNCHANGED <<config, turns, response, messages, trace, sensitive_values,
                   result, callVars>>

RequestModel ==
    /\ pc = "request"
    /\ Record
    /\ pc' = "model"
    /\ UNCHANGED <<config, turns, response, messages, sensitive_values, result, callVars>>

ModelResponds ==
    /\ pc = "model"
    /\ response' \in Responses
    /\ pc' = "response"
    /\ UNCHANGED <<config, turns, messages, trace, sensitive_values, result, callVars>>

ModelFails ==
    /\ pc = "model"
    /\ "model" \in Faults
    /\ pc' = "failing"
    /\ UNCHANGED <<config, turns, response, messages, trace, sensitive_values,
                   result, callVars>>

\* Mutants: a response without tool calls is not a completion; the calls of the
\* finalization turn are executed like any other.
AfterResponseWithoutCompletion == IF Finalizing THEN "exhausted" ELSE "call"
AfterResponseInAnyTurn == IF response.tool_calls = <<>> THEN "completed" ELSE "call"

\* Where the run goes once the response is in the conversation.
AfterResponse ==
    IF response.tool_calls = <<>> THEN "completed"
    ELSE IF Finalizing THEN "exhausted" ELSE "call"

RecordResponse ==
    /\ pc = "response"
    /\ Record
    /\ messages' = Append(messages, Message("assistant",
            [i \in DOMAIN response.tool_calls |-> response.tool_calls[i].id]))
    /\ position' = 1
    /\ pc' = AfterResponse
    /\ UNCHANGED <<config, turns, response, outcome, tool_result, tool_results,
                   sensitive_values, consented, result>>

-----------------------------------------------------------------------------
(* One tool call: _execute_call and the two appends that follow it.         *)

RequestTool ==
    /\ pc = "call"
    /\ Record
    /\ pc' = "policy"
    /\ UNCHANGED <<config, turns, response, messages, sensitive_values, result, callVars>>

EvaluatePolicy ==
    /\ pc = "policy"
    /\ ~EvaluateRaises(call)
    /\ outcome' = Evaluate(call, config)
    /\ pc' = IF outcome'.decision = "ask" THEN "approval" ELSE "decided"
    /\ UNCHANGED <<config, turns, response, position, tool_result, messages,
                   tool_results, trace, sensitive_values, consented, result>>

EvaluationFails ==
    /\ pc = "policy"
    /\ EvaluateRaises(call)
    /\ pc' = "failing"
    /\ UNCHANGED <<config, turns, response, messages, trace, sensitive_values,
                   result, callVars>>

\* The answer of the handler: a constant, or a person's.
Answers(approval) ==
    IF approval = "interactive" THEN BOOLEAN ELSE {approval = "approve"}

Approve ==
    /\ pc = "approval"
    /\ \E answer \in Answers(config.approval) :
          /\ outcome' = [decision |-> outcome.decision, rule |-> outcome.rule,
                          approved |-> answer]
          /\ consented' = IF answer THEN <<turns, position>> ELSE consented
    /\ pc' = "decided"
    /\ UNCHANGED <<config, turns, response, position, tool_result, messages,
                   tool_results, trace, sensitive_values, result>>

\* typer.confirm raises Abort when the prompt is interrupted or has no input.
ApprovalFails ==
    /\ pc = "approval"
    /\ "approval" \in Faults
    /\ config.approval = "interactive"
    /\ pc' = "failing"
    /\ UNCHANGED <<config, turns, response, messages, trace, sensitive_values,
                   result, callVars>>

RecordDecision ==
    /\ pc = "decided"
    /\ Record
    /\ UNCHANGED <<config, turns, response, position, outcome, messages,
                   tool_results, sensitive_values, consented, result>>

RecordAllow ==
    /\ RecordDecision
    /\ Allowed(outcome)
    /\ pc' = "start_tool"
    /\ UNCHANGED tool_result

\* Mutant: a denied call keeps the result of the call before it.
RecordDenyWithStaleResult ==
    /\ RecordDecision
    /\ ~Allowed(outcome)
    /\ pc' = "finished"
    /\ UNCHANGED tool_result

RecordDeny ==
    /\ RecordDecision
    /\ ~Allowed(outcome)
    /\ tool_result' = Result("denied", {})
    /\ pc' = "finished"

StartTool ==
    /\ pc = "start_tool"
    /\ Record
    /\ pc' = "tool"
    /\ UNCHANGED <<config, turns, response, messages, sensitive_values, result, callVars>>

ToolReturns ==
    /\ pc = "tool"
    /\ tool_result' \in Execute(call, Content, Marker)
    /\ pc' = "finished"
    /\ UNCHANGED <<config, turns, response, position, outcome, messages,
                   tool_results, trace, sensitive_values, consented, result>>

\* Mutant: a denied call ends the turn, and the calls after it are skipped.
FinishToolOrStop ==
    /\ pc = "finished"
    /\ sensitive_values' = SensitiveValuesAtFinish
    /\ Record
    /\ tool_results' = Append(tool_results, tool_result.status)
    /\ messages' = Append(messages, Message("tool", <<call.id>>))
    /\ position' = position + 1
    /\ pc' = IF \/ position = Len(response.tool_calls)
                \/ tool_result.status = "denied"
             THEN "loop" ELSE "call"
    /\ UNCHANGED <<config, turns, response, outcome, tool_result, consented, result>>

FinishTool ==
    /\ pc = "finished"
    /\ sensitive_values' = SensitiveValuesAtFinish
    /\ Record
    /\ tool_results' = Append(tool_results, tool_result.status)
    /\ messages' = Append(messages, Message("tool", <<call.id>>))
    /\ position' = position + 1
    /\ pc' = IF position = Len(response.tool_calls) THEN "loop" ELSE "call"
    /\ UNCHANGED <<config, turns, response, outcome, tool_result, consented, result>>

-----------------------------------------------------------------------------
(* The ends of a run.                                                       *)

Return(status) == result' = [status |-> status, turns |-> turns]

End(status) ==
    /\ Record
    /\ Return(status)
    /\ pc' = "done"
    /\ UNCHANGED <<config, turns, response, messages, sensitive_values, callVars>>

Complete      == pc = "completed"  /\ End("completed")
FinishAtLimit == pc = "exhausted"  /\ End("max_turns")
ReportFailure == pc = "failing"    /\ End("failed")
ReportCancel  == pc = "cancelling" /\ End("cancelled")

\* The handlers that answer at once never suspend the run, so a cancellation
\* finds it at an interactive prompt only.
Cancel ==
    /\ "cancel" \in Faults
    /\ \/ pc \in {"model", "tool"}
       \/ pc = "approval" /\ config.approval = "interactive"
    /\ pc' = "cancelling"
    /\ UNCHANGED <<config, turns, response, messages, trace, sensitive_values,
                   result, callVars>>

\* Mutants: a tool starts although its tool_started event was not written; a
\* terminal event that cannot be written is passed over.
RecorderFailsUnnoticed ==
    /\ "recorder" \in Faults
    /\ pc = "start_tool"
    /\ pc' = "tool"
    /\ UNCHANGED <<config, turns, response, messages, trace, sensitive_values,
                   result, callVars>>
RecorderFailsAtTheEnd ==
    /\ "recorder" \in Faults
    /\ pc = "failing"
    /\ pc' = "done"
    /\ Return("failed")
    /\ UNCHANGED <<config, turns, response, messages, trace, sensitive_values, callVars>>

\* record raises.  Inside the try block the run goes to the handler that records
\* run_failed; before it and in the handlers the exception reaches the caller.  A
\* sensitive value is registered all the same.
RecorderFails ==
    /\ "recorder" \in Faults
    /\ pc \in Records
    /\ RecordRaises
    /\ sensitive_values' = IF pc = "finished" THEN SensitiveValuesAtFinish
                                              ELSE sensitive_values
    /\ IF pc \in {"start", "failing", "cancelling"}
       THEN pc' = "done" /\ Return("raised")
       ELSE pc' = "failing" /\ UNCHANGED result
    /\ UNCHANGED <<config, turns, response, messages, callVars>>

-----------------------------------------------------------------------------
\* The steps of a run in which nothing fails.
Progress ==
    \/ Start \/ BeginTurn \/ BeginFinalization \/ ExhaustTurns
    \/ RequestModel \/ ModelResponds \/ RecordResponse
    \/ RequestTool \/ EvaluatePolicy \/ EvaluationFails
    \/ RecordAllow \/ RecordDeny \/ StartTool \/ ToolReturns \/ FinishTool
    \/ Complete \/ FinishAtLimit \/ ReportFailure \/ ReportCancel

Next ==
    \/ Progress
    \/ Approve
    \/ ModelFails \/ ApprovalFails \/ Cancel \/ RecorderFails

Spec == Init /\ [][Next]_vars

-----------------------------------------------------------------------------
(* Types.                                                                   *)

TraceEvent == [type : EventTypes \cup {"torn"}, turn : Nat, id : SUBSET Ids,
               detail : {"none", "allow", "deny"} \cup ResultStatuses \cup RunStatuses,
               text : Texts, names : Texts]

\* The locations inside _execute_call.
CallLocations == {"call", "policy", "approval", "decided", "start_tool", "tool", "finished"}

\* Every variable has the type the code gives it, the loop over the calls is at
\* one of them wherever _execute_call runs, and a part of a line is the end of the
\* trace of a run that fails.
TypeOK ==
    /\ pc \in Locations
    /\ config \in Config
    /\ turns \in 0 .. (config.max_turns + 1)
    /\ response \in ModelResponse
    /\ position \in Nat
    /\ outcome \in PolicyOutcome
    /\ tool_result \in [status : ResultStatuses, output : Texts]
    /\ messages \in Seq([role : {"user", "assistant", "tool"}, calls : Seq(Ids)])
    /\ tool_results \in Seq(ResultStatuses)
    /\ trace \in Seq(TraceEvent)
    /\ sensitive_values \in SUBSET Texts
    /\ consented \in Nat \X Nat
    /\ result \in [status : RunStatuses, turns : Nat]
    /\ pc \in CallLocations => position \in DOMAIN response.tool_calls
    /\ \A i \in DOMAIN trace : trace[i].type = "torn" =>
          i = Len(trace) /\ pc \in {"failing", "done"}

-----------------------------------------------------------------------------
(* What must hold of every run.                                             *)

IsEvent(event, type, detail) ==
    /\ event.type = type
    /\ event.turn = turns
    /\ event.id = About(call)
    /\ event.detail = detail

\* The trace is written ahead: when a tool runs, the three lines before that
\* say it was requested, decided with "allow" and started, for this very call
\* and turn, whichever records or handlers failed before.
WriteAheadTrace ==
    pc = "tool" =>
        LET n == Len(trace)
        IN  /\ n > 2
            /\ IsEvent(trace[n - 2], "tool_requested", "none")
            /\ IsEvent(trace[n - 1], "policy_decided", "allow")
            /\ IsEvent(trace[n], "tool_started", "none")

\* The setting the configuration gives the tool's kind of effect.
EffectPolicy ==
    IF call.name = "bash" THEN config.shell_policy ELSE config.write_policy

\* A tool that can change the workspace runs only inside it, only without a
\* dangerous command, and only if the configuration allows its kind of effect
\* outright or the handler accepted this call, and not another one, when asked.
EffectsArePermitted ==
    pc = "tool" /\ HasEffects(call) =>
        /\ call.name \in WriteTools => call.arguments \notin {"outside", "unresolvable"}
        /\ call.name = "bash" => call.arguments # "dangerous"
        /\ \/ EffectPolicy = "allow"
           \/ EffectPolicy = "ask" /\ consented = <<turns, position>>

\* Every call of every assistant message is followed, in order, by its one tool
\* message, and no other tool message exists.
Paired(conversation) ==
    \A i \in DOMAIN conversation :
        /\ conversation[i].role = "assistant" =>
              \A k \in DOMAIN conversation[i].calls :
                 /\ i + k \in DOMAIN conversation
                 /\ conversation[i + k] = Message("tool", <<conversation[i].calls[k]>>)
        /\ conversation[i].role = "tool" =>
              \E j \in 1 .. (i - 1) : /\ conversation[j].role = "assistant"
                                     /\ i - j \in DOMAIN conversation[j].calls

\* Providers refuse a conversation whose tool calls are not all answered: none
\* is ever sent to the model, not even in the finalization turn.
ConversationPaired == pc = "model" => Paired(messages)

\* README.md: "every model tool request receives exactly one result".  Stated of
\* the runs that end in good order.
EveryRequestHasOneResult ==
    result.status \in {"completed", "max_turns"} => Paired(messages)

\* The event says what the caller is told.
Tells(event) ==
    /\ event.type \in Terminal
    /\ event.detail = result.status
    /\ event.turn = result.turns

\* The caller and the reader of the trace are told the same end.  A run that
\* returns leaves its status and turns in the last line, unless that line is torn
\* and the run has failed; and a run_finished that is not the last line, so that
\* run_failed contradicts it, is the line before, of a run that has failed.
TerminalEventIsTheResult ==
    LET n == Len(trace)
    IN  /\ result.status \in {"completed", "max_turns", "cancelled"} => Tells(trace[n])
        /\ result.status = "failed" => Tells(trace[n]) \/ Torn
        /\ \A i \in DOMAIN trace : trace[i].type \in Terminal /\ i < n =>
              /\ i = n - 1
              /\ trace[i].type = "run_finished"
              /\ result.status \in {"failed", "raised"}

\* The trace's lines i to i + n are those of one call: requested, decided,
\* started unless it was denied, and finished.
Settles(i, n) ==
    /\ i + n \in DOMAIN trace
    /\ trace[i].type = "tool_requested"
    /\ trace[i + 1].type = "policy_decided"
    /\ n = 3 => trace[i + 2].type = "tool_started"
    /\ trace[i + n].type = "tool_finished"
    /\ trace[i + n].detail = "denied" <=> n = 2
    /\ \A k \in 1 .. n : trace[i + k].id = trace[i].id

CallEvents == {"tool_requested", "policy_decided", "tool_started", "tool_finished"}

\* The place of the i-th line among those at the given positions.
Rank(i, positions) == Cardinality({j \in positions : j <= i})

\* A run that ends in good order has settled every call it recorded before the
\* next one, has started each one it did not deny and no other, and gives the
\* caller, the trace and the conversation the same results in the same order.
RequestsSettled ==
    result.status \in {"completed", "max_turns"} =>
        LET finished == {i \in DOMAIN trace : trace[i].type = "tool_finished"}
            answers  == {i \in DOMAIN messages : messages[i].role = "tool"}
        IN  /\ \A i \in DOMAIN trace : trace[i].type \in CallEvents =>
                  \E first \in 1 .. i, n \in 2 .. 3 : Settles(first, n) /\ i <= first + n
            /\ Cardinality(finished) = Len(tool_results)
            /\ \A i \in finished : tool_results[Rank(i, finished)] = trace[i].detail
            /\ Cardinality(answers) = Len(tool_results)
            /\ \A i \in finished, j \in answers :
                  Rank(i, finished) = Rank(j, answers) =>
                      trace[i].id = {messages[j].calls[1]}

\* From the moment the output of a sensitive read is registered, its own
\* tool_finished event included, no string value of an event the run writes holds
\* the whole of it.  The whole ends in the marker when the output was truncated, so
\* an echo of what was kept goes through; and so does one in an argument's name.
NoSensitiveEcho ==
    [][\A value \in sensitive_values' :
          trace' # trace => ~(value \subseteq trace'[Len(trace')].text)]_vars

\* Where in its turn a run is at a location.
Stage(location) ==
    CASE location \in {"start", "request"}         -> 1
      [] location = "model"                        -> 2
      [] location = "response"                     -> 3
      [] location \in CallLocations                -> 4
      [] location = "loop"                         -> 5
      [] location \in {"completed", "exhausted"}   -> 6
      [] location \in {"failing", "cancelling"}    -> 7
      [] location = "done"                         -> 8

\* Where in _execute_call a location is.
CallStage(location) ==
    CASE location = "call"       -> 1
      [] location = "policy"     -> 2
      [] location = "approval"   -> 3
      [] location = "decided"    -> 4
      [] location = "start_tool" -> 5
      [] location = "tool"       -> 6
      [] location = "finished"   -> 7

\* Whatever fails, is denied or raises, the run never gives back a turn, repeats a
\* call or returns to an earlier step of one: every step leads to a later turn, to
\* a later stage of it, to a later call or to a later step of the call.
RunMovesOn ==
    [][\/ turns' > turns
       \/ /\ turns' = turns
          /\ \/ Stage(pc') > Stage(pc)
             \/ /\ {pc, pc'} \subseteq CallLocations
                /\ \/ position' > position
                   \/ position' = position /\ CallStage(pc') > CallStage(pc)]_vars

-----------------------------------------------------------------------------
(* The contract, read off the trace and the caller's view.                  *)

\* The last event about a call is of one of these types.
LastCallEvent(types) ==
    \E i \in DOMAIN trace :
        /\ trace[i].type \in types
        /\ \A j \in (i + 1) .. Len(trace) : trace[j].type \notin CallEvents

OpenCall ==
    IF LastCallEvent({"tool_requested", "policy_decided"}) THEN "asked"
    ELSE IF LastCallEvent({"tool_started"}) THEN "ran" ELSE "none"

\* The places in the trace of the calls' results.
Finished == {i \in DOMAIN trace : trace[i].type = "tool_finished"}

Contract == INSTANCE RunContract WITH
    limit    <- [max_turns |-> config.max_turns,
                 finalization_turn |-> config.finalization_turn],
    open     <- OpenCall,
    used     <- turns,
    answered <- Cardinality(Finished),
    ending   <- [status |-> result.status,
                 results |-> IF result.status = "running" THEN 0 ELSE Len(tool_results)]

\* Every run keeps the contract of RunContract.
KeepsContract == Contract!CSpec
=============================================================================
