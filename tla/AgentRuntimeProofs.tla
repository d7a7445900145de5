-------------------------- MODULE AgentRuntimeProofs --------------------------
(***************************************************************************)
(* Proofs about AgentRuntime and AnthropicClient for every set of          *)
(* responses, configurations and faults: what may have an effect, the      *)
(* trace a run leaves (it is written ahead of the effects, ends with the   *)
(* caller's result and keeps registered values out), the conversation it   *)
(* sends, the contract of RunContract, the results of its calls, and the   *)
(* requests that the Anthropic client makes of the conversation.           *)
(***************************************************************************)
EXTENDS AnthropicClient, TLAPS, FiniteSetTheorems, WellFoundedInduction

-----------------------------------------------------------------------------
(* Types of what the steps compute.                                         *)

\* The turn an event carries is a number.
LEMMA TurnType == TypeOK => turns \in Nat
BY DEF TypeOK, Config

\* Appending keeps a sequence a sequence over the same set.
LEMMA AppendType ==
    ASSUME NEW S, NEW s \in Seq(S), NEW e \in S
    PROVE  Append(s, e) \in Seq(S)
OBVIOUS

\* The call in progress is a tool call of the response.
LEMMA CallType ==
    ASSUME TypeOK, pc \in CallLocations
    PROVE  call \in ToolCall
BY DEF TypeOK, call, ModelResponse

\* What the recorder writes is what it was given, minus registered values.
LEMMA SanitizeType ==
    ASSUME NEW text \in Texts, NEW registered
    PROVE  Sanitize(text, registered) \in Texts
BY DEF Sanitize, Texts

\* The policy's answer is an outcome of the configured decisions.
LEMMA EvaluateType ==
    ASSUME NEW c \in ToolCall, NEW cfg \in Config
    PROVE  Evaluate(c, cfg) \in PolicyOutcome
BY DEF ToolCall, ToolNames, Config, Evaluate, EvaluateFile, EvaluateShell,
       Outcome, PolicyOutcome, Decisions, Rules, FileTools

\* The registry's answer is a result.
LEMMA ExecuteType ==
    ASSUME NEW c \in ToolCall, NEW r \in Execute(c, Content, Marker)
    PROVE  r \in [status : ResultStatuses, output : Texts]
<1>1. Content \in Texts /\ Marker \in Values
    BY ContentAssumption
<1>2. \A output \in Outputs(c, Content, Marker) : output \in Texts
    BY <1>1 DEF Outputs, Texts
<1> QED BY <1>2 DEF Execute, Result, ResultStatuses, Texts

\* All that a response quotes is a text.
LEMMA ResponseTextType ==
    ASSUME TypeOK
    PROVE  ResponseText \in Texts
<1>1. response.text \in Texts
    BY DEF TypeOK, ModelResponse
<1>2. response.tool_calls \in Seq(ToolCall)
    BY DEF TypeOK, ModelResponse
<1>3. \A i \in DOMAIN response.tool_calls : response.tool_calls[i] \in ToolCall
    BY <1>2
<1>4. \A i \in DOMAIN response.tool_calls : response.tool_calls[i].text \in Texts
    BY <1>3 DEF ToolCall
<1> QED BY <1>1, <1>4 DEF ResponseText, Texts

\* So is all that it quotes outside string values.
LEMMA ResponseNamesType ==
    ASSUME TypeOK
    PROVE  ResponseNames \in Texts
<1>1. response.tool_calls \in Seq(ToolCall)
    BY DEF TypeOK, ModelResponse
<1>2. \A i \in DOMAIN response.tool_calls : response.tool_calls[i] \in ToolCall
    BY <1>1
<1>3. \A i \in DOMAIN response.tool_calls : response.tool_calls[i].names \in Texts
    BY <1>2 DEF ToolCall
<1> QED BY <1>3 DEF ResponseNames, Texts

-----------------------------------------------------------------------------
(* The line a record writes.                                                *)

\* What a line says, but for what it quotes.
Says(line, type, id, detail) ==
    /\ line.type = type
    /\ line.turn = turns
    /\ line.id = id
    /\ line.detail = detail

\* An event says what it was made of.
LEMMA EventSays ==
    ASSUME NEW type, NEW id, NEW detail, NEW text, NEW names
    PROVE  Says(Event(type, id, detail, text, names), type, id, detail)
BY DEF Says, Event

\* Where the run is tells what its next line says.
LEMMA LineSays ==
    /\ pc = "start"      => Says(Line, "run_started", NoCall, "none")
    /\ pc = "request"    => Says(Line, "model_request", NoCall, "none")
    /\ pc = "response"   => Says(Line, "model_response", NoCall, "none")
    /\ pc = "call"       => Says(Line, "tool_requested", About(call), "none")
    /\ pc = "decided"    => Says(Line, "policy_decided", About(call),
                                 IF Allowed(outcome) THEN "allow" ELSE "deny")
    /\ pc = "start_tool" => Says(Line, "tool_started", About(call), "none")
    /\ pc = "finished"   => Says(Line, "tool_finished", About(call), tool_result.status)
    /\ pc = "completed"  => Says(Line, "run_finished", NoCall, "completed")
    /\ pc = "exhausted"  => Says(Line, "run_finished", NoCall, "max_turns")
    /\ pc = "failing"    => Says(Line, "run_failed", NoCall, "failed")
    /\ pc = "cancelling" => Says(Line, "run_failed", NoCall, "cancelled")
BY EventSays DEF Line, CallLine, FinishedLine

\* A trace event is a record of such parts.
LEMMA EventType ==
    ASSUME TypeOK, NEW type \in EventTypes \cup {"torn"}, NEW id \in SUBSET Ids,
           NEW detail \in {"none", "allow", "deny"} \cup ResultStatuses \cup RunStatuses,
           NEW text \in Texts, NEW names \in Texts
    PROVE  Event(type, id, detail, text, names) \in TraceEvent
BY TurnType DEF Event, TraceEvent

\* Each line is a well-formed event.
LEMMA LineType ==
    ASSUME TypeOK, pc \in Records
    PROVE  Line \in TraceEvent /\ Line.type \in EventTypes
<1> USE DEF NoCall
<1>0. {} \in Texts
    BY DEF Texts
<1>1. ASSUME NEW type \in EventTypes, NEW detail \in {"none"} \cup RunStatuses,
             Line = Event(type, NoCall, detail, {}, {})
      PROVE  Line \in TraceEvent /\ Line.type \in EventTypes
    BY <1>0, <1>1, EventType, EventSays DEF Says
<1>2. CASE pc \in {"start", "request", "completed", "exhausted", "failing", "cancelling"}
    <2>1. \E type \in EventTypes, detail \in {"none"} \cup RunStatuses :
              Line = Event(type, NoCall, detail, {}, {})
        BY <1>2 DEF Line, EventTypes, Terminal, RunStatuses
    <2> QED BY <1>1, <2>1
<1>3. CASE pc = "response"
    <2>1. Line = Event("model_response", NoCall, "none",
                       Sanitize(ResponseText, sensitive_values), ResponseNames)
        BY <1>3 DEF Line
    <2>2. Sanitize(ResponseText, sensitive_values) \in Texts
        BY ResponseTextType, SanitizeType
    <2>3. "model_response" \in EventTypes
        BY DEF EventTypes
    <2> QED BY <2>1, <2>2, <2>3, ResponseNamesType, EventType, EventSays DEF Says
<1>4. CASE pc \in {"call", "decided", "start_tool", "finished"}
    <2>1. /\ call \in ToolCall /\ About(call) \in SUBSET Ids
          /\ call.text \in Texts /\ call.names \in Texts
        BY <1>4, CallType DEF CallLocations, ToolCall, About
    <2>2. /\ tool_result.status \in ResultStatuses
          /\ FinishedText \in Texts
        BY <1>0 DEF TypeOK, FinishedText
    <2>3. \E type \in EventTypes, detail \in {"none", "allow", "deny"} \cup ResultStatuses,
             text \in Texts, names \in Texts :
              Line = Event(type, About(call), detail, text, names)
        <3>1. CASE pc \in {"call", "decided"}
            <4>1. \E type \in EventTypes, detail \in {"none", "allow", "deny"} :
                      Line = Event(type, About(call), detail,
                                   Sanitize(call.text, sensitive_values), call.names)
                BY <3>1 DEF Line, CallLine, EventTypes
            <4>2. Sanitize(call.text, sensitive_values) \in Texts
                BY <2>1, SanitizeType
            <4> QED BY <2>1, <4>1, <4>2
        <3>2. CASE pc = "start_tool"
            BY <1>0, <3>2 DEF Line, EventTypes
        <3>3. CASE pc = "finished"
            <4>1. Line = Event("tool_finished", About(call), tool_result.status,
                               Sanitize(FinishedText, SensitiveValuesAtFinish), {})
                BY <3>3 DEF Line, FinishedLine
            <4>2. Sanitize(FinishedText, SensitiveValuesAtFinish) \in Texts
                BY <2>2, SanitizeType
            <4>3. "tool_finished" \in EventTypes
                BY DEF EventTypes
            <4> QED BY <1>0, <2>2, <4>1, <4>2, <4>3
        <3> QED BY <1>4, <3>1, <3>2, <3>3
    <2> QED BY <2>1, <2>3, EventType, EventSays DEF Says
<1> QED BY <1>2, <1>3, <1>4 DEF Records

\* Only the lines after a part of a line are not added to the trace.
TornAtEnd(lines) == \A i \in DOMAIN lines : lines[i].type = "torn" => i = Len(lines)

\* Writing a line keeps the trace well formed.
LEMMA WriteLineType ==
    ASSUME TypeOK, NEW line \in TraceEvent, WriteLine(line)
    PROVE  /\ trace' \in Seq(TraceEvent)
           /\ TornAtEnd(trace')
           /\ Torn => trace' = trace
           /\ ~Torn => /\ trace' = Append(trace, line)
                       /\ \A i \in DOMAIN trace' :
                             trace'[i].type = "torn" => line.type = "torn"
<1>1. trace \in Seq(TraceEvent) /\ TornAtEnd(trace)
    BY DEF TypeOK, TornAtEnd
<1>2. CASE Torn
    BY <1>1, <1>2 DEF WriteLine
<1>3. CASE ~Torn
    <2>1. trace' = Append(trace, line)
        BY <1>3 DEF WriteLine
    <2>2. /\ trace' \in Seq(TraceEvent) /\ Len(trace') = Len(trace) + 1
          /\ Len(trace) \in Nat
          /\ DOMAIN trace = 1 .. Len(trace) /\ DOMAIN trace' = 1 .. (Len(trace) + 1)
          /\ \A i \in 1 .. Len(trace) : trace'[i] = trace[i]
          /\ trace'[Len(trace) + 1] = line
        BY <1>1, <2>1
    <2>3. \A i \in 1 .. Len(trace) : trace[i].type # "torn"
        <3> SUFFICES ASSUME NEW i \in 1 .. Len(trace), trace[i].type = "torn"
                     PROVE  FALSE
            OBVIOUS
        <3>1. i = Len(trace) /\ trace # <<>>
            BY <1>1, <2>2 DEF TornAtEnd
        <3> QED BY <1>3, <3>1 DEF Torn
    <2>4. \A i \in DOMAIN trace' : i # Len(trace) + 1 => i \in 1 .. Len(trace)
        BY <2>2
    <2> QED BY <1>3, <2>1, <2>2, <2>3, <2>4 DEF TornAtEnd
<1> QED BY <1>2, <1>3

\* Recording an event keeps the trace well formed, and is undone by nothing but a
\* part of a line before it.
LEMMA RecordType ==
    ASSUME TypeOK, pc \in Records, Record
    PROVE  /\ trace' \in Seq(TraceEvent)
           /\ TornAtEnd(trace')
           /\ pc # "failing" =>
                 /\ trace' = Append(trace, Line)
                 /\ \A i \in DOMAIN trace' : trace'[i].type # "torn"
<1>1. /\ trace' \in Seq(TraceEvent)
      /\ TornAtEnd(trace')
      /\ ~Torn => /\ trace' = Append(trace, Line)
                  /\ \A i \in DOMAIN trace' : trace'[i].type = "torn" => Line.type = "torn"
    BY LineType, WriteLineType DEF Record
<1>2. pc # "failing" => ~Torn
    <2>1. Torn => Len(trace) \in DOMAIN trace
        BY DEF Torn, TypeOK
    <2> QED BY <2>1 DEF Torn, TypeOK, Records
<1>3. Line.type # "torn"
    BY LineType DEF EventTypes, Terminal
<1> QED BY <1>1, <1>2, <1>3

\* So does a record that raises.
LEMMA RecordRaisesType ==
    ASSUME TypeOK, pc \in Records, RecordRaises
    PROVE  trace' \in Seq(TraceEvent) /\ TornAtEnd(trace')
<1>1. CASE UNCHANGED trace
    BY <1>1 DEF TypeOK, TornAtEnd
<1>2. CASE Record
    BY <1>2, RecordType
<1>3. ASSUME NEW text \in SUBSET Line.text, NEW names \in SUBSET Line.names,
             WriteLine(Event("torn", NoCall, "none", text, names))
      PROVE  trace' \in Seq(TraceEvent) /\ TornAtEnd(trace')
    <2>1. text \in Texts /\ names \in Texts
        BY LineType DEF TraceEvent, Texts
    <2>2. Event("torn", NoCall, "none", text, names) \in TraceEvent
        BY <2>1, EventType DEF NoCall
    <2> QED BY <1>3, <2>2, WriteLineType
<1> QED BY <1>1, <1>2, <1>3 DEF RecordRaises

-----------------------------------------------------------------------------
(* Type correctness.                                                        *)

\* A run starts well typed.
LEMMA TypeInit == Init => TypeOK
BY ConfigsAssumption DEF Init, TypeOK, Locations, Awaits, Records, Config,
    ModelResponse, Texts, Outcome, PolicyOutcome, Decisions, Rules, Result,
    ResultStatuses, Message, Running, RunStatuses, CallLocations

\* What the type invariant says of the end of the trace.
TraceEnd ==
    \A i \in DOMAIN trace : trace[i].type = "torn" =>
        i = Len(trace) /\ pc \in {"failing", "done"}

\* A step that leaves the trace alone keeps it well formed, unless it takes up a run
\* whose trace ends in a part of a line.
LEMMA SameTrace ==
    ASSUME TypeOK, trace' = trace, pc \notin {"failing", "done"} \/ pc' \in {"failing", "done"}
    PROVE  trace' \in Seq(TraceEvent) /\ TraceEnd'
BY DEF TypeOK, TraceEnd

\* So does one that records an event.
LEMMA RecordedTrace ==
    ASSUME TypeOK, Record, pc \in Records, pc # "failing" \/ pc' = "done"
    PROVE  trace' \in Seq(TraceEvent) /\ TraceEnd'
BY RecordType DEF TraceEnd, TornAtEnd

\* Every step of a run keeps it well typed.
LEMMA TypeStep == TypeOK /\ [Next]_vars => TypeOK'
<1> SUFFICES ASSUME TypeOK, [Next]_vars PROVE TypeOK'
    OBVIOUS
<1> USE DEF callVars, Locations, Awaits, Records, CallLocations
<1>1. CASE Start
    <2>1. trace' \in Seq(TraceEvent) /\ TraceEnd'
        BY <1>1, RecordedTrace DEF Start
    <2> QED BY <1>1, <2>1 DEF Start, TypeOK, TraceEnd
<1>2. CASE BeginTurn
    <2>1. trace' \in Seq(TraceEvent) /\ TraceEnd'
        BY <1>2, SameTrace DEF BeginTurn
    <2> QED BY <1>2, <2>1 DEF BeginTurn, TypeOK, TraceEnd, Config
<1>3. CASE BeginFinalization
    <2>1. trace' \in Seq(TraceEvent) /\ TraceEnd'
        BY <1>3, SameTrace DEF BeginFinalization
    <2> QED BY <1>3, <2>1 DEF BeginFinalization, TypeOK, TraceEnd, Config
<1>4. CASE ExhaustTurns
    <2>1. trace' \in Seq(TraceEvent) /\ TraceEnd'
        BY <1>4, SameTrace DEF ExhaustTurns
    <2> QED BY <1>4, <2>1 DEF ExhaustTurns, TypeOK, TraceEnd
<1>5. CASE RequestModel
    <2>1. trace' \in Seq(TraceEvent) /\ TraceEnd'
        BY <1>5, RecordedTrace DEF RequestModel
    <2> QED BY <1>5, <2>1 DEF RequestModel, TypeOK, TraceEnd
<1>6. CASE ModelResponds
    <2>1. trace' \in Seq(TraceEvent) /\ TraceEnd'
        BY <1>6, SameTrace DEF ModelResponds
    <2> QED BY <1>6, <2>1, ResponsesAssumption DEF ModelResponds, TypeOK, TraceEnd
<1>7. CASE RecordResponse
    <2>1. trace' \in Seq(TraceEvent) /\ TraceEnd'
        BY <1>7, RecordedTrace DEF RecordResponse
    <2>3. response.tool_calls \in Seq(ToolCall)
        BY DEF TypeOK, ModelResponse
    <2>4. [i \in DOMAIN response.tool_calls |-> response.tool_calls[i].id] \in Seq(Ids)
      <3>1. \A i \in DOMAIN response.tool_calls : response.tool_calls[i] \in ToolCall
          BY <2>3
      <3>2. \A i \in DOMAIN response.tool_calls : response.tool_calls[i].id \in Ids
          BY <3>1 DEF ToolCall
      <3> QED BY <2>3, <3>2
    <2>5. messages' \in Seq([role : {"user", "assistant", "tool"}, calls : Seq(Ids)])
      <3> DEFINE ids == [i \in DOMAIN response.tool_calls |-> response.tool_calls[i].id]
      <3>1. Message("assistant", ids)
                \in [role : {"user", "assistant", "tool"}, calls : Seq(Ids)]
          BY <2>4 DEF Message
      <3>2. messages' = Append(messages, Message("assistant", ids))
          BY <1>7 DEF RecordResponse
      <3>3. messages \in Seq([role : {"user", "assistant", "tool"}, calls : Seq(Ids)])
          BY DEF TypeOK
      <3> HIDE DEF ids
      <3> QED BY <3>1, <3>2, <3>3, AppendType
    <2>6. pc' \in {"completed", "exhausted", "call"}
        BY <1>7 DEF RecordResponse, AfterResponse
    <2>7. pc' = "call" => position' \in DOMAIN response'.tool_calls
      <3>1. SUFFICES ASSUME response.tool_calls # <<>>
                     PROVE  1 \in DOMAIN response.tool_calls
          BY <1>7 DEF RecordResponse, AfterResponse
      <3> QED BY <2>3, <3>1
    <2> QED BY <1>7, <2>1, <2>5, <2>6, <2>7 DEF RecordResponse, TypeOK, TraceEnd
<1>8. CASE RequestTool
    <2>1. trace' \in Seq(TraceEvent) /\ TraceEnd'
        BY <1>8, RecordedTrace DEF RequestTool
    <2> QED BY <1>8, <2>1 DEF RequestTool, TypeOK, TraceEnd
<1>9. CASE EvaluatePolicy
    <2>1. trace' \in Seq(TraceEvent) /\ TraceEnd'
        BY <1>9, SameTrace DEF EvaluatePolicy
    <2>2. outcome' \in PolicyOutcome
        BY <1>9, CallType, EvaluateType DEF EvaluatePolicy, TypeOK
    <2> QED BY <1>9, <2>1, <2>2 DEF EvaluatePolicy, TypeOK, TraceEnd
<1>10. CASE EvaluationFails
    <2>1. trace' \in Seq(TraceEvent) /\ TraceEnd'
        BY <1>10, SameTrace DEF EvaluationFails
    <2> QED BY <1>10, <2>1 DEF EvaluationFails, TypeOK, TraceEnd
<1>11. CASE Approve
    <2>1. trace' \in Seq(TraceEvent) /\ TraceEnd'
        BY <1>11, SameTrace DEF Approve
    <2>2. PICK answer \in Answers(config.approval) :
              /\ outcome' = [decision |-> outcome.decision, rule |-> outcome.rule,
                             approved |-> answer]
              /\ consented' = IF answer THEN <<turns, position>> ELSE consented
        BY <1>11 DEF Approve
    <2>3. answer \in BOOLEAN
        BY <2>2 DEF Answers, TypeOK, Config, Approvals
    <2>4. outcome' \in PolicyOutcome
        BY <2>2, <2>3 DEF PolicyOutcome, TypeOK
    <2>5. consented' \in Nat \X Nat
        BY <2>2 DEF TypeOK, Config
    <2> QED BY <1>11, <2>1, <2>4, <2>5 DEF Approve, TypeOK, TraceEnd
<1>12. CASE RecordAllow
    <2>1. trace' \in Seq(TraceEvent) /\ TraceEnd'
        BY <1>12, RecordedTrace DEF RecordAllow, RecordDecision
    <2> QED BY <1>12, <2>1 DEF RecordAllow, RecordDecision, TypeOK, TraceEnd
<1>13. CASE RecordDeny
    <2>1. trace' \in Seq(TraceEvent) /\ TraceEnd'
        BY <1>13, RecordedTrace DEF RecordDeny, RecordDecision
    <2>2. tool_result' \in [status : ResultStatuses, output : Texts]
        BY <1>13 DEF RecordDeny, Result, ResultStatuses, Texts
    <2> QED BY <1>13, <2>1, <2>2 DEF RecordDeny, RecordDecision, TypeOK, TraceEnd
<1>14. CASE StartTool
    <2>1. trace' \in Seq(TraceEvent) /\ TraceEnd'
        BY <1>14, RecordedTrace DEF StartTool
    <2> QED BY <1>14, <2>1 DEF StartTool, TypeOK, TraceEnd
<1>15. CASE ToolReturns
    <2>1. trace' \in Seq(TraceEvent) /\ TraceEnd'
        BY <1>15, SameTrace DEF ToolReturns
    <2>2. tool_result' \in [status : ResultStatuses, output : Texts]
        BY <1>15, CallType, ExecuteType DEF ToolReturns
    <2> QED BY <1>15, <2>1, <2>2 DEF ToolReturns, TypeOK, TraceEnd
<1>16. CASE FinishTool
    <2>1. /\ tool_result.status \in ResultStatuses
          /\ tool_result.output \in Texts
        BY DEF TypeOK
    <2>2. sensitive_values' \in SUBSET Texts
        BY <1>16, <2>1 DEF FinishTool, SensitiveValuesAtFinish, Registered, TypeOK
    <2>5. trace' \in Seq(TraceEvent) /\ TraceEnd'
        BY <1>16, RecordedTrace DEF FinishTool
    <2>6. /\ tool_results' \in Seq(ResultStatuses)
          /\ messages' \in Seq([role : {"user", "assistant", "tool"}, calls : Seq(Ids)])
        BY <1>16, <2>1, CallType DEF FinishTool, Message, TypeOK, ToolCall
    <2>7. /\ position' \in Nat
          /\ pc' = "call" => position' \in DOMAIN response'.tool_calls
        BY <1>16 DEF FinishTool, TypeOK, ModelResponse
    <2> QED BY <1>16, <2>2, <2>5, <2>6, <2>7 DEF FinishTool, TypeOK, TraceEnd
<1>17. ASSUME NEW status \in RunStatuses, pc \in Records, End(status)
       PROVE  TypeOK'
    <2>2. trace' \in Seq(TraceEvent) /\ TraceEnd'
        BY <1>17, RecordedTrace DEF End
    <2> QED BY <1>17, <2>2 DEF End, Return, TypeOK, TraceEnd, Config
<1>18. CASE Complete \/ FinishAtLimit \/ ReportFailure \/ ReportCancel
    BY <1>18, <1>17 DEF Complete, FinishAtLimit, ReportFailure, ReportCancel, RunStatuses
<1>19. CASE ModelFails \/ ApprovalFails \/ Cancel
    <2>1. trace' \in Seq(TraceEvent) /\ TraceEnd'
        BY <1>19, SameTrace DEF ModelFails, ApprovalFails, Cancel
    <2> QED BY <1>19, <2>1 DEF ModelFails, ApprovalFails, Cancel, TypeOK, TraceEnd
<1>20. CASE RecorderFails
    <2>1. sensitive_values' \in SUBSET Texts
        BY <1>20 DEF RecorderFails, SensitiveValuesAtFinish, Registered, TypeOK
    <2>2. trace' \in Seq(TraceEvent) /\ TraceEnd'
        BY <1>20, RecordRaisesType DEF RecorderFails, TraceEnd, TornAtEnd
    <2> QED BY <1>20, <2>1, <2>2 DEF RecorderFails, Return, TypeOK, TraceEnd, RunStatuses, Config
<1>21. CASE UNCHANGED vars
    BY <1>21 DEF vars, TypeOK
<1> QED
    BY <1>1, <1>2, <1>3, <1>4, <1>5, <1>6, <1>7, <1>8, <1>9, <1>10, <1>11, <1>12,
       <1>13, <1>14, <1>15, <1>16, <1>18, <1>19, <1>20, <1>21 DEF Next, Progress

\* Every reachable state is well typed.
THEOREM TypeCorrect == Spec => []TypeOK
BY TypeInit, TypeStep, PTL DEF Spec

-----------------------------------------------------------------------------
(* Progress.  What a step has to show of where it leads.                    *)

MovesOn ==
    \/ turns' > turns
    \/ /\ turns' = turns
       /\ \/ Stage(pc') > Stage(pc)
          \/ /\ {pc, pc'} \subseteq CallLocations
             /\ \/ position' > position
                \/ position' = position /\ CallStage(pc') > CallStage(pc)

\* Every step of a run leads on.
LEMMA MovesOnStep == TypeOK /\ Next => MovesOn
<1> SUFFICES ASSUME TypeOK, Next PROVE MovesOn
    OBVIOUS
<1> USE DEF callVars, CallLocations
<1>1. turns \in Nat /\ position \in Nat
    BY TurnType DEF TypeOK
<1>2. CASE BeginTurn \/ BeginFinalization
    BY <1>1, <1>2 DEF BeginTurn, BeginFinalization, MovesOn
<1>3. CASE Start \/ ExhaustTurns \/ RequestModel \/ ModelResponds \/ RecordResponse
    BY <1>3 DEF Start, ExhaustTurns, RequestModel, ModelResponds, RecordResponse,
        AfterResponse, MovesOn, Stage
<1>4. CASE \/ RequestTool \/ EvaluatePolicy \/ Approve \/ RecordAllow \/ RecordDeny
           \/ StartTool \/ ToolReturns
    <2>1. /\ turns' = turns /\ position' = position
          /\ {pc, pc'} \subseteq CallLocations /\ CallStage(pc') > CallStage(pc)
        BY <1>4 DEF RequestTool, EvaluatePolicy, Approve, RecordAllow, RecordDeny,
            RecordDecision, StartTool, ToolReturns, CallStage
    <2> QED BY <2>1 DEF MovesOn
<1>5. CASE FinishTool
    <2>1. /\ turns' = turns /\ position' > position /\ pc = "finished"
          /\ pc' \in {"loop", "call"}
        BY <1>1, <1>5 DEF FinishTool
    <2>2. CASE pc' = "loop"
        BY <2>1, <2>2 DEF MovesOn, Stage
    <2>3. CASE pc' = "call"
        BY <2>1, <2>3 DEF MovesOn
    <2> QED BY <2>1, <2>2, <2>3
<1>6. CASE \/ Complete \/ FinishAtLimit \/ ReportFailure \/ ReportCancel
    <2>1. turns' = turns /\ pc' = "done" /\ Stage(pc) < 8
        BY <1>6 DEF Complete, FinishAtLimit, ReportFailure, ReportCancel, End, Stage
    <2> QED BY <2>1 DEF MovesOn, Stage
<1>7. CASE EvaluationFails \/ ModelFails \/ ApprovalFails \/ Cancel
    <2>1. turns' = turns /\ pc' \in {"failing", "cancelling"} /\ Stage(pc) < 7
        BY <1>7 DEF EvaluationFails, ModelFails, ApprovalFails, Cancel, Stage
    <2> QED BY <2>1 DEF MovesOn, Stage
<1>8. CASE RecorderFails
    <2>1. turns' = turns /\ pc \in Records
        BY <1>8 DEF RecorderFails
    <2>2. CASE pc' = "done"
        <3>1. Stage(pc) < 8
            BY <2>1 DEF Records, Stage
        <3> QED BY <2>1, <2>2, <3>1 DEF MovesOn, Stage
    <2>3. CASE pc' # "done"
        <3>1. pc' = "failing" /\ pc \notin {"failing", "cancelling"}
            BY <1>8, <2>3 DEF RecorderFails
        <3>2. Stage(pc) < 7
            BY <2>1, <3>1 DEF Records, Stage
        <3> QED BY <2>1, <3>1, <3>2 DEF MovesOn, Stage
    <2> QED BY <2>2, <2>3
<1> QED BY <1>2, <1>3, <1>4, <1>5, <1>6, <1>7, <1>8 DEF Next, Progress

\* Whatever fails, is denied or raises, no step of a run gives back a turn, repeats
\* a call or returns to an earlier step of one.
THEOREM RunsMoveOn == Spec => RunMovesOn
<1>1. TypeOK /\ [Next]_vars => [MovesOn]_vars
    BY MovesOnStep
<1> QED BY <1>1, TypeInit, TypeStep, PTL DEF Spec, RunMovesOn, MovesOn

-----------------------------------------------------------------------------
(* Permission.  What the policy decided stays in force until the tool runs,  *)
(* and an approval in force was given to the call in progress.               *)

PermissionInv ==
    /\ pc \in {"approval", "decided", "start_tool", "tool"} =>
          /\ ~EvaluateRaises(call)
          /\ outcome.decision = Evaluate(call, config).decision
    /\ pc = "approval" => outcome.decision = "ask"
    /\ pc \in {"decided", "start_tool", "tool"} /\ outcome.decision = "ask" /\ outcome.approved
          => consented = <<turns, position>>
    /\ pc \in {"start_tool", "tool"} => Allowed(outcome)

\* A run starts outside any call.
LEMMA PermissionInit == Init => PermissionInv
BY DEF Init, PermissionInv

\* Every step carries the decision about the call in progress along.
LEMMA PermissionStep == TypeOK /\ PermissionInv /\ [Next]_vars => PermissionInv'
<1> SUFFICES ASSUME TypeOK, PermissionInv, [Next]_vars PROVE PermissionInv'
    OBVIOUS
<1> USE DEF callVars
<1>1. CASE \/ Start \/ BeginTurn \/ BeginFinalization \/ ExhaustTurns \/ RequestModel
           \/ ModelResponds \/ RequestTool \/ EvaluationFails
    BY <1>1 DEF Start, BeginTurn, BeginFinalization, ExhaustTurns, RequestModel,
                ModelResponds, RequestTool, EvaluationFails, PermissionInv
<1>2. CASE RecordResponse
    BY <1>2 DEF RecordResponse, AfterResponse, PermissionInv
<1>3. CASE EvaluatePolicy
    <2>1. call' = call /\ config' = config
        BY <1>3 DEF EvaluatePolicy, call
    <2>2. /\ ~EvaluateRaises(call')
          /\ outcome'.decision = Evaluate(call', config').decision
        BY <1>3, <2>1 DEF EvaluatePolicy
    <2>3. pc' = (IF outcome'.decision = "ask" THEN "approval" ELSE "decided")
        BY <1>3 DEF EvaluatePolicy
    <2> QED BY <2>2, <2>3 DEF PermissionInv
<1>4. CASE Approve
    <2>1. PICK answer \in Answers(config.approval) :
              /\ outcome' = [decision |-> outcome.decision, rule |-> outcome.rule,
                             approved |-> answer]
              /\ consented' = IF answer THEN <<turns, position>> ELSE consented
        BY <1>4 DEF Approve
    <2>2. /\ call' = call /\ config' = config
          /\ pc = "approval" /\ pc' = "decided"
          /\ turns' = turns /\ position' = position
        BY <1>4 DEF Approve, call
    <2>3. /\ ~EvaluateRaises(call')
          /\ outcome'.decision = Evaluate(call', config').decision
        BY <2>1, <2>2 DEF PermissionInv
    <2>4. outcome'.approved => consented' = <<turns', position'>>
        BY <2>1, <2>2
    <2> QED BY <2>2, <2>3, <2>4 DEF PermissionInv
<1>5. CASE RecordAllow
    <2>1. /\ call' = call /\ config' = config /\ outcome' = outcome
          /\ consented' = consented /\ turns' = turns /\ position' = position
          /\ pc = "decided" /\ pc' = "start_tool" /\ Allowed(outcome)
        BY <1>5 DEF RecordAllow, RecordDecision, call
    <2> QED BY <2>1 DEF PermissionInv, Allowed
<1>6. CASE StartTool
    <2>1. /\ call' = call /\ config' = config /\ outcome' = outcome
          /\ consented' = consented /\ turns' = turns /\ position' = position
          /\ pc = "start_tool" /\ pc' = "tool"
        BY <1>6 DEF StartTool, call
    <2> QED BY <2>1 DEF PermissionInv, Allowed
<1>7. CASE RecordDeny \/ ToolReturns
    BY <1>7 DEF RecordDeny, RecordDecision, ToolReturns, PermissionInv
<1>8. CASE FinishTool
    BY <1>8 DEF FinishTool, PermissionInv
<1>9. CASE Complete \/ FinishAtLimit \/ ReportFailure \/ ReportCancel
    BY <1>9 DEF Complete, FinishAtLimit, ReportFailure, ReportCancel, End, PermissionInv
<1>10. CASE ModelFails \/ ApprovalFails \/ Cancel \/ RecorderFails
    BY <1>10 DEF ModelFails, ApprovalFails, Cancel, RecorderFails, PermissionInv
<1>11. CASE UNCHANGED vars
    <2>1. /\ call' = call /\ config' = config /\ outcome' = outcome
          /\ consented' = consented /\ turns' = turns /\ position' = position /\ pc' = pc
        BY <1>11 DEF vars, call
    <2> QED BY <2>1 DEF PermissionInv, Allowed
<1> QED
    BY <1>1, <1>2, <1>3, <1>4, <1>5, <1>6, <1>7, <1>8, <1>9, <1>10, <1>11
       DEF Next, Progress

\* A call the policy lets through has no effects the configuration forbids.
LEMMA PermissionImpliesPermitted ==
    ASSUME TypeOK, PermissionInv
    PROVE  EffectsArePermitted
<1> SUFFICES ASSUME pc = "tool", HasEffects(call)
             PROVE  /\ call.name \in WriteTools =>
                          call.arguments \notin {"outside", "unresolvable"}
                    /\ call.name = "bash" => call.arguments # "dangerous"
                    /\ \/ EffectPolicy = "allow"
                       \/ EffectPolicy = "ask" /\ consented = <<turns, position>>
    BY DEF EffectsArePermitted
<1>1. /\ ~EvaluateRaises(call)
      /\ outcome.decision = Evaluate(call, config).decision
      /\ outcome.decision = "ask" /\ outcome.approved => consented = <<turns, position>>
      /\ Allowed(outcome)
    BY DEF PermissionInv
<1>2. call.arguments # "malformed" /\ call.name \in WriteTools \cup {"bash"}
    BY DEF HasEffects, Invokes
<1>3. CASE call.name \in WriteTools
    <2>1. /\ call.name \in FileTools
          /\ call.name # "read_file"
          /\ call.name # "bash"
        BY <1>3 DEF WriteTools, FileTools
    <2>2. call.arguments # "unresolvable"
        BY <1>1, <2>1 DEF EvaluateRaises
    <2>3. call.arguments # "outside"
        BY <1>1, <1>2, <2>1 DEF Evaluate, EvaluateFile, Outcome, Allowed
    <2>4. outcome.decision = config.write_policy
        BY <1>1, <1>2, <2>1, <2>3 DEF Evaluate, EvaluateFile, Outcome
    <2> QED BY <1>1, <2>1, <2>2, <2>3, <2>4 DEF Allowed, EffectPolicy
<1>4. CASE call.name = "bash"
    <2>1. call.name \notin FileTools /\ call.name \notin WriteTools
        BY <1>4 DEF FileTools, WriteTools
    <2>2. call.arguments # "dangerous"
        BY <1>1, <1>2, <1>4, <2>1 DEF Evaluate, EvaluateShell, Outcome, Allowed
    <2>3. outcome.decision = config.shell_policy
        BY <1>1, <1>2, <1>4, <2>1, <2>2 DEF Evaluate, EvaluateShell, Outcome
    <2> QED BY <1>1, <1>4, <2>1, <2>2, <2>3 DEF Allowed, EffectPolicy
<1> QED BY <1>2, <1>3, <1>4

\* A tool that can change the workspace runs only with the permission of the
\* configuration or of the handler that was asked about this very call.
THEOREM EffectsPermitted == Spec => []EffectsArePermitted
<1>1. TypeOK /\ PermissionInv => EffectsArePermitted
    BY PermissionImpliesPermitted
<1> QED BY <1>1, TypeInit, TypeStep, PermissionInit, PermissionStep, PTL DEF Spec

-----------------------------------------------------------------------------
(* What a record adds to the trace.                                         *)

\* What a record adds to the trace, but for the text.
Extends(type, id, detail) ==
    /\ Len(trace') = Len(trace) + 1
    /\ \A i \in 1 .. Len(trace) : trace'[i] = trace[i]
    /\ trace'[Len(trace')].type = type
    /\ trace'[Len(trace')].turn = turns
    /\ trace'[Len(trace')].id = id
    /\ trace'[Len(trace')].detail = detail

\* Appending a line extends the trace by it.
LEMMA AppendExtends ==
    ASSUME TypeOK, NEW type, NEW id, NEW detail, NEW line, Says(line, type, id, detail),
           trace' = Append(trace, line)
    PROVE  Extends(type, id, detail)
<1>1. trace \in Seq(TraceEvent)
    BY DEF TypeOK
<1>2. /\ Len(trace') = Len(trace) + 1
      /\ \A i \in 1 .. Len(trace) : trace'[i] = trace[i]
      /\ trace'[Len(trace) + 1] = line
    BY <1>1
<1> QED BY <1>2 DEF Extends, Says

\* Recording an event extends the trace by it, if no part of a line is in the way.
LEMMA RecordExtends ==
    ASSUME TypeOK, pc \in Records \ {"failing"}, Record,
           NEW type, NEW id, NEW detail, Says(Line, type, id, detail)
    PROVE  Extends(type, id, detail)
BY RecordType, AppendExtends

\* The line that each step of the loop adds.
LEMMA StepExtends ==
    ASSUME TypeOK
    PROVE  /\ Start          => Extends("run_started", NoCall, "none")
           /\ RequestModel   => Extends("model_request", NoCall, "none")
           /\ RecordResponse => Extends("model_response", NoCall, "none")
           /\ RequestTool    => Extends("tool_requested", About(call), "none")
           /\ RecordAllow    => Extends("policy_decided", About(call), "allow")
           /\ RecordDeny     => Extends("policy_decided", About(call), "deny")
           /\ StartTool      => Extends("tool_started", About(call), "none")
           /\ FinishTool     => Extends("tool_finished", About(call), tool_result.status)
           /\ Complete       => Extends("run_finished", NoCall, "completed")
           /\ FinishAtLimit  => Extends("run_finished", NoCall, "max_turns")
           /\ ReportCancel   => Extends("run_failed", NoCall, "cancelled")
<1> USE DEF Records
<1>1. Start => Extends("run_started", NoCall, "none")
    BY LineSays, RecordExtends DEF Start
<1>2. RequestModel => Extends("model_request", NoCall, "none")
    BY LineSays, RecordExtends DEF RequestModel
<1>3. RecordResponse => Extends("model_response", NoCall, "none")
    BY LineSays, RecordExtends DEF RecordResponse
<1>4. RequestTool => Extends("tool_requested", About(call), "none")
    BY LineSays, RecordExtends DEF RequestTool
<1>5. RecordAllow => Extends("policy_decided", About(call), "allow")
    BY LineSays, RecordExtends DEF RecordAllow, RecordDecision
<1>6. RecordDeny => Extends("policy_decided", About(call), "deny")
    BY LineSays, RecordExtends DEF RecordDeny, RecordDecision
<1>7. StartTool => Extends("tool_started", About(call), "none")
    BY LineSays, RecordExtends DEF StartTool
<1>8. FinishTool => Extends("tool_finished", About(call), tool_result.status)
    BY LineSays, RecordExtends DEF FinishTool
<1>9. Complete => Extends("run_finished", NoCall, "completed")
    BY LineSays, RecordExtends DEF Complete, End
<1>10. FinishAtLimit => Extends("run_finished", NoCall, "max_turns")
    BY LineSays, RecordExtends DEF FinishAtLimit, End
<1>11. ReportCancel => Extends("run_failed", NoCall, "cancelled")
    BY LineSays, RecordExtends DEF ReportCancel, End
<1> QED BY <1>1, <1>2, <1>3, <1>4, <1>5, <1>6, <1>7, <1>8, <1>9, <1>10, <1>11

\* run_failed is added too, unless it is glued to the part of a line that made it
\* necessary.
LEMMA FailureExtends ==
    ASSUME TypeOK, ReportFailure
    PROVE  (Torn /\ trace' = trace) \/ Extends("run_failed", NoCall, "failed")
<1>1. pc = "failing" /\ WriteLine(Line) /\ pc \in Records
    BY DEF ReportFailure, End, Record, Records
<1>2. Says(Line, "run_failed", NoCall, "failed")
    BY <1>1, LineSays
<1>3. (Torn /\ trace' = trace) \/ trace' = Append(trace, Line)
    BY <1>1 DEF WriteLine
<1> QED BY <1>2, <1>3, AppendExtends

\* What a record that raises leaves in the file.
LEMMA RaisedLeaves ==
    ASSUME TypeOK, pc \in Records, RecordRaises
    PROVE  \/ trace' = trace
           \/ Extends("torn", NoCall, "none")
           \/ ~Torn /\ Extends(Line.type, Line.id, Line.detail)
<1>1. CASE Record
    <2>1. trace' = trace \/ (~Torn /\ trace' = Append(trace, Line))
        BY <1>1 DEF Record, WriteLine
    <2>2. Says(Line, Line.type, Line.id, Line.detail)
        BY LineSays DEF Says, Records
    <2> QED BY <2>1, <2>2, AppendExtends
<1>2. ASSUME NEW text, NEW names, WriteLine(Event("torn", NoCall, "none", text, names))
      PROVE  trace' = trace \/ Extends("torn", NoCall, "none")
    <2> DEFINE line == Event("torn", NoCall, "none", text, names)
    <2>1. trace' = trace \/ trace' = Append(trace, line)
        BY <1>2 DEF WriteLine
    <2>2. Says(line, "torn", NoCall, "none")
        BY EventSays
    <2> HIDE DEF line
    <2> QED BY <2>1, <2>2, AppendExtends
<1> QED BY <1>1, <1>2 DEF RecordRaises

\* A trace has a length.
LEMMA TraceLength == TypeOK => Len(trace) \in Nat
BY DEF TypeOK

-----------------------------------------------------------------------------
(* Write-ahead.                                                             *)

WriteAheadInv ==
    /\ pc \in {"policy", "approval", "decided"} =>
          /\ Len(trace) > 0
          /\ IsEvent(trace[Len(trace)], "tool_requested", "none")
    /\ pc = "start_tool" =>
          /\ Len(trace) > 1
          /\ IsEvent(trace[Len(trace) - 1], "tool_requested", "none")
          /\ IsEvent(trace[Len(trace)], "policy_decided", "allow")
    /\ WriteAheadTrace

\* A run starts outside any call.
LEMMA WriteAheadInit == Init => WriteAheadInv
BY DEF Init, WriteAheadInv, WriteAheadTrace

\* Every step leaves the lines of the call in progress at the end of the trace.
LEMMA WriteAheadStep == TypeOK /\ WriteAheadInv /\ [Next]_vars => WriteAheadInv'
<1> SUFFICES ASSUME TypeOK, WriteAheadInv, [Next]_vars PROVE WriteAheadInv'
    OBVIOUS
<1> USE DEF callVars
<1>0. Len(trace) \in Nat
    BY TraceLength
<1>1. CASE RequestTool
    <2>1. Extends("tool_requested", About(call), "none")
        BY <1>1, StepExtends
    <2>2. pc' = "policy" /\ call' = call /\ turns' = turns
        BY <1>1 DEF RequestTool, call
    <2>3. IsEvent(trace[Len(trace)], "tool_requested", "none")'
        BY <2>1, <2>2 DEF IsEvent, Extends, About
    <2>4. Len(trace') > 0
        BY <1>0, <2>1 DEF Extends
    <2> QED BY <2>2, <2>3, <2>4 DEF WriteAheadInv, WriteAheadTrace
<1>2. CASE EvaluatePolicy \/ Approve
    <2>1. pc \in {"policy", "approval"} /\ pc' \in {"approval", "decided"}
        BY <1>2 DEF EvaluatePolicy, Approve
    <2>2. trace' = trace /\ call' = call /\ turns' = turns
        BY <1>2 DEF EvaluatePolicy, Approve, call
    <2> QED BY <2>1, <2>2 DEF WriteAheadInv, WriteAheadTrace, IsEvent, About
<1>3. CASE RecordAllow
    <2>1. Extends("policy_decided", About(call), "allow")
        BY <1>3, StepExtends
    <2>2. pc = "decided" /\ pc' = "start_tool" /\ call' = call /\ turns' = turns
        BY <1>3 DEF RecordAllow, RecordDecision, call
    <2>3. /\ Len(trace) > 0
          /\ IsEvent(trace[Len(trace)], "tool_requested", "none")
        BY <2>2 DEF WriteAheadInv
    <2>4. /\ Len(trace') > 1
          /\ trace'[Len(trace') - 1] = trace[Len(trace)]
        BY <1>0, <2>1, <2>3 DEF Extends
    <2>5. IsEvent(trace[Len(trace) - 1], "tool_requested", "none")'
        BY <2>2, <2>3, <2>4 DEF IsEvent, About
    <2>6. IsEvent(trace[Len(trace)], "policy_decided", "allow")'
        BY <2>1, <2>2 DEF Extends, IsEvent, About
    <2> QED BY <2>2, <2>4, <2>5, <2>6 DEF WriteAheadInv, WriteAheadTrace
<1>4. CASE StartTool
    <2>1. Extends("tool_started", About(call), "none")
        BY <1>4, StepExtends
    <2>2. pc = "start_tool" /\ pc' = "tool" /\ call' = call /\ turns' = turns
        BY <1>4 DEF StartTool, call
    <2>3. /\ Len(trace) > 1
          /\ IsEvent(trace[Len(trace) - 1], "tool_requested", "none")
          /\ IsEvent(trace[Len(trace)], "policy_decided", "allow")
        BY <2>2 DEF WriteAheadInv
    <2>4. /\ Len(trace') > 2
          /\ trace'[Len(trace') - 1] = trace[Len(trace)]
          /\ trace'[Len(trace') - 2] = trace[Len(trace) - 1]
        BY <1>0, <2>1, <2>3 DEF Extends
    <2>5. IsEvent(trace[Len(trace) - 2], "tool_requested", "none")'
        BY <2>2, <2>3, <2>4 DEF IsEvent, About
    <2>6. IsEvent(trace[Len(trace) - 1], "policy_decided", "allow")'
        BY <2>2, <2>3, <2>4 DEF IsEvent, About
    <2>7. IsEvent(trace[Len(trace)], "tool_started", "none")'
        BY <2>1, <2>2 DEF Extends, IsEvent, About
    <2> QED BY <2>2, <2>4, <2>5, <2>6, <2>7 DEF WriteAheadInv, WriteAheadTrace
<1>5. CASE \/ Start \/ BeginTurn \/ BeginFinalization \/ ExhaustTurns \/ RequestModel
           \/ ModelResponds \/ EvaluationFails \/ RecordResponse
    BY <1>5 DEF Start, BeginTurn, BeginFinalization, ExhaustTurns, RequestModel,
        ModelResponds, EvaluationFails, RecordResponse, AfterResponse,
        WriteAheadInv, WriteAheadTrace
<1>6. CASE RecordDeny \/ ToolReturns \/ FinishTool
    BY <1>6 DEF RecordDeny, RecordDecision, ToolReturns, FinishTool,
        WriteAheadInv, WriteAheadTrace
<1>7. CASE Complete \/ FinishAtLimit \/ ReportFailure \/ ReportCancel
    BY <1>7 DEF Complete, FinishAtLimit, ReportFailure, ReportCancel, End,
        WriteAheadInv, WriteAheadTrace
<1>8. CASE ModelFails \/ ApprovalFails \/ Cancel \/ RecorderFails
    BY <1>8 DEF ModelFails, ApprovalFails, Cancel, RecorderFails,
        WriteAheadInv, WriteAheadTrace
<1>9. CASE UNCHANGED vars
    <2>1. pc' = pc /\ trace' = trace /\ call' = call /\ turns' = turns
        BY <1>9 DEF vars, call
    <2> QED BY <2>1 DEF WriteAheadInv, WriteAheadTrace, IsEvent, About
<1> QED BY <1>1, <1>2, <1>3, <1>4, <1>5, <1>6, <1>7, <1>8, <1>9 DEF Next, Progress

\* Whenever a tool runs, the trace already says that it was requested, allowed
\* and started.
THEOREM WrittenAhead == Spec => []WriteAheadTrace
<1>1. WriteAheadInv => WriteAheadTrace
    BY DEF WriteAheadInv
<1> QED BY <1>1, TypeInit, TypeStep, WriteAheadInit, WriteAheadStep, PTL DEF Spec

-----------------------------------------------------------------------------
(* The terminal event.                                                      *)

\* Before the end a run has told its caller nothing, and a terminal event on its
\* trace is a run_finished whose record raised.
TerminalInv ==
    /\ TerminalEventIsTheResult
    /\ pc # "done" => result.status = "running"
    /\ pc \notin {"start", "done"} => Len(trace) > 0
    /\ pc # "done" => \A i \in DOMAIN trace : trace[i].type \in Terminal =>
          pc = "failing" /\ i = Len(trace) /\ trace[i].type = "run_finished"

\* A run starts without a terminal event.
LEMMA TerminalInit == Init => TerminalInv
BY DEF Init, TerminalInv, TerminalEventIsTheResult, Running, RunStatuses

\* The lines of a trace that was extended.
LEMMA ExtendedTrace ==
    ASSUME TypeOK, TypeOK', NEW type, NEW id, NEW detail, Extends(type, id, detail)
    PROVE  /\ Len(trace) \in Nat /\ DOMAIN trace = 1 .. Len(trace)
           /\ Len(trace') = Len(trace) + 1
           /\ DOMAIN trace' = 1 .. (Len(trace) + 1)
           /\ \A i \in DOMAIN trace' : i # Len(trace') => i \in DOMAIN trace
           /\ \A i \in DOMAIN trace : i < Len(trace') /\ trace'[i] = trace[i]
           /\ trace' # <<>>
<1>1. trace \in Seq(TraceEvent) /\ trace' \in Seq(TraceEvent)
    BY DEF TypeOK
<1>2. Len(trace') = Len(trace) + 1 /\ \A i \in 1 .. Len(trace) : trace'[i] = trace[i]
    BY DEF Extends
<1>3. Len(trace) \in Nat /\ DOMAIN trace = 1 .. Len(trace)
    BY <1>1
<1>4. DOMAIN trace' = 1 .. Len(trace')
    BY <1>1
<1> QED BY <1>1, <1>2, <1>3, <1>4

\* Recording an event in the middle of a run adds no terminal one.
LEMMA NotTerminal ==
    ASSUME TypeOK, TypeOK', TerminalInv, pc \notin {"failing", "done"}, pc' # "done",
           result' = result, NEW type, type \notin Terminal, NEW id, NEW detail,
           Extends(type, id, detail)
    PROVE  TerminalInv'
<1>1. \A i \in DOMAIN trace' : trace'[i].type \notin Terminal
    BY ExtendedTrace DEF Extends, TerminalInv
<1>2. result'.status = "running" /\ Len(trace') > 0
    BY ExtendedTrace DEF TerminalInv
<1> QED BY <1>1, <1>2 DEF TerminalInv, TerminalEventIsTheResult

\* A step that records nothing, before the end, leaves all as it is.
LEMMA NothingRecorded ==
    ASSUME TypeOK, TerminalInv, trace' = trace, result' = result, pc' # "done",
           pc # "done", pc = "start" => pc' = "start", pc = "failing" => pc' = "failing"
    PROVE  TerminalInv'
BY DEF TerminalInv, TerminalEventIsTheResult, Torn, Tells

\* A run that returns with its terminal event written tells its caller the same.
LEMMA EndIsTerminal ==
    ASSUME TypeOK, TypeOK', TerminalInv, pc # "done", NEW type \in Terminal,
           NEW status \in {"completed", "max_turns", "failed", "cancelled"},
           pc = "failing" => status = "failed",
           Extends(type, NoCall, status), Return(status), pc' = "done"
    PROVE  TerminalInv'
<1>1. result'.status = status /\ result'.turns = turns
    BY DEF Return
<1>2. Tells(trace[Len(trace)])'
    BY <1>1 DEF Extends, Tells
<1>3. ASSUME NEW i \in DOMAIN trace', trace'[i].type \in Terminal, i < Len(trace')
      PROVE  i = Len(trace') - 1 /\ trace'[i].type = "run_finished" /\ status = "failed"
    <2>1. i \in DOMAIN trace /\ trace[i].type \in Terminal /\ trace'[i] = trace[i]
        BY <1>3, ExtendedTrace
    <2>2. pc = "failing" /\ i = Len(trace) /\ trace[i].type = "run_finished"
        BY <2>1 DEF TerminalInv
    <2> QED BY <2>1, <2>2, ExtendedTrace
<1>4. TerminalEventIsTheResult'
    BY <1>1, <1>2, <1>3 DEF TerminalEventIsTheResult
<1> QED BY <1>4 DEF TerminalInv

\* A run that raises may leave a run_finished and a run_failed behind.
LEMMA RaisedEnd ==
    ASSUME TypeOK, TypeOK', TerminalInv, pc # "done", result'.status = "raised", pc' = "done",
           \/ trace' = trace
           \/ \E type, id, detail : Extends(type, id, detail)
    PROVE  TerminalInv'
<1>1. ASSUME NEW i \in DOMAIN trace', trace'[i].type \in Terminal, i < Len(trace')
      PROVE  i = Len(trace') - 1 /\ trace'[i].type = "run_finished"
    <2>1. CASE trace' = trace
        BY <1>1, <2>1, TraceLength DEF TerminalInv
    <2>2. ASSUME NEW type, NEW id, NEW detail, Extends(type, id, detail)
          PROVE  i = Len(trace') - 1 /\ trace'[i].type = "run_finished"
        <3>1. i \in DOMAIN trace /\ trace'[i] = trace[i]
            BY <1>1, <2>2, ExtendedTrace
        <3>2. i = Len(trace) /\ trace[i].type = "run_finished"
            BY <1>1, <3>1 DEF TerminalInv
        <3> QED BY <2>2, <3>1, <3>2, ExtendedTrace
    <2> QED BY <2>1, <2>2
<1> QED BY <1>1 DEF TerminalInv, TerminalEventIsTheResult

\* A record that raises inside the try block may have written run_finished.
LEMMA RaisedInside ==
    ASSUME TypeOK, TypeOK', TerminalInv, RecorderFails,
           pc \notin {"start", "failing", "cancelling"}
    PROVE  TerminalInv'
<1>1. /\ pc \in Records /\ RecordRaises /\ pc' = "failing" /\ result' = result
      /\ pc # "done"
    BY DEF RecorderFails, Records
<1>2. Line.type \in Terminal => Line.type = "run_finished"
    BY <1>1, LineSays DEF Says, Records, Terminal
<1>3. \/ trace' = trace
      \/ \E type, id, detail :
            /\ Extends(type, id, detail)
            /\ type \in Terminal => type = "run_finished"
    BY <1>1, <1>2, RaisedLeaves DEF Terminal
<1>4. CASE trace' = trace
    BY <1>1, <1>4 DEF TerminalInv, TerminalEventIsTheResult, Torn, Tells
<1>5. ASSUME NEW type, NEW id, NEW detail, Extends(type, id, detail),
             type \in Terminal => type = "run_finished"
      PROVE  TerminalInv'
    <2>1. \A i \in DOMAIN trace : trace[i].type \notin Terminal
        BY <1>1 DEF TerminalInv
    <2>2. \A i \in DOMAIN trace' : trace'[i].type \in Terminal =>
              i = Len(trace') /\ trace'[i].type = "run_finished"
        BY <1>5, <2>1, ExtendedTrace DEF Extends
    <2>3. Len(trace') > 0 /\ Len(trace') \in Nat
        BY <1>5, ExtendedTrace
    <2>4. result'.status = "running"
        BY <1>1 DEF TerminalInv
    <2> QED BY <1>1, <2>2, <2>3, <2>4 DEF TerminalInv, TerminalEventIsTheResult
<1> QED BY <1>3, <1>4, <1>5

\* What the caller and the trace are told of the end stays the same.
LEMMA TerminalStep == TypeOK /\ TerminalInv /\ [Next]_vars => TerminalInv'
<1> SUFFICES ASSUME TypeOK, TerminalInv, [Next]_vars PROVE TerminalInv'
    OBVIOUS
<1> USE DEF callVars
<1>0. TypeOK'
    BY TypeStep
<1>1. CASE Start \/ RequestModel \/ RecordResponse
    <2>1. /\ pc \notin {"failing", "done"} /\ pc' # "done" /\ result' = result
          /\ \E type \in {"run_started", "model_request", "model_response"} :
                Extends(type, NoCall, "none")
        BY <1>1, StepExtends DEF Start, RequestModel, RecordResponse, AfterResponse
    <2> QED BY <1>0, <2>1, NotTerminal DEF Terminal
<1>2. CASE \/ RequestTool \/ RecordAllow \/ RecordDeny \/ StartTool \/ FinishTool
    <2>1. /\ pc \notin {"failing", "done"} /\ pc' # "done" /\ result' = result
          /\ \E type \in CallEvents : \E detail : Extends(type, About(call), detail)
        BY <1>2, StepExtends DEF RequestTool, RecordAllow, RecordDeny, RecordDecision,
                                 StartTool, FinishTool, CallEvents
    <2> QED BY <1>0, <2>1, NotTerminal DEF Terminal, CallEvents
<1>3. CASE Complete \/ FinishAtLimit \/ ReportCancel
    <2>1. /\ pc \notin {"failing", "done"} /\ pc' = "done"
          /\ \E type \in Terminal, status \in {"completed", "max_turns", "cancelled"} :
                Extends(type, NoCall, status) /\ Return(status)
        BY <1>3, StepExtends DEF Complete, FinishAtLimit, ReportCancel, End, Terminal
    <2> QED BY <1>0, <2>1, EndIsTerminal
<1>4. CASE ReportFailure
    <2>1. pc = "failing" /\ pc' = "done" /\ Return("failed")
        BY <1>4 DEF ReportFailure, End
    <2>2. CASE Extends("run_failed", NoCall, "failed")
        BY <1>0, <2>1, <2>2, EndIsTerminal DEF Terminal
    <2>3. CASE Torn /\ trace' = trace
        <3>1. result'.status = "failed" /\ Torn'
            BY <2>1, <2>3 DEF Return, Torn
        <3>2. \A i \in DOMAIN trace : trace[i].type \in Terminal => ~(i < Len(trace))
            BY <2>1, TraceLength DEF TerminalInv
        <3> QED BY <2>1, <2>3, <3>1, <3>2 DEF TerminalInv, TerminalEventIsTheResult
    <2> QED BY <1>4, <2>2, <2>3, FailureExtends
<1>5. CASE \/ BeginTurn \/ BeginFinalization \/ ExhaustTurns \/ ModelResponds
           \/ EvaluatePolicy \/ EvaluationFails \/ Approve \/ ToolReturns
           \/ ModelFails \/ ApprovalFails \/ Cancel
    <2>1. /\ pc \notin {"start", "failing", "done"} /\ pc' # "done"
          /\ result' = result /\ trace' = trace
        BY <1>5 DEF BeginTurn, BeginFinalization, ExhaustTurns, ModelResponds,
            EvaluatePolicy, EvaluationFails, Approve, ToolReturns, ModelFails,
            ApprovalFails, Cancel
    <2> QED BY <2>1, NothingRecorded
<1>6. CASE RecorderFails
    <2>1. CASE pc \in {"start", "failing", "cancelling"}
        <3>1. /\ pc \in Records /\ RecordRaises /\ pc # "done" /\ pc' = "done"
              /\ result'.status = "raised"
            BY <1>6, <2>1 DEF RecorderFails, Return
        <3> QED BY <1>0, <3>1, RaisedLeaves, RaisedEnd
    <2> QED BY <1>0, <1>6, <2>1, RaisedInside
<1>7. CASE UNCHANGED vars
    BY <1>7 DEF vars, TerminalInv, TerminalEventIsTheResult, Torn, Tells
<1> QED BY <1>1, <1>2, <1>3, <1>4, <1>5, <1>6, <1>7 DEF Next, Progress

\* A run that returns leaves what it tells its caller in the last line of its
\* trace, unless it has failed and the line is torn; and a terminal event before
\* the last line is a run_finished whose record raised, of a run that has failed.
THEOREM TerminalEvent == Spec => []TerminalEventIsTheResult
<1>1. TerminalInv => TerminalEventIsTheResult
    BY DEF TerminalInv
<1> QED BY <1>1, TypeInit, TypeStep, TerminalInit, TerminalStep, PTL DEF Spec

-----------------------------------------------------------------------------
(* Redaction.                                                               *)

NoEmptyValue == {} \notin sensitive_values

\* No step registers the empty value.
LEMMA NoEmptyValueStep == NoEmptyValue /\ [Next]_vars => NoEmptyValue'
BY DEF NoEmptyValue, Next, Progress, vars, callVars, Start, BeginTurn,
    BeginFinalization, ExhaustTurns, RequestModel, ModelResponds, RecordResponse,
    RequestTool, EvaluatePolicy, EvaluationFails, Approve, RecordAllow, RecordDeny,
    RecordDecision, StartTool, ToolReturns, FinishTool, Complete, FinishAtLimit,
    ReportFailure, ReportCancel, End, ModelFails, ApprovalFails, Cancel,
    RecorderFails, SensitiveValuesAtFinish, Registered

\* What has been sanitized holds no registered value.
LEMMA SanitizeRemoves ==
    ASSUME NEW text, NEW registered, NEW value \in registered, value # {}
    PROVE  ~(value \subseteq Sanitize(text, registered))
BY DEF Sanitize

\* The values that are registered when the run's next line is written.
RegisteredByNow ==
    IF pc = "finished" THEN SensitiveValuesAtFinish ELSE sensitive_values

\* A line holds no value that is registered when it is written.
LEMMA LineIsClean ==
    ASSUME pc \in Records, {} \notin RegisteredByNow, NEW value \in RegisteredByNow
    PROVE  ~(value \subseteq Line.text)
<1>1. value # {}
    OBVIOUS
<1>2. Line.text = {} \/ \E text : Line.text = Sanitize(text, RegisteredByNow)
    <2>1. CASE pc = "response"
        <3>1. Line.text = Sanitize(ResponseText, sensitive_values)
            BY <2>1 DEF Line, Event
        <3> QED BY <2>1, <3>1 DEF RegisteredByNow
    <2>2. CASE pc \in {"call", "decided"}
        <3>1. Line.text = Sanitize(call.text, sensitive_values)
            BY <2>2 DEF Line, CallLine, Event
        <3> QED BY <2>2, <3>1 DEF RegisteredByNow
    <2>3. CASE pc = "finished"
        <3>1. Line.text = Sanitize(FinishedText, SensitiveValuesAtFinish)
            BY <2>3 DEF Line, FinishedLine, Event
        <3> QED BY <2>3, <3>1 DEF RegisteredByNow
    <2>4. CASE pc \notin {"response", "call", "decided", "finished"}
        BY <2>4 DEF Line, Event, Records
    <2> QED BY <2>1, <2>2, <2>3, <2>4
<1>3. CASE Line.text = {}
    BY <1>1, <1>3
<1>4. ASSUME NEW text, Line.text = Sanitize(text, RegisteredByNow)
      PROVE  ~(value \subseteq Line.text)
    BY <1>1, <1>4, SanitizeRemoves
<1> QED BY <1>2, <1>3, <1>4

\* So does a part of one, and so a trace that gained either.
LEMMA WrittenIsClean ==
    ASSUME TypeOK, pc \in Records, {} \notin RegisteredByNow,
           NEW value \in RegisteredByNow, NEW line, line.text \subseteq Line.text,
           WriteLine(line), trace' # trace
    PROVE  ~(value \subseteq trace'[Len(trace')].text)
<1>1. trace \in Seq(TraceEvent) /\ trace' = Append(trace, line)
    BY DEF TypeOK, WriteLine
<1>2. trace'[Len(trace')] = line
    BY <1>1
<1> QED BY <1>2, LineIsClean

CleanStep ==
    \A value \in sensitive_values' :
        trace' # trace => ~(value \subseteq trace'[Len(trace')].text)

\* Whatever a step records holds no value registered by then.
LEMMA EchoStep == TypeOK /\ NoEmptyValue /\ [Next]_vars => CleanStep
<1> SUFFICES ASSUME TypeOK, NoEmptyValue, [Next]_vars, trace' # trace,
                    NEW value \in sensitive_values'
             PROVE  ~(value \subseteq trace'[Len(trace')].text)
    BY DEF CleanStep
<1> USE DEF callVars
<1>0. {} \notin sensitive_values'
    BY NoEmptyValueStep DEF NoEmptyValue
<1>1. ASSUME pc \in Records, Record, sensitive_values' = RegisteredByNow
      PROVE  ~(value \subseteq trace'[Len(trace')].text)
    BY <1>0, <1>1, WrittenIsClean DEF Record
<1>2. CASE \/ Start \/ RequestModel \/ RecordResponse \/ RequestTool
           \/ RecordAllow \/ RecordDeny \/ StartTool \/ FinishTool
    BY <1>1, <1>2 DEF Start, RequestModel, RecordResponse, RequestTool, RecordAllow,
        RecordDeny, RecordDecision, StartTool, FinishTool, RegisteredByNow, Records
<1>3. CASE Complete \/ FinishAtLimit \/ ReportFailure \/ ReportCancel
    BY <1>1, <1>3 DEF Complete, FinishAtLimit, ReportFailure, ReportCancel, End,
        RegisteredByNow, Records
<1>4. CASE RecorderFails
    <2>1. pc \in Records /\ RecordRaises /\ sensitive_values' = RegisteredByNow
        BY <1>4 DEF RecorderFails, RegisteredByNow
    <2>2. CASE Record
        BY <1>1, <2>1, <2>2
    <2>3. ASSUME NEW text \in SUBSET Line.text, NEW names,
                 WriteLine(Event("torn", NoCall, "none", text, names))
          PROVE  ~(value \subseteq trace'[Len(trace')].text)
        <3> DEFINE line == Event("torn", NoCall, "none", text, names)
        <3>1. line.text \subseteq Line.text
            BY DEF Event
        <3>2. WriteLine(line)
            BY <2>3
        <3> HIDE DEF line
        <3> QED BY <1>0, <2>1, <3>1, <3>2, WrittenIsClean
    <2> QED BY <2>1, <2>2, <2>3 DEF RecordRaises
<1>5. CASE \/ BeginTurn \/ BeginFinalization \/ ExhaustTurns \/ ModelResponds
           \/ EvaluatePolicy \/ EvaluationFails \/ Approve \/ ToolReturns
           \/ ModelFails \/ ApprovalFails \/ Cancel
    BY <1>5 DEF BeginTurn, BeginFinalization, ExhaustTurns, ModelResponds,
        EvaluatePolicy, EvaluationFails, Approve, ToolReturns, ModelFails,
        ApprovalFails, Cancel
<1>6. CASE UNCHANGED vars
    BY <1>6 DEF vars
<1> QED BY <1>2, <1>3, <1>4, <1>5, <1>6 DEF Next, Progress

\* Once the output of a sensitive read is registered, no string value of an event
\* the run writes holds the whole of it.
THEOREM NoEcho == Spec => NoSensitiveEcho
<1>1. Init => NoEmptyValue
    BY DEF Init, NoEmptyValue
<1>2. TypeOK /\ NoEmptyValue /\ [Next]_vars => [CleanStep]_vars
    BY EchoStep
<1> QED BY <1>1, <1>2, TypeInit, TypeStep, NoEmptyValueStep, PTL
        DEF Spec, NoSensitiveEcho, CleanStep

-----------------------------------------------------------------------------
(* Conversations.  One that is not paired yet is paired before its last     *)
(* assistant message, whose first calls have their tool messages.           *)

Messages == [role : {"user", "assistant", "tool"}, calls : Seq(Ids)]

PairedBefore(conversation, a) ==
    \A i \in 1 .. (a - 1) :
        /\ conversation[i].role = "assistant" =>
              \A k \in DOMAIN conversation[i].calls :
                 /\ i + k \in 1 .. (a - 1)
                 /\ conversation[i + k] = Message("tool", <<conversation[i].calls[k]>>)
        /\ conversation[i].role = "tool" =>
              \E j \in 1 .. (i - 1) : /\ conversation[j].role = "assistant"
                                     /\ i - j \in DOMAIN conversation[j].calls

\* The calls before the p-th of the last assistant message are answered.
Answering(conversation, ids, p) ==
    \E a \in 1 .. Len(conversation) :
        /\ Len(conversation) = a + p - 1
        /\ PairedBefore(conversation, a)
        /\ conversation[a] = Message("assistant", ids)
        /\ \A k \in 1 .. (p - 1) : conversation[a + k] = Message("tool", <<ids[k]>>)

\* What is appended to a sequence is its last element.
LEMMA Appended ==
    ASSUME NEW S, NEW s \in Seq(S), NEW e \in S
    PROVE  /\ Len(Append(s, e)) = Len(s) + 1
           /\ Append(s, e)[Len(s) + 1] = e
           /\ \A i \in 1 .. Len(s) : Append(s, e)[i] = s[i]
OBVIOUS

\* A response joins a paired conversation with none of its calls answered.
LEMMA AssistantJoins ==
    ASSUME NEW conversation \in Seq(Messages), Paired(conversation), NEW ids \in Seq(Ids)
    PROVE  Answering(Append(conversation, Message("assistant", ids)), ids, 1)
<1> DEFINE longer == Append(conversation, Message("assistant", ids))
           a == Len(conversation) + 1
<1>1. Message("assistant", ids) \in Messages
    BY DEF Message, Messages
<1>2. /\ a \in Nat \ {0}
      /\ Len(longer) = a
      /\ DOMAIN conversation = 1 .. (a - 1)
      /\ longer[a] = Message("assistant", ids)
      /\ \A i \in 1 .. (a - 1) : longer[i] = conversation[i]
    BY <1>1
<1> HIDE DEF longer, a
<1>3. PairedBefore(longer, a)
    <2> SUFFICES ASSUME NEW i \in 1 .. (a - 1)
                 PROVE  /\ longer[i].role = "assistant" =>
                              \A k \in DOMAIN longer[i].calls :
                                 /\ i + k \in 1 .. (a - 1)
                                 /\ longer[i + k] = Message("tool", <<longer[i].calls[k]>>)
                        /\ longer[i].role = "tool" =>
                              \E j \in 1 .. (i - 1) : /\ longer[j].role = "assistant"
                                                     /\ i - j \in DOMAIN longer[j].calls
        BY DEF PairedBefore
    <2>1. i \in DOMAIN conversation /\ longer[i] = conversation[i]
        BY <1>2
    <2>2. longer[i].role = "assistant" =>
              \A k \in DOMAIN longer[i].calls :
                 /\ i + k \in 1 .. (a - 1)
                 /\ longer[i + k] = Message("tool", <<longer[i].calls[k]>>)
        BY <1>2, <2>1 DEF Paired
    <2>3. ASSUME longer[i].role = "tool"
          PROVE  \E j \in 1 .. (i - 1) : /\ longer[j].role = "assistant"
                                        /\ i - j \in DOMAIN longer[j].calls
        <3>1. PICK j \in 1 .. (i - 1) : /\ conversation[j].role = "assistant"
                                       /\ i - j \in DOMAIN conversation[j].calls
            BY <2>1, <2>3 DEF Paired
        <3>2. longer[j] = conversation[j]
            BY <1>2
        <3> QED
            BY <3>1, <3>2
    <2> QED
        BY <2>2, <2>3
<1>4. Len(longer) = a + 1 - 1 /\ a \in 1 .. Len(longer) /\ 1 .. (1 - 1) = {}
    BY <1>2
<1>5. Answering(longer, ids, 1)
    BY <1>2, <1>3, <1>4 DEF Answering
<1> QED
    BY <1>5 DEF longer

\* A tool message answers the next call.
LEMMA ToolAnswers ==
    ASSUME NEW conversation \in Seq(Messages), NEW ids \in Seq(Ids), NEW p \in DOMAIN ids,
           Answering(conversation, ids, p)
    PROVE  Answering(Append(conversation, Message("tool", <<ids[p]>>)), ids, p + 1)
<1> DEFINE longer == Append(conversation, Message("tool", <<ids[p]>>))
<1>1. PICK a \in 1 .. Len(conversation) :
        /\ Len(conversation) = a + p - 1
        /\ PairedBefore(conversation, a)
        /\ conversation[a] = Message("assistant", ids)
        /\ \A k \in 1 .. (p - 1) : conversation[a + k] = Message("tool", <<ids[k]>>)
    BY DEF Answering
<1>2. p \in Nat \ {0} /\ Len(conversation) \in Nat /\ a \in Nat \ {0}
    OBVIOUS
<1>3. Message("tool", <<ids[p]>>) \in Messages
    BY DEF Message, Messages
<1>4. /\ Len(longer) = Len(conversation) + 1
      /\ longer[Len(conversation) + 1] = Message("tool", <<ids[p]>>)
      /\ \A i \in 1 .. Len(conversation) : longer[i] = conversation[i]
    BY <1>3, Appended
<1> HIDE DEF longer
<1>4a. Len(longer) = a + p /\ longer[a + p] = Message("tool", <<ids[p]>>)
    BY <1>1, <1>2, <1>4
<1>5. \A i \in 1 .. a : longer[i] = conversation[i]
    BY <1>2, <1>4
<1>6. PairedBefore(longer, a)
    <2> SUFFICES ASSUME NEW i \in 1 .. (a - 1)
                 PROVE  /\ longer[i].role = "assistant" =>
                              \A k \in DOMAIN longer[i].calls :
                                 /\ i + k \in 1 .. (a - 1)
                                 /\ longer[i + k] = Message("tool", <<longer[i].calls[k]>>)
                        /\ longer[i].role = "tool" =>
                              \E j \in 1 .. (i - 1) : /\ longer[j].role = "assistant"
                                                     /\ i - j \in DOMAIN longer[j].calls
        BY DEF PairedBefore
    <2>1. /\ longer[i] = conversation[i]
          /\ \A k \in 1 .. (a - 1) : longer[k] = conversation[k]
        BY <1>2, <1>5
    <2>2. longer[i].role = "assistant" =>
              \A k \in DOMAIN longer[i].calls :
                 /\ i + k \in 1 .. (a - 1)
                 /\ longer[i + k] = Message("tool", <<longer[i].calls[k]>>)
        BY <1>1, <2>1 DEF PairedBefore
    <2>3. ASSUME longer[i].role = "tool"
          PROVE  \E j \in 1 .. (i - 1) : /\ longer[j].role = "assistant"
                                        /\ i - j \in DOMAIN longer[j].calls
        <3>1. PICK j \in 1 .. (i - 1) : /\ conversation[j].role = "assistant"
                                       /\ i - j \in DOMAIN conversation[j].calls
            BY <1>1, <2>1, <2>3 DEF PairedBefore
        <3>2. longer[j] = conversation[j]
            BY <1>2, <1>5
        <3> QED
            BY <3>1, <3>2
    <2> QED
        BY <2>2, <2>3
<1>7. longer[a] = Message("assistant", ids)
    BY <1>1, <1>2, <1>5
<1>8. ASSUME NEW k \in 1 .. (p + 1 - 1)
      PROVE  longer[a + k] = Message("tool", <<ids[k]>>)
    <2>1. CASE k = p
        BY <1>4a, <2>1
    <2>2. CASE k # p
        <3>1. k \in 1 .. (p - 1) /\ a + k \in 1 .. Len(conversation)
            BY <1>1, <1>2, <2>2
        <3> QED
            BY <1>1, <1>4, <3>1
    <2> QED
        BY <2>1, <2>2
<1>9. a \in 1 .. Len(longer) /\ Len(longer) = a + (p + 1) - 1
    BY <1>2, <1>4a
<1>10. Answering(longer, ids, p + 1)
    BY <1>6, <1>7, <1>8, <1>9 DEF Answering
<1> QED
    BY <1>10 DEF longer

\* When all calls are answered, the conversation is paired.
LEMMA AllAnswered ==
    ASSUME NEW conversation \in Seq(Messages), NEW ids \in Seq(Ids),
           Answering(conversation, ids, Len(ids) + 1)
    PROVE  Paired(conversation)
<1>1. PICK a \in 1 .. Len(conversation) :
        /\ Len(conversation) = a + (Len(ids) + 1) - 1
        /\ PairedBefore(conversation, a)
        /\ conversation[a] = Message("assistant", ids)
        /\ \A k \in 1 .. (Len(ids) + 1 - 1) :
              conversation[a + k] = Message("tool", <<ids[k]>>)
    BY DEF Answering
<1>2. /\ Len(ids) \in Nat /\ Len(conversation) \in Nat /\ a \in Nat \ {0}
      /\ DOMAIN conversation = 1 .. (a + Len(ids))
      /\ DOMAIN ids = 1 .. Len(ids)
    BY <1>1
<1>3. /\ conversation[a].role = "assistant" /\ conversation[a].calls = ids
      /\ \A k \in DOMAIN ids : conversation[a + k] = Message("tool", <<ids[k]>>)
    BY <1>1, <1>2 DEF Message
<1>4. \A k \in DOMAIN ids : conversation[a + k].role = "tool"
    <2>1. \A calls : Message("tool", calls).role = "tool"
        BY DEF Message
    <2> QED
        BY <1>3, <2>1
<1> SUFFICES ASSUME NEW i \in DOMAIN conversation
             PROVE  /\ conversation[i].role = "assistant" =>
                          \A k \in DOMAIN conversation[i].calls :
                             /\ i + k \in DOMAIN conversation
                             /\ conversation[i + k] =
                                    Message("tool", <<conversation[i].calls[k]>>)
                    /\ conversation[i].role = "tool" =>
                          \E j \in 1 .. (i - 1) :
                             /\ conversation[j].role = "assistant"
                             /\ i - j \in DOMAIN conversation[j].calls
    BY DEF Paired
<1>5. CASE i < a
    <2>1. i \in 1 .. (a - 1) /\ 1 .. (a - 1) \subseteq DOMAIN conversation
        BY <1>2, <1>5
    <2> QED
        BY <1>1, <2>1 DEF PairedBefore
<1>6. CASE i = a
    <2>1. conversation[i].role # "tool"
        BY <1>3, <1>6
    <2>2. \A k \in DOMAIN ids : a + k \in DOMAIN conversation
        BY <1>2
    <2> QED
        BY <1>3, <1>6, <2>1, <2>2
<1>7. CASE i > a
    <2>1. i - a \in DOMAIN ids /\ a + (i - a) = i /\ a \in 1 .. (i - 1)
        BY <1>2, <1>7
    <2>2. conversation[i].role = "tool"
        BY <1>4, <2>1
    <2> QED
        BY <1>3, <2>1, <2>2
<1> QED
    BY <1>2, <1>5, <1>6, <1>7

-----------------------------------------------------------------------------
(* The conversation of a run.                                               *)

CallIds == [i \in DOMAIN response.tool_calls |-> response.tool_calls[i].id]

\* Between two turns the conversation is paired; while the calls of a response
\* are executed, those before the call in progress are answered.
ConversationInv ==
    /\ pc \in {"start", "loop", "request", "model", "response", "completed"}
          => Paired(messages)
    /\ pc \in CallLocations => Answering(messages, CallIds, position)

\* The ids of a response's calls, as the assistant message lists them.
LEMMA CallIdsType ==
    ASSUME TypeOK
    PROVE  /\ messages \in Seq(Messages)
           /\ CallIds \in Seq(Ids)
           /\ Len(CallIds) = Len(response.tool_calls)
           /\ pc \in CallLocations => position \in DOMAIN CallIds /\ CallIds[position] = call.id
<1>1. response.tool_calls \in Seq(ToolCall)
    BY DEF TypeOK, ModelResponse
<1>2. \A i \in DOMAIN response.tool_calls : response.tool_calls[i].id \in Ids
    <2>1. \A i \in DOMAIN response.tool_calls : response.tool_calls[i] \in ToolCall
        BY <1>1
    <2> QED
        BY <2>1 DEF ToolCall
<1>3. CallIds \in Seq(Ids) /\ Len(CallIds) = Len(response.tool_calls)
    BY <1>1, <1>2 DEF CallIds
<1>4. pc \in CallLocations => position \in DOMAIN response.tool_calls
    BY DEF TypeOK
<1>5. messages \in Seq(Messages)
    BY DEF TypeOK, Messages
<1> QED
    BY <1>3, <1>4, <1>5 DEF CallIds, call

\* A run starts with the user's message alone.
LEMMA ConversationInit == Init => ConversationInv
BY DEF Init, ConversationInv, Paired, Message, CallLocations

\* Every step keeps the conversation paired, or answered up to the call in progress.
LEMMA ConversationStep == TypeOK /\ ConversationInv /\ [Next]_vars => ConversationInv'
<1> SUFFICES ASSUME TypeOK, ConversationInv, [Next]_vars PROVE ConversationInv'
    OBVIOUS
<1> USE DEF callVars, CallLocations
<1>1. CASE RecordResponse
    <2>1. /\ pc = "response" /\ pc' = AfterResponse /\ position' = 1
          /\ messages' = Append(messages, Message("assistant", CallIds))
          /\ response' = response /\ CallIds' = CallIds
        BY <1>1 DEF RecordResponse, CallIds
    <2>2. Paired(messages) /\ messages \in Seq(Messages) /\ CallIds \in Seq(Ids)
        BY <2>1, CallIdsType DEF ConversationInv
    <2>3. Answering(messages', CallIds, 1)
        BY <2>1, <2>2, AssistantJoins
    <2>4. pc' = "completed" => Paired(messages')
        <3> SUFFICES ASSUME response.tool_calls = <<>> PROVE Paired(messages')
            BY <2>1 DEF AfterResponse
        <3>1. Len(CallIds) + 1 = 1
            BY CallIdsType
        <3>2. messages' \in Seq(Messages)
            BY TypeStep, CallIdsType DEF TypeOK, Messages
        <3> QED
            BY <2>2, <2>3, <3>1, <3>2, AllAnswered
    <2> QED
        BY <2>1, <2>3, <2>4 DEF ConversationInv, AfterResponse
<1>2. CASE FinishTool
    <2>1. /\ pc = "finished" /\ position' = position + 1
          /\ messages' = Append(messages, Message("tool", <<call.id>>))
          /\ response' = response /\ CallIds' = CallIds
          /\ pc' = IF position = Len(response.tool_calls) THEN "loop" ELSE "call"
        BY <1>2 DEF FinishTool, CallIds
    <2>2. /\ messages \in Seq(Messages) /\ CallIds \in Seq(Ids)
          /\ position \in DOMAIN CallIds /\ CallIds[position] = call.id
          /\ Len(CallIds) = Len(response.tool_calls)
        BY <2>1, CallIdsType
    <2>3. Answering(messages, CallIds, position)
        BY <2>1 DEF ConversationInv
    <2>4. Answering(messages', CallIds, position + 1)
        BY <2>1, <2>2, <2>3, ToolAnswers
    <2>5. pc' = "loop" => Paired(messages')
        <3> SUFFICES ASSUME position = Len(CallIds) PROVE Paired(messages')
            BY <2>1, <2>2
        <3>1. messages' \in Seq(Messages)
            BY TypeStep DEF TypeOK, Messages
        <3> QED
            BY <2>2, <2>4, <3>1, AllAnswered
    <2> QED
        BY <2>1, <2>4, <2>5 DEF ConversationInv
<1>3. CASE \/ Start \/ BeginTurn \/ BeginFinalization \/ ExhaustTurns \/ RequestModel
           \/ ModelResponds
    BY <1>3 DEF Start, BeginTurn, BeginFinalization, ExhaustTurns, RequestModel,
        ModelResponds, ConversationInv
<1>4. CASE \/ RequestTool \/ EvaluatePolicy \/ Approve \/ RecordAllow \/ RecordDeny
           \/ StartTool \/ ToolReturns
    <2>1. /\ messages' = messages /\ position' = position /\ CallIds' = CallIds
          /\ pc \in CallLocations /\ pc' \in CallLocations
        BY <1>4 DEF RequestTool, EvaluatePolicy, Approve, RecordAllow, RecordDeny,
            RecordDecision, StartTool, ToolReturns, CallIds
    <2> QED
        BY <2>1 DEF ConversationInv
<1>5. CASE \/ Complete \/ FinishAtLimit \/ ReportFailure \/ ReportCancel \/ EvaluationFails
           \/ ModelFails \/ ApprovalFails \/ Cancel \/ RecorderFails
    <2>1. pc' \in {"done", "failing", "cancelling"}
        BY <1>5 DEF Complete, FinishAtLimit, ReportFailure, ReportCancel, End,
            EvaluationFails, ModelFails, ApprovalFails, Cancel, RecorderFails
    <2> QED
        BY <2>1 DEF ConversationInv
<1>6. CASE UNCHANGED vars
    BY <1>6 DEF vars, ConversationInv, CallIds
<1> QED
    BY <1>1, <1>2, <1>3, <1>4, <1>5, <1>6 DEF Next, Progress

\* Every conversation the model is sent answers every tool call in it, in order
\* and once: a provider never has cause to refuse it.
THEOREM PairedConversation == Spec => []ConversationPaired
<1>1. ConversationInv => ConversationPaired
    BY DEF ConversationInv, ConversationPaired
<1> QED
    BY <1>1, TypeInit, TypeStep, ConversationInit, ConversationStep, PTL DEF Spec

-----------------------------------------------------------------------------
(* The contract.  Where the run is tells which call is open, and how many    *)
(* turns it may still begin.                                                *)

TurnBudget == IF config.finalization_turn THEN config.max_turns + 1 ELSE config.max_turns

BudgetInv ==
    /\ turns <= TurnBudget
    /\ pc \in {"request", "model", "response"} \cup CallLocations => turns > 0
    /\ pc \in CallLocations => turns <= config.max_turns
    /\ pc = "exhausted" => turns = TurnBudget

OpenInv ==
    /\ pc \in {"start", "loop", "request", "model", "response", "completed", "exhausted", "call"}
          => OpenCall = "none"
    /\ pc \in {"policy", "approval", "decided", "start_tool"} => OpenCall = "asked"
    /\ pc = "tool" => OpenCall = "ran"
    /\ pc = "finished" => OpenCall # "none"

\* The caller gets the results in the trace, but for one whose record raised.
CountInv ==
    /\ pc \notin {"failing", "done"} => Cardinality(Finished) = Len(tool_results)
    /\ pc = "failing" => \/ Cardinality(Finished) = Len(tool_results)
                         \/ Cardinality(Finished) = Len(tool_results) + 1

\* Nothing is open and no turn has begun when a run starts.
LEMMA ContractInvInit == Init => BudgetInv /\ OpenInv /\ CountInv
<1> SUFFICES ASSUME Init PROVE BudgetInv /\ OpenInv /\ CountInv
    OBVIOUS
<1>1. config.max_turns \in Nat \ {0}
    BY ConfigsAssumption DEF Init, Config
<1>2. BudgetInv
    BY <1>1 DEF Init, BudgetInv, TurnBudget, CallLocations
<1>3. DOMAIN trace = {} /\ Len(tool_results) = 0
    BY DEF Init
<1>4. OpenInv
    BY <1>3 DEF Init, OpenInv, OpenCall, LastCallEvent
<1>5. CountInv
    BY <1>3, FS_EmptySet DEF CountInv, Finished
<1> QED
    BY <1>2, <1>4, <1>5

\* The budget is never overdrawn, and calls are executed in turns with tools only.
LEMMA BudgetStep == TypeOK /\ BudgetInv /\ [Next]_vars => BudgetInv'
<1> SUFFICES ASSUME TypeOK, BudgetInv, [Next]_vars PROVE BudgetInv'
    OBVIOUS
<1> USE DEF callVars, CallLocations
<1>0. turns \in Nat /\ config.max_turns \in Nat \ {0}
    BY DEF TypeOK, Config
<1>1. CASE BeginTurn
    <2>1. pc' = "request" /\ config' = config
        BY <1>1 DEF BeginTurn
    <2>2. turns < config.max_turns /\ turns' = turns + 1
        BY <1>1 DEF BeginTurn
    <2>3. turns' > 0 /\ turns' <= TurnBudget'
        BY <1>0, <2>1, <2>2 DEF TurnBudget
    <2> QED
        BY <2>1, <2>3 DEF BudgetInv
<1>2. CASE BeginFinalization
    <2>1. pc' = "request" /\ config' = config /\ config.finalization_turn
        BY <1>2 DEF BeginFinalization
    <2>2. turns' = config.max_turns + 1
        BY <1>2 DEF BeginFinalization
    <2>3. turns' > 0 /\ turns' <= TurnBudget'
        BY <1>0, <2>1, <2>2 DEF TurnBudget
    <2> QED
        BY <2>1, <2>3 DEF BudgetInv
<1>3. CASE ExhaustTurns
    <2>1. pc' = "exhausted" /\ config' = config /\ turns' = turns /\ ~config.finalization_turn
          /\ turns = config.max_turns
        BY <1>3 DEF ExhaustTurns
    <2>2. turns' = TurnBudget' /\ turns' <= TurnBudget'
        BY <1>0, <2>1 DEF TurnBudget
    <2> QED
        BY <2>1, <2>2 DEF BudgetInv
<1>4. CASE RecordResponse
    <2>1. pc = "response" /\ pc' = AfterResponse /\ config' = config /\ turns' = turns
        BY <1>4 DEF RecordResponse
    <2>2. turns > 0 /\ turns <= TurnBudget
        BY <2>1 DEF BudgetInv
    <2>3. Finalizing => turns = TurnBudget
        BY <1>0, <2>2 DEF Finalizing, TurnBudget
    <2>4. ~Finalizing => turns <= config.max_turns
        BY <1>0, <2>2 DEF Finalizing, TurnBudget
    <2>5. \/ pc' = "completed"
          \/ pc' = "exhausted" /\ Finalizing
          \/ pc' = "call" /\ ~Finalizing
        BY <2>1 DEF AfterResponse
    <2> QED
        BY <2>1, <2>2, <2>3, <2>4, <2>5 DEF BudgetInv, TurnBudget
<1>5. CASE Start \/ RequestModel \/ ModelResponds
    BY <1>5 DEF Start, RequestModel, ModelResponds, BudgetInv, TurnBudget
<1>6. CASE \/ RequestTool \/ EvaluatePolicy \/ Approve \/ RecordAllow \/ RecordDeny
           \/ StartTool \/ ToolReturns
    <2>1. /\ turns' = turns /\ config' = config
          /\ pc \in CallLocations /\ pc' \in CallLocations
        BY <1>6 DEF RequestTool, EvaluatePolicy, Approve, RecordAllow, RecordDeny,
            RecordDecision, StartTool, ToolReturns
    <2> QED
        BY <2>1 DEF BudgetInv, TurnBudget
<1>7. CASE FinishTool
    <2>1. /\ turns' = turns /\ config' = config
          /\ pc \in CallLocations /\ pc' \in {"loop", "call"}
        BY <1>7 DEF FinishTool
    <2> QED
        BY <2>1 DEF BudgetInv, TurnBudget
<1>8. CASE \/ Complete \/ FinishAtLimit \/ ReportFailure \/ ReportCancel \/ EvaluationFails
           \/ ModelFails \/ ApprovalFails \/ Cancel \/ RecorderFails
    <2>1. /\ turns' = turns /\ config' = config
          /\ pc' \in {"done", "failing", "cancelling"}
        BY <1>8 DEF Complete, FinishAtLimit, ReportFailure, ReportCancel, End,
            EvaluationFails, ModelFails, ApprovalFails, Cancel, RecorderFails
    <2> QED
        BY <2>1 DEF BudgetInv, TurnBudget
<1>9. CASE UNCHANGED vars
    BY <1>9 DEF vars, BudgetInv, TurnBudget
<1> QED
    BY <1>1, <1>2, <1>3, <1>4, <1>5, <1>6, <1>7, <1>8, <1>9 DEF Next, Progress

\* The call that is open once a line of a type follows the trace.
OpenAfter(type) ==
    IF type \in {"tool_requested", "policy_decided"} THEN "asked"
    ELSE IF type = "tool_started" THEN "ran"
    ELSE IF type = "tool_finished" THEN "none" ELSE OpenCall

\* The last event about a call is the line that was added, or the one it was.
LEMMA LastOfExtended ==
    ASSUME TypeOK, TypeOK', NEW type, NEW id, NEW detail, Extends(type, id, detail),
           NEW types \in SUBSET CallEvents
    PROVE  LastCallEvent(types)' <=> IF type \in CallEvents THEN type \in types
                                                           ELSE LastCallEvent(types)
<1> DEFINE n == Len(trace)
<1>1. /\ n \in Nat /\ DOMAIN trace = 1 .. n
      /\ Len(trace') = n + 1 /\ DOMAIN trace' = 1 .. (n + 1)
      /\ \A i \in DOMAIN trace : trace'[i] = trace[i]
    BY ExtendedTrace
<1>2. trace'[n + 1].type = type
    BY <1>1 DEF Extends
<1> HIDE DEF n
<1>3. CASE type \in CallEvents
    <2>1. ASSUME type \in types PROVE LastCallEvent(types)'
        <3>1. n + 1 \in DOMAIN trace' /\ (n + 1) + 1 > Len(trace')
            BY <1>1
        <3>2. \A j \in ((n + 1) + 1) .. Len(trace') : FALSE
            BY <1>1
        <3> QED BY <1>2, <2>1, <3>1, <3>2 DEF LastCallEvent
    <2>2. ASSUME LastCallEvent(types)' PROVE type \in types
        <3>1. PICK i \in DOMAIN trace' :
                /\ trace'[i].type \in types
                /\ \A j \in (i + 1) .. Len(trace') : trace'[j].type \notin CallEvents
            BY <2>2 DEF LastCallEvent
        <3>2. ~(n + 1 \in (i + 1) .. Len(trace'))
            BY <1>2, <1>3, <3>1
        <3>3. i = n + 1
            BY <1>1, <3>2
        <3> QED BY <1>2, <3>1, <3>3
    <2> QED BY <1>3, <2>1, <2>2
<1>4. CASE type \notin CallEvents
    <2>1. ASSUME LastCallEvent(types) PROVE LastCallEvent(types)'
        <3>1. PICK i \in DOMAIN trace :
                /\ trace[i].type \in types
                /\ \A j \in (i + 1) .. Len(trace) : trace[j].type \notin CallEvents
            BY <2>1 DEF LastCallEvent
        <3>2. i \in DOMAIN trace' /\ trace'[i].type \in types
            BY <1>1, <3>1
        <3>3. ASSUME NEW j \in (i + 1) .. Len(trace') PROVE trace'[j].type \notin CallEvents
            <4>1. CASE j = n + 1
                BY <1>2, <1>4, <4>1
            <4>2. CASE j # n + 1
                <5>1. j \in DOMAIN trace /\ j \in (i + 1) .. Len(trace)
                    BY <1>1, <3>1, <4>2 DEF n
                <5> QED BY <1>1, <3>1, <5>1
            <4> QED BY <4>1, <4>2
        <3> QED BY <3>2, <3>3 DEF LastCallEvent
    <2>2. ASSUME LastCallEvent(types)' PROVE LastCallEvent(types)
        <3>1. PICK i \in DOMAIN trace' :
                /\ trace'[i].type \in types
                /\ \A j \in (i + 1) .. Len(trace') : trace'[j].type \notin CallEvents
            BY <2>2 DEF LastCallEvent
        <3>2. i # n + 1
            BY <1>2, <1>4, <3>1
        <3>3. i \in DOMAIN trace /\ trace[i].type \in types
            BY <1>1, <3>1, <3>2
        <3>4. ASSUME NEW j \in (i + 1) .. Len(trace) PROVE trace[j].type \notin CallEvents
            <4>1. j \in DOMAIN trace /\ j \in (i + 1) .. Len(trace')
                BY <1>1, <3>3 DEF n
            <4> QED BY <1>1, <3>1, <4>1
        <3> QED BY <3>3, <3>4 DEF LastCallEvent
    <2> QED BY <1>4, <2>1, <2>2
<1> QED BY <1>3, <1>4

\* A line opens, runs or closes a call, or leaves it as it is.
LEMMA OpenExtended ==
    ASSUME TypeOK, TypeOK', NEW type, NEW id, NEW detail, Extends(type, id, detail)
    PROVE  OpenCall' = OpenAfter(type)
<1> DEFINE asked == {"tool_requested", "policy_decided"}
           ran == {"tool_started"}
<1>1. asked \in SUBSET CallEvents /\ ran \in SUBSET CallEvents
    BY DEF CallEvents
<1>2. LastCallEvent(asked)' <=> IF type \in CallEvents THEN type \in asked
                                                     ELSE LastCallEvent(asked)
    BY <1>1, LastOfExtended
<1>3. LastCallEvent(ran)' <=> IF type \in CallEvents THEN type \in ran
                                                   ELSE LastCallEvent(ran)
    BY <1>1, LastOfExtended
<1>4. OpenCall = IF LastCallEvent(asked) THEN "asked"
                 ELSE IF LastCallEvent(ran) THEN "ran" ELSE "none"
    BY DEF OpenCall
<1>5. OpenCall' = IF LastCallEvent(asked)' THEN "asked"
                  ELSE IF LastCallEvent(ran)' THEN "ran" ELSE "none"
    BY DEF OpenCall
<1> QED BY <1>2, <1>3, <1>4, <1>5 DEF OpenAfter, CallEvents

\* A line is a result or leaves the results as they are.
LEMMA FinishedExtended ==
    ASSUME TypeOK, TypeOK', NEW type, NEW id, NEW detail, Extends(type, id, detail)
    PROVE  /\ Cardinality(Finished) \in Nat
           /\ type = "tool_finished" => Cardinality(Finished') = Cardinality(Finished) + 1
           /\ type # "tool_finished" => Finished' = Finished
<1>1. /\ Len(trace) \in Nat /\ DOMAIN trace = 1 .. Len(trace)
      /\ DOMAIN trace' = 1 .. (Len(trace) + 1)
      /\ \A i \in DOMAIN trace : trace'[i] = trace[i]
      /\ trace'[Len(trace) + 1].type = type
    BY ExtendedTrace DEF Extends
<1>2. /\ DOMAIN trace' = DOMAIN trace \cup {Len(trace) + 1}
      /\ Len(trace) + 1 \notin DOMAIN trace
    BY <1>1
<1>3. IsFiniteSet(Finished) /\ Cardinality(Finished) \in Nat
    <2>1. IsFiniteSet(DOMAIN trace) /\ Finished \in SUBSET (DOMAIN trace)
        BY <1>1, FS_Interval DEF Finished
    <2> QED BY <2>1, FS_Subset, FS_CardinalityType
<1>4. type # "tool_finished" => Finished' = Finished
    BY <1>1, <1>2 DEF Finished
<1>5. type = "tool_finished" => Finished' = Finished \cup {Len(trace) + 1}
    BY <1>1, <1>2 DEF Finished
<1>6. Len(trace) + 1 \notin Finished
    BY <1>2 DEF Finished
<1> QED BY <1>3, <1>4, <1>5, <1>6, FS_AddElement

\* What the line of each location does to the call that is open.
LEMMA OpenRecorded ==
    ASSUME TypeOK, TypeOK', pc \in Records, Extends(Line.type, Line.id, Line.detail)
    PROVE  /\ Cardinality(Finished) \in Nat
           /\ pc \in {"call", "decided"} => OpenCall' = "asked"
           /\ pc = "start_tool" => OpenCall' = "ran"
           /\ pc = "finished" => /\ OpenCall' = "none"
                                 /\ Cardinality(Finished') = Cardinality(Finished) + 1
           /\ pc # "finished" => Cardinality(Finished') = Cardinality(Finished)
           /\ pc \notin {"call", "decided", "start_tool", "finished"} => OpenCall' = OpenCall
<1>1. /\ pc = "call" => Line.type = "tool_requested"
      /\ pc = "decided" => Line.type = "policy_decided"
      /\ pc = "start_tool" => Line.type = "tool_started"
      /\ pc = "finished" => Line.type = "tool_finished"
      /\ pc \notin {"call", "decided", "start_tool", "finished"} => Line.type \notin CallEvents
    BY LineSays DEF Says, Records, CallEvents
<1>2. OpenCall' = OpenAfter(Line.type)
    BY OpenExtended
<1>3. /\ Cardinality(Finished) \in Nat
      /\ Line.type = "tool_finished" => Cardinality(Finished') = Cardinality(Finished) + 1
      /\ Line.type # "tool_finished" => Finished' = Finished
    BY FinishedExtended
<1> QED BY <1>1, <1>2, <1>3 DEF OpenAfter, CallEvents, Records

\* A part of a line is about no call.
LEMMA TornIsNoCall ==
    ASSUME TypeOK, TypeOK', Extends("torn", NoCall, "none")
    PROVE  OpenCall' = OpenCall /\ Finished' = Finished
BY OpenExtended, FinishedExtended DEF OpenAfter

\* A step that records nothing opens and closes no call.
LEMMA NothingOpened ==
    ASSUME trace' = trace
    PROVE  OpenCall' = OpenCall /\ Finished' = Finished
BY DEF OpenCall, LastCallEvent, Finished

\* A record that succeeds adds its line.
LEMMA RecordAddsLine ==
    ASSUME TypeOK, pc \in Records \ {"failing"}, Record
    PROVE  Extends(Line.type, Line.id, Line.detail)
<1>1. Says(Line, Line.type, Line.id, Line.detail)
    BY LineSays DEF Says, Records
<1> QED BY <1>1, RecordExtends

\* Where the run is keeps telling which call is open, and how many have a result.
LEMMA OpenStep ==
    TypeOK /\ TerminalInv /\ OpenInv /\ CountInv /\ [Next]_vars => OpenInv' /\ CountInv'
<1> SUFFICES ASSUME TypeOK, TerminalInv, OpenInv, CountInv, [Next]_vars
             PROVE  OpenInv' /\ CountInv'
    OBVIOUS
<1> USE DEF callVars
<1>0. TypeOK'
    BY TypeStep
<1>1. CASE \/ Start \/ RequestModel \/ RecordResponse \/ RequestTool
           \/ RecordAllow \/ RecordDeny \/ StartTool
    <2>1. /\ pc \in Records \ {"failing"} /\ Record /\ tool_results' = tool_results
          /\ pc' \notin {"failing", "done"}
          /\ pc # "finished"
        BY <1>1 DEF Start, RequestModel, RecordResponse, RequestTool, RecordAllow,
            RecordDeny, RecordDecision, StartTool, Records, AfterResponse
    <2>2. Extends(Line.type, Line.id, Line.detail)
        BY <2>1, RecordAddsLine
    <2>3. CountInv'
        <3>1. Cardinality(Finished') = Cardinality(Finished)
            BY <1>0, <2>1, <2>2, OpenRecorded
        <3>2. Cardinality(Finished) = Len(tool_results)
            BY <2>1 DEF CountInv, Records
        <3> QED BY <2>1, <3>1, <3>2 DEF CountInv
    <2>4. OpenInv'
        BY <1>0, <1>1, <2>1, <2>2, OpenRecorded DEF Start, RequestModel, RecordResponse,
            RequestTool, RecordAllow, RecordDeny, RecordDecision, StartTool, OpenInv,
            AfterResponse
    <2> QED BY <2>3, <2>4
<1>2. CASE FinishTool
    <2>1. /\ pc = "finished" /\ Record
          /\ tool_results' = Append(tool_results, tool_result.status)
          /\ pc' \in {"loop", "call"}
        BY <1>2 DEF FinishTool
    <2>2. Extends(Line.type, Line.id, Line.detail)
        BY <2>1, RecordAddsLine DEF Records
    <2>3. OpenCall' = "none" /\ Cardinality(Finished') = Cardinality(Finished) + 1
        BY <1>0, <2>1, <2>2, OpenRecorded DEF Records
    <2>4. Len(tool_results') = Len(tool_results) + 1
        <3>1. tool_results \in Seq(ResultStatuses)
            BY DEF TypeOK
        <3> QED BY <2>1, <3>1
    <2> QED BY <2>1, <2>3, <2>4 DEF OpenInv, CountInv
<1>3. CASE Complete \/ FinishAtLimit \/ ReportFailure \/ ReportCancel
    BY <1>3 DEF Complete, FinishAtLimit, ReportFailure, ReportCancel, End, OpenInv, CountInv
<1>4. CASE \/ BeginTurn \/ BeginFinalization \/ ExhaustTurns \/ ModelResponds
           \/ EvaluatePolicy \/ EvaluationFails \/ Approve \/ ToolReturns
           \/ ModelFails \/ ApprovalFails \/ Cancel \/ UNCHANGED vars
    <2>1. (trace' = trace /\ tool_results' = tool_results) \/ UNCHANGED vars
        BY <1>4 DEF BeginTurn, BeginFinalization, ExhaustTurns, ModelResponds,
            EvaluatePolicy, EvaluationFails, Approve, ToolReturns, ModelFails,
            ApprovalFails, Cancel
    <2>2. trace' = trace /\ tool_results' = tool_results
        BY <2>1 DEF vars
    <2>3. OpenCall' = OpenCall /\ Finished' = Finished
        BY <2>2, NothingOpened
    <2>4. \/ pc \notin {"failing", "done"}
          \/ pc' = pc
        BY <1>4 DEF BeginTurn, BeginFinalization, ExhaustTurns, ModelResponds,
            EvaluatePolicy, EvaluationFails, Approve, ToolReturns, ModelFails,
            ApprovalFails, Cancel, vars
    <2>5. CountInv'
        BY <2>2, <2>3, <2>4 DEF CountInv
    <2>6. OpenInv'
        BY <1>4, <2>3 DEF BeginTurn, BeginFinalization, ExhaustTurns, ModelResponds,
            EvaluatePolicy, EvaluationFails, Approve, ToolReturns, ModelFails,
            ApprovalFails, Cancel, vars, OpenInv
    <2> QED BY <2>5, <2>6
<1>5. CASE RecorderFails
    <2>1. pc' \in {"failing", "done"} /\ OpenInv'
        BY <1>5 DEF RecorderFails, OpenInv
    <2>2. CASE pc' = "done"
        BY <2>1, <2>2 DEF CountInv
    <2>3. CASE pc' = "failing"
        <3>1. /\ pc \in Records \ {"failing"} /\ RecordRaises /\ tool_results' = tool_results
              /\ pc \notin {"failing", "done"}
            BY <1>5, <2>3 DEF RecorderFails, Records
        <3>2. Cardinality(Finished) = Len(tool_results)
            BY <3>1 DEF CountInv
        <3>3. \/ Cardinality(Finished') = Cardinality(Finished)
              \/ Cardinality(Finished') = Cardinality(Finished) + 1
            BY <1>0, <3>1, RaisedLeaves, NothingOpened, TornIsNoCall, OpenRecorded
        <3> QED BY <2>1, <2>3, <3>1, <3>2, <3>3 DEF CountInv
    <2> QED BY <2>1, <2>2, <2>3
<1> QED BY <1>1, <1>2, <1>3, <1>4, <1>5 DEF Next, Progress

-----------------------------------------------------------------------------
(* Refinement: every step of a run is one of the contract's, or stutters.    *)

ContractInv == TypeOK /\ TerminalInv /\ BudgetInv /\ OpenInv /\ CountInv

\* The initial states map to initial states.
LEMMA ContractInit == Init => Contract!CInit
<1> SUFFICES ASSUME Init PROVE Contract!CInit
    OBVIOUS
<1>1. config \in Config
    BY ConfigsAssumption DEF Init
<1>2. [max_turns |-> config.max_turns, finalization_turn |-> config.finalization_turn]
        \in [max_turns : Nat \ {0}, finalization_turn : BOOLEAN]
    BY <1>1 DEF Config
<1>3. DOMAIN trace = {} /\ turns = 0 /\ result.status = "running"
    BY DEF Init, Running
<1>4. OpenCall = "none"
    BY <1>3 DEF OpenCall, LastCallEvent
<1>5. Cardinality(Finished) = 0
    BY <1>3, FS_EmptySet DEF Finished
<1> QED
    BY <1>2, <1>3, <1>4, <1>5 DEF Contract!CInit, Contract!Unfinished

\* A line that is written, whether its record returns or raises, is a step of the
\* contract about the call in progress, or about none.
LEMMA LineStep ==
    ASSUME ContractInv, TypeOK', pc \in Records, pc \notin {"failing", "cancelling"},
           Extends(Line.type, Line.id, Line.detail),
           turns' = turns, config' = config, result' = result
    PROVE  Contract!CNext \/ UNCHANGED Contract!contractVars
<1>1. /\ result.status = "running"
      /\ Contract!Unfinished
    BY DEF ContractInv, TerminalInv, Contract!Unfinished, Records
<1>2. /\ pc \in {"call", "decided"} => OpenCall' = "asked"
      /\ pc = "start_tool" => OpenCall' = "ran"
      /\ pc = "finished" => OpenCall' = "none"
      /\ pc = "finished" => Cardinality(Finished') = Cardinality(Finished) + 1
      /\ pc # "finished" => Cardinality(Finished') = Cardinality(Finished)
      /\ pc \notin {"call", "decided", "start_tool", "finished"} => OpenCall' = OpenCall
    BY OpenRecorded DEF ContractInv
<1>3. CASE pc = "call"
    <2>1. turns \in 1 .. config.max_turns
        BY <1>3 DEF ContractInv, BudgetInv, TypeOK, Config, CallLocations
    <2>2. OpenCall = "none"
        BY <1>3 DEF ContractInv, OpenInv
    <2>3. Contract!Ask
        BY <1>1, <1>2, <1>3, <2>1, <2>2 DEF Contract!Ask
    <2> QED BY <2>3 DEF Contract!CNext
<1>4. CASE pc = "start_tool"
    <2>1. OpenCall = "asked"
        BY <1>4 DEF ContractInv, OpenInv
    <2>2. Contract!Run
        BY <1>1, <1>2, <1>4, <2>1 DEF Contract!Run
    <2> QED BY <2>2 DEF Contract!CNext
<1>5. CASE pc = "finished"
    <2>1. OpenCall # "none"
        BY <1>5 DEF ContractInv, OpenInv
    <2>2. Contract!Answer
        BY <1>1, <1>2, <1>5, <2>1 DEF Contract!Answer
    <2> QED BY <2>2 DEF Contract!CNext
<1>6. CASE pc \notin {"call", "start_tool", "finished"}
    <2>1. OpenCall' = OpenCall
        BY <1>2, <1>6 DEF ContractInv, OpenInv
    <2> QED BY <1>1, <1>2, <1>6, <2>1 DEF Contract!contractVars
<1> QED BY <1>3, <1>4, <1>5, <1>6

\* A run that breaks off has at most one result that its caller does not get.
LEMMA BreakOffStep ==
    ASSUME ContractInv, pc # "done", NEW status \in {"failed", "cancelled", "raised"},
           Return(status), OpenCall' = OpenCall, Cardinality(Finished') = Cardinality(Finished),
           turns' = turns, config' = config, tool_results' = tool_results
    PROVE  Contract!CNext
<1>1. Contract!Unfinished
    BY DEF ContractInv, TerminalInv, Contract!Unfinished
<1>2. Len(tool_results) \in Nat
    BY DEF ContractInv, TypeOK
<1>3. PICK missed \in 0 .. 1 :
        Cardinality(Finished) = Len(tool_results) + missed
    <2>1. CASE Cardinality(Finished) = Len(tool_results)
        BY <1>2, <2>1
    <2>2. CASE Cardinality(Finished) = Len(tool_results) + 1
        BY <2>2
    <2> QED BY <2>1, <2>2 DEF ContractInv, CountInv
<1>4. missed <= Cardinality(Finished) /\ Cardinality(Finished) - missed = Len(tool_results)
    BY <1>2, <1>3
<1>5. Contract!Ending(status, Cardinality(Finished) - missed)
    BY <1>4 DEF Contract!Ending, Return
<1>6. Contract!BreakOff
    BY <1>1, <1>4, <1>5 DEF Contract!BreakOff, Contract!BrokenOff
<1> QED BY <1>6 DEF Contract!CNext

\* Every step of a run is one the contract allows, or changes nothing it speaks of.
LEMMA ContractStep == ContractInv /\ [Next]_vars => [Contract!CNext]_(Contract!contractVars)
<1> SUFFICES ASSUME ContractInv, [Next]_vars
             PROVE  Contract!CNext \/ UNCHANGED Contract!contractVars
    OBVIOUS
<1> USE DEF callVars
<1>1. TypeOK /\ TerminalInv /\ BudgetInv /\ OpenInv /\ CountInv
    BY DEF ContractInv
<1>2. TypeOK'
    BY <1>1, TypeStep
<1>3. turns \in Nat /\ config.max_turns \in Nat \ {0}
    BY <1>1 DEF TypeOK, Config
<1>4. pc # "done" => Contract!Unfinished
    BY <1>1 DEF TerminalInv, Contract!Unfinished
<1>5. CASE BeginTurn \/ BeginFinalization
    <2>1. /\ pc = "loop" /\ trace' = trace /\ config' = config
          /\ tool_results' = tool_results /\ result' = result
        BY <1>5 DEF BeginTurn, BeginFinalization
    <2>2. turns < TurnBudget /\ turns' = turns + 1
        BY <1>3, <1>5 DEF BeginTurn, BeginFinalization, TurnBudget
    <2>3. turns < Contract!Budget
        BY <2>2 DEF TurnBudget, Contract!Budget
    <2>4. /\ OpenCall = "none" /\ OpenCall' = OpenCall /\ Contract!Unfinished
          /\ Finished' = Finished
        BY <1>1, <1>4, <2>1, NothingOpened DEF OpenInv
    <2>5. Contract!Consult
        BY <2>1, <2>2, <2>3, <2>4 DEF Contract!Consult
    <2> QED
        BY <2>5 DEF Contract!CNext
<1>6. CASE \/ Start \/ RequestModel \/ RecordResponse \/ RequestTool
           \/ RecordAllow \/ RecordDeny \/ StartTool \/ FinishTool
    <2>1. /\ pc \in Records \ {"failing"} /\ pc # "cancelling" /\ Record
          /\ turns' = turns /\ config' = config /\ result' = result
        BY <1>6 DEF Start, RequestModel, RecordResponse, RequestTool, RecordAllow,
            RecordDeny, RecordDecision, StartTool, FinishTool, Records
    <2>2. Extends(Line.type, Line.id, Line.detail)
        BY <1>1, <2>1, RecordAddsLine
    <2> QED
        BY <1>2, <2>1, <2>2, LineStep
<1>7. CASE Complete \/ FinishAtLimit
    <2>1. /\ pc \in {"completed", "exhausted"} /\ turns' = turns /\ config' = config
          /\ tool_results' = tool_results /\ Record
        BY <1>7 DEF Complete, FinishAtLimit, End
    <2>2. PICK status \in {"completed", "max_turns"} :
            /\ status = "max_turns" => pc = "exhausted"
            /\ result' = [status |-> status, turns |-> turns]
        BY <1>7 DEF Complete, FinishAtLimit, End, Return
    <2>3. Extends(Line.type, Line.id, Line.detail)
        BY <1>1, <2>1, RecordAddsLine DEF Records
    <2>4. /\ OpenCall = "none" /\ OpenCall' = OpenCall
          /\ Cardinality(Finished') = Cardinality(Finished)
        BY <1>1, <1>2, <2>1, <2>3, OpenRecorded DEF OpenInv, Records
    <2>5. status = "max_turns" => turns = Contract!Budget
        BY <1>1, <2>2 DEF BudgetInv, TurnBudget, Contract!Budget
    <2>6. Len(tool_results) = Cardinality(Finished)
        BY <1>1, <2>1 DEF CountInv
    <2>7. Contract!Ending(status, Cardinality(Finished))
        BY <2>1, <2>2, <2>6 DEF Contract!Ending
    <2>8. Contract!Finish
        BY <1>4, <2>1, <2>2, <2>4, <2>5, <2>7 DEF Contract!Finish, Contract!InOrder
    <2> QED
        BY <2>8 DEF Contract!CNext
<1>8. ASSUME Extends("run_failed", NoCall, "failed") \/ Extends("run_failed", NoCall, "cancelled")
      PROVE  OpenCall' = OpenCall /\ Finished' = Finished
    BY <1>1, <1>2, <1>8, OpenExtended, FinishedExtended DEF OpenAfter
<1>9. CASE ReportFailure \/ ReportCancel
    <2>1. /\ pc # "done" /\ turns' = turns /\ config' = config
          /\ tool_results' = tool_results
          /\ \E status \in {"failed", "cancelled"} : Return(status)
        BY <1>9 DEF ReportFailure, ReportCancel, End
    <2>2. \/ trace' = trace
          \/ Extends("run_failed", NoCall, "failed")
          \/ Extends("run_failed", NoCall, "cancelled")
        BY <1>1, <1>9, StepExtends, FailureExtends
    <2>3. OpenCall' = OpenCall /\ Finished' = Finished
        BY <1>8, <2>2, NothingOpened
    <2> QED
        BY <2>1, <2>3, BreakOffStep
<1>10. CASE RecorderFails
    <2>1. /\ pc \in Records /\ RecordRaises /\ pc # "done" /\ turns' = turns /\ config' = config
          /\ tool_results' = tool_results
        BY <1>10 DEF RecorderFails, Records
    <2>2. \/ trace' = trace
          \/ Extends("torn", NoCall, "none")
          \/ Extends(Line.type, Line.id, Line.detail)
        BY <1>1, <2>1, RaisedLeaves
    <2>3. CASE pc \in {"start", "failing", "cancelling"}
        <3>1. Return("raised")
            BY <1>10, <2>3 DEF RecorderFails
        <3>2. OpenCall' = OpenCall /\ Cardinality(Finished') = Cardinality(Finished)
            BY <1>1, <1>2, <2>1, <2>2, <2>3, NothingOpened, TornIsNoCall, OpenRecorded
        <3> QED
            BY <2>1, <3>1, <3>2, BreakOffStep
    <2>4. CASE pc \notin {"start", "failing", "cancelling"}
        <3>1. result' = result
            BY <1>10, <2>4 DEF RecorderFails
        <3>2. CASE Extends(Line.type, Line.id, Line.detail)
            BY <1>2, <2>1, <2>4, <3>1, <3>2, LineStep
        <3>3. CASE trace' = trace \/ Extends("torn", NoCall, "none")
            <4>1. OpenCall' = OpenCall /\ Finished' = Finished
                BY <1>1, <1>2, <3>3, NothingOpened, TornIsNoCall
            <4> QED
                BY <2>1, <3>1, <4>1 DEF Contract!contractVars
        <3> QED
            BY <2>2, <3>2, <3>3
    <2> QED
        BY <2>3, <2>4
<1>11. CASE \/ ExhaustTurns \/ ModelResponds \/ EvaluatePolicy \/ EvaluationFails \/ Approve
            \/ ToolReturns \/ ModelFails \/ ApprovalFails \/ Cancel \/ UNCHANGED vars
    <2>1. /\ turns' = turns /\ config' = config /\ tool_results' = tool_results
          /\ result' = result /\ trace' = trace
        BY <1>11 DEF ExhaustTurns, ModelResponds, EvaluatePolicy, EvaluationFails, Approve,
            ToolReturns, ModelFails, ApprovalFails, Cancel, vars
    <2>2. OpenCall' = OpenCall /\ Finished' = Finished
        BY <2>1, NothingOpened
    <2> QED
        BY <2>1, <2>2 DEF Contract!contractVars
<1> QED
    BY <1>5, <1>6, <1>7, <1>9, <1>10, <1>11 DEF Next, Progress

\* AgentRuntime.run implements RunContract: whatever fails, the model is consulted
\* within the budget, one call is open at a time and is run at most once, a run
\* that ends in good order has answered every call it opened and hands over every
\* result, and one that breaks off keeps back at most one.
THEOREM ContractKept == Spec => KeepsContract
<1>1. TypeOK /\ BudgetInv /\ [Next]_vars => BudgetInv'
    BY BudgetStep
<1>2. TypeOK /\ TerminalInv /\ OpenInv /\ CountInv /\ [Next]_vars => OpenInv' /\ CountInv'
    BY OpenStep
<1>3. Init => ContractInv
    BY TypeInit, TerminalInit, ContractInvInit DEF ContractInv
<1>4. ContractInv /\ [Next]_vars => ContractInv'
    BY <1>1, <1>2, TypeStep, TerminalStep DEF ContractInv
<1> QED
    BY <1>3, <1>4, ContractInit, ContractStep, PTL DEF Spec, KeepsContract, Contract!CSpec

-----------------------------------------------------------------------------
(* Results.  The caller, the trace and the conversation get a call's result  *)
(* in one step, so that each has it at the same rank.                        *)

\* A number greater than all others has the last rank, and leaves theirs alone.
LEMMA LastRank ==
    ASSUME NEW positions \in SUBSET Nat, IsFiniteSet(positions), NEW last \in Nat,
           \A i \in positions : i < last
    PROVE  /\ Cardinality(positions) \in Nat
           /\ Cardinality(positions \cup {last}) = Cardinality(positions) + 1
           /\ Rank(last, positions \cup {last}) = Cardinality(positions) + 1
           /\ \A i \in positions : /\ Rank(i, positions \cup {last}) = Rank(i, positions)
                                   /\ Rank(i, positions) \in 1 .. Cardinality(positions)
<1>1. last \notin positions
    OBVIOUS
<1>2. /\ Cardinality(positions) \in Nat
      /\ Cardinality(positions \cup {last}) = Cardinality(positions) + 1
    BY <1>1, FS_CardinalityType, FS_AddElement
<1>3. {j \in positions \cup {last} : j <= last} = positions \cup {last}
    <2>1. \A j \in positions \cup {last} : j <= last
        OBVIOUS
    <2> QED
        BY <2>1
<1>4. Rank(last, positions \cup {last}) = Cardinality(positions) + 1
    BY <1>2, <1>3 DEF Rank
<1>5. ASSUME NEW i \in positions
      PROVE  /\ Rank(i, positions \cup {last}) = Rank(i, positions)
             /\ Rank(i, positions) \in 1 .. Cardinality(positions)
    <2> DEFINE below == {j \in positions : j <= i}
    <2>1. {j \in positions \cup {last} : j <= i} = below
        OBVIOUS
    <2>2. below \in SUBSET positions /\ i \in below
        OBVIOUS
    <2> HIDE DEF below
    <2>3. IsFiniteSet(below) /\ Cardinality(below) <= Cardinality(positions)
        BY <2>2, FS_Subset
    <2>4. Cardinality(below) \in Nat /\ Cardinality(below) # 0
        BY <2>2, <2>3, FS_CardinalityType, FS_EmptySet
    <2>5. Rank(i, positions) = Cardinality(below)
        BY DEF Rank, below
    <2>6. Rank(i, positions \cup {last}) = Cardinality(below)
        BY <2>1 DEF Rank
    <2> QED
        BY <1>2, <2>3, <2>4, <2>5, <2>6
<1> QED
    BY <1>2, <1>4, <1>5

ToolMessages == {i \in DOMAIN messages : messages[i].role = "tool"}

\* The run is in progress, or has ended in good order.
InGoodOrder == pc \notin {"failing", "done"} \/ result.status \in {"completed", "max_turns"}

SameResults ==
    /\ Cardinality(Finished) = Len(tool_results)
    /\ \A i \in Finished : tool_results[Rank(i, Finished)] = trace[i].detail
    /\ Cardinality(ToolMessages) = Len(tool_results)
    /\ \A i \in Finished, j \in ToolMessages :
          Rank(i, Finished) = Rank(j, ToolMessages) =>
              trace[i].id = {messages[j].calls[1]}

ResultsInv == InGoodOrder => SameResults

\* The positions of lines and of messages are finite sets of numbers.
LEMMA PositionsAreFinite ==
    ASSUME TypeOK
    PROVE  /\ Len(trace) \in Nat /\ Len(messages) \in Nat /\ Len(tool_results) \in Nat
           /\ DOMAIN trace = 1 .. Len(trace) /\ DOMAIN messages = 1 .. Len(messages)
           /\ Finished \in SUBSET Nat /\ IsFiniteSet(Finished)
           /\ ToolMessages \in SUBSET Nat /\ IsFiniteSet(ToolMessages)
<1>1. /\ Len(trace) \in Nat /\ Len(messages) \in Nat /\ Len(tool_results) \in Nat
      /\ DOMAIN trace = 1 .. Len(trace) /\ DOMAIN messages = 1 .. Len(messages)
    BY DEF TypeOK
<1>2. IsFiniteSet(1 .. Len(trace)) /\ IsFiniteSet(1 .. Len(messages))
    BY <1>1, FS_Interval
<1>3. /\ Finished \in SUBSET (1 .. Len(trace))
      /\ ToolMessages \in SUBSET (1 .. Len(messages))
    BY <1>1 DEF Finished, ToolMessages
<1>4. IsFiniteSet(Finished) /\ IsFiniteSet(ToolMessages)
    BY <1>2, <1>3, FS_Subset
<1> QED
    BY <1>1, <1>3, <1>4

\* A run starts with no result anywhere.
LEMMA ResultsInit == Init => ResultsInv
<1> SUFFICES ASSUME Init PROVE SameResults
    BY DEF ResultsInv
<1>1. Finished = {}
    BY DEF Init, Finished
<1>2. ToolMessages = {}
    BY DEF Init, ToolMessages, Message
<1>3. Len(tool_results) = 0
    BY DEF Init
<1> QED
    BY <1>1, <1>2, <1>3, FS_EmptySet DEF SameResults

\* The record of a result gives it to all three.
LEMMA ResultsFinish == TypeOK /\ SameResults /\ FinishTool => SameResults'
<1> SUFFICES ASSUME TypeOK, SameResults, FinishTool PROVE SameResults'
    OBVIOUS
<1>1. /\ Extends("tool_finished", About(call), tool_result.status)
      /\ messages' = Append(messages, Message("tool", <<call.id>>))
      /\ tool_results' = Append(tool_results, tool_result.status)
      /\ pc = "finished"
    BY StepExtends DEF FinishTool
<1>2. call.id \in Ids /\ tool_result.status \in ResultStatuses
    BY <1>1, CallType DEF CallLocations, ToolCall, TypeOK
<1> DEFINE line == Len(trace) + 1
           answer == Len(messages) + 1
           count == Len(tool_results)
<1>3. /\ Len(trace') = line
      /\ \A i \in DOMAIN trace : trace'[i] = trace[i]
      /\ trace'[line].type = "tool_finished"
      /\ trace'[line].id = {call.id} /\ trace'[line].detail = tool_result.status
      /\ DOMAIN trace' = 1 .. line
    <2>1. trace' \in Seq(TraceEvent)
        BY TypeStep DEF TypeOK, Next, Progress
    <2> QED
        BY <1>1, <2>1, PositionsAreFinite DEF Extends, About
<1>4. /\ Len(messages') = answer
      /\ \A i \in DOMAIN messages : messages'[i] = messages[i]
      /\ messages'[answer].role = "tool" /\ messages'[answer].calls[1] = call.id
      /\ DOMAIN messages' = 1 .. answer
    <2>1. messages \in Seq(Messages) /\ Message("tool", <<call.id>>) \in Messages
        BY <1>2 DEF TypeOK, Message, Messages
    <2>2. messages' \in Seq(Messages)
        BY TypeStep DEF TypeOK, Messages, Next, Progress
    <2>3. /\ Len(messages') = answer
          /\ \A i \in 1 .. Len(messages) : messages'[i] = messages[i]
          /\ messages'[answer] = Message("tool", <<call.id>>)
        BY <1>1, <2>1, Appended
    <2>4. DOMAIN messages' = 1 .. answer
        BY <2>2, <2>3
    <2> QED
        BY <2>3, <2>4, PositionsAreFinite DEF Message
<1>5. /\ Len(tool_results') = count + 1
      /\ \A k \in 1 .. count : tool_results'[k] = tool_results[k]
      /\ tool_results'[count + 1] = tool_result.status
    <2>1. tool_results \in Seq(ResultStatuses)
        BY DEF TypeOK
    <2> QED
        BY <1>1, <1>2, <2>1, Appended
<1>6. /\ line \in Nat /\ answer \in Nat
      /\ \A i \in Finished : i \in DOMAIN trace /\ i < line
      /\ \A j \in ToolMessages : j \in DOMAIN messages /\ j < answer
    BY PositionsAreFinite DEF Finished, ToolMessages
<1>7. Finished' = Finished \cup {line}
    <2>1. 1 .. line = DOMAIN trace \cup {line}
        BY PositionsAreFinite
    <2> QED
        BY <1>3, <2>1 DEF Finished
<1>8. ToolMessages' = ToolMessages \cup {answer}
    <2>1. 1 .. answer = DOMAIN messages \cup {answer}
        BY PositionsAreFinite
    <2> QED
        BY <1>4, <2>1 DEF ToolMessages
<1> HIDE DEF line, answer, count
<1>9. /\ Cardinality(Finished) = count
      /\ Cardinality(ToolMessages) = count
      /\ count \in Nat
    BY PositionsAreFinite DEF SameResults, count
<1>10. /\ Cardinality(Finished') = count + 1
       /\ Rank(line, Finished') = count + 1
       /\ \A i \in Finished : /\ Rank(i, Finished') = Rank(i, Finished)
                                   /\ Rank(i, Finished) \in 1 .. count
    BY <1>6, <1>7, <1>9, PositionsAreFinite, LastRank
<1>11. /\ Cardinality(ToolMessages') = count + 1
       /\ Rank(answer, ToolMessages') = count + 1
       /\ \A j \in ToolMessages : /\ Rank(j, ToolMessages') = Rank(j, ToolMessages)
                                  /\ Rank(j, ToolMessages) \in 1 .. count
    BY <1>6, <1>8, <1>9, PositionsAreFinite, LastRank
<1>12. ASSUME NEW i \in Finished'
       PROVE  tool_results'[Rank(i, Finished')] = trace'[i].detail
    <2>1. CASE i \in Finished
        BY <1>3, <1>5, <1>6, <1>10, <2>1 DEF SameResults
    <2>2. CASE i = line
        BY <1>3, <1>5, <1>10, <2>2
    <2> QED
        BY <1>7, <2>1, <2>2
<1>13. ASSUME NEW i \in Finished', NEW j \in ToolMessages',
              Rank(i, Finished') = Rank(j, ToolMessages')
       PROVE  trace'[i].id = {messages'[j].calls[1]}
    <2>1. CASE i \in Finished /\ j \in ToolMessages
        BY <1>3, <1>4, <1>6, <1>10, <1>11, <1>13, <2>1 DEF SameResults
    <2>2. CASE i = line /\ j = answer
        BY <1>3, <1>4, <2>2
    <2>3. CASE i \in Finished /\ j = answer
        BY <1>9, <1>10, <1>11, <1>13, <2>3
    <2>4. CASE i = line /\ j \in ToolMessages
        BY <1>9, <1>10, <1>11, <1>13, <2>4
    <2> QED
        BY <1>7, <1>8, <2>1, <2>2, <2>3, <2>4
<1> QED
    BY <1>5, <1>10, <1>11, <1>12, <1>13 DEF SameResults, count

\* Nothing else the run records or says is a result.
LEMMA ResultsUnchanged ==
    ASSUME SameResults, Finished' = Finished, ToolMessages' = ToolMessages,
           \A i \in Finished : trace'[i] = trace[i],
           \A j \in ToolMessages : messages'[j] = messages[j],
           tool_results' = tool_results
    PROVE  SameResults'
BY DEF SameResults

\* A line of another type is no result.
LEMMA OtherLine ==
    ASSUME TypeOK, TypeOK', NEW type, type # "tool_finished", NEW id, NEW detail,
           Extends(type, id, detail)
    PROVE  /\ Finished' = Finished
           /\ \A i \in Finished : trace'[i] = trace[i]
<1>1. /\ Len(trace) \in Nat /\ DOMAIN trace = 1 .. Len(trace)
      /\ DOMAIN trace' = 1 .. (Len(trace) + 1)
      /\ \A i \in DOMAIN trace : trace'[i] = trace[i]
    BY ExtendedTrace
<1>2. DOMAIN trace' = DOMAIN trace \cup {Len(trace) + 1}
    BY <1>1
<1>3. trace'[Len(trace) + 1].type # "tool_finished"
    BY DEF Extends
<1> QED
    BY <1>1, <1>2, <1>3 DEF Finished

\* Every step of a run in good order keeps the three lists of results alike.
LEMMA ResultsStep == TypeOK /\ TerminalInv /\ ResultsInv /\ [Next]_vars => ResultsInv'
<1> SUFFICES ASSUME TypeOK, TerminalInv, ResultsInv, [Next]_vars PROVE ResultsInv'
    OBVIOUS
<1> USE DEF callVars
<1>1. TypeOK'
    BY TypeStep
<1>2. CASE FinishTool
    <2>1. SameResults
        BY <1>2 DEF FinishTool, ResultsInv, InGoodOrder
    <2> QED
        BY <1>2, <2>1, ResultsFinish DEF ResultsInv
<1>3. ASSUME NEW type, type # "tool_finished", NEW id, NEW detail, Extends(type, id, detail),
             pc \notin {"failing", "done"}, UNCHANGED <<messages, tool_results>>
      PROVE  ResultsInv'
    <2>1. SameResults
        BY <1>3 DEF ResultsInv, InGoodOrder
    <2>2. ToolMessages' = ToolMessages
        BY <1>3 DEF ToolMessages
    <2>3. SameResults'
        BY <1>1, <1>3, <2>1, <2>2, OtherLine, ResultsUnchanged
    <2> QED
        BY <2>3 DEF ResultsInv
<1>4. CASE RecordResponse
    <2> DEFINE said == Message("assistant",
                     [i \in DOMAIN response.tool_calls |-> response.tool_calls[i].id])
    <2>1. /\ messages' = Append(messages, said)
          /\ tool_results' = tool_results
          /\ SameResults
        BY <1>4 DEF RecordResponse, ResultsInv, InGoodOrder
    <2>2. /\ Finished' = Finished
          /\ \A i \in Finished : trace'[i] = trace[i]
        BY <1>1, <1>4, StepExtends, OtherLine
    <2>3. said.role = "assistant"
        BY DEF Message
    <2>4. said \in Messages
        <3>1. CallIds \in Seq(Ids)
            BY CallIdsType
        <3> QED
            BY <3>1 DEF Message, Messages, CallIds
    <2> HIDE DEF said
    <2>5. messages \in Seq(Messages) /\ messages' \in Seq(Messages)
        BY <1>1 DEF TypeOK, Messages
    <2>6. /\ Len(messages') = Len(messages) + 1
          /\ messages'[Len(messages) + 1] = said
          /\ \A j \in 1 .. Len(messages) : messages'[j] = messages[j]
        BY <2>1, <2>4, <2>5, Appended
    <2>7. /\ DOMAIN messages = 1 .. Len(messages)
          /\ DOMAIN messages' = DOMAIN messages \cup {Len(messages) + 1}
        BY <2>5, <2>6
    <2>8. ToolMessages' = ToolMessages
        BY <2>3, <2>6, <2>7 DEF ToolMessages
    <2>9. \A j \in ToolMessages : messages'[j] = messages[j]
        BY <2>6, <2>7 DEF ToolMessages
    <2> QED
        BY <2>1, <2>2, <2>8, <2>9, ResultsUnchanged DEF ResultsInv
<1>5. CASE \/ Start \/ RequestModel \/ RequestTool \/ RecordAllow \/ RecordDeny \/ StartTool
           \/ Complete \/ FinishAtLimit
    <2>1. UNCHANGED <<messages, tool_results>> /\ pc \notin {"failing", "done"}
        BY <1>5 DEF Start, RequestModel, RequestTool, RecordAllow, RecordDeny, StartTool,
            RecordDecision, Complete, FinishAtLimit, End
    <2>2. \E type \in (CallEvents \cup EventTypes) \ {"tool_finished"} :
            \E id, detail : Extends(type, id, detail)
        BY <1>5, StepExtends DEF CallEvents, EventTypes, Terminal
    <2> QED
        BY <1>3, <2>1, <2>2
<1>6. CASE \/ BeginTurn \/ BeginFinalization \/ ExhaustTurns \/ ModelResponds
           \/ EvaluatePolicy \/ EvaluationFails \/ Approve \/ ToolReturns
           \/ ModelFails \/ ApprovalFails \/ Cancel
    <2>1. UNCHANGED <<trace, messages, tool_results>> /\ SameResults
        BY <1>6 DEF BeginTurn, BeginFinalization, ExhaustTurns, ModelResponds,
            EvaluatePolicy, EvaluationFails, Approve, ToolReturns, ModelFails,
            ApprovalFails, Cancel, ResultsInv, InGoodOrder
    <2>2. Finished' = Finished /\ ToolMessages' = ToolMessages
        BY <2>1 DEF Finished, ToolMessages
    <2> QED
        BY <2>1, <2>2, ResultsUnchanged DEF ResultsInv
<1>7. CASE RecorderFails \/ ReportFailure \/ ReportCancel
    <2>1. result.status = "running"
        BY <1>7 DEF RecorderFails, Records, ReportFailure, ReportCancel, TerminalInv
    <2>2. pc' \in {"failing", "done"} /\ result'.status \notin {"completed", "max_turns"}
        BY <1>7, <2>1 DEF RecorderFails, ReportFailure, ReportCancel, End, Return
    <2> QED
        BY <2>2 DEF ResultsInv, InGoodOrder
<1>8. CASE UNCHANGED vars
    <2>1. /\ UNCHANGED <<trace, messages, tool_results>>
          /\ InGoodOrder' = InGoodOrder
        BY <1>8 DEF vars, InGoodOrder
    <2>2. Finished' = Finished /\ ToolMessages' = ToolMessages
        BY <2>1 DEF Finished, ToolMessages
    <2> QED
        BY <2>1, <2>2, ResultsUnchanged DEF ResultsInv
<1> QED
    BY <1>2, <1>4, <1>5, <1>6, <1>7, <1>8 DEF Next, Progress

-----------------------------------------------------------------------------
(* Settlement.  The calls recorded so far are settled, but for the lines of  *)
(* the call in progress, which are the last of the trace.                    *)

SettledLine(i) == \E first \in 1 .. i, n \in 2 .. 3 : Settles(first, n) /\ i <= first + n

\* All lines but the last k are settled, if they are about a call.
SettledBut(k) ==
    \A i \in 1 .. (Len(trace) - k) : trace[i].type \in CallEvents => SettledLine(i)

\* The last lines are those of a call that was denied, or that has run.
DeniedCall ==
    /\ Len(trace) > 1
    /\ IsEvent(trace[Len(trace) - 1], "tool_requested", "none")
    /\ IsEvent(trace[Len(trace)], "policy_decided", "deny")
RanCall ==
    /\ Len(trace) > 2
    /\ IsEvent(trace[Len(trace) - 2], "tool_requested", "none")
    /\ IsEvent(trace[Len(trace) - 1], "policy_decided", "allow")
    /\ IsEvent(trace[Len(trace)], "tool_started", "none")

SettledInv ==
    /\ pc \in {"start", "loop", "request", "model", "response", "completed", "exhausted",
               "call"} => SettledBut(0)
    /\ pc \in {"policy", "approval", "decided"} => SettledBut(1)
    /\ pc = "start_tool" => SettledBut(2)
    /\ pc = "tool" => SettledBut(3)
    /\ pc = "finished" /\ tool_result.status = "denied" => SettledBut(2) /\ DeniedCall
    /\ pc = "finished" /\ tool_result.status # "denied" => SettledBut(3) /\ RanCall
    /\ result.status \in {"completed", "max_turns"} => SettledBut(0)

\* A settled line stays settled as the trace grows.
LEMMA StaysSettled ==
    ASSUME TypeOK, TypeOK', NEW type, NEW id, NEW detail, Extends(type, id, detail),
           NEW i \in DOMAIN trace, SettledLine(i)
    PROVE  SettledLine(i)'
<1>1. PICK first \in 1 .. i, n \in 2 .. 3 : Settles(first, n) /\ i <= first + n
    BY DEF SettledLine
<1>2. /\ DOMAIN trace = 1 .. Len(trace) /\ Len(trace) \in Nat
      /\ DOMAIN trace \subseteq DOMAIN trace'
      /\ \A j \in DOMAIN trace : trace'[j] = trace[j]
    BY ExtendedTrace
<1>3. first + n \in DOMAIN trace
    BY <1>1 DEF Settles
<1>4. first \in DOMAIN trace /\ \A k \in 1 .. n : first + k \in DOMAIN trace
    BY <1>2, <1>3
<1>5. /\ trace'[first] = trace[first]
      /\ \A k \in 1 .. n : trace'[first + k] = trace[first + k]
      /\ 1 \in 1 .. n /\ 2 \in 1 .. n /\ n \in 1 .. n
    BY <1>2, <1>4
<1>6. Settles(first, n)'
    BY <1>1, <1>2, <1>3, <1>5 DEF Settles
<1> QED
    BY <1>1, <1>6 DEF SettledLine

\* A record leaves one more line to settle.
LEMMA OneMoreLine ==
    ASSUME TypeOK, TypeOK', NEW type, NEW id, NEW detail, Extends(type, id, detail),
           NEW k \in 0 .. 3, SettledBut(k)
    PROVE  SettledBut(k + 1)'
<1>1. /\ Len(trace) \in Nat /\ DOMAIN trace = 1 .. Len(trace)
      /\ Len(trace') = Len(trace) + 1
      /\ \A i \in DOMAIN trace : trace'[i] = trace[i]
    BY ExtendedTrace
<1> SUFFICES ASSUME NEW i \in 1 .. (Len(trace') - (k + 1)), trace'[i].type \in CallEvents
             PROVE  SettledLine(i)'
    BY DEF SettledBut
<1>2. i \in 1 .. (Len(trace) - k) /\ i \in DOMAIN trace
    BY <1>1
<1>3. SettledLine(i)
    BY <1>1, <1>2 DEF SettledBut
<1> QED
    BY <1>2, <1>3, StaysSettled

\* Unless the line is not about a call.
LEMMA NoCallLine ==
    ASSUME TypeOK, TypeOK', NEW type, type \notin CallEvents, NEW id, NEW detail,
           Extends(type, id, detail), SettledBut(0)
    PROVE  SettledBut(0)'
<1>1. /\ Len(trace) \in Nat /\ Len(trace') = Len(trace) + 1
      /\ trace'[Len(trace')].type = type
    BY ExtendedTrace DEF Extends
<1>2. SettledBut(0 + 1)'
    BY OneMoreLine
<1> SUFFICES ASSUME NEW i \in 1 .. (Len(trace') - 0), trace'[i].type \in CallEvents
             PROVE  SettledLine(i)'
    BY DEF SettledBut
<1>3. i # Len(trace')
    BY <1>1
<1>4. i \in 1 .. (Len(trace') - (0 + 1))
    BY <1>1, <1>3
<1> QED
    BY <1>2, <1>4 DEF SettledBut

\* The record of the result settles the lines of its call.
LEMMA ResultSettles ==
    ASSUME TypeOK, TypeOK', NEW n \in 2 .. 3, SettledBut(n),
           NEW first \in Nat \ {0}, first = Len(trace) - n + 1, Settles(first, n)'
    PROVE  Extends("tool_finished", About(call), tool_result.status) => SettledBut(0)'
<1> SUFFICES ASSUME Extends("tool_finished", About(call), tool_result.status)
             PROVE  SettledBut(0)'
    OBVIOUS
<1>1. /\ Len(trace) \in Nat /\ Len(trace') = Len(trace) + 1
      /\ DOMAIN trace = 1 .. Len(trace)
      /\ \A i \in DOMAIN trace : trace'[i] = trace[i]
    BY ExtendedTrace
<1> SUFFICES ASSUME NEW i \in 1 .. (Len(trace') - 0), trace'[i].type \in CallEvents
             PROVE  SettledLine(i)'
    BY DEF SettledBut
<1>2. CASE i <= Len(trace) - n
    <2>1. i \in DOMAIN trace /\ i \in 1 .. (Len(trace) - n)
        BY <1>1, <1>2
    <2>2. SettledLine(i)
        BY <1>1, <2>1 DEF SettledBut
    <2> QED
        BY <2>1, <2>2, StaysSettled
<1>3. CASE i > Len(trace) - n
    <2>1. first \in 1 .. i /\ i <= first + n
        BY <1>1, <1>3
    <2> QED
        BY <2>1 DEF SettledLine
<1> QED
    BY <1>1, <1>2, <1>3

\* A run starts with nothing to settle.
LEMMA SettledInit == Init => SettledInv
<1> SUFFICES ASSUME Init PROVE SettledInv
    OBVIOUS
<1>1. pc = "start" /\ result.status = "running"
    BY DEF Init, Running
<1>2. Len(trace) = 0
    BY DEF Init
<1>3. SettledBut(0)
    BY <1>2 DEF SettledBut
<1> QED
    BY <1>1, <1>3 DEF SettledInv

\* The step that finishes a call settles its three or four lines.
LEMMA SettledFinish ==
    TypeOK /\ TerminalInv /\ SettledInv /\ FinishTool => SettledInv'
<1> SUFFICES ASSUME TypeOK, TerminalInv, SettledInv, FinishTool PROVE SettledInv'
    OBVIOUS
<1>1. /\ Extends("tool_finished", About(call), tool_result.status)
      /\ pc = "finished" /\ pc' \in {"loop", "call"} /\ result' = result
    BY StepExtends DEF FinishTool
<1>2. TypeOK'
    BY TypeStep DEF Next, Progress
<1>3. /\ Len(trace) \in Nat /\ DOMAIN trace = 1 .. Len(trace)
      /\ DOMAIN trace' = 1 .. (Len(trace) + 1)
      /\ \A i \in DOMAIN trace : trace'[i] = trace[i]
    BY <1>1, <1>2, ExtendedTrace
<1>4. /\ trace'[Len(trace) + 1].type = "tool_finished"
      /\ trace'[Len(trace) + 1].id = About(call)
      /\ trace'[Len(trace) + 1].detail = tool_result.status
    BY <1>1 DEF Extends
<1>5. CASE tool_result.status = "denied"
    <2>1. SettledBut(2) /\ DeniedCall
        BY <1>1, <1>5 DEF SettledInv
    <2>2. PICK first \in Nat \ {0} : first = Len(trace) - 2 + 1
        <3>1. Len(trace) > 1
            BY <2>1 DEF DeniedCall
        <3>2. Len(trace) - 2 + 1 \in Nat \ {0}
            BY <1>3, <3>1
        <3> QED
            BY <3>2
    <2>3. /\ first \in DOMAIN trace /\ first + 1 \in DOMAIN trace
          /\ first = Len(trace) - 1 /\ first + 1 = Len(trace)
          /\ first + 2 = Len(trace) + 1
        BY <1>3, <2>2
    <2>4. /\ trace[first].type = "tool_requested" /\ trace[first].id = About(call)
          /\ trace[first + 1].type = "policy_decided" /\ trace[first + 1].id = About(call)
        BY <2>1, <2>3 DEF DeniedCall, IsEvent
    <2>5. /\ trace'[first] = trace[first] /\ trace'[first + 1] = trace[first + 1]
          /\ first + 2 \in DOMAIN trace'
        BY <1>3, <2>3
    <2>6. /\ trace'[first + 2].type = "tool_finished"
          /\ trace'[first + 2].id = About(call)
          /\ trace'[first + 2].detail = "denied"
        BY <1>4, <1>5, <2>3
    <2>7. \A k \in 1 .. 2 : trace'[first + k].id = trace'[first].id
        <3>1. \A k \in 1 .. 2 : k = 1 \/ k = 2
            OBVIOUS
        <3> QED
            BY <2>4, <2>5, <2>6, <3>1
    <2>8. Settles(first, 2)'
        BY <2>4, <2>5, <2>6, <2>7 DEF Settles
    <2>9. SettledBut(0)'
        BY <1>1, <1>2, <2>1, <2>2, <2>8, ResultSettles
    <2> QED
        BY <1>1, <2>9 DEF SettledInv
<1>6. CASE tool_result.status # "denied"
    <2>1. SettledBut(3) /\ RanCall
        BY <1>1, <1>6 DEF SettledInv
    <2>2. PICK first \in Nat \ {0} : first = Len(trace) - 3 + 1
        <3>1. Len(trace) > 2
            BY <2>1 DEF RanCall
        <3>2. Len(trace) - 3 + 1 \in Nat \ {0}
            BY <1>3, <3>1
        <3> QED
            BY <3>2
    <2>3. /\ first \in DOMAIN trace /\ first + 1 \in DOMAIN trace
          /\ first + 2 \in DOMAIN trace
          /\ first = Len(trace) - 2 /\ first + 1 = Len(trace) - 1
          /\ first + 2 = Len(trace) /\ first + 3 = Len(trace) + 1
        BY <1>3, <2>2
    <2>4. /\ trace[first].type = "tool_requested" /\ trace[first].id = About(call)
          /\ trace[first + 1].type = "policy_decided" /\ trace[first + 1].id = About(call)
          /\ trace[first + 2].type = "tool_started" /\ trace[first + 2].id = About(call)
        BY <2>1, <2>3 DEF RanCall, IsEvent
    <2>5. /\ trace'[first] = trace[first] /\ trace'[first + 1] = trace[first + 1]
          /\ trace'[first + 2] = trace[first + 2] /\ first + 3 \in DOMAIN trace'
        BY <1>3, <2>3
    <2>6. /\ trace'[first + 3].type = "tool_finished"
          /\ trace'[first + 3].id = About(call)
          /\ trace'[first + 3].detail # "denied"
        BY <1>4, <1>6, <2>3
    <2>7. \A k \in 1 .. 3 : trace'[first + k].id = trace'[first].id
        <3>1. \A k \in 1 .. 3 : k = 1 \/ k = 2 \/ k = 3
            OBVIOUS
        <3> QED
            BY <2>4, <2>5, <2>6, <3>1
    <2>8. Settles(first, 3)'
        BY <2>4, <2>5, <2>6, <2>7 DEF Settles
    <2>9. SettledBut(0)'
        BY <1>1, <1>2, <2>1, <2>2, <2>8, ResultSettles
    <2> QED
        BY <1>1, <2>9 DEF SettledInv
<1> QED
    BY <1>5, <1>6

\* A tool's result is never that of a denied call.
LEMMA ToolsDoNotDeny ==
    ASSUME NEW c, NEW r \in Execute(c, Content, Marker)
    PROVE  r.status # "denied"
BY DEF Execute, Result

\* Every step of the loop keeps the calls before the one in progress settled.
LEMMA SettledStep ==
    TypeOK /\ TerminalInv /\ WriteAheadInv /\ SettledInv /\ [Next]_vars => SettledInv'
<1> SUFFICES ASSUME TypeOK, TerminalInv, WriteAheadInv, SettledInv, [Next]_vars
             PROVE  SettledInv'
    OBVIOUS
<1> USE DEF callVars
<1>1. TypeOK'
    BY TypeStep
<1>2. pc # "done" => result.status = "running"
    BY DEF TerminalInv
<1>3. CASE FinishTool
    BY <1>3, SettledFinish
<1>4. CASE Start \/ RequestModel \/ RecordResponse \/ Complete \/ FinishAtLimit
    <2>1. SettledBut(0)
        BY <1>4 DEF SettledInv, Start, RequestModel, RecordResponse, Complete, FinishAtLimit
    <2>2. \E type \in {"run_started", "model_request", "model_response", "run_finished"} :
              \E detail : Extends(type, NoCall, detail)
        BY <1>4, StepExtends
    <2>3. SettledBut(0)'
        BY <1>1, <2>1, <2>2, NoCallLine DEF CallEvents
    <2>4. pc' \in {"loop", "model", "completed", "exhausted", "call", "done"}
        BY <1>4 DEF Start, RequestModel, RecordResponse, AfterResponse, Complete,
            FinishAtLimit, End
    <2> QED
        BY <2>3, <2>4 DEF SettledInv
<1>5. CASE RequestTool
    <2>1. SettledBut(0) /\ pc' = "policy" /\ result' = result /\ pc = "call"
        BY <1>5 DEF RequestTool, SettledInv
    <2>2. Extends("tool_requested", About(call), "none")
        BY <1>5, StepExtends
    <2>3. SettledBut(0 + 1)'
        BY <1>1, <2>1, <2>2, OneMoreLine
    <2> QED
        BY <1>2, <2>1, <2>3 DEF SettledInv
<1>6. CASE RecordAllow
    <2>1. SettledBut(1) /\ pc' = "start_tool" /\ result' = result /\ pc = "decided"
        BY <1>6 DEF RecordAllow, RecordDecision, SettledInv
    <2>2. Extends("policy_decided", About(call), "allow")
        BY <1>6, StepExtends
    <2>3. SettledBut(1 + 1)'
        BY <1>1, <2>1, <2>2, OneMoreLine
    <2> QED
        BY <1>2, <2>1, <2>3 DEF SettledInv
<1>7. CASE RecordDeny
    <2>1. /\ SettledBut(1) /\ pc' = "finished" /\ result' = result /\ pc = "decided"
          /\ tool_result'.status = "denied" /\ call' = call /\ turns' = turns
        BY <1>7 DEF RecordDeny, RecordDecision, SettledInv, Result, call
    <2>2. Extends("policy_decided", About(call), "deny")
        BY <1>7, StepExtends
    <2>3. SettledBut(1 + 1)'
        BY <1>1, <2>1, <2>2, OneMoreLine
    <2>4. Len(trace) > 0 /\ IsEvent(trace[Len(trace)], "tool_requested", "none")
        BY <2>1 DEF WriteAheadInv
    <2>5. /\ Len(trace') > 1 /\ trace'[Len(trace') - 1] = trace[Len(trace)]
        BY <2>2, <2>4, TraceLength DEF Extends
    <2>6. IsEvent(trace[Len(trace) - 1], "tool_requested", "none")'
        BY <2>1, <2>4, <2>5 DEF IsEvent, About
    <2>7. IsEvent(trace[Len(trace)], "policy_decided", "deny")'
        BY <2>1, <2>2 DEF Extends, IsEvent, About
    <2>8. DeniedCall'
        BY <2>5, <2>6, <2>7 DEF DeniedCall
    <2> QED
        BY <1>2, <2>1, <2>3, <2>8 DEF SettledInv
<1>8. CASE StartTool
    <2>1. SettledBut(2) /\ pc' = "tool" /\ result' = result /\ pc = "start_tool"
        BY <1>8 DEF StartTool, SettledInv
    <2>2. Extends("tool_started", About(call), "none")
        BY <1>8, StepExtends
    <2>3. SettledBut(2 + 1)'
        BY <1>1, <2>1, <2>2, OneMoreLine
    <2> QED
        BY <1>2, <2>1, <2>3 DEF SettledInv
<1>9. CASE ToolReturns
    <2>1. /\ SettledBut(3) /\ pc' = "finished" /\ result' = result /\ pc = "tool"
          /\ trace' = trace /\ call' = call /\ turns' = turns
          /\ tool_result'.status # "denied"
        BY <1>9, ToolsDoNotDeny DEF ToolReturns, SettledInv, call
    <2>2. SettledBut(3)'
        BY <2>1 DEF SettledBut, SettledLine, Settles
    <2>3. RanCall
        BY <2>1 DEF WriteAheadInv, WriteAheadTrace, RanCall
    <2>4. RanCall'
        BY <2>1, <2>3 DEF RanCall, IsEvent, About
    <2> QED
        BY <1>2, <2>1, <2>2, <2>4 DEF SettledInv
<1>10. CASE BeginTurn \/ BeginFinalization \/ ExhaustTurns \/ ModelResponds
    <2>1. /\ SettledBut(0) /\ trace' = trace
          /\ pc' \in {"request", "exhausted", "response"}
        BY <1>10 DEF SettledInv, BeginTurn, BeginFinalization, ExhaustTurns, ModelResponds
    <2>2. SettledBut(0)'
        BY <2>1 DEF SettledBut, SettledLine, Settles
    <2> QED
        BY <2>1, <2>2 DEF SettledInv
<1>11. CASE EvaluatePolicy \/ Approve
    <2>1. /\ SettledBut(1) /\ trace' = trace /\ pc' \in {"approval", "decided"}
          /\ result' = result /\ pc # "done"
        BY <1>11 DEF SettledInv, EvaluatePolicy, Approve
    <2>2. SettledBut(1)'
        BY <2>1 DEF SettledBut, SettledLine, Settles
    <2> QED
        BY <1>2, <2>1, <2>2 DEF SettledInv
<1>12. CASE \/ EvaluationFails \/ ModelFails \/ ApprovalFails \/ Cancel \/ RecorderFails
            \/ ReportFailure \/ ReportCancel
    <2>1. /\ pc' \in {"failing", "cancelling", "done"}
          /\ \/ result' = result /\ pc # "done"
             \/ result'.status \in {"raised", "failed", "cancelled"}
        BY <1>12 DEF EvaluationFails, ModelFails, ApprovalFails, Cancel, RecorderFails,
            ReportFailure, ReportCancel, End, Return, Records
    <2> QED
        BY <1>2, <2>1 DEF SettledInv
<1>13. CASE UNCHANGED vars
    <2>1. /\ pc' = pc /\ trace' = trace /\ tool_result' = tool_result /\ result' = result
          /\ call' = call /\ turns' = turns
        BY <1>13 DEF vars, call
    <2>2. /\ SettledBut(0)' = SettledBut(0) /\ SettledBut(1)' = SettledBut(1)
          /\ SettledBut(2)' = SettledBut(2) /\ SettledBut(3)' = SettledBut(3)
        BY <2>1 DEF SettledBut, SettledLine, Settles
    <2>3. DeniedCall' = DeniedCall /\ RanCall' = RanCall
        BY <2>1 DEF DeniedCall, RanCall, IsEvent, About
    <2> QED
        BY <2>1, <2>2, <2>3 DEF SettledInv
<1> QED
    BY <1>3, <1>4, <1>5, <1>6, <1>7, <1>8, <1>9, <1>10, <1>11, <1>12, <1>13
    DEF Next, Progress

\* A run that ends in good order has settled every call it recorded, one after
\* the other, and the caller, the trace and the conversation have the same
\* results in the same order, whatever the model asks for and whatever failed on
\* the way.
THEOREM RequestsAreSettled == Spec => []RequestsSettled
<1> DEFINE SettlementInv == TypeOK /\ TerminalInv /\ WriteAheadInv /\ SettledInv /\ ResultsInv
<1>1. Init => SettlementInv
    BY TypeInit, TerminalInit, WriteAheadInit, SettledInit, ResultsInit
<1>2. SettlementInv /\ [Next]_vars => SettlementInv'
    BY TypeStep, TerminalStep, WriteAheadStep, SettledStep, ResultsStep
<1>3. SettlementInv => RequestsSettled
    <2> SUFFICES ASSUME TypeOK, SettledInv, SameResults,
                        result.status \in {"completed", "max_turns"}
                 PROVE  RequestsSettled
        BY DEF RequestsSettled, ResultsInv, InGoodOrder
    <2>1. SettledBut(0)
        BY DEF SettledInv
    <2>2. \A i \in DOMAIN trace : i \in 1 .. (Len(trace) - 0)
        BY PositionsAreFinite
    <2>3. \A i \in DOMAIN trace : trace[i].type \in CallEvents =>
              \E first \in 1 .. i, n \in 2 .. 3 : Settles(first, n) /\ i <= first + n
        BY <2>1, <2>2 DEF SettledBut, SettledLine
    <2> QED
        BY <2>3 DEF RequestsSettled, SameResults, Finished, ToolMessages
<1> HIDE DEF SettlementInv
<1> QED
    BY <1>1, <1>2, <1>3, PTL DEF Spec

-----------------------------------------------------------------------------
(* The request.  Its conversion is a fold of the library, a function over   *)
(* the sets of places of the conversation.                                  *)

\* Every set of numbers that is not empty has a least one.
LEMMA LeastNumber ==
    ASSUME NEW S, S \subseteq Nat, S # {}
    PROVE  \E least \in S : \A i \in S : least <= i
<1>1. PICK least \in S : \A i \in S : ~(<<i, least>> \in OpToRel(<, Nat))
    BY NatLessThanWellFounded, WFMin
<1>2. \A i \in S : ~(i < least)
    BY <1>1 DEF OpToRel
<1> QED
    BY <1>2

\* The last of a set of places.
LEMMA LastPlace ==
    ASSUME NEW n \in Nat, NEW s \in SUBSET (1 .. n), s # {}
    PROVE  Max(s) \in s /\ \A y \in s : Max(s) >= y
<1> DEFINE from == {i \in Nat : n - i \in s}
<1>1. from \subseteq Nat /\ from # {}
    <2>1. PICK y \in s : TRUE
        OBVIOUS
    <2>2. n - y \in Nat /\ n - (n - y) = y
        OBVIOUS
    <2>3. n - y \in from
        BY <2>2
    <2> QED
        BY <2>3
<1>2. PICK least \in from : \A i \in from : least <= i
    <2> HIDE DEF from
    <2> QED
        BY <1>1, LeastNumber
<1>3. n - least \in s /\ least \in Nat
    BY <1>2
<1>4. ASSUME NEW y \in s PROVE n - least >= y
    <2>1. n - y \in Nat /\ n - (n - y) = y
        OBVIOUS
    <2>2. least <= n - y
        BY <1>2, <2>1
    <2> QED
        BY <1>3, <2>2
<1>5. \E x \in s : \A y \in s : x >= y
    BY <1>3, <1>4
<1> QED
    BY <1>5 DEF Max

\* What the fold makes of a set of places.
ConvertedAt(f, conversation, s) ==
    IF s = {} THEN <<>> ELSE Converted(f[s \ {Max(s)}], conversation[Max(s)])

\* The fold, as a function.
Converts(f, conversation) ==
    f = [s \in SUBSET (DOMAIN conversation) |-> ConvertedAt(f, conversation, s)]

\* There is such a function for every conversation.
LEMMA ConversionExists ==
    ASSUME NEW conversation \in Seq(Messages)
    PROVE  \E f : Converts(f, conversation)
<1> DEFINE T == DOMAIN conversation
           Upto(n, f) == /\ f = [s \in SUBSET T |-> f[s]]
                         /\ \A s \in SUBSET T : Cardinality(s) <= n =>
                               f[s] = ConvertedAt(f, conversation, s)
           bad == {n \in Nat : ~ \E f : Upto(n, f)}
<1>1. /\ Len(conversation) \in Nat /\ T = 1 .. Len(conversation)
      /\ IsFiniteSet(T) /\ Cardinality(T) \in Nat
    <2>1. Len(conversation) \in Nat /\ T = 1 .. Len(conversation)
        OBVIOUS
    <2>2. IsFiniteSet(T)
        BY <2>1, FS_Interval
    <2> QED
        BY <2>1, <2>2, FS_CardinalityType
<1> HIDE DEF T
<1>2. ASSUME NEW s \in SUBSET T
      PROVE  /\ Cardinality(s) \in Nat
             /\ Cardinality(s) <= Cardinality(T)
             /\ Cardinality(s) = 0 => s = {}
             /\ s # {} => /\ s \ {Max(s)} \in SUBSET T
                          /\ Cardinality(s \ {Max(s)}) = Cardinality(s) - 1
    <2>1. IsFiniteSet(s) /\ Cardinality(s) <= Cardinality(T)
        BY <1>1, FS_Subset
    <2>2. Cardinality(s) \in Nat /\ (Cardinality(s) = 0 => s = {})
        BY <2>1, FS_CardinalityType, FS_EmptySet
    <2>3. s # {} => Max(s) \in s
        BY <1>1, LastPlace
    <2>4. s # {} => Cardinality(s \ {Max(s)}) = Cardinality(s) - 1
        BY <2>1, <2>3, FS_RemoveElement
    <2> QED
        BY <2>1, <2>2, <2>4
<1>3. bad = {}
    <2> SUFFICES ASSUME bad # {} PROVE FALSE
        OBVIOUS
    <2>1. PICK n \in bad : \A i \in bad : n <= i
        <3>1. bad \subseteq Nat
            OBVIOUS
        <3> HIDE DEF bad
        <3> QED
            BY <3>1, LeastNumber
    <2>2. n # 0
        <3> DEFINE none == [s \in SUBSET T |-> <<>>]
        <3>1. none = [s \in SUBSET T |-> none[s]]
            OBVIOUS
        <3>2. ASSUME NEW s \in SUBSET T, Cardinality(s) <= 0
              PROVE  none[s] = ConvertedAt(none, conversation, s)
            <4>1. Cardinality(s) \in Nat /\ (Cardinality(s) = 0 => s = {})
                BY <1>2
            <4>2. s = {}
                BY <3>2, <4>1
            <4> QED
                BY <4>2 DEF ConvertedAt
        <3>3. Upto(0, none)
            BY <3>1, <3>2
        <3>4. 0 \notin bad
            BY <3>3
        <3> QED
            BY <2>1, <3>4
    <2>3. n \in Nat \ {0} /\ n - 1 \in Nat /\ n - 1 \notin bad
        <3>1. n \in Nat \ {0} /\ n - 1 \in Nat /\ ~(n <= n - 1)
            BY <2>1, <2>2
        <3> QED
            BY <2>1, <3>1
    <2>4. PICK f : Upto(n - 1, f)
        BY <2>3
    <2> DEFINE next == [s \in SUBSET T |-> ConvertedAt(f, conversation, s)]
    <2>5. next = [s \in SUBSET T |-> next[s]]
        OBVIOUS
    <2>6. ASSUME NEW s \in SUBSET T, Cardinality(s) <= n
          PROVE  next[s] = ConvertedAt(next, conversation, s)
        <3>1. CASE s = {}
            BY <3>1 DEF ConvertedAt
        <3>2. CASE s # {}
            <4> DEFINE r == s \ {Max(s)}
            <4>1. r \in SUBSET T /\ Cardinality(r) <= n - 1
                <5>1. /\ r \in SUBSET T /\ Cardinality(r) = Cardinality(s) - 1
                      /\ Cardinality(s) \in Nat
                    BY <1>2, <3>2
                <5> HIDE DEF r
                <5> QED
                    BY <2>3, <2>6, <5>1
            <4>2. f[r] = ConvertedAt(f, conversation, r)
                BY <2>4, <4>1
            <4>3. next[r] = f[r]
                BY <4>1, <4>2
            <4> QED
                BY <3>2, <4>3 DEF ConvertedAt
        <3> QED
            BY <3>1, <3>2
    <2>7. Upto(n, next)
        <3> HIDE DEF next
        <3> QED
            BY <2>5, <2>6
    <2> QED
        BY <2>1, <2>7
<1>4. PICK f : Upto(Cardinality(T), f)
    BY <1>1, <1>3
<1>5. \A s \in SUBSET T : f[s] = ConvertedAt(f, conversation, s)
    BY <1>2, <1>4
<1>6. f = [s \in SUBSET T |-> ConvertedAt(f, conversation, s)]
    BY <1>4, <1>5
<1> QED
    BY <1>6 DEF Converts, T

\* The request of a conversation is what such a function makes of all its places.
LEMMA RequestIsConverted ==
    ASSUME NEW conversation \in Seq(Messages)
    PROVE  \E f : /\ Converts(f, conversation)
                  /\ ToAnthropicMessages(conversation) = f[DOMAIN conversation]
<1> DEFINE Iter(f) == [s \in SUBSET (DOMAIN conversation) |->
                         IF s = {} THEN <<>>
                         ELSE Converted(f[s \ {Max(s)}], conversation[Max(s)])]
<1>1. PICK g : g = CHOOSE f : f = Iter(f)
    OBVIOUS
<1>2. ToAnthropicMessages(conversation) = g[DOMAIN conversation]
    BY <1>1 DEF ToAnthropicMessages, FoldLeft, MapThenFoldSet
<1>3. \A f : f = Iter(f) <=> Converts(f, conversation)
    BY DEF Converts, ConvertedAt
<1> HIDE DEF Iter
<1>4. \E f : f = Iter(f)
    BY <1>3, ConversionExists
<1>5. g = Iter(g)
    BY <1>1, <1>4
<1> QED
    BY <1>2, <1>3, <1>5

\* The request of a conversation of one message more.
LEMMA RequestGrows ==
    ASSUME NEW conversation \in Seq(Messages), NEW message \in Messages
    PROVE  ToAnthropicMessages(Append(conversation, message))
               = Converted(ToAnthropicMessages(conversation), message)
<1> DEFINE n == Len(conversation)
           longer == Append(conversation, message)
<1>1. /\ n \in Nat /\ DOMAIN conversation = 1 .. n
      /\ longer \in Seq(Messages) /\ DOMAIN longer = 1 .. (n + 1)
      /\ longer[n + 1] = message
      /\ \A i \in 1 .. n : longer[i] = conversation[i]
    OBVIOUS
<1> HIDE DEF n, longer
<1>2. PICK f : /\ Converts(f, conversation)
              /\ ToAnthropicMessages(conversation) = f[1 .. n]
    BY <1>1, RequestIsConverted
<1>3. PICK g : Converts(g, longer) /\ ToAnthropicMessages(longer) = g[1 .. (n + 1)]
    BY <1>1, RequestIsConverted
<1>4. ASSUME NEW i \in 1 .. (n + 1)
      PROVE  /\ 1 .. i \in SUBSET (1 .. (n + 1)) /\ 1 .. i # {}
             /\ Max(1 .. i) = i /\ (1 .. i) \ {i} = 1 .. (i - 1)
    <2>1. 1 .. i \in SUBSET (1 .. (n + 1)) /\ i \in 1 .. i
        BY <1>1
    <2>2. 1 .. i # {} /\ n + 1 \in Nat
        <3>1. 1 .. i # {}
            BY <2>1
        <3>2. n \in Nat
            BY <1>1
        <3> QED
            BY <3>1, <3>2
    <2>3. Max(1 .. i) = i
        <3>1. Max(1 .. i) \in 1 .. i /\ \A y \in 1 .. i : Max(1 .. i) >= y
            BY <2>1, <2>2, LastPlace
        <3>2. \A j \in 1 .. i : j >= i => j = i
            BY <1>1
        <3> QED
            BY <2>1, <3>1, <3>2
    <2>4. (1 .. i) \ {i} = 1 .. (i - 1)
        BY <1>1
    <2> QED
        BY <2>1, <2>3, <2>4
<1>5. /\ f[1 .. 0] = <<>> /\ g[1 .. 0] = <<>>
      /\ \A i \in 1 .. n : f[1 .. i] = Converted(f[1 .. (i - 1)], conversation[i])
      /\ \A i \in 1 .. (n + 1) : g[1 .. i] = Converted(g[1 .. (i - 1)], longer[i])
    <2>1. 1 .. 0 = {} /\ {} \in SUBSET (1 .. n) /\ {} \in SUBSET (1 .. (n + 1))
        OBVIOUS
    <2>2. \A s \in SUBSET (1 .. n) : f[s] = ConvertedAt(f, conversation, s)
        BY <1>1, <1>2 DEF Converts
    <2>3. \A s \in SUBSET (1 .. (n + 1)) : g[s] = ConvertedAt(g, longer, s)
        BY <1>1, <1>3 DEF Converts
    <2>4. ASSUME NEW i \in 1 .. n
          PROVE  f[1 .. i] = Converted(f[1 .. (i - 1)], conversation[i])
        <3>1. i \in 1 .. (n + 1) /\ 1 .. i \in SUBSET (1 .. n)
            BY <1>1
        <3>2. f[1 .. i] = ConvertedAt(f, conversation, 1 .. i)
            BY <2>2, <3>1
        <3> QED
            BY <1>4, <3>1, <3>2 DEF ConvertedAt
    <2>5. ASSUME NEW i \in 1 .. (n + 1)
          PROVE  g[1 .. i] = Converted(g[1 .. (i - 1)], longer[i])
        <3>1. g[1 .. i] = ConvertedAt(g, longer, 1 .. i)
            BY <1>4, <2>3
        <3> QED
            BY <1>4, <3>1 DEF ConvertedAt
    <2>6. f[1 .. 0] = <<>> /\ g[1 .. 0] = <<>>
        BY <2>1, <2>2, <2>3 DEF ConvertedAt
    <2> QED
        BY <2>4, <2>5, <2>6
<1> DEFINE bad == {i \in 0 .. n : f[1 .. i] # g[1 .. i]}
<1>6. bad = {}
    <2> SUFFICES ASSUME bad # {} PROVE FALSE
        OBVIOUS
    <2>1. PICK i \in bad : \A j \in bad : i <= j
        <3>1. bad \subseteq Nat
            BY <1>1
        <3> HIDE DEF bad
        <3> QED
            BY <3>1, LeastNumber
    <2>2. i # 0
        BY <1>5
    <2>3. i \in 1 .. n /\ i \in 1 .. (n + 1) /\ i - 1 \in 0 .. n /\ ~(i <= i - 1)
        BY <1>1, <2>1, <2>2
    <2>4. f[1 .. (i - 1)] = g[1 .. (i - 1)]
        BY <2>1, <2>3
    <2>5. f[1 .. i] = g[1 .. i]
        BY <1>1, <1>5, <2>3, <2>4
    <2> QED
        BY <2>1, <2>5
<1>7. f[1 .. n] = g[1 .. n]
    BY <1>1, <1>6
<1>8. g[1 .. (n + 1)] = Converted(g[1 .. n], message)
    <2>1. n + 1 \in 1 .. (n + 1) /\ (n + 1) - 1 = n
        BY <1>1
    <2> QED
        BY <1>1, <1>5, <2>1
<1> QED
    BY <1>2, <1>3, <1>7, <1>8 DEF longer

\* The request of an empty conversation is empty.
LEMMA NoRequest == ToAnthropicMessages(<<>>) = <<>>
<1>1. <<>> \in Seq(Messages) /\ DOMAIN <<>> = {}
    OBVIOUS
<1>2. PICK f : Converts(f, <<>>) /\ ToAnthropicMessages(<<>>) = f[{}]
    BY <1>1, RequestIsConverted
<1>3. f[{}] = ConvertedAt(f, <<>>, {})
    BY <1>1, <1>2 DEF Converts
<1> QED
    BY <1>2, <1>3 DEF ConvertedAt

Params == [role : {"user", "assistant"}, kind : {"text", "blocks", "tool_result"},
           ids : Seq(Ids)]

\* A request the API takes, which ends with what the user says or the results.
Answered(sent) ==
    /\ sent \in Seq(Params)
    /\ Accepted(sent)
    /\ sent[Len(sent)].kind # "blocks"

\* A request that ends with calls, of which those before the p-th are answered.
PartlyAnswered(sent, ids, p) ==
    \E base \in Seq(Params) :
        /\ Answered(base)
        /\ sent = IF p = 1 THEN Append(base, Param("assistant", "blocks", ids))
                  ELSE Append(Append(base, Param("assistant", "blocks", ids)),
                              Param("user", "tool_result", SubSeq(ids, 1, p - 1)))

\* The user's message alone is a request.
LEMMA FirstRequest == Answered(ToAnthropicMessages(<<Message("user", <<>>)>>))
<1> DEFINE message == Message("user", <<>>)
           sent == <<Param("user", "text", <<>>)>>
<1>1. message \in Messages /\ message.role = "user"
    BY DEF Message, Messages
<1>2. <<>> \in Seq(Messages) /\ <<message>> = Append(<<>>, message)
    OBVIOUS
<1>3. ToAnthropicMessages(<<message>>) = Converted(<<>>, message)
    <2> HIDE DEF message
    <2> QED
        BY <1>1, <1>2, NoRequest, RequestGrows
<1>4. Converted(<<>>, message) = sent
    BY <1>1 DEF Converted
<1>5. Answered(sent)
    <2>1. Param("user", "text", <<>>) \in Params
        BY DEF Param, Params
    <2>2. /\ sent \in Seq(Params) /\ Len(sent) = 1 /\ sent # <<>>
          /\ sent[1] = Param("user", "text", <<>>)
        BY <2>1
    <2>3. 2 .. 1 = {}
        OBVIOUS
    <2> HIDE DEF sent
    <2> QED
        BY <2>2, <2>3 DEF Answered, Accepted, Param
<1> QED
    BY <1>3, <1>4, <1>5

\* The calls of a response are put after a request that is complete.
LEMMA CallsArePut ==
    ASSUME NEW sent, Answered(sent), NEW ids \in Seq(Ids)
    PROVE  PartlyAnswered(Converted(sent, Message("assistant", ids)), ids, 1)
<1>1. Converted(sent, Message("assistant", ids)) = Append(sent, Param("assistant", "blocks", ids))
    BY DEF Converted, Message
<1>2. sent \in Seq(Params)
    BY DEF Answered
<1> QED
    BY <1>1, <1>2 DEF PartlyAnswered

\* Sequences as long as each other with the same elements are the same.
LEMMA SameSequence ==
    ASSUME NEW S, NEW a \in Seq(S), NEW b \in Seq(S), Len(a) = Len(b),
           \A i \in 1 .. Len(a) : a[i] = b[i]
    PROVE  a = b
OBVIOUS

\* A sequence and one element more.
LEMMA OneMore ==
    ASSUME NEW S, NEW s \in Seq(S), NEW e \in S
    PROVE  s \o <<e>> = Append(s, e)
OBVIOUS

\* The first p of a sequence are the first p - 1 and the p-th.
LEMMA FirstOnes ==
    ASSUME NEW S, NEW ids \in Seq(S), NEW p \in DOMAIN ids
    PROVE  SubSeq(ids, 1, p) = SubSeq(ids, 1, p - 1) \o <<ids[p]>>
<1> DEFINE a == SubSeq(ids, 1, p)
           first == SubSeq(ids, 1, p - 1)
<1>1. p \in Nat /\ p >= 1 /\ p <= Len(ids) /\ Len(ids) \in Nat /\ ids[p] \in S
    OBVIOUS
<1>2. /\ a \in Seq(S) /\ Len(a) = p
      /\ \A i \in 1 .. p : a[i] = ids[i]
    BY <1>1
<1>3. /\ first \in Seq(S) /\ Len(first) = p - 1
      /\ \A i \in 1 .. (p - 1) : first[i] = ids[i]
    BY <1>1
<1>4. first \o <<ids[p]>> = Append(first, ids[p])
    BY <1>1, <1>3, OneMore
<1> HIDE DEF a, first
<1> DEFINE b == Append(first, ids[p])
<1>5. b \in Seq(S) /\ Len(b) = p /\ b[p] = ids[p]
    BY <1>1, <1>3
<1>6. \A i \in 1 .. (p - 1) : b[i] = first[i]
    BY <1>1, <1>3
<1>7. \A i \in 1 .. p : i = p \/ i \in 1 .. (p - 1)
    BY <1>1
<1> HIDE DEF b
<1>8. \A i \in 1 .. p : a[i] = b[i]
    BY <1>1, <1>2, <1>3, <1>5, <1>6, <1>7
<1>9. a = b
    BY <1>2, <1>5, <1>8, SameSequence
<1> QED
    BY <1>4, <1>9 DEF a, b, first

\* A result joins the results before it.
LEMMA ResultJoins ==
    ASSUME NEW sent, NEW ids \in Seq(Ids), NEW p \in DOMAIN ids, PartlyAnswered(sent, ids, p)
    PROVE  PartlyAnswered(Converted(sent, Message("tool", <<ids[p]>>)), ids, p + 1)
<1> DEFINE blocks == Param("assistant", "blocks", ids)
           results(n) == Param("user", "tool_result", SubSeq(ids, 1, n))
           message == Message("tool", <<ids[p]>>)
<1>1. PICK base \in Seq(Params) :
        /\ Answered(base)
        /\ sent = IF p = 1 THEN Append(base, blocks)
                  ELSE Append(Append(base, blocks), results(p - 1))
    BY DEF PartlyAnswered
<1>2. /\ message.role = "tool" /\ message.calls = <<ids[p]>>
      /\ blocks.kind = "blocks"
      /\ \A n : results(n).kind = "tool_result" /\ results(n).ids = SubSeq(ids, 1, n)
    BY DEF Message, Param
<1>3. blocks \in Params /\ \A n \in 0 .. Len(ids) : results(n) \in Params
    <2>1. \A n \in 0 .. Len(ids) : SubSeq(ids, 1, n) \in Seq(Ids)
        OBVIOUS
    <2> QED
        BY <2>1 DEF Param, Params
<1>4. /\ p \in Nat /\ p >= 1 /\ p <= Len(ids) /\ p - 1 \in 0 .. Len(ids) /\ p # p + 1
      /\ p + 1 # 1 /\ (p + 1) - 1 = p
    OBVIOUS
<1>5. /\ SubSeq(ids, 1, p) = SubSeq(ids, 1, p - 1) \o <<ids[p]>>
      /\ p = 1 => SubSeq(ids, 1, p) = <<ids[p]>>
    <2>1. SubSeq(ids, 1, p) = SubSeq(ids, 1, p - 1) \o <<ids[p]>>
        BY FirstOnes
    <2>2. ASSUME p = 1 PROVE SubSeq(ids, 1, p) = <<ids[p]>>
        <3>1. ids[p] \in Ids /\ SubSeq(ids, 1, p - 1) = <<>> /\ <<>> \in Seq(Ids)
            BY <2>2
        <3>2. <<>> \o <<ids[p]>> = Append(<<>>, ids[p])
            BY <3>1, OneMore
        <3>3. Append(<<>>, ids[p]) = <<ids[p]>>
            OBVIOUS
        <3>4. SubSeq(ids, 1, p - 1) \o <<ids[p]>> = <<ids[p]>>
            BY <3>1, <3>2, <3>3, Zenon
        <3> QED
            BY <2>1, <3>4, Zenon
    <2> QED
        BY <2>1, <2>2
<1>6. Converted(sent, message) = Append(Append(base, blocks), results(p))
    <2> DEFINE n == Len(sent)
    <2>1. CASE p = 1
        <3>1. sent = Append(base, blocks)
            BY <1>1, <2>1
        <3> HIDE DEF blocks, message
        <3>2. n \in Nat /\ n > 0 /\ sent[n] = blocks
            BY <1>3, <3>1
        <3>3. Converted(sent, message) = Append(sent, Param("user", "tool_result", message.calls))
            BY <1>2, <3>2 DEF Converted
        <3> QED
            BY <1>2, <1>5, <2>1, <3>1, <3>3
    <2>2. CASE p # 1
        <3>1. sent = Append(Append(base, blocks), results(p - 1))
            BY <1>1, <2>2
        <3> DEFINE longer == Append(base, blocks)
        <3>2. longer \in Seq(Params)
            BY <1>3
        <3>3. results(p - 1) \in Params
            BY <1>3, <1>4
        <3> HIDE DEF blocks, message, longer, results
        <3>4. /\ n = Len(longer) + 1 /\ n \in Nat /\ n > 0 /\ sent[n] = results(p - 1)
              /\ sent \in Seq(Params)
            <4>1. Append(longer, results(p - 1)) \in Seq(Params)
                BY <3>2, <3>3
            <4>2. /\ Len(longer) \in Nat
                  /\ Len(Append(longer, results(p - 1))) = Len(longer) + 1
                  /\ Append(longer, results(p - 1))[Len(longer) + 1] = results(p - 1)
                BY <3>2, <3>3, Appended
            <4>3. sent = Append(longer, results(p - 1))
                BY <3>1 DEF longer
            <4> QED
                BY <4>1, <4>2, <4>3
        <3>5. Converted(sent, message) = [sent EXCEPT ![n].ids = @ \o message.calls]
            BY <1>2, <3>4 DEF Converted
        <3>6. [sent EXCEPT ![n].ids = @ \o message.calls]
                = [sent EXCEPT ![n] = [results(p - 1) EXCEPT !.ids = @ \o message.calls]]
            BY <3>4
        <3>7. [results(p - 1) EXCEPT !.ids = @ \o message.calls] = results(p)
            <4>1. SubSeq(ids, 1, p - 1) \o message.calls = SubSeq(ids, 1, p)
                BY <1>2, <1>5, <2>2
            <4>3. results(p - 1) = Param("user", "tool_result", SubSeq(ids, 1, p - 1))
                BY DEF results
            <4>4. results(p) = Param("user", "tool_result", SubSeq(ids, 1, p))
                BY DEF results
            <4>5. results(p - 1).ids = SubSeq(ids, 1, p - 1)
                BY <4>3 DEF Param
            <4> DEFINE new == results(p - 1).ids \o message.calls
            <4>6. new = SubSeq(ids, 1, p)
                BY <4>1, <4>5
            <4>7. [results(p - 1) EXCEPT !.ids = new] = results(p)
                <5>1. PICK old : old = SubSeq(ids, 1, p - 1)
                    OBVIOUS
                <5>2. PICK all : all = SubSeq(ids, 1, p)
                    OBVIOUS
                <5>3. results(p - 1) = Param("user", "tool_result", old)
                    BY <4>3, <5>1
                <5>4. results(p) = Param("user", "tool_result", all)
                    BY <4>4, <5>2
                <5>5. new = all
                    BY <4>6, <5>2
                <5> HIDE DEF results, new
                <5> QED
                    BY <5>3, <5>4, <5>5 DEF Param
            <4> HIDE DEF results
            <4> QED
                BY <4>7 DEF new
        <3>8. [sent EXCEPT ![n] = results(p)] = Append(longer, results(p))
            <4>1. results(p) \in Params
                BY <1>3, <1>4
            <4> DEFINE a == [sent EXCEPT ![n] = results(p)]
                       b == Append(longer, results(p))
            <4>2. /\ b \in Seq(Params) /\ Len(b) = n /\ b[n] = results(p)
                  /\ \A i \in 1 .. Len(longer) : b[i] = longer[i]
                BY <3>2, <3>4, <4>1, Appended
            <4>3. sent = Append(longer, results(p - 1))
                BY <3>1 DEF longer
            <4>4. \A i \in 1 .. Len(longer) : sent[i] = longer[i]
                BY <3>2, <3>3, <4>3, Appended
            <4>5. a \in Seq(Params) /\ Len(a) = n
                BY <3>4, <4>1
            <4>6. a[n] = results(p) /\ \A i \in 1 .. n : i # n => a[i] = sent[i]
                BY <3>4
            <4>7. \A i \in 1 .. n : i = n \/ i \in 1 .. Len(longer)
                <5>1. Len(longer) \in Nat
                    BY <3>2
                <5> QED
                    BY <3>4, <5>1
            <4> HIDE DEF a, b
            <4>8. \A i \in 1 .. n : a[i] = b[i]
                BY <4>2, <4>4, <4>6, <4>7
            <4>9. a = b
                BY <4>2, <4>5, <4>8, SameSequence
            <4> QED
                BY <4>9 DEF a, b
        <3>9. sent[n] = results(p - 1)
            BY <3>4
        <3>10. Converted(sent, message) = Append(longer, results(p))
            BY <3>5, <3>6, <3>7, <3>8
        <3> QED
            BY <3>10 DEF longer
    <2> QED
        BY <2>1, <2>2
<1> QED
    BY <1>1, <1>4, <1>6 DEF PartlyAnswered

\* With all of its calls answered a request is complete.
LEMMA ResultsComplete ==
    ASSUME NEW sent, NEW ids \in Seq(Ids), ids # <<>>, PartlyAnswered(sent, ids, Len(ids) + 1)
    PROVE  Answered(sent)
<1> DEFINE blocks == Param("assistant", "blocks", ids)
           results == Param("user", "tool_result", ids)
<1>1. Len(ids) \in Nat /\ Len(ids) + 1 # 1 /\ SubSeq(ids, 1, (Len(ids) + 1) - 1) = ids
    OBVIOUS
<1>2. PICK base \in Seq(Params) :
        Answered(base) /\ sent = Append(Append(base, blocks), results)
    BY <1>1 DEF PartlyAnswered
<1>3. blocks \in Params /\ results \in Params
    BY DEF Param, Params
<1>4. /\ blocks.role = "assistant" /\ blocks.kind = "blocks" /\ blocks.ids = ids
      /\ results.role = "user" /\ results.kind = "tool_result" /\ results.ids = ids
    BY DEF Param
<1> DEFINE n == Len(base)
<1> HIDE DEF blocks, results
<1>5. /\ n \in Nat /\ n > 0 /\ Len(sent) = n + 2 /\ sent \in Seq(Params)
      /\ sent[n + 1] = blocks /\ sent[n + 2] = results
      /\ \A i \in 1 .. n : sent[i] = base[i]
    <2>1. base # <<>>
        BY <1>2 DEF Answered, Accepted
    <2> QED
        BY <1>2, <1>3, <2>1
<1>6. /\ base[1].role = "user" /\ base[n].role = "user" /\ base[n].kind # "blocks"
      /\ base[n] \in Params
    BY <1>2, <1>5 DEF Answered, Accepted
<1> HIDE DEF n
<1>7. ASSUME NEW i \in 2 .. Len(sent)
      PROVE  /\ sent[i].role # sent[i - 1].role
             /\ sent[i].kind = "tool_result" =>
                   sent[i - 1].kind = "blocks" /\ sent[i].ids = sent[i - 1].ids
             /\ sent[i - 1].kind = "blocks" /\ sent[i - 1].ids # <<>> =>
                   sent[i].kind = "tool_result"
             /\ sent[i].ids # <<>>
    <2>1. CASE i = n + 2
        <3>1. i - 1 = n + 1
            BY <1>5, <2>1
        <3> QED
            BY <1>4, <1>5, <2>1, <3>1
    <2>2. CASE i = n + 1
        <3>1. i - 1 = n /\ n \in 1 .. n
            BY <1>5, <2>2
        <3> QED
            BY <1>4, <1>5, <1>6, <2>2, <3>1
    <2>3. CASE i <= n
        <3>1. i \in 2 .. n /\ i \in 1 .. n /\ i - 1 \in 1 .. n
            BY <1>5, <2>3
        <3>2. sent[i] = base[i] /\ sent[i - 1] = base[i - 1]
            BY <1>5, <3>1
        <3> QED
            BY <1>2, <3>1, <3>2 DEF Answered, Accepted, n
    <2> QED
        BY <1>5, <2>1, <2>2, <2>3
<1>8. sent # <<>> /\ sent[1].role = "user" /\ sent[Len(sent)] = results
    BY <1>5, <1>6
<1> QED
    BY <1>4, <1>5, <1>7, <1>8 DEF Answered, Accepted

\* What is put to the provider: a request that is complete, or the one with the calls
\* before the one in progress answered.
RequestInv ==
    /\ pc \in {"start", "loop", "request", "model", "response"}
          => Answered(ToAnthropicMessages(messages))
    /\ pc \in CallLocations => PartlyAnswered(ToAnthropicMessages(messages), CallIds, position)

\* A run starts with a request that is complete.
LEMMA RequestInit == Init => RequestInv
BY FirstRequest DEF Init, RequestInv, CallLocations

\* Every step keeps the request complete, or answered up to the call in progress.
LEMMA RequestStep == TypeOK /\ RequestInv /\ [Next]_vars => RequestInv'
<1> SUFFICES ASSUME TypeOK, RequestInv, [Next]_vars PROVE RequestInv'
    OBVIOUS
<1> USE DEF callVars, CallLocations
<1>1. CASE RecordResponse
    <2>1. /\ pc = "response" /\ pc' = AfterResponse /\ position' = 1
          /\ messages' = Append(messages, Message("assistant", CallIds))
          /\ CallIds' = CallIds
        BY <1>1 DEF RecordResponse, CallIds
    <2>2. messages \in Seq(Messages) /\ CallIds \in Seq(Ids)
        BY CallIdsType
    <2>3. Message("assistant", CallIds) \in Messages
        BY <2>2 DEF Message, Messages
    <2>4. Answered(ToAnthropicMessages(messages))
        BY <2>1 DEF RequestInv
    <2>5. ToAnthropicMessages(messages')
              = Converted(ToAnthropicMessages(messages), Message("assistant", CallIds))
        BY <2>1, <2>2, <2>3, RequestGrows
    <2>6. PartlyAnswered(ToAnthropicMessages(messages'), CallIds, 1)
        BY <2>2, <2>4, <2>5, CallsArePut
    <2> QED
        BY <2>1, <2>6 DEF RequestInv, AfterResponse
<1>2. CASE FinishTool
    <2>1. /\ pc = "finished" /\ position' = position + 1
          /\ messages' = Append(messages, Message("tool", <<call.id>>))
          /\ CallIds' = CallIds
          /\ pc' = IF position = Len(response.tool_calls) THEN "loop" ELSE "call"
        BY <1>2 DEF FinishTool, CallIds
    <2>2. /\ messages \in Seq(Messages) /\ CallIds \in Seq(Ids)
          /\ position \in DOMAIN CallIds /\ CallIds[position] = call.id
          /\ Len(CallIds) = Len(response.tool_calls)
        BY <2>1, CallIdsType
    <2>3. Message("tool", <<call.id>>) \in Messages
        BY <2>2 DEF Message, Messages
    <2>4. PartlyAnswered(ToAnthropicMessages(messages), CallIds, position)
        BY <2>1 DEF RequestInv
    <2>5. ToAnthropicMessages(messages')
              = Converted(ToAnthropicMessages(messages), Message("tool", <<CallIds[position]>>))
        BY <2>1, <2>2, <2>3, RequestGrows
    <2>6. PartlyAnswered(ToAnthropicMessages(messages'), CallIds, position + 1)
        BY <2>2, <2>4, <2>5, ResultJoins
    <2>7. CallIds # <<>>
        BY <2>2
    <2>8. pc' = "loop" => Answered(ToAnthropicMessages(messages'))
        <3> SUFFICES ASSUME position = Len(CallIds)
                     PROVE  Answered(ToAnthropicMessages(messages'))
            BY <2>1, <2>2
        <3> QED
            BY <2>2, <2>6, <2>7, ResultsComplete
    <2> QED
        BY <2>1, <2>6, <2>8 DEF RequestInv
<1>3. CASE \/ Start \/ BeginTurn \/ BeginFinalization \/ ExhaustTurns \/ RequestModel
           \/ ModelResponds
    BY <1>3 DEF Start, BeginTurn, BeginFinalization, ExhaustTurns, RequestModel,
        ModelResponds, RequestInv
<1>4. CASE \/ RequestTool \/ EvaluatePolicy \/ Approve \/ RecordAllow \/ RecordDeny
           \/ StartTool \/ ToolReturns
    <2>1. /\ messages' = messages /\ position' = position /\ CallIds' = CallIds
          /\ pc \in CallLocations /\ pc' \in CallLocations
        BY <1>4 DEF RequestTool, EvaluatePolicy, Approve, RecordAllow, RecordDeny,
            RecordDecision, StartTool, ToolReturns, CallIds
    <2> QED
        BY <2>1 DEF RequestInv
<1>5. CASE \/ Complete \/ FinishAtLimit \/ ReportFailure \/ ReportCancel \/ EvaluationFails
           \/ ModelFails \/ ApprovalFails \/ Cancel \/ RecorderFails
    <2>1. pc' \in {"done", "failing", "cancelling"}
        BY <1>5 DEF Complete, FinishAtLimit, ReportFailure, ReportCancel, End,
            EvaluationFails, ModelFails, ApprovalFails, Cancel, RecorderFails
    <2> QED
        BY <2>1 DEF RequestInv
<1>6. CASE UNCHANGED vars
    BY <1>6 DEF vars, RequestInv, CallIds
<1> QED
    BY <1>1, <1>2, <1>3, <1>4, <1>5, <1>6 DEF Next, Progress

\* Every request made of the Messages API is one it takes: roles alternate, the calls of
\* each assistant message are answered in order by the one user message after it, and
\* none is empty, whatever the responses, the denials and the limits.
THEOREM RequestsAreAccepted == Spec => []RequestIsAccepted
<1>1. RequestInv => RequestIsAccepted
    BY DEF RequestInv, RequestIsAccepted, Answered
<1> QED
    BY <1>1, TypeInit, TypeStep, RequestInit, RequestStep, PTL DEF Spec
=============================================================================
