---------------------------- MODULE OpenAIClient ----------------------------
(***************************************************************************)
(* OpenAIModelClient (models/openai.py) over the life of the one run it    *)
(* belongs to: how complete turns the harness conversation into Responses  *)
(* requests, in function or prompt mode, with the provider keeping the     *)
(* conversation (profile "standard") or the client (profile "codex").      *)
(*                                                                         *)
(* External to src/, modelled from how the code uses it: the Responses API *)
(* answers a request from the context that is the one stored under         *)
(* previous_response_id, if any, followed by the request's input, and      *)
(* stores that context with its output; it may also refuse the request     *)
(* with 403, fail, or answer with what cannot be parsed.  The runtime asks *)
(* again only after it has answered every call of the last response.       *)
(*                                                                         *)
(* A message or an item is named by the turn of the response it belongs to *)
(* and, for a call or its result, by the call's index in it.               *)
(***************************************************************************)
EXTENDS Naturals, SequencesExt

CONSTANTS
    MaxTurns,  \* bound: the responses of a run
    MaxCalls   \* bound: the tool calls of a response

ASSUME BoundsAssumption == MaxTurns \in Nat \ {0} /\ MaxCalls \in Nat

VARIABLES
    pc,                    \* "runtime" has control, or what complete awaits
    tool_mode,
    client_profile,
    active_tool_mode,
    previous_response_id,  \* the turn of that response; 0 for None
    stateless_input,
    messages,              \* the conversation the runtime hands over
    request,               \* the last request sent
    stored                 \* the provider's: the context after each response

vars == <<pc, tool_mode, client_profile, active_tool_mode, previous_response_id,
          stateless_input, messages, request, stored>>

clientVars == <<tool_mode, client_profile>>

Entry(kind, turn, index) == [kind |-> kind, turn |-> turn, index |-> index]

\* The n entries of a kind in a turn.
Entries(kind, turn, n) == [k \in 1 .. n |-> Entry(kind, turn, k)]

Init ==
    /\ pc = "runtime"
    /\ tool_mode \in {"auto", "function", "prompt"}
    /\ client_profile \in {"standard", "codex"}
    /\ active_tool_mode = IF tool_mode = "prompt" THEN "prompt" ELSE "function"
    /\ previous_response_id = 0
    /\ stateless_input = <<>>
    /\ messages = <<Entry("user", 0, 0)>>
    /\ request = [previous |-> 0, input |-> <<>>]
    /\ stored = <<>>

-----------------------------------------------------------------------------
(* The requests.                                                            *)

IsAssistant(message) == message.kind = "assistant"

\* The entries of one kind, in order.
OfKind(kind, entries) ==
    FlattenSeq([i \in DOMAIN entries |->
        IF entries[i].kind = kind THEN <<entries[i]>> ELSE <<>>])

LatestToolMessages ==
    LET last == SelectLastInSeq(messages, IsAssistant)
    IN  OfKind("tool", SubSeq(messages, last + 1, Len(messages)))

\* Mutant: the conversation a codex client keeps itself is overlooked.
FirstRequestByResponseId == previous_response_id = 0

FirstRequest == stateless_input = <<>> /\ previous_response_id = 0

\* _initial_input and the two continuations raise ValueError outside of these.
InputRaises ==
    IF FirstRequest THEN SelectLastInSeq(messages, IsAssistant) # 0
                    ELSE LatestToolMessages = <<>>

\* Function mode answers a call by an item of its own, prompt mode answers all
\* of them by one user message.
ToolOutputs(mode) ==
    LET tools == LatestToolMessages
    IN  IF mode = "function"
        THEN [i \in DOMAIN tools |-> Entry("call_output", tools[i].turn, tools[i].index)]
        ELSE <<Entry("results", tools[1].turn, Len(tools))>>

InitialInput == OfKind("user", messages)

\* Mutant: the client's own copy of the conversation is left out in prompt mode.
RequestInputStateful(mode) ==
    IF FirstRequest THEN InitialInput
    ELSE IF mode = "prompt" THEN ToolOutputs(mode)
    ELSE stateless_input \o ToolOutputs(mode)

RequestInput(mode) ==
    IF FirstRequest THEN InitialInput ELSE stateless_input \o ToolOutputs(mode)

\* complete as far as its first await, in the mode that is then active.
Send(mode) ==
    /\ active_tool_mode' = mode
    /\ IF InputRaises
       THEN pc' = "raised" /\ UNCHANGED request
       ELSE /\ pc' = mode
            /\ request' = [previous |-> IF client_profile = "codex" THEN 0
                                        ELSE previous_response_id,
                           input |-> RequestInput(mode)]
    /\ UNCHANGED <<clientVars, previous_response_id, stateless_input, messages, stored>>

Complete == pc = "runtime" /\ Send(active_tool_mode)

\* Mutant: the client falls back wherever the conversation stands.
CanFallBackAnywhere == tool_mode = "auto"

CanFallBack == tool_mode = "auto" /\ previous_response_id = 0

\* 403 in function mode.
FallBack ==
    /\ pc = "function"
    /\ CanFallBack
    /\ Send("prompt")

\* Any other error of the SDK's, or 403 where there is no fallback, is raised.
Fail ==
    /\ pc \in {"function", "prompt"}
    /\ pc' = "raised"
    /\ UNCHANGED <<clientVars, active_tool_mode, previous_response_id, stateless_input,
                   messages, request, stored>>

-----------------------------------------------------------------------------
(* The responses.                                                           *)

Turn == Len(stored) + 1

\* What the provider answers from.
Context ==
    (IF request.previous = 0 THEN <<>> ELSE stored[request.previous]) \o request.input

\* A response's message, or reasoning, and its native calls.
Output(n) ==
    <<Entry("assistant", Turn, 0)>> \o
    (IF pc = "function" THEN Entries("call", Turn, n) ELSE <<>>)

\* Mutant: the client keeps the conversation whoever else does.
AdvanceInBothProfiles(n) ==
    /\ stateless_input' = request.input \o Output(n)
    /\ previous_response_id' = Turn

AdvanceConversation(n) ==
    IF client_profile = "codex"
    THEN /\ stateless_input' = request.input \o Output(n)
         /\ UNCHANGED previous_response_id
    ELSE /\ previous_response_id' = Turn
         /\ UNCHANGED stateless_input

Responded(n) ==
    /\ pc \in {"function", "prompt"}
    /\ Turn <= MaxTurns
    /\ stored' = Append(stored, Context \o Output(n))
    /\ AdvanceConversation(n)
    /\ UNCHANGED <<clientVars, active_tool_mode, request>>

\* The runtime appends the response and one result for each of its calls.
Answer(n) ==
    messages' = messages \o <<Entry("assistant", Turn, 0)>> \o Entries("tool", Turn, n)

Respond ==
    \E n \in 0 .. MaxCalls :
        /\ Responded(n)
        /\ Answer(n)
        /\ pc' = IF n = 0 THEN "finished" ELSE "runtime"

\* The arguments or the JSON object of the response do not parse: complete has
\* advanced the conversation and raises, and the run ends.
RespondUnparsable ==
    \E n \in 0 .. MaxCalls :
        /\ Responded(n)
        /\ pc = "function" => n > 0
        /\ pc' = "raised"
        /\ UNCHANGED messages

Next == Complete \/ FallBack \/ Fail \/ Respond \/ RespondUnparsable

Spec == Init /\ [][Next]_vars

-----------------------------------------------------------------------------
Kinds == {"user", "assistant", "call", "call_output", "results", "tool"}

EntrySet == [kind : Kinds, turn : 0 .. MaxTurns, index : 0 .. MaxCalls]

TypeOK ==
    /\ pc \in {"runtime", "function", "prompt", "finished", "raised"}
    /\ tool_mode \in {"auto", "function", "prompt"}
    /\ client_profile \in {"standard", "codex"}
    /\ active_tool_mode \in {"function", "prompt"}
    /\ previous_response_id \in 0 .. Len(stored)
    /\ stateless_input \in Seq(EntrySet)
    /\ messages \in Seq(EntrySet)
    /\ request \in [previous : 0 .. MaxTurns, input : Seq(EntrySet)]
    /\ stored \in Seq(Seq(EntrySet))
    /\ client_profile = "standard" => stateless_input = <<>>
    /\ client_profile = "codex" => previous_response_id = 0

\* What an item of a context tells the model of the conversation.
Told(item) ==
    CASE item.kind = "call"        -> <<>>
      [] item.kind = "call_output" -> <<Entry("tool", item.turn, item.index)>>
      [] item.kind = "results"     -> Entries("tool", item.turn, item.index)
      [] OTHER                     -> <<item>>

\* What a context tells it.
Says(context) == FlattenSeq([i \in DOMAIN context |-> Told(context[i])])

Awaiting == pc \in {"function", "prompt"}

\* Every request puts before the model the whole conversation the runtime holds,
\* each message once and in order, whichever mode and profile each turn was in.
ModelSeesTheConversation ==
    Awaiting => Says(Context) = messages

\* The native calls of a context that no item of its own answers.
Unanswered ==
    {item \in Range(Context) : item.kind = "call" /\
        Entry("call_output", item.turn, item.index) \notin Range(Context)}

\* The provider refuses a context with an unanswered native call.  The client
\* sends one only after the codex profile has fallen back to prompt mode in the
\* middle of a conversation: previous_response_id never tells it there is one.
CallsAreAnswered ==
    Awaiting /\ Unanswered # {} =>
        client_profile = "codex" /\ tool_mode = "auto" /\ active_tool_mode = "prompt"

\* A request can always be formed: the first one finds no earlier response in the
\* conversation and every other one finds tool results to send, after a fallback
\* too, so none of the three ValueErrors ever ends a run.
RequestCanBeFormed == pc \in {"runtime", "function"} => ~InputRaises
=============================================================================
