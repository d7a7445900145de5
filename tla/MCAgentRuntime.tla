--------------------------- MODULE MCAgentRuntime ---------------------------
(* AgentRuntime on a small instance: two ids, one of which repeats within a  *)
(* response, a sensitive file whose text has two pieces, and a response for  *)
(* each way a call can go and for each way to quote what was read.           *)
EXTENDS AnthropicClient

CONSTANTS c1, c2, key, salt, marker

MCIds == {c1, c2}
MCValues == {key, salt, marker}
MCContent == {key, salt}

Quoting(id, name, arguments, text, names) ==
    [id |-> id, name |-> name, arguments |-> arguments, text |-> text, names |-> names]

Request(id, name, arguments) == Quoting(id, name, arguments, {}, {})

Response(text, calls) == [text |-> text, tool_calls |-> calls]

Read  == Request(c1, "read_file", "sensitive")
Write == Quoting(c1, "write_file", "plain", MCContent, {salt})
Shell == Request(c2, "bash", "plain")

MCResponses == {
    Response(MCValues, <<>>),
    Response({}, <<Read, Shell>>),
    Response({key}, <<Write>>),
    Response({}, <<Request(c1, "edit_file", "outside"),
                   Request(c1, "unknown", "plain")>>),
    Response({}, <<Request(c1, "bash", "malformed"),
                   Request(c2, "bash", "dangerous")>>),
    Response({}, <<Request(c2, "write_file", "unresolvable")>>) }

Settings(max_turns, finalization, write, shell, approval) ==
    [max_turns |-> max_turns, finalization_turn |-> finalization,
     write_policy |-> write, shell_policy |-> shell, approval |-> approval]

MCConfigs == {
    Settings(1, TRUE, "ask", "allow", "interactive"),
    Settings(2, FALSE, "ask", "ask", "interactive"),
    Settings(1, FALSE, "allow", "deny", "deny"),
    Settings(2, TRUE, "deny", "ask", "deny"),
    Settings(1, TRUE, "ask", "ask", "approve") }

MCFaults == {"model", "approval", "recorder", "cancel"}
=============================================================================
