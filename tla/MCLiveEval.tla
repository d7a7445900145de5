----------------------------- MODULE MCLiveEval -----------------------------
(* One case is to repair a file, the other to be denied a command.  Two      *)
(* suites of both, or one suite with two cases of one name, which share a    *)
(* trace file and a row of the report: beside another case, and alone, so    *)
(* that every name has had as many attempts, and more than one.              *)
EXTENDS LiveEval

\* The expectations of no case, to be overridden.
Nothing ==
    [file_exists |-> {}, file_contains |-> {}, command_exit_code |-> {}, tool_called |-> {},
     tool_called_any |-> {}, tool_not_called |-> {}, policy_decision_equals |-> {},
     max_tool_calls |-> {}, run_status_equals |-> {}, truncated_tools |-> {},
     tool_status_equals |-> <<>>, replay |-> {}]

Repair == [Nothing EXCEPT
    !.file_exists = {"calc.py"},
    !.file_contains = {[path |-> "calc.py", text |-> "fixed"]},
    !.command_exit_code = {[command |-> "pytest", value |-> 0]},
    !.tool_called_any = {{"edit_file", "write_file"}},
    !.tool_not_called = {"write_file"},
    !.max_tool_calls = {1},
    !.run_status_equals = {"completed"}]

Denied == [Nothing EXCEPT
    !.tool_called = {"bash"},
    !.policy_decision_equals = {[tool_name |-> "bash", decision |-> "deny"]},
    !.tool_status_equals = [bash |-> "denied"]]

Plan(suites, cases) == [suites |-> suites, cases |-> cases]
Denial == [name |-> "denial", expected |-> Denied]

MCPlans ==
    {Plan(2, <<Denial, [name |-> "repair", expected |-> Repair]>>),
     Plan(1, <<Denial, [name |-> "repair", expected |-> Repair], Denial>>),
     Plan(1, <<Denial, Denial>>)}

Left(tool_results, text) ==
    [tool_results |-> tool_results, files |-> [path \in {"calc.py"} |-> {text}],
     exit_codes |-> [pytest |-> IF text = "fixed" THEN {0} ELSE {}]]

DeniedResult == ToolResult("bash", "denied", FALSE, FALSE)

MCContexts ==
    {Left(<<>>, "broken"), Left(<<DeniedResult>>, "broken"),
     Left(<<ToolResult("bash", "success", FALSE, FALSE)>>, "broken"),
     Left(<<ToolResult("edit_file", "success", FALSE, FALSE)>>, "fixed"),
     Left(<<ToolResult("edit_file", "error", TRUE, FALSE)>>, "broken"),
     Left(<<ToolResult("write_file", "success", FALSE, FALSE)>>, "fixed")}

MCPricing == [input |-> {2}, output |-> {5}, cache_creation |-> {3}, cache_read |-> {1}]
MCReported == [input |-> 4, output |-> 1, cache_creation |-> 1, cache_read |-> 2]
=============================================================================
