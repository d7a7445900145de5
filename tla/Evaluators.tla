----------------------------- MODULE Evaluators -----------------------------
(***************************************************************************)
(* The verdict on one finished run: the assertions of a case               *)
(* (evals/evaluators.py), their groups and the failure category            *)
(* (evals/live_runner.py).  A pure module.                                 *)
(*                                                                         *)
(* An expectation is a record of ExpectedOutcomes (evals/case.py), each    *)
(* list a set and each optional value a set of at most one.  A context is  *)
(* what an EvalContext shows of a run:                                     *)
(*   status, tool_results   of the RunResult                               *)
(*   decisions              the tools and decisions of policy_decided      *)
(*                          events, all of the trace file                  *)
(*   denials                how many of those events deny                  *)
(*   files                  of the paths that exist, the texts they hold   *)
(*   exit_codes             of each command, none if it timed out          *)
(*   divergence             the turn the replay parts, if it does          *)
(***************************************************************************)
EXTENDS Naturals, Sequences

\* says_invalid: the output has the words "invalid arguments" in it.
ToolResult(tool_name, status, says_invalid, truncated) ==
    [tool_name |-> tool_name, status |-> status,
     says_invalid |-> says_invalid, truncated |-> truncated]

Assertion(evaluator, passed) == [evaluator |-> evaluator, passed |-> passed]

ARTIFACT_EVALUATORS == {"FileExists", "FileContains", "CommandExitCode"}
RUNTIME_EVALUATORS == {"RunStatusEquals"}

\* Mutant: an evaluator that was added and belongs to no group.
EvaluatorsBeforeToolStatus ==
    {"ToolCalled", "ToolCalledAny", "ToolNotCalled", "PolicyDecisionEquals",
     "MaxToolCalls", "ToolOutputTruncated"}

TOOL_CONTRACT_EVALUATORS ==
    {"ToolCalled", "ToolCalledAny", "ToolNotCalled", "PolicyDecisionEquals",
     "MaxToolCalls", "ToolOutputTruncated", "ToolStatusEquals"}

-----------------------------------------------------------------------------
(* The evaluators that build_evaluators makes, over a context.              *)

ResultsOf(tool, context) ==
    {i \in DOMAIN context.tool_results : context.tool_results[i].tool_name = tool}

\* A call counts as called once it has a result, a denied one too.
Called(tool, context) == ResultsOf(tool, context) # {}

\* A path that does not exist is read as an empty file.
ArtifactAssertions(expected, context) ==
    {Assertion("FileExists", path \in DOMAIN context.files) : path \in expected.file_exists}
    \cup
    {Assertion("FileContains", item.path \in DOMAIN context.files
                               /\ item.text \in context.files[item.path])
        : item \in expected.file_contains}
    \cup
    {Assertion("CommandExitCode", item.value \in context.exit_codes[item.command])
        : item \in expected.command_exit_code}

RuntimeAssertions(expected, context) ==
    {Assertion("RunStatusEquals", context.status = status)
        : status \in expected.run_status_equals}

CallAssertions(expected, context) ==
    {Assertion("ToolCalled", Called(tool, context)) : tool \in expected.tool_called}
    \cup
    {Assertion("ToolCalledAny", \E tool \in tools : Called(tool, context))
        : tools \in expected.tool_called_any}
    \cup
    {Assertion("ToolNotCalled", ~Called(tool, context)) : tool \in expected.tool_not_called}
    \cup
    {Assertion("MaxToolCalls", Len(context.tool_results) <= maximum)
        : maximum \in expected.max_tool_calls}

\* A decision is one of the whole file, a status or a truncation one of the run.
OutcomeAssertions(expected, context) ==
    {Assertion("PolicyDecisionEquals", item \in context.decisions)
        : item \in expected.policy_decision_equals}
    \cup
    {Assertion("ToolOutputTruncated",
               \E i \in ResultsOf(tool, context) : context.tool_results[i].truncated)
        : tool \in expected.truncated_tools}
    \cup
    {Assertion("ToolStatusEquals",
               \E i \in ResultsOf(tool, context) :
                  context.tool_results[i].status = expected.tool_status_equals[tool])
        : tool \in DOMAIN expected.tool_status_equals}

ReplayAssertions(expected, context) ==
    {Assertion("ReplayMatches", (context.divergence = {}) = replay.matches)
        : replay \in expected.replay}
    \cup
    {Assertion("DivergenceTurnEquals", context.divergence = replay.divergence_turn)
        : replay \in {r \in expected.replay : r.divergence_turn # {}}}

Assertions(expected, context) ==
    ArtifactAssertions(expected, context) \cup RuntimeAssertions(expected, context) \cup
    CallAssertions(expected, context) \cup OutcomeAssertions(expected, context) \cup
    ReplayAssertions(expected, context)

-----------------------------------------------------------------------------
(* The verdict of the live runner.                                          *)

AllPassed(assertions) == \A assertion \in assertions : assertion.passed

\* _assertion_group_passed; a group without an assertion passes.
GroupPassed(assertions, names) ==
    AllPassed({assertion \in assertions : assertion.evaluator \in names})

Failed(assertions, names) == ~GroupPassed(assertions, names)

SomeResult(context, Test(_)) ==
    \E i \in DOMAIN context.tool_results : Test(context.tool_results[i])

SaysInvalid(result) == result.status = "error" /\ result.says_invalid

\* An error or timeout, other than the status expected of some call of its tool.
Unexpected(result, expected) ==
    /\ result.status \in {"error", "timeout"}
    /\ ~ /\ result.tool_name \in DOMAIN expected.tool_status_equals
         /\ expected.tool_status_equals[result.tool_name] = result.status

\* _classify_failure: the first category whose condition holds.
Reasons(expected, context, assertions) ==
    <<  <<"none", AllPassed(assertions)>>,
        <<"max_turns", context.status = "max_turns">>,
        <<"provider_error", context.status = "failed">>,
        <<"policy_denied", context.denials > 0>>,
        <<"wrong_tool_arguments", SomeResult(context, SaysInvalid)>>,
        <<"tool_contract_error",
          Failed(assertions, {"ToolCalled", "ToolCalledAny", "ToolNotCalled"})>>,
        <<"tool_error", Failed(assertions, {"ToolStatusEquals"})>>,
        <<"tool_error",
          SomeResult(context, LAMBDA result : Unexpected(result, expected))>>,
        <<"test_failure", Failed(assertions, ARTIFACT_EVALUATORS)>>,
        <<"model_planning_error", TRUE>>  >>

Category(expected, context, assertions) ==
    LET reasons == Reasons(expected, context, assertions)
        first == CHOOSE i \in DOMAIN reasons :
                    reasons[i][2] /\ \A j \in 1 .. (i - 1) : ~reasons[j][2]
    IN  reasons[first][1]

Verdict(expected, context) ==
    LET assertions == Assertions(expected, context)
    IN  [passed               |-> AllPassed(assertions),
         artifact_passed      |-> GroupPassed(assertions, ARTIFACT_EVALUATORS),
         runtime_passed       |-> GroupPassed(assertions, RUNTIME_EVALUATORS),
         tool_contract_passed |-> GroupPassed(assertions, TOOL_CONTRACT_EVALUATORS),
         failure_category     |-> Category(expected, context, assertions)]

FailureCategories ==
    {"none", "model_planning_error", "wrong_tool_arguments", "tool_contract_error",
     "policy_denied", "tool_error", "test_failure", "max_turns", "provider_error",
     "environment_error"}
=============================================================================
