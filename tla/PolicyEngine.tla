---------------------------- MODULE PolicyEngine ----------------------------
(***************************************************************************)
(* The decision the harness takes before a tool call runs:                 *)
(* policy/engine.py and policy/rules.py.  The module is a pure one: what   *)
(* PolicyEngine.evaluate returns for a call, and when it raises instead.   *)
(*                                                                         *)
(* A call's arguments are abstracted to the class the code tells apart:    *)
(*   "plain"        valid, inside the workspace, not sensitive, harmless   *)
(*   "sensitive"    a path inside the workspace matching sensitive_paths   *)
(*   "outside"      a path that resolves outside the workspace             *)
(*   "unresolvable" a path whose expanduser() or resolve() raises (unknown *)
(*                  home directory, NUL byte, symbolic link loop)          *)
(*   "dangerous"    a command one of the shell patterns matches            *)
(*   "malformed"    the path or the command is missing or is no string     *)
(*   "incomplete"   the path is inside the workspace or the command is     *)
(*                  harmless, but the arguments do not validate otherwise  *)
(***************************************************************************)
FileTools == {"read_file", "write_file", "edit_file"}
WriteTools == FileTools \ {"read_file"}
ToolNames == FileTools \cup {"bash", "unknown"}

ArgumentClasses == {"plain", "sensitive", "outside", "unresolvable",
                    "dangerous", "malformed", "incomplete"}

Decisions == {"allow", "ask", "deny"}

Rules == {"invalid_arguments_passthrough", "workspace_boundary",
          "workspace_read", "workspace_write", "dangerous_shell",
          "shell_default", "unknown_tool_passthrough"}

\* approved is None until a handler is asked; None and False are both refusals.
PolicyOutcome == [decision : Decisions, rule : Rules, approved : BOOLEAN]

Outcome(decision, rule) ==
    [decision |-> decision, rule |-> rule, approved |-> FALSE]

\* resolve_workspace_path turns only relative_to's ValueError into
\* PathOutsideWorkspaceError: every other failure leaves evaluate by raising.
EvaluateRaises(call) ==
    call.name \in FileTools /\ call.arguments = "unresolvable"

EvaluateFile(call, config) ==
    IF call.arguments = "malformed"
    THEN Outcome("allow", "invalid_arguments_passthrough")
    ELSE IF call.arguments = "outside"
    THEN Outcome("deny", "workspace_boundary")
    ELSE IF call.name = "read_file"
    THEN Outcome("allow", "workspace_read")
    ELSE Outcome(config.write_policy, "workspace_write")

EvaluateShell(call, config) ==
    IF call.arguments = "malformed"
    THEN Outcome("allow", "invalid_arguments_passthrough")
    ELSE IF call.arguments = "dangerous"
    THEN Outcome("deny", "dangerous_shell")
    ELSE Outcome(config.shell_policy, "shell_default")

Evaluate(call, config) ==
    IF call.name \in FileTools THEN EvaluateFile(call, config)
    ELSE IF call.name = "bash"  THEN EvaluateShell(call, config)
    ELSE Outcome("allow", "unknown_tool_passthrough")

\* Mutant: an "ask" that was answered counts as allowed, whatever the answer.
AllowedOnceAsked(outcome) == outcome.decision # "deny"

Allowed(outcome) ==
    \/ outcome.decision = "allow"
    \/ outcome.decision = "ask" /\ outcome.approved
=============================================================================
