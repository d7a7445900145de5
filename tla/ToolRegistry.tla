---------------------------- MODULE ToolRegistry ----------------------------
(***************************************************************************)
(* What ToolRegistry.execute may return for a call (tools/registry.py over *)
(* tools/filesystem.py and tools/shell.py).  A pure module: the set of the *)
(* results one awaited execution can end with.                             *)
(*                                                                         *)
(* A text is the set of the pieces of sensitive content it quotes, so {}   *)
(* is a text without any.                                                  *)
(***************************************************************************)
EXTENDS PolicyEngine

ResultStatuses == {"success", "error", "denied", "timeout"}

Result(status, output) == [status |-> status, output |-> output]

\* The tool's own code runs: the name is registered and the arguments validate.
Invokes(call) ==
    /\ call.name # "unknown"
    /\ call.arguments \notin {"malformed", "incomplete"}

\* The calls that can change the workspace once their tool runs.
HasEffects(call) ==
    Invokes(call) /\ call.name \in WriteTools \cup {"bash"}

\* A file tool resolves its path again and refuses one that leaves the
\* workspace by raising, which the registry turns into an error result.
FileRefused(call) ==
    call.name \in FileTools /\ call.arguments \in {"outside", "unresolvable"}

\* What a successful execution can print: a sensitive file's content (it may
\* be empty) when the file is read, or when a command happens to show it.
\* truncate_output keeps the beginning of a long output and adds a marker.
Outputs(call, content, marker) ==
    IF \/ call.name = "read_file" /\ call.arguments = "sensitive"
       \/ call.name = "bash"
    THEN {{}, content} \cup {kept \cup {marker} : kept \in SUBSET content}
    ELSE {{}}

\* A command's output comes back with either exit status; a TimeoutError, of
\* wait_for or raised by the tool itself, becomes "timeout" and every other
\* exception "error".
Execute(call, content, marker) ==
    {Result("error", {})} \cup
    (IF ~Invokes(call) THEN {}
     ELSE {Result("timeout", {})} \cup
          (IF FileRefused(call) THEN {}
           ELSE {Result("success", output) : output \in Outputs(call, content, marker)}) \cup
          (IF call.name # "bash" THEN {}
           ELSE {Result("error", output) : output \in Outputs(call, content, marker)}))
=============================================================================
