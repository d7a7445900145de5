---------------------------- MODULE LocalExecutor ----------------------------
(***************************************************************************)
(* One command, the processes it starts, and what the event loop knows of  *)
(* them, run by one of two callers:                                        *)
(*  - "executor": LocalCommandExecutor.run and _terminate_process_group    *)
(*    (executors.py) under the deadline of ToolRegistry.execute;           *)
(*  - "evaluator": CommandExitCode.evaluate (evals/evaluators.py), which   *)
(*    has a deadline of its own and kills no more than the shell.          *)
(*                                                                         *)
(* External to src/, modelled from how the code uses it (CPython 3.11, the *)
(* version pyproject.toml asks for at least):                              *)
(*  - a child inherits its parent's process group and its end of the       *)
(*    pipes; it may leave the group or redirect its output;                *)
(*  - the event loop learns the exit of the shell, the only process it     *)
(*    watches, some time after it happened;                                *)
(*  - a reader that has too much unread output pauses its pipe, and a      *)
(*    paused pipe does not notice that it was closed;                      *)
(*  - Process.wait() returns at once when the exit is known, and else only *)
(*    once it is known and both pipes are closed.                          *)
(***************************************************************************)
EXTENDS Naturals, FiniteSets

CONSTANTS Shell, Descendants

Processes == {Shell} \cup Descendants

ASSUME ShellAssumption == Shell \notin Descendants

VARIABLES
    caller,      \* who runs the command
    pc,          \* where it is: its await, or how it ended
    born,        \* the processes started so far
    alive,       \* those still running
    group,       \* the processes in the shell's group (the evaluator's shell
                 \* has not one of its own)
    pipe,        \* the live processes that hold an end of the pipes
    paused,      \* unread output has paused a pipe
    returncode,  \* process.returncode is known to the event loop
    cut          \* history: how the call was cut off, if it was

vars == <<caller, pc, born, alive, group, pipe, paused, returncode, cut>>

Callers == {"executor", "evaluator"}

Init ==
    /\ caller \in Callers
    /\ pc = "spawning"
    /\ born = {}
    /\ alive = {}
    /\ group = {}
    /\ pipe = {}
    /\ paused = FALSE
    /\ returncode = FALSE
    /\ cut = "not"

-----------------------------------------------------------------------------
(* The command's processes.                                                 *)

Fork ==
    \E parent \in alive, child \in Processes \ born :
        /\ born' = born \cup {child}
        /\ alive' = alive \cup {child}
        /\ \/ group' = group \cup (IF parent \in group THEN {child} ELSE {})
           \/ group' = group
        /\ \/ pipe' = pipe \cup (IF parent \in pipe THEN {child} ELSE {})
           \/ pipe' = pipe
        /\ UNCHANGED <<pc, paused, returncode, cut, caller>>

Exit ==
    \E process \in alive :
        /\ alive' = alive \ {process}
        /\ pipe' = pipe \ {process}
        /\ UNCHANGED <<pc, born, group, paused, returncode, cut, caller>>

\* Output comes in faster than it is read.
Flood ==
    /\ pipe # {}
    /\ ~paused
    /\ paused' = TRUE
    /\ UNCHANGED <<pc, born, alive, group, pipe, returncode, cut, caller>>

-----------------------------------------------------------------------------
(* The event loop.                                                          *)

LearnExit ==
    /\ Shell \in born \ alive
    /\ ~returncode
    /\ returncode' = TRUE
    /\ UNCHANGED <<pc, born, alive, group, pipe, paused, cut, caller>>

\* communicate reads on, which resumes a paused pipe.
Read ==
    /\ pc = "communicating"
    /\ paused
    /\ paused' = FALSE
    /\ UNCHANGED <<pc, born, alive, group, pipe, returncode, cut, caller>>

PipesClosed == pipe = {} /\ ~paused

-----------------------------------------------------------------------------
(* run.                                                                     *)

\* The fork has happened and create_subprocess_shell still connects the pipes.
Spawn ==
    /\ pc = "spawning"
    /\ pc' = "connecting"
    /\ born' = {Shell}
    /\ alive' = {Shell}
    /\ group' = {Shell}
    /\ pipe' = {Shell}
    /\ UNCHANGED <<paused, returncode, cut, caller>>

\* The workspace or the shell is missing.
SpawnFails ==
    /\ pc = "spawning"
    /\ pc' = "failed"
    /\ UNCHANGED <<born, alive, group, pipe, paused, returncode, cut, caller>>

Connect ==
    /\ pc = "connecting"
    /\ pc' = "communicating"
    /\ UNCHANGED <<born, alive, group, pipe, paused, returncode, cut, caller>>

\* Mutant: the exit of the shell is all that is waited for.
ReturnAtExit ==
    /\ pc = "communicating"
    /\ returncode
    /\ pc' = "returned"
    /\ UNCHANGED <<born, alive, group, pipe, paused, returncode, cut, caller>>

Return ==
    /\ pc = "communicating"
    /\ PipesClosed
    /\ returncode
    /\ pc' = "returned"
    /\ UNCHANGED <<born, alive, group, pipe, paused, returncode, cut, caller>>

Kill(killed) ==
    /\ alive' = alive \ killed
    /\ pipe' = pipe \ killed

\* A cancellation before the try block: the event loop closes the transport,
\* which kills the shell alone.
CancelSpawn ==
    /\ pc = "connecting"
    /\ Kill({Shell})
    /\ pc' = "raised"
    /\ cut' = "spawning"
    /\ UNCHANGED <<born, group, paused, returncode, caller>>

\* Mutant: the shell alone is killed.
TerminateShell == IF returncode THEN UNCHANGED <<alive, pipe>> ELSE Kill({Shell})

\* The deadline of wait_for, or a cancelled run, reaches communicate.
TerminateProcessGroup ==
    IF returncode THEN UNCHANGED <<alive, pipe>> ELSE Kill(group)

Cancel ==
    /\ caller = "executor"
    /\ pc = "communicating"
    /\ TerminateProcessGroup
    /\ cut' = IF returncode THEN "after exit" ELSE "killed"
    /\ pc' = IF returncode THEN "raised" ELSE "waiting"
    /\ UNCHANGED <<born, group, paused, returncode, caller>>

\* The evaluator's deadline: process.kill, and the wait for the process.
TimeOut ==
    /\ caller = "evaluator"
    /\ pc = "communicating"
    /\ Kill(IF returncode THEN {} ELSE {Shell})
    /\ cut' = IF returncode THEN "after exit" ELSE "killed"
    /\ pc' = IF returncode THEN "raised" ELSE "waiting"
    /\ UNCHANGED <<born, group, paused, returncode, caller>>

\* The deadline comes just as the command has ended and its transport is closed:
\* process.kill raises ProcessLookupError.
TimeOutFails ==
    /\ caller = "evaluator"
    /\ pc = "communicating"
    /\ PipesClosed
    /\ returncode
    /\ pc' = "failed"
    /\ UNCHANGED <<born, alive, group, pipe, paused, returncode, cut, caller>>

\* The suite is cancelled (Ctrl-C): no handler of evaluate is for that.  The
\* transport may be collected, which kills the shell.
Abandon ==
    /\ caller = "evaluator"
    /\ pc = "communicating"
    /\ Kill({}) \/ Kill({Shell})
    /\ pc' = "raised"
    /\ cut' = "abandoned"
    /\ UNCHANGED <<born, group, paused, returncode, caller>>

\* Mutants: the handler does not raise again, so the call goes on without output;
\* every process the command started is waited for.
WaitedWithoutRaise ==
    /\ pc = "waiting"
    /\ returncode
    /\ PipesClosed
    /\ pc' = "failed"
    /\ UNCHANGED <<born, alive, group, pipe, paused, returncode, cut, caller>>
WaitedForAll ==
    /\ pc = "waiting"
    /\ returncode
    /\ PipesClosed
    /\ alive = {}
    /\ pc' = "raised"
    /\ UNCHANGED <<born, alive, group, pipe, paused, returncode, cut, caller>>

\* await process.wait() in the handler.
Waited ==
    /\ pc = "waiting"
    /\ returncode
    /\ PipesClosed
    /\ pc' = "raised"
    /\ UNCHANGED <<born, alive, group, pipe, paused, returncode, cut, caller>>

\* A second cancellation (Ctrl-C) during that await.
CancelAgain ==
    /\ pc = "waiting"
    /\ pc' = "raised"
    /\ UNCHANGED <<born, alive, group, pipe, paused, returncode, cut, caller>>

Code == Spawn \/ Connect \/ Return \/ Waited

Next ==
    \/ Code \/ LearnExit \/ Read
    \/ Fork \/ Exit \/ Flood
    \/ SpawnFails \/ CancelSpawn \/ CancelAgain
    \/ Cancel \/ TimeOut \/ TimeOutFails \/ Abandon

\* A step of the caller's, of the event loop's, and the deadline come; what
\* the command's processes do, or a second cancellation, may never come.
Fairness ==
    /\ WF_vars(Code)
    /\ WF_vars(LearnExit)
    /\ WF_vars(Cancel)
    /\ WF_vars(TimeOut)

Spec == Init /\ [][Next]_vars

FairSpec == Spec /\ Fairness

-----------------------------------------------------------------------------
\* Types; the processes that run, and those that hold a pipe, have been started and
\* run; and a call that was cut off raises: it neither returns nor fails otherwise,
\* which would hide the deadline or the cancellation from the caller.
TypeOK ==
    /\ caller \in Callers
    /\ pc \in {"spawning", "connecting", "communicating", "waiting",
               "returned", "raised", "failed"}
    /\ born \subseteq Processes
    /\ alive \subseteq born
    /\ group \subseteq born
    /\ pipe \subseteq alive
    /\ paused \in BOOLEAN
    /\ returncode \in BOOLEAN
    /\ cut \in {"not", "spawning", "after exit", "killed", "abandoned"}
    /\ cut # "not" => pc \in {"waiting", "raised"}

\* A command that is reported as finished has really finished: the shell is
\* gone, and nothing is left that could still add to the output.
ResultIsComplete ==
    pc = "returned" => Shell \notin alive /\ pipe = {} /\ returncode

\* A call cut off while the shell's exit was not known leaves no process of the
\* command's group behind, whatever it had forked by then; the evaluator, which
\* promises less, leaves no shell.
CutOffGroupIsDead ==
    cut = "killed" => alive \cap (IF caller = "executor" THEN group ELSE {Shell}) = {}

OutputHeld == paused \/ pipe # {}

\* A call that was cut off ends, and so does the run's or the suite's wait for
\* it, unless unread output holds a pipe or a process that was not killed does:
\* one outside the group, or any descendant in the evaluator's case.
HangsOnlyOnHeldOutput == []<>(pc = "waiting" => OutputHeld)

\* README.md: "Shell timeout, process-group termination": a call that was cut
\* off while its command ran has terminated the command's process group.
GroupTerminated ==
    caller = "executor" /\ pc = "raised" /\ cut # "spawning" => alive \cap group = {}

\* README.md: "Shell timeout, process-group termination": a call that reached its
\* deadline ends.
DeadlineEndsCall == caller = "executor" /\ pc = "waiting" ~> pc = "raised"
=============================================================================
