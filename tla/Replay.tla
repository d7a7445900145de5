------------------------------- MODULE Replay -------------------------------
(***************************************************************************)
(* A run that is recorded and then replayed: ReplayModelClient             *)
(* (models/replay.py) feeds the model_response events of the first trace   *)
(* to a second run, and TraceMatcher (trace/matcher.py) compares the       *)
(* policy_decided events of the two.  Two callers do that: the replay      *)
(* command (cli.py), with a default configuration, and EvalRunner          *)
(* (evals/runner.py), with the configuration of the case, which may also   *)
(* have responses of its own for the second run.                           *)
(*                                                                         *)
(* A run is AgentRuntime at the grain of its turns and of the decisions it *)
(* records; the fixture is a clean one, so both runs decide alike.         *)
(***************************************************************************)
EXTENDS Naturals, SequencesExt

CONSTANTS
    Calls,           \* the tool calls, each a tool and its arguments
    Raising,         \* those on which PolicyEngine.evaluate raises
    Responses,       \* the responses of the recorded model
    Scripts,         \* the responses a case may give for the second run
    Configs,         \* the recorded run's max_turns and finalization_turn
    DefaultMaxTurns  \* HarnessConfig's default max_turns

ASSUME CallsAssumption ==
    /\ Raising \subseteq Calls
    /\ Responses \subseteq Seq(Calls)
    /\ Scripts \subseteq Seq(Responses)
ASSUME ConfigsAssumption ==
    /\ Configs \subseteq [max_turns : Nat \ {0}, finalization_turn : BOOLEAN]
    /\ DefaultMaxTurns \in Nat \ {0}

VARIABLES
    caller,      \* who replays: "cli" or "eval"
    config,      \* the recorded run's
    run,         \* the run now going on, "compared" at the end
    pc,          \* where that run is
    turns, response, position, status,
    responses,   \* the model_response events of the recorded trace
    scripted,    \* the case has responses of its own for the replay
    script,      \* the replay client's _responses
    consumed,    \* the replay client's _position
    decided,     \* the policy_decided events of the two traces
    ended,       \* history: the recorded run's status and turns
    verdict      \* what the caller makes of the comparison

vars == <<caller, config, run, pc, turns, response, position, status, responses,
          scripted, script, consumed, decided, ended, verdict>>

scriptVars == <<scripted, script>>

Init ==
    /\ caller \in {"cli", "eval"}
    /\ config \in Configs
    /\ run = "recorded"
    /\ pc = "loop"
    /\ turns = 0
    /\ response = <<>>
    /\ position = 0
    /\ status = "running"
    /\ responses = <<>>
    /\ scripted = FALSE
    /\ script = <<>>
    /\ consumed = 0
    /\ decided = [of \in {"recorded", "replayed"} |-> <<>>]
    /\ ended = [status |-> "running", turns |-> 0]
    /\ verdict = "none"

-----------------------------------------------------------------------------
(* A run, the recorded or the replayed one.                                 *)

Default == [max_turns |-> DefaultMaxTurns, finalization_turn |-> TRUE]

\* Mutant: every replay runs with the default configuration.
LimitsByDefault == IF run = "recorded" THEN config ELSE Default

Limits == IF run = "recorded" \/ caller = "eval" THEN config ELSE Default

Finalizing == turns = Limits.max_turns + 1

Stop(as) == pc' = "ended" /\ status' = as

BeginTurn ==
    /\ pc = "loop"
    /\ turns < Limits.max_turns + (IF Limits.finalization_turn THEN 1 ELSE 0)
    /\ turns' = turns + 1
    /\ pc' = "model"
    /\ UNCHANGED <<caller, config, run, scriptVars, response, position, status, responses,
                   consumed, decided, ended, verdict>>

ExhaustTurns ==
    /\ pc = "loop"
    /\ turns = Limits.max_turns
    /\ ~Limits.finalization_turn
    /\ Stop("max_turns")
    /\ UNCHANGED <<caller, config, run, scriptVars, turns, response, position, responses,
                   consumed, decided, ended, verdict>>

\* Mutant: a response without calls does not complete the run.
ReceiveWithoutCompletion(received) ==
    /\ response' = received
    /\ position' = 1
    /\ IF Finalizing THEN Stop("max_turns") ELSE pc' = "call" /\ UNCHANGED status

Receive(received) ==
    /\ response' = received
    /\ position' = 1
    /\ IF received = <<>> THEN Stop("completed")
       ELSE IF Finalizing THEN Stop("max_turns")
       ELSE pc' = "call" /\ UNCHANGED status

ModelResponds ==
    /\ run = "recorded"
    /\ pc = "model"
    /\ \E received \in Responses :
          /\ Receive(received)
          /\ responses' = Append(responses, received)
    /\ UNCHANGED <<caller, config, run, scriptVars, turns, consumed, decided, ended, verdict>>

\* Mutant: the last response is not handed out.
ExhaustedEarly == consumed + 1 >= Len(script)

Exhausted == consumed >= Len(script)

ReplayResponds ==
    /\ run = "replayed"
    /\ pc = "model"
    /\ ~Exhausted
    /\ consumed' = consumed + 1
    /\ Receive(script[consumed'])
    /\ UNCHANGED <<caller, config, run, scriptVars, turns, responses, decided, ended, verdict>>

\* ReplayExhaustedError ends the run in the runtime's exception handler.
ReplayFails ==
    /\ run = "replayed"
    /\ pc = "model"
    /\ Exhausted
    /\ Stop("failed")
    /\ UNCHANGED <<caller, config, run, scriptVars, turns, response, position, responses,
                   consumed, decided, ended, verdict>>

Decide ==
    /\ pc = "call"
    /\ response[position] \notin Raising
    /\ decided' = [decided EXCEPT ![run] =
                       Append(@, [turn |-> turns, call |-> response[position]])]
    /\ position' = position + 1
    /\ pc' = IF position = Len(response) THEN "loop" ELSE "call"
    /\ UNCHANGED <<caller, config, run, scriptVars, turns, response, status, responses,
                   consumed, ended, verdict>>

EvaluationFails ==
    /\ pc = "call"
    /\ response[position] \in Raising
    /\ Stop("failed")
    /\ UNCHANGED <<caller, config, run, scriptVars, turns, response, position, responses,
                   consumed, decided, ended, verdict>>

\* The recorded run is cancelled, or its provider or its recorder fails.
BreakOff ==
    /\ run = "recorded"
    /\ pc # "ended"
    /\ Stop("failed")
    /\ UNCHANGED <<caller, config, run, scriptVars, turns, response, position, responses,
                   consumed, decided, ended, verdict>>

-----------------------------------------------------------------------------
(* The replay and its verdict.                                              *)

\* The responses of the trace, or those the case has for the replay.
StartReplay ==
    /\ run = "recorded"
    /\ pc = "ended"
    /\ scripted' \in (IF caller = "eval" THEN BOOLEAN ELSE {FALSE})
    /\ script' \in (IF scripted' THEN Scripts ELSE {responses})
    /\ run' = "replayed"
    /\ pc' = "loop"
    /\ turns' = 0
    /\ response' = <<>>
    /\ position' = 0
    /\ status' = "running"
    /\ ended' = [status |-> status, turns |-> turns]
    /\ UNCHANGED <<caller, config, responses, consumed, decided, verdict>>

\* Mutant: only the calls that both traces have are compared.
DifferenceInBoth(expected, actual, i) ==
    IF i > Len(expected) \/ i > Len(actual) THEN "none"
    ELSE IF expected[i].call # actual[i].call THEN "call" ELSE "none"

\* What compare_invocations finds at one index.
Difference(expected, actual, i) ==
    IF i > Len(expected) THEN "extra"
    ELSE IF i > Len(actual) THEN "missing"
    ELSE IF expected[i].call # actual[i].call THEN "call" ELSE "none"

\* compare_invocations: the first index at which the two differ, why, and the
\* turn it is put down to; none, if they do not.
Divergences(expected, actual) ==
    LET longer == IF Len(expected) > Len(actual) THEN expected ELSE actual
        differing == {i \in DOMAIN longer : Difference(expected, actual, i) # "none"}
        Divergence(i) ==
            [index |-> i, reason |-> Difference(expected, actual, i),
             turn |-> IF i > Len(actual) THEN expected[i].turn ELSE actual[i].turn]
    IN  IF differing = {} THEN {} ELSE {Divergence(Min(differing))}

divergences == Divergences(decided.recorded, decided.replayed)

\* Mutant: the command goes on to compare whatever became of the replay.
ConcludeAlways ==
    /\ run = "replayed"
    /\ pc = "ended"
    /\ run' = "compared"
    /\ verdict' = IF divergences = {} THEN "match" ELSE "diverged"
    /\ UNCHANGED <<caller, config, scriptVars, pc, turns, response, position, status, responses,
                   consumed, decided, ended>>

\* _print_run_result leaves the command before it compares if the replay did not
\* complete; EvalRunner always compares.
Conclude ==
    /\ run = "replayed"
    /\ pc = "ended"
    /\ run' = "compared"
    /\ verdict' = IF caller = "cli" /\ status # "completed" THEN "none"
                  ELSE IF divergences = {} THEN "match" ELSE "diverged"
    /\ UNCHANGED <<caller, config, scriptVars, pc, turns, response, position, status, responses,
                   consumed, decided, ended>>

Next ==
    \/ BeginTurn \/ ExhaustTurns \/ ModelResponds \/ ReplayResponds \/ ReplayFails
    \/ Decide \/ EvaluationFails \/ BreakOff
    \/ StartReplay \/ Conclude

Spec == Init /\ [][Next]_vars

-----------------------------------------------------------------------------
Statuses == {"running", "completed", "max_turns", "failed"}

TypeOK ==
    /\ caller \in {"cli", "eval"}
    /\ config \in Configs
    /\ run \in {"recorded", "replayed", "compared"}
    /\ pc \in {"loop", "model", "call", "ended"}
    /\ turns \in Nat
    /\ response \in Seq(Calls)
    /\ pc = "call" => position \in DOMAIN response
    /\ status \in Statuses
    /\ responses \in Seq(Responses)
    /\ scripted \in BOOLEAN /\ (scripted => caller = "eval")
    /\ script \in Seq(Responses)
    /\ consumed \in 0 .. Len(script)
    /\ decided \in [{"recorded", "replayed"} -> Seq([turn : Nat, call : Calls])]
    /\ ended \in [status : Statuses, turns : Nat]
    /\ verdict \in {"none", "match", "diverged"}

CallsOf(events) == [i \in DOMAIN events |-> events[i].call]

\* The comparison returns None exactly for the same calls in the same order, and
\* else the place where the two sequences first part.
DivergenceIsTheFirst ==
    LET expected == CallsOf(decided.recorded)
        actual   == CallsOf(decided.replayed)
    IN  {d.index : d \in divergences} =
            IF expected = actual THEN {} ELSE {Len(LongestCommonPrefix({expected, actual})) + 1}

\* A recorded run that completed within the turns of the replaying configuration
\* is replayed to the same end, with the verdict that it matches.
CompletedRunMatches ==
    /\ run = "compared"
    /\ ~scripted
    /\ ended.status = "completed"
    /\ caller = "cli" => ended.turns <= DefaultMaxTurns + 1
    => verdict = "match" /\ status = "completed" /\ turns = ended.turns

\* Under the recorded run's own configuration and responses only a run that was
\* broken off diverges, and by a call it did not come to in its last turn: one that
\* reached its limit matches, calls in its finalization turn included, and so does
\* one whose call could not be evaluated.
SameConfigurationMatches ==
    run = "compared" /\ caller = "eval" /\ ~scripted /\ verdict = "diverged" =>
        /\ ended.status = "failed"
        /\ \A d \in divergences : d.reason = "extra" /\ d.turn = ended.turns
        /\ \A i \in DOMAIN responses :
              i < Len(responses) => \A k \in DOMAIN responses[i] : responses[i][k] \notin Raising

\* The command says MATCH of a completed run only, and then the replay has used
\* up its responses and decided on every one of its calls.
MatchIsOfTheWholeRun ==
    caller = "cli" /\ verdict = "match" =>
        /\ ended.status = "completed"
        /\ consumed = Len(responses)
        /\ CallsOf(decided.replayed) = FlattenSeq(responses)

\* README.md: "Return the first missing, extra, name, or argument divergence":
\* if the two traces differ, the caller says so.
DivergenceIsReported ==
    run = "compared" /\ divergences # {} =>
        verdict = "diverged"
=============================================================================
