--------------------------- MODULE DockerExecutor ---------------------------
(***************************************************************************)
(* DockerCommandExecutor.run with _cleanup_cancelled_run and               *)
(* _force_remove_container (executors.py): one command in one container,   *)
(* cut off by a deadline at any moment of the container's creation.        *)
(*                                                                         *)
(* External to src/: the Docker daemon serves the requests of the CLI      *)
(* processes in any order, at any later time or never, and may refuse      *)
(* them; a CLI that is gone sends no further request, but what it sent may *)
(* still be served; --rm removes a container that exits.  The event loop   *)
(* and its pipes are as in LocalExecutor.                                  *)
(***************************************************************************)
EXTENDS Naturals

VARIABLES
    pc,          \* where run or its cleanup is, or how it ended
    removal,     \* the _force_remove_container call in progress: 1, then 2
    cli,         \* the "docker run" process
    returncode,  \* its exit is known to the event loop
    paused,      \* unread output has paused its pipe
    remover,     \* the "docker rm --force" process
    requests,    \* what has been sent to the daemon and is not served
    container,   \* the container as the daemon knows it
    confirmed    \* history: the removals that the daemon carried out and confirmed

vars == <<pc, removal, cli, returncode, paused, remover, requests, container, confirmed>>

runVars == <<cli, returncode, paused>>

Init ==
    /\ pc = "spawning"
    /\ removal = 0
    /\ cli = "none"
    /\ returncode = FALSE
    /\ paused = FALSE
    /\ remover = "none"
    /\ requests = {}
    /\ container = "none"
    /\ confirmed = {}

\* The requests of the two "docker rm --force" processes.
Remove(n) == IF n = 1 THEN "remove first" ELSE "remove second"

Removals == {Remove(1), Remove(2)}

Cleanup == {"removing", "awaiting rm", "killing", "waiting"}

-----------------------------------------------------------------------------
(* The "docker run" process and the daemon.                                 *)

SendCreate ==
    /\ cli = "started"
    /\ cli' = "creating"
    /\ requests' = requests \cup {"create"}
    /\ UNCHANGED <<pc, removal, returncode, paused, remover, container, confirmed>>

SendStart ==
    /\ cli = "created"
    /\ cli' = "attached"
    /\ requests' = requests \cup {"start"}
    /\ UNCHANGED <<pc, removal, returncode, paused, remover, container, confirmed>>

\* The container ended or was removed, a request was refused, or the connection to
\* the daemon was lost, whatever the container does then.
CliExits ==
    /\ cli \in {"started", "creating", "created", "attached"}
    /\ cli' = "exited"
    /\ UNCHANGED <<pc, removal, returncode, paused, remover, requests, container, confirmed>>

Served(request) ==
    /\ request \in requests
    /\ requests' = requests \ {request}
    /\ UNCHANGED <<pc, removal, returncode, paused, confirmed>>

\* The CLI gets the reply it waits for, if it is still there to get it.
ServeCreate ==
    /\ Served("create")
    /\ container' = "created"
    /\ cli' = IF cli = "creating" THEN "created" ELSE cli
    /\ UNCHANGED remover

ServeStart ==
    /\ Served("start")
    /\ container' = IF container = "created" THEN "running" ELSE container
    /\ UNCHANGED <<cli, remover>>

\* There is no such image, or the container cannot be started.
Refuse ==
    /\ Served("create") \/ Served("start")
    /\ UNCHANGED <<cli, container, remover>>

Answered(n, answer) ==
    IF remover = "sent" /\ removal = n THEN answer ELSE remover

ServeRemove ==
    \E n \in 1 .. 2 :
        /\ Served(Remove(n))
        /\ container' = "none"
        /\ remover' = Answered(n, "served")
        /\ UNCHANGED cli

\* The daemon reports an error, or the remover cannot reach it.
RefuseRemove ==
    \E n \in 1 .. 2 :
        /\ Served(Remove(n))
        /\ remover' = Answered(n, "refused")
        /\ UNCHANGED <<cli, container>>

ContainerExits ==
    /\ container = "running"
    /\ container' = "none"
    /\ UNCHANGED <<pc, removal, runVars, remover, requests, confirmed>>

Flood ==
    /\ cli = "attached"
    /\ container = "running"
    /\ ~paused
    /\ paused' = TRUE
    /\ UNCHANGED <<pc, removal, cli, returncode, remover, requests, container, confirmed>>

LearnExit ==
    /\ cli \in {"exited", "killed"}
    /\ ~returncode
    /\ returncode' = TRUE
    /\ UNCHANGED <<pc, removal, cli, paused, remover, requests, container, confirmed>>

Read ==
    /\ pc = "communicating"
    /\ paused
    /\ paused' = FALSE
    /\ UNCHANGED <<pc, removal, cli, returncode, remover, requests, container, confirmed>>

-----------------------------------------------------------------------------
(* run.                                                                     *)

\* A workspace that is no directory, or a Docker CLI that cannot be run, leaves
\* nothing to clean up.
SpawnFails ==
    /\ pc = "spawning"
    /\ pc' = "failed"
    /\ UNCHANGED <<removal, runVars, remover, requests, container, confirmed>>

\* The fork has happened and create_subprocess_exec still connects the pipes.
Spawn ==
    /\ pc = "spawning"
    /\ pc' = "connecting"
    /\ cli' = "started"
    /\ UNCHANGED <<removal, returncode, paused, remover, requests, container, confirmed>>

Connect ==
    /\ pc = "connecting"
    /\ pc' = "communicating"
    /\ UNCHANGED <<removal, runVars, remover, requests, container, confirmed>>

\* A cancellation before the try block: the event loop closes the transport,
\* which kills the CLI, and nothing removes what it has asked for.
CancelSpawn ==
    /\ pc = "connecting"
    /\ pc' = "raised"
    /\ cli' = IF cli = "exited" THEN cli ELSE "killed"
    /\ UNCHANGED <<removal, returncode, paused, remover, requests, container, confirmed>>

Return ==
    /\ pc = "communicating"
    /\ returncode
    /\ ~paused
    /\ pc' = "returned"
    /\ UNCHANGED <<removal, runVars, remover, requests, container, confirmed>>

Cancel ==
    /\ pc = "communicating"
    /\ pc' = "removing"
    /\ removal' = 1
    /\ UNCHANGED <<runVars, remover, requests, container, confirmed>>

-----------------------------------------------------------------------------
(* _force_remove_container, twice, around the kill of the CLI.              *)

\* Mutant: a removal is followed by the next one without end.
AfterRemovalAgain == "killing"

AfterRemoval == IF removal = 1 THEN "killing" ELSE "raised"

SpawnRemover ==
    /\ pc = "removing"
    /\ pc' = "awaiting rm"
    /\ remover' = "started"
    /\ UNCHANGED <<removal, runVars, requests, container, confirmed>>

\* The OSError is swallowed.
RemoverSpawnFails ==
    /\ pc = "removing"
    /\ pc' = AfterRemoval
    /\ UNCHANGED <<removal, runVars, remover, requests, container, confirmed>>

SendRemove ==
    /\ remover = "started"
    /\ remover' = "sent"
    /\ requests' = requests \cup {Remove(removal)}
    /\ UNCHANGED <<pc, removal, runVars, container, confirmed>>

RemoverExits ==
    /\ pc = "awaiting rm"
    /\ remover \in {"served", "refused"}
    /\ remover' = "none"
    /\ confirmed' = IF remover = "served" THEN confirmed \cup {removal} ELSE confirmed
    /\ pc' = AfterRemoval
    /\ UNCHANGED <<removal, runVars, requests, container>>

\* Mutant: only the start of the remover has a deadline.
RemoverTimesOutAtStart ==
    /\ pc = "awaiting rm"
    /\ remover = "started"
    /\ remover' = "none"
    /\ pc' = AfterRemoval
    /\ UNCHANGED <<removal, runVars, requests, container, confirmed>>

\* wait_for gives up and the remover's group is killed; what it has sent stays.
RemoverTimesOut ==
    /\ pc = "awaiting rm"
    /\ remover # "none"
    /\ remover' = "none"
    /\ pc' = AfterRemoval
    /\ UNCHANGED <<removal, runVars, requests, container, confirmed>>

TerminateProcessGroup ==
    /\ pc = "killing"
    /\ ~returncode
    /\ cli' = IF cli = "exited" THEN cli ELSE "killed"
    /\ pc' = "waiting"
    /\ UNCHANGED <<removal, returncode, paused, remover, requests, container, confirmed>>

\* Mutant: the second removal does not wait for the CLI to be gone.
WaitedForNothing ==
    /\ pc \in {"killing", "waiting"}
    /\ pc' = "removing"
    /\ removal' = 2
    /\ UNCHANGED <<runVars, remover, requests, container, confirmed>>

\* Nothing is killed, and process.wait() returns at once, when the CLI's exit is
\* known; else the wait ends when it is known and the pipes are closed.
Waited ==
    /\ returncode
    /\ \/ pc = "killing"
       \/ pc = "waiting" /\ ~paused
    /\ pc' = "removing"
    /\ removal' = removal + 1
    /\ UNCHANGED <<runVars, remover, requests, container, confirmed>>

\* A second cancellation (Ctrl-C) skips the rest of the cleanup.
CancelAgain ==
    /\ pc \in Cleanup \ {"killing"}
    /\ pc' = "raised"
    /\ UNCHANGED <<removal, runVars, remover, requests, container, confirmed>>

Code ==
    \/ Spawn \/ Connect \/ Return \/ SpawnRemover \/ RemoverExits \/ RemoverTimesOut
    \/ TerminateProcessGroup \/ Waited

World ==
    \/ SendCreate \/ SendStart \/ CliExits \/ ServeCreate \/ ServeStart \/ Refuse
    \/ ServeRemove \/ RefuseRemove \/ ContainerExits \/ Flood \/ SendRemove \/ Read

Next ==
    \/ Code \/ World \/ LearnExit \/ Cancel
    \/ SpawnFails \/ CancelSpawn \/ RemoverSpawnFails \/ CancelAgain

Spec == Init /\ [][Next]_vars

\* The executor's steps and deadlines come; the daemon may never answer.
FairSpec == Spec /\ WF_vars(Code) /\ WF_vars(LearnExit) /\ WF_vars(Cancel)

-----------------------------------------------------------------------------
TypeOK ==
    /\ pc \in Cleanup \cup {"spawning", "connecting", "communicating", "returned", "raised", "failed"}
    /\ removal \in 0 .. 2
    /\ cli \in {"none", "started", "creating", "created", "attached", "exited", "killed"}
    /\ returncode \in BOOLEAN
    /\ paused \in BOOLEAN
    /\ remover \in {"none", "started", "sent", "served", "refused"}
    /\ requests \subseteq {"create", "start"} \cup Removals
    /\ container \in {"none", "created", "running"}
    /\ confirmed \subseteq {1, 2}

\* Once the daemon has confirmed the second removal, no container of this command
\* runs, then or ever after, in whatever order the daemon serves what the CLI had
\* asked for: a creation it comes to later is not followed by a start.
NothingRunsAfterCleanup == 2 \in confirmed => container # "running"

\* The cleanup ends although the daemon never answers, unless unread output
\* keeps the CLI's pipe open.
CleanupHangsOnlyOnOutput == []<>(pc \in Cleanup => paused)
=============================================================================
