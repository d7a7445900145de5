------------------------ MODULE DockerExecutorProofs ------------------------
(***************************************************************************)
(* What DockerExecutor promises: in whatever order the daemon serves the   *)
(* creation of the container, its start and its removals, nothing runs     *)
(* once the second removal is confirmed.                                   *)
(***************************************************************************)
EXTENDS DockerExecutor, TLAPS

CliGone == cli \in {"exited", "killed"}

\* Where run is tells which removal is in progress and whether a "docker rm"
\* process can be there.  It has left its await only when a second cancellation
\* has cut the cleanup short.
Progress ==
    /\ pc \in {"spawning", "connecting", "communicating", "returned", "failed"} => removal = 0
    /\ pc \in {"removing", "awaiting rm"} => removal # 0
    /\ pc \in {"killing", "waiting"} => removal = 1
    /\ remover # "none" => pc \in {"awaiting rm", "raised"} /\ removal # 0

\* The second removal comes when the CLI is gone, and its exit known.
CliInv ==
    /\ returncode => CliGone
    /\ removal = 2 => CliGone
    /\ pc = "spawning" => cli = "none"

\* The CLI asks for the start only once the container is created, and it creates
\* one: while its start is to be served, its creation is not.
CreationInv ==
    /\ "create" \in requests => cli \in {"creating", "exited", "killed"}
    /\ "start" \in requests => cli \in {"attached", "exited", "killed"}
    /\ ~({"create", "start"} \subseteq requests)

\* Once the second removal is served, what is left to start is gone, and what is
\* created later has nobody left to start it.
RemovalInv ==
    /\ 2 \in confirmed => removal = 2
    /\ (removal = 2 /\ remover = "served") \/ 2 \in confirmed =>
          /\ container # "running"
          /\ "start" \in requests => container = "none"

DockerInv == TypeOK /\ Progress /\ CliInv /\ CreationInv /\ RemovalInv

\* A call starts with no client, no container and no request.
LEMMA DockerInit == Init => DockerInv
<1> SUFFICES ASSUME Init PROVE DockerInv
    OBVIOUS
<1> USE DEF Init
<1>1. TypeOK
    <2>1. removal \in 0 .. 2 /\ confirmed \subseteq {1, 2}
        OBVIOUS
    <2>2. requests \subseteq {"create", "start"} \cup Removals
        OBVIOUS
    <2> QED
        BY <2>1, <2>2 DEF TypeOK, Cleanup
<1>2. Progress /\ CliInv
    BY DEF Progress, CliInv, CliGone
<1>3. CreationInv /\ RemovalInv
    BY DEF CreationInv, RemovalInv
<1> QED
    BY <1>1, <1>2, <1>3 DEF DockerInv

\* What the executor and its processes do keeps the invariant.
LEMMA CodeStep ==
    ASSUME DockerInv
    PROVE  \/ ContainerExits \/ Flood \/ LearnExit \/ Read
           \/ SpawnFails \/ Spawn \/ Connect \/ CancelSpawn \/ Return \/ Cancel
           \/ SpawnRemover \/ RemoverSpawnFails \/ RemoverExits \/ RemoverTimesOut
           \/ TerminateProcessGroup \/ Waited \/ CancelAgain \/ UNCHANGED vars
           => DockerInv'
<1>1. TypeOK /\ Progress /\ CliInv /\ CreationInv /\ RemovalInv
    BY DEF DockerInv
<1>2. ASSUME Waited PROVE DockerInv'
    <2>1. returncode /\ pc \in {"killing", "waiting"} /\ pc' = "removing"
          /\ UNCHANGED <<runVars, remover, requests, container, confirmed>>
        BY <1>2 DEF Waited
    <2>2. removal = 1 /\ remover = "none"
        BY <1>1, <2>1 DEF Progress
    <2>3. removal' = 2
        BY <1>2, <2>2 DEF Waited
    <2>4. removal' \in 0 .. 2 /\ removal' # 0
        BY <2>3
    <2>5. TypeOK'
        BY <1>1, <2>1, <2>4 DEF TypeOK, Cleanup, runVars
    <2>6. Progress'
        BY <2>1, <2>2, <2>4 DEF Progress
    <2>7. CliInv' /\ CreationInv'
        BY <1>1, <2>1 DEF CliInv, CliGone, CreationInv, runVars
    <2>8. RemovalInv'
        BY <1>1, <2>1, <2>2, <2>3 DEF RemovalInv
    <2> QED
        BY <2>5, <2>6, <2>7, <2>8 DEF DockerInv
<1>3. ASSUME RemoverExits PROVE DockerInv'
    <2>1. removal \in {0, 1, 2}
        BY <1>1 DEF TypeOK
    <2>2. removal \in {1, 2}
        BY <1>1, <1>3, <2>1 DEF RemoverExits, Progress
    <2>3. confirmed' \subseteq {1, 2}
        BY <1>1, <1>3, <2>2 DEF RemoverExits, TypeOK
    <2>4. TypeOK' /\ Progress' /\ CliInv'
        BY <1>1, <1>3, <2>2, <2>3
        DEF TypeOK, Progress, CliInv, CliGone, Cleanup, RemoverExits, AfterRemoval, runVars
    <2>5. CreationInv'
        BY <1>1, <1>3 DEF CreationInv, RemoverExits, runVars
    <2>6. 2 \in confirmed' => 2 \in confirmed \/ (removal = 2 /\ remover = "served")
        BY <1>3, <2>2 DEF RemoverExits
    <2>7. RemovalInv'
        BY <1>1, <1>3, <2>6 DEF RemovalInv, RemoverExits, runVars
    <2> QED
        BY <2>4, <2>5, <2>7 DEF DockerInv
<1>4. ASSUME UNCHANGED vars PROVE DockerInv'
    <2>1. TypeOK' /\ Progress' /\ CliInv'
        BY <1>1, <1>4 DEF TypeOK, Progress, CliInv, CliGone, vars
    <2>2. CreationInv' /\ RemovalInv'
        BY <1>1, <1>4 DEF CreationInv, RemovalInv, vars
    <2> QED
        BY <2>1, <2>2 DEF DockerInv
<1> USE <1>1 DEF DockerInv, TypeOK, Progress, CliInv, CreationInv, RemovalInv, Cleanup,
                 CliGone, runVars
<1>5. ASSUME ContainerExits PROVE DockerInv'
    BY <1>5 DEF ContainerExits
<1>6. ASSUME Flood PROVE DockerInv'
    BY <1>6 DEF Flood
<1>7. ASSUME LearnExit PROVE DockerInv'
    BY <1>7 DEF LearnExit
<1>8. ASSUME Read PROVE DockerInv'
    BY <1>8 DEF Read
<1>9. ASSUME SpawnFails PROVE DockerInv'
    BY <1>9 DEF SpawnFails
<1>10. ASSUME Spawn PROVE DockerInv'
    BY <1>10 DEF Spawn
<1>11. ASSUME Connect PROVE DockerInv'
    BY <1>11 DEF Connect
<1>12. ASSUME CancelSpawn PROVE DockerInv'
    BY <1>12 DEF CancelSpawn
<1>13. ASSUME Return PROVE DockerInv'
    BY <1>13 DEF Return
<1>14. ASSUME Cancel PROVE DockerInv'
    BY <1>14 DEF Cancel
<1>15. ASSUME SpawnRemover PROVE DockerInv'
    BY <1>15 DEF SpawnRemover
<1>16. ASSUME RemoverSpawnFails PROVE DockerInv'
    BY <1>16 DEF RemoverSpawnFails, AfterRemoval
<1>17. ASSUME RemoverTimesOut PROVE DockerInv'
    BY <1>17 DEF RemoverTimesOut, AfterRemoval
<1>18. ASSUME TerminateProcessGroup PROVE DockerInv'
    BY <1>18 DEF TerminateProcessGroup
<1>19. ASSUME CancelAgain PROVE DockerInv'
    BY <1>19 DEF CancelAgain
<1> QED
    BY <1>2, <1>3, <1>4, <1>5, <1>6, <1>7, <1>8, <1>9, <1>10, <1>11, <1>12, <1>13,
       <1>14, <1>15, <1>16, <1>17, <1>18, <1>19

\* A living CLI asks for one creation and then for one start, and none does once
\* the second removal is under way.
LEMMA SendStep ==
    ASSUME DockerInv
    PROVE  SendCreate \/ SendStart \/ SendRemove \/ CliExits => DockerInv'
<1>0. removal \in {0, 1, 2} /\ (remover # "none" => removal # 0)
    <2>1. removal \in {0, 1, 2}
        BY DEF DockerInv, TypeOK
    <2>2. remover # "none" => removal # 0
        BY DEF DockerInv, Progress
    <2> QED
        BY <2>1, <2>2
<1> USE DEF DockerInv, TypeOK, Progress, CliInv, CliGone, CreationInv, RemovalInv, Cleanup,
            runVars
<1>1. ASSUME SendCreate PROVE DockerInv'
    BY <1>1 DEF SendCreate
<1>2. ASSUME SendStart PROVE DockerInv'
    BY <1>2 DEF SendStart
<1>3. ASSUME SendRemove PROVE DockerInv'
    <2>1. removal \in {1, 2}
        BY <1>0, <1>3 DEF SendRemove
    <2>2. Remove(removal) \in Removals /\ Remove(removal) \notin {"create", "start"}
        BY <2>1 DEF Removals, Remove
    <2> QED
        BY <1>3, <2>2 DEF SendRemove
<1>4. ASSUME CliExits PROVE DockerInv'
    BY <1>4 DEF CliExits
<1> QED
    BY <1>1, <1>2, <1>3, <1>4

\* Whatever the daemon serves next, it starts nothing once it has served the second
\* removal.
LEMMA ServeStep ==
    ASSUME DockerInv
    PROVE  ServeCreate \/ ServeStart \/ Refuse \/ ServeRemove \/ RefuseRemove => DockerInv'
<1>0. TypeOK /\ Progress /\ CliInv /\ CreationInv /\ RemovalInv
    BY DEF DockerInv
<1> USE DEF Served
<1>1. ASSUME ServeCreate PROVE DockerInv'
    BY <1>0, <1>1 DEF ServeCreate, DockerInv, TypeOK, Progress, CliInv, CliGone, CreationInv,
        RemovalInv, Cleanup
<1>2. ASSUME ServeStart PROVE DockerInv'
    BY <1>0, <1>2 DEF ServeStart, DockerInv, TypeOK, Progress, CliInv, CliGone, CreationInv,
        RemovalInv, Cleanup
<1>3. ASSUME Refuse PROVE DockerInv'
    <2>1. /\ requests' \subseteq requests
          /\ UNCHANGED <<pc, removal, returncode, paused, confirmed, cli, container, remover>>
        BY <1>3 DEF Refuse
    <2>2. TypeOK' /\ Progress'
        BY <1>0, <2>1 DEF TypeOK, Progress
    <2>3. CliInv' /\ CreationInv' /\ RemovalInv'
        BY <1>0, <2>1 DEF CliInv, CliGone, CreationInv, RemovalInv
    <2> QED
        BY <2>2, <2>3 DEF DockerInv
<1>4. ASSUME NEW answer \in {"served", "refused"}, NEW n \in 1 .. 2
      PROVE  /\ Answered(n, answer) \in {remover, "served", "refused"}
             /\ Answered(n, answer) # "none" => remover # "none"
             /\ Answered(n, answer) = "served" => remover = "served" \/ answer = "served"
    BY <1>4 DEF Answered
<1>5. ASSUME ServeRemove PROVE DockerInv'
    <2>1. PICK n \in 1 .. 2 :
            /\ requests' \subseteq requests
            /\ container' = "none"
            /\ remover' = Answered(n, "served")
            /\ UNCHANGED <<pc, removal, returncode, paused, confirmed, cli>>
        BY <1>5 DEF ServeRemove
    <2>2. TypeOK' /\ Progress'
        BY <1>0, <1>4, <2>1 DEF TypeOK, Progress
    <2>3. CliInv' /\ CreationInv' /\ RemovalInv'
        BY <1>0, <1>4, <2>1 DEF CliInv, CliGone, CreationInv, RemovalInv
    <2> QED
        BY <2>2, <2>3 DEF DockerInv
<1>6. ASSUME RefuseRemove PROVE DockerInv'
    <2>1. PICK n \in 1 .. 2 :
            /\ requests' \subseteq requests
            /\ remover' = Answered(n, "refused")
            /\ UNCHANGED <<pc, removal, returncode, paused, confirmed, cli, container>>
        BY <1>6 DEF RefuseRemove
    <2>2. TypeOK' /\ Progress'
        BY <1>0, <1>4, <2>1 DEF TypeOK, Progress
    <2>3. CliInv' /\ CreationInv' /\ RemovalInv'
        BY <1>0, <1>4, <2>1 DEF CliInv, CliGone, CreationInv, RemovalInv
    <2> QED
        BY <2>2, <2>3 DEF DockerInv
<1> QED
    BY <1>1, <1>2, <1>3, <1>5, <1>6

\* Every step keeps the invariant.
LEMMA DockerStep == DockerInv /\ [Next]_vars => DockerInv'
BY CodeStep, SendStep, ServeStep DEF Next, Code, World

\* The invariant holds of every run of the executor.
LEMMA DockerInvariant == Spec => []DockerInv
BY DockerInit, DockerStep, PTL DEF Spec

\* Every variable keeps the values the code gives it.
THEOREM DockerTypeCorrect == Spec => []TypeOK
<1>1. DockerInv => TypeOK
    BY DEF DockerInv
<1> QED
    BY DockerInvariant, <1>1, PTL

\* DockerCommandExecutor: once a second "docker rm --force" has been carried out, no
\* container of the command runs, wherever in the creation the deadline came and in
\* whatever order the daemon serves what was asked of it.
THEOREM NothingRuns == Spec => []NothingRunsAfterCleanup
<1>1. DockerInv => NothingRunsAfterCleanup
    BY DEF DockerInv, RemovalInv, NothingRunsAfterCleanup
<1> QED
    BY DockerInvariant, <1>1, PTL
=============================================================================
