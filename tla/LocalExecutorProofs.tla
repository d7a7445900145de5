------------------------- MODULE LocalExecutorProofs -------------------------
(***************************************************************************)
(* What LocalExecutor promises, for a shell and any set of descendants: a  *)
(* returned result is complete, and a command cut off while it ran leaves  *)
(* nothing of its group alive.                                             *)
(***************************************************************************)
EXTENDS LocalExecutor, TLAPS

\* What the promises rest on.  Nothing is born before the shell, which is born
\* once; an exit the event loop knows of has happened; a result that has been
\* returned finds the pipes closed, and nobody can open them again; and a dead
\* group has no parent left that could have a child in it.
StartedOnce ==
    /\ pc = "spawning" => born = {} /\ cut = "not"
    /\ pc \in {"connecting", "communicating", "waiting", "returned"} => Shell \in born
    /\ cut = "killed" => Shell \in born

ExitIsKnown == returncode => Shell \in born \ alive

ExecutorInv ==
    /\ TypeOK
    /\ StartedOnce
    /\ ExitIsKnown
    /\ ResultIsComplete
    /\ CutOffGroupIsDead

\* A call starts before its shell.
LEMMA ExecutorInit == Init => ExecutorInv
BY DEF Init, ExecutorInv, TypeOK, StartedOnce, ExitIsKnown, ResultIsComplete,
       CutOffGroupIsDead, Callers, Processes

\* A forked process has never been there before, so it is no member of a group
\* whose processes were all killed, and a dead process has no children.
LEMMA ForkStep == ExecutorInv /\ Fork => ExecutorInv'
<1> SUFFICES ASSUME ExecutorInv, Fork PROVE ExecutorInv'
    OBVIOUS
<1>1. PICK parent \in alive, child \in Processes \ born :
        /\ born' = born \cup {child}
        /\ alive' = alive \cup {child}
        /\ \/ group' = group \cup (IF parent \in group THEN {child} ELSE {})
           \/ group' = group
        /\ \/ pipe' = pipe \cup (IF parent \in pipe THEN {child} ELSE {})
           \/ pipe' = pipe
        /\ UNCHANGED <<pc, paused, returncode, cut, caller>>
    BY DEF Fork
<1> USE <1>1 DEF ExecutorInv
<1>2. TypeOK'
    BY DEF TypeOK
<1>3. StartedOnce'
    BY DEF TypeOK, StartedOnce
<1>4. ExitIsKnown'
    BY DEF ExitIsKnown
<1>5. ResultIsComplete'
    <2> SUFFICES ASSUME pc = "returned"
                 PROVE  Shell \notin alive' /\ pipe' = {} /\ returncode'
        BY DEF ResultIsComplete
    <2>1. Shell \in born /\ Shell \notin alive /\ pipe = {} /\ returncode
        BY DEF StartedOnce, ResultIsComplete
    <2> QED
        BY <2>1
<1>6. CutOffGroupIsDead'
    <2> SUFFICES ASSUME cut = "killed"
                 PROVE  alive' \cap (IF caller = "executor" THEN group' ELSE {Shell}) = {}
        BY DEF CutOffGroupIsDead
    <2>1. alive \cap (IF caller = "executor" THEN group ELSE {Shell}) = {}
        BY DEF CutOffGroupIsDead
    <2>2. CASE caller = "executor"
        <3>1. parent \notin group /\ child \notin group
            BY <2>1, <2>2 DEF TypeOK
        <3>2. group' = group
            BY <3>1
        <3> QED
            BY <2>1, <2>2, <3>1, <3>2
    <2>3. CASE caller # "executor"
        BY <2>1, <2>3 DEF StartedOnce
    <2> QED
        BY <2>2, <2>3
<1> QED
    BY <1>2, <1>3, <1>4, <1>5, <1>6

\* Every step keeps the invariant.
LEMMA ExecutorStep == ExecutorInv /\ [Next]_vars => ExecutorInv'
<1> SUFFICES ASSUME ExecutorInv, [Next]_vars PROVE ExecutorInv'
    OBVIOUS
<1> USE DEF ExecutorInv, TypeOK, StartedOnce, ExitIsKnown, ResultIsComplete,
            CutOffGroupIsDead
<1>1. CASE Spawn
    BY <1>1 DEF Spawn, Processes
<1>2. CASE SpawnFails
    BY <1>2 DEF SpawnFails
<1>3. CASE Connect
    BY <1>3 DEF Connect
<1>4. CASE Return
    BY <1>4 DEF Return, PipesClosed
<1>5. CASE Fork
    BY <1>5, ForkStep
<1>6. CASE Exit
    <2>1. PICK process \in alive :
            /\ alive' = alive \ {process}
            /\ pipe' = pipe \ {process}
            /\ UNCHANGED <<pc, born, group, paused, returncode, cut, caller>>
        BY <1>6 DEF Exit
    <2>2. TypeOK' /\ StartedOnce' /\ ExitIsKnown'
        BY <2>1
    <2>3. ResultIsComplete'
        BY <2>1
    <2>4. CutOffGroupIsDead'
        BY <2>1
    <2> QED
        BY <2>2, <2>3, <2>4
<1>7. CASE Flood
    BY <1>7 DEF Flood
<1>8. CASE Read
    BY <1>8 DEF Read
<1>9. CASE LearnExit
    BY <1>9 DEF LearnExit
<1>10. CASE CancelSpawn
    BY <1>10 DEF CancelSpawn, Kill
<1>11. CASE Cancel
    BY <1>11 DEF Cancel, TerminateProcessGroup, Kill
<1>12. CASE TimeOut
    BY <1>12 DEF TimeOut, Kill, Callers
<1>13. CASE TimeOutFails
    BY <1>13 DEF TimeOutFails, PipesClosed
<1>14. CASE Waited
    BY <1>14 DEF Waited, PipesClosed
<1>15. CASE CancelAgain
    BY <1>15 DEF CancelAgain
<1>16. CASE Abandon
    BY <1>16 DEF Abandon, Kill
<1>17. CASE UNCHANGED vars
    BY <1>17 DEF vars
<1> HIDE DEF ExecutorInv
<1> QED
    BY <1>1, <1>2, <1>3, <1>4, <1>5, <1>6, <1>7, <1>8, <1>9, <1>10, <1>11, <1>12, <1>13, <1>14, <1>15, <1>16, <1>17
    DEF Next, Code

\* The invariant holds of every call.
LEMMA ExecutorInvariant == Spec => []ExecutorInv
BY ExecutorInit, ExecutorStep, PTL DEF Spec

\* Every variable keeps the values the code gives it.
THEOREM ExecutorTypeCorrect == Spec => []TypeOK
<1>1. ExecutorInv => TypeOK
    BY DEF ExecutorInv
<1> QED
    BY ExecutorInvariant, <1>1, PTL

\* LocalCommandExecutor.run returns only when the shell has exited, the event
\* loop knows it and no process that is still running can write to the pipes.
THEOREM CompleteResult == Spec => []ResultIsComplete
<1>1. ExecutorInv => ResultIsComplete
    BY DEF ExecutorInv
<1> QED
    BY ExecutorInvariant, <1>1, PTL

\* _terminate_process_group: a call cut off before the shell's exit is known
\* leaves no process of the group alive, then or later, however many processes
\* the command forks; CommandExitCode.evaluate leaves no shell.
THEOREM GroupDead == Spec => []CutOffGroupIsDead
<1>1. ExecutorInv => CutOffGroupIsDead
    BY DEF ExecutorInv
<1> QED
    BY ExecutorInvariant, <1>1, PTL
=============================================================================
