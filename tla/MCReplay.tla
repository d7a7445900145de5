------------------------------ MODULE MCReplay ------------------------------
(* Runs of up to three turns and a finalization turn, replayed by a command  *)
(* whose default is two: recorded runs are shorter and longer than that.     *)
EXTENDS Replay

CONSTANTS read, write, raise

MCCalls == {read, write, raise}
MCRaising == {raise}
MCResponses == {<<>>, <<read>>, <<read, write>>, <<write, raise>>}
MCScripts == {<<>>, << <<read>>, <<>> >>, << <<read>>, <<read, write>>, <<>> >>}
MCConfigs == [max_turns : {1, 3}, finalization_turn : BOOLEAN]
=============================================================================
