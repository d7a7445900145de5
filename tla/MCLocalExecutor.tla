--------------------------- MODULE MCLocalExecutor ---------------------------
(* A shell and two descendants: enough for one that leaves the session and   *)
(* one that stays in the group.                                              *)
EXTENDS LocalExecutor

CONSTANTS shell, child, grandchild

MCDescendants == {child, grandchild}
=============================================================================
