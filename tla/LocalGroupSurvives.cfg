SPECIFICATION Spec
CONSTANTS
    shell = shell
    child = child
    grandchild = grandchild
    Shell <- shell
    Descendants <- MCDescendants
\* A command that has ended, with its processes, takes no further step.
CHECK_DEADLOCK FALSE
INVARIANTS
    GroupTerminated
