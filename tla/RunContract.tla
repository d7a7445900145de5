----------------------------- MODULE RunContract -----------------------------
(***************************************************************************)
(* What one agent run promises to its caller and to the reader of its      *)
(* trace, without saying how: the model is consulted within a budget, one  *)
(* tool call is open at a time, a call runs at most once and never in the  *)
(* finalization turn, and a run that ends in good order leaves no call     *)
(* open and hands over one result for every call it answered.  A run may   *)
(* also break off, in any state: then the open call stays unanswered, and  *)
(* the caller may miss the last answer, but no other.                      *)
(***************************************************************************)
EXTENDS Naturals

VARIABLES
    limit,     \* the turns with tools, and whether one more without may follow
    open,      \* the call being answered: "none", "asked", or "ran" (it was
               \* announced that its tool starts)
    used,      \* the turns begun
    answered,  \* the calls that have a result
    ending     \* "none" until the run ends, then how, and with how many results

contractVars == <<limit, open, used, answered, ending>>

InOrder == {"completed", "max_turns"}
BrokenOff == {"failed", "cancelled", "raised"}

Ending(status, results) == ending' = [status |-> status, results |-> results]

Unfinished == ending = [status |-> "running", results |-> 0]

CInit ==
    /\ limit \in [max_turns : Nat \ {0}, finalization_turn : BOOLEAN]
    /\ open = "none"
    /\ used = 0
    /\ answered = 0
    /\ Unfinished

Budget ==
    IF limit.finalization_turn THEN limit.max_turns + 1 ELSE limit.max_turns

Consult ==
    /\ Unfinished
    /\ open = "none"
    /\ used < Budget
    /\ used' = used + 1
    /\ UNCHANGED <<limit, open, answered, ending>>

Ask ==
    /\ Unfinished
    /\ open = "none"
    /\ used \in 1 .. limit.max_turns
    /\ open' = "asked"
    /\ UNCHANGED <<limit, used, answered, ending>>

Run ==
    /\ Unfinished
    /\ open = "asked"
    /\ open' = "ran"
    /\ UNCHANGED <<limit, used, answered, ending>>

Answer ==
    /\ Unfinished
    /\ open # "none"
    /\ open' = "none"
    /\ answered' = answered + 1
    /\ UNCHANGED <<limit, used, ending>>

Finish ==
    /\ Unfinished
    /\ open = "none"
    /\ \E status \in InOrder :
          /\ status = "max_turns" => used = Budget
          /\ Ending(status, answered)
    /\ UNCHANGED <<limit, open, used, answered>>

BreakOff ==
    /\ Unfinished
    /\ \E status \in BrokenOff, missed \in 0 .. 1 :
          missed <= answered /\ Ending(status, answered - missed)
    /\ UNCHANGED <<limit, open, used, answered>>

CNext == Consult \/ Ask \/ Run \/ Answer \/ Finish \/ BreakOff

CSpec == CInit /\ [][CNext]_contractVars
=============================================================================
