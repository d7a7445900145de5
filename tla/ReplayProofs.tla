----------------------------- MODULE ReplayProofs -----------------------------
(***************************************************************************)
(* Proofs about Replay for every set of responses, every script and every  *)
(* configuration: a replay follows its recording call by call, so that the *)
(* verdict is what the recorded run deserves.                              *)
(***************************************************************************)
EXTENDS Replay, TLAPS, WellFoundedInduction

-----------------------------------------------------------------------------
(* Types.                                                                   *)

Decisions == [turn : Nat, call : Calls]

\* Where a response has calls, the first of them is one of its calls.
LEMMA FirstCall ==
    ASSUME NEW S, NEW s \in Seq(S), s # <<>>
    PROVE  Len(s) \in Nat \ {0} /\ DOMAIN s = 1 .. Len(s) /\ 1 \in DOMAIN s
OBVIOUS

\* A response of the model or of a script is a sequence of calls.
LEMMA ResponseType == Responses \subseteq Seq(Calls)
BY CallsAssumption

\* A received response leaves the run at its first call, or at its end.
LEMMA ReceiveType ==
    ASSUME NEW received \in Responses, Receive(received), status \in Statuses
    PROVE  /\ response' \in Seq(Calls)
           /\ pc' \in {"call", "ended"}
           /\ pc' = "call" => position' \in DOMAIN response'
           /\ status' \in Statuses
<1>1. received \in Seq(Calls)
    BY ResponseType
<1>2. received # <<>> => 1 \in DOMAIN received
    BY <1>1, FirstCall
<1> QED
    BY <1>1, <1>2 DEF Receive, Stop, Statuses

\* Nothing is replayed while the first run is recorded.
NothingReplayed ==
    run = "recorded" => consumed = 0 /\ decided.replayed = <<>> /\ ~scripted

\* A run starts well typed.
LEMMA TypeInit == Init => TypeOK
<1> SUFFICES ASSUME Init PROVE TypeOK
    OBVIOUS
<1>1. /\ <<>> \in Seq(Calls) /\ <<>> \in Seq(Responses) /\ <<>> \in Seq(Decisions)
      /\ Len(<<>>) = 0
    OBVIOUS
<1>2. decided \in [{"recorded", "replayed"} -> Seq(Decisions)]
    BY <1>1 DEF Init
<1>3. ended \in [status : Statuses, turns : Nat]
    BY DEF Init, Statuses
<1>4. consumed \in 0 .. Len(script)
    BY <1>1 DEF Init
<1> QED
    BY <1>1, <1>2, <1>3, <1>4 DEF Init, TypeOK, Statuses, Decisions

\* Every step keeps every type.
LEMMA TypeStep == TypeOK /\ NothingReplayed /\ [Next]_vars => TypeOK'
<1> SUFFICES ASSUME TypeOK, NothingReplayed, [Next]_vars PROVE TypeOK'
    OBVIOUS
<1> USE DEF scriptVars
<1>1. CASE BeginTurn
    BY <1>1 DEF BeginTurn, TypeOK
<1>2. CASE ExhaustTurns
    BY <1>2 DEF ExhaustTurns, Stop, TypeOK, Statuses
<1>3. CASE ModelResponds
    <2>1. PICK received \in Responses :
              Receive(received) /\ responses' = Append(responses, received)
        BY <1>3 DEF ModelResponds
    <2>2. responses' \in Seq(Responses)
        BY <2>1 DEF TypeOK
    <2> QED
        BY <1>3, <2>1, <2>2, ReceiveType DEF ModelResponds, TypeOK
<1>4. CASE ReplayResponds
    <2>1. /\ consumed' = consumed + 1 /\ consumed' \in DOMAIN script
          /\ Receive(script[consumed'])
        BY <1>4 DEF ReplayResponds, Exhausted, TypeOK
    <2>2. script[consumed'] \in Responses
        BY <2>1 DEF TypeOK
    <2>3. consumed' \in 0 .. Len(script')
        BY <1>4, <2>1 DEF ReplayResponds, TypeOK
    <2> QED
        BY <1>4, <2>1, <2>2, <2>3, ReceiveType DEF ReplayResponds, TypeOK
<1>5. CASE ReplayFails \/ EvaluationFails \/ BreakOff
    BY <1>5 DEF ReplayFails, EvaluationFails, BreakOff, Stop, TypeOK, Statuses
<1>6. CASE Decide
    <2>1. response[position] \in Calls /\ position \in 1 .. Len(response)
        BY <1>6 DEF Decide, TypeOK
    <2>2. pc' = "call" => position' \in DOMAIN response'
        BY <1>6, <2>1 DEF Decide, TypeOK
    <2>3. decided' \in [{"recorded", "replayed"} -> Seq(Decisions)]
        <3> DEFINE decision == [turn |-> turns, call |-> response[position]]
        <3>1. decision \in Decisions
            BY <2>1 DEF Decisions, TypeOK
        <3>2. decided' = [decided EXCEPT ![run] = Append(@, decision)]
            BY <1>6 DEF Decide
        <3>3. decided \in [{"recorded", "replayed"} -> Seq(Decisions)]
            BY DEF TypeOK, Decisions
        <3> HIDE DEF decision
        <3>4. run \in {"recorded", "replayed"} => Append(decided[run], decision) \in Seq(Decisions)
            BY <3>1, <3>3
        <3> QED
            BY <3>2, <3>3, <3>4
    <2> QED
        BY <1>6, <2>2, <2>3 DEF Decide, TypeOK, Decisions
<1>7. CASE StartReplay
    <2>1. script' \in Seq(Responses)
        BY <1>7, CallsAssumption DEF StartReplay, TypeOK
    <2>2. response' \in Seq(Calls) /\ consumed' \in 0 .. Len(script')
        <3>1. <<>> \in Seq(Calls)
            OBVIOUS
        <3> QED
            BY <1>7, <2>1, <3>1 DEF StartReplay, NothingReplayed
    <2>3. ended' \in [status : Statuses, turns : Nat]
        BY <1>7 DEF StartReplay, TypeOK
    <2>4. scripted' \in BOOLEAN /\ (scripted' => caller' = "eval")
        BY <1>7 DEF StartReplay, TypeOK
    <2> QED
        BY <1>7, <2>1, <2>2, <2>3, <2>4 DEF StartReplay, TypeOK, Statuses
<1>8. CASE Conclude
    BY <1>8 DEF Conclude, TypeOK
<1>9. CASE UNCHANGED vars
    BY <1>9 DEF vars, TypeOK
<1> QED
    BY <1>1, <1>2, <1>3, <1>4, <1>5, <1>6, <1>7, <1>8, <1>9 DEF Next

\* The first run starts, and goes on, without a replay.
LEMMA NothingInit == Init => NothingReplayed
BY DEF Init, NothingReplayed

\* While the first run goes on nothing is replayed.
LEMMA NothingStep == TypeOK /\ NothingReplayed /\ [Next]_vars => NothingReplayed'
<1> SUFFICES ASSUME TypeOK, NothingReplayed, [Next]_vars, run' = "recorded"
             PROVE  consumed' = 0 /\ decided'.replayed = <<>> /\ ~scripted'
    BY DEF NothingReplayed
<1> USE DEF scriptVars
<1>1. CASE Decide
    <2>1. run = "recorded" /\ consumed' = consumed /\ scripted' = scripted
        BY <1>1 DEF Decide
    <2>2. decided'.replayed = decided.replayed
        BY <1>1, <2>1 DEF Decide, TypeOK
    <2> QED
        BY <2>1, <2>2 DEF NothingReplayed
<1>2. CASE \/ BeginTurn \/ ExhaustTurns \/ ModelResponds \/ ReplayResponds \/ ReplayFails
           \/ EvaluationFails \/ BreakOff \/ StartReplay \/ Conclude \/ UNCHANGED vars
    BY <1>2 DEF BeginTurn, ExhaustTurns, ModelResponds, ReplayResponds, ReplayFails,
        EvaluationFails, BreakOff, StartReplay, Conclude, vars, NothingReplayed
<1> QED
    BY <1>1, <1>2 DEF Next

\* For every set of responses, scripts and configurations, every variable keeps
\* its type, and a run that is in a call is at a call of its response.
THEOREM ReplayTypeCorrect == Spec => []TypeOK
BY TypeInit, TypeStep, NothingInit, NothingStep, PTL DEF Spec

-----------------------------------------------------------------------------
(* Places.  A run has come to a place in the recorded responses: a turn and  *)
(* how many of its calls have been decided on.  The decisions of the turns   *)
(* lie one after the other in a trace, those of a turn from its offset on.   *)

heard == Len(responses)

CallsIn(t) == IF t <= heard THEN Len(responses[t]) ELSE 0

IsOffset(offset) ==
    /\ offset[1] = 0
    /\ \A t \in 1 .. heard : offset[t + 1] = offset[t] + CallsIn(t)

Decision(t, k) == [turn |-> t, call |-> responses[t][k]]

\* A trace holds the decisions before a place and no other.
HoldsUpTo(events, offset, t, p) ==
    /\ Len(events) = offset[t] + p
    /\ \A s \in 1 .. (t - 1) : \A k \in 1 .. CallsIn(s) :
          offset[s] + k \in 1 .. Len(events) /\ events[offset[s] + k] = Decision(s, k)
    /\ \A k \in 1 .. p : events[offset[t] + k] = Decision(t, k)

\* What was passed on the way to a place: only turns with calls, and no call that
\* cannot be evaluated.
Passed(t, p) ==
    /\ \A s \in 1 .. (t - 1) :
          responses[s] # <<>> /\ \A k \in 1 .. CallsIn(s) : responses[s][k] \notin Raising
    /\ \A k \in 1 .. p : responses[t][k] \notin Raising

MostTurns(limits) == limits.max_turns + (IF limits.finalization_turn THEN 1 ELSE 0)

\* A run that goes on is at a place.
GoesOnAt(limits, t, p) ==
    /\ pc = "loop" => turns + 1 = t /\ p = 0 /\ turns <= limits.max_turns
    /\ pc = "model" => turns = t /\ p = 0 /\ turns <= MostTurns(limits)
    /\ pc = "call" => /\ turns = t /\ p + 1 = position /\ turns <= limits.max_turns
                      /\ t <= heard /\ response = responses[t]

\* The places where a run with these limits ends with this status in this turn.
EndsAt(limits, as, in, t, p) ==
    \/ as = "completed" /\ t = in /\ p = 0 /\ t <= heard /\ responses[t] = <<>>
    \/ /\ as = "max_turns" /\ t = in + 1 /\ p = 0
       /\ in = limits.max_turns /\ ~limits.finalization_turn
    \/ /\ as = "max_turns" /\ t = in /\ p = 0 /\ t <= heard /\ responses[t] # <<>>
       /\ in = limits.max_turns + 1
    \/ as = "failed" /\ t = heard + 1 /\ p = 0 /\ t <= limits.max_turns + 1
    \/ /\ as = "failed" /\ t = in /\ p < CallsIn(t) /\ t <= heard
       /\ in <= limits.max_turns

\* The recorded run is, or has ended, at the end of its responses.
RecordedPlace(t, p) ==
    /\ t \in {heard, heard + 1}
    /\ heard <= MostTurns(config)
    /\ Passed(t, p)
    /\ run = "recorded" /\ pc # "ended" => GoesOnAt(config, t, p)
    /\ run = "recorded" /\ pc \in {"loop", "model"} => t = heard + 1
    /\ run = "recorded" /\ pc = "ended" => EndsAt(config, status, turns, t, p)
    /\ run # "recorded" => EndsAt(config, ended.status, ended.turns, t, p)

\* A replay of the recorded responses fails only where they end or where a call
\* cannot be evaluated.
ReplayPlace(t, p) ==
    /\ Passed(t, p)
    /\ pc # "ended" => /\ GoesOnAt(Limits, t, p)
                       /\ consumed = (IF pc = "model" THEN turns - 1 ELSE turns)
    /\ pc = "ended" => EndsAt(Limits, status, turns, t, p)
    /\ pc = "ended" /\ status = "failed" /\ t <= heard => responses[t][p + 1] \in Raising
    /\ pc = "ended" /\ status = "completed" => consumed = turns

Agree ==
    \A i \in DOMAIN decided.recorded \cap DOMAIN decided.replayed :
        decided.recorded[i] = decided.replayed[i]

RecordedMirrored(offset) ==
    \E t \in 1 .. (heard + 1) : \E p \in 0 .. CallsIn(t) :
        RecordedPlace(t, p) /\ HoldsUpTo(decided.recorded, offset, t, p)

ReplayMirrored(offset) ==
    \E t \in 1 .. (heard + 1) : \E p \in 0 .. CallsIn(t) :
        ReplayPlace(t, p) /\ HoldsUpTo(decided.replayed, offset, t, p)

Replaying == run # "recorded" /\ ~scripted

\* The replay follows the recording.
MirrorInv ==
    /\ \E offset \in [1 .. (heard + 1) -> Nat] :
          /\ IsOffset(offset)
          /\ RecordedMirrored(offset)
          /\ Replaying => ReplayMirrored(offset)
    /\ Replaying => script = responses /\ Agree

VerdictInv ==
    /\ run # "compared" => verdict = "none"
    /\ run = "compared" =>
          /\ pc = "ended"
          /\ verdict = IF caller = "cli" /\ status # "completed" THEN "none"
                       ELSE IF divergences = {} THEN "match" ELSE "diverged"

-----------------------------------------------------------------------------
(* Going from place to place.                                               *)

\* Responses, their calls and the decisions on them are counted by numbers.
LEMMA Counts ==
    ASSUME TypeOK
    PROVE  /\ heard \in Nat /\ DOMAIN responses = 1 .. heard
           /\ \A t \in 1 .. heard :
                 /\ responses[t] \in Seq(Calls) /\ CallsIn(t) = Len(responses[t])
                 /\ DOMAIN responses[t] = 1 .. CallsIn(t)
           /\ \A t \in Nat \ {0} : CallsIn(t) \in Nat
           /\ decided.recorded \in Seq(Decisions) /\ decided.replayed \in Seq(Decisions)
<1>1. responses \in Seq(Responses)
    BY DEF TypeOK
<1>2. heard \in Nat /\ DOMAIN responses = 1 .. heard
    BY <1>1 DEF heard
<1>3. ASSUME NEW t \in 1 .. heard
      PROVE  /\ responses[t] \in Seq(Calls) /\ CallsIn(t) = Len(responses[t])
             /\ DOMAIN responses[t] = 1 .. CallsIn(t) /\ CallsIn(t) \in Nat
    <2>1. responses[t] \in Seq(Calls)
        BY <1>1, <1>2, ResponseType
    <2>2. CallsIn(t) = Len(responses[t])
        BY <1>2 DEF CallsIn
    <2> QED
        BY <2>1, <2>2
<1>4. \A t \in Nat : t = 0 \/ t \in 1 .. heard \/ ~(t <= heard)
    BY <1>2
<1>5. \A t \in Nat \ {0} : CallsIn(t) \in Nat
    BY <1>3, <1>4 DEF CallsIn
<1>6. decided.recorded \in Seq(Decisions) /\ decided.replayed \in Seq(Decisions)
    BY DEF TypeOK, Decisions
<1> QED
    BY <1>2, <1>3, <1>5, <1>6

\* Limits are numbers of turns.
LEMMA LimitTypes ==
    ASSUME TypeOK
    PROVE  /\ config.max_turns \in Nat \ {0} /\ config.finalization_turn \in BOOLEAN
           /\ MostTurns(config) \in {config.max_turns, config.max_turns + 1}
           /\ Limits.max_turns \in Nat \ {0} /\ Limits.finalization_turn \in BOOLEAN
           /\ MostTurns(Limits) \in {Limits.max_turns, Limits.max_turns + 1}
<1>1. config.max_turns \in Nat \ {0} /\ config.finalization_turn \in BOOLEAN
    BY ConfigsAssumption DEF TypeOK
<1>2. Limits.max_turns \in Nat \ {0} /\ Limits.finalization_turn \in BOOLEAN
    BY <1>1, ConfigsAssumption DEF Limits, Default
<1>3. \A limits : limits.max_turns \in Nat =>
          MostTurns(limits) \in {limits.max_turns, limits.max_turns + 1}
    BY DEF MostTurns
<1> QED
    BY <1>1, <1>2, <1>3

\* A decision on the next call of a turn is put after those there are.
LEMMA DecisionHeld ==
    ASSUME TypeOK, NEW offset \in [1 .. (heard + 1) -> Nat], NEW events \in Seq(Decisions),
           NEW t \in 1 .. heard, NEW p \in Nat, p < CallsIn(t),
           HoldsUpTo(events, offset, t, p), NEW event \in Decisions, event = Decision(t, p + 1)
    PROVE  HoldsUpTo(Append(events, event), offset, t, p + 1)
<1> DEFINE longer == Append(events, event)
<1>1. /\ Len(longer) = Len(events) + 1 /\ longer[Len(events) + 1] = event
      /\ \A i \in 1 .. Len(events) : longer[i] = events[i]
      /\ Len(events) \in Nat
    OBVIOUS
<1> HIDE DEF longer
<1>2. heard \in Nat /\ offset[t] \in Nat /\ Len(events) = offset[t] + p
    <2>1. heard \in Nat
        BY Counts
    <2>2. t \in 1 .. (heard + 1)
        BY <2>1
    <2> QED
        BY <2>1, <2>2 DEF HoldsUpTo
<1>3. Len(longer) = offset[t] + (p + 1)
    BY <1>1, <1>2
<1>4. ASSUME NEW s \in 1 .. (t - 1), NEW k \in 1 .. CallsIn(s)
      PROVE  offset[s] + k \in 1 .. Len(longer) /\ longer[offset[s] + k] = Decision(s, k)
    <2>1. offset[s] + k \in 1 .. Len(events) /\ events[offset[s] + k] = Decision(s, k)
        BY DEF HoldsUpTo
    <2>2. 1 .. Len(events) \subseteq 1 .. Len(longer)
        BY <1>1
    <2> QED
        BY <1>1, <2>1, <2>2
<1>5. ASSUME NEW k \in 1 .. (p + 1)
      PROVE  longer[offset[t] + k] = Decision(t, k)
    <2>1. CASE k = p + 1
        BY <1>1, <1>2, <2>1
    <2>2. CASE k # p + 1
        <3>1. k \in 1 .. p /\ offset[t] + k \in 1 .. Len(events)
            BY <1>2, <2>2
        <3>2. events[offset[t] + k] = Decision(t, k)
            BY <3>1 DEF HoldsUpTo
        <3> QED
            BY <1>1, <3>1, <3>2
    <2> QED
        BY <2>1, <2>2
<1>6. HoldsUpTo(longer, offset, t, p + 1)
    BY <1>3, <1>4, <1>5 DEF HoldsUpTo
<1> QED
    BY <1>6 DEF longer

\* The end of a turn is the beginning of the next.
LEMMA TurnHeld ==
    ASSUME TypeOK, NEW offset \in [1 .. (heard + 1) -> Nat], IsOffset(offset),
           NEW events \in Seq(Decisions), NEW t \in 1 .. heard,
           HoldsUpTo(events, offset, t, CallsIn(t))
    PROVE  HoldsUpTo(events, offset, t + 1, 0)
<1>1. /\ heard \in Nat /\ offset[t] \in Nat /\ CallsIn(t) \in Nat
      /\ Len(events) = offset[t] + CallsIn(t) /\ offset[t + 1] = offset[t] + CallsIn(t)
    <2>1. heard \in Nat /\ CallsIn(t) \in Nat
        BY Counts
    <2>2. t \in 1 .. (heard + 1)
        BY <2>1
    <2> QED
        BY <2>1, <2>2 DEF HoldsUpTo, IsOffset
<1>2. ASSUME NEW s \in 1 .. (t + 1 - 1), NEW k \in 1 .. CallsIn(s)
      PROVE  offset[s] + k \in 1 .. Len(events) /\ events[offset[s] + k] = Decision(s, k)
    <2>1. CASE s = t
        <3>1. offset[t] + k \in 1 .. Len(events)
            BY <1>1, <2>1
        <3> QED
            BY <2>1, <3>1 DEF HoldsUpTo
    <2>2. CASE s # t
        <3>1. s \in 1 .. (t - 1)
            BY <2>2
        <3> QED
            BY <3>1 DEF HoldsUpTo
    <2> QED
        BY <2>1, <2>2
<1>3. Len(events) = offset[t + 1] + 0 /\ 1 .. 0 = {}
    BY <1>1
<1> QED
    BY <1>2, <1>3 DEF HoldsUpTo

\* A call that can be evaluated is passed.
LEMMA CallPassed ==
    ASSUME NEW t \in Nat, NEW p \in Nat, Passed(t, p), responses[t][p + 1] \notin Raising
    PROVE  Passed(t, p + 1)
<1>1. \A k \in 1 .. (p + 1) : k \in 1 .. p \/ k = p + 1
    OBVIOUS
<1> QED
    BY <1>1 DEF Passed

\* A turn all of whose calls were passed is passed.
LEMMA TurnPassed ==
    ASSUME NEW t \in Nat, Passed(t, CallsIn(t)), responses[t] # <<>>
    PROVE  Passed(t + 1, 0)
<1>1. \A s \in 1 .. (t + 1 - 1) : s \in 1 .. (t - 1) \/ s = t
    OBVIOUS
<1>2. 1 .. 0 = {}
    OBVIOUS
<1> QED
    BY <1>1, <1>2 DEF Passed

\* A decision leads to the next place, at the end of a turn to the next turn's.
LEMMA NextPlace ==
    ASSUME TypeOK, NEW offset \in [1 .. (heard + 1) -> Nat], IsOffset(offset),
           NEW events \in Seq(Decisions), NEW t \in 1 .. heard, NEW p \in Nat, p < CallsIn(t),
           HoldsUpTo(events, offset, t, p), Passed(t, p),
           responses[t][p + 1] \notin Raising
    PROVE  /\ Append(events, Decision(t, p + 1)) \in Seq(Decisions)
           /\ HoldsUpTo(Append(events, Decision(t, p + 1)), offset, t, p + 1)
           /\ Passed(t, p + 1)
           /\ p + 1 = CallsIn(t) =>
                 /\ HoldsUpTo(Append(events, Decision(t, p + 1)), offset, t + 1, 0)
                 /\ Passed(t + 1, 0)
<1>1. /\ heard \in Nat /\ CallsIn(t) \in Nat /\ responses[t] \in Seq(Calls)
      /\ DOMAIN responses[t] = 1 .. CallsIn(t)
    BY Counts
<1>2. t \in Nat /\ p + 1 \in 1 .. CallsIn(t)
    BY <1>1
<1>3. responses[t][p + 1] \in Calls
    BY <1>1, <1>2
<1>4. Decision(t, p + 1) \in Decisions
    BY <1>2, <1>3 DEF Decision, Decisions
<1>5. PICK longer : longer = Append(events, Decision(t, p + 1))
    OBVIOUS
<1>6. longer \in Seq(Decisions)
    BY <1>4, <1>5
<1>7. HoldsUpTo(longer, offset, t, p + 1)
    BY <1>4, <1>5, DecisionHeld
<1>8. Passed(t, p + 1)
    BY <1>2, CallPassed
<1>9. ASSUME p + 1 = CallsIn(t)
      PROVE  HoldsUpTo(longer, offset, t + 1, 0) /\ Passed(t + 1, 0)
    <2>1. responses[t] # <<>>
        <3>1. CallsIn(t) # 0
            BY <1>2
        <3> QED
            BY <3>1, Counts
    <2>2. HoldsUpTo(longer, offset, t, CallsIn(t)) /\ Passed(t, CallsIn(t))
        BY <1>7, <1>8, <1>9
    <2>3. HoldsUpTo(longer, offset, t + 1, 0)
        BY <1>6, <2>2, TurnHeld
    <2> QED
        BY <1>2, <2>1, <2>2, <2>3, TurnPassed
<1> QED
    BY <1>5, <1>6, <1>7, <1>8, <1>9

\* Places are places of the responses.
LEMMA SamePlaces ==
    ASSUME responses' = responses
    PROVE  /\ heard' = heard
           /\ \A offset : IsOffset(offset)' <=> IsOffset(offset)
           /\ \A t : CallsIn(t)' = CallsIn(t)
           /\ \A t, p : Passed(t, p)' <=> Passed(t, p)
           /\ \A limits, as, in, t, p :
                 EndsAt(limits, as, in, t, p)' <=> EndsAt(limits, as, in, t, p)
BY DEF heard, IsOffset, CallsIn, Passed, EndsAt

\* A recorded trace that does not change holds what it held.
LEMMA RecordedHeld ==
    ASSUME responses' = responses, NEW offset, NEW t, NEW p, NEW events,
           HoldsUpTo(events, offset, t, p)
    PROVE  decided'.recorded = events => HoldsUpTo(decided.recorded, offset, t, p)'
BY DEF HoldsUpTo, CallsIn, heard, Decision

\* A replayed trace that does not change holds what it held.
LEMMA ReplayedHeld ==
    ASSUME responses' = responses, NEW offset, NEW t, NEW p, NEW events,
           HoldsUpTo(events, offset, t, p)
    PROVE  decided'.replayed = events => HoldsUpTo(decided.replayed, offset, t, p)'
BY DEF HoldsUpTo, CallsIn, heard, Decision

-----------------------------------------------------------------------------
(* The recorded run.                                                        *)

\* A step that decides on nothing leaves the recorded run at its place.
LEMMA RecordedStays ==
    ASSUME TypeOK, NEW offset, RecordedMirrored(offset),
           responses' = responses, decided'.recorded = decided.recorded, config' = config,
           \A t \in 1 .. (heard + 1) : \A p \in 0 .. CallsIn(t) :
              RecordedPlace(t, p) => RecordedPlace(t, p)'
    PROVE  RecordedMirrored(offset)'
<1>1. PICK t \in 1 .. (heard + 1) : \E p \in 0 .. CallsIn(t) :
          RecordedPlace(t, p) /\ HoldsUpTo(decided.recorded, offset, t, p)
    BY DEF RecordedMirrored
<1>2. PICK p \in 0 .. CallsIn(t) :
          RecordedPlace(t, p) /\ HoldsUpTo(decided.recorded, offset, t, p)
    BY <1>1
<1>3. HoldsUpTo(decided.recorded, offset, t, p)'
    BY <1>2, RecordedHeld
<1>4. RecordedPlace(t, p)'
    BY <1>2
<1>5. heard' = heard /\ CallsIn(t)' = CallsIn(t)
    BY SamePlaces
<1> QED
    BY <1>3, <1>4, <1>5 DEF RecordedMirrored

\* Every step that hears nothing leads the recorded run from place to place.
LEMMA RecordedStep ==
    ASSUME TypeOK, NEW offset \in [1 .. (heard + 1) -> Nat], IsOffset(offset),
           RecordedMirrored(offset), responses' = responses, [Next]_vars
    PROVE  RecordedMirrored(offset)'
<1> USE DEF scriptVars
<1>0. /\ heard' = heard
      /\ \A t : CallsIn(t)' = CallsIn(t)
      /\ \A t, p : Passed(t, p)' <=> Passed(t, p)
      /\ \A limits, as, in, t, p :
            EndsAt(limits, as, in, t, p)' <=> EndsAt(limits, as, in, t, p)
      /\ config' = config
    <2>1. config' = config
        BY DEF Next, vars, BeginTurn, ExhaustTurns, ModelResponds, ReplayResponds, ReplayFails,
            Decide, EvaluationFails, BreakOff, StartReplay, Conclude
    <2> QED
        BY <2>1, SamePlaces
<1>1. CASE run = "recorded" /\ BeginTurn
    <2>1. ASSUME NEW t \in 1 .. (heard + 1), NEW p \in 0 .. CallsIn(t), RecordedPlace(t, p)
          PROVE  RecordedPlace(t, p)'
        <3>1. turns + 1 = t /\ p = 0 /\ t = heard + 1 /\ Passed(t, p)
            BY <1>1, <2>1 DEF RecordedPlace, GoesOnAt, BeginTurn
        <3>2. turns < MostTurns(config)
            BY <1>1 DEF BeginTurn, Limits, MostTurns
        <3>3. turns + 1 <= MostTurns(config)
            BY <3>2, LimitTypes DEF TypeOK
        <3>4. run' = run /\ pc' = "model" /\ turns' = turns + 1
            BY <1>1 DEF BeginTurn
        <3>5. GoesOnAt(config, t, p)'
            BY <1>0, <3>1, <3>3, <3>4 DEF GoesOnAt, MostTurns
        <3> QED
            BY <1>0, <1>1, <2>1, <3>1, <3>4, <3>5 DEF RecordedPlace, MostTurns
    <2>2. decided'.recorded = decided.recorded
        BY <1>1 DEF BeginTurn
    <2> QED
        BY <1>0, <2>1, <2>2, RecordedStays
<1>2. CASE run = "recorded" /\ ExhaustTurns
    <2>1. ASSUME NEW t \in 1 .. (heard + 1), NEW p \in 0 .. CallsIn(t), RecordedPlace(t, p)
          PROVE  RecordedPlace(t, p)'
        <3>1. turns + 1 = t /\ p = 0 /\ t = heard + 1
            BY <1>2, <2>1 DEF RecordedPlace, GoesOnAt, ExhaustTurns
        <3>2. EndsAt(config, "max_turns", turns, t, p)
            BY <1>2, <3>1 DEF EndsAt, ExhaustTurns, Limits
        <3> QED
            BY <1>0, <1>2, <2>1, <3>2 DEF RecordedPlace, ExhaustTurns, Stop, EndsAt
    <2>2. decided'.recorded = decided.recorded
        BY <1>2 DEF ExhaustTurns
    <2> QED
        BY <1>0, <2>1, <2>2, RecordedStays
<1>3. CASE run = "recorded" /\ (EvaluationFails \/ BreakOff)
    <2>1. ASSUME NEW t \in 1 .. (heard + 1), NEW p \in 0 .. CallsIn(t), RecordedPlace(t, p)
          PROVE  RecordedPlace(t, p)'
        <3>1. pc \in {"loop", "model", "call"}
            BY <1>3 DEF EvaluationFails, BreakOff, TypeOK
        <3>2. GoesOnAt(config, t, p)
            BY <1>3, <2>1, <3>1 DEF RecordedPlace
        <3>3. ASSUME pc \in {"loop", "model"}
              PROVE  EndsAt(config, "failed", turns, t, p)
            <4>1. t = heard + 1 /\ p = 0
                BY <1>3, <2>1, <3>2, <3>3 DEF RecordedPlace, GoesOnAt
            <4>2. t <= config.max_turns + 1
                <5>1. pc = "loop" => turns + 1 = t /\ turns <= config.max_turns
                    BY <3>2 DEF GoesOnAt
                <5>2. pc = "model" => turns = t /\ turns <= MostTurns(config)
                    BY <3>2 DEF GoesOnAt
                <5> QED
                    BY <3>3, <5>1, <5>2, LimitTypes DEF TypeOK
            <4> QED
                BY <4>1, <4>2 DEF EndsAt
        <3>4. ASSUME pc = "call"
              PROVE  EndsAt(config, "failed", turns, t, p)
            <4>1. /\ turns = t /\ p + 1 = position /\ turns <= config.max_turns
                  /\ t <= heard /\ response = responses[t]
                BY <3>2, <3>4 DEF GoesOnAt
            <4>2. position \in DOMAIN response
                BY <3>4 DEF TypeOK
            <4>3. t \in 1 .. heard /\ p + 1 \in 1 .. CallsIn(t)
                BY <4>1, <4>2, Counts
            <4>4. p < CallsIn(t)
                BY <4>3, Counts
            <4> QED
                BY <4>1, <4>4 DEF EndsAt
        <3>5. EndsAt(config, "failed", turns, t, p)
            BY <3>1, <3>3, <3>4
        <3>6. run' = run /\ pc' = "ended" /\ status' = "failed" /\ turns' = turns
            BY <1>3 DEF EvaluationFails, BreakOff, Stop
        <3> QED
            BY <1>0, <1>3, <2>1, <3>5, <3>6 DEF RecordedPlace
    <2>2. decided'.recorded = decided.recorded
        BY <1>3 DEF EvaluationFails, BreakOff
    <2> QED
        BY <1>0, <2>1, <2>2, RecordedStays
<1>4. CASE StartReplay
    <2>1. ASSUME NEW t \in 1 .. (heard + 1), NEW p \in 0 .. CallsIn(t), RecordedPlace(t, p)
          PROVE  RecordedPlace(t, p)'
        <3>1. EndsAt(config, status, turns, t, p)
            BY <1>4, <2>1 DEF RecordedPlace, StartReplay
        <3>2. run' = "replayed" /\ ended'.status = status /\ ended'.turns = turns
            BY <1>4 DEF StartReplay
        <3> QED
            BY <1>0, <2>1, <3>1, <3>2 DEF RecordedPlace, MostTurns
    <2>2. decided'.recorded = decided.recorded
        BY <1>4 DEF StartReplay
    <2> QED
        BY <1>0, <2>1, <2>2, RecordedStays
<1>5. CASE run = "recorded" /\ Decide
    <2>1. PICK t \in 1 .. (heard + 1) : \E p \in 0 .. CallsIn(t) :
              RecordedPlace(t, p) /\ HoldsUpTo(decided.recorded, offset, t, p)
        BY DEF RecordedMirrored
    <2>2. PICK p \in 0 .. CallsIn(t) :
              RecordedPlace(t, p) /\ HoldsUpTo(decided.recorded, offset, t, p)
        BY <2>1
    <2>3. /\ turns = t /\ p + 1 = position /\ turns <= config.max_turns
          /\ t <= heard /\ response = responses[t] /\ Passed(t, p)
          /\ t \in {heard, heard + 1} /\ heard <= MostTurns(config)
        BY <1>5, <2>2 DEF RecordedPlace, GoesOnAt, Decide
    <2>4. heard \in Nat /\ CallsIn(t) \in Nat
        BY Counts
    <2>5. t \in 1 .. heard /\ t = heard /\ p \in Nat
        BY <2>3, <2>4
    <2>6. position \in 1 .. CallsIn(t) /\ Len(response) = CallsIn(t)
        BY <1>5, <2>3, <2>5, Counts DEF TypeOK, Decide
    <2>7. p < CallsIn(t) /\ p + 1 \in 0 .. CallsIn(t)
        BY <2>3, <2>4, <2>5, <2>6
    <2>8. responses[t][p + 1] \notin Raising /\ response[position] = responses[t][p + 1]
        BY <1>5, <2>3 DEF Decide
    <2>9. decided.recorded \in Seq(Decisions)
        BY Counts
    <2>10. PICK events : events = Append(decided.recorded, Decision(t, p + 1))
        OBVIOUS
    <2>11. decided'.recorded = events
        BY <1>5, <2>3, <2>8, <2>10 DEF Decide, Decision, TypeOK
    <2>12. /\ HoldsUpTo(events, offset, t, p + 1) /\ Passed(t, p + 1)
           /\ p + 1 = CallsIn(t) => HoldsUpTo(events, offset, t + 1, 0) /\ Passed(t + 1, 0)
        BY <2>2, <2>3, <2>5, <2>7, <2>8, <2>9, <2>10, NextPlace
    <2>13. /\ run' = run /\ turns' = turns /\ position' = position + 1
           /\ response' = response
           /\ pc' = IF position = Len(response) THEN "loop" ELSE "call"
        BY <1>5 DEF Decide
    <2>14. CASE p + 1 = CallsIn(t)
        <3>1. pc' = "loop"
            BY <2>3, <2>6, <2>13, <2>14
        <3>2. HoldsUpTo(decided.recorded, offset, t + 1, 0)'
            BY <2>11, <2>12, <2>14, RecordedHeld
        <3>3. RecordedPlace(t + 1, 0)'
            BY <1>0, <1>5, <2>3, <2>5, <2>12, <2>13, <2>14, <3>1
            DEF RecordedPlace, GoesOnAt, MostTurns
        <3>4. t + 1 \in 1 .. (heard' + 1) /\ 0 \in 0 .. CallsIn(t + 1)'
            BY <1>0, <2>4, <2>5, Counts DEF CallsIn
        <3> QED
            BY <3>2, <3>3, <3>4 DEF RecordedMirrored
    <2>15. CASE p + 1 # CallsIn(t)
        <3>1. pc' = "call"
            BY <2>3, <2>6, <2>13, <2>15
        <3>2. HoldsUpTo(decided.recorded, offset, t, p + 1)'
            BY <2>11, <2>12, RecordedHeld
        <3>3. RecordedPlace(t, p + 1)'
            BY <1>0, <1>5, <2>3, <2>5, <2>12, <2>13, <3>1
            DEF RecordedPlace, GoesOnAt, MostTurns
        <3>4. t \in 1 .. (heard' + 1) /\ p + 1 \in 0 .. CallsIn(t)'
            BY <1>0, <2>7
        <3> QED
            BY <3>2, <3>3, <3>4 DEF RecordedMirrored
    <2> QED
        BY <2>14, <2>15
<1>6. CASE \/ ReplayResponds \/ ReplayFails \/ Conclude \/ UNCHANGED vars
           \/ run # "recorded" /\ (BeginTurn \/ ExhaustTurns \/ Decide \/ EvaluationFails)
    <2>1. ASSUME NEW t \in 1 .. (heard + 1), NEW p \in 0 .. CallsIn(t), RecordedPlace(t, p)
          PROVE  RecordedPlace(t, p)'
        <3>1. \/ run # "recorded" /\ run' # "recorded" /\ ended' = ended
              \/ UNCHANGED vars
            BY <1>6 DEF ReplayResponds, ReplayFails, Conclude, BeginTurn, ExhaustTurns, Decide,
                EvaluationFails
        <3> QED
            BY <1>0, <2>1, <3>1 DEF RecordedPlace, GoesOnAt, MostTurns, vars
    <2>2. decided'.recorded = decided.recorded
        BY <1>6 DEF ReplayResponds, ReplayFails, Conclude, BeginTurn, ExhaustTurns, Decide,
            EvaluationFails, vars, TypeOK
    <2> QED
        BY <1>0, <2>1, <2>2, RecordedStays
<1>7. CASE ModelResponds
    <2>1. PICK received \in Responses : responses' = Append(responses, received)
        BY <1>7 DEF ModelResponds
    <2>2. Len(responses') = Len(responses) + 1
        BY <2>1 DEF TypeOK
    <2>3. Len(responses) \in Nat
        BY Counts DEF heard
    <2> QED
        BY <2>2, <2>3
<1> QED
    BY <1>1, <1>2, <1>3, <1>4, <1>5, <1>6, <1>7 DEF Next, BreakOff

\* A response of the recorded model is a turn more.
LEMMA RecordedReceives ==
    ASSUME TypeOK, NEW offset \in [1 .. (heard + 1) -> Nat], IsOffset(offset),
           RecordedMirrored(offset), ModelResponds
    PROVE  \E longer \in [1 .. (heard' + 1) -> Nat] :
              IsOffset(longer)' /\ RecordedMirrored(longer)'
<1> USE DEF scriptVars
<1>1. PICK received \in Responses :
          Receive(received) /\ responses' = Append(responses, received)
    BY DEF ModelResponds
<1>2. /\ pc = "model" /\ run = "recorded" /\ run' = run /\ turns' = turns
      /\ config' = config /\ decided' = decided
    BY DEF ModelResponds
<1>3. /\ heard \in Nat /\ heard' = heard + 1
      /\ \A s \in 1 .. heard : responses'[s] = responses[s]
      /\ responses'[heard + 1] = received
    <2>1. responses \in Seq(Responses)
        BY DEF TypeOK
    <2> QED
        BY <1>1, <2>1 DEF heard
<1>4. /\ \A s \in 1 .. heard : CallsIn(s)' = CallsIn(s)
      /\ \A s \in {heard + 1} : CallsIn(s)' = Len(received)
      /\ Len(received) \in Nat
    <2>1. received \in Seq(Calls)
        BY ResponseType
    <2>2. ASSUME NEW s \in 1 .. heard
          PROVE  CallsIn(s)' = CallsIn(s)
        <3>1. s <= heard /\ s <= heard'
            BY <1>3
        <3> QED
            BY <1>3, <3>1 DEF CallsIn
    <2>3. ASSUME NEW s \in {heard + 1}
          PROVE  CallsIn(s)' = Len(received)
        <3>1. s <= heard' /\ responses'[s] = received
            BY <1>3
        <3> QED
            BY <3>1 DEF CallsIn
    <2>4. Len(received) \in Nat
        BY <2>1
    <2> QED
        BY <2>2, <2>3, <2>4
<1>5. PICK t \in 1 .. (heard + 1) : \E p \in 0 .. CallsIn(t) :
          RecordedPlace(t, p) /\ HoldsUpTo(decided.recorded, offset, t, p)
    BY DEF RecordedMirrored
<1>6. PICK p \in 0 .. CallsIn(t) :
          RecordedPlace(t, p) /\ HoldsUpTo(decided.recorded, offset, t, p)
    BY <1>5
<1>7. /\ t = heard + 1 /\ p = 0 /\ turns = t /\ turns <= MostTurns(config)
      /\ Passed(t, p)
    BY <1>2, <1>6 DEF RecordedPlace, GoesOnAt
<1> DEFINE longer == [s \in 1 .. (heard' + 1) |->
                        IF s <= heard + 1 THEN offset[s]
                                          ELSE offset[heard + 1] + Len(received)]
<1>8. /\ longer \in [1 .. (heard' + 1) -> Nat]
      /\ \A s \in 1 .. (heard + 1) : longer[s] = offset[s]
      /\ longer[heard' + 1] = offset[heard + 1] + Len(received)
    BY <1>3, <1>4
<1> HIDE DEF longer
<1>9. PICK fresh \in [1 .. (heard' + 1) -> Nat] : fresh = longer
    BY <1>8
<1>10. IsOffset(fresh)'
    <2>1. fresh[1] = 0
        BY <1>3, <1>8, <1>9 DEF IsOffset
    <2>2. ASSUME NEW s \in 1 .. heard'
          PROVE  fresh[s + 1] = fresh[s] + CallsIn(s)'
        <3>1. CASE s \in 1 .. heard
            <4>1. s \in 1 .. (heard + 1) /\ s + 1 \in 1 .. (heard + 1)
                BY <1>3, <3>1
            <4>2. offset[s + 1] = offset[s] + CallsIn(s)
                BY <3>1 DEF IsOffset
            <4> QED
                BY <1>4, <1>8, <1>9, <3>1, <4>1, <4>2
        <3>2. CASE s = heard + 1
            BY <1>3, <1>4, <1>8, <1>9, <3>2
        <3> QED
            BY <1>3, <3>1, <3>2
    <2> QED
        BY <2>1, <2>2 DEF IsOffset
<1>11. HoldsUpTo(decided.recorded, fresh, t, 0)'
    <2>1. /\ Len(decided.recorded) = offset[t] + 0
          /\ \A s \in 1 .. (t - 1) : \A k \in 1 .. CallsIn(s) :
                /\ offset[s] + k \in 1 .. Len(decided.recorded)
                /\ decided.recorded[offset[s] + k] = Decision(s, k)
        BY <1>6, <1>7 DEF HoldsUpTo
    <2>2. Len(decided'.recorded) = fresh[t] + 0
        BY <1>2, <1>8, <1>9, <2>1
    <2>3. ASSUME NEW s \in 1 .. (t - 1), NEW k \in 1 .. CallsIn(s)'
          PROVE  /\ fresh[s] + k \in 1 .. Len(decided'.recorded)
                 /\ decided'.recorded[fresh[s] + k] = Decision(s, k)'
        <3>1. s \in 1 .. heard /\ s \in 1 .. (heard + 1)
            BY <1>3, <1>7
        <3>2. fresh[s] = offset[s] /\ k \in 1 .. CallsIn(s)
            BY <1>4, <1>8, <1>9, <3>1
        <3>3. Decision(s, k)' = Decision(s, k)
            BY <1>3, <3>1 DEF Decision
        <3> QED
            BY <1>2, <2>1, <3>2, <3>3
    <2>4. 1 .. 0 = {}
        OBVIOUS
    <2> QED
        BY <2>2, <2>3, <2>4 DEF HoldsUpTo
<1>12. Passed(t, 0)'
    <2>1. ASSUME NEW s \in 1 .. (t - 1)
          PROVE  /\ responses'[s] # <<>>
                 /\ \A k \in 1 .. CallsIn(s)' : responses'[s][k] \notin Raising
        <3>1. s \in 1 .. heard
            BY <1>3, <1>7
        <3>2. responses'[s] = responses[s] /\ CallsIn(s)' = CallsIn(s)
            BY <1>3, <1>4, <3>1
        <3> QED
            BY <1>7, <3>2 DEF Passed
    <2>2. 1 .. 0 = {}
        OBVIOUS
    <2> QED
        BY <2>1, <2>2 DEF Passed
<1>13. RecordedPlace(t, 0)'
    <2>1. t = heard' /\ heard' <= MostTurns(config)' /\ t <= heard' /\ responses'[t] = received
        BY <1>2, <1>3, <1>7 DEF MostTurns
    <2>2. CASE received = <<>>
        <3>1. pc' = "ended" /\ status' = "completed"
            BY <1>1, <2>2 DEF Receive, Stop
        <3>2. EndsAt(config, status, turns, t, 0)'
            BY <1>2, <1>7, <2>1, <2>2, <3>1 DEF EndsAt
        <3> QED
            BY <1>2, <1>12, <2>1, <3>1, <3>2 DEF RecordedPlace
    <2>3. CASE received # <<>> /\ Finalizing
        <3>1. pc' = "ended" /\ status' = "max_turns" /\ turns = config.max_turns + 1
            BY <1>1, <1>2, <2>3 DEF Receive, Stop, Finalizing, Limits
        <3>2. EndsAt(config, status, turns, t, 0)'
            BY <1>2, <1>7, <2>1, <2>3, <3>1 DEF EndsAt
        <3> QED
            BY <1>2, <1>12, <2>1, <3>1, <3>2 DEF RecordedPlace
    <2>4. CASE received # <<>> /\ ~Finalizing
        <3>1. pc' = "call" /\ position' = 1 /\ response' = received
            BY <1>1, <2>4 DEF Receive
        <3>2. turns # config.max_turns + 1 /\ turns \in Nat
            BY <1>2, <2>4 DEF Finalizing, Limits, TypeOK
        <3>3. turns <= config.max_turns
            BY <1>7, <3>2, LimitTypes
        <3>4. GoesOnAt(config, t, 0)'
            BY <1>2, <1>7, <2>1, <3>1, <3>3 DEF GoesOnAt
        <3> QED
            BY <1>2, <1>12, <2>1, <3>1, <3>4 DEF RecordedPlace
    <2> QED
        BY <2>2, <2>3, <2>4
<1>14. t \in 1 .. (heard' + 1) /\ 0 \in 0 .. CallsIn(t)'
    BY <1>3, <1>4, <1>7
<1>15. RecordedMirrored(fresh)'
    BY <1>11, <1>13, <1>14 DEF RecordedMirrored
<1> QED
    BY <1>10, <1>15

-----------------------------------------------------------------------------
(* The replay.                                                              *)

\* A step that decides on nothing leaves the replay at its place.
LEMMA ReplayStays ==
    ASSUME TypeOK, NEW offset, ReplayMirrored(offset),
           responses' = responses, decided'.replayed = decided.replayed,
           \A t \in 1 .. (heard + 1) : \A p \in 0 .. CallsIn(t) :
              ReplayPlace(t, p) => ReplayPlace(t, p)'
    PROVE  ReplayMirrored(offset)'
<1>1. PICK t \in 1 .. (heard + 1) : \E p \in 0 .. CallsIn(t) :
          ReplayPlace(t, p) /\ HoldsUpTo(decided.replayed, offset, t, p)
    BY DEF ReplayMirrored
<1>2. PICK p \in 0 .. CallsIn(t) :
          ReplayPlace(t, p) /\ HoldsUpTo(decided.replayed, offset, t, p)
    BY <1>1
<1>3. HoldsUpTo(decided.replayed, offset, t, p)'
    BY <1>2, ReplayedHeld
<1>4. ReplayPlace(t, p)'
    BY <1>2
<1>5. heard' = heard /\ CallsIn(t)' = CallsIn(t)
    BY SamePlaces
<1> QED
    BY <1>3, <1>4, <1>5 DEF ReplayMirrored

\* A replay starts at the first turn.
LEMMA ReplayStarts ==
    ASSUME TypeOK, NothingReplayed, NEW offset \in [1 .. (heard + 1) -> Nat], IsOffset(offset),
           StartReplay
    PROVE  ReplayMirrored(offset)'
<1> USE DEF scriptVars
<1>1. /\ responses' = responses /\ decided' = decided /\ consumed' = 0
      /\ decided.replayed = <<>>
      /\ run' = "replayed" /\ pc' = "loop" /\ turns' = 0
    BY DEF StartReplay, NothingReplayed
<1>2. 1 .. (1 - 1) = {} /\ 1 .. 0 = {} /\ Len(<<>>) = 0
    OBVIOUS
<1>3. offset[1] = 0
    BY DEF IsOffset
<1>4. HoldsUpTo(<<>>, offset, 1, 0)
    BY <1>2, <1>3 DEF HoldsUpTo
<1>5. HoldsUpTo(decided.replayed, offset, 1, 0)'
    BY <1>1, <1>4, ReplayedHeld
<1>6. Passed(1, 0)'
    BY <1>2 DEF Passed
<1>7. 0 <= Limits'.max_turns
    BY LimitTypes, ConfigsAssumption DEF StartReplay, Limits, Default
<1>8. ReplayPlace(1, 0)'
    BY <1>1, <1>6, <1>7 DEF ReplayPlace, GoesOnAt
<1>9. 1 \in 1 .. (heard' + 1) /\ 0 \in 0 .. CallsIn(1)'
    <2>1. heard \in Nat /\ CallsIn(1) \in Nat
        BY Counts
    <2> QED
        BY <1>1, <2>1, SamePlaces
<1> QED
    BY <1>5, <1>8, <1>9 DEF ReplayMirrored

\* The run that decides is the recorded one or its replay.
LEMMA DecidingRun ==
    ASSUME TypeOK, VerdictInv, Decide
    PROVE  run \in {"recorded", "replayed"}
BY DEF TypeOK, VerdictInv, Decide

\* Every step of a replay leads from place to place.
LEMMA ReplayStep ==
    ASSUME TypeOK, VerdictInv, NEW offset \in [1 .. (heard + 1) -> Nat], IsOffset(offset),
           Replaying, script = responses, ReplayMirrored(offset), [Next]_vars
    PROVE  ReplayMirrored(offset)'
<1> USE DEF scriptVars
<1>0. /\ responses' = responses
      /\ heard' = heard
      /\ \A t : CallsIn(t)' = CallsIn(t)
      /\ \A t, p : Passed(t, p)' <=> Passed(t, p)
      /\ \A limits, as, in, t, p :
            EndsAt(limits, as, in, t, p)' <=> EndsAt(limits, as, in, t, p)
      /\ Limits' = Limits
      /\ run # "recorded" /\ run' # "recorded"
    <2>1. responses' = responses /\ caller' = caller /\ config' = config /\ run' # "recorded"
        BY DEF Replaying, Next, vars, BeginTurn, ExhaustTurns, ModelResponds, ReplayResponds,
            ReplayFails, Decide, EvaluationFails, BreakOff, StartReplay, Conclude
    <2>2. Limits' = Limits
        BY <2>1 DEF Limits, Default, Replaying
    <2> QED
        BY <2>1, <2>2, SamePlaces DEF Replaying
<1>1. CASE BeginTurn
    <2>1. ASSUME NEW t \in 1 .. (heard + 1), NEW p \in 0 .. CallsIn(t), ReplayPlace(t, p)
          PROVE  ReplayPlace(t, p)'
        <3>1. turns + 1 = t /\ p = 0 /\ Passed(t, p) /\ consumed = turns /\ turns \in Nat
            BY <1>1, <2>1 DEF ReplayPlace, GoesOnAt, BeginTurn, TypeOK
        <3>2. turns < MostTurns(Limits)
            BY <1>1 DEF BeginTurn, MostTurns
        <3>3. turns + 1 <= MostTurns(Limits)
            BY <3>1, <3>2, LimitTypes
        <3>4. pc' = "model" /\ turns' = turns + 1 /\ consumed' = consumed
            BY <1>1 DEF BeginTurn
        <3>5. GoesOnAt(Limits, t, p)'
            BY <1>0, <3>1, <3>3, <3>4 DEF GoesOnAt, MostTurns
        <3>6. consumed' = turns' - 1
            BY <3>1, <3>4
        <3> QED
            BY <1>0, <3>1, <3>4, <3>5, <3>6 DEF ReplayPlace
    <2> QED
        BY <1>0, <1>1, <2>1, ReplayStays DEF BeginTurn
<1>2. CASE ExhaustTurns
    <2>1. ASSUME NEW t \in 1 .. (heard + 1), NEW p \in 0 .. CallsIn(t), ReplayPlace(t, p)
          PROVE  ReplayPlace(t, p)'
        <3>1. turns + 1 = t /\ p = 0 /\ Passed(t, p)
            BY <1>2, <2>1 DEF ReplayPlace, GoesOnAt, ExhaustTurns
        <3>2. EndsAt(Limits, "max_turns", turns, t, p)
            BY <1>2, <3>1 DEF EndsAt, ExhaustTurns
        <3>3. pc' = "ended" /\ status' = "max_turns" /\ turns' = turns
            BY <1>2 DEF ExhaustTurns, Stop
        <3> QED
            BY <1>0, <3>1, <3>2, <3>3 DEF ReplayPlace
    <2> QED
        BY <1>0, <1>2, <2>1, ReplayStays DEF ExhaustTurns
<1>3. CASE ReplayResponds
    <2>1. ASSUME NEW t \in 1 .. (heard + 1), NEW p \in 0 .. CallsIn(t), ReplayPlace(t, p)
          PROVE  ReplayPlace(t, p)'
        <3>1. /\ turns = t /\ p = 0 /\ Passed(t, p) /\ turns <= MostTurns(Limits)
              /\ consumed = turns - 1
            BY <1>3, <2>1 DEF ReplayPlace, GoesOnAt, ReplayResponds
        <3>2. consumed' = turns /\ turns \in Nat /\ consumed < heard
            <4>1. consumed' = consumed + 1 /\ ~(consumed >= heard) /\ turns \in Nat
                BY <1>3 DEF ReplayResponds, Exhausted, heard, TypeOK
            <4> QED
                BY <3>1, <4>1, Counts
        <3>3. t <= heard
            BY <3>1, <3>2, Counts
        <3>4. Receive(responses[t]) /\ turns' = turns
            BY <1>3, <3>1, <3>2 DEF ReplayResponds
        <3>5. CASE responses[t] = <<>>
            <4>1. pc' = "ended" /\ status' = "completed"
                BY <3>4, <3>5 DEF Receive, Stop
            <4>2. EndsAt(Limits, "completed", turns, t, p)
                BY <3>1, <3>3, <3>5 DEF EndsAt
            <4> QED
                BY <1>0, <3>1, <3>2, <3>4, <4>1, <4>2 DEF ReplayPlace
        <3>6. CASE responses[t] # <<>> /\ Finalizing
            <4>1. pc' = "ended" /\ status' = "max_turns"
                BY <3>4, <3>6 DEF Receive, Stop
            <4>2. EndsAt(Limits, "max_turns", turns, t, p)
                BY <3>1, <3>3, <3>6 DEF EndsAt, Finalizing
            <4> QED
                BY <1>0, <3>1, <3>4, <4>1, <4>2 DEF ReplayPlace
        <3>7. CASE responses[t] # <<>> /\ ~Finalizing
            <4>1. pc' = "call" /\ position' = 1 /\ response' = responses[t]
                BY <3>4, <3>7 DEF Receive
            <4>2. turns <= Limits.max_turns
                BY <3>1, <3>2, <3>7, LimitTypes DEF Finalizing
            <4>3. GoesOnAt(Limits, t, p)'
                BY <1>0, <3>1, <3>3, <3>4, <4>1, <4>2 DEF GoesOnAt
            <4> QED
                BY <1>0, <3>1, <3>2, <3>4, <4>1, <4>3 DEF ReplayPlace
        <3> QED
            BY <3>5, <3>6, <3>7
    <2> QED
        BY <1>0, <1>3, <2>1, ReplayStays DEF ReplayResponds
<1>4. CASE ReplayFails
    <2>1. ASSUME NEW t \in 1 .. (heard + 1), NEW p \in 0 .. CallsIn(t), ReplayPlace(t, p)
          PROVE  ReplayPlace(t, p)'
        <3>1. /\ turns = t /\ p = 0 /\ Passed(t, p) /\ consumed = turns - 1
              /\ turns <= MostTurns(Limits)
            BY <1>4, <2>1 DEF ReplayPlace, GoesOnAt, ReplayFails
        <3>2. consumed >= heard /\ turns \in Nat
            BY <1>4 DEF ReplayFails, Exhausted, heard, TypeOK
        <3>3. t = heard + 1
            BY <3>1, <3>2, Counts
        <3>4. EndsAt(Limits, "failed", turns, t, p)
            <4>1. t <= Limits.max_turns + 1
                BY <3>1, <3>2, LimitTypes
            <4> QED
                BY <3>1, <3>3, <4>1 DEF EndsAt
        <3>5. pc' = "ended" /\ status' = "failed" /\ turns' = turns
            BY <1>4 DEF ReplayFails, Stop
        <3>6. ~(t <= heard)
            BY <3>3, Counts
        <3> QED
            BY <1>0, <3>1, <3>4, <3>5, <3>6 DEF ReplayPlace
    <2> QED
        BY <1>0, <1>4, <2>1, ReplayStays DEF ReplayFails
<1>5. CASE EvaluationFails
    <2>1. ASSUME NEW t \in 1 .. (heard + 1), NEW p \in 0 .. CallsIn(t), ReplayPlace(t, p)
          PROVE  ReplayPlace(t, p)'
        <3>1. /\ turns = t /\ p + 1 = position /\ Passed(t, p) /\ turns <= Limits.max_turns
              /\ t <= heard /\ response = responses[t]
            BY <1>5, <2>1 DEF ReplayPlace, GoesOnAt, EvaluationFails
        <3>2. position \in DOMAIN response /\ response[position] \in Raising
            BY <1>5 DEF EvaluationFails, TypeOK
        <3>3. t \in 1 .. heard /\ p + 1 \in 1 .. CallsIn(t)
            BY <3>1, <3>2, Counts
        <3>4. p < CallsIn(t)
            BY <3>3, Counts
        <3>5. EndsAt(Limits, "failed", turns, t, p)
            BY <3>1, <3>4 DEF EndsAt
        <3>6. pc' = "ended" /\ status' = "failed" /\ turns' = turns
            BY <1>5 DEF EvaluationFails, Stop
        <3> QED
            BY <1>0, <3>1, <3>2, <3>5, <3>6 DEF ReplayPlace
    <2> QED
        BY <1>0, <1>5, <2>1, ReplayStays DEF EvaluationFails
<1>6. CASE Conclude \/ UNCHANGED vars
    <2>1. /\ pc' = pc /\ turns' = turns /\ status' = status /\ position' = position
          /\ response' = response /\ consumed' = consumed /\ decided' = decided
        BY <1>6 DEF Conclude, vars
    <2>2. ASSUME NEW t \in 1 .. (heard + 1), NEW p \in 0 .. CallsIn(t), ReplayPlace(t, p)
          PROVE  ReplayPlace(t, p)'
        BY <1>0, <2>1, <2>2 DEF ReplayPlace, GoesOnAt, MostTurns
    <2> QED
        BY <1>0, <2>1, <2>2, ReplayStays
<1>7. CASE Decide
    <2>1. PICK t \in 1 .. (heard + 1) : \E p \in 0 .. CallsIn(t) :
              ReplayPlace(t, p) /\ HoldsUpTo(decided.replayed, offset, t, p)
        BY DEF ReplayMirrored
    <2>2. PICK p \in 0 .. CallsIn(t) :
              ReplayPlace(t, p) /\ HoldsUpTo(decided.replayed, offset, t, p)
        BY <2>1
    <2>3. /\ turns = t /\ p + 1 = position /\ turns <= Limits.max_turns
          /\ t <= heard /\ response = responses[t] /\ Passed(t, p) /\ consumed = turns
        BY <1>7, <2>2 DEF ReplayPlace, GoesOnAt, Decide
    <2>4. heard \in Nat /\ CallsIn(t) \in Nat
        BY Counts
    <2>5. t \in 1 .. heard /\ p \in Nat
        BY <2>3, <2>4
    <2>6. position \in 1 .. CallsIn(t) /\ Len(response) = CallsIn(t)
        BY <1>7, <2>3, <2>5, Counts DEF TypeOK, Decide
    <2>7. p < CallsIn(t) /\ p + 1 \in 0 .. CallsIn(t)
        BY <2>3, <2>4, <2>5, <2>6
    <2>8. responses[t][p + 1] \notin Raising /\ response[position] = responses[t][p + 1]
        BY <1>7, <2>3 DEF Decide
    <2>9. decided.replayed \in Seq(Decisions)
        BY Counts
    <2>10. PICK events : events = Append(decided.replayed, Decision(t, p + 1))
        OBVIOUS
    <2>11. decided'.replayed = events
        BY <1>0, <1>7, <2>3, <2>8, <2>10, DecidingRun DEF Decide, Decision, TypeOK
    <2>12. /\ HoldsUpTo(events, offset, t, p + 1) /\ Passed(t, p + 1)
           /\ p + 1 = CallsIn(t) => HoldsUpTo(events, offset, t + 1, 0) /\ Passed(t + 1, 0)
        BY <2>2, <2>3, <2>5, <2>7, <2>8, <2>9, <2>10, NextPlace
    <2>13. /\ turns' = turns /\ position' = position + 1 /\ consumed' = consumed
           /\ response' = response
           /\ pc' = IF position = Len(response) THEN "loop" ELSE "call"
        BY <1>7 DEF Decide
    <2>14. CASE p + 1 = CallsIn(t)
        <3>1. pc' = "loop"
            BY <2>3, <2>6, <2>13, <2>14
        <3>2. HoldsUpTo(decided.replayed, offset, t + 1, 0)'
            BY <1>0, <2>11, <2>12, <2>14, ReplayedHeld
        <3>3. ReplayPlace(t + 1, 0)'
            BY <1>0, <2>3, <2>5, <2>12, <2>13, <2>14, <3>1 DEF ReplayPlace, GoesOnAt
        <3>4. t + 1 \in 1 .. (heard' + 1) /\ 0 \in 0 .. CallsIn(t + 1)'
            BY <1>0, <2>4, <2>5, Counts DEF CallsIn
        <3> QED
            BY <3>2, <3>3, <3>4 DEF ReplayMirrored
    <2>15. CASE p + 1 # CallsIn(t)
        <3>1. pc' = "call"
            BY <2>3, <2>6, <2>13, <2>15
        <3>2. HoldsUpTo(decided.replayed, offset, t, p + 1)'
            BY <1>0, <2>11, <2>12, ReplayedHeld
        <3>3. ReplayPlace(t, p + 1)'
            BY <1>0, <2>3, <2>5, <2>12, <2>13, <3>1 DEF ReplayPlace, GoesOnAt
        <3>4. t \in 1 .. (heard' + 1) /\ p + 1 \in 0 .. CallsIn(t)'
            BY <1>0, <2>7
        <3> QED
            BY <3>2, <3>3, <3>4 DEF ReplayMirrored
    <2> QED
        BY <2>14, <2>15
<1> QED
    BY <1>0, <1>1, <1>2, <1>3, <1>4, <1>5, <1>6, <1>7
    DEF Next, ModelResponds, BreakOff, StartReplay

\* What a replay decides is what the recorded run decided there, if it came there.
LEMMA AgreeStep ==
    ASSUME TypeOK, VerdictInv, NEW offset \in [1 .. (heard + 1) -> Nat],
           RecordedMirrored(offset), ReplayMirrored(offset), Replaying, Agree, [Next]_vars
    PROVE  Agree'
<1> USE DEF scriptVars
<1>1. CASE Decide
    <2>1. PICK t \in 1 .. (heard + 1) : \E p \in 0 .. CallsIn(t) :
              ReplayPlace(t, p) /\ HoldsUpTo(decided.replayed, offset, t, p)
        BY DEF ReplayMirrored
    <2>2. PICK p \in 0 .. CallsIn(t) :
              ReplayPlace(t, p) /\ HoldsUpTo(decided.replayed, offset, t, p)
        BY <2>1
    <2>3. PICK u \in 1 .. (heard + 1) : \E q \in 0 .. CallsIn(u) :
              RecordedPlace(u, q) /\ HoldsUpTo(decided.recorded, offset, u, q)
        BY DEF RecordedMirrored
    <2>4. PICK q \in 0 .. CallsIn(u) :
              RecordedPlace(u, q) /\ HoldsUpTo(decided.recorded, offset, u, q)
        BY <2>3
    <2>5. turns = t /\ p + 1 = position /\ t <= heard /\ response = responses[t]
        BY <1>1, <2>2 DEF ReplayPlace, GoesOnAt, Decide
    <2>6. /\ heard \in Nat /\ offset[t] \in Nat /\ t \in 1 .. heard /\ p \in Nat /\ q \in Nat
          /\ CallsIn(t) \in Nat /\ u \in {heard, heard + 1}
        <3>1. heard \in Nat /\ CallsIn(t) \in Nat /\ CallsIn(u) \in Nat
            BY Counts
        <3> QED
            BY <2>4, <2>5, <3>1 DEF RecordedPlace
    <2>7. p + 1 \in 1 .. CallsIn(t)
        <3>1. position \in DOMAIN responses[t]
            BY <1>1, <2>5 DEF Decide, TypeOK
        <3> QED
            BY <2>5, <2>6, <3>1, Counts
    <2>8. PICK events : events = Append(decided.replayed, Decision(t, p + 1))
        OBVIOUS
    <2>9. decided'.replayed = events /\ decided'.recorded = decided.recorded
        <3>1. run = "replayed"
            BY <1>1, DecidingRun DEF Replaying
        <3>2. decided' = [decided EXCEPT !["replayed"] =
                              Append(@, [turn |-> turns, call |-> response[position]])]
            BY <1>1, <3>1 DEF Decide
        <3>3. Decision(t, p + 1) = [turn |-> turns, call |-> response[position]]
            BY <2>5 DEF Decision
        <3> QED
            BY <2>8, <3>2, <3>3 DEF TypeOK
    <2>10. /\ decided.replayed \in Seq(Decisions) /\ decided.recorded \in Seq(Decisions)
           /\ Len(decided.replayed) = offset[t] + p
           /\ Len(decided.recorded) = offset[u] + q
        BY <2>2, <2>4, Counts DEF HoldsUpTo
    <2>11. /\ DOMAIN events = 1 .. (Len(decided.replayed) + 1)
           /\ \A i \in 1 .. Len(decided.replayed) : events[i] = decided.replayed[i]
           /\ events[Len(decided.replayed) + 1] = Decision(t, p + 1)
           /\ DOMAIN decided.recorded = 1 .. Len(decided.recorded)
           /\ DOMAIN decided.replayed = 1 .. Len(decided.replayed)
        BY <2>8, <2>10
    <2>12. ASSUME offset[t] + (p + 1) \in 1 .. Len(decided.recorded)
           PROVE  decided.recorded[offset[t] + (p + 1)] = Decision(t, p + 1)
        <3>1. CASE t = u
            <4>1. p + 1 \in 1 .. q
                BY <2>6, <2>10, <2>12, <3>1
            <4> QED
                BY <2>4, <3>1, <4>1 DEF HoldsUpTo
        <3>2. CASE t # u
            <4>1. t \in 1 .. (u - 1)
                BY <2>6, <3>2
            <4> QED
                BY <2>4, <2>7, <4>1 DEF HoldsUpTo
        <3> QED
            BY <3>1, <3>2
    <2>13. ASSUME NEW i \in DOMAIN decided.recorded \cap DOMAIN events
           PROVE  decided.recorded[i] = events[i]
        <3>1. i \in 1 .. Len(decided.replayed) \/ i = Len(decided.replayed) + 1
            BY <2>6, <2>10, <2>11
        <3>2. CASE i \in 1 .. Len(decided.replayed)
            BY <2>11, <3>2 DEF Agree
        <3>3. CASE i = Len(decided.replayed) + 1
            <4>1. i = offset[t] + (p + 1)
                BY <2>6, <2>10, <3>3
            <4> QED
                BY <2>11, <2>12, <3>3, <4>1
        <3> QED
            BY <3>1, <3>2, <3>3
    <2> QED
        BY <2>9, <2>13 DEF Agree
<1>2. CASE ~Decide
    <2>1. decided' = decided
        BY <1>2 DEF Replaying, Next, vars, BeginTurn, ExhaustTurns, ModelResponds,
            ReplayResponds, ReplayFails, EvaluationFails, BreakOff, StartReplay, Conclude
    <2> QED
        BY <2>1 DEF Agree
<1> QED
    BY <1>1, <1>2

-----------------------------------------------------------------------------
(* The recording and its replay.                                            *)

\* Nothing is recorded at first.
LEMMA MirrorInit == Init => MirrorInv
<1> SUFFICES ASSUME Init PROVE MirrorInv
    OBVIOUS
<1>1. TypeOK
    BY TypeInit
<1>2. heard = 0 /\ CallsIn(1) = 0
    BY DEF Init, heard, CallsIn
<1>3. /\ run = "recorded" /\ pc = "loop" /\ turns = 0 /\ ~Replaying
      /\ decided.recorded = <<>>
    BY DEF Init, Replaying
<1>4. PICK offset \in [1 .. (heard + 1) -> Nat] : offset = [s \in 1 .. (heard + 1) |-> 0]
    OBVIOUS
<1>5. offset[1] = 0 /\ 1 .. 0 = {} /\ 1 .. (1 - 1) = {} /\ Len(<<>>) = 0
    BY <1>2, <1>4
<1>6. IsOffset(offset)
    BY <1>2, <1>5 DEF IsOffset
<1>7. HoldsUpTo(<<>>, offset, 1, 0)
    BY <1>5 DEF HoldsUpTo
<1>8. Passed(1, 0)
    BY <1>5 DEF Passed
<1>9. RecordedPlace(1, 0)
    <2>1. 0 <= MostTurns(config) /\ 0 <= config.max_turns
        BY <1>1, LimitTypes
    <2> QED
        BY <1>2, <1>3, <1>8, <2>1 DEF RecordedPlace, GoesOnAt
<1>10. RecordedMirrored(offset)
    <2>1. 1 \in 1 .. (heard + 1) /\ 0 \in 0 .. CallsIn(1)
        BY <1>2
    <2> QED
        BY <1>3, <1>7, <1>9, <2>1 DEF RecordedMirrored
<1> QED
    BY <1>3, <1>6, <1>10 DEF MirrorInv

\* Every step of either run keeps them one the mirror of the other.
LEMMA MirrorStep ==
    TypeOK /\ NothingReplayed /\ VerdictInv /\ MirrorInv /\ [Next]_vars => MirrorInv'
<1> SUFFICES ASSUME TypeOK, NothingReplayed, VerdictInv, MirrorInv, [Next]_vars
             PROVE  MirrorInv'
    OBVIOUS
<1> USE DEF scriptVars
<1>1. PICK offset \in [1 .. (heard + 1) -> Nat] :
          /\ IsOffset(offset)
          /\ RecordedMirrored(offset)
          /\ Replaying => ReplayMirrored(offset)
    BY DEF MirrorInv
<1>2. CASE ModelResponds
    <2>1. ~Replaying'
        BY <1>2 DEF ModelResponds, Replaying
    <2>2. \E longer \in [1 .. (heard' + 1) -> Nat] :
              IsOffset(longer)' /\ RecordedMirrored(longer)'
        BY <1>1, <1>2, RecordedReceives
    <2> QED
        BY <2>1, <2>2 DEF MirrorInv
<1>3. CASE ~ModelResponds
    <2>1. responses' = responses
        BY <1>3 DEF Next, vars, BeginTurn, ExhaustTurns, ReplayResponds, ReplayFails, Decide,
            EvaluationFails, BreakOff, StartReplay, Conclude
    <2>2. IsOffset(offset)' /\ heard' = heard
        BY <1>1, <2>1, SamePlaces
    <2>3. RecordedMirrored(offset)'
        BY <1>1, <2>1, RecordedStep
    <2>4. CASE Replaying
        <3>1. script = responses /\ Agree
            BY <2>4 DEF MirrorInv
        <3>2. ReplayMirrored(offset)'
            BY <1>1, <2>4, <3>1, ReplayStep
        <3>3. Agree'
            BY <1>1, <2>4, <3>1, AgreeStep
        <3>4. script' = script
            BY <2>4 DEF Replaying, Next, vars, BeginTurn, ExhaustTurns, ModelResponds,
                ReplayResponds, ReplayFails, Decide, EvaluationFails, BreakOff, StartReplay,
                Conclude
        <3> QED
            BY <2>1, <2>2, <2>3, <3>1, <3>2, <3>3, <3>4 DEF MirrorInv
    <2>5. CASE StartReplay
        <3>1. ReplayMirrored(offset)'
            BY <1>1, <2>5, ReplayStarts
        <3>2. decided' = decided /\ DOMAIN decided.replayed = {}
            BY <2>5 DEF StartReplay, NothingReplayed
        <3>3. Agree'
            BY <3>2 DEF Agree
        <3>4. Replaying' => script' = responses'
            BY <2>5 DEF StartReplay, Replaying
        <3> QED
            BY <2>2, <2>3, <3>1, <3>3, <3>4 DEF MirrorInv
    <2>6. CASE ~Replaying /\ ~StartReplay
        <3>1. ~Replaying'
            BY <1>3, <2>6 DEF Replaying, Next, vars, BeginTurn, ExhaustTurns, ReplayResponds,
                ReplayFails, Decide, EvaluationFails, BreakOff, Conclude
        <3> QED
            BY <2>2, <2>3, <3>1 DEF MirrorInv
    <2> QED
        BY <2>4, <2>5, <2>6
<1> QED
    BY <1>2, <1>3

\* There is no verdict before the comparison, and it is the comparison's.
LEMMA VerdictInit == Init => VerdictInv
BY DEF Init, VerdictInv

\* Nothing happens after the comparison.
LEMMA VerdictStep == TypeOK /\ VerdictInv /\ [Next]_vars => VerdictInv'
<1> SUFFICES ASSUME TypeOK, VerdictInv, [Next]_vars PROVE VerdictInv'
    OBVIOUS
<1> USE DEF scriptVars
<1>1. CASE Conclude
    <2>1. decided' = decided /\ divergences' = divergences
        BY <1>1 DEF Conclude, divergences
    <2>2. /\ run' = "compared" /\ pc' = "ended" /\ caller' = caller /\ status' = status
          /\ verdict' = IF caller = "cli" /\ status # "completed" THEN "none"
                        ELSE IF divergences = {} THEN "match" ELSE "diverged"
        BY <1>1 DEF Conclude
    <2> QED
        BY <2>1, <2>2 DEF VerdictInv
<1>2. CASE UNCHANGED vars
    <2>1. divergences' = divergences
        BY <1>2 DEF vars, divergences
    <2> QED
        BY <1>2, <2>1 DEF vars, VerdictInv
<1>3. CASE \/ BeginTurn \/ ExhaustTurns \/ ModelResponds \/ ReplayResponds \/ ReplayFails
           \/ Decide \/ EvaluationFails \/ BreakOff \/ StartReplay
    <2>1. run # "compared" /\ run' # "compared" /\ verdict' = verdict
        BY <1>3 DEF VerdictInv, BeginTurn, ExhaustTurns, ModelResponds, ReplayResponds,
            ReplayFails, Decide, EvaluationFails, BreakOff, StartReplay
    <2> QED
        BY <2>1 DEF VerdictInv
<1> QED
    BY <1>1, <1>2, <1>3 DEF Next

ReplayInv == TypeOK /\ NothingReplayed /\ VerdictInv /\ MirrorInv

\* In every state the two runs are at places of the recorded responses.
LEMMA ReplayInvariant == Spec => []ReplayInv
<1>1. Init => ReplayInv
    BY TypeInit, NothingInit, VerdictInit, MirrorInit DEF ReplayInv
<1>2. ReplayInv /\ [Next]_vars => ReplayInv'
    BY TypeStep, NothingStep, VerdictStep, MirrorStep DEF ReplayInv
<1> QED
    BY <1>1, <1>2, PTL DEF Spec

-----------------------------------------------------------------------------
(* The comparison.                                                          *)

\* Traces that agree as far as both go differ at no index both have.
LEMMA NoDifference ==
    ASSUME NEW expected \in Seq(Decisions), NEW actual \in Seq(Decisions),
           \A i \in DOMAIN expected \cap DOMAIN actual : expected[i] = actual[i],
           NEW i \in Nat \ {0}, i <= Len(expected), i <= Len(actual)
    PROVE  Difference(expected, actual, i) = "none"
<1>1. /\ Len(expected) \in Nat /\ Len(actual) \in Nat
      /\ i \in DOMAIN expected \cap DOMAIN actual
    OBVIOUS
<1>2. expected[i].call = actual[i].call
    BY <1>1
<1>3. ~(i > Len(expected)) /\ ~(i > Len(actual))
    BY <1>1
<1> QED
    BY <1>2, <1>3 DEF Difference

\* Traces of one length that agree do not diverge.
LEMMA EqualLengths ==
    ASSUME NEW expected \in Seq(Decisions), NEW actual \in Seq(Decisions),
           \A i \in DOMAIN expected \cap DOMAIN actual : expected[i] = actual[i],
           Len(expected) = Len(actual)
    PROVE  Divergences(expected, actual) = {}
<1>1. ASSUME NEW i \in DOMAIN expected
      PROVE  Difference(expected, actual, i) = "none"
    BY NoDifference
<1>2. ~(Len(expected) > Len(actual)) /\ DOMAIN actual = DOMAIN expected
    OBVIOUS
<1>3. {i \in DOMAIN actual : Difference(expected, actual, i) # "none"} = {}
    BY <1>1, <1>2
<1> QED
    BY <1>2, <1>3 DEF Divergences

\* A trace that goes on where the other ends diverges by its next decision.
LEMMA LongerReplay ==
    ASSUME NEW expected \in Seq(Decisions), NEW actual \in Seq(Decisions),
           \A i \in DOMAIN expected \cap DOMAIN actual : expected[i] = actual[i],
           Len(expected) < Len(actual)
    PROVE  \A d \in Divergences(expected, actual) :
              d.reason = "extra" /\ d.turn = actual[Len(expected) + 1].turn
<1> DEFINE next == Len(expected) + 1
           differing == {i \in DOMAIN actual : Difference(expected, actual, i) # "none"}
<1>1. /\ Len(expected) \in Nat /\ Len(actual) \in Nat /\ DOMAIN actual = 1 .. Len(actual)
      /\ next \in 1 .. Len(actual) /\ next > Len(expected) /\ ~(next > Len(actual))
      /\ ~(Len(expected) > Len(actual))
    OBVIOUS
<1>2. Difference(expected, actual, next) = "extra"
    BY <1>1 DEF Difference
<1>3. next \in differing
    BY <1>1, <1>2
<1>4. ASSUME NEW i \in differing
      PROVE  next <= i
    <2>1. i \in 1 .. Len(actual) /\ Difference(expected, actual, i) # "none"
        BY <1>1
    <2>2. ~(i <= Len(expected))
        BY <1>1, <2>1, NoDifference
    <2> QED
        BY <1>1, <2>1, <2>2
<1>5. Min(differing) = next
    <2>1. differing \subseteq Int
        BY <1>1
    <2> HIDE DEF differing
    <2>2. \A x \in differing : (\A y \in differing : x <= y) => x = next
        BY <1>1, <1>3, <1>4, <2>1
    <2> QED
        BY <1>3, <1>4, <2>2 DEF Min
<1>6. Divergences(expected, actual) =
          {[index |-> next, reason |-> "extra", turn |-> actual[next].turn]}
    BY <1>1, <1>2, <1>3, <1>5 DEF Divergences
<1> QED
    BY <1>6

\* Two runs that stop at one place match.
LEMMA SamePlaceMatches ==
    ASSUME TypeOK, Agree, NEW offset, NEW t, NEW p,
           HoldsUpTo(decided.recorded, offset, t, p), HoldsUpTo(decided.replayed, offset, t, p)
    PROVE  divergences = {}
BY Counts, EqualLengths DEF HoldsUpTo, divergences, Agree

\* A replay that gets further in the turn in which the recording was broken off
\* diverges by that turn's next call.
LEMMA FurtherPlaceIsExtra ==
    ASSUME TypeOK, Agree, NEW offset \in [1 .. (heard + 1) -> Nat], IsOffset(offset),
           NEW t \in 1 .. heard, NEW q \in Nat, NEW p \in Nat, q < p, p <= CallsIn(t),
           HoldsUpTo(decided.recorded, offset, t, q),
           \/ HoldsUpTo(decided.replayed, offset, t, p)
           \/ p = CallsIn(t) /\ HoldsUpTo(decided.replayed, offset, t + 1, 0)
    PROVE  \A d \in divergences : d.reason = "extra" /\ d.turn = t
<1>1. /\ heard \in Nat /\ CallsIn(t) \in Nat
      /\ decided.recorded \in Seq(Decisions) /\ decided.replayed \in Seq(Decisions)
    BY Counts
<1>2. offset[t] \in Nat /\ offset[t + 1] = offset[t] + CallsIn(t)
    <2>1. t \in 1 .. (heard + 1)
        BY <1>1
    <2> QED
        BY <2>1 DEF IsOffset
<1>3. Len(decided.recorded) = offset[t] + q
    BY DEF HoldsUpTo
<1>4. /\ Len(decided.replayed) = offset[t] + p
      /\ decided.replayed[offset[t] + (q + 1)] = Decision(t, q + 1)
    <2>1. q + 1 \in 1 .. p /\ q + 1 \in 1 .. CallsIn(t) /\ t \in 1 .. (t + 1 - 1)
        BY <1>1
    <2>2. CASE HoldsUpTo(decided.replayed, offset, t, p)
        BY <2>1, <2>2 DEF HoldsUpTo
    <2>3. CASE p = CallsIn(t) /\ HoldsUpTo(decided.replayed, offset, t + 1, 0)
        BY <1>1, <1>2, <2>1, <2>3 DEF HoldsUpTo
    <2> QED
        BY <2>2, <2>3
<1>5. Len(decided.recorded) + 1 = offset[t] + (q + 1)
    BY <1>2, <1>3
<1>6. Len(decided.recorded) < Len(decided.replayed)
    BY <1>2, <1>3, <1>4
<1>7. Decision(t, q + 1).turn = t
    BY DEF Decision
<1>8. \A d \in Divergences(decided.recorded, decided.replayed) :
          d.reason = "extra" /\ d.turn = decided.replayed[Len(decided.recorded) + 1].turn
    BY <1>1, <1>6, LongerReplay DEF Agree
<1>9. decided.replayed[Len(decided.recorded) + 1].turn = t
    BY <1>4, <1>5, <1>7
<1> QED
    BY <1>8, <1>9 DEF divergences

-----------------------------------------------------------------------------
(* The verdict.                                                             *)

\* The two runs have ended, the recorded one at the first place and the replay at
\* the second.
ComparedAt(offset, u, q, t, p) ==
    /\ HoldsUpTo(decided.recorded, offset, u, q)
    /\ HoldsUpTo(decided.replayed, offset, t, p)
    /\ u \in {heard, heard + 1} /\ heard <= MostTurns(config)
    /\ Passed(u, q) /\ EndsAt(config, ended.status, ended.turns, u, q)
    /\ Passed(t, p) /\ EndsAt(Limits, status, turns, t, p)
    /\ status = "failed" /\ t <= heard => responses[t][p + 1] \in Raising
    /\ status = "completed" => consumed = turns

\* When the runs are compared each of them is at a place where it could end.
LEMMA Compared ==
    ASSUME ReplayInv, run = "compared", ~scripted
    PROVE  \E offset \in [1 .. (heard + 1) -> Nat] : \E u, t \in 1 .. (heard + 1) :
           \E q \in 0 .. CallsIn(u) : \E p \in 0 .. CallsIn(t) :
              IsOffset(offset) /\ ComparedAt(offset, u, q, t, p)
<1>1. /\ Replaying /\ pc = "ended"
    BY DEF ReplayInv, VerdictInv, Replaying
<1>2. PICK offset \in [1 .. (heard + 1) -> Nat] :
          IsOffset(offset) /\ RecordedMirrored(offset) /\ ReplayMirrored(offset)
    BY <1>1 DEF ReplayInv, MirrorInv
<1>3. PICK u \in 1 .. (heard + 1) : \E q \in 0 .. CallsIn(u) :
          RecordedPlace(u, q) /\ HoldsUpTo(decided.recorded, offset, u, q)
    BY <1>2 DEF RecordedMirrored
<1>4. PICK q \in 0 .. CallsIn(u) :
          RecordedPlace(u, q) /\ HoldsUpTo(decided.recorded, offset, u, q)
    BY <1>3
<1>5. PICK t \in 1 .. (heard + 1) : \E p \in 0 .. CallsIn(t) :
          ReplayPlace(t, p) /\ HoldsUpTo(decided.replayed, offset, t, p)
    BY <1>2 DEF ReplayMirrored
<1>6. PICK p \in 0 .. CallsIn(t) :
          ReplayPlace(t, p) /\ HoldsUpTo(decided.replayed, offset, t, p)
    BY <1>5
<1>7. /\ u \in {heard, heard + 1} /\ heard <= MostTurns(config)
      /\ Passed(u, q) /\ EndsAt(config, ended.status, ended.turns, u, q)
    BY <1>4 DEF RecordedPlace
<1>8. /\ Passed(t, p) /\ EndsAt(Limits, status, turns, t, p)
      /\ status = "failed" /\ t <= heard => responses[t][p + 1] \in Raising
      /\ status = "completed" => consumed = turns
    BY <1>1, <1>6 DEF ReplayPlace
<1>9. ComparedAt(offset, u, q, t, p)
    BY <1>4, <1>6, <1>7, <1>8 DEF ComparedAt
<1> QED
    BY <1>2, <1>9

\* A recorded run that completed is replayed to the same end.
LEMMA CompletedRun == ReplayInv => CompletedRunMatches
<1> SUFFICES ASSUME ReplayInv, run = "compared", ~scripted, ended.status = "completed",
                    caller = "cli" => ended.turns <= DefaultMaxTurns + 1
             PROVE  verdict = "match" /\ status = "completed" /\ turns = ended.turns
    BY DEF CompletedRunMatches
<1>1. PICK offset \in [1 .. (heard + 1) -> Nat] : \E u, t \in 1 .. (heard + 1) :
          \E q \in 0 .. CallsIn(u) : \E p \in 0 .. CallsIn(t) :
              IsOffset(offset) /\ ComparedAt(offset, u, q, t, p)
    BY Compared
<1>2. PICK u \in 1 .. (heard + 1), t \in 1 .. (heard + 1) :
          \E q \in 0 .. CallsIn(u) : \E p \in 0 .. CallsIn(t) :
              ComparedAt(offset, u, q, t, p)
    BY <1>1
<1>3. PICK q \in 0 .. CallsIn(u), p \in 0 .. CallsIn(t) : ComparedAt(offset, u, q, t, p)
    BY <1>2
<1>4. TypeOK /\ heard \in Nat /\ CallsIn(t) \in Nat
    <2>1. TypeOK
        BY DEF ReplayInv
    <2> QED
        BY <2>1, Counts
<1>5. u = ended.turns /\ q = 0 /\ u <= heard /\ responses[u] = <<>>
    BY <1>3 DEF ComparedAt, EndsAt
<1>6. u = heard /\ heard \in 1 .. heard /\ CallsIn(heard) = 0
    <2>1. u = heard /\ heard \in 1 .. heard
        BY <1>3, <1>4, <1>5 DEF ComparedAt
    <2> QED
        BY <1>4, <1>5, <2>1, Counts
<1>7. ASSUME NEW s \in 1 .. heard, s # heard
      PROVE  responses[s] # <<>> /\ \A k \in 1 .. CallsIn(s) : responses[s][k] \notin Raising
    <2>1. s \in 1 .. (u - 1)
        BY <1>4, <1>6, <1>7
    <2> QED
        BY <1>3, <2>1 DEF ComparedAt, Passed
<1>8. t \in 1 .. heard
    <2>1. ASSUME t = heard + 1
          PROVE  FALSE
        <3>1. heard \in 1 .. (t - 1)
            BY <1>4, <1>6, <2>1
        <3>2. responses[heard] # <<>>
            BY <1>3, <3>1 DEF ComparedAt, Passed
        <3> QED
            BY <1>5, <1>6, <3>2
    <2> QED
        BY <1>4, <2>1
<1>9. /\ heard <= Limits.max_turns + 1
      /\ ~Limits.finalization_turn => heard <= Limits.max_turns
      /\ Limits.max_turns \in Nat
    <2>1. /\ Limits.max_turns \in Nat /\ config.max_turns \in Nat
          /\ MostTurns(config) \in {config.max_turns, config.max_turns + 1}
        BY <1>4, LimitTypes
    <2>2. CASE caller = "eval"
        <3>1. Limits = config
            BY <2>2 DEF Limits
        <3>2. ~config.finalization_turn => MostTurns(config) = config.max_turns
            BY <2>1 DEF MostTurns
        <3> QED
            BY <1>3, <1>4, <2>1, <3>1, <3>2 DEF ComparedAt
    <2>3. CASE caller = "cli"
        <3>1. Limits = Default
            BY <2>3 DEF Limits
        <3>2. Default.max_turns = DefaultMaxTurns /\ Default.finalization_turn
            BY DEF Default
        <3> QED
            BY <1>5, <1>6, <2>1, <2>3, <3>1, <3>2
    <2> QED
        BY <1>4, <2>2, <2>3 DEF TypeOK
<1>10. status = "completed" /\ t = turns /\ p = 0 /\ t = heard
    <2>1. CASE status = "completed" /\ t = turns /\ p = 0 /\ responses[t] = <<>>
        BY <1>7, <1>8, <2>1
    <2>2. CASE t = turns + 1 /\ turns = Limits.max_turns /\ ~Limits.finalization_turn
        BY <1>4, <1>8, <1>9, <2>2
    <2>3. CASE t = turns /\ responses[t] # <<>> /\ turns = Limits.max_turns + 1
        <3>1. t = heard
            BY <1>4, <1>8, <1>9, <2>3
        <3> QED
            BY <1>5, <1>6, <2>3, <3>1
    <2>4. CASE t = heard + 1
        BY <1>4, <1>8, <2>4
    <2>5. CASE status = "failed" /\ p < CallsIn(t)
        <3>1. t # heard /\ p + 1 \in 1 .. CallsIn(t)
            BY <1>4, <1>6, <2>5
        <3>2. responses[t][p + 1] \in Raising
            <4>1. t <= heard
                BY <1>8
            <4> QED
                BY <1>3, <2>5, <4>1 DEF ComparedAt
        <3> QED
            BY <1>7, <1>8, <3>1, <3>2
    <2> QED
        BY <1>3, <2>1, <2>2, <2>3, <2>4, <2>5 DEF ComparedAt, EndsAt
<1>11. divergences = {}
    <2>1. Agree
        BY DEF ReplayInv, MirrorInv, Replaying
    <2>2. HoldsUpTo(decided.recorded, offset, t, p)
        BY <1>3, <1>5, <1>6, <1>10 DEF ComparedAt
    <2> QED
        BY <1>3, <1>4, <2>1, <2>2, SamePlaceMatches DEF ComparedAt
<1> QED
    BY <1>5, <1>6, <1>10, <1>11 DEF ReplayInv, VerdictInv

\* Under one configuration a run that was not broken off inside a turn is replayed
\* to the same place, and one that was goes on in that turn only.
LEMMA SamePlaceOrFurther ==
    ASSUME ReplayInv, run = "compared", ~scripted, caller = "eval",
           NEW offset, NEW u \in 1 .. (heard + 1), NEW t \in 1 .. (heard + 1),
           NEW q \in 0 .. CallsIn(u), NEW p \in 0 .. CallsIn(t),
           ComparedAt(offset, u, q, t, p)
    PROVE  \/ t = u /\ p = q
           \/ /\ ended.status = "failed" /\ u = ended.turns /\ u = heard
              /\ q < CallsIn(u)
              /\ \/ t = u /\ q < p
                 \/ t = u + 1 /\ p = 0
<1>1. TypeOK /\ Limits = config
    BY DEF ReplayInv, Limits
<1>2. /\ heard \in Nat /\ CallsIn(t) \in Nat /\ CallsIn(u) \in Nat
      /\ config.max_turns \in Nat /\ MostTurns(config) \in Nat
      /\ MostTurns(config) <= config.max_turns + 1
      /\ ~config.finalization_turn => MostTurns(config) = config.max_turns
    <2>1. /\ config.max_turns \in Nat
          /\ MostTurns(config) \in {config.max_turns, config.max_turns + 1}
        BY <1>1, LimitTypes
    <2>2. ~config.finalization_turn => MostTurns(config) = config.max_turns
        BY <2>1 DEF MostTurns
    <2> QED
        BY <1>1, <2>1, <2>2, Counts
<1>3. /\ u \in {heard, heard + 1} /\ heard <= MostTurns(config)
      /\ status = "failed" /\ t <= heard => responses[t][p + 1] \in Raising
    BY DEF ComparedAt
<1>4. ASSUME NEW s \in 1 .. heard, s < u
      PROVE  responses[s] # <<>> /\ \A k \in 1 .. CallsIn(s) : responses[s][k] \notin Raising
    <2>1. s \in 1 .. (u - 1)
        BY <1>2, <1>4
    <2> QED
        BY <2>1 DEF ComparedAt, Passed
<1>5. ASSUME NEW k \in 1 .. q
      PROVE  responses[u][k] \notin Raising
    BY DEF ComparedAt, Passed
\* Where the replay can have ended.
<1>6. \/ t <= heard /\ p = 0 /\ responses[t] = <<>>
      \/ t = config.max_turns + 1 /\ p = 0 /\ ~config.finalization_turn
      \/ t = config.max_turns + 1 /\ p = 0 /\ t <= heard /\ responses[t] # <<>>
      \/ t = heard + 1 /\ p = 0 /\ t <= config.max_turns + 1
      \/ /\ t <= heard /\ t <= config.max_turns
         /\ p + 1 \in 1 .. CallsIn(t) /\ responses[t][p + 1] \in Raising
    <2>1. CASE status = "completed" /\ t <= heard /\ p = 0 /\ responses[t] = <<>>
        BY <2>1
    <2>2. CASE t = turns + 1 /\ p = 0 /\ turns = config.max_turns /\ ~config.finalization_turn
        BY <2>2
    <2>3. CASE /\ t = turns /\ p = 0 /\ t <= heard /\ responses[t] # <<>>
               /\ turns = config.max_turns + 1
        BY <2>3
    <2>4. CASE t = heard + 1 /\ p = 0 /\ t <= config.max_turns + 1
        BY <2>4
    <2>5. CASE /\ status = "failed" /\ t = turns /\ p < CallsIn(t) /\ t <= heard
               /\ turns <= config.max_turns
        <3>1. responses[t][p + 1] \in Raising
            BY <1>3, <2>5
        <3>2. p + 1 \in 1 .. CallsIn(t)
            BY <1>2, <2>5
        <3> QED
            BY <2>5, <3>1, <3>2
    <2> QED
        BY <1>1, <2>1, <2>2, <2>3, <2>4, <2>5 DEF ComparedAt, EndsAt
\* It has not ended before the recorded run did.
<1>7. ASSUME t <= heard, t < u
      PROVE  t = config.max_turns + 1 /\ p = 0
    <2>1. /\ responses[t] # <<>>
          /\ \A k \in 1 .. CallsIn(t) : responses[t][k] \notin Raising
        <3>1. t \in 1 .. heard
            BY <1>2, <1>7
        <3> QED
            BY <1>4, <1>7, <3>1
    <2> QED
        BY <1>2, <1>6, <1>7, <2>1
<1>8. ASSUME t <= heard, t < u
      PROVE  FALSE
    <2>1. t = config.max_turns + 1 /\ heard <= config.max_turns + 1
        BY <1>2, <1>3, <1>7, <1>8
    <2>2. t = heard /\ u = heard + 1
        BY <1>2, <1>3, <1>8, <2>1
    <2>3. CASE u = config.max_turns + 1
        BY <1>2, <2>1, <2>2, <2>3
    <2>4. CASE u <= config.max_turns + 1
        BY <1>2, <2>1, <2>2, <2>4
    <2>5. CASE u <= heard
        BY <1>2, <2>2, <2>5
    <2> QED
        BY <2>3, <2>4, <2>5 DEF ComparedAt, EndsAt
<1>9. t >= u /\ t <= heard + 1
    BY <1>2, <1>3, <1>8
\* Where the recorded run can have ended.
<1>10. CASE u <= heard /\ q = 0 /\ responses[u] = <<>>
    <2>1. u = heard /\ CallsIn(u) = 0
        BY <1>1, <1>2, <1>3, <1>10, Counts
    <2>2. t # heard + 1
        <3>1. ASSUME t = heard + 1
              PROVE  FALSE
            <4>1. u \in 1 .. (t - 1)
                BY <1>2, <2>1, <3>1
            <4> QED
                BY <1>10, <4>1 DEF ComparedAt, Passed
        <3> QED
            BY <3>1
    <2>3. t = u /\ CallsIn(t) = 0
        BY <1>2, <1>9, <2>1, <2>2
    <2> QED
        BY <1>10, <2>3
<1>11. CASE u = config.max_turns + 1 /\ q = 0
    <2>1. CASE t = u
        <3>1. p = 0
            BY <1>2, <1>6, <1>11, <2>1
        <3> QED
            BY <1>11, <2>1, <3>1
    <2>2. CASE t # u
        <3>1. t = heard + 1 /\ u = heard
            BY <1>2, <1>3, <1>9, <2>2
        <3> QED
            BY <1>2, <1>6, <1>11, <3>1
    <2> QED
        BY <2>1, <2>2
<1>12. CASE u = heard + 1 /\ q = 0
    <2>1. t = heard + 1
        BY <1>2, <1>9, <1>12
    <2>2. p = 0
        BY <1>2, <1>6, <2>1
    <2> QED
        BY <1>12, <2>1, <2>2
<1>13. CASE /\ ended.status = "failed" /\ u = ended.turns /\ q < CallsIn(u) /\ u <= heard
            /\ ended.turns <= config.max_turns
    <2>1. u = heard
        BY <1>2, <1>3, <1>13
    <2>2. CASE t = u
        <3>1. CASE p < q
            <4>1. p + 1 \in 1 .. q /\ p + 1 \in 1 .. CallsIn(u)
                BY <1>2, <1>13, <3>1
            <4>2. responses[t] # <<>>
                <5>1. CallsIn(u) # 0
                    BY <1>2, <4>1
                <5> QED
                    BY <1>1, <1>2, <2>1, <2>2, <5>1, Counts
            <4>3. ~(t = config.max_turns + 1) /\ ~(t = heard + 1)
                BY <1>2, <1>13, <2>1, <2>2
            <4>4. responses[u][p + 1] \in Raising
                BY <1>6, <2>2, <4>2, <4>3
            <4> QED
                BY <1>5, <4>1, <4>4
        <3>2. CASE p = q
            BY <2>2, <3>2
        <3>3. CASE q < p
            BY <1>13, <2>1, <2>2, <3>3
        <3> QED
            BY <1>2, <3>1, <3>2, <3>3
    <2>3. CASE t # u
        <3>1. t = heard + 1 /\ t = u + 1
            BY <1>2, <1>9, <2>1, <2>3
        <3>2. p = 0
            BY <1>2, <1>6, <3>1
        <3> QED
            BY <1>13, <2>1, <3>1, <3>2
    <2> QED
        BY <2>2, <2>3
<1> QED
    BY <1>10, <1>11, <1>12, <1>13 DEF ComparedAt, EndsAt

\* Under one configuration a replay diverges only by going on in the turn in which
\* the recorded run was broken off.
LEMMA SameConfiguration == ReplayInv => SameConfigurationMatches
<1> SUFFICES ASSUME ReplayInv, run = "compared", caller = "eval", ~scripted,
                    verdict = "diverged"
             PROVE  /\ ended.status = "failed"
                    /\ \A d \in divergences : d.reason = "extra" /\ d.turn = ended.turns
                    /\ \A i \in DOMAIN responses : i < Len(responses) =>
                          \A k \in DOMAIN responses[i] : responses[i][k] \notin Raising
    BY DEF SameConfigurationMatches
<1>1. PICK offset \in [1 .. (heard + 1) -> Nat] : \E u, t \in 1 .. (heard + 1) :
          \E q \in 0 .. CallsIn(u) : \E p \in 0 .. CallsIn(t) :
              IsOffset(offset) /\ ComparedAt(offset, u, q, t, p)
    BY Compared
<1>2. PICK u \in 1 .. (heard + 1), t \in 1 .. (heard + 1) :
          \E q \in 0 .. CallsIn(u) : \E p \in 0 .. CallsIn(t) : ComparedAt(offset, u, q, t, p)
    BY <1>1
<1>3. PICK q \in 0 .. CallsIn(u), p \in 0 .. CallsIn(t) : ComparedAt(offset, u, q, t, p)
    BY <1>2
<1>4. /\ TypeOK /\ Agree /\ divergences # {}
      /\ heard \in Nat /\ CallsIn(u) \in Nat /\ CallsIn(t) \in Nat
    <2>1. TypeOK /\ Agree
        BY DEF ReplayInv, MirrorInv, Replaying
    <2>2. divergences # {}
        BY DEF ReplayInv, VerdictInv
    <2> QED
        BY <2>1, <2>2, Counts
<1>5. ~(t = u /\ p = q)
    BY <1>3, <1>4, SamePlaceMatches DEF ComparedAt
<1>6. /\ ended.status = "failed" /\ u = ended.turns /\ u = heard /\ q < CallsIn(u)
      /\ (t = u /\ q < p) \/ (t = u + 1 /\ p = 0)
    BY <1>3, <1>5, SamePlaceOrFurther
<1>7. \A d \in divergences : d.reason = "extra" /\ d.turn = u
    <2>1. u \in 1 .. heard /\ q \in Nat
        BY <1>4, <1>6
    <2>2. CASE t = u /\ q < p
        BY <1>1, <1>3, <1>4, <2>1, <2>2, FurtherPlaceIsExtra DEF ComparedAt
    <2>3. CASE t = u + 1 /\ p = 0
        BY <1>1, <1>3, <1>4, <1>6, <2>1, <2>3, FurtherPlaceIsExtra DEF ComparedAt
    <2> QED
        BY <1>6, <2>2, <2>3
<1>8. ASSUME NEW i \in DOMAIN responses, i < Len(responses), NEW k \in DOMAIN responses[i]
      PROVE  responses[i][k] \notin Raising
    <2>1. i \in 1 .. heard /\ i < heard
        BY <1>4, <1>8, Counts DEF heard
    <2>2. i \in 1 .. (u - 1)
        BY <1>4, <1>6, <2>1
    <2>3. DOMAIN responses[i] = 1 .. CallsIn(i)
        BY <1>4, <2>1, Counts
    <2>4. k \in 1 .. CallsIn(i)
        BY <1>8, <2>3
    <2> QED
        BY <1>3, <2>2, <2>4 DEF ComparedAt, Passed
<1> QED
    BY <1>6, <1>7, <1>8

\* A recorded run that completed within the replay's turns is replayed to the same
\* end and matches, for every set of responses and every limit: the replay gets as
\* far as the recording and cannot stop before it.
THEOREM CompletedRunIsConfirmed == Spec => []CompletedRunMatches
BY ReplayInvariant, CompletedRun, PTL

\* Under the recorded run's configuration a verdict of divergence blames only a run
\* that was broken off, and only for the calls of its last turn, whatever the
\* responses and limits are.
THEOREM DivergenceIsExplained == Spec => []SameConfigurationMatches
BY ReplayInvariant, SameConfiguration, PTL

-----------------------------------------------------------------------------
(* The place the comparison names.                                          *)

\* A set of indices has a first one.
LEMMA FirstIndex ==
    ASSUME NEW S, S \subseteq Nat, S # {}
    PROVE  Min(S) \in S /\ \A i \in S : Min(S) <= i
<1>1. PICK least \in S : \A i \in S : ~(<<i, least>> \in OpToRel(<, Nat))
    BY NatLessThanWellFounded, WFMin
<1>2. \A i \in S : ~(i < least)
    BY <1>1 DEF OpToRel
<1>3. \A i \in S : least <= i
    BY <1>2
<1> QED
    BY <1>3 DEF Min

\* The beginnings of a sequence.
LEMMA Beginnings ==
    ASSUME NEW S, NEW s \in Seq(S), NEW n \in 0 .. Len(s)
    PROVE  /\ SubSeq(s, 1, n) \in Seq(S) /\ Len(SubSeq(s, 1, n)) = n
           /\ \A i \in 1 .. n : SubSeq(s, 1, n)[i] = s[i]
OBVIOUS

\* The longest common prefix ends where two sequences part, or where one ends.
LEMMA WhereTheyPart ==
    ASSUME NEW S, NEW s \in Seq(S), NEW t \in Seq(S), NEW n \in Nat,
           n <= Len(s), n <= Len(t), \A i \in 1 .. n : s[i] = t[i],
           n = Len(s) \/ n = Len(t) \/ s[n + 1] # t[n + 1]
    PROVE  Len(LongestCommonPrefix({s, t})) = n
<1> DEFINE common == SubSeq(s, 1, n)
           prefixes == CommonPrefixes({s, t})
<1>1. /\ common \in Seq(S) /\ Len(common) = n
      /\ SubSeq(common, 1, n) = common /\ SubSeq(t, 1, n) = common
    <2>1. n \in 0 .. Len(s) /\ n \in 0 .. Len(t)
        OBVIOUS
    <2>2. /\ common \in Seq(S) /\ Len(common) = n
          /\ \A i \in 1 .. n : common[i] = s[i]
        BY <2>1, Beginnings
    <2>3. /\ SubSeq(t, 1, n) \in Seq(S) /\ Len(SubSeq(t, 1, n)) = n
          /\ \A i \in 1 .. n : SubSeq(t, 1, n)[i] = t[i]
        BY <2>1, Beginnings
    <2> HIDE DEF common
    <2>4. /\ SubSeq(common, 1, n) \in Seq(S) /\ Len(SubSeq(common, 1, n)) = n
          /\ \A i \in 1 .. n : SubSeq(common, 1, n)[i] = common[i]
        <3>1. n \in 0 .. Len(common)
            BY <2>2
        <3> QED
            BY <2>2, <3>1, Beginnings
    <2>5. \A v, w \in Seq(S) :
              Len(v) = n /\ Len(w) = n /\ (\A i \in 1 .. n : v[i] = w[i]) => v = w
        OBVIOUS
    <2>6. SubSeq(common, 1, n) = common
        BY <2>2, <2>4, <2>5
    <2>7. SubSeq(t, 1, n) = common
        BY <2>2, <2>3, <2>5
    <2> QED
        BY <2>2, <2>6, <2>7
<1>2. common \in prefixes
    <2>1. common \in Prefixes(s)
        BY DEF Prefixes
    <2>2. IsPrefix(common, s) /\ IsPrefix(common, t)
        BY <1>1 DEF IsPrefix
    <2> HIDE DEF common
    <2> QED
        BY <2>1, <2>2 DEF CommonPrefixes
<1>3. ASSUME NEW other \in prefixes
      PROVE  Len(other) \in Nat /\ Len(other) <= n
    <2>1. IsPrefix(other, s) /\ IsPrefix(other, t)
        BY DEF CommonPrefixes
    <2>2. PICK l : l = Len(other)
        OBVIOUS
    <2>3. l <= Len(s) /\ l <= Len(t) /\ SubSeq(s, 1, l) = SubSeq(t, 1, l)
        BY <2>1, <2>2 DEF IsPrefix
    <2>4. l \in Nat
        <3>1. \A seq \in {s, t} : \A k \in 0 .. Len(seq) : Len(SubSeq(seq, 1, k)) = k
            BY Beginnings
        <3>2. PICK seq \in {s, t} : other \in Prefixes(seq)
            BY DEF CommonPrefixes
        <3>3. PICK k \in 0 .. Len(seq) : other = SubSeq(seq, 1, k)
            BY <3>2 DEF Prefixes
        <3> QED
            BY <2>2, <3>1, <3>3
    <2>5. \A i \in 1 .. l : s[i] = t[i]
        <3>1. /\ \A i \in 1 .. l : SubSeq(s, 1, l)[i] = s[i]
              /\ \A i \in 1 .. l : SubSeq(t, 1, l)[i] = t[i]
            BY <2>3, <2>4, Beginnings
        <3> QED
            BY <2>3, <3>1
    <2>6. ASSUME n < l
          PROVE  FALSE
        <3>1. n + 1 \in 1 .. l
            BY <2>4, <2>6
        <3>2. Len(s) \in Nat /\ Len(t) \in Nat
            OBVIOUS
        <3> QED
            BY <2>3, <2>4, <2>5, <2>6, <3>1, <3>2
    <2> QED
        BY <2>2, <2>4, <2>6
<1> HIDE DEF common, prefixes
<1>4. \E longest \in prefixes : \A other \in prefixes : Len(other) <= Len(longest)
    BY <1>1, <1>2, <1>3
<1>5. PICK longest : longest = LongestCommonPrefix({s, t})
    OBVIOUS
<1>6. longest \in prefixes /\ \A other \in prefixes : Len(other) <= Len(longest)
    BY <1>4, <1>5 DEF LongestCommonPrefix, prefixes
<1>7. Len(longest) = n
    BY <1>1, <1>2, <1>3, <1>6
<1> QED
    BY <1>5, <1>7

\* The calls of a trace.
LEMMA CallsOfTrace ==
    ASSUME NEW events \in Seq(Decisions)
    PROVE  /\ CallsOf(events) \in Seq(Calls) /\ Len(CallsOf(events)) = Len(events)
           /\ \A i \in 1 .. Len(events) : CallsOf(events)[i] = events[i].call
<1>1. /\ DOMAIN events = 1 .. Len(events) /\ Len(events) \in Nat
      /\ \A i \in 1 .. Len(events) : events[i] \in Decisions
    OBVIOUS
<1>2. \A i \in 1 .. Len(events) : events[i].call \in Calls
    BY <1>1 DEF Decisions
<1>3. CallsOf(events) = [i \in 1 .. Len(events) |-> events[i].call]
    BY <1>1 DEF CallsOf
<1>4. CallsOf(events) \in [1 .. Len(events) -> Calls]
    BY <1>2, <1>3
<1>5. CallsOf(events) \in Seq(Calls)
    BY <1>1, <1>4
<1> QED
    BY <1>1, <1>3, <1>4, <1>5

\* The comparison finds the first place where two traces part, for any two traces.
LEMMA FirstDifference ==
    ASSUME NEW expected \in Seq(Decisions), NEW actual \in Seq(Decisions)
    PROVE  {d.index : d \in Divergences(expected, actual)} =
               IF CallsOf(expected) = CallsOf(actual) THEN {}
               ELSE {Len(LongestCommonPrefix({CallsOf(expected), CallsOf(actual)})) + 1}
<1> DEFINE longer == IF Len(expected) > Len(actual) THEN expected ELSE actual
           differing == {i \in DOMAIN longer : Difference(expected, actual, i) # "none"}
           e == CallsOf(expected)
           a == CallsOf(actual)
<1>1. /\ Len(expected) \in Nat /\ Len(actual) \in Nat
      /\ DOMAIN longer = 1 .. Len(longer) /\ Len(longer) \in Nat
      /\ Len(expected) <= Len(longer) /\ Len(actual) <= Len(longer)
      /\ Len(longer) = Len(expected) \/ Len(longer) = Len(actual)
    OBVIOUS
<1>2. /\ e \in Seq(Calls) /\ Len(e) = Len(expected)
      /\ a \in Seq(Calls) /\ Len(a) = Len(actual)
      /\ \A i \in 1 .. Len(expected) : e[i] = expected[i].call
      /\ \A i \in 1 .. Len(actual) : a[i] = actual[i].call
    BY CallsOfTrace
<1>3. {d.index : d \in Divergences(expected, actual)} =
          IF differing = {} THEN {} ELSE {Min(differing)}
    <2>1. CASE differing = {}
        <3>1. Divergences(expected, actual) = {}
            BY <2>1 DEF Divergences
        <3> QED
            BY <2>1, <3>1
    <2>2. CASE differing # {}
        <3>1. PICK d : d = [index |-> Min(differing),
                            reason |-> Difference(expected, actual, Min(differing)),
                            turn |-> IF Min(differing) > Len(actual)
                                     THEN expected[Min(differing)].turn
                                     ELSE actual[Min(differing)].turn]
            OBVIOUS
        <3>2. Divergences(expected, actual) = {d}
            BY <2>2, <3>1 DEF Divergences
        <3>3. d.index = Min(differing)
            BY <3>1
        <3> QED
            BY <2>2, <3>2, <3>3
    <2> QED
        BY <2>1, <2>2
<1> HIDE DEF longer, e, a
<1>4. ASSUME NEW i \in 1 .. Len(longer), Difference(expected, actual, i) = "none"
      PROVE  i \in 1 .. Len(e) /\ i \in 1 .. Len(a) /\ e[i] = a[i]
    <2>1. ~(i > Len(expected)) /\ ~(i > Len(actual))
        BY <1>4 DEF Difference
    <2>2. i \in 1 .. Len(expected) /\ i \in 1 .. Len(actual)
        BY <1>1, <2>1
    <2>3. expected[i].call = actual[i].call
        BY <1>4, <2>1 DEF Difference
    <2> QED
        BY <1>2, <2>2, <2>3
<1>5. ASSUME NEW i \in 1 .. Len(longer), Difference(expected, actual, i) # "none"
      PROVE  i > Len(e) \/ i > Len(a) \/ e[i] # a[i]
    <2>1. \/ i > Len(expected) \/ i > Len(actual)
          \/ expected[i].call # actual[i].call
        BY <1>5 DEF Difference
    <2>2. ~(i > Len(expected)) => i \in 1 .. Len(expected)
        BY <1>1
    <2>3. ~(i > Len(actual)) => i \in 1 .. Len(actual)
        BY <1>1
    <2> QED
        BY <1>2, <2>1, <2>2, <2>3
<1>6. CASE differing = {}
    <2>1. \A i \in 1 .. Len(longer) : i \in 1 .. Len(e) /\ i \in 1 .. Len(a) /\ e[i] = a[i]
        BY <1>1, <1>4, <1>6
    <2>2. Len(e) = Len(a)
        BY <1>1, <1>2, <2>1
    <2>3. \A i \in 1 .. Len(e) : e[i] = a[i]
        BY <1>1, <1>2, <2>1, <2>2
    <2>4. e = a
        BY <1>2, <2>2, <2>3
    <2> QED
        BY <1>3, <1>6, <2>4 DEF e, a
<1>7. CASE differing # {}
    <2>1. differing \subseteq Nat /\ differing \subseteq 1 .. Len(longer)
        BY <1>1
    <2>2. PICK first : first = Min(differing)
        OBVIOUS
    <2>3. first \in differing /\ \A i \in differing : first <= i
        BY <1>7, <2>1, <2>2, FirstIndex
    <2>4. first \in 1 .. Len(longer) /\ first - 1 \in Nat
        BY <1>1, <2>1, <2>3
    <2>5. ASSUME NEW i \in 1 .. (first - 1)
          PROVE  i \in 1 .. Len(e) /\ i \in 1 .. Len(a) /\ e[i] = a[i]
        <3>1. i \in 1 .. Len(longer) /\ ~(first <= i)
            BY <1>1, <2>4
        <3>2. i \notin differing
            BY <2>3, <3>1
        <3>3. Difference(expected, actual, i) = "none"
            BY <1>1, <3>1, <3>2
        <3> QED
            BY <1>4, <3>1, <3>3
    <2>6. first > Len(e) \/ first > Len(a) \/ e[first] # a[first]
        BY <1>5, <2>3, <2>4
    <2>7. first - 1 <= Len(e) /\ first - 1 <= Len(a)
        <3>1. first - 1 = 0 \/ first - 1 \in 1 .. (first - 1)
            BY <2>4
        <3>2. Len(e) \in Nat /\ Len(a) \in Nat
            BY <1>1, <1>2
        <3> QED
            BY <2>4, <2>5, <3>1, <3>2
    <2>8. first - 1 = Len(e) \/ first - 1 = Len(a) \/ e[(first - 1) + 1] # a[(first - 1) + 1]
        <3>1. Len(e) \in Nat /\ Len(a) \in Nat /\ (first - 1) + 1 = first
            BY <1>1, <1>2, <2>4
        <3> QED
            BY <2>4, <2>6, <2>7, <3>1
    <2>9. Len(LongestCommonPrefix({e, a})) = first - 1
        <3>1. \A i \in 1 .. (first - 1) : e[i] = a[i]
            BY <2>5
        <3> QED
            BY <1>2, <2>4, <2>7, <2>8, <3>1, WhereTheyPart
    <2>10. e # a
        <3>1. first - 1 + 1 = first /\ Len(e) \in Nat /\ Len(a) \in Nat
            BY <1>1, <1>2, <2>4
        <3>2. Len(e) = Len(a) => Len(longer) = Len(e)
            BY <1>1, <1>2
        <3> QED
            BY <2>4, <2>6, <3>1, <3>2
    <2>11. Len(LongestCommonPrefix({e, a})) + 1 = first
        BY <2>4, <2>9
    <2> HIDE DEF differing
    <2>12. {d.index : d \in Divergences(expected, actual)} = {first}
        BY <1>3, <1>7, <2>2
    <2> QED
        BY <2>10, <2>11, <2>12 DEF e, a
<1> QED
    BY <1>6, <1>7

\* Whatever two traces hold, the caller is told the place where their calls first
\* part, and none if they are the same.
THEOREM DivergenceIsFirst == Spec => []DivergenceIsTheFirst
<1>1. TypeOK => DivergenceIsTheFirst
    <2> SUFFICES ASSUME TypeOK PROVE DivergenceIsTheFirst
        OBVIOUS
    <2> QED
        BY Counts, FirstDifference DEF DivergenceIsTheFirst, divergences
<1> QED
    BY <1>1, ReplayTypeCorrect, PTL

-----------------------------------------------------------------------------
(* The calls of a whole run.                                                *)

Flattens(f, seqs) ==
    f = [i \in 1 .. Len(seqs) |-> IF i = 1 THEN seqs[i] ELSE f[i - 1] \o seqs[i]]

\* Responses put one after the other are what a function that does so comes to.
LEMMA Flattened ==
    ASSUME NEW S, NEW seqs \in Seq(S), Len(seqs) # 0, NEW f, Flattens(f, seqs)
    PROVE  FlattenSeq(seqs) = f[Len(seqs)]
<1> DEFINE flatten[i \in 1 .. Len(seqs)] ==
        IF i = 1 THEN seqs[i] ELSE flatten[i - 1] \o seqs[i]
<1>1. FlattenSeq(seqs) = flatten[Len(seqs)]
    BY DEF FlattenSeq
<1>2. PICK g : g = (CHOOSE h : Flattens(h, seqs))
    OBVIOUS
<1>3. flatten = g
    BY <1>2 DEF Flattens
<1> HIDE DEF flatten
<1>4. Flattens(g, seqs)
    BY <1>2
<1>5. Len(seqs) \in Nat \ {0}
    OBVIOUS
<1>6. ASSUME {i \in 1 .. Len(seqs) : g[i] # f[i]} # {}
      PROVE  FALSE
    <2>1. PICK first \in {i \in 1 .. Len(seqs) : g[i] # f[i]} :
              \A i \in {j \in 1 .. Len(seqs) : g[j] # f[j]} : first <= i
        <3>1. {i \in 1 .. Len(seqs) : g[i] # f[i]} \subseteq Nat
            OBVIOUS
        <3> QED
            BY <1>6, <3>1, FirstIndex
    <2>2. g[first] = IF first = 1 THEN seqs[first] ELSE g[first - 1] \o seqs[first]
        BY <1>4 DEF Flattens
    <2>3. f[first] = IF first = 1 THEN seqs[first] ELSE f[first - 1] \o seqs[first]
        BY DEF Flattens
    <2>4. first # 1 /\ first \in Nat /\ first \in 1 .. Len(seqs)
        BY <2>1, <2>2, <2>3
    <2>5. first - 1 \in 1 .. Len(seqs) /\ ~(first <= first - 1)
        BY <1>5, <2>4
    <2>6. g[first - 1] = f[first - 1]
        BY <2>1, <2>5
    <2> QED
        BY <2>1, <2>2, <2>3, <2>6
<1>7. g[Len(seqs)] = f[Len(seqs)]
    BY <1>5, <1>6
<1> QED
    BY <1>1, <1>3, <1>7

\* What begins with one sequence and goes on with another is the one put before
\* the other.
LEMMA Joined ==
    ASSUME NEW S, NEW v \in Seq(S), NEW w \in Seq(S), NEW whole \in Seq(S),
           Len(whole) = Len(v) + Len(w),
           \A i \in 1 .. Len(v) : whole[i] = v[i],
           \A k \in 1 .. Len(w) : whole[Len(v) + k] = w[k]
    PROVE  whole = v \o w
<1>1. /\ v \o w \in Seq(S) /\ Len(v \o w) = Len(v) + Len(w)
      /\ \A i \in 1 .. (Len(v) + Len(w)) :
            (v \o w)[i] = IF i <= Len(v) THEN v[i] ELSE w[i - Len(v)]
    OBVIOUS
<1>2. PICK joined \in Seq(S) : joined = v \o w
    BY <1>1
<1>3. ASSUME NEW i \in 1 .. Len(whole)
      PROVE  whole[i] = joined[i]
    <2>1. Len(v) \in Nat /\ Len(w) \in Nat /\ i \in 1 .. (Len(v) + Len(w))
        OBVIOUS
    <2>2. CASE i <= Len(v)
        BY <1>1, <1>2, <2>1, <2>2
    <2>3. CASE ~(i <= Len(v))
        <3>1. PICK k \in 1 .. Len(w) : i = Len(v) + k
            <4>1. i - Len(v) \in 1 .. Len(w) /\ i = Len(v) + (i - Len(v))
                BY <2>1, <2>3
            <4> QED
                BY <4>1
        <3>2. i - Len(v) = k
            BY <2>1, <3>1
        <3> QED
            BY <1>1, <1>2, <2>1, <2>3, <3>1, <3>2
    <2> QED
        BY <2>2, <2>3
<1>4. Len(joined) = Len(whole)
    BY <1>1, <1>2
<1>5. whole = joined
    BY <1>3, <1>4
<1> QED
    BY <1>2, <1>5

\* A trace of all turns holds the calls of the responses one after the other.
LEMMA WholeTrace ==
    ASSUME TypeOK, NEW offset \in [1 .. (heard + 1) -> Nat], IsOffset(offset), heard # 0,
           NEW events \in Seq(Decisions), HoldsUpTo(events, offset, heard + 1, 0),
           \A s \in 1 .. heard : s = heard \/ responses[s] # <<>>
    PROVE  CallsOf(events) = FlattenSeq(responses)
<1>1. heard \in Nat /\ heard \in 1 .. heard
    BY Counts
<1>2. PICK calls \in Seq(Calls) :
          /\ calls = CallsOf(events) /\ Len(calls) = Len(events)
          /\ \A i \in 1 .. Len(events) : calls[i] = events[i].call
    BY CallsOfTrace
<1>3. Len(calls) = offset[heard + 1] /\ Len(calls) \in Nat
    BY <1>1, <1>2 DEF HoldsUpTo
<1>4. ASSUME NEW s \in 1 .. heard
      PROVE  /\ offset[s] \in Nat /\ CallsIn(s) \in Nat
             /\ offset[s + 1] = offset[s] + CallsIn(s)
             /\ offset[s + 1] \in 0 .. Len(calls)
             /\ \A k \in 1 .. CallsIn(s) :
                   offset[s] + k \in 1 .. Len(calls) /\ calls[offset[s] + k] = responses[s][k]
    <2>1. offset[s] \in Nat /\ CallsIn(s) \in Nat /\ offset[s + 1] = offset[s] + CallsIn(s)
        <3>1. s \in 1 .. (heard + 1) /\ s \in Nat \ {0}
            BY <1>1
        <3> QED
            BY <3>1, Counts DEF IsOffset
    <2>2. ASSUME NEW k \in 1 .. CallsIn(s)
          PROVE  offset[s] + k \in 1 .. Len(calls) /\ calls[offset[s] + k] = responses[s][k]
        <3>1. PICK end : end = heard + 1
            OBVIOUS
        <3>2. HoldsUpTo(events, offset, end, 0)
            BY <3>1
        <3>3. s \in 1 .. (end - 1)
            BY <1>1, <3>1
        <3>4. offset[s] + k \in 1 .. Len(events) /\ events[offset[s] + k] = Decision(s, k)
            BY <3>2, <3>3 DEF HoldsUpTo
        <3> QED
            BY <1>2, <3>4 DEF Decision
    <2>3. offset[s + 1] \in 0 .. Len(calls)
        <3>1. CASE s = heard
            BY <1>3, <2>1, <3>1
        <3>2. CASE s # heard
            <4>1. CallsIn(s) # 0
                BY <3>2, Counts
            <4>2. offset[s] + CallsIn(s) \in 1 .. Len(calls)
                BY <2>1, <2>2, <4>1
            <4> QED
                BY <2>1, <4>2
        <3> QED
            BY <3>1, <3>2
    <2> QED
        BY <2>1, <2>2, <2>3
<1>5. ASSUME NEW s \in 1 .. heard
      PROVE  /\ responses[s] \in Seq(Calls) /\ Len(responses[s]) = CallsIn(s)
             /\ SubSeq(calls, 1, offset[s + 1]) \in Seq(Calls)
             /\ Len(SubSeq(calls, 1, offset[s + 1])) = offset[s] + CallsIn(s)
             /\ \A i \in 1 .. (offset[s] + CallsIn(s)) :
                   SubSeq(calls, 1, offset[s + 1])[i] = calls[i]
    <2>1. responses[s] \in Seq(Calls) /\ Len(responses[s]) = CallsIn(s)
        BY Counts
    <2> QED
        BY <1>4, <2>1, Beginnings
<1>6. \A v, w \in Seq(Calls) :
          Len(v) = Len(w) /\ (\A i \in 1 .. Len(v) : v[i] = w[i]) => v = w
    OBVIOUS
<1>7. SubSeq(calls, 1, offset[1 + 1]) = responses[1]
    <2>1. 1 \in 1 .. heard /\ offset[1] = 0
        BY <1>1 DEF IsOffset
    <2>2. \A k \in 1 .. CallsIn(1) : calls[k] = responses[1][k]
        BY <1>4, <2>1
    <2>3. CallsIn(1) \in Nat /\ 0 + CallsIn(1) = CallsIn(1)
        BY <1>4, <2>1
    <2> QED
        BY <1>5, <1>6, <2>1, <2>2, <2>3
<1>8. ASSUME NEW s \in 1 .. heard, s # 1
      PROVE  SubSeq(calls, 1, offset[s + 1]) = SubSeq(calls, 1, offset[s]) \o responses[s]
    <2>1. PICK r \in 1 .. heard : s = r + 1
        <3>1. s - 1 \in 1 .. heard /\ s = (s - 1) + 1
            BY <1>1, <1>8
        <3> QED
            BY <3>1
    <2>2. /\ SubSeq(calls, 1, offset[s]) \in Seq(Calls)
          /\ Len(SubSeq(calls, 1, offset[s])) = offset[s]
          /\ \A i \in 1 .. offset[s] : SubSeq(calls, 1, offset[s])[i] = calls[i]
        BY <1>4, <1>5, <2>1
    <2>3. PICK front \in Seq(Calls) :
              /\ front = SubSeq(calls, 1, offset[s]) /\ Len(front) = offset[s]
              /\ \A i \in 1 .. offset[s] : front[i] = calls[i]
        BY <2>2
    <2>4. PICK whole \in Seq(Calls) :
              /\ whole = SubSeq(calls, 1, offset[s + 1])
              /\ Len(whole) = offset[s] + CallsIn(s)
              /\ \A i \in 1 .. (offset[s] + CallsIn(s)) : whole[i] = calls[i]
        BY <1>5
    <2>5. PICK back \in Seq(Calls) : back = responses[s] /\ Len(back) = CallsIn(s)
        BY <1>5
    <2>6. \A i \in 1 .. Len(front) : whole[i] = front[i]
        BY <1>4, <2>3, <2>4
    <2>7. \A k \in 1 .. Len(back) : whole[Len(front) + k] = back[k]
        <3>1. ASSUME NEW k \in 1 .. Len(back)
              PROVE  whole[Len(front) + k] = back[k]
            <4>1. k \in 1 .. CallsIn(s) /\ k \in Nat /\ CallsIn(s) \in Nat /\ offset[s] \in Nat
                BY <1>4, <2>5
            <4>2. offset[s] + k \in 1 .. (offset[s] + CallsIn(s))
                BY <4>1
            <4>3. whole[offset[s] + k] = calls[offset[s] + k]
                BY <2>4, <4>2
            <4>4. calls[offset[s] + k] = responses[s][k]
                BY <1>4, <4>1
            <4> QED
                BY <2>3, <2>5, <4>3, <4>4
        <3> QED
            BY <3>1
    <2>8. Len(whole) = Len(front) + Len(back)
        BY <2>3, <2>4, <2>5
    <2>9. whole = front \o back
        BY <2>6, <2>7, <2>8, Joined
    <2> QED
        BY <2>3, <2>4, <2>5, <2>9
<1> DEFINE beginning == [s \in 1 .. Len(responses) |-> SubSeq(calls, 1, offset[s + 1])]
<1>9. Flattens(beginning, responses)
    <2>1. ASSUME NEW s \in 1 .. Len(responses)
          PROVE  beginning[s] =
                     IF s = 1 THEN responses[s] ELSE beginning[s - 1] \o responses[s]
        <3>1. s \in 1 .. heard
            BY DEF heard
        <3>2. CASE s = 1
            BY <1>7, <3>2
        <3>3. CASE s # 1
            <4>1. s - 1 \in 1 .. Len(responses) /\ (s - 1) + 1 = s
                BY <1>1, <3>1, <3>3 DEF heard
            <4>2. beginning[s - 1] = SubSeq(calls, 1, offset[s])
                BY <4>1
            <4> QED
                BY <1>8, <3>1, <3>3, <4>2
        <3> QED
            BY <3>2, <3>3
    <2> HIDE DEF beginning
    <2>2. beginning = [s \in 1 .. Len(responses) |-> beginning[s]]
        BY DEF beginning
    <2> QED
        BY <2>1, <2>2 DEF Flattens
<1>10. beginning[heard] = calls
    <2>1. beginning[heard] = SubSeq(calls, 1, offset[heard + 1])
        BY <1>1 DEF heard
    <2>2. offset[heard] + CallsIn(heard) = Len(calls)
        BY <1>1, <1>3, <1>4
    <2> QED
        BY <1>1, <1>5, <1>6, <2>1, <2>2
<1> HIDE DEF beginning
<1>11. FlattenSeq(responses) = beginning[Len(responses)]
    BY <1>1, <1>9, Flattened DEF TypeOK, heard
<1> QED
    BY <1>2, <1>10, <1>11 DEF heard

\* The command says MATCH only of a recording and a replay that both went through
\* all responses.
LEMMA WholeRun == ReplayInv => MatchIsOfTheWholeRun
<1> SUFFICES ASSUME ReplayInv, caller = "cli", verdict = "match"
             PROVE  /\ ended.status = "completed"
                    /\ consumed = Len(responses)
                    /\ CallsOf(decided.replayed) = FlattenSeq(responses)
    BY DEF MatchIsOfTheWholeRun
<1>1. run = "compared" /\ ~scripted /\ status = "completed" /\ TypeOK
    BY DEF ReplayInv, VerdictInv, TypeOK
<1>2. PICK offset \in [1 .. (heard + 1) -> Nat] : \E u, t \in 1 .. (heard + 1) :
          \E q \in 0 .. CallsIn(u) : \E p \in 0 .. CallsIn(t) :
              IsOffset(offset) /\ ComparedAt(offset, u, q, t, p)
    BY <1>1, Compared
<1>3. PICK u \in 1 .. (heard + 1), t \in 1 .. (heard + 1) :
          \E q \in 0 .. CallsIn(u) : \E p \in 0 .. CallsIn(t) : ComparedAt(offset, u, q, t, p)
    BY <1>2
<1>4. PICK q \in 0 .. CallsIn(u), p \in 0 .. CallsIn(t) : ComparedAt(offset, u, q, t, p)
    BY <1>3
<1>5. heard \in Nat /\ CallsIn(u) \in Nat
    BY <1>1, Counts
<1>6. t = turns /\ p = 0 /\ t <= heard /\ responses[t] = <<>> /\ consumed = turns
    BY <1>1, <1>4 DEF ComparedAt, EndsAt
<1>7. t = heard /\ u = heard /\ CallsIn(heard) = 0 /\ heard \in 1 .. heard
    <2>1. ~(t < u)
        <3>1. ASSUME t < u
              PROVE  FALSE
            <4>1. t \in 1 .. (u - 1)
                BY <1>5, <3>1
            <4> QED
                BY <1>4, <1>6, <4>1 DEF ComparedAt, Passed
        <3> QED
            BY <3>1
    <2>2. t = heard /\ u = heard /\ heard \in 1 .. heard
        BY <1>4, <1>5, <1>6, <2>1 DEF ComparedAt
    <2> QED
        BY <1>1, <1>6, <2>2, Counts
<1>8. ended.status = "completed"
    <2>1. CASE ended.status = "completed"
        BY <2>1
    <2>2. CASE u = config.max_turns + 1 /\ ~config.finalization_turn
        <3>1. MostTurns(config) = config.max_turns /\ config.max_turns \in Nat
            BY <1>1, <2>2, LimitTypes DEF MostTurns
        <3>2. heard <= config.max_turns
            BY <1>4, <3>1 DEF ComparedAt
        <3> QED
            BY <1>5, <1>7, <2>2, <3>1, <3>2
    <2>3. CASE responses[u] # <<>>
        BY <1>6, <1>7, <2>3
    <2>4. CASE u = heard + 1
        BY <1>5, <1>7, <2>4
    <2>5. CASE q < CallsIn(u)
        BY <1>5, <1>7, <2>5
    <2> QED
        BY <1>4, <2>1, <2>2, <2>3, <2>4, <2>5 DEF ComparedAt, EndsAt
<1>9. CallsOf(decided.replayed) = FlattenSeq(responses)
    <2>1. /\ decided.replayed \in Seq(Decisions)
          /\ HoldsUpTo(decided.replayed, offset, heard, CallsIn(heard))
        BY <1>1, <1>4, <1>6, <1>7, Counts DEF ComparedAt
    <2>2. HoldsUpTo(decided.replayed, offset, heard + 1, 0)
        BY <1>1, <1>2, <1>7, <2>1, TurnHeld
    <2>3. ASSUME NEW s \in 1 .. heard
          PROVE  s = heard \/ responses[s] # <<>>
        <3>1. CASE s # heard
            <4>1. s \in 1 .. (u - 1)
                BY <1>5, <1>7, <3>1
            <4> QED
                BY <1>4, <4>1 DEF ComparedAt, Passed
        <3> QED
            BY <3>1
    <2>4. heard # 0
        BY <1>7
    <2> QED
        BY <1>1, <1>2, <2>1, <2>2, <2>3, <2>4, WholeTrace
<1> QED
    BY <1>6, <1>7, <1>8, <1>9 DEF heard

\* Where the replay command says MATCH, the recorded run completed, its responses
\* are used up, and the calls decided on are all of theirs, in their order.
THEOREM MatchCoversTheRun == Spec => []MatchIsOfTheWholeRun
BY ReplayInvariant, WholeRun, PTL
=============================================================================
