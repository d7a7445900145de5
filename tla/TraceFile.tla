------------------------------ MODULE TraceFile ------------------------------
(***************************************************************************)
(* A JSONL trace file over the life of the runs that write it:             *)
(* TraceRecorder.record (trace/recorder.py) appends, the process may die   *)
(* or the write fail in the middle of a line, a later run given the same   *)
(* path appends again, and TraceReader.read (trace/reader.py) makes events *)
(* of what is there.                                                       *)
(*                                                                         *)
(* An event is the run that wrote it and its sequence number.  A line is   *)
(* the pieces of text written to it, each a whole event or the head of     *)
(* one, and whether a line feed ends it.  json.dumps escapes every line    *)
(* separator, so str.splitlines sees exactly these lines.                  *)
(***************************************************************************)
EXTENDS Naturals, Sequences

CONSTANTS
    MaxRuns,    \* bound: the runs that are given the same path
    MaxEvents   \* bound: the events a run records

ASSUME BoundsAssumption == MaxRuns \in Nat \ {0} /\ MaxEvents \in Nat \ {0}

VARIABLES
    file,      \* the lines of the file
    run,       \* the run now writing
    sequence,  \* its recorder's _sequence
    alive,     \* its process exists
    recorded,  \* history: the events whose record call has returned
    failed     \* history: a record call has raised and its run gone on

vars == <<file, run, sequence, alive, recorded, failed>>

Event(r, n) == [run |-> r, sequence |-> n]

Piece(event, whole) == [event |-> event, whole |-> whole]

Line(pieces, ended) == [pieces |-> pieces, ended |-> ended]

Init ==
    /\ file = <<>>
    /\ run = 1
    /\ sequence = 0
    /\ alive = TRUE
    /\ recorded = <<>>
    /\ failed = FALSE

\* Text goes to the end of the file: to the last line if no line feed ends it.
Appended(piece, ended) ==
    IF file # <<>> /\ ~file[Len(file)].ended
    THEN [file EXCEPT ![Len(file)] = Line(Append(@.pieces, piece), ended)]
    ELSE Append(file, Line(<<piece>>, ended))

\* Mutant: the number is taken before it is increased.
UpcomingFromZero == Event(run, sequence)

Upcoming == Event(run, sequence + 1)

\* How much of a line reaches the file when the write is cut short: nothing,
\* the head of the event, all of it but the line feed, or all of it.
CutShort ==
    {file, Appended(Piece(Upcoming, FALSE), FALSE),
     Appended(Piece(Upcoming, TRUE), FALSE), Appended(Piece(Upcoming, TRUE), TRUE)}

CanRecord == alive /\ sequence < MaxEvents

Record ==
    /\ CanRecord
    /\ sequence' = sequence + 1
    /\ file' = Appended(Piece(Upcoming, TRUE), TRUE)
    /\ recorded' = Append(recorded, Upcoming)
    /\ UNCHANGED <<run, alive, failed>>

\* Mutant: a record that fails gives its number back.
RecordFailsUncounted ==
    /\ CanRecord
    /\ file' \in CutShort
    /\ failed' = TRUE
    /\ UNCHANGED <<run, sequence, alive, recorded>>

\* The write raises, on a full disk say, and the run records its failure next.
RecordFails ==
    /\ CanRecord
    /\ sequence' = sequence + 1
    /\ file' \in CutShort
    /\ failed' = TRUE
    /\ UNCHANGED <<run, alive, recorded>>

\* The process dies, between two records or in the middle of one.
Die ==
    /\ CanRecord
    /\ file' \in CutShort
    /\ alive' = FALSE
    /\ UNCHANGED <<run, sequence, recorded, failed>>

\* A new run is given the path: a new recorder, which starts to count anew and
\* opens the file in append mode.
Rerun ==
    /\ run < MaxRuns
    /\ ~alive \/ sequence > 0
    /\ run' = run + 1
    /\ sequence' = 0
    /\ alive' = TRUE
    /\ UNCHANGED <<file, recorded, failed>>

Next == Record \/ RecordFails \/ Die \/ Rerun

Spec == Init /\ [][Next]_vars

-----------------------------------------------------------------------------
(* TraceReader.                                                             *)

\* json.loads and TraceEvent accept a line that holds one whole event and no
\* other text, with or without its line feed.
Parses(line) == Len(line.pieces) = 1 /\ line.pieces[1].whole

\* Mutants: no malformed line is passed over; any one is.
ToleratedNever(i) == FALSE
ToleratedAnywhere(i) == TRUE

\* The malformed line the reader passes over: the last one, without line feed.
Tolerated(i) == i = Len(file) /\ ~file[i].ended

Readable == \A i \in DOMAIN file : Parses(file[i]) \/ Tolerated(i)

\* What read returns when it does not raise TraceFormatError: the events, each at
\* the number of the line it stands on.
Events == [i \in {j \in DOMAIN file : Parses(file[j])} |-> file[i].pieces[1].event]

-----------------------------------------------------------------------------
EventSet == [run : 1 .. MaxRuns, sequence : 1 .. MaxEvents]

TypeOK ==
    /\ file \in Seq([pieces : Seq([event : EventSet, whole : BOOLEAN]), ended : BOOLEAN])
    /\ run \in 1 .. MaxRuns
    /\ sequence \in 0 .. MaxEvents
    /\ alive \in BOOLEAN
    /\ recorded \in Seq(EventSet)
    /\ failed \in BOOLEAN

\* README.md: "the reader can ignore a malformed final line left by process
\* termination".  The trace of one run can be read wherever its process died,
\* and it holds what was recorded, line by line, and at most the event being
\* recorded.
ReadableAfterDeath ==
    run = 1 /\ ~failed =>
        /\ Readable
        /\ DOMAIN Events \in {1 .. Len(recorded), 1 .. (Len(recorded) + 1)}
        /\ \A i \in DOMAIN recorded : Events[i] = recorded[i]

\* Whatever happened to the file, reruns and failed writes included, a reader
\* that does not raise returns every event that was recorded, once, and in the
\* order in which they were.
NoRecordedEventIsLost ==
    Readable =>
        /\ \A k \in DOMAIN recorded : \E i \in DOMAIN Events : Events[i] = recorded[k]
        /\ \A i, j \in DOMAIN Events, k, l \in DOMAIN recorded :
              Events[i] = recorded[k] /\ Events[j] = recorded[l] => (i < j <=> k < l)

\* No event is read twice, and the events of a run are read in the order of
\* their numbers: run and number together identify an event, the number alone
\* does not once a path is used again.
EventsAreOrdered ==
    \A i, j \in DOMAIN Events :
        i < j /\ Events[i].run = Events[j].run => Events[i].sequence < Events[j].sequence
=============================================================================
