--------------------------- MODULE TraceFileProofs ---------------------------
(***************************************************************************)
(* What a trace file promises however many runs append to it and however   *)
(* many events each records: one run's trace can be read wherever the      *)
(* process died, a reader that does not raise has every recorded event,    *)
(* and it has them in order.                                               *)
(***************************************************************************)
EXTENDS TraceFile, TLAPS

\* The order in which events are written.
Precedes(e, f) == e.run < f.run \/ (e.run = f.run /\ e.sequence < f.sequence)

\* The event a line was begun with, the only one that can ever be read from it.
First(line) == line.pieces[1].event

\* Every line but the last is ended, and every one begins with a later event
\* than the line before it.
LinesInOrder ==
    /\ \A i \in DOMAIN file : file[i].pieces # <<>>
    /\ \A i \in DOMAIN file : i # Len(file) => file[i].ended
    /\ \A i, j \in DOMAIN file : i < j => Precedes(First(file[i]), First(file[j]))

\* What is in the file came before what the run writes next.  A dead run writes
\* no more, and may have written a part of the event it was to record.
NumbersGoUp ==
    \A i \in DOMAIN file :
        LET event == First(file[i])
        IN  event.run < run \/ (event.run = run /\ (alive => event.sequence <= sequence))

\* So did what was recorded.
RecordedInOrder ==
    /\ \A k \in DOMAIN recorded : Precedes(recorded[k], Event(run, sequence + 1))
    /\ \A k, l \in DOMAIN recorded : k < l => Precedes(recorded[k], recorded[l])

\* A line that was ended and is no event stays in the file for good, and the
\* reader raises on it.
Damaged == \E i \in DOMAIN file : file[i].ended /\ ~Parses(file[i])

\* A record call that returned has ended its line.  The line is the event's own,
\* or the event was appended to another's, and the file is damaged.
Holds(event) ==
    \E i \in DOMAIN file : file[i].ended /\ Parses(file[i]) /\ First(file[i]) = event

RecordedIsHeld == Damaged \/ \A k \in DOMAIN recorded : Holds(recorded[k])

\* The file of one run in which no write has failed is what was recorded, line by
\* line, and after the run's death at most one line more.
OneRunIsExact ==
    run = 1 /\ ~failed =>
        /\ Len(recorded) <= Len(file)
        /\ \A k \in DOMAIN recorded :
              Parses(file[k]) /\ file[k].ended /\ First(file[k]) = recorded[k]
        /\ alive => Len(file) = Len(recorded)
        /\ Len(file) <= Len(recorded) + 1
        /\ Len(file) = Len(recorded) + 1 =>
              Len(file[Len(file)].pieces) = 1
              /\ (file[Len(file)].ended => Parses(file[Len(file)]))

TraceFileInv ==
    /\ TypeOK
    /\ LinesInOrder
    /\ NumbersGoUp
    /\ RecordedInOrder
    /\ RecordedIsHeld
    /\ OneRunIsExact

-----------------------------------------------------------------------------
(* What a write does to the lines.                                          *)

PieceSet == [event : EventSet, whole : BOOLEAN]
LineSet == [pieces : Seq(PieceSet), ended : BOOLEAN]

\* The event written next has one of the numbers it may have.
LEMMA UpcomingType ==
    ASSUME TypeOK, CanRecord, NEW whole \in BOOLEAN
    PROVE  Upcoming \in EventSet /\ Piece(Upcoming, whole) \in PieceSet
BY BoundsAssumption DEF TypeOK, CanRecord, Upcoming, Event, EventSet, Piece, PieceSet

\* The file is a sequence of lines.
LEMMA FileType == TypeOK => file \in Seq(LineSet)
BY DEF TypeOK, LineSet, PieceSet

\* Text that finds a last line without line feed joins it: the line holds two
\* pieces and more, so that it never parses, and begins as it did.
LEMMA Joined ==
    ASSUME file \in Seq(LineSet), LinesInOrder, file # <<>>, ~file[Len(file)].ended,
           NEW piece \in PieceSet, NEW ended \in BOOLEAN
    PROVE  LET new == Appended(piece, ended)
           IN  /\ new \in Seq(LineSet)
               /\ Len(new) = Len(file)
               /\ \A i \in DOMAIN file : First(new[i]) = First(file[i])
               /\ \A i \in DOMAIN file : new[i].pieces # <<>>
               /\ \A i \in DOMAIN file : file[i].ended => new[i] = file[i]
               /\ \A i \in DOMAIN file : i # Len(file) => new[i] = file[i]
               /\ new[Len(file)].ended = ended
               /\ ~Parses(new[Len(file)])
<1> DEFINE n == Len(file)
           old == file[n]
           line == Line(Append(old.pieces, piece), ended)
<1>1. n \in DOMAIN file /\ old \in LineSet
    OBVIOUS
<1>2. old.pieces \in Seq(PieceSet) /\ old.pieces # <<>>
    BY <1>1 DEF LineSet, LinesInOrder
<1>3. /\ Append(old.pieces, piece) \in Seq(PieceSet)
      /\ Len(Append(old.pieces, piece)) > 1
      /\ Append(old.pieces, piece)[1] = old.pieces[1]
    BY <1>2
<1>4. /\ line \in LineSet /\ line.ended = ended
      /\ line.pieces = Append(old.pieces, piece)
    BY <1>3 DEF Line, LineSet
<1>5. Appended(piece, ended) = [file EXCEPT ![n] = line]
    BY DEF Appended
<1>6. First(line) = First(old) /\ ~Parses(line) /\ line.pieces # <<>>
    BY <1>3, <1>4 DEF First, Parses
<1>7. \A i \in DOMAIN file : i # n => file[i].pieces # <<>>
    BY DEF LinesInOrder
<1> HIDE DEF line
<1>8. /\ Appended(piece, ended) \in Seq(LineSet)
      /\ Len(Appended(piece, ended)) = n
      /\ Appended(piece, ended)[n] = line
      /\ \A i \in DOMAIN file : i # n => Appended(piece, ended)[i] = file[i]
    BY <1>1, <1>4, <1>5
<1> QED
    BY <1>4, <1>6, <1>7, <1>8

\* Text that finds every line ended begins a line of its own.
LEMMA Began ==
    ASSUME file \in Seq(LineSet), LinesInOrder, file = <<>> \/ file[Len(file)].ended,
           NEW piece \in PieceSet, NEW ended \in BOOLEAN
    PROVE  LET new == Appended(piece, ended)
           IN  /\ new \in Seq(LineSet)
               /\ Len(new) = Len(file) + 1
               /\ \A i \in DOMAIN file : new[i] = file[i] /\ file[i].ended
               /\ First(new[Len(file) + 1]) = piece.event
               /\ Len(new[Len(file) + 1].pieces) = 1
               /\ new[Len(file) + 1].ended = ended
               /\ Parses(new[Len(file) + 1]) <=> piece.whole
<1> DEFINE line == Line(<<piece>>, ended)
<1>1. /\ line \in LineSet /\ line.ended = ended
      /\ line.pieces = <<piece>>
    BY DEF Line, LineSet
<1>2. First(line) = piece.event /\ Len(line.pieces) = 1 /\ (Parses(line) <=> piece.whole)
    BY <1>1 DEF First, Parses
<1>3. Appended(piece, ended) = Append(file, line)
    BY DEF Appended
<1>4. \A i \in DOMAIN file : file[i].ended
    BY DEF LinesInOrder
<1> HIDE DEF line
<1>5. /\ Append(file, line) \in Seq(LineSet)
      /\ Len(Append(file, line)) = Len(file) + 1
      /\ Append(file, line)[Len(file) + 1] = line
      /\ \A i \in DOMAIN file : Append(file, line)[i] = file[i]
    BY <1>1
<1> QED
    BY <1>1, <1>2, <1>3, <1>4, <1>5

-----------------------------------------------------------------------------
(* One write, whole or cut short.                                           *)

\* A write begins a line, or joins the last one, or does nothing.
LEMMA CutShortCases ==
    ASSUME file' \in CutShort
    PROVE  \/ file' = file
           \/ \E whole, ended \in BOOLEAN :
                 (ended => whole) /\ file' = Appended(Piece(Upcoming, whole), ended)
BY DEF CutShort

\* The event a line begins with is an event.
LEMMA FirstType ==
    ASSUME file \in Seq(LineSet), LinesInOrder, NEW i \in DOMAIN file
    PROVE  First(file[i]) \in EventSet
<1>1. file[i] \in LineSet /\ file[i].pieces # <<>>
    BY DEF LinesInOrder
<1>2. file[i].pieces \in Seq(PieceSet)
    BY <1>1 DEF LineSet
<1>3. file[i].pieces[1] \in PieceSet
    BY <1>1, <1>2
<1> QED
    BY <1>3 DEF First, PieceSet

\* What is written next comes after what is there.
LEMMA UpcomingIsLater ==
    ASSUME TypeOK, LinesInOrder, NumbersGoUp, CanRecord, NEW i \in DOMAIN file
    PROVE  Precedes(First(file[i]), Upcoming)
<1>1. First(file[i]).sequence \in Nat /\ sequence \in Nat
    BY FileType, FirstType, BoundsAssumption DEF TypeOK, EventSet
<1>2. First(file[i]).run < run
      \/ (First(file[i]).run = run /\ First(file[i]).sequence <= sequence)
    BY DEF NumbersGoUp, CanRecord
<1> QED
    BY <1>1, <1>2 DEF Precedes, Upcoming, Event

\* The order survives a write.
LEMMA WriteKeepsOrder ==
    ASSUME TypeOK, LinesInOrder, NumbersGoUp, CanRecord, file' \in CutShort
    PROVE  /\ file' \in Seq(LineSet)
           /\ LinesInOrder'
           /\ \A i \in DOMAIN file' :
                 \/ First(file'[i]).run < run
                 \/ First(file'[i]).run = run /\ First(file'[i]).sequence <= sequence + 1
<1>1. file \in Seq(LineSet)
    BY FileType
<1>2. \A i \in DOMAIN file :
        \/ First(file[i]).run < run
        \/ First(file[i]).run = run /\ First(file[i]).sequence <= sequence + 1
    <2> TAKE i \in DOMAIN file
    <2>1. First(file[i]).sequence \in Nat /\ sequence \in Nat
        BY <1>1, FirstType, BoundsAssumption DEF TypeOK, EventSet
    <2>2. First(file[i]).run < run
          \/ (First(file[i]).run = run /\ First(file[i]).sequence <= sequence)
        BY DEF NumbersGoUp, CanRecord
    <2> QED
        BY <2>1, <2>2
<1>3. CASE file' = file
    BY <1>1, <1>2, <1>3 DEF LinesInOrder
<1>4. ASSUME NEW whole \in BOOLEAN, NEW ended \in BOOLEAN,
             file' = Appended(Piece(Upcoming, whole), ended),
             file # <<>>, ~file[Len(file)].ended
      PROVE  /\ file' \in Seq(LineSet)
             /\ LinesInOrder'
             /\ \A i \in DOMAIN file' : First(file'[i]) = First(file[i]) /\ i \in DOMAIN file
    <2>1. Piece(Upcoming, whole) \in PieceSet
        BY UpcomingType
    <2>2. /\ file' \in Seq(LineSet) /\ Len(file') = Len(file)
          /\ \A i \in DOMAIN file : /\ First(file'[i]) = First(file[i])
                                    /\ file'[i].pieces # <<>>
                                    /\ i # Len(file) => file'[i] = file[i]
        BY <1>1, <1>4, <2>1, Joined
    <2>3. DOMAIN file' = DOMAIN file
        BY <1>1, <2>2
    <2> QED
        BY <2>2, <2>3 DEF LinesInOrder
<1>5. ASSUME NEW whole \in BOOLEAN, NEW ended \in BOOLEAN,
             file' = Appended(Piece(Upcoming, whole), ended),
             file = <<>> \/ file[Len(file)].ended
      PROVE  /\ file' \in Seq(LineSet)
             /\ LinesInOrder'
             /\ \A i \in DOMAIN file' :
                   \/ i \in DOMAIN file /\ First(file'[i]) = First(file[i])
                   \/ First(file'[i]) = Upcoming
    <2>1. Piece(Upcoming, whole) \in PieceSet /\ Piece(Upcoming, whole).event = Upcoming
        BY UpcomingType DEF Piece
    <2>2. /\ file' \in Seq(LineSet) /\ Len(file') = Len(file) + 1
          /\ \A i \in DOMAIN file : file'[i] = file[i] /\ file[i].ended
          /\ First(file'[Len(file) + 1]) = Upcoming
          /\ Len(file'[Len(file) + 1].pieces) = 1
        BY <1>1, <1>5, <2>1, Began
    <2>3. /\ DOMAIN file = 1 .. Len(file) /\ DOMAIN file' = 1 .. (Len(file) + 1)
          /\ Len(file) \in Nat
        BY <1>1, <2>2
    <2>4. ASSUME NEW i \in DOMAIN file' PROVE i \in DOMAIN file \/ i = Len(file) + 1
        BY <2>3
    <2>5. \A i \in DOMAIN file' : file'[i].pieces # <<>>
        BY <2>2, <2>4 DEF LinesInOrder
    <2>6. \A i \in DOMAIN file' : i # Len(file') => file'[i].ended
        BY <2>2, <2>4
    <2>7. ASSUME NEW i \in DOMAIN file', NEW j \in DOMAIN file', i < j
          PROVE  Precedes(First(file'[i]), First(file'[j]))
        <3>1. i \in DOMAIN file
            BY <2>3, <2>7
        <3>2. CASE j \in DOMAIN file
            BY <2>2, <2>7, <3>1, <3>2 DEF LinesInOrder
        <3>3. CASE j = Len(file) + 1
            BY <2>2, <3>1, <3>3, UpcomingIsLater
        <3> QED
            BY <2>4, <3>2, <3>3
    <2> QED
        BY <2>2, <2>4, <2>5, <2>6, <2>7 DEF LinesInOrder
<1>6. Upcoming.run = run /\ Upcoming.sequence = sequence + 1 /\ sequence \in Nat
    BY BoundsAssumption DEF Upcoming, Event, TypeOK
<1> QED
    BY <1>2, <1>3, <1>4, <1>5, <1>6, CutShortCases

\* Lines that were ended are never touched again.
LEMMA WriteKeepsEnded ==
    ASSUME TypeOK, LinesInOrder, CanRecord, file' \in CutShort
    PROVE  \A i \in DOMAIN file : file[i].ended => i \in DOMAIN file' /\ file'[i] = file[i]
<1>1. file \in Seq(LineSet)
    BY FileType
<1>2. ASSUME NEW whole \in BOOLEAN, NEW ended \in BOOLEAN,
             file' = Appended(Piece(Upcoming, whole), ended)
      PROVE  \A i \in DOMAIN file : file[i].ended => i \in DOMAIN file' /\ file'[i] = file[i]
    <2>1. Piece(Upcoming, whole) \in PieceSet
        BY UpcomingType
    <2>2. /\ file' \in Seq(LineSet) /\ Len(file') \in {Len(file), Len(file) + 1}
          /\ \A i \in DOMAIN file : file[i].ended => file'[i] = file[i]
        BY <1>1, <1>2, <2>1, Joined, Began
    <2>3. DOMAIN file \subseteq DOMAIN file'
        BY <1>1, <2>2
    <2> QED
        BY <2>2, <2>3
<1> QED
    BY <1>2, CutShortCases

\* A write that is cut short loses no event the file holds.
LEMMA WriteKeepsHeld ==
    ASSUME TypeOK, LinesInOrder, CanRecord, file' \in CutShort
    PROVE  /\ Damaged => Damaged'
           /\ \A event : Holds(event) => Holds(event)'
BY WriteKeepsEnded DEF Damaged, Holds

\* A record call that returns has left its event on a line of its own, or the
\* file damaged.
LEMMA RecordedOrDamaged ==
    ASSUME TypeOK, LinesInOrder, CanRecord, NEW event, event = Upcoming
    PROVE  file' = Appended(Piece(Upcoming, TRUE), TRUE) => Damaged' \/ Holds(event)'
<1>1. file \in Seq(LineSet) /\ Len(file) \in Nat
    BY FileType
<1>2. /\ Piece(Upcoming, TRUE) \in PieceSet
      /\ Piece(Upcoming, TRUE).event = Upcoming /\ Piece(Upcoming, TRUE).whole
    BY UpcomingType DEF Piece
<1>3. ASSUME file' = Appended(Piece(Upcoming, TRUE), TRUE),
             file # <<>>, ~file[Len(file)].ended
      PROVE  Damaged'
    <2>1. /\ file' \in Seq(LineSet) /\ Len(file') = Len(file)
          /\ file'[Len(file)].ended /\ ~Parses(file'[Len(file)])
        BY <1>1, <1>2, <1>3, Joined
    <2>2. file # <<>>
        BY <1>3
    <2>3. Len(file) # 0
        BY <1>1, <2>2
    <2>4. DOMAIN file' = 1 .. Len(file')
        BY <2>1
    <2>5. Len(file) \in DOMAIN file'
        BY <1>1, <2>1, <2>3, <2>4
    <2> QED
        BY <2>1, <2>5 DEF Damaged
<1>4. ASSUME file' = Appended(Piece(Upcoming, TRUE), TRUE),
             file = <<>> \/ file[Len(file)].ended
      PROVE  Holds(event)'
    <2>1. PICK n : n = Len(file) + 1
        OBVIOUS
    <2>2. /\ file' \in Seq(LineSet) /\ Len(file') = n /\ First(file'[n]) = Upcoming
          /\ file'[n].ended /\ Parses(file'[n])
        BY <1>1, <1>2, <1>4, <2>1, Began
    <2>3. n \in 1 .. Len(file')
        BY <1>1, <2>1, <2>2
    <2>4. DOMAIN file' = 1 .. Len(file')
        BY <2>2
    <2> QED
        BY <2>2, <2>3, <2>4 DEF Holds
<1> QED
    BY <1>3, <1>4

\* As long as no write has failed, a run finds every line ended, and what it
\* writes stands on a line of its own.
LEMMA OneRunWrite ==
    ASSUME TypeOK, LinesInOrder, OneRunIsExact, CanRecord, run = 1, ~failed,
           NEW whole \in BOOLEAN, NEW ended \in BOOLEAN, NEW event, event = Upcoming
    PROVE  file' = Appended(Piece(Upcoming, whole), ended) =>
               /\ file' \in Seq(LineSet)
               /\ Len(file') = Len(recorded) + 1
               /\ \A k \in DOMAIN recorded : file'[k] = file[k]
               /\ First(file'[Len(recorded) + 1]) = event
               /\ Len(file'[Len(recorded) + 1].pieces) = 1
               /\ file'[Len(recorded) + 1].ended = ended
               /\ Parses(file'[Len(recorded) + 1]) <=> whole
<1>1. file \in Seq(LineSet) /\ Len(file) \in Nat /\ recorded \in Seq(EventSet)
    BY FileType DEF TypeOK
<1>2. Len(file) = Len(recorded)
    BY DEF OneRunIsExact, CanRecord
<1>3. DOMAIN file = DOMAIN recorded
    BY <1>1, <1>2
<1>4. file # <<>> => Len(file) \in DOMAIN recorded
    BY <1>1, <1>3
<1>5. file = <<>> \/ file[Len(file)].ended
    BY <1>4 DEF OneRunIsExact
<1>6. /\ Piece(Upcoming, whole) \in PieceSet
      /\ Piece(Upcoming, whole).event = Upcoming
      /\ Piece(Upcoming, whole).whole = whole
    BY UpcomingType DEF Piece
<1>7. ASSUME file' = Appended(Piece(Upcoming, whole), ended)
      PROVE  /\ file' \in Seq(LineSet)
             /\ Len(file') = Len(file) + 1
             /\ \A k \in DOMAIN file : file'[k] = file[k]
             /\ First(file'[Len(file) + 1]) = event
             /\ Len(file'[Len(file) + 1].pieces) = 1
             /\ file'[Len(file) + 1].ended = ended
             /\ Parses(file'[Len(file) + 1]) <=> whole
    BY <1>1, <1>5, <1>6, <1>7, Began
<1> QED
    BY <1>2, <1>3, <1>7

-----------------------------------------------------------------------------
(* The invariant.                                                           *)

\* The invariant holds of the empty file.
LEMMA TraceFileInit == Init => TraceFileInv
<1> SUFFICES ASSUME Init PROVE TraceFileInv
    OBVIOUS
<1>1. /\ file = <<>> /\ run = 1 /\ sequence = 0 /\ alive = TRUE /\ recorded = <<>>
      /\ failed = FALSE
    BY DEF Init
<1>2. TypeOK
    <2>1. file \in Seq(LineSet) /\ recorded \in Seq(EventSet)
        BY <1>1
    <2>2. run \in 1 .. MaxRuns /\ sequence \in 0 .. MaxEvents
        BY <1>1, BoundsAssumption
    <2>3. alive \in BOOLEAN /\ failed \in BOOLEAN
        BY <1>1
    <2> QED
        BY <2>1, <2>2, <2>3 DEF TypeOK, LineSet, PieceSet
<1>3. DOMAIN file = {} /\ DOMAIN recorded = {} /\ Len(file) = 0 /\ Len(recorded) = 0
    BY <1>1
<1>4. LinesInOrder /\ NumbersGoUp /\ RecordedInOrder /\ RecordedIsHeld
    BY <1>3 DEF LinesInOrder, NumbersGoUp, RecordedInOrder, RecordedIsHeld
<1>5. OneRunIsExact
    BY <1>3 DEF OneRunIsExact
<1> QED
    BY <1>2, <1>4, <1>5 DEF TraceFileInv

\* What is recorded comes in the order of the numbers.
LEMMA RecordedNext ==
    ASSUME TypeOK, RecordedInOrder, recorded' = Append(recorded, Upcoming),
           run' = run, sequence' = sequence + 1
    PROVE  RecordedInOrder'
<1>1. recorded \in Seq(EventSet) /\ sequence \in Nat /\ run \in Nat
    BY BoundsAssumption DEF TypeOK
<1>2. PICK event : event = Upcoming
    OBVIOUS
<1>3. event.run = run /\ event.sequence = sequence + 1
    BY <1>2 DEF Upcoming, Event
<1>4. /\ DOMAIN recorded' = 1 .. (Len(recorded) + 1)
      /\ DOMAIN recorded = 1 .. Len(recorded)
      /\ \A k \in DOMAIN recorded : recorded'[k] = recorded[k]
      /\ recorded'[Len(recorded) + 1] = event
    BY <1>1, <1>2
<1>5. \A k \in DOMAIN recorded : Precedes(recorded[k], event)
    BY <1>2 DEF RecordedInOrder, Upcoming
<1>6. PICK next : next = Event(run', sequence' + 1)
    OBVIOUS
<1>7. next.run = run /\ next.sequence = sequence + 2
    BY <1>1, <1>6 DEF Event
<1>8. Precedes(event, next)
    BY <1>1, <1>3, <1>7 DEF Precedes
<1>9. ASSUME NEW k \in DOMAIN recorded PROVE Precedes(recorded[k], next)
    <2>1. recorded[k].run \in Nat /\ recorded[k].sequence \in Nat
        <3>1. recorded[k] \in EventSet
            BY <1>1
        <3>2. recorded[k].run \in 1 .. MaxRuns /\ recorded[k].sequence \in 1 .. MaxEvents
            BY <3>1 DEF EventSet
        <3> QED
            BY <3>2, BoundsAssumption
    <2>2. recorded[k].run < run \/ (recorded[k].run = run /\ recorded[k].sequence < sequence + 1)
        BY <1>3, <1>5 DEF Precedes
    <2> QED
        BY <1>1, <1>7, <2>1, <2>2 DEF Precedes
<1>10. \A k \in DOMAIN recorded' : k \in DOMAIN recorded \/ k = Len(recorded) + 1
    BY <1>1, <1>4
<1>11. \A k \in DOMAIN recorded' : Precedes(recorded'[k], next)
    BY <1>4, <1>8, <1>9, <1>10
<1>12. ASSUME NEW k \in DOMAIN recorded', NEW l \in DOMAIN recorded', k < l
       PROVE  Precedes(recorded'[k], recorded'[l])
    <2>1. k \in DOMAIN recorded
        BY <1>1, <1>4, <1>12
    <2>2. CASE l \in DOMAIN recorded
        BY <1>4, <1>12, <2>1, <2>2 DEF RecordedInOrder
    <2>3. CASE l = Len(recorded) + 1
        BY <1>4, <1>5, <2>1, <2>3
    <2> QED
        BY <1>10, <2>2, <2>3
<1> QED
    BY <1>6, <1>11, <1>12 DEF RecordedInOrder

\* A record call that returns keeps the invariant.
LEMMA RecordStep == TraceFileInv /\ Record => TraceFileInv'
<1> SUFFICES ASSUME TraceFileInv, Record PROVE TraceFileInv'
    OBVIOUS
<1> USE DEF TraceFileInv
<1>1. /\ CanRecord /\ alive /\ sequence' = sequence + 1
      /\ recorded' = Append(recorded, Upcoming)
      /\ UNCHANGED <<run, alive, failed>>
    BY DEF Record, CanRecord
<1>2. file' = Appended(Piece(Upcoming, TRUE), TRUE)
    BY DEF Record
<1>3. file' \in CutShort
    BY <1>2 DEF CutShort
<1>4. /\ file' \in Seq(LineSet)
      /\ LinesInOrder'
      /\ NumbersGoUp'
    BY <1>1, <1>3, WriteKeepsOrder DEF NumbersGoUp
<1>5. PICK event : event = Upcoming
    OBVIOUS
<1>6. event \in EventSet
    BY <1>1, <1>5, UpcomingType
<1>7. recorded \in Seq(EventSet) /\ recorded' \in Seq(EventSet)
    BY <1>1, <1>5, <1>6 DEF TypeOK
<1>8. TypeOK'
    <2>1. sequence' \in 0 .. MaxEvents
        BY <1>1, BoundsAssumption DEF TypeOK, CanRecord
    <2> QED
        BY <1>1, <1>4, <1>7, <2>1 DEF TypeOK, LineSet, PieceSet
<1>9. RecordedInOrder'
    BY <1>1, RecordedNext
<1>10. /\ DOMAIN recorded' = DOMAIN recorded \cup {Len(recorded) + 1}
       /\ \A k \in DOMAIN recorded : recorded'[k] = recorded[k]
       /\ recorded'[Len(recorded) + 1] = event
       /\ Len(recorded') = Len(recorded) + 1
    BY <1>1, <1>5, <1>7
<1>11. RecordedIsHeld'
    <2>1. Damaged \/ \A k \in DOMAIN recorded : Holds(recorded[k])
        BY DEF RecordedIsHeld
    <2>2. Damaged => Damaged'
        BY <1>1, <1>3, WriteKeepsHeld
    <2>3. Damaged' \/ Holds(event)'
        BY <1>1, <1>2, <1>5, RecordedOrDamaged
    <2>4. ASSUME NEW k \in DOMAIN recorded, Holds(recorded[k])
          PROVE  \E i \in DOMAIN file' :
                    file'[i].ended /\ Parses(file'[i]) /\ First(file'[i]) = recorded[k]
        BY <1>1, <1>3, <2>4, WriteKeepsEnded DEF Holds
    <2>5. Damaged' \/ \A k \in DOMAIN recorded' : \E i \in DOMAIN file' :
                    file'[i].ended /\ Parses(file'[i]) /\ First(file'[i]) = recorded'[k]
        BY <1>10, <2>1, <2>2, <2>3, <2>4 DEF Holds
    <2> QED
        BY <2>5 DEF RecordedIsHeld, Holds
<1>12. OneRunIsExact'
    <2> SUFFICES ASSUME run = 1, ~failed PROVE OneRunIsExact'
        BY <1>1 DEF OneRunIsExact
    <2> DEFINE n == Len(recorded) + 1
    <2>1. /\ file' \in Seq(LineSet)
          /\ Len(file') = n
          /\ \A k \in DOMAIN recorded : file'[k] = file[k]
          /\ First(file'[n]) = event
          /\ file'[n].ended
          /\ Parses(file'[n])
        BY <1>1, <1>2, <1>5, OneRunWrite
    <2>2. \A k \in DOMAIN recorded : Parses(file'[k]) /\ file'[k].ended
                                     /\ First(file'[k]) = recorded[k]
        BY <2>1 DEF OneRunIsExact
    <2>3. \A k \in DOMAIN recorded' : Parses(file'[k]) /\ file'[k].ended
                                      /\ First(file'[k]) = recorded'[k]
        BY <1>10, <2>1, <2>2
    <2>4. Len(file') = Len(recorded') /\ Len(recorded') \in Nat
        BY <1>7, <1>10, <2>1
    <2>5. /\ Len(recorded') <= Len(file') /\ Len(file') <= Len(recorded') + 1
          /\ Len(file') # Len(recorded') + 1
        BY <2>4
    <2> QED
        BY <2>3, <2>4, <2>5 DEF OneRunIsExact
<1> QED
    BY <1>4, <1>8, <1>9, <1>11, <1>12

\* A write that raised or that the process's death cut short records nothing.
LEMMA WriteLost ==
    ASSUME TraceFileInv, CanRecord, file' \in CutShort, UNCHANGED <<run, recorded>>,
           sequence' \in {sequence, sequence + 1}, alive' => sequence' = sequence + 1,
           alive' \in BOOLEAN, failed' \in BOOLEAN
    PROVE  TypeOK' /\ LinesInOrder' /\ NumbersGoUp' /\ RecordedInOrder' /\ RecordedIsHeld'
<1> USE DEF TraceFileInv
<1>1. /\ file' \in Seq(LineSet)
      /\ LinesInOrder'
      /\ NumbersGoUp'
    BY WriteKeepsOrder DEF NumbersGoUp
<1>2. TypeOK'
    <2>1. sequence' \in 0 .. MaxEvents
        BY BoundsAssumption DEF TypeOK, CanRecord
    <2> QED
        BY <1>1, <2>1 DEF TypeOK, LineSet, PieceSet
<1>3. RecordedInOrder'
    <2>1. ASSUME NEW k \in DOMAIN recorded
          PROVE  Precedes(recorded[k], Event(run', sequence' + 1))
        <3>1. Precedes(recorded[k], Event(run, sequence + 1))
            BY DEF RecordedInOrder
        <3>2. recorded[k] \in EventSet /\ sequence \in Nat
            BY BoundsAssumption DEF TypeOK
        <3>3. recorded[k].sequence \in Nat
            BY <3>2, BoundsAssumption DEF EventSet
        <3> QED
            BY <3>1, <3>2, <3>3 DEF Precedes, Event
    <2> QED
        BY <2>1 DEF RecordedInOrder
<1>4. RecordedIsHeld'
    <2>1. Damaged => Damaged'
        BY WriteKeepsHeld
    <2>2. ASSUME NEW k \in DOMAIN recorded, Holds(recorded[k])
          PROVE  \E i \in DOMAIN file' :
                    file'[i].ended /\ Parses(file'[i]) /\ First(file'[i]) = recorded[k]
        BY <2>2, WriteKeepsEnded DEF Holds
    <2> QED
        BY <2>1, <2>2 DEF RecordedIsHeld, Holds
<1> QED
    BY <1>1, <1>2, <1>3, <1>4

\* A record call that raises keeps the invariant.
LEMMA RecordFailsStep == TraceFileInv /\ RecordFails => TraceFileInv'
<1> SUFFICES ASSUME TraceFileInv, RecordFails PROVE TraceFileInv'
    OBVIOUS
<1>1. /\ CanRecord /\ file' \in CutShort /\ sequence' = sequence + 1 /\ failed' = TRUE
      /\ UNCHANGED <<run, alive, recorded>>
    BY DEF RecordFails
<1>2. TypeOK' /\ LinesInOrder' /\ NumbersGoUp' /\ RecordedInOrder' /\ RecordedIsHeld'
    BY <1>1, WriteLost DEF TraceFileInv, TypeOK
<1>3. OneRunIsExact'
    BY <1>1 DEF OneRunIsExact
<1> QED
    BY <1>2, <1>3 DEF TraceFileInv

\* A death in the middle of a write keeps the invariant.
LEMMA DieStep == TraceFileInv /\ Die => TraceFileInv'
<1> SUFFICES ASSUME TraceFileInv, Die PROVE TraceFileInv'
    OBVIOUS
<1>1. /\ CanRecord /\ alive /\ file' \in CutShort /\ alive' = FALSE
      /\ UNCHANGED <<run, sequence, recorded, failed>>
    BY DEF Die, CanRecord
<1>2. TypeOK' /\ LinesInOrder' /\ NumbersGoUp' /\ RecordedInOrder' /\ RecordedIsHeld'
    BY <1>1, WriteLost DEF TraceFileInv, TypeOK
<1>3. OneRunIsExact'
    <2> SUFFICES ASSUME run = 1, ~failed PROVE OneRunIsExact'
        BY <1>1 DEF OneRunIsExact
    <2>1. CASE file' = file
        BY <1>1, <2>1 DEF TraceFileInv, OneRunIsExact
    <2>2. ASSUME NEW whole \in BOOLEAN, NEW ended \in BOOLEAN, ended => whole,
                 file' = Appended(Piece(Upcoming, whole), ended)
          PROVE  OneRunIsExact'
        <3>1. PICK event : event = Upcoming
            OBVIOUS
        <3>2. /\ Len(file') = Len(recorded) + 1
              /\ \A k \in DOMAIN recorded : file'[k] = file[k]
              /\ Len(file'[Len(recorded) + 1].pieces) = 1
              /\ file'[Len(recorded) + 1].ended = ended
              /\ Parses(file'[Len(recorded) + 1]) <=> whole
            BY <1>1, <2>2, <3>1, OneRunWrite DEF TraceFileInv
        <3>3. /\ Len(recorded) \in Nat
              /\ file'[Len(file')].ended => Parses(file'[Len(file')])
            BY <2>2, <3>2 DEF TraceFileInv, TypeOK
        <3>4. \A k \in DOMAIN recorded : Parses(file'[k]) /\ file'[k].ended
                                         /\ First(file'[k]) = recorded[k]
            BY <3>2 DEF TraceFileInv, OneRunIsExact
        <3>5. Len(recorded) <= Len(file') /\ Len(file') <= Len(recorded) + 1
            BY <3>2, <3>3
        <3> QED
            BY <1>1, <3>2, <3>3, <3>4, <3>5 DEF OneRunIsExact
    <2> QED
        BY <1>1, <2>1, <2>2, CutShortCases
<1> QED
    BY <1>2, <1>3 DEF TraceFileInv

\* A new run counts anew, but its own number sets its events apart.
LEMMA RerunStep == TraceFileInv /\ Rerun => TraceFileInv'
<1> SUFFICES ASSUME TraceFileInv, Rerun PROVE TraceFileInv'
    OBVIOUS
<1> USE DEF TraceFileInv
<1>1. /\ run < MaxRuns /\ run' = run + 1 /\ sequence' = 0 /\ alive' = TRUE
      /\ UNCHANGED <<file, recorded, failed>>
    BY DEF Rerun
<1>2. run \in Nat \ {0} /\ run' \in 1 .. MaxRuns
    BY <1>1, BoundsAssumption DEF TypeOK
<1>3. TypeOK'
    BY <1>1, <1>2, BoundsAssumption DEF TypeOK
<1>4. LinesInOrder' /\ RecordedIsHeld'
    BY <1>1 DEF LinesInOrder, RecordedIsHeld, Damaged, Holds
<1>5. NumbersGoUp'
    <2>1. \A i \in DOMAIN file : First(file[i]).run <= run
        <3> TAKE i \in DOMAIN file
        <3>1. First(file[i]) \in EventSet
            BY FileType, FirstType
        <3>2. First(file[i]).run \in Nat
            BY <3>1, BoundsAssumption DEF EventSet
        <3>3. First(file[i]).run < run \/ First(file[i]).run = run
            BY DEF NumbersGoUp
        <3> QED
            BY <1>2, <3>2, <3>3
    <2>2. \A i \in DOMAIN file : First(file[i]).run < run'
        <3> TAKE i \in DOMAIN file
        <3>1. First(file[i]) \in EventSet
            BY FileType, FirstType
        <3>2. First(file[i]).run \in Nat
            BY <3>1, BoundsAssumption DEF EventSet
        <3> QED
            BY <1>1, <1>2, <2>1, <3>2
    <2> QED
        BY <1>1, <2>2 DEF NumbersGoUp
<1>6. RecordedInOrder'
    <2>1. ASSUME NEW k \in DOMAIN recorded
          PROVE  Precedes(recorded[k], Event(run', sequence' + 1))
        <3>1. Precedes(recorded[k], Event(run, sequence + 1))
            BY DEF RecordedInOrder
        <3>2. recorded[k] \in EventSet
            BY DEF TypeOK
        <3>3. recorded[k].run \in Nat
            BY <3>2, BoundsAssumption DEF EventSet
        <3>4. recorded[k].run <= run
            BY <1>2, <3>1, <3>3 DEF Precedes, Event
        <3> QED
            BY <1>1, <1>2, <3>3, <3>4 DEF Precedes, Event
    <2> QED
        BY <1>1, <2>1 DEF RecordedInOrder
<1>7. OneRunIsExact'
    BY <1>1, <1>2 DEF OneRunIsExact
<1> QED
    BY <1>3, <1>4, <1>5, <1>6, <1>7

\* The invariant holds of every file the runs leave.
LEMMA TraceFileInvariant == Spec => []TraceFileInv
<1>1. TraceFileInv /\ [Next]_vars => TraceFileInv'
    <2> SUFFICES ASSUME TraceFileInv, [Next]_vars PROVE TraceFileInv'
        OBVIOUS
    <2>1. CASE UNCHANGED vars
        BY <2>1 DEF vars, TraceFileInv, TypeOK, LinesInOrder, NumbersGoUp, RecordedInOrder,
                    RecordedIsHeld, OneRunIsExact, Damaged, Holds
    <2> QED
        BY <2>1, RecordStep, RecordFailsStep, DieStep, RerunStep DEF Next
<1> QED
    BY <1>1, TraceFileInit, PTL DEF Spec

-----------------------------------------------------------------------------
(* What a reader gets.                                                      *)

\* Events are read from the lines that parse, each with its line's first event.
LEMMA EventsRead ==
    /\ DOMAIN Events = {j \in DOMAIN file : Parses(file[j])}
    /\ \A i \in DOMAIN Events : i \in DOMAIN file /\ Events[i] = First(file[i])
BY DEF Events, First

\* Events written in one order cannot be in the other.
LEMMA PrecedesIsStrict ==
    ASSUME NEW e \in EventSet, NEW f \in EventSet
    PROVE  Precedes(e, f) => e # f /\ ~Precedes(f, e)
<1>1. e.run \in Nat /\ f.run \in Nat /\ e.sequence \in Nat /\ f.sequence \in Nat
    BY BoundsAssumption DEF EventSet
<1> QED
    BY <1>1 DEF Precedes

\* Every variable always has the type the code gives it; no event has a number
\* beyond those the recorder has given (TraceRecorder.record).
THEOREM TraceFileTypeCorrect == Spec => []TypeOK
<1>1. TraceFileInv => TypeOK
    BY DEF TraceFileInv
<1> QED
    BY <1>1, TraceFileInvariant, PTL

\* However many events a run records, and in the middle of whichever it dies: the
\* trace of one run can be read, and has what was recorded and at most the event
\* that was being recorded (TraceReader.read).
THEOREM ReadAfterDeath == Spec => []ReadableAfterDeath
<1>1. TraceFileInv => ReadableAfterDeath
    <2> SUFFICES ASSUME TraceFileInv, run = 1, ~failed
                 PROVE  /\ Readable
                        /\ DOMAIN Events \in {1 .. Len(recorded), 1 .. (Len(recorded) + 1)}
                        /\ \A i \in DOMAIN recorded : Events[i] = recorded[i]
        BY DEF ReadableAfterDeath
    <2> DEFINE n == Len(recorded)
    <2>1. file \in Seq(LineSet) /\ recorded \in Seq(EventSet)
        BY FileType DEF TraceFileInv, TypeOK
    <2>2. /\ n \in Nat /\ Len(file) \in {n, n + 1}
          /\ DOMAIN recorded = 1 .. n /\ DOMAIN file = 1 .. Len(file)
        BY <2>1 DEF TraceFileInv, OneRunIsExact
    <2>3. \A k \in 1 .. n : Parses(file[k]) /\ First(file[k]) = recorded[k]
        <3>1. \A k \in DOMAIN recorded : Parses(file[k]) /\ First(file[k]) = recorded[k]
            BY DEF TraceFileInv, OneRunIsExact
        <3> QED
            BY <2>2, <3>1, Zenon
    <2>4. Len(file) = n + 1 => Parses(file[n + 1]) \/ ~file[n + 1].ended
        BY DEF TraceFileInv, OneRunIsExact
    <2> HIDE DEF n
    <2>5. ASSUME NEW i \in DOMAIN file PROVE i \in 1 .. n \/ (i = n + 1 /\ Len(file) = n + 1)
        <3>1. CASE Len(file) = n
            BY <2>2, <3>1
        <3>2. CASE Len(file) = n + 1
            BY <2>2, <3>2
        <3> QED
            BY <2>2, <3>1, <3>2, Zenon
    <2>6. Readable
        BY <2>3, <2>4, <2>5 DEF Readable, Tolerated
    <2>7. \A k \in 1 .. n : k \in DOMAIN file
        <3>1. CASE Len(file) = n
            BY <2>2, <3>1
        <3>2. CASE Len(file) = n + 1
            BY <2>2, <3>2
        <3> QED
            BY <2>2, <3>1, <3>2, Zenon
    <2>8. \A k \in DOMAIN recorded : Events[k] = recorded[k]
        <3>1. \A k \in 1 .. n : Events[k] = recorded[k]
            BY <2>3, <2>7, EventsRead
        <3> QED
            BY <2>2, <3>1, Zenon
    <2>9. DOMAIN Events \in {1 .. n, 1 .. (n + 1)}
        <3>1. CASE Len(file) = n + 1 /\ Parses(file[n + 1])
            <4>1. \A k \in 1 .. (n + 1) : Parses(file[k])
                BY <2>2, <2>3, <3>1
            <4>2. DOMAIN file = 1 .. (n + 1)
                BY <2>2, <3>1
            <4> QED
                BY <4>1, <4>2, EventsRead
        <3>2. CASE ~(Len(file) = n + 1 /\ Parses(file[n + 1]))
            <4>1. \A k \in DOMAIN file : Parses(file[k]) <=> k \in 1 .. n
                BY <2>2, <2>3, <2>5, <3>2, Zenon
            <4> QED
                BY <2>7, <4>1, EventsRead
        <3> QED
            BY <3>1, <3>2
    <2> QED
        BY <2>6, <2>8, <2>9 DEF n
<1> QED
    BY <1>1, TraceFileInvariant, PTL

\* Whatever was cut short, by how many runs: a reader that does not raise returns
\* every recorded event, once and in order (TraceReader.read).
THEOREM RecordedIsRead == Spec => []NoRecordedEventIsLost
<1>1. TraceFileInv => NoRecordedEventIsLost
    <2> SUFFICES ASSUME TraceFileInv, Readable
                 PROVE  /\ \A k \in DOMAIN recorded :
                              \E i \in DOMAIN Events : Events[i] = recorded[k]
                        /\ \A i, j \in DOMAIN Events, k, l \in DOMAIN recorded :
                              Events[i] = recorded[k] /\ Events[j] = recorded[l]
                              => (i < j <=> k < l)
        BY DEF NoRecordedEventIsLost
    <2>1. file \in Seq(LineSet) /\ recorded \in Seq(EventSet)
        BY FileType DEF TraceFileInv, TypeOK
    <2>2. ~Damaged
        BY DEF Damaged, Readable, Tolerated
    <2>3. ASSUME NEW k \in DOMAIN recorded
          PROVE  \E i \in DOMAIN Events : Events[i] = recorded[k]
        <3>1. PICK i \in DOMAIN file : Parses(file[i]) /\ First(file[i]) = recorded[k]
            BY <2>2 DEF TraceFileInv, RecordedIsHeld, Holds
        <3> QED
            BY <3>1, EventsRead
    <2>4. ASSUME NEW i \in DOMAIN Events, NEW j \in DOMAIN Events,
                 NEW k \in DOMAIN recorded, NEW l \in DOMAIN recorded,
                 Events[i] = recorded[k], Events[j] = recorded[l]
          PROVE  i < j <=> k < l
        <3>1. recorded[k] \in EventSet /\ recorded[l] \in EventSet
            BY <2>1
        <3>2. /\ i < j => Precedes(recorded[k], recorded[l])
              /\ j < i => Precedes(recorded[l], recorded[k])
            BY <2>4, EventsRead DEF TraceFileInv, LinesInOrder
        <3>3. /\ k < l => Precedes(recorded[k], recorded[l])
              /\ l < k => Precedes(recorded[l], recorded[k])
            BY DEF TraceFileInv, RecordedInOrder
        <3>4. /\ Precedes(recorded[k], recorded[l])
                 => recorded[k] # recorded[l] /\ ~Precedes(recorded[l], recorded[k])
              /\ Precedes(recorded[l], recorded[k])
                 => recorded[k] # recorded[l] /\ ~Precedes(recorded[k], recorded[l])
            BY <3>1, PrecedesIsStrict
        <3>5. i \in DOMAIN file /\ j \in DOMAIN file
            BY EventsRead
        <3>6. i \in Nat /\ j \in Nat /\ k \in Nat /\ l \in Nat
            BY <2>1, <3>5
        <3>7. i = j => recorded[k] = recorded[l]
            BY <2>4
        <3> QED
            BY <3>2, <3>3, <3>4, <3>6, <3>7
    <2> QED
        BY <2>3, <2>4
<1> QED
    BY <1>1, TraceFileInvariant, PTL

\* No event is read twice, and those of a run come in the order of their numbers
\* (the sequence the recorder gives them).
THEOREM ReadInOrder == Spec => []EventsAreOrdered
<1>1. TraceFileInv => EventsAreOrdered
    <2> SUFFICES ASSUME TraceFileInv,
                        NEW i \in DOMAIN Events, NEW j \in DOMAIN Events,
                        i < j, Events[i].run = Events[j].run
                 PROVE  Events[i].sequence < Events[j].sequence
        BY DEF EventsAreOrdered
    <2>1. i \in DOMAIN file /\ j \in DOMAIN file
          /\ Events[i] = First(file[i]) /\ Events[j] = First(file[j])
        BY EventsRead
    <2>2. Precedes(Events[i], Events[j])
        BY <2>1 DEF TraceFileInv, LinesInOrder
    <2>3. Events[i] \in EventSet
        BY <2>1, FileType, FirstType DEF TraceFileInv
    <2>4. Events[i].run \in Nat
        BY <2>3, BoundsAssumption DEF EventSet
    <2> QED
        BY <2>2, <2>4 DEF Precedes
<1> QED
    BY <1>1, TraceFileInvariant, PTL
=============================================================================
