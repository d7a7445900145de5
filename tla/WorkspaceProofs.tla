--------------------------- MODULE WorkspaceProofs ---------------------------
(***************************************************************************)
(* What Workspace promises, for any set of paths, any links between them   *)
(* and any texts: a tool stays inside the workspace unless a link moves    *)
(* under it, what it read of a sensitive file is registered unless a link  *)
(* moved since the policy looked, and its result tells the files.          *)
(***************************************************************************)
EXTENDS Workspace, SequenceTheorems, TLAPS

\* What each resolution of the path still says.  The policy's is good until a
\* link moves: the tool resolves to the same path, and reads what it names.  The
\* tool's is good until a link moves after it: the path it holds is no link.
ResolutionsHold ==
    /\ "tool" \in moved => "policy" \in moved
    /\ "policy" \notin moved =>
          /\ pc = "decided" => decided = leads[call.path]
          /\ pc \in {"read", "write"} => place = decided
          /\ source # Absent => source = decided
    /\ "tool" \notin moved =>
          /\ pc \in {"read", "write"} => leads[place] = place
          /\ pc = "writing" => opened \in Inside \cup {Absent}

\* What the tool is about to write is what it was asked to.
WantedIsAsked ==
    \/ call.tool = "write_file" /\ wanted = call.content
    \/ /\ call.tool = "edit_file"
       /\ before[place] # Absent
       /\ CanReplace(ReadText(before[place]))
       /\ wanted = Replaced(ReadText(before[place]))

\* As long as no other process acts, the files are those the tool found, except
\* for the one it has emptied.
FilesAreFound ==
    /\ "tool" \in moved => touched
    /\ ~touched =>
          /\ pc \in {"decided", "read", "write"} => files = before
          /\ pc \in {"write", "writing"} => WantedIsAsked
          /\ pc = "writing" => opened = place /\ files = [before EXCEPT ![place] = <<>>]
    /\ pc = "read" => call.tool \in {"read_file", "edit_file"}

WorkspaceInv ==
    /\ TypeOK
    /\ ResolutionsHold
    /\ FilesAreFound
    /\ ResultTellsTheFiles
    /\ SensitiveOutputIsRegistered

-----------------------------------------------------------------------------
\* Texts.

\* What truncate_output returns: the text, or a beginning of one that is too
\* long, never longer than the limit.
LEMMA TruncatedFits ==
    ASSUME NEW text \in Seq(Pieces)
    PROVE  /\ Truncated(text) \in Outputs
           /\ Len(Truncated(text).text) <= MaxOutput
           /\ IF Truncated(text).truncated THEN MaxOutput < Len(text)
              ELSE Truncated(text).text = text
<1>1. Len(text) \in Nat /\ MaxOutput \in Nat /\ Kept \in Nat /\ Kept <= MaxOutput
    BY OutputAssumption
<1>2. CASE Len(text) <= MaxOutput
    BY <1>1, <1>2 DEF Truncated, Output, Outputs
<1>3. CASE ~(Len(text) <= MaxOutput)
    <2>1. \A i \in 1 .. Kept : text[i] \in Pieces
        BY <1>1, <1>3
    <2>2. SubSeq(text, 1, Kept) \in Seq(Pieces) /\ Len(SubSeq(text, 1, Kept)) <= MaxOutput
        BY <1>1, <2>1, SubSeqProperties
    <2>3. Truncated(text) = Output(SubSeq(text, 1, Kept), TRUE)
        BY <1>3 DEF Truncated
    <2> QED
        BY <1>1, <1>3, <2>2, <2>3 DEF Output, Outputs
<1> QED
    BY <1>2, <1>3

\* A text as read_text returns it is a text, of the same length.
LEMMA ReadTextIsText ==
    ASSUME NEW text \in Seq(Pieces)
    PROVE  /\ ReadText(text) \in Seq(Pieces)
           /\ Len(ReadText(text)) = Len(text)
<1>1. \A i \in 1 .. Len(text) : AsRead[text[i]] \in Pieces
    BY AsReadAssumption
<1> QED
    BY <1>1 DEF ReadText

\* A replacement has the length of what it was made of.
LEMMA ReplacedText ==
    ASSUME NEW text \in Seq(Pieces), call \in EditCalls
    PROVE  /\ Replaced(text) \in Seq(Pieces)
           /\ Len(Replaced(text)) = Len(text)
BY DEF Replaced, EditCalls

\* Writing any part of the text over what a file holds makes a text of it, and
\* over nothing the part itself.
LEMMA OverwrittenText ==
    ASSUME NEW text \in Seq(Pieces), wanted \in Seq(Pieces), NEW n \in 0 .. Len(wanted)
    PROVE  /\ Overwritten(text, n) \in Seq(Pieces)
           /\ Overwritten(<<>>, n) = SubSeq(wanted, 1, n)
<1>1. SubSeq(wanted, 1, n) \in Seq(Pieces)
    <2>1. \A i \in 1 .. n : wanted[i] \in Pieces
        OBVIOUS
    <2> QED
        BY <2>1, SubSeqProperties
<1>2. SubSeq(text, n + 1, Len(text)) \in Seq(Pieces)
    <2>1. \A i \in (n + 1) .. Len(text) : text[i] \in Pieces
        OBVIOUS
    <2>2. n + 1 \in Int /\ Len(text) \in Int
        OBVIOUS
    <2> QED
        BY <2>1, <2>2, SubSeqProperties
<1>3. SubSeq(wanted, 1, n) \o SubSeq(text, n + 1, Len(text)) \in Seq(Pieces)
    BY <1>1, <1>2, ConcatProperties
<1>4. Len(<<>>) <= n
    OBVIOUS
<1> QED
    BY <1>1, <1>3, <1>4 DEF Overwritten

-----------------------------------------------------------------------------
(* Types, and where paths lead.                                             *)

\* A path of the workspace is a path, and nothing stands for no file.
LEMMA PathFacts ==
    /\ Inside \subseteq Paths
    /\ Sensitive \subseteq Inside
    /\ Absent \notin Paths
    /\ Absent \notin Seq(Pieces)
    /\ Original \in [Paths -> Seq(Pieces) \cup {Absent}]
BY PathsAssumption, AbsentAssumption, OriginalAssumption, TextsAssumption

\* The tools of the calls.
LEMMA CallFacts ==
    ASSUME NEW c \in Calls
    PROVE  /\ c.path \in Paths
           /\ c.tool \in {"read_file", "write_file", "edit_file"}
           /\ c.tool = "read_file" => c \in ReadCalls
           /\ c.tool = "write_file" => c \in WriteCalls /\ c.content \in Seq(Pieces)
           /\ c.tool = "edit_file" => c \in EditCalls
BY TextsAssumption DEF Calls, ReadCalls, WriteCalls, EditCalls

\* The empty text is a text.
LEMMA EmptyText == <<>> \in Seq(Pieces)
OBVIOUS

\* Between two calls the initial state has the types.
LEMMA TypeInit == Init => TypeOK
<1> SUFFICES ASSUME Init PROVE TypeOK
    OBVIOUS
<1>1. Nothing \in Outputs
    BY DEF Nothing, Output, Outputs
<1>2. /\ pc = "idle" /\ call = None
      /\ result.status = "none" /\ result.output = Nothing
    BY DEF Init, Result
<1>3. /\ leads \in [Paths -> Paths]
      /\ \A path \in Paths : leads[path] = path
    BY DEF Init
<1>4. calls \in 0 .. MaxCalls /\ acts \in 0 .. MaxActs
    BY BoundsAssumption DEF Init
<1>5. /\ files \in [Paths -> Seq(Pieces) \cup {Absent}]
      /\ before \in [Paths -> Seq(Pieces) \cup {Absent}]
    BY PathFacts DEF Init
<1>6. /\ decided = Absent /\ place = Absent /\ opened = Absent /\ source = Absent
      /\ wanted \in Seq(Pieces) /\ registered = {} /\ moved = {} /\ touched = FALSE
    BY EmptyText DEF Init
<1> QED
    BY <1>1, <1>2, <1>3, <1>4, <1>5, <1>6 DEF TypeOK

\* A request keeps the types.
LEMMA TypeRequest == TypeOK /\ Request => TypeOK'
<1> SUFFICES ASSUME TypeOK, Request PROVE TypeOK'
    OBVIOUS
<1> USE DEF TypeOK
<1>1. PICK c \in Calls :
        /\ call' = c
        /\ decided' = leads[c.path]
        /\ pc' \in {"decided", "finished"}
        /\ \/ UNCHANGED result
           \/ result' = Result("denied", Nothing)
    BY DEF Request, End
<1>2. decided' \in Paths
    BY <1>1, CallFacts
<1>3. Nothing \in Outputs
    BY DEF Nothing, Output, Outputs
<1>4. /\ result'.status \in {"none", "success", "error", "timeout", "denied"}
      /\ result'.output \in Outputs
    BY <1>1, <1>3 DEF Result
<1>5. calls' \in 0 .. MaxCalls
    BY BoundsAssumption DEF Request
<1>6. opened' = Absent
    BY DEF Request
<1>7. /\ UNCHANGED <<files, leads, registered, acts>>
      /\ place' = Absent /\ source' = Absent /\ wanted' \in Seq(Pieces)
      /\ before' = files /\ moved' = {} /\ touched' = FALSE
    BY EmptyText DEF Request, disk
<1> QED
    BY <1>1, <1>2, <1>4, <1>5, <1>6, <1>7

\* The end of a call gives a result of the right type.
LEMMA EndType ==
    ASSUME NEW status \in {"success", "error", "timeout", "denied"},
           NEW output \in Outputs,
           End(status, output)
    PROVE  /\ pc' = "finished"
           /\ result'.status \in {"none", "success", "error", "timeout", "denied"}
           /\ result'.output \in Outputs
BY DEF End, Result

\* No output is an output.
LEMMA NothingType == Nothing \in Outputs
BY DEF Nothing, Output, Outputs

\* A tool's steps keep the types.
LEMMA TypeTool == TypeOK /\ Tool => TypeOK'
<1> SUFFICES ASSUME TypeOK, Tool PROVE TypeOK'
    OBVIOUS
<1> USE DEF TypeOK
<1>1. ASSUME Resolve PROVE TypeOK'
    <2>1. call \in Calls /\ call.path \in Paths
        BY <1>1, CallFacts DEF Resolve
    <2>2. wanted' \in Seq(Pieces)
        BY <1>1, <2>1, CallFacts DEF Resolve
    <2>3. /\ pc' \in {"read", "write", "finished"}
          /\ pc' \in {"read", "write"} => place' \in Inside
          /\ result'.status \in {"none", "success", "error", "timeout", "denied"}
          /\ result'.output \in Outputs
        BY <1>1, EndType, NothingType DEF Resolve
    <2>4. place' \in Paths
        BY <1>1, <2>1 DEF Resolve
    <2>5. opened' = Absent
        BY <1>1 DEF Resolve
    <2> QED
        BY <1>1, <2>1, <2>2, <2>3, <2>4, <2>5 DEF Resolve, disk
<1>2. ASSUME ReadFile PROVE TypeOK'
    <2>1. Target \in Paths /\ files[Target] \in Seq(Pieces)
        BY <1>2, PathFacts DEF ReadFile, Target
    <2>2. Truncated(ReadText(files[Target])) \in Outputs
        BY <2>1, ReadTextIsText, TruncatedFits
    <2>3. /\ pc' = "finished"
          /\ result'.status \in {"none", "success", "error", "timeout", "denied"}
          /\ result'.output \in Outputs
        BY <1>2, <2>2, EndType DEF ReadFile
    <2>4. opened' = Absent
        BY <1>2 DEF ReadFile
    <2> QED
        BY <1>2, <2>1, <2>3, <2>4 DEF ReadFile, disk, outside
<1>3. ASSUME EditFile PROVE TypeOK'
    <2>1. Target \in Paths /\ files[Target] \in Seq(Pieces)
        BY <1>3, PathFacts DEF EditFile, Target
    <2>2. call \in EditCalls
        BY <1>3, CallFacts DEF EditFile
    <2>3. wanted' \in Seq(Pieces)
        BY <1>3, <2>1, <2>2, ReadTextIsText, ReplacedText DEF EditFile
    <2>4. /\ pc' \in {"write", "finished"}
          /\ result'.status \in {"none", "success", "error", "timeout", "denied"}
          /\ result'.output \in Outputs
        BY <1>3, EndType, NothingType DEF EditFile
    <2>5. opened' = Absent
        BY <1>3 DEF EditFile
    <2> QED
        BY <1>3, <2>1, <2>2, <2>3, <2>4, <2>5 DEF EditFile, disk, outside
<1>4. ASSUME OpenFails PROVE TypeOK'
    <2>1. /\ pc' = "finished"
          /\ result'.status \in {"none", "success", "error", "timeout", "denied"}
          /\ result'.output \in Outputs
        BY <1>4, EndType, NothingType DEF OpenFails
    <2>2. opened' = Absent
        BY <1>4 DEF OpenFails
    <2> QED
        BY <1>4, <2>1, <2>2 DEF OpenFails, disk, outside
<1>5. ASSUME Open PROVE TypeOK'
    <2>1. Target \in Paths /\ leads[Target] = Target
        BY <1>5, PathFacts DEF Open, Target
    <2>2. files'[Target] = <<>> /\ files' \in [Paths -> Seq(Pieces) \cup {Absent}]
        BY <1>5, <2>1 DEF Open
    <2>3. \A path \in Paths : leads[path] # path => files'[path] = Absent
        BY <1>5, <2>1 DEF Open
    <2>4. files'[opened'] # Absent
        <3>1. <<>> # Absent
            BY PathFacts, EmptyText
        <3> QED
            BY <1>5, <2>2, <3>1 DEF Open
    <2> QED
        BY <1>5, <2>1, <2>2, <2>3, <2>4 DEF Open, outside
<1>6. ASSUME NEW n \in 0 .. Len(wanted), Put(n), pc = "writing", opened' = Absent,
             NEW status \in {"success", "error", "timeout"}, End(status, Nothing),
             UNCHANGED <<leads, call, decided, place, wanted, registered, source, before,
                         outside>>
      PROVE  TypeOK'
    <2>1. opened # Absent => Overwritten(files[opened], n) \in Seq(Pieces)
        BY OverwrittenText
    <2>2. files' \in [Paths -> Seq(Pieces) \cup {Absent}]
        BY <1>6, <2>1 DEF Put
    <2>3. \A path \in Paths : leads[path] # path => files'[path] = Absent
        BY <1>6 DEF Put
    <2>4. /\ result'.status \in {"none", "success", "error", "timeout", "denied"}
          /\ result'.output \in Outputs
        BY <1>6, EndType, NothingType
    <2>5. /\ pc = "writing" /\ pc' = "finished" /\ opened' = Absent
          /\ UNCHANGED <<leads, call, decided, place, wanted, registered, source, before>>
          /\ UNCHANGED <<moved, touched, calls, acts>>
        BY <1>6, EndType, NothingType DEF outside
    <2> QED
        BY <2>2, <2>3, <2>4, <2>5
<1>7. ASSUME WriteText PROVE TypeOK'
    BY <1>6, <1>7 DEF WriteText, End
<1>8. ASSUME WriteFails PROVE TypeOK'
    BY <1>6, <1>8 DEF WriteFails, End
<1> QED
    BY <1>1, <1>2, <1>3, <1>4, <1>5, <1>7, <1>8 DEF Tool

\* Moving a link leaves every path leading to a file's path or to nothing, and a
\* link with no text of its own: whatever led through the path is moved along.
LEMMA TypeRelink ==
    ASSUME TypeOK, NEW path \in Paths, NEW target \in Paths, Relink(path, target)
    PROVE  /\ leads' \in [Paths -> Paths]
           /\ \A p \in Paths : /\ leads'[leads'[p]] = leads'[p]
                               /\ leads'[p] # p => files'[p] = Absent
<1> DEFINE same == {p \in Paths : leads[p] = leads[path]}
<1>1. PICK along \in SUBSET same :
        /\ path \in along
        /\ IF leads[path] = path THEN along = same ELSE leads[path] \notin along
        /\ target = path \/ (leads[target] = target /\ target \notin along)
        /\ leads' = [p \in Paths |-> IF p \in along THEN target ELSE leads[p]]
        /\ files' = [files EXCEPT ![path] = Absent]
    BY DEF Relink
<1>2. /\ files \in [Paths -> Seq(Pieces) \cup {Absent}]
      /\ leads \in [Paths -> Paths]
      /\ \A p \in Paths : leads[leads[p]] = leads[p] /\ (leads[p] # p => files[p] = Absent)
    BY DEF TypeOK
<1>3. leads' \in [Paths -> Paths]
    BY <1>1, <1>2
<1>4. leads'[target] = target
    BY <1>1, <1>2
<1>5. ASSUME NEW p \in Paths PROVE leads'[leads'[p]] = leads'[p]
    <2>1. CASE p \in along
        BY <1>1, <1>4, <2>1
    <2>2. CASE p \notin along
        <3>1. leads'[p] = leads[p]
            BY <1>1, <2>2
        <3>2. leads[p] \notin along
            <4> SUFFICES ASSUME leads[p] \in along PROVE FALSE
                OBVIOUS
            <4>1. leads[leads[p]] = leads[path]
                BY <1>1
            <4>2. leads[p] = leads[path]
                BY <1>2, <4>1
            <4> QED
                BY <1>1, <2>2, <4>2
        <3> QED
            BY <1>1, <1>2, <3>1, <3>2
    <2> QED
        BY <2>1, <2>2
<1>6. ASSUME NEW p \in Paths, leads'[p] # p PROVE files'[p] = Absent
    <2>1. CASE p = path
        BY <1>1, <1>2, <2>1
    <2>2. CASE p # path
        <3>1. leads[p] # p
            <4> SUFFICES ASSUME leads[p] = p PROVE FALSE
                OBVIOUS
            <4>1. p \in along
                BY <1>1, <1>6
            <4>2. leads[path] = p
                BY <1>1, <4>1
            <4> QED
                BY <1>1, <2>2, <4>1, <4>2
        <3> QED
            BY <1>1, <1>2, <2>2, <3>1
    <2> QED
        BY <2>1, <2>2
<1> QED
    BY <1>3, <1>5, <1>6

\* Another process keeps the types.
LEMMA TypeAct == TypeOK /\ Act => TypeOK'
<1> SUFFICES ASSUME TypeOK, Act PROVE TypeOK'
    OBVIOUS
<1>1. PICK path \in Paths :
        \/ \E text \in Texts \cup {Absent} : Rewrite(path, text)
        \/ \E target \in Paths : Relink(path, target)
    BY DEF Act
<1> DEFINE Held == /\ files' \in [Paths -> Seq(Pieces) \cup {Absent}]
                   /\ moved' \subseteq {"policy", "tool"}
                   /\ opened' \in {opened, Absent}
                   /\ opened' # Absent => files'[opened'] # Absent
           Led == /\ leads' \in [Paths -> Paths]
                  /\ \A p \in Paths : /\ leads'[leads'[p]] = leads'[p]
                                      /\ leads'[p] # p => files'[p] = Absent
<1>2. ASSUME NEW text \in Texts \cup {Absent}, Rewrite(path, text) PROVE Held /\ Led
    <2>1. text \in Seq(Pieces) \cup {Absent}
        BY TextsAssumption
    <2>2. Held
        BY <1>2, <2>1 DEF TypeOK, Rewrite
    <2>3. Led
        BY <1>2 DEF TypeOK, Rewrite
    <2> QED
        BY <2>2, <2>3
<1>3. ASSUME NEW target \in Paths, Relink(path, target) PROVE Held /\ Led
    <2>1. /\ files' = [files EXCEPT ![path] = Absent]
          /\ opened' = IF opened = path THEN Absent ELSE opened
          /\ moved' = {"policy", "tool"}
        BY <1>3 DEF Relink
    <2>2. Held
        BY <2>1 DEF TypeOK
    <2>3. Led
        BY <1>3, TypeRelink
    <2> QED
        BY <2>2, <2>3
<1>4. acts' \in 0 .. MaxActs /\ touched' \in BOOLEAN
    BY BoundsAssumption DEF TypeOK, Act
<1>5. UNCHANGED <<pc, call, decided, place, wanted, result, registered, source, before, calls>>
    BY DEF Act
<1>6. Held /\ Led
    BY <1>1, <1>2, <1>3
<1> QED
    BY <1>4, <1>5, <1>6 DEF TypeOK

\* A refusal and the record of a result keep the types.
LEMMA TypeRefuse == TypeOK /\ Refuse => TypeOK'
<1> SUFFICES ASSUME TypeOK, Refuse PROVE TypeOK'
    OBVIOUS
<1>1. /\ pc = "decided" /\ pc' = "finished"
      /\ result'.status \in {"none", "success", "error", "timeout", "denied"}
      /\ result'.output \in Outputs
    BY EndType, NothingType DEF Refuse
<1>2. UNCHANGED <<files, leads, call, decided, place, wanted, opened, registered, source,
                  before, moved, touched, calls, acts>>
    BY DEF Refuse, disk, outside
<1> QED
    BY <1>1, <1>2 DEF TypeOK

\* The record of a result keeps every type.
LEMMA TypeRecord == TypeOK /\ RecordFinished => TypeOK'
<1> SUFFICES ASSUME TypeOK, RecordFinished PROVE TypeOK'
    OBVIOUS
<1>1. pc = "finished" /\ pc' = "idle"
    BY DEF RecordFinished
<1>2. UNCHANGED <<files, leads, call, decided, place, wanted, opened, result, source, before,
                  moved, touched, calls, acts>>
    BY DEF RecordFinished, disk, outside
<1>3. registered' \subseteq Outputs
    BY DEF RecordFinished, TypeOK
<1> QED
    BY <1>1, <1>2, <1>3 DEF TypeOK

\* Every step keeps every type.
LEMMA TypeStep == TypeOK /\ [Next]_vars => TypeOK'
<1> SUFFICES ASSUME TypeOK, [Next]_vars PROVE TypeOK'
    OBVIOUS
<1>1. CASE UNCHANGED vars
    BY <1>1 DEF TypeOK, vars
<1> QED
    BY <1>1, TypeRequest, TypeRefuse, TypeTool, TypeRecord, TypeAct DEF Next

-----------------------------------------------------------------------------
(* The resolutions.                                                         *)

\* A tool's steps preserve what the resolutions say; Resolve renews the tool's.
LEMMA ResolutionTool == TypeOK /\ ResolutionsHold /\ Tool => ResolutionsHold'
<1> SUFFICES ASSUME TypeOK, ResolutionsHold, Tool PROVE ResolutionsHold'
    OBVIOUS
<1> USE DEF ResolutionsHold
<1>1. ASSUME Resolve PROVE ResolutionsHold'
    <2>1. call.path \in Paths
        BY <1>1, CallFacts DEF Resolve, TypeOK
    <2>2. leads[place'] = place'
        BY <1>1, <2>1 DEF Resolve, TypeOK
    <2>3. /\ pc = "decided" /\ pc' \in {"read", "write", "finished"}
          /\ place' = leads[call.path] /\ moved' = moved \ {"tool"}
          /\ UNCHANGED <<leads, call, decided, source>>
        BY <1>1 DEF Resolve, End, disk
    <2> QED
        BY <2>2, <2>3
<1>2. ASSUME ReadFile PROVE ResolutionsHold'
    BY <1>2 DEF ReadFile, End, Target, disk, outside
<1>3. ASSUME EditFile PROVE ResolutionsHold'
    BY <1>3 DEF EditFile, End, Target, disk, outside
<1>4. ASSUME OpenFails PROVE ResolutionsHold'
    BY <1>4 DEF OpenFails, End, disk, outside
<1>5. ASSUME Open PROVE ResolutionsHold'
    BY <1>5 DEF Open, Target, outside, TypeOK
<1>6. ASSUME WriteText \/ WriteFails PROVE ResolutionsHold'
    BY <1>6 DEF WriteText, WriteFails, End, outside
<1> QED
    BY <1>1, <1>2, <1>3, <1>4, <1>5, <1>6 DEF Tool

\* So does every other step: a link that moves voids both.
LEMMA ResolutionStep == TypeOK /\ ResolutionsHold /\ [Next]_vars => ResolutionsHold'
<1> SUFFICES ASSUME TypeOK, ResolutionsHold, [Next]_vars PROVE ResolutionsHold'
    OBVIOUS
<1> USE DEF ResolutionsHold
<1>1. ASSUME Request PROVE ResolutionsHold'
    BY <1>1 DEF Request, End, disk
<1>2. ASSUME Refuse PROVE ResolutionsHold'
    BY <1>2 DEF Refuse, End, disk, outside
<1>3. ASSUME RecordFinished PROVE ResolutionsHold'
    BY <1>3 DEF RecordFinished, disk, outside
<1>4. ASSUME Act PROVE ResolutionsHold'
    <2>1. \/ moved' = {"policy", "tool"}
          \/ leads' = leads /\ moved' = moved /\ opened' \in {opened, Absent}
        BY <1>4 DEF Act, Rewrite, Relink
    <2>2. UNCHANGED <<pc, call, decided, place, source>>
        BY <1>4 DEF Act
    <2> QED
        BY <2>1, <2>2
<1>5. CASE UNCHANGED vars
    BY <1>5 DEF vars
<1> QED
    BY <1>1, <1>2, <1>3, <1>4, <1>5, ResolutionTool DEF Next

-----------------------------------------------------------------------------
(* The files.                                                               *)

\* Undisturbed, the tool works on the very file it resolved to.
LEMMA FoundTarget ==
    ASSUME TypeOK, ResolutionsHold, FilesAreFound, pc \in {"read", "write"}, ~touched
    PROVE  Target = place /\ place \in Paths /\ files = before
BY PathFacts DEF TypeOK, ResolutionsHold, FilesAreFound, Target

\* What a tool finds, and what it leaves, is the file its resolution led to.
LEMMA FoundTool ==
    TypeOK /\ ResolutionsHold /\ FilesAreFound /\ Tool => FilesAreFound'
<1> SUFFICES ASSUME TypeOK, ResolutionsHold, FilesAreFound, Tool PROVE FilesAreFound'
    OBVIOUS
<1> USE DEF FilesAreFound
<1>1. ASSUME Resolve PROVE FilesAreFound'
    <2>1. call.tool \in {"read_file", "write_file", "edit_file"}
        BY <1>1, CallFacts DEF Resolve, TypeOK
    <2>2. /\ pc' \in {"read", "write", "finished"}
          /\ pc' = "read" => call.tool # "write_file"
          /\ pc' = "write" => call.tool = "write_file" /\ wanted' = call.content
        BY <1>1 DEF Resolve, End
    <2>3. /\ before' = files /\ moved' = moved \ {"tool"} /\ touched' = FALSE
          /\ UNCHANGED <<files, call>>
        BY <1>1 DEF Resolve, disk
    <2>4. pc' \in {"write", "writing"} => WantedIsAsked'
        BY <2>2, <2>3 DEF WantedIsAsked
    <2> QED
        BY <2>1, <2>2, <2>3, <2>4
<1>2. ASSUME ReadFile PROVE FilesAreFound'
    BY <1>2 DEF ReadFile, End, disk, outside
<1>3. ASSUME EditFile PROVE FilesAreFound'
    <2>1. /\ pc = "read" /\ pc' \in {"write", "finished"}
          /\ UNCHANGED <<files, call, place, before, moved, touched>>
        BY <1>3 DEF EditFile, End, disk, outside
    <2>2. ASSUME ~touched, pc' = "write" PROVE WantedIsAsked'
        <3>1. Target = place /\ files = before
            BY <2>1, <2>2, FoundTarget
        <3>2. /\ call.tool = "edit_file" /\ before[place] # Absent
              /\ CanReplace(ReadText(before[place]))
              /\ wanted' = Replaced(ReadText(before[place]))
            BY <1>3, <2>2, <3>1 DEF EditFile, End
        <3> QED
            BY <2>1, <3>2 DEF WantedIsAsked, CanReplace, Replaced
    <2> QED
        BY <2>1, <2>2
<1>4. ASSUME OpenFails PROVE FilesAreFound'
    BY <1>4 DEF OpenFails, End, disk, outside
<1>5. ASSUME Open PROVE FilesAreFound'
    <2>1. /\ pc = "write" /\ pc' = "writing" /\ opened' = Target
          /\ files' = [files EXCEPT ![Target] = <<>>]
          /\ UNCHANGED <<call, place, wanted, before, moved, touched>>
        BY <1>5 DEF Open, outside
    <2>2. ~touched => opened' = place /\ files' = [before EXCEPT ![place] = <<>>]
        BY <2>1, FoundTarget
    <2>3. WantedIsAsked => WantedIsAsked'
        BY <2>1 DEF WantedIsAsked, CanReplace, Replaced
    <2> QED
        BY <2>1, <2>2, <2>3
<1>6. ASSUME WriteText \/ WriteFails PROVE FilesAreFound'
    BY <1>6 DEF WriteText, WriteFails, End, outside
<1> QED
    BY <1>1, <1>2, <1>3, <1>4, <1>5, <1>6 DEF Tool

\* Every step keeps what is known of the file a call has found.
LEMMA FoundStep ==
    TypeOK /\ ResolutionsHold /\ FilesAreFound /\ [Next]_vars => FilesAreFound'
<1> SUFFICES ASSUME TypeOK, ResolutionsHold, FilesAreFound, [Next]_vars
             PROVE  FilesAreFound'
    OBVIOUS
<1> USE DEF FilesAreFound
<1>1. ASSUME Request PROVE FilesAreFound'
    BY <1>1 DEF Request, End, disk
<1>2. ASSUME Refuse PROVE FilesAreFound'
    BY <1>2 DEF Refuse, End, disk, outside
<1>3. ASSUME RecordFinished PROVE FilesAreFound'
    BY <1>3 DEF RecordFinished, disk, outside
<1>4. ASSUME Act PROVE FilesAreFound'
    BY <1>4 DEF Act
<1>5. CASE UNCHANGED vars
    BY <1>5 DEF vars, WantedIsAsked, CanReplace, Replaced
<1> QED
    BY <1>1, <1>2, <1>3, <1>4, <1>5, FoundTool DEF Next

-----------------------------------------------------------------------------
(* The results.                                                             *)

\* An edit that went through had something to replace, once unless all were.
LEMMA ReplaceableText ==
    ASSUME NEW text \in Seq(Pieces), CanReplace(text)
    PROVE  LET indices == {i \in 1 .. Len(text) : text[i] = call.old_text}
           IN  \E i \in indices : call.replace_all \/ indices = {i}
BY DEF CanReplace, IsOne, Occurrences

\* A text that was being written, in whole or in part, is what the result says.
LEMMA WriteTells ==
    ASSUME TypeOK, FilesAreFound, pc = "writing", ~touched,
           NEW n \in 0 .. Len(wanted), Put(n),
           NEW status \in {"success", "error", "timeout"}, result'.status = status,
           status = "success" => n = Len(wanted),
           UNCHANGED <<call, place, before>>
    PROVE  ResultTellsTheFiles'
<1>1. /\ opened = place /\ place \in Inside /\ place \in Paths
      /\ files = [before EXCEPT ![place] = <<>>]
      /\ before \in [Paths -> Seq(Pieces) \cup {Absent}]
      /\ wanted \in Seq(Pieces)
    BY PathFacts DEF TypeOK, FilesAreFound
<1>2. opened # Absent
    BY <1>1, PathFacts
<1>3. Overwritten(<<>>, n) = SubSeq(wanted, 1, n)
    BY <1>1, EmptyText, OverwrittenText
<1>4. files' = [before EXCEPT ![place] = SubSeq(wanted, 1, n)]
    BY <1>1, <1>2, <1>3 DEF Put
<1>5. n = Len(wanted) => SubSeq(wanted, 1, n) = wanted
    BY <1>1, SubSeqFull
<1>6. CASE call.tool = "write_file" /\ wanted = call.content
    <2>1. ToldOfWrite'
        BY <1>4, <1>5, <1>6 DEF ToldOfWrite, Became
    <2> QED
        BY <1>1, <1>6, <2>1 DEF ResultTellsTheFiles
<1>7. CASE /\ call.tool = "edit_file" /\ before[place] # Absent
           /\ CanReplace(ReadText(before[place]))
           /\ wanted = Replaced(ReadText(before[place]))
    <2> DEFINE old == ReadText(before[place])
               indices == {i \in 1 .. Len(old) : old[i] = call.old_text}
               new == [i \in 1 .. Len(old) |-> IF i \in indices THEN call.new_text ELSE old[i]]
    <2>1. old \in Seq(Pieces) /\ call \in EditCalls
        BY <1>1, <1>7, CallFacts, ReadTextIsText DEF TypeOK
    <2>2. new = wanted
        BY <1>7 DEF Replaced
    <2>3. Len(wanted) = Len(old)
        BY <1>7, <2>1, ReplacedText
    <2>4. \E i \in indices : call.replace_all \/ indices = {i}
        BY <1>7, <2>1, ReplaceableText
    <2>5. IF status = "success" THEN files' = [before EXCEPT ![place] = new]
          ELSE \E m \in 0 .. Len(old) : files' = [before EXCEPT ![place] = SubSeq(new, 1, m)]
        BY <1>4, <1>5, <2>2, <2>3
    <2>6. ToldOfEdit'
        BY <2>4, <2>5 DEF ToldOfEdit, Became
    <2> QED
        BY <1>1, <1>7, <2>6 DEF ResultTellsTheFiles
<1> QED
    BY <1>6, <1>7 DEF FilesAreFound, WantedIsAsked

\* A read tells what the file held.
LEMMA ReadTells ==
    ASSUME TypeOK, ResolutionsHold, FilesAreFound, ReadFile, ~touched
    PROVE  ResultTellsTheFiles'
<1>1. /\ pc = "read" /\ call.tool = "read_file" /\ files[Target] # Absent
      /\ result' = Result("success", Truncated(ReadText(files[Target])))
      /\ UNCHANGED <<files, call, place, before>>
    BY DEF ReadFile, End, disk
<1>2. Target = place /\ place \in Paths /\ files = before /\ place \in Inside
    BY <1>1, FoundTarget DEF TypeOK
<1>3. before[place] \in Seq(Pieces) /\ before[place] # Absent
    BY <1>1, <1>2 DEF TypeOK
<1>4. /\ result'.status = "success"
      /\ result'.output = Truncated(ReadText(before[place]))
    BY <1>1, <1>2 DEF Result
<1>5. ToldOfRead'
    BY <1>1, <1>2, <1>3, <1>4, ReadTextIsText, TruncatedFits DEF ToldOfRead, Unchanged
<1> QED
    BY <1>1, <1>2, <1>4, <1>5 DEF ResultTellsTheFiles

\* A call that fails before the file is opened has changed nothing.
LEMMA FailureTells ==
    ASSUME TypeOK, FilesAreFound, ~touched, pc \in {"read", "write"},
           result'.status \in {"error", "timeout"},
           UNCHANGED <<files, call, place, before>>
    PROVE  ResultTellsTheFiles'
<1>1. /\ files' = before' /\ place' \in Inside
      /\ call \in Calls
    BY DEF TypeOK, FilesAreFound
<1>2. call.tool \in {"read_file", "write_file", "edit_file"}
    BY <1>1, CallFacts
<1>3. Unchanged'
    BY <1>1 DEF Unchanged
<1>4. ToldOfRead' /\ ToldOfWrite' /\ ToldOfEdit'
    BY <1>3 DEF ToldOfRead, ToldOfWrite, ToldOfEdit
<1> QED
    BY <1>1, <1>2, <1>3, <1>4 DEF ResultTellsTheFiles

\* The step with which a tool ends makes a result that tells the files.
LEMMA ResultTool ==
    TypeOK /\ ResolutionsHold /\ FilesAreFound /\ Tool => ResultTellsTheFiles'
<1> SUFFICES ASSUME TypeOK, ResolutionsHold, FilesAreFound, Tool,
                    pc' = "finished", ~touched'
             PROVE  ResultTellsTheFiles'
    BY DEF ResultTellsTheFiles
<1>1. CASE Resolve
    <2>1. /\ place' \notin Inside /\ files' = before'
          /\ result' = Result("error", Nothing)
        BY <1>1 DEF Resolve, End, disk
    <2> QED
        BY <2>1 DEF ResultTellsTheFiles, Result, Unchanged
<1>2. CASE ReadFile
    BY <1>2, ReadTells DEF ReadFile, outside
<1>3. CASE EditFile
    <2>1. /\ pc = "read" /\ ~touched /\ result' = Result("error", Nothing)
          /\ UNCHANGED <<files, call, place, before>>
        BY <1>3 DEF EditFile, End, disk, outside
    <2>2. result'.status = "error"
        BY <2>1 DEF Result
    <2> QED
        BY <2>1, <2>2, FailureTells
<1>4. CASE OpenFails
    <2>1. /\ pc \in {"read", "write"} /\ ~touched
          /\ \E status \in {"error", "timeout"} : result' = Result(status, Nothing)
          /\ UNCHANGED <<files, call, place, before>>
        BY <1>4 DEF OpenFails, End, disk, outside
    <2>2. result'.status \in {"error", "timeout"}
        BY <2>1 DEF Result
    <2> QED
        BY <2>1, <2>2, FailureTells
<1>5. CASE Open
    BY <1>5 DEF Open
<1>6. CASE WriteText
    <2>1. /\ pc = "writing" /\ ~touched /\ Put(Len(wanted))
          /\ result' = Result("success", Nothing)
          /\ UNCHANGED <<call, place, before>>
        BY <1>6 DEF WriteText, End, outside
    <2>2. result'.status = "success" /\ Len(wanted) \in 0 .. Len(wanted)
        BY <2>1 DEF Result, TypeOK
    <2> QED
        BY <2>1, <2>2, WriteTells
<1>7. CASE WriteFails
    <2>1. PICK n \in 0 .. Len(wanted), status \in {"error", "timeout"} :
            Put(n) /\ End(status, Nothing)
        BY <1>7 DEF WriteFails
    <2>2. pc = "writing" /\ ~touched /\ UNCHANGED <<call, place, before>>
        BY <1>7 DEF WriteFails, outside
    <2>3. result'.status = status
        BY <2>1 DEF End, Result
    <2> QED
        BY <2>1, <2>2, <2>3, WriteTells
<1> QED
    BY <1>1, <1>2, <1>3, <1>4, <1>5, <1>6, <1>7 DEF Tool

\* Every step keeps the result true of the files.
LEMMA ResultStep ==
    /\ TypeOK /\ ResolutionsHold /\ FilesAreFound /\ ResultTellsTheFiles
    /\ [Next]_vars
    => ResultTellsTheFiles'
<1> SUFFICES ASSUME TypeOK, ResolutionsHold, FilesAreFound, ResultTellsTheFiles,
                    [Next]_vars, pc' = "finished", ~touched'
             PROVE  ResultTellsTheFiles'
    BY DEF ResultTellsTheFiles
<1>1. CASE Request
    <2>1. result' = Result("denied", Nothing) /\ files' = before'
        BY <1>1 DEF Request, End, disk
    <2> QED
        BY <2>1 DEF ResultTellsTheFiles, Result, Unchanged
<1>2. CASE Refuse
    <2>1. /\ pc = "decided" /\ ~touched /\ result' = Result("denied", Nothing)
          /\ UNCHANGED <<files, before>>
        BY <1>2 DEF Refuse, End, disk, outside
    <2>2. files' = before'
        BY <2>1 DEF FilesAreFound
    <2> QED
        BY <2>1, <2>2 DEF ResultTellsTheFiles, Result, Unchanged
<1>3. CASE RecordFinished
    BY <1>3 DEF RecordFinished
<1>4. CASE Act
    BY <1>4 DEF Act
<1>5. CASE UNCHANGED vars
    <2>1. UNCHANGED <<files, before, place, call, pc, touched, result>>
        BY <1>5 DEF vars
    <2>2. Unchanged' = Unchanged
        BY <2>1 DEF Unchanged
    <2>3. ToldOfRead' = ToldOfRead
        BY <2>1, <2>2 DEF ToldOfRead
    <2>4. ToldOfWrite' = ToldOfWrite
        BY <2>1, <2>2 DEF ToldOfWrite, Became
    <2>5. ToldOfEdit' = ToldOfEdit
        BY <2>1, <2>2 DEF ToldOfEdit, Became
    <2> QED
        BY <2>1, <2>2, <2>3, <2>4, <2>5 DEF ResultTellsTheFiles
<1> QED
    BY <1>1, <1>2, <1>3, <1>4, <1>5, ResultTool DEF Next

-----------------------------------------------------------------------------
(* The registered outputs.                                                  *)

\* Only the record of a result ends a call, and it registers by the path the
\* policy decided on, which is the one the output came from.
LEMMA RegisteredStep ==
    /\ TypeOK /\ ResolutionsHold /\ SensitiveOutputIsRegistered
    /\ [Next]_vars
    => SensitiveOutputIsRegistered'
<1> SUFFICES ASSUME TypeOK, ResolutionsHold, SensitiveOutputIsRegistered, [Next]_vars,
                    pc' = "idle", call'.tool = "read_file", result'.status = "success",
                    source' \in Sensitive, "policy" \notin moved'
             PROVE  result'.output \in registered'
    BY DEF SensitiveOutputIsRegistered
<1>1. CASE RecordFinished
    <2>1. /\ call.tool = "read_file" /\ result.status = "success"
          /\ source \in Sensitive /\ "policy" \notin moved
          /\ result' = result
        BY <1>1 DEF RecordFinished, outside
    <2>2. source # Absent
        BY <2>1, PathFacts
    <2>3. decided \in Sensitive
        BY <2>1, <2>2 DEF ResolutionsHold
    <2>4. registered' = registered \cup {result.output}
        BY <1>1, <2>1, <2>3 DEF RecordFinished, IsSensitive
    <2> QED
        BY <2>1, <2>4
<1>2. CASE Act
    <2>1. moved \subseteq moved'
        BY <1>2 DEF Act, Rewrite, Relink, TypeOK
    <2>2. UNCHANGED <<pc, call, result, source, registered>>
        BY <1>2 DEF Act
    <2> QED
        BY <2>1, <2>2 DEF SensitiveOutputIsRegistered
<1>3. CASE UNCHANGED vars
    BY <1>3 DEF vars, SensitiveOutputIsRegistered
<1>4. CASE Request \/ Refuse
    BY <1>4 DEF Request, Refuse, End
<1>5. CASE Tool
    <2>1. pc' # "idle"
        BY <1>5 DEF Tool, Resolve, ReadFile, EditFile, OpenFails, Open, WriteText,
                    WriteFails, End
    <2> QED
        BY <2>1
<1> QED
    BY <1>1, <1>2, <1>3, <1>4, <1>5 DEF Next

-----------------------------------------------------------------------------
(* The invariant, and what follows from it.                                 *)

\* The invariant holds of every run.
LEMMA WorkspaceInvariant == Spec => []WorkspaceInv
<1>1. Init => WorkspaceInv
    <2> SUFFICES ASSUME Init PROVE WorkspaceInv
        OBVIOUS
    <2>1. TypeOK
        BY TypeInit
    <2>2. pc = "idle" /\ call = None /\ moved = {} /\ source = Absent
        BY DEF Init
    <2>3. call.tool # "read_file"
        BY <2>2 DEF None
    <2> QED
        BY <2>1, <2>2, <2>3 DEF WorkspaceInv, ResolutionsHold, FilesAreFound,
                           ResultTellsTheFiles, SensitiveOutputIsRegistered
<1>2. WorkspaceInv /\ [Next]_vars => WorkspaceInv'
    BY TypeStep, ResolutionStep, FoundStep, ResultStep, RegisteredStep DEF WorkspaceInv
<1> QED
    BY <1>1, <1>2, PTL DEF Spec

\* Every variable always has the type the code gives it; no path leads anywhere
\* but to a file's path, and a file is open only while it is being written
\* (write_text and read_text open and close the file they name).
THEOREM WorkspaceTypeCorrect == Spec => []TypeOK
<1>1. WorkspaceInv => TypeOK
    BY DEF WorkspaceInv
<1> QED
    BY <1>1, WorkspaceInvariant, PTL

\* Whatever the texts, the line endings, the links and the limit: an undisturbed
\* call's result tells what became of the files (read_file, write_file and
\* edit_file, which also makes every line ending of the file the same).
THEOREM ResultTold == Spec => []ResultTellsTheFiles
<1>1. WorkspaceInv => ResultTellsTheFiles
    BY DEF WorkspaceInv
<1> QED
    BY <1>1, WorkspaceInvariant, PTL

\* Whatever is linked to what: the output of a sensitive file is registered with
\* the recorder, unless a link moved after the policy looked (_execute_call).
THEOREM OutputRegistered == Spec => []SensitiveOutputIsRegistered
<1>1. WorkspaceInv => SensitiveOutputIsRegistered
    BY DEF WorkspaceInv
<1> QED
    BY <1>1, WorkspaceInvariant, PTL

\* A tool reaches outside only through a link that moved after the tool itself
\* resolved the path (resolve_workspace_path in each tool).
THEOREM StaysInside == Spec => ToolsStayInside
<1> DEFINE Stays ==
        /\ \A path \in Paths \ Inside : files'[path] # files[path] => "tool" \in moved
        /\ source' # source => source' \in Inside \/ "tool" \in moved
<1>1. WorkspaceInv /\ [Next]_vars => [Tool => Stays]_vars
    <2> SUFFICES ASSUME WorkspaceInv, Tool PROVE Stays
        OBVIOUS
    <2> USE DEF WorkspaceInv
    <2>1. /\ files \in [Paths -> Seq(Pieces) \cup {Absent}]
          /\ pc \in {"read", "write", "writing"} => place \in Inside
        BY DEF TypeOK
    <2>2. CASE Resolve
        BY <2>2 DEF Resolve, disk
    <2>3. CASE ReadFile \/ EditFile
        BY <2>1, <2>3 DEF ReadFile, EditFile, disk, Target, ResolutionsHold
    <2>4. CASE OpenFails
        BY <2>4 DEF OpenFails, disk
    <2>5. CASE Open
        <3>1. Target \in Inside \/ "tool" \in moved
            BY <2>1, <2>5 DEF Open, Target, ResolutionsHold
        <3>2. files' = [files EXCEPT ![Target] = <<>>] /\ source' = source
            BY <2>5 DEF Open
        <3> QED
            BY <2>1, <3>1, <3>2
    <2>6. CASE WriteText \/ WriteFails
        <3>1. pc = "writing" /\ source' = source /\ \E n \in Nat : Put(n)
            BY <2>6 DEF WriteText, WriteFails, TypeOK
        <3>2. opened \in Inside \cup {Absent} \/ "tool" \in moved
            BY <3>1 DEF ResolutionsHold
        <3> QED
            BY <2>1, <3>1, <3>2 DEF Put
    <2> QED
        BY <2>2, <2>3, <2>4, <2>5, <2>6 DEF Tool
<1> QED
    BY <1>1, WorkspaceInvariant, PTL DEF Spec, ToolsStayInside
=============================================================================
