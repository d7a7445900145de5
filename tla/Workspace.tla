----------------------------- MODULE Workspace -----------------------------
(***************************************************************************)
(* The files a run works on: the policy's decision about a path            *)
(* (policy/engine.py), the file tools (tools/filesystem.py), and the       *)
(* registration of what a sensitive file held (runtime.py), while other    *)
(* processes change the same files: a command of a bash call or one it     *)
(* left running, the user, who may take minutes to approve a call.         *)
(*                                                                         *)
(* A text is a sequence of pieces, all of one length as read_text returns  *)
(* them: read_text makes one line ending of every kind (universal          *)
(* newlines), write_text writes what it is given (as on POSIX).  An edit's *)
(* old_text and new_text are one piece each.  A path leads to itself when  *)
(* it names a file or nothing, and elsewhere when it goes through a link.  *)
(*                                                                         *)
(* A file tool awaits nothing, so the deadline of ToolRegistry.execute     *)
(* cannot cut it off, and two of its steps have only the acts of other     *)
(* processes between them.                                                 *)
(***************************************************************************)
EXTENDS Naturals, Sequences

CONSTANTS
    Paths,      \* the paths a call may name
    Inside,     \* those in the workspace
    Sensitive,  \* those that match sensitive_paths
    Pieces,     \* the pieces texts are made of
    AsRead,     \* what read_text makes of a piece: "\r\n" and "\r" become "\n"
    Texts,      \* the texts that are written whole
    Absent,     \* what a path with no file holds
    Original,   \* the files a run begins with
    MaxOutput,  \* max_output_chars
    Kept,       \* what truncate_output keeps of a longer output
    MaxCalls,   \* bound: calls
    MaxActs     \* bound: acts of other processes

ASSUME PathsAssumption == Inside \subseteq Paths /\ Sensitive \subseteq Inside
ASSUME AsReadAssumption ==
    /\ AsRead \in [Pieces -> Pieces]
    /\ \A piece \in Pieces : AsRead[AsRead[piece]] = AsRead[piece]
ASSUME TextsAssumption == Texts \subseteq Seq(Pieces)
ASSUME OutputAssumption == MaxOutput \in Nat /\ Kept \in 0 .. MaxOutput
ASSUME BoundsAssumption == MaxCalls \in Nat /\ MaxActs \in Nat

ASSUME AbsentAssumption == Absent \notin Paths \cup Seq(Pieces)
ASSUME OriginalAssumption == Original \in [Paths -> Texts \cup {Absent}]

VARIABLES
    files,       \* what each path that is no link holds
    leads,       \* where each path leads
    pc,          \* what is done about the call; "idle" when there is none
    call,        \* the call
    decided,     \* the path the policy normalized its argument to
    place,       \* the path the tool resolved it to
    wanted,      \* the text the tool writes
    opened,      \* the file it has open for writing
    result,      \* the result of the call
    registered,  \* the outputs the recorder redacts
    source,      \* history: the file a read took its output from
    before,      \* history: the files when the tool resolved its path
    moved,       \* history: the resolutions since which a link has moved
    touched,     \* history: another process acted since the tool resolved
    calls,       \* history: how many calls there were
    acts         \* history: how many acts of other processes

vars == <<files, leads, pc, call, decided, place, wanted, opened, result,
          registered, source, before, moved, touched, calls, acts>>

disk == <<files, leads>>
outside == <<moved, touched, calls, acts>>

ReadCalls == [tool : {"read_file"}, path : Paths]
WriteCalls == [tool : {"write_file"}, path : Paths, content : Texts]
EditCalls == [tool : {"edit_file"}, path : Paths, old_text : Pieces, new_text : Pieces,
              replace_all : BOOLEAN]
Calls == ReadCalls \cup WriteCalls \cup EditCalls

None == [tool |-> "none"]

\* A result: its status and, of a read, the output.
Output(text, truncated) == [text |-> text, truncated |-> truncated]
Nothing == Output(<<>>, FALSE)
Result(status, output) == [status |-> status, output |-> output]

Init ==
    /\ files = Original
    /\ leads = [path \in Paths |-> path]
    /\ pc = "idle"
    /\ call = None
    /\ decided = Absent
    /\ place = Absent
    /\ wanted = <<>>
    /\ opened = Absent
    /\ result = Result("none", Nothing)
    /\ registered = {}
    /\ source = Absent
    /\ before = Original
    /\ moved = {}
    /\ touched = FALSE
    /\ calls = 0
    /\ acts = 0

-----------------------------------------------------------------------------
(* Texts.                                                                   *)

\* read_text of a file with that text.
ReadText(text) == [i \in 1 .. Len(text) |-> AsRead[text[i]]]

\* truncate_output.
Truncated(text) ==
    IF Len(text) <= MaxOutput THEN Output(text, FALSE)
    ELSE Output(SubSeq(text, 1, Kept), TRUE)

\* original.count(old_text): none, one, several.
Occurrences(text, old) == {i \in 1 .. Len(text) : text[i] = old}
IsOne(indices) == \E i \in indices : indices = {i}

CanReplace(text) ==
    LET indices == Occurrences(text, call.old_text)
    IN  IsOne(indices) \/ (call.replace_all /\ indices # {})

Replaced(text) ==
    [i \in 1 .. Len(text) |-> IF text[i] = call.old_text THEN call.new_text ELSE text[i]]

\* The first n pieces of the text written over what the file holds by then.
Overwritten(text, n) ==
    LET new == SubSeq(wanted, 1, n)
    IN  IF Len(text) <= n THEN new ELSE new \o SubSeq(text, n + 1, Len(text))

-----------------------------------------------------------------------------
(* The policy and the approval.                                             *)

End(status, output) ==
    /\ result' = Result(status, output)
    /\ pc' = "finished"

\* evaluate: a path that leads outside is denied, a read allowed.  The write
\* policy may allow or deny, or ask, which awaits the handler.
Request ==
    /\ pc = "idle"
    /\ calls < MaxCalls
    /\ calls' = calls + 1
    /\ \E c \in Calls :
          /\ call' = c
          /\ decided' = leads[c.path]
          /\ \/ leads[c.path] \in Inside
                /\ pc' = "decided"
                /\ UNCHANGED result
             \/ (leads[c.path] \notin Inside \/ c.tool # "read_file")
                /\ End("denied", Nothing)
    /\ place' = Absent
    /\ source' = Absent
    /\ wanted' = <<>>
    /\ before' = files
    /\ moved' = {}
    /\ touched' = FALSE
    /\ UNCHANGED <<disk, opened, registered, acts>>

\* The handler refuses.
Refuse ==
    /\ pc = "decided"
    /\ call.tool # "read_file"
    /\ End("denied", Nothing)
    /\ UNCHANGED <<disk, call, decided, place, wanted, opened, registered, source,
                   before, outside>>

-----------------------------------------------------------------------------
(* The tool.                                                                *)

\* Mutant: the tool relies on the policy's decision.
ResolveAsDecided ==
    /\ pc = "decided"
    /\ place' = decided
    /\ pc' = IF call.tool = "write_file" THEN "write" ELSE "read"
    /\ wanted' = IF call.tool = "write_file" THEN call.content ELSE wanted
    /\ before' = files
    /\ moved' = moved \ {"tool"}
    /\ touched' = FALSE
    /\ UNCHANGED <<disk, call, decided, opened, result, registered, source, calls, acts>>

\* Mutant: a path that leads outside is not refused.
ResolveUnchecked ==
    /\ pc = "decided"
    /\ place' = leads[call.path]
    /\ pc' = IF call.tool = "write_file" THEN "write" ELSE "read"
    /\ wanted' = IF call.tool = "write_file" THEN call.content ELSE wanted
    /\ before' = files
    /\ moved' = moved \ {"tool"}
    /\ touched' = FALSE
    /\ UNCHANGED <<disk, call, decided, opened, result, registered, source, calls, acts>>

\* resolve_workspace_path once more: a path that leads outside by now is an
\* error.
Resolve ==
    /\ pc = "decided"
    /\ place' = leads[call.path]
    /\ IF leads[call.path] \notin Inside
       THEN End("error", Nothing) /\ UNCHANGED wanted
       ELSE /\ pc' = IF call.tool = "write_file" THEN "write" ELSE "read"
            /\ wanted' = IF call.tool = "write_file" THEN call.content ELSE wanted
            /\ UNCHANGED result
    /\ before' = files
    /\ moved' = moved \ {"tool"}
    /\ touched' = FALSE
    /\ UNCHANGED <<disk, call, decided, opened, registered, source, calls, acts>>

\* The file a path opens now, resolved or not.
Target == leads[place]

ReadFile ==
    /\ pc = "read"
    /\ call.tool = "read_file"
    /\ files[Target] # Absent
    /\ source' = Target
    /\ End("success", Truncated(ReadText(files[Target])))
    /\ UNCHANGED <<disk, call, decided, place, wanted, opened, registered, before,
                   outside>>

\* edit_file reads the file, and refuses what it cannot replace.  What it will
\* write is made from the text as it was read, line endings included.
EditFile ==
    /\ pc = "read"
    /\ call.tool = "edit_file"
    /\ files[Target] # Absent
    /\ source' = Target
    /\ LET original == ReadText(files[Target])
       IN  IF CanReplace(original)
           THEN /\ wanted' = Replaced(original)
                /\ pc' = "write"
                /\ UNCHANGED result
           ELSE End("error", Nothing) /\ UNCHANGED wanted
    /\ UNCHANGED <<disk, call, decided, place, opened, registered, before, outside>>

\* The file is not there, cannot be opened, is a directory, is not UTF-8; its
\* directory cannot be made.  An OSError that is a TimeoutError is reported as one.
OpenFails ==
    /\ pc \in {"read", "write"}
    /\ \E status \in {"error", "timeout"} : End(status, Nothing)
    /\ UNCHANGED <<disk, call, decided, place, wanted, opened, registered, source,
                   before, outside>>

\* Mutant: the file is not emptied.
OpenForUpdate ==
    /\ pc = "write"
    /\ opened' = Target
    /\ files' = [files EXCEPT ![Target] = IF @ = Absent THEN <<>> ELSE @]
    /\ pc' = "writing"
    /\ UNCHANGED <<leads, call, decided, place, wanted, result, registered, source, before,
                   outside>>

\* write_text: open empties the file, or makes it.
Open ==
    /\ pc = "write"
    /\ opened' = Target
    /\ files' = [files EXCEPT ![Target] = <<>>]
    /\ pc' = "writing"
    /\ UNCHANGED <<leads, call, decided, place, wanted, result, registered, source, before,
                   outside>>

\* The first n pieces reach the file, unless it was removed while it was open.
Put(n) ==
    files' = IF opened = Absent THEN files
             ELSE [files EXCEPT ![opened] = Overwritten(@, n)]

WriteText ==
    /\ pc = "writing"
    /\ Put(Len(wanted))
    /\ opened' = Absent
    /\ End("success", Nothing)
    /\ UNCHANGED <<leads, call, decided, place, wanted, registered, source, before, outside>>

\* The disk is full: a part of the text, or nothing, has been written.
WriteFails ==
    /\ pc = "writing"
    /\ \E n \in 0 .. Len(wanted), status \in {"error", "timeout"} :
          Put(n) /\ End(status, Nothing)
    /\ opened' = Absent
    /\ UNCHANGED <<leads, call, decided, place, wanted, registered, source, before, outside>>

-----------------------------------------------------------------------------
(* The runtime.                                                             *)

\* Mutant: sensitive is what the call names, not what it is normalized to.
IsSensitiveByName == call.path \in Sensitive

IsSensitive == decided \in Sensitive

\* The output of a successful read of a sensitive path is registered before
\* tool_finished is recorded.
RecordFinished ==
    /\ pc = "finished"
    /\ registered' = IF /\ call.tool = "read_file"
                        /\ result.status = "success"
                        /\ IsSensitive
                     THEN registered \cup {result.output}
                     ELSE registered
    /\ pc' = "idle"
    /\ UNCHANGED <<disk, call, decided, place, wanted, opened, result, source, before,
                   outside>>

-----------------------------------------------------------------------------
(* Other processes.                                                         *)

\* A file's text is replaced in place, or the file removed.
Rewrite(path, text) ==
    /\ leads[path] = path
    /\ files' = [files EXCEPT ![path] = text]
    /\ opened' = IF text = Absent /\ opened = path THEN Absent ELSE opened
    /\ moved' = moved
    /\ UNCHANGED leads

\* A path is made a link to a file, another one than before, or made a file's
\* again.  What stood at the path is gone; the links that lead through the path
\* (all that led to it, if it was a file's) lead where it leads now.
Relink(path, target) ==
    LET same == {p \in Paths : leads[p] = leads[path]}
    IN  \E along \in SUBSET same :
          /\ path \in along
          /\ IF leads[path] = path THEN along = same ELSE leads[path] \notin along
          /\ target = path \/ (leads[target] = target /\ target \notin along)
          /\ leads[path] # target
          /\ leads' = [p \in Paths |-> IF p \in along THEN target ELSE leads[p]]
          /\ files' = [files EXCEPT ![path] = Absent]
          /\ opened' = IF opened = path THEN Absent ELSE opened
          /\ moved' = {"policy", "tool"}

Act ==
    /\ acts < MaxActs
    /\ \E path \in Paths :
          \/ \E text \in Texts \cup {Absent} : Rewrite(path, text)
          \/ \E target \in Paths : Relink(path, target)
    /\ touched' = TRUE
    /\ acts' = acts + 1
    /\ UNCHANGED <<pc, call, decided, place, wanted, result, registered, source, before,
                   calls>>

Tool == Resolve \/ ReadFile \/ EditFile \/ OpenFails \/ Open \/ WriteText \/ WriteFails

Next == Request \/ Refuse \/ Tool \/ RecordFinished \/ Act

Spec == Init /\ [][Next]_vars

-----------------------------------------------------------------------------
Outputs == [text : Seq(Pieces), truncated : BOOLEAN]

TypeOK ==
    /\ files \in [Paths -> Seq(Pieces) \cup {Absent}]
    /\ leads \in [Paths -> Paths]
    /\ \A path \in Paths :
          /\ leads[leads[path]] = leads[path]
          /\ leads[path] # path => files[path] = Absent
    /\ pc \in {"idle", "decided", "read", "write", "writing", "finished"}
    /\ call \in Calls \cup {None}
    /\ pc # "idle" => call \in Calls
    /\ decided \in Paths \cup {Absent}
    /\ place \in Paths \cup {Absent}
    /\ pc \in {"read", "write", "writing"} => place \in Inside
    /\ wanted \in Seq(Pieces)
    /\ opened \in Paths \cup {Absent}
    /\ opened # Absent => pc = "writing" /\ files[opened] # Absent
    /\ result.status \in {"none", "success", "error", "timeout", "denied"}
    /\ result.output \in Outputs
    /\ registered \subseteq Outputs
    /\ source \in Paths \cup {Absent}
    /\ before \in [Paths -> Seq(Pieces) \cup {Absent}]
    /\ moved \subseteq {"policy", "tool"}
    /\ touched \in BOOLEAN
    /\ calls \in 0 .. MaxCalls
    /\ acts \in 0 .. MaxActs

Unchanged == files = before

\* The file has a text where it was, and every other file is as it was.
Became(text) == files = [before EXCEPT ![place] = text]

ToldOfRead ==
    /\ Unchanged
    /\ result.status = "success" =>
          LET output == result.output
          IN  /\ before[place] # Absent
              /\ Len(output.text) <= MaxOutput
              /\ IF output.truncated THEN MaxOutput < Len(before[place])
                 ELSE output.text = ReadText(before[place])

ToldOfWrite ==
    IF result.status = "success" THEN Became(call.content)
    ELSE Unchanged \/ \E n \in 0 .. Len(call.content) : Became(SubSeq(call.content, 1, n))

\* What the edit was to replace, if it is there as the file is read, and once
\* unless all are.  The pieces it was not to replace are as they were read.
ToldOfEdit ==
    LET old == ReadText(before[place])
        indices == {i \in 1 .. Len(old) : old[i] = call.old_text}
        new == [i \in 1 .. Len(old) |-> IF i \in indices THEN call.new_text ELSE old[i]]
        replaceable == \E i \in indices : call.replace_all \/ indices = {i}
    IN  IF result.status = "success" THEN replaceable /\ Became(new)
        ELSE Unchanged \/ (replaceable /\ \E n \in 0 .. Len(old) : Became(SubSeq(new, 1, n)))

\* The result the model is given tells what became of the files, whenever no
\* other process acted since the tool resolved its path.  A read returns the text
\* with the line endings read_text makes of it.  A success of a write is the whole
\* of what was asked and nothing else.  A success of an edit is what was asked,
\* and besides, every line ending of the file is the one read_text makes of it:
\* the change is not local in a file with other endings, which "a precise local
\* change" does not say, but no other piece of the text and no other file has
\* changed.  A refusal has changed nothing; but a write or an edit that failed may
\* have left any beginning of its text, so that the error does not say whether the
\* old text is still there (write_text is not atomic).
ResultTellsTheFiles ==
    pc = "finished" /\ ~touched =>
        \/ result.status = "denied" /\ Unchanged
        \/ result.status # "denied" /\ place \notin Inside /\ Unchanged
        \/ /\ result.status # "denied" /\ place \in Inside
           /\ \/ call.tool = "read_file" /\ ToldOfRead
              \/ call.tool = "write_file" /\ ToldOfWrite
              \/ call.tool = "edit_file" /\ before[place] # Absent /\ ToldOfEdit
              \/ call.tool = "edit_file" /\ before[place] = Absent /\ Unchanged

\* A tool changes or reads a file outside the workspace only if a link has moved
\* since the tool itself resolved the path: what happens while a call awaits its
\* approval is caught by the second resolution.
ToolsStayInside ==
    [][Tool =>
        /\ \A path \in Paths \ Inside : files'[path] # files[path] => "tool" \in moved
        /\ source' # source => source' \in Inside \/ "tool" \in moved]_vars

\* Once a read is recorded, what it returned of a sensitive file is registered,
\* by whichever path it was named, unless a link has moved since the policy
\* normalized that path: the tool reads what the path leads to by then, and the
\* runtime registers by what it led to before.
SensitiveOutputIsRegistered ==
    /\ pc = "idle"
    /\ call.tool = "read_file"
    /\ result.status = "success"
    /\ source \in Sensitive
    /\ "policy" \notin moved
    => result.output \in registered
=============================================================================
