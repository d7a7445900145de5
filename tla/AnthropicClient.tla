--------------------------- MODULE AnthropicClient ---------------------------
(***************************************************************************)
(* AnthropicModelClient (models/anthropic.py): how the conversation of a   *)
(* run is put to the Messages API.  The client keeps no state: a request   *)
(* is a translation of the whole conversation, in which the results that   *)
(* follow one another are one user message.                                *)
(*                                                                         *)
(* A message of the API is its role and its content: a text, the tool_use  *)
(* blocks of these ids, or the tool_result blocks for these ids.           *)
(***************************************************************************)
EXTENDS AgentRuntime, SequencesExt

Param(role, kind, ids) == [role |-> role, kind |-> kind, ids |-> ids]

\* Mutant: every result is a user message of its own.
ConvertedOneByOne(converted, message) ==
    IF message.role = "user" THEN Append(converted, Param("user", "text", <<>>))
    ELSE IF message.role = "assistant"
    THEN Append(converted, Param("assistant", "blocks", message.calls))
    ELSE Append(converted, Param("user", "tool_result", message.calls))

\* The messages converted so far and one more.  (The text block of an assistant
\* message is left out, as no two ways of conversion differ in it.)
Converted(converted, message) ==
    LET n == Len(converted)
    IN  IF message.role = "user" THEN Append(converted, Param("user", "text", <<>>))
        ELSE IF message.role = "assistant"
        THEN Append(converted, Param("assistant", "blocks", message.calls))
        ELSE IF n > 0 /\ converted[n].kind = "tool_result"
        THEN [converted EXCEPT ![n].ids = @ \o message.calls]
        ELSE Append(converted, Param("user", "tool_result", message.calls))

\* _to_anthropic_messages.
ToAnthropicMessages(conversation) == FoldLeft(Converted, <<>>, conversation)

\* What the API asks of the messages of a request.
Accepted(sent) ==
    /\ sent # <<>> /\ sent[1].role = "user"
    /\ sent[Len(sent)].role = "user"
    /\ \A i \in 2 .. Len(sent) :
          /\ sent[i].role # sent[i - 1].role
          /\ sent[i].kind = "tool_result" =>
                sent[i - 1].kind = "blocks" /\ sent[i].ids = sent[i - 1].ids
          /\ sent[i - 1].kind = "blocks" /\ sent[i - 1].ids # <<>> =>
                sent[i].kind = "tool_result"
          /\ sent[i].ids # <<>>

\* Every request the runtime makes is one the Messages API takes: user and
\* assistant alternate, the calls of each assistant message are answered in
\* order by the user message after it, and no content is empty, whichever calls
\* were denied or failed, and in the finalization turn.
RequestIsAccepted == pc = "model" => Accepted(ToAnthropicMessages(messages))
=============================================================================
