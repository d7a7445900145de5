---------------------------- MODULE MCWorkspace ----------------------------
(* A file of the workspace that links are made of, a sensitive one, and one *)
(* outside; texts of one and two pieces, the longer too long to be printed. *)
(* A piece is a word or a line ending of one kind or the other.             *)
EXTENDS Workspace

MCAsRead == [piece \in Pieces |-> IF piece = "crlf" THEN "lf" ELSE piece]
MCTexts == {<<"word">>, <<"word", "word">>, <<"crlf", "word">>}
MCOriginal ==
    [path \in Paths |-> IF path = "notes" THEN <<"word">> ELSE <<"crlf", "word">>]
=============================================================================
