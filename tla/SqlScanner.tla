------------------------------ MODULE SqlScanner ------------------------------
(***************************************************************************)
(* SqlLifecycleScanner (mysql/restore.py): it reads a dump byte by byte    *)
(* and finds CREATE DATABASE and DROP DATABASE, which a restore refuses,   *)
(* in what is neither quoted nor a comment.  Beside it the server reads    *)
(* the same bytes by its own rules.                                        *)
(*                                                                         *)
(* A symbol is a byte that means something, or a run of bytes of a word.   *)
(* The input is not a variable: only the three symbols ahead are, and each *)
(* step brings any other, so that inputs of every length are covered.      *)
(* Lines are fed one by one and end with their newline, behind which the   *)
(* scanner never looks.                                                    *)
(***************************************************************************)
EXTENDS Naturals, Sequences

\* "create" stands for DROP as well, "digits" for a version number.
Words == {"create", "database", "digits", "word"}
Marks == {"single", "double", "backtick"}
Symbols == Words \cup Marks \cup
  {"space", "newline", ";", "*", "/", "!", "-", "#", "\\"}
End == "end"

VARIABLES
  ahead,                     \* the next three symbols
  skip,                      \* symbols the scanner has already consumed of them
  finished,
  \* the fields of SqlLifecycleScanner
  state, quote_return_state, escaped, executable_comment, comment_marker_pending,
  token, previous_token, found_database_ddl,
  \* the server
  server,
  heard,                     \* it was given CREATE DATABASE or DROP DATABASE
  strayed                    \* the input had one of the constructs named at Strays

scanner == <<state, quote_return_state, escaped, executable_comment, comment_marker_pending,
             token, previous_token, found_database_ddl>>
vars == <<ahead, skip, finished, scanner, server, heard, strayed>>

byte == ahead[1]
next_byte == ahead[2]

\* Words that touch are one word.
Longer(word, symbol) ==
  IF word = "none" /\ symbol \in {"create", "database"} THEN symbol ELSE "other"

-----------------------------------------------------------------------------
\* The server: MySQL's lexical rules in its default mode.

Blank == {"space", "newline", End}
LexerStart == [mode |-> "text", executable |-> FALSE, escaped |-> FALSE, fresh |-> FALSE,
           apart |-> FALSE, skip |-> 0, token |-> "none", previous |-> "none"]

Reads(mode) == server.skip = 0 /\ server.mode = mode
OpensComment == byte = "/" /\ next_byte = "*"
ClosesComment == byte = "*" /\ next_byte = "/"
OpensLine == byte = "#" \/ (byte = "-" /\ next_byte = "-" /\ ahead[3] \in Blank)
IsVersion == server.fresh /\ server.executable /\ byte = "digits"

\* The word before this symbol is complete; a version number is not a word.
Complete(s) ==
  CASE s.token = "none" -> s
    [] s.token = "version" -> [s EXCEPT !.token = "none", !.apart = TRUE]
    [] OTHER -> [s EXCEPT !.previous = s.token, !.token = "none", !.apart = FALSE]

InText ==
  LET s == [server EXCEPT !.fresh = FALSE] IN
  CASE IsVersion -> [s EXCEPT !.token = "version"]
    [] byte \in Words /\ ~IsVersion -> [s EXCEPT !.token = Longer(@, byte)]
    [] OpensComment /\ ahead[3] = "!" ->
         [Complete(s) EXCEPT !.executable = TRUE, !.fresh = TRUE, !.skip = 2]
    [] OpensComment /\ ahead[3] # "!" ->
         [Complete(s) EXCEPT !.mode = "block", !.fresh = TRUE, !.skip = 1]
    [] ClosesComment /\ s.executable -> [Complete(s) EXCEPT !.executable = FALSE, !.skip = 1]
    [] OpensLine -> [Complete(s) EXCEPT !.mode = "line"]
    [] byte \in Marks -> [Complete(s) EXCEPT !.mode = byte]
    [] byte = ";" -> [Complete(s) EXCEPT !.previous = "none", !.apart = FALSE]
    [] OTHER -> Complete(s)

Lexed ==
  CASE server.skip > 0 -> [server EXCEPT !.skip = @ - 1]
    [] Reads("text") -> InText
    [] Reads("line") -> IF byte = "newline" THEN [server EXCEPT !.mode = "text"] ELSE server
    [] Reads("block") ->
         IF ClosesComment THEN [server EXCEPT !.mode = "text", !.fresh = FALSE, !.skip = 1]
         ELSE [server EXCEPT !.fresh = FALSE]
    [] \E m \in Marks : Reads(m) ->
         IF server.escaped THEN [server EXCEPT !.escaped = FALSE]
         ELSE IF byte = "\\" /\ server.mode # "backtick" THEN [server EXCEPT !.escaped = TRUE]
         ELSE IF byte = server.mode THEN [server EXCEPT !.mode = "text"] ELSE server

\* The word that is complete now is the second one.
Hears == server.previous = "create" /\ server.token = "database" /\ Lexed.token = "none"

\* Where the scanner and the server read differently.
Strays ==
  \* the empty comment /**/
  \/ Reads("block") /\ server.fresh /\ ClosesComment
  \* a backslash in a quoted name
  \/ Reads("backtick") /\ byte = "\\"
  \* a comment inside an executable comment
  \/ Reads("text") /\ server.executable /\ (OpensComment \/ OpensLine)
  \* a version number that touches the next word, or separates the two words
  \/ Reads("text") /\ IsVersion /\ next_byte \in Words
  \/ Hears /\ server.apart
  \* words that touch over the end of an executable comment
  \/ Reads("text") /\ server.executable /\ ClosesComment
       /\ server.token # "none" /\ ahead[3] \in Words

-----------------------------------------------------------------------------
Init ==
  /\ ahead \in {a \in [1 .. 3 -> Symbols \cup {End}] :
                  \A i \in 1 .. 2 : a[i] = End => a[i + 1] = End}
  /\ skip = 0 /\ finished = FALSE
  /\ state = "normal" /\ quote_return_state = "normal" /\ escaped = FALSE
  /\ executable_comment = FALSE /\ comment_marker_pending = FALSE
  /\ token = "none" /\ previous_token = "none" /\ found_database_ddl = FALSE
  /\ server = LexerStart /\ heard = FALSE /\ strayed = FALSE

\* Both read a symbol, and another comes into sight.  Nothing is claimed of what
\* follows a construct of Strays, nor of what follows a refusal.
Advance ==
  /\ byte # End /\ ~strayed /\ ~(heard /\ found_database_ddl)
  /\ \E symbol \in IF ahead[3] = End THEN {End} ELSE Symbols \cup {End} :
       ahead' = <<ahead[2], ahead[3], symbol>>
  /\ server' = Lexed
  /\ heard' = (heard \/ Hears)
  /\ strayed' = (strayed \/ Strays)
  /\ UNCHANGED finished

\* index += count
Consumed(count) == skip = 0 /\ skip' = count - 1 /\ Advance

Skip ==
  /\ skip > 0 /\ skip' = skip - 1
  /\ Advance
  /\ UNCHANGED scanner

\* The word before this symbol is complete, and perhaps the statement.
Flush(statement) ==
  /\ token' = "none"
  /\ previous_token' = IF statement THEN "none"
                       ELSE IF token = "none" THEN previous_token ELSE token
  /\ found_database_ddl' = (found_database_ddl \/ (token = "database" /\ previous_token = "create"))
FlushToken == Flush(FALSE)

\* Faulty variant: a statement's words go on behind its semicolon.
ConsumeAcrossStatements(return) ==
  IF byte \in Words
    THEN /\ token' = Longer(token, byte)
         /\ UNCHANGED <<state, quote_return_state, previous_token, found_database_ddl>>
    ELSE /\ Flush(FALSE)
         /\ state' = IF byte \in Marks THEN byte ELSE state
         /\ quote_return_state' = IF byte \in Marks THEN return ELSE quote_return_state

\* _consume_normal_byte, and what its callers do at a semicolon.
ConsumeNormalByte(return) ==
  IF byte \in Words
    THEN /\ token' = Longer(token, byte)
         /\ UNCHANGED <<state, quote_return_state, previous_token, found_database_ddl>>
    ELSE /\ Flush(byte = ";")
         /\ state' = IF byte \in Marks THEN byte ELSE state
         /\ quote_return_state' = IF byte \in Marks THEN return ELSE quote_return_state

InLineComment ==
  /\ state = "line_comment" /\ Consumed(1)
  /\ state' = IF byte = "newline" THEN "normal" ELSE state
  /\ UNCHANGED <<quote_return_state, escaped, executable_comment, comment_marker_pending,
                 token, previous_token, found_database_ddl>>

\* The symbol after the opening is looked at for the mark of an executable comment,
\* and for nothing else.
InCommentMarker ==
  /\ state = "block_comment" /\ comment_marker_pending /\ Consumed(1)
  /\ comment_marker_pending' = FALSE
  /\ executable_comment' = (byte = "!")
  /\ IF byte = "!" THEN ConsumeNormalByte("block_comment")
     ELSE UNCHANGED <<state, quote_return_state, token, previous_token, found_database_ddl>>
  /\ UNCHANGED escaped

CommentEnds ==
  /\ state = "block_comment" /\ ~comment_marker_pending
  /\ ClosesComment /\ Consumed(2)
  /\ state' = "normal" /\ executable_comment' = FALSE
  /\ UNCHANGED <<quote_return_state, escaped, comment_marker_pending, token, previous_token,
                 found_database_ddl>>

\* Faulty variant: an executable comment is a comment.
InBlockCommentUnread ==
  /\ state = "block_comment" /\ ~comment_marker_pending
  /\ ~ClosesComment /\ Consumed(1)
  /\ UNCHANGED scanner

InBlockComment ==
  /\ state = "block_comment" /\ ~comment_marker_pending
  /\ ~ClosesComment /\ Consumed(1)
  /\ IF executable_comment THEN ConsumeNormalByte("block_comment")
     ELSE UNCHANGED <<state, quote_return_state, token, previous_token, found_database_ddl>>
  /\ UNCHANGED <<escaped, executable_comment, comment_marker_pending>>

InQuotes ==
  /\ state \in Marks
  /\ IF ~escaped /\ state = "backtick" /\ byte = state /\ next_byte = state
       THEN Consumed(2) /\ UNCHANGED <<state, escaped>>
       ELSE /\ Consumed(1)
            /\ escaped' = (~escaped /\ byte = "\\")
            /\ state' = IF ~escaped /\ byte = state THEN quote_return_state ELSE state
  /\ UNCHANGED <<quote_return_state, executable_comment, comment_marker_pending,
                 token, previous_token, found_database_ddl>>

CommentBegins ==
  /\ state = "normal" /\ OpensComment /\ Consumed(2)
  /\ FlushToken
  /\ state' = "block_comment"
  /\ executable_comment' = FALSE /\ comment_marker_pending' = TRUE
  /\ UNCHANGED <<quote_return_state, escaped>>

LineCommentBegins ==
  /\ state = "normal" /\ OpensLine /\ Consumed(IF byte = "#" THEN 1 ELSE 2)
  /\ FlushToken
  /\ state' = "line_comment"
  /\ UNCHANGED <<quote_return_state, escaped, executable_comment, comment_marker_pending>>

InNormalText ==
  /\ state = "normal" /\ ~OpensComment /\ ~OpensLine /\ Consumed(1)
  /\ ConsumeNormalByte("normal")
  /\ UNCHANGED <<escaped, executable_comment, comment_marker_pending>>

\* The end of the dump ends the last word, for the scanner and for the server.
Finish ==
  /\ byte = End /\ ~finished
  /\ finished' = TRUE
  /\ FlushToken
  /\ server' = Complete(server)
  /\ heard' = (heard \/ (server.token = "database" /\ server.previous = "create"))
  /\ strayed' = (strayed \/ (server.token = "database" /\ server.apart))
  /\ UNCHANGED <<ahead, skip, state, quote_return_state, escaped, executable_comment,
                 comment_marker_pending>>

Feed == \/ InLineComment \/ InCommentMarker \/ CommentEnds \/ InBlockComment \/ InQuotes
        \/ CommentBegins \/ LineCommentBegins \/ InNormalText \/ Skip
Next == Feed \/ Finish
Spec == Init /\ [][Next]_vars

-----------------------------------------------------------------------------
\* Properties.

\* No input takes CREATE DATABASE or DROP DATABASE past the scanner, however it is
\* broken up by comments, executable comments, quotes and lines -- except one that
\* has a construct named at Strays: SqlLifecycleScanner.feed.
NoneMissed == finished /\ heard /\ ~strayed => found_database_ddl

\* A dump that has the words only in strings, in quoted names or in comments is
\* not refused, with the same exception.
NoFalseAlarm == finished /\ found_database_ddl /\ ~strayed => heard
===============================================================================
