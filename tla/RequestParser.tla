--------------------------- MODULE RequestParser ---------------------------
(***************************************************************************)
(* request_parser (request_parser.h, request_parser.cc): the state machine *)
(* that reads an HTTP request one byte at a time, into a request_builder,  *)
(* for all the requests of one keep-alive connection.                      *)
(***************************************************************************)
EXTENDS HttpSyntax

State == {"method_start", "method", "uri", "http_version_h", "http_version_t_1",
          "http_version_t_2", "http_version_p", "http_version_slash",
          "http_version_major_start", "http_version_major",
          "http_version_minor_start", "http_version_minor", "expecting_newline_1",
          "header_line_start", "header_lws", "header_name",
          "space_before_header_value", "header_value", "expecting_newline_2",
          "expecting_newline_3", "expecting_body"}

VARIABLES
  state_,       \* the state of the parser
  contentsize_, \* bytes of the body still to come
  bodysize,     \* builder: the Content-Length read last (0 before there is one)
  body,         \* builder: the bytes of the body, as their number
  hdr,          \* builder: the name of the last header, "none" before the first
  value,        \* builder: the value of the last header, as stoi and strcasecmp see it
  keep_alive,   \* builder
  result        \* what parse returned

builderVars == <<bodysize, body, hdr, value, keep_alive>>
vars == <<state_, contentsize_, builderVars, result>>

\* Where a byte takes the parser from each state; one that has no row is bad.
Moves ==
  VersionMoves \cup HeaderMoves \cup
  {<<"method_start", Token, "method">>,
   <<"method", {"sp"}, "uri">>,
   <<"method", Token, "method">>,
   <<"uri", {"sp"}, "http_version_h">>,
   <<"uri", Input \ (Ctl \cup {"sp"}), "uri">>,
   <<"http_version_minor", {"cr"}, "expecting_newline_1">>}

\* A line that begins with a blank continues the last header, if there is one.
Folds(c) == state_ = "header_line_start" /\ c \in Blank /\ hdr # "none"

GoesTo(c, next) ==
  \/ \E m \in Moves : m[1] = state_ /\ c \in m[2] /\ m[3] = next
  \/ Folds(c) /\ next = "header_lws"

-----------------------------------------------------------------------------
FreshBuilder ==
  bodysize' = 0 /\ body' = 0 /\ hdr' = "none" /\ value' = NoValue /\ keep_alive' = FALSE

Init ==
  /\ state_ = "method_start" /\ contentsize_ = 0
  /\ bodysize = 0 /\ body = 0 /\ hdr = "none" /\ value = NoValue /\ keep_alive = FALSE
  /\ result = "indeterminate"

\* The input goes on until parse has decided.
Reading == result = "indeterminate"

\* parse: a good request is good only at the end of the read.
Decide(r, last) == result' = IF r = "good" /\ ~last THEN "bad" ELSE r

\* The bytes that change nothing but the state.
Advance(c) ==
  /\ Reading /\ state_ # "header_value"
  /\ \E next \in State \ {"header_name", "header_value"} :
       GoesTo(c, next) /\ state_' = next
  /\ UNCHANGED <<contentsize_, builderVars, result>>

HeaderName(c) == IF c \in {"Content-Length", "Connection"} THEN c ELSE "other"

\* header_line_start: a new header, with the first characters of its name.
StartHeader(c) ==
  /\ Reading /\ state_ = "header_line_start" /\ GoesTo(c, "header_name")
  /\ state_' = "header_name"
  /\ hdr' = HeaderName(c) /\ value' = NoValue
  /\ UNCHANGED <<contentsize_, bodysize, body, keep_alive, result>>

\* header_name: one more character makes it another name.
NameChar(c) ==
  /\ Reading /\ state_ = "header_name" /\ GoesTo(c, "header_name")
  /\ hdr' = "other"
  /\ UNCHANGED <<state_, contentsize_, bodysize, body, value, keep_alive, result>>

\* space_before_header_value: the value that follows is still empty.
StartValue(c) ==
  /\ Reading /\ state_ = "space_before_header_value" /\ GoesTo(c, "header_value")
  /\ state_' = "header_value"
  /\ UNCHANGED <<contentsize_, builderVars, result>>

\* header_value, and header_lws at the end of the blanks.
ValueChar(c) ==
  /\ Reading /\ state_ \in {"header_value", "header_lws"} /\ GoesTo(c, "header_value")
  /\ state_' = "header_value"
  /\ value' = Push(value, c)
  /\ UNCHANGED <<contentsize_, bodysize, body, hdr, keep_alive, result>>

\* header_value at the end of the line: Content-Length is stored before
\* reserve, which throws for a negative size and may run out of memory.
EndValue ==
  /\ Reading /\ state_ = "header_value"
  /\ \/ /\ hdr = "Content-Length" /\ StoiThrows(value)
        /\ result' = "bad"
        /\ UNCHANGED <<state_, contentsize_, bodysize, keep_alive>>
     \/ /\ hdr = "Content-Length" /\ ~StoiThrows(value) /\ Stoi(value) # 0
        /\ bodysize' = Stoi(value) /\ contentsize_' = Stoi(value)
        /\ result' = "bad"
        /\ UNCHANGED <<state_, keep_alive>>
     \/ /\ hdr = "Content-Length" /\ ~StoiThrows(value) /\ Stoi(value) >= 0
        /\ bodysize' = Stoi(value) /\ contentsize_' = Stoi(value)
        /\ state_' = "expecting_newline_2"
        /\ UNCHANGED <<keep_alive, result>>
     \/ /\ hdr # "Content-Length"
        /\ keep_alive' = (keep_alive \/ (hdr = "Connection" /\ value.text = "Keep-Alive"))
        /\ state_' = "expecting_newline_2"
        /\ UNCHANGED <<contentsize_, bodysize, result>>
  /\ UNCHANGED <<body, hdr, value>>

\* expecting_newline_3: the byte is looked at only when there is no body.
EndHead(c, last) ==
  /\ Reading /\ state_ = "expecting_newline_3" /\ c \in Byte
  /\ \/ /\ contentsize_ = 0
        /\ Decide(IF c = "lf" THEN "good" ELSE "bad", last)
        /\ UNCHANGED state_
     \/ /\ contentsize_ # 0
        /\ state_' = "expecting_body"
        /\ UNCHANGED result
  /\ UNCHANGED <<contentsize_, builderVars>>

\* Mutant: the body is complete by its own size, and contentsize_ is left.
BodyByteBySize(c, last) ==
  /\ Reading /\ state_ = "expecting_body" /\ c \in Byte
  /\ body' = body + 1
  /\ Decide(IF body' = bodysize THEN "good" ELSE "indeterminate", last)
  /\ UNCHANGED <<state_, contentsize_, bodysize, hdr, value, keep_alive>>

\* Mutant: tested before it is decremented, one byte too late.
BodyByteLate(c, last) ==
  /\ Reading /\ state_ = "expecting_body" /\ c \in Byte
  /\ contentsize_' = IF contentsize_ = 0 THEN 0 ELSE contentsize_ - 1
  /\ body' = body + 1
  /\ Decide(IF contentsize_ = 0 THEN "good" ELSE "indeterminate", last)
  /\ UNCHANGED <<state_, bodysize, hdr, value, keep_alive>>

\* expecting_body.
BodyByte(c, last) ==
  /\ Reading /\ state_ = "expecting_body" /\ c \in Byte
  /\ contentsize_' = contentsize_ - 1
  /\ body' = body + 1
  /\ Decide(IF contentsize_' = 0 THEN "good" ELSE "indeterminate", last)
  /\ UNCHANGED <<state_, bodysize, hdr, value, keep_alive>>

\* Any other byte of the line or the headers.
Reject(c) ==
  /\ Reading /\ state_ \notin {"expecting_newline_3", "expecting_body"}
  /\ ~\E next \in State : GoesTo(c, next)
  /\ result' = "bad"
  /\ UNCHANGED <<state_, contentsize_, builderVars>>

\* session::handle_read after a good keep-alive request: reset() sets state_
\* alone, and the session puts a new builder in place of the old one.
Reset ==
  /\ result = "good" /\ keep_alive
  /\ state_' = "method_start"
  /\ FreshBuilder
  /\ result' = "indeterminate"
  /\ UNCHANGED contentsize_

Next ==
  \/ \E c \in Input :
       \/ Advance(c) \/ StartHeader(c) \/ NameChar(c) \/ StartValue(c) \/ ValueChar(c)
       \/ Reject(c)
       \/ \E last \in BOOLEAN : EndHead(c, last) \/ BodyByte(c, last)
  \/ EndValue
  \/ Reset

Spec == Init /\ [][Next]_vars

-----------------------------------------------------------------------------
(* Properties.                                                             *)

TypeOK ==
  /\ state_ \in State
  /\ contentsize_ \in (-IntMax - 1)..IntMax
  /\ bodysize \in (-IntMax - 1)..IntMax
  /\ body \in 0..IntMax
  /\ hdr \in {"none", "Content-Length", "Connection", "other"}
  /\ value \in Value /\ value.n <= IntMax + 2
  /\ keep_alive \in BOOLEAN
  /\ result \in {"indeterminate", "good", "bad"}

BeforeHeaders ==
  State \ {"header_line_start", "header_lws", "header_name", "space_before_header_value",
           "header_value", "expecting_newline_2", "expecting_newline_3", "expecting_body"}

(* A request starts with no body outstanding, although reset() does not    *)
(* touch contentsize_: whatever the request before it held, a body of it   *)
(* never eats into the bytes of the next one.                              *)
StartsFresh ==
  Reading /\ state_ \in BeforeHeaders => contentsize_ = 0 /\ body = 0

(* A request is good only with exactly the body its last Content-Length    *)
(* announced, through repeated and folded headers.                         *)
BodyComplete == result = "good" => body = bodysize /\ contentsize_ = 0

(* While bytes are awaited, their number is the announced size less what   *)
(* has come, is never negative, and in the body is at least one: a request *)
(* with a body is always completed by the byte it is waiting for.          *)
BodyAccounted ==
  Reading => /\ contentsize_ >= 0
             /\ contentsize_ + body = bodysize
             /\ state_ = "expecting_body" => contentsize_ > 0

\* The inductive invariant behind the three properties above: they need each
\* other, and that only the last state adds to the body.
Inv ==
  /\ TypeOK /\ StartsFresh /\ BodyComplete /\ BodyAccounted
  /\ Reading /\ state_ # "expecting_body" => body = 0
=============================================================================
