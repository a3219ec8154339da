--------------------------- MODULE ResponseParser ---------------------------
(***************************************************************************)
(* response_parser (response_parser.h, response_parser.cc): the parser of  *)
(* the proxy handler, which reads one response of another server, byte by  *)
(* byte, into a new response_builder.  A body is as long as Content-Length *)
(* says, or comes in chunks; of its bytes the model keeps whether there    *)
(* are any and how many are due.  A status code is one symbol.             *)
(***************************************************************************)
EXTENDS HttpSyntax

\* A code that is relayed, one that is followed, one that to_buffer does not know.
Code == {"200", "302", "503"}
Symbol == Input \cup Code

\* is_hex, and the digits' values; "a" stands for the letters.
Hex == Digit \cup {"a"}
HexValue == [h \in Hex |-> IF h = "a" THEN 10 ELSE DigitValue[h]]

Int_ == (-IntMax - 1)..IntMax   \* what an int can hold

State == {"http_version_h", "http_version_t_1", "http_version_t_2", "http_version_p",
          "http_version_slash", "http_version_major_start", "http_version_major",
          "http_version_minor_start", "http_version_minor", "status_code_1",
          "space_before_reason_phrase", "reason_phrase", "expecting_newline_1",
          "header_line_start", "header_lws", "header_name",
          "space_before_header_value", "header_value", "expecting_newline_2",
          "expecting_newline_3", "expecting_body", "chunk_size_start", "chunk_size",
          "expecting_newline_4", "expecting_chunk", "expecting_newline_5"}

VARIABLES
  state_,
  code,          \* builder: the status code, "none" before it was read
  hdr,           \* builder: the name of the last header, "none" before the first
  value,         \* builder: the value of the last header
  contentsize,   \* builder: bytes of the body still to come
  chunked,       \* builder
  chunksizehex,  \* builder: the digits of a chunk size, as their number
  chunksize,     \* builder: bytes of the chunk still to come
  body,          \* builder: does it hold any byte?
  trailing,      \* the read that completed the response holds more bytes
  result,        \* what parse returned
  sized,         \* ghost: the response has a Content-Length
  due            \* ghost: bytes of the body announced and not read (below zero: too many)

headVars == <<code, hdr, value, chunked, sized>>
bodyVars == <<contentsize, chunksizehex, chunksize, body, due>>
parserVars == <<state_, headVars, bodyVars, trailing, result>>

\* Where a byte takes the parser from each state; one that has no row is bad,
\* except in the states of the body.
Moves ==
  VersionMoves \cup HeaderMoves \cup
  {<<"http_version_minor", {"sp"}, "status_code_1">>,
   <<"status_code_1", Code, "space_before_reason_phrase">>,
   <<"space_before_reason_phrase", {"sp"}, "reason_phrase">>,
   <<"reason_phrase", {"cr"}, "expecting_newline_1">>,
   <<"reason_phrase", Token \cup {"sp"}, "reason_phrase">>,
   <<"expecting_newline_4", {"lf"}, "expecting_chunk">>,
   <<"expecting_newline_5", {"lf"}, "chunk_size_start">>}

Folds(c) == state_ = "header_line_start" /\ c \in Blank /\ hdr # "none"

\* The states that c leads to: one, or none.
Targets(c) ==
  {m[3] : m \in {x \in Moves : x[1] = state_ /\ c \in x[2]}}
    \cup {next \in {"header_lws"} : Folds(c)}
GoesTo(c, next) == next \in Targets(c)

-----------------------------------------------------------------------------
\* A new parser and a new builder.  Nothing initialises the ints of the builder;
\* only contentsize is ever read before it is written: see EndHead.
FreshParser ==
  /\ state_' = "http_version_h" /\ code' = "none" /\ hdr' = "none" /\ value' = NoValue
  /\ contentsize' = 0 /\ chunked' = FALSE /\ chunksizehex' = 0 /\ chunksize' = 0
  /\ body' = FALSE /\ trailing' = FALSE /\ result' = "indeterminate"
  /\ sized' = FALSE /\ due' = 0

Reading == result = "indeterminate"

\* parse returns at a bad byte, at the end of the last chunk, and with what
\* the last byte of the read gave: a complete response that more bytes of the
\* same read follow is not reported.
Decide(r, last) ==
  /\ result' = IF r = "good" /\ ~last /\ ~(chunked /\ chunksize' = 0) THEN "indeterminate" ELSE r
  /\ trailing' = (r = "good" /\ result' # "good")

\* The bytes that change nothing but the state.
Advance(c) ==
  /\ Reading /\ state_ \notin {"header_value", "status_code_1"}
  /\ state_' \in Targets(c) \ {"header_name", "header_value"}
  /\ UNCHANGED <<headVars, bodyVars, trailing, result>>

\* status_code_1 to status_code_3: three digits.
StatusCode(c) ==
  /\ Reading /\ state_ = "status_code_1" /\ GoesTo(c, "space_before_reason_phrase")
  /\ state_' = "space_before_reason_phrase"
  /\ code' = c
  /\ UNCHANGED <<hdr, value, chunked, sized, bodyVars, trailing, result>>

HeaderName(c) == IF c \in {"Content-Length", "Transfer-Encoding"} THEN c ELSE "other"

\* header_line_start: a new header, with the first characters of its name.
StartHeader(c) ==
  /\ Reading /\ state_ = "header_line_start" /\ GoesTo(c, "header_name")
  /\ state_' = "header_name"
  /\ hdr' = HeaderName(c) /\ value' = NoValue
  /\ UNCHANGED <<code, chunked, sized, bodyVars, trailing, result>>

\* header_name: one more character makes it another name.
NameChar(c) ==
  /\ Reading /\ state_ = "header_name" /\ GoesTo(c, "header_name")
  /\ hdr' = "other"
  /\ UNCHANGED <<state_, code, value, chunked, sized, bodyVars, trailing, result>>

\* space_before_header_value: the value that follows is still empty.
StartValue(c) ==
  /\ Reading /\ state_ = "space_before_header_value" /\ GoesTo(c, "header_value")
  /\ state_' = "header_value"
  /\ UNCHANGED <<headVars, bodyVars, trailing, result>>

\* Of a value the model keeps what EndValue looks at.
Kept(v) ==
  CASE hdr = "Content-Length"    -> [v EXCEPT !.text = ""]
    [] hdr = "Transfer-Encoding" -> [NoValue EXCEPT !.text = v.text]
    [] OTHER                     -> NoValue

\* header_value, and header_lws at the end of the blanks.
ValueChar(c) ==
  /\ Reading /\ state_ \in {"header_value", "header_lws"} /\ GoesTo(c, "header_value")
  /\ state_' = "header_value"
  /\ value' = Kept(Push(value, c))
  /\ UNCHANGED <<code, hdr, chunked, sized, bodyVars, trailing, result>>

SetLength(n) == contentsize' = n /\ due' = n /\ sized' = TRUE

\* header_value at the end of the line: contentsize is stored before reserve,
\* which throws for a negative size and may run out of memory.
EndValue ==
  /\ Reading /\ state_ = "header_value"
  /\ \/ /\ hdr = "Content-Length" /\ StoiThrows(value)
        /\ result' = "bad"
        /\ UNCHANGED <<state_, contentsize, due, sized, chunked>>
     \/ /\ hdr = "Content-Length" /\ ~StoiThrows(value) /\ Stoi(value) # 0
        /\ SetLength(Stoi(value))
        /\ result' = "bad"
        /\ UNCHANGED <<state_, chunked>>
     \/ /\ hdr = "Content-Length" /\ ~StoiThrows(value) /\ Stoi(value) >= 0
        /\ SetLength(Stoi(value))
        /\ state_' = "expecting_newline_2"
        /\ UNCHANGED <<chunked, result>>
     \/ /\ hdr # "Content-Length"
        /\ chunked' = (chunked \/ (hdr = "Transfer-Encoding" /\ value.text = "chunked"))
        /\ state_' = "expecting_newline_2"
        /\ UNCHANGED <<contentsize, due, sized, result>>
  /\ UNCHANGED <<code, hdr, value, chunksizehex, chunksize, body, trailing>>

\* expecting_newline_3: what is in contentsize decides, and that may be any int
\* if no header has set it.  After a complete response the parser stays here.
\* No header can grow any more: the model forgets the last one.
EndHead(c, last) ==
  /\ Reading /\ state_ = "expecting_newline_3" /\ c \in Byte
  /\ \/ c # "lf" /\ Decide("bad", last) /\ UNCHANGED <<state_, contentsize, due>>
     \/ c = "lf" /\ chunked /\ state_' = "chunk_size_start" /\ due' = 0
          /\ UNCHANGED <<contentsize, trailing, result>>
     \/ /\ c = "lf" /\ ~chunked
        /\ contentsize' \in IF sized \/ trailing THEN {contentsize} ELSE Int_
        /\ \/ contentsize' = 0 /\ Decide("good", last) /\ UNCHANGED state_
           \/ contentsize' # 0 /\ state_' = "expecting_body" /\ UNCHANGED <<trailing, result>>
        /\ UNCHANGED due
  /\ hdr' = "none" /\ value' = NoValue
  /\ UNCHANGED <<code, chunked, sized, chunksizehex, chunksize, body>>

\* Mutant: a body is complete one byte early as well.
BodyByteEarly(c, last) ==
  /\ Reading /\ state_ = "expecting_body" /\ c \in Byte /\ contentsize > -IntMax - 1
  /\ contentsize' = contentsize - 1 /\ body' = TRUE /\ due' = due - 1
  /\ Decide(IF contentsize' \in {0, 1} THEN "good" ELSE "indeterminate", last)
  /\ UNCHANGED <<state_, headVars, chunksizehex, chunksize>>

\* expecting_body: a byte past the end goes on counting down.  Bound: the
\* server stops before the counter passes the smallest int.
BodyByte(c, last) ==
  /\ Reading /\ state_ = "expecting_body" /\ c \in Byte /\ contentsize > -IntMax - 1
  /\ contentsize' = contentsize - 1 /\ body' = TRUE /\ due' = due - 1
  /\ Decide(IF contentsize' = 0 THEN "good" ELSE "indeterminate", last)
  /\ UNCHANGED <<state_, headVars, chunksizehex, chunksize>>

\* chunk_size_start and chunk_size: one more digit.  A number that no int
\* holds stays there.
ChunkSizeDigit(c) ==
  /\ Reading /\ state_ \in {"chunk_size_start", "chunk_size"} /\ c \in Hex
  /\ state_' = "chunk_size"
  /\ LET n == HexValue[c] + IF state_ = "chunk_size" THEN 16 * chunksizehex ELSE 0
     IN chunksizehex' = IF n > IntMax THEN IntMax + 1 ELSE n
  /\ UNCHANGED <<headVars, contentsize, chunksize, body, due, trailing, result>>

\* chunk_size at the end of the line.  The last chunk ends the response: the
\* line feed, trailers and the empty line that follow are never read.
EndChunkSize ==
  /\ Reading /\ state_ = "chunk_size"
  /\ state_' = "expecting_newline_4"
  /\ \/ chunksizehex > IntMax /\ result' = "bad" /\ UNCHANGED <<chunksize, due, trailing>>
     \/ /\ chunksizehex <= IntMax
        /\ chunksize' = chunksizehex /\ due' = due + chunksizehex
        /\ Decide(IF chunksizehex = 0 THEN "good" ELSE "indeterminate", FALSE)
  /\ UNCHANGED <<headVars, contentsize, chunksizehex, body>>

\* Mutant: a carriage return ends the chunk wherever it comes.
ChunkByteAnyReturn(c) ==
  /\ Reading /\ state_ = "expecting_chunk" /\ c \in Byte /\ chunksize > -IntMax - 1
  /\ chunksize' = chunksize - 1
  /\ \/ /\ c = "cr"
        /\ state_' = "expecting_newline_5" /\ UNCHANGED <<body, due>>
     \/ /\ c # "cr"
        /\ body' = TRUE /\ due' = due - 1 /\ UNCHANGED state_
  /\ UNCHANGED <<headVars, contentsize, chunksizehex, trailing, result>>

\* expecting_chunk: a carriage return ends the chunk right after its last
\* byte; if it is missing, everything that follows is taken for the body.
\* Bound: as in BodyByte.
ChunkByte(c) ==
  /\ Reading /\ state_ = "expecting_chunk" /\ c \in Byte /\ chunksize > -IntMax - 1
  /\ chunksize' = chunksize - 1
  /\ \/ /\ c = "cr" /\ chunksize' = -1
        /\ state_' = "expecting_newline_5" /\ UNCHANGED <<body, due>>
     \/ /\ c # "cr" \/ chunksize' # -1
        /\ body' = TRUE /\ due' = due - 1 /\ UNCHANGED state_
  /\ UNCHANGED <<headVars, contentsize, chunksizehex, trailing, result>>

\* Any other byte, in the states that do not take them all.
Reject(c) ==
  /\ Reading /\ state_ \notin {"expecting_newline_3", "expecting_body", "expecting_chunk"}
  /\ Targets(c) = {}
  /\ state_ \in {"chunk_size_start", "chunk_size"} => c \notin Hex
  /\ state_ = "chunk_size" => c # "cr"
  /\ result' = "bad"
  /\ UNCHANGED <<state_, headVars, bodyVars, trailing>>

\* consume, inside of parse; last tells whether the read ends with the byte.
Consume(c, last) ==
  \/ Advance(c) \/ StatusCode(c) \/ StartHeader(c) \/ NameChar(c) \/ StartValue(c)
  \/ ValueChar(c) \/ (c = "cr" /\ EndValue)
  \/ EndHead(c, last) \/ BodyByte(c, last)
  \/ ChunkSizeDigit(c) \/ (c = "cr" /\ EndChunkSize) \/ ChunkByte(c)
  \/ Reject(c)

-----------------------------------------------------------------------------
(* Properties.                                                             *)

\* Types of the parser and its builder.
ParserTypeOK ==
  /\ state_ \in State
  /\ code \in Code \cup {"none"}
  /\ hdr \in {"none", "Content-Length", "Transfer-Encoding", "other"}
  /\ value \in Value /\ value.n <= IntMax + 2
  /\ contentsize \in Int_ /\ chunksize \in Int_
  /\ chunksizehex \in 0..(IntMax + 1)
  /\ due \in Int
  /\ chunked \in BOOLEAN /\ body \in BOOLEAN /\ trailing \in BOOLEAN /\ sized \in BOOLEAN
  /\ result \in {"indeterminate", "good", "bad"}

(* A good response that announced the length of its body, by a header or   *)
(* by its chunks, has all of the body and no byte more, however often the  *)
(* header comes, whatever contentsize held, and however reads split it.    *)
BodyIsWhole == result = "good" /\ (sized \/ chunked) => due = 0

(* The parser never waits for more of a response that is complete: in a    *)
(* body of announced length, bytes are due, or were sent that are too      *)
(* many; between chunks none is due; in a chunk, as many as chunksize says.*)
WaitsForWhatIsDue ==
  Reading =>
    /\ state_ = "expecting_body" /\ sized => due = contentsize /\ (due = 0 => trailing)
    /\ state_ \in {"chunk_size_start", "chunk_size", "expecting_newline_5"} => due = 0
    /\ state_ \in {"expecting_newline_4", "expecting_chunk"} => due = chunksize
=============================================================================
