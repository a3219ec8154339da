---------------------------- MODULE ProxyProofs ----------------------------
(***************************************************************************)
(* Proofs about ResponseParser and Proxy, for every IntMax, any hosts and  *)
(* ports, any number of redirects and responses of any length.             *)
(***************************************************************************)
EXTENDS Proxy, TLAPS

\* The states of the body, and those before it.
ChunkState == {"chunk_size_start", "chunk_size", "expecting_newline_4",
               "expecting_chunk", "expecting_newline_5"}
HeadState == State \ ({"expecting_body"} \cup ChunkState)

\* As long as the headers are read, an announced length is all still due.
HeadAccounted == Reading /\ state_ \in HeadState /\ sized => due = contentsize

\* What comes in chunks is never read as a body of announced length.
BodyIsPlain == state_ = "expecting_body" => ~chunked

\* The inductive invariant of the parser.
ParserInv ==
  ParserTypeOK /\ BodyIsWhole /\ WaitsForWhatIsDue /\ HeadAccounted /\ BodyIsPlain

-----------------------------------------------------------------------------
\* Pushing a character keeps a value a value, and its number within the cap.
LEMMA PushType ==
  ASSUME NEW v \in Value, v.n <= IntMax + 2, NEW c \in Input
  PROVE  Push(v, c) \in Value /\ Push(v, c).n <= IntMax + 2
<1>1. IntMax \in Nat
  BY ParserAssumption
<1>2. \A d \in Digit : DigitValue[d] \in Nat
  BY DEF Digit, DigitValue
<1>3. \A n \in Nat : Cap(n) \in Nat /\ Cap(n) <= IntMax + 2
  BY <1>1 DEF Cap
<1> DEFINE text == IF v.text = "" /\ c \in Keyword THEN c ELSE "other"
<1>4. text \in {"", "other"} \cup Keyword
  OBVIOUS
<1>5. CASE v.open /\ c \in Digit
  <2>0. v.n \in Nat /\ DigitValue[c] \in Nat
    BY <1>2, <1>5 DEF Value
  <2>1. 10 * v.n + DigitValue[c] \in Nat
    BY <2>0
  <2>2. Push(v, c) = [v EXCEPT !.digits = TRUE, !.n = Cap(10 * v.n + DigitValue[c]), !.text = text]
    BY <1>5 DEF Push
  <2> HIDE DEF text
  <2> QED
    BY <1>3, <1>4, <2>1, <2>2 DEF Value
<1>6. CASE ~(v.open /\ c \in Digit)
  <2>1. \/ c \in {"+", "-"} /\ Push(v, c) = [v EXCEPT !.sign = c, !.text = text]
        \/ Push(v, c) = [v EXCEPT !.text = text]
        \/ Push(v, c) = [v EXCEPT !.open = FALSE, !.text = text]
    BY <1>6 DEF Push
  <2> HIDE DEF text
  <2> QED
    BY <1>4, <2>1 DEF Value
<1> QED
  BY <1>5, <1>6

\* The empty value is a value.
LEMMA NoValueType == NoValue \in Value /\ NoValue.n <= IntMax + 2
BY ParserAssumption DEF NoValue, Value

\* How the table moves between the states of the body: a line feed takes the
\* parser from the size of a chunk to the chunk, and from its end to the size
\* of the next.  No move leads into a plain body or out of a body's bytes.
LEMMA MovesOfBody ==
  \A m \in Moves :
    /\ m[3] \in State \ {"expecting_body", "chunk_size", "expecting_newline_4", "expecting_newline_5"}
    /\ m[3] = "chunk_size_start" => m[1] = "expecting_newline_5"
    /\ m[3] = "expecting_chunk" => m[1] = "expecting_newline_4"
    /\ m[3] \in HeadState => m[1] \in HeadState
BY DEF Moves, VersionMoves, HeaderMoves, State, HeadState, ChunkState

\* The same of every step that is not bad.
LEMMA GoesToOfBody ==
  ASSUME NEW c, NEW next, GoesTo(c, next)
  PROVE  /\ next \in State \ {"expecting_body", "chunk_size", "expecting_newline_4", "expecting_newline_5"}
         /\ next = "chunk_size_start" => state_ = "expecting_newline_5"
         /\ next = "expecting_chunk" => state_ = "expecting_newline_4"
         /\ next \in HeadState => state_ \in HeadState
<1>1. CASE Folds(c) /\ next = "header_lws"
  BY <1>1 DEF Folds, State, HeadState, ChunkState
<1>2. CASE \E m \in Moves : m[1] = state_ /\ m[3] = next
  BY <1>2, MovesOfBody
<1> QED
  BY <1>1, <1>2 DEF GoesTo, Targets

\* What stoi returns fits an int.
LEMMA StoiFits ==
  ASSUME NEW v \in Value, ~StoiThrows(v)
  PROVE  Stoi(v) \in Int_
<1>1. IntMax \in Nat /\ v.n \in Nat
  BY ParserAssumption DEF Value
<1> QED
  BY <1>1 DEF StoiThrows, Stoi, Int_

\* What the model keeps of a value is a value.
LEMMA KeptType ==
  ASSUME NEW v \in Value, v.n <= IntMax + 2
  PROVE  Kept(v) \in Value /\ Kept(v).n <= IntMax + 2
BY NoValueType DEF Kept, Value, NoValue

\* A new parser satisfies the invariant.
LEMMA FreshParserInv ==
  ASSUME FreshParser
  PROVE  ParserInv'
<1>1. IntMax \in Nat
  BY ParserAssumption
<1>2. 0 \in Int_ /\ 0 \in 0..(IntMax + 1)
  BY <1>1 DEF Int_
<1>3. ParserTypeOK'
  <2>1. state_' \in State
    BY DEF FreshParser, State
  <2>2. value' \in Value /\ value'.n <= IntMax + 2
    BY NoValueType DEF FreshParser
  <2>3. /\ chunked' \in BOOLEAN /\ body' \in BOOLEAN /\ trailing' \in BOOLEAN
        /\ sized' \in BOOLEAN
    BY DEF FreshParser
  <2>4. contentsize' = 0 /\ chunksizehex' = 0 /\ chunksize' = 0 /\ due' = 0
    BY DEF FreshParser
  <2>5. /\ code' = "none" /\ hdr' = "none" /\ result' = "indeterminate"
    BY DEF FreshParser
  <2> QED
    BY <1>2, <2>1, <2>2, <2>3, <2>4, <2>5 DEF ParserTypeOK
<1> QED
  BY <1>3 DEF FreshParser, ParserInv, BodyIsWhole, WaitsForWhatIsDue, HeadAccounted, BodyIsPlain

\* The bytes that touch neither the lengths nor what is due.
LEMMA HeadInv ==
  ASSUME ParserInv, NEW c \in Symbol,
         \/ Advance(c) \/ StatusCode(c) \/ StartHeader(c) \/ NameChar(c) \/ StartValue(c)
         \/ ValueChar(c) \/ Reject(c)
  PROVE  ParserInv'
<1> USE DEF ParserInv, BodyIsWhole, WaitsForWhatIsDue, HeadAccounted, BodyIsPlain, Reading
<1>1. CASE Advance(c)
  <2>1. PICK next : GoesTo(c, next) /\ state_' = next
    BY <1>1 DEF Advance, GoesTo
  <2>2. ParserTypeOK'
    BY <1>1, <2>1, GoesToOfBody DEF Advance, headVars, bodyVars, ParserTypeOK
  <2> QED
    BY <1>1, <2>1, <2>2, GoesToOfBody DEF Advance, headVars, bodyVars
<1>2. CASE StatusCode(c)
  <2>1. c \in Code
    BY <1>2 DEF StatusCode, GoesTo, Targets, Folds, Moves, VersionMoves, HeaderMoves
  <2> QED
    BY <1>2, <2>1 DEF StatusCode, bodyVars, ParserTypeOK, State, HeadState, ChunkState
<1>3. CASE StartHeader(c)
  <2>1. HeaderName(c) \in {"Content-Length", "Transfer-Encoding", "other"}
    BY DEF HeaderName
  <2> QED
    BY <1>3, <2>1, NoValueType DEF StartHeader, bodyVars, ParserTypeOK, State, HeadState, ChunkState
<1>4. CASE NameChar(c)
  BY <1>4 DEF NameChar, bodyVars, ParserTypeOK
<1>5. CASE StartValue(c)
  BY <1>5 DEF StartValue, headVars, bodyVars, ParserTypeOK, State, HeadState, ChunkState
<1>6. CASE ValueChar(c)
  <2>1. c \in Input
    BY <1>6 DEF ValueChar, GoesTo, Targets, Folds, Moves, VersionMoves, HeaderMoves, Symbol, Input
  <2>2. value' \in Value /\ value'.n <= IntMax + 2
    BY <1>6, <2>1, PushType, KeptType DEF ValueChar, ParserTypeOK
  <2> QED
    BY <1>6, <2>2 DEF ValueChar, bodyVars, ParserTypeOK, State, HeadState, ChunkState
<1>7. CASE Reject(c)
  BY <1>7 DEF Reject, headVars, bodyVars, ParserTypeOK
<1> QED
  BY <1>1, <1>2, <1>3, <1>4, <1>5, <1>6, <1>7

\* The end of a header, where Content-Length is stored and becomes due.
LEMMA EndValueInv ==
  ASSUME ParserInv, EndValue
  PROVE  ParserInv'
<1> USE DEF ParserInv, BodyIsWhole, WaitsForWhatIsDue, HeadAccounted, BodyIsPlain, Reading
<1>1. ~StoiThrows(value) => Stoi(value) \in Int_
  BY StoiFits DEF ParserTypeOK
<1>2. Int_ \subseteq Int
  BY ParserAssumption DEF Int_
<1>3. ParserTypeOK'
  BY <1>1, <1>2 DEF EndValue, SetLength, ParserTypeOK, State
<1>4. result' # "good" /\ state_ = "header_value" /\ state_' \in {"header_value", "expecting_newline_2"}
  BY DEF EndValue, SetLength
<1>5. sized' /\ result' = "indeterminate" => due' = contentsize'
  BY <1>4 DEF EndValue, SetLength, State, HeadState, ChunkState
<1> QED
  BY <1>3, <1>4, <1>5

\* The line feed after the headers, and the bytes of a plain body.
LEMMA BodyInv ==
  ASSUME ParserInv, NEW c, NEW last \in BOOLEAN, EndHead(c, last) \/ BodyByte(c, last)
  PROVE  ParserInv'
<1> USE DEF ParserInv, BodyIsWhole, WaitsForWhatIsDue, HeadAccounted, BodyIsPlain, Reading
<1>1. IntMax \in Nat /\ Int_ \subseteq Int
  BY ParserAssumption DEF Int_
<1>2. CASE EndHead(c, last)
  <2>0. value' \in Value /\ value'.n <= IntMax + 2
    BY <1>2, NoValueType DEF EndHead
  <2>1. ParserTypeOK'
    <3>1. state_' \in State /\ contentsize' \in Int_ /\ due' \in Int
      BY <1>1, <1>2 DEF EndHead, ParserTypeOK, State
    <3>2. result' \in {"indeterminate", "good", "bad"} /\ trailing' \in BOOLEAN
      BY <1>2 DEF EndHead, Decide, ParserTypeOK
    <3> QED
      BY <1>2, <2>0, <3>1, <3>2 DEF EndHead, ParserTypeOK
  <2>2. state_ \in HeadState
    BY <1>2 DEF EndHead, State, HeadState, ChunkState
  <2> QED
    BY <1>2, <2>1, <2>2 DEF EndHead, Decide, State, HeadState, ChunkState
<1>3. CASE BodyByte(c, last)
  <2>1. contentsize' \in Int_ /\ due' \in Int
    BY <1>1, <1>3 DEF BodyByte, ParserTypeOK, Int_
  <2>2. ParserTypeOK'
    BY <1>3, <2>1 DEF BodyByte, Decide, headVars, ParserTypeOK
  <2> QED
    BY <1>3, <2>2 DEF BodyByte, Decide, headVars, HeadState
<1> QED
  BY <1>2, <1>3

\* The sizes of the chunks, and their bytes.
LEMMA ChunkInv ==
  ASSUME ParserInv, NEW c, ChunkSizeDigit(c) \/ EndChunkSize \/ ChunkByte(c)
  PROVE  ParserInv'
<1> USE DEF ParserInv, BodyIsWhole, WaitsForWhatIsDue, HeadAccounted, BodyIsPlain, Reading
<1>1. IntMax \in Nat /\ Int_ \subseteq Int
  BY ParserAssumption DEF Int_
<1>2. CASE ChunkSizeDigit(c)
  <2>1. HexValue[c] \in Nat
    BY <1>2 DEF ChunkSizeDigit, HexValue, Hex, Digit, DigitValue
  <2>2. chunksizehex' \in 0..(IntMax + 1)
    BY <1>1, <1>2, <2>1 DEF ChunkSizeDigit, ParserTypeOK
  <2>3. ParserTypeOK'
    BY <1>2, <2>2 DEF ChunkSizeDigit, headVars, ParserTypeOK, State
  <2> QED
    BY <1>2, <2>3 DEF ChunkSizeDigit, headVars, HeadState, ChunkState
<1>3. CASE EndChunkSize
  <2>1. chunksize' \in Int_ /\ due' \in Int
    <3>1. chunksizehex \in Nat /\ due \in Int /\ chunksize \in Int_
      BY <1>1 DEF ParserTypeOK
    <3>2. \/ chunksize' = chunksize /\ due' = due
          \/ chunksizehex <= IntMax /\ chunksize' = chunksizehex /\ due' = due + chunksizehex
      BY <1>3, Zenon DEF EndChunkSize
    <3> QED
      BY <1>1, <3>1, <3>2 DEF Int_
  <2>2. ParserTypeOK'
    BY <1>3, <2>1 DEF EndChunkSize, Decide, headVars, ParserTypeOK, State
  <2>3. due = 0 /\ chunksizehex \in Int
    BY <1>3 DEF EndChunkSize, ParserTypeOK
  <2> QED
    BY <1>3, <2>2, <2>3 DEF EndChunkSize, Decide, headVars, HeadState, ChunkState
<1>4. CASE ChunkByte(c)
  <2>1. chunksize' \in Int_ /\ due' \in Int
    BY <1>1, <1>4 DEF ChunkByte, ParserTypeOK, Int_
  <2>2. ParserTypeOK'
    BY <1>4, <2>1 DEF ChunkByte, headVars, ParserTypeOK, State
  <2>3. due = chunksize /\ chunksize \in Int
    BY <1>1, <1>4 DEF ChunkByte, ParserTypeOK
  <2> QED
    BY <1>4, <2>2, <2>3 DEF ChunkByte, headVars, HeadState, ChunkState
<1> QED
  BY <1>2, <1>3, <1>4

\* Every byte keeps the invariant of the parser.
LEMMA ConsumeInv ==
  ASSUME ParserInv, NEW c \in Symbol, NEW last \in BOOLEAN, Consume(c, last)
  PROVE  ParserInv'
BY HeadInv, EndValueInv, BodyInv, ChunkInv DEF Consume

-----------------------------------------------------------------------------
\* The server a call is meant for is the one that was named, if proxy_request
\* could read it; it is asked at the configured port.
MeantForNamed ==
  /\ pc \in {"ask", "read"} /\ readable => <<url, port>> = named
  /\ pc = "read" => socket = <<url, server_port_num>>

\* What a call returns is an error, or has the status of a good response.
ReplyIsRead == pc = "done" /\ reply.code # "502" => reply.code = code /\ result = "good"

\* Nothing is on the wire before the call has returned.
NothingYet == pc # "idle" => wire = "none"

\* The inductive invariant of the handler.
Inv == ParserInv /\ MeantForNamed /\ ReplyIsRead /\ NothingYet /\ SuccessIsWhole /\ RepliesAreFramed

\* The invariant holds at the start.
LEMMA InitInv == Init => Inv
<1> SUFFICES ASSUME Init PROVE Inv
  OBVIOUS
<1>1. ParserTypeOK
  <2>1. 0 \in Int_ /\ 0 \in 0..(IntMax + 1)
    BY ParserAssumption DEF Int_
  <2>2. value \in Value /\ value.n <= IntMax + 2
    BY NoValueType DEF Init
  <2>3. state_ \in State
    BY DEF Init, State
  <2>4. chunked \in BOOLEAN /\ body \in BOOLEAN /\ trailing \in BOOLEAN /\ sized \in BOOLEAN
    BY DEF Init
  <2>5. /\ contentsize = 0 /\ chunksizehex = 0 /\ chunksize = 0 /\ due = 0
        /\ code = "none" /\ hdr = "none" /\ result = "indeterminate"
    BY DEF Init
  <2> QED
    BY <2>1, <2>2, <2>3, <2>4, <2>5 DEF ParserTypeOK
<1>2. ParserInv
  BY <1>1 DEF Init, ParserInv, BodyIsWhole, WaitsForWhatIsDue, HeadAccounted, BodyIsPlain
<1> QED
  BY <1>2 DEF Init, Inv, MeantForNamed, ReplyIsRead, NothingYet, SuccessIsWhole, RepliesAreFramed

\* A step that leaves the parser alone leaves its invariant alone.
LEMMA ParserUnchanged ==
  ASSUME ParserInv, UNCHANGED parserVars
  PROVE  ParserInv'
BY DEF parserVars, headVars, bodyVars, ParserInv, ParserTypeOK, BodyIsWhole, WaitsForWhatIsDue,
       HeadAccounted, BodyIsPlain, Reading

\* A call starts with a new parser and with nothing asked or answered.
LEMMA CallInv ==
  ASSUME NEW u, NEW p, Call(u, p), wire' = "none", readable' => <<u, p>> = named'
  PROVE  Inv'
<1>1. ParserInv'
  BY FreshParserInv DEF Call
<1> QED
  BY <1>1 DEF Call, Inv, MeantForNamed, ReplyIsRead, NothingYet, SuccessIsWhole, RepliesAreFramed

\* Following a redirect calls the server that its Location names.
LEMMA FollowInv ==
  ASSUME Inv, NEW loc \in Location, Follow(loc)
  PROVE  Inv'
<1>1. pc = "read" /\ wire' = "none"
  BY DEF Follow, HasResponse, Inv, NothingYet
<1>2. CASE loc.kind = "path"
  <2>1. Call(url, port) /\ named' = named /\ readable' = readable
    BY <1>2 DEF Follow, Names, Readable
  <2> QED
    BY <1>1, <2>1, CallInv DEF Inv, MeantForNamed
<1>3. CASE loc.kind = "inner"
  <2>1. Call(loc.host, PortOf(loc)) /\ ~readable'
    BY <1>3 DEF Follow, Readable
  <2> QED
    BY <1>1, <2>1, CallInv
<1>4. CASE loc.kind = "address"
  <2>1. Call(loc.host, PortOf(loc)) /\ named' = Names(loc) /\ readable' = (loc.scheme = "http")
    BY <1>4 DEF Follow, Readable
  <2>2. loc.scheme = "http" => Names(loc) = <<loc.host, PortOf(loc)>>
    BY <1>4 DEF Names, PortOf, DefaultPort, HTTP_DEFAULT_PORT
  <2> QED
    BY <1>1, <2>1, <2>2, CallInv
<1> QED
  BY <1>2, <1>3, <1>4 DEF Location

\* Returning a reply: an error, or a good response that is framed right.
LEMMA ReturnInv ==
  ASSUME Inv, pc = "read", NEW r, Return(r),
         r.code # "502" => r.code = code /\ result = "good",
         r.spelled /\ (r.html \/ (sized /\ ~chunked)) => r.length = "right" /\ ~r.chunked
  PROVE  Inv'
<1>1. ParserInv'
  BY ParserUnchanged DEF Inv, Return
<1> QED
  BY <1>1 DEF Return, Inv, MeantForNamed, ReplyIsRead, NothingYet, SuccessIsWhole,
       RepliesAreFramed, parserVars, headVars, bodyVars, ghosts

\* What proxy_request does with what it has read.
LEMMA ExamineInv ==
  ASSUME Inv, Examine \/ ReadError
  PROVE  Inv'
<1>1. CASE ReadBad \/ ReadError
  <2>1. pc = "read" /\ Return(BadGateway)
    BY <1>1 DEF ReadBad, ReadError
  <2> QED
    BY <2>1, ReturnInv DEF BadGateway
<1>2. ASSUME NEW spelled \in BOOLEAN, Relay(spelled) PROVE Inv'
  <2> DEFINE r == [code |-> code, chunked |-> chunked, html |-> FALSE, spelled |-> spelled,
                   length |-> IF ~sized THEN "none" ELSE IF chunked \/ due # 0 THEN "wrong" ELSE "right"]
  <2>1. pc = "read" /\ result = "good" /\ Return(r)
    BY <1>2 DEF Relay, HasResponse
  <2>2. sized => due = 0
    BY <2>1 DEF Inv, ParserInv, BodyIsWhole
  <2>3. r.spelled /\ (r.html \/ (sized /\ ~chunked)) => r.length = "right" /\ ~r.chunked
    BY <2>2
  <2>4. r.code = code
    OBVIOUS
  <2> HIDE DEF r
  <2> QED
    BY <2>1, <2>3, <2>4, ReturnInv
<1>3. ASSUME NEW spelled \in BOOLEAN, handle_html(spelled) PROVE Inv'
  <2> DEFINE r == [code |-> code, chunked |-> chunked /\ ~spelled, html |-> TRUE, spelled |-> spelled,
                   length |-> IF sized /\ ~spelled THEN "wrong" ELSE "right"]
  <2>1. pc = "read" /\ result = "good" /\ Return(r)
    BY <1>3 DEF handle_html, HasResponse
  <2>2. r.spelled => r.length = "right" /\ ~r.chunked
    OBVIOUS
  <2>3. r.code = code
    OBVIOUS
  <2> HIDE DEF r
  <2> QED
    BY <2>1, <2>2, <2>3, ReturnInv
<1>4. CASE handle_htmlEnds \/ \E loc \in Location : FollowThrows(loc)
  <2>1. End /\ pc = "read"
    BY <1>4 DEF handle_htmlEnds, FollowThrows, HasResponse
  <2>2. ParserInv'
    BY <2>1, ParserUnchanged DEF End, Inv
  <2> QED
    BY <2>1, <2>2 DEF End, Inv, MeantForNamed, ReplyIsRead, NothingYet, SuccessIsWhole, RepliesAreFramed
<1> QED
  BY <1>1, <1>2, <1>3, <1>4, FollowInv DEF Examine

\* Every step keeps the invariant.
LEMMA NextInv ==
  ASSUME Inv, [Next]_vars
  PROVE  Inv'
<1> USE DEF MeantForNamed, ReplyIsRead, NothingYet, SuccessIsWhole, RepliesAreFramed, ghosts
<1>1. CASE handle_request
  BY <1>1, CallInv DEF handle_request
<1>2. CASE Ask \/ AskThrows
  <2>1. ParserInv'
    BY <1>2, ParserUnchanged DEF Ask, AskThrows, End, Inv
  <2> QED
    BY <1>2, <2>1 DEF Ask, AskThrows, End, Inv
<1>3. CASE Respond
  <2>1. ParserInv' /\ UNCHANGED <<code, result, sized, chunked, due>>
    BY <1>3, ParserUnchanged DEF Respond, Inv, parserVars, headVars, bodyVars
  <2>2. wire' = "200" => reply.code = "200"
    BY <1>3 DEF Respond, to_buffer
  <2>3. SuccessIsWhole'
    BY <1>3, <2>1, <2>2 DEF Respond, Inv, ParserInv, BodyIsWhole
  <2> QED
    BY <1>3, <2>1, <2>3 DEF Respond, Inv
<1>4. ASSUME NEW c \in Symbol, NEW last \in BOOLEAN, ReadByte(c, last) PROVE Inv'
  <2>1. ParserInv'
    BY <1>4, ConsumeInv DEF ReadByte, Inv
  <2> QED
    BY <1>4, <2>1 DEF ReadByte, proxyVars, Inv
<1>5. CASE UNCHANGED vars
  <2>1. ParserInv'
    BY <1>5, ParserUnchanged DEF vars, Inv
  <2> QED
    BY <1>5, <2>1 DEF vars, proxyVars, parserVars, headVars, bodyVars, Inv
<1> QED
  BY <1>1, <1>2, <1>3, <1>4, <1>5, ExamineInv DEF Next, Handler

\* The base of the theorems below.
THEOREM ProxyInvariant == Spec => []Inv
<1>1. Init => Inv
  BY InitInv
<1>2. Inv /\ [Next]_vars => Inv'
  BY NextInv
<1> QED
  BY <1>1, <1>2, PTL DEF Spec

(* Every member of the parser and its builder has its type: no length or   *)
(* chunk size that does not fit an int is ever stored or reached.          *)
THEOREM ResponseParserTypeCorrect == Spec => []ParserTypeOK
<1>1. Inv => ParserTypeOK
  BY DEF Inv, ParserInv
<1> QED
  BY <1>1, ProxyInvariant, PTL

(* response_parser reports a response as good only when it has exactly the *)
(* body that Content-Length or the chunks announced, although nothing      *)
(* initialises contentsize and reads may split the response anywhere.      *)
THEOREM GoodResponseHasItsBody == Spec => []BodyIsWhole
<1>1. Inv => BodyIsWhole
  BY DEF Inv, ParserInv
<1> QED
  BY <1>1, ProxyInvariant, PTL

(* The counters of response_parser are exact: it never waits for a byte of *)
(* an announced body that has arrived.                                     *)
THEOREM ResponseBytesAccountedFor == Spec => []WaitsForWhatIsDue
<1>1. Inv => WaitsForWhatIsDue
  BY DEF Inv, ParserInv
<1> QED
  BY <1>1, ProxyInvariant, PTL

(* A 200 that reaches the client is one of a server, and all of its body  *)
(* has arrived if a length or chunks announced it.  (A response without    *)
(* either may be cut short and relayed as a success: contentsize is then   *)
(* whatever nothing has initialised it to.)                                *)
THEOREM SuccessIsAWholeResponse == Spec => []SuccessIsWhole
<1>1. Inv => SuccessIsWhole
  BY DEF Inv
<1> QED
  BY <1>1, ProxyInvariant, PTL

(* The headers that handle_html and the relay leave frame the body of the  *)
(* reply.                                                                  *)
THEOREM EveryReplyIsFramed == Spec => []RepliesAreFramed
<1>1. Inv => RepliesAreFramed
  BY DEF Inv
<1> QED
  BY <1>1, ProxyInvariant, PTL

(* However many redirects are followed, proxy_request means the server     *)
(* that the last of them named by an http address or, after one, by paths. *)
(* (An https address it takes for one of http, at port 80 if it has no     *)
(* other, and an address in the query of a path for the place to go to.)   *)
THEOREM RedirectsReachNamedServer == Spec => []ReachesNamedServer
<1>1. Inv => ReachesNamedServer
  BY DEF Inv, MeantForNamed, ReachesNamedServer
<1> QED
  BY <1>1, ProxyInvariant, PTL
=============================================================================
