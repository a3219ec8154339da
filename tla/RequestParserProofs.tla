------------------------ MODULE RequestParserProofs ------------------------
(***************************************************************************)
(* Proofs about RequestParser, for every IntMax and requests of any length.*)
(***************************************************************************)
EXTENDS RequestParser, TLAPS

\* Pushing a character keeps a value a value, and its number within the cap.
LEMMA PushType ==
  ASSUME NEW v \in Value, v.n <= IntMax + 2, NEW c \in Input
  PROVE  Push(v, c) \in Value /\ Push(v, c).n <= IntMax + 2
<1>1. IntMax \in Nat
  BY ParserAssumption
<1>2. \A d \in Digit : DigitValue[d] \in Nat
  BY DEF Digit, DigitValue
<1>3. \A n \in Nat : Cap(n) \in Nat /\ Cap(n) <= IntMax + 2
  BY <1>1 DEF Cap
<1> DEFINE text == IF v.text = "" /\ c \in Keyword THEN c ELSE "other"
<1>4. text \in {"", "other"} \cup Keyword
  OBVIOUS
<1>5. CASE v.open /\ c \in Digit
  <2>0. v.n \in Nat /\ DigitValue[c] \in Nat
    BY <1>2, <1>5 DEF Value
  <2>1. 10 * v.n + DigitValue[c] \in Nat
    BY <2>0
  <2>2. Push(v, c) = [v EXCEPT !.digits = TRUE, !.n = Cap(10 * v.n + DigitValue[c]), !.text = text]
    BY <1>5 DEF Push
  <2> HIDE DEF text
  <2> QED
    BY <1>3, <1>4, <2>1, <2>2 DEF Value
<1>6. CASE ~(v.open /\ c \in Digit)
  <2>1. \/ c \in {"+", "-"} /\ Push(v, c) = [v EXCEPT !.sign = c, !.text = text]
        \/ Push(v, c) = [v EXCEPT !.text = text]
        \/ Push(v, c) = [v EXCEPT !.open = FALSE, !.text = text]
    BY <1>6 DEF Push
  <2> HIDE DEF text
  <2> QED
    BY <1>4, <2>1 DEF Value
<1> QED
  BY <1>5, <1>6

\* The empty value is a value.
LEMMA NoValueType == NoValue \in Value /\ NoValue.n <= IntMax + 2
BY ParserAssumption DEF NoValue, Value

\* No move leads back to the request line or into the body.
LEMMA MovesForward ==
  \A m \in Moves : /\ m[3] \in State \ {"expecting_body"}
                   /\ m[3] \in BeforeHeaders => m[1] \in BeforeHeaders
                   /\ m[1] # "expecting_body"
BY DEF Moves, VersionMoves, HeaderMoves, State, BeforeHeaders

\* Nor does any step: in particular a body is entered by EndHead alone.
LEMMA GoesToForward ==
  ASSUME NEW c, NEW next, GoesTo(c, next)
  PROVE  /\ next \in State \ {"expecting_body"}
         /\ next \in BeforeHeaders => state_ \in BeforeHeaders
         /\ state_ # "expecting_body"
BY MovesForward DEF GoesTo, Folds, State, BeforeHeaders

\* The invariant holds at the start.
LEMMA InitInv == Init => Inv
<1> SUFFICES ASSUME Init PROVE Inv
  OBVIOUS
<1>1. IntMax \in Nat
  BY ParserAssumption
<1>2. TypeOK
  <2>1. /\ contentsize_ \in (-IntMax - 1)..IntMax /\ bodysize \in (-IntMax - 1)..IntMax
        /\ body \in 0..IntMax
    BY <1>1 DEF Init
  <2>2. value \in Value /\ value.n <= IntMax + 2
    BY NoValueType DEF Init
  <2>3. state_ \in State /\ keep_alive \in BOOLEAN
    BY DEF Init, State
  <2> QED
    BY <2>1, <2>2, <2>3 DEF Init, TypeOK
<1> QED
  BY <1>1, <1>2 DEF Init, Inv, StartsFresh, BodyComplete, BodyAccounted, Reading

\* The bytes of the request line and the headers, up to the end of a value.
LEMMA HeadInv ==
  ASSUME Inv, NEW c \in Input,
         Advance(c) \/ StartHeader(c) \/ NameChar(c) \/ StartValue(c) \/ ValueChar(c) \/ Reject(c)
  PROVE  Inv'
<1> USE DEF Inv, StartsFresh, BodyComplete, BodyAccounted, Reading
<1>1. CASE Advance(c)
  <2>1. PICK next \in State : GoesTo(c, next) /\ state_' = next
    BY <1>1 DEF Advance
  <2> QED
    BY <1>1, <2>1, GoesToForward DEF Advance, builderVars, TypeOK
<1>2. CASE StartHeader(c)
  <2>1. HeaderName(c) \in {"Content-Length", "Connection", "other"}
    BY DEF HeaderName
  <2> QED
    BY <1>2, <2>1, NoValueType DEF StartHeader, TypeOK, State, BeforeHeaders
<1>3. CASE NameChar(c)
  BY <1>3 DEF NameChar, TypeOK
<1>4. CASE StartValue(c)
  BY <1>4 DEF StartValue, builderVars, TypeOK, State, BeforeHeaders
<1>5. CASE ValueChar(c)
  <2>1. value' \in Value /\ value'.n <= IntMax + 2
    BY <1>5, PushType DEF ValueChar, TypeOK
  <2> QED
    BY <1>5, <2>1 DEF ValueChar, TypeOK, State, BeforeHeaders
<1>6. CASE Reject(c)
  BY <1>6 DEF Reject, builderVars, TypeOK
<1> QED
  BY <1>1, <1>2, <1>3, <1>4, <1>5, <1>6

\* The end of a header, where Content-Length is stored.
LEMMA EndValueInv ==
  ASSUME Inv, EndValue
  PROVE  Inv'
<1> USE DEF Inv, StartsFresh, BodyComplete, BodyAccounted, Reading
<1>1. IntMax \in Nat /\ value \in Value /\ body = 0 /\ state_ = "header_value"
  BY ParserAssumption DEF EndValue, TypeOK
<1>2. ~StoiThrows(value) => Stoi(value) \in (-IntMax - 1)..IntMax
  <2>1. value.n \in Nat
    BY <1>1 DEF Value
  <2> QED
    BY <1>1, <2>1 DEF StoiThrows, Stoi
<1>3. TypeOK'
  BY <1>1, <1>2 DEF EndValue, TypeOK, State
<1>4. result' = "indeterminate" => /\ state_' = "expecting_newline_2"
                                   /\ contentsize_' = bodysize' /\ contentsize_' >= 0
  BY <1>1, <1>2 DEF EndValue, TypeOK
<1>5. body' = 0 /\ result' # "good"
  BY <1>1 DEF EndValue
<1>6. "expecting_newline_2" \notin BeforeHeaders
  BY DEF BeforeHeaders
<1>7. result' = "indeterminate" => contentsize_' \in Int
  BY <1>1, <1>2 DEF EndValue, TypeOK
<1> QED
  BY <1>3, <1>4, <1>5, <1>6, <1>7

\* The byte after the headers, and the body.
LEMMA BodyInv ==
  ASSUME Inv, NEW c \in Input, NEW last \in BOOLEAN, EndHead(c, last) \/ BodyByte(c, last)
  PROVE  Inv'
<1> USE DEF Inv, StartsFresh, BodyComplete, BodyAccounted, Reading
<1>1. IntMax \in Nat
  BY ParserAssumption
<1>2. CASE EndHead(c, last)
  BY <1>1, <1>2 DEF EndHead, Decide, builderVars, TypeOK, State, BeforeHeaders
<1>3. CASE BodyByte(c, last)
  BY <1>1, <1>3 DEF BodyByte, Decide, TypeOK, State, BeforeHeaders
<1> QED
  BY <1>2, <1>3

\* The next request: contentsize_ is 0 because the last one was good.
LEMMA ResetInv ==
  ASSUME Inv, Reset
  PROVE  Inv'
<1>1. IntMax \in Nat
  BY ParserAssumption
<1>2. contentsize_' = 0 /\ bodysize' = 0 /\ body' = 0
  BY DEF Inv, BodyComplete, Reset, FreshBuilder
<1>3. TypeOK'
  <2>1. /\ contentsize_' \in (-IntMax - 1)..IntMax /\ bodysize' \in (-IntMax - 1)..IntMax
        /\ body' \in 0..IntMax
    BY <1>1, <1>2
  <2>2. value' \in Value /\ value'.n <= IntMax + 2
    BY NoValueType DEF Reset, FreshBuilder
  <2>3. state_' \in State /\ keep_alive' \in BOOLEAN
    BY DEF Reset, FreshBuilder, State
  <2> QED
    BY <2>1, <2>2, <2>3 DEF TypeOK, Reset, FreshBuilder
<1> QED
  BY <1>2, <1>3 DEF Inv, StartsFresh, BodyComplete, BodyAccounted, Reading, Reset

\* Every step keeps the invariant.
LEMMA NextInv ==
  ASSUME Inv, [Next]_vars
  PROVE  Inv'
<1>1. CASE UNCHANGED vars
  BY <1>1 DEF vars, builderVars, Inv, TypeOK, StartsFresh, BodyComplete, BodyAccounted, Reading
<1>2. CASE Next
  BY <1>2, HeadInv, EndValueInv, BodyInv, ResetInv DEF Next
<1> QED
  BY <1>1, <1>2

\* The base of the theorems below.
THEOREM ParserInvariant == Spec => []Inv
<1>1. Init => Inv
  BY InitInv
<1>2. Inv /\ [Next]_vars => Inv'
  BY NextInv
<1> QED
  BY <1>1, <1>2, PTL DEF Spec

(* Every variable of the parser has its type: in particular a body size    *)
(* that does not fit an int is never stored.                               *)
THEOREM ParserTypeCorrect == Spec => []TypeOK
<1>1. Inv => TypeOK
  BY DEF Inv
<1> QED
  BY <1>1, ParserInvariant, PTL

(* reset() may leave contentsize_ alone: it is 0 whenever a request of a   *)
(* keep-alive connection starts.                                           *)
THEOREM EveryRequestStartsFresh == Spec => []StartsFresh
<1>1. Inv => StartsFresh
  BY DEF Inv
<1> QED
  BY <1>1, ParserInvariant, PTL

(* A good request has exactly the body its Content-Length announced.       *)
THEOREM GoodRequestHasItsBody == Spec => []BodyComplete
<1>1. Inv => BodyComplete
  BY DEF Inv
<1> QED
  BY <1>1, ParserInvariant, PTL

(* The parser never waits for a negative or an already received number of  *)
(* bytes.                                                                  *)
THEOREM BodyBytesAccountedFor == Spec => []BodyAccounted
<1>1. Inv => BodyAccounted
  BY DEF Inv
<1> QED
  BY <1>1, ParserInvariant, PTL
=============================================================================
