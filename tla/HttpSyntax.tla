----------------------------- MODULE HttpSyntax -----------------------------
(***************************************************************************)
(* What request_parser and response_parser have in common: the classes of  *)
(* bytes, the way through the version and the header lines, and what       *)
(* std::stoi and strcasecmp make of a header value.                        *)
(*                                                                         *)
(* Bytes are the classes that the code tells apart.  The header names and  *)
(* the values the parsers compare with are one symbol each.                *)
(***************************************************************************)
EXTENDS Integers

CONSTANT IntMax   \* the largest int (2147483647 in the program)

ASSUME ParserAssumption == IntMax \in Nat

Digit == {"0", "1", "2"}
DigitValue == [d \in Digit |-> CASE d = "0" -> 0 [] d = "1" -> 1 [] d = "2" -> 2]

Name    == {"Content-Length", "Connection", "Transfer-Encoding"}
Keyword == {"Keep-Alive", "chunked"}

\* is_char and neither is_ctl nor is_tspecial; "a" is a letter that is a hex
\* digit, "H", "T" and "P" are letters that are not.
Token == Digit \cup {"H", "T", "P", "+", "-", ".", "a"} \cup Name \cup Keyword
Ctl   == {"cr", "lf", "tab", "nul"}
Blank == {"sp", "tab"}
\* "high" is a byte above 127; ":" and "/" are the tspecials that matter.
Input == Token \cup Ctl \cup {"sp", ":", "/", "high"}
Byte  == Input \ (Name \cup Keyword)

\* Where a byte takes a parser from each state of the version, up to its end,
\* and of the header lines; one that has no row is bad.
VersionMoves ==
  {<<"http_version_h", {"H"}, "http_version_t_1">>,
   <<"http_version_t_1", {"T"}, "http_version_t_2">>,
   <<"http_version_t_2", {"T"}, "http_version_p">>,
   <<"http_version_p", {"P"}, "http_version_slash">>,
   <<"http_version_slash", {"/"}, "http_version_major_start">>,
   <<"http_version_major_start", Digit, "http_version_major">>,
   <<"http_version_major", {"."}, "http_version_minor_start">>,
   <<"http_version_major", Digit, "http_version_major">>,
   <<"http_version_minor_start", Digit, "http_version_minor">>,
   <<"http_version_minor", Digit, "http_version_minor">>}

HeaderMoves ==
  {<<"expecting_newline_1", {"lf"}, "header_line_start">>,
   <<"header_line_start", {"cr"}, "expecting_newline_3">>,
   <<"header_line_start", Token, "header_name">>,
   <<"header_lws", {"cr"}, "expecting_newline_2">>,
   <<"header_lws", Blank, "header_lws">>,
   <<"header_lws", Input \ (Ctl \cup Blank), "header_value">>,
   <<"header_name", {":"}, "space_before_header_value">>,
   <<"header_name", Token, "header_name">>,
   <<"space_before_header_value", {"sp"}, "header_value">>,
   <<"header_value", {"cr"}, "expecting_newline_2">>,
   <<"header_value", Input \ Ctl, "header_value">>,
   <<"expecting_newline_2", {"lf"}, "header_line_start">>}

-----------------------------------------------------------------------------
(* A header value: what std::stoi makes of the characters pushed so far    *)
(* (digits seen, sign, number) and which keyword it is exactly, if any.    *)

Value == [open : BOOLEAN, digits : BOOLEAN, sign : {"", "+", "-"}, n : Nat,
          text : {"", "other"} \cup Keyword]
NoValue == [open |-> TRUE, digits |-> FALSE, sign |-> "", n |-> 0, text |-> ""]

\* A number past the smallest int stays there: stoi throws out_of_range.
Cap(n) == IF n > IntMax + 1 THEN IntMax + 2 ELSE n

Push(v, c) ==
  LET text == IF v.text = "" /\ c \in Keyword THEN c ELSE "other" IN
  IF v.open /\ c \in Digit
  THEN [v EXCEPT !.digits = TRUE, !.n = Cap(10 * @ + DigitValue[c]), !.text = text]
  ELSE IF v.open /\ c \in {"+", "-"} /\ ~v.digits /\ v.sign = ""
  THEN [v EXCEPT !.sign = c, !.text = text]
  ELSE IF v.open /\ c = "sp" /\ ~v.digits /\ v.sign = ""
  THEN [v EXCEPT !.text = text]
  ELSE [v EXCEPT !.open = FALSE, !.text = text]

\* Mutant: a number that does not fit an int is not noticed.
StoiThrowsNoRange(v) == ~v.digits

\* std::stoi throws when there is no number, or one that does not fit an int.
StoiThrows(v) == ~v.digits \/ v.n > IF v.sign = "-" THEN IntMax + 1 ELSE IntMax

Stoi(v) == IF v.sign = "-" THEN -v.n ELSE v.n
=============================================================================
