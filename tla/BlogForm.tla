------------------------------ MODULE BlogForm ------------------------------
(***************************************************************************)
(* How blog_upload_request_handler (blog_upload_request_handler.cc) reads  *)
(* a submitted form: urldecode the whole body, then parseRequestBody it.   *)
(* A string is a sequence of characters; a percent escape in a body is one *)
(* element of the sequence, and so is a whole field name.                  *)
(***************************************************************************)
EXTENDS Sequences, SequencesExt

Escapes == [c \in {"+", "%26", "%3D", "%2B"} |->
              CASE c = "+" -> " " [] c = "%26" -> "&" [] c = "%3D" -> "=" [] c = "%2B" -> "+"]

\* urldecode: '+' is a space, an escape its character, the rest stays.
urldecode(str) ==
  [i \in DOMAIN str |-> IF str[i] \in DOMAIN Escapes THEN Escapes[str[i]] ELSE str[i]]

\* One round of the loop of parseRequestBody, and temp[key] = value.
Put(p) == [k \in DOMAIN p.temp \cup {p.key} |-> IF k = p.key THEN p.value ELSE p.temp[k]]

ParseChar(p, c) ==
  IF c = "=" THEN [p EXCEPT !.atkey = FALSE]
  ELSE IF c = "&" THEN [temp |-> Put(p), key |-> <<>>, value |-> <<>>, atkey |-> TRUE]
  ELSE IF p.atkey THEN [p EXCEPT !.key = Append(@, c)]
  ELSE [p EXCEPT !.value = Append(@, c)]

\* Mutant: the last field is only stored when an '&' follows it.
parseRequestBodyNoLast(body) ==
  FoldLeft(ParseChar, [temp |-> <<>>, key |-> <<>>, value |-> <<>>, atkey |-> TRUE], body).temp

\* A key without a value of its own at '&' is still stored; so is the last one.
parseRequestBody(body) ==
  Put(FoldLeft(ParseChar, [temp |-> <<>>, key |-> <<>>, value |-> <<>>, atkey |-> TRUE], body))

TitleKey == <<"submissiontitle">>
BodyKey == <<"submissionbody">>

\* What a browser sends for the form of upload_form_request_handler.
Encode(value) ==
  [i \in DOMAIN value |->
     IF \E c \in DOMAIN Escapes : Escapes[c] = value[i]
     THEN CHOOSE c \in DOMAIN Escapes : Escapes[c] = value[i] ELSE value[i]]

Submission(title, body) ==
  TitleKey \o <<"=">> \o Encode(title) \o <<"&">> \o BodyKey \o <<"=">> \o Encode(body)
=============================================================================
