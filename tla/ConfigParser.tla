---------------------------- MODULE ConfigParser ----------------------------
(***************************************************************************)
(* NginxConfigParser (NginxConfigParser.cc): the configuration file, token *)
(* by token.  Parse never looks back: what a token means is decided by a   *)
(* set of flags that earlier tokens left, while braces and semicolons are  *)
(* checked on the side.  Files are of any length.  Parse never reads what  *)
(* it has stored, so the model keeps only what it stored for the statement *)
(* or the location block it is in.                                         *)
(***************************************************************************)
EXTENDS Integers, Sequences

CONSTANTS Text,       \* what quoted tokens contain
          ExactType,  \* the types whose locations are complete with the type: they are alike
          MaxDepth,   \* bound: nesting of blocks
          MaxOdd      \* bound: words that make no sense, in one block

ASSUME ConfigAssumption ==
         /\ "" \notin Text /\ MaxDepth \in Nat /\ MaxOdd \in Nat
         /\ ExactType \subseteq {"EchoHandler", "StatusHandler", "HealthHandler", "UploadFormHandler"}

Type == ExactType \cup {"StaticHandler", "RedirectHandler", "ProxyHandler", "BlogHandler"}
Keyword == {"port", "location", "root", "host", "username", "password"}

\* Tokens without quotes and with them; a quoted token includes its quotes.
Word(w) == [quoted |-> FALSE, text |-> w]
Quote(q) == [quoted |-> TRUE, text |-> q]

\* "1:80" is an address and a port; "x" is anything else, numbers that are no
\* port included.
Normal == {Word(w) : w \in Keyword \cup Type \cup {"80", "1:80", "x"}}
            \cup {Quote(q) : q \in Text}
Comment == Word("#")
Cut == Word("cut")

\* ParseToken.  At the end of the file the token may be empty or something that
\* nothing ended, which matters only if it is a value or a type; a quote that
\* is not closed is an error.
ParseToken == {[type |-> "NORMAL", value |-> v] : v \in Normal}
    \cup {[type |-> "START_BLOCK", value |-> Word("{")], [type |-> "END_BLOCK", value |-> Word("}")],
          [type |-> "STATEMENT_END", value |-> Word(";")], [type |-> "COMMENT", value |-> Comment],
          [type |-> "ERROR", value |-> Cut]}
    \cup {[type |-> "EOF", value |-> v] :
             v \in {Word(w) : w \in ExactType \cup {"80", "x", ""}}}

\* token.substr(1, token.size() - 2): the quotes, or whatever is in their
\* place; a single character leaves nothing.
Strip(v) == IF v.quoted THEN v.text ELSE IF v.text \in {"{", "}", ";"} THEN "" ELSE "cut"

VARIABLES
  save,      \* the one flag, save_... or seen_location, that waits for the next token
  expect,    \* the flags expect_... that are set
  location,
  host,      \* store_proxy_location_token
  types,     \* handler_types_ and seen_handlers: what this block added
  stored,    \* what was stored in the config: member and location -> value
  last_token_type,
  depth,     \* the height of bracket_stack
  result,    \* what Parse returned
  stmt,      \* ghost: the tokens of this statement, while they make sense
  block,     \* ghost: the location block, or the statement, as it is written
  stray,     \* ghost: a location outside of a proper location block was read
  odd        \* how many words made no sense or followed something stray

parserVars == <<save, expect, location, host, types, stored>>
ghosts == <<stmt, block, stray, odd>>
vars == <<parserVars, last_token_type, depth, result, ghosts>>

-----------------------------------------------------------------------------
(* The flags, one token v after the other.  p is the record of parserVars. *)

\* The map f with value under key.
Extend(f, key, value) == [k \in DOMAIN f \cup {key} |-> IF k = key THEN value ELSE f[k]]

Put(p, member, value) == [p EXCEPT !.stored = Extend(@, <<member, p.location>>, value)]

\* SetConfigPortNumberFromToken and IsValidPortNum look behind a colon, the
\* stoi of the port that is stored for a proxy does not.
ValidPort == {Word("80"), Word("1:80")}
ProxyPort(v) == IF v = Word("80") THEN "80" ELSE "1"

\* Where the values of a blog location are stored; save_blog_... are named
\* for it.
BlogMember == [host |-> "blog_ips_", port |-> "blog_ports_",
               username |-> "blog_usernames_", password |-> "blog_passwords_"]
BlogMembers == {BlogMember[k] : k \in DOMAIN BlogMember}

\* substr of an empty token throws, and so does stoi after an invalid port:
\* it is given the word "port".  An invalid port may also end
\* IsValidPortNum without a return, and then stoi is given that port.
Throws(v) ==
  \/ save \in BlogMembers \cup {"root", "proxy_host", "redirect_host", "location"} /\ v = Word("")
  \/ save = "proxy_port" /\ v \notin ValidPort

\* The value that the last token announced.
Save(p, v) ==
  CASE p.save = "port" /\ v \in ValidPort ->
         [p EXCEPT !.stored = Extend(@, <<"port_number", "">>, <<"80">>)]
    [] p.save = "proxy_port" ->
         [Put(p, "proxy_locations_", <<p.host, ProxyPort(v)>>) EXCEPT !.location = ""]
    [] p.save = "proxy_host" ->
         [p EXCEPT !.host = Strip(v),
                   !.expect = (@ \ {"handler_type", "proxy_host"}) \cup {"proxy_port"}]
    [] p.save = "root" ->
         [Put(p, "static_locations_", <<Strip(v)>>) EXCEPT
            !.expect = @ \ {"handler_type", "static_root"}, !.location = ""]
    [] p.save = "redirect_host" ->
         [Put(p, "redirect_locations_", <<Strip(v)>>) EXCEPT
            !.expect = @ \ {"redirect_host", "handler_type", "proxy_port"}]
    [] p.save \in BlogMembers -> Put(p, p.save, <<Strip(v)>>)
    [] OTHER -> p

Expects == [StaticHandler |-> "static_root", RedirectHandler |-> "redirect_host",
            ProxyHandler |-> "proxy_host", BlogHandler |-> "blog_info"]

\* Mutant: a type is recorded for the locations that are complete with it.
HandlerExact(p, v) ==
  IF "handler_type" \notin p.expect \/ v \notin {Word(k) : k \in Type} THEN p
  ELSE IF v.text \in ExactType
  THEN [Put(p, v.text, <<>>) EXCEPT
          !.types = @ \cup {v.text}, !.location = "", !.save = "none",
          !.expect = @ \ {"handler_type"}]
  ELSE [p EXCEPT !.expect = @ \cup {Expects[v.text]}]

\* expect_handler_type: every token until the type is known is taken for one;
\* tokens that are no type have no handler and are left out of types.
Handler(p, v) ==
  IF "handler_type" \notin p.expect \/ v \notin {Word(k) : k \in Type} THEN p
  ELSE IF v.text \in ExactType
  THEN [Put(p, v.text, <<>>) EXCEPT
          !.types = @ \cup {v.text}, !.location = "", !.save = "none",
          !.expect = @ \ {"handler_type"}]
  ELSE [p EXCEPT !.types = @ \cup {v.text}, !.expect = @ \cup {Expects[v.text]}]

\* seen_location
Locate(p, v) ==
  IF p.save # "location" THEN p
  ELSE [p EXCEPT !.location = Strip(v), !.expect = @ \cup {"handler_type"}]

\* The chain of keywords: what the next token is for.
NextSave(e, v) ==
  CASE v = Word("port") /\ {"proxy_port", "blog_info"} \cap e = {} -> "port"
    [] v = Word("port") /\ "proxy_port" \in e -> "proxy_port"
    [] v = Word("location") -> "location"
    [] v = Word("root") /\ "static_root" \in e -> "root"
    [] v = Word("host") /\ "proxy_host" \in e -> "proxy_host"
    [] v = Word("host") /\ "proxy_host" \notin e /\ "redirect_host" \in e -> "redirect_host"
    [] /\ v \in {Word(k) : k \in DOMAIN BlogMember} /\ "blog_info" \in e
       /\ v = Word("port") => "proxy_port" \notin e
       /\ v = Word("host") => {"proxy_host", "redirect_host"} \cap e = {} -> BlogMember[v.text]
    [] OTHER -> "none"

\* What a token does to the flags and the config.  After root, the token is
\* compared with the keywords without its quotes.
Digest(p, v) ==
  LET q == Locate(Handler(Save(p, v), v), v)
      w == IF p.save = "root" THEN Word(Strip(v)) ELSE v
  IN [q EXCEPT !.save = NextSave(q.expect, w)]

\* The end of a block: all flags are cleared.
Cleared(p) == [p EXCEPT !.save = "none", !.expect = {}]

-----------------------------------------------------------------------------
(* Ghosts: the file as it is written, by its statements.                   *)

NoBlock == [type |-> "none", path |-> "", given |-> <<>>, known |-> TRUE]

\* The beginnings of statements that make sense: the head of a location
\* block, or a keyword and a value.
Proper(s) ==
  /\ Len(s) \in 1..3 /\ s[1] \in {Word(k) : k \in Keyword}
  /\ IF s[1] = Word("location")
     THEN /\ Len(s) > 1 => s[2].quoted
          /\ Len(s) > 2 => s[3] \in {Word(k) : k \in Type}
     ELSE Len(s) = 1 \/ (Len(s) = 2 /\ s[2].text \notin Keyword \cup Type)
Improper == <<Word("")>>

\* The statements that belong in a block of the type, each of them once.
Belongs(s, b) ==
  /\ Len(s) = 2 /\ s[1].text \notin DOMAIN b.given
  /\ \/ b.type = "StaticHandler" /\ s[1].text = "root" /\ s[2].quoted
     \/ b.type = "RedirectHandler" /\ s[1].text = "host" /\ s[2].quoted
     \/ b.type = "ProxyHandler" /\ s[1].text = "host" /\ s[2].quoted
     \/ /\ b.type = "ProxyHandler" /\ s[1].text = "port" /\ s[2] = Word("80")
        /\ "host" \in DOMAIN b.given
     \/ b.type = "BlogHandler" /\ s[1].text \in DOMAIN BlogMember /\ s[2].quoted

StartsLocation == stmt # <<>> /\ stmt[1] = Word("location")

-----------------------------------------------------------------------------
Init ==
  /\ save = "none" /\ expect = {} /\ location = "" /\ host = "" /\ types = {} /\ stored = <<>>
  /\ last_token_type = "START" /\ depth = 0 /\ result = "parsing"
  /\ stmt = <<>> /\ block = NoBlock /\ stray = FALSE /\ odd = 0

Current == [save |-> save, expect |-> expect, location |-> location, host |-> host,
            types |-> types, stored |-> stored]
Becomes(p) ==
  /\ save' = p.save /\ expect' = p.expect /\ location' = p.location /\ host' = p.host
  /\ types' = p.types /\ stored' = p.stored

Reads(t) == result = "parsing" /\ ~Throws(t.value)

\* A word.  Outside of location blocks, what was stored is forgotten with the
\* first word of the next statement; everywhere, in one that makes no sense.
ReadNormal(t) ==
  /\ t.type = "NORMAL" /\ Reads(t)
  /\ Becomes(Digest(IF stmt = Improper \/ (stmt = <<>> /\ block.type = "none") THEN [Current EXCEPT !.stored = <<>>]
                    ELSE Current, t.value))
  /\ last_token_type' = "NORMAL"
  /\ stmt' = IF Proper(Append(stmt, t.value)) THEN Append(stmt, t.value) ELSE Improper
  /\ stray' = \/ stray
              \/ stmt # <<>> /\ t.value.text = "location"
              \/ StartsLocation /\ stmt' = Improper
  /\ odd' = IF stray' \/ stmt' = Improper THEN odd + 1 ELSE odd
  /\ odd' <= MaxOdd
  /\ UNCHANGED <<depth, result, block>>

\* A comment goes through the flags as any other token does.
ReadComment(t) ==
  /\ t.type = "COMMENT" /\ Reads(t)
  /\ Becomes(Digest(Current, t.value))
  /\ stmt' = IF stmt = <<>> THEN stmt ELSE Improper
  /\ stray' = (stray \/ StartsLocation)
  /\ UNCHANGED <<last_token_type, depth, result, block, odd>>

EndStatement(t) ==
  /\ t.type = "STATEMENT_END" /\ Reads(t) /\ last_token_type = "NORMAL"
  /\ Becomes(Digest(Current, t.value))
  /\ last_token_type' = t.type
  /\ stmt' = <<>>
  /\ LET ok == stmt # Improper /\ (block.type # "none" => Belongs(stmt, block)) IN
       /\ stray' = (stray \/ StartsLocation \/ (block.type # "none" /\ ~ok))
       /\ block' = IF ~ok \/ Len(stmt) # 2 THEN [NoBlock EXCEPT !.known = ok]
                   ELSE [block EXCEPT !.known = TRUE,
                           !.given = Extend(IF block.type = "none" THEN <<>> ELSE @, stmt[1].text, stmt[2])]
  /\ UNCHANGED <<depth, result, odd>>

StartBlock(t) ==
  /\ t.type = "START_BLOCK" /\ Reads(t) /\ last_token_type = "NORMAL" /\ depth < MaxDepth
  /\ Becomes(Digest(Current, t.value))
  /\ last_token_type' = t.type
  /\ depth' = depth + 1
  /\ stmt' = <<>>
  /\ LET head == StartsLocation /\ Len(stmt) = 3 /\ block.type = "none" IN
       /\ stray' = (stray \/ block.type # "none" \/ (StartsLocation /\ ~head))
       /\ block' = IF head THEN [NoBlock EXCEPT !.type = stmt[3].text, !.path = stmt[2].text]
                   ELSE [NoBlock EXCEPT !.known = FALSE]
  /\ UNCHANGED <<result, odd>>

\* Mutant: one of the flags is not cleared.
CloseBlockKeeps(t) ==
  /\ t.type = "END_BLOCK" /\ Reads(t)
  /\ last_token_type \in {"STATEMENT_END", "END_BLOCK", "START_BLOCK"} /\ depth > 0
  /\ Becomes([Cleared(Digest(Current, t.value)) EXCEPT
                !.expect = expect \cap {"proxy_port"}, !.stored = <<>>, !.types = {}])
  /\ last_token_type' = t.type
  /\ depth' = depth - 1
  /\ stmt' = <<>> /\ block' = NoBlock /\ stray' = FALSE /\ odd' = 0
  /\ UNCHANGED result

CloseBlock(t) ==
  /\ t.type = "END_BLOCK" /\ Reads(t)
  /\ last_token_type \in {"STATEMENT_END", "END_BLOCK", "START_BLOCK"} /\ depth > 0
  /\ Becomes([Cleared(Digest(Current, t.value)) EXCEPT !.stored = <<>>, !.types = {}])
  /\ last_token_type' = t.type
  /\ depth' = depth - 1
  /\ stmt' = <<>> /\ block' = NoBlock /\ stray' = FALSE /\ odd' = 0
  /\ UNCHANGED result

\* Parse returns false: a token that may not follow the last one.
Fail(t) ==
  /\ Reads(t)
  /\ \/ t.type = "ERROR"
     \/ t.type \in {"STATEMENT_END", "START_BLOCK"} /\ last_token_type # "NORMAL"
     \/ t.type = "END_BLOCK" /\ (last_token_type \in {"START", "NORMAL"} \/ depth = 0)
     \/ t.type = "EOF" /\ last_token_type \in {"START_BLOCK", "NORMAL"}
  /\ Becomes(Digest(Current, t.value))
  /\ result' = "false"
  /\ UNCHANGED <<last_token_type, depth, ghosts>>

EndOfFile(t) ==
  /\ t.type = "EOF" /\ Reads(t) /\ last_token_type \in {"STATEMENT_END", "END_BLOCK", "START"}
  /\ Becomes(Digest(Current, t.value))
  /\ result' = IF depth = 0 THEN "true" ELSE "false"
  /\ UNCHANGED <<last_token_type, depth, ghosts>>

\* An exception leaves Parse; main reports it and ends.
Throw(t) ==
  /\ result = "parsing" /\ Throws(t.value)
  /\ result' = "threw"
  /\ UNCHANGED <<parserVars, last_token_type, depth, ghosts>>

Next ==
  \E t \in ParseToken :
    \/ ReadNormal(t) \/ ReadComment(t) \/ EndStatement(t) \/ StartBlock(t) \/ CloseBlock(t)
    \/ Fail(t) \/ EndOfFile(t) \/ Throw(t)

Spec == Init /\ [][Next]_vars

-----------------------------------------------------------------------------
(* Properties.                                                             *)

\* What a location block, or a statement outside of one, means.
Meaning(b) ==
  LET given == DOMAIN b.given
      Given(k) == b.given[k].text
  IN
  CASE b.type = "none" ->
         IF "port" \in given /\ b.given["port"] \in ValidPort
         THEN Extend(<<>>, <<"port_number", "">>, <<"80">>) ELSE <<>>
    [] b.type \in ExactType -> Extend(<<>>, <<b.type, b.path>>, <<>>)
    [] b.type = "StaticHandler" ->
         [k \in {<<"static_locations_", b.path>> : g \in given} |-> <<Given("root")>>]
    [] b.type = "RedirectHandler" ->
         [k \in {<<"redirect_locations_", b.path>> : g \in given} |-> <<Given("host")>>]
    [] b.type = "ProxyHandler" ->
         IF "port" \in given
         THEN Extend(<<>>, <<"proxy_locations_", b.path>>, <<Given("host"), "80">>) ELSE <<>>
    [] b.type = "BlogHandler" ->
         [k \in {<<BlogMember[g], b.path>> : g \in given} |->
            <<Given(CHOOSE g \in given : BlogMember[g] = k[1])>>]

(* Between two statements, exactly what the block says is stored, under    *)
(* its own location, and a port outside of location blocks is the port of  *)
(* the server: flags left by anything that came before, accepted however   *)
(* odd it was, never turn a proper block or statement into another one.    *)
ParsedAsWritten ==
  result = "parsing" /\ stmt = <<>> /\ block.known /\ ~stray => stored = Meaning(block)

TypeOf ==
  [x \in {"static_locations_", "redirect_locations_", "proxy_locations_"} \cup ExactType \cup BlogMembers |->
     CASE x = "static_locations_"   -> "StaticHandler"
       [] x = "redirect_locations_" -> "RedirectHandler"
       [] x = "proxy_locations_"    -> "ProxyHandler"
       [] x \in ExactType           -> x
       [] x \in BlogMembers         -> "BlogHandler"]

(* A location is stored only after its type is among handler_types_, for   *)
(* every input: request_dispatcher makes handlers for the listed types     *)
(* alone, and would look up a location it made no handler for.             *)
StoredHasType ==
  \A k \in DOMAIN stored : k[1] = "port_number" \/ TypeOf[k[1]] \in types
=============================================================================
