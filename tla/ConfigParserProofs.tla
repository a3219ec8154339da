------------------------- MODULE ConfigParserProofs -------------------------
(***************************************************************************)
(* Proofs about ConfigParser, for files of any length, any names and any   *)
(* nesting.                                                                *)
(***************************************************************************)
EXTENDS ConfigParser, SequenceTheorems, TLAPS

\* The flags and the config are a record p of these fields.
Record(p) ==
  p = [save |-> p.save, expect |-> p.expect, location |-> p.location, host |-> p.host,
       types |-> p.types, stored |-> p.stored]

\* The type whose branch sets a flag.
Owner == [static_root |-> "StaticHandler", redirect_host |-> "RedirectHandler",
          proxy_host |-> "ProxyHandler", proxy_port |-> "ProxyHandler",
          blog_info |-> "BlogHandler"]
SaveOwner == [root |-> "StaticHandler", redirect_host |-> "RedirectHandler",
              proxy_host |-> "ProxyHandler", proxy_port |-> "ProxyHandler"]

\* A flag is set only when the type that owns it was listed.
FlagsListed(p) ==
  /\ \A e \in p.expect : e \in DOMAIN Owner => Owner[e] \in p.types
  /\ p.save \in DOMAIN SaveOwner => SaveOwner[p.save] \in p.types
  /\ p.save \in BlogMembers => "BlogHandler" \in p.types
StoredListed(p) ==
  \A k \in DOMAIN p.stored : k[1] = "port_number" \/ TypeOf[k[1]] \in p.types
Listed(p) == FlagsListed(p) /\ StoredListed(p)

-----------------------------------------------------------------------------
\* The members of the config, by the type of their locations.
LEMMA TypeOfMember ==
  /\ TypeOf["static_locations_"] = "StaticHandler"
  /\ TypeOf["redirect_locations_"] = "RedirectHandler"
  /\ TypeOf["proxy_locations_"] = "ProxyHandler"
  /\ \A k \in ExactType : TypeOf[k] = k
  /\ \A m \in BlogMembers : TypeOf[m] = "BlogHandler"
<1>1. BlogMembers = {"blog_ips_", "blog_ports_", "blog_usernames_", "blog_passwords_"}
  BY DEF BlogMembers, BlogMember
<1> QED
  BY <1>1, ConfigAssumption DEF TypeOf

\* What Save, Handler and Locate do with a record is a record.
LEMMA StepsKeepRecord ==
  ASSUME NEW p, Record(p), NEW v
  PROVE  Record(Save(p, v)) /\ Record(Handler(p, v)) /\ Record(Locate(p, v))
<1>1. Record(Save(p, v))
  BY DEF Record, Save, Put
<1>2. Record(Handler(p, v))
  BY DEF Record, Handler, Put
<1>3. Record(Locate(p, v))
  BY DEF Record, Locate
<1> QED
  BY <1>1, <1>2, <1>3

\* Storing a value announced by its type's flag.
LEMMA SaveListed ==
  ASSUME NEW p, Record(p), Listed(p), NEW v
  PROVE  Listed(Save(p, v))
<1> DEFINE q == Save(p, v)
<1>1. q.types = p.types /\ q.save = p.save
  BY DEF Record, Save, Put
<1>2. q.expect \subseteq p.expect \/ (q.expect \subseteq p.expect \cup {"proxy_port"} /\ p.save = "proxy_host")
  BY DEF Record, Save, Put
<1>3. FlagsListed(q)
  BY <1>1, <1>2 DEF Listed, FlagsListed, Owner, SaveOwner
<1>4. BlogMembers = {"blog_ips_", "blog_ports_", "blog_usernames_", "blog_passwords_"}
  BY DEF BlogMembers, BlogMember
<1>5. \A member, value : DOMAIN Put(p, member, value).stored = DOMAIN p.stored \cup {<<member, p.location>>}
  BY DEF Record, Put, Extend
<1>6. \E k : /\ DOMAIN q.stored \subseteq DOMAIN p.stored \cup {k}
            /\ (k[1] = "port_number" \/ TypeOf[k[1]] \in p.types)
  <2> DEFINE New(k) == /\ DOMAIN q.stored \subseteq DOMAIN p.stored \cup {k}
                       /\ (k[1] = "port_number" \/ TypeOf[k[1]] \in p.types)
  <2>0. \A member, location_ : <<member, location_>>[1] = member
    OBVIOUS
  <2>1. CASE p.save = "port" /\ v \in ValidPort
    <3>1. DOMAIN q.stored = DOMAIN p.stored \cup {<<"port_number", "">>}
      BY <1>4, <2>1 DEF Record, Save, Extend
    <3>2. New(<<"port_number", "">>)
      BY <2>0, <3>1
    <3> QED
      BY <3>2
  <2>2. CASE p.save = "proxy_port"
    <3>1. q.stored = Put(p, "proxy_locations_", <<p.host, ProxyPort(v)>>).stored
      BY <1>4, <2>2 DEF Record, Save, Put
    <3>2. TypeOf["proxy_locations_"] \in p.types
      BY <2>2, TypeOfMember DEF Listed, FlagsListed, SaveOwner
    <3>3. New(<<"proxy_locations_", p.location>>)
      BY <1>5, <2>0, <3>1, <3>2
    <3> QED
      BY <3>3
  <2>3. CASE p.save = "root"
    <3>1. q.stored = Put(p, "static_locations_", <<Strip(v)>>).stored
      BY <1>4, <2>3 DEF Record, Save, Put
    <3>2. TypeOf["static_locations_"] \in p.types
      BY <2>3, TypeOfMember DEF Listed, FlagsListed, SaveOwner
    <3>3. New(<<"static_locations_", p.location>>)
      BY <1>5, <2>0, <3>1, <3>2
    <3> QED
      BY <3>3
  <2>4. CASE p.save = "redirect_host"
    <3>1. q.stored = Put(p, "redirect_locations_", <<Strip(v)>>).stored
      BY <1>4, <2>4 DEF Record, Save, Put
    <3>2. TypeOf["redirect_locations_"] \in p.types
      BY <2>4, TypeOfMember DEF Listed, FlagsListed, SaveOwner
    <3>3. New(<<"redirect_locations_", p.location>>)
      BY <1>5, <2>0, <3>1, <3>2
    <3> QED
      BY <3>3
  <2>5. CASE p.save \in BlogMembers
    <3>1. q.stored = Put(p, p.save, <<Strip(v)>>).stored
      BY <1>4, <2>5 DEF Save
    <3>2. TypeOf[p.save] \in p.types
      BY <2>5, TypeOfMember DEF Listed, FlagsListed
    <3>3. New(<<p.save, p.location>>)
      BY <1>5, <2>0, <3>1, <3>2
    <3> QED
      BY <3>3
  <2>6. CASE /\ p.save \notin {"proxy_port", "root", "redirect_host"} \cup BlogMembers
             /\ ~(p.save = "port" /\ v \in ValidPort)
    <3>1. q.stored = p.stored
      BY <1>4, <2>6 DEF Record, Save
    <3>2. New(<<"port_number", "">>)
      BY <2>0, <3>1
    <3> QED
      BY <3>2
  <2> QED
    BY <2>1, <2>2, <2>3, <2>4, <2>5, <2>6
<1>7. StoredListed(q)
  BY <1>1, <1>6 DEF Listed, StoredListed
<1> QED
  BY <1>3, <1>7 DEF Listed

\* The type that was recognised is listed; its branch sets its own flags only.
LEMMA HandlerListed ==
  ASSUME NEW p, Record(p), Listed(p), NEW v
  PROVE  Listed(Handler(p, v))
<1> DEFINE q == Handler(p, v)
<1>1. CASE q = p
  BY <1>1
<1>2. CASE v.text \in ExactType /\ q = [Put(p, v.text, <<>>) EXCEPT
          !.types = @ \cup {v.text}, !.location = "", !.save = "none",
          !.expect = @ \ {"handler_type"}]
  <2>1. /\ q.types = p.types \cup {v.text} /\ q.save = "none" /\ q.expect \subseteq p.expect
        /\ DOMAIN q.stored = DOMAIN p.stored \cup {<<v.text, p.location>>}
    BY <1>2 DEF Record, Put, Extend
  <2>2. "none" \notin BlogMembers
    BY DEF BlogMembers, BlogMember
  <2> QED
    BY <1>2, <2>1, <2>2, TypeOfMember DEF Listed, FlagsListed, StoredListed, SaveOwner
<1>3. CASE v.text \in Type \ ExactType /\
           q = [p EXCEPT !.types = @ \cup {v.text}, !.expect = @ \cup {Expects[v.text]}]
  <2>1. /\ q.types = p.types \cup {v.text} /\ q.save = p.save /\ q.stored = p.stored
        /\ q.expect = p.expect \cup {Expects[v.text]}
    BY <1>3 DEF Record
  <2>2. Owner[Expects[v.text]] = v.text
    BY <1>3 DEF Type, Expects, Owner
  <2> QED
    BY <2>1, <2>2 DEF Listed, FlagsListed, StoredListed
<1> QED
  BY <1>1, <1>2, <1>3 DEF Handler, Word

\* Any token, and the keyword that it may be.
LEMMA DigestListed ==
  ASSUME NEW p, Record(p), Listed(p), NEW v
  PROVE  Record(Digest(p, v)) /\ Listed(Digest(p, v))
<1> DEFINE q == Locate(Handler(Save(p, v), v), v)
           w == IF p.save = "root" THEN Word(Strip(v)) ELSE v
<1>1. Record(q) /\ Listed(Handler(Save(p, v), v)) /\ Record(Handler(Save(p, v), v))
  <2>1. Record(Save(p, v)) /\ Listed(Save(p, v))
    BY StepsKeepRecord, SaveListed
  <2>2. Record(Handler(Save(p, v), v)) /\ Listed(Handler(Save(p, v), v))
    BY <2>1, StepsKeepRecord, HandlerListed
  <2> QED
    BY <2>2, StepsKeepRecord
<1>2. Listed(q)
  <2>1. PICK r : r = Handler(Save(p, v), v)
    OBVIOUS
  <2>2. Record(r) /\ Listed(r) /\ q = Locate(r, v)
    BY <1>1, <2>1
  <2>3. /\ q.types = r.types /\ q.save = r.save /\ q.stored = r.stored
        /\ q.expect \subseteq r.expect \cup {"handler_type"}
    BY <2>2 DEF Record, Locate
  <2> QED
    BY <2>2, <2>3 DEF Listed, FlagsListed, StoredListed, Owner
<1>3. PICK r : r = q
  OBVIOUS
<1>4. PICK s : s = NextSave(r.expect, w)
  OBVIOUS
<1>5. Digest(p, v) = [r EXCEPT !.save = s] /\ Record(r) /\ Listed(r)
  BY <1>1, <1>2, <1>3, <1>4 DEF Digest
<1>6. /\ s = "root" => "static_root" \in r.expect
      /\ s = "redirect_host" => "redirect_host" \in r.expect
      /\ s = "proxy_host" => "proxy_host" \in r.expect
      /\ s = "proxy_port" => "proxy_port" \in r.expect
      /\ s \in BlogMembers => "blog_info" \in r.expect
  <2>1. BlogMembers = {"blog_ips_", "blog_ports_", "blog_usernames_", "blog_passwords_"}
    BY DEF BlogMembers, BlogMember
  <2> HIDE DEF w
  <2>2. /\ s = "root" => "static_root" \in r.expect
        /\ s = "redirect_host" => "redirect_host" \in r.expect
    BY <1>4, <2>1 DEF NextSave, BlogMember, Word
  <2>3. /\ s = "proxy_host" => "proxy_host" \in r.expect
        /\ s = "proxy_port" => "proxy_port" \in r.expect
    BY <1>4, <2>1 DEF NextSave, BlogMember, Word
  <2>4. s \in BlogMembers => "blog_info" \in r.expect
    BY <1>4, <2>1 DEF NextSave, BlogMember, Word
  <2> QED
    BY <2>2, <2>3, <2>4
<1>7. FlagsListed([r EXCEPT !.save = s])
  BY <1>5, <1>6 DEF Record, Listed, FlagsListed, Owner, SaveOwner
<1> QED
  BY <1>5, <1>7 DEF Record, Listed, StoredListed

-----------------------------------------------------------------------------
LEMMA InitListed == Init => Listed(Current)
<1>1. "none" \notin BlogMembers
  BY DEF BlogMembers, BlogMember
<1>2. Init => Current.expect = {} /\ Current.save = "none" /\ DOMAIN Current.stored = {}
  <2>1. /\ Current.expect = expect /\ Current.save = save /\ Current.stored = stored
    BY DEF Current
  <2>2. DOMAIN <<>> = {}
    OBVIOUS
  <2> QED
    BY <2>1, <2>2 DEF Init
<1>3. Init => FlagsListed(Current) /\ StoredListed(Current)
  BY <1>1, <1>2 DEF FlagsListed, StoredListed, SaveOwner
<1> QED
  BY <1>3 DEF Listed

\* What becomes of the flags at a token.
LEMMA BecomesListed ==
  ASSUME NEW p, Listed(p), Record(p), Becomes(p)
  PROVE  Listed(Current)'
BY DEF Becomes, Current, Listed, FlagsListed, StoredListed, Record

\* Every step of Parse keeps what is stored listed.
LEMMA NextListed == Listed(Current) /\ [Next]_vars => Listed(Current)'
<1>1. SUFFICES ASSUME Listed(Current), [Next]_vars PROVE Listed(Current)'
  OBVIOUS
<1>2. Record(Current)
  BY DEF Record, Current
<1>3. CASE UNCHANGED parserVars
  BY <1>1, <1>3 DEF parserVars, Current, Listed, FlagsListed, StoredListed
<1>4. ASSUME NEW v, Becomes(Digest(Current, v)) PROVE Listed(Current)'
  BY <1>1, <1>2, <1>4, DigestListed, BecomesListed
<1>5. ASSUME NEW t, ReadNormal(t) PROVE Listed(Current)'
  <2> DEFINE p == IF stmt = Improper \/ (stmt = <<>> /\ block.type = "none")
                  THEN [Current EXCEPT !.stored = <<>>] ELSE Current
  <2>1. Record(p) /\ Listed(p)
    BY <1>1, <1>2 DEF Record, Current, Listed, FlagsListed, StoredListed
  <2>2. Becomes(Digest(p, t.value))
    BY <1>5 DEF ReadNormal
  <2> QED
    BY <2>1, <2>2, DigestListed, BecomesListed
<1>6. ASSUME NEW t, CloseBlock(t) PROVE Listed(Current)'
  <2>1. expect' = {} /\ save' = "none" /\ stored' = <<>>
    BY <1>2, <1>6, DigestListed, <1>1 DEF CloseBlock, Becomes, Cleared, Record
  <2> QED
    BY <2>1 DEF Current, Listed, FlagsListed, StoredListed, SaveOwner, BlogMembers, BlogMember
<1> QED
  BY <1>1, <1>3, <1>4, <1>5, <1>6
     DEF Next, ReadComment, EndStatement, StartBlock, Fail, EndOfFile, Throw, vars

-----------------------------------------------------------------------------
\* A location is stored by Parse only after its type was pushed to
\* handler_types_, whatever the file is.
THEOREM StoredLocationsAreListed == Spec => []StoredHasType
<1>1. Init => Listed(Current)
  BY InitListed
<1>2. Listed(Current) /\ [Next]_vars => Listed(Current)'
  BY NextListed
<1>3. Listed(Current) => StoredHasType
  BY DEF Listed, StoredListed, Current, StoredHasType
<1> QED
  BY <1>1, <1>2, <1>3, PTL DEF Spec

-----------------------------------------------------------------------------
(* What is written, as far as it was read.                                 *)

TypeWords == {Word(k) : k \in Type}
KeywordWords == {Word(k) : k \in Keyword}
Quotes == {Quote(x) : x \in Text}

\* The statements, as far as they were read, and a statement with one more word.
Statement(s) ==
  \/ s = <<>> \/ s = Improper
  \/ \E a \in KeywordWords : s = <<a>>
  \/ \E a \in KeywordWords \ {Word("location")}, v \in Normal :
       s = <<a, v>> /\ v.text \notin Keyword \cup Type
  \/ \E q \in Quotes : s = <<Word("location"), q>>
  \/ \E q \in Quotes, w \in TypeWords : s = <<Word("location"), q, w>>
More(s, v) == IF Proper(Append(s, v)) THEN Append(s, v) ELSE Improper

\* The block that a head begins, and a block with one more statement.
HeadBlock(s) == [NoBlock EXCEPT !.type = s[3].text, !.path = s[2].text]
With(b, s) == [b EXCEPT !.given = Extend(@, s[1].text, s[2])]

\* The flags that wait for the rest of the block.
Due(b) ==
  LET given == DOMAIN b.given IN
  CASE b.type = "StaticHandler"   -> IF "root" \in given THEN {} ELSE {"handler_type", "static_root"}
    [] b.type = "RedirectHandler" -> IF "host" \in given THEN {} ELSE {"handler_type", "redirect_host"}
    [] b.type = "ProxyHandler"    -> IF "host" \in given THEN {"proxy_port"}
                                     ELSE {"handler_type", "proxy_host"}
    [] b.type = "BlogHandler"     -> {"handler_type", "blog_info"}
    [] OTHER                      -> {}
ProxyStored(b) == b.type = "ProxyHandler" /\ "port" \in DOMAIN b.given

\* The parser, in the state p, knows of b what it has to, and has stored what b
\* means.
Knows(p, b) ==
  /\ p.expect = Due(b) /\ p.stored = Meaning(b)
  /\ Due(b) # {} /\ ~ProxyStored(b) => p.location = b.path
  /\ b.type = "ProxyHandler" /\ "host" \in DOMAIN b.given => p.host = b.given["host"].text

Block(b) == b = [type |-> b.type, path |-> b.path, given |-> b.given, known |-> b.known]

\* The statements of a location block, in an order that the parser follows.
WellFormed(b) ==
  LET given == DOMAIN b.given IN
  /\ Block(b) /\ b.known = TRUE
  /\ b.type \in Type
  /\ b.type \in ExactType => given = {}
  /\ b.type = "StaticHandler" => given \subseteq {"root"}
  /\ b.type = "RedirectHandler" => given \subseteq {"host"}
  /\ b.type = "ProxyHandler" => given \subseteq {"host", "port"} /\ ("port" \in given => "host" \in given)
  /\ b.type = "BlogHandler" => given \subseteq DOMAIN BlogMember

\* What the parser, in the state p, makes of the statement s in the block b:
\* outside of a location block, and inside.
Outside(p, s, b) ==
  /\ Block(b) /\ b.type = "none" /\ b.path = ""
  /\ s = <<>> => p.expect = {} /\ p.save = "none" /\ (b.known => p.stored = Meaning(b))
  /\ s = Improper => p.expect = {} /\ p.save \in {"none", "port"}
  /\ \A a \in KeywordWords : s = <<a>> =>
       /\ p.expect = {} /\ p.stored = <<>>
       /\ p.save = IF a.text \in {"port", "location"} THEN a.text ELSE "none"
  /\ \A a \in KeywordWords \ {Word("location")}, v \in Normal : s = <<a, v>> =>
       p.expect = {} /\ p.save = "none" /\ p.stored = Meaning(With(NoBlock, s))
  /\ \A q \in Quotes : s = <<Word("location"), q>> =>
       p.expect = {"handler_type"} /\ p.save = "none" /\ p.stored = <<>> /\ p.location = q.text
  /\ \A q \in Quotes, w \in TypeWords : s = <<Word("location"), q, w>> =>
       p.save = "none" /\ Knows(p, HeadBlock(s))

Inside(p, s, b) ==
  /\ WellFormed(b)
  /\ s = <<>> => p.save = "none" /\ Knows(p, b)
  /\ \A a \in KeywordWords \ {Word("location")} :
       s = <<a>> => p.save = NextSave(p.expect, a) /\ Knows(p, b)
  /\ \A a \in KeywordWords \ {Word("location")}, v \in Normal :
       s = <<a, v>> /\ Belongs(s, b) => p.save = "none" /\ Knows(p, With(b, s))

AsWritten ==
  result = "parsing" =>
    /\ last_token_type = "NORMAL" => stmt # <<>>
    /\ Statement(stmt)
    /\ ~stray => Outside(Current, stmt, block) \/ Inside(Current, stmt, block)

-----------------------------------------------------------------------------
LEMMA BlogMembersAre ==
  BlogMembers = {"blog_ips_", "blog_ports_", "blog_usernames_", "blog_passwords_"}
BY DEF BlogMembers, BlogMember

\* No keyword is the name of a type, nor is a port either of them.
LEMMA WordsDiffer ==
  /\ \A v \in TypeWords : v.quoted = FALSE /\ v.text \in Type /\ v = Word(v.text) /\ v \notin KeywordWords
  /\ \A v \in KeywordWords : v.quoted = FALSE /\ v.text \in Keyword /\ v = Word(v.text)
  /\ \A v \in ValidPort : v \notin TypeWords /\ v \notin KeywordWords
  /\ \A v \in Quotes : v.quoted = TRUE /\ v \notin TypeWords /\ v \notin KeywordWords
<1>1. Type \cap Keyword = {} /\ {"80", "1:80"} \cap (Type \cup Keyword) = {}
  BY ConfigAssumption DEF Type, Keyword
<1>2. \A w : Word(w).quoted = FALSE /\ Word(w).text = w
  BY DEF Word
<1>3. \A v \in TypeWords : v.quoted = FALSE /\ v.text \in Type /\ v = Word(v.text)
  BY <1>2 DEF TypeWords
<1>4. \A v \in KeywordWords : v.quoted = FALSE /\ v.text \in Keyword /\ v = Word(v.text)
  BY <1>2 DEF KeywordWords
<1>5. \A v \in ValidPort : v.text \in {"80", "1:80"}
  BY <1>2 DEF ValidPort
<1>6. \A v \in Quotes : v.quoted = TRUE
  BY DEF Quotes, Quote
<1> QED
  BY <1>1, <1>3, <1>4, <1>5, <1>6

\* Only keywords announce anything.
LEMMA NoKeyword == ASSUME NEW e, NEW v, v \notin KeywordWords PROVE NextSave(e, v) = "none"
BY DEF NextSave, KeywordWords, Keyword, BlogMember

\* A token that nothing announced.
LEMMA DigestPlain ==
  ASSUME NEW p, Record(p), NEW v,
         p.save = "none" \/ (p.save = "port" /\ v \notin ValidPort),
         "handler_type" \notin p.expect \/ v \notin TypeWords
  PROVE  /\ Digest(p, v).save = NextSave(p.expect, v)
         /\ Digest(p, v).expect = p.expect
         /\ Digest(p, v).stored = p.stored
         /\ Digest(p, v).location = p.location
         /\ Digest(p, v).host = p.host
<1>1. Save(p, v) = p
  BY BlogMembersAre DEF Save
<1>2. Handler(p, v) = p
  BY DEF Handler, TypeWords
<1>3. Locate(p, v) = p
  BY DEF Locate
<1>4. Digest(p, v) = [p EXCEPT !.save = NextSave(p.expect, v)]
  BY <1>1, <1>2, <1>3 DEF Digest
<1> QED
  BY <1>4 DEF Record

\* The port of the server.
LEMMA DigestPort ==
  ASSUME NEW p, Record(p), NEW v, p.save = "port", v \in ValidPort
  PROVE  /\ Digest(p, v).save = "none"
         /\ Digest(p, v).expect = p.expect
         /\ Digest(p, v).stored = Extend(p.stored, <<"port_number", "">>, <<"80">>)
<1> DEFINE q == [p EXCEPT !.stored = Extend(@, <<"port_number", "">>, <<"80">>)]
<1>1. Save(p, v) = q
  BY BlogMembersAre DEF Save
<1>2. v \notin TypeWords /\ v \notin KeywordWords
  BY WordsDiffer
<1>3. Handler(q, v) = q
  BY <1>2 DEF Handler, TypeWords
<1>4. Locate(q, v) = q
  BY DEF Locate, Record
<1>5. Digest(p, v) = [q EXCEPT !.save = "none"]
  BY <1>1, <1>2, <1>3, <1>4, NoKeyword DEF Digest
<1> QED
  BY <1>5 DEF Record

\* The path of a location.
LEMMA DigestPath ==
  ASSUME NEW p, Record(p), NEW v \in Quotes, p.save = "location"
  PROVE  /\ Digest(p, v).save = "none"
         /\ Digest(p, v).expect = p.expect \cup {"handler_type"}
         /\ Digest(p, v).stored = p.stored
         /\ Digest(p, v).location = v.text
<1> DEFINE q == [p EXCEPT !.location = v.text, !.expect = @ \cup {"handler_type"}]
<1>1. Save(p, v) = p
  BY BlogMembersAre DEF Save
<1>2. v.quoted = TRUE /\ v \notin TypeWords /\ v \notin KeywordWords
  BY WordsDiffer
<1>3. Handler(p, v) = p
  BY <1>2 DEF Handler, TypeWords
<1>4. Locate(p, v) = q
  BY <1>2 DEF Locate, Strip
<1>5. Digest(p, v) = [q EXCEPT !.save = "none"]
  BY <1>1, <1>2, <1>3, <1>4, NoKeyword DEF Digest
<1> QED
  BY <1>5 DEF Record

\* The type of a location.
LEMMA DigestType ==
  ASSUME NEW p, Record(p), NEW v \in TypeWords, p.save = "none", p.expect = {"handler_type"}
  PROVE  /\ Digest(p, v).save = "none"
         /\ Digest(p, v).expect = IF v.text \in ExactType THEN {} ELSE {"handler_type", Expects[v.text]}
         /\ Digest(p, v).stored = IF v.text \in ExactType
              THEN Extend(p.stored, <<v.text, p.location>>, <<>>) ELSE p.stored
         /\ v.text \notin ExactType => Digest(p, v).location = p.location
<1> DEFINE q == Handler(p, v)
<1>1. Save(p, v) = p
  BY BlogMembersAre DEF Save
<1>2. v \notin KeywordWords
  BY WordsDiffer
<1>3. q.save = "none" /\ Record(q)
  BY StepsKeepRecord DEF Handler, Put, Record
<1>4. Locate(q, v) = q
  BY <1>3 DEF Locate
<1>5. Digest(p, v) = [q EXCEPT !.save = "none"]
  BY <1>1, <1>2, <1>4, NoKeyword DEF Digest
<1>6. CASE v.text \in ExactType
  <2>1. q = [Put(p, v.text, <<>>) EXCEPT
          !.types = @ \cup {v.text}, !.location = "", !.save = "none",
          !.expect = @ \ {"handler_type"}]
    BY <1>6 DEF Handler, TypeWords
  <2>2. Put(p, v.text, <<>>).stored = Extend(p.stored, <<v.text, p.location>>, <<>>)
    BY DEF Record, Put
  <2>3. q.expect = {} /\ q.stored = Put(p, v.text, <<>>).stored
    BY <2>1 DEF Record, Put
  <2> QED
    BY <1>3, <1>5, <1>6, <2>2, <2>3 DEF Record
<1>7. CASE v.text \notin ExactType
  <2>1. q = [p EXCEPT !.types = @ \cup {v.text}, !.expect = @ \cup {Expects[v.text]}]
    BY <1>7 DEF Handler, TypeWords
  <2> QED
    BY <1>5, <1>7, <2>1 DEF Record
<1> QED
  BY <1>6, <1>7

-----------------------------------------------------------------------------
\* What a block means, by its type.
LEMMA Meanings ==
  ASSUME NEW b
  PROVE  /\ b.type = "none" => Meaning(b) =
              IF "port" \in DOMAIN b.given /\ b.given["port"] \in ValidPort
              THEN Extend(<<>>, <<"port_number", "">>, <<"80">>) ELSE <<>>
         /\ b.type \in ExactType => Meaning(b) = Extend(<<>>, <<b.type, b.path>>, <<>>)
         /\ b.type = "StaticHandler" => Meaning(b) =
              [k \in {<<"static_locations_", b.path>> : g \in DOMAIN b.given} |-> <<b.given["root"].text>>]
         /\ b.type = "RedirectHandler" => Meaning(b) =
              [k \in {<<"redirect_locations_", b.path>> : g \in DOMAIN b.given} |-> <<b.given["host"].text>>]
         /\ b.type = "ProxyHandler" => Meaning(b) =
              IF "port" \in DOMAIN b.given
              THEN Extend(<<>>, <<"proxy_locations_", b.path>>, <<b.given["host"].text, "80">>) ELSE <<>>
         /\ b.type = "BlogHandler" => Meaning(b) =
              [k \in {<<BlogMember[g], b.path>> : g \in DOMAIN b.given} |->
                 <<b.given[CHOOSE g \in DOMAIN b.given : BlogMember[g] = k[1]].text>>]
<1>1. ExactType \cap {"none", "StaticHandler", "RedirectHandler", "ProxyHandler", "BlogHandler"} = {}
  BY ConfigAssumption
<1>2. b.type = "none" => Meaning(b) =
              IF "port" \in DOMAIN b.given /\ b.given["port"] \in ValidPort
              THEN Extend(<<>>, <<"port_number", "">>, <<"80">>) ELSE <<>>
  BY <1>1 DEF Meaning
<1>3. b.type \in ExactType => Meaning(b) = Extend(<<>>, <<b.type, b.path>>, <<>>)
  BY <1>1 DEF Meaning
<1>4. b.type = "StaticHandler" => Meaning(b) =
              [k \in {<<"static_locations_", b.path>> : g \in DOMAIN b.given} |-> <<b.given["root"].text>>]
  BY <1>1 DEF Meaning
<1>5. b.type = "RedirectHandler" => Meaning(b) =
              [k \in {<<"redirect_locations_", b.path>> : g \in DOMAIN b.given} |-> <<b.given["host"].text>>]
  BY <1>1 DEF Meaning
<1>6. b.type = "ProxyHandler" => Meaning(b) =
              IF "port" \in DOMAIN b.given
              THEN Extend(<<>>, <<"proxy_locations_", b.path>>, <<b.given["host"].text, "80">>) ELSE <<>>
  BY <1>1 DEF Meaning
<1>7. b.type = "BlogHandler" => Meaning(b) =
              [k \in {<<BlogMember[g], b.path>> : g \in DOMAIN b.given} |->
                 <<b.given[CHOOSE g \in DOMAIN b.given : BlogMember[g] = k[1]].text>>]
  BY <1>1 DEF Meaning
<1> QED
  BY <1>2, <1>3, <1>4, <1>5, <1>6, <1>7

\* The flags that a block waits with, by its type.
LEMMA Dues ==
  ASSUME NEW b
  PROVE  /\ b.type \in ExactType \cup {"none"} => Due(b) = {}
         /\ b.type = "StaticHandler" => Due(b) =
              IF "root" \in DOMAIN b.given THEN {} ELSE {"handler_type", "static_root"}
         /\ b.type = "RedirectHandler" => Due(b) =
              IF "host" \in DOMAIN b.given THEN {} ELSE {"handler_type", "redirect_host"}
         /\ b.type = "ProxyHandler" => Due(b) =
              IF "host" \in DOMAIN b.given THEN {"proxy_port"} ELSE {"handler_type", "proxy_host"}
         /\ b.type = "BlogHandler" => Due(b) = {"handler_type", "blog_info"}
BY ConfigAssumption DEF Due

\* A block with one more statement.
LEMMA WithOne ==
  ASSUME NEW b, Block(b), NEW a, NEW v
  PROVE  LET c == With(b, <<a, v>>) IN
         /\ c.type = b.type /\ c.path = b.path /\ c.known = b.known /\ Block(c)
         /\ c.given = Extend(b.given, a.text, v)
         /\ DOMAIN c.given = DOMAIN b.given \cup {a.text}
         /\ c.given[a.text] = v
         /\ \A k \in DOMAIN b.given : k # a.text => c.given[k] = b.given[k]
<1> DEFINE c == With(b, <<a, v>>)
<1>1. <<a, v>>[1] = a /\ <<a, v>>[2] = v
  OBVIOUS
<1>2. c = [b EXCEPT !.given = Extend(b.given, a.text, v)]
  BY <1>1 DEF With
<1>3. /\ c.type = b.type /\ c.path = b.path /\ c.known = b.known /\ Block(c)
      /\ c.given = Extend(b.given, a.text, v)
  BY <1>2 DEF Block
<1> QED
  BY <1>3 DEF Extend

-----------------------------------------------------------------------------
\* What the keywords of a block, or of a statement outside of one, announce.
LEMMA Announced ==
  /\ NextSave({"handler_type", "static_root"}, Word("root")) = "root"
  /\ NextSave({"handler_type", "redirect_host"}, Word("host")) = "redirect_host"
  /\ NextSave({"handler_type", "proxy_host"}, Word("host")) = "proxy_host"
  /\ NextSave({"proxy_port"}, Word("port")) = "proxy_port"
  /\ \A k \in DOMAIN BlogMember : NextSave({"handler_type", "blog_info"}, Word(k)) = BlogMember[k]
  /\ \A a \in KeywordWords :
       NextSave({}, a) = IF a.text \in {"port", "location"} THEN a.text ELSE "none"
<1>0. \A w, x : Word(w) = Word(x) <=> w = x
  BY DEF Word
<1>1. NextSave({"handler_type", "static_root"}, Word("root")) = "root"
  BY <1>0 DEF NextSave, BlogMember
<1>2. NextSave({"handler_type", "redirect_host"}, Word("host")) = "redirect_host"
  BY <1>0 DEF NextSave, BlogMember
<1>3. NextSave({"handler_type", "proxy_host"}, Word("host")) = "proxy_host"
  BY <1>0 DEF NextSave, BlogMember
<1>4. NextSave({"proxy_port"}, Word("port")) = "proxy_port"
  BY <1>0 DEF NextSave, BlogMember
<1>5. ASSUME NEW k \in DOMAIN BlogMember
      PROVE  NextSave({"handler_type", "blog_info"}, Word(k)) = BlogMember[k]
  <2>1. k \in {"host", "port", "username", "password"}
    BY DEF BlogMember
  <2>2. Word(k) \in {Word(j) : j \in DOMAIN BlogMember} /\ Word(k).text = k
    BY DEF Word
  <2> QED
    BY <1>0, <2>1, <2>2 DEF NextSave
<1>6. ASSUME NEW a \in KeywordWords
      PROVE  NextSave({}, a) = IF a.text \in {"port", "location"} THEN a.text ELSE "none"
  <2>1. PICK k \in Keyword : a = Word(k) /\ a.text = k
    BY DEF KeywordWords, Word
  <2> QED
    BY <1>0, <2>1 DEF NextSave, Keyword
<1> QED
  BY <1>1, <1>2, <1>3, <1>4, <1>5, <1>6

\* A value is no type and no keyword, in quotes or without.
LEMMA DigestValue ==
  ASSUME NEW p, Record(p), NEW v, v.text \notin Keyword \cup Type, p.save # "location",
         p.save = "root" => v.quoted = TRUE, Record(Save(p, v))
  PROVE  /\ Digest(p, v).save = "none"
         /\ Digest(p, v).expect = Save(p, v).expect
         /\ Digest(p, v).stored = Save(p, v).stored
         /\ Digest(p, v).location = Save(p, v).location
         /\ Digest(p, v).host = Save(p, v).host
<1> DEFINE q == Save(p, v)
           w == IF p.save = "root" THEN Word(Strip(v)) ELSE v
<1>1. v \notin TypeWords /\ v \notin KeywordWords
  BY WordsDiffer
<1>2. q.save = p.save
  BY DEF Save, Put, Record
<1>3. Handler(q, v) = q
  BY <1>1 DEF Handler, TypeWords
<1>4. Locate(q, v) = q
  BY <1>2 DEF Locate
<1>5. w \notin KeywordWords
  <2>1. p.save = "root" => Strip(v) = v.text /\ Word(Strip(v)).text = v.text
    BY DEF Strip, Word
  <2> QED
    BY <1>1, <2>1, WordsDiffer
<1>6. Digest(p, v) = [q EXCEPT !.save = "none"]
  BY <1>3, <1>4, <1>5, NoKeyword DEF Digest
<1> QED
  BY <1>6 DEF Record

\* A value in its block, by the type of the block.
LEMMA StaticValue ==
  ASSUME NEW p, Record(p), NEW b, WellFormed(b), b.type = "StaticHandler", NEW v,
         v.text \notin Keyword \cup Type, v.quoted = TRUE, DOMAIN b.given = {}, 
         p.save = NextSave(p.expect, Word("root")), Knows(p, b)
  PROVE  Digest(p, v).save = "none" /\ Knows(Digest(p, v), With(b, <<Word("root"), v>>))
<1> DEFINE q == Save(p, v)
           c == With(b, <<Word("root"), v>>)
<1>1. p.expect = {"handler_type", "static_root"} /\ p.save = "root" /\ p.location = b.path
  <2>1. p.expect = {"handler_type", "static_root"}
    BY Dues DEF Knows
  <2> QED
    BY <2>1, Announced DEF Knows, ProxyStored
<1>2. q = [Put(p, "static_locations_", <<v.text>>) EXCEPT
             !.expect = @ \ {"handler_type", "static_root"}, !.location = ""]
  BY <1>1, BlogMembersAre DEF Save, Strip
<1>3. /\ Record(q) /\ q.expect = {}
      /\ q.stored = Extend(p.stored, <<"static_locations_", b.path>>, <<v.text>>)
  <2>1. Put(p, "static_locations_", <<v.text>>) =
          [p EXCEPT !.stored = Extend(p.stored, <<"static_locations_", b.path>>, <<v.text>>)]
    BY <1>1 DEF Put, Record
  <2> QED
    BY <1>1, <1>2, <2>1 DEF Record
<1>4. /\ c.type = "StaticHandler" /\ c.path = b.path /\ DOMAIN c.given = {"root"}
      /\ c.given["root"] = v
  BY WithOne DEF WellFormed, Word
<1>5. Meaning(c) = q.stored
  <2> HIDE DEF c
  <2>1. Meaning(c) = [k \in {<<"static_locations_", b.path>>} |-> <<v.text>>]
    <3>1. Meaning(c) = [k \in {<<"static_locations_", c.path>> : g \in DOMAIN c.given} |-> <<c.given["root"].text>>]
      BY <1>4, Meanings
    <3>2. {<<"static_locations_", c.path>> : g \in DOMAIN c.given} = {<<"static_locations_", b.path>>}
      BY <1>4
    <3> QED
      BY <1>4, <3>1, <3>2
  <2>2. DOMAIN p.stored = {}
    <3>1. p.stored = [k \in {<<"static_locations_", b.path>> : g \in DOMAIN b.given} |-> <<b.given["root"].text>>]
      BY Meanings DEF Knows
    <3> QED
      BY <3>1
  <2> QED
    BY <1>3, <2>1, <2>2 DEF Extend
<1>6. Due(c) = {}
  BY <1>4, Dues
<1> HIDE DEF q, c
<1>7. p.save # "location" /\ (p.save = "root" => v.quoted = TRUE)
  BY <1>1
<1>8. PICK r : r = Digest(p, v)
  OBVIOUS
<1>9. /\ r.save = "none" /\ r.expect = q.expect /\ r.stored = q.stored
      /\ r.location = q.location /\ r.host = q.host
  BY <1>3, <1>7, <1>8, DigestValue DEF q
<1>10. Knows(r, c)
  BY <1>1, <1>3, <1>4, <1>5, <1>6, <1>9 DEF Knows
<1> QED
  BY <1>8, <1>9, <1>10 DEF c

\* The host of a redirect location.
LEMMA RedirectValue ==
  ASSUME NEW p, Record(p), NEW b, WellFormed(b), b.type = "RedirectHandler", NEW v,
         v.text \notin Keyword \cup Type, v.quoted = TRUE, DOMAIN b.given = {}, 
         p.save = NextSave(p.expect, Word("host")), Knows(p, b)
  PROVE  Digest(p, v).save = "none" /\ Knows(Digest(p, v), With(b, <<Word("host"), v>>))
<1> DEFINE q == Save(p, v)
           c == With(b, <<Word("host"), v>>)
<1>1. p.expect = {"handler_type", "redirect_host"} /\ p.save = "redirect_host" /\ p.location = b.path
  <2>1. p.expect = {"handler_type", "redirect_host"}
    BY Dues DEF Knows
  <2> QED
    BY <2>1, Announced DEF Knows, ProxyStored
<1>2. q = [Put(p, "redirect_locations_", <<v.text>>) EXCEPT
             !.expect = @ \ {"redirect_host", "handler_type", "proxy_port"}]
  BY <1>1, BlogMembersAre DEF Save, Strip
<1>3. /\ Record(q) /\ q.expect = {}
      /\ q.stored = Extend(p.stored, <<"redirect_locations_", b.path>>, <<v.text>>)
  <2>1. Put(p, "redirect_locations_", <<v.text>>) =
          [p EXCEPT !.stored = Extend(p.stored, <<"redirect_locations_", b.path>>, <<v.text>>)]
    BY <1>1 DEF Put, Record
  <2> QED
    BY <1>1, <1>2, <2>1 DEF Record
<1>4. /\ c.type = "RedirectHandler" /\ c.path = b.path /\ DOMAIN c.given = {"host"}
      /\ c.given["host"] = v
  BY WithOne DEF WellFormed, Word
<1>5. Meaning(c) = q.stored
  <2> HIDE DEF c
  <2>1. Meaning(c) = [k \in {<<"redirect_locations_", b.path>>} |-> <<v.text>>]
    <3>1. Meaning(c) = [k \in {<<"redirect_locations_", c.path>> : g \in DOMAIN c.given} |-> <<c.given["host"].text>>]
      BY <1>4, Meanings
    <3>2. {<<"redirect_locations_", c.path>> : g \in DOMAIN c.given} = {<<"redirect_locations_", b.path>>}
      BY <1>4
    <3> QED
      BY <1>4, <3>1, <3>2
  <2>2. DOMAIN p.stored = {}
    <3>1. p.stored = [k \in {<<"redirect_locations_", b.path>> : g \in DOMAIN b.given} |-> <<b.given["host"].text>>]
      BY Meanings DEF Knows
    <3> QED
      BY <3>1
  <2> QED
    BY <1>3, <2>1, <2>2 DEF Extend
<1>6. Due(c) = {}
  BY <1>4, Dues
<1> HIDE DEF q, c
<1>7. p.save # "location" /\ (p.save = "root" => v.quoted = TRUE)
  BY <1>1
<1>8. PICK r : r = Digest(p, v)
  OBVIOUS
<1>9. /\ r.save = "none" /\ r.expect = q.expect /\ r.stored = q.stored
      /\ r.location = q.location /\ r.host = q.host
  BY <1>3, <1>7, <1>8, DigestValue DEF q
<1>10. Knows(r, c)
  BY <1>1, <1>3, <1>4, <1>5, <1>6, <1>9 DEF Knows
<1> QED
  BY <1>8, <1>9, <1>10 DEF c

\* The host of a proxy location, which is kept until the port.
LEMMA ProxyHost ==
  ASSUME NEW p, Record(p), NEW b, WellFormed(b), b.type = "ProxyHandler", NEW v,
         v.text \notin Keyword \cup Type, v.quoted = TRUE, DOMAIN b.given = {}, 
         p.save = NextSave(p.expect, Word("host")), Knows(p, b)
  PROVE  Digest(p, v).save = "none" /\ Knows(Digest(p, v), With(b, <<Word("host"), v>>))
<1> DEFINE q == Save(p, v)
           c == With(b, <<Word("host"), v>>)
<1>1. p.expect = {"handler_type", "proxy_host"} /\ p.save = "proxy_host" /\ p.location = b.path
  <2>1. p.expect = {"handler_type", "proxy_host"}
    BY Dues DEF Knows
  <2> QED
    BY <2>1, Announced DEF Knows, ProxyStored
<1>2. q = [p EXCEPT !.host = v.text,
             !.expect = (@ \ {"handler_type", "proxy_host"}) \cup {"proxy_port"}]
  BY <1>1, BlogMembersAre DEF Save, Strip
<1>3. /\ Record(q) /\ q.expect = {"proxy_port"} /\ q.host = v.text
      /\ q.location = b.path /\ q.stored = p.stored
  BY <1>1, <1>2 DEF Record
<1>4. /\ c.type = "ProxyHandler" /\ c.path = b.path /\ DOMAIN c.given = {"host"}
      /\ c.given["host"] = v
  BY WithOne DEF WellFormed, Word
<1>5. Meaning(c) = q.stored
  <2>1. Meaning(c) = <<>> /\ Meaning(b) = <<>>
    BY <1>4, Meanings
  <2> QED
    BY <1>3, <2>1 DEF Knows
<1>6. Due(c) = {"proxy_port"}
  BY <1>4, Dues
<1> HIDE DEF q, c
<1>7. p.save # "location" /\ (p.save = "root" => v.quoted = TRUE)
  BY <1>1
<1>8. PICK r : r = Digest(p, v)
  OBVIOUS
<1>9. /\ r.save = "none" /\ r.expect = q.expect /\ r.stored = q.stored
      /\ r.location = q.location /\ r.host = q.host
  BY <1>3, <1>7, <1>8, DigestValue DEF q
<1>10. Knows(r, c)
  BY <1>1, <1>3, <1>4, <1>5, <1>6, <1>9 DEF Knows
<1> QED
  BY <1>8, <1>9, <1>10 DEF c

\* The port of a proxy location, with which it is stored.
LEMMA ProxyPortValue ==
  ASSUME NEW p, Record(p), NEW b, WellFormed(b), b.type = "ProxyHandler", NEW v,
         v.text \notin Keyword \cup Type, ProxyPort(v) = "80", DOMAIN b.given = {"host"}, 
         p.save = NextSave(p.expect, Word("port")), Knows(p, b)
  PROVE  Digest(p, v).save = "none" /\ Knows(Digest(p, v), With(b, <<Word("port"), v>>))
<1> DEFINE q == Save(p, v)
           c == With(b, <<Word("port"), v>>)
<1>1. /\ p.expect = {"proxy_port"} /\ p.save = "proxy_port" /\ p.location = b.path
      /\ p.host = b.given["host"].text
  <2>1. p.expect = {"proxy_port"}
    BY Dues DEF Knows
  <2> QED
    BY <2>1, Announced DEF Knows, ProxyStored
<1>2. q = [Put(p, "proxy_locations_", <<p.host, "80">>) EXCEPT !.location = ""]
  BY <1>1, BlogMembersAre DEF Save
<1>3. /\ Record(q) /\ q.expect = {"proxy_port"} /\ q.host = p.host
      /\ q.stored = Extend(p.stored, <<"proxy_locations_", b.path>>, <<p.host, "80">>)
  <2>1. Put(p, "proxy_locations_", <<p.host, "80">>) =
          [p EXCEPT !.stored = Extend(p.stored, <<"proxy_locations_", b.path>>, <<p.host, "80">>)]
    BY <1>1 DEF Put, Record
  <2> QED
    BY <1>1, <1>2, <2>1 DEF Record
<1>4. /\ c.type = "ProxyHandler" /\ c.path = b.path /\ DOMAIN c.given = {"host", "port"}
      /\ c.given["host"] = b.given["host"]
  BY WithOne DEF WellFormed, Word
<1>5. Meaning(c) = q.stored
  <2> HIDE DEF c
  <2>1. Meaning(c) = Extend(<<>>, <<"proxy_locations_", b.path>>, <<p.host, "80">>)
    <3>1. Meaning(c) = Extend(<<>>, <<"proxy_locations_", c.path>>, <<c.given["host"].text, "80">>)
      BY <1>4, Meanings
    <3> QED
      BY <1>1, <1>4, <3>1
  <2>2. p.stored = <<>>
    BY Meanings DEF Knows
  <2> QED
    BY <1>3, <2>1, <2>2
<1>6. Due(c) = {"proxy_port"} /\ ProxyStored(c)
  BY <1>4, Dues DEF ProxyStored
<1> HIDE DEF q, c
<1>7. p.save # "location" /\ (p.save = "root" => v.quoted = TRUE)
  BY <1>1
<1>8. PICK r : r = Digest(p, v)
  OBVIOUS
<1>9. /\ r.save = "none" /\ r.expect = q.expect /\ r.stored = q.stored
      /\ r.location = q.location /\ r.host = q.host
  BY <1>3, <1>7, <1>8, DigestValue DEF q
<1>10. Knows(r, c)
  BY <1>1, <1>3, <1>4, <1>5, <1>6, <1>9 DEF Knows
<1> QED
  BY <1>8, <1>9, <1>10 DEF c

\* One of the values of a blog location, in any order.
LEMMA BlogValue ==
  ASSUME NEW p, Record(p), NEW b, WellFormed(b), b.type = "BlogHandler", NEW v,
         v.text \notin Keyword \cup Type, v.quoted = TRUE,
         NEW g \in DOMAIN BlogMember, g \notin DOMAIN b.given,
         p.save = NextSave(p.expect, Word(g)), Knows(p, b)
  PROVE  Digest(p, v).save = "none" /\ Knows(Digest(p, v), With(b, <<Word(g), v>>))
<1> DEFINE q == Save(p, v)
           c == With(b, <<Word(g), v>>)
           m == BlogMember[g]
<1>1. p.expect = {"handler_type", "blog_info"} /\ p.save = m /\ p.location = b.path
  <2>1. p.expect = {"handler_type", "blog_info"}
    BY Dues DEF Knows
  <2> QED
    BY <2>1, Announced DEF Knows, ProxyStored
<1>2. m \in BlogMembers
  BY DEF BlogMembers
<1>3. q = [p EXCEPT !.stored = Extend(p.stored, <<m, b.path>>, <<v.text>>)]
  <2>1. q = Put(p, m, <<v.text>>)
    BY <1>1, <1>2, BlogMembersAre DEF Save, Strip
  <2> QED
    BY <1>1, <2>1 DEF Put, Record
<1>4. /\ Record(q) /\ q.expect = {"handler_type", "blog_info"} /\ q.location = b.path
      /\ q.stored = Extend(p.stored, <<m, b.path>>, <<v.text>>)
  BY <1>1, <1>3 DEF Record
<1>5. /\ c.type = "BlogHandler" /\ c.path = b.path /\ DOMAIN c.given = DOMAIN b.given \cup {g}
      /\ c.given[g] = v /\ \A k \in DOMAIN b.given : c.given[k] = b.given[k]
  BY WithOne DEF WellFormed, Word
<1>6. Meaning(c) = q.stored
  <2>1. \A j, k \in DOMAIN BlogMember : BlogMember[j] = BlogMember[k] => j = k
    BY DEF BlogMember
  <2>2. DOMAIN c.given \subseteq DOMAIN BlogMember
    BY <1>5 DEF WellFormed
  <2> HIDE DEF c
  <2>3. /\ Meaning(c) = [k \in {<<BlogMember[j], b.path>> : j \in DOMAIN c.given} |->
              <<c.given[CHOOSE j \in DOMAIN c.given : BlogMember[j] = k[1]].text>>]
        /\ p.stored = [k \in {<<BlogMember[j], b.path>> : j \in DOMAIN b.given} |->
              <<b.given[CHOOSE j \in DOMAIN b.given : BlogMember[j] = k[1]].text>>]
    <3>1. Meaning(c) = [k \in {<<BlogMember[j], c.path>> : j \in DOMAIN c.given} |->
              <<c.given[CHOOSE j \in DOMAIN c.given : BlogMember[j] = k[1]].text>>]
      BY <1>5, Meanings
    <3>2. p.stored = [k \in {<<BlogMember[j], b.path>> : j \in DOMAIN b.given} |->
              <<b.given[CHOOSE j \in DOMAIN b.given : BlogMember[j] = k[1]].text>>]
      BY Meanings DEF Knows
    <3>3. c.path = b.path
      BY <1>5
    <3> QED
      BY <3>1, <3>2, <3>3
  <2>4. \A j \in DOMAIN c.given : (CHOOSE i \in DOMAIN c.given : BlogMember[i] = BlogMember[j]) = j
    BY <2>1, <2>2
  <2>5. \A j \in DOMAIN b.given : (CHOOSE i \in DOMAIN b.given : BlogMember[i] = BlogMember[j]) = j
    BY <1>5, <2>1, <2>2
  <2>6. \A j : <<BlogMember[j], b.path>>[1] = BlogMember[j]
    OBVIOUS
  <2>7. /\ DOMAIN Meaning(c) = {<<BlogMember[j], b.path>> : j \in DOMAIN c.given}
        /\ DOMAIN p.stored = {<<BlogMember[j], b.path>> : j \in DOMAIN b.given}
    BY <2>3
  <2>8. \A j \in DOMAIN c.given : Meaning(c)[<<BlogMember[j], b.path>>] = <<c.given[j].text>>
    <3>1. SUFFICES ASSUME NEW j \in DOMAIN c.given, NEW k, k = <<BlogMember[j], b.path>>
                   PROVE  Meaning(c)[k] = <<c.given[j].text>>
      OBVIOUS
    <3>2. k \in {<<BlogMember[i], b.path>> : i \in DOMAIN c.given} /\ k[1] = BlogMember[j]
      BY <2>6, <3>1
    <3>3. Meaning(c)[k] = <<c.given[CHOOSE i \in DOMAIN c.given : BlogMember[i] = k[1]].text>>
      BY <2>3, <3>2
    <3>4. (CHOOSE i \in DOMAIN c.given : BlogMember[i] = k[1]) = j
      BY <2>4, <3>2
    <3> QED
      BY <3>3, <3>4
  <2>9. \A j \in DOMAIN b.given : p.stored[<<BlogMember[j], b.path>>] = <<b.given[j].text>>
    <3>1. SUFFICES ASSUME NEW j \in DOMAIN b.given, NEW k, k = <<BlogMember[j], b.path>>
                   PROVE  p.stored[k] = <<b.given[j].text>>
      OBVIOUS
    <3>2. k \in {<<BlogMember[i], b.path>> : i \in DOMAIN b.given} /\ k[1] = BlogMember[j]
      BY <2>6, <3>1
    <3>3. p.stored[k] = <<b.given[CHOOSE i \in DOMAIN b.given : BlogMember[i] = k[1]].text>>
      BY <2>3, <3>2
    <3>4. (CHOOSE i \in DOMAIN b.given : BlogMember[i] = k[1]) = j
      BY <2>5, <3>2
    <3> QED
      BY <3>3, <3>4
  <2>10. DOMAIN q.stored = DOMAIN Meaning(c)
    BY <1>4, <1>5, <2>7 DEF Extend
  <2>11. ASSUME NEW k \in DOMAIN Meaning(c) PROVE q.stored[k] = Meaning(c)[k]
    <3>1. PICK j \in DOMAIN c.given : k = <<BlogMember[j], b.path>>
      BY <2>7
    <3>2. CASE j = g
      BY <1>4, <1>5, <2>8, <2>10, <3>1, <3>2 DEF Extend
    <3>3. CASE j # g
      <4>1. j \in DOMAIN b.given /\ c.given[j] = b.given[j] /\ k # <<m, b.path>>
        BY <1>5, <2>1, <2>2, <3>1, <3>3
      <4>2. Meaning(c)[k] = <<c.given[j].text>>
        BY <2>8, <3>1
      <4>3. p.stored[k] = <<b.given[j].text>>
        BY <2>9, <3>1, <4>1
      <4>4. q.stored[k] = p.stored[k]
        BY <1>4, <2>10, <4>1 DEF Extend
      <4> QED
        BY <4>1, <4>2, <4>3, <4>4
    <3> QED
      BY <3>2, <3>3
  <2>12. /\ Meaning(c) = [k \in DOMAIN Meaning(c) |-> Meaning(c)[k]]
         /\ q.stored = [k \in DOMAIN q.stored |-> q.stored[k]]
    BY <1>4, <2>3 DEF Extend
  <2> QED
    BY <2>10, <2>11, <2>12
<1>7. Due(c) = {"handler_type", "blog_info"}
  BY <1>5, Dues
<1>8. m # "location" /\ m # "root"
  BY <1>2, BlogMembersAre
<1> HIDE DEF q, c
<1>9. PICK r : r = Digest(p, v)
  OBVIOUS
<1>10. /\ r.save = "none" /\ r.expect = q.expect /\ r.stored = q.stored
       /\ r.location = q.location /\ r.host = q.host
  BY <1>1, <1>4, <1>8, <1>9, DigestValue DEF q
<1>11. Knows(r, c)
  BY <1>4, <1>5, <1>6, <1>7, <1>10 DEF Knows
<1> QED
  BY <1>9, <1>10, <1>11 DEF c

\* The value of a statement that belongs in the block.
LEMMA ValueRead ==
  ASSUME NEW p, Record(p), NEW b, WellFormed(b), NEW a \in KeywordWords, NEW v,
         v.text \notin Keyword \cup Type, Belongs(<<a, v>>, b),
         p.save = NextSave(p.expect, a), Knows(p, b)
  PROVE  Digest(p, v).save = "none" /\ Knows(Digest(p, v), With(b, <<a, v>>))
<1>1. a = Word(a.text) /\ <<a, v>>[1] = a /\ <<a, v>>[2] = v
  BY WordsDiffer
<1>2. a.text \notin DOMAIN b.given
  BY <1>1 DEF Belongs
<1>3. CASE b.type = "StaticHandler" /\ a.text = "root" /\ v.quoted
  BY <1>1, <1>2, <1>3, StaticValue DEF WellFormed
<1>4. CASE b.type = "RedirectHandler" /\ a.text = "host" /\ v.quoted
  BY <1>1, <1>2, <1>4, RedirectValue DEF WellFormed
<1>5. CASE b.type = "ProxyHandler" /\ a.text = "host" /\ v.quoted
  BY <1>1, <1>2, <1>5, ProxyHost DEF WellFormed
<1>6. CASE /\ b.type = "ProxyHandler" /\ a.text = "port" /\ v = Word("80")
           /\ "host" \in DOMAIN b.given
  <2>1. DOMAIN b.given = {"host"} /\ ProxyPort(v) = "80"
    BY <1>2, <1>6 DEF WellFormed, ProxyPort
  <2> QED
    BY <1>1, <1>6, <2>1, ProxyPortValue
<1>7. CASE b.type = "BlogHandler" /\ a.text \in DOMAIN BlogMember /\ v.quoted
  BY <1>1, <1>2, <1>7, BlogValue
<1> QED
  BY <1>1, <1>3, <1>4, <1>5, <1>6, <1>7 DEF Belongs

\* A block with a statement that belongs in it.
LEMMA WithWellFormed ==
  ASSUME NEW b, WellFormed(b), NEW a, NEW v, Belongs(<<a, v>>, b)
  PROVE  WellFormed(With(b, <<a, v>>))
<1>1. <<a, v>>[1] = a /\ <<a, v>>[2] = v
  OBVIOUS
<1>2. PICK c : c = With(b, <<a, v>>)
  OBVIOUS
<1>3. /\ c.type = b.type /\ c.known = b.known /\ Block(c)
      /\ DOMAIN c.given = DOMAIN b.given \cup {a.text}
  BY <1>2, WithOne DEF WellFormed
<1>4. ExactType \cap {"StaticHandler", "RedirectHandler", "ProxyHandler", "BlogHandler"} = {}
  BY ConfigAssumption
<1>5. \/ b.type = "StaticHandler" /\ a.text = "root"
      \/ b.type = "RedirectHandler" /\ a.text = "host"
      \/ b.type = "ProxyHandler" /\ a.text = "host"
      \/ b.type = "ProxyHandler" /\ a.text = "port" /\ "host" \in DOMAIN b.given
      \/ b.type = "BlogHandler" /\ a.text \in DOMAIN BlogMember
  BY <1>1 DEF Belongs
<1> QED
  BY <1>2, <1>3, <1>4, <1>5 DEF WellFormed

-----------------------------------------------------------------------------
\* A word after a statement.
LEMMA NormalWords ==
  ASSUME NEW v \in Normal
  PROVE  v \in Quotes \/ v.quoted = FALSE
BY DEF Normal, Quotes, Word

\* A tuple of one more element.
LEMMA AppendIs ==
  ASSUME NEW S, NEW s \in Seq(S), NEW t \in Seq(S), NEW y \in S, Len(t) = Len(s) + 1,
         \A i \in 1..Len(s) : t[i] = s[i], t[Len(s) + 1] = y
  PROVE  Append(s, y) = t
<1>1. PICK u : u = Append(s, y)
  OBVIOUS
<1>2. u \in Seq(S) /\ Len(u) = Len(s) + 1
  BY <1>1, AppendProperties
<1>3. PICK n \in Nat : n = Len(s)
  BY LenProperties
<1>4. \A i \in 1..n : u[i] = s[i]
  BY <1>1, <1>3, AppendProperties
<1>5. u[n + 1] = y
  BY <1>1, <1>3, AppendProperties
<1>6. \A i \in 1..n + 1 : u[i] = t[i]
  BY <1>3, <1>4, <1>5
<1> QED
  BY <1>1, <1>2, <1>3, <1>6, SeqEqual

\* Short sequences with one element more.
LEMMA Appends ==
  ASSUME NEW v
  PROVE  /\ Append(<<>>, v) = <<v>>
         /\ \A x : Append(<<x>>, v) = <<x, v>>
         /\ \A x, y : Append(<<x, y>>, v) = <<x, y, v>>
         /\ \A x, y, z : Append(<<x, y, z>>, v) = <<x, y, z, v>>
<1>1. Append(<<>>, v) = <<v>>
  OBVIOUS
<1>2. ASSUME NEW x PROVE Append(<<x>>, v) = <<x, v>>
  <2>1. /\ <<x>> \in Seq({x, v}) /\ <<x, v>> \in Seq({x, v}) /\ Len(<<x>>) = 1
        /\ Len(<<x, v>>) = 2 /\ <<x, v>>[1] = <<x>>[1] /\ <<x, v>>[2] = v
    OBVIOUS
  <2>2. PICK s \in Seq({x, v}), t \in Seq({x, v}) : s = <<x>> /\ t = <<x, v>>
    BY <2>1
  <2>3. Len(s) = 1 /\ Len(t) = 2 /\ t[2] = v /\ \A i \in 1..1 : t[i] = s[i]
    BY <2>1, <2>2
  <2>4. Append(s, v) = t
    <3>1. Len(t) = Len(s) + 1 /\ t[Len(s) + 1] = v /\ \A i \in 1..Len(s) : t[i] = s[i]
      BY <2>3
    <3>2. v \in {x, v}
      OBVIOUS
    <3> QED
      BY <3>1, <3>2, AppendIs
  <2> QED
    BY <2>2, <2>4
<1>3. ASSUME NEW x, NEW y PROVE Append(<<x, y>>, v) = <<x, y, v>>
  <2>1. /\ <<x, y>> \in Seq({x, y, v}) /\ <<x, y, v>> \in Seq({x, y, v}) /\ Len(<<x, y>>) = 2
        /\ Len(<<x, y, v>>) = 3 /\ <<x, y, v>>[1] = <<x, y>>[1] /\ <<x, y, v>>[2] = <<x, y>>[2]
        /\ <<x, y, v>>[3] = v
    OBVIOUS
  <2>2. PICK s \in Seq({x, y, v}), t \in Seq({x, y, v}) : s = <<x, y>> /\ t = <<x, y, v>>
    BY <2>1
  <2>3. Len(s) = 2 /\ Len(t) = 3 /\ t[3] = v /\ \A i \in 1..2 : t[i] = s[i]
    BY <2>1, <2>2
  <2>4. Append(s, v) = t
    <3>1. Len(t) = Len(s) + 1 /\ t[Len(s) + 1] = v /\ \A i \in 1..Len(s) : t[i] = s[i]
      BY <2>3
    <3>2. v \in {x, y, v}
      OBVIOUS
    <3> QED
      BY <3>1, <3>2, AppendIs
  <2> QED
    BY <2>2, <2>4
<1>4. ASSUME NEW x, NEW y, NEW z PROVE Append(<<x, y, z>>, v) = <<x, y, z, v>>
  <2>1. /\ <<x, y, z>> \in Seq({x, y, z, v}) /\ <<x, y, z, v>> \in Seq({x, y, z, v})
        /\ Len(<<x, y, z>>) = 3 /\ Len(<<x, y, z, v>>) = 4
        /\ <<x, y, z, v>>[1] = <<x, y, z>>[1] /\ <<x, y, z, v>>[2] = <<x, y, z>>[2]
        /\ <<x, y, z, v>>[3] = <<x, y, z>>[3] /\ <<x, y, z, v>>[4] = v
    OBVIOUS
  <2>2. PICK s \in Seq({x, y, z, v}), t \in Seq({x, y, z, v}) : s = <<x, y, z>> /\ t = <<x, y, z, v>>
    BY <2>1
  <2>3. Len(s) = 3 /\ Len(t) = 4 /\ t[4] = v /\ \A i \in 1..3 : t[i] = s[i]
    BY <2>1, <2>2
  <2>4. Append(s, v) = t
    <3>1. Len(t) = Len(s) + 1 /\ t[Len(s) + 1] = v /\ \A i \in 1..Len(s) : t[i] = s[i]
      BY <2>3
    <3>2. v \in {x, y, z, v}
      OBVIOUS
    <3> QED
      BY <3>1, <3>2, AppendIs
  <2> QED
    BY <2>2, <2>4
<1> QED
  BY <1>1, <1>2, <1>3, <1>4

\* What one more word makes of a statement.
LEMMA Statements ==
  ASSUME NEW v \in Normal
  PROVE  /\ More(<<>>, v) = IF v \in KeywordWords THEN <<v>> ELSE Improper
         /\ More(Improper, v) = Improper
         /\ \A a \in KeywordWords \ {Word("location")} :
              More(<<a>>, v) = IF v.text \notin Keyword \cup Type THEN <<a, v>> ELSE Improper
         /\ More(<<Word("location")>>, v) =
              IF v \in Quotes THEN <<Word("location"), v>> ELSE Improper
         /\ \A a \in KeywordWords \ {Word("location")} : \A x : More(<<a, x>>, v) = Improper
         /\ \A q \in Quotes : More(<<Word("location"), q>>, v) =
              IF v \in TypeWords THEN <<Word("location"), q, v>> ELSE Improper
         /\ \A q, w : More(<<Word("location"), q, w>>, v) = Improper
<1> DEFINE loc == Word("location")
<1>1. /\ Append(<<>>, v) = <<v>>
      /\ \A x : Append(<<x>>, v) = <<x, v>>
      /\ \A x, y : Append(<<x, y>>, v) = <<x, y, v>>
      /\ \A x, y, z : Append(<<x, y, z>>, v) = <<x, y, z, v>>
  BY Appends
<1>2. /\ \A x : Len(<<x>>) = 1 /\ <<x>>[1] = x
      /\ \A x, y : Len(<<x, y>>) = 2 /\ <<x, y>>[1] = x /\ <<x, y>>[2] = y
      /\ \A x, y, z : /\ Len(<<x, y, z>>) = 3 /\ <<x, y, z>>[1] = x /\ <<x, y, z>>[2] = y
                      /\ <<x, y, z>>[3] = z
  OBVIOUS
<1>3. \A q, w : ~Proper(Append(<<loc, q, w>>, v))
  <2>1. \A q, w : Len(<<loc, q, w, v>>) = 4
    OBVIOUS
  <2> QED
    BY <1>1, <2>1 DEF Proper
<1>4. loc \in KeywordWords /\ Word("") \notin KeywordWords
  BY DEF KeywordWords, Keyword, Word
<1>5. \A x : Proper(<<x>>) <=> x \in KeywordWords
  BY <1>2 DEF Proper, KeywordWords
<1>6. \A x \in KeywordWords \ {loc} : Proper(<<x, v>>) <=> v.text \notin Keyword \cup Type
  BY <1>2 DEF Proper, KeywordWords
<1>7. Proper(<<loc, v>>) <=> v \in Quotes
  <2>1. v.quoted <=> v \in Quotes
    BY NormalWords, WordsDiffer, Zenon
  <2>2. PICK s : s = <<loc, v>>
    OBVIOUS
  <2>3. /\ Len(s) \in 1..3 /\ Len(s) > 1 /\ ~(Len(s) > 2)
        /\ s[1] = Word("location") /\ s[1] \in KeywordWords /\ s[2] = v
    <3>1. Len(s) = 2 /\ s[1] = loc /\ s[2] = v
      BY <2>2
    <3>2. Len(s) \in 1..3 /\ Len(s) > 1 /\ ~(Len(s) > 2)
      BY <3>1
    <3> QED
      BY <1>4, <3>1, <3>2
  <2>4. Proper(s) <=> v.quoted
    BY <2>3, Zenon DEF Proper, KeywordWords
  <2> QED
    BY <2>1, <2>2, <2>4
<1>8. \A x \in KeywordWords \ {loc} : \A y : ~Proper(<<x, y, v>>)
  BY <1>2 DEF Proper
<1>9. \A q \in Quotes : Proper(<<loc, q, v>>) <=> v \in TypeWords
  <2> SUFFICES ASSUME NEW q \in Quotes PROVE Proper(<<loc, q, v>>) <=> v \in TypeWords
    OBVIOUS
  <2>1. q.quoted
    BY WordsDiffer, Zenon
  <2>2. PICK s : s = <<loc, q, v>>
    OBVIOUS
  <2>3. /\ Len(s) \in 1..3 /\ Len(s) > 1 /\ Len(s) > 2
        /\ s[1] = Word("location") /\ s[1] \in KeywordWords /\ s[2] = q /\ s[3] = v
    <3>1. Len(s) = 3 /\ s[1] = loc /\ s[2] = q /\ s[3] = v
      BY <2>2
    <3>2. Len(s) \in 1..3 /\ Len(s) > 1 /\ Len(s) > 2
      BY <3>1
    <3> QED
      BY <1>4, <3>1, <3>2
  <2>4. Proper(s) <=> v \in TypeWords
    BY <2>1, <2>3, Zenon DEF Proper, KeywordWords, TypeWords
  <2> QED
    BY <2>2, <2>4
<1>10. ~Proper(Append(Improper, v))
  <2>1. Append(Improper, v) = <<Word(""), v>> /\ <<Word(""), v>>[1] = Word("")
    BY <1>1 DEF Improper
  <2> QED
    BY <1>4, <2>1 DEF Proper, KeywordWords
<1>11. More(<<>>, v) = IF v \in KeywordWords THEN <<v>> ELSE Improper
  BY <1>1, <1>5 DEF More
<1>12. More(Improper, v) = Improper
  BY <1>10 DEF More
<1>13. \A a \in KeywordWords \ {loc} :
              More(<<a>>, v) = IF v.text \notin Keyword \cup Type THEN <<a, v>> ELSE Improper
  BY <1>1, <1>6 DEF More
<1>14. More(<<loc>>, v) = IF v \in Quotes THEN <<loc, v>> ELSE Improper
  BY <1>1, <1>7 DEF More
<1>15. \A a \in KeywordWords \ {loc} : \A x : More(<<a, x>>, v) = Improper
  BY <1>1, <1>8 DEF More
<1>16. \A q \in Quotes : More(<<loc, q>>, v) =
              IF v \in TypeWords THEN <<loc, q, v>> ELSE Improper
  BY <1>1, <1>9 DEF More
<1>17. \A q, w : More(<<loc, q, w>>, v) = Improper
  BY <1>3 DEF More
<1> QED
  BY <1>11, <1>12, <1>13, <1>14, <1>15, <1>16, <1>17

-----------------------------------------------------------------------------
\* The shapes of statements exclude each other.
LEMMA Shapes ==
  /\ \A x : <<x>> # <<>>
  /\ \A x, y : <<x>> = <<y>> <=> x = y
  /\ \A x, y, z : <<y, z>> # <<>> /\ <<x>> # <<y, z>>
  /\ \A u, v, x, y : <<u, v>> = <<x, y>> <=> u = x /\ v = y
  /\ \A u, v, x, y, z : <<x, y, z>> # <<>> /\ <<u>> # <<x, y, z>> /\ <<u, v>> # <<x, y, z>>
  /\ \A u, v, w, x, y, z : <<u, v, w>> = <<x, y, z>> <=> u = x /\ v = y /\ w = z
  /\ \A a \in KeywordWords : <<a>> # Improper
  /\ \A x, y : <<x, y>> # Improper
  /\ \A x, y, z : <<x, y, z>> # Improper
  /\ Improper # <<>>
<1>1. /\ Len(<<>>) = 0 /\ \A x : Len(<<x>>) = 1 /\ <<x>>[1] = x
      /\ \A x, y : Len(<<x, y>>) = 2 /\ <<x, y>>[1] = x /\ <<x, y>>[2] = y
      /\ \A x, y, z : Len(<<x, y, z>>) = 3 /\ <<x, y, z>>[1] = x /\ <<x, y, z>>[2] = y
                        /\ <<x, y, z>>[3] = z
  OBVIOUS
<1>2. Word("") \notin KeywordWords
  BY DEF KeywordWords, Keyword, Word
<1>3. Improper = <<Word("")>>
  BY DEF Improper
<1>4. \A x : <<x>> # <<>>
  BY <1>1
<1>5. \A x, y : <<x>> = <<y>> <=> x = y
  BY <1>1
<1>6. \A x, y, z : <<y, z>> # <<>> /\ <<x>> # <<y, z>>
  BY <1>1
<1>7. \A u, v, x, y : <<u, v>> = <<x, y>> <=> u = x /\ v = y
  BY <1>1
<1>8. \A u, v, x, y, z : <<x, y, z>> # <<>> /\ <<u>> # <<x, y, z>> /\ <<u, v>> # <<x, y, z>>
  BY <1>1
<1>9. \A u, v, w, x, y, z : <<u, v, w>> = <<x, y, z>> <=> u = x /\ v = y /\ w = z
  BY <1>1
<1> QED
  BY <1>2, <1>3, <1>4, <1>5, <1>6, <1>7, <1>8, <1>9

\* The path of a location is no other statement.
LEMMA PathShape ==
  ASSUME NEW q, NEW s, s = <<Word("location"), q>>
  PROVE  /\ s # <<>> /\ s # Improper /\ \A a \in KeywordWords : s # <<a>>
         /\ \A a \in KeywordWords \ {Word("location")} : \A v : s # <<a, v>>
         /\ \A x : s = <<Word("location"), x>> <=> q = x
         /\ \A x, w : s # <<Word("location"), x, w>>
<1>1. s # <<>>
  BY Shapes
<1>2. s # Improper
  BY Shapes
<1>3. \A x, y, z : s # <<x, y, z>>
  BY Shapes
<1>4. \A x : s # <<x>>
  BY Shapes
<1>5. \A x, y : s = <<x, y>> <=> Word("location") = x /\ q = y
  BY Shapes, Zenon
<1> QED
  BY <1>1, <1>2, <1>3, <1>4, <1>5

\* The head of a location is no other statement.
LEMMA HeadShape ==
  ASSUME NEW q, NEW w, NEW s, s = <<Word("location"), q, w>>
  PROVE  /\ s # <<>> /\ s # Improper /\ \A a \in KeywordWords : s # <<a>>
         /\ \A a, v : s # <<a, v>>
         /\ \A x, y : s = <<Word("location"), x, y>> <=> q = x /\ w = y
<1>1. s # <<>>
  BY Shapes
<1>2. s # Improper
  BY Shapes
<1>3. (\A x : s # <<x>>) /\ (\A x, y : s # <<x, y>>)
  BY Shapes
<1>4. \A x, y, z : s = <<x, y, z>> <=> Word("location") = x /\ q = y /\ w = z
  BY Shapes, Zenon
<1> QED
  BY <1>1, <1>2, <1>3, <1>4

\* What there is to know of a statement, by its shape.
LEMMA OutsideShapes ==
  ASSUME NEW p, NEW b, Block(b), b.type = "none", b.path = ""
  PROVE  /\ (p.expect = {} /\ p.save = "none" /\ (b.known => p.stored = Meaning(b)))
              <=> Outside(p, <<>>, b)
         /\ (p.expect = {} /\ p.save \in {"none", "port"}) <=> Outside(p, Improper, b)
         /\ \A a \in KeywordWords :
              (/\ p.expect = {} /\ p.stored = <<>>
               /\ p.save = IF a.text \in {"port", "location"} THEN a.text ELSE "none")
              <=> Outside(p, <<a>>, b)
         /\ \A a \in KeywordWords \ {Word("location")}, v \in Normal :
              (p.expect = {} /\ p.save = "none" /\ p.stored = Meaning(With(NoBlock, <<a, v>>)))
              <=> Outside(p, <<a, v>>, b)
         /\ \A q \in Quotes :
              (p.expect = {"handler_type"} /\ p.save = "none" /\ p.stored = <<>> /\ p.location = q.text)
              <=> Outside(p, <<Word("location"), q>>, b)
         /\ \A q \in Quotes, w \in TypeWords :
              (p.save = "none" /\ Knows(p, HeadBlock(<<Word("location"), q, w>>)))
              <=> Outside(p, <<Word("location"), q, w>>, b)
<1>1. (p.expect = {} /\ p.save = "none" /\ (b.known => p.stored = Meaning(b))) <=> Outside(p, <<>>, b)
  BY Shapes, Zenon DEF Outside
<1>2. (p.expect = {} /\ p.save \in {"none", "port"}) <=> Outside(p, Improper, b)
  <2>1. PICK s : s = Improper
    OBVIOUS
  <2>2. /\ s # <<>> /\ \A a \in KeywordWords : s # <<a>>
        /\ \A x, y : s # <<x, y>>
        /\ \A x, y, z : s # <<x, y, z>>
    <3>1. s # <<>>
      BY <2>1, Shapes
    <3>2. \A a \in KeywordWords : s # <<a>>
      BY <2>1, Shapes
    <3>3. \A x, y : s # <<x, y>>
      <4> SUFFICES ASSUME NEW x, NEW y, Improper = <<x, y>> PROVE FALSE
        BY <2>1
      <4> QED
        BY Shapes
    <3>4. \A x, y, z : s # <<x, y, z>>
      <4> SUFFICES ASSUME NEW x, NEW y, NEW z, Improper = <<x, y, z>> PROVE FALSE
        BY <2>1
      <4> QED
        BY Shapes
    <3> QED
      BY <3>1, <3>2, <3>3, <3>4
  <2> QED
    BY <2>1, <2>2 DEF Outside
<1>3. ASSUME NEW a \in KeywordWords
      PROVE  (/\ p.expect = {} /\ p.stored = <<>>
              /\ p.save = IF a.text \in {"port", "location"} THEN a.text ELSE "none")
              <=> Outside(p, <<a>>, b)
  BY Shapes DEF Outside
<1>4. ASSUME NEW a \in KeywordWords \ {Word("location")}, NEW v \in Normal
      PROVE  (p.expect = {} /\ p.save = "none" /\ p.stored = Meaning(With(NoBlock, <<a, v>>)))
              <=> Outside(p, <<a, v>>, b)
  BY Shapes DEF Outside
<1>5. ASSUME NEW q \in Quotes
      PROVE  (p.expect = {"handler_type"} /\ p.save = "none" /\ p.stored = <<>> /\ p.location = q.text)
              <=> Outside(p, <<Word("location"), q>>, b)
  <2>1. PICK s : s = <<Word("location"), q>>
    OBVIOUS
  <2>2. /\ s # <<>> /\ s # Improper /\ \A a \in KeywordWords : s # <<a>>
        /\ \A a \in KeywordWords \ {Word("location")} : \A v : s # <<a, v>>
        /\ \A x : s = <<Word("location"), x>> <=> q = x
        /\ \A x, w : s # <<Word("location"), x, w>>
    BY <2>1, PathShape, Zenon
  <2> QED
    BY <2>1, <2>2 DEF Outside
<1>6. ASSUME NEW q \in Quotes, NEW w \in TypeWords
      PROVE  (p.save = "none" /\ Knows(p, HeadBlock(<<Word("location"), q, w>>)))
              <=> Outside(p, <<Word("location"), q, w>>, b)
  <2>1. PICK s : s = <<Word("location"), q, w>>
    OBVIOUS
  <2>2. /\ s # <<>> /\ s # Improper /\ \A a \in KeywordWords : s # <<a>>
        /\ \A a, v : s # <<a, v>>
        /\ \A x, y : s = <<Word("location"), x, y>> <=> q = x /\ w = y
    BY <2>1, HeadShape, Zenon
  <2> QED
    BY <2>1, <2>2 DEF Outside
<1> QED
  BY <1>1, <1>2, <1>3, <1>4, <1>5, <1>6

\* The same for a statement in a location block.
LEMMA InsideShapes ==
  ASSUME NEW p, NEW b, WellFormed(b)
  PROVE  /\ (p.save = "none" /\ Knows(p, b)) <=> Inside(p, <<>>, b)
         /\ Inside(p, Improper, b)
         /\ \A a \in KeywordWords \ {Word("location")} :
              (p.save = NextSave(p.expect, a) /\ Knows(p, b)) <=> Inside(p, <<a>>, b)
         /\ Inside(p, <<Word("location")>>, b)
         /\ \A a \in KeywordWords \ {Word("location")}, v \in Normal :
              (Belongs(<<a, v>>, b) => p.save = "none" /\ Knows(p, With(b, <<a, v>>)))
              <=> Inside(p, <<a, v>>, b)
         /\ \A q : Inside(p, <<Word("location"), q>>, b)
         /\ \A q, w : Inside(p, <<Word("location"), q, w>>, b)
<1>1. (p.save = "none" /\ Knows(p, b)) <=> Inside(p, <<>>, b)
  BY Shapes, Zenon DEF Inside
<1>2. Inside(p, Improper, b)
  BY Shapes DEF Inside
<1>3. ASSUME NEW a \in KeywordWords \ {Word("location")}
      PROVE  (p.save = NextSave(p.expect, a) /\ Knows(p, b)) <=> Inside(p, <<a>>, b)
  BY Shapes DEF Inside
<1>4. Inside(p, <<Word("location")>>, b)
  BY Shapes DEF Inside
<1>5. ASSUME NEW a \in KeywordWords \ {Word("location")}, NEW v \in Normal
      PROVE  (Belongs(<<a, v>>, b) => p.save = "none" /\ Knows(p, With(b, <<a, v>>)))
              <=> Inside(p, <<a, v>>, b)
  BY Shapes DEF Inside
<1>6. \A q : Inside(p, <<Word("location"), q>>, b)
  BY Shapes DEF Inside
<1>7. \A q, w : Inside(p, <<Word("location"), q, w>>, b)
  BY Shapes DEF Inside
<1> QED
  BY <1>1, <1>2, <1>3, <1>4, <1>5, <1>6, <1>7

-----------------------------------------------------------------------------
\* A block before its first statement.
LEMMA NothingGiven ==
  ASSUME NEW b, DOMAIN b.given = {}, b.type \in Type
  PROVE  Meaning(b) = IF b.type \in ExactType THEN Extend(<<>>, <<b.type, b.path>>, <<>>) ELSE <<>>
<1>1. CASE b.type \in ExactType
  <2>1. Meaning(b) = Extend(<<>>, <<b.type, b.path>>, <<>>)
    BY <1>1, Meanings
  <2> QED
    BY <1>1, <2>1
<1>2. CASE b.type \notin ExactType
  <2>1. PICK f : f = Meaning(b)
    OBVIOUS
  <2>2. CASE b.type = "StaticHandler"
    <3>1. f = [k \in {<<"static_locations_", b.path>> : g \in DOMAIN b.given} |-> <<b.given["root"].text>>]
      BY <2>1, <2>2, Meanings
    <3>2. f = <<>>
      BY <3>1
    <3> QED
      BY <1>2, <2>1, <3>2
  <2>3. CASE b.type = "RedirectHandler"
    <3>1. f = [k \in {<<"redirect_locations_", b.path>> : g \in DOMAIN b.given} |-> <<b.given["host"].text>>]
      BY <2>1, <2>3, Meanings
    <3>2. f = <<>>
      BY <3>1
    <3> QED
      BY <1>2, <2>1, <3>2
  <2>4. CASE b.type = "ProxyHandler"
    <3>1. f = <<>>
      BY <2>1, <2>4, Meanings
    <3> QED
      BY <1>2, <2>1, <3>1
  <2>5. CASE b.type = "BlogHandler"
    <3>1. f = [k \in {<<BlogMember[g], b.path>> : g \in DOMAIN b.given} |->
                 <<b.given[CHOOSE g \in DOMAIN b.given : BlogMember[g] = k[1]].text>>]
      BY <2>1, <2>5, Meanings
    <3>2. {<<BlogMember[g], b.path>> : g \in DOMAIN b.given} = {}
      OBVIOUS
    <3>3. f = <<>>
      BY <3>1, <3>2
    <3> QED
      BY <1>2, <2>1, <3>3
  <2> QED
    BY <1>2, <2>2, <2>3, <2>4, <2>5 DEF Type
<1> QED
  BY <1>1, <1>2

\* The block that a head begins.
LEMMA HeadBlocks ==
  ASSUME NEW q \in Quotes, NEW w \in TypeWords
  PROVE  LET h == HeadBlock(<<Word("location"), q, w>>) IN
         /\ WellFormed(h) /\ h.type = w.text /\ h.path = q.text
         /\ Due(h) = IF w.text \in ExactType THEN {} ELSE {"handler_type", Expects[w.text]}
         /\ Meaning(h) = IF w.text \in ExactType THEN Extend(<<>>, <<w.text, q.text>>, <<>>) ELSE <<>>
<1>1. PICK h : h = HeadBlock(<<Word("location"), q, w>>)
  OBVIOUS
<1>2. /\ h.type = w.text /\ h.path = q.text /\ h.given = <<>> /\ h.known = TRUE /\ Block(h)
  <2>1. <<Word("location"), q, w>>[2] = q /\ <<Word("location"), q, w>>[3] = w
    OBVIOUS
  <2>2. h = [type |-> w.text, path |-> q.text, given |-> <<>>, known |-> TRUE]
    BY <1>1, <2>1 DEF HeadBlock, NoBlock
  <2> QED
    BY <2>2 DEF Block
<1>3. DOMAIN h.given = {}
  BY <1>2
<1>4. w.text \in Type
  BY WordsDiffer
<1>5. WellFormed(h)
  BY <1>2, <1>3, <1>4 DEF WellFormed
<1>6. Due(h) = IF w.text \in ExactType THEN {} ELSE {"handler_type", Expects[w.text]}
  BY <1>2, <1>3, <1>4, Dues DEF Type, Expects
<1>7. Meaning(h) = IF w.text \in ExactType THEN Extend(<<>>, <<w.text, q.text>>, <<>>) ELSE <<>>
  BY <1>2, <1>3, <1>4, NothingGiven
<1> QED
  BY <1>1, <1>2, <1>5, <1>6, <1>7

\* What a statement outside of a block means.
LEMMA MeaningOfOne ==
  ASSUME NEW a \in KeywordWords, NEW v
  PROVE  Meaning(With(NoBlock, <<a, v>>)) =
           IF a.text = "port" /\ v \in ValidPort
           THEN Extend(<<>>, <<"port_number", "">>, <<"80">>) ELSE <<>>
<1>1. PICK c : c = With(NoBlock, <<a, v>>)
  OBVIOUS
<1>2. Block(NoBlock) /\ NoBlock.type = "none" /\ DOMAIN NoBlock.given = {}
  BY DEF Block, NoBlock
<1>3. c.type = "none" /\ DOMAIN c.given = {a.text} /\ c.given[a.text] = v
  BY <1>1, <1>2, WithOne
<1>4. Meaning(c) = IF "port" \in DOMAIN c.given /\ c.given["port"] \in ValidPort
                   THEN Extend(<<>>, <<"port_number", "">>, <<"80">>) ELSE <<>>
  BY <1>3, Meanings
<1>5. "port" \in DOMAIN c.given /\ c.given["port"] \in ValidPort <=> a.text = "port" /\ v \in ValidPort
  BY <1>3
<1> QED
  BY <1>1, <1>4, <1>5

-----------------------------------------------------------------------------
\* A word outside of location blocks that is no value: the flags that wait are
\* none, or that of the port.
LEMMA SenselessWord ==
  ASSUME NEW p, Record(p), p.expect = {}, p.save \in {"none", "port"},
         NEW v, v.text # "location"
  PROVE  Digest(p, v).expect = {} /\ Digest(p, v).save \in {"none", "port"}
<1>1. CASE p.save = "port" /\ v \in ValidPort
  BY <1>1, DigestPort
<1>2. CASE ~(p.save = "port" /\ v \in ValidPort)
  <2>1. Digest(p, v).save = NextSave({}, v) /\ Digest(p, v).expect = {}
    BY <1>2, DigestPlain
  <2>2. NextSave({}, v) \in {"none", "port"}
    <3>1. CASE v \in KeywordWords
      BY <3>1, Announced
    <3>2. CASE v \notin KeywordWords
      BY <3>2, NoKeyword
    <3> QED
      BY <3>1, <3>2
  <2> QED
    BY <2>1, <2>2
<1> QED
  BY <1>1, <1>2

\* A word outside of location blocks.
LEMMA OutsideWord ==
  ASSUME NEW p, Record(p), NEW s, Statement(s), NEW b, Outside(p, s, b), NEW v \in Normal,
         NEW r, Record(r), r.expect = p.expect, r.save = p.save, r.location = p.location,
         s = <<>> => r.stored = <<>>,
         s # <<>> /\ s # Improper => r.stored = p.stored,
         s # <<>> => v.text # "location",
         s # <<>> /\ s[1] = Word("location") => More(s, v) # Improper
  PROVE  Outside(Digest(r, v), More(s, v), b)
<1> DEFINE loc == Word("location")
<1>0. Block(b) /\ b.type = "none" /\ b.path = ""
  BY DEF Outside
<1>2. PICK q : q = Digest(r, v)
  OBVIOUS
<1>3. ASSUME q.expect = {}, q.save \in {"none", "port"} PROVE Outside(q, Improper, b)
  BY <1>0, <1>3, OutsideShapes
<1>4. ASSUME r.expect = {}, r.save \in {"none", "port"}, v.text # "location"
      PROVE  Outside(q, Improper, b)
  BY <1>2, <1>3, <1>4, SenselessWord
<1>5. CASE s = <<>>
  <2>1. p.expect = {} /\ p.save = "none"
    BY <1>0, <1>5, OutsideShapes
  <2>2. q.save = NextSave({}, v) /\ q.expect = {} /\ q.stored = <<>>
    <3>1. r.expect = {} /\ r.save = "none" /\ r.stored = <<>>
      BY <1>5, <2>1
    <3> QED
      BY <1>2, <3>1, DigestPlain
  <2>3. CASE v \in KeywordWords
    <3>1. More(s, v) = <<v>>
      BY <1>5, <2>3, Statements
    <3>2. q.save = IF v.text \in {"port", "location"} THEN v.text ELSE "none"
      BY <2>2, <2>3, Announced
    <3>3. Outside(q, <<v>>, b)
      BY <1>0, <2>2, <2>3, <3>2, OutsideShapes
    <3> QED
      BY <1>2, <3>1, <3>3
  <2>4. CASE v \notin KeywordWords
    <3>1. More(s, v) = Improper
      BY <1>5, <2>4, Statements
    <3>2. q.save = "none"
      BY <2>2, <2>4, NoKeyword
    <3> QED
      BY <1>2, <1>3, <2>2, <3>1, <3>2
  <2> QED
    BY <2>3, <2>4
<1>6. CASE s = Improper
  <2>1. p.expect = {} /\ p.save \in {"none", "port"}
    BY <1>0, <1>6, OutsideShapes
  <2>2. More(s, v) = Improper /\ v.text # "location"
    BY <1>6, Statements, Shapes
  <2> QED
    BY <1>2, <1>4, <2>1, <2>2
<1>7. ASSUME NEW a \in KeywordWords \ {loc}, s = <<a>> PROVE Outside(q, More(s, v), b)
  <2>1. s # <<>> /\ s # Improper
    BY <1>7, Shapes
  <2>2. a.text # "location"
    BY WordsDiffer
  <2>3. /\ r.expect = {} /\ r.stored = <<>>
        /\ r.save = IF a.text = "port" THEN "port" ELSE "none"
    BY <1>0, <1>7, <2>1, <2>2, OutsideShapes
  <2>4. CASE v.text \notin Keyword \cup Type
    <3>1. More(s, v) = <<a, v>>
      BY <1>7, <2>4, Statements
    <3>2. v \notin KeywordWords
      BY <2>4, WordsDiffer
    <3>3. q.expect = {} /\ q.save = "none" /\ q.stored = Meaning(With(NoBlock, <<a, v>>))
      <4>1. CASE a.text = "port" /\ v \in ValidPort
        <5>1. Meaning(With(NoBlock, <<a, v>>)) = Extend(<<>>, <<"port_number", "">>, <<"80">>)
          BY <4>1, MeaningOfOne
        <5> QED
          BY <1>2, <2>3, <4>1, <5>1, DigestPort
      <4>2. CASE ~(a.text = "port" /\ v \in ValidPort)
        <5>1. Meaning(With(NoBlock, <<a, v>>)) = <<>>
          BY <4>2, MeaningOfOne
        <5>2. q.save = NextSave({}, v) /\ q.expect = {} /\ q.stored = <<>>
          <6>1. r.save = "none" \/ (r.save = "port" /\ v \notin ValidPort)
            BY <2>3, <4>2
          <6> QED
            BY <1>2, <2>3, <6>1, DigestPlain
        <5> QED
          BY <3>2, <5>1, <5>2, NoKeyword
      <4> QED
        BY <4>1, <4>2
    <3>4. Outside(q, <<a, v>>, b)
      BY <1>0, <3>3, OutsideShapes
    <3> QED
      BY <3>1, <3>4
  <2>5. CASE v.text \in Keyword \cup Type
    <3>1. More(s, v) = Improper
      BY <1>7, <2>5, Statements
    <3> QED
      BY <1>4, <2>1, <2>3, <3>1
  <2> QED
    BY <2>4, <2>5
<1>8. CASE s = <<loc>>
  <2>1. s # <<>> /\ s # Improper /\ s[1] = loc /\ loc \in KeywordWords /\ loc.text = "location"
    <3>1. loc \in KeywordWords /\ loc.text = "location"
      BY DEF KeywordWords, Keyword, Word
    <3> QED
      BY <1>8, <3>1, Shapes
  <2>2. More(s, v) = <<loc, v>> /\ v \in Quotes
    BY <1>8, <2>1, Statements
  <2>3. r.expect = {} /\ r.stored = <<>> /\ r.save = "location"
    BY <1>0, <1>8, <2>1, OutsideShapes
  <2>4. /\ q.expect = {"handler_type"} /\ q.save = "none" /\ q.stored = <<>>
        /\ q.location = v.text
    BY <1>2, <2>2, <2>3, DigestPath
  <2>5. Outside(q, <<loc, v>>, b)
    BY <1>0, <2>2, <2>4, OutsideShapes
  <2> QED
    BY <1>2, <2>2, <2>5
<1>9. ASSUME NEW a \in KeywordWords \ {loc}, NEW x \in Normal, s = <<a, x>>
      PROVE  Outside(q, More(s, v), b)
  <2>1. s # <<>> /\ s # Improper /\ More(s, v) = Improper
    <3>1. s # <<>>
      BY <1>9, Shapes
    <3>2. s # Improper
      BY <1>9, Shapes
    <3>3. More(s, v) = Improper
      BY <1>9, Statements
    <3> QED
      BY <3>1, <3>2, <3>3
  <2>2. p.expect = {} /\ p.save = "none"
    BY <1>0, <1>9, OutsideShapes
  <2> QED
    BY <1>4, <2>1, <2>2
<1>10. ASSUME NEW x \in Quotes, s = <<loc, x>> PROVE Outside(q, More(s, v), b)
  <2>1. s # <<>> /\ s # Improper /\ s[1] = loc
    BY <1>10, PathShape
  <2>2. More(s, v) = <<loc, x, v>> /\ v \in TypeWords
    BY <1>10, <2>1, Statements
  <2>3. r.expect = {"handler_type"} /\ r.save = "none" /\ r.stored = <<>> /\ r.location = x.text
    BY <1>0, <1>10, <2>1, OutsideShapes
  <2>4. PICK h : h = HeadBlock(<<loc, x, v>>)
    OBVIOUS
  <2>5. /\ h.type = v.text /\ h.path = x.text /\ WellFormed(h)
        /\ Due(h) = IF v.text \in ExactType THEN {} ELSE {"handler_type", Expects[v.text]}
        /\ Meaning(h) = IF v.text \in ExactType THEN Extend(<<>>, <<v.text, x.text>>, <<>>) ELSE <<>>
    BY <2>2, <2>4, HeadBlocks
  <2>6. DOMAIN h.given = {}
    BY <2>4 DEF HeadBlock, NoBlock
  <2>7. /\ q.save = "none" /\ q.expect = Due(h) /\ q.stored = Meaning(h)
        /\ v.text \notin ExactType => q.location = x.text
    <3>1. /\ q.save = "none"
          /\ q.expect = IF v.text \in ExactType THEN {} ELSE {"handler_type", Expects[v.text]}
          /\ q.stored = IF v.text \in ExactType
               THEN Extend(r.stored, <<v.text, r.location>>, <<>>) ELSE r.stored
          /\ v.text \notin ExactType => q.location = r.location
      <4>1. v \in TypeWords
        BY <2>2
      <4>2. r.save = "none" /\ r.expect = {"handler_type"}
        BY <2>3
      <4>3. q = Digest(r, v)
        BY <1>2
      <4> QED
        BY ONLY <4>1, <4>2, <4>3, DigestType, Record(r)
    <3> QED
      BY <2>3, <2>5, <3>1
  <2>8. Knows(q, h)
    BY <2>5, <2>6, <2>7 DEF Knows
  <2>9. Outside(q, <<loc, x, v>>, b)
    BY <1>0, <2>2, <2>4, <2>7, <2>8, OutsideShapes
  <2> QED
    BY <2>2, <2>9
<1>11. ASSUME NEW x \in Quotes, NEW w \in TypeWords, s = <<loc, x, w>> PROVE FALSE
  <2>1. s # <<>> /\ s[1] = loc
    BY <1>11, HeadShape
  <2> QED
    BY <1>11, <2>1, Statements
<1> QED
  BY <1>2, <1>5, <1>6, <1>7, <1>8, <1>9, <1>10, <1>11 DEF Statement

\* A word in a location block.
LEMMA InsideWord ==
  ASSUME NEW p, Record(p), NEW s, Statement(s), NEW b, Inside(p, s, b), NEW v \in Normal,
         NEW r, s # Improper => r = p
  PROVE  Inside(Digest(r, v), More(s, v), b)
<1> DEFINE loc == Word("location")
<1>1. WellFormed(b)
  BY DEF Inside
<1>2. PICK q : q = Digest(r, v)
  OBVIOUS
<1>3. CASE s = <<>>
  <2>1. p.save = "none" /\ Knows(p, b) /\ r = p
    <3>1. s # Improper
      BY <1>3, Shapes
    <3> QED
      BY <1>1, <1>3, <3>1, InsideShapes
  <2>2. CASE v \in KeywordWords \ {loc}
    <3>1. More(s, v) = <<v>>
      BY <1>3, <2>2, Statements
    <3>2. v \notin TypeWords
      BY <2>2, WordsDiffer
    <3>3. /\ q.save = NextSave(p.expect, v) /\ q.expect = p.expect /\ q.stored = p.stored
          /\ q.location = p.location /\ q.host = p.host
      BY <1>2, <2>1, <3>2, DigestPlain
    <3>4. Knows(q, b) /\ q.save = NextSave(q.expect, v)
      BY <2>1, <3>3 DEF Knows
    <3>5. Inside(q, <<v>>, b)
      BY <1>1, <2>2, <3>4, InsideShapes
    <3> QED
      BY <1>2, <3>1, <3>5
  <2>3. CASE v = loc
    <3>1. loc \in KeywordWords
      BY DEF KeywordWords, Keyword
    <3>2. More(s, v) = <<loc>>
      BY <1>3, <2>3, <3>1, Statements
    <3> QED
      BY <1>1, <3>2, InsideShapes
  <2>4. CASE v \notin KeywordWords
    <3>1. More(s, v) = Improper
      BY <1>3, <2>4, Statements
    <3> QED
      BY <1>1, <3>1, InsideShapes
  <2> QED
    BY <2>2, <2>3, <2>4
<1>4. CASE s = Improper
  <2>1. More(s, v) = Improper
    BY <1>4, Statements
  <2> QED
    BY <1>1, <2>1, InsideShapes
<1>5. ASSUME NEW a \in KeywordWords \ {loc}, s = <<a>> PROVE Inside(q, More(s, v), b)
  <2>1. r = p /\ p.save = NextSave(p.expect, a) /\ Knows(p, b)
    <3>1. s # Improper
      BY <1>5, Shapes
    <3> QED
      BY <1>1, <1>5, <3>1, InsideShapes
  <2>2. CASE v.text \notin Keyword \cup Type
    <3>1. More(s, v) = <<a, v>>
      BY <1>5, <2>2, Statements
    <3>2. ASSUME Belongs(<<a, v>>, b) PROVE q.save = "none" /\ Knows(q, With(b, <<a, v>>))
      BY <1>1, <1>2, <2>1, <2>2, <3>2, ValueRead
    <3>3. Inside(q, <<a, v>>, b)
      BY <1>1, <3>2, InsideShapes
    <3> QED
      BY <3>1, <3>3
  <2>3. CASE v.text \in Keyword \cup Type
    <3>1. More(s, v) = Improper
      BY <1>5, <2>3, Statements
    <3> QED
      BY <1>1, <3>1, InsideShapes
  <2> QED
    BY <2>2, <2>3
<1>6. CASE s = <<loc>>
  <2>1. More(s, v) = <<loc, v>> \/ More(s, v) = Improper
    BY <1>6, Statements
  <2> QED
    BY <1>1, <2>1, InsideShapes
<1>7. ASSUME NEW a \in KeywordWords \ {loc}, NEW x, s = <<a, x>> PROVE Inside(q, More(s, v), b)
  <2>1. More(s, v) = Improper
    BY <1>7, Statements
  <2> QED
    BY <1>1, <2>1, InsideShapes
<1>8. ASSUME NEW x \in Quotes, s = <<loc, x>> PROVE Inside(q, More(s, v), b)
  <2>1. More(s, v) = <<loc, x, v>> \/ More(s, v) = Improper
    BY <1>8, Statements
  <2> QED
    BY <1>1, <2>1, InsideShapes
<1>9. ASSUME NEW x, NEW w, s = <<loc, x, w>> PROVE Inside(q, More(s, v), b)
  <2>1. More(s, v) = Improper
    BY <1>9, Statements
  <2> QED
    BY <1>1, <2>1, InsideShapes
<1> QED
  BY <1>2, <1>3, <1>4, <1>5, <1>6, <1>7, <1>8, <1>9 DEF Statement

\* A token that is neither word nor value.
LEMMA DigestOther ==
  ASSUME NEW p, Record(p), p.save \in {"none", "port"},
         NEW v, v \notin KeywordWords \cup TypeWords \cup ValidPort
  PROVE  /\ Digest(p, v).save = "none" /\ Digest(p, v).expect = p.expect
         /\ Digest(p, v).stored = p.stored /\ Digest(p, v).location = p.location
         /\ Digest(p, v).host = p.host
BY DigestPlain, NoKeyword

\* Outside, what such a token finds.
LEMMA OutsideFlags ==
  ASSUME NEW p, NEW s, Statement(s), NEW b, Outside(p, s, b),
         s # <<>> => s[1] # Word("location")
  PROVE  p.expect = {} /\ p.save \in {"none", "port"}
<1> DEFINE loc == Word("location")
<1>1. Block(b) /\ b.type = "none" /\ b.path = ""
  BY DEF Outside
<1>2. CASE s = <<>>
  BY <1>1, <1>2, OutsideShapes
<1>3. CASE s = Improper
  BY <1>1, <1>3, OutsideShapes
<1>4. ASSUME NEW a \in KeywordWords, s = <<a>> PROVE p.expect = {} /\ p.save \in {"none", "port"}
  <2>1. s # <<>> /\ s[1] = a
    BY <1>4
  <2>2. a.text # "location"
    BY <2>1, WordsDiffer
  <2> QED
    BY <1>1, <1>4, <2>2, OutsideShapes
<1>5. ASSUME NEW a \in KeywordWords \ {loc}, NEW v \in Normal, s = <<a, v>>
      PROVE  p.expect = {} /\ p.save \in {"none", "port"}
  BY <1>1, <1>5, OutsideShapes
<1>6. ASSUME NEW x, s = <<loc, x>> PROVE FALSE
  BY <1>6, PathShape
<1>7. ASSUME NEW x, NEW w, s = <<loc, x, w>> PROVE FALSE
  BY <1>7, HeadShape
<1> QED
  BY <1>2, <1>3, <1>4, <1>5, <1>6, <1>7 DEF Statement

-----------------------------------------------------------------------------
\* Of the parser, only these flags matter.
LEMMA SameFlags ==
  ASSUME NEW p, NEW q, q.save = p.save, q.expect = p.expect, q.stored = p.stored,
         q.location = p.location, q.host = p.host, NEW s, NEW b
  PROVE  /\ Outside(p, s, b) => Outside(q, s, b)
         /\ Inside(p, s, b) => Inside(q, s, b)
<1>1. \A c : Knows(p, c) => Knows(q, c)
  BY DEF Knows
<1>2. Outside(p, s, b) => Outside(q, s, b)
  BY <1>1 DEF Outside
<1>3. Inside(p, s, b) => Inside(q, s, b)
  BY <1>1 DEF Inside
<1> QED
  BY <1>2, <1>3

\* The fields of the record of the flags.
LEMMA CurrentIs ==
  /\ Record(Current)
  /\ Current.save = save /\ Current.expect = expect /\ Current.location = location
  /\ Current.host = host /\ Current.types = types /\ Current.stored = stored
BY DEF Current, Record

\* What holds of a record of the flags holds of the flags that become it.
LEMMA BecomesWritten ==
  ASSUME NEW p, Becomes(p), NEW s, stmt' = s, NEW b, block' = b, Statement(s),
         last_token_type' = "NORMAL" => s # <<>>,
         ~stray' => Outside(p, s, b) \/ Inside(p, s, b)
  PROVE  AsWritten'
<1>1. PICK q : q = Current'
  OBVIOUS
<1>2. /\ q.save = p.save /\ q.expect = p.expect /\ q.stored = p.stored
      /\ q.location = p.location /\ q.host = p.host
  BY <1>1 DEF Becomes, Current
<1>3. ~stray' => Outside(q, s, b) \/ Inside(q, s, b)
  BY <1>2, SameFlags
<1> QED
  BY <1>1, <1>3 DEF AsWritten

\* At the beginning nothing is written.
LEMMA InitWritten == Init => AsWritten
<1> SUFFICES ASSUME Init PROVE AsWritten
  OBVIOUS
<1>1. /\ Current.expect = {} /\ Current.save = "none" /\ Current.stored = <<>>
      /\ stmt = <<>> /\ block = NoBlock /\ last_token_type # "NORMAL"
  BY CurrentIs DEF Init
<1>2. Block(NoBlock) /\ NoBlock.type = "none" /\ NoBlock.path = "" /\ DOMAIN NoBlock.given = {}
  BY DEF Block, NoBlock
<1>3. Meaning(NoBlock) = <<>>
  BY <1>2, Meanings
<1>4. Outside(Current, <<>>, NoBlock)
  BY <1>1, <1>2, <1>3, OutsideShapes
<1> QED
  BY <1>1, <1>4 DEF AsWritten, Statement

\* The tokens that are words, and those that are neither word nor value.
LEMMA TokensAre ==
  ASSUME NEW t \in ParseToken
  PROVE  /\ t.type = "NORMAL" => t.value \in Normal
         /\ t.type \in {"COMMENT", "STATEMENT_END", "START_BLOCK", "END_BLOCK"} =>
              t.value \notin KeywordWords \cup TypeWords \cup ValidPort
<1>1. \A w \in {"#", "{", "}", ";"} : w \notin Keyword /\ w \notin Type /\ w \notin {"80", "1:80"}
  BY ConfigAssumption DEF Keyword, Type
<1>2. \A w \in {"#", "{", "}", ";"} : Word(w) \notin KeywordWords \cup TypeWords \cup ValidPort
  <2> SUFFICES ASSUME NEW w \in {"#", "{", "}", ";"},
                      Word(w) \in KeywordWords \cup TypeWords \cup ValidPort
               PROVE  FALSE
    OBVIOUS
  <2>1. \A x, y : Word(x) = Word(y) => x = y
    BY DEF Word
  <2>2. PICK x \in Keyword \cup Type \cup {"80", "1:80"} : Word(w) = Word(x)
    <3>1. CASE Word(w) \in KeywordWords
      <4>1. PICK x \in Keyword : Word(w) = Word(x)
        BY <3>1, Zenon DEF KeywordWords
      <4> QED
        BY <4>1
    <3>2. CASE Word(w) \in TypeWords
      <4>1. PICK x \in Type : Word(w) = Word(x)
        BY <3>2, Zenon DEF TypeWords
      <4> QED
        BY <4>1
    <3>3. CASE Word(w) \in ValidPort
      BY <3>3 DEF ValidPort
    <3> QED
      BY <3>1, <3>2, <3>3
  <2> QED
    BY <1>1, <2>1, <2>2
<1>3. PICK ty, v :
        /\ t = [type |-> ty, value |-> v]
        /\ \/ ty = "NORMAL" /\ v \in Normal
           \/ ty \in {"COMMENT", "STATEMENT_END", "START_BLOCK", "END_BLOCK"}
              /\ v \in {Word("#"), Word("{"), Word("}"), Word(";")}
           \/ ty \in {"ERROR", "EOF"}
  <2> DEFINE P(ty, v) ==
        /\ t = [type |-> ty, value |-> v]
        /\ \/ ty = "NORMAL" /\ v \in Normal
           \/ ty \in {"COMMENT", "STATEMENT_END", "START_BLOCK", "END_BLOCK"}
              /\ v \in {Word("#"), Word("{"), Word("}"), Word(";")}
           \/ ty \in {"ERROR", "EOF"}
  <2>1. ASSUME t \in {[type |-> "NORMAL", value |-> v] : v \in Normal} PROVE \E ty, v : P(ty, v)
    <3>1. PICK v \in Normal : t = [type |-> "NORMAL", value |-> v]
      BY <2>1, Zenon
    <3>2. P("NORMAL", v)
      BY <3>1
    <3> QED
      BY <3>2
  <2>2. ASSUME t \in {[type |-> "EOF", value |-> v] : v \in {Word(w) : w \in ExactType \cup {"80", "x", ""}}}
        PROVE  \E ty, v : P(ty, v)
    <3>1. PICK v : t = [type |-> "EOF", value |-> v]
      BY <2>2, Zenon
    <3>2. P("EOF", v)
      BY <3>1
    <3> QED
      BY <3>2
  <2>3. P("START_BLOCK", Word("{")) \/ P("END_BLOCK", Word("}")) \/ P("STATEMENT_END", Word(";"))
          \/ P("COMMENT", Comment) \/ P("ERROR", Cut) \/ t \in {[type |-> "NORMAL", value |-> v] : v \in Normal}
          \/ t \in {[type |-> "EOF", value |-> v] : v \in {Word(w) : w \in ExactType \cup {"80", "x", ""}}}
    BY Zenon DEF ParseToken, Comment
  <2> HIDE DEF P
  <2>4. \E ty, v : P(ty, v)
    BY <2>1, <2>2, <2>3, Zenon
  <2> QED
    BY <2>4, Zenon DEF P
<1>4. t.type = ty /\ t.value = v
  BY <1>3
<1> QED
  BY <1>2, <1>3, <1>4

\* A statement with one more word is a statement, and no longer empty.
LEMMA MoreIsStatement ==
  ASSUME NEW s, Statement(s), NEW v \in Normal
  PROVE  Statement(More(s, v)) /\ More(s, v) # <<>>
<1> DEFINE loc == Word("location")
<1>1. \A u, x, y : <<u>> # <<>> /\ <<u, x>> # <<>> /\ <<u, x, y>> # <<>> /\ Improper # <<>>
  BY Shapes
<1>2. Statement(Improper)
  BY DEF Statement
<1>3. CASE s = <<>>
  <2>1. (More(<<>>, v) = <<v>> /\ v \in KeywordWords) \/ More(<<>>, v) = Improper
    BY Statements
  <2> QED
    BY <1>1, <1>2, <1>3, <2>1 DEF Statement
<1>4. CASE s = Improper
  BY <1>1, <1>2, <1>4, Statements
<1>5. ASSUME NEW a \in KeywordWords \ {loc}, s = <<a>> PROVE Statement(More(s, v)) /\ More(s, v) # <<>>
  <2>1. (More(s, v) = <<a, v>> /\ v.text \notin Keyword \cup Type) \/ More(s, v) = Improper
    BY <1>5, Statements
  <2> QED
    BY <1>1, <1>2, <2>1 DEF Statement
<1>6. CASE s = <<loc>>
  <2>1. (More(s, v) = <<loc, v>> /\ v \in Quotes) \/ More(s, v) = Improper
    BY <1>6, Statements
  <2> QED
    BY <1>1, <1>2, <2>1 DEF Statement
<1>7. ASSUME NEW a \in KeywordWords \ {loc}, NEW x, s = <<a, x>>
      PROVE  Statement(More(s, v)) /\ More(s, v) # <<>>
  <2>1. More(s, v) = Improper
    BY <1>7, Statements
  <2> QED
    BY <1>1, <1>2, <2>1
<1>8. ASSUME NEW q \in Quotes, s = <<loc, q>> PROVE Statement(More(s, v)) /\ More(s, v) # <<>>
  <2>1. (More(s, v) = <<loc, q, v>> /\ v \in TypeWords) \/ More(s, v) = Improper
    BY <1>8, Statements
  <2> QED
    BY <1>1, <1>2, <2>1 DEF Statement
<1>9. ASSUME NEW q, NEW w, s = <<loc, q, w>> PROVE Statement(More(s, v)) /\ More(s, v) # <<>>
  <2>1. More(s, v) = Improper
    BY <1>9, Statements
  <2> QED
    BY <1>1, <1>2, <2>1
<1> QED
  BY <1>3, <1>4, <1>5, <1>6, <1>7, <1>8, <1>9 DEF Statement

-----------------------------------------------------------------------------
\* The steps of Parse, one after the other.
LEMMA ReadNormalWritten ==
  ASSUME AsWritten, NEW t \in ParseToken, ReadNormal(t)
  PROVE  AsWritten'
<1>1. PICK s : s = stmt
  OBVIOUS
<1>2. PICK b : b = block
  OBVIOUS
<1>3. PICK p : p = Current
  OBVIOUS
<1>4. PICK v : v = t.value
  OBVIOUS
<1>5. PICK r : r = IF s = Improper \/ (s = <<>> /\ b.type = "none") THEN [p EXCEPT !.stored = <<>>] ELSE p
  OBVIOUS
<1>6. /\ v \in Normal /\ Statement(s) /\ Record(p)
      /\ ~stray => Outside(p, s, b) \/ Inside(p, s, b)
  BY <1>1, <1>2, <1>3, <1>4, TokensAre, CurrentIs DEF AsWritten, ReadNormal, Reads
<1>7. PICK u : u = More(s, v)
  OBVIOUS
<1>8. /\ Becomes(Digest(r, v)) /\ stmt' = u /\ block' = b
      /\ ~stray' => ~stray /\ (s # <<>> => v.text # "location")
      /\ ~stray' => (s # <<>> /\ s[1] = Word("location") => u # Improper)
  BY <1>1, <1>2, <1>3, <1>4, <1>5, <1>7 DEF ReadNormal, More, StartsLocation
<1>9. Statement(u) /\ u # <<>>
  BY <1>6, <1>7, MoreIsStatement
<1>10. PICK q : q = Digest(r, v)
  OBVIOUS
<1>11. ASSUME ~stray' PROVE Outside(q, u, b) \/ Inside(q, u, b)
  <2>1. CASE Outside(p, s, b)
    <3>1. Record(r) /\ r.expect = p.expect /\ r.save = p.save /\ r.location = p.location
      BY <1>5, <1>6 DEF Record
    <3>2. b.type = "none"
      BY <2>1 DEF Outside
    <3>3. (s = <<>> => r.stored = <<>>) /\ (s # <<>> /\ s # Improper => r.stored = p.stored)
      BY <1>5, <1>6, <3>2 DEF Record
    <3>4. /\ s # <<>> => v.text # "location"
          /\ s # <<>> /\ s[1] = Word("location") => More(s, v) # Improper
      BY <1>7, <1>8, <1>11
    <3>5. Outside(Digest(r, v), More(s, v), b)
      BY <1>6, <2>1, <3>1, <3>3, <3>4, OutsideWord
    <3> QED
      BY <1>7, <1>10, <3>5
  <2>2. CASE Inside(p, s, b)
    <3>1. b.type # "none"
      BY <2>2, ConfigAssumption DEF Inside, WellFormed, Type
    <3>2. s # Improper => r = p
      BY <1>5, <3>1
    <3>3. Inside(Digest(r, v), More(s, v), b)
      BY <1>6, <2>2, <3>2, InsideWord
    <3> QED
      BY <1>7, <1>10, <3>3
  <2> QED
    BY <1>6, <1>8, <1>11, <2>1, <2>2
<1> QED
  BY <1>8, <1>9, <1>10, <1>11, BecomesWritten

\* A comment between statements leaves the flags to the next one.
LEMMA ReadCommentWritten ==
  ASSUME AsWritten, NEW t \in ParseToken, ReadComment(t)
  PROVE  AsWritten'
<1>1. PICK s : s = stmt
  OBVIOUS
<1>2. PICK b : b = block
  OBVIOUS
<1>3. PICK p : p = Current
  OBVIOUS
<1>4. PICK v : v = t.value
  OBVIOUS
<1>5. PICK q : q = Digest(p, v)
  OBVIOUS
<1>6. /\ Statement(s) /\ Record(p) /\ v \notin KeywordWords \cup TypeWords \cup ValidPort
      /\ last_token_type = "NORMAL" => s # <<>>
      /\ ~stray => Outside(p, s, b) \/ Inside(p, s, b)
  BY <1>1, <1>2, <1>3, <1>4, TokensAre, CurrentIs DEF AsWritten, ReadComment, Reads
<1>7. PICK u : u = IF s = <<>> THEN s ELSE Improper
  OBVIOUS
<1>8. /\ Becomes(q) /\ stmt' = u /\ block' = b /\ last_token_type' = last_token_type
      /\ ~stray' => ~stray /\ (s # <<>> => s[1] # Word("location"))
  BY <1>1, <1>2, <1>3, <1>4, <1>5, <1>7 DEF ReadComment, StartsLocation
<1>9. Statement(u) /\ (u = <<>> <=> s = <<>>)
  BY <1>7, Shapes DEF Statement
<1>10. ASSUME ~stray' PROVE Outside(q, u, b) \/ Inside(q, u, b)
  <2>1. CASE Outside(p, s, b)
    <3>1. Block(b) /\ b.type = "none" /\ b.path = ""
      BY <2>1 DEF Outside
    <3>2. p.expect = {} /\ p.save \in {"none", "port"}
      BY <1>6, <1>8, <1>10, <2>1, OutsideFlags
    <3>3. q.save = "none" /\ q.expect = {} /\ q.stored = p.stored
      BY <1>5, <1>6, <3>2, DigestOther
    <3>4. CASE s = <<>>
      <4>1. b.known => p.stored = Meaning(b)
        BY <2>1, <3>1, <3>4, OutsideShapes
      <4>2. Outside(q, <<>>, b)
        BY <3>1, <3>3, <4>1, OutsideShapes
      <4> QED
        BY <1>7, <3>4, <4>2
    <3>5. CASE s # <<>>
      <4>1. Outside(q, Improper, b)
        BY <3>1, <3>3, OutsideShapes
      <4> QED
        BY <1>7, <3>5, <4>1
    <3> QED
      BY <3>4, <3>5
  <2>2. CASE Inside(p, s, b)
    <3>1. WellFormed(b)
      BY <2>2 DEF Inside
    <3>2. CASE s = <<>>
      <4>1. p.save = "none" /\ Knows(p, b)
        BY <2>2, <3>1, <3>2, InsideShapes
      <4>2. q.save = "none" /\ q.expect = p.expect /\ q.stored = p.stored /\ q.location = p.location
            /\ q.host = p.host
        BY <1>5, <1>6, <4>1, DigestOther
      <4>3. Knows(q, b)
        BY <4>1, <4>2 DEF Knows
      <4>4. Inside(q, <<>>, b)
        BY <3>1, <4>2, <4>3, InsideShapes
      <4> QED
        BY <1>7, <3>2, <4>4
    <3>3. CASE s # <<>>
      BY <1>7, <3>1, <3>3, InsideShapes
    <3> QED
      BY <3>2, <3>3
  <2> QED
    BY <1>6, <1>8, <1>10, <2>1, <2>2
<1> QED
  BY <1>6, <1>8, <1>9, <1>10, BecomesWritten

\* The other tokens leave the flags as they are, but for the one that waited.
LEMMA OtherToken ==
  ASSUME NEW p, Record(p), p.save \in {"none", "port"}, NEW t \in ParseToken,
         t.type \in {"COMMENT", "STATEMENT_END", "START_BLOCK", "END_BLOCK"},
         NEW q, q = Digest(p, t.value)
  PROVE  /\ q.save = "none" /\ q.expect = p.expect /\ q.stored = p.stored
         /\ q.location = p.location /\ q.host = p.host
         /\ \A b : Knows(p, b) => Knows(q, b)
<1>1. PICK v : v = t.value
  OBVIOUS
<1>2. v \notin KeywordWords \cup TypeWords \cup ValidPort
  BY <1>1, TokensAre
<1>3. /\ q.save = "none" /\ q.expect = p.expect /\ q.stored = p.stored
      /\ q.location = p.location /\ q.host = p.host
  BY <1>1, <1>2, DigestOther
<1> QED
  BY <1>3 DEF Knows

\* NoBlock means nothing.
LEMMA NoBlockIs ==
  ASSUME NEW known
  PROVE  LET c == [NoBlock EXCEPT !.known = known] IN
         Block(c) /\ c.type = "none" /\ c.path = "" /\ c.known = known /\ Meaning(c) = <<>>
<1>1. PICK c : c = [NoBlock EXCEPT !.known = known]
  OBVIOUS
<1>2. c = [type |-> "none", path |-> "", given |-> <<>>, known |-> known]
  BY <1>1 DEF NoBlock
<1>3. Block(c) /\ c.type = "none" /\ c.path = "" /\ c.known = known /\ c.given = <<>>
  BY <1>2 DEF Block
<1>4. Meaning(c) = <<>>
  <2>1. DOMAIN c.given = {}
    <3>1. DOMAIN <<>> = {}
      OBVIOUS
    <3> QED
      BY <1>3, <3>1
  <2> QED
    BY <1>3, <2>1, Meanings
<1> QED
  BY <1>1, <1>3, <1>4

\* Statements of one and two words.
LEMMA Lengths ==
  /\ Len(Improper) = 1
  /\ \A x : Len(<<x>>) = 1 /\ <<x>>[1] = x
  /\ \A x, y : Len(<<x, y>>) = 2 /\ <<x, y>>[1] = x /\ <<x, y>>[2] = y
  /\ \A x, y, z : Len(<<x, y, z>>) = 3 /\ <<x, y, z>>[1] = x /\ <<x, y, z>>[2] = y /\ <<x, y, z>>[3] = z
BY DEF Improper

\* The end of a statement adds it to the block.
LEMMA EndStatementWritten ==
  ASSUME AsWritten, NEW t \in ParseToken, EndStatement(t)
  PROVE  AsWritten'
<1> DEFINE loc == Word("location")
<1>1. PICK s : s = stmt
  OBVIOUS
<1>2. PICK b : b = block
  OBVIOUS
<1>3. PICK p : p = Current
  OBVIOUS
<1>4. PICK q : q = Digest(p, t.value)
  OBVIOUS
<1>5. PICK ok \in BOOLEAN : ok <=> s # Improper /\ (b.type # "none" => Belongs(s, b))
  OBVIOUS
<1>6. PICK c : c = IF ~ok \/ Len(s) # 2 THEN [NoBlock EXCEPT !.known = ok]
                   ELSE [b EXCEPT !.known = TRUE,
                           !.given = Extend(IF b.type = "none" THEN <<>> ELSE @, s[1].text, s[2])]
  OBVIOUS
<1>7. /\ Statement(s) /\ Record(p) /\ t.type = "STATEMENT_END"
      /\ s # <<>>
      /\ ~stray => Outside(p, s, b) \/ Inside(p, s, b)
  BY <1>1, <1>2, <1>3, CurrentIs DEF AsWritten, EndStatement, Reads
<1>8. Becomes(q) /\ stmt' = <<>> /\ last_token_type' = "STATEMENT_END"
  BY <1>3, <1>4 DEF EndStatement
<1>9. /\ block' = c
      /\ ~stray' => ~stray /\ s[1] # loc /\ (b.type # "none" => ok)
  BY <1>1, <1>2, <1>5, <1>6, <1>7 DEF EndStatement, StartsLocation
<1>10. CASE ~stray' /\ Outside(p, s, b)
  <2>1. Block(b) /\ b.type = "none" /\ b.path = ""
    BY <1>10 DEF Outside
  <2>2. p.expect = {} /\ p.save \in {"none", "port"}
    BY <1>7, <1>9, <1>10, OutsideFlags
  <2>3. q.save = "none" /\ q.expect = {} /\ q.stored = p.stored
    BY <1>4, <1>7, <2>2, OtherToken
  <2>4. ASSUME s = Improper PROVE Outside(q, <<>>, c)
    <3>1. c = [NoBlock EXCEPT !.known = FALSE]
      BY <1>5, <1>6, <2>4
    <3>2. Block(c) /\ c.type = "none" /\ c.path = "" /\ c.known = FALSE
      BY <3>1, NoBlockIs
    <3>3. q.expect = {} /\ q.save = "none" /\ (c.known => q.stored = Meaning(c))
      BY <2>3, <3>2, Zenon
    <3> QED
      BY <3>2, <3>3, OutsideShapes
  <2>5. ASSUME NEW a \in KeywordWords, s = <<a>> PROVE Outside(q, <<>>, c)
    <3>1. Len(s) = 1 /\ s # Improper
      BY <2>5, Lengths, Shapes
    <3>2. ok = TRUE
      BY <1>5, <2>1, <3>1
    <3>3. c = [NoBlock EXCEPT !.known = TRUE]
      BY <1>6, <3>1, <3>2
    <3>4. p.stored = <<>>
      BY <1>10, <2>1, <2>5, OutsideShapes
    <3> QED
      BY <2>3, <3>3, <3>4, NoBlockIs, OutsideShapes
  <2>6. ASSUME NEW a \in KeywordWords \ {loc}, NEW x \in Normal, s = <<a, x>>
        PROVE  Outside(q, <<>>, c)
    <3>1. Len(s) = 2 /\ s[1] = a /\ s[2] = x
      BY <2>6
    <3>2. s # Improper
      BY <2>6, Shapes
    <3>3. ok = TRUE
      BY <1>5, <2>1, <3>2
    <3>4. c = [b EXCEPT !.known = TRUE, !.given = Extend(<<>>, a.text, x)]
      BY <1>6, <2>1, <3>1, <3>3
    <3>5. /\ Block(c) /\ c.type = "none" /\ c.path = "" /\ DOMAIN c.given = {a.text}
          /\ c.given[a.text] = x
      <4>1. PICK g : g = Extend(<<>>, a.text, x)
        OBVIOUS
      <4>2. DOMAIN g = {a.text} /\ g[a.text] = x
        <5>1. DOMAIN <<>> = {}
          OBVIOUS
        <5> QED
          BY <4>1, <5>1 DEF Extend
      <4>3. c = [type |-> b.type, path |-> b.path, given |-> g, known |-> TRUE]
        BY <2>1, <3>4, <4>1 DEF Block
      <4> QED
        BY <2>1, <4>2, <4>3 DEF Block
    <3>6. Meaning(c) = IF a.text = "port" /\ x \in ValidPort
                       THEN Extend(<<>>, <<"port_number", "">>, <<"80">>) ELSE <<>>
      BY <3>5, Meanings
    <3>7. p.stored = Meaning(With(NoBlock, <<a, x>>))
      <4>1. Outside(p, <<a, x>>, b)
        BY <1>10, <2>6
      <4>2. \A d \in KeywordWords \ {Word("location")}, y \in Normal : Outside(p, <<d, y>>, b) =>
              p.stored = Meaning(With(NoBlock, <<d, y>>))
        BY <2>1, Shapes DEF Outside
      <4> QED
        BY <2>6, <4>1, <4>2
    <3>8. p.stored = Meaning(c)
      BY <3>6, <3>7, MeaningOfOne
    <3> QED
      BY <2>3, <3>5, <3>8, OutsideShapes
  <2>7. \A x, y : s # <<loc, x>> /\ s # <<loc, x, y>>
    BY <1>9, <1>10, Lengths
  <2>8. Outside(q, <<>>, c)
    BY <1>7, <2>4, <2>5, <2>6, <2>7, Zenon DEF Statement
  <2> QED
    BY <1>8, <1>9, <2>8, BecomesWritten DEF Statement
<1>11. CASE ~stray' /\ Inside(p, s, b)
  <2>1. WellFormed(b)
    BY <1>11 DEF Inside
  <2>2. b.type # "none"
    BY <2>1, ConfigAssumption DEF WellFormed, Type
  <2>3. s # Improper /\ Belongs(s, b) /\ ok = TRUE
    BY <1>5, <1>9, <1>11, <2>2
  <2>4. Len(s) = 2
    BY <2>3 DEF Belongs
  <2>5. PICK a \in KeywordWords \ {loc}, x \in Normal : s = <<a, x>>
    <3>1. \A y : s # <<y>>
      <4> SUFFICES ASSUME NEW y, s = <<y>> PROVE FALSE
        OBVIOUS
      <4>1. Len(s) = 1
        BY Lengths
      <4> QED
        BY <2>4, <4>1
    <3>2. \A y : s # <<loc, y>>
      BY <1>9, <1>11, Lengths
    <3>3. \A y, z : s # <<loc, y, z>>
      BY <1>9, <1>11, Lengths
    <3> QED
      BY <1>7, <2>3, <3>1, <3>2, <3>3 DEF Statement
  <2>6. c = With(b, <<a, x>>)
    <3>1. s[1] = a /\ s[2] = x
      BY <2>5
    <3>2. c = [b EXCEPT !.known = TRUE, !.given = Extend(b.given, a.text, x)]
      BY <1>6, <2>2, <2>3, <2>4, <3>1
    <3>3. With(b, <<a, x>>) = [b EXCEPT !.given = Extend(b.given, a.text, x)]
      BY DEF With
    <3> QED
      BY <2>1, <3>2, <3>3 DEF WellFormed, Block
  <2>7. p.save = "none" /\ Knows(p, c)
    BY <1>11, <2>1, <2>3, <2>5, <2>6, InsideShapes
  <2>8. q.save = "none" /\ Knows(q, c)
    BY <1>4, <1>7, <2>7, OtherToken
  <2>9. WellFormed(c)
    BY <2>1, <2>3, <2>5, <2>6, WithWellFormed
  <2>10. Inside(q, <<>>, c)
    BY <2>8, <2>9, InsideShapes
  <2> QED
    BY <1>8, <1>9, <2>10, BecomesWritten DEF Statement
<1>12. CASE stray'
  BY <1>8, <1>9, <1>12, BecomesWritten DEF Statement
<1> QED
  BY <1>7, <1>9, <1>10, <1>11, <1>12

\* The head of a location, and any other word, before a brace.
LEMMA StartBlockWritten ==
  ASSUME AsWritten, NEW t \in ParseToken, StartBlock(t)
  PROVE  AsWritten'
<1> DEFINE loc == Word("location")
<1>1. PICK s : s = stmt
  OBVIOUS
<1>2. PICK b : b = block
  OBVIOUS
<1>3. PICK p : p = Current
  OBVIOUS
<1>4. PICK q : q = Digest(p, t.value)
  OBVIOUS
<1>5. PICK head \in BOOLEAN : head <=> s # <<>> /\ s[1] = loc /\ Len(s) = 3 /\ b.type = "none"
  OBVIOUS
<1>6. PICK c : c = IF head THEN HeadBlock(s) ELSE [NoBlock EXCEPT !.known = FALSE]
  OBVIOUS
<1>7. /\ Statement(s) /\ Record(p) /\ t.type = "START_BLOCK"
      /\ ~stray => Outside(p, s, b) \/ Inside(p, s, b)
  BY <1>1, <1>2, <1>3, CurrentIs DEF AsWritten, StartBlock, Reads
<1>8. /\ Becomes(q) /\ stmt' = <<>> /\ last_token_type' = "START_BLOCK" /\ block' = c
      /\ ~stray' => ~stray /\ b.type = "none" /\ (s # <<>> /\ s[1] = loc => head)
  BY <1>1, <1>2, <1>3, <1>4, <1>5, <1>6 DEF StartBlock, StartsLocation, HeadBlock
<1>9. ASSUME ~stray' PROVE Outside(q, <<>>, c) \/ Inside(q, <<>>, c)
  <2>1. Outside(p, s, b)
    BY <1>7, <1>8, <1>9, ConfigAssumption DEF Inside, WellFormed, Type
  <2>2. Block(b) /\ b.type = "none" /\ b.path = ""
    BY <2>1 DEF Outside
  <2>3. CASE head = TRUE
    <3>1. Len(s) = 3 /\ s[1] = loc
      BY <1>5, <2>3
    <3>2. Len(<<>>) = 0
      OBVIOUS
    <3>3. PICK x \in Quotes, w \in TypeWords : s = <<loc, x, w>>
      <4>1. s # <<>> /\ s # Improper
        BY <3>1, <3>2, Lengths
      <4>2. ASSUME NEW x, s = <<x>> PROVE FALSE
        <5>1. Len(s) = 1
          BY <4>2, Lengths
        <5> QED
          BY <3>1, <5>1
      <4>3. ASSUME NEW x, NEW y, s = <<x, y>> PROVE FALSE
        <5>1. Len(s) = 2
          BY <4>3, Lengths
        <5> QED
          BY <3>1, <5>1
      <4> QED
        BY <1>7, <4>1, <4>2, <4>3, Zenon DEF Statement
    <3>4. p.save = "none" /\ Knows(p, HeadBlock(<<loc, x, w>>))
      BY <2>1, <2>2, <3>3, OutsideShapes
    <3>5. c = HeadBlock(<<loc, x, w>>)
      BY <1>6, <2>3, <3>3
    <3>6. q.save = "none" /\ Knows(q, c)
      BY <1>4, <1>7, <3>4, <3>5, OtherToken
    <3>7. WellFormed(c)
      BY <3>5, HeadBlocks
    <3> QED
      BY <3>6, <3>7, InsideShapes
  <2>4. CASE head = FALSE
    <3>1. p.expect = {} /\ p.save \in {"none", "port"}
      BY <1>7, <1>8, <1>9, <2>1, <2>4, OutsideFlags
    <3>2. q.save = "none" /\ q.expect = {}
      BY <1>4, <1>7, <3>1, OtherToken
    <3>3. c = [NoBlock EXCEPT !.known = FALSE]
      BY <1>6, <2>4
    <3> QED
      BY <3>2, <3>3, NoBlockIs, OutsideShapes
  <2> QED
    BY <2>3, <2>4
<1> QED
  BY <1>8, <1>9, BecomesWritten DEF Statement

\* The end of a block clears the flags.
LEMMA CloseBlockWritten ==
  ASSUME AsWritten, NEW t \in ParseToken, CloseBlock(t)
  PROVE  AsWritten'
<1>1. PICK q : q = Digest(Current, t.value)
  OBVIOUS
<1>2. Record(q)
  BY <1>1, CurrentIs, StepsKeepRecord DEF Digest, Record
<1>3. PICK c : c = [Cleared(q) EXCEPT !.stored = <<>>, !.types = {}]
  OBVIOUS
<1>4. c.expect = {} /\ c.save = "none" /\ c.stored = <<>>
  BY <1>2, <1>3 DEF Cleared, Record
<1>5. Becomes(c) /\ stmt' = <<>> /\ block' = NoBlock /\ last_token_type' = "END_BLOCK"
  BY <1>1, <1>3 DEF CloseBlock
<1>6. Block(NoBlock) /\ NoBlock.type = "none" /\ NoBlock.path = "" /\ DOMAIN NoBlock.given = {}
  BY DEF Block, NoBlock
<1>7. Meaning(NoBlock) = <<>>
  BY <1>6, Meanings
<1>8. Outside(c, <<>>, NoBlock)
  BY <1>4, <1>6, <1>7, OutsideShapes
<1> QED
  BY <1>5, <1>8, BecomesWritten DEF Statement

\* Every step of Parse.
LEMMA NextWritten == AsWritten /\ [Next]_vars => AsWritten'
<1> SUFFICES ASSUME AsWritten, [Next]_vars PROVE AsWritten'
  OBVIOUS
<1>1. CASE UNCHANGED vars
  BY <1>1 DEF vars, parserVars, ghosts, AsWritten, Current
<1>2. ASSUME NEW t \in ParseToken, Fail(t) PROVE AsWritten'
  BY <1>2 DEF Fail, AsWritten
<1>3. ASSUME NEW t \in ParseToken, EndOfFile(t) PROVE AsWritten'
  BY <1>3 DEF EndOfFile, AsWritten
<1>4. ASSUME NEW t \in ParseToken, Throw(t) PROVE AsWritten'
  BY <1>4 DEF Throw, AsWritten
<1> QED
  BY <1>1, <1>2, <1>3, <1>4, ReadNormalWritten, ReadCommentWritten, EndStatementWritten,
     StartBlockWritten, CloseBlockWritten DEF Next

\* Between statements, what the parser knows of the block is what it stored.
LEMMA WrittenSuffices == AsWritten => ParsedAsWritten
<1> SUFFICES ASSUME AsWritten, result = "parsing", stmt = <<>>, block.known, ~stray
             PROVE  stored = Meaning(block)
  BY DEF ParsedAsWritten
<1>1. CASE Outside(Current, stmt, block)
  BY <1>1, CurrentIs DEF Outside
<1>2. CASE Inside(Current, stmt, block)
  BY <1>2, CurrentIs DEF Inside, Knows
<1> QED
  BY <1>1, <1>2 DEF AsWritten

-----------------------------------------------------------------------------
\* Whatever a file contains, and whatever flags the tokens before left set,
\* Parse stores of a proper location block exactly what the block says, under
\* its own location, and of a proper statement outside of one the server port.
THEOREM ProperBlocksAreParsedAsWritten == Spec => []ParsedAsWritten
<1>1. Init => AsWritten
  BY InitWritten
<1>2. AsWritten /\ [Next]_vars => AsWritten'
  BY NextWritten
<1>3. AsWritten => ParsedAsWritten
  BY WrittenSuffices
<1> QED
  BY <1>1, <1>2, <1>3, PTL DEF Spec
=============================================================================
