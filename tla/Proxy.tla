------------------------------- MODULE Proxy -------------------------------
(***************************************************************************)
(* proxy_request_handler (proxy_request_handler.cc): a request is sent on  *)
(* to another server, whose response is read with response_parser on the   *)
(* pool thread that handles the request, redirects are followed, HTML is   *)
(* rewritten, and session writes the result.  The handler has no state of  *)
(* its own beyond its configuration, so that one call at a time is enough. *)
(* An exception that leaves it ends the process.  Of the bodies and URIs   *)
(* nothing is kept but what ResponseParser keeps; Routing has the URIs.    *)
(***************************************************************************)
EXTENDS ResponseParser

CONSTANTS Host,             \* the names of servers
          Port,             \* their ports
          server_url_,      \* the configured server
          server_port_num,
          MaxRedirects      \* bound: redirects a server answers with in a row

ASSUME ProxyAssumption ==
  server_url_ \in Host /\ {server_port_num, "80"} \subseteq Port /\ MaxRedirects \in Nat

VARIABLES
  pc,       \* idle; ask, read: in proxy_request; done: has returned; ended: the process is gone
  url,      \* parameters of proxy_request: the server the request is meant for
  port,
  socket,   \* the server it was sent to
  hops,     \* how many redirects were followed
  reply,    \* the response that handle_request returns
  wire,     \* the status the client sees
  named,    \* ghost: the server that the configuration or the last Location names
  readable  \* ghost: it was named as proxy_request expects

ghosts == <<named, readable>>

proxyVars == <<pc, url, port, socket, hops, reply, wire, ghosts>>
vars == <<parserVars, proxyVars>>

\* What a Location may be: a path, or none; a path with an address in its
\* query; an address, with or without a port.
Location == {[kind |-> "path"]}
  \cup [kind : {"inner", "address"}, scheme : {"http", "https"},
        host : Host, port : Port \cup {"none", "invalid"}]

\* proxy_request goes by the address alone: the scheme is cut off.
HTTP_DEFAULT_PORT == "80"
PortOf(loc) == IF loc.port = "none" THEN HTTP_DEFAULT_PORT ELSE loc.port

\* The server that a client of the web goes to after a redirect to loc, and
\* whether proxy_request reads loc as such a client does: it takes https for
\* http, and an address anywhere for the place to go to.
DefaultPort == [http |-> "80", https |-> "443"]
Names(loc) ==
  IF loc.kind # "address" THEN named
  ELSE <<loc.host, IF loc.port = "none" THEN DefaultPort[loc.scheme] ELSE loc.port>>
Readable(loc) ==
  CASE loc.kind = "path"    -> readable
    [] loc.kind = "inner"   -> FALSE
    [] loc.kind = "address" -> loc.scheme = "http"

\* length: what the Content-Length of the reply says of its body, if there is
\* one; chunked: does it claim to be?  html, spelled: was it HTML, and
\* did the server spell the names of its headers as the handler does?
Reply == [code : Code \cup {"502"}, length : {"none", "right", "wrong"},
          chunked : BOOLEAN, html : BOOLEAN, spelled : BOOLEAN]

\* get_error_response
BadGateway == [code |-> "502", length |-> "right", chunked |-> FALSE,
               html |-> TRUE, spelled |-> TRUE]

-----------------------------------------------------------------------------
Init ==
  /\ state_ = "http_version_h" /\ code = "none" /\ hdr = "none" /\ value = NoValue
  /\ contentsize = 0 /\ chunked = FALSE /\ chunksizehex = 0 /\ chunksize = 0
  /\ body = FALSE /\ trailing = FALSE /\ result = "indeterminate"
  /\ sized = FALSE /\ due = 0
  /\ pc = "idle" /\ url = server_url_ /\ port = server_port_num
  /\ named = <<server_url_, server_port_num>> /\ readable = TRUE /\ socket = named
  /\ hops = 0 /\ reply = BadGateway /\ wire = "none"

\* A call of proxy_request, with a socket, a response and a parser of its own.
Call(u, p) ==
  /\ pc' = "ask" /\ url' = u /\ port' = p
  /\ FreshParser /\ socket' = <<>> /\ reply' = BadGateway

\* The next request for the location of the proxy.
handle_request ==
  /\ pc = "idle"
  /\ Call(server_url_, server_port_num)
  /\ named' = <<server_url_, server_port_num>> /\ readable' = TRUE
  /\ hops' = 0 /\ wire' = "none"

\* proxy_request: the name is looked up with the configured port, and the
\* request is written.
Ask ==
  /\ pc = "ask" /\ pc' = "read"
  /\ socket' = <<url, server_port_num>>
  /\ UNCHANGED <<parserVars, url, port, hops, reply, wire, ghosts>>

\* The process ends, in the middle of a call.
End == pc' = "ended" /\ UNCHANGED <<parserVars, url, port, socket, hops, reply, wire, ghosts>>

\* resolve, connect and write throw if the server is not there.
AskThrows == pc = "ask" /\ End

\* read_response: another byte of what read_some returned.
ReadByte(c, last) ==
  /\ pc = "read" /\ (c = "302" => hops < MaxRedirects)
  /\ Consume(c, last)
  /\ UNCHANGED proxyVars

Return(r) ==
  /\ pc' = "done" /\ reply' = r
  /\ UNCHANGED <<parserVars, url, port, socket, hops, wire, ghosts>>

\* Mutant: an error is not told from the end of a response.
ReadErrorRelayed ==
  /\ pc = "read" /\ Reading /\ ~trailing /\ code \in Code \ {"302"}
  /\ Return([BadGateway EXCEPT !.code = code])

\* Mutant: read_response goes on after an error.
ReadErrorRetries == pc = "read" /\ Reading /\ ~trailing /\ UNCHANGED vars

\* read_some fails, or the server has closed the connection.
ReadError == pc = "read" /\ Reading /\ ~trailing /\ Return(BadGateway)

ReadBad == pc = "read" /\ result = "bad" /\ Return(BadGateway)

HasResponse == pc = "read" /\ result = "good"

\* Mutant: a path is taken to be one of the configured server.
FollowFromHome(loc) ==
  /\ HasResponse /\ code = "302" /\ hops < MaxRedirects
  /\ loc.kind # "path" => loc.port # "invalid"
  /\ IF loc.kind = "path" THEN Call(server_url_, port) ELSE Call(loc.host, PortOf(loc))
  /\ named' = Names(loc) /\ readable' = Readable(loc)
  /\ hops' = hops + 1 /\ UNCHANGED wire

\* A redirect: whatever follows the first "//" is taken for an address; without
\* one, the server stays the same.  Nothing limits the number of redirects.
Follow(loc) ==
  /\ HasResponse /\ code = "302" /\ hops < MaxRedirects
  /\ loc.kind # "path" => loc.port # "invalid"
  /\ IF loc.kind = "path" THEN Call(url, port) ELSE Call(loc.host, PortOf(loc))
  /\ named' = Names(loc) /\ readable' = Readable(loc)
  /\ hops' = hops + 1 /\ UNCHANGED wire

\* stoi of the port throws.
FollowThrows(loc) ==
  /\ HasResponse /\ code = "302"
  /\ loc.kind # "path" /\ loc.port = "invalid"
  /\ End

\* The response as it came.  Its chunks are gone, its headers are not.
Relay(spelled) ==
  /\ HasResponse /\ code # "302"
  /\ Return([code |-> code, chunked |-> chunked, html |-> FALSE, spelled |-> spelled,
             length |-> IF ~sized THEN "none" ELSE IF chunked \/ due # 0 THEN "wrong" ELSE "right"])

\* Mutant: the length of the document is not set.
handle_htmlKeepsLength(spelled) ==
  /\ HasResponse /\ code # "302" /\ body
  /\ Return([code |-> code, chunked |-> chunked /\ ~spelled, html |-> TRUE, spelled |-> spelled,
             length |-> IF sized THEN "wrong" ELSE "none"])

\* HTML is decoded and rewritten, and has a new length and encoding.  Headers
\* of the server with the same names in another spelling stay as well.
handle_html(spelled) ==
  /\ HasResponse /\ code # "302" /\ body
  /\ Return([code |-> code, chunked |-> chunked /\ ~spelled, html |-> TRUE, spelled |-> spelled,
             length |-> IF sized /\ ~spelled THEN "wrong" ELSE "right"])

\* decompress_gzip throws; or the document is empty, and the null pointer that
\* libxml2 returns for it is assigned to a string.
handle_htmlEnds == HasResponse /\ code # "302" /\ End

\* ResponseHelperLibrary::to_buffer knows four codes.
to_buffer(c) == IF c \in {"200", "302"} THEN c ELSE "400"

\* session writes the response.
Respond ==
  /\ pc = "done" /\ pc' = "idle"
  /\ wire' = to_buffer(reply.code)
  /\ UNCHANGED <<parserVars, url, port, socket, hops, reply, ghosts>>

-----------------------------------------------------------------------------
\* What proxy_request does with what it has read.
Examine ==
  \/ ReadBad
  \/ \E loc \in Location : Follow(loc) \/ FollowThrows(loc)
  \/ \E spelled \in BOOLEAN : Relay(spelled) \/ handle_html(spelled)
  \/ handle_htmlEnds

Handler == Ask \/ AskThrows \/ Examine \/ Respond

\* The end of a read that has completed a response.
ReadEnds == trailing /\ \E c \in Byte : ReadByte(c, TRUE)

Next ==
  \/ handle_request \/ Handler \/ ReadError
  \/ \E c \in Symbol, last \in BOOLEAN : ReadByte(c, last)

Spec == Init /\ [][Next]_vars

\* The pool thread goes on; a read ends; a connection does not stay open for
\* ever while a response is incomplete.  That last is up to the other server.
Fairness == WF_vars(Handler) /\ WF_vars(ReadEnds) /\ SF_vars(ReadError)

FairSpec == Spec /\ Fairness

-----------------------------------------------------------------------------
(* Properties.                                                             *)

(* What the client sees as a success is the response of the last server,   *)
(* which said so too, and all of it, if it announced a length or chunks: a *)
(* connection that breaks in the middle of such a response never passes    *)
(* for one.  (Of one without either, nothing tells where it ends.)         *)
SuccessIsWhole ==
  wire = "200" => /\ reply.code = "200" /\ code = "200" /\ result = "good"
                  /\ sized \/ chunked => due = 0

(* The client can tell where the body of a reply ends, although the body   *)
(* was taken out of its chunks, decoded or rewritten, if the server sent a *)
(* Content-Length or HTML and spelled its headers as the handler does.     *)
(* (What came in chunks and is no HTML still says that it is chunked.)     *)
RepliesAreFramed ==
  pc = "done" /\ reply.spelled /\ (reply.html \/ (sized /\ ~chunked))
    => reply.length = "right" /\ ~reply.chunked

(* Over any sequence of redirects, paths and addresses mixed, the request  *)
(* is meant for the server that was named last, and reaches it if that has *)
(* the configured port; unless the last address was one of https, which is *)
(* asked in plain http and by default at port 80, or one in the query of a *)
(* path, which is none to go to.                                           *)
ReachesNamedServer ==
  pc = "read" /\ readable =>
    <<url, port>> = named /\ (port = server_port_num => socket = named)

(* proxy_request sends the request to "port: port number of remote server" *)
(* (proxy_request_handler.cc), after a redirect as well.                   *)
AsksNamedServer == pc = "read" /\ readable => socket = named

(* Every call returns, or ends the process: no response of a server that   *)
(* redirects a bounded number of times, valid or not, cut short or too     *)
(* long, keeps the pool thread waiting once the server closes.             *)
Returns == pc = "ask" ~> pc \in {"done", "ended"}
=============================================================================
