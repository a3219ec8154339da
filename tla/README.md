# Verification of the blog web server

TLA+ models of the web server in this repository: the asynchronous connection
layer, the HTTP request parser, the configuration parser, the way of a URI through
the dispatcher and the static and proxy handlers, the proxy handler with its response
parser, the blog handler and its two databases. TLC checks each model on small
instances; TLAPS proves every safety property that holds for every size, and the
refinement of the abstract blog store. Source paths below are relative to `src/`; `PROJECT.json` has the map from
definitions to lines.

## 1. The system

`server_main` reads an nginx-like configuration, builds one `request_dispatcher`
and one `server`, and runs one `io_service` on a pool of four threads. The
acceptor hands each connection to a `session`. A session reads bytes, feeds them
to its `request_parser`, which fills a `request_builder`, and on a complete
request asks the dispatcher for the handler of the URI, calls it on the pool
thread, and writes the response. Handlers are created once and shared by all
threads.

| Part | State it keeps | Operations | Talks to |
|---|---|---|---|
| acceptor (`server.cc`) | the session being accepted | `start_accept`, `handle_accept` | creates sessions |
| session (`session.cc`) | socket, parser, builder, response | `handle_read`, `handle_write`, `shutdown`, `delete this` | parser, dispatcher, handlers, status handler |
| main, pool (`server_main.cc`) | threads, signal handlers | run, exit on SIGTERM and SIGINT | runs every completion handler |
| request parser (`request_parser.*`) | `state_`, `contentsize_` | `parse`, `consume`, `reset` | writes the builder |
| request builder (`request_builder.h`) | headers, body, `bodysize`, `keep_alive` | `build_request` | read by session and parser |
| dispatcher (`request_dispatcher.cc`) | map from location to handler | `create_handler_mapping`, `get_handler`, `get_status_handler` | configuration, sessions |
| status handler (`status_request_handler.cc`) | list and count of requests | `record_received_request`, `handle_request` | called by every thread |
| blog handler (`blog_upload_request_handler.cc`) | `form_to_value_` | `handle_request`, `parseRequestBody` | database |
| PostgreSQL database (`blog_database.cc`) | connection, mutex; the table | `insert_blog`, `get_blog`, `get_all_blogs` | PostgreSQL |
| Bigtable database (`bigtable/`) | table handle, mutex; the rows | the same three | Bigtable |
| configuration parser (`NginxConfigParser.cc`) | blocks, locations, a dozen flags | `Parse`, `ParseToken` | dispatcher |
| proxy handler (`proxy_request_handler.cc`) | address of the other server | `handle_request`, `proxy_request`, `read_response`, `handle_html` | another server, on the pool thread |
| response parser (`response_parser.*`) | `state_`; in the builder sizes and `chunked` | `parse`, `consume` | read by the proxy handler |
| static handler (`static_request_handler.cc`) | location, root | `handle_request` | file system |
| response helper library | nothing | `to_buffer`, `to_buffers`, `stock_response` | session |
| echo, health, 404, redirect, upload form | nothing per request | `handle_request` | |
| mock database | a vector | the three calls | unit tests only |

What makes each part correct:

- **Connection layer.** `session.cc` has no lock and no strand, so that at any
  time one operation or one thread may be busy with a session; it frees itself
  with `delete this`; the acceptor has to be re-armed on every path; parser and
  builder have to be renewed between requests of a keep-alive connection; a
  partial request must not stop others.
- **Parser.** A request is complete with exactly the body it announced, however
  often and however folded Content-Length appears; `reset` does not touch
  `contentsize_`, which has to be zero by then.
- **Configuration parser.** What is stored is what the location blocks say, although
  sixteen flags live across tokens; a stored location has its type listed.
- **Dispatcher.** The handler serves the URI; the map that threads share without
  a lock is not written by lookups, although `operator[]` writes on a miss.
- **Static and proxy handlers.** They look for their location in the URI once more,
  and must agree with the dispatcher; links that the proxy rewrites must lead back to
  it.
- **Status handler.** It counts and lists the requests that were served, although any
  thread may be in the middle of adding one.
- **Proxy.** A response that is cut short does not pass for a success; a redirect goes
  to the server it names; the reply is framed by the headers of the rewritten body; a
  call ends when the other server closes, and a thread that waits costs the others
  nothing but that thread.
- **Blog.** A post is stored once, under an id of its own, with the fields its
  request submitted; the redirect leads to it; calls return after exceptions.

The hard behaviours are the interleaving of pool threads over unlocked shared
state, bytes split and joined by TCP, peers that leave, exceptions on pool
threads, commits without an answer, other servers that redirect, break off or stay
silent, and boundaries (largest int, the tenth post).
They are listed line by line under `hazards` in `PROJECT.json`.

## 2. The modules

| Module | Models | Notes |
|---|---|---|
| `Server`, `MCServer` | acceptor, session, pool, signals, `record_received_request` | parser reduced to start, middle, complete |
| `ServerProofs` | | proofs about `Server`: sessions, traffic, status record |
| `HttpSyntax` | what the two HTTP parsers share: byte classes, the states of version and headers, `std::stoi` | |
| `RequestParser` | `request_parser` over a connection's bytes | |
| `RequestParserProofs` | | proofs about `RequestParser` |
| `ResponseParser` | `response_parser` and its builder | |
| `Proxy` | `proxy_request_handler` | composes `ResponseParser` with the calls around it |
| `ProxyProofs` | | proofs about `ResponseParser` and `Proxy` |
| `BlogTypes`, `BlogStore` | `database.h`: calls, results, an atomic store | the abstract specification |
| `BlogDatabase` | `blog_database.cc` | implements `BlogStore` |
| `BlogDatabaseProofs` | | proofs, the refinement included |
| `BlogForm` | `urldecode`, `parseRequestBody` as a fold | pure operators |
| `BlogHandler`, `MCBlogHandler` | the blog handler in front of `BlogStore` | composes `BlogStore` and `BlogForm` |
| `BlogHandlerProofs` | | proofs about `BlogHandler` |
| `BlogBigtable`, `MCBlogBigtable` | `blog_bigtable.cc` | |
| `BlogBigtableProofs` | | proofs about it |
| `ConfigParser` | `NginxConfigParser.cc` | |
| `ConfigParserProofs` | | proofs about it |
| `Dispatcher` | `request_dispatcher.cc` | |
| `Routing`, `MCRouting` | the paths of `static_request_handler` and `proxy_request_handler`, links of proxied pages | composes them with `Dispatcher` |
| `RoutingProofs` | | proofs about `Dispatcher` and `Routing` |

**Server.** An outstanding asynchronous operation is a member of `pending[s]`
(`accept`, `read`, `write` for a write that `handle_write` completes, `close` for
one that `shutdown` completes). An idle thread takes an operation that can
complete and runs its handler. Code that touches only its own session is one step;
`record_received_request`, which touches state shared by all threads, is four: begin
and end of the append to the string, load and store of the counter. `std::string::+=`
copies the bytes of the record into the buffer, or into a larger one, and then sets the
length, so that a second append may start before the first one ends (`raced`). From
then on the string is anything: records lost, those of unfinished appends in it, or text
that is the record of no request (`Torn`); the buffer may be freed twice and the process
end (`AppendRace`). Other damage to memory is not followed. What is in
the socket is a sequence of segments: a proper part of a request, the end of one,
or invalid bytes. A read returns any non-empty prefix of them, which covers
splitting and joining. `ParseResult` is `parse`: more bytes after the end of a
request in one read make it bad (`request_parser.h:50`). `mem` tells a session
that was deleted from one that was shut down: `session::shutdown` never deletes
the object. The state `served` and the peer's bookkeeping in `client` are ghosts
that the properties compare with. An exception that leaves a handler on a pool
thread terminates the process: `main`'s `catch` only covers `main`'s own thread. The
proxy handler may wait for another server (`Block`) as long as that pleases; nothing
obliges it to return (`Unblock`), and at most `MaxBlocked` threads wait at a time.

**RequestParser.** The bytes are the classes the code tells apart; the names and
the value it compares headers with are one symbol each, and one more character
after a name makes it another name. `Moves` is the switch of `consume` as a
relation; actions that also touch the builder are on their own. A header value is
kept as what `std::stoi` and `strcasecmp` make of it: sign, number capped just past
the range of an int, text. Content-Length may throw in `stoi` (no number, out of
range) or, after both sizes were stored, in `reserve`. The builder that a
keep-alive connection gets for its next request is a new one.

**ResponseParser.** As `RequestParser`, with chunks. A body has as many bytes as
`contentsize` says at the end of the head; if no Content-Length has set it, it is an
uninitialised int, and any value may be read (`EndHead`). Of the body the model keeps
whether there is any and, as a ghost, how many announced bytes are `due`. `last` tells
whether the read ends with a byte: `parse` reports a complete response only then, or at
the last chunk (`Decide`). A response followed by more bytes of the same read is
`trailing`: the parser goes on counting down from zero, or stays where it is. Of a
header the model keeps what `consume` looks at, as long as it can still change.

**Proxy.** One call at a time, as the handler keeps nothing between calls. `Ask`
connects to the name of the call and the port of the configuration, `ReadByte` is the
loop of `read_response`, `ReadError` a broken or closed connection at any byte.
`Follow` is the redirect: `loc` is a path, an address of http or https with or without a
port, or a path that has an address inside, which the handler takes for one. The handler
cuts the scheme off and takes port 80 where none is given (`PortOf`). `named` is the
server that a client of the web would go to, by the default port of the scheme
(`Names`), and `readable` whether the handler reads the last address as such a client
does. `Relay` and `handle_html` end the call; what they do to
Content-Length and Transfer-Encoding is kept, with the headers that the server may
have spelled otherwise (`std::map` tells case apart, the parser does not). Whatever
throws ends the process (`AskThrows`, `FollowThrows`, `handle_htmlEnds`). `to_buffer`
gives the status line.

**BlogDatabase.** A call locks, executes, commits (inserts), unlocks as the guard
leaves its scope, and returns. A query or commit may throw, a commit may be carried
out and not answered (`CommitInDoubt`), the id sequence of PostgreSQL is not rolled
back. If the constructor got no connection the exception is only logged, and the
first call uses an uninitialised pointer (`NoConnection`). PostgreSQL itself is
external and modelled from how the code uses it.

**BlogHandler.** One object, many threads: each request assigns `form_to_value_`,
then reads two fields from it (in either order: they are function arguments), then
calls the store. Two threads in the map at once, one writing, is undefined
behaviour: either the accesses interleave, or the process dies (`FormRace`). Percent
escapes are single symbols; `urldecode` and `parseRequestBody` are modelled by what
they do to them.

**BlogBigtable.** Row keys are decimal numerals ordered by their characters.
`insert_blog` reads all rows and takes one more than the last. Writes fail, or fail for
the caller only (`ApplyFails`). A read that fails half way yields a `StatusOr` without a
value, and the loop of `insert_blog` dereferences it without a check (`:59`;
`get_all_blogs` has one at `:123`), which is undefined. Three outcomes are modelled:
what `row_key()` gives is no numeral, `stoi` throws, and `postid` as it is by then is
returned (`ReadLastThrows`); it is some numeral, and `Apply` runs under one more than that,
the key of any row or of none (`ReadLastMisreads`); or the server ends (`ReadLastEnds`).
The ghost `whole` tells an insert whose own read was complete.

**ConfigParser.** One step per token. A token that waits for its value sets one of ten
`save_...` flags or `seen_location`; the next token clears it again, so that the model
has one variable `save` for all of them, and a set `expect` of the other six. `Digest`
is the body of the loop up to the check of the token types: save the announced value,
recognise the handler type, take the location, look at the keywords. Comments go
through it as well. `Parse` never reads what it has stored, so `stored` and `types`
hold only what belongs to the current statement or block, and files may have any
length. Three ghosts read the file by its statements: what `ParsedAsWritten` compares
with. A block or statement counts if it is written as the sample configurations are
(quoted values; the host of a proxy before its port; each setting once; comments
between statements only; no root whose name is a keyword), after whatever else the file
holds, as long as no location was opened and left without a block since the last `}`.

**Dispatcher.** The configuration is built block by block, then the handler map
type by type in the order of first occurrence, then requests are dispatched.
`operator[]` adds a null handler under an absent key (`Access`). Which of several
proxy or blog prefixes wins depends on the order of an unordered map and is left
open.

**Routing.** A request is dispatched and handled in one step, as one thread does it.
`StaticPath` is the loop of the static handler, `ProxiedUri` cuts the *undecoded* URI by
the length of the location, in characters (`%20` is three). `FollowLink` takes a link
of the last proxied page, rewrites it as `handle_property` does, and requests it as a
browser would, with spaces escaped (`Encoded`). What the link names on the other server is
defined apart from that, as references are resolved on the web (`Named`): the page itself
for an empty link, a path from the root of the server, or one from the directory of the
page, which is the path that was sent on for it. (A page that the proxy got through a
redirect of its own has another directory; that is not modelled.)

## 3. The runs

| Run | Instance | Shows |
|---|---|---|
| `server` | 2 threads, 2 connections, 2 requests each, handlers that throw | `SessionExclusive`, `NoDangling`, `OneAcceptor`, `ResponsesInOrder`, `KeepAliveHonoured`, `NoSpuriousBadRequest`, `WriteStable` |
| `server_live` | 2 threads, 2 connections, status handler on, 1 thread that may wait for ever | `TypeOK`, `RecordedWereServed`, and `Answered` under fairness |
| `parser` | inputs of any length, largest int 12 | `TypeOK`, `StartsFresh`, `BodyComplete`, `BodyAccounted` |
| `database` | 2 threads, 3 calls each, 2 posts, 3 ids | `OneUser`, `AcknowledgedIsStored`, `PostsAreKept`, `ImplementsStore`, and `CallsReturn` under fairness |
| `blog_handler` | 2 threads, 2 requests each, fields with escapes | `RedirectsToNewPost`, `IsolatedPostIsStored` |
| `bigtable` | 2 threads, 2 calls, keys up to 12, any contiguous table and one key more | `InsertsLeaveNoGap`, `OnlyKeyTenIsOverwritten` |
| `routing` | up to 3 locations, 8 types, nested and escaped paths, 2 server paths, 8 links | `AnswerServes`, `MostSpecificStatic`, `FileIsBelowLocation`, `ProxiedUriIsPath`, `LinksLeadBack`, `LookupsDoNotWrite` |
| `proxy` | responses of any length, largest int 2, 2 hosts, 2 ports, 2 redirects in a row | `ParserTypeOK`, `BodyIsWhole`, `WaitsForWhatIsDue`, `SuccessIsWhole`, `RepliesAreFramed`, `ReachesNamedServer`, and `Returns` under fairness |
| `config` | any file, up to 2 senseless words per block, 2 levels | `ParsedAsWritten`, `StoredHasType` |
| `status_race` | 2 threads, 2 connections | violates `StatusRecordsAll` |
| `blog_shared_form` | 2 threads, 1 request each | violates `PostIsStoredAsSubmitted` |
| `proxy_port` | 1 redirect | violates `AsksNamedServer` |

**Bounds.** Two threads and two sessions give every pair of conflicting steps; a
third thread adds no new kind of conflict, since the shared objects are accessed in
pairs, and the proofs do not depend on the number. Two requests per connection are
the least that show a keep-alive connection going wrong, with pipelining (the first
bytes of the second request in the read of the first). The parser has no bound on
the length of its input: its state is finite because numbers are capped. With 12
for the largest int every one- and two-digit number up to and past the limit occurs,
of either sign. Bigtable starts from every table that
inserts with whole reads can leave, and from those with one key more that a failed read
has left (`MaxStray`), so that two calls reach what would otherwise take twelve inserts;
of the numbers that a failed read may yield those up to `MaxKey` are followed, two more
than the code ever chooses itself, and `get_blog` asks for one id, which no other call
depends on (`AskedId`).
Of the configuration's four handler types that need nothing but their
name one is enough: their branches are alike. Two senseless words per block
(`MaxOdd`) leave any flag set that one wrong token can leave, and the next `}` clears
them; two levels (`MaxDepth`) nest a location in another block.
Three locations allow two nested ones and one of another type. Three ids let an
insert follow one that was rolled back and one left in doubt. The response parser has no
bound on its input either; with 2 for the largest int there are bodies and chunks of
no, one and two bytes, sizes that do not fit, and every value an uninitialised int can
have; it counts below zero down to the smallest int, where the model lets the server
stop. Two redirects are the least that put a path after an address, which
is where the server of the one before matters; each is to any of four servers.

Symmetry (of threads, sessions and posts) is used in runs with safety properties only, and
model values are then compared for equality only. `CHECK_DEADLOCK FALSE` stands
where bounded traffic or the end of the process leaves nothing to do.

**Fairness.** `server_live` assumes that a thread inside a handler keeps running
and that `io_service::run` keeps taking completed operations of each session:
that is what a pool of threads in `run` does while a thread is free. It assumes that handlers
terminate and do not throw, except that `MaxBlocked` of them may wait for another
server for ever: one of two threads, so that one is left. (With one thread and one
blocked handler `Answered` is false: as many silent servers as there are threads stop
the server, as nothing in `read_response` limits the time.) The peers, the acceptor and
other servers owe nothing; with bounded traffic weak fairness is enough.
`proxy` assumes that the pool thread goes on, that a read has an end, and that the
other server does not keep an incomplete response open for ever (strong fairness of
`ReadError`: the server may send any number of bytes before). That is an assumption
about the other server, and `server_live` shows what happens without it.
`database` assumes that blocking queries end.

## 4. Findings

- `record_received_request` (`src/status_request_handler.cc:114`) appends to a string and
  increments a counter without a lock: counts get lost, records get lost or torn, and the
  process may end (`status_race`). What does hold is that the counter never exceeds what
  was served, and that the list is exact until two appends overlap
  (`RecordedWereServed`).
- `form_to_value_` (`src/blog_upload_request_handler.cc:53`) is a member of the
  shared handler: overlapping requests store each other's fields
  (`blog_shared_form`).
- The body is decoded before it is split (`:52`): an escaped `&` ends a field, an
  escaped `=` is dropped. `IsolatedPostIsStored` therefore leaves fields with these two
  characters out; without them and without overlap every post is stored as submitted.
- Bigtable row keys are ordered as strings (`bigtable/src/blog_bigtable.cc:59`):
  from the tenth on, `"9"` stays last, so every insert overwrites row 10. An insert whose
  read was whole overwrites nothing else (`OnlyKeyTenIsOverwritten`); without its
  exception for key 10 the property is violated.
- `insert_blog` goes on after a read that failed (`bigtable/src/blog_bigtable.cc:59`): the
  post may be written over any other, or under a key that leaves a gap. Both properties
  of `bigtable` make an exception for such a write (`Misled`); without it TLC finds one
  thread overwriting a row other than 10.
- `get_status_handler` looks under the literal `/status`
  (`src/request_dispatcher.cc:207`): configured elsewhere it returns null, which
  `session.cc` dereferences, and writes to the shared map. `LookupsDoNotWrite` is
  conditional on `/status` for this reason.
- The proxy connects to the configured port after a redirect to another one
  (`src/proxy_request_handler.cc:331`, `proxy_port`).
- It cuts the scheme off a redirect (`:364`): one to https is followed in plain http, and
  at port 80 if the address has no port. A path with `//` in its query is taken for an
  address (`:350`). `ReachesNamedServer` and `AsksNamedServer` are conditional on
  `readable`, which leaves out both, and what is redirected to from there.
- `handle_property` puts the location in front of every link
  (`src/proxy_request_handler.cc:137`), whatever the page is. A relative link of a page in
  a directory further down comes out at the top; an absolute link comes out below the path
  of the other server, if the configuration has one; and so on for the empty link.
  `LinksLeadBack` states the links that are taken right (`NamedFromTop`); without that
  condition it is violated.

Modelled as the code has it, with no run of their own: the byte after the blank
line's carriage return is not checked when a body follows
(`src/request_parser.cc:235`); in Bigtable the first post gets id -1, a missing row
is returned as an empty post (`:88`), and an insert whose write failed returns an id
(`:67`); a session that was shut down in order is never freed
(`src/session.cc:138`); a post number too large for an int ends the process
(`src/blog_upload_request_handler.cc:65`); a missing database connection does so at
the first call (`src/blog_database.cc:47`). In the configuration parser: a proxy's port
before its host becomes the port of the server; comments are not skipped by the flags
(`src/NginxConfigParser.cc:391` comes after them), so that `port # why` loses the port;
`location ;` stores the empty location; an invalid proxy port throws from its own error
path (`:251`); and `main` ignores what `Parse` returned.

In the proxy and its parser: redirects are followed without a limit (`:361`), and
`Returns` is about servers that stop redirecting; a server that is down, a port that is no number, bad gzip data
and an empty HTML document end the process; a response that does not end with a read, or
has no Content-Length, waits for a length that nobody sent or fails, or, cut short,
passes for a whole one: `SuccessIsWhole` is about responses with a length or chunks
(`include/response_parser.h:47`, `src/response_parser.cc:251`); a missing carriage
return after a chunk makes the rest of the response its body (`:303`); chunked
responses other than HTML are passed on with `Transfer-Encoding: chunked` and without
chunks; `to_buffer` turns 502, 503 and all other codes it does not know into 400, so
that the client never sees the 502 of `get_error_response`.

In the handlers' paths: the static handler appends the whole URI to its root when the
URI is the location itself; a static location `/` serves nothing but `/`; a proxy
location with a space cuts the URI in the wrong place, and the proxy location `/` sends
URIs without their slash (`src/proxy_request_handler.cc:408`) and rewrites links to
`//...`, which a browser takes for another server; a relative link that begins with
`http` is not rewritten, and one with another scheme (`mailto:`) is, which `Link` leaves
out with queries and dot segments; a proxy or blog location below a static one is never reached. The properties
of `routing` name these cases as their conditions.

## 5. The proofs

All theorems are about the same definitions that TLC checks, for every value of the
constants that satisfies the named assumptions: any pool, any number of sessions,
requests, posts and calls, any largest int, any configuration and any files. The
assumptions (`ServerAssumption`, `ParserAssumption`, `ProxyAssumption`,
`BlogAssumption`, `DatabaseAssumption`, `HandlerAssumption`, `BigtableAssumption`,
`DispatcherAssumption`, `RoutingAssumption`, `ConfigAssumption`) say what kind of thing
a constant is, and TLC evaluates each of them on a run.

**Server, sessions.** `Inv` is `TypeOK`, `RunsInSession` (a thread in a handler is bound
to a session), `SessionExclusive`, `NoDangling` and `OneAcceptor`. None of the last three
is inductive alone. That a deleted session has nothing outstanding needs that the
operation just taken was its only one; that needs exclusiveness; that an accepted
session is fresh needs `NoDangling` of the unborn ones; the
acceptor's turn is lost unless operations of other sessions are never `accept`. The
proof sorts all steps into a few kinds (quiet, inside a handler, entering,
exchanging one operation for another, finishing, the acceptor's two) and makes the
argument once per kind. From `Inv` follow `ServerTypeCorrect`,
`NoTwoThreadsInASession`, `NoUseAfterDelete`, `AlwaysOneAcceptor` and, as an action
property, `ResponseStableWhileWritten`: who assigns `response_` owns the session, so
that no write of it is outstanding.

**Server, traffic.** `Traffic` says of every connection where each request is on its
way: the segments in the socket are of consecutive requests, from the first that was
not read completely up to the one the peer is at (`InboxInOrder`, counted from the
responses sent by `Expected`); the builder holds the request that is next to be answered,
and nothing while a write is outstanding (`BuilderInOrder`); a response that is made or
written is that request's (`ResponseInOrder`); whether the session goes on is what the
peer asked for in it (`AsksInOrder`); and of a peer that waits for its answers nothing
of a later request is in the socket (`CleanInbox`). The properties are about what was
sent and forget all this, so none of them is inductive. The proof uses `Inv` all the
time: what one handler reads and writes of a session is stable only because it is alone
there. Theorems: `ResponsesAreInOrder`, `KeepAliveIsHonoured`,
`CleanPeersGetNoBadRequest`.

**Server, status record.** `Status` is about the race: threads load the counter, others
store in between. A loaded counter is at most the number of requests served and already
counted (`Counted`: the requests between the end of their handler and the store of the
counter do not count yet). That is what keeps a lost update from ever becoming one too
many; it needs that no request is served twice, which is a fact about sessions
(`ServedSoFar`). Of the list it says, until two appends overlap, that it has exactly the
requests served that no thread is still to append (`ListExact`); that two threads record
different requests comes from `SessionExclusive`. Theorem: `StatusNeverOvercounts`.

**RequestParser.** `Inv` is `TypeOK`, `StartsFresh`, `BodyComplete`, `BodyAccounted`
and that the body is empty before the body state. `reset` leaves `contentsize_` as it
is; that it is zero then follows from `BodyComplete`, which follows from
`BodyAccounted`, which needs `StartsFresh` where the headers begin. Theorems:
`ParserTypeCorrect`, `EveryRequestStartsFresh`, `GoodRequestHasItsBody`,
`BodyBytesAccountedFor`.

**ResponseParser, Proxy.** `ParserInv` adds to the three properties of the parser that in
the head an announced length is all still due (`HeadAccounted`), which holds however
often Content-Length comes, and that a body that comes in chunks is not read as one of
announced length (`BodyIsPlain`). `Inv` adds that the address of the next call is the one
that was named, with the *configured* port (`MeantForNamed`, the part of the finding
`proxy_port` that does hold), as long as the last address was readable, and that a reply with the status of the server comes of a
response that was parsed as good (`ReplyIsRead`). Theorems: `ResponseParserTypeCorrect`,
`GoodResponseHasItsBody`, `ResponseBytesAccountedFor`, `SuccessIsAWholeResponse`,
`EveryReplyIsFramed`, `RedirectsReachNamedServer`.

**BlogDatabase.** `Inv` (in `BlogDatabaseProofs`) is `TypeOK`, `HoldsMutex` (who uses
the connection holds the mutex), `InCall` (program counter and call agree),
`TxnIsNew` (an open transaction's id is below the sequence and free), `NotYetUsed`
(nothing is stored at or past the sequence) and `AcknowledgedIsStored`. Theorems:
`OneThreadUsesTheConnection`, `ReturnedIdIsThePosts`, `StoredPostsAreKept`, and
`DatabaseIsAtomicStore`, the refinement of `BlogStore`. Its mapping keeps `posts`,
`call` and `res`, and maps the program counter to idle, called, done (`Stage`): a call
takes effect where its result is fixed, at the commit of an insert (answered or
not), at the query of a read, at the exception of a failing call. Locking, taking the
id and unlocking are stutters.

**BlogHandler.** Two inductive invariants. `GrantInv` is what redirects need: the ids
given out and not sent yet are those of the posts inserted, each given once, and an id
that was sent stays in use (`GrantsAreNew`); it holds whatever the threads do to each
other's form. `OwnInv` is what isolation needs: while a request is alone no other thread
is in the handler (`AloneIsAlone`), and then the map, the arguments copied from it and
the post of the call are its own (`OwnFields`). Theorems: `RedirectsLeadToNewPosts`,
`IsolatedPostsAreTheirOwn` (stored with what parsing its own body alone gives) and
`IsolatedPostsAreAsSubmitted`. The last one needs `FormsReadBack`, a fact about `BlogForm`
alone: decoding and splitting gives back the two values a browser encoded, of any length,
if they contain no separator. `urldecode` goes part by part over a concatenation and undoes
`Encode` (`UrldecodeConcat`, `UrldecodeEncode`), and the loop of `parseRequestBody` is
followed from key to value to key to value (`ParsedKey`, `ParsedValue`).
`HandlerAssumption` says for this that a value is made of characters, which a percent
escape is not. `HandlersUseTheStore` is the refinement that joins the handler to the rest:
to the store, what all the threads do is a behaviour of `BlogStore`, with calls it takes,
one after the other in each thread; `DatabaseIsAtomicStore` shows that the database is
such a store.

**Recursion.** `parseRequestBody` is a `FoldLeft`, and links and escapes are put together
by `FlattenSeq`. Both are recursive functions of the library. That such a function exists,
is unique, and therefore satisfies its two equations (for the empty sequence and for
`Append`) is proved here for these two, and so are facts about all sequences: a set of
sequences that has the empty one, and with each one those longer by an element, has all
(`AllSequences`, from the well-foundedness of the naturals). This is induction with a set
in the place of a predicate, so that no operator is a parameter (`FoldsExists`,
`FoldsUnique`, `ParsedAppend`; `FlattensExists`, `FlattensUnique`, `FlattenAppend`).

**BlogBigtable.** `Inv` is its `TypeOK`, that the thread inside the lock holds the mutex
(`Holder`), and that a key that a whole read has chosen is still the next one when its row
is written (`ChosenIsNext`). It speaks of any table, as failed reads may leave any. The
heart is an argument about the order of numerals as strings: one more than the last key is
free, or it is 10; and of the keys up to n the last is n up to 9, and from then on it is
9. Hence whole reads never lead to a key above 10, whatever `MaxKey` is (it goes up to
99); of what failed reads may lead to, only keys up to `MaxKey` are covered. Theorems:
`BigtableInvariant`, `WholeReadsLeaveNoGap` and `WholeReadsOverwriteTenOnly`, the last two
action properties.

**Dispatcher, Routing.** `RouteInv` follows the construction of the handler map: a type
that has locations is listed (`Listed`); every key has a handler of a type that has this
location, or null if none has (`MapIsRight`, the keys that `operator[]` added included);
the locations of the types the loop is done with are in it, and all of them when the
server runs (`MapIsWhole`). The longest static location wins because the loop of
`longest_prefix_match` comes from the right (`StaticCuts`); the loop of the static handler
compares with its own location only, and finds it because the dispatcher's loop has cut
the same URI there. Theorems:
`AnswersServeTheirURI`, `StaticIsMostSpecific`, `FilesAreBelowTheirLocation` and the
action property `SharedMapIsOnlyRead`. `LinkInv` is about what is sent on: an answer is
what the map has under a location that begins the decoded URI (`AnswerIsFound`), and the
path of the other server is empty or begins with a slash (`PathBegins`, which
`RoutingAssumption` says of what is written after the host: the parser cuts it there). For
a location without escapes, the location begins the undecoded URI too, so that cutting
off its length leaves the rest; for a link, the location that `handle_property` put in
front of it is found again by the dispatcher and cut off by the proxy, and what is then
sent on is, under the conditions of `NamedFromTop`, what the link names on the page. Theorems:
`ProxiedURIsArePaths` and `RewrittenLinksLeadBack`.

**ConfigParser.** `StoredLocationsAreListed` holds for every file: a flag is set only
after the type that owns it was listed (`FlagsListed`), and only flags let a location be
stored. `ProperBlocksAreParsedAsWritten` relates the flags to what is written
(`AsWritten`). The statement read so far has one of six shapes (`Statement`), and each
shape says which flags are set: outside of location blocks (`Outside`), where no flag
may be left by anything read before, and in a block with some statements of its type
(`Inside`), where the flags are those that wait for the rest of it (`Due`), the location
and host kept aside are the block's, and what is stored is what it means so far
(`Knows`). Outside of blocks a statement that makes no sense may leave the flag of the
server's port for the next token, never more, as long as no location was opened; that is
why the ghost `stray` looks at locations there.
The proof has a lemma for each kind of value a block can be given, one for what a word
does in either place, and one for each action.

**Only model-checked.** Liveness (`Answered`, `CallsReturn`, `Returns`), which these
provers cannot do. Every invariant and every action property of a passing run is a
theorem.

## 6. Not modelled

- `to_buffers`, `stock_response` and `build_request_string`: formatting without state.
- Of the static handler: the file, its content and its MIME type. Of the proxy handler:
  responses without a body whatever their headers say (to HEAD, 204, 304), what libxml2
  and zlib make of a document, and the text of requests.
- The page of the status handler. Its list of handlers leaves out all types but echo,
  static and proxy (`src/status_request_handler.cc:30`).
- Echo, health, 404, redirect, upload form: one fixed or formatted response, no state.
- Mock database: unit tests only. Build files, deployment and test scripts: no server
  logic.
- Wording, HTML, log messages, socket options, resource exhaustion other than the
  allocation failure in `reserve`.
- In `Server`, two threads in the same handler object other than the status handler's
  record; that is `BlogHandler` and `Dispatcher`. The proxy and static handlers keep no state
  that requests change.

## 7. Plan

1. `ConfigParser` composed with `Dispatcher`, in place of `AddLocation`, with
   `ParsedAsWritten` as the link.
2. A composition of `RequestParser` and `Server`, showing that the coarse parser of
   `Server` is what the byte-level one does.
3. Proofs of what these compositions promise.
