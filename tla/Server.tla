------------------------------- MODULE Server -------------------------------
(***************************************************************************)
(* The connection layer of the web server: one acceptor (server.cc), one   *)
(* session object per connection (session.cc), and the pool of threads     *)
(* that all run the same io_service (server_main.cc).                      *)
(*                                                                         *)
(* An asynchronous operation is a member of pending[s]; a pool thread      *)
(* takes an operation that can complete and runs its handler.  A handler   *)
(* touches the session it is bound to and, through the dispatcher, the     *)
(* status handler, which is shared by every thread and has no lock.        *)
(* Handler code that touches only its own session is one step; the parts   *)
(* that touch shared state are steps of their own.                         *)
(***************************************************************************)
EXTENDS Integers, Sequences, FiniteSets

CONSTANTS Thread,         \* the pool of THREAD_POOL_SIZE threads
          Session,        \* the session objects that new session() returns
          NoSession,      \* what a thread outside every session is bound to
          MaxRequests,    \* bound: requests a client sends on one connection
          MaxBlocked,     \* bound: threads that wait for another server at a time
          StatusEnabled,  \* request_dispatcher::status_handler_enabled
          MayThrow        \* can a request handler throw?

ASSUME ServerAssumption ==
         /\ NoSession \notin Session
         /\ MaxRequests \in Nat /\ MaxBlocked \in Nat
         /\ StatusEnabled \in BOOLEAN
         /\ MayThrow \in BOOLEAN

VARIABLES
  up,        \* FALSE once the process has exited or was terminated
  mem,       \* session -> unborn, open, shut (socket shut down, object kept), deleted
  pending,   \* session -> the asynchronous operations started and not yet handled
  pc,        \* thread -> the step it is at; "idle" is waiting in io_service::run
  cur,       \* thread -> the session whose handler it runs
  parser,    \* session -> request_parser_: start, middle or complete (state_)
  builder,   \* session -> request_builder_: whose bytes it holds, keep_alive
  response,  \* session -> response_
  client,    \* session -> the peer: its next request, whether it is in the middle of
             \*   it or gone, which of its requests asked for keep-alive, and whether
             \*   it is clean: nothing invalid, no request before the last response
  inbox,     \* session -> bytes in the socket, as a sequence of segments
  sent,      \* session -> the responses written to the socket, oldest first
  list,      \* status handler: received_request_list, as a set of records
  counter,   \* status handler: request_counter
  tmp,       \* thread -> the value it loaded from counter
  served,    \* ghost: the requests some handle_request has returned for
  raced      \* ghost: two threads were in an append to list at once

connVars   == <<parser, builder, response, client, inbox, sent>>
statusVars == <<list, counter, tmp, served, raced>>
vars == <<up, mem, pending, pc, cur, connVars, statusVars>>

Ops == {"accept", "read", "write", "close"}
Working == {"handle_request", "blocked", "append_begin", "append_end",
            "count_load", "count_store", "respond"}
PC == Working \cup {"idle", "start_accept"}

Segment == [req : Nat, kind : {"part", "end", "bad"}, ka : BOOLEAN]
Builder == [reqs : SUBSET Nat, last : Nat, ka : BOOLEAN]
FreshBuilder == [reqs |-> {}, last |-> 0, ka |-> FALSE]
NoResponse == [reqs |-> {}, code |-> "none"]
Response == [reqs : SUBSET Nat, code : {"none", "ok", "bad_request"}]
Client == [next : Nat, mid : BOOLEAN, gone : BOOLEAN, asked : Seq(BOOLEAN), clean : BOOLEAN]
NewClient == [next |-> 1, mid |-> FALSE, gone |-> FALSE, asked |-> <<>>, clean |-> TRUE]

Run(t, s) == pc[t] \in Working /\ cur[t] = s
Idle(t) == up /\ pc[t] = "idle"

-----------------------------------------------------------------------------
(* request_parser::parse over the segments one read returned.  A part is a *)
(* proper prefix of a request, an end the rest of it (with the headers,    *)
(* ka tells whether they ask for keep-alive).  The first byte after the    *)
(* end of a request in the same read makes the whole read bad.             *)

\* What parse returns, having looked at the first i of k segments of inbox[s].
ParseResult(s, k, i) ==
  IF parser[s] = "complete" \/ inbox[s][i].kind = "bad" THEN "bad"
  ELSE IF inbox[s][i].kind = "part" THEN "indeterminate"
  ELSE IF i = k THEN "good" ELSE "bad"

\* The builder after the first i segments: it keeps what it already held.
Filled(b, s, i) ==
  [reqs |-> b.reqs \cup {inbox[s][j].req : j \in 1..i},
   last |-> inbox[s][i].req,
   ka   |-> b.ka \/ (inbox[s][i].kind = "end" /\ inbox[s][i].ka)]

-----------------------------------------------------------------------------
Init ==
  /\ up = TRUE
  \* The server constructor has called start_accept for a first session.
  /\ \E s \in Session :
       /\ mem = [x \in Session |-> IF x = s THEN "open" ELSE "unborn"]
       /\ pending = [x \in Session |-> IF x = s THEN {"accept"} ELSE {}]
  /\ pc = [t \in Thread |-> "idle"]
  /\ cur = [t \in Thread |-> NoSession]
  /\ parser = [s \in Session |-> "start"]
  /\ builder = [s \in Session |-> FreshBuilder]
  /\ response = [s \in Session |-> NoResponse]
  /\ client = [s \in Session |-> NewClient]
  /\ inbox = [s \in Session |-> <<>>]
  /\ sent = [s \in Session |-> <<>>]
  /\ list = {} /\ counter = 0
  /\ tmp = [t \in Thread |-> 0]
  /\ served = {} /\ raced = FALSE

-----------------------------------------------------------------------------
(* The peer of a connection.                                               *)

\* The peer sends the next piece of its current request, or invalid bytes.
Send(s, kind, ka) ==
  /\ up /\ mem[s] = "open" /\ pending[s] # {"accept"} /\ ~client[s].gone
  /\ client[s].next <= MaxRequests
  /\ kind = "part" => ~client[s].mid
  /\ kind # "end" => ka = FALSE
  /\ inbox' = [inbox EXCEPT ![s] =
                 Append(@, [req |-> client[s].next, kind |-> kind, ka |-> ka])]
  /\ client' = [client EXCEPT ![s] =
       [next  |-> CASE kind = "part" -> @.next
                    [] kind = "end"  -> @.next + 1
                    [] kind = "bad"  -> MaxRequests + 1,
        mid   |-> kind = "part",
        gone  |-> @.gone,
        asked |-> IF kind = "end" THEN Append(@.asked, ka) ELSE @.asked,
        clean |-> @.clean /\ kind # "bad" /\ Len(sent[s]) = @.next - 1]]
  /\ UNCHANGED <<up, mem, pending, pc, cur, parser, builder, response, sent, statusVars>>

\* The peer closes the connection, or it breaks.
Leave(s) ==
  /\ up /\ mem[s] = "open" /\ pending[s] # {"accept"} /\ ~client[s].gone
  /\ client' = [client EXCEPT ![s].gone = TRUE]
  /\ UNCHANGED <<up, mem, pending, pc, cur, parser, builder, response, inbox, sent,
                 statusVars>>

-----------------------------------------------------------------------------
(* server::handle_accept and server::start_accept.                         *)

HandleAccept(t, s) ==
  /\ Idle(t) /\ "accept" \in pending[s]
  /\ pending' = [pending EXCEPT ![s] = (@ \ {"accept"}) \cup {"read"}]  \* session::start
  /\ pc' = [pc EXCEPT ![t] = "start_accept"]
  /\ UNCHANGED <<up, mem, cur, connVars, statusVars>>

\* Mutant: the error branch returns without accepting again.
HandleAcceptErrorReturns(t, s) ==
  /\ Idle(t) /\ "accept" \in pending[s]
  /\ pending' = [pending EXCEPT ![s] = @ \ {"accept"}]
  /\ mem' = [mem EXCEPT ![s] = "deleted"]
  /\ UNCHANGED <<up, pc, cur, connVars, statusVars>>

\* Accepting failed: the session is deleted, and the next one is awaited.
HandleAcceptError(t, s) ==
  /\ Idle(t) /\ "accept" \in pending[s]
  /\ pending' = [pending EXCEPT ![s] = @ \ {"accept"}]
  /\ mem' = [mem EXCEPT ![s] = "deleted"]
  /\ pc' = [pc EXCEPT ![t] = "start_accept"]
  /\ UNCHANGED <<up, cur, connVars, statusVars>>

StartAccept(t, s) ==
  /\ up /\ pc[t] = "start_accept"
  /\ mem[s] = "unborn"
  /\ mem' = [mem EXCEPT ![s] = "open"]
  /\ pending' = [pending EXCEPT ![s] = @ \cup {"accept"}]
  /\ pc' = [pc EXCEPT ![t] = "idle"]
  /\ UNCHANGED <<up, cur, connVars, statusVars>>

\* Bound: when every member of Session was used, nothing more is accepted.
StartAcceptBound(t) ==
  /\ up /\ pc[t] = "start_accept"
  /\ \A s \in Session : mem[s] # "unborn"
  /\ pc' = [pc EXCEPT ![t] = "idle"]
  /\ UNCHANGED <<up, mem, pending, cur, connVars, statusVars>>

-----------------------------------------------------------------------------
(* session::handle_read.                                                   *)

\* A read completed with the first k segments in the socket, and parse went
\* through the first i of them: it goes on for as long as they are parts.
Read(t, s, k, i, result) ==
  /\ Idle(t) /\ "read" \in pending[s]
  /\ k \in 1..Len(inbox[s]) /\ i \in 1..k
  /\ \A j \in 1..(i - 1) : inbox[s][j].kind = "part"
  /\ inbox[s][i].kind = "part" => i = k
  /\ ParseResult(s, k, i) = result
  /\ inbox' = [inbox EXCEPT ![s] = SubSeq(@, k + 1, Len(@))]
  /\ builder' = [builder EXCEPT ![s] = Filled(@, s, i)]

\* Good: the thread goes on to the request's handler.
HandleReadGood(t, s, k) ==
  /\ Read(t, s, k, k, "good")
  /\ parser' = [parser EXCEPT ![s] = "complete"]
  /\ pending' = [pending EXCEPT ![s] = @ \ {"read"}]
  /\ pc' = [pc EXCEPT ![t] = "handle_request"]
  /\ cur' = [cur EXCEPT ![t] = s]
  /\ UNCHANGED <<up, mem, response, client, sent, statusVars>>

\* Mutant: bad requests are recorded by the status handler too.
HandleReadBadRecorded(t, s, k, i) ==
  /\ Read(t, s, k, i, "bad")
  /\ response' = [response EXCEPT ![s] =
                    [reqs |-> builder'[s].reqs, code |-> "bad_request"]]
  /\ pending' = [pending EXCEPT ![s] = (@ \ {"read"}) \cup {"close"}]
  /\ list' = list \cup {<<s, builder'[s].last>>}
  /\ UNCHANGED <<up, mem, pc, cur, parser, client, sent, counter, tmp, served, raced>>

\* Bad: the stock 400 response, then the connection is shut down.
HandleReadBad(t, s, k, i) ==
  /\ Read(t, s, k, i, "bad")
  /\ response' = [response EXCEPT ![s] =
                    [reqs |-> builder'[s].reqs, code |-> "bad_request"]]
  /\ pending' = [pending EXCEPT ![s] = (@ \ {"read"}) \cup {"close"}]
  /\ UNCHANGED <<up, mem, pc, cur, parser, client, sent, statusVars>>

\* Mutant: an incomplete request does not start another read.
HandleReadMoreStops(t, s, k) ==
  /\ Read(t, s, k, k, "indeterminate")
  /\ parser' = [parser EXCEPT ![s] = "middle"]
  /\ pending' = [pending EXCEPT ![s] = @ \ {"read"}]
  /\ UNCHANGED <<up, mem, pc, cur, response, client, sent, statusVars>>

\* Indeterminate: keep on reading; no thread waits for the rest.
HandleReadMore(t, s, k) ==
  /\ Read(t, s, k, k, "indeterminate")
  /\ parser' = [parser EXCEPT ![s] = "middle"]
  /\ UNCHANGED <<up, mem, pending, pc, cur, response, client, sent, statusVars>>

\* Mutant: after delete this, the handler falls through to the next read.
DeleteFallsThrough(t, s, op) ==
  /\ Idle(t) /\ op \in pending[s] /\ client[s].gone
  /\ pending' = [pending EXCEPT ![s] = (@ \ {op}) \cup {"read"}]
  /\ mem' = [mem EXCEPT ![s] = "deleted"]
  /\ UNCHANGED <<up, pc, cur, connVars, statusVars>>

\* Deleting a session: the object is gone, and nothing is started.
Delete(t, s, op) ==
  /\ Idle(t) /\ op \in pending[s] /\ client[s].gone
  /\ pending' = [pending EXCEPT ![s] = @ \ {op}]
  /\ mem' = [mem EXCEPT ![s] = "deleted"]
  /\ UNCHANGED <<up, pc, cur, connVars, statusVars>>

HandleReadError(t, s) == Delete(t, s, "read")

-----------------------------------------------------------------------------
(* The rest of handle_read for a good request, on the thread that read it. *)

\* get_handler(uri)->handle_request(req) has returned.
HandlerReturns(t) ==
  /\ LET s == cur[t] IN
       /\ response' = [response EXCEPT ![s] =
                         [reqs |-> builder[s].reqs, code |-> "ok"]]
       /\ served' = served \cup {<<s, builder[s].last>>}
  /\ pc' = [pc EXCEPT ![t] = IF StatusEnabled THEN "append_begin" ELSE "respond"]
  /\ UNCHANGED <<up, mem, pending, cur, parser, builder, client, inbox, sent,
                 list, counter, tmp, raced>>

HandleRequest(t) == up /\ pc[t] = "handle_request" /\ HandlerReturns(t)

\* The proxy handler waits in read_some, on the pool thread and without a
\* time limit, for a server that may never answer.
Block(t) ==
  /\ up /\ pc[t] = "handle_request"
  /\ Cardinality({u \in Thread : pc[u] = "blocked"}) < MaxBlocked
  /\ pc' = [pc EXCEPT ![t] = "blocked"]
  /\ UNCHANGED <<up, mem, pending, cur, connVars, statusVars>>

Unblock(t) == up /\ pc[t] = "blocked" /\ HandlerReturns(t)

\* An exception that leaves a handler leaves io_service::run on a pool
\* thread, where nothing catches it: the process is terminated.
HandlerThrows(t) ==
  /\ up /\ pc[t] = "handle_request" /\ MayThrow
  /\ up' = FALSE
  /\ UNCHANGED <<mem, pending, pc, cur, connVars, statusVars>>

(* status_request_handler::record_received_request: an append to a string  *)
(* and an increment, with no lock around them.  The append copies the      *)
(* bytes of the record into the string's buffer, in place or in a larger   *)
(* one, and then sets the length: while a thread is at it, another one may *)
(* start.                                                                  *)
Appending == {t \in Thread : pc[t] = "append_end"}
Record(t) == <<cur[t], builder[cur[t]].last>>

\* Text in the list that is the record of no request: bytes of two records
\* mixed, half of one, or what the buffer held before.
Torn == <<NoSession, 0>>

AppendBegin(t) ==
  /\ up /\ pc[t] = "append_begin"
  /\ pc' = [pc EXCEPT ![t] = "append_end"]
  /\ raced' = (raced \/ Appending # {})
  /\ UNCHANGED <<up, mem, pending, cur, connVars, list, counter, tmp, served>>

\* Once two appends have overlapped the string is anything: records, of
\* appends that have not ended too, may be in it, torn or lost.
AppendEnd(t) ==
  /\ up /\ pc[t] = "append_end"
  /\ \/ ~raced /\ list' = list \cup {Record(t)}
     \/ raced /\ list' \in SUBSET (list \cup {Record(u) : u \in Appending} \cup {Torn})
  /\ pc' = [pc EXCEPT ![t] = "count_load"]
  /\ UNCHANGED <<up, mem, pending, cur, connVars, counter, tmp, served, raced>>

\* They may also free the buffer twice, or write outside it.
AppendRace(t) ==
  /\ up /\ pc[t] = "append_end" /\ raced
  /\ up' = FALSE
  /\ UNCHANGED <<mem, pending, pc, cur, connVars, statusVars>>

CountLoad(t) ==
  /\ up /\ pc[t] = "count_load"
  /\ tmp' = [tmp EXCEPT ![t] = counter]
  /\ pc' = [pc EXCEPT ![t] = "count_store"]
  /\ UNCHANGED <<up, mem, pending, cur, connVars, list, counter, served, raced>>

\* Mutant: the counter is decremented.
CountStoreDown(t) ==
  /\ up /\ pc[t] = "count_store"
  /\ counter' = tmp[t] - 1
  /\ tmp' = [tmp EXCEPT ![t] = 0]
  /\ pc' = [pc EXCEPT ![t] = "respond"]
  /\ UNCHANGED <<up, mem, pending, cur, connVars, list, served, raced>>

CountStore(t) ==
  /\ up /\ pc[t] = "count_store"
  /\ counter' = tmp[t] + 1
  /\ tmp' = [tmp EXCEPT ![t] = 0]
  /\ pc' = [pc EXCEPT ![t] = "respond"]
  /\ UNCHANGED <<up, mem, pending, cur, connVars, list, served, raced>>

\* Mutants: only one of the two is renewed.
RenewParserOnly(s) ==
  parser' = [parser EXCEPT ![s] = "start"] /\ UNCHANGED builder

RenewBuilderOnly(s) ==
  builder' = [builder EXCEPT ![s] = FreshBuilder] /\ UNCHANGED parser

\* The parser is reset and the builder replaced, ready for the next request.
Renew(s) ==
  /\ parser' = [parser EXCEPT ![s] = "start"]
  /\ builder' = [builder EXCEPT ![s] = FreshBuilder]

\* Mutant: the next request is read while the response is being written.
StartWriteAndRead(s, op) ==
  pending' = [pending EXCEPT ![s] = @ \cup {op, "read"}]

StartWrite(s, op) == pending' = [pending EXCEPT ![s] = @ \cup {op}]

\* Start writing response_.  The session is renewed before the write starts;
\* starting it is the last access of this handler to the session.
Respond(t) ==
  /\ up /\ pc[t] = "respond"
  /\ \/ builder[cur[t]].ka /\ Renew(cur[t]) /\ StartWrite(cur[t], "write")
     \/ /\ ~builder[cur[t]].ka /\ StartWrite(cur[t], "close")
        /\ UNCHANGED <<parser, builder>>
  /\ pc' = [pc EXCEPT ![t] = "idle"]
  /\ cur' = [cur EXCEPT ![t] = NoSession]
  /\ UNCHANGED <<up, mem, response, client, inbox, sent, statusVars>>

-----------------------------------------------------------------------------
(* session::handle_write and session::shutdown, the two write completions. *)

HandleWrite(t, s) ==
  /\ Idle(t) /\ "write" \in pending[s]
  /\ sent' = [sent EXCEPT ![s] = Append(@, response[s])]
  /\ pending' = [pending EXCEPT ![s] = (@ \ {"write"}) \cup {"read"}]
  /\ UNCHANGED <<up, mem, pc, cur, parser, builder, response, client, inbox, statusVars>>

HandleWriteError(t, s) == Delete(t, s, "write")

\* The socket is shut down; the session object is not deleted.
Shutdown(t, s) ==
  /\ Idle(t) /\ "close" \in pending[s]
  /\ sent' = [sent EXCEPT ![s] = Append(@, response[s])]
  /\ pending' = [pending EXCEPT ![s] = @ \ {"close"}]
  /\ mem' = [mem EXCEPT ![s] = "shut"]
  /\ UNCHANGED <<up, pc, cur, parser, builder, response, client, inbox, statusVars>>

ShutdownError(t, s) == Delete(t, s, "close")

\* handle_sigterm and handle_sigint: exit(1), whatever the threads are doing.
Signal ==
  /\ up /\ up' = FALSE
  /\ UNCHANGED <<mem, pending, pc, cur, connVars, statusVars>>

-----------------------------------------------------------------------------
\* What a pool thread does next inside the handler it runs.
Continue(t) ==
  \/ HandleRequest(t) \/ HandlerThrows(t)
  \/ AppendBegin(t) \/ AppendEnd(t) \/ AppendRace(t)
  \/ CountLoad(t) \/ CountStore(t)
  \/ Respond(t)
  \/ \E s \in Session : StartAccept(t, s)
  \/ StartAcceptBound(t)

\* The handlers of the operations of an established connection.
Complete(t, s) ==
  \/ \E k \in 1..(2 * MaxRequests) : HandleReadGood(t, s, k) \/ HandleReadMore(t, s, k)
  \/ \E k, i \in 1..(2 * MaxRequests) : HandleReadBad(t, s, k, i)
  \/ HandleReadError(t, s)
  \/ HandleWrite(t, s) \/ HandleWriteError(t, s)
  \/ Shutdown(t, s) \/ ShutdownError(t, s)

Accept(t, s) == HandleAccept(t, s) \/ HandleAcceptError(t, s)

Peer(s) ==
  \/ \E kind \in {"part", "end", "bad"}, ka \in BOOLEAN : Send(s, kind, ka)
  \/ Leave(s)

Next ==
  \/ \E t \in Thread : Continue(t) \/ Block(t) \/ Unblock(t)
  \/ \E t \in Thread, s \in Session : Accept(t, s) \/ Complete(t, s)
  \/ \E s \in Session : Peer(s)
  \/ Signal

Spec == Init /\ [][Next]_vars

\* A thread in a handler keeps running, and io_service::run keeps taking
\* completed operations.  The peers, the acceptor and the servers that the
\* proxy handler asks owe nothing.
Fairness ==
  /\ \A t \in Thread : WF_vars(Continue(t))
  /\ \A s \in Session : WF_vars(\E t \in Thread : Complete(t, s))

FairSpec == Spec /\ Fairness

-----------------------------------------------------------------------------
(* Properties.                                                             *)

TypeOK ==
  /\ up \in BOOLEAN
  /\ mem \in [Session -> {"unborn", "open", "shut", "deleted"}]
  /\ pending \in [Session -> SUBSET Ops]
  /\ pc \in [Thread -> PC]
  /\ cur \in [Thread -> Session \cup {NoSession}]
  /\ parser \in [Session -> {"start", "middle", "complete"}]
  /\ builder \in [Session -> Builder]
  /\ response \in [Session -> Response]
  /\ client \in [Session -> Client]
  /\ inbox \in [Session -> Seq(Segment)]
  /\ sent \in [Session -> Seq(Response)]
  /\ list \subseteq (Session \X Nat) \cup {Torn}
  /\ counter \in Nat
  /\ tmp \in [Thread -> Nat]
  /\ served \subseteq Session \X Nat
  /\ raced \in BOOLEAN

(* At any time a session has one outstanding operation, or one thread in   *)
(* its handler, and never both: no two pool threads are ever in the code   *)
(* of the same session, although session.cc takes no lock and no strand.   *)
SessionExclusive ==
  \A s \in Session :
    /\ \A a, b \in pending[s] : a = b
    /\ \A t \in Thread : Run(t, s) => pending[s] = {}
    /\ \A t, u \in Thread : Run(t, s) /\ Run(u, s) => t = u

(* No operation is outstanding on, and no thread runs in, a session that   *)
(* was deleted, was shut down or does not exist yet: "delete this" is      *)
(* never followed by a completion that uses the object, or by another      *)
(* delete of it.                                                           *)
NoDangling ==
  \A s \in Session :
    mem[s] # "open" => pending[s] = {} /\ \A t \in Thread : ~Run(t, s)

Accepting(s) == "accept" \in pending[s]

(* There is always exactly one session waiting in async_accept, or exactly *)
(* one thread about to put one there, whichever connections failed, as     *)
(* long as Session is not used up.                                         *)
OneAcceptor ==
  /\ \A r, s \in Session : Accepting(r) /\ Accepting(s) => r = s
  /\ \A t, u \in Thread :
       pc[t] = "start_accept" /\ pc[u] = "start_accept" => t = u
  /\ \A s \in Session, t \in Thread : ~(Accepting(s) /\ pc[t] = "start_accept")
  /\ (\E s \in Session : mem[s] = "unborn")
       => \/ \E s \in Session : Accepting(s)
          \/ \E t \in Thread : pc[t] = "start_accept"

\* A thread in a session's handler is bound to a session.
RunsInSession == \A t \in Thread : pc[t] \in Working => cur[t] \in Session

\* The inductive invariant behind the three properties above: each of them
\* needs the others for its own induction step.
Inv ==
  TypeOK /\ RunsInSession /\ SessionExclusive /\ NoDangling /\ OneAcceptor

(* The i-th response on a connection answers the i-th request and holds    *)
(* nothing of another one: keep-alive leaves no bytes of a request behind. *)
ResponsesInOrder ==
  \A s \in Session : \A i \in DOMAIN sent[s] :
    sent[s][i].code = "ok" => sent[s][i].reqs = {i}

(* The connection outlives a response exactly when that request asked for  *)
(* keep-alive, whatever earlier requests of the connection asked for.      *)
KeepAliveHonoured ==
  \A s \in Session :
    /\ \A i \in DOMAIN sent[s] :
         i < Len(sent[s]) \/ "read" \in pending[s] => client[s].asked[i]
    /\ mem[s] = "shut" /\ sent[s][Len(sent[s])].code = "ok"
         => ~client[s].asked[Len(sent[s])]

(* A peer that sends valid requests, each after the response to the one    *)
(* before, in as many pieces as it likes, is never answered 400.           *)
NoSpuriousBadRequest ==
  \A s \in Session : response[s].code = "bad_request" => ~client[s].clean

\* t has still to list the request it records.
Unlisted(t) == pc[t] \in {"append_begin", "append_end"}

(* The status handler never counts more requests than were served, in      *)
(* every interleaving of the recording threads; and as long as no two of   *)
(* them were in the append to its string at once, its list holds every     *)
(* request a handler was run for, but those still being recorded, and no   *)
(* other.                                                                  *)
RecordedWereServed ==
  /\ counter <= Cardinality(served)
  /\ StatusEnabled /\ ~raced
       => list = served \ {Record(t) : t \in {u \in Thread : Unlisted(u)}}

(* When no thread is inside a handler, the status handler has recorded     *)
(* every request that was served ("The list of all requests received by    *)
(* the webserver is stored", README.md).                                   *)
StatusRecordsAll ==
  (\A t \in Thread : pc[t] \notin Working)
    => list = served /\ counter = Cardinality(served)

(* response_ does not change while async_write may still be reading it:    *)
(* to_buffers copies nothing.                                              *)
WriteStable ==
  [][\A s \in Session :
       pending[s] \cap pending'[s] \cap {"write", "close"} # {}
         => response'[s] = response[s]]_vars

(* A complete request of a clean peer is answered, however many other      *)
(* connections sit on partial requests ("It shouldn't block on the partial *)
(* request", multithreading_test.py), and although handlers of others wait *)
(* for ever, as long as a thread is left, unless the peer or the process   *)
(* goes or its own handler waits.                                          *)
Answered ==
  \A s \in Session, n \in 1..MaxRequests :
    client[s].clean /\ client[s].next > n
      ~> \/ Len(sent[s]) >= n
         \/ client[s].gone \/ ~client[s].clean \/ ~up
         \/ \E t \in Thread : pc[t] = "blocked" /\ cur[t] = s
=============================================================================
