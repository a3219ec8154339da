---------------------------- MODULE ServerProofs ----------------------------
(***************************************************************************)
(* Proofs about Server, for any number of threads and sessions and any     *)
(* traffic.                                                                *)
(***************************************************************************)
EXTENDS Server, FiniteSetTheorems, SequenceTheorems, TLAPS

\* What remains in the socket after a read is still a sequence of segments.
LEMMA RestOfInbox ==
  ASSUME NEW q \in Seq(Segment), NEW k \in 1..Len(q)
  PROVE  SubSeq(q, k + 1, Len(q)) \in Seq(Segment)
<1>1. \A i \in (k + 1)..Len(q) : q[i] \in Segment
  OBVIOUS
<1> QED
  BY <1>1, SubSeqProperties

\* The builder that parse leaves behind is a builder.
LEMMA FilledType ==
  ASSUME TypeOK, NEW s \in Session, NEW i \in 1..Len(inbox[s])
  PROVE  Filled(builder[s], s, i) \in Builder
<1>1. \A j \in 1..i : inbox[s][j] \in Segment
  BY DEF TypeOK
<1>2. \A j \in 1..i : inbox[s][j].req \in Nat
  BY <1>1 DEF Segment
<1>3. builder[s] \in Builder
  BY DEF TypeOK
<1> QED
  BY <1>2, <1>3 DEF Filled, Builder

(* What a read does to the variables Read constrains. *)
LEMMA ReadType ==
  ASSUME TypeOK, NEW t \in Thread, NEW s \in Session, NEW k, NEW i, NEW r,
         Read(t, s, k, i, r)
  PROVE  /\ inbox' \in [Session -> Seq(Segment)]
         /\ builder' \in [Session -> Builder]
<1>1. k \in 1..Len(inbox[s]) /\ i \in 1..Len(inbox[s])
  BY DEF Read, TypeOK
<1>2. SubSeq(inbox[s], k + 1, Len(inbox[s])) \in Seq(Segment)
  BY <1>1, RestOfInbox DEF TypeOK
<1>3. Filled(builder[s], s, i) \in Builder
  BY <1>1, FilledType
<1>4. inbox' \in [Session -> Seq(Segment)]
  BY <1>2 DEF Read, TypeOK
<1>5. builder' \in [Session -> Builder]
  BY <1>3 DEF Read, TypeOK
<1> QED
  BY <1>4, <1>5

\* Reads keep the types of all variables.
LEMMA TypeRead ==
  ASSUME TypeOK, NEW t \in Thread, NEW s \in Session, NEW k, NEW i,
         \/ HandleReadGood(t, s, k)
         \/ HandleReadBad(t, s, k, i)
         \/ HandleReadMore(t, s, k)
  PROVE  TypeOK'
<1>1. CASE HandleReadGood(t, s, k)
  <2>1. Read(t, s, k, k, "good")
    BY <1>1 DEF HandleReadGood
  <2> QED
    BY <1>1, <2>1, ReadType DEF HandleReadGood, TypeOK, PC, Working, statusVars
<1>2. CASE HandleReadBad(t, s, k, i)
  <2>1. Read(t, s, k, i, "bad")
    BY <1>2 DEF HandleReadBad
  <2>2. builder'[s].reqs \subseteq Nat
    BY <2>1, ReadType DEF Builder
  <2>3. response' \in [Session -> Response]
    BY <1>2, <2>2 DEF HandleReadBad, TypeOK, Response
  <2>4. pending' \in [Session -> SUBSET Ops]
    BY <1>2 DEF HandleReadBad, TypeOK, Ops
  <2> QED
    BY <1>2, <2>1, <2>3, <2>4, ReadType DEF HandleReadBad, TypeOK, statusVars
<1>3. CASE HandleReadMore(t, s, k)
  <2>1. Read(t, s, k, k, "indeterminate")
    BY <1>3 DEF HandleReadMore
  <2> QED
    BY <1>3, <2>1, ReadType DEF HandleReadMore, TypeOK, statusVars
<1> QED
  BY <1>1, <1>2, <1>3

\* The other completions, and the acceptor.
LEMMA TypeComplete ==
  ASSUME TypeOK, NEW t \in Thread, NEW s \in Session,
         \/ Accept(t, s) \/ StartAccept(t, s) \/ StartAcceptBound(t)
         \/ HandleReadError(t, s) \/ HandleWriteError(t, s) \/ ShutdownError(t, s)
         \/ HandleWrite(t, s) \/ Shutdown(t, s)
  PROVE  TypeOK'
<1> USE DEF TypeOK, connVars, statusVars
<1>1. CASE HandleAccept(t, s)
  BY <1>1 DEF HandleAccept, Ops, PC
<1>2. CASE HandleAcceptError(t, s)
  BY <1>2 DEF HandleAcceptError, Ops, PC
<1>3. CASE StartAccept(t, s)
  BY <1>3 DEF StartAccept, Ops, PC
<1>4. CASE StartAcceptBound(t)
  BY <1>4 DEF StartAcceptBound, PC
<1>5. ASSUME NEW op, Delete(t, s, op) PROVE TypeOK'
  BY <1>5 DEF Delete, Ops
<1>6. CASE HandleWrite(t, s)
  <2>1. Append(sent[s], response[s]) \in Seq(Response)
    OBVIOUS
  <2> QED
    BY <1>6, <2>1 DEF HandleWrite, Ops
<1>7. CASE Shutdown(t, s)
  <2>1. Append(sent[s], response[s]) \in Seq(Response)
    OBVIOUS
  <2> QED
    BY <1>7, <2>1 DEF Shutdown, Ops
<1> QED
  BY <1>1, <1>2, <1>3, <1>4, <1>5, <1>6, <1>7
     DEF Accept, HandleReadError, HandleWriteError, ShutdownError

\* The steps of a thread inside a handler.  Every such thread runs in a session.
LEMMA TypeHandler ==
  ASSUME TypeOK, RunsInSession, NEW t \in Thread,
         \/ HandleRequest(t) \/ HandlerThrows(t) \/ Block(t) \/ Unblock(t)
         \/ AppendBegin(t) \/ AppendEnd(t) \/ AppendRace(t)
         \/ CountLoad(t) \/ CountStore(t) \/ Respond(t)
  PROVE  TypeOK'
<1> USE DEF TypeOK, connVars, statusVars
<1> DEFINE s == cur[t]
<1>0. \A u \in Thread : pc[u] \in Working => cur[u] \in Session
  BY DEF RunsInSession
<1>1. CASE HandleRequest(t) \/ Unblock(t)
  <2>0. HandlerReturns(t)
    BY <1>1 DEF HandleRequest, Unblock
  <2>1. s \in Session
    BY <1>0, <1>1 DEF HandleRequest, Unblock, Working
  <2>2. /\ [reqs |-> builder[s].reqs, code |-> "ok"] \in Response
        /\ <<s, builder[s].last>> \in Session \X Nat
    BY <2>1 DEF Response, Builder
  <2>3. response' \in [Session -> Response] /\ served' \subseteq Session \X Nat
    BY <2>0, <2>1, <2>2 DEF HandlerReturns
  <2>4. pc' \in [Thread -> PC]
    BY <2>0 DEF HandlerReturns, PC, Working
  <2> QED
    BY <2>0, <2>3, <2>4 DEF HandlerReturns
<1>2. CASE HandlerThrows(t)
  BY <1>2 DEF HandlerThrows
<1>3. CASE AppendBegin(t)
  <2>1. pc' \in [Thread -> PC]
    BY <1>3 DEF AppendBegin, PC, Working
  <2> QED
    BY <1>3, <2>1 DEF AppendBegin
<1>4. CASE AppendEnd(t)
  <2>1. ASSUME NEW u \in Thread, pc[u] = "append_end" PROVE Record(u) \in Session \X Nat
    <3>1. cur[u] \in Session
      BY <1>0, <2>1 DEF Working
    <3> QED
      BY <3>1 DEF Record, Builder
  <2>2. Record(t) \in Session \X Nat /\ {Record(u) : u \in Appending} \subseteq Session \X Nat
    BY <1>4, <2>1 DEF AppendEnd, Appending
  <2>3. list' \subseteq (Session \X Nat) \cup {Torn}
    BY <1>4, <2>2 DEF AppendEnd
  <2>4. pc' \in [Thread -> PC]
    BY <1>4 DEF AppendEnd, PC, Working
  <2> QED
    BY <1>4, <2>3, <2>4 DEF AppendEnd
<1>5. CASE AppendRace(t)
  BY <1>5 DEF AppendRace
<1>6. CASE CountLoad(t)
  <2>1. tmp' \in [Thread -> Nat]
    BY <1>6 DEF CountLoad
  <2>2. pc' \in [Thread -> PC]
    BY <1>6 DEF CountLoad, PC, Working
  <2> QED
    BY <1>6, <2>1, <2>2 DEF CountLoad
<1>7. CASE CountStore(t)
  <2>1. tmp' \in [Thread -> Nat]
    BY <1>7 DEF CountStore
  <2>2. counter' \in Nat
    BY <1>7 DEF CountStore
  <2>3. pc' \in [Thread -> PC]
    BY <1>7 DEF CountStore, PC, Working
  <2> QED
    BY <1>7, <2>1, <2>2, <2>3 DEF CountStore
<1>8. CASE Respond(t)
  <2>1. s \in Session
    BY <1>0, <1>8 DEF Respond, Working
  <2>2. PICK op \in {"write", "close"} :
          /\ StartWrite(s, op)
          /\ Renew(s) \/ UNCHANGED <<parser, builder>>
    BY <1>8 DEF Respond
  <2>3. FreshBuilder \in Builder
    BY DEF FreshBuilder, Builder
  <2>4. builder' \in [Session -> Builder]
    BY <2>1, <2>2, <2>3 DEF Renew
  <2>5. parser' \in [Session -> {"start", "middle", "complete"}]
    BY <2>1, <2>2 DEF Renew
  <2>6. pending' \in [Session -> SUBSET Ops]
    BY <2>1, <2>2 DEF StartWrite, Ops
  <2> QED
    BY <1>8, <2>4, <2>5, <2>6 DEF Respond, PC
<1>9. CASE Block(t)
  BY <1>9 DEF Block, PC, Working
<1> QED
  BY <1>1, <1>2, <1>3, <1>4, <1>5, <1>6, <1>7, <1>8, <1>9

\* What the peer does.
LEMMA TypePeer ==
  ASSUME TypeOK, NEW s \in Session, Peer(s)
  PROVE  TypeOK'
<1> USE DEF TypeOK, statusVars
<1>1. ASSUME NEW kind \in {"part", "end", "bad"}, NEW ka \in BOOLEAN, Send(s, kind, ka)
      PROVE  TypeOK'
  <2> USE <1>1 DEF Send
  <2>1. [req |-> client[s].next, kind |-> kind, ka |-> ka] \in Segment
    BY DEF Segment, Client
  <2>2. inbox' \in [Session -> Seq(Segment)]
    BY <2>1
  <2>3. client[s] \in Client /\ MaxRequests \in Nat
    BY ServerAssumption
  <2>4. client'[s] \in Client
    <3>1. CASE kind = "part"
      BY <2>3, <3>1 DEF Client
    <3>2. CASE kind = "end"
      BY <2>3, <3>2 DEF Client
    <3>3. CASE kind = "bad"
      BY <2>3, <3>3 DEF Client
    <3> QED
      BY <3>1, <3>2, <3>3
  <2>5. client' \in [Session -> Client]
    BY <2>4
  <2> QED
    BY <2>2, <2>5
<1>2. CASE Leave(s)
  BY <1>2 DEF Leave, Client
<1> QED
  BY <1>1, <1>2 DEF Peer

(***************************************************************************)
(* Who may touch a session.  Every step belongs to one of six kinds, and   *)
(* the argument for the invariant is made once per kind.                   *)
(***************************************************************************)

\* A step that leaves operations, program counters and memory alone.
Quiet == UNCHANGED <<mem, pending, pc, cur>>

\* A step inside a handler: the thread stays in its session.
Inside(t) ==
  /\ pc[t] \in Working
  /\ \E q \in Working : pc' = [pc EXCEPT ![t] = q]
  /\ UNCHANGED <<mem, pending, cur>>

\* An idle thread takes op of s and enters the session, which has nothing left.
Enter(t, s, op) ==
  /\ pc[t] = "idle" /\ op \in pending[s] /\ op # "accept"
  /\ pending' = [pending EXCEPT ![s] = @ \ {op}]
  /\ pc' = [pc EXCEPT ![t] = "handle_request"]
  /\ cur' = [cur EXCEPT ![t] = s]
  /\ UNCHANGED mem

\* An idle thread takes op of s and starts another one.
Exchange(t, s, op, new) ==
  /\ op \in pending[s] /\ op # "accept" /\ new \in Ops \ {"accept"}
  /\ pending' = [pending EXCEPT ![s] = (@ \ {op}) \cup {new}]
  /\ UNCHANGED <<mem, pc, cur>>

\* An idle thread takes op of s, and that is the end of the session.
Finish(t, s, op) ==
  /\ op \in pending[s] /\ op # "accept"
  /\ pending' = [pending EXCEPT ![s] = @ \ {op}]
  /\ \E m \in {"shut", "deleted"} : mem' = [mem EXCEPT ![s] = m]
  /\ UNCHANGED <<pc, cur>>

\* Nothing the invariant speaks of has changed, its types apart.
LEMMA QuietInv ==
  ASSUME Inv, TypeOK', Quiet
  PROVE  Inv'
BY DEF Quiet, Inv, RunsInSession, SessionExclusive, NoDangling, OneAcceptor, Accepting, Run

\* The thread owned its session before, and owns it after.
LEMMA InsideInv ==
  ASSUME Inv, TypeOK', NEW t \in Thread, Inside(t)
  PROVE  Inv'
<1> USE DEF Inv, TypeOK, Inside
<1>1. \A u \in Thread : (pc'[u] \in Working <=> pc[u] \in Working)
                       /\ (pc'[u] = "start_accept" <=> pc[u] = "start_accept")
  BY DEF Working
<1>2. \A u \in Thread, s \in Session : Run(u, s)' <=> Run(u, s)
  BY <1>1 DEF Run
<1>3. RunsInSession'
  BY <1>1 DEF RunsInSession
<1>4. SessionExclusive' /\ NoDangling'
  BY <1>2 DEF SessionExclusive, NoDangling
<1>5. OneAcceptor'
  BY <1>1 DEF OneAcceptor, Accepting
<1> QED
  BY <1>3, <1>4, <1>5

\* The operation taken was the only one, so the thread is the only one in s.
LEMMA EnterInv ==
  ASSUME Inv, TypeOK', NEW t \in Thread, NEW s \in Session, NEW op \in Ops,
         Enter(t, s, op)
  PROVE  Inv'
<1> USE DEF Inv, TypeOK, Enter
<1>1. pending'[s] = {} /\ mem[s] = "open"
  BY DEF SessionExclusive, NoDangling
<1>2. \A u \in Thread : ~Run(u, s)
  BY DEF SessionExclusive
<1>3. \A u \in Thread, r \in Session :
        Run(u, r)' <=> (u = t /\ r = s) \/ (u # t /\ Run(u, r))
  BY DEF Run, Working
<1>4. \A r \in Session : r # s => pending'[r] = pending[r]
  OBVIOUS
<1>5. SessionExclusive'
  BY <1>1, <1>2, <1>3, <1>4 DEF SessionExclusive
<1>6. NoDangling'
  BY <1>1, <1>2, <1>3, <1>4 DEF NoDangling
<1>7. RunsInSession'
  BY DEF RunsInSession
<1>8. \A r \in Session : Accepting(r)' <=> Accepting(r)
  BY DEF Accepting
<1>9. \A u \in Thread : pc'[u] = "start_accept" <=> pc[u] = "start_accept"
  OBVIOUS
<1>10. OneAcceptor'
  BY <1>8, <1>9 DEF OneAcceptor
<1> QED
  BY <1>5, <1>6, <1>7, <1>10

\* The one operation of s is replaced by another one.
LEMMA ExchangeInv ==
  ASSUME Inv, TypeOK', NEW t \in Thread, NEW s \in Session, NEW op \in Ops, NEW new,
         Exchange(t, s, op, new)
  PROVE  Inv'
<1> USE DEF Inv, TypeOK, Exchange
<1>1. pending'[s] = {new} /\ mem[s] = "open" /\ \A u \in Thread : ~Run(u, s)
  BY DEF SessionExclusive, NoDangling
<1>2. \A r \in Session : r # s => pending'[r] = pending[r]
  OBVIOUS
<1>3. \A u \in Thread, r \in Session : Run(u, r)' <=> Run(u, r)
  BY DEF Run
<1>4. SessionExclusive' /\ NoDangling'
  BY <1>1, <1>2, <1>3 DEF SessionExclusive, NoDangling
<1>5. \A r \in Session : Accepting(r)' <=> Accepting(r)
  BY <1>1, <1>2 DEF Accepting
<1>6. OneAcceptor'
  BY <1>5 DEF OneAcceptor
<1> QED
  BY <1>4, <1>6 DEF RunsInSession

\* Nothing of s is left outstanding when it is deleted or shut down.
LEMMA FinishInv ==
  ASSUME Inv, TypeOK', NEW t \in Thread, NEW s \in Session, NEW op \in Ops,
         Finish(t, s, op)
  PROVE  Inv'
<1> USE DEF Inv, TypeOK, Finish
<1>1. pending'[s] = {} /\ mem[s] = "open" /\ \A u \in Thread : ~Run(u, s)
  BY DEF SessionExclusive, NoDangling
<1>2. \A r \in Session : r # s => pending'[r] = pending[r] /\ mem'[r] = mem[r]
  OBVIOUS
<1>3. \A u \in Thread, r \in Session : Run(u, r)' <=> Run(u, r)
  BY DEF Run
<1>4. SessionExclusive' /\ NoDangling'
  <2>1. SessionExclusive'
    BY <1>1, <1>2, <1>3 DEF SessionExclusive
  <2>2. NoDangling'
    BY <1>1, <1>2, <1>3 DEF NoDangling
  <2> QED
    BY <2>1, <2>2
<1>5. \A r \in Session : /\ Accepting(r)' <=> Accepting(r)
                        /\ mem'[r] = "unborn" => mem[r] = "unborn"
  BY <1>1, <1>2 DEF Accepting
<1>6. OneAcceptor'
  <2>1. (\E r \in Session : mem'[r] = "unborn")
          => \/ \E r \in Session : Accepting(r)'
             \/ \E u \in Thread : pc'[u] = "start_accept"
    <3> HAVE \E r \in Session : mem'[r] = "unborn"
    <3>1. \E r \in Session : mem[r] = "unborn"
      BY <1>5
    <3>2. \/ \E r \in Session : Accepting(r)
          \/ \E u \in Thread : pc[u] = "start_accept"
      BY <3>1 DEF OneAcceptor
    <3> QED
      BY <3>2, <1>5 DEF Accepting
  <2> QED
    BY <1>5, <2>1 DEF OneAcceptor, Accepting
<1> QED
  BY <1>4, <1>6 DEF RunsInSession

\* The turn of the acceptor passes from the session to the thread.
LEMMA HandleAcceptInv ==
  ASSUME Inv, TypeOK', NEW t \in Thread, NEW s \in Session, Accept(t, s)
  PROVE  Inv'
<1>0. /\ mem \in [Session -> {"unborn", "open", "shut", "deleted"}]
      /\ pending \in [Session -> SUBSET Ops]
      /\ pc \in [Thread -> PC]
      /\ cur \in [Thread -> Session \cup {NoSession}]
      /\ RunsInSession /\ SessionExclusive /\ NoDangling /\ OneAcceptor
  BY DEF Inv, TypeOK
<1>1. /\ pc[t] = "idle" /\ pc' = [pc EXCEPT ![t] = "start_accept"] /\ cur' = cur
      /\ "accept" \in pending[s]
      /\ \/ /\ pending' = [pending EXCEPT ![s] = (@ \ {"accept"}) \cup {"read"}]
            /\ mem' = mem
         \/ /\ pending' = [pending EXCEPT ![s] = @ \ {"accept"}]
            /\ mem' = [mem EXCEPT ![s] = "deleted"]
  BY <1>0 DEF Accept, HandleAccept, HandleAcceptError, Idle
<1>2. /\ mem[s] = "open" /\ \A u \in Thread : ~Run(u, s)
      /\ \A u \in Thread : pc[u] # "start_accept"
      /\ \A r \in Session : Accepting(r) <=> r = s
  BY <1>0, <1>1 DEF SessionExclusive, NoDangling, OneAcceptor, Accepting
<1>3. pending[s] = {"accept"}
  BY <1>0, <1>1 DEF SessionExclusive
<1>4. \/ pending'[s] = {"read"} /\ mem'[s] = "open"
      \/ pending'[s] = {} /\ mem'[s] = "deleted"
  BY <1>0, <1>1, <1>2, <1>3
<1>5. \A r \in Session : r # s => pending'[r] = pending[r] /\ mem'[r] = mem[r]
  BY <1>0, <1>1
<1>6. \A u \in Thread, r \in Session : Run(u, r)' <=> Run(u, r)
  BY <1>0, <1>1 DEF Run, Working
<1>7. SessionExclusive' /\ NoDangling'
  BY <1>0, <1>2, <1>4, <1>5, <1>6 DEF SessionExclusive, NoDangling
<1>8. \A r \in Session : ~Accepting(r)'
  BY <1>0, <1>2, <1>4, <1>5 DEF Accepting
<1>9. \A u \in Thread : pc'[u] = "start_accept" <=> u = t
  BY <1>0, <1>1, <1>2
<1>10. OneAcceptor'
  BY <1>0, <1>8, <1>9 DEF OneAcceptor, Accepting
<1>11. RunsInSession'
  BY <1>0, <1>1 DEF RunsInSession, Working
<1> QED
  BY <1>7, <1>10, <1>11 DEF Inv

\* And from the thread to the next session, if there is one.
LEMMA StartAcceptInv ==
  ASSUME Inv, TypeOK', NEW t \in Thread,
         StartAcceptBound(t) \/ \E s \in Session : StartAccept(t, s)
  PROVE  Inv'
<1>0. /\ mem \in [Session -> {"unborn", "open", "shut", "deleted"}]
      /\ pending \in [Session -> SUBSET Ops]
      /\ pc \in [Thread -> PC]
      /\ cur \in [Thread -> Session \cup {NoSession}]
      /\ RunsInSession /\ SessionExclusive /\ NoDangling /\ OneAcceptor
  BY DEF Inv, TypeOK
<1>1. pc[t] = "start_accept" /\ pc' = [pc EXCEPT ![t] = "idle"] /\ cur' = cur
  BY <1>0 DEF StartAccept, StartAcceptBound
<1>2. /\ \A r \in Session : ~Accepting(r)
      /\ \A u \in Thread : pc'[u] # "start_accept"
  BY <1>0, <1>1 DEF OneAcceptor
<1>3. \A u \in Thread, r \in Session : Run(u, r)' <=> Run(u, r)
  BY <1>0, <1>1 DEF Run, Working
<1>4. RunsInSession'
  BY <1>0, <1>1 DEF RunsInSession, Working
<1>5. CASE StartAcceptBound(t)
  <2>1. /\ mem' = mem /\ pending' = pending
        /\ \A r \in Session : mem[r] # "unborn"
    BY <1>0, <1>5 DEF StartAcceptBound
  <2>2. SessionExclusive' /\ NoDangling'
    BY <1>0, <2>1, <1>3 DEF SessionExclusive, NoDangling
  <2>3. OneAcceptor'
    BY <1>0, <2>1, <1>2 DEF OneAcceptor, Accepting
  <2> QED
    BY <1>4, <2>2, <2>3 DEF Inv
<1>6. ASSUME NEW s \in Session, StartAccept(t, s)
      PROVE  Inv'
  <2>1. /\ mem[s] = "unborn" /\ mem' = [mem EXCEPT ![s] = "open"]
        /\ pending' = [pending EXCEPT ![s] = @ \cup {"accept"}]
    BY <1>0, <1>6 DEF StartAccept
  <2>2. pending[s] = {} /\ \A u \in Thread : ~Run(u, s)
    BY <1>0, <2>1 DEF NoDangling
  <2>3. pending'[s] = {"accept"} /\ mem'[s] = "open"
    BY <1>0, <2>1, <2>2
  <2>4. \A r \in Session : r # s => pending'[r] = pending[r] /\ mem'[r] = mem[r]
    BY <1>0, <2>1
  <2>5. SessionExclusive' /\ NoDangling'
    BY <1>0, <1>3, <2>2, <2>3, <2>4 DEF SessionExclusive, NoDangling
  <2>6. \A r \in Session : Accepting(r)' <=> r = s
    BY <1>0, <1>2, <2>3, <2>4 DEF Accepting
  <2>7. OneAcceptor'
    BY <1>0, <1>2, <2>6 DEF OneAcceptor, Accepting
  <2> QED
    BY <1>4, <2>5, <2>7 DEF Inv
<1> QED
  BY <1>5, <1>6

\* The thread leaves the session with the write as its one operation.
LEMMA RespondInv ==
  ASSUME Inv, TypeOK', NEW t \in Thread, Respond(t)
  PROVE  Inv'
<1>0. /\ mem \in [Session -> {"unborn", "open", "shut", "deleted"}]
      /\ pending \in [Session -> SUBSET Ops]
      /\ pc \in [Thread -> PC]
      /\ cur \in [Thread -> Session \cup {NoSession}]
      /\ RunsInSession /\ SessionExclusive /\ NoDangling /\ OneAcceptor
  BY DEF Inv, TypeOK
<1>1. PICK s \in Session : s = cur[t]
  BY <1>0 DEF Respond, RunsInSession, Working
<1>2. PICK op \in {"write", "close"} : StartWrite(s, op)
  BY <1>1 DEF Respond
<1>3. pc[t] = "respond" /\ pc' = [pc EXCEPT ![t] = "idle"] /\ mem' = mem
  BY DEF Respond
<1>4. Run(t, s)
  BY <1>1, <1>3 DEF Run, Working
<1>5. pending[s] = {} /\ mem[s] = "open"
  BY <1>0, <1>4 DEF SessionExclusive, NoDangling
<1>6. pending'[s] = {op} /\ \A r \in Session : r # s => pending'[r] = pending[r]
  BY <1>0, <1>2, <1>5 DEF StartWrite
<1>7. \A u \in Thread, r \in Session : Run(u, r)' <=> u # t /\ Run(u, r)
  BY <1>0, <1>3 DEF Run, Respond, Working
<1>8. \A u \in Thread : ~Run(u, s)'
  BY <1>0, <1>4, <1>7 DEF SessionExclusive
<1>9. SessionExclusive' /\ NoDangling'
  BY <1>0, <1>3, <1>5, <1>6, <1>7, <1>8 DEF SessionExclusive, NoDangling
<1>10. \A r \in Session : Accepting(r)' <=> Accepting(r)
  BY <1>5, <1>6 DEF Accepting
<1>11. \A u \in Thread : pc'[u] = "start_accept" <=> pc[u] = "start_accept"
  BY <1>0, <1>3
<1>12. OneAcceptor'
  BY <1>0, <1>3, <1>10, <1>11 DEF OneAcceptor
<1>13. RunsInSession'
  BY <1>0, <1>3 DEF RunsInSession, Respond, Working
<1> QED
  BY <1>9, <1>12, <1>13 DEF Inv

(***************************************************************************)
(* The invariant, and what it gives.                                       *)
(***************************************************************************)

\* The invariant holds at the start.
LEMMA InitInv == Init => Inv
<1> SUFFICES ASSUME Init PROVE Inv
  OBVIOUS
<1>1. PICK s \in Session :
        /\ mem = [x \in Session |-> IF x = s THEN "open" ELSE "unborn"]
        /\ pending = [x \in Session |-> IF x = s THEN {"accept"} ELSE {}]
  BY DEF Init
<1>2. \A t \in Thread : pc[t] = "idle"
  BY DEF Init
<1>3. TypeOK
  <2>1. /\ FreshBuilder \in Builder /\ NoResponse \in Response /\ NewClient \in Client
    BY DEF FreshBuilder, Builder, NoResponse, Response, NewClient, Client
  <2>2. mem \in [Session -> {"unborn", "open", "shut", "deleted"}]
        /\ pending \in [Session -> SUBSET Ops]
    BY <1>1 DEF Ops
  <2>3. /\ list \subseteq (Session \X Nat) \cup {Torn} /\ served \subseteq Session \X Nat
        /\ raced \in BOOLEAN /\ counter \in Nat /\ tmp \in [Thread -> Nat]
    BY DEF Init
  <2> QED
    BY <2>1, <2>2, <2>3 DEF Init, TypeOK, PC
<1>4. RunsInSession /\ SessionExclusive /\ NoDangling
  BY <1>1, <1>2 DEF RunsInSession, SessionExclusive, NoDangling, Run, Working
<1>5. OneAcceptor
  BY <1>1, <1>2 DEF OneAcceptor, Accepting
<1> QED
  BY <1>3, <1>4, <1>5 DEF Inv

\* Next keeps the types: the lemmas above, put together.
LEMMA NextType ==
  ASSUME Inv, [Next]_vars
  PROVE  TypeOK'
<1>1. TypeOK /\ RunsInSession
  BY DEF Inv
<1>2. ASSUME NEW t \in Thread, Continue(t) \/ Block(t) \/ Unblock(t) PROVE TypeOK'
  <2>2. CASE \E s \in Session : StartAccept(t, s)
    BY <1>1, <2>2, TypeComplete
  <2>3. CASE StartAcceptBound(t)
    BY <1>1, <2>3 DEF StartAcceptBound, TypeOK, PC, connVars, statusVars
  <2> QED
    BY <1>1, <1>2, <2>2, <2>3, TypeHandler DEF Continue
<1>3. ASSUME NEW t \in Thread, NEW s \in Session, Accept(t, s) \/ Complete(t, s)
      PROVE  TypeOK'
  BY <1>1, <1>3, TypeRead, TypeComplete DEF Complete
<1>4. ASSUME NEW s \in Session, Peer(s) PROVE TypeOK'
  BY <1>1, <1>4, TypePeer
<1>5. CASE Signal
  BY <1>1, <1>5 DEF Signal, TypeOK, connVars, statusVars
<1>6. CASE UNCHANGED vars
  BY <1>1, <1>6 DEF vars, TypeOK, connVars, statusVars
<1> QED
  BY <1>2, <1>3, <1>4, <1>5, <1>6 DEF Next

\* Every step is one of the kinds above, so Inv is inductive.
LEMMA NextInv ==
  ASSUME Inv, [Next]_vars
  PROVE  Inv'
<1>0. TypeOK'
  BY NextType
<1>1. ASSUME NEW t \in Thread, Continue(t) \/ Block(t) \/ Unblock(t) PROVE Inv'
  <2>1. CASE \/ HandleRequest(t) \/ Block(t) \/ Unblock(t)
             \/ AppendBegin(t) \/ AppendEnd(t) \/ CountLoad(t) \/ CountStore(t)
    <3>1. Inside(t)
      BY <2>1 DEF Inside, Working, HandleRequest, HandlerReturns, Block, Unblock,
           AppendBegin, AppendEnd, CountLoad, CountStore
    <3> QED
      BY <1>0, <3>1, InsideInv
  <2>2. CASE HandlerThrows(t) \/ AppendRace(t)
    BY <1>0, <2>2, QuietInv DEF HandlerThrows, AppendRace, Quiet
  <2> QED
    BY <1>0, <1>1, <2>1, <2>2, RespondInv, StartAcceptInv DEF Continue
<1>2. ASSUME NEW t \in Thread, NEW s \in Session, Accept(t, s) PROVE Inv'
  BY <1>0, <1>2, HandleAcceptInv
<1>3. ASSUME NEW t \in Thread, NEW s \in Session, Complete(t, s) PROVE Inv'
  <2>0. {"read", "write", "close"} \subseteq Ops \ {"accept"}
    BY DEF Ops
  <2>1. ASSUME NEW k, HandleReadGood(t, s, k) PROVE Inv'
    <3>1. Enter(t, s, "read")
      BY <2>1 DEF HandleReadGood, Read, Idle, Enter
    <3> QED
      BY <1>0, <2>0, <3>1, EnterInv
  <2>2. ASSUME NEW k, NEW i, HandleReadBad(t, s, k, i) PROVE Inv'
    <3>1. Exchange(t, s, "read", "close")
      BY <2>0, <2>2 DEF HandleReadBad, Read, Exchange
    <3> QED
      BY <1>0, <2>0, <3>1, ExchangeInv
  <2>3. ASSUME NEW k, HandleReadMore(t, s, k) PROVE Inv'
    BY <1>0, <2>3, QuietInv DEF HandleReadMore, Quiet
  <2>4. CASE HandleWrite(t, s)
    <3>1. Exchange(t, s, "write", "read")
      BY <2>0, <2>4 DEF HandleWrite, Exchange
    <3> QED
      BY <1>0, <2>0, <3>1, ExchangeInv
  <2>5. CASE HandleReadError(t, s) \/ HandleWriteError(t, s) \/ ShutdownError(t, s) \/ Shutdown(t, s)
    <3>1. \E op \in {"read", "write", "close"} : Finish(t, s, op)
      BY <2>5 DEF HandleReadError, HandleWriteError, ShutdownError, Shutdown, Delete, Finish
    <3> QED
      BY <1>0, <2>0, <3>1, FinishInv
  <2> QED
    BY <1>3, <2>1, <2>2, <2>3, <2>4, <2>5 DEF Complete
<1>4. ASSUME NEW s \in Session, Peer(s) PROVE Inv'
  BY <1>0, <1>4, QuietInv DEF Peer, Send, Leave, Quiet
<1>5. CASE Signal
  BY <1>0, <1>5, QuietInv DEF Signal, Quiet
<1>6. CASE UNCHANGED vars
  BY <1>0, <1>6, QuietInv DEF vars, Quiet
<1> QED
  BY <1>1, <1>2, <1>3, <1>4, <1>5, <1>6 DEF Next

\* Inv is an invariant: the base of every theorem below.
THEOREM ServerInvariant == Spec => []Inv
<1>1. Init => Inv
  BY InitInv
<1>2. Inv /\ [Next]_vars => Inv'
  BY NextInv
<1> QED
  BY <1>1, <1>2, PTL DEF Spec

(* Every variable of the server always has its type, however many threads, *)
(* sessions and requests there are.                                        *)
THEOREM ServerTypeCorrect == Spec => []TypeOK
<1>1. Inv => TypeOK
  BY DEF Inv
<1> QED
  BY <1>1, ServerInvariant, PTL

(* No two threads of the pool are ever in the code of one session, and no  *)
(* operation of it is outstanding while one is: session.cc is free of data *)
(* races on its own members without a strand or a lock.                    *)
THEOREM NoTwoThreadsInASession == Spec => []SessionExclusive
<1>1. Inv => SessionExclusive
  BY DEF Inv
<1> QED
  BY <1>1, ServerInvariant, PTL

(* A session that "delete this" freed, or that was shut down, is never     *)
(* used again by any thread, and never freed a second time.                *)
THEOREM NoUseAfterDelete == Spec => []NoDangling
<1>1. Inv => NoDangling
  BY DEF Inv
<1> QED
  BY <1>1, ServerInvariant, PTL

(* handle_accept always leaves one session waiting for the next connection *)
(* or is about to, whether or not the last accept failed.                  *)
THEOREM AlwaysOneAcceptor == Spec => []OneAcceptor
<1>1. Inv => OneAcceptor
  BY DEF Inv
<1> QED
  BY <1>1, ServerInvariant, PTL

\* The step behind WriteStable: only a thread that owns the session, or the
\* handler of its read, assigns response_, and then no write is outstanding.
LEMMA WriteStableStep ==
  ASSUME Inv, Next, NEW s \in Session,
         pending[s] \cap pending'[s] \cap {"write", "close"} # {}
  PROVE  response'[s] = response[s]
<1>1. ASSUME NEW t \in Thread, Continue(t) \/ Block(t) \/ Unblock(t)
      PROVE  response'[s] = response[s]
  <2>1. CASE HandleRequest(t) \/ Unblock(t)
    <3>1. Run(t, cur[t]) /\ cur[t] \in Session
      BY <2>1 DEF HandleRequest, Unblock, Run, Working, Inv, RunsInSession
    <3>2. cur[t] # s
      BY <3>1 DEF Inv, SessionExclusive
    <3> QED
      BY <2>1, <3>2 DEF HandleRequest, Unblock, HandlerReturns, Inv, TypeOK
  <2> QED
    BY <1>1, <2>1 DEF Continue, HandlerThrows, Block, AppendBegin, AppendEnd, AppendRace,
         CountLoad, CountStore, Respond, StartAccept, StartAcceptBound, connVars
<1>2. ASSUME NEW t \in Thread, NEW r \in Session, Accept(t, r) \/ Complete(t, r)
      PROVE  response'[s] = response[s]
  <2>1. ASSUME NEW k, NEW i, HandleReadBad(t, r, k, i) PROVE response'[s] = response[s]
    <3>1. "read" \in pending[r]
      BY <2>1 DEF HandleReadBad, Read
    <3>2. r # s
      BY <3>1 DEF Inv, SessionExclusive
    <3> QED
      BY <2>1, <3>2 DEF HandleReadBad, Inv, TypeOK
  <2> QED
    BY <1>2, <2>1 DEF Accept, HandleAccept, HandleAcceptError, Complete, HandleReadGood,
         HandleReadMore, HandleReadError, HandleWriteError, ShutdownError, Delete,
         HandleWrite, Shutdown, connVars
<1>3. ASSUME NEW r \in Session, Peer(r) PROVE response'[s] = response[s]
  BY <1>3 DEF Peer, Send, Leave
<1>4. CASE Signal
  BY <1>4 DEF Signal, connVars
<1> QED
  BY <1>1, <1>2, <1>3, <1>4 DEF Next

(* The response being written is never changed under async_write, which    *)
(* reads it in place.                                                      *)
THEOREM ResponseStableWhileWritten == Spec => WriteStable
<1>1. Inv /\ [Next]_vars
        => [\A s \in Session : pending[s] \cap pending'[s] \cap {"write", "close"} # {}
                                => response'[s] = response[s]]_vars
  BY WriteStableStep
<1> QED
  BY <1>1, ServerInvariant, PTL DEF Spec, WriteStable

-----------------------------------------------------------------------------
(***************************************************************************)
(* What goes over the connections: requests sent in any pieces and at any  *)
(* time, and the responses to them.                                        *)
(***************************************************************************)
\* Some thread is in the handler of s; it has the response of the request.
InHandler(s) == \E t \in Thread : Run(t, s)
HasResponse(s) ==
  \E t \in Thread : Run(t, s) /\ pc[t] \notin {"handle_request", "blocked"}

\* The session goes on to another request, or may.
Live(s) == pending[s] \cap {"read", "write"} # {} \/ InHandler(s)

\* The number of the first request of which nothing has been read completely:
\* one more than were answered, or than are about to be.
Expected(s) == IF "read" \in pending[s] THEN Len(sent[s]) + 1 ELSE Len(sent[s]) + 2

\* The request that what follows the first j segments of the socket is of.
After(s, j) ==
  IF j = 0 THEN Expected(s)
  ELSE IF inbox[s][j].kind = "end" THEN inbox[s][j].req + 1 ELSE inbox[s][j].req

\* Nothing has happened on a connection that was not accepted yet.
FreshSession(s) ==
  mem[s] = "unborn" \/ "accept" \in pending[s] =>
    /\ parser[s] = "start" /\ builder[s] = FreshBuilder
    /\ client[s] = NewClient /\ inbox[s] = <<>> /\ sent[s] = <<>>

\* The segments in the socket are of consecutive requests, up to the one the
\* peer is at, and no request has two parts.
InboxInOrder(s) ==
  Live(s) =>
    /\ \A j \in 1..Len(inbox[s]) : inbox[s][j].req = After(s, j - 1)
    /\ client[s].next <= MaxRequests => client[s].next = After(s, Len(inbox[s]))
    /\ \A j \in 1..Len(inbox[s]) : inbox[s][j].kind = "part" =>
         IF j = Len(inbox[s]) THEN client[s].mid ELSE inbox[s][j + 1].kind # "part"

\* What the peer asked for is what the ends of its requests say.
AskedIsSent(s) ==
  /\ client[s].next <= MaxRequests => Len(client[s].asked) = client[s].next - 1
  /\ \A j \in 1..Len(inbox[s]) : inbox[s][j].kind = "end" =>
       /\ inbox[s][j].req \in 1..Len(client[s].asked)
       /\ client[s].asked[inbox[s][j].req] = inbox[s][j].ka

\* A clean peer has sent nothing bad, and nothing of a request too early.
CleanInbox(s) ==
  client[s].clean => \A j \in 1..Len(inbox[s]) :
    inbox[s][j].kind # "bad" /\ inbox[s][j].req <= Len(sent[s]) + 1

\* The builder holds what was read of the request that is next to be answered,
\* and is empty while the response to the last one is written.
BuilderInOrder(s) ==
  /\ pending[s] \cap {"read", "write"} # {} => parser[s] # "complete" /\ ~builder[s].ka
  /\ "read" \in pending[s] => builder[s].reqs \subseteq {Len(sent[s]) + 1}
  /\ "write" \in pending[s] => builder[s].reqs = {}
  /\ InHandler(s) => builder[s].reqs = {Len(sent[s]) + 1}

\* The response that is made or written is that request's.
ResponseInOrder(s) ==
  /\ pending[s] \cap {"write", "close"} # {} \/ HasResponse(s)
  /\ response[s].code = "ok"
  => response[s].reqs = {Len(sent[s]) + 1}

\* Whether the session goes on is what that request asked for.
AsksInOrder(s) ==
  LET n == Len(sent[s]) + 1 IN
  /\ InHandler(s) => n <= Len(client[s].asked) /\ client[s].asked[n] = builder[s].ka
  /\ "write" \in pending[s] => n <= Len(client[s].asked) /\ client[s].asked[n] = TRUE
  /\ "close" \in pending[s] /\ response[s].code = "ok" =>
       n <= Len(client[s].asked) /\ client[s].asked[n] = FALSE
  /\ mem[s] = "shut" => /\ Len(sent[s]) > 0
                        /\ sent[s][Len(sent[s])].code = "ok" =>
                             /\ Len(sent[s]) <= Len(client[s].asked)
                             /\ client[s].asked[Len(sent[s])] = FALSE
  /\ \A i \in 1..Len(sent[s]) :
       i < Len(sent[s]) \/ pending[s] # {} \/ InHandler(s) =>
         i <= Len(client[s].asked) /\ client[s].asked[i] = TRUE

\* The properties themselves.
SentInOrder(s) == \A i \in 1..Len(sent[s]) : sent[s][i].code = "ok" => sent[s][i].reqs = {i}
NotSpurious(s) == response[s].code = "bad_request" => ~client[s].clean

\* The inductive invariant of one connection, and of all of them.
Conn(s) ==
  /\ FreshSession(s) /\ InboxInOrder(s) /\ AskedIsSent(s) /\ CleanInbox(s)
  /\ BuilderInOrder(s) /\ ResponseInOrder(s) /\ AsksInOrder(s)
  /\ SentInOrder(s) /\ NotSpurious(s)
Traffic == \A s \in Session : Conn(s)

-----------------------------------------------------------------------------
(* Every step moves at most one connection.                                *)

\* Nothing that the invariant of r speaks of has changed.
Unmoved(r) ==
  /\ mem'[r] = mem[r] /\ pending'[r] = pending[r] /\ parser'[r] = parser[r]
  /\ builder'[r] = builder[r] /\ response'[r] = response[r] /\ client'[r] = client[r]
  /\ inbox'[r] = inbox[r] /\ sent'[r] = sent[r]
  /\ InHandler(r)' <=> InHandler(r)
  /\ HasResponse(r)' => HasResponse(r)

\* A step of t that moves s alone: it neither leaves nor enters another session.
Moves(t, s) ==
  /\ \A r \in Session \ {s} :
       /\ mem'[r] = mem[r] /\ pending'[r] = pending[r] /\ parser'[r] = parser[r]
       /\ builder'[r] = builder[r] /\ response'[r] = response[r] /\ client'[r] = client[r]
       /\ inbox'[r] = inbox[r] /\ sent'[r] = sent[r]
       /\ ~Run(t, r) /\ ~Run(t, r)'
  /\ \A u \in Thread \ {t} : pc'[u] = pc[u] /\ cur'[u] = cur[u]

\* A connection that was not moved keeps its invariant.
LEMMA UnmovedConn ==
  ASSUME NEW r \in Session, Conn(r), Unmoved(r)
  PROVE  Conn(r)'
<1> USE DEF Unmoved, Conn
<1>1. FreshSession(r)' /\ AskedIsSent(r)' /\ CleanInbox(r)'
  BY DEF FreshSession, AskedIsSent, CleanInbox
<1>2. Live(r)' <=> Live(r)
  BY DEF Live
<1>3. \A j : After(r, j)' = After(r, j)
  BY DEF After, Expected
<1>4. InboxInOrder(r)'
  BY <1>2, <1>3 DEF InboxInOrder
<1>5. BuilderInOrder(r)' /\ ResponseInOrder(r)'
  BY DEF BuilderInOrder, ResponseInOrder
<1>6. AsksInOrder(r)'
  BY DEF AsksInOrder
<1>7. SentInOrder(r)' /\ NotSpurious(r)'
  BY DEF SentInOrder, NotSpurious
<1> QED
  BY <1>1, <1>4, <1>5, <1>6, <1>7

\* It is enough to look at the connection that a step moves.
LEMMA MovesTraffic ==
  ASSUME Traffic, NEW t \in Thread, NEW s \in Session, Moves(t, s), Conn(s)'
  PROVE  Traffic'
<1>1. ASSUME NEW r \in Session, r # s PROVE Conn(r)'
  <2>1. \A u \in Thread : /\ Run(u, r)' <=> Run(u, r)
                          /\ Run(u, r) => pc'[u] = pc[u]
    BY <1>1 DEF Moves, Run
  <2>2. /\ InHandler(r)' <=> InHandler(r)
        /\ HasResponse(r)' => HasResponse(r)
    BY <2>1 DEF InHandler, HasResponse
  <2> QED
    BY <1>1, <2>2, UnmovedConn DEF Moves, Unmoved, Traffic
<1> QED
  BY <1>1 DEF Traffic

\* If all connections stay as they are, the invariant holds on.
LEMMA StillTraffic ==
  ASSUME Traffic, UNCHANGED <<mem, pending, cur, connVars>>,
         \A u \in Thread : /\ pc'[u] \in Working <=> pc[u] \in Working
                           /\ pc'[u] \in Working /\ pc[u] \in {"handle_request", "blocked"}
                                => pc'[u] \in {"handle_request", "blocked"}
  PROVE  Traffic'
<1>1. \A u \in Thread, r \in Session : Run(u, r)' <=> Run(u, r)
  BY DEF Run
<1>2. ASSUME NEW r \in Session PROVE Conn(r)'
  <2>1. /\ InHandler(r)' <=> InHandler(r)
        /\ HasResponse(r)' => HasResponse(r)
    BY <1>1 DEF InHandler, HasResponse, Run
  <2> QED
    BY <2>1, UnmovedConn DEF connVars, Unmoved, Traffic
<1> QED
  BY <1>2 DEF Traffic

-----------------------------------------------------------------------------
(* Reading.                                                                *)

\* What is left of a sequence.
LEMMA Rest ==
  ASSUME NEW q \in Seq(Segment), NEW k \in 1..Len(q)
  PROVE  /\ Len(SubSeq(q, k + 1, Len(q))) = Len(q) - k
         /\ \A j \in 1..(Len(q) - k) : SubSeq(q, k + 1, Len(q))[j] = q[k + j]
OBVIOUS

\* The types that the proofs below use, for one session.
LEMMA SessionTypes ==
  ASSUME Inv, NEW s \in Session
  PROVE  /\ inbox[s] \in Seq(Segment) /\ Len(inbox[s]) \in Nat
         /\ sent[s] \in Seq(Response) /\ Len(sent[s]) \in Nat
         /\ builder[s] \in Builder /\ builder[s].ka \in BOOLEAN
         /\ client[s] \in Client /\ client[s].next \in Nat
         /\ client[s].asked \in Seq(BOOLEAN) /\ Len(client[s].asked) \in Nat
         /\ client[s].clean \in BOOLEAN /\ client[s].mid \in BOOLEAN
         /\ \A j \in 1..Len(inbox[s]) : /\ inbox[s][j].req \in Nat
                                        /\ inbox[s][j].kind \in {"part", "end", "bad"}
                                        /\ inbox[s][j].ka \in BOOLEAN
         /\ pending[s] \subseteq Ops /\ response[s] \in Response
         /\ MaxRequests \in Nat
<1>1. /\ inbox[s] \in Seq(Segment) /\ sent[s] \in Seq(Response)
      /\ builder[s] \in Builder /\ client[s] \in Client
      /\ pending[s] \subseteq Ops /\ response[s] \in Response
  BY DEF Inv, TypeOK
<1>2. client[s].asked \in Seq(BOOLEAN) /\ client[s].next \in Nat
      /\ client[s].clean \in BOOLEAN /\ client[s].mid \in BOOLEAN
  BY <1>1 DEF Client
<1>3. \A j \in 1..Len(inbox[s]) : inbox[s][j] \in Segment
  BY <1>1
<1>4. builder[s].ka \in BOOLEAN
  BY <1>1 DEF Builder
<1> QED
  BY <1>1, <1>2, <1>3, <1>4, ServerAssumption DEF Segment

\* An operation of s is its only one, and then no thread is in its handler.
LEMMA OnlyOperation ==
  ASSUME Inv, NEW s \in Session, NEW op, op \in pending[s]
  PROVE  /\ pending[s] = {op} /\ ~InHandler(s) /\ ~HasResponse(s)
         /\ mem[s] = "open"
<1>1. SessionExclusive /\ NoDangling
  BY DEF Inv
<1> QED
  BY <1>1 DEF SessionExclusive, NoDangling, InHandler, HasResponse

\* parse looks at one part, if any, and one other segment, both of the request
\* that is expected.
LEMMA ReadsExpected ==
  ASSUME Inv, NEW t \in Thread, NEW s \in Session, Conn(s), NEW k, NEW i, NEW r, Read(t, s, k, i, r)
  PROVE  /\ k \in 1..Len(inbox[s]) /\ i \in 1..k
         /\ inbox[s][i].req = Len(sent[s]) + 1
         /\ {inbox[s][j].req : j \in 1..i} = {Len(sent[s]) + 1}
<1>1. "read" \in pending[s] /\ k \in 1..Len(inbox[s]) /\ i \in 1..k
  BY DEF Read
<1>2. /\ \A j \in 1..(i - 1) : inbox[s][j].kind = "part"
      /\ inbox[s][i].kind = "part" => i = k
  BY DEF Read
<1>3. Live(s) /\ Expected(s) = Len(sent[s]) + 1
  BY <1>1 DEF Live, Expected
<1>4. /\ \A j \in 1..Len(inbox[s]) : inbox[s][j].req = After(s, j - 1)
      /\ \A j \in 1..Len(inbox[s]) : inbox[s][j].kind = "part" /\ j # Len(inbox[s])
           => inbox[s][j + 1].kind # "part"
  BY <1>3 DEF Conn, InboxInOrder
<1>5. Len(inbox[s]) \in Nat
  BY SessionTypes
<1>6. i \in {1, 2}
  <2>1. i \in Int /\ i >= 1 /\ i <= Len(inbox[s])
    BY <1>1, <1>5
  <2>2. ASSUME i > 2 PROVE FALSE
    <3>1. 1 \in 1..(i - 1) /\ 2 \in 1..(i - 1)
      BY <2>1, <2>2
    <3> DEFINE len == Len(inbox[s])
    <3>2. 1 \in 1..len /\ 1 # len /\ 1 + 1 = 2
      <4>1. len \in Nat /\ i \in Int /\ i <= len /\ i > 2
        BY <1>5, <2>1, <2>2
      <4> HIDE DEF len
      <4> QED
        BY <4>1
    <3>3. inbox[s][1].kind = "part" /\ inbox[s][2].kind = "part"
      BY <1>2, <3>1
    <3> QED
      BY <1>4, <3>2, <3>3
  <2> QED
    BY <2>1, <2>2
<1>7. inbox[s][1].req = Len(sent[s]) + 1
  <2>1. 1 \in 1..Len(inbox[s]) /\ 1 - 1 = 0
    BY <1>1, <1>5
  <2> QED
    BY <1>3, <1>4, <2>1 DEF After
<1>8. \A j \in 1..i : inbox[s][j].req = Len(sent[s]) + 1
  <2>1. CASE i = 1
    BY <1>7, <2>1
  <2>2. CASE i = 2
    <3>1. inbox[s][1].kind = "part" /\ 2 \in 1..Len(inbox[s]) /\ 2 - 1 = 1
      BY <1>1, <1>2, <1>5, <2>2
    <3>2. inbox[s][2].req = Len(sent[s]) + 1
      BY <1>4, <1>7, <3>1 DEF After
    <3> QED
      BY <1>7, <2>2, <3>2
  <2> QED
    BY <1>6, <2>1, <2>2
<1> QED
  BY <1>1, <1>5, <1>8

-----------------------------------------------------------------------------
(* The steps, by the connection they move.                                 *)

\* The peer sends the next piece.
LEMMA SendConn ==
  ASSUME Inv, NEW s \in Session, Conn(s),
         NEW kind \in {"part", "end", "bad"}, NEW ka \in BOOLEAN, Send(s, kind, ka)
  PROVE  Conn(s)'
<1> DEFINE q == inbox[s]
           c == client[s]
           seg == [req |-> c.next, kind |-> kind, ka |-> ka]
<1>0. PICK n \in Nat, m \in Nat : n = Len(q) /\ m = Len(c.asked)
  BY SessionTypes
<1>1. /\ UNCHANGED <<mem, pending, pc, cur, parser, builder, response, sent>>
      /\ mem[s] = "open" /\ pending[s] # {"accept"} /\ c.next <= MaxRequests
      /\ kind = "part" => ~c.mid
  BY DEF Send
<1>2. /\ q \in Seq(Segment) /\ c.asked \in Seq(BOOLEAN)
      /\ c.next \in Nat /\ MaxRequests \in Nat /\ Len(sent[s]) \in Nat
      /\ c.mid \in BOOLEAN /\ c.clean \in BOOLEAN
      /\ \A j \in 1..n : q[j].kind \in {"part", "end", "bad"} /\ q[j].req \in Nat
  BY <1>0, SessionTypes
<1>3. seg \in Segment
  BY <1>2 DEF Segment
<1>4. /\ inbox'[s] = Append(q, seg) /\ Len(inbox'[s]) = n + 1
      /\ \A j \in 1..n : inbox'[s][j] = q[j]
      /\ inbox'[s][n + 1] = seg
  <2>1. inbox'[s] = Append(q, seg)
    BY DEF Send, Inv, TypeOK
  <2> HIDE DEF q, seg
  <2> QED
    BY <1>0, <1>2, <1>3, <2>1
<1>5. /\ client'[s].next = CASE kind = "part" -> c.next
                             [] kind = "end"  -> c.next + 1
                             [] kind = "bad"  -> MaxRequests + 1
      /\ client'[s].mid = (kind = "part")
      /\ client'[s].asked = IF kind = "end" THEN Append(c.asked, ka) ELSE c.asked
      /\ client'[s].clean = (c.clean /\ kind # "bad" /\ Len(sent[s]) = c.next - 1)
  BY DEF Send, Inv, TypeOK
<1>6. /\ Len(client'[s].asked) = IF kind = "end" THEN m + 1 ELSE m
      /\ \A i \in 1..m : client'[s].asked[i] = c.asked[i]
      /\ kind = "end" => client'[s].asked[m + 1] = ka
  <2> HIDE DEF c
  <2> QED
    BY <1>0, <1>2, <1>5
<1>7. c.next = m + 1
  <2>1. m = c.next - 1
    BY <1>0, <1>1 DEF Conn, AskedIsSent
  <2> QED
    BY <1>2, <2>1
<1>8. /\ InHandler(s)' <=> InHandler(s)
      /\ HasResponse(s)' <=> HasResponse(s)
      /\ Live(s)' <=> Live(s)
  BY <1>1 DEF InHandler, HasResponse, Run, Live
<1>9. FreshSession(s)'
  BY <1>1, OnlyOperation DEF FreshSession
<1>10. InboxInOrder(s)'
  <2> SUFFICES ASSUME Live(s)
               PROVE  /\ \A j \in 1..Len(inbox'[s]) : inbox'[s][j].req = After(s, j - 1)'
                      /\ client'[s].next <= MaxRequests => client'[s].next = After(s, Len(inbox[s]))'
                      /\ \A j \in 1..Len(inbox'[s]) : inbox'[s][j].kind = "part" =>
                           IF j = Len(inbox'[s]) THEN client'[s].mid ELSE inbox'[s][j + 1].kind # "part"
    BY <1>8 DEF InboxInOrder
  <2>1. /\ \A j \in 1..n : q[j].req = After(s, j - 1)
        /\ c.next = After(s, n)
        /\ \A j \in 1..n : q[j].kind = "part" => IF j = n THEN c.mid ELSE q[j + 1].kind # "part"
    BY <1>0, <1>1 DEF Conn, InboxInOrder
  <2>2. Expected(s)' = Expected(s)
    BY <1>1 DEF Expected
  <2>3. /\ \A j \in 0..n : After(s, j)' = After(s, j)
        /\ After(s, n + 1)' = IF kind = "end" THEN c.next + 1 ELSE c.next
    BY <1>0, <1>2, <1>4, <2>2 DEF After
  <2>4. \A j \in 1..(n + 1) : inbox'[s][j].req = After(s, j - 1)'
    <3> TAKE j \in 1..(n + 1)
    <3>1. CASE j = n + 1
      <4>1. j - 1 = n /\ n \in 0..n /\ inbox'[s][j].req = c.next
        BY <1>2, <1>4, <3>1
      <4> QED
        BY <2>1, <2>3, <4>1
    <3>2. CASE j # n + 1
      <4>1. j \in 1..n /\ j - 1 \in 0..n
        BY <1>2, <3>2
      <4> QED
        BY <1>4, <2>1, <2>3, <4>1
    <3> QED
      BY <3>1, <3>2
  <2>5. client'[s].next <= MaxRequests => client'[s].next = After(s, n + 1)'
    BY <1>2, <1>5, <2>3
  <2>6. \A j \in 1..(n + 1) : inbox'[s][j].kind = "part" =>
          IF j = n + 1 THEN client'[s].mid ELSE inbox'[s][j + 1].kind # "part"
    <3> TAKE j \in 1..(n + 1)
    <3>1. CASE j = n + 1
      <4>1. inbox'[s][j].kind = kind
        BY <1>4, <3>1
      <4>2. kind = "part" => client'[s].mid
        BY <1>5
      <4> QED
        BY <3>1, <4>1, <4>2
    <3>2. CASE j = n
      <4>1. j # n + 1 /\ j \in 1..n
        BY <1>2, <3>2
      <4> QED
        BY <1>1, <1>4, <2>1, <3>2, <4>1
    <3>3. CASE j < n
      <4>1. j \in 1..n /\ j + 1 \in 1..n /\ j # n /\ j # n + 1
        BY <1>2, <3>3
      <4> QED
        BY <1>4, <2>1, <4>1
    <3> QED
      BY <1>2, <3>1, <3>2, <3>3
  <2> QED
    BY <1>4, <2>4, <2>5, <2>6
<1>11. AskedIsSent(s)'
  <2>1. client'[s].next <= MaxRequests => Len(client'[s].asked) = client'[s].next - 1
    BY <1>2, <1>5, <1>6, <1>7
  <2>2. ASSUME NEW j \in 1..(n + 1), inbox'[s][j].kind = "end"
        PROVE  /\ inbox'[s][j].req \in 1..Len(client'[s].asked)
               /\ client'[s].asked[inbox'[s][j].req] = inbox'[s][j].ka
    <3>1. CASE j = n + 1
      BY <1>2, <1>4, <1>6, <1>7, <2>2, <3>1
    <3>2. CASE j # n + 1
      <4>1. j \in 1..n
        BY <1>2, <3>2
      <4>2. q[j].req \in 1..m /\ c.asked[q[j].req] = q[j].ka
        BY <1>0, <1>4, <2>2, <4>1 DEF Conn, AskedIsSent
      <4>3. 1..m \subseteq 1..Len(client'[s].asked)
        BY <1>2, <1>6
      <4> QED
        BY <1>4, <1>6, <4>1, <4>2, <4>3
    <3> QED
      BY <3>1, <3>2
  <2> QED
    BY <1>4, <2>1, <2>2 DEF AskedIsSent
<1>12. CleanInbox(s)'
  <2> SUFFICES ASSUME client'[s].clean, NEW j \in 1..(n + 1)
               PROVE  inbox'[s][j].kind # "bad" /\ inbox'[s][j].req <= Len(sent'[s]) + 1
    BY <1>4 DEF CleanInbox
  <2>1. c.clean /\ kind # "bad" /\ Len(sent[s]) = c.next - 1
    BY <1>5
  <2>2. CASE j = n + 1
    BY <1>1, <1>2, <1>4, <2>1, <2>2
  <2>3. CASE j # n + 1
    <3>1. j \in 1..n
      BY <1>2, <2>3
    <3> QED
      BY <1>0, <1>1, <1>4, <2>1, <3>1 DEF Conn, CleanInbox
  <2> QED
    BY <2>2, <2>3
<1>13. BuilderInOrder(s)' /\ ResponseInOrder(s)' /\ SentInOrder(s)'
  BY <1>1, <1>8 DEF Conn, BuilderInOrder, ResponseInOrder, SentInOrder
<1>14. AsksInOrder(s)'
  <2>1. \A i \in Nat : i > 0 /\ i <= m => i <= Len(client'[s].asked) /\ client'[s].asked[i] = c.asked[i]
    BY <1>2, <1>6
  <2>2. Len(sent[s]) + 1 \in Nat /\ Len(sent[s]) + 1 > 0 /\ \A i \in 1..Len(sent[s]) : i \in Nat /\ i > 0
    BY <1>2
  <2> QED
    BY <1>0, <1>1, <1>8, <2>1, <2>2 DEF Conn, AsksInOrder
<1>15. NotSpurious(s)'
  BY <1>1, <1>5 DEF Conn, NotSpurious
<1> QED
  BY <1>9, <1>10, <1>11, <1>12, <1>13, <1>14, <1>15 DEF Conn

\* What a read leaves in the socket is as it was.
LEMMA RestConn ==
  ASSUME Inv, NEW s \in Session, Conn(s), NEW k \in 1..Len(inbox[s]),
         inbox'[s] = SubSeq(inbox[s], k + 1, Len(inbox[s])),
         client'[s] = client[s], sent'[s] = sent[s]
  PROVE  /\ AskedIsSent(s)' /\ CleanInbox(s)'
         /\ Live(s) /\ Expected(s)' = After(s, k) => InboxInOrder(s)'
<1>0. PICK n \in Nat, m \in Nat : n = Len(inbox[s]) /\ m = n - k
  BY SessionTypes
<1>1. /\ Len(inbox'[s]) = m
      /\ \A j \in 1..m : inbox'[s][j] = inbox[s][k + j]
  BY <1>0, Rest, SessionTypes
<1>2. /\ k \in Nat /\ k >= 1 /\ k <= n
      /\ \A j \in 1..m : k + j \in 1..n
  BY <1>0
<1>3. AskedIsSent(s)'
  <2>1. ASSUME NEW j \in 1..m, inbox'[s][j].kind = "end"
        PROVE  /\ inbox'[s][j].req \in 1..Len(client'[s].asked)
               /\ client'[s].asked[inbox'[s][j].req] = inbox'[s][j].ka
    BY <1>0, <1>1, <1>2, <2>1 DEF Conn, AskedIsSent
  <2>2. client'[s].next <= MaxRequests => Len(client'[s].asked) = client'[s].next - 1
    BY DEF Conn, AskedIsSent
  <2> QED
    BY <1>1, <2>1, <2>2 DEF AskedIsSent
<1>4. CleanInbox(s)'
  BY <1>0, <1>1, <1>2 DEF Conn, CleanInbox
<1>5. ASSUME Live(s), Expected(s)' = After(s, k) PROVE InboxInOrder(s)'
  <2>1. /\ \A j \in 1..n : inbox[s][j].req = After(s, j - 1)
        /\ client[s].next <= MaxRequests => client[s].next = After(s, n)
        /\ \A j \in 1..n : inbox[s][j].kind = "part" =>
             IF j = n THEN client[s].mid ELSE inbox[s][j + 1].kind # "part"
    BY <1>0, <1>5 DEF Conn, InboxInOrder
  <2>2. \A j \in 0..m : After(s, j)' = After(s, k + j)
    <3> TAKE j \in 0..m
    <3>1. CASE j = 0
      <4>1. k + j = k
        BY <1>2, <3>1
      <4> QED
        BY <1>5, <3>1, <4>1 DEF After
    <3>2. CASE j # 0
      <4>1. j \in 1..m /\ k + j # 0
        BY <1>2, <3>2
      <4> QED
        BY <1>1, <3>2, <4>1 DEF After
    <3> QED
      BY <3>1, <3>2
  <2>3. \A j \in 1..m : inbox'[s][j].req = After(s, j - 1)'
    <3> TAKE j \in 1..m
    <3>1. j - 1 \in 0..m /\ k + j \in 1..n /\ (k + j) - 1 = k + (j - 1)
      BY <1>2
    <3> QED
      BY <1>1, <2>1, <2>2, <3>1
  <2>4. client'[s].next <= MaxRequests => client'[s].next = After(s, m)'
    <3>1. m \in 0..m /\ k + m = n
      BY <1>0, <1>2
    <3> QED
      BY <2>1, <2>2, <3>1
  <2>5. \A j \in 1..m : inbox'[s][j].kind = "part" =>
          IF j = m THEN client'[s].mid ELSE inbox'[s][j + 1].kind # "part"
    <3> TAKE j \in 1..m
    <3>1. k + j \in 1..n /\ (j = m <=> k + j = n)
      BY <1>0, <1>2
    <3>2. j # m => j + 1 \in 1..m /\ (k + j) + 1 = k + (j + 1)
      BY <1>0, <1>2
    <3> QED
      BY <1>1, <2>1, <3>1, <3>2
  <2>6. After(s, Len(inbox[s]))' = After(s, m)'
    BY <1>1 DEF After
  <2> QED
    BY <1>1, <2>3, <2>4, <2>5, <2>6 DEF InboxInOrder
<1> QED
  BY <1>3, <1>4, <1>5

\* What Read does to the builder and the socket of s.
LEMMA ReadConn ==
  ASSUME Inv, NEW t \in Thread, NEW s \in Session, Conn(s), NEW k, NEW i, NEW r, Read(t, s, k, i, r)
  PROVE  /\ "read" \in pending[s] /\ parser[s] # "complete"
         /\ k \in 1..Len(inbox[s]) /\ i \in 1..k
         /\ inbox'[s] = SubSeq(inbox[s], k + 1, Len(inbox[s]))
         /\ inbox[s][i].req = Len(sent[s]) + 1
         /\ builder'[s].reqs = {Len(sent[s]) + 1}
         /\ builder'[s].ka = (inbox[s][i].kind = "end" /\ inbox[s][i].ka)
<1>1. "read" \in pending[s]
  BY DEF Read
<1>2. /\ parser[s] # "complete" /\ ~builder[s].ka
      /\ builder[s].reqs \subseteq {Len(sent[s]) + 1}
  BY <1>1 DEF Conn, BuilderInOrder
<1>3. /\ inbox'[s] = SubSeq(inbox[s], k + 1, Len(inbox[s]))
      /\ builder'[s] = Filled(builder[s], s, i)
  BY DEF Read, Inv, TypeOK
<1>4. builder'[s].reqs = builder[s].reqs \cup {inbox[s][j].req : j \in 1..i}
  BY <1>3 DEF Filled
<1>5. builder'[s].ka = (inbox[s][i].kind = "end" /\ inbox[s][i].ka)
  BY <1>2, <1>3 DEF Filled
<1> QED
  BY <1>1, <1>2, <1>3, <1>4, <1>5, ReadsExpected

\* A complete request was read: the thread is in the handler of s now.
LEMMA ReadGoodConn ==
  ASSUME Inv, NEW t \in Thread, NEW s \in Session, Conn(s), NEW k, HandleReadGood(t, s, k)
  PROVE  Conn(s)'
<1>1. Read(t, s, k, k, "good")
  BY DEF HandleReadGood
<1>2. /\ "read" \in pending[s] /\ k \in 1..Len(inbox[s])
      /\ inbox'[s] = SubSeq(inbox[s], k + 1, Len(inbox[s]))
      /\ inbox[s][k].req = Len(sent[s]) + 1
      /\ builder'[s].reqs = {Len(sent[s]) + 1}
      /\ builder'[s].ka = (inbox[s][k].kind = "end" /\ inbox[s][k].ka)
  BY <1>1, ReadConn
<1>3. inbox[s][k].kind = "end"
  BY <1>1, <1>2, SessionTypes DEF Read, ParseResult
<1>4. pending[s] = {"read"} /\ ~InHandler(s) /\ mem[s] = "open"
  BY <1>2, OnlyOperation
<1>5. /\ UNCHANGED <<mem, response, client, sent>> /\ pending'[s] = {}
      /\ pc' = [pc EXCEPT ![t] = "handle_request"] /\ cur' = [cur EXCEPT ![t] = s]
  BY <1>4 DEF HandleReadGood, Inv, TypeOK
<1>6. InHandler(s)' /\ ~HasResponse(s)' /\ Live(s)
  <2>1. \A u \in Thread \ {t} : ~Run(u, s)'
    BY <1>4, <1>5 DEF InHandler, Run, Inv, TypeOK
  <2>2. Run(t, s)' /\ pc'[t] = "handle_request"
    BY <1>5 DEF Run, Inv, TypeOK, Working
  <2> QED
    BY <1>4, <2>1, <2>2 DEF InHandler, HasResponse, Live
<1>7. Len(sent[s]) \in Nat /\ k \in Nat /\ k # 0
  BY <1>2, SessionTypes
<1>8. Expected(s)' = After(s, k)
  BY <1>2, <1>3, <1>5, <1>7 DEF Expected, After
<1>9. InboxInOrder(s)' /\ AskedIsSent(s)' /\ CleanInbox(s)'
  BY <1>2, <1>5, <1>6, <1>8, RestConn
<1>10. FreshSession(s)' /\ BuilderInOrder(s)' /\ ResponseInOrder(s)'
  BY <1>2, <1>4, <1>5, <1>6 DEF FreshSession, BuilderInOrder, ResponseInOrder
<1>11. /\ Len(sent[s]) + 1 <= Len(client[s].asked)
       /\ client[s].asked[Len(sent[s]) + 1] = inbox[s][k].ka
  <2>1. /\ inbox[s][k].req \in 1..Len(client[s].asked)
        /\ client[s].asked[inbox[s][k].req] = inbox[s][k].ka
    BY <1>2, <1>3 DEF Conn, AskedIsSent
  <2> QED
    BY <1>2, <2>1, SessionTypes
<1>12. builder'[s].ka = inbox[s][k].ka
  <2>1. inbox[s][k].ka \in BOOLEAN
    BY <1>2, SessionTypes
  <2> QED
    BY <1>2, <1>3, <2>1
<1>13. AsksInOrder(s)'
  BY <1>4, <1>5, <1>6, <1>11, <1>12 DEF Conn, AsksInOrder
<1>14. SentInOrder(s)' /\ NotSpurious(s)'
  BY <1>5 DEF Conn, SentInOrder, NotSpurious
<1> QED
  BY <1>9, <1>10, <1>13, <1>14 DEF Conn

\* A part was read: the session goes on reading the same request.
LEMMA ReadMoreConn ==
  ASSUME Inv, NEW t \in Thread, NEW s \in Session, Conn(s), NEW k, HandleReadMore(t, s, k)
  PROVE  Conn(s)'
<1>1. Read(t, s, k, k, "indeterminate")
  BY DEF HandleReadMore
<1>2. /\ "read" \in pending[s] /\ k \in 1..Len(inbox[s])
      /\ inbox'[s] = SubSeq(inbox[s], k + 1, Len(inbox[s]))
      /\ inbox[s][k].req = Len(sent[s]) + 1
      /\ builder'[s].reqs = {Len(sent[s]) + 1}
      /\ builder'[s].ka = (inbox[s][k].kind = "end" /\ inbox[s][k].ka)
  BY <1>1, ReadConn
<1>3. inbox[s][k].kind = "part"
  BY <1>1, <1>2, SessionTypes DEF Read, ParseResult
<1>4. pending[s] = {"read"} /\ ~InHandler(s) /\ ~HasResponse(s) /\ mem[s] = "open"
  BY <1>2, OnlyOperation
<1>5. UNCHANGED <<mem, pending, pc, cur, response, client, sent>> /\ parser'[s] = "middle"
  BY DEF HandleReadMore, Inv, TypeOK
<1>6. ~InHandler(s)' /\ ~HasResponse(s)' /\ Live(s)
  BY <1>4, <1>5 DEF InHandler, HasResponse, Run, Live
<1>7. Len(sent[s]) \in Nat /\ k \in Nat /\ k # 0
  BY <1>2, SessionTypes
<1>8. Expected(s)' = After(s, k)
  BY <1>2, <1>3, <1>5, <1>7 DEF Expected, After
<1>9. InboxInOrder(s)' /\ AskedIsSent(s)' /\ CleanInbox(s)'
  BY <1>2, <1>5, <1>6, <1>8, RestConn
<1>10. builder'[s].ka = FALSE
  BY <1>2, <1>3
<1>11. FreshSession(s)' /\ BuilderInOrder(s)' /\ ResponseInOrder(s)'
  BY <1>2, <1>4, <1>5, <1>6, <1>10 DEF FreshSession, BuilderInOrder, ResponseInOrder
<1>12. AsksInOrder(s)'
  BY <1>4, <1>5, <1>6 DEF Conn, AsksInOrder
<1>13. SentInOrder(s)' /\ NotSpurious(s)'
  BY <1>5 DEF Conn, SentInOrder, NotSpurious
<1> QED
  BY <1>9, <1>11, <1>12, <1>13 DEF Conn

\* Something bad was read: the peer has sent it, or a request too early.
LEMMA ReadBadConn ==
  ASSUME Inv, NEW t \in Thread, NEW s \in Session, Conn(s), NEW k, NEW i, HandleReadBad(t, s, k, i)
  PROVE  Conn(s)'
<1>1. Read(t, s, k, i, "bad")
  BY DEF HandleReadBad
<1>2. /\ "read" \in pending[s] /\ parser[s] # "complete"
      /\ k \in 1..Len(inbox[s]) /\ i \in 1..k
      /\ inbox'[s] = SubSeq(inbox[s], k + 1, Len(inbox[s]))
      /\ inbox[s][i].req = Len(sent[s]) + 1
  BY <1>1, ReadConn
<1>3. pending[s] = {"read"} /\ ~InHandler(s) /\ ~HasResponse(s) /\ mem[s] = "open"
  BY <1>2, OnlyOperation
<1>4. /\ UNCHANGED <<mem, pc, cur, parser, client, sent>> /\ pending'[s] = {"close"}
      /\ response'[s].code = "bad_request"
  BY <1>3 DEF HandleReadBad, Inv, TypeOK
<1>5. ~InHandler(s)' /\ ~HasResponse(s)' /\ ~Live(s)'
  BY <1>3, <1>4 DEF InHandler, HasResponse, Run, Live
<1>6. AskedIsSent(s)' /\ CleanInbox(s)'
  BY <1>2, <1>4, RestConn
<1>7. NotSpurious(s)'
  <2>1. CASE inbox[s][i].kind = "bad"
    <3>1. i \in 1..Len(inbox[s])
      BY <1>2, SessionTypes
    <3> QED
      BY <1>4, <2>1, <3>1 DEF Conn, CleanInbox, NotSpurious
  <2>2. CASE inbox[s][i].kind # "bad"
    <3>1. inbox[s][i].kind = "end" /\ i # k
      <4>1. i \in 1..Len(inbox[s])
        BY <1>2, SessionTypes
      <4>2. inbox[s][i].kind \in {"part", "end", "bad"}
        BY <4>1, SessionTypes
      <4>3. ParseResult(s, k, i) = "bad"
        BY <1>1 DEF Read
      <4> QED
        BY <1>2, <2>2, <4>2, <4>3 DEF ParseResult
    <3>2. i + 1 \in 1..Len(inbox[s]) /\ (i + 1) - 1 = i /\ i # 0
      BY <1>2, <3>1, SessionTypes
    <3>3. Live(s)
      BY <1>2 DEF Live
    <3>4. inbox[s][i + 1].req = Len(sent[s]) + 1 + 1
      BY <1>2, <3>1, <3>2, <3>3 DEF Conn, InboxInOrder, After
    <3>5. ~client[s].clean
      <4>1. ~(Len(sent[s]) + 1 + 1 <= Len(sent[s]) + 1)
        BY SessionTypes
      <4> QED
        BY <3>2, <3>4, <4>1 DEF Conn, CleanInbox
    <3> QED
      BY <1>4, <3>5 DEF NotSpurious
  <2> QED
    BY <2>1, <2>2
<1>8. /\ FreshSession(s)' /\ InboxInOrder(s)' /\ BuilderInOrder(s)' /\ ResponseInOrder(s)'
      /\ SentInOrder(s)'
  BY <1>3, <1>4, <1>5 DEF Conn, FreshSession, InboxInOrder, BuilderInOrder, ResponseInOrder, SentInOrder
<1>9. AsksInOrder(s)'
  BY <1>3, <1>4, <1>5 DEF Conn, AsksInOrder
<1> QED
  BY <1>6, <1>7, <1>8, <1>9 DEF Conn

\* The peer goes.
LEMMA LeaveConn ==
  ASSUME Inv, NEW s \in Session, Conn(s), Leave(s)
  PROVE  Conn(s)'
<1>1. UNCHANGED <<mem, pending, pc, cur, parser, builder, response, inbox, sent>>
  BY DEF Leave
<1>2. /\ client'[s].next = client[s].next /\ client'[s].mid = client[s].mid
      /\ client'[s].asked = client[s].asked /\ client'[s].clean = client[s].clean
  BY SessionTypes DEF Leave, Inv, TypeOK, Client
<1>3. FreshSession(s)'
  BY <1>1, OnlyOperation DEF Leave, FreshSession
<1>4. /\ InHandler(s)' <=> InHandler(s)
      /\ HasResponse(s)' <=> HasResponse(s)
      /\ Live(s)' <=> Live(s)
      /\ \A j : After(s, j)' = After(s, j)
  BY <1>1 DEF InHandler, HasResponse, Run, Live, After, Expected
<1>5. InboxInOrder(s)' /\ AskedIsSent(s)' /\ CleanInbox(s)'
  BY <1>1, <1>2, <1>4 DEF Conn, InboxInOrder, AskedIsSent, CleanInbox
<1>6. BuilderInOrder(s)' /\ ResponseInOrder(s)' /\ SentInOrder(s)' /\ NotSpurious(s)'
  BY <1>1, <1>2, <1>4 DEF Conn, BuilderInOrder, ResponseInOrder, SentInOrder, NotSpurious
<1>7. AsksInOrder(s)'
  BY <1>1, <1>2, <1>4 DEF Conn, AsksInOrder
<1> QED
  BY <1>3, <1>5, <1>6, <1>7 DEF Conn

\* A connection that is not live any more, or was not before.
LEMMA QuietConn ==
  ASSUME NEW s \in Session, Conn(s),
         UNCHANGED <<parser, builder, response, client, inbox, sent>>,
         ~InHandler(s)', ~HasResponse(s)', pending'[s] \subseteq {"accept"}, mem'[s] # "shut",
         mem'[s] = "unborn" \/ pending'[s] # {} => mem[s] = "unborn" \/ "accept" \in pending[s]
  PROVE  Conn(s)'
<1>1. ~Live(s)'
  BY DEF Live
<1>2. FreshSession(s)' /\ InboxInOrder(s)' /\ AskedIsSent(s)' /\ CleanInbox(s)'
  BY <1>1 DEF Conn, FreshSession, InboxInOrder, AskedIsSent, CleanInbox
<1>3. BuilderInOrder(s)' /\ ResponseInOrder(s)' /\ SentInOrder(s)' /\ NotSpurious(s)'
  BY DEF Conn, BuilderInOrder, ResponseInOrder, SentInOrder, NotSpurious
<1>4. pending'[s] # {} => sent[s] = <<>>
  BY DEF Conn, FreshSession
<1>5. AsksInOrder(s)'
  BY <1>4 DEF Conn, AsksInOrder
<1> QED
  BY <1>2, <1>3, <1>5 DEF Conn

\* A connection is accepted: it has read and written nothing yet.
LEMMA AcceptConn ==
  ASSUME Inv, NEW t \in Thread, NEW s \in Session, Conn(s), HandleAccept(t, s)
  PROVE  Conn(s)'
<1>1. "accept" \in pending[s]
  BY DEF HandleAccept
<1>2. pending[s] = {"accept"} /\ ~InHandler(s) /\ mem[s] = "open"
  BY <1>1, OnlyOperation
<1>3. /\ UNCHANGED <<mem, cur, parser, builder, response, client, inbox, sent>>
      /\ pending'[s] = {"read"} /\ pc' = [pc EXCEPT ![t] = "start_accept"]
  BY <1>2 DEF HandleAccept, connVars, Inv, TypeOK
<1>4. ~InHandler(s)' /\ ~HasResponse(s)'
  BY <1>2, <1>3 DEF InHandler, HasResponse, Run, Working, Inv, TypeOK
<1>5. /\ parser'[s] = "start" /\ builder'[s] = FreshBuilder
      /\ client'[s] = NewClient /\ inbox'[s] = <<>> /\ sent'[s] = <<>>
  BY <1>1, <1>3 DEF Conn, FreshSession
<1>6. /\ Len(sent'[s]) = 0 /\ Len(inbox'[s]) = 0 /\ client'[s].next = 1
      /\ client'[s].asked = <<>> /\ Len(client'[s].asked) = 0
      /\ builder'[s].reqs = {} /\ builder'[s].ka = FALSE
  BY <1>5 DEF NewClient, FreshBuilder
<1>7. Expected(s)' = 1 /\ After(s, 0)' = 1
  BY <1>3, <1>6 DEF Expected, After
<1>8. InboxInOrder(s)' /\ AskedIsSent(s)' /\ CleanInbox(s)'
  BY <1>6, <1>7 DEF InboxInOrder, AskedIsSent, CleanInbox
<1>9. BuilderInOrder(s)' /\ ResponseInOrder(s)'
  BY <1>3, <1>4, <1>5, <1>6 DEF BuilderInOrder, ResponseInOrder
<1>10. AsksInOrder(s)' /\ SentInOrder(s)'
  BY <1>2, <1>3, <1>4, <1>6 DEF AsksInOrder, SentInOrder
<1>11. NotSpurious(s)' /\ FreshSession(s)'
  BY <1>2, <1>3 DEF Conn, NotSpurious, FreshSession
<1> QED
  BY <1>8, <1>9, <1>10, <1>11 DEF Conn

\* The handler has returned: its response is the request's.
LEMMA HandlerReturnsConn ==
  ASSUME Inv, NEW t \in Thread, NEW s \in Session, Conn(s), Run(t, s), HandlerReturns(t)
  PROVE  Conn(s)'
<1>1. cur[t] = s /\ InHandler(s) /\ pending[s] = {} /\ mem[s] = "open"
  BY DEF Run, InHandler, Inv, SessionExclusive, NoDangling
<1>2. /\ UNCHANGED <<mem, pending, cur, parser, builder, client, inbox, sent>>
      /\ response'[s] = [reqs |-> builder[s].reqs, code |-> "ok"]
  BY <1>1 DEF HandlerReturns, Inv, TypeOK
<1>3. InHandler(s)' /\ Live(s)
  <2>1. Run(t, s)'
    BY <1>1, <1>2 DEF HandlerReturns, Run, Working, Inv, TypeOK
  <2> QED
    BY <1>1, <2>1 DEF InHandler, Live
<1>4. \A j : After(s, j)' = After(s, j)
  BY <1>2 DEF After, Expected
<1>5. FreshSession(s)' /\ InboxInOrder(s)' /\ AskedIsSent(s)' /\ CleanInbox(s)'
  <2>1. FreshSession(s)'
    BY <1>1, <1>2 DEF FreshSession
  <2>2. InboxInOrder(s)' /\ AskedIsSent(s)'
    BY <1>2, <1>3, <1>4 DEF Conn, InboxInOrder, AskedIsSent
  <2>3. CleanInbox(s)'
    BY <1>2, <1>3 DEF Conn, CleanInbox
  <2> QED
    BY <2>1, <2>2, <2>3
<1>6. BuilderInOrder(s)' /\ SentInOrder(s)'
  <2>1. BuilderInOrder(s)'
    BY <1>1, <1>2, <1>3 DEF Conn, BuilderInOrder
  <2>2. SentInOrder(s)'
    BY <1>2 DEF Conn, SentInOrder
  <2> QED
    BY <2>1, <2>2
<1>7. ResponseInOrder(s)' /\ NotSpurious(s)'
  BY <1>1, <1>2 DEF Conn, BuilderInOrder, ResponseInOrder, NotSpurious
<1>8. AsksInOrder(s)'
  BY <1>1, <1>2, <1>3 DEF Conn, AsksInOrder
<1> QED
  BY <1>5, <1>6, <1>7, <1>8 DEF Conn

\* The write starts: the session is renewed, or it is the last one.
LEMMA RespondConn ==
  ASSUME Inv, NEW t \in Thread, NEW s \in Session, Conn(s), Run(t, s), Respond(t)
  PROVE  Conn(s)'
<1>1. cur[t] = s /\ InHandler(s) /\ pending[s] = {} /\ mem[s] = "open"
  BY DEF Run, InHandler, Inv, SessionExclusive, NoDangling
<1>2. HasResponse(s) /\ Live(s)
  BY <1>1 DEF HasResponse, Respond, Live
<1>3. /\ UNCHANGED <<mem, response, client, inbox, sent>>
      /\ \/ /\ builder[s].ka /\ pending'[s] = {"write"}
            /\ parser'[s] = "start" /\ builder'[s] = FreshBuilder
         \/ ~builder[s].ka /\ pending'[s] = {"close"} /\ UNCHANGED <<parser, builder>>
  BY <1>1 DEF Respond, Renew, StartWrite, Inv, TypeOK
<1>4. ~InHandler(s)' /\ ~HasResponse(s)'
  <2>1. \A u \in Thread \ {t} : ~Run(u, s)
    BY DEF Inv, SessionExclusive
  <2>2. \A u \in Thread : ~Run(u, s)'
    BY <2>1 DEF Respond, Run, Working, Inv, TypeOK
  <2> QED
    BY <2>2 DEF InHandler, HasResponse
<1>5. \A j : After(s, j)' = After(s, j)
  BY <1>1, <1>3 DEF After, Expected
<1>6. FreshSession(s)' /\ InboxInOrder(s)' /\ AskedIsSent(s)' /\ CleanInbox(s)'
  BY <1>1, <1>2, <1>3, <1>5 DEF Conn, FreshSession, InboxInOrder, AskedIsSent, CleanInbox
<1>7. BuilderInOrder(s)'
  <2>1. FreshBuilder.reqs = {} /\ FreshBuilder.ka = FALSE
    BY DEF FreshBuilder
  <2> QED
    BY <1>3, <1>4, <2>1 DEF BuilderInOrder
<1>8. ResponseInOrder(s)' /\ NotSpurious(s)' /\ SentInOrder(s)'
  BY <1>2, <1>3, <1>4 DEF Conn, ResponseInOrder, NotSpurious, SentInOrder
<1>9. AsksInOrder(s)'
  <2>1. builder[s].ka \in BOOLEAN
    BY SessionTypes
  <2> QED
    BY <1>1, <1>3, <1>4, <2>1 DEF Conn, AsksInOrder
<1> QED
  BY <1>6, <1>7, <1>8, <1>9 DEF Conn

\* A write is complete: there is one more response, and it is in order.
LEMMA WriteConn ==
  ASSUME Inv, NEW t \in Thread, NEW s \in Session, Conn(s), HandleWrite(t, s) \/ Shutdown(t, s)
  PROVE  Conn(s)'
<1>0. PICK n \in Nat : n = Len(sent[s])
  BY SessionTypes
<1>1. PICK op \in {"write", "close"} :
        /\ op \in pending[s]
        /\ op = "write" => mem' = mem /\ pending'[s] = (pending[s] \ {"write"}) \cup {"read"}
        /\ op = "close" => mem'[s] = "shut" /\ pending'[s] = pending[s] \ {"close"}
  BY DEF HandleWrite, Shutdown, Inv, TypeOK
<1>2. /\ pending[s] = {op} /\ ~InHandler(s) /\ ~HasResponse(s) /\ mem[s] = "open"
      /\ pending'[s] = IF op = "write" THEN {"read"} ELSE {}
  BY <1>1, OnlyOperation
<1>3. /\ UNCHANGED <<pc, cur, parser, builder, response, client, inbox>>
      /\ sent'[s] = Append(sent[s], response[s])
  BY DEF HandleWrite, Shutdown, Inv, TypeOK
<1>4. /\ Len(sent'[s]) = n + 1 /\ sent'[s][n + 1] = response[s]
      /\ \A i \in 1..n : sent'[s][i] = sent[s][i]
  <2>1. sent[s] \in Seq(Response) /\ response[s] \in Response
    BY SessionTypes
  <2> QED
    BY <1>0, <1>3, <2>1
<1>5. ~InHandler(s)' /\ ~HasResponse(s)'
  BY <1>2, <1>3 DEF InHandler, HasResponse, Run
<1>6. Live(s)' => op = "write" /\ Live(s)
  BY <1>2, <1>5 DEF Live
<1>7. op = "write" => \A j : After(s, j)' = After(s, j)
  <2>1. op = "write" => Expected(s)' = Expected(s)
    BY <1>0, <1>2, <1>4 DEF Expected
  <2> QED
    BY <1>3, <2>1 DEF After
<1>8. FreshSession(s)' /\ InboxInOrder(s)' /\ AskedIsSent(s)'
  BY <1>1, <1>2, <1>3, <1>6, <1>7 DEF Conn, FreshSession, InboxInOrder, AskedIsSent
<1>9. CleanInbox(s)'
  <2> SUFFICES ASSUME client[s].clean, NEW j \in 1..Len(inbox[s])
               PROVE  inbox[s][j].kind # "bad" /\ inbox[s][j].req <= (n + 1) + 1
    BY <1>3, <1>4 DEF CleanInbox
  <2>1. inbox[s][j].kind # "bad" /\ inbox[s][j].req <= n + 1 /\ inbox[s][j].req \in Nat
    BY <1>0, SessionTypes DEF Conn, CleanInbox
  <2> QED
    BY <2>1
<1>10. BuilderInOrder(s)' /\ ResponseInOrder(s)'
  BY <1>2, <1>3, <1>5 DEF Conn, BuilderInOrder, ResponseInOrder
<1>11. SentInOrder(s)'
  <2>1. response[s].code = "ok" => response[s].reqs = {n + 1}
    BY <1>0, <1>2 DEF Conn, ResponseInOrder
  <2>2. \A i \in 1..(n + 1) : i = n + 1 \/ i \in 1..n
    OBVIOUS
  <2> QED
    BY <1>0, <1>4, <2>1, <2>2 DEF Conn, SentInOrder
<1>12. AsksInOrder(s)'
  <2>1. /\ op = "write" => n + 1 <= Len(client[s].asked) /\ client[s].asked[n + 1] = TRUE
        /\ op = "close" /\ response[s].code = "ok"
             => n + 1 <= Len(client[s].asked) /\ client[s].asked[n + 1] = FALSE
        /\ \A i \in 1..n : i <= Len(client[s].asked) /\ client[s].asked[i] = TRUE
    BY <1>0, <1>2 DEF Conn, AsksInOrder
  <2>2. \A i \in 1..(n + 1) : i < n + 1 \/ pending'[s] # {} => i \in 1..n \/ (i = n + 1 /\ op = "write")
    BY <1>2
  <2>3. n + 1 > 0
    OBVIOUS
  <2>4. mem'[s] = "shut" => op = "close"
    BY <1>1, <1>2
  <2> QED
    BY <1>2, <1>3, <1>4, <1>5, <2>1, <2>2, <2>3, <2>4 DEF AsksInOrder
<1>13. NotSpurious(s)'
  BY <1>3 DEF Conn, NotSpurious
<1> QED
  BY <1>8, <1>9, <1>10, <1>11, <1>12, <1>13 DEF Conn

-----------------------------------------------------------------------------
(* All connections.                                                        *)

\* Nothing has happened on any connection at the start.
LEMMA InitTraffic == Init => Traffic
<1> SUFFICES ASSUME Init, NEW s \in Session PROVE Conn(s)
  BY DEF Traffic
<1>1. /\ pending[s] \subseteq {"accept"} /\ mem[s] \in {"open", "unborn"}
      /\ \A t \in Thread : pc[t] = "idle"
      /\ parser[s] = "start" /\ builder[s] = FreshBuilder /\ response[s] = NoResponse
      /\ client[s] = NewClient /\ inbox[s] = <<>> /\ sent[s] = <<>>
  BY DEF Init
<1>2. ~InHandler(s) /\ ~HasResponse(s) /\ ~Live(s)
  BY <1>1 DEF InHandler, HasResponse, Live, Run, Working
<1>3. /\ Len(sent[s]) = 0 /\ Len(inbox[s]) = 0 /\ client[s].next = 1
      /\ client[s].asked = <<>> /\ Len(client[s].asked) = 0
      /\ response[s].code = "none"
  BY <1>1 DEF NewClient, NoResponse
<1>4. FreshSession(s) /\ InboxInOrder(s) /\ AskedIsSent(s) /\ CleanInbox(s)
  BY <1>1, <1>2, <1>3 DEF FreshSession, InboxInOrder, AskedIsSent, CleanInbox
<1>5. BuilderInOrder(s) /\ ResponseInOrder(s) /\ AsksInOrder(s)
  BY <1>1, <1>2, <1>3 DEF BuilderInOrder, ResponseInOrder, AsksInOrder
<1>6. SentInOrder(s) /\ NotSpurious(s)
  BY <1>3 DEF SentInOrder, NotSpurious
<1> QED
  BY <1>4, <1>5, <1>6 DEF Conn

\* A thread that is idle, or about to accept, is in no session.
LEMMA OutsideHandlers ==
  ASSUME NEW t \in Thread, pc[t] \in {"idle", "start_accept"}
  PROVE  \A r : ~Run(t, r)
BY DEF Run, Working

\* The acceptor moves the session it accepts, and stays outside of handlers.
LEMMA AcceptMoves ==
  ASSUME Inv, NEW t \in Thread, NEW s \in Session, Accept(t, s) \/ StartAccept(t, s)
  PROVE  /\ Moves(t, s) /\ UNCHANGED <<cur, connVars, statusVars>>
         /\ \A r : ~Run(t, r) /\ ~Run(t, r)'
<1>1. /\ UNCHANGED <<cur, connVars, statusVars>> /\ pc[t] \in {"idle", "start_accept"}
      /\ \E p \in {"idle", "start_accept"} : pc' = [pc EXCEPT ![t] = p]
      /\ \A r \in Session \ {s} : mem'[r] = mem[r] /\ pending'[r] = pending[r]
  BY DEF Accept, HandleAccept, HandleAcceptError, StartAccept, Idle, Inv, TypeOK
<1>2. \A r : ~Run(t, r) /\ ~Run(t, r)'
  BY <1>1, OutsideHandlers DEF Run, Working, Inv, TypeOK
<1>3. \A u \in Thread \ {t} : pc'[u] = pc[u] /\ cur'[u] = cur[u]
  BY <1>1 DEF Inv, TypeOK
<1> QED
  BY <1>1, <1>2, <1>3 DEF Moves, connVars

\* The acceptor.
LEMMA AcceptTraffic ==
  ASSUME Inv, Traffic, NEW t \in Thread, NEW s \in Session, Accept(t, s) \/ StartAccept(t, s)
  PROVE  Traffic'
<1>1. UNCHANGED <<cur, connVars>>
  BY AcceptMoves
<1>2. \A r : ~Run(t, r) /\ ~Run(t, r)'
  BY AcceptMoves
<1>3. \A u \in Thread \ {t} : pc'[u] = pc[u] /\ cur'[u] = cur[u]
  BY AcceptMoves DEF Moves
<1>5. Conn(s)
  BY DEF Traffic
<1>6. Conn(s)'
  <2>1. CASE HandleAccept(t, s)
    BY <1>5, <2>1, AcceptConn
  <2>2. CASE HandleAcceptError(t, s) \/ StartAccept(t, s)
    <3>1. /\ ~InHandler(s)
          /\ pending[s] \subseteq {"accept"}
          /\ mem[s] = "unborn" \/ "accept" \in pending[s]
      BY <2>2, OnlyOperation DEF HandleAcceptError, StartAccept, InHandler, Inv, NoDangling
    <3>2. ~InHandler(s)' /\ ~HasResponse(s)'
      BY <1>2, <1>3, <3>1 DEF InHandler, HasResponse, Run
    <3>3. pending'[s] \subseteq {"accept"} /\ mem'[s] \in {"open", "deleted"}
      BY <2>2, <3>1 DEF HandleAcceptError, StartAccept, Inv, TypeOK
    <3> QED
      BY <1>1, <1>5, <3>1, <3>2, <3>3, QuietConn DEF connVars
  <2> QED
    BY <2>1, <2>2 DEF Accept
<1> QED
  BY <1>6, AcceptMoves, MovesTraffic

\* The handler of an operation of s moves s.
LEMMA CompleteMoves ==
  ASSUME Inv, NEW t \in Thread, NEW s \in Session, Complete(t, s)
  PROVE  Moves(t, s) /\ UNCHANGED statusVars /\ pc[t] = "idle" /\ \E op \in Ops : op \in pending[s]
<1>1. ASSUME NEW k, HandleReadGood(t, s, k)
      PROVE  Moves(t, s) /\ UNCHANGED statusVars /\ pc[t] = "idle" /\ "read" \in pending[s]
  <2>1. /\ pc[t] = "idle" /\ pc' = [pc EXCEPT ![t] = "handle_request"]
        /\ cur' = [cur EXCEPT ![t] = s]
    BY <1>1 DEF HandleReadGood, Read, Idle
  <2>2. \A r \in Session \ {s} : ~Run(t, r) /\ ~Run(t, r)'
    BY <2>1, OutsideHandlers DEF Run, Inv, TypeOK
  <2>3. \A u \in Thread \ {t} : pc'[u] = pc[u] /\ cur'[u] = cur[u]
    BY <2>1 DEF Inv, TypeOK
  <2> QED
    BY <1>1, <2>2, <2>3 DEF HandleReadGood, Read, Idle, Moves, Inv, TypeOK
<1>2. ASSUME UNCHANGED <<pc, cur>>, pc[t] = "idle",
             \A r \in Session \ {s} :
               /\ mem'[r] = mem[r] /\ pending'[r] = pending[r] /\ parser'[r] = parser[r]
               /\ builder'[r] = builder[r] /\ response'[r] = response[r] /\ client'[r] = client[r]
               /\ inbox'[r] = inbox[r] /\ sent'[r] = sent[r]
      PROVE  Moves(t, s)
  BY <1>2, OutsideHandlers DEF Moves, Run
<1>3. ASSUME NEW k, HandleReadMore(t, s, k)
      PROVE  Moves(t, s) /\ UNCHANGED statusVars /\ pc[t] = "idle" /\ "read" \in pending[s]
  BY <1>2, <1>3 DEF HandleReadMore, Read, Idle, Inv, TypeOK
<1>4. ASSUME NEW k, NEW i, HandleReadBad(t, s, k, i)
      PROVE  Moves(t, s) /\ UNCHANGED statusVars /\ pc[t] = "idle" /\ "read" \in pending[s]
  BY <1>2, <1>4 DEF HandleReadBad, Read, Idle, Inv, TypeOK
<1>5. ASSUME HandleWrite(t, s) \/ Shutdown(t, s)
      PROVE  Moves(t, s) /\ UNCHANGED statusVars /\ pc[t] = "idle"
             /\ \E op \in {"write", "close"} : op \in pending[s]
  BY <1>2, <1>5 DEF HandleWrite, Shutdown, Idle, Inv, TypeOK
<1>6. ASSUME NEW op \in {"read", "write", "close"}, Delete(t, s, op)
      PROVE  Moves(t, s) /\ UNCHANGED statusVars /\ pc[t] = "idle" /\ op \in pending[s]
  BY <1>2, <1>6 DEF Delete, connVars, Idle, Inv, TypeOK
<1> QED
  BY <1>1, <1>3, <1>4, <1>5, <1>6 DEF Complete, HandleReadError, HandleWriteError, ShutdownError, Ops

\* The handlers of reads and writes.
LEMMA CompleteTraffic ==
  ASSUME Inv, Traffic, NEW t \in Thread, NEW s \in Session, Complete(t, s)
  PROVE  Traffic'
<1>1. Conn(s)
  BY DEF Traffic
<1>2. ASSUME NEW op \in {"read", "write", "close"}, Delete(t, s, op) PROVE Conn(s)'
  <2>1. pending[s] = {op} /\ ~InHandler(s) /\ ~HasResponse(s)
    BY <1>2, OnlyOperation DEF Delete
  <2>2. pending'[s] = {} /\ mem'[s] = "deleted" /\ UNCHANGED <<pc, cur, connVars>>
    BY <1>2, <2>1 DEF Delete, Inv, TypeOK
  <2>3. ~InHandler(s)' /\ ~HasResponse(s)'
    BY <2>1, <2>2 DEF InHandler, HasResponse, Run
  <2> QED
    BY <1>1, <2>2, <2>3, QuietConn DEF connVars
<1>3. Conn(s)'
  BY <1>1, <1>2, ReadGoodConn, ReadMoreConn, ReadBadConn, WriteConn
     DEF Complete, HandleReadError, HandleWriteError, ShutdownError
<1> QED
  BY <1>3, CompleteMoves, MovesTraffic

\* A thread inside of a handler moves its own session.
LEMMA HandlerMoves ==
  ASSUME Inv, NEW t \in Thread, HandleRequest(t) \/ Unblock(t) \/ Respond(t)
  PROVE  \E s \in Session : s = cur[t] /\ Run(t, s) /\ Moves(t, s)
<1>1. PICK s \in Session : s = cur[t]
  BY DEF HandleRequest, Unblock, Respond, Working, Inv, RunsInSession
<1>2. Run(t, s)
  BY <1>1 DEF HandleRequest, Unblock, Respond, Working, Run
<1>3. \A r \in Session \ {s} : ~Run(t, r) /\ ~Run(t, r)'
  BY <1>1 DEF HandleRequest, Unblock, HandlerReturns, Respond, Run, Working, Inv, TypeOK
<1>4. \A u \in Thread \ {t} : pc'[u] = pc[u] /\ cur'[u] = cur[u]
  BY DEF HandleRequest, Unblock, HandlerReturns, Respond, Inv, TypeOK
<1>5. Moves(t, s)
  BY <1>1, <1>3, <1>4
     DEF HandleRequest, Unblock, HandlerReturns, Respond, Renew, StartWrite, Moves, Inv, TypeOK
<1> QED
  BY <1>1, <1>2, <1>5

\* A thread inside of a handler.
LEMMA HandlerTraffic ==
  ASSUME Inv, Traffic, NEW t \in Thread, Continue(t) \/ Block(t) \/ Unblock(t)
  PROVE  Traffic'
<1>1. CASE HandleRequest(t) \/ Unblock(t) \/ Respond(t)
  <2>1. PICK s \in Session : s = cur[t] /\ Run(t, s) /\ Moves(t, s)
    BY <1>1, HandlerMoves
  <2>2. Conn(s)'
    BY <1>1, <2>1, HandlerReturnsConn, RespondConn DEF HandleRequest, Unblock, Traffic
  <2> QED
    BY <2>1, <2>2, MovesTraffic
<1>2. CASE Block(t) \/ AppendBegin(t) \/ AppendEnd(t) \/ CountLoad(t) \/ CountStore(t)
  <2>1. /\ UNCHANGED <<mem, pending, cur, connVars>>
        /\ \/ pc[t] = "handle_request" /\ pc' = [pc EXCEPT ![t] = "blocked"]
           \/ /\ pc[t] \in Working \ {"handle_request", "blocked"}
              /\ \E p \in Working : pc' = [pc EXCEPT ![t] = p]
    BY <1>2 DEF Block, AppendBegin, AppendEnd, CountLoad, CountStore, Working
  <2>2. \A u \in Thread : /\ pc'[u] \in Working <=> pc[u] \in Working
                          /\ pc'[u] \in Working /\ pc[u] \in {"handle_request", "blocked"}
                               => pc'[u] \in {"handle_request", "blocked"}
    BY <2>1 DEF Inv, TypeOK, Working
  <2> QED
    BY <2>1, <2>2, StillTraffic
<1>3. CASE HandlerThrows(t) \/ AppendRace(t)
  BY <1>3, StillTraffic DEF HandlerThrows, AppendRace
<1>4. CASE StartAcceptBound(t)
  <2>1. /\ UNCHANGED <<mem, pending, cur, connVars>>
        /\ pc[t] = "start_accept" /\ pc' = [pc EXCEPT ![t] = "idle"]
    BY <1>4 DEF StartAcceptBound
  <2>2. \A u \in Thread : /\ pc'[u] \in Working <=> pc[u] \in Working
                          /\ pc'[u] \in Working /\ pc[u] \in {"handle_request", "blocked"}
                               => pc'[u] \in {"handle_request", "blocked"}
    BY <2>1 DEF Inv, TypeOK, Working
  <2> QED
    BY <2>1, <2>2, StillTraffic
<1> QED
  BY <1>1, <1>2, <1>3, <1>4, AcceptTraffic DEF Continue

\* The peers.
LEMMA PeerTraffic ==
  ASSUME Inv, Traffic, NEW s \in Session, Peer(s)
  PROVE  Traffic'
<1>1. /\ UNCHANGED <<mem, pending, pc, cur, parser, builder, response, sent>>
      /\ \A r \in Session \ {s} : inbox'[r] = inbox[r] /\ client'[r] = client[r]
  BY DEF Peer, Send, Leave, Inv, TypeOK
<1>2. Conn(s)'
  BY SendConn, LeaveConn DEF Peer, Traffic
<1>3. ASSUME NEW r \in Session, r # s PROVE Conn(r)'
  <2>1. Unmoved(r)
    BY <1>1, <1>3 DEF Unmoved, InHandler, HasResponse, Run
  <2> QED
    BY <2>1, UnmovedConn DEF Traffic
<1> QED
  BY <1>2, <1>3 DEF Traffic

\* Every step keeps the invariant of all connections.
LEMMA NextTraffic ==
  ASSUME Inv, Traffic, [Next]_vars
  PROVE  Traffic'
<1>1. CASE Signal
  BY <1>1, StillTraffic DEF Signal
<1>2. CASE UNCHANGED vars
  BY <1>2, StillTraffic DEF vars
<1>3. ASSUME NEW t \in Thread, NEW s \in Session, Accept(t, s) \/ Complete(t, s) PROVE Traffic'
  BY <1>3, AcceptTraffic, CompleteTraffic
<1> QED
  BY <1>1, <1>2, <1>3, HandlerTraffic, PeerTraffic DEF Next

\* The base of the theorems below.
THEOREM TrafficInvariant == Spec => []Traffic
<1>1. Init => Traffic
  BY InitTraffic
<1>2. Inv /\ Traffic /\ [Next]_vars => Traffic'
  BY NextTraffic
<1> QED
  BY <1>1, <1>2, ServerInvariant, PTL DEF Spec

(* Whatever the peers send and whenever, in whatever pieces the reads      *)
(* return it, and whichever threads handle it: the i-th response of a      *)
(* session that is not an error answers the i-th request and nothing else. *)
THEOREM ResponsesAreInOrder == Spec => []ResponsesInOrder
<1>1. Inv /\ Traffic => ResponsesInOrder
  <2> SUFFICES ASSUME Inv, Traffic, NEW s \in Session, NEW i \in DOMAIN sent[s], sent[s][i].code = "ok"
               PROVE  sent[s][i].reqs = {i}
    BY DEF ResponsesInOrder
  <2>1. i \in 1..Len(sent[s])
    BY SessionTypes
  <2> QED
    BY <2>1 DEF Traffic, Conn, SentInOrder
<1> QED
  BY <1>1, ServerInvariant, TrafficInvariant, PTL

(* handle_read reads keep_alive from a builder that belongs to the request *)
(* it answers: a connection outlives a response exactly when its request   *)
(* asked for that.                                                         *)
THEOREM KeepAliveIsHonoured == Spec => []KeepAliveHonoured
<1>1. Inv /\ Traffic => KeepAliveHonoured
  <2> SUFFICES ASSUME Inv, Traffic, NEW s \in Session
               PROVE  /\ \A i \in DOMAIN sent[s] :
                           i < Len(sent[s]) \/ "read" \in pending[s] => client[s].asked[i]
                      /\ mem[s] = "shut" /\ sent[s][Len(sent[s])].code = "ok"
                           => ~client[s].asked[Len(sent[s])]
    BY DEF KeepAliveHonoured
  <2>1. AsksInOrder(s)
    BY DEF Traffic, Conn
  <2>2. ASSUME NEW i \in DOMAIN sent[s], i < Len(sent[s]) \/ "read" \in pending[s]
        PROVE  client[s].asked[i]
    <3>1. i \in 1..Len(sent[s])
      BY SessionTypes
    <3>2. client[s].asked[i] = TRUE
      BY <2>1, <2>2, <3>1 DEF AsksInOrder
    <3> QED
      BY <3>2
  <2>3. ASSUME mem[s] = "shut", sent[s][Len(sent[s])].code = "ok"
        PROVE  ~client[s].asked[Len(sent[s])]
    <3>1. client[s].asked[Len(sent[s])] = FALSE
      BY <2>1, <2>3 DEF AsksInOrder
    <3> QED
      BY <3>1
  <2> QED
    BY <2>2, <2>3
<1> QED
  BY <1>1, ServerInvariant, TrafficInvariant, PTL

(* session answers 400 only to a peer that sent something invalid or that  *)
(* did not wait for a response.                                            *)
THEOREM CleanPeersGetNoBadRequest == Spec => []NoSpuriousBadRequest
<1>1. Traffic => NoSpuriousBadRequest
  BY DEF Traffic, Conn, NotSpurious, NoSpuriousBadRequest
<1> QED
  BY <1>1, TrafficInvariant, PTL

-----------------------------------------------------------------------------
(* What the status handler records.                                        *)

\* t is between the end of a request's handler and the store of the counter.
Recording(t) == pc[t] \in {"append_begin", "append_end", "count_load", "count_store"}

\* The requests served that no thread has still to count.
Counted == {r \in served : \A t \in Thread : Recording(t) => r # Record(t)}

\* The builder is named after the last request it holds bytes of.
LastIsHeld(s) == builder[s].reqs # {} => builder[s].last \in builder[s].reqs

\* Some thread is still in the handler of a request of s.
AtRequest(s) == \E t \in Thread : Run(t, s) /\ pc[t] \in {"handle_request", "blocked"}

\* The next request of s is not served yet; it is, and its response is not sent.
Unanswered(s) == mem[s] = "unborn" \/ pending[s] \cap {"accept", "read"} # {} \/ AtRequest(s)
Answers(s) == "write" \in pending[s] \/ HasResponse(s)

\* What was served of a session is what was answered, and the request that is
\* being answered: a request is served once.
ServedSoFar(s) ==
  \A r \in served : r[1] = s =>
    /\ Unanswered(s) => r[2] <= Len(sent[s])
    /\ Answers(s) => r[2] <= Len(sent[s]) + 1

\* What a thread has loaded and has still to store is no more than what was
\* served, and so is what it records.
LoadedIsServed ==
  \A t \in Thread : /\ tmp[t] <= Cardinality(Counted)
                    /\ Recording(t) => Record(t) \in served

\* The list, until two appends overlap: what was served and is not being added.
ListExact ==
  StatusEnabled /\ ~raced
    => list = {r \in served : \A t \in Thread : Unlisted(t) => r # Record(t)}

\* The inductive invariant of the status handler.
Status ==
  /\ IsFiniteSet(served)
  /\ \A s \in Session : LastIsHeld(s) /\ ServedSoFar(s)
  /\ LoadedIsServed
  /\ ListExact
  /\ counter <= Cardinality(Counted)

\* No thread but t is in s.
Sole(t, s) == \A u \in Thread \ {t} : ~Run(u, s)

\* A session is left to one thread: the one that runs in it, or that takes its
\* operation, or that creates it.
LEMMA SoleThread ==
  ASSUME Inv, NEW t \in Thread, NEW s \in Session,
         Run(t, s) \/ pending[s] # {} \/ mem[s] = "unborn"
  PROVE  Sole(t, s)
BY DEF Inv, SessionExclusive, NoDangling, Sole

\* A step of t that moves s: what it may do to the requests served of s, and
\* what then stays true of all others.
LEMMA MovesStatus ==
  ASSUME Inv, Status, NEW t \in Thread, NEW s \in Session,
         Moves(t, s), Sole(t, s), UNCHANGED statusVars,
         ~Recording(t), ~Recording(t)', LastIsHeld(s)', ServedSoFar(s)'
  PROVE  Status'
<1>1. \A u \in Thread : Recording(u)' <=> Recording(u)
  BY DEF Moves, Recording
<1>2. ASSUME NEW u \in Thread, Recording(u) PROVE Record(u)' = Record(u)
  <2>1. u # t /\ cur'[u] = cur[u] /\ cur[u] \in Session
    BY <1>2 DEF Moves, Recording, Working, Inv, RunsInSession
  <2>2. Run(u, cur[u])
    BY <1>2 DEF Recording, Run, Working
  <2> QED
    BY <2>1, <2>2 DEF Sole, Moves, Record
<1>3. Counted' = Counted
  BY <1>1, <1>2 DEF Counted, statusVars
<1>4. LoadedIsServed'
  BY <1>1, <1>2, <1>3 DEF Status, LoadedIsServed, statusVars
<1>6. ListExact'
  <2>1. \A u \in Thread : Unlisted(u) => Recording(u)
    BY DEF Unlisted, Recording
  <2>2. \A u \in Thread : Unlisted(u)' <=> Unlisted(u)
    BY DEF Moves, Recording, Unlisted
  <2> QED
    BY <1>2, <2>1, <2>2 DEF Status, ListExact, statusVars
<1>5. ASSUME NEW r \in Session, r # s PROVE LastIsHeld(r)' /\ ServedSoFar(r)'
  <2>1. \A u \in Thread : /\ Run(u, r)' <=> Run(u, r)
                          /\ Run(u, r) => pc'[u] = pc[u]
    BY <1>5 DEF Moves, Run
  <2>2. (AtRequest(r)' => AtRequest(r)) /\ (HasResponse(r)' => HasResponse(r))
    BY <2>1 DEF AtRequest, HasResponse
  <2> QED
    BY <1>5, <2>2 DEF Status, LastIsHeld, ServedSoFar, Unanswered, Answers, Moves, statusVars
<1> QED
  BY <1>3, <1>4, <1>5, <1>6 DEF Status, statusVars

\* A step that leaves the sessions alone, and records nothing.
LEMMA StillStatus ==
  ASSUME Status, UNCHANGED <<mem, pending, cur, builder, sent, statusVars>>,
         \A u \in Thread : pc'[u] # pc[u] =>
            \/ pc[u] = "handle_request" /\ pc'[u] = "blocked"
            \/ pc[u] = "start_accept" /\ pc'[u] = "idle"
  PROVE  Status'
<1>1. \A u \in Thread : (Recording(u)' <=> Recording(u)) /\ Record(u)' = Record(u)
  BY DEF Recording, Record
<1>2. Counted' = Counted
  BY <1>1 DEF Counted, statusVars
<1>3. LoadedIsServed'
  BY <1>1, <1>2 DEF Status, LoadedIsServed, statusVars
<1>4. \A r \in Session : (AtRequest(r)' => AtRequest(r)) /\ (HasResponse(r)' => HasResponse(r))
  BY DEF AtRequest, HasResponse, Run, Working
<1>5. ListExact'
  <2>1. \A u \in Thread : Unlisted(u)' <=> Unlisted(u)
    BY DEF Unlisted
  <2> QED
    BY <1>1, <2>1 DEF Status, ListExact, statusVars
<1> QED
  BY <1>2, <1>3, <1>4, <1>5
     DEF Status, LastIsHeld, ServedSoFar, Unanswered, Answers, statusVars

\* The acceptor.
LEMMA AcceptStatus ==
  ASSUME Inv, Status, NEW t \in Thread, NEW s \in Session, Accept(t, s) \/ StartAccept(t, s)
  PROVE  Status'
<1>1. /\ pending[s] \subseteq {"accept"} /\ "write" \notin pending'[s]
      /\ Unanswered(s) /\ Sole(t, s)
  <2>1. CASE Accept(t, s)
    <3>1. pending[s] = {"accept"} /\ pending'[s] \in {{}, {"read"}}
      BY <2>1, OnlyOperation DEF Accept, HandleAccept, HandleAcceptError, Inv, TypeOK
    <3> QED
      BY <3>1, SoleThread DEF Unanswered
  <2>2. CASE StartAccept(t, s)
    <3>1. mem[s] = "unborn" /\ pending[s] = {} /\ pending'[s] = {"accept"}
      BY <2>2 DEF StartAccept, Inv, NoDangling, TypeOK
    <3> QED
      BY <3>1, SoleThread DEF Unanswered
  <2> QED
    BY <2>1, <2>2
<1>2. \A u \in Thread : ~Run(u, s) /\ ~Run(u, s)'
  BY <1>1, AcceptMoves DEF Sole, Moves, Run
<1>3. LastIsHeld(s)' /\ ServedSoFar(s)'
  BY <1>1, <1>2, AcceptMoves
     DEF Status, LastIsHeld, ServedSoFar, Answers, HasResponse, connVars, statusVars
<1>4. ~Recording(t) /\ ~Recording(t)'
  BY DEF Accept, HandleAccept, HandleAcceptError, StartAccept, Idle, Recording, Inv, TypeOK
<1> QED
  BY <1>1, <1>3, <1>4, AcceptMoves, MovesStatus

\* The handlers of reads and writes.
LEMMA CompleteStatus ==
  ASSUME Inv, Status, NEW t \in Thread, NEW s \in Session, Complete(t, s)
  PROVE  Status'
<1>1. Moves(t, s) /\ Sole(t, s) /\ UNCHANGED statusVars /\ pc[t] = "idle"
  BY CompleteMoves, SoleThread
<1>2. \A u \in Thread : ~Run(u, s) /\ (Run(u, s)' => u = t)
  BY <1>1, OutsideHandlers DEF Sole, Moves, Run
<1>3. LastIsHeld(s) /\ ServedSoFar(s) /\ Len(sent[s]) \in Nat /\ pending[s] \subseteq Ops
  BY SessionTypes DEF Status
<1>4. \A r \in served : r[2] \in Nat
  BY DEF Inv, TypeOK
<1>5. ASSUME NEW k, NEW i, NEW result, Read(t, s, k, i, result) PROVE LastIsHeld(s)'
  <2>1. builder'[s] = Filled(builder[s], s, i) /\ i \in 1..i
    BY <1>5 DEF Read, Inv, TypeOK
  <2> QED
    BY <2>1 DEF Filled, LastIsHeld
<1>6. ASSUME NEW k, HandleReadGood(t, s, k)
      PROVE  LastIsHeld(s)' /\ ServedSoFar(s)' /\ pc'[t] = "handle_request"
  <2>1. /\ Unanswered(s) /\ sent' = sent /\ pending'[s] = {} /\ pc'[t] = "handle_request"
        /\ LastIsHeld(s)'
    BY <1>5, <1>6, OnlyOperation DEF HandleReadGood, Read, Unanswered, Inv, TypeOK
  <2>2. ~Answers(s)'
    BY <1>2, <2>1 DEF Answers, HasResponse
  <2> QED
    BY <1>1, <1>3, <2>1, <2>2 DEF ServedSoFar, statusVars
<1>7. ASSUME NEW k, HandleReadMore(t, s, k)
      PROVE  LastIsHeld(s)' /\ ServedSoFar(s)' /\ pc' = pc
  <2>1. UNCHANGED <<mem, pending, pc, cur, sent>> /\ LastIsHeld(s)'
    BY <1>5, <1>7 DEF HandleReadMore
  <2> QED
    BY <1>1, <1>3, <2>1
       DEF ServedSoFar, Unanswered, Answers, AtRequest, HasResponse, Run, statusVars
<1>8. ASSUME pc' = pc /\ cur' = cur, mem'[s] # "unborn", pending'[s] \subseteq {"close"}
      PROVE  ServedSoFar(s)'
  <2>1. ~Unanswered(s)' /\ ~Answers(s)'
    BY <1>2, <1>8 DEF Unanswered, Answers, AtRequest, HasResponse, Run
  <2> QED
    BY <2>1 DEF ServedSoFar
<1>9. ASSUME NEW k, NEW i, HandleReadBad(t, s, k, i)
      PROVE  LastIsHeld(s)' /\ ServedSoFar(s)' /\ pc' = pc
  <2>1. pending[s] = {"read"} /\ mem[s] = "open"
    BY <1>9, OnlyOperation DEF HandleReadBad, Read
  <2>2. pending'[s] = {"close"} /\ mem'[s] = "open" /\ pc' = pc /\ cur' = cur
    BY <1>9, <2>1 DEF HandleReadBad, Inv, TypeOK
  <2>3. LastIsHeld(s)'
    BY <1>5, <1>9 DEF HandleReadBad
  <2> QED
    BY <1>8, <2>2, <2>3
<1>10. ASSUME HandleWrite(t, s) PROVE LastIsHeld(s)' /\ ServedSoFar(s)' /\ pc' = pc
  <2>1. pending[s] = {"write"}
    BY <1>10, OnlyOperation DEF HandleWrite
  <2>2. /\ pending'[s] = {"read"} /\ sent'[s] = Append(sent[s], response[s])
        /\ UNCHANGED <<pc, cur, builder>>
    BY <1>10, <2>1 DEF HandleWrite, Inv, TypeOK
  <2>3. Answers(s) /\ ~Answers(s)'
    BY <1>2, <2>1, <2>2 DEF Answers, HasResponse, Run
  <2>4. Len(sent'[s]) = Len(sent[s]) + 1
    BY <2>2, SessionTypes
  <2> QED
    BY <1>1, <1>3, <2>2, <2>3, <2>4 DEF ServedSoFar, LastIsHeld, statusVars
<1>11. ASSUME Shutdown(t, s) \/ \E op \in {"read", "write", "close"} : Delete(t, s, op)
       PROVE  LastIsHeld(s)' /\ ServedSoFar(s)' /\ pc' = pc
  <2>1. pending'[s] = {} /\ mem'[s] # "unborn" /\ UNCHANGED <<pc, cur, builder>>
    BY <1>11, OnlyOperation DEF Shutdown, Delete, connVars, Inv, TypeOK
  <2> QED
    BY <1>3, <1>8, <2>1 DEF LastIsHeld
<1>12. LastIsHeld(s)' /\ ServedSoFar(s)' /\ pc'[t] \in {"idle", "handle_request"}
  BY <1>1, <1>6, <1>7, <1>9, <1>10, <1>11
     DEF Complete, HandleReadError, HandleWriteError, ShutdownError
<1>13. ~Recording(t) /\ ~Recording(t)'
  BY <1>1, <1>12 DEF Recording
<1> QED
  BY <1>1, <1>12, <1>13, MovesStatus

\* The requests counted are finitely many, and more of them count for more.
LEMMA CountedGrows ==
  ASSUME IsFiniteSet(served), IsFiniteSet(served)', Counted \subseteq Counted'
  PROVE  /\ Cardinality(Counted) \in Nat /\ Cardinality(Counted)' \in Nat
         /\ Cardinality(Counted) <= Cardinality(Counted)'
<1>1. Counted \in SUBSET served /\ Counted' \in SUBSET served'
  BY DEF Counted
<1>2. IsFiniteSet(Counted) /\ IsFiniteSet(Counted')
  BY <1>1, FS_Subset
<1>3. Cardinality(Counted) <= Cardinality(Counted')
  BY <1>2, FS_Subset
<1> QED
  BY <1>2, <1>3, FS_CardinalityType

\* A handler returns: its request is one that was not served before.
LEMMA HandlerReturnsStatus ==
  ASSUME Inv, Traffic, Status, NEW t \in Thread, HandleRequest(t) \/ Unblock(t)
  PROVE  Status'
<1>1. PICK s \in Session : s = cur[t] /\ Run(t, s) /\ Moves(t, s)
  BY HandlerMoves
<1>2. Sole(t, s)
  BY <1>1, SoleThread
<1>3. /\ pc[t] \in {"handle_request", "blocked"} /\ cur' = cur /\ builder' = builder
      /\ sent' = sent /\ mem' = mem /\ pending' = pending
      /\ list' = list /\ counter' = counter /\ tmp' = tmp /\ raced' = raced
      /\ served' = served \cup {Record(t)}
      /\ pc'[t] = IF StatusEnabled THEN "append_begin" ELSE "respond"
  BY DEF HandleRequest, Unblock, HandlerReturns, Record, Inv, TypeOK
<1>4. AtRequest(s) /\ InHandler(s)
  BY <1>1, <1>3 DEF AtRequest, InHandler
<1>5. PICK n \in Nat : n = Len(sent[s])
  BY SessionTypes
<1>6. builder[s].last = n + 1
  <2>1. builder[s].reqs = {n + 1}
    BY <1>4, <1>5 DEF Traffic, Conn, BuilderInOrder
  <2> QED
    BY <2>1 DEF Status, LastIsHeld
<1>7. \A r \in served : r[1] = s => r[2] <= n
  BY <1>4, <1>5 DEF Status, ServedSoFar, Unanswered
<1>8. Record(t) = <<s, n + 1>> /\ Record(t) \notin served
  BY <1>1, <1>6, <1>7 DEF Record
<1>9. IsFiniteSet(served)'
  BY <1>3, FS_AddElement DEF Status
<1>10. \A u \in Thread : Record(u)' = Record(u) /\ (u # t => (Recording(u)' <=> Recording(u)))
  BY <1>1, <1>3 DEF Record, Recording, Moves
<1>11. Counted \subseteq Counted'
  <2>1. ASSUME NEW r \in Counted, NEW u \in Thread, Recording(u)' PROVE r # Record(u)'
    BY <1>8, <1>10, <2>1 DEF Counted
  <2>2. Counted \subseteq served'
    BY <1>3 DEF Counted
  <2> QED
    BY <2>1, <2>2 DEF Counted
<1>12. /\ Cardinality(Counted) \in Nat /\ Cardinality(Counted)' \in Nat
       /\ Cardinality(Counted) <= Cardinality(Counted)'
  BY <1>9, <1>11, CountedGrows DEF Status
<1>13. LoadedIsServed'
  <2> SUFFICES ASSUME NEW u \in Thread
               PROVE  /\ tmp'[u] <= Cardinality(Counted)'
                      /\ Recording(u)' => Record(u)' \in served'
    BY DEF LoadedIsServed
  <2>1. /\ tmp[u] <= Cardinality(Counted) /\ tmp[u] \in Nat
        /\ Recording(u) => Record(u) \in served
    BY DEF Status, LoadedIsServed, Inv, TypeOK
  <2> QED
    BY <1>3, <1>10, <1>12, <2>1
<1>14. counter' <= Cardinality(Counted)'
  <2>1. counter <= Cardinality(Counted) /\ counter \in Nat
    BY DEF Status, Inv, TypeOK
  <2> QED
    BY <1>3, <1>12, <2>1
<1>16. ListExact'
  <2> SUFFICES ASSUME StatusEnabled, ~raced, NEW r
               PROVE  r \in list <=>
                        /\ r \in served'
                        /\ \A u \in Thread : Unlisted(u)' => r # Record(u)'
    BY <1>3 DEF ListExact
  <2>1. r \in list <=> r \in served /\ \A u \in Thread : Unlisted(u) => r # Record(u)
    BY DEF Status, ListExact
  <2>2. Unlisted(t)' /\ ~Unlisted(t) /\ \A u \in Thread \ {t} : Unlisted(u)' <=> Unlisted(u)
    BY <1>1, <1>3 DEF Unlisted, Moves
  <2> QED
    BY <1>3, <1>8, <1>10, <2>1, <2>2
<1>15. ASSUME NEW r \in Session PROVE LastIsHeld(r)' /\ ServedSoFar(r)'
  <2>1. LastIsHeld(r) /\ ServedSoFar(r)
    BY DEF Status
  <2>2. LastIsHeld(r)'
    BY <1>3, <2>1 DEF LastIsHeld
  <2>3. CASE r = s
    <3>1. pending[s] = {} /\ mem[s] # "unborn"
      BY <1>1 DEF Inv, SessionExclusive, NoDangling
    <3>2. \A u \in Thread : Run(u, s)' => u = t
      BY <1>1, <1>2 DEF Sole, Moves, Run
    <3>3. ~Unanswered(s)'
      BY <1>3, <3>1, <3>2 DEF Unanswered, AtRequest
    <3>4. \A q \in served' : q[1] = s => q[2] <= n + 1
      <4>1. \A q \in served : q[2] \in Nat
        BY DEF Inv, TypeOK
      <4> QED
        BY <1>3, <1>7, <1>8, <4>1
    <3> QED
      BY <1>3, <1>5, <2>2, <2>3, <3>3, <3>4 DEF ServedSoFar
  <2>4. CASE r # s
    <3>1. \A u \in Thread : /\ Run(u, r)' <=> Run(u, r)
                            /\ Run(u, r) => pc'[u] = pc[u]
      BY <1>1, <2>4 DEF Moves, Run
    <3>2. (AtRequest(r)' => AtRequest(r)) /\ (HasResponse(r)' => HasResponse(r))
      BY <3>1 DEF AtRequest, HasResponse
    <3>3. (Unanswered(r)' => Unanswered(r)) /\ (Answers(r)' => Answers(r))
      BY <1>3, <3>2 DEF Unanswered, Answers
    <3> QED
      BY <1>3, <1>8, <2>1, <2>2, <2>4, <3>3 DEF ServedSoFar
  <2> QED
    BY <2>3, <2>4
<1> QED
  BY <1>9, <1>13, <1>14, <1>15, <1>16 DEF Status

\* The steps of record_received_request.  The requests that two threads record
\* are two requests, of two sessions.
LEMMA RecordStatus ==
  ASSUME Inv, Status, NEW t \in Thread,
         AppendBegin(t) \/ AppendEnd(t) \/ CountLoad(t) \/ CountStore(t)
  PROVE  Status'
<1>1. /\ UNCHANGED <<mem, pending, cur, connVars, served>> /\ Recording(t)
      /\ \A u \in Thread \ {t} : pc'[u] = pc[u] /\ tmp'[u] = tmp[u]
      /\ pc'[t] \in {"append_end", "count_load", "count_store", "respond"}
  BY DEF AppendBegin, AppendEnd, CountLoad, CountStore, Recording, Inv, TypeOK
<1>2. \A u \in Thread : Record(u)' = Record(u)
  BY <1>1 DEF Record, connVars
<1>3. IsFiniteSet(served)'
  BY <1>1 DEF Status
<1>4. \A r \in Session : LastIsHeld(r)' /\ ServedSoFar(r)'
  <2>1. \A r \in Session : (AtRequest(r)' => AtRequest(r)) /\ (HasResponse(r)' => HasResponse(r))
    BY <1>1 DEF AtRequest, HasResponse, Run, Recording, Working
  <2> QED
    BY <1>1, <2>1 DEF Status, LastIsHeld, ServedSoFar, Unanswered, Answers, connVars
<1>5. Counted \subseteq Counted'
  <2>1. \A u \in Thread : Recording(u)' => Recording(u)
    BY <1>1 DEF Recording
  <2> QED
    BY <1>1, <1>2, <2>1 DEF Counted
<1>6. /\ Cardinality(Counted) \in Nat /\ Cardinality(Counted)' \in Nat
      /\ Cardinality(Counted) <= Cardinality(Counted)'
  BY <1>3, <1>5, CountedGrows DEF Status
<1>7. /\ counter <= Cardinality(Counted) /\ counter \in Nat
      /\ Record(t) \in served
      /\ \A u \in Thread :
           /\ tmp[u] <= Cardinality(Counted) /\ tmp[u] \in Nat
           /\ Recording(u) => Record(u) \in served
  BY <1>1 DEF Status, LoadedIsServed, Inv, TypeOK
<1>8. ASSUME NEW u \in Thread, u # t, Recording(u) PROVE Record(u) # Record(t)
  <2>1. Run(u, cur[u]) /\ Run(t, cur[t]) /\ cur[t] \in Session
    BY <1>1, <1>8 DEF Recording, Run, Working, Inv, RunsInSession
  <2>2. cur[u] # cur[t]
    BY <1>8, <2>1 DEF Inv, SessionExclusive
  <2> QED
    BY <2>2 DEF Record
<1>11. ListExact'
  <2> SUFFICES ASSUME StatusEnabled, ~raced'
               PROVE  list' = {r \in served : \A u \in Thread : Unlisted(u)' => r # Record(u)}
    BY <1>1, <1>2 DEF ListExact
  <2>1. ~raced /\ list = {r \in served : \A u \in Thread : Unlisted(u) => r # Record(u)}
    <3>1. raced \in BOOLEAN
      BY DEF Inv, TypeOK
    <3>2. raced' = raced \/ raced' = (raced \/ Appending # {})
      BY DEF AppendBegin, AppendEnd, CountLoad, CountStore
    <3> QED
      BY <3>1, <3>2 DEF Status, ListExact
  <2>2. \A u \in Thread \ {t} : Unlisted(u)' <=> Unlisted(u)
    BY <1>1 DEF Unlisted
  <2>3. CASE AppendEnd(t)
    <3>1. list' = list \cup {Record(t)} /\ Unlisted(t) /\ ~Unlisted(t)'
      BY <2>1, <2>3 DEF AppendEnd, Unlisted, Inv, TypeOK
    <3>2. \A u \in Thread \ {t} : Unlisted(u) => Record(u) # Record(t)
      BY <1>8 DEF Unlisted, Recording
    <3> QED
      BY <1>7, <2>1, <2>2, <3>1, <3>2
  <2>4. CASE AppendBegin(t) \/ CountLoad(t) \/ CountStore(t)
    <3>1. list' = list /\ (Unlisted(t)' <=> Unlisted(t))
      BY <2>4 DEF AppendBegin, CountLoad, CountStore, Unlisted, Inv, TypeOK
    <3> QED
      BY <2>1, <2>2, <3>1
  <2> QED
    BY <2>3, <2>4
<1>9. counter' <= Cardinality(Counted)'
  <2>1. CASE counter' = counter
    BY <1>6, <1>7, <2>1
  <2>2. CASE CountStore(t)
    <3>1. counter' = tmp[t] + 1 /\ ~Recording(t)'
      BY <2>2 DEF CountStore, Recording, Inv, TypeOK
    <3>3. Record(t) \notin Counted /\ Record(t) \in Counted'
      BY <1>1, <1>2, <1>7, <1>8, <3>1 DEF Counted, Recording
    <3>4. IsFiniteSet(Counted) /\ IsFiniteSet(Counted')
      BY <1>3, FS_Subset DEF Counted, Status
    <3>5. Cardinality(Counted \cup {Record(t)}) = Cardinality(Counted) + 1
      BY <3>3, <3>4, FS_AddElement
    <3>6. Cardinality(Counted \cup {Record(t)}) <= Cardinality(Counted')
      BY <1>5, <3>3, <3>4, FS_Subset
    <3>7. Cardinality(Counted') \in Nat
      BY <3>4, FS_CardinalityType
    <3> QED
      BY <1>6, <1>7, <3>1, <3>5, <3>6, <3>7
  <2> QED
    BY <2>1, <2>2 DEF AppendBegin, AppendEnd, CountLoad
<1>10. LoadedIsServed'
  <2> SUFFICES ASSUME NEW u \in Thread
               PROVE  /\ tmp'[u] <= Cardinality(Counted)'
                      /\ Recording(u)' => Record(u)' \in served'
    BY DEF LoadedIsServed
  <2>1. Recording(u)' => Record(u)' \in served'
    BY <1>1, <1>2, <1>7 DEF Recording
  <2>2. tmp'[u] \in {tmp[u], counter, 0}
    <3>1. CASE u # t
      BY <1>1, <3>1
    <3>2. CASE u = t
      BY <3>2 DEF AppendBegin, AppendEnd, CountLoad, CountStore, Inv, TypeOK
    <3> QED
      BY <3>1, <3>2
  <2>3. tmp'[u] <= Cardinality(Counted)'
    BY <1>6, <1>7, <2>2
  <2> QED
    BY <2>1, <2>3
<1> QED
  BY <1>3, <1>4, <1>9, <1>10, <1>11 DEF Status

\* The session is renewed, or closed, and its response written.
LEMMA RespondStatus ==
  ASSUME Inv, Status, NEW t \in Thread, Respond(t)
  PROVE  Status'
<1>1. PICK s \in Session : s = cur[t] /\ Run(t, s) /\ Moves(t, s)
  BY HandlerMoves
<1>2. Sole(t, s)
  BY <1>1, SoleThread
<1>3. pending[s] = {} /\ mem[s] # "unborn"
  BY <1>1 DEF Inv, SessionExclusive, NoDangling
<1>4. /\ pc[t] = "respond" /\ pc'[t] = "idle" /\ mem' = mem /\ sent' = sent
      /\ UNCHANGED statusVars
      /\ builder'[s] = FreshBuilder \/ builder'[s] = builder[s]
      /\ pending'[s] \in {{"write"}, {"close"}}
  BY <1>1, <1>3 DEF Respond, Renew, StartWrite, Inv, TypeOK
<1>5. \A u \in Thread : ~Run(u, s)'
  BY <1>1, <1>2, <1>4 DEF Sole, Moves, Run, Working
<1>6. Answers(s) /\ ~Unanswered(s)'
  BY <1>1, <1>3, <1>4, <1>5 DEF Answers, Unanswered, AtRequest, HasResponse
<1>7. LastIsHeld(s)' /\ ServedSoFar(s)'
  BY <1>4, <1>6 DEF Status, LastIsHeld, ServedSoFar, FreshBuilder, statusVars
<1>8. ~Recording(t) /\ ~Recording(t)'
  BY <1>4 DEF Recording
<1> QED
  BY <1>1, <1>2, <1>4, <1>7, <1>8, MovesStatus

\* Nothing was served at the start.
LEMMA InitStatus == Init => Status
<1> SUFFICES ASSUME Init PROVE Status
  OBVIOUS
<1>1. served = {} /\ list = {} /\ counter = 0 /\ Counted = {}
  BY DEF Init, Counted
<1>2. IsFiniteSet(served) /\ Cardinality(Counted) = 0
  BY <1>1, FS_EmptySet
<1>3. \A t \in Thread : ~Recording(t) /\ tmp[t] = 0
  BY DEF Init, Recording
<1>4. \A s \in Session : LastIsHeld(s) /\ ServedSoFar(s)
  BY <1>1 DEF Init, LastIsHeld, ServedSoFar, FreshBuilder
<1> QED
  BY <1>1, <1>2, <1>3, <1>4 DEF Status, LoadedIsServed, ListExact

\* Every step keeps the invariant of the status handler.
LEMMA NextStatus ==
  ASSUME Inv, Traffic, Status, [Next]_vars
  PROVE  Status'
<1>1. CASE Signal \/ UNCHANGED vars
  BY <1>1, StillStatus DEF Signal, vars, connVars
<1>2. ASSUME NEW s \in Session, Peer(s) PROVE Status'
  BY <1>2, StillStatus DEF Peer, Send, Leave
<1>3. ASSUME NEW t \in Thread, HandlerThrows(t) \/ AppendRace(t) PROVE Status'
  BY <1>3, StillStatus DEF HandlerThrows, AppendRace, connVars
<1>4. ASSUME NEW t \in Thread, Block(t) \/ StartAcceptBound(t) PROVE Status'
  <2>1. /\ UNCHANGED <<mem, pending, cur, builder, sent, statusVars>>
        /\ \A u \in Thread : pc'[u] # pc[u] =>
             \/ pc[u] = "handle_request" /\ pc'[u] = "blocked"
             \/ pc[u] = "start_accept" /\ pc'[u] = "idle"
    BY <1>4 DEF Block, StartAcceptBound, connVars, Inv, TypeOK
  <2> QED
    BY <2>1, StillStatus
<1>5. ASSUME NEW t \in Thread, Continue(t) \/ Block(t) \/ Unblock(t) PROVE Status'
  BY <1>3, <1>4, <1>5, HandlerReturnsStatus, RecordStatus, RespondStatus, AcceptStatus DEF Continue
<1>6. ASSUME NEW t \in Thread, NEW s \in Session, Accept(t, s) \/ Complete(t, s) PROVE Status'
  BY <1>6, AcceptStatus, CompleteStatus
<1> QED
  BY <1>1, <1>2, <1>5, <1>6 DEF Next

(* The status handler, whose string and counter any number of threads      *)
(* update without a lock, may lose counts but never counts more than was   *)
(* served, and its list holds exactly the requests that were served, but   *)
(* for those still being recorded, as long as no two threads were in       *)
(* the append to it at once: from then on nothing is said of the list.     *)
(* Every request is served once, so that each count has its own request.   *)
THEOREM StatusNeverOvercounts == Spec => []RecordedWereServed
<1>1. Init => Status
  BY InitStatus
<1>2. Inv /\ Traffic /\ Status /\ [Next]_vars => Status'
  BY NextStatus
<1>3. Inv /\ Status => RecordedWereServed
  <2> SUFFICES ASSUME Inv, Status PROVE RecordedWereServed
    OBVIOUS
  <2>1. IsFiniteSet(Counted) /\ Cardinality(Counted) <= Cardinality(served)
    BY FS_Subset DEF Status, Counted
  <2>2. Cardinality(Counted) \in Nat /\ Cardinality(served) \in Nat
    BY <2>1, FS_CardinalityType DEF Status
  <2>3. counter <= Cardinality(served)
    BY <2>1, <2>2 DEF Status, Inv, TypeOK
  <2>4. ASSUME StatusEnabled, ~raced
        PROVE  list = served \ {Record(t) : t \in {u \in Thread : Unlisted(u)}}
    BY <2>4 DEF Status, ListExact
  <2> QED
    BY <2>3, <2>4 DEF RecordedWereServed
<1> QED
  BY <1>1, <1>2, <1>3, ServerInvariant, TrafficInvariant, PTL DEF Spec
=============================================================================
