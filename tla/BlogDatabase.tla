---------------------------- MODULE BlogDatabase ----------------------------
(***************************************************************************)
(* blog_database (blog_database.cc): the posts table in PostgreSQL behind  *)
(* one connection, which the threads of the pool use one at a time under   *)
(* the mutex of class database.  Any query or commit may throw; a commit   *)
(* may also be carried out without its answer arriving.                    *)
(***************************************************************************)
EXTENDS BlogTypes

CONSTANTS NoThread,   \* the mutex is free
          MaxCalls    \* bound: calls a thread makes

ASSUME DatabaseAssumption == NoThread \notin Thread /\ MaxCalls \in Nat

VARIABLES
  posts,      \* the table posts: id -> post, or NoPost
  seq,        \* posts_postid_seq: the next value, which no rollback gives back
  txn,        \* thread -> the row its open transaction has inserted
  mtx_,       \* the thread that holds the mutex
  connected,  \* did the constructor get a connection?
  up,         \* FALSE after the process died
  pc, call, res,
  calls       \* thread -> how many calls it has made

vars == <<posts, seq, txn, mtx_, connected, up, pc, call, res, calls>>

\* What a call returns from its catch block or leaves as its sentinel.
FailResult(op) == [id |-> IF op = "get_all_blogs" THEN 0 ELSE -1, rows |-> {}]

Rows(S) == {<<i, posts[i]>> : i \in {j \in S : posts[j] # NoPost}}

Init ==
  /\ posts = [i \in Id |-> NoPost] /\ seq = 1
  /\ txn = [t \in Thread |-> 0]
  /\ mtx_ = NoThread
  /\ connected \in BOOLEAN
  /\ up = TRUE
  /\ pc = [t \in Thread |-> "idle"]
  /\ call = [t \in Thread |-> NoCall]
  /\ res = [t \in Thread |-> NoResult]
  /\ calls = [t \in Thread |-> 0]

Step(t, from, to) == up /\ pc[t] = from /\ pc' = [pc EXCEPT ![t] = to]

\* A blog handler on thread t calls the database.
Invoke(t) ==
  /\ Step(t, "idle", "lock") /\ calls[t] < MaxCalls
  /\ \E c \in Call : call' = [call EXCEPT ![t] = c]
  /\ calls' = [calls EXCEPT ![t] = @ + 1]
  /\ UNCHANGED <<posts, seq, txn, mtx_, connected, up, res>>

\* Mutant: the guard is missing.
LockUnguarded(t) ==
  /\ Step(t, "lock", "exec")
  /\ mtx_' = t
  /\ UNCHANGED <<posts, seq, txn, connected, up, call, res, calls>>

\* std::lock_guard
Lock(t) ==
  /\ Step(t, "lock", "exec")
  /\ mtx_ = NoThread /\ mtx_' = t
  /\ UNCHANGED <<posts, seq, txn, connected, up, call, res, calls>>

\* conn_ was never set: the constructor's exception was only logged.
NoConnection(t) ==
  /\ up /\ pc[t] = "exec" /\ ~connected
  /\ up' = FALSE
  /\ UNCHANGED <<posts, seq, txn, mtx_, connected, pc, call, res, calls>>

\* Mutant: the id is already set when the commit throws, and is returned.
ThrowReturnsId(t) ==
  /\ connected /\ pc[t] \in {"exec", "commit"} /\ Step(t, pc[t], "unlock")
  /\ txn' = [txn EXCEPT ![t] = 0]
  /\ res' = [res EXCEPT ![t] = IF pc[t] = "commit" THEN [id |-> txn[t], rows |-> {}]
                               ELSE FailResult(call[t].op)]
  /\ UNCHANGED <<posts, seq, mtx_, connected, up, call, calls>>

\* Mutant: lock and unlock by hand, and the path that throws does not unlock.
ThrowKeepsLock(t) ==
  /\ connected /\ pc[t] \in {"exec", "commit"} /\ Step(t, pc[t], "return")
  /\ txn' = [txn EXCEPT ![t] = 0]
  /\ res' = [res EXCEPT ![t] = FailResult(call[t].op)]
  /\ UNCHANGED <<posts, seq, mtx_, connected, up, call, calls>>

\* A query or the commit throws: the transaction is gone, the mutex released
\* as the guard goes out of scope, the failure result returned.
Throw(t) ==
  /\ connected /\ pc[t] \in {"exec", "commit"} /\ Step(t, pc[t], "unlock")
  /\ txn' = [txn EXCEPT ![t] = 0]
  /\ res' = [res EXCEPT ![t] = FailResult(call[t].op)]
  /\ UNCHANGED <<posts, seq, mtx_, connected, up, call, calls>>

\* Mutant: the next id is looked up, and not taken.
ExecInsertPeeks(t) ==
  /\ connected /\ call[t].op = "insert_blog" /\ Step(t, "exec", "commit")
  /\ seq <= MaxId
  /\ txn' = [txn EXCEPT ![t] = seq]
  /\ UNCHANGED <<posts, seq, mtx_, connected, up, call, res, calls>>

\* INSERT ... RETURNING postid inside the transaction.
ExecInsert(t) ==
  /\ connected /\ call[t].op = "insert_blog" /\ Step(t, "exec", "commit")
  /\ seq <= MaxId
  /\ txn' = [txn EXCEPT ![t] = seq] /\ seq' = seq + 1
  /\ UNCHANGED <<posts, mtx_, connected, up, call, res, calls>>

Store(t) == posts' = [posts EXCEPT ![txn[t]] = call[t].post]

Commit(t) ==
  /\ Step(t, "commit", "unlock")
  /\ Store(t)
  /\ res' = [res EXCEPT ![t] = [id |-> txn[t], rows |-> {}]]
  /\ txn' = [txn EXCEPT ![t] = 0]
  /\ UNCHANGED <<seq, mtx_, connected, up, call, calls>>

\* The server committed, and the connection broke before it said so.
CommitInDoubt(t) ==
  /\ Step(t, "commit", "unlock")
  /\ Store(t)
  /\ res' = [res EXCEPT ![t] = FailResult(call[t].op)]
  /\ txn' = [txn EXCEPT ![t] = 0]
  /\ UNCHANGED <<seq, mtx_, connected, up, call, calls>>

\* Mutant: a missing row is returned as an empty post with the id asked for.
ExecGetEmpty(t) ==
  /\ connected /\ call[t].op = "get_blog" /\ Step(t, "exec", "unlock")
  /\ res' = [res EXCEPT ![t] = [id |-> call[t].id, rows |-> Rows(Id \cap {call[t].id})]]
  /\ UNCHANGED <<posts, seq, txn, mtx_, connected, up, call, calls>>

\* get_blog: an empty result throws in R.at(0) and leaves the sentinel.
ExecGet(t) ==
  /\ connected /\ call[t].op = "get_blog" /\ Step(t, "exec", "unlock")
  /\ LET found == Rows(Id \cap {call[t].id}) IN
       res' = [res EXCEPT ![t] =
                 IF found = {} THEN FailResult("get_blog")
                 ELSE [id |-> call[t].id, rows |-> found]]
  /\ UNCHANGED <<posts, seq, txn, mtx_, connected, up, call, calls>>

ExecGetAll(t) ==
  /\ connected /\ call[t].op = "get_all_blogs" /\ Step(t, "exec", "unlock")
  /\ res' = [res EXCEPT ![t] = [id |-> 0, rows |-> Rows(Id)]]
  /\ UNCHANGED <<posts, seq, txn, mtx_, connected, up, call, calls>>

Unlock(t) ==
  /\ Step(t, "unlock", "return")
  /\ mtx_' = NoThread
  /\ UNCHANGED <<posts, seq, txn, connected, up, call, res, calls>>

Return(t) ==
  /\ Step(t, "return", "idle")
  /\ call' = [call EXCEPT ![t] = NoCall]
  /\ res' = [res EXCEPT ![t] = NoResult]
  /\ UNCHANGED <<posts, seq, txn, mtx_, connected, up, calls>>

\* The steps a call takes on its own once it has been made.
Progress(t) ==
  \/ Lock(t) \/ NoConnection(t) \/ Throw(t)
  \/ ExecInsert(t) \/ Commit(t) \/ CommitInDoubt(t) \/ ExecGet(t) \/ ExecGetAll(t)
  \/ Unlock(t) \/ Return(t)

Next == \E t \in Thread : Invoke(t) \/ Progress(t)

Spec == Init /\ [][Next]_vars

\* A thread that can go on does.  Blocking queries are assumed to end.
FairSpec == Spec /\ \A t \in Thread : WF_vars(Progress(t))

-----------------------------------------------------------------------------
(* Properties.                                                             *)

TypeOK ==
  /\ posts \in [Id -> Post \cup {NoPost}]
  /\ seq \in 1..(MaxId + 1)
  /\ txn \in [Thread -> Id \cup {0}]
  /\ mtx_ \in Thread \cup {NoThread}
  /\ connected \in BOOLEAN /\ up \in BOOLEAN
  /\ pc \in [Thread -> {"idle", "lock", "exec", "commit", "unlock", "return"}]
  /\ call \in [Thread -> Call \cup {NoCall}]
  /\ res \in [Thread -> Result]
  /\ calls \in [Thread -> 0..MaxCalls]

UsesConnection(t) == pc[t] \in {"exec", "commit", "unlock"}

(* The connection, which is not safe to share, is used by one thread at a  *)
(* time, and so at most one transaction is ever open on it.                *)
OneUser ==
  \A t, u \in Thread : UsesConnection(t) /\ UsesConnection(u) => t = u

(* A post, once in the table, stays there unchanged: no later insert is    *)
(* given its id, whatever was rolled back or left in doubt before.         *)
PostsAreKept ==
  [][\A i \in Id : posts[i] # NoPost => posts'[i] = posts[i]]_vars

(* The id an insert returns, which the handler puts in its redirect, is    *)
(* the id of exactly that post.                                            *)
AcknowledgedIsStored ==
  \A t \in Thread :
    pc[t] \in {"unlock", "return"} /\ call[t].op = "insert_blog" /\ res[t].id # -1
      => res[t].id \in Id /\ posts[res[t].id] = call[t].post

\* How far a call is for its caller.
Stage(t) == IF pc[t] = "idle" THEN "idle"
            ELSE IF pc[t] \in {"unlock", "return"} THEN "done" ELSE "called"

\* The atomic store this database is to its callers.
Abstract == INSTANCE BlogStore WITH stage <- [t \in Thread |-> Stage(t)]

(* blog_database implements the atomic store of class database.            *)
ImplementsStore == Abstract!Spec

(* Every call returns, on the paths that throw too: no path leaves the     *)
(* mutex locked for the calls behind it.                                   *)
CallsReturn == \A t \in Thread : pc[t] = "lock" ~> pc[t] = "idle" \/ ~up
=============================================================================
