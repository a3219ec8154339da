------------------------- MODULE BlogDatabaseProofs -------------------------
(***************************************************************************)
(* Proofs about BlogDatabase, for any number of threads, posts, ids and    *)
(* calls: the safety properties, and that it implements BlogStore.         *)
(***************************************************************************)
EXTENDS BlogDatabase, TLAPS

-----------------------------------------------------------------------------
(* The inductive invariant.                                                *)

\* Whoever uses the connection holds the mutex.
HoldsMutex == \A t \in Thread : UsesConnection(t) => mtx_ = t

\* A thread that is in a call has one.
InCall == \A t \in Thread : pc[t] # "idle" => call[t] \in Call

\* The row of an open transaction has an id the table does not have yet.
TxnIsNew ==
  \A t \in Thread : pc[t] = "commit" =>
    /\ call[t].op = "insert_blog"
    /\ txn[t] \in Id /\ txn[t] < seq /\ posts[txn[t]] = NoPost

\* The ids from the sequence's next value on are free.
NotYetUsed == \A i \in Id : i >= seq => posts[i] = NoPost

Inv == TypeOK /\ HoldsMutex /\ InCall /\ TxnIsNew /\ NotYetUsed /\ AcknowledgedIsStored

\* The post of an insert is a post.
LEMMA InsertsPost ==
  ASSUME NEW c \in Call, c.op = "insert_blog"
  PROVE  c.post \in Post
BY DEF Call

\* Results that the actions return are results.
LEMMA FailIsResult == \A op : FailResult(op) \in Result
BY DEF FailResult, Result

\* What a query returns are rows of the table.
LEMMA RowsAreRows ==
  ASSUME TypeOK, NEW S, S \subseteq Id
  PROVE  Rows(S) \subseteq Id \X Post
BY DEF TypeOK, Rows

\* The invariant holds at the start.
LEMMA InitInv == Init => Inv
<1> SUFFICES ASSUME Init PROVE Inv
  OBVIOUS
<1>1. TypeOK
  BY BlogAssumption, DatabaseAssumption
     DEF Init, TypeOK, Call, NoCall, Result, NoResult, Id
<1> QED
  BY <1>1 DEF Init, Inv, HoldsMutex, InCall, TxnIsNew, NotYetUsed, AcknowledgedIsStored,
              UsesConnection

\* A call is made, gets the mutex, gives it back, returns, or the process dies.
LEMMA OutsideInv ==
  ASSUME Inv, NEW t \in Thread,
         Invoke(t) \/ Lock(t) \/ NoConnection(t) \/ Unlock(t) \/ Return(t)
  PROVE  Inv'
<1>1. CASE Invoke(t)
  <2> PICK c \in Call : call' = [call EXCEPT ![t] = c]
    BY <1>1 DEF Invoke
  <2>1. TypeOK'
    BY <1>1, DatabaseAssumption DEF Inv, Invoke, Step, TypeOK
  <2>2. InCall'
    BY <1>1 DEF Inv, Invoke, Step, TypeOK, InCall
  <2>3. HoldsMutex' /\ NotYetUsed'
    BY <1>1 DEF Inv, Invoke, Step, TypeOK, HoldsMutex, NotYetUsed, UsesConnection
  <2>4. TxnIsNew' /\ AcknowledgedIsStored'
    BY <1>1 DEF Inv, Invoke, Step, TypeOK, TxnIsNew, AcknowledgedIsStored
  <2> QED
    BY <2>1, <2>2, <2>3, <2>4 DEF Inv
<1>2. CASE Lock(t)
  <2>1. TypeOK'
    BY <1>2 DEF Inv, Lock, Step, TypeOK
  <2>2. HoldsMutex'
    BY <1>2, DatabaseAssumption DEF Inv, Lock, Step, TypeOK, HoldsMutex, UsesConnection
  <2> QED
    BY <1>2, <2>1, <2>2 DEF Inv, Lock, Step, TypeOK, InCall, TxnIsNew, NotYetUsed,
                 AcknowledgedIsStored
<1>3. CASE NoConnection(t)
  BY <1>3 DEF Inv, NoConnection, TypeOK, HoldsMutex, InCall, TxnIsNew, NotYetUsed,
              AcknowledgedIsStored, UsesConnection
<1>4. CASE Unlock(t)
  <2>1. TypeOK'
    BY <1>4 DEF Inv, Unlock, Step, TypeOK
  <2>2. HoldsMutex'
    BY <1>4 DEF Inv, Unlock, Step, TypeOK, HoldsMutex, UsesConnection
  <2> QED
    BY <1>4, <2>1, <2>2 DEF Inv, Unlock, Step, TypeOK, InCall, TxnIsNew, NotYetUsed,
                 AcknowledgedIsStored
<1>5. CASE Return(t)
  <2>1. TypeOK'
    BY <1>5 DEF Inv, Return, Step, TypeOK, NoResult, Result
  <2> QED
    BY <1>5, <2>1 DEF Inv, Return, Step, TypeOK, HoldsMutex, InCall, TxnIsNew, NotYetUsed,
                 AcknowledgedIsStored, UsesConnection
<1> QED
  BY <1>1, <1>2, <1>3, <1>4, <1>5

\* A query that does not write, or an exception.
LEMMA QueryInv ==
  ASSUME Inv, NEW t \in Thread,
         Throw(t) \/ ExecGet(t) \/ ExecGetAll(t)
  PROVE  Inv'
<1>1. CASE Throw(t)
  <2>1. TypeOK'
    BY <1>1, FailIsResult DEF Inv, Throw, Step, TypeOK
  <2>2. AcknowledgedIsStored'
    BY <1>1 DEF Inv, Throw, Step, TypeOK, AcknowledgedIsStored, FailResult
  <2> QED
    BY <1>1, <2>1, <2>2 DEF Inv, Throw, Step, TypeOK, HoldsMutex, InCall, TxnIsNew,
                 NotYetUsed, UsesConnection
<1>2. CASE ExecGet(t)
  <2> DEFINE found == Rows(Id \cap {call[t].id})
  <2>1. found \subseteq Id \X Post
    BY RowsAreRows DEF Inv
  <2>2. found # {} => call[t].id \in Id
    BY DEF Rows
  <2>3. TypeOK'
    BY <1>2, <2>1, <2>2, FailIsResult DEF Inv, ExecGet, Step, TypeOK, Result
  <2> QED
    BY <1>2, <2>3 DEF Inv, ExecGet, Step, TypeOK, HoldsMutex, InCall, TxnIsNew,
                 NotYetUsed, UsesConnection, AcknowledgedIsStored
<1>3. CASE ExecGetAll(t)
  <2>1. Rows(Id) \subseteq Id \X Post
    BY RowsAreRows DEF Inv
  <2>2. TypeOK'
    BY <1>3, <2>1 DEF Inv, ExecGetAll, Step, TypeOK, Result
  <2> QED
    BY <1>3, <2>2 DEF Inv, ExecGetAll, Step, TypeOK, HoldsMutex, InCall, TxnIsNew,
                 NotYetUsed, UsesConnection, AcknowledgedIsStored
<1> QED
  BY <1>1, <1>2, <1>3

\* The insert takes the next id.
LEMMA ExecInsertInv ==
  ASSUME Inv, NEW t \in Thread, ExecInsert(t)
  PROVE  Inv'
<1>1. seq \in Id
  BY BlogAssumption DEF Inv, TypeOK, ExecInsert, Id
<1>2. TypeOK'
  BY <1>1, BlogAssumption DEF Inv, ExecInsert, Step, TypeOK, Id
<1>3. TxnIsNew'
  BY <1>1 DEF Inv, ExecInsert, Step, TypeOK, TxnIsNew, NotYetUsed, Id
<1>4. NotYetUsed'
  BY DEF Inv, ExecInsert, Step, TypeOK, NotYetUsed, Id
<1> QED
  BY <1>2, <1>3, <1>4 DEF Inv, ExecInsert, Step, TypeOK, HoldsMutex, InCall,
              UsesConnection, AcknowledgedIsStored

\* The commit is carried out, and answered or not.
LEMMA CommitInv ==
  ASSUME Inv, NEW t \in Thread, Commit(t) \/ CommitInDoubt(t)
  PROVE  Inv'
<1>1. /\ pc[t] = "commit" /\ call[t] \in Call /\ call[t].op = "insert_blog"
      /\ txn[t] \in Id /\ txn[t] < seq /\ posts[txn[t]] = NoPost
  BY DEF Inv, InCall, TxnIsNew, Commit, CommitInDoubt, Step
<1>2. call[t].post \in Post
  BY <1>1, InsertsPost
<1>3. posts' = [posts EXCEPT ![txn[t]] = call[t].post]
  BY DEF Commit, CommitInDoubt, Store
<1>4. TypeOK'
  <2>1. posts' \in [Id -> Post \cup {NoPost}]
    BY <1>1, <1>2, <1>3 DEF Inv, TypeOK
  <2>2. res' \in [Thread -> Result]
    <3>1. [id |-> txn[t], rows |-> {}] \in Result
      BY <1>1 DEF Result
    <3> QED
      BY <3>1, FailIsResult DEF Inv, Commit, CommitInDoubt, TypeOK
  <2> QED
    BY <2>1, <2>2 DEF Inv, Commit, CommitInDoubt, Step, TypeOK
<1>5. \A u \in Thread : pc'[u] = "commit" => FALSE
  BY <1>1, DatabaseAssumption
     DEF Inv, Commit, CommitInDoubt, Step, TypeOK, HoldsMutex, UsesConnection
<1>6. NotYetUsed'
  BY <1>1, <1>3 DEF Inv, Commit, CommitInDoubt, TypeOK, NotYetUsed, Id
<1>7. AcknowledgedIsStored'
  <2> SUFFICES ASSUME NEW u \in Thread, pc'[u] \in {"unlock", "return"},
                      call'[u].op = "insert_blog", res'[u].id # -1
               PROVE  res'[u].id \in Id /\ posts'[res'[u].id] = call'[u].post
    BY DEF AcknowledgedIsStored
  <2>1. CASE u = t
    BY <2>1, <1>1, <1>3 DEF Inv, Commit, CommitInDoubt, Step, TypeOK, FailResult
  <2>2. CASE u # t
    <3>1. pc[u] \in {"unlock", "return"} /\ call'[u] = call[u] /\ res'[u] = res[u]
      BY <2>2 DEF Inv, Commit, CommitInDoubt, Step, TypeOK
    <3>2. res[u].id \in Id /\ posts[res[u].id] = call[u].post
      BY <3>1 DEF Inv, AcknowledgedIsStored
    <3>3. call[u].post \in Post
      BY <3>1, InsertsPost DEF Inv, InCall
    <3>4. res[u].id # txn[t]
      BY <3>2, <3>3, <1>1, BlogAssumption
    <3> QED
      BY <3>1, <3>2, <3>4, <1>1, <1>3 DEF Inv, TypeOK
  <2> QED
    BY <2>1, <2>2
<1>8. HoldsMutex' /\ InCall'
  BY <1>1 DEF Inv, Commit, CommitInDoubt, Step, TypeOK, HoldsMutex, InCall, UsesConnection
<1> QED
  BY <1>4, <1>5, <1>6, <1>7, <1>8 DEF Inv, TxnIsNew

\* Every step keeps the invariant.
LEMMA NextInv == Inv /\ [Next]_vars => Inv'
<1> SUFFICES ASSUME Inv, [Next]_vars PROVE Inv'
  OBVIOUS
<1>1. CASE UNCHANGED vars
  BY <1>1 DEF vars, Inv, TypeOK, HoldsMutex, InCall, TxnIsNew, NotYetUsed,
              AcknowledgedIsStored, UsesConnection
<1>2. CASE Next
  <2> PICK t \in Thread : Invoke(t) \/ Progress(t)
    BY <1>2 DEF Next
  <2> QED
    BY OutsideInv, QueryInv, ExecInsertInv, CommitInv DEF Progress
<1> QED
  BY <1>1, <1>2

(* Every reachable state of blog_database satisfies the invariant.         *)
THEOREM DatabaseInvariant == Spec => []Inv
<1> QED
  BY InitInv, NextInv, PTL DEF Spec

(* The connection of blog_database is used by one thread at a time.        *)
THEOREM OneThreadUsesTheConnection == Spec => []OneUser
<1>1. Inv => OneUser
  BY DEF Inv, HoldsMutex, OneUser
<1> QED
  BY <1>1, DatabaseInvariant, PTL

(* The id that insert_blog returns is the id of the post it stored.        *)
THEOREM ReturnedIdIsThePosts == Spec => []AcknowledgedIsStored
<1>1. Inv => AcknowledgedIsStored
  BY DEF Inv
<1> QED
  BY <1>1, DatabaseInvariant, PTL

(* No call of blog_database changes a post that is in the table.           *)
THEOREM StoredPostsAreKept == Spec => PostsAreKept
<1> DEFINE Kept == \A i \in Id : posts[i] # NoPost => posts'[i] = posts[i]
<1>1. Inv /\ [Next]_vars => [Kept]_vars
  <2> SUFFICES ASSUME Inv, Next PROVE Kept
    BY DEF vars
  <2> PICK t \in Thread : Invoke(t) \/ Progress(t)
    BY DEF Next
  <2>1. CASE Commit(t) \/ CommitInDoubt(t)
    <3>1. posts[txn[t]] = NoPost
      BY <2>1 DEF Inv, TxnIsNew, Commit, CommitInDoubt, Step
    <3> QED
      BY <2>1, <3>1 DEF Commit, CommitInDoubt, Store, Inv, TypeOK
  <2>2. CASE ~(Commit(t) \/ CommitInDoubt(t))
    BY <2>2 DEF Progress, Invoke, Lock, NoConnection, Throw, ExecInsert, ExecGet,
                ExecGetAll, Unlock, Return
  <2> QED
    BY <2>1, <2>2
<1> QED
  BY <1>1, DatabaseInvariant, PTL DEF Spec, PostsAreKept

-----------------------------------------------------------------------------
(* blog_database implements the atomic store.                              *)

\* The two specifications have the same calls, results and rows.
LEMMA SameTypes ==
  /\ Abstract!Id = Id /\ Abstract!Call = Call
  /\ Abstract!NoCall = NoCall /\ Abstract!NoResult = NoResult
BY DEF Id, Abstract!Id, Call, Abstract!Call, NoCall, Abstract!NoCall, NoResult,
       Abstract!NoResult

\* A query sees the same rows in both.
LEMMA SameRows == ASSUME NEW S PROVE Abstract!Rows(S) = Rows(S)
BY DEF Rows, Abstract!Rows

\* The empty table is the empty store, and nobody is in a call.
LEMMA RefinesInit == Init => Abstract!Init
BY SameTypes DEF Init, Abstract!Init, Stage

\* How a step of t moves the stage of its call.
LEMMA StageMoves ==
  ASSUME TypeOK, NEW t \in Thread, NEW from, NEW to, Step(t, from, to)
  PROVE  /\ Stage(t) = IF from = "idle" THEN "idle"
                       ELSE IF from \in {"unlock", "return"} THEN "done" ELSE "called"
         /\ [u \in Thread |-> Stage(u)]' =
              [[u \in Thread |-> Stage(u)] EXCEPT
                 ![t] = IF to = "idle" THEN "idle"
                        ELSE IF to \in {"unlock", "return"} THEN "done" ELSE "called"]
BY DEF Step, Stage, TypeOK

\* Steps that the caller does not see.
LEMMA Stutters ==
  ASSUME Inv, NEW t \in Thread,
         Lock(t) \/ NoConnection(t) \/ ExecInsert(t) \/ Unlock(t)
  PROVE  UNCHANGED Abstract!vars
<1>1. UNCHANGED <<posts, call, res>>
  BY DEF Lock, NoConnection, ExecInsert, Unlock
<1>2. \A u \in Thread : Stage(u)' = Stage(u)
  BY DEF Lock, NoConnection, ExecInsert, Unlock, Step, Stage, Inv, TypeOK
<1> QED
  BY <1>1, <1>2 DEF Abstract!vars

\* A result is reached where the store's operation takes effect.
LEMMA Effects ==
  ASSUME Inv, NEW t \in Thread, pc[t] \in {"exec", "commit"}, Step(t, pc[t], "unlock")
  PROVE  /\ Stage(t) = "called"
         /\ [u \in Thread |-> Stage(u)]' = [[u \in Thread |-> Stage(u)] EXCEPT ![t] = "done"]
<1>1. TypeOK
  BY DEF Inv
<1> QED
  BY <1>1, StageMoves

\* Every step of the database is a step of the store, or none.
LEMMA RefinesNext == Inv /\ [Next]_vars => [Abstract!Next]_(Abstract!vars)
<1> SUFFICES ASSUME Inv, [Next]_vars PROVE [Abstract!Next]_(Abstract!vars)
  OBVIOUS
<1>1. CASE UNCHANGED vars
  BY <1>1 DEF vars, Abstract!vars, Stage
<1>2. CASE Next
  <2> PICK t \in Thread : Invoke(t) \/ Progress(t)
    BY <1>2 DEF Next
  <2>t. TypeOK
    BY DEF Inv
  <2>1. CASE Invoke(t)
    <3>1. /\ Stage(t) = "idle"
          /\ [u \in Thread |-> Stage(u)]' = [[u \in Thread |-> Stage(u)] EXCEPT ![t] = "called"]
      BY <2>1, <2>t, StageMoves DEF Invoke
    <3>2. Abstract!Invoke(t)
      BY <2>1, <3>1, SameTypes DEF Invoke, Abstract!Invoke
    <3> QED
      BY <3>2 DEF Abstract!Next
  <2>2. CASE Lock(t) \/ NoConnection(t) \/ ExecInsert(t) \/ Unlock(t)
    BY <2>2, Stutters
  <2>3. CASE Throw(t)
    <3>1. call[t].op \in {"insert_blog", "get_blog", "get_all_blogs"}
      BY <2>3 DEF Inv, InCall, Throw, Step, Call
    <3>2. Abstract!Effect(t, call[t].op, FailResult(call[t].op))
      <4>1. Step(t, pc[t], "unlock") /\ pc[t] \in {"exec", "commit"}
        BY <2>3 DEF Throw
      <4>2. res' = [res EXCEPT ![t] = FailResult(call[t].op)] /\ UNCHANGED call
        BY <2>3 DEF Throw
      <4> QED
        BY <4>1, <4>2, Effects DEF Abstract!Effect
    <3>3. Abstract!Fail(t)
      BY <2>3, <3>1, <3>2 DEF Throw, Abstract!Fail, FailResult
    <3> QED
      BY <3>3 DEF Abstract!Next
  <2>4. CASE Commit(t) \/ CommitInDoubt(t)
    <3>1. /\ call[t].op = "insert_blog" /\ txn[t] \in Id /\ posts[txn[t]] = NoPost
          /\ pc[t] = "commit"
      BY <2>4 DEF Inv, TxnIsNew, Commit, CommitInDoubt, Step
    <3>2. posts' = [posts EXCEPT ![txn[t]] = call[t].post]
      BY <2>4 DEF Commit, CommitInDoubt, Store
    <3>3. \E answered \in BOOLEAN :
            res' = [res EXCEPT ![t] = [id |-> IF answered THEN txn[t] ELSE -1, rows |-> {}]]
      BY <2>4, <3>1 DEF Commit, CommitInDoubt, FailResult
    <3>4. PICK answered \in BOOLEAN :
            res' = [res EXCEPT ![t] = [id |-> IF answered THEN txn[t] ELSE -1, rows |-> {}]]
      BY <3>3
    <3>5. Abstract!Effect(t, "insert_blog", [id |-> IF answered THEN txn[t] ELSE -1, rows |-> {}])
      <4>1. Step(t, pc[t], "unlock") /\ UNCHANGED call
        BY <2>4, <3>1 DEF Commit, CommitInDoubt
      <4> QED
        BY <4>1, <3>1, <3>4, Effects DEF Abstract!Effect
    <3>6. Abstract!Insert(t)
      BY <3>1, <3>2, <3>5, SameTypes DEF Abstract!Insert
    <3> QED
      BY <3>6 DEF Abstract!Next
  <2>5. CASE ExecGet(t)
    <3> DEFINE found == Rows(Id \cap {call[t].id})
               r == [id |-> IF found = {} THEN -1 ELSE call[t].id, rows |-> found]
    <3>1. res' = [res EXCEPT ![t] = r]
      BY <2>5 DEF ExecGet, FailResult
    <3>2. Abstract!Effect(t, "get_blog", r)
      <4>1. /\ Step(t, pc[t], "unlock") /\ pc[t] = "exec" /\ call[t].op = "get_blog"
            /\ UNCHANGED call
        BY <2>5 DEF ExecGet, Step
      <4> HIDE DEF r
      <4> QED
        BY <4>1, <3>1, Effects DEF Abstract!Effect
    <3>3. Abstract!Get(t)
      BY <2>5, <3>2, SameTypes, SameRows DEF ExecGet, Abstract!Get
    <3> QED
      BY <3>3 DEF Abstract!Next
  <2>6. CASE ExecGetAll(t)
    <3>1. Abstract!Effect(t, "get_all_blogs", [id |-> 0, rows |-> Rows(Id)])
      <4>1. /\ Step(t, pc[t], "unlock") /\ pc[t] = "exec" /\ call[t].op = "get_all_blogs"
            /\ UNCHANGED call /\ res' = [res EXCEPT ![t] = [id |-> 0, rows |-> Rows(Id)]]
        BY <2>6 DEF ExecGetAll, Step
      <4> QED
        BY <4>1, Effects DEF Abstract!Effect
    <3>2. Abstract!GetAll(t)
      BY <2>6, <3>1, SameTypes, SameRows DEF ExecGetAll, Abstract!GetAll
    <3> QED
      BY <3>2 DEF Abstract!Next
  <2>7. CASE Return(t)
    <3>1. /\ Stage(t) = "done"
          /\ [u \in Thread |-> Stage(u)]' = [[u \in Thread |-> Stage(u)] EXCEPT ![t] = "idle"]
      BY <2>7, <2>t, StageMoves DEF Return
    <3>2. Abstract!Return(t)
      BY <2>7, <3>1, SameTypes DEF Return, Abstract!Return
    <3> QED
      BY <3>2 DEF Abstract!Next
  <2> QED
    BY <2>1, <2>2, <2>3, <2>4, <2>5, <2>6, <2>7 DEF Progress
<1> QED
  BY <1>1, <1>2

(* To its callers blog_database is the atomic store of class database:     *)
(* with the mutex, one connection and commits that go unanswered, every    *)
(* call still takes effect at one instant, or fails.                       *)
THEOREM DatabaseIsAtomicStore == Spec => ImplementsStore
<1> QED
  BY RefinesInit, RefinesNext, DatabaseInvariant, PTL
     DEF Spec, ImplementsStore, Abstract!Spec
=============================================================================
