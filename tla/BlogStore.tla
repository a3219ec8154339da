----------------------------- MODULE BlogStore -----------------------------
(***************************************************************************)
(* What class database (database.h) promises the blog handlers: each call  *)
(* takes effect at one instant between its start and its return.  An       *)
(* insert adds one post under an id no other post has and returns that id; *)
(* a call that fails returns -1 (or nothing), and only an insert whose     *)
(* commit went unanswered may have stored the post all the same.           *)
(***************************************************************************)
EXTENDS BlogTypes

VARIABLES posts,   \* id -> the post stored under it, or NoPost
          stage,   \* thread -> idle, called, done
          call,    \* thread -> the operation and its argument
          res      \* thread -> what the operation returns: an id and rows

vars == <<posts, stage, call, res>>

\* The rows a query for the ids in S returns.
Rows(S) == {<<i, posts[i]>> : i \in {j \in S : posts[j] # NoPost}}

Init ==
  /\ posts = [i \in Id |-> NoPost]
  /\ stage = [t \in Thread |-> "idle"]
  /\ call = [t \in Thread |-> NoCall]
  /\ res = [t \in Thread |-> NoResult]

Invoke(t) ==
  /\ stage[t] = "idle"
  /\ stage' = [stage EXCEPT ![t] = "called"]
  /\ \E c \in Call : call' = [call EXCEPT ![t] = c]
  /\ UNCHANGED <<posts, res>>

\* The operation of t takes effect, with result r.
Effect(t, op, r) ==
  /\ stage[t] = "called" /\ call[t].op = op
  /\ stage' = [stage EXCEPT ![t] = "done"]
  /\ res' = [res EXCEPT ![t] = r]
  /\ UNCHANGED call

\* Mutant: the id may be one that is in use.
InsertAnywhere(t) ==
  \E i \in Id, answered \in BOOLEAN :
    /\ posts' = [posts EXCEPT ![i] = call[t].post]
    /\ Effect(t, "insert_blog", [id |-> IF answered THEN i ELSE -1, rows |-> {}])

\* The post is stored under a free id; the caller learns the id, or -1.
Insert(t) ==
  \E i \in Id, answered \in BOOLEAN :
    /\ posts[i] = NoPost
    /\ posts' = [posts EXCEPT ![i] = call[t].post]
    /\ Effect(t, "insert_blog", [id |-> IF answered THEN i ELSE -1, rows |-> {}])

Get(t) ==
  /\ Effect(t, "get_blog", LET found == Rows(Id \cap {call[t].id}) IN
               [id |-> IF found = {} THEN -1 ELSE call[t].id, rows |-> found])
  /\ UNCHANGED posts

GetAll(t) ==
  /\ Effect(t, "get_all_blogs", [id |-> 0, rows |-> Rows(Id)])
  /\ UNCHANGED posts

Fail(t) ==
  /\ \/ Effect(t, "insert_blog", [id |-> -1, rows |-> {}])
     \/ Effect(t, "get_blog", [id |-> -1, rows |-> {}])
     \/ Effect(t, "get_all_blogs", [id |-> 0, rows |-> {}])
  /\ UNCHANGED posts

Return(t) ==
  /\ stage[t] = "done"
  /\ stage' = [stage EXCEPT ![t] = "idle"]
  /\ call' = [call EXCEPT ![t] = NoCall]
  /\ res' = [res EXCEPT ![t] = NoResult]
  /\ UNCHANGED posts

Next == \E t \in Thread :
          Invoke(t) \/ Insert(t) \/ Get(t) \/ GetAll(t) \/ Fail(t) \/ Return(t)

Spec == Init /\ [][Next]_vars
=============================================================================
