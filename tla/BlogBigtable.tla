---------------------------- MODULE BlogBigtable ----------------------------
(***************************************************************************)
(* blog_bigtable (bigtable/src/blog_bigtable.cc): the other database of    *)
(* the blog, a Bigtable table of posts under row keys that are decimal     *)
(* numerals, read in the order of their characters.  insert_blog chooses   *)
(* the key itself: one more than the key that comes last.  The calls are   *)
(* serialised by the mutex; a read or an Apply of the table may fail.      *)
(***************************************************************************)
EXTENDS Integers, Sequences, FiniteSets

CONSTANTS Thread, NoThread, Post, NoPost,
          MaxKey,    \* bound: the keys the table may hold, of two digits at most
          AskedId,   \* bound: the ids that get_blog is called with
          MaxStray,  \* bound: the keys out of order in the table at the start
          MaxCalls   \* bound: the calls made by all threads

ASSUME BigtableAssumption ==
  /\ NoThread \notin Thread /\ NoPost \notin Post
  /\ MaxKey \in 0..99 /\ AskedId \subseteq -1 .. MaxKey
  /\ MaxStray \in Nat /\ MaxCalls \in Nat

VARIABLES
  posts,    \* row key -> post, or NoPost
  mtx_,     \* the thread that holds the mutex
  pc, call, res,
  postid,   \* thread -> the local of insert_blog
  whole,    \* thread -> its postid is not that of a failed read (history)
  calls     \* how many calls have been made

vars == <<posts, mtx_, pc, call, res, postid, whole, calls>>

Key == -1 .. MaxKey

Call == [op : {"insert_blog"}, post : Post, id : {0}]
          \cup [op : {"get_blog"}, post : {NoPost}, id : AskedId]
          \cup [op : {"get_all_blogs"}, post : {NoPost}, id : {0}]
NoCall == [op |-> "none", post |-> NoPost, id |-> 0]

\* What is returned: a postid and the rows read.
NoResult == [id |-> 0, rows |-> {}]

Stored == {k \in Key : posts[k] # NoPost}

\* std::to_string: the sign comes before every digit, and the end of a
\* numeral before every further digit.
RowKey(n) == IF n < 0 THEN <<-1, 0 - n>>
             ELSE IF n < 10 THEN <<n, -1>>
             ELSE <<n \div 10, n % 10>>

\* The order of Bigtable's rows.
KeyBefore(a, b) ==
  \/ RowKey(a)[1] < RowKey(b)[1]
  \/ RowKey(a)[1] = RowKey(b)[1] /\ RowKey(a)[2] < RowKey(b)[2]

\* The rows that ReadRows yields before it fails, or all rows: what comes
\* first in the order of the keys.
Prefixes == {{}} \cup {{j \in Stored : j = k \/ KeyBefore(j, k)} : k \in Stored}

\* Mutant: the rows are counted instead.
NextIdCounts(S) == Cardinality(S)

\* The loop of insert_blog over the rows read.
NextId(S) == IF S = {} THEN -1
             ELSE 1 + CHOOSE k \in S : \A j \in S \ {k} : KeyBefore(j, k)

Rows(S) == {<<k, posts[k]>> : k \in S}

\* The table outlives the server: it holds what earlier runs have inserted,
\* under the keys of whole reads and a few of failed ones.
Init ==
  /\ \E n \in -2..10, stray \in SUBSET Key, p \in Post :
       /\ Cardinality(stray) <= MaxStray
       /\ posts = [k \in Key |-> IF k <= n \/ k \in stray THEN p ELSE NoPost]
  /\ mtx_ = NoThread
  /\ pc = [t \in Thread |-> "idle"]
  /\ call = [t \in Thread |-> NoCall]
  /\ res = [t \in Thread |-> NoResult]
  /\ postid = [t \in Thread |-> 0]
  /\ whole = [t \in Thread |-> TRUE]
  /\ calls = 0

Step(t, from, to) == pc[t] = from /\ pc' = [pc EXCEPT ![t] = to]

Result(t, id, rows) == res' = [res EXCEPT ![t] = [id |-> id, rows |-> rows]]

Invoke(t) ==
  /\ Step(t, "idle", "lock") /\ calls < MaxCalls
  /\ \E c \in Call : call' = [call EXCEPT ![t] = c]
  /\ calls' = calls + 1
  /\ UNCHANGED <<posts, mtx_, res, postid, whole>>

\* Mutant: the guard is missing.
LockUnguarded(t) ==
  /\ Step(t, "lock", "exec")
  /\ mtx_' = t
  /\ UNCHANGED <<posts, call, res, postid, whole, calls>>

\* std::lock_guard
Lock(t) ==
  /\ Step(t, "lock", "exec")
  /\ mtx_ = NoThread /\ mtx_' = t
  /\ UNCHANGED <<posts, call, res, postid, whole, calls>>

\* insert_blog has read all rows.
ReadLast(t) ==
  /\ call[t].op = "insert_blog" /\ Step(t, "exec", "apply")
  /\ NextId(Stored) \in Key
  /\ postid' = [postid EXCEPT ![t] = NextId(Stored)]
  /\ UNCHANGED <<posts, mtx_, call, res, whole, calls>>

\* The read fails on the way: a StatusOr without a value is dereferenced, and
\* what row_key() is then is undefined.  No numeral: std::stoi throws, and what
\* postid is by then is returned.
ReadLastThrows(t) ==
  /\ call[t].op = "insert_blog" /\ Step(t, "exec", "unlock")
  /\ \E S \in Prefixes : Result(t, NextId(S), {})
  /\ UNCHANGED <<posts, mtx_, call, postid, whole, calls>>

\* A numeral, of the row before or of no row: the loop ends, and the post is
\* written under one more than that.  Of the numbers that may be only those of
\* Key are followed.
ReadLastMisreads(t) ==
  /\ call[t].op = "insert_blog" /\ Step(t, "exec", "apply")
  /\ \E n \in Key : postid' = [postid EXCEPT ![t] = n]
  /\ whole' = [whole EXCEPT ![t] = FALSE]
  /\ UNCHANGED <<posts, mtx_, call, res, calls>>

\* No string at all: the server ends.
ReadLastEnds(t) ==
  /\ call[t].op = "insert_blog" /\ pc[t] = "exec"
  /\ pc' = [u \in Thread |-> "ended"]
  /\ UNCHANGED <<posts, mtx_, call, res, postid, whole, calls>>

\* SetCell on the row: an existing row is overwritten.
Apply(t) ==
  /\ Step(t, "apply", "unlock")
  /\ posts' = [posts EXCEPT ![postid[t]] = call[t].post]
  /\ Result(t, postid[t], {})
  /\ UNCHANGED <<mtx_, call, postid, whole, calls>>

\* The status is not ok: the exception is logged, and the id returned.  The
\* row may have been written all the same.
ApplyFails(t) ==
  /\ Step(t, "apply", "unlock")
  /\ \/ posts' = [posts EXCEPT ![postid[t]] = call[t].post]
     \/ UNCHANGED posts
  /\ Result(t, postid[t], {})
  /\ UNCHANGED <<mtx_, call, postid, whole, calls>>

\* A missing row is only logged: an empty post with the
\* id asked for is returned.
GetBlog(t) ==
  /\ call[t].op = "get_blog" /\ Step(t, "exec", "unlock")
  /\ Result(t, call[t].id, Rows(Stored \cap {call[t].id}))
  /\ UNCHANGED <<posts, mtx_, call, postid, whole, calls>>

GetBlogFails(t) ==
  /\ call[t].op = "get_blog" /\ Step(t, "exec", "unlock")
  /\ Result(t, -1, {})
  /\ UNCHANGED <<posts, mtx_, call, postid, whole, calls>>

\* get_all_blogs returns the rows it has read when the read throws.
GetAllBlogs(t) ==
  /\ call[t].op = "get_all_blogs" /\ Step(t, "exec", "unlock")
  /\ \E S \in Prefixes : Result(t, 0, Rows(S))
  /\ UNCHANGED <<posts, mtx_, call, postid, whole, calls>>

Unlock(t) ==
  /\ Step(t, "unlock", "return")
  /\ mtx_' = NoThread
  /\ UNCHANGED <<posts, call, res, postid, whole, calls>>

Return(t) ==
  /\ Step(t, "return", "idle")
  /\ call' = [call EXCEPT ![t] = NoCall]
  /\ res' = [res EXCEPT ![t] = NoResult]
  /\ postid' = [postid EXCEPT ![t] = 0]
  /\ whole' = [whole EXCEPT ![t] = TRUE]
  /\ UNCHANGED <<posts, mtx_, calls>>

Next ==
  \E t \in Thread :
    \/ Invoke(t) \/ Lock(t) \/ ReadLast(t) \/ ReadLastThrows(t) \/ ReadLastMisreads(t)
    \/ ReadLastEnds(t) \/ Apply(t) \/ ApplyFails(t)
    \/ GetBlog(t) \/ GetBlogFails(t) \/ GetAllBlogs(t) \/ Unlock(t) \/ Return(t)

Spec == Init /\ [][Next]_vars

-----------------------------------------------------------------------------
(* Properties.                                                             *)

\* t is about to write under a key that a failed read has left.
Misled(t) == pc[t] = "apply" /\ ~whole[t]

Contiguous == \E n \in -2..10 : Stored = -1..n

(* Unless an insert was misled by a failed read, the keys in use stay      *)
(* without gaps: a key handed out for a post that was not stored is handed *)
(* out again.  "9" stays the last key by its characters, so that no key    *)
(* after 10 is ever used.                                                  *)
InsertsLeaveNoGap ==
  [][Contiguous /\ (\A t \in Thread : ~Misled(t)) => Contiguous']_vars

(* Whatever keys earlier failures have left, no post is overwritten but    *)
(* the one under key 10 and one whose key a failed read has left an insert *)
(* with.  That under 10 is overwritten whenever 9 comes last, although     *)
(* insert_blog "Finds latest row key" (blog_bigtable.cc).                  *)
OnlyKeyTenIsOverwritten ==
  [][\A k \in Stored \ {10} :
       posts'[k] = posts[k] \/ \E t \in Thread : Misled(t) /\ postid[t] = k]_vars
=============================================================================
