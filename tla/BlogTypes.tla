----------------------------- MODULE BlogTypes -----------------------------
(***************************************************************************)
(* The calls of class database (database.h) and what they return, shared   *)
(* by the specification of the store and its implementations.  A post is a *)
(* title and a body; a Blog with postid -1 is the sentinel for "no post".  *)
(***************************************************************************)
EXTENDS Integers

CONSTANTS Thread, Post, NoPost,
          MaxId       \* bound: the ids that are handed out

ASSUME BlogAssumption == NoPost \notin Post /\ MaxId \in Nat

Id == 1..MaxId

Call == [op : {"insert_blog"}, post : Post, id : {0}]
          \cup [op : {"get_blog"}, post : {NoPost}, id : Id \cup {-1}]
          \cup [op : {"get_all_blogs"}, post : {NoPost}, id : {0}]
NoCall == [op |-> "none", post |-> NoPost, id |-> 0]

\* The postid that was returned, and the posts, as rows of id and post.
Result == [id : Id \cup {-1, 0}, rows : SUBSET (Id \X Post)]
NoResult == [id |-> 0, rows |-> {}]
=============================================================================
