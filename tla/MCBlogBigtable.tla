--------------------------- MODULE MCBlogBigtable ---------------------------
(* Instances of BlogBigtable for TLC. *)
EXTENDS BlogBigtable, TLC

\* Nothing tells the threads, or the posts, from one another.
Symmetry == Permutations(Thread) \cup Permutations(Post)
=============================================================================
