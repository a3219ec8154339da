--------------------------- MODULE MCBlogHandler ---------------------------
(* Instances of BlogHandler for TLC. *)
EXTENDS BlogHandler

PlainValue == {<<"x">>, <<"y">>}
EscapedValue == {<<"x", " ", "+">>, <<"x", "&", "=">>}

\* Every post that the forms with these values can be read as.
MCPost == LET Char == {"x", "y", " ", "&", "=", "+"} IN SeqOf(Char, 3) \X SeqOf(Char, 3)

Symmetry == Permutations(Thread)
=============================================================================
