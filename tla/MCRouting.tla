----------------------------- MODULE MCRouting -----------------------------
(* Instances of Routing for TLC. *)
EXTENDS Routing

MCChar == {"/", "s", "a", "b", " ", "%20", "status", "#", "http"}

MCLocation == {<<"/">>, <<"/", "s">>, <<"/", "s", "/", "a">>, <<"/", "s", " ">>,
               <<"/", "status">>}

MCURI == {<<"/">>, <<"/", "s">>, <<"/", "s", "/", "a">>, <<"/", "s", "/", "a", "/", "s">>,
          <<"/", "s", "a">>, <<"/", "s", "%20">>, <<"/", "s", "%20", "/", "a">>,
          <<"/", "status">>}

MCServerPath == {<<>>, <<"/">>, <<"/", "b", "/">>}

MCLink == {<<>>, <<"a">>, <<"/", "a">>, <<"/", "a", "/", "s">>, <<"a", " ", "s">>,
           <<"#", "a">>, <<"/", "/", "a">>, <<"http", "a">>}
=============================================================================
