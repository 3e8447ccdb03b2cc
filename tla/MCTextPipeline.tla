---------------------------- MODULE MCTextPipeline ----------------------------
(* TextPipeline and ListSnapshot for TLC: scripts are short sequences of   *)
(* fragments, three of one kind or two of any.                             *)
EXTENDS ListSnapshot

Plain   == {<<"a">>}
Broken  == {<<"L", "C", "C">>, <<"L", "C">>, <<"X">>}
Marked  == {<<"R", "P", "K", "0", "7", "U">>, <<"R", "P">>, <<"R", "P", "K", "a", "U">>}
Modal   == {<<"E", "[", "?", "7", "l">>, <<"E", "[", "?", "0", ";", "7", "h">>,
            <<"E", "[", "?", "7", "7", "l">>, <<"E", "[", "?">>, <<"7", "h">>}
Titles  == {<<"E", "]", "a", "B">>, <<"E", "]", "a", "E", "S">>, <<"E", "a">>}
Triples(F) == {f \o g \o h : f, g, h \in F}
Pairs(F) == {f \o g : f, g \in F}

SomeScripts ==
  Triples(Plain \cup Broken) \cup Triples(Plain \cup Marked) \cup Triples(Plain \cup Modal)
    \cup Pairs(Broken \cup Marked \cup Modal)
    \cup Triples(Plain \cup Titles)
=============================================================================
