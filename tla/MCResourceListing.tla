-------------------------- MODULE MCResourceListing --------------------------
(***************************************************************************)
(* A small instance of ResourceListing for TLC.                            *)
(***************************************************************************)
EXTENDS ResourceListing

MCPiece == STRING

MCDecimal == [n \in 0..MaxNumber |-> ToString(n)]

\* Five of the default category, so that it has three pages: two that only the
\* order of the list tells apart, one of an official group, two ed2k.  Then a
\* disc image on another drive, which is in two categories.
MCResource ==
  {[id |-> <<"r1">>, rank |-> 0, iso |-> FALSE, official |-> FALSE],
   [id |-> <<"r2">>, rank |-> 0, iso |-> FALSE, official |-> FALSE],
   [id |-> <<"r3">>, rank |-> 0, iso |-> FALSE, official |-> TRUE],
   [id |-> <<"r4">>, rank |-> 1, iso |-> FALSE, official |-> FALSE],
   [id |-> <<"r5">>, rank |-> 1, iso |-> FALSE, official |-> TRUE],
   [id |-> <<"r6">>, rank |-> 2, iso |-> TRUE, official |-> TRUE]}

\* A title with every separator in its names.
MCFound ==
  [id |-> 3, media |-> <<"tv">>, title |-> <<"Steins", ";", "Gate", "|", "\n", "0">>,
   original |-> <<"S", ";", "G">>, date |-> <<"2018">>, poster |-> <<"p">>, vote |-> <<"8.1">>,
   overview |-> <<"o", "\r", "|">>]
=============================================================================
