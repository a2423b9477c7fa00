--------------------------- MODULE MCSearchPages ---------------------------
(***************************************************************************)
(* A small instance of SearchPages for TLC.                                *)
(***************************************************************************)
EXTENDS SearchPages

MCPiece == STRING

MCDecimal == [n \in 0..MaxNumber |-> ToString(n)]

MCTitle ==
  {[NoItem EXCEPT !.id = n, !.media = <<"movie">>, !.title = <<ToString(n)>>] : n \in 1..2}

\* A keyword with the separator of the buttons in it.
MCQuery == {<<"Mission">>, <<"Mission", ":", "Impossible">>}

\* Nothing, one page, three pages, and a page of persons alone between titles.
MCAnswers ==
  LET hits == <<CHOOSE t \in MCTitle : t.id = 1, Person, CHOOSE t \in MCTitle : t.id = 2>> IN
    {<< >>, <<hits>>, <<hits, hits, hits>>, <<hits, <<Person>>, hits>>}
=============================================================================
