--------------------------- MODULE MCShareReceive ---------------------------
(***************************************************************************)
(* A small instance of ShareReceive for TLC.                               *)
(***************************************************************************)
EXTENDS ShareReceive

CONSTANTS a, b, c, d

\* An empty share, one page, one full page, several pages, more entries than
\* the pages allow, and entries that cannot be read or have no ID at the places
\* where they count.
MCShares ==
  {<< >>, <<a>>, <<a, b>>, <<a, b, c>>, <<a, b, c, d, NoId>>,
   <<NoId, NoId>>, <<a, Broken, b>>, <<NoId, a, b, Broken>>}
=============================================================================
