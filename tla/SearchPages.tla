---------------------------- MODULE SearchPages ----------------------------
(***************************************************************************)
(* The search for a title and the pages of its results (handler.go search, *)
(* view_builders.go BuildSearchResultsView, tmdb/client.go Search): which  *)
(* buttons the card has, what each of them does, and what a press of one   *)
(* asks TMDB for.                                                          *)
(*                                                                         *)
(* The handler runs as one step; what becomes of the card when two of them *)
(* overlap, or when Telegram fails, is CardRenderer's subject.             *)
(***************************************************************************)
EXTENDS NavCodec

CONSTANTS
  Title,     \* films and series, as records of NavCodec
  Person,    \* what else TMDB finds
  Query,     \* the texts users send
  Answers    \* TMDB's answers: sequences of pages of titles and persons

VARIABLES
  found,     \* TMDB's answer, as of now
  buttons    \* the buttons of the card, row by row

vars == <<found, buttons>>

\* does = "" is a button whose callback data is empty.
Button(does, value) == [does |-> does, value |-> value]

-----------------------------------------------------------------------------
\* The films and series of a page; beyond the last page there is nothing.
Titles(n) == IF n \in DOMAIN found THEN SelectSeq(found[n], LAMBDA hit : hit \in Title) ELSE << >>

\* The value "page:query" of a button, split at the first separator.
EncodeSearchPage(page, query) == Joined(Number(page), ":", query)

DecodeSearchPage(value) ==
  IF ":" \in ToSet(value)
    THEN [page |-> Scan(Before(value, ":"), 1), query |-> After(value, ":")]
    ELSE [page |-> 1, query |-> value]

\* BuildSearchResultsView leaves the neighbours of the page without an action.
NavRow(page) ==
  (IF page > 1 THEN <<Button("", << >>)>> ELSE << >>)
    \o <<Button("noop", << >>)>>
    \o (IF page < Len(found) THEN <<Button("", << >>)>> ELSE << >>)

\* search gives them theirs: the first of the row, and the third.
BoundNavRow(page, query) ==
  LET row == NavRow(page) IN
    [i \in DOMAIN row |->
       CASE i = 1 /\ page > 1 -> Button("search_page", EncodeSearchPage(page - 1, query))
         [] i = 3 /\ page < Len(found) -> Button("search_page", EncodeSearchPage(page + 1, query))
         [] OTHER -> row[i]]

\* The card of a page without films and series has no neighbours.
SearchCard(query, page) ==
  LET titles == Titles(IF page < 1 THEN 1 ELSE page) IN
    IF titles = << >> THEN <<Button("back_search", << >>), Button("close", << >>)>>
    ELSE [i \in DOMAIN titles |-> Button("tmdb", EncodeTMDB(titles[i]))]
           \o BoundNavRow(page, query) \o <<Button("close", << >>)>>

\* TMDB answers, or it does not.
Search(query, page) ==
  buttons' \in {SearchCard(query, page), <<Button("back_search", << >>)>>}

-----------------------------------------------------------------------------
\* The user sends a keyword.
Type(query) ==
  /\ Search(query, 1)
  /\ UNCHANGED found

\* A button of "search_page".
Press ==
  /\ \E i \in DOMAIN buttons :
       /\ buttons[i].does = "search_page"
       /\ LET to == DecodeSearchPage(buttons[i].value) IN Search(to.query, to.page)
  /\ UNCHANGED found

TMDBChanges ==
  /\ found' \in Answers
  /\ UNCHANGED buttons

Init ==
  /\ found \in Answers
  /\ buttons = << >>

Next == (\E query \in Query : Type(query)) \/ Press \/ TMDBChanges

Spec == Init /\ [][Next]_vars

-----------------------------------------------------------------------------
(* Properties.                                                             *)

\* Every button of a results card does something: it leads to a title, to the
\* page before or after, or says where one is (view_types.go:39 and
\* TELEGRAM_NATIVE_UX_SPEC.md:159, no dummies that cannot be pressed).
EveryButtonActs == \A i \in DOMAIN buttons : buttons[i].does # ""
=============================================================================
