--------------------------- MODULE ResourceListing ---------------------------
(***************************************************************************)
(* The resources of one title as a user browses them: HDHiveAdapter.Search *)
(* filters, orders and cuts upstream's list into pages (adapters.go), and  *)
(* showResources offers the neighbouring pages and the other categories    *)
(* (handler.go).  The list may change between any two presses; a page is   *)
(* asked for by its number, and the title, the page and the category       *)
(* travel in the buttons, in the strings of NavCodec.                      *)
(*                                                                         *)
(* A resource is reduced to what the filter and the order look at.  The    *)
(* marks of unlocked resources, and the adapter's map of listed ones, are  *)
(* UnlockProtocol's subject.                                               *)
(*                                                                         *)
(* A definition marked "Variant" is a plausible mistake in the definition  *)
(* after it.  Nothing here uses it: put in place of that definition, it    *)
(* must break the property PROJECT.json names.                             *)
(***************************************************************************)
EXTENDS NavCodec, FiniteSets

CONSTANTS
  Resource,   \* what upstream may list
  Found,      \* the TMDB item the user has found
  PageSize,
  MaxLen      \* bound of upstream's list, for checking only

Categories == {"default", "iso", "other"}

\* A resource ID is one line.
ASSUME ListingAssumption ==
  /\ Categories \subseteq Piece
  /\ Resource \subseteq [id : Text, rank : 0..2, iso : BOOLEAN, official : BOOLEAN]
  /\ \A r \in Resource : "\n" \notin ToSet(r.id)
  /\ PageSize \in Nat \ {0}
  /\ MaxLen \in 0..MaxNumber

\* A media type ("movie" or "tv") and a date are written without separators.
ASSUME FoundAssumption ==
  /\ Found \in Item
  /\ ToSet(Found.media) \intersect Separators = {}
  /\ ToSet(Found.date) \intersect Separators = {}

VARIABLES
  all,      \* upstream's list
  screen,   \* what the card shows: "search", "movie", "list" or "resource"
  nav,      \* the item, the page and the category its buttons were made from
  opened,   \* the ID of the resource shown, if one is
  items,    \* the resources of the page shown
  total,    \* the number of pages shown
  fresh     \* history: whether the list is as it was when the page was made

vars == <<all, screen, nav, opened, items, total, fresh>>

-----------------------------------------------------------------------------
(* filterAndSortResources.                                                 *)

\* panTypeRank: 115 is 0, ed2k is 1, every other kind is 2.
InCategory(r, category) ==
  CASE category = "iso" -> r.iso
    [] category = "other" -> r.rank >= 2
    [] category = "default" -> r.rank < 2 /\ ~r.iso

\* The key of the stable sort: by kind, official groups first.
SortKey(r) == 2 * r.rank + (IF r.official THEN 0 ELSE 1)

\* What the filter leaves, as indices of the list.
Kept(list, category) == {i \in DOMAIN list : InCategory(list[i], category)}

\* Variant: resources with the same key change their places.
ComesReversed(list, i, j) ==
  \/ SortKey(list[i]) < SortKey(list[j])
  \/ SortKey(list[i]) = SortKey(list[j]) /\ i >= j

\* Whether the sort leaves i before j, or i is j.
Comes(list, i, j) ==
  \/ SortKey(list[i]) < SortKey(list[j])
  \/ SortKey(list[i]) = SortKey(list[j]) /\ i <= j

\* How many come first, j included.
Place(list, category, j) == Cardinality({i \in Kept(list, category) : Comes(list, i, j)})

FilterAndSort(list, category) ==
  [n \in 1..Cardinality(Kept(list, category)) |->
     list[CHOOSE i \in Kept(list, category) : Place(list, category, i) = n]]

-----------------------------------------------------------------------------
(* Search.                                                                 *)

AtLeast(n, low) == IF n < low THEN low ELSE n

AtMost(n, high) == IF n > high THEN high ELSE n

\* An empty list has one page, too.
TotalPages(filtered) == AtLeast((Len(filtered) + PageSize - 1) \div PageSize, 1)

\* Variant: a page that is too large is not clamped, its start is.
PageUnclamped(list, category, page) ==
  LET filtered == FilterAndSort(list, category)
      start == AtMost((AtLeast(page, 1) - 1) * PageSize, Len(filtered))
  IN  [items |-> SubSeq(filtered, start + 1, AtMost(start + PageSize, Len(filtered))),
       total |-> TotalPages(filtered)]

Page(list, category, page) ==
  LET filtered == FilterAndSort(list, category)
      number == AtMost(AtLeast(page, 1), TotalPages(filtered))
      start == (number - 1) * PageSize
  IN  [items |-> SubSeq(filtered, start + 1, AtMost(start + PageSize, Len(filtered))),
       total |-> TotalPages(filtered)]

-----------------------------------------------------------------------------
(* The handlers.                                                           *)

\* showMovieCard, from a button of the search or of the card itself.
ShowMovieCard ==
  /\ screen = "search"
  /\ screen' = "movie"
  /\ nav' = [nav EXCEPT !.item = DecodeTMDB(EncodeTMDB(@))]
  /\ UNCHANGED <<all, opened, items, total, fresh>>

\* showResources makes the buttons from the page it was asked for.
ShowResources(to) ==
  LET result == Page(all, to.category, to.page) IN
    /\ screen' = "list"
    /\ nav' = to
    /\ items' = result.items
    /\ total' = result.total
    /\ opened' = << >>
    /\ fresh' = TRUE
    /\ UNCHANGED all

\* A button of "movie_resources", which opens the list from its start.
MovieResources ==
  ShowResources([item |-> DecodeTMDB(EncodeTMDB(nav.item)), page |-> 1, category |-> "default"])

\* A button of "resources".
Resources(page, category) ==
  ShowResources(DecodeResourceNav(EncodeResourceNav(nav.item, page, category)))

OpenList == screen = "movie" /\ MovieResources

\* Variant: the first page offers one before it.
PreviousBelow == screen = "list" /\ nav.page >= 1 /\ Resources(nav.page - 1, nav.category)

Previous == screen = "list" /\ nav.page > 1 /\ Resources(nav.page - 1, nav.category)

\* Variant: the last page offers one after it.
NextPageInclusive == screen = "list" /\ nav.page <= total /\ Resources(nav.page + 1, nav.category)

NextPage == screen = "list" /\ nav.page < total /\ Resources(nav.page + 1, nav.category)

Switch(category) == screen = "list" /\ category # nav.category /\ Resources(1, category)

\* The detail or the unlock of a resource keeps the page and the category.
OpenResource ==
  /\ screen = "list"
  /\ \E i \in DOMAIN items :
       LET detail == DecodeDetail(EncodeDetail(nav.item, nav.page, nav.category, items[i].id))
       IN  nav' = detail.nav /\ opened' = detail.id
  /\ screen' = "resource"
  /\ UNCHANGED <<all, items, total, fresh>>

BackToList == screen = "resource" /\ Resources(nav.page, nav.category)

\* The button is called "return to the title", but its token is bound to
\* "movie_resources".
BackToMovie == screen = "list" /\ MovieResources

\* Upstream lists one resource more, or one less.
UpstreamChanges ==
  /\ \/ /\ Len(all) < MaxLen
        /\ \E r \in Resource \ ToSet(all), i \in 1..(Len(all) + 1) : all' = InsertAt(all, i, r)
     \/ \E i \in 1..Len(all) : all' = RemoveAt(all, i)
  /\ fresh' = FALSE
  /\ UNCHANGED <<screen, nav, opened, items, total>>

Init ==
  /\ all \in {s \in UNION {[1..n -> Resource] : n \in 0..MaxLen} : IsInjective(s)}
  /\ screen = "search"
  /\ nav = [item |-> Found, page |-> 1, category |-> "default"]
  /\ opened = << >>
  /\ items = << >>
  /\ total = 1
  /\ fresh = FALSE

Next ==
  \/ ShowMovieCard \/ OpenList \/ Previous \/ NextPage \/ OpenResource \/ BackToList \/ BackToMovie
  \/ \E category \in Categories : Switch(category)
  \/ UpstreamChanges

Spec == Init /\ [][Next]_vars

-----------------------------------------------------------------------------
(* Properties.                                                             *)

\* Every screen is one of a page of at least 1 of an existing category, and holds
\* no more resources than a page (adapters.go Search, handler.go showResources).
TypeOK ==
  /\ all \in Seq(Resource)
  /\ screen \in {"search", "movie", "list", "resource"}
  /\ nav \in [item : Item, page : Nat \ {0}, category : Categories]
  /\ opened \in Text
  /\ items \in Seq(Resource) /\ Len(items) <= PageSize
  /\ total \in Nat \ {0}
  /\ fresh \in BOOLEAN

Position(list, r) == CHOOSE i \in 1..Len(list) : list[i] = r

\* What a stable sort of the resources of the category must be, without saying
\* how it is made: each of them once, no later one before an earlier one unless
\* its key says so.
IsStableOrder(s, list, category) ==
  /\ ToSet(s) = {r \in ToSet(list) : InCategory(r, category)}
  /\ Len(s) = Cardinality(ToSet(s))
  /\ \A i, j \in 1..Len(s) : i < j =>
       \/ SortKey(s[i]) < SortKey(s[j])
       \/ SortKey(s[i]) = SortKey(s[j]) /\ Position(list, s[i]) < Position(list, s[j])

PageItems(list, category, page) == Page(list, category, page).items

LastPage(list, category) == Page(list, category, 1).total

\* The pages of a category, read one after the other.
AllPages(list, category) ==
  LET last == LastPage(list, category) IN
    [n \in 1..((last - 1) * PageSize + Len(PageItems(list, category, last))) |->
       PageItems(list, category, (n - 1) \div PageSize + 1)[((n - 1) % PageSize) + 1]]

\* Every page but the last is full, and together the pages of a category are its
\* resources in stable order, each exactly once; no resource is outside of every
\* category (adapters.go filterAndSortResources and Search, adapters_test.go).
\* Pages depend on the list alone, so it is asked once for each list, before the
\* first press.
PagesAreTheListing ==
  screen = "search" =>
    /\ \A category \in Categories :
         /\ \A page \in 1..(LastPage(all, category) - 1) : Len(PageItems(all, category, page)) = PageSize
         /\ IsStableOrder(AllPages(all, category), all, category)
    /\ \A r \in ToSet(all) : \E category \in Categories : InCategory(r, category)

\* However the list shrank since a button was made, pressing it shows resources
\* as long as the category has any (adapters.go Search clamps the page).
NoEmptyPage ==
  [][all' = all /\ screen' = "list" /\ items' = << >> => FilterAndSort(all, nav'.category) = << >>]_vars

\* What a press shows, while the list stays as it is.  The page a button was made
\* from may be beyond the last one, where it showed what the last one shows.
ShowsNextDoor ==
  LET filtered == FilterAndSort(all, nav.category)
      Rest(page) == SubSeq(filtered, (page - 1) * PageSize + 1, Len(filtered))
      same == nav'.category = nav.category
  IN  /\ screen = "resource" => same /\ nav'.page = nav.page
      /\ same /\ nav'.page = nav.page => items' = items
      /\ same /\ nav'.page > nav.page => IsPrefix(items \o items', Rest(nav.page)) /\ items' # << >>
      /\ same /\ nav'.page = nav.page - 1 =>
           IF nav.page <= total THEN IsPrefix(items' \o items, Rest(nav'.page)) ELSE items' = items
      /\ ~same \/ nav'.page < nav.page - 1 =>
           IsPrefix(items', FilterAndSort(all, nav'.category))

\* While the list stays as it is, "next" and "previous" show the resources right
\* after or right before those shown; behind the last page, which a list that has
\* shrunk leaves the user on, there is no "next", and "previous" shows the last page
\* again.  The way back from a resource shows the page it was opened on, and every
\* other press shows the start of its category (handler.go showResources and
\* showDetail: the page travels in the button, as it was asked for).
PressesAdjoin ==
  [][(screen \in {"list", "resource"} /\ screen' = "list" /\ fresh /\ fresh') => ShowsNextDoor]_vars

\* What travelling leaves of a title: separators may have become blanks.
Worn(title) ==
  /\ Len(title) = Len(Found.title)
  /\ \A k \in DOMAIN title :
       title[k] = Found.title[k] \/ (Found.title[k] \in Separators /\ title[k] = " ")

\* However often the title travels through buttons, the card asks HDHive for the
\* title the user has found, shows its name, but for separators that have become
\* blanks, and opens a resource it has listed (handler.go encodeTMDB to
\* decodeDetail; a title may well contain ";").
TitleSurvives ==
  /\ nav.item.id = Found.id /\ nav.item.media = Found.media /\ nav.item.date = Found.date
  /\ Worn(nav.item.title)
  /\ screen = "resource" => \E i \in DOMAIN items : items[i].id = opened
=============================================================================
