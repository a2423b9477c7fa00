------------------------------ MODULE NavCodec ------------------------------
(***************************************************************************)
(* What travels in the buttons of a card (handler.go encode... and         *)
(* decode...): a TMDB item, a page, a category and a resource ID, written  *)
(* into one string with separators and read back by the press.             *)
(*                                                                         *)
(* A string is a sequence of pieces; a separator is a piece of its own, as *)
(* is the decimal form of a number.                                        *)
(***************************************************************************)
EXTENDS Naturals, Sequences, SequencesExt

CONSTANTS
  Piece,      \* what strings are made of
  MaxNumber,  \* bound of the numbers that are read back, for checking only
  Decimal     \* Decimal[n]: the piece that is the decimal form of n

Text == Seq(Piece)

\* What divides fields somewhere, the end of a line, and what replaces them.
Separators == {";", "|", "\n", "\r", " "}

ASSUME CodecAssumption ==
  /\ Separators \subseteq Piece
  /\ MaxNumber \in Nat \ {0}
  /\ Decimal \in [0..MaxNumber -> Piece \ Separators]
  /\ IsInjective(Decimal)

\* TMDBItem of Go: a number and seven strings.
Item == [id : 0..MaxNumber, media : Text, title : Text, original : Text, date : Text,
         poster : Text, vote : Text, overview : Text]

NoItem == [id |-> 0, media |-> << >>, title |-> << >>, original |-> << >>, date |-> << >>,
           poster |-> << >>, vote |-> << >>, overview |-> << >>]

Number(n) == <<Decimal[n]>>

\* fmt.Sscan leaves the default when there is no number to read.
Scan(s, default) ==
  IF \E n \in 0..MaxNumber : Number(n) = s THEN CHOOSE n \in 0..MaxNumber : Number(n) = s ELSE default

Blanked(s, old) == ReplaceAll(s, old, " ")

\* One field, and after a separator the others.
Joined(field, sep, others) == field \o <<sep>> \o others

FirstIndex(s, sep) == CHOOSE i \in DOMAIN s : s[i] = sep /\ \A j \in DOMAIN s : s[j] = sep => i <= j

LastIndex(s, sep) == CHOOSE i \in DOMAIN s : s[i] = sep /\ \A j \in DOMAIN s : s[j] = sep => j <= i

\* The first field that strings.Split finds, and what it finds the others in.
\* Without a separator there is one field only.
Before(s, sep) == IF sep \in ToSet(s) THEN SubSeq(s, 1, FirstIndex(s, sep) - 1) ELSE s

After(s, sep) == IF sep \in ToSet(s) THEN SubSeq(s, FirstIndex(s, sep) + 1, Len(s)) ELSE << >>

\* What is around the last separator of s.
BeforeLast(s, sep) == SubSeq(s, 1, LastIndex(s, sep) - 1)

AfterLast(s, sep) == SubSeq(s, LastIndex(s, sep) + 1, Len(s))

CleanField(s) == Blanked(Blanked(Blanked(s, "|"), "\n"), "\r")

EncodeTMDB(i) ==
  Joined(Number(i.id), "|",
  Joined(CleanField(i.media), "|",
  Joined(CleanField(i.title), "|",
  Joined(CleanField(i.original), "|",
  Joined(CleanField(i.date), "|",
  Joined(CleanField(i.poster), "|",
  Joined(i.vote, "|", CleanField(i.overview))))))))

\* A missing field is read as empty, which is what is left after the last one.
DecodeTMDB(v) ==
  LET v2 == After(v, "|")
      v3 == After(v2, "|")
      v4 == After(v3, "|")
      v5 == After(v4, "|")
      v6 == After(v5, "|")
      v7 == After(v6, "|")
      v8 == After(v7, "|")
  IN  [id |-> Scan(Before(v, "|"), 0), media |-> Before(v2, "|"), title |-> Before(v3, "|"),
       original |-> Before(v4, "|"), date |-> Before(v5, "|"), poster |-> Before(v6, "|"),
       vote |-> Before(v7, "|"), overview |-> Before(v8, "|")]

\* Variant: the separator is left in the title.
EncodeResourcePageRaw(i, page) ==
  Joined(Number(i.id), ";", Joined(i.media, ";", Joined(i.title, ";", Joined(i.date, ";", Number(page)))))

\* The other fields of the item stay behind.
EncodeResourcePage(i, page) ==
  Joined(Number(i.id), ";",
  Joined(i.media, ";",
  Joined(Blanked(i.title, ";"), ";",
  Joined(i.date, ";", Number(page)))))

\* Nothing is read unless there are five fields.
DecodeResourcePage(v) ==
  LET v2 == After(v, ";")
      v3 == After(v2, ";")
      v4 == After(v3, ";")
      v5 == After(v4, ";")
  IN  IF ";" \in ToSet(v4)
        THEN [item |-> [NoItem EXCEPT !.id = Scan(Before(v, ";"), 0), !.media = Before(v2, ";"),
                                      !.title = Before(v3, ";"), !.date = Before(v4, ";")],
              page |-> Scan(Before(v5, ";"), 1)]
        ELSE [item |-> NoItem, page |-> 1]

EncodeResourceNav(i, page, category) == Joined(EncodeResourcePage(i, page), "\n", <<category>>)

DecodeResourceNav(v) ==
  LET p == DecodeResourcePage(BeforeLast(v, "\n")) IN
    IF "\n" \in ToSet(v) THEN [item |-> p.item, page |-> p.page, category |-> AfterLast(v, "\n")[1]]
    ELSE [item |-> NoItem, page |-> 1, category |-> "default"]

EncodeDetail(i, page, category, id) == Joined(EncodeResourceNav(i, page, category), "\n", id)

DecodeDetail(v) ==
  IF "\n" \in ToSet(v) THEN [nav |-> DecodeResourceNav(BeforeLast(v, "\n")), id |-> AfterLast(v, "\n")]
  ELSE [nav |-> [item |-> NoItem, page |-> 1, category |-> "default"], id |-> v]
=============================================================================
