----------------------- MODULE ResourceListingProofs -----------------------
(***************************************************************************)
(* Theorems about ResourceListing and the strings of NavCodec, for any     *)
(* resources, any list of them, any title and any page size.               *)
(***************************************************************************)
EXTENDS ResourceListing, FiniteSetTheorems, SequenceTheorems, WellFoundedInduction, TLAPS

-----------------------------------------------------------------------------
(* Strings of pieces.                                                      *)

\* A field, a separator and what follows are put together in this order.
LEMMA JoinedIs ==
  ASSUME NEW S, NEW x \in Seq(S), NEW y \in Seq(S), NEW sep \in S
  PROVE  /\ Joined(x, sep, y) \in Seq(S)
         /\ Len(Joined(x, sep, y)) = Len(x) + 1 + Len(y)
         /\ \A i \in 1..Len(x) : Joined(x, sep, y)[i] = x[i]
         /\ Joined(x, sep, y)[Len(x) + 1] = sep
         /\ \A i \in 1..Len(y) : Joined(x, sep, y)[Len(x) + 1 + i] = y[i]
<1>1. <<sep>> \in Seq(S)
  OBVIOUS
<1>2. Len(<<sep>>) = 1 /\ <<sep>>[1] = sep
  OBVIOUS
<1>3. /\ x \o <<sep>> \in Seq(S)
      /\ \A i \in 1..Len(x) : (x \o <<sep>>)[i] = x[i]
  BY <1>1
<1>4. Len(x \o <<sep>>) = Len(x) + 1 /\ (x \o <<sep>>)[Len(x) + 1] = sep
  BY <1>1, <1>2
<1> DEFINE l == x \o <<sep>>
<1>5. Joined(x, sep, y) = l \o y
  BY DEF Joined
<1>6. /\ l \in Seq(S) /\ Len(l) = Len(x) + 1 /\ l[Len(x) + 1] = sep
      /\ \A i \in 1..Len(x) : l[i] = x[i]
  BY <1>3, <1>4
<1> HIDE DEF l
<1>7. l \o y \in Seq(S) /\ Len(l \o y) = Len(l) + Len(y)
  BY <1>6
<1>8. \A i \in 1..Len(l) : (l \o y)[i] = l[i]
  BY <1>6
<1>9. \A i \in 1..Len(y) : (l \o y)[Len(l) + i] = y[i]
  BY <1>6
<1>10. Len(x) \in Nat /\ Len(l) \in Nat /\ Len(y) \in Nat
  BY <1>6
<1> QED
  BY <1>5, <1>6, <1>7, <1>8, <1>9, <1>10

\* Two texts are equal when they are as long and their pieces are equal.
LEMMA TextsEqual ==
  ASSUME NEW S, NEW x \in Seq(S), NEW y \in Seq(S), Len(x) = Len(y), \A i \in 1..Len(x) : x[i] = y[i]
  PROVE  x = y
  BY SeqEqual

\* The pieces of a text.
LEMMA PiecesAre ==
  ASSUME NEW S, NEW x \in Seq(S)
  PROVE  /\ DOMAIN x = 1..Len(x) /\ Len(x) \in Nat
         /\ \A i \in 1..Len(x) : x[i] \in S /\ x[i] \in ToSet(x)
         /\ \A e \in ToSet(x) : \E i \in 1..Len(x) : x[i] = e
  BY DEF ToSet

\* A part of a sequence.
LEMMA PartIs ==
  ASSUME NEW S, NEW s \in Seq(S), NEW a \in Nat, NEW b \in Nat, a <= b, b <= Len(s)
  PROVE  /\ SubSeq(s, a + 1, b) \in Seq(S)
         /\ Len(SubSeq(s, a + 1, b)) = b - a
         /\ \A i \in 1..(b - a) : SubSeq(s, a + 1, b)[i] = s[a + i]
<1>1. \A i \in 1..Len(s) : s[i] \in S
  BY PiecesAre
<1>2. Len(s) \in Nat
  OBVIOUS
<1>3. \A i \in (a + 1)..b : s[i] \in S
  BY <1>1, <1>2
<1>4. SubSeq(s, a + 1, b) \in Seq(S)
  BY <1>3, SubSeqProperties
<1>5. Len(SubSeq(s, a + 1, b)) = IF a + 1 <= b THEN b - (a + 1) + 1 ELSE 0
  BY SubSeqProperties
<1>6. \A i \in 1..((b - (a + 1)) + 1) : SubSeq(s, a + 1, b)[i] = s[(a + 1) + i - 1]
  BY SubSeqProperties
<1> QED
  BY <1>4, <1>5, <1>6

\* What is left and right of one piece of a sequence.
LEMMA Around ==
  ASSUME NEW S, NEW x \in Seq(S), NEW y \in Seq(S), NEW sep \in S
  PROVE  /\ SubSeq(Joined(x, sep, y), 1, Len(x)) = x
         /\ SubSeq(Joined(x, sep, y), Len(x) + 2, Len(Joined(x, sep, y))) = y
<1> DEFINE v == Joined(x, sep, y)
<1>1. /\ v \in Seq(S) /\ Len(v) = Len(x) + 1 + Len(y)
      /\ \A i \in 1..Len(x) : v[i] = x[i]
  BY JoinedIs
<1>2. \A i \in 1..Len(y) : v[Len(x) + 1 + i] = y[i]
  BY JoinedIs
<1>3. Len(x) \in Nat /\ Len(y) \in Nat
  BY PiecesAre
<1> HIDE DEF v
<1>4. \A i \in 1..Len(v) : v[i] \in S
  BY <1>1, PiecesAre
<1>5. SubSeq(v, 1, Len(x)) = x
  <2>1. \A i \in 1..Len(x) : v[i] \in S
    BY <1>1, <1>3, <1>4
  <2>2. /\ SubSeq(v, 1, Len(x)) \in Seq(S)
        /\ Len(SubSeq(v, 1, Len(x))) = Len(x)
        /\ \A i \in 1..Len(x) : SubSeq(v, 1, Len(x))[i] = v[i]
    BY <1>1, <1>3, <2>1
  <2> QED
    BY <1>1, <2>2, TextsEqual
<1>6. SubSeq(v, Len(x) + 2, Len(v)) = y
  <2>1. \A i \in (Len(x) + 2)..Len(v) : v[i] \in S
    BY <1>1, <1>3, <1>4
  <2>2. /\ SubSeq(v, Len(x) + 2, Len(v)) \in Seq(S)
        /\ Len(SubSeq(v, Len(x) + 2, Len(v))) = Len(y)
        /\ \A i \in 1..Len(y) : SubSeq(v, Len(x) + 2, Len(v))[i] = v[Len(x) + 1 + i]
    BY <1>1, <1>2, <1>3, <2>1
  <2> QED
    BY <1>2, <1>3, <2>2, TextsEqual
<1> QED
  BY <1>5, <1>6 DEF v

\* A field without the separator is read back, and so is what follows it.
LEMMA FieldIsRead ==
  ASSUME NEW S, NEW x \in Seq(S), NEW y \in Seq(S), NEW sep \in S, sep \notin ToSet(x)
  PROVE  /\ sep \in ToSet(Joined(x, sep, y))
         /\ Before(Joined(x, sep, y), sep) = x
         /\ After(Joined(x, sep, y), sep) = y
<1> DEFINE v == Joined(x, sep, y)
<1>1. /\ v \in Seq(S) /\ Len(v) = Len(x) + 1 + Len(y)
      /\ \A i \in 1..Len(x) : v[i] = x[i]
      /\ v[Len(x) + 1] = sep
  BY JoinedIs
<1>2. Len(x) \in Nat /\ Len(y) \in Nat /\ \A i \in 1..Len(x) : x[i] # sep
  BY PiecesAre
<1>3. SubSeq(v, 1, Len(x)) = x /\ SubSeq(v, Len(x) + 2, Len(v)) = y
  BY Around
<1> HIDE DEF v
<1>4. DOMAIN v = 1..Len(v) /\ Len(x) + 1 \in DOMAIN v
  BY <1>1, <1>2, PiecesAre
<1>5. sep \in ToSet(v)
  BY <1>1, <1>4 DEF ToSet
<1>6. FirstIndex(v, sep) = Len(x) + 1
  <2>1. ASSUME NEW i \in DOMAIN v, v[i] = sep
        PROVE  Len(x) + 1 <= i
    <3>1. i \in Nat /\ 1 <= i /\ ~(i \in 1..Len(x))
      BY <1>1, <1>2, <1>4, <2>1
    <3> QED
      BY <1>2, <3>1
  <2>2. ASSUME NEW i \in DOMAIN v, v[i] = sep, \A j \in DOMAIN v : v[j] = sep => i <= j
        PROVE  i = Len(x) + 1
    <3>1. i <= Len(x) + 1 /\ Len(x) + 1 <= i /\ i \in Nat
      BY <1>1, <1>4, <2>1, <2>2
    <3> QED
      BY <1>2, <3>1
  <2> QED
    BY <1>1, <1>4, <2>1, <2>2 DEF FirstIndex
<1>7. (Len(x) + 1) - 1 = Len(x) /\ (Len(x) + 1) + 1 = Len(x) + 2
  BY <1>2
<1>8. Before(v, sep) = x
  BY <1>3, <1>5, <1>6, <1>7 DEF Before
<1>9. After(v, sep) = y
  BY <1>3, <1>5, <1>6, <1>7 DEF After
<1> QED
  BY <1>5, <1>8, <1>9 DEF v

\* What follows the last separator is read back, and so is what comes before it.
LEMMA LastIsRead ==
  ASSUME NEW S, NEW x \in Seq(S), NEW y \in Seq(S), NEW sep \in S, sep \notin ToSet(y)
  PROVE  /\ sep \in ToSet(Joined(x, sep, y))
         /\ BeforeLast(Joined(x, sep, y), sep) = x
         /\ AfterLast(Joined(x, sep, y), sep) = y
<1> DEFINE v == Joined(x, sep, y)
<1>1. /\ v \in Seq(S) /\ Len(v) = Len(x) + 1 + Len(y)
      /\ \A i \in 1..Len(y) : v[Len(x) + 1 + i] = y[i]
      /\ v[Len(x) + 1] = sep
  BY JoinedIs
<1>2. Len(x) \in Nat /\ Len(y) \in Nat /\ \A i \in 1..Len(y) : y[i] # sep
  BY PiecesAre
<1>3. SubSeq(v, 1, Len(x)) = x /\ SubSeq(v, Len(x) + 2, Len(v)) = y
  BY Around
<1> HIDE DEF v
<1>4. DOMAIN v = 1..Len(v) /\ Len(x) + 1 \in DOMAIN v
  BY <1>1, <1>2, PiecesAre
<1>5. sep \in ToSet(v)
  BY <1>1, <1>4 DEF ToSet
<1>6. LastIndex(v, sep) = Len(x) + 1
  <2>1. ASSUME NEW i \in DOMAIN v, v[i] = sep
        PROVE  i <= Len(x) + 1
    <3>1. CASE Len(x) + 1 < i
      <4>1. i - (Len(x) + 1) \in 1..Len(y) /\ Len(x) + 1 + (i - (Len(x) + 1)) = i
        BY <1>1, <1>2, <1>4, <3>1
      <4>2. v[i] = y[i - (Len(x) + 1)]
        BY <1>1, <4>1
      <4> QED
        BY <1>2, <2>1, <4>1, <4>2
    <3> QED
      BY <1>2, <1>4, <3>1
  <2>2. ASSUME NEW i \in DOMAIN v, v[i] = sep, \A j \in DOMAIN v : v[j] = sep => j <= i
        PROVE  i = Len(x) + 1
    <3>1. i <= Len(x) + 1 /\ Len(x) + 1 <= i /\ i \in Nat
      BY <1>1, <1>4, <2>1, <2>2
    <3> QED
      BY <1>2, <3>1
  <2> QED
    BY <1>1, <1>4, <2>1, <2>2 DEF LastIndex
<1>7. (Len(x) + 1) - 1 = Len(x) /\ (Len(x) + 1) + 1 = Len(x) + 2
  BY <1>2
<1>8. BeforeLast(v, sep) = x /\ AfterLast(v, sep) = y
  BY <1>3, <1>6, <1>7 DEF BeforeLast, AfterLast
<1> QED
  BY <1>5, <1>8 DEF v

\* A set of natural numbers that is not empty has a least element.
LEMMA NatLeast ==
  ASSUME NEW T, T \subseteq Nat, T # {}
  PROVE  \E i \in T : \A j \in T : i <= j
<1>1. IsWellFoundedOn(OpToRel(<, Nat), Nat)
  BY NatLessThanWellFounded
<1>2. PICK i \in T : \A j \in T : ~(<<j, i>> \in OpToRel(<, Nat))
  BY <1>1, WFMin
<1>3. \A j \in T : ~(j < i)
  BY <1>2 DEF OpToRel
<1>4. \A j \in T : i <= j
  BY <1>3
<1> QED
  BY <1>4

\* There are n numbers up to n.
LEMMA CountIs ==
  ASSUME NEW n \in Nat
  PROVE  IsFiniteSet(1..n) /\ Cardinality(1..n) = n
<1>1. n \in Int /\ 1 \in Int
  OBVIOUS
<1>2. IsFiniteSet(1..n) /\ Cardinality(1..n) = IF 1 > n THEN 0 ELSE n - 1 + 1
  BY <1>1, FS_Interval
<1> QED
  BY <1>2

\* The separators are pieces.
LEMMA SeparatorsArePieces == Separators \subseteq Piece
  BY CodecAssumption

\* A piece in place of another leaves the others where they are.
LEMMA BlankedIs ==
  ASSUME NEW x \in Text, NEW old
  PROVE  /\ Blanked(x, old) \in Text /\ Len(Blanked(x, old)) = Len(x)
         /\ \A i \in 1..Len(x) : Blanked(x, old)[i] = (IF x[i] = old THEN " " ELSE x[i])
         /\ old # " " => old \notin ToSet(Blanked(x, old))
         /\ \A e : e \notin ToSet(x) /\ e # " " => e \notin ToSet(Blanked(x, old))
<1> DEFINE b == Blanked(x, old)
<1>1. b = [i \in 1..Len(x) |-> IF x[i] = old THEN " " ELSE x[i]]
  BY DEF Blanked, ReplaceAll
<1>2. Len(x) \in Nat /\ \A i \in 1..Len(x) : x[i] \in Piece /\ x[i] \in ToSet(x)
  BY PiecesAre DEF Text
<1>3. \A i \in 1..Len(x) : (IF x[i] = old THEN " " ELSE x[i]) \in Piece
  BY <1>2, SeparatorsArePieces DEF Separators
<1> HIDE DEF b
<1>4. b \in Seq(Piece) /\ Len(b) = Len(x) /\ DOMAIN b = 1..Len(x)
  <2>1. b \in [1..Len(x) -> Piece]
    BY <1>1, <1>3
  <2>2. DOMAIN b = 1..Len(x)
    BY <1>1
  <2>3. b \in Seq(Piece)
    BY <1>2, <2>1, SeqDef
  <2> QED
    BY <1>2, <2>2, <2>3
<1>5. \A i \in 1..Len(x) : b[i] = (IF x[i] = old THEN " " ELSE x[i])
  BY <1>1
<1>6. ASSUME NEW e \in ToSet(b)
      PROVE  e = " " \/ (e \in ToSet(x) /\ e # old)
  <2>1. PICK i \in 1..Len(x) : b[i] = e
    BY <1>4, <1>6 DEF ToSet
  <2> QED
    BY <1>2, <1>5, <2>1
<1> QED
  BY <1>4, <1>5, <1>6 DEF b, Text

\* A cleaned field has no separator of fields or lines.
LEMMA CleanFieldIs ==
  ASSUME NEW x \in Text
  PROVE  /\ CleanField(x) \in Text
         /\ "|" \notin ToSet(CleanField(x))
         /\ ToSet(x) \intersect Separators = {} => CleanField(x) = x
<1> DEFINE y == Blanked(x, "|")
           z == Blanked(y, "\n")
           w == Blanked(z, "\r")
<1>1. y \in Text /\ "|" \notin ToSet(y)
  BY BlankedIs
<1>2. z \in Text /\ "|" \notin ToSet(z)
  BY <1>1, BlankedIs
<1>3. w \in Text /\ "|" \notin ToSet(w)
  BY <1>2, BlankedIs
<1>4. ASSUME ToSet(x) \intersect Separators = {}
      PROVE  w = x
  <2>1. \A i \in 1..Len(x) : x[i] # "|" /\ x[i] # "\n" /\ x[i] # "\r"
    BY <1>4, PiecesAre DEF Separators, Text
  <2>2. ASSUME NEW t \in Text, NEW old, \A i \in 1..Len(t) : t[i] # old
        PROVE  Blanked(t, old) = t
    <3>1. /\ Blanked(t, old) \in Text /\ Len(Blanked(t, old)) = Len(t)
          /\ \A i \in 1..Len(t) : Blanked(t, old)[i] = (IF t[i] = old THEN " " ELSE t[i])
      BY BlankedIs
    <3>2. \A i \in 1..Len(t) : Blanked(t, old)[i] = t[i]
      BY <2>2, <3>1
    <3> QED
      BY <3>1, <3>2, TextsEqual DEF Text
  <2> QED
    BY <1>1, <1>2, <2>1, <2>2
<1> QED
  BY <1>3, <1>4 DEF CleanField

\* A number is one piece, no separator, and is read back.
LEMMA NumberIs ==
  ASSUME NEW n \in 0..MaxNumber, NEW default
  PROVE  /\ Number(n) \in Text
         /\ \A sep \in Separators : sep \notin ToSet(Number(n))
         /\ Scan(Number(n), default) = n
<1>1. Decimal[n] \in Piece /\ Decimal[n] \notin Separators
  BY CodecAssumption
<1>2. \A S : Decimal[n] \in S => <<Decimal[n]>> \in Seq(S)
  OBVIOUS
<1>3. Number(n) \in Text
  BY <1>1, <1>2 DEF Number, Text
<1>4. \A e \in ToSet(<<Decimal[n]>>) : e = Decimal[n]
  BY DEF ToSet
<1>5. \A m \in 0..MaxNumber : Number(m) = Number(n) => m = n
  <2>1. ASSUME NEW m \in 0..MaxNumber, <<Decimal[m]>> = <<Decimal[n]>>
        PROVE  m = n
    <3>1. Decimal[m] = Decimal[n]
      BY <2>1
    <3> QED
      BY <3>1, CodecAssumption DEF IsInjective
  <2> QED
    BY <2>1 DEF Number
<1>6. Scan(Number(n), default) = n
  BY <1>5 DEF Scan
<1> QED
  BY <1>1, <1>3, <1>4, <1>6 DEF Number

-----------------------------------------------------------------------------
(* What is encoded for a button is decoded by its press.                   *)

\* The texts of an item, as they are joined.
LEMMA ItemFields ==
  ASSUME NEW i \in Item
  PROVE  /\ i.id \in 0..MaxNumber /\ i.media \in Text /\ i.title \in Text /\ i.original \in Text
         /\ i.date \in Text /\ i.poster \in Text /\ i.vote \in Text /\ i.overview \in Text
  BY DEF Item

\* A text is joined with another by a separator.
LEMMA JoinedText ==
  ASSUME NEW x \in Text, NEW y \in Text, NEW sep \in Separators
  PROVE  Joined(x, sep, y) \in Text
<1>1. sep \in Piece
  BY SeparatorsArePieces
<1> QED
  BY <1>1, JoinedIs DEF Text

\* The lemmas on fields, for texts.
LEMMA TextFieldIsRead ==
  ASSUME NEW x \in Text, NEW y \in Text, NEW sep \in Separators, sep \notin ToSet(x)
  PROVE  /\ sep \in ToSet(Joined(x, sep, y))
         /\ Before(Joined(x, sep, y), sep) = x
         /\ After(Joined(x, sep, y), sep) = y
<1>1. sep \in Piece
  BY SeparatorsArePieces
<1> QED
  BY <1>1, FieldIsRead DEF Text

LEMMA TextLastIsRead ==
  ASSUME NEW x \in Text, NEW y \in Text, NEW sep \in Separators, sep \notin ToSet(y)
  PROVE  /\ sep \in ToSet(Joined(x, sep, y))
         /\ BeforeLast(Joined(x, sep, y), sep) = x
         /\ AfterLast(Joined(x, sep, y), sep) = y
<1>1. sep \in Piece
  BY SeparatorsArePieces
<1> QED
  BY <1>1, LastIsRead DEF Text

\* Whatever a text is split at, the parts are texts.
LEMMA PartsAreTexts ==
  ASSUME NEW v \in Text, NEW sep
  PROVE  Before(v, sep) \in Text /\ After(v, sep) \in Text
<1>1. v \in Seq(Piece) /\ Len(v) \in Nat /\ DOMAIN v = 1..Len(v)
      /\ \A i \in 1..Len(v) : v[i] \in Piece
  BY PiecesAre DEF Text
<1>2. CASE sep \in ToSet(v)
  <2>1. \E i \in DOMAIN v : v[i] = sep
    BY <1>2 DEF ToSet
  <2>2. \E i \in DOMAIN v : v[i] = sep /\ \A j \in DOMAIN v : v[j] = sep => i <= j
    <3> DEFINE T == {i \in DOMAIN v : v[i] = sep}
    <3>1. T \subseteq Nat /\ T # {}
      BY <1>1, <2>1
    <3>2. PICK i \in T : \A j \in T : i <= j
      BY <3>1, NatLeast
    <3> QED
      BY <3>2
  <2>3. FirstIndex(v, sep) \in 1..Len(v)
    BY <1>1, <2>2 DEF FirstIndex
  <2> DEFINE f == FirstIndex(v, sep)
  <2>4. f \in Nat /\ f - 1 \in Nat /\ f - 1 <= Len(v) /\ f + 1 \in Nat
    BY <1>1, <2>3
  <2> HIDE DEF f
  <2>5. /\ \A i \in 1..(f - 1) : v[i] \in Piece
        /\ \A i \in (f + 1)..Len(v) : v[i] \in Piece
    BY <1>1, <2>4
  <2>6. SubSeq(v, 1, f - 1) \in Seq(Piece) /\ SubSeq(v, f + 1, Len(v)) \in Seq(Piece)
    BY <1>1, <2>4, <2>5, SubSeqProperties
  <2> QED
    BY <1>2, <2>6 DEF Before, After, Text, f
<1>3. CASE sep \notin ToSet(v)
  BY <1>3 DEF Before, After, Text
<1> QED
  BY <1>2, <1>3

\* The fields of a TMDB item that the handlers go on with come back clean.
LEMMA TMDBIsRead ==
  ASSUME NEW i \in Item
  PROVE  /\ DecodeTMDB(EncodeTMDB(i)) \in Item
         /\ DecodeTMDB(EncodeTMDB(i)).id = i.id
         /\ DecodeTMDB(EncodeTMDB(i)).media = CleanField(i.media)
         /\ DecodeTMDB(EncodeTMDB(i)).title = CleanField(i.title)
         /\ DecodeTMDB(EncodeTMDB(i)).date = CleanField(i.date)
<1> DEFINE w7 == Joined(i.vote, "|", CleanField(i.overview))
           w6 == Joined(CleanField(i.poster), "|", w7)
           w5 == Joined(CleanField(i.date), "|", w6)
           w4 == Joined(CleanField(i.original), "|", w5)
           w3 == Joined(CleanField(i.title), "|", w4)
           w2 == Joined(CleanField(i.media), "|", w3)
           w1 == Joined(Number(i.id), "|", w2)
<1>1. EncodeTMDB(i) = w1 /\ "|" \in Separators
  BY DEF EncodeTMDB, Separators
<1>2. /\ i.id \in 0..MaxNumber /\ i.media \in Text /\ i.title \in Text /\ i.original \in Text
      /\ i.date \in Text /\ i.poster \in Text /\ i.vote \in Text /\ i.overview \in Text
  BY ItemFields
<1>3. ASSUME NEW t \in Text, NEW w \in Text
      PROVE  /\ CleanField(t) \in Text /\ Joined(CleanField(t), "|", w) \in Text
             /\ Before(Joined(CleanField(t), "|", w), "|") = CleanField(t)
             /\ After(Joined(CleanField(t), "|", w), "|") = w
  <2>1. CleanField(t) \in Text /\ "|" \notin ToSet(CleanField(t))
    BY CleanFieldIs
  <2> QED
    BY <1>1, <2>1, JoinedText, TextFieldIsRead
<1>4. w7 \in Text
  BY <1>1, <1>2, <1>3, JoinedText
<1> HIDE DEF w7
<1>5. w6 \in Text /\ Before(w6, "|") = CleanField(i.poster) /\ After(w6, "|") = w7
  BY <1>2, <1>3, <1>4
<1> HIDE DEF w6
<1>6. w5 \in Text /\ Before(w5, "|") = CleanField(i.date) /\ After(w5, "|") = w6
  BY <1>2, <1>3, <1>5
<1> HIDE DEF w5
<1>7. w4 \in Text /\ Before(w4, "|") = CleanField(i.original) /\ After(w4, "|") = w5
  BY <1>2, <1>3, <1>6
<1> HIDE DEF w4
<1>8. w3 \in Text /\ Before(w3, "|") = CleanField(i.title) /\ After(w3, "|") = w4
  BY <1>2, <1>3, <1>7
<1> HIDE DEF w3
<1>9. w2 \in Text /\ Before(w2, "|") = CleanField(i.media) /\ After(w2, "|") = w3
  BY <1>2, <1>3, <1>8
<1> HIDE DEF w2
<1>10. Number(i.id) \in Text /\ "|" \notin ToSet(Number(i.id)) /\ Scan(Number(i.id), 0) = i.id
  BY <1>1, <1>2, NumberIs
<1>11. Before(w1, "|") = Number(i.id) /\ After(w1, "|") = w2
  BY <1>1, <1>9, <1>10, TextFieldIsRead
<1> HIDE DEF w1
<1> DEFINE v8 == After(w7, "|")
<1>12. Before(w7, "|") \in Text /\ Before(v8, "|") \in Text
  BY <1>4, PartsAreTexts
<1>13. DecodeTMDB(w1) =
         [id |-> i.id, media |-> CleanField(i.media), title |-> CleanField(i.title),
          original |-> CleanField(i.original), date |-> CleanField(i.date),
          poster |-> CleanField(i.poster), vote |-> Before(w7, "|"), overview |-> Before(v8, "|")]
  BY <1>5, <1>6, <1>7, <1>8, <1>9, <1>10, <1>11 DEF DecodeTMDB
<1> HIDE DEF v8
<1> QED
  BY <1>1, <1>2, <1>3, <1>12, <1>13 DEF Item

\* What a button of the list keeps of an item.
Carried(i) ==
  [NoItem EXCEPT !.id = i.id, !.media = i.media, !.title = Blanked(i.title, ";"), !.date = i.date]

LEMMA CarriedIs ==
  ASSUME NEW i \in Item
  PROVE  /\ Carried(i) \in Item
         /\ Carried(i).id = i.id /\ Carried(i).media = i.media /\ Carried(i).date = i.date
         /\ Carried(i).title = Blanked(i.title, ";")
<1>1. << >> \in Text
  BY DEF Text
<1>2. /\ i.id \in 0..MaxNumber /\ i.media \in Text /\ i.date \in Text
      /\ Blanked(i.title, ";") \in Text
  BY ItemFields, BlankedIs
<1> QED
  BY <1>1, <1>2 DEF Carried, NoItem, Item

\* The media type and the date of an item are written without a semicolon.
Plain(i) == ";" \notin ToSet(i.media) /\ ";" \notin ToSet(i.date)

\* The item and the page of a button come back.
LEMMA PageIsRead ==
  ASSUME NEW i \in Item, Plain(i), NEW page \in 0..MaxNumber
  PROVE  /\ EncodeResourcePage(i, page) \in Text
         /\ DecodeResourcePage(EncodeResourcePage(i, page)) = [item |-> Carried(i), page |-> page]
<1> DEFINE title == Blanked(i.title, ";")
           w5 == Number(page)
           w4 == Joined(i.date, ";", w5)
           w3 == Joined(title, ";", w4)
           w2 == Joined(i.media, ";", w3)
           w1 == Joined(Number(i.id), ";", w2)
<1>1. EncodeResourcePage(i, page) = w1 /\ ";" \in Separators
  BY DEF EncodeResourcePage, Separators
<1>2. /\ i.id \in 0..MaxNumber /\ i.media \in Text /\ i.date \in Text /\ title \in Text
      /\ ";" \notin ToSet(title)
  BY ItemFields, BlankedIs
<1>3. /\ w5 \in Text /\ ";" \notin ToSet(w5) /\ Scan(w5, 1) = page
      /\ Number(i.id) \in Text /\ ";" \notin ToSet(Number(i.id)) /\ Scan(Number(i.id), 0) = i.id
  BY <1>1, <1>2, NumberIs
<1>4. ASSUME NEW t \in Text, NEW w \in Text, ";" \notin ToSet(t)
      PROVE  /\ Joined(t, ";", w) \in Text /\ ";" \in ToSet(Joined(t, ";", w))
             /\ Before(Joined(t, ";", w), ";") = t /\ After(Joined(t, ";", w), ";") = w
  BY <1>1, <1>4, JoinedText, TextFieldIsRead
<1>5. Carried(i) =
        [NoItem EXCEPT !.id = i.id, !.media = i.media, !.title = title, !.date = i.date]
  BY DEF Carried
<1> HIDE DEF w5, title
<1>6. /\ w4 \in Text /\ ";" \in ToSet(w4) /\ Before(w4, ";") = i.date /\ After(w4, ";") = w5
  BY <1>2, <1>3, <1>4 DEF Plain
<1> HIDE DEF w4
<1>7. w3 \in Text /\ Before(w3, ";") = title /\ After(w3, ";") = w4
  BY <1>2, <1>4, <1>6
<1> HIDE DEF w3
<1>8. w2 \in Text /\ Before(w2, ";") = i.media /\ After(w2, ";") = w3
  BY <1>2, <1>4, <1>7 DEF Plain
<1> HIDE DEF w2
<1>9. w1 \in Text /\ Before(w1, ";") = Number(i.id) /\ After(w1, ";") = w2
  BY <1>3, <1>4, <1>8
<1> HIDE DEF w1
<1>10. Before(w5, ";") = w5
  BY <1>3 DEF Before
<1>11. DecodeResourcePage(w1) = [item |-> Carried(i), page |-> page]
  BY <1>3, <1>5, <1>6, <1>7, <1>8, <1>9, <1>10 DEF DecodeResourcePage
<1> QED
  BY <1>1, <1>9, <1>11

\* So does the category, which is one piece.
LEMMA NavIsRead ==
  ASSUME NEW i \in Item, Plain(i), NEW page \in 0..MaxNumber, NEW c \in Categories
  PROVE  /\ EncodeResourceNav(i, page, c) \in Text
         /\ DecodeResourceNav(EncodeResourceNav(i, page, c)) =
              [item |-> Carried(i), page |-> page, category |-> c]
<1> DEFINE p == EncodeResourcePage(i, page)
           w == Joined(p, "\n", <<c>>)
<1>1. p \in Text /\ DecodeResourcePage(p) = [item |-> Carried(i), page |-> page]
  BY PageIsRead
<1> HIDE DEF p
<1>2. c \in Piece /\ c # "\n" /\ "\n" \in Separators
  BY ListingAssumption DEF Categories, Separators
<1>3. \A S : c \in S => <<c>> \in Seq(S)
  OBVIOUS
<1>4. <<c>> \in Text /\ "\n" \notin ToSet(<<c>>) /\ <<c>>[1] = c
  BY <1>2, <1>3 DEF Text, ToSet
<1>5. /\ w \in Text /\ "\n" \in ToSet(w) /\ BeforeLast(w, "\n") = p
      /\ AfterLast(w, "\n") = <<c>>
  BY <1>1, <1>2, <1>4, JoinedText, TextLastIsRead
<1>6. EncodeResourceNav(i, page, c) = w
  BY DEF EncodeResourceNav, p
<1> HIDE DEF w
<1>7. DecodeResourceNav(w) = [item |-> Carried(i), page |-> page, category |-> c]
  BY <1>1, <1>4, <1>5 DEF DecodeResourceNav
<1> QED
  BY <1>5, <1>6, <1>7

\* And so does the ID of a resource, which is one line.
THEOREM DetailIsRead ==
  ASSUME NEW i \in Item, Plain(i), NEW page \in 0..MaxNumber, NEW c \in Categories,
         NEW id \in Text, "\n" \notin ToSet(id)
  PROVE  DecodeDetail(EncodeDetail(i, page, c, id)) =
           [nav |-> [item |-> Carried(i), page |-> page, category |-> c], id |-> id]
<1> DEFINE n == EncodeResourceNav(i, page, c)
           w == Joined(n, "\n", id)
<1>1. /\ n \in Text
      /\ DecodeResourceNav(n) = [item |-> Carried(i), page |-> page, category |-> c]
  BY NavIsRead
<1> HIDE DEF n
<1>2. "\n" \in Separators
  BY DEF Separators
<1>3. "\n" \in ToSet(w) /\ BeforeLast(w, "\n") = n /\ AfterLast(w, "\n") = id
  BY <1>1, <1>2, TextLastIsRead
<1>4. EncodeDetail(i, page, c, id) = w
  BY DEF EncodeDetail, n
<1> HIDE DEF w
<1> QED
  BY <1>1, <1>3, <1>4 DEF DecodeDetail

-----------------------------------------------------------------------------
(* The filter and the stable sort.                                         *)

\* The keys of the sort are numbers, and Comes is a total order on the indices.
LEMMA ComesIs ==
  ASSUME NEW list \in Seq(Resource)
  PROVE  /\ \A i \in 1..Len(list) : SortKey(list[i]) \in Nat
         /\ \A i \in 1..Len(list) : Comes(list, i, i)
         /\ \A i, j \in 1..Len(list) : i # j => (Comes(list, i, j) <=> ~Comes(list, j, i))
         /\ \A i, j, k \in 1..Len(list) :
              Comes(list, i, j) /\ Comes(list, j, k) => Comes(list, i, k)
<1>1. ASSUME NEW r \in Resource
      PROVE  SortKey(r) \in Nat
  <2>1. r.rank \in 0..2
    BY ListingAssumption
  <2>2. r.official \/ ~r.official
    OBVIOUS
  <2> QED
    BY <2>1, <2>2 DEF SortKey
<1>2. \A i \in 1..Len(list) : SortKey(list[i]) \in Nat
  BY <1>1
<1>3. 1..Len(list) \subseteq Nat
  OBVIOUS
<1> QED
  BY <1>2, <1>3 DEF Comes

\* The indices that the filter leaves.
LEMMA KeptIs ==
  ASSUME NEW list \in Seq(Resource), NEW c
  PROVE  /\ Kept(list, c) \subseteq 1..Len(list) /\ IsFiniteSet(Kept(list, c))
         /\ Cardinality(Kept(list, c)) \in Nat /\ Cardinality(Kept(list, c)) <= Len(list)
<1>1. Kept(list, c) \in SUBSET (1..Len(list))
  BY DEF Kept
<1>2. Len(list) \in Nat /\ IsFiniteSet(1..Len(list)) /\ Cardinality(1..Len(list)) = Len(list)
  <2>1. Len(list) \in Nat
    OBVIOUS
  <2> QED
    BY <2>1, CountIs
<1>3. IsFiniteSet(Kept(list, c)) /\ Cardinality(Kept(list, c)) <= Len(list)
  BY <1>1, <1>2, FS_Subset
<1> QED
  BY <1>1, <1>3, FS_CardinalityType

\* The place of an index in the order is a place of the result.
LEMMA PlaceInRange ==
  ASSUME NEW list \in Seq(Resource), NEW c, NEW j \in Kept(list, c)
  PROVE  Place(list, c, j) \in 1..Cardinality(Kept(list, c))
<1> DEFINE ahead == {i \in Kept(list, c) : Comes(list, i, j)}
<1>1. /\ Kept(list, c) \subseteq 1..Len(list) /\ IsFiniteSet(Kept(list, c))
      /\ Cardinality(Kept(list, c)) \in Nat
  BY KeptIs
<1>2. j \in ahead
  BY <1>1, ComesIs
<1>3. IsFiniteSet(ahead) /\ Cardinality(ahead) <= Cardinality(Kept(list, c))
  BY <1>1, FS_Subset
<1>4. Cardinality(ahead) \in Nat /\ Cardinality(ahead) # 0
  BY <1>2, <1>3, FS_CardinalityType, FS_EmptySet
<1>5. Place(list, c, j) = Cardinality(ahead)
  BY DEF Place
<1> HIDE DEF ahead
<1> QED
  BY <1>1, <1>3, <1>4, <1>5

\* What comes first has the smaller place.
LEMMA PlaceGrows ==
  ASSUME NEW list \in Seq(Resource), NEW c, NEW i \in Kept(list, c), NEW j \in Kept(list, c),
         i # j, Comes(list, i, j)
  PROVE  Place(list, c, i) < Place(list, c, j)
<1> DEFINE a == {k \in Kept(list, c) : Comes(list, k, i)}
           b == {k \in Kept(list, c) : Comes(list, k, j)}
<1>1. Kept(list, c) \subseteq 1..Len(list) /\ IsFiniteSet(Kept(list, c))
  BY KeptIs
<1>2. a \subseteq b
  BY <1>1, ComesIs
<1>3. j \notin a /\ j \in b
  BY <1>1, ComesIs
<1>4. IsFiniteSet(b)
  BY <1>1, FS_Subset
<1>5. Place(list, c, i) = Cardinality(a) /\ Place(list, c, j) = Cardinality(b)
  BY DEF Place
<1> HIDE DEF a, b
<1>6. IsFiniteSet(a) /\ Cardinality(a) <= Cardinality(b) /\ Cardinality(a) # Cardinality(b)
  BY <1>2, <1>3, <1>4, FS_Subset
<1>7. Cardinality(a) \in Nat /\ Cardinality(b) \in Nat
  BY <1>4, <1>6, FS_CardinalityType
<1> QED
  BY <1>5, <1>6, <1>7

\* Every place is that of one index.
LEMMA PlacesAreTaken ==
  ASSUME NEW list \in Seq(Resource), NEW c
  PROVE  /\ \A i, j \in Kept(list, c) : Place(list, c, i) = Place(list, c, j) => i = j
         /\ \A n \in 1..Cardinality(Kept(list, c)) : \E i \in Kept(list, c) : Place(list, c, i) = n
<1> DEFINE K == Kept(list, c)
           T == 1..Cardinality(K)
           f == [i \in K |-> Place(list, c, i)]
<1>1. IsFiniteSet(K) /\ Cardinality(K) \in Nat /\ K \subseteq 1..Len(list)
  BY KeptIs
<1>2. \A i \in K : Place(list, c, i) \in T
  BY PlaceInRange
<1>3. ASSUME NEW i \in K, NEW j \in K, Place(list, c, i) = Place(list, c, j)
      PROVE  i = j
  <2>1. Place(list, c, i) \in Nat /\ Place(list, c, j) \in Nat
    BY <1>1, <1>2
  <2>2. ~(Place(list, c, i) < Place(list, c, j)) /\ ~(Place(list, c, j) < Place(list, c, i))
    BY <1>3, <2>1
  <2>3. i # j => Comes(list, i, j) \/ Comes(list, j, i)
    BY <1>1, ComesIs
  <2> QED
    BY <2>2, <2>3, PlaceGrows
<1>4. IsFiniteSet(T) /\ Cardinality(T) = Cardinality(K)
  BY <1>1, FS_Interval
<1>5. f \in Injection(K, T)
  BY <1>2, <1>3 DEF Injection, IsInjective
<1>6. f \in Surjection(K, T)
  BY <1>4, <1>5, FS_Injection
<1>7. \A n \in T : \E i \in K : f[i] = n
  BY <1>6 DEF Surjection
<1> QED
  BY <1>3, <1>7

\* The result holds every kept resource at its place, and nothing else.
LEMMA SortedIs ==
  ASSUME NEW list \in Seq(Resource), NEW c
  PROVE  /\ FilterAndSort(list, c) \in Seq(Resource)
         /\ Len(FilterAndSort(list, c)) = Cardinality(Kept(list, c))
         /\ \A n \in 1..Len(FilterAndSort(list, c)) :
              \E i \in Kept(list, c) : Place(list, c, i) = n /\ FilterAndSort(list, c)[n] = list[i]
         /\ \A i \in Kept(list, c) :
              /\ Place(list, c, i) \in 1..Len(FilterAndSort(list, c))
              /\ FilterAndSort(list, c)[Place(list, c, i)] = list[i]
<1> DEFINE K == Kept(list, c)
           At(n) == CHOOSE i \in K : Place(list, c, i) = n
           F == FilterAndSort(list, c)
<1>1. Cardinality(K) \in Nat /\ K \subseteq 1..Len(list)
  BY KeptIs
<1>2. \A n \in 1..Cardinality(K) : At(n) \in K /\ Place(list, c, At(n)) = n
  BY PlacesAreTaken
<1>3. F = [n \in 1..Cardinality(K) |-> list[At(n)]]
  BY DEF FilterAndSort
<1>4. \A i \in K : At(Place(list, c, i)) = i
  BY PlacesAreTaken, PlaceInRange
<1> HIDE DEF At, K
<1>5. \A n \in 1..Cardinality(K) : list[At(n)] \in Resource
  <2>1. \A i \in 1..Len(list) : list[i] \in Resource
    BY PiecesAre
  <2> QED
    BY <1>1, <1>2, <2>1
<1>6. F \in [1..Cardinality(K) -> Resource]
  BY <1>3, <1>5
<1>7. F \in Seq(Resource) /\ Len(F) = Cardinality(K)
  BY <1>1, <1>6, SeqDef
<1>8. \A n \in 1..Len(F) : At(n) \in K /\ Place(list, c, At(n)) = n /\ F[n] = list[At(n)]
  BY <1>2, <1>3, <1>7
<1>9. \A i \in K : Place(list, c, i) \in 1..Len(F)
  BY <1>7, PlaceInRange DEF K
<1>10. \A i \in K : F[Place(list, c, i)] = list[i]
  BY <1>4, <1>8, <1>9
<1> QED
  BY <1>7, <1>8, <1>9, <1>10 DEF K

-----------------------------------------------------------------------------
(* The pages.                                                              *)

\* The entries of an earlier page are before those of a later one.
LEMMA PagesApart ==
  ASSUME NEW n \in Nat, NEW q \in Nat, NEW r \in Nat, q < r
  PROVE  n * q + n <= r * n
<1>1. PICK d \in Nat : r = q + 1 + d
  <2>1. r - q - 1 \in Nat /\ r = q + 1 + (r - q - 1)
    OBVIOUS
  <2> QED
    BY <2>1
<1>2. r * n = n * q + n + d * n /\ d * n \in Nat
  BY <1>1
<1> QED
  BY <1>2

\* There are as many pages as the resources need, and at least one.
LEMMA TotalPagesIs ==
  ASSUME NEW s \in Seq(Resource)
  PROVE  /\ TotalPages(s) \in Nat \ {0} /\ TotalPages(s) <= AtLeast(Len(s), 1)
         /\ (TotalPages(s) - 1) * PageSize \in Nat /\ (TotalPages(s) - 1) * PageSize <= Len(s)
         /\ Len(s) > 0 => (TotalPages(s) - 1) * PageSize < Len(s)
         /\ Len(s) <= (TotalPages(s) - 1) * PageSize + PageSize
<1> DEFINE q == (Len(s) + PageSize - 1) \div PageSize
<1>1. PageSize \in Nat \ {0} /\ Len(s) \in Nat
  BY ListingAssumption
<1>2. /\ q \in Nat /\ PageSize * q \in Nat
      /\ PageSize * q <= Len(s) + PageSize - 1 /\ Len(s) + PageSize - 1 < PageSize * q + PageSize
  BY <1>1
<1>3. TotalPages(s) = IF q < 1 THEN 1 ELSE q
  BY DEF TotalPages, AtLeast
<1> HIDE DEF q
<1>4. CASE Len(s) = 0
  <2>1. ~(0 < q)
    BY <1>1, <1>2, <1>4, PagesApart
  <2>2. TotalPages(s) = 1
    BY <1>2, <1>3, <2>1
  <2> QED
    BY <1>1, <1>4, <2>2 DEF AtLeast
<1>5. CASE Len(s) > 0
  <2>1. q # 0
    BY <1>1, <1>2, <1>5
  <2>2. TotalPages(s) = q /\ q - 1 \in Nat
    BY <1>2, <1>3, <2>1
  <2>3. (q - 1) * PageSize = PageSize * q - PageSize /\ (q - 1) * PageSize \in Nat
    BY <1>1, <1>2, <2>2
  <2>4. (q - 1) * PageSize >= q - 1
    <3>1. PICK p \in Nat : PageSize = p + 1
      <4>1. PageSize - 1 \in Nat /\ PageSize = (PageSize - 1) + 1
        BY <1>1
      <4> QED
        BY <4>1
    <3>2. (q - 1) * PageSize = (q - 1) * p + (q - 1) /\ (q - 1) * p \in Nat
      BY <2>2, <3>1
    <3> QED
      BY <2>2, <3>2
  <2> QED
    BY <1>1, <1>2, <1>5, <2>2, <2>3, <2>4 DEF AtLeast
<1> QED
  BY <1>1, <1>4, <1>5

\* The page that is shown when another is asked for.
Clamped(s, page) == AtMost(AtLeast(page, 1), TotalPages(s))

LEMMA ClampedIs ==
  ASSUME NEW s \in Seq(Resource), NEW page \in Nat
  PROVE  /\ Clamped(s, page) \in 1..TotalPages(s)
         /\ page \in 1..TotalPages(s) => Clamped(s, page) = page
  BY TotalPagesIs DEF Clamped, AtMost, AtLeast

\* A page shows its part of the category, and is full unless it is the last one.
LEMMA PageIs ==
  ASSUME NEW list \in Seq(Resource), NEW c, NEW page \in Nat,
         NEW s, s = FilterAndSort(list, c), NEW start, start = (Clamped(s, page) - 1) * PageSize
  PROVE  /\ start \in Nat /\ start <= Len(s)
         /\ Page(list, c, page).total = TotalPages(s)
         /\ Page(list, c, page).items \in Seq(Resource)
         /\ Len(Page(list, c, page).items) =
              IF Clamped(s, page) < TotalPages(s) THEN PageSize ELSE Len(s) - start
         /\ Len(Page(list, c, page).items) <= PageSize
         /\ start + Len(Page(list, c, page).items) <= Len(s)
         /\ \A i \in 1..Len(Page(list, c, page).items) : Page(list, c, page).items[i] = s[start + i]
         /\ Page(list, c, page).items = << >> => s = << >>
<1> DEFINE n == Clamped(s, page)
           last == TotalPages(s)
           to == AtMost(start + PageSize, Len(s))
           shown == SubSeq(s, start + 1, to)
<1>1. s \in Seq(Resource)
  BY SortedIs
<1>2. Page(list, c, page) = [items |-> shown, total |-> last]
  BY DEF Page, Clamped
<1>3. PageSize \in Nat \ {0} /\ Len(s) \in Nat
  BY <1>1, ListingAssumption
<1>4. /\ last \in Nat \ {0} /\ (last - 1) * PageSize \in Nat /\ (last - 1) * PageSize <= Len(s)
      /\ Len(s) > 0 => (last - 1) * PageSize < Len(s)
      /\ Len(s) <= (last - 1) * PageSize + PageSize
  BY <1>1, TotalPagesIs
<1>5. n \in 1..last /\ start = (n - 1) * PageSize
  BY <1>1, ClampedIs
<1> HIDE DEF n, last
<1>6. /\ start \in Nat /\ start <= Len(s)
      /\ n < last => start + PageSize <= Len(s)
      /\ n = last => Len(s) <= start + PageSize
      /\ Len(s) > 0 => start < Len(s)
  <2>1. CASE n = last
    BY <1>4, <1>5, <2>1
  <2>2. CASE n < last
    <3>1. n - 1 \in Nat /\ last - 1 \in Nat /\ n - 1 < last - 1
      BY <1>4, <1>5, <2>2
    <3>2. PageSize * (n - 1) + PageSize <= (last - 1) * PageSize
      BY <1>3, <3>1, PagesApart
    <3>3. start \in Nat /\ start = PageSize * (n - 1)
      BY <1>3, <1>5, <3>1
    <3> QED
      BY <1>3, <1>4, <2>2, <3>2, <3>3
  <2> QED
    BY <1>4, <1>5, <2>1, <2>2
<1> HIDE DEF to
<1>7. /\ to \in Nat /\ start <= to /\ to <= Len(s) /\ to - start <= PageSize
      /\ to - start = IF n < last THEN PageSize ELSE Len(s) - start
      /\ Len(s) > 0 => start < to
  BY <1>3, <1>4, <1>5, <1>6 DEF to, AtMost
<1>8. /\ shown \in Seq(Resource) /\ Len(shown) = to - start
      /\ \A i \in 1..(to - start) : shown[i] = s[start + i]
  <2>1. start \in Nat /\ to \in Nat /\ start <= to /\ to <= Len(s)
    BY <1>6, <1>7
  <2>2. SubSeq(s, start + 1, to) \in Seq(Resource)
    BY <1>1, <2>1, PartIs
  <2>3. Len(SubSeq(s, start + 1, to)) = to - start
    BY <1>1, <2>1, PartIs
  <2>4. \A i \in 1..(to - start) : SubSeq(s, start + 1, to)[i] = s[start + i]
    BY <1>1, <2>1, PartIs
  <2> QED
    BY <2>2, <2>3, <2>4
<1>9. \A i \in 1..Len(shown) : shown[i] = s[start + i]
  BY <1>8
<1> HIDE DEF shown
<1>10. shown = << >> => s = << >>
  <2>1. shown = << >> => Len(shown) = 0
    OBVIOUS
  <2>2. Len(s) = 0 => s = << >>
    BY <1>1
  <2> QED
    BY <1>3, <1>6, <1>7, <1>8, <2>1, <2>2
<1> QED
  BY <1>2, <1>6, <1>7, <1>8, <1>9, <1>10 DEF n, last

\* Entry m of the category is on the page with number (m - 1) \div PageSize + 1.
LEMMA EntryIsOnPage ==
  ASSUME NEW s \in Seq(Resource), NEW m \in 1..Len(s)
  PROVE  /\ (m - 1) \div PageSize + 1 \in 1..TotalPages(s)
         /\ ((m - 1) % PageSize) + 1 \in 1..PageSize
         /\ ((m - 1) \div PageSize) * PageSize + ((m - 1) % PageSize) + 1 = m
<1> DEFINE q == (m - 1) \div PageSize
           last == TotalPages(s)
<1>1. PageSize \in Nat \ {0} /\ Len(s) \in Nat /\ m - 1 \in Nat /\ m \in Nat
  BY ListingAssumption
<1>2. q \in Nat /\ PageSize * q <= m - 1 /\ m - 1 < PageSize * q + PageSize
  BY <1>1
<1>3. ((m - 1) % PageSize) \in 0..(PageSize - 1) /\ m - 1 = PageSize * q + ((m - 1) % PageSize)
  BY <1>1
<1>4. last \in Nat \ {0} /\ Len(s) <= (last - 1) * PageSize + PageSize
  BY TotalPagesIs
<1> HIDE DEF q, last
<1>5. q < last
  <2>1. CASE last <= q
    <3>1. (last - 1) \in Nat /\ last - 1 < q
      BY <1>2, <1>4, <2>1
    <3>2. PageSize * (last - 1) + PageSize <= q * PageSize
      BY <1>1, <1>2, <3>1, PagesApart
    <3>3. PageSize * (last - 1) = (last - 1) * PageSize /\ q * PageSize = PageSize * q
          /\ (last - 1) * PageSize \in Nat /\ PageSize * q \in Nat
      BY <1>1, <1>2, <3>1
    <3> QED
      BY <1>1, <1>2, <1>4, <3>2, <3>3
  <2> QED
    BY <1>2, <1>4, <2>1
<1>6. q * PageSize = PageSize * q
  BY <1>1, <1>2
<1> QED
  BY <1>1, <1>2, <1>3, <1>4, <1>5, <1>6 DEF q, last

\* The pages of a category, one after the other, are the category.
LEMMA AllPagesAre ==
  ASSUME NEW list \in Seq(Resource), NEW c
  PROVE  /\ AllPages(list, c) = FilterAndSort(list, c)
         /\ \A page \in 1..(LastPage(list, c) - 1) : Len(PageItems(list, c, page)) = PageSize
<1> DEFINE s == FilterAndSort(list, c)
           last == TotalPages(s)
           Show(page) == Page(list, c, page).items
<1>1. s \in Seq(Resource) /\ Len(s) \in Nat
  BY SortedIs
<1>2. PageSize \in Nat \ {0}
  BY ListingAssumption
<1>3. last \in Nat \ {0}
  BY <1>1, TotalPagesIs
<1>4. ASSUME NEW page \in 1..last
      PROVE  /\ Len(Show(page)) =
                  IF page < last THEN PageSize ELSE Len(s) - (page - 1) * PageSize
             /\ Len(Show(page)) \in Nat /\ (page - 1) * PageSize \in Nat
             /\ \A i \in 1..Len(Show(page)) : Show(page)[i] = s[(page - 1) * PageSize + i]
  <2>1. Clamped(s, page) = page /\ page \in Nat
    BY <1>1, <1>3, ClampedIs
  <2>2. /\ Show(page) \in Seq(Resource) /\ (page - 1) * PageSize \in Nat
        /\ Len(Show(page)) = IF page < last THEN PageSize ELSE Len(s) - (page - 1) * PageSize
    BY <2>1, PageIs
  <2>3. \A i \in 1..Len(Show(page)) : Show(page)[i] = s[(page - 1) * PageSize + i]
    BY <2>1, PageIs
  <2> QED
    BY <2>2, <2>3
<1>5. LastPage(list, c) = last
  BY PageIs DEF LastPage
<1>6. \A page : PageItems(list, c, page) = Show(page)
  BY DEF PageItems
<1>7. \A m \in 1..Len(s) :
        /\ (m - 1) \div PageSize + 1 \in 1..last /\ ((m - 1) % PageSize) + 1 \in 1..PageSize
        /\ ((m - 1) \div PageSize) * PageSize + ((m - 1) % PageSize) + 1 = m
  BY <1>1, EntryIsOnPage
<1>8. (last - 1) * PageSize + Len(Show(last)) = Len(s)
  BY <1>1, <1>3, <1>4
<1> HIDE DEF s, last, Show
<1>9. ASSUME NEW m \in 1..Len(s)
      PROVE  Show((m - 1) \div PageSize + 1)[((m - 1) % PageSize) + 1] = s[m]
  <2> DEFINE q == (m - 1) \div PageSize
             r == (m - 1) % PageSize
  <2>1. m \in Nat /\ m <= Len(s) /\ q \in Nat /\ r \in Nat
    BY <1>1, <1>2
  <2>2. q + 1 \in 1..last /\ r + 1 \in 1..PageSize /\ q * PageSize + r + 1 = m
    BY <1>7
  <2> HIDE DEF q, r
  <2>3. (q + 1) - 1 = q /\ q * PageSize \in Nat
    BY <1>2, <2>1
  <2>4. /\ Len(Show(q + 1)) = IF q + 1 < last THEN PageSize ELSE Len(s) - q * PageSize
        /\ \A i \in 1..Len(Show(q + 1)) : Show(q + 1)[i] = s[q * PageSize + i]
        /\ Len(Show(q + 1)) \in Nat
    BY <1>4, <2>2, <2>3
  <2>5. r + 1 \in 1..Len(Show(q + 1))
    BY <1>1, <1>2, <2>1, <2>2, <2>3, <2>4
  <2>6. q * PageSize + (r + 1) = m
    BY <2>1, <2>2, <2>3
  <2>7. Show(q + 1)[r + 1] = s[m]
    BY <2>4, <2>5, <2>6
  <2> QED
    BY <2>7 DEF q, r
<1>10. AllPages(list, c) =
         [m \in 1..Len(s) |-> Show((m - 1) \div PageSize + 1)[((m - 1) % PageSize) + 1]]
  BY <1>5, <1>6, <1>8 DEF AllPages
<1>11. s = [m \in 1..Len(s) |-> s[m]]
  BY <1>1
<1>12. AllPages(list, c) = s
  BY <1>9, <1>10, <1>11
<1>13. ASSUME NEW page \in 1..(last - 1)
       PROVE  Len(Show(page)) = PageSize
  <2>1. page \in 1..last /\ page < last
    BY <1>3
  <2> QED
    BY <1>4, <2>1
<1> QED
  BY <1>5, <1>6, <1>12, <1>13 DEF s

\* A resource listed once has one position.
LEMMA PositionIs ==
  ASSUME NEW list, IsInjective(list), DOMAIN list = 1..Len(list), NEW i \in 1..Len(list)
  PROVE  Position(list, list[i]) = i
  BY DEF Position, IsInjective

\* The result of the filter and the sort is a stable order of the category.
THEOREM SortIsStable ==
  ASSUME NEW list \in Seq(Resource), IsInjective(list), NEW c
  PROVE  IsStableOrder(FilterAndSort(list, c), list, c)
<1> DEFINE s == FilterAndSort(list, c)
           K == Kept(list, c)
<1>1. s \in Seq(Resource) /\ Len(s) \in Nat /\ DOMAIN s = 1..Len(s)
  BY SortedIs, PiecesAre
<1>2. DOMAIN list = 1..Len(list) /\ Len(list) \in Nat
  BY PiecesAre
<1>3. K \subseteq 1..Len(list) /\ \A i \in 1..Len(list) : i \in K <=> InCategory(list[i], c)
  BY <1>2 DEF Kept
<1>4. \A n \in 1..Len(s) : \E i \in K : Place(list, c, i) = n /\ s[n] = list[i]
  BY SortedIs
<1>5. \A i \in K : Place(list, c, i) \in 1..Len(s) /\ s[Place(list, c, i)] = list[i]
  BY SortedIs
<1>6. \A i, j \in K : i # j /\ Comes(list, i, j) => Place(list, c, i) < Place(list, c, j)
  BY PlaceGrows
<1>7. \A i, j \in K : i # j => Comes(list, i, j) \/ Comes(list, j, i)
  BY <1>3, ComesIs
<1> HIDE DEF s, K
<1>8. ToSet(s) = {r \in ToSet(list) : InCategory(r, c)}
  <2>1. ASSUME NEW r \in ToSet(s)
        PROVE  r \in ToSet(list) /\ InCategory(r, c)
    <3>1. PICK n \in 1..Len(s) : s[n] = r
      BY <1>1, <2>1 DEF ToSet
    <3>2. PICK i \in K : s[n] = list[i]
      BY <1>4
    <3> QED
      BY <1>2, <1>3, <3>1, <3>2 DEF ToSet
  <2>2. ASSUME NEW r \in ToSet(list), InCategory(r, c)
        PROVE  r \in ToSet(s)
    <3>1. PICK i \in 1..Len(list) : list[i] = r
      BY <1>2, <2>2 DEF ToSet
    <3>2. i \in K
      BY <1>3, <2>2, <3>1
    <3> QED
      BY <1>1, <1>5, <3>1, <3>2 DEF ToSet
  <2> QED
    BY <2>1, <2>2
<1>9. IsInjective(s)
  <2>1. ASSUME NEW m \in 1..Len(s), NEW n \in 1..Len(s), s[m] = s[n]
        PROVE  m = n
    <3>1. PICK i \in K : Place(list, c, i) = m /\ s[m] = list[i]
      BY <1>4
    <3>2. PICK j \in K : Place(list, c, j) = n /\ s[n] = list[j]
      BY <1>4
    <3>3. i = j
      BY <1>2, <1>3, <2>1, <3>1, <3>2 DEF IsInjective
    <3> QED
      BY <3>1, <3>2, <3>3
  <2> QED
    BY <1>1, <2>1 DEF IsInjective
<1>10. Len(s) = Cardinality(ToSet(s))
  <2>1. s \in Surjection(1..Len(s), ToSet(s))
    <3>1. \A n \in 1..Len(s) : s[n] \in ToSet(s)
      BY <1>1, PiecesAre
    <3>2. s = [n \in 1..Len(s) |-> s[n]]
      BY <1>1
    <3>3. s \in [1..Len(s) -> ToSet(s)]
      BY <3>1, <3>2
    <3>4. \A r \in ToSet(s) : \E n \in 1..Len(s) : s[n] = r
      BY <1>1, PiecesAre
    <3> QED
      BY <3>3, <3>4 DEF Surjection
  <2>2. s \in Injection(1..Len(s), ToSet(s))
    BY <1>9, <2>1 DEF Surjection, Injection
  <2>3. IsFiniteSet(1..Len(s)) /\ Cardinality(1..Len(s)) = Len(s)
    BY <1>1, CountIs
  <2> QED
    BY <2>1, <2>2, <2>3, FS_Surjection
<1>11. ASSUME NEW m \in 1..Len(s), NEW n \in 1..Len(s), m < n
       PROVE  \/ SortKey(s[m]) < SortKey(s[n])
              \/ SortKey(s[m]) = SortKey(s[n]) /\ Position(list, s[m]) < Position(list, s[n])
  <2>1. PICK i \in K : Place(list, c, i) = m /\ s[m] = list[i]
    BY <1>4
  <2>2. PICK j \in K : Place(list, c, j) = n /\ s[n] = list[j]
    BY <1>4
  <2>3. m \in Nat /\ n \in Nat
    BY <1>1
  <2>4. i # j
    BY <1>11, <2>1, <2>2, <2>3
  <2>5. ~(Place(list, c, j) < Place(list, c, i))
    BY <1>11, <2>1, <2>2, <2>3
  <2>6. Comes(list, i, j)
    BY <1>6, <1>7, <2>4, <2>5
  <2>7. Position(list, s[m]) = i /\ Position(list, s[n]) = j
    BY <1>2, <1>3, <2>1, <2>2, PositionIs
  <2>8. i \in Nat /\ j \in Nat
    BY <1>3
  <2> QED
    BY <2>1, <2>2, <2>4, <2>6, <2>7, <2>8 DEF Comes
<1> QED
  BY <1>8, <1>10, <1>11 DEF IsStableOrder, s

\* What a stable order requires of two resources, one before the other.
Ahead(list, a, b) ==
  \/ SortKey(a) < SortKey(b)
  \/ SortKey(a) = SortKey(b) /\ Position(list, a) < Position(list, b)

\* There is one stable order of a category, so IsStableOrder says all about it.
THEOREM StableOrderIsUnique ==
  ASSUME NEW list \in Seq(Resource), NEW c, NEW s \in Seq(Resource), NEW t \in Seq(Resource),
         IsStableOrder(s, list, c), IsStableOrder(t, list, c)
  PROVE  s = t
<1>1. /\ ToSet(s) = ToSet(t) /\ ToSet(s) \subseteq ToSet(list) /\ Len(s) = Len(t)
      /\ \A i, j \in 1..Len(s) : i < j => Ahead(list, s[i], s[j])
      /\ \A i, j \in 1..Len(t) : i < j => Ahead(list, t[i], t[j])
  BY DEF IsStableOrder, Ahead
<1>2. Len(s) \in Nat
  BY PiecesAre
<1>3. ASSUME NEW r \in ToSet(list)
      PROVE  SortKey(r) \in Nat /\ Position(list, r) \in Nat
  <2>1. PICK i \in 1..Len(list) : list[i] = r
    BY PiecesAre
  <2>2. Position(list, r) \in 1..Len(list)
    BY <2>1 DEF Position
  <2> QED
    BY <2>1, <2>2, ComesIs
<1>4. \A a, b \in ToSet(list) : ~(Ahead(list, a, b) /\ Ahead(list, b, a)) /\ ~Ahead(list, a, a)
  BY <1>3 DEF Ahead
<1>5. /\ \A i \in 1..Len(s) : s[i] \in ToSet(s) /\ t[i] \in ToSet(t)
      /\ \A r \in ToSet(s) : \E i \in 1..Len(s) : s[i] = r
      /\ \A r \in ToSet(t) : \E i \in 1..Len(s) : t[i] = r
  BY <1>1, PiecesAre
<1>6. ASSUME NEW n \in 1..Len(s), \A k \in 1..Len(s) : k < n => s[k] = t[k]
      PROVE  s[n] = t[n]
  <2>1. PICK m \in 1..Len(s) : s[m] = t[n]
    BY <1>1, <1>5
  <2>2. PICK k \in 1..Len(s) : t[k] = s[n]
    BY <1>1, <1>5
  <2>3. m \in Nat /\ n \in Nat /\ k \in Nat
    BY <1>2
  <2>4. ~(m < n)
    <3> SUFFICES ASSUME m < n PROVE FALSE
      OBVIOUS
    <3>1. t[m] = t[n] /\ Ahead(list, t[m], t[n])
      BY <1>1, <1>6, <2>1
    <3> QED
      BY <1>1, <1>4, <1>5, <3>1
  <2>5. ~(k < n)
    <3> SUFFICES ASSUME k < n PROVE FALSE
      OBVIOUS
    <3>1. s[k] = s[n] /\ Ahead(list, s[k], s[n])
      BY <1>1, <1>6, <2>2
    <3> QED
      BY <1>1, <1>4, <1>5, <3>1
  <2>6. ~(n < m /\ n < k)
    <3> SUFFICES ASSUME n < m, n < k PROVE FALSE
      OBVIOUS
    <3>1. Ahead(list, s[n], t[n]) /\ Ahead(list, t[n], s[n])
      BY <1>1, <2>1, <2>2
    <3> QED
      BY <1>1, <1>4, <1>5, <3>1
  <2>7. m = n \/ k = n
    BY <2>3, <2>4, <2>5, <2>6
  <2> QED
    BY <2>1, <2>2, <2>7
<1>7. \A n \in 1..Len(s) : s[n] = t[n]
  <2> DEFINE D == {n \in 1..Len(s) : s[n] # t[n]}
  <2> SUFFICES ASSUME D # {} PROVE FALSE
    OBVIOUS
  <2>1. D \subseteq Nat
    BY <1>2
  <2>2. PICK n \in D : \A k \in D : n <= k
    BY <2>1, NatLeast
  <2>3. \A k \in 1..Len(s) : k < n => s[k] = t[k]
    BY <1>2, <2>2
  <2> QED
    BY <1>6, <2>2, <2>3
<1> QED
  BY <1>1, <1>7, TextsEqual

\* A sequence that agrees with the beginning of another is a prefix of it.
LEMMA PrefixIs ==
  ASSUME NEW S, NEW s \in Seq(S), NEW t \in Seq(S), Len(s) <= Len(t),
         \A i \in 1..Len(s) : s[i] = t[i]
  PROVE  IsPrefix(s, t)
<1>1. Len(s) \in Nat /\ Len(t) \in Nat /\ 0 \in Nat /\ 0 + 1 = 1 /\ Len(s) - 0 = Len(s)
  OBVIOUS
<1>2. /\ SubSeq(s, 1, Len(s)) \in Seq(S) /\ Len(SubSeq(s, 1, Len(s))) = Len(s)
      /\ \A i \in 1..Len(s) : SubSeq(s, 1, Len(s))[i] = s[i]
  <2>1. /\ SubSeq(s, 0 + 1, Len(s)) \in Seq(S) /\ Len(SubSeq(s, 0 + 1, Len(s))) = Len(s) - 0
        /\ \A i \in 1..(Len(s) - 0) : SubSeq(s, 0 + 1, Len(s))[i] = s[0 + i]
    BY <1>1, PartIs
  <2> QED
    BY <1>1, <2>1
<1>3. /\ SubSeq(t, 1, Len(s)) \in Seq(S) /\ Len(SubSeq(t, 1, Len(s))) = Len(s)
      /\ \A i \in 1..Len(s) : SubSeq(t, 1, Len(s))[i] = t[i]
  <2>1. /\ SubSeq(t, 0 + 1, Len(s)) \in Seq(S) /\ Len(SubSeq(t, 0 + 1, Len(s))) = Len(s) - 0
        /\ \A i \in 1..(Len(s) - 0) : SubSeq(t, 0 + 1, Len(s))[i] = t[0 + i]
    BY <1>1, PartIs
  <2> QED
    BY <1>1, <2>1
<1>4. SubSeq(s, 1, Len(s)) = SubSeq(t, 1, Len(s))
  BY <1>1, <1>2, <1>3, TextsEqual
<1> QED
  BY <1>4 DEF IsPrefix

\* A page and the one after it show neighbouring resources.
LEMMA NeighboursAdjoin ==
  ASSUME NEW list \in Seq(Resource), NEW c, NEW page \in Nat \ {0}, NEW next, next = page + 1,
         page < TotalPages(FilterAndSort(list, c))
  PROVE  /\ IsPrefix(Page(list, c, page).items \o Page(list, c, next).items,
                     SubSeq(FilterAndSort(list, c), (page - 1) * PageSize + 1, Len(FilterAndSort(list, c))))
         /\ Page(list, c, next).items # << >>
<1> DEFINE s == FilterAndSort(list, c)
           last == TotalPages(s)
           start == (page - 1) * PageSize
           a == Page(list, c, page).items
           b == Page(list, c, next).items
           rest == SubSeq(s, start + 1, Len(s))
<1>1. s \in Seq(Resource) /\ Len(s) \in Nat
  BY SortedIs
<1>2. PageSize \in Nat \ {0} /\ last \in Nat \ {0}
  BY <1>1, ListingAssumption, TotalPagesIs
<1>3. /\ page \in 1..last /\ next \in 1..last /\ page \in Nat /\ next \in Nat
      /\ Clamped(s, page) = page /\ Clamped(s, next) = next
  <2>1. page \in 1..last /\ next \in 1..last /\ page \in Nat /\ next \in Nat
    BY <1>2
  <2> QED
    BY <1>1, <2>1, ClampedIs
<1>4. next - 1 = page /\ (next - 1) * PageSize = start + PageSize /\ start \in Nat
  <2>1. PICK d \in Nat : page = d + 1
    <3>1. page - 1 \in Nat /\ page = (page - 1) + 1
      OBVIOUS
    <3> QED
      BY <3>1
  <2>2. start = d * PageSize /\ (next - 1) * PageSize = d * PageSize + PageSize
        /\ d * PageSize \in Nat
    BY <1>2, <2>1
  <2> QED
    BY <2>1, <2>2
<1>5. a \in Seq(Resource) /\ Len(a) = PageSize /\ \A i \in 1..Len(a) : a[i] = s[start + i]
  <2>1. a \in Seq(Resource)
        /\ Len(a) = IF page < last THEN PageSize ELSE Len(s) - start
    BY <1>3, PageIs
  <2>2. \A i \in 1..Len(a) : a[i] = s[start + i]
    BY <1>3, PageIs
  <2> QED
    BY <2>1, <2>2
<1>6. /\ b \in Seq(Resource) /\ Len(b) \in Nat /\ start + PageSize + Len(b) <= Len(s)
      /\ \A i \in 1..Len(b) : b[i] = s[start + PageSize + i]
  <2> DEFINE from == (next - 1) * PageSize
  <2>1. b \in Seq(Resource) /\ from + Len(b) <= Len(s)
    BY <1>3, PageIs
  <2>2. \A i \in 1..Len(b) : b[i] = s[from + i]
    BY <1>3, PageIs
  <2>3. from = start + PageSize
    BY <1>4
  <2> HIDE DEF from
  <2> QED
    BY <2>1, <2>2, <2>3
<1>7. b = << >> => s = << >>
  BY <1>3, PageIs
<1> HIDE DEF s, last, start, a, b
<1>8. b # << >>
  <2>1. s = << >> => Len(s) = 0
    OBVIOUS
  <2>2. start + PageSize + Len(b) <= Len(s) /\ Len(b) \in Nat
    BY <1>6
  <2>3. Len(s) # 0
    BY <1>2, <1>4, <2>2
  <2> QED
    BY <1>7, <2>1, <2>3
<1>9. /\ rest \in Seq(Resource) /\ Len(rest) = Len(s) - start
      /\ \A i \in 1..(Len(s) - start) : rest[i] = s[start + i]
  <2>1. start <= Len(s) /\ Len(s) <= Len(s)
    BY <1>1, <1>2, <1>4, <1>6
  <2>2. SubSeq(s, start + 1, Len(s)) \in Seq(Resource)
    BY <1>1, <1>4, <2>1, PartIs
  <2>3. Len(SubSeq(s, start + 1, Len(s))) = Len(s) - start
    BY <1>1, <1>4, <2>1, PartIs
  <2>4. \A i \in 1..(Len(s) - start) : SubSeq(s, start + 1, Len(s))[i] = s[start + i]
    BY <1>1, <1>4, <2>1, PartIs
  <2> QED
    BY <2>2, <2>3, <2>4
<1> HIDE DEF rest
<1>10. a \o b \in Seq(Resource) /\ Len(a \o b) = PageSize + Len(b)
  <2>1. a \in Seq(Resource) /\ b \in Seq(Resource)
    BY <1>5, <1>6
  <2>2. a \o b \in Seq(Resource) /\ Len(a \o b) = Len(a) + Len(b)
    BY <2>1
  <2> QED
    BY <1>5, <2>2
<1>11. ASSUME NEW i \in 1..Len(a \o b)
       PROVE  (a \o b)[i] = rest[i]
  <2>1. rest[i] = s[start + i]
    BY <1>1, <1>2, <1>4, <1>6, <1>9, <1>10
  <2>2. CASE i <= PageSize
    <3>1. i \in 1..Len(a)
      BY <1>2, <1>5, <1>10, <2>2
    <3>2. (a \o b)[i] = a[i]
      BY <1>5, <1>6, <3>1
    <3> QED
      BY <1>5, <2>1, <3>1, <3>2
  <2>3. CASE i > PageSize
    <3>1. i - PageSize \in 1..Len(b) /\ i = Len(a) + (i - PageSize)
      BY <1>2, <1>5, <1>6, <1>10, <2>3
    <3>2. (a \o b)[Len(a) + (i - PageSize)] = b[i - PageSize]
      BY <1>5, <1>6, <3>1
    <3>3. b[i - PageSize] = s[start + PageSize + (i - PageSize)]
      BY <1>6, <3>1
    <3>4. start + PageSize + (i - PageSize) = start + i
      BY <1>2, <1>4, <1>6, <1>10
    <3> QED
      BY <2>1, <3>1, <3>2, <3>3, <3>4
  <2> QED
    BY <1>2, <1>6, <1>10, <2>2, <2>3
<1>12. Len(a \o b) <= Len(rest)
  BY <1>1, <1>2, <1>4, <1>6, <1>9, <1>10
<1>13. IsPrefix(a \o b, rest)
  BY <1>9, <1>10, <1>11, <1>12, PrefixIs
<1> QED
  BY <1>13, <1>8 DEF a, b, rest, s, start

-----------------------------------------------------------------------------
(* The list changes.                                                       *)

\* One resource more.
LEMMA InsertIs ==
  ASSUME NEW S, NEW s \in Seq(S), NEW i \in 1..(Len(s) + 1), NEW e \in S
  PROVE  /\ InsertAt(s, i, e) \in Seq(S) /\ Len(InsertAt(s, i, e)) = Len(s) + 1
         /\ \A k \in 1..(Len(s) + 1) :
              InsertAt(s, i, e)[k] = IF k < i THEN s[k] ELSE IF k = i THEN e ELSE s[k - 1]
<1> DEFINE x == SubSeq(s, 1, i - 1)
           y == SubSeq(s, i, Len(s))
<1>1. Len(s) \in Nat /\ i \in Nat /\ \A k \in 1..Len(s) : s[k] \in S
  BY PiecesAre
<1>2. x \in Seq(S) /\ Len(x) = i - 1 /\ \A k \in 1..(i - 1) : x[k] = s[k]
  <2>1. 0 \in Nat /\ i - 1 \in Nat /\ 0 <= i - 1 /\ i - 1 <= Len(s) /\ 0 + 1 = 1
    BY <1>1
  <2>2. /\ SubSeq(s, 0 + 1, i - 1) \in Seq(S) /\ Len(SubSeq(s, 0 + 1, i - 1)) = (i - 1) - 0
        /\ \A k \in 1..((i - 1) - 0) : SubSeq(s, 0 + 1, i - 1)[k] = s[0 + k]
    BY <2>1, PartIs
  <2> QED
    BY <1>1, <2>1, <2>2
<1>3. /\ y \in Seq(S) /\ Len(y) = Len(s) - (i - 1)
      /\ \A k \in 1..(Len(s) - (i - 1)) : y[k] = s[(i - 1) + k]
  <2>1. i - 1 \in Nat /\ Len(s) \in Nat /\ i - 1 <= Len(s) /\ (i - 1) + 1 = i
    BY <1>1
  <2>2. /\ SubSeq(s, (i - 1) + 1, Len(s)) \in Seq(S)
        /\ Len(SubSeq(s, (i - 1) + 1, Len(s))) = Len(s) - (i - 1)
        /\ \A k \in 1..(Len(s) - (i - 1)) : SubSeq(s, (i - 1) + 1, Len(s))[k] = s[(i - 1) + k]
    BY <2>1, PartIs
  <2> QED
    BY <2>1, <2>2
<1> HIDE DEF x, y
<1>4. x \in Seq(S) /\ y \in Seq(S)
  BY <1>2, <1>3
<1>5. /\ Joined(x, e, y) \in Seq(S) /\ Len(Joined(x, e, y)) = Len(x) + 1 + Len(y)
      /\ \A k \in 1..Len(x) : Joined(x, e, y)[k] = x[k]
      /\ Joined(x, e, y)[Len(x) + 1] = e
      /\ \A k \in 1..Len(y) : Joined(x, e, y)[Len(x) + 1 + k] = y[k]
  <2>1. Joined(x, e, y) \in Seq(S) /\ Len(Joined(x, e, y)) = Len(x) + 1 + Len(y)
    BY <1>4, JoinedIs
  <2>2. \A k \in 1..Len(x) : Joined(x, e, y)[k] = x[k]
    BY <1>4, JoinedIs
  <2>3. Joined(x, e, y)[Len(x) + 1] = e
    BY <1>4, JoinedIs
  <2>4. \A k \in 1..Len(y) : Joined(x, e, y)[Len(x) + 1 + k] = y[k]
    BY <1>4, JoinedIs
  <2> QED
    BY <2>1, <2>2, <2>3, <2>4
<1>6. InsertAt(s, i, e) = Joined(x, e, y)
  BY DEF InsertAt, Joined, x, y
<1>7. ASSUME NEW k \in 1..(Len(s) + 1)
      PROVE  Joined(x, e, y)[k] = IF k < i THEN s[k] ELSE IF k = i THEN e ELSE s[k - 1]
  <2>1. CASE k < i
    <3>1. k \in 1..Len(x) /\ k \in 1..(i - 1)
      BY <1>1, <1>2, <2>1
    <3> QED
      BY <1>2, <1>5, <2>1, <3>1
  <2>2. CASE k = i
    <3>1. k = Len(x) + 1
      BY <1>1, <1>2, <2>2
    <3> QED
      BY <1>1, <1>5, <2>2, <3>1
  <2>3. CASE k > i
    <3>1. k - i \in 1..Len(y) /\ Len(x) + 1 + (k - i) = k /\ (i - 1) + (k - i) = k - 1
      BY <1>1, <1>2, <1>3, <2>3
    <3>2. Joined(x, e, y)[k] = y[k - i]
      BY <1>5, <3>1
    <3>3. y[k - i] = s[k - 1]
      BY <1>3, <3>1
    <3> QED
      BY <1>1, <2>3, <3>2, <3>3
  <2> QED
    BY <1>1, <2>1, <2>2, <2>3
<1> QED
  BY <1>1, <1>2, <1>3, <1>5, <1>6, <1>7

\* One resource less.
LEMMA RemoveIs ==
  ASSUME NEW S, NEW s \in Seq(S), NEW i \in 1..Len(s)
  PROVE  /\ RemoveAt(s, i) \in Seq(S) /\ Len(RemoveAt(s, i)) = Len(s) - 1
         /\ \A k \in 1..(Len(s) - 1) : RemoveAt(s, i)[k] = IF k < i THEN s[k] ELSE s[k + 1]
<1> DEFINE x == SubSeq(s, 1, i - 1)
           y == SubSeq(s, i + 1, Len(s))
<1>1. Len(s) \in Nat /\ i \in Nat /\ \A k \in 1..Len(s) : s[k] \in S
  BY PiecesAre
<1>2. x \in Seq(S) /\ Len(x) = i - 1 /\ \A k \in 1..(i - 1) : x[k] = s[k]
  <2>1. 0 \in Nat /\ i - 1 \in Nat /\ 0 <= i - 1 /\ i - 1 <= Len(s) /\ 0 + 1 = 1
    BY <1>1
  <2>2. /\ SubSeq(s, 0 + 1, i - 1) \in Seq(S) /\ Len(SubSeq(s, 0 + 1, i - 1)) = (i - 1) - 0
        /\ \A k \in 1..((i - 1) - 0) : SubSeq(s, 0 + 1, i - 1)[k] = s[0 + k]
    BY <2>1, PartIs
  <2> QED
    BY <1>1, <2>1, <2>2
<1>3. /\ y \in Seq(S) /\ Len(y) = Len(s) - i
      /\ \A k \in 1..(Len(s) - i) : y[k] = s[i + k]
  <2>1. i \in Nat /\ Len(s) \in Nat /\ i <= Len(s) /\ Len(s) <= Len(s)
    BY <1>1
  <2> QED
    BY <2>1, PartIs
<1> HIDE DEF x, y
<1>4. x \in Seq(S) /\ y \in Seq(S)
  BY <1>2, <1>3
<1>5. /\ x \o y \in Seq(S) /\ Len(x \o y) = Len(x) + Len(y)
      /\ \A k \in 1..Len(x) : (x \o y)[k] = x[k]
      /\ \A k \in 1..Len(y) : (x \o y)[Len(x) + k] = y[k]
  BY <1>4
<1>6. RemoveAt(s, i) = x \o y
  BY DEF RemoveAt, x, y
<1>7. ASSUME NEW k \in 1..(Len(s) - 1)
      PROVE  (x \o y)[k] = IF k < i THEN s[k] ELSE s[k + 1]
  <2>1. CASE k < i
    <3>1. k \in 1..Len(x) /\ k \in 1..(i - 1)
      BY <1>1, <1>2, <2>1
    <3> QED
      BY <1>2, <1>5, <2>1, <3>1
  <2>2. CASE k >= i
    <3>1. k - (i - 1) \in 1..Len(y) /\ Len(x) + (k - (i - 1)) = k /\ i + (k - (i - 1)) = k + 1
      BY <1>1, <1>2, <1>3, <2>2
    <3>2. (x \o y)[k] = y[k - (i - 1)]
      BY <1>5, <3>1
    <3>3. y[k - (i - 1)] = s[k + 1]
      BY <1>3, <3>1
    <3> QED
      BY <1>1, <2>2, <3>2, <3>3
  <2>3. k < i \/ k >= i
    BY <1>1
  <2> QED
    BY <2>1, <2>2, <2>3
<1>8. Len(x \o y) = Len(s) - 1 /\ x \o y \in Seq(S)
  BY <1>1, <1>2, <1>3, <1>5
<1> QED
  BY <1>6, <1>7, <1>8

\* The lists that upstream may change to are no longer than the bound, and list
\* each resource once.
Listed(list) == list \in Seq(Resource) /\ Len(list) <= MaxLen /\ IsInjective(list)

LEMMA ChangesAreListed ==
  ASSUME Listed(all), UpstreamChanges
  PROVE  Listed(all') /\ all' # all
<1>1. /\ all \in Seq(Resource) /\ Len(all) \in Nat /\ DOMAIN all = 1..Len(all)
      /\ \A i \in 1..Len(all) : all[i] \in ToSet(all)
      /\ IsInjective(all) /\ MaxLen \in Nat /\ Len(all) <= MaxLen
  BY PiecesAre, ListingAssumption DEF Listed
<1>2. ASSUME NEW r \in Resource \ ToSet(all), NEW i \in 1..(Len(all) + 1), Len(all) < MaxLen,
             all' = InsertAt(all, i, r)
      PROVE  Listed(all') /\ all' # all
  <2>1. all' \in Seq(Resource) /\ Len(all') = Len(all) + 1
    BY <1>1, <1>2, InsertIs
  <2>2. \A k \in 1..(Len(all) + 1) :
          all'[k] = IF k < i THEN all[k] ELSE IF k = i THEN r ELSE all[k - 1]
    <3>1. all \in Seq(Resource) /\ r \in Resource
      BY <1>1
    <3>2. \A k \in 1..(Len(all) + 1) :
            InsertAt(all, i, r)[k] = IF k < i THEN all[k] ELSE IF k = i THEN r ELSE all[k - 1]
      BY <3>1, InsertIs
    <3> QED
      BY <1>2, <3>2
  <2>3. DOMAIN all' = 1..Len(all')
    BY <2>1, PiecesAre
  <2>4. ASSUME NEW j \in DOMAIN all', NEW k \in DOMAIN all', all'[j] = all'[k]
        PROVE  j = k
    <3>1. /\ j \in Nat /\ k \in Nat /\ i \in Nat
          /\ j \in 1..(Len(all) + 1) /\ k \in 1..(Len(all) + 1)
      BY <1>1, <2>1, <2>3
    <3> DEFINE From(n) == IF n < i THEN n ELSE n - 1
    <3>2. ASSUME NEW n \in 1..(Len(all) + 1), n # i
          PROVE  From(n) \in 1..Len(all) /\ all'[n] = all[From(n)] /\ all'[n] # r
      <4>1. From(n) \in 1..Len(all)
        BY <1>1, <3>1, <3>2
      <4>2. all'[n] = all[From(n)]
        BY <2>2, <3>1, <3>2
      <4> QED
        BY <1>1, <4>1, <4>2
    <3>3. all'[i] = r
      BY <2>2, <3>1
    <3>4. CASE j = i \/ k = i
      BY <2>4, <3>1, <3>2, <3>3, <3>4
    <3>5. CASE j # i /\ k # i
      <4>1. From(j) \in 1..Len(all) /\ From(k) \in 1..Len(all) /\ all[From(j)] = all[From(k)]
        BY <2>4, <3>1, <3>2, <3>5
      <4>2. From(j) = From(k)
        BY <1>1, <4>1 DEF IsInjective
      <4> QED
        BY <3>1, <3>5, <4>2
    <3> QED
      BY <3>4, <3>5
  <2> QED
    BY <1>1, <1>2, <2>1, <2>4 DEF Listed, IsInjective
<1>3. ASSUME NEW i \in 1..Len(all), all' = RemoveAt(all, i)
      PROVE  Listed(all') /\ all' # all
  <2>1. all' \in Seq(Resource) /\ Len(all') = Len(all) - 1
    BY <1>1, <1>3, RemoveIs
  <2>2. \A k \in 1..(Len(all) - 1) : all'[k] = IF k < i THEN all[k] ELSE all[k + 1]
    BY <1>1, <1>3, RemoveIs
  <2>3. DOMAIN all' = 1..Len(all')
    BY <2>1, PiecesAre
  <2>4. ASSUME NEW j \in DOMAIN all', NEW k \in DOMAIN all', all'[j] = all'[k]
        PROVE  j = k
    <3>1. /\ j \in Nat /\ k \in Nat /\ i \in Nat
          /\ j \in 1..(Len(all) - 1) /\ k \in 1..(Len(all) - 1)
      BY <1>1, <2>1, <2>3
    <3> DEFINE From(n) == IF n < i THEN n ELSE n + 1
    <3>2. ASSUME NEW n \in 1..(Len(all) - 1)
          PROVE  From(n) \in 1..Len(all) /\ all'[n] = all[From(n)]
      <4>1. From(n) \in 1..Len(all)
        BY <1>1, <3>1
      <4>2. all'[n] = all[From(n)]
        BY <2>2
      <4> QED
        BY <4>1, <4>2
    <3>3. From(j) \in 1..Len(all) /\ From(k) \in 1..Len(all) /\ all[From(j)] = all[From(k)]
      BY <2>4, <3>1, <3>2
    <3>4. From(j) = From(k)
      BY <1>1, <3>3 DEF IsInjective
    <3> QED
      BY <3>1, <3>4
  <2> QED
    BY <1>1, <2>1, <2>4 DEF Listed, IsInjective
<1> QED
  BY <1>2, <1>3 DEF UpstreamChanges

-----------------------------------------------------------------------------
(* The item in the buttons.                                                *)

\* What the item of every card is: the one found, but for its title and for the
\* fields that stay behind.
Travels(i) ==
  /\ i \in Item
  /\ i.id = Found.id /\ i.media = Found.media /\ i.date = Found.date
  /\ Worn(i.title)

\* A title is worn by every separator that becomes a blank.
LEMMA WornAgain ==
  ASSUME NEW t \in Text, Worn(t), NEW old \in Separators
  PROVE  Blanked(t, old) \in Text /\ Worn(Blanked(t, old))
<1>1. /\ Blanked(t, old) \in Text /\ Len(Blanked(t, old)) = Len(t)
      /\ \A i \in 1..Len(t) : Blanked(t, old)[i] = (IF t[i] = old THEN " " ELSE t[i])
  BY BlankedIs
<1>2. DOMAIN t = 1..Len(t) /\ DOMAIN Blanked(t, old) = 1..Len(Blanked(t, old))
  BY <1>1, PiecesAre DEF Text
<1> QED
  BY <1>1, <1>2 DEF Worn

LEMMA CleanedIsWorn ==
  ASSUME NEW t \in Text, Worn(t)
  PROVE  Worn(CleanField(t))
<1>1. "|" \in Separators /\ "\n" \in Separators /\ "\r" \in Separators
  BY DEF Separators
<1>2. Blanked(t, "|") \in Text /\ Worn(Blanked(t, "|"))
  BY <1>1, WornAgain
<1>3. Blanked(Blanked(t, "|"), "\n") \in Text /\ Worn(Blanked(Blanked(t, "|"), "\n"))
  BY <1>1, <1>2, WornAgain
<1>4. Worn(Blanked(Blanked(Blanked(t, "|"), "\n"), "\r"))
  BY <1>1, <1>3, WornAgain
<1> QED
  BY <1>4 DEF CleanField

\* The item travels through the buttons of the search and of the card,
LEMMA ThroughTheCard ==
  ASSUME NEW i, Travels(i)
  PROVE  Travels(DecodeTMDB(EncodeTMDB(i)))
<1>1. i.media \in Text /\ i.title \in Text /\ i.date \in Text
  BY ItemFields DEF Travels
<1>2. CleanField(i.media) = Found.media /\ CleanField(i.date) = Found.date
  BY <1>1, FoundAssumption, CleanFieldIs DEF Travels
<1>3. Worn(CleanField(i.title))
  BY <1>1, CleanedIsWorn DEF Travels
<1>4. /\ DecodeTMDB(EncodeTMDB(i)) \in Item
      /\ DecodeTMDB(EncodeTMDB(i)).id = i.id
      /\ DecodeTMDB(EncodeTMDB(i)).media = CleanField(i.media)
      /\ DecodeTMDB(EncodeTMDB(i)).title = CleanField(i.title)
      /\ DecodeTMDB(EncodeTMDB(i)).date = CleanField(i.date)
  BY TMDBIsRead DEF Travels
<1> QED
  BY <1>2, <1>3, <1>4 DEF Travels

\* and through those of the list and of a resource.
LEMMA ThroughTheList ==
  ASSUME NEW i, Travels(i)
  PROVE  Plain(i) /\ Travels(Carried(i))
<1>1. i \in Item /\ i.title \in Text /\ ";" \in Separators
  BY ItemFields DEF Travels, Separators
<1>2. Plain(i)
  BY <1>1, FoundAssumption DEF Travels, Plain
<1>3. Worn(Blanked(i.title, ";"))
  BY <1>1, WornAgain DEF Travels
<1>4. /\ Carried(i) \in Item
      /\ Carried(i).id = i.id /\ Carried(i).media = i.media /\ Carried(i).date = i.date
      /\ Carried(i).title = Blanked(i.title, ";")
  BY <1>1, CarriedIs
<1> QED
  BY <1>2, <1>3, <1>4 DEF Travels

-----------------------------------------------------------------------------
(* The invariant.                                                          *)

\* While the list is as it was, the card shows what the page of its buttons has.
ShownIsListed ==
  fresh => /\ items = Page(all, nav.category, nav.page).items
           /\ total = Page(all, nav.category, nav.page).total

\* A resource that is shown was on the page it was opened from.
OpenedWasShown == screen = "resource" => \E i \in DOMAIN items : items[i].id = opened

Browsing ==
  /\ TypeOK
  /\ Listed(all)
  /\ Travels(nav.item)
  /\ nav.page <= MaxNumber /\ total <= MaxNumber
  /\ OpenedWasShown
  /\ ShownIsListed

\* There are no more pages than numbers that can be read back.
LEMMA PagesAreNumbered ==
  ASSUME NEW list, Listed(list), NEW c, NEW page \in Nat
  PROVE  Page(list, c, page).total \in 1..MaxNumber
<1> DEFINE s == FilterAndSort(list, c)
<1>1. s \in Seq(Resource) /\ Len(s) = Cardinality(Kept(list, c))
  BY SortedIs DEF Listed
<1>2. Cardinality(Kept(list, c)) <= Len(list) /\ Len(list) <= MaxLen /\ Len(list) \in Nat
  BY KeptIs DEF Listed
<1>3. Page(list, c, page).total = TotalPages(s)
  BY PageIs DEF Listed
<1>4. TotalPages(s) \in Nat \ {0} /\ TotalPages(s) <= AtLeast(Len(s), 1) /\ Len(s) \in Nat
  BY <1>1, TotalPagesIs
<1>5. MaxLen \in 0..MaxNumber /\ MaxNumber \in Nat \ {0}
  BY ListingAssumption, CodecAssumption
<1> HIDE DEF s
<1> QED
  BY <1>1, <1>2, <1>3, <1>4, <1>5 DEF AtLeast

\* Where the buttons of a page may lead.
Target == [item : Item, page : 1..MaxNumber, category : Categories]

\* Showing a page keeps the invariant, whatever page it is.
LEMMA ShowStep ==
  ASSUME Browsing, NEW to \in Target, Travels(to.item), ShowResources(to)
  PROVE  Browsing' /\ nav' = to /\ all' = all /\ fresh'
<1> DEFINE result == Page(all, to.category, to.page)
<1>1. /\ screen' = "list" /\ nav' = to /\ items' = result.items /\ total' = result.total
      /\ opened' = << >> /\ fresh' = TRUE /\ all' = all
  BY DEF ShowResources
<1>2. to.page \in Nat \ {0} /\ to.page <= MaxNumber /\ to.item \in Item /\ to.category \in Categories
  BY CodecAssumption DEF Target
<1>3. result.items \in Seq(Resource) /\ Len(result.items) <= PageSize
  BY <1>2, PageIs DEF Browsing, Listed
<1>4. result.total \in 1..MaxNumber
  BY <1>2, PagesAreNumbered DEF Browsing
<1>5. /\ nav'.category = to.category /\ nav'.page = to.page
      /\ items' = Page(all', nav'.category, nav'.page).items
      /\ total' = Page(all', nav'.category, nav'.page).total
  BY <1>1
<1> HIDE DEF result
<1>6. TypeOK'
  <2>1. nav' \in [item : Item, page : Nat \ {0}, category : Categories]
    BY <1>1, CodecAssumption DEF Target
  <2>2. << >> \in Text
    BY DEF Text
  <2>3. total' \in Nat \ {0}
    BY <1>1, <1>4, CodecAssumption
  <2> QED
    BY <1>1, <1>3, <2>1, <2>2, <2>3 DEF TypeOK, Browsing
<1>7. Listed(all') /\ Travels(nav'.item)
  BY <1>1 DEF Browsing
<1>8. nav'.page <= MaxNumber /\ total' <= MaxNumber
  BY <1>1, <1>2, <1>4, CodecAssumption
<1>9. OpenedWasShown' /\ ShownIsListed'
  BY <1>1, <1>5 DEF OpenedWasShown, ShownIsListed
<1> QED
  BY <1>1, <1>6, <1>7, <1>8, <1>9 DEF Browsing

\* A button of the list leads to the page and the category it was made for.
LEMMA PressLeads ==
  ASSUME Browsing, NEW page \in 1..MaxNumber, NEW c \in Categories, Resources(page, c)
  PROVE  Browsing' /\ nav'.page = page /\ nav'.category = c /\ all' = all /\ fresh'
<1> DEFINE to == [item |-> Carried(nav.item), page |-> page, category |-> c]
<1>1. nav.item \in Item /\ Plain(nav.item) /\ Travels(Carried(nav.item))
  BY ThroughTheList DEF Browsing, Travels
<1>2. page \in 0..MaxNumber
  BY CodecAssumption
<1>3. DecodeResourceNav(EncodeResourceNav(nav.item, page, c)) = to
  BY <1>1, <1>2, NavIsRead
<1>4. ShowResources(to)
  BY <1>3 DEF Resources
<1>5. to \in Target /\ Travels(to.item) /\ to.page = page /\ to.category = c
  BY <1>1 DEF Target, Travels
<1> HIDE DEF to
<1>6. Browsing' /\ nav' = to /\ all' = all /\ fresh'
  BY <1>4, <1>5, ShowStep
<1> QED
  BY <1>5, <1>6

\* A button that opens the list leads to its first page.
LEMMA OpenLeads ==
  ASSUME Browsing, MovieResources
  PROVE  /\ Browsing' /\ all' = all /\ fresh'
         /\ nav'.page = 1 /\ nav'.category = "default"
<1> DEFINE to == [item |-> DecodeTMDB(EncodeTMDB(nav.item)), page |-> 1, category |-> "default"]
<1>1. Travels(DecodeTMDB(EncodeTMDB(nav.item)))
  BY ThroughTheCard DEF Browsing
<1>2. to \in Target /\ Travels(to.item)
  BY <1>1, CodecAssumption DEF Target, Travels, Categories
<1>3. ShowResources(to) /\ to.page = 1 /\ to.category = "default"
  BY DEF MovieResources
<1> HIDE DEF to
<1>4. Browsing' /\ nav' = to /\ all' = all /\ fresh'
  BY <1>2, <1>3, ShowStep
<1> QED
  BY <1>3, <1>4

\* At first the user has found an item, and upstream lists what it may.
LEMMA BrowsingInit == Init => Browsing
<1> SUFFICES ASSUME Init PROVE Browsing
  OBVIOUS
<1>1. Listed(all)
  <2>1. PICK n \in 0..MaxLen : all \in [1..n -> Resource] /\ IsInjective(all)
    BY DEF Init
  <2>2. n \in Nat /\ n <= MaxLen
    BY ListingAssumption
  <2>3. all \in Seq(Resource)
    BY <2>1, <2>2, SeqDef
  <2>4. Len(all) = n
    BY <2>1, <2>2, <2>3
  <2> QED
    BY <2>1, <2>2, <2>3, <2>4 DEF Listed
<1>2. /\ nav = [item |-> Found, page |-> 1, category |-> "default"]
      /\ screen = "search" /\ opened = << >> /\ items = << >> /\ total = 1 /\ fresh = FALSE
  BY DEF Init
<1>3. Travels(nav.item)
  <2>1. Worn(Found.title)
    BY DEF Worn
  <2> QED
    BY <1>2, <2>1, FoundAssumption DEF Travels
<1>4. TypeOK
  <2>1. << >> \in Text /\ << >> \in Seq(Resource) /\ Len(<< >>) = 0
    BY DEF Text
  <2>2. nav \in [item : Item, page : Nat \ {0}, category : Categories]
    BY <1>2, FoundAssumption DEF Categories
  <2>3. Len(items) <= PageSize
    BY <1>2, <2>1, ListingAssumption
  <2> QED
    BY <1>1, <1>2, <2>1, <2>2, <2>3 DEF TypeOK, Listed
<1>5. nav.page <= MaxNumber /\ total <= MaxNumber
  BY <1>2, CodecAssumption
<1> QED
  BY <1>1, <1>2, <1>3, <1>4, <1>5 DEF Browsing, OpenedWasShown, ShownIsListed

\* The user's step to a page of the list.
LEMMA PressStep ==
  ASSUME Browsing,
         \/ OpenList \/ Previous \/ NextPage \/ BackToList \/ BackToMovie
         \/ \E c \in Categories : Switch(c)
  PROVE  Browsing' /\ all' = all /\ fresh'
<1>1. /\ nav.page \in Nat \ {0} /\ nav.page <= MaxNumber /\ nav.category \in Categories
      /\ total \in Nat \ {0} /\ total <= MaxNumber
  BY DEF Browsing, TypeOK
<1>2. CASE OpenList \/ BackToMovie
  BY <1>2, OpenLeads DEF OpenList, BackToMovie
<1>3. CASE Previous
  <2>1. nav.page - 1 \in 1..MaxNumber /\ Resources(nav.page - 1, nav.category)
    BY <1>1, <1>3, CodecAssumption DEF Previous
  <2> QED
    BY <1>1, <2>1, PressLeads
<1>4. CASE NextPage
  <2>1. nav.page + 1 \in 1..MaxNumber /\ Resources(nav.page + 1, nav.category)
    BY <1>1, <1>4, CodecAssumption DEF NextPage
  <2> QED
    BY <1>1, <2>1, PressLeads
<1>5. CASE BackToList
  <2>1. nav.page \in 1..MaxNumber /\ Resources(nav.page, nav.category)
    BY <1>1, <1>5, CodecAssumption DEF BackToList
  <2> QED
    BY <1>1, <2>1, PressLeads
<1>6. ASSUME NEW c \in Categories, Switch(c)
      PROVE  Browsing' /\ all' = all /\ fresh'
  <2>1. 1 \in 1..MaxNumber /\ Resources(1, c)
    BY <1>6, CodecAssumption DEF Switch
  <2> QED
    BY <2>1, PressLeads
<1> QED
  BY <1>2, <1>3, <1>4, <1>5, <1>6

\* The resource that is opened is one of those shown.
LEMMA OpenStep ==
  ASSUME Browsing, OpenResource
  PROVE  Browsing'
<1>1. PICK i \in DOMAIN items :
        LET detail == DecodeDetail(EncodeDetail(nav.item, nav.page, nav.category, items[i].id))
        IN  nav' = detail.nav /\ opened' = detail.id
  BY DEF OpenResource
<1>2. /\ screen = "list" /\ screen' = "resource"
      /\ all' = all /\ items' = items /\ total' = total /\ fresh' = fresh
  BY DEF OpenResource
<1>3. items[i] \in Resource
  <2>1. items \in Seq(Resource)
    BY DEF Browsing, TypeOK
  <2> QED
    BY <1>1, <2>1, PiecesAre
<1>4. items[i].id \in Text /\ "\n" \notin ToSet(items[i].id)
  BY <1>3, ListingAssumption
<1>5. /\ nav.page \in 0..MaxNumber /\ nav.page \in Nat \ {0} /\ nav.page <= MaxNumber
      /\ nav.category \in Categories
  BY CodecAssumption DEF Browsing, TypeOK
<1>6. nav.item \in Item /\ Plain(nav.item) /\ Travels(Carried(nav.item))
  BY ThroughTheList DEF Browsing, Travels
<1>7. DecodeDetail(EncodeDetail(nav.item, nav.page, nav.category, items[i].id)) =
        [nav |-> [item |-> Carried(nav.item), page |-> nav.page, category |-> nav.category],
         id |-> items[i].id]
  BY <1>4, <1>5, <1>6, DetailIsRead
<1>8. /\ nav' = [item |-> Carried(nav.item), page |-> nav.page, category |-> nav.category]
      /\ opened' = items[i].id
  BY <1>1, <1>7
<1>9. /\ nav'.item = Carried(nav.item) /\ nav'.page = nav.page
      /\ nav'.category = nav.category
  BY <1>8
<1>10. TypeOK'
  <2>1. nav' \in [item : Item, page : Nat \ {0}, category : Categories]
    BY <1>5, <1>6, <1>8 DEF Travels
  <2> QED
    BY <1>2, <1>4, <1>8, <2>1 DEF Browsing, TypeOK
<1>11. Travels(nav'.item) /\ Listed(all')
  BY <1>2, <1>6, <1>9 DEF Browsing
<1>12. OpenedWasShown'
  BY <1>1, <1>2, <1>8 DEF OpenedWasShown
<1>13. ShownIsListed'
  BY <1>2, <1>9 DEF Browsing, ShownIsListed
<1> QED
  BY <1>2, <1>5, <1>9, <1>10, <1>11, <1>12, <1>13 DEF Browsing

LEMMA BrowsingStep == Browsing /\ [Next]_vars => Browsing'
<1> SUFFICES ASSUME Browsing, [Next]_vars PROVE Browsing'
  OBVIOUS
<1>1. CASE UNCHANGED vars
  BY <1>1 DEF vars, Browsing, TypeOK, Listed, Travels, Worn, OpenedWasShown, ShownIsListed
<1>2. CASE ShowMovieCard
  <2>1. /\ screen' = "movie" /\ nav' = [nav EXCEPT !.item = DecodeTMDB(EncodeTMDB(@))]
        /\ all' = all /\ opened' = opened /\ items' = items /\ total' = total /\ fresh' = fresh
    BY <1>2 DEF ShowMovieCard
  <2>2. nav \in [item : Item, page : Nat \ {0}, category : Categories]
    BY DEF Browsing, TypeOK
  <2>3. Travels(DecodeTMDB(EncodeTMDB(nav.item)))
    BY ThroughTheCard DEF Browsing
  <2>4. /\ nav'.item = DecodeTMDB(EncodeTMDB(nav.item)) /\ nav'.page = nav.page
        /\ nav'.category = nav.category
    BY <2>1, <2>2
  <2>5. nav' \in [item : Item, page : Nat \ {0}, category : Categories]
    BY <2>1, <2>2, <2>3 DEF Travels
  <2>6. TypeOK'
    BY <2>1, <2>5 DEF Browsing, TypeOK
  <2> QED
    BY <2>1, <2>3, <2>4, <2>6 DEF Browsing, OpenedWasShown, ShownIsListed
<1>3. CASE \/ OpenList \/ Previous \/ NextPage \/ BackToList \/ BackToMovie
           \/ \E c \in Categories : Switch(c)
  BY <1>3, PressStep
<1>4. CASE OpenResource
  BY <1>4, OpenStep
<1>5. CASE UpstreamChanges
  <2>1. Listed(all')
    BY <1>5, ChangesAreListed DEF Browsing
  <2>2. /\ fresh' = FALSE /\ screen' = screen /\ nav' = nav /\ opened' = opened
        /\ items' = items /\ total' = total
    BY <1>5 DEF UpstreamChanges
  <2>3. TypeOK'
    BY <2>1, <2>2 DEF Browsing, TypeOK, Listed
  <2> QED
    BY <2>1, <2>2, <2>3 DEF Browsing, OpenedWasShown, ShownIsListed
<1> QED
  BY <1>1, <1>2, <1>3, <1>4, <1>5 DEF Next

LEMMA BrowsingHolds == Spec => []Browsing
  BY BrowsingInit, BrowsingStep, PTL DEF Spec

-----------------------------------------------------------------------------
(* The theorems.                                                           *)

\* Whatever the list was and however it changed, every screen is one of a page
\* of an existing category, with no more resources than fit on it.
THEOREM ListingTyped == Spec => []TypeOK
  BY BrowsingHolds, PTL DEF Browsing

\* However often the item travels, it asks for what the user has found.
THEOREM TitlesTravel == Spec => []TitleSurvives
<1>1. Browsing => TitleSurvives
  BY DEF Browsing, Travels, OpenedWasShown, TitleSurvives
<1> QED
  BY <1>1, BrowsingHolds, PTL

\* For any list, any page size and any category, the pages are the category.
THEOREM PagesCoverTheListing == Spec => []PagesAreTheListing
<1>1. ASSUME Browsing
      PROVE  PagesAreTheListing
  <2>1. all \in Seq(Resource) /\ IsInjective(all)
    BY <1>1 DEF Browsing, Listed
  <2>2. ASSUME NEW c \in Categories
        PROVE  /\ \A page \in 1..(LastPage(all, c) - 1) : Len(PageItems(all, c, page)) = PageSize
               /\ IsStableOrder(AllPages(all, c), all, c)
    BY <2>1, AllPagesAre, SortIsStable
  <2>3. ASSUME NEW r \in ToSet(all)
        PROVE  \E c \in Categories : InCategory(r, c)
    <3>1. PICK i \in 1..Len(all) : all[i] = r
      BY <2>1, PiecesAre
    <3>2. r \in Resource
      BY <2>1, <3>1, PiecesAre
    <3>3. r.rank \in 0..2 /\ r.iso \in BOOLEAN
      BY <3>2, ListingAssumption
    <3>4. CASE r.iso
      BY <3>4 DEF Categories, InCategory
    <3>5. CASE r.rank >= 2
      BY <3>5 DEF Categories, InCategory
    <3>6. CASE r.rank < 2 /\ ~r.iso
      BY <3>6 DEF Categories, InCategory
    <3> QED
      BY <3>3, <3>4, <3>5, <3>6
  <2> QED
    BY <2>2, <2>3 DEF PagesAreTheListing
<1> QED
  BY <1>1, BrowsingHolds, PTL

\* A press that leads to a page, while the list stays as it is, leaves it fresh.
LEMMA PressIsFresh ==
  ASSUME Browsing, [Next]_vars, screen' = "list", all' = all
  PROVE  fresh' \/ UNCHANGED vars
<1>1. ~ShowMovieCard /\ ~OpenResource
  BY DEF ShowMovieCard, OpenResource
<1>2. ~UpstreamChanges
  BY ChangesAreListed DEF Browsing
<1> QED
  BY <1>1, <1>2, PressStep DEF Next

\* No press leads to an empty page of a category that has resources.
THEOREM NoPageIsEmpty == Spec => NoEmptyPage
<1> DEFINE A == all' = all /\ screen' = "list" /\ items' = << >> => FilterAndSort(all, nav'.category) = << >>
<1>1. ASSUME Browsing, Browsing', [Next]_vars
      PROVE  [A]_vars
  <2> SUFFICES ASSUME ~(UNCHANGED vars), all' = all, screen' = "list", items' = << >>
               PROVE  FilterAndSort(all, nav'.category) = << >>
    OBVIOUS
  <2>1. items' = Page(all, nav'.category, nav'.page).items
    BY <1>1, PressIsFresh DEF Browsing, ShownIsListed
  <2>2. all \in Seq(Resource) /\ nav'.page \in Nat
    BY <1>1 DEF Browsing, TypeOK
  <2> QED
    BY <2>1, <2>2, PageIs
<1>2. Browsing /\ [Next]_vars => [A]_vars
  BY <1>1, BrowsingStep
<1> HIDE DEF A
<1>3. Spec => [][A]_vars
  BY <1>2, BrowsingHolds, PTL DEF Spec
<1> QED
  BY <1>3 DEF NoEmptyPage, A

\* Beyond the last page every page is the last one.
LEMMA BeyondTheLast ==
  ASSUME NEW list \in Seq(Resource), NEW c, NEW page \in Nat, NEW other \in Nat,
         page >= TotalPages(FilterAndSort(list, c)), other >= TotalPages(FilterAndSort(list, c))
  PROVE  Page(list, c, page).items = Page(list, c, other).items
<1> DEFINE s == FilterAndSort(list, c)
<1>1. s \in Seq(Resource)
  BY SortedIs
<1>2. TotalPages(s) \in Nat \ {0}
  BY <1>1, TotalPagesIs
<1>3. AtMost(AtLeast(page, 1), TotalPages(s)) = AtMost(AtLeast(other, 1), TotalPages(s))
  BY <1>2 DEF AtMost, AtLeast
<1> QED
  BY <1>3 DEF Page

\* The first page is the start of the category.
LEMMA FirstIsPrefix ==
  ASSUME NEW list \in Seq(Resource), NEW c
  PROVE  IsPrefix(Page(list, c, 1).items, FilterAndSort(list, c))
<1> DEFINE s == FilterAndSort(list, c)
           shown == Page(list, c, 1).items
<1>1. s \in Seq(Resource) /\ PageSize \in Nat
  BY SortedIs, ListingAssumption
<1>2. 1 \in 1..TotalPages(s) /\ 1 \in Nat
  BY <1>1, TotalPagesIs
<1>3. Clamped(s, 1) = 1
  BY <1>1, <1>2, ClampedIs
<1>4. (Clamped(s, 1) - 1) * PageSize = 0
  BY <1>1, <1>3
<1>5. /\ shown \in Seq(Resource) /\ 0 + Len(shown) <= Len(s)
      /\ \A i \in 1..Len(shown) : shown[i] = s[0 + i]
  BY <1>2, <1>4, PageIs
<1> HIDE DEF s, shown
<1>6. Len(shown) \in Nat /\ Len(s) \in Nat
  BY <1>1, <1>5
<1>7. Len(shown) <= Len(s) /\ \A i \in 1..Len(shown) : shown[i] = s[i]
  BY <1>5, <1>6
<1>8. IsPrefix(shown, s)
  BY <1>1, <1>5, <1>7, PrefixIs
<1> QED
  BY <1>8 DEF s, shown

\* Only "next" leads forward, by one page and never beyond the last; "previous"
\* leads back by one, and the way back from a resource to the page it was opened
\* on.  Every other press leads to a first page.
LEMMA WhereItLeads ==
  ASSUME Browsing, Next, screen \in {"list", "resource"}, screen' = "list", fresh'
  PROVE  /\ all' = all
         /\ screen = "resource" => nav'.page = nav.page /\ nav'.category = nav.category
         /\ \/ nav'.page = 1
            \/ nav'.category = nav.category /\ nav'.page \in {nav.page - 1, nav.page}
            \/ nav'.category = nav.category /\ nav'.page = nav.page + 1 /\ nav.page < total
         /\ nav'.page > nav.page /\ nav'.category = nav.category =>
              nav'.page = nav.page + 1 /\ nav.page < total
<1>1. /\ nav.page \in Nat \ {0} /\ nav.page <= MaxNumber /\ nav.category \in Categories
      /\ total \in Nat \ {0} /\ total <= MaxNumber /\ MaxNumber \in Nat
  BY CodecAssumption DEF Browsing, TypeOK
<1>2. ~ShowMovieCard /\ ~OpenResource /\ ~OpenList /\ ~UpstreamChanges
  BY DEF ShowMovieCard, OpenResource, OpenList, UpstreamChanges
<1>3. CASE BackToMovie
  <2>1. MovieResources /\ screen = "list"
    BY <1>3 DEF BackToMovie
  <2>2. all' = all /\ nav'.page = 1
    BY <2>1, OpenLeads
  <2> QED
    BY <1>1, <2>1, <2>2
<1>4. CASE Previous
  <2>1. /\ nav.page - 1 \in 1..MaxNumber /\ Resources(nav.page - 1, nav.category)
        /\ screen = "list"
    BY <1>1, <1>4 DEF Previous
  <2>2. all' = all /\ nav'.page = nav.page - 1 /\ nav'.category = nav.category
    BY <1>1, <2>1, PressLeads
  <2> QED
    BY <1>1, <2>1, <2>2
<1>5. CASE NextPage
  <2>1. /\ nav.page + 1 \in 1..MaxNumber /\ Resources(nav.page + 1, nav.category)
        /\ screen = "list" /\ nav.page < total
    BY <1>1, <1>5 DEF NextPage
  <2>2. all' = all /\ nav'.page = nav.page + 1 /\ nav'.category = nav.category
    BY <1>1, <2>1, PressLeads
  <2> QED
    BY <1>1, <2>1, <2>2
<1>6. CASE BackToList
  <2>1. nav.page \in 1..MaxNumber /\ Resources(nav.page, nav.category)
    BY <1>1, <1>6 DEF BackToList
  <2>2. all' = all /\ nav'.page = nav.page /\ nav'.category = nav.category
    BY <1>1, <2>1, PressLeads
  <2> QED
    BY <1>1, <2>2
<1>7. ASSUME NEW c \in Categories, Switch(c)
      PROVE  /\ all' = all /\ nav'.category # nav.category /\ nav'.page = 1 /\ screen = "list"
  <2>1. 1 \in 1..MaxNumber /\ Resources(1, c) /\ c # nav.category /\ screen = "list"
    BY <1>7, CodecAssumption DEF Switch
  <2>2. all' = all /\ nav'.category = c /\ nav'.page = 1
    BY <2>1, PressLeads
  <2> QED
    BY <2>1, <2>2
<1> QED
  BY <1>2, <1>3, <1>4, <1>5, <1>6, <1>7 DEF Next

\* While the list stays as it is, neighbouring pages show neighbouring
\* resources, beyond the last page there is only the last one, the way back shows
\* what was there, and any other press the start of its category.
THEOREM PressesLeadNextDoor == Spec => PressesAdjoin
<1> DEFINE F == FilterAndSort(all, nav.category)
           Rest(page) == SubSeq(F, (page - 1) * PageSize + 1, Len(F))
           same == nav'.category = nav.category
           Press == screen \in {"list", "resource"} /\ screen' = "list" /\ fresh /\ fresh'
           Back == screen = "resource" => same /\ nav'.page = nav.page
           Stay == same /\ nav'.page = nav.page => items' = items
           Forth == same /\ nav'.page > nav.page =>
                      IsPrefix(items \o items', Rest(nav.page)) /\ items' # << >>
           Down == same /\ nav'.page = nav.page - 1 =>
                     IF nav.page <= total THEN IsPrefix(items' \o items, Rest(nav'.page)) ELSE items' = items
           Start == ~same \/ nav'.page < nav.page - 1 =>
                      IsPrefix(items', FilterAndSort(all, nav'.category))
<1>1. ASSUME Browsing, Browsing', Next, Press
      PROVE  Back /\ Stay /\ Forth /\ Down /\ Start
  <2>1. /\ all \in Seq(Resource)
        /\ nav.page \in Nat \ {0} /\ nav'.page \in Nat \ {0}
    BY <1>1 DEF Browsing, TypeOK
  <2>2. /\ all' = all
        /\ screen = "resource" => nav'.page = nav.page /\ nav'.category = nav.category
        /\ \/ nav'.page = 1
           \/ nav'.category = nav.category /\ nav'.page \in {nav.page - 1, nav.page}
           \/ nav'.category = nav.category /\ nav'.page = nav.page + 1 /\ nav.page < total
        /\ nav'.page > nav.page /\ nav'.category = nav.category =>
             nav'.page = nav.page + 1 /\ nav.page < total
    BY <1>1, WhereItLeads
  <2>3. /\ items = Page(all, nav.category, nav.page).items
        /\ total = Page(all, nav.category, nav.page).total
        /\ items' = Page(all, nav'.category, nav'.page).items
    BY <1>1, <2>2 DEF Browsing, ShownIsListed
  <2>4. total = TotalPages(F) /\ total \in Nat
    <3>1. total = TotalPages(F)
      BY <2>1, <2>3, PageIs
    <3> QED
      BY <1>1, <3>1 DEF Browsing, TypeOK
  <2>5. Back /\ Stay
    BY <2>2, <2>3
  <2>6. Forth
    <3> SUFFICES ASSUME same, nav'.page > nav.page
                 PROVE  IsPrefix(items \o items', Rest(nav.page)) /\ items' # << >>
      OBVIOUS
    <3>1. nav'.page = nav.page + 1 /\ nav.page < TotalPages(F)
      BY <2>2, <2>4
    <3>2. items' = Page(all, nav.category, nav'.page).items
      BY <2>3
    <3> QED
      BY <2>1, <2>3, <3>1, <3>2, NeighboursAdjoin
  <2>7. Down
    <3> SUFFICES ASSUME same, nav'.page = nav.page - 1
                 PROVE  IF nav.page <= total THEN IsPrefix(items' \o items, Rest(nav'.page))
                        ELSE items' = items
      OBVIOUS
    <3>1. items' = Page(all, nav.category, nav'.page).items /\ nav.page = nav'.page + 1
      BY <2>1, <2>3
    <3>2. CASE nav.page <= total
      <4>1. nav'.page < TotalPages(F)
        BY <2>1, <2>4, <3>1, <3>2
      <4>2. IsPrefix(items' \o items, Rest(nav'.page))
        BY <2>1, <2>3, <3>1, <4>1, NeighboursAdjoin
      <4> QED
        BY <3>2, <4>2
    <3>3. CASE ~(nav.page <= total)
      <4>1. nav'.page >= TotalPages(F) /\ nav.page >= TotalPages(F)
        BY <2>1, <2>4, <3>1, <3>3
      <4>2. items' = items
        BY <2>1, <2>3, <3>1, <4>1, BeyondTheLast
      <4> QED
        BY <3>3, <4>2
    <3> QED
      BY <3>2, <3>3
  <2>8. Start
    <3> SUFFICES ASSUME ~same \/ nav'.page < nav.page - 1
                 PROVE  IsPrefix(items', FilterAndSort(all, nav'.category))
      OBVIOUS
    <3>1. nav'.page = 1
      BY <2>1, <2>2
    <3>2. items' = Page(all, nav'.category, 1).items
      BY <2>3, <3>1
    <3> QED
      BY <2>1, <3>2, FirstIsPrefix
  <2> QED
    BY <2>5, <2>6, <2>7, <2>8
<1> HIDE DEF Press
<1>2. Browsing /\ [Next]_vars => [Press => ShowsNextDoor]_vars
  <2>1. Back /\ Stay /\ Forth /\ Down /\ Start => ShowsNextDoor
    BY DEF ShowsNextDoor
  <2> HIDE DEF Back, Stay, Forth, Down, Start
  <2> QED
    BY <1>1, <2>1, BrowsingStep
<1>3. Spec => [][Press => ShowsNextDoor]_vars
  BY <1>2, BrowsingHolds, PTL DEF Spec
<1> QED
  BY <1>3 DEF PressesAdjoin, Press

=============================================================================
