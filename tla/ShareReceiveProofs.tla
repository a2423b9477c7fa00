------------------------ MODULE ShareReceiveProofs ------------------------
(***************************************************************************)
(* Theorems about ShareReceive, for any items, shares and transfers, any   *)
(* page size, any number of pages and any number of changes of the share.  *)
(***************************************************************************)
EXTENDS ShareReceive, FiniteSetTheorems, SequenceTheorems, TLAPS

-----------------------------------------------------------------------------
(* The pages of a share.                                                   *)

\* Pages do not overlap.
LEMMA PagesApart ==
  ASSUME NEW n \in Nat, NEW q \in Nat, NEW r \in Nat, q < r
  PROVE  n * q + n <= r * n
<1>1. PICK d \in Nat : r = q + 1 + d
  <2>1. r - q - 1 \in Nat /\ r = q + 1 + (r - q - 1)
    OBVIOUS
  <2> QED
    BY <2>1
<1>2. r * n = n * q + n + d * n /\ d * n \in Nat
  BY <1>1
<1> QED
  BY <1>2

\* If the entry at a is on no later page than the entry at b, and b is within
\* the first k pages, then so is a.
LEMMA PagesInOrder ==
  ASSUME NEW n \in Nat \ {0}, NEW a \in Nat, NEW b \in Nat, NEW k \in Nat,
         b < k * n, a \div n <= b \div n
  PROVE  a < k * n
<1>1. /\ a \div n \in Nat /\ a < n * (a \div n) + n
      /\ b \div n \in Nat /\ n * (b \div n) <= b
  OBVIOUS
<1>3. b \div n < k
  <2>1. CASE k = b \div n \/ k < b \div n
    <3>1. k * n <= n * (b \div n)
      BY <1>1, <2>1, PagesApart
    <3> QED
      BY <1>1, <3>1
  <2> QED
    BY <1>1, <2>1
<1>4. n * (a \div n) + n <= k * n
  BY <1>1, <1>3, PagesApart
<1> QED
  BY <1>1, <1>4

\* Where a window begins and ends, and what it shows.
LEMMA WindowIs ==
  ASSUME NEW s \in Seq(Entry), NEW from \in Nat, PageSize \in Nat
  PROVE  /\ Window(s, from) \in Seq(Entry)
         /\ Len(Window(s, from)) <= PageSize
         /\ \A i \in 1..Len(Window(s, from)) : Window(s, from)[i] \in Entry
         /\ \A j \in 1..Len(s) : from < j /\ j <= from + PageSize =>
              /\ j - from \in 1..Len(Window(s, from))
              /\ Window(s, from)[j - from] = s[j]
<1> DEFINE to == IF from + PageSize < Len(s) THEN from + PageSize ELSE Len(s)
<1>1. /\ Len(s) \in Nat /\ to \in Nat /\ to <= Len(s) /\ to <= from + PageSize
      /\ \A j \in 1..Len(s) : j <= from + PageSize => j <= to
  OBVIOUS
<1>2. Window(s, from) = SubSeq(s, from + 1, to)
  BY DEF Window
<1> HIDE DEF to
<1>3. SubSeq(s, from + 1, to) \in Seq(Entry)
  BY <1>1, SubSeqProperties
<1>4. /\ Len(SubSeq(s, from + 1, to)) = (IF from + 1 <= to THEN to - from ELSE 0)
      /\ \A i \in 1..(to - from) : SubSeq(s, from + 1, to)[i] = s[from + i]
  BY <1>1
<1>5. Len(Window(s, from)) \in Nat /\ Len(Window(s, from)) <= PageSize
  BY <1>1, <1>2, <1>4
<1>6. \A i \in 1..Len(Window(s, from)) : Window(s, from)[i] \in Entry
  BY <1>2, <1>3
<1>7. ASSUME NEW j \in 1..Len(s), from < j, j <= from + PageSize
      PROVE  /\ j - from \in 1..Len(Window(s, from))
             /\ Window(s, from)[j - from] = s[j]
  <2>1. j <= to /\ from + 1 <= to /\ j - from \in 1..(to - from) /\ from + (j - from) = j
    BY <1>1, <1>7
  <2> QED
    BY <1>2, <1>4, <2>1
<1> QED
  BY <1>2, <1>3, <1>5, <1>6, <1>7

\* A page without a broken entry is full when it has as many entries as asked for.
LEMMA FullWithoutBroken ==
  ASSUME PageSize \in Nat, NEW w \in Seq(Entry), Len(w) = PageSize,
         \A i \in 1..Len(w) : w[i] # Broken
  PROVE  IsFull(w)
<1>1. {i \in DOMAIN w : w[i] # Broken} = 1..PageSize
  OBVIOUS
<1>2. Cardinality(1..PageSize) = PageSize
  BY FS_Interval
<1> QED
  BY <1>1, <1>2 DEF IsFull

\* A share without one of its entries is a share.
LEMMA RemoveTyped ==
  ASSUME NEW s \in Seq(Entry), NEW i \in 1..Len(s)
  PROVE  RemoveAt(s, i) \in Seq(Entry)
<1>1. /\ SubSeq(s, 1, i - 1) \in Seq(Entry)
      /\ SubSeq(s, i + 1, Len(s)) \in Seq(Entry)
  BY SubSeqProperties
<1> QED
  BY <1>1, ConcatProperties DEF RemoveAt

\* Where f and the share agree.
Begins(f, s) == Len(f) <= Len(s) /\ \A i \in 1..Len(f) : s[i] = f[i]

\* The page with number n shows its part of whatever the share began with.
LEMMA PageShows ==
  ASSUME PageSize \in Nat \ {0}, share \in Seq(Entry), NEW n \in Nat,
         NEW f \in Seq(Entry), Begins(f, share)
  PROVE  /\ SnapPage(n) \in Seq(Entry)
         /\ \A j \in 1..Len(f) :
              n * PageSize < j /\ j <= n * PageSize + PageSize => f[j] \in ToSet(SnapPage(n))
<1>1. n * PageSize \in Nat /\ PageSize \in Nat /\ 0 \in Nat
  OBVIOUS
<1>2. Window(share, 0) \in Seq(Entry) /\ Window(share, n * PageSize) \in Seq(Entry)
  BY <1>1, WindowIs
<1>3. ASSUME NEW j \in 1..Len(f), n * PageSize < j, j <= n * PageSize + PageSize
      PROVE  f[j] \in ToSet(SnapPage(n))
  <2>1. j \in 1..Len(share) /\ share[j] = f[j] /\ ~(n * PageSize >= Len(share))
    BY <1>1, <1>3 DEF Begins
  <2>2. SnapPage(n) = Window(share, n * PageSize)
    BY <2>1 DEF SnapPage
  <2>3. /\ j - n * PageSize \in 1..Len(SnapPage(n))
        /\ SnapPage(n)[j - n * PageSize] = f[j]
    BY <1>1, <1>3, <2>1, <2>2, WindowIs
  <2>4. DOMAIN SnapPage(n) = 1..Len(SnapPage(n))
    BY <1>2, <2>2
  <2> QED
    BY <2>3, <2>4 DEF ToSet
<1> QED
  BY <1>2, <1>3 DEF SnapPage

\* A page that is not full is the last that the reading needs.
LEMMA ShortPageEnds ==
  ASSUME PageSize \in Nat \ {0}, share \in Seq(Entry), NEW n \in Nat, ~IsFull(SnapPage(n)),
         NEW f \in Seq(Entry), Begins(f, share), NEW j \in 1..Len(f),
         \A b \in 1..Len(f) : f[b] = Broken => (j - 1) \div PageSize <= (b - 1) \div PageSize
  PROVE  j <= n * PageSize + PageSize
<1> SUFFICES ASSUME n * PageSize + PageSize < j
             PROVE  FALSE
  OBVIOUS
<1> DEFINE w == Window(share, n * PageSize)
<1>1. /\ n * PageSize \in Nat /\ PageSize \in Nat /\ PageSize # 0
      /\ Len(f) \in Nat /\ Len(share) \in Nat /\ j <= Len(f) /\ j \in Nat
  OBVIOUS
<1>2. n * PageSize + PageSize < Len(share) /\ SnapPage(n) = w
  BY <1>1 DEF Begins, SnapPage
<1>3. /\ w \in Seq(Entry) /\ Len(w) <= PageSize
      /\ \A i \in 1..Len(share) : n * PageSize < i /\ i <= n * PageSize + PageSize =>
           i - n * PageSize \in 1..Len(w) /\ w[i - n * PageSize] = share[i]
  BY <1>1, WindowIs
<1> HIDE DEF w
<1>4. Len(w) = PageSize
  <2>1. n * PageSize + PageSize \in 1..Len(share)
    BY <1>1, <1>2
  <2>2. PageSize \in 1..Len(w)
    <3>1. (n * PageSize + PageSize) - n * PageSize = PageSize
      BY <1>1
    <3> QED
      BY <1>1, <1>3, <2>1, <3>1
  <2>3. Len(w) \in Nat
    BY <1>3
  <2> QED
    BY <1>1, <1>3, <2>2, <2>3
<1>5. PICK i \in 1..PageSize : w[i] = Broken
  BY <1>1, <1>2, <1>3, <1>4, FullWithoutBroken
<1> DEFINE b == n * PageSize + i
<1>6. /\ b \in 1..Len(f) /\ b \in 1..Len(share) /\ b - n * PageSize = i
      /\ n * PageSize < b /\ b <= n * PageSize + PageSize
  BY <1>1, <1>2
<1>7. f[b] = Broken
  BY <1>3, <1>5, <1>6 DEF Begins
<1>8. j - 1 \in Nat /\ b - 1 \in Nat /\ n + 1 \in Nat /\ b - 1 < (n + 1) * PageSize
  <2>1. (n + 1) * PageSize = n * PageSize + PageSize
    OBVIOUS
  <2> QED
    BY <1>1, <1>6, <2>1
<1>9. j - 1 < (n + 1) * PageSize
  BY <1>6, <1>7, <1>8, PagesInOrder
<1> QED
  BY <1>1, <1>9

-----------------------------------------------------------------------------
(* Type correctness.  Another page is read only when one is left, and none *)
(* was read before the start.                                              *)

PagesAreCapped ==
  \A p \in Proc : /\ pc[p] = "idle" => page[p] = 0
                  /\ pc[p] = "snap" => page[p] < MaxPages

TypeInv == TypeOK /\ PagesAreCapped

\* At the start no page was read and nothing was found.
LEMMA TypeInit == Init => TypeInv
  BY ShareAssumption DEF Init, TypeInv, TypeOK, PagesAreCapped, Steps

\* What one page shows is of the right kind, and so are the IDs found in it.
LEMMA SnapTyped ==
  ASSUME TypeInv, NEW p \in Proc
  PROVE  SnapPage(page[p]) \in Seq(Entry) /\ IdsOf(SnapPage(page[p])) \subseteq Item
<1>1. /\ PageSize \in Nat /\ share \in Seq(Entry) /\ page[p] \in Nat
      /\ page[p] * PageSize \in Nat /\ 0 \in Nat
  BY ShareAssumption DEF TypeInv, TypeOK
<1>2. Window(share, 0) \in Seq(Entry) /\ Window(share, page[p] * PageSize) \in Seq(Entry)
  BY <1>1, WindowIs
<1>3. SnapPage(page[p]) \in Seq(Entry)
  BY <1>2 DEF SnapPage
<1>4. ToSet(SnapPage(page[p])) \subseteq Entry
  BY <1>3 DEF ToSet
<1> QED
  BY <1>3, <1>4 DEF IdsOf, Entry

\* Where Snap goes on, and what else it changes.
AfterPage(p) ==
  IF IsFull(SnapPage(page[p])) /\ page[p] + 1 < MaxPages THEN "snap"
  ELSE IF ids[p] \union IdsOf(SnapPage(page[p])) = {} THEN "failed" ELSE "post"

LEMMA SnapIs ==
  ASSUME NEW p \in Proc, Snap(p)
  PROVE  /\ pc[p] = "snap" /\ pc' = [pc EXCEPT ![p] = AfterPage(p)]
         /\ page' = [page EXCEPT ![p] = @ + 1]
         /\ ids' = [ids EXCEPT ![p] = ids[p] \union IdsOf(SnapPage(page[p]))]
         /\ UNCHANGED <<sent, reply, first, kept, owned, share, endless, changes>>
  BY DEF Snap, Goto, AfterPage, outside

LEMMA AfterPageIs ==
  ASSUME NEW p \in Proc
  PROVE  /\ AfterPage(p) \in {"snap", "failed", "post"}
         /\ AfterPage(p) = "snap" => IsFull(SnapPage(page[p])) /\ page[p] + 1 < MaxPages
         /\ AfterPage(p) = "post" => ~(IsFull(SnapPage(page[p])) /\ page[p] + 1 < MaxPages)
<1>1. CASE IsFull(SnapPage(page[p])) /\ page[p] + 1 < MaxPages
  BY <1>1 DEF AfterPage
<1>2. CASE ~(IsFull(SnapPage(page[p])) /\ page[p] + 1 < MaxPages)
  BY <1>2 DEF AfterPage
<1> QED
  BY <1>1, <1>2

\* Every step keeps the types: only Snap reads pages and finds IDs, and only
\* what was found is ever received.
LEMMA TypeStep == TypeInv /\ [Next]_vars => TypeInv'
<1> SUFFICES ASSUME TypeInv, [Next]_vars
             PROVE  TypeInv'
  OBVIOUS
<1> USE DEF TypeInv
<1>1. CASE UNCHANGED vars
  BY <1>1 DEF vars, outside, TypeOK, PagesAreCapped
<1>2. ASSUME NEW p \in Proc, Start(p) \/ StartFails(p)
      PROVE  TypeInv'
  <2>1. pc' \in [Proc -> Steps] /\ first' \in [Proc -> Seq(Entry)] /\ kept' \subseteq Proc
    BY <1>2 DEF Start, StartFails, Goto, TypeOK, Steps, Outcomes
  <2>2. page[p] = 0 /\ 0 < MaxPages
    BY <1>2, ShareAssumption DEF Start, StartFails, PagesAreCapped
  <2>3. UNCHANGED <<page, ids, sent, reply, owned, share, endless, changes>>
    BY <1>2 DEF Start, StartFails, outside
  <2>4. PagesAreCapped'
    BY <1>2, <2>2, <2>3 DEF Start, StartFails, Goto, TypeOK, PagesAreCapped
  <2> QED
    BY <2>1, <2>3, <2>4 DEF TypeOK
<1>3. ASSUME NEW p \in Proc, Snap(p)
      PROVE  TypeInv'
  <2>1. page[p] \in Nat /\ page[p] < MaxPages /\ MaxPages \in Nat
    BY <1>3, SnapIs, ShareAssumption DEF TypeOK, PagesAreCapped
  <2>2. page[p] + 1 \in 0..MaxPages /\ page' \in [Proc -> 0..MaxPages]
    BY <1>3, SnapIs, <2>1 DEF TypeOK
  <2>3. ids' \in [Proc -> SUBSET Item] /\ pc' \in [Proc -> Steps]
    <3>1. AfterPage(p) \in Steps
      BY AfterPageIs DEF Steps, Outcomes
    <3>2. ids[p] \union IdsOf(SnapPage(page[p])) \subseteq Item
      BY SnapTyped DEF TypeOK
    <3> QED
      BY <1>3, SnapIs, <3>1, <3>2 DEF TypeOK
  <2>4. PagesAreCapped'
    BY <1>3, SnapIs, AfterPageIs, <2>1 DEF PagesAreCapped, TypeOK
  <2> QED
    BY <1>3, SnapIs, <2>2, <2>3, <2>4 DEF TypeOK
<1>4. ASSUME NEW p \in Proc, SnapFails(p) \/ Post(p) \/ Conclude(p) \/ ConcludeFails(p)
      PROVE  TypeInv'
  BY <1>4 DEF SnapFails, Post, Conclude, ConcludeFails, Goto, TypeOK, PagesAreCapped,
              outside, Steps, Outcomes
<1>5. ASSUME NEW p \in Proc, Execute(p) \/ Refuse(p)
      PROVE  TypeInv'
  <2>1. {Accepted, AlreadyThere} \union Refusals \subseteq Answer
    BY DEF Accepted, AlreadyThere, Refusals, Answer
  <2>2. reply' \in [Proc -> SUBSET Answer]
    <3>1. CASE Execute(p)
      BY <2>1, <3>1 DEF Execute, TypeOK
    <3>2. CASE Refuse(p)
      BY <2>1, <3>2 DEF Refuse, TypeOK
    <3> QED
      BY <1>5, <3>1, <3>2
  <2>3. owned' \subseteq Item /\ sent' \subseteq Proc
    BY <1>5 DEF Execute, Refuse, TypeOK, outside
  <2> QED
    BY <1>5, <2>2, <2>3 DEF Execute, Refuse, TypeOK, PagesAreCapped, outside
<1>6. CASE ShareGrows \/ ShareShrinks
  <2>1. share' \in Seq(Entry)
    <3>1. CASE ShareGrows
      BY <3>1 DEF ShareGrows, TypeOK
    <3>2. CASE ShareShrinks
      BY <3>2, RemoveTyped DEF ShareShrinks, TypeOK
    <3> QED
      BY <1>6, <3>1, <3>2
  <2>2. changes' \in 0..MaxChanges
    BY <1>6, ShareAssumption DEF ShareGrows, ShareShrinks, TypeOK
  <2> QED
    BY <1>6, <2>1, <2>2 DEF ShareGrows, ShareShrinks, TypeOK, PagesAreCapped
<1>7. CASE Restart
  BY <1>7 DEF Restart, TypeOK, PagesAreCapped, outside, Steps, Outcomes
<1> QED
  BY <1>1, <1>2, <1>3, <1>4, <1>5, <1>6, <1>7 DEF Next, Step

\* A transfer is always well-typed and reads at most MaxPages pages, whatever
\* 115 answers (client.go snapRoot, "prevents endless paging").
THEOREM ReceiveTyped == Spec => []TypeOK
<1>1. TypeInv => TypeOK
  BY DEF TypeInv
<1> QED
  BY <1>1, TypeInit, TypeStep, PTL DEF Spec

-----------------------------------------------------------------------------
(* What a reading has found.  As long as the share only grows, it begins   *)
(* with what the transfer found; the pages read so far cover that much of  *)
(* it, and a reading that ended covers all that can be read.               *)

FirstIsPrefix == \A p \in kept : Begins(first[p], share)

PagesAreRead ==
  \A p \in kept : pc[p] = "snap" =>
    \A j \in 1..Len(first[p]) :
      j <= page[p] * PageSize /\ first[p][j] \in Item => first[p][j] \in ids[p]

HasRead == {"post", "await", "received", "already"}

RootIsRead == \A p \in kept : pc[p] \in HasRead => Reachable(first[p]) \subseteq ids[p]

ReadInv == TypeInv /\ FirstIsPrefix /\ PagesAreRead /\ RootIsRead

LEMMA ReadInit == Init => ReadInv
  BY TypeInit DEF Init, ReadInv, FirstIsPrefix, PagesAreRead, RootIsRead

\* A page that was read adds its part of the share to what was found.
LEMMA PageIsRead ==
  ASSUME ReadInv, NEW p \in kept, pc[p] = "snap",
         NEW j \in 1..Len(first[p]), first[p][j] \in Item,
         j <= page[p] * PageSize + PageSize
  PROVE  first[p][j] \in ids[p] \union IdsOf(SnapPage(page[p]))
<1>1. /\ PageSize \in Nat \ {0} /\ share \in Seq(Entry) /\ page[p] \in Nat
      /\ first[p] \in Seq(Entry) /\ Begins(first[p], share)
  BY ShareAssumption DEF ReadInv, TypeInv, TypeOK, FirstIsPrefix
<1>2. CASE j <= page[p] * PageSize
  BY <1>2 DEF ReadInv, PagesAreRead
<1>3. CASE page[p] * PageSize < j
  <2>1. first[p][j] \in ToSet(SnapPage(page[p]))
    BY <1>1, <1>3, PageShows
  <2>2. first[p][j] # NoId /\ first[p][j] # Broken
    BY ShareAssumption
  <2> QED
    BY <2>1, <2>2 DEF IdsOf
<1>4. page[p] * PageSize \in Nat /\ j \in Nat
  BY <1>1
<1> QED
  BY <1>2, <1>3, <1>4

\* The last page read completes what can be read.
LEMMA LastPageIsRead ==
  ASSUME ReadInv, NEW p \in kept, pc[p] = "snap",
         ~(IsFull(SnapPage(page[p])) /\ page[p] + 1 < MaxPages)
  PROVE  Reachable(first[p]) \subseteq ids[p] \union IdsOf(SnapPage(page[p]))
<1>1. /\ PageSize \in Nat \ {0} /\ share \in Seq(Entry) /\ page[p] \in Nat
      /\ first[p] \in Seq(Entry) /\ Begins(first[p], share)
      /\ MaxPages \in Nat /\ page[p] < MaxPages
  BY ShareAssumption DEF ReadInv, TypeInv, TypeOK, FirstIsPrefix, PagesAreCapped
<1>2. ASSUME NEW j \in 1..Len(first[p]), first[p][j] \in Item, j <= MaxPages * PageSize,
             \A b \in 1..Len(first[p]) : first[p][b] = Broken =>
               (j - 1) \div PageSize <= (b - 1) \div PageSize
      PROVE  j <= page[p] * PageSize + PageSize
  <2>1. CASE ~IsFull(SnapPage(page[p]))
    BY <1>1, <1>2, <2>1, ShortPageEnds
  <2>2. CASE ~(page[p] + 1 < MaxPages)
    <3>1. MaxPages = page[p] + 1
      BY <1>1, <2>2
    <3>2. (page[p] + 1) * PageSize = page[p] * PageSize + PageSize
      BY <1>1
    <3> QED
      BY <1>2, <3>1, <3>2
  <2> QED
    BY <2>1, <2>2
<1> QED
  BY <1>2, PageIsRead DEF Reachable

\* Steps that read nothing: transfers go on to the POST and its outcome, or fail.
ReadsNothing ==
  /\ UNCHANGED <<page, ids, first, kept, share>>
  /\ \A q \in Proc : \/ pc'[q] \in {pc[q], "failed", "dead"}
                     \/ pc[q] \in HasRead /\ pc'[q] \in HasRead

LEMMA QuietReads ==
  ASSUME ReadInv, TypeInv', ReadsNothing
  PROVE  ReadInv'
<1>1. FirstIsPrefix'
  BY DEF ReadInv, FirstIsPrefix, ReadsNothing, Begins
<1>2. \A q \in Proc : pc'[q] = "snap" => pc[q] = "snap"
  BY DEF ReadsNothing, HasRead
<1>3. \A q \in Proc : pc'[q] \in HasRead => pc[q] \in HasRead
  BY DEF ReadsNothing, HasRead
<1>4. kept \subseteq Proc
  BY DEF ReadInv, TypeInv, TypeOK
<1>5. PagesAreRead'
  BY <1>2, <1>4 DEF ReadInv, PagesAreRead, ReadsNothing
<1>6. RootIsRead'
  BY <1>3, <1>4 DEF ReadInv, RootIsRead, ReadsNothing, Reachable
<1> QED
  BY <1>1, <1>5, <1>6 DEF ReadInv

LEMMA ReadStep == ReadInv /\ [Next]_vars => ReadInv'
<1> SUFFICES ASSUME ReadInv, [Next]_vars
             PROVE  ReadInv'
  OBVIOUS
<1>t. TypeInv'
  BY TypeStep DEF ReadInv
<1>k. kept \subseteq Proc /\ pc \in [Proc -> Steps] /\ ids \in [Proc -> SUBSET Item]
  BY DEF ReadInv, TypeInv, TypeOK
<1>1. ASSUME NEW p \in Proc, Start(p)
      PROVE  ReadInv'
  <2>1. /\ first' = [first EXCEPT ![p] = share] /\ kept' = kept \union {p}
        /\ pc' = [pc EXCEPT ![p] = "snap"] /\ pc[p] = "idle"
        /\ UNCHANGED <<page, ids, share>>
    BY <1>1 DEF Start, Goto, outside
  <2>2. first \in [Proc -> Seq(Entry)] /\ share \in Seq(Entry) /\ page[p] = 0
    BY <2>1 DEF ReadInv, TypeInv, TypeOK, PagesAreCapped
  <2>3. Begins(share, share)
    BY <2>2 DEF Begins
  <2>4. FirstIsPrefix'
    BY <1>k, <2>1, <2>2, <2>3 DEF ReadInv, FirstIsPrefix, Begins
  <2>5. PageSize \in Nat /\ 0 * PageSize = 0 /\ \A j \in 1..Len(share) : ~(j <= 0)
    BY <2>2, ShareAssumption
  <2>6. PagesAreRead'
    BY <1>k, <2>1, <2>2, <2>5 DEF ReadInv, PagesAreRead
  <2>7. RootIsRead'
    BY <1>k, <2>1, <2>2 DEF ReadInv, RootIsRead, HasRead, Reachable
  <2> QED
    BY <1>t, <2>4, <2>6, <2>7 DEF ReadInv
<1>2. ASSUME NEW p \in Proc, Snap(p)
      PROVE  ReadInv'
  <2> DEFINE found == ids[p] \union IdsOf(SnapPage(page[p]))
  <2>1. /\ pc[p] = "snap" /\ UNCHANGED <<first, kept, share>>
        /\ pc' = [pc EXCEPT ![p] = AfterPage(p)]
        /\ page' = [page EXCEPT ![p] = @ + 1] /\ ids' = [ids EXCEPT ![p] = found]
    BY <1>2, SnapIs
  <2>2. FirstIsPrefix'
    BY <2>1 DEF ReadInv, FirstIsPrefix, Begins
  <2>3. page \in [Proc -> Nat] /\ (page[p] + 1) * PageSize = page[p] * PageSize + PageSize
    BY ShareAssumption DEF ReadInv, TypeInv, TypeOK
  <2>4. p \in kept =>
          \A j \in 1..Len(first[p]) :
            j <= (page[p] + 1) * PageSize /\ first[p][j] \in Item => first[p][j] \in found
    BY <2>1, <2>3, PageIsRead
  <2>5. p \in kept /\ AfterPage(p) \in HasRead => Reachable(first[p]) \subseteq found
    BY <2>1, LastPageIsRead, AfterPageIs DEF HasRead
  <2> HIDE DEF found
  <2>6. PagesAreRead'
    BY <1>k, <2>1, <2>3, <2>4 DEF ReadInv, PagesAreRead
  <2>7. RootIsRead'
    BY <1>k, <2>1, <2>5 DEF ReadInv, RootIsRead, Reachable
  <2> QED
    BY <1>t, <2>2, <2>6, <2>7 DEF ReadInv
<1>3. ASSUME NEW p \in Proc,
             StartFails(p) \/ SnapFails(p) \/ Post(p) \/ Conclude(p) \/ ConcludeFails(p)
      PROVE  ReadInv'
  <2>1. ReadsNothing
    BY <1>3, <1>k DEF StartFails, SnapFails, Post, Conclude, ConcludeFails, Goto, outside,
                      ReadsNothing, HasRead
  <2> QED
    BY <1>t, <2>1, QuietReads
<1>4. CASE (\E p \in Proc : Execute(p) \/ Refuse(p)) \/ UNCHANGED vars
  <2>1. ReadsNothing
    BY <1>4 DEF Execute, Refuse, vars, outside, ReadsNothing
  <2> QED
    BY <1>t, <2>1, QuietReads
<1>5. CASE Restart
  <2>1. ReadsNothing
    BY <1>5, <1>k DEF Restart, outside, ReadsNothing
  <2> QED
    BY <1>t, <2>1, QuietReads
<1>6. CASE ShareGrows
  <2>1. UNCHANGED <<pc, page, ids, first, kept>> /\ \E e : share' = Append(share, e)
    BY <1>6 DEF ShareGrows
  <2>2. share \in Seq(Entry)
    BY DEF ReadInv, TypeInv, TypeOK
  <2>3. Len(share') = Len(share) + 1 /\ \A i \in 1..Len(share) : share'[i] = share[i]
    BY <2>1, <2>2
  <2>4. \A p \in kept : first[p] \in Seq(Entry) /\ Len(first[p]) \in Nat /\ Len(share) \in Nat
    BY <2>2 DEF ReadInv, TypeInv, TypeOK
  <2>5. FirstIsPrefix'
    BY <2>1, <2>3, <2>4 DEF ReadInv, FirstIsPrefix, Begins
  <2>6. PagesAreRead' /\ RootIsRead'
    BY <2>1 DEF ReadInv, PagesAreRead, RootIsRead, Reachable
  <2> QED
    BY <1>t, <2>5, <2>6 DEF ReadInv
<1>7. CASE ShareShrinks
  <2>1. kept' = {}
    BY <1>7 DEF ShareShrinks
  <2> QED
    BY <1>t, <2>1 DEF ReadInv, FirstIsPrefix, PagesAreRead, RootIsRead
<1> QED
  BY <1>1, <1>2, <1>3, <1>4, <1>5, <1>6, <1>7 DEF Next, Step

-----------------------------------------------------------------------------
(* What an answer means.  115 is asked after the reading only, with IDs    *)
(* that do not change any more, so an answer that is no refusal says that  *)
(* they were received.                                                     *)

NotYetAsked ==
  \A p \in Proc : pc[p] \in {"idle", "snap", "post"} => p \notin sent /\ reply[p] = {}

AnswersAreTrue ==
  \A p \in Proc : \A a \in reply[p] :
    a \in Refusals \/ (a \in {Accepted, AlreadyThere} /\ ids[p] \subseteq owned)

SuccessIsOwned == \A p \in Proc : pc[p] \in {"received", "already"} => ids[p] \subseteq owned

AnswerInv == TypeInv /\ NotYetAsked /\ AnswersAreTrue /\ SuccessIsOwned

LEMMA AnswerInit == Init => AnswerInv
  BY TypeInit DEF Init, AnswerInv, NotYetAsked, AnswersAreTrue, SuccessIsOwned

\* What Conclude makes of an answer.
Verdict(a) ==
  IF a.status = "ok" /\ a.state THEN "received"
  ELSE IF Classify(a) = "already_received" THEN "already" ELSE "failed"

\* No refusal is taken for a success, whatever its text asks for.
LEMMA RefusalsFail == \A a \in Refusals : Verdict(a) = "failed"
<1> SUFFICES ASSUME NEW a \in Refusals
             PROVE  Verdict(a) = "failed"
  OBVIOUS
<1>1. CASE a = [status |-> "denied", state |-> FALSE, says |-> {"login"}]
  BY <1>1 DEF Verdict, Classify
<1>2. CASE a = [status |-> "limited", state |-> FALSE, says |-> {"again"}]
  BY <1>2 DEF Verdict, Classify
<1>3. CASE a = [status |-> "ok", state |-> FALSE, says |-> {"expired"}]
  BY <1>3 DEF Verdict, Classify
<1> QED
  BY <1>1, <1>2, <1>3 DEF Refusals

\* Steps after which the IDs and the answers are what they were, no transfer
\* has succeeded that had not, and none is asked for that was not.
AsksNothing ==
  /\ UNCHANGED <<ids, sent, reply, owned>>
  /\ \A q \in Proc : /\ pc'[q] \in {"received", "already"} => pc'[q] = pc[q]
                     /\ pc'[q] \in {"idle", "snap", "post"} => pc[q] \in {"idle", "snap", "post"}

LEMMA QuietAnswers ==
  ASSUME AnswerInv, TypeInv', AsksNothing
  PROVE  AnswerInv'
<1>1. NotYetAsked' /\ AnswersAreTrue'
  BY DEF AnswerInv, NotYetAsked, AnswersAreTrue, AsksNothing
<1>2. SuccessIsOwned'
  BY DEF AnswerInv, SuccessIsOwned, AsksNothing
<1> QED
  BY <1>1, <1>2 DEF AnswerInv

LEMMA AnswerStep == AnswerInv /\ [Next]_vars => AnswerInv'
<1> SUFFICES ASSUME AnswerInv, [Next]_vars
             PROVE  AnswerInv'
  OBVIOUS
<1>t. TypeInv'
  BY TypeStep DEF AnswerInv
<1>k. /\ pc \in [Proc -> Steps] /\ ids \in [Proc -> SUBSET Item]
      /\ reply \in [Proc -> SUBSET Answer]
  BY DEF AnswerInv, TypeInv, TypeOK
<1>1. ASSUME NEW p \in Proc, Start(p) \/ StartFails(p) \/ SnapFails(p) \/ ConcludeFails(p)
      PROVE  AnswerInv'
  <2>1. AsksNothing
    BY <1>1, <1>k DEF Start, StartFails, SnapFails, ConcludeFails, Goto, outside, AsksNothing
  <2> QED
    BY <1>t, <2>1, QuietAnswers
<1>2. CASE ShareGrows \/ ShareShrinks \/ Restart \/ UNCHANGED vars
  <2>1. AsksNothing
    BY <1>2, <1>k DEF ShareGrows, ShareShrinks, Restart, vars, outside, AsksNothing
  <2> QED
    BY <1>t, <2>1, QuietAnswers
<1>3. ASSUME NEW p \in Proc, Snap(p)
      PROVE  AnswerInv'
  <2>1. /\ pc[p] = "snap" /\ UNCHANGED <<sent, reply, owned>>
        /\ pc' = [pc EXCEPT ![p] = AfterPage(p)] /\ AfterPage(p) \in {"snap", "failed", "post"}
        /\ \A q \in Proc : q # p => ids'[q] = ids[q]
    BY <1>3, <1>k, SnapIs, AfterPageIs
  <2>2. p \notin sent /\ reply[p] = {}
    BY <2>1 DEF AnswerInv, NotYetAsked
  <2>3. NotYetAsked'
    BY <1>k, <2>1, <2>2 DEF AnswerInv, NotYetAsked
  <2>4. AnswersAreTrue'
    BY <2>1, <2>2 DEF AnswerInv, AnswersAreTrue
  <2>5. SuccessIsOwned'
    BY <1>k, <2>1 DEF AnswerInv, SuccessIsOwned
  <2> QED
    BY <1>t, <2>3, <2>4, <2>5 DEF AnswerInv
<1>4. ASSUME NEW p \in Proc, Post(p)
      PROVE  AnswerInv'
  <2>1. /\ pc' = [pc EXCEPT ![p] = "await"] /\ sent' = sent \union {p}
        /\ UNCHANGED <<ids, reply, owned>>
    BY <1>4 DEF Post, Goto, outside
  <2>2. NotYetAsked' /\ SuccessIsOwned' /\ AnswersAreTrue'
    BY <1>k, <2>1 DEF AnswerInv, NotYetAsked, SuccessIsOwned, AnswersAreTrue
  <2> QED
    BY <1>t, <2>2 DEF AnswerInv
<1>5. ASSUME NEW p \in Proc, Conclude(p)
      PROVE  AnswerInv'
  <2>1. PICK a \in reply[p] : pc' = [pc EXCEPT ![p] = Verdict(a)]
    BY <1>5 DEF Conclude, Goto, Verdict
  <2>2. pc[p] = "await" /\ UNCHANGED <<ids, sent, reply, owned>>
    BY <1>5 DEF Conclude, outside
  <2>3. Verdict(a) \in {"received", "already", "failed"}
    BY DEF Verdict
  <2>4. Verdict(a) \in {"received", "already"} => ids[p] \subseteq owned
    BY RefusalsFail DEF AnswerInv, AnswersAreTrue
  <2>5. NotYetAsked'
    BY <1>k, <2>1, <2>2, <2>3 DEF AnswerInv, NotYetAsked
  <2>6. AnswersAreTrue'
    BY <2>2 DEF AnswerInv, AnswersAreTrue
  <2>7. SuccessIsOwned'
    BY <1>k, <2>1, <2>2, <2>3, <2>4 DEF AnswerInv, SuccessIsOwned
  <2> QED
    BY <1>t, <2>5, <2>6, <2>7 DEF AnswerInv
<1>6. ASSUME NEW p \in Proc, Execute(p) \/ Refuse(p)
      PROVE  AnswerInv'
  <2>1. /\ p \in sent /\ sent' = sent \ {p} /\ UNCHANGED <<pc, ids>> /\ owned \subseteq owned'
        /\ \A q \in Proc : q # p => reply'[q] = reply[q]
    BY <1>6, <1>k DEF Execute, Refuse, outside
  <2>2. \A a \in reply'[p] :
          a \in Refusals \/ (a \in {Accepted, AlreadyThere} /\ ids[p] \subseteq owned')
    BY <1>6, <1>k DEF Execute, Refuse
  <2>3. NotYetAsked'
    BY <2>1 DEF AnswerInv, NotYetAsked
  <2>4. AnswersAreTrue' /\ SuccessIsOwned'
    BY <2>1, <2>2 DEF AnswerInv, AnswersAreTrue, SuccessIsOwned
  <2> QED
    BY <1>t, <2>3, <2>4 DEF AnswerInv
<1> QED
  BY <1>1, <1>2, <1>3, <1>4, <1>5, <1>6 DEF Next, Step

\* Whoever is told that his share was received, or was received before, owns all
\* of it that can be read, however many transfers of it overlap, are lost, are
\* refused or die, and however the share grows meanwhile (client.go Receive,
\* classify).
THEOREM SuccessOwnsTheShare == Spec => []SuccessIsComplete
<1>1. ReadInv /\ AnswerInv => SuccessIsComplete
  BY DEF ReadInv, AnswerInv, RootIsRead, HasRead, SuccessIsOwned, SuccessIsComplete
<1> QED
  BY <1>1, ReadInit, ReadStep, AnswerInit, AnswerStep, PTL DEF Spec

=============================================================================
