------------------------- MODULE CardRendererProofs -------------------------
(***************************************************************************)
(* Theorems about CardRenderer, for any number of calls and any posters.   *)
(***************************************************************************)
EXTENDS CardRenderer, FiniteSetTheorems, SequenceTheorems, TLAPS

-----------------------------------------------------------------------------
(* The inductive invariant.                                                *)

\* No two calls are under way.
Alone == \A p, q \in Proc : pc[p] \notin Ended /\ pc[q] \notin Ended => p = q

\* What a call holds, or leaves, is what the card shows.
Faithful ==
  /\ (\A p \in Proc : pc[p] # "set") /\ active.id \in DOMAIN cards =>
       cards[active.id] = active.media
  /\ \A p \in Proc :
       /\ pc[p] \in {"edit", "fallback"} => ref[p] = active
       /\ pc[p] = "fallback" => ref[p].media = None
       /\ pc[p] = "set" /\ ref[p].id \in DOMAIN cards => cards[ref[p].id] = ref[p].media

\* How many cards there are beside the one named id.
Beside(id) == Cardinality(Main \ {id})

\* Beside the tracked card, or that of the call under way, there are no more cards
\* than were left behind; nobody sends a new card but in place of one that is gone
\* or already counted.
Accounted ==
  /\ (\A p \in Proc : pc[p] \notin {"send", "sendText", "set", "delete"}) => Beside(active.id) <= left
  /\ \A p \in Proc :
       /\ pc[p] \in {"send", "sendText"} => Beside(0) <= left
       /\ pc[p] \in {"set", "delete"} => Beside(ref[p].id) <= left

\* The only card is the tracked one, or that of the call under way, and whoever
\* makes a new one has a reason for it.
Single ==
  /\ \A p \in Proc : pc[p] \notin {"failed", "fallback", "sendText", "dead"}
  /\ created <= due
  /\ (\A p \in Proc : pc[p] \notin {"set", "delete"}) =>
       IF Main = {} THEN active = NoRef ELSE Main = {active.id}
  /\ \A p \in Proc :
       /\ pc[p] = "look" => created < due \/ Main # {}
       /\ pc[p] = "edit" => active # NoRef
       /\ pc[p] = "send" => created < due /\ Main = {}
       /\ pc[p] = "set" => Main = {ref[p].id}
       /\ pc[p] = "delete" => Main = {ref[p].id} /\ active = NoRef

CardInv ==
  /\ TypeOK /\ CaptionsGoToPhotos
  /\ Orderly => Alone /\ Faithful /\ Accounted
  /\ troubles = {} => Single

-----------------------------------------------------------------------------
(* Each part of it is kept.                                                *)

\* The types of what is counted.
Counted == created \in Nat /\ loose \subseteq 1..created /\ due \in Nat /\ left \in Nat

\* The variables keep their types.
LEMMA TypesKept == TypeOK /\ [Next]_vars => TypeOK'
<1> SUFFICES ASSUME TypeOK, [Next]_vars
             PROVE  TypeOK'
  OBVIOUS
<1> USE PosterAssumption
    DEF TypeOK, Counted, Ref, NoRef, Media, Steps, Ended, Troubles, Goto, Note, shared, counts
<1>0. troubles \subseteq Troubles /\ "overlap" \in Troubles
  OBVIOUS
<1>1. ASSUME NEW p \in Proc, NEW poster \in Media, Begin(p, poster)
      PROVE  TypeOK'
  <2>1. pc' \in [Proc -> Steps] /\ view' \in [Proc -> Media]
    BY <1>1 DEF Begin, NoteOverlap
  <2>2. ref' \in [Proc -> Ref'] /\ active' \in Ref'
    BY <1>1 DEF Begin, NoteOverlap
  <2>3. Counted' /\ troubles' \subseteq Troubles
    <3>1. troubles' = troubles \/ troubles' = troubles \union {"overlap"}
      BY <1>1 DEF Begin, NoteOverlap
    <3>2. due' \in {due, due + 1} /\ UNCHANGED <<created, loose, left>>
      BY <1>1 DEF Begin
    <3>3. troubles' \subseteq Troubles
      <4> HIDE DEF Troubles, TypeOK
      <4> QED
        BY <1>0, <3>1
    <3>4. Counted'
      BY <3>2
    <3> QED
      BY <3>3, <3>4
  <2>4. DOMAIN cards' \subseteq 1..created' /\ \A i \in DOMAIN cards' : cards'[i] \in Media
    BY <1>1 DEF Begin, NoteOverlap
  <2> HIDE DEF Ref, NoRef, Media, Steps, Ended, Troubles
  <2> QED
    BY <2>1, <2>2, <2>3, <2>4
<1>2. ASSUME NEW p \in Proc, Look(p) \/ NotModified(p) \/ EditRefused(p) \/ Fallback(p)
      PROVE  TypeOK'
  <2>1. pc' \in [Proc -> Steps] /\ view' \in [Proc -> Media]
    BY <1>2 DEF Look, NotModified, EditRefused, Fallback, AfterError
  <2>2. ref' \in [Proc -> Ref'] /\ active' \in Ref'
    BY <1>2 DEF Look, NotModified, EditRefused, Fallback, AfterError
  <2>3. Counted' /\ troubles' \subseteq Troubles
    BY <1>2 DEF Look, NotModified, EditRefused, Fallback, AfterError
  <2>4. DOMAIN cards' \subseteq 1..created' /\ \A i \in DOMAIN cards' : cards'[i] \in Media
    BY <1>2 DEF Look, NotModified, EditRefused, Fallback, AfterError
  <2> HIDE DEF Ref, NoRef, Media, Steps, Ended, Troubles
  <2> QED
    BY <2>1, <2>2, <2>3, <2>4
<1>3. ASSUME NEW p \in Proc, Edit(p)
      PROVE  TypeOK'
  BY <1>3 DEF Edit, Edited, Editable, EditOf, Show
<1>4. ASSUME NEW p \in Proc, EditUnanswered(p)
      PROVE  TypeOK'
  BY <1>4 DEF EditUnanswered, AfterError, Edited, Editable, EditOf, Show, Unanswered
<1>5. ASSUME NEW p \in Proc, PosterFails(p) \/ FallbackUnanswered(p) \/ SendPosterFails(p)
      PROVE  TypeOK'
  <2>1. /\ UNCHANGED <<view, ref, active, cards, created, loose, due>>
        /\ left' \in {left, left + 1}
    BY <1>5 DEF PosterFails, FallbackUnanswered, SendPosterFails
  <2>2. pc' \in [Proc -> Steps] /\ troubles' \subseteq Troubles
    BY <1>5 DEF PosterFails, FallbackUnanswered, SendPosterFails, AfterError, Unanswered
  <2>3. left' \in Nat
    BY <2>1
  <2> HIDE DEF Media, Steps, Ended, Troubles
  <2> QED
    BY <2>1, <2>2, <2>3
<1>6. ASSUME NEW p \in Proc, Send(p) \/ SendText(p)
      PROVE  TypeOK'
  <2>1. pc' \in [Proc -> Steps] /\ view' \in [Proc -> Media]
    BY <1>6 DEF Send, SendText, NewCard, Show
  <2>2. ref' \in [Proc -> Ref'] /\ active' \in Ref'
    BY <1>6 DEF Send, SendText, NewCard, Show
  <2>3. PICK media \in Media :
          /\ created' = created + 1 /\ UNCHANGED <<counts, troubles>>
          /\ cards' = [i \in DOMAIN cards \union {created + 1} |->
                        IF i = created + 1 THEN media ELSE cards[i]]
    <3>1. view[p] \in Media /\ None \in Media
      OBVIOUS
    <3> HIDE DEF TypeOK, Media
    <3> QED
      BY <1>6, <3>1 DEF Send, SendText, NewCard, Show
  <2>4. Counted' /\ troubles' \subseteq Troubles
    BY <2>3
  <2>5. DOMAIN cards' \subseteq 1..created' /\ \A i \in DOMAIN cards' : cards'[i] \in Media
    BY <2>3
  <2> HIDE DEF Ref, NoRef, Media, Steps, Ended, Troubles
  <2> QED
    BY <2>1, <2>2, <2>4, <2>5
<1>7. ASSUME NEW p \in Proc, SendUnanswered(p) \/ SendTextUnanswered(p)
      PROVE  TypeOK'
  BY <1>7 DEF SendUnanswered, SendTextUnanswered, NewCard, Show, Finish, Unanswered
<1>8. ASSUME NEW p \in Proc, SetActive(p)
      PROVE  TypeOK'
  BY <1>8 DEF SetActive, Finish
<1>9. ASSUME NEW p \in Proc, NEW id \in Main, Close(p, id)
      PROVE  TypeOK'
  <2>1. pc' \in [Proc -> Steps] /\ view' \in [Proc -> Media]
    BY <1>9 DEF Close, NoteOverlap
  <2>2. ref' \in [Proc -> Ref'] /\ active' \in Ref'
    BY <1>9 DEF Close, NoteOverlap, Main
  <2>3. Counted' /\ troubles' \subseteq Troubles
    BY <1>9 DEF Close, NoteOverlap
  <2>4. DOMAIN cards' \subseteq 1..created' /\ \A i \in DOMAIN cards' : cards'[i] \in Media
    BY <1>9 DEF Close, NoteOverlap
  <2> HIDE DEF Ref, NoRef, Media, Steps, Ended, Troubles
  <2> QED
    BY <2>1, <2>2, <2>3, <2>4
<1>10. ASSUME NEW p \in Proc, DeleteMessage(p) \/ DeleteUnanswered(p)
       PROVE  TypeOK'
  <2>1. /\ UNCHANGED <<active, created, counts>>
        /\ pc' \in [Proc -> Steps] /\ view' \in [Proc -> Media]
    BY <1>10 DEF DeleteMessage, DeleteUnanswered, Finish
  <2>2. ref' \in [Proc -> Ref'] /\ active' \in Ref'
    BY <1>10 DEF DeleteMessage, DeleteUnanswered, Finish
  <2>3. troubles' \subseteq Troubles
    BY <1>10 DEF DeleteMessage, DeleteUnanswered, Unanswered
  <2>4. DOMAIN cards' \subseteq 1..created' /\ \A i \in DOMAIN cards' : cards'[i] \in Media
    BY <1>10, <2>1 DEF DeleteMessage, DeleteUnanswered
  <2> HIDE DEF Ref, NoRef, Media, Steps, Ended, Troubles
  <2> QED
    BY <2>1, <2>2, <2>3, <2>4
<1>11. ASSUME NEW id \in DOMAIN cards, UserDeletes(id)
       PROVE  TypeOK'
  BY <1>11 DEF UserDeletes
<1>12. CASE Restart
  <2>1. /\ pc' \in [Proc -> Steps] /\ view' \in [Proc -> Media] /\ active' = NoRef
        /\ ref' = [p \in Proc |-> NoRef] /\ UNCHANGED <<cards, created, loose, due>>
    BY <1>12 DEF Restart
  <2>2. left' \in {left, left + 1}
    BY <1>12 DEF Restart
  <2>3. left' \in Nat /\ NoRef \in Ref' /\ troubles' \subseteq Troubles
    BY <1>12, <2>1, <2>2 DEF Restart
  <2> HIDE DEF Ref, NoRef, Media, Steps, Ended, Troubles
  <2> QED
    BY <2>1, <2>3
<1>13. CASE UNCHANGED vars
  BY <1>13 DEF vars
<1>14. ASSUME NEW p \in Proc, Post(p) \/ PostUnanswered(p)
       PROVE  TypeOK'
  <2>1. pc' \in [Proc -> Steps] /\ UNCHANGED <<view, active>>
    BY <1>14 DEF Post, PostUnanswered
  <2>2. /\ created' \in {created, created + 1} /\ UNCHANGED left /\ due' = due + 1 /\ ref' = ref
        /\ loose' \subseteq loose \union {created'}
    BY <1>14 DEF Post, PostUnanswered
  <2>3. \/ UNCHANGED <<cards, created, loose>>
        \/ /\ created' = created + 1
           /\ cards' = [i \in DOMAIN cards \union {created + 1} |->
                         IF i = created + 1 THEN None ELSE cards[i]]
           /\ loose' = loose \union {created + 1}
    BY <1>14 DEF Post, PostUnanswered, Show
  <2>4. DOMAIN cards' \subseteq 1..created' /\ \A i \in DOMAIN cards' : cards'[i] \in Media
    BY <2>3
  <2>5. Counted'
    BY <2>2, <2>3
  <2>6. ref' \in [Proc -> Ref'] /\ active' \in Ref'
    BY <2>1, <2>2
  <2>7. troubles' \subseteq Troubles
    BY <1>14 DEF Post, PostUnanswered, Unanswered
  <2> HIDE DEF Ref, NoRef, Media, Steps, Ended, Troubles
  <2> QED
    BY <2>1, <2>4, <2>5, <2>6, <2>7
<1> QED
  BY <1>1, <1>2, <1>3, <1>4, <1>5, <1>6, <1>7, <1>8, <1>9, <1>10, <1>11, <1>12, <1>13, <1>14
  DEF Next, Step

\* A photo stays a photo, and a reference to one is made by sending one.
LEMMA CaptionsKept == TypeOK /\ CaptionsGoToPhotos /\ [Next]_vars => CaptionsGoToPhotos'
<1> SUFFICES ASSUME TypeOK /\ CaptionsGoToPhotos, [Next]_vars
             PROVE  CaptionsGoToPhotos'
  OBVIOUS
<1> USE PosterAssumption DEF TypeOK, CaptionsGoToPhotos, Ref, NoRef, Media, Goto, Note, shared, counts
<1>1. ASSUME NEW p \in Proc, NEW poster \in Media, Begin(p, poster)
      PROVE  CaptionsGoToPhotos'
  BY <1>1 DEF Begin, NoteOverlap
<1>2. ASSUME NEW p \in Proc, Look(p) \/ NotModified(p) \/ EditRefused(p) \/ Fallback(p)
      PROVE  CaptionsGoToPhotos'
  BY <1>2 DEF Look, NotModified, EditRefused, Fallback, AfterError
<1>3. ASSUME NEW p \in Proc, Edit(p)
      PROVE  CaptionsGoToPhotos'
  BY <1>3 DEF Edit, Edited, Editable, EditOf, Show
<1>4. ASSUME NEW p \in Proc, EditUnanswered(p)
      PROVE  CaptionsGoToPhotos'
  BY <1>4 DEF EditUnanswered, AfterError, Edited, Editable, EditOf, Show, Unanswered
<1>5. ASSUME NEW p \in Proc, PosterFails(p) \/ FallbackUnanswered(p) \/ SendPosterFails(p)
      PROVE  CaptionsGoToPhotos'
  BY <1>5 DEF PosterFails, FallbackUnanswered, SendPosterFails, AfterError, Unanswered
<1>6. ASSUME NEW p \in Proc, Send(p) \/ SendText(p)
      PROVE  CaptionsGoToPhotos'
  BY <1>6 DEF Send, SendText, NewCard, Show
<1>7. ASSUME NEW p \in Proc, SendUnanswered(p) \/ SendTextUnanswered(p)
      PROVE  CaptionsGoToPhotos'
  BY <1>7 DEF SendUnanswered, SendTextUnanswered, NewCard, Show, Finish, Unanswered
<1>8. ASSUME NEW p \in Proc, SetActive(p)
      PROVE  CaptionsGoToPhotos'
  BY <1>8 DEF SetActive, Finish
<1>9. ASSUME NEW p \in Proc, NEW id \in Main, Close(p, id)
      PROVE  CaptionsGoToPhotos'
  BY <1>9 DEF Close, NoteOverlap
<1>10. ASSUME NEW p \in Proc, DeleteMessage(p) \/ DeleteUnanswered(p)
       PROVE  CaptionsGoToPhotos'
  BY <1>10 DEF DeleteMessage, DeleteUnanswered, Finish, Unanswered
<1>11. ASSUME NEW id \in DOMAIN cards, UserDeletes(id)
       PROVE  CaptionsGoToPhotos'
  BY <1>11 DEF UserDeletes
<1>12. CASE Restart
  BY <1>12 DEF Restart
<1>13. CASE UNCHANGED vars
  BY <1>13 DEF vars
<1>14. ASSUME NEW p \in Proc, Post(p) \/ PostUnanswered(p)
       PROVE  CaptionsGoToPhotos'
  BY <1>14 DEF Post, PostUnanswered, Show
<1> QED
  BY <1>1, <1>2, <1>3, <1>4, <1>5, <1>6, <1>7, <1>8, <1>9, <1>10, <1>11, <1>12, <1>13, <1>14
  DEF Next, Step

\* What went wrong is not forgotten.
LEMMA TroublesStay == [Next]_vars => troubles \subseteq troubles'
<1> SUFFICES ASSUME Next
             PROVE  troubles \subseteq troubles'
  BY DEF vars
<1> USE DEF Note, Unanswered, shared, counts
<1>1. ASSUME NEW p \in Proc, Step(p)
      PROVE  troubles \subseteq troubles'
  BY <1>1 DEF Step, Look, Edit, NotModified, EditRefused, PosterFails, EditUnanswered, Fallback,
              FallbackUnanswered, Send, SendPosterFails, SendUnanswered, SendText,
              SendTextUnanswered, SetActive, DeleteMessage, DeleteUnanswered
<1>2. CASE Restart \/ \E id \in DOMAIN cards : UserDeletes(id)
  BY <1>2 DEF Restart, UserDeletes
<1>3. ASSUME NEW p \in Proc, NEW poster \in Media, Begin(p, poster)
      PROVE  troubles \subseteq troubles'
  BY <1>3 DEF Begin, NoteOverlap
<1>4. ASSUME NEW p \in Proc, NEW id \in Main, Close(p, id)
      PROVE  troubles \subseteq troubles'
  BY <1>4 DEF Close, NoteOverlap
<1>5. ASSUME NEW p \in Proc, Post(p) \/ PostUnanswered(p)
      PROVE  troubles \subseteq troubles'
  BY <1>5 DEF Post, PostUnanswered
<1> QED
  BY <1>1, <1>2, <1>3, <1>4, <1>5 DEF Next

\* A call that begins while another is under way overlaps it.
LEMMA AloneKept ==
  ASSUME TypeOK, Alone, [Next]_vars, Orderly'
  PROVE  Alone'
<1> USE DEF Orderly, TypeOK, Alone, Ended, Goto, Note, Unanswered, shared, counts
<1>1. ASSUME NEW p \in Proc, NEW poster \in Media, Begin(p, poster)
      PROVE  Alone'
  BY <1>1 DEF Begin, NoteOverlap
<1>2. ASSUME NEW p \in Proc, NEW id \in Main, Close(p, id)
      PROVE  Alone'
  BY <1>2 DEF Close, NoteOverlap
<1>3. ASSUME NEW p \in Proc, Step(p)
      PROVE  Alone'
  <2>1. pc[p] \notin Ended /\ \E s \in Steps : pc' = [pc EXCEPT ![p] = s]
    BY <1>3 DEF Steps, Step, Look, Edit, NotModified, EditRefused, PosterFails, EditUnanswered,
                Fallback, FallbackUnanswered, Send, SendPosterFails, SendUnanswered, SendText,
                SendTextUnanswered, SetActive, DeleteMessage, DeleteUnanswered, Finish, AfterError
  <2> QED
    BY <2>1
<1>4. CASE Restart \/ \E id \in DOMAIN cards : UserDeletes(id)
  BY <1>4 DEF Restart, UserDeletes
<1>5. CASE UNCHANGED vars
  BY <1>5 DEF vars
<1>6. ASSUME NEW p \in Proc, Post(p) \/ PostUnanswered(p)
      PROVE  Alone'
  <2>1. \E s \in {"done", "failed"} : pc' = [pc EXCEPT ![p] = s]
    BY <1>6 DEF Post, PostUnanswered
  <2> QED
    BY <2>1
<1> QED
  BY <1>1, <1>2, <1>3, <1>4, <1>5, <1>6 DEF Next

\* A call holds what the card shows until it lets go of it.
LEMMA FaithfulKept ==
  ASSUME TypeOK, Alone, Faithful, [Next]_vars, Orderly'
  PROVE  Faithful'
<1> USE PosterAssumption
    DEF Orderly, TypeOK, Alone, Faithful, Ref, NoRef, Ended, Goto, Note, Unanswered, shared, counts
<1>1. ASSUME NEW p \in Proc, NEW poster \in Media, Begin(p, poster)
      PROVE  Faithful'
  BY <1>1 DEF Begin
<1>2. ASSUME NEW p \in Proc, NEW id \in Main, Close(p, id)
      PROVE  Faithful'
  <2>1. /\ pc[p] = "idle" /\ pc' = [pc EXCEPT ![p] = "delete"]
        /\ active' = NoRef /\ UNCHANGED cards
        /\ \A q \in Proc : q # p => ref'[q] = ref[q]
    BY <1>2 DEF Close
  <2>2. \A q \in Proc : pc[q] \in Ended
    BY <1>2 DEF Close, NoteOverlap
  <2>3. \A q \in Proc : pc'[q] \notin {"edit", "fallback", "set"}
    BY <2>1, <2>2
  <2>4. active'.id \notin DOMAIN cards'
    BY <2>1
  <2> QED
    BY <2>3, <2>4
<1>3. ASSUME NEW p \in Proc, Look(p)
      PROVE  Faithful'
  BY <1>3 DEF Look
<1>4. ASSUME NEW p \in Proc, Edit(p)
      PROVE  Faithful'
  BY <1>4 DEF Edit, Edited, Editable, EditOf, Show
<1>5. ASSUME NEW p \in Proc, NotModified(p)
      PROVE  Faithful'
  BY <1>5 DEF NotModified, Edited, Editable, EditOf
<1>6. ASSUME NEW p \in Proc, EditRefused(p) \/ PosterFails(p)
      PROVE  Faithful'
  BY <1>6 DEF EditRefused, PosterFails, AfterError
<1>7. ASSUME NEW p \in Proc, Fallback(p)
      PROVE  Faithful'
  BY <1>7 DEF Fallback
<1>8. ASSUME NEW p \in Proc, Send(p) \/ SendText(p)
      PROVE  Faithful'
  BY <1>8 DEF Send, SendText, NewCard, Show
<1>9. ASSUME NEW p \in Proc, SendPosterFails(p)
      PROVE  Faithful'
  BY <1>9 DEF SendPosterFails
<1>10. ASSUME NEW p \in Proc, SetActive(p)
       PROVE  Faithful'
  BY <1>10 DEF SetActive, Finish
<1>11. ASSUME NEW p \in Proc, DeleteMessage(p)
       PROVE  Faithful'
  BY <1>11 DEF DeleteMessage, Finish
<1>12. CASE \E p \in Proc : \/ EditUnanswered(p) \/ FallbackUnanswered(p) \/ SendUnanswered(p)
                            \/ SendTextUnanswered(p) \/ DeleteUnanswered(p) \/ PostUnanswered(p)
  <2>1. "lost" \in troubles'
    <3> HIDE DEF TypeOK, Alone, Faithful, Ref, NoRef, Ended
    <3> QED
      BY <1>12 DEF EditUnanswered, FallbackUnanswered, SendUnanswered, SendTextUnanswered,
                   DeleteUnanswered, PostUnanswered
  <2> QED
    BY <2>1
<1>13. CASE Restart
  BY <1>13 DEF Restart
<1>14. ASSUME NEW id \in DOMAIN cards, UserDeletes(id)
       PROVE  Faithful'
  BY <1>14 DEF UserDeletes
<1>15. ASSUME NEW p \in Proc, Post(p)
       PROVE  Faithful'
  <2>1. /\ pc[p] = "idle" /\ pc' = [pc EXCEPT ![p] = "done"] /\ UNCHANGED <<ref, active>>
        /\ \A i \in DOMAIN cards : cards'[i] = cards[i]
        /\ DOMAIN cards' = DOMAIN cards \union {created + 1}
    BY <1>15 DEF Post, Show
  <2>2. active.id # created + 1 /\ \A q \in Proc : ref[q].id # created + 1
    OBVIOUS
  <2> QED
    BY <2>1, <2>2
<1>16. CASE UNCHANGED vars
  BY <1>16 DEF vars
<1> QED
  BY <1>1, <1>2, <1>3, <1>4, <1>5, <1>6, <1>7, <1>8, <1>9, <1>10, <1>11, <1>12, <1>13, <1>14,
     <1>15, <1>16
  DEF Next, Step

\* Where nothing went wrong and p alone is under way, the other calls are over.
LEMMA OthersAreOver ==
  ASSUME Alone, Single, NEW p \in Proc,
         pc[p] \in Ended => \A q \in Proc : pc[q] \in Ended
  PROVE  /\ \A q \in Proc : q # p => pc[q] \in {"idle", "done"}
         /\ pc[p] \notin {"set", "delete"} =>
              IF Main = {} THEN active = NoRef ELSE Main = {active.id}
<1>1. \A q \in Proc : q # p => pc[q] \in {"idle", "done"}
  BY DEF Alone, Single, Ended
<1> QED
  BY <1>1 DEF Single

\* What p has to know for the card to stay the only one.
LEMMA SingleFor ==
  ASSUME NEW p \in Proc, NEW s \in {"look", "edit", "send", "set", "delete", "done"},
         pc \in [Proc -> Steps], pc' = [pc EXCEPT ![p] = s],
         \A q \in Proc : q # p => pc[q] \in {"idle", "done"},
         created' <= due',
         s \notin {"set", "delete"} =>
           IF Main' = {} THEN active' = NoRef ELSE Main' = {active'.id},
         s = "look" => created' < due' \/ Main' # {},
         s = "edit" => active' # NoRef,
         s = "send" => created' < due' /\ Main' = {},
         s = "set" => Main' = {ref'[p].id},
         s = "delete" => Main' = {ref'[p].id} /\ active' = NoRef
  PROVE  Single'
<1>1. \A q \in Proc : pc'[q] = IF q = p THEN s ELSE pc[q]
  OBVIOUS
<1>2. (\A q \in Proc : pc'[q] \notin {"set", "delete"}) =>
        IF Main' = {} THEN active' = NoRef ELSE Main' = {active'.id}
  BY <1>1
<1>3. \A q \in Proc :
        /\ pc'[q] \notin {"failed", "fallback", "sendText", "dead"}
        /\ pc'[q] = "look" => created' < due' \/ Main' # {}
        /\ pc'[q] = "edit" => active' # NoRef
        /\ pc'[q] = "send" => created' < due' /\ Main' = {}
        /\ pc'[q] = "set" => Main' = {ref'[q].id}
        /\ pc'[q] = "delete" => Main' = {ref'[q].id} /\ active' = NoRef
  BY <1>1
<1> QED
  BY <1>2, <1>3 DEF Single, NoRef

\* While nothing goes wrong, the only card is known to whoever makes the next.
LEMMA SingleKept ==
  ASSUME TypeOK, Alone, Faithful, Single, [Next]_vars, troubles' = {}
  PROVE  Single'
<1>0. /\ pc \in [Proc -> Steps] /\ view \in [Proc -> Media] /\ ref \in [Proc -> Ref]
      /\ created \in Nat /\ due \in Nat /\ active \in Ref
      /\ DOMAIN cards \subseteq 1..created /\ loose \subseteq 1..created
  BY DEF TypeOK
<1>1. ASSUME NEW p \in Proc, NEW poster \in Media, Begin(p, poster)
      PROVE  Single'
  <2>1. (\A q \in Proc : pc[q] \in Ended) /\ pc[p] = "idle"
    BY <1>1 DEF Begin, NoteOverlap, Note
  <2>2. /\ pc' = [pc EXCEPT ![p] = "look"] /\ UNCHANGED <<active, created, Main>>
        /\ due' = due + 1 \/ (due' = due /\ Main # {})
    BY <1>1 DEF Begin, Goto, Note, Main
  <2>3. created' <= due' /\ (created' < due' \/ Main' # {})
    BY <1>0, <2>2 DEF Single
  <2>4. /\ \A q \in Proc : q # p => pc[q] \in {"idle", "done"}
        /\ IF Main' = {} THEN active' = NoRef ELSE Main' = {active'.id}
    BY <2>1, <2>2, OthersAreOver
  <2> QED
    BY <1>0, <2>2, <2>3, <2>4, SingleFor
<1>2. ASSUME NEW p \in Proc, NEW id \in Main, Close(p, id)
      PROVE  Single'
  <2>1. (\A q \in Proc : pc[q] \in Ended) /\ pc[p] = "idle"
    BY <1>2 DEF Close, NoteOverlap, Note
  <2>2. /\ pc' = [pc EXCEPT ![p] = "delete"] /\ UNCHANGED <<Main, created, due>>
        /\ active' = NoRef /\ ref'[p].id = id
    BY <1>0, <1>2 DEF Close, Goto, Main, counts
  <2>3. Main = {id}
    BY <2>1, OthersAreOver
  <2>4. created <= due
    BY DEF Single
  <2> QED
    BY <1>0, <2>1, <2>2, <2>3, <2>4, OthersAreOver, SingleFor
<1>3. ASSUME NEW p \in Proc, Look(p)
      PROVE  Single'
  <2>1. /\ pc[p] = "look" /\ UNCHANGED <<active, Main, created, due>>
        /\ pc' = [pc EXCEPT ![p] = IF active = NoRef THEN "send" ELSE "edit"]
    BY <1>3 DEF Look, Goto, shared, counts, Main
  <2>2. created <= due /\ (created < due \/ Main # {})
    BY <2>1 DEF Single
  <2>3. Main = {} <=> active = NoRef
    BY <1>0, <2>1, OthersAreOver DEF Ended, NoRef, Main
  <2> QED
    BY <1>0, <2>1, <2>2, <2>3, OthersAreOver, SingleFor DEF Ended
<1>4. ASSUME NEW p \in Proc, pc[p] = "edit"
      PROVE  /\ Main = {active.id} /\ ref[p] = active
             /\ active.id \in DOMAIN cards /\ cards[active.id] = active.media
             /\ \A q \in Proc : q # p => pc[q] \in {"idle", "done"}
  <2>1. /\ \A q \in Proc : q # p => pc[q] \in {"idle", "done"}
        /\ Main = {active.id}
    BY <1>4, OthersAreOver DEF Single, Ended
  <2>2. active.id \in DOMAIN cards
    BY <2>1 DEF Main
  <2>3. ref[p] = active /\ cards[active.id] = active.media
    BY <1>4, <2>1, <2>2 DEF Faithful
  <2> QED
    BY <2>1, <2>2, <2>3
<1>5. ASSUME NEW p \in Proc, Edit(p) \/ NotModified(p)
      PROVE  Single'
  <2>1. /\ pc[p] = "edit" /\ pc' = [pc EXCEPT ![p] = "set"]
        /\ UNCHANGED <<active, created, due, Main>>
        /\ ref'[p].id = ref[p].id
    <3>1. CASE Edit(p)
      <4>1. DOMAIN cards' = DOMAIN cards
        BY <3>1 DEF Edit, Editable, Show
      <4> QED
        BY <1>0, <3>1, <4>1 DEF Edit, Goto, Ref, counts, Main
    <3>2. CASE NotModified(p)
      BY <3>2 DEF NotModified, Goto, shared, counts, Main
    <3> QED
      BY <1>5, <3>1, <3>2
  <2>2. Main' = {ref'[p].id}
    BY <1>4, <2>1
  <2>3. created <= due
    BY DEF Single
  <2> QED
    BY <1>0, <1>4, <2>1, <2>2, <2>3, SingleFor
<1>6. ASSUME NEW p \in Proc
      PROVE  ~EditRefused(p) /\ ~PosterFails(p) /\ ~SendPosterFails(p)
  <2>1. pc[p] = "edit" => Editable(p)
    BY <1>0, <1>4 DEF Editable, EditOf, Media, Ref
  <2> QED
    BY <2>1 DEF EditRefused, PosterFails, SendPosterFails, Note
<1>7. ASSUME NEW p \in Proc
      PROVE  ~Fallback(p) /\ ~SendText(p)
  BY DEF Single, Fallback, SendText
<1>8. ASSUME NEW p \in Proc, Send(p)
      PROVE  Single'
  <2>1. /\ pc[p] = "send" /\ pc' = [pc EXCEPT ![p] = "set"] /\ UNCHANGED <<active, due>>
        /\ created' = created + 1
        /\ Main' = Main \union {created + 1} /\ ref'[p].id = created + 1
    BY <1>0, <1>8 DEF Send, Goto, NewCard, Show, Main, counts
  <2>2. created < due /\ Main = {}
    BY <2>1 DEF Single
  <2>3. \A q \in Proc : q # p => pc[q] \in {"idle", "done"}
    BY <2>1, OthersAreOver DEF Ended
  <2>4. created' <= due' /\ Main' = {ref'[p].id}
    BY <1>0, <2>1, <2>2
  <2> QED
    BY <1>0, <2>1, <2>3, <2>4, SingleFor
<1>9. ASSUME NEW p \in Proc, SetActive(p)
      PROVE  Single'
  <2>1. /\ pc[p] = "set" /\ pc' = [pc EXCEPT ![p] = "done"]
        /\ UNCHANGED <<Main, created, due>> /\ active' = ref[p]
    BY <1>9 DEF SetActive, Finish, Goto, counts, Main
  <2>2. created <= due /\ Main = {ref[p].id}
    BY <2>1 DEF Single
  <2> QED
    BY <1>0, <2>1, <2>2, OthersAreOver, SingleFor DEF Ended
<1>10. ASSUME NEW p \in Proc, DeleteMessage(p)
       PROVE  Single'
  <2>1. /\ pc[p] = "delete" /\ UNCHANGED <<active, created, due>>
        /\ Main' = Main \ {ref[p].id}
        /\ pc' = [pc EXCEPT ![p] = IF ref[p].id \in DOMAIN cards THEN "done" ELSE "failed"]
    BY <1>10 DEF DeleteMessage, Finish, Goto, counts, Main
  <2>2. created <= due /\ Main = {ref[p].id} /\ active = NoRef /\ ref[p].id \in DOMAIN cards
    BY <2>1 DEF Single, Main
  <2> QED
    BY <1>0, <2>1, <2>2, OthersAreOver, SingleFor DEF Ended
<1>11. CASE \E p \in Proc : \/ EditUnanswered(p) \/ FallbackUnanswered(p) \/ SendUnanswered(p)
                            \/ SendTextUnanswered(p) \/ DeleteUnanswered(p) \/ PostUnanswered(p)
  BY <1>11 DEF EditUnanswered, FallbackUnanswered, SendUnanswered, SendTextUnanswered,
               DeleteUnanswered, PostUnanswered, Unanswered, Note
<1>12. CASE Restart \/ \E id \in DOMAIN cards : UserDeletes(id)
  BY <1>12 DEF Restart, UserDeletes, Note
<1>13. CASE UNCHANGED vars
  BY <1>13 DEF vars, Single, Main
<1>14. ASSUME NEW p \in Proc, Post(p)
       PROVE  Single'
  <2>1. /\ pc[p] = "idle" /\ pc' = [pc EXCEPT ![p] = "done"] /\ UNCHANGED <<active, ref>>
        /\ created' = created + 1 /\ due' = due + 1
        /\ DOMAIN cards' = DOMAIN cards \union {created + 1} /\ loose' = loose \union {created + 1}
    BY <1>14 DEF Post, Goto, Show
  <2>2. Main' = Main
    <3>1. created + 1 \notin DOMAIN cards
      BY <1>0
    <3> QED
      BY <2>1, <3>1 DEF Main
  <2>3. \A q \in Proc : pc'[q] = IF q = p THEN "done" ELSE pc[q]
    BY <1>0, <2>1
  <2>4. created' <= due' /\ (created < due => created' < due')
    BY <1>0, <2>1 DEF Single
  <2> QED
    BY <2>1, <2>2, <2>3, <2>4 DEF Single, NoRef
<1> QED
  BY <1>1, <1>2, <1>3, <1>5, <1>6, <1>7, <1>8, <1>9, <1>10, <1>11, <1>12, <1>13, <1>14 DEF Next, Step

\* Sets of message IDs are finite.
LEMMA MessagesFinite ==
  ASSUME NEW n \in Nat, NEW S, S \subseteq 1..n
  PROVE  IsFiniteSet(S) /\ Cardinality(S) \in Nat
<1>1. IsFiniteSet(1..n)
  BY FS_Interval
<1>2. IsFiniteSet(S)
  BY <1>1, FS_Subset
<1> QED
  BY <1>2, FS_CardinalityType

\* There are finitely many cards, and taking out one counts for one.
LEMMA CardsCounted ==
  ASSUME TypeOK
  PROVE  /\ \A i \in Nat : Beside(i) \in Nat
         /\ \A i \in Nat : i \in Main => Beside(0) = Beside(i) + 1
         /\ \A i \in Nat : i \notin Main => Beside(0) = Beside(i)
         /\ \A i \in Nat : \A S \in SUBSET (Main \ {i}) : Cardinality(S) <= Beside(i)
<1>1. Main \subseteq 1..created /\ created \in Nat
  BY DEF TypeOK, Main
<1>2. IsFiniteSet(Main)
  BY <1>1, MessagesFinite
<1>3. ASSUME NEW i \in Nat
      PROVE  /\ IsFiniteSet(Main \ {i})
             /\ Beside(i) = IF i \in Main THEN Cardinality(Main) - 1 ELSE Cardinality(Main)
  BY <1>2, FS_RemoveElement DEF Beside
<1>4. 0 \notin Main
  BY <1>1
<1>5. Cardinality(Main) \in Nat
  BY <1>2, FS_CardinalityType
<1>6. ASSUME NEW i \in Nat
      PROVE  Beside(i) \in Nat
  BY <1>3, FS_CardinalityType DEF Beside
<1>7. Beside(0) = Cardinality(Main)
  BY <1>3, <1>4
<1>8. \A i \in Nat : \A S \in SUBSET (Main \ {i}) : Cardinality(S) <= Beside(i)
  <2> TAKE i \in Nat
  <2> TAKE S \in SUBSET (Main \ {i})
  <2>1. IsFiniteSet(Main \ {i})
    BY <1>3
  <2> QED
    BY <2>1, FS_Subset DEF Beside
<1>9. \A i \in Nat : /\ i \in Main => Beside(0) = Beside(i) + 1
                     /\ i \notin Main => Beside(0) = Beside(i)
  <2> TAKE i \in Nat
  <2>1. Beside(i) = IF i \in Main THEN Cardinality(Main) - 1 ELSE Cardinality(Main)
    BY <1>3
  <2> QED
    BY <1>5, <1>7, <2>1
<1> QED
  BY <1>6, <1>8, <1>9

\* What p has to know for the cards to stay accounted for.
LEMMA AccountedFor ==
  ASSUME NEW p \in Proc, NEW s \in Steps,
         pc \in [Proc -> Steps], pc' = [pc EXCEPT ![p] = s],
         \A q \in Proc : q # p => pc[q] \in Ended,
         s \notin {"send", "sendText", "set", "delete"} =>
           Cardinality(Main' \ {active'.id}) <= left',
         s \in {"send", "sendText"} => Cardinality(Main' \ {0}) <= left',
         s \in {"set", "delete"} => Cardinality(Main' \ {ref'[p].id}) <= left'
  PROVE  Accounted'
<1>1. \A q \in Proc : pc'[q] = IF q = p THEN s ELSE pc[q]
  OBVIOUS
<1> QED
  BY <1>1 DEF Accounted, Beside, Ended

\* A call that is not at its new card, nor at its end, has the tracked one.
LEMMA TrackedCounts ==
  ASSUME Alone, Accounted, NEW p \in Proc,
         pc[p] \notin Ended \/ \A q \in Proc : pc[q] \in Ended
  PROVE  /\ \A q \in Proc : q # p => pc[q] \in Ended
         /\ pc[p] \notin {"send", "sendText", "set", "delete"} => Beside(active.id) <= left
<1>1. \A q \in Proc : q # p => pc[q] \in Ended
  BY DEF Alone
<1> QED
  BY <1>1 DEF Accounted, Ended

\* Cards are left behind for a reason only.
LEMMA AccountedKept ==
  ASSUME TypeOK, CaptionsGoToPhotos, Alone, Faithful, Accounted, [Next]_vars, Orderly'
  PROVE  Accounted'
<1>0. /\ pc \in [Proc -> Steps] /\ ref \in [Proc -> Ref] /\ active \in Ref
      /\ created \in Nat /\ DOMAIN cards \subseteq 1..created /\ loose \subseteq 1..created
      /\ left \in Nat /\ active.id \in Nat /\ \A p \in Proc : ref[p].id \in Nat
      /\ Main \subseteq 1..created
  BY DEF TypeOK, Ref, Main
<1>a. "overlap" \notin troubles' /\ "lost" \notin troubles'
  BY DEF Orderly
<1>b. active.id \in DOMAIN cards /\ (\A q \in Proc : pc[q] # "set") => cards[active.id] = active.media
  BY DEF Faithful
<1>c. ASSUME NEW p \in Proc
      PROVE  /\ pc[p] \in {"edit", "fallback"} => ref[p] = active
             /\ pc[p] \in {"send", "sendText"} => Beside(0) <= left
             /\ pc[p] \in {"set", "delete"} => Beside(ref[p].id) <= left
  BY DEF Faithful, Accounted
<1>1. ASSUME NEW p \in Proc, NEW poster \in Media, Begin(p, poster)
      PROVE  Accounted'
  <2>1. (\A q \in Proc : pc[q] \in Ended) /\ pc[p] = "idle"
    BY <1>a, <1>1 DEF Begin, NoteOverlap, Note
  <2>2. pc' = [pc EXCEPT ![p] = "look"] /\ UNCHANGED <<active, left, Main>>
    BY <1>1 DEF Begin, Goto, Main
  <2>3. Beside(active.id) <= left
    BY <2>1, TrackedCounts
  <2> QED
    BY <1>0, <2>1, <2>2, <2>3, AccountedFor DEF Beside, Steps
<1>2. ASSUME NEW p \in Proc, NEW id \in Main, Close(p, id)
      PROVE  Accounted'
  <2>1. (\A q \in Proc : pc[q] \in Ended) /\ pc[p] = "idle"
    BY <1>a, <1>2 DEF Close, NoteOverlap, Note
  <2>2. pc' = [pc EXCEPT ![p] = "delete"] /\ UNCHANGED <<left, Main>> /\ ref'[p].id = id
    BY <1>0, <1>2 DEF Close, Goto, Main, counts
  <2>3. Beside(active.id) <= left
    BY <2>1, TrackedCounts
  <2>4. Beside(id) <= Beside(active.id)
    BY <1>0, CardsCounted
  <2>5. Beside(id) <= left
    BY <1>0, <2>3, <2>4, CardsCounted
  <2> QED
    BY <1>0, <2>1, <2>2, <2>5, AccountedFor DEF Beside, Steps
<1>3. ASSUME NEW p \in Proc, Look(p)
      PROVE  Accounted'
  <2>1. /\ pc[p] = "look" /\ pc' = [pc EXCEPT ![p] = IF active = NoRef THEN "send" ELSE "edit"]
        /\ UNCHANGED <<active, left, Main>>
    BY <1>3 DEF Look, Goto, shared, counts, Main
  <2>2. Beside(active.id) <= left /\ \A q \in Proc : q # p => pc[q] \in Ended
    BY <2>1, TrackedCounts DEF Ended
  <2>3. active = NoRef => active.id = 0
    BY DEF NoRef
  <2> QED
    BY <1>0, <2>1, <2>2, <2>3, AccountedFor DEF Beside, Steps
<1>4. ASSUME NEW p \in Proc, Edit(p) \/ NotModified(p)
      PROVE  Accounted'
  <2>1. pc[p] = "edit" /\ pc' = [pc EXCEPT ![p] = "set"] /\ UNCHANGED <<active, left>>
    BY <1>4 DEF Edit, NotModified, Goto, shared, counts
  <2>2. Main' = Main
    BY <1>4 DEF Edit, NotModified, Editable, Show, shared, counts, Main
  <2>3. ref'[p].id = ref[p].id
    BY <1>0, <1>4 DEF Edit, NotModified, Ref
  <2>4. Beside(active.id) <= left /\ \A q \in Proc : q # p => pc[q] \in Ended
    BY <2>1, TrackedCounts DEF Ended
  <2>5. ref[p] = active
    BY <1>c, <2>1
  <2> QED
    BY <1>0, <2>1, <2>2, <2>3, <2>4, <2>5, AccountedFor DEF Beside, Steps
<1>5. ASSUME NEW p \in Proc, EditRefused(p)
      PROVE  Accounted'
  <2>1. /\ pc[p] = "edit" /\ ~Editable(p) /\ pc' = [pc EXCEPT ![p] = AfterError(p)]
        /\ UNCHANGED <<active, left, Main>>
    BY <1>5 DEF EditRefused, Goto, shared, counts, Main
  <2>2. Beside(active.id) <= left /\ \A q \in Proc : q # p => pc[q] \in Ended
    BY <2>1, TrackedCounts DEF Ended
  <2>3. ref[p] = active
    BY <1>c, <2>1
  <2>4. active.id \notin DOMAIN cards
    <3> SUFFICES ASSUME active.id \in DOMAIN cards
                 PROVE  FALSE
      OBVIOUS
    <3>1. \A q \in Proc : pc[q] # "set"
      BY <2>1, <2>2 DEF Ended
    <3>2. cards[active.id] = active.media
      BY <1>b, <3>1
    <3> QED
      BY <2>1, <2>3, <3>2 DEF Editable, EditOf
  <2>5. Beside(0) <= left
    BY <1>0, <2>2, <2>4, CardsCounted DEF Main
  <2>6. AfterError(p) \in {"send", "fallback"}
    BY DEF AfterError
  <2> QED
    BY <1>0, <2>1, <2>2, <2>5, <2>6, AccountedFor DEF Beside, Steps
<1>6. ASSUME NEW p \in Proc, PosterFails(p)
      PROVE  Accounted'
  <2>1. /\ pc[p] = "edit" /\ EditOf(p) = "media" /\ pc' = [pc EXCEPT ![p] = AfterError(p)]
        /\ UNCHANGED <<active, Main>>
        /\ left' = IF ref[p].media # None THEN left + 1 ELSE left
    BY <1>6 DEF PosterFails, Goto, Main
  <2>2. Beside(active.id) <= left /\ \A q \in Proc : q # p => pc[q] \in Ended
    BY <2>1, TrackedCounts DEF Ended
  <2>3. CASE ref[p].media # None
    <3>1. AfterError(p) = "send" /\ left' = left + 1
      BY <2>1, <2>3 DEF AfterError
    <3>2. Beside(0) <= left + 1
      BY <1>0, <2>2, CardsCounted
    <3> QED
      BY <1>0, <2>1, <2>2, <3>1, <3>2, AccountedFor DEF Beside, Steps
  <2>4. CASE ref[p].media = None
    <3>1. AfterError(p) = "fallback" /\ left' = left
      BY <2>1, <2>4 DEF AfterError
    <3> QED
      BY <1>0, <2>1, <2>2, <3>1, AccountedFor DEF Beside, Steps
  <2> QED
    BY <2>3, <2>4
<1>7. ASSUME NEW p \in Proc, Fallback(p)
      PROVE  Accounted'
  <2>1. /\ pc[p] = "fallback" /\ UNCHANGED <<active, ref, left, Main>>
        /\ pc' = [pc EXCEPT ![p] =
                   IF ref[p].id \in DOMAIN cards /\ cards[ref[p].id] = None THEN "set" ELSE "send"]
    BY <1>7 DEF Fallback, Goto, shared, counts, Main
  <2>2. Beside(active.id) <= left /\ \A q \in Proc : q # p => pc[q] \in Ended
    BY <2>1, TrackedCounts DEF Ended
  <2>3. ref[p] = active /\ ref[p].media = None
    BY <2>1 DEF Faithful
  <2>4. CASE active.id \in DOMAIN cards
    <3>1. cards[active.id] = None
      BY <1>b, <2>1, <2>2, <2>3, <2>4 DEF Ended
    <3> QED
      BY <1>0, <2>1, <2>2, <2>3, <2>4, <3>1, AccountedFor DEF Beside, Steps
  <2>5. CASE active.id \notin DOMAIN cards
    <3>1. Beside(0) <= left
      BY <1>0, <2>2, <2>5, CardsCounted DEF Main
    <3> QED
      BY <1>0, <2>1, <2>2, <2>3, <2>5, <3>1, AccountedFor DEF Beside, Steps
  <2> QED
    BY <2>4, <2>5
<1>8. ASSUME NEW p \in Proc, Send(p) \/ SendText(p)
      PROVE  Accounted'
  <2>1. /\ pc[p] \in {"send", "sendText"} /\ pc' = [pc EXCEPT ![p] = "set"]
        /\ UNCHANGED <<active, left>> /\ loose' = loose
        /\ DOMAIN cards' = DOMAIN cards \union {created + 1}
    BY <1>8 DEF Send, SendText, NewCard, Show, Goto, counts
  <2>2. ref'[p].id = created + 1
    BY <1>0, <1>8 DEF Send, SendText
  <2>3. Main' \ {created + 1} = Main \ {0}
    BY <1>0, <2>1 DEF Main
  <2>4. Beside(0) <= left /\ \A q \in Proc : q # p => pc[q] \in Ended
    BY <1>c, <2>1 DEF Alone, Ended
  <2> QED
    BY <1>0, <2>1, <2>2, <2>3, <2>4, AccountedFor DEF Beside, Steps
<1>9. ASSUME NEW p \in Proc, SendPosterFails(p)
      PROVE  Accounted'
  <2>1. /\ pc[p] = "send" /\ pc' = [pc EXCEPT ![p] = "sendText"] /\ UNCHANGED <<active, left, Main>>
    BY <1>9 DEF SendPosterFails, Goto, counts, Main
  <2>2. Beside(0) <= left /\ \A q \in Proc : q # p => pc[q] \in Ended
    BY <1>c, <2>1 DEF Alone, Ended
  <2> QED
    BY <1>0, <2>1, <2>2, AccountedFor DEF Beside, Steps
<1>10. ASSUME NEW p \in Proc, SetActive(p)
       PROVE  Accounted'
  <2>1. /\ pc[p] = "set" /\ pc' = [pc EXCEPT ![p] = "done"] /\ UNCHANGED <<left, Main>>
        /\ active' = ref[p]
    BY <1>10 DEF SetActive, Finish, Goto, counts, Main
  <2>2. Beside(ref[p].id) <= left /\ \A q \in Proc : q # p => pc[q] \in Ended
    BY <1>c, <2>1 DEF Alone, Ended
  <2> QED
    BY <1>0, <2>1, <2>2, AccountedFor DEF Beside, Steps
<1>11. ASSUME NEW p \in Proc, DeleteMessage(p)
       PROVE  Accounted'
  <2>1. /\ pc[p] = "delete" /\ UNCHANGED <<active, left>>
        /\ pc' = [pc EXCEPT ![p] = IF ref[p].id \in DOMAIN cards THEN "done" ELSE "failed"]
        /\ Main' = Main \ {ref[p].id}
    BY <1>11 DEF DeleteMessage, Finish, Goto, counts, Main
  <2>2. Beside(ref[p].id) <= left /\ \A q \in Proc : q # p => pc[q] \in Ended
    BY <1>c, <2>1 DEF Alone, Ended
  <2>3. Cardinality(Main' \ {active'.id}) <= Beside(ref[p].id)
    BY <1>0, <2>1, CardsCounted
  <2>4. Cardinality(Main' \ {active'.id}) \in Nat
    BY <1>0, <2>1, MessagesFinite
  <2>5. Cardinality(Main' \ {active'.id}) <= left'
    BY <1>0, <2>1, <2>2, <2>3, <2>4, CardsCounted
  <2> QED
    BY <1>0, <2>1, <2>2, <2>5, AccountedFor DEF Steps
<1>12. CASE \E p \in Proc : \/ EditUnanswered(p) \/ FallbackUnanswered(p) \/ SendUnanswered(p)
                            \/ SendTextUnanswered(p) \/ DeleteUnanswered(p) \/ PostUnanswered(p)
  BY <1>a, <1>12 DEF EditUnanswered, FallbackUnanswered, SendUnanswered, SendTextUnanswered,
                     DeleteUnanswered, PostUnanswered, Unanswered, Note
<1>13. CASE Restart
  <2>1. /\ UNCHANGED Main /\ active'.id = 0
        /\ left' = IF active.id \in DOMAIN cards \/ \E p \in Proc : pc[p] \notin Ended
                     THEN left + 1 ELSE left
        /\ \A p \in Proc : pc'[p] \in Ended
    BY <1>0, <1>13 DEF Restart, Main, NoRef, Ended
  <2>2. \A p \in Proc : pc[p] \notin Ended => \A q \in Proc : q # p => pc[q] \in Ended
    BY DEF Alone
  <2>3. Beside(0) <= left'
    <3>1. CASE \A p \in Proc : pc[p] \in Ended
      <4>1. Beside(active.id) <= left
        BY <3>1 DEF Accounted, Ended
      <4> QED
        BY <1>0, <2>1, <3>1, <4>1, CardsCounted DEF Main
    <3>2. CASE \E p \in Proc : pc[p] \notin Ended
      <4>1. PICK p \in Proc : pc[p] \notin Ended
        BY <3>2
      <4>2. \/ Beside(active.id) <= left \/ Beside(0) <= left \/ Beside(ref[p].id) <= left
        BY <1>c, <4>1, TrackedCounts
      <4>3. left' = left + 1
        BY <2>1, <3>2
      <4> QED
        BY <1>0, <4>2, <4>3, CardsCounted
    <3> QED
      BY <3>1, <3>2
  <2> QED
    BY <2>1, <2>3 DEF Accounted, Beside, Ended
<1>14. ASSUME NEW id \in DOMAIN cards, UserDeletes(id)
       PROVE  Accounted'
  <2>1. UNCHANGED <<pc, ref, active, left>> /\ Main' \subseteq Main
    BY <1>14 DEF UserDeletes, counts, Main
  <2>2. \A i \in Nat : Cardinality(Main' \ {i}) <= Beside(i) /\ Cardinality(Main' \ {i}) \in Nat
    <3> TAKE i \in Nat
    <3>1. Main' \ {i} \subseteq Main \ {i} /\ Main' \ {i} \subseteq 1..created
      BY <1>0, <2>1
    <3>2. Cardinality(Main' \ {i}) <= Beside(i)
      BY <3>1, CardsCounted
    <3>3. Cardinality(Main' \ {i}) \in Nat
      BY <1>0, <3>1, MessagesFinite
    <3> QED
      BY <3>2, <3>3
  <2>3. \A i \in Nat : Beside(i) <= left => Cardinality(Main' \ {i}) <= left'
    BY <1>0, <2>1, <2>2, CardsCounted
  <2> QED
    BY <1>0, <2>1, <2>3 DEF Accounted, Beside
<1>15. ASSUME NEW p \in Proc, Post(p)
       PROVE  Accounted'
  <2>1. /\ pc[p] = "idle" /\ pc' = [pc EXCEPT ![p] = "done"] /\ UNCHANGED <<active, ref, left>>
        /\ DOMAIN cards' = DOMAIN cards \union {created + 1} /\ loose' = loose \union {created + 1}
    BY <1>15 DEF Post, Goto, Show
  <2>2. Main' = Main
    BY <1>0, <2>1 DEF Main
  <2>3. \A q \in Proc : pc'[q] = IF q = p THEN "done" ELSE pc[q]
    BY <1>0, <2>1
  <2>4. \A i : Beside(i)' = Beside(i)
    BY <2>2 DEF Beside
  <2> QED
    BY <2>1, <2>3, <2>4 DEF Accounted, Ended
<1>16. CASE UNCHANGED vars
  BY <1>16 DEF vars, Accounted, Beside, Main
<1> QED
  BY <1>1, <1>2, <1>3, <1>4, <1>5, <1>6, <1>7, <1>8, <1>9, <1>10, <1>11, <1>12, <1>13, <1>14,
     <1>15, <1>16
  DEF Next, Step

-----------------------------------------------------------------------------
(* The theorems.                                                           *)

\* The invariant holds in every reachable state.
THEOREM CardInvHolds == Spec => []CardInv
<1>1. Init => CardInv
  <2> SUFFICES ASSUME Init
               PROVE  CardInv
    OBVIOUS
  <2>1. DOMAIN cards = {}
    BY EmptySeq, LenProperties DEF Init
  <2>2. TypeOK /\ CaptionsGoToPhotos
    BY <2>1, PosterAssumption DEF Init, TypeOK, CaptionsGoToPhotos, Ref, NoRef, Media, Steps
  <2>3. Alone /\ Faithful /\ Single
    BY <2>1 DEF Init, Alone, Faithful, Single, Main, NoRef, Ended
  <2>4. Main \ {active.id} = {} /\ left = 0 /\ \A p \in Proc : pc[p] = "idle"
    BY <2>1 DEF Init, Main
  <2>5. Accounted
    BY <2>4, FS_EmptySet DEF Accounted, Beside
  <2> QED
    BY <2>2, <2>3, <2>5 DEF CardInv
<1>2. CardInv /\ [Next]_vars => CardInv'
  <2> SUFFICES ASSUME CardInv, [Next]_vars
               PROVE  CardInv'
    OBVIOUS
  <2>1. TypeOK' /\ CaptionsGoToPhotos'
    BY TypesKept, CaptionsKept DEF CardInv
  <2>2. ASSUME Orderly'
        PROVE  Alone' /\ Faithful' /\ Accounted'
    <3>1. Orderly
      BY <2>2, TroublesStay DEF Orderly
    <3> QED
      BY <2>2, <3>1, AloneKept, FaithfulKept, AccountedKept DEF CardInv
  <2>3. ASSUME troubles' = {}
        PROVE  Single'
    <3>1. Orderly /\ troubles = {}
      BY <2>3, TroublesStay DEF Orderly
    <3> QED
      BY <2>3, <3>1, SingleKept DEF CardInv
  <2> QED
    BY <2>1, <2>2, <2>3 DEF CardInv
<1> QED
  BY <1>1, <1>2, PTL DEF Spec

\* The variables of the renderer keep their types.
THEOREM CardsTyped == Spec => []TypeOK
<1>1. CardInv => TypeOK
  BY DEF CardInv
<1> QED
  BY <1>1, CardInvHolds, PTL

\* Whatever is lost, refused or rendered by other calls, a caption is edited in
\* messages with a photo only (BotMessenger.Render).
THEOREM CaptionsFitTheirMessage == Spec => []CaptionsGoToPhotos
<1>1. CardInv => CaptionsGoToPhotos
  BY DEF CardInv
<1> QED
  BY <1>1, CardInvHolds, PTL

\* With calls one after the other and no trouble but missing posters, the tracked
\* reference has the poster of the card (renderOrCreate, BotMessenger.Render).
THEOREM TrackedIsShown == Spec => []TrackedAsShown
<1>1. CardInv => TrackedAsShown
  BY DEF CardInv, TrackedAsShown, Faithful
<1> QED
  BY <1>1, CardInvHolds, PTL

\* However many keywords, presses, closings and answers follow each other: without
\* trouble each adds the message it may add, and no other; and through restarts,
\* deleted cards and posters that fail, no card is in the chat untracked but those
\* that were left behind (renderOrCreate, closeCard, HandleCallback).
THEOREM CardsStayAccounted == Spec => []CardsAreAccounted
<1>1. CardInv => CardsAreAccounted
  <2> SUFFICES ASSUME CardInv
               PROVE  /\ troubles = {} => created <= due
                      /\ Orderly /\ (\A p \in Proc : pc[p] \in Ended) =>
                           Cardinality(Main \ {active.id}) <= left
    BY DEF CardsAreAccounted
  <2>1. troubles = {} => created <= due
    BY DEF CardInv, Single
  <2>2. Orderly /\ (\A p \in Proc : pc[p] \in Ended) => Cardinality(Main \ {active.id}) <= left
    BY DEF CardInv, Accounted, Beside, Ended
  <2> QED
    BY <2>1, <2>2
<1> QED
  BY <1>1, CardInvHolds, PTL
=============================================================================
