--------------------------- MODULE MigrationProofs ---------------------------
(***************************************************************************)
(* Theorems about Migration, for any users, spellings and files, and any   *)
(* number of imports and of changes made through the bot.                  *)
(***************************************************************************)
EXTENDS Migration, SequenceTheorems, TLAPS

-----------------------------------------------------------------------------
(* The inductive invariant.                                                *)

Looping == pc \in Running \union {"done"}

\* The files are those of an instance.
FilesTyped ==
  /\ list \in Seq(User \union {Bad})
  /\ DOMAIN notes \subseteq NoteKeys /\ notes \in [DOMAIN notes -> Notes]
  /\ DOMAIN accounts \subseteq AccountKeys /\ accounts \in [DOMAIN accounts -> Entries]

\* What each loop has still to visit.
LoopsInOrder ==
  /\ pos \in 1..(Len(list) + 1)
  /\ pc = "listNote" => pos <= Len(list) /\ list[pos] # Bad
  /\ Looping /\ pc \notin {"list", "listNote"} => pos = Len(list) + 1
  /\ Looping => \A i \in 1..(pos - 1) : list[i] # Bad
  /\ pc \in {"list", "listNote"} => todo = DOMAIN notes
  /\ pc \in {"notes", "notesNote"} => todo \subseteq DOMAIN notes
  /\ pc = "notesNote" => key \in DOMAIN notes \ (todo \union {Bad})
  /\ pc = "accounts" => todo \subseteq DOMAIN accounts
  /\ pc = "done" => todo = {}

\* The users of the list whom this import has authorized.
Passed(u) ==
  \E i \in 1..Len(list) : list[i] = u /\ (i < pos \/ (pc = "listNote" /\ i = pos))

\* The keys of the notes that were visited, and those whose note was written.
Visited ==
  {k \in DOMAIN notes :
     pc \in {"accounts", "done"} \/ (pc \in {"notes", "notesNote"} /\ k \notin todo)}

Noted == {k \in Visited : ~(pc = "notesNote" /\ k = key)}

\* The accounts that were written.
Given ==
  {k \in DOMAIN accounts :
     /\ accounts[k] # "empty"
     /\ pc = "done" \/ (pc = "accounts" /\ k \notin todo)}

\* No loop gets past a bad key.
BadStops == Bad \notin Visited \union Given

\* The import has seen whom it has authorized, and whom it has given a note.
SeenAreVisited ==
  Looping => seen = {u \in User : Passed(u) \/ \E k \in Noted : ID(k) = u}

\* So far the tables say what the files say.
WrittenSoFar ==
  Looping => \A u \in User \ changed :
    /\ Passed(u) => auth[u] = "granted"
    /\ ~Listed(u) /\ (\E k \in Visited : ID(k) = u) => auth[u] = "denied"
    /\ (\E k \in Noted : ID(k) = u) => \E k \in Noted : ID(k) = u /\ note[u] = notes[k]
    /\ (\E k \in Given : ID(k) = u) => \E k \in Given : ID(k) = u /\ config[u] = accounts[k]

ImportInv ==
  /\ TypeOK /\ FilesTyped /\ LoopsInOrder /\ BadStops /\ SeenAreVisited /\ WrittenSoFar

-----------------------------------------------------------------------------
(* Lemmas.                                                                 *)

\* What Import writes a row for is a user, however he is spelled.
LEMMA KeysMeanUsers ==
  \A k \in (NoteKeys \union AccountKeys) \ {Bad} : ID(k) \in User
<1> QED
  BY MigrationAssumption DEF ID

\* ensureUser takes no authorization away and gives none.
LEMMA EnsuredKeeps ==
  ASSUME TypeOK, NEW u \in User
  PROVE  /\ Ensured(u) \in [User -> {"absent", "denied", "granted"}]
         /\ \A v \in User : auth[v] # "absent" => Ensured(u)[v] = auth[v]
         /\ \A v \in User : Ensured(u)[v] = "granted" => auth[v] = "granted"
<1> QED
  BY DEF TypeOK, Ensured

\* Before the first import nothing has been seen or written.
LEMMA ImportInit == Init => ImportInv
<1> SUFFICES ASSUME Init
             PROVE  ImportInv
  OBVIOUS
<1>1. list \in Seq(User \union {Bad})
  <2>1. PICK n \in 0..MaxList : list \in [1..n -> User \union {Bad}]
    BY DEF Init, Lists
  <2>2. n \in Nat
    BY MigrationAssumption
  <2> QED
    BY <2>1, <2>2, SeqDef
<1>2. DOMAIN notes \subseteq NoteKeys /\ notes \in [DOMAIN notes -> Notes]
  BY DEF Init, Maps
<1>3. DOMAIN accounts \subseteq AccountKeys /\ accounts \in [DOMAIN accounts -> Entries]
  BY DEF Init, Maps
<1>4. Len(list) \in Nat
  BY <1>1, LenProperties
<1>5. /\ pc = "idle" /\ pos = 1 /\ todo = {} /\ seen = {}
      /\ auth = [u \in User |-> "absent"] /\ note = [u \in User |-> "empty"]
      /\ config = [u \in User |-> "none"] /\ changed = {} /\ changes = 0
  BY DEF Init
<1>6. TypeOK
  BY <1>4, <1>5, MigrationAssumption DEF TypeOK, Notes, Configs
<1>7. ~Looping
  BY <1>5 DEF Looping, Running
<1>8. LoopsInOrder
  BY <1>4, <1>5, <1>7 DEF LoopsInOrder
<1>9. BadStops /\ SeenAreVisited /\ WrittenSoFar
  BY <1>5, <1>7 DEF BadStops, SeenAreVisited, WrittenSoFar, Visited, Given
<1> QED
  BY <1>1, <1>2, <1>3, <1>6, <1>8, <1>9 DEF ImportInv, FilesTyped

\* Whatever ends an import early leaves no more than the types to keep.
LEMMA FailingKeeps ==
  ASSUME ImportInv, pc' = "failed", UNCHANGED <<files, pos, todo, seen, note, config>>,
         UNCHANGED <<changed, changes>>,
         auth' \in [User -> {"absent", "denied", "granted"}]
  PROVE  ImportInv'
<1>1. TypeOK' /\ FilesTyped'
  BY DEF ImportInv, TypeOK, FilesTyped, files, Notes, Configs
<1>2. ~Looping' /\ Visited' = {} /\ Given' = {}
  BY DEF Looping, Running, Visited, Given, files
<1>3. LoopsInOrder'
  BY <1>2 DEF ImportInv, LoopsInOrder, files
<1> QED
  BY <1>1, <1>2, <1>3 DEF ImportInv, BadStops, SeenAreVisited, WrittenSoFar

\* The loop over the list.
LEMMA ListKeeps == ImportInv /\ (Start \/ Authorize \/ ListNote \/ ListEnds) => ImportInv'
<1> SUFFICES ASSUME ImportInv, Start \/ Authorize \/ ListNote \/ ListEnds
             PROVE  ImportInv'
  OBVIOUS
<1>0. /\ TypeOK /\ FilesTyped /\ LoopsInOrder /\ SeenAreVisited /\ WrittenSoFar
      /\ Len(list) \in Nat
      /\ \A i \in 1..Len(list) : list[i] \in User \union {Bad}
  BY LenProperties, ElementOfSeq DEF ImportInv, FilesTyped
<1>1. FilesTyped'
  BY <1>0 DEF FilesTyped, Start, Authorize, ListNote, ListEnds, files
<1>2. CASE Start
  <2>1. TypeOK'
    BY <1>0, <1>2 DEF TypeOK, Start, Goto, files, tables, Running
  <2>2. LoopsInOrder'
    BY <1>0, <1>2 DEF LoopsInOrder, Start, Goto, files, Looping, Running
  <2>3. /\ Visited' = {} /\ Noted' = {} /\ Given' = {} /\ seen' = {}
        /\ \A u \in User : ~Passed(u)'
    BY <1>0, <1>2 DEF Visited, Noted, Given, Passed, Start, Goto, files
  <2> QED
    BY <1>1, <2>1, <2>2, <2>3 DEF ImportInv, BadStops, SeenAreVisited, WrittenSoFar
<1>3. CASE Authorize
  <2>1. PICK u \in User :
          /\ list[pos] = u /\ seen' = seen \union {u}
          /\ auth' = [auth EXCEPT ![u] = "granted"]
    <3>1. pos \in 1..Len(list) /\ list[pos] # Bad
      BY <1>0, <1>3 DEF Authorize, AtEntry, LoopsInOrder
    <3>2. list[pos] \in User
      BY <1>0, <3>1
    <3> QED
      BY <1>3, <3>2 DEF Authorize
  <2>2. /\ UNCHANGED <<list, notes, accounts, todo, key, note, config, changed, changes>>
        /\ pc = "list" /\ pos \in 1..Len(list)
        /\ \/ pc' = "listNote" /\ pos' = pos
           \/ pc' = "list" /\ pos' = pos + 1
    BY <1>0, <1>3 DEF Authorize, AtEntry, Goto, files, LoopsInOrder
  <2>3. TypeOK'
    BY <1>0, <2>1, <2>2 DEF TypeOK, Running
  <2>4. LoopsInOrder'
    <3>1. list[pos] # Bad
      BY <2>1, MigrationAssumption
    <3> QED
      BY <1>0, <2>2, <3>1 DEF LoopsInOrder, Looping, Running
  <2>5. /\ Visited' = {} /\ Noted' = {} /\ Given' = {} /\ Noted = {}
        /\ \A v \in User : Passed(v)' <=> Passed(v) \/ v = u
    <3>1. \A v \in User : Passed(v)' <=> Passed(v) \/ v = u
      BY <1>0, <2>1, <2>2 DEF Passed
    <3> QED
      BY <2>2, <3>1 DEF Visited, Noted, Given
  <2>6. SeenAreVisited'
    BY <1>0, <2>1, <2>2, <2>5 DEF SeenAreVisited, Looping, Running
  <2>7. WrittenSoFar'
    BY <1>0, <2>1, <2>2, <2>5 DEF WrittenSoFar, Looping, Running, TypeOK
  <2> QED
    BY <1>1, <2>3, <2>4, <2>5, <2>6, <2>7 DEF ImportInv, BadStops
<1>4. CASE ListNote
  <2>1. PICK u \in User :
          /\ list[pos] = u
          /\ auth' = Ensured(u) /\ note' = [note EXCEPT ![u] = NoteOf(u)]
    <3>1. pos \in 1..Len(list) /\ list[pos] # Bad
      BY <1>0, <1>4 DEF ListNote, LoopsInOrder
    <3>2. list[pos] \in User
      BY <1>0, <3>1
    <3> QED
      BY <1>4, <3>2 DEF ListNote
  <2>2. /\ UNCHANGED <<list, notes, accounts, todo, key, seen, config, changed, changes>>
        /\ pc = "listNote" /\ pos \in 1..Len(list) /\ pc' = "list" /\ pos' = pos + 1
    BY <1>0, <1>4 DEF ListNote, Goto, files, LoopsInOrder
  <2>3. TypeOK'
    <3>1. NoteOf(u) \in Notes
      BY <1>0 DEF NoteOf, Notes, FilesTyped
    <3> QED
      BY <1>0, <2>1, <2>2, <3>1, EnsuredKeeps DEF TypeOK, Running
  <2>4. LoopsInOrder'
    BY <1>0, <2>2 DEF LoopsInOrder, Looping, Running
  <2>5. /\ Visited' = {} /\ Noted' = {} /\ Given' = {} /\ Noted = {}
        /\ \A v \in User : Passed(v)' <=> Passed(v)
    <3>1. \A v \in User : Passed(v)' <=> Passed(v)
      BY <1>0, <2>2 DEF Passed
    <3> QED
      BY <2>2, <3>1 DEF Visited, Noted, Given
  <2>6. SeenAreVisited'
    BY <1>0, <2>2, <2>5 DEF SeenAreVisited, Looping, Running
  <2>7. WrittenSoFar'
    BY <1>0, <2>1, <2>2, <2>5, EnsuredKeeps DEF WrittenSoFar, Looping, Running
  <2> QED
    BY <1>1, <2>3, <2>4, <2>5, <2>6, <2>7 DEF ImportInv, BadStops
<1>5. CASE ListEnds
  <2>1. /\ UNCHANGED <<list, notes, accounts, todo, key, seen, pos, auth, note, config, changed, changes>>
        /\ pc = "list" /\ pos = Len(list) + 1 /\ pc' = "notes"
    BY <1>0, <1>5 DEF ListEnds, Goto, files, tables, LoopsInOrder
  <2>2. TypeOK'
    BY <1>0, <2>1 DEF TypeOK, Running
  <2>3. LoopsInOrder'
    BY <1>0, <2>1 DEF LoopsInOrder, Looping, Running
  <2>4. /\ Visited' = {} /\ Noted' = {} /\ Given' = {} /\ Noted = {}
        /\ \A v \in User : Passed(v)' <=> Passed(v)
    BY <1>0, <2>1 DEF Passed, Visited, Noted, Given, LoopsInOrder
  <2> QED
    BY <1>0, <1>1, <2>1, <2>2, <2>3, <2>4
    DEF ImportInv, BadStops, SeenAreVisited, WrittenSoFar, Looping, Running
<1> QED
  BY <1>2, <1>3, <1>4, <1>5

\* The loop over the notes.
LEMMA NotesKeep ==
  ImportInv /\ ((\E k \in todo : VisitNote(k)) \/ WriteNote \/ NotesEnd) => ImportInv'
<1> SUFFICES ASSUME ImportInv, (\E k \in todo : VisitNote(k)) \/ WriteNote \/ NotesEnd
             PROVE  ImportInv'
  OBVIOUS
<1>0. /\ TypeOK /\ FilesTyped /\ LoopsInOrder /\ BadStops /\ SeenAreVisited /\ WrittenSoFar
      /\ Len(list) \in Nat
  BY LenProperties DEF ImportInv, FilesTyped
<1>1. FilesTyped'
  BY <1>0 DEF FilesTyped, VisitNote, WriteNote, NotesEnd, files
<1>2. ASSUME NEW k \in todo, VisitNote(k)
      PROVE  ImportInv'
  <2>1. /\ UNCHANGED <<list, notes, accounts, pos, seen, note, config, changed, changes>>
        /\ pc = "notes" /\ pc' = "notesNote" /\ key' = k /\ todo' = todo \ {k}
        /\ k \in DOMAIN notes \ {Bad} /\ pos = Len(list) + 1
    BY <1>0, <1>2 DEF VisitNote, Goto, files, LoopsInOrder, Looping, Running
  <2>2. PICK u \in User :
          ID(k) = u /\ auth' = IF u \in seen THEN auth ELSE [auth EXCEPT ![u] = "denied"]
    BY <1>0, <1>2, <2>1, KeysMeanUsers DEF VisitNote, FilesTyped
  <2>3. TypeOK'
    BY <1>0, <2>1, <2>2 DEF TypeOK, Running
  <2>4. LoopsInOrder'
    BY <1>0, <2>1 DEF LoopsInOrder, Looping, Running
  <2>5. /\ Visited' = Visited \union {k} /\ Noted' = Noted /\ Noted = Visited /\ Given' = {}
        /\ \A v \in User : (Passed(v)' <=> Passed(v)) /\ (Passed(v) <=> Listed(v))
    <3>1. Visited' = Visited \union {k} /\ Noted' = Noted /\ Noted = Visited /\ Given' = {}
      BY <1>2, <2>1 DEF Visited, Noted, Given
    <3>2. \A v \in User : (Passed(v)' <=> Passed(v)) /\ (Passed(v) <=> Listed(v))
      BY <1>0, <2>1 DEF Passed, Listed
    <3> QED
      BY <3>1, <3>2
  <2>6. SeenAreVisited'
    BY <1>0, <2>1, <2>5 DEF SeenAreVisited, Looping, Running, ID
  <2>7. WrittenSoFar'
    <3> SUFFICES ASSUME NEW v \in User \ changed
                 PROVE  /\ Passed(v)' => auth'[v] = "granted"
                        /\ ~Listed(v)' /\ (\E l \in Visited' : ID(l) = v) => auth'[v] = "denied"
                        /\ (\E l \in Noted' : ID(l) = v) =>
                             \E l \in Noted' : ID(l) = v /\ note'[v] = notes'[l]
      BY <2>1, <2>5 DEF WrittenSoFar, ID
    <3>1. v \in seen <=> Passed(v) \/ \E l \in Noted : ID(l) = v
      BY <1>0, <2>1 DEF SeenAreVisited, Looping, Running
    <3>2. /\ Passed(v) => auth[v] = "granted"
          /\ ~Listed(v) /\ (\E l \in Visited : ID(l) = v) => auth[v] = "denied"
          /\ (\E l \in Noted : ID(l) = v) => \E l \in Noted : ID(l) = v /\ note[v] = notes[l]
      BY <1>0, <2>1 DEF WrittenSoFar, Looping, Running
    <3>3. Listed(v)' <=> Listed(v)
      BY <2>1 DEF Listed
    <3>4. auth'[v] = IF v = u /\ v \notin seen THEN "denied" ELSE auth[v]
      BY <1>0, <2>2 DEF TypeOK
    <3> QED
      BY <2>1, <2>2, <2>5, <3>1, <3>2, <3>3, <3>4
  <2> QED
    BY <1>0, <1>1, <2>1, <2>3, <2>4, <2>5, <2>6, <2>7 DEF ImportInv, BadStops
<1>3. CASE WriteNote
  <2>1. /\ UNCHANGED <<list, notes, accounts, pos, todo, key, config, changed, changes>>
        /\ pc = "notesNote" /\ pc' = "notes"
        /\ key \in DOMAIN notes \ {Bad} /\ key \notin todo /\ pos = Len(list) + 1
    BY <1>0, <1>3 DEF WriteNote, Goto, files, LoopsInOrder, Looping, Running
  <2>2. PICK u \in User :
          /\ ID(key) = u /\ auth' = Ensured(u) /\ seen' = seen \union {u}
          /\ note' = [note EXCEPT ![u] = notes[key]]
    BY <1>0, <1>3, <2>1, KeysMeanUsers DEF WriteNote, FilesTyped
  <2>3. TypeOK'
    BY <1>0, <2>1, <2>2, EnsuredKeeps DEF TypeOK, Running, FilesTyped
  <2>4. LoopsInOrder'
    BY <1>0, <2>1 DEF LoopsInOrder, Looping, Running
  <2>5. /\ Visited' = Visited /\ Noted' = Noted \union {key} /\ Noted' = Visited /\ Given' = {}
        /\ \A v \in User : Passed(v)' <=> Passed(v)
    <3>1. Visited' = Visited /\ Noted' = Noted \union {key} /\ Noted' = Visited /\ Given' = {}
      BY <2>1 DEF Visited, Noted, Given
    <3>2. \A v \in User : Passed(v)' <=> Passed(v)
      BY <1>0, <2>1 DEF Passed
    <3> QED
      BY <3>1, <3>2
  <2>6. SeenAreVisited'
    BY <1>0, <2>1, <2>2, <2>5 DEF SeenAreVisited, Looping, Running, ID
  <2>7. WrittenSoFar'
    <3> SUFFICES ASSUME NEW v \in User \ changed
                 PROVE  /\ Passed(v)' => auth'[v] = "granted"
                        /\ ~Listed(v)' /\ (\E l \in Visited' : ID(l) = v) => auth'[v] = "denied"
                        /\ (\E l \in Noted' : ID(l) = v) =>
                             \E l \in Noted' : ID(l) = v /\ note'[v] = notes'[l]
      BY <2>1, <2>5 DEF WrittenSoFar, ID
    <3>2. /\ Passed(v) => auth[v] = "granted"
          /\ ~Listed(v) /\ (\E l \in Visited : ID(l) = v) => auth[v] = "denied"
          /\ (\E l \in Noted : ID(l) = v) => \E l \in Noted : ID(l) = v /\ note[v] = notes[l]
      BY <1>0, <2>1 DEF WrittenSoFar, Looping, Running
    <3>3. Listed(v)' <=> Listed(v)
      BY <2>1 DEF Listed
    <3>4. note'[v] = IF v = u THEN notes[key] ELSE note[v]
      BY <1>0, <2>2 DEF TypeOK
    <3>5. auth[v] # "absent" => auth'[v] = auth[v]
      BY <1>0, <2>2, EnsuredKeeps
    <3> QED
      BY <2>1, <2>2, <2>5, <3>2, <3>3, <3>4, <3>5
  <2> QED
    BY <1>0, <1>1, <2>1, <2>3, <2>4, <2>5, <2>6, <2>7 DEF ImportInv, BadStops
<1>4. CASE NotesEnd
  <2>1. /\ UNCHANGED <<list, notes, accounts, key, seen, pos, auth, note, config, changed, changes>>
        /\ pc = "notes" /\ pc' = "accounts" /\ todo = {} /\ todo' = DOMAIN accounts
        /\ pos = Len(list) + 1
    BY <1>0, <1>4 DEF NotesEnd, Goto, files, tables, LoopsInOrder, Looping, Running
  <2>2. TypeOK'
    BY <1>0, <2>1 DEF TypeOK, Running
  <2>3. LoopsInOrder'
    BY <1>0, <2>1 DEF LoopsInOrder, Looping, Running
  <2>4. /\ Visited' = Visited /\ Noted' = Noted /\ Given' = {}
        /\ \A v \in User : Passed(v)' <=> Passed(v)
    <3>1. Visited' = Visited /\ Noted' = Noted /\ Given' = {}
      BY <2>1 DEF Visited, Noted, Given
    <3>2. \A v \in User : Passed(v)' <=> Passed(v)
      BY <1>0, <2>1 DEF Passed
    <3> QED
      BY <3>1, <3>2
  <2>5. \A v \in User : Listed(v)' <=> Listed(v)
    BY <2>1 DEF Listed
  <2>6. SeenAreVisited'
    BY <1>0, <2>1, <2>4 DEF SeenAreVisited, Looping, Running, ID
  <2>7. WrittenSoFar'
    BY <1>0, <2>1, <2>4, <2>5 DEF WrittenSoFar, Looping, Running, ID
  <2> QED
    BY <1>0, <1>1, <2>1, <2>2, <2>3, <2>4, <2>6, <2>7 DEF ImportInv, BadStops
<1> QED
  BY <1>2, <1>3, <1>4

\* The loop over the accounts.
LEMMA AccountsKeep ==
  ImportInv /\ ((\E k \in todo : SkipAccount(k) \/ SetAccount(k)) \/ AccountsEnd) => ImportInv'
<1> SUFFICES ASSUME ImportInv, (\E k \in todo : SkipAccount(k) \/ SetAccount(k)) \/ AccountsEnd
             PROVE  ImportInv'
  OBVIOUS
<1>0. /\ TypeOK /\ FilesTyped /\ LoopsInOrder /\ BadStops /\ SeenAreVisited /\ WrittenSoFar
      /\ Len(list) \in Nat
  BY LenProperties DEF ImportInv, FilesTyped
<1>1. /\ UNCHANGED <<list, notes, accounts, key, seen, pos, note, changed, changes>>
      /\ pc = "accounts" /\ pc' \in {"accounts", "done"} /\ pos = Len(list) + 1
  BY <1>0 DEF SkipAccount, SetAccount, AccountsEnd, Goto, files, tables, LoopsInOrder, Looping,
              Running
<1>2. FilesTyped'
  BY <1>0, <1>1 DEF FilesTyped
<1>3. /\ Visited' = Visited /\ Noted' = Noted
      /\ \A v \in User : (Passed(v)' <=> Passed(v)) /\ (Listed(v)' <=> Listed(v))
  <2>1. Visited' = Visited
    BY <1>1 DEF Visited
  <2>2. Noted' = Noted
    BY <1>1, <2>1 DEF Noted
  <2>3. \A v \in User : (Passed(v)' <=> Passed(v)) /\ (Listed(v)' <=> Listed(v))
    BY <1>0, <1>1 DEF Passed, Listed
  <2> QED
    BY <2>1, <2>2, <2>3
<1>4. SeenAreVisited'
  BY <1>0, <1>1, <1>3 DEF SeenAreVisited, Looping, Running, ID
<1>5. ASSUME NEW k \in todo, SkipAccount(k)
      PROVE  ImportInv'
  <2>1. /\ UNCHANGED <<pc, auth, config>> /\ todo' = todo \ {k}
        /\ accounts[k] = "empty" /\ k # Bad
    BY <1>5 DEF SkipAccount, tables
  <2>2. TypeOK' /\ LoopsInOrder'
    BY <1>0, <1>1, <2>1 DEF TypeOK, LoopsInOrder, Looping, Running
  <2>3. Given' = Given
    BY <1>1, <2>1 DEF Given
  <2>4. WrittenSoFar'
    BY <1>0, <1>1, <1>3, <2>1, <2>3 DEF WrittenSoFar, Looping, Running, ID
  <2> QED
    BY <1>0, <1>2, <1>3, <1>4, <2>2, <2>3, <2>4 DEF ImportInv, BadStops
<1>6. ASSUME NEW k \in todo, SetAccount(k)
      PROVE  ImportInv'
  <2>1. /\ UNCHANGED pc /\ todo' = todo \ {k}
        /\ k \in DOMAIN accounts \ {Bad} /\ accounts[k] # "empty"
    BY <1>0, <1>6 DEF SetAccount, LoopsInOrder
  <2>2. PICK u \in User :
          ID(k) = u /\ auth' = Ensured(u) /\ config' = [config EXCEPT ![u] = accounts[k]]
    BY <1>0, <1>6, <2>1, KeysMeanUsers DEF SetAccount, FilesTyped
  <2>3. TypeOK'
    BY <1>0, <1>1, <2>1, <2>2, EnsuredKeeps DEF TypeOK, Running, FilesTyped, Entries, Configs
  <2>4. LoopsInOrder'
    BY <1>0, <1>1, <2>1 DEF LoopsInOrder, Looping, Running
  <2>5. Given' = Given \union {k}
    BY <1>1, <1>6, <2>1 DEF Given
  <2>6. WrittenSoFar'
    <3> SUFFICES ASSUME NEW v \in User \ changed
                 PROVE  /\ Passed(v) => auth'[v] = "granted"
                        /\ ~Listed(v) /\ (\E l \in Visited : ID(l) = v) => auth'[v] = "denied"
                        /\ (\E l \in Given' : ID(l) = v) =>
                             \E l \in Given' : ID(l) = v /\ config'[v] = accounts[l]
      BY <1>0, <1>1, <1>3 DEF WrittenSoFar, Looping, Running, ID
    <3>1. /\ Passed(v) => auth[v] = "granted"
          /\ ~Listed(v) /\ (\E l \in Visited : ID(l) = v) => auth[v] = "denied"
          /\ (\E l \in Given : ID(l) = v) => \E l \in Given : ID(l) = v /\ config[v] = accounts[l]
      BY <1>0, <1>1 DEF WrittenSoFar, Looping, Running
    <3>2. config'[v] = IF v = u THEN accounts[k] ELSE config[v]
      BY <1>0, <2>2 DEF TypeOK
    <3>3. auth[v] # "absent" => auth'[v] = auth[v]
      BY <1>0, <2>2, EnsuredKeeps
    <3> QED
      BY <2>2, <2>5, <3>1, <3>2, <3>3
  <2> QED
    BY <1>0, <1>2, <1>3, <1>4, <2>1, <2>3, <2>4, <2>5, <2>6 DEF ImportInv, BadStops
<1>7. CASE AccountsEnd
  <2>1. UNCHANGED <<todo, auth, config>> /\ todo = {} /\ pc' = "done"
    BY <1>7 DEF AccountsEnd, tables, Goto
  <2>2. TypeOK' /\ LoopsInOrder'
    BY <1>0, <1>1, <2>1 DEF TypeOK, LoopsInOrder, Looping, Running
  <2>3. Given' = Given
    BY <1>1, <2>1 DEF Given
  <2>4. WrittenSoFar'
    BY <1>0, <1>1, <1>3, <2>1, <2>3 DEF WrittenSoFar, Looping, Running, ID
  <2> QED
    BY <1>0, <1>2, <1>3, <1>4, <2>2, <2>3, <2>4 DEF ImportInv, BadStops
<1> QED
  BY <1>5, <1>6, <1>7

\* A change made through the bot concerns one user, who is counted as changed.
LEMMA ChangesKeep == ImportInv /\ (\E u \in User : Change(u)) => ImportInv'
<1> SUFFICES ASSUME ImportInv, NEW u \in User, Change(u)
             PROVE  ImportInv'
  OBVIOUS
<1>0. /\ TypeOK /\ FilesTyped /\ LoopsInOrder /\ BadStops /\ SeenAreVisited /\ WrittenSoFar
  BY DEF ImportInv
<1>1. /\ UNCHANGED <<list, notes, accounts, pc, pos, todo, key, seen>>
      /\ changed' = changed \union {u} /\ changes < MaxChanges /\ changes' = changes + 1
  BY DEF Change, files, loop
<1>2. /\ auth' \in [User -> {"absent", "denied", "granted"}]
      /\ note' \in [User -> Notes] /\ config' \in [User -> Configs]
      /\ \A v \in User \ {u} : auth'[v] = auth[v] /\ note'[v] = note[v] /\ config'[v] = config[v]
  BY <1>0 DEF Change, TypeOK, Ensured, Configs
<1>3. TypeOK'
  BY <1>0, <1>1, <1>2, MigrationAssumption DEF TypeOK
<1>4. FilesTyped' /\ LoopsInOrder' /\ BadStops' /\ SeenAreVisited'
  BY <1>0, <1>1 DEF FilesTyped, LoopsInOrder, BadStops, SeenAreVisited, Looping, Visited, Noted,
                    Given, Passed, ID
<1>5. WrittenSoFar'
  BY <1>0, <1>1, <1>2 DEF WrittenSoFar, Looping, Visited, Noted, Given, Passed, Listed, ID
<1> QED
  BY <1>3, <1>4, <1>5 DEF ImportInv

\* Every step keeps the invariant.
LEMMA ImportStep == ImportInv /\ [Next]_vars => ImportInv'
<1> SUFFICES ASSUME ImportInv, [Next]_vars
             PROVE  ImportInv'
  OBVIOUS
<1>1. CASE BadEntry \/ BadNote \/ BadAccount
  BY <1>1, FailingKeeps DEF BadEntry, BadNote, BadAccount, Goto, files, tables, ImportInv, TypeOK
<1>2. CASE Stop
  <2>1. auth' \in [User -> {"absent", "denied", "granted"}]
    <3>1. CASE UNCHANGED auth
      BY <3>1 DEF ImportInv, TypeOK
    <3>2. CASE AtEntry /\ list[pos] # Bad /\ auth' = Ensured(list[pos])
      <4>1. pos \in 1..Len(list) /\ list \in Seq(User \union {Bad})
        BY <3>2, LenProperties DEF AtEntry, ImportInv, LoopsInOrder, FilesTyped
      <4> QED
        BY <3>2, <4>1, ElementOfSeq, EnsuredKeeps DEF ImportInv
    <3>3. CASE \E k \in todo \ {Bad} : auth' = Ensured(ID(k))
      <4>1. todo \subseteq NoteKeys \union AccountKeys
        BY DEF ImportInv, TypeOK, FilesTyped
      <4> QED
        BY <3>3, <4>1, KeysMeanUsers, EnsuredKeeps DEF ImportInv
    <3> QED
      BY <1>2, <3>1, <3>2, <3>3 DEF Stop
  <2> QED
    BY <1>2, <2>1, FailingKeeps DEF Stop, Goto
<1>3. CASE UNCHANGED vars
  BY <1>3 DEF vars, ImportInv, TypeOK, FilesTyped, LoopsInOrder, BadStops, SeenAreVisited,
              WrittenSoFar, Looping, Visited, Noted, Given, Passed, Listed, ID
<1> QED
  BY <1>1, <1>2, <1>3, ListKeeps, NotesKeep, AccountsKeep, ChangesKeep DEF Next, Import

\* The invariant holds in every reachable state.
THEOREM ImportInvHolds == Spec => []ImportInv
<1> QED
  BY ImportInit, ImportStep, PTL DEF Spec

-----------------------------------------------------------------------------
(* What it gives.                                                          *)

\* The variables of an import keep their types.
THEOREM ImportTyped == Spec => []TypeOK
<1>1. ImportInv => TypeOK
  BY DEF ImportInv
<1> QED
  BY <1>1, ImportInvHolds, PTL

\* A completed import says what the files say, whatever the order of the keys and
\* their spellings, however many imports broke off before it and wherever
\* (migrate.Import).
THEOREM CompletedIsExact == Spec => []CompletedImportIsExact
<1>1. ImportInv => CompletedImportIsExact
  <2> SUFFICES ASSUME ImportInv, pc = "done"
               PROVE  /\ seen = {u \in User : Listed(u) \/ Spellings(u, notes) # {}}
                      /\ \A u \in User \ changed : AsInFiles(u)
    BY DEF CompletedImportIsExact
  <2>0. /\ LoopsInOrder /\ BadStops /\ SeenAreVisited /\ WrittenSoFar /\ Looping
        /\ Len(list) \in Nat /\ pos = Len(list) + 1
    BY LenProperties DEF ImportInv, FilesTyped, Looping, LoopsInOrder
  <2>1. \A u \in User : Passed(u) <=> Listed(u)
    BY <2>0 DEF Passed, Listed
  <2>2. /\ Noted = DOMAIN notes \ {Bad} /\ Visited = DOMAIN notes \ {Bad}
        /\ Given = {k \in DOMAIN accounts \ {Bad} : accounts[k] # "empty"}
    BY <2>0 DEF Noted, Visited, Given, BadStops
  <2>3. seen = {u \in User : Listed(u) \/ Spellings(u, notes) # {}}
    BY <2>0, <2>1, <2>2 DEF SeenAreVisited, Spellings
  <2>4. ASSUME NEW u \in User \ changed
        PROVE  AsInFiles(u)
    <3> DEFINE kept == {k \in Spellings(u, accounts) : accounts[k] # "empty"}
    <3>1. Spellings(u, notes) = {k \in Noted : ID(k) = u} /\ kept = {k \in Given : ID(k) = u}
      BY <2>2 DEF Spellings
    <3>2. /\ Listed(u) => auth[u] = "granted"
          /\ ~Listed(u) /\ Spellings(u, notes) # {} => auth[u] = "denied"
      BY <2>0, <2>1, <2>2, <3>1 DEF WrittenSoFar
    <3>3. Spellings(u, notes) # {} => note[u] \in {notes[k] : k \in Spellings(u, notes)}
      BY <2>0, <3>1 DEF WrittenSoFar
    <3>4. kept # {} => config[u] \in {accounts[k] : k \in kept}
      BY <2>0, <3>1 DEF WrittenSoFar
    <3> QED
      BY <3>2, <3>3, <3>4 DEF AsInFiles
  <2> QED
    BY <2>3, <2>4
<1> QED
  BY <1>1, ImportInvHolds, PTL

\* While an import is repeated, nobody on its list loses the authorization he has
\* (migrate.Import, the loop over the notes).
THEOREM ListedKeepAccess == Spec => ListedStayAuthorized
<1> DEFINE Stay == Import => \A u \in User :
                     Listed(u) /\ auth[u] = "granted" => auth'[u] = "granted"
<1>1. ImportInv /\ [Next]_vars => [Stay]_vars
  <2> SUFFICES ASSUME ImportInv, Import, NEW u \in User, Listed(u), auth[u] = "granted"
               PROVE  auth'[u] = "granted"
    OBVIOUS
  <2>0. /\ TypeOK /\ LoopsInOrder /\ FilesTyped /\ Len(list) \in Nat
    BY LenProperties DEF ImportInv, FilesTyped
  <2>1. todo \subseteq NoteKeys \union AccountKeys
    BY <2>0 DEF TypeOK, FilesTyped
  <2>2. CASE UNCHANGED auth
    BY <2>2
  <2>3. CASE Authorize
    BY <2>0, <2>3 DEF Authorize, TypeOK
  <2>4. ASSUME NEW v, auth' = Ensured(v)
        PROVE  auth'[u] = "granted"
    BY <2>0, <2>4 DEF Ensured, TypeOK
  <2>5. ASSUME NEW k \in todo, VisitNote(k)
        PROVE  auth'[u] = "granted"
    <3>1. pc = "notes" /\ pos = Len(list) + 1
      BY <2>0, <2>5 DEF VisitNote, LoopsInOrder, Looping, Running
    <3>2. u \in seen
      BY <2>0, <3>1 DEF ImportInv, SeenAreVisited, Looping, Running, Passed, Listed
    <3> QED
      BY <2>0, <2>5, <3>2 DEF VisitNote, TypeOK
  <2>6. CASE \E k \in todo : SkipAccount(k) \/ SetAccount(k)
    BY <2>2, <2>4, <2>6 DEF SkipAccount, SetAccount, tables
  <2>7. CASE Stop
    BY <2>2, <2>4, <2>7 DEF Stop
  <2>8. CASE Start \/ BadEntry \/ ListEnds \/ BadNote \/ NotesEnd \/ BadAccount \/ AccountsEnd
    BY <2>2, <2>8 DEF Start, BadEntry, ListEnds, BadNote, NotesEnd, BadAccount, AccountsEnd, tables
  <2>9. CASE ListNote \/ WriteNote
    BY <2>4, <2>9 DEF ListNote, WriteNote
  <2> QED
    BY <2>3, <2>5, <2>6, <2>7, <2>8, <2>9 DEF Import
<1> QED
  BY <1>1, ImportInvHolds, PTL DEF Spec, ListedStayAuthorized
=============================================================================
