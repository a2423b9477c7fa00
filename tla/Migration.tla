------------------------------ MODULE Migration ------------------------------
(***************************************************************************)
(* migrate.Import: the users and the 115 accounts of the old bot's JSON    *)
(* files are written into the SQLite tables users and p115_accounts, one   *)
(* statement after the other and without a transaction.  An import may be  *)
(* refused by a bad entry, fail in any statement or be killed between two  *)
(* of them, and it is meant to be run again; meanwhile admins and users    *)
(* may change the same rows through the bot.                               *)
(*                                                                         *)
(* The keys of a JSON object are visited in an arbitrary order.  Several   *)
(* keys may spell the same user ("7" and "007"), and a key, or an entry    *)
(* of the list of authorized users, may be no user at all.                 *)
(*                                                                         *)
(* A definition marked "Variant" is a plausible mistake in the definition  *)
(* after it.  Nothing here uses it: put in place of that definition, it    *)
(* must break the property PROJECT.json names.                             *)
(***************************************************************************)
EXTENDS Naturals, Sequences, FiniteSets

CONSTANTS
  User,        \* user IDs; each is also its own canonical spelling
  Alias,       \* other spellings of user IDs
  AliasOf,     \* AliasOf[a]: the user the spelling a means
  Bad,         \* what is no positive number
  NoteKeys,    \* keys that the notes of an instance may have
  AccountKeys, \* keys that the accounts of an instance may have
  MaxList,     \* bound of the list of authorized users, for checking only
  MaxChanges   \* bound of the changes made through the bot, for checking only

ASSUME MigrationAssumption ==
  /\ AliasOf \in [Alias -> User]
  /\ Bad \notin User \union Alias
  /\ NoteKeys \subseteq User \union Alias \union {Bad}
  /\ AccountKeys \subseteq User \union Alias \union {Bad}
  /\ MaxList \in Nat /\ MaxChanges \in Nat

VARIABLES
  list,      \* authorized_user_ids
  notes,     \* notes: key -> note, after trimming
  accounts,  \* telegram_p115.json: key -> entry
  pc,        \* the loop Import is in
  pos,       \* the entry of the list it is at
  todo,      \* keys its loop has not visited
  key,       \* the key its loop is at
  seen,      \* users it has seen
  auth,      \* users.authorized, "absent" without a row
  note,      \* users.note
  config,    \* p115_accounts
  changed,   \* history: users changed through the bot since Import started
  changes    \* number of changes made through the bot

files == <<list, notes, accounts>>
loop == <<pc, pos, todo, key, seen>>
tables == <<auth, note, config>>
vars == <<list, notes, accounts, pc, pos, todo, key, seen, auth, note, config, changed, changes>>

\* Trimmed notes; "empty" is the empty string.
Notes == {"empty", "old"}

\* An entry of the accounts file: without a cookie, disabled, or enabled (by
\* "enabled": true as well as by the lack of it).
Entries == {"empty", "off", "on"}

Configs == {"none", "off", "on", "own"}

Running == {"list", "listNote", "notes", "notesNote", "accounts"}

ID(k) == IF k \in Alias THEN AliasOf[k] ELSE k

\* The note the first loop looks up: under the canonical spelling only.
NoteOf(u) == IF u \in DOMAIN notes THEN notes[u] ELSE "empty"

Goto(step) == pc' = step

\* INSERT ... ON CONFLICT DO NOTHING creates a row that is not authorized.
Ensured(u) == [auth EXCEPT ![u] = IF @ = "absent" THEN "denied" ELSE @]

-----------------------------------------------------------------------------
\* The users file is read and decoded; a file that is not given is as good as an
\* empty one.
Start ==
  /\ pc \notin Running
  /\ Goto("list")
  /\ pos' = 1
  /\ todo' = DOMAIN notes
  /\ seen' = {}
  /\ changed' = {}
  /\ UNCHANGED <<files, key, tables, changes>>

AtEntry == pc = "list" /\ pos <= Len(list)

BadEntry ==
  /\ AtEntry /\ list[pos] = Bad
  /\ Goto("failed")
  /\ UNCHANGED <<files, pos, todo, key, seen, tables, changed, changes>>

\* Variant: a user authorized by the list is not remembered.
AuthorizeUnseen ==
  /\ AtEntry /\ list[pos] # Bad
  /\ auth' = [auth EXCEPT ![list[pos]] = "granted"]
  /\ IF NoteOf(list[pos]) # "empty" THEN Goto("listNote") /\ UNCHANGED pos
                               ELSE pos' = pos + 1 /\ UNCHANGED pc
  /\ UNCHANGED <<files, todo, key, seen, note, config, changed, changes>>

\* SetUserAuthorization(id, true).
Authorize ==
  /\ AtEntry /\ list[pos] # Bad
  /\ auth' = [auth EXCEPT ![list[pos]] = "granted"]
  /\ seen' = seen \union {list[pos]}
  /\ IF NoteOf(list[pos]) # "empty" THEN Goto("listNote") /\ UNCHANGED pos
                               ELSE pos' = pos + 1 /\ UNCHANGED pc
  /\ UNCHANGED <<files, todo, key, note, config, changed, changes>>

ListNote ==
  /\ pc = "listNote"
  /\ auth' = Ensured(list[pos])
  /\ note' = [note EXCEPT ![list[pos]] = NoteOf(list[pos])]
  /\ pos' = pos + 1
  /\ Goto("list")
  /\ UNCHANGED <<files, todo, key, seen, config, changed, changes>>

ListEnds ==
  /\ pc = "list" /\ pos > Len(list)
  /\ Goto("notes")
  /\ UNCHANGED <<files, pos, todo, key, seen, tables, changed, changes>>

-----------------------------------------------------------------------------
BadNote ==
  /\ pc = "notes" /\ Bad \in todo
  /\ Goto("failed")
  /\ UNCHANGED <<files, pos, todo, key, seen, tables, changed, changes>>

\* A user with a note who is not authorized gets a row that says so.
VisitNote(k) ==
  /\ pc = "notes" /\ k \in todo \ {Bad}
  /\ key' = k
  /\ todo' = todo \ {k}
  /\ auth' = IF ID(k) \in seen THEN auth ELSE [auth EXCEPT ![ID(k)] = "denied"]
  /\ Goto("notesNote")
  /\ UNCHANGED <<files, pos, seen, note, config, changed, changes>>

\* Variant: the note of a user the list has seen is not written again.
WriteNoteOnce ==
  /\ pc = "notesNote"
  /\ auth' = Ensured(ID(key))
  /\ note' = IF ID(key) \in seen THEN note ELSE [note EXCEPT ![ID(key)] = notes[key]]
  /\ seen' = seen \union {ID(key)}
  /\ Goto("notes")
  /\ UNCHANGED <<files, pos, todo, key, config, changed, changes>>

\* Variant: the key is remembered, not the user it means.
WriteNoteByKey ==
  /\ pc = "notesNote"
  /\ auth' = Ensured(ID(key))
  /\ note' = [note EXCEPT ![ID(key)] = notes[key]]
  /\ seen' = seen \union {key}
  /\ Goto("notes")
  /\ UNCHANGED <<files, pos, todo, key, config, changed, changes>>

WriteNote ==
  /\ pc = "notesNote"
  /\ auth' = Ensured(ID(key))
  /\ note' = [note EXCEPT ![ID(key)] = notes[key]]
  /\ seen' = seen \union {ID(key)}
  /\ Goto("notes")
  /\ UNCHANGED <<files, pos, todo, key, config, changed, changes>>

NotesEnd ==
  /\ pc = "notes" /\ todo = {}
  /\ todo' = DOMAIN accounts
  /\ Goto("accounts")
  /\ UNCHANGED <<files, pos, key, seen, tables, changed, changes>>

-----------------------------------------------------------------------------
BadAccount ==
  /\ pc = "accounts" /\ Bad \in todo
  /\ Goto("failed")
  /\ UNCHANGED <<files, pos, todo, key, seen, tables, changed, changes>>

SkipAccount(k) ==
  /\ pc = "accounts" /\ k \in todo \ {Bad} /\ accounts[k] = "empty"
  /\ todo' = todo \ {k}
  /\ UNCHANGED <<files, pc, pos, key, seen, tables, changed, changes>>

\* Variant: the user's row is written with the account.
SetAccountOfUser(k) ==
  /\ pc = "accounts" /\ k \in todo \ {Bad} /\ accounts[k] # "empty"
  /\ todo' = todo \ {k}
  /\ auth' = [auth EXCEPT ![ID(k)] = "denied"]
  /\ config' = [config EXCEPT ![ID(k)] = accounts[k]]
  /\ UNCHANGED <<files, pc, pos, key, seen, note, changed, changes>>

\* SetP115Config creates the user's row if there is none.
SetAccount(k) ==
  /\ pc = "accounts" /\ k \in todo \ {Bad} /\ accounts[k] # "empty"
  /\ todo' = todo \ {k}
  /\ auth' = Ensured(ID(k))
  /\ config' = [config EXCEPT ![ID(k)] = accounts[k]]
  /\ UNCHANGED <<files, pc, pos, key, seen, note, changed, changes>>

AccountsEnd ==
  /\ pc = "accounts" /\ todo = {}
  /\ Goto("done")
  /\ UNCHANGED <<files, pos, todo, key, seen, tables, changed, changes>>

\* A file cannot be read, a statement fails, or the process dies; between
\* ensureUser and the statement after it, a row may have been created.
Stop ==
  /\ pc \in Running
  /\ \/ UNCHANGED auth
     \/ AtEntry /\ list[pos] # Bad /\ auth' = Ensured(list[pos])
     \/ pc = "notes" /\ \E k \in todo \ {Bad} : ID(k) \notin seen /\ auth' = Ensured(ID(k))
     \/ pc = "accounts" /\ \E k \in todo \ {Bad} :
          accounts[k] # "empty" /\ auth' = Ensured(ID(k))
  /\ Goto("failed")
  /\ UNCHANGED <<files, pos, todo, key, seen, note, config, changed, changes>>

-----------------------------------------------------------------------------
\* The commands of the bot: /authorize and /revoke, /note, /set115 and /unset115.
Change(u) ==
  /\ changes < MaxChanges
  /\ \/ \E a \in {"denied", "granted"} :
          auth' = [auth EXCEPT ![u] = a] /\ UNCHANGED <<note, config>>
     \/ \E n \in Notes :
          auth' = Ensured(u) /\ note' = [note EXCEPT ![u] = n] /\ UNCHANGED config
     \/ \E c \in {"none", "own"} :
          /\ auth' = IF c = "own" THEN Ensured(u) ELSE auth
          /\ config' = [config EXCEPT ![u] = c]
          /\ UNCHANGED note
  /\ changed' = changed \union {u}
  /\ changes' = changes + 1
  /\ UNCHANGED <<files, loop>>

Maps(keys, values) == UNION {[ks -> values] : ks \in SUBSET keys}

Lists == UNION {[1..n -> User \union {Bad}] : n \in 0..MaxList}

Init ==
  /\ list \in Lists
  /\ notes \in Maps(NoteKeys, Notes)
  /\ accounts \in Maps(AccountKeys, Entries)
  /\ pc = "idle"
  /\ pos = 1 /\ todo = {} /\ key = Bad /\ seen = {}
  /\ auth = [u \in User |-> "absent"]
  /\ note = [u \in User |-> "empty"]
  /\ config = [u \in User |-> "none"]
  /\ changed = {} /\ changes = 0

Import ==
  \/ Start
  \/ BadEntry \/ Authorize \/ ListNote \/ ListEnds
  \/ BadNote \/ (\E k \in todo : VisitNote(k)) \/ WriteNote \/ NotesEnd
  \/ BadAccount \/ (\E k \in todo : SkipAccount(k) \/ SetAccount(k)) \/ AccountsEnd
  \/ Stop

Next == Import \/ \E u \in User : Change(u)

Spec == Init /\ [][Next]_vars

-----------------------------------------------------------------------------
(* Properties.                                                             *)

TypeOK ==
  /\ pc \in Running \union {"idle", "done", "failed"}
  /\ pos \in 1..(Len(list) + 1)
  /\ todo \subseteq (DOMAIN notes \union DOMAIN accounts)
  /\ seen \subseteq User
  /\ auth \in [User -> {"absent", "denied", "granted"}]
  /\ note \in [User -> Notes]
  /\ config \in [User -> Configs]
  /\ changed \subseteq User /\ changes \in 0..MaxChanges

Listed(u) == \E i \in 1..Len(list) : list[i] = u

\* The spellings of u among the keys of a file.
Spellings(u, f) == {k \in DOMAIN f \ {Bad} : ID(k) = u}

\* What the files say of u; of several spellings any may win.
AsInFiles(u) ==
  /\ Listed(u) => auth[u] = "granted"
  /\ ~Listed(u) /\ Spellings(u, notes) # {} => auth[u] = "denied"
  /\ Spellings(u, notes) # {} => note[u] \in {notes[k] : k \in Spellings(u, notes)}
  /\ LET kept == {k \in Spellings(u, accounts) : accounts[k] # "empty"} IN
       kept # {} => config[u] \in {accounts[k] : k \in kept}

\* An import that was completed, be it the first or one after several that broke
\* off at any statement, leaves what the files say of every user the bot did not
\* change meanwhile, and counts the users it has imported (README.md:30, the
\* command can be run again).
CompletedImportIsExact ==
  pc = "done" =>
    /\ seen = {u \in User : Listed(u) \/ Spellings(u, notes) # {}}
    /\ \A u \in User \ changed : AsInFiles(u)

\* No step of an import, whatever the spellings and the order of the keys, takes
\* the authorization of a user whom the list authorizes: the bot can go on
\* serving him while an import is repeated.
ListedStayAuthorized ==
  [][Import => \A u \in User :
       Listed(u) /\ auth[u] = "granted" => auth'[u] = "granted"]_vars
=============================================================================
