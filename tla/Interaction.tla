----------------------------- MODULE Interaction -----------------------------
(***************************************************************************)
(* The text messages of the bot (handler.go HandleText, handleAdmin,       *)
(* set115): who is authorized, the dialog that asks for a 115 cookie, and  *)
(* the rows of users and p115_accounts they change.  Every message is      *)
(* handled in a goroutine of its own, so the handler of a message may be   *)
(* overtaken by the next one anywhere between two of its steps.            *)
(*                                                                         *)
(* A message is named by the goroutine that handles it.  Its text is       *)
(* reduced to the command it holds, or to whether it is a cookie.  The     *)
(* button "set115" under a failed transfer does what the command "/set115" *)
(* does, after the same checks.                                            *)
(*                                                                         *)
(* A definition marked "Variant" is a plausible mistake in the definition  *)
(* after it.  Nothing here uses it: put in place of that definition, it    *)
(* must break the property PROJECT.json names.                             *)
(***************************************************************************)
EXTENDS Naturals, FiniteSets

CONSTANTS
  User,         \* Telegram users
  Admin,        \* ADMIN_IDS
  Proc,         \* messages, and the goroutines that handle them
  MaxSessions,  \* SESSION_CAPACITY
  Sent,         \* the texts sent in an instance
  None          \* no message

ASSUME InteractionAssumption ==
  /\ User # {} /\ Admin \subseteq User
  /\ MaxSessions \in Nat
  /\ None \notin Proc
  /\ Sent \subseteq {"/authorize", "/revoke", "/note", "/cancel", "/set115",
                  "/set115 cookie", "/unset115", "cookie", "title"}

VARIABLES
  pc,         \* pc[p]: the step of the handler of message p
  msg,        \* msg[p]: sender, chat, text, and the user an admin names
  row,        \* the users table: row[u] is "absent", "denied" or "granted"
  cookie,     \* p115_accounts: the message whose cookie is stored for u
  sess,       \* users with a session
  dialog,     \* users whose session is of kind "set115"
  granted,    \* history: messages whose sender was authorized at some moment
              \* since they arrived
  asked,      \* history: users whose last event was the question for a cookie
  reply       \* history: cookies sent in answer to that question

tables == <<row, cookie>>
memory == <<sess, dialog>>
history == <<granted, asked, reply>>
vars == <<pc, msg, row, cookie, sess, dialog, granted, asked, reply>>

AdminCommands == {"/authorize", "/revoke", "/note"}

Texts == AdminCommands \union
  {"/cancel", "/set115", "/set115 cookie", "/unset115", "cookie", "title"}

Message == [from : User, private : BOOLEAN, text : Texts, target : User]

\* The messages an instance sends.  Only an admin command names a user, and
\* only where a cookie may be given does the chat matter.
Inputs ==
  {m \in Message : /\ m.text \in Sent
                   /\ m.text \in AdminCommands \/ m.target = m.from
                   /\ m.text \in {"/set115", "/set115 cookie", "cookie"} \/ m.private}

Steps == {"idle", "route", "check", "command", "dialog", "ask", "save", "clear",
          "search", "ensure", "update", "done", "dead"}

From(p) == msg[p].from

IsAdmin(u) == u \in Admin

Authorized(u) == IsAdmin(u) \/ row[u] = "granted"

Goto(p, step) == pc' = [pc EXCEPT ![p] = step]

-----------------------------------------------------------------------------
\* Message p arrives.  The next message of a user who was asked for a cookie
\* answers the question, unless it is a command.
Arrive(p, m) ==
  /\ pc[p] = "idle"
  /\ msg' = [msg EXCEPT ![p] = m]
  /\ granted' = IF Authorized(m.from) THEN granted \union {p} ELSE granted
  /\ reply' = IF m.from \in asked /\ m.text = "cookie" /\ m.private
                THEN reply \union {p} ELSE reply
  /\ asked' = asked \ {m.from}
  /\ Goto(p, "route")
  /\ UNCHANGED <<tables, memory>>

\* Variant: whoever has the dialog open may answer it without being checked again.
RouteDialogFirst(p) ==
  /\ pc[p] = "route"
  /\ Goto(p, IF msg[p].text \in AdminCommands
               THEN IF IsAdmin(From(p)) THEN "ensure" ELSE "done"
             ELSE IF msg[p].text = "/cancel" THEN "clear"
             ELSE IF msg[p].text \in {"cookie", "title"} /\ From(p) \in dialog THEN "dialog"
             ELSE "check")
  /\ UNCHANGED <<msg, tables, memory, history>>

\* The commands that need no authorization come first.
Route(p) ==
  /\ pc[p] = "route"
  /\ Goto(p, IF msg[p].text \in AdminCommands
               THEN IF IsAdmin(From(p)) THEN "ensure" ELSE "done"
             ELSE IF msg[p].text = "/cancel" THEN "clear" ELSE "check")
  /\ UNCHANGED <<msg, tables, memory, history>>

Check(p) ==
  /\ pc[p] = "check"
  /\ Goto(p, IF Authorized(From(p)) THEN "command" ELSE "done")
  /\ UNCHANGED <<msg, tables, memory, history>>

\* GetUser fails: not authorized.
CheckFails(p) ==
  /\ pc[p] = "check" /\ ~IsAdmin(From(p))
  /\ Goto(p, "done")
  /\ UNCHANGED <<msg, tables, memory, history>>

-----------------------------------------------------------------------------
\* Variant: the dialog is remembered although the manager refused a session.
OpenDialogAnyway(p) ==
  /\ pc[p] = "command" /\ msg[p].text = "/set115"
  /\ IF msg[p].private
       THEN /\ dialog' = dialog \union {From(p)}
            /\ sess' = IF Cardinality(sess) < MaxSessions THEN sess \union {From(p)} ELSE sess
            /\ Goto(p, "ask")
       ELSE Goto(p, "done") /\ UNCHANGED memory
  /\ UNCHANGED <<msg, tables, history>>

\* /set115 in a private chat opens the dialog; that Set may refuse is ignored.
OpenDialog(p) ==
  /\ pc[p] = "command" /\ msg[p].text = "/set115"
  /\ IF msg[p].private
       THEN /\ IF From(p) \in sess \/ Cardinality(sess) < MaxSessions
                 THEN /\ sess' = sess \union {From(p)}
                      /\ dialog' = dialog \union {From(p)}
                 ELSE UNCHANGED memory
            /\ Goto(p, "ask")
       ELSE Goto(p, "done") /\ UNCHANGED memory
  /\ UNCHANGED <<msg, tables, history>>

\* "Please send the 115 cookie": the question reaches the user.
Ask(p) ==
  /\ pc[p] = "ask"
  /\ asked' = asked \union {From(p)}
  /\ Goto(p, "done")
  /\ UNCHANGED <<msg, tables, memory, granted, reply>>

SetDirectly(p) ==
  /\ pc[p] = "command" /\ msg[p].text = "/set115 cookie"
  /\ Goto(p, IF msg[p].private THEN "save" ELSE "done")
  /\ UNCHANGED <<msg, tables, memory, history>>

\* Deleting nothing, and a failing DELETE, change nothing.
Unset(p) ==
  /\ pc[p] = "command" /\ msg[p].text = "/unset115"
  /\ cookie' \in {cookie, [cookie EXCEPT ![From(p)] = None]}
  /\ Goto(p, "done")
  /\ UNCHANGED <<msg, row, memory, history>>

PlainText(p) ==
  /\ pc[p] = "command" /\ msg[p].text \in {"cookie", "title"}
  /\ Goto(p, "dialog")
  /\ UNCHANGED <<msg, tables, memory, history>>

\* Variant: only the command looks at the chat, not the cookie that follows.
DialogAnywhere(p) ==
  /\ pc[p] = "dialog"
  /\ Goto(p, IF From(p) \in dialog THEN "save" ELSE "search")
  /\ UNCHANGED <<msg, tables, memory, history>>

\* With the dialog open any text is the cookie, otherwise it is searched for.
Dialog(p) ==
  /\ pc[p] = "dialog"
  /\ Goto(p, IF From(p) \notin dialog THEN "search"
             ELSE IF msg[p].private THEN "save" ELSE "done")
  /\ UNCHANGED <<msg, tables, memory, history>>

\* set115: SetP115Config creates the user's row first, and may fail after it.
Save(p) ==
  /\ pc[p] = "save"
  /\ row' = [row EXCEPT ![From(p)] = IF @ = "absent" THEN "denied" ELSE @]
  /\ cookie' = [cookie EXCEPT ![From(p)] = p]
  /\ Goto(p, "clear")
  /\ UNCHANGED <<msg, memory, history>>

SaveFails(p) ==
  /\ pc[p] = "save"
  /\ row' \in {row, [row EXCEPT ![From(p)] = IF @ = "absent" THEN "denied" ELSE @]}
  /\ Goto(p, "done")
  /\ UNCHANGED <<msg, cookie, memory, history>>

\* ClearInteraction, of /cancel and of a saved cookie, ends whatever dialog
\* is open by then.
Clear(p) ==
  /\ pc[p] = "clear"
  /\ dialog' = dialog \ {From(p)}
  /\ Goto(p, "done")
  /\ UNCHANGED <<msg, tables, sess, history>>

\* search: the text is logged and sent to TMDB.
Search(p) ==
  /\ pc[p] = "search"
  /\ Goto(p, "done")
  /\ UNCHANGED <<msg, tables, memory, history>>

-----------------------------------------------------------------------------
\* SetUserAuthorization and SetUserNote: ensureUser, then the UPDATE.

\* Variant: ensureUser resets the row it finds.
EnsureResets(p) ==
  /\ pc[p] = "ensure"
  /\ row' = [row EXCEPT ![msg[p].target] = "denied"]
  /\ Goto(p, "update")
  /\ UNCHANGED <<msg, cookie, memory, history>>

Ensure(p) ==
  /\ pc[p] = "ensure"
  /\ row' = [row EXCEPT ![msg[p].target] = IF @ = "absent" THEN "denied" ELSE @]
  /\ Goto(p, "update")
  /\ UNCHANGED <<msg, cookie, memory, history>>

\* The handlers that are running when a user is granted may still see it.
Update(p) ==
  /\ pc[p] = "update"
  /\ row' = CASE msg[p].text = "/authorize" -> [row EXCEPT ![msg[p].target] = "granted"]
              [] msg[p].text = "/revoke" -> [row EXCEPT ![msg[p].target] = "denied"]
              [] msg[p].text = "/note" -> row
  /\ granted' = IF msg[p].text = "/authorize"
                  THEN granted \union {q \in Proc : /\ pc[q] \notin {"idle", "done", "dead"}
                                                    /\ From(q) = msg[p].target}
                  ELSE granted
  /\ Goto(p, "done")
  /\ UNCHANGED <<msg, cookie, memory, asked, reply>>

AdminFails(p) ==
  /\ pc[p] \in {"ensure", "update"}
  /\ Goto(p, "done")
  /\ UNCHANGED <<msg, tables, memory, history>>

-----------------------------------------------------------------------------
ExpireSession(u) ==
  /\ u \in sess
  /\ sess' = sess \ {u}
  /\ dialog' = dialog \ {u}
  /\ UNCHANGED <<pc, msg, tables, history>>

Restart ==
  /\ pc' = [p \in Proc |-> IF pc[p] \in {"idle", "done"} THEN pc[p] ELSE "dead"]
  /\ sess' = {} /\ dialog' = {}
  /\ UNCHANGED <<msg, tables, history>>

NoMessage == [from |-> CHOOSE u \in User : TRUE, private |-> TRUE, text |-> "title",
              target |-> CHOOSE u \in User : TRUE]

Init ==
  /\ pc = [p \in Proc |-> "idle"]
  /\ msg = [p \in Proc |-> NoMessage]
  /\ row \in [User -> {"absent", "granted"}]
  /\ cookie = [u \in User |-> None]
  /\ sess = {} /\ dialog = {}
  /\ granted = {} /\ asked = {} /\ reply = {}

Step(p) ==
  \/ Route(p) \/ Check(p) \/ CheckFails(p)
  \/ OpenDialog(p) \/ Ask(p) \/ SetDirectly(p) \/ Unset(p) \/ PlainText(p)
  \/ Dialog(p) \/ Save(p) \/ SaveFails(p) \/ Clear(p) \/ Search(p)
  \/ Ensure(p) \/ Update(p) \/ AdminFails(p)

Next ==
  \/ \E p \in Proc : Step(p)
  \/ \E p \in Proc, m \in Inputs : Arrive(p, m)
  \/ \E u \in User : ExpireSession(u)
  \/ Restart

Spec == Init /\ [][Next]_vars

-----------------------------------------------------------------------------
(* Properties.                                                             *)

TypeOK ==
  /\ pc \in [Proc -> Steps]
  /\ msg \in [Proc -> Message]
  /\ row \in [User -> {"absent", "denied", "granted"}]
  /\ cookie \in [User -> Proc \union {None}]
  /\ sess \subseteq User
  /\ dialog \subseteq sess

\* The stored cookie of a user was sent by that very user, in private, whatever
\* chat the dialog is answered from (DEVELOPMENT.md 151-153, 146).
CookiesAreOwn ==
  \A u \in User : cookie[u] # None =>
    msg[cookie[u]].from = u /\ msg[cookie[u]].private

\* What the handler of a message does for its sender: it asks for a cookie,
\* searches, stores or deletes a cookie, opens a session or a dialog.
Serves(p) ==
  /\ pc[p] # "idle" /\ pc'[p] # pc[p]
  /\ \/ pc[p] \in {"ask", "search"} /\ pc'[p] = "done"
     \/ cookie' # cookie
     \/ sess' \ sess # {}
     \/ dialog' \ dialog # {}

\* Nothing is done for a message during whose handling its sender was at no moment
\* authorized: what a user sends once he is revoked has no effect before he is
\* granted again, not even as the answer to a dialog that was opened when he was
\* (handler.go HandleText checks before it looks at the dialog).
OnlyGrantedAreServed == [][\A p \in Proc : Serves(p) => p \in granted]_vars

\* A user becomes authorized by the command of an admin who named that user and
\* by nothing else, and loses it only by such a revocation: notes, cookies and
\* the rows they create leave authorization alone.
AuthorizationIsCommanded ==
  [][\A u \in User : (row'[u] = "granted") # (row[u] = "granted") =>
       \E p \in Proc :
         /\ pc[p] = "update"
         /\ IsAdmin(From(p)) /\ msg[p].target = u
         /\ msg[p].text = IF row'[u] = "granted" THEN "/authorize" ELSE "/revoke"]_vars

\* A cookie sent in answer to the bot's question is never handed to the search,
\* which logs it and sends it to TMDB (README.md:66, cookies are never logged).
CookiesAreNotSearched == \A p \in reply : pc[p] # "search"
=============================================================================
