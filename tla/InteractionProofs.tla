------------------------- MODULE InteractionProofs -------------------------
(***************************************************************************)
(* Theorems about Interaction, for any sets of users, admins, messages and *)
(* texts, and any session capacity.                                        *)
(***************************************************************************)
EXTENDS Interaction, TLAPS

-----------------------------------------------------------------------------
(* The inductive invariant.                                                *)

Over == {"idle", "done", "dead"}

\* Only the admins' commands reach the users table's flag.
AdminsAtWork ==
  \A p \in Proc : pc[p] \in {"ensure", "update"} =>
    IsAdmin(From(p)) /\ msg[p].text \in AdminCommands

\* Only a private message is on its way to be stored.
SavesArePrivate == \A p \in Proc : pc[p] = "save" => msg[p].private

\* A stored cookie is that of a message which has arrived, and so will not change.
CookiesArrived ==
  \A u \in User : cookie[u] # None =>
    pc[cookie[u]] # "idle" /\ msg[cookie[u]].from = u /\ msg[cookie[u]].private

\* Whoever is authorized now has been while his running handlers were at work.
AuthorizedAreGranted ==
  \A p \in Proc : pc[p] \notin Over /\ Authorized(From(p)) => p \in granted

\* Nobody is beyond the check who was not authorized at some moment.
PastCheckGranted ==
  \A p \in Proc : pc[p] \in {"command", "dialog", "ask", "save", "search"} => p \in granted

DialogInv ==
  /\ TypeOK /\ AdminsAtWork /\ SavesArePrivate
  /\ CookiesArrived /\ AuthorizedAreGranted /\ PastCheckGranted

\* At the start no message has arrived.
LEMMA DialogInit == Init => DialogInv
<1> SUFFICES ASSUME Init
             PROVE  DialogInv
  OBVIOUS
<1>1. NoMessage \in Message
  BY InteractionAssumption DEF NoMessage, Message, Texts
<1>2. TypeOK
  BY <1>1 DEF Init, TypeOK, Steps
<1>3. AdminsAtWork /\ SavesArePrivate /\ CookiesArrived /\ AuthorizedAreGranted /\ PastCheckGranted
  BY DEF Init, AdminsAtWork, SavesArePrivate, CookiesArrived, AuthorizedAreGranted, Over,
         PastCheckGranted
<1> QED
  BY <1>2, <1>3 DEF DialogInv

\* Every step keeps the invariant.
LEMMA DialogStep == DialogInv /\ [Next]_vars => DialogInv'
<1> SUFFICES ASSUME DialogInv, [Next]_vars
             PROVE  DialogInv'
  OBVIOUS
<1>0. /\ TypeOK /\ AdminsAtWork /\ SavesArePrivate
      /\ CookiesArrived /\ AuthorizedAreGranted /\ PastCheckGranted
      /\ None \notin Proc
  BY InteractionAssumption DEF DialogInv
<1> USE DEF TypeOK, Steps, AdminsAtWork, SavesArePrivate, CookiesArrived, AuthorizedAreGranted,
            PastCheckGranted, Over, Authorized, From, Goto, tables, memory, history, DialogInv
<1>1. ASSUME NEW p \in Proc, NEW m \in Inputs, Arrive(p, m)
      PROVE  DialogInv'
  <2>1. /\ pc[p] = "idle" /\ pc' = [pc EXCEPT ![p] = "route"]
        /\ msg' = [msg EXCEPT ![p] = m] /\ m \in Message
        /\ UNCHANGED <<row, cookie, sess, dialog>>
        /\ granted' = IF Authorized(m.from) THEN granted \union {p} ELSE granted
    BY <1>1 DEF Arrive, Inputs
  <2>2. TypeOK'
    BY <1>0, <2>1
  <2>3. /\ pc'[p] = "route" /\ msg'[p] = m
        /\ \A q \in Proc : q # p => pc'[q] = pc[q] /\ msg'[q] = msg[q]
    BY <1>0, <2>1
  <2>4. AdminsAtWork' /\ SavesArePrivate'
    BY <1>0, <2>1, <2>3
  <2>5. CookiesArrived'
    BY <1>0, <2>1, <2>3
  <2>6. AuthorizedAreGranted' /\ PastCheckGranted'
    BY <1>0, <2>1, <2>3
  <2> QED
    BY <2>2, <2>4, <2>5, <2>6
<1>2. ASSUME NEW p \in Proc, Route(p)
      PROVE  DialogInv'
  BY <1>0, <1>2 DEF Route
<1>3. ASSUME NEW p \in Proc, Check(p) \/ CheckFails(p)
      PROVE  DialogInv'
  BY <1>0, <1>3 DEF Check, CheckFails
<1>4. ASSUME NEW p \in Proc, OpenDialog(p)
      PROVE  DialogInv'
  <2>1. /\ pc[p] = "command"
        /\ UNCHANGED <<msg, row, cookie, granted>>
    BY <1>4 DEF OpenDialog
  <2>2. dialog' \subseteq sess' /\ sess' \subseteq User
    <3>1. From(p) \in User
      BY <1>0 DEF Message
    <3> HIDE DEF From
    <3> QED
      BY <1>0, <1>4, <3>1 DEF OpenDialog
  <2>3. PICK s \in {"ask", "done"} : pc' = [pc EXCEPT ![p] = s]
    BY <1>4 DEF OpenDialog
  <2> QED
    BY <1>0, <2>1, <2>2, <2>3
<1>5. ASSUME NEW p \in Proc, Ask(p) \/ SetDirectly(p) \/ PlainText(p) \/ Dialog(p) \/ Search(p)
      PROVE  DialogInv'
  <2>1. /\ pc[p] \in {"ask", "command", "dialog", "search"}
        /\ UNCHANGED <<msg, row, cookie, sess, dialog, granted>>
    BY <1>5 DEF Ask, SetDirectly, PlainText, Dialog, Search
  <2>2. PICK s \in {"done", "save", "dialog", "search"} :
          /\ pc' = [pc EXCEPT ![p] = s]
          /\ s = "save" => msg[p].private
    <3>1. CASE Ask(p)
      BY <3>1 DEF Ask
    <3>2. CASE SetDirectly(p)
      BY <3>2 DEF SetDirectly
    <3>3. CASE PlainText(p)
      BY <3>3 DEF PlainText
    <3>4. CASE Dialog(p)
      BY <3>4 DEF Dialog
    <3>5. CASE Search(p)
      BY <3>5 DEF Search
    <3> QED
      BY <1>5, <3>1, <3>2, <3>3, <3>4, <3>5
  <2> QED
    BY <1>0, <2>1, <2>2
<1>6. ASSUME NEW p \in Proc, Unset(p)
      PROVE  DialogInv'
  BY <1>0, <1>6 DEF Unset
<1>7. ASSUME NEW p \in Proc, Save(p)
      PROVE  DialogInv'
  BY <1>0, <1>7 DEF Save, Message
<1>8. ASSUME NEW p \in Proc, SaveFails(p)
      PROVE  DialogInv'
  <2>1. /\ pc[p] = "save"
        /\ pc' = [pc EXCEPT ![p] = "done"]
        /\ UNCHANGED <<msg, cookie, sess, dialog, granted>>
    BY <1>8 DEF SaveFails
  <2>2. /\ row' \in [User -> {"absent", "denied", "granted"}]
        /\ \A u \in User : row'[u] = "granted" => row[u] = "granted"
    BY <1>0, <1>8 DEF SaveFails
  <2> QED
    BY <1>0, <2>1, <2>2 DEF Message
<1>9. ASSUME NEW p \in Proc, Clear(p)
      PROVE  DialogInv'
  BY <1>0, <1>9 DEF Clear
<1>10. ASSUME NEW p \in Proc, Ensure(p) \/ AdminFails(p)
       PROVE  DialogInv'
  <2>1. /\ pc[p] \in {"ensure", "update"}
        /\ UNCHANGED <<msg, cookie, sess, dialog, granted>>
    BY <1>10 DEF Ensure, AdminFails
  <2>2. PICK s \in {"update", "done"} : pc' = [pc EXCEPT ![p] = s]
    BY <1>10 DEF Ensure, AdminFails
  <2>3. /\ row' \in [User -> {"absent", "denied", "granted"}]
        /\ \A u \in User : row'[u] = "granted" => row[u] = "granted"
    BY <1>0, <1>10 DEF Ensure, AdminFails
  <2> QED
    BY <1>0, <2>1, <2>2, <2>3 DEF Message
<1>11. ASSUME NEW p \in Proc, Update(p)
       PROVE  DialogInv'
  BY <1>0, <1>11 DEF Update, AdminCommands, Message
<1>12. ASSUME NEW u \in User, ExpireSession(u)
       PROVE  DialogInv'
  BY <1>0, <1>12 DEF ExpireSession
<1>13. CASE Restart
  BY <1>0, <1>13 DEF Restart
<1>14. CASE UNCHANGED vars
  BY <1>0, <1>14 DEF vars
<1> HIDE DEF DialogInv
<1> QED
  BY <1>1, <1>2, <1>3, <1>4, <1>5, <1>6, <1>7, <1>8, <1>9, <1>10, <1>11, <1>12, <1>13, <1>14
  DEF Next, Step

\* The invariant holds in every reachable state.
THEOREM DialogInvHolds == Spec => []DialogInv
<1> QED
  BY DialogInit, DialogStep, PTL DEF Spec

-----------------------------------------------------------------------------
(* What it gives.                                                          *)

\* The variables of the text commands keep their types, and a session is open
\* wherever a dialog is (HandleText, Manager.Set and ClearInteraction).
THEOREM DialogTyped == Spec => []TypeOK
<1>1. DialogInv => TypeOK
  BY DEF DialogInv
<1> QED
  BY <1>1, DialogInvHolds, PTL

\* Whoever sends what from which chat, and however the handlers overtake each
\* other, a stored cookie is the private message of its owner (set115).
THEOREM CookiesStayOwn == Spec => []CookiesAreOwn
<1>1. DialogInv => CookiesAreOwn
  BY DEF DialogInv, CookiesArrived, CookiesAreOwn
<1> QED
  BY <1>1, DialogInvHolds, PTL

\* Nothing is done for a message whose sender was authorized at no moment of its
\* handling, wherever a revocation overtakes it and whatever dialog is open
\* (HandleText, Authorized, set115).
THEOREM OnlyGrantedServed == Spec => OnlyGrantedAreServed
<1> DEFINE Granted == \A p \in Proc : Serves(p) => p \in granted
<1>1. DialogInv /\ [Next]_vars => [Granted]_vars
  <2> SUFFICES ASSUME DialogInv, Next, NEW p \in Proc, Serves(p)
               PROVE  p \in granted
    OBVIOUS
  <2>0. TypeOK /\ PastCheckGranted
    BY DEF DialogInv
  <2>1. CASE pc[p] \in {"command", "dialog", "ask", "save", "search"}
    BY <2>0, <2>1 DEF PastCheckGranted
  <2>2. CASE pc[p] \notin {"command", "dialog", "ask", "save", "search"}
    <3>1. cookie' # cookie \/ sess' \ sess # {} \/ dialog' \ dialog # {}
      BY <2>2 DEF Serves
    <3>2. pc'[p] # pc[p] /\ pc[p] # "idle"
      BY DEF Serves
    <3>3. PICK q \in Proc : OpenDialog(q) \/ Unset(q) \/ Save(q)
      BY <3>1 DEF Next, Step, Arrive, Route, Check, CheckFails, Ask, SetDirectly, PlainText,
                  Dialog, SaveFails, Clear, Search, Ensure, Update, AdminFails, ExpireSession,
                  Restart, tables, memory
    <3>4. pc[q] \in {"command", "save"} /\ \E s \in Steps : pc' = [pc EXCEPT ![q] = s]
      BY <3>3 DEF OpenDialog, Unset, Save, Goto, Steps
    <3>5. p = q
      BY <2>0, <3>2, <3>4 DEF TypeOK
    <3> QED
      BY <2>2, <3>4, <3>5
  <2> QED
    BY <2>1, <2>2
<1> QED
  BY <1>1, DialogInvHolds, PTL DEF Spec, OnlyGrantedAreServed

\* No step but an admin's /authorize or /revoke moves a user's authorization
\* (SetUserAuthorization, ensureUser, SetP115Config).
THEOREM OnlyAdminsAuthorize == Spec => AuthorizationIsCommanded
<1> DEFINE Commanded ==
      \A u \in User : (row'[u] = "granted") # (row[u] = "granted") =>
        \E p \in Proc :
          /\ pc[p] = "update"
          /\ IsAdmin(From(p)) /\ msg[p].target = u
          /\ msg[p].text = IF row'[u] = "granted" THEN "/authorize" ELSE "/revoke"
<1>1. DialogInv /\ [Next]_vars => [Commanded]_vars
  <2> SUFFICES ASSUME DialogInv, Next, NEW u \in User,
                      (row'[u] = "granted") # (row[u] = "granted")
               PROVE  \E p \in Proc :
                        /\ pc[p] = "update"
                        /\ IsAdmin(From(p)) /\ msg[p].target = u
                        /\ msg[p].text = IF row'[u] = "granted" THEN "/authorize" ELSE "/revoke"
    OBVIOUS
  <2>1. row' # row
    OBVIOUS
  <2>2. row \in [User -> {"absent", "denied", "granted"}] /\ AdminsAtWork
    BY DEF DialogInv, TypeOK
  <2>3. PICK p \in Proc : Save(p) \/ SaveFails(p) \/ Ensure(p) \/ Update(p)
    BY <2>1 DEF Next, Step, Arrive, Route, Check, CheckFails, OpenDialog, Ask, SetDirectly,
                Unset, PlainText, Dialog, Clear, Search, AdminFails, ExpireSession, Restart,
                tables
  <2>4. Update(p)
    BY <2>2, <2>3 DEF Save, SaveFails, Ensure
  <2>5. pc[p] = "update" /\ IsAdmin(From(p)) /\ msg[p].text \in AdminCommands
    BY <2>2, <2>4 DEF Update, AdminsAtWork
  <2>6. msg[p].text # "/note"
    BY <2>1, <2>4 DEF Update
  <2>7. CASE msg[p].text = "/authorize"
    BY <2>2, <2>4, <2>5, <2>7 DEF Update
  <2>8. CASE msg[p].text = "/revoke"
    BY <2>2, <2>4, <2>5, <2>8 DEF Update
  <2> QED
    BY <2>5, <2>6, <2>7, <2>8 DEF AdminCommands
<1> QED
  BY <1>1, DialogInvHolds, PTL DEF Spec, AuthorizationIsCommanded
=============================================================================
