------------------------- MODULE HDHiveClientProofs -------------------------
(***************************************************************************)
(* Theorems about HDHiveClient, for any set of requests and any number of  *)
(* sessions.                                                               *)
(***************************************************************************)
EXTENDS HDHiveClient, TLAPS

-----------------------------------------------------------------------------
(* The inductive invariant.                                                *)

\* The steps of signedRequest, which holds the mutex throughout.
Inside == {"ensure", "send", "await"}

\* The steps before the message of the current attempt is sent.
Unsent == {"start", "ensure", "send"}

Exclusive ==
  /\ \A p \in Req : pc[p] \in Inside => p \in mu
  /\ \A p, q \in mu : p = q

\* Nothing is signed without a session, and the key is always the session's own.
Ready ==
  /\ sessionKey = sessionID /\ sessionID <= issued
  /\ \A p \in Req : pc[p] = "send" => sessionID # 0

\* Only the first refusal is answered by a second attempt.
DiscardedOnce == \A p \in Req : pc[p] = "discard" => attempt[p] = 0

\* What was sent names a session that was issued, by a number already counted.
Counted ==
  \A m \in posts :
    /\ m.session # 0 /\ m.key = m.session /\ m.session <= issued
    /\ m.session = sessionID => m.seq <= sequence

\* An attempt sends one message; one that is still to come finds another session
\* than those its request has used.
OnePerAttempt ==
  \A m \in posts :
    /\ m.attempt <= attempt[m.req]
    /\ pc[m.req] \in Unsent => m.attempt < attempt[m.req] /\ m.session # sessionID

ClientInv ==
  /\ TypeOK /\ Exclusive /\ Ready /\ DiscardedOnce
  /\ Counted /\ OnePerAttempt /\ RetriesUseAnotherSession

\* At the start nothing was sent and nobody is inside.
LEMMA ClientInit == Init => ClientInv
<1> SUFFICES ASSUME Init
             PROVE  ClientInv
  OBVIOUS
<1>1. TypeOK
  BY DEF Init, TypeOK, Steps
<1>2. Exclusive /\ Ready /\ DiscardedOnce
  BY DEF Init, Exclusive, Inside, Ready, DiscardedOnce
<1>3. Counted /\ OnePerAttempt /\ RetriesUseAnotherSession
  BY DEF Init, Counted, OnePerAttempt, RetriesUseAnotherSession
<1> QED
  BY <1>1, <1>2, <1>3 DEF ClientInv

\* Every step keeps the invariant; Send is the one that adds a message, and
\* Negotiate and Discard are those that change the session.
LEMMA ClientStep == ClientInv /\ [Next]_vars => ClientInv'
<1> SUFFICES ASSUME ClientInv, [Next]_vars
             PROVE  ClientInv'
  OBVIOUS
<1>0. ClientInv
  OBVIOUS
<1> USE DEF ClientInv, TypeOK, Steps, Exclusive, Inside, Ready, DiscardedOnce, Counted, Unsent,
            OnePerAttempt, RetriesUseAnotherSession, Goto, Release, client, proxy, Messages
<1>1. ASSUME NEW p \in Req, Lock(p)
      PROVE  ClientInv'
  BY <1>0, <1>1 DEF Lock
<1>2. ASSUME NEW p \in Req, KeepSession(p)
      PROVE  ClientInv'
  BY <1>0, <1>2 DEF KeepSession, Usable
<1>3. ASSUME NEW p \in Req, Negotiate(p)
      PROVE  ClientInv'
  BY <1>0, <1>3 DEF Negotiate
<1>4. ASSUME NEW p \in Req, NegotiateFails(p)
      PROVE  ClientInv'
  <2>1. /\ pc' = [pc EXCEPT ![p] = "failed"] /\ mu' = mu \ {p}
        /\ UNCHANGED <<attempt, sessionID, sessionKey, sequence, fresh, posts>>
    BY <1>4 DEF NegotiateFails
  <2>2. issued' \in Nat /\ issued' >= issued /\ live' \subseteq 1..issued'
    <3>1. issued \in Nat /\ live \subseteq 1..issued
      BY <1>0
    <3>2. CASE UNCHANGED <<issued, live>>
      BY <3>1, <3>2
    <3>3. CASE issued' = issued + 1 /\ live' = live \union {issued + 1}
      BY <3>1, <3>3
    <3> QED
      BY <1>4, <3>2, <3>3 DEF NegotiateFails
  <2>3. (TypeOK /\ Exclusive /\ Ready /\ DiscardedOnce)'
    BY <1>0, <2>1, <2>2
  <2>4. (Counted /\ OnePerAttempt /\ RetriesUseAnotherSession)'
    BY <1>0, <2>1, <2>2
  <2> HIDE DEF TypeOK, Exclusive, Ready, DiscardedOnce, Counted, OnePerAttempt,
               RetriesUseAnotherSession
  <2> QED
    BY <2>3, <2>4
<1>5. ASSUME NEW p \in Req, Send(p)
      PROVE  ClientInv'
  <2> DEFINE m == Message(p, sequence + 1)
  <2>1. /\ pc[p] = "send" /\ pc' = [pc EXCEPT ![p] = "await"] /\ posts' = posts \union {m}
        /\ sequence' = sequence + 1
        /\ UNCHANGED <<attempt, mu, sessionID, sessionKey, fresh, issued, live>>
    BY <1>5 DEF Send
  <2>2. /\ m.req = p /\ m.attempt = attempt[p] /\ m.session = sessionID
        /\ m.key = sessionKey /\ m.seq = sequence + 1 /\ m \in Messages
    BY <1>0 DEF Message
  <2> HIDE DEF m
  <2>3. (TypeOK /\ Exclusive /\ Ready /\ DiscardedOnce)'
    BY <1>0, <2>1, <2>2
  <2>4. Counted'
    BY <1>0, <2>1, <2>2
  <2>5. OnePerAttempt'
    BY <1>0, <2>1, <2>2
  <2>6. \A n \in posts : n.req = p => n.attempt < attempt[p] /\ n.session # sessionID
    BY <1>0, <2>1
  <2>7. RetriesUseAnotherSession'
    BY <1>0, <2>1, <2>2, <2>6
  <2> HIDE DEF TypeOK, Exclusive, Ready, DiscardedOnce, Counted, OnePerAttempt,
               RetriesUseAnotherSession
  <2> QED
    BY <2>3, <2>4, <2>5, <2>7
<1>6. ASSUME NEW p \in Req, Succeed(p)
      PROVE  ClientInv'
  BY <1>0, <1>6 DEF Succeed
<1>7. ASSUME NEW p \in Req, Refuse(p)
      PROVE  ClientInv'
  BY <1>0, <1>7 DEF Refuse
<1>8. ASSUME NEW p \in Req, Fail(p)
      PROVE  ClientInv'
  BY <1>0, <1>8 DEF Fail
<1>9. ASSUME NEW p \in Req, Discard(p)
      PROVE  ClientInv'
  <2>1. /\ pc[p] = "discard" /\ pc' = [pc EXCEPT ![p] = "start"]
        /\ sessionID' = 0 /\ sessionKey' = 0 /\ fresh' = FALSE
        /\ attempt[p] = 0 /\ attempt' = [attempt EXCEPT ![p] = 1]
        /\ UNCHANGED <<mu, sequence, issued, live, posts>>
    <3>1. /\ pc[p] = "discard" /\ pc' = [pc EXCEPT ![p] = "start"]
          /\ sessionID' = 0 /\ sessionKey' = 0 /\ fresh' = FALSE
          /\ attempt' = [attempt EXCEPT ![p] = attempt[p] + 1]
          /\ UNCHANGED <<mu, sequence, issued, live, posts>>
      BY <1>9 DEF Discard
    <3>2. attempt[p] = 0
      BY <1>0, <3>1
    <3> QED
      BY <3>1, <3>2
  <2>2. (TypeOK /\ Exclusive /\ Ready /\ DiscardedOnce)'
    <3>1. TypeOK /\ Exclusive /\ Ready /\ DiscardedOnce
      BY <1>0
    <3>2. TypeOK'
      BY <2>1, <3>1
    <3>3. Exclusive' /\ DiscardedOnce'
      BY <2>1, <3>1
    <3>4. \A q \in Req : pc'[q] # "send"
      <4>1. \A q \in Req : pc[q] # "send"
        BY <1>9, <3>1 DEF Discard
      <4> QED
        BY <2>1, <3>1, <4>1
    <3>5. issued \in Nat /\ 0 <= issued
      BY <3>1
    <3>6. Ready'
      BY <2>1, <3>4, <3>5
    <3> QED
      BY <3>2, <3>3, <3>6
  <2>3. \A m \in posts : m \in Messages /\ m.session # 0 /\ m.attempt <= attempt[m.req]
    BY <1>0
  <2>4. Counted' /\ RetriesUseAnotherSession'
    BY <1>0, <2>1, <2>3
  <2>5. OnePerAttempt'
    <3>1. \A m \in posts : m.req # p => attempt'[m.req] = attempt[m.req] /\ pc'[m.req] = pc[m.req]
      BY <1>0, <2>1, <2>3
    <3>2. \A m \in posts : m.req = p => m.attempt = 0
      BY <2>1, <2>3
    <3> QED
      BY <1>0, <2>1, <2>3, <3>1, <3>2
  <2> HIDE DEF TypeOK, Exclusive, Ready, DiscardedOnce, Counted, OnePerAttempt,
               RetriesUseAnotherSession
  <2> QED
    BY <2>2, <2>4, <2>5
<1>10. ASSUME NEW s \in live, Forget(s)
       PROVE  ClientInv'
  BY <1>0, <1>10 DEF Forget
<1>11. CASE Expire
  BY <1>0, <1>11 DEF Expire
<1>12. CASE UNCHANGED vars
  <2>1. /\ UNCHANGED <<pc, attempt, mu, sessionID, sessionKey>>
        /\ UNCHANGED <<sequence, fresh, issued, live, posts>>
    BY <1>12 DEF vars
  <2>2. (TypeOK /\ Exclusive /\ Ready /\ DiscardedOnce)'
    BY <1>0, <2>1
  <2>3. (Counted /\ OnePerAttempt /\ RetriesUseAnotherSession)'
    BY <1>0, <2>1
  <2> HIDE DEF TypeOK, Exclusive, Ready, DiscardedOnce, Counted, OnePerAttempt,
               RetriesUseAnotherSession
  <2> QED
    BY <2>2, <2>3
<1> HIDE DEF ClientInv
<1> QED
  BY <1>1, <1>2, <1>3, <1>4, <1>5, <1>6, <1>7, <1>8, <1>9, <1>10, <1>11, <1>12
  DEF Next, LocalStep, AnswerStep

\* The inductive invariant holds for ever.
LEMMA ClientInvHolds == Spec => []ClientInv
  BY ClientInit, ClientStep, PTL DEF Spec

\* Every reachable state of the client is well typed (client.go).
THEOREM ClientTyped == Spec => []TypeOK
<1>1. ClientInv => TypeOK
  BY DEF ClientInv
<1> QED
  BY <1>1, ClientInvHolds, PTL

\* However many requests share the client, every message is signed with the key
\* of the very session it names (client.go signedRequest, ensureSession).
THEOREM SignaturesFit == Spec => []SignedForItsSession
<1>1. ClientInv => SignedForItsSession
  BY DEF ClientInv, Counted, SignedForItsSession
<1> QED
  BY <1>1, ClientInvHolds, PTL

\* A request is sent twice at most, the second time in another session, whoever
\* renegotiated or discarded in between (client.go request).
THEOREM RetriesChangeSession == Spec => []RetriesUseAnotherSession
<1>1. ClientInv => RetriesUseAnotherSession
  BY DEF ClientInv
<1> QED
  BY <1>1, ClientInvHolds, PTL

\* No number is used twice in a session: the mutex is held from the check of
\* the session to the answer, and the count goes up before the message leaves
\* (client.go signedRequest).
THEOREM NumbersGrow == Spec => SequencesOnlyGrow
<1>1. ASSUME ClientInv, [Next]_vars
      PROVE  \A m \in posts' \ posts : \A n \in posts : m.session = n.session => m.seq > n.seq
  <2>1. ASSUME NEW p \in Req, Send(p)
        PROVE  \A m \in posts' \ posts : \A n \in posts :
                 m.session = n.session => m.seq > n.seq
    <3>1. \A m \in posts' \ posts : m = Message(p, sequence + 1)
      BY <2>1 DEF Send
    <3>2. \A m \in posts' \ posts : m.session = sessionID /\ m.seq = sequence + 1
      BY <3>1 DEF Message
    <3>3. \A n \in posts : n.session = sessionID => n.seq \in Nat /\ n.seq <= sequence
      BY <1>1 DEF ClientInv, Counted, TypeOK, Messages
    <3>4. sequence \in Nat
      BY <1>1 DEF ClientInv, TypeOK
    <3> QED
      BY <3>2, <3>3, <3>4
  <2>2. ASSUME UNCHANGED posts
        PROVE  posts' \ posts = {}
    BY <2>2
  <2> QED
    BY <1>1, <2>1, <2>2
    DEF Next, LocalStep, AnswerStep, Lock, KeepSession, Negotiate, NegotiateFails, Succeed,
        Refuse, Fail, Discard, Forget, Expire, vars
<1>2. ClientInv /\ [Next]_vars =>
        [\A m \in posts' \ posts : \A n \in posts : m.session = n.session => m.seq > n.seq]_vars
  BY <1>1
<1> QED
  BY <1>2, ClientInvHolds, PTL DEF Spec, SequencesOnlyGrow
=============================================================================
