---------------------------- MODULE HDHiveClient ----------------------------
(***************************************************************************)
(* hdhive.Client (internal/hdhive/client.go): many goroutines share one    *)
(* signed session with the HDHive proxy.  The mutex c.mu is held from the  *)
(* check of the session to the end of the HTTP exchange, and taken again   *)
(* to throw the session away after a 403; between the two another request  *)
(* may run.  A request is sent again at most once.                         *)
(*                                                                         *)
(* Keys are derived from the nonces of the negotiation, so a key is named  *)
(* by the session it was derived for.  What the proxy does with a session  *)
(* is external: it may forget one, and it may refuse a request for reasons *)
(* of its own.                                                             *)
(*                                                                         *)
(* A definition marked "Variant" is a plausible mistake in the definition  *)
(* after it.  Nothing here uses it: put in place of that definition, it    *)
(* must break the property PROJECT.json names.                             *)
(***************************************************************************)
EXTENDS Naturals, FiniteSets

CONSTANTS
  Req,          \* calls of request(), each in a goroutine of its own
  MaxSession    \* bound of the sessions the proxy issues, for checking only

ASSUME MaxSessionAssumption == MaxSession \in Nat

VARIABLES
  pc,         \* pc[p]: the step request p takes next
  attempt,    \* attempt[p]: 0, or 1 once the request is to be sent again
  mu,         \* the requests inside the mutex: none or one
  sessionID,  \* the session of the client, 0 when there is none
  sessionKey, \* the session its key was derived for
  sequence,   \* the sequence number last used
  fresh,      \* whether expiresAt is more than 30 s ahead
  issued,     \* sessions the proxy has issued: 1..issued
  live,       \* sessions the proxy still honours
  posts       \* history: every message sent

client == <<sessionID, sessionKey, sequence, fresh>>
proxy == <<issued, live>>
vars == <<pc, attempt, mu, sessionID, sessionKey, sequence, fresh, issued, live, posts>>

Steps == {"start", "ensure", "send", "await", "discard", "ok", "failed"}

Ended == {"ok", "failed"}

Goto(p, step) == pc' = [pc EXCEPT ![p] = step]

Release(p) == mu' = mu \ {p}

-----------------------------------------------------------------------------
\* signedRequest, under the mutex.
Lock(p) ==
  /\ pc[p] = "start" /\ mu = {}
  /\ mu' = {p}
  /\ Goto(p, "ensure")
  /\ UNCHANGED <<attempt, client, proxy, posts>>

Usable == sessionID # 0 /\ fresh

KeepSession(p) ==
  /\ pc[p] = "ensure" /\ Usable
  /\ Goto(p, "send")
  /\ UNCHANGED <<attempt, mu, client, proxy, posts>>

\* A proxy whose answer carries the right proof: everything is replaced at once.
Negotiate(p) ==
  /\ pc[p] = "ensure" /\ ~Usable
  /\ issued < MaxSession
  /\ issued' = issued + 1
  /\ live' = live \union {issued + 1}
  /\ sessionID' = issued + 1
  /\ sessionKey' = issued + 1
  /\ sequence' = 0
  /\ fresh' = TRUE
  /\ Goto(p, "send")
  /\ UNCHANGED <<attempt, mu, posts>>

\* No nonce, no answer, an incomplete one, or a wrong proof: the old session
\* stays, and the proxy may have issued one that nobody knows of.
NegotiateFails(p) ==
  /\ pc[p] = "ensure" /\ ~Usable
  /\ \/ UNCHANGED proxy
     \/ /\ issued < MaxSession
        /\ issued' = issued + 1
        /\ live' = live \union {issued + 1}
  /\ Release(p)
  /\ Goto(p, "failed")
  /\ UNCHANGED <<attempt, client, posts>>

\* The message request p signs with sequence number seq.
Message(p, seq) ==
  [req |-> p, attempt |-> attempt[p], session |-> sessionID, key |-> sessionKey, seq |-> seq]

\* Variant: the number is used up only when the answer is in.
SendUncounted(p) ==
  /\ pc[p] = "send"
  /\ posts' = posts \union {Message(p, sequence + 1)}
  /\ Goto(p, "await")
  /\ UNCHANGED <<attempt, mu, client, proxy>>

Send(p) ==
  /\ pc[p] = "send"
  /\ sequence' = sequence + 1
  /\ posts' = posts \union {Message(p, sequence + 1)}
  /\ Goto(p, "await")
  /\ UNCHANGED <<attempt, mu, sessionID, sessionKey, fresh, proxy>>

-----------------------------------------------------------------------------
\* request, once signedRequest has returned and released the mutex.

\* A 2xx answer: the proxy honoured the session the client signed with.
Succeed(p) ==
  /\ pc[p] = "await" /\ sessionID \in live
  /\ Release(p)
  /\ Goto(p, "ok")
  /\ UNCHANGED <<attempt, client, proxy, posts>>

\* Variant: every such 403 is retried.
RefuseForever(p) ==
  /\ pc[p] = "await"
  /\ Release(p)
  /\ Goto(p, "discard")
  /\ UNCHANGED <<attempt, client, proxy, posts>>

\* A 403 whose message authFailure recognises; only the first is retried.
Refuse(p) ==
  /\ pc[p] = "await"
  /\ Release(p)
  /\ Goto(p, IF attempt[p] = 0 THEN "discard" ELSE "failed")
  /\ UNCHANGED <<attempt, client, proxy, posts>>

\* Variant: without a timeout the client waits for the proxy to answer.
FailAnswered(p) ==
  /\ pc[p] = "await" /\ sessionID \notin live
  /\ Release(p)
  /\ Goto(p, "failed")
  /\ UNCHANGED <<attempt, client, proxy, posts>>

\* A timeout, a cancelled context, unreadable JSON, any other status.
Fail(p) ==
  /\ pc[p] = "await"
  /\ Release(p)
  /\ Goto(p, "failed")
  /\ UNCHANGED <<attempt, client, proxy, posts>>

\* Variant: the request is signed again under the session just refused.
DiscardNothing(p) ==
  /\ pc[p] = "discard" /\ mu = {}
  /\ attempt' = [attempt EXCEPT ![p] = @ + 1]
  /\ Goto(p, "start")
  /\ UNCHANGED <<mu, client, proxy, posts>>

\* Variant: the session is thrown away without taking the mutex.
DiscardUnlocked(p) ==
  /\ pc[p] = "discard"
  /\ sessionID' = 0 /\ sessionKey' = 0 /\ fresh' = FALSE
  /\ attempt' = [attempt EXCEPT ![p] = @ + 1]
  /\ Goto(p, "start")
  /\ UNCHANGED <<mu, sequence, proxy, posts>>

\* The client's session is thrown away, be it the refused one or a newer one.
Discard(p) ==
  /\ pc[p] = "discard" /\ mu = {}
  /\ sessionID' = 0 /\ sessionKey' = 0 /\ fresh' = FALSE
  /\ attempt' = [attempt EXCEPT ![p] = @ + 1]
  /\ Goto(p, "start")
  /\ UNCHANGED <<mu, sequence, proxy, posts>>

-----------------------------------------------------------------------------
\* The clock reaches expiresAt - 30 s.
Expire ==
  /\ fresh
  /\ fresh' = FALSE
  /\ UNCHANGED <<pc, attempt, mu, sessionID, sessionKey, sequence, proxy, posts>>

\* The proxy forgets a session (it restarts, or never meant to keep it 60 s).
Forget(s) ==
  /\ s \in live
  /\ live' = live \ {s}
  /\ UNCHANGED <<pc, attempt, mu, client, issued, posts>>

Init ==
  /\ pc = [p \in Req |-> "start"]
  /\ attempt = [p \in Req |-> 0]
  /\ mu = {}
  /\ sessionID = 0 /\ sessionKey = 0 /\ sequence = 0 /\ fresh = FALSE
  /\ issued = 0 /\ live = {}
  /\ posts = {}

\* What the worker does by itself, and what takes an answer of the proxy.
LocalStep(p) ==
  Lock(p) \/ KeepSession(p) \/ NegotiateFails(p) \/ Send(p) \/ Fail(p) \/ Discard(p)

AnswerStep(p) == Negotiate(p) \/ Succeed(p) \/ Refuse(p)

Next ==
  \/ \E p \in Req : LocalStep(p) \/ AnswerStep(p)
  \/ \E s \in live : Forget(s)
  \/ Expire

Spec == Init /\ [][Next]_vars

\* The HTTP client's timeout ends every exchange and a free mutex is taken; the
\* proxy owes nothing.
FairSpec == Spec /\ \A p \in Req : WF_vars(LocalStep(p))

-----------------------------------------------------------------------------
(* Properties.                                                             *)

Messages == [req : Req, attempt : {0, 1}, session : Nat, key : Nat, seq : Nat]

TypeOK ==
  /\ pc \in [Req -> Steps]
  /\ attempt \in [Req -> {0, 1}]
  /\ mu \in SUBSET Req
  /\ sessionID \in Nat /\ sessionKey \in Nat /\ sequence \in Nat /\ fresh \in BOOLEAN
  /\ issued \in Nat /\ live \in SUBSET (1..issued)
  /\ posts \subseteq Messages

\* However requests, refusals and expiries interleave, every message names a
\* session and is signed with that session's own key.
SignedForItsSession == \A m \in posts : m.session # 0 /\ m.key = m.session

\* Within a session the numbers only grow: no two messages, not even those of
\* a request that timed out, ever share one.
SequencesOnlyGrow ==
  [][\A m \in posts' \ posts : \A n \in posts :
       m.session = n.session => m.seq > n.seq]_vars

\* A message is sent again once at most, and never under the session that was
\* refused, even when another request renegotiated or discarded in between.
RetriesUseAnotherSession ==
  \A m, n \in posts : m.req = n.req /\ m # n =>
    m.attempt # n.attempt /\ m.session # n.session

\* Nobody waits for the shared session for ever.
RequestsEnd == \A p \in Req : <>(pc[p] \in Ended)
=============================================================================
