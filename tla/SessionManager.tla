--------------------------- MODULE SessionManager ---------------------------
(***************************************************************************)
(* session.Manager (internal/session/session.go): the in-memory sessions,  *)
(* the unlock gate inside them, and the callback tokens, with a clock, a   *)
(* time to live and a capacity.  Every method holds the manager's mutex    *)
(* from its first to its last line, so every method is one action; almost  *)
(* every one first sweeps what has expired.                                *)
(*                                                                         *)
(* A definition marked "Variant" is a plausible mistake in the definition  *)
(* after it.  Nothing here uses it: put in place of that definition, it    *)
(* must break the property PROJECT.json names.                             *)
(***************************************************************************)
EXTENDS Naturals, FiniteSets

CONSTANTS
  User, Resource, Token,
  TTL,        \* SESSION_TTL, in ticks of the clock
  Capacity,   \* SESSION_CAPACITY
  MaxTime     \* bound of the clock, for model checking only

ASSUME ManagerAssumption ==
  TTL \in Nat \ {0} /\ Capacity \in Nat \ {0} /\ MaxTime \in Nat

VARIABLES
  now,        \* the manager's clock
  sessions,   \* user -> [kind, unlocks, expires], for the users in the map
  callbacks,  \* token -> [user, expires], for the tokens in the map
  answer,     \* the callback the last call resolved, if it resolved one
  bound       \* history: token -> the owner and the time of its last binding

vars == <<now, sessions, callbacks, answer, bound>>

Kinds == {"", "set115"}

Statuses == {"none", "pending", "in_flight", "success", "rejected", "unknown"}

Session == [kind : Kinds, unlocks : [Resource -> Statuses], expires : Nat]

Callback == [user : User, expires : Nat]

NoUnlocks == [r \in Resource |-> "none"]

NoAnswer == [token |-> "none"]

\* Maps that lose, or gain, a key.
Without(f, x) == [y \in DOMAIN f \ {x} |-> f[y]]

With(f, x, v) == [y \in DOMAIN f \union {x} |-> IF y = x THEN v ELSE f[y]]

-----------------------------------------------------------------------------
\* cleanupLocked: an entry lives while its expiry lies in the future.
Swept(f) == [x \in {y \in DOMAIN f : f[y].expires > now} |-> f[x]]

Sweep == sessions' = Swept(sessions) /\ callbacks' = Swept(callbacks)

\* A call that neither binds nor resolves a token.
Silent == answer' = NoAnswer /\ UNCHANGED <<now, bound>>

Full(s) == Cardinality(DOMAIN s) >= Capacity

\* A session as it is stored now.
Renewed(kind, unlocks) == [kind |-> kind, unlocks |-> unlocks, expires |-> now + TTL]

\* The unlocks a user has, or starts with.
UnlocksIn(live, u) == IF u \in DOMAIN live THEN live[u].unlocks ELSE NoUnlocks

\* The capacity bars a user only from opening a session.
Room(live, u) == u \in DOMAIN live \/ ~Full(live)

\* Variant: the map of unlocks stays nil until the first unlock.
SetNilUnlocks(u, kind) ==
  /\ LET live == Swept(sessions) IN
       sessions' = IF u \notin DOMAIN live /\ Full(live) THEN live
                   ELSE With(live, u, Renewed(kind, << >>))
  /\ callbacks' = Swept(callbacks)
  /\ Silent

\* A session keeps its unlocks when its dialog changes; a new one needs room.
Set(u, kind) ==
  /\ LET live == Swept(sessions) IN
       sessions' = IF Room(live, u)
                     THEN With(live, u, Renewed(kind, UnlocksIn(live, u))) ELSE live
  /\ callbacks' = Swept(callbacks)
  /\ Silent

\* Get, UnlockStatus and Len only sweep and read.
Read == Sweep /\ Silent

\* Ends the dialog and renews the session, without a sweep before.
ClearInteraction(u) ==
  /\ u \in DOMAIN sessions
  /\ sessions' = With(sessions, u, Renewed("", sessions[u].unlocks))
  /\ UNCHANGED callbacks
  /\ Silent

Delete(u) ==
  /\ sessions' = Without(sessions, u)
  /\ UNCHANGED callbacks
  /\ Silent

-----------------------------------------------------------------------------
(* Callback tokens.                                                        *)

\* Variant: a random token is stored without looking whether it is taken.
BindUnchecked(u, t) ==
  /\ callbacks' = With(Swept(callbacks), t, [user |-> u, expires |-> now + TTL])
  /\ bound' = With(bound, t, [user |-> u, at |-> now])
  /\ sessions' = Swept(sessions)
  /\ answer' = NoAnswer
  /\ UNCHANGED now

\* A random token that is not in use.  (When four tokens in a row are in use,
\* BindCallback only sweeps and reports an error: that is Read.)
BindCallback(u, t) ==
  /\ t \notin DOMAIN Swept(callbacks)
  /\ callbacks' = With(Swept(callbacks), t, [user |-> u, expires |-> now + TTL])
  /\ bound' = With(bound, t, [user |-> u, at |-> now])
  /\ sessions' = Swept(sessions)
  /\ answer' = NoAnswer
  /\ UNCHANGED now

\* Variant: the token alone opens the callback.
ResolveAnyone(t, u) ==
  /\ Sweep
  /\ answer' = IF t \in DOMAIN Swept(callbacks)
                 THEN [token |-> t, user |-> u, at |-> now] ELSE NoAnswer
  /\ UNCHANGED <<now, bound>>

\* ErrNotFound for an unknown or expired token, ErrCallbackOwner for a stranger.
ResolveCallback(t, u) ==
  /\ Sweep
  /\ LET live == Swept(callbacks) IN
       answer' = IF t \in DOMAIN live /\ live[t].user = u
                   THEN [token |-> t, user |-> u, at |-> now] ELSE NoAnswer
  /\ UNCHANGED <<now, bound>>

DeleteCallback(t) ==
  /\ callbacks' = Without(callbacks, t)
  /\ UNCHANGED sessions
  /\ Silent

-----------------------------------------------------------------------------
(* The unlock gate.                                                        *)

Blocking == {"pending", "in_flight", "success", "unknown"}

\* The unlock status st is stored and the session renewed, or opened.
Store(live, u, r, st) ==
  With(live, u, Renewed(IF u \in DOMAIN live THEN live[u].kind ELSE "",
                        [UnlocksIn(live, u) EXCEPT ![r] = st]))

\* Variant: only Set looks at the capacity.
BeginUnbounded(u, r) ==
  /\ LET live == Swept(sessions) IN
       sessions' = IF UnlocksIn(live, u)[r] \notin Blocking
                     THEN Store(live, u, r, "pending") ELSE live
  /\ callbacks' = Swept(callbacks)
  /\ Silent

\* ErrCapacity and ErrUnlockDuplicate leave everything as the sweep left it.
BeginUnlock(u, r) ==
  /\ LET live == Swept(sessions) IN
       sessions' = IF Room(live, u) /\ UnlocksIn(live, u)[r] \notin Blocking
                     THEN Store(live, u, r, "pending") ELSE live
  /\ callbacks' = Swept(callbacks)
  /\ Silent

\* Variant: a transition needs no living session, only one that is in the map.
TransitionUnswept(u, r, from, to) ==
  /\ sessions' = IF u \in DOMAIN sessions /\ sessions[u].unlocks[r] = from
                   THEN Store(sessions, u, r, to) ELSE sessions
  /\ callbacks' = Swept(callbacks)
  /\ Silent

TransitionUnlock(u, r, from, to) ==
  /\ LET live == Swept(sessions) IN
       sessions' = IF u \in DOMAIN live /\ live[u].unlocks[r] = from
                     THEN Store(live, u, r, to) ELSE live
  /\ callbacks' = Swept(callbacks)
  /\ Silent

SetUnlockStatus(u, r, st) ==
  /\ LET live == Swept(sessions) IN
       sessions' = IF u \in DOMAIN live THEN Store(live, u, r, st) ELSE live
  /\ callbacks' = Swept(callbacks)
  /\ Silent

-----------------------------------------------------------------------------
Tick ==
  /\ now < MaxTime
  /\ now' = now + 1
  /\ answer' = NoAnswer
  /\ UNCHANGED <<sessions, callbacks, bound>>

Init ==
  /\ now = 0
  /\ sessions = << >>
  /\ callbacks = << >>
  /\ answer = NoAnswer
  /\ bound = << >>

\* The answers a handler stores once an unlock has ended.
Outcomes == {"success", "rejected", "unknown"}

Next ==
  \/ \E u \in User : ClearInteraction(u) \/ Delete(u)
  \/ \E u \in User, kind \in Kinds : Set(u, kind)
  \/ \E u \in User, t \in Token : BindCallback(u, t) \/ ResolveCallback(t, u)
  \/ \E t \in Token : DeleteCallback(t)
  \/ \E u \in User, r \in Resource : BeginUnlock(u, r)
  \/ \E u \in User, r \in Resource : TransitionUnlock(u, r, "pending", "in_flight")
  \/ \E u \in User, r \in Resource, st \in Outcomes : SetUnlockStatus(u, r, st)
  \/ Read
  \/ Tick

Spec == Init /\ [][Next]_vars

-----------------------------------------------------------------------------
(* Properties.                                                             *)

TypeOK ==
  /\ now \in 0..MaxTime
  /\ DOMAIN sessions \subseteq User
  /\ \A u \in DOMAIN sessions : sessions[u] \in Session
  /\ DOMAIN callbacks \subseteq Token
  /\ \A t \in DOMAIN callbacks : callbacks[t] \in Callback

\* However sessions are opened (a dialog or an unlock) and whatever has not been
\* swept yet, the map never outgrows its capacity.
CapacityHolds == Cardinality(DOMAIN sessions) <= Capacity

\* A press is served only for the user the button was made for, and only within
\* the time to live of that very binding, even when the random token is reused.
AnswersHonourBinding ==
  answer # NoAnswer =>
    /\ bound[answer.token].user = answer.user
    /\ answer.at < bound[answer.token].at + TTL

\* A token in use is never handed to another user before it expires.
TokensAreNotStolen ==
  [][\A t \in DOMAIN callbacks \intersect DOMAIN callbacks' :
       callbacks[t].expires > now => callbacks'[t] = callbacks[t]]_vars

\* The refinement mapping: a session is stale from its expiry to its sweep.
Gate == INSTANCE SessionGate WITH
  Res <- Resource,
  MaxSessions <- Capacity,
  sess <- DOMAIN sessions,
  stale <- {u \in DOMAIN sessions : sessions[u].expires <= now},
  status <- [k \in User \X Resource |->
               IF k[1] \in DOMAIN sessions THEN sessions[k[1]].unlocks[k[2]] ELSE "none"]

\* Dialogs, tokens, sweeps and the clock do to the unlock statuses nothing but
\* what SessionGate allows: while a session lives, no call reopens a closed gate
\* or skips its order, and an expired one answers as if it were gone.  The proofs
\* about the paid unlock rest on this: UnlockProtocol takes its gate from there
\* (session.go, every method).
ImplementsGate == Gate!GateSpec
=============================================================================
