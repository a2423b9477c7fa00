---------------------------- MODULE SessionGate ----------------------------
(***************************************************************************)
(* What the unlock handlers rely on in the session manager: a bounded set  *)
(* of sessions, each with the unlock statuses of one user, that expire at  *)
(* a moment nobody controls and are swept by the next method that looks.   *)
(* UnlockProtocol is built on these actions; SessionManager, which has the *)
(* clock and the callback tokens, is shown to implement them.              *)
(***************************************************************************)
EXTENDS Naturals, FiniteSets

CONSTANTS
  User,         \* Telegram users
  Res,          \* HDHive resource IDs
  MaxSessions   \* SESSION_CAPACITY

ASSUME MaxSessionsAssumption == MaxSessions \in Nat

VARIABLES
  sess,     \* users with a session in session.Manager.sessions
  stale,    \* those whose session has expired and was not swept yet
  status    \* status[k]: State.Unlocks of the user's session

gate == <<sess, stale, status>>

Key == User \X Res

Statuses == {"none", "pending", "in_flight", "success", "rejected", "unknown"}

\* BeginUnlock refuses a key in one of these states.
Blocking == {"pending", "in_flight", "success", "unknown"}

\* What cleanupLocked leaves.
Live == sess \ stale

LiveStatus == [k \in Key |-> IF k[1] \in stale THEN "none" ELSE status[k]]

\* The sweep with which a method starts, when it changes nothing else.
Sweep ==
  /\ sess' = Live
  /\ stale' = {}
  /\ status' = LiveStatus

\* The sweep, and the status st in the session of the key's user.
Store(k, st) ==
  /\ sess' = Live \union {k[1]}
  /\ stale' = {}
  /\ status' = [LiveStatus EXCEPT ![k] = st]

Room(u) == u \in Live \/ Cardinality(Live) < MaxSessions

\* BeginUnlock reports no error.
Admits(k) == Room(k[1]) /\ LiveStatus[k] \notin Blocking

Begin(k) == IF Admits(k) THEN Store(k, "pending") ELSE Sweep

\* TransitionUnlock reports no error.
Moves(k, from) == k[1] \in Live /\ LiveStatus[k] = from

Transition(k, from, to) == IF Moves(k, from) THEN Store(k, to) ELSE Sweep

\* SetUnlockStatus, whose ErrNotFound its callers ignore.
Mark(k, st) == IF k[1] \in Live THEN Store(k, st) ELSE Sweep

\* A dialog opens, or renews, the session of its user.
Open(u) ==
  /\ Room(u)
  /\ sess' = Live \union {u}
  /\ stale' = {}
  /\ status' = LiveStatus

\* ClearInteraction renews a session without a sweep and without a look at the
\* clock: one that has expired comes back with its statuses.
Renew(u) ==
  /\ u \in sess
  /\ stale' = stale \ {u}
  /\ UNCHANGED <<sess, status>>

Drop(u) ==
  /\ sess' = sess \ {u}
  /\ stale' = stale \ {u}
  /\ status' = [k \in Key |-> IF k[1] = u THEN "none" ELSE status[k]]

\* Time passes.
Expire(us) ==
  /\ stale' = stale \union us
  /\ UNCHANGED <<sess, status>>

GateInit ==
  /\ sess = {}
  /\ stale = {}
  /\ status = [k \in Key |-> "none"]

\* What happens to the sessions besides unlocks: other handlers and the clock.
GateEnvironment ==
  \/ Sweep
  \/ \E u \in User : Open(u) \/ Renew(u)
  \/ \E us \in SUBSET Live : us # {} /\ Expire(us)

GateNext ==
  \/ GateEnvironment
  \/ \E k \in Key : Begin(k) \/ Transition(k, "pending", "in_flight")
  \/ \E k \in Key, st \in {"success", "rejected", "unknown"} : Mark(k, st)
  \/ \E u \in User : Drop(u)

GateSpec == GateInit /\ [][GateNext]_gate
=============================================================================
