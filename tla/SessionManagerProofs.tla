------------------------ MODULE SessionManagerProofs ------------------------
(***************************************************************************)
(* Theorems about SessionManager, for any sets of users, resources and     *)
(* tokens, any time to live, capacity and bound of the clock: its own      *)
(* promises first, and then that it implements SessionGate.                *)
(***************************************************************************)
EXTENDS SessionManager, FiniteSetTheorems, TLAPS

-----------------------------------------------------------------------------
(* The helpers on maps.                                                    *)

\* A sweep keeps the entries that live, as they are.
LEMMA SweptIs ==
  ASSUME NEW f
  PROVE  /\ DOMAIN Swept(f) = {x \in DOMAIN f : f[x].expires > now}
         /\ \A x \in DOMAIN Swept(f) : Swept(f)[x] = f[x]
  BY DEF Swept

\* With adds one key and changes no other.
LEMMA WithIs ==
  ASSUME NEW f, NEW x, NEW v
  PROVE  /\ DOMAIN With(f, x, v) = DOMAIN f \union {x}
         /\ With(f, x, v)[x] = v
         /\ \A y \in DOMAIN f : y # x => With(f, x, v)[y] = f[y]
  BY DEF With

\* Without removes one key and changes no other.
LEMMA WithoutIs ==
  ASSUME NEW f, NEW x
  PROVE  /\ DOMAIN Without(f, x) = DOMAIN f \ {x}
         /\ \A y \in DOMAIN f : y # x => Without(f, x)[y] = f[y]
  BY DEF Without

-----------------------------------------------------------------------------
(* What each method does to the sessions.                                  *)

SessionsTyped(f) == DOMAIN f \subseteq User /\ \A u \in DOMAIN f : f[u] \in Session

\* A sweep keeps the types.
LEMMA SweptTyped ==
  ASSUME SessionsTyped(sessions)
  PROVE  SessionsTyped(Swept(sessions))
  BY SweptIs DEF SessionsTyped

\* Adding a session as it is stored now keeps the types.
LEMMA RenewedTyped ==
  ASSUME now \in Nat, NEW f, SessionsTyped(f), NEW u \in User, NEW kind \in Kinds,
         NEW unlocks \in [Resource -> Statuses]
  PROVE  SessionsTyped(With(f, u, Renewed(kind, unlocks)))
<1>1. Renewed(kind, unlocks) \in Session
  BY ManagerAssumption DEF Renewed, Session
<1>2. DOMAIN With(f, u, Renewed(kind, unlocks)) = DOMAIN f \union {u}
  BY WithIs
<1>3. \A x \in DOMAIN f \union {u} :
        With(f, u, Renewed(kind, unlocks))[x] = IF x = u THEN Renewed(kind, unlocks) ELSE f[x]
  BY DEF With
<1> HIDE DEF Renewed
<1> QED
  BY <1>1, <1>2, <1>3 DEF SessionsTyped

\* The fields of the sessions, and those of one to be opened.
LEMMA FieldsTyped ==
  ASSUME NEW f, SessionsTyped(f), NEW u
  PROVE  /\ UnlocksIn(f, u) \in [Resource -> Statuses]
         /\ u \in DOMAIN f => f[u].kind \in Kinds /\ f[u].unlocks \in [Resource -> Statuses]
  BY DEF SessionsTyped, UnlocksIn, Session, NoUnlocks, Statuses

\* Storing a status keeps the types.
LEMMA StoreTyped ==
  ASSUME now \in Nat, NEW f, SessionsTyped(f), NEW u \in User, NEW r \in Resource,
         NEW st \in Statuses
  PROVE  SessionsTyped(Store(f, u, r, st))
<1>1. (IF u \in DOMAIN f THEN f[u].kind ELSE "") \in Kinds
  BY FieldsTyped DEF Kinds
<1>2. [UnlocksIn(f, u) EXCEPT ![r] = st] \in [Resource -> Statuses]
  BY FieldsTyped
<1> QED
  BY <1>1, <1>2, RenewedTyped DEF Store

\* The program starts in a well-typed state.
LEMMA TypeInit == Init => TypeOK
  BY ManagerAssumption DEF Init, TypeOK

\* Every method and the clock keep the types of the sessions.
LEMMA SessionsStep ==
  ASSUME TypeOK, [Next]_vars
  PROVE  SessionsTyped(sessions')
<1>0. now \in Nat /\ SessionsTyped(sessions) /\ SessionsTyped(Swept(sessions))
  BY SweptTyped, ManagerAssumption DEF TypeOK, SessionsTyped
<1>1. ASSUME NEW u \in User, ClearInteraction(u)
      PROVE  SessionsTyped(sessions')
  BY <1>0, <1>1, FieldsTyped, RenewedTyped DEF ClearInteraction, Kinds
<1>2. ASSUME NEW u \in User, Delete(u)
      PROVE  SessionsTyped(sessions')
  <2>1. DOMAIN sessions' = DOMAIN sessions \ {u}
    BY <1>2, WithoutIs DEF Delete
  <2>2. \A x \in DOMAIN sessions' : sessions'[x] = sessions[x]
    BY <1>2 DEF Delete, Without
  <2> QED
    BY <1>0, <2>1, <2>2 DEF SessionsTyped
<1>3. ASSUME NEW u \in User, NEW kind \in Kinds, Set(u, kind)
      PROVE  SessionsTyped(sessions')
  BY <1>0, <1>3, FieldsTyped, RenewedTyped DEF Set
<1>4. ASSUME sessions' \in {sessions, Swept(sessions)}
      PROVE  SessionsTyped(sessions')
  BY <1>0, <1>4
<1>5. ASSUME NEW u \in User, NEW r \in Resource, NEW st \in Statuses,
             \/ BeginUnlock(u, r) /\ st = "pending"
             \/ TransitionUnlock(u, r, "pending", st)
             \/ SetUnlockStatus(u, r, st)
      PROVE  SessionsTyped(sessions')
  <2>1. sessions' \in {Swept(sessions), Store(Swept(sessions), u, r, st)}
    BY <1>5 DEF BeginUnlock, TransitionUnlock, SetUnlockStatus
  <2> QED
    BY <1>0, <2>1, StoreTyped
<1>6. {"pending", "in_flight"} \subseteq Statuses /\ Outcomes \subseteq Statuses
  BY DEF Statuses, Outcomes
<1> QED
  BY <1>1, <1>2, <1>3, <1>4, <1>5, <1>6
  DEF Next, vars, BindCallback, ResolveCallback, DeleteCallback, Read, Sweep, Tick

-----------------------------------------------------------------------------
(* Callback tokens.                                                        *)

CallbacksTyped(f) == DOMAIN f \subseteq Token /\ \A t \in DOMAIN f : f[t] \in Callback

\* What a method or the clock does to the callbacks: nothing, a sweep, a
\* deletion, or the binding of a token that no living callback uses.
LEMMA CallbackCases ==
  ASSUME [Next]_vars
  PROVE  \/ callbacks' \in {callbacks, Swept(callbacks)} /\ UNCHANGED bound
         \/ \E t \in Token : callbacks' = Without(callbacks, t) /\ UNCHANGED bound
         \/ \E u \in User, t \in Token : BindCallback(u, t)
  BY DEF Next, vars, ClearInteraction, Delete, Set, ResolveCallback, DeleteCallback, BeginUnlock,
         TransitionUnlock, SetUnlockStatus, Read, Sweep, Tick, Silent

\* Every method and the clock keep the types of the callbacks.
LEMMA CallbacksStep ==
  ASSUME TypeOK, [Next]_vars
  PROVE  CallbacksTyped(callbacks')
<1>0. now \in Nat /\ CallbacksTyped(callbacks) /\ CallbacksTyped(Swept(callbacks))
  <2>1. now \in Nat
    BY ManagerAssumption DEF TypeOK
  <2>2. CallbacksTyped(callbacks)
    BY DEF TypeOK, CallbacksTyped
  <2> QED
    BY <2>1, <2>2, SweptIs DEF CallbacksTyped
<1>1. ASSUME NEW t \in Token, callbacks' = Without(callbacks, t)
      PROVE  CallbacksTyped(callbacks')
  BY <1>0, <1>1 DEF CallbacksTyped, Without
<1>2. ASSUME NEW u \in User, NEW t \in Token, BindCallback(u, t)
      PROVE  CallbacksTyped(callbacks')
  <2> DEFINE live == Swept(callbacks)
             c == [user |-> u, expires |-> now + TTL]
  <2>1. c \in Callback
    BY <1>0, ManagerAssumption DEF Callback
  <2>2. callbacks' = With(live, t, c)
    BY <1>2 DEF BindCallback
  <2>3. CallbacksTyped(live)
    BY <1>0
  <2> HIDE DEF live, c
  <2>4. \A x \in DOMAIN live \union {t} : With(live, t, c)[x] = IF x = t THEN c ELSE live[x]
    BY DEF With
  <2>5. DOMAIN With(live, t, c) = DOMAIN live \union {t}
    BY WithIs
  <2> QED
    BY <2>1, <2>2, <2>3, <2>4, <2>5 DEF CallbacksTyped
<1> QED
  BY <1>0, <1>1, <1>2, CallbackCases

\* Every method keeps the types, and the clock stops at its bound.
LEMMA TypeStep == TypeOK /\ [Next]_vars => TypeOK'
<1> SUFFICES ASSUME TypeOK, [Next]_vars
             PROVE  TypeOK'
  OBVIOUS
<1>1. now' \in 0..MaxTime
  <2>1. now' = now \/ (now < MaxTime /\ now' = now + 1)
    BY DEF Next, vars, ClearInteraction, Delete, Set, BindCallback, ResolveCallback,
           DeleteCallback, BeginUnlock, TransitionUnlock, SetUnlockStatus, Read, Tick, Silent
  <2>2. now \in 0..MaxTime
    BY DEF TypeOK
  <2> QED
    BY <2>1, <2>2, ManagerAssumption
<1> QED
  BY <1>1, SessionsStep, CallbacksStep DEF TypeOK, SessionsTyped, CallbacksTyped

\* Every reachable state of the manager is well typed (session.go).
THEOREM ManagerTyped == Spec => []TypeOK
  BY TypeInit, TypeStep, PTL DEF Spec

\* The callbacks in the map are those of the last binding of their tokens.
BindingsKept ==
  \A t \in DOMAIN callbacks :
    /\ t \in DOMAIN bound
    /\ bound[t].user = callbacks[t].user
    /\ callbacks[t].expires = bound[t].at + TTL

\* A binding is recorded with its callback, and a callback goes before its
\* record.
LEMMA BindingsStep == BindingsKept /\ [Next]_vars => BindingsKept'
<1> SUFFICES ASSUME BindingsKept, [Next]_vars
             PROVE  BindingsKept'
  OBVIOUS
<1>1. ASSUME callbacks' \in {callbacks, Swept(callbacks)}, UNCHANGED bound
      PROVE  BindingsKept'
  BY <1>1 DEF BindingsKept, Swept
<1>2. ASSUME NEW t \in Token, callbacks' = Without(callbacks, t), UNCHANGED bound
      PROVE  BindingsKept'
  BY <1>2 DEF BindingsKept, Without
<1>3. ASSUME NEW u \in User, NEW t \in Token, BindCallback(u, t)
      PROVE  BindingsKept'
  <2> DEFINE live == Swept(callbacks)
             c == [user |-> u, expires |-> now + TTL]
             b == [user |-> u, at |-> now]
  <2>1. callbacks' = With(live, t, c) /\ bound' = With(bound, t, b)
    BY <1>3 DEF BindCallback
  <2>2. \A x \in DOMAIN live : x \in DOMAIN callbacks /\ live[x] = callbacks[x]
    BY SweptIs
  <2>3. c.user = b.user /\ c.expires = b.at + TTL
    OBVIOUS
  <2> HIDE DEF live, c, b
  <2>4. DOMAIN callbacks' = DOMAIN live \union {t} /\ DOMAIN bound' = DOMAIN bound \union {t}
    BY <2>1, WithIs
  <2>5. callbacks'[t] = c /\ bound'[t] = b
    BY <2>1 DEF With
  <2>6. \A x \in DOMAIN live : x # t => callbacks'[x] = callbacks[x] /\ bound'[x] = bound[x]
    BY <2>1, <2>2 DEF BindingsKept, With
  <2> QED
    BY <2>2, <2>3, <2>4, <2>5, <2>6 DEF BindingsKept
<1> QED
  BY <1>1, <1>2, <1>3, CallbackCases

\* A callback resolves for its owner and before its expiry only.
LEMMA AnswersStep == BindingsKept /\ AnswersHonourBinding /\ [Next]_vars => AnswersHonourBinding'
<1> SUFFICES ASSUME BindingsKept, AnswersHonourBinding, [Next]_vars
             PROVE  AnswersHonourBinding'
  OBVIOUS
<1>1. ASSUME NEW u \in User, NEW t \in Token, ResolveCallback(t, u)
      PROVE  AnswersHonourBinding'
  <2>1. UNCHANGED bound
    BY <1>1 DEF ResolveCallback
  <2>2. CASE t \in DOMAIN Swept(callbacks) /\ Swept(callbacks)[t].user = u
    <3>1. answer' = [token |-> t, user |-> u, at |-> now]
      BY <1>1, <2>2 DEF ResolveCallback
    <3>2. t \in DOMAIN callbacks /\ callbacks[t].user = u /\ callbacks[t].expires > now
      BY <2>2, SweptIs
    <3>3. bound[t].user = u /\ bound[t].at + TTL > now
      BY <3>2 DEF BindingsKept
    <3>4. answer'.token = t /\ answer'.user = u /\ answer'.at = now
      BY <3>1
    <3> QED
      BY <2>1, <3>3, <3>4 DEF AnswersHonourBinding
  <2>3. CASE ~(t \in DOMAIN Swept(callbacks) /\ Swept(callbacks)[t].user = u)
    BY <1>1, <2>3 DEF ResolveCallback, AnswersHonourBinding
  <2> QED
    BY <2>2, <2>3
<1>2. ASSUME answer' = NoAnswer
      PROVE  AnswersHonourBinding'
  BY <1>2 DEF AnswersHonourBinding, NoAnswer
<1>3. CASE UNCHANGED vars
  BY <1>3 DEF vars, AnswersHonourBinding
<1> QED
  BY <1>1, <1>2, <1>3
  DEF Next, ClearInteraction, Delete, Set, BindCallback, DeleteCallback, BeginUnlock,
      TransitionUnlock, SetUnlockStatus, Read, Tick, Silent

\* A press is answered only for the owner of the button and only within the
\* time to live of that binding, however tokens expire and are drawn again
\* (session.go BindCallback, ResolveCallback).
THEOREM PressesAreTheOwners == Spec => []AnswersHonourBinding
<1>1. Init => BindingsKept /\ AnswersHonourBinding
  BY DEF Init, BindingsKept, AnswersHonourBinding
<1> QED
  BY <1>1, BindingsStep, AnswersStep, PTL DEF Spec

\* A living token is not drawn again: BindCallback looks before it stores
\* (session.go BindCallback).
THEOREM LivingTokensStay == Spec => TokensAreNotStolen
<1>1. ASSUME [Next]_vars, NEW t \in DOMAIN callbacks \intersect DOMAIN callbacks',
             callbacks[t].expires > now
      PROVE  callbacks'[t] = callbacks[t]
  <2>1. t \in DOMAIN Swept(callbacks) /\ Swept(callbacks)[t] = callbacks[t]
    BY <1>1, SweptIs
  <2>2. ASSUME NEW x \in Token, callbacks' = Without(callbacks, x)
        PROVE  callbacks'[t] = callbacks[t]
    BY <1>1, <2>2 DEF Without
  <2>3. ASSUME NEW u \in User, NEW x \in Token, BindCallback(u, x)
        PROVE  callbacks'[t] = callbacks[t]
    BY <2>1, <2>3 DEF BindCallback, With
  <2> QED
    BY <1>1, <2>1, <2>2, <2>3, CallbackCases
<1>2. [Next]_vars =>
        [\A t \in DOMAIN callbacks \intersect DOMAIN callbacks' :
           callbacks[t].expires > now => callbacks'[t] = callbacks[t]]_vars
  BY <1>1
<1> QED
  BY <1>2, PTL DEF Spec, TokensAreNotStolen

-----------------------------------------------------------------------------
(* Capacity.                                                               *)

\* A call may drop sessions, or sweep and store into one for which there is room.
LEMMA SessionCases ==
  ASSUME [Next]_vars
  PROVE  \/ DOMAIN sessions' \subseteq DOMAIN sessions
         \/ \E u \in User : /\ Room(Swept(sessions), u)
                            /\ DOMAIN sessions' = DOMAIN Swept(sessions) \union {u}
<1> DEFINE Dropped == DOMAIN sessions' \subseteq DOMAIN sessions
           Stored == \E u \in User : /\ Room(Swept(sessions), u)
                                     /\ DOMAIN sessions' = DOMAIN Swept(sessions) \union {u}
<1>1. DOMAIN Swept(sessions) \subseteq DOMAIN sessions
  BY SweptIs
<1>2. ASSUME NEW u \in User, ClearInteraction(u)
      PROVE  Dropped
  <2>1. DOMAIN sessions' = DOMAIN sessions \union {u} /\ u \in DOMAIN sessions
    BY <1>2 DEF ClearInteraction, With
  <2> QED
    BY <2>1
<1>3. ASSUME NEW u \in User, Delete(u)
      PROVE  Dropped
  <2>1. DOMAIN sessions' = DOMAIN sessions \ {u}
    BY <1>3 DEF Delete, Without
  <2> QED
    BY <2>1
<1>4. ASSUME NEW u \in User, NEW s, Room(Swept(sessions), u),
             sessions' = With(Swept(sessions), u, s)
      PROVE  Stored
  <2>1. DOMAIN sessions' = DOMAIN Swept(sessions) \union {u}
    BY <1>4 DEF With
  <2> QED
    BY <1>4, <2>1
<1>5. ASSUME NEW u \in User, NEW kind \in Kinds, Set(u, kind)
      PROVE  sessions' = Swept(sessions) \/ Stored
  <2> HIDE DEF Stored
  <2> QED
    BY <1>4, <1>5 DEF Set
<1>6. ASSUME NEW u \in User, NEW r \in Resource, NEW st,
             \/ BeginUnlock(u, r) /\ st = "pending"
             \/ TransitionUnlock(u, r, "pending", st)
             \/ SetUnlockStatus(u, r, st)
      PROVE  sessions' = Swept(sessions) \/ Stored
  <2> HIDE DEF Stored
  <2>1. \/ sessions' = Swept(sessions)
        \/ Room(Swept(sessions), u) /\ sessions' = Store(Swept(sessions), u, r, st)
    BY <1>6 DEF BeginUnlock, TransitionUnlock, SetUnlockStatus, Room
  <2> QED
    BY <1>4, <2>1 DEF Store
<1>7. ASSUME sessions' \in {sessions, Swept(sessions)}
      PROVE  Dropped
  BY <1>1, <1>7
<1> HIDE DEF Dropped, Stored
<1>8. Dropped \/ Stored
  BY <1>2, <1>3, <1>4, <1>5, <1>6, <1>7
  DEF Next, vars, BindCallback, ResolveCallback, DeleteCallback, Read, Sweep, Tick
<1> QED
  BY <1>8 DEF Dropped, Stored

Bounded == IsFiniteSet(DOMAIN sessions) /\ CapacityHolds

\* Whoever is let in finds room after the sweep.
LEMMA BoundedStep == Bounded /\ [Next]_vars => Bounded'
<1> SUFFICES ASSUME Bounded, [Next]_vars
             PROVE  Bounded'
  OBVIOUS
<1>0. /\ IsFiniteSet(DOMAIN sessions)
      /\ Cardinality(DOMAIN sessions) \in Nat /\ Cardinality(DOMAIN sessions) <= Capacity
  BY FS_CardinalityType DEF Bounded, CapacityHolds
<1>1. ASSUME NEW S \in SUBSET DOMAIN sessions
      PROVE  IsFiniteSet(S) /\ Cardinality(S) \in Nat /\ Cardinality(S) <= Capacity
  <2>1. IsFiniteSet(S) /\ Cardinality(S) <= Cardinality(DOMAIN sessions)
    BY <1>0, FS_Subset
  <2>2. Cardinality(S) \in Nat
    BY <2>1, FS_CardinalityType
  <2> QED
    BY <1>0, <2>1, <2>2, ManagerAssumption
<1>2. CASE DOMAIN sessions' \subseteq DOMAIN sessions
  BY <1>1, <1>2 DEF Bounded, CapacityHolds
<1>3. ASSUME NEW u \in User, Room(Swept(sessions), u),
             DOMAIN sessions' = DOMAIN Swept(sessions) \union {u}
      PROVE  Bounded'
  <2> DEFINE S == DOMAIN Swept(sessions)
  <2>1. IsFiniteSet(S) /\ Cardinality(S) \in Nat /\ Cardinality(S) <= Capacity
    BY <1>1, SweptIs
  <2>2. CASE u \in S
    <3>1. DOMAIN sessions' = S
      BY <1>3, <2>2
    <3> QED
      BY <2>1, <3>1 DEF Bounded, CapacityHolds
  <2>3. CASE u \notin S
    <3>1. ~(Cardinality(S) >= Capacity)
      BY <1>3, <2>3 DEF Room, Full
    <3>2. IsFiniteSet(S \union {u}) /\ Cardinality(S \union {u}) = Cardinality(S) + 1
      BY <2>1, <2>3, FS_AddElement
    <3>3. Cardinality(S \union {u}) <= Capacity
      BY <2>1, <3>1, <3>2, ManagerAssumption
    <3> QED
      BY <1>3, <3>2, <3>3 DEF Bounded, CapacityHolds
  <2> QED
    BY <2>2, <2>3
<1> QED
  BY <1>2, <1>3, SessionCases

\* The number of sessions stays finite and within the capacity.
LEMMA AlwaysBounded == Spec => []Bounded
<1>1. Init => Bounded
  <2>1. IsFiniteSet({}) /\ Cardinality({}) = 0
    BY FS_EmptySet
  <2>2. Init => DOMAIN sessions = {}
    BY DEF Init
  <2> QED
    BY <2>1, <2>2, ManagerAssumption DEF Bounded, CapacityHolds
<1> QED
  BY <1>1, BoundedStep, PTL DEF Spec

\* The sessions never outgrow SESSION_CAPACITY, however they are opened and
\* whatever is still to be swept (session.go Set, BeginUnlock).
THEOREM SessionsAreBounded == Spec => []CapacityHolds
<1>1. Bounded => CapacityHolds
  BY DEF Bounded
<1> QED
  BY <1>1, AlwaysBounded, PTL

-----------------------------------------------------------------------------
(* The refinement of SessionGate.  The mapped state: its users, those that *)
(* are stale, and the statuses.                                            *)

UnlockOf(f, k) == UnlocksIn(f, k[1])[k[2]]

StaleIn(f, t) == {u \in DOMAIN f : f[u].expires <= t}

StatusIn(f) == [k \in User \X Resource |-> UnlockOf(f, k)]

\* The mapping of SessionManager, in these terms.
MappedStatus ==
  [k \in User \X Resource |->
     IF k[1] \in DOMAIN sessions THEN sessions[k[1]].unlocks[k[2]] ELSE "none"]

\* A user without a session has no status.
LEMMA MappedStatusIs == MappedStatus = StatusIn(sessions)
  BY DEF MappedStatus, StatusIn, UnlockOf, UnlocksIn, NoUnlocks

\* A sweep leaves the living sessions, which are those that are not stale.
LEMMA LiveIs ==
  ASSUME TypeOK
  PROVE  DOMAIN Swept(sessions) = DOMAIN sessions \ StaleIn(sessions, now)
<1>1. \A u \in DOMAIN sessions : sessions[u].expires \in Nat
  BY DEF TypeOK, Session
<1>2. now \in Nat
  BY ManagerAssumption DEF TypeOK
<1>3. \A u \in DOMAIN sessions : sessions[u].expires > now <=> ~(sessions[u].expires <= now)
  BY <1>1, <1>2
<1> QED
  BY <1>3, SweptIs DEF StaleIn

\* Nothing is stale after a sweep, nor after a session was renewed.
LEMMA NoneStale ==
  ASSUME TypeOK
  PROVE  StaleIn(Swept(sessions), now) = {}
<1>1. \A u \in DOMAIN Swept(sessions) : u \in DOMAIN sessions /\ Swept(sessions)[u] = sessions[u]
  BY SweptIs
<1>2. \A u \in DOMAIN Swept(sessions) : ~(sessions[u].expires <= now)
  BY LiveIs DEF StaleIn
<1> QED
  BY <1>1, <1>2 DEF StaleIn

\* A renewed session lives.
LEMMA RenewedLives ==
  ASSUME TypeOK, NEW f, NEW u, NEW kind, NEW unlocks
  PROVE  StaleIn(With(f, u, Renewed(kind, unlocks)), now) = StaleIn(f, now) \ {u}
<1> DEFINE s == Renewed(kind, unlocks)
<1>1. ~(s.expires <= now)
  BY ManagerAssumption DEF TypeOK, Renewed
<1> HIDE DEF s
<1>2. DOMAIN With(f, u, s) = DOMAIN f \union {u}
  BY DEF With
<1>3. \A x \in DOMAIN f \union {u} : With(f, u, s)[x] = IF x = u THEN s ELSE f[x]
  BY DEF With
<1>4. StaleIn(With(f, u, s), now) = StaleIn(f, now) \ {u}
  BY <1>1, <1>2, <1>3 DEF StaleIn
<1> QED
  BY <1>4 DEF s

\* After the sweep the statuses are those of the living sessions.
LEMMA LiveStatusIs ==
  ASSUME TypeOK
  PROVE  StatusIn(Swept(sessions)) =
           [k \in User \X Resource |->
              IF k[1] \in StaleIn(sessions, now) THEN "none" ELSE MappedStatus[k]]
<1> SUFFICES ASSUME NEW k \in User \X Resource
             PROVE  UnlockOf(Swept(sessions), k) =
                      IF k[1] \in StaleIn(sessions, now) THEN "none" ELSE MappedStatus[k]
  BY DEF StatusIn
<1>1. k[1] \in User /\ k[2] \in Resource
  OBVIOUS
<1>2. CASE k[1] \in DOMAIN Swept(sessions)
  <2>1. Swept(sessions)[k[1]] = sessions[k[1]] /\ k[1] \in DOMAIN sessions
    BY <1>2, SweptIs
  <2>2. k[1] \notin StaleIn(sessions, now)
    BY <1>2, LiveIs
  <2> QED
    BY <1>2, <2>1, <2>2 DEF UnlockOf, UnlocksIn, MappedStatus
<1>3. CASE k[1] \notin DOMAIN Swept(sessions)
  <2>1. UnlockOf(Swept(sessions), k) = "none"
    BY <1>1, <1>3 DEF UnlockOf, UnlocksIn, NoUnlocks
  <2>2. k[1] \in StaleIn(sessions, now) \/ k[1] \notin DOMAIN sessions
    BY <1>3, LiveIs
  <2> QED
    BY <2>1, <2>2 DEF MappedStatus
<1> QED
  BY <1>2, <1>3

\* The statuses of a map in which the session of a user is stored.
LEMMA StatusOfWith ==
  ASSUME NEW f, NEW u \in User, NEW kind, NEW unlocks, NEW k \in User \X Resource
  PROVE  UnlockOf(With(f, u, Renewed(kind, unlocks)), k) =
           IF k[1] = u THEN unlocks[k[2]] ELSE UnlockOf(f, k)
<1> SUFFICES ASSUME NEW g, g = With(f, u, Renewed(kind, unlocks))
             PROVE  UnlockOf(g, k) = IF k[1] = u THEN unlocks[k[2]] ELSE UnlockOf(f, k)
  OBVIOUS
<1>1. DOMAIN g = DOMAIN f \union {u}
  BY DEF With
<1>2. CASE k[1] = u
  <2>1. g[u].unlocks = unlocks
    BY DEF With, Renewed
  <2> QED
    BY <1>1, <1>2, <2>1 DEF UnlockOf, UnlocksIn
<1>3. CASE k[1] # u
  <2>1. k[1] \in DOMAIN f => g[k[1]] = f[k[1]]
    BY <1>3 DEF With
  <2> QED
    BY <1>1, <1>3, <2>1 DEF UnlockOf, UnlocksIn
<1> QED
  BY <1>2, <1>3

-----------------------------------------------------------------------------
(* The steps of the gate, in terms of the manager's map.                   *)

\* What the gate sees of a state, and of the next one.
LEMMA Mapped ==
  ASSUME TypeOK
  PROVE  /\ Gate!Live = DOMAIN Swept(sessions)
         /\ Gate!LiveStatus = StatusIn(Swept(sessions))
  BY LiveIs, LiveStatusIs
  DEF Gate!Live, Gate!LiveStatus, Gate!Key, StaleIn, MappedStatus

\* The sweep of the map is the sweep of the gate.
LEMMA SweepRefines ==
  ASSUME TypeOK, sessions' = Swept(sessions), now' = now
  PROVE  Gate!Sweep
<1>1. DOMAIN sessions' = Gate!Live
  BY Mapped
<1>2. StaleIn(sessions', now') = {}
  BY NoneStale
<1>3. StatusIn(sessions') = Gate!LiveStatus
  BY Mapped
<1>4. MappedStatus' = StatusIn(sessions')
  BY DEF MappedStatus, StatusIn, UnlockOf, UnlocksIn, NoUnlocks
<1> QED
  BY <1>1, <1>2, <1>3, <1>4 DEF Gate!Sweep, MappedStatus, StaleIn

\* The sweep and the unlocks of a user, stored in his living session, as the
\* gate sees them.
StoredAs(u, unlocks) ==
  /\ DOMAIN sessions' = Gate!Live \union {u}
  /\ StaleIn(sessions', now') = {}
  /\ MappedStatus' = [k \in User \X Resource |-> MappedStatus'[k]]
  /\ \A k \in User \X Resource :
       MappedStatus'[k] = IF k[1] = u THEN unlocks[k[2]] ELSE Gate!LiveStatus[k]

\* A session stored after the sweep is stored in the gate.
LEMMA StoredIs ==
  ASSUME TypeOK, NEW u \in User, NEW kind, NEW unlocks, now' = now,
         sessions' = With(Swept(sessions), u, Renewed(kind, unlocks))
  PROVE  StoredAs(u, unlocks)
<1>1. DOMAIN sessions' = Gate!Live \union {u}
  BY Mapped DEF With
<1>2. StaleIn(sessions', now') = {}
  BY NoneStale, RenewedLives
<1>3. MappedStatus' = StatusIn(sessions')
  BY DEF MappedStatus, StatusIn, UnlockOf, UnlocksIn, NoUnlocks
<1>4. \A k \in User \X Resource :
        UnlockOf(sessions', k) = IF k[1] = u THEN unlocks[k[2]] ELSE UnlockOf(Swept(sessions), k)
  BY StatusOfWith
<1>5. \A k \in User \X Resource : Gate!LiveStatus[k] = UnlockOf(Swept(sessions), k)
  BY Mapped DEF StatusIn
<1> QED
  BY <1>1, <1>2, <1>3, <1>4, <1>5 DEF StatusIn, StoredAs

\* The manager's room is the gate's.
LEMMA RoomRefines ==
  ASSUME TypeOK, Bounded, NEW u, Room(Swept(sessions), u)
  PROVE  Gate!Room(u)
<1>1. CASE u \in DOMAIN Swept(sessions)
  BY <1>1, Mapped DEF Gate!Room
<1>2. CASE ~Full(Swept(sessions))
  <2>1. IsFiniteSet(DOMAIN Swept(sessions))
    BY SweptIs, FS_Subset DEF Bounded
  <2>2. Cardinality(DOMAIN Swept(sessions)) < Capacity
    BY <1>2, <2>1, FS_CardinalityType, ManagerAssumption DEF Full
  <2>3. Gate!Live = DOMAIN Swept(sessions)
    BY Mapped
  <2>4. Gate!Cardinality(Gate!Live) = Cardinality(Gate!Live)
    BY DEF Gate!Cardinality, Cardinality
  <2> QED
    BY <2>2, <2>3, <2>4 DEF Gate!Room
<1> QED
  BY <1>1, <1>2 DEF Room

\* A dialog opens or renews a session with the unlocks it has.
LEMMA SetRefines ==
  ASSUME TypeOK, Bounded, NEW u \in User, NEW kind \in Kinds, Set(u, kind)
  PROVE  Gate!Open(u) \/ Gate!Sweep
<1>0. now' = now
  BY DEF Set, Silent
<1>1. CASE ~Room(Swept(sessions), u)
  BY <1>0, <1>1, SweepRefines DEF Set
<1>2. CASE Room(Swept(sessions), u)
  <2> DEFINE unlocks == UnlocksIn(Swept(sessions), u)
  <2>1. sessions' = With(Swept(sessions), u, Renewed(kind, unlocks))
    BY <1>2 DEF Set
  <2>2. \A k \in User \X Resource :
          Gate!LiveStatus[k] = UnlocksIn(Swept(sessions), k[1])[k[2]]
    BY Mapped DEF StatusIn, UnlockOf
  <2>3. StoredAs(u, unlocks)
    BY <1>0, <2>1, StoredIs
  <2> HIDE DEF unlocks
  <2>4. MappedStatus' = [k \in User \X Resource |-> Gate!LiveStatus[k]]
    BY <2>2, <2>3 DEF StoredAs, unlocks
  <2>5. Gate!LiveStatus = [k \in User \X Resource |-> Gate!LiveStatus[k]]
    BY Mapped DEF StatusIn
  <2>6. MappedStatus' = Gate!LiveStatus
    BY <2>4, <2>5
  <2>7. DOMAIN sessions' = Gate!Live \union {u} /\ StaleIn(sessions', now') = {}
    BY <2>3 DEF StoredAs
  <2>8. Gate!Room(u)
    BY <1>2, RoomRefines
  <2> QED
    BY <2>6, <2>7, <2>8 DEF Gate!Open, MappedStatus, StaleIn
<1> QED
  BY <1>1, <1>2

\* Storing a status in the map is storing it in the gate.
LEMMA StoreRefines ==
  ASSUME TypeOK, NEW u \in User, NEW r \in Resource, NEW st \in Statuses, now' = now,
         sessions' = Store(Swept(sessions), u, r, st)
  PROVE  Gate!Store(<<u, r>>, st)
<1> DEFINE unlocks == [UnlocksIn(Swept(sessions), u) EXCEPT ![r] = st]
           kind == IF u \in DOMAIN Swept(sessions) THEN Swept(sessions)[u].kind ELSE ""
           key == <<u, r>>
<1>1. sessions' = With(Swept(sessions), u, Renewed(kind, unlocks))
  BY DEF Store
<1>2. UnlocksIn(Swept(sessions), u) \in [Resource -> Statuses]
  BY FieldsTyped, SweptTyped DEF TypeOK, SessionsTyped
<1>3. \A x \in Resource :
        unlocks[x] = IF x = r THEN st ELSE UnlocksIn(Swept(sessions), u)[x]
  BY <1>2
<1>4. StoredAs(u, unlocks)
  BY <1>1, StoredIs
<1> HIDE DEF unlocks, kind
<1>5. Gate!LiveStatus = StatusIn(Swept(sessions))
  BY Mapped
<1>6. \A k \in User \X Resource :
        Gate!LiveStatus[k] = UnlocksIn(Swept(sessions), k[1])[k[2]]
  BY <1>5 DEF StatusIn, UnlockOf
<1>7. \A k \in User \X Resource : k = key <=> k[1] = u /\ k[2] = r
  OBVIOUS
<1>8. \A k \in User \X Resource :
        (IF k[1] = u THEN unlocks[k[2]] ELSE Gate!LiveStatus[k])
          = (IF k = key THEN st ELSE Gate!LiveStatus[k])
  BY <1>3, <1>6, <1>7
<1>9. MappedStatus' = [k \in User \X Resource |-> IF k = key THEN st ELSE Gate!LiveStatus[k]]
  BY <1>4, <1>8 DEF StoredAs
<1>10. DOMAIN Gate!LiveStatus = User \X Resource
  BY <1>5 DEF StatusIn
<1>11. MappedStatus' = [Gate!LiveStatus EXCEPT ![key] = st]
  BY <1>9, <1>10
<1>12. key[1] = u
  OBVIOUS
<1> HIDE DEF key
<1>13. Gate!Store(key, st)
  BY <1>4, <1>11, <1>12 DEF Gate!Store, MappedStatus, StaleIn, StoredAs
<1> QED
  BY <1>13 DEF key

-----------------------------------------------------------------------------
(* Every method and the clock, as steps of the gate.                       *)

\* The status of a key in the gate is the one the methods look at.
LEMMA LiveStatusAt ==
  ASSUME TypeOK, NEW u \in User, NEW r \in Resource
  PROVE  Gate!LiveStatus[<<u, r>>] = UnlocksIn(Swept(sessions), u)[r]
<1>1. Gate!LiveStatus = StatusIn(Swept(sessions))
  BY Mapped
<1> QED
  BY <1>1 DEF StatusIn, UnlockOf

\* The three methods of the unlock gate.
LEMMA UnlocksRefine ==
  ASSUME TypeOK, Bounded, NEW u \in User, NEW r \in Resource
  PROVE  /\ BeginUnlock(u, r) => Gate!Begin(<<u, r>>)
         /\ TransitionUnlock(u, r, "pending", "in_flight")
              => Gate!Transition(<<u, r>>, "pending", "in_flight")
         /\ \A st \in Outcomes : SetUnlockStatus(u, r, st) => Gate!Mark(<<u, r>>, st)
<1> DEFINE key == <<u, r>>
           live == Swept(sessions)
<1>0. /\ BeginUnlock(u, r) => now' = now
      /\ TransitionUnlock(u, r, "pending", "in_flight") => now' = now
      /\ \A st \in Outcomes : SetUnlockStatus(u, r, st) => now' = now
  BY DEF BeginUnlock, TransitionUnlock, SetUnlockStatus, Silent
<1>1. {"pending", "in_flight"} \subseteq Statuses /\ Outcomes \subseteq Statuses
  BY DEF Statuses, Outcomes
<1>2. key[1] = u /\ Gate!LiveStatus[key] = UnlocksIn(live, u)[r]
  BY LiveStatusAt
<1>3. Gate!Live = DOMAIN live
  BY Mapped
<1>4. Gate!Room(u) <=> Room(live, u)
  <2>1. ASSUME Gate!Room(u)
        PROVE  Room(live, u)
    <3>1. CASE u \in Gate!Live
      BY <1>3, <3>1 DEF Room
    <3>2. CASE Gate!Cardinality(Gate!Live) < Capacity
      <4>1. Gate!Cardinality(DOMAIN live) = Cardinality(DOMAIN live)
        BY DEF Gate!Cardinality, Cardinality
      <4>2. IsFiniteSet(DOMAIN live)
        BY SweptIs, FS_Subset DEF Bounded
      <4>3. Cardinality(DOMAIN live) < Capacity /\ Cardinality(DOMAIN live) \in Nat
        BY <1>3, <3>2, <4>1, <4>2, FS_CardinalityType
      <4> HIDE DEF live
      <4> QED
        BY <4>3, ManagerAssumption DEF Room, Full
    <3> QED
      BY <2>1, <3>1, <3>2 DEF Gate!Room
  <2> QED
    BY <2>1, RoomRefines
<1>5. Gate!Admits(key) <=> Room(live, u) /\ UnlocksIn(live, u)[r] \notin Blocking
  <2> HIDE DEF live, key
  <2> QED
    BY <1>2, <1>4 DEF Gate!Admits, Gate!Blocking, Blocking
<1>6. ASSUME BeginUnlock(u, r)
      PROVE  Gate!Begin(key)
  <2>1. CASE Gate!Admits(key)
    <3>1. sessions' = Store(live, u, r, "pending")
      BY <1>5, <1>6, <2>1 DEF BeginUnlock
    <3>2. Gate!Store(key, "pending")
      BY <1>0, <1>1, <1>6, <3>1, StoreRefines
    <3> HIDE DEF key
    <3> QED
      BY <2>1, <3>2 DEF Gate!Begin
  <2>2. CASE ~Gate!Admits(key)
    <3>1. Gate!Sweep
      BY <1>0, <1>5, <1>6, <2>2, SweepRefines DEF BeginUnlock
    <3> HIDE DEF key
    <3> QED
      BY <2>2, <3>1 DEF Gate!Begin
  <2> QED
    BY <2>1, <2>2
<1>7. ASSUME TransitionUnlock(u, r, "pending", "in_flight")
      PROVE  Gate!Transition(key, "pending", "in_flight")
  <2>0. Gate!Moves(key, "pending") <=> u \in DOMAIN live /\ live[u].unlocks[r] = "pending"
    <3> HIDE DEF key, live
    <3> QED
      BY <1>2, <1>3 DEF Gate!Moves, UnlocksIn
  <2>1. CASE Gate!Moves(key, "pending")
    <3>1. sessions' = Store(live, u, r, "in_flight")
      BY <1>7, <2>0, <2>1 DEF TransitionUnlock
    <3>2. Gate!Store(key, "in_flight")
      BY <1>0, <1>1, <1>7, <3>1, StoreRefines
    <3> HIDE DEF key
    <3> QED
      BY <2>1, <3>2 DEF Gate!Transition
  <2>2. CASE ~Gate!Moves(key, "pending")
    <3>1. Gate!Sweep
      BY <1>0, <1>7, <2>0, <2>2, SweepRefines DEF TransitionUnlock
    <3> HIDE DEF key
    <3> QED
      BY <2>2, <3>1 DEF Gate!Transition
  <2> QED
    BY <2>1, <2>2
<1>8. ASSUME NEW st \in Outcomes, SetUnlockStatus(u, r, st)
      PROVE  Gate!Mark(key, st)
  <2>1. CASE u \in DOMAIN live
    <3>1. sessions' = Store(live, u, r, st)
      BY <1>8, <2>1 DEF SetUnlockStatus
    <3>2. Gate!Store(key, st)
      BY <1>0, <1>1, <1>8, <3>1, StoreRefines
    <3> HIDE DEF key
    <3> QED
      BY <1>2, <1>3, <2>1, <3>2 DEF Gate!Mark
  <2>2. CASE u \notin DOMAIN live
    <3>1. Gate!Sweep
      BY <1>0, <1>8, <2>2, SweepRefines DEF SetUnlockStatus
    <3> HIDE DEF key
    <3> QED
      BY <1>2, <1>3, <2>2, <3>1 DEF Gate!Mark
  <2> QED
    BY <2>1, <2>2
<1> QED
  BY <1>6, <1>7, <1>8

\* ClearInteraction renews a session, be it stale or not.
LEMMA ClearRefines ==
  ASSUME TypeOK, NEW u \in User, ClearInteraction(u)
  PROVE  Gate!Renew(u)
<1>a. PICK un, kind : un = sessions[u].unlocks /\ kind = ""
  OBVIOUS
<1>0. /\ now' = now /\ u \in DOMAIN sessions
      /\ sessions' = With(sessions, u, Renewed(kind, un))
  BY <1>a DEF ClearInteraction, Silent
<1>1. DOMAIN sessions' = DOMAIN sessions
  BY <1>0 DEF With
<1>2. StaleIn(sessions', now') = StaleIn(sessions, now) \ {u}
  BY <1>0, RenewedLives
<1>3. \A k \in User \X Resource :
        UnlockOf(sessions', k) = IF k[1] = u THEN un[k[2]] ELSE UnlockOf(sessions, k)
  <2>1. \A k \in User \X Resource :
          UnlockOf(With(sessions, u, Renewed(kind, un)), k)
            = IF k[1] = u THEN un[k[2]] ELSE UnlockOf(sessions, k)
    BY StatusOfWith
  <2> QED
    BY <1>0, <2>1
<1>4. \A k \in User \X Resource : UnlockOf(sessions', k) = UnlockOf(sessions, k)
  BY <1>a, <1>0, <1>3 DEF UnlockOf, UnlocksIn
<1>5. MappedStatus' = StatusIn(sessions') /\ MappedStatus = StatusIn(sessions)
  BY DEF MappedStatus, StatusIn, UnlockOf, UnlocksIn, NoUnlocks
<1>6. MappedStatus' = MappedStatus
  BY <1>4, <1>5 DEF StatusIn
<1> QED
  BY <1>0, <1>1, <1>2, <1>6 DEF Gate!Renew, MappedStatus, StaleIn

\* Delete drops a session with its statuses.
LEMMA DeleteRefines ==
  ASSUME TypeOK, NEW u \in User, Delete(u)
  PROVE  Gate!Drop(u)
<1>0. /\ now' = now
      /\ DOMAIN sessions' = DOMAIN sessions \ {u}
      /\ \A x \in DOMAIN sessions' : sessions'[x] = sessions[x]
  BY DEF Delete, Silent, Without
<1>1. StaleIn(sessions', now') = StaleIn(sessions, now) \ {u}
  BY <1>0 DEF StaleIn
<1>2. MappedStatus' = [k \in User \X Resource |-> IF k[1] = u THEN "none" ELSE MappedStatus[k]]
  BY <1>0 DEF MappedStatus
<1> QED
  BY <1>0, <1>1, <1>2 DEF Gate!Drop, Gate!Key, MappedStatus, StaleIn

\* The clock makes sessions stale or leaves the gate alone.
LEMMA TickRefines ==
  ASSUME TypeOK, Tick
  PROVE  (\E us \in SUBSET Gate!Live : us # {} /\ Gate!Expire(us)) \/ UNCHANGED Gate!gate
<1>0. sessions' = sessions /\ now' = now + 1 /\ now \in Nat
  BY ManagerAssumption DEF Tick, TypeOK
<1>1. \A u \in DOMAIN sessions : sessions[u].expires \in Nat
  BY DEF TypeOK, Session
<1>2. StaleIn(sessions, now') \ StaleIn(sessions, now) \in SUBSET Gate!Live
  BY LiveIs, Mapped DEF StaleIn
<1>3. PICK us \in SUBSET Gate!Live : us = StaleIn(sessions, now') \ StaleIn(sessions, now)
  BY <1>2
<1>4. StaleIn(sessions', now') = StaleIn(sessions, now) \union us
  BY <1>0, <1>1, <1>3 DEF StaleIn
<1>5. MappedStatus' = MappedStatus
  BY <1>0 DEF MappedStatus
<1>6. Gate!Expire(us)
  BY <1>0, <1>4, <1>5 DEF Gate!Expire, MappedStatus, StaleIn
<1>7. us = {} => UNCHANGED Gate!gate
  BY <1>0, <1>4, <1>5 DEF Gate!gate, MappedStatus, StaleIn
<1> QED
  BY <1>3, <1>6, <1>7

\* A call that only sweeps.
LEMMA QuietRefines ==
  ASSUME TypeOK,
         \/ Read
         \/ \E u \in User, t \in Token : BindCallback(u, t) \/ ResolveCallback(t, u)
  PROVE  Gate!Sweep
  BY SweepRefines DEF Read, BindCallback, ResolveCallback, Sweep, Silent

\* DeleteCallback and a stutter leave the gate alone.
LEMMA StutterRefines ==
  ASSUME \/ \E t \in Token : DeleteCallback(t)
         \/ UNCHANGED vars
  PROVE  UNCHANGED Gate!gate
  BY DEF DeleteCallback, Silent, vars, Gate!gate

\* Every step of the manager is a step of the gate, or a stutter.
LEMMA StepRefines ==
  ASSUME TypeOK, Bounded, [Next]_vars
  PROVE  [Gate!GateNext]_Gate!gate
<1>1. ASSUME NEW u \in User, ClearInteraction(u) \/ Delete(u)
      PROVE  Gate!GateNext
  BY <1>1, ClearRefines, DeleteRefines DEF Gate!GateNext, Gate!GateEnvironment
<1>2. ASSUME NEW u \in User, NEW kind \in Kinds, Set(u, kind)
      PROVE  Gate!GateNext
  BY <1>2, SetRefines DEF Gate!GateNext, Gate!GateEnvironment
<1>3. ASSUME NEW u \in User, NEW r \in Resource,
             \/ BeginUnlock(u, r)
             \/ TransitionUnlock(u, r, "pending", "in_flight")
             \/ \E st \in Outcomes : SetUnlockStatus(u, r, st)
      PROVE  Gate!GateNext
  <2>1. <<u, r>> \in Gate!Key
    BY DEF Gate!Key
  <2> QED
    BY <1>3, <2>1, UnlocksRefine DEF Gate!GateNext, Outcomes
<1>4. CASE Tick
  BY <1>4, TickRefines DEF Gate!GateNext, Gate!GateEnvironment
<1>5. CASE \/ Read
           \/ \E u \in User, t \in Token : BindCallback(u, t) \/ ResolveCallback(t, u)
  BY <1>5, QuietRefines DEF Gate!GateNext, Gate!GateEnvironment
<1>6. CASE (\E t \in Token : DeleteCallback(t)) \/ UNCHANGED vars
  BY <1>6, StutterRefines
<1> QED
  BY <1>1, <1>2, <1>3, <1>4, <1>5, <1>6 DEF Next

\* An empty manager is an empty gate.
LEMMA InitRefines == Init => Gate!GateInit
  BY DEF Init, Gate!GateInit, Gate!Key

\* The session manager is the gate on which the paid unlock relies, dialogs,
\* tokens, expiries and capacity included (session.go, every method).
THEOREM ManagerImplementsGate == Spec => ImplementsGate
<1>1. Spec => []TypeOK /\ []Bounded
  BY ManagerTyped, AlwaysBounded, PTL
<1> QED
  BY <1>1, InitRefines, StepRefines, PTL DEF Spec, ImplementsGate, Gate!GateSpec
=============================================================================
