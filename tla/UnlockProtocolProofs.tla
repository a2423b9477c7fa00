----------------------- MODULE UnlockProtocolProofs -----------------------
(***************************************************************************)
(* Theorems about UnlockProtocol, for any sets of users, resources and     *)
(* goroutines and any session capacity: what is paid and granted, that it  *)
(* implements UnlockContract, and that a closed gate is tended.            *)
(***************************************************************************)
EXTENDS UnlockProtocol, TLAPS

-----------------------------------------------------------------------------
(* Type correctness.                                                       *)

\* The program starts in a well-typed state.
LEMMA TypeInit == Init => TypeOK
  BY DEF Init, GateInit, TypeOK, Key, Steps, Sites, Statuses, Records, Flags, Wires

\* The callback a goroutine serves is a pair of a user and a resource.
LEMMA ArgTyped ==
  ASSUME TypeOK, NEW p \in Proc
  PROVE  arg[p] \in Key /\ UserOf(p) \in User /\ ResOf(p) \in Res
<1>1. arg[p] \in User \X Res
  BY DEF TypeOK, Key
<1>2. arg[p][1] \in User /\ arg[p][2] \in Res
  BY <1>1
<1> QED
  BY <1>1, <1>2 DEF Key, UserOf, ResOf

\* Whatever Detail answers, its caller goes on at a step of the worker.
LEMMA ResumeTyped == \A s, o : Resume(s, o) \in Steps
  BY DEF Resume, Steps

\* What any step on the sessions keeps: the types, and every status but one that
\* is stored by an unlock.
GateKept(k, st) ==
  /\ sess' \in SUBSET User /\ stale' \in SUBSET sess'
  /\ status' \in [Key -> Statuses \ {"rejected"}]
  /\ \A x \in Key : status'[x] \in {status[x], "none"} \/ (x = k /\ status'[x] = st)

\* The sweep drops sessions and their statuses and does nothing else.
LEMMA SweepKeeps ==
  ASSUME TypeOK, Sweep, NEW k, NEW st
  PROVE  GateKept(k, st)
  BY DEF TypeOK, Sweep, Live, LiveStatus, Statuses, GateKept

\* An unlock step on the sessions sweeps, and stores one status at most.
LEMMA StoreKeeps ==
  ASSUME TypeOK, NEW k \in Key, NEW st \in Statuses \ {"rejected"}, Store(k, st) \/ Sweep
  PROVE  GateKept(k, st)
<1>1. CASE Sweep
  BY <1>1, SweepKeeps
<1>2. CASE Store(k, st)
  <2>1. k[1] \in User
    BY DEF Key
  <2>2. status' = [LiveStatus EXCEPT ![k] = st] /\ LiveStatus \in [Key -> Statuses \ {"rejected"}]
    BY <1>2 DEF Store, LiveStatus, TypeOK, Statuses
  <2>3. \A x \in Key : LiveStatus[x] \in {status[x], "none"}
    BY DEF LiveStatus
  <2>4. sess' = Live \union {k[1]} /\ stale' = {} /\ Live \subseteq User
    BY <1>2 DEF Store, Live, TypeOK
  <2> QED
    BY <2>1, <2>2, <2>3, <2>4 DEF GateKept
<1> QED
  BY <1>1, <1>2

\* Dialogs, sweeps and the clock never store a status.
LEMMA EnvironmentKeeps ==
  ASSUME TypeOK, GateEnvironment, NEW k, NEW st
  PROVE  GateKept(k, st)
<1>1. CASE Sweep
  BY <1>1, SweepKeeps
<1>2. ASSUME NEW u \in User, Open(u)
      PROVE  GateKept(k, st)
  BY <1>2 DEF TypeOK, Open, Live, LiveStatus, Statuses, GateKept
<1>3. ASSUME NEW u \in User, Renew(u)
      PROVE  GateKept(k, st)
  BY <1>3 DEF TypeOK, Renew, GateKept
<1>4. ASSUME NEW us \in SUBSET Live, Expire(us)
      PROVE  GateKept(k, st)
  BY <1>4 DEF TypeOK, Expire, Live, GateKept
<1> QED
  BY <1>1, <1>2, <1>3, <1>4 DEF GateEnvironment

\* The four steps of the unlock handlers on the sessions.
LEMMA UnlockGateKeeps ==
  ASSUME TypeOK, NEW p \in Proc
  PROVE  /\ BeginUnlock(p) => GateKept(arg[p], "pending")
         /\ TransitionUnlock(p) => GateKept(arg[p], "in_flight")
         /\ MarkSuccess(p) => GateKept(arg[p], "success")
         /\ MarkUnknown(p) => GateKept(arg[p], "unknown")
<1>1. arg[p] \in Key
  BY DEF TypeOK
<1>2. {"pending", "in_flight", "success", "unknown"} \subseteq Statuses \ {"rejected"}
  BY DEF Statuses
<1>3. /\ BeginUnlock(p) => Store(arg[p], "pending") \/ Sweep
      /\ TransitionUnlock(p) => Store(arg[p], "in_flight") \/ Sweep
      /\ MarkSuccess(p) => Store(arg[p], "success") \/ Sweep
      /\ MarkUnknown(p) => Store(arg[p], "unknown") \/ Sweep
  BY DEF BeginUnlock, Begin, TransitionUnlock, Transition, MarkSuccess, MarkUnknown,
         SetUnlockStatus, Mark
<1> QED
  BY <1>1, <1>2, <1>3, StoreKeeps

\* Every step of the worker, the upstream and the environment keeps the types.
LEMMA TypeStep == TypeOK /\ [Next]_vars => TypeOK'
<1> SUFFICES ASSUME TypeOK, [Next]_vars
             PROVE  TypeOK'
  OBVIOUS
<1>0. TypeOK
  OBVIOUS
<1> USE DEF TypeOK, Goto, local, mem, gate, ext, Steps, Sites, Records, Flags, Wires
<1>1. ASSUME NEW p \in Proc, DetailMem(p)
      PROVE  TypeOK'
  BY <1>1, ArgTyped, ResumeTyped DEF DetailMem, Return
<1>2. ASSUME NEW p \in Proc, DetailRecord(p)
      PROVE  TypeOK'
  BY <1>2, ArgTyped, ResumeTyped DEF DetailRecord, Return
<1>3. ASSUME NEW p \in Proc, DetailRecordFails(p)
      PROVE  TypeOK'
  BY <1>3, ArgTyped, ResumeTyped DEF DetailRecordFails, Return
<1>4. ASSUME NEW p \in Proc, DetailFill(p)
      PROVE  TypeOK'
  BY <1>4, ArgTyped, ResumeTyped DEF DetailFill, Return
<1>5. ASSUME NEW p \in Proc, BeginUnlock(p)
      PROVE  TypeOK'
  BY <1>0, <1>5, UnlockGateKeeps DEF BeginUnlock, GateKept
<1>6. ASSUME NEW p \in Proc, TransitionUnlock(p)
      PROVE  TypeOK'
  BY <1>0, <1>6, UnlockGateKeeps DEF TransitionUnlock, GateKept
<1>7. ASSUME NEW p \in Proc, MarkSuccess(p)
      PROVE  TypeOK'
  BY <1>0, <1>7, UnlockGateKeeps DEF MarkSuccess, SetUnlockStatus, GateKept
<1>8. ASSUME NEW p \in Proc, MarkUnknown(p)
      PROVE  TypeOK'
  BY <1>0, <1>8, UnlockGateKeeps DEF MarkUnknown, SetUnlockStatus, GateKept
<1>9. ASSUME NEW p \in Proc, UnlockRead(p)
      PROVE  TypeOK'
  BY <1>9 DEF UnlockRead
<1>10. ASSUME NEW p \in Proc, UnlockReadFails(p)
      PROVE  TypeOK'
  BY <1>10 DEF UnlockReadFails
<1>11. ASSUME NEW p \in Proc, ClaimUnlock(p)
      PROVE  TypeOK'
  BY <1>11 DEF ClaimUnlock
<1>12. ASSUME NEW p \in Proc, ClaimFails(p)
      PROVE  TypeOK'
  BY <1>12 DEF ClaimFails
<1>13. ASSUME NEW p \in Proc, Post(p)
      PROVE  TypeOK'
  BY <1>13 DEF Post
<1>14. ASSUME NEW p \in Proc, PostFails(p)
      PROVE  TypeOK'
  BY <1>14 DEF PostFails
<1>15. ASSUME NEW p \in Proc, Resend(p)
      PROVE  TypeOK'
  BY <1>15 DEF Resend
<1>16. ASSUME NEW p \in Proc, ReplySucceeds(p)
      PROVE  TypeOK'
  BY <1>16 DEF ReplySucceeds
<1>17. ASSUME NEW p \in Proc, ReplyFails(p)
      PROVE  TypeOK'
  BY <1>17 DEF ReplyFails
<1>18. ASSUME NEW p \in Proc, RecordUnknown(p)
      PROVE  TypeOK'
  BY <1>18 DEF RecordUnknown
<1>19. ASSUME NEW p \in Proc, FillUnlock(p)
      PROVE  TypeOK'
  BY <1>19 DEF FillUnlock
<1>20. ASSUME NEW p \in Proc, PersistSuccess(p)
      PROVE  TypeOK'
  BY <1>20 DEF PersistSuccess
<1>21. ASSUME NEW p \in Proc, PersistFails(p)
      PROVE  TypeOK'
  BY <1>21 DEF PersistFails
<1>22. ASSUME NEW p \in Proc, TransferProof(p)
      PROVE  TypeOK'
  BY <1>22 DEF TransferProof
<1>23. ASSUME NEW p \in Proc, ReceiveShare(p)
      PROVE  TypeOK'
  BY <1>23 DEF ReceiveShare
<1>24. ASSUME NEW p \in Proc, ReceiveFails(p)
      PROVE  TypeOK'
  BY <1>24 DEF ReceiveFails
<1>25. ASSUME NEW p \in Proc, NEW s \in {"entry", "transfer"}, Press(p, s)
      PROVE  TypeOK'
  BY <1>25 DEF Press
<1>26. ASSUME NEW p \in Proc, NEW o \in {"charged", "refused", "forbidden"}, Upstream(p, o)
      PROVE  TypeOK'
  BY <1>26 DEF Upstream
<1>27. ASSUME OtherSessions
      PROVE  TypeOK'
  BY <1>0, <1>27, EnvironmentKeeps DEF OtherSessions, GateKept
<1>28. ASSUME Search
      PROVE  TypeOK'
  BY <1>28 DEF Search
<1>29. ASSUME Restart
      PROVE  TypeOK'
  BY <1>29 DEF Restart, Statuses
<1>30. CASE UNCHANGED vars
  BY <1>30 DEF vars
<1> QED
  BY <1>1, <1>2, <1>3, <1>4, <1>5, <1>6, <1>7, <1>8, <1>9, <1>10, <1>11, <1>12, <1>13, <1>14, <1>15, <1>16, <1>17, <1>18, <1>19, <1>20, <1>21, <1>22, <1>23, <1>24, <1>25, <1>26, <1>27, <1>28, <1>29, <1>30
  DEF Next, Step, DetailStep, UnlockStep, TransferStep

\* Every reachable state of the worker is well-typed.
THEOREM TypeCorrect == Spec => []TypeOK
  BY TypeInit, TypeStep, PTL DEF Spec
-----------------------------------------------------------------------------
(* The inductive invariant.  AtMostOneCharge alone is not inductive: that  *)
(* the next charge of a key meets an uncharged account follows from who    *)
(* may hold the row of that key, and from where its evidence is kept.      *)

\* From the claim to the final answer the row belongs to the claiming
\* goroutine.
Owning == {"post", "await1", "await2", "recordUnknown", "fillUnlock", "persist"}

OwnerHoldsRow == \A p \in Proc : pc[p] \in Owning => record[arg[p]] = "in_flight"

\* A POST left a row behind, and nothing is on the wire before the POST.
WireIsClaimed == \A p \in Proc : wire[p] # "idle" => record[arg[p]] # "none"

PostIsFirst == \A p \in Proc : pc[p] = "post" => wire[p] = "idle"

\* The charge of a key is the charge of exactly the POST that reports it.
ChargesAreReported ==
  /\ \A k \in Key : charges[k] # 0 => \E p \in Proc : wire[p] = "charged" /\ arg[p] = k
  /\ \A p \in Proc : wire[p] = "charged" => charges[arg[p]] = 1

\* What a goroutine relies on while it is between two steps.
StepsAreBacked ==
  \A p \in Proc :
    /\ pc[p] \in {"fillUnlock", "persist"} => wire[p] = "charged"
    /\ pc[p] \in {"persist", "receive"} => arg[p] \in cache
    /\ pc[p] = "detailFill" => record[arg[p]] = "success"
    /\ pc[p] = "markSuccess" => charges[arg[p]] = 1

IndInv ==
  /\ TypeOK
  /\ OwnerHoldsRow
  /\ WireIsClaimed
  /\ PostIsFirst
  /\ OneOwnerPerKey
  /\ ChargesAreReported
  /\ StepsAreBacked
  /\ GrantsArePaid
  /\ DeliveredIsPaid
  /\ SessionSuccessIsPaid

\* The inductive invariant holds at the start.
LEMMA InvInit == Init => IndInv
  BY TypeInit
  DEF Init, GateInit, IndInv, OwnerHoldsRow, Owning, WireIsClaimed, PostIsFirst, OneOwnerPerKey,
      Engaged, ChargesAreReported, StepsAreBacked, GrantsArePaid, DeliveredIsPaid,
      SessionSuccessIsPaid

\* Every step preserves the inductive invariant; only the steps that touch the
\* table, the wire or the shares need more than a look at what they leave alone.
LEMMA InvStep == IndInv /\ [Next]_vars => IndInv'
<1> SUFFICES ASSUME IndInv, [Next]_vars
             PROVE  IndInv'
  OBVIOUS
<1>1. TypeOK /\ TypeOK'
  BY TypeStep DEF IndInv
<1> DEFINE Rest == /\ OwnerHoldsRow /\ WireIsClaimed /\ PostIsFirst /\ OneOwnerPerKey
                   /\ ChargesAreReported /\ StepsAreBacked
                   /\ GrantsArePaid /\ DeliveredIsPaid /\ SessionSuccessIsPaid
<1>2. Rest
  BY DEF IndInv
<1> USE <1>1, <1>2 DEF TypeOK, Goto, local, mem, ext, OwnerHoldsRow, Owning,
      WireIsClaimed, PostIsFirst, OneOwnerPerKey, Engaged, ChargesAreReported,
      StepsAreBacked, GrantsArePaid, DeliveredIsPaid, SessionSuccessIsPaid, gate
<1>3. ASSUME NEW p \in Proc, DetailMem(p)
      PROVE  Rest'
  BY <1>3 DEF DetailMem, Return, Resume
<1>4. ASSUME NEW p \in Proc, DetailRecord(p)
      PROVE  Rest'
  BY <1>4 DEF DetailRecord, Return, Resume
<1>5. ASSUME NEW p \in Proc, DetailRecordFails(p)
      PROVE  Rest'
  BY <1>5 DEF DetailRecordFails, Return, Resume
<1>6. ASSUME NEW p \in Proc, DetailFill(p)
      PROVE  Rest'
  BY <1>6 DEF DetailFill, Return, Resume
<1>7. ASSUME NEW p \in Proc, BeginUnlock(p)
      PROVE  Rest'
  BY <1>7, UnlockGateKeeps DEF BeginUnlock, GateKept
<1>8. ASSUME NEW p \in Proc, TransitionUnlock(p)
      PROVE  Rest'
  BY <1>8, UnlockGateKeeps DEF TransitionUnlock, GateKept
<1>9. ASSUME NEW p \in Proc, MarkSuccess(p)
      PROVE  Rest'
  <2>1. SessionSuccessIsPaid'
    <3>1. charges[arg[p]] = 1 /\ charges' = charges
      BY <1>9 DEF MarkSuccess, SetUnlockStatus
    <3>2. \A x \in Key : status'[x] \in {status[x], "none"} \/ x = arg[p]
      BY <1>9, UnlockGateKeeps DEF GateKept
    <3> QED
      BY <3>1, <3>2
  <2>2. pc' = [pc EXCEPT ![p] = "done"] /\ UNCHANGED <<arg, cache, record, wire, charges, delivered>>
    BY <1>9 DEF MarkSuccess, SetUnlockStatus
  <2> QED
    BY <2>1, <2>2
<1>10. ASSUME NEW p \in Proc, MarkUnknown(p)
      PROVE  Rest'
  <2>1. SessionSuccessIsPaid'
    <3>1. charges' = charges
      BY <1>10 DEF MarkUnknown, SetUnlockStatus
    <3>2. \A x \in Key : status'[x] \in {status[x], "none", "unknown"}
      BY <1>10, UnlockGateKeeps DEF GateKept
    <3> QED
      BY <3>1, <3>2
  <2>2. pc' = [pc EXCEPT ![p] = "done"] /\ UNCHANGED <<arg, cache, record, wire, charges, delivered>>
    BY <1>10 DEF MarkUnknown, SetUnlockStatus
  <2> QED
    BY <2>1, <2>2
<1>11. ASSUME NEW p \in Proc, UnlockRead(p)
      PROVE  Rest'
  BY <1>11 DEF UnlockRead
<1>12. ASSUME NEW p \in Proc, UnlockReadFails(p)
      PROVE  Rest'
  BY <1>12 DEF UnlockReadFails
<1>13. ASSUME NEW p \in Proc, ClaimUnlock(p)
      PROVE  Rest'
  BY <1>13 DEF ClaimUnlock
<1>14. ASSUME NEW p \in Proc, ClaimFails(p)
      PROVE  Rest'
  BY <1>14 DEF ClaimFails
<1>15. ASSUME NEW p \in Proc, Post(p)
      PROVE  Rest'
  BY <1>15 DEF Post
<1>16. ASSUME NEW p \in Proc, PostFails(p)
      PROVE  Rest'
  BY <1>16 DEF PostFails
<1>17. ASSUME NEW p \in Proc, Resend(p)
      PROVE  Rest'
  BY <1>17 DEF Resend
<1>18. ASSUME NEW p \in Proc, ReplySucceeds(p)
      PROVE  Rest'
  BY <1>18 DEF ReplySucceeds
<1>19. ASSUME NEW p \in Proc, ReplyFails(p)
      PROVE  Rest'
  BY <1>19 DEF ReplyFails
<1>20. ASSUME NEW p \in Proc, RecordUnknown(p)
      PROVE  Rest'
  BY <1>20 DEF RecordUnknown
<1>21. ASSUME NEW p \in Proc, FillUnlock(p)
      PROVE  Rest'
  BY <1>21 DEF FillUnlock
<1>22. ASSUME NEW p \in Proc, PersistSuccess(p)
      PROVE  Rest'
  BY <1>22 DEF PersistSuccess
<1>23. ASSUME NEW p \in Proc, PersistFails(p)
      PROVE  Rest'
  BY <1>23 DEF PersistFails
<1>24. ASSUME NEW p \in Proc, TransferProof(p)
      PROVE  Rest'
  BY <1>24 DEF TransferProof
<1>25. ASSUME NEW p \in Proc, ReceiveShare(p)
      PROVE  Rest'
  BY <1>25 DEF ReceiveShare
<1>26. ASSUME NEW p \in Proc, ReceiveFails(p)
      PROVE  Rest'
  BY <1>26 DEF ReceiveFails
<1>27. ASSUME NEW p \in Proc, NEW s \in {"entry", "transfer"}, Press(p, s)
      PROVE  Rest'
  BY <1>27 DEF Press
<1>28. ASSUME NEW p \in Proc, NEW o \in {"charged", "refused", "forbidden"}, Upstream(p, o)
      PROVE  Rest'
  BY <1>28 DEF Upstream
<1>29. ASSUME OtherSessions
      PROVE  Rest'
  <2>1. UNCHANGED <<pc, arg, cache, record, wire, charges, delivered>>
    BY <1>29 DEF OtherSessions
  <2>2. \A x \in Key : status'[x] \in {status[x], "none"}
    <3>1. GateKept(<< >>, "none")
      BY <1>29, EnvironmentKeeps DEF OtherSessions
    <3> QED
      BY <3>1 DEF GateKept
  <2> QED
    BY <2>1, <2>2
<1>30. ASSUME Search
      PROVE  Rest'
  BY <1>30 DEF Search
<1>31. ASSUME Restart
      PROVE  Rest'
  <2>1. \A p \in Proc : pc'[p] \in Ended
    BY <1>31 DEF Restart, Ended
  <2>2. UNCHANGED <<arg, record, wire, charges, delivered>>
    BY <1>31 DEF Restart
  <2>3. cache' = {} /\ status' = [k \in Key |-> "none"]
    BY <1>31 DEF Restart
  <2>4. (OwnerHoldsRow /\ PostIsFirst /\ StepsAreBacked)'
    BY <2>1 DEF Ended
  <2>5. (WireIsClaimed /\ OneOwnerPerKey /\ ChargesAreReported)'
    BY <2>1, <2>2 DEF Ended
  <2>6. (GrantsArePaid /\ DeliveredIsPaid /\ SessionSuccessIsPaid)'
    BY <2>2, <2>3
  <2> QED
    BY <2>4, <2>5, <2>6
<1>32. ASSUME UNCHANGED vars
      PROVE  Rest'
  <2>1. UNCHANGED <<pc, arg, status, cache, record, wire, charges, delivered>>
    BY <1>32 DEF vars
  <2> QED
    BY <2>1
<1> HIDE DEF Rest
<1>33. Rest'
  BY <1>3, <1>4, <1>5, <1>6, <1>7, <1>8, <1>9, <1>10, <1>11, <1>12, <1>13, <1>14, <1>15, <1>16, <1>17, <1>18, <1>19, <1>20, <1>21, <1>22, <1>23, <1>24, <1>25, <1>26, <1>27, <1>28, <1>29, <1>30, <1>31, <1>32
  DEF Next, Step, DetailStep, UnlockStep, TransferStep
<1> QED
  BY <1>1, <1>33 DEF IndInv, Rest

\* The inductive invariant holds for ever.
LEMMA IndInvHolds == Spec => []IndInv
  BY InvInit, InvStep, PTL DEF Spec

\* Charges are those the one owner's last POST has caused: one at most.
LEMMA IndInvBoundsCharges == IndInv => AtMostOneCharge
<1> SUFFICES ASSUME IndInv, NEW k \in Key, charges[k] # 0
             PROVE  charges[k] = 1
  BY DEF IndInv, TypeOK, AtMostOneCharge
<1>1. PICK p \in Proc : wire[p] = "charged" /\ arg[p] = k
  BY DEF IndInv, ChargesAreReported
<1> QED
  BY <1>1 DEF IndInv, ChargesAreReported

\* A POST that caused a charge has left a row behind.
LEMMA IndInvRecordsCharges == IndInv => EveryChargeIsOnRecord
<1> SUFFICES ASSUME IndInv, NEW k \in Key, charges[k] # 0
             PROVE  record[k] # "none"
  BY DEF IndInv, TypeOK, EveryChargeIsOnRecord
<1>1. PICK p \in Proc : wire[p] = "charged" /\ arg[p] = k
  BY DEF IndInv, ChargesAreReported
<1> QED
  BY <1>1 DEF IndInv, WireIsClaimed

\* However many goroutines, clicks, restarts, expired sessions, resends and lost
\* answers there are, the upstream account is charged at most once for a user
\* and a resource (handler.go unlockResource, adapters.go Unlock, store.go
\* ClaimUnlock).
THEOREM ChargedAtMostOnce == Spec => []AtMostOneCharge
  BY IndInvHolds, IndInvBoundsCharges, PTL

\* ClaimUnlock elects one goroutine per key among those of all process lifetimes.
THEOREM OwnerIsUnique == Spec => []OneOwnerPerKey
<1>1. IndInv => OneOwnerPerKey
  BY DEF IndInv
<1> QED
  BY <1>1, IndInvHolds, PTL

\* Every charge can be found in unlock_records, whatever crashed or failed.
THEOREM ChargesAreOnRecord == Spec => []EveryChargeIsOnRecord
  BY IndInvHolds, IndInvRecordsCharges, PTL

\* What the adapter or the table keeps for a user, he has paid for.
THEOREM OnlyPaidIsGranted == Spec => []GrantsArePaid
<1>1. IndInv => GrantsArePaid
  BY DEF IndInv
<1> QED
  BY <1>1, IndInvHolds, PTL

\* What 115 receives for a user, he has paid for, whatever the listing that he
\* shares with the others says (adapters.go DetailForUser).
THEOREM OnlyPaidIsDelivered == Spec => []DeliveredIsPaid
<1>1. IndInv => DeliveredIsPaid
  BY DEF IndInv
<1> QED
  BY <1>1, IndInvHolds, PTL

\* The session claims no success but that of a payment (handler.go unlock).
THEOREM SuccessIsPaid == Spec => []SessionSuccessIsPaid
<1>1. IndInv => SessionSuccessIsPaid
  BY DEF IndInv
<1> QED
  BY <1>1, IndInvHolds, PTL

-----------------------------------------------------------------------------
(* Action properties and refinement.  Only eight actions touch the table,  *)
(* the shares kept, the charges or the deliveries; the others stutter.     *)

\* What UnlockContract can see of the state.
seen == <<record, cache, charges, delivered>>

\* The steps of the in-memory gate, of reads and of the wire before a charge are
\* invisible to the contract.
LEMMA QuietSteps ==
  ASSUME NEW p \in Proc,
         \/ DetailMem(p) \/ DetailRecord(p) \/ DetailRecordFails(p) \/ BeginUnlock(p) \/ TransitionUnlock(p) \/ MarkSuccess(p) \/ MarkUnknown(p) \/ UnlockRead(p)
         \/ UnlockReadFails(p) \/ Post(p) \/ PostFails(p) \/ Resend(p) \/ ReplySucceeds(p) \/ ReplyFails(p) \/ TransferProof(p)
  PROVE  UNCHANGED seen
  BY DEF seen, mem, ext, SetUnlockStatus, DetailMem, DetailRecord, DetailRecordFails, BeginUnlock, TransitionUnlock, MarkSuccess, MarkUnknown, UnlockRead, UnlockReadFails, Post, PostFails, Resend, ReplySucceeds, ReplyFails, TransferProof

\* A goroutine that is not the owner of a row never rewrites it: each row settles
\* once, as success or as unknown (store.go ClaimUnlock and SetUnlockRecord,
\* called from adapters.go Unlock).
THEOREM RowsSettleOnce == Spec => RecordsSettleOnce
<1> DEFINE Settles == \A k \in Key : record'[k] # record[k] =>
             <<record[k], record'[k]>> \in
               {<<"none", "in_flight">>, <<"in_flight", "success">>, <<"in_flight", "unknown">>}
<1>1. ASSUME IndInv, [Next]_vars
      PROVE  Settles
  <2> USE <1>1 DEF IndInv, TypeOK, OwnerHoldsRow, Owning, mem, ext
  <2>1. ASSUME NEW p \in Proc, ClaimUnlock(p) \/ ClaimFails(p)
        PROVE  Settles
    BY <2>1 DEF ClaimUnlock, ClaimFails
  <2>2. ASSUME NEW p \in Proc, RecordUnknown(p)
        PROVE  Settles
    BY <2>2 DEF RecordUnknown
  <2>3. ASSUME NEW p \in Proc, PersistSuccess(p) \/ PersistFails(p)
        PROVE  Settles
    BY <2>3 DEF PersistSuccess, PersistFails
  <2>4. ASSUME NEW p \in Proc, DetailFill(p) \/ FillUnlock(p) \/ ReceiveShare(p) \/ ReceiveFails(p)
        PROVE  Settles
    BY <2>4 DEF DetailFill, FillUnlock, ReceiveShare, ReceiveFails
  <2>5. ASSUME \/ \E p \in Proc, s \in {"entry", "transfer"} : Press(p, s)
               \/ \E p \in Proc, o \in {"charged", "refused", "forbidden"} : Upstream(p, o)
               \/ OtherSessions \/ Search \/ Restart \/ UNCHANGED vars
        PROVE  Settles
    BY <2>5 DEF Press, Upstream, OtherSessions, Search, Restart, vars
  <2>6. ASSUME UNCHANGED seen
        PROVE  Settles
    BY <2>6 DEF seen
  <2> QED
    BY <2>1, <2>2, <2>3, <2>4, <2>5, <2>6, QuietSteps
    DEF Next, Step, DetailStep, UnlockStep, TransferStep
<1> QED
  BY <1>1, IndInvHolds, PTL DEF Spec, RecordsSettleOnce

\* The worker starts where the contract starts.
LEMMA InitRefines == Init => Contract!ContractInit
  BY DEF Init, GateInit, Contract!ContractInit

\* Every step of the worker is a step of the contract or leaves it alone.
LEMMA StepRefines ==
  ASSUME IndInv, [Next]_vars
  PROVE  [Contract!ContractNext]_(Contract!cvars)
<1> DEFINE Refined == [Contract!ContractNext]_(Contract!cvars)
<1> USE DEF mem, ext
<1>0. /\ OwnerHoldsRow /\ OneOwnerPerKey /\ StepsAreBacked /\ GrantsArePaid
      /\ WireIsClaimed /\ ChargesAreReported /\ TypeOK
  BY DEF IndInv
<1>a. ASSUME NEW k \in Key,
             \/ Contract!Claim(k) \/ Contract!Pay(k) \/ Contract!Grant(k)
             \/ Contract!Persist(k) \/ Contract!Deliver(k)
      PROVE  Refined
  BY <1>a DEF Contract!ContractNext
<1>1. ASSUME UNCHANGED seen
      PROVE  Refined
  BY <1>1 DEF seen, Contract!cvars
<1>2. ASSUME NEW p \in Proc, UNCHANGED <<cache, charges, delivered>>, record[arg[p]] = "none",
             record' = [record EXCEPT ![arg[p]] = "in_flight"]
      PROVE  Refined
  <2>0. PICK k \in Key : k = arg[p]
    BY <1>0 DEF TypeOK
  <2>1. Contract!Claim(k)
    BY <1>0, <1>2, <2>0 DEF Contract!Claim, TypeOK
  <2> QED
    BY <2>1, <1>a
<1>3. ASSUME NEW p \in Proc, DetailFill(p)
      PROVE  Refined
  BY <1>0, <1>3 DEF DetailFill, Contract!cvars, StepsAreBacked, TypeOK
<1>4. ASSUME NEW p \in Proc, ClaimUnlock(p) \/ ClaimFails(p)
      PROVE  Refined
  <2>1. UNCHANGED <<cache, charges, delivered>>
    BY <1>4 DEF ClaimUnlock, ClaimFails
  <2>2. \/ UNCHANGED record
        \/ record[arg[p]] = "none" /\ record' = [record EXCEPT ![arg[p]] = "in_flight"]
    BY <1>4 DEF ClaimUnlock, ClaimFails
  <2> QED
    BY <2>1, <2>2, <1>1, <1>2 DEF seen
<1>5. ASSUME NEW p \in Proc, RecordUnknown(p)
      PROVE  Refined
  <2>1. record[arg[p]] = "in_flight" /\ arg[p] \in Key
    BY <1>0, <1>5 DEF RecordUnknown, OwnerHoldsRow, Owning, TypeOK
  <2>2. \A k \in Key : (record'[k] = "none" <=> record[k] = "none")
                    /\ (record'[k] = "success" <=> record[k] = "success")
    BY <1>0, <1>5, <2>1 DEF RecordUnknown, TypeOK
  <2>3. UNCHANGED <<cache, charges, delivered>>
    BY <1>5 DEF RecordUnknown
  <2> QED
    BY <2>2, <2>3 DEF Contract!cvars
<1>6. ASSUME NEW p \in Proc, FillUnlock(p)
      PROVE  Refined
  <2>0. PICK k \in Key : k = arg[p]
    BY <1>0 DEF TypeOK
  <2>1. charges[k] = 1
    BY <1>0, <1>6, <2>0 DEF FillUnlock, StepsAreBacked, ChargesAreReported
  <2>2. Contract!Grant(k)
    BY <1>6, <2>0, <2>1 DEF FillUnlock, Contract!Grant
  <2> QED
    BY <2>2, <1>a
<1>7. ASSUME NEW p \in Proc, PersistSuccess(p) \/ PersistFails(p)
      PROVE  Refined
  <2>0. PICK k \in Key : k = arg[p]
    BY <1>0 DEF TypeOK
  <2>1. k \in cache /\ record[k] = "in_flight"
    BY <1>0, <1>7, <2>0 DEF PersistSuccess, PersistFails, StepsAreBacked, OwnerHoldsRow, Owning
  <2>2. UNCHANGED <<cache, charges, delivered>>
    BY <1>7 DEF PersistSuccess, PersistFails
  <2>3. UNCHANGED record \/ record' = [record EXCEPT ![k] = "success"]
    BY <1>7, <2>0 DEF PersistSuccess, PersistFails
  <2>4. ASSUME record' = [record EXCEPT ![k] = "success"]
        PROVE  Contract!Persist(k)
    BY <1>0, <2>1, <2>2, <2>4 DEF Contract!Persist, TypeOK
  <2> QED
    BY <2>2, <2>3, <2>4, <1>1, <1>a DEF seen
<1>8. ASSUME NEW p \in Proc, ReceiveShare(p) \/ ReceiveFails(p)
      PROVE  Refined
  <2>0. PICK k \in Key : k = arg[p]
    BY <1>0 DEF TypeOK
  <2>1. k \in cache
    BY <1>0, <1>8, <2>0 DEF ReceiveShare, ReceiveFails, StepsAreBacked
  <2>2. UNCHANGED <<record, cache, charges>>
    BY <1>8 DEF ReceiveShare, ReceiveFails
  <2>3. delivered' = delivered \union {k} \/ UNCHANGED delivered
    BY <1>8, <2>0 DEF ReceiveShare, ReceiveFails
  <2>4. ASSUME delivered' = delivered \union {k}
        PROVE  Contract!Deliver(k)
    BY <2>1, <2>2, <2>4 DEF Contract!Deliver
  <2> QED
    BY <2>2, <2>3, <2>4, <1>1, <1>a DEF seen
<1>9. ASSUME NEW p \in Proc, NEW o \in {"charged", "refused", "forbidden"}, Upstream(p, o)
      PROVE  Refined
  <2>1. CASE o # "charged"
    BY <2>1, <1>9, <1>1 DEF Upstream, seen
  <2>2. CASE o = "charged"
    <3>0. PICK k \in Key : k = arg[p]
      BY <1>0 DEF TypeOK
    <3>1. record[k] # "none"
      BY <1>0, <1>9, <3>0 DEF Upstream, WireIsClaimed
    <3>2. charges[k] = 0
      BY <1>0, <1>9, <3>0 DEF Upstream, ChargesAreReported, OneOwnerPerKey, Engaged
    <3>3. Contract!Pay(k)
      BY <1>0, <1>9, <2>2, <3>0, <3>1, <3>2 DEF Upstream, Contract!Pay, TypeOK
    <3> QED
      BY <3>3, <1>a
  <2> QED
    BY <2>1, <2>2
<1>10. ASSUME Restart
       PROVE  Refined
  <2>1. Contract!Forget
    BY <1>10 DEF Restart, Contract!Forget
  <2> QED
    BY <2>1 DEF Contract!ContractNext
<1>11. ASSUME \/ \E p \in Proc, s \in {"entry", "transfer"} : Press(p, s)
              \/ OtherSessions \/ Search \/ UNCHANGED vars
       PROVE  UNCHANGED seen
  BY <1>11 DEF Press, OtherSessions, Search, vars, seen
<1> HIDE DEF Refined
<1>12. Refined
  BY <1>1, <1>3, <1>4, <1>5, <1>6, <1>7, <1>8, <1>9, <1>10, <1>11, QuietSteps
  DEF Next, Step, DetailStep, UnlockStep, TransferStep
<1> QED
  BY <1>12 DEF Refined

\* The worker keeps the promise of UnlockContract: claim first, pay once, grant
\* what was paid, never forget what was persisted, deliver only what was granted.
THEOREM WorkerImplementsContract == Spec => ImplementsContract
  BY InitRefines, StepRefines, IndInvHolds, PTL
  DEF Spec, ImplementsContract, Contract!ContractSpec

-----------------------------------------------------------------------------
(* The gate, and its inductive invariant.  A press gives its goroutine a   *)
(* new call site, so one that tends a gate must not be idle; a mark that   *)
(* finds no session leaves nothing closed, as statuses live in sessions.   *)

IdleIsFresh == \A p \in Proc : pc[p] = "idle" => site[p] = "entry"

StatusHasSession == \A k \in Key : status[k] # "none" => k[1] \in sess

GateInv == TypeOK /\ IdleIsFresh /\ StatusHasSession /\ GateIsTended

\* The goroutine that a closed gate of k needs.
Tends(p, k) ==
  /\ arg[p] = k
  /\ status[k] = "in_flight" => Unlocking(p)
  /\ status[k] = "pending" => Guarding(p) \/ FoundUnlocked(p)

Closed(k) == status[k] \in {"in_flight", "pending"}

\* GateIsTended, with one formula for both ways of being closed.
LEMMA TendedBySome ==
  GateIsTended <=> \A k \in Key : Closed(k) => \E p \in Proc : Tends(p, k)
  BY DEF GateIsTended, Closed, Tends

\* At the start no goroutine has begun and no gate is closed.
LEMMA GateInvInit == Init => GateInv
  BY TypeInit
  DEF Init, GateInit, GateInv, IdleIsFresh, StatusHasSession, GateIsTended

\* A goroutine that starts was idle, and one that goes on keeps the rule.
LEMMA FreshStep == GateInv /\ [Next]_vars => IdleIsFresh'
<1> SUFFICES ASSUME GateInv, [Next]_vars
             PROVE  IdleIsFresh'
  OBVIOUS
<1>0. TypeOK /\ IdleIsFresh
  BY DEF GateInv
<1> USE <1>0 DEF TypeOK, IdleIsFresh, Goto, local, mem
<1>1. ASSUME NEW p \in Proc, DetailStep(p)
      PROVE  IdleIsFresh'
  BY <1>1 DEF DetailStep, DetailMem, DetailRecord, DetailRecordFails, DetailFill, Return, Resume
<1>2. ASSUME NEW p \in Proc, UnlockStep(p)
      PROVE  IdleIsFresh'
  <2>1. \E st \in Steps : pc' = [pc EXCEPT ![p] = st] /\ st # "idle"
    BY <1>2
    DEF UnlockStep, BeginUnlock, TransitionUnlock, MarkSuccess, MarkUnknown, SetUnlockStatus,
        UnlockRead, UnlockReadFails, ClaimUnlock, ClaimFails, Post, PostFails, Resend,
        ReplySucceeds, ReplyFails, RecordUnknown, FillUnlock, PersistSuccess, PersistFails, Steps
  <2>2. \A q \in Proc : q # p => site'[q] = site[q]
    BY <1>2
    DEF UnlockStep, BeginUnlock, TransitionUnlock, MarkSuccess, MarkUnknown, SetUnlockStatus,
        UnlockRead, UnlockReadFails, ClaimUnlock, ClaimFails, Post, PostFails, Resend,
        ReplySucceeds, ReplyFails, RecordUnknown, FillUnlock, PersistSuccess, PersistFails
  <2> QED
    BY <2>1, <2>2
<1>3. ASSUME NEW p \in Proc, TransferStep(p)
      PROVE  IdleIsFresh'
  BY <1>3 DEF TransferStep, TransferProof, ReceiveShare, ReceiveFails
<1>4. ASSUME NEW p \in Proc, NEW s \in {"entry", "transfer"}, Press(p, s)
      PROVE  IdleIsFresh'
  BY <1>4 DEF Press
<1>5. ASSUME NEW p \in Proc, NEW o \in {"charged", "refused", "forbidden"}, Upstream(p, o)
      PROVE  IdleIsFresh'
  BY <1>5 DEF Upstream
<1>6. CASE Restart
  BY <1>6 DEF Restart, Ended
<1>7. CASE OtherSessions \/ Search
  BY <1>7 DEF OtherSessions, Search
<1>8. CASE UNCHANGED vars
  BY <1>8 DEF vars
<1> QED
  BY <1>1, <1>2, <1>3, <1>4, <1>5, <1>6, <1>7, <1>8 DEF Next, Step

-----------------------------------------------------------------------------
(* Statuses live in sessions.                                              *)

\* An unlock step stores a status in a living session only.
LEMMA SessionOfStore ==
  ASSUME TypeOK, StatusHasSession, NEW k \in Key, NEW st \in Statuses, Store(k, st) \/ Sweep
  PROVE  StatusHasSession'
<1>1. \A x \in Key : LiveStatus[x] # "none" => x[1] \in Live
  BY DEF StatusHasSession, LiveStatus, Live
<1>2. CASE Sweep
  BY <1>1, <1>2 DEF Sweep, StatusHasSession
<1>3. CASE Store(k, st)
  <2>1. sess' = Live \union {k[1]} /\ status' = [LiveStatus EXCEPT ![k] = st]
    BY <1>3 DEF Store
  <2>2. \A x \in Key : x # k => status'[x] = LiveStatus[x]
    BY <2>1 DEF LiveStatus
  <2> QED
    BY <1>1, <2>1, <2>2 DEF StatusHasSession
<1> QED
  BY <1>2, <1>3

\* Dialogs and the clock keep the sessions whose statuses they keep.
LEMMA SessionOfEnvironment ==
  ASSUME TypeOK, StatusHasSession, GateEnvironment
  PROVE  StatusHasSession'
<1>1. CASE Sweep
  BY <1>1 DEF Sweep, StatusHasSession, LiveStatus, Live
<1>2. ASSUME NEW u \in User, Open(u)
      PROVE  StatusHasSession'
  BY <1>2 DEF Open, StatusHasSession, LiveStatus, Live
<1>3. ASSUME NEW u \in User, Renew(u)
      PROVE  StatusHasSession'
  BY <1>3 DEF Renew, StatusHasSession
<1>4. ASSUME NEW us \in SUBSET Live, Expire(us)
      PROVE  StatusHasSession'
  BY <1>4 DEF Expire, StatusHasSession
<1> QED
  BY <1>1, <1>2, <1>3, <1>4 DEF GateEnvironment

\* What the four gate steps of a goroutine do to the sessions.
LEMMA GateStores ==
  ASSUME TypeOK, NEW p \in Proc,
         BeginUnlock(p) \/ TransitionUnlock(p) \/ MarkSuccess(p) \/ MarkUnknown(p)
  PROVE  \E st \in Statuses : Store(arg[p], st) \/ Sweep
<1>1. {"pending", "in_flight", "success", "unknown"} \subseteq Statuses
  BY DEF Statuses
<1> QED
  BY <1>1 DEF BeginUnlock, Begin, TransitionUnlock, Transition, MarkSuccess, MarkUnknown,
              SetUnlockStatus, Mark

\* The steps of a goroutine that leave the sessions alone.
Plain(p) ==
  \/ DetailStep(p) \/ TransferStep(p)
  \/ UnlockRead(p) \/ UnlockReadFails(p) \/ ClaimUnlock(p) \/ ClaimFails(p)
  \/ Post(p) \/ PostFails(p) \/ Resend(p) \/ ReplySucceeds(p) \/ ReplyFails(p)
  \/ RecordUnknown(p) \/ FillUnlock(p) \/ PersistSuccess(p) \/ PersistFails(p)

\* A goroutine's step is one on the sessions or leaves them alone.
LEMMA PlainOrGate ==
  ASSUME NEW p \in Proc, Step(p)
  PROVE  Plain(p) \/ BeginUnlock(p) \/ TransitionUnlock(p) \/ MarkSuccess(p) \/ MarkUnknown(p)
  BY DEF Step, UnlockStep, Plain

\* Every step keeps statuses within sessions.
LEMMA SessionStep == GateInv /\ [Next]_vars => StatusHasSession'
<1> SUFFICES ASSUME GateInv, [Next]_vars
             PROVE  StatusHasSession'
  OBVIOUS
<1>0. TypeOK /\ StatusHasSession
  BY DEF GateInv
<1>1. ASSUME NEW p \in Proc, Step(p)
      PROVE  StatusHasSession'
  <2>1. CASE Plain(p)
    <3>1. UNCHANGED <<sess, status>>
      BY <2>1
      DEF Plain, DetailStep, DetailMem, DetailRecord, DetailRecordFails, DetailFill, TransferStep,
          TransferProof, ReceiveShare, ReceiveFails, UnlockRead, UnlockReadFails, ClaimUnlock,
          ClaimFails, Post, PostFails, Resend, ReplySucceeds, ReplyFails, RecordUnknown,
          FillUnlock, PersistSuccess, PersistFails, mem, gate
    <3> QED
      BY <1>0, <3>1 DEF StatusHasSession
  <2>2. CASE BeginUnlock(p) \/ TransitionUnlock(p) \/ MarkSuccess(p) \/ MarkUnknown(p)
    BY <1>0, <2>2, ArgTyped, GateStores, SessionOfStore
  <2> QED
    BY <1>1, <2>1, <2>2, PlainOrGate
<1>2. CASE OtherSessions
  BY <1>0, <1>2, SessionOfEnvironment DEF OtherSessions
<1>3. CASE Restart
  BY <1>3 DEF Restart, StatusHasSession
<1>4. ASSUME UNCHANGED gate
      PROVE  StatusHasSession'
  BY <1>0, <1>4 DEF gate, StatusHasSession
<1> QED
  BY <1>1, <1>2, <1>3, <1>4
  DEF Next, Press, Upstream, Search, mem, vars, gate

-----------------------------------------------------------------------------
(* Every closed gate keeps somebody who will open it.                      *)

\* The other goroutines keep their places, and what they found unlocked stays so.
OthersStay(q) ==
  /\ \A p \in Proc : p # q => pc'[p] = pc[p] /\ site'[p] = site[p] /\ raw'[p] = raw[p]
  /\ cache \subseteq cache'

\* A step of one goroutine keeps the gates tended if it tends the gates it has
\* closed, or goes on tending, and leaves the other closed ones as they are.
LEMMA OneMoves ==
  ASSUME GateIsTended, NEW q \in Proc, UNCHANGED arg, OthersStay(q),
         \A k \in Key : Closed(k)' => Tends(q, k)' \/ (status'[k] = status[k] /\ ~Tends(q, k))
  PROVE  GateIsTended'
<1> SUFFICES ASSUME NEW k \in Key, Closed(k)'
             PROVE  \E p \in Proc : Tends(p, k)'
  BY DEF GateIsTended, Closed, Tends
<1>1. CASE Tends(q, k)'
  BY <1>1
<1>2. CASE status'[k] = status[k] /\ ~Tends(q, k)
  <2>1. PICK p \in Proc : Tends(p, k)
    BY <1>2, TendedBySome DEF Closed
  <2> QED
    BY <1>2, <2>1 DEF Tends, Unlocking, Guarding, FoundUnlocked, OthersStay
<1> QED
  BY <1>1, <1>2

\* Goroutine q goes on tending its gates: it stays on the path to its mark, and
\* in the guard.
GoesOn(q) ==
  /\ OthersStay(q)
  /\ Unlocking(q) => Unlocking(q)'
  /\ Guarding(q) \/ FoundUnlocked(q) => (Guarding(q) \/ FoundUnlocked(q))'

\* The steps that leave the sessions alone never turn from that path.
LEMMA PlainGoesOn ==
  ASSUME TypeOK, NEW q \in Proc, Plain(q)
  PROVE  GoesOn(q) /\ UNCHANGED <<arg, status>>
<1> USE DEF TypeOK, Goto, local, mem, gate, Unlocking, Guarding, FoundUnlocked, OthersStay, GoesOn
<1>1. CASE DetailMem(q) \/ DetailRecord(q) \/ DetailRecordFails(q) \/ DetailFill(q)
  BY <1>1 DEF DetailMem, DetailRecord, DetailRecordFails, DetailFill, Return, Resume
<1>2. CASE TransferProof(q) \/ ReceiveShare(q) \/ ReceiveFails(q)
  BY <1>2 DEF TransferProof, ReceiveShare, ReceiveFails
<1>3. CASE UnlockRead(q) \/ UnlockReadFails(q) \/ ClaimUnlock(q) \/ ClaimFails(q)
  BY <1>3 DEF UnlockRead, UnlockReadFails, ClaimUnlock, ClaimFails
<1>4. CASE Post(q) \/ PostFails(q) \/ Resend(q) \/ ReplySucceeds(q) \/ ReplyFails(q)
  BY <1>4 DEF Post, PostFails, Resend, ReplySucceeds, ReplyFails
<1>5. CASE RecordUnknown(q) \/ FillUnlock(q) \/ PersistSuccess(q) \/ PersistFails(q)
  BY <1>5 DEF RecordUnknown, FillUnlock, PersistSuccess, PersistFails
<1> QED
  BY <1>1, <1>2, <1>3, <1>4, <1>5 DEF Plain, DetailStep, TransferStep

\* BeginUnlock closes a gate and stays to tend it, or closes none.
LEMMA BeginTends ==
  ASSUME GateInv, NEW q \in Proc, BeginUnlock(q)
  PROVE  GateIsTended'
<1>0. TypeOK /\ GateIsTended /\ arg[q] \in Key
  BY DEF GateInv, TypeOK
<1>1. pc[q] = "begin" /\ UNCHANGED arg /\ OthersStay(q)
  BY <1>0 DEF BeginUnlock, OthersStay, Goto, local, TypeOK
<1>2. CASE Admits(arg[q])
  <2>1. pc'[q] = "detailMem" /\ site'[q] = "guard"
    BY <1>0, <1>2 DEF BeginUnlock, Goto, TypeOK
  <2>2. Store(arg[q], "pending")
    BY <1>2 DEF BeginUnlock, Begin
  <2>3. status'[arg[q]] = "pending"
    BY <1>0, <2>2 DEF Store, LiveStatus
  <2>4. \A k \in Key : k # arg[q] => status'[k] \in {status[k], "none"}
    BY <2>2 DEF Store, LiveStatus
  <2>5. Tends(q, arg[q])'
    BY <1>1, <2>1, <2>3 DEF Tends, Guarding
  <2>6. \A k \in Key : Closed(k)' => Tends(q, k)' \/ (status'[k] = status[k] /\ ~Tends(q, k))
    BY <1>1, <2>4, <2>5 DEF Closed, Tends
  <2> QED
    BY <1>0, <1>1, <2>6, OneMoves
<1>3. CASE ~Admits(arg[q])
  <2>1. pc'[q] = "done" /\ site'[q] = site[q] /\ Sweep
    BY <1>0, <1>3 DEF BeginUnlock, Begin, Goto, TypeOK
  <2>2. \A k \in Key : status'[k] \in {status[k], "none"}
    BY <2>1 DEF Sweep, LiveStatus
  <2>3. \A k \in Key : Closed(k)' => Tends(q, k)' \/ (status'[k] = status[k] /\ ~Tends(q, k))
    BY <1>1, <2>1, <2>2 DEF Closed, Tends, Unlocking, Guarding, FoundUnlocked
  <2> QED
    BY <1>0, <1>1, <2>3, OneMoves
<1> QED
  BY <1>2, <1>3

\* TransitionUnlock leaves the guard only with the gate it takes along.
LEMMA TransitionTends ==
  ASSUME GateInv, NEW q \in Proc, TransitionUnlock(q)
  PROVE  GateIsTended'
<1>0. TypeOK /\ GateIsTended /\ StatusHasSession /\ arg[q] \in Key
  BY DEF GateInv, TypeOK
<1>1. pc[q] = "transition" /\ UNCHANGED arg /\ OthersStay(q)
  BY <1>0 DEF TransitionUnlock, OthersStay, Goto, local, TypeOK
<1>2. CASE Moves(arg[q], "pending")
  <2>1. pc'[q] = "detailMem" /\ site'[q] = "busy"
    BY <1>0, <1>2 DEF TransitionUnlock, Goto, TypeOK
  <2>2. Store(arg[q], "in_flight")
    BY <1>2 DEF TransitionUnlock, Transition
  <2>3. status'[arg[q]] = "in_flight"
    BY <1>0, <2>2 DEF Store, LiveStatus
  <2>4. \A k \in Key : k # arg[q] => status'[k] \in {status[k], "none"}
    BY <2>2 DEF Store, LiveStatus
  <2>5. Tends(q, arg[q])'
    BY <1>1, <2>1, <2>3 DEF Tends, Unlocking
  <2>6. \A k \in Key : Closed(k)' => Tends(q, k)' \/ (status'[k] = status[k] /\ ~Tends(q, k))
    BY <1>1, <2>4, <2>5 DEF Closed, Tends
  <2> QED
    BY <1>0, <1>1, <2>6, OneMoves
<1>3. CASE ~Moves(arg[q], "pending")
  <2>1. pc'[q] = "done" /\ site'[q] = site[q] /\ Sweep
    BY <1>0, <1>3 DEF TransitionUnlock, Transition, Goto, TypeOK
  <2>2. \A k \in Key : status'[k] \in {status[k], "none"}
    BY <2>1 DEF Sweep, LiveStatus
  <2>3. status'[arg[q]] = LiveStatus[arg[q]]
    BY <2>1 DEF Sweep
  <2>4. CASE arg[q][1] \in Live
    <3>1. status'[arg[q]] # "pending"
      BY <1>3, <2>3, <2>4 DEF Moves
    <3> QED
      BY <1>0, <1>1, <2>1, <2>2, <3>1, OneMoves DEF Closed, Tends, Unlocking, Guarding, FoundUnlocked
  <2>5. CASE arg[q][1] \notin Live
    <3>1. status'[arg[q]] # "pending"
      BY <1>0, <2>3, <2>5 DEF Live, LiveStatus, StatusHasSession
    <3> QED
      BY <1>0, <1>1, <2>1, <2>2, <3>1, OneMoves DEF Closed, Tends, Unlocking, Guarding, FoundUnlocked
  <2> QED
    BY <2>4, <2>5
<1> QED
  BY <1>2, <1>3

\* A mark opens the gate for which its goroutine leaves; where the session is
\* gone or expired there is no gate left to open.
LEMMA MarkTends ==
  ASSUME GateInv, NEW q \in Proc, MarkSuccess(q) \/ MarkUnknown(q)
  PROVE  GateIsTended'
<1>0. TypeOK /\ GateIsTended /\ StatusHasSession /\ arg[q] \in Key
  BY DEF GateInv, TypeOK
<1>1. PICK st \in {"success", "unknown"} : SetUnlockStatus(q, st)
  BY DEF MarkSuccess, MarkUnknown
<1>2. UNCHANGED arg /\ OthersStay(q)
  BY <1>0, <1>1 DEF SetUnlockStatus, OthersStay, Goto, local, TypeOK
<1>3. ~Closed(arg[q])' /\ \A k \in Key : k # arg[q] => status'[k] \in {status[k], "none"}
  <2>1. CASE arg[q][1] \in Live
    <3>1. Store(arg[q], st)
      BY <1>1, <2>1 DEF SetUnlockStatus, Mark
    <3>2. status'[arg[q]] = st
      BY <1>0, <3>1 DEF Store, LiveStatus
    <3>3. \A k \in Key : k # arg[q] => status'[k] \in {status[k], "none"}
      BY <3>1 DEF Store, LiveStatus
    <3> QED
      BY <1>2, <3>2, <3>3 DEF Closed
  <2>2. CASE arg[q][1] \notin Live
    <3>1. Sweep
      BY <1>1, <2>2 DEF SetUnlockStatus, Mark
    <3>2. LiveStatus[arg[q]] = "none"
      BY <1>0, <2>2 DEF LiveStatus, Live, StatusHasSession
    <3>3. \A k \in Key : status'[k] \in {status[k], "none"}
      BY <3>1 DEF Sweep, LiveStatus
    <3> QED
      BY <1>0, <1>2, <3>1, <3>2, <3>3 DEF Closed, Sweep
  <2> QED
    BY <2>1, <2>2
<1>4. \A k \in Key : Closed(k)' => Tends(q, k)' \/ (status'[k] = status[k] /\ ~Tends(q, k))
  BY <1>2, <1>3 DEF Closed, Tends
<1> QED
  BY <1>0, <1>2, <1>4, OneMoves

\* No step leaves a gate closed behind it that nobody tends.
LEMMA TendedStep == GateInv /\ [Next]_vars => GateIsTended'
<1> SUFFICES ASSUME GateInv, [Next]_vars
             PROVE  GateIsTended'
  OBVIOUS
<1>0. TypeOK /\ IdleIsFresh /\ GateIsTended
  BY DEF GateInv
<1>1. ASSUME NEW q \in Proc, Plain(q)
      PROVE  GateIsTended'
  <2>1. GoesOn(q) /\ UNCHANGED <<arg, status>>
    BY <1>0, <1>1, PlainGoesOn
  <2>2. \A k \in Key : Closed(k)' => Tends(q, k)' \/ (status'[k] = status[k] /\ ~Tends(q, k))
    BY <2>1 DEF GoesOn, OthersStay, Closed, Tends
  <2> QED
    BY <1>0, <2>1, <2>2, OneMoves DEF GoesOn
<1>2. ASSUME NEW q \in Proc, Step(q)
      PROVE  GateIsTended'
  BY <1>1, <1>2, PlainOrGate, BeginTends, TransitionTends, MarkTends
<1>3. ASSUME NEW q \in Proc, NEW s \in {"entry", "transfer"}, Press(q, s)
      PROVE  GateIsTended'
  <2>1. /\ pc[q] = "idle" /\ site[q] = "entry" /\ UNCHANGED <<arg, status>>
        /\ OthersStay(q)
    BY <1>0, <1>3 DEF Press, OthersStay, IdleIsFresh, Goto, mem, gate, TypeOK
  <2>2. \A k \in Key : Closed(k)' => Tends(q, k)' \/ (status'[k] = status[k] /\ ~Tends(q, k))
    BY <2>1 DEF Closed, Tends, Unlocking, Guarding, FoundUnlocked
  <2> QED
    BY <1>0, <2>1, <2>2, OneMoves
<1>4. CASE OtherSessions
  <2>1. UNCHANGED <<pc, site, arg, raw, cache>>
    BY <1>4 DEF OtherSessions, local
  <2>2. \A k \in Key : status'[k] \in {status[k], "none"}
    <3>1. GateKept(<< >>, "none")
      BY <1>0, <1>4, EnvironmentKeeps DEF OtherSessions
    <3> QED
      BY <3>1 DEF GateKept
  <2> QED
    BY <1>0, <2>1, <2>2 DEF GateIsTended, Unlocking, Guarding, FoundUnlocked
<1>5. CASE Restart
  BY <1>5 DEF Restart, GateIsTended
<1>6. ASSUME UNCHANGED <<pc, site, arg, raw, cache, status>>
      PROVE  GateIsTended'
  BY <1>0, <1>6 DEF GateIsTended, Unlocking, Guarding, FoundUnlocked
<1> QED
  BY <1>2, <1>3, <1>4, <1>5, <1>6 DEF Next, Upstream, Search, local, mem, gate, vars

\* The inductive invariant holds for ever.
LEMMA GateInvHolds == Spec => []GateInv
<1>1. GateInv /\ [Next]_vars => GateInv'
  BY TypeStep, FreshStep, SessionStep, TendedStep DEF GateInv
<1> QED
  BY <1>1, GateInvInit, PTL DEF Spec

\* Whatever fails, expires or restarts, a gate that is closed has a goroutine
\* that will mark it, or was left pending by one that found the key unlocked
\* (handler.go unlock, session.go BeginUnlock, TransitionUnlock, SetUnlockStatus).
THEOREM GateStaysTended == Spec => []GateIsTended
<1>1. GateInv => GateIsTended
  BY DEF GateInv
<1> QED
  BY <1>1, GateInvHolds, PTL
=============================================================================
