--------------------------- MODULE UnlockProtocol ---------------------------
(***************************************************************************)
(* The paid unlock of a HDHive resource and the 115 transfer that follows  *)
(* it, as the goroutines of the worker execute them: the Telegram handler  *)
(* (handler.go unlockResource, showDetail, unlock, transfer), the session  *)
(* manager's unlock statuses (whatever sets sess, stale and status is an   *)
(* action of SessionGate, but for a restart, which starts them anew), the  *)
(* adapter's two in-memory maps, the SQLite table unlock_records, and the  *)
(* unlock POST on the wire.                                                *)
(*                                                                         *)
(* go-telegram/bot runs every update in a goroutine of its own, so each    *)
(* element of Proc is one callback query from its arrival to its end.  A   *)
(* restart kills every goroutine and empties the memory; the database, the *)
(* upstream account and the requests already on the wire survive it.       *)
(*                                                                         *)
(* A definition marked "Variant" is a plausible mistake in the definition  *)
(* after it.  Nothing here uses it: put in place of that definition, it    *)
(* must break the property PROJECT.json names.                             *)
(***************************************************************************)
EXTENDS SessionGate

CONSTANT Proc   \* handler goroutines, one per callback query

VARIABLES
  pc,         \* pc[p]: the step goroutine p takes next
  site,       \* site[p]: the call of HDHive.Detail that p is in
  arg,        \* arg[p]: the user and the resource of the callback p serves
  raw,        \* raw[p]: upstream's own unlocked flag, as p's Detail read it
  listed,     \* HDHiveAdapter.resources, reduced to the unlocked flag
  cache,      \* HDHiveAdapter.unlocked: keys with a remembered share link
  record,     \* the row of unlock_records for the key
  wire,       \* wire[p]: what became of the last unlock POST of p
  charges,    \* charges[k]: how often the upstream account was charged
  delivered   \* keys whose share was sent to 115, to be received now or later

mem == <<gate, listed, cache>>
ext == <<wire, charges, delivered>>
local == <<site, arg, raw>>
vars == <<pc, site, arg, raw, sess, stale, status, listed, cache, record, wire, charges, delivered>>

-----------------------------------------------------------------------------
\* Detail is called by: unlockResource, unlock (twice), showDetail, transfer.
Sites == {"entry", "guard", "busy", "show", "transfer"}

Steps == {"idle", "detailMem", "detailRecord", "detailFill", "begin",
          "transition", "unlockRead", "claim", "post", "await1", "await2",
          "recordUnknown", "fillUnlock", "persist", "markSuccess",
          "markUnknown", "proof", "receive", "done", "dead"}

Ended == {"idle", "done", "dead"}

Records == {"none", "in_flight", "success", "unknown"}

\* A resource of the listing, reduced to upstream's own unlocked flag.
Flags == {"absent", "locked", "unlocked"}

Wires == {"idle", "sent", "charged", "refused", "forbidden"}

UserOf(p) == arg[p][1]
ResOf(p) == arg[p][2]

Goto(p, step) == pc' = [pc EXCEPT ![p] = step]

-----------------------------------------------------------------------------
(* HDHiveAdapter.Detail and the continuation of each of its five callers.  *)

\* Variant: whoever cannot read the resource in the guard gives up there.
ResumeGivingUp(s, o) ==
  IF s = "entry"
    THEN IF o = "error" THEN "done" ELSE IF o = "unlocked" THEN "detailMem" ELSE "begin"
  ELSE IF s = "guard"
    THEN IF o \in {"unlocked", "error"} THEN "done" ELSE "transition"
  ELSE IF s = "busy" THEN "unlockRead"
  ELSE IF s = "transfer" THEN IF o = "error" THEN "done" ELSE "proof"
  ELSE "done"

\* Where the caller at s goes on when Detail returns outcome o.
Resume(s, o) ==
  IF s = "entry"
    THEN IF o = "error" THEN "done" ELSE IF o = "unlocked" THEN "detailMem" ELSE "begin"
  ELSE IF s = "guard"
    THEN IF o = "unlocked" THEN "done" ELSE "transition"
  ELSE IF s = "busy" THEN "unlockRead"
  ELSE IF s = "transfer" THEN IF o = "error" THEN "done" ELSE "proof"
  ELSE "done"

\* unlockResource hands an unlocked resource to showDetail, which calls
\* Detail again; every other caller stays where it is.
Return(p, o) ==
  /\ Goto(p, Resume(site[p], o))
  /\ site' = [site EXCEPT ![p] = IF @ = "entry" /\ o = "unlocked" THEN "show" ELSE @]

\* The user presses a button whose token was bound when the listing, which
\* stores every resource it shows, was rendered.
Press(p, s) ==
  /\ pc[p] = "idle"
  /\ listed[ResOf(p)] # "absent"
  /\ site' = [site EXCEPT ![p] = s]
  /\ Goto(p, "detailMem")
  /\ UNCHANGED <<arg, raw, mem, record, ext>>

\* Under the read lock: the user's unlocked share, else the listed resource.
DetailMem(p) ==
  /\ pc[p] = "detailMem"
  /\ IF arg[p] \in cache \/ listed[ResOf(p)] = "absent"
       THEN /\ Return(p, IF arg[p] \in cache THEN "unlocked" ELSE "error")
            /\ UNCHANGED raw
       ELSE /\ raw' = [raw EXCEPT ![p] = listed[ResOf(p)]]
            /\ Goto(p, "detailRecord")
            /\ UNCHANGED site
  /\ UNCHANGED <<arg, mem, record, ext>>

DetailRecord(p) ==
  /\ pc[p] = "detailRecord"
  /\ IF record[arg[p]] = "success"
       THEN Goto(p, "detailFill") /\ UNCHANGED site
       ELSE Return(p, IF record[arg[p]] = "none" THEN raw[p] ELSE "error")
  /\ UNCHANGED <<arg, raw, mem, record, ext>>

\* Without a row Detail answers with the listed resource as it is, and so it
\* does when the row cannot be read, decrypted or decoded.
DetailRecordFails(p) ==
  /\ pc[p] = "detailRecord"
  /\ Return(p, raw[p])
  /\ UNCHANGED <<arg, raw, mem, record, ext>>

\* The saved share enters the user's map under the write lock.
DetailFill(p) ==
  /\ pc[p] = "detailFill"
  /\ cache' = cache \union {arg[p]}
  /\ Return(p, "unlocked")
  /\ UNCHANGED <<arg, raw, gate, listed, record, ext>>

-----------------------------------------------------------------------------
(* The in-memory gate: session.Manager.                                    *)

BeginUnlock(p) ==
  /\ pc[p] = "begin"
  /\ Begin(arg[p])
  /\ IF Admits(arg[p])
       THEN Goto(p, "detailMem") /\ site' = [site EXCEPT ![p] = "guard"]
       ELSE Goto(p, "done") /\ UNCHANGED site
  /\ UNCHANGED <<arg, raw, listed, cache, record, ext>>

TransitionUnlock(p) ==
  /\ pc[p] = "transition"
  /\ Transition(arg[p], "pending", "in_flight")
  /\ IF Moves(arg[p], "pending")
       THEN Goto(p, "detailMem") /\ site' = [site EXCEPT ![p] = "busy"]
       ELSE Goto(p, "done") /\ UNCHANGED site
  /\ UNCHANGED <<arg, raw, listed, cache, record, ext>>

SetUnlockStatus(p, st) ==
  /\ Mark(arg[p], st)
  /\ Goto(p, "done")
  /\ UNCHANGED <<local, listed, cache, record, ext>>

MarkSuccess(p) == pc[p] = "markSuccess" /\ SetUnlockStatus(p, "success")

\* Variant: a failure of unknown outcome is filed as a rejection.
MarkRejected(p) == pc[p] = "markUnknown" /\ SetUnlockStatus(p, "rejected")

MarkUnknown(p) == pc[p] = "markUnknown" /\ SetUnlockStatus(p, "unknown")

\* Dialogs, cancellations, other methods' sweeps, and the clock.
OtherSessions ==
  /\ GateEnvironment
  /\ UNCHANGED <<pc, local, listed, cache, record, ext>>

-----------------------------------------------------------------------------
(* HDHiveAdapter.Unlock: the durable gate, the POST, and its bookkeeping.  *)

\* Variant: any earlier attempt counts as a success.
UnlockReadTrusting(p) ==
  /\ pc[p] = "unlockRead"
  /\ Goto(p, IF record[arg[p]] = "none" THEN "claim" ELSE "markSuccess")
  /\ UNCHANGED <<local, mem, record, ext>>

UnlockRead(p) ==
  /\ pc[p] = "unlockRead"
  /\ Goto(p, IF record[arg[p]] = "success" THEN "markSuccess"
             ELSE IF record[arg[p]] = "none" THEN "claim" ELSE "markUnknown")
  /\ UNCHANGED <<local, mem, record, ext>>

\* Any error but ErrNotFound stops the unlock.
UnlockReadFails(p) ==
  /\ pc[p] = "unlockRead"
  /\ Goto(p, "markUnknown")
  /\ UNCHANGED <<local, mem, record, ext>>

\* Variant: ON CONFLICT DO UPDATE, so every caller believes it has the claim.
ClaimUpsert(p) ==
  /\ pc[p] = "claim"
  /\ record' = [record EXCEPT ![arg[p]] = "in_flight"]
  /\ Goto(p, "post")
  /\ UNCHANGED <<local, mem, ext>>

\* INSERT ... ON CONFLICT DO NOTHING, claimed iff one row was inserted.
ClaimUnlock(p) ==
  /\ pc[p] = "claim"
  /\ IF record[arg[p]] = "none"
       THEN /\ record' = [record EXCEPT ![arg[p]] = "in_flight"]
            /\ Goto(p, "post")
       ELSE /\ Goto(p, "markUnknown")
            /\ UNCHANGED record
  /\ UNCHANGED <<local, mem, ext>>

\* The statement reports an error, before or after it took effect.
ClaimFails(p) ==
  /\ pc[p] = "claim"
  /\ \/ UNCHANGED record
     \/ /\ record[arg[p]] = "none"
        /\ record' = [record EXCEPT ![arg[p]] = "in_flight"]
  /\ Goto(p, "markUnknown")
  /\ UNCHANGED <<local, mem, ext>>

\* A resource the adapter no longer knows leaves the claim as it is.
Post(p) ==
  /\ pc[p] = "post"
  /\ IF listed[ResOf(p)] = "absent"
       THEN Goto(p, "markUnknown") /\ UNCHANGED wire
       ELSE Goto(p, "await1") /\ wire' = [wire EXCEPT ![p] = "sent"]
  /\ UNCHANGED <<local, mem, record, charges, delivered>>

\* The signed session cannot be negotiated: no unlock POST is sent.
PostFails(p) ==
  /\ pc[p] = "post"
  /\ Goto(p, "recordUnknown")
  /\ UNCHANGED <<local, mem, record, ext>>

\* Variant: the request is resent whatever happened to the first one.
ResendAnyway(p) ==
  /\ pc[p] = "await1"
  /\ wire' = [wire EXCEPT ![p] = "sent"]
  /\ Goto(p, "await2")
  /\ UNCHANGED <<local, mem, record, charges, delivered>>

\* request() resends once, after a 403 that refuses the signature.
Resend(p) ==
  /\ pc[p] = "await1"
  /\ wire[p] = "forbidden"
  /\ wire' = [wire EXCEPT ![p] = "sent"]
  /\ Goto(p, "await2")
  /\ UNCHANGED <<local, mem, record, charges, delivered>>

\* Variant: failed(payload) is not looked at.
ReplyUnchecked(p) ==
  /\ pc[p] \in {"await1", "await2"}
  /\ wire[p] \in {"charged", "refused"}
  /\ Goto(p, "fillUnlock")
  /\ UNCHANGED <<local, mem, record, ext>>

ReplySucceeds(p) ==
  /\ pc[p] \in {"await1", "await2"}
  /\ wire[p] = "charged"
  /\ Goto(p, "fillUnlock")
  /\ UNCHANGED <<local, mem, record, ext>>

\* Variant: no HTTP timeout, only an answer ends the wait.
ReplyNoTimeout(p) ==
  /\ pc[p] \in {"await1", "await2"}
  /\ wire[p] = "refused"
  /\ Goto(p, "recordUnknown")
  /\ UNCHANGED <<local, mem, record, ext>>

\* A timeout, a cancelled context, an unreadable answer, a business refusal
\* or a second 403.  The POST may still be on its way to the upstream.
ReplyFails(p) ==
  /\ pc[p] \in {"await1", "await2"}
  /\ Goto(p, "recordUnknown")
  /\ UNCHANGED <<local, mem, record, ext>>

\* Variant: a failed unlock releases its claim.
RecordReleased(p) ==
  /\ pc[p] = "recordUnknown"
  /\ record' = [record EXCEPT ![arg[p]] = "none"]
  /\ Goto(p, "markUnknown")
  /\ UNCHANGED <<local, mem, ext>>

\* SetUnlockRecord "unknown" with the request's own context, error ignored.
RecordUnknown(p) ==
  /\ pc[p] = "recordUnknown"
  /\ record' \in {record, [record EXCEPT ![arg[p]] = "unknown"]}
  /\ Goto(p, "markUnknown")
  /\ UNCHANGED <<local, mem, ext>>

FillUnlock(p) ==
  /\ pc[p] = "fillUnlock"
  /\ cache' = cache \union {arg[p]}
  /\ Goto(p, "persist")
  /\ UNCHANGED <<local, gate, listed, record, ext>>

PersistSuccess(p) ==
  /\ pc[p] = "persist"
  /\ record' = [record EXCEPT ![arg[p]] = "success"]
  /\ Goto(p, "markSuccess")
  /\ UNCHANGED <<local, mem, ext>>

\* The write fails within its own five seconds, or its answer is lost.
PersistFails(p) ==
  /\ pc[p] = "persist"
  /\ record' \in {record, [record EXCEPT ![arg[p]] = "success"]}
  /\ Goto(p, "markUnknown")
  /\ UNCHANGED <<local, mem, ext>>

-----------------------------------------------------------------------------
(* TransferAdapter.Transfer115.                                            *)

\* Variant: the unlocked flag of the shared listing is taken as the proof.
TransferProofListed(p) ==
  /\ pc[p] = "proof"
  /\ Goto(p, IF arg[p] \in cache \/ listed[ResOf(p)] = "unlocked" THEN "receive" ELSE "done")
  /\ UNCHANGED <<local, mem, record, ext>>

\* DetailForUser: the per-user map is the only proof of an unlock.
TransferProof(p) ==
  /\ pc[p] = "proof"
  /\ Goto(p, IF arg[p] \in cache THEN "receive" ELSE "done")
  /\ UNCHANGED <<local, mem, record, ext>>

ReceiveShare(p) ==
  /\ pc[p] = "receive"
  /\ delivered' = delivered \union {arg[p]}
  /\ Goto(p, "done")
  /\ UNCHANGED <<local, mem, record, wire, charges>>

\* A disabled account, a link that is no 115 share, a refusal of 115, or an
\* answer that does not arrive (ShareReceive is about what happens in there).
ReceiveFails(p) ==
  /\ pc[p] = "receive"
  /\ delivered' \in {delivered, delivered \union {arg[p]}}
  /\ Goto(p, "done")
  /\ UNCHANGED <<local, mem, record, wire, charges>>

-----------------------------------------------------------------------------
(* The upstream, the listing of a title, and a restart.                    *)

Upstream(p, outcome) ==
  /\ wire[p] = "sent"
  /\ wire' = [wire EXCEPT ![p] = outcome]
  /\ charges' = IF outcome = "charged" THEN [charges EXCEPT ![arg[p]] = @ + 1] ELSE charges
  /\ UNCHANGED <<pc, local, mem, record, delivered>>

\* Search stores every listed resource with upstream's flag, under the lock.
Search ==
  /\ \E shown \in SUBSET Res : \E flag \in [shown -> {"locked", "unlocked"}] :
       listed' = [r \in Res |-> IF r \in shown THEN flag[r] ELSE listed[r]]
  /\ UNCHANGED <<pc, local, gate, cache, record, ext>>

\* Variant: startup clears the claims that a crash left in flight.
RestartReleasing ==
  /\ pc' = [p \in Proc |-> IF pc[p] \in Ended THEN pc[p] ELSE "dead"]
  /\ sess' = {} /\ stale' = {}
  /\ status' = [k \in Key |-> "none"]
  /\ listed' = [r \in Res |-> "absent"]
  /\ cache' = {}
  /\ record' = [k \in Key |-> IF record[k] = "in_flight" THEN "none" ELSE record[k]]
  /\ UNCHANGED <<local, ext>>

Restart ==
  /\ pc' = [p \in Proc |-> IF pc[p] \in Ended THEN pc[p] ELSE "dead"]
  /\ sess' = {} /\ stale' = {}
  /\ status' = [k \in Key |-> "none"]
  /\ listed' = [r \in Res |-> "absent"]
  /\ cache' = {}
  /\ UNCHANGED <<local, record, ext>>

-----------------------------------------------------------------------------
Init ==
  /\ pc = [p \in Proc |-> "idle"]
  /\ site = [p \in Proc |-> "entry"]
  /\ arg \in [Proc -> Key]
  /\ raw = [p \in Proc |-> "absent"]
  /\ GateInit
  /\ listed = [r \in Res |-> "absent"]
  /\ cache = {}
  /\ record = [k \in Key |-> "none"]
  /\ wire = [p \in Proc |-> "idle"]
  /\ charges = [k \in Key |-> 0]
  /\ delivered = {}

DetailStep(p) ==
  DetailMem(p) \/ DetailRecord(p) \/ DetailRecordFails(p) \/ DetailFill(p)

UnlockStep(p) ==
  \/ BeginUnlock(p) \/ TransitionUnlock(p) \/ MarkSuccess(p) \/ MarkUnknown(p)
  \/ UnlockRead(p) \/ UnlockReadFails(p) \/ ClaimUnlock(p) \/ ClaimFails(p)
  \/ Post(p) \/ PostFails(p) \/ Resend(p) \/ ReplySucceeds(p) \/ ReplyFails(p)
  \/ RecordUnknown(p) \/ FillUnlock(p) \/ PersistSuccess(p) \/ PersistFails(p)

TransferStep(p) == TransferProof(p) \/ ReceiveShare(p) \/ ReceiveFails(p)

\* What the worker's own goroutine p may do next.
Step(p) == DetailStep(p) \/ UnlockStep(p) \/ TransferStep(p)

Next ==
  \/ \E p \in Proc : Step(p)
  \/ \E p \in Proc, s \in {"entry", "transfer"} : Press(p, s)
  \/ \E p \in Proc, o \in {"charged", "refused", "forbidden"} : Upstream(p, o)
  \/ OtherSessions
  \/ Search
  \/ Restart

Spec == Init /\ [][Next]_vars

\* The Go scheduler runs every goroutine that can run, and the HTTP client's
\* timeout ends every wait; nothing makes users, the upstream or a restart act.
FairSpec == Spec /\ \A p \in Proc : WF_vars(Step(p))
-----------------------------------------------------------------------------
(* Properties.                                                             *)

TypeOK ==
  /\ pc \in [Proc -> Steps]
  /\ site \in [Proc -> Sites]
  /\ arg \in [Proc -> Key]
  /\ raw \in [Proc -> Flags]
  /\ sess \in SUBSET User /\ stale \in SUBSET sess
  /\ status \in [Key -> Statuses \ {"rejected"}]
  /\ listed \in [Res -> Flags]
  /\ cache \in SUBSET Key
  /\ record \in [Key -> Records]
  /\ wire \in [Proc -> Wires]
  /\ charges \in [Key -> Nat]
  /\ delivered \in SUBSET Key

\* No key is ever paid for twice: not by a double click, not after the session
\* expired, not by the resend after a 403, not by a goroutine started after a
\* restart while the POST of a dead one is still travelling (DEVELOPMENT.md
\* 113-116).
AtMostOneCharge == \A k \in Key : charges[k] <= 1

\* A goroutine that may still cause a charge, or already caused one.
Engaged(p) ==
  \/ wire[p] # "idle"
  \/ pc[p] \in {"post", "await1", "await2", "recordUnknown", "fillUnlock", "persist"}

\* The claim in unlock_records elects one goroutine per key for ever; the
\* dead goroutines of earlier process lifetimes count.
OneOwnerPerKey ==
  \A p, q \in Proc : Engaged(p) /\ Engaged(q) /\ arg[p] = arg[q] => p = q

\* Whatever crashes and fails in between, a charge has a row in
\* unlock_records from which an operator can find it (TODO.md 31, 95).
EveryChargeIsOnRecord ==
  \A k \in Key : charges[k] > 0 => record[k] # "none"

\* A share link is kept, in memory or on disk, only for a user who paid.
GrantsArePaid ==
  \A k \in Key : k \in cache \/ record[k] = "success" => charges[k] = 1

\* 115 receives nothing without the payment of the very same user, although
\* the unlocked flag of the listing is shared by all users (DEVELOPMENT.md 148).
DeliveredIsPaid == \A k \in delivered : charges[k] = 1

\* The session never tells its user that an unpaid unlock succeeded.
SessionSuccessIsPaid == \A k \in Key : status[k] = "success" => charges[k] = 1

\* The goroutines that have passed TransitionUnlock and not yet left their mark.
Unlocking(p) ==
  \/ site[p] = "busy" /\ pc[p] \in {"detailMem", "detailRecord", "detailFill"}
  \/ pc[p] \in {"unlockRead", "claim", "post", "await1", "await2", "recordUnknown",
                 "fillUnlock", "persist", "markSuccess", "markUnknown"}

\* The goroutines between BeginUnlock and TransitionUnlock.
Guarding(p) ==
  site[p] = "guard" /\ pc[p] \in {"detailMem", "detailRecord", "detailFill", "transition"}

\* A goroutine that ended there because Detail found the key unlocked: the user
\* has the share, or upstream's own flag says so.
FoundUnlocked(p) ==
  site[p] = "guard" /\ pc[p] = "done" /\ (arg[p] \in cache \/ raw[p] = "unlocked")

\* The gate of a key is never left closed by mistake: whoever closed it is still
\* at work and will mark it, on every path, however sessions expire, are revived
\* or opened anew meanwhile; and it stays pending only for a handler between its
\* two steps, or behind one that found the key unlocked there.  No error, neither
\* of Detail nor of TransitionUnlock, leaves it pending (handler.go unlock;
\* DEVELOPMENT.md 4.4).
GateIsTended ==
  \A k \in Key :
    /\ status[k] = "in_flight" => \E p \in Proc : arg[p] = k /\ Unlocking(p)
    /\ status[k] = "pending" => \E p \in Proc : arg[p] = k /\ (Guarding(p) \/ FoundUnlocked(p))

\* A row goes from nothing to in_flight and from there to one final answer; a
\* late goroutine never rewrites the answer of another one.
RecordsSettleOnce ==
  [][\A k \in Key : record'[k] # record[k] =>
       <<record[k], record'[k]>> \in
         {<<"none", "in_flight">>, <<"in_flight", "success">>, <<"in_flight", "unknown">>}]_vars

\* Every callback the worker starts to serve comes to an end (or the worker
\* restarts): no goroutine spins between the two gates or waits for ever.
HandlersFinish == \A p \in Proc : pc[p] = "detailMem" ~> pc[p] \in Ended

\* The refinement mapping: a row of unlock_records is the claim, and a share
\* is granted while the user's map or the row holds it.
Contract == INSTANCE UnlockContract WITH
  claimed <- {k \in Key : record[k] # "none"},
  paid <- charges,
  granted <- cache \union {k \in Key : record[k] = "success"},
  durable <- {k \in Key : record[k] = "success"}

\* Together the two gates, the adapter's maps and the table do what
\* UnlockContract promises: claim, pay once, grant, persist, deliver.
ImplementsContract == Contract!ContractSpec
=============================================================================
