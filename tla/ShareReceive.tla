---------------------------- MODULE ShareReceive ----------------------------
(***************************************************************************)
(* A share received into a 115 account (p115/client.go Receive, called by  *)
(* TransferAdapter.Transfer115): the root of the share is read page by     *)
(* page, the IDs found are POSTed, and the answer is classified.  Each     *)
(* element of Proc is one press of "transfer" or "retry" on the same       *)
(* share, in a goroutine of its own.  A POST whose answer did not arrive   *)
(* in time may still be executed; the share may change at any moment.      *)
(*                                                                         *)
(* A definition marked "Variant" is a plausible mistake in the definition  *)
(* after it.  Nothing here uses it: put in place of that definition, it    *)
(* must break the property PROJECT.json names.                             *)
(***************************************************************************)
EXTENDS Naturals, Sequences, FiniteSets, SequencesExt

CONSTANTS
  Item,         \* IDs of files and directories
  NoId,         \* an entry without an ID the client can read
  Broken,       \* an entry that is no JSON object
  Proc,         \* transfers
  PageSize,     \* entries asked for with one request
  MaxPages,     \* pages read at most
  Shares,       \* the shares to begin with
  MaxChanges    \* bound on the changes of the share, for checking only

Entry == Item \union {NoId, Broken}

ASSUME ShareAssumption ==
  /\ {NoId, Broken} \intersect Item = {} /\ NoId # Broken
  /\ PageSize \in Nat \ {0} /\ MaxPages \in Nat \ {0} /\ MaxChanges \in Nat
  /\ Shares \subseteq Seq(Entry)

VARIABLES
  pc,       \* pc[p]: the step transfer p takes next, or its outcome
  page,     \* page[p]: pages read so far
  ids,      \* ids[p]: the IDs found so far, then those of the POST
  sent,     \* transfers whose POST is on its way
  reply,    \* reply[p]: the answer of 115 to the POST of p, if there is one
  owned,    \* what the 115 account has received
  share,    \* the root of the share
  endless,  \* whether 115 answers a page after the last with a full one
  first,    \* history: first[p]: the share as p found it
  kept,     \* history: transfers during which the share only grew at its end
  changes   \* how often the share has changed

outside == <<owned, share, endless, changes>>
vars == <<pc, page, ids, sent, reply, owned, share, endless, first, kept, changes>>

Outcomes == {"received", "already", "failed", "dead"}

Steps == {"idle", "snap", "post", "await"} \union Outcomes

\* An answer of 115, reduced to what the client looks at.
Answer == [status : {"ok", "denied", "limited"}, state : BOOLEAN,
           says : SUBSET {"login", "again", "expired"}]

Accepted == [status |-> "ok", state |-> TRUE, says |-> {}]

AlreadyThere == [status |-> "ok", state |-> FALSE, says |-> {"again"}]

\* Anything else: a cookie or a share that has expired, or a request too many,
\* whose text may ask, too, not to do it again.
Refusals ==
  {[status |-> "denied", state |-> FALSE, says |-> {"login"}],
   [status |-> "limited", state |-> FALSE, says |-> {"again"}],
   [status |-> "ok", state |-> FALSE, says |-> {"expired"}]}

Goto(p, step) == pc' = [pc EXCEPT ![p] = step]

-----------------------------------------------------------------------------
(* Starting, and reading the root of the share.                            *)

Start(p) ==
  /\ pc[p] = "idle"
  /\ Goto(p, "snap")
  /\ first' = [first EXCEPT ![p] = share]
  /\ kept' = kept \union {p}
  /\ UNCHANGED <<page, ids, sent, reply, outside>>

\* A disabled account, an incomplete cookie, or a link that is no 115 share.
StartFails(p) ==
  /\ pc[p] = "idle"
  /\ Goto(p, "failed")
  /\ UNCHANGED <<page, ids, sent, reply, first, kept, outside>>

Window(s, from) ==
  SubSeq(s, from + 1, IF from + PageSize < Len(s) THEN from + PageSize ELSE Len(s))

\* The page that 115 shows.
SnapPage(n) ==
  IF endless /\ n * PageSize >= Len(share) THEN Window(share, 0) ELSE Window(share, n * PageSize)

\* extractList keeps the objects, and only they count for a full page.
IsFull(s) == Cardinality({i \in DOMAIN s : s[i] # Broken}) = PageSize

\* The items among s that have an ID.
IdsOf(s) == ToSet(s) \ {NoId, Broken}

\* Variant: pages are read until one is short, however many there are.  (The
\* count starts again so that there are finitely many states.)
SnapUncapped(p) ==
  /\ pc[p] = "snap"
  /\ LET items == SnapPage(page[p])
         found == ids[p] \union IdsOf(items)
     IN  /\ page' = [page EXCEPT ![p] = (@ + 1) % MaxPages]
         /\ ids' = [ids EXCEPT ![p] = found]
         /\ Goto(p, IF IsFull(items) THEN "snap"
                    ELSE IF found = {} THEN "failed" ELSE "post")
  /\ UNCHANGED <<sent, reply, first, kept, outside>>

\* Variant: one page too many.
SnapBeyond(p) ==
  /\ pc[p] = "snap"
  /\ LET items == SnapPage(page[p])
         found == ids[p] \union IdsOf(items)
     IN  /\ page' = [page EXCEPT ![p] = @ + 1]
         /\ ids' = [ids EXCEPT ![p] = found]
         /\ Goto(p, IF IsFull(items) /\ page[p] < MaxPages THEN "snap"
                    ELSE IF found = {} THEN "failed" ELSE "post")
  /\ UNCHANGED <<sent, reply, first, kept, outside>>

\* A short page, or the last one allowed, ends the reading.
Snap(p) ==
  /\ pc[p] = "snap"
  /\ LET items == SnapPage(page[p])
         found == ids[p] \union IdsOf(items)
     IN  /\ page' = [page EXCEPT ![p] = @ + 1]
         /\ ids' = [ids EXCEPT ![p] = found]
         /\ Goto(p, IF IsFull(items) /\ page[p] + 1 < MaxPages THEN "snap"
                    ELSE IF found = {} THEN "failed" ELSE "post")
  /\ UNCHANGED <<sent, reply, first, kept, outside>>

\* Whatever page cannot be read ends the transfer.
SnapFails(p) ==
  /\ pc[p] = "snap"
  /\ Goto(p, "failed")
  /\ UNCHANGED <<page, ids, sent, reply, first, kept, outside>>

-----------------------------------------------------------------------------
(* The POST and its answer.                                                *)

Post(p) ==
  /\ pc[p] = "post"
  /\ sent' = sent \union {p}
  /\ Goto(p, "await")
  /\ UNCHANGED <<page, ids, reply, first, kept, outside>>

\* Variant: the text is looked at before the status.
ClassifyTextFirst(a) ==
  IF "again" \in a.says THEN "already_received"
  ELSE IF a.status = "denied" \/ "login" \in a.says THEN "auth"
  ELSE IF a.status = "limited" THEN "rate_limit"
  ELSE IF "expired" \in a.says THEN "invalid_share" ELSE "remote"

Classify(a) ==
  IF a.status = "denied" \/ "login" \in a.says THEN "auth"
  ELSE IF a.status = "limited" THEN "rate_limit"
  ELSE IF "again" \in a.says THEN "already_received"
  ELSE IF "expired" \in a.says THEN "invalid_share" ELSE "remote"

\* What was received before counts as a success.
Conclude(p) ==
  /\ pc[p] = "await"
  /\ \E a \in reply[p] :
       Goto(p, IF a.status = "ok" /\ a.state THEN "received"
               ELSE IF Classify(a) = "already_received" THEN "already" ELSE "failed")
  /\ UNCHANGED <<page, ids, sent, reply, first, kept, outside>>

\* A timeout, a broken connection or an answer that is no JSON: nothing tells
\* whether 115 did what it was asked for.
ConcludeFails(p) ==
  /\ pc[p] = "await"
  /\ Goto(p, "failed")
  /\ UNCHANGED <<page, ids, sent, reply, first, kept, outside>>

-----------------------------------------------------------------------------
(* 115, the owner of the share, and a restart of the worker.               *)

\* 115 refuses as already received what it has in full.
Execute(p) ==
  /\ p \in sent
  /\ sent' = sent \ {p}
  /\ owned' = owned \union ids[p]
  /\ reply' = [reply EXCEPT ![p] = {IF ids[p] \subseteq owned THEN AlreadyThere ELSE Accepted}]
  /\ UNCHANGED <<pc, page, ids, first, kept, share, endless, changes>>

Refuse(p) ==
  /\ p \in sent
  /\ sent' = sent \ {p}
  /\ \E a \in Refusals : reply' = [reply EXCEPT ![p] = {a}]
  /\ UNCHANGED <<pc, page, ids, first, kept, outside>>

ShareGrows ==
  /\ changes < MaxChanges
  /\ \E e \in Entry \ IdsOf(share) : share' = Append(share, e)
  /\ changes' = changes + 1
  /\ UNCHANGED <<pc, page, ids, sent, reply, owned, endless, first, kept>>

ShareShrinks ==
  /\ changes < MaxChanges
  /\ \E i \in 1..Len(share) : share' = RemoveAt(share, i)
  /\ kept' = {}
  /\ changes' = changes + 1
  /\ UNCHANGED <<pc, page, ids, sent, reply, owned, endless, first>>

Restart ==
  /\ pc' = [p \in Proc |-> IF pc[p] \in {"snap", "post", "await"} THEN "dead" ELSE pc[p]]
  /\ UNCHANGED <<page, ids, sent, reply, first, kept, outside>>

-----------------------------------------------------------------------------
Init ==
  /\ pc = [p \in Proc |-> "idle"]
  /\ page = [p \in Proc |-> 0]
  /\ ids = [p \in Proc |-> {}]
  /\ sent = {}
  /\ reply = [p \in Proc |-> {}]
  /\ owned = {}
  /\ share \in Shares
  /\ endless \in BOOLEAN
  /\ first = [p \in Proc |-> << >>]
  /\ kept = {}
  /\ changes = 0

\* What the goroutine of p does once it has started.
Step(p) == Snap(p) \/ SnapFails(p) \/ Post(p) \/ Conclude(p) \/ ConcludeFails(p)

Next ==
  \/ \E p \in Proc : Start(p) \/ StartFails(p) \/ Step(p) \/ Execute(p) \/ Refuse(p)
  \/ ShareGrows
  \/ ShareShrinks
  \/ Restart

Spec == Init /\ [][Next]_vars

\* Goroutines are scheduled and the HTTP client's timeout ends every exchange;
\* neither 115 nor the users have to act.
FairSpec == Spec /\ \A p \in Proc : WF_vars(Step(p))

-----------------------------------------------------------------------------
(* Properties.                                                             *)

TypeOK ==
  /\ pc \in [Proc -> Steps]
  /\ page \in [Proc -> 0..MaxPages]
  /\ ids \in [Proc -> SUBSET Item]
  /\ sent \subseteq Proc
  /\ reply \in [Proc -> SUBSET Answer]
  /\ owned \subseteq Item
  /\ share \in Seq(Entry)
  /\ endless \in BOOLEAN
  /\ first \in [Proc -> Seq(Entry)]
  /\ kept \subseteq Proc
  /\ changes \in 0..MaxChanges

\* The items of s that one complete reading finds: those of the pages up to the
\* cap and up to the first page that a broken entry makes look short.
Reachable(s) ==
  {s[i] : i \in {j \in 1..Len(s) :
     /\ s[j] \in Item
     /\ j <= MaxPages * PageSize
     /\ \A b \in 1..Len(s) : s[b] = Broken => (j - 1) \div PageSize <= (b - 1) \div PageSize}}

\* Whoever is told that his share was received, or was received before, owns
\* everything of it that can be read (at most MaxPages pages, no broken entries),
\* however the share grew meanwhile, and whatever became of the lost, refused or
\* concurrent transfers of the same share (client.go Receive and classify,
\* TODO.md 35).
SuccessIsComplete ==
  \A p \in Proc : pc[p] \in {"received", "already"} /\ p \in kept => Reachable(first[p]) \subseteq owned

\* Every transfer comes to an end, even when 115 never answers with a short page
\* (client.go snapRoot, "prevents endless paging when the API misbehaves").
TransfersEnd == \A p \in Proc : pc[p] = "snap" ~> pc[p] \in Outcomes
=============================================================================
