--------------------------- MODULE UnlockContract ---------------------------
(***************************************************************************)
(* What the worker promises about a paid unlock, whatever its goroutines,  *)
(* caches, retries and restarts do (DEVELOPMENT.md 4.4 and 4.5): a key, a  *)
(* pair of a Telegram user and a HDHive resource, is claimed before it is  *)
(* paid for, it is paid for at most once for ever, the share link is       *)
(* granted to that user only after the payment, a persisted grant is never *)
(* forgotten, and only a granted link is delivered to 115.                 *)
(***************************************************************************)
EXTENDS Naturals

CONSTANT Key

VARIABLES
  claimed,    \* keys an unlock was ever claimed for
  paid,       \* paid[k]: how often the upstream account was charged for k
  granted,    \* keys whose share link the worker can hand to the user
  durable,    \* granted keys that survive a restart
  delivered   \* keys whose share was received into the user's 115 account

cvars == <<claimed, paid, granted, durable, delivered>>

ContractInit ==
  /\ claimed = {}
  /\ paid = [k \in Key |-> 0]
  /\ granted = {}
  /\ durable = {}
  /\ delivered = {}

Claim(k) ==
  /\ k \notin claimed
  /\ claimed' = claimed \union {k}
  /\ UNCHANGED <<paid, granted, durable, delivered>>

Pay(k) ==
  /\ k \in claimed
  /\ paid[k] = 0
  /\ paid' = [paid EXCEPT ![k] = 1]
  /\ UNCHANGED <<claimed, granted, durable, delivered>>

Grant(k) ==
  /\ paid[k] = 1
  /\ granted' = granted \union {k}
  /\ UNCHANGED <<claimed, paid, durable, delivered>>

Persist(k) ==
  /\ k \in granted
  /\ durable' = durable \union {k}
  /\ UNCHANGED <<claimed, paid, granted, delivered>>

\* A restart: what was not persisted is gone, everything else stays.
Forget ==
  /\ granted' = durable
  /\ UNCHANGED <<claimed, paid, durable, delivered>>

Deliver(k) ==
  /\ k \in granted
  /\ delivered' = delivered \union {k}
  /\ UNCHANGED <<claimed, paid, granted, durable>>

ContractNext ==
  \/ \E k \in Key : Claim(k) \/ Pay(k) \/ Grant(k) \/ Persist(k) \/ Deliver(k)
  \/ Forget

ContractSpec == ContractInit /\ [][ContractNext]_cvars
=============================================================================
