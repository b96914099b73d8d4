------------------------------- MODULE CoinRedis -------------------------------
(***************************************************************************)
(* The Redis side of a coin account (CoinRedisService), as constant        *)
(* operators.  Redis runs a Lua script atomically, so each script is one   *)
(* decision on the value it reads: the balance key of the account, which   *)
(* may not exist, and whether its idempotency key exists already.          *)
(***************************************************************************)
EXTENDS Integers

CONSTANT Missing                       \* GET of a key that does not exist

ASSUME MissingAssumption == Missing \notin Int

\* mutant: the NX flag is dropped
InitAlways(remaining, a, allowance) == [remaining EXCEPT ![a] = allowance]

(* SET key allowance EX ttl NX *)
InitRemainingIfMissing(remaining, a, allowance) ==
  IF remaining[a] = Missing THEN [remaining EXCEPT ![a] = allowance] ELSE remaining

\* mutant: the idempotency key is not looked up
ReserveAnyway(rem, seen, est) ==
  IF rem = Missing THEN "denied" ELSE IF rem < est THEN "denied" ELSE "charged"

(* The reserve script.  `seen` says that the idempotency key exists.  For a  *)
(* negative estimate the script reads a variable that is not yet declared.   *)
ReserveIfEnough(rem, seen, est) ==
  IF est < 0 THEN "error"
  ELSE IF seen THEN "already"
  ELSE IF rem = Missing THEN "denied"
  ELSE IF rem < 0 \/ rem < est THEN "denied"
  ELSE "charged"

\* mutant: a balance in debt takes further charges
DeltaEvenInDebt(rem, seen) ==
  IF seen THEN "already" ELSE IF rem = Missing THEN "missing" ELSE "applied"

(* The adjustment script together with the decoding of its reply, which     *)
(* takes a balance of exactly -1 for the script's "no such key".            *)
ApplyDeltaIdempotent(rem, seen) ==
  IF seen THEN IF rem \in {Missing, -1} THEN "missing" ELSE "already"
  ELSE IF rem = Missing THEN "missing"
  ELSE IF rem < 0 THEN "negative"
  ELSE "applied"
=============================================================================
