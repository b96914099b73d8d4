----------------------------- MODULE MCCoinWallet -----------------------------
(***************************************************************************)
(* CoinWallet for TLC: one team shared by two users, and requests that may   *)
(* be delivered twice.                                                     *)
(***************************************************************************)
EXTENDS CoinWallet, TLC

CONSTANTS team, u1, u2, r1, r2, r3, j1, j2, j3, e1, e2, e3, k1, k2, k3, k4,
          TeamCoins, UserCoins

MCMembers == team :> {u1, u2}
MCAllowance == (team :> TeamCoins) @@ (u1 :> UserCoins) @@ (u2 :> UserCoins)

Payload(k, t, u, c) == [key |-> k, team |-> t, user |-> u, cost |-> c]
\* a shared-team session, a personal session of the same user, a session of an
\* unlimited plan, and one for a team its sender does not belong to
ManyRequests == {Payload(k1, team, u1, 2), Payload(k2, u1, u1, 1),
                 Payload(k3, team, u1, 0), Payload(k4, u1, u2, 1)}
\* two sessions of different members that compete for the team's coins
TwoRequests == {Payload(k1, team, u1, 2), Payload(k2, team, u2, 1)}

Symmetry == Permutations({r1, r2, r3}) \cup Permutations({j1, j2, j3}) \cup Permutations({e1, e2, e3})
=============================================================================
