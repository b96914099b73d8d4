------------------------------ MODULE CoinAccount ------------------------------
(***************************************************************************)
(* What the coin service promises of its accounts, as if each operation    *)
(* were one step: an account is opened once with its allowance; a charge   *)
(* takes its coins once, under a key that no other charge has, from an     *)
(* account that can pay; a settlement corrects one charge, once, giving    *)
(* back at most one session's estimate or taking the overrun of a session, *)
(* on an account that is not in debt.  CoinWallet implements it.           *)
(***************************************************************************)
EXTENDS Integers

CONSTANTS Accounts, Charges, Keys, Costs, Settlements, Allowance, MaxOverrun, Missing, None

VARIABLES
  balance,             \* coins of an account, or Missing
  charge,              \* what was charged: account, key and coins, or None
  settlement           \* the charge that was corrected and by how much, or None

vars == <<balance, charge, settlement>>

Init ==
  /\ balance = [a \in Accounts |-> Missing]
  /\ charge = [c \in Charges |-> None]
  /\ settlement = [s \in Settlements |-> None]

Open(a) ==
  /\ balance[a] = Missing
  /\ balance' = [balance EXCEPT ![a] = Allowance[a]]
  /\ UNCHANGED <<charge, settlement>>

Take(c, a, key, cost) ==
  /\ charge[c] = None
  /\ \A d \in Charges : charge[d] # None => charge[d].key # key
  /\ balance[a] # Missing /\ balance[a] >= cost
  /\ balance' = [balance EXCEPT ![a] = @ - cost]
  /\ charge' = [charge EXCEPT ![c] = [account |-> a, key |-> key, cost |-> cost]]
  /\ UNCHANGED settlement

Settle(s, c, delta) ==
  /\ settlement[s] = None
  /\ LET a == charge[c].account IN
     /\ balance[a] # Missing /\ balance[a] >= 0
     /\ balance' = [balance EXCEPT ![a] = @ - delta]
  /\ settlement' = [settlement EXCEPT ![s] = [res |-> c, delta |-> delta]]
  /\ UNCHANGED charge

Next ==
  \/ \E a \in Accounts : Open(a)
  \/ \E c \in Charges, a \in Accounts, key \in Keys, cost \in Costs : Take(c, a, key, cost)
  \/ \E s \in Settlements, c \in {d \in Charges : charge[d] # None} :
       \E estimate \in Costs : \E delta \in (-estimate)..MaxOverrun : Settle(s, c, delta)

Spec == Init /\ [][Next]_vars
=============================================================================
