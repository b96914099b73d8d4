---------------------------- MODULE CoinBooks_proofs ----------------------------
(***************************************************************************)
(* The sums of the coin accounting service: a Redis balance is its         *)
(* allowance less what was charged and adjusted, and the balance document  *)
(* agrees with the ledger once the handlers have finished.                 *)
(***************************************************************************)
EXTENDS CoinWallet_proofs, FiniteSetTheorems

-----------------------------------------------------------------------------
(* Sums over finite sets.  A sum is defined by a recursive function on the   *)
(* subsets of its set; what holds of it is shown by the smallest subset for  *)
(* which it does not.                                                       *)

(* Every set of subsets of a finite set has a minimal member. *)
LEMMA MinimalSet ==
  ASSUME NEW S, IsFiniteSet(S), NEW B, B \subseteq SUBSET S, B # {}
  PROVE  \E T \in B : \A U \in SUBSET T : U # T => U \notin B
<1>1. IsWellFoundedOn(StrictSubsetOrdering(S), SUBSET S)
  BY FS_StrictSubsetOrderingWellFounded, FS_FiniteSubsetsOfFinite
<1>2. PICK T \in B : \A U \in B : ~(<<U, T>> \in StrictSubsetOrdering(S))
  BY ONLY <1>1, WFMin, B \subseteq SUBSET S, B # {}
<1>3. ASSUME NEW U \in SUBSET T, U # T, U \in B PROVE FALSE
  <2>1. <<U, T>> \in StrictSubsetOrdering(S)
    BY <1>3 DEF StrictSubsetOrdering
  <2> QED BY <1>2, <1>3, <2>1
<1> QED BY <1>3

(* A sum takes away one member after the other, in an order CHOOSE knows. *)
Pick(s) == CHOOSE x \in s : TRUE
Sums(f, S, g) == [s \in SUBSET S |-> IF s = {} THEN 0 ELSE f[Pick(s)] + g[s \ {Pick(s)}]]
SumsOf(f, S) == CHOOSE g : g = Sums(f, S, g)

(* The community's sum is the last value of that function. *)
LEMMA SumIsLast == ASSUME NEW f, NEW S PROVE SumFunctionOnSet(f, S) = SumsOf(f, S)[S]
BY DEF SumFunctionOnSet, FoldFunctionOnSet, MapThenFoldSet, SumsOf, Sums, Pick

(* What is left after taking a member is a strict subset. *)
LEMMA PickOne == ASSUME NEW s, s # {} PROVE Pick(s) \in s /\ s \ {Pick(s)} \subseteq s /\ s \ {Pick(s)} # s
<1>1. \E x \in s : TRUE
  OBVIOUS
<1>2. Pick(s) \in s
  BY <1>1 DEF Pick
<1> QED BY <1>2

(* The function on the subsets of S agrees with the one on those of T. *)
LEMMA SumsAgree ==
  ASSUME NEW f, NEW S, NEW T, IsFiniteSet(T), T \subseteq S,
         NEW g, g = Sums(f, S, g), NEW h, h = Sums(f, T, h)
  PROVE  \A u \in SUBSET T : g[u] = h[u]
<1> DEFINE B == {u \in SUBSET T : g[u] # h[u]}
<1> SUFFICES ASSUME B # {} PROVE FALSE
  OBVIOUS
<1>1. PICK u \in B : \A w \in SUBSET u : w # u => w \notin B
  <2>1. B \subseteq SUBSET T
    OBVIOUS
  <2> HIDE DEF B
  <2> QED BY <2>1, MinimalSet
<1>2. u \in SUBSET T /\ u \in SUBSET S
  OBVIOUS
<1>3. /\ g[u] = IF u = {} THEN 0 ELSE f[Pick(u)] + g[u \ {Pick(u)}]
      /\ h[u] = IF u = {} THEN 0 ELSE f[Pick(u)] + h[u \ {Pick(u)}]
  BY <1>2 DEF Sums
<1>4. u # {} => g[u \ {Pick(u)}] = h[u \ {Pick(u)}]
  <2>1. u # {} => u \ {Pick(u)} \in SUBSET u /\ u \ {Pick(u)} # u
    BY PickOne
  <2> QED BY <1>1, <1>2, <2>1
<1> QED BY <1>1, <1>3, <1>4

(* There is such a function for every finite set. *)
LEMMA SumsExist ==
  ASSUME NEW f, NEW S, IsFiniteSet(S)
  PROVE  SumsOf(f, S) = Sums(f, S, SumsOf(f, S))
<1> DEFINE B == {T \in SUBSET S : ~(SumsOf(f, T) = Sums(f, T, SumsOf(f, T)))}
<1> SUFFICES ASSUME B # {} PROVE FALSE
  OBVIOUS
<1>1. PICK T \in B : \A u \in SUBSET T : u # T => u \notin B
  <2>1. B \subseteq SUBSET S
    OBVIOUS
  <2> HIDE DEF B
  <2> QED BY <2>1, MinimalSet
<1>2. T \in SUBSET S /\ IsFiniteSet(T)
  BY FS_Subset
<1>3. \A u \in SUBSET T : u # T => SumsOf(f, u) = Sums(f, u, SumsOf(f, u)) /\ IsFiniteSet(u)
  BY <1>1, <1>2, FS_Subset
<1> HIDE DEF B
<1> DEFINE h == [u \in SUBSET T |-> SumsOf(f, u)[u]]
           g == Sums(f, T, h)
<1>4. ASSUME NEW u \in SUBSET T, u # T PROVE g[u] = h[u]
  <2>1. SumsOf(f, u) = Sums(f, u, SumsOf(f, u)) /\ IsFiniteSet(u)
    BY <1>3, <1>4
  <2>2. h[u] = IF u = {} THEN 0 ELSE f[Pick(u)] + SumsOf(f, u)[u \ {Pick(u)}]
    <3> DEFINE k == SumsOf(f, u)
    <3>1. k = Sums(f, u, k) /\ h[u] = k[u]
      BY <2>1
    <3> HIDE DEF k, h
    <3>2. k[u] = Sums(f, u, k)[u]
      BY <3>1
    <3>3. k[u] = IF u = {} THEN 0 ELSE f[Pick(u)] + k[u \ {Pick(u)}]
      BY <3>2 DEF Sums
    <3> QED BY <3>1, <3>3 DEF k
  <2>3. g[u] = IF u = {} THEN 0 ELSE f[Pick(u)] + h[u \ {Pick(u)}]
    BY DEF Sums
  <2>4. CASE u = {}
    BY <2>2, <2>3, <2>4
  <2>5. CASE u # {}
    <3> DEFINE w == u \ {Pick(u)}
    <3>1. w \in SUBSET u /\ w # u /\ w \in SUBSET T /\ w # T
      BY <2>5, PickOne
    <3>2. SumsOf(f, w) = Sums(f, w, SumsOf(f, w)) /\ IsFiniteSet(w)
      BY <1>3, <3>1
    <3>3. SumsOf(f, u)[w] = SumsOf(f, w)[w]
      <4> HIDE DEF w
      <4> QED BY <2>1, <3>1, <3>2, SumsAgree
    <3>4. h[w] = SumsOf(f, w)[w]
      BY <3>1
    <3> QED BY <2>2, <2>3, <2>5, <3>3, <3>4
  <2> QED BY <2>4, <2>5
<1>5. g = Sums(f, T, g)
  <2>1. ASSUME NEW s \in SUBSET T, s # {} PROVE g[s \ {Pick(s)}] = h[s \ {Pick(s)}]
    <3>1. s \ {Pick(s)} \in SUBSET T /\ s \ {Pick(s)} # T
      BY <2>1, PickOne
    <3> HIDE DEF g, h
    <3> QED BY <1>4, <3>1
  <2>2. g = [s \in SUBSET T |-> IF s = {} THEN 0 ELSE f[Pick(s)] + h[s \ {Pick(s)}]]
    BY DEF Sums
  <2> HIDE DEF g, h
  <2>3. g = [s \in SUBSET T |-> IF s = {} THEN 0 ELSE f[Pick(s)] + g[s \ {Pick(s)}]]
    BY <2>1, <2>2
  <2> QED BY <2>3 DEF Sums
<1>6. \E k : k = Sums(f, T, k)
  BY <1>5
<1>7. SumsOf(f, T) = Sums(f, T, SumsOf(f, T))
  BY <1>6 DEF SumsOf
<1> QED BY <1>1, <1>7 DEF B

(* The sum over nothing. *)
LEMMA SumEmpty == ASSUME NEW f PROVE SumFunctionOnSet(f, {}) = 0
<1>1. SumsOf(f, {}) = Sums(f, {}, SumsOf(f, {}))
  BY SumsExist, FS_EmptySet
<1> DEFINE k == SumsOf(f, {})
<1>2. k[{}] = Sums(f, {}, k)[{}]
  BY <1>1
<1> HIDE DEF k
<1>3. k[{}] = 0
  BY <1>2 DEF Sums
<1> QED BY <1>3, SumIsLast DEF k

(* The sum over something, in the order of CHOOSE. *)
LEMMA SumPicked ==
  ASSUME NEW f, NEW S, IsFiniteSet(S), S # {}
  PROVE  SumFunctionOnSet(f, S) = f[Pick(S)] + SumFunctionOnSet(f, S \ {Pick(S)})
<1> DEFINE k == SumsOf(f, S)
           T == S \ {Pick(S)}
           l == SumsOf(f, T)
<1>1. T \subseteq S /\ T # S /\ IsFiniteSet(T)
  BY PickOne, FS_Subset
<1>2. k = Sums(f, S, k) /\ l = Sums(f, T, l)
  BY <1>1, SumsExist
<1>3. SumFunctionOnSet(f, S) = k[S] /\ SumFunctionOnSet(f, T) = l[T]
  BY SumIsLast
<1>4. k[T] = l[T]
  <2> HIDE DEF k, l, T
  <2>1. \A u \in SUBSET T : k[u] = l[u]
    BY <1>1, <1>2, SumsAgree
  <2> QED BY <2>1
<1>5. k[S] = f[Pick(S)] + k[T]
  <2>1. k[S] = Sums(f, S, k)[S]
    BY <1>2
  <2> HIDE DEF k
  <2> QED BY <2>1 DEF Sums
<1> QED BY <1>3, <1>4, <1>5

(* A sum of integers is an integer. *)
LEMMA SumInt ==
  ASSUME NEW f, NEW S, IsFiniteSet(S), \A x \in S : f[x] \in Int
  PROVE  SumFunctionOnSet(f, S) \in Int
<1> DEFINE B == {T \in SUBSET S : SumFunctionOnSet(f, T) \notin Int}
<1> SUFFICES ASSUME B # {} PROVE FALSE
  OBVIOUS
<1>1. PICK T \in B : \A u \in SUBSET T : u # T => u \notin B
  <2>1. B \subseteq SUBSET S
    OBVIOUS
  <2> HIDE DEF B
  <2> QED BY <2>1, MinimalSet
<1>2. T \in SUBSET S /\ IsFiniteSet(T)
  BY FS_Subset
<1>3. T # {}
  BY SumEmpty
<1>4. /\ Pick(T) \in T /\ T \ {Pick(T)} \in SUBSET S
      /\ SumFunctionOnSet(f, T \ {Pick(T)}) \in Int
  BY <1>1, <1>2, <1>3, PickOne
<1>5. SumFunctionOnSet(f, T) = f[Pick(T)] + SumFunctionOnSet(f, T \ {Pick(T)})
  BY <1>2, <1>3, SumPicked
<1>6. f[Pick(T)] \in Int
  BY <1>2, <1>4
<1>7. SumFunctionOnSet(f, T) \in Int
  BY <1>4, <1>5, <1>6
<1> QED BY <1>1, <1>7

(* A sum of naturals is a natural. *)
LEMMA SumNat ==
  ASSUME NEW f, NEW S, IsFiniteSet(S), \A x \in S : f[x] \in Nat
  PROVE  SumFunctionOnSet(f, S) \in Nat
<1> DEFINE B == {T \in SUBSET S : SumFunctionOnSet(f, T) \notin Nat}
<1> SUFFICES ASSUME B # {} PROVE FALSE
  OBVIOUS
<1>1. PICK T \in B : \A u \in SUBSET T : u # T => u \notin B
  <2>1. B \subseteq SUBSET S
    OBVIOUS
  <2> HIDE DEF B
  <2> QED BY <2>1, MinimalSet
<1>2. T \in SUBSET S /\ IsFiniteSet(T)
  BY FS_Subset
<1>3. T # {}
  BY SumEmpty
<1>4. /\ Pick(T) \in T /\ T \ {Pick(T)} \in SUBSET S
      /\ SumFunctionOnSet(f, T \ {Pick(T)}) \in Nat
  BY <1>1, <1>2, <1>3, PickOne
<1>5. SumFunctionOnSet(f, T) = f[Pick(T)] + SumFunctionOnSet(f, T \ {Pick(T)})
  BY <1>2, <1>3, SumPicked
<1>6. f[Pick(T)] \in Nat
  BY <1>2, <1>4
<1>7. SumFunctionOnSet(f, T) \in Nat
  BY <1>4, <1>5, <1>6
<1> QED BY <1>1, <1>7

(* The order does not matter: any member can be the one taken away. *)
LEMMA SumRemove ==
  ASSUME NEW f, NEW S, IsFiniteSet(S), \A x \in S : f[x] \in Int, NEW b \in S
  PROVE  SumFunctionOnSet(f, S) = f[b] + SumFunctionOnSet(f, S \ {b})
<1> DEFINE Sum(T) == SumFunctionOnSet(f, T)
           Wrong(T) == \E a \in T : Sum(T) # f[a] + Sum(T \ {a})
           B == {T \in SUBSET S : Wrong(T)}
<1> SUFFICES ASSUME B # {} PROVE FALSE
  OBVIOUS
<1>1. PICK T \in B : \A u \in SUBSET T : u # T => u \notin B
  <2>1. B \subseteq SUBSET S
    OBVIOUS
  <2> HIDE DEF B
  <2> QED BY <2>1, MinimalSet
<1>2. T \in SUBSET S /\ IsFiniteSet(T)
  BY FS_Subset
<1>3. PICK a \in T : Sum(T) # f[a] + Sum(T \ {a})
  OBVIOUS
<1>4. PICK p : p = Pick(T)
  OBVIOUS
<1>5. p \in T /\ Sum(T) = f[p] + Sum(T \ {p})
  BY <1>2, <1>3, <1>4, PickOne, SumPicked
<1>6. p # a
  BY <1>3, <1>5
<1>7. /\ T \ {p} \in SUBSET T /\ T \ {p} # T /\ T \ {p} \in SUBSET S /\ a \in T \ {p}
      /\ T \ {a} \in SUBSET T /\ T \ {a} # T /\ T \ {a} \in SUBSET S /\ p \in T \ {a}
  BY <1>2, <1>3, <1>5, <1>6
<1>8. /\ Sum(T \ {p}) = f[a] + Sum((T \ {p}) \ {a})
      /\ Sum(T \ {a}) = f[p] + Sum((T \ {a}) \ {p})
  BY <1>1, <1>7
<1>9. PICK U : U = (T \ {p}) \ {a}
  OBVIOUS
<1>10. (T \ {a}) \ {p} = U /\ U \in SUBSET S /\ IsFiniteSet(U)
  BY <1>2, <1>9, FS_Subset
<1>11. f[a] \in Int /\ f[p] \in Int /\ Sum(U) \in Int
  BY <1>2, <1>3, <1>5, <1>10, SumInt
<1>12. Sum(T \ {p}) = f[a] + Sum(U) /\ Sum(T \ {a}) = f[p] + Sum(U)
  BY <1>8, <1>9, <1>10
<1> HIDE DEF Sum, Wrong, B
<1>13. Sum(T) = f[a] + Sum(T \ {a})
  <2>1. \A i, j, k \in Int : i + (j + k) = j + (i + k)
    OBVIOUS
  <2>2. Sum(U) \in Int
    BY <1>11 DEF Sum
  <2> QED BY <1>5, <1>11, <1>12, <2>1, <2>2
<1> QED BY <1>3, <1>13

(* A sum depends on the values at its members only. *)
LEMMA SumSame ==
  ASSUME NEW f, NEW h, NEW S, IsFiniteSet(S), \A x \in S : f[x] = h[x]
  PROVE  SumFunctionOnSet(f, S) = SumFunctionOnSet(h, S)
<1> DEFINE B == {T \in SUBSET S : SumFunctionOnSet(f, T) # SumFunctionOnSet(h, T)}
<1> SUFFICES ASSUME B # {} PROVE FALSE
  OBVIOUS
<1>1. PICK T \in B : \A u \in SUBSET T : u # T => u \notin B
  <2>1. B \subseteq SUBSET S
    OBVIOUS
  <2> HIDE DEF B
  <2> QED BY <2>1, MinimalSet
<1>2. T \in SUBSET S /\ IsFiniteSet(T)
  BY FS_Subset
<1>3. T # {}
  BY SumEmpty
<1>4. /\ Pick(T) \in T /\ T \ {Pick(T)} \in SUBSET S
      /\ SumFunctionOnSet(f, T \ {Pick(T)}) = SumFunctionOnSet(h, T \ {Pick(T)})
  BY <1>1, <1>2, <1>3, PickOne
<1>5. /\ SumFunctionOnSet(f, T) = f[Pick(T)] + SumFunctionOnSet(f, T \ {Pick(T)})
      /\ SumFunctionOnSet(h, T) = h[Pick(T)] + SumFunctionOnSet(h, T \ {Pick(T)})
  BY <1>2, <1>3, SumPicked
<1>6. f[Pick(T)] = h[Pick(T)]
  BY <1>2, <1>4
<1>7. SumFunctionOnSet(f, T) = SumFunctionOnSet(h, T)
  BY <1>4, <1>5, <1>6
<1> QED BY <1>1, <1>7

\* T is S with b added, f and h agree on S, and b is worth n
Adds(S, b, T) == b \notin S /\ T = S \cup {b}
Agree(f, h, S) == \A x \in S : f[x] = h[x] /\ h[x] \in Int
Worth(h, b, n) == h[b] = n /\ n \in Int

(* A new member adds its value, if the function stays the same elsewhere. *)
LEMMA SumAdd ==
  ASSUME NEW f, NEW h, NEW S, NEW T, NEW b, NEW n,
         IsFiniteSet(S), Adds(S, b, T), Agree(f, h, S), Worth(h, b, n)
  PROVE  SumFunctionOnSet(h, T) = SumFunctionOnSet(f, S) + n
<1>1. IsFiniteSet(T) /\ T \ {b} = S /\ b \in T
  BY FS_AddElement DEF Adds
<1>2. \A x \in T : h[x] \in Int
  BY DEF Adds, Agree, Worth
<1>3. SumFunctionOnSet(h, T) = h[b] + SumFunctionOnSet(h, T \ {b})
  BY <1>1, <1>2, SumRemove
<1>4. SumFunctionOnSet(f, S) = SumFunctionOnSet(h, S)
  BY SumSame DEF Agree
<1>5. SumFunctionOnSet(h, S) \in Int
  BY SumInt DEF Agree
<1>6. SumFunctionOnSet(h, T) = h[b] + SumFunctionOnSet(f, S)
  BY <1>1, <1>3, <1>4
<1>7. SumFunctionOnSet(f, S) \in Int
  BY <1>4, <1>5
<1> QED BY <1>6, <1>7 DEF Worth

-----------------------------------------------------------------------------
(* Coins are conserved *)

(* Who has been charged has an account that exists, so an account is opened  *)
(* before anything is taken from it.                                        *)
OpenInv == \A r \in charged : remaining[acct[r]] # Missing

CoinsInv ==
  /\ IsFiniteSet(charged) /\ IsFiniteSet(events)
  /\ OpenInv
  /\ CoinsConserved

CostOf == [r \in charged |-> req[r].cost]
DeltaOf == [e \in events |-> msg[e].delta]

USE WalletAssumption, MissingAssumption
USE DEF Accounts, Handlers

(* No account exists when the service starts. *)
LEMMA InitCoins == Init => CoinsInv
BY FS_EmptySet DEF Init, CoinsInv, OpenInv, CoinsConserved

(* Charges and adjustments are integers. *)
LEMMA CoinsAreInt ==
  ASSUME IInv
  PROVE  /\ \A r \in charged : r \in Reservers /\ req[r].cost \in Nat /\ acct[r] \in Accounts
         /\ \A e \in events : e \in Events /\ msg[e].delta \in Int /\ msg[e].res \in charged
BY DEF IInv, TypeOK, ReserverInv, ChargeInv, MessageInv

(* A step that leaves the balances, the charges and the adjustments alone. *)
LEMMA SameCoins ==
  ASSUME IInv, CoinsInv, UNCHANGED <<remaining, charged, events>>,
         \A r \in charged : req'[r] = req[r] /\ acct'[r] = acct[r],
         \A e \in events : msg'[e] = msg[e]
  PROVE  CoinsInv'
<1>1. CostOf' = CostOf /\ DeltaOf' = DeltaOf
  BY DEF CostOf, DeltaOf
<1>2. \A a \in Accounts : ChargedTo(a)' = ChargedTo(a) /\ AppliedTo(a)' = AppliedTo(a)
  BY CoinsAreInt DEF ChargedTo, AppliedTo
<1>3. CoinsConserved'
  BY <1>1, <1>2 DEF CoinsInv, CoinsConserved, CostOf, DeltaOf
<1> QED BY <1>3 DEF CoinsInv, OpenInv

(* Nothing was ever taken from an account that does not exist. *)
LEMMA OpenAccountCoins ==
  ASSUME IInv, CoinsInv, NEW r \in Reservers, OpenAccount(r)
  PROVE  CoinsInv'
<1> DEFINE a == acct[r]
<1>1. /\ a \in Accounts /\ remaining \in [Accounts -> Int \cup {Missing}] /\ Allowance[a] \in Nat
      /\ UNCHANGED <<charged, events, msg, req, acct>>
  BY DEF OpenAccount, IInv, TypeOK, ReserverInv
<1>2. CASE remaining[a] # Missing
  <2>1. UNCHANGED remaining
    BY <1>2 DEF OpenAccount, InitRemainingIfMissing
  <2> QED BY <1>1, <2>1, SameCoins
<1>3. CASE remaining[a] = Missing
  <2>1. remaining' = [remaining EXCEPT ![a] = Allowance[a]]
    BY <1>3 DEF OpenAccount, InitRemainingIfMissing
  <2>2. ChargedTo(a) = {} /\ AppliedTo(a) = {}
    BY <1>3, CoinsAreInt DEF CoinsInv, OpenInv, ChargedTo, AppliedTo
  <2>3. SumFunctionOnSet(CostOf, ChargedTo(a)) = 0 /\ SumFunctionOnSet(DeltaOf, AppliedTo(a)) = 0
    BY <2>2, SumEmpty
  <2>4. CostOf' = CostOf /\ DeltaOf' = DeltaOf
    BY <1>1 DEF CostOf, DeltaOf
  <2>5. \A b \in Accounts : ChargedTo(b)' = ChargedTo(b) /\ AppliedTo(b)' = AppliedTo(b)
    BY <1>1 DEF ChargedTo, AppliedTo
  <2> HIDE DEF a
  <2>6. ASSUME NEW b \in Accounts, remaining'[b] # Missing
        PROVE  remaining'[b] = Allowance[b] - SumFunctionOnSet(CostOf', ChargedTo(b)')
                                            - SumFunctionOnSet(DeltaOf', AppliedTo(b)')
    <3>1. CASE b = a
      BY <1>1, <2>1, <2>3, <2>4, <2>5, <3>1
    <3>2. CASE b # a
      BY <1>1, <2>1, <2>4, <2>5, <2>6, <3>2 DEF CoinsInv, CoinsConserved, CostOf, DeltaOf
    <3> QED BY <3>1, <3>2
  <2>7. CoinsConserved'
    BY <2>6 DEF CoinsConserved, CostOf, DeltaOf
  <2>8. OpenInv'
    BY <1>1, <2>1, CoinsAreInt DEF CoinsInv, OpenInv
  <2> QED BY <1>1, <2>7, <2>8 DEF CoinsInv
<1> QED BY <1>2, <1>3

(* The charge is one more term of the sum of its account. *)
LEMMA ChargeCoins ==
  ASSUME IInv, CoinsInv, NEW r \in Reservers, Charge(r)
  PROVE  CoinsInv'
<1>0. PICK a \in Accounts : a = acct[r]
  BY DEF Charge, IInv, ReserverInv
<1>1. /\ a \in Accounts /\ r \notin charged /\ req[r].cost \in Nat
      /\ remaining \in [Accounts -> Int \cup {Missing}] /\ remaining[a] # Missing
      /\ remaining' = [remaining EXCEPT ![a] = @ - req[r].cost]
      /\ charged' = charged \cup {r} /\ UNCHANGED <<events, msg, req, acct>>
  BY <1>0 DEF Charge, Verdict, ReserveIfEnough, IInv, TypeOK, ReserverInv
<1>2. IsFiniteSet(charged)
  BY DEF CoinsInv
<1>3. IsFiniteSet(ChargedTo(a)) /\ ChargedTo(a) \subseteq charged
  BY <1>2, FS_Subset DEF ChargedTo
<1>4. SumFunctionOnSet(CostOf', ChargedTo(a) \cup {r}) = SumFunctionOnSet(CostOf, ChargedTo(a)) + req[r].cost
  <2>1. IsFiniteSet(ChargedTo(a)) /\ Adds(ChargedTo(a), r, ChargedTo(a) \cup {r})
    BY <1>1, <1>3 DEF Adds
  <2>2. Agree(CostOf, CostOf', ChargedTo(a)) /\ Worth(CostOf', r, req[r].cost)
    BY <1>1, <1>3, CoinsAreInt DEF CostOf, Agree, Worth
  <2> QED BY <2>1, <2>2, SumAdd
<1>5. SumFunctionOnSet(CostOf, ChargedTo(a)) \in Int
  <2>1. \A x \in ChargedTo(a) : CostOf[x] \in Int
    BY <1>3, CoinsAreInt DEF CostOf
  <2> QED BY <1>3, <2>1, SumInt
<1>6. /\ ChargedTo(a)' = ChargedTo(a) \cup {r}
      /\ \A b \in Accounts : b # a => ChargedTo(b)' = ChargedTo(b)
      /\ \A b \in Accounts : AppliedTo(b)' = AppliedTo(b)
  BY <1>0, <1>1 DEF ChargedTo, AppliedTo
<1>7. DeltaOf' = DeltaOf
  BY <1>1 DEF DeltaOf
<1>8. SumFunctionOnSet(DeltaOf, AppliedTo(a)) \in Int
  <2>1. \A x \in AppliedTo(a) : DeltaOf[x] \in Int
    BY CoinsAreInt DEF DeltaOf, AppliedTo
  <2>2. IsFiniteSet(AppliedTo(a))
    BY FS_Subset DEF CoinsInv, AppliedTo
  <2> QED BY <2>1, <2>2, SumInt
<1>9. ASSUME NEW b \in Accounts, remaining'[b] # Missing
      PROVE  remaining'[b] = Allowance[b] - SumFunctionOnSet(CostOf', ChargedTo(b)')
                                          - SumFunctionOnSet(DeltaOf', AppliedTo(b)')
  <2>1. CASE b = a
    <3>1. remaining[a] = Allowance[a] - SumFunctionOnSet(CostOf, ChargedTo(a))
                                      - SumFunctionOnSet(DeltaOf, AppliedTo(a))
      BY <1>1 DEF CoinsInv, CoinsConserved, CostOf, DeltaOf
    <3>2. remaining'[a] = remaining[a] - req[r].cost
      BY <1>1
    <3>3. PICK i \in Int, j \in Int, k \in Int, l \in Int :
            /\ i = Allowance[a] /\ j = SumFunctionOnSet(CostOf, ChargedTo(a))
            /\ k = SumFunctionOnSet(DeltaOf, AppliedTo(a)) /\ l = req[r].cost
      BY <1>1, <1>5, <1>8
    <3>4. remaining'[a] = (i - j - k) - l /\ (i - j - k) - l = i - (j + l) - k
      BY <3>1, <3>2, <3>3
    <3>5. remaining'[a] = Allowance[a] - (SumFunctionOnSet(CostOf, ChargedTo(a)) + req[r].cost)
                                       - SumFunctionOnSet(DeltaOf, AppliedTo(a))
      BY <3>3, <3>4
    <3> QED BY <1>1, <1>4, <1>6, <1>7, <2>1, <3>5
  <2>2. CASE b # a
    <3>1. remaining[b] = Allowance[b] - SumFunctionOnSet(CostOf, ChargedTo(b))
                                      - SumFunctionOnSet(DeltaOf, AppliedTo(b))
      BY <1>1, <1>9, <2>2 DEF CoinsInv, CoinsConserved, CostOf, DeltaOf
    <3>2. SumFunctionOnSet(CostOf', ChargedTo(b)) = SumFunctionOnSet(CostOf, ChargedTo(b))
      <4>1. IsFiniteSet(ChargedTo(b)) /\ \A x \in ChargedTo(b) : CostOf[x] = CostOf'[x]
        BY <1>1, <1>2, FS_Subset DEF ChargedTo, CostOf
      <4> QED BY <4>1, SumSame
    <3> QED BY <1>1, <1>6, <1>7, <2>2, <3>1, <3>2
  <2> QED BY <2>1, <2>2
<1>10. CoinsConserved'
  BY <1>9 DEF CoinsConserved, CostOf, DeltaOf
<1>11. OpenInv'
  <2>1. remaining'[a] \in Int /\ acct[r] = a
    BY <1>0, <1>1
  <2> QED BY <1>1, <2>1, CoinsAreInt DEF CoinsInv, OpenInv
<1>12. IsFiniteSet(charged') /\ IsFiniteSet(events')
  BY <1>1, FS_AddElement DEF CoinsInv
<1> QED BY <1>10, <1>11, <1>12 DEF CoinsInv

(* The adjustment is one more term of the sum of the account it settles on. *)
LEMMA ApplyDeltaCoins ==
  ASSUME IInv, CoinsInv, NEW j \in Adjusters, ApplyDelta(j)
  PROVE  CoinsInv'
<1>1. PICK e \in Events : e = evt[j]
  BY DEF ApplyDelta, IInv, MessageInv
<1>0. PICK a \in Accounts : a = acct[msg[e].res]
  BY <1>1, CoinsAreInt DEF ApplyDelta, IInv, MessageInv
<1>2. /\ msg[e] # None /\ msg[e].res \in charged /\ msg[e].delta \in Int
  BY <1>1, CoinsAreInt DEF ApplyDelta, IInv, TypeOK, MessageInv
<1>3. /\ remaining \in [Accounts -> Int \cup {Missing}] /\ remaining[a] # Missing /\ e \notin events
      /\ remaining' = [remaining EXCEPT ![a] = @ - msg[e].delta]
      /\ events' = events \cup {e} /\ UNCHANGED <<charged, msg, req, acct>>
  BY <1>0, <1>1, <1>2 DEF ApplyDelta, DeltaVerdict, ApplyDeltaIdempotent, Res, Delta, IInv, TypeOK
<1>4. IsFiniteSet(events)
  BY DEF CoinsInv
<1>5. IsFiniteSet(AppliedTo(a)) /\ AppliedTo(a) \subseteq events
  BY <1>4, FS_Subset DEF AppliedTo
<1>6. SumFunctionOnSet(DeltaOf', AppliedTo(a) \cup {e}) = SumFunctionOnSet(DeltaOf, AppliedTo(a)) + msg[e].delta
  <2>1. IsFiniteSet(AppliedTo(a)) /\ Adds(AppliedTo(a), e, AppliedTo(a) \cup {e})
    BY <1>3, <1>5 DEF Adds
  <2>2. Agree(DeltaOf, DeltaOf', AppliedTo(a)) /\ Worth(DeltaOf', e, msg[e].delta)
    BY <1>2, <1>3, <1>5, CoinsAreInt DEF DeltaOf, Agree, Worth
  <2> QED BY <2>1, <2>2, SumAdd
<1>7. SumFunctionOnSet(CostOf, ChargedTo(a)) \in Int
  <2>1. \A x \in ChargedTo(a) : CostOf[x] \in Int
    BY CoinsAreInt DEF CostOf, ChargedTo
  <2>2. IsFiniteSet(ChargedTo(a))
    BY FS_Subset DEF CoinsInv, ChargedTo
  <2> QED BY <2>1, <2>2, SumInt
<1>8. SumFunctionOnSet(DeltaOf, AppliedTo(a)) \in Int
  <2>1. \A x \in AppliedTo(a) : DeltaOf[x] \in Int
    BY <1>5, CoinsAreInt DEF DeltaOf
  <2> QED BY <1>5, <2>1, SumInt
<1>9. /\ AppliedTo(a)' = AppliedTo(a) \cup {e}
      /\ \A b \in Accounts : b # a => AppliedTo(b)' = AppliedTo(b)
      /\ \A b \in Accounts : ChargedTo(b)' = ChargedTo(b)
  BY <1>0, <1>3 DEF ChargedTo, AppliedTo
<1>10. CostOf' = CostOf
  BY <1>3 DEF CostOf
<1>11. ASSUME NEW b \in Accounts, remaining'[b] # Missing
       PROVE  remaining'[b] = Allowance[b] - SumFunctionOnSet(CostOf', ChargedTo(b)')
                                           - SumFunctionOnSet(DeltaOf', AppliedTo(b)')
  <2>1. CASE b = a
    <3>1. remaining[a] = Allowance[a] - SumFunctionOnSet(CostOf, ChargedTo(a))
                                      - SumFunctionOnSet(DeltaOf, AppliedTo(a))
      BY <1>2, <1>3 DEF CoinsInv, CoinsConserved, CostOf, DeltaOf
    <3>2. remaining'[a] = remaining[a] - msg[e].delta
      BY <1>2, <1>3
    <3>3. PICK i \in Int, k \in Int, m \in Int, l \in Int :
            /\ i = Allowance[a] /\ k = SumFunctionOnSet(CostOf, ChargedTo(a))
            /\ m = SumFunctionOnSet(DeltaOf, AppliedTo(a)) /\ l = msg[e].delta
      BY <1>2, <1>7, <1>8
    <3>4. remaining'[a] = (i - k - m) - l /\ (i - k - m) - l = i - k - (m + l)
      BY <3>1, <3>2, <3>3
    <3>5. remaining'[a] = Allowance[a] - SumFunctionOnSet(CostOf, ChargedTo(a))
                                       - (SumFunctionOnSet(DeltaOf, AppliedTo(a)) + msg[e].delta)
      BY <3>3, <3>4
    <3> QED BY <1>2, <1>6, <1>9, <1>10, <2>1, <3>5
  <2>2. CASE b # a
    <3>1. remaining[b] = Allowance[b] - SumFunctionOnSet(CostOf, ChargedTo(b))
                                      - SumFunctionOnSet(DeltaOf, AppliedTo(b))
      BY <1>3, <1>11, <2>2 DEF CoinsInv, CoinsConserved, CostOf, DeltaOf
    <3>2. SumFunctionOnSet(DeltaOf', AppliedTo(b)) = SumFunctionOnSet(DeltaOf, AppliedTo(b))
      <4>1. IsFiniteSet(AppliedTo(b)) /\ \A x \in AppliedTo(b) : DeltaOf[x] = DeltaOf'[x]
        BY <1>3, <1>4, FS_Subset DEF AppliedTo, DeltaOf
      <4> QED BY <4>1, SumSame
    <3> QED BY <1>3, <1>9, <1>10, <2>2, <3>1, <3>2
  <2> QED BY <2>1, <2>2
<1>12. CoinsConserved'
  BY <1>11 DEF CoinsConserved, CostOf, DeltaOf
<1>13. OpenInv'
  <2>1. remaining'[a] \in Int
    BY <1>2, <1>3
  <2> QED BY <1>3, <2>1, CoinsAreInt DEF CoinsInv, OpenInv
<1>14. IsFiniteSet(charged') /\ IsFiniteSet(events')
  BY <1>3, FS_AddElement DEF CoinsInv
<1> QED BY <1>12, <1>13, <1>14 DEF CoinsInv

(* One step per action: three of them move coins, the others do not. *)
LEMMA NextCoins == IInv /\ CoinsInv /\ [Next]_vars => CoinsInv'
<1> SUFFICES ASSUME IInv, CoinsInv, [Next]_vars PROVE CoinsInv'
  OBVIOUS
<1> USE DEF redis, books, Goto
<1>1. ASSUME NEW r \in Reservers, NEW q \in Requests, ReceiveReserve(r, q) PROVE CoinsInv'
  BY <1>1, SameCoins DEF ReceiveReserve, IInv, TypeOK, ReserverInv
<1>2. ASSUME NEW r \in Reservers, FindPlan(r) \/ GetEntitlement(r) \/ NoCharge(r) PROVE CoinsInv'
  <2>1. UNCHANGED <<remaining, charged, events, req, msg>>
    BY <1>2 DEF FindPlan, GetEntitlement, NoCharge
  <2>2. \A s \in charged : acct'[s] = acct[s]
    BY <1>2 DEF FindPlan, GetEntitlement, NoCharge, IInv, TypeOK, ReserverInv
  <2> QED BY <2>1, <2>2, SameCoins
<1>3. ASSUME NEW r \in Reservers, WriteReserve(r) \/ UpsertReserve(r) PROVE CoinsInv'
  BY <1>3, SameCoins DEF WriteReserve, UpsertReserve
<1>4. ASSUME NEW e \in Events, NEW r \in Reservers, EmitAdjust(e, r) PROVE CoinsInv'
  BY <1>4, SameCoins DEF EmitAdjust, IInv, TypeOK, MessageInv
<1>5. ASSUME NEW j \in Adjusters, NEW e \in Events, ReceiveAdjust(j, e) PROVE CoinsInv'
  BY <1>5, SameCoins DEF ReceiveAdjust
<1>6. ASSUME NEW j \in Adjusters, CheckLedger(j) \/ RefuseDelta(j) \/ WriteAdjust(j) \/ UpsertAdjust(j)
      PROVE  CoinsInv'
  <2>1. UNCHANGED <<remaining, charged, events, req, acct, msg>>
    BY <1>6 DEF CheckLedger, RefuseDelta, WriteAdjust, UpsertAdjust
  <2> QED BY <2>1, SameCoins
<1>7. ASSUME NEW h \in Handlers, Abort(h) PROVE CoinsInv'
  BY <1>7, SameCoins DEF Abort
<1>8. ASSUME NEW t \in Teams, Unsubscribe(t) PROVE CoinsInv'
  BY <1>8, SameCoins DEF Unsubscribe
<1>9. CASE UNCHANGED vars
  BY <1>9, SameCoins DEF vars
<1> QED
  BY <1>1, <1>2, <1>3, <1>4, <1>5, <1>6, <1>7, <1>8, <1>9, OpenAccountCoins, ChargeCoins, ApplyDeltaCoins
  DEF Next, ReserveStep, AdjustStep

(* Whatever the handlers interleave to, fail at or receive twice, a balance  *)
(* is its allowance less each charge and each adjustment, counted once.      *)
THEOREM CoinsAreConserved == Spec => []CoinsConserved
<1>1. CoinsInv => CoinsConserved
  BY DEF CoinsInv
<1> QED BY <1>1, InitCoins, NextCoins, Inductive, PTL DEF Spec

-----------------------------------------------------------------------------
(* The books match the ledger *)

(* An entry repeats what its reservation asked for and is the only one of    *)
(* its type; an ADJUST entry, like the message it comes from, is about a     *)
(* reservation whose handler has replied.                                   *)
EntryInv ==
  /\ IsFiniteSet(ledger)
  /\ \A x \in ledger : x.type = "RESERVE" =>
       x.coins = req[x.res].cost /\ pc[x.res] \in {"balance", "approved", "failed"}
  /\ \A x \in ledger : x.type = "ADJUST" => HasReserve(x.res) /\ pc[x.res] = "approved"
  /\ \A x, y \in ledger : x.res = y.res /\ x.type = y.type => x = y
  /\ \A e \in Events : msg[e] # None => pc[msg[e].res] = "approved"

(* Between its two writes to Mongo an adjuster has an entry of its own. *)
WriterInv ==
  /\ \A j \in Adjusters : pc[j] = "balance" => Entry("ADJUST", Res(j), evt[j], Delta(j)) \in ledger
  /\ \A i, j \in Adjusters : pc[i] = "balance" /\ pc[j] = "balance" /\ Res(i) = Res(j) => i = j

Unbooked(r) == \E j \in Adjusters : pc[j] = "balance" /\ Res(j) = r
HeldOn(a) == {x \in LedgerOn(a) : /\ x.type = "RESERVE" /\ pc[x.res] = "approved"
                                  /\ Settled(x.res) => Unbooked(x.res)}
SpentOn(a) == {x \in LedgerOn(a) : Settled(x.res) /\ ~Unbooked(x.res)}
Clean == \A h \in Handlers : pc[h] # "failed"

(* Unless a handler has stopped halfway, the document is behind the ledger   *)
(* by the entries whose handlers have not come to their second write yet.    *)
BooksInv ==
  Clean => \A a \in Accounts :
    /\ reserved[a] = Booked(HeldOn(a))
    /\ used[a] >= Booked(SpentOn(a))
    /\ GaveBackMore(a) \/ used[a] = Booked(SpentOn(a))

LedgerInv == EntryInv /\ WriterInv /\ BooksInv

(* What a session was given back too much stays in the ledger. *)
LEMMA GivenBackForGood ==
  ASSUME ledger \subseteq ledger',
         \A x \in ledger : req'[x.res] = req[x.res] /\ acct'[x.res] = acct[x.res],
         NEW a, GaveBackMore(a)
  PROVE  GaveBackMore(a)'
BY DEF GaveBackMore, LedgerOn

(* The books start empty. *)
LEMMA InitLedger == Init => LedgerInv
<1> SUFFICES ASSUME Init PROVE LedgerInv
  OBVIOUS
<1>1. EntryInv /\ WriterInv
  BY FS_EmptySet DEF Init, EntryInv, WriterInv
<1>2. \A a \in Accounts : HeldOn(a) = {} /\ SpentOn(a) = {} /\ reserved[a] = 0 /\ used[a] = 0
  BY DEF Init, HeldOn, SpentOn, LedgerOn
<1>3. Booked({}) = 0
  BY SumEmpty DEF Booked
<1>4. ASSUME NEW a \in Accounts
      PROVE  reserved[a] = Booked(HeldOn(a)) /\ used[a] = Booked(SpentOn(a)) /\ used[a] >= Booked(SpentOn(a))
  <2>1. Booked(HeldOn(a)) = 0 /\ Booked(SpentOn(a)) = 0
    BY <1>2, <1>3, ZenonT(30)
  <2> QED BY <1>2, <2>1, 0 >= 0
<1> QED BY <1>1, <1>4 DEF LedgerInv, BooksInv

(* A step of a handler that leaves the books alone. *)
LEMMA SameBooks ==
  ASSUME IInv, LedgerInv, UNCHANGED books,
         \A r \in charged : req'[r] = req[r] /\ acct'[r] = acct[r],
         \A r \in Reservers : \/ pc'[r] = pc[r]
                              \/ pc[r] \notin {"balance", "approved", "failed"} /\ pc'[r] # "approved",
         \A j \in Adjusters : \/ pc'[j] = pc[j] /\ (pc[j] # "idle" => evt'[j] = evt[j])
                              \/ pc[j] \notin {"balance", "failed"} /\ pc'[j] # "balance",
         \A e \in Events : \/ msg'[e] = msg[e]
                           \/ msg[e] = None /\ msg'[e].res \in Reservers /\ pc[msg'[e].res] = "approved"
  PROVE  LedgerInv'
<1> USE DEF books
<1>1. /\ \A x \in ledger : /\ x.res \in charged /\ x.res \in Reservers
                           /\ req'[x.res] = req[x.res] /\ acct'[x.res] = acct[x.res]
      /\ \A r \in Reservers : pc[r] = "approved" <=> pc'[r] = "approved"
      /\ \A j \in Adjusters : pc[j] = "balance" <=> pc'[j] = "balance"
  BY DEF IInv, TypeOK, LedgerBacked
<1>2. \A j \in Adjusters : pc[j] = "balance" =>
        evt'[j] = evt[j] /\ msg'[evt[j]] = msg[evt[j]]
  BY DEF IInv, MessageInv
<1>3. \A j \in Adjusters : pc[j] = "balance" => Res(j)' = Res(j) /\ Delta(j)' = Delta(j)
  BY <1>2 DEF Res, Delta
<1>4. EntryInv'
  <2>1. \A e \in Events : msg'[e] # None => pc'[msg'[e].res] = "approved"
    <3> SUFFICES ASSUME NEW e \in Events, msg'[e] # None PROVE pc'[msg'[e].res] = "approved"
      OBVIOUS
    <3>1. msg'[e] = msg[e] => msg[e].res \in Reservers /\ pc[msg[e].res] = "approved"
      BY DEF LedgerInv, EntryInv, IInv, TypeOK, MessageInv
    <3> QED BY <1>1, <3>1
  <2>2. \A x \in ledger : HasReserve(x.res)' <=> HasReserve(x.res)
    BY DEF HasReserve
  <2>3. \A x \in ledger : pc[x.res] \in {"balance", "approved", "failed"} => pc'[x.res] = pc[x.res]
    BY <1>1
  <2> QED BY <1>1, <2>1, <2>2, <2>3 DEF LedgerInv, EntryInv
<1>5. WriterInv'
  BY <1>1, <1>2, <1>3 DEF LedgerInv, WriterInv
<1>6. \A r : Unbooked(r)' <=> Unbooked(r)
  BY <1>1, <1>3 DEF Unbooked
<1>7. \A r : Settled(r)' <=> Settled(r)
  BY DEF Settled, EntriesOf
<1>8. \A a \in Accounts : HeldOn(a)' = HeldOn(a) /\ SpentOn(a)' = SpentOn(a)
  BY <1>1, <1>6, <1>7 DEF HeldOn, SpentOn, LedgerOn
<1>9. Clean' => Clean
  BY DEF Clean
<1>10. BooksInv'
  <2>1. \A a : GaveBackMore(a) => GaveBackMore(a)'
    BY <1>1, GivenBackForGood
  <2> QED BY <1>8, <1>9, <2>1 DEF LedgerInv, BooksInv, Booked
<1> QED BY <1>4, <1>5, <1>10 DEF LedgerInv

CoinsOf == [x \in ledger |-> x.coins]

(* Entries are kept, and so is what some of them add up to. *)
LEMMA SameSum ==
  ASSUME IInv, EntryInv, ledger \subseteq ledger', NEW S, S \subseteq ledger
  PROVE  /\ IsFiniteSet(S) /\ Agree(CoinsOf, CoinsOf', S)
         /\ SumFunctionOnSet(CoinsOf', S) = SumFunctionOnSet(CoinsOf, S)
         /\ SumFunctionOnSet(CoinsOf, S) \in Int
<1>1. IsFiniteSet(S)
  BY FS_Subset DEF EntryInv
<1>2. \A x \in S : CoinsOf[x] = CoinsOf'[x] /\ CoinsOf[x] \in Int
  BY DEF CoinsOf, IInv, TypeOK
<1> QED BY <1>1, <1>2, SumSame, SumInt DEF Agree

(* The new entry is not in the books before its handler's second write. *)
LEMMA WriteReserveBooks ==
  ASSUME IInv, LedgerInv, NEW r \in Reservers, WriteReserve(r)
  PROVE  LedgerInv'
<1> DEFINE n == Entry("RESERVE", r, None, req[r].cost)
<1>1. /\ pc[r] = "ledger" /\ \A h \in Handlers : pc'[h] = IF h = r THEN "balance" ELSE pc[h]
      /\ UNCHANGED <<reserved, used, msg, req, acct, evt, charged>>
  BY DEF WriteReserve, Goto, redis, IInv, TypeOK
<1>2. n.res = r /\ n.type = "RESERVE" /\ n.coins = req[r].cost
  BY DEF Entry
<1>3. PICK x0 : x0 = n
  OBVIOUS
<1>4. ledger' = ledger \cup {x0}
  BY <1>3 DEF WriteReserve
<1> HIDE DEF n
<1>5. \A x \in ledger : x.res # r /\ x.res \in Reservers /\ x.type \in {"RESERVE", "ADJUST"}
  BY <1>1 DEF LedgerInv, EntryInv, IInv, TypeOK
<1>6. EntryInv'
  <2>1. IsFiniteSet(ledger')
    BY <1>4, FS_AddElement DEF LedgerInv, EntryInv
  <2>2. \A s : HasReserve(s) => HasReserve(s)'
    BY <1>4 DEF HasReserve
  <2>3. \A s \in Reservers : s # r => pc'[s] = pc[s]
    BY <1>1
  <2>4. \A x \in ledger' : x.type = "RESERVE" =>
          x.coins = req'[x.res].cost /\ pc'[x.res] \in {"balance", "approved", "failed"}
    BY <1>1, <1>2, <1>3, <1>4, <1>5, <2>3 DEF LedgerInv, EntryInv
  <2>5. \A x \in ledger' : x.type = "ADJUST" => HasReserve(x.res)' /\ pc'[x.res] = "approved"
    BY <1>2, <1>3, <1>4, <1>5, <2>2, <2>3 DEF LedgerInv, EntryInv
  <2>6. \A x, y \in ledger' : x.res = y.res /\ x.type = y.type => x = y
    BY <1>2, <1>3, <1>4, <1>5 DEF LedgerInv, EntryInv
  <2>7. \A e \in Events : msg'[e] # None => pc'[msg'[e].res] = "approved"
    BY <1>1 DEF LedgerInv, EntryInv, IInv, TypeOK
  <2> QED BY <2>1, <2>4, <2>5, <2>6, <2>7 DEF EntryInv
<1>7. /\ \A j \in Adjusters : pc'[j] = pc[j]
      /\ \A j \in Adjusters : Res(j)' = Res(j) /\ Delta(j)' = Delta(j)
  BY <1>1 DEF Res, Delta
<1>8. WriterInv'
  BY <1>1, <1>4, <1>7 DEF LedgerInv, WriterInv
<1>9. BooksInv'
  <2>1. \A s : Unbooked(s)' <=> Unbooked(s)
    BY <1>7 DEF Unbooked
  <2>2. \A s \in Reservers : Settled(s)' <=> Settled(s)
    BY <1>2, <1>3, <1>4 DEF Settled, EntriesOf
  <2>3. ~Settled(r)
    BY <1>5 DEF Settled, EntriesOf
  <2>4. \A s \in Reservers : pc'[s] = "approved" <=> pc[s] = "approved"
    BY <1>1
  <2>5. \A a \in Accounts : HeldOn(a)' = HeldOn(a) /\ SpentOn(a)' = SpentOn(a)
    BY <1>1, <1>2, <1>3, <1>4, <1>5, <2>1, <2>2, <2>3, <2>4 DEF HeldOn, SpentOn, LedgerOn
  <2>6. \A a : HeldOn(a) \subseteq ledger /\ SpentOn(a) \subseteq ledger
    BY DEF HeldOn, SpentOn, LedgerOn
  <2>7. \A a : /\ SumFunctionOnSet(CoinsOf', HeldOn(a)) = SumFunctionOnSet(CoinsOf, HeldOn(a))
               /\ SumFunctionOnSet(CoinsOf', SpentOn(a)) = SumFunctionOnSet(CoinsOf, SpentOn(a))
    BY <1>4, <2>6, SameSum DEF LedgerInv
  <2>8. Clean' => Clean
    BY <1>1 DEF Clean
  <2>9. \A a : GaveBackMore(a) => GaveBackMore(a)'
    BY <1>1, <1>4, GivenBackForGood
  <2> QED BY <1>1, <2>5, <2>7, <2>8, <2>9 DEF LedgerInv, BooksInv, Booked, CoinsOf
<1> QED BY <1>6, <1>8, <1>9 DEF LedgerInv

(* With its handler's second write the reservation is in the books. *)
LEMMA UpsertReserveBooks ==
  ASSUME IInv, LedgerInv, NEW r \in Reservers, UpsertReserve(r)
  PROVE  LedgerInv'
<1>1. /\ pc[r] = "balance" /\ \A h \in Handlers : pc'[h] = IF h = r THEN "approved" ELSE pc[h]
      /\ UNCHANGED <<ledger, used, msg, req, acct, evt, charged>>
      /\ reserved' = [reserved EXCEPT ![acct[r]] = @ + req[r].cost]
  BY DEF UpsertReserve, Goto, redis, IInv, TypeOK
<1>2. PICK a \in Accounts : a = acct[r]
  BY <1>1 DEF IInv, ReserverInv
<1>3. PICK x \in ledger : x.res = r /\ x.type = "RESERVE" /\ x.coins = req[r].cost
  BY <1>1 DEF LedgerInv, EntryInv, IInv, ReserverInv, HasReserve
<1>4. req[r].cost \in Nat /\ reserved \in [Accounts -> Nat]
  BY <1>1 DEF IInv, TypeOK, ReserverInv
<1>5. \A y \in ledger : y.res \in Reservers /\ (y.res = r => y = x)
  BY <1>1, <1>3 DEF LedgerInv, EntryInv, IInv, TypeOK
<1>6. EntryInv'
  <2>1. \A s : HasReserve(s)' <=> HasReserve(s)
    BY <1>1 DEF HasReserve
  <2>2. \A s \in Reservers : s # r => pc'[s] = pc[s]
    BY <1>1
  <2>3. \A e \in Events : msg'[e] # None => pc'[msg'[e].res] = "approved"
    BY <1>1 DEF LedgerInv, EntryInv, IInv, TypeOK
  <2> QED BY <1>1, <1>5, <2>1, <2>2, <2>3 DEF LedgerInv, EntryInv
<1>7. /\ \A j \in Adjusters : pc'[j] = pc[j]
      /\ \A j \in Adjusters : Res(j)' = Res(j) /\ Delta(j)' = Delta(j)
  BY <1>1 DEF Res, Delta
<1>8. WriterInv'
  BY <1>1, <1>7 DEF LedgerInv, WriterInv
<1>9. BooksInv'
  <2>1. \A s : (Unbooked(s)' <=> Unbooked(s)) /\ (Settled(s)' <=> Settled(s))
    BY <1>1, <1>7 DEF Unbooked, Settled, EntriesOf
  <2>2. ~Settled(r)
    BY <1>3, <1>5 DEF Settled, EntriesOf
  <2>3. \A b \in Accounts : SpentOn(b)' = SpentOn(b)
    BY <1>1, <2>1 DEF SpentOn, LedgerOn
  <2>4. \A b \in Accounts : b # a => HeldOn(b)' = HeldOn(b)
    BY <1>1, <1>2, <1>5, <2>1 DEF HeldOn, LedgerOn
  <2>5. Adds(HeldOn(a), x, HeldOn(a)')
    BY <1>1, <1>2, <1>3, <1>5, <2>1, <2>2 DEF HeldOn, LedgerOn, Adds
  <2>6. CoinsOf' = CoinsOf
    BY <1>1 DEF CoinsOf
  <2>7. /\ IsFiniteSet(HeldOn(a)) /\ Agree(CoinsOf, CoinsOf, HeldOn(a))
        /\ SumFunctionOnSet(CoinsOf, HeldOn(a)) \in Int
    <3>1. HeldOn(a) \subseteq ledger /\ ledger \subseteq ledger'
      BY <1>1 DEF HeldOn, LedgerOn
    <3> QED BY <2>6, <3>1, SameSum DEF LedgerInv
  <2>8. Worth(CoinsOf, x, req[r].cost)
    BY <1>3, <1>4 DEF CoinsOf, Worth
  <2>9. SumFunctionOnSet(CoinsOf, HeldOn(a)') = SumFunctionOnSet(CoinsOf, HeldOn(a)) + req[r].cost
    BY <2>5, <2>7, <2>8, SumAdd
  <2>10. Clean' => Clean
    BY <1>1 DEF Clean
  <2>11. ASSUME Clean', NEW b \in Accounts
         PROVE  /\ reserved'[b] = SumFunctionOnSet(CoinsOf', HeldOn(b)')
                /\ used'[b] >= SumFunctionOnSet(CoinsOf', SpentOn(b)')
                /\ GaveBackMore(b)' \/ used'[b] = SumFunctionOnSet(CoinsOf', SpentOn(b)')
    <3>1. /\ reserved[b] = SumFunctionOnSet(CoinsOf, HeldOn(b))
          /\ used[b] >= SumFunctionOnSet(CoinsOf, SpentOn(b))
          /\ GaveBackMore(b) \/ used[b] = SumFunctionOnSet(CoinsOf, SpentOn(b))
      BY <2>10, <2>11 DEF LedgerInv, BooksInv, Booked, CoinsOf
    <3>2. /\ used'[b] >= SumFunctionOnSet(CoinsOf', SpentOn(b)')
          /\ GaveBackMore(b)' \/ used'[b] = SumFunctionOnSet(CoinsOf', SpentOn(b)')
      BY <1>1, <2>3, <2>6, <3>1, GivenBackForGood
    <3>3. CASE b = a
      BY <1>1, <1>2, <1>4, <2>6, <2>9, <3>1, <3>2, <3>3
    <3>4. CASE b # a
      BY <1>1, <1>2, <1>4, <2>4, <2>6, <3>1, <3>2, <3>4
    <3> QED BY <3>3, <3>4
  <2> QED BY <2>11 DEF BooksInv, Booked, CoinsOf
<1> QED BY <1>6, <1>8, <1>9 DEF LedgerInv

(* The first ADJUST entry of a reservation leaves it where it is in the      *)
(* books until its handler's second write; a second one is refused.         *)
LEMMA WriteAdjustBooks ==
  ASSUME IInv, LedgerInv, NEW j \in Adjusters, WriteAdjust(j)
  PROVE  LedgerInv'
<1>1. PICK r \in Reservers : r = Res(j)
  BY DEF WriteAdjust, Res, IInv, TypeOK, MessageInv
<1>2. /\ pc[j] = "ledger" /\ UNCHANGED <<reserved, used, msg, req, acct, evt, charged>>
      /\ evt[j] \in Events /\ r \in charged /\ HasReserve(r) /\ pc[r] = "approved"
  BY <1>1 DEF WriteAdjust, redis, Res, LedgerInv, EntryInv, IInv, MessageInv
<1>3. CASE Settled(r)
  <2>1. UNCHANGED ledger /\ pc' = [pc EXCEPT ![j] = "duplicate"]
    BY <1>1, <1>3 DEF WriteAdjust, Goto, Settled
  <2> QED BY <1>2, <2>1, SameBooks DEF books, IInv, TypeOK
<1>4. CASE ~Settled(r)
  <2>1. PICK n : n = Entry("ADJUST", r, evt[j], Delta(j))
    OBVIOUS
  <2>2. /\ ledger' = ledger \cup {n}
        /\ \A h \in Handlers : pc'[h] = IF h = j THEN "balance" ELSE pc[h]
    BY <1>1, <1>4, <2>1 DEF WriteAdjust, Goto, Settled, IInv, TypeOK
  <2>3. n.res = r /\ n.type = "ADJUST"
    BY <2>1 DEF Entry
  <2>4. \A x \in ledger : /\ x.res \in Reservers /\ x.type \in {"RESERVE", "ADJUST"}
                          /\ x.res = r => x.type = "RESERVE"
    BY <1>4 DEF IInv, TypeOK, Settled, EntriesOf
  <2>5. /\ \A s \in Reservers : pc'[s] = pc[s]
        /\ \A i \in Adjusters : Res(i)' = Res(i) /\ Delta(i)' = Delta(i)
    BY <1>2, <2>2 DEF Res, Delta
  <2>6. EntryInv'
    <3>1. IsFiniteSet(ledger')
      BY <2>2, FS_AddElement DEF LedgerInv, EntryInv
    <3>2. \A s : HasReserve(s) => HasReserve(s)'
      BY <2>2 DEF HasReserve
    <3>3. \A x \in ledger' : x.type = "RESERVE" =>
            x.coins = req'[x.res].cost /\ pc'[x.res] \in {"balance", "approved", "failed"}
      BY <1>2, <2>2, <2>3, <2>4, <2>5 DEF LedgerInv, EntryInv
    <3>4. \A x \in ledger' : x.type = "ADJUST" => HasReserve(x.res)' /\ pc'[x.res] = "approved"
      BY <1>2, <2>2, <2>3, <2>4, <2>5, <3>2 DEF LedgerInv, EntryInv
    <3>5. \A x, y \in ledger' : x.res = y.res /\ x.type = y.type => x = y
      BY <2>2, <2>3, <2>4 DEF LedgerInv, EntryInv
    <3>6. \A e \in Events : msg'[e] # None => pc'[msg'[e].res] = "approved"
      BY <1>2, <2>5 DEF LedgerInv, EntryInv, IInv, TypeOK
    <3> QED BY <3>1, <3>3, <3>4, <3>5, <3>6 DEF EntryInv
  <2>7. ~Unbooked(r)
    <3> SUFFICES ASSUME NEW i \in Adjusters, pc[i] = "balance", Res(i) = r PROVE FALSE
      BY DEF Unbooked
    <3>1. Entry("ADJUST", r, evt[i], Delta(i)) \in ledger
      BY DEF LedgerInv, WriterInv
    <3>2. Settled(r)
      BY <3>1 DEF Settled, EntriesOf, Entry
    <3> QED BY <1>4, <3>2
  <2>8. WriterInv'
    <3>1. \A i \in Adjusters : pc'[i] = "balance" /\ i # j => pc[i] = "balance" /\ Res(i) # r
      BY <2>2, <2>7 DEF Unbooked
    <3>2. \A i \in Adjusters : pc'[i] = "balance" =>
            Entry("ADJUST", Res(i)', evt'[i], Delta(i)') \in ledger'
      <4> SUFFICES ASSUME NEW i \in Adjusters, pc'[i] = "balance"
                   PROVE  Entry("ADJUST", Res(i), evt[i], Delta(i)) \in ledger'
        BY <1>2, <2>5
      <4>1. CASE i = j
        BY <1>1, <2>1, <2>2, <4>1
      <4>2. CASE i # j
        BY <2>2, <3>1, <4>2 DEF LedgerInv, WriterInv
      <4> QED BY <4>1, <4>2
    <3>3. \A i, k \in Adjusters : pc'[i] = "balance" /\ pc'[k] = "balance" /\ Res(i) = Res(k) => i = k
      BY <1>1, <3>1 DEF LedgerInv, WriterInv
    <3> QED BY <2>5, <3>2, <3>3 DEF WriterInv
  <2>9. BooksInv'
    <3>1. Unbooked(r)'
      BY <1>1, <2>2, <2>5 DEF Unbooked
    <3>2. \A s \in Reservers : s # r => (Unbooked(s)' <=> Unbooked(s))
      BY <1>1, <2>2, <2>5 DEF Unbooked
    <3>3. \A s \in Reservers : s # r => (Settled(s)' <=> Settled(s))
      BY <2>2, <2>3 DEF Settled, EntriesOf
    <3>4. \A a \in Accounts : HeldOn(a)' = HeldOn(a) /\ SpentOn(a)' = SpentOn(a)
      BY <1>2, <1>4, <2>2, <2>3, <2>4, <2>5, <3>1, <3>2, <3>3 DEF HeldOn, SpentOn, LedgerOn
    <3>5. \A a : HeldOn(a) \subseteq ledger /\ SpentOn(a) \subseteq ledger
      BY DEF HeldOn, SpentOn, LedgerOn
    <3>6. \A a : /\ SumFunctionOnSet(CoinsOf', HeldOn(a)) = SumFunctionOnSet(CoinsOf, HeldOn(a))
                 /\ SumFunctionOnSet(CoinsOf', SpentOn(a)) = SumFunctionOnSet(CoinsOf, SpentOn(a))
      BY <2>2, <3>5, SameSum DEF LedgerInv
    <3>7. Clean' => Clean
      BY <1>2, <2>2 DEF Clean
    <3>8. \A a : GaveBackMore(a) => GaveBackMore(a)'
      BY <1>2, <2>2, GivenBackForGood
    <3> QED BY <1>2, <3>4, <3>6, <3>7, <3>8 DEF LedgerInv, BooksInv, Booked, CoinsOf
  <2> QED BY <2>6, <2>8, <2>9 DEF LedgerInv
<1> QED BY <1>3, <1>4

(* With its handler's second write a reservation leaves `reserved` and what  *)
(* it cost enters `used`, which is clamped only if it was given back more.   *)
LEMMA UpsertAdjustBooks ==
  ASSUME IInv, LedgerInv, NEW j \in Adjusters, UpsertAdjust(j)
  PROVE  LedgerInv'
<1>1. PICK r \in Reservers, a \in Accounts : r = Res(j) /\ a = acct[r]
  BY DEF UpsertAdjust, Res, IInv, TypeOK, MessageInv, ChargeInv
<1>2. /\ pc[j] = "balance" /\ UNCHANGED <<ledger, msg, req, acct, evt, charged>>
      /\ \A h \in Handlers : pc'[h] = IF h = j THEN "settled" ELSE pc[h]
      /\ reserved' = [reserved EXCEPT ![a] = NonNegative(@ - req[r].cost)]
      /\ used' = [used EXCEPT ![a] = NonNegative(@ + req[r].cost + Delta(j))]
  BY <1>1 DEF UpsertAdjust, Goto, redis, IInv, TypeOK
<1>3. /\ pc[r] = "approved" /\ HasReserve(r) /\ req[r].cost \in Nat /\ Delta(j) \in Int
      /\ reserved \in [Accounts -> Nat] /\ used \in [Accounts -> Nat]
  BY <1>1, <1>2 DEF Res, Delta, LedgerInv, EntryInv, IInv, TypeOK, MessageInv, ReserverInv
<1>4. PICK x \in ledger : x.res = r /\ x.type = "RESERVE" /\ x.coins = req[r].cost
  BY <1>3 DEF LedgerInv, EntryInv, HasReserve
<1>5. PICK y \in ledger : y.res = r /\ y.type = "ADJUST" /\ y.coins = Delta(j)
  BY <1>1, <1>2 DEF LedgerInv, WriterInv, Entry
<1>6. /\ x # y /\ \A z \in ledger : z.res \in Reservers /\ (z.res = r => z \in {x, y})
  BY <1>4, <1>5 DEF LedgerInv, EntryInv, IInv, TypeOK
<1>7. /\ \A s \in Reservers : pc'[s] = pc[s]
      /\ \A i \in Adjusters : Res(i)' = Res(i) /\ Delta(i)' = Delta(i)
  BY <1>2 DEF Res, Delta
<1>8. EntryInv'
  <2>1. \A s : HasReserve(s)' <=> HasReserve(s)
    BY <1>2 DEF HasReserve
  <2>2. \A e \in Events : msg'[e] # None => pc'[msg'[e].res] = "approved"
    BY <1>2, <1>7 DEF LedgerInv, EntryInv, IInv, TypeOK
  <2> QED BY <1>2, <1>6, <1>7, <2>1, <2>2 DEF LedgerInv, EntryInv
<1>9. WriterInv'
  BY <1>2, <1>7 DEF LedgerInv, WriterInv
<1>10. BooksInv'
  <2>1. Unbooked(r) /\ ~Unbooked(r)' /\ Settled(r)
    BY <1>1, <1>2, <1>5, <1>7 DEF Unbooked, LedgerInv, WriterInv, Settled, EntriesOf
  <2>2. \A s : Settled(s)' <=> Settled(s)
    BY <1>2 DEF Settled, EntriesOf
  <2>3. \A s \in Reservers : s # r => (Unbooked(s)' <=> Unbooked(s))
    BY <1>1, <1>2, <1>7 DEF Unbooked
  <2>4. \A b \in Accounts : b # a => HeldOn(b)' = HeldOn(b) /\ SpentOn(b)' = SpentOn(b)
    BY <1>1, <1>2, <1>6, <1>7, <2>2, <2>3 DEF HeldOn, SpentOn, LedgerOn
  <2>5. Adds(HeldOn(a)', x, HeldOn(a))
    BY <1>1, <1>2, <1>3, <1>4, <1>5, <1>6, <1>7, <2>1, <2>2, <2>3 DEF HeldOn, LedgerOn, Adds
  <2>6. PICK M : M = SpentOn(a) \cup {x}
    OBVIOUS
  <2>7. Adds(SpentOn(a), x, M) /\ Adds(M, y, SpentOn(a)')
    BY <1>1, <1>2, <1>4, <1>5, <1>6, <2>1, <2>2, <2>3, <2>6 DEF SpentOn, LedgerOn, Adds
  <2>8. /\ CoinsOf' = CoinsOf /\ HeldOn(a)' \subseteq ledger
        /\ M \subseteq ledger /\ SpentOn(a) \subseteq ledger /\ ledger \subseteq ledger'
    BY <1>2, <1>4, <2>6 DEF CoinsOf, HeldOn, SpentOn, LedgerOn
  <2>9. /\ Worth(CoinsOf, x, req[r].cost) /\ Worth(CoinsOf, y, Delta(j))
    BY <1>3, <1>4, <1>5 DEF CoinsOf, Worth
  <2>10. SumFunctionOnSet(CoinsOf, HeldOn(a)) = SumFunctionOnSet(CoinsOf, HeldOn(a)') + req[r].cost
    <3>1. IsFiniteSet(HeldOn(a)') /\ Agree(CoinsOf, CoinsOf, HeldOn(a)')
      BY <2>8, SameSum DEF LedgerInv
    <3> QED BY <2>5, <2>9, <3>1, SumAdd
  <2>11. SumFunctionOnSet(CoinsOf, HeldOn(a)') \in Nat
    <3>1. IsFiniteSet(HeldOn(a)')
      BY <2>8, SameSum DEF LedgerInv
    <3>2. \A z \in HeldOn(a)' : z \in ledger /\ z.res \in charged /\ z.coins = req[z.res].cost
      BY <1>2 DEF HeldOn, LedgerOn, LedgerInv, EntryInv, IInv, LedgerBacked
    <3>3. \A z \in HeldOn(a)' : CoinsOf[z] \in Nat
      BY <3>2, CoinsAreInt DEF CoinsOf
    <3> QED BY <3>1, <3>3, SumNat
  <2>12. SumFunctionOnSet(CoinsOf, SpentOn(a)') = SumFunctionOnSet(CoinsOf, SpentOn(a)) + req[r].cost + Delta(j)
    <3>1. /\ IsFiniteSet(SpentOn(a)) /\ Agree(CoinsOf, CoinsOf, SpentOn(a))
          /\ IsFiniteSet(M) /\ Agree(CoinsOf, CoinsOf, M)
      BY <2>8, SameSum DEF LedgerInv
    <3>2. SumFunctionOnSet(CoinsOf, M) = SumFunctionOnSet(CoinsOf, SpentOn(a)) + req[r].cost
      BY <2>7, <2>9, <3>1, SumAdd
    <3>3. SumFunctionOnSet(CoinsOf, SpentOn(a)') = SumFunctionOnSet(CoinsOf, M) + Delta(j)
      BY <2>7, <2>9, <3>1, SumAdd
    <3> QED BY <3>2, <3>3
  <2>13. /\ Clean' => Clean
         /\ SumFunctionOnSet(CoinsOf, SpentOn(a)) \in Int /\ SumFunctionOnSet(CoinsOf, SpentOn(a)') \in Int
    <3>1. SumFunctionOnSet(CoinsOf, SpentOn(a)) \in Int
      BY <2>8, SameSum DEF LedgerInv
    <3> QED BY <1>2, <1>3, <2>12, <3>1 DEF Clean
  <2>14. ASSUME Clean', NEW b \in Accounts
         PROVE  /\ reserved'[b] = SumFunctionOnSet(CoinsOf', HeldOn(b)')
                /\ used'[b] >= SumFunctionOnSet(CoinsOf', SpentOn(b)')
                /\ GaveBackMore(b)' \/ used'[b] = SumFunctionOnSet(CoinsOf', SpentOn(b)')
    <3>1. /\ reserved[b] = SumFunctionOnSet(CoinsOf, HeldOn(b))
          /\ used[b] >= SumFunctionOnSet(CoinsOf, SpentOn(b))
          /\ GaveBackMore(b) \/ used[b] = SumFunctionOnSet(CoinsOf, SpentOn(b))
      BY <2>13, <2>14 DEF LedgerInv, BooksInv, Booked, CoinsOf
    <3>2. GaveBackMore(b) => GaveBackMore(b)'
      BY <1>2, GivenBackForGood
    <3>3. CASE b = a
      <4> DEFINE spent == SumFunctionOnSet(CoinsOf, SpentOn(a)')
      <4>1. reserved'[a] = NonNegative(reserved[a] - req[r].cost) /\ used'[a] = NonNegative(used[a] + req[r].cost + Delta(j))
        BY <1>2, <1>3
      <4>2. reserved[a] - req[r].cost = SumFunctionOnSet(CoinsOf, HeldOn(a)')
        BY <1>3, <2>10, <2>11, <3>1, <3>3
      <4>3. reserved'[a] = SumFunctionOnSet(CoinsOf, HeldOn(a)')
        BY <1>3, <2>11, <4>1, <4>2 DEF NonNegative
      <4>4. used'[a] >= spent
        <5>1. used[a] + req[r].cost + Delta(j) >= spent /\ used[a] + req[r].cost + Delta(j) \in Int /\ spent \in Int
          BY <1>3, <2>12, <2>13, <3>1, <3>3
        <5> HIDE DEF spent
        <5> QED BY <4>1, <5>1 DEF NonNegative
      <4>5. GaveBackMore(a)' \/ used'[a] = spent
        <5>1. CASE req[r].cost + Delta(j) < 0
          <6>1. y \in LedgerOn(a)' /\ req'[y.res] = req[r] /\ y.coins = Delta(j)
            BY <1>1, <1>2, <1>5 DEF LedgerOn
          <6> QED BY <1>5, <5>1, <6>1 DEF GaveBackMore
        <5>2. CASE GaveBackMore(a)
          BY <3>2, <3>3, <5>2
        <5>3. CASE ~GaveBackMore(a) /\ req[r].cost + Delta(j) >= 0
          <6>1. used[a] + req[r].cost + Delta(j) = spent /\ used[a] + req[r].cost + Delta(j) >= 0
            BY <1>3, <2>12, <3>1, <3>3, <5>3
          <6> HIDE DEF spent
          <6> QED BY <1>3, <4>1, <6>1 DEF NonNegative
        <5> QED BY <1>3, <5>1, <5>2, <5>3
      <4> QED BY <2>8, <3>3, <4>3, <4>4, <4>5
    <3>4. CASE b # a
      BY <1>2, <1>3, <2>4, <2>8, <3>1, <3>2, <3>4
    <3> QED BY <3>3, <3>4
  <2> QED BY <2>14 DEF BooksInv, Booked, CoinsOf
<1> QED BY <1>8, <1>9, <1>10 DEF LedgerInv

(* A handler that stops takes the document out of step for good. *)
LEMMA AbortBooks ==
  ASSUME IInv, LedgerInv, NEW h \in Handlers, Abort(h)
  PROVE  LedgerInv'
<1>1. /\ pc[h] # "approved" /\ \A g \in Handlers : pc'[g] = IF g = h THEN "failed" ELSE pc[g]
      /\ UNCHANGED <<ledger, reserved, used, msg, req, acct, evt, charged>>
  BY DEF Abort, Goto, redis, books, ReserverDone, IInv, TypeOK
<1>2. ~Clean'
  BY <1>1 DEF Clean
<1>3. EntryInv'
  <2>1. \A s : HasReserve(s)' <=> HasReserve(s)
    BY <1>1 DEF HasReserve
  <2>2. \A s \in Reservers : pc'[s] = pc[s] \/ (pc'[s] = "failed" /\ pc[s] # "approved")
    BY <1>1
  <2>3. \A x \in ledger : x.res \in Reservers
    BY DEF IInv, TypeOK
  <2>4. \A e \in Events : msg'[e] # None => pc'[msg'[e].res] = "approved"
    BY <1>1, <2>2 DEF LedgerInv, EntryInv, IInv, TypeOK
  <2> QED BY <1>1, <2>1, <2>2, <2>3, <2>4 DEF LedgerInv, EntryInv
<1>4. \A j \in Adjusters : Res(j)' = Res(j) /\ Delta(j)' = Delta(j) /\ (pc'[j] = "balance" => pc[j] = "balance")
  BY <1>1 DEF Res, Delta
<1>5. WriterInv'
  BY <1>1, <1>4 DEF LedgerInv, WriterInv
<1> QED BY <1>2, <1>3, <1>5 DEF LedgerInv, BooksInv

(* One step per action: four write to the books, the others do not. *)
LEMMA NextLedger == IInv /\ LedgerInv /\ [Next]_vars => LedgerInv'
<1> SUFFICES ASSUME IInv, LedgerInv, [Next]_vars PROVE LedgerInv'
  OBVIOUS
<1> USE DEF redis, Goto
<1>1. ASSUME NEW r \in Reservers, NEW q \in Requests, ReceiveReserve(r, q) PROVE LedgerInv'
  <2>1. /\ UNCHANGED <<books, msg, acct, evt>> /\ pc[r] = "idle" /\ r \notin charged
        /\ \A s \in charged : req'[s] = req[s]
    BY <1>1 DEF ReceiveReserve, IInv, TypeOK, ReserverInv
  <2>2. \A h \in Handlers : h # r => pc'[h] = pc[h]
    BY <1>1 DEF ReceiveReserve, IInv, TypeOK
  <2>3. pc'[r] # "approved"
    BY <1>1 DEF ReceiveReserve, IInv, TypeOK
  <2> QED BY <2>1, <2>2, <2>3, SameBooks
<1>2. ASSUME NEW r \in Reservers,
             FindPlan(r) \/ GetEntitlement(r) \/ OpenAccount(r) \/ Charge(r) \/ NoCharge(r)
      PROVE  LedgerInv'
  <2>1. /\ UNCHANGED <<books, msg, req, evt>> /\ pc[r] \in {"plan", "entitlement", "init", "reserve"}
    BY <1>2 DEF FindPlan, GetEntitlement, OpenAccount, Charge, NoCharge
  <2>2. \A s \in charged : acct'[s] = acct[s]
    BY <1>2, <2>1 DEF FindPlan, GetEntitlement, OpenAccount, Charge, NoCharge, IInv, TypeOK, ReserverInv
  <2>3. \A h \in Handlers : h # r => pc'[h] = pc[h]
    BY <1>2 DEF FindPlan, GetEntitlement, OpenAccount, Charge, NoCharge, IInv, TypeOK
  <2>4. pc'[r] # "approved"
    BY <1>2 DEF FindPlan, GetEntitlement, OpenAccount, Charge, NoCharge, IInv, TypeOK
  <2> QED BY <2>1, <2>2, <2>3, <2>4, SameBooks
<1>3. ASSUME NEW e \in Events, NEW r \in Reservers, EmitAdjust(e, r) PROVE LedgerInv'
  <2>1. /\ UNCHANGED <<books, pc, req, acct, evt>> /\ msg[e] = None /\ msg'[e].res = r
        /\ pc[r] = "approved" /\ \A f \in Events : f # e => msg'[f] = msg[f]
    BY <1>3 DEF EmitAdjust, IInv, TypeOK
  <2> QED BY <2>1, SameBooks
<1>4. ASSUME NEW j \in Adjusters, NEW e \in Events, ReceiveAdjust(j, e) PROVE LedgerInv'
  <2>1. /\ UNCHANGED <<books, msg, req, acct>> /\ pc[j] = "idle" /\ pc'[j] = "lookup"
        /\ \A h \in Handlers : h # j => pc'[h] = pc[h]
        /\ \A i \in Adjusters : i # j => evt'[i] = evt[i]
    BY <1>4 DEF ReceiveAdjust, IInv, TypeOK
  <2> QED BY <2>1, SameBooks
<1>5. ASSUME NEW j \in Adjusters, CheckLedger(j) \/ ApplyDelta(j) \/ RefuseDelta(j) PROVE LedgerInv'
  <2>1. /\ UNCHANGED <<books, msg, req, acct, evt>> /\ pc[j] \in {"lookup", "delta"}
        /\ \A h \in Handlers : h # j => pc'[h] = pc[h]
    BY <1>5 DEF CheckLedger, ApplyDelta, RefuseDelta, IInv, TypeOK
  <2>2. pc'[j] # "balance"
    BY <1>5 DEF CheckLedger, ApplyDelta, RefuseDelta, IInv, TypeOK
  <2> QED BY <2>1, <2>2, SameBooks
<1>6. ASSUME NEW t \in Teams, Unsubscribe(t) PROVE LedgerInv'
  BY <1>6, SameBooks DEF Unsubscribe
<1>7. CASE UNCHANGED vars
  BY <1>7, SameBooks DEF vars
<1> QED
  BY <1>1, <1>2, <1>3, <1>4, <1>5, <1>6, <1>7,
     WriteReserveBooks, UpsertReserveBooks, WriteAdjustBooks, UpsertAdjustBooks, AbortBooks
  DEF Next, ReserveStep, AdjustStep

(* Whatever order the handlers' writes took, once they have all finished the *)
(* balance document is what the ledger adds up to.                           *)
THEOREM BooksAgree == Spec => []BooksMatchLedger
<1>1. IInv /\ LedgerInv => BooksMatchLedger
  <2> SUFFICES ASSUME IInv, LedgerInv, Quiet, NEW a \in Accounts
               PROVE  /\ reserved[a] = Booked(OpenReserves(a))
                      /\ used[a] >= Booked(SettledEntries(a))
                      /\ GaveBackMore(a) \/ used[a] = Booked(SettledEntries(a))
    BY DEF BooksMatchLedger
  <2>1. Clean /\ \A r : ~Unbooked(r)
    BY DEF Quiet, Clean, Unbooked, ReserverDone, AdjusterDone
  <2>2. \A x \in ledger : x.type = "RESERVE" => pc[x.res] = "approved"
    BY DEF LedgerInv, EntryInv, IInv, TypeOK, Quiet, ReserverDone, AdjusterDone
  <2>3. HeldOn(a) = OpenReserves(a) /\ SpentOn(a) = SettledEntries(a)
    BY <2>1, <2>2 DEF HeldOn, SpentOn, OpenReserves, SettledEntries, LedgerOn
  <2> QED BY <2>1, <2>3 DEF LedgerInv, BooksInv
<1> QED BY <1>1, InitLedger, NextLedger, Inductive, PTL DEF Spec
=============================================================================
