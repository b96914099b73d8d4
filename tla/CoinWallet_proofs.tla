--------------------------- MODULE CoinWallet_proofs ---------------------------
(***************************************************************************)
(* The safety of the coin accounting service for any number of teams,      *)
(* users, requests, handlers and events: types, no double charge, bounded  *)
(* debt, and a ledger that adjustments and Redis agree with.               *)
(***************************************************************************)
EXTENDS CoinWallet, TLAPS

HasReserve(r) == \E x \in ledger : x.res = r /\ x.type = "RESERVE"

(* What a reserver's program counter says about its locals, Redis and Mongo. *)
ReserverInv ==
  \A r \in Reservers :
    /\ pc[r] # "idle" => req[r] \in Requests
    /\ pc[r] \in {"init", "reserve", "ledger", "balance", "approved"} => acct[r] \in Accounts
    /\ pc[r] \in {"idle", "plan", "entitlement", "init", "reserve"} => r \notin charged
    /\ pc[r] \in {"ledger", "balance", "approved"} => r \in charged
    /\ pc[r] \in {"balance", "approved"} => HasReserve(r)

(* A charge has put its key among the seen ones, under which nobody else is  *)
(* charged, and has left a request and an account behind.                    *)
ChargeInv ==
  \A r \in charged : pc[r] # "idle" /\ acct[r] \in Accounts /\ req[r].key \in idemp

(* A message in flight settles a reservation that the ledger holds. *)
MessageInv ==
  /\ \A e \in Events : msg[e] # None =>
       /\ msg[e].res \in charged /\ HasReserve(msg[e].res)
       /\ \E q \in Requests : msg[e].delta \in (-q.cost)..MaxOverrun
  /\ \A e \in events : msg[e] # None
  /\ \A j \in Adjusters :
       /\ pc[j] # "idle" => evt[j] \in Events /\ msg[evt[j]] # None
       /\ pc[j] \in {"ledger", "balance"} => evt[j] \in events
       /\ pc[j] # "unknown"

IInv ==
  /\ TypeOK
  /\ ReserverInv
  /\ ChargeInv
  /\ NoDoubleCharge
  /\ DebtBounded
  /\ MessageInv
  /\ LedgerBacked

USE WalletAssumption, MissingAssumption
USE DEF Accounts, Handlers

(* Nothing has been charged, written or sent when the service starts. *)
LEMMA InitIInv == Init => IInv
BY DEF Init, IInv, TypeOK, ReserverInv, ChargeInv, NoDoubleCharge, DebtBounded, MessageInv,
       LedgerBacked, ReserverDone, AdjusterDone, HasReserve

(* No step of any handler breaks the invariant: one step per action, and     *)
(* under it one per conjunct the action can disturb.                        *)
LEMMA NextIInv == IInv /\ [Next]_vars => IInv'
<1> SUFFICES ASSUME IInv, [Next]_vars PROVE IInv'
  OBVIOUS
<1> USE DEF IInv, redis, books, Goto
<1>1. ASSUME NEW r \in Reservers, NEW q \in Requests, ReceiveReserve(r, q) PROVE IInv'
  <2>1. TypeOK'
    BY <1>1 DEF ReceiveReserve, TypeOK, ReserverDone
  <2>2. ReserverInv'
    BY <1>1 DEF ReceiveReserve, TypeOK, ReserverInv, HasReserve
  <2>3. ChargeInv'
    BY <1>1 DEF ReceiveReserve, ChargeInv
  <2>4. NoDoubleCharge'
    BY <1>1 DEF ReceiveReserve, ReserverInv, NoDoubleCharge
  <2>5. MessageInv'
    BY <1>1 DEF ReceiveReserve, TypeOK, ReserverInv, MessageInv, HasReserve
  <2>6. DebtBounded' /\ LedgerBacked'
    BY <1>1 DEF ReceiveReserve, DebtBounded, LedgerBacked
  <2> QED BY <2>1, <2>2, <2>3, <2>4, <2>5, <2>6
<1>2. ASSUME NEW r \in Reservers, FindPlan(r) PROVE IInv'
  <2>1. TypeOK'
    BY <1>2 DEF FindPlan, TypeOK, ReserverInv, ReserverDone
  <2>2. ReserverInv'
    BY <1>2 DEF FindPlan, TypeOK, ReserverInv, HasReserve
  <2>3. ChargeInv'
    BY <1>2 DEF FindPlan, TypeOK, ReserverInv, ChargeInv
  <2>4. MessageInv'
    BY <1>2 DEF FindPlan, TypeOK, MessageInv, HasReserve
  <2>5. NoDoubleCharge' /\ DebtBounded' /\ LedgerBacked'
    BY <1>2 DEF FindPlan, NoDoubleCharge, DebtBounded, LedgerBacked
  <2> QED BY <2>1, <2>2, <2>3, <2>4, <2>5
<1>3. ASSUME NEW r \in Reservers, GetEntitlement(r) PROVE IInv'
  <2>1. TypeOK'
    BY <1>3 DEF GetEntitlement, TypeOK, ReserverDone
  <2>2. ReserverInv'
    BY <1>3 DEF GetEntitlement, TypeOK, ReserverInv, HasReserve
  <2>3. ChargeInv'
    BY <1>3 DEF GetEntitlement, TypeOK, ChargeInv
  <2>4. MessageInv'
    BY <1>3 DEF GetEntitlement, TypeOK, MessageInv, HasReserve
  <2>5. NoDoubleCharge' /\ DebtBounded' /\ LedgerBacked'
    BY <1>3 DEF GetEntitlement, NoDoubleCharge, DebtBounded, LedgerBacked
  <2> QED BY <2>1, <2>2, <2>3, <2>4, <2>5
<1>4. ASSUME NEW r \in Reservers, OpenAccount(r) PROVE IInv'
  <2>1. TypeOK'
    BY <1>4 DEF OpenAccount, InitRemainingIfMissing, TypeOK, ReserverInv
  <2>2. ReserverInv'
    BY <1>4 DEF OpenAccount, ReserverInv, HasReserve
  <2>3. ChargeInv'
    BY <1>4 DEF OpenAccount, ChargeInv
  <2>4. DebtBounded'
    BY <1>4 DEF OpenAccount, InitRemainingIfMissing, DebtBounded
  <2>5. MessageInv'
    BY <1>4 DEF OpenAccount, MessageInv, HasReserve
  <2>6. NoDoubleCharge' /\ LedgerBacked'
    BY <1>4 DEF OpenAccount, NoDoubleCharge, LedgerBacked
  <2> QED BY <2>1, <2>2, <2>3, <2>4, <2>5, <2>6
<1>5. ASSUME NEW r \in Reservers, Charge(r) PROVE IInv'
  <2>1. TypeOK'
    BY <1>5 DEF Charge, Verdict, ReserveIfEnough, TypeOK, ReserverInv
  <2>2. ReserverInv'
    BY <1>5 DEF Charge, TypeOK, ReserverInv, HasReserve
  <2>3. ChargeInv'
    BY <1>5 DEF Charge, ReserverInv, ChargeInv
  <2>4. NoDoubleCharge'
    BY <1>5 DEF Charge, Verdict, ReserveIfEnough, ChargeInv, NoDoubleCharge
  <2>5. DebtBounded'
    BY <1>5 DEF Charge, Verdict, ReserveIfEnough, TypeOK, ReserverInv, DebtBounded
  <2>6. MessageInv'
    BY <1>5 DEF Charge, MessageInv, HasReserve
  <2>7. LedgerBacked'
    BY <1>5 DEF Charge, LedgerBacked
  <2> QED BY <2>1, <2>2, <2>3, <2>4, <2>5, <2>6, <2>7
<1>6. ASSUME NEW r \in Reservers, NoCharge(r) PROVE IInv'
  <2>1. TypeOK'
    BY <1>6 DEF NoCharge, TypeOK, ReserverInv, ReserverDone
  <2>2. ReserverInv'
    BY <1>6 DEF NoCharge, TypeOK, ReserverInv, HasReserve
  <2>3. ChargeInv'
    BY <1>6 DEF NoCharge, TypeOK, ReserverInv, ChargeInv
  <2>4. MessageInv'
    BY <1>6 DEF NoCharge, TypeOK, MessageInv, HasReserve
  <2>5. NoDoubleCharge' /\ DebtBounded' /\ LedgerBacked'
    BY <1>6 DEF NoCharge, NoDoubleCharge, DebtBounded, LedgerBacked
  <2> QED BY <2>1, <2>2, <2>3, <2>4, <2>5
<1>7. ASSUME NEW r \in Reservers, WriteReserve(r) PROVE IInv'
  <2>1. TypeOK'
    BY <1>7 DEF WriteReserve, Entry, TypeOK, ReserverInv
  <2>2. ReserverInv'
    <3>1. \A s \in Reservers : HasReserve(s) => HasReserve(s)'
      BY <1>7 DEF WriteReserve, HasReserve
    <3>2. Entry("RESERVE", r, None, req[r].cost) \in ledger'
      BY <1>7 DEF WriteReserve
    <3>3. HasReserve(r)'
      BY <3>2 DEF HasReserve, Entry
    <3>4. pc' = [pc EXCEPT ![r] = "balance"] /\ UNCHANGED <<req, acct, charged>> /\ pc[r] = "ledger"
      BY <1>7 DEF WriteReserve
    <3> QED BY <3>1, <3>3, <3>4 DEF TypeOK, ReserverInv
  <2>3. ChargeInv'
    BY <1>7 DEF WriteReserve, ChargeInv
  <2>4. MessageInv'
    BY <1>7 DEF WriteReserve, MessageInv, HasReserve
  <2>5. LedgerBacked'
    BY <1>7 DEF WriteReserve, Entry, ReserverInv, LedgerBacked
  <2>6. NoDoubleCharge' /\ DebtBounded'
    BY <1>7 DEF WriteReserve, NoDoubleCharge, DebtBounded
  <2> QED BY <2>1, <2>2, <2>3, <2>4, <2>5, <2>6
<1>8. ASSUME NEW r \in Reservers, UpsertReserve(r) PROVE IInv'
  <2>1. TypeOK'
    BY <1>8 DEF UpsertReserve, TypeOK, ReserverInv, ReserverDone
  <2>2. ReserverInv'
    BY <1>8 DEF UpsertReserve, ReserverInv, HasReserve
  <2>3. ChargeInv'
    BY <1>8 DEF UpsertReserve, ChargeInv
  <2>4. MessageInv'
    BY <1>8 DEF UpsertReserve, MessageInv, HasReserve
  <2>5. NoDoubleCharge' /\ DebtBounded' /\ LedgerBacked'
    BY <1>8 DEF UpsertReserve, NoDoubleCharge, DebtBounded, LedgerBacked
  <2> QED BY <2>1, <2>2, <2>3, <2>4, <2>5
<1>9. ASSUME NEW e \in Events, NEW r \in Reservers, EmitAdjust(e, r) PROVE IInv'
  <2>1. TypeOK'
    BY <1>9 DEF EmitAdjust, TypeOK
  <2>2. MessageInv'
    BY <1>9 DEF EmitAdjust, ReserverInv, MessageInv, HasReserve
  <2>3. ReserverInv' /\ ChargeInv' /\ NoDoubleCharge' /\ DebtBounded' /\ LedgerBacked'
    BY <1>9 DEF EmitAdjust, ReserverInv, ChargeInv, NoDoubleCharge, DebtBounded, LedgerBacked, HasReserve
  <2> QED BY <2>1, <2>2, <2>3
<1>10. ASSUME NEW j \in Adjusters, NEW e \in Events, ReceiveAdjust(j, e) PROVE IInv'
  <2>1. TypeOK'
    BY <1>10 DEF ReceiveAdjust, TypeOK
  <2>2. ReserverInv'
    BY <1>10 DEF ReceiveAdjust, ReserverInv, HasReserve
  <2>3. ChargeInv'
    BY <1>10 DEF ReceiveAdjust, ChargeInv
  <2>4. MessageInv'
    BY <1>10 DEF ReceiveAdjust, TypeOK, MessageInv, HasReserve
  <2>5. NoDoubleCharge' /\ DebtBounded' /\ LedgerBacked'
    BY <1>10 DEF ReceiveAdjust, NoDoubleCharge, DebtBounded, LedgerBacked
  <2> QED BY <2>1, <2>2, <2>3, <2>4, <2>5
<1>11. ASSUME NEW j \in Adjusters, CheckLedger(j) PROVE IInv'
  <2>1. TypeOK'
    BY <1>11 DEF CheckLedger, TypeOK, AdjusterDone
  <2>2. ReserverInv'
    BY <1>11 DEF CheckLedger, ReserverInv, HasReserve
  <2>3. ChargeInv'
    BY <1>11 DEF CheckLedger, ChargeInv
  <2>4. MessageInv'
    BY <1>11 DEF CheckLedger, Res, EntriesOf, MessageInv, HasReserve
  <2>5. NoDoubleCharge' /\ DebtBounded' /\ LedgerBacked'
    BY <1>11 DEF CheckLedger, NoDoubleCharge, DebtBounded, LedgerBacked
  <2> QED BY <2>1, <2>2, <2>3, <2>4, <2>5
<1>12. ASSUME NEW j \in Adjusters, ApplyDelta(j) PROVE IInv'
  <2>1. TypeOK'
    <3>1. /\ acct[Res(j)] \in Accounts /\ Delta(j) \in Int /\ evt[j] \in Events
      BY <1>12 DEF ApplyDelta, Res, Delta, TypeOK, MessageInv, ChargeInv
    <3>2. remaining[acct[Res(j)]] \in Int
      BY <1>12, <3>1 DEF ApplyDelta, DeltaVerdict, ApplyDeltaIdempotent, TypeOK
    <3> QED BY <1>12, <3>1, <3>2 DEF ApplyDelta, TypeOK
  <2>2. ReserverInv'
    BY <1>12 DEF ApplyDelta, ReserverInv, HasReserve
  <2>3. ChargeInv'
    BY <1>12 DEF ApplyDelta, ChargeInv
  <2>4. DebtBounded'
    BY <1>12 DEF ApplyDelta, Delta, DeltaVerdict, ApplyDeltaIdempotent, TypeOK, MessageInv, DebtBounded
  <2>5. MessageInv'
    BY <1>12 DEF ApplyDelta, MessageInv, HasReserve
  <2>6. LedgerBacked'
    BY <1>12 DEF ApplyDelta, LedgerBacked
  <2>7. NoDoubleCharge'
    BY <1>12 DEF ApplyDelta, NoDoubleCharge
  <2> QED BY <2>1, <2>2, <2>3, <2>4, <2>5, <2>6, <2>7
<1>13. ASSUME NEW j \in Adjusters, RefuseDelta(j) PROVE IInv'
  <2>1. TypeOK'
    BY <1>13 DEF RefuseDelta, TypeOK, AdjusterDone
  <2>2. ReserverInv'
    BY <1>13 DEF RefuseDelta, ReserverInv, HasReserve
  <2>3. ChargeInv'
    BY <1>13 DEF RefuseDelta, ChargeInv
  <2>4. MessageInv'
    BY <1>13 DEF RefuseDelta, MessageInv, HasReserve
  <2>5. NoDoubleCharge' /\ DebtBounded' /\ LedgerBacked'
    BY <1>13 DEF RefuseDelta, NoDoubleCharge, DebtBounded, LedgerBacked
  <2> QED BY <2>1, <2>2, <2>3, <2>4, <2>5
<1>14. ASSUME NEW j \in Adjusters, WriteAdjust(j) PROVE IInv'
  <2>1. TypeOK'
    BY <1>14 DEF WriteAdjust, Entry, Res, Delta, TypeOK, MessageInv, AdjusterDone
  <2>2. ReserverInv'
    BY <1>14 DEF WriteAdjust, TypeOK, ReserverInv, HasReserve
  <2>3. ChargeInv'
    BY <1>14 DEF WriteAdjust, TypeOK, ChargeInv
  <2>4. MessageInv'
    BY <1>14 DEF WriteAdjust, TypeOK, MessageInv, HasReserve
  <2>5. LedgerBacked'
    BY <1>14 DEF WriteAdjust, Entry, Res, MessageInv, LedgerBacked
  <2>6. NoDoubleCharge' /\ DebtBounded'
    BY <1>14 DEF WriteAdjust, NoDoubleCharge, DebtBounded
  <2> QED BY <2>1, <2>2, <2>3, <2>4, <2>5, <2>6
<1>15. ASSUME NEW j \in Adjusters, UpsertAdjust(j) PROVE IInv'
  <2>1. TypeOK'
    <3>1. /\ acct[Res(j)] \in Accounts /\ req[Res(j)].cost \in Nat
          /\ Delta(j) \in Int /\ pc[j] = "balance"
      BY <1>15 DEF UpsertAdjust, Res, Delta, TypeOK, MessageInv, ChargeInv, ReserverInv
    <3>2. reserved' \in [Accounts -> Nat] /\ used' \in [Accounts -> Nat]
      BY <1>15, <3>1 DEF UpsertAdjust, NonNegative, TypeOK
    <3>3. UNCHANGED <<subscribed, remaining, idemp, events, ledger, msg, req, acct, evt, charged>>
      BY <1>15 DEF UpsertAdjust
    <3>4. pc' = [pc EXCEPT ![j] = "settled"]
      BY <1>15 DEF UpsertAdjust
    <3> QED BY <3>2, <3>3, <3>4 DEF TypeOK, AdjusterDone
  <2>2. ReserverInv'
    BY <1>15 DEF UpsertAdjust, ReserverInv, HasReserve
  <2>3. ChargeInv'
    BY <1>15 DEF UpsertAdjust, ChargeInv
  <2>4. MessageInv'
    BY <1>15 DEF UpsertAdjust, MessageInv, HasReserve
  <2>5. NoDoubleCharge' /\ DebtBounded' /\ LedgerBacked'
    BY <1>15 DEF UpsertAdjust, NoDoubleCharge, DebtBounded, LedgerBacked
  <2> QED BY <2>1, <2>2, <2>3, <2>4, <2>5
<1>16. ASSUME NEW h \in Handlers, Abort(h) PROVE IInv'
  <2>1. TypeOK'
    BY <1>16 DEF Abort, TypeOK, ReserverDone
  <2>2. ReserverInv'
    BY <1>16 DEF Abort, ReserverInv, HasReserve
  <2>3. ChargeInv'
    BY <1>16 DEF Abort, ChargeInv
  <2>4. MessageInv'
    BY <1>16 DEF Abort, MessageInv, HasReserve
  <2>5. NoDoubleCharge' /\ DebtBounded' /\ LedgerBacked'
    BY <1>16 DEF Abort, NoDoubleCharge, DebtBounded, LedgerBacked
  <2> QED BY <2>1, <2>2, <2>3, <2>4, <2>5
<1>17. ASSUME NEW t \in Teams, Unsubscribe(t) PROVE IInv'
  <2>1. TypeOK'
    BY <1>17 DEF Unsubscribe, TypeOK
  <2>2. ReserverInv' /\ ChargeInv' /\ NoDoubleCharge' /\ DebtBounded' /\ MessageInv' /\ LedgerBacked'
    BY <1>17 DEF Unsubscribe, ReserverInv, ChargeInv, NoDoubleCharge, DebtBounded, MessageInv, LedgerBacked, HasReserve
  <2> QED BY <2>1, <2>2
<1>0. CASE UNCHANGED vars
  BY <1>0 DEF vars, TypeOK, ReserverInv, ChargeInv, NoDoubleCharge, DebtBounded, MessageInv, LedgerBacked, HasReserve
<1> QED
  BY <1>0, <1>1, <1>2, <1>3, <1>4, <1>5, <1>6, <1>7, <1>8, <1>9, <1>10, <1>11, <1>12, <1>13, <1>14, <1>15, <1>16, <1>17 DEF Next, ReserveStep, AdjustStep

(* IInv is an invariant of the service. *)
THEOREM Inductive == Spec => []IInv
BY InitIInv, NextIInv, PTL DEF Spec

(* Type correctness of Redis, Mongo and every handler's locals. *)
THEOREM TypeCorrect == Spec => []TypeOK
<1>1. IInv => TypeOK BY DEF IInv
<1> QED BY <1>1, Inductive, PTL

(* One idempotency key takes coins once, whatever number of retries race.    *)
THEOREM ChargedOnce == Spec => []NoDoubleCharge
<1>1. IInv => NoDoubleCharge BY DEF IInv
<1> QED BY <1>1, Inductive, PTL

(* No balance is ever deeper in debt than one session can overrun. *)
THEOREM DebtIsBounded == Spec => []DebtBounded
<1>1. IInv => DebtBounded BY DEF IInv
<1> QED BY <1>1, Inductive, PTL

(* Every reservation id that was handed out can be settled. *)
THEOREM AdjustsFindTheirReserve == Spec => []NoOrphanAdjust
<1>1. IInv => NoOrphanAdjust
  BY DEF IInv, ReserverInv, MessageInv, NoOrphanAdjust, HasReserve, EntriesOf
<1> QED BY <1>1, Inductive, PTL

(* Mongo's ledger holds nothing that Redis did not do. *)
THEOREM LedgerFollowsRedis == Spec => []LedgerBacked
<1>1. IInv => LedgerBacked BY DEF IInv
<1> QED BY <1>1, Inductive, PTL

-----------------------------------------------------------------------------
(* Refinement: each step of a handler is a step of the abstract account or   *)
(* leaves it as it is.  Only the three Redis scripts are steps of it.        *)

(* Opening an account is Open, or nothing if it is open. *)
LEMMA OpenRefines ==
  ASSUME IInv, NEW r \in Reservers, OpenAccount(r)
  PROVE  Account!Next \/ UNCHANGED Account!vars
<1>1. acct[r] \in Accounts /\ remaining \in [Accounts -> Int \cup {Missing}]
  BY DEF OpenAccount, IInv, TypeOK, ReserverInv
<1>2. UNCHANGED <<charged, acct, req, events, msg>>
  BY DEF OpenAccount
<1>3. CASE remaining[acct[r]] = Missing
  <2>1. Account!Open(acct[r])
    BY <1>1, <1>2, <1>3 DEF OpenAccount, InitRemainingIfMissing, Account!Open
  <2> QED BY <1>1, <2>1 DEF Account!Next
<1>4. CASE remaining[acct[r]] # Missing
  BY <1>2, <1>4 DEF OpenAccount, InitRemainingIfMissing, Account!vars
<1> QED BY <1>3, <1>4

(* A charge is Take. *)
LEMMA ChargeRefines ==
  ASSUME IInv, NEW r \in Reservers, Charge(r)
  PROVE  Account!Next
<1>1. /\ acct[r] \in Accounts /\ req[r] \in Requests /\ r \notin charged
      /\ \A s \in charged : req[s].key # req[r].key
  BY DEF Charge, Verdict, ReserveIfEnough, IInv, ReserverInv, ChargeInv
<1>2. /\ remaining[acct[r]] # Missing /\ remaining[acct[r]] >= req[r].cost
      /\ remaining' = [remaining EXCEPT ![acct[r]] = @ - req[r].cost]
      /\ charged' = charged \cup {r} /\ UNCHANGED <<acct, req, events, msg>>
  BY <1>1 DEF Charge, Verdict, ReserveIfEnough, IInv, TypeOK
<1>3. PICK a \in Accounts, key \in {q.key : q \in Requests}, cost \in {q.cost : q \in Requests} :
        a = acct[r] /\ key = req[r].key /\ cost = req[r].cost
  BY <1>1
<1>4. Account!Take(r, a, key, cost)
  BY <1>1, <1>2, <1>3 DEF Account!Take
<1> QED BY <1>4 DEF Account!Next

(* An applied delta is Settle. *)
LEMMA DeltaRefines ==
  ASSUME IInv, NEW j \in Adjusters, ApplyDelta(j)
  PROVE  Account!Next
<1> DEFINE charge == [r \in Reservers |->
             IF r \in charged
               THEN [account |-> acct[r], key |-> req[r].key, cost |-> req[r].cost] ELSE None]
<1>1. /\ evt[j] \in Events /\ msg[evt[j]] \in [res : Reservers, delta : Int]
      /\ Res(j) \in charged /\ req[Res(j)] \in Requests /\ acct[Res(j)] \in Accounts
      /\ \E q \in Requests : Delta(j) \in (-q.cost)..MaxOverrun
  BY DEF ApplyDelta, Res, Delta, IInv, TypeOK, MessageInv, ReserverInv, ChargeInv
<1>2. /\ evt[j] \notin events /\ remaining[acct[Res(j)]] # Missing /\ remaining[acct[Res(j)]] >= 0
      /\ remaining' = [remaining EXCEPT ![acct[Res(j)]] = @ - Delta(j)]
      /\ events' = events \cup {evt[j]} /\ UNCHANGED <<acct, req, charged, msg>>
  BY <1>1 DEF ApplyDelta, DeltaVerdict, ApplyDeltaIdempotent, IInv, TypeOK
<1>3. Res(j) \in {d \in Reservers : charge[d] # None}
  BY <1>1 DEF Res
<1>4. PICK s \in Events, c \in {d \in Reservers : charge[d] # None}, delta \in Int :
        s = evt[j] /\ c = Res(j) /\ delta = Delta(j)
  BY <1>1, <1>3 DEF Delta
<1>5. \E estimate \in {q.cost : q \in Requests} : delta \in (-estimate)..MaxOverrun
  BY <1>1, <1>4
<1>6. Account!Settle(s, c, delta)
  BY <1>1, <1>2, <1>4 DEF Account!Settle, Res, Delta
<1> QED BY <1>4, <1>5, <1>6 DEF Account!Next

(* The handlers implement the abstract account: whatever interleaves, is     *)
(* repeated or stops, an account is charged and settled as if in one step.   *)
THEOREM WalletImplementsAccount == Spec => ImplementsAccount
<1>1. Init => Account!Init
  BY DEF Init, Account!Init
<1>2. IInv /\ [Next]_vars => [Account!Next]_(Account!vars)
  <2> SUFFICES ASSUME IInv, [Next]_vars PROVE Account!Next \/ UNCHANGED Account!vars
    OBVIOUS
  <2> USE DEF redis, books, Goto, Account!vars
  <2>1. ASSUME NEW r \in Reservers, NEW q \in Requests, ReceiveReserve(r, q)
        PROVE  UNCHANGED Account!vars
    BY <2>1 DEF ReceiveReserve, IInv, TypeOK, ReserverInv
  <2>2. ASSUME NEW r \in Reservers, FindPlan(r) \/ GetEntitlement(r) \/ NoCharge(r)
        PROVE  UNCHANGED Account!vars
    BY <2>2 DEF FindPlan, GetEntitlement, NoCharge, IInv, TypeOK, ReserverInv
  <2>3. ASSUME NEW r \in Reservers, WriteReserve(r) \/ UpsertReserve(r)
        PROVE  UNCHANGED Account!vars
    BY <2>3 DEF WriteReserve, UpsertReserve
  <2>4. ASSUME NEW e \in Events, NEW r \in Reservers, EmitAdjust(e, r)
        PROVE  UNCHANGED Account!vars
    BY <2>4 DEF EmitAdjust, IInv, TypeOK, MessageInv
  <2>5. ASSUME NEW j \in Adjusters, NEW e \in Events, ReceiveAdjust(j, e)
        PROVE  UNCHANGED Account!vars
    BY <2>5 DEF ReceiveAdjust
  <2>6. ASSUME NEW j \in Adjusters, CheckLedger(j) \/ RefuseDelta(j) \/ WriteAdjust(j) \/ UpsertAdjust(j)
        PROVE  UNCHANGED Account!vars
    BY <2>6 DEF CheckLedger, RefuseDelta, WriteAdjust, UpsertAdjust
  <2>7. ASSUME NEW h \in Handlers, Abort(h) PROVE UNCHANGED Account!vars
    BY <2>7 DEF Abort
  <2>8. ASSUME NEW t \in Teams, Unsubscribe(t) PROVE UNCHANGED Account!vars
    BY <2>8 DEF Unsubscribe
  <2>9. CASE UNCHANGED vars
    BY <2>9 DEF vars
  <2> QED
    BY <2>1, <2>2, <2>3, <2>4, <2>5, <2>6, <2>7, <2>8, <2>9, OpenRefines, ChargeRefines, DeltaRefines
       DEF Next, ReserveStep, AdjustStep
<1> QED BY <1>1, <1>2, Inductive, PTL DEF Spec, Account!Spec, ImplementsAccount
=============================================================================
