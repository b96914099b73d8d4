--------------------------- MODULE CoinPeriods_proofs ---------------------------
(***************************************************************************)
(* Proofs about CoinPeriods: its types, the order of its periods, and the  *)
(* three promises about a period's balance.  They rest on one inductive    *)
(* invariant, which says what each handler's snapshot still has to do with *)
(* the subscription row, and what Redis holds for a period not yet begun.  *)
(***************************************************************************)
EXTENDS CoinPeriods, TLAPS

-----------------------------------------------------------------------------
(* The inductive invariant *)

RowType == [plan : Plans, period : Periods, active : BOOLEAN, cancel : BOOLEAN]
ChargingPcs == {"charge", "book", "running", "bookAdjust"}
UpgradingPcs == {"open", "delta", "row", "record"}
CronPcs == {"idle", "remove", "balance", "open", "debt", "refill", "advance"}

\* What handler h holds in its snapshot r when it is at step `at`.
Fits(h, at, r) ==
  /\ h \in Sessions /\ at \in ChargingPcs => r \in RowType
  /\ h \in Upgraders /\ at \in UpgradingPcs => r \in [row : RowType, plan : Plans]
  /\ h = "creator" /\ at \in {"open", "book"} => r \in RowType /\ r.period = 0
  /\ h = "cron" => at \in CronPcs
  /\ h = "cron" /\ at # "idle" => r \in RowType /\ r.period < MaxPeriod
SnapType ==
  /\ DOMAIN pc = Handlers /\ DOMAIN snap = Handlers
  /\ \A h \in Handlers : Fits(h, pc[h], snap[h])

TypeInv == TypeOK /\ SnapType

\* The row stays as the job found it, as far as its period goes.
CronInv ==
  pc["cron"] # "idle" => sub # None /\ sub.period = OldPeriod /\ PeriodEnd(OldPeriod) <= now

\* Any other handler has a period in hand that the subscription has reached.
Reached(p) == sub # None /\ p <= sub.period
Behind(h, at, r) ==
  /\ h \in Sessions /\ at \in ChargingPcs => Reached(r.period)
  /\ h \in Upgraders /\ at \in UpgradingPcs => Reached(r.row.period)
  /\ h = "creator" /\ at \in {"open", "book"} => Reached(0)
SnapInv == \A h \in Handlers : Behind(h, pc[h], snap[h])

\* A period not yet reached: nobody but the job has touched its balance.
FutureInv ==
  \A p \in Periods : ~Reached(p) =>
    /\ until[<<"refill", p>>] > 0 => remaining[p] # Missing /\ expiry[p] = until[<<"refill", p>>]
    /\ remaining[p] # Missing /\ until[<<"refill", p>>] = 0 => owed[p] = 0 /\ remaining[p] >= 0

TakenInv ==
  /\ \A p \in Periods \ {0} : Reached(p) \/ until[<<"refill", p>>] > 0 => p \in taken
  /\ pc["cron"] = "debt" => remaining[NewPeriod] # Missing
  /\ pc["cron"] \in {"refill", "advance"} => NewPeriod \in taken

\* v is no less than some balance that period p really had, or p was guessed.
Real(v, p) == p \in guessed \/ v >= low[p]
Saw(h, at, r, v) ==
  /\ h \in Sessions /\ at \in {"book", "bookAdjust"} => Real(v, r.period)
  /\ h \in Upgraders /\ at \in {"row", "record"} => Real(v, r.row.period)
  /\ h = "creator" /\ at = "book" => Real(v, 0)
  /\ h = "cron" /\ at \in {"open", "debt"} => Real(v, r.period)
  /\ h = "cron" /\ at \in {"refill", "advance"} => Real(v, r.period + 1)
LowInv ==
  /\ \A p \in Periods : low[p] <= 0 /\ (remaining[p] # Missing => remaining[p] >= low[p])
  /\ \A p \in Periods : mongo[p] # None => Real(mongo[p], p)
  /\ \A h \in Handlers : Saw(h, pc[h], snap[h], val[h])

\* The row's period began no later than now, and what was drawn on lasts.
StartInv == sub # None => PeriodEnd(sub.period) <= now + PeriodLength
DrawnInv ==
  \A p \in drawn : now < PeriodEnd(p) => remaining[p] # Missing /\ expiry[p] >= PeriodEnd(p)

Inv ==
  /\ TypeInv /\ CronInv /\ SnapInv /\ FutureInv /\ TakenInv /\ LowInv
  /\ DebtOnce /\ OpenedBeforeDrawn

-----------------------------------------------------------------------------
(* Periods, events and handlers *)

\* The end of a period is a positive tick.
LEMMA PeriodEndType == ASSUME NEW p \in Nat PROVE PeriodEnd(p) \in Nat \ {0}
BY PeriodsAssumption DEF PeriodEnd

\* The next period ends one length later.
LEMMA PeriodEndNext ==
  ASSUME NEW p \in Nat PROVE PeriodEnd(p + 1) = PeriodEnd(p) + PeriodLength
BY PeriodsAssumption DEF PeriodEnd

\* A later period does not end earlier.
LEMMA PeriodEndMonotone ==
  ASSUME NEW p \in Nat, NEW q \in Nat, p <= q PROVE PeriodEnd(p) <= PeriodEnd(q)
<1> DEFINE d == q - p
<1>1. d \in Nat /\ q + 1 = (p + 1) + d OBVIOUS
<1>2. PeriodLength \in Nat BY PeriodsAssumption
<1>3. (q + 1) * PeriodLength = (p + 1) * PeriodLength + d * PeriodLength
  BY <1>1, <1>2
<1>4. d * PeriodLength >= 0 BY <1>1, <1>2
<1> HIDE DEF d
<1> QED BY <1>1, <1>2, <1>3, <1>4 DEF PeriodEnd

\* Events of rollovers and of upgrades never share an id.
LEMMA Ids ==
  ASSUME NEW p \in Periods
  PROVE  /\ <<"refill", p>> \in EventIds /\ <<"refill", p>>[2] = p
         /\ \A q \in Plans : <<"upgrade", p, q>> \in EventIds
         /\ \A r \in Periods, q \in Plans : <<"refill", p>> # <<"upgrade", r, q>>
         /\ \A r \in Periods : <<"refill", p>> = <<"refill", r>> => p = r
BY DEF EventIds

\* Sessions, upgraders, the creator and the job are different handlers.
LEMMA HandlerKinds ==
  /\ \A s \in Sessions : s \in Handlers /\ s # "creator" /\ s # "cron" /\ s \notin Upgraders
  /\ \A u \in Upgraders : u \in Handlers /\ u # "creator" /\ u # "cron" /\ u \notin Sessions
  /\ "creator" \in Handlers /\ "cron" \in Handlers
BY PeriodsAssumption DEF Handlers

\* Periods are counted from zero without gaps.
LEMMA PeriodFacts ==
  /\ Periods \subseteq Nat /\ 0 \in Periods
  /\ \A p \in Periods : p < MaxPeriod => p + 1 \in Periods
BY PeriodsAssumption DEF Periods

-----------------------------------------------------------------------------
(* Types *)

BalanceType ==
  /\ remaining \in [Periods -> Int \cup {Missing}] /\ expiry \in [Periods -> Nat]
  /\ \A p \in Periods : remaining[p] = Missing <=> expiry[p] = 0
HistType ==
  /\ low \in [Periods -> Int] /\ owed \in [Periods -> Nat]
  /\ drawn \subseteq Periods /\ taken \subseteq Periods /\ guessed \subseteq Periods
RowTyped == now \in 0..MaxTime /\ sub \in RowType \cup {None}
BooksType == until \in [EventIds -> Nat] /\ mongo \in [Periods -> Int \cup {None}]
LocalsType == val \in [Handlers -> Int] /\ faults \in 0..MaxFaults /\ edits \in 0..MaxEdits

\* TypeOK in five parts, so that a step is shown to keep those it touches.
LEMMA TypeParts ==
  TypeOK <=> BalanceType /\ HistType /\ RowTyped /\ BooksType /\ LocalsType
BY DEF TypeOK, BalanceType, HistType, RowTyped, BooksType, LocalsType, RowType

\* The same parts for the next state.
LEMMA TypePartsNext ==
  TypeOK' <=> BalanceType' /\ HistType' /\ RowTyped' /\ BooksType' /\ LocalsType'
BY DEF TypeOK, BalanceType, HistType, RowTyped, BooksType, LocalsType, RowType

\* An expiry is never set to a time before the one asked for.
LEMMA UntilType ==
  ASSUME RowTyped, NEW t \in Nat \ {0} PROVE Until(t) \in Nat \ {0} /\ Until(t) >= t
BY DEF RowTyped, Until, Larger

\* SET with an expiry keeps the types of the balances.
LEMMA StoreType ==
  ASSUME BalanceType, HistType, NEW p \in Periods, NEW v \in Int, NEW t \in Nat \ {0}, Store(p, v, t)
  PROVE  BalanceType' /\ low' \in [Periods -> Int]
<1>1. /\ remaining' = [remaining EXCEPT ![p] = v] /\ expiry' = [expiry EXCEPT ![p] = t]
      /\ low' = [low EXCEPT ![p] = Smaller(@, v)]
  BY DEF Store
<1>2. v # Missing BY MissingAssumption
<1>3. remaining' \in [Periods -> Int \cup {Missing}] /\ expiry' \in [Periods -> Nat]
  BY <1>1 DEF BalanceType
<1>4. ASSUME NEW q \in Periods PROVE remaining'[q] = Missing <=> expiry'[q] = 0
  BY <1>1, <1>2, <1>4 DEF BalanceType
<1>5. low' \in [Periods -> Int]
  <2>1. low \in [Periods -> Int] /\ low[p] \in Int BY DEF HistType
  <2>2. Smaller(low[p], v) \in Int BY <2>1 DEF Smaller
  <2> QED BY <1>1, <2>1, <2>2
<1> QED BY <1>3, <1>4, <1>5 DEF BalanceType

\* SET NX with an expiry keeps them, and a balance that is there.
LEMMA StoreIfMissingType ==
  ASSUME BalanceType, HistType, NEW p \in Periods, NEW v \in Int, NEW t \in Nat \ {0},
         StoreIfMissing(p, v, t)
  PROVE  /\ BalanceType' /\ owed' \in [Periods -> Nat]
         /\ remaining'[p] \in Int /\ (remaining[p] # Missing => remaining'[p] = remaining[p])
<1>1. v # Missing BY MissingAssumption
<1>2. CASE remaining[p] = Missing
  <2>1. /\ remaining' = [remaining EXCEPT ![p] = v] /\ expiry' = [expiry EXCEPT ![p] = t]
        /\ owed' = [owed EXCEPT ![p] = 0]
    BY <1>2 DEF StoreIfMissing, InitRemainingIfMissing
  <2>2. ASSUME NEW q \in Periods PROVE remaining'[q] = Missing <=> expiry'[q] = 0
    BY <1>1, <2>1 DEF BalanceType
  <2>3. owed' \in [Periods -> Nat] BY <2>1 DEF HistType
  <2> QED BY <1>2, <2>1, <2>2, <2>3 DEF BalanceType
<1>3. CASE remaining[p] # Missing
  <2>1. remaining' = remaining /\ expiry' = expiry /\ owed' = owed
    BY <1>3 DEF StoreIfMissing, InitRemainingIfMissing
  <2> QED BY <1>3, <2>1 DEF BalanceType, HistType
<1> QED BY <1>2, <1>3

\* Expired keys leave no balance and no expiry behind.
LEMMA ForgetType ==
  ASSUME BalanceType, BooksType, NEW B, NEW E, Forget(B, E)
  PROVE  BalanceType' /\ until' \in [EventIds -> Nat]
BY DEF BalanceType, BooksType, Forget

\* What the scripts decide on a balance.
LEMMA Verdicts ==
  ASSUME NEW r \in Int \cup {Missing}, NEW seen \in BOOLEAN
  PROVE  /\ ApplyDeltaIdempotent(r, seen) = "applied" => ~seen /\ r \in Int /\ r >= 0
         /\ ApplyDeltaIdempotent(r, seen) = "already" => seen /\ r \in Int
         /\ ~seen /\ r \in Int /\ r >= 0 => ApplyDeltaIdempotent(r, seen) = "applied"
         /\ ApplyDeltaIdempotent(r, seen) # "missing" => r \in Int
BY MissingAssumption DEF ApplyDeltaIdempotent

\* Coins are only taken from a balance that covers the estimate.
LEMMA ChargeVerdict ==
  ASSUME NEW r \in Int, NEW est \in Nat, ReserveIfEnough(r, FALSE, est) = "charged"
  PROVE  r - est \in Nat
BY DEF ReserveIfEnough

\* What becomes of the snapshots when handler h moves on, keeps or drops its own.
LEMMA MoveType ==
  ASSUME SnapType, NEW h \in Handlers, NEW to, NEW r,
         Goto(h, to), snap' = [snap EXCEPT ![h] = r], Fits(h, to, r)
  PROVE  SnapType'
BY DEF SnapType, Goto, Fits, RowType

\* A handler that moves on keeps a snapshot that fits its new step.
LEMMA StepType ==
  ASSUME SnapType, NEW h \in Handlers, NEW to,
         Goto(h, to), UNCHANGED snap, Fits(h, to, snap[h])
  PROVE  SnapType'
BY DEF SnapType, Goto, Fits, RowType

\* Snapshots that nobody touches still fit.
LEMMA StayType == ASSUME SnapType, UNCHANGED <<pc, snap>> PROVE SnapType'
BY DEF SnapType, Fits, RowType

CreatorStep == (\E q \in Plans : Create(q)) \/ OpenFirstPeriod \/ BookFirstPeriod

\* Creating the subscription keeps the types.
LEMMA TypeCreator ==
  ASSUME TypeInv, CreatorStep
  PROVE  TypeInv'
<1> USE HandlerKinds, PeriodFacts
<1>0. BalanceType /\ HistType /\ RowTyped /\ BooksType /\ LocalsType /\ SnapType
  BY TypeParts DEF TypeInv
<1>1. ASSUME NEW q \in Plans, Create(q) PROVE TypeInv'
  <2>1. Row(q, 0, TRUE, FALSE) \in RowType /\ Row(q, 0, TRUE, FALSE).period = 0 BY DEF Row, RowType
  <2>2. Fits("creator", "open", sub') BY <1>1, <2>1 DEF Create, Fits
  <2>a. Goto("creator", "open") /\ snap' = [snap EXCEPT !["creator"] = sub'] BY <1>1 DEF Create
  <2>3. SnapType' BY <1>0, <2>a, <2>2, MoveType
  <2>4. BalanceType' /\ HistType' /\ BooksType' /\ LocalsType' /\ RowTyped'
    BY <1>0, <1>1, <2>1 DEF Create, redis, hist, bounds, BalanceType, HistType, BooksType, LocalsType, RowTyped
  <2> QED BY <2>3, <2>4, TypePartsNext DEF TypeInv
<1>2. CASE OpenFirstPeriod
  <2> DEFINE t == Until(PeriodEnd(0))
  <2>1. Fits("creator", "book", snap["creator"]) /\ MaxCoins[snap["creator"].plan] \in Nat
    BY <1>0, <1>2, PeriodsAssumption DEF OpenFirstPeriod, SnapType, Fits, RowType
  <2>2. t \in Nat \ {0} BY <1>0, PeriodEndType, UntilType
  <2>b. StoreIfMissing(0, MaxCoins[snap["creator"].plan], t) BY <1>2 DEF OpenFirstPeriod
  <2> HIDE DEF t
  <2>3. BalanceType' /\ owed' \in [Periods -> Nat] /\ remaining'[0] \in Int
    <3>1. PICK v \in Int : StoreIfMissing(0, v, t) BY <2>b, <2>1
    <3>2. 0 \in Periods BY PeriodFacts
    <3> QED BY <1>0, <3>1, <3>2, <2>2, StoreIfMissingType
  <2>a. Goto("creator", "book") /\ UNCHANGED snap BY <1>2 DEF OpenFirstPeriod
  <2>4. SnapType' BY <1>0, <2>a, <2>1, StepType
  <2>5. HistType' /\ BooksType' /\ LocalsType' /\ RowTyped'
    BY <1>0, <1>2, <2>3 DEF OpenFirstPeriod, bounds, HistType, BooksType, LocalsType, RowTyped
  <2> QED BY <2>3, <2>4, <2>5, TypePartsNext DEF TypeInv
<1>3. CASE BookFirstPeriod
  <2>a. Goto("creator", "done") /\ snap' = [snap EXCEPT !["creator"] = None]
    BY <1>3 DEF BookFirstPeriod, Return
  <2>b. Fits("creator", "done", None) BY DEF Fits
  <2>1. SnapType' BY <1>0, <2>a, <2>b, MoveType
  <2>2. BooksType' /\ LocalsType' BY <1>0, <1>3 DEF BookFirstPeriod, Return, redis, bounds, BooksType, LocalsType
  <2>3. BalanceType' /\ HistType' /\ RowTyped'
    BY <1>0, <1>3 DEF BookFirstPeriod, redis, hist, BalanceType, HistType, RowTyped
  <2> QED BY <2>1, <2>2, <2>3, TypePartsNext DEF TypeInv
<1> QED BY <1>1, <1>2, <1>3 DEF CreatorStep

\* The row and the amounts of a session that is under way.
LEMMA SessionData ==
  ASSUME TypeInv, NEW s \in Sessions, pc[s] \in ChargingPcs
  PROVE  /\ snap[s] \in RowType /\ snap[s].period \in Periods
         /\ MaxCoins[snap[s].plan] \in Nat /\ Estimate[s] \in Nat
BY HandlerKinds, PeriodsAssumption DEF TypeInv, SnapType, Fits, RowType

\* What the script that opens a balance leaves in it.
LEMMA Before ==
  ASSUME BalanceType, NEW p \in Periods, NEW v \in Int
  PROVE  /\ InitRemainingIfMissing(remaining, p, v)[p] \in Int
         /\ remaining[p] # Missing => InitRemainingIfMissing(remaining, p, v)[p] = remaining[p]
         /\ remaining[p] = Missing => InitRemainingIfMissing(remaining, p, v)[p] = v
BY DEF BalanceType, InitRemainingIfMissing

\* A charge, taken apart: it is refused, or it takes the estimate from the key.
ChargeTaken(s, p, v, t) ==
  /\ v >= 0 /\ Store(p, v, t)
  /\ val' = [val EXCEPT ![s] = v]
  /\ owed' = IF remaining[p] = Missing THEN [owed EXCEPT ![p] = 0] ELSE owed
  /\ drawn' = drawn \cup {p}
  /\ Goto(s, "book") /\ UNCHANGED snap
ChargeRefused(s, p, v, t) ==
  /\ StoreIfMissing(p, v, t)
  /\ Return(s, "refused") /\ UNCHANGED <<low, drawn>>

\* A charge either takes coins or is refused; both store the balance.
LEMMA ChargeCases ==
  ASSUME TypeInv, NEW s \in Sessions, Charge(s)
  PROVE  /\ pc[s] = "charge" /\ snap[s].period \in Periods /\ snap[s] \in RowType
         /\ UNCHANGED <<now, sub, until, mongo, bounds, taken, guessed>>
         /\ \E t \in Nat \ {0} :
              /\ t >= PeriodEnd(snap[s].period)
              /\ \/ \E v \in Nat : ChargeTaken(s, snap[s].period, v, t)
                 \/ \E v \in Nat : ChargeRefused(s, snap[s].period, v, t)
<1> DEFINE p == snap[s].period
           allowance == MaxCoins[snap[s].plan]
           before == InitRemainingIfMissing(remaining, p, allowance)[p]
           t == Until(PeriodEnd(p) + Buffer)
<1>1. pc[s] = "charge" /\ UNCHANGED <<now, sub, until, mongo, bounds, taken, guessed>>
  BY DEF Charge
<1>2. snap[s] \in RowType /\ p \in Periods /\ allowance \in Nat /\ Estimate[s] \in Nat
  BY <1>1, SessionData DEF ChargingPcs
<1>3. t \in Nat \ {0} /\ t >= PeriodEnd(p)
  <2>1. PeriodEnd(p) \in Nat \ {0} BY <1>2, PeriodEndType, PeriodFacts
  <2>2. PeriodEnd(p) + Buffer \in Nat \ {0} /\ PeriodEnd(p) + Buffer >= PeriodEnd(p)
    BY <2>1, PeriodsAssumption
  <2>3. RowTyped BY TypeParts DEF TypeInv
  <2>4. t \in Nat \ {0} /\ t >= PeriodEnd(p) + Buffer BY <2>2, <2>3, UntilType
  <2> QED BY <2>1, <2>2, <2>4, PeriodsAssumption
<1>4. before \in Int BY <1>2, Before, TypeParts DEF TypeInv
<1>5. CASE ReserveIfEnough(before, FALSE, Estimate[s]) = "charged"
  <2> HIDE DEF before
  <2>1. before - Estimate[s] \in Nat BY <1>2, <1>4, <1>5, ChargeVerdict
  <2> USE DEF before
  <2>2. ChargeTaken(s, p, before - Estimate[s], t) BY <1>5, <2>1 DEF Charge, ChargeTaken
  <2> QED BY <1>1, <1>2, <1>3, <2>1, <2>2
<1>6. CASE ReserveIfEnough(before, FALSE, Estimate[s]) # "charged"
  <2>1. ChargeRefused(s, p, allowance, t) BY <1>6 DEF Charge, ChargeRefused
  <2> QED BY <1>1, <1>2, <1>3, <2>1
<1> QED BY <1>5, <1>6

\* An adjustment likewise.
Adjusted(s, p, v) ==
  /\ Store(p, v, now + AdjustTtl)
  /\ val' = [val EXCEPT ![s] = v]
  /\ Goto(s, "bookAdjust") /\ UNCHANGED snap

\* An adjustment either moves the balance or is refused.
LEMMA AdjustCases ==
  ASSUME TypeInv, NEW s \in Sessions, Adjust(s)
  PROVE  /\ pc[s] = "running" /\ snap[s].period \in Periods /\ snap[s] \in RowType
         /\ now + AdjustTtl \in Nat \ {0}
         /\ UNCHANGED <<now, sub, until, mongo, bounds, owed, drawn, taken, guessed>>
         /\ \/ remaining[snap[s].period] # Missing /\ \E v \in Int : Adjusted(s, snap[s].period, v)
            \/ Return(s, "refused") /\ UNCHANGED <<remaining, expiry, low>>
<1> DEFINE p == snap[s].period
<1>1. pc[s] = "running" /\ UNCHANGED <<now, sub, until, mongo, bounds, owed, drawn, taken, guessed>>
  BY DEF Adjust
<1>2. snap[s] \in RowType /\ p \in Periods /\ Estimate[s] \in Nat
  BY <1>1, SessionData DEF ChargingPcs
<1>3. now + AdjustTtl \in Nat \ {0}
  BY PeriodsAssumption DEF TypeInv, TypeOK
<1>4. remaining[p] \in Int \cup {Missing} BY <1>2 DEF TypeInv, TypeOK
<1>5. CASE ApplyDeltaIdempotent(remaining[p], FALSE) = "applied"
  <2>1. remaining[p] \in Int BY <1>4, <1>5, Verdicts
  <2>2. PICK d \in Int :
          /\ Store(p, remaining[p] - d, now + AdjustTtl)
          /\ val' = [val EXCEPT ![s] = remaining[p] - d]
          /\ Goto(s, "bookAdjust") /\ UNCHANGED snap
    <3>1. PICK x \in Sessions : \E d \in (-Estimate[x])..MaxOverrun :
            /\ Store(p, remaining[p] - d, now + AdjustTtl)
            /\ val' = [val EXCEPT ![s] = remaining[p] - d]
            /\ Goto(s, "bookAdjust") /\ UNCHANGED snap
      BY <1>5 DEF Adjust
    <3>2. (-Estimate[x])..MaxOverrun \subseteq Int
      BY PeriodsAssumption
    <3> QED BY <3>1, <3>2
  <2>3. remaining[p] - d \in Int
    BY <1>2, <2>1, <2>2
  <2>4. Adjusted(s, p, remaining[p] - d) BY <2>2 DEF Adjusted
  <2>5. remaining[p] # Missing BY <2>1, MissingAssumption
  <2> QED BY <1>1, <1>2, <1>3, <2>3, <2>4, <2>5
<1>6. CASE ApplyDeltaIdempotent(remaining[p], FALSE) # "applied"
  <2>1. Return(s, "refused") /\ UNCHANGED <<remaining, expiry, low>> BY <1>6 DEF Adjust
  <2> QED BY <1>1, <1>2, <1>3, <2>1
<1> QED BY <1>5, <1>6

\* The job under way, and its debt.
LEMMA CronData ==
  ASSUME TypeInv, pc["cron"] # "idle"
  PROVE  /\ snap["cron"] \in RowType /\ OldPeriod \in Periods /\ NewPeriod \in Periods
         /\ NewPeriod = OldPeriod + 1 /\ NewPeriod # 0 /\ RefillId \in EventIds
         /\ Allowance \in Nat /\ Debt \in Nat /\ val["cron"] \in Int
         /\ Until(PeriodEnd(NewPeriod)) \in Nat \ {0}
         /\ Until(PeriodEnd(NewPeriod)) >= PeriodEnd(NewPeriod)
<1>1. snap["cron"] \in RowType /\ snap["cron"].period < MaxPeriod
  BY HandlerKinds DEF TypeInv, SnapType, Fits
<1>2. OldPeriod \in Periods /\ NewPeriod \in Periods /\ NewPeriod = OldPeriod + 1 /\ NewPeriod # 0
  <2>1. OldPeriod \in Periods /\ OldPeriod < MaxPeriod
    BY <1>1 DEF OldPeriod, RowType
  <2>2. NewPeriod = OldPeriod + 1
    BY DEF NewPeriod
  <2>3. OldPeriod \in Nat /\ OldPeriod + 1 \in Periods
    BY <2>1, PeriodFacts
  <2> QED BY <2>1, <2>2, <2>3
<1>3. RefillId \in EventIds BY <1>2, Ids DEF RefillId
<1>4. Allowance \in Nat BY <1>1, PeriodsAssumption DEF Allowance, RowType
<1>5. val["cron"] \in Int BY HandlerKinds DEF TypeInv, TypeOK
<1>6. Debt \in Nat BY <1>5 DEF Debt, Larger
<1>7. PeriodEnd(NewPeriod) \in Nat \ {0} BY <1>2, PeriodFacts, PeriodEndType
<1>8. RowTyped BY TypeParts DEF TypeInv
<1> QED BY <1>1, <1>2, <1>3, <1>4, <1>5, <1>6, <1>7, <1>8, UntilType

\* The debt is taken, or the script found nothing to do, or no key (as it said).
DebtTaken(t) ==
  /\ remaining[NewPeriod] \in Nat /\ until[RefillId] = 0
  /\ Store(NewPeriod, remaining[NewPeriod] - Debt, t)
  /\ until' = [until EXCEPT ![RefillId] = t]
  /\ owed' = [owed EXCEPT ![NewPeriod] = @ + Debt]
  /\ taken' = taken \cup {NewPeriod}
  /\ val' = [val EXCEPT !["cron"] = remaining'[NewPeriod]] /\ UNCHANGED guessed
DebtFound ==
  /\ remaining[NewPeriod] \in Int
  /\ until[RefillId] > 0 \/ remaining[NewPeriod] < 0
  /\ UNCHANGED <<remaining, expiry, until, low, owed, taken, guessed>>
  /\ val' = [val EXCEPT !["cron"] = remaining[NewPeriod]]
DebtGuessed ==
  /\ until[RefillId] > 0 \/ remaining[NewPeriod] = Missing
  /\ UNCHANGED <<remaining, expiry, until, low, owed, taken>>
  /\ val' = [val EXCEPT !["cron"] = Allowance - Debt]
  /\ guessed' = guessed \cup {NewPeriod}

\* The debt script takes the debt, finds it taken, or finds no balance.
LEMMA TakeDebtCases ==
  ASSUME TypeInv, TakeDebt
  PROVE  /\ pc["cron"] = "debt" /\ Goto("cron", "refill")
         /\ UNCHANGED <<now, sub, mongo, snap, bounds, drawn>>
         /\ \/ DebtTaken(Until(PeriodEnd(NewPeriod))) \/ DebtFound \/ DebtGuessed
<1> DEFINE verdict == ApplyDeltaIdempotent(remaining[NewPeriod], until[RefillId] > 0)
           t == Until(PeriodEnd(NewPeriod))
<1>1. pc["cron"] = "debt" /\ Goto("cron", "refill") /\ UNCHANGED <<now, sub, mongo, snap, bounds, drawn>>
  BY DEF TakeDebt
<1>2. NewPeriod \in Periods /\ RefillId \in EventIds BY <1>1, CronData
<1>3. remaining[NewPeriod] \in Int \cup {Missing} /\ until[RefillId] \in Nat
  BY <1>2 DEF TypeInv, TypeOK
<1>4. CASE verdict = "applied"
  <2>1. remaining[NewPeriod] \in Nat /\ until[RefillId] = 0
    BY <1>3, <1>4, MissingAssumption DEF ApplyDeltaIdempotent
  <2>2. verdict # "missing" BY <1>4
  <2>3. DebtTaken(t) BY <1>4, <2>1, <2>2 DEF TakeDebt, DebtTaken
  <2> QED BY <1>1, <2>3
<1>5. CASE verdict = "missing"
  <2>1. until[RefillId] > 0 \/ remaining[NewPeriod] = Missing
    BY <1>3, <1>5, MissingAssumption DEF ApplyDeltaIdempotent
  <2>2. verdict # "applied" BY <1>5
  <2>3. DebtGuessed BY <1>5, <2>1, <2>2 DEF TakeDebt, DebtGuessed
  <2> QED BY <1>1, <2>3
<1>6. CASE verdict # "applied" /\ verdict # "missing"
  <2>1. remaining[NewPeriod] \in Int /\ (until[RefillId] > 0 \/ remaining[NewPeriod] < 0)
    BY <1>3, <1>6, MissingAssumption DEF ApplyDeltaIdempotent
  <2>2. UNCHANGED <<remaining, expiry, until, low, owed, taken, guessed>>
        /\ val' = [val EXCEPT !["cron"] = remaining'[NewPeriod]]
    BY <1>6 DEF TakeDebt
  <2>3. DebtFound BY <2>1, <2>2 DEF DebtFound
  <2> QED BY <1>1, <2>3
<1> QED BY <1>4, <1>5, <1>6

\* An upgrade under way, and its three outcomes at the script.
LEMMA UpgradeData ==
  ASSUME TypeInv, NEW u \in Upgraders, pc[u] \in UpgradingPcs
  PROVE  /\ snap[u] \in [row : RowType, plan : Plans] /\ UpgradePeriod(u) \in Periods
         /\ snap[u].plan \in Plans /\ OldCoins(u) \in Nat /\ NewCoins(u) \in Nat
         /\ <<"upgrade", UpgradePeriod(u), snap[u].plan>> \in EventIds
         /\ Until(PeriodEnd(UpgradePeriod(u))) \in Nat \ {0}
         /\ Until(PeriodEnd(UpgradePeriod(u))) >= PeriodEnd(UpgradePeriod(u))
<1>1. snap[u] \in [row : RowType, plan : Plans] BY HandlerKinds DEF TypeInv, SnapType, Fits
<1>2. UpgradePeriod(u) \in Periods /\ snap[u].plan \in Plans BY <1>1 DEF UpgradePeriod, RowType
<1>3. OldCoins(u) \in Nat /\ NewCoins(u) \in Nat
  BY <1>1, PeriodsAssumption DEF OldCoins, NewCoins, RowType
<1>4. <<"upgrade", UpgradePeriod(u), snap[u].plan>> \in EventIds BY <1>2, Ids
<1>5. PeriodEnd(UpgradePeriod(u)) \in Nat \ {0} BY <1>2, PeriodFacts, PeriodEndType
<1>6. RowTyped BY TypeParts DEF TypeInv
<1> QED BY <1>1, <1>2, <1>3, <1>4, <1>5, <1>6, UntilType

UpgradeApplied(u, p, v, id, t) ==
  /\ Store(p, v, t) /\ until' = [until EXCEPT ![id] = t]
  /\ val' = [val EXCEPT ![u] = v]
  /\ Goto(u, "row") /\ UNCHANGED snap
UpgradeFound(u, p) ==
  /\ remaining[p] \in Int
  /\ Goto(u, "row") /\ val' = [val EXCEPT ![u] = remaining[p]] /\ UNCHANGED snap
  /\ UNCHANGED <<remaining, expiry, until, low>>
UpgradeRefused(u) ==
  /\ Return(u, "refused") /\ UNCHANGED <<remaining, expiry, until, low>>

\* An upgrade moves the balance, finds itself done, or is refused.
LEMMA UpgradeCases ==
  ASSUME TypeInv, NEW u \in Upgraders, ApplyUpgrade(u)
  PROVE  /\ pc[u] = "delta"
         /\ UNCHANGED <<now, sub, mongo, bounds, owed, drawn, taken, guessed>>
         /\ \/ \E v \in Int : UpgradeApplied(u, UpgradePeriod(u), v,
                 <<"upgrade", UpgradePeriod(u), snap[u].plan>>, Until(PeriodEnd(UpgradePeriod(u))))
            \/ UpgradeFound(u, UpgradePeriod(u)) \/ UpgradeRefused(u)
<1> DEFINE p == UpgradePeriod(u)
           id == <<"upgrade", p, snap[u].plan>>
           verdict == ApplyDeltaIdempotent(remaining[p], until[id] > 0)
           t == Until(PeriodEnd(p))
           v == remaining[p] + NewCoins(u) - OldCoins(u)
<1>1. pc[u] = "delta" /\ UNCHANGED <<now, sub, mongo, bounds, owed, drawn, taken, guessed>>
  BY DEF ApplyUpgrade
<1>2. p \in Periods /\ id \in EventIds /\ NewCoins(u) \in Nat /\ OldCoins(u) \in Nat
  BY <1>1, UpgradeData DEF UpgradingPcs
<1>3. remaining \in [Periods -> Int \cup {Missing}] /\ until[id] \in Nat /\ DOMAIN val = Handlers
  BY <1>2 DEF TypeInv, TypeOK
<1>4. CASE verdict = "applied"
  <2>1. remaining[p] \in Nat
    BY <1>2, <1>3, <1>4, MissingAssumption DEF ApplyDeltaIdempotent
  <2>2. Store(p, v, t) /\ until' = [until EXCEPT ![id] = t]
        /\ val' = [val EXCEPT ![u] = remaining'[p]] /\ Goto(u, "row") /\ UNCHANGED snap
    BY <1>4 DEF ApplyUpgrade
  <2>3. remaining'[p] = v BY <1>2, <1>3, <2>2 DEF Store
  <2>4. v \in Int BY <1>2, <2>1
  <2> HIDE DEF v
  <2>5. UpgradeApplied(u, p, v, id, t) BY <2>2, <2>3 DEF UpgradeApplied
  <2> QED BY <1>1, <2>4, <2>5
<1>5. CASE verdict = "already"
  <2>1. remaining[p] \in Int
    BY <1>2, <1>3, <1>5, MissingAssumption DEF ApplyDeltaIdempotent
  <2>2. UpgradeFound(u, p) BY <1>5, <2>1 DEF ApplyUpgrade, UpgradeFound
  <2> QED BY <1>1, <2>2
<1>6. CASE verdict # "applied" /\ verdict # "already"
  <2>1. UpgradeRefused(u) BY <1>6 DEF ApplyUpgrade, UpgradeRefused
  <2> QED BY <1>1, <2>1
<1> QED BY <1>4, <1>5, <1>6

\* The steps of a session keep the types.
LEMMA TypeSession ==
  ASSUME TypeInv, NEW s \in Sessions, SessionStep(s)
  PROVE  TypeInv'
<1>0. BalanceType /\ HistType /\ RowTyped /\ BooksType /\ LocalsType /\ SnapType
      /\ s \in Handlers /\ s # "creator" /\ s # "cron" /\ s \notin Upgraders
  BY TypeParts, HandlerKinds DEF TypeInv
<1>1. CASE ReadEntitlement(s)
  <2>1. Goto(s, "charge") /\ snap' = [snap EXCEPT ![s] = sub] /\ sub # None
    BY <1>1 DEF ReadEntitlement
  <2>2. Fits(s, "charge", sub) BY <1>0, <2>1 DEF Fits, RowTyped
  <2>3. SnapType' BY <1>0, <2>1, <2>2, MoveType
  <2>4. BalanceType' /\ HistType' /\ RowTyped' /\ BooksType' /\ LocalsType'
    BY <1>0, <1>1 DEF ReadEntitlement, redis, hist, bounds, BalanceType, HistType, RowTyped, BooksType, LocalsType
  <2> QED BY <2>3, <2>4, TypePartsNext DEF TypeInv
<1>2. CASE Charge(s)
  <2> DEFINE p == snap[s].period
  <2>1. /\ pc[s] = "charge" /\ p \in Periods /\ snap[s] \in RowType
        /\ UNCHANGED <<now, sub, until, mongo, bounds, taken, guessed>>
    BY <1>2, ChargeCases
  <2>2. RowTyped' /\ until' \in [EventIds -> Nat] /\ mongo' \in [Periods -> Int \cup {None}]
        /\ faults' \in 0..MaxFaults /\ edits' \in 0..MaxEdits
    BY <1>0, <2>1 DEF RowTyped, BooksType, LocalsType, bounds
  <2>3. PICK t \in Nat \ {0} : \/ \E v \in Nat : ChargeTaken(s, p, v, t)
                              \/ \E v \in Nat : ChargeRefused(s, p, v, t)
    BY <1>2, ChargeCases
  <2> HIDE DEF p
  <2>4. CASE \E v \in Nat : ChargeTaken(s, p, v, t)
    <3>1. PICK v \in Nat : ChargeTaken(s, p, v, t) BY <2>4
    <3>2. Store(p, v, t) BY <3>1 DEF ChargeTaken
    <3>3. BalanceType' /\ low' \in [Periods -> Int] BY <1>0, <2>1, <3>2, StoreType
    <3>4. val' \in [Handlers -> Int] BY <1>0, <3>1 DEF ChargeTaken, LocalsType
    <3>5. owed' \in [Periods -> Nat] BY <1>0, <3>1 DEF ChargeTaken, HistType
    <3>6. drawn' \subseteq Periods BY <1>0, <2>1, <3>1 DEF ChargeTaken, HistType
    <3>7. Goto(s, "book") /\ UNCHANGED snap BY <3>1 DEF ChargeTaken
    <3>8. Fits(s, "book", snap[s]) BY <1>0, <2>1 DEF Fits
    <3>9. SnapType' BY <1>0, <3>7, <3>8, StepType
    <3>10. HistType' BY <1>0, <2>1, <3>3, <3>5, <3>6 DEF HistType
    <3> QED BY <2>2, <3>3, <3>4, <3>9, <3>10, TypePartsNext DEF TypeInv, BooksType, LocalsType
  <2>5. CASE \E v \in Nat : ChargeRefused(s, p, v, t)
    <3>1. PICK v \in Nat : ChargeRefused(s, p, v, t) BY <2>5
    <3>2. StoreIfMissing(p, v, t) BY <3>1 DEF ChargeRefused
    <3>3. BalanceType' /\ owed' \in [Periods -> Nat] BY <1>0, <2>1, <3>2, StoreIfMissingType
    <3>4. val' \in [Handlers -> Int] BY <1>0, <3>1 DEF ChargeRefused, Return, LocalsType
    <3>7. Goto(s, "refused") /\ snap' = [snap EXCEPT ![s] = None] BY <3>1 DEF ChargeRefused, Return
    <3>8. Fits(s, "refused", None) BY <1>0 DEF Fits, ChargingPcs
    <3>9. SnapType' BY <1>0, <3>7, <3>8, MoveType
    <3>10. HistType' BY <1>0, <2>1, <3>1, <3>3 DEF HistType, ChargeRefused
    <3> QED BY <2>2, <3>3, <3>4, <3>9, <3>10, TypePartsNext DEF TypeInv, BooksType, LocalsType
  <2> QED BY <2>3, <2>4, <2>5
<1>3. CASE BookCharge(s)
  <2>1. pc[s] = "book" /\ Goto(s, "running") /\ UNCHANGED snap BY <1>3 DEF BookCharge
  <2>2. snap[s] \in RowType /\ snap[s].period \in Periods BY <2>1, SessionData DEF ChargingPcs
  <2>3. Fits(s, "running", snap[s]) BY <1>0, <2>2 DEF Fits
  <2>4. SnapType' BY <1>0, <2>1, <2>3, StepType
  <2>5. BooksType' /\ LocalsType'
    BY <1>0, <1>3, <2>2 DEF BookCharge, redis, bounds, BooksType, LocalsType
  <2>6. BalanceType' /\ HistType' /\ RowTyped'
    BY <1>0, <1>3 DEF BookCharge, redis, hist, BalanceType, HistType, RowTyped
  <2> QED BY <2>4, <2>5, <2>6, TypePartsNext DEF TypeInv
<1>4. CASE Adjust(s)
  <2> DEFINE p == snap[s].period
  <2>1. /\ pc[s] = "running" /\ p \in Periods /\ snap[s] \in RowType /\ now + AdjustTtl \in Nat \ {0}
        /\ UNCHANGED <<now, sub, until, mongo, bounds, owed, drawn, taken, guessed>>
        /\ \/ \E v \in Int : Adjusted(s, p, v)
           \/ Return(s, "refused") /\ UNCHANGED <<remaining, expiry, low>>
    BY <1>4, AdjustCases
  <2> HIDE DEF p
  <2>2. RowTyped' /\ BooksType' /\ faults' \in 0..MaxFaults /\ edits' \in 0..MaxEdits
    BY <1>0, <2>1 DEF RowTyped, BooksType, LocalsType, bounds
  <2>3. CASE \E v \in Int : Adjusted(s, p, v)
    <3>1. PICK v \in Int : Adjusted(s, p, v) BY <2>3
    <3>2. Store(p, v, now + AdjustTtl) BY <3>1 DEF Adjusted
    <3>3. BalanceType' /\ low' \in [Periods -> Int] BY <1>0, <2>1, <3>2, StoreType
    <3>4. val' \in [Handlers -> Int] BY <1>0, <3>1 DEF Adjusted, LocalsType
    <3>5. Goto(s, "bookAdjust") /\ UNCHANGED snap BY <3>1 DEF Adjusted
    <3>6. Fits(s, "bookAdjust", snap[s]) BY <1>0, <2>1 DEF Fits
    <3>7. SnapType' BY <1>0, <3>5, <3>6, StepType
    <3>8. HistType' BY <1>0, <2>1, <3>3 DEF HistType
    <3> QED BY <2>2, <3>3, <3>4, <3>7, <3>8, TypePartsNext DEF TypeInv, LocalsType
  <2>4. CASE Return(s, "refused") /\ UNCHANGED <<remaining, expiry, low>>
    <3>1. Goto(s, "refused") /\ snap' = [snap EXCEPT ![s] = None] BY <2>4 DEF Return
    <3>2. Fits(s, "refused", None) BY <1>0 DEF Fits, ChargingPcs
    <3>3. SnapType' BY <1>0, <3>1, <3>2, MoveType
    <3>4. val' \in [Handlers -> Int] BY <1>0, <2>4 DEF Return, LocalsType
    <3>5. BalanceType' /\ HistType' BY <1>0, <2>1, <2>4 DEF BalanceType, HistType
    <3> QED BY <2>2, <3>3, <3>4, <3>5, TypePartsNext DEF TypeInv, LocalsType
  <2> QED BY <2>1, <2>3, <2>4
<1>5. CASE BookAdjust(s)
  <2>1. pc[s] = "bookAdjust" /\ Goto(s, "settled") /\ snap' = [snap EXCEPT ![s] = None]
    BY <1>5 DEF BookAdjust, Return
  <2>2. snap[s].period \in Periods BY <2>1, SessionData DEF ChargingPcs
  <2>3. Fits(s, "settled", None) BY <1>0 DEF Fits, ChargingPcs
  <2>4. SnapType' BY <1>0, <2>1, <2>3, MoveType
  <2>5. BooksType' /\ LocalsType'
    BY <1>0, <1>5, <2>2 DEF BookAdjust, Return, redis, bounds, BooksType, LocalsType
  <2>6. BalanceType' /\ HistType' /\ RowTyped'
    BY <1>0, <1>5 DEF BookAdjust, redis, hist, BalanceType, HistType, RowTyped
  <2> QED BY <2>4, <2>5, <2>6, TypePartsNext DEF TypeInv
<1> QED BY <1>1, <1>2, <1>3, <1>4, <1>5 DEF SessionStep

\* A removal keeps the row and its period.
LEMMA RemoveKeeps ==
  ASSUME RowTyped, sub # None, Remove
  PROVE  sub' \in RowType /\ sub'.period = sub.period
BY DEF RowTyped, Remove, RowType

\* The steps of the job keep the types.
LEMMA TypeCron ==
  ASSUME TypeInv, CronInv, CronStep
  PROVE  TypeInv'
<1>0. BalanceType /\ HistType /\ RowTyped /\ BooksType /\ LocalsType /\ SnapType
      /\ "cron" \in Handlers /\ "cron" \notin Sessions /\ "cron" \notin Upgraders
  BY TypeParts, HandlerKinds DEF TypeInv
<1>1. CASE SelectDue
  <2>1. /\ snap' = [snap EXCEPT !["cron"] = sub] /\ sub # None /\ sub.period < MaxPeriod
        /\ Goto("cron", "remove") \/ Goto("cron", "balance")
    BY <1>1 DEF SelectDue, Goto
  <2>2. Fits("cron", "remove", sub) /\ Fits("cron", "balance", sub)
    BY <1>0, <2>1 DEF Fits, RowTyped, CronPcs
  <2>3. SnapType' BY <1>0, <2>1, <2>2, MoveType
  <2>4. BalanceType' /\ HistType' /\ RowTyped' /\ BooksType' /\ LocalsType'
    BY <1>0, <1>1 DEF SelectDue, redis, hist, bounds, BalanceType, HistType, RowTyped, BooksType, LocalsType
  <2> QED BY <2>3, <2>4, TypePartsNext DEF TypeInv
<1>2. CASE CronRemove
  <2>1. Goto("cron", "idle") /\ snap' = [snap EXCEPT !["cron"] = None] /\ Remove /\ pc["cron"] # "idle"
    BY <1>2 DEF CronRemove, Return
  <2>2. Fits("cron", "idle", None) BY <1>0 DEF Fits, CronPcs
  <2>3. SnapType' BY <1>0, <2>1, <2>2, MoveType
  <2>4. sub' \in RowType BY <1>0, <2>1, RemoveKeeps DEF CronInv
  <2>5. RowTyped' BY <1>0, <1>2, <2>4 DEF CronRemove, RowTyped
  <2>6. BalanceType' /\ HistType' /\ BooksType' /\ LocalsType'
    BY <1>0, <1>2 DEF CronRemove, Return, redis, hist, bounds, BalanceType, HistType, BooksType, LocalsType
  <2> QED BY <2>3, <2>5, <2>6, TypePartsNext DEF TypeInv
<1>3. CASE ReadOldBalance
  <2>1. Goto("cron", "open") /\ UNCHANGED snap /\ pc["cron"] = "balance" BY <1>3 DEF ReadOldBalance
  <2>2. OldPeriod \in Periods /\ Allowance \in Nat BY <2>1, CronData
  <2>3. Fits("cron", "open", snap["cron"]) BY <1>0, <2>1 DEF SnapType, Fits, CronPcs
  <2>4. SnapType' BY <1>0, <2>1, <2>3, StepType
  <2>5. remaining[OldPeriod] # Missing => remaining[OldPeriod] \in Int BY <1>0, <2>2 DEF BalanceType
  <2>6. mongo[OldPeriod] # None => mongo[OldPeriod] \in Int BY <1>0, <2>2 DEF BooksType
  <2>7. LocalsType' BY <1>0, <1>3, <2>2, <2>5, <2>6 DEF ReadOldBalance, bounds, LocalsType
  <2>8. BalanceType' /\ HistType' /\ RowTyped' /\ BooksType'
    BY <1>0, <1>3 DEF ReadOldBalance, redis, hist, BalanceType, HistType, RowTyped, BooksType
  <2> QED BY <2>4, <2>7, <2>8, TypePartsNext DEF TypeInv
<1>4. CASE OpenNewPeriod
  <2> DEFINE t == Until(PeriodEnd(NewPeriod))
  <2>1. Goto("cron", "debt") /\ UNCHANGED snap /\ pc["cron"] = "open" BY <1>4 DEF OpenNewPeriod
  <2>2. NewPeriod \in Periods /\ Allowance \in Nat /\ t \in Nat \ {0} BY <2>1, CronData
  <2>3. Fits("cron", "debt", snap["cron"]) BY <1>0, <2>1 DEF SnapType, Fits, CronPcs
  <2>4. SnapType' BY <1>0, <2>1, <2>3, StepType
  <2>5. StoreIfMissing(NewPeriod, Allowance, t) BY <1>4 DEF OpenNewPeriod
  <2> HIDE DEF t
  <2>6. BalanceType' /\ owed' \in [Periods -> Nat] BY <1>0, <2>2, <2>5, StoreIfMissingType
  <2>7. HistType' /\ RowTyped' /\ BooksType' /\ LocalsType'
    BY <1>0, <1>4, <2>6 DEF OpenNewPeriod, bounds, HistType, RowTyped, BooksType, LocalsType
  <2> QED BY <2>4, <2>6, <2>7, TypePartsNext DEF TypeInv
<1>5. CASE TakeDebt
  <2> DEFINE t == Until(PeriodEnd(NewPeriod))
  <2>1. /\ pc["cron"] = "debt" /\ Goto("cron", "refill")
        /\ UNCHANGED <<now, sub, mongo, snap, bounds, drawn>>
        /\ \/ DebtTaken(t) \/ DebtFound \/ DebtGuessed
    BY <1>5, TakeDebtCases
  <2>2. /\ NewPeriod \in Periods /\ RefillId \in EventIds /\ t \in Nat \ {0}
        /\ Allowance \in Nat /\ Debt \in Nat
    BY <2>1, CronData
  <2> HIDE DEF t
  <2>3. SnapType'
    <3>1. Fits("cron", "refill", snap["cron"]) BY <1>0, <2>1 DEF SnapType, Fits, CronPcs
    <3> QED BY <1>0, <2>1, <3>1, StepType
  <2>4. RowTyped' /\ mongo' \in [Periods -> Int \cup {None}]
        /\ faults' \in 0..MaxFaults /\ edits' \in 0..MaxEdits /\ drawn' \subseteq Periods
    BY <1>0, <2>1 DEF RowTyped, BooksType, LocalsType, HistType, bounds
  <2>5. CASE DebtTaken(t)
    <3>1. Store(NewPeriod, remaining[NewPeriod] - Debt, t) /\ remaining[NewPeriod] - Debt \in Int
      BY <2>2, <2>5 DEF DebtTaken
    <3>2. BalanceType' /\ low' \in [Periods -> Int] BY <1>0, <2>2, <3>1, StoreType
    <3>3. remaining'[NewPeriod] = remaining[NewPeriod] - Debt
      BY <1>0, <2>2, <3>1 DEF Store, BalanceType
    <3>4. val' \in [Handlers -> Int] BY <1>0, <2>5, <3>1, <3>3 DEF DebtTaken, LocalsType
    <3>5. until' \in [EventIds -> Nat] BY <1>0, <2>2, <2>5 DEF DebtTaken, BooksType
    <3>6. owed' \in [Periods -> Nat] BY <1>0, <2>2, <2>5 DEF DebtTaken, HistType
    <3>7. taken' \subseteq Periods /\ guessed' \subseteq Periods BY <1>0, <2>2, <2>5 DEF DebtTaken, HistType
    <3> QED BY <2>3, <2>4, <3>2, <3>4, <3>5, <3>6, <3>7, TypePartsNext
        DEF TypeInv, BooksType, LocalsType, HistType
  <2>6. CASE DebtFound
    <3>1. BalanceType' /\ until' \in [EventIds -> Nat] /\ HistType'
      BY <1>0, <2>4, <2>6 DEF DebtFound, BalanceType, BooksType, HistType
    <3>2. val' \in [Handlers -> Int] BY <1>0, <2>6 DEF DebtFound, LocalsType
    <3> QED BY <2>3, <2>4, <3>1, <3>2, TypePartsNext DEF TypeInv, BooksType, LocalsType
  <2>7. CASE DebtGuessed
    <3>1. BalanceType' /\ until' \in [EventIds -> Nat]
      BY <1>0, <2>7 DEF DebtGuessed, BalanceType, BooksType
    <3>2. HistType' BY <1>0, <2>2, <2>4, <2>7 DEF DebtGuessed, HistType
    <3>3. val' \in [Handlers -> Int] BY <1>0, <2>2, <2>7 DEF DebtGuessed, LocalsType
    <3> QED BY <2>3, <2>4, <3>1, <3>2, <3>3, TypePartsNext DEF TypeInv, BooksType, LocalsType
  <2> QED BY <2>1, <2>5, <2>6, <2>7
<1>6. CASE BookRefill
  <2>1. Goto("cron", "advance") /\ UNCHANGED snap /\ pc["cron"] = "refill" BY <1>6 DEF BookRefill
  <2>2. NewPeriod \in Periods /\ val["cron"] \in Int BY <2>1, CronData
  <2>3. Fits("cron", "advance", snap["cron"]) BY <1>0, <2>1 DEF SnapType, Fits, CronPcs
  <2>4. SnapType' BY <1>0, <2>1, <2>3, StepType
  <2>5. BooksType' /\ LocalsType'
    BY <1>0, <1>6, <2>2 DEF BookRefill, redis, bounds, BooksType, LocalsType
  <2>6. BalanceType' /\ HistType' /\ RowTyped'
    BY <1>0, <1>6 DEF BookRefill, redis, hist, BalanceType, HistType, RowTyped
  <2> QED BY <2>4, <2>5, <2>6, TypePartsNext DEF TypeInv
<1>7. CASE AdvancePeriod
  <2>1. Goto("cron", "idle") /\ snap' = [snap EXCEPT !["cron"] = None] /\ pc["cron"] = "advance"
        /\ sub' = [sub EXCEPT !.period = NewPeriod]
    BY <1>7 DEF AdvancePeriod, Return
  <2>2. NewPeriod \in Periods /\ sub \in RowType BY <1>0, <2>1, CronData DEF CronInv, RowTyped
  <2>3. Fits("cron", "idle", None) BY <1>0 DEF Fits, CronPcs
  <2>4. SnapType' BY <1>0, <2>1, <2>3, MoveType
  <2>5. sub' \in RowType BY <2>1, <2>2 DEF RowType
  <2>6. RowTyped' BY <1>0, <1>7, <2>5 DEF AdvancePeriod, RowTyped
  <2>7. BalanceType' /\ HistType' /\ BooksType' /\ LocalsType'
    BY <1>0, <1>7 DEF AdvancePeriod, Return, redis, hist, bounds, BalanceType, HistType, BooksType, LocalsType
  <2> QED BY <2>4, <2>6, <2>7, TypePartsNext DEF TypeInv
<1> QED BY <1>1, <1>2, <1>3, <1>4, <1>5, <1>6, <1>7 DEF CronStep

UpgraderStep(u) == UpgradeStep(u) \/ \E q \in Plans : ReadForUpgrade(u, q)

\* The steps of an upgrade keep the types.
LEMMA TypeUpgrade ==
  ASSUME TypeInv, SnapInv, NEW u \in Upgraders, UpgraderStep(u)
  PROVE  TypeInv'
<1>0. BalanceType /\ HistType /\ RowTyped /\ BooksType /\ LocalsType /\ SnapType
      /\ u \in Handlers /\ u # "creator" /\ u # "cron" /\ u \notin Sessions
  BY TypeParts, HandlerKinds DEF TypeInv
<1>1. ASSUME NEW q \in Plans, ReadForUpgrade(u, q) PROVE TypeInv'
  <2>1. Goto(u, "open") /\ snap' = [snap EXCEPT ![u] = [row |-> sub, plan |-> q]] /\ sub # None
    BY <1>1 DEF ReadForUpgrade
  <2>2. [row |-> sub, plan |-> q] \in [row : RowType, plan : Plans] BY <1>0, <2>1 DEF RowTyped
  <2>3. Fits(u, "open", [row |-> sub, plan |-> q]) BY <1>0, <2>2 DEF Fits
  <2>4. SnapType' BY <1>0, <2>1, <2>3, MoveType
  <2>5. BalanceType' /\ HistType' /\ RowTyped' /\ BooksType' /\ LocalsType'
    BY <1>0, <1>1 DEF ReadForUpgrade, redis, hist, bounds, BalanceType, HistType, RowTyped, BooksType, LocalsType
  <2> QED BY <2>4, <2>5, TypePartsNext DEF TypeInv
<1>2. CASE OpenForUpgrade(u)
  <2> DEFINE p == UpgradePeriod(u)
             t == Until(PeriodEnd(p))
  <2>1. Goto(u, "delta") /\ UNCHANGED snap /\ pc[u] = "open" BY <1>2 DEF OpenForUpgrade
  <2>2. p \in Periods /\ OldCoins(u) \in Nat /\ t \in Nat \ {0} /\ snap[u] \in [row : RowType, plan : Plans]
    BY <2>1, UpgradeData DEF UpgradingPcs
  <2>3. Fits(u, "delta", snap[u]) BY <1>0, <2>2 DEF Fits
  <2>4. SnapType' BY <1>0, <2>1, <2>3, StepType
  <2>5. StoreIfMissing(p, OldCoins(u), t) BY <1>2 DEF OpenForUpgrade
  <2> HIDE DEF p, t
  <2>6. BalanceType' /\ owed' \in [Periods -> Nat] BY <1>0, <2>2, <2>5, StoreIfMissingType
  <2>7. HistType' /\ RowTyped' /\ BooksType' /\ LocalsType'
    BY <1>0, <1>2, <2>6 DEF OpenForUpgrade, bounds, HistType, RowTyped, BooksType, LocalsType
  <2> QED BY <2>4, <2>6, <2>7, TypePartsNext DEF TypeInv
<1>3. CASE ApplyUpgrade(u)
  <2> DEFINE p == UpgradePeriod(u)
             t == Until(PeriodEnd(p))
             id == <<"upgrade", p, snap[u].plan>>
  <2>1. /\ pc[u] = "delta"
        /\ UNCHANGED <<now, sub, mongo, bounds, owed, drawn, taken, guessed>>
        /\ \/ \E v \in Int : UpgradeApplied(u, p, v, id, t)
           \/ UpgradeFound(u, p) \/ UpgradeRefused(u)
    BY <1>3, UpgradeCases
  <2>2. p \in Periods /\ t \in Nat \ {0} /\ id \in EventIds /\ snap[u] \in [row : RowType, plan : Plans]
    BY <2>1, UpgradeData DEF UpgradingPcs
  <2> HIDE DEF p, t, id
  <2>3. RowTyped' /\ mongo' \in [Periods -> Int \cup {None}] /\ faults' \in 0..MaxFaults /\ edits' \in 0..MaxEdits
    BY <1>0, <2>1 DEF RowTyped, BooksType, LocalsType, bounds
  <2>4. Fits(u, "row", snap[u]) /\ Fits(u, "refused", None) BY <1>0, <2>2 DEF Fits, UpgradingPcs
  <2>5. CASE \E v \in Int : UpgradeApplied(u, p, v, id, t)
    <3>1. PICK v \in Int : UpgradeApplied(u, p, v, id, t) BY <2>5
    <3>2. Store(p, v, t) /\ Goto(u, "row") /\ UNCHANGED snap BY <3>1 DEF UpgradeApplied
    <3>3. BalanceType' /\ low' \in [Periods -> Int] BY <1>0, <2>2, <3>2, StoreType
    <3>4. SnapType' BY <1>0, <2>4, <3>2, StepType
    <3>5. val' \in [Handlers -> Int] BY <1>0, <3>1 DEF UpgradeApplied, LocalsType
    <3>6. until' \in [EventIds -> Nat] BY <1>0, <2>2, <3>1 DEF UpgradeApplied, BooksType
    <3>7. HistType' BY <1>0, <2>1, <3>3 DEF HistType
    <3> QED BY <2>3, <3>3, <3>4, <3>5, <3>6, <3>7, TypePartsNext DEF TypeInv, BooksType, LocalsType
  <2>6. CASE UpgradeFound(u, p)
    <3>1. SnapType' BY <1>0, <2>4, <2>6, StepType DEF UpgradeFound
    <3>2. val' \in [Handlers -> Int] BY <1>0, <2>6 DEF UpgradeFound, LocalsType
    <3>3. BalanceType' /\ HistType' /\ until' \in [EventIds -> Nat]
      BY <1>0, <2>1, <2>6 DEF UpgradeFound, BalanceType, HistType, BooksType
    <3> QED BY <2>3, <3>1, <3>2, <3>3, TypePartsNext DEF TypeInv, BooksType, LocalsType
  <2>7. CASE UpgradeRefused(u)
    <3>1. Goto(u, "refused") /\ snap' = [snap EXCEPT ![u] = None] BY <2>7 DEF UpgradeRefused, Return
    <3>2. SnapType' BY <1>0, <2>4, <3>1, MoveType
    <3>3. val' \in [Handlers -> Int] BY <1>0, <2>7 DEF UpgradeRefused, Return, LocalsType
    <3>4. BalanceType' /\ HistType' /\ until' \in [EventIds -> Nat]
      BY <1>0, <2>1, <2>7 DEF UpgradeRefused, BalanceType, HistType, BooksType
    <3> QED BY <2>3, <3>2, <3>3, <3>4, TypePartsNext DEF TypeInv, BooksType, LocalsType
  <2> QED BY <2>1, <2>5, <2>6, <2>7
<1>4. CASE StorePlan(u)
  <2>1. Goto(u, "record") /\ UNCHANGED snap /\ pc[u] = "row" /\ sub' = [sub EXCEPT !.plan = snap[u].plan]
    BY <1>4 DEF StorePlan
  <2>2. snap[u] \in [row : RowType, plan : Plans] BY <2>1, UpgradeData DEF UpgradingPcs
  <2>3. Fits(u, "record", snap[u]) BY <1>0, <2>2 DEF Fits
  <2>4. SnapType' BY <1>0, <2>1, <2>3, StepType
  <2>5. sub \in RowType BY <1>0, <2>1 DEF SnapInv, Behind, UpgradingPcs, Reached, RowTyped
  <2>6. sub' \in RowType BY <2>1, <2>2, <2>5 DEF RowType
  <2>7. RowTyped' BY <1>0, <1>4, <2>6 DEF StorePlan, RowTyped
  <2>8. BalanceType' /\ HistType' /\ BooksType' /\ LocalsType'
    BY <1>0, <1>4 DEF StorePlan, redis, hist, bounds, BalanceType, HistType, BooksType, LocalsType
  <2> QED BY <2>4, <2>7, <2>8, TypePartsNext DEF TypeInv
<1>5. CASE RecordUpgrade(u)
  <2>1. Goto(u, "done") /\ snap' = [snap EXCEPT ![u] = None] /\ pc[u] = "record"
    BY <1>5 DEF RecordUpgrade, Return
  <2>2. UpgradePeriod(u) \in Periods BY <2>1, UpgradeData DEF UpgradingPcs
  <2>3. Fits(u, "done", None) BY <1>0 DEF Fits, UpgradingPcs
  <2>4. SnapType' BY <1>0, <2>1, <2>3, MoveType
  <2>5. BooksType' /\ LocalsType'
    BY <1>0, <1>5, <2>2 DEF RecordUpgrade, Return, redis, bounds, BooksType, LocalsType
  <2>6. BalanceType' /\ HistType' /\ RowTyped'
    BY <1>0, <1>5 DEF RecordUpgrade, redis, hist, BalanceType, HistType, RowTyped
  <2> QED BY <2>4, <2>5, <2>6, TypePartsNext DEF TypeInv
<1> QED BY <1>1, <1>2, <1>3, <1>4, <1>5 DEF UpgraderStep, UpgradeStep

\* The remaining steps: calls of an administrator, failures and time.
Elsewhere ==
  \/ RequestRemoval \/ (\E q \in Plans, cancel \in BOOLEAN : Update(q, cancel))
  \/ (\E h \in Handlers : Fails(h)) \/ Tick \/ (\E p \in Periods : Lapse(p)) \/ UNCHANGED vars

\* Edits, faults, time and expiry keep the types.
LEMMA TypeElsewhere ==
  ASSUME TypeInv, Elsewhere
  PROVE  TypeInv'
<1>0. BalanceType /\ HistType /\ RowTyped /\ BooksType /\ LocalsType /\ SnapType
  BY TypeParts DEF TypeInv
<1>1. CASE RequestRemoval
  <2>1. sub' \in RowType BY <1>0, <1>1, RemoveKeeps DEF RequestRemoval
  <2>2. SnapType' BY <1>0, <1>1, StayType DEF RequestRemoval
  <2>3. BalanceType' /\ HistType' /\ RowTyped' /\ BooksType' /\ LocalsType'
    BY <1>0, <1>1, <2>1, PeriodsAssumption
    DEF RequestRemoval, redis, hist, BalanceType, HistType, RowTyped, BooksType, LocalsType
  <2> QED BY <2>2, <2>3, TypePartsNext DEF TypeInv
<1>2. ASSUME NEW q \in Plans, NEW cancel \in BOOLEAN, Update(q, cancel) PROVE TypeInv'
  <2>1. sub \in RowType /\ sub' = [sub EXCEPT !.plan = q, !.cancel = cancel]
    BY <1>0, <1>2 DEF Update, RowTyped
  <2>2. sub' \in RowType BY <2>1 DEF RowType
  <2>3. SnapType' BY <1>0, <1>2, StayType DEF Update
  <2>4. BalanceType' /\ HistType' /\ RowTyped' /\ BooksType' /\ LocalsType'
    BY <1>0, <1>2, <2>2, PeriodsAssumption
    DEF Update, redis, hist, BalanceType, HistType, RowTyped, BooksType, LocalsType
  <2> QED BY <2>3, <2>4, TypePartsNext DEF TypeInv
<1>3. ASSUME NEW h \in Handlers, Fails(h) PROVE TypeInv'
  <2> DEFINE to == IF h = "cron" THEN "idle" ELSE "failed"
  <2>1. Goto(h, to) /\ snap' = [snap EXCEPT ![h] = None] BY <1>3 DEF Fails, Return
  <2>2. Fits(h, to, None) BY HandlerKinds DEF Fits, ChargingPcs, UpgradingPcs, CronPcs
  <2>3. SnapType' BY <1>0, <2>1, <2>2, MoveType
  <2>4. BalanceType' /\ HistType' /\ RowTyped' /\ BooksType' /\ LocalsType'
    BY <1>0, <1>3, PeriodsAssumption
    DEF Fails, Return, redis, hist, BalanceType, HistType, RowTyped, BooksType, LocalsType
  <2> QED BY <2>3, <2>4, TypePartsNext DEF TypeInv
<1>4. CASE Tick
  <2>1. PICK B, E : Forget(B, E) BY <1>4 DEF Tick
  <2>2. BalanceType' /\ until' \in [EventIds -> Nat] BY <1>0, <2>1, ForgetType
  <2>3. SnapType' BY <1>0, <1>4, StayType DEF Tick
  <2>4. HistType' /\ RowTyped' /\ BooksType' /\ LocalsType'
    BY <1>0, <1>4, <2>2, PeriodsAssumption DEF Tick, hist, bounds, HistType, RowTyped, BooksType, LocalsType
  <2> QED BY <2>2, <2>3, <2>4, TypePartsNext DEF TypeInv
<1>5. ASSUME NEW p \in Periods, Lapse(p) PROVE TypeInv'
  <2>1. PICK B, E : Forget(B, E) BY <1>5 DEF Lapse
  <2>2. BalanceType' /\ until' \in [EventIds -> Nat] BY <1>0, <2>1, ForgetType
  <2>3. SnapType' BY <1>0, <1>5, StayType DEF Lapse
  <2>4. HistType' /\ RowTyped' /\ BooksType' /\ LocalsType'
    BY <1>0, <1>5, <2>2 DEF Lapse, hist, bounds, HistType, RowTyped, BooksType, LocalsType
  <2> QED BY <2>2, <2>3, <2>4, TypePartsNext DEF TypeInv
<1>6. CASE UNCHANGED vars
  <2>1. SnapType' BY <1>0, <1>6, StayType DEF vars
  <2>2. BalanceType' /\ HistType' /\ RowTyped' /\ BooksType' /\ LocalsType'
    BY <1>0, <1>6 DEF vars, redis, hist, bounds, BalanceType, HistType, RowTyped, BooksType, LocalsType
  <2> QED BY <2>1, <2>2, TypePartsNext DEF TypeInv
<1> QED BY <1>1, <1>2, <1>3, <1>4, <1>5, <1>6 DEF Elsewhere

\* Every step is one of these kinds.
LEMMA Kinds ==
  ASSUME [Next]_vars
  PROVE  \/ CreatorStep \/ CronStep \/ Elsewhere
         \/ \E s \in Sessions : SessionStep(s)
         \/ \E u \in Upgraders : UpgraderStep(u)
BY DEF Next, Elsewhere, CreatorStep, UpgraderStep

\* Every step keeps the types.
LEMMA TypeNext == TypeInv /\ CronInv /\ SnapInv /\ [Next]_vars => TypeInv'
BY Kinds, TypeCreator, TypeSession, TypeCron, TypeUpgrade, TypeElsewhere

-----------------------------------------------------------------------------
(* What a step may do to the row and to the other handlers *)

\* Nobody but h moves.
Alone(h) ==
  \A g \in Handlers \ {h} : pc'[g] = pc[g] /\ snap'[g] = snap[g] /\ val'[g] = val[g]

\* A handler that returns moves nobody else.
LEMMA ReturnAlone ==
  ASSUME TypeInv, NEW h \in Handlers, NEW to, Return(h, to)
  PROVE  Alone(h) /\ pc'[h] = to
BY DEF TypeInv, TypeOK, SnapType, Return, Goto, Alone

\* A handler that goes on moves nobody else.
LEMMA GotoAlone ==
  ASSUME TypeInv, NEW h \in Handlers, NEW to, NEW r, NEW v, Goto(h, to),
         snap' = snap \/ snap' = [snap EXCEPT ![h] = r], val' = val \/ val' = [val EXCEPT ![h] = v]
  PROVE  Alone(h) /\ pc'[h] = to
BY DEF TypeInv, TypeOK, SnapType, Goto, Alone

\* A session moves no other handler.
LEMMA SessionAlone ==
  ASSUME TypeInv, NEW s \in Sessions, SessionStep(s) PROVE Alone(s)
<1>0. s \in Handlers BY HandlerKinds
<1>1. CASE ReadEntitlement(s) BY <1>0, <1>1, GotoAlone DEF ReadEntitlement
<1>2. CASE Charge(s)
  <2>1. PICK t : \/ \E v : ChargeTaken(s, snap[s].period, v, t)
                 \/ \E v : ChargeRefused(s, snap[s].period, v, t)
    BY <1>2, ChargeCases
  <2>2. (\E v : Goto(s, "book") /\ snap' = snap /\ val' = [val EXCEPT ![s] = v]) \/ Return(s, "refused")
    BY <2>1 DEF ChargeTaken, ChargeRefused
  <2> QED BY <1>0, <2>2, GotoAlone, ReturnAlone
<1>3. CASE BookCharge(s) BY <1>0, <1>3, GotoAlone DEF BookCharge
<1>4. CASE Adjust(s)
  <2>1. (\E v : Adjusted(s, snap[s].period, v)) \/ Return(s, "refused")
    BY <1>4, AdjustCases
  <2>2. (\E v : Goto(s, "bookAdjust") /\ snap' = snap /\ val' = [val EXCEPT ![s] = v]) \/ Return(s, "refused")
    BY <2>1 DEF Adjusted
  <2> QED BY <1>0, <2>2, GotoAlone, ReturnAlone
<1>5. CASE BookAdjust(s) BY <1>0, <1>5, ReturnAlone DEF BookAdjust
<1> QED BY <1>1, <1>2, <1>3, <1>4, <1>5 DEF SessionStep

\* The creator moves no other handler.
LEMMA CreatorAlone == ASSUME TypeInv, CreatorStep PROVE Alone("creator")
<1>0. "creator" \in Handlers BY HandlerKinds
<1>1. ASSUME NEW q \in Plans, Create(q) PROVE Alone("creator") BY <1>0, <1>1, GotoAlone DEF Create
<1>2. CASE OpenFirstPeriod BY <1>0, <1>2, GotoAlone DEF OpenFirstPeriod
<1>3. CASE BookFirstPeriod BY <1>0, <1>3, ReturnAlone DEF BookFirstPeriod
<1> QED BY <1>1, <1>2, <1>3 DEF CreatorStep

\* The job moves no other handler.
LEMMA CronAlone == ASSUME TypeInv, CronStep PROVE Alone("cron")
<1>0. "cron" \in Handlers BY HandlerKinds
<1>1. CASE SelectDue BY <1>0, <1>1, GotoAlone DEF SelectDue
<1>2. CASE CronRemove BY <1>0, <1>2, ReturnAlone DEF CronRemove
<1>3. CASE ReadOldBalance BY <1>0, <1>3, GotoAlone DEF ReadOldBalance
<1>4. CASE OpenNewPeriod BY <1>0, <1>4, GotoAlone DEF OpenNewPeriod
<1>5. CASE TakeDebt
  <2>1. Goto("cron", "refill") /\ snap' = snap
        /\ (DebtTaken(Until(PeriodEnd(NewPeriod))) \/ DebtFound \/ DebtGuessed)
    BY <1>5, TakeDebtCases
  <2>2. \E v : val' = [val EXCEPT !["cron"] = v]
    BY <2>1 DEF DebtTaken, DebtFound, DebtGuessed
  <2> QED BY <1>0, <2>1, <2>2, GotoAlone
<1>6. CASE BookRefill BY <1>0, <1>6, GotoAlone DEF BookRefill
<1>7. CASE AdvancePeriod BY <1>0, <1>7, ReturnAlone DEF AdvancePeriod
<1> QED BY <1>1, <1>2, <1>3, <1>4, <1>5, <1>6, <1>7 DEF CronStep

\* An upgrade moves no other handler.
LEMMA UpgraderAlone ==
  ASSUME TypeInv, NEW u \in Upgraders, UpgraderStep(u) PROVE Alone(u)
<1>0. u \in Handlers BY HandlerKinds
<1>1. ASSUME NEW q \in Plans, ReadForUpgrade(u, q) PROVE Alone(u)
  BY <1>0, <1>1, GotoAlone DEF ReadForUpgrade
<1>2. CASE OpenForUpgrade(u) BY <1>0, <1>2, GotoAlone DEF OpenForUpgrade
<1>3. CASE ApplyUpgrade(u)
  <2>1. \/ \E v, id, t : UpgradeApplied(u, UpgradePeriod(u), v, id, t)
        \/ UpgradeFound(u, UpgradePeriod(u)) \/ UpgradeRefused(u)
    BY <1>3, UpgradeCases
  <2>2. (\E v : Goto(u, "row") /\ snap' = snap /\ val' = [val EXCEPT ![u] = v]) \/ Return(u, "refused")
    BY <2>1 DEF UpgradeApplied, UpgradeFound, UpgradeRefused
  <2> QED BY <1>0, <2>2, GotoAlone, ReturnAlone
<1>4. CASE StorePlan(u) BY <1>0, <1>4, GotoAlone DEF StorePlan
<1>5. CASE RecordUpgrade(u) BY <1>0, <1>5, ReturnAlone DEF RecordUpgrade
<1> QED BY <1>1, <1>2, <1>3, <1>4, <1>5 DEF UpgraderStep, UpgradeStep

\* The subscription row keeps its period, or is created, or moves on by one.
RowKept == sub' = sub \/ (sub # None /\ sub' # None /\ sub'.period = sub.period)
RowCreated == sub = None /\ sub' # None /\ sub'.period = 0
RowAdvanced ==
  /\ sub # None /\ sub' # None /\ sub'.period = sub.period + 1 /\ Due(sub)
  /\ pc["cron"] = "advance" /\ pc'["cron"] = "idle" /\ sub.period = OldPeriod /\ now' = now
\* A missing subscription is not a row.
LEMMA NoRow == None \notin RowType
BY PeriodsAssumption DEF RowType

\* The job keeps the period of the row or moves it on by one.
LEMMA RowCron ==
  ASSUME TypeInv, CronInv, CronStep PROVE RowKept \/ RowAdvanced
<1>0. RowTyped BY TypeParts DEF TypeInv
<1>1. CASE SelectDue BY <1>1 DEF SelectDue, RowKept
<1>2. CASE CronRemove
  <2>1. Remove /\ sub # None BY <1>2 DEF CronRemove, CronInv
  <2>2. sub' \in RowType /\ sub'.period = sub.period BY <1>0, <2>1, RemoveKeeps
  <2> QED BY <2>1, <2>2, NoRow DEF RowKept
<1>3a. CASE ReadOldBalance BY <1>3a DEF ReadOldBalance, RowKept
<1>3b. CASE OpenNewPeriod BY <1>3b DEF OpenNewPeriod, RowKept
<1>3c. CASE BookRefill BY <1>3c DEF BookRefill, RowKept
<1>4. CASE TakeDebt
  <2>1. sub' = sub BY <1>4, TakeDebtCases
  <2> QED BY <2>1 DEF RowKept
<1>5. CASE AdvancePeriod
  <2>1. /\ pc["cron"] = "advance" /\ sub' = [sub EXCEPT !.period = NewPeriod] /\ now' = now
        /\ Return("cron", "idle")
    BY <1>5 DEF AdvancePeriod
  <2>2. pc'["cron"] = "idle" BY <2>1, HandlerKinds, ReturnAlone
  <2>3. sub # None /\ sub.period = OldPeriod /\ PeriodEnd(OldPeriod) <= now BY <2>1 DEF CronInv
  <2>4. sub \in RowType BY <1>0, <2>3 DEF RowTyped
  <2>5. NewPeriod \in Periods /\ NewPeriod = OldPeriod + 1 BY <2>1, CronData
  <2>6. sub' \in RowType /\ sub'.period = NewPeriod BY <2>1, <2>4, <2>5 DEF RowType
  <2>7. sub' # None BY <2>6, NoRow
  <2> QED BY <2>1, <2>2, <2>3, <2>5, <2>6, <2>7 DEF RowAdvanced, Due
<1> QED BY <1>1, <1>2, <1>3a, <1>3b, <1>3c, <1>4, <1>5 DEF CronStep

\* So does every step, but for the creation of the row.
LEMMA RowMoves ==
  ASSUME TypeInv, CronInv, SnapInv, [Next]_vars
  PROVE  RowKept \/ RowCreated \/ RowAdvanced
<1>0. RowTyped BY TypeParts DEF TypeInv
<1>1. CASE CreatorStep
  <2>1. ASSUME NEW q \in Plans, Create(q) PROVE RowCreated
    <3>1. sub = None /\ sub' = Row(q, 0, TRUE, FALSE) BY <2>1 DEF Create
    <3>2. Row(q, 0, TRUE, FALSE) \in RowType /\ Row(q, 0, TRUE, FALSE).period = 0
      BY PeriodFacts DEF Row, RowType
    <3> QED BY <3>1, <3>2, NoRow DEF RowCreated
  <2>2. CASE OpenFirstPeriod BY <2>2 DEF OpenFirstPeriod, RowKept
  <2>3. CASE BookFirstPeriod BY <2>3 DEF BookFirstPeriod, RowKept
  <2> QED BY <1>1, <2>1, <2>2, <2>3 DEF CreatorStep
<1>2. ASSUME NEW s \in Sessions, SessionStep(s) PROVE sub' = sub
  BY <1>2, ChargeCases, AdjustCases DEF SessionStep, ReadEntitlement, BookCharge, BookAdjust
<1>3. CASE CronStep BY <1>3, RowCron
<1>4. ASSUME NEW u \in Upgraders, UpgraderStep(u) PROVE RowKept
  <2>1. ASSUME NEW q \in Plans, ReadForUpgrade(u, q) PROVE RowKept BY <2>1 DEF ReadForUpgrade, RowKept
  <2>2. CASE OpenForUpgrade(u) BY <2>2 DEF OpenForUpgrade, RowKept
  <2>3. CASE ApplyUpgrade(u) BY <2>3, UpgradeCases DEF RowKept
  <2>4. CASE StorePlan(u)
    <3>1. pc[u] = "row" /\ sub' = [sub EXCEPT !.plan = snap[u].plan] BY <2>4 DEF StorePlan
    <3>2. snap[u].plan \in Plans BY <3>1, UpgradeData DEF UpgradingPcs
    <3>3. sub # None BY <3>1, HandlerKinds DEF SnapInv, Behind, UpgradingPcs, Reached
    <3>4. sub \in RowType BY <1>0, <3>3 DEF RowTyped
    <3>5. sub' \in RowType /\ sub'.period = sub.period BY <3>1, <3>2, <3>4 DEF RowType
    <3> QED BY <3>3, <3>5, NoRow DEF RowKept
  <2>5. CASE RecordUpgrade(u) BY <2>5 DEF RecordUpgrade, RowKept
  <2> QED BY <1>4, <2>1, <2>2, <2>3, <2>4, <2>5 DEF UpgraderStep, UpgradeStep
<1>5. CASE Elsewhere
  <2>1. CASE RequestRemoval
    <3>1. Remove /\ sub # None BY <2>1 DEF RequestRemoval
    <3>2. sub' \in RowType /\ sub'.period = sub.period BY <1>0, <3>1, RemoveKeeps
    <3> QED BY <3>1, <3>2, NoRow DEF RowKept
  <2>2. ASSUME NEW q \in Plans, NEW cancel \in BOOLEAN, Update(q, cancel) PROVE RowKept
    <3>1. sub # None /\ sub' = [sub EXCEPT !.plan = q, !.cancel = cancel] BY <2>2 DEF Update
    <3>2. sub \in RowType BY <1>0, <3>1 DEF RowTyped
    <3>3. sub' \in RowType /\ sub'.period = sub.period BY <3>1, <3>2 DEF RowType
    <3> QED BY <3>1, <3>3, NoRow DEF RowKept
  <2>3. ASSUME NEW h \in Handlers, Fails(h) PROVE RowKept BY <2>3 DEF Fails, RowKept
  <2>4. CASE Tick BY <2>4 DEF Tick, RowKept
  <2>5. ASSUME NEW p \in Periods, Lapse(p) PROVE RowKept BY <2>5 DEF Lapse, RowKept
  <2>6. CASE UNCHANGED vars BY <2>6 DEF vars, RowKept
  <2> QED BY <1>5, <2>1, <2>2, <2>3, <2>4, <2>5, <2>6 DEF Elsewhere
<1> QED BY <1>1, <1>2, <1>3, <1>4, <1>5, Kinds DEF RowKept

\* A period that was reached stays reached.
LEMMA ReachedStays ==
  ASSUME TypeInv, RowKept \/ RowCreated \/ RowAdvanced, NEW p \in Nat, Reached(p)
  PROVE  sub' # None /\ p <= sub'.period
<1>1. sub # None /\ p <= sub.period BY DEF Reached
<1>2. sub \in RowType BY <1>1, TypeParts DEF TypeInv, RowTyped
<1>3. sub.period \in Nat BY <1>2, PeriodFacts DEF RowType
<1>4. CASE RowKept BY <1>1, <1>4 DEF RowKept
<1>5. CASE RowAdvanced BY <1>1, <1>3, <1>5 DEF RowAdvanced
<1> QED BY <1>1, <1>4, <1>5 DEF RowCreated

\* Time passes only while the job rests, and a failure sends it to rest.
LEMMA NowMoves ==
  ASSUME TypeInv, [Next]_vars
  PROVE  now' = now \/ (now' = now + 1 /\ pc["cron"] = "idle" /\ UNCHANGED <<pc, snap, sub>>)
<1>1. ASSUME NEW s \in Sessions, SessionStep(s) PROVE now' = now
  BY <1>1, ChargeCases, AdjustCases DEF SessionStep, ReadEntitlement, BookCharge, BookAdjust
<1>2. CASE CreatorStep BY <1>2 DEF CreatorStep, Create, OpenFirstPeriod, BookFirstPeriod
<1>3. CASE CronStep
  BY <1>3, TakeDebtCases
  DEF CronStep, SelectDue, CronRemove, ReadOldBalance, OpenNewPeriod, BookRefill, AdvancePeriod
<1>4. ASSUME NEW u \in Upgraders, UpgraderStep(u) PROVE now' = now
  BY <1>4, UpgradeCases
  DEF UpgraderStep, UpgradeStep, ReadForUpgrade, OpenForUpgrade, StorePlan, RecordUpgrade
<1>5. CASE Tick
  BY <1>5, HandlerKinds DEF Tick, TypeInv, SnapType, Fits, AtRest, CronPcs
<1>6. CASE Elsewhere /\ ~Tick
  BY <1>6 DEF Elsewhere, RequestRemoval, Update, Fails, Lapse, vars
<1> QED BY <1>1, <1>2, <1>3, <1>4, <1>5, <1>6, Kinds

\* A fault stops one handler; the other steps move none.
LEMMA ElsewhereAlone ==
  ASSUME TypeInv, Elsewhere
  PROVE  \/ UNCHANGED <<pc, snap, val>>
         \/ \E h \in Handlers : Alone(h) /\ pc'[h] = IF h = "cron" THEN "idle" ELSE "failed"
<1>1. ASSUME NEW h \in Handlers, Fails(h) PROVE Alone(h) /\ pc'[h] = IF h = "cron" THEN "idle" ELSE "failed"
  BY <1>1, ReturnAlone DEF Fails
<1>2. CASE RequestRemoval BY <1>2 DEF RequestRemoval
<1>3. CASE \E q \in Plans, cancel \in BOOLEAN : Update(q, cancel) BY <1>3 DEF Update
<1>4. CASE Tick BY <1>4 DEF Tick
<1>5. CASE \E p \in Periods : Lapse(p) BY <1>5 DEF Lapse
<1>6. CASE UNCHANGED vars BY <1>6 DEF vars
<1> QED BY <1>1, <1>2, <1>3, <1>4, <1>5, <1>6 DEF Elsewhere

\* A handler gets its snapshot from the present row and keeps it to the end.
LEMMA SessionSnap ==
  ASSUME TypeInv, NEW s \in Sessions, SessionStep(s), pc'[s] \in ChargingPcs
  PROVE  \/ pc[s] \in ChargingPcs /\ snap'[s] = snap[s]
         \/ sub # None /\ snap'[s] = sub /\ sub' = sub
<1>0. s \in Handlers /\ DOMAIN pc = Handlers /\ DOMAIN snap = Handlers
  BY HandlerKinds DEF TypeInv, SnapType
<1>1. CASE ReadEntitlement(s) BY <1>0, <1>1 DEF ReadEntitlement
<1>2. CASE Charge(s)
  <2>1. pc[s] = "charge" /\ (UNCHANGED snap \/ Return(s, "refused"))
    BY <1>2, ChargeCases DEF ChargeTaken, ChargeRefused
  <2>2. ~Return(s, "refused") BY <1>0, ReturnAlone DEF ChargingPcs
  <2> QED BY <2>1, <2>2 DEF ChargingPcs
<1>3. CASE BookCharge(s) BY <1>3 DEF BookCharge, ChargingPcs
<1>4. CASE Adjust(s)
  <2>1. pc[s] = "running" /\ (UNCHANGED snap \/ Return(s, "refused"))
    BY <1>4, AdjustCases DEF Adjusted
  <2>2. ~Return(s, "refused") BY <1>0, ReturnAlone DEF ChargingPcs
  <2> QED BY <2>1, <2>2 DEF ChargingPcs
<1>5. CASE BookAdjust(s) BY <1>0, <1>5, ReturnAlone DEF BookAdjust, ChargingPcs
<1> QED BY <1>1, <1>2, <1>3, <1>4, <1>5 DEF SessionStep

\* What an upgrade works on it has just read or had before.
LEMMA UpgraderSnap ==
  ASSUME TypeInv, NEW u \in Upgraders, UpgraderStep(u), pc'[u] \in UpgradingPcs
  PROVE  \/ pc[u] \in UpgradingPcs /\ snap'[u] = snap[u]
         \/ sub # None /\ snap'[u].row = sub /\ sub' = sub
<1>0. u \in Handlers /\ DOMAIN pc = Handlers /\ DOMAIN snap = Handlers
  BY HandlerKinds DEF TypeInv, SnapType
<1>1. ASSUME NEW q \in Plans, ReadForUpgrade(u, q) PROVE sub # None /\ snap'[u].row = sub /\ sub' = sub
  BY <1>0, <1>1 DEF ReadForUpgrade
<1>2. CASE OpenForUpgrade(u) BY <1>2 DEF OpenForUpgrade, UpgradingPcs
<1>3. CASE ApplyUpgrade(u)
  <2>1. pc[u] = "delta" /\ (UNCHANGED snap \/ Return(u, "refused"))
    BY <1>3, UpgradeCases DEF UpgradeApplied, UpgradeFound, UpgradeRefused
  <2>2. ~Return(u, "refused") BY <1>0, ReturnAlone DEF UpgradingPcs
  <2> QED BY <2>1, <2>2 DEF UpgradingPcs
<1>4. CASE StorePlan(u) BY <1>4 DEF StorePlan, UpgradingPcs
<1>5. CASE RecordUpgrade(u) BY <1>0, <1>5, ReturnAlone DEF RecordUpgrade, UpgradingPcs
<1> QED BY <1>1, <1>2, <1>3, <1>4, <1>5 DEF UpgraderStep, UpgradeStep

\* The job works on the due row it selected until it has moved it on.
LEMMA CronSnap ==
  ASSUME TypeInv, CronStep, pc'["cron"] # "idle"
  PROVE  \/ pc["cron"] # "idle" /\ snap'["cron"] = snap["cron"] /\ ~RowAdvanced
         \/ sub # None /\ snap'["cron"] = sub /\ sub' = sub /\ Due(sub)
<1>0. "cron" \in Handlers /\ DOMAIN pc = Handlers /\ DOMAIN snap = Handlers
  BY HandlerKinds DEF TypeInv, SnapType
<1>1. CASE SelectDue BY <1>0, <1>1 DEF SelectDue
<1>2. CASE CronRemove BY <1>0, <1>2, ReturnAlone DEF CronRemove
<1>3. CASE ReadOldBalance BY <1>3 DEF ReadOldBalance, RowAdvanced
<1>4. CASE OpenNewPeriod BY <1>4 DEF OpenNewPeriod, RowAdvanced
<1>5. CASE TakeDebt
  <2>1. pc["cron"] = "debt" /\ snap' = snap BY <1>5, TakeDebtCases
  <2> QED BY <2>1 DEF RowAdvanced
<1>6. CASE BookRefill BY <1>6 DEF BookRefill, RowAdvanced
<1>7. CASE AdvancePeriod BY <1>0, <1>7, ReturnAlone DEF AdvancePeriod
<1> QED BY <1>1, <1>2, <1>3, <1>4, <1>5, <1>6, <1>7 DEF CronStep

\* The creator works on the row it inserted.
LEMMA CreatorSnap ==
  ASSUME TypeInv, CreatorStep, pc'["creator"] \in {"open", "book"}
  PROVE  pc["creator"] \in {"open", "book"} \/ RowCreated
<1>0. "creator" \in Handlers /\ DOMAIN pc = Handlers BY HandlerKinds DEF TypeInv, SnapType
<1>1. ASSUME NEW q \in Plans, Create(q) PROVE RowCreated
  <2>1. sub = None /\ sub' = Row(q, 0, TRUE, FALSE) BY <1>1 DEF Create
  <2>2. Row(q, 0, TRUE, FALSE) \in RowType /\ Row(q, 0, TRUE, FALSE).period = 0
    BY PeriodFacts DEF Row, RowType
  <2> QED BY <2>1, <2>2, NoRow DEF RowCreated
<1>2. CASE OpenFirstPeriod BY <1>2 DEF OpenFirstPeriod
<1>3. CASE BookFirstPeriod BY <1>0, <1>3, ReturnAlone DEF BookFirstPeriod
<1> QED BY <1>1, <1>2, <1>3 DEF CreatorStep

-----------------------------------------------------------------------------
(* What the snapshots have to do with the row *)

\* Whoever is under way after a step was so before, or has just read the row.
Keeps(h) == pc'[h] = pc[h] /\ snap'[h] = snap[h]

\* A step is one handler moving alone, or none.
LEMMA Movers ==
  ASSUME TypeInv, [Next]_vars
  PROVE  \/ CreatorStep /\ Alone("creator")
         \/ CronStep /\ Alone("cron")
         \/ \E s \in Sessions : SessionStep(s) /\ Alone(s)
         \/ \E u \in Upgraders : UpgraderStep(u) /\ Alone(u)
         \/ Elsewhere /\ UNCHANGED <<pc, snap, val>>
         \/ Elsewhere /\ \E h \in Handlers : Alone(h) /\ pc'[h] = IF h = "cron" THEN "idle" ELSE "failed"
BY Kinds, CreatorAlone, CronAlone, SessionAlone, UpgraderAlone, ElsewhereAlone

\* The period in a handler's hands stays one that was reached.
LEMMA SnapNext == TypeInv /\ CronInv /\ SnapInv /\ [Next]_vars => SnapInv'
<1> SUFFICES ASSUME TypeInv, CronInv, SnapInv, [Next]_vars, NEW h \in Handlers
             PROVE  Behind(h, pc[h], snap[h])'
  BY DEF SnapInv
<1>1. RowKept \/ RowCreated \/ RowAdvanced BY RowMoves
<1>2. SUFFICES ASSUME \/ h \in Sessions /\ pc'[h] \in ChargingPcs
                      \/ h \in Upgraders /\ pc'[h] \in UpgradingPcs
                      \/ h = "creator" /\ pc'[h] \in {"open", "book"}
               PROVE  Behind(h, pc[h], snap[h])'
  BY DEF Behind
<1>3. CASE h \in Sessions /\ pc'[h] \in ChargingPcs
  <2>0. h # "cron" /\ h # "creator" /\ h \notin Upgraders BY <1>3, HandlerKinds
  <2>1. \/ pc[h] \in ChargingPcs /\ snap'[h] = snap[h]
        \/ sub # None /\ snap'[h] = sub /\ sub' = sub
    <3>1. CASE SessionStep(h) BY <1>3, <3>1, SessionSnap
    <3>2. CASE Keeps(h) BY <1>3, <3>2 DEF Keeps
    <3>3. SessionStep(h) \/ Keeps(h) \/ pc'[h] = "failed"
      BY <2>0, Movers DEF Alone, Keeps
    <3> QED BY <1>3, <3>1, <3>2, <3>3 DEF ChargingPcs
  <2>2. CASE pc[h] \in ChargingPcs /\ snap'[h] = snap[h]
    <3>1. snap[h].period \in Nat BY <1>3, <2>2, SessionData, PeriodFacts
    <3>2. Reached(snap[h].period) BY <1>3, <2>2 DEF SnapInv, Behind
    <3>3. sub' # None /\ snap'[h].period <= sub'.period BY <1>1, <2>2, <3>1, <3>2, ReachedStays
    <3> QED BY <2>0, <3>3 DEF Behind, Reached
  <2>3. CASE sub # None /\ snap'[h] = sub /\ sub' = sub
    <3>1. sub \in RowType BY <2>3, TypeParts DEF TypeInv, RowTyped
    <3>a. sub.period \in Nat BY <3>1, PeriodFacts DEF RowType
    <3>2. sub.period <= sub.period BY <3>a
    <3> QED BY <2>0, <2>3, <3>2 DEF Behind, Reached
  <2> QED BY <2>1, <2>2, <2>3
<1>4. CASE h \in Upgraders /\ pc'[h] \in UpgradingPcs
  <2>0. h # "cron" /\ h # "creator" /\ h \notin Sessions BY <1>4, HandlerKinds
  <2>1. \/ pc[h] \in UpgradingPcs /\ snap'[h] = snap[h]
        \/ sub # None /\ snap'[h].row = sub /\ sub' = sub
    <3>1. CASE UpgraderStep(h) BY <1>4, <3>1, UpgraderSnap
    <3>2. CASE Keeps(h) BY <1>4, <3>2 DEF Keeps
    <3>3. UpgraderStep(h) \/ Keeps(h) \/ pc'[h] = "failed"
      BY <2>0, Movers DEF Alone, Keeps
    <3> QED BY <1>4, <3>1, <3>2, <3>3 DEF UpgradingPcs
  <2>2. CASE pc[h] \in UpgradingPcs /\ snap'[h] = snap[h]
    <3>1. snap[h].row.period \in Nat BY <1>4, <2>2, UpgradeData, PeriodFacts DEF UpgradePeriod
    <3>2. Reached(snap[h].row.period) BY <1>4, <2>2 DEF SnapInv, Behind
    <3>3. sub' # None /\ snap'[h].row.period <= sub'.period BY <1>1, <2>2, <3>1, <3>2, ReachedStays
    <3> QED BY <2>0, <3>3 DEF Behind, Reached
  <2>3. CASE sub # None /\ snap'[h].row = sub /\ sub' = sub
    <3>1. sub \in RowType BY <2>3, TypeParts DEF TypeInv, RowTyped
    <3>a. sub.period \in Nat BY <3>1, PeriodFacts DEF RowType
    <3>2. sub.period <= sub.period BY <3>a
    <3> QED BY <2>0, <2>3, <3>2 DEF Behind, Reached
  <2> QED BY <2>1, <2>2, <2>3
<1>5. CASE h = "creator" /\ pc'[h] \in {"open", "book"}
  <2>0. h # "cron" /\ h \notin Upgraders /\ h \notin Sessions BY <1>5, HandlerKinds
  <2>1. pc[h] \in {"open", "book"} \/ RowCreated
    <3>1. CASE CreatorStep BY <1>5, <3>1, CreatorSnap
    <3>2. CASE Keeps(h) BY <1>5, <3>2 DEF Keeps
    <3>3. CreatorStep \/ Keeps(h) \/ pc'[h] = "failed"
      BY <2>0, Movers DEF Alone, Keeps
    <3> QED BY <1>5, <3>1, <3>2, <3>3
  <2>2. CASE pc[h] \in {"open", "book"}
    <3>1. Reached(0) BY <1>5, <2>2 DEF SnapInv, Behind
    <3>2. sub' # None /\ 0 <= sub'.period BY <1>1, <3>1, ReachedStays
    <3> QED BY <2>0, <3>2 DEF Behind, Reached
  <2>3. CASE RowCreated BY <2>0, <2>3 DEF RowCreated, Behind, Reached
  <2> QED BY <2>1, <2>2, <2>3
<1> QED BY <1>2, <1>3, <1>4, <1>5

\* While the job is at work nobody else moves the row to another period.
LEMMA CronNext == TypeInv /\ CronInv /\ SnapInv /\ [Next]_vars => CronInv'
<1> SUFFICES ASSUME TypeInv, CronInv, SnapInv, [Next]_vars, pc'["cron"] # "idle"
             PROVE  sub' # None /\ sub'.period = snap'["cron"].period /\ PeriodEnd(snap'["cron"].period) <= now'
  BY DEF CronInv, OldPeriod
<1>1. RowKept \/ RowCreated \/ RowAdvanced BY RowMoves
<1>2. now' = now \/ (now' = now + 1 /\ pc["cron"] = "idle" /\ UNCHANGED <<pc, snap, sub>>) BY NowMoves
<1>3. now' = now BY <1>2
<1>4. \/ pc["cron"] # "idle" /\ snap'["cron"] = snap["cron"] /\ ~RowAdvanced
      \/ sub # None /\ snap'["cron"] = sub /\ sub' = sub /\ Due(sub)
  <2>1. CASE CronStep BY <2>1, CronSnap
  <2>2. CASE Keeps("cron") BY <2>2 DEF Keeps, RowAdvanced
  <2>3. CronStep \/ Keeps("cron") \/ pc'["cron"] = "idle"
    BY HandlerKinds, Movers DEF Alone, Keeps
  <2> QED BY <2>1, <2>2, <2>3
<1>5. CASE pc["cron"] # "idle" /\ snap'["cron"] = snap["cron"] /\ ~RowAdvanced
  BY <1>1, <1>3, <1>5 DEF CronInv, OldPeriod, RowKept, RowCreated
<1>6. CASE sub # None /\ snap'["cron"] = sub /\ sub' = sub /\ Due(sub)
  BY <1>3, <1>6 DEF Due
<1> QED BY <1>4, <1>5, <1>6

-----------------------------------------------------------------------------
(* What Redis holds for the periods not yet reached, and who was opened *)

Untouched(q) ==
  /\ remaining'[q] = remaining[q] /\ expiry'[q] = expiry[q] /\ owed'[q] = owed[q]
  /\ until'[<<"refill", q>>] = until[<<"refill", q>>]
\* A step that works on periods the subscription has reached, if on any.
Quiet ==
  /\ \A q \in Periods : Reached(q) \/ Untouched(q)
  /\ \A q \in Periods : until'[<<"refill", q>>] = until[<<"refill", q>>]
  /\ taken' = taken

\* A step that leaves Redis alone is quiet.
LEMMA QuietStill ==
  ASSUME UNCHANGED <<remaining, expiry, owed, until, taken>> PROVE Quiet
BY DEF Quiet, Untouched

\* So is one that stores the balance of a reached period.
LEMMA QuietStore ==
  ASSUME TypeInv, NEW p \in Periods, Reached(p), NEW v, NEW t, Store(p, v, t),
         owed' = owed \/ owed' = [owed EXCEPT ![p] = 0], UNCHANGED taken,
         \A q \in Periods : until'[<<"refill", q>>] = until[<<"refill", q>>]
  PROVE  Quiet
BY DEF TypeInv, TypeOK, Store, Quiet, Untouched

\* And one that opens it.
LEMMA QuietStoreIfMissing ==
  ASSUME TypeInv, NEW p \in Periods, Reached(p), NEW v, NEW t, StoreIfMissing(p, v, t),
         UNCHANGED <<taken, until>>
  PROVE  Quiet
BY DEF TypeInv, TypeOK, StoreIfMissing, InitRemainingIfMissing, Quiet, Untouched

\* Sessions work on reached periods.
LEMMA SessionQuiet ==
  ASSUME TypeInv, SnapInv, NEW s \in Sessions, SessionStep(s) PROVE Quiet
<1>0. s \in Handlers BY HandlerKinds
<1>1. CASE ReadEntitlement(s) BY <1>1, QuietStill DEF ReadEntitlement, redis, hist
<1>2. CASE Charge(s)
  <2> DEFINE p == snap[s].period
  <2>1. pc[s] = "charge" /\ p \in Periods /\ UNCHANGED <<until, taken>> BY <1>2, ChargeCases
  <2>2. Reached(p) BY <1>0, <2>1 DEF SnapInv, Behind, ChargingPcs
  <2>3. PICK t, v : ChargeTaken(s, p, v, t) \/ ChargeRefused(s, p, v, t) BY <1>2, ChargeCases
  <2> HIDE DEF p
  <2>4. CASE ChargeTaken(s, p, v, t) BY <2>1, <2>2, <2>4, QuietStore DEF ChargeTaken
  <2>5. CASE ChargeRefused(s, p, v, t) BY <2>1, <2>2, <2>5, QuietStoreIfMissing DEF ChargeRefused
  <2> QED BY <2>3, <2>4, <2>5
<1>3. CASE BookCharge(s) BY <1>3, QuietStill DEF BookCharge, redis, hist
<1>4. CASE Adjust(s)
  <2> DEFINE p == snap[s].period
  <2>1. pc[s] = "running" /\ p \in Periods /\ UNCHANGED <<until, taken, owed>> BY <1>4, AdjustCases
  <2>2. Reached(p) BY <1>0, <2>1 DEF SnapInv, Behind, ChargingPcs
  <2>3. (\E v : Adjusted(s, p, v)) \/ UNCHANGED <<remaining, expiry, low>> BY <1>4, AdjustCases
  <2> HIDE DEF p
  <2>4. ASSUME NEW v, Adjusted(s, p, v) PROVE Quiet
    <3>1. Store(p, v, now + AdjustTtl) BY <2>4 DEF Adjusted
    <3> QED BY <2>1, <2>2, <3>1, QuietStore
  <2>5. CASE UNCHANGED <<remaining, expiry, low>> BY <2>1, <2>5, QuietStill
  <2> QED BY <2>3, <2>4, <2>5
<1>5. CASE BookAdjust(s) BY <1>5, QuietStill DEF BookAdjust, redis, hist
<1> QED BY <1>1, <1>2, <1>3, <1>4, <1>5 DEF SessionStep

\* Upgrades work on reached periods.
LEMMA UpgraderQuiet ==
  ASSUME TypeInv, SnapInv, NEW u \in Upgraders, UpgraderStep(u) PROVE Quiet
<1>0. u \in Handlers BY HandlerKinds
<1>1. ASSUME NEW q \in Plans, ReadForUpgrade(u, q) PROVE Quiet
  BY <1>1, QuietStill DEF ReadForUpgrade, redis, hist
<1>a. ASSUME pc[u] \in UpgradingPcs PROVE UpgradePeriod(u) \in Periods /\ Reached(UpgradePeriod(u))
  BY <1>0, <1>a, UpgradeData DEF SnapInv, Behind, UpgradePeriod
<1>2. CASE OpenForUpgrade(u)
  <2>1. /\ pc[u] \in UpgradingPcs /\ UNCHANGED <<taken, until>>
        /\ \E v, t : StoreIfMissing(UpgradePeriod(u), v, t)
    BY <1>2 DEF OpenForUpgrade, UpgradingPcs
  <2> QED BY <1>a, <2>1, QuietStoreIfMissing
<1>3. CASE ApplyUpgrade(u)
  <2> DEFINE p == UpgradePeriod(u)
             id == <<"upgrade", p, snap[u].plan>>
             t == Until(PeriodEnd(p))
  <2>1. pc[u] = "delta" /\ UNCHANGED <<owed, taken>>
        /\ \/ \E v : UpgradeApplied(u, p, v, id, t)
           \/ UpgradeFound(u, p) \/ UpgradeRefused(u)
    BY <1>3, UpgradeCases
  <2>2. p \in Periods /\ Reached(p) /\ snap[u].plan \in Plans
    BY <1>a, <2>1, UpgradeData DEF UpgradingPcs
  <2>3. \A q \in Periods : <<"refill", q>> # id /\ <<"refill", q>> \in EventIds BY <2>2, Ids
  <2> HIDE DEF p, id, t
  <2>4. ASSUME NEW v, UpgradeApplied(u, p, v, id, t) PROVE Quiet
    <3>1. Store(p, v, t) /\ until' = [until EXCEPT ![id] = t] BY <2>4 DEF UpgradeApplied
    <3>2. \A q \in Periods : until'[<<"refill", q>>] = until[<<"refill", q>>]
      BY <2>3, <3>1 DEF TypeInv, TypeOK
    <3> QED BY <2>1, <2>2, <3>1, <3>2, QuietStore
  <2>5. CASE UpgradeFound(u, p) \/ UpgradeRefused(u)
    BY <2>1, <2>5, QuietStill DEF UpgradeFound, UpgradeRefused
  <2> QED BY <2>1, <2>4, <2>5
<1>4. CASE StorePlan(u) BY <1>4, QuietStill DEF StorePlan, redis, hist
<1>5. CASE RecordUpgrade(u) BY <1>5, QuietStill DEF RecordUpgrade, redis, hist
<1> QED BY <1>1, <1>2, <1>3, <1>4, <1>5 DEF UpgraderStep, UpgradeStep

\* The creator works on the first period.
LEMMA CreatorQuiet == ASSUME TypeInv, SnapInv, CreatorStep PROVE Quiet
<1>1. ASSUME NEW q \in Plans, Create(q) PROVE Quiet BY <1>1, QuietStill DEF Create, redis, hist
<1>2. CASE OpenFirstPeriod
  <2>1. pc["creator"] = "open" /\ UNCHANGED <<taken, until>> /\ \E v, t : StoreIfMissing(0, v, t)
    BY <1>2 DEF OpenFirstPeriod
  <2>2. Reached(0) BY <2>1, HandlerKinds DEF SnapInv, Behind
  <2> QED BY <2>1, <2>2, PeriodFacts, QuietStoreIfMissing
<1>3. CASE BookFirstPeriod BY <1>3, QuietStill DEF BookFirstPeriod, redis, hist
<1> QED BY <1>1, <1>2, <1>3 DEF CreatorStep

\* Only the job, time and expiry touch a period not yet reached.
LEMMA QuietSteps ==
  ASSUME TypeInv, SnapInv, [Next]_vars
  PROVE  Quiet \/ OpenNewPeriod \/ TakeDebt \/ Tick \/ \E p \in Periods : Lapse(p)
<1>1. CASE CronStep /\ ~OpenNewPeriod /\ ~TakeDebt
  <2>1. UNCHANGED <<redis, hist>>
    BY <1>1 DEF CronStep, SelectDue, CronRemove, ReadOldBalance, BookRefill, AdvancePeriod
  <2> QED BY <2>1, QuietStill DEF redis, hist
<1>2. CASE Elsewhere /\ ~Tick /\ ~\E p \in Periods : Lapse(p)
  <2>1. UNCHANGED <<redis, hist>>
    BY <1>2 DEF Elsewhere, RequestRemoval, Update, Fails, vars
  <2> QED BY <2>1, QuietStill DEF redis, hist
<1> QED BY <1>1, <1>2, Kinds, SessionQuiet, UpgraderQuiet, CreatorQuiet
\* FutureInv of one period.
Fresh(p) ==
  /\ until[<<"refill", p>>] > 0 => remaining[p] # Missing /\ expiry[p] = until[<<"refill", p>>]
  /\ remaining[p] # Missing /\ until[<<"refill", p>>] = 0 => owed[p] = 0 /\ remaining[p] >= 0

\* A future period that nobody touches stays as FutureInv says.
LEMMA FreshUntouched ==
  ASSUME NEW p \in Periods, Fresh(p), Untouched(p) PROVE Fresh(p)'
BY DEF Fresh, Untouched

\* The balance of a future period holds its allowance less the debt.
LEMMA FutureNext ==
  TypeInv /\ CronInv /\ SnapInv /\ FutureInv /\ [Next]_vars => FutureInv'
<1> SUFFICES ASSUME TypeInv, CronInv, SnapInv, FutureInv, [Next]_vars,
                    NEW p \in Periods, ~(sub' # None /\ p <= sub'.period)
             PROVE  Fresh(p)'
  BY DEF FutureInv, Fresh, Reached
<1>0. BalanceType /\ HistType /\ BooksType /\ p \in Nat BY TypeParts, PeriodFacts DEF TypeInv
<1>1. ~Reached(p)
  <2>1. RowKept \/ RowCreated \/ RowAdvanced BY RowMoves
  <2> QED BY <1>0, <2>1, ReachedStays
<1>2. Fresh(p) BY <1>1 DEF FutureInv, Fresh
<1>3. <<"refill", p>> \in EventIds /\ <<"refill", p>>[2] = p /\ until[<<"refill", p>>] \in Nat
  BY <1>0, Ids DEF BooksType
<1>4. CASE Quiet BY <1>1, <1>2, <1>4, FreshUntouched DEF Quiet
<1>5. CASE OpenNewPeriod
  <2>1. pc["cron"] = "open" /\ until' = until
        /\ StoreIfMissing(NewPeriod, Allowance, Until(PeriodEnd(NewPeriod)))
    BY <1>5 DEF OpenNewPeriod
  <2>2. NewPeriod \in Periods /\ Allowance \in Nat BY <2>1, CronData
  <2>3. CASE p = NewPeriod /\ remaining[p] = Missing
    <3>1. remaining'[p] = Allowance /\ owed'[p] = 0
      BY <1>0, <2>1, <2>2, <2>3
      DEF StoreIfMissing, InitRemainingIfMissing, BalanceType, HistType
    <3>2. until'[<<"refill", p>>] = 0 BY <1>2, <1>3, <2>1, <2>3 DEF Fresh
    <3> QED BY <2>2, <3>1, <3>2 DEF Fresh
  <2>4. CASE p # NewPeriod \/ remaining[p] # Missing
    <3>1. Untouched(p)
      BY <1>0, <2>1, <2>2, <2>4
      DEF StoreIfMissing, InitRemainingIfMissing, BalanceType, HistType, Untouched
    <3> QED BY <1>2, <3>1, FreshUntouched
  <2> QED BY <2>3, <2>4
<1>6. CASE TakeDebt
  <2> DEFINE t == Until(PeriodEnd(NewPeriod))
  <2>1. pc["cron"] = "debt" /\ (DebtTaken(t) \/ DebtFound \/ DebtGuessed) BY <1>6, TakeDebtCases
  <2>2. NewPeriod \in Periods /\ t \in Nat \ {0} /\ Debt \in Nat BY <2>1, CronData
  <2> HIDE DEF t
  <2>3. CASE DebtTaken(t) /\ p = NewPeriod
    <3>1. /\ remaining[NewPeriod] \in Nat /\ Store(NewPeriod, remaining[NewPeriod] - Debt, t)
          /\ until' = [until EXCEPT ![<<"refill", p>>] = t]
      BY <2>3 DEF DebtTaken, RefillId
    <3>2. remaining'[p] \in Int /\ expiry'[p] = t
      BY <1>0, <2>2, <2>3, <3>1 DEF Store, BalanceType
    <3>3. until'[<<"refill", p>>] = t BY <1>0, <1>3, <3>1 DEF BooksType
    <3> QED BY <2>2, <3>2, <3>3, MissingAssumption DEF Fresh
  <2>4. CASE DebtTaken(t) /\ p # NewPeriod
    <3>1. /\ Store(NewPeriod, remaining[NewPeriod] - Debt, t)
          /\ until' = [until EXCEPT ![<<"refill", NewPeriod>>] = t]
          /\ owed' = [owed EXCEPT ![NewPeriod] = @ + Debt]
      BY <2>4 DEF DebtTaken, RefillId
    <3>2. <<"refill", p>> # <<"refill", NewPeriod>> BY <2>4
    <3>3. Untouched(p)
      BY <1>0, <1>3, <2>2, <2>4, <3>1, <3>2 DEF Store, BalanceType, HistType, BooksType, Untouched
    <3> QED BY <1>2, <3>3, FreshUntouched
  <2>5. CASE DebtFound \/ DebtGuessed
    <3>1. Untouched(p) BY <2>5 DEF DebtFound, DebtGuessed, Untouched
    <3> QED BY <1>2, <3>1, FreshUntouched
  <2> QED BY <2>1, <2>3, <2>4, <2>5
<1>7. CASE Tick
  <2>1. /\ Forget({q \in Periods : expiry[q] <= now + 1}, {e \in EventIds : until[e] <= now + 1})
        /\ owed' = owed
    BY <1>7 DEF Tick, hist
  <2>2. /\ remaining'[p] = IF expiry[p] <= now + 1 THEN Missing ELSE remaining[p]
        /\ expiry'[p] = IF expiry[p] <= now + 1 THEN 0 ELSE expiry[p]
        /\ until'[<<"refill", p>>] = IF until[<<"refill", p>>] <= now + 1 THEN 0 ELSE until[<<"refill", p>>]
    BY <1>3, <2>1 DEF Forget
  <2>3. expiry[p] \in Nat /\ now \in Nat BY <1>0 DEF BalanceType, TypeInv, TypeOK
  <2> QED BY <1>2, <1>3, <2>1, <2>2, <2>3 DEF Fresh
<1>8. ASSUME NEW r \in Periods, Lapse(r) PROVE Fresh(p)'
  <2>1. /\ Forget({r}, {e \in EventIds : e[2] = r /\ until[e] <= now})
        /\ owed' = owed /\ expiry[r] <= now
    BY <1>8 DEF Lapse, hist
  <2>2. /\ remaining'[p] = IF p = r THEN Missing ELSE remaining[p]
        /\ expiry'[p] = IF p = r THEN 0 ELSE expiry[p]
        /\ until'[<<"refill", p>>] =
             IF p = r /\ until[<<"refill", p>>] <= now THEN 0 ELSE until[<<"refill", p>>]
    BY <1>3, <2>1 DEF Forget
  <2>3. expiry[p] \in Nat /\ now \in Nat BY <1>0 DEF BalanceType, TypeInv, TypeOK
  <2> QED BY <1>2, <1>3, <2>1, <2>2, <2>3 DEF Fresh
<1> QED BY <1>4, <1>5, <1>6, <1>7, <1>8, QuietSteps

\* A debt once taken stays taken.
LEMMA TakenGrows == ASSUME TypeInv, SnapInv, [Next]_vars PROVE taken \subseteq taken'
<1>1. CASE TakeDebt BY <1>1, TakeDebtCases DEF DebtTaken, DebtFound, DebtGuessed
<1>2. CASE OpenNewPeriod \/ Tick \/ \E p \in Periods : Lapse(p)
  BY <1>2 DEF OpenNewPeriod, Tick, Lapse, hist
<1> QED BY <1>1, <1>2, QuietSteps DEF Quiet

\* Whom an event notes as opened, and whose debt the job is about to take.
LEMMA TakenNext ==
  TypeInv /\ CronInv /\ SnapInv /\ FutureInv /\ TakenInv /\ [Next]_vars => TakenInv'
<1> SUFFICES ASSUME TypeInv, CronInv, SnapInv, FutureInv, TakenInv, [Next]_vars
             PROVE  TakenInv'
  OBVIOUS
<1>0. BalanceType /\ HistType /\ BooksType /\ RowTyped /\ "cron" \in Handlers
  BY TypeParts, HandlerKinds DEF TypeInv
<1>1. RowKept \/ RowCreated \/ RowAdvanced BY RowMoves
<1>2. taken \subseteq taken' BY TakenGrows
<1>3. ASSUME NEW p \in Periods \ {0}, until'[<<"refill", p>>] > 0 PROVE p \in taken'
  <2>0. <<"refill", p>> \in EventIds /\ until[<<"refill", p>>] \in Nat BY <1>0, Ids DEF BooksType
  <2>1. CASE until[<<"refill", p>>] > 0 BY <1>2, <2>1 DEF TakenInv
  <2>2. CASE ~(until[<<"refill", p>>] > 0)
    <3>1. ~Quiet BY <1>3, <2>2 DEF Quiet
    <3>2. CASE OpenNewPeriod BY <1>3, <2>2, <3>2 DEF OpenNewPeriod
    <3>3. CASE TakeDebt
      <4>1. pc["cron"] = "debt"
            /\ (DebtTaken(Until(PeriodEnd(NewPeriod))) \/ DebtFound \/ DebtGuessed)
        BY <3>3, TakeDebtCases
      <4>2. NewPeriod \in Periods BY <4>1, CronData
      <4>3. CASE DebtFound \/ DebtGuessed BY <1>3, <2>2, <4>3 DEF DebtFound, DebtGuessed
      <4>4. CASE DebtTaken(Until(PeriodEnd(NewPeriod)))
        <5>1. CASE p = NewPeriod BY <4>4, <5>1 DEF DebtTaken
        <5>2. CASE p # NewPeriod
          <6>1. \E t : until' = [until EXCEPT ![<<"refill", NewPeriod>>] = t]
            BY <4>4 DEF DebtTaken, RefillId
          <6>2. <<"refill", p>> # <<"refill", NewPeriod>> BY <5>2
          <6>3. until'[<<"refill", p>>] = until[<<"refill", p>>] BY <1>0, <2>0, <6>1, <6>2 DEF BooksType
          <6> QED BY <1>3, <2>2, <6>3
        <5> QED BY <5>1, <5>2
      <4> QED BY <4>1, <4>3, <4>4
    <3>4. ASSUME NEW B, NEW E, Forget(B, E) PROVE FALSE
      <4>1. until'[<<"refill", p>>] \in {0, until[<<"refill", p>>]} BY <2>0, <3>4 DEF Forget
      <4> QED BY <1>3, <2>0, <2>2, <4>1
    <3>5. CASE Tick \/ \E r \in Periods : Lapse(r) BY <3>4, <3>5 DEF Tick, Lapse
    <3> QED BY <3>1, <3>2, <3>3, <3>5, QuietSteps
  <2> QED BY <2>1, <2>2
<1>4. ASSUME NEW p \in Periods \ {0}, sub' # None, p <= sub'.period PROVE p \in taken'
  <2>1. CASE RowKept BY <1>2, <1>4, <2>1 DEF RowKept, TakenInv, Reached
  <2>2. CASE RowCreated BY <1>4, <2>2, PeriodFacts DEF RowCreated
  <2>3. CASE RowAdvanced
    <3>1. sub # None /\ sub'.period = sub.period + 1 /\ pc["cron"] = "advance" /\ sub.period = OldPeriod
      BY <2>3 DEF RowAdvanced
    <3>2. OldPeriod \in Nat /\ NewPeriod = OldPeriod + 1 /\ p \in Nat BY <3>1, CronData, PeriodFacts
    <3>3. p <= sub.period \/ p = NewPeriod BY <1>4, <3>1, <3>2
    <3> QED BY <1>2, <3>1, <3>3 DEF TakenInv, Reached
  <2> QED BY <1>1, <2>1, <2>2, <2>3
<1>5. ASSUME pc'["cron"] = "debt" PROVE remaining'[snap'["cron"].period + 1] # Missing
  <2>1. CASE OpenNewPeriod
    <3>1. pc["cron"] = "open" /\ snap' = snap
          /\ StoreIfMissing(NewPeriod, Allowance, Until(PeriodEnd(NewPeriod)))
      BY <2>1 DEF OpenNewPeriod
    <3>2. NewPeriod \in Periods /\ Allowance \in Nat BY <3>1, CronData
    <3>3. remaining'[NewPeriod] # Missing
      BY <1>0, <3>1, <3>2, MissingAssumption DEF StoreIfMissing, InitRemainingIfMissing, BalanceType
    <3> QED BY <3>1, <3>3 DEF NewPeriod, OldPeriod
  <2>2. CASE ~OpenNewPeriod
    <3>1. Keeps("cron")
      <4>1. CASE CronStep
        <5>1. \/ pc'["cron"] \in {"balance", "remove"} \/ pc'["cron"] \in {"idle", "open", "refill", "advance"}
          <6>1. CASE SelectDue BY <1>0, <6>1 DEF SelectDue, Goto, TypeInv, SnapType
          <6>2. CASE CronRemove BY <1>0, <6>2, ReturnAlone DEF CronRemove
          <6>3. CASE ReadOldBalance BY <1>0, <6>3 DEF ReadOldBalance, Goto, TypeInv, SnapType
          <6>4. CASE TakeDebt
            <7>1. Goto("cron", "refill") BY <6>4, TakeDebtCases
            <7> QED BY <1>0, <7>1 DEF Goto, TypeInv, SnapType
          <6>5. CASE BookRefill BY <1>0, <6>5 DEF BookRefill, Goto, TypeInv, SnapType
          <6>6. CASE AdvancePeriod BY <1>0, <6>6, ReturnAlone DEF AdvancePeriod
          <6> QED BY <2>2, <4>1, <6>1, <6>2, <6>3, <6>4, <6>5, <6>6 DEF CronStep
        <5> QED BY <1>5, <5>1
      <4>2. CronStep \/ Keeps("cron") \/ pc'["cron"] = "idle"
        BY HandlerKinds, Movers DEF Alone, Keeps
      <4> QED BY <1>5, <4>1, <4>2
    <3>2. pc["cron"] = "debt" /\ snap'["cron"].period + 1 = NewPeriod
      BY <1>5, <3>1 DEF Keeps, NewPeriod, OldPeriod
    <3>3. NewPeriod \in Periods /\ OldPeriod \in Nat /\ NewPeriod = OldPeriod + 1 BY <3>2, CronData, PeriodFacts
    <3>4. ~Reached(NewPeriod) BY <3>2, <3>3 DEF CronInv, Reached
    <3>5. remaining[NewPeriod] # Missing BY <3>2 DEF TakenInv
    <3>6. ~Tick /\ ~\E r \in Periods : Lapse(r) BY <1>0, <3>2 DEF Tick, Lapse, AtRest
    <3>7. CASE Quiet BY <3>2, <3>3, <3>4, <3>5, <3>7 DEF Quiet, Untouched
    <3>8. CASE TakeDebt
      <4>1. Goto("cron", "refill") BY <3>8, TakeDebtCases
      <4> QED BY <1>0, <1>5, <4>1 DEF Goto, TypeInv, SnapType
    <3> QED BY <2>2, <3>6, <3>7, <3>8, QuietSteps
  <2> QED BY <2>1, <2>2
<1>6. ASSUME pc'["cron"] \in {"refill", "advance"} PROVE snap'["cron"].period + 1 \in taken'
  <2>1. CASE TakeDebt
    <3>1. pc["cron"] = "debt" /\ snap' = snap
          /\ (DebtTaken(Until(PeriodEnd(NewPeriod))) \/ DebtFound \/ DebtGuessed)
      BY <2>1, TakeDebtCases
    <3>2. /\ NewPeriod \in Periods \ {0} /\ OldPeriod \in Nat /\ NewPeriod = OldPeriod + 1
          /\ RefillId \in EventIds
      BY <3>1, CronData, PeriodFacts
    <3>3. ~Reached(NewPeriod) BY <3>1, <3>2 DEF CronInv, Reached
    <3>4. remaining[NewPeriod] # Missing BY <3>1 DEF TakenInv
    <3>5. until[RefillId] = 0 => remaining[NewPeriod] >= 0
      BY <3>2, <3>3, <3>4 DEF FutureInv, RefillId
    <3>6. until[RefillId] \in Nat BY <1>0, <3>2 DEF BooksType
    <3>7. CASE DebtTaken(Until(PeriodEnd(NewPeriod)))
      BY <3>1, <3>7 DEF DebtTaken, NewPeriod, OldPeriod
    <3>8. CASE until[RefillId] > 0
      BY <1>2, <3>1, <3>2, <3>8 DEF TakenInv, RefillId, NewPeriod, OldPeriod
    <3>9. CASE DebtFound \/ DebtGuessed
      <4>1. until[RefillId] > 0
        BY <3>4, <3>5, <3>6, <3>9 DEF DebtFound, DebtGuessed
      <4> QED BY <3>8, <4>1
    <3> QED BY <3>1, <3>7, <3>9
  <2>2. CASE ~TakeDebt
    <3>1. pc["cron"] \in {"refill", "advance"} /\ snap'["cron"] = snap["cron"]
      <4>1. CASE BookRefill BY <4>1 DEF BookRefill
      <4>2. CASE CronStep /\ ~BookRefill
        <5>1. \/ pc'["cron"] \in {"balance", "remove"} \/ pc'["cron"] \in {"idle", "open", "debt"}
          <6>1. CASE SelectDue BY <1>0, <6>1 DEF SelectDue, Goto, TypeInv, SnapType
          <6>2. CASE CronRemove BY <1>0, <6>2, ReturnAlone DEF CronRemove
          <6>3. CASE ReadOldBalance BY <1>0, <6>3 DEF ReadOldBalance, Goto, TypeInv, SnapType
          <6>4. CASE OpenNewPeriod BY <1>0, <6>4 DEF OpenNewPeriod, Goto, TypeInv, SnapType
          <6>6. CASE AdvancePeriod BY <1>0, <6>6, ReturnAlone DEF AdvancePeriod
          <6> QED BY <2>2, <4>2, <6>1, <6>2, <6>3, <6>4, <6>6 DEF CronStep
        <5> QED BY <1>6, <5>1
      <4>3. CronStep \/ Keeps("cron") \/ pc'["cron"] = "idle"
        BY HandlerKinds, Movers DEF Alone, Keeps
      <4> QED BY <1>6, <4>1, <4>2, <4>3 DEF Keeps
    <3> QED BY <1>2, <3>1 DEF TakenInv, NewPeriod, OldPeriod
  <2> QED BY <2>1, <2>2
<1> QED BY <1>3, <1>4, <1>5, <1>6 DEF TakenInv, Reached, NewPeriod, OldPeriod
-----------------------------------------------------------------------------
(* What a step does to the balances *)

\* No step touches them, or it stores one, opens one, or forgets some.
Still == UNCHANGED <<remaining, expiry, low, drawn, guessed>>
Stores(p, v, t) ==
  /\ Store(p, v, t) /\ guessed' = guessed
  /\ drawn' = drawn \/ (Reached(p) /\ drawn' = drawn \cup {p})
  /\ t >= PeriodEnd(p) \/ (Reached(p) /\ t = now + AdjustTtl)
Opens(p, v, t) == StoreIfMissing(p, v, t) /\ UNCHANGED <<low, drawn, guessed>>
Guesses == UNCHANGED <<remaining, expiry, low, drawn>> /\ guessed \subseteq guessed'
Times(t) ==
  /\ Forget({q \in Periods : expiry[q] <= t}, {e \in EventIds : until[e] <= t})
  /\ UNCHANGED <<low, drawn, guessed>> /\ now' = t
Lapses(r) ==
  /\ Forget({r}, {e \in EventIds : e[2] = r /\ until[e] <= now})
  /\ expiry[r] <= now /\ UNCHANGED <<low, drawn, guessed, now>>
Effects ==
  \/ Still \/ Guesses
  \/ \E p \in Periods, v \in Int, t \in Nat \ {0} : Stores(p, v, t)
  \/ \E p \in Periods, v \in Nat, t \in Nat \ {0} : Opens(p, v, t)
  \/ Times(now + 1) \/ \E r \in Periods : Lapses(r)

\* A step without effect on Redis.
LEMMA StillEffect == ASSUME UNCHANGED <<redis, hist>> PROVE Effects
BY DEF redis, hist, Effects, Still

\* What a session does to a balance.
LEMMA SessionEffects ==
  ASSUME TypeInv, SnapInv, NEW s \in Sessions, SessionStep(s) PROVE Effects
<1>0. s \in Handlers BY HandlerKinds
<1>1. CASE ReadEntitlement(s) BY <1>1, StillEffect DEF ReadEntitlement
<1>2. CASE Charge(s)
  <2> DEFINE p == snap[s].period
  <2>1. pc[s] = "charge" /\ p \in Periods /\ UNCHANGED guessed BY <1>2, ChargeCases
  <2>2. PICK t \in Nat \ {0} :
          /\ t >= PeriodEnd(p)
          /\ \/ \E v \in Nat : ChargeTaken(s, p, v, t)
             \/ \E v \in Nat : ChargeRefused(s, p, v, t)
    BY <1>2, ChargeCases
  <2>a. Reached(p) BY <1>0, <2>1 DEF SnapInv, Behind, ChargingPcs
  <2> HIDE DEF p
  <2>3. ASSUME NEW v \in Nat, ChargeTaken(s, p, v, t) PROVE Effects
    <3>1. Stores(p, v, t) BY <2>1, <2>2, <2>a, <2>3 DEF ChargeTaken, Stores
    <3> QED BY <2>1, <3>1 DEF Effects
  <2>4. ASSUME NEW v \in Nat, ChargeRefused(s, p, v, t) PROVE Effects
    <3>1. Opens(p, v, t) BY <2>1, <2>4 DEF ChargeRefused, Opens
    <3> QED BY <2>1, <3>1 DEF Effects
  <2> QED BY <2>2, <2>3, <2>4
<1>3. CASE BookCharge(s) BY <1>3, StillEffect DEF BookCharge
<1>4. CASE Adjust(s)
  <2> DEFINE p == snap[s].period
  <2>1. /\ pc[s] = "running" /\ p \in Periods /\ now + AdjustTtl \in Nat \ {0}
        /\ UNCHANGED <<drawn, guessed>>
        /\ \/ \E v \in Int : Adjusted(s, p, v)
           \/ UNCHANGED <<remaining, expiry, low>>
    BY <1>4, AdjustCases
  <2>2. Reached(p) BY <1>0, <2>1 DEF SnapInv, Behind, ChargingPcs
  <2> HIDE DEF p
  <2>3. ASSUME NEW v \in Int, Adjusted(s, p, v) PROVE Effects
    <3>1. Stores(p, v, now + AdjustTtl) BY <2>1, <2>2, <2>3 DEF Adjusted, Stores
    <3> QED BY <2>1, <3>1 DEF Effects
  <2>4. CASE UNCHANGED <<remaining, expiry, low>> BY <2>1, <2>4 DEF Effects, Still
  <2> QED BY <2>1, <2>3, <2>4
<1>5. CASE BookAdjust(s) BY <1>5, StillEffect DEF BookAdjust
<1> QED BY <1>1, <1>2, <1>3, <1>4, <1>5 DEF SessionStep

\* What an upgrade does to a balance.
LEMMA UpgraderEffects ==
  ASSUME TypeInv, NEW u \in Upgraders, UpgraderStep(u) PROVE Effects
<1>1. ASSUME NEW q \in Plans, ReadForUpgrade(u, q) PROVE Effects BY <1>1, StillEffect DEF ReadForUpgrade
<1>2. CASE OpenForUpgrade(u)
  <2> DEFINE p == UpgradePeriod(u)
             t == Until(PeriodEnd(p))
  <2>1. pc[u] \in UpgradingPcs /\ Opens(p, OldCoins(u), t) BY <1>2 DEF OpenForUpgrade, UpgradingPcs, Opens
  <2>2. p \in Periods /\ t \in Nat \ {0} /\ OldCoins(u) \in Nat BY <2>1, UpgradeData
  <2> HIDE DEF p, t
  <2> QED BY <2>1, <2>2 DEF Effects
<1>3. CASE ApplyUpgrade(u)
  <2> DEFINE p == UpgradePeriod(u)
             id == <<"upgrade", p, snap[u].plan>>
             t == Until(PeriodEnd(p))
  <2>1. /\ pc[u] = "delta" /\ UNCHANGED <<drawn, guessed>>
        /\ \/ \E v \in Int : UpgradeApplied(u, p, v, id, t)
           \/ UpgradeFound(u, p) \/ UpgradeRefused(u)
    BY <1>3, UpgradeCases
  <2>2. p \in Periods /\ t \in Nat \ {0} /\ t >= PeriodEnd(p) BY <2>1, UpgradeData DEF UpgradingPcs
  <2> HIDE DEF p, id, t
  <2>3. ASSUME NEW v \in Int, UpgradeApplied(u, p, v, id, t) PROVE Effects
    <3>1. Stores(p, v, t) BY <2>1, <2>2, <2>3 DEF UpgradeApplied, Stores
    <3> QED BY <2>2, <3>1 DEF Effects
  <2>4. CASE UpgradeFound(u, p) \/ UpgradeRefused(u)
    BY <2>1, <2>4 DEF UpgradeFound, UpgradeRefused, Effects, Still
  <2> QED BY <2>1, <2>3, <2>4
<1>4. CASE StorePlan(u) BY <1>4, StillEffect DEF StorePlan
<1>5. CASE RecordUpgrade(u) BY <1>5, StillEffect DEF RecordUpgrade
<1> QED BY <1>1, <1>2, <1>3, <1>4, <1>5 DEF UpgraderStep, UpgradeStep

\* What the creator does to a balance.
LEMMA CreatorEffects == ASSUME TypeInv, CreatorStep PROVE Effects
<1>1. ASSUME NEW q \in Plans, Create(q) PROVE Effects BY <1>1, StillEffect DEF Create
<1>2. CASE OpenFirstPeriod
  <2> DEFINE t == Until(PeriodEnd(0))
             v == MaxCoins[snap["creator"].plan]
  <2>1. pc["creator"] = "open" /\ Opens(0, v, t) BY <1>2 DEF OpenFirstPeriod, Opens
  <2>2. v \in Nat BY <2>1, HandlerKinds, PeriodsAssumption DEF TypeInv, SnapType, Fits, RowType
  <2>3. RowTyped BY TypeParts DEF TypeInv
  <2>4. t \in Nat \ {0} BY <2>3, PeriodEndType, UntilType
  <2> HIDE DEF t, v
  <2> QED BY <2>1, <2>2, <2>4, PeriodFacts DEF Effects
<1>3. CASE BookFirstPeriod BY <1>3, StillEffect DEF BookFirstPeriod
<1> QED BY <1>1, <1>2, <1>3 DEF CreatorStep

\* What the job does to a balance.
LEMMA CronEffects == ASSUME TypeInv, CronStep PROVE Effects
<1>1. CASE OpenNewPeriod
  <2> DEFINE t == Until(PeriodEnd(NewPeriod))
  <2>1. pc["cron"] = "open" /\ Opens(NewPeriod, Allowance, t) BY <1>1 DEF OpenNewPeriod, Opens
  <2>2. NewPeriod \in Periods /\ Allowance \in Nat /\ t \in Nat \ {0} BY <2>1, CronData
  <2> HIDE DEF t
  <2> QED BY <2>1, <2>2 DEF Effects
<1>2. CASE TakeDebt
  <2> DEFINE t == Until(PeriodEnd(NewPeriod))
  <2>1. pc["cron"] = "debt" /\ UNCHANGED drawn /\ (DebtTaken(t) \/ DebtFound \/ DebtGuessed)
    BY <1>2, TakeDebtCases
  <2>2. NewPeriod \in Periods /\ t \in Nat \ {0} /\ t >= PeriodEnd(NewPeriod) /\ Debt \in Nat
    BY <2>1, CronData
  <2> HIDE DEF t
  <2>3. CASE DebtTaken(t)
    <3>1. Stores(NewPeriod, remaining[NewPeriod] - Debt, t) /\ remaining[NewPeriod] \in Nat
      BY <2>1, <2>2, <2>3 DEF DebtTaken, Stores
    <3>2. remaining[NewPeriod] - Debt \in Int BY <2>2, <3>1
    <3> QED BY <2>2, <3>1, <3>2 DEF Effects
  <2>4. CASE DebtFound BY <2>1, <2>4 DEF DebtFound, Effects, Still
  <2>5. CASE DebtGuessed BY <2>1, <2>5 DEF DebtGuessed, Effects, Guesses
  <2> QED BY <2>1, <2>3, <2>4, <2>5
<1>3. CASE ~OpenNewPeriod /\ ~TakeDebt
  <2>1. UNCHANGED <<redis, hist>>
    BY <1>3 DEF CronStep, SelectDue, CronRemove, ReadOldBalance, BookRefill, AdvancePeriod
  <2> QED BY <2>1, StillEffect
<1> QED BY <1>1, <1>2, <1>3

\* What any step does to a balance is one of the effects above.
LEMMA AllEffects == ASSUME TypeInv, SnapInv, [Next]_vars PROVE Effects
<1>1. CASE Elsewhere
  <2>1. CASE Tick BY <2>1 DEF Tick, Effects, Times, hist
  <2>2. ASSUME NEW r \in Periods, Lapse(r) PROVE Effects BY <2>2 DEF Lapse, Effects, Lapses, hist
  <2>3. CASE RequestRemoval BY <2>3, StillEffect DEF RequestRemoval
  <2>4. CASE \E q \in Plans, cancel \in BOOLEAN : Update(q, cancel) BY <2>4, StillEffect DEF Update
  <2>5. CASE \E h \in Handlers : Fails(h) BY <2>5, StillEffect DEF Fails
  <2>6. CASE UNCHANGED vars BY <2>6, StillEffect DEF vars
  <2> QED BY <1>1, <2>1, <2>2, <2>3, <2>4, <2>5, <2>6 DEF Elsewhere
<1> QED BY <1>1, Kinds, SessionEffects, UpgraderEffects, CreatorEffects, CronEffects
-----------------------------------------------------------------------------
(* The lowest balance of a period *)

LowHolds ==
  \A p \in Periods : low[p] <= 0 /\ (remaining[p] # Missing => remaining[p] >= low[p])
Falls == (\A p \in Periods : low'[p] <= low[p]) /\ guessed \subseteq guessed'
\* Real, after the step.
RealThen(v, p) == p \in guessed' \/ v >= low'[p]

\* Storing a balance keeps its recorded low below it.
LEMMA StoreLow ==
  ASSUME TypeInv, LowHolds, NEW p \in Periods, NEW v \in Int, NEW t, Store(p, v, t)
  PROVE  LowHolds' /\ \A q \in Periods : low'[q] <= low[q]
<1>1. BalanceType /\ HistType BY TypeParts DEF TypeInv
<1>2. remaining' = [remaining EXCEPT ![p] = v] /\ low' = [low EXCEPT ![p] = Smaller(@, v)]
  BY DEF Store
<1>3. low[p] \in Int BY <1>1 DEF HistType
<1>4. Smaller(low[p], v) <= low[p] /\ Smaller(low[p], v) <= v BY <1>3 DEF Smaller
<1>5. low'[p] = Smaller(low[p], v) /\ remaining'[p] = v BY <1>1, <1>2 DEF BalanceType, HistType
<1>6. \A q \in Periods \ {p} : low'[q] = low[q] /\ remaining'[q] = remaining[q]
  BY <1>1, <1>2 DEF BalanceType, HistType
<1>7. \A q \in Periods : low[q] \in Int BY <1>1 DEF HistType
<1>8. Smaller(low[p], v) \in Int BY <1>3 DEF Smaller
<1> QED BY <1>3, <1>4, <1>5, <1>6, <1>7, <1>8 DEF LowHolds

\* So does opening one, as an allowance is not negative.
LEMMA OpenLow ==
  ASSUME TypeInv, LowHolds, NEW p \in Periods, NEW v \in Nat, NEW t, StoreIfMissing(p, v, t), UNCHANGED low
  PROVE  LowHolds' /\ \A q \in Periods : low'[q] <= low[q]
<1>1. BalanceType /\ HistType BY TypeParts DEF TypeInv
<1>2. \A q \in Periods : remaining'[q] = remaining[q] \/ remaining'[q] = v
  BY <1>1 DEF StoreIfMissing, InitRemainingIfMissing, BalanceType
<1>3. \A q \in Periods : low[q] \in Int BY <1>1 DEF HistType
<1> QED BY <1>2, <1>3 DEF LowHolds

\* The recorded low of a balance stays below it and only falls.
LEMMA LowNext ==
  ASSUME TypeInv, SnapInv, LowHolds, [Next]_vars PROVE LowHolds' /\ Falls
<1>0. BalanceType /\ HistType BY TypeParts DEF TypeInv
<1>a. \A q \in Periods : low[q] \in Int BY <1>0 DEF HistType
<1>1. CASE Still BY <1>a, <1>1 DEF Still, LowHolds, Falls
<1>2. CASE Guesses BY <1>a, <1>2 DEF Guesses, LowHolds, Falls
<1>3. ASSUME NEW p \in Periods, NEW v \in Int, NEW t \in Nat \ {0}, Stores(p, v, t) PROVE LowHolds' /\ Falls
  <2>1. Store(p, v, t) /\ guessed' = guessed BY <1>3 DEF Stores
  <2> QED BY <2>1, StoreLow DEF Falls
<1>4. ASSUME NEW p \in Periods, NEW v \in Nat, NEW t \in Nat \ {0}, Opens(p, v, t) PROVE LowHolds' /\ Falls
  <2>1. StoreIfMissing(p, v, t) /\ UNCHANGED <<low, guessed>> BY <1>4 DEF Opens
  <2> QED BY <2>1, OpenLow DEF Falls
<1>5. ASSUME NEW B, NEW E, Forget(B, E), UNCHANGED <<low, guessed>> PROVE LowHolds' /\ Falls
  <2>1. \A p \in Periods : remaining'[p] = Missing \/ remaining'[p] = remaining[p] BY <1>5 DEF Forget
  <2> QED BY <1>a, <1>5, <2>1 DEF LowHolds, Falls
<1>6. CASE Times(now + 1) \/ \E r \in Periods : Lapses(r) BY <1>5, <1>6 DEF Times, Lapses
<1> QED BY <1>1, <1>2, <1>3, <1>4, <1>6, AllEffects DEF Effects

\* A balance a period once had stays one it once had.
LEMMA RealStays ==
  ASSUME TypeInv, TypeInv', Falls, NEW p \in Periods, NEW v \in Int, Real(v, p) PROVE RealThen(v, p)
<1>1. low[p] \in Int /\ low'[p] \in Int BY DEF TypeInv, TypeOK
<1> QED BY <1>1 DEF Falls, Real, RealThen

\* A document is written with a balance its writer has seen, or guessed.
Writes(p, v) == mongo' = [mongo EXCEPT ![p] = v] /\ Real(v, p)
\* A balance document is written with a value its writer got from Redis.
LEMMA MongoMoves ==
  ASSUME TypeInv, LowInv, [Next]_vars
  PROVE  mongo' = mongo \/ \E p \in Periods, v \in Int : Writes(p, v)
<1>0. val \in [Handlers -> Int] BY DEF TypeInv, TypeOK
<1>1. ASSUME NEW s \in Sessions, SessionStep(s) PROVE mongo' = mongo \/ \E p \in Periods, v \in Int : Writes(p, v)
  <2>1. CASE ReadEntitlement(s) BY <2>1 DEF ReadEntitlement
  <2>2. CASE Charge(s) BY <2>2, ChargeCases
  <2>3. CASE Adjust(s) BY <2>3, AdjustCases
  <2>4. CASE BookCharge(s) \/ BookAdjust(s)
    <3>1. pc[s] \in {"book", "bookAdjust"} /\ mongo' = [mongo EXCEPT ![snap[s].period] = val[s]]
      BY <2>4 DEF BookCharge, BookAdjust
    <3>2. snap[s].period \in Periods /\ val[s] \in Int
      BY <1>0, <3>1, SessionData, HandlerKinds DEF ChargingPcs
    <3>3. Real(val[s], snap[s].period) BY <3>1, HandlerKinds DEF LowInv, Saw
    <3> QED BY <3>1, <3>2, <3>3 DEF Writes
  <2> QED BY <1>1, <2>1, <2>2, <2>3, <2>4 DEF SessionStep
<1>2. ASSUME NEW u \in Upgraders, UpgraderStep(u) PROVE mongo' = mongo \/ \E p \in Periods, v \in Int : Writes(p, v)
  <2>1. CASE ApplyUpgrade(u) BY <2>1, UpgradeCases
  <2>2. CASE RecordUpgrade(u)
    <3>1. pc[u] = "record" /\ mongo' = [mongo EXCEPT ![UpgradePeriod(u)] = val[u]]
      BY <2>2 DEF RecordUpgrade
    <3>2. UpgradePeriod(u) \in Periods /\ val[u] \in Int
      BY <1>0, <3>1, UpgradeData, HandlerKinds DEF UpgradingPcs
    <3>3. Real(val[u], UpgradePeriod(u)) BY <3>1, HandlerKinds DEF LowInv, Saw, UpgradePeriod
    <3> QED BY <3>1, <3>2, <3>3 DEF Writes
  <2>3. CASE ~ApplyUpgrade(u) /\ ~RecordUpgrade(u)
    BY <1>2, <2>3 DEF UpgraderStep, UpgradeStep, ReadForUpgrade, OpenForUpgrade, StorePlan
  <2> QED BY <2>1, <2>2, <2>3
<1>3. CASE CreatorStep
  <2>1. CASE BookFirstPeriod
    <3>1. pc["creator"] = "book" /\ mongo' = [mongo EXCEPT ![0] = val["creator"]]
      BY <2>1 DEF BookFirstPeriod
    <3>2. 0 \in Periods /\ val["creator"] \in Int BY <1>0, PeriodFacts, HandlerKinds
    <3>3. Real(val["creator"], 0) BY <3>1, HandlerKinds DEF LowInv, Saw
    <3> QED BY <3>1, <3>2, <3>3 DEF Writes
  <2>2. CASE ~BookFirstPeriod BY <1>3, <2>2 DEF CreatorStep, Create, OpenFirstPeriod
  <2> QED BY <2>1, <2>2
<1>4. CASE CronStep
  <2>1. CASE BookRefill
    <3>1. pc["cron"] = "refill" /\ mongo' = [mongo EXCEPT ![NewPeriod] = val["cron"]]
      BY <2>1 DEF BookRefill
    <3>2. NewPeriod \in Periods /\ val["cron"] \in Int BY <3>1, CronData
    <3>3. Real(val["cron"], NewPeriod) BY <3>1, HandlerKinds DEF LowInv, Saw, NewPeriod, OldPeriod
    <3> QED BY <3>1, <3>2, <3>3 DEF Writes
  <2>2. CASE TakeDebt BY <2>2, TakeDebtCases
  <2>3. CASE ~BookRefill /\ ~TakeDebt
    BY <1>4, <2>3 DEF CronStep, SelectDue, CronRemove, ReadOldBalance, OpenNewPeriod, AdvancePeriod
  <2> QED BY <2>1, <2>2, <2>3
<1>5. CASE Elsewhere
  BY <1>5 DEF Elsewhere, RequestRemoval, Update, Fails, Tick, Lapse, vars
<1> QED BY <1>1, <1>2, <1>3, <1>4, <1>5, Kinds

\* The document holds a balance the period once had, or a guess.
LEMMA MongoNext ==
  ASSUME TypeInv, TypeInv', LowInv, Falls, [Next]_vars
  PROVE  \A p \in Periods : mongo'[p] # None => RealThen(mongo'[p], p)
<1> SUFFICES ASSUME NEW p \in Periods, mongo'[p] # None PROVE RealThen(mongo'[p], p)
  OBVIOUS
<1>1. mongo \in [Periods -> Int \cup {None}] BY DEF TypeInv, TypeOK
<1>2. CASE mongo'[p] = mongo[p]
  <2>1. mongo[p] \in Int /\ Real(mongo[p], p) BY <1>1, <1>2 DEF LowInv
  <2> QED BY <1>2, <2>1, RealStays
<1>3. CASE mongo'[p] # mongo[p]
  <2>1. PICK r \in Periods, v \in Int : Writes(r, v) BY <1>3, MongoMoves
  <2>2. p = r /\ mongo'[p] = v BY <1>1, <1>3, <2>1 DEF Writes
  <2>3. Real(v, p) BY <2>1, <2>2 DEF Writes
  <2> QED BY <2>2, <2>3, RealStays
<1> QED BY <1>2, <1>3
\* What a handler holds when it has just seen a balance.
LEMMA BalanceReal ==
  ASSUME TypeInv', LowHolds', NEW p \in Periods, remaining'[p] # Missing
  PROVE  RealThen(remaining'[p], p)
BY DEF LowHolds, RealThen

\* A session carries a balance its period once had.
LEMMA SessionSaw ==
  ASSUME TypeInv, TypeInv', LowInv, LowHolds', Falls, NEW s \in Sessions, SessionStep(s),
         pc'[s] \in {"book", "bookAdjust"}
  PROVE  RealThen(val'[s], snap'[s].period)
<1>0. s \in Handlers /\ DOMAIN pc = Handlers /\ BalanceType /\ val \in [Handlers -> Int]
  BY HandlerKinds, TypeParts DEF TypeInv, SnapType, LocalsType
<1>a. ASSUME NEW p \in Periods, NEW v \in Int, NEW t, Store(p, v, t), val' = [val EXCEPT ![s] = v]
      PROVE  RealThen(val'[s], p)
  <2>1. remaining'[p] = v /\ val'[s] = v BY <1>0, <1>a DEF Store, BalanceType
  <2>2. v # Missing BY MissingAssumption
  <2> QED BY <2>1, <2>2, BalanceReal
<1>1. CASE ReadEntitlement(s)
  <2>1. pc'[s] = "charge" BY <1>0, <1>1 DEF ReadEntitlement, Goto
  <2> QED BY <2>1
<1>2. CASE Charge(s)
  <2>1. snap[s].period \in Periods BY <1>2, ChargeCases
  <2>2. PICK t, v \in Nat : ChargeTaken(s, snap[s].period, v, t) \/ ChargeRefused(s, snap[s].period, v, t)
    BY <1>2, ChargeCases
  <2>3. ~ChargeRefused(s, snap[s].period, v, t) BY <1>0, ReturnAlone DEF ChargeRefused
  <2>4. Store(snap[s].period, v, t) /\ val' = [val EXCEPT ![s] = v] /\ snap' = snap /\ v \in Int
    BY <2>2, <2>3 DEF ChargeTaken
  <2> QED BY <1>a, <2>1, <2>4
<1>3. CASE BookCharge(s)
  <2>1. pc'[s] = "running" BY <1>0, <1>3 DEF BookCharge, Goto
  <2> QED BY <2>1
<1>4. CASE Adjust(s)
  <2>1. snap[s].period \in Periods
        /\ ((\E v \in Int : Adjusted(s, snap[s].period, v)) \/ Return(s, "refused"))
    BY <1>4, AdjustCases
  <2>2. ~Return(s, "refused") BY <1>0, ReturnAlone
  <2>3. PICK v \in Int : Adjusted(s, snap[s].period, v) BY <2>1, <2>2
  <2>4. Store(snap[s].period, v, now + AdjustTtl) /\ val' = [val EXCEPT ![s] = v] /\ snap' = snap
    BY <2>3 DEF Adjusted
  <2> QED BY <1>a, <2>1, <2>4
<1>5. CASE BookAdjust(s)
  <2>1. pc'[s] = "settled" BY <1>0, <1>5, ReturnAlone DEF BookAdjust
  <2> QED BY <2>1
<1> QED BY <1>1, <1>2, <1>3, <1>4, <1>5 DEF SessionStep

\* An upgrade carries a balance its period once had.
LEMMA UpgraderSaw ==
  ASSUME TypeInv, TypeInv', LowInv, LowHolds', Falls, NEW u \in Upgraders, UpgraderStep(u),
         pc'[u] \in {"row", "record"}
  PROVE  RealThen(val'[u], snap'[u].row.period)
<1>0. u \in Handlers /\ DOMAIN pc = Handlers /\ BalanceType /\ val \in [Handlers -> Int]
  BY HandlerKinds, TypeParts DEF TypeInv, SnapType, LocalsType
<1>1. ASSUME NEW q \in Plans, ReadForUpgrade(u, q) PROVE pc'[u] = "open"
  BY <1>0, <1>1 DEF ReadForUpgrade, Goto
<1>2. CASE OpenForUpgrade(u)
  <2>1. pc'[u] = "delta" BY <1>0, <1>2 DEF OpenForUpgrade, Goto
  <2> QED BY <2>1
<1>3. CASE ApplyUpgrade(u)
  <2> DEFINE p == UpgradePeriod(u)
             id == <<"upgrade", p, snap[u].plan>>
             t == Until(PeriodEnd(p))
  <2>1. /\ pc[u] = "delta"
        /\ \/ \E v \in Int : UpgradeApplied(u, p, v, id, t)
           \/ UpgradeFound(u, p) \/ UpgradeRefused(u)
    BY <1>3, UpgradeCases
  <2>2. p \in Periods /\ p = snap[u].row.period BY <2>1, UpgradeData DEF UpgradingPcs, UpgradePeriod
  <2> HIDE DEF p, id, t
  <2>3. ~UpgradeRefused(u) BY <1>0, ReturnAlone DEF UpgradeRefused
  <2>4. ASSUME NEW v \in Int, UpgradeApplied(u, p, v, id, t) PROVE RealThen(val'[u], snap'[u].row.period)
    <3>1. Store(p, v, t) /\ val' = [val EXCEPT ![u] = v] /\ snap' = snap BY <2>4 DEF UpgradeApplied
    <3>2. remaining'[p] = v /\ val'[u] = v BY <1>0, <2>2, <3>1 DEF Store, BalanceType
    <3>3. v # Missing BY MissingAssumption
    <3> QED BY <2>2, <3>1, <3>2, <3>3, BalanceReal
  <2>5. CASE UpgradeFound(u, p)
    <3>1. /\ remaining[p] \in Int /\ val' = [val EXCEPT ![u] = remaining[p]]
          /\ snap' = snap /\ remaining' = remaining
      BY <2>5 DEF UpgradeFound
    <3>2. val'[u] = remaining'[p] /\ remaining'[p] # Missing BY <1>0, <3>1, MissingAssumption
    <3> QED BY <2>2, <3>1, <3>2, BalanceReal
  <2> QED BY <2>1, <2>3, <2>4, <2>5
<1>4. CASE StorePlan(u)
  <2>1. pc[u] = "row" /\ snap' = snap /\ val' = val BY <1>4 DEF StorePlan
  <2>2. UpgradePeriod(u) \in Periods /\ UpgradePeriod(u) = snap[u].row.period /\ val[u] \in Int
    BY <1>0, <2>1, UpgradeData DEF UpgradingPcs, UpgradePeriod
  <2>3. Real(val[u], UpgradePeriod(u)) BY <1>0, <2>1 DEF LowInv, Saw, UpgradePeriod
  <2> QED BY <2>1, <2>2, <2>3, RealStays
<1>5. CASE RecordUpgrade(u)
  <2>1. pc'[u] = "done" BY <1>0, <1>5, ReturnAlone DEF RecordUpgrade
  <2> QED BY <2>1
<1> QED BY <1>1, <1>2, <1>3, <1>4, <1>5 DEF UpgraderStep, UpgradeStep

\* The creator carries a balance of the first period.
LEMMA CreatorSaw ==
  ASSUME TypeInv, TypeInv', LowHolds', CreatorStep, pc'["creator"] = "book"
  PROVE  RealThen(val'["creator"], 0)
<1>0. "creator" \in Handlers /\ DOMAIN pc = Handlers /\ BalanceType /\ HistType /\ val \in [Handlers -> Int]
  BY HandlerKinds, TypeParts DEF TypeInv, SnapType, LocalsType
<1>1. ASSUME NEW q \in Plans, Create(q) PROVE pc'["creator"] = "open" BY <1>0, <1>1 DEF Create, Goto
<1>2. CASE OpenFirstPeriod
  <2> DEFINE v == MaxCoins[snap["creator"].plan]
             t == Until(PeriodEnd(0))
  <2>1. pc["creator"] = "open" /\ val' = [val EXCEPT !["creator"] = remaining'[0]] /\ StoreIfMissing(0, v, t)
    BY <1>2 DEF OpenFirstPeriod
  <2>2. v \in Int BY <1>0, <2>1, PeriodsAssumption DEF TypeInv, SnapType, Fits, RowType
  <2> HIDE DEF v, t
  <2>3. remaining'[0] # Missing
    BY <1>0, <2>1, <2>2, PeriodFacts, MissingAssumption
    DEF StoreIfMissing, InitRemainingIfMissing, BalanceType
  <2>4. val'["creator"] = remaining'[0] BY <1>0, <2>1
  <2> QED BY <2>3, <2>4, PeriodFacts, BalanceReal
<1>3. CASE BookFirstPeriod
  <2>1. pc'["creator"] = "done" BY <1>0, <1>3, ReturnAlone DEF BookFirstPeriod
  <2> QED BY <2>1
<1> QED BY <1>1, <1>2, <1>3 DEF CreatorStep

\* The job carries a balance of the old period, then one of the new.
LEMMA CronSaw ==
  ASSUME TypeInv, TypeInv', LowInv, LowHolds', Falls, CronStep
  PROVE  /\ pc'["cron"] \in {"open", "debt"} => RealThen(val'["cron"], snap'["cron"].period)
         /\ pc'["cron"] \in {"refill", "advance"} => RealThen(val'["cron"], snap'["cron"].period + 1)
<1>0. "cron" \in Handlers /\ DOMAIN pc = Handlers /\ BalanceType /\ HistType /\ val \in [Handlers -> Int]
  BY HandlerKinds, TypeParts DEF TypeInv, SnapType, LocalsType
<1>1. CASE SelectDue
  <2>1. pc'["cron"] \in {"balance", "remove"} BY <1>0, <1>1 DEF SelectDue, Goto
  <2> QED BY <2>1
<1>2. CASE CronRemove
  <2>1. pc'["cron"] = "idle" BY <1>0, <1>2, ReturnAlone DEF CronRemove
  <2> QED BY <2>1
<1>3. CASE ReadOldBalance
  <2>1. /\ pc["cron"] = "balance" /\ snap' = snap /\ Goto("cron", "open")
        /\ val' = [val EXCEPT !["cron"] =
                     IF remaining[OldPeriod] # Missing THEN remaining[OldPeriod]
                     ELSE IF mongo[OldPeriod] # None THEN mongo[OldPeriod]
                     ELSE Allowance]
    BY <1>3 DEF ReadOldBalance
  <2>2. OldPeriod \in Periods /\ Allowance \in Nat BY <2>1, CronData
  <2>3. \/ remaining[OldPeriod] # Missing /\ val'["cron"] = remaining[OldPeriod]
        \/ mongo[OldPeriod] # None /\ val'["cron"] = mongo[OldPeriod]
        \/ val'["cron"] = Allowance
    BY <1>0, <2>1
  <2>4. low[OldPeriod] \in Int BY <1>0, <2>2 DEF HistType
  <2>5. Real(val'["cron"], OldPeriod) BY <2>2, <2>3, <2>4 DEF LowInv, Real
  <2>6. val'["cron"] \in Int BY <1>0 DEF TypeInv, TypeOK
  <2>7. RealThen(val'["cron"], OldPeriod) BY <2>2, <2>5, <2>6, RealStays
  <2>8. pc'["cron"] = "open" BY <1>0, <2>1 DEF Goto
  <2> QED BY <2>1, <2>7, <2>8 DEF OldPeriod
<1>4. CASE OpenNewPeriod
  <2>1. pc["cron"] = "open" /\ Goto("cron", "debt") /\ UNCHANGED <<snap, val>> BY <1>4 DEF OpenNewPeriod
  <2>2. OldPeriod \in Periods /\ val["cron"] \in Int BY <2>1, CronData
  <2>3. Real(val["cron"], OldPeriod) BY <1>0, <2>1 DEF LowInv, Saw, OldPeriod
  <2>4. RealThen(val["cron"], OldPeriod) BY <2>2, <2>3, RealStays
  <2>5. pc'["cron"] = "debt" BY <1>0, <2>1 DEF Goto
  <2> QED BY <2>1, <2>4, <2>5 DEF OldPeriod
<1>5. CASE TakeDebt
  <2> DEFINE t == Until(PeriodEnd(NewPeriod))
  <2>1. pc["cron"] = "debt" /\ Goto("cron", "refill") /\ UNCHANGED snap
        /\ (DebtTaken(t) \/ DebtFound \/ DebtGuessed)
    BY <1>5, TakeDebtCases
  <2>2. NewPeriod \in Periods /\ Debt \in Nat BY <2>1, CronData
  <2> HIDE DEF t
  <2>3. ASSUME DebtTaken(t) PROVE RealThen(val'["cron"], NewPeriod)
    <3>1. /\ remaining[NewPeriod] \in Nat /\ Store(NewPeriod, remaining[NewPeriod] - Debt, t)
          /\ val' = [val EXCEPT !["cron"] = remaining'[NewPeriod]]
      BY <2>3 DEF DebtTaken
    <3>2. remaining'[NewPeriod] = remaining[NewPeriod] - Debt BY <1>0, <2>2, <3>1 DEF Store, BalanceType
    <3>3. remaining[NewPeriod] - Debt \in Int BY <2>2, <3>1
    <3>4. remaining'[NewPeriod] # Missing BY <3>2, <3>3, MissingAssumption
    <3>5. val'["cron"] = remaining'[NewPeriod] BY <1>0, <3>1
    <3> QED BY <2>2, <3>4, <3>5, BalanceReal
  <2>4. ASSUME DebtFound PROVE RealThen(val'["cron"], NewPeriod)
    <3>1. remaining[NewPeriod] \in Int /\ remaining' = remaining
          /\ val' = [val EXCEPT !["cron"] = remaining[NewPeriod]]
      BY <2>4 DEF DebtFound
    <3>2. val'["cron"] = remaining'[NewPeriod] /\ remaining'[NewPeriod] # Missing
      BY <1>0, <3>1, MissingAssumption
    <3> QED BY <2>2, <3>2, BalanceReal
  <2>5. ASSUME DebtGuessed PROVE RealThen(val'["cron"], NewPeriod)
    BY <2>5 DEF DebtGuessed, RealThen
  <2>6. RealThen(val'["cron"], NewPeriod) BY <2>1, <2>3, <2>4, <2>5
  <2>7. pc'["cron"] = "refill" BY <1>0, <2>1 DEF Goto
  <2> QED BY <2>1, <2>6, <2>7 DEF NewPeriod, OldPeriod
<1>6. CASE BookRefill
  <2>1. pc["cron"] = "refill" /\ Goto("cron", "advance") /\ UNCHANGED <<snap, val>> BY <1>6 DEF BookRefill
  <2>2. NewPeriod \in Periods /\ val["cron"] \in Int BY <2>1, CronData
  <2>3. Real(val["cron"], NewPeriod) BY <1>0, <2>1 DEF LowInv, Saw, NewPeriod, OldPeriod
  <2>4. RealThen(val["cron"], NewPeriod) BY <2>2, <2>3, RealStays
  <2>5. pc'["cron"] = "advance" BY <1>0, <2>1 DEF Goto
  <2> QED BY <2>1, <2>4, <2>5 DEF NewPeriod, OldPeriod
<1>7. CASE AdvancePeriod
  <2>1. pc'["cron"] = "idle" BY <1>0, <1>7, ReturnAlone DEF AdvancePeriod
  <2> QED BY <2>1
<1> QED BY <1>1, <1>2, <1>3, <1>4, <1>5, <1>6, <1>7 DEF CronStep
\* LowInv of one handler.
LEMMA SawNext ==
  ASSUME TypeInv, TypeInv', LowInv, LowHolds', Falls, [Next]_vars, NEW h \in Handlers
  PROVE  Saw(h, pc[h], snap[h], val[h])'
<1>0. val[h] \in Int BY DEF TypeInv, TypeOK
<1>1. ASSUME h \in Sessions, pc'[h] \in {"book", "bookAdjust"} PROVE RealThen(val'[h], snap'[h].period)
  <2>0. h # "cron" /\ h # "creator" /\ h \notin Upgraders BY <1>1, HandlerKinds
  <2>1. CASE SessionStep(h) BY <1>1, <2>1, SessionSaw
  <2>2. CASE Keeps(h) /\ val'[h] = val[h]
    <3>1. pc[h] \in {"book", "bookAdjust"} BY <1>1, <2>2 DEF Keeps
    <3>2. snap[h].period \in Periods BY <1>1, <3>1, SessionData DEF ChargingPcs
    <3>3. Real(val[h], snap[h].period) BY <1>1, <3>1 DEF LowInv, Saw
    <3> QED BY <1>0, <2>2, <3>2, <3>3, RealStays DEF Keeps
  <2>3. SessionStep(h) \/ (Keeps(h) /\ val'[h] = val[h]) \/ pc'[h] = "failed"
    BY <2>0, Movers DEF Alone, Keeps
  <2> QED BY <1>1, <2>1, <2>2, <2>3
<1>2. ASSUME h \in Upgraders, pc'[h] \in {"row", "record"} PROVE RealThen(val'[h], snap'[h].row.period)
  <2>0. h # "cron" /\ h # "creator" /\ h \notin Sessions BY <1>2, HandlerKinds
  <2>1. CASE UpgraderStep(h) BY <1>2, <2>1, UpgraderSaw
  <2>2. CASE Keeps(h) /\ val'[h] = val[h]
    <3>1. pc[h] \in {"row", "record"} BY <1>2, <2>2 DEF Keeps
    <3>2. snap[h].row.period \in Periods BY <1>2, <3>1, UpgradeData DEF UpgradingPcs, UpgradePeriod
    <3>3. Real(val[h], snap[h].row.period) BY <1>2, <3>1 DEF LowInv, Saw
    <3> QED BY <1>0, <2>2, <3>2, <3>3, RealStays DEF Keeps
  <2>3. UpgraderStep(h) \/ (Keeps(h) /\ val'[h] = val[h]) \/ pc'[h] = "failed"
    BY <2>0, Movers DEF Alone, Keeps
  <2> QED BY <1>2, <2>1, <2>2, <2>3
<1>3. ASSUME h = "creator", pc'[h] = "book" PROVE RealThen(val'[h], 0)
  <2>0. h # "cron" /\ h \notin Upgraders /\ h \notin Sessions BY <1>3, HandlerKinds
  <2>1. CASE CreatorStep BY <1>3, <2>1, CreatorSaw
  <2>2. CASE Keeps(h) /\ val'[h] = val[h]
    <3>1. Real(val[h], 0) BY <1>3, <2>2 DEF LowInv, Saw, Keeps
    <3> QED BY <1>0, <2>2, <3>1, PeriodFacts, RealStays
  <2>3. CreatorStep \/ (Keeps(h) /\ val'[h] = val[h]) \/ pc'[h] = "failed"
    BY <1>3, <2>0, Movers DEF Alone, Keeps
  <2> QED BY <1>3, <2>1, <2>2, <2>3
<1>4. ASSUME h = "cron"
      PROVE  /\ pc'[h] \in {"open", "debt"} => RealThen(val'[h], snap'[h].period)
             /\ pc'[h] \in {"refill", "advance"} => RealThen(val'[h], snap'[h].period + 1)
  <2>0. h # "creator" /\ h \notin Upgraders /\ h \notin Sessions BY <1>4, HandlerKinds
  <2>1. CASE CronStep BY <1>4, <2>1, CronSaw
  <2>2. CASE Keeps(h) /\ val'[h] = val[h]
    <3>1. ASSUME pc[h] # "idle" PROVE snap[h].period \in Periods /\ snap[h].period + 1 \in Periods
      BY <1>4, <3>1, CronData DEF OldPeriod, NewPeriod
    <3>2. ASSUME pc[h] \in {"open", "debt"} PROVE RealThen(val[h], snap[h].period)
      <4>1. Real(val[h], snap[h].period) BY <1>4, <3>2 DEF LowInv, Saw
      <4> QED BY <1>0, <3>1, <3>2, <4>1, RealStays
    <3>3. ASSUME pc[h] \in {"refill", "advance"} PROVE RealThen(val[h], snap[h].period + 1)
      <4>1. Real(val[h], snap[h].period + 1) BY <1>4, <3>3 DEF LowInv, Saw
      <4>2. snap[h].period + 1 \in Periods BY <3>1, <3>3
      <4> QED BY <1>0, <4>1, <4>2, RealStays
    <3> QED BY <2>2, <3>2, <3>3 DEF Keeps
  <2>3. CronStep \/ (Keeps(h) /\ val'[h] = val[h]) \/ pc'[h] = "idle"
    BY <1>4, <2>0, Movers DEF Alone, Keeps
  <2> QED BY <2>1, <2>2, <2>3
<1> QED BY <1>1, <1>2, <1>3, <1>4 DEF Saw, Real, RealThen

\* Every step keeps LowInv.
LEMMA LowInvNext ==
  TypeInv /\ CronInv /\ SnapInv /\ LowInv /\ [Next]_vars => LowInv'
<1> SUFFICES ASSUME TypeInv, CronInv, SnapInv, LowInv, [Next]_vars PROVE LowInv'
  OBVIOUS
<1>1. TypeInv' BY TypeNext
<1>2. LowHolds BY DEF LowInv, LowHolds
<1>3. LowHolds' /\ Falls BY <1>2, LowNext
<1>4. \A p \in Periods : mongo'[p] # None => RealThen(mongo'[p], p) BY <1>1, <1>3, MongoNext
<1>5. \A h \in Handlers : Saw(h, pc[h], snap[h], val[h])' BY <1>1, <1>3, SawNext
<1>6. (\A p \in Periods : mongo[p] # None => Real(mongo[p], p))'
  BY <1>4 DEF Real, RealThen
<1> QED BY <1>3, <1>5, <1>6 DEF LowInv, LowHolds
-----------------------------------------------------------------------------
(* Debt, and what was drawn on *)

OwedKept == \A p \in Periods : owed'[p] \in {owed[p], 0}

\* Only the debt script adds to what a period owes.
LEMMA OwedMoves ==
  ASSUME TypeInv, [Next]_vars
  PROVE  OwedKept \/ (pc["cron"] = "debt" /\ DebtTaken(Until(PeriodEnd(NewPeriod))))
<1>a. owed \in [Periods -> Nat] BY DEF TypeInv, TypeOK
<1>b. ASSUME owed' = owed PROVE OwedKept BY <1>b DEF OwedKept
<1>c. ASSUME NEW p, NEW v, NEW t, StoreIfMissing(p, v, t) PROVE OwedKept
  BY <1>a, <1>c DEF StoreIfMissing, OwedKept
<1>d. ASSUME NEW p, owed' = IF remaining[p] = Missing THEN [owed EXCEPT ![p] = 0] ELSE owed PROVE OwedKept
  BY <1>a, <1>d DEF OwedKept
<1>1. ASSUME NEW s \in Sessions, SessionStep(s) PROVE OwedKept
  <2>1. CASE Charge(s)
    <3>1. PICK t, v : ChargeTaken(s, snap[s].period, v, t) \/ ChargeRefused(s, snap[s].period, v, t)
      BY <2>1, ChargeCases
    <3> QED BY <1>c, <1>d, <3>1 DEF ChargeTaken, ChargeRefused
  <2>2. CASE Adjust(s) BY <1>b, <2>2, AdjustCases
  <2>3. CASE ~Charge(s) /\ ~Adjust(s)
    BY <1>1, <1>b, <2>3 DEF SessionStep, ReadEntitlement, BookCharge, BookAdjust, hist
  <2> QED BY <2>1, <2>2, <2>3
<1>2. ASSUME NEW u \in Upgraders, UpgraderStep(u) PROVE OwedKept
  <2>1. CASE ApplyUpgrade(u) BY <1>b, <2>1, UpgradeCases
  <2>2. CASE OpenForUpgrade(u) BY <1>c, <2>2 DEF OpenForUpgrade
  <2>3. CASE ~ApplyUpgrade(u) /\ ~OpenForUpgrade(u)
    BY <1>2, <1>b, <2>3 DEF UpgraderStep, UpgradeStep, ReadForUpgrade, StorePlan, RecordUpgrade, hist
  <2> QED BY <2>1, <2>2, <2>3
<1>3. CASE CreatorStep
  <2>1. CASE OpenFirstPeriod BY <1>c, <2>1 DEF OpenFirstPeriod
  <2>2. CASE ~OpenFirstPeriod BY <1>3, <1>b, <2>2 DEF CreatorStep, Create, BookFirstPeriod, hist
  <2> QED BY <2>1, <2>2
<1>4. CASE CronStep
  <2>1. CASE OpenNewPeriod BY <1>c, <2>1 DEF OpenNewPeriod
  <2>2. CASE TakeDebt BY <1>b, <2>2, TakeDebtCases DEF DebtFound, DebtGuessed
  <2>3. CASE ~OpenNewPeriod /\ ~TakeDebt
    BY <1>4, <1>b, <2>3
    DEF CronStep, SelectDue, CronRemove, ReadOldBalance, BookRefill, AdvancePeriod, hist
  <2> QED BY <2>1, <2>2, <2>3
<1>5. CASE Elsewhere
  <2>1. owed' = owed BY <1>5 DEF Elsewhere, RequestRemoval, Update, Fails, Tick, Lapse, vars, hist
  <2> QED BY <1>b, <2>1
<1> QED BY <1>1, <1>2, <1>3, <1>4, <1>5, Kinds

\* Every step keeps DebtOnce.
LEMMA DebtNext ==
  TypeInv /\ CronInv /\ SnapInv /\ FutureInv /\ TakenInv /\ LowInv /\ DebtOnce /\ [Next]_vars => DebtOnce'
<1> SUFFICES ASSUME TypeInv, CronInv, SnapInv, FutureInv, TakenInv, LowInv, DebtOnce, [Next]_vars,
                    NEW p \in Periods \ {0}, p - 1 \notin guessed'
             PROVE  owed'[p] <= -low'[p - 1]
  BY DEF DebtOnce
<1>0. p - 1 \in Periods BY PeriodsAssumption DEF Periods
<1>1. LowHolds' /\ Falls
  <2>1. LowHolds BY DEF LowInv, LowHolds
  <2> QED BY <2>1, LowNext
<1>2. low[p - 1] \in Int /\ owed[p] \in Nat /\ low \in [Periods -> Int] /\ owed \in [Periods -> Nat]
  BY <1>0 DEF TypeInv, TypeOK
<1>3. low'[p - 1] \in Int /\ low'[p - 1] <= low[p - 1] /\ low'[p - 1] <= 0
  <2>1. TypeInv' BY TypeNext
  <2> QED BY <1>0, <1>1, <2>1 DEF TypeInv, TypeOK, Falls, LowHolds
<1>4. owed[p] <= -low[p - 1] BY <1>1 DEF DebtOnce, Falls
<1>5. CASE OwedKept BY <1>2, <1>3, <1>4, <1>5 DEF OwedKept
<1>6. CASE pc["cron"] = "debt" /\ DebtTaken(Until(PeriodEnd(NewPeriod)))
  <2>1. /\ NewPeriod \in Periods /\ OldPeriod \in Nat /\ NewPeriod = OldPeriod + 1 /\ Debt \in Nat
        /\ val["cron"] \in Int
    BY <1>6, CronData, PeriodFacts
  <2>2. owed' = [owed EXCEPT ![NewPeriod] = @ + Debt] /\ until[RefillId] = 0 BY <1>6 DEF DebtTaken
  <2>3. CASE p # NewPeriod
    <3>1. owed'[p] = owed[p] BY <1>2, <2>2, <2>3
    <3> QED BY <1>2, <1>3, <1>4, <3>1
  <2>4. CASE p = NewPeriod
    <3>1. ~Reached(NewPeriod) BY <1>6, <2>1 DEF CronInv, Reached
    <3>2. remaining[NewPeriod] # Missing BY <1>6 DEF TakenInv
    <3>3. owed[NewPeriod] = 0 BY <2>1, <2>2, <3>1, <3>2 DEF FutureInv, RefillId
    <3>4. owed'[p] = Debt BY <1>2, <2>1, <2>2, <2>4, <3>3
    <3>5. p - 1 = OldPeriod BY <2>1, <2>4
    <3>6. Real(val["cron"], OldPeriod) BY <1>6, HandlerKinds DEF LowInv, Saw, OldPeriod
    <3>7. val["cron"] >= low[p - 1] BY <1>1, <3>5, <3>6 DEF Real, Falls
    <3>8. low[p - 1] <= 0 BY <1>0 DEF LowInv
    <3>9. Debt <= -low[p - 1] BY <1>2, <2>1, <3>7, <3>8 DEF Debt, Larger
    <3> QED BY <1>2, <1>3, <2>1, <3>4, <3>9
  <2> QED BY <2>3, <2>4
<1> QED BY <1>5, <1>6, OwedMoves

\* A period is first drawn on by the step that stores its balance.
LEMMA DrawnFrom ==
  ASSUME TypeInv, SnapInv, [Next]_vars, NEW p \in Periods, p \in drawn', p \notin drawn
  PROVE  Reached(p) /\ \E v \in Int, t \in Nat \ {0} : Stores(p, v, t)
<1>1. PICK q \in Periods, v \in Int, t \in Nat \ {0} : Stores(q, v, t)
  BY AllEffects DEF Effects, Still, Guesses, Opens, Times, Lapses
<1>2. Reached(q) /\ drawn' = drawn \cup {q} BY <1>1 DEF Stores
<1> QED BY <1>1, <1>2

\* Every step keeps OpenedBeforeDrawn.
LEMMA OpenedNext ==
  TypeInv /\ CronInv /\ SnapInv /\ FutureInv /\ TakenInv /\ OpenedBeforeDrawn /\ [Next]_vars
    => OpenedBeforeDrawn'
<1> SUFFICES ASSUME TypeInv, CronInv, SnapInv, FutureInv, TakenInv, OpenedBeforeDrawn, [Next]_vars,
                    NEW p \in drawn', p # 0
             PROVE  p \in taken'
  BY DEF OpenedBeforeDrawn
<1>1. taken \subseteq taken' BY TakenGrows
<1>2. CASE p \in drawn BY <1>1, <1>2 DEF OpenedBeforeDrawn
<1>3. CASE p \notin drawn
  <2>1. p \in Periods
    <3>1. TypeInv' BY TypeNext
    <3> QED BY <3>1 DEF TypeInv, TypeOK
  <2>2. Reached(p) BY <1>3, <2>1, DrawnFrom
  <2> QED BY <1>1, <2>1, <2>2 DEF TakenInv
<1> QED BY <1>2, <1>3
\* A row never runs ahead of time by more than a period.
LEMMA StartNext == TypeInv /\ CronInv /\ SnapInv /\ StartInv /\ [Next]_vars => StartInv'
<1> SUFFICES ASSUME TypeInv, CronInv, SnapInv, StartInv, [Next]_vars, sub' # None
             PROVE  PeriodEnd(sub'.period) <= now' + PeriodLength
  BY DEF StartInv
<1>0. now \in Nat /\ PeriodLength \in Nat BY PeriodsAssumption DEF TypeInv, TypeOK
<1>1. now' \in Nat /\ now <= now' BY <1>0, NowMoves
<1>2. ASSUME sub # None PROVE sub.period \in Nat /\ PeriodEnd(sub.period) \in Nat
  <2>1. sub \in RowType BY <1>2, TypeParts DEF TypeInv, RowTyped
  <2>2. sub.period \in Nat BY <2>1, PeriodFacts DEF RowType
  <2> QED BY <2>2, PeriodEndType
<1>3. CASE RowKept BY <1>0, <1>1, <1>2, <1>3 DEF RowKept, StartInv
<1>4. CASE RowCreated
  <2>1. PeriodEnd(0) = PeriodLength BY <1>0 DEF PeriodEnd
  <2> QED BY <1>0, <1>1, <1>4, <2>1 DEF RowCreated
<1>5. CASE RowAdvanced
  <2>1. sub # None /\ sub'.period = sub.period + 1 /\ PeriodEnd(sub.period) <= now
    BY <1>5 DEF RowAdvanced, Due
  <2>2. PeriodEnd(sub.period + 1) = PeriodEnd(sub.period) + PeriodLength BY <1>2, <2>1, PeriodEndNext
  <2> QED BY <1>0, <1>1, <1>2, <2>1, <2>2
<1> QED BY <1>3, <1>4, <1>5, RowMoves

\* An adjustment's key lasts to the end of any period the row has reached.
LEMMA AdjustLasts ==
  ASSUME PeriodLength <= AdjustTtl, TypeInv, StartInv, NEW p \in Periods, Reached(p)
  PROVE  PeriodEnd(p) <= now + AdjustTtl
<1>1. sub \in RowType BY TypeParts DEF TypeInv, RowTyped, Reached
<1>2. sub.period \in Nat /\ p \in Nat BY <1>1, PeriodFacts DEF RowType
<1>3. PeriodEnd(p) <= PeriodEnd(sub.period) BY <1>2, PeriodEndMonotone DEF Reached
<1>4. PeriodEnd(sub.period) <= now + PeriodLength BY DEF StartInv, Reached
<1>5. PeriodEnd(p) \in Nat /\ PeriodEnd(sub.period) \in Nat BY <1>2, PeriodEndType
<1>6. now \in Nat /\ PeriodLength \in Nat /\ AdjustTtl \in Nat BY PeriodsAssumption DEF TypeInv, TypeOK
<1> QED BY <1>3, <1>4, <1>5, <1>6

\* A balance drawn on is kept, by charges and adjustments alike.
LEMMA DrawnNext ==
  ASSUME PeriodLength <= AdjustTtl
  PROVE  TypeInv /\ CronInv /\ SnapInv /\ StartInv /\ DrawnInv /\ [Next]_vars => DrawnInv'
<1> SUFFICES ASSUME TypeInv, CronInv, SnapInv, StartInv, DrawnInv, [Next]_vars,
                    NEW p \in drawn', now' < PeriodEnd(p)
             PROVE  remaining'[p] # Missing /\ expiry'[p] >= PeriodEnd(p)
  BY DEF DrawnInv
<1>0. BalanceType BY TypeParts DEF TypeInv
<1>1. p \in Periods /\ p \in Nat
  <2>1. TypeInv' BY TypeNext
  <2> QED BY <2>1, PeriodFacts DEF TypeInv, TypeOK
<1>2. now \in Nat /\ now' \in Nat /\ now <= now' /\ PeriodEnd(p) \in Nat
  <2>1. now \in Nat BY DEF TypeInv, TypeOK
  <2> QED BY <1>1, <2>1, NowMoves, PeriodEndType
<1>3. ASSUME p \in drawn PROVE remaining[p] # Missing /\ expiry[p] >= PeriodEnd(p)
  BY <1>2, <1>3 DEF DrawnInv
<1>4. ASSUME NEW q \in Periods, NEW v \in Int, NEW t \in Nat \ {0}, Stores(q, v, t)
      PROVE  remaining'[p] # Missing /\ expiry'[p] >= PeriodEnd(p)
  <2>1. /\ remaining' = [remaining EXCEPT ![q] = v] /\ expiry' = [expiry EXCEPT ![q] = t]
        /\ drawn' = drawn \/ drawn' = drawn \cup {q}
        /\ t >= PeriodEnd(q) \/ (Reached(q) /\ t = now + AdjustTtl)
    BY <1>4 DEF Stores, Store
  <2>2. t >= PeriodEnd(q)
    <3>1. CASE Reached(q) /\ t = now + AdjustTtl
      <4>1. PeriodEnd(q) <= now + AdjustTtl BY <3>1, AdjustLasts
      <4>2. PeriodEnd(q) \in Nat /\ AdjustTtl \in Nat BY PeriodFacts, PeriodEndType, PeriodsAssumption
      <4> QED BY <1>2, <3>1, <4>1, <4>2
    <3> QED BY <2>1, <3>1
  <2>3. CASE p = q
    <3>1. remaining'[p] = v /\ expiry'[p] = t BY <1>0, <2>1, <2>3 DEF BalanceType
    <3> QED BY <2>2, <2>3, <3>1, MissingAssumption
  <2>4. CASE p # q
    <3>1. remaining'[p] = remaining[p] /\ expiry'[p] = expiry[p]
      BY <1>0, <1>1, <2>1, <2>4 DEF BalanceType
    <3> QED BY <1>3, <2>1, <2>4, <3>1
  <2> QED BY <2>3, <2>4
<1>5. CASE Still \/ Guesses BY <1>3, <1>5 DEF Still, Guesses
<1>6. ASSUME NEW q \in Periods, NEW v \in Nat, NEW t \in Nat \ {0}, Opens(q, v, t)
      PROVE  remaining'[p] # Missing /\ expiry'[p] >= PeriodEnd(p)
  <2>1. p \in drawn /\ StoreIfMissing(q, v, t) BY <1>6 DEF Opens
  <2>2. remaining[p] # Missing /\ expiry[p] >= PeriodEnd(p) BY <1>3, <2>1
  <2>3. remaining'[p] = remaining[p] /\ expiry'[p] = expiry[p]
    BY <1>0, <1>1, <2>1, <2>2 DEF StoreIfMissing, InitRemainingIfMissing, BalanceType
  <2> QED BY <2>2, <2>3
<1>7. CASE Times(now + 1)
  <2>1. /\ Forget({q \in Periods : expiry[q] <= now + 1}, {e \in EventIds : until[e] <= now + 1})
        /\ p \in drawn /\ now' = now + 1
    BY <1>7 DEF Times
  <2>2. remaining[p] # Missing /\ expiry[p] >= PeriodEnd(p) BY <1>3, <2>1
  <2>3. expiry[p] \in Nat BY <1>0, <1>1 DEF BalanceType
  <2>4. ~(expiry[p] <= now + 1) BY <1>2, <2>1, <2>2, <2>3
  <2>5. remaining'[p] = remaining[p] /\ expiry'[p] = expiry[p] BY <1>1, <2>1, <2>4 DEF Forget
  <2> QED BY <2>2, <2>5
<1>8. ASSUME NEW r \in Periods, Lapses(r)
      PROVE  remaining'[p] # Missing /\ expiry'[p] >= PeriodEnd(p)
  <2>1. /\ Forget({r}, {e \in EventIds : e[2] = r /\ until[e] <= now})
        /\ p \in drawn /\ now' = now /\ expiry[r] <= now
    BY <1>8 DEF Lapses
  <2>2. remaining[p] # Missing /\ expiry[p] >= PeriodEnd(p) BY <1>3, <2>1
  <2>3. expiry[p] \in Nat BY <1>0, <1>1 DEF BalanceType
  <2>4. p # r BY <1>2, <2>1, <2>2, <2>3
  <2>5. remaining'[p] = remaining[p] /\ expiry'[p] = expiry[p] BY <1>1, <2>1, <2>4 DEF Forget
  <2> QED BY <2>2, <2>5
<1> QED BY <1>4, <1>5, <1>6, <1>7, <1>8, AllEffects DEF Effects

-----------------------------------------------------------------------------
(* The theorems *)

\* Before the subscription exists there is nothing to break.
LEMMA InitInv == Init => Inv /\ StartInv /\ DrawnInv
<1> SUFFICES ASSUME Init PROVE Inv /\ StartInv /\ DrawnInv
  OBVIOUS
<1>1. TypeOK
  <2>1. BalanceType BY DEF Init, BalanceType
  <2>2. HistType /\ BooksType /\ LocalsType
    BY PeriodsAssumption DEF Init, HistType, BooksType, LocalsType
  <2>3. RowTyped BY PeriodsAssumption DEF Init, RowTyped
  <2> QED BY <2>1, <2>2, <2>3, TypeParts
<1>2. \A h \in Handlers : pc[h] = "idle" BY DEF Init
<1>3. SnapType BY <1>2 DEF Init, SnapType, Fits, ChargingPcs, UpgradingPcs, CronPcs
<1>4. CronInv BY <1>2, HandlerKinds DEF CronInv
<1>5. SnapInv BY <1>2 DEF SnapInv, Behind, ChargingPcs, UpgradingPcs
<1>6. \A p \in Periods : until[<<"refill", p>>] = 0 /\ remaining[p] = Missing
  BY Ids DEF Init
<1>7. FutureInv BY <1>6 DEF FutureInv
<1>8. TakenInv BY <1>2, <1>6, HandlerKinds DEF Init, TakenInv, Reached
<1>9. LowInv
  <2>1. \A p \in Periods : low[p] = 0 /\ mongo[p] = None BY DEF Init
  <2>2. \A h \in Handlers : Saw(h, pc[h], snap[h], val[h]) BY <1>2 DEF Saw
  <2>3. \A p \in Periods : low[p] <= 0 BY <2>1
  <2> QED BY <1>6, <2>1, <2>2, <2>3 DEF LowInv
<1>10. DebtOnce
  <2>1. \A p \in Periods : low[p] = 0 /\ owed[p] = 0 BY DEF Init
  <2>2. \A p \in Periods \ {0} : p - 1 \in Periods BY PeriodsAssumption DEF Periods
  <2> QED BY <2>1, <2>2 DEF DebtOnce
<1>11. OpenedBeforeDrawn /\ DrawnInv /\ StartInv BY DEF Init, OpenedBeforeDrawn, DrawnInv, StartInv
<1> QED BY <1>1, <1>3, <1>4, <1>5, <1>7, <1>8, <1>9, <1>10, <1>11 DEF Inv, TypeInv

\* Every step keeps the invariant.
LEMMA InvNext == Inv /\ [Next]_vars => Inv'
BY TypeNext, CronNext, SnapNext, FutureNext, TakenNext, LowInvNext, DebtNext, OpenedNext DEF Inv

\* The invariant holds.
LEMMA InvHolds == Spec => []Inv
<1>1. Init => Inv BY InitInv
<1>2. Inv /\ [Next]_vars => Inv' BY InvNext
<1> QED BY <1>1, <1>2, PTL DEF Spec

\* Every variable keeps its type; in particular a balance key is there
\* exactly as long as it has an expiry.
THEOREM Types == Spec => []TypeOK
<1>1. Inv => TypeOK BY DEF Inv, TypeInv
<1> QED BY <1>1, InvHolds, PTL

\* However many sessions, upgrades, retries and edits interleave, no session
\* draws on a period before the debt of the previous one was taken from it.
THEOREM OpenedFirst == Spec => []OpenedBeforeDrawn
<1>1. Inv => OpenedBeforeDrawn BY DEF Inv
<1> QED BY <1>1, InvHolds, PTL

\* A rollover that stops and is run again, any number of times and in any
\* number of periods, passes on no more debt than the old period ever had,
\* unless the old period's document was written from the job's guess.
THEOREM DebtTakenOnce == Spec => []DebtOnce
<1>1. Inv => DebtOnce BY DEF Inv
<1> QED BY <1>1, InvHolds, PTL

\* The row of the subscription moves on by exactly one period, and only out of
\* a period that is over, whoever else writes the row meanwhile.
THEOREM OrderOfPeriods == Spec => PeriodsInOrder
<1>1. Inv /\ [Next]_vars
        => [sub # None /\ sub'.period # sub.period => sub'.period = sub.period + 1 /\ Due(sub)]_vars
  <2> SUFFICES ASSUME Inv, [Next]_vars, sub # None, sub'.period # sub.period
               PROVE  sub'.period = sub.period + 1 /\ Due(sub)
    OBVIOUS
  <2>1. RowKept \/ RowCreated \/ RowAdvanced BY RowMoves DEF Inv
  <2> QED BY <2>1 DEF RowKept, RowCreated, RowAdvanced
<1> QED BY <1>1, InvHolds, PTL DEF PeriodsInOrder, Spec

\* With an interval that an adjusted key outlives, a balance that was drawn on
\* is there until its period is over.
THEOREM BalanceKept ==
  ASSUME PeriodLength <= AdjustTtl
  PROVE  Spec => []BalanceOutlivesPeriod
<1>1. Init => Inv /\ StartInv /\ DrawnInv BY InitInv
<1>2. Inv /\ StartInv /\ DrawnInv /\ [Next]_vars => (Inv /\ StartInv /\ DrawnInv)'
  BY InvNext, StartNext, DrawnNext DEF Inv
<1>3. DrawnInv => BalanceOutlivesPeriod BY DEF DrawnInv, BalanceOutlivesPeriod
<1> QED BY <1>1, <1>2, <1>3, PTL DEF Spec
=============================================================================
