------------------------------ MODULE CoinPeriods ------------------------------
(***************************************************************************)
(* The life of one team's subscription and of the balance of each of its   *)
(* periods: creation, the daily rollover job, plan upgrades, cancellation, *)
(* and the sessions that draw on the balance meanwhile, with the expiry of *)
(* the Redis keys.  CoinWallet has the races inside one period; here a     *)
(* session's charge is one step, and what matters is the period it names.  *)
(*                                                                         *)
(* Time counts ticks (think of weeks).  Period p ends at PeriodEnd(p).     *)
(***************************************************************************)
EXTENDS CoinRedis, FiniteSets

CONSTANTS
  Plans, MaxCoins,                    \* each plan's coins per period
  PeriodLength, Buffer, AdjustTtl,    \* interval, 7 days, 40 days, in ticks
  Sessions, Estimate, MaxOverrun,     \* estimate of each; bound on what one adds
  Upgraders,                          \* executions of upgradeSubscription
  MaxPeriod, MaxTime,                 \* bounds
  MaxFaults, MaxEdits,                \* bounds: failing awaits, administrators' calls
  None

Periods == 0..MaxPeriod
PeriodEnd(p) == (p + 1) * PeriodLength
EventIds == {<<"refill", p>> : p \in Periods} \cup {<<"upgrade", p, q>> : p \in Periods, q \in Plans}
Handlers == Sessions \cup Upgraders \cup {"creator", "cron"}

ASSUME PeriodsAssumption ==
  /\ MaxCoins \in [Plans -> Nat] /\ Estimate \in [Sessions -> Nat]
  /\ PeriodLength \in Nat \ {0} /\ Buffer \in Nat /\ AdjustTtl \in Nat \ {0}
  /\ MaxOverrun \in Nat /\ MaxPeriod \in Nat /\ MaxTime \in Nat /\ MaxFaults \in Nat /\ MaxEdits \in Nat
  /\ Sessions \cap Upgraders = {} /\ {"creator", "cron"} \cap (Sessions \cup Upgraders) = {}
  /\ None \notin Int \cup [plan : Plans, period : Periods, active : BOOLEAN, cancel : BOOLEAN]

VARIABLES
  now,
  sub,                    \* Postgres: the subscription row, None before it exists
  remaining, expiry,      \* Redis: the balance key of each period, when it expires
  until,                  \* Redis: when the key of each event expires, 0 if absent
  mongo,                  \* Mongo: `remaining` of each period's balance document
  pc, snap, val,          \* control; the row a handler read; the balance it saw
  faults, edits,
  low, owed, drawn, taken, guessed \* history, see below

redis == <<remaining, expiry, until>>
hist  == <<low, owed, drawn, taken, guessed>>
bounds == <<faults, edits>>
vars  == <<now, sub, redis, mongo, pc, snap, val, bounds, hist>>

Larger(m, n) == IF m < n THEN n ELSE m
Smaller(m, n) == IF m < n THEN m ELSE n
Goto(h, to) == pc' = [pc EXCEPT ![h] = to]
\* The handler returns and its locals are gone.
Return(h, to) ==
  /\ Goto(h, to)
  /\ snap' = [snap EXCEPT ![h] = None] /\ val' = [val EXCEPT ![h] = 0]
Row(plan, period, active, cancel) ==
  [plan |-> plan, period |-> period, active |-> active, cancel |-> cancel]
Due(row) == PeriodEnd(row.period) <= now
\* A TTL that runs to t; one that would be over already lasts a minute instead.
Until(t) == Larger(t, now)

Init ==
  /\ now = 0 /\ sub = None
  /\ remaining = [p \in Periods |-> Missing] /\ expiry = [p \in Periods |-> 0]
  /\ until = [e \in EventIds |-> 0] /\ mongo = [p \in Periods |-> None]
  /\ pc = [h \in Handlers |-> "idle"] /\ snap = [h \in Handlers |-> None]
  /\ val = [h \in Handlers |-> 0]
  /\ faults = 0 /\ edits = 0
  /\ low = [p \in Periods |-> 0]       \* the lowest balance a period ever had
  /\ owed = [p \in Periods |-> 0]      \* debt taken from the present balance key
  /\ drawn = {} /\ taken = {}          \* periods drawn on; periods opened with their debt
  /\ guessed = {}                      \* periods whose document got an expected balance

\* SET key v EX: the effect of a script that changes a balance
Store(p, v, t) ==
  /\ remaining' = [remaining EXCEPT ![p] = v]
  /\ expiry' = [expiry EXCEPT ![p] = t]
  /\ low' = [low EXCEPT ![p] = Smaller(@, v)]

\* SET key allowance EX NX
StoreIfMissing(p, allowance, t) ==
  /\ remaining' = InitRemainingIfMissing(remaining, p, allowance)
  /\ expiry' = IF remaining[p] = Missing THEN [expiry EXCEPT ![p] = t] ELSE expiry
  /\ owed' = IF remaining[p] = Missing THEN [owed EXCEPT ![p] = 0] ELSE owed

-----------------------------------------------------------------------------
(* createSubscription *)

Create(q) ==
  /\ pc["creator"] = "idle" /\ sub = None
  /\ sub' = Row(q, 0, TRUE, FALSE)
  /\ snap' = [snap EXCEPT !["creator"] = sub']
  /\ Goto("creator", "open")
  /\ UNCHANGED <<now, redis, mongo, val, bounds, hist>>

(* refillInitialForSubscription: the key, then the balance document. *)
OpenFirstPeriod ==
  /\ pc["creator"] = "open"
  /\ StoreIfMissing(0, MaxCoins[snap["creator"].plan], Until(PeriodEnd(0)))
  /\ val' = [val EXCEPT !["creator"] = remaining'[0]]
  /\ Goto("creator", "book")
  /\ UNCHANGED <<now, sub, until, mongo, snap, bounds, low, drawn, taken, guessed>>

BookFirstPeriod ==
  /\ pc["creator"] = "book"
  /\ mongo' = [mongo EXCEPT ![0] = val["creator"]]
  /\ Return("creator", "done")
  /\ UNCHANGED <<now, sub, redis, bounds, hist>>

-----------------------------------------------------------------------------
(* Sessions: reserveCoins and applyAdjustment *)

ReadEntitlement(s) ==
  /\ pc[s] = "idle" /\ sub # None /\ sub.active
  /\ snap' = [snap EXCEPT ![s] = sub]
  /\ Goto(s, "charge")
  /\ UNCHANGED <<now, sub, redis, mongo, val, bounds, hist>>

(* The key is opened if it is missing, then charged; its TTL starts anew. *)
Charge(s) ==
  LET p == snap[s].period
      before == InitRemainingIfMissing(remaining, p, MaxCoins[snap[s].plan])[p]
      ttl == Until(PeriodEnd(p) + Buffer) IN
  /\ pc[s] = "charge"
  /\ IF ReserveIfEnough(before, FALSE, Estimate[s]) = "charged"
       THEN /\ Store(p, before - Estimate[s], ttl)
            /\ val' = [val EXCEPT ![s] = before - Estimate[s]]
            /\ owed' = IF remaining[p] = Missing THEN [owed EXCEPT ![p] = 0] ELSE owed
            /\ drawn' = drawn \cup {p}
            /\ Goto(s, "book") /\ UNCHANGED snap
       ELSE /\ StoreIfMissing(p, MaxCoins[snap[s].plan], ttl)
            /\ Return(s, "refused")
            /\ UNCHANGED <<low, drawn>>
  /\ UNCHANGED <<now, sub, until, mongo, bounds, taken, guessed>>

BookCharge(s) ==
  /\ pc[s] = "book"
  /\ mongo' = [mongo EXCEPT ![snap[s].period] = val[s]]
  /\ Goto(s, "running") /\ val' = [val EXCEPT ![s] = 0]
  /\ UNCHANGED <<now, sub, redis, snap, bounds, hist>>

\* mutant: the balance key is kept for the buffer only
AdjustShortTtl(s) ==
  LET p == snap[s].period IN
  /\ pc[s] = "running"
  /\ IF ApplyDeltaIdempotent(remaining[p], FALSE) = "applied"
       THEN \E x \in Sessions : \E d \in (-Estimate[x])..MaxOverrun :
              /\ Store(p, remaining[p] - d, now + Buffer)
              /\ val' = [val EXCEPT ![s] = remaining[p] - d]
              /\ Goto(s, "bookAdjust") /\ UNCHANGED snap
       ELSE Return(s, "refused") /\ UNCHANGED <<remaining, expiry, low>>
  /\ UNCHANGED <<now, sub, until, mongo, bounds, owed, drawn, taken, guessed>>

(* The session ends, at any later time: its period is the one it reserved in. *)
(* What it is given back is its estimate at most, or that of a restart whose *)
(* request was repeated, which the session keeps beside its reservation.     *)
Adjust(s) ==
  LET p == snap[s].period IN
  /\ pc[s] = "running"
  /\ IF ApplyDeltaIdempotent(remaining[p], FALSE) = "applied"
       THEN \E x \in Sessions : \E d \in (-Estimate[x])..MaxOverrun :
              /\ Store(p, remaining[p] - d, now + AdjustTtl)
              /\ val' = [val EXCEPT ![s] = remaining[p] - d]
              /\ Goto(s, "bookAdjust") /\ UNCHANGED snap
       ELSE Return(s, "refused") /\ UNCHANGED <<remaining, expiry, low>>
  /\ UNCHANGED <<now, sub, until, mongo, bounds, owed, drawn, taken, guessed>>

BookAdjust(s) ==
  /\ pc[s] = "bookAdjust"
  /\ mongo' = [mongo EXCEPT ![snap[s].period] = val[s]]
  /\ Return(s, "settled")
  /\ UNCHANGED <<now, sub, redis, bounds, hist>>

-----------------------------------------------------------------------------
(* The rollover job: one subscription that findDueForRollover returned *)

\* mutant: the end of the period is not compared with the time
SelectActive ==
  /\ pc["cron"] = "idle"
  /\ sub # None /\ sub.active /\ sub.period < MaxPeriod
  /\ snap' = [snap EXCEPT !["cron"] = sub]
  /\ Goto("cron", IF sub.cancel THEN "remove" ELSE "balance")
  /\ UNCHANGED <<now, sub, redis, mongo, val, bounds, hist>>

SelectDue ==
  /\ pc["cron"] = "idle"
  /\ sub # None /\ sub.active /\ Due(sub) /\ sub.period < MaxPeriod
  /\ snap' = [snap EXCEPT !["cron"] = sub]
  /\ Goto("cron", IF sub.cancel THEN "remove" ELSE "balance")
  /\ UNCHANGED <<now, sub, redis, mongo, val, bounds, hist>>

(* removeSubscription reads the row again. *)
Remove ==
  IF sub.cancel THEN sub' = sub
  ELSE sub' = IF now < PeriodEnd(sub.period) THEN [sub EXCEPT !.cancel = TRUE]
              ELSE [sub EXCEPT !.active = FALSE]

CronRemove ==
  /\ pc["cron"] = "remove"
  /\ Remove
  /\ Return("cron", "idle")
  /\ UNCHANGED <<now, redis, mongo, bounds, hist>>

OldPeriod == snap["cron"].period
NewPeriod == OldPeriod + 1
Allowance == MaxCoins[snap["cron"].plan]
\* mutant: coins left over count as negative debt
DebtOrCredit == -val["cron"]
Debt == Larger(0, -val["cron"])
RefillId == <<"refill", NewPeriod>>

(* getRemainingCoins of the old period: Redis, else Mongo, else the allowance. *)
ReadOldBalance ==
  /\ pc["cron"] = "balance"
  /\ val' = [val EXCEPT !["cron"] =
               IF remaining[OldPeriod] # Missing THEN remaining[OldPeriod]
               ELSE IF mongo[OldPeriod] # None THEN mongo[OldPeriod]
               ELSE Allowance]
  /\ Goto("cron", "open")
  /\ UNCHANGED <<now, sub, redis, mongo, snap, bounds, hist>>

\* mutant: the row names the new period before the balance is opened
AdvanceFirst ==
  /\ pc["cron"] = "open"
  /\ sub' = [sub EXCEPT !.period = NewPeriod]
  /\ StoreIfMissing(NewPeriod, Allowance, Until(PeriodEnd(NewPeriod)))
  /\ Goto("cron", "debt")
  /\ UNCHANGED <<now, until, mongo, snap, val, bounds, low, drawn, taken, guessed>>

OpenNewPeriod ==
  /\ pc["cron"] = "open"
  /\ StoreIfMissing(NewPeriod, Allowance, Until(PeriodEnd(NewPeriod)))
  /\ Goto("cron", "debt")
  /\ UNCHANGED <<now, sub, until, mongo, snap, val, bounds, low, drawn, taken, guessed>>

\* mutant: the key of the event does not name the period, so a retry repeats it
TakeDebtAgain ==
  /\ pc["cron"] = "debt"
  /\ Store(NewPeriod, remaining[NewPeriod] - Debt, Until(PeriodEnd(NewPeriod)))
  /\ owed' = [owed EXCEPT ![NewPeriod] = @ + Debt]
  /\ taken' = taken \cup {NewPeriod}
  /\ val' = [val EXCEPT !["cron"] = remaining[NewPeriod] - Debt]
  /\ Goto("cron", "refill")
  /\ UNCHANGED <<now, sub, until, mongo, snap, bounds, drawn, guessed>>

\* mutant: the job gives up when the script did not apply the debt
TakeDebtStrictly ==
  LET verdict == ApplyDeltaIdempotent(remaining[NewPeriod], until[RefillId] > 0)
      t == Until(PeriodEnd(NewPeriod)) IN
  /\ pc["cron"] = "debt"
  /\ IF verdict = "applied"
       THEN /\ Store(NewPeriod, remaining[NewPeriod] - Debt, t)
            /\ until' = [until EXCEPT ![RefillId] = t]
            /\ owed' = [owed EXCEPT ![NewPeriod] = @ + Debt]
            /\ taken' = taken \cup {NewPeriod}
            /\ val' = [val EXCEPT !["cron"] = remaining[NewPeriod] - Debt]
            /\ Goto("cron", "refill") /\ UNCHANGED snap
       ELSE /\ Return("cron", "idle")
            /\ UNCHANGED <<remaining, expiry, until, low, owed, taken>>
  /\ UNCHANGED <<now, sub, mongo, bounds, drawn, guessed>>

(* The script's verdict is not looked at: the job goes on in any case, with  *)
(* the balance the script reported or, if it found none, the expected one.   *)
TakeDebt ==
  LET verdict == ApplyDeltaIdempotent(remaining[NewPeriod], until[RefillId] > 0)
      t == Until(PeriodEnd(NewPeriod)) IN
  /\ pc["cron"] = "debt"
  /\ IF verdict = "applied"
       THEN /\ Store(NewPeriod, remaining[NewPeriod] - Debt, t)
            /\ until' = [until EXCEPT ![RefillId] = t]
            /\ owed' = [owed EXCEPT ![NewPeriod] = @ + Debt]
            /\ taken' = taken \cup {NewPeriod}
       ELSE UNCHANGED <<remaining, expiry, until, low, owed, taken>>
  /\ IF verdict = "missing"
       THEN /\ val' = [val EXCEPT !["cron"] = Allowance - Debt]
            /\ guessed' = guessed \cup {NewPeriod}
       ELSE val' = [val EXCEPT !["cron"] = remaining'[NewPeriod]] /\ UNCHANGED guessed
  /\ Goto("cron", "refill")
  /\ UNCHANGED <<now, sub, mongo, snap, bounds, drawn>>

(* The ledger entry (once per event) and the balance document. *)
BookRefill ==
  /\ pc["cron"] = "refill"
  /\ mongo' = [mongo EXCEPT ![NewPeriod] = val["cron"]]
  /\ Goto("cron", "advance")
  /\ UNCHANGED <<now, sub, redis, snap, val, bounds, hist>>

AdvancePeriod ==
  /\ pc["cron"] = "advance"
  /\ sub' = [sub EXCEPT !.period = NewPeriod]
  /\ Return("cron", "idle")
  /\ UNCHANGED <<now, redis, mongo, bounds, hist>>

-----------------------------------------------------------------------------
(* upgradeSubscription; `plan` of the handler's snapshot is the old one *)

ReadForUpgrade(u, q) ==
  /\ pc[u] = "idle" /\ sub # None
  /\ snap' = [snap EXCEPT ![u] = [row |-> sub, plan |-> q]]
  /\ Goto(u, "open")
  /\ UNCHANGED <<now, sub, redis, mongo, val, bounds, hist>>

UpgradePeriod(u) == snap[u].row.period
OldCoins(u) == MaxCoins[snap[u].row.plan]
NewCoins(u) == MaxCoins[snap[u].plan]

OpenForUpgrade(u) ==
  /\ pc[u] = "open"
  /\ StoreIfMissing(UpgradePeriod(u), OldCoins(u), Until(PeriodEnd(UpgradePeriod(u))))
  /\ Goto(u, "delta")
  /\ UNCHANGED <<now, sub, until, mongo, snap, val, bounds, low, drawn, taken, guessed>>

ApplyUpgrade(u) ==
  LET p == UpgradePeriod(u)
      id == <<"upgrade", p, snap[u].plan>>
      verdict == ApplyDeltaIdempotent(remaining[p], until[id] > 0)
      t == Until(PeriodEnd(p)) IN
  /\ pc[u] = "delta"
  /\ IF verdict = "applied"
       THEN /\ Store(p, remaining[p] + NewCoins(u) - OldCoins(u), t)
            /\ until' = [until EXCEPT ![id] = t]
            /\ val' = [val EXCEPT ![u] = remaining'[p]]
            /\ Goto(u, "row") /\ UNCHANGED snap
       ELSE /\ IF verdict = "already"
                 THEN Goto(u, "row") /\ val' = [val EXCEPT ![u] = remaining[p]] /\ UNCHANGED snap
                 ELSE Return(u, "refused")
            /\ UNCHANGED <<remaining, expiry, until, low>>
  /\ UNCHANGED <<now, sub, mongo, bounds, owed, drawn, taken, guessed>>

StorePlan(u) ==
  /\ pc[u] = "row"
  /\ sub' = [sub EXCEPT !.plan = snap[u].plan]
  /\ Goto(u, "record")
  /\ UNCHANGED <<now, redis, mongo, snap, val, bounds, hist>>

RecordUpgrade(u) ==
  /\ pc[u] = "record"
  /\ mongo' = [mongo EXCEPT ![UpgradePeriod(u)] = val[u]]
  /\ Return(u, "done")
  /\ UNCHANGED <<now, sub, redis, bounds, hist>>

-----------------------------------------------------------------------------
(* removeSubscription and updateSubscription, called by an administrator *)

RequestRemoval ==
  /\ sub # None /\ edits < MaxEdits /\ edits' = edits + 1
  /\ Remove
  /\ UNCHANGED <<now, redis, mongo, pc, snap, val, faults, hist>>

(* The plan of an update takes effect without any change of the balance. *)
Update(q, cancel) ==
  /\ sub # None /\ edits < MaxEdits /\ edits' = edits + 1
  /\ sub' = [sub EXCEPT !.plan = q, !.cancel = cancel]
  /\ UNCHANGED <<now, redis, mongo, pc, snap, val, faults, hist>>

-----------------------------------------------------------------------------
(* Time and failures *)

AtRest == {"idle", "running", "settled", "refused", "done", "failed"}

(* An await of a handler throws, or its process stops.  The job runs again   *)
(* the next day and finds the row as it was.                                *)
Fails(h) ==
  /\ pc[h] \notin AtRest /\ faults < MaxFaults
  /\ faults' = faults + 1
  /\ Return(h, IF h = "cron" THEN "idle" ELSE "failed")
  /\ UNCHANGED <<now, sub, redis, mongo, hist, edits>>

Forget(balances, ids) ==
  /\ remaining' = [p \in Periods |-> IF p \in balances THEN Missing ELSE remaining[p]]
  /\ expiry' = [p \in Periods |-> IF p \in balances THEN 0 ELSE expiry[p]]
  /\ until' = [e \in EventIds |-> IF e \in ids THEN 0 ELSE until[e]]

(* A key with the minute's minimum outlasts the handler that wrote it, and   *)
(* is gone before the next tick.                                            *)
Lapse(p) ==
  /\ remaining[p] # Missing /\ expiry[p] <= now
  /\ \A h \in Handlers : pc[h] \in AtRest
  /\ Forget({p}, {e \in EventIds : e[2] = p /\ until[e] <= now})
  /\ UNCHANGED <<now, sub, mongo, pc, snap, val, bounds, hist>>

(* A handler's awaits take seconds, a tick is a week. *)
Tick ==
  /\ now < MaxTime /\ \A h \in Handlers : pc[h] \in AtRest
  /\ \A p \in Periods : remaining[p] # Missing => expiry[p] > now
  /\ now' = now + 1
  /\ Forget({p \in Periods : expiry[p] <= now + 1}, {e \in EventIds : until[e] <= now + 1})
  /\ UNCHANGED <<sub, mongo, pc, snap, val, bounds, hist>>

CronStep ==
  \/ SelectDue \/ CronRemove \/ ReadOldBalance \/ OpenNewPeriod \/ TakeDebt
  \/ BookRefill \/ AdvancePeriod
SessionStep(s) == ReadEntitlement(s) \/ Charge(s) \/ BookCharge(s) \/ Adjust(s) \/ BookAdjust(s)
UpgradeStep(u) == OpenForUpgrade(u) \/ ApplyUpgrade(u) \/ StorePlan(u) \/ RecordUpgrade(u)

Next ==
  \/ \E q \in Plans : Create(q) \/ \E cancel \in BOOLEAN : Update(q, cancel)
  \/ OpenFirstPeriod \/ BookFirstPeriod \/ RequestRemoval
  \/ \E s \in Sessions : SessionStep(s)
  \/ CronStep \/ \E h \in Handlers : Fails(h)
  \/ \E u \in Upgraders : UpgradeStep(u) \/ \E q \in Plans : ReadForUpgrade(u, q)
  \/ Tick \/ \E p \in Periods : Lapse(p)

Spec == Init /\ [][Next]_vars

(* The job runs every day, and an await of it settles. *)
FairSpec == Spec /\ WF_vars(CronStep)

-----------------------------------------------------------------------------
TypeOK ==
  /\ now \in 0..MaxTime
  /\ sub \in [plan : Plans, period : Periods, active : BOOLEAN, cancel : BOOLEAN] \cup {None}
  /\ remaining \in [Periods -> Int \cup {Missing}] /\ expiry \in [Periods -> Nat]
  /\ \A p \in Periods : remaining[p] = Missing <=> expiry[p] = 0
  /\ until \in [EventIds -> Nat] /\ mongo \in [Periods -> Int \cup {None}]
  /\ val \in [Handlers -> Int] /\ faults \in 0..MaxFaults /\ edits \in 0..MaxEdits
  /\ low \in [Periods -> Int] /\ owed \in [Periods -> Nat]
  /\ drawn \subseteq Periods /\ taken \subseteq Periods /\ guessed \subseteq Periods

(* However often the job is retried, and whatever it read meanwhile, a new   *)
(* period starts with no more debt than the old one ever had.  The exception *)
(* is an old period of which a retry read the balance -1 as a missing key:   *)
(* its document then holds the balance the job expected, which nobody had.   *)
DebtOnce ==
  \A p \in Periods \ {0} : p - 1 \notin guessed => owed[p] <= -low[p - 1]

(* No session draws on a period before the debt of the previous period was   *)
(* taken from it, whichever step the job last stopped at.                    *)
OpenedBeforeDrawn == drawn \ {0} \subseteq taken

(* A balance that was drawn on is there until its period is over: it is not  *)
(* forgotten and opened anew with the full allowance.  This needs an         *)
(* interval no longer than AdjustTtl, so a month and not a quarter.          *)
BalanceOutlivesPeriod ==
  \A p \in drawn : now < PeriodEnd(p) => remaining[p] # Missing

(* The row moves on one period at a time, and only out of a period that is   *)
(* over: neither a retry nor a concurrent update skips or repeats one.       *)
PeriodsInOrder ==
  [][sub # None /\ sub'.period # sub.period =>
       sub'.period = sub.period + 1 /\ Due(sub)]_vars

(* A subscription nobody cancels does not stay in a period that is over. *)
Overdue(p) == sub # None /\ sub.active /\ ~sub.cancel /\ sub.period = p /\ Due(sub)
DueIsRolledOver == \A p \in 0..(MaxPeriod - 1) : Overdue(p) ~> ~Overdue(p)

(* "Subscription ... will be canceled at period end" *)
Lingers == sub # None /\ sub.active /\ sub.cancel /\ Due(sub)
CanceledAtPeriodEnd == Lingers ~> ~Lingers
=============================================================================
