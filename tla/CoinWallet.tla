------------------------------ MODULE CoinWallet ------------------------------
(***************************************************************************)
(* The coin accounting service: one process per execution of the handlers  *)
(* of `coin.session.reserve` (a reserver) and `coin.adjust` (an adjuster). *)
(* A step ends at each await on Postgres, Redis or Mongo, so the handlers  *)
(* interleave as the service's concurrent message handlers do.             *)
(*                                                                         *)
(* An account is the pair (entity, period) of a Redis balance key: a team  *)
(* in the current period of its subscription, or a user in the month.      *)
(***************************************************************************)
EXTENDS CoinRedis, FiniteSets, Functions

CONSTANTS
  Teams, Users,        \* owners of accounts
  Members,             \* the active members of each team
  Allowance,           \* coins an account starts its period with
  Requests,            \* payloads of coin.session.reserve
  Reservers,           \* executions of its handler; also the reservation ids
  Adjusters,           \* executions of the coin.adjust handler
  Events,              \* event ids of coin.adjust
  MaxOverrun,          \* bound: coins a session can cost above its estimate
  None

Accounts == Teams \cup Users
Handlers == Reservers \cup Adjusters

ASSUME WalletAssumption ==
  /\ Teams \cap Users = {} /\ Reservers \cap Adjusters = {}
  /\ Members \in [Teams -> SUBSET Users]
  /\ Allowance \in [Accounts -> Nat]
  /\ \A q \in Requests : q.team \in Accounts /\ q.user \in Users /\ q.cost \in Nat
  /\ MaxOverrun \in Nat
  /\ None \notin Requests \cup Accounts \cup Events \cup Reservers
  /\ None \notin [account : Accounts, key : {q.key : q \in Requests}, cost : Nat]

VARIABLES
  subscribed,          \* teams with an active subscription (Postgres)
  remaining, idemp, events,          \* Redis: balances, reserve keys, event keys
  ledger,              \* Mongo coin_ledgers
  reserved, used,      \* Mongo coin_balances
  msg,                 \* the coin.adjust messages emitted so far
  pc, req, acct, evt,  \* the handlers' program counters and locals
  charged              \* history: reservers whose script took coins

redis == <<remaining, idemp, events>>
books == <<ledger, reserved, used>>
vars  == <<subscribed, redis, books, msg, pc, req, acct, evt, charged>>

ReserverDone == {"approved", "repeated", "unlimited", "insufficient",
                 "noSubscription", "invalid", "failed"}
AdjusterDone == {"settled", "ignored", "refused", "unknown", "duplicate", "failed"}

Entry(type, r, e, coins) == [type |-> type, res |-> r, event |-> e, coins |-> coins]
EntriesOf(r) == {x \in ledger : x.res = r}
NonNegative(n) == IF n < 0 THEN 0 ELSE n

Init ==
  /\ subscribed \in SUBSET Teams
  /\ remaining = [a \in Accounts |-> Missing] /\ idemp = {} /\ events = {}
  /\ ledger = {} /\ reserved = [a \in Accounts |-> 0] /\ used = [a \in Accounts |-> 0]
  /\ msg = [e \in Events |-> None]
  /\ pc = [h \in Handlers |-> "idle"]
  /\ req = [r \in Reservers |-> None] /\ acct = [r \in Reservers |-> None]
  /\ evt = [j \in Adjusters |-> None]
  /\ charged = {}

Goto(h, to) == pc' = [pc EXCEPT ![h] = to]

-----------------------------------------------------------------------------
(* coin.session.reserve *)

(* The message arrives and the membership guard reads the team.  A message   *)
(* may arrive again: its sender republishes what it saw no confirm for.      *)
ReceiveReserve(r, q) ==
  /\ pc[r] = "idle"
  /\ req' = [req EXCEPT ![r] = q]
  /\ Goto(r, IF q.team = q.user THEN "plan"
             ELSE IF q.team \in Teams /\ q.user \in Members[q.team] THEN "plan" ELSE "invalid")
  /\ UNCHANGED <<subscribed, redis, books, msg, acct, evt, charged>>

(* findActiveWithPlanByTeamId: the team's account, an unlimited plan, or     *)
(* the user's own quota.                                                    *)
FindPlan(r) ==
  /\ pc[r] = "plan"
  /\ IF req[r].team \in subscribed
       THEN /\ Goto(r, IF req[r].cost = 0 THEN "unlimited" ELSE "entitlement")
            /\ UNCHANGED acct
       ELSE /\ acct' = [acct EXCEPT ![r] = req[r].user]
            /\ Goto(r, "init")
  /\ UNCHANGED <<subscribed, redis, books, msg, req, evt, charged>>

(* reserveCoins reads the subscription a second time. *)
GetEntitlement(r) ==
  /\ pc[r] = "entitlement"
  /\ IF req[r].team \in subscribed
       THEN acct' = [acct EXCEPT ![r] = req[r].team] /\ Goto(r, "init")
       ELSE UNCHANGED acct /\ Goto(r, "noSubscription")
  /\ UNCHANGED <<subscribed, redis, books, msg, req, evt, charged>>

OpenAccount(r) ==
  /\ pc[r] = "init"
  /\ remaining' = InitRemainingIfMissing(remaining, acct[r], Allowance[acct[r]])
  /\ Goto(r, "reserve")
  /\ UNCHANGED <<subscribed, idemp, events, books, msg, req, acct, evt, charged>>

Verdict(r) == ReserveIfEnough(remaining[acct[r]], req[r].key \in idemp, req[r].cost)
\* mutant: the fallback looks at the requested team, not at the account just denied
FallsBackAlways(r) == req[r].team \in Teams /\ Cardinality(Members[req[r].team]) > 1
FallsBack(r) == acct[r] \in Teams /\ Cardinality(Members[acct[r]]) > 1

\* mutant: the reply leaves before the ledger write
ChargeAndReply(r) ==
  /\ pc[r] = "reserve" /\ Verdict(r) = "charged"
  /\ remaining' = [remaining EXCEPT ![acct[r]] = @ - req[r].cost]
  /\ idemp' = idemp \cup {req[r].key}
  /\ charged' = charged \cup {r}
  /\ Goto(r, "approved")
  /\ UNCHANGED <<subscribed, events, books, msg, req, acct, evt>>

Charge(r) ==
  /\ pc[r] = "reserve" /\ Verdict(r) = "charged"
  /\ remaining' = [remaining EXCEPT ![acct[r]] = @ - req[r].cost]
  /\ idemp' = idemp \cup {req[r].key}
  /\ charged' = charged \cup {r}
  /\ Goto(r, "ledger")
  /\ UNCHANGED <<subscribed, events, books, msg, req, acct, evt>>

(* No coins taken: a repeated key is approved without a reservation id; a    *)
(* denied shared team falls back to the user's quota with the same key.      *)
NoCharge(r) ==
  /\ pc[r] = "reserve" /\ Verdict(r) # "charged"
  /\ IF Verdict(r) = "already" THEN Goto(r, "repeated") /\ UNCHANGED acct
     ELSE IF FallsBack(r) THEN Goto(r, "init") /\ acct' = [acct EXCEPT ![r] = req[r].user]
     ELSE Goto(r, "insufficient") /\ UNCHANGED acct
  /\ UNCHANGED <<subscribed, redis, books, msg, req, evt, charged>>

WriteReserve(r) ==
  /\ pc[r] = "ledger"
  /\ ledger' = ledger \cup {Entry("RESERVE", r, None, req[r].cost)}
  /\ Goto(r, "balance")
  /\ UNCHANGED <<subscribed, redis, reserved, used, msg, req, acct, evt, charged>>

UpsertReserve(r) ==
  /\ pc[r] = "balance"
  /\ reserved' = [reserved EXCEPT ![acct[r]] = @ + req[r].cost]
  /\ Goto(r, "approved")
  /\ UNCHANGED <<subscribed, redis, ledger, used, msg, req, acct, evt, charged>>

-----------------------------------------------------------------------------
(* coin.adjust *)

(* The session service settles a reservation it was given, with a fresh      *)
(* event id: actual cost minus estimate.  The estimate is what r took, or    *)
(* that of a restart whose request came twice: its reply has no id, so the   *)
(* session keeps the estimate of s beside the reservation it had.            *)
EmitAdjust(e, r) ==
  /\ msg[e] = None /\ pc[r] = "approved"
  /\ \E s \in {r} \cup {x \in Reservers : pc[x] = "repeated"} :
       \E d \in (-req[s].cost)..MaxOverrun :
         msg' = [msg EXCEPT ![e] = [res |-> r, delta |-> d]]
  /\ UNCHANGED <<subscribed, redis, books, pc, req, acct, evt, charged>>

ReceiveAdjust(j, e) ==
  /\ pc[j] = "idle" /\ msg[e] # None
  /\ evt' = [evt EXCEPT ![j] = e]
  /\ Goto(j, "lookup")
  /\ UNCHANGED <<subscribed, redis, books, msg, req, acct, charged>>

Res(j) == msg[evt[j]].res
Delta(j) == msg[evt[j]].delta

\* mutant: the ledger entry is written before Redis applies the delta
CheckLedgerThenWrite(j) ==
  /\ pc[j] = "lookup"
  /\ Goto(j, IF EntriesOf(Res(j)) = {} THEN "unknown" ELSE "ledger")
  /\ UNCHANGED <<subscribed, redis, books, msg, req, acct, evt, charged>>

(* findByReservationId and guardReservationLifecycle *)
CheckLedger(j) ==
  /\ pc[j] = "lookup"
  /\ Goto(j, IF {x \in EntriesOf(Res(j)) : x.type = "RESERVE"} = {} THEN "unknown"
             ELSE IF \E x \in EntriesOf(Res(j)) : x.type = "ADJUST" THEN "refused"
             ELSE "delta")
  /\ UNCHANGED <<subscribed, redis, books, msg, req, acct, evt, charged>>

DeltaVerdict(j) == ApplyDeltaIdempotent(remaining[acct[Res(j)]], evt[j] \in events)

ApplyDelta(j) ==
  /\ pc[j] = "delta" /\ DeltaVerdict(j) = "applied"
  /\ remaining' = [remaining EXCEPT ![acct[Res(j)]] = @ - Delta(j)]
  /\ events' = events \cup {evt[j]}
  /\ Goto(j, "ledger")
  /\ UNCHANGED <<subscribed, idemp, books, msg, req, acct, evt, charged>>

RefuseDelta(j) ==
  /\ pc[j] = "delta" /\ DeltaVerdict(j) # "applied"
  /\ Goto(j, IF DeltaVerdict(j) = "already" THEN "ignored" ELSE "refused")
  /\ UNCHANGED <<subscribed, redis, books, msg, req, acct, evt, charged>>

(* The unique index on (reservationId, type) throws on a second ADJUST. *)
WriteAdjust(j) ==
  /\ pc[j] = "ledger"
  /\ IF \E x \in EntriesOf(Res(j)) : x.type = "ADJUST"
       THEN Goto(j, "duplicate") /\ UNCHANGED ledger
       ELSE /\ ledger' = ledger \cup {Entry("ADJUST", Res(j), evt[j], Delta(j))}
            /\ Goto(j, "balance")
  /\ UNCHANGED <<subscribed, redis, reserved, used, msg, req, acct, evt, charged>>

\* mutant: the reservation stays in reserved next to its actual cost
UpsertAdjustKeepingReserve(j) ==
  /\ pc[j] = "balance"
  /\ LET a == acct[Res(j)]
         est == req[Res(j)].cost IN
     used' = [used EXCEPT ![a] = NonNegative(@ + est + Delta(j))]
  /\ Goto(j, "settled")
  /\ UNCHANGED <<subscribed, redis, ledger, reserved, msg, req, acct, evt, charged>>

\* mutant: the delta alone is booked as usage, unclamped
UpsertAdjustDeltaOnly(j) ==
  /\ pc[j] = "balance"
  /\ used' = [used EXCEPT ![acct[Res(j)]] = @ + Delta(j)]
  /\ Goto(j, "settled")
  /\ UNCHANGED <<subscribed, redis, ledger, reserved, msg, req, acct, evt, charged>>

UpsertAdjust(j) ==
  /\ pc[j] = "balance"
  /\ LET a == acct[Res(j)]
         est == req[Res(j)].cost IN
     /\ reserved' = [reserved EXCEPT ![a] = NonNegative(@ - est)]
     /\ used' = [used EXCEPT ![a] = NonNegative(@ + est + Delta(j))]
  /\ Goto(j, "settled")
  /\ UNCHANGED <<subscribed, redis, ledger, msg, req, acct, evt, charged>>

-----------------------------------------------------------------------------
(* An await of the handler throws, or its process stops: the message was     *)
(* acknowledged on delivery (noAck), so nobody resumes it.                   *)
Abort(h) ==
  /\ pc[h] \notin {"idle"} \cup ReserverDone \cup AdjusterDone
  /\ Goto(h, "failed")
  /\ UNCHANGED <<subscribed, redis, books, msg, req, acct, evt, charged>>

(* The subscription is deactivated between two of the reads above. *)
Unsubscribe(t) ==
  /\ t \in subscribed
  /\ subscribed' = subscribed \ {t}
  /\ UNCHANGED <<redis, books, msg, pc, req, acct, evt, charged>>

ReserveStep(r) ==
  \/ FindPlan(r) \/ GetEntitlement(r) \/ OpenAccount(r) \/ Charge(r) \/ NoCharge(r)
  \/ WriteReserve(r) \/ UpsertReserve(r)
AdjustStep(j) ==
  CheckLedger(j) \/ ApplyDelta(j) \/ RefuseDelta(j) \/ WriteAdjust(j) \/ UpsertAdjust(j)

Next ==
  \/ \E r \in Reservers : ReserveStep(r) \/ \E q \in Requests : ReceiveReserve(r, q)
  \/ \E j \in Adjusters : AdjustStep(j) \/ \E e \in Events : ReceiveAdjust(j, e)
  \/ \E e \in Events, r \in Reservers : EmitAdjust(e, r)
  \/ \E h \in Handlers : Abort(h)
  \/ \E t \in Teams : Unsubscribe(t)

Spec == Init /\ [][Next]_vars

(* Node's event loop resumes every handler whose await has settled. *)
FairSpec ==
  /\ Spec
  /\ \A r \in Reservers : WF_vars(ReserveStep(r))
  /\ \A j \in Adjusters : WF_vars(AdjustStep(j))

-----------------------------------------------------------------------------
TypeOK ==
  /\ subscribed \subseteq Teams
  /\ remaining \in [Accounts -> Int \cup {Missing}]
  /\ idemp \subseteq {q.key : q \in Requests} /\ events \subseteq Events
  /\ \A x \in ledger : x.type \in {"RESERVE", "ADJUST"} /\ x.res \in Reservers /\ x.coins \in Int
  /\ reserved \in [Accounts -> Nat] /\ used \in [Accounts -> Nat]
  /\ msg \in [Events -> [res : Reservers, delta : Int] \cup {None}]
  /\ pc \in [Handlers -> ReserverDone \cup AdjusterDone \cup {"idle", "plan", "entitlement",
              "init", "reserve", "lookup", "delta", "ledger", "balance"}]
  /\ req \in [Reservers -> Requests \cup {None}]
  /\ acct \in [Reservers -> Accounts \cup {None}]
  /\ evt \in [Adjusters -> Events \cup {None}]
  /\ charged \subseteq Reservers

(* However often a reservation is retried under its idempotency key, and     *)
(* whichever of the two accounts each try ends at, coins are taken once.     *)
NoDoubleCharge ==
  \A r, s \in charged : req[r].key = req[s].key => r = s

(* A balance goes below zero by at most one session's overrun: while in      *)
(* debt, no reservation and no further charge is taken from it.              *)
DebtBounded ==
  \A a \in Accounts : remaining[a] # Missing => remaining[a] >= -MaxOverrun

(* A reservation id that left the service is in the ledger, so that no       *)
(* adjustment of a session ever fails to find its RESERVE entry.             *)
NoOrphanAdjust ==
  /\ \A r \in Reservers : pc[r] = "approved" => r \in charged /\ EntriesOf(r) # {}
  /\ \A j \in Adjusters : pc[j] # "unknown"

(* The ledger never runs ahead of Redis: a RESERVE entry stands for coins    *)
(* taken, an ADJUST entry for an event applied, whatever fails in between.   *)
LedgerBacked ==
  \A x \in ledger : x.res \in charged /\ (x.type = "ADJUST" => x.event \in events)

ChargedTo(a) == {r \in charged : acct[r] = a}
AppliedTo(a) == {e \in events : acct[msg[e].res] = a}

(* Coins are conserved: whatever the handlers interleave to, a balance is    *)
(* the allowance less every charge and every adjustment Redis applied, each  *)
(* counted once.                                                            *)
CoinsConserved ==
  \A a \in Accounts : remaining[a] # Missing =>
    remaining[a] = Allowance[a]
                     - SumFunctionOnSet([r \in charged |-> req[r].cost], ChargedTo(a))
                     - SumFunctionOnSet([e \in events |-> msg[e].delta], AppliedTo(a))

Settled(r) == \E x \in EntriesOf(r) : x.type = "ADJUST"
LedgerOn(a) == {x \in ledger : acct[x.res] = a}
OpenReserves(a) == {x \in LedgerOn(a) : x.type = "RESERVE" /\ ~Settled(x.res)}
SettledEntries(a) == {x \in LedgerOn(a) : Settled(x.res)}
Booked(entries) == SumFunctionOnSet([x \in ledger |-> x.coins], entries)
GaveBackMore(a) == \E x \in LedgerOn(a) : x.type = "ADJUST" /\ req[x.res].cost + x.coins < 0
Quiet == \A h \in Handlers : pc[h] \in (ReserverDone \cup AdjusterDone \cup {"idle"}) \ {"failed"}

(* Once every handler that started has finished, the balance document agrees *)
(* with the ledger: reserved is the sum of the open reservations, used is    *)
(* what the settled ones cost, or more than that once a session was given    *)
(* back more than its reservation took, for used stops at zero.             *)
BooksMatchLedger ==
  Quiet => \A a \in Accounts :
    /\ reserved[a] = Booked(OpenReserves(a))
    /\ used[a] >= Booked(SettledEntries(a))
    /\ GaveBackMore(a) \/ used[a] = Booked(SettledEntries(a))

(* A handler that starts comes to an end: the fallback from the team to the  *)
(* user is taken once, and no refusal sends a handler back.                  *)
HandlersConclude ==
  /\ \A r \in Reservers : pc[r] # "idle" ~> pc[r] \in ReserverDone
  /\ \A j \in Adjusters : pc[j] # "idle" ~> pc[j] \in AdjusterDone

(* Redis is where an account changes: a charge and a settlement take place    *)
(* when the script that carries them out runs, whatever the handler does     *)
(* before and after it.                                                     *)
Account == INSTANCE CoinAccount WITH
  Charges <- Reservers, Settlements <- Events, Keys <- {q.key : q \in Requests},
  Costs <- {q.cost : q \in Requests},
  balance <- remaining,
  charge <- [r \in Reservers |->
    IF r \in charged THEN [account |-> acct[r], key |-> req[r].key, cost |-> req[r].cost] ELSE None],
  settlement <- [e \in Events |-> IF e \in events THEN msg[e] ELSE None]

(* The handlers, interleaved, repeated and stopped anywhere, implement an    *)
(* account whose operations are atomic and happen once.                      *)
ImplementsAccount == Account!Spec

(* "Reservation ... already adjusted": of all the adjustments sent for one   *)
(* reservation, Redis applies one.                                          *)
AdjustedOnce ==
  \A e, f \in events : msg[e].res = msg[f].res => e = f

(* "an unused reservation is always refunded": the delta that gives a whole  *)
(* estimate back is refused only if the reservation was settled before.      *)
UnusedIsRefunded ==
  \A j \in Adjusters :
    pc[j] = "refused" /\ Delta(j) = -req[Res(j)].cost => \E e \in events : msg[e].res = Res(j)
=============================================================================
