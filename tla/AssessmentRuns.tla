---------------------------- MODULE AssessmentRuns ----------------------------
(***************************************************************************)
(* Assessment runs of the simulation service: requestRun creates a run and *)
(* emits it to the service's own queue, executeRun works it off under a    *)
(* semaphore of its process, a Redis lock of the run and a Redis counter   *)
(* of the organisation.  A step ends at each await.                        *)
(*                                                                         *)
(* A requester is one execution of requestRun and names the run it         *)
(* creates; a worker is one delivery of a run to executeRun.               *)
(***************************************************************************)
EXTENDS Integers, Sequences, FiniteSets

CONSTANTS
  Requesters, Workers,
  Instances, InstanceOf,   \* replicas of the service; the one a worker runs on
  Inputs, SessionOf,       \* what inputHash digests, and the session it is from
  Sessions, OrgOf, Orgs,
  Deletable,               \* bound: the sessions that may be deleted
  MaxParallelRuns,
  MaxDeliveries,           \* bound: times the queue delivers one run
  MaxFaults,               \* bound: restarts, failing awaits, keys that expire early
  None

ASSUME RunsAssumption ==
  /\ InstanceOf \in [Workers -> Instances]
  /\ SessionOf \in [Inputs -> Sessions] /\ OrgOf \in [Sessions -> Orgs]
  /\ Deletable \subseteq Sessions
  /\ MaxParallelRuns \in Nat \ {0} /\ MaxDeliveries \in Nat \ {0}
  /\ MaxFaults \in Nat
  /\ None \notin Inputs \cup Requesters \cup Workers
  /\ Requesters \cap Workers = {} /\ IsFiniteSet(Workers)

VARIABLES
  status, input, forced,   \* Postgres: the run of each requester
  deleted,                 \* Postgres: sessions deleted, with all they own
  labels, summary,         \* Postgres: batches of labels, the summary row
  sent,                    \* runs emitted to the queue
  pc, job,                 \* control of requesters and workers; a worker's run
  active, waiting,         \* the AsyncSemaphore of each instance
  lock, tokens,            \* Redis: assessment:run:<id>, assessment:org:<id>:active_runs
  faults,                  \* how many of them happened
  overran,                 \* history: runs that outlasted their lock
  unseen                   \* history: admissions an organisation's counter missed

rows  == <<status, input, forced, deleted, labels, summary>>
sem   == <<active, waiting>>
keys  == <<lock, tokens>>
hist  == <<faults, overran, unseen>>
vars  == <<rows, sent, pc, job, sem, keys, hist>>

Runs == Requesters
RequestDone == {"existing", "accepted", "rejected"}
WorkDone == {"leaked", "done"}
Fault == faults < MaxFaults /\ faults' = faults + 1
Goto(h, to) == pc' = [pc EXCEPT ![h] = to]
SessionOfRun(r) == SessionOf[input[r]]
OrgOfRun(r) == OrgOf[SessionOfRun(r)]
Exists(r) == status[r] \notin {"none", "gone"}

Init ==
  /\ status = [r \in Runs |-> "none"] /\ input = [r \in Runs |-> None]
  /\ forced = [r \in Runs |-> FALSE] /\ deleted = {}
  /\ labels = [r \in Runs |-> 0] /\ summary = [r \in Runs |-> FALSE]
  /\ sent = {}
  /\ pc = [h \in Requesters \cup Workers |-> "idle"] /\ job = [w \in Workers |-> None]
  /\ active = [p \in Instances |-> 0] /\ waiting = [p \in Instances |-> <<>>]
  /\ lock = [r \in Runs |-> None] /\ tokens = [o \in Orgs |-> 0]
  /\ faults = 0 /\ overran = {} /\ unseen = [o \in Orgs |-> 0]

-----------------------------------------------------------------------------
(* requestRun *)

\* Runs that findByInputHash can return: a forced run's hash is salted.
SameHash(i) == {r \in Runs : Exists(r) /\ input[r] = i /\ ~forced[r]}

(* The context is resolved, the hash computed and, unless forced, looked up. *)
FindRun(q, i, force) ==
  /\ pc[q] = "idle" /\ SessionOf[i] \notin deleted
  /\ input' = [input EXCEPT ![q] = i]
  /\ forced' = [forced EXCEPT ![q] = force]
  /\ Goto(q, IF ~force /\ \E r \in SameHash(i) : status[r] # "failed"
             THEN "existing" ELSE "create")
  /\ UNCHANGED <<status, deleted, labels, summary, sent, job, sem, keys, hist>>

(* inputHash is unique and iterationId a foreign key: either may reject. *)
CreateRun(q) ==
  /\ pc[q] = "create"
  /\ IF SessionOfRun(q) \in deleted \/ (~forced[q] /\ SameHash(input[q]) # {})
       THEN Goto(q, "rejected") /\ UNCHANGED status
       ELSE Goto(q, "emit") /\ status' = [status EXCEPT ![q] = "queued"]
  /\ UNCHANGED <<input, forced, deleted, labels, summary, sent, job, sem, keys, hist>>

EmitRunRequest(q) ==
  /\ pc[q] = "emit"
  /\ sent' = sent \cup {q}
  /\ Goto(q, "accepted")
  /\ UNCHANGED <<rows, job, sem, keys, hist>>

(* The process stops before the run is emitted. *)
AbandonRequest(q) ==
  /\ pc[q] \in {"create", "emit"} /\ Fault
  /\ Goto(q, "rejected")
  /\ UNCHANGED <<rows, sent, job, sem, keys, overran, unseen>>

-----------------------------------------------------------------------------
(* executeRun *)

Deliveries(r) == Cardinality({w \in Workers : job[w] = r})

\* mutant: the slot is freed but the waiter stays in the queue
FreeSlotOnly(w, to) ==
  /\ active' = [active EXCEPT ![InstanceOf[w]] = IF @ > 0 THEN @ - 1 ELSE 0]
  /\ Goto(w, to)
  /\ UNCHANGED waiting

(* The worker's slot goes to the first waiter of its instance, if any. *)
ReleaseSlot(w, to) ==
  LET p == InstanceOf[w] IN
  IF waiting[p] = <<>>
    THEN /\ active' = [active EXCEPT ![p] = IF @ > 0 THEN @ - 1 ELSE 0]
         /\ Goto(w, to)
         /\ UNCHANGED waiting
    ELSE /\ waiting' = [waiting EXCEPT ![p] = Tail(@)]
         /\ pc' = [pc EXCEPT ![w] = to, ![Head(waiting[p])] = "lock"]
         /\ UNCHANGED active

\* mutant: the comparison admits one worker too many
ReceiveRunLate(w, r) ==
  /\ pc[w] = "idle" /\ r \in sent /\ Deliveries(r) < MaxDeliveries
  /\ job' = [job EXCEPT ![w] = r]
  /\ active' = [active EXCEPT ![InstanceOf[w]] = @ + 1]
  /\ active[InstanceOf[w]] <= MaxParallelRuns
  /\ Goto(w, "lock")
  /\ UNCHANGED <<rows, sent, waiting, keys, hist>>

(* The message arrives, the run is read, and a slot taken or waited for. *)
ReceiveRun(w, r) ==
  LET p == InstanceOf[w] IN
  /\ pc[w] = "idle" /\ r \in sent /\ Deliveries(r) < MaxDeliveries
  /\ job' = [job EXCEPT ![w] = r]
  /\ IF ~Exists(r) \/ status[r] \in {"completed", "running"}
       THEN Goto(w, "done") /\ UNCHANGED sem
     ELSE IF active[p] < MaxParallelRuns
       THEN /\ active' = [active EXCEPT ![p] = @ + 1]
            /\ Goto(w, "lock")
            /\ UNCHANGED waiting
     ELSE /\ waiting' = [waiting EXCEPT ![p] = Append(@, w)]
          /\ Goto(w, "waiting")
          /\ UNCHANGED active
  /\ UNCHANGED <<rows, sent, keys, hist>>

\* mutant: the lock is written without NX
AcquireLockAlways(w) ==
  /\ pc[w] = "lock"
  /\ lock' = [lock EXCEPT ![job[w]] = w] /\ Goto(w, "iteration")
  /\ UNCHANGED <<rows, sent, job, sem, tokens, hist>>

AcquireLock(w) ==
  /\ pc[w] = "lock"
  /\ IF lock[job[w]] = None
       THEN /\ lock' = [lock EXCEPT ![job[w]] = w] /\ Goto(w, "iteration")
            /\ UNCHANGED sem
       ELSE ReleaseSlot(w, "done") /\ UNCHANGED lock
  /\ UNCHANGED <<rows, sent, job, tokens, hist>>

(* RedisService.set answers FALSE to an error, with or without the lock set. *)
AcquireLockFails(w) ==
  /\ pc[w] = "lock" /\ Fault
  /\ lock' \in {lock, [lock EXCEPT ![job[w]] = IF @ = None THEN w ELSE @]}
  /\ ReleaseSlot(w, "done")
  /\ UNCHANGED <<rows, sent, job, tokens, overran, unseen>>

\* mutant: the run is marked running before its organisation is asked
FindIterationRunning(w) ==
  /\ pc[w] = "iteration"
  /\ IF SessionOfRun(job[w]) \in deleted \/ ~Exists(job[w])
       THEN Goto(w, "leaked") /\ UNCHANGED status
       ELSE Goto(w, "token") /\ status' = [status EXCEPT ![job[w]] = "running"]
  /\ UNCHANGED <<input, forced, deleted, labels, summary, sent, job, sem, keys, hist>>

(* Without its iteration the run is dropped: slot and lock are kept. *)
FindIteration(w) ==
  /\ pc[w] = "iteration"
  /\ Goto(w, IF SessionOfRun(job[w]) \in deleted THEN "leaked" ELSE "token")
  /\ UNCHANGED <<rows, sent, job, sem, keys, hist>>

(* The read throws, outside the try block that would clean up. *)
FindIterationFails(w) ==
  /\ pc[w] = "iteration" /\ Fault
  /\ Goto(w, "leaked")
  /\ UNCHANGED <<rows, sent, job, sem, keys, overran, unseen>>

\* mutant: the comparison admits one run too many
AcquireOrgTokenLate(w) ==
  /\ pc[w] = "token"
  /\ tokens' = [tokens EXCEPT ![OrgOfRun(job[w])] = @ + 1]
  /\ Goto(w, IF tokens[OrgOfRun(job[w])] > MaxParallelRuns THEN "giveback" ELSE "start")
  /\ UNCHANGED <<rows, sent, job, sem, lock, hist>>

AcquireOrgToken(w) ==
  /\ pc[w] = "token"
  /\ tokens' = [tokens EXCEPT ![OrgOfRun(job[w])] = @ + 1]
  /\ Goto(w, IF tokens'[OrgOfRun(job[w])] > MaxParallelRuns THEN "giveback" ELSE "start")
  /\ UNCHANGED <<rows, sent, job, sem, lock, hist>>

(* RedisService.incr answers 0 to an error, which admits the run; the        *)
(* increment was made or not.                                               *)
AcquireOrgTokenFails(w) ==
  LET o == OrgOfRun(job[w]) IN
  /\ pc[w] = "token" /\ Fault
  /\ tokens' \in {tokens, [tokens EXCEPT ![o] = @ + 1]}
  /\ unseen' = [unseen EXCEPT ![o] = @ + 1]
  /\ Goto(w, "start")
  /\ UNCHANGED <<rows, sent, job, sem, lock, overran>>

(* A refused run hands its token back, is unlocked and stays queued. *)
ReturnOrgToken(w) ==
  /\ pc[w] \in {"giveback", "finally"}
  /\ tokens' = [tokens EXCEPT ![OrgOfRun(job[w])] = @ - 1]
  /\ Goto(w, "unlock")
  /\ UNCHANGED <<rows, sent, job, sem, lock, hist>>

ReturnOrgTokenFails(w) ==
  /\ pc[w] \in {"giveback", "finally"} /\ Fault
  /\ Goto(w, "unlock")
  /\ UNCHANGED <<rows, sent, job, sem, keys, overran, unseen>>

MarkRunning(w) ==
  /\ pc[w] = "start" /\ Exists(job[w])
  /\ status' = [status EXCEPT ![job[w]] = "running"]
  /\ Goto(w, "labels")
  /\ UNCHANGED <<input, forced, deleted, labels, summary, sent, job, sem, keys, hist>>

(* persistResults, the last node of the graph: labels, then the summary. *)
CreateLabels(w) ==
  /\ pc[w] = "labels" /\ Exists(job[w])
  /\ labels' = [labels EXCEPT ![job[w]] = @ + 1]
  /\ Goto(w, "summary")
  /\ UNCHANGED <<status, input, forced, deleted, summary, sent, job, sem, keys, hist>>

\* mutant: the status is set before the summary row
CompleteThenSummary(w) ==
  /\ pc[w] = "summary" /\ Exists(job[w])
  /\ status' = [status EXCEPT ![job[w]] = "completed"]
  /\ Goto(w, "complete")
  /\ UNCHANGED <<input, forced, deleted, labels, summary, sent, job, sem, keys, hist>>

UpsertSummary(w) ==
  /\ pc[w] = "summary" /\ Exists(job[w])
  /\ summary' = [summary EXCEPT ![job[w]] = TRUE]
  /\ Goto(w, "complete")
  /\ UNCHANGED <<status, input, forced, deleted, labels, sent, job, sem, keys, hist>>

MarkCompleted(w) ==
  /\ pc[w] = "complete" /\ Exists(job[w])
  /\ status' = [status EXCEPT ![job[w]] = "completed"]
  /\ Goto(w, "finally")
  /\ UNCHANGED <<input, forced, deleted, labels, summary, sent, job, sem, keys, hist>>

(* A node of the graph throws, or an update, of a deleted row or another. *)
RunFails(w) ==
  /\ pc[w] \in {"start", "labels", "summary", "complete"}
  /\ Goto(w, "fail")
  /\ UNCHANGED <<rows, sent, job, sem, keys, hist>>

MarkFailed(w) ==
  /\ pc[w] = "fail"
  /\ status' = IF Exists(job[w]) THEN [status EXCEPT ![job[w]] = "failed"] ELSE status
  /\ Goto(w, "finally")
  /\ UNCHANGED <<input, forced, deleted, labels, summary, sent, job, sem, keys, hist>>

(* markFailed throws in turn: the status stays what it was. *)
MarkFailedFails(w) ==
  /\ pc[w] = "fail" /\ Exists(job[w]) /\ Fault
  /\ Goto(w, "finally")
  /\ UNCHANGED <<rows, sent, job, sem, keys, overran, unseen>>

(* Whoever's lock it is: another worker's, if this one's has expired. *)
DeleteLock(w) ==
  /\ pc[w] = "unlock"
  /\ lock' = [lock EXCEPT ![job[w]] = None]
  /\ Goto(w, "release")
  /\ UNCHANGED <<rows, sent, job, sem, tokens, hist>>

DeleteLockFails(w) ==
  /\ pc[w] = "unlock" /\ Fault
  /\ Goto(w, "release")
  /\ UNCHANGED <<rows, sent, job, sem, keys, overran, unseen>>

Release(w) ==
  /\ pc[w] = "release"
  /\ ReleaseSlot(w, "done")
  /\ UNCHANGED <<rows, sent, job, keys, hist>>

-----------------------------------------------------------------------------
(* The surroundings *)

HoldsSlot(w) == pc[w] \notin {"idle", "waiting"} \cup WorkDone
HoldsLock(w) == HoldsSlot(w) /\ pc[w] \notin {"lock", "release"}
CountedByOrg(w) == pc[w] \in {"giveback", "start", "labels", "summary", "complete", "fail", "finally"}
Executes(w) == CountedByOrg(w) /\ pc[w] # "giveback"
Counted(o) == {w \in Workers : CountedByOrg(w) /\ OrgOfRun(job[w]) = o}

(* Deleting a session cascades to its iterations, runs, labels, summaries. *)
DeleteSession(s) ==
  /\ s \in Deletable \ deleted
  /\ deleted' = deleted \cup {s}
  /\ LET Lost(r) == Exists(r) /\ SessionOfRun(r) = s IN
     /\ status' = [r \in Runs |-> IF Lost(r) THEN "gone" ELSE status[r]]
     /\ labels' = [r \in Runs |-> IF Lost(r) THEN 0 ELSE labels[r]]
     /\ summary' = [r \in Runs |-> IF Lost(r) THEN FALSE ELSE summary[r]]
  /\ UNCHANGED <<input, forced, sent, pc, job, sem, keys, hist>>

(* An instance restarts: its handlers and its semaphore are gone. *)
Crash(p) ==
  /\ Fault
  /\ pc' = [h \in DOMAIN pc |->
              IF h \in Workers /\ pc[h] \notin {"idle"} \cup WorkDone
              THEN IF InstanceOf[h] = p THEN "done" ELSE pc[h]
              ELSE pc[h]]
  /\ active' = [active EXCEPT ![p] = 0] /\ waiting' = [waiting EXCEPT ![p] = <<>>]
  /\ UNCHANGED <<rows, sent, job, keys, overran, unseen>>

(* The lock's 900 s are over.  Nobody extends them, and the judge's budgets  *)
(* of 30 s per call add up to more: the worker may still be at it.          *)
ExpireLock(r) ==
  /\ lock[r] # None
  /\ IF HoldsLock(lock[r])
       THEN Fault /\ overran' = overran \cup {r}
       ELSE UNCHANGED <<faults, overran>>
  /\ lock' = [lock EXCEPT ![r] = None]
  /\ UNCHANGED <<rows, sent, pc, job, sem, tokens, unseen>>

(* 300 s since the last worker of the organisation asked: whom the counter   *)
(* counted goes on unseen.                                                  *)
ExpireOrgToken(o) ==
  /\ tokens[o] # 0
  /\ IF Counted(o) # {} THEN Fault ELSE UNCHANGED faults
  /\ tokens' = [tokens EXCEPT ![o] = 0]
  /\ unseen' = [unseen EXCEPT ![o] = Cardinality(Counted(o))]
  /\ UNCHANGED <<rows, sent, pc, job, sem, lock, overran>>

Work(w) ==
  \/ AcquireLock(w) \/ FindIteration(w) \/ AcquireOrgToken(w) \/ ReturnOrgToken(w)
  \/ MarkRunning(w) \/ CreateLabels(w) \/ UpsertSummary(w) \/ MarkCompleted(w)
  \/ RunFails(w) \/ MarkFailed(w) \/ DeleteLock(w) \/ Release(w)

AwaitFails(w) ==
  \/ AcquireLockFails(w) \/ FindIterationFails(w) \/ AcquireOrgTokenFails(w)
  \/ ReturnOrgTokenFails(w) \/ MarkFailedFails(w) \/ DeleteLockFails(w)

Next ==
  \/ \E q \in Requesters, i \in Inputs, force \in BOOLEAN : FindRun(q, i, force)
  \/ \E q \in Requesters : CreateRun(q) \/ EmitRunRequest(q) \/ AbandonRequest(q)
  \/ \E w \in Workers : Work(w) \/ AwaitFails(w) \/ \E r \in Runs : ReceiveRun(w, r)
  \/ \E s \in Sessions : DeleteSession(s)
  \/ \E p \in Instances : Crash(p)
  \/ \E r \in Runs : ExpireLock(r)
  \/ \E o \in Orgs : ExpireOrgToken(o)

Spec == Init /\ [][Next]_vars

(* Every await settles: the judge under its time budget, the rest by reply. *)
FairSpec == Spec /\ \A w \in Workers : WF_vars(Work(w))

-----------------------------------------------------------------------------
TypeOK ==
  /\ status \in [Runs -> {"none", "queued", "running", "completed", "failed", "gone"}]
  /\ input \in [Runs -> Inputs \cup {None}] /\ forced \in [Runs -> BOOLEAN]
  /\ deleted \subseteq Sessions
  /\ labels \in [Runs -> Nat] /\ summary \in [Runs -> BOOLEAN]
  /\ sent \subseteq Runs
  /\ pc \in [Requesters \cup Workers -> RequestDone \cup WorkDone \cup {"idle", "create",
       "emit", "waiting", "lock", "iteration", "token", "giveback", "start", "labels",
       "summary", "complete", "fail", "finally", "unlock", "release"}]
  /\ job \in [Workers -> Runs \cup {None}]
  /\ active \in [Instances -> 0..MaxParallelRuns] /\ waiting \in [Instances -> Seq(Workers)]
  /\ lock \in [Runs -> Workers \cup {None}] /\ tokens \in [Orgs -> Int]
  /\ faults \in 0..MaxFaults /\ overran \subseteq Runs /\ unseen \in [Orgs -> Nat]

(* A run is worked on by one worker at a time, on whichever replica, from    *)
(* before its iteration is read until its lock is deleted, unless it once    *)
(* outlasted the lock.                                                      *)
RunExclusive ==
  \A v, w \in Workers :
    HoldsLock(v) /\ HoldsLock(w) /\ job[v] = job[w] => v = w \/ job[v] \in overran

(* The semaphore neither loses nor invents a slot, whatever path a worker    *)
(* leaves by, other than the two that leak it: a worker waits only while     *)
(* every slot is taken, and it waits in the queue exactly once.              *)
SlotsConserved ==
  \A p \in Instances :
    LET here == {w \in Workers : InstanceOf[w] = p} IN
    /\ Cardinality({w \in here : HoldsSlot(w)}) <= active[p]
    /\ active[p] <= Cardinality({w \in here : HoldsSlot(w) \/ pc[w] = "leaked"})
    /\ waiting[p] # <<>> => active[p] = MaxParallelRuns
    /\ Len(waiting[p]) = Cardinality({w \in here : pc[w] = "waiting"})

(* An organisation has at most maxParallelRuns runs in execution over all    *)
(* replicas, and one more for each admission its counter has missed since it *)
(* last expired: failing increments, and runs that outlasted the counter.    *)
OrgLimit ==
  \A o \in Orgs :
    Cardinality({w \in Workers : Executes(w) /\ OrgOfRun(job[w]) = o})
      <= MaxParallelRuns + unseen[o]

(* To a reader a worker has a run from the time it holds the lock until it   *)
(* deletes it.                                                              *)
Stage(w) ==
  CASE pc[w] \in {"iteration", "token", "giveback"} -> "taken"
    [] pc[w] = "start" -> "admitted"
    [] pc[w] \in {"labels", "summary", "complete"} -> "running"
    [] pc[w] = "fail" -> "failing"
    [] pc[w] = "finally" -> "ended"
    [] pc[w] = "unlock" -> "leaving"
    [] OTHER -> "none"

Board == INSTANCE RunBoard WITH
  Limit <- MaxParallelRuns,
  org <- [r \in Runs |-> IF status[r] = "none" THEN None ELSE OrgOfRun(r)],
  results <- [r \in Runs |-> labels[r] > 0 /\ summary[r]],
  claim <- [w \in Workers |-> IF Stage(w) = "none" THEN None ELSE job[w]],
  stage <- [w \in Workers |-> Stage(w)]

(* Queue, semaphores, lock and counter together look like a board of runs    *)
(* on which one worker at a time writes, in the order running, results,      *)
(* outcome, whatever is delivered twice, crashes, fails or is deleted, and   *)
(* two only on a run that outlasted its lock.                               *)
ImplementsBoard == Board!Spec

(* Who reads a completed run finds its labels and its summary. *)
CompletedIsPersisted ==
  \A r \in Runs : status[r] = "completed" => labels[r] > 0 /\ summary[r]

(* On one replica, where no slot leaks, a run that is delivered ends: it is  *)
(* completed or failed, or deleted with its session.                         *)
DeliveredRunEnds ==
  \A w \in Workers, r \in Runs :
    job[w] = r ~> status[r] \in {"completed", "failed", "gone"}

(* "Assessment run ... already completed": a run that is completed is not    *)
(* worked on again, whatever the queue delivers.                            *)
CompletedStays ==
  [][\A r \in Runs : status[r] = "completed" => status'[r] \in {"completed", "gone"}]_vars
=============================================================================
