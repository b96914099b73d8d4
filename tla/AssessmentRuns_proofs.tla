------------------------- MODULE AssessmentRuns_proofs -------------------------
(***************************************************************************)
(* The safety of assessment runs for any number of requests, deliveries,   *)
(* replicas, organisations and faults: types, one worker per run, the      *)
(* limit of an organisation, completed runs that are persisted, a          *)
(* semaphore whose slots are neither lost nor held twice, and, at the end, *)
(* that the runs implement the board of RunBoard.                          *)
(***************************************************************************)
EXTENDS AssessmentRuns, FiniteSetTheorems, TLAPS

Running(o) == {w \in Workers : Executes(w) /\ OrgOfRun(job[w]) = o}

Control ==
  RequestDone \cup WorkDone \cup {"idle", "create", "emit", "waiting", "lock", "iteration",
    "token", "giveback", "start", "labels", "summary", "complete", "fail", "finally",
    "unlock", "release"}

(* TypeOK, by the name of the places a worker or requester can be at. *)
TypeInv ==
  /\ status \in [Runs -> {"none", "queued", "running", "completed", "failed", "gone"}]
  /\ input \in [Runs -> Inputs \cup {None}] /\ forced \in [Runs -> BOOLEAN]
  /\ deleted \subseteq Sessions
  /\ labels \in [Runs -> Nat] /\ summary \in [Runs -> BOOLEAN]
  /\ sent \subseteq Runs
  /\ pc \in [Requesters \cup Workers -> Control]
  /\ job \in [Workers -> Runs \cup {None}]
  /\ active \in [Instances -> 0..MaxParallelRuns] /\ waiting \in [Instances -> Seq(Workers)]
  /\ lock \in [Runs -> Workers \cup {None}] /\ tokens \in [Orgs -> Int]
  /\ faults \in 0..MaxFaults /\ overran \subseteq Runs /\ unseen \in [Orgs -> Nat]

(* A run in the queue was created by a requester that is done; a worker that *)
(* started, or that waits for a slot, has such a run.                        *)
SentInv ==
  /\ \A q \in Requesters :
       /\ pc[q] # "idle" => input[q] \in Inputs
       /\ q \in sent => pc[q] = "accepted" /\ status[q] # "none"
       /\ pc[q] = "emit" => status[q] # "none"
  /\ \A w \in Workers : pc[w] # "idle" => job[w] \in sent
  /\ \A p \in Instances : \A i \in 1..Len(waiting[p]) : job[waiting[p][i]] \in sent

(* A worker between AcquireLock and DeleteLock is the one its lock names,    *)
(* until its run outlasts the lock.                                         *)
LockInv == \A w \in Workers : HoldsLock(w) /\ job[w] \notin overran => lock[job[w]] = w

(* A worker that has come past a write of the results finds it, as long as   *)
(* the run exists.                                                          *)
ResultInv ==
  \A w \in Workers : Exists(job[w]) =>
    /\ pc[w] \in {"summary", "complete"} => labels[job[w]] > 0
    /\ pc[w] = "complete" => summary[job[w]]

(* The workers that will decrement the counter of an organisation are those  *)
(* it counts and those it has not seen; it may itself be negative.          *)
TokenInv == \A o \in Orgs : Cardinality(Counted(o)) <= tokens[o] + unseen[o]

IInv ==
  /\ TypeInv
  /\ SentInv
  /\ LockInv
  /\ ResultInv /\ CompletedIsPersisted
  /\ TokenInv /\ OrgLimit

USE RunsAssumption

(* The set of a counter's holders is finite, and bounds what is part of it. *)
LEMMA HoldersBound ==
  ASSUME NEW S, NEW T, S \subseteq Workers, T \subseteq S
  PROVE  IsFiniteSet(S) /\ Cardinality(S) \in Nat
         /\ Cardinality(T) \in Nat /\ Cardinality(T) <= Cardinality(S)
<1>1. IsFiniteSet(S) /\ IsFiniteSet(T)
  BY FS_Subset
<1> QED BY <1>1, FS_Subset, FS_CardinalityType

(* A step after which no worker holds a counter, or executes a run, that did *)
(* not before keeps both invariants of the counters.                        *)
LEMMA TokensKept ==
  ASSUME TypeInv, TokenInv, OrgLimit, tokens' = tokens, unseen' = unseen,
         \A w \in Workers : CountedByOrg(w)' =>
           CountedByOrg(w) /\ OrgOfRun(job[w])' = OrgOfRun(job[w]),
         \A w \in Workers : Executes(w)' => Executes(w)
  PROVE  TokenInv' /\ OrgLimit'
<1>1. \A o \in Orgs : Counted(o)' \subseteq Counted(o) /\ Counted(o) \subseteq Workers
  BY DEF Counted
<1>2. \A o \in Orgs : Running(o)' \subseteq Running(o) /\ Running(o) \subseteq Workers
  BY DEF Running, Executes
<1>0. \A o \in Orgs : tokens[o] \in Int /\ unseen[o] \in Nat
  BY DEF TypeInv
<1>3. TokenInv'
  <2> SUFFICES ASSUME NEW o \in Orgs
               PROVE  Cardinality(Counted(o)') <= tokens[o] + unseen[o]
    BY DEF TokenInv
  <2>1. Cardinality(Counted(o)') <= Cardinality(Counted(o))
        /\ Cardinality(Counted(o)') \in Nat /\ Cardinality(Counted(o)) \in Nat
    BY <1>1, HoldersBound
  <2> QED BY <1>0, <2>1 DEF TokenInv
<1>4. OrgLimit'
  <2> SUFFICES ASSUME NEW o \in Orgs PROVE Cardinality(Running(o)') <= MaxParallelRuns + unseen[o]
    BY DEF OrgLimit, Running
  <2>1. Cardinality(Running(o)') <= Cardinality(Running(o))
        /\ Cardinality(Running(o)') \in Nat /\ Cardinality(Running(o)) \in Nat
    BY <1>2, HoldersBound
  <2> QED BY <1>0, <2>1 DEF OrgLimit, Running
<1> QED BY <1>3, <1>4

(* Nobody holds anything before the first message. *)
LEMMA InitIInv == Init => IInv
<1> SUFFICES ASSUME Init PROVE IInv
  OBVIOUS
<1>1. \A o \in Orgs : Counted(o) = {} /\ Running(o) = {}
  BY DEF Init, Counted, Running, Executes, CountedByOrg
<1>2. TokenInv
  <2>1. Cardinality({}) = 0
    BY FS_EmptySet
  <2> SUFFICES ASSUME NEW o \in Orgs PROVE Cardinality(Counted(o)) <= tokens[o] + unseen[o]
    BY DEF TokenInv
  <2>2. tokens[o] = 0 /\ unseen[o] = 0 /\ Counted(o) = {}
    BY <1>1 DEF Init
  <2> QED BY <2>1, <2>2
<1>3. OrgLimit
  <2> SUFFICES ASSUME NEW o \in Orgs PROVE Cardinality(Running(o)) <= MaxParallelRuns + unseen[o]
    BY DEF OrgLimit, Running
  <2>1. unseen[o] = 0
    BY DEF Init
  <2> QED BY <1>1, <2>1, FS_EmptySet
<1>4. TypeInv
  BY DEF Init, TypeInv, Control, Runs
<1>5. SentInv /\ LockInv /\ ResultInv /\ CompletedIsPersisted
  BY DEF Init, SentInv, LockInv, ResultInv, CompletedIsPersisted, HoldsLock, HoldsSlot, Runs
<1> QED BY <1>2, <1>3, <1>4, <1>5 DEF IInv

(* What freeing a slot does to the control of workers: w goes on to `to`, and *)
(* at most one waiting worker wakes up.                                      *)
LEMMA SlotPassedOn ==
  ASSUME TypeInv, SentInv, NEW w \in Workers, NEW to \in WorkDone, ReleaseSlot(w, to)
  PROVE  /\ active' \in [Instances -> 0..MaxParallelRuns]
         /\ waiting' \in [Instances -> Seq(Workers)]
         /\ \A p \in Instances : \A i \in 1..Len(waiting'[p]) : job[waiting'[p][i]] \in sent
         /\ pc' \in [Requesters \cup Workers -> Control]
         /\ \A q \in Requesters : pc'[q] = pc[q]
         /\ \A v \in Workers : pc'[v] # pc[v] =>
              (v = w /\ pc'[v] = to) \/ (pc'[v] = "lock" /\ job[v] \in sent)
<1> DEFINE p == InstanceOf[w]
<1>0. p \in Instances /\ waiting[p] \in Seq(Workers)
  BY DEF TypeInv
<1>1. CASE waiting[p] = <<>>
  <2>1. /\ pc' = [pc EXCEPT ![w] = to] /\ waiting' = waiting
        /\ active' = [active EXCEPT ![p] = IF @ > 0 THEN @ - 1 ELSE 0]
    BY <1>1 DEF ReleaseSlot, Goto
  <2>2. active' \in [Instances -> 0..MaxParallelRuns]
    BY <2>1, <1>0 DEF TypeInv
  <2> QED BY <2>1, <2>2 DEF TypeInv, SentInv, Control
<1>2. CASE waiting[p] # <<>>
  <2>1. Head(waiting[p]) \in Workers /\ Tail(waiting[p]) \in Seq(Workers)
        /\ Head(waiting[p]) = waiting[p][1] /\ Len(waiting[p]) >= 1
    BY <1>0, <1>2
  <2>2. Len(Tail(waiting[p])) = Len(waiting[p]) - 1
        /\ \A i \in 1..Len(Tail(waiting[p])) : Tail(waiting[p])[i] = waiting[p][i + 1]
    BY <1>0, <1>2
  <2>3. /\ waiting' = [waiting EXCEPT ![p] = Tail(@)] /\ active' = active
        /\ pc' = [pc EXCEPT ![w] = to, ![Head(waiting[p])] = "lock"]
    BY <1>2 DEF ReleaseSlot
  <2>4. job[Head(waiting[p])] \in sent
    BY <1>0, <2>1 DEF SentInv
  <2>5. \A r \in Instances : \A i \in 1..Len(waiting'[r]) : job[waiting'[r][i]] \in sent
    <3> SUFFICES ASSUME NEW r \in Instances, NEW i \in 1..Len(waiting'[r])
                 PROVE  job[waiting'[r][i]] \in sent
      OBVIOUS
    <3>1. CASE r = p
      <4>1. waiting'[r] = Tail(waiting[p])
        BY <2>3, <1>0, <3>1 DEF TypeInv
      <4>2. i + 1 \in 1..Len(waiting[p]) /\ waiting'[r][i] = waiting[p][i + 1]
        BY <4>1, <2>2, <1>0
      <4> QED BY <4>2, <1>0 DEF SentInv
    <3>2. CASE r # p
      BY <2>3, <3>2 DEF SentInv
    <3> QED BY <3>1, <3>2
  <2>6. waiting' \in [Instances -> Seq(Workers)]
    BY <2>1, <2>3, <1>0 DEF TypeInv
  <2> QED BY <2>1, <2>3, <2>4, <2>5, <2>6 DEF TypeInv, Control
<1> QED BY <1>1, <1>2

(* Freeing a slot keeps the invariant: the worker holds no lock and no token *)
(* any more, and one that wakes up holds none yet.                          *)
LEMMA ReleaseSlotIInv ==
  ASSUME IInv, NEW w \in Workers, NEW to \in WorkDone, ReleaseSlot(w, to),
         job[w] \in sent, UNCHANGED <<rows, sent, job, tokens, overran, unseen>>,
         faults' \in 0..MaxFaults, lock' \in [Runs -> Workers \cup {None}],
         \A r \in Runs : lock[r] # None => lock'[r] = lock[r]
  PROVE  IInv'
<1> USE DEF IInv, rows
<1>1. /\ active' \in [Instances -> 0..MaxParallelRuns]
      /\ waiting' \in [Instances -> Seq(Workers)]
      /\ \A p \in Instances : \A i \in 1..Len(waiting'[p]) : job[waiting'[p][i]] \in sent
      /\ pc' \in [Requesters \cup Workers -> Control]
      /\ \A q \in Requesters : pc'[q] = pc[q]
      /\ \A v \in Workers : pc'[v] # pc[v] =>
           (v = w /\ pc'[v] = to) \/ (pc'[v] = "lock" /\ job[v] \in sent)
  BY SlotPassedOn
<1>2. TypeInv'
  BY <1>1 DEF TypeInv
<1>3. SentInv'
  BY <1>1 DEF SentInv
<1>4. LockInv'
  <2> SUFFICES ASSUME NEW v \in Workers, HoldsLock(v)', job[v] \notin overran
               PROVE  lock'[job[v]] = v
    BY DEF LockInv
  <2>1. HoldsLock(v) /\ pc[v] # "idle"
    BY <1>1 DEF HoldsLock, HoldsSlot
  <2>2. lock[job[v]] = v /\ job[v] \in Runs
    BY <2>1 DEF LockInv, SentInv, TypeInv, Runs
  <2> QED BY <2>2
<1>5. ResultInv' /\ CompletedIsPersisted'
  BY <1>1 DEF ResultInv, CompletedIsPersisted, Exists, WorkDone
<1>6. TokenInv' /\ OrgLimit'
  <2>1. \A v \in Workers : CountedByOrg(v)' => CountedByOrg(v)
    BY <1>1 DEF CountedByOrg, WorkDone
  <2>2. \A v \in Workers : Executes(v)' => Executes(v)
    BY <1>1 DEF CountedByOrg, Executes, WorkDone
  <2>3. \A v \in Workers : OrgOfRun(job[v])' = OrgOfRun(job[v])
    BY DEF OrgOfRun, SessionOfRun
  <2> QED BY <2>1, <2>2, <2>3, TokensKept
<1> QED BY <1>2, <1>3, <1>4, <1>5, <1>6

(* No step breaks the invariant: one step per action, and under it one per   *)
(* conjunct the action can disturb.                                         *)
LEMMA NextIInv == IInv /\ [Next]_vars => IInv'
<1> SUFFICES ASSUME IInv, [Next]_vars PROVE IInv'
  OBVIOUS
<1> USE DEF IInv, rows, sem, keys, hist, Goto, Fault, Runs
<1>1. ASSUME NEW q \in Requesters, NEW i \in Inputs, NEW force \in BOOLEAN,
             FindRun(q, i, force)
      PROVE  IInv'
  <2>1. TypeInv'
    BY <1>1 DEF FindRun, TypeInv, Control, RequestDone
  <2>2. SentInv'
    BY <1>1 DEF FindRun, TypeInv, SentInv
  <2>3. LockInv'
    BY <1>1 DEF FindRun, LockInv, HoldsLock, HoldsSlot
  <2>4. ResultInv' /\ CompletedIsPersisted'
    BY <1>1 DEF FindRun, ResultInv, CompletedIsPersisted, Exists
  <2>5. TokenInv' /\ OrgLimit'
    <3>1. \A w \in Workers : CountedByOrg(w) => input'[job[w]] = input[job[w]]
      BY <1>1 DEF FindRun, SentInv, CountedByOrg
    <3>2. \A w \in Workers : pc'[w] = pc[w]
      BY <1>1 DEF FindRun
    <3>3. \A w \in Workers : CountedByOrg(w)' =>
            CountedByOrg(w) /\ OrgOfRun(job[w])' = OrgOfRun(job[w])
      BY <1>1, <3>1, <3>2 DEF FindRun, CountedByOrg, OrgOfRun, SessionOfRun
    <3>4. \A w \in Workers : Executes(w)' => Executes(w)
      BY <3>2 DEF CountedByOrg, Executes
    <3> QED BY <1>1, <3>3, <3>4, TokensKept DEF FindRun
  <2> QED BY <2>1, <2>2, <2>3, <2>4, <2>5
<1>2. ASSUME NEW q \in Requesters, CreateRun(q) PROVE IInv'
  <2>1. TypeInv'
    BY <1>2 DEF CreateRun, TypeInv, Control, RequestDone
  <2>2. SentInv'
    BY <1>2 DEF CreateRun, TypeInv, SentInv
  <2>3. LockInv'
    BY <1>2 DEF CreateRun, TypeInv, SentInv, LockInv, HoldsLock, HoldsSlot
  <2>4. ResultInv' /\ CompletedIsPersisted'
    BY <1>2 DEF CreateRun, TypeInv, SentInv, ResultInv, CompletedIsPersisted, Exists
  <2>5. TokenInv' /\ OrgLimit'
    BY <1>2, TokensKept DEF CreateRun, TypeInv, CountedByOrg, Executes, OrgOfRun, SessionOfRun
  <2> QED BY <2>1, <2>2, <2>3, <2>4, <2>5
<1>3. ASSUME NEW q \in Requesters, EmitRunRequest(q) PROVE IInv'
  <2>1. TypeInv'
    BY <1>3 DEF EmitRunRequest, TypeInv, Control, RequestDone
  <2>2. SentInv'
    BY <1>3 DEF EmitRunRequest, TypeInv, SentInv
  <2>3. LockInv'
    BY <1>3 DEF EmitRunRequest, LockInv, HoldsLock, HoldsSlot
  <2>4. ResultInv' /\ CompletedIsPersisted'
    BY <1>3 DEF EmitRunRequest, ResultInv, CompletedIsPersisted, Exists
  <2>5. TokenInv' /\ OrgLimit'
    BY <1>3, TokensKept DEF EmitRunRequest, CountedByOrg, Executes, OrgOfRun, SessionOfRun
  <2> QED BY <2>1, <2>2, <2>3, <2>4, <2>5
<1>4. ASSUME NEW q \in Requesters, AbandonRequest(q) PROVE IInv'
  <2>1. TypeInv'
    BY <1>4 DEF AbandonRequest, TypeInv, Control, RequestDone
  <2>2. SentInv'
    BY <1>4 DEF AbandonRequest, SentInv
  <2>3. LockInv'
    BY <1>4 DEF AbandonRequest, LockInv, HoldsLock, HoldsSlot
  <2>4. ResultInv' /\ CompletedIsPersisted'
    BY <1>4 DEF AbandonRequest, ResultInv, CompletedIsPersisted, Exists
  <2>5. TokenInv' /\ OrgLimit'
    BY <1>4, TokensKept DEF AbandonRequest, CountedByOrg, Executes, OrgOfRun, SessionOfRun
  <2> QED BY <2>1, <2>2, <2>3, <2>4, <2>5
<1>5. ASSUME NEW w \in Workers, NEW r \in Runs, ReceiveRun(w, r) PROVE IInv'
  <2> DEFINE p == InstanceOf[w]
  <2>0. /\ p \in Instances /\ r \in sent /\ pc[w] = "idle" /\ job' = [job EXCEPT ![w] = r]
        /\ UNCHANGED <<rows, sent, keys, hist>>
    BY <1>5 DEF ReceiveRun
  <2>1. \E to \in {"done", "lock", "waiting"} : pc' = [pc EXCEPT ![w] = to]
    BY <1>5 DEF ReceiveRun
  <2>2. \/ active' = active
        \/ active[p] < MaxParallelRuns /\ active' = [active EXCEPT ![p] = @ + 1]
    BY <1>5 DEF ReceiveRun
  <2>3. waiting' = waiting \/ waiting' = [waiting EXCEPT ![p] = Append(@, w)]
    BY <1>5 DEF ReceiveRun
  <2>4. TypeInv'
    <3>1. pc' \in [Requesters \cup Workers -> Control] /\ job' \in [Workers -> Runs \cup {None}]
      BY <2>0, <2>1 DEF TypeInv, Control, WorkDone
    <3>2. active' \in [Instances -> 0..MaxParallelRuns]
      <4>1. active[p] \in 0..MaxParallelRuns
        BY <2>0 DEF TypeInv
      <4>2. active[p] < MaxParallelRuns => active[p] + 1 \in 0..MaxParallelRuns
        BY <4>1
      <4>3. CASE active' = active
        BY <4>3 DEF TypeInv
      <4>4. CASE active[p] < MaxParallelRuns /\ active' = [active EXCEPT ![p] = @ + 1]
        <5>1. active \in [Instances -> 0..MaxParallelRuns] /\ p \in Instances
              /\ active[p] + 1 \in 0..MaxParallelRuns
          BY <2>0, <4>2, <4>4 DEF TypeInv
        <5>2. active' = [active EXCEPT ![p] = active[p] + 1]
          BY <4>4
        <5> HIDE DEF p
        <5> QED BY ONLY <5>1, <5>2
      <4> QED BY <2>2, <4>3, <4>4
    <3>3. waiting' \in [Instances -> Seq(Workers)]
      <4>1. Append(waiting[p], w) \in Seq(Workers)
        BY <2>0 DEF TypeInv
      <4>2. waiting \in [Instances -> Seq(Workers)] /\ p \in Instances
        BY <2>0 DEF TypeInv
      <4>3. waiting' = waiting \/ waiting' = [waiting EXCEPT ![p] = Append(waiting[p], w)]
        BY <2>3
      <4> HIDE DEF p
      <4> QED BY ONLY <4>1, <4>2, <4>3
    <3> QED BY <2>0, <3>1, <3>2, <3>3 DEF TypeInv
  <2>5. SentInv'
    <3>2. \A v \in Workers : job[v] \in sent => job'[v] \in sent
      BY <2>0 DEF TypeInv
    <3>3. \A x \in Instances : \A i \in 1..Len(waiting'[x]) : job'[waiting'[x][i]] \in sent
      <4> SUFFICES ASSUME NEW x \in Instances, NEW i \in 1..Len(waiting'[x])
                   PROVE  job'[waiting'[x][i]] \in sent
        OBVIOUS
      <4>1. waiting[x] \in Seq(Workers)
        BY DEF TypeInv
      <4>2. waiting'[x] = waiting[x] \/ waiting'[x] = Append(waiting[x], w)
        BY <2>0, <2>3 DEF TypeInv
      <4>3. \/ i \in 1..Len(waiting[x]) /\ waiting'[x][i] = waiting[x][i]
            \/ waiting'[x][i] = w
        <5>1. CASE waiting'[x] = waiting[x]
          BY <5>1
        <5>2. CASE waiting'[x] = Append(waiting[x], w)
          <6>1. Len(waiting[x]) \in Nat /\ i \in 1..(Len(waiting[x]) + 1)
            BY <4>1, <5>2
          <6> QED BY <4>1, <5>2, <6>1
        <5> QED BY <4>2, <5>1, <5>2
      <4>4. CASE i \in 1..Len(waiting[x]) /\ waiting'[x][i] = waiting[x][i]
        <5>1. waiting[x][i] \in Workers /\ job[waiting[x][i]] \in sent
          BY <4>1, <4>4 DEF SentInv
        <5> QED BY <4>4, <5>1, <3>2
      <4>5. CASE waiting'[x][i] = w
        BY <4>5, <2>0 DEF TypeInv
      <4> QED BY <4>3, <4>4, <4>5
    <3>4. \A v \in Workers : pc'[v] # "idle" => job'[v] \in sent
      BY <2>0, <2>1 DEF TypeInv, SentInv
    <3>5. \A q \in Requesters : pc'[q] = pc[q]
      BY <2>1 DEF TypeInv
    <3> QED BY <2>0, <3>3, <3>4, <3>5 DEF SentInv
  <2>6. LockInv'
    BY <2>0, <2>1 DEF LockInv, HoldsLock, HoldsSlot, WorkDone
  <2>7. ResultInv' /\ CompletedIsPersisted'
    BY <2>0, <2>1 DEF ResultInv, CompletedIsPersisted, Exists
  <2>8. TokenInv' /\ OrgLimit'
    BY <2>0, <2>1, TokensKept DEF CountedByOrg, Executes, OrgOfRun, SessionOfRun
  <2> QED BY <2>4, <2>5, <2>6, <2>7, <2>8
<1>6. ASSUME NEW w \in Workers, AcquireLock(w) PROVE IInv'
  <2>0. job[w] \in sent /\ job[w] \in Requesters
    BY <1>6 DEF AcquireLock, TypeInv, SentInv
  <2>1. CASE lock[job[w]] = None
    <3>0. /\ lock' = [lock EXCEPT ![job[w]] = w] /\ pc' = [pc EXCEPT ![w] = "iteration"]
          /\ UNCHANGED <<rows, sent, job, active, waiting, tokens, hist>>
      BY <1>6, <2>1 DEF AcquireLock
    <3>1. TypeInv'
      BY <2>0, <3>0 DEF TypeInv, Control
    <3>2. SentInv'
      BY <2>0, <3>0 DEF SentInv
    <3>3. LockInv'
      BY <2>0, <2>1, <3>0 DEF TypeInv, LockInv, HoldsLock, HoldsSlot
    <3>4. ResultInv' /\ CompletedIsPersisted'
      BY <3>0 DEF ResultInv, CompletedIsPersisted, Exists
    <3>5. TokenInv' /\ OrgLimit'
      BY <3>0, TokensKept DEF CountedByOrg, Executes, OrgOfRun, SessionOfRun
    <3> QED BY <3>1, <3>2, <3>3, <3>4, <3>5
  <2>2. CASE lock[job[w]] # None
    BY <1>6, <2>0, <2>2, ReleaseSlotIInv DEF AcquireLock, WorkDone, TypeInv
  <2> QED BY <2>1, <2>2
<1>7. ASSUME NEW w \in Workers, FindIteration(w) PROVE IInv'
  <2>1. TypeInv'
    BY <1>7 DEF FindIteration, TypeInv, Control, WorkDone
  <2>2. SentInv'
    BY <1>7 DEF FindIteration, SentInv
  <2>3. LockInv'
    BY <1>7 DEF FindIteration, LockInv, HoldsLock, HoldsSlot, WorkDone
  <2>4. ResultInv' /\ CompletedIsPersisted'
    BY <1>7 DEF FindIteration, ResultInv, CompletedIsPersisted, Exists
  <2>5. TokenInv' /\ OrgLimit'
    BY <1>7, TokensKept DEF FindIteration, CountedByOrg, Executes, OrgOfRun, SessionOfRun
  <2> QED BY <2>1, <2>2, <2>3, <2>4, <2>5
<1>8. ASSUME NEW w \in Workers, FindIterationFails(w) PROVE IInv'
  <2>1. TypeInv'
    BY <1>8 DEF FindIterationFails, TypeInv, Control, WorkDone
  <2>2. SentInv'
    BY <1>8 DEF FindIterationFails, SentInv
  <2>3. LockInv'
    BY <1>8 DEF FindIterationFails, LockInv, HoldsLock, HoldsSlot, WorkDone
  <2>4. ResultInv' /\ CompletedIsPersisted'
    BY <1>8 DEF FindIterationFails, ResultInv, CompletedIsPersisted, Exists
  <2>5. TokenInv' /\ OrgLimit'
    BY <1>8, TokensKept DEF FindIterationFails, CountedByOrg, Executes, OrgOfRun, SessionOfRun
  <2> QED BY <2>1, <2>2, <2>3, <2>4, <2>5
<1>9. ASSUME NEW w \in Workers, AcquireOrgToken(w) PROVE IInv'
  <2>0. job[w] \in Requesters /\ OrgOfRun(job[w]) \in Orgs
    BY <1>9 DEF AcquireOrgToken, TypeInv, SentInv, OrgOfRun, SessionOfRun
  <2> DEFINE o == OrgOfRun(job[w])
  <2>1. /\ tokens' = [tokens EXCEPT ![o] = @ + 1] /\ tokens'[o] = tokens[o] + 1
        /\ pc' = [pc EXCEPT ![w] = IF tokens[o] + 1 > MaxParallelRuns THEN "giveback" ELSE "start"]
        /\ pc[w] = "token" /\ UNCHANGED <<rows, sent, job, active, waiting, lock, hist>>
    BY <1>9, <2>0 DEF AcquireOrgToken, TypeInv
  <2>2. TypeInv'
    BY <2>0, <2>1 DEF TypeInv, Control
  <2>3. SentInv' /\ LockInv' /\ ResultInv' /\ CompletedIsPersisted'
    BY <2>1 DEF TypeInv, SentInv, LockInv, ResultInv, CompletedIsPersisted, HoldsLock,
                HoldsSlot, Exists, WorkDone
  <2>4. \A v \in Workers : OrgOfRun(job[v])' = OrgOfRun(job[v])
    BY <2>1 DEF OrgOfRun, SessionOfRun
  <2>5. \A x \in Orgs : Counted(x)' = IF x = o THEN Counted(x) \cup {w} ELSE Counted(x)
    BY <2>1, <2>4 DEF Counted, CountedByOrg, TypeInv
  <2>6. w \notin Counted(o) /\ \A x \in Orgs : Counted(x) \subseteq Workers
    BY <2>1 DEF Counted, CountedByOrg
  <2>n. \A x \in Orgs : tokens[x] \in Int /\ unseen[x] \in Nat /\ unseen'[x] = unseen[x]
    BY <2>1 DEF TypeInv
  <2>7. TokenInv'
    <3> SUFFICES ASSUME NEW x \in Orgs
                 PROVE  Cardinality(Counted(x)') <= tokens'[x] + unseen[x]
      BY <2>1 DEF TokenInv
    <3>1. IsFiniteSet(Counted(x)) /\ Cardinality(Counted(x)) \in Nat
      BY <2>6, HoldersBound
    <3>2. CASE x = o
      <4>1. Cardinality(Counted(x)') = Cardinality(Counted(x)) + 1
        BY <2>5, <2>6, <3>1, <3>2, FS_AddElement
      <4> QED BY <4>1, <3>1, <3>2, <2>1, <2>n DEF TokenInv
    <3>3. CASE x # o
      BY <3>3, <2>0, <2>1, <2>5 DEF TokenInv, TypeInv
    <3> QED BY <3>2, <3>3
  <2>8. OrgLimit'
    <3> SUFFICES ASSUME NEW x \in Orgs
                 PROVE  Cardinality(Running(x)') <= MaxParallelRuns + unseen[x]
      BY <2>1 DEF OrgLimit, Running
    <3>1. CASE x = o /\ tokens[o] + 1 <= MaxParallelRuns
      <4>1. Running(x)' \subseteq Counted(x)' /\ Counted(x)' \subseteq Workers
        BY DEF Running, Counted, Executes
      <4>2. Cardinality(Running(x)') <= Cardinality(Counted(x)')
            /\ Cardinality(Running(x)') \in Nat /\ Cardinality(Counted(x)') \in Nat
        BY <4>1, HoldersBound
      <4>3. Cardinality(Counted(x)') <= tokens'[x] + unseen[x] /\ tokens'[x] <= MaxParallelRuns
            /\ tokens'[x] \in Int
        BY <2>1, <2>7, <2>n, <3>1 DEF TokenInv
      <4> QED BY <4>2, <4>3, <2>n
    <3>2. CASE ~(x = o /\ tokens[o] + 1 <= MaxParallelRuns)
      <4>1. Running(x)' = Running(x)
        <5>1. CASE x # o
          BY <2>0, <2>1, <2>4, <5>1 DEF Running, Executes, CountedByOrg, TypeInv
        <5>2. CASE ~(tokens[o] + 1 <= MaxParallelRuns)
          <6>1. pc' = [pc EXCEPT ![w] = "giveback"]
            <7>1. tokens[o] \in Int /\ MaxParallelRuns \in Nat
              BY <2>0, <2>n
            <7>2. tokens[o] + 1 > MaxParallelRuns
              BY <5>2, <7>1
            <7> QED BY <2>1, <7>2
          <6> QED BY <2>1, <2>4, <6>1 DEF Running, Executes, CountedByOrg, TypeInv
        <5> QED BY <3>2, <5>1, <5>2
      <4> QED BY <4>1 DEF OrgLimit, Running
    <3> QED BY <3>1, <3>2
  <2> QED BY <2>2, <2>3, <2>7, <2>8
<1>10. ASSUME NEW w \in Workers, ReturnOrgToken(w) PROVE IInv'
  <2>0. job[w] \in Requesters /\ OrgOfRun(job[w]) \in Orgs
    BY <1>10 DEF ReturnOrgToken, TypeInv, SentInv, OrgOfRun, SessionOfRun
  <2> DEFINE o == OrgOfRun(job[w])
  <2>1. /\ tokens' = [tokens EXCEPT ![o] = @ - 1] /\ pc' = [pc EXCEPT ![w] = "unlock"]
        /\ pc[w] \in {"giveback", "finally"}
        /\ UNCHANGED <<rows, sent, job, active, waiting, lock, hist>>
    BY <1>10 DEF ReturnOrgToken
  <2>2. TypeInv'
    BY <2>0, <2>1 DEF TypeInv, Control
  <2>3. SentInv' /\ LockInv' /\ ResultInv' /\ CompletedIsPersisted'
    BY <2>1 DEF TypeInv, SentInv, LockInv, ResultInv, CompletedIsPersisted, HoldsLock,
                HoldsSlot, Exists, WorkDone
  <2>4. \A v \in Workers : OrgOfRun(job[v])' = OrgOfRun(job[v])
    BY <2>1 DEF OrgOfRun, SessionOfRun
  <2>5. \A x \in Orgs : Counted(x)' = IF x = o THEN Counted(x) \ {w} ELSE Counted(x)
    BY <2>1, <2>4 DEF Counted, CountedByOrg, TypeInv
  <2>6. w \in Counted(o) /\ \A x \in Orgs : Counted(x) \subseteq Workers
    BY <2>1 DEF Counted, CountedByOrg
  <2>n. \A x \in Orgs : tokens[x] \in Int /\ unseen[x] \in Nat /\ unseen'[x] = unseen[x]
    BY <2>1 DEF TypeInv
  <2>7. TokenInv'
    <3> SUFFICES ASSUME NEW x \in Orgs
                 PROVE  Cardinality(Counted(x)') <= tokens'[x] + unseen[x]
      BY <2>1 DEF TokenInv
    <3>1. IsFiniteSet(Counted(x)) /\ Cardinality(Counted(x)) \in Nat
      BY <2>6, HoldersBound
    <3>2. CASE x = o
      <4>1. Cardinality(Counted(x)') = Cardinality(Counted(x)) - 1
            /\ Cardinality(Counted(x)') \in Nat
        BY <2>5, <2>6, <3>1, <3>2, FS_RemoveElement, FS_CardinalityType
      <4>2. tokens'[x] = tokens[x] - 1 /\ Cardinality(Counted(x)) <= tokens[x] + unseen[x]
        BY <2>0, <2>1, <3>2 DEF TokenInv, TypeInv
      <4> QED BY <4>1, <4>2, <3>1, <2>n
    <3>3. CASE x # o
      BY <3>3, <2>0, <2>1, <2>5 DEF TokenInv, TypeInv
    <3> QED BY <3>2, <3>3
  <2>8. OrgLimit'
    <3> SUFFICES ASSUME NEW x \in Orgs
                 PROVE  Cardinality(Running(x)') <= MaxParallelRuns + unseen[x]
      BY <2>1 DEF OrgLimit, Running
    <3>1. Running(x)' \subseteq Running(x) /\ Running(x) \subseteq Workers
      BY <2>1, <2>4 DEF Running, Executes, CountedByOrg
    <3>2. Cardinality(Running(x)') <= Cardinality(Running(x))
          /\ Cardinality(Running(x)') \in Nat /\ Cardinality(Running(x)) \in Nat
      BY <3>1, HoldersBound
    <3> QED BY <3>2, <2>n DEF OrgLimit, Running
  <2> QED BY <2>2, <2>3, <2>7, <2>8
<1>11. ASSUME NEW w \in Workers, MarkRunning(w) PROVE IInv'
  <2>1. TypeInv'
    BY <1>11 DEF MarkRunning, TypeInv, Control
  <2>2. SentInv'
    BY <1>11 DEF MarkRunning, TypeInv, SentInv
  <2>3. LockInv'
    <3>1. pc[w] = "start" /\ pc' = [pc EXCEPT ![w] = "labels"]
      BY <1>11 DEF MarkRunning
    <3> QED BY <1>11, <3>1 DEF MarkRunning, LockInv, HoldsLock, HoldsSlot, WorkDone
  <2>4. ResultInv' /\ CompletedIsPersisted'
    <3>1. \A v \in Runs : Exists(v)' => Exists(v)
      BY <1>11 DEF MarkRunning, TypeInv, Exists
    <3>2. \A v \in Workers : v # w => pc'[v] = pc[v]
      BY <1>11 DEF MarkRunning, TypeInv
    <3>3. pc'[w] = "labels" /\ UNCHANGED <<job, labels, summary>>
      BY <1>11 DEF MarkRunning, TypeInv
    <3>4. \A v \in Workers : pc[v] # "idle" => job[v] \in Runs
      BY DEF TypeInv, SentInv
    <3>5. ResultInv'
      BY <3>1, <3>2, <3>3, <3>4 DEF ResultInv
    <3>6. CompletedIsPersisted'
      BY <1>11 DEF MarkRunning, TypeInv, CompletedIsPersisted
    <3> QED BY <3>5, <3>6
  <2>5. TokenInv' /\ OrgLimit'
    BY <1>11, TokensKept DEF MarkRunning, TypeInv, CountedByOrg, Executes, OrgOfRun, SessionOfRun
  <2> QED BY <2>1, <2>2, <2>3, <2>4, <2>5
<1>12. ASSUME NEW w \in Workers, CreateLabels(w) PROVE IInv'
  <2>1. TypeInv'
    BY <1>12 DEF CreateLabels, TypeInv, SentInv, Control
  <2>2. SentInv'
    BY <1>12 DEF CreateLabels, SentInv
  <2>3. LockInv'
    BY <1>12 DEF CreateLabels, LockInv, HoldsLock, HoldsSlot, WorkDone
  <2>4. ResultInv' /\ CompletedIsPersisted'
    BY <1>12 DEF CreateLabels, TypeInv, SentInv, ResultInv, CompletedIsPersisted, Exists
  <2>5. TokenInv' /\ OrgLimit'
    BY <1>12, TokensKept DEF CreateLabels, CountedByOrg, Executes, OrgOfRun, SessionOfRun
  <2> QED BY <2>1, <2>2, <2>3, <2>4, <2>5
<1>13. ASSUME NEW w \in Workers, UpsertSummary(w) PROVE IInv'
  <2>1. TypeInv'
    BY <1>13 DEF UpsertSummary, TypeInv, Control
  <2>2. SentInv'
    BY <1>13 DEF UpsertSummary, SentInv
  <2>3. LockInv'
    BY <1>13 DEF UpsertSummary, LockInv, HoldsLock, HoldsSlot, WorkDone
  <2>4. ResultInv' /\ CompletedIsPersisted'
    BY <1>13 DEF UpsertSummary, TypeInv, SentInv, ResultInv, CompletedIsPersisted, Exists
  <2>5. TokenInv' /\ OrgLimit'
    BY <1>13, TokensKept DEF UpsertSummary, CountedByOrg, Executes, OrgOfRun, SessionOfRun
  <2> QED BY <2>1, <2>2, <2>3, <2>4, <2>5
<1>14. ASSUME NEW w \in Workers, MarkCompleted(w) PROVE IInv'
  <2>1. TypeInv'
    BY <1>14 DEF MarkCompleted, TypeInv, Control
  <2>2. SentInv'
    BY <1>14 DEF MarkCompleted, SentInv
  <2>3. LockInv'
    BY <1>14 DEF MarkCompleted, LockInv, HoldsLock, HoldsSlot, WorkDone
  <2>4. ResultInv' /\ CompletedIsPersisted'
    BY <1>14 DEF MarkCompleted, ResultInv, CompletedIsPersisted, Exists
  <2>5. TokenInv' /\ OrgLimit'
    BY <1>14, TokensKept DEF MarkCompleted, CountedByOrg, Executes, OrgOfRun, SessionOfRun
  <2> QED BY <2>1, <2>2, <2>3, <2>4, <2>5
<1>15. ASSUME NEW w \in Workers, RunFails(w) PROVE IInv'
  <2>1. TypeInv'
    BY <1>15 DEF RunFails, TypeInv, Control
  <2>2. SentInv'
    BY <1>15 DEF RunFails, SentInv
  <2>3. LockInv'
    BY <1>15 DEF RunFails, LockInv, HoldsLock, HoldsSlot, WorkDone
  <2>4. ResultInv' /\ CompletedIsPersisted'
    BY <1>15 DEF RunFails, ResultInv, CompletedIsPersisted, Exists
  <2>5. TokenInv' /\ OrgLimit'
    BY <1>15, TokensKept DEF RunFails, CountedByOrg, Executes, OrgOfRun, SessionOfRun
  <2> QED BY <2>1, <2>2, <2>3, <2>4, <2>5
<1>16. ASSUME NEW w \in Workers, MarkFailed(w) PROVE IInv'
  <2>1. TypeInv'
    BY <1>16 DEF MarkFailed, TypeInv, Control
  <2>2. SentInv'
    BY <1>16 DEF MarkFailed, SentInv
  <2>3. LockInv'
    BY <1>16 DEF MarkFailed, LockInv, HoldsLock, HoldsSlot, WorkDone
  <2>4. ResultInv' /\ CompletedIsPersisted'
    BY <1>16 DEF MarkFailed, ResultInv, CompletedIsPersisted, Exists
  <2>5. TokenInv' /\ OrgLimit'
    BY <1>16, TokensKept DEF MarkFailed, CountedByOrg, Executes, OrgOfRun, SessionOfRun
  <2> QED BY <2>1, <2>2, <2>3, <2>4, <2>5
<1>17. ASSUME NEW w \in Workers, DeleteLock(w) PROVE IInv'
  <2>1. TypeInv'
    BY <1>17 DEF DeleteLock, TypeInv, Control
  <2>2. SentInv'
    BY <1>17 DEF DeleteLock, SentInv
  <2>3. LockInv'
    <3>1. HoldsLock(w) /\ job[w] \in Requesters
      BY <1>17 DEF DeleteLock, TypeInv, SentInv, HoldsLock, HoldsSlot, WorkDone
    <3>2. \A v \in Workers : HoldsLock(v)' => HoldsLock(v) /\ v # w
      BY <1>17 DEF DeleteLock, TypeInv, HoldsLock, HoldsSlot
    <3>3. \A v \in Workers : HoldsLock(v) /\ v # w /\ job[v] \notin overran => job[v] # job[w]
      BY <3>1 DEF LockInv
    <3> QED BY <1>17, <3>1, <3>2, <3>3 DEF DeleteLock, LockInv
  <2>4. ResultInv' /\ CompletedIsPersisted'
    BY <1>17 DEF DeleteLock, ResultInv, CompletedIsPersisted, Exists
  <2>5. TokenInv' /\ OrgLimit'
    BY <1>17, TokensKept DEF DeleteLock, CountedByOrg, Executes, OrgOfRun, SessionOfRun
  <2> QED BY <2>1, <2>2, <2>3, <2>4, <2>5
<1>18. ASSUME NEW w \in Workers, Release(w) PROVE IInv'
  <2>1. job[w] \in sent
    BY <1>18 DEF Release, SentInv
  <2> QED BY <1>18, <2>1, ReleaseSlotIInv DEF Release, WorkDone, TypeInv
<1>19. ASSUME NEW s \in Sessions, DeleteSession(s) PROVE IInv'
  <2>1. TypeInv'
    BY <1>19 DEF DeleteSession, TypeInv
  <2>2. SentInv'
    BY <1>19 DEF DeleteSession, SentInv
  <2>3. LockInv'
    BY <1>19 DEF DeleteSession, LockInv, HoldsLock, HoldsSlot
  <2>4. ResultInv' /\ CompletedIsPersisted'
    BY <1>19 DEF DeleteSession, TypeInv, SentInv, ResultInv, CompletedIsPersisted, Exists
  <2>5. TokenInv' /\ OrgLimit'
    BY <1>19, TokensKept DEF DeleteSession, CountedByOrg, Executes, OrgOfRun, SessionOfRun
  <2> QED BY <2>1, <2>2, <2>3, <2>4, <2>5
<1>20. ASSUME NEW p \in Instances, Crash(p) PROVE IInv'
  <2>1. TypeInv'
    BY <1>20 DEF Crash, TypeInv, Control, WorkDone
  <2>2. SentInv'
    BY <1>20 DEF Crash, TypeInv, SentInv
  <2>3. LockInv'
    BY <1>20 DEF Crash, TypeInv, LockInv, HoldsLock, HoldsSlot, WorkDone
  <2>4. ResultInv' /\ CompletedIsPersisted'
    BY <1>20 DEF Crash, TypeInv, ResultInv, CompletedIsPersisted, Exists
  <2>5. TokenInv' /\ OrgLimit'
    BY <1>20, TokensKept DEF Crash, TypeInv, CountedByOrg, Executes, OrgOfRun, SessionOfRun
  <2> QED BY <2>1, <2>2, <2>3, <2>4, <2>5
<1>21. ASSUME NEW r \in Runs, ExpireLock(r) PROVE IInv'
  <2>0. UNCHANGED <<rows, sent, pc, job, sem, tokens, unseen>> /\ lock' = [lock EXCEPT ![r] = None]
        /\ faults' \in 0..MaxFaults
    BY <1>21 DEF ExpireLock, TypeInv
  <2>1. TypeInv'
    BY <1>21, <2>0 DEF ExpireLock, TypeInv
  <2>2. SentInv'
    BY <2>0 DEF SentInv
  <2>3. LockInv'
    <3> SUFFICES ASSUME NEW w \in Workers, HoldsLock(w), job[w] \notin overran'
                 PROVE  lock'[job[w]] = w
      BY <2>0 DEF LockInv, HoldsLock, HoldsSlot
    <3>1. overran \subseteq overran' /\ (HoldsLock(lock[r]) => r \in overran')
      BY <1>21 DEF ExpireLock
    <3>2. lock[job[w]] = w
      BY <3>1 DEF LockInv
    <3>3. job[w] # r
      BY <3>1, <3>2
    <3> QED BY <2>0, <3>2, <3>3 DEF TypeInv
  <2>4. ResultInv' /\ CompletedIsPersisted'
    BY <2>0 DEF ResultInv, CompletedIsPersisted, Exists
  <2>5. TokenInv' /\ OrgLimit'
    BY <2>0, TokensKept DEF CountedByOrg, Executes, OrgOfRun, SessionOfRun
  <2> QED BY <2>1, <2>2, <2>3, <2>4, <2>5
<1>22. ASSUME NEW o \in Orgs, ExpireOrgToken(o) PROVE IInv'
  <2>0. /\ UNCHANGED <<rows, sent, pc, job, sem, lock, overran>>
        /\ tokens' = [tokens EXCEPT ![o] = 0]
        /\ unseen' = [unseen EXCEPT ![o] = Cardinality(Counted(o))]
        /\ faults' \in 0..MaxFaults
    BY <1>22 DEF ExpireOrgToken, TypeInv
  <2>n. \A x \in Orgs : /\ Counted(x) \subseteq Workers /\ Running(x) \subseteq Counted(x)
                        /\ Cardinality(Counted(x)) \in Nat /\ Cardinality(Running(x)) \in Nat
                        /\ Cardinality(Running(x)) <= Cardinality(Counted(x))
    <3>1. \A x \in Orgs : Counted(x) \subseteq Workers /\ Running(x) \subseteq Counted(x)
      BY DEF Counted, Running, Executes
    <3> QED BY <3>1, HoldersBound
  <2>1. TypeInv'
    BY <2>0, <2>n DEF TypeInv
  <2>2. SentInv'
    BY <2>0 DEF SentInv
  <2>3. LockInv'
    BY <2>0 DEF LockInv, HoldsLock, HoldsSlot
  <2>4. ResultInv' /\ CompletedIsPersisted'
    BY <2>0 DEF ResultInv, CompletedIsPersisted, Exists
  <2>c. \A x \in Orgs : Counted(x)' = Counted(x) /\ Running(x)' = Running(x)
    BY <2>0 DEF Counted, Running, Executes, CountedByOrg, OrgOfRun, SessionOfRun
  <2>v. \A x \in Orgs : /\ x = o => tokens'[x] = 0 /\ unseen'[x] = Cardinality(Counted(x))
                        /\ x # o => tokens'[x] = tokens[x] /\ unseen'[x] = unseen[x]
    BY <2>0 DEF TypeInv
  <2>5. TokenInv'
    <3> SUFFICES ASSUME NEW x \in Orgs PROVE Cardinality(Counted(x)') <= tokens'[x] + unseen'[x]
      BY DEF TokenInv
    <3>1. Counted(x)' = Counted(x) /\ Cardinality(Counted(x)) \in Nat
          /\ Cardinality(Counted(x)) <= tokens[x] + unseen[x]
      BY <2>c, <2>n DEF TokenInv
    <3> QED BY <2>v, <3>1
  <2>6. OrgLimit'
    <3> SUFFICES ASSUME NEW x \in Orgs
                 PROVE  Cardinality(Running(x)') <= MaxParallelRuns + unseen'[x]
      BY DEF OrgLimit, Running
    <3>1. Running(x)' = Running(x) /\ Cardinality(Running(x)) <= MaxParallelRuns + unseen[x]
      BY <2>c DEF OrgLimit, Running
    <3> QED BY <2>n, <2>v, <3>1
  <2> QED BY <2>1, <2>2, <2>3, <2>4, <2>5, <2>6
<1>23. ASSUME NEW w \in Workers, AcquireLockFails(w) PROVE IInv'
  <2>1. job[w] \in sent /\ job[w] \in Runs
    BY <1>23 DEF AcquireLockFails, SentInv, TypeInv
  <2>2. faults' \in 0..MaxFaults
    BY <1>23 DEF AcquireLockFails, TypeInv
  <2>3. lock' \in [Runs -> Workers \cup {None}] /\ \A r \in Runs : lock[r] # None => lock'[r] = lock[r]
    <3>1. lock \in [Runs -> Workers \cup {None}]
      BY DEF TypeInv
    <3>2. lock' = lock \/ lock' = [lock EXCEPT ![job[w]] = IF lock[job[w]] = None THEN w ELSE lock[job[w]]]
      BY <1>23 DEF AcquireLockFails
    <3> QED BY <2>1, <3>1, <3>2
  <2> QED BY <1>23, <2>1, <2>2, <2>3, ReleaseSlotIInv DEF AcquireLockFails, WorkDone
<1>24. ASSUME NEW w \in Workers, AcquireOrgTokenFails(w) PROVE IInv'
  <2>0. PICK o \in Orgs : o = OrgOfRun(job[w])
    BY <1>24 DEF AcquireOrgTokenFails, TypeInv, SentInv, OrgOfRun, SessionOfRun
  <2>1. /\ tokens' = tokens \/ tokens' = [tokens EXCEPT ![o] = @ + 1]
        /\ unseen' = [unseen EXCEPT ![o] = @ + 1] /\ pc' = [pc EXCEPT ![w] = "start"]
        /\ pc[w] = "token" /\ UNCHANGED <<rows, sent, job, active, waiting, lock, overran>>
        /\ faults' \in 0..MaxFaults
    BY <1>24, <2>0 DEF AcquireOrgTokenFails, TypeInv
  <2>2. TypeInv'
    BY <2>0, <2>1 DEF TypeInv, Control
  <2>3. SentInv' /\ LockInv' /\ ResultInv' /\ CompletedIsPersisted'
    BY <2>1 DEF TypeInv, SentInv, LockInv, ResultInv, CompletedIsPersisted, HoldsLock,
                HoldsSlot, Exists, WorkDone
  <2>4. \A v \in Workers : OrgOfRun(job[v])' = OrgOfRun(job[v])
    BY <2>1 DEF OrgOfRun, SessionOfRun
  <2>5. \A x \in Orgs : /\ Counted(x)' = IF x = o THEN Counted(x) \cup {w} ELSE Counted(x)
                        /\ Running(x)' = IF x = o THEN Running(x) \cup {w} ELSE Running(x)
    BY <2>0, <2>1, <2>4 DEF Counted, Running, Executes, CountedByOrg, TypeInv
  <2>6. /\ w \notin Counted(o) /\ w \notin Running(o)
        /\ \A x \in Orgs : Counted(x) \subseteq Workers /\ Running(x) \subseteq Workers
    BY <2>1 DEF Counted, Running, Executes, CountedByOrg
  <2>7. \A x \in Orgs : /\ tokens[x] \in Int /\ unseen[x] \in Nat
                        /\ tokens'[x] \in {tokens[x], tokens[x] + 1}
                        /\ unseen'[x] = IF x = o THEN unseen[x] + 1 ELSE unseen[x]
                        /\ x # o => tokens'[x] = tokens[x]
    BY <2>0, <2>1 DEF TypeInv
  <2>8. ASSUME NEW x \in Orgs
        PROVE  /\ Cardinality(Counted(x)') <= tokens'[x] + unseen'[x]
               /\ Cardinality(Running(x)') <= MaxParallelRuns + unseen'[x]
    <3>1. /\ IsFiniteSet(Counted(x)) /\ Cardinality(Counted(x)) \in Nat
          /\ IsFiniteSet(Running(x)) /\ Cardinality(Running(x)) \in Nat
      BY <2>6, HoldersBound
    <3>2. /\ Cardinality(Counted(x)) <= tokens[x] + unseen[x]
          /\ Cardinality(Running(x)) <= MaxParallelRuns + unseen[x]
      BY DEF TokenInv, OrgLimit, Running
    <3>3. CASE x = o
      <4>1. /\ Cardinality(Counted(x)') = Cardinality(Counted(x)) + 1
            /\ Cardinality(Running(x)') = Cardinality(Running(x)) + 1
        <5>1. /\ Counted(x)' = Counted(x) \cup {w} /\ w \notin Counted(x)
              /\ Running(x)' = Running(x) \cup {w} /\ w \notin Running(x)
          BY <2>5, <2>6, <3>3
        <5>2. Cardinality(Counted(x)') = Cardinality(Counted(x)) + 1
          BY <3>1, <5>1, FS_AddElement
        <5>3. Cardinality(Running(x)') = Cardinality(Running(x)) + 1
          BY <3>1, <5>1, FS_AddElement
        <5> QED BY <5>2, <5>3
      <4>2. unseen'[x] = unseen[x] + 1 /\ tokens'[x] \in {tokens[x], tokens[x] + 1}
            /\ tokens[x] \in Int /\ unseen[x] \in Nat
        BY <2>7, <3>3
      <4> QED BY <4>1, <4>2, <3>1, <3>2
    <3>4. CASE x # o
      BY <2>5, <2>7, <3>2, <3>4
    <3> QED BY <3>3, <3>4
  <2>9. TokenInv' /\ OrgLimit'
    BY <2>8 DEF TokenInv, OrgLimit, Running
  <2> QED BY <2>2, <2>3, <2>9
<1>25. ASSUME NEW w \in Workers, ReturnOrgTokenFails(w) PROVE IInv'
  <2>1. TypeInv'
    BY <1>25 DEF ReturnOrgTokenFails, TypeInv, Control
  <2>2. SentInv'
    BY <1>25 DEF ReturnOrgTokenFails, SentInv
  <2>3. LockInv'
    BY <1>25 DEF ReturnOrgTokenFails, LockInv, HoldsLock, HoldsSlot, WorkDone
  <2>4. ResultInv' /\ CompletedIsPersisted'
    BY <1>25 DEF ReturnOrgTokenFails, ResultInv, CompletedIsPersisted, Exists
  <2>5. TokenInv' /\ OrgLimit'
    BY <1>25, TokensKept DEF ReturnOrgTokenFails, CountedByOrg, Executes, OrgOfRun, SessionOfRun
  <2> QED BY <2>1, <2>2, <2>3, <2>4, <2>5
<1>26. ASSUME NEW w \in Workers, MarkFailedFails(w) PROVE IInv'
  <2>1. TypeInv'
    BY <1>26 DEF MarkFailedFails, TypeInv, Control
  <2>2. SentInv'
    BY <1>26 DEF MarkFailedFails, SentInv
  <2>3. LockInv'
    BY <1>26 DEF MarkFailedFails, LockInv, HoldsLock, HoldsSlot, WorkDone
  <2>4. ResultInv' /\ CompletedIsPersisted'
    BY <1>26 DEF MarkFailedFails, ResultInv, CompletedIsPersisted, Exists
  <2>5. TokenInv' /\ OrgLimit'
    BY <1>26, TokensKept DEF MarkFailedFails, CountedByOrg, Executes, OrgOfRun, SessionOfRun
  <2> QED BY <2>1, <2>2, <2>3, <2>4, <2>5
<1>27. ASSUME NEW w \in Workers, DeleteLockFails(w) PROVE IInv'
  <2>1. TypeInv'
    BY <1>27 DEF DeleteLockFails, TypeInv, Control
  <2>2. SentInv'
    BY <1>27 DEF DeleteLockFails, SentInv
  <2>3. LockInv'
    BY <1>27 DEF DeleteLockFails, LockInv, HoldsLock, HoldsSlot, WorkDone
  <2>4. ResultInv' /\ CompletedIsPersisted'
    BY <1>27 DEF DeleteLockFails, ResultInv, CompletedIsPersisted, Exists
  <2>5. TokenInv' /\ OrgLimit'
    BY <1>27, TokensKept DEF DeleteLockFails, CountedByOrg, Executes, OrgOfRun, SessionOfRun
  <2> QED BY <2>1, <2>2, <2>3, <2>4, <2>5
<1>0. CASE UNCHANGED vars
  BY <1>0, TokensKept DEF vars, TypeInv, SentInv, LockInv, ResultInv, CompletedIsPersisted,
     CountedByOrg, Executes, OrgOfRun, SessionOfRun, HoldsLock, HoldsSlot, Exists
<1> QED
  BY <1>0, <1>1, <1>2, <1>3, <1>4, <1>5, <1>6, <1>7, <1>8, <1>9, <1>10, <1>11,
     <1>12, <1>13, <1>14, <1>15, <1>16, <1>17, <1>18, <1>19, <1>20, <1>21, <1>22,
     <1>23, <1>24, <1>25, <1>26, <1>27 DEF Next, Work, AwaitFails

(* IInv is an invariant of assessment runs. *)
THEOREM Inductive == Spec => []IInv
BY InitIInv, NextIInv, PTL DEF Spec

(* Types of the rows, the Redis keys, the semaphores and all control; the    *)
(* counter of an organisation may be any integer.                           *)
THEOREM TypeCorrect == Spec => []TypeOK
<1>1. IInv => TypeOK
  BY DEF IInv, TypeInv, TypeOK, Control, Runs
<1> QED BY <1>1, Inductive, PTL

(* At any time a run is worked on by one worker, over all replicas, unless   *)
(* it has once outlasted its lock.                                          *)
THEOREM OneWorkerPerRun == Spec => []RunExclusive
<1>1. IInv => RunExclusive
  BY DEF IInv, LockInv, RunExclusive
<1> QED BY <1>1, Inductive, PTL

(* No organisation executes more runs than its limit and those its counter   *)
(* has not seen, over all replicas: failing and expiring counters included.  *)
THEOREM OrganisationsKeepTheirLimit == Spec => []OrgLimit
<1>1. IInv => OrgLimit
  BY DEF IInv
<1> QED BY <1>1, Inductive, PTL

(* A completed run has its labels and its summary. *)
THEOREM CompletedHasResults == Spec => []CompletedIsPersisted
<1>1. IInv => CompletedIsPersisted
  BY DEF IInv
<1> QED BY <1>1, Inductive, PTL

-----------------------------------------------------------------------------
(* The semaphore of each instance                                          *)

Holders(p) == {w \in Workers : InstanceOf[w] = p /\ HoldsSlot(w)}
Takers(p)  == {w \in Workers : InstanceOf[w] = p /\ (HoldsSlot(w) \/ pc[w] = "leaked")}
Waiters(p) == {w \in Workers : InstanceOf[w] = p /\ pc[w] = "waiting"}

(* What SlotsConserved says of one instance, and that its queue names only   *)
(* workers that wait on it, none of them twice.  Without the latter, waking  *)
(* the first waiter could leave another entry of the same worker behind.     *)
Slots(p) ==
  /\ Cardinality(Holders(p)) <= active[p] /\ active[p] <= Cardinality(Takers(p))
  /\ waiting[p] # <<>> => active[p] = MaxParallelRuns
  /\ Len(waiting[p]) = Cardinality(Waiters(p))
  /\ \A i \in 1..Len(waiting[p]) : waiting[p][i] \in Waiters(p)
  /\ \A i, j \in 1..Len(waiting[p]) : waiting[p][i] = waiting[p][j] => i = j

SlotInv == \A p \in Instances : Slots(p)

(* The sets of an instance are finite, so that they can be counted. *)
LEMMA SetsOfInstance ==
  ASSUME NEW p
  PROVE  /\ IsFiniteSet(Holders(p)) /\ IsFiniteSet(Takers(p)) /\ IsFiniteSet(Waiters(p))
         /\ Cardinality(Holders(p)) \in Nat /\ Cardinality(Takers(p)) \in Nat
         /\ Cardinality(Waiters(p)) \in Nat
<1>1. Holders(p) \subseteq Workers /\ Takers(p) \subseteq Workers /\ Waiters(p) \subseteq Workers
  BY DEF Holders, Takers, Waiters
<1> QED BY <1>1, HoldersBound

(* The same for the sets after a step. *)
LEMMA SetsOfInstanceNext ==
  ASSUME NEW p
  PROVE  /\ IsFiniteSet(Holders(p)') /\ IsFiniteSet(Takers(p)') /\ IsFiniteSet(Waiters(p)')
         /\ Cardinality(Holders(p)') \in Nat /\ Cardinality(Takers(p)') \in Nat
         /\ Cardinality(Waiters(p)') \in Nat
<1>1. Holders(p)' \subseteq Workers /\ Takers(p)' \subseteq Workers
      /\ Waiters(p)' \subseteq Workers
  BY DEF Holders, Takers, Waiters
<1> QED BY <1>1, HoldersBound

(* An instance whose semaphore the step leaves alone, and on which nobody    *)
(* gains a slot, gives one up without leaking it, or starts or stops waiting. *)
LEMMA SlotsKept ==
  ASSUME NEW p, Slots(p), active[p] \in Nat,
         active'[p] = active[p], waiting'[p] = waiting[p],
         \A v \in Workers : InstanceOf[v] = p =>
           /\ HoldsSlot(v)' => HoldsSlot(v)
           /\ HoldsSlot(v) \/ pc[v] = "leaked" => HoldsSlot(v)' \/ pc'[v] = "leaked"
           /\ (pc'[v] = "waiting") = (pc[v] = "waiting")
  PROVE  Slots(p)'
<1>1. Holders(p)' \subseteq Holders(p) /\ Holders(p) \subseteq Workers
  BY DEF Holders
<1>2. Takers(p) \subseteq Takers(p)' /\ Takers(p)' \subseteq Workers
  BY DEF Takers
<1>3. Waiters(p)' = Waiters(p)
  BY DEF Waiters
<1>4. Cardinality(Holders(p)') <= Cardinality(Holders(p)) /\ Cardinality(Holders(p)') \in Nat
  BY <1>1, HoldersBound
<1>5. Cardinality(Takers(p)) <= Cardinality(Takers(p)') /\ Cardinality(Takers(p)') \in Nat
  BY <1>2, HoldersBound
<1> QED BY <1>3, <1>4, <1>5, SetsOfInstance DEF Slots

(* In particular one no worker of which moves. *)
LEMMA SlotsUntouched ==
  ASSUME TypeInv, NEW p \in Instances, Slots(p),
         active'[p] = active[p], waiting'[p] = waiting[p],
         \A v \in Workers : InstanceOf[v] = p => pc'[v] = pc[v]
  PROVE  Slots(p)'
<1>1. active[p] \in Nat
  BY DEF TypeInv
<1>2. \A v \in Workers : InstanceOf[v] = p => HoldsSlot(v)' = HoldsSlot(v)
  BY DEF HoldsSlot
<1> QED BY <1>1, <1>2, SlotsKept

(* A worker that was idle takes a free slot. *)
LEMMA SlotTaken ==
  ASSUME TypeInv, NEW w \in Workers, NEW p \in Instances, p = InstanceOf[w], Slots(p),
         pc[w] = "idle", active[p] < MaxParallelRuns, active'[p] = active[p] + 1,
         waiting'[p] = waiting[p], pc' = [pc EXCEPT ![w] = "lock"]
  PROVE  Slots(p)'
<1>1. Holders(p)' = Holders(p) \cup {w} /\ w \notin Holders(p)
  BY DEF Holders, HoldsSlot, TypeInv, WorkDone
<1>2. Takers(p)' = Takers(p) \cup {w} /\ w \notin Takers(p)
  BY DEF Takers, HoldsSlot, TypeInv, WorkDone
<1>3. Waiters(p)' = Waiters(p)
  BY DEF Waiters, TypeInv
<1>f. IsFiniteSet(Holders(p)) /\ IsFiniteSet(Takers(p))
  BY SetsOfInstance
<1>4. Cardinality(Holders(p)') = Cardinality(Holders(p)) + 1
  BY ONLY <1>1, <1>f, FS_AddElement
<1>5. Cardinality(Takers(p)') = Cardinality(Takers(p)) + 1
  BY ONLY <1>2, <1>f, FS_AddElement
<1>6. active[p] \in Nat /\ waiting[p] = <<>>
  BY DEF TypeInv, Slots
<1> QED BY <1>3, <1>4, <1>5, <1>6, SetsOfInstance DEF Slots

(* A worker that was idle joins the queue of a full semaphore. *)
LEMMA WaiterJoins ==
  ASSUME TypeInv, NEW w \in Workers, NEW p \in Instances, p = InstanceOf[w], Slots(p),
         pc[w] = "idle", active[p] >= MaxParallelRuns, active'[p] = active[p],
         waiting'[p] = Append(waiting[p], w), pc' = [pc EXCEPT ![w] = "waiting"]
  PROVE  Slots(p)'
<1>1. Holders(p)' = Holders(p) /\ Takers(p)' = Takers(p)
  BY DEF Holders, Takers, HoldsSlot, TypeInv, WorkDone
<1>2. Waiters(p)' = Waiters(p) \cup {w} /\ w \notin Waiters(p)
  BY DEF Waiters, TypeInv
<1>3. Cardinality(Waiters(p)') = Cardinality(Waiters(p)) + 1
  BY <1>2, SetsOfInstance, FS_AddElement
<1>4. active[p] = MaxParallelRuns
  BY DEF TypeInv
<1> DEFINE s == waiting[p]
           t == waiting'[p]
<1>5. s \in Seq(Workers) /\ t = Append(s, w)
  BY DEF TypeInv
<1>6. /\ Len(t) = Len(s) + 1 /\ Len(s) \in Nat /\ t[Len(s) + 1] = w
      /\ \A i \in 1..Len(s) : t[i] = s[i]
  <2> HIDE DEF s, t
  <2> QED BY <1>5
<1>7. /\ \A i \in 1..Len(s) : s[i] \in Waiters(p)
      /\ \A i, j \in 1..Len(s) : s[i] = s[j] => i = j
      /\ Len(s) = Cardinality(Waiters(p))
  BY DEF Slots
<1>8. /\ \A i \in 1..Len(t) : t[i] \in Waiters(p)'
      /\ \A i, j \in 1..Len(t) : t[i] = t[j] => i = j
  <2> HIDE DEF s, t
  <2>1. \A i \in 1..Len(t) : i \in 1..Len(s) \/ i = Len(s) + 1
    BY <1>6
  <2>2. \A i \in 1..Len(t) : t[i] \in Waiters(p)'
    BY ONLY <1>2, <1>6, <1>7, <2>1
  <2>3. \A i \in 1..Len(s) : t[i] # w
    BY ONLY <1>2, <1>6, <1>7
  <2>4. \A i, j \in 1..Len(t) : t[i] = t[j] => i = j
    BY ONLY <1>6, <1>7, <2>1, <2>3
  <2> QED BY <2>2, <2>4
<1>9. Len(t) = Cardinality(Waiters(p)')
  BY <1>3, <1>6, <1>7
<1> QED BY <1>1, <1>4, <1>8, <1>9 DEF Slots

(* One element of a finite set gives its place to another. *)
LEMMA PlaceTaken ==
  ASSUME NEW S, IsFiniteSet(S), NEW x \in S, NEW y, y \notin S
  PROVE  Cardinality((S \ {x}) \cup {y}) = Cardinality(S)
<1>1. IsFiniteSet(S \ {x}) /\ Cardinality(S \ {x}) = Cardinality(S) - 1
  BY FS_RemoveElement
<1>2. Cardinality((S \ {x}) \cup {y}) = Cardinality(S \ {x}) + 1
  BY <1>1, FS_AddElement
<1> QED BY <1>1, <1>2, FS_CardinalityType

(* A holder ends: its slot is free again, or the first waiter has it. *)
LEMMA SlotReleased ==
  ASSUME TypeInv, NEW w \in Workers, NEW to, to = "done", ReleaseSlot(w, to),
         HoldsSlot(w), Slots(InstanceOf[w])
  PROVE  Slots(InstanceOf[w])'
<1> DEFINE p == InstanceOf[w]
<1>0. /\ p \in Instances /\ waiting[p] \in Seq(Workers) /\ active[p] \in 0..MaxParallelRuns
      /\ w \in Holders(p) /\ w \in Takers(p) /\ Slots(p)
  BY DEF TypeInv, Holders, Takers
<1>1. CASE waiting[p] = <<>>
  <2>1. /\ pc' = [pc EXCEPT ![w] = to] /\ waiting' = waiting
        /\ active' = [active EXCEPT ![p] = IF @ > 0 THEN @ - 1 ELSE 0]
    BY <1>1 DEF ReleaseSlot, Goto
  <2>2. Holders(p)' = Holders(p) \ {w} /\ Takers(p)' = Takers(p) \ {w}
    BY <2>1 DEF Holders, Takers, HoldsSlot, TypeInv, WorkDone
  <2>3. Waiters(p)' = Waiters(p)
    BY <2>1 DEF Waiters, HoldsSlot, TypeInv
  <2>4. /\ Cardinality(Holders(p)') = Cardinality(Holders(p)) - 1
        /\ Cardinality(Takers(p)') = Cardinality(Takers(p)) - 1
    <3>1. IsFiniteSet(Holders(p)) /\ IsFiniteSet(Takers(p))
      BY SetsOfInstance
    <3> HIDE DEF p
    <3>2. Cardinality(Holders(p)') = Cardinality(Holders(p)) - 1
      BY ONLY <1>0, <2>2, <3>1, FS_RemoveElement
    <3>3. Cardinality(Takers(p)') = Cardinality(Takers(p)) - 1
      BY ONLY <1>0, <2>2, <3>1, FS_RemoveElement
    <3> QED BY <3>2, <3>3
  <2>5. Cardinality(Holders(p)') \in Nat
    BY SetsOfInstanceNext
  <2>6. active[p] > 0
    BY <1>0, <2>4, <2>5, SetsOfInstance DEF Slots
  <2>7. active'[p] = active[p] - 1
    BY <1>0, <2>1, <2>6 DEF TypeInv
  <2>8. waiting'[p] = waiting[p]
    BY <2>1
  <2>9. /\ Cardinality(Holders(p)) \in Nat /\ Cardinality(Takers(p)) \in Nat
    BY SetsOfInstance
  <2>10. Slots(p)'
    <3> HIDE DEF p
    <3>1. /\ Cardinality(Holders(p)') <= active'[p] /\ active'[p] <= Cardinality(Takers(p)')
      BY ONLY <1>0, <2>4, <2>7, <2>9, RunsAssumption DEF Slots
    <3> QED BY <1>0, <1>1, <2>3, <2>8, <3>1 DEF Slots
  <2> QED BY <2>10
<1>2. CASE waiting[p] # <<>>
  <2> DEFINE h == Head(waiting[p])
             s == waiting[p]
             t == waiting'[p]
  <2>1. /\ waiting' = [waiting EXCEPT ![p] = Tail(@)] /\ active' = active
        /\ pc' = [pc EXCEPT ![w] = to, ![h] = "lock"]
    BY <1>2 DEF ReleaseSlot
  <2>2. h = s[1] /\ s \in Seq(Workers) /\ Len(s) \in Nat /\ Len(s) >= 1
    BY <1>0, <1>2
  <2>3. t = Tail(s) /\ Len(t) = Len(s) - 1 /\ \A i \in 1..Len(t) : t[i] = s[i + 1]
    <3>1. t = Tail(s)
      BY <1>0, <2>1 DEF TypeInv
    <3>2. s # <<>>
      BY <1>2
    <3> HIDE DEF s, t
    <3> QED BY <2>2, <3>1, <3>2
  <2>4. h \in Waiters(p) /\ h \in Workers /\ pc[h] = "waiting" /\ InstanceOf[h] = p /\ h # w
    <3>1. h \in Waiters(p)
      BY <1>0, <2>2 DEF Slots
    <3> QED BY <3>1 DEF Waiters, HoldsSlot
  <2>5. pc'[h] = "lock" /\ pc'[w] = to /\ \A v \in Workers \ {w, h} : pc'[v] = pc[v]
    BY <2>1, <2>4 DEF TypeInv
  <2>6. /\ Holders(p)' = (Holders(p) \ {w}) \cup {h} /\ h \notin Holders(p)
        /\ Takers(p)' = (Takers(p) \ {w}) \cup {h} /\ h \notin Takers(p)
    <3> HIDE DEF h, p
    <3> QED BY <2>4, <2>5 DEF Holders, Takers, HoldsSlot, WorkDone
  <2>7. Waiters(p)' = Waiters(p) \ {h}
    <3> HIDE DEF h, p
    <3> QED BY <2>4, <2>5 DEF Waiters, HoldsSlot
  <2>8. /\ Cardinality(Holders(p)') = Cardinality(Holders(p))
        /\ Cardinality(Takers(p)') = Cardinality(Takers(p))
    <3>1. IsFiniteSet(Holders(p)) /\ IsFiniteSet(Takers(p))
      BY SetsOfInstance
    <3> HIDE DEF h, p
    <3>2. Cardinality(Holders(p)') = Cardinality(Holders(p))
      BY ONLY <1>0, <2>6, <3>1, PlaceTaken
    <3>3. Cardinality(Takers(p)') = Cardinality(Takers(p))
      BY ONLY <1>0, <2>6, <3>1, PlaceTaken
    <3> QED BY <3>2, <3>3
  <2>9. Cardinality(Waiters(p)') = Cardinality(Waiters(p)) - 1
    <3>1. IsFiniteSet(Waiters(p))
      BY SetsOfInstance
    <3> HIDE DEF h, p
    <3> QED BY ONLY <2>4, <2>7, <3>1, FS_RemoveElement
  <2>10. /\ \A i \in 1..Len(s) : s[i] \in Waiters(p)
         /\ \A i, j \in 1..Len(s) : s[i] = s[j] => i = j
         /\ Len(s) = Cardinality(Waiters(p)) /\ active[p] = MaxParallelRuns
    BY <1>0, <1>2 DEF Slots
  <2>11. /\ \A i \in 1..Len(t) : t[i] \in Waiters(p)'
         /\ \A i, j \in 1..Len(t) : t[i] = t[j] => i = j
    <3> HIDE DEF h, s, t, p
    <3>1. \A i \in 1..Len(t) : i + 1 \in 1..Len(s) /\ i + 1 # 1 /\ 1 \in 1..Len(s)
      BY <2>2, <2>3
    <3>2. \A i \in 1..Len(t) : t[i] \in Waiters(p)'
      BY <2>2, <2>3, <2>7, <2>10, <3>1
    <3>3. \A i, j \in 1..Len(t) : t[i] = t[j] => i = j
      BY <2>3, <2>10, <3>1
    <3> QED BY <3>2, <3>3
  <2>12. Len(t) = Cardinality(Waiters(p)') /\ active'[p] = active[p]
    BY <2>1, <2>3, <2>9, <2>10
  <2>13. Slots(p)'
    <3> HIDE DEF p
    <3> QED BY ONLY <1>0, <2>8, <2>10, <2>11, <2>12 DEF Slots
  <2> QED BY <2>13
<1> QED BY <1>1, <1>2

(* An instance that restarts has no holder and no waiter left; what leaked   *)
(* before stays above its fresh counter.                                    *)
LEMMA SlotsAfterCrash ==
  ASSUME TypeInv, NEW p \in Instances, Crash(p)
  PROVE  Slots(p)'
<1>1. active'[p] = 0 /\ waiting'[p] = <<>>
  BY DEF Crash, TypeInv
<1>2. \A v \in Workers : pc'[v] = IF pc[v] \notin {"idle"} \cup WorkDone
                                  THEN IF InstanceOf[v] = p THEN "done" ELSE pc[v]
                                  ELSE pc[v]
  BY DEF Crash, TypeInv
<1>3. Holders(p)' = {} /\ Waiters(p)' = {}
  BY <1>2 DEF Holders, Waiters, HoldsSlot, WorkDone
<1>4. Cardinality({}) = 0
  BY FS_EmptySet
<1> QED BY <1>1, <1>3, <1>4, SetsOfInstanceNext DEF Slots

(* On every other instance nobody gains or loses a slot by such a step. *)
LEMMA SlotsElsewhere ==
  ASSUME TypeInv, NEW w \in Workers, ReleaseSlot(w, "done"),
         SlotInv, NEW x \in Instances, x # InstanceOf[w]
  PROVE  Slots(x)'
<1>1. waiting[InstanceOf[w]] # <<>> =>
        Head(waiting[InstanceOf[w]]) \in Workers
        /\ InstanceOf[Head(waiting[InstanceOf[w]])] = InstanceOf[w]
  <2>1. Slots(InstanceOf[w]) /\ waiting[InstanceOf[w]] \in Seq(Workers)
    BY DEF SlotInv, TypeInv
  <2> QED BY <2>1 DEF Slots, Waiters
<1>2. active'[x] = active[x] /\ waiting'[x] = waiting[x]
  BY DEF ReleaseSlot, TypeInv
<1>3. \A v \in Workers : InstanceOf[v] = x => pc'[v] = pc[v]
  BY <1>1 DEF ReleaseSlot, Goto, TypeInv
<1> QED BY <1>2, <1>3, SlotsUntouched DEF SlotInv

(* The queue is empty and nobody holds a slot at first. *)
LEMMA InitSlots == Init => SlotInv
<1> SUFFICES ASSUME Init, NEW p \in Instances PROVE Slots(p)
  BY DEF SlotInv
<1>1. Holders(p) = {} /\ Takers(p) = {} /\ Waiters(p) = {}
  BY DEF Init, Holders, Takers, Waiters, HoldsSlot
<1>2. Cardinality({}) = 0
  BY FS_EmptySet
<1>3. active[p] = 0 /\ waiting[p] = <<>>
  BY DEF Init
<1> QED BY <1>1, <1>2, <1>3 DEF Slots

(* A step that leaves the semaphores alone keeps the slots if workers only   *)
(* move from one holding state to another, or leak.                         *)
LEMMA SlotsUnmoved ==
  ASSUME TypeInv, SlotInv, UNCHANGED sem,
         \A v \in Workers :
           /\ HoldsSlot(v)' => HoldsSlot(v)
           /\ HoldsSlot(v) \/ pc[v] = "leaked" => HoldsSlot(v)' \/ pc'[v] = "leaked"
           /\ (pc'[v] = "waiting") = (pc[v] = "waiting")
  PROVE  SlotInv'
<1> SUFFICES ASSUME NEW p \in Instances PROVE Slots(p)'
  BY DEF SlotInv
<1> QED BY SlotsKept DEF SlotInv, TypeInv, sem

(* A worker that holds a slot goes on, keeping it or leaking it. *)
LEMMA HolderGoesOn ==
  ASSUME TypeInv, SlotInv, UNCHANGED sem, NEW w \in Workers, HoldsSlot(w), NEW to,
         to \notin {"idle", "waiting"} \cup (WorkDone \ {"leaked"}),
         pc' = [pc EXCEPT ![w] = to]
  PROVE  SlotInv'
BY SlotsUnmoved DEF HoldsSlot, WorkDone, TypeInv

(* No step breaks the semaphores: one step per action. *)
LEMMA NextSlots == IInv /\ SlotInv /\ [Next]_vars => SlotInv'
<1> SUFFICES ASSUME IInv, SlotInv, [Next]_vars PROVE SlotInv'
  OBVIOUS
<1>0. TypeInv
  BY DEF IInv
<1> USE DEF keys, Goto
<1>1. ASSUME NEW q \in Requesters, NEW i \in Inputs, NEW force \in BOOLEAN,
             FindRun(q, i, force)
      PROVE  SlotInv'
  BY <1>0, <1>1, SlotsUnmoved DEF FindRun, HoldsSlot, TypeInv
<1>2. ASSUME NEW q \in Requesters, CreateRun(q) \/ EmitRunRequest(q) \/ AbandonRequest(q)
      PROVE  SlotInv'
  <2>1. UNCHANGED sem /\ \A v \in Workers : pc'[v] = pc[v]
    BY <1>0, <1>2 DEF CreateRun, EmitRunRequest, AbandonRequest, TypeInv
  <2> QED BY <1>0, <2>1, SlotsUnmoved DEF HoldsSlot
<1>3. ASSUME NEW w \in Workers, NEW r \in Runs, ReceiveRun(w, r) PROVE SlotInv'
  <2> DEFINE p == InstanceOf[w]
  <2>1. p \in Instances /\ pc[w] = "idle" /\ Slots(p) /\ active[p] \in 0..MaxParallelRuns
    BY <1>0, <1>3 DEF ReceiveRun, SlotInv, TypeInv
  <2>2. CASE UNCHANGED sem /\ pc' = [pc EXCEPT ![w] = "done"]
    BY <1>0, <2>1, <2>2, SlotsUnmoved DEF HoldsSlot, WorkDone, TypeInv
  <2>3. CASE ~(UNCHANGED sem /\ pc' = [pc EXCEPT ![w] = "done"])
    <3>1. \/ /\ active[p] < MaxParallelRuns /\ active' = [active EXCEPT ![p] = @ + 1]
             /\ waiting' = waiting /\ pc' = [pc EXCEPT ![w] = "lock"]
          \/ /\ active[p] >= MaxParallelRuns /\ active' = active
             /\ waiting' = [waiting EXCEPT ![p] = Append(@, w)]
             /\ pc' = [pc EXCEPT ![w] = "waiting"]
      BY <1>3, <2>1, <2>3 DEF ReceiveRun, sem
    <3>2. Slots(p)'
      BY <1>0, <2>1, <3>1, SlotTaken, WaiterJoins DEF TypeInv
    <3>3. ASSUME NEW x \in Instances, x # p PROVE Slots(x)'
      <4>1. active'[x] = active[x] /\ waiting'[x] = waiting[x]
        BY <1>0, <3>1, <3>3 DEF TypeInv
      <4>2. \A v \in Workers : InstanceOf[v] = x => pc'[v] = pc[v]
        BY <1>0, <3>1, <3>3 DEF TypeInv
      <4> QED BY <1>0, <4>1, <4>2, SlotsUntouched DEF SlotInv
    <3> QED BY <3>2, <3>3 DEF SlotInv
  <2> QED BY <2>2, <2>3
<1>4. ASSUME NEW w \in Workers, ReleaseSlot(w, "done"), HoldsSlot(w)
      PROVE  SlotInv'
  <2>1. Slots(InstanceOf[w])
    BY DEF SlotInv
  <2>2. Slots(InstanceOf[w])'
    BY <1>0, <1>4, <2>1, SlotReleased
  <2>3. \A x \in Instances : x # InstanceOf[w] => Slots(x)'
    BY <1>0, <1>4, SlotsElsewhere
  <2> QED BY <2>2, <2>3 DEF SlotInv
<1>5. ASSUME NEW w \in Workers, Work(w) \/ AwaitFails(w) PROVE SlotInv'
  <2>1. CASE AcquireLock(w)
    <3>1. HoldsSlot(w)
      BY <2>1 DEF AcquireLock, HoldsSlot, WorkDone
    <3>2. CASE lock[job[w]] = None
      BY <1>0, <2>1, <3>1, <3>2, HolderGoesOn DEF AcquireLock, WorkDone
    <3>3. CASE lock[job[w]] # None
      BY <1>4, <2>1, <3>1, <3>3 DEF AcquireLock
    <3> QED BY <3>2, <3>3
  <2>2. CASE Release(w) \/ AcquireLockFails(w)
    BY <1>4, <2>2 DEF Release, AcquireLockFails, HoldsSlot, WorkDone
  <2>3. CASE FindIteration(w) \/ FindIterationFails(w)
    <3>1. HoldsSlot(w)
      BY <2>3 DEF FindIteration, FindIterationFails, HoldsSlot, WorkDone
    <3>2. UNCHANGED sem /\ \E to \in {"leaked", "token"} : pc' = [pc EXCEPT ![w] = to]
      BY <2>3 DEF FindIteration, FindIterationFails
    <3> QED BY <1>0, <3>1, <3>2, HolderGoesOn DEF WorkDone
  <2>4. CASE AcquireOrgToken(w) \/ ReturnOrgToken(w) \/ MarkRunning(w) \/ CreateLabels(w)
             \/ UpsertSummary(w) \/ MarkCompleted(w) \/ RunFails(w) \/ MarkFailed(w)
             \/ DeleteLock(w) \/ AcquireOrgTokenFails(w) \/ ReturnOrgTokenFails(w)
             \/ MarkFailedFails(w) \/ DeleteLockFails(w)
    <3>1. HoldsSlot(w)
      BY <2>4 DEF AcquireOrgToken, ReturnOrgToken, MarkRunning, CreateLabels, UpsertSummary,
                  MarkCompleted, RunFails, MarkFailed, DeleteLock, AcquireOrgTokenFails,
                  ReturnOrgTokenFails, MarkFailedFails, DeleteLockFails, HoldsSlot, WorkDone
    <3>2. UNCHANGED sem /\ \E to \in {"giveback", "start", "unlock", "labels", "fail", "summary",
                                      "complete", "finally", "release"} :
                             pc' = [pc EXCEPT ![w] = to]
      BY <2>4 DEF AcquireOrgToken, ReturnOrgToken, MarkRunning, CreateLabels, UpsertSummary,
                  MarkCompleted, RunFails, MarkFailed, DeleteLock, AcquireOrgTokenFails,
                  ReturnOrgTokenFails, MarkFailedFails, DeleteLockFails
    <3> QED BY <1>0, <3>1, <3>2, HolderGoesOn DEF WorkDone
  <2> QED BY <1>5, <2>1, <2>2, <2>3, <2>4 DEF Work, AwaitFails
<1>6. ASSUME NEW p \in Instances, Crash(p) PROVE SlotInv'
  <2>1. ASSUME NEW x \in Instances, x # p PROVE Slots(x)'
    <3>1. active'[x] = active[x] /\ waiting'[x] = waiting[x]
      BY <1>0, <1>6, <2>1 DEF Crash, TypeInv
    <3>2. \A v \in Workers : InstanceOf[v] = x => pc'[v] = pc[v]
      BY <1>0, <1>6, <2>1 DEF Crash, TypeInv
    <3> QED BY <1>0, <3>1, <3>2, SlotsUntouched DEF SlotInv
  <2> QED BY <1>0, <1>6, <2>1, SlotsAfterCrash DEF SlotInv
<1>7. ASSUME \/ \E s \in Sessions : DeleteSession(s)
             \/ \E r \in Runs : ExpireLock(r)
             \/ \E o \in Orgs : ExpireOrgToken(o)
             \/ UNCHANGED vars
      PROVE  SlotInv'
  <2>1. UNCHANGED sem /\ pc' = pc
    BY <1>7 DEF DeleteSession, ExpireLock, ExpireOrgToken, vars
  <2> QED BY <1>0, <2>1, SlotsUnmoved DEF HoldsSlot
<1> QED BY <1>1, <1>2, <1>3, <1>5, <1>6, <1>7 DEF Next

(* The semaphore of every instance counts exactly the workers that hold, or  *)
(* leaked, a slot; they wait once each, and only while no slot is free.      *)
THEOREM SemaphoreKept == Spec => []SlotsConserved
<1>1. SlotInv => SlotsConserved
  <2> SUFFICES ASSUME SlotInv, NEW p \in Instances
               PROVE  LET here == {w \in Workers : InstanceOf[w] = p} IN
                      /\ Cardinality({w \in here : HoldsSlot(w)}) <= active[p]
                      /\ active[p] <= Cardinality({w \in here : HoldsSlot(w) \/ pc[w] = "leaked"})
                      /\ waiting[p] # <<>> => active[p] = MaxParallelRuns
                      /\ Len(waiting[p]) = Cardinality({w \in here : pc[w] = "waiting"})
    BY DEF SlotsConserved
  <2> DEFINE here == {w \in Workers : InstanceOf[w] = p}
  <2>1. /\ {w \in here : HoldsSlot(w)} = Holders(p)
        /\ {w \in here : HoldsSlot(w) \/ pc[w] = "leaked"} = Takers(p)
        /\ {w \in here : pc[w] = "waiting"} = Waiters(p)
    BY DEF Holders, Takers, Waiters
  <2> QED BY <2>1 DEF SlotInv, Slots
<1> QED BY <1>1, Inductive, InitSlots, NextSlots, PTL DEF Spec

-----------------------------------------------------------------------------
(* Refinement: the board of runs                                           *)

(* A run has no row before its requester has created it. *)
BoardInv == \A q \in Requesters : pc[q] \in {"idle", "create"} => status[q] = "none"

(* Where a worker that has begun is not. *)
Elsewhere == RequestDone \cup {"idle", "create", "emit"}

(* Whom a lock names has taken up the lock's run. *)
LockOf == \A r \in Runs : lock[r] # None => pc[lock[r]] \notin Elsewhere /\ job[lock[r]] = r

OrgShown(r) == IF status[r] = "none" THEN None ELSE OrgOfRun(r)
HasResults(r) == labels[r] > 0 /\ summary[r]
Claim(w) == IF Stage(w) = "none" THEN None ELSE job[w]

(* Who sees the same statuses, organisations, results and stages sees the    *)
(* same board.                                                              *)
LEMMA SameBoard ==
  ASSUME UNCHANGED <<status, overran, unseen>>,
         \A r \in Runs : OrgShown(r)' = OrgShown(r) /\ HasResults(r)' = HasResults(r),
         \A w \in Workers : Stage(w)' = Stage(w) /\ (Stage(w) # "none" => job'[w] = job[w])
  PROVE  UNCHANGED Board!vars
<1>1. \A w \in Workers : Claim(w)' = Claim(w)
  BY DEF Claim
<1> QED BY <1>1 DEF Board!vars, Board!runVars, Board!exceptions, OrgShown, HasResults, Claim

(* A worker has a run that was created, from when it holds the lock. *)
LEMMA StageFacts ==
  ASSUME IInv, NEW w \in Workers, Stage(w) # "none"
  PROVE  /\ HoldsLock(w)
         /\ job[w] \in Runs /\ job[w] \in sent /\ status[job[w]] # "none"
         /\ OrgOfRun(job[w]) \in Orgs
<1>1. HoldsLock(w) /\ pc[w] # "idle"
  BY DEF Stage, HoldsLock, HoldsSlot, WorkDone
<1>2. job[w] \in sent /\ job[w] \in Runs
  BY <1>1 DEF IInv, TypeInv, SentInv
<1>3. status[job[w]] # "none" /\ input[job[w]] \in Inputs
  BY <1>2 DEF IInv, SentInv, Runs
<1> QED BY <1>1, <1>2, <1>3 DEF OrgOfRun, SessionOfRun

(* Steps at which nothing happens on the board. *)
LEMMA StageKept ==
  ASSUME UNCHANGED <<status, labels, summary, input, job, overran, unseen>>,
         \A w \in Workers : Stage(w)' = Stage(w)
  PROVE  UNCHANGED Board!vars
BY SameBoard DEF OrgShown, HasResults, OrgOfRun, SessionOfRun

(* The stage a position of a worker is shown as, before a step. *)
LEMMA StageOf ==
  ASSUME NEW w \in Workers
  PROVE  /\ pc[w] \in {"iteration", "token", "giveback"} => Stage(w) = "taken"
         /\ pc[w] = "start" => Stage(w) = "admitted"
         /\ pc[w] \in {"labels", "summary", "complete"} => Stage(w) = "running"
         /\ pc[w] = "fail" => Stage(w) = "failing"
         /\ pc[w] = "finally" => Stage(w) = "ended"
         /\ pc[w] = "unlock" => Stage(w) = "leaving"
         /\ pc[w] \in WorkDone \cup {"idle", "waiting", "lock", "release"} => Stage(w) = "none"
BY DEF Stage, WorkDone

(* The same, after a step. *)
LEMMA StageOfNext ==
  ASSUME NEW w \in Workers
  PROVE  /\ pc'[w] \in {"iteration", "token", "giveback"} => Stage(w)' = "taken"
         /\ pc'[w] = "start" => Stage(w)' = "admitted"
         /\ pc'[w] \in {"labels", "summary", "complete"} => Stage(w)' = "running"
         /\ pc'[w] = "fail" => Stage(w)' = "failing"
         /\ pc'[w] = "finally" => Stage(w)' = "ended"
         /\ pc'[w] = "unlock" => Stage(w)' = "leaving"
         /\ pc'[w] \in WorkDone \cup {"idle", "waiting", "lock", "release"} => Stage(w)' = "none"
BY DEF Stage, WorkDone

(* One worker goes on to a stage, or leaves. *)
LEMMA StageMoves ==
  ASSUME NEW w \in Workers, NEW to, pc' = [pc EXCEPT ![w] = to], TypeInv
  PROVE  /\ pc'[w] = to
         /\ \A v \in Workers : v # w => pc'[v] = pc[v] /\ Stage(v)' = Stage(v)
<1>1. pc'[w] = to /\ \A v \in Workers : v # w => pc'[v] = pc[v]
  BY DEF TypeInv
<1> QED BY <1>1 DEF Stage

(* A free slot wakes a worker that has not begun. *)
LEMMA ReleaseStages ==
  ASSUME IInv, NEW w \in Workers, NEW to, ReleaseSlot(w, to), pc[w] \in {"lock", "release"},
         to = "done", SlotInv
  PROVE  \A v \in Workers : Stage(v)' = Stage(v)
<1> DEFINE p == InstanceOf[w]
<1>1. CASE waiting[p] = <<>>
  <2>1. pc' = [pc EXCEPT ![w] = to]
    BY <1>1 DEF ReleaseSlot, Goto
  <2>2. Stage(w) = "none" /\ Stage(w)' = "none"
    BY <2>1, StageMoves, StageOf, StageOfNext DEF IInv, WorkDone
  <2> QED BY <2>1, <2>2, StageMoves DEF IInv
<1>2. CASE waiting[p] # <<>>
  <2>1. PICK h \in Workers : h = Head(waiting[p]) /\ pc[h] = "waiting" /\ h # w
    <3>1. waiting[p] \in Seq(Workers) /\ p \in Instances
      BY DEF IInv, TypeInv
    <3>2. 1 \in 1..Len(waiting[p]) /\ Head(waiting[p]) = waiting[p][1]
      BY <1>2, <3>1
    <3>3. Head(waiting[p]) \in Waiters(p)
      BY <3>1, <3>2 DEF SlotInv, Slots
    <3> QED BY <3>3 DEF Waiters
  <2>2. pc' = [pc EXCEPT ![w] = to, ![h] = "lock"]
    BY <1>2, <2>1 DEF ReleaseSlot
  <2>3. pc'[w] = to /\ pc'[h] = "lock" /\ \A v \in Workers : v # w /\ v # h => pc'[v] = pc[v]
    BY <2>1, <2>2 DEF IInv, TypeInv
  <2>4. Stage(w) = "none" /\ Stage(h) = "none"
    BY <2>1, StageOf
  <2>5. Stage(w)' = "none" /\ Stage(h)' = "none"
    <3>1. pc'[w] \in WorkDone
      BY <2>3 DEF WorkDone
    <3>2. pc'[w] \in WorkDone \cup {"idle", "waiting", "lock", "release"}
      BY <3>1
    <3>3. pc'[h] \in WorkDone \cup {"idle", "waiting", "lock", "release"}
      BY <2>3
    <3>4. Stage(w)' = "none"
      BY <3>2, StageOfNext
    <3>5. h \in Workers /\ Stage(h)' = "none"
      BY <2>1, <3>3, StageOfNext
    <3> QED BY <3>4, <3>5
  <2>6. \A v \in Workers : v # w /\ v # h => Stage(v)' = Stage(v)
    BY <2>3 DEF Stage
  <2> TAKE v \in Workers
  <2>7. CASE v = w
    BY <2>4, <2>5, <2>7
  <2>8. CASE v = h
    BY <2>4, <2>5, <2>8
  <2> QED BY <2>6, <2>7, <2>8
<1> QED BY <1>1, <1>2

(* No row is there before its requester has come past CreateRun. *)
LEMMA BoardNext == IInv /\ BoardInv /\ [Next]_vars => BoardInv'
<1> SUFFICES ASSUME IInv, BoardInv, [Next]_vars, NEW q \in Requesters, pc'[q] \in {"idle", "create"}
             PROVE  status'[q] = "none"
  BY DEF BoardInv
<1> USE DEF Goto
<1>0. pc \in [Requesters \cup Workers -> Control] /\ status \in [Runs -> {"none", "queued", "running", "completed", "failed", "gone"}]
  BY DEF IInv, TypeInv
<1>1. CASE \E x \in Requesters, i \in Inputs, force \in BOOLEAN : FindRun(x, i, force)
  BY <1>0, <1>1 DEF FindRun, BoardInv
<1>2. CASE \E x \in Requesters : CreateRun(x) \/ EmitRunRequest(x) \/ AbandonRequest(x)
  BY <1>0, <1>2 DEF CreateRun, EmitRunRequest, AbandonRequest, BoardInv, rows, Runs
<1>3. ASSUME NEW w \in Workers, Work(w) \/ AwaitFails(w) \/ \E r \in Runs : ReceiveRun(w, r)
      PROVE  status'[q] = "none"
  <2>1. pc'[q] = pc[q]
    <3>1. \A p \in Instances : waiting[p] # <<>> => Head(waiting[p]) \in Workers
      <4>1. \A p \in Instances : waiting[p] \in Seq(Workers)
        BY DEF IInv, TypeInv
      <4> QED BY <4>1
    <3>2. \A to : ReleaseSlot(w, to) => pc'[q] = pc[q]
      BY <1>0, <3>1 DEF ReleaseSlot
    <3> QED BY <1>0, <1>3, <3>2 DEF Work, AwaitFails, FindIterationFails, ReceiveRun,
         AcquireLock, FindIteration, AcquireOrgToken, ReturnOrgToken, MarkRunning, CreateLabels,
         UpsertSummary, MarkCompleted, RunFails, MarkFailed, DeleteLock, Release, AcquireLockFails,
         AcquireOrgTokenFails, ReturnOrgTokenFails, MarkFailedFails, DeleteLockFails
  <2>2. status[q] = "none"
    BY <2>1 DEF BoardInv
  <2>3. status' = status \/ \E s : status' = [status EXCEPT ![job[w]] = s] /\ Exists(job[w])
    BY <1>3 DEF Work, AwaitFails, FindIterationFails, ReceiveRun, rows,
         AcquireLock, FindIteration, AcquireOrgToken, ReturnOrgToken, MarkRunning, CreateLabels,
         UpsertSummary, MarkCompleted, RunFails, MarkFailed, DeleteLock, Release, AcquireLockFails,
         AcquireOrgTokenFails, ReturnOrgTokenFails, MarkFailedFails, DeleteLockFails
  <2> QED BY <1>0, <2>2, <2>3 DEF Exists, Runs
<1>4. CASE \E s \in Sessions : DeleteSession(s)
  BY <1>0, <1>4 DEF DeleteSession, BoardInv, Exists, Runs
<1>5. CASE \E p \in Instances : Crash(p)
  <2>1. pc'[q] = pc[q] /\ status' = status
    BY <1>0, <1>5 DEF Crash, rows
  <2> QED BY <2>1 DEF BoardInv
<1>6. CASE (\E r \in Runs : ExpireLock(r)) \/ (\E o \in Orgs : ExpireOrgToken(o)) \/ UNCHANGED vars
  BY <1>6 DEF ExpireLock, ExpireOrgToken, vars, rows, BoardInv
<1> QED BY <1>1, <1>2, <1>3, <1>4, <1>5, <1>6 DEF Next

(* A worker that has begun keeps its run, and locks are only given to such. *)
LEMMA LockOfNext == IInv /\ LockOf /\ [Next]_vars => LockOf'
<1> SUFFICES ASSUME IInv, LockOf, [Next]_vars PROVE LockOf'
  OBVIOUS
<1> USE DEF Goto, keys
<1>0. /\ pc \in [Requesters \cup Workers -> Control] /\ job \in [Workers -> Runs \cup {None}]
      /\ lock \in [Runs -> Workers \cup {None}]
      /\ \A p \in Instances : waiting[p] # <<>> => Head(waiting[p]) \in Workers
  <2>1. \A p \in Instances : waiting[p] \in Seq(Workers)
    BY DEF IInv, TypeInv
  <2> QED BY <2>1 DEF IInv, TypeInv
<1>1. ASSUME NEW v \in Workers, pc[v] \notin Elsewhere PROVE pc'[v] \notin Elsewhere /\ job'[v] = job[v]
  <2>1. ASSUME NEW w \in Workers, Work(w) \/ AwaitFails(w) PROVE pc'[v] \notin Elsewhere /\ job'[v] = job[v]
    <3>1. \A to : ReleaseSlot(w, to) /\ to \notin Elsewhere => pc'[v] \notin Elsewhere
      BY <1>0, <1>1 DEF ReleaseSlot, Elsewhere, RequestDone
    <3> QED BY <1>0, <1>1, <2>1, <3>1 DEF Elsewhere, RequestDone, Work, AwaitFails, FindIterationFails,
         AcquireLock, FindIteration, AcquireOrgToken, ReturnOrgToken, MarkRunning, CreateLabels,
         UpsertSummary, MarkCompleted, RunFails, MarkFailed, DeleteLock, Release, AcquireLockFails,
         AcquireOrgTokenFails, ReturnOrgTokenFails, MarkFailedFails, DeleteLockFails
  <2>2. ASSUME NEW w \in Workers, NEW r \in Runs, ReceiveRun(w, r)
        PROVE  pc'[v] \notin Elsewhere /\ job'[v] = job[v]
    BY <1>0, <1>1, <2>2 DEF ReceiveRun, Elsewhere, RequestDone
  <2>3. ASSUME NEW q \in Requesters, \/ \E i \in Inputs, force \in BOOLEAN : FindRun(q, i, force)
                                    \/ CreateRun(q) \/ EmitRunRequest(q) \/ AbandonRequest(q)
        PROVE  pc'[v] \notin Elsewhere /\ job'[v] = job[v]
    BY <1>0, <1>1, <2>3 DEF FindRun, CreateRun, EmitRunRequest, AbandonRequest
  <2>4. ASSUME NEW p \in Instances, Crash(p) PROVE pc'[v] \notin Elsewhere /\ job'[v] = job[v]
    BY <1>0, <1>1, <2>4 DEF Crash, Elsewhere, RequestDone
  <2>5. ASSUME UNCHANGED <<pc, job>> PROVE pc'[v] \notin Elsewhere /\ job'[v] = job[v]
    BY <1>1, <2>5
  <2> QED BY <2>1, <2>2, <2>3, <2>4, <2>5 DEF Next, DeleteSession, ExpireLock, ExpireOrgToken, vars
<1>2. ASSUME NEW r \in Runs
      PROVE  \/ lock'[r] \in {lock[r], None}
             \/ \E w \in Workers : lock'[r] = w /\ pc[w] \notin Elsewhere /\ job[w] = r
  <2>1. ASSUME NEW w \in Workers, AcquireLock(w) \/ AcquireLockFails(w)
        PROVE  \/ lock'[r] \in {lock[r], None}
               \/ lock'[r] = w /\ pc[w] \notin Elsewhere /\ job[w] = r
    BY <1>0, <2>1 DEF AcquireLock, AcquireLockFails, Elsewhere, RequestDone
  <2>2. ASSUME NEW w \in Workers, DeleteLock(w) PROVE lock'[r] \in {lock[r], None}
    BY <1>0, <2>2 DEF DeleteLock
  <2>3. ASSUME NEW x \in Runs, ExpireLock(x) PROVE lock'[r] \in {lock[r], None}
    BY <1>0, <2>3 DEF ExpireLock
  <2> QED BY <2>1, <2>2, <2>3 DEF Next, Work, AwaitFails, FindRun, CreateRun, EmitRunRequest,
       AbandonRequest, ReceiveRun, FindIteration, FindIterationFails, AcquireOrgToken,
       AcquireOrgTokenFails, ReturnOrgToken, ReturnOrgTokenFails, MarkRunning, CreateLabels,
       UpsertSummary, MarkCompleted, RunFails, MarkFailed, MarkFailedFails, DeleteLockFails,
       Release, DeleteSession, Crash, ExpireOrgToken, vars
<1> QED BY <1>0, <1>1, <1>2 DEF LockOf

(* A requester's steps are Request, when the row is created, or not seen. *)
LEMMA RequesterOnBoard ==
  ASSUME IInv, BoardInv, NEW q \in Requesters,
         \/ \E i \in Inputs, force \in BOOLEAN : FindRun(q, i, force)
         \/ CreateRun(q) \/ EmitRunRequest(q) \/ AbandonRequest(q)
  PROVE  Board!Next \/ UNCHANGED Board!vars
<1> USE DEF Goto, Runs
<1>0. /\ pc \in [Requesters \cup Workers -> Control] /\ input \in [Runs -> Inputs \cup {None}]
      /\ status \in [Runs -> {"none", "queued", "running", "completed", "failed", "gone"}]
  BY DEF IInv, TypeInv
<1>1. \A w \in Workers : pc'[w] = pc[w] /\ Stage(w)' = Stage(w)
  <2>1. \A w \in Workers : pc'[w] = pc[w]
    BY <1>0 DEF FindRun, CreateRun, EmitRunRequest, AbandonRequest
  <2> QED BY <2>1 DEF Stage
<1>2. UNCHANGED <<labels, summary, job, overran, unseen>>
  BY DEF FindRun, CreateRun, EmitRunRequest, AbandonRequest, rows, hist
<1>3. CASE \E i \in Inputs, force \in BOOLEAN : FindRun(q, i, force)
  <2>1. status[q] = "none" /\ status' = status /\ \A r \in Runs : r # q => input'[r] = input[r]
    BY <1>0, <1>3 DEF FindRun, BoardInv
  <2>2. \A r \in Runs : OrgShown(r)' = OrgShown(r) /\ HasResults(r)' = HasResults(r)
    BY <1>2, <2>1 DEF OrgShown, HasResults, OrgOfRun, SessionOfRun
  <2> QED BY <1>1, <1>2, <2>1, <2>2, SameBoard
<1>4. CASE EmitRunRequest(q) \/ AbandonRequest(q)
  BY <1>1, <1>2, <1>4, StageKept DEF EmitRunRequest, AbandonRequest, rows
<1>5. CASE CreateRun(q) /\ status' = status
  BY <1>1, <1>2, <1>5, StageKept DEF CreateRun
<1>6. CASE CreateRun(q) /\ status' # status
  <2>1. /\ status[q] = "none" /\ status' = [status EXCEPT ![q] = "queued"] /\ input' = input
        /\ input[q] \in Inputs
    BY <1>0, <1>6 DEF CreateRun, BoardInv, IInv, SentInv
  <2>2. PICK o \in Orgs : o = OrgOfRun(q)
    BY <2>1 DEF OrgOfRun, SessionOfRun
  <2>3. \A r \in Runs : OrgShown(r)' = IF r = q THEN o ELSE OrgShown(r)
    BY <1>0, <2>1, <2>2 DEF OrgShown, OrgOfRun, SessionOfRun
  <2>4. Board!Request(q, o)
    <3>1. [r \in Runs |-> OrgShown(r)'] = [[r \in Runs |-> OrgShown(r)] EXCEPT ![q] = o]
      BY <2>3
    <3>2. [r \in Runs |-> HasResults(r)'] = [r \in Runs |-> HasResults(r)]
      BY <1>2 DEF HasResults
    <3>3. [w \in Workers |-> Claim(w)'] = [w \in Workers |-> Claim(w)]
      BY <1>1, <1>2 DEF Claim
    <3>4. [w \in Workers |-> Stage(w)'] = [w \in Workers |-> Stage(w)]
      BY <1>1
    <3> QED BY <1>2, <2>1, <3>1, <3>2, <3>3, <3>4 DEF Board!Request, Board!exceptions, OrgShown, HasResults, Claim
  <2> QED BY <2>4 DEF Board!Next
<1> QED BY <1>3, <1>4, <1>5, <1>6

(* What the board shows of its workers after a step of one of them. *)
LEMMA WorkerShown ==
  ASSUME NEW w \in Workers, NEW to, pc' = [pc EXCEPT ![w] = to], job' = job, TypeInv
  PROVE  /\ [v \in Workers |-> Stage(v)'] = [[v \in Workers |-> Stage(v)] EXCEPT ![w] = Stage(w)']
         /\ [v \in Workers |-> Claim(v)'] = [[v \in Workers |-> Claim(v)] EXCEPT ![w] = Claim(w)']
         /\ Stage(w) # "none" /\ Stage(w)' # "none"
              => [v \in Workers |-> Claim(v)'] = [v \in Workers |-> Claim(v)]
<1>1. \A v \in Workers : v # w => Stage(v)' = Stage(v)
  BY StageMoves
<1>2. \A v \in Workers : v # w => Claim(v)' = Claim(v)
  BY <1>1 DEF Claim
<1>3. Stage(w) # "none" /\ Stage(w)' # "none" => Claim(w)' = Claim(w)
  BY DEF Claim
<1> QED BY <1>1, <1>2, <1>3

(* And what it shows of runs that no step wrote. *)
LEMMA RunsShown ==
  ASSUME UNCHANGED <<status, labels, summary, input>>
  PROVE  UNCHANGED Board!runVars
BY DEF Board!runVars, OrgOfRun, SessionOfRun

(* Workers that are done, give up or are stopped leave the board. *)
LEMMA LeavesBoard ==
  ASSUME UNCHANGED <<status, labels, summary, input, job, overran, unseen>>, NEW W \in SUBSET Workers,
         \A w \in W : Stage(w)' = "none", \A w \in Workers \ W : Stage(w)' = Stage(w)
  PROVE  Board!Next
<1>1. [w \in Workers |-> Stage(w)'] = [w \in Workers |-> IF w \in W THEN "none" ELSE Stage(w)]
  OBVIOUS
<1>2. [w \in Workers |-> Claim(w)'] =
        [w \in Workers |-> IF [v \in Workers |-> Stage(v)'][w] = "none" THEN None
                          ELSE [v \in Workers |-> Claim(v)][w]]
  BY DEF Claim
<1>3. Board!Leave
  BY <1>1, <1>2, RunsShown DEF Board!Leave, Board!exceptions, Claim
<1> QED BY <1>3 DEF Board!Next

(* A worker that gets the lock of its run takes a run nobody else has. *)
LEMMA LockTakes ==
  ASSUME IInv, SlotInv, NEW w \in Workers, AcquireLock(w) \/ AcquireLockFails(w)
  PROVE  Board!Next \/ UNCHANGED Board!vars
<1>1. UNCHANGED <<status, labels, summary, input, job, overran, unseen>> /\ pc[w] = "lock"
  BY DEF AcquireLock, AcquireLockFails, rows, hist
<1>2. CASE AcquireLockFails(w) \/ lock[job[w]] # None
  BY <1>1, <1>2, StageKept, ReleaseStages DEF AcquireLock, AcquireLockFails
<1>3. CASE AcquireLock(w) /\ lock[job[w]] = None
  <2>1. pc' = [pc EXCEPT ![w] = "iteration"]
    BY <1>3 DEF AcquireLock, Goto
  <2>2. Stage(w) = "none" /\ Stage(w)' = "taken"
    BY <1>1, <2>1, StageMoves, StageOf, StageOfNext DEF IInv, WorkDone
  <2>3. PICK r \in Runs : r = job[w] /\ status[r] # "none"
    <3>1. job[w] \in Runs /\ status[job[w]] # "none"
      BY <1>1 DEF IInv, SentInv, TypeInv, Runs
    <3> QED BY <3>1
  <2>4. r \in overran \/ \A v \in Workers : Claim(v) # r
    <3> SUFFICES ASSUME r \notin overran, NEW v \in Workers, Claim(v) = r PROVE FALSE
      OBVIOUS
    <3>1. Stage(v) # "none" /\ job[v] = r
      BY <2>3 DEF Claim, Runs
    <3>2. lock[r] = v
      BY <3>1, StageFacts DEF IInv, LockInv
    <3> QED BY <1>3, <2>3, <3>2
  <2>5. Claim(w)' = r
    BY <1>1, <2>2, <2>3 DEF Claim
  <2>6. Board!Take(w, r)
    <3>1. [v \in Workers |-> Stage(v)'] = [[v \in Workers |-> Stage(v)] EXCEPT ![w] = "taken"]
      BY <1>1, <2>1, <2>2, WorkerShown DEF IInv
    <3>2. [v \in Workers |-> Claim(v)'] = [[v \in Workers |-> Claim(v)] EXCEPT ![w] = r]
      BY <1>1, <2>1, <2>5, WorkerShown DEF IInv
    <3>3. [v \in Workers |-> Stage(v)][w] = "none"
          /\ (r \in overran \/ \A v \in Workers : [x \in Workers |-> Claim(x)][v] # r)
      BY <2>2, <2>4
    <3>4. UNCHANGED Board!runVars /\ UNCHANGED Board!exceptions
      BY <1>1, RunsShown DEF Board!exceptions
    <3> QED BY <2>3, <3>1, <3>2, <3>3, <3>4 DEF Board!Take, Claim
  <2> QED BY <2>3, <2>6 DEF Board!Next
<1> QED BY <1>2, <1>3

(* Whom the board shows as admitted is executing. *)
LEMMA AdmittedExecutes ==
  ASSUME IInv, NEW o \in Orgs
  PROVE  /\ Board!Cardinality(Board!Admitted(o)) \in Nat
         /\ Board!Cardinality(Board!Admitted(o)) <= Cardinality(Running(o))
         /\ Cardinality(Running(o)) \in Nat /\ Cardinality(Running(o)) <= Cardinality(Counted(o))
         /\ Cardinality(Counted(o)) \in Nat /\ Cardinality(Counted(o)) <= Cardinality(Workers)
<1> DEFINE A == {v \in Workers : /\ Stage(v) \in {"admitted", "running", "failing", "ended"}
                                 /\ [r \in Runs |-> OrgShown(r)][Claim(v)] = o}
<1>1. A \subseteq Running(o)
  <2> SUFFICES ASSUME NEW v \in A PROVE v \in Running(o)
    OBVIOUS
  <2>1. job[v] \in Runs /\ status[job[v]] # "none" /\ Claim(v) = job[v]
    BY StageFacts DEF Claim
  <2>2. OrgOfRun(job[v]) = o
    BY <2>1 DEF OrgShown
  <2>3. Executes(v)
    BY DEF Stage, Executes, CountedByOrg
  <2> QED BY <2>2, <2>3 DEF Running
<1>2. Running(o) \subseteq Counted(o) /\ Counted(o) \subseteq Workers /\ Workers \subseteq Workers
  BY DEF Running, Counted, Executes
<1>3. Board!Admitted(o) = A
  BY DEF Board!Admitted, OrgShown, Claim
<1>4. Board!Cardinality(Board!Admitted(o)) = Cardinality(A)
  BY <1>3 DEF Cardinality, Board!Cardinality
<1> HIDE DEF A
<1>5. Running(o) \subseteq Workers
  BY <1>2
<1> QED BY <1>1, <1>2, <1>4, <1>5, HoldersBound

(* Who is admitted was counted under the limit, or missed by the counter. *)
LEMMA TokenAdmits ==
  ASSUME IInv, NEW w \in Workers, AcquireOrgToken(w) \/ AcquireOrgTokenFails(w)
  PROVE  Board!Next \/ UNCHANGED Board!vars
<1>1. UNCHANGED <<status, labels, summary, input, job, overran>> /\ pc[w] = "token"
  BY DEF AcquireOrgToken, AcquireOrgTokenFails, rows, hist
<1>2. Stage(w) = "taken"
  BY <1>1, StageOf
<1>3. PICK o \in Orgs : o = OrgOfRun(job[w])
  BY <1>2, StageFacts
<1>4. tokens[o] \in Int /\ unseen[o] \in Nat /\ MaxParallelRuns \in Nat
  BY DEF IInv, TypeInv
<1>5. CASE pc' = [pc EXCEPT ![w] = "giveback"] /\ unseen' = unseen
  <2>1. pc'[w] = "giveback" /\ \A v \in Workers : v # w => Stage(v)' = Stage(v)
    BY <1>5, StageMoves DEF IInv
  <2>2. Stage(w)' = "taken"
    BY <2>1, StageOfNext
  <2>3. \A v \in Workers : Stage(v)' = Stage(v)
    BY <1>2, <2>1, <2>2
  <2> QED BY <1>1, <1>5, <2>3, StageKept
<1>6. CASE /\ pc' = [pc EXCEPT ![w] = "start"]
           /\ Cardinality(Running(o)) < MaxParallelRuns + unseen'[o]
           /\ unseen' = unseen \/ unseen' = [unseen EXCEPT ![o] = @ + 1]
  <2>1. Stage(w)' = "admitted"
    BY <1>6, StageMoves, StageOfNext DEF IInv
  <2>2. job[w] \in Runs /\ status[job[w]] # "none" /\ Claim(w) = job[w]
    BY <1>2, StageFacts DEF Claim
  <2>3. [r \in Runs |-> OrgShown(r)][[v \in Workers |-> Claim(v)][w]] = o
    BY <1>3, <2>2 DEF OrgShown
  <2>4. unseen'[o] \in Nat
    BY <1>4, <1>6 DEF IInv, TypeInv
  <2>5. Board!Cardinality(Board!Admitted(o)) < MaxParallelRuns + unseen'[o]
    BY <1>4, <1>6, <2>4, AdmittedExecutes
  <2>6. Board!Admit(w)
    <3>1. [v \in Workers |-> Stage(v)'] = [[v \in Workers |-> Stage(v)] EXCEPT ![w] = "admitted"]
      BY <1>1, <1>6, <2>1, WorkerShown DEF IInv
    <3>2. [v \in Workers |-> Claim(v)'] = [v \in Workers |-> Claim(v)]
      BY <1>1, <1>2, <1>6, <2>1, WorkerShown DEF IInv
    <3>3. UNCHANGED Board!runVars /\ [v \in Workers |-> Stage(v)][w] = "taken"
      BY <1>1, <1>2, RunsShown
    <3> QED BY <1>1, <1>6, <2>3, <2>5, <3>1, <3>2, <3>3 DEF Board!Admit, Claim, OrgShown
  <2> QED BY <2>6 DEF Board!Next
<1>7. CASE AcquireOrgTokenFails(w)
  <2>1. unseen'[o] = unseen[o] + 1 /\ unseen' = [unseen EXCEPT ![o] = @ + 1]
    BY <1>3, <1>7 DEF AcquireOrgTokenFails, IInv, TypeInv
  <2>2. pc' = [pc EXCEPT ![w] = "start"]
    BY <1>7 DEF AcquireOrgTokenFails, Goto
  <2>3. Cardinality(Running(o)) <= MaxParallelRuns + unseen[o] /\ Cardinality(Running(o)) \in Nat
    BY AdmittedExecutes DEF IInv, OrgLimit, Running
  <2>4. Cardinality(Running(o)) < MaxParallelRuns + unseen'[o]
    BY <1>4, <2>1, <2>3
  <2> QED BY <1>6, <2>1, <2>2, <2>4
<1>8. CASE AcquireOrgToken(w)
  <2>1. tokens'[o] = tokens[o] + 1 /\ unseen' = unseen
    BY <1>3, <1>8 DEF AcquireOrgToken, IInv, TypeInv, hist
  <2>2. pc' = [pc EXCEPT ![w] = IF tokens[o] + 1 > MaxParallelRuns THEN "giveback" ELSE "start"]
    BY <1>3, <1>8, <2>1 DEF AcquireOrgToken, Goto
  <2>3. CASE tokens[o] + 1 > MaxParallelRuns
    <3>1. pc' = [pc EXCEPT ![w] = "giveback"]
      BY <2>2, <2>3
    <3> QED BY <1>5, <2>1, <3>1
  <2>4. CASE ~(tokens[o] + 1 > MaxParallelRuns)
    <3>1. pc' = [pc EXCEPT ![w] = "start"]
      BY <2>2, <2>4
    <3>2. Cardinality(Counted(o)) <= tokens[o] + unseen[o]
      BY DEF IInv, TokenInv
    <3>3. Cardinality(Running(o)) < MaxParallelRuns + unseen[o]
      BY <1>4, <2>4, <3>2, AdmittedExecutes
    <3> QED BY <1>6, <2>1, <3>1, <3>3
  <2> QED BY <2>3, <2>4
<1> QED BY <1>7, <1>8

(* The status a worker writes, and the stage it comes to by it. *)
LEMMA WriteShown ==
  ASSUME IInv, NEW w \in Workers, Stage(w) # "none", Stage(w)' # "none",
         NEW to, pc' = [pc EXCEPT ![w] = to], NEW s \in {"running", "completed", "failed"},
         Exists(job[w]), status' = [status EXCEPT ![job[w]] = s],
         UNCHANGED <<labels, summary, input, job, overran, unseen>>
  PROVE  /\ Board!Write(w, s)
         /\ [v \in Workers |-> Stage(v)'] = [[v \in Workers |-> Stage(v)] EXCEPT ![w] = Stage(w)']
<1>1. job[w] \in Runs /\ status[job[w]] # "none" /\ Claim(w) = job[w]
  BY StageFacts DEF Claim
<1>2. status \in [Runs -> {"none", "queued", "running", "completed", "failed", "gone"}]
  BY DEF IInv, TypeInv
<1>3. \A r \in Runs : status'[r] = "none" <=> status[r] = "none"
  BY <1>1, <1>2 DEF Exists
<1>4. \A r \in Runs : OrgShown(r)' = OrgShown(r) /\ HasResults(r)' = HasResults(r)
  BY <1>3 DEF OrgShown, HasResults, OrgOfRun, SessionOfRun
<1>5. [v \in Workers |-> Claim(v)'] = [v \in Workers |-> Claim(v)]
  BY WorkerShown DEF IInv
<1>6. /\ status' = [status EXCEPT ![[v \in Workers |-> Claim(v)][w]] = s]
      /\ Board!Exists([v \in Workers |-> Claim(v)][w])
  BY <1>1 DEF Board!Exists, Exists
<1>7. Board!Write(w, s)
  <2>1. [r \in Runs |-> OrgShown(r)'] = [r \in Runs |-> OrgShown(r)]
    BY <1>4
  <2>2. [r \in Runs |-> HasResults(r)'] = [r \in Runs |-> HasResults(r)]
    BY <1>4
  <2> QED BY <1>5, <1>6, <2>1, <2>2 DEF Board!Write, Board!exceptions, OrgShown, HasResults, Claim
<1> QED BY <1>7, WorkerShown DEF IInv

(* A worker that failed ends, and its failure is not written. *)
LEMMA FailsUnwritten ==
  ASSUME IInv, NEW w \in Workers, Stage(w) = "failing", Stage(w)' = "ended",
         pc' = [pc EXCEPT ![w] = "finally"],
         UNCHANGED <<status, labels, summary, input, job, overran, unseen>>
  PROVE  Board!Next
<1>1. Board!Fail(w)
  BY WorkerShown, RunsShown DEF Board!Fail, Board!exceptions, IInv, Claim
<1> QED BY <1>1 DEF Board!Next

(* A worker writes its run's status: running, completed or failed. *)
LEMMA StatusOnBoard ==
  ASSUME IInv, NEW w \in Workers, MarkRunning(w) \/ MarkCompleted(w) \/ MarkFailed(w)
  PROVE  Board!Next
<1> USE DEF Goto
<1>0. /\ status \in [Runs -> {"none", "queued", "running", "completed", "failed", "gone"}]
      /\ UNCHANGED <<labels, summary, input, job, overran, unseen>>
  BY DEF IInv, TypeInv, MarkRunning, MarkCompleted, MarkFailed, hist
<1>1. CASE MarkRunning(w)
  <2>1. pc' = [pc EXCEPT ![w] = "labels"] /\ pc[w] = "start" /\ Exists(job[w])
    BY <1>1 DEF MarkRunning
  <2>2. Stage(w) = "admitted" /\ Stage(w)' = "running"
    BY <2>1, StageMoves, StageOf, StageOfNext DEF IInv
  <2>3. status' = [status EXCEPT ![job[w]] = "running"]
    BY <1>1 DEF MarkRunning
  <2>4. Board!Start(w)
    BY <1>0, <2>1, <2>2, <2>3, WriteShown DEF Board!Start
  <2> QED BY <2>4 DEF Board!Next
<1>2. CASE MarkCompleted(w)
  <2>1. pc' = [pc EXCEPT ![w] = "finally"] /\ pc[w] = "complete" /\ Exists(job[w])
    BY <1>2 DEF MarkCompleted
  <2>2. Stage(w) = "running" /\ Stage(w)' = "ended"
    BY <2>1, StageMoves, StageOf, StageOfNext DEF IInv, WorkDone
  <2>3. status' = [status EXCEPT ![job[w]] = "completed"]
    BY <1>2 DEF MarkCompleted
  <2>4. HasResults(job[w]) /\ Claim(w) = job[w] /\ job[w] \in Runs
    BY <2>1, <2>2, StageFacts DEF IInv, ResultInv, HasResults, Claim
  <2>5. Board!Complete(w)
    BY <1>0, <2>1, <2>2, <2>3, <2>4, WriteShown DEF Board!Complete, Claim, HasResults
  <2> QED BY <2>5 DEF Board!Next
<1>3. CASE MarkFailed(w)
  <2>1. pc' = [pc EXCEPT ![w] = "finally"] /\ pc[w] = "fail"
    BY <1>3 DEF MarkFailed
  <2>2. Stage(w) = "failing" /\ Stage(w)' = "ended"
    BY <2>1, StageMoves, StageOf, StageOfNext DEF IInv, WorkDone
  <2>3. CASE Exists(job[w])
    <3>1. status' = [status EXCEPT ![job[w]] = "failed"]
      BY <1>3, <2>3 DEF MarkFailed
    <3>2. Board!Fail(w)
      BY <1>0, <2>1, <2>2, <2>3, <3>1, WriteShown DEF Board!Fail
    <3> QED BY <3>2 DEF Board!Next
  <2>4. CASE ~Exists(job[w])
    <3>1. status' = status
      BY <1>3, <2>4 DEF MarkFailed
    <3> QED BY <1>0, <2>1, <2>2, <3>1, FailsUnwritten
  <2> QED BY <2>3, <2>4
<1> QED BY <1>1, <1>2, <1>3

(* Labels and summary: the later of the two makes the results. *)
LEMMA ResultsOnBoard ==
  ASSUME IInv, NEW w \in Workers, CreateLabels(w) \/ UpsertSummary(w)
  PROVE  Board!Next \/ UNCHANGED Board!vars
<1>1. /\ UNCHANGED <<status, input, job, overran, unseen>> /\ Exists(job[w]) /\ pc[w] \in {"labels", "summary"}
      /\ \E to \in {"summary", "complete"} : pc' = [pc EXCEPT ![w] = to]
  BY DEF CreateLabels, UpsertSummary, Goto, hist
<1>2. PICK to \in {"summary", "complete"} : pc' = [pc EXCEPT ![w] = to]
  BY <1>1
<1>3. Stage(w) = "running" /\ Stage(w)' = "running"
  BY <1>1, <1>2, StageMoves, StageOf, StageOfNext DEF IInv, WorkDone
<1>4. \A v \in Workers : Stage(v)' = Stage(v)
  BY <1>2, <1>3, StageMoves DEF IInv
<1>5. PICK r \in Runs : r = job[w] /\ Claim(w) = r
  BY <1>3, StageFacts DEF Claim
<1>6. \A x \in Runs : OrgShown(x)' = OrgShown(x) /\ (x # r => HasResults(x)' = HasResults(x))
  BY <1>1, <1>5 DEF OrgShown, HasResults, OrgOfRun, SessionOfRun, CreateLabels, UpsertSummary, IInv, TypeInv
<1>7. HasResults(r) => HasResults(r)'
  <2>1. labels \in [Runs -> Nat] /\ summary \in [Runs -> BOOLEAN]
    BY DEF IInv, TypeInv
  <2>2. CASE CreateLabels(w)
    <3>1. labels'[r] = labels[r] + 1 /\ summary' = summary /\ labels[r] \in Nat
      BY <1>5, <2>1, <2>2 DEF CreateLabels
    <3>2. labels'[r] > 0
      BY <3>1
    <3>3. HasResults(r) => summary'[r]
      BY <3>1 DEF HasResults
    <3> QED BY <3>2, <3>3 DEF HasResults
  <2>3. CASE UpsertSummary(w)
    <3>1. labels' = labels /\ summary'[r] = TRUE
      BY <1>5, <2>1, <2>3 DEF UpsertSummary
    <3>2. summary'[r]
      BY <3>1
    <3>3. HasResults(r) => labels'[r] > 0
      BY <3>1 DEF HasResults
    <3> QED BY <3>2, <3>3 DEF HasResults
  <2> QED BY <2>2, <2>3
<1>8. CASE HasResults(r)' <=> HasResults(r)
  <2>1. HasResults(r)' = HasResults(r)
    BY <1>8 DEF HasResults
  <2> QED BY <1>1, <1>4, <1>6, <2>1, SameBoard
<1>9. CASE HasResults(r)' /\ ~HasResults(r)
  <2>1. [x \in Runs |-> HasResults(x)'] = [[x \in Runs |-> HasResults(x)] EXCEPT ![r] = TRUE]
    <3>1. HasResults(r)' = TRUE
      BY <1>9 DEF HasResults
    <3>2. \A x \in Runs : HasResults(x)' = IF x = r THEN TRUE ELSE HasResults(x)
      BY <1>6, <3>1
    <3> QED BY <1>5, <3>2
  <2>2. [x \in Runs |-> OrgShown(x)'] = [x \in Runs |-> OrgShown(x)]
    BY <1>6
  <2>3. [v \in Workers |-> Claim(v)'] = [v \in Workers |-> Claim(v)]
    BY <1>1, <1>4 DEF Claim
  <2>4. Board!Deliver(w)
    BY <1>1, <1>3, <1>4, <1>5, <2>1, <2>2, <2>3
       DEF Board!Deliver, Board!exceptions, Board!Exists, Exists, OrgShown, HasResults, Claim
  <2> QED BY <2>4 DEF Board!Next
<1> QED BY <1>7, <1>8, <1>9

(* All the steps of a worker. *)
LEMMA WorkerOnBoard ==
  ASSUME IInv, SlotInv, NEW w \in Workers,
         Work(w) \/ AwaitFails(w) \/ \E r \in Runs : ReceiveRun(w, r)
  PROVE  Board!Next \/ UNCHANGED Board!vars
<1> USE DEF Goto
<1>1. CASE FindIteration(w) \/ FindIterationFails(w)
  <2>1. UNCHANGED <<status, labels, summary, input, job, overran, unseen>> /\ pc[w] = "iteration"
    BY <1>1 DEF FindIteration, FindIterationFails, rows, hist
  <2>2. PICK to \in {"leaked", "token"} : pc' = [pc EXCEPT ![w] = to]
    BY <1>1 DEF FindIteration, FindIterationFails
  <2>3. CASE to = "token"
    <3>1. pc'[w] = "token" /\ \A v \in Workers : v # w => Stage(v)' = Stage(v)
      BY <2>2, <2>3, StageMoves DEF IInv
    <3>2. Stage(w) = "taken" /\ Stage(w)' = "taken"
      BY <2>1, <3>1, StageOf, StageOfNext
    <3>3. \A v \in Workers : Stage(v)' = Stage(v)
      BY <3>1, <3>2
    <3> QED BY <2>1, <3>3, StageKept
  <2>4. CASE to = "leaked"
    <3>1. pc'[w] = "leaked" /\ \A v \in Workers \ {w} : Stage(v)' = Stage(v)
      BY <2>2, <2>4, StageMoves DEF IInv
    <3>2. Stage(w)' = "none"
      BY <3>1, StageOfNext DEF WorkDone
    <3>3. {w} \in SUBSET Workers /\ \A v \in {w} : Stage(v)' = "none"
      BY <3>2
    <3> QED BY <2>1, <3>1, <3>3, LeavesBoard
  <2> QED BY <2>3, <2>4
<1>2. CASE ReturnOrgToken(w) \/ ReturnOrgTokenFails(w)
  <2>1. UNCHANGED <<status, labels, summary, input, job, overran, unseen>>
        /\ pc' = [pc EXCEPT ![w] = "unlock"] /\ pc[w] \in {"giveback", "finally"}
    BY <1>2 DEF ReturnOrgToken, ReturnOrgTokenFails, rows, hist
  <2>2. Stage(w) \in {"taken", "ended"} /\ Stage(w)' = "leaving"
    BY <2>1, StageMoves, StageOf, StageOfNext DEF IInv
  <2>3. Board!Withdraw(w)
    BY <2>1, <2>2, WorkerShown, RunsShown DEF Board!Withdraw, Board!exceptions, IInv, Claim
  <2> QED BY <2>3 DEF Board!Next
<1>3. CASE RunFails(w)
  <2>1. UNCHANGED <<status, labels, summary, input, job, overran, unseen>>
        /\ pc' = [pc EXCEPT ![w] = "fail"] /\ pc[w] \in {"start", "labels", "summary", "complete"}
    BY <1>3 DEF RunFails, rows, hist
  <2>2. Stage(w) \in {"admitted", "running"} /\ Stage(w)' = "failing"
    BY <2>1, StageMoves, StageOf, StageOfNext DEF IInv
  <2>3. Board!Stumble(w)
    BY <2>1, <2>2, WorkerShown, RunsShown DEF Board!Stumble, Board!exceptions, IInv, Claim
  <2> QED BY <2>3 DEF Board!Next
<1>4. CASE DeleteLock(w) \/ DeleteLockFails(w)
  <2>1. UNCHANGED <<status, labels, summary, input, job, overran, unseen>>
        /\ pc' = [pc EXCEPT ![w] = "release"]
    BY <1>4 DEF DeleteLock, DeleteLockFails, rows, hist
  <2>2. pc'[w] = "release" /\ \A v \in Workers \ {w} : Stage(v)' = Stage(v)
    BY <2>1, StageMoves DEF IInv
  <2>3. {w} \in SUBSET Workers /\ \A v \in {w} : Stage(v)' = "none"
    BY <2>2, StageOfNext
  <2> QED BY <2>1, <2>2, <2>3, LeavesBoard
<1>5. CASE Release(w)
  BY <1>5, ReleaseStages, StageKept DEF Release, rows, hist
<1>6. CASE \E r \in Runs : ReceiveRun(w, r)
  <2>1. UNCHANGED <<status, labels, summary, input, overran, unseen>> /\ pc[w] = "idle"
        /\ \A v \in Workers : v # w => job'[v] = job[v]
    BY <1>6 DEF ReceiveRun, rows, hist, IInv, TypeInv
  <2>2. PICK to \in {"done", "lock", "waiting"} : pc' = [pc EXCEPT ![w] = to]
    BY <1>6 DEF ReceiveRun
  <2>3. Stage(w) = "none" /\ \A v \in Workers : Stage(v)' = Stage(v)
    <3>1. pc'[w] \in {"done", "lock", "waiting"} /\ \A v \in Workers : v # w => Stage(v)' = Stage(v)
      BY <2>2, StageMoves DEF IInv
    <3>2. Stage(w) = "none" /\ Stage(w)' = "none"
      BY <2>1, <3>1, StageOf, StageOfNext DEF WorkDone
    <3> QED BY <3>1, <3>2
  <2>4. \A r \in Runs : OrgShown(r)' = OrgShown(r) /\ HasResults(r)' = HasResults(r)
    BY <2>1 DEF OrgShown, HasResults, OrgOfRun, SessionOfRun
  <2> QED BY <2>1, <2>3, <2>4, SameBoard
<1>7. CASE MarkFailedFails(w)
  <2>1. UNCHANGED <<status, labels, summary, input, job, overran, unseen>>
        /\ pc' = [pc EXCEPT ![w] = "finally"] /\ pc[w] = "fail"
    BY <1>7 DEF MarkFailedFails, rows
  <2>2. Stage(w) = "failing" /\ Stage(w)' = "ended"
    BY <2>1, StageMoves, StageOf, StageOfNext DEF IInv
  <2> QED BY <2>1, <2>2, FailsUnwritten
<1> QED BY <1>1, <1>2, <1>3, <1>4, <1>5, <1>6, <1>7, LockTakes, TokenAdmits, StatusOnBoard,
     ResultsOnBoard DEF Work, AwaitFails

(* The cascade deletes runs with all they have. *)
LEMMA DeletionOnBoard ==
  ASSUME IInv, NEW s \in Sessions, DeleteSession(s)
  PROVE  Board!Next
<1>0. PICK R \in SUBSET Runs : R = {r \in Runs : Exists(r) /\ SessionOfRun(r) = s}
  OBVIOUS
<1>1. UNCHANGED <<input, pc, job, overran, unseen>>
  BY DEF DeleteSession, hist
<1>2. /\ status' = [r \in Runs |-> IF r \in R THEN "gone" ELSE status[r]]
      /\ labels' = [r \in Runs |-> IF r \in R THEN 0 ELSE labels[r]]
      /\ summary' = [r \in Runs |-> IF r \in R THEN FALSE ELSE summary[r]]
  BY <1>0 DEF DeleteSession
<1>3. \A r \in R : status[r] # "none" /\ Board!Exists(r)
  BY <1>0 DEF Exists, Board!Exists
<1>5. [r \in Runs |-> OrgShown(r)'] = [r \in Runs |-> OrgShown(r)]
  <2>1. \A r \in Runs : status'[r] = "none" <=> status[r] = "none"
    BY <1>2, <1>3
  <2> QED BY <1>1, <2>1 DEF OrgShown, OrgOfRun, SessionOfRun
<1>6. [r \in Runs |-> HasResults(r)'] = [r \in Runs |-> IF r \in R THEN FALSE ELSE HasResults(r)]
  BY <1>2 DEF HasResults
<1>7. \A w \in Workers : Stage(w)' = Stage(w) /\ Claim(w)' = Claim(w)
  BY <1>1 DEF Stage, Claim
<1>8. Board!Delete(R)
  <2>1. [r \in Runs |-> HasResults(r)'] =
        [r \in Runs |-> IF r \in R THEN FALSE ELSE [x \in Runs |-> HasResults(x)][r]]
    BY <1>6
  <2>2. [w \in Workers |-> Stage(w)'] = [w \in Workers |-> Stage(w)]
        /\ [w \in Workers |-> Claim(w)'] = [w \in Workers |-> Claim(w)]
    BY <1>7
  <2> QED BY <1>1, <1>2, <1>3, <1>5, <2>1, <2>2 DEF Board!Delete, Board!exceptions, OrgShown, HasResults, Claim
<1> QED BY <1>8 DEF Board!Next

(* A restart takes the workers of one replica from the board. *)
LEMMA CrashOnBoard ==
  ASSUME IInv, NEW p \in Instances, Crash(p)
  PROVE  Board!Next
<1> DEFINE W == {w \in Workers : pc[w] \notin {"idle"} \cup WorkDone /\ InstanceOf[w] = p}
<1>1. UNCHANGED <<status, labels, summary, input, job, overran, unseen>>
  BY DEF Crash, rows, hist
<1>2. \A w \in Workers : pc'[w] = IF w \in W THEN "done" ELSE pc[w]
  BY DEF Crash, IInv, TypeInv
<1>3. (\A w \in W : Stage(w)' = "none") /\ \A w \in Workers \ W : Stage(w)' = Stage(w)
  BY <1>2 DEF Stage
<1> QED BY <1>1, <1>3, LeavesBoard

(* Keys that expire under a worker, and those that expire later. *)
LEMMA ExpiryOnBoard ==
  ASSUME IInv, LockOf, (\E r \in Runs : ExpireLock(r)) \/ (\E o \in Orgs : ExpireOrgToken(o))
  PROVE  Board!Next \/ UNCHANGED Board!vars
<1>0. UNCHANGED <<status, labels, summary, input, job, pc>>
  BY DEF ExpireLock, ExpireOrgToken, rows
<1>1. /\ [v \in Workers |-> Stage(v)'] = [v \in Workers |-> Stage(v)]
      /\ [v \in Workers |-> Claim(v)'] = [v \in Workers |-> Claim(v)]
      /\ \A v \in Workers : Stage(v)' = Stage(v)
  BY <1>0 DEF Stage, Claim
<1>2. ASSUME NEW r \in Runs, ExpireLock(r) PROVE Board!Next \/ UNCHANGED Board!vars
  <2>1. CASE HoldsLock(lock[r])
    <3>1. PICK w \in Workers : w = lock[r] /\ job[w] = r
      BY <1>2 DEF ExpireLock, LockOf, IInv, TypeInv
    <3>2. pc[w] \in Control \ Elsewhere /\ HoldsLock(w)
      BY <1>2, <2>1, <3>1 DEF ExpireLock, LockOf, IInv, TypeInv
    <3>s. Stage(w) # "none" /\ Claim(w) = r
      BY <3>1, <3>2 DEF Stage, Claim, HoldsLock, HoldsSlot, WorkDone, Control, Elsewhere
    <3>3. Board!Overrun(w)
      BY <1>0, <1>1, <1>2, <2>1, <3>1, <3>s, RunsShown DEF Board!Overrun, ExpireLock, Claim
    <3> QED BY <3>3 DEF Board!Next
  <2>2. CASE ~HoldsLock(lock[r])
    BY <1>0, <1>1, <1>2, <2>2, StageKept DEF ExpireLock
  <2> QED BY <2>1, <2>2
<1>3. ASSUME NEW o \in Orgs, ExpireOrgToken(o) PROVE Board!Next
  <2>1. PICK n \in Nat : n = Cardinality(Counted(o))
    BY AdmittedExecutes
  <2>2. n \in Board!Cardinality(Board!Admitted(o))..Cardinality(Workers)
    <3>1. Cardinality(Workers) \in Nat
      BY FS_CardinalityType
    <3> QED BY <2>1, <3>1, AdmittedExecutes
  <2>3. Board!Cardinality(Workers) = Cardinality(Workers)
    BY DEF Cardinality, Board!Cardinality
  <2>4. Board!Lapse(o)
    BY <1>0, <1>1, <1>3, <2>1, <2>2, <2>3, RunsShown DEF Board!Lapse, ExpireOrgToken, Claim
  <2> QED BY <2>4 DEF Board!Next
<1> QED BY <1>2, <1>3

(* What readers see of the runs, over all replicas, restarts, repeated       *)
(* deliveries, failing awaits, expiries and deletions, is the board's doing: *)
(* one worker at a time, admitted under the limit, writes running, results   *)
(* and outcome, with the board's exceptions and no others.                   *)
THEOREM RunsImplementBoard == Spec => ImplementsBoard
<1>1. Init => Board!Init /\ BoardInv /\ LockOf
  BY DEF Init, Board!Init, Stage, BoardInv, LockOf, Runs
<1>2. IInv /\ SlotInv /\ BoardInv /\ LockOf /\ [Next]_vars => [Board!Next]_(Board!vars)
  <2> SUFFICES ASSUME IInv, SlotInv, BoardInv, LockOf, [Next]_vars
               PROVE  Board!Next \/ UNCHANGED Board!vars
    OBVIOUS
  <2>1. CASE \E q \in Requesters : \/ \E i \in Inputs, force \in BOOLEAN : FindRun(q, i, force)
                                   \/ CreateRun(q) \/ EmitRunRequest(q) \/ AbandonRequest(q)
    BY <2>1, RequesterOnBoard
  <2>2. CASE \E w \in Workers : Work(w) \/ AwaitFails(w) \/ \E r \in Runs : ReceiveRun(w, r)
    BY <2>2, WorkerOnBoard
  <2>3. CASE (\E s \in Sessions : DeleteSession(s)) \/ (\E p \in Instances : Crash(p))
    BY <2>3, DeletionOnBoard, CrashOnBoard
  <2>4. CASE (\E r \in Runs : ExpireLock(r)) \/ (\E o \in Orgs : ExpireOrgToken(o))
    BY <2>4, ExpiryOnBoard
  <2>5. CASE UNCHANGED vars
    BY <2>5, StageKept DEF vars, rows, hist, Stage
  <2> QED BY <2>1, <2>2, <2>3, <2>4, <2>5 DEF Next
<1> QED BY <1>1, <1>2, BoardNext, LockOfNext, Inductive, InitIInv, NextIInv, InitSlots, NextSlots, PTL
     DEF Spec, ImplementsBoard, Board!Spec
=============================================================================
