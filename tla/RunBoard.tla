------------------------------- MODULE RunBoard -------------------------------
(***************************************************************************)
(* What assessment runs promise to those who request and read them, as if  *)
(* there were no queue, locks or counters: a run is worked on by one       *)
(* worker at a time, which takes it, is admitted under the limit of the    *)
(* run's organisation, marks it running and ends it, as completed only     *)
(* with its results, as failed, or without a word.  Nobody else writes a   *)
(* run but who deletes it, and a deleted run is not written again.  A      *)
(* worker may leave its run at any point, and a run that was left, or even *)
(* one that ended, may be taken again.  Two exceptions are part of the     *)
(* promise: a run that took too long may be taken from its worker, and an  *)
(* organisation is over its limit by the admissions nobody saw.            *)
(* AssessmentRuns implements it.                                           *)
(***************************************************************************)
EXTENDS Integers, FiniteSets

CONSTANTS Runs, Workers, Orgs, Limit, None

VARIABLES
  status, org, results,    \* of a run: its status, its organisation, are there results
  claim, stage,            \* of a worker: its run, how far it is
  overran, unseen          \* runs that took too long; admissions nobody saw

runVars == <<status, org, results>>
exceptions == <<overran, unseen>>
vars == <<runVars, claim, stage, exceptions>>

Init ==
  /\ status = [r \in Runs |-> "none"] /\ org = [r \in Runs |-> None]
  /\ results = [r \in Runs |-> FALSE]
  /\ claim = [w \in Workers |-> None] /\ stage = [w \in Workers |-> "none"]
  /\ overran = {} /\ unseen = [o \in Orgs |-> 0]

Exists(r) == status[r] \notin {"none", "gone"}
Admitted(o) ==
  {w \in Workers : stage[w] \in {"admitted", "running", "failing", "ended"} /\ org[claim[w]] = o}

Request(r, o) ==
  /\ status[r] = "none"
  /\ status' = [status EXCEPT ![r] = "queued"] /\ org' = [org EXCEPT ![r] = o]
  /\ UNCHANGED <<results, claim, stage, exceptions>>

Take(w, r) ==
  /\ stage[w] = "none" /\ status[r] # "none"
  /\ r \in overran \/ \A v \in Workers : claim[v] # r
  /\ claim' = [claim EXCEPT ![w] = r] /\ stage' = [stage EXCEPT ![w] = "taken"]
  /\ UNCHANGED <<runVars, exceptions>>

(* Under the limit, or as one of those nobody saw. *)
Admit(w) ==
  LET o == org[claim[w]] IN
  /\ stage[w] = "taken" /\ Cardinality(Admitted(o)) < Limit + unseen'[o]
  /\ stage' = [stage EXCEPT ![w] = "admitted"]
  /\ UNCHANGED unseen \/ unseen' = [unseen EXCEPT ![o] = @ + 1]
  /\ UNCHANGED <<runVars, claim, overran>>

(* The worker writes the status of its run, which was not deleted. *)
Write(w, s) ==
  /\ Exists(claim[w])
  /\ status' = [status EXCEPT ![claim[w]] = s]
  /\ UNCHANGED <<org, results, claim, exceptions>>

Start(w) ==
  /\ stage[w] = "admitted"
  /\ stage' = [stage EXCEPT ![w] = "running"] /\ Write(w, "running")

Deliver(w) ==
  /\ stage[w] = "running" /\ Exists(claim[w])
  /\ results' = [results EXCEPT ![claim[w]] = TRUE]
  /\ UNCHANGED <<status, org, claim, stage, exceptions>>

Complete(w) ==
  /\ stage[w] = "running" /\ results[claim[w]]
  /\ stage' = [stage EXCEPT ![w] = "ended"] /\ Write(w, "completed")

Stumble(w) ==
  /\ stage[w] \in {"admitted", "running"}
  /\ stage' = [stage EXCEPT ![w] = "failing"]
  /\ UNCHANGED <<runVars, claim, exceptions>>

(* Its failure may itself remain unwritten. *)
Fail(w) ==
  /\ stage[w] = "failing"
  /\ stage' = [stage EXCEPT ![w] = "ended"]
  /\ Write(w, "failed") \/ UNCHANGED <<runVars, claim, exceptions>>

(* Refused or at the end, the worker still has its run, which may overrun. *)
Withdraw(w) ==
  /\ stage[w] \in {"taken", "ended"}
  /\ stage' = [stage EXCEPT ![w] = "leaving"]
  /\ UNCHANGED <<runVars, claim, exceptions>>

(* Workers are done, give up or are stopped. *)
Leave ==
  /\ \A w \in Workers : stage'[w] \in {stage[w], "none"}
  /\ claim' = [w \in Workers |-> IF stage'[w] = "none" THEN None ELSE claim[w]]
  /\ UNCHANGED <<runVars, exceptions>>

Delete(R) ==
  /\ \A r \in R : Exists(r)
  /\ status' = [r \in Runs |-> IF r \in R THEN "gone" ELSE status[r]]
  /\ results' = [r \in Runs |-> IF r \in R THEN FALSE ELSE results[r]]
  /\ UNCHANGED <<org, claim, stage, exceptions>>

Overrun(w) ==
  /\ stage[w] # "none"
  /\ overran' = overran \cup {claim[w]}
  /\ UNCHANGED <<runVars, claim, stage, unseen>>

(* The organisation's book is lost, with those it has admitted. *)
Lapse(o) ==
  /\ \E n \in Cardinality(Admitted(o))..Cardinality(Workers) :
       unseen' = [unseen EXCEPT ![o] = n]
  /\ UNCHANGED <<runVars, claim, stage, overran>>

Next ==
  \/ Leave
  \/ \E r \in Runs, o \in Orgs : Request(r, o)
  \/ \E w \in Workers :
       \/ Admit(w) \/ Start(w) \/ Deliver(w) \/ Complete(w) \/ Stumble(w) \/ Fail(w)
       \/ Withdraw(w) \/ Overrun(w) \/ \E r \in Runs : Take(w, r)
  \/ \E R \in SUBSET Runs : Delete(R)
  \/ \E o \in Orgs : Lapse(o)

Spec == Init /\ [][Next]_vars
=============================================================================
