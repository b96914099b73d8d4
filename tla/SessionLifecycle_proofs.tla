------------------------ MODULE SessionLifecycle_proofs ------------------------
(***************************************************************************)
(* What the commands on a session preserve, for any commands, members and  *)
(* numbers of iterations: one open iteration per member, settlements that  *)
(* give back no more than was taken, assessments of closed iterations.     *)
(* ConversationTurns_proofs adds the streams.                              *)
(***************************************************************************)
EXTENDS SessionLifecycle, TLAPS

Gone == row.status = "deleted"
(* Iteration n of u is closed for good; 0 stands for none.                   *)
Closed(u, n) == n = 0 \/ iter[u][n] = "completed" \/ Gone

(* The commands that still use the iteration they read. *)
UsesIteration(c) ==
  \/ pc[c] \in {"count", "complete", "assess"}
  \/ Op(c) \in {"restart", "replay"} /\ pc[c] \in {"ask", "gate", "iterate", "save", "place"}

(* Which operation is where, and what it has read by then.                   *)
CommandInv ==
  \A c \in Commands :
    /\ pc[c] \in {"count", "complete"} => Op(c) \in {"end", "restart"} \cup Admin
    /\ pc[c] \in {"latest", "assess"} => Op(c) \in {"end", "restart", "recompute"} \cup Admin
    /\ pc[c] \in {"ask", "gate"} => Op(c) \in {"create", "restart"}
    /\ pc[c] \in {"iterate", "place"} => Op(c) \in {"restart", "replay"}
    /\ pc[c] = "insert" => Op(c) = "create"
    /\ pc[c] = "save" => Op(c) # "create"
    /\ UsesIteration(c) => seen[c] \in Iteration
    /\ UsesIteration(c) /\ (pc[c] \in {"complete", "assess"} \/ seen[c].open \/ seen[c].turns)
         => seen[c].n \in Numbers
    /\ Op(c) \in {"restart", "replay"} /\ pc[c] \in {"save", "place"} => seen[c].n + 1 \in Numbers

(* Before the session is created only its create command is under way, and   *)
(* that is over once it is created.                                         *)
FreshInv ==
  /\ \A c, d \in Commands : Op(c) = "create" /\ Op(d) = "create" /\ pc[c] # "off" /\ pc[d] # "off" => c = d
  /\ \A c \in Commands : Op(c) = "create" /\ pc[c] \in {"ask", "gate", "insert"} => row.status = "none"
  /\ row.status = "none" =>
       /\ assessed = {} /\ row.res = None
       /\ \A c \in Commands : Op(c) # "create" => pc[c] \in {"off", "idle"}

(* All iterations before one that exists are completed.                      *)
IterationInv ==
  /\ ~Exists => \A u \in Users, n \in Numbers : iter[u][n] = "none"
  /\ \A u \in Users, m, n \in Numbers : m < n /\ iter[u][n] # "none" => iter[u][m] = "completed"
  /\ \A t \in turns : t.iter \in Numbers

(* A command past the closing of an iteration, and an assessment requested   *)
(* by one that closes it, know it closed.                                   *)
ClosedInv ==
  /\ \A c \in Commands :
       \/ pc[c] = "assess" /\ Op(c) # "recompute"
       \/ pc[c] = "count" /\ (Op(c) # "end" \/ ~seen[c].open)
       \/ Op(c) \in {"restart", "replay"} /\ pc[c] \in {"ask", "gate", "iterate"}
       => Closed(Owner, seen[c].n)
  /\ \A a \in assessed : Op(a.by) # "recompute" => Closed(Owner, a.n)

(* The coins behind a reservation id and an estimate kept beside it, which   *)
(* may be that of a restart whose request was delivered twice.              *)
Took(c) == reply[c] # None /\ held[c] # None
Backed(res, est) == Took(res) /\ \E c \in {res} \cup RepeatedRestarts : Took(c) /\ est <= held[c]

(* An answer of the gate; the steps that use one have it.                    *)
ReplyInv ==
  /\ \A c \in Commands : reply[c] # None =>
       /\ reply[c].res \in {None, c}
       /\ reply[c].res = c => held[c] # None /\ held[c] = reply[c].est
       /\ reply[c].res = None /\ reply[c].est # 0 =>
            c \in Repeats /\ held[c] # None /\ held[c] = reply[c].est
  /\ \A c \in Commands : pc[c] = "insert" \/ (Op(c) = "restart" /\ pc[c] \in {"iterate", "save"})
       => reply[c] # None

(* The row, a command about to settle, and the settlements sent.             *)
CoinInv ==
  /\ row.res # None => Backed(row.res, row.est)
  /\ \A c \in Commands : pc[c] = "settle" =>
       seen[c] \in [res : Commands, est : Nat] /\ Backed(seen[c].res, seen[c].est)
  /\ \A a \in adjusts : Backed(a.res, -a.delta)

SessionInv ==
  /\ SessionTypeOK /\ CommandInv /\ FreshInv /\ IterationInv /\ ClosedInv /\ ReplyInv /\ CoinInv

(* What every step of commands and streams does to the rows of the session:  *)
(* completed iterations and turns stay, and a deleted session stays deleted. *)
RowsAge ==
  /\ Gone => Gone'
  /\ row.status # "none" => row'.status # "none"
  /\ \A u \in Users, n \in Numbers : iter[u][n] = "completed" => iter'[u][n] = "completed" \/ Gone'
  /\ turns \subseteq turns' \/ Gone'

USE SessionAssumption
USE DEF Goto, Op, Operations, Admin, Numbers

(* The invariant holds of every workload when it starts.                     *)
LEMMA InitSessionInv == ASSUME NEW w \in Workloads, InitSession(w) PROVE SessionInv
<1> USE DEF InitSession
<1>1. SessionTypeOK
  BY DEF SessionTypeOK, Places
<1>2. CommandInv
  BY DEF CommandInv, UsesIteration
<1>3. FreshInv
  BY DEF FreshInv
<1>4. IterationInv
  BY DEF IterationInv, Exists
<1>5. ClosedInv /\ ReplyInv /\ CoinInv
  BY DEF ClosedInv, ReplyInv, CoinInv
<1> QED BY <1>1, <1>2, <1>3, <1>4, <1>5 DEF SessionInv

(* The invariant says what the runs check. *)
LEMMA SessionInvImplies ==
  ASSUME SessionInv PROVE OneActiveIteration /\ SettlesWhatItHeld /\ AssessedIsClosed
<1>1. OneActiveIteration
  <2> SUFFICES ASSUME NEW u \in Users, NEW n \in Numbers, iter[u][n] = "active", NEW m \in Numbers \ {n}
               PROVE  iter[u][m] # "active" /\ (m > n => iter[u][m] = "none")
    BY DEF OneActiveIteration
  <2>1. CASE m < n BY <2>1 DEF SessionInv, IterationInv
  <2>2. CASE m > n BY <2>2 DEF SessionInv, IterationInv
  <2> QED BY <2>1, <2>2
<1>2. SettlesWhatItHeld
  <2> SUFFICES ASSUME NEW a \in adjusts
               PROVE  /\ held[a.res] # None
                      /\ \E c \in {a.res} \cup RepeatedRestarts : held[c] # None /\ a.delta >= -held[c]
    BY DEF SettlesWhatItHeld
  <2>1. a.delta \in Int /\ a.res \in Commands
    BY DEF SessionInv, SessionTypeOK
  <2>2. PICK c \in {a.res} \cup RepeatedRestarts : held[c] # None /\ -a.delta <= held[c]
    BY DEF SessionInv, CoinInv, Backed, Took
  <2>3. c \in Commands
    BY <2>1 DEF RepeatedRestarts
  <2>4. held[c] \in Nat
    BY <2>2, <2>3 DEF SessionInv, SessionTypeOK
  <2>5. held[a.res] # None
    BY DEF SessionInv, CoinInv, Backed, Took
  <2>6. a.delta >= -held[c]
    BY <2>1, <2>2, <2>4
  <2> QED BY <2>2, <2>5, <2>6
<1>3. AssessedIsClosed
  BY DEF SessionInv, SessionTypeOK, ClosedInv, IterationInv, Closed, Gone, Exists, AssessedIsClosed
<1> QED BY <1>1, <1>2, <1>3

(* No step of a command breaks the invariant. *)
LEMMA CommandKeeps ==
  ASSUME NEW c \in Commands, SessionInv, CommandStep(c) PROVE SessionInv' /\ RowsAge
<1> USE DEF SessionInv, postgres, caches, coins, gate
<1>1. CASE StartCommand(c)
  <2>1. SessionTypeOK'
    BY <1>1 DEF StartCommand, Exists, SessionTypeOK, Places, CommandInv, UsesIteration,
                Iteration, Reservation
  <2>2. CommandInv'
    BY <1>1 DEF StartCommand, Exists, SessionTypeOK, CommandInv, UsesIteration, Iteration,
                IterationInv
  <2>3. FreshInv' /\ IterationInv' /\ ClosedInv'
    BY <1>1 DEF StartCommand, Exists, SessionTypeOK, CommandInv, FreshInv, UsesIteration,
                Iteration, IterationInv, ClosedInv, Closed, Gone
  <2>4. ReplyInv' /\ CoinInv' /\ RowsAge
    BY <1>1 DEF StartCommand, Exists, SessionTypeOK, CommandInv, ReplyInv, FreshInv, CoinInv,
                Backed, Took, RowsAge, Gone
  <2> QED BY <2>1, <2>2, <2>3, <2>4
<1>2. CASE ReadLatest(c)
  <2>1. PICK n \in {0} \cup Numbers :
          /\ IsLatest(Owner, n)
          /\ seen' = [seen EXCEPT ![c] = [n |-> n, open |-> StatusOf(Owner, n) = "active", turns |-> FALSE]]
          /\ pc' = [pc EXCEPT ![c] = IF Op(c) = "recompute" THEN IF n = 0 THEN "failed" ELSE "assess"
                                    ELSE IF Op(c) = "end" THEN "count"
                                    ELSE IF StatusOf(Owner, n) = "active" THEN "complete" ELSE AfterClose(c)]
    BY <1>2 DEF ReadLatest
  <2>2. /\ pc[c] = "latest" /\ Op(c) \in {"end", "restart", "recompute", "forceEnd", "replay"}
        /\ UNCHANGED <<postgres, caches, coins, assessed, gate>>
    BY <1>2 DEF ReadLatest, CommandInv
  <2>3. /\ (StatusOf(Owner, n) = "active") \in BOOLEAN
        /\ StatusOf(Owner, n) = "active" => n \in Numbers
        /\ StatusOf(Owner, n) # "active" => Closed(Owner, n)
    BY <2>1 DEF IsLatest, StatusOf, Closed, SessionTypeOK
  <2>4. /\ seen'[c] \in Iteration /\ seen'[c].n = n /\ ~seen'[c].turns
        /\ seen'[c].open <=> StatusOf(Owner, n) = "active"
    <3>1. seen'[c] = [n |-> n, open |-> StatusOf(Owner, n) = "active", turns |-> FALSE]
      BY <2>1 DEF SessionTypeOK
    <3>2. [n |-> n, open |-> StatusOf(Owner, n) = "active", turns |-> FALSE] \in Iteration
      BY <2>3 DEF Iteration
    <3>3. seen'[c].n = n /\ ~seen'[c].turns
      BY <3>1
    <3>4. seen'[c].open = (StatusOf(Owner, n) = "active")
      BY <3>1
    <3> QED BY <3>1, <3>2, <3>3, <3>4
  <2>9. SessionTypeOK'
    BY <2>1, <2>2, <2>3 DEF AfterClose, SessionTypeOK, Iteration
  <2>5. CommandInv'
    <3>1. seen'[c].open => n \in Numbers
      BY <2>3, <2>4
    <3>2. pc'[c] \in {"count", "complete", "ask", "iterate", "save", "assess", "failed"}
      BY <2>1, <2>2 DEF AfterClose, SessionTypeOK
    <3>3. /\ pc'[c] \in {"complete", "assess"} => n \in Numbers
          /\ pc'[c] = "assess" => Op(c) = "recompute"
          /\ pc'[c] \in {"count", "complete"} => Op(c) # "recompute"
          /\ pc'[c] = "ask" => Op(c) = "restart"
          /\ pc'[c] = "iterate" => Op(c) = "replay"
          /\ pc'[c] = "save" => Op(c) \in {"end", "forceEnd"}
      BY <2>1, <2>2, <2>3 DEF AfterClose, SessionTypeOK
    <3>4. \A d \in Commands : d # c => pc'[d] = pc[d] /\ seen'[d] = seen[d]
      BY <2>1 DEF SessionTypeOK
    <3> QED BY <2>2, <2>4, <3>1, <3>2, <3>3, <3>4 DEF CommandInv, UsesIteration
  <2>6. FreshInv' /\ IterationInv' /\ ReplyInv' /\ CoinInv'
    BY <2>1, <2>2 DEF AfterClose, SessionTypeOK, CommandInv, FreshInv, IterationInv, ReplyInv, CoinInv, Backed, Took, Exists
  <2>7. ClosedInv'
    <3>1. seen'[c].n = n /\ (seen'[c].open <=> StatusOf(Owner, n) = "active")
      BY <2>4
    <3>2. \/ pc'[c] = "count" /\ Op(c) = "end"
          \/ pc'[c] = "complete"
          \/ Op(c) = "recompute" \/ StatusOf(Owner, n) # "active"
      BY <2>1, <2>2 DEF AfterClose, SessionTypeOK
    <3>3. \A d \in Commands : d # c => pc'[d] = pc[d] /\ seen'[d] = seen[d]
      BY <2>1 DEF SessionTypeOK
    <3>4. /\ pc'[c] = "assess" => Op(c) = "recompute"
          /\ Op(c) = "recompute" => pc'[c] \in {"assess", "failed"}
      BY <2>1, <2>2 DEF AfterClose, SessionTypeOK
    <3>5. \A u \in Users, m \in {0} \cup Numbers : Closed(u, m)' = Closed(u, m)
      BY <2>2 DEF Closed, Gone
    <3>6. \/ pc'[c] = "assess" /\ Op(c) # "recompute"
          \/ pc'[c] = "count" /\ (Op(c) # "end" \/ ~seen'[c].open)
          \/ Op(c) \in {"restart", "replay"} /\ pc'[c] \in {"ask", "gate", "iterate"}
          => Closed(Owner, n)
      BY <2>3, <3>1, <3>2, <3>4
    <3> QED BY <2>2, <3>1, <3>3, <3>6 DEF ClosedInv, Closed, Gone
  <2>8. RowsAge
    BY <2>2 DEF RowsAge, Gone
  <2> QED BY <2>9, <2>5, <2>6, <2>7, <2>8
<1>3. CASE CountTurns(c)
  <2>1. /\ pc[c] = "count" /\ seen[c] \in Iteration /\ Op(c) \in {"end", "restart", "forceEnd", "replay"}
        /\ seen[c].open => seen[c].n \in Numbers
        /\ UNCHANGED <<postgres, caches, coins, assessed, gate>>
    BY <1>3 DEF CountTurns, CommandInv, UsesIteration
  <2>2. PICK some \in BOOLEAN :
          /\ some => seen[c].n \in Numbers
          /\ seen' = [seen EXCEPT ![c].turns = some]
          /\ pc' = [pc EXCEPT ![c] = IF Op(c) = "end" /\ seen[c].open THEN "complete"
                                    ELSE IF some THEN "assess" ELSE AfterClose(c)]
    BY <1>3 DEF CountTurns, IterationInv
  <2>3. /\ seen'[c] = [n |-> seen[c].n, open |-> seen[c].open, turns |-> some]
        /\ \A d \in Commands : d # c => pc'[d] = pc[d] /\ seen'[d] = seen[d]
    BY <2>1, <2>2 DEF SessionTypeOK, Iteration
  <2>4. SessionTypeOK'
    <3>1. seen' = [seen EXCEPT ![c] = [n |-> seen[c].n, open |-> seen[c].open, turns |-> some]]
      <4>1. [seen[c] EXCEPT !.turns = some] = [n |-> seen[c].n, open |-> seen[c].open, turns |-> some]
        BY <2>1 DEF Iteration
      <4> QED BY <2>2, <4>1
    <3> QED BY <2>1, <2>2, <3>1 DEF SessionTypeOK, AfterClose, Iteration
  <2>5. CommandInv'
    <3>1. seen'[c] \in Iteration /\ seen'[c].n = seen[c].n /\ (seen'[c].open \/ seen'[c].turns => seen[c].n \in Numbers)
      BY <2>1, <2>2, <2>3 DEF Iteration
    <3>2. /\ pc'[c] \in {"complete", "assess", "ask", "iterate", "save"}
          /\ pc'[c] \in {"complete", "assess"} => seen[c].n \in Numbers
          /\ pc'[c] = "ask" => Op(c) = "restart"
          /\ pc'[c] = "iterate" => Op(c) = "replay"
          /\ pc'[c] = "save" => Op(c) \in {"end", "forceEnd"}
      BY <2>1, <2>2 DEF AfterClose, SessionTypeOK
    <3> QED BY <2>1, <2>3, <3>1, <3>2 DEF CommandInv, UsesIteration
  <2>6. FreshInv' /\ IterationInv' /\ ReplyInv' /\ CoinInv'
    BY <2>1, <2>2, <2>3 DEF AfterClose, SessionTypeOK, CommandInv, FreshInv, IterationInv, ReplyInv, CoinInv, Backed, Took, Exists
  <2>7. ClosedInv'
    <3>1. pc'[c] = "complete" \/ Closed(Owner, seen[c].n)
      BY <2>1, <2>2 DEF ClosedInv, SessionTypeOK
    <3>2. pc'[c] # "count"
      BY <2>1, <2>2 DEF AfterClose, SessionTypeOK
    <3> QED BY <2>1, <2>3, <3>1, <3>2 DEF ClosedInv, Closed, Gone
  <2>8. RowsAge
    BY <2>1 DEF RowsAge, Gone
  <2> QED BY <2>4, <2>5, <2>6, <2>7, <2>8
<1>4. CASE CompleteIteration(c)
  <2>1. SessionTypeOK'
    BY <1>4 DEF CompleteIteration, SessionTypeOK, Places, CommandInv, UsesIteration, Iteration,
                Reservation
  <2>2. CommandInv'
    BY <1>4 DEF CompleteIteration, SessionTypeOK, CommandInv, UsesIteration, Iteration,
                IterationInv
  <2>3. FreshInv' /\ IterationInv' /\ ClosedInv'
    BY <1>4 DEF CompleteIteration, SessionTypeOK, CommandInv, FreshInv, UsesIteration,
                Iteration, IterationInv, ClosedInv, Closed, Gone, Exists
  <2>4. ReplyInv' /\ CoinInv' /\ RowsAge
    BY <1>4 DEF CompleteIteration, SessionTypeOK, CommandInv, ReplyInv, FreshInv, CoinInv,
                Backed, Took, RowsAge, Gone
  <2> QED BY <2>1, <2>2, <2>3, <2>4
<1>5. CASE RequestAssessment(c)
  <2>1. SessionTypeOK'
    BY <1>5 DEF RequestAssessment, AfterClose, SessionTypeOK, Places, CommandInv, UsesIteration,
                Iteration, Reservation
  <2>2. CommandInv'
    BY <1>5 DEF RequestAssessment, AfterClose, SessionTypeOK, CommandInv, UsesIteration,
                Iteration, IterationInv
  <2>3. FreshInv' /\ IterationInv' /\ ClosedInv'
    BY <1>5 DEF RequestAssessment, AfterClose, SessionTypeOK, CommandInv, FreshInv,
                UsesIteration, Iteration, IterationInv, ClosedInv, Closed, Gone, Exists
  <2>4. ReplyInv' /\ CoinInv' /\ RowsAge
    BY <1>5 DEF RequestAssessment, AfterClose, SessionTypeOK, CommandInv, ReplyInv, FreshInv,
                CoinInv, Backed, Took, RowsAge, Gone
  <2> QED BY <2>1, <2>2, <2>3, <2>4
<1>6. CASE AssessmentFails(c)
  <2>1. SessionTypeOK'
    BY <1>6 DEF AssessmentFails, AfterClose, SessionTypeOK, Places, CommandInv, UsesIteration,
                Iteration, Reservation
  <2>2. CommandInv'
    BY <1>6 DEF AssessmentFails, AfterClose, SessionTypeOK, CommandInv, UsesIteration,
                Iteration, IterationInv
  <2>3. FreshInv' /\ IterationInv' /\ ClosedInv'
    BY <1>6 DEF AssessmentFails, AfterClose, SessionTypeOK, CommandInv, FreshInv, UsesIteration,
                Iteration, IterationInv, ClosedInv, Closed, Gone, Exists
  <2>4. ReplyInv' /\ CoinInv' /\ RowsAge
    BY <1>6 DEF AssessmentFails, AfterClose, SessionTypeOK, CommandInv, ReplyInv, FreshInv,
                CoinInv, Backed, Took, RowsAge, Gone
  <2> QED BY <2>1, <2>2, <2>3, <2>4
<1>7. CASE AskGate(c)
  <2>1. SessionTypeOK'
    BY <1>7 DEF AskGate, SessionTypeOK, Places, CommandInv, UsesIteration, Iteration,
                Reservation
  <2>2. CommandInv'
    BY <1>7 DEF AskGate, SessionTypeOK, CommandInv, UsesIteration, Iteration, IterationInv
  <2>3. FreshInv' /\ IterationInv' /\ ClosedInv'
    BY <1>7 DEF AskGate, SessionTypeOK, CommandInv, FreshInv, UsesIteration, Iteration,
                IterationInv, ClosedInv, Closed, Gone, Exists
  <2>4. ReplyInv' /\ CoinInv' /\ RowsAge
    BY <1>7 DEF AskGate, SessionTypeOK, CommandInv, ReplyInv, FreshInv, CoinInv, Backed, Took,
                RowsAge, Gone
  <2> QED BY <2>1, <2>2, <2>3, <2>4
<1>8. CASE GateAnswers(c)
  <2>1. /\ reply[c] = None
        /\ UNCHANGED <<postgres, caches, adjusts, assessed, pc, seen, asked>>
    BY <1>8 DEF GateAnswers
  <2>2. PICK approved \in BOOLEAN, res \in {c, None}, est \in Nat :
          /\ reply' = [reply EXCEPT ![c] = [approved |-> approved, res |-> res, est |-> est]]
          /\ held' = held \/ (est \in Costs /\ held' = [held EXCEPT ![c] = est])
          /\ res = c => est \in Costs /\ held' = [held EXCEPT ![c] = est]
          /\ res = None /\ est # 0 => c \in Repeats /\ est \in Costs /\ held' = [held EXCEPT ![c] = est]
    <3>1. CASE \E cost \in Costs, res \in IF c \in Repeats THEN {c, None} ELSE {c} :
                 /\ held' = [held EXCEPT ![c] = cost]
                 /\ reply' = [reply EXCEPT ![c] = Reply(TRUE, res, cost)]
      BY <3>1 DEF Reply
    <3>2. CASE reply' = [reply EXCEPT ![c] = Reply(TRUE, None, 0)] /\ UNCHANGED held
      <4> WITNESS TRUE \in BOOLEAN, None \in {c, None}, 0 \in Nat
      <4> QED BY <3>2 DEF Reply
    <3>3. CASE reply' = [reply EXCEPT ![c] = Reply(FALSE, None, 0)] /\ UNCHANGED held
      <4> WITNESS FALSE \in BOOLEAN, None \in {c, None}, 0 \in Nat
      <4> QED BY <3>3 DEF Reply
    <3> QED BY <1>8, <3>1, <3>2, <3>3 DEF GateAnswers
  <2>3. SessionTypeOK'
    <3>1. held' \in [Commands -> Costs \cup {None}]
      BY <2>2 DEF SessionTypeOK
    <3>2. reply' \in [Commands -> {None} \cup [approved : BOOLEAN, res : Commands \cup {None}, est : Nat]]
      BY <2>2 DEF SessionTypeOK
    <3> QED BY <2>1, <3>1, <3>2 DEF SessionTypeOK
  <2>4. CommandInv' /\ FreshInv' /\ IterationInv' /\ ClosedInv'
    BY <2>1 DEF CommandInv, UsesIteration, FreshInv, IterationInv, ClosedInv, Closed, Gone, Exists
  <2>5. ReplyInv' /\ CoinInv'
    <3>1. /\ reply'[c] = [approved |-> approved, res |-> res, est |-> est]
          /\ res = c \/ (res = None /\ est # 0) => held'[c] # None /\ held'[c] = est
          /\ \A d \in Commands : d # c => reply'[d] = reply[d] /\ held'[d] = held[d]
      BY <2>2 DEF SessionTypeOK
    <3>2. \A r \in Commands : Took(r) => reply'[r] # None /\ held'[r] = held[r]
      BY <2>1, <3>1 DEF Took
    <3>6. \A r \in Commands, e \in Int : Backed(r, e) =>
            /\ reply'[r] # None /\ held'[r] # None
            /\ \E d \in {r} \cup RepeatedRestarts : reply'[d] # None /\ held'[d] # None /\ e <= held'[d]
      BY <3>2 DEF Backed, Took, RepeatedRestarts
    <3>3. \A d \in Commands : reply'[d] # None =>
            /\ reply'[d].res \in {None, d}
            /\ reply'[d].res = d => held'[d] # None /\ held'[d] = reply'[d].est
            /\ reply'[d].res = None /\ reply'[d].est # 0 =>
                 d \in Repeats /\ held'[d] # None /\ held'[d] = reply'[d].est
      BY <2>2, <3>1 DEF ReplyInv
    <3>4. \A d \in Commands : pc'[d] = "insert" \/ (Op(d) = "restart" /\ pc'[d] \in {"iterate", "save"})
            => reply'[d] # None
      BY <2>1, <3>1 DEF ReplyInv
    <3>5. /\ row'.res # None => row'.res \in Commands /\ row'.est \in Int /\ Backed(row'.res, row'.est)
          /\ \A a \in adjusts' : a.res \in Commands /\ -a.delta \in Int /\ Backed(a.res, -a.delta)
          /\ \A d \in Commands : pc'[d] = "settle" =>
               seen'[d] \in [res : Commands, est : Nat] /\ Backed(seen'[d].res, seen'[d].est)
      BY <2>1 DEF CoinInv, SessionTypeOK
    <3> QED BY <3>3, <3>4, <3>5, <3>6 DEF ReplyInv, CoinInv, Backed, Took
  <2>6. RowsAge
    BY <2>1 DEF RowsAge, Gone
  <2> QED BY <2>3, <2>4, <2>5, <2>6
<1>9. CASE ReceiveAnswer(c)
  <2>1. SessionTypeOK'
    BY <1>9 DEF ReceiveAnswer, SessionTypeOK, Places, CommandInv, UsesIteration, Iteration,
                Reservation
  <2>2. CommandInv'
    BY <1>9 DEF ReceiveAnswer, SessionTypeOK, CommandInv, UsesIteration, Iteration, IterationInv
  <2>3. FreshInv' /\ IterationInv' /\ ClosedInv'
    BY <1>9 DEF ReceiveAnswer, SessionTypeOK, CommandInv, FreshInv, UsesIteration, Iteration,
                IterationInv, ClosedInv, Closed, Gone, Exists
  <2>4. ReplyInv' /\ CoinInv' /\ RowsAge
    BY <1>9 DEF ReceiveAnswer, SessionTypeOK, CommandInv, ReplyInv, FreshInv, CoinInv, Backed, Took,
                RowsAge, Gone
  <2> QED BY <2>1, <2>2, <2>3, <2>4
<1>10. CASE InsertSession(c)
  <2>1. /\ pc[c] = "insert" /\ Op(c) = "create" /\ row.status = "none"
        /\ reply[c] \in [approved : BOOLEAN, res : Commands \cup {None}, est : Nat]
        /\ reply[c].res \in {c, None}
        /\ reply[c].res = c => Backed(c, reply[c].est)
        /\ row' = [status |-> "active", res |-> reply[c].res, est |-> reply[c].est]
        /\ pc' = [pc EXCEPT ![c] = "invalidate"]
        /\ UNCHANGED <<iter, turns, caches, coins, assessed, seen, gate>>
    <3>1. pc[c] = "insert" /\ Op(c) = "create" /\ row.status = "none" /\ reply[c] # None
      <4>1. pc[c] = "insert" BY <1>10 DEF InsertSession
      <4>2. Op(c) = "create" BY <4>1 DEF CommandInv
      <4>3. row.status = "none" BY <4>1, <4>2 DEF FreshInv
      <4>4. reply[c] # None BY <4>1 DEF ReplyInv
      <4> QED BY <4>1, <4>2, <4>3, <4>4
    <3>2. reply[c].res \in {c, None} /\ (reply[c].res = c => held[c] # None /\ held[c] = reply[c].est)
      BY <3>1 DEF ReplyInv
    <3>3. reply[c] \in [approved : BOOLEAN, res : Commands \cup {None}, est : Nat]
      BY <3>1 DEF SessionTypeOK
    <3>4. reply[c].res = c => Backed(c, reply[c].est)
      BY <3>1, <3>2, <3>3 DEF Backed, Took
    <3> QED BY <1>10, <3>1, <3>2, <3>3, <3>4 DEF InsertSession
  <2>2. SessionTypeOK'
    BY <2>1 DEF SessionTypeOK
  <2>3. CommandInv'
    BY <2>1 DEF SessionTypeOK, CommandInv, UsesIteration
  <2>4. FreshInv'
    <3>1. row'.status = "active"
      BY <2>1
    <3>2. \A d \in Commands : pc'[d] = IF d = c THEN "invalidate" ELSE pc[d]
      BY <2>1 DEF SessionTypeOK
    <3>3. \A d \in Commands : Op(d) = "create" /\ pc[d] # "off" => d = c
      BY <2>1 DEF FreshInv
    <3> QED BY <3>1, <3>2, <3>3 DEF FreshInv
  <2>5. IterationInv' /\ ClosedInv'
    BY <2>1 DEF SessionTypeOK, FreshInv, IterationInv, ClosedInv, Closed, Gone, Exists
  <2>6. ReplyInv' /\ CoinInv'
    <3>1. row'.res # None => Backed(row'.res, row'.est)
      BY <2>1
    <3> QED BY <2>1, <3>1 DEF SessionTypeOK, ReplyInv, CoinInv, Backed, Took
  <2>7. RowsAge
    BY <2>1 DEF RowsAge, Gone
  <2> QED BY <2>2, <2>3, <2>4, <2>5, <2>6, <2>7
<1>11. CASE StartIteration(c)
  <2> DEFINE n == seen[c].n + 1
  <2>1. /\ pc[c] = "iterate" /\ n \in Numbers /\ seen[c].n \in {0} \cup Numbers
        /\ Op(c) \in {"restart", "replay"} /\ Closed(Owner, seen[c].n)
        /\ UNCHANGED <<row, turns, caches, coins, assessed, seen, gate>>
    BY <1>11 DEF StartIteration, CommandInv, UsesIteration, Iteration, ClosedInv
  <2>2. row.status # "none"
    BY <2>1 DEF FreshInv
  <2>3. CASE Exists /\ iter[Owner][n] = "none" /\ Goto(c, "save")
             /\ iter' = [iter EXCEPT ![Owner][n] = "active"]
    <3> HIDE DEF n
    <3>1. /\ iter' \in [Users -> [Numbers -> {"none", "active", "completed"}]]
          /\ iter'[Owner][n] = "active"
          /\ \A u \in Users, m \in Numbers : <<u, m>> # <<Owner, n>> => iter'[u][m] = iter[u][m]
      BY <2>1, <2>3 DEF SessionTypeOK
    <3>2. SessionTypeOK'
      BY <2>1, <2>3, <3>1 DEF SessionTypeOK
    <3>3. CommandInv'
      BY <2>1, <2>3 DEF SessionTypeOK, CommandInv, UsesIteration, n
    <3>4. FreshInv'
      BY <2>1, <2>3, <2>2 DEF SessionTypeOK, FreshInv
    <3>5. \A m \in Numbers : m < n => iter[Owner][m] = "completed"
      BY <2>1, <2>3 DEF Closed, Gone, Exists, IterationInv, n
    <3>6. \A m \in Numbers : n < m => iter[Owner][m] = "none"
      BY <2>1, <2>3 DEF IterationInv
    <3>7. IterationInv'
      BY <2>1, <2>3, <3>1, <3>5, <3>6 DEF IterationInv, Exists
    <3>8. ClosedInv'
      BY <2>1, <2>3, <3>1 DEF SessionTypeOK, CommandInv, UsesIteration, Iteration, ClosedInv, Closed, Gone
    <3>9. ReplyInv' /\ CoinInv' /\ RowsAge
      BY <2>1, <2>3, <3>1 DEF SessionTypeOK, ReplyInv, CoinInv, Backed, Took, RowsAge, Gone
    <3> QED BY <3>2, <3>3, <3>4, <3>7, <3>8, <3>9
  <2>4. CASE Goto(c, "failed") /\ UNCHANGED iter
    <3>1. SessionTypeOK' /\ CommandInv' /\ FreshInv'
      BY <2>1, <2>2, <2>4 DEF SessionTypeOK, CommandInv, UsesIteration, FreshInv
    <3>2. IterationInv' /\ ClosedInv' /\ ReplyInv' /\ CoinInv' /\ RowsAge
      BY <2>1, <2>4 DEF SessionTypeOK, IterationInv, ClosedInv, Closed, Gone, ReplyInv, CoinInv, Backed, Took, RowsAge, Exists
    <3> QED BY <3>1, <3>2
  <2> QED BY <1>11, <2>3, <2>4 DEF StartIteration
<1>12. CASE SaveSession(c)
  <2>1. /\ pc[c] = "save" /\ Op(c) # "create"
        /\ UNCHANGED <<iter, turns, caches, coins, assessed, gate>>
    BY <1>12 DEF SaveSession, CommandInv
  <2>2. CASE ~Exists
    <3>1. Goto(c, "failed") /\ UNCHANGED <<row, seen>>
      BY <1>12, <2>2 DEF SaveSession
    <3>2. SessionTypeOK' /\ CommandInv' /\ FreshInv'
      BY <2>1, <3>1 DEF SessionTypeOK, CommandInv, UsesIteration, FreshInv
    <3>3. IterationInv' /\ ClosedInv' /\ ReplyInv' /\ CoinInv' /\ RowsAge
      BY <2>1, <3>1 DEF SessionTypeOK, IterationInv, ClosedInv, Closed, Gone, ReplyInv, CoinInv, Backed, Took, RowsAge, Exists
    <3> QED BY <3>2, <3>3
  <2>3. CASE Exists
    <3>1. PICK status \in {"active", "ended"} :
            /\ row' = NewRow(c, status)
            /\ seen' = IF Op(c) # "end" THEN seen
                       ELSE [seen EXCEPT ![c] = [res |-> row.res, est |-> row.est]]
            /\ Goto(c, IF Op(c) = "end" /\ row.res # None THEN "settle"
                       ELSE IF Op(c) \in {"restart", "replay"} THEN "place" ELSE "invalidate")
      BY <1>12, <2>3 DEF SaveSession, NewStatuses
    <3>2. PICK to \in {"settle", "place", "invalidate"} :
            /\ pc' = [pc EXCEPT ![c] = to]
            /\ to = "settle" => Op(c) = "end" /\ row.res # None
            /\ to = "place" => Op(c) \in {"restart", "replay"}
      BY <3>1
    <3>3. PICK res \in Commands \cup {None}, est \in Nat :
            row' = [status |-> status, res |-> res, est |-> est] /\ (res # None => Backed(res, est))
      <4>1. CASE Op(c) # "restart"
        <5>1. row' = [status |-> status, res |-> row.res, est |-> row.est]
          BY <3>1, <4>1 DEF NewRow, SessionTypeOK
        <5> QED BY <5>1 DEF SessionTypeOK, CoinInv
      <4>2. CASE Op(c) = "restart"
        <5>1. /\ reply[c].res \in {None, c} /\ reply[c].est \in Nat /\ reply[c] # None
              /\ reply[c].res = c => held[c] # None /\ held[c] = reply[c].est
              /\ reply[c].res = None /\ reply[c].est # 0 =>
                   c \in RepeatedRestarts /\ held[c] # None /\ held[c] = reply[c].est
          BY <2>1, <4>2 DEF ReplyInv, SessionTypeOK, RepeatedRestarts
        <5>2. row' = [status |-> status, res |-> IF reply[c].res = None THEN row.res ELSE reply[c].res,
                      est |-> reply[c].est]
          BY <3>1, <4>2 DEF NewRow
        <5>3. CASE reply[c].res = None
          <6>1. ASSUME row.res # None PROVE Backed(row.res, reply[c].est)
            <7>1. row.res \in Commands /\ Took(row.res)
              BY <6>1 DEF CoinInv, Backed, Took, SessionTypeOK
            <7>2. held[row.res] \in Nat
              BY <7>1 DEF Took, SessionTypeOK
            <7>3. CASE reply[c].est = 0
              BY <7>1, <7>2, <7>3 DEF Backed, Took
            <7>4. CASE reply[c].est # 0
              BY <5>1, <5>3, <7>1, <7>4 DEF Backed, Took
            <7> QED BY <7>3, <7>4
          <6> QED BY <5>1, <5>2, <5>3, <6>1 DEF SessionTypeOK
        <5>4. CASE reply[c].res = c
          <6>1. Backed(c, reply[c].est)
            BY <5>1, <5>4 DEF Backed, Took
          <6> QED BY <5>1, <5>2, <5>4, <6>1
        <5> QED BY <5>1, <5>3, <5>4
      <4> QED BY <4>1, <4>2
    <3>4. /\ row' \in [status : {"active", "ended"}, res : Commands \cup {None}, est : Nat]
          /\ row'.status = status /\ row'.res = res /\ row'.est = est
      BY <3>3
    <3>5. /\ seen' \in [Commands -> {None} \cup Iteration \cup Reservation]
          /\ \A d \in Commands : d # c => pc'[d] = pc[d] /\ seen'[d] = seen[d]
          /\ pc'[c] = to /\ (to = "place" => seen'[c] = seen[c])
          /\ to = "settle" => seen'[c] = [res |-> row.res, est |-> row.est]
      BY <3>1, <3>2 DEF SessionTypeOK, Reservation
    <3>6. SessionTypeOK'
      BY <2>1, <3>2, <3>4, <3>5 DEF SessionTypeOK
    <3>7. CommandInv'
      BY <2>1, <3>2, <3>5 DEF CommandInv, UsesIteration
    <3>8. FreshInv'
      BY <2>1, <2>3, <3>2, <3>4, <3>5 DEF SessionTypeOK, FreshInv, Exists
    <3>9. IterationInv' /\ ClosedInv' /\ RowsAge
      BY <2>1, <2>3, <3>2, <3>4, <3>5 DEF IterationInv, ClosedInv, Closed, Gone, RowsAge, Exists
    <3>10. ReplyInv' /\ CoinInv'
      <4>1. pc'[c] = "settle" => /\ seen'[c] \in [res : Commands, est : Nat]
                                /\ Backed(seen'[c].res, seen'[c].est)
        BY <3>2, <3>5 DEF CoinInv, SessionTypeOK
      <4> QED BY <2>1, <3>2, <3>3, <3>4, <3>5, <4>1 DEF ReplyInv, CoinInv, Backed, Took
    <3> QED BY <3>6, <3>7, <3>8, <3>9, <3>10
  <2> QED BY <2>2, <2>3
<1>13. CASE EmitAdjust(c)
  <2>1. /\ pc[c] = "settle" /\ pc' = [pc EXCEPT ![c] = "invalidate"]
        /\ seen[c] \in [res : Commands, est : Nat] /\ Backed(seen[c].res, seen[c].est)
        /\ UNCHANGED <<postgres, caches, held, assessed, seen, gate>>
    BY <1>13 DEF EmitAdjust, CoinInv
  <2>2. PICK actual \in Nat :
          adjusts' = adjusts \cup {[by |-> c, res |-> seen[c].res, delta |-> actual - seen[c].est]}
    BY <1>13 DEF EmitAdjust
  <2>3. SessionTypeOK'
    <3>1. [by |-> c, res |-> seen[c].res, delta |-> actual - seen[c].est] \in [by : Commands, res : Commands, delta : Int]
      BY <2>1
    <3> QED BY <2>1, <2>2, <3>1 DEF SessionTypeOK
  <2>4. CommandInv' /\ FreshInv' /\ IterationInv' /\ ClosedInv' /\ ReplyInv'
    BY <2>1 DEF SessionTypeOK, CommandInv, UsesIteration, FreshInv, IterationInv, ClosedInv, Closed, Gone,
                ReplyInv, Exists
  <2>5. CoinInv'
    <3>1. PICK d \in {seen[c].res} \cup RepeatedRestarts : Took(d) /\ seen[c].est <= held[d]
      BY <2>1 DEF Backed
    <3>3. held[d] \in Nat
      <4>1. d \in Commands
        BY <2>1, <3>1 DEF RepeatedRestarts
      <4> QED BY <3>1, <4>1 DEF Took, SessionTypeOK
    <3>4. -(actual - seen[c].est) <= held[d]
      BY <2>1, <3>1, <3>3
    <3>2. Backed(seen[c].res, -(actual - seen[c].est))
      BY <2>1, <3>1, <3>4 DEF Backed
    <3> QED BY <2>1, <2>2, <3>2 DEF SessionTypeOK, CoinInv, Backed, Took
  <2>6. RowsAge
    BY <2>1 DEF RowsAge, Gone
  <2> QED BY <2>3, <2>4, <2>5, <2>6
<1>14. CASE AdjustFails(c)
  <2>1. SessionTypeOK'
    BY <1>14 DEF AdjustFails, SessionTypeOK, Places, CommandInv, UsesIteration, Iteration,
                Reservation
  <2>2. CommandInv'
    BY <1>14 DEF AdjustFails, SessionTypeOK, CommandInv, UsesIteration, Iteration, IterationInv
  <2>3. FreshInv' /\ IterationInv' /\ ClosedInv'
    BY <1>14 DEF AdjustFails, SessionTypeOK, CommandInv, FreshInv, UsesIteration, Iteration,
                IterationInv, ClosedInv, Closed, Gone, Exists
  <2>4. ReplyInv' /\ CoinInv' /\ RowsAge
    BY <1>14 DEF AdjustFails, SessionTypeOK, CommandInv, ReplyInv, FreshInv, CoinInv, Backed, Took,
                RowsAge, Gone
  <2> QED BY <2>1, <2>2, <2>3, <2>4
<1>15. CASE PlaceMember(c)
  <2>1. SessionTypeOK'
    BY <1>15 DEF PlaceMember, SessionTypeOK, Places, CommandInv, UsesIteration, Iteration,
                Reservation
  <2>2. CommandInv'
    BY <1>15 DEF PlaceMember, SessionTypeOK, CommandInv, UsesIteration, Iteration, IterationInv
  <2>3. FreshInv' /\ IterationInv' /\ ClosedInv'
    BY <1>15 DEF PlaceMember, SessionTypeOK, CommandInv, FreshInv, UsesIteration, Iteration,
                IterationInv, ClosedInv, Closed, Gone, Exists
  <2>4. ReplyInv' /\ CoinInv' /\ RowsAge
    BY <1>15 DEF PlaceMember, SessionTypeOK, CommandInv, ReplyInv, FreshInv, CoinInv, Backed, Took,
                RowsAge, Gone
  <2> QED BY <2>1, <2>2, <2>3, <2>4
<1>16. CASE Invalidate(c)
  <2>1. SessionTypeOK'
    BY <1>16 DEF Invalidate, SessionTypeOK, Places, CommandInv, UsesIteration, Iteration,
                Reservation
  <2>2. CommandInv'
    BY <1>16 DEF Invalidate, SessionTypeOK, CommandInv, UsesIteration, Iteration, IterationInv
  <2>3. FreshInv' /\ IterationInv' /\ ClosedInv'
    BY <1>16 DEF Invalidate, SessionTypeOK, CommandInv, FreshInv, UsesIteration, Iteration,
                IterationInv, ClosedInv, Closed, Gone, Exists
  <2>4. ReplyInv' /\ CoinInv' /\ RowsAge
    BY <1>16 DEF Invalidate, SessionTypeOK, CommandInv, ReplyInv, FreshInv, CoinInv, Backed, Took,
                RowsAge, Gone
  <2> QED BY <2>1, <2>2, <2>3, <2>4
<1>17. CASE CacheFails(c)
  <2>1. SessionTypeOK'
    BY <1>17 DEF CacheFails, SessionTypeOK, Places, CommandInv, UsesIteration, Iteration,
                Reservation
  <2>2. CommandInv'
    BY <1>17 DEF CacheFails, SessionTypeOK, CommandInv, UsesIteration, Iteration, IterationInv
  <2>3. FreshInv' /\ IterationInv' /\ ClosedInv'
    BY <1>17 DEF CacheFails, SessionTypeOK, CommandInv, FreshInv, UsesIteration, Iteration,
                IterationInv, ClosedInv, Closed, Gone, Exists
  <2>4. ReplyInv' /\ CoinInv' /\ RowsAge
    BY <1>17 DEF CacheFails, SessionTypeOK, CommandInv, ReplyInv, FreshInv, CoinInv, Backed, Took,
                RowsAge, Gone
  <2> QED BY <2>1, <2>2, <2>3, <2>4
<1>18. CASE DeleteSession(c)
  <2>1. pc[c] = "delete" /\ UNCHANGED <<caches, coins, assessed, seen, gate>>
    BY <1>18 DEF DeleteSession
  <2>2. CASE Exists
    <3>1. /\ row' = [row EXCEPT !.status = "deleted"]
          /\ iter' = [u \in Users |-> [n \in Numbers |-> "none"]] /\ turns' = {}
          /\ pc' = [pc EXCEPT ![c] = "invalidate"]
      BY <1>18, <2>2 DEF DeleteSession
    <3>2. row' = [status |-> "deleted", res |-> row.res, est |-> row.est]
      BY <3>1 DEF SessionTypeOK
    <3>3. SessionTypeOK'
      BY <2>1, <3>1, <3>2 DEF SessionTypeOK
    <3>7. CommandInv'
      BY <2>1, <3>1 DEF SessionTypeOK, CommandInv, UsesIteration
    <3>4. FreshInv'
      BY <2>1, <2>2, <3>1, <3>2 DEF SessionTypeOK, FreshInv, Exists
    <3>5. IterationInv' /\ ClosedInv' /\ ReplyInv' /\ RowsAge
      BY <2>1, <3>1, <3>2 DEF SessionTypeOK, IterationInv, ClosedInv, Closed, Gone, ReplyInv, RowsAge, Exists
    <3>6. CoinInv'
      BY <2>1, <3>1, <3>2 DEF SessionTypeOK, CoinInv, Backed, Took
    <3> QED BY <3>3, <3>4, <3>5, <3>6, <3>7
  <2>3. CASE ~Exists
    <3>1. Goto(c, "failed") /\ UNCHANGED postgres
      BY <1>18, <2>3 DEF DeleteSession
    <3>2. SessionTypeOK' /\ CommandInv' /\ FreshInv'
      BY <2>1, <3>1 DEF SessionTypeOK, CommandInv, UsesIteration, FreshInv
    <3>3. IterationInv' /\ ClosedInv' /\ ReplyInv' /\ CoinInv' /\ RowsAge
      BY <2>1, <3>1 DEF SessionTypeOK, IterationInv, ClosedInv, Closed, Gone, ReplyInv, CoinInv, Backed, Took, RowsAge, Exists
    <3> QED BY <3>2, <3>3
  <2> QED BY <2>2, <2>3
<1>19. CASE CommandFails(c)
  <2>1. SessionTypeOK'
    BY <1>19 DEF CommandFails, SessionTypeOK, Places, CommandInv, UsesIteration, Iteration,
                Reservation
  <2>2. CommandInv'
    BY <1>19 DEF CommandFails, SessionTypeOK, CommandInv, UsesIteration, Iteration, IterationInv
  <2>3. FreshInv' /\ IterationInv' /\ ClosedInv'
    BY <1>19 DEF CommandFails, SessionTypeOK, CommandInv, FreshInv, UsesIteration, Iteration,
                IterationInv, ClosedInv, Closed, Gone, Exists
  <2>4. ReplyInv' /\ CoinInv' /\ RowsAge
    BY <1>19 DEF CommandFails, SessionTypeOK, CommandInv, ReplyInv, FreshInv, CoinInv, Backed, Took,
                RowsAge, Gone
  <2> QED BY <2>1, <2>2, <2>3, <2>4
<1> QED BY <1>1, <1>2, <1>3, <1>4, <1>5, <1>6, <1>7, <1>8, <1>9, <1>10, <1>11, <1>12, <1>13, <1>14, <1>15, <1>16, <1>17, <1>18, <1>19 DEF CommandStep

(* Commands write no turns. *)
LEMMA CommandTurns == ASSUME NEW c \in Commands, CommandStep(c) PROVE turns' \subseteq turns
<1>1. CASE DeleteSession(c)
  BY <1>1 DEF DeleteSession, postgres
<1>2. CASE ~DeleteSession(c)
  BY <1>2 DEF CommandStep, StartCommand, ReadLatest, CountTurns, CompleteIteration, RequestAssessment,
              AssessmentFails, AskGate, GateAnswers, ReceiveAnswer, InsertSession, StartIteration,
              SaveSession, EmitAdjust, AdjustFails, PlaceMember, Invalidate, CacheFails, CommandFails,
              postgres
<1> QED BY <1>1, <1>2

(* Without a change to the session the invariant stays. *)
LEMMA SessionStutters == ASSUME SessionInv, UNCHANGED sessionVars PROVE SessionInv' /\ RowsAge
<1> USE DEF SessionInv, sessionVars, postgres, caches, coins, gate
<1>1. SessionTypeOK' /\ CommandInv'
  BY DEF SessionTypeOK, CommandInv, UsesIteration
<1>2. FreshInv' /\ IterationInv' /\ ClosedInv'
  BY DEF FreshInv, IterationInv, ClosedInv, Closed, Gone, Exists
<1>3. ReplyInv' /\ CoinInv' /\ RowsAge
  BY DEF ReplyInv, CoinInv, Backed, Took, RowsAge, Gone
<1> QED BY <1>1, <1>2, <1>3
=============================================================================
