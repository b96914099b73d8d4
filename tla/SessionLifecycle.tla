--------------------------- MODULE SessionLifecycle ---------------------------
(***************************************************************************)
(* One training session: its row, the iterations of its members, the coins *)
(* reserved for it, and the commands of its owner and of administrators.   *)
(* A command is a process with a step per await on Postgres, Redis or the  *)
(* coin service; the conversations that run meanwhile are in the module    *)
(* ConversationTurns.  Sessions share nothing but their coin accounts,     *)
(* which are the modules CoinWallet and CoinPeriods.                       *)
(***************************************************************************)
EXTENDS Integers, FiniteSets

CONSTANTS
  Users, Owner,        \* members of the session; its owner
  Commands, OpOf,      \* command executions and the operation each carries out
  Workloads,           \* sets of executions that happen in one behaviour
  Talked,              \* those in which the owner's first iteration has a turn already
  Costs,               \* coins a session can be estimated at
  Repeats,             \* commands whose request to the coin service is delivered twice
  MaxActual,           \* bound: coins an iteration can turn out to cost
  MaxIterations,       \* bound: iterations of a member
  None

Operations == {"create", "update", "end", "restart", "remove", "forceEnd", "replay", "recompute"}
Admin == {"forceEnd", "replay"}
Numbers == 1..MaxIterations

ASSUME SessionAssumption ==
  /\ Owner \in Users
  /\ OpOf \in [Commands -> Operations]
  /\ \A w \in Workloads : \A c, d \in Commands \cap w :   \* a session is created once
       OpOf[c] = "create" /\ OpOf[d] = "create" => c = d
  /\ Talked \subseteq {w \in Workloads : \A c \in Commands \cap w : OpOf[c] # "create"}
  /\ Repeats \subseteq {c \in Commands : OpOf[c] \in {"create", "restart"}}
  /\ Costs \subseteq Nat /\ MaxActual \in Nat /\ MaxIterations \in Nat \ {0}
  /\ None \notin Commands /\ None \notin Costs /\ None \notin {"active", "ended"}

VARIABLES
  row,                 \* Postgres Session: status, reservation, estimated coins
  iter,                \* Postgres Iteration: status by member and number
  turns,               \* Postgres Turn
  cachedSession,       \* Redis: status of the session as cached, or None
  cachedPlace,         \* Redis: iteration and last turn order of a member, or None
  held,                \* coin service: coins taken for the request of a command
  adjusts,             \* coin.adjust messages sent
  assessed,            \* final assessments requested: iteration of the owner, command
  pc, seen,            \* a command's program counter, what it read
  asked, reply         \* requests sent to the gate, and its answers

postgres == <<row, iter, turns>>
caches == <<cachedSession, cachedPlace>>
coins == <<held, adjusts>>
gate == <<asked, reply>>
sessionVars == <<postgres, caches, coins, assessed, pc, seen, gate>>

Exists == row.status \in {"active", "ended"}
IsLatest(u, n) ==
  /\ n # 0 => iter[u][n] # "none"
  /\ \A m \in Numbers : m > n => iter[u][m] = "none"
StatusOf(u, n) == IF n = 0 THEN "none" ELSE iter[u][n]

(* A workload without a create command finds a session that was created      *)
(* under an unlimited plan, which has no reservation; what a conversation    *)
(* cached of it has expired.                                                *)
InitSession(w) ==
  /\ row = [status |-> IF \E c \in Commands \cap w : OpOf[c] = "create" THEN "none" ELSE "active",
            res |-> None, est |-> 0]
  /\ iter = [u \in Users |-> [n \in Numbers |->
               IF w \in Talked /\ u = Owner /\ n = 1 THEN "active" ELSE "none"]]
  /\ turns = IF w \in Talked
               THEN {[user |-> Owner, iter |-> 1, order |-> 1, by |-> None, kind |-> "assistant"]} ELSE {}
  /\ cachedSession = None /\ cachedPlace = [u \in Users |-> None]
  /\ held = [c \in Commands |-> None] /\ adjusts = {} /\ assessed = {}
  /\ pc = [c \in Commands |-> IF c \in w THEN "idle" ELSE "off"]
  /\ seen = [c \in Commands |-> None] /\ asked = {}
  /\ reply = [c \in Commands |-> None]

Goto(c, to) == pc' = [pc EXCEPT ![c] = to]
Op(c) == OpOf[c]

-----------------------------------------------------------------------------
(* The command arrives.  Nobody knows the id of a session before its create  *)
(* is done.  The other commands read the row and its owner first.            *)
StartCommand(c) ==
  /\ pc[c] = "idle" /\ (Op(c) = "create" <=> row.status = "none")
  /\ Goto(c, IF Op(c) = "create" THEN "ask"
             ELSE IF ~Exists THEN "failed"
             ELSE IF Op(c) = "update" THEN "save"
             ELSE IF Op(c) = "remove" THEN "delete" ELSE "latest")
  /\ UNCHANGED <<postgres, caches, coins, assessed, seen, gate>>

(* What follows the closing of the latest iteration, or its assessment. *)
AfterClose(c) ==
  CASE Op(c) = "restart" -> "ask" [] Op(c) = "replay" -> "iterate"
    [] Op(c) = "recompute" -> "done" [] OTHER -> "save"

(* recomputeAssessment asks for the latest iteration as it finds it.         *)
ReadLatest(c) ==
  /\ pc[c] = "latest"
  /\ \E n \in {0} \cup Numbers :
       /\ IsLatest(Owner, n)
       /\ seen' = [seen EXCEPT ![c] = [n |-> n, open |-> StatusOf(Owner, n) = "active", turns |-> FALSE]]
       /\ Goto(c, IF Op(c) = "recompute" THEN IF n = 0 THEN "failed" ELSE "assess"
                  ELSE IF Op(c) = "end" THEN "count"
                  ELSE IF StatusOf(Owner, n) = "active" THEN "complete" ELSE AfterClose(c))
  /\ UNCHANGED <<postgres, caches, coins, assessed, gate>>

(* end() counts the turns before it completes the iteration, the others      *)
(* after.                                                                   *)
CountTurns(c) ==
  /\ pc[c] = "count"
  /\ LET some == \E t \in turns : t.user = Owner /\ t.iter = seen[c].n IN
     /\ seen' = [seen EXCEPT ![c].turns = some]
     /\ Goto(c, IF Op(c) = "end" /\ seen[c].open THEN "complete"
                ELSE IF some THEN "assess" ELSE AfterClose(c))
  /\ UNCHANGED <<postgres, caches, coins, assessed, gate>>

\* mutant: end() asks for the assessment and leaves the iteration open
CompleteUnlessEnd(c) ==
  /\ pc[c] = "complete"
  /\ LET n == seen[c].n IN
     /\ iter' = [iter EXCEPT ![Owner][n] =
                   IF @ = "none" \/ Op(c) = "end" THEN @ ELSE "completed"]
     /\ Goto(c, IF iter[Owner][n] = "none" THEN "failed"
                ELSE IF Op(c) # "end" THEN "count"
                ELSE IF seen[c].turns THEN "assess" ELSE "save")
  /\ UNCHANGED <<row, turns, caches, coins, assessed, seen, gate>>

CompleteIteration(c) ==
  /\ pc[c] = "complete"
  /\ LET n == seen[c].n IN
     /\ iter' = [iter EXCEPT ![Owner][n] = IF @ = "none" THEN @ ELSE "completed"]
     /\ Goto(c, IF iter[Owner][n] = "none" THEN "failed"
                ELSE IF Op(c) # "end" THEN "count"
                ELSE IF seen[c].turns THEN "assess" ELSE "save")
  /\ UNCHANGED <<row, turns, caches, coins, assessed, seen, gate>>

(* requestRun: its errors are swallowed by end and restart only. *)
RequestAssessment(c) ==
  /\ pc[c] = "assess"
  /\ assessed' = assessed \cup {[n |-> seen[c].n, by |-> c]}
  /\ Goto(c, AfterClose(c))
  /\ UNCHANGED <<postgres, caches, coins, seen, gate>>

AssessmentFails(c) ==
  /\ pc[c] = "assess"
  /\ Goto(c, IF Op(c) \in {"end", "restart"} THEN AfterClose(c) ELSE "failed")
  /\ UNCHANGED <<postgres, caches, coins, assessed, seen, gate>>

-----------------------------------------------------------------------------
(* The coin gate *)

AskGate(c) ==
  /\ pc[c] = "ask"
  /\ asked' = asked \cup {c}
  /\ Goto(c, "gate")
  /\ UNCHANGED <<postgres, caches, coins, assessed, seen, reply>>

Reply(approved, res, est) == [approved |-> approved, res |-> res, est |-> est]

(* What coin.session.reserve can do with the request, also after the five    *)
(* seconds its sender waits: take coins under a reservation id; be repeated  *)
(* under its key, which is approved without an id; find an unlimited plan;   *)
(* refuse.                                                                  *)
GateAnswers(c) ==
  /\ c \in asked /\ reply[c] = None
  /\ \/ \E cost \in Costs, res \in IF c \in Repeats THEN {c, None} ELSE {c} :
          /\ held' = [held EXCEPT ![c] = cost]
          /\ reply' = [reply EXCEPT ![c] = Reply(TRUE, res, cost)]
     \/ reply' = [reply EXCEPT ![c] = Reply(TRUE, None, 0)] /\ UNCHANGED held
     \/ reply' = [reply EXCEPT ![c] = Reply(FALSE, None, 0)] /\ UNCHANGED held
  /\ UNCHANGED <<postgres, caches, adjusts, assessed, pc, seen, asked>>

ReceiveAnswer(c) ==
  /\ pc[c] = "gate" /\ reply[c] # None
  /\ Goto(c, IF ~reply[c].approved THEN "failed"
             ELSE IF Op(c) = "create" THEN "insert" ELSE "iterate")
  /\ UNCHANGED <<postgres, caches, coins, assessed, seen, gate>>

InsertSession(c) ==
  /\ pc[c] = "insert"
  /\ row' = [status |-> "active", res |-> reply[c].res, est |-> reply[c].est]
  /\ Goto(c, "invalidate")
  /\ UNCHANGED <<iter, turns, caches, coins, assessed, seen, gate>>

-----------------------------------------------------------------------------
\* mutant: the new iteration takes the next free number, not the one after what was read
StartIterationNumbered(c) ==
  /\ pc[c] = "iterate"
  /\ \E n \in Numbers :
       /\ IsLatest(Owner, n - 1)
       /\ iter' = [iter EXCEPT ![Owner][n] = IF Exists THEN "active" ELSE @]
       /\ Goto(c, IF Exists THEN "save" ELSE "failed")
  /\ UNCHANGED <<row, turns, caches, coins, assessed, seen, gate>>

(* The next iteration: the unique index on (member, number) and the foreign  *)
(* key on the session refuse what a command that read earlier asks for.      *)
StartIteration(c) ==
  /\ pc[c] = "iterate"
  /\ LET n == seen[c].n + 1 IN
     /\ n \in Numbers
     /\ \/ /\ Exists /\ iter[Owner][n] = "none"
           /\ iter' = [iter EXCEPT ![Owner][n] = "active"]
           /\ Goto(c, "save")
        \/ /\ ~Exists \/ iter[Owner][n] # "none"
           /\ Goto(c, "failed") /\ UNCHANGED iter
  /\ UNCHANGED <<row, turns, caches, coins, assessed, seen, gate>>

\* mutant: restart() keeps the estimate of the reservation it replaces
RowKeepingEstimate(c, status) ==
  IF Op(c) = "restart"
    THEN [row EXCEPT !.status = status, !.res = IF reply[c].res = None THEN @ ELSE reply[c].res]
    ELSE [row EXCEPT !.status = status]

(* What session.update writes.  restart() overwrites the reservation only if *)
(* it was given one, the estimate always.                                   *)
NewRow(c, status) ==
  IF Op(c) = "restart"
    THEN [status |-> status, est |-> reply[c].est,
          res |-> IF reply[c].res = None THEN row.res ELSE reply[c].res]
    ELSE [row EXCEPT !.status = status]

(* The status written: update() takes it from its caller or leaves it.       *)
NewStatuses(c) ==
  IF Op(c) = "forceEnd" THEN {"ended"}
  ELSE IF Op(c) = "update" THEN {"active", "ended"} ELSE {"active"}

(* end() goes on with the reservation and the estimate of the row this       *)
(* update returns, not of the row it read first.                             *)
SaveSession(c) ==
  /\ pc[c] = "save"
  /\ IF Exists
       THEN \E status \in NewStatuses(c) :
              /\ row' = NewRow(c, status)
              /\ seen' = IF Op(c) # "end" THEN seen
                         ELSE [seen EXCEPT ![c] = [res |-> row.res, est |-> row.est]]
              /\ Goto(c, IF Op(c) = "end" /\ row.res # None THEN "settle"
                         ELSE IF Op(c) \in {"restart", "replay"} THEN "place" ELSE "invalidate")
       ELSE Goto(c, "failed") /\ UNCHANGED <<row, seen>>
  /\ UNCHANGED <<iter, turns, caches, coins, assessed, gate>>

(* emitAdjust: what the iteration cost less the estimate. *)
EmitAdjust(c) ==
  /\ pc[c] = "settle"
  /\ \E actual \in 0..MaxActual :
       adjusts' = adjusts \cup {[by |-> c, res |-> seen[c].res, delta |-> actual - seen[c].est]}
  /\ Goto(c, "invalidate")
  /\ UNCHANGED <<postgres, caches, held, assessed, seen, gate>>

(* Summing the costs fails: logged, and nothing is sent. *)
AdjustFails(c) ==
  /\ pc[c] = "settle"
  /\ Goto(c, "invalidate")
  /\ UNCHANGED <<postgres, caches, coins, assessed, seen, gate>>

PlaceMember(c) ==
  /\ pc[c] = "place"
  /\ cachedPlace' = [cachedPlace EXCEPT ![Owner] = [iter |-> seen[c].n + 1, last |-> 0]]
  /\ Goto(c, "invalidate")
  /\ UNCHANGED <<postgres, cachedSession, coins, assessed, seen, gate>>

(* The cached session is deleted; an administrator's command deletes the     *)
(* cached places of all members too.                                        *)
Invalidate(c) ==
  /\ pc[c] = "invalidate"
  /\ cachedSession' = None
  /\ cachedPlace' = IF Op(c) \in Admin THEN [u \in Users |-> None] ELSE cachedPlace
  /\ Goto(c, "done")
  /\ UNCHANGED <<postgres, coins, assessed, seen, gate>>

(* Redis fails: only replay() does not go on. *)
CacheFails(c) ==
  /\ pc[c] \in {"place", "invalidate"}
  /\ Goto(c, IF pc[c] = "invalidate" THEN "done" ELSE IF Op(c) = "replay" THEN "failed" ELSE "invalidate")
  /\ UNCHANGED <<postgres, caches, coins, assessed, seen, gate>>

(* Deleting the row deletes iterations and turns with it. *)
DeleteSession(c) ==
  /\ pc[c] = "delete"
  /\ IF Exists
       THEN /\ row' = [row EXCEPT !.status = "deleted"]
            /\ iter' = [u \in Users |-> [n \in Numbers |-> "none"]] /\ turns' = {}
            /\ Goto(c, "invalidate")
       ELSE Goto(c, "failed") /\ UNCHANGED postgres
  /\ UNCHANGED <<caches, coins, assessed, seen, gate>>

(* An await throws: a database or Redis error, a foreign key that names      *)
(* nothing, or the five seconds' timeout of the gate, whose answer is lost.  *)
CommandFails(c) ==
  /\ pc[c] \in {"latest", "count", "complete", "gate", "insert", "iterate", "save", "delete"}
  /\ Goto(c, "failed")
  /\ UNCHANGED <<postgres, caches, coins, assessed, seen, gate>>

CommandStep(c) ==
  \/ StartCommand(c) \/ ReadLatest(c) \/ CountTurns(c) \/ CompleteIteration(c)
  \/ RequestAssessment(c) \/ AssessmentFails(c) \/ AskGate(c) \/ GateAnswers(c) \/ ReceiveAnswer(c)
  \/ InsertSession(c) \/ StartIteration(c) \/ SaveSession(c) \/ EmitAdjust(c) \/ AdjustFails(c)
  \/ PlaceMember(c) \/ Invalidate(c) \/ CacheFails(c) \/ DeleteSession(c) \/ CommandFails(c)

-----------------------------------------------------------------------------
Places == [iter : Numbers, last : Nat]
Iteration == [n : {0} \cup Numbers, open : BOOLEAN, turns : BOOLEAN]
Reservation == [res : Commands \cup {None}, est : Nat]

SessionTypeOK ==
  /\ row \in [status : {"none", "active", "ended", "deleted"}, res : Commands \cup {None}, est : Nat]
  /\ iter \in [Users -> [Numbers -> {"none", "active", "completed"}]]
  /\ cachedSession \in {None, "active", "ended"}
  /\ cachedPlace \in [Users -> Places \cup {None}]
  /\ held \in [Commands -> Costs \cup {None}]
  /\ adjusts \subseteq [by : Commands, res : Commands, delta : Int]
  /\ assessed \subseteq [n : Numbers, by : Commands]
  /\ pc \in [Commands -> {"off", "idle", "latest", "count", "complete", "assess", "ask", "gate",
                          "insert", "iterate", "save", "settle", "place", "invalidate", "delete",
                          "done", "failed"}]
  /\ seen \in [Commands -> {None} \cup Iteration \cup Reservation]
  /\ asked \subseteq Commands
  /\ reply \in [Commands -> {None} \cup [approved : BOOLEAN, res : Commands \cup {None}, est : Nat]]

(* Whatever commands and conversations race to close an iteration and to     *)
(* open the next, a member never has two open ones, and an open one is the   *)
(* latest: no turn, assessment or cost goes to an attempt left open behind.  *)
OneActiveIteration ==
  \A u \in Users, n \in Numbers : iter[u][n] = "active" =>
    \A m \in Numbers \ {n} : iter[u][m] # "active" /\ (m > n => iter[u][m] = "none")

(* A settlement names a reservation for which the coin service took coins,   *)
(* and never gives back more than it took, whatever restarts replaced the    *)
(* reservation meanwhile.  Only a restart whose request was delivered twice  *)
(* leaves its estimate beside the reservation before it: then no more than   *)
(* was taken for that restart.                                              *)
RepeatedRestarts == {c \in Repeats : OpOf[c] = "restart"}
SettlesWhatItHeld ==
  \A a \in adjusts :
    /\ held[a.res] # None
    /\ \E c \in {a.res} \cup RepeatedRestarts : held[c] # None /\ a.delta >= -held[c]

(* Who ends an attempt and requests its final assessment requests it of an   *)
(* iteration that is closed for good, unless the session is deleted.  An     *)
(* administrator who recomputes may name one that goes on.                  *)
AssessedIsClosed ==
  \A a \in assessed : Op(a.by) # "recompute" => iter[Owner][a.n] \in {"completed", "none"}
=============================================================================
