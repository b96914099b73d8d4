------------------------ MODULE ConversationTurns_proofs ------------------------
(***************************************************************************)
(* The safety of a session with its conversations, for any members,        *)
(* commands, streams, bounds and numbers of permits.  SessionLifecycle_proofs *)
(* has what the commands preserve.                                         *)
(***************************************************************************)
EXTENDS ConversationTurns, SessionLifecycle_proofs, FiniteSetTheorems

(* Where a stream's iteration is known, and known to be closed; a turn is    *)
(* only written once it is known.                                           *)
PlaceInv ==
  \A r \in Requests :
    /\ row.status = "none" => at[r] \in {"off", "idle"}
    /\ at[r] \in {"reopen", "create"} => Closed(User(r), mine[r].iter)
    /\ at[r] \in {"close", "last", "share", "history"} => mine[r].iter \in Numbers
    /\ at[r] \in {"prompt", "llm", "saving", "audio", "analysis"} => r \in placed
    /\ r \in placed =>
         /\ mine[r].iter \in Numbers
         /\ at[r] \in {"prompt", "llm", "saving", "audio", "analysis", "done", "cancelled", "failed"}
    /\ \A k \in Writers : writer[r][k] # "off" => r \in placed

(* The gateway holds a stream until it is told of its end or cuts it off.    *)
EndInv ==
  \A r \in Requests :
    /\ at[r] \in {"off", "idle"} => r \notin streams \cup closed
    /\ r \in streams => r \notin closed
    /\ "end" \in told[r] \/ "error" \in told[r] => r \in closed

(* A turn is there once its message is; the assistant's is awaited.          *)
HasTurn(r, k) == Gone \/ \E t \in turns : t.by = r /\ t.kind = k

SavedInv ==
  \A r \in Requests :
    /\ \A k \in Writers : writer[r][k] \in {"message", "get", "set", "done"} => HasTurn(r, k)
    /\ at[r] \in {"audio", "analysis"} => writer[r]["assistant"] = "done"
    /\ "completed" \in told[r] => HasTurn(r, "assistant")

Running(r) == {s \in Sentences(r) : job[r][s] = "running"}

(* A sentence that was not detected has no job. *)
SpeechInv ==
  \A r \in Requests :
    /\ Cardinality(Running(r)) = TtsPermits - permits[r]
    /\ (\E s \in Sentences(r) : job[r][s] = "queued") => permits[r] = 0
    /\ \A s \in Sentences(r) : s > text[r] => job[r][s] = "none"

StreamInv ==
  /\ StreamTypeOK /\ PlaceInv /\ EndInv /\ OneEnding /\ SavedInv /\ SpeechInv
IInv == SessionInv /\ StreamInv

USE SessionAssumption, ConversationAssumption
USE DEF Numbers, User, Writers, Counters, gateway, flags, process, output, writing, speech, postgres, caches,
        coins, gate

(* No stream has started. *)
LEMMA InitStreamInv ==
  ASSUME NEW w \in Workloads, InitSession(w), InitStreams(w) PROVE StreamInv
<1>1. StreamTypeOK
  <2>1. turns \subseteq [user : Users, iter : Numbers, order : Nat, by : Requests \cup {None}, kind : Writers]
    <3>1. turns = {} \/ turns = {[user |-> Owner, iter |-> 1, order |-> 1, by |-> None, kind |-> "assistant"]}
      BY DEF InitSession
    <3>2. 1 \in Numbers
      <4>1. MaxIterations \in Nat /\ MaxIterations # 0
        BY SessionAssumption
      <4> QED BY <4>1
    <3> QED BY <3>1, <3>2
  <2> QED BY <2>1 DEF InitStreams, StreamTypeOK, Place
<1>2. PlaceInv /\ EndInv /\ OneEnding /\ SavedInv
  BY DEF InitStreams, PlaceInv, EndInv, OneEnding, SavedInv
<1>3. SpeechInv
  <2> SUFFICES ASSUME NEW r \in Requests
               PROVE  /\ Cardinality(Running(r)) = TtsPermits - permits[r]
                      /\ \A s \in Sentences(r) : job[r][s] = "none"
    BY DEF SpeechInv
  <2>1. Running(r) = {} /\ permits[r] = TtsPermits /\ \A s \in Sentences(r) : job[r][s] = "none"
    BY DEF InitStreams, Running
  <2> QED BY <2>1, FS_EmptySet
<1> QED BY <1>1, <1>2, <1>3 DEF StreamInv

(* The commands leave the streams alone, and the rows only age. *)
LEMMA CommandKeepsStreams ==
  ASSUME NEW c \in Commands, IInv, CommandStep(c), UNCHANGED streamVars PROVE StreamInv'
<1> USE DEF StreamInv, streamVars
<1>1. RowsAge
  BY CommandKeeps DEF IInv
<1>2. turns' \subseteq turns
  BY CommandTurns
<1>3. StreamTypeOK'
  BY <1>2 DEF IInv, StreamTypeOK
<1>4. PlaceInv'
  <2>1. \A r \in Requests : User(r) \in Users /\ mine[r].iter \in {0} \cup Numbers
    BY DEF IInv, StreamTypeOK
  <2>2. \A r \in Requests : Closed(User(r), mine[r].iter) => Closed(User(r), mine[r].iter)'
    BY <1>1, <2>1 DEF RowsAge, Closed
  <2> QED BY <1>1, <2>2 DEF IInv, RowsAge, PlaceInv
<1>5. EndInv' /\ OneEnding' /\ SpeechInv'
  BY DEF IInv, EndInv, OneEnding, SpeechInv, Running, Sentences
<1>6. SavedInv'
  BY <1>1 DEF IInv, RowsAge, HasTurn, SavedInv
<1> QED BY <1>3, <1>4, <1>5, <1>6

(* Without a new sentence or job the semaphore stays as it is. *)
LEMMA SpeechKept == ASSUME SpeechInv, UNCHANGED speech, UNCHANGED text PROVE SpeechInv'
<1>1. job' = job /\ permits' = permits /\ text' = text
  OBVIOUS
<1>2. \A r \in Requests : Running(r)' = Running(r)
  BY <1>1 DEF Running, Sentences
<1> QED BY <1>1, <1>2 DEF SpeechInv, Sentences

(* The end of process(), whoever is still listening. *)
LEMMA ConcludeKeeps ==
  ASSUME NEW r \in Requests, NEW to \in {"done", "cancelled", "failed"}, NEW message \in {"end", "error"},
         StreamInv, at[r] \notin {"off", "idle"}, Conclude(r, to, message),
         UNCHANGED <<postgres, output, writing, speech>>
  PROVE  StreamInv'
<1> USE DEF StreamInv, Conclude, Proceed
<1>1. StreamTypeOK'
  <2>1. \A f \in {streams', timer', known', cancelled', finished', closed', final', shown', placed'} : f \subseteq Requests
    BY DEF StreamTypeOK
  <2>2. at' \in [Requests -> Counters]
    BY DEF StreamTypeOK
  <2>3. told' \in [Requests -> SUBSET {"completed", "end", "error"}]
    <3>1. told' = told \/ told' = [told EXCEPT ![r] = @ \cup {message}]
      OBVIOUS
    <3> HIDE DEF Conclude, Proceed
    <3>2. told \in [Requests -> SUBSET {"completed", "end", "error"}]
      BY DEF StreamTypeOK
    <3>3. [told EXCEPT ![r] = @ \cup {message}] \in [Requests -> SUBSET {"completed", "end", "error"}]
      BY <3>2
    <3> QED BY <3>1, <3>2, <3>3
  <2>4. UNCHANGED <<text, mine, writer, got, job, permits, turns>>
    OBVIOUS
  <2> HIDE DEF Conclude, Proceed
  <2>5. /\ text' \in [Requests -> Nat] /\ \A q \in Requests : text'[q] <= MaxDeltas[q]
        /\ mine' \in [Requests -> [iter : {0} \cup Numbers, last : Nat, forced : BOOLEAN]]
        /\ writer' \in [Requests -> [Writers -> {"off", "turn", "message", "get", "set", "done", "failed"}]]
        /\ got' \in [Requests -> [Writers -> Nat]]
    BY <2>4 DEF StreamTypeOK
  <2>6. /\ DOMAIN job' = Requests /\ permits' \in [Requests -> 0..TtsPermits]
        /\ \A q \in Requests : job'[q] \in [Sentences(q) -> {"none", "queued", "running", "done"}]
        /\ turns' \subseteq [user : Users, iter : Numbers, order : Nat, by : Requests \cup {None}, kind : Writers]
    BY <2>4 DEF StreamTypeOK, Sentences
  <2> QED BY <2>1, <2>2, <2>3, <2>5, <2>6 DEF StreamTypeOK, Sentences
<1>2. PlaceInv'
  BY DEF StreamTypeOK, PlaceInv, Closed, Gone
<1>3. EndInv' /\ OneEnding'
  <2>1. \A q \in Requests : q # r => at'[q] = at[q] /\ told'[q] = told[q] /\ (q \in streams' <=> q \in streams)
                                    /\ (q \in closed' <=> q \in closed)
    BY DEF StreamTypeOK
  <2>2. EndInv'
    BY <2>1 DEF StreamTypeOK, EndInv, OneEnding
  <2>3. OneEnding'
    BY <2>1 DEF StreamTypeOK, EndInv, OneEnding
  <2> QED BY <2>2, <2>3
<1>4. SavedInv'
  BY DEF StreamTypeOK, SavedInv, HasTurn, Gone
<1>5. SpeechInv'
  BY SpeechKept
<1> QED BY <1>1, <1>2, <1>3, <1>4, <1>5

(* A cut writes nothing but the turns that were shown and have a place. *)
LEMMA CutWrites ==
  ASSUME NEW R, Cut(R)
  PROVE  \E T \in SUBSET placed :
           writer' = [r \in Requests |-> IF r \in T THEN [writer[r] EXCEPT !["cut"] = "turn"] ELSE writer[r]]
<1> DEFINE Q == {r \in ((R \cap known) \ finished) \ final : ~Saved(r, "assistant")}
           T == {r \in Q : text[r] > 0 /\ r \in placed}
<1>1. writer' = [r \in Requests |-> IF r \in T THEN [writer[r] EXCEPT !["cut"] = "turn"] ELSE writer[r]]
  BY DEF Cut, FinalizeInterrupted
<1>2. T \in SUBSET placed
  OBVIOUS
<1> QED BY <1>1, <1>2

(* Streams are cut off and leave the gateway; some are told why.             *)
CutsOff(R, E) ==
  /\ R \subseteq streams /\ E \subseteq R /\ Cut(R)
  /\ streams' = streams \ R /\ timer' \subseteq timer
  /\ told' \in [Requests -> SUBSET {"completed", "end", "error"}]
  /\ \A r \in Requests : told'[r] = IF r \in E THEN told[r] \cup {"error"} ELSE told[r]
  /\ UNCHANGED <<postgres, finished, process, output, got, speech>>

(* The gateway's steps that cut streams off: all they can break is the end   *)
(* of a stream and the turn of an interrupted answer.                        *)
LEMMA CutKeeps == ASSUME NEW R, NEW E, StreamInv, CutsOff(R, E) PROVE StreamInv'
<1> USE DEF StreamInv, CutsOff
<1>1. PICK T \in SUBSET placed :
        writer' = [r \in Requests |-> IF r \in T THEN [writer[r] EXCEPT !["cut"] = "turn"] ELSE writer[r]]
  BY CutWrites
<1>2. /\ closed' = closed \cup R /\ known' \subseteq known
      /\ cancelled' \subseteq cancelled \cup R /\ final' \subseteq final \cup R
  BY DEF Cut, FinalizeInterrupted
<1>3. StreamTypeOK'
  <2>1. writer' \in [Requests -> [Writers -> {"off", "turn", "message", "get", "set", "done", "failed"}]]
    BY <1>1 DEF StreamTypeOK
  <2> QED BY <1>2, <2>1 DEF StreamTypeOK
<1>4. PlaceInv'
  BY <1>1 DEF StreamTypeOK, PlaceInv, Closed, Gone
<1>5. \A r \in Requests :
        /\ "end" \in told'[r] => "end" \in told[r]
        /\ "completed" \in told'[r] => "completed" \in told[r]
        /\ "error" \in told'[r] => "error" \in told[r] \/ r \in R
  OBVIOUS
<1>6. EndInv' /\ OneEnding'
  <2>1. at' = at /\ closed' = closed \cup R /\ streams' = streams \ R
    BY <1>2
  <2>2. EndInv'
    BY <1>5, <2>1 DEF EndInv
  <2>3. \A r \in R : r \in Requests => "end" \notin told[r]
    BY DEF EndInv
  <2>4. OneEnding'
    BY <1>5, <2>3 DEF OneEnding
  <2> QED BY <2>2, <2>4
<1>8. SavedInv'
  <2>1. \A r \in Requests : writer'[r]["assistant"] = writer[r]["assistant"]
    BY <1>1 DEF StreamTypeOK
  <2>2. \A r \in Requests, k \in Writers : writer'[r][k] \in {writer[r][k], "turn"}
    BY <1>1 DEF StreamTypeOK
  <2>3. at' = at /\ \A r \in Requests, k \in Writers : HasTurn(r, k)' <=> HasTurn(r, k)
    BY DEF HasTurn, Gone
  <2> QED BY <1>5, <2>1, <2>2, <2>3 DEF SavedInv
<1>7. SpeechInv'
  BY SpeechKept
<1> QED BY <1>3, <1>4, <1>6, <1>7, <1>8

Early == {"session", "row", "fill", "place", "member", "close", "reopen", "create", "last", "share"}
MineType == [iter : {0} \cup Numbers, last : Nat, forced : BOOLEAN]

(* A step of process() before the turn begins, with what it must know. *)
LEMMA MoveKeeps ==
  ASSUME NEW r \in Requests, NEW to \in Early \cup {"history"}, NEW m \in MineType,
         StreamInv, RowsAge, at[r] \in Early, Proceed(r, to), mine' = [mine EXCEPT ![r] = m],
         to \in {"reopen", "create"} => Closed(User(r), m.iter)',
         to \in {"close", "last", "share", "history"} => m.iter \in Numbers,
         UNCHANGED <<turns, gateway, flags, placed, output, writing, speech>>
  PROVE  StreamInv'
<1> USE DEF StreamInv, Proceed, Early
<1>1. StreamTypeOK'
  BY DEF StreamTypeOK, MineType
<1>2. PlaceInv'
  <2>1. \A q \in Requests : q # r => at'[q] = at[q] /\ mine'[q] = mine[q]
    BY DEF StreamTypeOK
  <2>2. at'[r] = to /\ mine'[r] = m
    BY DEF StreamTypeOK
  <2>3. \A q \in Requests : User(q) \in Users /\ mine[q].iter \in {0} \cup Numbers
    BY DEF StreamTypeOK
  <2>4. \A q \in Requests : q # r /\ Closed(User(q), mine[q].iter) => Closed(User(q), mine[q].iter)'
    BY <2>1, <2>3 DEF Closed, RowsAge
  <2> QED BY <2>1, <2>2, <2>4 DEF PlaceInv, RowsAge
<1>3. EndInv' /\ OneEnding'
  BY DEF StreamTypeOK, EndInv, OneEnding
<1>4. SavedInv'
  BY DEF StreamTypeOK, SavedInv, HasTurn, RowsAge
<1>5. SpeechInv'
  BY SpeechKept
<1> QED BY <1>1, <1>2, <1>3, <1>4, <1>5

(* throwIfCancelled *)
LEMMA QuitKeeps ==
  ASSUME NEW r \in Requests, IInv, at[r] \notin {"off", "idle"}, Quit(r) PROVE IInv'
<1>1. SessionInv'
  BY SessionStutters DEF Quit, IInv
<1>2. StreamInv'
  BY ConcludeKeeps DEF Quit, IInv, sessionVars
<1> QED BY <1>1, <1>2 DEF IInv

(* The sentences being spoken are finitely many. *)
LEMMA RunningFinite ==
  ASSUME NEW r \in Requests PROVE IsFiniteSet(Running(r)) /\ Cardinality(Running(r)) \in Nat
<1>1. 1 \in Int /\ MaxDeltas[r] \in Int
  OBVIOUS
<1>2. IsFiniteSet(Sentences(r))
  BY <1>1, FS_Interval DEF Sentences
<1>3. Running(r) \subseteq Sentences(r)
  BY DEF Running
<1>4. IsFiniteSet(Running(r))
  BY <1>2, <1>3, FS_Subset
<1> QED BY <1>4, FS_CardinalityType

SpeechTypeOK ==
  /\ DOMAIN job = Requests /\ permits \in [Requests -> 0..TtsPermits]
  /\ \A r \in Requests : job[r] \in [Sentences(r) -> {"none", "queued", "running", "done"}]

(* A new sentence takes a permit or waits. *)
LEMMA AcquireKeeps ==
  ASSUME NEW r \in Requests, NEW s \in Sentences(r), SpeechTypeOK, SpeechInv, text \in [Requests -> Nat],
         s > text[r], text' = [text EXCEPT ![r] = s], Acquire(r, s)
  PROVE  SpeechTypeOK' /\ SpeechInv'
<1> USE DEF SpeechTypeOK
<1>0. s \in Nat /\ Sentences(r) \subseteq Nat /\ permits[r] \in Nat /\ job[r][s] = "none"
  BY DEF Sentences, SpeechInv
<1>1. \A q \in Requests : q # r =>
        job'[q] = job[q] /\ permits'[q] = permits[q] /\ text'[q] = text[q] /\ Running(q)' = Running(q)
  BY DEF Acquire, Running, Sentences
<1>2. CASE permits[r] > 0
  <2>1. /\ permits' = [permits EXCEPT ![r] = @ - 1]
        /\ job' = [job EXCEPT ![r][s] = "running"]
    BY <1>2 DEF Acquire
  <2>2. SpeechTypeOK'
    BY <1>0, <1>2, <2>1 DEF Sentences
  <2>3. \A q \in Sentences(r) : job'[r][q] = IF q = s THEN "running" ELSE job[r][q]
    BY <2>1
  <2>4. Running(r)' = Running(r) \cup {s} /\ s \notin Running(r)
    BY <1>0, <2>3 DEF Running, Sentences
  <2>5. Cardinality(Running(r))' = TtsPermits - permits'[r]
    <3>1. Cardinality(Running(r) \cup {s}) = Cardinality(Running(r)) + 1
      BY <2>4, RunningFinite, FS_AddElement
    <3>2. Cardinality(Running(r)) = TtsPermits - permits[r] /\ permits'[r] = permits[r] - 1
      BY <2>1 DEF SpeechInv
    <3> QED BY <1>0, <2>4, <3>1, <3>2
  <2>6. \A q \in Sentences(r) : /\ job'[r][q] # "queued"
                                /\ q > text'[r] => job'[r][q] = "none"
    BY <1>0, <1>2, <2>3 DEF SpeechInv
  <2>7. SpeechInv'
    <3> SUFFICES ASSUME NEW p \in Requests
                 PROVE  (/\ Cardinality(Running(p)) = TtsPermits - permits[p]
                         /\ (\E q \in Sentences(p) : job[p][q] = "queued") => permits[p] = 0
                         /\ \A q \in Sentences(p) : q > text[p] => job[p][q] = "none")'
      BY DEF SpeechInv
    <3>1. CASE p = r
      BY <2>5, <2>6, <3>1 DEF Sentences
    <3>2. CASE p # r
      BY <1>1, <2>5, <2>6, <3>2 DEF SpeechInv, Sentences
    <3> QED BY <3>1, <3>2
  <2> QED BY <2>2, <2>7
<1>3. CASE permits[r] = 0
  <2>1. permits' = permits /\ job' = [job EXCEPT ![r][s] = "queued"]
    BY <1>3 DEF Acquire
  <2>2. SpeechTypeOK'
    BY <2>1 DEF Sentences
  <2>3. \A q \in Sentences(r) : job'[r][q] = IF q = s THEN "queued" ELSE job[r][q]
    BY <2>1
  <2>4. Running(r)' = Running(r)
    BY <1>0, <2>3 DEF Running, Sentences
  <2>5. \A q \in Sentences(r) : q > text'[r] => job'[r][q] = "none"
    BY <1>0, <2>3 DEF SpeechInv
  <2> QED BY <1>1, <1>3, <2>1, <2>2, <2>4, <2>5 DEF SpeechInv, Sentences
<1> QED BY <1>0, <1>2, <1>3

(* A sentence is detected, to be spoken or not. *)
LEMMA SentenceKeeps ==
  ASSUME NEW r \in Requests, NEW s \in Sentences(r), SpeechTypeOK, SpeechInv, text \in [Requests -> Nat],
         s > text[r], text' = [text EXCEPT ![r] = s], IF r \in Voice THEN Acquire(r, s) ELSE UNCHANGED speech
  PROVE  SpeechTypeOK' /\ SpeechInv'
<1>1. CASE r \in Voice
  BY <1>1, AcquireKeeps
<1>2. CASE r \notin Voice
  <2>1. job' = job /\ permits' = permits
    BY <1>2
  <2>2. \A q \in Requests : Running(q)' = Running(q)
    BY <2>1 DEF Running, Sentences
  <2>3. \A q \in Requests : text'[q] \in Nat /\ text'[q] >= text[q]
    BY DEF Sentences
  <2>4. \A q \in Requests : \A i \in Sentences(q) : i > text'[q] => job'[q][i] = "none"
    BY <2>1, <2>3 DEF SpeechInv, Sentences
  <2> QED BY <2>1, <2>2, <2>4 DEF SpeechTypeOK, SpeechInv, Sentences
<1> QED BY <1>1, <1>2

(* A permit is handed to the sentence that waits longest, or given back. *)
LEMMA SpeechEndsKeeps ==
  ASSUME NEW r \in Requests, NEW s \in Sentences(r), SpeechTypeOK, SpeechInv, text' = text,
         SpeechEnds(r, s)
  PROVE  SpeechTypeOK' /\ SpeechInv'
<1> USE DEF SpeechTypeOK
<1>0. /\ s \in Running(r) /\ IsFiniteSet(Running(r)) /\ Cardinality(Running(r)) \in Nat
      /\ permits[r] \in Nat /\ Cardinality(Running(r)) = TtsPermits - permits[r]
  BY RunningFinite DEF SpeechEnds, Running, SpeechInv
<1>1. CASE \E q \in Sentences(r) :
             /\ job[r][q] = "queued"
             /\ job' = [job EXCEPT ![r] = [@ EXCEPT ![s] = "done", ![q] = "running"]]
             /\ UNCHANGED permits
  <2>1. PICK q \in Sentences(r) :
          /\ job[r][q] = "queued" /\ permits' = permits
          /\ job' = [job EXCEPT ![r] = [@ EXCEPT ![s] = "done", ![q] = "running"]]
    BY <1>1
  <2>2. \A p \in Sentences(r) :
          job'[r][p] = IF p = q THEN "running" ELSE IF p = s THEN "done" ELSE job[r][p]
    BY <2>1
  <2>3. SpeechTypeOK'
    BY <2>1 DEF Sentences
  <2>4. q \notin Running(r) /\ Running(r)' = (Running(r) \ {s}) \cup {q}
    BY <1>0, <2>1, <2>2 DEF Running, Sentences
  <2>5. Cardinality(Running(r) \ {s}) = Cardinality(Running(r)) - 1 /\ IsFiniteSet(Running(r) \ {s})
    BY <1>0, FS_RemoveElement
  <2>6. Cardinality(Running(r))' = Cardinality(Running(r))
    <3>1. Cardinality((Running(r) \ {s}) \cup {q}) = Cardinality(Running(r) \ {s}) + 1
      BY <2>4, <2>5, FS_AddElement
    <3> QED BY <1>0, <2>4, <2>5, <3>1
  <2>7. \A p \in Requests : p # r => job'[p] = job[p] /\ Running(p)' = Running(p)
    BY <2>1 DEF Running, Sentences
  <2>8. permits[r] = 0
    BY <2>1 DEF SpeechInv
  <2>9. \A p \in Sentences(r) : p > text'[r] => job'[r][p] = "none"
    BY <1>0, <2>1, <2>2 DEF SpeechInv, Running
  <2>10. SpeechInv'
    <3> SUFFICES ASSUME NEW p \in Requests
                 PROVE  (/\ Cardinality(Running(p)) = TtsPermits - permits[p]
                         /\ (\E i \in Sentences(p) : job[p][i] = "queued") => permits[p] = 0
                         /\ \A i \in Sentences(p) : i > text[p] => job[p][i] = "none")'
      BY DEF SpeechInv
    <3>1. CASE p = r
      BY <1>0, <2>1, <2>6, <2>7, <2>8, <2>9, <3>1 DEF SpeechInv, Sentences
    <3>2. CASE p # r
      BY <1>0, <2>1, <2>6, <2>7, <2>8, <2>9, <3>2 DEF SpeechInv, Sentences
    <3> QED BY <3>1, <3>2
  <2> QED BY <2>3, <2>10
<1>2. CASE /\ \A q \in Sentences(r) : job[r][q] # "queued"
           /\ job' = [job EXCEPT ![r][s] = "done"]
           /\ permits' = [permits EXCEPT ![r] = @ + 1]
  <2>1. \A p \in Sentences(r) : job'[r][p] = IF p = s THEN "done" ELSE job[r][p]
    BY <1>2
  <2>2. Running(r)' = Running(r) \ {s}
    BY <1>0, <2>1 DEF Running, Sentences
  <2>3. Cardinality(Running(r))' = Cardinality(Running(r)) - 1
    <3>1. IsFiniteSet(Running(r)) /\ s \in Running(r)
      BY <1>0
    <3>2. Cardinality(Running(r) \ {s}) = Cardinality(Running(r)) - 1
      BY <3>1, FS_RemoveElement
    <3> QED BY <2>2, <3>2
  <2>4. permits'[r] = permits[r] + 1 /\ permits[r] + 1 \in 0..TtsPermits
    <3>1. Cardinality(Running(r))' \in Nat
      BY <1>0, <2>2, FS_RemoveElement, FS_CardinalityType
    <3> QED BY <1>0, <1>2, <2>3, <3>1
  <2>5. SpeechTypeOK'
    BY <1>2, <2>4 DEF Sentences
  <2>6. \A p \in Requests : p # r => job'[p] = job[p] /\ permits'[p] = permits[p] /\ Running(p)' = Running(p)
    BY <1>2 DEF Running, Sentences
  <2>7. \A p \in Sentences(r) : /\ job'[r][p] # "queued"
                                /\ p > text'[r] => job'[r][p] = "none"
    BY <1>0, <1>2, <2>1 DEF SpeechInv, Running
  <2>8. SpeechInv'
    <3> SUFFICES ASSUME NEW p \in Requests
                 PROVE  (/\ Cardinality(Running(p)) = TtsPermits - permits[p]
                         /\ (\E q \in Sentences(p) : job[p][q] = "queued") => permits[p] = 0
                         /\ \A q \in Sentences(p) : q > text[p] => job[p][q] = "none")'
      BY DEF SpeechInv
    <3>1. CASE p = r
      <4>1. Cardinality(Running(r))' = TtsPermits - permits'[r]
        BY <1>0, <2>3, <2>4
      <4> QED BY <2>7, <3>1, <4>1 DEF Sentences
    <3>2. CASE p # r
      <4>1. job'[p] = job[p] /\ permits'[p] = permits[p] /\ Running(p)' = Running(p) /\ text' = text
        BY <1>0, <2>6, <3>2
      <4> QED BY <1>0, <4>1 DEF SpeechInv, Sentences
    <3> QED BY <3>1, <3>2
  <2> QED BY <2>5, <2>8
<1> QED BY <1>1, <1>2 DEF SpeechEnds

(* Only the caches of the session change. *)
LEMMA CachesKeep ==
  ASSUME SessionInv, cachedSession' \in {None, "active", "ended"},
         cachedPlace' \in [Users -> Places \cup {None}],
         UNCHANGED <<postgres, coins, assessed, pc, seen, gate>>
  PROVE  SessionInv' /\ RowsAge
<1> USE DEF SessionInv
<1>1. SessionTypeOK' /\ CommandInv'
  BY DEF SessionTypeOK, CommandInv, UsesIteration
<1>2. FreshInv' /\ IterationInv' /\ ClosedInv'
  BY DEF FreshInv, IterationInv, ClosedInv, Closed, Gone, Exists
<1>3. ReplyInv' /\ CoinInv' /\ RowsAge
  BY DEF ReplyInv, CoinInv, Backed, Took, RowsAge, Gone
<1> QED BY <1>1, <1>2, <1>3

(* The steps of process() before the turn begins. *)
LEMMA EarlyKeeps ==
  ASSUME NEW r \in Requests, IInv,
         \/ GetCachedSession(r) \/ ReadSession(r) \/ FillSessionCache(r) \/ GetCachedPlace(r)
         \/ FindIteration(r) \/ ReadLastTurn(r) \/ SharePlace(r)
  PROVE  IInv'
<1> USE DEF IInv, Hold
<1>0. /\ User(r) \in Users /\ mine[r] \in MineType /\ at[r] \in Counters
      /\ \A n \in {0} \cup Numbers, k \in Nat, f \in BOOLEAN : Place(n, k, f) \in MineType /\ Place(n, k, f).iter = n
  BY DEF StreamInv, StreamTypeOK, MineType, Place
<1>1. ASSUME NEW status \in {"active", "ended"}, at[r] \in {"session", "fill"}, Enter(r, status),
             UNCHANGED <<postgres, coins, assessed, pc, seen, gate>>, RowsAge
      PROVE  StreamInv'
  <2>1. PICK m \in MineType, to \in {"member", "place"} : mine' = [mine EXCEPT ![r] = m] /\ Proceed(r, to)
    <3>1. Place(0, 0, status = "ended") \in MineType
      BY DEF Place, MineType
    <3>2. mine' = [mine EXCEPT ![r] = Place(0, 0, status = "ended")]
      BY <1>1 DEF Enter
    <3>3. Proceed(r, "member") \/ Proceed(r, "place")
      BY <1>1 DEF Enter
    <3> QED BY <3>1, <3>2, <3>3
  <2>2. at[r] \in Early /\ to \in Early /\ to \notin {"reopen", "create", "close", "last", "share", "history"}
    BY <1>1, <2>1 DEF Early
  <2>3. StreamInv /\ UNCHANGED <<turns, gateway, flags, placed, output, writing, speech>>
    BY <1>1 DEF Enter
  <2> QED BY <1>1, <2>1, <2>2, <2>3, MoveKeeps
<1>2. CASE GetCachedSession(r)
  <2>1. CASE cachedSession # None /\ Enter(r, cachedSession) /\ UNCHANGED sessionVars
    <3>1. SessionInv' /\ RowsAge
      BY <2>1, SessionStutters
    <3>2. cachedSession \in {"active", "ended"} /\ at[r] = "session"
      BY <1>2, <2>1 DEF GetCachedSession, SessionInv, SessionTypeOK
    <3> QED BY <1>1, <2>1, <3>1, <3>2 DEF sessionVars
  <2>2. CASE Quit(r)
    BY <1>2, <2>2, QuitKeeps DEF GetCachedSession
  <2>3. CASE /\ Proceed(r, "row")
             /\ UNCHANGED <<sessionVars, gateway, flags, mine, placed, output, writing, speech>>
    <3>1. SessionInv' /\ RowsAge
      BY <2>3, SessionStutters
    <3>2. mine' = [mine EXCEPT ![r] = mine[r]] /\ at[r] \in Early
      <4>1. at[r] \in Early
        BY <1>2 DEF GetCachedSession, Early
      <4>2. mine' = [mine EXCEPT ![r] = mine[r]]
        BY <2>3 DEF StreamInv, StreamTypeOK
      <4> QED BY <4>1, <4>2
    <3>3. StreamInv /\ UNCHANGED <<turns, gateway, flags, placed, output, writing, speech>>
      BY <2>3 DEF sessionVars
    <3>4. "row" \in Early /\ "row" \notin {"reopen", "create", "close", "last", "share", "history"}
      BY DEF Early
    <3>5. StreamInv'
      BY <1>0, <2>3, <3>1, <3>2, <3>3, <3>4, MoveKeeps
    <3> QED BY <3>1, <3>5
  <2> QED BY <1>2, <2>1, <2>2, <2>3 DEF GetCachedSession
<1>3. CASE ReadSession(r)
  <2>1. SessionInv' /\ RowsAge
    BY <1>3, SessionStutters DEF ReadSession
  <2>2. PICK m \in MineType : mine' = [mine EXCEPT ![r] = m]
    BY <1>0, <1>3 DEF ReadSession
  <2> QED BY <1>3, <2>1, <2>2, MoveKeeps DEF ReadSession, Early, sessionVars
<1>4. CASE FillSessionCache(r)
  <2>1. PICK status \in {"active", "ended"} :
          /\ at[r] = "fill" /\ cachedSession' = status
          /\ UNCHANGED <<postgres, cachedPlace, coins, assessed, pc, seen, gate>>
          /\ \/ Enter(r, status)
             \/ Conclude(r, "cancelled", "end") /\ UNCHANGED <<output, writing, speech>>
    BY <1>4 DEF FillSessionCache
  <2>2. SessionInv' /\ RowsAge
    BY <2>1, CachesKeep DEF SessionInv, SessionTypeOK
  <2>3. StreamInv'
    BY <1>1, <2>1, <2>2, ConcludeKeeps
  <2> QED BY <2>2, <2>3
<1>5. CASE GetCachedPlace(r)
  <2>1. CASE Quit(r)
    BY <1>5, <2>1, QuitKeeps DEF GetCachedPlace
  <2>2. CASE ~Quit(r)
    <3>1. /\ at[r] = "place" /\ UNCHANGED <<sessionVars, gateway, flags, placed, output, writing, speech>>
          /\ \/ Proceed(r, "member") /\ mine' = mine
             \/ /\ Proceed(r, "history") /\ cachedPlace[User(r)] # None
                /\ Hold(r, cachedPlace[User(r)].iter, cachedPlace[User(r)].last, FALSE)
      BY <1>5, <2>2 DEF GetCachedPlace
    <3>2. SessionInv' /\ RowsAge
      BY <3>1, SessionStutters
    <3>3. CASE Proceed(r, "member") /\ mine' = mine
      <4>1. mine' = [mine EXCEPT ![r] = mine[r]]
        BY <3>3 DEF StreamInv, StreamTypeOK
      <4> QED BY <1>0, <3>1, <3>2, <3>3, <4>1, MoveKeeps DEF sessionVars, Early
    <3>4. CASE /\ Proceed(r, "history") /\ cachedPlace[User(r)] # None
               /\ Hold(r, cachedPlace[User(r)].iter, cachedPlace[User(r)].last, FALSE)
      <4>1. cachedPlace[User(r)].iter \in Numbers /\ cachedPlace[User(r)].last \in Nat
        BY <1>0, <3>4 DEF SessionInv, SessionTypeOK, Places
      <4>2. PICK m \in MineType : mine' = [mine EXCEPT ![r] = m] /\ m.iter \in Numbers
        <5> DEFINE m == Place(cachedPlace[User(r)].iter, cachedPlace[User(r)].last, FALSE)
        <5>1. m \in MineType /\ m.iter \in Numbers
          BY <1>0, <4>1
        <5>2. mine' = [mine EXCEPT ![r] = m]
          BY <3>4
        <5> QED BY <5>1, <5>2
      <4>3. at[r] \in Early
        BY <3>1 DEF Early
      <4>4. StreamInv /\ UNCHANGED <<turns, gateway, flags, placed, output, writing, speech>>
        BY <3>1 DEF sessionVars
      <4>5. StreamInv'
        BY <3>2, <3>4, <4>2, <4>3, <4>4, MoveKeeps
      <4> QED BY <3>2, <4>5
    <3> QED BY <3>1, <3>2, <3>3, <3>4
  <2> QED BY <2>1, <2>2
<1>6. CASE FindIteration(r)
  <2>1. at[r] = "member" /\ UNCHANGED <<sessionVars, gateway, flags, placed, output, writing, speech>>
    BY <1>6 DEF FindIteration
  <2>2. SessionInv' /\ RowsAge
    BY <2>1, SessionStutters
  <2>3. PICK n \in {0} \cup Numbers :
          /\ IsLatest(User(r), n) /\ Hold(r, n, 0, mine[r].forced)
          /\ Proceed(r, IF StatusOf(User(r), n) = "active" THEN IF mine[r].forced THEN "close" ELSE "last"
                        ELSE IF mine[r].forced THEN "reopen" ELSE "create")
    BY <1>6 DEF FindIteration
  <2>4. PICK m \in MineType : mine' = [mine EXCEPT ![r] = m] /\ m.iter = n
    <3> DEFINE m == Place(n, 0, mine[r].forced)
    <3>1. m \in MineType /\ m.iter = n
      BY <1>0 DEF MineType
    <3>2. mine' = [mine EXCEPT ![r] = m]
      BY <2>3
    <3> QED BY <3>1, <3>2
  <2>5. PICK to \in {"close", "last", "reopen", "create"} :
          /\ Proceed(r, to)
          /\ to \in {"close", "last"} <=> StatusOf(User(r), n) = "active"
    BY <2>3
  <2>6. /\ StatusOf(User(r), n) = "active" => n \in Numbers
        /\ StatusOf(User(r), n) # "active" => n = 0 \/ iter[User(r)][n] = "completed"
    BY <1>0, <2>3 DEF IsLatest, StatusOf, SessionInv, SessionTypeOK
  <2>7. StatusOf(User(r), n) # "active" => Closed(User(r), m.iter)'
    BY <2>1, <2>4, <2>6 DEF Closed, sessionVars
  <2> QED BY <2>1, <2>2, <2>4, <2>5, <2>6, <2>7, MoveKeeps DEF sessionVars, Early
<1>7. CASE ReadLastTurn(r)
  <2>1. at[r] = "last" /\ UNCHANGED <<sessionVars, gateway, flags, placed, output, writing, speech>>
    BY <1>7 DEF ReadLastTurn
  <2>2. SessionInv' /\ RowsAge
    BY <2>1, SessionStutters
  <2>3. PICK last \in Nat : Hold(r, mine[r].iter, last, mine[r].forced) /\ Proceed(r, "share")
    <3>1. {t.order : t \in TurnsOf(User(r), mine[r].iter)} \subseteq Nat
      BY DEF TurnsOf, StreamInv, StreamTypeOK
    <3> QED BY <1>7, <3>1 DEF ReadLastTurn
  <2>4. mine[r].iter \in Numbers
    BY <2>1 DEF StreamInv, PlaceInv
  <2>5. PICK m \in MineType : mine' = [mine EXCEPT ![r] = m] /\ m.iter \in Numbers
    <3> DEFINE m == Place(mine[r].iter, last, mine[r].forced)
    <3>1. m \in MineType /\ m.iter \in Numbers
      BY <1>0, <2>4 DEF MineType
    <3>2. mine' = [mine EXCEPT ![r] = m]
      BY <2>3
    <3> QED BY <3>1, <3>2
  <2>6. at[r] \in Early /\ "share" \in Early
    BY <2>1 DEF Early
  <2>7. StreamInv /\ UNCHANGED <<turns, gateway, flags, placed, output, writing, speech>>
    BY <2>1 DEF sessionVars
  <2>8. StreamInv'
    BY <2>2, <2>3, <2>5, <2>6, <2>7, MoveKeeps
  <2> QED BY <2>2, <2>8
<1>8. CASE SharePlace(r)
  <2>1. /\ at[r] = "share" /\ mine' = [mine EXCEPT ![r] = mine[r]] /\ Proceed(r, "history")
        /\ UNCHANGED <<postgres, coins, assessed, pc, seen, gate, gateway, flags, placed, output, writing, speech>>
    BY <1>8 DEF SharePlace, StreamInv, StreamTypeOK
  <2>2. mine[r].iter \in Numbers
    BY <2>1 DEF StreamInv, PlaceInv
  <2>3. /\ cachedSession' \in {None, "active", "ended"}
        /\ cachedPlace' \in [Users -> Places \cup {None}]
    BY <1>0, <1>8, <2>2 DEF SharePlace, SessionInv, SessionTypeOK, Places, MineType
  <2>4. SessionInv' /\ RowsAge
    BY <2>1, <2>3, CachesKeep
  <2>5. PICK m \in MineType : m.iter \in Numbers /\ mine' = [mine EXCEPT ![r] = m]
    BY <1>0, <2>1, <2>2
  <2>6. at[r] \in Early /\ StreamInv /\ UNCHANGED <<turns, gateway, flags, placed, output, writing, speech>>
    BY <2>1 DEF Early
  <2>7. StreamInv'
    BY <2>1, <2>4, <2>5, <2>6, MoveKeeps
  <2> QED BY <2>4, <2>7
<1> QED BY <1>2, <1>3, <1>4, <1>5, <1>6, <1>7, <1>8

(* A stream closes an iteration that exists. *)
LEMMA CloseKeeps ==
  ASSUME NEW u \in Users, NEW n \in Numbers, SessionInv, iter[u][n] # "none",
         iter' = [iter EXCEPT ![u][n] = "completed"],
         UNCHANGED <<row, turns, caches, coins, assessed, pc, seen, gate>>
  PROVE  SessionInv' /\ RowsAge /\ Closed(u, n)'
<1> USE DEF SessionInv
<1>1. iter' \in [Users -> [Numbers -> {"none", "active", "completed"}]]
  BY DEF SessionTypeOK
<1>2. \A v \in Users, m \in Numbers : iter'[v][m] = IF v = u /\ m = n THEN "completed" ELSE iter[v][m]
  BY DEF SessionTypeOK
<1>3. RowsAge /\ Closed(u, n)'
  BY <1>2 DEF RowsAge, Closed, Gone
<1>4. SessionTypeOK' /\ CommandInv'
  BY <1>1 DEF SessionTypeOK, CommandInv, UsesIteration
<1>5. FreshInv' /\ ReplyInv' /\ CoinInv'
  BY DEF FreshInv, ReplyInv, CoinInv, Backed, Took
<1>6. IterationInv'
  BY <1>2 DEF IterationInv, Exists
<1>7. ClosedInv'
  BY <1>2 DEF SessionTypeOK, CommandInv, UsesIteration, Iteration, ClosedInv, Closed, Gone
<1> QED BY <1>3, <1>4, <1>5, <1>6, <1>7

(* A stream opens the iteration after a closed one. *)
LEMMA OpenKeeps ==
  ASSUME NEW u \in Users, NEW k \in {0} \cup Numbers, k + 1 \in Numbers, SessionInv, Exists,
         Closed(u, k), iter[u][k + 1] = "none", iter' = [iter EXCEPT ![u][k + 1] = "active"],
         UNCHANGED <<row, turns, caches, coins, assessed, pc, seen, gate>>
  PROVE  SessionInv' /\ RowsAge
<1> DEFINE n == k + 1
<1> USE DEF SessionInv
<1>1. \A m \in Numbers : m < n => iter[u][m] = "completed"
  BY DEF Closed, Gone, Exists, IterationInv
<1>2. \A m \in Numbers : n < m => iter[u][m] = "none"
  BY DEF IterationInv
<1> HIDE DEF n
<1>3. n \in Numbers /\ iter' = [iter EXCEPT ![u][n] = "active"] /\ iter[u][n] = "none"
  BY DEF n
<1>4. iter' \in [Users -> [Numbers -> {"none", "active", "completed"}]]
  BY <1>3 DEF SessionTypeOK
<1>5. \A v \in Users, m \in Numbers : iter'[v][m] = IF v = u /\ m = n THEN "active" ELSE iter[v][m]
  BY <1>3 DEF SessionTypeOK
<1>6. RowsAge
  BY <1>3, <1>5 DEF RowsAge, Gone
<1>7. SessionTypeOK' /\ CommandInv'
  BY <1>4 DEF SessionTypeOK, CommandInv, UsesIteration
<1>8. FreshInv' /\ ReplyInv' /\ CoinInv'
  BY DEF FreshInv, ReplyInv, CoinInv, Backed, Took
<1>9. IterationInv'
  BY <1>1, <1>2, <1>3, <1>5 DEF IterationInv, Exists
<1>10. ClosedInv'
  BY <1>3, <1>5 DEF SessionTypeOK, CommandInv, UsesIteration, Iteration, ClosedInv, Closed, Gone
<1> QED BY <1>6, <1>7, <1>8, <1>9, <1>10

(* A stream opens the session again. *)
LEMMA ReopenKeeps ==
  ASSUME SessionInv, Exists, row' = [row EXCEPT !.status = "active"],
         UNCHANGED <<iter, turns, caches, coins, assessed, pc, seen, gate>>
  PROVE  SessionInv' /\ RowsAge
<1> USE DEF SessionInv
<1>1. row' = [status |-> "active", res |-> row.res, est |-> row.est]
  BY DEF SessionTypeOK
<1>2. SessionTypeOK' /\ CommandInv'
  BY <1>1 DEF SessionTypeOK, CommandInv, UsesIteration
<1>3. FreshInv'
  BY <1>1 DEF FreshInv, Exists
<1>4. IterationInv' /\ ClosedInv' /\ RowsAge
  BY <1>1 DEF IterationInv, ClosedInv, Closed, Gone, RowsAge, Exists
<1>5. ReplyInv' /\ CoinInv'
  BY <1>1 DEF SessionTypeOK, ReplyInv, CoinInv, Backed, Took
<1> QED BY <1>2, <1>3, <1>4, <1>5

(* The steps of process() that write iterations and the session's row. *)
LEMMA IterationKeeps ==
  ASSUME NEW r \in Requests, IInv, CloseIteration(r) \/ ReopenSession(r) \/ CreateIteration(r)
  PROVE  IInv'
<1> USE DEF IInv
<1>0. PICK u \in Users, m \in MineType :
        /\ u = User(r) /\ m = mine[r] /\ m.iter \in {0} \cup Numbers
        /\ mine = [mine EXCEPT ![r] = m]
  BY DEF StreamInv, StreamTypeOK, MineType
<1>1. CASE CloseIteration(r)
  <2>1. /\ at[r] = "close" /\ m.iter \in Numbers /\ iter[u][m.iter] # "none"
        /\ iter' = [iter EXCEPT ![u][m.iter] = "completed"]
        /\ Proceed(r, "reopen") /\ mine' = [mine EXCEPT ![r] = m]
        /\ UNCHANGED <<row, turns, caches, coins, assessed, pc, seen, gate>>
        /\ UNCHANGED <<turns, gateway, flags, placed, output, writing, speech>>
    BY <1>0, <1>1 DEF CloseIteration, StreamInv, PlaceInv
  <2>2. SessionInv' /\ RowsAge /\ Closed(u, m.iter)'
    BY <2>1, CloseKeeps
  <2>3. at[r] \in Early /\ "reopen" \in Early
    BY <2>1 DEF Early
  <2>4. /\ StreamInv /\ Closed(User(r), m.iter)' /\ m \in MineType
        /\ UNCHANGED <<turns, gateway, flags, placed, output, writing, speech>>
    BY <1>0, <2>1, <2>2
  <2>5. Proceed(r, "reopen") /\ mine' = [mine EXCEPT ![r] = m] /\ RowsAge
    BY <2>1, <2>2
  <2>6. StreamInv'
    BY <2>3, <2>4, <2>5, MoveKeeps
  <2> QED BY <2>2, <2>6
<1>2. CASE ReopenSession(r)
  <2>1. /\ at[r] = "reopen" /\ Exists /\ row' = [row EXCEPT !.status = "active"]
        /\ Proceed(r, "create") /\ mine' = [mine EXCEPT ![r] = m]
        /\ UNCHANGED <<iter, turns, caches, coins, assessed, pc, seen, gate>>
        /\ UNCHANGED <<turns, gateway, flags, placed, output, writing, speech>>
    BY <1>0, <1>2 DEF ReopenSession
  <2>2. SessionInv' /\ RowsAge
    BY <2>1, ReopenKeeps
  <2>3. Closed(u, m.iter)
    BY <1>0, <2>1 DEF StreamInv, PlaceInv
  <2>4. Closed(u, m.iter)'
    BY <1>0, <2>2, <2>3 DEF Closed, RowsAge
  <2>5. at[r] \in Early /\ "create" \in Early
    BY <2>1 DEF Early
  <2>6. /\ StreamInv /\ Closed(User(r), m.iter)' /\ m \in MineType
        /\ UNCHANGED <<turns, gateway, flags, placed, output, writing, speech>>
    BY <1>0, <2>1, <2>4
  <2>7. Proceed(r, "create") /\ mine' = [mine EXCEPT ![r] = m] /\ RowsAge
    BY <2>1, <2>2
  <2>8. StreamInv'
    BY <2>5, <2>6, <2>7, MoveKeeps
  <2> QED BY <2>2, <2>8
<1>3. CASE CreateIteration(r)
  <2>1. /\ at[r] = "create" /\ m.iter + 1 \in Numbers /\ Exists /\ iter[u][m.iter + 1] = "none"
        /\ iter' = [iter EXCEPT ![u][m.iter + 1] = "active"]
        /\ Proceed(r, "last") /\ mine' = [mine EXCEPT ![r] = Place(m.iter + 1, 0, m.forced)]
        /\ UNCHANGED <<row, turns, caches, coins, assessed, pc, seen, gate>>
        /\ UNCHANGED <<turns, gateway, flags, placed, output, writing, speech>>
    BY <1>0, <1>3 DEF CreateIteration, Hold
  <2>2. Closed(u, m.iter)
    BY <1>0, <2>1 DEF StreamInv, PlaceInv
  <2>3. SessionInv' /\ RowsAge
    BY <1>0, <2>1, <2>2, OpenKeeps
  <2>4. Place(m.iter + 1, 0, m.forced) \in MineType /\ Place(m.iter + 1, 0, m.forced).iter = m.iter + 1
    BY <2>1 DEF Place, MineType
  <2>5. at[r] \in Early /\ "last" \in Early
    BY <2>1 DEF Early
  <2>6. /\ StreamInv /\ Proceed(r, "last") /\ RowsAge
        /\ UNCHANGED <<turns, gateway, flags, placed, output, writing, speech>>
    BY <2>1, <2>3
  <2>7. PICK k \in MineType : mine' = [mine EXCEPT ![r] = k] /\ k.iter \in Numbers
    <3> DEFINE p == Place(m.iter + 1, 0, m.forced)
    <3>1. p \in MineType /\ p.iter \in Numbers
      BY <2>1, <2>4
    <3>2. mine' = [mine EXCEPT ![r] = p]
      BY <2>1
    <3> QED BY <3>1, <3>2
  <2>8. StreamInv'
    BY <2>5, <2>6, <2>7, MoveKeeps
  <2> QED BY <2>3, <2>8
<1> QED BY <1>1, <1>2, <1>3

WriterType == [Requests -> [Writers -> {"off", "turn", "message", "get", "set", "done", "failed"}]]

(* The steps of process() from the history on, which leave the session alone. *)
LEMMA LateKeeps ==
  ASSUME NEW r \in Requests, IInv,
         \/ ReadHistory(r) \/ BuildPrompt(r) \/ Delta(r) \/ Answer(r) \/ StopAnswer(r)
         \/ TurnSaved(r) \/ Complete(r) \/ Finish(r) \/ StreamFails(r)
         \/ \E s \in Sentences(r) : SpeechEnds(r, s)
  PROVE  IInv'
<1> USE DEF IInv, StreamInv, Proceed, Launch
<1>0. ASSUME ~Quit(r) \/ at[r] \in {"off", "idle"} PROVE UNCHANGED sessionVars
  BY <1>0 DEF ReadHistory, BuildPrompt, Delta, Answer, StopAnswer, TurnSaved, Complete, Finish, StreamFails,
              SpeechEnds
<1>1. ASSUME UNCHANGED sessionVars PROVE SessionInv' /\ UNCHANGED postgres
  BY <1>1, SessionStutters DEF sessionVars
<1>2. CASE Quit(r) /\ at[r] \notin {"off", "idle"}
  BY <1>2, QuitKeeps
<1>3. CASE ReadHistory(r) /\ ~Quit(r)
  <2>1. /\ at[r] = "history" /\ UNCHANGED <<sessionVars, gateway, flags, mine, output, got, speech>>
        /\ at' = [at EXCEPT ![r] = "prompt"] /\ placed' = placed \cup {r}
        /\ writer' = writer \/ writer' = [writer EXCEPT ![r]["user"] = "turn"]
    BY <1>3 DEF ReadHistory
  <2>2. StreamTypeOK'
    <3>1. writer' \in WriterType
      <4>1. writer \in WriterType
        BY DEF StreamTypeOK, WriterType
      <4>2. [writer EXCEPT ![r]["user"] = "turn"] \in WriterType
        BY <4>1 DEF WriterType
      <4> QED BY <2>1, <4>1, <4>2
    <3>2. placed' \subseteq Requests /\ at' \in [Requests -> Counters]
      BY <2>1 DEF StreamTypeOK
    <3> QED BY <1>1, <2>1, <3>1, <3>2 DEF StreamTypeOK, WriterType
  <2>3. PlaceInv'
    BY <1>1, <2>1 DEF StreamTypeOK, PlaceInv, Closed, Gone
  <2>4. EndInv' /\ OneEnding'
    BY <2>1 DEF StreamTypeOK, EndInv, OneEnding
  <2>5. SavedInv'
    BY <1>1, <2>1 DEF StreamTypeOK, SavedInv, HasTurn, Gone
  <2> QED BY <1>1, <2>1, <2>2, <2>3, <2>4, <2>5, SpeechKept
<1>4. CASE BuildPrompt(r) /\ ~Quit(r)
  <2>1. /\ at[r] = "prompt" /\ at' = [at EXCEPT ![r] = "llm"]
        /\ UNCHANGED <<sessionVars, gateway, flags, mine, placed, output, writing, speech>>
    BY <1>4 DEF BuildPrompt
  <2>2. StreamTypeOK' /\ EndInv' /\ OneEnding'
    BY <1>1, <2>1 DEF StreamTypeOK, EndInv, OneEnding
  <2>3. PlaceInv' /\ SavedInv'
    BY <1>1, <2>1 DEF StreamTypeOK, PlaceInv, Closed, SavedInv, HasTurn, Gone
  <2> QED BY <1>1, <2>1, <2>2, <2>3, SpeechKept
<1>5. CASE TurnSaved(r)
  <2>1. /\ at[r] = "saving" /\ at' = [at EXCEPT ![r] = "audio"] /\ writer[r]["assistant"] = "done"
        /\ UNCHANGED <<sessionVars, gateway, flags, mine, placed, output, writing, speech>>
    BY <1>5 DEF TurnSaved
  <2>2. StreamTypeOK' /\ EndInv' /\ OneEnding'
    BY <1>1, <2>1 DEF StreamTypeOK, EndInv, OneEnding
  <2>3. PlaceInv' /\ SavedInv'
    BY <1>1, <2>1 DEF StreamTypeOK, PlaceInv, Closed, SavedInv, HasTurn, Gone
  <2> QED BY <1>1, <2>1, <2>2, <2>3, SpeechKept
<1>6. CASE Complete(r) /\ ~Quit(r)
  <2>1. /\ at[r] = "audio" /\ at' = [at EXCEPT ![r] = "analysis"]
        /\ told' = [told EXCEPT ![r] = @ \cup {"completed"}]
        /\ UNCHANGED <<sessionVars, streams, timer, flags, mine, placed, output, writing, speech>>
    BY <1>6 DEF Complete
  <2>2. StreamTypeOK' /\ EndInv' /\ OneEnding'
    BY <1>1, <2>1 DEF StreamTypeOK, EndInv, OneEnding
  <2>3. PlaceInv' /\ SavedInv'
    BY <1>1, <2>1 DEF StreamTypeOK, PlaceInv, Closed, SavedInv, HasTurn, Gone
  <2> QED BY <1>1, <2>1, <2>2, <2>3, SpeechKept
<1>7. CASE Finish(r) \/ StreamFails(r)
  <2>1. PICK to \in {"done", "failed"}, message \in {"end", "error"} :
          /\ Conclude(r, to, message) /\ at[r] \notin {"off", "idle"}
          /\ UNCHANGED <<sessionVars, output, writing, speech>>
    BY <1>7 DEF Finish, StreamFails
  <2> QED BY <1>1, <2>1, ConcludeKeeps
<1>8. CASE Delta(r)
  <2> DEFINE s == text[r] + 1
  <2>1. /\ at[r] = "llm" /\ s \in Sentences(r) /\ s > text[r] /\ s \in Nat /\ s <= MaxDeltas[r]
        /\ text' = [text EXCEPT ![r] = s] /\ text'[r] = s /\ shown' = shown \cup {r}
        /\ IF r \in Voice THEN Acquire(r, s) ELSE UNCHANGED speech
        /\ UNCHANGED <<sessionVars, gateway, flags, process, writing>>
    BY <1>8 DEF Delta, Sentences, StreamTypeOK
  <2> HIDE DEF s
  <2>2. SpeechTypeOK' /\ SpeechInv'
    BY <2>1, SentenceKeeps DEF StreamTypeOK, SpeechTypeOK
  <2>3. StreamTypeOK'
    <3>1. shown' \subseteq Requests /\ text' \in [Requests -> Nat] /\ \A q \in Requests : text'[q] <= MaxDeltas[q]
      BY <2>1 DEF StreamTypeOK
    <3> QED BY <1>1, <2>1, <2>2, <3>1 DEF StreamTypeOK, SpeechTypeOK
  <2>4. EndInv' /\ OneEnding'
    BY <2>1 DEF EndInv, OneEnding
  <2>5. PlaceInv' /\ SavedInv'
    BY <1>1, <2>1 DEF PlaceInv, Closed, SavedInv, HasTurn, Gone
  <2> QED BY <1>1, <2>1, <2>2, <2>3, <2>4, <2>5
<1>9. CASE Answer(r)
  <2>1. /\ at[r] = "llm" /\ MaxDeltas[r] > 0 /\ at' = [at EXCEPT ![r] = "saving"] /\ shown' = shown
        /\ writer' = [writer EXCEPT ![r]["assistant"] = "turn"]
        /\ UNCHANGED <<sessionVars, gateway, flags, mine, placed, got>>
    BY <1>9 DEF Answer
  <2>2. text' \in [Requests -> Nat] /\ (\A q \in Requests : text'[q] <= MaxDeltas[q]) /\ SpeechTypeOK' /\ SpeechInv'
    <3>1. CASE text[r] = 0
      <4>1. /\ 1 \in Sentences(r) /\ 1 > text[r] /\ text' = [text EXCEPT ![r] = 1]
            /\ IF r \in Voice THEN Acquire(r, 1) ELSE UNCHANGED speech
        BY <1>9, <2>1, <3>1 DEF Answer, Sentences
      <4>2. SpeechTypeOK' /\ SpeechInv'
        BY <4>1, SentenceKeeps DEF StreamTypeOK, SpeechTypeOK
      <4> QED BY <2>1, <4>1, <4>2 DEF StreamTypeOK
    <3>2. CASE text[r] # 0
      <4>1. text' = text /\ UNCHANGED speech
        BY <1>9, <3>2 DEF Answer, StreamTypeOK
      <4> QED BY <4>1, SpeechKept DEF StreamTypeOK, SpeechTypeOK, Sentences
    <3> QED BY <3>1, <3>2
  <2>3. StreamTypeOK'
    <3>1. writer' \in WriterType
      <4>1. writer \in WriterType
        BY DEF StreamTypeOK, WriterType
      <4> QED BY <2>1, <4>1 DEF WriterType
    <3>2. at' \in [Requests -> Counters]
      BY <2>1 DEF StreamTypeOK
    <3> QED BY <1>1, <2>1, <2>2, <3>1, <3>2 DEF StreamTypeOK, SpeechTypeOK, WriterType
  <2>4. EndInv' /\ OneEnding'
    BY <2>1 DEF StreamTypeOK, EndInv, OneEnding
  <2>5. PlaceInv'
    BY <1>1, <2>1 DEF StreamTypeOK, PlaceInv, Closed, Gone
  <2>6. SavedInv'
    BY <1>1, <2>1 DEF StreamTypeOK, SavedInv, HasTurn, Gone
  <2> QED BY <1>1, <2>1, <2>2, <2>3, <2>4, <2>5, <2>6
<1>10. ASSUME NEW s \in Sentences(r), SpeechEnds(r, s) PROVE IInv'
  <2>1. UNCHANGED <<sessionVars, gateway, flags, process, output, writing>>
    BY <1>10 DEF SpeechEnds
  <2>2. SpeechTypeOK' /\ SpeechInv'
    BY <1>10, <2>1, SpeechEndsKeeps DEF StreamTypeOK, SpeechTypeOK
  <2>3. StreamTypeOK'
    BY <1>1, <2>1, <2>2 DEF StreamTypeOK, SpeechTypeOK
  <2>4. EndInv' /\ OneEnding' /\ PlaceInv' /\ SavedInv'
    BY <1>1, <2>1 DEF EndInv, OneEnding, PlaceInv, Closed, SavedInv, HasTurn, Gone
  <2> QED BY <1>1, <2>1, <2>2, <2>3, <2>4
<1>11. CASE StopAnswer(r)
  BY <1>2, <1>11 DEF StopAnswer
<1> QED
  BY <1>2, <1>3, <1>4, <1>5, <1>6, <1>7, <1>8, <1>9, <1>10, <1>11 DEF ReadHistory, BuildPrompt, Complete

(* A stream writes a turn. *)
LEMMA TurnKeeps ==
  ASSUME SessionInv, NEW t, t.iter \in Numbers, turns' = turns \cup {t},
         UNCHANGED <<row, iter, caches, coins, assessed, pc, seen, gate>>
  PROVE  SessionInv' /\ RowsAge
<1> USE DEF SessionInv
<1>1. SessionTypeOK' /\ CommandInv'
  BY DEF SessionTypeOK, CommandInv, UsesIteration
<1>2. FreshInv' /\ IterationInv' /\ ClosedInv'
  BY DEF FreshInv, IterationInv, ClosedInv, Closed, Gone, Exists
<1>3. ReplyInv' /\ CoinInv' /\ RowsAge
  BY DEF ReplyInv, CoinInv, Backed, Took, RowsAge, Gone
<1> QED BY <1>1, <1>2, <1>3

TurnType == [user : Users, iter : Numbers, order : Nat, by : Requests \cup {None}, kind : Writers]

(* A writer moves on, and has its turn once it is past "turn".               *)
WriterMoves(r, k, to) ==
  /\ writer[r][k] \notin {"off", "done"} /\ writer' = [writer EXCEPT ![r][k] = to]
  /\ to # "failed" => HasTurn(r, k)'
  /\ turns' \subseteq TurnType /\ got' \in [Requests -> [Writers -> Nat]]
  /\ UNCHANGED <<gateway, flags, process, output, speech>>

(* A writer that moves on without touching its turn.                         *)
LEMMA WriterKeeps ==
  ASSUME NEW r \in Requests, NEW k \in Writers, NEW to \in {"message", "get", "set", "done", "failed"},
         StreamInv, RowsAge, WriterMoves(r, k, to)
  PROVE  StreamInv'
<1> USE DEF StreamInv, WriterMoves
<1>1. writer \in WriterType /\ writer' \in WriterType
  <2>1. writer \in WriterType
    BY DEF StreamTypeOK, WriterType
  <2> QED BY <2>1 DEF WriterType
<1>2. \A q \in Requests, j \in Writers : writer'[q][j] = IF q = r /\ j = k THEN to ELSE writer[q][j]
  BY <1>1 DEF WriterType
<1>3. StreamTypeOK'
  BY <1>1 DEF StreamTypeOK, WriterType, TurnType
<1>4. PlaceInv'
  <2>1. \A q \in Requests : User(q) \in Users /\ mine[q].iter \in {0} \cup Numbers
    BY DEF StreamTypeOK
  <2>2. \A q \in Requests : Closed(User(q), mine[q].iter) => Closed(User(q), mine[q].iter)'
    BY <2>1 DEF RowsAge, Closed
  <2> QED BY <1>2, <2>2 DEF RowsAge, PlaceInv
<1>5. EndInv' /\ OneEnding'
  BY DEF EndInv, OneEnding
<1>6. \A q \in Requests, j \in Writers : HasTurn(q, j) => HasTurn(q, j)'
  BY DEF HasTurn, RowsAge
<1>7. SavedInv'
  BY <1>2, <1>6 DEF SavedInv
<1> QED BY <1>3, <1>4, <1>5, <1>7, SpeechKept

(* Every step of a writer: a turn it saves is one of an iteration that exists. *)
LEMMA WriteKeeps ==
  ASSUME NEW r \in Requests, NEW k \in Writers, IInv, Write(r, k) PROVE IInv'
<1> USE DEF IInv, WriterAt
<1>0. /\ User(r) \in Users
      /\ writer[r][k] # "off" => mine[r].iter \in Numbers
      /\ writer[r][k] \in {"message", "get", "set", "done"} => HasTurn(r, k)
      /\ turns \subseteq TurnType
      /\ got \in [Requests -> [Writers -> Nat]]
      /\ OrderOf(r, k) \in Nat
  BY DEF StreamInv, StreamTypeOK, TurnType, PlaceInv, SavedInv, OrderOf, UserOrder, AssistantOrder
<1>1. CASE WriteTurn(r, k)
  <2> DEFINE t == [user |-> User(r), iter |-> mine[r].iter, order |-> OrderOf(r, k), by |-> r, kind |-> k]
  <2>1. /\ writer[r][k] = "turn" /\ writer' = [writer EXCEPT ![r][k] = "message"] /\ turns' = turns \cup {t}
        /\ UNCHANGED <<row, iter, caches, coins, assessed, pc, seen, gate>>
        /\ UNCHANGED <<gateway, flags, process, output, got, speech>>
    BY <1>1 DEF WriteTurn
  <2>2. t \in TurnType
    BY <1>0, <2>1 DEF TurnType
  <2>3. t.by = r /\ t.kind = k /\ t.iter \in Numbers
    BY <1>0, <2>1
  <2> HIDE DEF t
  <2>4. SessionInv' /\ RowsAge
    BY <2>1, <2>3, TurnKeeps
  <2>5. HasTurn(r, k)'
    BY <2>1, <2>3 DEF HasTurn
  <2>6. turns' \subseteq TurnType
    BY <1>0, <2>1, <2>2
  <2>7. WriterMoves(r, k, "message")
    BY <1>0, <2>1, <2>5, <2>6 DEF WriterMoves
  <2>8. StreamInv'
    BY <2>4, <2>7, WriterKeeps
  <2> QED BY <2>4, <2>8
<1>2. ASSUME NEW to \in {"get", "set", "done", "failed"}, writer[r][k] \notin {"off", "done"},
             writer' = [writer EXCEPT ![r][k] = to],
             to # "failed" => writer[r][k] \in {"message", "get", "set"},
             got' \in [Requests -> [Writers -> Nat]],
             UNCHANGED <<postgres, gateway, flags, process, output, speech>>, SessionInv', RowsAge
      PROVE  IInv'
  <2>1. to # "failed" => HasTurn(r, k)'
    BY <1>0, <1>2 DEF HasTurn, Gone
  <2>2. turns' \subseteq TurnType
    BY <1>0, <1>2
  <2>3. WriterMoves(r, k, to)
    BY <1>2, <2>1, <2>2 DEF WriterMoves
  <2>4. StreamInv'
    BY <1>2, <2>3, WriterKeeps
  <2> QED BY <1>2, <2>4
<1>3. CASE WriteMessage(r, k) \/ PlaceLost(r, k) \/ WriterFails(r, k)
  <2>1. /\ UNCHANGED <<sessionVars, gateway, flags, process, output, got, speech>>
        /\ \E to \in {"get", "set", "done", "failed"} :
             /\ writer[r][k] \notin {"off", "done"} /\ writer' = [writer EXCEPT ![r][k] = to]
             /\ to # "failed" => writer[r][k] \in {"message", "get", "set"}
    BY <1>3 DEF WriteMessage, PlaceLost, WriterFails
  <2>2. SessionInv' /\ RowsAge /\ UNCHANGED postgres
    BY <2>1, SessionStutters DEF sessionVars
  <2> QED BY <1>0, <1>2, <2>1, <2>2
<1>4. CASE ReadPlace(r, k)
  <2>1. /\ UNCHANGED <<sessionVars, gateway, flags, process, output, speech>>
        /\ writer[r][k] = "get" /\ writer' = [writer EXCEPT ![r][k] = "set"]
    BY <1>4 DEF ReadPlace
  <2>2. SessionInv' /\ RowsAge /\ UNCHANGED postgres
    BY <2>1, SessionStutters DEF sessionVars
  <2>3. got' \in [Requests -> [Writers -> Nat]]
    <3>1. cachedPlace[User(r)] # None => cachedPlace[User(r)].last \in Nat
      BY <1>0 DEF SessionInv, SessionTypeOK, Places
    <3> QED BY <1>0, <1>4, <3>1 DEF ReadPlace
  <2> QED BY <1>2, <2>1, <2>2, <2>3
<1>5. CASE WritePlace(r, k)
  <2>1. PICK order \in Nat :
          cachedPlace' = [cachedPlace EXCEPT ![User(r)] = [iter |-> mine[r].iter, last |-> order]]
    <3> DEFINE last == IF got[r][k] > OrderOf(r, k) THEN got[r][k] ELSE OrderOf(r, k)
    <3>1. last \in Nat
      BY <1>0
    <3>2. cachedPlace' = [cachedPlace EXCEPT ![User(r)] = [iter |-> mine[r].iter, last |-> last]]
      BY <1>5 DEF WritePlace
    <3> QED BY <3>1, <3>2
  <2>2. /\ writer[r][k] = "set" /\ writer' = [writer EXCEPT ![r][k] = "done"]
        /\ UNCHANGED <<postgres, cachedSession, coins, assessed, pc, seen, gate>>
        /\ UNCHANGED <<gateway, flags, process, output, got, speech>>
    BY <1>5 DEF WritePlace
  <2>3. /\ cachedPlace' \in [Users -> Places \cup {None}]
        /\ cachedSession' \in {None, "active", "ended"}
    BY <1>0, <2>1, <2>2 DEF SessionInv, SessionTypeOK, Places
  <2>4. SessionInv' /\ RowsAge
    BY <2>2, <2>3, CachesKeep
  <2> QED BY <1>0, <1>2, <2>2, <2>4
<1> QED BY <1>1, <1>3, <1>4, <1>5 DEF Write

(* The gateway starts streams and cuts them off. *)
LEMMA GatewayKeeps ==
  ASSUME IInv, (\E r \in Requests : StartStream(r) \/ Timeout(r) \/ ClientCancel(r)) \/ (\E u \in Users : Disconnect(u))
  PROVE  IInv'
<1> USE DEF IInv
<1>1. UNCHANGED sessionVars
  BY DEF StartStream, Timeout, ClientCancel, Disconnect
<1>2. SessionInv' /\ UNCHANGED postgres
  BY <1>1, SessionStutters DEF sessionVars
<1>3. ASSUME NEW r \in Requests, StartStream(r) PROVE StreamInv'
  <2>1. /\ at[r] = "idle" /\ row.status # "none" /\ at' = [at EXCEPT ![r] = "session"]
        /\ streams' = streams \cup {r} /\ timer' = timer \cup {r} /\ known' = known \cup {r}
        /\ UNCHANGED <<told, cancelled, finished, closed, final, mine, placed, output, writing, speech>>
    BY <1>3 DEF StartStream, Proceed
  <2> USE DEF StreamInv
  <2>2. StreamTypeOK'
    <3>1. /\ streams' \subseteq Requests /\ timer' \subseteq Requests /\ known' \subseteq Requests
          /\ at' \in [Requests -> Counters]
      BY <2>1 DEF StreamTypeOK
    <3> QED BY <1>2, <2>1, <3>1 DEF StreamTypeOK
  <2>3. PlaceInv' /\ SavedInv'
    BY <1>2, <2>1 DEF StreamTypeOK, PlaceInv, Closed, SavedInv, HasTurn, Gone
  <2>4. EndInv' /\ OneEnding'
    BY <2>1 DEF StreamTypeOK, EndInv, OneEnding
  <2> QED BY <2>1, <2>2, <2>3, <2>4, SpeechKept
<1>4. ASSUME NEW r \in Requests, Timeout(r) PROVE StreamInv'
  <2>1. CASE r \in streams
    <3>1. /\ Cut({r}) /\ streams' = streams \ {r} /\ timer' \subseteq timer
          /\ told' = [told EXCEPT ![r] = @ \cup {"error"}]
          /\ UNCHANGED <<finished, process, output, got, speech>>
      BY <1>4, <2>1 DEF Timeout
    <3>2. /\ told' \in [Requests -> SUBSET {"completed", "end", "error"}]
          /\ \A q \in Requests : told'[q] = IF q \in {r} THEN told[q] \cup {"error"} ELSE told[q]
      BY <3>1 DEF StreamInv, StreamTypeOK
    <3>3. CutsOff({r}, {r})
      BY <1>2, <2>1, <3>1, <3>2 DEF CutsOff
    <3> QED BY <3>3, CutKeeps
  <2>2. CASE r \notin streams
    <3>1. /\ timer' \subseteq timer
          /\ UNCHANGED <<streams, told, flags, process, output, writing, speech>>
      BY <1>4, <2>2 DEF Timeout
    <3> USE DEF StreamInv
    <3>2. StreamTypeOK'
      BY <1>2, <3>1 DEF StreamTypeOK
    <3>3. PlaceInv' /\ SavedInv'
      BY <1>2, <3>1 DEF PlaceInv, Closed, SavedInv, HasTurn, Gone
    <3>4. EndInv' /\ OneEnding'
      BY <3>1 DEF EndInv, OneEnding
    <3> QED BY <3>1, <3>2, <3>3, <3>4, SpeechKept
  <2> QED BY <2>1, <2>2
<1>5. ASSUME NEW R \in SUBSET streams, Cut(R), streams' = streams \ R, timer' \subseteq timer, told' = told,
             UNCHANGED <<finished, process, output, got, speech>>
      PROVE  StreamInv'
  <2>1. /\ told' \in [Requests -> SUBSET {"completed", "end", "error"}]
        /\ \A q \in Requests : told'[q] = IF q \in {} THEN told[q] \cup {"error"} ELSE told[q]
    BY <1>5 DEF StreamInv, StreamTypeOK
  <2>2. CutsOff(R, {})
    BY <1>2, <1>5, <2>1 DEF CutsOff
  <2> QED BY <2>2, CutKeeps
<1>6. ASSUME NEW r \in Requests, ClientCancel(r) PROVE StreamInv'
  <2>1. {r} \in SUBSET streams
    BY <1>6 DEF ClientCancel
  <2> QED BY <1>5, <1>6, <2>1 DEF ClientCancel
<1>7. ASSUME NEW u \in Users, Disconnect(u) PROVE StreamInv'
  <2> DEFINE R == {r \in streams : User(r) = u}
  <2>1. /\ Cut(R) /\ streams' = streams \ R /\ timer' \subseteq timer /\ told' = told
        /\ UNCHANGED <<finished, process, output, got, speech>>
    BY <1>7 DEF Disconnect
  <2>2. R \in SUBSET streams
    OBVIOUS
  <2> HIDE DEF R
  <2> QED BY <1>5, <2>1, <2>2
<1> QED BY <1>2, <1>3, <1>4, <1>6, <1>7

-----------------------------------------------------------------------------
(* Sessions start as their workload says, streams not at all.                *)
LEMMA InitIInv == Init => IInv
BY InitSessionInv, InitStreamInv DEF Init, IInv

(* Commands and streams keep each other's half of the invariant.             *)
LEMMA NextIInv == IInv /\ [Next]_vars => IInv'
<1> SUFFICES ASSUME IInv, [Next]_vars PROVE IInv'
  OBVIOUS
<1>1. ASSUME NEW c \in Commands, CommandStep(c), UNCHANGED streamVars PROVE IInv'
  <2>1. SessionInv'
    BY <1>1, CommandKeeps DEF IInv
  <2>2. StreamInv'
    BY <1>1, CommandKeepsStreams
  <2> QED BY <2>1, <2>2 DEF IInv
<1>2. ASSUME NEW r \in Requests, StreamStep(r) PROVE IInv'
  <2>1. CASE StartStream(r) \/ Timeout(r) \/ ClientCancel(r)
    BY <2>1, GatewayKeeps
  <2>2. CASE \/ GetCachedSession(r) \/ ReadSession(r) \/ FillSessionCache(r) \/ GetCachedPlace(r)
             \/ FindIteration(r) \/ ReadLastTurn(r) \/ SharePlace(r)
    BY <2>2, EarlyKeeps
  <2>3. CASE CloseIteration(r) \/ ReopenSession(r) \/ CreateIteration(r)
    BY <2>3, IterationKeeps
  <2>4. CASE \/ ReadHistory(r) \/ BuildPrompt(r) \/ Delta(r) \/ Answer(r) \/ StopAnswer(r)
             \/ TurnSaved(r) \/ Complete(r) \/ Finish(r) \/ StreamFails(r)
             \/ \E s \in Sentences(r) : SpeechEnds(r, s)
    BY <2>4, LateKeeps
  <2>5. CASE \E k \in Writers : Write(r, k)
    BY <2>5, WriteKeeps
  <2> QED BY <1>2, <2>1, <2>2, <2>3, <2>4, <2>5 DEF StreamStep, Advance
<1>3. ASSUME NEW u \in Users, Disconnect(u) PROVE IInv'
  BY <1>3, GatewayKeeps
<1>4. CASE UNCHANGED vars
  <2>1. UNCHANGED <<sessionVars, gateway, flags, process, output, writing, speech>>
    BY <1>4 DEF vars, streamVars
  <2>2. SessionInv'
    BY <2>1, SessionStutters DEF IInv
  <2> USE DEF IInv, StreamInv
  <2>3. StreamTypeOK'
    BY <2>1 DEF StreamTypeOK, sessionVars
  <2>4. PlaceInv' /\ SavedInv'
    BY <2>1 DEF PlaceInv, Closed, SavedInv, HasTurn, Gone, sessionVars
  <2>5. EndInv' /\ OneEnding'
    BY <2>1 DEF EndInv, OneEnding
  <2> QED BY <2>1, <2>2, <2>3, <2>4, <2>5, SpeechKept
<1> QED BY <1>1, <1>2, <1>3, <1>4 DEF Next

(* IInv is an invariant of a session with its commands and streams. *)
THEOREM Inductive == Spec => []IInv
BY InitIInv, NextIInv, PTL DEF Spec

(* Types of the rows, the caches, the coins, and of every counter and flag;  *)
(* with them the bound on a stream's text.                                  *)
THEOREM TypeCorrect == Spec => []TypeOK
<1>1. IInv => TypeOK
  BY DEF IInv, SessionInv, StreamInv, TypeOK
<1> QED BY <1>1, Inductive, PTL

(* A member has one open iteration, the latest, whatever commands and        *)
(* streams close, reopen and create in between.                             *)
THEOREM OneOpenIteration == Spec => []OneActiveIteration
<1>1. IInv => OneActiveIteration
  BY SessionInvImplies DEF IInv
<1> QED BY <1>1, Inductive, PTL

(* A settlement names a reservation that took coins, and gives back no more  *)
(* than it took, or than a restart took whose request came twice.           *)
THEOREM SettlementsBacked == Spec => []SettlesWhatItHeld
<1>1. IInv => SettlesWhatItHeld
  BY SessionInvImplies DEF IInv
<1> QED BY <1>1, Inductive, PTL

(* An iteration whose assessment was requested by what ended it is not open  *)
(* again, although streams close and create iterations meanwhile.           *)
THEOREM AssessmentsOfClosed == Spec => []AssessedIsClosed
<1>1. IInv => AssessedIsClosed
  BY SessionInvImplies DEF IInv
<1> QED BY <1>1, Inductive, PTL

(* The client is told that an answer is complete only when it is a row. *)
THEOREM AnswersAreSaved == Spec => []CompletedIsSaved
<1>1. IInv => CompletedIsSaved
  BY DEF IInv, StreamInv, SavedInv, HasTurn, Gone, CompletedIsSaved, AnswerOf
<1> QED BY <1>1, Inductive, PTL

(* A stream ends for the client once, whether the timer, the client or the   *)
(* service is first.                                                        *)
THEOREM OneEndPerStream == Spec => []OneEnding
<1>1. IInv => OneEnding
  BY DEF IInv, StreamInv
<1> QED BY <1>1, Inductive, PTL

(* The semaphore of a request's speech loses and invents no permit. *)
THEOREM SpeechIsBounded == Spec => []SpeechBounded
<1>1. IInv => SpeechBounded
  BY DEF IInv, StreamInv, SpeechInv, Running, SpeechBounded
<1> QED BY <1>1, Inductive, PTL
=============================================================================
