--------------------------- MODULE ConversationTurns ---------------------------
(***************************************************************************)
(* The turns of a session's conversations: streams that the WebSocket      *)
(* gateway starts and cuts off, and that the orchestration service, in the *)
(* same process, turns into rows of Postgres and caches of Redis.  A       *)
(* request is one stream: the method process(), its fire-and-forget        *)
(* writers and its speech jobs, interleaved with each other, with later    *)
(* streams and with the commands of SessionLifecycle.                      *)
(***************************************************************************)
EXTENDS SessionLifecycle

CONSTANTS
  Requests, UserOf,    \* request ids and the member each comes from
  AsAssistant,         \* requests in which the persona speaks first
  Voice,               \* requests whose sentences are spoken
  TtsPermits,          \* syntheses at a time, of one request
  MaxDeltas,           \* bound: pieces of text the model streams for a request,
                       \* 0 when it hangs and says nothing
  MaxStreams           \* bound: streams the gateway holds at a time

Writers == {"user", "assistant", "cut"}
Sentences(r) == 1..MaxDeltas[r]

ASSUME ConversationAssumption ==
  /\ UserOf \in [Requests -> Users]
  /\ AsAssistant \subseteq Requests /\ Voice \subseteq Requests
  /\ MaxDeltas \in [Requests -> Nat]
  /\ TtsPermits \in Nat \ {0} /\ MaxStreams \in Nat /\ None \notin Requests

VARIABLES
  streams, timer,      \* gateway: activeStreams, armed 60 s timers
  told,                \* what the client was sent besides text and speech
  known,               \* orchestrator: activeRequests
  cancelled, finished, closed,       \* flags of a request and of its subscriber
  final,               \* requests that have a finalizePromise
  text, shown,         \* requestState.fullText, as its length; text reached the client
  at, mine, placed,    \* process(): counter, what it read, fields of requestState set
  writer, got,         \* writers of turns and cached places: counter, order read
  job, permits         \* speech: sentences, free permits of the semaphore

gateway == <<streams, timer, told>>
flags == <<known, cancelled, finished, closed, final>>
process == <<at, mine, placed>>
output == <<text, shown>>
writing == <<writer, got>>
speech == <<job, permits>>
streamVars == <<gateway, flags, process, output, writing, speech>>
vars == <<sessionVars, streamVars>>

Place(n, last, forced) == [iter |-> n, last |-> last, forced |-> forced]

InitStreams(w) ==
  /\ streams = {} /\ timer = {} /\ told = [r \in Requests |-> {}]
  /\ known = {} /\ cancelled = {} /\ finished = {} /\ closed = {} /\ final = {}
  /\ text = [r \in Requests |-> 0] /\ shown = {}
  /\ at = [r \in Requests |-> IF r \in w THEN "idle" ELSE "off"]
  /\ mine = [r \in Requests |-> Place(0, 0, FALSE)] /\ placed = {}
  /\ writer = [r \in Requests |-> [k \in Writers |-> "off"]]
  /\ got = [r \in Requests |-> [k \in Writers |-> 0]]
  /\ job = [r \in Requests |-> [s \in Sentences(r) |-> "none"]]
  /\ permits = [r \in Requests |-> TtsPermits]

Init == \E w \in Workloads : InitSession(w) /\ InitStreams(w)

User(r) == UserOf[r]
Proceed(r, to) == at' = [at EXCEPT ![r] = to]
(* isCancelled: flagged or aborted, or the subscriber is gone. *)
Stopped(r) == r \in cancelled \cup closed
UserOrder(r) == mine[r].last + 1
AssistantOrder(r) == IF r \in AsAssistant THEN UserOrder(r) ELSE UserOrder(r) + 1
Saved(r, k) == writer[r][k] \in {"get", "set", "done"}

-----------------------------------------------------------------------------
(* Cutting a stream off, and its end *)

(* finalizeInterruptedRequest: the text the client has is saved, once.       *)
FinalizeInterrupted(R) ==
  LET texts == {r \in R : text[r] > 0 /\ r \in placed} IN
  /\ final' = final \cup R
  /\ writer' = [r \in Requests |-> IF r \in texts THEN [writer[r] EXCEPT !["cut"] = "turn"] ELSE writer[r]]

\* mutant: the request is forgotten before it is cancelled
CutForgetful(R) ==
  /\ closed' = closed \cup R /\ known' = known \ R
  /\ UNCHANGED <<cancelled, final, writer>>

(* unsubscribe() of the requests R: the teardown cancels those that are not  *)
(* finished, which saves their text unless their turn is saved already; then *)
(* it forgets them.                                                         *)
Cut(R) ==
  LET live == (R \cap known) \ finished IN
  /\ closed' = closed \cup R /\ known' = known \ R
  /\ cancelled' = cancelled \cup live
  /\ FinalizeInterrupted({r \in live \ final : ~Saved(r, "assistant")})

\* mutant: the client is told of the end although it was cut off before
ConcludeAnyway(r, to, message) ==
  /\ Proceed(r, to)
  /\ finished' = finished \cup {r}
  /\ closed' = closed \cup {r} /\ known' = known \ {r}
  /\ streams' = streams \ {r} /\ timer' = timer \ {r}
  /\ told' = [told EXCEPT ![r] = @ \cup {message}]
  /\ UNCHANGED <<cancelled, final, mine, placed>>

(* process() is over: if the subscriber is still there, it completes or      *)
(* fails, the gateway tells the client, and the teardown forgets the request. *)
Conclude(r, to, message) ==
  /\ Proceed(r, to)
  /\ finished' = finished \cup {r}
  /\ IF r \in closed THEN UNCHANGED <<gateway, closed, known>>
     ELSE /\ closed' = closed \cup {r} /\ known' = known \ {r}
          /\ streams' = streams \ {r} /\ timer' = timer \ {r}
          /\ told' = [told EXCEPT ![r] = @ \cup {message}]
  /\ UNCHANGED <<cancelled, final, mine, placed>>

(* throwIfCancelled after an await *)
Quit(r) ==
  /\ Stopped(r)
  /\ Conclude(r, "cancelled", "end")
  /\ UNCHANGED <<sessionVars, output, writing, speech>>

-----------------------------------------------------------------------------
(* The gateway *)

StartStream(r) ==
  /\ at[r] = "idle" /\ row.status # "none" /\ Cardinality(streams) < MaxStreams
  /\ streams' = streams \cup {r} /\ timer' = timer \cup {r} /\ known' = known \cup {r}
  /\ Proceed(r, "session")
  /\ UNCHANGED <<sessionVars, told, cancelled, finished, closed, final, mine, placed,
                 output, writing, speech>>

\* mutant: a stream whose text is complete is left to its end
TimeoutUnlessCompleted(r) ==
  /\ r \in timer
  /\ timer' = timer \ {r}
  /\ IF r \in streams /\ "completed" \notin told[r]
       THEN /\ Cut({r})
            /\ streams' = streams \ {r} /\ told' = [told EXCEPT ![r] = @ \cup {"error"}]
       ELSE UNCHANGED <<streams, told, closed, known, cancelled, final, writer>>
  /\ UNCHANGED <<sessionVars, finished, process, output, got, speech>>

(* 60 seconds after the start, unless cleared. *)
Timeout(r) ==
  /\ r \in timer
  /\ timer' = timer \ {r}
  /\ IF r \in streams
       THEN /\ Cut({r})
            /\ streams' = streams \ {r} /\ told' = [told EXCEPT ![r] = @ \cup {"error"}]
       ELSE UNCHANGED <<streams, told, closed, known, cancelled, final, writer>>
  /\ UNCHANGED <<sessionVars, finished, process, output, got, speech>>

(* The client interrupts; the timer stays armed.  Without a stream the       *)
(* request is only acknowledged.                                            *)
ClientCancel(r) ==
  /\ r \in streams
  /\ Cut({r})
  /\ streams' = streams \ {r}
  /\ UNCHANGED <<sessionVars, timer, told, finished, process, output, got, speech>>

(* The socket of a member closes with all streams on it. *)
Disconnect(u) ==
  LET R == {r \in streams : User(r) = u} IN
  /\ R # {}
  /\ Cut(R)
  /\ streams' = streams \ R /\ timer' = timer \ R
  /\ UNCHANGED <<sessionVars, told, finished, process, output, got, speech>>

-----------------------------------------------------------------------------
(* process(): session, member, iteration *)

Hold(r, n, last, forced) == mine' = [mine EXCEPT ![r] = Place(n, last, forced)]

(* With the session's status: an ended session gets a new iteration, and the *)
(* cached place is not looked at.                                           *)
Enter(r, status) ==
  /\ ~Stopped(r)
  /\ Hold(r, 0, 0, status = "ended")
  /\ Proceed(r, IF status = "ended" THEN "member" ELSE "place")
  /\ UNCHANGED <<gateway, flags, placed, output, writing, speech>>

GetCachedSession(r) ==
  /\ at[r] = "session"
  /\ \/ cachedSession # None /\ Enter(r, cachedSession) /\ UNCHANGED sessionVars
     \/ cachedSession # None /\ Quit(r)
     \/ /\ cachedSession = None
        /\ Proceed(r, "row")
        /\ UNCHANGED <<sessionVars, gateway, flags, mine, placed, output, writing, speech>>

(* The row is read, and cached with the status it had then. *)
ReadSession(r) ==
  /\ at[r] = "row" /\ Exists
  /\ Hold(r, 0, 0, row.status = "ended")
  /\ Proceed(r, "fill")
  /\ UNCHANGED <<sessionVars, gateway, flags, placed, output, writing, speech>>

FillSessionCache(r) ==
  /\ at[r] = "fill"
  /\ LET status == IF mine[r].forced THEN "ended" ELSE "active" IN
     \/ /\ Enter(r, status) /\ cachedSession' = status
        /\ UNCHANGED <<postgres, cachedPlace, coins, assessed, pc, seen, gate>>
     \/ /\ Stopped(r) /\ Conclude(r, "cancelled", "end") /\ cachedSession' = status
        /\ UNCHANGED <<postgres, cachedPlace, coins, assessed, pc, seen, gate, output, writing, speech>>

GetCachedPlace(r) ==
  /\ at[r] = "place"
  /\ \/ Quit(r)
     \/ /\ ~Stopped(r)
        /\ LET p == cachedPlace[User(r)] IN
           IF p = None THEN Proceed(r, "member") /\ UNCHANGED mine
           ELSE Proceed(r, "history") /\ Hold(r, p.iter, p.last, FALSE)
        /\ UNCHANGED <<sessionVars, gateway, flags, placed, output, writing, speech>>

(* getOrCreateIteration, after the member was found or made: from here to   *)
(* the history no await looks whether the request was cancelled.            *)
FindIteration(r) ==
  /\ at[r] = "member" /\ Exists
  /\ \E n \in {0} \cup Numbers :
       /\ IsLatest(User(r), n)
       /\ LET open == StatusOf(User(r), n) = "active"
              forced == mine[r].forced IN
          /\ Hold(r, n, 0, forced)
          /\ Proceed(r, IF open THEN IF forced THEN "close" ELSE "last"
                        ELSE IF forced THEN "reopen" ELSE "create")
  /\ UNCHANGED <<sessionVars, gateway, flags, placed, output, writing, speech>>

CloseIteration(r) ==
  /\ at[r] = "close" /\ iter[User(r)][mine[r].iter] # "none"
  /\ iter' = [iter EXCEPT ![User(r)][mine[r].iter] = "completed"]
  /\ Proceed(r, "reopen")
  /\ UNCHANGED <<row, turns, caches, coins, assessed, pc, seen, gate,
                 gateway, flags, mine, placed, output, writing, speech>>

ReopenSession(r) ==
  /\ at[r] = "reopen" /\ Exists
  /\ row' = [row EXCEPT !.status = "active"]
  /\ Proceed(r, "create")
  /\ UNCHANGED <<iter, turns, caches, coins, assessed, pc, seen, gate,
                 gateway, flags, mine, placed, output, writing, speech>>

CreateIteration(r) ==
  LET n == mine[r].iter + 1 IN
  /\ at[r] = "create" /\ n \in Numbers /\ Exists /\ iter[User(r)][n] = "none"
  /\ iter' = [iter EXCEPT ![User(r)][n] = "active"]
  /\ Hold(r, n, 0, mine[r].forced)
  /\ Proceed(r, "last")
  /\ UNCHANGED <<row, turns, caches, coins, assessed, pc, seen, gate,
                 gateway, flags, placed, output, writing, speech>>

TurnsOf(u, n) == {t \in turns : t.user = u /\ t.iter = n}

ReadLastTurn(r) ==
  /\ at[r] = "last"
  /\ LET orders == {t.order : t \in TurnsOf(User(r), mine[r].iter)} IN
     \E last \in {0} \cup orders :
       /\ \A k \in orders : k <= last
       /\ Hold(r, mine[r].iter, last, mine[r].forced)
  /\ Proceed(r, "share")
  /\ UNCHANGED <<sessionVars, gateway, flags, placed, output, writing, speech>>

(* The place read is cached, and a cached session that had ended dropped. *)
SharePlace(r) ==
  /\ at[r] = "share"
  /\ cachedPlace' = [cachedPlace EXCEPT ![User(r)] = [iter |-> mine[r].iter, last |-> mine[r].last]]
  /\ cachedSession' = IF mine[r].forced THEN None ELSE cachedSession
  /\ Proceed(r, "history")
  /\ UNCHANGED <<postgres, coins, assessed, pc, seen, gate,
                 gateway, flags, mine, placed, output, writing, speech>>

-----------------------------------------------------------------------------
(* process(): the model's answer, its turn, its speech *)

Launch(r, k) == writer' = [writer EXCEPT ![r][k] = "turn"]

(* The history is read; the user's turn is written without waiting for it.   *)
ReadHistory(r) ==
  /\ at[r] = "history"
  /\ \/ Quit(r)
     \/ /\ ~Stopped(r)
        /\ placed' = placed \cup {r}
        /\ IF r \in AsAssistant THEN UNCHANGED writer ELSE Launch(r, "user")
        /\ Proceed(r, "prompt")
        /\ UNCHANGED <<sessionVars, gateway, flags, mine, output, got, speech>>

BuildPrompt(r) ==
  /\ at[r] = "prompt"
  /\ \/ Quit(r)
     \/ /\ ~Stopped(r)
        /\ Proceed(r, "llm")
        /\ UNCHANGED <<sessionVars, gateway, flags, mine, placed, output, writing, speech>>

\* mutant: a sentence does not wait for a permit
AcquireAnyway(r, s) ==
  /\ permits' = [permits EXCEPT ![r] = @ - 1]
  /\ job' = [job EXCEPT ![r][s] = "running"]

\* mutant: the permit taken still counts as free
AcquireLoosely(r, s) ==
  /\ permits' = permits
  /\ job' = [job EXCEPT ![r][s] = IF permits[r] > 0 THEN "running" ELSE "queued"]

(* Semaphore.acquire for sentence s, in the turn of the event loop that     *)
(* detects it.                                                              *)
Acquire(r, s) ==
  IF permits[r] > 0
    THEN /\ permits' = [permits EXCEPT ![r] = @ - 1]
         /\ job' = [job EXCEPT ![r][s] = "running"]
    ELSE job' = [job EXCEPT ![r][s] = "queued"] /\ UNCHANGED permits

(* A piece of text arrives, here always a sentence. *)
Delta(r) ==
  /\ at[r] = "llm" /\ ~Stopped(r) /\ text[r] < MaxDeltas[r]
  /\ text' = [text EXCEPT ![r] = @ + 1] /\ shown' = shown \cup {r}
  /\ IF r \in Voice THEN Acquire(r, text'[r]) ELSE UNCHANGED speech
  /\ UNCHANGED <<sessionVars, gateway, flags, process, writing>>

\* mutant: the assistant's turn is written without waiting for it
AnswerUnawaited(r) ==
  /\ at[r] = "llm" /\ ~Stopped(r) /\ MaxDeltas[r] > 0
  /\ text' = [text EXCEPT ![r] = IF @ = 0 THEN 1 ELSE @] /\ UNCHANGED shown
  /\ IF r \in Voice /\ text[r] = 0 THEN Acquire(r, 1) ELSE UNCHANGED speech
  /\ Launch(r, "assistant")
  /\ Proceed(r, "audio")
  /\ UNCHANGED <<sessionVars, gateway, flags, mine, placed, got>>

(* The model is done; an empty answer is replaced by a fallback. *)
Answer(r) ==
  /\ at[r] = "llm" /\ ~Stopped(r) /\ MaxDeltas[r] > 0
  /\ text' = [text EXCEPT ![r] = IF @ = 0 THEN 1 ELSE @] /\ UNCHANGED shown
  /\ IF r \in Voice /\ text[r] = 0 THEN Acquire(r, 1) ELSE UNCHANGED speech
  /\ Launch(r, "assistant")
  /\ Proceed(r, "saving")
  /\ UNCHANGED <<sessionVars, gateway, flags, mine, placed, got>>

(* The abort handler ends the wait for the model. *)
StopAnswer(r) == at[r] = "llm" /\ Quit(r)

TurnSaved(r) ==
  /\ at[r] = "saving" /\ writer[r]["assistant"] = "done"
  /\ Proceed(r, "audio")
  /\ UNCHANGED <<sessionVars, gateway, flags, mine, placed, output, writing, speech>>

(* Synthesis ends, well or not, or sees that the request was cancelled; the *)
(* permit goes to the longest waiting sentence.                             *)
SpeechEnds(r, s) ==
  /\ job[r][s] = "running"
  /\ \/ \E q \in Sentences(r) :
          /\ job[r][q] = "queued" /\ \A p \in Sentences(r) : job[r][p] = "queued" => q <= p
          /\ job' = [job EXCEPT ![r] = [@ EXCEPT ![s] = "done", ![q] = "running"]]
          /\ UNCHANGED permits
     \/ /\ \A q \in Sentences(r) : job[r][q] # "queued"
        /\ job' = [job EXCEPT ![r][s] = "done"]
        /\ permits' = [permits EXCEPT ![r] = @ + 1]
  /\ UNCHANGED <<sessionVars, gateway, flags, process, output, writing>>

Complete(r) ==
  /\ at[r] = "audio" /\ \A s \in Sentences(r) : job[r][s] \in {"none", "done"}
  /\ \/ Quit(r)
     \/ /\ ~Stopped(r)
        /\ told' = [told EXCEPT ![r] = @ \cup {"completed"}]
        /\ Proceed(r, "analysis")
        /\ UNCHANGED <<sessionVars, streams, timer, flags, mine, placed, output, writing, speech>>

(* Tools, the analysis of the conversation and the stage are awaited. *)
Finish(r) ==
  /\ at[r] = "analysis"
  /\ Conclude(r, "done", "end")
  /\ UNCHANGED <<sessionVars, output, writing, speech>>

(* The model or a database fails, or the session, member or iteration is no  *)
(* longer there; a text in progress is lost.                                *)
StreamFails(r) ==
  /\ \/ at[r] \in {"session", "row", "place", "member", "close", "reopen", "create", "last", "history"}
     \/ at[r] = "llm" /\ ~Stopped(r)
     \/ at[r] = "saving" /\ writer[r]["assistant"] = "failed"
  /\ Conclude(r, "failed", "error")
  /\ UNCHANGED <<sessionVars, output, writing, speech>>

-----------------------------------------------------------------------------
(* The writers: a turn and its message, then the cached place, which is read *)
(* and written back with the larger order.                                  *)

WriterAt(r, k, from, to) == writer[r][k] = from /\ writer' = [writer EXCEPT ![r][k] = to]
OrderOf(r, k) == IF k = "user" THEN UserOrder(r) ELSE AssistantOrder(r)

WriteTurn(r, k) ==
  /\ WriterAt(r, k, "turn", "message") /\ iter[User(r)][mine[r].iter] # "none"
  /\ turns' = turns \cup {[user |-> User(r), iter |-> mine[r].iter, order |-> OrderOf(r, k),
                           by |-> r, kind |-> k]}
  /\ UNCHANGED <<row, iter, caches, coins, assessed, pc, seen, gate,
                 gateway, flags, process, output, got, speech>>

WriteMessage(r, k) ==
  /\ WriterAt(r, k, "message", "get") /\ iter[User(r)][mine[r].iter] # "none"
  /\ UNCHANGED <<sessionVars, gateway, flags, process, output, got, speech>>

(* A read that fails counts as no place, and the write goes on.              *)
ReadPlace(r, k) ==
  /\ WriterAt(r, k, "get", "set")
  /\ LET p == cachedPlace[User(r)] IN
     \E last \in {0} \cup {IF p = None THEN 0 ELSE p.last} : got' = [got EXCEPT ![r][k] = last]
  /\ UNCHANGED <<sessionVars, gateway, flags, process, output, speech>>

WritePlace(r, k) ==
  /\ WriterAt(r, k, "set", "done")
  /\ LET order == IF got[r][k] > OrderOf(r, k) THEN got[r][k] ELSE OrderOf(r, k) IN
     cachedPlace' = [cachedPlace EXCEPT ![User(r)] = [iter |-> mine[r].iter, last |-> order]]
  /\ UNCHANGED <<postgres, cachedSession, coins, assessed, pc, seen, gate,
                 gateway, flags, process, output, got, speech>>

(* The write fails, which nobody is told. *)
PlaceLost(r, k) ==
  /\ WriterAt(r, k, "set", "done")
  /\ UNCHANGED <<sessionVars, gateway, flags, process, output, got, speech>>

(* A database error, or the iteration was deleted. *)
WriterFails(r, k) ==
  /\ \E from \in {"turn", "message"} : WriterAt(r, k, from, "failed")
  /\ UNCHANGED <<sessionVars, gateway, flags, process, output, got, speech>>

-----------------------------------------------------------------------------
Advance(r) ==
  \/ GetCachedSession(r) \/ ReadSession(r) \/ FillSessionCache(r) \/ GetCachedPlace(r)
  \/ FindIteration(r) \/ CloseIteration(r) \/ ReopenSession(r) \/ CreateIteration(r)
  \/ ReadLastTurn(r) \/ SharePlace(r) \/ ReadHistory(r) \/ BuildPrompt(r) \/ StopAnswer(r)
  \/ TurnSaved(r) \/ Complete(r) \/ StreamFails(r)
Write(r, k) ==
  \/ WriteTurn(r, k) \/ WriteMessage(r, k) \/ ReadPlace(r, k) \/ WritePlace(r, k)
  \/ PlaceLost(r, k) \/ WriterFails(r, k)
StreamStep(r) ==
  \/ StartStream(r) \/ Timeout(r) \/ ClientCancel(r)
  \/ Advance(r) \/ Delta(r) \/ Answer(r) \/ Finish(r)
  \/ \E s \in Sentences(r) : SpeechEnds(r, s)
  \/ \E k \in Writers : Write(r, k)

Next ==
  \/ \E c \in Commands : CommandStep(c) /\ UNCHANGED streamVars
  \/ \E r \in Requests : StreamStep(r)
  \/ \E u \in Users : Disconnect(u)

Spec == Init /\ [][Next]_vars

(* Timers fire, and Postgres and Redis answer; a request has finitely many   *)
(* such steps.  The model, the synthesis and the analysis may hang.         *)
Served(r) == Timeout(r) \/ Advance(r) \/ \E k \in Writers : Write(r, k)
FairSpec == Spec /\ \A r \in Requests : WF_vars(Served(r))

-----------------------------------------------------------------------------
Counters == {"off", "idle", "session", "row", "fill", "place", "member", "close", "reopen", "create",
             "last", "share", "history", "prompt", "llm", "saving", "audio", "analysis",
             "done", "cancelled", "failed"}

StreamTypeOK ==
  /\ \A f \in {streams, timer, known, cancelled, finished, closed, final, shown, placed} : f \subseteq Requests
  /\ told \in [Requests -> SUBSET {"completed", "end", "error"}]
  /\ text \in [Requests -> Nat] /\ \A r \in Requests : text[r] <= MaxDeltas[r]
  /\ at \in [Requests -> Counters]
  /\ mine \in [Requests -> [iter : {0} \cup Numbers, last : Nat, forced : BOOLEAN]]
  /\ writer \in [Requests -> [Writers -> {"off", "turn", "message", "get", "set", "done", "failed"}]]
  /\ got \in [Requests -> [Writers -> Nat]]
  /\ DOMAIN job = Requests
  /\ \A r \in Requests : job[r] \in [Sentences(r) -> {"none", "queued", "running", "done"}]
  /\ permits \in [Requests -> 0..TtsPermits]
  /\ turns \subseteq [user : Users, iter : Numbers, order : Nat, by : Requests \cup {None}, kind : Writers]

TypeOK == SessionTypeOK /\ StreamTypeOK

AnswerOf(r) == {t \in turns : t.by = r /\ t.kind # "user"}

(* The client is told that an answer is complete only when the answer is in  *)
(* the database: a reload of the page, or the assessment, finds it.          *)
CompletedIsSaved ==
  \A r \in Requests : "completed" \in told[r] => AnswerOf(r) # {} \/ row.status = "deleted"

(* A stream ends for the client once: never with an end after an error or a  *)
(* timeout, whoever is faster, the timer, the client or the service.         *)
OneEnding ==
  \A r \in Requests : ~({"end", "error"} \subseteq told[r])

(* At most TtsPermits sentences of a request are synthesised at a time; no   *)
(* permit is lost, and no sentence waits while one is free.                  *)
SpeechBounded ==
  \A r \in Requests :
    /\ Cardinality({s \in Sentences(r) : job[r][s] = "running"}) = TtsPermits - permits[r]
    /\ (\E s \in Sentences(r) : job[r][s] = "queued") => permits[r] = 0

(* Every stream comes to an end for gateway and service, even if model and   *)
(* speech hang: nothing of it stays behind in either map.                    *)
StreamsEnd ==
  \A r \in Requests : r \in streams ~> r \notin streams \cup known

(* What the client has seen of an answer is saved in the end, also when the  *)
(* client interrupts, disconnects or the stream times out, unless the model  *)
(* or the database fails.                                                   *)
SeenIsSaved ==
  \A r \in Requests : r \in shown ~>
    AnswerOf(r) # {} \/ at[r] = "failed" \/ row.status = "deleted"
    \/ \E k \in Writers : writer[r][k] = "failed"
=============================================================================
