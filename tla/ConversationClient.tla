--------------------------- MODULE ConversationClient ---------------------------
(***************************************************************************)
(* The browser's side of a conversation: the hook useConversation, which    *)
(* sends turns over a WebSocket, queues the sentences of speech that come   *)
(* back and plays them one after the other, and the session page that       *)
(* pauses, replays, starts over and hangs up.  Handlers run to completion;  *)
(* what happens between them is up to the browser, the user and the server, *)
(* whose own side is the module ConversationTurns.                          *)
(***************************************************************************)
EXTENDS Integers, FiniteSets, Sequences

CONSTANTS
  Requests,            \* turns, those included that the page starts itself
  Workloads,           \* bound: sets of turns that are taken in one behaviour
  MaxAttempts,         \* attempts to reconnect before giving up (3 in the code)
  MaxSentences,        \* bound: sentences of the answer to a turn
  MaxDrops,            \* bound: times the connection is lost or left
  MaxFaults,           \* bound: media errors, failed connections and replays
  None

Sentences(q) == 0..(MaxSentences[q] - 1)
Chunks == UNION {[of : {q}, idx : Sentences(q)] : q \in Requests}
Phases == {"called", "loading", "playing", "blocked", "over"}
ElementsOf(phases) == [chunk : Chunks, phase : phases, then : {"next", "stale", "none"}]

ASSUME ClientAssumption ==
  /\ Workloads \subseteq SUBSET Requests
  /\ MaxSentences \in [Requests -> Nat]
  /\ {MaxAttempts, MaxDrops, MaxFaults} \subseteq Nat
  /\ None \notin Chunks /\ None \notin ElementsOf(Phases) /\ None \notin Requests /\ None \notin Nat

VARIABLES
  conn, attempts,      \* the socket and its reconnect timer, reconnectAttemptsRef
  hungUp,              \* isHungUpRef
  leaving,             \* handleStartOver waits for its interrupt
  current, processing, \* currentRequestIdRef, isProcessing
  call,                \* sendMessage and startAssistantTurn, by turn
  stream, got,         \* server: the stream of a turn, sentences it sent
  player,              \* the audio queue and the audio element, see Quiet
  heard,               \* history: sentences of a turn in the order they sounded
  silenced, cut,       \* history: turns stopped for good, turns whose stream was lost
  stopped, upset,      \* history: the voice was paused; a media error or replay happened
  drops, faults        \* counters of the bounds

connection == <<conn, attempts, hungUp, leaving>>
server == <<stream, got>>
history == <<silenced, cut, stopped, upset>>
bounds == <<drops, faults>>
vars == <<connection, current, processing, call, server, player, heard, history, bounds>>

(* The refs and states of the player.  audio is the current element with its *)
(* sentence, how far it is and what its onEnded does: play the next sentence, *)
(* find that the queue was cleared meanwhile (stale), or nothing (none).      *)
(* orphans sound without being the current element; aborted are the play()   *)
(* promises still to be rejected; allowed is the browser's autoplay policy.  *)
Quiet == [queue |-> {}, next |-> 0, total |-> None, playing |-> FALSE, audio |-> None,
          orphans |-> {}, aborted |-> {}, pending |-> None, url |-> None,
          speaking |-> FALSE, allowed |-> FALSE]

Init ==
  /\ conn = "off" /\ attempts = 0 /\ hungUp = FALSE /\ leaving = FALSE
  /\ current = None /\ processing = FALSE
  /\ \E w \in Workloads : call = [q \in Requests |-> IF q \in w THEN "idle" ELSE "off"]
  /\ stream = [q \in Requests |-> "none"] /\ got = [q \in Requests |-> {}]
  /\ \E a \in BOOLEAN : player = [Quiet EXCEPT !.allowed = a]
  /\ heard = [q \in Requests |-> <<>>]
  /\ silenced = {} /\ cut = {} /\ stopped = FALSE /\ upset = FALSE
  /\ drops = 0 /\ faults = 0

Sent == {q \in Requests : stream[q] # "none"}
Live(q) == stream[q] \in {"open", "completed"}

-----------------------------------------------------------------------------
(* The player: what the callbacks of the hook make of its state p *)

Element(chunk, phase, then) == [chunk |-> chunk, phase |-> phase, then |-> then]
Starting == {"called", "loading"}
Sounding == Starting \cup {"playing"}

(* The element is paused and loses its handlers; play() of one that has not  *)
(* started is rejected later.                                               *)
StopElement(p) ==
  IF p.audio = None THEN p
  ELSE [p EXCEPT !.audio = None, !.url = None, !.speaking = FALSE,
                 !.aborted = IF p.audio.phase \in Starting THEN @ \cup {p.audio} ELSE @]

\* mutant: a blocked playback survives
StopKeepingPending(p) == StopElement(p)

StopAudio(p) == [StopElement(p) EXCEPT !.pending = None]

Stale(e) == [e EXCEPT !.then = IF @ = "next" THEN "stale" ELSE @]

(* The version changes, so that onEnded of what was played does nothing. *)
ClearAudioQueue(p) ==
  [p EXCEPT !.queue = {}, !.next = 0, !.total = None, !.playing = FALSE, !.pending = None,
            !.orphans = {Stale(e) : e \in @}, !.aborted = {Stale(e) : e \in @}]

Silence(p) == ClearAudioQueue(StopAudio(p))

(* The current element is forgotten, not stopped. *)
Release(p) ==
  [p EXCEPT !.audio = None,
            !.orphans = IF p.audio # None /\ p.audio.phase \in Sounding THEN @ \cup {p.audio} ELSE @]

(* Without permission the element stays silent and the sentence pending. *)
PlayAudio(p, chunk, then) ==
  [StopElement(p) EXCEPT
     !.audio = Element(chunk, IF p.allowed THEN "called" ELSE "blocked", then),
     !.pending = IF p.allowed THEN @ ELSE chunk]

(* The queued sentence to play: the next, or the first after a gap once the  *)
(* number of sentences is known.                                            *)
Playable(p) ==
  {c \in p.queue : IF p.total = None THEN c.idx = p.next ELSE c.idx \in p.next..(p.total - 1)}

\* mutant: a sentence whose speech failed is never skipped
TryPlayNextWaiting(p) ==
  LET heads == {c \in p.queue : c.idx = p.next} IN
  IF p.playing THEN p
  ELSE IF heads # {}
    THEN LET head == CHOOSE c \in heads : TRUE IN
         PlayAudio([p EXCEPT !.playing = TRUE, !.url = head], head, "next")
  ELSE IF p.total # None /\ p.next >= p.total
    THEN [Release(p) EXCEPT !.url = None, !.speaking = FALSE]
  ELSE p

\* mutant: a gap is skipped although its sentence may still come
TryPlayNextHasty(p) ==
  IF p.playing \/ p.queue = {} THEN p
  ELSE LET head == CHOOSE c \in p.queue : \A d \in p.queue : c.idx <= d.idx IN
       PlayAudio([p EXCEPT !.next = head.idx, !.playing = TRUE, !.url = head], head, "next")

TryPlayNext(p) ==
  IF p.playing THEN p
  ELSE IF Playable(p) # {}
    THEN LET head == CHOOSE c \in Playable(p) : \A d \in Playable(p) : c.idx <= d.idx IN
         PlayAudio([p EXCEPT !.next = head.idx, !.playing = TRUE, !.url = head], head, "next")
  ELSE IF p.total # None
    THEN [Release(p) EXCEPT !.next = IF @ > p.total THEN @ ELSE p.total,
                            !.url = None, !.speaking = FALSE]
  ELSE p

\* mutant: onEnded does not look at the version
OnEndedAnyVersion(p, then) ==
  IF then = "none" THEN p
  ELSE TryPlayNext([p EXCEPT !.queue = {c \in @ : c.idx # p.next}, !.next = @ + 1, !.playing = FALSE])

(* onEnded of the queue, after the sentence or after its failure. *)
OnEnded(p, then) ==
  CASE then = "next" ->
         TryPlayNext([p EXCEPT !.queue = {c \in @ : c.idx # p.next}, !.next = @ + 1, !.playing = FALSE])
    [] then = "stale" -> [p EXCEPT !.playing = FALSE, !.url = None, !.speaking = FALSE]
    [] then = "none" -> p

(* Element e of p becomes f, or nothing. *)
Replace(p, e, f) ==
  IF p.audio = e THEN [p EXCEPT !.audio = f]
  ELSE [p EXCEPT !.orphans = (@ \ {e}) \cup (IF f = None THEN {} ELSE {f})]

Elements == player.orphans \cup (IF player.audio = None THEN {} ELSE {player.audio})

-----------------------------------------------------------------------------
(* The connection *)

(* The socket is gone, and with it the streams on it, which the gateway cuts *)
(* off.                                                                     *)
LoseSocket ==
  /\ stream' = [q \in Requests |-> IF Live(q) THEN "closed" ELSE stream[q]]
  /\ cut' = cut \cup {q \in Requests : Live(q)}
  /\ UNCHANGED got

(* The page is mounted, or has started over and emptied its messages with    *)
(* hydrateMessages: what was to sound is stopped, and a token is looked for. *)
(* When the page of a session that had begun is loaded, the latest answer of *)
(* the earlier visit may be played once more; that playback is left out: it  *)
(* belongs to no turn of this module, and the first turn sent stops it.      *)
Connect ==
  /\ conn = "off" /\ ~hungUp /\ ~leaving
  /\ conn' = "token"
  /\ player' = [StopAudio(player) EXCEPT !.url = None, !.speaking = FALSE]
  /\ UNCHANGED <<attempts, hungUp, leaving, current, processing, call, server, heard, history, bounds>>

(* From here on a hang-up during the refresh of the token is forgotten. *)
TokenArrives ==
  /\ conn = "token"
  /\ conn' = "dialing" /\ hungUp' = FALSE
  /\ UNCHANGED <<attempts, leaving, current, processing, call, server, player, heard, history, bounds>>

TokenFails ==
  /\ conn = "token" /\ faults < MaxFaults
  /\ conn' = "lost" /\ faults' = faults + 1
  /\ UNCHANGED <<attempts, hungUp, leaving, current, processing, call, server, player, heard, history, drops>>

DialSucceeds ==
  /\ conn = "dialing"
  /\ conn' = "on"
  /\ UNCHANGED <<attempts, hungUp, leaving, current, processing, call, server, player, heard, history, bounds>>

(* The next attempt is scheduled, or there is none left. *)
Retry ==
  /\ attempts' = attempts + 1
  /\ conn' = IF attempts' <= MaxAttempts /\ ~hungUp THEN "waiting" ELSE "lost"

DialFails ==
  /\ conn = "dialing" /\ faults < MaxFaults
  /\ Retry /\ faults' = faults + 1
  /\ UNCHANGED <<hungUp, leaving, current, processing, call, server, player, heard, history, drops>>

RetryTimer ==
  /\ conn = "waiting"
  /\ conn' = "token"
  /\ UNCHANGED <<attempts, hungUp, leaving, current, processing, call, server, player, heard, history, bounds>>

(* A drop in the middle of the session.  The turn in progress is not touched. *)
Drop ==
  /\ conn = "on" /\ drops < MaxDrops
  /\ Retry /\ LoseSocket /\ drops' = drops + 1
  /\ UNCHANGED <<hungUp, leaving, current, processing, call, player, heard, silenced, stopped, upset, faults>>

(* disconnect(): a timer or a dial is given up, not a wait for a token. *)
Disconnect ==
  /\ conn' = IF conn = "token" THEN "token" ELSE "off"
  /\ attempts' = 0
  /\ LoseSocket

-----------------------------------------------------------------------------
(* Turns *)

(* interrupt() up to its await *)
InterruptNow ==
  /\ current' = None /\ processing' = FALSE
  /\ player' = Silence(player)
  /\ silenced' = silenced \cup Sent /\ stopped' = FALSE

Deliver(q) ==
  /\ processing' = TRUE /\ current' = q
  /\ player' = Silence(player)
  /\ silenced' = silenced \cup Sent /\ stopped' = FALSE
  /\ call' = [call EXCEPT ![q] = "sent"]
  /\ stream' = [stream EXCEPT ![q] = "open"]

(* A turn in progress is interrupted first.  Neither the opening turn nor a  *)
(* spoken one takes a click or a key.                                       *)
Send(q) ==
  /\ call[q] = "idle" /\ conn = "on"
  /\ IF current = None
       THEN Deliver(q) /\ UNCHANGED got
       ELSE InterruptNow /\ call' = [call EXCEPT ![q] = "waiting"] /\ UNCHANGED server
  /\ UNCHANGED <<connection, heard, cut, upset, bounds>>

(* The interrupt is acknowledged, or its 1.5 seconds are over, or there was  *)
(* no socket to send it on.                                                 *)
Resume(q) ==
  /\ call[q] = "waiting"
  /\ IF conn = "on" THEN Deliver(q)
     ELSE call' = [call EXCEPT ![q] = "failed"]
          /\ UNCHANGED <<current, processing, player, stream, silenced, stopped>>
  /\ UNCHANGED <<connection, got, heard, cut, upset, bounds>>

(* The user speaks up or presses the button. *)
Interrupt ==
  /\ InterruptNow
  /\ UNCHANGED <<connection, call, server, heard, cut, upset, bounds>>

HangUp ==
  /\ ~hungUp
  /\ hungUp' = TRUE
  /\ InterruptNow /\ Disconnect
  /\ UNCHANGED <<leaving, call, heard, upset, bounds>>

(* handleStartOver: the interrupt, and what follows its await. *)
StartOver ==
  /\ ~leaving /\ ~hungUp /\ drops < MaxDrops
  /\ leaving' = TRUE /\ drops' = drops + 1
  /\ InterruptNow
  /\ UNCHANGED <<conn, attempts, hungUp, call, server, heard, cut, upset, faults>>

Leave ==
  /\ leaving
  /\ leaving' = FALSE
  /\ Disconnect
  /\ player' = StopAudio(player) /\ stopped' = TRUE
  /\ UNCHANGED <<hungUp, current, processing, call, heard, silenced, upset, bounds>>

-----------------------------------------------------------------------------
(* Messages of the server.  A handler ignores turns that are not current.    *)

Mine(q) == current = q /\ ~hungUp

\* mutant: a sentence of an interrupted turn is queued
ChunkOfAny(q, i) ==
  /\ stream[q] = "open" /\ i \notin got[q]
  /\ \A e \in player.aborted : e.chunk.of = q
  /\ got' = [got EXCEPT ![q] = @ \cup {i}]
  /\ player' = TryPlayNext([player EXCEPT !.queue = {c \in @ : c.idx # i} \cup {[of |-> q, idx |-> i]}])
  /\ UNCHANGED <<connection, current, processing, call, stream, heard, history, bounds>>

(* Sentence i is spoken; sentences come in any order, and some never.  The   *)
(* browser rejects an aborted play() sooner than a new turn comes back from  *)
(* the server.                                                              *)
Chunk(q, i) ==
  /\ stream[q] = "open" /\ i \notin got[q]
  /\ \A e \in player.aborted : e.chunk.of = q
  /\ got' = [got EXCEPT ![q] = @ \cup {i}]
  /\ player' = IF ~Mine(q) THEN player
               ELSE TryPlayNext([player EXCEPT !.queue = {c \in @ : c.idx # i} \cup {[of |-> q, idx |-> i]}])
  /\ UNCHANGED <<connection, current, processing, call, stream, heard, history, bounds>>

\* mutant: the queue is not looked at again when the number of sentences is known
CompletedQuietly(q, n) ==
  /\ stream[q] = "open" /\ \A i \in got[q] : i < n
  /\ stream' = [stream EXCEPT ![q] = "completed"]
  /\ player' = IF Mine(q) THEN [player EXCEPT !.total = n] ELSE player
  /\ UNCHANGED <<connection, current, processing, call, got, heard, history, bounds>>

(* The answer is complete, with the number of its sentences. *)
Completed(q, n) ==
  /\ stream[q] = "open" /\ \A i \in got[q] : i < n
  /\ stream' = [stream EXCEPT ![q] = "completed"]
  /\ player' = IF Mine(q) THEN TryPlayNext([player EXCEPT !.total = n]) ELSE player
  /\ UNCHANGED <<connection, current, processing, call, got, heard, history, bounds>>

\* mutant: the turn stays the current one
EndKeepingTurn(q) ==
  /\ stream[q] = "completed"
  /\ stream' = [stream EXCEPT ![q] = "closed"]
  /\ UNCHANGED <<connection, current, processing, call, got, player, heard, history, bounds>>

End(q) ==
  /\ stream[q] = "completed"
  /\ stream' = [stream EXCEPT ![q] = "closed"]
  /\ IF Mine(q) THEN processing' = FALSE /\ current' = None ELSE UNCHANGED <<processing, current>>
  /\ UNCHANGED <<connection, call, got, player, heard, history, bounds>>

(* The stream fails, or its sixty seconds are over. *)
ServerError(q) ==
  /\ Live(q)
  /\ stream' = [stream EXCEPT ![q] = "closed"]
  /\ IF Mine(q) THEN InterruptNow ELSE UNCHANGED <<current, processing, player, silenced, stopped>>
  /\ UNCHANGED <<connection, call, got, heard, cut, upset, bounds>>

-----------------------------------------------------------------------------
(* The browser's media events and the page's buttons *)

PlayerStep(p) ==
  /\ player' = p
  /\ UNCHANGED <<connection, current, processing, call, server>>

(* The play event comes before anything is heard. *)
Begins(e) ==
  /\ e.phase = "called"
  /\ PlayerStep([Replace(player, e, [e EXCEPT !.phase = "loading"]) EXCEPT !.speaking = TRUE])
  /\ UNCHANGED <<heard, history, bounds>>

(* play() resolves. *)
Sounds(e) ==
  /\ e.phase = "loading"
  /\ PlayerStep([Replace(player, e, [e EXCEPT !.phase = "playing"]) EXCEPT !.pending = None])
  /\ heard' = [heard EXCEPT ![e.chunk.of] = Append(@, e.chunk.idx)]
  /\ UNCHANGED <<history, bounds>>

(* onended: an element of the queue stays the current one until the next. *)
Ends(e) ==
  /\ e.phase = "playing"
  /\ PlayerStep(
       IF e.then = "none"
         THEN [Release(Replace(player, e, None)) EXCEPT !.url = None, !.speaking = FALSE]
         ELSE LET over == [e EXCEPT !.phase = "over"] IN
              OnEnded(Replace(player, e, IF player.audio = e THEN over ELSE None), e.then))
  /\ UNCHANGED <<heard, history, bounds>>

(* The sound cannot be played: onerror, and play() is rejected too if it was *)
(* still pending, so that onEnded is called twice.                           *)
MediaFails(e) ==
  /\ e.phase \in {"loading", "playing"} /\ faults < MaxFaults
  /\ LET p == OnEnded([Release(Replace(player, e, None)) EXCEPT !.url = None, !.speaking = FALSE], e.then) IN
     PlayerStep(IF e.phase = "playing" THEN p ELSE OnEnded([p EXCEPT !.speaking = FALSE], e.then))
  /\ upset' = TRUE /\ faults' = faults + 1
  /\ UNCHANGED <<heard, silenced, cut, stopped, drops>>

(* play() of a stopped element is rejected. *)
Rejected(e) ==
  /\ PlayerStep(OnEnded([player EXCEPT !.aborted = @ \ {e}, !.speaking = FALSE], e.then))
  /\ UNCHANGED <<heard, history, bounds>>

(* The first click or key lets the page play: the pending sentence is played *)
(* again.                                                                   *)
Gesture ==
  /\ ~player.allowed
  /\ LET p == [player EXCEPT !.allowed = TRUE, !.pending = None] IN
     PlayerStep(IF player.pending = None THEN p ELSE PlayAudio(p, player.pending, "next"))
  /\ UNCHANGED <<heard, history, bounds>>

(* The pause button, or the page celebrates a success. *)
Pause ==
  /\ player.audio # None
  /\ PlayerStep(StopAudio(player))
  /\ stopped' = TRUE
  /\ UNCHANGED <<heard, silenced, cut, upset, bounds>>

(* The same button when nothing is heard but a sound is at hand. *)
Replay ==
  /\ player.allowed /\ ~player.speaking /\ player.url # None /\ faults < MaxFaults
  /\ PlayerStep(PlayAudio(player, player.url, "none"))
  /\ upset' = TRUE /\ faults' = faults + 1
  /\ UNCHANGED <<heard, silenced, cut, stopped, drops>>

-----------------------------------------------------------------------------
Media == \E e \in Elements : Begins(e) \/ Sounds(e) \/ Ends(e) \/ MediaFails(e)
Next ==
  \/ Connect \/ TokenArrives \/ TokenFails \/ DialSucceeds \/ DialFails \/ RetryTimer \/ Drop
  \/ Interrupt \/ HangUp \/ StartOver \/ Leave \/ Gesture \/ Pause \/ Replay \/ Media
  \/ \E q \in Requests :
       \/ Send(q) \/ Resume(q) \/ End(q) \/ ServerError(q)
       \/ \E i \in Sentences(q) : Chunk(q, i)
       \/ \E n \in 0..MaxSentences[q] : Completed(q, n)
  \/ \E e \in player.aborted : Rejected(e)

Spec == Init /\ [][Next]_vars

(* A sound that begins ends, a promise is settled, an interrupt's wait has a *)
(* timer and so has a stream at the server.  The user need not do anything.  *)
Running ==
  \/ Media \/ \E e \in player.aborted : Rejected(e)
  \/ \E q \in Requests : Resume(q) \/ End(q) \/ ServerError(q) \/ \E n \in 0..MaxSentences[q] : Completed(q, n)
FairSpec == Spec /\ WF_vars(Running)

-----------------------------------------------------------------------------
(* A playback is pending exactly beside the element that was blocked. *)
TypeOK ==
  /\ conn \in {"off", "token", "dialing", "on", "waiting", "lost"}
  /\ attempts \in 0..(MaxAttempts + 1) /\ hungUp \in BOOLEAN /\ leaving \in BOOLEAN
  /\ current \in Requests \cup {None} /\ processing \in BOOLEAN
  /\ call \in [Requests -> {"off", "idle", "waiting", "sent", "failed"}]
  /\ stream \in [Requests -> {"none", "open", "completed", "closed"}]
  /\ \A q \in Requests : got[q] \subseteq Sentences(q)
  /\ player.queue \subseteq Chunks /\ player.next \in Nat /\ player.total \in Nat \cup {None}
  /\ player.audio \in ElementsOf(Phases) \cup {None}
  /\ player.orphans \subseteq ElementsOf(Sounding) /\ player.aborted \subseteq ElementsOf(Starting)
  /\ player.pending \in Chunks \cup {None} /\ player.url \in Chunks \cup {None}
  /\ {player.playing, player.speaking, player.allowed} \subseteq BOOLEAN
  /\ heard \in [Requests -> Seq(Nat)]
  /\ silenced \subseteq Requests /\ cut \subseteq Requests
  /\ (player.pending # None) = (player.audio # None /\ player.audio.phase = "blocked")

(* The sentences of an answer are heard in their order and once each.        *)
PlaysInOrder ==
  ~upset => \A q \in Requests : \A j \in 1..(Len(heard[q]) - 1) : heard[q][j] < heard[q][j + 1]

(* What was interrupted is silent for good: neither a sound that is playing  *)
(* or about to, nor the queue, nor a playback the browser held back belongs  *)
(* to an earlier turn.                                                      *)
NoOldVoice ==
  ~upset =>
    \A c \in {e.chunk : e \in {e \in Elements : e.phase \in Sounding}}
             \cup player.queue \cup ({player.pending} \ {None}) :
      c.of \notin silenced

(* The player never leaves behind a sentence that arrived without playing it. *)
NothingSkipped ==
  ~upset /\ ~stopped =>
    \A q \in Sent \ silenced : \A i \in got[q] :
      i < player.next => \E j \in 1..Len(heard[q]) : heard[q][j] = i

(* A sentence that arrived is heard, however sentences before it were late or *)
(* lost, unless the turn is interrupted or paused, the stream is lost, or the *)
(* browser waits for a click.                                               *)
HeardInTheEnd ==
  \A q \in Requests : \A i \in Sentences(q) :
    i \in got[q] ~>
      \/ \E j \in 1..Len(heard[q]) : heard[q][j] = i
      \/ q \in silenced \cup cut \/ stopped \/ upset \/ player.pending # None

(* The persona does not go on speaking forever in the eyes of the page,      *)
(* unless it is in the middle of an answer whose stream was lost, or a media *)
(* error or a replay confused the player.                                   *)
SpeakingEnds ==
  player.speaking ~>
    ~player.speaking \/ upset \/ (player.audio # None /\ player.audio.chunk.of \in cut)

(* Nor does the page wait for an answer forever, unless its stream was lost. *)
ProcessingEnds ==
  \A q \in Requests : (processing /\ current = q) ~> ~processing \/ current # q \/ q \in cut
=============================================================================
