---------------------- MODULE ConversationClient_proofs ----------------------
(***************************************************************************)
(* The player of the browser for any number of turns, sentences, losses of *)
(* the connection and faults: types, no voice of an earlier turn, the       *)
(* order of the sentences, and none skipped.                               *)
(***************************************************************************)
EXTENDS ConversationClient, FiniteSetTheorems, TLAPS

(* What the refs of the player hold. *)
Players ==
  [queue : SUBSET Chunks, next : Nat, total : Nat \cup {None}, playing : BOOLEAN,
   audio : ElementsOf(Phases) \cup {None}, orphans : SUBSET ElementsOf(Sounding),
   aborted : SUBSET ElementsOf(Starting), pending : Chunks \cup {None},
   url : Chunks \cup {None}, speaking : BOOLEAN, allowed : BOOLEAN]

Blocked(p) == p.audio # None /\ p.audio.phase = "blocked"
StartingAudio(p) == IF p.audio # None /\ p.audio.phase \in Starting THEN {p.audio} ELSE {}

(* A sentence is held back exactly while the browser does not let the page   *)
(* play; then nothing has sounded yet, and the queue waits for it.          *)
Proper(p) ==
  /\ p \in Players
  /\ (p.pending # None) = Blocked(p)
  /\ p.audio # None => (p.audio.phase = "blocked") = ~p.allowed
  /\ ~p.allowed => p.orphans = {} /\ p.aborted = {}
  /\ Blocked(p) => p.playing

(* The player without media errors and replays, for a set A of sentences     *)
(* that arrived and a set S of silenced turns: it is at work on sentence     *)
(* next of A, or has a play() of that sentence still to be rejected, or      *)
(* plays nothing; rejections of silenced turns find an idle player.          *)
Steady(p, A, S) ==
  /\ p.orphans = {} /\ p.queue \subseteq A
  /\ p.audio # None =>
       /\ p.audio.chunk \in A /\ p.audio.then = "next"
       /\ p.playing = (p.audio.phase # "over")
       /\ p.playing => p.audio.chunk.idx = p.next
  /\ \A e \in p.aborted :
       /\ p.audio = None
       /\ \/ e.then = "next" /\ e.chunk \in A /\ e.chunk.idx = p.next /\ p.playing
          \/ e.then = "stale" /\ e.chunk.of \in S /\ p.queue = {} /\ ~p.playing
  /\ \A e, f \in p.aborted : e.then = "next" => f = e
  /\ p.pending # None => p.pending = p.audio.chunk

(* Of a turn, the sentences H were heard: none after next, and next itself   *)
(* only while it sounds or was paused.                                      *)
HeardOk(p, H) ==
  \A i \in H :
    /\ i <= p.next
    /\ i = p.next => /\ p.playing
                     /\ p.audio = None \/ p.audio.phase = "playing"
                     /\ \A e \in p.aborted : e.then # "next"

(* Of a turn, the sentences G arrived: all before next as long as their      *)
(* number is not known, and then none beyond it.                            *)
TotalOk(p, G) ==
  IF p.total = None THEN \A k \in 0..(p.next - 1) : k \in G
  ELSE \A i \in G : i < p.total

(* What arrived of turn q is heard or queued. *)
Skipless(p, q, G, H) ==
  \A i \in G : IF i < p.next THEN i \in H ELSE [of |-> q, idx |-> i] \in p.queue

USE ClientAssumption

-----------------------------------------------------------------------------
(* The data *)

(* A sentence is its answer and its place in it.                             *)
LEMMA ChunkFields ==
  /\ \A c \in Chunks : /\ c.of \in Requests /\ c.idx \in Sentences(c.of)
                       /\ c.idx \in Nat /\ c = [of |-> c.of, idx |-> c.idx]
  /\ \A q \in Requests : \A i \in Sentences(q) :
       /\ [of |-> q, idx |-> i] \in Chunks /\ i \in Nat
       /\ [of |-> q, idx |-> i].of = q /\ [of |-> q, idx |-> i].idx = i
<1>1. \A q \in Requests : Sentences(q) \subseteq Nat
  BY DEF Sentences
<1> QED BY <1>1 DEF Chunks

(* Every set of numbers has a least one. *)
LEMMA LeastNumber ==
  ASSUME NEW N, N \subseteq Nat, N # {}
  PROVE  \E n \in N : \A m \in N : n <= m
<1> DEFINE T == {0..n : n \in N}
<1>1. T \subseteq FiniteSubsetsOf(Nat) /\ T # {}
  <2>1. \A n \in Nat : IsFiniteSet(0..n)
    BY FS_Interval
  <2>2. \A n \in Nat : 0..n \in SUBSET Nat
    OBVIOUS
  <2>3. \A n \in N : 0..n \in FiniteSubsetsOf(Nat)
    BY <2>1, <2>2 DEF FiniteSubsetsOf
  <2>4. T \subseteq FiniteSubsetsOf(Nat)
    BY <2>3
  <2>5. T # {}
    <3>1. PICK n \in N : TRUE
      OBVIOUS
    <3>2. 0..n \in T
      OBVIOUS
    <3> QED BY <3>2
  <2> QED BY <2>4, <2>5
<1>2. IsWellFoundedOn(StrictSubsetOrdering(Nat), FiniteSubsetsOf(Nat))
  BY FS_StrictSubsetOrderingWellFounded
<1>3. \E x \in T : \A y \in T : ~(<<y, x>> \in StrictSubsetOrdering(Nat))
  <2> HIDE DEF T
  <2> QED BY ONLY <1>1, <1>2, WFMin
<1>4. PICK x \in T : \A y \in T : ~(<<y, x>> \in StrictSubsetOrdering(Nat))
  BY <1>3
<1>5. PICK n \in N : x = 0..n
  BY <1>4
<1>6. \A m \in N : 0..m \in T
  OBVIOUS
<1>7. ASSUME NEW m \in N, m < n PROVE FALSE
  <2>1. 0..m \subseteq 0..n /\ 0..m # 0..n /\ 0..m \subseteq Nat /\ 0..n \subseteq Nat
    <3>1. n \in 0..n /\ n \notin 0..m
      BY <1>7
    <3>2. 0..m \subseteq 0..n
      BY <1>7
    <3>3. 0..m \subseteq Nat /\ 0..n \subseteq Nat
      OBVIOUS
    <3> QED BY <3>1, <3>2, <3>3
  <2>2. ~(<<0..m, 0..n>> \in StrictSubsetOrdering(Nat))
    BY <1>4, <1>5, <1>6
  <2> QED BY <2>1, <2>2 DEF StrictSubsetOrdering
<1> QED BY <1>7

-----------------------------------------------------------------------------
(* What the operators of the player do *)

(* StopAudio: the element is gone, and a play() under way is to be rejected. *)
LEMMA StopAudioFacts ==
  ASSUME NEW p, Proper(p)
  PROVE  LET r == StopAudio(p) IN
         /\ Proper(r)
         /\ r.audio = None /\ r.pending = None
         /\ r.aborted = p.aborted \cup StartingAudio(p)
         /\ r.queue = p.queue /\ r.next = p.next /\ r.total = p.total
         /\ r.playing = p.playing /\ r.orphans = p.orphans /\ r.allowed = p.allowed
<1> DEFINE s == StopElement(p)
           r == StopAudio(p)
<1>1. /\ s \in Players /\ s.audio = None /\ s.aborted = p.aborted \cup StartingAudio(p)
      /\ s.queue = p.queue /\ s.next = p.next /\ s.total = p.total
      /\ s.playing = p.playing /\ s.orphans = p.orphans /\ s.allowed = p.allowed
  <2>1. CASE p.audio = None
    BY <2>1 DEF Proper, StopElement, StartingAudio
  <2>2. CASE p.audio # None
    <3>1. p.audio.phase \in Starting => p.audio \in ElementsOf(Starting)
      BY <2>2 DEF Proper, Players, ElementsOf
    <3>2. p.aborted \cup StartingAudio(p) \subseteq ElementsOf(Starting)
      BY <3>1 DEF Proper, Players, StartingAudio
    <3>3. s = [p EXCEPT !.audio = None, !.url = None, !.speaking = FALSE,
                        !.aborted = p.aborted \cup StartingAudio(p)]
      BY <2>2 DEF StopElement, StartingAudio
    <3> HIDE DEF s
    <3> QED BY <3>2, <3>3 DEF Proper, Players
  <2> QED BY <2>1, <2>2
<1>2. r = [s EXCEPT !.pending = None]
  BY DEF StopAudio
<1>3. StartingAudio(p) # {} => p.allowed
  BY DEF Proper, StartingAudio, Starting
<1> HIDE DEF s, r
<1>4. /\ r \in Players /\ r.pending = None /\ r.audio = None
      /\ r.aborted = s.aborted /\ r.queue = s.queue /\ r.next = s.next /\ r.total = s.total
      /\ r.playing = s.playing /\ r.orphans = s.orphans /\ r.allowed = s.allowed
  BY <1>1, <1>2 DEF Players
<1>5. Proper(r)
  BY <1>1, <1>3, <1>4 DEF Proper, Blocked
<1> QED BY <1>1, <1>4, <1>5 DEF r

(* Making the play() promises and sounds of an element stale. *)
LEMMA StaleFacts ==
  /\ \A e \in ElementsOf(Phases) :
       /\ Stale(e).chunk = e.chunk /\ Stale(e).phase = e.phase
       /\ Stale(e).then = IF e.then = "next" THEN "stale" ELSE e.then
  /\ \A e \in ElementsOf(Sounding) : Stale(e) \in ElementsOf(Sounding)
  /\ \A e \in ElementsOf(Starting) : Stale(e) \in ElementsOf(Starting)
BY DEF ElementsOf, Phases, Sounding, Starting, Stale

(* The elements that sound or start are elements. *)
LEMMA ElementKinds ==
  /\ ElementsOf(Sounding) \subseteq ElementsOf(Phases)
  /\ ElementsOf(Starting) \subseteq ElementsOf(Phases)
  /\ ElementsOf(Starting) \subseteq ElementsOf(Sounding)
  /\ \A e \in ElementsOf(Phases) : e # None /\ e.chunk \in Chunks /\ e.phase \in Phases
BY DEF ElementsOf, Phases, Sounding, Starting

(* Silence: nothing is queued, current or pending. *)
LEMMA SilenceFacts ==
  ASSUME NEW p, Proper(p)
  PROVE  LET r == Silence(p) IN
         /\ Proper(r)
         /\ r.queue = {} /\ r.next = 0 /\ r.total = None /\ ~r.playing
         /\ r.audio = None /\ r.pending = None
         /\ r.aborted = {Stale(e) : e \in p.aborted \cup StartingAudio(p)}
         /\ r.orphans = {Stale(e) : e \in p.orphans} /\ r.allowed = p.allowed
<1> DEFINE s == StopAudio(p)
           r == Silence(p)
<1>1. /\ Proper(s) /\ s.audio = None /\ s.pending = None
      /\ s.aborted = p.aborted \cup StartingAudio(p)
      /\ s.orphans = p.orphans /\ s.allowed = p.allowed
  BY StopAudioFacts
<1>2. r = [s EXCEPT !.queue = {}, !.next = 0, !.total = None, !.playing = FALSE, !.pending = None,
                    !.orphans = {Stale(e) : e \in s.orphans},
                    !.aborted = {Stale(e) : e \in s.aborted}]
  BY DEF Silence, ClearAudioQueue
<1> HIDE DEF s, r
<1>3. {Stale(e) : e \in s.orphans} \subseteq ElementsOf(Sounding)
      /\ {Stale(e) : e \in s.aborted} \subseteq ElementsOf(Starting)
  BY <1>1, StaleFacts DEF Proper, Players
<1>4. /\ r \in Players
      /\ r.queue = {} /\ r.next = 0 /\ r.total = None /\ ~r.playing
      /\ r.audio = None /\ r.pending = None /\ r.allowed = s.allowed
      /\ r.orphans = {Stale(e) : e \in s.orphans} /\ r.aborted = {Stale(e) : e \in s.aborted}
  BY <1>1, <1>2, <1>3 DEF Proper, Players
<1>5. Proper(r)
  BY <1>1, <1>4 DEF Proper, Blocked
<1> QED BY <1>1, <1>4, <1>5 DEF r

(* PlayAudio: the sentence is the current element; without permission it is  *)
(* pending.                                                                 *)
LEMMA PlayAudioFacts ==
  ASSUME NEW p \in Players, NEW chunk \in Chunks, NEW then \in {"next", "stale", "none"},
         p.allowed => p.pending = None,
         ~p.allowed => /\ p.orphans = {} /\ p.aborted = {} /\ p.playing
                       /\ p.audio # None => p.audio.phase = "blocked"
  PROVE  LET r == PlayAudio(p, chunk, then) IN
         /\ Proper(r)
         /\ r.audio = Element(chunk, IF p.allowed THEN "called" ELSE "blocked", then)
         /\ r.pending = (IF p.allowed THEN None ELSE chunk)
         /\ r.aborted = p.aborted \cup StartingAudio(p)
         /\ r.queue = p.queue /\ r.next = p.next /\ r.total = p.total
         /\ r.playing = p.playing /\ r.orphans = p.orphans /\ r.allowed = p.allowed
<1> DEFINE s == StopElement(p)
           r == PlayAudio(p, chunk, then)
           a == Element(chunk, IF p.allowed THEN "called" ELSE "blocked", then)
<1>1. /\ s \in Players /\ s.aborted = p.aborted \cup StartingAudio(p)
      /\ s.queue = p.queue /\ s.next = p.next /\ s.total = p.total /\ s.pending = p.pending
      /\ s.playing = p.playing /\ s.orphans = p.orphans /\ s.allowed = p.allowed
  <2>1. CASE p.audio = None
    BY <2>1 DEF StopElement, StartingAudio
  <2>2. CASE p.audio # None
    <3>1. p.audio.phase \in Starting => p.audio \in ElementsOf(Starting)
      BY <2>2 DEF Players, ElementsOf
    <3>2. p.aborted \cup StartingAudio(p) \subseteq ElementsOf(Starting)
      BY <3>1 DEF Players, StartingAudio
    <3>3. s = [p EXCEPT !.audio = None, !.url = None, !.speaking = FALSE,
                        !.aborted = p.aborted \cup StartingAudio(p)]
      BY <2>2 DEF StopElement, StartingAudio
    <3> HIDE DEF s
    <3> QED BY <3>2, <3>3 DEF Players
  <2> QED BY <2>1, <2>2
<1>2. r = [s EXCEPT !.audio = a, !.pending = IF p.allowed THEN s.pending ELSE chunk]
  BY DEF PlayAudio
<1>3. /\ a \in ElementsOf(Phases) /\ a # None
      /\ a.phase = IF p.allowed THEN "called" ELSE "blocked"
  BY DEF Element, ElementsOf, Phases
<1>4. ~p.allowed => StartingAudio(p) = {}
  BY DEF StartingAudio, Starting
<1> HIDE DEF s, r, a
<1>5. /\ r \in Players /\ r.audio = a /\ r.pending = (IF p.allowed THEN None ELSE chunk)
      /\ r.aborted = s.aborted /\ r.queue = s.queue /\ r.next = s.next /\ r.total = s.total
      /\ r.playing = s.playing /\ r.orphans = s.orphans /\ r.allowed = s.allowed
  BY <1>1, <1>2, <1>3 DEF Players
<1>6. p.allowed \in BOOLEAN /\ chunk # None
  BY DEF Players
<1>7. Proper(r)
  BY <1>1, <1>3, <1>4, <1>5, <1>6 DEF Proper, Blocked
<1> QED BY <1>1, <1>5, <1>7 DEF r, a

(* If something can be played, something can be played that comes first. *)
LEMMA FirstPlayable ==
  ASSUME NEW p \in Players, Playable(p) # {}
  PROVE  LET head == CHOOSE c \in Playable(p) : \A d \in Playable(p) : c.idx <= d.idx IN
         /\ head \in Playable(p) /\ head \in p.queue /\ head \in Chunks /\ head.idx \in Nat
         /\ head.idx >= p.next /\ \A d \in Playable(p) : head.idx <= d.idx
<1> DEFINE N == {c.idx : c \in Playable(p)}
<1>1. Playable(p) \subseteq p.queue /\ p.queue \subseteq Chunks /\ p.next \in Nat
  BY DEF Playable, Players
<1>2. N \subseteq Nat /\ N # {}
  BY <1>1, ChunkFields
<1>3. \E n \in N : \A m \in N : n <= m
  <2> HIDE DEF N
  <2> QED BY <1>2, LeastNumber
<1>4. \E c \in Playable(p) : \A d \in Playable(p) : c.idx <= d.idx
  BY <1>3
<1> DEFINE head == CHOOSE c \in Playable(p) : \A d \in Playable(p) : c.idx <= d.idx
<1>5. head \in Playable(p) /\ \A d \in Playable(p) : head.idx <= d.idx
  BY <1>4
<1>6. \A c \in Playable(p) : c.idx >= p.next
  BY <1>1, ChunkFields DEF Playable, Players
<1> HIDE DEF head
<1>7. head \in p.queue /\ head \in Chunks /\ head.idx \in Nat /\ head.idx >= p.next
  BY <1>1, <1>5, <1>6, ChunkFields
<1> QED BY <1>5, <1>7 DEF head

(* TryPlayNext does nothing, plays the first of what can be played, or comes *)
(* to the end of the answer.                                                *)
Untouched(p, r) == r = p /\ (p.playing \/ (Playable(p) = {} /\ p.total = None))

PlaysFirst(p, r) ==
  /\ ~p.playing
  /\ \E head \in Playable(p) :
       /\ head \in p.queue /\ head \in Chunks /\ head.idx \in Nat /\ head.idx >= p.next
       /\ \A d \in Playable(p) : head.idx <= d.idx
       /\ r.audio = Element(head, IF p.allowed THEN "called" ELSE "blocked", "next")
       /\ r.pending = (IF p.allowed THEN None ELSE head)
       /\ r.next = head.idx /\ r.playing
  /\ r.aborted = p.aborted \cup StartingAudio(p) /\ r.orphans = p.orphans
  /\ r.queue = p.queue /\ r.total = p.total /\ r.allowed = p.allowed

ComesToEnd(p, r) ==
  /\ ~p.playing /\ Playable(p) = {} /\ p.total # None
  /\ r.audio = None /\ r.next = IF p.next > p.total THEN p.next ELSE p.total
  /\ r.orphans = p.orphans \cup (IF p.audio # None /\ p.audio.phase \in Sounding THEN {p.audio} ELSE {})
  /\ r.aborted = p.aborted /\ r.pending = p.pending /\ ~r.playing
  /\ r.queue = p.queue /\ r.total = p.total /\ r.allowed = p.allowed

(* tryPlayNext leaves the queue alone, plays its first sentence that is not  *)
(* over yet, or finds that the answer has come to its end.                   *)
LEMMA TryPlayNextCases ==
  ASSUME NEW p, Proper(p)
  PROVE  LET r == TryPlayNext(p) IN
         /\ Proper(r)
         /\ Untouched(p, r) \/ PlaysFirst(p, r) \/ ComesToEnd(p, r)
<1> DEFINE r == TryPlayNext(p)
<1>0. p \in Players /\ p.playing \in BOOLEAN /\ p.next \in Nat /\ p.total \in Nat \cup {None}
  BY DEF Proper, Players
<1>1. CASE p.playing \/ (Playable(p) = {} /\ p.total = None)
  BY <1>0, <1>1 DEF TryPlayNext, Untouched
<1>2. CASE ~p.playing /\ Playable(p) # {}
  <2> DEFINE head == CHOOSE c \in Playable(p) : \A d \in Playable(p) : c.idx <= d.idx
             s == [p EXCEPT !.next = head.idx, !.playing = TRUE, !.url = head]
  <2>1. /\ head \in Playable(p) /\ head \in p.queue /\ head \in Chunks /\ head.idx \in Nat
        /\ head.idx >= p.next /\ \A d \in Playable(p) : head.idx <= d.idx
    BY <1>0, <1>2, FirstPlayable
  <2>2. r = PlayAudio(s, head, "next")
    BY <1>2 DEF TryPlayNext
  <2> HIDE DEF head
  <2>3. /\ s \in Players /\ s.playing /\ s.next = head.idx
        /\ s.queue = p.queue /\ s.total = p.total /\ s.audio = p.audio
        /\ s.pending = p.pending /\ s.orphans = p.orphans /\ s.aborted = p.aborted
        /\ s.allowed = p.allowed
    BY <1>0, <2>1 DEF Players
  <2>4. /\ p.allowed => p.pending = None
        /\ ~p.allowed => /\ p.orphans = {} /\ p.aborted = {}
                         /\ p.audio # None => p.audio.phase = "blocked"
    BY DEF Proper, Blocked
  <2>5. StartingAudio(s) = StartingAudio(p)
    BY <2>3 DEF StartingAudio
  <2> HIDE DEF s, r
  <2>6. /\ Proper(r)
        /\ r.audio = Element(head, IF s.allowed THEN "called" ELSE "blocked", "next")
        /\ r.pending = (IF s.allowed THEN None ELSE head)
        /\ r.aborted = s.aborted \cup StartingAudio(s)
        /\ r.queue = s.queue /\ r.next = s.next /\ r.total = s.total
        /\ r.playing = s.playing /\ r.orphans = s.orphans /\ r.allowed = s.allowed
    <3>1. /\ s.allowed => s.pending = None
          /\ ~s.allowed => /\ s.orphans = {} /\ s.aborted = {} /\ s.playing
                           /\ s.audio # None => s.audio.phase = "blocked"
      BY <2>3, <2>4
    <3>2. s \in Players /\ head \in Chunks /\ "next" \in {"next", "stale", "none"}
      BY <2>1, <2>3
    <3> QED BY ONLY <2>2, <3>1, <3>2, PlayAudioFacts
  <2>7. PlaysFirst(p, r)
    BY <1>2, <2>1, <2>3, <2>5, <2>6 DEF PlaysFirst
  <2> QED BY <2>6, <2>7 DEF r
<1>3. CASE ~p.playing /\ Playable(p) = {} /\ p.total # None
  <2> DEFINE n == IF p.next > p.total THEN p.next ELSE p.total
             o == p.orphans \cup
                    (IF p.audio # None /\ p.audio.phase \in Sounding THEN {p.audio} ELSE {})
  <2>1. r = [p EXCEPT !.audio = None, !.orphans = o, !.next = n, !.url = None, !.speaking = FALSE]
    BY <1>0, <1>3 DEF TryPlayNext, Release, Players
  <2>2. n \in Nat
    BY <1>0, <1>3
  <2>3. o \subseteq ElementsOf(Sounding)
    <3>1. p.audio # None /\ p.audio.phase \in Sounding => p.audio \in ElementsOf(Sounding)
      BY <1>0 DEF Players, ElementsOf
    <3> QED BY <1>0, <3>1 DEF Players
  <2>4. ~Blocked(p) /\ (~p.allowed => p.audio = None)
    BY <1>3 DEF Proper, Blocked
  <2>5. ~p.allowed => o = {}
    BY <2>4 DEF Proper
  <2>6. n = IF p.next > p.total THEN p.next ELSE p.total
    OBVIOUS
  <2>7. o = p.orphans \cup (IF p.audio # None /\ p.audio.phase \in Sounding THEN {p.audio} ELSE {})
    OBVIOUS
  <2> HIDE DEF n, o, r
  <2>8. /\ r \in Players /\ r.audio = None /\ r.orphans = o /\ r.next = n
        /\ r.aborted = p.aborted /\ r.pending = p.pending /\ r.playing = p.playing
        /\ r.queue = p.queue /\ r.total = p.total /\ r.allowed = p.allowed
    BY <1>0, <2>1, <2>2, <2>3 DEF Players
  <2>9. Proper(r)
    BY <2>4, <2>5, <2>8 DEF Proper, Blocked
  <2>10. ComesToEnd(p, r)
    BY <1>3, <2>6, <2>7, <2>8 DEF ComesToEnd
  <2> QED BY <2>9, <2>10 DEF r
<1> QED BY <1>0, <1>1, <1>2, <1>3

(* TryPlayNext keeps a steady player steady, plays nothing out of order and  *)
(* leaves nothing behind.                                                   *)
LEMMA TryPlayNextSteady ==
  ASSUME NEW p, Proper(p), NEW A, A \subseteq Chunks, NEW S, Steady(p, A, S)
  PROVE  LET r == TryPlayNext(p) IN
         /\ Steady(r, A, S)
         /\ \A H \in SUBSET Nat : HeardOk(p, H) => HeardOk(r, H)
         /\ \A G \in SUBSET Nat : TotalOk(p, G) => TotalOk(r, G)
         /\ \A q, G, H : G \subseteq Nat /\ TotalOk(p, G) /\ Skipless(p, q, G, H)
              => Skipless(r, q, G, H)
         /\ r.playing => p.playing \/ (r.audio # None /\ r.audio.phase # "playing")
         /\ r.aborted = p.aborted /\ r.total = p.total /\ r.queue = p.queue
         /\ r.playing => r = p \/ r.audio # None
         /\ (r.audio # None /\ r.audio.phase = "playing") => r = p
<1> DEFINE r == TryPlayNext(p)
<1>0. /\ Untouched(p, r) \/ PlaysFirst(p, r) \/ ComesToEnd(p, r)
      /\ p \in Players /\ p.next \in Nat /\ p.total \in Nat \cup {None}
      /\ p.playing \in BOOLEAN /\ p.queue \subseteq Chunks
  BY TryPlayNextCases DEF Proper, Players
<1> HIDE DEF r
<1>1. CASE Untouched(p, r)
  BY <1>1 DEF Untouched, r
<1>2. CASE PlaysFirst(p, r)
  <2>1. PICK head \in Playable(p) :
       /\ head \in p.queue /\ head \in Chunks /\ head.idx \in Nat /\ head.idx >= p.next
       /\ \A d \in Playable(p) : head.idx <= d.idx
       /\ r.audio = Element(head, IF p.allowed THEN "called" ELSE "blocked", "next")
       /\ r.pending = (IF p.allowed THEN None ELSE head)
       /\ r.next = head.idx /\ r.playing
    BY <1>2 DEF PlaysFirst
  <2>2. /\ ~p.playing
        /\ r.aborted = p.aborted \cup StartingAudio(p) /\ r.orphans = p.orphans
        /\ r.queue = p.queue /\ r.total = p.total /\ r.allowed = p.allowed
    BY <1>2 DEF PlaysFirst
  <2>3. p.aborted = {}
    BY <2>1, <2>2 DEF Steady
  <2>4. StartingAudio(p) = {}
    BY <2>2 DEF Steady, StartingAudio, Starting
  <2>5. /\ r.audio # None /\ r.audio.chunk = head /\ r.audio.then = "next"
        /\ r.audio.phase \in {"called", "blocked"}
    <3>1. Element(head, IF p.allowed THEN "called" ELSE "blocked", "next") \in ElementsOf(Phases)
      BY <2>1 DEF Element, ElementsOf, Phases
    <3> QED BY <2>1, <3>1, ElementKinds DEF Element
  <2>6. Steady(r, A, S)
    BY <2>1, <2>2, <2>3, <2>4, <2>5 DEF Steady
  <2>7. \A H \in SUBSET Nat : HeardOk(p, H) => HeardOk(r, H)
    BY <1>0, <2>1, <2>2 DEF HeardOk
  <2>8. p.total = None => head.idx = p.next
    BY <2>1 DEF Playable
  <2>9. \A G \in SUBSET Nat : TotalOk(p, G) => TotalOk(r, G)
    BY <1>0, <2>1, <2>2, <2>8 DEF TotalOk
  <2>10. ASSUME NEW q, NEW G, NEW H, G \subseteq Nat, TotalOk(p, G), Skipless(p, q, G, H)
         PROVE  Skipless(r, q, G, H)
    <3> SUFFICES ASSUME NEW i \in G
                 PROVE  IF i < r.next THEN i \in H ELSE [of |-> q, idx |-> i] \in r.queue
      BY DEF Skipless
    <3> DEFINE c == [of |-> q, idx |-> i]
    <3>1. i \in Nat /\ IF i < p.next THEN i \in H ELSE c \in p.queue
      BY <2>10 DEF Skipless
    <3>2. CASE i >= p.next /\ i < head.idx
      <4>1. p.total # None /\ p.total \in Nat /\ i < p.total
        BY <1>0, <2>8, <2>10, <3>2, <3>1 DEF TotalOk
      <4>2. c \in p.queue /\ c.idx = i
        BY <1>0, <3>1, <3>2
      <4>3. c \in Playable(p)
        BY <1>0, <3>1, <3>2, <4>1, <4>2 DEF Playable
      <4> QED BY <2>1, <3>1, <3>2, <4>2, <4>3
    <3>3. CASE ~(i >= p.next /\ i < head.idx)
      BY <1>0, <2>1, <2>2, <3>1, <3>3
    <3> QED BY <3>2, <3>3
  <2> QED BY <2>1, <2>2, <2>3, <2>4, <2>5, <2>6, <2>7, <2>9, <2>10 DEF r
<1>3. CASE ComesToEnd(p, r)
  <2>1. /\ ~p.playing /\ Playable(p) = {} /\ p.total # None
        /\ r.audio = None /\ r.next = IF p.next > p.total THEN p.next ELSE p.total
        /\ r.aborted = p.aborted /\ r.pending = p.pending /\ ~r.playing
        /\ r.queue = p.queue /\ r.total = p.total
    BY <1>3 DEF ComesToEnd
  <2>2. r.orphans = {}
    <3>1. p.audio # None => p.audio.phase = "over"
      BY <2>1 DEF Steady
    <3> QED BY <1>3, <3>1 DEF ComesToEnd, Steady, Sounding, Starting
  <2>3. p.pending = None
    <3>1. ~Blocked(p)
      BY <2>1 DEF Proper
    <3> QED BY <3>1 DEF Proper
  <2>4. Steady(r, A, S)
    <3>1. \A e \in p.aborted : e.then = "stale" /\ e.chunk.of \in S /\ p.queue = {}
      BY <2>1 DEF Steady
    <3> QED BY <2>1, <2>2, <2>3, <3>1 DEF Steady
  <2>5. \A H \in SUBSET Nat : HeardOk(p, H) => HeardOk(r, H)
    BY <1>0, <2>1 DEF HeardOk
  <2>6. \A G \in SUBSET Nat : TotalOk(p, G) => TotalOk(r, G)
    BY <2>1 DEF TotalOk
  <2>7. ASSUME NEW q, NEW G, NEW H, G \subseteq Nat, TotalOk(p, G), Skipless(p, q, G, H)
        PROVE  Skipless(r, q, G, H)
    <3> SUFFICES ASSUME NEW i \in G
                 PROVE  IF i < r.next THEN i \in H ELSE [of |-> q, idx |-> i] \in r.queue
      BY DEF Skipless
    <3> DEFINE c == [of |-> q, idx |-> i]
    <3>1. i \in Nat /\ IF i < p.next THEN i \in H ELSE c \in p.queue
      BY <2>7 DEF Skipless
    <3>2. i < p.total
      BY <2>1, <2>7 DEF TotalOk
    <3>3. i < p.next
      <4> SUFFICES ASSUME i >= p.next PROVE FALSE
        BY <1>0, <3>1
      <4>1. c \in p.queue /\ c.idx = i
        BY <1>0, <3>1
      <4>2. c \in Playable(p)
        BY <1>0, <2>1, <3>1, <3>2, <4>1 DEF Playable
      <4> QED BY <2>1, <4>2
    <3> QED BY <1>0, <2>1, <3>1, <3>3
  <2> QED BY <2>1, <2>4, <2>5, <2>6, <2>7 DEF r
<1> QED BY <1>0, <1>1, <1>2, <1>3

(* The object URL and what the page shows as speaking steer nothing here. *)
Same(p, r) ==
  /\ r \in Players
  /\ r.queue = p.queue /\ r.next = p.next /\ r.total = p.total /\ r.playing = p.playing
  /\ r.audio = p.audio /\ r.orphans = p.orphans /\ r.aborted = p.aborted
  /\ r.pending = p.pending /\ r.allowed = p.allowed

(* What Same relates has the same sound, queue and place.                    *)
LEMMA SameFacts ==
  ASSUME NEW p, NEW r, Proper(p), Same(p, r)
  PROVE  /\ Proper(r)
         /\ \A A, S : Steady(p, A, S) => Steady(r, A, S)
         /\ \A H : HeardOk(p, H) => HeardOk(r, H)
         /\ \A G : TotalOk(p, G) => TotalOk(r, G)
         /\ \A q, G, H : Skipless(p, q, G, H) => Skipless(r, q, G, H)
<1>1. Proper(r)
  BY DEF Same, Proper, Blocked
<1>2. \A A, S : Steady(p, A, S) => Steady(r, A, S)
  BY DEF Same, Steady
<1>3. /\ \A H : HeardOk(p, H) => HeardOk(r, H)
      /\ \A G : TotalOk(p, G) => TotalOk(r, G)
      /\ \A q, G, H : Skipless(p, q, G, H) => Skipless(r, q, G, H)
  BY DEF Same, HeardOk, TotalOk, Skipless
<1> QED BY <1>1, <1>2, <1>3

(* Stopping the element keeps a steady player steady. *)
LEMMA StopAudioSteady ==
  ASSUME NEW p, Proper(p), NEW A, NEW S, Steady(p, A, S)
  PROVE  LET r == StopAudio(p) IN
         /\ Steady(r, A, S)
         /\ \A H : HeardOk(p, H) => HeardOk(r, H)
         /\ \A G : TotalOk(p, G) => TotalOk(r, G)
         /\ \A q, G, H : Skipless(p, q, G, H) => Skipless(r, q, G, H)
<1> DEFINE r == StopAudio(p)
<1>1. /\ Proper(r)
      /\ r.audio = None /\ r.pending = None
      /\ r.aborted = p.aborted \cup StartingAudio(p)
      /\ r.queue = p.queue /\ r.next = p.next /\ r.total = p.total
      /\ r.playing = p.playing /\ r.orphans = p.orphans
  BY StopAudioFacts
<1>2. StartingAudio(p) # {} =>
        /\ p.aborted = {} /\ p.audio # None /\ p.audio.phase \in Starting
        /\ StartingAudio(p) = {p.audio} /\ p.audio.then = "next" /\ p.audio.chunk \in A
        /\ p.audio.chunk.idx = p.next /\ p.playing
  BY DEF StartingAudio, Steady, Starting
<1> HIDE DEF r
<1>3. Steady(r, A, S)
  <2>1. CASE StartingAudio(p) = {}
    BY <1>1, <2>1 DEF Steady
  <2>2. CASE StartingAudio(p) # {}
    <3>1. r.aborted = {p.audio}
      BY <1>1, <1>2, <2>2
    <3> QED BY <1>1, <1>2, <2>2, <3>1 DEF Steady
  <2> QED BY <2>1, <2>2
<1>4. \A H : HeardOk(p, H) => HeardOk(r, H)
  <2> SUFFICES ASSUME NEW H, HeardOk(p, H), NEW i \in H
               PROVE  /\ i <= r.next
                      /\ i = r.next => /\ r.playing
                                       /\ r.audio = None \/ r.audio.phase = "playing"
                                       /\ \A e \in r.aborted : e.then # "next"
    BY DEF HeardOk
  <2>1. i = p.next => StartingAudio(p) = {}
    BY DEF HeardOk, StartingAudio, Starting
  <2> QED BY <1>1, <2>1 DEF HeardOk
<1>5. /\ \A G : TotalOk(p, G) => TotalOk(r, G)
      /\ \A q, G, H : Skipless(p, q, G, H) => Skipless(r, q, G, H)
  BY <1>1 DEF TotalOk, Skipless
<1> QED BY <1>3, <1>4, <1>5 DEF r

(* Silencing every turn that has a sentence in A leaves an idle player. *)
LEMMA SilenceSteady ==
  ASSUME NEW p, Proper(p), NEW A, NEW S, Steady(p, A, S), NEW B, NEW T, S \subseteq T,
         \A c \in A : c.of \in T
  PROVE  LET r == Silence(p) IN
         /\ Steady(r, B, T) /\ \A e \in r.aborted : e.then # "next"
<1> DEFINE r == Silence(p)
<1>1. /\ r.queue = {} /\ ~r.playing
      /\ r.audio = None /\ r.pending = None
      /\ r.aborted = {Stale(e) : e \in p.aborted \cup StartingAudio(p)}
      /\ r.orphans = {Stale(e) : e \in p.orphans}
  BY SilenceFacts
<1> HIDE DEF r
<1>2. r.orphans = {}
  BY <1>1 DEF Steady
<1>3. ASSUME NEW e \in p.aborted \cup StartingAudio(p)
      PROVE  Stale(e).then = "stale" /\ Stale(e).chunk.of \in T
  <2>1. e \in ElementsOf(Phases)
    BY <1>3, ElementKinds DEF StartingAudio, Proper, Players
  <2>2. e.then \in {"next", "stale"} /\ e.chunk.of \in T
    BY <1>3 DEF StartingAudio, Steady
  <2> QED BY <2>1, <2>2, StaleFacts
<1>4. \A f \in r.aborted : f.then = "stale" /\ f.chunk.of \in T
  BY <1>1, <1>3
<1>5. r.playing = FALSE
  <2>1. Proper(r)
    BY SilenceFacts DEF r
  <2> QED BY <1>1, <2>1 DEF Proper, Players
<1>6. Steady(r, B, T)
  BY <1>1, <1>2, <1>4, <1>5 DEF Steady
<1> QED BY <1>4, <1>6 DEF r

(* onEnded counts the sentence as played and plays the next. *)
Advance(p) ==
  [p EXCEPT !.queue = {c \in @ : c.idx # p.next}, !.next = @ + 1, !.playing = FALSE]

(* The end of a sentence takes it from the queue and goes on to the next.    *)
LEMMA AdvanceFacts ==
  ASSUME NEW p, Proper(p), p.allowed
  PROVE  LET r == Advance(p) IN
         /\ Proper(r)
         /\ r.queue = {c \in p.queue : c.idx # p.next} /\ r.next = p.next + 1 /\ ~r.playing
         /\ r.total = p.total /\ r.audio = p.audio /\ r.orphans = p.orphans
         /\ r.aborted = p.aborted /\ r.pending = p.pending /\ r.allowed = p.allowed
<1> DEFINE r == Advance(p)
<1>1. p \in Players /\ {c \in p.queue : c.idx # p.next} \subseteq Chunks /\ p.next + 1 \in Nat
  BY DEF Proper, Players
<1>2. r = [p EXCEPT !.queue = {c \in p.queue : c.idx # p.next}, !.next = p.next + 1,
                    !.playing = FALSE]
  BY <1>1 DEF Advance, Players
<1> HIDE DEF r
<1>3. /\ r \in Players
      /\ r.queue = {c \in p.queue : c.idx # p.next} /\ r.next = p.next + 1 /\ ~r.playing
      /\ r.total = p.total /\ r.audio = p.audio /\ r.orphans = p.orphans
      /\ r.aborted = p.aborted /\ r.pending = p.pending /\ r.allowed = p.allowed
  BY <1>1, <1>2 DEF Players
<1>4. ~Blocked(p)
  BY DEF Proper, Blocked
<1>5. Proper(r)
  BY <1>3, <1>4 DEF Proper, Blocked
<1> QED BY <1>3, <1>5 DEF r

(* onEnded in any of its forms leaves a proper player. *)
LEMMA OnEndedFacts ==
  ASSUME NEW p, Proper(p), p.allowed, NEW then \in {"next", "stale", "none"}
  PROVE  /\ Proper(OnEnded(p, then)) /\ OnEnded(p, then).allowed
         /\ then = "next" => OnEnded(p, then) = TryPlayNext(Advance(p))
<1>1. CASE then = "next"
  <2> DEFINE s == Advance(p)
  <2>1. OnEnded(p, then) = TryPlayNext(s)
    BY <1>1 DEF OnEnded, Advance
  <2>2. Proper(s) /\ s.allowed
    BY AdvanceFacts
  <2> HIDE DEF s
  <2>3. Proper(TryPlayNext(s)) /\ TryPlayNext(s).allowed
    BY <2>2, TryPlayNextCases DEF Untouched, PlaysFirst, ComesToEnd
  <2> QED BY <2>1, <2>3 DEF s
<1>2. CASE then = "stale"
  <2> DEFINE s == [p EXCEPT !.playing = FALSE, !.url = None, !.speaking = FALSE]
  <2>1. OnEnded(p, then) = s
    BY <1>2 DEF OnEnded
  <2>2. Proper(s) /\ s.allowed
    BY DEF Proper, Players, Blocked
  <2> QED BY <1>2, <2>1, <2>2
<1>3. CASE then = "none"
  BY <1>3 DEF OnEnded
<1> QED BY <1>1, <1>2, <1>3

(* A steady player whose sentence is over, or was rejected, advances. *)
LEMMA AdvanceSteady ==
  ASSUME NEW p, Proper(p), p.allowed, NEW A, NEW S,
         p.orphans = {}, p.queue \subseteq A, p.aborted = {}, p.pending = None,
         p.audio # None => /\ p.audio.chunk \in A /\ p.audio.then = "next"
                           /\ p.audio.phase = "over"
  PROVE  Steady(Advance(p), A, S)
<1> DEFINE r == Advance(p)
<1>1. /\ Proper(r)
      /\ r.queue = {c \in p.queue : c.idx # p.next} /\ r.next = p.next + 1 /\ ~r.playing
      /\ r.total = p.total /\ r.audio = p.audio /\ r.orphans = p.orphans
      /\ r.aborted = p.aborted /\ r.pending = p.pending
  BY AdvanceFacts
<1>2. r.playing = FALSE
  BY <1>1 DEF Proper, Players
<1> HIDE DEF r
<1>3. Steady(r, A, S)
  BY <1>1, <1>2 DEF Steady
<1> QED BY <1>3 DEF r

(* Of the sentences of the turn at work, those heard and those that arrived  *)
(* are still in order after the player advanced past one that arrived; none  *)
(* is left behind if that one was heard.                                    *)
LEMMA AdvanceOrder ==
  ASSUME NEW p, Proper(p), p.allowed
  PROVE  LET r == Advance(p) IN
         /\ \A H \in SUBSET Nat : (\A i \in H : i <= p.next) => HeardOk(r, H)
         /\ \A G \in SUBSET Nat : TotalOk(p, G) /\ p.next \in G => TotalOk(r, G)
         /\ \A q, G, H : G \subseteq Nat /\ Skipless(p, q, G, H) /\ p.next \in H
              => Skipless(r, q, G, H)
<1> DEFINE r == Advance(p)
<1>1. /\ r.queue = {c \in p.queue : c.idx # p.next} /\ r.next = p.next + 1
      /\ r.total = p.total /\ p.next \in Nat
  BY AdvanceFacts DEF Proper, Players
<1> HIDE DEF r
<1>2. \A H \in SUBSET Nat : (\A i \in H : i <= p.next) => HeardOk(r, H)
  <2> SUFFICES ASSUME NEW H \in SUBSET Nat, \A i \in H : i <= p.next, NEW i \in H
               PROVE  i <= r.next /\ i # r.next
    BY DEF HeardOk
  <2>1. i \in Nat /\ i <= p.next
    OBVIOUS
  <2> QED BY <1>1, <2>1
<1>3. \A G \in SUBSET Nat : TotalOk(p, G) /\ p.next \in G => TotalOk(r, G)
  <2> SUFFICES ASSUME NEW G \in SUBSET Nat, TotalOk(p, G), p.next \in G
               PROVE  TotalOk(r, G)
    OBVIOUS
  <2>1. CASE p.total = None
    <3>1. \A k \in 0..(p.next - 1) : k \in G
      BY <2>1 DEF TotalOk
    <3>2. \A k \in 0..(r.next - 1) : k \in G
      BY <1>1, <3>1
    <3> QED BY <1>1, <2>1, <3>2 DEF TotalOk
  <2>2. CASE p.total # None
    BY <1>1, <2>2 DEF TotalOk
  <2> QED BY <2>1, <2>2
<1>4. ASSUME NEW q, NEW G, NEW H, G \subseteq Nat, Skipless(p, q, G, H), p.next \in H
      PROVE  Skipless(r, q, G, H)
  <2> SUFFICES ASSUME NEW i \in G
               PROVE  IF i < r.next THEN i \in H ELSE [of |-> q, idx |-> i] \in r.queue
    BY DEF Skipless
  <2>1. i \in Nat /\ IF i < p.next THEN i \in H ELSE [of |-> q, idx |-> i] \in p.queue
    BY <1>4 DEF Skipless
  <2>2. CASE i <= p.next
    BY <1>1, <1>4, <2>1, <2>2
  <2>3. CASE i > p.next
    BY <1>1, <2>1, <2>3
  <2> QED BY <1>1, <2>1, <2>2, <2>3
<1> QED BY <1>2, <1>3, <1>4 DEF r

ElementsIn(p) == p.orphans \cup (IF p.audio = None THEN {} ELSE {p.audio})

(* An element that sounds, or may, goes on to another phase or is gone. *)
LEMMA ReplaceFacts ==
  ASSUME NEW p, Proper(p), NEW e \in ElementsIn(p), e.phase # "blocked",
         NEW f \in ElementsOf(Phases) \cup {None}, f # None => f.phase # "blocked",
         f # None /\ p.audio # e => f \in ElementsOf(Sounding)
  PROVE  LET r == Replace(p, e, f) IN
         /\ Proper(r) /\ r.allowed
         /\ r.audio = IF p.audio = e THEN f ELSE p.audio
         /\ p.orphans = {} => r.orphans = {} /\ p.audio = e
         /\ r.queue = p.queue /\ r.next = p.next /\ r.total = p.total
         /\ r.playing = p.playing /\ r.aborted = p.aborted /\ r.pending = p.pending
<1> DEFINE r == Replace(p, e, f)
<1>1. p \in Players /\ p.allowed /\ ~Blocked(p) /\ e # None
  <2>1. p \in Players /\ p.allowed \in BOOLEAN
    BY DEF Proper, Players
  <2>2. p.audio # e => p.orphans # {}
    BY DEF ElementsIn
  <2>3. e # None
    BY <2>1, ElementKinds DEF ElementsIn, Players
  <2> QED BY <2>1, <2>2, <2>3 DEF Proper, Blocked
<1>2. CASE p.audio = e
  <2>1. r = [p EXCEPT !.audio = f]
    BY <1>2 DEF Replace
  <2> HIDE DEF r
  <2>2. /\ r \in Players /\ r.audio = f /\ r.orphans = p.orphans /\ r.allowed = p.allowed
        /\ r.queue = p.queue /\ r.next = p.next /\ r.total = p.total
        /\ r.playing = p.playing /\ r.aborted = p.aborted /\ r.pending = p.pending
    BY <1>1, <2>1 DEF Players
  <2>3. Proper(r)
    BY <1>1, <2>2 DEF Proper, Blocked
  <2> QED BY <1>1, <1>2, <2>2, <2>3 DEF r
<1>3. CASE p.audio # e
  <2> DEFINE o == (p.orphans \ {e}) \cup (IF f = None THEN {} ELSE {f})
  <2>1. r = [p EXCEPT !.orphans = o]
    BY <1>3 DEF Replace
  <2>2. o \subseteq ElementsOf(Sounding)
    BY <1>1, <1>3 DEF Players
  <2>3. p.orphans # {}
    BY <1>3 DEF ElementsIn
  <2> HIDE DEF r, o
  <2>4. /\ r \in Players /\ r.audio = p.audio /\ r.allowed = p.allowed
        /\ r.queue = p.queue /\ r.next = p.next /\ r.total = p.total
        /\ r.playing = p.playing /\ r.aborted = p.aborted /\ r.pending = p.pending
    BY <1>1, <2>1, <2>2 DEF Players
  <2>5. Proper(r)
    BY <1>1, <2>4 DEF Proper, Blocked
  <2> QED BY <1>1, <1>3, <2>3, <2>4, <2>5 DEF r
<1> QED BY <1>2, <1>3

(* A current element that is forgotten may go on as an orphan. *)
LEMMA ReleaseFacts ==
  ASSUME NEW p, Proper(p), p.allowed
  PROVE  LET r == [Release(p) EXCEPT !.url = None, !.speaking = FALSE] IN
         Proper(r) /\ r.allowed
<1> DEFINE o == p.orphans \cup
                  (IF p.audio # None /\ p.audio.phase \in Sounding THEN {p.audio} ELSE {})
           r == [Release(p) EXCEPT !.url = None, !.speaking = FALSE]
<1>1. p \in Players /\ ~Blocked(p)
  BY DEF Proper, Blocked
<1>2. o \subseteq ElementsOf(Sounding)
  <2>1. p.audio # None /\ p.audio.phase \in Sounding => p.audio \in ElementsOf(Sounding)
    BY <1>1 DEF Players, ElementsOf
  <2> QED BY <1>1, <2>1 DEF Players
<1>3. r = [p EXCEPT !.audio = None, !.orphans = o, !.url = None, !.speaking = FALSE]
  BY <1>1 DEF Release, Players
<1> HIDE DEF r, o
<1>4. /\ r \in Players /\ r.audio = None /\ r.allowed = p.allowed /\ r.pending = p.pending
      /\ r.aborted = p.aborted
  BY <1>1, <1>2, <1>3 DEF Players
<1>5. Proper(r)
  BY <1>1, <1>4 DEF Proper, Blocked
<1> QED BY <1>4, <1>5 DEF r

(* Two changes of what steers nothing. *)
LEMMA SpeakingOff ==
  ASSUME NEW p, Proper(p)
  PROVE  /\ Same(p, [p EXCEPT !.speaking = FALSE]) /\ Same(p, [p EXCEPT !.speaking = TRUE])
         /\ Same(p, [p EXCEPT !.url = None, !.speaking = FALSE])
BY DEF Proper, Players, Same

(* And a sentence that is not held back cannot be released. *)
LEMMA PendingOff ==
  ASSUME NEW p, Proper(p), p.allowed
  PROVE  Same(p, [p EXCEPT !.pending = None])
<1>1. p.pending = None
  BY DEF Proper, Blocked
<1> QED BY <1>1 DEF Proper, Players, Same

-----------------------------------------------------------------------------
(* The invariant *)

Heard(q) == {heard[q][j] : j \in 1..Len(heard[q])}

(* The turn whose voice may sound, if any, and what of it arrived. *)
Voiced == Sent \ silenced
Arrived == {c \in Chunks : c.of \in Voiced /\ c.idx \in got[c.of]}

TypeInv ==
  /\ conn \in {"off", "token", "dialing", "on", "waiting", "lost"}
  /\ attempts \in 0..(MaxAttempts + 1) /\ hungUp \in BOOLEAN /\ leaving \in BOOLEAN
  /\ current \in Requests \cup {None} /\ processing \in BOOLEAN
  /\ call \in [Requests -> {"off", "idle", "waiting", "sent", "failed"}]
  /\ stream \in [Requests -> {"none", "open", "completed", "closed"}]
  /\ got \in [Requests -> SUBSET Nat] /\ \A q \in Requests : got[q] \subseteq Sentences(q)
  /\ heard \in [Requests -> Seq(Nat)]
  /\ silenced \subseteq Requests /\ cut \subseteq Requests
  /\ Proper(player)

(* The turns: at most one of those sent is not silenced; it is the current   *)
(* one as long as its stream lives, and streams live on a connection only.   *)
TurnInv ==
  /\ silenced \subseteq Sent /\ \A q, r \in Voiced : q = r
  /\ current # None => current \in Voiced
  /\ \A q \in Voiced : Live(q) => current = q /\ ~hungUp
  /\ \A q \in Requests : Live(q) => conn = "on"
  /\ hungUp => conn \in {"off", "token", "lost"}
  /\ \A q \in Requests : (call[q] = "sent") = (q \in Sent)
  /\ \A q \in Requests \ Sent : got[q] = {}
  /\ conn # "lost" => attempts <= MaxAttempts

(* The voice, as long as no media error and no replay disturbed it. *)
VoiceInv ==
  /\ Steady(player, Arrived, silenced)
  /\ \A q \in Requests \ Sent : heard[q] = <<>>
  /\ conn = "off" => stopped \/ (player.queue = {} /\ player.audio = None)
  /\ \A q \in Voiced :
       /\ HeardOk(player, Heard(q)) /\ TotalOk(player, got[q])
       /\ player.total # None => stream[q] # "open"
  /\ \A q \in Requests : \A j \in 1..(Len(heard[q]) - 1) : heard[q][j] < heard[q][j + 1]

(* Nothing is left behind, as long as the voice was not paused either. *)
Playing(p) == p.audio # None /\ p.audio.phase = "playing"

KeptInv ==
  /\ \A q \in Voiced : /\ Skipless(player, q, got[q], Heard(q))
                       /\ Playing(player) => player.next \in Heard(q)
  /\ player.playing => player.audio # None
  /\ \A e \in player.aborted : e.then # "next"

IInv ==
  /\ TypeInv /\ TurnInv
  /\ ~upset => VoiceInv
  /\ ~upset /\ ~stopped => KeptInv

-----------------------------------------------------------------------------
(* The player stays proper, whatever happens.                              *)

(* What arrives for the queue, and the number of sentences. *)
LEMMA QueueFacts ==
  ASSUME NEW p, Proper(p)
  PROVE  /\ \A Q \in SUBSET Chunks : LET r == [p EXCEPT !.queue = Q] IN
              /\ Proper(r) /\ r.queue = Q /\ r.next = p.next /\ r.total = p.total
              /\ r.playing = p.playing /\ r.audio = p.audio /\ r.orphans = p.orphans
              /\ r.aborted = p.aborted /\ r.pending = p.pending /\ r.allowed = p.allowed
         /\ \A n \in Nat : LET r == [p EXCEPT !.total = n] IN
              /\ Proper(r) /\ r.queue = p.queue /\ r.next = p.next /\ r.total = n
              /\ r.playing = p.playing /\ r.audio = p.audio /\ r.orphans = p.orphans
              /\ r.aborted = p.aborted /\ r.pending = p.pending /\ r.allowed = p.allowed
BY DEF Proper, Players, Blocked

(* A rejection that is settled. *)
LEMMA SettledFacts ==
  ASSUME NEW p, Proper(p), NEW e \in p.aborted
  PROVE  LET r == [p EXCEPT !.aborted = @ \ {e}, !.speaking = FALSE] IN
         /\ Proper(r) /\ r.allowed /\ r.aborted = p.aborted \ {e}
         /\ r.queue = p.queue /\ r.next = p.next /\ r.total = p.total
         /\ r.playing = p.playing /\ r.audio = p.audio /\ r.orphans = p.orphans
         /\ r.pending = p.pending
BY DEF Proper, Players, Blocked

(* The first click or key. *)
LEMMA GestureFacts ==
  ASSUME NEW p, Proper(p), ~p.allowed
  PROVE  LET g == [p EXCEPT !.allowed = TRUE, !.pending = None]
             r == IF p.pending = None THEN g ELSE PlayAudio(g, p.pending, "next") IN
         /\ Proper(r)
         /\ r.queue = p.queue /\ r.next = p.next /\ r.total = p.total /\ r.playing = p.playing
         /\ r.orphans = {} /\ r.aborted = {} /\ r.pending = None
         /\ IF p.pending = None THEN p.audio = None /\ r.audio = None
            ELSE Blocked(p) /\ r.audio = Element(p.pending, "called", "next")
<1> DEFINE g == [p EXCEPT !.allowed = TRUE, !.pending = None]
           r == IF p.pending = None THEN g ELSE PlayAudio(g, p.pending, "next")
<1>1. /\ g \in Players /\ g.allowed /\ g.pending = None
      /\ g.queue = p.queue /\ g.next = p.next /\ g.total = p.total /\ g.playing = p.playing
      /\ g.audio = p.audio /\ g.orphans = p.orphans /\ g.aborted = p.aborted
  BY DEF Proper, Players
<1>2. p.orphans = {} /\ p.aborted = {} /\ (p.audio # None => Blocked(p))
  BY DEF Proper, Players, Blocked
<1> HIDE DEF g
<1>3. CASE p.pending = None
  <2>1. r = g /\ p.audio = None
    BY <1>2, <1>3 DEF Proper
  <2>2. Proper(g)
    BY <1>1, <1>2, <2>1 DEF Proper, Blocked
  <2> QED BY <1>1, <1>2, <1>3, <2>1, <2>2 DEF g
<1>4. CASE p.pending # None
  <2>1. r = PlayAudio(g, p.pending, "next") /\ Blocked(p)
    BY <1>4 DEF Proper
  <2>2. p.pending \in Chunks /\ "next" \in {"next", "stale", "none"}
    BY <1>4 DEF Proper, Players
  <2>3. StartingAudio(g) = {}
    BY <1>1, <2>1 DEF StartingAudio, Starting, Blocked
  <2> HIDE DEF r
  <2>4. /\ Proper(r)
        /\ r.audio = Element(p.pending, IF g.allowed THEN "called" ELSE "blocked", "next")
        /\ r.pending = (IF g.allowed THEN None ELSE p.pending)
        /\ r.aborted = g.aborted \cup StartingAudio(g)
        /\ r.queue = g.queue /\ r.next = g.next /\ r.total = g.total
        /\ r.playing = g.playing /\ r.orphans = g.orphans /\ r.allowed = g.allowed
    <3>1. /\ g.allowed => g.pending = None
          /\ ~g.allowed => /\ g.orphans = {} /\ g.aborted = {} /\ g.playing
                           /\ g.audio # None => g.audio.phase = "blocked"
          /\ g \in Players
      BY <1>1
    <3> QED BY ONLY <2>1, <2>2, <3>1, PlayAudioFacts
  <2> QED BY <1>1, <1>2, <1>4, <2>1, <2>3, <2>4 DEF r, g
<1> QED BY <1>3, <1>4

(* The kinds of changes of the player in a step. *)
LEMMA ProperNext ==
  ASSUME TypeInv, [Next]_vars
  PROVE  Proper(player')
<1> DEFINE p == player
<1>0. Proper(p) /\ p \in Players
  BY DEF TypeInv, Proper
<1>1. CASE player' = player
  BY <1>0, <1>1
<1>2. CASE player' = Silence(player)
  BY <1>0, <1>2, SilenceFacts
<1>3. CASE player' = StopAudio(player)
  BY <1>0, <1>3, StopAudioFacts
<1>4. CASE Connect
  <2>1. player' = [StopAudio(p) EXCEPT !.url = None, !.speaking = FALSE]
    BY <1>4 DEF Connect
  <2>2. Proper(StopAudio(p))
    BY <1>0, StopAudioFacts
  <2>3. Same(StopAudio(p), player')
    BY <2>1, <2>2, SpeakingOff
  <2> QED BY <2>2, <2>3, SameFacts
<1>5. ASSUME NEW q \in Requests, NEW i \in Sentences(q), Chunk(q, i) PROVE Proper(player')
  <2> DEFINE Q == {c \in p.queue : c.idx # i} \cup {[of |-> q, idx |-> i]}
  <2>1. player' = p \/ player' = TryPlayNext([p EXCEPT !.queue = Q])
    BY <1>5 DEF Chunk
  <2>2. Q \in SUBSET Chunks
    BY <1>0, ChunkFields DEF Players
  <2> HIDE DEF Q
  <2>3. Proper([p EXCEPT !.queue = Q])
    BY <1>0, <2>2, QueueFacts
  <2> QED BY <1>0, <2>1, <2>3, TryPlayNextCases
<1>6. ASSUME NEW q \in Requests, NEW n \in 0..MaxSentences[q], Completed(q, n) PROVE Proper(player')
  <2>1. player' = p \/ player' = TryPlayNext([p EXCEPT !.total = n])
    BY <1>6 DEF Completed
  <2>2. n \in Nat
    OBVIOUS
  <2>3. Proper([p EXCEPT !.total = n])
    BY <1>0, <2>2, QueueFacts
  <2> QED BY <1>0, <2>1, <2>3, TryPlayNextCases
<1>7. ASSUME NEW e \in Elements, Begins(e) \/ Sounds(e) \/ Ends(e) \/ MediaFails(e)
      PROVE  Proper(player')
  <2>1. e \in ElementsIn(p) /\ e \in ElementsOf(Phases) /\ e.then \in {"next", "stale", "none"}
    BY <1>0, ElementKinds DEF Elements, ElementsIn, Players, ElementsOf
  <2>2. CASE Begins(e) \/ Sounds(e)
    <3>1. PICK phase \in {"loading", "playing"} :
            /\ e.phase \in {"called", "loading"}
            /\ \/ player' = [Replace(p, e, [e EXCEPT !.phase = phase]) EXCEPT !.speaking = TRUE]
               \/ player' = [Replace(p, e, [e EXCEPT !.phase = phase]) EXCEPT !.pending = None]
      BY <2>2 DEF Begins, Sounds, PlayerStep
    <3> DEFINE f == [e EXCEPT !.phase = phase]
               r == Replace(p, e, f)
    <3>2. f \in ElementsOf(Phases) /\ f \in ElementsOf(Sounding) /\ f.phase = phase /\ f # None
      BY <2>1, ElementKinds DEF ElementsOf, Phases, Sounding, Starting
    <3> HIDE DEF f, r
    <3>3. Proper(r) /\ r.allowed
      BY <1>0, <2>1, <3>1, <3>2, ReplaceFacts DEF r
    <3>4. player' = [r EXCEPT !.speaking = TRUE] \/ player' = [r EXCEPT !.pending = None]
      BY <3>1 DEF r, f
    <3>5. Same(r, player')
      <4>1. Same(r, [r EXCEPT !.speaking = TRUE])
        BY <3>3, SpeakingOff
      <4>2. Same(r, [r EXCEPT !.pending = None])
        BY <3>3, PendingOff
      <4> QED BY <3>4, <4>1, <4>2
    <3> QED BY <3>3, <3>5, SameFacts
  <2>3. CASE Ends(e)
    <3>1. CASE e.then = "none"
      <4>1. player' = [Release(Replace(p, e, None)) EXCEPT !.url = None, !.speaking = FALSE]
            /\ e.phase = "playing"
        BY <2>3, <3>1 DEF Ends, PlayerStep
      <4>2. Proper(Replace(p, e, None)) /\ Replace(p, e, None).allowed
        BY <1>0, <2>1, <4>1, ReplaceFacts
      <4> QED BY <4>1, <4>2, ReleaseFacts
    <3>2. CASE e.then # "none"
      <4> DEFINE f == IF p.audio = e THEN [e EXCEPT !.phase = "over"] ELSE None
      <4>1. player' = OnEnded(Replace(p, e, f), e.then) /\ e.phase = "playing"
        BY <2>3, <3>2 DEF Ends, PlayerStep
      <4>2. /\ f \in ElementsOf(Phases) \cup {None} /\ (f # None => f.phase # "blocked")
            /\ (p.audio # e => f = None)
        BY <2>1 DEF ElementsOf, Phases
      <4> HIDE DEF f
      <4>3. Proper(Replace(p, e, f)) /\ Replace(p, e, f).allowed
        BY <1>0, <2>1, <4>1, <4>2, ReplaceFacts
      <4> QED BY <2>1, <4>1, <4>3, OnEndedFacts
    <3> QED BY <3>1, <3>2
  <2>4. CASE MediaFails(e)
    <3> DEFINE r == [Release(Replace(p, e, None)) EXCEPT !.url = None, !.speaking = FALSE]
               o == OnEnded(r, e.then)
    <3>1. /\ player' = IF e.phase = "playing" THEN o
                       ELSE OnEnded([o EXCEPT !.speaking = FALSE], e.then)
          /\ e.phase # "blocked"
      BY <2>4 DEF MediaFails, PlayerStep
    <3>2. Proper(Replace(p, e, None)) /\ Replace(p, e, None).allowed
      BY <1>0, <2>1, <3>1, ReplaceFacts
    <3>3. Proper(r) /\ r.allowed
      BY <3>2, ReleaseFacts
    <3> HIDE DEF r
    <3>4. Proper(o) /\ o.allowed
      BY <2>1, <3>3, OnEndedFacts
    <3> HIDE DEF o
    <3>5. Proper([o EXCEPT !.speaking = FALSE]) /\ [o EXCEPT !.speaking = FALSE].allowed
      BY <3>4 DEF Proper, Players, Blocked
    <3>6. Proper(OnEnded([o EXCEPT !.speaking = FALSE], e.then))
      BY <2>1, <3>5, OnEndedFacts
    <3> QED BY <3>1, <3>4, <3>6
  <2> QED BY <1>7, <2>2, <2>3, <2>4
<1>8. ASSUME NEW e \in player.aborted, Rejected(e) PROVE Proper(player')
  <2> DEFINE r == [p EXCEPT !.aborted = @ \ {e}, !.speaking = FALSE]
  <2>1. player' = OnEnded(r, e.then)
    BY <1>8 DEF Rejected, PlayerStep
  <2>2. Proper(r) /\ r.allowed
    BY <1>0, SettledFacts
  <2>3. e.then \in {"next", "stale", "none"}
    BY <1>0 DEF Players, ElementsOf
  <2> HIDE DEF r
  <2> QED BY <2>1, <2>2, <2>3, OnEndedFacts
<1>9. CASE Gesture
  <2> DEFINE g == [p EXCEPT !.allowed = TRUE, !.pending = None]
  <2>1. ~p.allowed /\ player' = IF p.pending = None THEN g ELSE PlayAudio(g, p.pending, "next")
    BY <1>9 DEF Gesture, PlayerStep
  <2> QED BY <1>0, <2>1, GestureFacts
<1>10. CASE Replay
  <2>1. /\ player' = PlayAudio(p, p.url, "none") /\ p.allowed /\ p.url \in Chunks
        /\ "none" \in {"next", "stale", "none"}
    BY <1>0, <1>10 DEF Replay, PlayerStep, Players
  <2>2. p.pending = None
    BY <1>0, <2>1 DEF Proper, Blocked
  <2> QED BY <1>0, <2>1, <2>2, PlayAudioFacts
<1>11. ASSUME NEW q \in Requests, Send(q) \/ Resume(q) \/ End(q) \/ ServerError(q)
       PROVE  player' = player \/ player' = Silence(player)
  BY <1>11 DEF Send, Resume, End, ServerError, Deliver, InterruptNow
<1>12. CASE TokenArrives \/ TokenFails \/ DialSucceeds \/ DialFails \/ RetryTimer \/ Drop
            \/ Interrupt \/ HangUp \/ StartOver \/ Leave \/ Pause \/ UNCHANGED vars
  <2>1. player' \in {player, Silence(player), StopAudio(player)}
    BY <1>12 DEF TokenArrives, TokenFails, DialSucceeds, DialFails, RetryTimer, Drop, Interrupt,
       HangUp, StartOver, Leave, Pause, PlayerStep, InterruptNow, vars
  <2> QED BY <2>1, <1>1, <1>2, <1>3
<1> HIDE DEF p
<1> QED BY <1>1, <1>2, <1>4, <1>5, <1>6, <1>7, <1>8, <1>9, <1>10, <1>11, <1>12 DEF Next, Media

(* A number more heard. *)
LEMMA AppendHeard ==
  ASSUME NEW s \in Seq(Nat), NEW n \in Nat
  PROVE  /\ Append(s, n) \in Seq(Nat)
         /\ {Append(s, n)[j] : j \in 1..Len(Append(s, n))} = {s[j] : j \in 1..Len(s)} \cup {n}
         /\ (\A j \in 1..Len(s) : s[j] < n) /\ (\A j \in 1..(Len(s) - 1) : s[j] < s[j + 1])
              => \A j \in 1..(Len(Append(s, n)) - 1) : Append(s, n)[j] < Append(s, n)[j + 1]
<1> DEFINE t == Append(s, n)
<1>1. /\ t \in Seq(Nat) /\ Len(s) \in Nat /\ Len(t) = Len(s) + 1 /\ t[Len(s) + 1] = n
      /\ \A j \in 1..Len(s) : t[j] = s[j]
  OBVIOUS
<1> HIDE DEF t
<1>2. {t[j] : j \in 1..Len(t)} = {s[j] : j \in 1..Len(s)} \cup {n}
  <2>1. \A j \in 1..Len(t) : j \in 1..Len(s) \/ j = Len(s) + 1
    BY <1>1
  <2>2. \A j \in 1..Len(s) : j \in 1..Len(t)
    BY <1>1
  <2>3. Len(s) + 1 \in 1..Len(t)
    BY <1>1
  <2> QED BY ONLY <1>1, <2>1, <2>2, <2>3
<1>3. ASSUME \A j \in 1..Len(s) : s[j] < n, \A j \in 1..(Len(s) - 1) : s[j] < s[j + 1],
             NEW j \in 1..(Len(t) - 1)
      PROVE  t[j] < t[j + 1]
  <2>1. CASE j = Len(s)
    <3>1. j \in 1..Len(s) /\ t[j + 1] = n
      BY <1>1, <2>1
    <3>2. t[j] = s[j] /\ s[j] < n
      BY <1>1, <1>3, <3>1
    <3> QED BY <3>1, <3>2
  <2>2. CASE j # Len(s)
    <3>1. j \in 1..(Len(s) - 1) /\ j \in 1..Len(s) /\ j + 1 \in 1..Len(s)
      BY <1>1, <2>2
    <3> QED BY <1>1, <1>3, <3>1
  <2> QED BY <2>1, <2>2
<1> QED BY <1>1, <1>2, <1>3 DEF t

(* Types: one step per kind of action. *)
LEMMA NextTypes ==
  ASSUME TypeInv, TurnInv, [Next]_vars
  PROVE  TypeInv'
<1> USE DEF connection, server, history, bounds
<1>0. Proper(player') /\ player \in Players
  BY ProperNext DEF TypeInv, Proper
<1>s. Sent \subseteq Requests
  BY DEF Sent
<1>1. CASE Connect \/ TokenArrives \/ TokenFails \/ DialSucceeds \/ RetryTimer
  BY <1>0, <1>1 DEF Connect, TokenArrives, TokenFails, DialSucceeds, RetryTimer, TypeInv
<1>2. CASE DialFails \/ Drop
  <2>1. attempts' = attempts + 1 /\ conn' \in {"waiting", "lost"} /\ attempts <= MaxAttempts
    BY <1>2 DEF DialFails, Drop, Retry, TurnInv
  <2>2. attempts' \in 0..(MaxAttempts + 1)
    BY <2>1 DEF TypeInv
  <2> QED BY <1>0, <1>2, <2>1, <2>2 DEF DialFails, Drop, LoseSocket, TypeInv
<1>3. CASE Interrupt \/ StartOver
  BY <1>0, <1>s, <1>3 DEF Interrupt, StartOver, InterruptNow, TypeInv
<1>4. CASE HangUp \/ Leave
  <2>1. conn' \in {"token", "off"} /\ attempts' = 0
    BY <1>4 DEF HangUp, Leave, Disconnect
  <2>2. /\ stream' = [q \in Requests |-> IF Live(q) THEN "closed" ELSE stream[q]]
        /\ cut' = cut \cup {q \in Requests : Live(q)} /\ UNCHANGED <<got, call, heard>>
        /\ silenced' \in {silenced, silenced \cup Sent} /\ current' \in {current, None}
        /\ processing' \in {processing, FALSE} /\ hungUp' \in {hungUp, TRUE}
        /\ leaving' \in {leaving, FALSE}
    BY <1>4 DEF HangUp, Leave, Disconnect, LoseSocket, InterruptNow
  <2>3. stream' \in [Requests -> {"none", "open", "completed", "closed"}]
    BY <2>2 DEF TypeInv
  <2>4. /\ conn' \in {"off", "token", "dialing", "on", "waiting", "lost"}
        /\ attempts' \in 0..(MaxAttempts + 1) /\ hungUp' \in BOOLEAN /\ leaving' \in BOOLEAN
        /\ current' \in Requests \cup {None} /\ processing' \in BOOLEAN
    <3>1. attempts' \in 0..(MaxAttempts + 1)
      BY <2>1
    <3>2. conn' \in {"off", "token", "dialing", "on", "waiting", "lost"}
      BY <2>1
    <3>3. hungUp' \in BOOLEAN /\ leaving' \in BOOLEAN /\ processing' \in BOOLEAN
          /\ current' \in Requests \cup {None}
      BY <2>2 DEF TypeInv
    <3> QED BY <3>1, <3>2, <3>3
  <2>5. silenced' \subseteq Requests /\ cut' \subseteq Requests
    BY <1>s, <2>2 DEF TypeInv
  <2>6. /\ call' \in [Requests -> {"off", "idle", "waiting", "sent", "failed"}]
        /\ got' \in [Requests -> SUBSET Nat] /\ \A q \in Requests : got'[q] \subseteq Sentences(q)
        /\ heard' \in [Requests -> Seq(Nat)]
    BY <2>2 DEF TypeInv
  <2> QED BY <1>0, <2>3, <2>4, <2>5, <2>6 DEF TypeInv
<1>5. ASSUME NEW q \in Requests, Send(q) \/ Resume(q) PROVE TypeInv'
  <2>1. /\ UNCHANGED <<connection, got, heard, cut>>
        /\ silenced' \in {silenced, silenced \cup Sent} /\ current' \in {current, None, q}
        /\ processing' \in {processing, FALSE, TRUE}
        /\ stream' = stream \/ stream' = [stream EXCEPT ![q] = "open"]
        /\ \E c \in {"waiting", "sent", "failed"} : call' = [call EXCEPT ![q] = c]
    BY <1>5 DEF Send, Resume, Deliver, InterruptNow
  <2>2. stream' \in [Requests -> {"none", "open", "completed", "closed"}]
        /\ call' \in [Requests -> {"off", "idle", "waiting", "sent", "failed"}]
    BY <2>1 DEF TypeInv
  <2>3. silenced' \subseteq Requests /\ current' \in Requests \cup {None} /\ processing' \in BOOLEAN
    BY <1>s, <2>1 DEF TypeInv
  <2> QED BY <1>0, <2>1, <2>2, <2>3 DEF TypeInv
<1>6. ASSUME NEW q \in Requests, End(q) \/ ServerError(q) PROVE TypeInv'
  <2>1. /\ UNCHANGED <<connection, call, got, heard, cut>> /\ stream' = [stream EXCEPT ![q] = "closed"]
        /\ silenced' \in {silenced, silenced \cup Sent} /\ current' \in {current, None}
        /\ processing' \in {processing, FALSE}
    BY <1>6 DEF End, ServerError, InterruptNow
  <2>2. stream' \in [Requests -> {"none", "open", "completed", "closed"}]
    BY <2>1 DEF TypeInv
  <2>3. silenced' \subseteq Requests /\ current' \in Requests \cup {None} /\ processing' \in BOOLEAN
    BY <1>s, <2>1 DEF TypeInv
  <2> QED BY <1>0, <2>1, <2>2, <2>3 DEF TypeInv
<1>7. ASSUME NEW q \in Requests, NEW i \in Sentences(q), Chunk(q, i) PROVE TypeInv'
  <2>1. i \in Nat
    BY ChunkFields
  <2> QED BY <1>0, <1>7, <2>1 DEF Chunk, TypeInv
<1>8. ASSUME NEW q \in Requests, NEW n \in 0..MaxSentences[q], Completed(q, n) PROVE TypeInv'
  BY <1>0, <1>8 DEF Completed, TypeInv
<1>9. CASE Gesture \/ Pause \/ Replay
  BY <1>0, <1>9 DEF Gesture, Pause, Replay, PlayerStep, TypeInv
<1>10. ASSUME NEW e \in Elements, Begins(e) \/ Ends(e) \/ MediaFails(e) PROVE TypeInv'
  BY <1>0, <1>10 DEF Begins, Ends, MediaFails, PlayerStep, TypeInv
<1>11. ASSUME NEW e \in Elements, Sounds(e) PROVE TypeInv'
  <2>1. e \in ElementsOf(Phases)
    BY <1>0, ElementKinds DEF Elements, Players
  <2>2. e.chunk.of \in Requests /\ e.chunk.idx \in Nat
    BY <2>1, ElementKinds, ChunkFields
  <2>3. heard' = [heard EXCEPT ![e.chunk.of] = Append(@, e.chunk.idx)]
        /\ UNCHANGED <<connection, current, processing, call, server, history, bounds>>
    BY <1>11 DEF Sounds, PlayerStep
  <2>4. heard' \in [Requests -> Seq(Nat)]
    <3>1. Append(heard[e.chunk.of], e.chunk.idx) \in Seq(Nat)
      BY <2>2, AppendHeard DEF TypeInv
    <3> QED BY <2>2, <2>3, <3>1 DEF TypeInv
  <2> QED BY <1>0, <2>3, <2>4 DEF TypeInv
<1>12. ASSUME NEW e \in player.aborted, Rejected(e) PROVE TypeInv'
  BY <1>0, <1>12 DEF Rejected, PlayerStep, TypeInv
<1>13. CASE UNCHANGED vars
  BY <1>0, <1>13 DEF vars, TypeInv
<1> QED
  BY <1>1, <1>2, <1>3, <1>4, <1>5, <1>6, <1>7, <1>8, <1>9, <1>10, <1>11, <1>12, <1>13 DEF Next, Media

(* The turns: one step per kind of action. *)
LEMMA NextTurns ==
  ASSUME TypeInv, TurnInv, [Next]_vars
  PROVE  TurnInv'
<1> USE DEF connection, server, history, bounds
<1>1. CASE Connect \/ TokenArrives \/ TokenFails \/ DialSucceeds \/ RetryTimer
  <2>1. /\ UNCHANGED <<current, call, stream, got, silenced>> /\ conn \notin {"on", "lost"}
        /\ attempts' = attempts /\ (hungUp' => hungUp)
        /\ (hungUp' => conn' \in {"off", "token", "lost"})
    BY <1>1 DEF Connect, TokenArrives, TokenFails, DialSucceeds, RetryTimer, TurnInv
  <2> QED BY <2>1 DEF TurnInv, Voiced, Sent, Live
<1>2. CASE DialFails \/ Drop
  <2>1. /\ UNCHANGED <<current, call, got, silenced, hungUp>> /\ ~hungUp
        /\ conn' \in {"waiting", "lost"} /\ (conn' # "lost" => attempts' <= MaxAttempts)
    BY <1>2 DEF DialFails, Drop, Retry, LoseSocket, TurnInv, TypeInv
  <2>2. stream' = [q \in Requests |-> IF Live(q) THEN "closed" ELSE stream[q]]
    <3>1. CASE DialFails
      <4>1. \A q \in Requests : ~Live(q)
        BY <3>1 DEF DialFails, TurnInv
      <4> QED BY <3>1, <4>1 DEF DialFails, TypeInv
    <3> QED BY <1>2, <3>1 DEF Drop, LoseSocket
  <2>3. Sent' = Sent /\ Voiced' = Voiced /\ \A q \in Requests : ~Live(q)'
    BY <2>1, <2>2 DEF Sent, Voiced, Live
  <2>4. Voiced \subseteq Requests
    BY DEF Voiced, Sent
  <2> QED BY <2>1, <2>3, <2>4 DEF TurnInv
<1>3. CASE Interrupt \/ StartOver
  <2>1. /\ UNCHANGED <<call, stream, got, hungUp, conn, attempts>>
        /\ current' = None /\ silenced' = silenced \cup Sent
    BY <1>3 DEF Interrupt, StartOver, InterruptNow
  <2>2. Sent' = Sent /\ Voiced' = {}
    BY <2>1 DEF Sent, Voiced
  <2> QED BY <2>1, <2>2 DEF TurnInv, Live
<1>4. CASE HangUp \/ Leave
  <2>1. /\ conn' = IF conn = "token" THEN "token" ELSE "off"
        /\ attempts' = 0 /\ UNCHANGED <<call, got>>
        /\ stream' = [q \in Requests |-> IF Live(q) THEN "closed" ELSE stream[q]]
        /\ \/ current' = None /\ silenced' = silenced \cup Sent
           \/ UNCHANGED <<current, silenced>>
    BY <1>4 DEF HangUp, Leave, Disconnect, LoseSocket, InterruptNow
  <2>2. /\ Sent' = Sent /\ \A q \in Requests : ~Live(q)'
        /\ Voiced' = {} \/ (Voiced' = Voiced /\ current' = current)
        /\ current' # None => current' \in Voiced'
    <3>1. Sent' = Sent /\ \A q \in Requests : ~Live(q)'
      BY <2>1 DEF Sent, Live
    <3>2. CASE current' = None /\ silenced' = silenced \cup Sent
      BY <3>1, <3>2 DEF Voiced
    <3>3. CASE UNCHANGED <<current, silenced>>
      BY <3>1, <3>3 DEF Voiced, TurnInv
    <3> QED BY <2>1, <3>1, <3>2, <3>3
  <2>3. silenced' \subseteq Sent'
    BY <2>1, <2>2 DEF TurnInv
  <2>4. \A q \in Voiced' : q \in Requests
    BY DEF Voiced, Sent
  <2>5. hungUp' => conn' \in {"off", "token", "lost"}
    BY <2>1
  <2>6. attempts' <= MaxAttempts
    BY <2>1
  <2>7. /\ \A q \in Requests : (call'[q] = "sent") = (q \in Sent')
        /\ \A q \in Requests \ Sent' : got'[q] = {}
        /\ \A q, r \in Voiced' : q = r
    BY <2>1, <2>2 DEF TurnInv
  <2> QED BY <2>2, <2>3, <2>4, <2>5, <2>6, <2>7 DEF TurnInv
<1>5. ASSUME NEW q \in Requests, Send(q) \/ Resume(q) PROVE TurnInv'
  <2>0. call[q] \in {"idle", "waiting"} /\ q \notin Sent
    BY <1>5 DEF Send, Resume, TurnInv
  <2>1. CASE /\ conn = "on" /\ current' = q /\ silenced' = silenced \cup Sent
             /\ call' = [call EXCEPT ![q] = "sent"] /\ stream' = [stream EXCEPT ![q] = "open"]
             /\ UNCHANGED <<conn, attempts, hungUp, got>>
    <3>1. Sent' = Sent \cup {q} /\ Voiced' = {q} /\ q # None /\ ~hungUp
      BY <2>0, <2>1 DEF Sent, Voiced, TypeInv, TurnInv
    <3> QED BY <2>0, <2>1, <3>1 DEF TurnInv, TypeInv, Live
  <2>2. CASE /\ current' = None /\ silenced' = silenced \cup Sent
             /\ call' = [call EXCEPT ![q] = "waiting"]
             /\ UNCHANGED <<conn, attempts, hungUp, got, stream>>
    <3>1. Sent' = Sent /\ Voiced' = {}
      BY <2>2 DEF Sent, Voiced
    <3> QED BY <2>0, <2>2, <3>1 DEF TurnInv, TypeInv, Live
  <2>3. CASE /\ call' = [call EXCEPT ![q] = "failed"]
             /\ UNCHANGED <<conn, attempts, hungUp, got, stream, current, silenced>>
    BY <2>0, <2>3 DEF TurnInv, TypeInv, Live, Sent, Voiced
  <2> QED BY <1>5, <2>1, <2>2, <2>3 DEF Send, Resume, Deliver, InterruptNow
<1>6. ASSUME NEW q \in Requests, End(q) \/ ServerError(q) PROVE TurnInv'
  <2>1. /\ Live(q) /\ stream' = [stream EXCEPT ![q] = "closed"]
        /\ UNCHANGED <<conn, attempts, hungUp, call, got>>
    BY <1>6 DEF End, ServerError, Live
  <2>2. Sent' = Sent /\ ~Live(q)' /\ \A r \in Requests : Live(r)' => Live(r)
    BY <2>1 DEF Sent, Live, TypeInv
  <2>3. CASE UNCHANGED <<current, silenced>>
    <3>1. Voiced' = Voiced /\ Voiced \subseteq Requests
      BY <2>2, <2>3 DEF Voiced, Sent
    <3> QED BY <2>1, <2>2, <2>3, <3>1 DEF TurnInv
  <2>4. CASE current' = None /\ silenced' = silenced \cup Sent
    <3>1. Voiced' = {}
      BY <2>2, <2>4 DEF Voiced
    <3> QED BY <2>1, <2>2, <2>4, <3>1 DEF TurnInv
  <2>5. CASE current = q /\ current' = None /\ silenced' = silenced
    <3>1. Voiced' = Voiced /\ Voiced \subseteq Requests
      BY <2>2, <2>5 DEF Voiced, Sent
    <3> QED BY <2>1, <2>2, <2>5, <3>1 DEF TurnInv
  <2> QED BY <1>6, <2>3, <2>4, <2>5 DEF End, ServerError, InterruptNow, Mine
<1>7. ASSUME NEW q \in Requests, NEW i \in Sentences(q), Chunk(q, i) PROVE TurnInv'
  <2>1. /\ stream[q] = "open" /\ got' = [got EXCEPT ![q] = @ \cup {i}]
        /\ UNCHANGED <<conn, attempts, hungUp, call, stream, current, silenced>>
    BY <1>7 DEF Chunk
  <2>2. q \in Sent /\ Sent' = Sent /\ Voiced' = Voiced
    BY <2>1 DEF Sent, Voiced
  <2> QED BY <2>1, <2>2 DEF TurnInv, TypeInv, Live
<1>8. ASSUME NEW q \in Requests, NEW n \in 0..MaxSentences[q], Completed(q, n) PROVE TurnInv'
  <2>1. /\ stream[q] = "open" /\ stream' = [stream EXCEPT ![q] = "completed"]
        /\ UNCHANGED <<conn, attempts, hungUp, call, got, current, silenced>>
    BY <1>8 DEF Completed
  <2>2. Sent' = Sent /\ Voiced' = Voiced /\ \A r \in Requests : Live(r)' => Live(r)
    BY <2>1 DEF Sent, Voiced, Live, TypeInv
  <2>3. Voiced \subseteq Requests
    BY DEF Voiced, Sent
  <2> QED BY <2>1, <2>2, <2>3 DEF TurnInv
<1>9. CASE \/ Gesture \/ Pause \/ Replay \/ UNCHANGED vars
           \/ \E e \in Elements : Begins(e) \/ Sounds(e) \/ Ends(e) \/ MediaFails(e)
           \/ \E e \in player.aborted : Rejected(e)
  <2>1. UNCHANGED <<conn, attempts, hungUp, call, got, stream, current, silenced>>
    BY <1>9 DEF Gesture, Pause, Replay, Begins, Sounds, Ends, MediaFails, Rejected, PlayerStep, vars
  <2> QED BY <2>1 DEF TurnInv, Voiced, Sent, Live
<1> QED
  BY <1>1, <1>2, <1>3, <1>4, <1>5, <1>6, <1>7, <1>8, <1>9 DEF Next, Media

-----------------------------------------------------------------------------
(* The voice                                                               *)

VoiceStep == (~upset => VoiceInv) /\ (~upset /\ ~stopped => KeptInv)

(* The types of what the history variables add up to.                        *)
LEMMA Sets ==
  ASSUME TypeInv
  PROVE  /\ Voiced \subseteq Requests /\ Arrived \subseteq Chunks
         /\ \A q \in Requests : got[q] \in SUBSET Nat /\ Heard(q) \in SUBSET Nat
         /\ player \in Players /\ player.next \in Nat /\ Proper(player)
<1>1. \A q \in Requests : heard[q] \in Seq(Nat) /\ got[q] \in SUBSET Nat
  BY DEF TypeInv
<1>2. \A q \in Requests : Heard(q) \in SUBSET Nat
  BY <1>1 DEF Heard
<1> QED BY <1>1, <1>2 DEF Voiced, Sent, Arrived, TypeInv, Proper, Players

(* Steps that leave the player, its turn and what was heard alone. *)
LEMMA VoiceAlone ==
  ASSUME TypeInv, TurnInv, VoiceStep, upset' = upset, stopped' = stopped, silenced' = silenced,
         player' = player, heard' = heard, Sent' = Sent,
         \A q \in Voiced : got'[q] = got[q],
         \A q \in Requests \ Sent : got'[q] = got[q],
         \A q \in Voiced : stream'[q] = "open" => stream[q] = "open",
         conn' = "off" => conn = "off"
  PROVE  VoiceStep'
<1>1. Voiced' = Voiced /\ Voiced \subseteq Requests
  BY Sets DEF Voiced
<1>2. Arrived' = Arrived
  BY <1>1 DEF Arrived
<1>3. \A q : Heard(q)' = Heard(q)
  BY DEF Heard
<1>4. ASSUME ~upset', VoiceInv PROVE VoiceInv'
  BY <1>1, <1>2, <1>3, <1>4 DEF VoiceInv
<1>5. ASSUME KeptInv PROVE KeptInv'
  BY <1>1, <1>3, <1>5 DEF KeptInv
<1> QED BY <1>4, <1>5 DEF VoiceStep

(* Silencing: an interrupt, or the turn that is sent next. *)
LEMMA VoiceSilenced ==
  ASSUME TypeInv, TurnInv, VoiceStep, upset' = upset, silenced' = silenced \cup Sent,
         player' = Silence(player), heard' = heard, got' = got,
         Sent \subseteq Sent', Sent' \subseteq Requests
  PROVE  VoiceStep'
<1>1. \A q \in Voiced' : q \in Requests /\ q \notin Sent
  BY DEF Voiced
<1>2. \A q \in Voiced' : got'[q] = {}
  BY <1>1 DEF TurnInv
<1>3. Arrived' = {}
  BY <1>2 DEF Arrived
<1>4. /\ player'.queue = {} /\ player'.next = 0 /\ player'.total = None /\ ~player'.playing
      /\ player'.audio = None
  BY SilenceFacts, Sets
<1>5. ASSUME ~upset PROVE VoiceInv' /\ KeptInv'
  <2>1. VoiceInv
    BY <1>5 DEF VoiceStep
  <2>2. /\ Steady(player', {}, silenced \cup Sent)
        /\ \A e \in player'.aborted : e.then # "next"
    <3>1. \A c \in Arrived : c.of \in silenced \cup Sent
      BY DEF Arrived, Voiced
    <3>2. Steady(player, Arrived, silenced) /\ Proper(player) /\ silenced \subseteq silenced \cup Sent
      BY <2>1, Sets DEF VoiceInv
    <3> HIDE DEF Arrived
    <3> QED BY <3>1, <3>2, SilenceSteady
  <2>3. \A q \in Voiced' : heard'[q] = <<>> /\ Heard(q)' = {}
    BY <1>1, <2>1 DEF VoiceInv, Heard
  <2>4. \A q \in Voiced' : /\ HeardOk(player', {}) /\ TotalOk(player', {})
                           /\ Skipless(player', q, {}, {})
    BY <1>4 DEF HeardOk, TotalOk, Skipless
  <2>5. VoiceInv'
    BY <1>2, <1>3, <1>4, <2>1, <2>2, <2>3, <2>4 DEF VoiceInv
  <2>6. KeptInv'
    <3>1. ASSUME NEW q \in Voiced' PROVE Skipless(player', q, got'[q], Heard(q)')
      <4>1. got'[q] = {} /\ Skipless(player', q, {}, {})
        BY <1>2, <2>4
      <4>2. Heard(q)' = {}
        BY <2>3
      <4> QED BY <4>1, <4>2
    <3> QED BY <1>4, <2>2, <3>1 DEF KeptInv, Playing
  <2> QED BY <2>5, <2>6
<1> QED BY <1>5 DEF VoiceStep

(* The sound is stopped, but the queue not emptied: only in a pause, or when *)
(* nothing sounds.                                                          *)
LEMMA VoiceStopped ==
  ASSUME TypeInv, TurnInv, VoiceStep, upset' = upset, silenced' = silenced,
         Same(StopAudio(player), player'), heard' = heard, got' = got, Sent' = Sent,
         \A q \in Voiced : stream'[q] = "open" => stream[q] = "open",
         stopped' \/ (stopped' = stopped /\ conn = "off")
  PROVE  VoiceStep'
<1>1. Voiced' = Voiced /\ Voiced \subseteq Requests
  BY Sets DEF Voiced
<1>2. Arrived' = Arrived
  BY <1>1 DEF Arrived
<1>3. \A q : Heard(q)' = Heard(q)
  BY DEF Heard
<1>4. Proper(player) /\ Proper(StopAudio(player))
  BY Sets, StopAudioFacts
<1>5. /\ player'.audio = None /\ player'.aborted = player.aborted \cup StartingAudio(player)
      /\ player'.queue = player.queue /\ player'.next = player.next
      /\ player'.total = player.total /\ player'.playing = player.playing
  BY <1>4, StopAudioFacts DEF Same
<1>6. ASSUME ~upset PROVE VoiceInv'
  <2>1. VoiceInv
    BY <1>6 DEF VoiceStep
  <2>2. Steady(player', Arrived, silenced)
    BY <1>4, <2>1, StopAudioSteady, SameFacts DEF VoiceInv
  <2>3. \A q \in Voiced : HeardOk(player', Heard(q)) /\ TotalOk(player', got[q])
    <3>1. /\ \A H : HeardOk(player, H) => HeardOk(StopAudio(player), H)
          /\ \A G : TotalOk(player, G) => TotalOk(StopAudio(player), G)
      BY <1>4, <2>1, StopAudioSteady DEF VoiceInv
    <3>2. /\ \A H : HeardOk(StopAudio(player), H) => HeardOk(player', H)
          /\ \A G : TotalOk(StopAudio(player), G) => TotalOk(player', G)
      BY <1>4, SameFacts
    <3> QED BY <2>1, <3>1, <3>2 DEF VoiceInv
  <2>4. conn' = "off" => stopped' \/ (player'.queue = {} /\ player'.audio = None)
    BY <1>5, <2>1 DEF VoiceInv
  <2> QED BY <1>1, <1>2, <1>3, <1>5, <2>1, <2>2, <2>3, <2>4 DEF VoiceInv
<1>7. ASSUME ~upset, ~stopped' PROVE KeptInv'
  <2>1. VoiceInv /\ KeptInv /\ player.audio = None
    BY <1>7 DEF VoiceStep, VoiceInv
  <2>2. player'.aborted = player.aborted
    BY <1>5, <2>1 DEF StartingAudio
  <2> QED BY <1>1, <1>3, <1>5, <2>1, <2>2 DEF KeptInv, Skipless, Playing
<1> QED BY <1>6, <1>7 DEF VoiceStep

(* The player moves, its turn does not: what has to be shown of the player. *)
LEMMA VoiceMoves ==
  ASSUME TypeInv, VoiceInv, silenced' = silenced, heard' = heard, got' = got, Sent' = Sent,
         Steady(player', Arrived, silenced),
         \A q \in Voiced : /\ HeardOk(player', Heard(q)) /\ TotalOk(player', got[q])
                           /\ player'.total # None => stream'[q] # "open",
         conn' # "off" \/ stopped' \/ (player'.queue = {} /\ player'.audio = None)
  PROVE  VoiceInv'
<1>1. Voiced' = Voiced /\ Voiced \subseteq Requests
  BY Sets DEF Voiced
<1>2. Arrived' = Arrived
  BY <1>1 DEF Arrived
<1>3. \A q : Heard(q)' = Heard(q)
  BY DEF Heard
<1> QED BY <1>1, <1>2, <1>3 DEF VoiceInv

(* A step that neither speaks, sends nor silences keeps what was kept, when   *)
(* the player after it skips nothing.                                        *)
LEMMA KeptMoves ==
  ASSUME TypeInv, silenced' = silenced, heard' = heard, got' = got, Sent' = Sent,
         \A q \in Voiced : /\ Skipless(player', q, got[q], Heard(q))
                           /\ Playing(player') => player'.next \in Heard(q),
         player'.playing => player'.audio # None,
         \A e \in player'.aborted : e.then # "next"
  PROVE  KeptInv'
<1>1. Voiced' = Voiced
  BY DEF Voiced
<1>2. \A q : Heard(q)' = Heard(q)
  BY DEF Heard
<1> QED BY <1>1, <1>2 DEF KeptInv, Playing

(* The player looks for a sentence to play, with what it knows by now. *)
LEMMA VoiceTries ==
  ASSUME TypeInv', NEW p, Proper(p), player' = TryPlayNext(p),
         Steady(p, Arrived', silenced'),
         \A q \in Voiced' : /\ HeardOk(p, Heard(q)') /\ TotalOk(p, got'[q])
                            /\ p.total # None => stream'[q] # "open",
         \A q \in Requests \ Sent' : heard'[q] = <<>>,
         \A q \in Requests : \A j \in 1..(Len(heard'[q]) - 1) : heard'[q][j] < heard'[q][j + 1],
         conn' # "off" \/ stopped'
  PROVE  /\ VoiceInv'
         /\ /\ \A q \in Voiced' : /\ Skipless(p, q, got'[q], Heard(q)')
                                  /\ Playing(p) => p.next \in Heard(q)'
            /\ p.playing => p.audio # None
            /\ \A e \in p.aborted : e.then # "next"
            => KeptInv'
<1>1. Voiced' \subseteq Requests /\ Arrived' \subseteq Chunks
  BY DEF Voiced, Sent, Arrived
<1>2. \A q \in Requests : got'[q] \in SUBSET Nat /\ Heard(q)' \in SUBSET Nat
  <2>1. \A q \in Requests : heard'[q] \in Seq(Nat) /\ got'[q] \in SUBSET Nat
    BY DEF TypeInv
  <2> QED BY <2>1 DEF Heard
<1> DEFINE r == TryPlayNext(p)
<1>3. /\ Steady(r, Arrived', silenced')
      /\ \A H \in SUBSET Nat : HeardOk(p, H) => HeardOk(r, H)
      /\ \A G \in SUBSET Nat : TotalOk(p, G) => TotalOk(r, G)
      /\ \A q, G, H : G \subseteq Nat /\ TotalOk(p, G) /\ Skipless(p, q, G, H)
           => Skipless(r, q, G, H)
      /\ r.aborted = p.aborted /\ r.total = p.total
      /\ r.playing => r = p \/ r.audio # None
      /\ (r.audio # None /\ r.audio.phase = "playing") => r = p
  BY <1>1, TryPlayNextSteady
<1>4. player' = r
  OBVIOUS
<1> HIDE DEF r
<1>5. \A q \in Voiced' : HeardOk(r, Heard(q)') /\ TotalOk(r, got'[q])
  BY <1>1, <1>2, <1>3
<1>6. VoiceInv'
  BY <1>3, <1>4, <1>5 DEF VoiceInv
<1>7. ASSUME \A q \in Voiced' : /\ Skipless(p, q, got'[q], Heard(q)')
                                /\ Playing(p) => p.next \in Heard(q)',
             p.playing => p.audio # None,
             \A e \in p.aborted : e.then # "next"
      PROVE  KeptInv'
  <2>1. \A q \in Voiced' : Skipless(r, q, got'[q], Heard(q)')
    BY <1>1, <1>2, <1>3, <1>7
  <2>2. /\ r.playing => r.audio # None
        /\ \A e \in r.aborted : e.then # "next"
    BY <1>3, <1>7
  <2>3. \A q \in Voiced' : Playing(r) => r.next \in Heard(q)'
    BY <1>3, <1>7 DEF Playing
  <2> QED BY <1>4, <2>1, <2>2, <2>3 DEF KeptInv, Playing
<1> QED BY <1>6, <1>7

(* A sentence arrives: of the turn whose voice may sound, it is queued, and  *)
(* no rejection of an earlier turn is on its way.                           *)
LEMMA VoiceChunk ==
  ASSUME TypeInv, TypeInv', TurnInv, VoiceStep, NEW q \in Requests, NEW i \in Sentences(q),
         Chunk(q, i)
  PROVE  VoiceStep'
<1>0. /\ stream[q] = "open" /\ i \notin got[q] /\ got' = [got EXCEPT ![q] = @ \cup {i}]
      /\ \A e \in player.aborted : e.chunk.of = q
      /\ UNCHANGED <<conn, stream, heard, silenced, stopped, upset>>
  BY DEF Chunk, connection, history
<1>1. /\ Live(q) /\ q \in Sent /\ Sent' = Sent /\ Voiced' = Voiced /\ conn = "on"
      /\ Voiced \subseteq Requests
  BY <1>0 DEF Live, Sent, Voiced, TurnInv
<1>2. CASE q \notin Voiced
  <2>1. ~Mine(q)
    <3>1. current # q
      BY <1>2, ClientAssumption DEF TurnInv
    <3> QED BY <3>1 DEF Mine
  <2>2. player' = player
    BY <2>1 DEF Chunk
  <2>3. \A v \in Voiced : got'[v] = got[v]
    BY <1>0, <1>1, <1>2 DEF TypeInv
  <2>4. \A v \in Requests \ Sent : got'[v] = got[v]
    BY <1>0, <1>1 DEF TypeInv
  <2> QED BY <1>0, <1>1, <2>2, <2>3, <2>4, VoiceAlone
<1>3. CASE q \in Voiced
  <2> DEFINE c == [of |-> q, idx |-> i]
             p == [player EXCEPT !.queue = {d \in @ : d.idx # i} \cup {c}]
  <2>0. c \in Chunks /\ c.of = q /\ c.idx = i /\ i \in Nat
    BY ChunkFields
  <2>1. Mine(q) /\ player' = TryPlayNext(p)
    <3>1. current = q /\ ~hungUp
      BY <1>1, <1>3 DEF TurnInv
    <3> QED BY <3>1 DEF Mine, Chunk
  <2>2. Voiced = {q} /\ q \notin silenced
    BY <1>3 DEF TurnInv, Voiced
  <2>3. got'[q] = got[q] \cup {i} /\ got[q] \in SUBSET Nat
    BY <1>0 DEF TypeInv
  <2>4. Arrived' = Arrived \cup {c}
    <3>1. \A d \in Chunks : d.of = q /\ d.idx = i => d = c
      BY ChunkFields
    <3>2. c \in Chunks /\ c.of = q /\ c.idx = i
      BY <2>0
    <3> HIDE DEF c
    <3> QED BY <1>1, <2>2, <2>3, <3>1, <3>2 DEF Arrived
  <2>5. ASSUME ~upset PROVE VoiceInv' /\ (~stopped => KeptInv')
    <3>0. VoiceInv
      BY <2>5 DEF VoiceStep
    <3>1. {d \in player.queue : d.idx # i} = player.queue
      <4>1. \A d \in player.queue : d.of = q /\ d.idx \in got[q]
        BY <2>2, <3>0 DEF VoiceInv, Steady, Arrived
      <4> QED BY <1>0, <4>1
    <3>2. p = [player EXCEPT !.queue = player.queue \cup {c}]
      BY <3>1
    <3>3. player.queue \cup {c} \in SUBSET Chunks /\ Proper(player)
      BY <2>0, Sets DEF Players
    <3> HIDE DEF p, c
    <3>4. /\ Proper(p) /\ p.queue = player.queue \cup {c} /\ p.next = player.next
          /\ p.total = player.total /\ p.playing = player.playing /\ p.audio = player.audio
          /\ p.orphans = player.orphans /\ p.aborted = player.aborted
          /\ p.pending = player.pending
      BY <3>2, <3>3, QueueFacts
    <3>5. \A e \in player.aborted : ~(e.chunk.of \in silenced)
      BY <1>0, <2>2
    <3>6. Steady(p, Arrived', silenced')
      <4>1. Steady(player, Arrived, silenced) /\ silenced' = silenced
        BY <1>0, <3>0 DEF VoiceInv
      <4> HIDE DEF Arrived
      <4> QED BY <2>4, <3>4, <3>5, <4>1 DEF Steady
    <3>7. p.total = None
      BY <1>0, <1>3, <3>0, <3>4 DEF VoiceInv
    <3>8. HeardOk(p, Heard(q)') /\ TotalOk(p, got'[q])
      <4>0. Heard(q)' = Heard(q)
        BY <1>0 DEF Heard
      <4>4. q \in Requests /\ HeardOk(player, Heard(q)) /\ TotalOk(player, got[q])
        BY <1>0, <1>3, <3>0 DEF VoiceInv
      <4>1. HeardOk(player, Heard(q)) /\ TotalOk(player, got[q]) /\ Heard(q)' = Heard(q)
        BY <4>0, <4>4
      <4>2. HeardOk(p, Heard(q)')
        BY <3>4, <4>1 DEF HeardOk
      <4>3. TotalOk(p, got'[q])
        BY <2>3, <3>4, <3>7, <4>1 DEF TotalOk
      <4> QED BY <4>2, <4>3
    <3>9. /\ \A v \in Requests \ Sent' : heard'[v] = <<>>
          /\ \A v \in Requests : \A j \in 1..(Len(heard'[v]) - 1) : heard'[v][j] < heard'[v][j + 1]
      BY <1>0, <1>1, <3>0 DEF VoiceInv
    <3>10. /\ Voiced' = {q} /\ conn' # "off"
      BY <1>0, <1>1, <2>2
    <3>11. ASSUME ~stopped
           PROVE  /\ Skipless(p, q, got'[q], Heard(q)')
                  /\ Playing(p) => p.next \in Heard(q)'
                  /\ p.playing => p.audio # None
                  /\ \A e \in p.aborted : e.then # "next"
      <4>1. KeptInv
        BY <2>5, <3>11 DEF VoiceStep
      <4>2. Heard(q)' = Heard(q)
        BY <1>0 DEF Heard
      <4>3. /\ Skipless(player, q, got[q], Heard(q))
            /\ Playing(player) => player.next \in Heard(q)
        BY <1>3, <4>1 DEF KeptInv
      <4>4. i >= player.next
        <5>1. \A k \in 0..(player.next - 1) : k \in got[q]
          BY <1>3, <3>0, <3>4, <3>7 DEF VoiceInv, TotalOk
        <5> QED BY <1>0, <2>0, <5>1, Sets
      <4>5. c = [of |-> q, idx |-> i] /\ player.next \in Nat
        BY Sets DEF c
      <4>6. Skipless(p, q, got'[q], Heard(q)')
        BY <2>0, <2>3, <3>4, <4>2, <4>3, <4>4, <4>5 DEF Skipless
      <4>7. Playing(p) => p.next \in Heard(q)'
        BY <3>4, <4>2, <4>3 DEF Playing
      <4> QED BY <3>4, <4>1, <4>6, <4>7 DEF KeptInv
    <3>12. VoiceInv'
      BY <2>1, <3>4, <3>6, <3>7, <3>8, <3>9, <3>10, VoiceTries
    <3>13. ASSUME ~stopped PROVE KeptInv'
      BY <2>1, <3>4, <3>6, <3>7, <3>8, <3>9, <3>10, <3>11, <3>13, VoiceTries
    <3> QED BY <3>12, <3>13
  <2> QED BY <1>0, <2>5 DEF VoiceStep
<1> QED BY <1>2, <1>3

(* The number of sentences arrives.                                         *)
LEMMA VoiceCompleted ==
  ASSUME TypeInv, TypeInv', TurnInv, VoiceStep, NEW q \in Requests, NEW n \in 0..MaxSentences[q],
         Completed(q, n)
  PROVE  VoiceStep'
<1>0. /\ stream[q] = "open" /\ \A i \in got[q] : i < n
      /\ stream' = [stream EXCEPT ![q] = "completed"]
      /\ UNCHANGED <<conn, got, heard, silenced, stopped, upset>>
  BY DEF Completed, connection, history
<1>1. /\ Live(q) /\ q \in Sent /\ Sent' = Sent /\ Voiced' = Voiced /\ conn = "on"
      /\ Voiced \subseteq Requests
      /\ \A v \in Requests : stream'[v] = "open" => stream[v] = "open"
  BY <1>0 DEF Live, Sent, Voiced, TurnInv, TypeInv
<1>2. CASE q \notin Voiced
  <2>1. ~Mine(q)
    <3>1. current # q
      BY <1>2, ClientAssumption DEF TurnInv
    <3> QED BY <3>1 DEF Mine
  <2>2. player' = player
    BY <2>1 DEF Completed
  <2> QED BY <1>0, <1>1, <2>2, VoiceAlone
<1>3. CASE q \in Voiced
  <2> DEFINE p == [player EXCEPT !.total = n]
  <2>0. n \in Nat
    OBVIOUS
  <2>1. Mine(q) /\ player' = TryPlayNext(p)
    <3>1. current = q /\ ~hungUp
      BY <1>1, <1>3 DEF TurnInv
    <3> QED BY <3>1 DEF Mine, Completed
  <2>2. Voiced = {q} /\ stream'[q] # "open"
    BY <1>0, <1>3 DEF TurnInv, TypeInv
  <2>3. Arrived' = Arrived
    BY <1>0, <1>1 DEF Arrived
  <2>4. /\ Proper(p) /\ p.queue = player.queue /\ p.next = player.next
        /\ p.total = n /\ p.playing = player.playing /\ p.audio = player.audio
        /\ p.orphans = player.orphans /\ p.aborted = player.aborted
        /\ p.pending = player.pending
    <3>1. Proper(player)
      BY Sets
    <3> HIDE DEF p
    <3> QED BY <2>0, <3>1, QueueFacts DEF p
  <2> HIDE DEF p
  <2>5. Heard(q)' = Heard(q)
    BY <1>0 DEF Heard
  <2>6. ASSUME ~upset PROVE VoiceInv' /\ (~stopped => KeptInv')
    <3>1. VoiceInv
      BY <2>6 DEF VoiceStep
    <3>2. Steady(p, Arrived', silenced')
      <4>1. Steady(player, Arrived, silenced) /\ silenced' = silenced
        BY <1>0, <3>1 DEF VoiceInv
      <4> HIDE DEF Arrived
      <4> QED BY <2>3, <2>4, <4>1 DEF Steady
    <3>3. HeardOk(p, Heard(q)') /\ TotalOk(p, got'[q])
      <4>1. HeardOk(player, Heard(q)) /\ TotalOk(player, got[q])
        BY <1>3, <3>1 DEF VoiceInv
      <4>2. HeardOk(p, Heard(q)')
        BY <2>4, <2>5, <4>1 DEF HeardOk
      <4>3. TotalOk(p, got'[q])
        BY <1>0, <2>0, <2>4 DEF TotalOk
      <4> QED BY <4>2, <4>3
    <3>4. /\ \A v \in Requests \ Sent' : heard'[v] = <<>>
          /\ \A v \in Requests : \A j \in 1..(Len(heard'[v]) - 1) : heard'[v][j] < heard'[v][j + 1]
      BY <1>0, <1>1, <3>1 DEF VoiceInv
    <3>5. Voiced' = {q} /\ conn' # "off"
      BY <1>0, <1>1, <2>2
    <3>6. VoiceInv'
      BY <2>1, <2>2, <2>4, <3>2, <3>3, <3>4, <3>5, VoiceTries
    <3>7. ASSUME ~stopped PROVE KeptInv'
      <4>1. KeptInv
        BY <2>6, <3>7 DEF VoiceStep
      <4>2. /\ Skipless(player, q, got[q], Heard(q))
            /\ Playing(player) => player.next \in Heard(q)
        BY <1>3, <4>1 DEF KeptInv
      <4>3. Skipless(p, q, got'[q], Heard(q)')
        BY <1>0, <2>4, <2>5, <4>2 DEF Skipless
      <4>4. Playing(p) => p.next \in Heard(q)'
        BY <2>4, <2>5, <4>2 DEF Playing
      <4>5. (p.playing => p.audio # None) /\ \A e \in p.aborted : e.then # "next"
        BY <2>4, <4>1 DEF KeptInv
      <4> QED BY <2>1, <2>2, <2>4, <3>2, <3>3, <3>4, <3>5, <4>3, <4>4, <4>5, VoiceTries
    <3> QED BY <3>6, <3>7
  <2> QED BY <1>0, <2>6 DEF VoiceStep
<1> QED BY <1>2, <1>3

(* The player without errors has no sound but that of its element.          *)
LEMMA VoiceElement ==
  ASSUME TypeInv, VoiceInv, NEW e \in Elements
  PROVE  /\ player.orphans = {} /\ e = player.audio /\ e # None /\ player.aborted = {}
         /\ e.then = "next" /\ e.chunk \in Arrived /\ e.chunk \in Chunks
         /\ e.chunk.of \in Voiced /\ e.chunk.idx \in got[e.chunk.of]
         /\ e \in ElementsOf(Phases)
         /\ player.playing = (e.phase # "over")
         /\ player.playing => e.chunk.idx = player.next
<1>1. Steady(player, Arrived, silenced) /\ player \in Players
  BY Sets DEF VoiceInv
<1>2. player.orphans = {} /\ e = player.audio /\ e # None
  BY <1>1 DEF Steady, Elements
<1>3. player.aborted = {}
  BY <1>1, <1>2 DEF Steady
<1>4. e \in ElementsOf(Phases)
  BY <1>1, <1>2 DEF Players
<1>5. /\ e.then = "next" /\ e.chunk \in Arrived /\ player.playing = (e.phase # "over")
      /\ player.playing => e.chunk.idx = player.next
  BY <1>1, <1>2 DEF Steady
<1>6. e.chunk \in Chunks /\ e.chunk.of \in Voiced /\ e.chunk.idx \in got[e.chunk.of]
  BY <1>5 DEF Arrived
<1> QED BY <1>2, <1>3, <1>4, <1>5, <1>6

(* The play event.                                                          *)
LEMMA VoiceBegins ==
  ASSUME TypeInv, TurnInv, VoiceStep, NEW e \in Elements, Begins(e)
  PROVE  VoiceStep'
<1> DEFINE f == [e EXCEPT !.phase = "loading"]
           r == Replace(player, e, f)
<1>0. /\ e.phase = "called" /\ player' = [r EXCEPT !.speaking = TRUE]
      /\ UNCHANGED <<conn, stream, got, heard, silenced, stopped, upset>>
  BY DEF Begins, PlayerStep, connection, server, history
<1>1. Sent' = Sent /\ Voiced \subseteq Requests /\ Proper(player)
  BY <1>0, Sets DEF Sent
<1>2. ASSUME ~upset PROVE VoiceInv' /\ (~stopped => KeptInv')
  <2>0. VoiceInv
    BY <1>2 DEF VoiceStep
  <2>1. /\ player.orphans = {} /\ e = player.audio /\ e # None /\ player.aborted = {}
        /\ e.then = "next" /\ e.chunk \in Arrived /\ e \in ElementsOf(Phases)
        /\ player.playing /\ e.chunk.idx = player.next
        /\ player.playing = (e.phase # "over")
    BY <1>0, <2>0, VoiceElement
  <2>2. /\ f \in ElementsOf(Phases) /\ f \in ElementsOf(Sounding) /\ f # None
        /\ f.phase = "loading" /\ f.chunk = e.chunk /\ f.then = e.then
    BY <2>1, ElementKinds DEF ElementsOf, Phases, Sounding, Starting
  <2>3. e \in ElementsIn(player)
    BY <2>1 DEF ElementsIn
  <2> HIDE DEF f, r
  <2>4. /\ Proper(r) /\ r.audio = f /\ r.orphans = {}
        /\ r.queue = player.queue /\ r.next = player.next /\ r.total = player.total
        /\ r.playing = player.playing /\ r.aborted = player.aborted
        /\ r.pending = player.pending
    <3>1. /\ e.phase # "blocked" /\ f \in ElementsOf(Phases) \cup {None}
          /\ (f # None => f.phase # "blocked")
          /\ (f # None /\ player.audio # e => f \in ElementsOf(Sounding))
      BY <1>0, <2>2
    <3>2. Proper(player) /\ player.orphans = {} /\ player.audio = e
      BY <1>1, <2>1
    <3> QED BY <2>3, <3>1, <3>2, ReplaceFacts DEF r
  <2>5. Same(r, player')
    BY <1>0, <2>4, SpeakingOff
  <2>6. r.pending = None
    BY <1>0, <1>1, <2>1, <2>4 DEF Proper, Blocked
  <2>7. Steady(r, Arrived, silenced)
    <3>1. player.queue \subseteq Arrived
      BY <2>0 DEF VoiceInv, Steady
    <3> QED BY <1>0, <2>1, <2>2, <2>4, <2>6, <3>1 DEF Steady
  <2>8. ASSUME NEW q \in Voiced
        PROVE  HeardOk(r, Heard(q)) /\ TotalOk(r, got[q]) /\ (r.total # None => stream[q] # "open")
    <3>1. HeardOk(player, Heard(q)) /\ TotalOk(player, got[q])
          /\ (player.total # None => stream[q] # "open")
      BY <2>0 DEF VoiceInv
    <3>2. HeardOk(r, Heard(q))
      BY <1>0, <2>1, <2>4, <3>1 DEF HeardOk
    <3> QED BY <2>4, <3>1, <3>2 DEF TotalOk
  <2>9. /\ Steady(player', Arrived, silenced)
        /\ \A q \in Voiced : /\ HeardOk(player', Heard(q)) /\ TotalOk(player', got[q])
                              /\ (player'.total # None => stream[q] # "open")
    <3>1. Steady(player', Arrived, silenced)
      BY <2>4, <2>5, <2>7, SameFacts
    <3>2. /\ \A H : HeardOk(r, H) => HeardOk(player', H)
          /\ \A G : TotalOk(r, G) => TotalOk(player', G)
      BY <2>4, <2>5, SameFacts
    <3>3. player'.total = r.total
      BY <2>5 DEF Same
    <3> QED BY <2>8, <3>1, <3>2, <3>3
  <2>10. conn' # "off" \/ stopped'
    BY <1>0, <2>0, <2>1 DEF VoiceInv
  <2>11. VoiceInv'
    BY <1>0, <1>1, <2>0, <2>9, <2>10, VoiceMoves
  <2>12. ASSUME ~stopped PROVE KeptInv'
    <3>1. KeptInv
      BY <1>2, <2>12 DEF VoiceStep
    <3>2. \A q \in Voiced : Skipless(r, q, got[q], Heard(q))
      BY <2>4, <3>1 DEF KeptInv, Skipless
    <3>3. \A q \in Voiced : Skipless(player', q, got[q], Heard(q))
      BY <2>4, <2>5, <3>2, SameFacts
    <3>4. player'.audio = f /\ player'.aborted = {}
      BY <2>1, <2>4, <2>5 DEF Same
    <3> QED BY <1>0, <1>1, <2>2, <3>3, <3>4, KeptMoves DEF Playing
  <2> QED BY <2>11, <2>12
<1> QED BY <1>0, <1>2 DEF VoiceStep

(* play() resolves: the sentence is heard.                                  *)
LEMMA VoiceSounds ==
  ASSUME TypeInv, TurnInv, VoiceStep, NEW e \in Elements, Sounds(e)
  PROVE  VoiceStep'
<1> DEFINE f == [e EXCEPT !.phase = "playing"]
           r == Replace(player, e, f)
<1>v. PICK v \in Requests : v = e.chunk.of
  BY Sets, ElementKinds, ChunkFields DEF Elements, Players
<1>0. /\ e.phase = "loading" /\ player' = [r EXCEPT !.pending = None]
      /\ heard' = [heard EXCEPT ![v] = Append(@, e.chunk.idx)]
      /\ UNCHANGED <<conn, stream, got, silenced, stopped, upset>>
  BY <1>v DEF Sounds, PlayerStep, connection, server, history
<1>1. /\ Sent' = Sent /\ Voiced \subseteq Requests /\ Proper(player) /\ Voiced' = Voiced
      /\ Arrived' = Arrived
  BY <1>0, Sets DEF Sent, Voiced, Arrived
<1>2. ASSUME ~upset PROVE VoiceInv' /\ (~stopped => KeptInv')
  <2>0. VoiceInv
    BY <1>2 DEF VoiceStep
  <2>1. /\ player.orphans = {} /\ e = player.audio /\ e # None /\ player.aborted = {}
        /\ e.then = "next" /\ e.chunk \in Arrived /\ e \in ElementsOf(Phases)
        /\ player.playing /\ e.chunk.idx = player.next
        /\ player.playing = (e.phase # "over") /\ e.chunk \in Chunks /\ v \in Voiced
    BY <1>v, <1>0, <2>0, VoiceElement
  <2>2. /\ f \in ElementsOf(Phases) /\ f \in ElementsOf(Sounding) /\ f # None
        /\ f.phase = "playing" /\ f.chunk = e.chunk /\ f.then = e.then
    BY <2>1, ElementKinds DEF ElementsOf, Phases, Sounding, Starting
  <2>3. e \in ElementsIn(player)
    BY <2>1 DEF ElementsIn
  <2>v. v \in Requests /\ Voiced = {v} /\ player.next \in Nat /\ heard[v] \in Seq(Nat)
    BY <1>1, <2>1, Sets DEF TurnInv, TypeInv
  <2> HIDE DEF f, r
  <2>4. /\ Proper(r) /\ r.allowed /\ r.audio = f /\ r.orphans = {}
        /\ r.queue = player.queue /\ r.next = player.next /\ r.total = player.total
        /\ r.playing = player.playing /\ r.aborted = player.aborted
        /\ r.pending = player.pending
    <3>1. /\ e.phase # "blocked" /\ f \in ElementsOf(Phases) \cup {None}
          /\ (f # None => f.phase # "blocked")
          /\ (f # None /\ player.audio # e => f \in ElementsOf(Sounding))
      BY <1>0, <2>2
    <3>2. Proper(player) /\ player.orphans = {} /\ player.audio = e
      BY <1>1, <2>1
    <3> QED BY <2>3, <3>1, <3>2, ReplaceFacts DEF r
  <2>5. Same(r, player')
    BY <1>0, <2>4, PendingOff
  <2>6. /\ player'.audio = f /\ player'.orphans = {} /\ player'.queue = player.queue
        /\ player'.next = player.next /\ player'.total = player.total /\ player'.playing
        /\ player'.playing = player.playing /\ player'.aborted = {} /\ player'.pending = None
    <3>1. r.pending = None
      BY <2>4 DEF Proper, Blocked
    <3> QED BY <2>1, <2>4, <2>5, <3>1 DEF Same
  <2>7. Steady(player', Arrived, silenced)
    <3>1. player.queue \subseteq Arrived
      BY <2>0 DEF VoiceInv, Steady
    <3> QED BY <1>0, <2>1, <2>2, <2>6, <3>1 DEF Steady
  <2>8. /\ heard'[v] = Append(heard[v], player.next)
        /\ \A q \in Requests : q # v => heard'[q] = heard[q]
    BY <1>0, <2>1, <2>v DEF TypeInv
  <2>9. Heard(v)' = Heard(v) \cup {player.next}
    <3>1. {Append(heard[v], player.next)[j] : j \in 1..Len(Append(heard[v], player.next))}
            = {heard[v][j] : j \in 1..Len(heard[v])} \cup {player.next}
      BY <2>v, AppendHeard
    <3> QED BY <2>8, <3>1 DEF Heard
  <2>10. HeardOk(player, Heard(v)) /\ TotalOk(player, got[v])
         /\ (player.total # None => stream[v] # "open")
    BY <2>1, <2>0 DEF VoiceInv
  <2>11. \A i \in Heard(v) : i < player.next
    <3>1. Heard(v) \subseteq Nat
      BY <2>v, Sets
    <3> QED BY <1>0, <2>v, <2>1, <2>10, <3>1 DEF HeardOk
  <2>12. HeardOk(player', Heard(v) \cup {player.next})
    <3>1. \A i \in Heard(v) : i <= player.next /\ i # player.next
      <4>1. Heard(v) \subseteq Nat
        BY <2>v, Sets
      <4> QED BY <2>v, <2>11, <4>1
    <3>2. player.next <= player.next
      BY <2>v
    <3> QED BY <2>2, <2>6, <3>1, <3>2 DEF HeardOk
  <2>13. TotalOk(player', got[v]) /\ (player'.total # None => stream[v] # "open")
    BY <2>6, <2>10 DEF TotalOk
  <2>14. \A q \in Requests : \A j \in 1..(Len(heard'[q]) - 1) : heard'[q][j] < heard'[q][j + 1]
    <3>1. \A q \in Requests : \A j \in 1..(Len(heard[q]) - 1) : heard[q][j] < heard[q][j + 1]
      BY <2>0 DEF VoiceInv
    <3>2. \A j \in 1..Len(heard[v]) : heard[v][j] < player.next
      BY <2>11 DEF Heard
    <3>3. \A j \in 1..(Len(Append(heard[v], player.next)) - 1) :
            Append(heard[v], player.next)[j] < Append(heard[v], player.next)[j + 1]
      BY <2>v, <3>1, <3>2, AppendHeard
    <3> QED BY <2>8, <3>1, <3>3
  <2>15. \A q \in Requests \ Sent : heard'[q] = <<>>
    <3>1. v \in Sent
      BY <2>1 DEF Voiced
    <3> QED BY <2>0, <2>8, <3>1 DEF VoiceInv
  <2>16. conn' # "off" \/ stopped'
    BY <1>0, <2>0, <2>1 DEF VoiceInv
  <2>17. \A q \in Voiced' : /\ HeardOk(player', Heard(q)') /\ TotalOk(player', got'[q])
                           /\ (player'.total # None => stream'[q] # "open")
    <3> SUFFICES ASSUME NEW q \in Voiced'
                 PROVE  /\ HeardOk(player', Heard(q)') /\ TotalOk(player', got'[q])
                        /\ (player'.total # None => stream'[q] # "open")
      OBVIOUS
    <3>1. q = v
      BY <1>1, <2>v
    <3>2. Heard(q)' = Heard(v) \cup {player.next}
      BY <2>9, <3>1
    <3> QED BY <1>0, <2>12, <2>13, <3>1, <3>2
  <2>18. VoiceInv'
    BY <1>0, <1>1, <2>7, <2>14, <2>15, <2>16, <2>17 DEF VoiceInv
  <2>19. ASSUME ~stopped PROVE KeptInv'
    <3>1. KeptInv
      BY <1>2, <2>19 DEF VoiceStep
    <3>2. Skipless(player', v, got[v], Heard(v) \cup {player.next})
      <4>1. Skipless(player, v, got[v], Heard(v))
        BY <2>1, <3>1 DEF KeptInv
      <4> QED BY <2>6, <4>1 DEF Skipless
    <3>3. ASSUME NEW q \in Voiced'
          PROVE  Skipless(player', q, got'[q], Heard(q)') /\ player'.next \in Heard(q)'
      <4>1. q = v
        BY <1>1, <2>v
      <4>2. Heard(q)' = Heard(v) \cup {player.next}
        BY <2>9, <4>1
      <4> QED BY <1>0, <2>6, <3>2, <4>1, <4>2
    <3>4. player'.audio # None
      BY <2>2, <2>6
    <3> QED BY <2>6, <3>3, <3>4 DEF KeptInv
  <2> QED BY <2>18, <2>19
<1> QED BY <1>0, <1>2 DEF VoiceStep

(* The sentence is over: the next is looked for.                            *)
LEMMA VoiceEnds ==
  ASSUME TypeInv, TypeInv', TurnInv, VoiceStep, NEW e \in Elements, Ends(e)
  PROVE  VoiceStep'
<1> DEFINE f == [e EXCEPT !.phase = "over"]
           r == Replace(player, e, f)
           p == Advance(r)
<1>0. /\ e.phase = "playing"
      /\ UNCHANGED <<conn, stream, got, heard, silenced, stopped, upset>>
  BY DEF Ends, PlayerStep, connection, server, history
<1>1. /\ Sent' = Sent /\ Voiced \subseteq Requests /\ Proper(player) /\ Voiced' = Voiced
      /\ Arrived' = Arrived
  BY <1>0, Sets DEF Sent, Voiced, Arrived
<1>2. ASSUME ~upset PROVE VoiceInv' /\ (~stopped => KeptInv')
  <2>0. VoiceInv
    BY <1>2 DEF VoiceStep
  <2>1. /\ player.orphans = {} /\ e = player.audio /\ e # None /\ player.aborted = {}
        /\ e.then = "next" /\ e.chunk \in Arrived /\ e \in ElementsOf(Phases)
        /\ player.playing /\ e.chunk.idx = player.next
        /\ e.chunk.of \in Voiced /\ e.chunk.idx \in got[e.chunk.of]
    BY <1>0, <2>0, VoiceElement
  <2>v. Voiced = {e.chunk.of} /\ player.next \in got[e.chunk.of]
    BY <2>1 DEF TurnInv
  <2>2. /\ f \in ElementsOf(Phases) /\ f # None
        /\ f.phase = "over" /\ f.chunk = e.chunk /\ f.then = e.then
    BY <2>1, ElementKinds DEF ElementsOf, Phases
  <2>3. e \in ElementsIn(player)
    BY <2>1 DEF ElementsIn
  <2>4. player' = OnEnded(r, "next")
    BY <2>1 DEF Ends, PlayerStep
  <2> HIDE DEF f, r, p
  <2>5. /\ Proper(r) /\ r.allowed /\ r.audio = f /\ r.orphans = {}
        /\ r.queue = player.queue /\ r.next = player.next /\ r.total = player.total
        /\ r.aborted = player.aborted
    <3>1. /\ e.phase # "blocked" /\ f \in ElementsOf(Phases) \cup {None}
          /\ (f # None => f.phase # "blocked")
          /\ (f # None /\ player.audio # e => f \in ElementsOf(Sounding))
      BY <1>0, <2>1, <2>2
    <3>2. Proper(player) /\ player.orphans = {} /\ player.audio = e
      BY <1>1, <2>1
    <3> QED BY <2>3, <3>1, <3>2, ReplaceFacts DEF r
  <2>6. r.pending = None
    BY <2>5 DEF Proper, Blocked
  <2>7. player' = TryPlayNext(p) /\ Proper(p)
        /\ p.next = r.next + 1 /\ ~p.playing /\ p.total = r.total /\ p.audio = r.audio
        /\ p.aborted = r.aborted
    BY <2>4, <2>5, OnEndedFacts, AdvanceFacts DEF p
  <2>8. Steady(p, Arrived, silenced)
    <3>1. player.queue \subseteq Arrived
      BY <2>0 DEF VoiceInv, Steady
    <3>2. f.chunk \in Arrived /\ f.then = "next"
      BY <2>1, <2>2
    <3>3. /\ r.queue \subseteq Arrived /\ r.aborted = {}
          /\ (r.audio # None => /\ r.audio.chunk \in Arrived /\ r.audio.then = "next"
                                /\ r.audio.phase = "over")
      BY <2>1, <2>2, <2>5, <3>1, <3>2
    <3> HIDE DEF Arrived
    <3> QED BY <2>5, <2>6, <3>3, AdvanceSteady DEF p
  <2>9. ASSUME NEW q \in Voiced
        PROVE  HeardOk(p, Heard(q)) /\ TotalOk(p, got[q]) /\ (p.total # None => stream[q] # "open")
    <3>1. HeardOk(player, Heard(q)) /\ TotalOk(player, got[q])
          /\ (player.total # None => stream[q] # "open")
      BY <2>0 DEF VoiceInv
    <3>2. q \in Requests /\ got[q] \in SUBSET Nat /\ Heard(q) \in SUBSET Nat
      BY <1>1, Sets
    <3>3. \A i \in Heard(q) : i <= r.next
      BY <2>5, <3>1 DEF HeardOk
    <3>4. TotalOk(r, got[q]) /\ r.next \in got[q]
      <4>1. q = e.chunk.of
        BY <2>v
      <4> QED BY <2>v, <2>5, <3>1, <4>1 DEF TotalOk
    <3>5. HeardOk(p, Heard(q)) /\ TotalOk(p, got[q])
      BY <2>5, <3>2, <3>3, <3>4, AdvanceOrder DEF p
    <3> QED BY <2>5, <2>7, <3>1, <3>5
  <2>10. conn' # "off" \/ stopped'
    BY <1>0, <2>0, <2>1 DEF VoiceInv
  <2>11. /\ \A q \in Requests \ Sent' : heard'[q] = <<>>
         /\ \A q \in Requests : \A j \in 1..(Len(heard'[q]) - 1) : heard'[q][j] < heard'[q][j + 1]
    BY <1>0, <1>1, <2>0 DEF VoiceInv
  <2>12. \A q : Heard(q)' = Heard(q)
    BY <1>0 DEF Heard
  <2>13. \A q \in Voiced' : /\ HeardOk(p, Heard(q)') /\ TotalOk(p, got'[q])
                           /\ (p.total # None => stream'[q] # "open")
    BY <1>0, <1>1, <2>9, <2>12
  <2>14. Steady(p, Arrived', silenced')
    BY <1>0, <1>1, <2>8
  <2>15. VoiceInv'
    BY <2>7, <2>10, <2>11, <2>13, <2>14, VoiceTries
  <2>16. ASSUME ~stopped PROVE KeptInv'
    <3>1. KeptInv
      BY <1>2, <2>16 DEF VoiceStep
    <3>2. ASSUME NEW q \in Voiced PROVE Skipless(p, q, got[q], Heard(q))
      <4>1. Skipless(player, q, got[q], Heard(q)) /\ player.next \in Heard(q)
        BY <1>0, <2>1, <3>1 DEF KeptInv, Playing
      <4>2. Skipless(r, q, got[q], Heard(q)) /\ r.next \in Heard(q)
        BY <2>5, <4>1 DEF Skipless
      <4>3. got[q] \subseteq Nat
        BY <1>1, Sets
      <4> QED BY <2>5, <4>2, <4>3, AdvanceOrder DEF p
    <3>3. /\ ~p.playing /\ ~Playing(p) /\ p.aborted = {}
      BY <2>1, <2>2, <2>5, <2>7 DEF Playing
    <3>4. \A q \in Voiced' : Skipless(p, q, got'[q], Heard(q)')
      BY <1>0, <1>1, <2>12, <3>2
    <3> QED BY <2>7, <2>10, <2>11, <2>13, <2>14, <3>3, <3>4, VoiceTries
  <2> QED BY <2>15, <2>16
<1> QED BY <1>0, <1>2 DEF VoiceStep

(* play() of a stopped element is rejected: of a silenced turn nothing is    *)
(* left to play; of a paused one the next sentence is looked for.           *)
LEMMA VoiceRejected ==
  ASSUME TypeInv, TypeInv', TurnInv, VoiceStep, NEW e \in player.aborted, Rejected(e)
  PROVE  VoiceStep'
<1> DEFINE r == [player EXCEPT !.aborted = @ \ {e}, !.speaking = FALSE]
           p == Advance(r)
<1>0. /\ player' = OnEnded(r, e.then)
      /\ UNCHANGED <<conn, stream, got, heard, silenced, stopped, upset>>
  BY DEF Rejected, PlayerStep, connection, server, history
<1>1. /\ Sent' = Sent /\ Voiced \subseteq Requests /\ Proper(player) /\ Voiced' = Voiced
      /\ Arrived' = Arrived
  BY <1>0, Sets DEF Sent, Voiced, Arrived
<1>2. /\ Proper(r) /\ r.allowed /\ r.aborted = player.aborted \ {e}
      /\ r.queue = player.queue /\ r.next = player.next /\ r.total = player.total
      /\ r.playing = player.playing /\ r.audio = player.audio /\ r.orphans = player.orphans
      /\ r.pending = player.pending
  BY <1>1, SettledFacts
<1> HIDE DEF r, p
<1>3. ASSUME ~upset PROVE VoiceInv' /\ (~stopped => KeptInv')
  <2>0. VoiceInv
    BY <1>3 DEF VoiceStep
  <2>1. /\ Steady(player, Arrived, silenced) /\ player.orphans = {} /\ player.audio = None
        /\ player.queue \subseteq Arrived
        /\ \/ /\ e.then = "next" /\ e.chunk \in Arrived /\ e.chunk.idx = player.next
              /\ player.aborted = {e}
           \/ e.then = "stale" /\ player.queue = {} /\ ~player.playing
    BY <2>0 DEF VoiceInv, Steady
  <2>2. player.pending = None
    BY <1>1, <2>1 DEF Proper, Blocked
  <2>3. \A q : Heard(q)' = Heard(q)
    BY <1>0 DEF Heard
  <2>4. CASE e.then = "stale"
    <3>1. player' = [r EXCEPT !.playing = FALSE, !.url = None, !.speaking = FALSE]
      BY <1>0, <2>4 DEF OnEnded
    <3>2. player.playing = FALSE
      BY <1>1, <2>1, <2>4 DEF Proper, Players
    <3>3. Same(r, player')
      BY <1>2, <3>1, <3>2 DEF Proper, Players, Same
    <3>4. Steady(r, Arrived, silenced)
      BY <1>2, <2>1 DEF Steady
    <3>5. ASSUME NEW q \in Voiced
          PROVE  /\ HeardOk(player', Heard(q)) /\ TotalOk(player', got[q])
                 /\ (player'.total # None => stream[q] # "open")
      <4>1. /\ HeardOk(player, Heard(q)) /\ TotalOk(player, got[q])
            /\ (player.total # None => stream[q] # "open")
        BY <2>0 DEF VoiceInv
      <4>2. HeardOk(r, Heard(q)) /\ TotalOk(r, got[q])
        BY <1>2, <4>1 DEF HeardOk, TotalOk
      <4> QED BY <1>2, <3>3, <4>1, <4>2, SameFacts DEF Same
    <3>6. player'.queue = {} /\ player'.audio = None
      BY <1>2, <2>1, <2>4, <3>3 DEF Same
    <3>7. Steady(player', Arrived, silenced)
      BY <1>2, <3>3, <3>4, SameFacts
    <3>8. VoiceInv'
      BY <1>0, <1>1, <2>0, <3>5, <3>6, <3>7, VoiceMoves
    <3>9. ASSUME ~stopped PROVE KeptInv'
      <4>1. KeptInv
        BY <1>3, <3>9 DEF VoiceStep
      <4>2. \A q \in Voiced : Skipless(r, q, got[q], Heard(q))
        BY <1>2, <4>1 DEF KeptInv, Skipless
      <4>3. \A q \in Voiced : Skipless(player', q, got[q], Heard(q))
        BY <1>2, <3>3, <4>2, SameFacts
      <4>4. ~player'.playing /\ \A g \in player'.aborted : g.then # "next"
        BY <1>2, <3>2, <3>3, <4>1 DEF KeptInv, Same
      <4> QED BY <1>0, <1>1, <3>6, <4>3, <4>4, KeptMoves DEF Playing
    <3> QED BY <3>8, <3>9
  <2>5. CASE e.then = "next"
    <3>1. stopped /\ stopped'
      BY <1>0, <1>3, <2>5 DEF VoiceStep, KeptInv
    <3>2. player' = TryPlayNext(p) /\ Proper(p) /\ p.total = r.total
      BY <1>0, <1>2, <2>5, OnEndedFacts, AdvanceFacts DEF p
    <3>3. Steady(p, Arrived, silenced)
      <4>1. r.aborted = {} /\ r.audio = None /\ r.orphans = {} /\ r.pending = None
            /\ r.queue \subseteq Arrived
        BY <1>2, <2>1, <2>2, <2>5
      <4> HIDE DEF Arrived
      <4> QED BY <1>2, <4>1, AdvanceSteady DEF p
    <3>4. /\ e.chunk.of \in Voiced /\ player.next \in got[e.chunk.of]
      BY <2>1, <2>5 DEF Arrived
    <3>5. ASSUME NEW q \in Voiced
          PROVE  HeardOk(p, Heard(q)) /\ TotalOk(p, got[q]) /\ (p.total # None => stream[q] # "open")
      <4>1. HeardOk(player, Heard(q)) /\ TotalOk(player, got[q])
            /\ (player.total # None => stream[q] # "open")
        BY <2>0 DEF VoiceInv
      <4>2. q \in Requests /\ got[q] \in SUBSET Nat /\ Heard(q) \in SUBSET Nat
        BY <1>1, Sets
      <4>3. \A i \in Heard(q) : i <= r.next
        BY <1>2, <4>1 DEF HeardOk
      <4>4. TotalOk(r, got[q]) /\ r.next \in got[q]
        <5>1. q = e.chunk.of
          BY <3>4 DEF TurnInv
        <5> QED BY <1>2, <3>4, <4>1, <5>1 DEF TotalOk
      <4>5. HeardOk(p, Heard(q)) /\ TotalOk(p, got[q])
        BY <1>2, <4>2, <4>3, <4>4, AdvanceOrder DEF p
      <4> QED BY <1>2, <3>2, <4>1, <4>5
    <3>6. /\ \A q \in Requests \ Sent' : heard'[q] = <<>>
          /\ \A q \in Requests : \A j \in 1..(Len(heard'[q]) - 1) : heard'[q][j] < heard'[q][j + 1]
      BY <1>0, <1>1, <2>0 DEF VoiceInv
    <3>7. \A q \in Voiced' : /\ HeardOk(p, Heard(q)') /\ TotalOk(p, got'[q])
                            /\ (p.total # None => stream'[q] # "open")
      BY <1>0, <1>1, <2>3, <3>5
    <3>8. Steady(p, Arrived', silenced')
      BY <1>0, <1>1, <3>3
    <3>9. VoiceInv'
      BY <3>1, <3>2, <3>6, <3>7, <3>8, VoiceTries
    <3> QED BY <3>1, <3>9
  <2> QED BY <2>1, <2>4, <2>5
<1> QED BY <1>0, <1>3 DEF VoiceStep

(* The first click or key: the sentence held back is played again.          *)
LEMMA VoiceGesture ==
  ASSUME TypeInv, TurnInv, VoiceStep, Gesture
  PROVE  VoiceStep'
<1> DEFINE g == [player EXCEPT !.allowed = TRUE, !.pending = None]
           r == IF player.pending = None THEN g ELSE PlayAudio(g, player.pending, "next")
<1>0. /\ ~player.allowed /\ player' = r
      /\ UNCHANGED <<conn, stream, got, heard, silenced, stopped, upset>>
  BY DEF Gesture, PlayerStep, connection, server, history
<1>1. /\ Sent' = Sent /\ Voiced \subseteq Requests /\ Proper(player)
  BY <1>0, Sets DEF Sent
<1>2. /\ Proper(r)
      /\ r.queue = player.queue /\ r.next = player.next /\ r.total = player.total
      /\ r.playing = player.playing /\ r.orphans = {} /\ r.aborted = {} /\ r.pending = None
      /\ IF player.pending = None THEN player.audio = None /\ r.audio = None
         ELSE Blocked(player) /\ r.audio = Element(player.pending, "called", "next")
  BY <1>0, <1>1, GestureFacts
<1> HIDE DEF r
<1>3. ASSUME ~upset PROVE VoiceInv' /\ (~stopped => KeptInv')
  <2>0. VoiceInv /\ Steady(player, Arrived, silenced)
    BY <1>3 DEF VoiceStep, VoiceInv
  <2>1. player.pending # None =>
          /\ player.audio # None /\ player.audio.phase = "blocked" /\ player.playing
          /\ player.pending \in Arrived /\ player.pending.idx = player.next
          /\ r.audio # None /\ r.audio.chunk = player.pending /\ r.audio.then = "next"
          /\ r.audio.phase = "called" /\ player.playing = TRUE
    <3>1. CASE player.pending # None
      <4>1. /\ Blocked(player) /\ player.playing /\ player.playing \in BOOLEAN
            /\ player.pending \in Chunks
        BY <1>1, <1>2, <3>1 DEF Proper, Players
      <4>2. Element(player.pending, "called", "next") \in ElementsOf(Phases)
        BY <4>1 DEF Element, ElementsOf, Phases
      <4>3. r.audio # None /\ r.audio.chunk = player.pending /\ r.audio.then = "next"
            /\ r.audio.phase = "called"
        BY <1>2, <3>1, <4>2, ElementKinds DEF Element
      <4>4. player.pending \in Arrived /\ player.pending.idx = player.next
        BY <2>0, <3>1, <4>1 DEF Steady, Blocked
      <4> QED BY <4>1, <4>3, <4>4 DEF Blocked
    <3> QED BY <3>1
  <2>2. Steady(r, Arrived, silenced)
    <3>1. player.queue \subseteq Arrived
      BY <2>0 DEF Steady
    <3> HIDE DEF Arrived
    <3> QED BY <1>2, <2>1, <3>1 DEF Steady
  <2>3. ASSUME NEW q \in Voiced
        PROVE  HeardOk(r, Heard(q)) /\ TotalOk(r, got[q]) /\ (r.total # None => stream[q] # "open")
    <3>1. HeardOk(player, Heard(q)) /\ TotalOk(player, got[q])
          /\ (player.total # None => stream[q] # "open")
      BY <2>0 DEF VoiceInv
    <3>2. HeardOk(r, Heard(q))
      BY <1>2, <2>1, <3>1 DEF HeardOk
    <3> QED BY <1>2, <3>1, <3>2 DEF TotalOk
  <2>4. conn' # "off" \/ stopped' \/ (player'.queue = {} /\ player'.audio = None)
    BY <1>0, <1>2, <2>0, <2>1 DEF VoiceInv
  <2>5. VoiceInv'
    BY <1>0, <1>1, <2>0, <2>2, <2>3, <2>4, VoiceMoves
  <2>6. ASSUME ~stopped PROVE KeptInv'
    <3>1. KeptInv
      BY <1>3, <2>6 DEF VoiceStep
    <3>2. \A q \in Voiced : Skipless(r, q, got[q], Heard(q))
      BY <1>2, <3>1 DEF KeptInv, Skipless
    <3>3. ~Playing(r) /\ (r.playing => r.audio # None)
      BY <1>2, <2>1, <3>1 DEF KeptInv, Playing
    <3> QED BY <1>0, <1>1, <1>2, <3>2, <3>3, KeptMoves
  <2> QED BY <2>5, <2>6
<1> QED BY <1>0, <1>3 DEF VoiceStep

(* The voice: one step per kind of action.                                  *)
LEMMA NextVoice ==
  ASSUME TypeInv, TypeInv', TurnInv, VoiceStep, [Next]_vars
  PROVE  VoiceStep'
<1> USE DEF connection, server, history, bounds
<1>1. CASE TokenArrives \/ TokenFails \/ DialSucceeds \/ DialFails \/ RetryTimer \/ UNCHANGED vars
  <2>1. /\ UNCHANGED <<stream, got, heard, player, silenced, stopped, upset>>
        /\ conn' = "off" => conn = "off"
    BY <1>1 DEF TokenArrives, TokenFails, DialSucceeds, DialFails, RetryTimer, Retry, vars
  <2> QED BY <2>1, VoiceAlone DEF Sent
<1>2. CASE Drop
  <2>1. /\ UNCHANGED <<got, heard, player, silenced, stopped, upset>> /\ conn' # "off"
        /\ stream' = [q \in Requests |-> IF Live(q) THEN "closed" ELSE stream[q]]
    BY <1>2 DEF Drop, Retry, LoseSocket
  <2>2. Sent' = Sent /\ \A q \in Voiced : stream'[q] = "open" => stream[q] = "open"
    BY <2>1, Sets DEF Sent, Live
  <2> QED BY <2>1, <2>2, VoiceAlone
<1>3. CASE Interrupt \/ HangUp \/ StartOver
  <2>1. /\ UNCHANGED <<got, heard, upset>> /\ silenced' = silenced \cup Sent
        /\ player' = Silence(player)
        /\ \/ stream' = stream
           \/ stream' = [q \in Requests |-> IF Live(q) THEN "closed" ELSE stream[q]]
    BY <1>3 DEF Interrupt, HangUp, StartOver, InterruptNow, Disconnect, LoseSocket
  <2>2. Sent' = Sent
    BY <2>1 DEF Sent, Live
  <2>3. Sent \subseteq Requests
    BY DEF Sent
  <2> QED BY <2>1, <2>2, <2>3, VoiceSilenced
<1>4. CASE Connect
  <2>1. /\ UNCHANGED <<stream, got, heard, silenced, stopped, upset>> /\ conn = "off"
        /\ player' = [StopAudio(player) EXCEPT !.url = None, !.speaking = FALSE]
    BY <1>4 DEF Connect
  <2>2. Proper(StopAudio(player))
    BY Sets, StopAudioFacts
  <2>3. Same(StopAudio(player), player')
    BY <2>1, <2>2, SpeakingOff
  <2>4. Sent' = Sent
    BY <2>1 DEF Sent
  <2> QED BY <2>1, <2>3, <2>4, VoiceStopped
<1>5. CASE Leave \/ Pause
  <2>1. /\ UNCHANGED <<got, heard, silenced, upset>> /\ stopped'
        /\ player' = StopAudio(player)
        /\ \/ stream' = stream
           \/ stream' = [q \in Requests |-> IF Live(q) THEN "closed" ELSE stream[q]]
    BY <1>5 DEF Leave, Pause, PlayerStep, Disconnect, LoseSocket
  <2>2. Same(StopAudio(player), player')
    <3>1. Proper(StopAudio(player))
      BY Sets, StopAudioFacts
    <3> QED BY <2>1, <3>1 DEF Same, Proper
  <2>3. Sent' = Sent /\ \A q \in Voiced : stream'[q] = "open" => stream[q] = "open"
    BY <2>1, Sets DEF Sent, Live
  <2> QED BY <2>1, <2>2, <2>3, VoiceStopped
<1>6. CASE Gesture
  BY <1>6, VoiceGesture
<1>7. CASE Replay
  BY <1>7 DEF Replay, VoiceStep
<1>8. CASE Media
  <2>1. PICK e \in Elements : Begins(e) \/ Sounds(e) \/ Ends(e) \/ MediaFails(e)
    BY <1>8 DEF Media
  <2>2. CASE MediaFails(e)
    BY <2>2 DEF MediaFails, VoiceStep
  <2> QED BY <2>1, <2>2, VoiceBegins, VoiceSounds, VoiceEnds
<1>9. ASSUME NEW e \in player.aborted, Rejected(e) PROVE VoiceStep'
  BY <1>9, VoiceRejected
<1>10. ASSUME NEW q \in Requests, Send(q) \/ Resume(q) PROVE VoiceStep'
  <2>0. q \notin Sent /\ Sent \subseteq Requests
    BY <1>10 DEF Send, Resume, TurnInv, Sent
  <2>1. CASE /\ UNCHANGED <<got, heard, upset>> /\ silenced' = silenced \cup Sent
             /\ player' = Silence(player)
             /\ stream' = stream \/ stream' = [stream EXCEPT ![q] = "open"]
    <3>1. Sent \subseteq Sent' /\ Sent' \subseteq Requests
      BY <2>0, <2>1 DEF Sent, TypeInv
    <3> QED BY <2>1, <3>1, VoiceSilenced
  <2>2. CASE UNCHANGED <<conn, stream, got, heard, player, silenced, stopped, upset>>
    BY <2>2, VoiceAlone DEF Sent
  <2> QED BY <1>10, <2>1, <2>2 DEF Send, Resume, Deliver, InterruptNow
<1>11. ASSUME NEW q \in Requests, End(q) \/ ServerError(q) PROVE VoiceStep'
  <2>1. /\ UNCHANGED <<conn, got, heard, upset>> /\ stream' = [stream EXCEPT ![q] = "closed"]
        /\ Live(q)
        /\ \/ UNCHANGED <<player, silenced, stopped>>
           \/ player' = Silence(player) /\ silenced' = silenced \cup Sent
    BY <1>11 DEF End, ServerError, InterruptNow, Live
  <2>2. Sent' = Sent /\ Sent \subseteq Requests
        /\ \A r \in Voiced : stream'[r] = "open" => stream[r] = "open"
    BY <2>1, Sets DEF Sent, Live, TypeInv
  <2>3. CASE UNCHANGED <<player, silenced, stopped>>
    BY <2>1, <2>2, <2>3, VoiceAlone
  <2>4. CASE player' = Silence(player) /\ silenced' = silenced \cup Sent
    BY <2>1, <2>2, <2>4, VoiceSilenced
  <2> QED BY <2>1, <2>3, <2>4
<1>12. ASSUME NEW q \in Requests, NEW i \in Sentences(q), Chunk(q, i) PROVE VoiceStep'
  BY <1>12, VoiceChunk
<1>13. ASSUME NEW q \in Requests, NEW n \in 0..MaxSentences[q], Completed(q, n) PROVE VoiceStep'
  BY <1>13, VoiceCompleted
<1> QED
  BY <1>1, <1>2, <1>3, <1>4, <1>5, <1>6, <1>7, <1>8, <1>9, <1>10, <1>11, <1>12, <1>13 DEF Next

-----------------------------------------------------------------------------
(* The theorems *)

(* Nothing was sent, heard or queued at first.                               *)
LEMMA InitIInv ==
  ASSUME Init
  PROVE  IInv
<1>1. /\ Sent = {} /\ Voiced = {} /\ Arrived = {} /\ \A q \in Requests : ~Live(q)
  BY DEF Init, Sent, Voiced, Arrived, Live
<1>2. PICK a \in BOOLEAN : player = [Quiet EXCEPT !.allowed = a]
  BY DEF Init
<1>3. /\ player.queue = {} /\ player.next = 0 /\ player.total = None /\ player.playing = FALSE
      /\ player.audio = None /\ player.orphans = {} /\ player.aborted = {}
      /\ player.pending = None /\ player \in Players
  BY <1>2 DEF Quiet, Players
<1>4. Proper(player)
  BY <1>3 DEF Proper, Blocked
<1>5. TypeInv
  <2>1. \E w \in Workloads : call = [q \in Requests |-> IF q \in w THEN "idle" ELSE "off"]
    BY DEF Init
  <2>2. attempts \in 0..(MaxAttempts + 1)
    BY DEF Init
  <2>3. \A q \in Requests : heard[q] = <<>> /\ got[q] = {}
    BY DEF Init
  <2>4. heard \in [Requests -> Seq(Nat)] /\ got \in [Requests -> SUBSET Nat]
    BY DEF Init
  <2> QED BY <1>4, <2>1, <2>2, <2>3, <2>4 DEF Init, TypeInv
<1>6. TurnInv
  <2>1. \E w \in Workloads : call = [q \in Requests |-> IF q \in w THEN "idle" ELSE "off"]
    BY DEF Init
  <2> QED BY <1>1, <2>1 DEF Init, TurnInv
<1>7. VoiceInv
  <2>1. Steady(player, {}, silenced)
    BY <1>3 DEF Steady
  <2>2. heard = [q \in Requests |-> <<>>]
    BY DEF Init
  <2>3. \A q \in Requests : heard[q] = <<>> /\ Len(heard[q]) = 0
    BY <2>2
  <2> QED BY <1>1, <1>3, <2>1, <2>3 DEF VoiceInv
<1>8. KeptInv
  BY <1>1, <1>3 DEF KeptInv
<1> QED BY <1>5, <1>6, <1>7, <1>8 DEF IInv

(* Types, turns and voices are kept by every step, each with the help of     *)
(* those before it.                                                          *)
LEMMA NextIInv ==
  ASSUME IInv, [Next]_vars
  PROVE  IInv'
<1>1. TypeInv /\ TurnInv /\ VoiceStep
  BY DEF IInv, VoiceStep
<1>2. TypeInv'
  BY <1>1, NextTypes
<1>3. TurnInv'
  BY <1>1, NextTurns
<1>4. VoiceStep'
  BY <1>1, <1>2, NextVoice
<1> QED BY <1>2, <1>3, <1>4 DEF IInv, VoiceStep

(* The inductive invariant holds for any requests, sentences and bounds:     *)
(* whatever the server, the browser and the user do in which order.          *)
THEOREM Invariance == Spec => []IInv
BY InitIInv, NextIInv, PTL DEF Spec

(* Every variable stays in its type; in particular a sentence is held back   *)
(* exactly beside the element that the browser's autoplay policy blocked, so *)
(* that the first click always finds what it has to play (useAudioPlayback). *)
THEOREM Types == Spec => []TypeOK
<1>1. ASSUME IInv PROVE TypeOK
  BY <1>1 DEF IInv, TypeInv, Proper, Players, Blocked, TypeOK
<1> QED BY <1>1, Invariance, PTL

(* As long as no media error and no replay disturb the player, the sentences *)
(* of an answer are heard in their order and once each, in whichever order   *)
(* the speech of the sentences arrives, however often the user interrupts,   *)
(* pauses, starts over or hangs up and however often the connection is lost. *)
THEOREM InOrder == Spec => []PlaysInOrder
<1>1. ASSUME IInv PROVE PlaysInOrder
  BY <1>1 DEF IInv, VoiceInv, PlaysInOrder
<1> QED BY <1>1, Invariance, PTL

(* As long as no media error and no replay disturb the player, nothing of an *)
(* interrupted turn sounds, is about to, is queued or is held back, although *)
(* its sentences go on arriving and its aborted play() promises are rejected *)
(* at any later time.                                                       *)
THEOREM NoEarlierVoice == Spec => []NoOldVoice
<1>1. ASSUME IInv, ~upset
      PROVE  \A c \in {e.chunk : e \in {e \in Elements : e.phase \in Sounding}}
                      \cup player.queue \cup ({player.pending} \ {None}) : c.of \notin silenced
  <2>1. Steady(player, Arrived, silenced) /\ Proper(player)
    BY <1>1 DEF IInv, VoiceInv, TypeInv
  <2>2. \A c \in Arrived : c.of \notin silenced
    BY DEF Arrived, Voiced
  <2>3. \A e \in Elements : e.chunk \in Arrived
    BY <2>1 DEF Steady, Elements
  <2>4. player.pending # None => player.pending \in Arrived
    BY <2>1 DEF Steady, Proper, Blocked
  <2>5. player.queue \subseteq Arrived
    BY <2>1 DEF Steady
  <2> HIDE DEF Arrived
  <2> QED BY <2>2, <2>3, <2>4, <2>5
<1>2. ASSUME IInv PROVE NoOldVoice
  BY <1>1, <1>2 DEF NoOldVoice
<1> QED BY <1>2, Invariance, PTL

(* As long as the voice is neither paused nor disturbed, every sentence that *)
(* arrived of the turn at work and that the player has left behind was       *)
(* heard, although the player skips the sentences that never came.          *)
THEOREM NoneSkipped == Spec => []NothingSkipped
<1>1. ASSUME IInv, ~upset, ~stopped, NEW q \in Sent \ silenced, NEW i \in got[q], i < player.next
      PROVE  \E j \in 1..Len(heard[q]) : heard[q][j] = i
  <2>1. Skipless(player, q, got[q], Heard(q))
    BY <1>1 DEF IInv, KeptInv, Voiced
  <2>2. i \in Heard(q)
    BY <1>1, <2>1 DEF Skipless
  <2> QED BY <2>2 DEF Heard
<1>2. ASSUME IInv PROVE NothingSkipped
  BY <1>1, <1>2 DEF NothingSkipped
<1> QED BY <1>2, Invariance, PTL
=============================================================================
