------------------------ MODULE IdentityCorrelation ------------------------
(***************************************************************************)
(* How the voice of an utterance reaches the turn it belongs to.  A        *)
(* speaker sends every utterance twice: as a recording that Home           *)
(* Assistant correlates with a request id and the Router relays to         *)
(* Speaker-ID, and through the Assist pipeline, which posts the text as a  *)
(* turn.  The two meet in the Router's CorrelatedIdentityAudioSink, keyed  *)
(* by request id only: identify() of the turn awaits a future or pops a    *)
(* cached result, end() of the recording resolves the future or caches.    *)
(* Home Assistant's SessionManager gives both sides their request id; for  *)
(* a speaker a session holds one request id and goes with it.              *)
(***************************************************************************)
EXTENDS Naturals, Sequences, FiniteSets

CONSTANTS
  Speakers,        \* source ids of the speakers
  Utterances,      \* utterances, numbered in the order they are spoken
  SpeakerOf,       \* the speaker that hears an utterance
  ResultCapacity,  \* result_capacity of the sink
  None             \* Python's None

(* A new request id is a UUID.  It is named after the utterance it was     *)
(* made for and the side that made it, so an id never names two requests.  *)
RequestIds == Utterances \X {"heard", "posted"}

CorrelationAssumption ==
  /\ Utterances \subseteq Nat /\ IsFiniteSet(Utterances)
  /\ SpeakerOf \in [Utterances -> Speakers]
  /\ ResultCapacity \in Nat \ {0}
  /\ None \notin Utterances \cup RequestIds

VARIABLES
  active,    \* SessionManager: the request id a speaker's session holds
  pipeline,  \* the Assist pipeline of an utterance
  capture,   \* its recording
  turn,      \* its turn in the Router, and whose voice decided it
  task,      \* the future the identify() of a turn awaits
  waiting,   \* _waiting: the future registered for a request id
  resolved,  \* the recording whose result a future holds
  results    \* _results: unclaimed results, oldest first

vars == <<active, pipeline, capture, turn, task, waiting, resolved, results>>

-----------------------------------------------------------------------------
Earlier(u) == {v \in Utterances : v < u /\ SpeakerOf[v] = SpeakerOf[u]}

(* A future is named after the turn whose identify() made it.              *)
Futures == Utterances

Init ==
  /\ active = [s \in Speakers |-> None]
  /\ pipeline = [u \in Utterances |-> "hearing"]
  /\ capture = [u \in Utterances |-> [stage |-> "none", request |-> None]]
  /\ turn = [u \in Utterances |-> [stage |-> "none", request |-> None, by |-> None]]
  /\ task = [u \in Utterances |-> None]
  /\ waiting = [r \in RequestIds |-> None]
  /\ resolved = [u \in Futures |-> None]
  /\ results = <<>>

-----------------------------------------------------------------------------
(* speaker_conversation_key                                                *)
KeyOf_Shared(u) == CHOOSE s \in Speakers : TRUE
KeyOf(u) == SpeakerOf[u]

(* get_or_create_session and get_request_id: the id the session holds, or  *)
(* a new one.                                                              *)
RequestIdFor(u, side) == IF active[KeyOf(u)] # None THEN active[KeyOf(u)] ELSE <<u, side>>

Hold(u, side) == active' = [active EXCEPT ![KeyOf(u)] = RequestIdFor(u, side)]

(* complete_request and close_session: always both, for a speaker.         *)
Release(s) == active' = [active EXCEPT ![s] = None]

(* A speaker listens for its next utterance (a wake word, or the answer to *)
(* a clarification) when the pipeline of the last one has ended, or was    *)
(* stopped.                                                                *)
Spoken(u) == \A v \in Earlier(u) : pipeline[v] \in {"ended", "stopped"}

(* The pipeline understood no text, or was stopped before it had any, and  *)
(* never calls the conversation agent.                                     *)
Unheard(u) ==
  /\ Spoken(u)
  /\ pipeline[u] = "hearing"
  /\ pipeline' = [pipeline EXCEPT ![u] = "ended"]
  /\ UNCHANGED <<active, capture, turn, task, waiting, resolved, results>>

(* START of the recording reaches Home Assistant, at any time after the    *)
(* wake word: correlate_identification_start.  What follows until the      *)
(* result (END, the relay to the Router, Speaker-ID at work) keeps the ids *)
(* of the START; an earlier recording may still be on that way.            *)
StartCapture(u) ==
  /\ Spoken(u)
  /\ capture[u].stage = "none"
  /\ capture' = [capture EXCEPT ![u] = [stage |-> "recording",
                                        request |-> RequestIdFor(u, "heard")]]
  /\ Hold(u, "heard")
  /\ UNCHANGED <<pipeline, turn, task, waiting, resolved, results>>

(* A disconnect, a deadline, a full registry, a service that is down, an   *)
(* invalid result: the recording ends without a result.                    *)
Drop(u) ==
  /\ capture[u].stage = "recording"
  /\ capture' = [capture EXCEPT ![u].stage = "over"]
  /\ UNCHANGED <<active, pipeline, turn, task, waiting, resolved, results>>

-----------------------------------------------------------------------------
(* pop(key, None): the cache holds one result per request id.              *)
Cached(r) == {i \in 1 .. Len(results) : results[i].request = r}

Without(r) ==
  IF Cached(r) = {} THEN results
  ELSE LET i == CHOOSE i \in Cached(r) : TRUE
       IN SubSeq(results, 1, i - 1) \o SubSeq(results, i + 1, Len(results))

(* popitem(last=False) while the cache is over its capacity.               *)
Evicted(q) == IF Len(q) > ResultCapacity THEN Tail(q) ELSE q

(* _publish: resolve the registered future, or else cache the result.      *)
Publish(u) ==
  LET r == capture[u].request
  IN /\ capture[u].stage = "recording"
     /\ capture' = [capture EXCEPT ![u].stage = "over"]
     /\ \/ /\ waiting[r] # None
           /\ resolved' = [resolved EXCEPT ![waiting[r]] = u]
           /\ waiting' = [waiting EXCEPT ![r] = None]
           /\ UNCHANGED results
        \/ /\ waiting[r] = None
           /\ results' = Evicted(Append(Without(r), [request |-> r, by |-> u]))
           /\ UNCHANGED <<resolved, waiting>>
     /\ UNCHANGED <<active, pipeline, turn, task>>

-----------------------------------------------------------------------------
(* What is left of the cache when identify() takes the result of r.        *)
Claim_Kept(r) == results
Claim(r) == Without(r)

(* identify() of turn u: the cached result decides the turn, or else it    *)
(* waits for the registered future, which it makes if there is none.       *)
Ask(u, r) ==
  \/ \E i \in Cached(r) :
       /\ turn' = [turn EXCEPT ![u] = [stage |-> "resolved", request |-> r,
                                       by |-> results[i].by]]
       /\ results' = Claim(r)
       /\ UNCHANGED <<task, waiting>>
  \/ LET future == IF waiting[r] # None THEN waiting[r] ELSE u
     IN /\ Cached(r) = {}
        /\ turn' = [turn EXCEPT ![u] = [stage |-> "asking", request |-> r, by |-> None]]
        /\ task' = [task EXCEPT ![u] = future]
        /\ waiting' = [waiting EXCEPT ![r] = future]
        /\ UNCHANGED results

(* The pipeline posts the text; build_request and _execute up to the wait. *)
Post(u) ==
  /\ Spoken(u)
  /\ pipeline[u] = "hearing"
  /\ pipeline' = [pipeline EXCEPT ![u] = "posted"]
  /\ Hold(u, "posted")
  /\ Ask(u, RequestIdFor(u, "posted"))
  /\ UNCHANGED <<capture, resolved>>

(* ... but the request it goes on with has expired, or was settled by a    *)
(* turn whose pipeline was stopped and is refused: either way it is over.  *)
PostExpired(u) ==
  /\ Spoken(u)
  /\ pipeline[u] = "hearing"
  /\ \E v \in Earlier(u) : turn[v].stage = "resolved" /\ turn[v].request = active[KeyOf(u)]
  /\ pipeline' = [pipeline EXCEPT ![u] = "ended"]
  /\ Release(KeyOf(u))
  /\ UNCHANGED <<capture, turn, task, waiting, resolved, results>>

(* The turn goes on with what it knows of its voice; a turn that has       *)
(* resolved already only logs.                                             *)
Resolve(u, by) ==
  IF turn[u].stage = "asking"
  THEN turn' = [turn EXCEPT ![u].stage = "resolved", ![u].by = by]
  ELSE UNCHANGED turn

(* identify() wakes up with the result of its future.                      *)
Wake(u) ==
  /\ task[u] # None
  /\ resolved[task[u]] # None
  /\ task' = [task EXCEPT ![u] = None]
  /\ Resolve(u, resolved[task[u]])
  /\ UNCHANGED <<active, pipeline, capture, waiting, resolved, results>>

(* The finally of identify(): unregister the future, if it still is the    *)
(* registered one.                                                         *)
Unregister(u) ==
  [r \in RequestIds |-> IF r = turn[u].request /\ waiting[r] = task[u]
                      THEN None ELSE waiting[r]]

(* wait_timeout_seconds passed: identify() returns None.                   *)
SinkTimeout(u) ==
  /\ task[u] # None
  /\ task' = [task EXCEPT ![u] = None]
  /\ waiting' = Unregister(u)
  /\ Resolve(u, None)
  /\ UNCHANGED <<active, pipeline, capture, resolved, results>>

(* identification_timeout_seconds passed: the turn resolves without its    *)
(* voice, and identify() stays behind.                                     *)
IdentityTimeout(u) ==
  /\ turn[u].stage = "asking"
  /\ Resolve(u, None)
  /\ UNCHANGED <<active, pipeline, capture, task, waiting, resolved, results>>

-----------------------------------------------------------------------------
(* The turn is answered; process_adapter_input keeps the request id for a  *)
(* clarification and drops it otherwise.                                   *)
Answer(u, clarify) ==
  /\ turn[u].stage = "resolved"
  /\ pipeline[u] = "posted"
  /\ pipeline' = [pipeline EXCEPT ![u] = "ended"]
  /\ IF clarify THEN UNCHANGED active ELSE Release(KeyOf(u))
  /\ UNCHANGED <<capture, turn, task, waiting, resolved, results>>

(* The Router's client timed out: NyraRouterError.  The turn goes on in    *)
(* the Router, and its answer reaches nobody.                              *)
GiveUp(u) ==
  /\ pipeline[u] = "posted"
  /\ pipeline' = [pipeline EXCEPT ![u] = "ended"]
  /\ Release(KeyOf(u))
  /\ UNCHANGED <<capture, turn, task, waiting, resolved, results>>

(* A wake word at the speaker, or a disconnect, stops the pipeline.  Home  *)
(* Assistant cancels its task: that is no NyraRouterError, and the session *)
(* keeps its request id.  The turn goes on in the Router.                  *)
Stop(u) ==
  /\ pipeline[u] = "posted"
  /\ pipeline' = [pipeline EXCEPT ![u] = "stopped"]
  /\ UNCHANGED <<active, capture, turn, task, waiting, resolved, results>>

(* expire: nobody spoke to the speaker for ttl_seconds.                    *)
Expire(s) ==
  /\ active[s] # None
  /\ \A u \in Utterances : KeyOf(u) = s =>
       \/ pipeline[u] \in {"ended", "stopped"}
       \/ pipeline[u] = "hearing" /\ capture[u].stage = "none"
  /\ Release(s)
  /\ UNCHANGED <<pipeline, capture, turn, task, waiting, resolved, results>>

Next ==
  \/ \E u \in Utterances :
       \/ Unheard(u)
       \/ StartCapture(u) \/ Drop(u) \/ Publish(u)
       \/ Post(u) \/ PostExpired(u)
       \/ Wake(u) \/ SinkTimeout(u) \/ IdentityTimeout(u)
       \/ \E clarify \in BOOLEAN : Answer(u, clarify)
       \/ GiveUp(u) \/ Stop(u)
  \/ \E s \in Speakers : Expire(s)

Spec == Init /\ [][Next]_vars

-----------------------------------------------------------------------------
(* The shape of the state; the cache keeps within its capacity and holds   *)
(* one result per request id.                                              *)
TypeOK ==
  /\ active \in [Speakers -> RequestIds \cup {None}]
  /\ pipeline \in [Utterances -> {"hearing", "posted", "ended", "stopped"}]
  /\ capture \in [Utterances -> [stage: {"none", "recording", "over"},
                                 request: RequestIds \cup {None}]]
  /\ turn \in [Utterances -> [stage: {"none", "asking", "resolved"},
                              request: RequestIds \cup {None}, by: Utterances \cup {None}]]
  /\ task \in [Utterances -> Futures \cup {None}]
  /\ waiting \in [RequestIds -> Futures \cup {None}]
  /\ resolved \in [Futures -> Utterances \cup {None}]
  /\ Len(results) <= ResultCapacity
  /\ \A i \in 1 .. Len(results) :
       /\ results[i] \in [request: RequestIds, by: Utterances]
       /\ \A j \in 1 .. Len(results) : results[i].request = results[j].request => i = j

(* The voice that decides a turn was heard by the turn's own speaker, for  *)
(* the turn's request id, however the two ways of an utterance interleave. *)
VoicesOfTheirSpeakers ==
  \A u \in Utterances : turn[u].by # None =>
    /\ SpeakerOf[turn[u].by] = SpeakerOf[u]
    /\ capture[turn[u].by].request = turn[u].request

(* Of the turns one recording decides, only the last has a pipeline that   *)
(* waits for it: it decides an earlier one too only if that pipeline was   *)
(* stopped and its request id kept.  Clarifications share an id as well,   *)
(* and a cached result outlives the turn it was made for.                  *)
OneTurnPerVoice ==
  \A u, v \in Utterances :
    u < v /\ turn[u].by = turn[v].by => turn[u].by = None \/ pipeline[u] = "stopped"

=============================================================================
