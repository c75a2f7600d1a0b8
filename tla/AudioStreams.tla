---------------------------- MODULE AudioStreams ----------------------------
(***************************************************************************)
(* How a recording travels: Home Assistant sends it to the Router over a   *)
(* WebSocket, the Router relays it frame by frame to Speaker-ID over       *)
(* another one.  Both servers run the same two parts, serve_audio for the  *)
(* socket and an AudioStreamRegistry for the recordings; they differ in    *)
(* the sink the registry calls: SpeakerAudioRelay in the Router,           *)
(* SpeakerAudioSink, which buffers, computes in a thread and stores, in    *)
(* Speaker-ID.  Every frame is acknowledged before the next is sent.       *)
(*                                                                         *)
(* A recording is a number, in the order they are started; it names its    *)
(* socket, its stream object and its tasks on each hop.  The stream id is  *)
(* the sender's choice and two may choose one: an id is named after the    *)
(* first recording that has it.                                            *)
(***************************************************************************)
EXTENDS Naturals, Sequences, FiniteSets

CONSTANTS
  MaxStreams,      \* bound: recordings
  MaxActive,       \* max_active_streams of a registry
  ClosedCapacity,  \* closed_capacity of a registry
  MaxChunks,       \* max_stream_bytes of a registry, in chunks
  Slots,           \* BoundedSemaphore of the sink
  MaxRestarts,     \* bound: restarts of a server
  None             \* Python's None

ASSUME StreamsAssumption ==
  /\ {MaxStreams, MaxActive, ClosedCapacity, MaxChunks, Slots} \subseteq Nat \ {0}
  /\ MaxRestarts \in Nat
  /\ None \notin Nat \cup Seq(Nat)

Streams == 1 .. MaxStreams
Ids == Streams
Hops == {"router", "speaker"}

VARIABLES
  \* the sender in Home Assistant
  id,        \* the stream id it chose
  sender,    \* what its RouterAudioSession waits for
  sent,      \* chunks it has sent
  \* the socket of a recording on a hop
  wire,      \* the frame on its way, one way or the other
  hungup,    \* the client has closed its end
  \* the server of a hop
  loop,      \* where serve_audio is
  active,    \* _active: the recording that holds an id
  closed,    \* _closed, oldest first
  size,      \* byte_count of a recording
  due,       \* its deadline has passed
  \* the sinks
  linked,    \* _connections of the relay: the recording whose socket an id has
  buffer,    \* _streams of Speaker-ID: an id's owner, and whose chunks it holds
  permits,   \* _processing_capacity
  worker,    \* the thread of a recording's END, and the chunks it was given
  kept,      \* what a recording was finished with: the chunks, or None
  restarts   \* bound on restarts

clientVars == <<id, sender, sent, restarts>>
registryVars == <<active, closed, size, due>>
sinkVars == <<linked, buffer, permits, worker, kept>>
vars == <<id, sender, sent, wire, hungup, loop, active, closed, size, due,
          linked, buffer, permits, worker, kept, restarts>>

Requests == {"START", "CHUNK", "END"}
Replies == {"STARTED", "ACK", "RESULT", "ERROR"}
Calling == {"starting", "chunking", "ending"}

TypeOK ==
  /\ id \in [Streams -> Ids]
  /\ sender \in [Streams -> {"idle", "sending", "ending", "result", "failed"}]
  /\ sent \in [Streams -> 0 .. MaxChunks + 1]
  /\ wire \in [Hops -> [Streams -> Requests \cup Replies \cup {"none"}]]
  /\ hungup \in [Hops -> [Streams -> BOOLEAN]]
  /\ loop \in [Hops -> [Streams -> Calling \cup {"none", "receiving", "open", "returned",
                                                 "ended", "over"}]]
  /\ active \in [Hops -> [Ids -> Streams \cup {None}]]
  /\ \A h \in Hops : closed[h] \in Seq(Ids) /\ Len(closed[h]) <= ClosedCapacity
  /\ size \in [Hops -> [Streams -> 0 .. MaxChunks]]
  /\ due \in [Hops -> [Streams -> BOOLEAN]]
  /\ linked \in [Ids -> Streams \cup {None}]
  /\ \A i \in Ids : /\ buffer[i].of \in Streams \cup {None}
                    /\ buffer[i].chunks \in Seq(Streams)
  /\ permits \in 0 .. Slots
  /\ restarts \in 0 .. MaxRestarts
  /\ \A s \in Streams : /\ worker[s].stage \in {"none", "computing", "computed"}
                        /\ worker[s].chunks \in Seq(Streams)
                        /\ kept[s] \in {None} \cup Seq(Streams)

NoBuffer == [of |-> None, chunks |-> <<>>]
NoWorker == [stage |-> "none", chunks |-> <<>>]

Init ==
  /\ id \in {f \in [Streams -> Ids] : \A s \in Streams : f[s] <= s /\ f[f[s]] = f[s]}
  /\ sender = [s \in Streams |-> "idle"]
  /\ sent = [s \in Streams |-> 0]
  /\ wire = [h \in Hops |-> [s \in Streams |-> "none"]]
  /\ hungup = [h \in Hops |-> [s \in Streams |-> FALSE]]
  /\ loop = [h \in Hops |-> [s \in Streams |-> "none"]]
  /\ active = [h \in Hops |-> [i \in Ids |-> None]]
  /\ closed = [h \in Hops |-> <<>>]
  /\ size = [h \in Hops |-> [s \in Streams |-> 0]]
  /\ due = [h \in Hops |-> [s \in Streams |-> FALSE]]
  /\ linked = [i \in Ids |-> None]
  /\ buffer = [i \in Ids |-> NoBuffer]
  /\ permits = Slots
  /\ worker = [s \in Streams |-> NoWorker]
  /\ kept = [s \in Streams |-> None]
  /\ restarts = 0

-----------------------------------------------------------------------------
(* AudioStreamRegistry                                                     *)

(* self._active.get(stream_id) is active                                   *)
Holds(h, s) == active[h][id[s]] = s

InClosed(h, i) == \E k \in 1 .. Len(closed[h]) : closed[h][k] = i

(* The checks of start(), made before anything is reserved.                *)
Startable_Reopened(h, s) ==
  /\ active[h][id[s]] = None
  /\ Cardinality({i \in Ids : active[h][i] # None}) < MaxActive
Startable(h, s) ==
  /\ active[h][id[s]] = None
  /\ ~InClosed(h, id[s])
  /\ Cardinality({i \in Ids : active[h][i] # None}) < MaxActive

(* An id that is there already keeps its place, and the oldest is dropped  *)
(* when there are too many.                                                *)
Closed(h, i) ==
  LET added == IF InClosed(h, i) THEN closed[h] ELSE Append(closed[h], i)
  IN IF Len(added) > ClosedCapacity THEN Tail(added) ELSE added

(* _finish: the id goes from the active to the closed ones, and the expiry *)
(* task is cancelled.                                                      *)
Finish(h, s) ==
  /\ active' = [active EXCEPT ![h][id[s]] = None]
  /\ closed' = [closed EXCEPT ![h] = Closed(h, id[s])]
  /\ size' = [size EXCEPT ![h][s] = 0]

(* abort() of a sink: the relay closes the id's socket, Speaker-ID forgets *)
(* the id's buffer.  Both are by id, and may find nothing.                 *)
SinkAbort_Leaky(h, i) == UNCHANGED <<linked, buffer, hungup>>
SinkAbort(h, i) ==
  \/ /\ h = "router" /\ linked[i] # None
     /\ hungup' = [hungup EXCEPT !["speaker"][linked[i]] = TRUE]
     /\ linked' = [linked EXCEPT ![i] = None]
     /\ UNCHANGED buffer
  \/ /\ h = "speaker"
     /\ buffer' = [buffer EXCEPT ![i] = NoBuffer]
     /\ UNCHANGED <<linked, hungup>>
  \/ /\ h = "router" /\ linked[i] = None
     /\ UNCHANGED <<linked, buffer, hungup>>

(* _abort: nothing happens to a stream that is no longer the active one.   *)
Abort(h, s) ==
  \/ Holds(h, s) /\ Finish(h, s) /\ SinkAbort(h, id[s])
  \/ ~Holds(h, s) /\ UNCHANGED <<active, closed, size, linked, buffer, hungup>>

(* The deadline of a stream: the call in progress, if any, is cancelled,   *)
(* and _expire wakes.  Neither has run yet, and either may run first.      *)
Deadline(h, s) ==
  /\ Holds(h, s) /\ ~due[h][s]
  /\ due' = [due EXCEPT ![h][s] = TRUE]
  /\ UNCHANGED <<clientVars, sinkVars, wire, hungup, loop, active, closed, size>>

Expire(h, s) ==
  /\ due[h][s] /\ Holds(h, s)
  /\ Abort(h, s)
  /\ due' = [due EXCEPT ![h][s] = loop[h][s] \in Calling]
  /\ UNCHANGED <<clientVars, wire, loop, permits, worker, kept>>

-----------------------------------------------------------------------------
(* serve_audio                                                             *)

(* An exception leaves the loop: ERROR and close, or nothing, after the    *)
(* stream t was aborted: by the registry, because a call of it failed, or  *)
(* by registry.disconnect, because this socket still had it active.        *)
Leave(h, s, t, reply) ==
  /\ loop' = [loop EXCEPT ![h][s] = "over"]
  /\ wire' = [wire EXCEPT ![h][s] = reply]
  /\ due' = [due EXCEPT ![h][s] = FALSE]
  /\ Abort(h, t)

Fail(h, s) == Leave(h, s, s, "ERROR")

Reply(h, s, at, reply) ==
  /\ loop' = [loop EXCEPT ![h][s] = at]
  /\ wire' = [wire EXCEPT ![h][s] = reply]

(* The next frame of the client.  Home Assistant's is received as it is    *)
(* sent; it sends one when the last was acknowledged.                      *)
Offers(h, s, frame) ==
  \/ /\ h = "speaker" /\ loop[h][s] \in {"receiving", "open"}
     /\ wire[h][s] = frame
     /\ UNCHANGED <<sender, sent>>
  \/ /\ h = "router" /\ frame = "START" /\ sender[s] = "idle"
     /\ \A t \in 1 .. s - 1 : sender[t] # "idle"
     /\ sender' = [sender EXCEPT ![s] = "sending"]
     /\ UNCHANGED sent
  \/ /\ h = "router" /\ frame # "START" /\ sender[s] = "sending"
     /\ loop[h][s] = "open" /\ wire[h][s] \in {"STARTED", "ACK"}
     /\ \/ /\ frame = "CHUNK" /\ sent[s] <= MaxChunks
           /\ sent' = [sent EXCEPT ![s] = @ + 1]
           /\ UNCHANGED sender
        \/ /\ frame = "END"
           /\ sender' = [sender EXCEPT ![s] = "ending"]
           /\ UNCHANGED sent

(* START.  Speaker-ID's sink starts at once, unless it still has the id.   *)
ReceiveStart(h, s) ==
  /\ Offers(h, s, "START")
  /\ \/ /\ ~Startable(h, s)
        /\ Fail(h, s)
     \/ /\ Startable(h, s) /\ h = "router"
        /\ active' = [active EXCEPT ![h][id[s]] = s]
        /\ Reply(h, s, "starting", "none")
        /\ UNCHANGED <<closed, size, due, linked, buffer, hungup>>
     \/ /\ Startable(h, s) /\ h = "speaker" /\ buffer[id[s]].of = None
        /\ active' = [active EXCEPT ![h][id[s]] = s]
        /\ buffer' = [buffer EXCEPT ![id[s]] = [of |-> s, chunks |-> <<>>]]
        /\ Reply(h, s, "open", "STARTED")
        /\ UNCHANGED <<closed, size, due, linked, hungup>>
  /\ UNCHANGED <<id, restarts, permits, worker, kept>>

(* CHUNK.  The registry looks the id up, whoever's it is now.              *)
ReceiveChunk(h, s) ==
  LET i == id[s]
      t == active[h][i]
  IN
  /\ Offers(h, s, "CHUNK")
  /\ \/ /\ t = None                                   \* _require_active
        /\ Fail(h, s)
     \/ /\ t # None /\ size[h][t] = MaxChunks          \* STREAM_TOO_LARGE
        /\ Leave(h, s, t, "ERROR")
     \/ /\ t # None /\ size[h][t] < MaxChunks
        /\ size' = [size EXCEPT ![h][t] = @ + 1]
        /\ \/ /\ h = "speaker"
              /\ buffer' = [buffer EXCEPT ![i].chunks = Append(@, s)]
              /\ Reply(h, s, "open", "ACK")
              /\ UNCHANGED <<active, closed, due, linked, hungup>>
           \/ /\ h = "router" /\ linked[i] # None
              /\ loop' = [loop EXCEPT ![h][s] = "chunking"]
              /\ wire' = [wire EXCEPT ![h][s] = "none", !["speaker"][linked[i]] = "CHUNK"]
              /\ UNCHANGED <<active, closed, due, linked, buffer, hungup>>
  /\ UNCHANGED <<id, restarts, permits, worker, kept>>

(* END.  Speaker-ID's sink takes the buffer, and a slot, which it gives    *)
(* back when the thread is done; the relay sends END on.                   *)
ReceiveEnd(h, s) ==
  LET i == id[s]
      t == active[h][i]
  IN
  /\ Offers(h, s, "END")
  /\ \/ /\ t = None                                   \* _require_active
        /\ Fail(h, s)
        /\ UNCHANGED <<permits, worker>>
     \/ /\ t # None /\ h = "router" /\ linked[i] # None
        /\ loop' = [loop EXCEPT ![h][s] = "ending"]
        /\ wire' = [wire EXCEPT ![h][s] = "none", !["speaker"][linked[i]] = "END"]
        /\ UNCHANGED <<registryVars, linked, buffer, hungup, permits, worker>>
     \/ /\ t # None /\ h = "speaker" /\ permits = 0    \* PROCESSING_CAPACITY_EXCEEDED
        /\ Leave(h, s, t, "ERROR")
        /\ UNCHANGED <<permits, worker>>
     \/ /\ t # None /\ h = "speaker" /\ permits > 0
        /\ buffer' = [buffer EXCEPT ![i] = NoBuffer]
        /\ permits' = permits - 1
        /\ worker' = [worker EXCEPT ![s] = [stage |-> "computing", chunks |-> buffer[i].chunks]]
        /\ Reply(h, s, "ending", "none")
        /\ UNCHANGED <<registryVars, linked, hungup>>
  /\ UNCHANGED <<id, restarts, kept>>

(* registry.end has returned: the stream is finished, not aborted.         *)
Returns(h, s) ==
  /\ Holds(h, s) /\ Finish(h, s)
  /\ loop' = [loop EXCEPT ![h][s] = "returned"]

(* _end_or_disconnect wakes with the result, and the client is there.      *)
SendResult(h, s) ==
  /\ loop[h][s] = "returned" /\ ~hungup[h][s]
  /\ Reply(h, s, "ended", "RESULT")
  /\ UNCHANGED <<clientVars, registryVars, sinkVars, hungup>>

(* A call in progress raises: the deadline has passed, or the client is    *)
(* gone (only END is raced with it), or the sink failed.  The relay closes *)
(* its socket after END and after a START that got as far as having one.   *)
CallFails(h, s) ==
  LET unlinks == h = "router" /\ (loop[h][s] = "ending" \/ linked[id[s]] = s)
  IN
  /\ loop[h][s] \in Calling
  /\ \/ due[h][s]
     \/ hungup[h][s] /\ loop[h][s] = "ending"
     \/ h = "router"
     \/ h = "speaker" /\ worker[s].stage = "computed"
  /\ \/ Fail(h, s) /\ (Holds(h, s) \/ ~unlinks)
     \/ /\ ~Holds(h, s) /\ unlinks
        /\ SinkAbort(h, id[s])
        /\ Reply(h, s, "over", "ERROR")
        /\ due' = [due EXCEPT ![h][s] = FALSE]
        /\ UNCHANGED <<active, closed, size>>
  /\ worker' = IF h = "speaker" /\ worker[s].stage = "computed"
               THEN [worker EXCEPT ![s] = NoWorker] ELSE worker
  /\ UNCHANGED <<clientVars, permits, kept>>

(* The client's disconnect is received between two frames.                 *)
Disconnected(h, s) ==
  /\ hungup[h][s] /\ loop[h][s] \in {"receiving", "open", "returned", "ended"}
  /\ Leave(h, s, s, "none")
  /\ UNCHANGED <<clientVars, permits, worker, kept>>

(* The deadline of the socket: it is set anew after the stream's, so it    *)
(* never comes before it.  After the result it is no error; but the loop   *)
(* stays in its timeout until it has the result in its hands, so what was  *)
(* stored before the deadline, or across it, may be answered with one.     *)
LoopTimesOut(h, s) ==
  /\ loop[h][s] \in {"receiving", "open", "returned", "ended"}
  /\ Holds(h, s) => due[h][s]
  /\ Leave(h, s, s, IF loop[h][s] = "ended" THEN wire[h][s] ELSE "ERROR")
  /\ UNCHANGED <<clientVars, permits, worker, kept>>

-----------------------------------------------------------------------------
(* SpeakerAudioRelay: the Router as a client of Speaker-ID.                *)

(* start has its socket, and has sent START.                               *)
RelayConnect(s) ==
  /\ loop["router"][s] = "starting" /\ ~due["router"][s]
  /\ loop["speaker"][s] = "none"
  /\ linked' = [linked EXCEPT ![id[s]] = s]
  /\ loop' = [loop EXCEPT !["speaker"][s] = "receiving"]
  /\ wire' = [wire EXCEPT !["speaker"][s] = "START"]
  /\ UNCHANGED <<clientVars, registryVars, hungup, buffer, permits, worker, kept>>

(* The expected answer arrives while the call waits for it.                *)
Received(s, expected) ==
  LET t == linked[id[s]]
  IN /\ ~due["router"][s]
     /\ t # None /\ wire["speaker"][t] = expected

(* STARTED or CHUNK, passed on to the sender.                              *)
RelayAnswer(s) ==
  LET t == linked[id[s]]
  IN
  /\ \/ loop["router"][s] = "starting" /\ Received(s, "STARTED")
     \/ loop["router"][s] = "chunking" /\ Received(s, "ACK")
  /\ loop' = [loop EXCEPT !["router"][s] = "open"]
  /\ wire' = [wire EXCEPT !["router"][s] = wire["speaker"][t], !["speaker"][t] = "none"]
  /\ UNCHANGED <<clientVars, registryVars, sinkVars, hungup>>

(* RESULT: end of the relay closes the socket, end of the registry         *)
(* finishes the stream.                                                    *)
RelayResult(s) ==
  /\ loop["router"][s] = "ending" /\ Received(s, "RESULT")
  /\ Returns("router", s)
  /\ SinkAbort("router", id[s])
  /\ wire' = [wire EXCEPT !["speaker"][linked[id[s]]] = "none"]
  /\ UNCHANGED <<clientVars, due, permits, worker, kept>>

-----------------------------------------------------------------------------
(* SpeakerAudioSink.end, after the slot was taken.                         *)

(* _prepare_bounded ends in its thread, whoever still waits for it, and    *)
(* releases the slot.                                                      *)
Compute_Keeps(s) ==
  /\ worker[s].stage = "computing"
  /\ permits' = permits + 1
  /\ worker' = [worker EXCEPT ![s] = NoWorker]
  /\ kept' = [kept EXCEPT ![s] = worker[s].chunks]
  /\ UNCHANGED <<clientVars, registryVars, wire, hungup, loop, linked, buffer>>
Compute(s) ==
  /\ worker[s].stage = "computing"
  /\ permits' = permits + 1
  /\ \/ /\ loop["speaker"][s] = "ending"
        /\ worker' = [worker EXCEPT ![s].stage = "computed"]
     \/ /\ loop["speaker"][s] # "ending"
        /\ worker' = [worker EXCEPT ![s] = NoWorker]
  /\ UNCHANGED <<clientVars, registryVars, wire, hungup, loop, linked, buffer, kept>>

(* Its caller, if it was not cancelled, stores the outcome (a sample, a    *)
(* diagnostic) and returns, in one step.                                   *)
Store(s) ==
  /\ worker[s].stage = "computed"
  /\ loop["speaker"][s] = "ending" /\ ~due["speaker"][s]
  /\ kept' = [kept EXCEPT ![s] = worker[s].chunks]
  /\ worker' = [worker EXCEPT ![s] = NoWorker]
  /\ Returns("speaker", s)
  /\ UNCHANGED <<clientVars, due, wire, hungup, linked, buffer, permits>>

-----------------------------------------------------------------------------
(* Home Assistant's RouterAudioStreamClient and RouterAudioSession.        *)

HangUp(s, outcome) ==
  /\ sender' = [sender EXCEPT ![s] = outcome]
  /\ hungup' = [hungup EXCEPT !["router"][s] = TRUE]
  /\ wire' = IF wire["router"][s] \in Replies
             THEN [wire EXCEPT !["router"][s] = "none"] ELSE wire
  /\ UNCHANGED <<id, sent, restarts, registryVars, sinkVars, loop>>

TakeResult(s) ==
  /\ sender[s] = "ending" /\ wire["router"][s] = "RESULT"
  /\ HangUp(s, "result")

(* ERROR, a broken socket, a device that went away, a timeout or a         *)
(* shutdown of Home Assistant, an answer it does not accept.               *)
GiveUp(s) ==
  /\ sender[s] \in {"sending", "ending"}
  /\ HangUp(s, "failed")

-----------------------------------------------------------------------------
(* A server dies and is started again: its sockets break, and it remembers *)
(* nothing but what it stored.                                             *)
Restart(h) ==
  LET Cut(f, v) == [s \in Streams |-> IF loop[h][s] = "none" THEN f[s] ELSE v]
  IN
  /\ restarts < MaxRestarts
  /\ restarts' = restarts + 1
  /\ loop' = [loop EXCEPT ![h] = Cut(loop[h], "over")]
  /\ wire' = [wire EXCEPT ![h] = Cut(wire[h], "none")]
  /\ hungup' = [g \in Hops |-> [s \in Streams |->
       hungup[g][s] \/ (g = "speaker" /\ h = "router" /\ loop[g][s] # "none")]]
  /\ active' = [active EXCEPT ![h] = [i \in Ids |-> None]]
  /\ closed' = [closed EXCEPT ![h] = <<>>]
  /\ due' = [due EXCEPT ![h] = [s \in Streams |-> FALSE]]
  /\ \/ /\ h = "router"
        /\ linked' = [i \in Ids |-> None]
        /\ UNCHANGED <<buffer, permits, worker>>
     \/ /\ h = "speaker"
        /\ buffer' = [i \in Ids |-> NoBuffer]
        /\ permits' = Slots
        /\ worker' = [s \in Streams |-> NoWorker]
        /\ UNCHANGED linked
  /\ size' = [size EXCEPT ![h] = [s \in Streams |-> 0]]
  /\ UNCHANGED <<id, sender, sent, kept>>

-----------------------------------------------------------------------------
Receive(h, s) == ReceiveStart(h, s) \/ ReceiveChunk(h, s) \/ ReceiveEnd(h, s)
Answer(h, s) ==
  \/ SendResult(h, s) \/ CallFails(h, s)
  \/ Disconnected(h, s) \/ LoopTimesOut(h, s)
Clock(h, s) == Deadline(h, s) \/ Expire(h, s)
Relay(s) == RelayConnect(s) \/ RelayAnswer(s) \/ RelayResult(s)
Sink(s) == Compute(s) \/ Store(s)
Client(s) == TakeResult(s) \/ GiveUp(s)

Next ==
  \E s \in Streams :
    \/ Client(s) \/ Relay(s) \/ Sink(s)
    \/ \E h \in Hops : Receive(h, s) \/ Answer(h, s) \/ Clock(h, s)
  \/ \E h \in Hops : Restart(h)

(* asyncio runs what is ready and its timeouts fire; the thread pool gets  *)
(* to every job.  Nothing is assumed of the sender, the network, or the    *)
(* answers of Speaker-ID.                                                  *)
Fairness ==
  /\ \A s \in Streams : WF_vars(Compute(s))
  /\ \A s \in Streams, h \in Hops : WF_vars(Answer(h, s)) /\ WF_vars(Clock(h, s))

Spec == Init /\ [][Next]_vars /\ Fairness

-----------------------------------------------------------------------------
(* What is stored for a recording is that recording: every chunk its       *)
(* sender sent, in order, and no other's, although chunks are routed by    *)
(* the id of the stream alone (audio_streaming.py:166).  And a sender that *)
(* was told a result has had its recording stored.                         *)
RecordingsArrive ==
  \A s \in Streams :
    /\ kept[s] # None => kept[s] = [k \in 1 .. sent[s] |-> s]
    /\ sender[s] = "result" => kept[s] # None

(* Speaker-ID stores nothing for a recording whose socket it has left: a   *)
(* thread that outlives its caller (83-97) computes for nobody.  And what  *)
(* it has stored it answers with an error only when the deadline passes    *)
(* between storing and answering (audio_websocket.py:26, 60).              *)
LateResultsAreDropped ==
  [][\A s \in Streams :
       /\ loop["speaker"][s] = "over" => kept'[s] = kept[s]
       /\ kept[s] # None /\ wire["speaker"][s] # "ERROR" /\ wire'["speaker"][s] = "ERROR"
            => loop["speaker"][s] = "returned"]_vars

(* Whatever the senders do, both servers come to rest with nothing left    *)
(* over: no loop, stream, socket, buffer or slot.                          *)
AtRest ==
  /\ \A h \in Hops : /\ \A i \in Ids : active[h][i] = None
                     /\ \A s \in Streams : loop[h][s] \in {"none", "over"}
  /\ \A i \in Ids : linked[i] = None /\ buffer[i].of = None
  /\ permits = Slots
EverythingIsReleased == <>[]AtRest
=============================================================================
