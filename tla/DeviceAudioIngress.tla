------------------------- MODULE DeviceAudioIngress -------------------------
(***************************************************************************)
(* The speaker's firmware: the ESPHome component that sends a recording to *)
(* Home Assistant.  Four threads share its members: ESPHome's loop, which  *)
(* owns the state machine; the transport task, which alone opens, writes   *)
(* and closes the WebSocket; the WebSocket client's own task, which calls  *)
(* websocket_event_; and the microphone's.  They meet in two queues, a     *)
(* ring buffer and atomic flags.                                           *)
(*                                                                         *)
(* Streams are numbered in the order they are started, and a block of      *)
(* audio is named after the stream it was recorded for.  A flag is a       *)
(* boolean in the code; here it is the stream it was raised for, or None.  *)
(***************************************************************************)
EXTENDS Naturals, Sequences, FiniteSets

CONSTANTS
  MaxStreams,  \* bound: streams started
  MaxPresses,  \* bound: presses of a capture button
  MaxBlocks,   \* bound: blocks of audio the microphone delivers
  RingLimit,   \* MAX_QUEUED_AUDIO_BYTES, in blocks
  None         \* no stream

ASSUME DeviceAssumption ==
  /\ {MaxStreams, MaxBlocks, RingLimit} \subseteq Nat \ {0}
  /\ MaxPresses \in Nat
  /\ None \notin Nat \cup {"accepted", "rejected", "failed"}

Streams == 1 .. MaxStreams
Flags == {"connected", "disconnected", "overflow", "protocol_error", "send_failed",
          "transport_closed", "close_requested"}
Outcomes == {"accepted", "rejected", "failed"}
Active == {"CONNECTING", "WAIT_STARTED", "STREAMING", "WAIT_CHUNK_ACK", "WAIT_RESULT"}

VARIABLES
  \* the loop
  state,      \* state_
  stream,     \* the number of the latest stream: audio_stream_id_
  purpose,    \* capture_purpose_
  ending,     \* end_requested_
  terminal,   \* terminal_accepted_, terminal_rejected_
  drained,    \* this iteration has read the responses; it has yet to do the rest
  told,       \* the callback the latest stream was given
  \* the automations around it
  wakeWord,   \* micro_wake_word is running
  assist,     \* voice_assistant is listening
  pressed,    \* presses that have stopped the wake word, and have yet to start
  presses,    \* bound on presses
  \* shared
  capturing,  \* capture_active_
  ring,       \* audio_ring_buffer_: blocks
  commands,   \* transport_commands_
  responses,  \* response_queue_
  flags,      \* the atomic events
  notified,   \* the notification count of the transport task is not zero
  \* the other threads
  mic,        \* the block of a callback that has seen capture_active_
  blocks,     \* bound on blocks
  task,       \* where the transport task is, with the command in its hand
  socket,     \* websocket_
  closing,    \* closing_transport_
  stopping,   \* stop_transport_task_
  \* Home Assistant
  server,     \* on the latest socket: the frame it has yet to answer, or how it ended
  heard,      \* the frames it received on it
  answers     \* its frames on their way

loopVars == <<state, stream, purpose, ending, terminal, drained, told>>
automationVars == <<wakeWord, assist, pressed, presses>>
queueVars == <<ring, commands, responses>>
micVars == <<mic, blocks>>
transportVars == <<task, socket, closing, stopping>>
serverVars == <<server, heard, answers>>
vars == <<loopVars, automationVars, capturing, queueVars, flags, notified, micVars,
          transportVars, serverVars>>

NoSocket == [of |-> None, status |-> "none"]
Frame(type, s) == [type |-> type, of |-> s]
NoFrame == Frame("none", None)

TypeOK ==
  /\ state \in Active \cup {"IDLE", "CLOSING"}
  /\ stream \in 0 .. MaxStreams
  /\ purpose \in {"identification", "capture"}
  /\ terminal \in Outcomes
  /\ \A x \in {ending, drained, wakeWord, assist, capturing, notified, closing, stopping} : x \in BOOLEAN
  /\ told \in Outcomes \cup {None}
  /\ pressed \in 0 .. presses /\ presses \in 0 .. MaxPresses
  /\ ring \in Seq(Streams) /\ Len(ring) <= RingLimit
  /\ Len(commands) <= 1                    \* MAX_TRANSPORT_COMMANDS is never reached,
  /\ Len(responses) <= 2                   \* nor MAX_RESPONSE_QUEUE
  /\ flags \in [Flags -> Streams \cup {None}]
  /\ mic \in Streams \cup {None} /\ blocks \in 0 .. MaxBlocks
  /\ task.at \in {"waiting", "draining", "sending", "closing", "stopped"}
  /\ socket.status \in {"none", "connecting", "open", "broken"}
  /\ server \in {"none", "idle", "START", "CHUNK", "END", "over"} \cup Outcomes

Init ==
  /\ state = "IDLE" /\ stream = 0 /\ ending = FALSE /\ terminal = "failed"
  /\ purpose = "identification"
  /\ drained = FALSE
  /\ told = None
  /\ wakeWord = TRUE /\ assist = FALSE /\ pressed = 0 /\ presses = 0
  /\ capturing = FALSE
  /\ ring = <<>> /\ commands = <<>> /\ responses = <<>>
  /\ flags = [f \in Flags |-> None]
  /\ notified = FALSE
  /\ mic = None /\ blocks = 0
  /\ task = [at |-> "waiting", frame |-> NoFrame]
  /\ socket = NoSocket /\ closing = FALSE /\ stopping = FALSE
  /\ server = "none" /\ heard = <<>> /\ answers = <<>>

-----------------------------------------------------------------------------
(* The loop                                                                *)

Queue(frame) ==
  /\ commands' = Append(commands, frame)
  /\ notified' = TRUE

(* finish_, and fail_ which is finish_ with neither outcome; what is left  *)
(* of the flags is the caller's to say.                                    *)
Finish(outcome, fl) ==
  /\ capturing' = FALSE
  /\ terminal' = outcome
  /\ state' = "CLOSING"
  /\ flags' = [fl EXCEPT !["close_requested"] = stream]
  /\ notified' = TRUE
  /\ ring' = <<>> /\ commands' = <<>> /\ responses' = <<>>

(* The on_accepted, on_rejected and on_failed automations all restart the  *)
(* wake word.                                                              *)
Callback == wakeWord' = TRUE

(* start_stream_, when there is a network and nothing else is going on.    *)
(* The microphone's task outranks the loop: no callback is half done.      *)
Cleared == Flags \ {"close_requested"}
ClearQueues_Response == responses' = <<>> /\ UNCHANGED ring
ClearQueues == ring' = <<>> /\ responses' = <<>>
Begin(p) ==
  /\ state = "IDLE" /\ stream < MaxStreams /\ mic = None
  /\ stream' = stream + 1
  /\ purpose' = p /\ told' = None
  /\ ending' = FALSE
  /\ ClearQueues
  /\ flags' = [f \in Flags |-> IF f \in Cleared THEN None ELSE flags[f]]
  /\ state' = "CONNECTING"
  /\ commands' = <<Frame("CONNECT", stream + 1)>>
  /\ notified' = TRUE
  /\ capturing' = TRUE
  /\ drained' = FALSE
  /\ UNCHANGED <<terminal, wakeWord, micVars, transportVars, serverVars>>

(* start_stream_, refused.  Without a network the callbacks are called for *)
(* an identification too; another stream they are called for a capture.    *)
Refused_Silently(p) ==
  /\ \/ state = "IDLE" /\ Callback
     \/ state # "IDLE" /\ UNCHANGED wakeWord
  /\ UNCHANGED <<loopVars, capturing, queueVars, flags, notified, micVars, transportVars,
                 serverVars>>
Refused(p) ==
  /\ \/ state = "IDLE" /\ Callback
     \/ state # "IDLE" /\ p = "capture" /\ Callback
     \/ state # "IDLE" /\ p = "identification" /\ UNCHANGED wakeWord
  /\ UNCHANGED <<loopVars, capturing, queueVars, flags, notified, micVars, transportVars,
                 serverVars>>

(* A capture button: it stops the wake word, waits for it, and starts.     *)
Press ==
  /\ ~stopping /\ presses < MaxPresses
  /\ presses' = presses + 1 /\ pressed' = pressed + 1
  /\ wakeWord' = FALSE
  /\ UNCHANGED <<loopVars, assist, capturing, queueVars, flags, notified, micVars,
                 transportVars, serverVars>>

StartCapture ==
  /\ ~stopping /\ pressed > 0
  /\ pressed' = pressed - 1
  /\ Begin("capture") \/ Refused("capture")
  /\ UNCHANGED <<assist, presses>>

(* voice_assistant: on_listening, and on_stt_vad_end with end_stream.      *)
Listening ==
  /\ ~stopping /\ wakeWord /\ ~assist
  /\ assist' = TRUE
  /\ Begin("identification") \/ Refused("identification")
  /\ UNCHANGED <<pressed, presses>>

EndStream ==
  /\ ~stopping /\ assist
  /\ assist' = FALSE
  /\ \/ /\ state # "IDLE"
        /\ capturing' = FALSE
        /\ ending' = TRUE
     \/ /\ state = "IDLE"
        /\ UNCHANGED <<capturing, ending>>
  /\ UNCHANGED <<state, stream, purpose, terminal, drained, told, wakeWord, pressed, presses,
                 queueVars, flags, notified, micVars, transportVars, serverVars>>

(* loop(), first half: every response there is.                            *)
Expected(r) ==
  \/ r.type = "STARTED" /\ state = "WAIT_STARTED"
  \/ r.type = "CHUNK" /\ state = "WAIT_CHUNK_ACK"

HandleResponse ==
  LET r == Head(responses)
  IN
  /\ ~stopping /\ state # "IDLE" /\ ~drained /\ responses # <<>>
  /\ \/ /\ r.of = stream /\ Expected(r)
        /\ state' = "STREAMING"
        /\ responses' = Tail(responses)
        /\ UNCHANGED <<terminal, capturing, ring, commands, flags, notified>>
     \/ /\ ~(r.of = stream /\ Expected(r))
        /\ Finish(IF r.of = stream /\ r.type \in Outcomes /\ state = "WAIT_RESULT"
                  THEN r.type ELSE "failed", flags)
  /\ UNCHANGED <<stream, purpose, ending, drained, told, automationVars, micVars,
                 transportVars, serverVars>>

(* There is none: the second half; and back when there is one again.       *)
DrainEnds ==
  /\ ~stopping /\ state # "IDLE" /\ drained # (responses = <<>>)
  /\ state = "CLOSING" => ~drained
  /\ drained' = ~drained
  /\ UNCHANGED <<state, stream, purpose, ending, terminal, told, automationVars, capturing,
                 queueVars, flags, notified, micVars, transportVars, serverVars>>

(* A failure the other threads have flagged, or a time limit.              *)
Failures == {"overflow", "protocol_error", "send_failed", "disconnected"}
Checking == ~stopping /\ state \in Active /\ drained

Fails ==
  /\ Checking
  /\ \E f \in Failures :
       flags[f] # None /\ Finish("failed", [flags EXCEPT ![f] = None])
  /\ UNCHANGED <<stream, purpose, ending, drained, told, automationVars, micVars,
                 transportVars, serverVars>>

TimesOut ==
  /\ Checking
  /\ Finish("failed", flags)
  /\ UNCHANGED <<stream, purpose, ending, drained, told, automationVars, micVars,
                 transportVars, serverVars>>

Proceeds == Checking /\ \A f \in Failures : flags[f] = None

SendStart ==
  /\ Proceeds /\ state = "CONNECTING" /\ flags["connected"] # None
  /\ flags' = [flags EXCEPT !["connected"] = None]
  /\ Queue(Frame("START", stream))
  /\ state' = "WAIT_STARTED" /\ drained' = FALSE
  /\ UNCHANGED <<stream, purpose, ending, terminal, told, automationVars, capturing, ring,
                 responses, micVars, transportVars, serverVars>>

(* The voice activity detector of a capture hears its end, or does not.    *)
SendChunk ==
  /\ Proceeds /\ state = "STREAMING" /\ ring # <<>>
  /\ \E complete \in {FALSE, purpose = "capture"} :
       /\ capturing' = (capturing /\ ~complete)
       /\ ending' = (ending \/ complete)
  /\ ring' = Tail(ring)
  /\ Queue(Frame("CHUNK", Head(ring)))
  /\ state' = "WAIT_CHUNK_ACK" /\ drained' = FALSE
  /\ UNCHANGED <<stream, purpose, terminal, told, automationVars, responses, flags, micVars,
                 transportVars, serverVars>>

SendEnd ==
  /\ Proceeds /\ state = "STREAMING" /\ ring = <<>> /\ ending
  /\ Queue(Frame("END", stream))
  /\ state' = "WAIT_RESULT" /\ drained' = FALSE
  /\ UNCHANGED <<stream, purpose, ending, terminal, told, automationVars, capturing, ring,
                 responses, flags, micVars, transportVars, serverVars>>

(* The socket is closed: complete_finish_.                                 *)
CompleteFinish_Results ==
  /\ ~stopping /\ state = "CLOSING" /\ drained /\ flags["transport_closed"] # None
  /\ flags' = [flags EXCEPT !["transport_closed"] = None]
  /\ state' = "IDLE" /\ drained' = FALSE
  /\ told' = IF purpose = "capture" /\ terminal # "failed" THEN terminal ELSE None
  /\ wakeWord' = (wakeWord \/ told' # None)
  /\ terminal' = "failed"
  /\ UNCHANGED <<stream, purpose, ending, assist, pressed, presses, capturing, queueVars,
                 notified, micVars, transportVars, serverVars>>
CompleteFinish ==
  /\ ~stopping /\ state = "CLOSING" /\ drained /\ flags["transport_closed"] # None
  /\ flags' = [flags EXCEPT !["transport_closed"] = None]
  /\ state' = "IDLE" /\ drained' = FALSE
  /\ \/ /\ purpose = "capture"
        /\ told' = terminal
        /\ Callback
     \/ /\ purpose = "identification"
        /\ UNCHANGED <<told, wakeWord>>
  /\ terminal' = "failed"
  /\ UNCHANGED <<stream, purpose, ending, assist, pressed, presses, capturing, queueVars,
                 notified, micVars, transportVars, serverVars>>

(* on_shutdown: the loop does not run again.                               *)
Shutdown ==
  /\ ~stopping
  /\ stopping' = TRUE
  /\ capturing' = FALSE
  /\ notified' = TRUE
  /\ UNCHANGED <<loopVars, automationVars, queueVars, flags, micVars, task, socket, closing,
                 serverVars>>

-----------------------------------------------------------------------------
(* The microphone's callback: it looks at capture_active_, then writes.    *)

MicrophoneReads ==
  /\ capturing /\ mic = None /\ blocks < MaxBlocks
  /\ mic' = stream /\ blocks' = blocks + 1
  /\ UNCHANGED <<loopVars, automationVars, capturing, queueVars, flags, notified,
                 transportVars, serverVars>>

MicrophoneWrites ==
  /\ mic # None
  /\ mic' = None
  /\ \/ /\ Len(ring) < RingLimit
        /\ ring' = Append(ring, mic)
        /\ UNCHANGED flags
     \/ /\ Len(ring) = RingLimit
        /\ flags' = [flags EXCEPT !["overflow"] = mic]
        /\ UNCHANGED ring
  /\ UNCHANGED <<loopVars, automationVars, capturing, commands, responses, notified, blocks,
                 transportVars, serverVars>>

-----------------------------------------------------------------------------
(* The transport task                                                      *)

otherVars == <<loopVars, automationVars, capturing, ring, responses, micVars, stopping>>

(* close_transport_worker_ begins; events are ignored until it is done.    *)
Close(frame) ==
  /\ task' = [at |-> "closing", frame |-> frame]
  /\ closing' = (socket # NoSocket)

(* Notified, it looks for a stop, then for a close, then for commands.     *)
TaskWakes ==
  /\ task.at = "waiting" /\ notified
  /\ notified' = FALSE
  /\ \/ /\ stopping
        /\ Close(Frame("STOP", None))
        /\ UNCHANGED flags
     \/ /\ ~stopping /\ flags["close_requested"] # None
        /\ Close(Frame("CLOSE", flags["close_requested"]))
        /\ flags' = [flags EXCEPT !["close_requested"] = None]
     \/ /\ ~stopping /\ flags["close_requested"] = None
        /\ task' = [at |-> "draining", frame |-> NoFrame]
        /\ UNCHANGED <<flags, closing>>
  /\ UNCHANGED <<otherVars, commands, socket, serverVars>>

TaskTakes ==
  /\ task.at = "draining"
  /\ \/ /\ commands # <<>>
        /\ task' = [at |-> "sending", frame |-> Head(commands)]
        /\ commands' = Tail(commands)
     \/ /\ commands = <<>>
        /\ task' = [at |-> "waiting", frame |-> NoFrame]
        /\ UNCHANGED commands
  /\ UNCHANGED <<otherVars, flags, notified, socket, closing, serverVars>>

TaskSends ==
  /\ task.at = "sending"
  /\ task' = [at |-> "draining", frame |-> NoFrame]
  /\ \/ /\ task.frame.type = "CONNECT"
        /\ socket' = [of |-> task.frame.of, status |-> "connecting"]
        /\ server' = "none" /\ heard' = <<>>
     \/ /\ task.frame.type # "CONNECT" /\ socket.status = "open"
        /\ heard' = Append(heard, task.frame)
        /\ server' = IF server = "idle" THEN task.frame.type ELSE server
        /\ UNCHANGED socket
  /\ UNCHANGED <<otherVars, commands, flags, notified, closing, answers>>

(* No socket, a broken one, or one that does not take it in time.          *)
TaskFails ==
  /\ task.at = "sending"
  /\ flags' = [flags EXCEPT !["send_failed"] = task.frame.of]
  /\ Close(NoFrame)
  /\ UNCHANGED <<otherVars, commands, notified, socket, serverVars>>

HangsUp == server' = IF server \in Outcomes THEN server ELSE "over"

TaskCloses ==
  /\ task.at = "closing"
  /\ socket' = NoSocket /\ closing' = FALSE /\ answers' = <<>>
  /\ IF socket = NoSocket THEN UNCHANGED server ELSE HangsUp
  /\ flags' = IF task.frame.type = "CLOSE"
              THEN [flags EXCEPT !["transport_closed"] = task.frame.of] ELSE flags
  /\ task' = [at |-> IF task.frame.type = "STOP" THEN "stopped" ELSE "waiting",
              frame |-> NoFrame]
  /\ UNCHANGED <<otherVars, commands, notified, heard>>

-----------------------------------------------------------------------------
(* The WebSocket client's task: websocket_event_                           *)

Raise(flag) == flags' = IF closing THEN flags ELSE [flags EXCEPT ![flag] = socket.of]

Connects ==
  /\ socket.status = "connecting"
  /\ socket' = [socket EXCEPT !.status = "open"]
  /\ server' = "idle"
  /\ Raise("connected")
  /\ UNCHANGED <<otherVars, commands, notified, task, closing, heard, answers>>

Disconnects ==
  /\ socket.status \in {"connecting", "open"}
  /\ socket' = [socket EXCEPT !.status = "broken"]
  /\ HangsUp
  /\ answers' = <<>>
  /\ Raise("disconnected")
  /\ UNCHANGED <<otherVars, commands, notified, task, closing, heard>>

(* A response, unless the loop has the mutex at that moment.               *)
Delivers ==
  /\ socket.status = "open" /\ answers # <<>>
  /\ answers' = Tail(answers)
  /\ \/ /\ responses' = Append(responses, Head(answers))
        /\ UNCHANGED flags
     \/ /\ state # "IDLE"
        /\ flags' = [flags EXCEPT !["protocol_error"] = socket.of]
        /\ UNCHANGED responses
  /\ UNCHANGED <<loopVars, automationVars, capturing, ring, commands, notified, micVars,
                 transportVars, server, heard>>

(* Home Assistant's ingress: it answers every frame in turn, and ends with *)
(* a result or an error.                                                   *)
Answers ==
  LET s == socket.of
  IN
  /\ socket.status = "open"
  /\ \/ /\ server = "START"
        /\ answers' = Append(answers, Frame("STARTED", s))
        /\ server' = "idle"
     \/ /\ server = "CHUNK"
        /\ answers' = Append(answers, Frame("CHUNK", s))
        /\ server' = "idle"
     \/ /\ server = "END"
        /\ \E result \in Outcomes :
             /\ answers' = Append(answers, Frame(result, s))
             /\ server' = result
     \/ /\ server \in {"idle", "START", "CHUNK", "END"}
        /\ answers' = Append(answers, Frame("ERROR", s))
        /\ server' = "over"
  /\ UNCHANGED <<otherVars, commands, flags, notified, task, socket, closing, heard>>

-----------------------------------------------------------------------------
Loop ==
  \/ HandleResponse \/ DrainEnds \/ Fails
  \/ SendStart \/ SendChunk \/ SendEnd \/ CompleteFinish
Automations == Press \/ StartCapture \/ Listening \/ EndStream
SocketTask == Connects \/ Disconnects \/ Delivers
Microphone == MicrophoneReads \/ MicrophoneWrites
TransportTask == TaskWakes \/ TaskTakes \/ TaskSends \/ TaskFails \/ TaskCloses

Next ==
  \/ Loop \/ TimesOut \/ Automations \/ Shutdown
  \/ TransportTask \/ Microphone \/ SocketTask \/ Answers

(* The scheduler runs the loop and the two tasks, a time limit passes, and *)
(* a press that has stopped the wake word goes on to start.  Nothing is    *)
(* assumed of the network or of Home Assistant.                            *)
Fairness ==
  /\ WF_vars(Loop) /\ WF_vars(TimesOut) /\ WF_vars(StartCapture)
  /\ WF_vars(TransportTask) /\ WF_vars(MicrophoneWrites)

Spec == Init /\ [][Next]_vars /\ Fairness

-----------------------------------------------------------------------------
(* What Home Assistant hears on the socket of a stream is a prefix of      *)
(* START, blocks, END, all of that stream: neither a command left behind   *)
(* by an earlier stream (clear_transport_commands_) nor a block its        *)
(* microphone callback wrote late (394-402) gets into another.             *)
OnlyItsOwnAudio ==
  \A k \in 1 .. Len(heard) :
    /\ heard[k].of = heard[1].of
    /\ socket # NoSocket => heard[k].of = socket.of
    /\ heard[k].type = "START" <=> k = 1
    /\ heard[k].type = "END" => k = Len(heard)

(* A capture is told it was accepted or rejected only when that is what    *)
(* Home Assistant answered to it, having heard all of it; and a capture is *)
(* told something as soon as its stream is over.                           *)
ToldTheResult ==
  /\ told \in {"accepted", "rejected"} =>
       /\ server = told
       /\ heard[Len(heard)] = Frame("END", stream)
  /\ state = "IDLE" => (told # None <=> stream > 0 /\ purpose = "capture")

(* Whatever the network and Home Assistant do, a stream ends, and the wake *)
(* word a press has stopped is started again.                              *)
ComesBack ==
  /\ state # "IDLE" ~> (state = "IDLE" \/ stopping)
  /\ ~wakeWord ~> (wakeWord \/ stopping)
=============================================================================
