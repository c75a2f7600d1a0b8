----------------------- MODULE DeviceAudioIngressProofs -----------------------
(***************************************************************************)
(* What the speaker's firmware guarantees for any number of streams,       *)
(* presses and blocks of audio, and any limit of the ring buffer.          *)
(*                                                                         *)
(* Four threads share the members of one component, and the argument is    *)
(* about what is on its way between them.  A stream has one thing on its   *)
(* way at a time: a command for the transport task, or a frame Home        *)
(* Assistant has yet to answer, or its answer.  So an answer is never      *)
(* unexpected but when it is the last, finish_ is called once for a        *)
(* stream, its close is asked for once, and when the loop sees that the    *)
(* socket is closed nothing of the stream is left for the next one.        *)
(***************************************************************************)
EXTENDS DeviceAudioIngress, SequenceTheorems, TLAPS

-----------------------------------------------------------------------------
Busy == {"START", "CHUNK", "END"}
Ended == Outcomes \cup {"over"}
Types == {"CONNECT", "STARTED", "ERROR", "STOP", "CLOSE", "none"} \cup Busy \cup Outcomes
Frames == [type : Types, of : Streams \cup {None}]
Sockets == [of : Streams, status : {"connecting", "open", "broken"}]

(* TypeOK in parts, with the elements of the queues.                       *)
LoopTyped ==
  /\ state \in Active \cup {"IDLE", "CLOSING"}
  /\ stream \in 0 .. MaxStreams
  /\ purpose \in {"identification", "capture"}
  /\ terminal \in Outcomes /\ told \in Outcomes \cup {None}
  /\ ending \in BOOLEAN /\ drained \in BOOLEAN

AutomationsTyped ==
  /\ wakeWord \in BOOLEAN /\ assist \in BOOLEAN
  /\ pressed \in 0 .. presses /\ presses \in 0 .. MaxPresses

QueuesTyped ==
  /\ ring \in Seq(Streams) /\ Len(ring) <= RingLimit
  /\ commands \in Seq(Frames) /\ responses \in Seq(Frames)
  /\ answers \in Seq(Frames) /\ heard \in Seq(Frames)

FlagsTyped ==
  /\ flags \in [Flags -> Streams \cup {None}]
  /\ capturing \in BOOLEAN /\ notified \in BOOLEAN
  /\ closing \in BOOLEAN /\ stopping \in BOOLEAN

ThreadsTyped ==
  /\ mic \in Streams \cup {None} /\ blocks \in 0 .. MaxBlocks
  /\ task \in [at : {"waiting", "draining", "sending", "closing", "stopped"}, frame : Frames]
  /\ socket \in Sockets \cup {NoSocket}
  /\ server \in Busy \cup Ended \cup {"none", "idle"}

Typed == LoopTyped /\ AutomationsTyped /\ QueuesTyped /\ FlagsTyped /\ ThreadsTyped

(* The command that is on its way: in the transport task's hand, or in its *)
(* queue.                                                                  *)
Underway ==
  IF task.at = "sending" THEN task.frame
  ELSE IF commands # <<>> THEN commands[1] ELSE NoFrame

(* There is one, of the stream, and it is what the state says was sent.    *)
SentIn(type) ==
  CASE type = "CONNECT" -> {"CONNECTING", "CLOSING"}
    [] type = "START" -> {"WAIT_STARTED", "CLOSING"}
    [] type = "CHUNK" -> {"WAIT_CHUNK_ACK", "CLOSING"}
    [] type = "END" -> {"WAIT_RESULT", "CLOSING"}

OneCommand ==
  /\ task.at = "sending" => commands = <<>>
  /\ Len(commands) <= 1
  /\ state \in {"CLOSING", "IDLE"} => commands = <<>>
  /\ task.at = "sending" \/ commands # <<>> => /\ Underway.type \in Busy \cup {"CONNECT"}
                                              /\ Underway.of = stream
                                              /\ state \in SentIn(Underway.type)
  /\ Underway.type \in Busy => server \notin Busy
  /\ Underway.type = "CONNECT" => /\ socket = NoSocket
                                  /\ responses = <<>>
                                  /\ flags["connected"] = None

(* Home Assistant is at work on a frame the loop waits for the answer of.  *)
ServerWorks ==
  /\ server \in Busy \cup {"idle"} => socket.status = "open"
  /\ socket.status = "open" => server # "none"
  /\ server \in Busy => /\ responses = <<>> /\ answers = <<>>
                        /\ state \in SentIn(server)

(* An answer on its way is the only one, but for an error after it.        *)
AnsweredIn(type) ==
  CASE type = "STARTED" -> {"WAIT_STARTED", "CLOSING", "IDLE"}
    [] type = "CHUNK" -> {"WAIT_CHUNK_ACK", "CLOSING", "IDLE"}
    [] type \in Outcomes -> {"WAIT_RESULT", "CLOSING", "IDLE"}
    [] type = "ERROR" -> Active \cup {"CLOSING", "IDLE"}

AnAnswer(r) ==
  /\ r.of = stream
  /\ r.type \in {"STARTED", "CHUNK", "ERROR"} \cup Outcomes
  /\ state \in AnsweredIn(r.type)
  /\ r.type # "ERROR" => Underway.type \notin Busy
  /\ r.type = "ERROR" => server = "over"
  /\ r.type \in Outcomes => server = r.type

OneAnswer ==
  /\ answers # <<>> => socket.status = "open"
  /\ Len(responses) + Len(answers) <= 2
  /\ \A k \in 1 .. Len(responses) :
       /\ AnAnswer(responses[k])
       /\ k > 1 => responses[k].type = "ERROR"
       /\ responses[k].type \in Outcomes \cup {"ERROR"} => k = Len(responses) /\ answers = <<>>
  /\ \A k \in 1 .. Len(answers) :
       /\ AnAnswer(answers[k])
       /\ (k > 1 \/ responses # <<>>) => answers[k].type = "ERROR"
       /\ answers[k].type \in Outcomes \cup {"ERROR"} => k = Len(answers)

(* The socket is the stream's, and a fresh one has seen nothing.           *)
SocketIsOfStream ==
  /\ socket # NoSocket => socket.of = stream /\ state # "IDLE"
  /\ socket.status = "connecting" =>
       /\ server = "none" /\ heard = <<>> /\ responses = <<>> /\ Underway = NoFrame
       /\ flags["connected"] = None /\ state \in {"CONNECTING", "CLOSING"}
  /\ state = "CONNECTING" /\ (socket # NoSocket \/ flags["connected"] # None) =>
       heard = <<>> /\ Underway = NoFrame

(* What was heard goes with what is on its way.                            *)
Last == heard[Len(heard)]
Going == heard # <<>> /\ Last.type # "END"
Concluded == heard # <<>> /\ Last.type = "END"
Opened == {"WAIT_STARTED", "STREAMING", "WAIT_CHUNK_ACK", "WAIT_RESULT"}

HeardIsInOrder ==
  /\ \A k \in 1 .. Len(heard) : /\ heard[k].of = heard[1].of
                                /\ heard[k].type = "START" <=> k = 1
                                /\ heard[k].type = "END" => k = Len(heard)
  /\ socket # NoSocket \/ state \in Opened => \A k \in 1 .. Len(heard) : heard[k].of = stream
  /\ Underway.type = "START" => heard = <<>>
  /\ Underway.type \in {"CHUNK", "END"} => Going
  /\ server \in {"START", "CHUNK"} \/ state = "STREAMING" => Going
  /\ server \in {"END"} \cup Outcomes => Concluded
  /\ \A k \in 1 .. Len(responses) : responses[k].type \in {"STARTED", "CHUNK"} => Going
  /\ \A k \in 1 .. Len(answers) : answers[k].type \in {"STARTED", "CHUNK"} => Going

(* A stream is closed once: asked for, being done, or done.                *)
CloseTaken == task.at = "closing" /\ task.frame.type = "CLOSE"

ClosedOnce ==
  /\ flags["close_requested"] # None =>
       state = "CLOSING" /\ ~CloseTaken /\ flags["transport_closed"] = None
  /\ CloseTaken => state = "CLOSING" /\ flags["transport_closed"] = None
  /\ flags["transport_closed"] # None =>
       state = "CLOSING" /\ socket = NoSocket /\ task.at # "sending"
  /\ state = "IDLE" => socket = NoSocket /\ task.at # "sending"
  /\ state = "CLOSING" /\ ~drained =>
       /\ responses = <<>> /\ answers = <<>> /\ server \in Ended
       /\ Underway.type # "CONNECT" /\ socket.status # "connecting"

(* Audio is of the stream it is recorded for.                              *)
AudioIsOfStream ==
  /\ state # "IDLE" => stream \in Streams
  /\ capturing => state \in Active
  /\ state \in Active => /\ \A k \in 1 .. Len(ring) : ring[k] = stream
                         /\ mic \in {None, stream}

(* What the callback will be told, or was.                                 *)
ResultIsHeard ==
  /\ terminal # "failed" =>
       state = "CLOSING" /\ server = terminal /\ task.at # "sending"
       /\ heard # <<>> /\ Last = Frame("END", stream)
  /\ told # None => state = "IDLE"
  /\ told \in {"accepted", "rejected"} =>
       server = told /\ heard # <<>> /\ Last = Frame("END", stream)
  /\ state = "IDLE" => (told # None <=> stream > 0 /\ purpose = "capture")

(* The inductive invariant.                                                *)
IInv ==
  /\ Typed
  /\ OneCommand /\ ServerWorks /\ OneAnswer /\ SocketIsOfStream
  /\ HeardIsInOrder /\ ClosedOnce /\ AudioIsOfStream /\ ResultIsHeard

-----------------------------------------------------------------------------
(* Each part of the invariant speaks of some variables only.               *)
LEMMA LoopTypedStays == LoopTyped /\ UNCHANGED loopVars => LoopTyped'
  BY DEF LoopTyped, loopVars

LEMMA AutomationsTypedStays ==
  AutomationsTyped /\ UNCHANGED automationVars => AutomationsTyped'
  BY DEF AutomationsTyped, automationVars

LEMMA QueuesTypedStays ==
  QueuesTyped /\ UNCHANGED <<ring, commands, responses, answers, heard>> => QueuesTyped'
  BY DEF QueuesTyped

LEMMA FlagsTypedStays ==
  FlagsTyped /\ UNCHANGED <<flags, capturing, notified, closing, stopping>> => FlagsTyped'
  BY DEF FlagsTyped

LEMMA ThreadsTypedStays ==
  ThreadsTyped /\ UNCHANGED <<mic, blocks, task, socket, server>> => ThreadsTyped'
  BY DEF ThreadsTyped

LEMMA OneCommandStays ==
  /\ OneCommand
  /\ UNCHANGED <<task, commands, state, stream, server, socket, responses, flags["connected"]>>
  => OneCommand'
  BY DEF OneCommand, Underway

LEMMA ServerWorksStays ==
  ServerWorks /\ UNCHANGED <<server, socket, responses, answers, state>> => ServerWorks'
  BY DEF ServerWorks

LEMMA OneAnswerStays ==
  /\ OneAnswer
  /\ UNCHANGED <<answers, responses, socket, stream, state, server, task, commands>>
  => OneAnswer'
  BY DEF OneAnswer, AnAnswer, Underway

LEMMA SocketIsOfStreamStays ==
  /\ SocketIsOfStream
  /\ UNCHANGED <<socket, stream, state, server, heard, responses, task, commands, flags["connected"]>>
  => SocketIsOfStream'
  BY DEF SocketIsOfStream, Underway

LEMMA HeardIsInOrderStays ==
  /\ HeardIsInOrder
  /\ UNCHANGED <<heard, socket, state, stream, task, commands, server, responses, answers>>
  => HeardIsInOrder'
  BY DEF HeardIsInOrder, Underway, Going, Concluded, Last

LEMMA ClosedOnceStays ==
  /\ ClosedOnce
  /\ UNCHANGED <<flags["close_requested"], flags["transport_closed"], state, task, socket, drained,
                 responses, answers, server, commands>>
  => ClosedOnce'
  BY DEF ClosedOnce, CloseTaken, Underway

LEMMA AudioIsOfStreamStays ==
  AudioIsOfStream /\ UNCHANGED <<state, stream, capturing, ring, mic>> => AudioIsOfStream'
  BY DEF AudioIsOfStream

LEMMA ResultIsHeardStays ==
  /\ ResultIsHeard
  /\ UNCHANGED <<terminal, state, server, task, heard, stream, told, purpose>>
  => ResultIsHeard'
  BY DEF ResultIsHeard, Last

-----------------------------------------------------------------------------
(* Frames and queues.                                                      *)
LEMMA FrameTyped ==
  ASSUME NEW type \in Types, NEW s \in Streams \cup {None}
  PROVE  /\ Frame(type, s) \in Frames
         /\ Frame(type, s).type = type
         /\ Frame(type, s).of = s
  BY DEF Frame, Frames

LEMMA FrameShape ==
  /\ \A f \in Frames : f.type \in Types /\ f.of \in Streams \cup {None} /\ f = Frame(f.type, f.of)
  /\ NoFrame \in Frames
  /\ NoFrame.type = "none"
  BY DEF Frame, Frames, NoFrame, Types

LEMMA EmptyQueue ==
  /\ <<>> \in Seq(Frames)
  /\ Len(<<>>) = 0
  /\ \A q \in Seq(Frames) : /\ Len(q) \in Nat
                            /\ q # <<>> <=> Len(q) > 0
                            /\ q = <<>> <=> Len(q) = 0
<1>1. <<>> \in Seq(Frames) /\ \A q \in Seq(Frames) : q # <<>> => Len(q) \in Nat \ {0}
  BY EmptySeq
<1>2. Len(<<>>) = 0
  OBVIOUS
<1> QED
  BY <1>1, <1>2

LEMMA Pushed ==
  ASSUME NEW q \in Seq(Frames), NEW f \in Frames
  PROVE  /\ Append(q, f) \in Seq(Frames)
         /\ Append(q, f) # <<>>
         /\ Len(Append(q, f)) = Len(q) + 1
         /\ \A k \in 1 .. Len(q) : Append(q, f)[k] = q[k]
         /\ Append(q, f)[Len(q) + 1] = f
  BY AppendProperties

LEMMA Popped ==
  ASSUME NEW q \in Seq(Frames), q # <<>>
  PROVE  /\ Len(q) \in Nat /\ 1 <= Len(q)
         /\ Head(q) = q[1] /\ q[1] \in Frames
         /\ Tail(q) \in Seq(Frames)
         /\ Len(Tail(q)) = Len(q) - 1
         /\ \A k \in 1 .. Len(q) - 1 : Tail(q)[k] = q[k + 1]
         /\ Tail(q) = <<>> <=> Len(q) = 1
<1>1. Len(q) \in Nat /\ 1 <= Len(q)
  BY EmptyQueue
<1>2. /\ Tail(q) \in Seq(Frames)
      /\ Len(Tail(q)) = Len(q) - 1
      /\ \A k \in 1 .. Len(Tail(q)) : Tail(q)[k] = q[k + 1]
  BY HeadTailProperties
<1>3. Tail(q) = <<>> <=> Len(q) = 1
  <2>1. PICK t \in Seq(Frames) : t = Tail(q)
    BY <1>2
  <2>2. t = <<>> <=> Len(t) = 0
    BY EmptyQueue
  <2> QED
    <3>1. Len(t) = Len(q) - 1
      BY <1>2, <2>1, Zenon
    <3>2. t = <<>> <=> Len(q) = 1
      BY <1>1, <2>2, <3>1
    <3> QED
      BY <2>1, <3>2, Zenon
<1>4. q[1] \in Frames
  BY <1>1, ElementOfSeq
<1> QED
  BY <1>1, <1>2, <1>3, <1>4

(* The command that is on its way moves to the transport task, or is gone. *)
LEMMA CommandMoves ==
  ASSUME OneAnswer, SocketIsOfStream, HeardIsInOrder, Underway' \in {Underway, NoFrame},
         UNCHANGED <<answers, responses, socket, stream, state, server, heard, flags["connected"]>>
  PROVE  OneAnswer' /\ SocketIsOfStream' /\ HeardIsInOrder'
<1>1. NoFrame.type = "none"
  BY FrameShape
<1>2. OneAnswer'
  BY <1>1 DEF OneAnswer, AnAnswer, AnsweredIn, Busy, Outcomes, Active
<1>3. SocketIsOfStream'
  BY <1>1 DEF SocketIsOfStream
<1>4. HeardIsInOrder'
  BY <1>1 DEF HeardIsInOrder, Going, Concluded, Last, Opened, Busy, Outcomes
<1> QED
  BY <1>2, <1>3, <1>4

-----------------------------------------------------------------------------
(* The automations alone: a press, and a start that is refused.            *)
LEMMA AutomationsOnly ==
  ASSUME IInv, AutomationsTyped',
         UNCHANGED <<loopVars, capturing, queueVars, flags, notified, micVars, transportVars,
                     serverVars>>
  PROVE  IInv'
  BY LoopTypedStays, QueuesTypedStays, FlagsTypedStays, ThreadsTypedStays, OneCommandStays,
     ServerWorksStays, OneAnswerStays, SocketIsOfStreamStays, HeardIsInOrderStays,
     ClosedOnceStays, AudioIsOfStreamStays, ResultIsHeardStays
  DEF IInv, Typed, loopVars, automationVars, queueVars, micVars, transportVars, serverVars

(* A stream starts when nothing of the last one is left but what is        *)
(* cleared.                                                                *)
LEMMA BeginStep ==
  ASSUME IInv, NEW p \in {"identification", "capture"}, Begin(p), AutomationsTyped'
  PROVE  IInv'
<1> DEFINE f == Frame("CONNECT", stream + 1)
<1>1. stream + 1 \in Streams /\ stream' = stream + 1 /\ stream' > 0
  BY DeviceAssumption DEF IInv, Typed, LoopTyped, Active, Outcomes, Begin, Streams
<1>2. f \in Frames /\ f.type = "CONNECT" /\ f.of = stream + 1
  BY <1>1, FrameTyped DEF Types
<1>3. /\ state = "IDLE" /\ state' = "CONNECTING" /\ drained' = FALSE /\ told' = None
      /\ ring' = <<>> /\ responses' = <<>> /\ commands' = <<f>> /\ capturing' = TRUE
      /\ UNCHANGED <<terminal, micVars, transportVars, serverVars>> /\ mic = None
      /\ purpose' = p /\ ending' = FALSE /\ notified' = TRUE
  BY DEF Begin, ClearQueues
<1>4. /\ task.at # "sending" /\ ~CloseTaken /\ socket = NoSocket /\ socket.status = "none"
      /\ flags["close_requested"] = None /\ answers = <<>> /\ server \notin Busy \cup {"idle"}
      /\ terminal = "failed"
  BY <1>3
  DEF IInv, Typed, ClosedOnce, CloseTaken, Ended, ServerWorks, OneAnswer, ResultIsHeard,
      NoSocket
<1>5. commands' \in Seq(Frames) /\ Len(commands') = 1 /\ commands'[1] = f /\ commands' # <<>>
  BY <1>2, <1>3
<1>6. Underway' = f
  BY <1>3, <1>4, <1>5 DEF Underway, transportVars
<1>7. /\ flags' \in [Flags -> Streams \cup {None}]
      /\ flags'["connected"] = None /\ flags'["transport_closed"] = None
      /\ flags'["close_requested"] = None
  BY <1>4 DEF IInv, Typed, FlagsTyped, Flags, Begin, Cleared
<1> HIDE DEF f
<1>8. LoopTyped'
  <2>1. terminal' = terminal /\ terminal \in Outcomes
    BY <1>3 DEF IInv, Typed, LoopTyped
  <2>2. stream' \in 0 .. MaxStreams
    BY <1>1, DeviceAssumption DEF Streams
  <2>3. ending' \in BOOLEAN /\ drained' \in BOOLEAN
    BY <1>3, Zenon
  <2> QED
    BY <1>3, <2>1, <2>2, <2>3 DEF LoopTyped, Active
<1>9. QueuesTyped'
  <2>1. <<>> \in Seq(Streams) /\ Len(<<>>) = 0 /\ RingLimit \in Nat
    BY EmptySeq, DeviceAssumption
  <2>2. answers' = answers /\ heard' = heard
    BY <1>3 DEF serverVars
  <2> QED
    BY <1>3, <1>5, <2>1, <2>2, EmptyQueue DEF IInv, Typed, QueuesTyped
<1>10. FlagsTyped'
  BY <1>3, <1>7 DEF IInv, Typed, FlagsTyped, Flags, transportVars
<1>11. ThreadsTyped'
  BY <1>3, ThreadsTypedStays
  DEF IInv, Typed, loopVars, automationVars, queueVars, micVars, transportVars, serverVars
<1>12. OneCommand'
  BY <1>1, <1>2, <1>3, <1>4, <1>5, <1>6, <1>7
  DEF OneCommand, SentIn, Busy, loopVars, automationVars, queueVars, micVars, transportVars,
      serverVars
<1>13. ServerWorks'
  BY <1>3, <1>4
  DEF ServerWorks, SentIn, Busy, loopVars, automationVars, queueVars, micVars,
      transportVars, serverVars
<1>14. OneAnswer'
  BY <1>3, <1>4, EmptyQueue
  DEF OneAnswer, AnAnswer, AnsweredIn, Busy, Outcomes, Active, loopVars, automationVars,
      queueVars, micVars, transportVars, serverVars
<1>15. SocketIsOfStream'
  BY <1>3, <1>4, <1>7
  DEF SocketIsOfStream, loopVars, automationVars, queueVars, micVars, transportVars,
      serverVars
<1>16. HeardIsInOrder'
  BY <1>2, <1>3, <1>4, <1>6, EmptyQueue
  DEF IInv, HeardIsInOrder, Going, Concluded, Last, Opened, Busy, Outcomes, loopVars,
      automationVars, queueVars, micVars, transportVars, serverVars
<1>17. ClosedOnce'
  BY <1>3, <1>4, <1>7
  DEF ClosedOnce, CloseTaken, Ended, loopVars, automationVars, queueVars, micVars,
      transportVars, serverVars
<1>18. AudioIsOfStream'
  BY <1>1, <1>3
  DEF AudioIsOfStream, Active, loopVars, automationVars, queueVars, micVars, transportVars,
      serverVars
<1>19. ResultIsHeard'
  BY <1>3, <1>4, DeviceAssumption
  DEF ResultIsHeard, Last, loopVars, automationVars, queueVars, micVars, transportVars,
      serverVars
<1> QED
  BY <1>8, <1>9, <1>10, <1>11, <1>12, <1>13, <1>14, <1>15, <1>16, <1>17, <1>18, <1>19
  DEF IInv, Typed

LEMMA PressStep == IInv /\ Press => IInv'
<1> SUFFICES ASSUME IInv, Press PROVE IInv'
  OBVIOUS
<1>1. AutomationsTyped'
  <2>1. AutomationsTyped /\ MaxPresses \in Nat
    BY DeviceAssumption DEF IInv, Typed
  <2>2. /\ presses < MaxPresses /\ presses' = presses + 1 /\ pressed' = pressed + 1
        /\ wakeWord' = FALSE /\ assist' = assist
    BY DEF Press
  <2>3. pressed' \in 0 .. presses' /\ presses' \in 0 .. MaxPresses
    BY <2>1, <2>2 DEF AutomationsTyped
  <2>4. wakeWord' \in BOOLEAN /\ assist' \in BOOLEAN
    BY <2>1, <2>2, Zenon DEF AutomationsTyped
  <2> QED
    BY <2>3, <2>4 DEF AutomationsTyped
<1> QED
  BY <1>1, AutomationsOnly DEF Press, loopVars

LEMMA StartCaptureStep == IInv /\ StartCapture => IInv'
<1> SUFFICES ASSUME IInv, StartCapture PROVE IInv'
  OBVIOUS
<1>1. AutomationsTyped'
  <2>1. AutomationsTyped /\ MaxPresses \in Nat
    BY DeviceAssumption DEF IInv, Typed
  <2>2. /\ pressed > 0 /\ pressed' = pressed - 1 /\ assist' = assist /\ presses' = presses
        /\ wakeWord' \in {wakeWord, TRUE}
    BY DEF StartCapture, Begin, Refused, Callback
  <2>3. pressed' \in 0 .. presses' /\ presses' \in 0 .. MaxPresses
    BY <2>1, <2>2 DEF AutomationsTyped
  <2>4. wakeWord' \in BOOLEAN /\ assist' \in BOOLEAN
    BY <2>1, <2>2, Zenon DEF AutomationsTyped
  <2> QED
    BY <2>3, <2>4 DEF AutomationsTyped
<1>2. CASE Begin("capture")
  BY <1>1, <1>2, BeginStep
<1>3. CASE Refused("capture")
  BY <1>1, <1>3, AutomationsOnly DEF Refused
<1> QED
  BY <1>2, <1>3 DEF StartCapture

LEMMA ListeningStep == IInv /\ Listening => IInv'
<1> SUFFICES ASSUME IInv, Listening PROVE IInv'
  OBVIOUS
<1>1. AutomationsTyped'
  BY DeviceAssumption DEF IInv, Typed, AutomationsTyped, Listening, Begin, Refused, Callback
<1>2. CASE Begin("identification")
  BY <1>1, <1>2, BeginStep
<1>3. CASE Refused("identification")
  BY <1>1, <1>3, AutomationsOnly DEF Refused
<1> QED
  BY <1>2, <1>3 DEF Listening

LEMMA EndStreamStep == IInv /\ EndStream => IInv'
<1> SUFFICES ASSUME IInv, EndStream PROVE IInv'
  OBVIOUS
<1>1. LoopTyped' /\ AutomationsTyped' /\ FlagsTyped'
  BY DEF IInv, Typed, LoopTyped, AutomationsTyped, FlagsTyped, EndStream, transportVars
<1>2. AudioIsOfStream'
  BY DEF IInv, AudioIsOfStream, Active, EndStream, queueVars, micVars
<1> QED
  BY <1>1, <1>2, QueuesTypedStays, ThreadsTypedStays, OneCommandStays, ServerWorksStays,
     OneAnswerStays, SocketIsOfStreamStays, HeardIsInOrderStays, ClosedOnceStays,
     ResultIsHeardStays
  DEF EndStream, IInv, Typed, queueVars, micVars, transportVars, serverVars

-----------------------------------------------------------------------------
(* The loop.                                                               *)

(* finish_ is called of a stream at work; its outcome is what Home         *)
(* Assistant answered, or a failure, and no answer is to come while the    *)
(* loop still reads them.                                                  *)
LEMMA FinishStep ==
  ASSUME IInv, NEW outcome \in Outcomes, NEW fl \in [Flags -> Streams \cup {None}],
         fl["connected"] = flags["connected"],
         fl["transport_closed"] = flags["transport_closed"],
         Finish(outcome, fl), state \in Active,
         UNCHANGED <<stream, purpose, ending, drained, told, automationVars, micVars,
                     transportVars, serverVars>>,
         outcome # "failed" => /\ server = outcome /\ task.at # "sending"
                               /\ heard # <<>> /\ Last = Frame("END", stream),
         ~drained => /\ answers = <<>> /\ server \in Ended
                     /\ Underway.type # "CONNECT" /\ socket.status # "connecting"
  PROVE  IInv'
<1>1. /\ state' = "CLOSING" /\ terminal' = outcome /\ capturing' = FALSE
      /\ ring' = <<>> /\ commands' = <<>> /\ responses' = <<>> /\ notified' = TRUE
      /\ flags' = [fl EXCEPT !["close_requested"] = stream]
  BY DEF Finish
<1>2. /\ UNCHANGED <<stream, purpose, ending, drained, told>>
      /\ UNCHANGED <<mic, blocks, task, socket, closing, stopping, server, heard, answers>>
  BY DEF micVars, transportVars, serverVars
<1>3. /\ stream \in Streams /\ state \notin {"IDLE", "CLOSING"}
      /\ flags["transport_closed"] = None /\ ~CloseTaken /\ told = None
  BY DEF IInv, ClosedOnce, CloseTaken, Ended, AudioIsOfStream, Active, ResultIsHeard
<1>4. /\ flags' \in [Flags -> Streams \cup {None}]
      /\ flags'["connected"] = flags["connected"] /\ flags'["transport_closed"] = None
      /\ flags'["close_requested"] = stream
  BY <1>1, <1>3 DEF Flags
<1>5. /\ Underway' \in {Underway, NoFrame}
      /\ task.at = "sending" => Underway' = Underway
      /\ NoFrame.type = "none"
  BY <1>1, <1>2, FrameShape DEF Underway
<1>6. \A type \in Busy \cup {"CONNECT"} : "CLOSING" \in SentIn(type)
  BY DEF SentIn, Busy
<1>7. <<>> \in Seq(Streams) /\ Len(<<>>) = 0 /\ RingLimit \in Nat
  BY EmptySeq, DeviceAssumption
<1>8. LoopTyped'
  BY <1>1, <1>2 DEF IInv, Typed, LoopTyped, Active, Outcomes
<1>9. AutomationsTyped' /\ ThreadsTyped'
  BY <1>2, AutomationsTypedStays, ThreadsTypedStays DEF IInv, Typed
<1>10. QueuesTyped'
  BY <1>1, <1>2, <1>7, EmptyQueue DEF IInv, Typed, QueuesTyped
<1>11. FlagsTyped'
  BY <1>1, <1>2, <1>4, Zenon DEF IInv, Typed, FlagsTyped
<1>12. OneCommand'
  BY <1>1, <1>2, <1>4, <1>5, <1>6, <1>7 DEF IInv, OneCommand, Busy
<1>13. ServerWorks'
  BY <1>1, <1>2, <1>6 DEF IInv, ServerWorks, Busy
<1>14. OneAnswer'
  BY <1>1, <1>2, <1>5, <1>7
  DEF IInv, Typed, OneAnswer, AnAnswer, AnsweredIn, Busy, Outcomes, Active, QueuesTyped
<1>15. SocketIsOfStream'
  BY <1>1, <1>2, <1>4, <1>5 DEF IInv, SocketIsOfStream
<1>16. HeardIsInOrder'
  BY <1>1, <1>2, <1>5, <1>7
  DEF IInv, HeardIsInOrder, Going, Concluded, Last, Opened, Busy, Outcomes
<1>17. ClosedOnce'
  BY <1>1, <1>2, <1>3, <1>4, <1>5 DEF IInv, ClosedOnce, CloseTaken, Ended
<1>18. AudioIsOfStream'
  BY <1>1, <1>2, <1>3 DEF IInv, AudioIsOfStream, Active
<1>19. ResultIsHeard'
  BY <1>1, <1>2, <1>3, DeviceAssumption DEF IInv, ResultIsHeard, Last, Outcomes
<1> QED
  BY <1>8, <1>9, <1>10, <1>11, <1>12, <1>13, <1>14, <1>15, <1>16, <1>17, <1>18, <1>19
  DEF IInv, Typed

(* An error of Home Assistant is one in whatever state the loop is.        *)
LEMMA ErrorStays ==
  ASSUME NEW CONSTANT e, AnAnswer(e), e.type = "ERROR",
         stream' = stream, server' = server, state' \in Active \cup {"CLOSING", "IDLE"}
  PROVE  AnAnswer(e)'
  BY DEF AnAnswer, AnsweredIn, Outcomes

(* An answer is the one the state waits for, or the last.                  *)
LEMMA HandleResponseStep == IInv /\ HandleResponse => IInv'
<1> SUFFICES ASSUME IInv, HandleResponse PROVE IInv'
  OBVIOUS
<1> DEFINE r == responses[1]
<1>1. /\ ~drained /\ responses # <<>> /\ state \in Active /\ state # "CLOSING" /\ state # "IDLE"
  BY DEF IInv, Typed, ClosedOnce, CloseTaken, Ended, LoopTyped, Active, Outcomes,
         HandleResponse
<1>2. /\ responses \in Seq(Frames) /\ Len(responses) \in Nat /\ 1 <= Len(responses)
      /\ Head(responses) = r /\ r \in Frames
      /\ Tail(responses) \in Seq(Frames)
      /\ Len(Tail(responses)) = Len(responses) - 1
      /\ \A k \in 1 .. Len(responses) - 1 : Tail(responses)[k] = responses[k + 1]
  BY <1>1, Popped DEF IInv, Typed, QueuesTyped
<1>3. /\ AnAnswer(r)
      /\ r.type \in Outcomes \cup {"ERROR"} => Len(responses) = 1 /\ answers = <<>>
  <2>1. 1 \in 1 .. Len(responses)
    BY <1>2
  <2>2. \A k \in 1 .. Len(responses) :
          /\ AnAnswer(responses[k])
          /\ responses[k].type \in Outcomes \cup {"ERROR"} => k = Len(responses) /\ answers = <<>>
    BY DEF IInv, OneAnswer
  <2> QED
    BY <2>1, <2>2, Zenon
<1>4. /\ Underway.type # "CONNECT" /\ socket.status # "connecting" /\ server \notin Busy
      /\ Underway.type \notin Busy => task.at # "sending" /\ commands = <<>>
  BY <1>1 DEF IInv, OneCommand, SocketIsOfStream, ServerWorks
<1>5. UNCHANGED <<stream, purpose, ending, drained, told, automationVars, micVars, transportVars,
                  serverVars>>
  BY DEF HandleResponse
<1>6. CASE r.of = stream /\ Expected(r)
  <2>1. /\ state' = "STREAMING" /\ responses' = Tail(responses)
        /\ UNCHANGED <<terminal, capturing, ring, commands, flags, notified>>
        /\ UNCHANGED <<mic, blocks, task, socket, closing, stopping, server, heard, answers>>
        /\ UNCHANGED <<stream, purpose, ending, drained, told>>
    BY <1>2, <1>5, <1>6 DEF HandleResponse, micVars, transportVars, serverVars
  <2>2. /\ r.type \in {"STARTED", "CHUNK"} /\ r.type \notin Outcomes \cup {"ERROR"}
        /\ state \in {"WAIT_STARTED", "WAIT_CHUNK_ACK"}
    BY <1>6 DEF Expected, Outcomes
  <2>3. /\ Underway.type \notin Busy /\ task.at # "sending" /\ commands = <<>>
        /\ Underway' = Underway
    BY <1>3, <1>4, <2>1, <2>2 DEF AnAnswer, Underway
  <2>4. Going /\ Going'
    BY <1>2, <2>1, <2>2 DEF IInv, HeardIsInOrder, Going, Last
  <2>5. LoopTyped'
    BY <2>1 DEF IInv, Typed, LoopTyped, Active, Outcomes
  <2>6. AutomationsTyped' /\ ThreadsTyped' /\ FlagsTyped'
    BY <1>5, <2>1, AutomationsTypedStays, ThreadsTypedStays, FlagsTypedStays DEF IInv, Typed
  <2>7. QueuesTyped'
    BY <1>2, <2>1 DEF IInv, Typed, QueuesTyped
  <2>8. OneCommand'
    BY <2>1, <2>3, <1>4 DEF IInv, OneCommand
  <2>9. ServerWorks'
    BY <2>1, <1>4 DEF IInv, ServerWorks
  <2>10. OneAnswer'
    <3>1. /\ Len(responses) + Len(answers) <= 2 /\ Len(answers) \in Nat
          /\ Len(responses') = Len(responses) - 1 /\ answers' = answers
      BY <1>2, <2>1, EmptyQueue DEF IInv, Typed, QueuesTyped, OneAnswer
    <3>2. ASSUME NEW k \in 1 .. Len(responses')
          PROVE  /\ AnAnswer(responses[k])'
                 /\ responses'[k].type = "ERROR" /\ k = Len(responses') /\ answers' = <<>>
      <4>1. /\ k + 1 \in 1 .. Len(responses) /\ k + 1 > 1
            /\ k + 1 = Len(responses) => k = Len(responses')
        <5>1. PICK n \in Nat : n = Len(responses)
          BY <1>2
        <5>2. k \in 1 .. n - 1
          BY <3>1, <5>1
        <5> QED
          BY <3>1, <5>1, <5>2
      <4>2. PICK e : e = responses[k + 1]
        OBVIOUS
      <4>3. e = responses'[k]
        BY <1>2, <2>1, <3>1, <4>2
      <4>4. AnAnswer(e) /\ e.type = "ERROR" /\ k + 1 = Len(responses) /\ answers = <<>>
        BY <4>1, <4>2 DEF IInv, OneAnswer
      <4>5. AnAnswer(e)'
        BY <2>1, <4>4, ErrorStays DEF Active
      <4> QED
        BY <3>1, <4>1, <4>3, <4>4, <4>5
    <3>3. ASSUME NEW k \in 1 .. Len(answers')
          PROVE  AnAnswer(answers[k])' /\ answers'[k].type = "ERROR" /\ k = Len(answers')
      <4>1. PICK e : e = answers[k]
        OBVIOUS
      <4>2. AnAnswer(e) /\ e.type = "ERROR" /\ k = Len(answers)
        BY <1>1, <3>1, <4>1 DEF IInv, OneAnswer
      <4>3. AnAnswer(e)'
        BY <2>1, <4>2, ErrorStays DEF Active
      <4> QED
        BY <3>1, <4>1, <4>2, <4>3
    <3>4. answers' # <<>> => socket'.status = "open"
      BY <2>1 DEF IInv, OneAnswer
    <3>5. Len(responses') + Len(answers') <= 2
      BY <1>2, <3>1
    <3> QED
      BY <3>2, <3>3, <3>4, <3>5 DEF OneAnswer
  <2>11. SocketIsOfStream'
    BY <1>1, <1>4, <2>1 DEF IInv, SocketIsOfStream
  <2>12. HeardIsInOrder'
    BY <1>2, <2>1, <2>2, <2>3, <2>4
    DEF IInv, HeardIsInOrder, Going, Concluded, Last, Opened, Busy, Outcomes
  <2>13. ClosedOnce'
    BY <1>1, <2>1 DEF IInv, ClosedOnce, CloseTaken, Ended
  <2>14. AudioIsOfStream'
    BY <1>1, <2>1 DEF IInv, AudioIsOfStream, Active
  <2>15. ResultIsHeard'
    BY <1>1, <2>1 DEF IInv, ResultIsHeard, Last
  <2> QED
    BY <2>5, <2>6, <2>7, <2>8, <2>9, <2>10, <2>11, <2>12, <2>13, <2>14, <2>15
    DEF IInv, Typed
<1>7. CASE ~(r.of = stream /\ Expected(r))
  <2> DEFINE outcome == IF r.of = stream /\ r.type \in Outcomes /\ state = "WAIT_RESULT"
                        THEN r.type ELSE "failed"
  <2>1. Finish(outcome, flags)
    BY <1>2, <1>7 DEF HandleResponse
  <2>2. /\ r.type \in Outcomes \cup {"ERROR"} /\ answers = <<>> /\ server \in Ended
        /\ outcome # "failed" => server = outcome /\ state = "WAIT_RESULT" /\ r.type # "ERROR"
    BY <1>1, <1>3, <1>7 DEF AnAnswer, AnsweredIn, Expected, Outcomes, Ended
  <2>3. ASSUME outcome # "failed"
        PROVE  /\ server = outcome /\ task.at # "sending"
               /\ heard # <<>> /\ Last = Frame("END", stream)
    <3>1. task.at # "sending" /\ server \in Outcomes
      BY <1>3, <1>4, <2>2, <2>3 DEF AnAnswer
    <3>2. heard # <<>> /\ Last.type = "END"
      BY <3>1 DEF IInv, HeardIsInOrder, Concluded
    <3>3. Len(heard) \in 1 .. Len(heard) /\ Last \in Frames
      BY <3>2, EmptyQueue, ElementOfSeq DEF IInv, Typed, QueuesTyped, Last
    <3>4. Last.of = stream
      BY <2>2, <2>3, <3>3 DEF IInv, HeardIsInOrder, Opened, Last
    <3> QED
      BY <2>2, <2>3, <3>1, <3>2, <3>3, <3>4, FrameShape
  <2>4. outcome \in Outcomes /\ flags \in [Flags -> Streams \cup {None}]
    BY DEF IInv, Typed, FlagsTyped, Outcomes
  <2> HIDE DEF outcome
  <2> QED
    BY <1>1, <1>4, <1>5, <2>1, <2>2, <2>3, <2>4, FinishStep
<1> QED
  BY <1>6, <1>7

LEMMA DrainEndsStep == IInv /\ DrainEnds => IInv'
<1> SUFFICES ASSUME IInv, DrainEnds PROVE IInv'
  OBVIOUS
<1>1. /\ drained' = ~drained /\ (state = "CLOSING" => ~drained)
      /\ UNCHANGED <<state, stream, purpose, ending, terminal, told, automationVars, capturing,
                     queueVars, flags, notified, micVars, transportVars, serverVars>>
  BY DEF DrainEnds
<1>2. LoopTyped'
  <2>1. drained' \in BOOLEAN
    BY <1>1, Zenon DEF IInv, Typed, LoopTyped
  <2> QED
    BY <1>1, <2>1 DEF IInv, Typed, LoopTyped
<1>3. ClosedOnce'
  BY <1>1
  DEF IInv, ClosedOnce, CloseTaken, Ended, Underway, transportVars, serverVars, queueVars
<1> QED
  BY <1>1, <1>2, <1>3, AutomationsTypedStays, QueuesTypedStays, FlagsTypedStays,
     ThreadsTypedStays, OneCommandStays, ServerWorksStays, OneAnswerStays,
     SocketIsOfStreamStays, HeardIsInOrderStays, AudioIsOfStreamStays, ResultIsHeardStays
  DEF IInv, Typed, queueVars, micVars, transportVars, serverVars

LEMMA FailsStep == IInv /\ Fails => IInv'
<1> SUFFICES ASSUME IInv, Fails PROVE IInv'
  OBVIOUS
<1>1. PICK f \in Failures : Finish("failed", [flags EXCEPT ![f] = None])
  BY DEF Fails
<1> DEFINE fl == [flags EXCEPT ![f] = None]
<1>2. /\ fl \in [Flags -> Streams \cup {None}]
      /\ fl["connected"] = flags["connected"]
      /\ fl["transport_closed"] = flags["transport_closed"]
  BY DEF IInv, Typed, FlagsTyped, Flags, Failures
<1>3. state \in Active /\ drained /\ "failed" \in Outcomes
  BY DEF Fails, Checking, Outcomes
<1>4. UNCHANGED <<stream, purpose, ending, drained, told, automationVars, micVars, transportVars,
                  serverVars>>
  BY DEF Fails
<1>5. Finish("failed", fl)
  BY <1>1
<1> HIDE DEF fl
<1> QED
  BY <1>2, <1>3, <1>4, <1>5, FinishStep

LEMMA TimesOutStep == IInv /\ TimesOut => IInv'
<1> SUFFICES ASSUME IInv, TimesOut PROVE IInv'
  OBVIOUS
<1>1. flags \in [Flags -> Streams \cup {None}] /\ "failed" \in Outcomes
  BY DEF IInv, Typed, FlagsTyped, Outcomes
<1>2. state \in Active /\ drained /\ Finish("failed", flags)
  BY DEF TimesOut, Checking
<1>3. UNCHANGED <<stream, purpose, ending, drained, told, automationVars, micVars, transportVars,
                  serverVars>>
  BY DEF TimesOut
<1> QED
  BY <1>1, <1>2, <1>3, FinishStep

(* The loop sends a command of the stream, when nothing else is on its     *)
(* way but an error.                                                       *)
LEMMA SendStep ==
  ASSUME IInv, NEW CONSTANT type \in Busy, Queue(Frame(type, stream)),
         state \in {"CONNECTING", "STREAMING"}, state' \in SentIn(type) \ {"CLOSING"},
         Underway = NoFrame, socket.status # "connecting", drained' = FALSE,
         IF type = "START" THEN heard = <<>> ELSE state = "STREAMING",
         LoopTyped', FlagsTyped', AudioIsOfStream', ring' \in Seq(Streams), Len(ring') <= RingLimit,
         flags'["transport_closed"] = flags["transport_closed"],
         flags'["close_requested"] = flags["close_requested"],
         UNCHANGED <<stream, purpose, terminal, told, automationVars, responses, micVars,
                     transportVars, serverVars>>
  PROVE  IInv'
<1>1. /\ UNCHANGED <<stream, purpose, terminal, told, responses>>
      /\ UNCHANGED <<mic, blocks, task, socket, closing, stopping, server, heard, answers>>
  BY DEF micVars, transportVars, serverVars
<1>2. state' \in Opened /\ state' \in SentIn(type) /\ state' \notin {"CLOSING", "IDLE", "CONNECTING"}
      /\ state' \in Active
  BY DEF SentIn, Busy, Opened, Active
<1>3. task.at # "sending" /\ commands = <<>>
  BY FrameShape DEF IInv, OneCommand, Busy
<1>4. stream \in Streams
  BY DEF IInv, AudioIsOfStream
<1>5. PICK f \in Frames : f = Frame(type, stream) /\ f.type = type /\ f.of = stream
  BY <1>4, FrameTyped DEF Types
<1>6. commands' \in Seq(Frames) /\ Len(commands') = 1 /\ commands'[1] = f /\ commands' # <<>>
  BY <1>3, <1>5, EmptyQueue, Pushed DEF Queue
<1>7. Underway' = f
  BY <1>1, <1>3, <1>6 DEF Underway
<1>8. server \notin Busy
  BY DEF IInv, ServerWorks, SentIn, Busy
<1>9. AutomationsTyped' /\ ThreadsTyped'
  BY <1>1, AutomationsTypedStays, ThreadsTypedStays DEF IInv, Typed
<1>10. QueuesTyped'
  BY <1>1, <1>6 DEF IInv, Typed, QueuesTyped
<1>11. OneCommand'
  BY <1>1, <1>2, <1>3, <1>5, <1>6, <1>7, <1>8 DEF OneCommand, Busy
<1>12. ServerWorks'
  BY <1>1, <1>8 DEF IInv, ServerWorks
<1>13. OneAnswer'
  <2>1. ASSUME NEW CONSTANT e, AnAnswer(e)
        PROVE  e.type = "ERROR" /\ AnAnswer(e)'
    <3>1. e.type = "ERROR"
      BY <2>1 DEF AnAnswer, AnsweredIn, Outcomes
    <3> QED
      BY <1>1, <1>2, <2>1, <3>1, ErrorStays
  <2>2. \A e : AnAnswer(e) => e.type = "ERROR" /\ AnAnswer(e)'
    BY <2>1
  <2>3. \A k \in 1 .. Len(responses) :
          /\ AnAnswer(responses[k])'
          /\ responses[k].type = "ERROR" /\ k = Len(responses) /\ answers = <<>>
    BY <1>1, <2>2 DEF IInv, OneAnswer
  <2>4. \A k \in 1 .. Len(answers) :
          AnAnswer(answers[k])' /\ answers[k].type = "ERROR" /\ k = Len(answers)
    BY <1>1, <2>2 DEF IInv, OneAnswer
  <2>5. /\ answers # <<>> => socket.status = "open"
        /\ Len(responses) + Len(answers) <= 2
    BY DEF IInv, OneAnswer
  <2> QED
    BY <1>1, <2>3, <2>4, <2>5 DEF OneAnswer
<1>14. SocketIsOfStream'
  BY <1>1, <1>2 DEF IInv, SocketIsOfStream
<1>15. HeardIsInOrder'
  <2>1. /\ type = "START" => heard = <<>>
        /\ type # "START" => Going
    BY DEF IInv, HeardIsInOrder
  <2>2. \A k \in 1 .. Len(heard) : heard[k].of = stream
    <3>1. CASE type = "START"
      BY <2>1, <3>1, EmptyQueue
    <3>2. CASE type # "START"
      BY <3>2 DEF IInv, HeardIsInOrder, Opened
    <3> QED
      BY <3>1, <3>2
  <2>3. Going' = Going /\ Concluded' = Concluded
    BY <1>1 DEF Going, Concluded, Last
  <2>4. /\ server \in Outcomes => Concluded
        /\ \A k \in 1 .. Len(responses) : responses[k].type \in {"STARTED", "CHUNK"} => Going
        /\ \A k \in 1 .. Len(answers) : answers[k].type \in {"STARTED", "CHUNK"} => Going
        /\ \A k \in 1 .. Len(heard) : /\ heard[k].of = heard[1].of
                                      /\ heard[k].type = "START" <=> k = 1
                                      /\ heard[k].type = "END" => k = Len(heard)
    BY DEF IInv, HeardIsInOrder
  <2>5. /\ Underway'.type = "START" => heard = <<>>
        /\ Underway'.type \in {"CHUNK", "END"} => Going
    BY <1>5, <1>7, <2>1
  <2>6. server \notin {"START", "CHUNK", "END"} /\ state' # "STREAMING"
    BY <1>8 DEF Busy, SentIn
  <2> QED
    BY <1>1, <2>2, <2>3, <2>4, <2>5, <2>6 DEF HeardIsInOrder
<1>16. ClosedOnce'
  BY <1>1, <1>2 DEF IInv, ClosedOnce, CloseTaken, Ended
<1>17. ResultIsHeard'
  BY <1>1, <1>2 DEF IInv, ResultIsHeard, Last
<1> QED
  BY <1>9, <1>10, <1>11, <1>12, <1>13, <1>14, <1>15, <1>16, <1>17 DEF IInv, Typed

LEMMA SendStartStep == IInv /\ SendStart => IInv'
<1> SUFFICES ASSUME IInv, SendStart PROVE IInv'
  OBVIOUS
<1>1. /\ state = "CONNECTING" /\ flags["connected"] # None
      /\ flags' = [flags EXCEPT !["connected"] = None]
      /\ Queue(Frame("START", stream)) /\ state' = "WAIT_STARTED" /\ drained' = FALSE
      /\ UNCHANGED <<stream, purpose, ending, terminal, told, automationVars, capturing, ring,
                     responses, micVars, transportVars, serverVars>>
  BY DEF SendStart
<1>2. Underway = NoFrame /\ heard = <<>> /\ socket.status # "connecting"
  BY <1>1 DEF IInv, SocketIsOfStream
<1>3. /\ FlagsTyped'
      /\ flags'["transport_closed"] = flags["transport_closed"]
      /\ flags'["close_requested"] = flags["close_requested"]
  BY <1>1 DEF IInv, Typed, FlagsTyped, Flags, Queue, transportVars
<1>4. LoopTyped' /\ AudioIsOfStream'
  BY <1>1 DEF IInv, Typed, LoopTyped, Active, Outcomes, AudioIsOfStream, micVars
<1>5. ring' \in Seq(Streams) /\ Len(ring') <= RingLimit
  BY <1>1 DEF IInv, Typed, QueuesTyped
<1>6. "START" \in Busy /\ state' \in SentIn("START") \ {"CLOSING"}
  BY <1>1 DEF Busy, SentIn
<1> QED
  BY <1>1, <1>2, <1>3, <1>4, <1>5, <1>6, SendStep

LEMMA SendChunkStep == IInv /\ SendChunk => IInv'
<1> SUFFICES ASSUME IInv, SendChunk PROVE IInv'
  OBVIOUS
<1>1. /\ state = "STREAMING" /\ ring # <<>> /\ ring' = Tail(ring)
      /\ Queue(Frame("CHUNK", Head(ring))) /\ state' = "WAIT_CHUNK_ACK" /\ drained' = FALSE
      /\ UNCHANGED <<stream, purpose, terminal, told, automationVars, responses, flags, micVars,
                     transportVars, serverVars>>
  BY DEF SendChunk
<1>2. /\ Underway = NoFrame /\ socket.status # "connecting"
  <2>1. task.at # "sending" /\ commands = <<>>
    BY <1>1 DEF IInv, OneCommand, SentIn, Busy
  <2> QED
    BY <1>1, <2>1 DEF IInv, SocketIsOfStream, Underway
<1>3. /\ capturing' \in BOOLEAN /\ ending' \in BOOLEAN
      /\ capturing' => capturing
  BY DEF IInv, Typed, LoopTyped, FlagsTyped, SendChunk
<1>4. /\ ring \in Seq(Streams) /\ Len(ring) \in Nat /\ Len(ring) <= RingLimit /\ RingLimit \in Nat
      /\ 1 \in 1 .. Len(ring) /\ Head(ring) = ring[1]
      /\ ring' \in Seq(Streams) /\ Len(ring') = Len(ring) - 1
      /\ \A k \in 1 .. Len(ring') : ring'[k] = ring[k + 1]
  <2>1. ring \in Seq(Streams) /\ Len(ring) <= RingLimit /\ RingLimit \in Nat
    BY DeviceAssumption DEF IInv, Typed, QueuesTyped
  <2>2. Len(ring) \in Nat \ {0}
    BY <1>1, <2>1, EmptySeq
  <2> QED
    BY <1>1, <2>1, <2>2, HeadTailProperties
<1>5. Len(ring') <= RingLimit
  BY <1>4
<1>6. /\ \A k \in 1 .. Len(ring) : ring[k] = stream
      /\ mic \in {None, stream} /\ stream \in Streams
  BY <1>1 DEF IInv, AudioIsOfStream, Active
<1>7. Head(ring) = stream /\ \A k \in 1 .. Len(ring') : ring'[k] = stream
  <2>1. \A k \in 1 .. Len(ring') : k + 1 \in 1 .. Len(ring)
    BY <1>4
  <2> QED
    BY <1>4, <1>6, <2>1
<1>8. LoopTyped'
  BY <1>1, <1>3 DEF IInv, Typed, LoopTyped, Active, Outcomes
<1>9. FlagsTyped'
  <2>1. notified' = TRUE
    BY <1>1 DEF Queue
  <2> QED
    BY <1>1, <1>3, <2>1, Zenon DEF IInv, Typed, FlagsTyped, transportVars
<1>10. AudioIsOfStream'
  BY <1>1, <1>3, <1>6, <1>7 DEF AudioIsOfStream, Active, micVars
<1>11. "CHUNK" \in Busy /\ state' \in SentIn("CHUNK") \ {"CLOSING"} /\ "CHUNK" # "START"
  BY <1>1 DEF Busy, SentIn
<1> QED
  BY <1>1, <1>2, <1>4, <1>5, <1>7, <1>8, <1>9, <1>10, <1>11, SendStep

LEMMA SendEndStep == IInv /\ SendEnd => IInv'
<1> SUFFICES ASSUME IInv, SendEnd PROVE IInv'
  OBVIOUS
<1>1. /\ state = "STREAMING"
      /\ Queue(Frame("END", stream)) /\ state' = "WAIT_RESULT" /\ drained' = FALSE
      /\ UNCHANGED <<stream, purpose, ending, terminal, told, automationVars, capturing, ring,
                     responses, flags, micVars, transportVars, serverVars>>
  BY DEF SendEnd
<1>2. Underway = NoFrame /\ socket.status # "connecting"
  <2>1. task.at # "sending" /\ commands = <<>>
    BY <1>1 DEF IInv, OneCommand, SentIn, Busy
  <2> QED
    BY <1>1, <2>1 DEF IInv, SocketIsOfStream, Underway
<1>3. FlagsTyped'
  BY <1>1 DEF IInv, Typed, FlagsTyped, Queue, transportVars
<1>4. LoopTyped' /\ AudioIsOfStream'
  BY <1>1 DEF IInv, Typed, LoopTyped, Active, Outcomes, AudioIsOfStream, micVars
<1>5. ring' \in Seq(Streams) /\ Len(ring') <= RingLimit
  BY <1>1 DEF IInv, Typed, QueuesTyped
<1>6. "END" \in Busy /\ state' \in SentIn("END") \ {"CLOSING"} /\ "END" # "START"
  BY <1>1 DEF Busy, SentIn
<1> QED
  BY <1>1, <1>2, <1>3, <1>4, <1>5, <1>6, SendStep

(* The socket of the stream is closed, and nothing of it is left.          *)
LEMMA CompleteFinishStep == IInv /\ CompleteFinish => IInv'
<1> SUFFICES ASSUME IInv, CompleteFinish PROVE IInv'
  OBVIOUS
<1>1. /\ state = "CLOSING" /\ drained /\ flags["transport_closed"] # None
      /\ flags' = [flags EXCEPT !["transport_closed"] = None]
      /\ state' = "IDLE" /\ drained' = FALSE /\ terminal' = "failed"
      /\ UNCHANGED <<stream, purpose, ending, assist, pressed, presses, capturing, notified>>
      /\ UNCHANGED <<ring, commands, responses>>
      /\ UNCHANGED <<mic, blocks, task, socket, closing, stopping, server, heard, answers>>
  BY DEF CompleteFinish, queueVars, micVars, transportVars, serverVars
<1>2. \/ purpose = "capture" /\ told' = terminal /\ wakeWord' = TRUE
      \/ purpose = "identification" /\ UNCHANGED <<told, wakeWord>>
  BY DEF CompleteFinish, Callback
<1>3. /\ socket = NoSocket /\ socket.status = "none" /\ task.at # "sending" /\ ~CloseTaken
      /\ flags["close_requested"] = None /\ stream \in Streams /\ commands = <<>>
      /\ told = None /\ answers = <<>>
  BY <1>1
  DEF IInv, ClosedOnce, AudioIsOfStream, OneCommand, ResultIsHeard, OneAnswer, NoSocket
<1>4. /\ flags' \in [Flags -> Streams \cup {None}]
      /\ flags'["connected"] = flags["connected"]
      /\ flags'["transport_closed"] = None /\ flags'["close_requested"] = None
  BY <1>1, <1>3 DEF IInv, Typed, FlagsTyped, Flags
<1>5. LoopTyped'
  BY <1>1, <1>2, Zenon DEF IInv, Typed, LoopTyped, Active, Outcomes
<1>6. AutomationsTyped'
  <2>1. wakeWord' \in BOOLEAN
    BY <1>2, Zenon DEF IInv, Typed, AutomationsTyped
  <2> QED
    BY <1>1, <2>1 DEF IInv, Typed, AutomationsTyped
<1>7. QueuesTyped' /\ ThreadsTyped'
  BY <1>1, QueuesTypedStays, ThreadsTypedStays DEF IInv, Typed
<1>8. FlagsTyped'
  BY <1>1, <1>4, Zenon DEF IInv, Typed, FlagsTyped
<1>9. Underway' = Underway
  BY <1>1 DEF Underway
<1>10. OneCommand'
  BY <1>1, <1>3, <1>4, <1>9 DEF IInv, OneCommand
<1>11. ServerWorks'
  BY <1>1, <1>3 DEF IInv, ServerWorks, Busy
<1>12. OneAnswer'
  BY <1>1, <1>3, <1>9 DEF IInv, OneAnswer, AnAnswer, AnsweredIn, Busy, Outcomes, Active
<1>13. SocketIsOfStream'
  BY <1>1, <1>3, <1>9 DEF IInv, SocketIsOfStream, NoSocket
<1>14. HeardIsInOrder'
  BY <1>1, <1>3, <1>9
  DEF IInv, HeardIsInOrder, Going, Concluded, Last, Opened, Busy, Outcomes
<1>15. ClosedOnce'
  BY <1>1, <1>3, <1>4 DEF ClosedOnce, CloseTaken, Ended
<1>16. AudioIsOfStream'
  BY <1>1 DEF IInv, AudioIsOfStream, Active
<1>17. ResultIsHeard'
  <2>1. stream > 0 /\ terminal \in Outcomes /\ None \notin Outcomes /\ purpose \in {"identification", "capture"}
    BY <1>3, DeviceAssumption DEF IInv, Typed, LoopTyped, Active, Outcomes, Streams
  <2> QED
    BY <1>1, <1>2, <1>3, <2>1 DEF IInv, ResultIsHeard, Last, Outcomes
<1> QED
  BY <1>5, <1>6, <1>7, <1>8, <1>10, <1>11, <1>12, <1>13, <1>14, <1>15, <1>16, <1>17
  DEF IInv, Typed

LEMMA ShutdownStep == IInv /\ Shutdown => IInv'
<1> SUFFICES ASSUME IInv, Shutdown PROVE IInv'
  OBVIOUS
<1>1. /\ stopping' = TRUE /\ capturing' = FALSE /\ notified' = TRUE
      /\ UNCHANGED loopVars /\ UNCHANGED automationVars
      /\ UNCHANGED <<state, stream, drained, ring, commands, responses, flags>>
      /\ UNCHANGED <<mic, blocks, task, socket, closing, server, heard, answers>>
  BY DEF Shutdown, loopVars, queueVars, micVars, serverVars
<1>2. FlagsTyped'
  BY <1>1, Zenon DEF IInv, Typed, FlagsTyped
<1>3. AudioIsOfStream'
  BY <1>1 DEF IInv, AudioIsOfStream
<1> QED
  BY <1>1, <1>2, <1>3, LoopTypedStays, AutomationsTypedStays, QueuesTypedStays,
     ThreadsTypedStays, OneCommandStays, ServerWorksStays, OneAnswerStays,
     SocketIsOfStreamStays, HeardIsInOrderStays, ClosedOnceStays, ResultIsHeardStays
  DEF IInv, Typed, loopVars

-----------------------------------------------------------------------------
(* The microphone.                                                         *)
LEMMA MicrophoneReadsStep == IInv /\ MicrophoneReads => IInv'
<1> SUFFICES ASSUME IInv, MicrophoneReads PROVE IInv'
  OBVIOUS
<1>1. /\ capturing /\ mic = None /\ blocks < MaxBlocks /\ mic' = stream /\ blocks' = blocks + 1
      /\ UNCHANGED loopVars /\ UNCHANGED automationVars
      /\ UNCHANGED <<state, stream, drained, ring, commands, responses, flags, capturing, notified>>
      /\ UNCHANGED <<task, socket, closing, stopping, server, heard, answers>>
  BY DEF MicrophoneReads, loopVars, queueVars, transportVars, serverVars
<1>2. stream \in Streams
  BY <1>1 DEF IInv, AudioIsOfStream, Active
<1>3. ThreadsTyped'
  <2>1. blocks' \in 0 .. MaxBlocks
    BY <1>1, DeviceAssumption DEF IInv, Typed, ThreadsTyped
  <2> QED
    BY <1>1, <1>2, <2>1 DEF IInv, Typed, ThreadsTyped
<1>4. AudioIsOfStream'
  BY <1>1, <1>2 DEF IInv, AudioIsOfStream, Active
<1> QED
  BY <1>1, <1>3, <1>4, LoopTypedStays, AutomationsTypedStays, QueuesTypedStays,
     FlagsTypedStays, OneCommandStays, ServerWorksStays, OneAnswerStays,
     SocketIsOfStreamStays, HeardIsInOrderStays, ClosedOnceStays, ResultIsHeardStays
  DEF IInv, Typed, loopVars

(* A block of a stream still at work is of that stream: the loop does not  *)
(* start another in the middle of a callback.                              *)
LEMMA MicrophoneWritesStep == IInv /\ MicrophoneWrites => IInv'
<1> SUFFICES ASSUME IInv, MicrophoneWrites PROVE IInv'
  OBVIOUS
<1>1. /\ mic # None /\ mic' = None
      /\ UNCHANGED loopVars /\ UNCHANGED automationVars
      /\ UNCHANGED <<state, stream, drained, commands, responses, capturing, notified, blocks>>
      /\ UNCHANGED <<task, socket, closing, stopping, server, heard, answers>>
  BY DEF MicrophoneWrites, loopVars, transportVars, serverVars
<1>2. \/ Len(ring) < RingLimit /\ ring' = Append(ring, mic) /\ UNCHANGED flags
      \/ flags' = [flags EXCEPT !["overflow"] = mic] /\ UNCHANGED ring
  BY DEF MicrophoneWrites
<1>3. mic \in Streams /\ ring \in Seq(Streams) /\ Len(ring) \in Nat /\ RingLimit \in Nat
  BY <1>1, DeviceAssumption, EmptySeq DEF IInv, Typed, ThreadsTyped, QueuesTyped
<1>4. /\ flags' \in [Flags -> Streams \cup {None}]
      /\ flags'["connected"] = flags["connected"]
      /\ flags'["transport_closed"] = flags["transport_closed"]
      /\ flags'["close_requested"] = flags["close_requested"]
  BY <1>2, <1>3 DEF IInv, Typed, FlagsTyped, Flags
<1>5. QueuesTyped'
  <2>1. ring' \in Seq(Streams) /\ Len(ring') <= RingLimit
    <3>1. CASE UNCHANGED ring
      BY <3>1 DEF IInv, Typed, QueuesTyped
    <3>2. CASE Len(ring) < RingLimit /\ ring' = Append(ring, mic)
      <4>1. Len(ring') = Len(ring) + 1 /\ ring' \in Seq(Streams)
        BY <1>3, <3>2, AppendProperties
      <4>2. PICK n \in Nat : n = Len(ring)
        BY <1>3
      <4> QED
        BY <1>3, <3>2, <4>1, <4>2
    <3> QED
      BY <1>2, <3>1, <3>2
  <2> QED
    BY <1>1, <2>1 DEF IInv, Typed, QueuesTyped
<1>6. FlagsTyped'
  BY <1>1, <1>4, Zenon DEF IInv, Typed, FlagsTyped
<1>7. ThreadsTyped'
  BY <1>1 DEF IInv, Typed, ThreadsTyped
<1>8. AudioIsOfStream'
  <2>1. CASE UNCHANGED ring
    BY <1>1, <2>1 DEF IInv, AudioIsOfStream, Active
  <2>2. CASE ring' = Append(ring, mic)
    <3>1. \A k \in 1 .. Len(ring') : \/ k \in 1 .. Len(ring) /\ ring'[k] = ring[k]
                                     \/ ring'[k] = mic
      BY <1>3, <2>2, AppendProperties
    <3> QED
      BY <1>1, <3>1 DEF IInv, AudioIsOfStream, Active
  <2> QED
    BY <1>2, <2>1, <2>2
<1> QED
  BY <1>1, <1>4, <1>5, <1>6, <1>7, <1>8, LoopTypedStays, AutomationsTypedStays,
     OneCommandStays, ServerWorksStays, OneAnswerStays, SocketIsOfStreamStays,
     HeardIsInOrderStays, ClosedOnceStays, ResultIsHeardStays
  DEF IInv, Typed, loopVars

-----------------------------------------------------------------------------
(* The transport task.                                                     *)
LEMMA TaskWakesStep == IInv /\ TaskWakes => IInv'
<1> SUFFICES ASSUME IInv, TaskWakes PROVE IInv'
  OBVIOUS
<1>1. /\ task.at = "waiting" /\ notified' = FALSE
      /\ UNCHANGED loopVars /\ UNCHANGED automationVars
      /\ UNCHANGED <<state, stream, drained, ring, capturing, responses, stopping, mic, blocks>>
      /\ UNCHANGED <<commands, socket, server, heard, answers>>
  BY DEF TaskWakes, otherVars, loopVars, automationVars, queueVars, micVars, transportVars,
         serverVars
<1>2. PICK c \in Frames :
        /\ task' \in [at : {"closing", "draining"}, frame : Frames] /\ task'.frame = c
        /\ closing' \in {socket # NoSocket, closing}
        /\ c.type = "CLOSE" /\ task'.at = "closing" => flags["close_requested"] # None
                                                      /\ flags'["close_requested"] = None
        /\ flags' \in {flags, [flags EXCEPT !["close_requested"] = None]}
  <2>1. /\ NoFrame \in Frames
        /\ Frame("STOP", None) \in Frames /\ Frame("STOP", None).type = "STOP"
        /\ Frame("CLOSE", flags["close_requested"]) \in Frames
    BY FrameShape, FrameTyped DEF IInv, Typed, FlagsTyped, Flags, Types
  <2>2. CASE Close(Frame("STOP", None)) /\ UNCHANGED flags
    <3> WITNESS Frame("STOP", None) \in Frames
    <3> QED
      BY <2>1, <2>2 DEF Close
  <2>3. CASE /\ flags["close_requested"] # None /\ Close(Frame("CLOSE", flags["close_requested"]))
             /\ flags' = [flags EXCEPT !["close_requested"] = None]
    <3> WITNESS Frame("CLOSE", flags["close_requested"]) \in Frames
    <3> QED
      BY <2>1, <2>3 DEF Close, IInv, Typed, FlagsTyped, Flags
  <2>4. CASE task' = [at |-> "draining", frame |-> NoFrame] /\ UNCHANGED <<flags, closing>>
    <3> WITNESS NoFrame \in Frames
    <3> QED
      BY <2>1, <2>4
  <2> QED
    BY <2>2, <2>3, <2>4 DEF TaskWakes
<1>3. /\ flags' \in [Flags -> Streams \cup {None}]
      /\ flags'["connected"] = flags["connected"]
      /\ flags'["transport_closed"] = flags["transport_closed"]
      /\ flags'["close_requested"] \in {flags["close_requested"], None}
  BY <1>2 DEF IInv, Typed, FlagsTyped, Flags
<1>4. task'.at \in {"closing", "draining"}
  BY <1>2
<1>5. Underway' = Underway
  BY <1>1, <1>4 DEF Underway
<1>6. FlagsTyped'
  BY <1>1, <1>2, <1>3, Zenon DEF IInv, Typed, FlagsTyped
<1>7. ThreadsTyped'
  BY <1>1, <1>2 DEF IInv, Typed, ThreadsTyped
<1>8. OneCommand'
  BY <1>1, <1>3, <1>4, <1>5 DEF IInv, OneCommand
<1>9. OneAnswer' /\ SocketIsOfStream' /\ HeardIsInOrder'
  BY <1>1, <1>3, <1>5, CommandMoves DEF IInv
<1>10. ClosedOnce'
  BY <1>1, <1>2, <1>3, <1>4, <1>5 DEF IInv, ClosedOnce, CloseTaken
<1>11. ResultIsHeard'
  BY <1>1, <1>4 DEF IInv, ResultIsHeard, Last, loopVars
<1> QED
  BY <1>1, <1>6, <1>7, <1>8, <1>9, <1>10, <1>11, LoopTypedStays, AutomationsTypedStays,
     QueuesTypedStays, ServerWorksStays, AudioIsOfStreamStays
  DEF IInv, Typed

LEMMA TaskTakesStep == IInv /\ TaskTakes => IInv'
<1> SUFFICES ASSUME IInv, TaskTakes PROVE IInv'
  OBVIOUS
<1>1. /\ task.at = "draining"
      /\ UNCHANGED loopVars /\ UNCHANGED automationVars
      /\ UNCHANGED <<state, stream, drained, ring, capturing, responses, stopping, mic, blocks>>
      /\ UNCHANGED <<terminal, told, purpose, flags, notified, socket, closing, server, heard, answers>>
  BY DEF TaskTakes, otherVars, loopVars, automationVars, queueVars, micVars, transportVars,
         serverVars
<1>2. CASE commands # <<>> /\ task' = [at |-> "sending", frame |-> Head(commands)]
           /\ commands' = Tail(commands)
  <2>1. /\ commands \in Seq(Frames) /\ Len(commands) \in Nat /\ 1 <= Len(commands)
        /\ Len(commands) <= 1 /\ Head(commands) = commands[1] /\ commands[1] \in Frames
        /\ Tail(commands) \in Seq(Frames) /\ (Tail(commands) = <<>> <=> Len(commands) = 1)
    BY <1>2, Popped DEF IInv, Typed, OneCommand, QueuesTyped
  <2>2. commands' = <<>> /\ task'.at = "sending" /\ task'.frame = commands[1]
    <3>1. Len(commands) = 1
      BY <2>1
    <3> QED
      BY <1>2, <2>1, <3>1, Zenon
  <2>3. Underway' = Underway /\ Underway = commands[1]
    BY <1>1, <1>2, <2>2 DEF Underway
  <2>4. state \notin {"CLOSING", "IDLE"}
    BY <1>2 DEF IInv, OneCommand
  <2>5. QueuesTyped' /\ ThreadsTyped'
    BY <1>1, <1>2, <2>1 DEF IInv, Typed, QueuesTyped, ThreadsTyped
  <2>6. OneCommand'
    BY <1>1, <1>2, <2>2, <2>3, EmptyQueue DEF IInv, OneCommand
  <2>7. OneAnswer' /\ SocketIsOfStream' /\ HeardIsInOrder'
    BY <1>1, <2>3, CommandMoves DEF IInv
  <2>8. ClosedOnce'
    BY <1>1, <2>2, <2>3, <2>4 DEF IInv, ClosedOnce, CloseTaken
  <2>9. ResultIsHeard'
    BY <1>1, <2>2, <2>4 DEF IInv, ResultIsHeard, Last
  <2> QED
    BY <1>1, <2>5, <2>6, <2>7, <2>8, <2>9, LoopTypedStays, AutomationsTypedStays,
       FlagsTypedStays, ServerWorksStays, AudioIsOfStreamStays
    DEF IInv, Typed
<1>3. CASE task' = [at |-> "waiting", frame |-> NoFrame] /\ UNCHANGED commands
  <2>1. task'.at = "waiting" /\ Underway' = Underway
    BY <1>1, <1>3 DEF Underway
  <2>2. QueuesTyped' /\ ThreadsTyped'
    BY <1>1, <1>3, FrameShape DEF IInv, Typed, QueuesTyped, ThreadsTyped
  <2>3. OneCommand'
    BY <1>1, <1>3, <2>1 DEF IInv, OneCommand
  <2>4. OneAnswer' /\ SocketIsOfStream' /\ HeardIsInOrder'
    BY <1>1, <2>1, CommandMoves DEF IInv
  <2>5. ClosedOnce'
    BY <1>1, <2>1 DEF IInv, ClosedOnce, CloseTaken
  <2>6. ResultIsHeard'
    BY <1>1, <2>1 DEF IInv, ResultIsHeard, Last
  <2> QED
    BY <1>1, <2>2, <2>3, <2>4, <2>5, <2>6, LoopTypedStays, AutomationsTypedStays,
       FlagsTypedStays, ServerWorksStays, AudioIsOfStreamStays
    DEF IInv, Typed
<1> QED
  BY <1>2, <1>3 DEF TaskTakes

(* A command that is not sent is gone, and the socket is to be closed.     *)
LEMMA TaskFailsStep == IInv /\ TaskFails => IInv'
<1> SUFFICES ASSUME IInv, TaskFails PROVE IInv'
  OBVIOUS
<1>1. /\ task.at = "sending"
      /\ flags' = [flags EXCEPT !["send_failed"] = task.frame.of]
      /\ task' = [at |-> "closing", frame |-> NoFrame]
      /\ closing' = (socket # NoSocket)
      /\ UNCHANGED loopVars /\ UNCHANGED automationVars
      /\ UNCHANGED <<state, stream, drained, ring, capturing, responses, stopping, mic, blocks>>
      /\ UNCHANGED <<terminal, told, purpose, commands, notified, socket, server, heard, answers>>
  BY DEF TaskFails, Close, otherVars, loopVars, automationVars, queueVars, micVars,
         transportVars, serverVars
<1>2. commands = <<>> /\ task.frame \in Frames
  BY <1>1 DEF IInv, Typed, ThreadsTyped, OneCommand
<1>3. task'.at = "closing" /\ task'.frame.type = "none" /\ Underway' = NoFrame
  BY <1>1, <1>2, FrameShape DEF Underway
<1>4. /\ flags' \in [Flags -> Streams \cup {None}]
      /\ flags'["connected"] = flags["connected"]
      /\ flags'["transport_closed"] = flags["transport_closed"]
      /\ flags'["close_requested"] = flags["close_requested"]
  BY <1>1, <1>2, FrameShape DEF IInv, Typed, FlagsTyped, Flags
<1>5. FlagsTyped'
  BY <1>1, <1>4, Zenon DEF IInv, Typed, FlagsTyped
<1>6. ThreadsTyped'
  BY <1>1, FrameShape DEF IInv, Typed, ThreadsTyped
<1>7. OneCommand'
  BY <1>1, <1>2, <1>3, FrameShape DEF IInv, OneCommand, Busy
<1>8. OneAnswer' /\ SocketIsOfStream' /\ HeardIsInOrder'
  BY <1>1, <1>3, <1>4, CommandMoves DEF IInv
<1>9. ClosedOnce'
  BY <1>1, <1>3, <1>4, FrameShape DEF IInv, ClosedOnce, CloseTaken
<1>10. ResultIsHeard'
  BY <1>1, <1>3 DEF IInv, ResultIsHeard, Last
<1> QED
  BY <1>1, <1>5, <1>6, <1>7, <1>8, <1>9, <1>10, LoopTypedStays, AutomationsTypedStays,
     QueuesTypedStays, ServerWorksStays, AudioIsOfStreamStays
  DEF IInv, Typed

(* The command is heard, or it opens the socket.                           *)
LEMMA TaskSendsStep == IInv /\ TaskSends => IInv'
<1> SUFFICES ASSUME IInv, TaskSends PROVE IInv'
  OBVIOUS
<1> DEFINE c == task.frame
<1>1. /\ task.at = "sending" /\ task' = [at |-> "draining", frame |-> NoFrame]
      /\ UNCHANGED loopVars /\ UNCHANGED automationVars
      /\ UNCHANGED <<state, stream, drained, ring, capturing, responses, stopping, mic, blocks>>
      /\ UNCHANGED <<terminal, told, purpose, commands, flags, notified, closing, answers>>
  BY DEF TaskSends, otherVars, loopVars, automationVars, queueVars, micVars, transportVars,
         serverVars
<1>2. /\ commands = <<>> /\ c \in Frames /\ Underway = c
      /\ c.type \in Busy \cup {"CONNECT"} /\ c.of = stream /\ state \in SentIn(c.type)
      /\ state # "IDLE" /\ stream \in Streams
  BY <1>1 DEF IInv, Typed, ThreadsTyped, OneCommand, Underway, ClosedOnce, AudioIsOfStream
<1>3. /\ task'.at = "draining" /\ task'.frame.type = "none" /\ Underway' = NoFrame
      /\ NoFrame.type = "none" /\ NoFrame \in Frames
  BY <1>1, <1>2, FrameShape DEF Underway
<1>4. /\ ~CloseTaken /\ ~CloseTaken' /\ flags["transport_closed"] = None
      /\ terminal = "failed" /\ told = None
  BY <1>1, <1>2, <1>3 DEF IInv, ClosedOnce, CloseTaken, ResultIsHeard
<1>5. FlagsTyped'
  BY <1>1 DEF IInv, Typed, FlagsTyped
<1>6. OneCommand'
  BY <1>1, <1>2, <1>3, EmptyQueue DEF OneCommand, Busy
<1>7. ResultIsHeard'
  BY <1>1, <1>2, <1>4, DeviceAssumption DEF ResultIsHeard
<1> HIDE DEF c
<1>8. CASE c.type = "CONNECT"
  <2>1. socket' = [of |-> stream, status |-> "connecting"] /\ server' = "none" /\ heard' = <<>>
    BY <1>2, <1>8 DEF TaskSends, c
  <2>2. /\ socket = NoSocket /\ responses = <<>> /\ flags["connected"] = None /\ answers = <<>>
        /\ state \in {"CONNECTING", "CLOSING"}
    BY <1>2, <1>8 DEF IInv, OneCommand, OneAnswer, NoSocket, SentIn
  <2>3. socket'.status = "connecting" /\ socket'.of = stream /\ socket' \in Sockets
    BY <1>2, <2>1 DEF Sockets
  <2>4. QueuesTyped'
    BY <1>1, <2>1, EmptyQueue DEF IInv, Typed, QueuesTyped
  <2>5. ThreadsTyped'
    BY <1>1, <1>3, <2>1, <2>3 DEF IInv, Typed, ThreadsTyped
  <2>6. ServerWorks'
    BY <2>1, <2>3 DEF ServerWorks, Busy
  <2>7. OneAnswer'
    BY <1>1, <2>2, EmptyQueue DEF OneAnswer
  <2>8. SocketIsOfStream'
    BY <1>1, <1>2, <1>3, <2>1, <2>2, <2>3 DEF SocketIsOfStream
  <2>9. HeardIsInOrder'
    BY <1>1, <1>3, <2>1, <2>2, EmptyQueue DEF HeardIsInOrder, Outcomes
  <2>10. ClosedOnce'
    BY <1>1, <1>2, <1>3, <1>4, <1>8, <2>2 DEF IInv, ClosedOnce
  <2> QED
    BY <1>1, <1>5, <1>6, <1>7, <2>4, <2>5, <2>6, <2>7, <2>8, <2>9, <2>10, LoopTypedStays,
       AutomationsTypedStays, AudioIsOfStreamStays
    DEF IInv, Typed
<1>9. CASE c.type # "CONNECT"
  <2>1. /\ socket.status = "open" /\ heard' = Append(heard, c) /\ UNCHANGED socket
        /\ server' = IF server = "idle" THEN c.type ELSE server
    BY <1>9 DEF TaskSends, c
  <2>2. /\ c.type \in Busy /\ server \notin Busy /\ server # "none" /\ socket # NoSocket
        /\ state \notin {"CONNECTING", "STREAMING", "IDLE"}
    BY <1>2, <1>9, <2>1 DEF IInv, OneCommand, ServerWorks, NoSocket, SentIn, Busy
  <2>3. /\ c.type = "START" => heard = <<>>
        /\ c.type # "START" => Going
        /\ server \notin Outcomes
    BY <1>2, <2>2 DEF IInv, HeardIsInOrder, Going, Concluded, Busy
  <2>4. ASSUME NEW CONSTANT e, AnAnswer(e)
        PROVE  e.type = "ERROR" /\ server = "over" /\ AnAnswer(e)'
    <3>1. e.type = "ERROR" /\ server = "over" /\ server' = server
      BY <1>2, <2>1, <2>2, <2>4 DEF AnAnswer
    <3>2. state' \in Active \cup {"CLOSING", "IDLE"}
      BY <1>1 DEF IInv, Typed, LoopTyped
    <3> QED
      BY <1>1, <2>4, <3>1, <3>2, ErrorStays
  <2>5. \A e : AnAnswer(e) => e.type = "ERROR" /\ server = "over" /\ AnAnswer(e)'
    BY <2>4
  <2>6. /\ \A k \in 1 .. Len(responses) : responses[k].type = "ERROR" /\ server = "over"
        /\ \A k \in 1 .. Len(answers) : answers[k].type = "ERROR" /\ server = "over"
    BY <2>5 DEF IInv, OneAnswer
  <2>7. server = "idle" => responses = <<>> /\ answers = <<>>
    <3>1. ASSUME NEW q \in Seq(Frames), q # <<>>
          PROVE  1 \in 1 .. Len(q)
      BY <3>1, EmptyQueue
    <3> QED
      BY <2>6, <3>1 DEF IInv, Typed, QueuesTyped
  <2>8. /\ heard \in Seq(Frames) /\ Len(heard) \in Nat /\ heard' \in Seq(Frames) /\ heard' # <<>>
        /\ Len(heard') = Len(heard) + 1 /\ heard'[Len(heard) + 1] = c
        /\ \A k \in 1 .. Len(heard) : heard'[k] = heard[k]
        /\ heard = <<>> <=> Len(heard) = 0
    BY <1>2, <2>1, Pushed, EmptyQueue DEF IInv, Typed, QueuesTyped
  <2>9. QueuesTyped'
    BY <1>1, <2>8 DEF IInv, Typed, QueuesTyped
  <2>10. ThreadsTyped'
    BY <1>1, <1>3, <2>1, <2>2 DEF IInv, Typed, ThreadsTyped
  <2>11. ServerWorks'
    <3>1. server' \in Busy => server = "idle" /\ server' = c.type
      BY <2>1, <2>2
    <3>2. server' # "none" /\ socket'.status = "open"
      BY <2>1, <2>2 DEF Busy
    <3>3. server' \in Busy => /\ responses' = <<>> /\ answers' = <<>>
                             /\ state' \in SentIn(server')
      BY <1>1, <1>2, <2>7, <3>1
    <3> QED
      BY <3>2, <3>3 DEF ServerWorks
  <2>12. OneAnswer'
    <3>1. \A k \in 1 .. Len(responses) : AnAnswer(responses[k])'
      BY <1>1, <2>5 DEF IInv, OneAnswer
    <3>2. \A k \in 1 .. Len(answers) : AnAnswer(answers[k])'
      BY <1>1, <2>5 DEF IInv, OneAnswer
    <3> QED
      BY <1>1, <2>1, <3>1, <3>2 DEF IInv, OneAnswer
  <2>13. SocketIsOfStream'
    BY <1>1, <1>2, <2>1, <2>2 DEF IInv, SocketIsOfStream
  <2>14. HeardIsInOrder'
    <3>1. Last' = c
      BY <2>8 DEF Last
    <3>2. \A k \in 1 .. Len(heard') : k \in 1 .. Len(heard) \/ k = Len(heard) + 1
      BY <2>8
    <3>3. \A k \in 1 .. Len(heard) : /\ heard[k].of = stream
                                     /\ heard[k].type = "START" <=> k = 1
                                     /\ heard[k].type # "END"
      <4>1. \A k \in 1 .. Len(heard) : /\ heard[k].of = stream
                                       /\ heard[k].type = "START" <=> k = 1
                                       /\ heard[k].type = "END" => k = Len(heard)
        BY <2>2 DEF IInv, HeardIsInOrder
      <4> QED
        BY <2>3, <2>8, <4>1 DEF Going, Last
    <3>4. c.type = "START" <=> Len(heard) + 1 = 1
      BY <2>3, <2>8 DEF Going
    <3>5. \A k \in 1 .. Len(heard') : /\ heard'[k].of = stream
                                      /\ heard'[k].type = "START" <=> k = 1
                                      /\ heard'[k].type = "END" => k = Len(heard')
      <4>1. ASSUME NEW k \in 1 .. Len(heard'), k \in 1 .. Len(heard)
            PROVE  /\ heard'[k].of = stream
                   /\ heard'[k].type = "START" <=> k = 1
                   /\ heard'[k].type # "END"
        BY <2>8, <3>3, <4>1
      <4>2. ASSUME NEW k \in 1 .. Len(heard'), k = Len(heard) + 1
            PROVE  /\ heard'[k].of = stream
                   /\ heard'[k].type = "START" <=> k = 1
                   /\ k = Len(heard')
        BY <1>2, <2>8, <3>4, <4>2
      <4> QED
        BY <3>2, <4>1, <4>2
    <3>6. 1 \in 1 .. Len(heard')
      BY <2>8
    <3>7. /\ server' \in {"START", "CHUNK"} => Going'
          /\ server' = "END" => Concluded'
          /\ server' \notin Outcomes
      BY <2>1, <2>2, <2>3, <2>8, <3>1 DEF Going, Concluded, Busy, Outcomes
    <3>8. state' # "STREAMING"
      BY <1>1, <2>2
    <3>9. /\ \A k \in 1 .. Len(responses') : responses'[k].type \notin {"STARTED", "CHUNK"}
          /\ \A k \in 1 .. Len(answers') : answers'[k].type \notin {"STARTED", "CHUNK"}
      BY <1>1, <2>6
    <3> QED
      BY <1>1, <1>3, <3>5, <3>6, <3>7, <3>8, <3>9 DEF HeardIsInOrder
  <2>15. ClosedOnce'
    BY <1>1, <1>2, <1>3, <1>4, <2>1, <2>2 DEF IInv, ClosedOnce, Ended, Busy, Outcomes
  <2> QED
    BY <1>1, <1>5, <1>6, <1>7, <2>9, <2>10, <2>11, <2>12, <2>13, <2>14, <2>15,
       LoopTypedStays, AutomationsTypedStays, AudioIsOfStreamStays
    DEF IInv, Typed
<1> QED
  BY <1>8, <1>9

(* The socket is closed, and its answers are lost.                         *)
LEMMA TaskClosesStep == IInv /\ TaskCloses => IInv'
<1> SUFFICES ASSUME IInv, TaskCloses PROVE IInv'
  OBVIOUS
<1>1. /\ task.at = "closing" /\ socket' = NoSocket /\ closing' = FALSE /\ answers' = <<>>
      /\ task' = [at |-> IF task.frame.type = "STOP" THEN "stopped" ELSE "waiting",
                  frame |-> NoFrame]
      /\ UNCHANGED loopVars /\ UNCHANGED automationVars
      /\ UNCHANGED <<state, stream, drained, ring, capturing, responses, stopping, mic, blocks>>
      /\ UNCHANGED <<terminal, told, purpose, commands, notified, heard>>
  BY DEF TaskCloses, otherVars, loopVars, automationVars, queueVars, micVars, transportVars,
         serverVars
<1>2. /\ server' \in {server, "over"}
      /\ socket = NoSocket \/ server \in Outcomes \cup {"over"} => server' = server
      /\ socket # NoSocket => server' \in Outcomes \cup {"over"}
  BY DEF TaskCloses, HangsUp
<1>3. flags' = IF task.frame.type = "CLOSE"
               THEN [flags EXCEPT !["transport_closed"] = task.frame.of] ELSE flags
  BY DEF TaskCloses
<1>4. /\ task.frame \in Frames /\ NoFrame \in Frames
      /\ task'.at \in {"stopped", "waiting"} /\ Underway' = Underway
      /\ socket'.status = "none"
  BY <1>1, FrameShape DEF IInv, Typed, ThreadsTyped, Underway, NoSocket
<1>5. /\ flags' \in [Flags -> Streams \cup {None}]
      /\ flags'["connected"] = flags["connected"]
      /\ flags'["close_requested"] = flags["close_requested"]
      /\ ~CloseTaken => flags'["transport_closed"] = flags["transport_closed"]
  BY <1>1, <1>3, <1>4, FrameShape DEF IInv, Typed, FlagsTyped, Flags, CloseTaken
<1>6. FlagsTyped'
  BY <1>1, <1>5, Zenon DEF IInv, Typed, FlagsTyped
<1>7. ThreadsTyped'
  BY <1>1, <1>2, <1>4 DEF IInv, Typed, ThreadsTyped, Ended
<1>8. QueuesTyped'
  BY <1>1, EmptyQueue DEF IInv, Typed, QueuesTyped
<1>9. server' \in Busy \cup {"idle", "none"} => server' = server /\ socket = NoSocket
  BY <1>2 DEF Busy, Outcomes
<1>10. server \notin Busy \cup {"idle"} \/ socket # NoSocket
  BY DEF IInv, ServerWorks, NoSocket
<1>11. OneCommand'
  BY <1>1, <1>4, <1>5, <1>9, <1>10 DEF IInv, OneCommand
<1>12. ServerWorks'
  BY <1>4, <1>9, <1>10 DEF ServerWorks
<1>13. OneAnswer'
  <2>1. ASSUME NEW CONSTANT e, AnAnswer(e)
        PROVE  AnAnswer(e)'
    BY <1>1, <1>2, <1>4, <2>1 DEF AnAnswer
  <2>2. \A e : AnAnswer(e) => AnAnswer(e)'
    BY <2>1
  <2>3. \A k \in 1 .. Len(responses) : AnAnswer(responses[k])'
    BY <1>1, <2>2 DEF IInv, OneAnswer
  <2>4. Len(responses) <= 2 /\ Len(answers') = 0 /\ Len(responses) \in Nat
    BY <1>1, EmptyQueue DEF IInv, Typed, QueuesTyped, OneAnswer
  <2> QED
    BY <1>1, <2>3, <2>4 DEF IInv, OneAnswer
<1>14. SocketIsOfStream'
  BY <1>1, <1>4, <1>5 DEF IInv, SocketIsOfStream
<1>15. HeardIsInOrder'
  <2>1. Len(answers') = 0 /\ Going' = Going /\ Concluded' = Concluded
    BY <1>1, EmptyQueue DEF Going, Concluded, Last
  <2>2. /\ server' \in {"START", "CHUNK"} => server = server'
        /\ server' \in {"END"} \cup Outcomes => server = server'
    BY <1>2 DEF Outcomes
  <2> QED
    BY <1>1, <1>4, <2>1, <2>2 DEF IInv, HeardIsInOrder
<1>16. ClosedOnce'
  <2>1. server \in Ended => server' = server
    BY <1>2 DEF Ended
  <2> QED
    BY <1>1, <1>4, <1>5, <2>1 DEF IInv, ClosedOnce, CloseTaken
<1>17. ResultIsHeard'
  BY <1>1, <1>2, <1>4 DEF IInv, Typed, ResultIsHeard, Last, LoopTyped, Outcomes
<1> QED
  BY <1>1, <1>6, <1>7, <1>8, <1>11, <1>12, <1>13, <1>14, <1>15, <1>16, <1>17,
     LoopTypedStays, AutomationsTypedStays, AudioIsOfStreamStays
  DEF IInv, Typed

-----------------------------------------------------------------------------
(* The WebSocket client, and Home Assistant behind it.                     *)
LEMMA ConnectsStep == IInv /\ Connects => IInv'
<1> SUFFICES ASSUME IInv, Connects PROVE IInv'
  OBVIOUS
<1>1. /\ socket.status = "connecting" /\ socket' = [socket EXCEPT !.status = "open"]
      /\ server' = "idle"
      /\ flags' \in {flags, [flags EXCEPT !["connected"] = socket.of]}
      /\ UNCHANGED loopVars /\ UNCHANGED automationVars
      /\ UNCHANGED <<state, stream, drained, ring, capturing, responses, stopping, mic, blocks>>
      /\ UNCHANGED <<terminal, told, purpose, commands, notified, task, closing, heard, answers>>
  BY DEF Connects, Raise, otherVars, loopVars, automationVars, queueVars, micVars,
         transportVars, serverVars
<1>2. /\ socket \in Sockets /\ socket # NoSocket /\ socket.of = stream /\ state # "IDLE"
      /\ heard = <<>> /\ responses = <<>> /\ answers = <<>> /\ Underway = NoFrame
      /\ state \in {"CONNECTING", "CLOSING"} /\ stream \in Streams
  BY <1>1
  DEF IInv, Typed, ThreadsTyped, SocketIsOfStream, OneAnswer, AudioIsOfStream, NoSocket
<1>3. socket' \in Sockets /\ socket'.status = "open" /\ socket'.of = stream
  BY <1>1, <1>2 DEF Sockets
<1>4. /\ flags' \in [Flags -> Streams \cup {None}]
      /\ flags'["transport_closed"] = flags["transport_closed"]
      /\ flags'["close_requested"] = flags["close_requested"]
  BY <1>1, <1>2 DEF IInv, Typed, FlagsTyped, Flags
<1>5. Underway' = NoFrame /\ NoFrame.type = "none" /\ task.at # "sending" /\ commands = <<>>
  <2>1. Underway' = Underway
    BY <1>1 DEF Underway
  <2> QED
    BY <1>2, <2>1, FrameShape DEF IInv, OneCommand, Busy
<1>6. FlagsTyped'
  BY <1>1, <1>4, Zenon DEF IInv, Typed, FlagsTyped
<1>7. ThreadsTyped'
  BY <1>1, <1>3 DEF IInv, Typed, ThreadsTyped
<1>8. QueuesTyped'
  BY <1>1 DEF IInv, Typed, QueuesTyped
<1>9. OneCommand'
  BY <1>1, <1>5, EmptyQueue DEF OneCommand, Busy
<1>10. ServerWorks'
  BY <1>1, <1>3 DEF ServerWorks, Busy
<1>11. OneAnswer'
  BY <1>1, <1>2, EmptyQueue DEF OneAnswer
<1>12. SocketIsOfStream'
  BY <1>1, <1>2, <1>3, <1>5 DEF SocketIsOfStream
<1>13. HeardIsInOrder'
  BY <1>1, <1>2, <1>5, EmptyQueue DEF HeardIsInOrder, Outcomes
<1>14. ClosedOnce'
  BY <1>1, <1>2, <1>3, <1>4 DEF IInv, ClosedOnce, CloseTaken
<1>15. ResultIsHeard'
  BY <1>1, <1>2, DeviceAssumption DEF IInv, ResultIsHeard, Last
<1> QED
  BY <1>1, <1>6, <1>7, <1>8, <1>9, <1>10, <1>11, <1>12, <1>13, <1>14, <1>15, LoopTypedStays,
     AutomationsTypedStays, AudioIsOfStreamStays
  DEF IInv, Typed

LEMMA DisconnectsStep == IInv /\ Disconnects => IInv'
<1> SUFFICES ASSUME IInv, Disconnects PROVE IInv'
  OBVIOUS
<1>1. /\ socket.status \in {"connecting", "open"} /\ socket' = [socket EXCEPT !.status = "broken"]
      /\ answers' = <<>>
      /\ flags' \in {flags, [flags EXCEPT !["disconnected"] = socket.of]}
      /\ UNCHANGED loopVars /\ UNCHANGED automationVars
      /\ UNCHANGED <<state, stream, drained, ring, capturing, responses, stopping, mic, blocks>>
      /\ UNCHANGED <<terminal, told, purpose, commands, notified, task, closing, heard>>
  BY DEF Disconnects, Raise, otherVars, loopVars, automationVars, queueVars, micVars,
         transportVars, serverVars
<1>2. /\ server' = IF server \in Outcomes THEN server ELSE "over"
      /\ server' \in Outcomes \cup {"over"} /\ server' \notin Busy \cup {"idle"}
      /\ server \in Ended => server' = server
  BY DEF Disconnects, HangsUp, Outcomes, Ended, Busy
<1>3. /\ socket \in Sockets /\ socket # NoSocket /\ socket.of = stream /\ state # "IDLE"
      /\ stream \in Streams /\ Underway.type # "CONNECT"
  BY <1>1
  DEF IInv, Typed, ThreadsTyped, SocketIsOfStream, AudioIsOfStream, OneCommand, NoSocket
<1>4. socket' \in Sockets /\ socket'.status = "broken" /\ socket'.of = stream /\ socket' # NoSocket
  BY <1>1, <1>3 DEF Sockets, NoSocket
<1>5. /\ flags' \in [Flags -> Streams \cup {None}]
      /\ flags'["connected"] = flags["connected"]
      /\ flags'["transport_closed"] = flags["transport_closed"]
      /\ flags'["close_requested"] = flags["close_requested"]
  BY <1>1, <1>3 DEF IInv, Typed, FlagsTyped, Flags
<1>6. Underway' = Underway
  BY <1>1 DEF Underway
<1>7. FlagsTyped'
  BY <1>1, <1>5, Zenon DEF IInv, Typed, FlagsTyped
<1>8. ThreadsTyped'
  BY <1>1, <1>2, <1>4 DEF IInv, Typed, ThreadsTyped, Ended
<1>9. QueuesTyped'
  BY <1>1, EmptyQueue DEF IInv, Typed, QueuesTyped
<1>10. OneCommand'
  BY <1>1, <1>2, <1>3, <1>6 DEF IInv, OneCommand
<1>11. ServerWorks'
  BY <1>2, <1>4 DEF ServerWorks
<1>12. OneAnswer'
  <2>1. ASSUME NEW CONSTANT e, AnAnswer(e)
        PROVE  AnAnswer(e)'
    BY <1>1, <1>2, <1>6, <2>1 DEF AnAnswer, Ended
  <2>2. \A e : AnAnswer(e) => AnAnswer(e)'
    BY <2>1
  <2>3. \A k \in 1 .. Len(responses) : AnAnswer(responses[k])'
    BY <1>1, <2>2 DEF IInv, OneAnswer
  <2>4. Len(responses) <= 2 /\ Len(answers') = 0 /\ Len(responses) \in Nat
    BY <1>1, EmptyQueue DEF IInv, Typed, QueuesTyped, OneAnswer
  <2> QED
    BY <1>1, <2>3, <2>4 DEF IInv, OneAnswer
<1>13. SocketIsOfStream'
  BY <1>1, <1>3, <1>4, <1>6 DEF IInv, SocketIsOfStream
<1>14. HeardIsInOrder'
  <2>1. Len(answers') = 0 /\ Going' = Going /\ Concluded' = Concluded
    BY <1>1, EmptyQueue DEF Going, Concluded, Last
  <2>2. /\ server' \in {"START", "CHUNK"} => server = server'
        /\ server' \in {"END"} \cup Outcomes => server = server'
    BY <1>2 DEF Outcomes
  <2> QED
    BY <1>1, <1>3, <1>6, <2>1, <2>2 DEF IInv, HeardIsInOrder
<1>15. ClosedOnce'
  BY <1>1, <1>2, <1>3, <1>4, <1>5, <1>6 DEF IInv, ClosedOnce, CloseTaken
<1>16. ResultIsHeard'
  BY <1>1, <1>2 DEF IInv, Typed, ResultIsHeard, Last, LoopTyped, Outcomes
<1> QED
  BY <1>1, <1>7, <1>8, <1>9, <1>10, <1>11, <1>12, <1>13, <1>14, <1>15, <1>16,
     LoopTypedStays, AutomationsTypedStays, AudioIsOfStreamStays
  DEF IInv, Typed

LEMMA DeliversStep == IInv /\ Delivers => IInv'
<1> SUFFICES ASSUME IInv, Delivers PROVE IInv'
  OBVIOUS
<1>1. /\ socket.status = "open" /\ answers # <<>> /\ answers' = Tail(answers)
      /\ UNCHANGED loopVars /\ UNCHANGED automationVars
      /\ UNCHANGED <<state, stream, drained, ring, capturing, stopping, mic, blocks, socket>>
      /\ UNCHANGED <<terminal, told, purpose, commands, notified, task, closing, heard, server>>
  BY DEF Delivers, loopVars, micVars, transportVars
<1>2. \/ responses' = Append(responses, Head(answers)) /\ UNCHANGED flags
      \/ flags' = [flags EXCEPT !["protocol_error"] = socket.of] /\ UNCHANGED responses
  BY DEF Delivers
<1>3. /\ socket \in Sockets /\ socket # NoSocket /\ socket.of \in Streams
      /\ Underway.type # "CONNECT" /\ server \notin Busy
      /\ ~(state = "CLOSING" /\ ~drained)
  BY <1>1
  DEF IInv, Typed, ThreadsTyped, OneCommand, ServerWorks, ClosedOnce, NoSocket, Sockets
<1>4. /\ responses \in Seq(Frames) /\ Len(responses) \in Nat
      /\ responses # <<>> <=> Len(responses) > 0
      /\ answers \in Seq(Frames) /\ Len(answers) \in Nat /\ 1 <= Len(answers)
      /\ Head(answers) = answers[1] /\ answers[1] \in Frames
      /\ answers' \in Seq(Frames) /\ Len(answers') = Len(answers) - 1
      /\ \A k \in 1 .. Len(answers) - 1 : answers'[k] = answers[k + 1]
  BY <1>1, Popped, EmptyQueue DEF IInv, Typed, QueuesTyped
<1>5. /\ flags' \in [Flags -> Streams \cup {None}]
      /\ flags'["connected"] = flags["connected"]
      /\ flags'["transport_closed"] = flags["transport_closed"]
      /\ flags'["close_requested"] = flags["close_requested"]
  BY <1>2, <1>3 DEF IInv, Typed, FlagsTyped, Flags
<1>6. Underway' = Underway
  BY <1>1 DEF Underway
<1>7. \A e : AnAnswer(e) => AnAnswer(e)'
  <2>1. ASSUME NEW CONSTANT e, AnAnswer(e)
        PROVE  AnAnswer(e)'
    BY <1>1, <1>6, <2>1 DEF AnAnswer
  <2> QED
    BY <2>1
<1>8. FlagsTyped'
  BY <1>1, <1>5, Zenon DEF IInv, Typed, FlagsTyped
<1>9. ThreadsTyped'
  BY <1>1, ThreadsTypedStays DEF IInv, Typed
<1>10. OneCommand'
  BY <1>1, <1>3, <1>5, <1>6 DEF IInv, OneCommand
<1>11. ServerWorks'
  BY <1>1, <1>3 DEF IInv, ServerWorks
<1>12. SocketIsOfStream'
  BY <1>1, <1>5, <1>6 DEF IInv, SocketIsOfStream
<1>13. ClosedOnce'
  BY <1>1, <1>3, <1>5, <1>6 DEF IInv, ClosedOnce, CloseTaken
<1>14. ResultIsHeard'
  BY <1>1, ResultIsHeardStays DEF IInv
<1>15. /\ \A k \in 1 .. Len(responses) : responses[k].type \notin Outcomes \cup {"ERROR"}
       /\ responses # <<>> => Len(responses) = 1 /\ answers[1].type = "ERROR"
  <2>1. 1 \in 1 .. Len(answers)
    BY <1>4
  <2>2. ASSUME NEW k \in 1 .. Len(responses)
        PROVE  responses[k].type \notin Outcomes \cup {"ERROR"} /\ k = 1
    <3>1. PICK n \in Nat : n = Len(responses) /\ k \in 1 .. n
      BY <1>4
    <3>2. k > 1 \/ k = 1
      BY <3>1
    <3> QED
      BY <1>1, <3>2 DEF IInv, OneAnswer
  <2>3. responses # <<>> => Len(responses) = 1
    <3>1. PICK n \in Nat : n = Len(responses)
      BY <1>4
    <3>2. n # 0 => n \in 1 .. Len(responses)
      BY <3>1
    <3> QED
      BY <1>4, <2>2, <3>1, <3>2
  <2> QED
    BY <2>1, <2>2, <2>3 DEF IInv, OneAnswer
<1>16. ASSUME NEW k \in 1 .. Len(answers')
       PROVE  /\ k + 1 \in 1 .. Len(answers) /\ answers'[k] = answers[k + 1]
              /\ AnAnswer(answers[k])' /\ answers'[k].type = "ERROR" /\ k = Len(answers')
  <2>1. PICK n \in Nat : n = Len(answers)
    BY <1>4
  <2>2. k \in 1 .. n - 1 /\ k + 1 \in 1 .. n /\ k + 1 > 1
    BY <1>4, <2>1
  <2>3. PICK e : e = answers[k + 1]
    OBVIOUS
  <2>4. e = answers'[k]
    BY <1>4, <2>1, <2>2, <2>3
  <2>5. AnAnswer(e) /\ e.type = "ERROR" /\ k + 1 = Len(answers)
    BY <2>1, <2>2, <2>3 DEF IInv, OneAnswer
  <2>6. AnAnswer(e)'
    BY <1>7, <2>5
  <2> QED
    BY <1>4, <2>1, <2>2, <2>3, <2>4, <2>5, <2>6
<1>17. CASE responses' = Append(responses, Head(answers))
  <2>1. /\ responses' \in Seq(Frames) /\ Len(responses') = Len(responses) + 1
        /\ responses'[Len(responses) + 1] = answers[1]
        /\ \A k \in 1 .. Len(responses) : responses'[k] = responses[k]
    BY <1>4, <1>17, Pushed
  <2>2. PICK e : e = answers[1]
    OBVIOUS
  <2>3. /\ AnAnswer(e)
        /\ e.type \in Outcomes \cup {"ERROR"} => Len(answers) = 1
        /\ e.type \in {"STARTED", "CHUNK"} => Going
    <3>1. 1 \in 1 .. Len(answers)
      BY <1>4
    <3> QED
      BY <2>2, <3>1 DEF IInv, OneAnswer, HeardIsInOrder
  <2>4. QueuesTyped'
    BY <1>1, <1>4, <2>1 DEF IInv, Typed, QueuesTyped
  <2>5. Len(answers') = 0 => answers' = <<>>
    BY <1>4, EmptyQueue
  <2>6. ASSUME NEW k \in 1 .. Len(responses')
        PROVE  /\ AnAnswer(responses[k])'
               /\ k > 1 => responses'[k].type = "ERROR"
               /\ responses'[k].type \in Outcomes \cup {"ERROR"} =>
                    k = Len(responses') /\ answers' = <<>>
               /\ responses'[k].type \in {"STARTED", "CHUNK"} => Going
    <3>1. PICK n \in Nat : n = Len(responses)
      BY <1>4
    <3>2. k \in 1 .. n \/ k = n + 1
      BY <2>1, <3>1
    <3>3. CASE k \in 1 .. n
      <4>1. PICK d : d = responses[k]
        OBVIOUS
      <4>2. d = responses'[k] /\ k = 1
        <5>1. n # 0
          BY <3>1, <3>3
        <5>2. n = 1
          BY <1>4, <1>15, <3>1, <5>1
        <5> QED
          BY <2>1, <3>1, <3>3, <4>1, <5>2
      <4>3. AnAnswer(d) /\ (d.type \in {"STARTED", "CHUNK"} => Going)
            /\ d.type \notin Outcomes \cup {"ERROR"}
        BY <1>15, <3>1, <3>3, <4>1 DEF IInv, OneAnswer, HeardIsInOrder
      <4>4. AnAnswer(d)'
        BY <1>7, <4>3
      <4> QED
        BY <4>2, <4>3, <4>4
    <3>4. CASE k = n + 1
      <4>1. e = responses'[k] /\ k = Len(responses')
        BY <2>1, <2>2, <3>1, <3>4
      <4>2. AnAnswer(e)'
        BY <1>7, <2>3
      <4>3. k > 1 => e.type = "ERROR"
        BY <1>4, <1>15, <2>2, <3>1, <3>4
      <4>4. e.type \in Outcomes \cup {"ERROR"} => answers' = <<>>
        BY <1>4, <2>3, <2>5
      <4> QED
        BY <2>3, <4>1, <4>2, <4>3, <4>4
    <3> QED
      BY <3>2, <3>3, <3>4
  <2>7. OneAnswer'
    <3>1. Len(responses') + Len(answers') <= 2
      <4>1. Len(responses) + Len(answers) <= 2
        BY DEF IInv, OneAnswer
      <4> QED
        BY <1>4, <2>1, <4>1
    <3> QED
      BY <1>1, <1>16, <2>6, <3>1 DEF OneAnswer
  <2>8. HeardIsInOrder'
    <3>1. Going' = Going /\ Concluded' = Concluded
      BY <1>1 DEF Going, Concluded, Last
    <3>2. \A k \in 1 .. Len(answers') : answers'[k].type \notin {"STARTED", "CHUNK"}
      BY <1>16
    <3> QED
      BY <1>1, <1>6, <2>6, <3>1, <3>2 DEF IInv, HeardIsInOrder
  <2> QED
    BY <1>1, <1>8, <1>9, <1>10, <1>11, <1>12, <1>13, <1>14, <2>4, <2>7, <2>8,
       LoopTypedStays, AutomationsTypedStays, AudioIsOfStreamStays
    DEF IInv, Typed
<1>18. CASE UNCHANGED responses
  <2>1. QueuesTyped'
    BY <1>1, <1>4, <1>18 DEF IInv, Typed, QueuesTyped
  <2>2. OneAnswer'
    <3>1. ASSUME NEW k \in 1 .. Len(responses)
          PROVE  /\ AnAnswer(responses[k])' /\ (k > 1 => responses'[k].type = "ERROR")
                 /\ responses'[k].type \notin Outcomes \cup {"ERROR"}
      <4>1. PICK d : d = responses[k]
        OBVIOUS
      <4>2. AnAnswer(d) /\ (k > 1 => d.type = "ERROR") /\ d.type \notin Outcomes \cup {"ERROR"}
        BY <1>15, <4>1 DEF IInv, OneAnswer
      <4>3. AnAnswer(d)'
        BY <1>7, <4>2
      <4> QED
        BY <1>18, <4>1, <4>2, <4>3
    <3>2. Len(responses') + Len(answers') <= 2
      <4>1. Len(responses) + Len(answers) <= 2
        BY DEF IInv, OneAnswer
      <4> QED
        BY <1>4, <1>18, <4>1
    <3> QED
      BY <1>1, <1>16, <1>18, <3>1, <3>2 DEF OneAnswer
  <2>3. HeardIsInOrder'
    <3>1. Going' = Going /\ Concluded' = Concluded
      BY <1>1 DEF Going, Concluded, Last
    <3>2. \A k \in 1 .. Len(answers') : answers'[k].type \notin {"STARTED", "CHUNK"}
      BY <1>16
    <3> QED
      BY <1>1, <1>6, <1>18, <3>1, <3>2 DEF IInv, HeardIsInOrder
  <2> QED
    BY <1>1, <1>8, <1>9, <1>10, <1>11, <1>12, <1>13, <1>14, <2>1, <2>2, <2>3,
       LoopTypedStays, AutomationsTypedStays, AudioIsOfStreamStays
    DEF IInv, Typed
<1> QED
  BY <1>2, <1>17, <1>18

(* Home Assistant answers the frame it has, or gives up with an error.     *)
LEMMA AnswersStep == IInv /\ Answers => IInv'
<1> SUFFICES ASSUME IInv, Answers PROVE IInv'
  OBVIOUS
<1>1. /\ socket.status = "open"
      /\ UNCHANGED loopVars /\ UNCHANGED automationVars
      /\ UNCHANGED <<state, stream, drained, ring, capturing, responses, stopping, mic, blocks, socket>>
      /\ UNCHANGED <<terminal, told, purpose, commands, flags, notified, task, closing, heard>>
  BY DEF Answers, otherVars, loopVars, automationVars, queueVars, micVars, transportVars,
         serverVars
<1>2. /\ socket \in Sockets /\ socket # NoSocket /\ socket.of = stream /\ stream \in Streams
      /\ state # "IDLE" /\ Underway' = Underway
  BY <1>1
  DEF IInv, Typed, ThreadsTyped, SocketIsOfStream, AudioIsOfStream, NoSocket, Underway
<1>3. PICK type \in {"STARTED", "CHUNK", "ERROR"} \cup Outcomes :
        /\ answers' = Append(answers, Frame(type, stream))
        /\ \/ type = "STARTED" /\ server = "START" /\ server' = "idle"
           \/ type = "CHUNK" /\ server = "CHUNK" /\ server' = "idle"
           \/ type \in Outcomes /\ server = "END" /\ server' = type
           \/ type = "ERROR" /\ server \in Busy \cup {"idle"} /\ server' = "over"
  BY <1>2 DEF Answers, Busy
<1>4. PICK f \in Frames : f = Frame(type, stream) /\ f.type = type /\ f.of = stream
  <2>1. type \in Types
    BY <1>3 DEF Types, Busy
  <2> QED
    BY <1>2, <2>1, FrameTyped
<1>5. /\ server \in Busy \cup {"idle"} /\ server' \notin Busy \cup {"none"}
      /\ server' \in Ended \cup {"idle"}
      /\ ~(state = "CLOSING" /\ ~drained)
  BY <1>3 DEF IInv, ClosedOnce, Busy, Ended, Outcomes
<1>6. /\ Underway.type # "CONNECT"
      /\ type # "ERROR" => Underway.type \notin Busy /\ responses = <<>> /\ answers = <<>>
      /\ type # "ERROR" => state \in SentIn(server)
  BY <1>2, <1>3 DEF IInv, OneCommand, ServerWorks, Busy
<1>7. /\ responses \in Seq(Frames) /\ Len(responses) \in Nat
      /\ responses = <<>> <=> Len(responses) = 0
      /\ answers \in Seq(Frames) /\ Len(answers) \in Nat
      /\ answers = <<>> <=> Len(answers) = 0
      /\ answers' \in Seq(Frames) /\ Len(answers') = Len(answers) + 1
      /\ answers'[Len(answers) + 1] = f
      /\ \A k \in 1 .. Len(answers) : answers'[k] = answers[k]
  BY <1>3, <1>4, Pushed, EmptyQueue DEF IInv, Typed, QueuesTyped
<1>8. AnAnswer(f)'
  <2>1. state \in AnsweredIn(type)
    <3>1. CASE type = "ERROR"
      BY <3>1 DEF IInv, Typed, LoopTyped, AnsweredIn, Outcomes
    <3>2. CASE type # "ERROR"
      BY <1>3, <1>6, <3>2 DEF AnsweredIn, SentIn, Outcomes
    <3> QED
      BY <3>1, <3>2
  <2>2. type # "ERROR" => Underway'.type \notin Busy
    BY <1>2, <1>6
  <2>3. /\ type = "ERROR" => server' = "over"
        /\ type \in Outcomes => server' = type
    BY <1>3 DEF Outcomes
  <2> QED
    BY <1>1, <1>4, <2>1, <2>2, <2>3 DEF AnAnswer
<1>9. ASSUME NEW CONSTANT e, AnAnswer(e)
      PROVE  /\ AnAnswer(e)' /\ e.type \in {"STARTED", "CHUNK"}
             /\ Len(responses) + Len(answers) > 0 => type = "ERROR"
  <2>1. e.type \in {"STARTED", "CHUNK"}
    BY <1>5, <1>9 DEF AnAnswer, Busy, Outcomes
  <2>2. AnAnswer(e)'
    BY <1>1, <1>2, <1>9, <2>1 DEF AnAnswer, Outcomes
  <2> QED
    BY <1>6, <1>7, <2>1, <2>2
<1>10. \A e : AnAnswer(e) => AnAnswer(e)' /\ e.type \in {"STARTED", "CHUNK"}
  BY <1>9
<1>11. \A k \in 1 .. Len(responses) :
         AnAnswer(responses[k])' /\ responses[k].type \in {"STARTED", "CHUNK"} /\ k <= 1 /\ Going
  BY <1>1, <1>10 DEF IInv, OneAnswer, HeardIsInOrder
<1>12. \A k \in 1 .. Len(answers) :
         /\ AnAnswer(answers[k]) /\ answers[k].type \in {"STARTED", "CHUNK"}
         /\ k <= 1 /\ responses = <<>> /\ Going
  BY <1>10 DEF IInv, OneAnswer, HeardIsInOrder
<1>13. Len(responses) + Len(answers) <= 1
  <2>1. PICK m \in Nat, n \in Nat : m = Len(responses) /\ n = Len(answers)
    BY <1>7
  <2>2. m <= 1 /\ n <= 1 /\ (n > 0 => m = 0)
    <3>1. /\ m > 1 => 2 \in 1 .. Len(responses)
          /\ n > 1 => 2 \in 1 .. Len(answers)
          /\ n > 0 => 1 \in 1 .. Len(answers)
      BY <2>1
    <3> QED
      BY <1>7, <1>11, <1>12, <2>1, <3>1
  <2> QED
    BY <2>1, <2>2
<1>14. ASSUME NEW k \in 1 .. Len(answers')
       PROVE  /\ AnAnswer(answers[k])'
              /\ k > 1 \/ responses # <<>> => answers'[k].type = "ERROR"
              /\ answers'[k].type \in Outcomes \cup {"ERROR"} => k = Len(answers')
              /\ answers'[k].type \in {"STARTED", "CHUNK"} => Going
  <2>1. PICK n \in Nat : n = Len(answers)
    BY <1>7
  <2>2. k \in 1 .. n \/ k = n + 1
    BY <1>7, <2>1
  <2>3. CASE k \in 1 .. n
    <3>1. PICK d : d = answers[k]
      OBVIOUS
    <3>2. d = answers'[k]
      BY <1>7, <2>1, <2>3, <3>1
    <3>3. AnAnswer(d) /\ d.type \in {"STARTED", "CHUNK"} /\ k <= 1 /\ responses = <<>> /\ Going
      BY <1>12, <2>1, <2>3, <3>1
    <3>4. AnAnswer(d)' /\ d.type \notin Outcomes \cup {"ERROR"} /\ ~(k > 1)
      BY <1>10, <2>3, <3>3 DEF Outcomes
    <3> QED
      BY <3>2, <3>3, <3>4
  <2>4. CASE k = n + 1
    <3>1. f = answers'[k] /\ k = Len(answers')
      BY <1>7, <2>1, <2>4
    <3>2. k > 1 \/ responses # <<>> => f.type = "ERROR"
      BY <1>4, <1>6, <1>7, <2>1, <2>4
    <3>3. f.type \in {"STARTED", "CHUNK"} => Going
      BY <1>3, <1>4 DEF IInv, HeardIsInOrder, Outcomes
    <3> QED
      BY <1>8, <3>1, <3>2, <3>3
  <2> QED
    BY <2>2, <2>3, <2>4
<1>15. Going' = Going /\ Concluded' = Concluded
  BY <1>1 DEF Going, Concluded, Last
<1>16. ThreadsTyped'
  BY <1>1, <1>5 DEF IInv, Typed, ThreadsTyped
<1>17. QueuesTyped' /\ FlagsTyped'
  BY <1>1, <1>7 DEF IInv, Typed, QueuesTyped, FlagsTyped
<1>18. OneCommand'
  BY <1>1, <1>2, <1>5 DEF IInv, OneCommand
<1>19. ServerWorks'
  BY <1>1, <1>5 DEF ServerWorks
<1>20. OneAnswer'
  <2>1. Len(responses') + Len(answers') <= 2
    BY <1>1, <1>7, <1>13
  <2>2. answers' # <<>> => socket'.status = "open"
    BY <1>1
  <2>3. \A k \in 1 .. Len(responses) : responses[k].type \notin Outcomes \cup {"ERROR"} /\ ~(k > 1)
    BY <1>7, <1>11 DEF Outcomes
  <2> QED
    BY <1>1, <1>11, <1>14, <2>1, <2>2, <2>3 DEF OneAnswer
<1>21. SocketIsOfStream'
  BY <1>1, <1>2 DEF IInv, SocketIsOfStream
<1>22. HeardIsInOrder'
  <2>1. server' \notin {"START", "CHUNK", "END"} /\ (server' \in Outcomes => Concluded)
    <3>1. server' \in Outcomes => server = "END"
      BY <1>3 DEF Outcomes
    <3> QED
      BY <1>5, <3>1 DEF IInv, HeardIsInOrder, Busy
  <2> QED
    BY <1>1, <1>2, <1>11, <1>14, <1>15, <2>1 DEF IInv, HeardIsInOrder
<1>23. ClosedOnce'
  BY <1>1, <1>2, <1>5 DEF IInv, ClosedOnce, CloseTaken
<1>24. ResultIsHeard'
  BY <1>1, <1>2, <1>5, DeviceAssumption
  DEF IInv, Typed, ResultIsHeard, Last, LoopTyped, Outcomes, Busy
<1> QED
  BY <1>1, <1>16, <1>17, <1>18, <1>19, <1>20, <1>21, <1>22, <1>23, <1>24, LoopTypedStays,
     AutomationsTypedStays, AudioIsOfStreamStays
  DEF IInv, Typed

-----------------------------------------------------------------------------
LEMMA InitHolds == Init => IInv
<1> SUFFICES ASSUME Init PROVE IInv
  OBVIOUS
<1>1. /\ state = "IDLE" /\ stream = 0 /\ terminal = "failed" /\ told = None
      /\ ring = <<>> /\ commands = <<>> /\ responses = <<>> /\ answers = <<>> /\ heard = <<>>
      /\ flags = [f \in Flags |-> None] /\ task = [at |-> "waiting", frame |-> NoFrame]
      /\ socket = NoSocket /\ server = "none" /\ mic = None
  BY DEF Init
<1>2. LoopTyped /\ AutomationsTyped
  <2>1. stream \in 0 .. MaxStreams /\ pressed \in 0 .. presses /\ presses \in 0 .. MaxPresses
    BY DeviceAssumption DEF Init
  <2> QED
    BY <2>1 DEF Init, LoopTyped, AutomationsTyped, Outcomes
<1>3. QueuesTyped
  <2>1. <<>> \in Seq(Streams) /\ Len(<<>>) = 0 /\ 0 <= RingLimit
    BY EmptySeq, DeviceAssumption
  <2> QED
    BY <1>1, <2>1, EmptyQueue DEF QueuesTyped
<1>4. FlagsTyped
  BY DEF Init, FlagsTyped
<1>5. ThreadsTyped
  BY DeviceAssumption, FrameShape DEF Init, ThreadsTyped
<1>6. /\ task.at = "waiting" /\ task.frame = NoFrame /\ Underway = NoFrame /\ NoFrame.type = "none"
      /\ Len(<<>>) = 0 /\ socket.status = "none"
      /\ flags["transport_closed"] = None /\ flags["close_requested"] = None
      /\ flags["connected"] = None
  BY <1>1, FrameShape DEF Underway, NoSocket, Flags
<1>7. OneCommand /\ ServerWorks /\ OneAnswer /\ SocketIsOfStream
  BY <1>1, <1>6 DEF OneCommand, ServerWorks, OneAnswer, SocketIsOfStream, Busy
<1>8. HeardIsInOrder
  BY <1>1, <1>6 DEF HeardIsInOrder, Opened, Outcomes
<1>9. ClosedOnce /\ AudioIsOfStream
  BY <1>1, <1>6 DEF Init, ClosedOnce, CloseTaken, AudioIsOfStream, Active
<1>10. ResultIsHeard
  BY <1>1, <1>6, DeviceAssumption DEF Init, ResultIsHeard
<1> QED
  BY <1>2, <1>3, <1>4, <1>5, <1>7, <1>8, <1>9, <1>10 DEF IInv, Typed

LEMMA StepHolds == IInv /\ [Next]_vars => IInv'
<1> SUFFICES ASSUME IInv, [Next]_vars PROVE IInv'
  OBVIOUS
<1>1. CASE UNCHANGED vars
  BY <1>1, LoopTypedStays, AutomationsTypedStays, QueuesTypedStays, FlagsTypedStays,
     ThreadsTypedStays, OneCommandStays, ServerWorksStays, OneAnswerStays,
     SocketIsOfStreamStays, HeardIsInOrderStays, ClosedOnceStays, AudioIsOfStreamStays,
     ResultIsHeardStays
  DEF IInv, Typed, vars, loopVars, automationVars, queueVars, micVars, transportVars,
      serverVars
<1>2. CASE Loop
  BY <1>2, HandleResponseStep, DrainEndsStep, FailsStep, SendStartStep, SendChunkStep,
     SendEndStep, CompleteFinishStep
  DEF Loop
<1>3. CASE TimesOut \/ Shutdown
  BY <1>3, TimesOutStep, ShutdownStep
<1>4. CASE Automations
  BY <1>4, PressStep, StartCaptureStep, ListeningStep, EndStreamStep DEF Automations
<1>5. CASE TransportTask
  BY <1>5, TaskWakesStep, TaskTakesStep, TaskSendsStep, TaskFailsStep, TaskClosesStep
  DEF TransportTask
<1>6. CASE Microphone
  BY <1>6, MicrophoneReadsStep, MicrophoneWritesStep DEF Microphone
<1>7. CASE SocketTask \/ Answers
  BY <1>7, ConnectsStep, DisconnectsStep, DeliversStep, AnswersStep DEF SocketTask
<1> QED
  BY <1>1, <1>2, <1>3, <1>4, <1>5, <1>6, <1>7 DEF Next

LEMMA Invariance == Spec => []IInv
  BY InitHolds, StepHolds, PTL DEF Spec

-----------------------------------------------------------------------------
(* The types, and with them two limits of the code that are never met:     *)
(* the queue of commands holds one at most, MAX_TRANSPORT_COMMANDS being   *)
(* more, and the queue of responses two, MAX_RESPONSE_QUEUE being more: no *)
(* command is refused for want of room and no answer is dropped.           *)
THEOREM TypeCorrect == Spec => []TypeOK
<1>1. IInv => TypeOK
  <2> SUFFICES ASSUME IInv PROVE TypeOK
    OBVIOUS
  <2>1. /\ Len(commands) <= 1
        /\ Len(responses) <= 2
    <3>1. Len(responses) \in Nat /\ Len(answers) \in Nat
      BY EmptyQueue DEF IInv, Typed, QueuesTyped
    <3> QED
      BY <3>1 DEF IInv, OneCommand, OneAnswer
  <2>2. /\ state \in Active \cup {"IDLE", "CLOSING"} /\ stream \in 0 .. MaxStreams
        /\ purpose \in {"identification", "capture"} /\ terminal \in Outcomes
        /\ told \in Outcomes \cup {None}
    BY DEF IInv, Typed, LoopTyped
  <2>3. \A x \in {ending, drained, wakeWord, assist, capturing, notified, closing, stopping} :
          x \in BOOLEAN
    BY DEF IInv, Typed, LoopTyped, AutomationsTyped, FlagsTyped
  <2>4. pressed \in 0 .. presses /\ presses \in 0 .. MaxPresses
    BY DEF IInv, Typed, AutomationsTyped
  <2>5. ring \in Seq(Streams) /\ Len(ring) <= RingLimit
    BY DEF IInv, Typed, QueuesTyped
  <2>6. /\ flags \in [Flags -> Streams \cup {None}]
        /\ mic \in Streams \cup {None} /\ blocks \in 0 .. MaxBlocks
        /\ task.at \in {"waiting", "draining", "sending", "closing", "stopped"}
    BY DEF IInv, Typed, FlagsTyped, ThreadsTyped
  <2>7. socket.status \in {"none", "connecting", "open", "broken"}
    BY DEF IInv, Typed, ThreadsTyped, Sockets, NoSocket
  <2>8. server \in {"none", "idle", "START", "CHUNK", "END", "over"} \cup Outcomes
    BY DEF IInv, Typed, ThreadsTyped, Busy, Ended
  <2> QED
    BY <2>1, <2>2, <2>3, <2>4, <2>5, <2>6, <2>7, <2>8 DEF TypeOK
<1> QED
  BY <1>1, Invariance, PTL

(* What Home Assistant hears on a stream's socket is START, blocks of that *)
(* stream alone, END, in that order.                                       *)
THEOREM HearsItsOwnAudio == Spec => []OnlyItsOwnAudio
<1>1. IInv => OnlyItsOwnAudio
  BY DEF IInv, HeardIsInOrder, SocketIsOfStream, OnlyItsOwnAudio
<1> QED
  BY <1>1, Invariance, PTL

(* The automations are told that a capture was accepted or rejected only   *)
(* when Home Assistant, having heard all of it, said so of that very       *)
(* capture; and they are told something as soon as it is over.             *)
THEOREM ToldWhatWasAnswered == Spec => []ToldTheResult
<1>1. IInv => ToldTheResult
  BY DEF IInv, ResultIsHeard, Last, ToldTheResult
<1> QED
  BY <1>1, Invariance, PTL
=============================================================================
