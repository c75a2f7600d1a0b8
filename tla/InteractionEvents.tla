-------------------------- MODULE InteractionEvents --------------------------
(***************************************************************************)
(* What a request does is shown on the ring of the speaker it came from.   *)
(* The Router's lifecycle publishes events to an InteractionEventBroker;   *)
(* the /events WebSocket sends them to Home Assistant's RouterEventClient, *)
(* which reconnects for ever; a SpeakerStateMachine turns them into visual *)
(* effects, and gives way to what the speaker itself says is playing.      *)
(*                                                                         *)
(* One speaker: the machine and the broker keep a state for each source,   *)
(* and no code reads two.  An event is its place in what was published,    *)
(* and a connection is a number, in the order they are made.  Heartbeats   *)
(* are left out: they change nothing at either end.                        *)
(***************************************************************************)
EXTENDS Naturals, Sequences, FiniteSets

CONSTANTS
  MaxEvents,       \* bound: events published
  MaxConnections,  \* bound: connections made
  MaxPlays,        \* bound: times the speaker plays something
  QueueSize,       \* queue_size of the broker
  None             \* Python's None

Connections == 1 .. MaxConnections

(* States that set processing_state, other states, and what is no state.   *)
States == {"processing", "waiting"}
Kinds == States \cup {"identity", "closed"}

(* A _SpeakerState: a request is processed, what is shown next, is there   *)
(* an identity feedback, and does the speaker play?                        *)
Machines ==
  [processing : BOOLEAN, pending : States \cup {None}, timer : BOOLEAN, speaking : BOOLEAN]

EventsAssumption ==
  /\ {MaxEvents, MaxConnections, QueueSize} \subseteq Nat \ {0}
  /\ MaxPlays \in Nat
  /\ None \notin Nat \cup Seq(Nat) \cup Machines \cup States

VARIABLES
  \* the Router
  published,  \* the kinds of the events published so far
  latest,     \* _states: the last event that was a state, or 0
  queue,      \* the queue of a connection's subscription, or None
  subscribed, \* subscriptions, by connection
  serving,    \* connections whose loop runs
  \* between them, on the client's connection
  asked,      \* actions on their way to the Router
  sent,       \* its messages on their way: events, and snapshots
  \* Home Assistant's client
  client,     \* the connection it has, 0 before and between, None once stopped
  made,       \* connections made
  handling,   \* the handler it awaits
  handled,    \* the last event it handled of this connection
  \* the speaker state machine, and the speaker
  machine,    \* the _SpeakerState, or None
  sleeping,   \* identity feedback tasks in their sleep
  ring,       \* what the ring shows
  playing,    \* the speaker plays something
  plays       \* bound on plays

routerVars == <<published, latest, queue, subscribed, serving>>
wireVars == <<asked, sent>>
clientVars == <<client, made, handling, handled>>
speakerVars == <<machine, sleeping, ring>>
playVars == <<playing, plays>>
vars == <<routerVars, wireVars, clientVars, speakerVars, playVars>>

Quiet == [processing |-> FALSE, pending |-> None, timer |-> FALSE, speaking |-> FALSE]
Message(type, n) == [type |-> type, n |-> n]

TypeOK ==
  /\ published \in Seq(Kinds) /\ Len(published) <= MaxEvents
  /\ latest \in 0 .. Len(published)
  /\ \A c \in Connections : queue[c] # None => Len(queue[c]) <= QueueSize
  /\ subscribed \subseteq serving /\ serving \subseteq 1 .. made
  /\ client \in 0 .. made \cup {None}
  /\ handling \in {"none", "blinking", "closing", "darkening"}
  /\ handled \in 0 .. MaxEvents
  /\ machine \in Machines \cup {None}
  /\ sleeping \in 0 .. 1
  /\ ring \in {"idle", "processing", "waiting", "blink", "closing"}
  /\ playing \in BOOLEAN /\ plays \in 0 .. MaxPlays

Init ==
  /\ published = <<>> /\ latest = 0
  /\ queue = [c \in Connections |-> None]
  /\ subscribed = {} /\ serving = {}
  /\ asked = <<>> /\ sent = <<>>
  /\ client = 0 /\ made = 0 /\ handling = "none" /\ handled = 0
  /\ machine = None /\ sleeping = 0 /\ ring = "idle"
  /\ playing = FALSE /\ plays = 0

-----------------------------------------------------------------------------
(* InteractionEventBroker                                                  *)

(* _publish: a full queue costs its subscription its place.                *)
Room(c) == Len(queue[c]) < QueueSize
Publish_Drops(kind) ==
  LET n == Len(published) + 1
  IN
  /\ Len(published) < MaxEvents
  /\ published' = Append(published, kind)
  /\ latest' = IF kind \in States THEN n ELSE latest
  /\ queue' = [c \in Connections |->
       IF c \in subscribed /\ Room(c) THEN Append(queue[c], n) ELSE queue[c]]
  /\ UNCHANGED <<subscribed, serving, wireVars, clientVars, speakerVars, playVars>>

Publish(kind) ==
  LET n == Len(published) + 1
  IN
  /\ Len(published) < MaxEvents
  /\ published' = Append(published, kind)
  /\ latest' = IF kind \in States THEN n ELSE latest
  /\ queue' = [c \in Connections |->
       IF c \in subscribed /\ Room(c) THEN Append(queue[c], n) ELSE queue[c]]
  /\ subscribed' = {c \in subscribed : Room(c)}
  /\ UNCHANGED <<serving, wireVars, clientVars, speakerVars, playVars>>
-----------------------------------------------------------------------------
(* The /events loop of a connection.  Each round races the next action     *)
(* with the next event.  Once the client is gone it can only end.          *)

Ready(c) == queue[c] # None /\ queue[c] # <<>>

(* The event wins.  An action that was received in the same round goes     *)
(* with it.                                                                *)
SendEvent(c) ==
  /\ c \in serving /\ client = c /\ Ready(c)
  /\ sent' = Append(sent, Message("event", Head(queue[c])))
  /\ queue' = [queue EXCEPT ![c] = Tail(@)]
  /\ \/ UNCHANGED asked
     \/ asked # <<>> /\ asked' = Tail(asked)
  /\ UNCHANGED <<published, latest, subscribed, serving, clientVars, speakerVars, playVars>>
(* The action wins, and the queue keeps the event.                         *)
TakeAction(c) ==
  /\ c \in serving /\ client = c /\ asked # <<>>
  /\ asked' = Tail(asked)
  /\ \/ /\ Head(asked) = "subscribe"
        /\ queue' = [queue EXCEPT ![c] = <<>>]
        /\ subscribed' = subscribed \cup {c}
        /\ UNCHANGED sent
     \/ /\ Head(asked) = "resync"
        /\ sent' = Append(sent, Message("snapshot", latest))
        /\ UNCHANGED <<queue, subscribed>>
  /\ UNCHANGED <<published, latest, serving, clientVars, speakerVars, playVars>>

(* The client is gone.                                                     *)
LoopEnds(c) ==
  /\ c \in serving /\ client # c
  /\ serving' = serving \ {c}
  /\ subscribed' = subscribed \ {c}
  /\ queue' = [queue EXCEPT ![c] = None]
  /\ UNCHANGED <<published, latest, wireVars, clientVars, speakerVars, playVars>>
-----------------------------------------------------------------------------
(* RouterEventClient                                                       *)

Connect ==
  /\ client = 0 /\ made < MaxConnections /\ handling = "none"
  /\ made' = made + 1 /\ client' = made + 1
  /\ serving' = serving \cup {made + 1}
  /\ asked' = <<"subscribe", "resync">>
  /\ handled' = 0
  /\ UNCHANGED <<published, latest, queue, subscribed, sent, handling, speakerVars, playVars>>

(* receive_json raises: what was on its way is lost.                       *)
Breaks ==
  /\ client \in Connections /\ handling = "none"
  /\ client' = 0
  /\ sent' = <<>> /\ asked' = <<>>
  /\ UNCHANGED <<routerVars, made, handling, handled, speakerVars, playVars>>

(* stop: the task is cancelled, whatever it awaits.                        *)
Stop ==
  /\ client # None
  /\ client' = None /\ handling' = "none"
  /\ sent' = <<>> /\ asked' = <<>>
  /\ UNCHANGED <<routerVars, made, handled, speakerVars, playVars>>

-----------------------------------------------------------------------------
(* SpeakerStateMachine                                                     *)

Known == IF machine = None THEN Quiet ELSE machine

(* handle_state                                                            *)
Shown(m, kind) ==
  /\ machine' = m
  /\ ring' = kind
HandleState_AtOnce(kind) ==
  LET m == [Known EXCEPT !.processing = @ \/ kind = "processing"]
  IN
  /\ \/ /\ m.speaking
        /\ machine' = [m EXCEPT !.pending = kind]
        /\ UNCHANGED ring
     \/ /\ ~m.speaking
        /\ Shown(m, kind)
  /\ UNCHANGED sleeping

HandleState(kind) ==
  LET m == [Known EXCEPT !.processing = @ \/ kind = "processing"]
  IN
  /\ \/ /\ m.speaking \/ m.timer
        /\ machine' = [m EXCEPT !.pending = kind]
        /\ UNCHANGED ring
     \/ /\ ~m.speaking /\ ~m.timer
        /\ Shown(m, kind)
  /\ UNCHANGED sleeping
(* Cancelling the task of the last feedback, if it is not done.            *)
Cancel(m) == sleeping' = IF m.timer THEN sleeping - 1 ELSE sleeping
(* handle_identity up to its await of blink_identity, and after it.        *)
HandleIdentity ==
  /\ Cancel(Known)
  /\ machine' = [Known EXCEPT !.timer = FALSE, !.pending = None]
  /\ ring' = "blink"

BlinkReturns ==
  /\ handling = "blinking"
  /\ handling' = "none"
  /\ machine' = [machine EXCEPT !.timer = TRUE]
  /\ sleeping' = sleeping + 1
  /\ UNCHANGED <<routerVars, wireVars, client, made, handled, ring, playVars>>

(* handle_session_closed, up to each of its awaits and to its end.         *)
HandleClosed ==
  /\ Cancel(Known)
  /\ machine' = IF machine = None THEN None ELSE [machine EXCEPT !.timer = FALSE]
  /\ ring' = "closing"

CloseReturns ==
  /\ handling = "closing"
  /\ handling' = "darkening"
  /\ ring' = "idle"
  /\ UNCHANGED <<routerVars, wireVars, client, made, handled, machine, sleeping, playVars>>

DarkenReturns ==
  /\ handling = "darkening"
  /\ handling' = "none"
  /\ machine' = None
  /\ UNCHANGED <<routerVars, wireVars, client, made, handled, sleeping, ring, playVars>>

(* handle_message, of the next message: it is handled to its end before    *)
(* another is received.                                                    *)
HandleMessage ==
  LET m == Head(sent)
      kind == published[m.n]
  IN
  /\ client \in Connections /\ handling = "none" /\ sent # <<>>
  /\ sent' = Tail(sent)
  /\ handled' = IF m.type = "event" THEN m.n ELSE handled
  /\ \/ /\ m.n = 0                                     \* an empty snapshot
        /\ UNCHANGED <<speakerVars, handling>>
     \/ /\ m.n # 0 /\ kind \in States
        /\ HandleState(kind)
        /\ UNCHANGED handling
     \/ /\ m.n # 0 /\ kind = "identity"
        /\ HandleIdentity
        /\ handling' = "blinking"
     \/ /\ m.n # 0 /\ kind = "closed"
        /\ HandleClosed
        /\ handling' = "closing"
  /\ UNCHANGED <<routerVars, asked, client, made, playVars>>

(* _finish_identity_feedback wakes.                                        *)
FeedbackEnds ==
  /\ sleeping > 0
  /\ sleeping' = sleeping - 1
  /\ LET m == [machine EXCEPT !.timer = FALSE]
     IN \/ /\ m.speaking
           /\ machine' = m
           /\ UNCHANGED ring
        \/ /\ ~m.speaking /\ m.pending # None
           /\ Shown([m EXCEPT !.pending = None], m.pending)
        \/ /\ ~m.speaking /\ m.pending = None /\ m.processing   \* restore_processing
           /\ Shown(m, "processing")
        \/ /\ ~m.speaking /\ m.pending = None /\ ~m.processing
           /\ machine' = m
           /\ UNCHANGED ring
  /\ UNCHANGED <<routerVars, wireVars, clientVars, playVars>>

(* The speaker plays: begin_speaking and end_speaking.                     *)
BeginSpeaking_Forgets ==
  /\ ~playing /\ plays < MaxPlays
  /\ playing' = TRUE /\ plays' = plays + 1
  /\ Cancel(Known)
  /\ machine' = [Known EXCEPT !.speaking = TRUE, !.timer = FALSE, !.pending = None]
  /\ UNCHANGED <<routerVars, wireVars, clientVars, ring>>
BeginSpeaking ==
  /\ ~playing /\ plays < MaxPlays
  /\ playing' = TRUE /\ plays' = plays + 1
  /\ Cancel(Known)
  /\ machine' = [Known EXCEPT !.speaking = TRUE, !.timer = FALSE]
  /\ UNCHANGED <<routerVars, wireVars, clientVars, ring>>

EndSpeaking ==
  /\ playing
  /\ playing' = FALSE
  /\ \/ machine = None /\ UNCHANGED <<machine, ring>>
     \/ /\ machine # None
        /\ LET m == [machine EXCEPT !.speaking = FALSE, !.pending = None]
           IN \/ /\ machine.pending \in {None, "processing"}
                 /\ machine' = m
                 /\ UNCHANGED ring
              \/ /\ machine.pending = "waiting"
                 /\ Shown(m, "waiting")
  /\ UNCHANGED <<routerVars, wireVars, clientVars, sleeping, plays>>

-----------------------------------------------------------------------------
Serve(c) == SendEvent(c) \/ TakeAction(c) \/ LoopEnds(c)
Handle == HandleMessage \/ BlinkReturns \/ CloseReturns \/ DarkenReturns

Next ==
  \/ \E kind \in Kinds : Publish(kind)
  \/ \E c \in Connections : Serve(c)
  \/ Connect \/ Breaks \/ Stop
  \/ Handle \/ FeedbackEnds
  \/ BeginSpeaking \/ EndSpeaking

(* The event loops run, timers fire, service calls return, and what plays  *)
(* comes to its end.  Nothing is assumed of the network.                   *)
Fairness ==
  /\ \A c \in Connections : WF_vars(Serve(c))
  /\ WF_vars(Handle) /\ WF_vars(FeedbackEnds) /\ WF_vars(EndSpeaking)

Spec == Init /\ [][Next]_vars /\ Fairness

-----------------------------------------------------------------------------
(* The events on their way to a client: those sent, then those queued.      *)
Coming(messages) == {i \in DOMAIN messages : messages[i].type = "event"}
Due(messages, events) ==
  {messages[i].n : i \in Coming(messages)} \cup {events[i] : i \in DOMAIN events}

InOrder(messages, events) ==
  /\ \A i, j \in Coming(messages) : i < j => messages[i].n < messages[j].n
  /\ \A i \in Coming(messages), j \in DOMAIN events : messages[i].n < events[j]
  /\ \A i, j \in DOMAIN events : i < j => events[i] < events[j]

(* With the last one handled, if any, they have no gap, and nothing was    *)
(* published since unless the subscription is gone.                        *)
Unbroken(due, last, number, live) ==
  LET given == due \cup ({last} \ {0}) IN
  /\ \A n \in due : last < n
  /\ \A m, n \in given : m .. n \subseteq given
  /\ given \subseteq 1 .. number
  /\ live /\ given # {} => number \in given

(* From the subscription on, what a client is given is what was published: *)
(* in order, without a gap, up to the last event, unless its queue was     *)
(* full and it was dropped (events.py:42), and then up to some event.      *)
NothingIsSkipped ==
  \A c \in serving : client = c /\ queue[c] # None =>
    /\ InOrder(sent, queue[c])
    /\ Unbroken(Due(sent, queue[c]), handled, Len(published), c \in subscribed)

(* test_speaker_identity_transient.py:41: the visual that follows an       *)
(* identity feedback waits until the feedback has had its time.  Playback  *)
(* and the end of the session need not wait.                               *)
FeedbackIsSeen ==
  [][(sleeping > 0 /\ ring = "blink" /\ ring' # "blink")
     => sleeping' = 0 \/ playing]_vars

(* A question put to the user is shown, however the feedback's timer and   *)
(* the playback of the question come in between: once it is queued for a   *)
(* client it is on the ring, unless the client loses its connection or the *)
(* Router has gone on to something else.                                   *)
Asking == published # <<>> /\ published[Len(published)] = "waiting"
AskingIsShown ==
  /\ Asking /\ client \in Connections /\ queue[client] # None
  /\ \E k \in 1 .. Len(queue[client]) : queue[client][k] = Len(published)
  ~> ring = "waiting" \/ ~Asking \/ client \notin Connections
=============================================================================
