------------------------ MODULE FeedbackAndReasoning ------------------------
(***************************************************************************)
(* What goes on beside the request table while a turn is processed: the    *)
(* LLM is asked (Reasoning), and the ring of the speaker shows the turn    *)
(* (InteractionEvents).  The two share no state.                           *)
(***************************************************************************)
EXTENDS Reasoning, Sequences

CONSTANTS
  MaxEvents,       \* bound: events published
  MaxConnections,  \* bound: connections made
  MaxPlays,        \* bound: times the speaker plays something
  QueueSize        \* queue_size of the broker

VARIABLES
  published, latest, queue, subscribed, looping, asked, sent, client, made,
  handling, handled, machine, sleeping, ring, playing, plays

feedback ==
  <<published, latest, queue, subscribed, looping, asked, sent, client, made,
    handling, handled, machine, sleeping, ring, playing, plays>>

Feedback == INSTANCE InteractionEvents WITH serving <- looping

ASSUME FeedbackAssumption == Feedback!EventsAssumption

(* A client is given every event published since it subscribed, in order,  *)
(* unless its queue was full (events.py, _publish).                        *)
NothingIsSkipped == Feedback!NothingIsSkipped

(* What follows an identity feedback on the ring waits for its end, or for *)
(* playback (speaker.py, handle_state).                                    *)
FeedbackIsSeen == Feedback!FeedbackIsSeen

(* A question put to the user is shown, through feedback and playback      *)
(* (speaker.py, end_speaking).                                             *)
AskingIsShown == Feedback!AskingIsShown
=============================================================================
