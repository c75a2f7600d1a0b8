---------------------------- MODULE TurnAndVoice ----------------------------
(***************************************************************************)
(* The Router's turns (RequestLifecycle), and the voices they wait for     *)
(* (IdentityCorrelation).  They meet in the identity port: what a turn     *)
(* gets from it is an input of the first, and what the turn does after it  *)
(* is of no interest to the second.  The turn of an utterance in the       *)
(* second is named asking here.                                            *)
(***************************************************************************)
EXTENDS RequestLifecycle, Sequences

CONSTANTS
  Speakers,       \* source ids of the speakers
  Utterances,     \* utterances, numbered in the order they are spoken
  SpeakerOf,      \* the speaker that hears an utterance
  ResultCapacity  \* result_capacity of the sink

VARIABLES active, pipeline, capture, asking, task, waiting, resolved, results

voices == <<active, pipeline, capture, asking, task, waiting, resolved, results>>

Voice == INSTANCE IdentityCorrelation WITH turn <- asking

ASSUME VoiceAssumption == Voice!CorrelationAssumption

(* A turn is decided by a recording of its own speaker, and a recording    *)
(* decides one turn at most, but for those whose pipeline was stopped      *)
(* (CorrelatedIdentityAudioSink.identify).                                 *)
VoicesOfTheirSpeakers == Voice!VoicesOfTheirSpeakers
OneTurnPerVoice == Voice!OneTurnPerVoice
=============================================================================
