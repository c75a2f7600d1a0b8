-------------------------- MODULE HouseAndWakeWords --------------------------
(***************************************************************************)
(* What goes through Home Assistant besides the turns' own table: the acts *)
(* and automations in the house with the conversation that asks for them   *)
(* (AssistFallback), and the capture of wake words (WakeWordCapture).      *)
(***************************************************************************)
EXTENDS AssistFallback

CONSTANTS
  Users,       \* authenticated users of Home Assistant
  Sessions,    \* ids of wake-word capture sessions
  Recordings,  \* recordings of the speaker
  MaxCalls,    \* bound: calls to the Router at a time
  MaxFaults    \* bound: restarts of Home Assistant and crashes of Speaker-ID

VARIABLES
  row, copy, active, mode, timer, calls, pressing, presses, device, stream,
  captures, samples, writing, files, unlinking, orphans, faults

wakeWords ==
  <<row, copy, active, mode, timer, calls, pressing, presses, device, stream,
    captures, samples, writing, files, unlinking, orphans, faults>>

WakeWords == INSTANCE WakeWordCapture

ASSUME WakeWordsAssumption == WakeWords!WakeWordAssumption

(* A capture has one accepted sample at most, and the session names it     *)
(* (wake_words.py, complete_capture).                                      *)
OneSamplePerCapture == WakeWords!OneSamplePerCapture

(* Home Assistant's copy of a session holds no outcome that the Router     *)
(* does not have (wake_word_capture.py, _update).                          *)
OutcomesAreTheRouters == WakeWords!OutcomesAreTheRouters
=============================================================================
