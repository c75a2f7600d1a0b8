----------------------------- MODULE Enrollment -----------------------------
(***************************************************************************)
(* The enrollment of voices at one speaker.  A user starts a session in    *)
(* the panel of Home Assistant and presses "record" once per sample.  The  *)
(* speaker streams a recording to Home Assistant, which passes it on to    *)
(* the Router and Speaker-ID with the session and user it belongs to.      *)
(* Speaker-ID stores an accepted sample in the user's voice profile, and   *)
(* Home Assistant reports it to the Router, which owns the sessions.       *)
(*                                                                         *)
(* There is no transaction over the three: calls cross, fail and are       *)
(* answered late, and Home Assistant works with its own copy of a session. *)
(***************************************************************************)
EXTENDS Naturals, FiniteSets

CONSTANTS
  Users,       \* authenticated users of Home Assistant
  Sessions,    \* ids of enrollment sessions
  Captures,    \* recordings of the speaker, and the samples made of them
  Target,      \* target_count of a session
  NoUser, NoSession, NoCapture,
  MaxCalls,    \* bound: panel commands that wait for the Router at a time
  MaxPresses,  \* bound: calls of async_record that wait for the speaker
  MaxReloads   \* bound: how often Home Assistant reloads the integration

ASSUME EnrollmentAssumption ==
  /\ IsFiniteSet(Captures)
  /\ Target \in Nat \ {0}
  /\ NoUser \notin Users /\ NoSession \notin Sessions /\ NoCapture \notin Captures
  /\ MaxCalls \in Nat /\ MaxPresses \in Nat /\ MaxReloads \in Nat

VARIABLES
  table,    \* the Router: enrollment_sessions
  view,     \* Home Assistant: _sessions_by_id
  active,   \* Home Assistant: the session in _active_by_source
  capture,  \* Home Assistant: _capture_by_source
  timer,    \* Home Assistant: a capture timeout is scheduled
  calls,    \* panel commands that wait for the Router
  presses,  \* calls of async_record that wait for the speaker
  button,   \* the session of a press on its way to the speaker
  device,   \* the speaker: the recording it is busy with
  stream,   \* the recordings, and the handlers Home Assistant runs for them
  reloads   \* how often Home Assistant reloaded

vars == <<table, view, active, capture, timer, calls, presses, button, device, stream,
          reloads>>

router == <<table>>
panel == <<calls, presses, button, reloads>>
coordinator == <<view, active, capture, timer>>
audio == <<device, stream>>

-----------------------------------------------------------------------------
Rows == [status: {"ABSENT", "ACTIVE", "COMPLETED", "TERMINATED"},
         user: Users \cup {NoUser}, samples: SUBSET Captures]

NoRow == [status |-> "ABSENT", user |-> NoUser, samples |-> {}]

(* What a command waits with: until the Router has processed a             *)
(* termination its copy is NoRow.                                          *)
Calls == [command: {"show", "terminate"}, session: Sessions, copy: Rows]

(* The handler of a recording collects it, flushes it to Speaker-ID,       *)
(* reports the attempt and reads the answer.  It may give up while         *)
(* Speaker-ID (stage left) or the Router (sent) still works on it.         *)
Stages == {"idle", "recording", "ending", "left", "attempt", "sent", "answered", "refused",
           "over"}
Verdicts == {"none", "ACCEPTED", "REJECTED"}   \* REJECTED or FAILED

NoStream == [stage |-> "idle", session |-> NoSession, user |-> NoUser, verdict |-> "none",
             copy |-> NoRow]

Streams == [stage: Stages, session: Sessions \cup {NoSession}, user: Users \cup {NoUser},
            verdict: Verdicts, copy: Rows]

Taken == {"RECORDING", "PROCESSING"}

(* Definitions named X_Y are faulty forms of X that the properties below   *)
(* must tell from it; no specification uses them.                          *)
Init ==
  /\ table = [s \in Sessions |-> NoRow]
  /\ view = [s \in Sessions |-> NoRow]
  /\ active = NoSession
  /\ capture = "READY"
  /\ timer = FALSE
  /\ calls = {}
  /\ presses = 0
  /\ button = NoSession
  /\ device = NoCapture
  /\ stream = [c \in Captures |-> NoStream]
  /\ reloads = 0

-----------------------------------------------------------------------------
(* The Router.                                                             *)
ActiveRows == {s \in Sessions : table[s].status = "ACTIVE"}

Opened(u) == [status |-> "ACTIVE", user |-> u, samples |-> {}]

(* terminate's update                                                      *)
Terminated_Always(r) == [r EXCEPT !.status = "TERMINATED"]

Terminated(r) == IF r.status = "ACTIVE" THEN [r EXCEPT !.status = "TERMINATED"] ELSE r

(* record_attempt's update of an active session                            *)
Attempted_Early(r, c, verdict) ==
  LET samples == IF verdict = "ACCEPTED" THEN r.samples \cup {c} ELSE r.samples
  IN [r EXCEPT !.samples = samples,
               !.status = IF Cardinality(r.samples) = Target THEN "COMPLETED" ELSE "ACTIVE"]

Attempted(r, c, verdict) ==
  LET samples == IF verdict = "ACCEPTED" THEN r.samples \cup {c} ELSE r.samples
  IN [r EXCEPT !.samples = samples,
               !.status = IF Cardinality(samples) = Target THEN "COMPLETED" ELSE "ACTIVE"]

-----------------------------------------------------------------------------
(* The panel's commands.  Home Assistant checks nothing of its own before  *)
(* async_start and async_restore, so these begin with the Router's answer. *)
Room == Cardinality(calls) < MaxCalls

(* async_start: the speaker's active session, if it is the user's, or a    *)
(* new one.                                                                *)
Start(u) ==
  /\ Room
  /\ \E s \in Sessions :
       /\ \/ ActiveRows = {} /\ table[s].status = "ABSENT"
             /\ table' = [table EXCEPT ![s] = Opened(u)]
          \/ s \in ActiveRows /\ table[s].user = u /\ UNCHANGED table
       /\ calls' = calls \cup {[command |-> "show", session |-> s, copy |-> table'[s]]}
  /\ UNCHANGED <<coordinator, presses, button, reloads, audio>>

(* async_restore                                                           *)
Restore ==
  /\ Room
  /\ \E s \in ActiveRows :
       calls' = calls \cup {[command |-> "show", session |-> s, copy |-> table[s]]}
  /\ UNCHANGED <<router, coordinator, presses, button, reloads, audio>>

(* async_terminate, up to its request ...                                  *)
Terminate ==
  /\ Room
  /\ active # NoSession
  /\ calls' = calls \cup {[command |-> "terminate", session |-> active, copy |-> NoRow]}
  /\ UNCHANGED <<router, coordinator, presses, button, reloads, audio>>

RouterTerminates(call) ==
  /\ call.command = "terminate" /\ call.copy = NoRow
  /\ table' = [table EXCEPT ![call.session] = Terminated(@)]
  /\ calls' = (calls \ {call}) \cup {[call EXCEPT !.copy = table'[call.session]]}
  /\ UNCHANGED <<coordinator, presses, button, reloads, audio>>

(* A call fails: refused by the Router, or not answered in time, whether   *)
(* or not the Router processes it.                                         *)
Fail(call) ==
  /\ calls' = calls \ {call}
  /\ UNCHANGED <<router, coordinator, presses, button, reloads, audio>>

(* _update_session: a copy that is not active takes any session's place.   *)
Adopt_Guess(s, row) ==
  /\ view' = [view EXCEPT ![s] = Terminated(row)]
  /\ active' = IF row.status = "ACTIVE" THEN s ELSE NoSession

Adopt(s, row) ==
  /\ view' = [view EXCEPT ![s] = row]
  /\ active' = IF row.status = "ACTIVE" THEN s ELSE NoSession

Shown(call) ==
  /\ call.command = "show"
  /\ Adopt(call.session, call.copy)
  /\ calls' = calls \ {call}
  /\ UNCHANGED <<router, capture, timer, presses, button, reloads, audio>>

(* ... and from its answer on.                                             *)
TerminateAnswered(call) ==
  /\ call.command = "terminate" /\ call.copy # NoRow
  /\ Adopt(call.session, call.copy)
  /\ timer' = FALSE
  /\ capture' = "TERMINATED"
  /\ calls' = calls \ {call}
  /\ UNCHANGED <<router, presses, button, reloads, audio>>

-----------------------------------------------------------------------------
(* async_record, up to the call that presses the speaker's button; the     *)
(* call may fail before or after it took effect.                           *)
Record(s) ==
  /\ presses < MaxPresses
  /\ view[s].status = "ACTIVE"
  /\ capture \notin Taken
  /\ capture' = "RECORDING"
  /\ presses' = presses + 1
  /\ button' \in {s, button}
  /\ UNCHANGED <<router, view, active, timer, calls, reloads, audio>>

(* The call returns: _schedule_capture_timeout.                            *)
Pressed ==
  /\ presses > 0
  /\ presses' = presses - 1
  /\ timer' = TRUE
  /\ UNCHANGED <<router, view, active, capture, calls, button, reloads, audio>>

(* It raises.                                                              *)
PressFails ==
  /\ presses > 0
  /\ presses' = presses - 1
  /\ capture' = "READY"
  /\ UNCHANGED <<router, view, active, timer, calls, button, reloads, audio>>

(* _async_capture_timeout                                                  *)
CaptureTimeout ==
  /\ timer
  /\ timer' = FALSE
  /\ capture' = IF capture \in Taken THEN "READY" ELSE capture
  /\ UNCHANGED <<router, view, active, panel, audio>>

-----------------------------------------------------------------------------
(* The speaker begins a recording, unless it is busy, and audio_metadata   *)
(* binds it to the session that is active now; otherwise it is refused.    *)
Stream(c) ==
  /\ button # NoSession
  /\ button' = NoSession
  /\ device = NoCapture /\ stream[c] = NoStream
  /\ active # NoSession /\ capture = "RECORDING"
  /\ device' = c
  /\ stream' = [stream EXCEPT ![c] =
       [NoStream EXCEPT !.stage = "recording", !.session = active, !.user = view[active].user]]
  /\ UNCHANGED <<router, coordinator, calls, presses, reloads>>

StreamRefused ==
  /\ button # NoSession
  /\ button' = NoSession
  /\ device # NoCapture \/ active = NoSession \/ capture # "RECORDING"
  /\ UNCHANGED <<router, coordinator, calls, presses, reloads, audio>>

At(c, stage) == stream[c].stage = stage
Goes(c, stage) ==
  stream' = [stream EXCEPT ![c].stage = stage, ![c].copy = IF stage = "over" THEN NoRow ELSE @]

(* The end of a handler closes the speaker's connection.                   *)
Released(c) == device' = IF device = c THEN NoCapture ELSE device

(* END: the handler flushes the recording to the Router.                   *)
End(c) ==
  /\ At(c, "recording")
  /\ Goes(c, "ending")
  /\ UNCHANGED <<router, coordinator, panel, device>>

(* The speaker gives up; the handler notices later, or not at all.         *)
DeviceFails(c) ==
  /\ device = c
  /\ device' = NoCapture
  /\ UNCHANGED <<router, coordinator, panel, stream>>

(* The speaker, the Router or Speaker-ID fails the recording, or the       *)
(* handler's time is over.  What was sent may reach Speaker-ID yet.        *)
Abandon(c) ==
  /\ \/ At(c, "recording") /\ Goes(c, "over")
     \/ At(c, "ending") /\ Goes(c, IF stream[c].verdict = "none" THEN "left" ELSE "over")
  /\ Released(c)
  /\ UNCHANGED <<router, coordinator, panel>>

(* Speaker-ID judges the recording and stores an accepted one for good.    *)
Judge(c, verdict) ==
  /\ stream[c].stage \in {"ending", "left"} /\ stream[c].verdict = "none"
  /\ stream' = [stream EXCEPT ![c] =
       [stream[c] EXCEPT !.verdict = verdict, !.stage = IF @ = "left" THEN "over" ELSE @]]
  /\ UNCHANGED <<router, coordinator, panel, device>>

-----------------------------------------------------------------------------
(* async_record_result, up to its request ...                              *)
Report(c) ==
  /\ At(c, "ending") /\ stream[c].verdict # "none"
  /\ timer' = FALSE
  /\ capture' = "PROCESSING"
  /\ Goes(c, "attempt")
  /\ UNCHANGED <<router, view, active, panel, device>>

(* record_attempt                                                          *)
RecordAttempt(c) ==
  /\ stream[c].stage \in {"attempt", "sent"}
  /\ LET s == stream[c].session
     IN \/ /\ table[s].status = "ACTIVE"
           /\ table' = [table EXCEPT ![s] = Attempted(@, c, stream[c].verdict)]
           /\ IF At(c, "attempt")
              THEN stream' = [stream EXCEPT ![c].stage = "answered", ![c].copy = table'[s]]
              ELSE Goes(c, "over")
        \/ /\ table[s].status # "ACTIVE"
           /\ Goes(c, IF At(c, "attempt") THEN "refused" ELSE "over")
           /\ UNCHANGED table
  /\ UNCHANGED <<coordinator, panel, device>>

(* ... and from its answer on.                                             *)
Reported(c) ==
  /\ At(c, "answered")
  /\ Adopt(stream[c].session, stream[c].copy)
  /\ capture' = IF stream[c].copy.status = "COMPLETED" THEN "COMPLETED" ELSE stream[c].verdict
  /\ Goes(c, "over")
  /\ Released(c)
  /\ UNCHANGED <<router, timer, panel>>

(* The request is refused, fails or takes too long: no handler resets what *)
(* Report has set.                                                         *)
ReportFails(c) ==
  /\ \/ At(c, "attempt") /\ Goes(c, "sent")
     \/ stream[c].stage \in {"answered", "refused"} /\ Goes(c, "over")
  /\ Released(c)
  /\ UNCHANGED <<router, coordinator, panel>>

-----------------------------------------------------------------------------
(* The integration is reloaded: the handlers and waiting commands die with *)
(* the old coordinator, and the new one restores the active session.       *)
Interrupted(c) ==
  CASE At(c, "attempt") -> [stream[c] EXCEPT !.stage = "sent"]
    [] At(c, "ending") /\ stream[c].verdict = "none" -> [stream[c] EXCEPT !.stage = "left"]
    [] stream[c].stage \in {"idle", "left", "sent"} -> stream[c]
    [] OTHER -> [stream[c] EXCEPT !.stage = "over", !.copy = NoRow]

Reload ==
  /\ reloads < MaxReloads
  /\ reloads' = reloads + 1
  /\ view' = [s \in Sessions |-> IF s \in ActiveRows THEN table[s] ELSE NoRow]
  /\ active' \in IF ActiveRows = {} THEN {NoSession} ELSE ActiveRows
  /\ capture' = "READY"
  /\ timer' = FALSE
  /\ calls' = {}
  /\ presses' = 0
  /\ button' = NoSession
  /\ device' = NoCapture
  /\ stream' = [c \in Captures |-> Interrupted(c)]
  /\ UNCHANGED router

Command ==
  \/ \E u \in Users : Start(u)
  \/ Restore \/ Terminate
  \/ \E call \in calls :
       RouterTerminates(call) \/ Fail(call) \/ Shown(call) \/ TerminateAnswered(call)

Press == (\E s \in Sessions : Record(s)) \/ Pressed \/ PressFails \/ CaptureTimeout

Recording(c) ==
  \/ Stream(c) \/ End(c) \/ DeviceFails(c) \/ Abandon(c)
  \/ \E verdict \in Verdicts \ {"none"} : Judge(c, verdict)
  \/ Report(c) \/ RecordAttempt(c) \/ Reported(c) \/ ReportFails(c)

Next ==
  \/ Command \/ Press \/ StreamRefused
  \/ \E c \in Captures : Recording(c)
  \/ Reload

Spec == Init /\ [][Next]_vars

-----------------------------------------------------------------------------
TypeOK ==
  /\ table \in [Sessions -> Rows]
  /\ view \in [Sessions -> Rows]
  /\ active \in Sessions \cup {NoSession}
  /\ capture \in {"READY", "ACCEPTED", "REJECTED", "COMPLETED", "TERMINATED"}
                 \cup Taken
  /\ timer \in BOOLEAN
  /\ calls \subseteq Calls
  /\ presses \in Nat
  /\ button \in Sessions \cup {NoSession}
  /\ device \in Captures \cup {NoCapture}
  /\ stream \in [Captures -> Streams]
  /\ reloads \in Nat

(* "Router records the attempt exactly once": a session counts stored      *)
(* samples of its own user only, each in one session, and is COMPLETED     *)
(* exactly when it has its target, whatever was lost, late or reloaded.    *)
SamplesAreTheirs ==
  \A s \in Sessions :
    /\ \A c \in table[s].samples :
         /\ stream[c].verdict = "ACCEPTED"
         /\ stream[c].session = s
         /\ stream[c].user = table[s].user
    /\ Cardinality(table[s].samples) <= Target
    /\ table[s].status = "COMPLETED" <=> Cardinality(table[s].samples) = Target

(* "A terminated session is never resumed": no late attempt or repeated    *)
(* termination changes a session that is over.                             *)
TerminalSessionsStay ==
  [][\A s \in Sessions :
       table[s].status \in {"COMPLETED", "TERMINATED"} => table'[s] = table[s]]_table

(* Home Assistant's copy of a session may be late, and a late answer may   *)
(* even set it back, but it is always one the session had: it never shows  *)
(* another user, more samples, or an end the Router has not decided.       *)
IsPast(row, s) ==
  row.status # "ABSENT" =>
    /\ table[s].status # "ABSENT"
    /\ row.user = table[s].user
    /\ row.samples \subseteq table[s].samples
    /\ row.status # "ACTIVE" => row = table[s]

ViewIsPast == \A s \in Sessions : IsPast(view[s], s)

(* A recording never freezes the panel: a timeout is scheduled, or the     *)
(* call that will schedule it still waits for the speaker, although the    *)
(* result of any other recording cancels whatever timeout there is.        *)
RecordingIsTimed == capture = "RECORDING" => timer \/ presses > 0

-----------------------------------------------------------------------------
(* "The action rejects [...] source/session mismatches before commanding   *)
(* the speaker": a press for a session reaches the speaker only while that *)
(* session is the active one there, to which its recording will be bound.  *)
PressIsForTheActive ==
  [][button' \notin {button, NoSession} => button' = active]_button
=============================================================================
