--------------------------- MODULE WakeWordCapture ---------------------------
(***************************************************************************)
(* The capture of wake-word samples at one speaker.  A user asks for one   *)
(* recording in the panel; Home Assistant opens a session at the Router,   *)
(* presses the speaker's button and waits for the recording.  Speaker-ID   *)
(* stores an accepted sample as a file and two rows, and Home Assistant    *)
(* reports the outcome to the Router.                                      *)
(*                                                                         *)
(* Three callers may end a session: the press that failed, the time-out,   *)
(* and the handler of a recording.  Their calls cross, fail and are        *)
(* answered late; Home Assistant keeps one session per speaker and drops   *)
(* it whenever any session of the speaker ends.                            *)
(***************************************************************************)
EXTENDS Naturals, FiniteSets

CONSTANTS
  Users,        \* authenticated users of Home Assistant
  Sessions,     \* ids of wake-word capture sessions
  Recordings,   \* recordings of the speaker, and the samples made of them
  None,
  MaxCalls,     \* bound: calls to the Router at a time
  MaxFaults     \* bound: restarts of Home Assistant and crashes of Speaker-ID

WakeWordAssumption ==
  /\ None \notin Users \cup Sessions \cup Recordings
  /\ MaxFaults \in Nat

VARIABLES
  row,       \* the Router: wake_word_capture_sessions
  copy,      \* Home Assistant: _sessions_by_id
  active,    \* Home Assistant: the session in _active_by_source
  mode,      \* Home Assistant: _capture_state
  timer,     \* Home Assistant: the session of the speaker's time-out
  calls,     \* calls to the Router that have not returned
  pressing,  \* Home Assistant: the sessions whose async_capture presses the button
  presses,   \* presses on their way to the speaker
  device,    \* the speaker: the recording it is busy with
  stream,    \* the recordings, and the handlers Home Assistant runs for them
  captures,  \* Speaker-ID: wake_word_captures
  samples,   \* Speaker-ID: wake_word_samples
  writing,   \* Speaker-ID: the recording whose file is written, its rows are not
  files,     \* Speaker-ID: WAV files
  unlinking, \* Speaker-ID: samples without rows whose file is yet to go
  orphans,   \* Speaker-ID: files a crash left behind
  faults     \* restarts and crashes so far

coordinator == <<copy, active, mode, timer>>
panel == <<calls, pressing>>
audio == <<device, stream>>
store == <<captures, samples, writing, files, unlinking, orphans>>
vars == <<row, coordinator, panel, presses, audio, store, faults>>

-----------------------------------------------------------------------------
Terminal == {"ACCEPTED", "REJECTED", "FAILED"}

Rows == [status: {"ABSENT", "ACTIVE"} \cup Terminal, user: Users \cup {None},
         sample: Recordings \cup {None}]

NoRow == [status |-> "ABSENT", user |-> None, sample |-> None]
Opened(u) == [status |-> "ACTIVE", user |-> u, sample |-> None]

(* A call is sent until the Router has handled it.  Its caller may no      *)
(* longer wait.                                                            *)
Calls == [job: {"start", "restore", "press", "timeout", "result"}, session: Sessions,
          by: Recordings \cup Users \cup {None}, verdict: {"ACTIVE"} \cup Terminal,
          stage: {"sent", "answered", "refused"}, answer: Rows, waited: BOOLEAN]

(* The handler of a recording collects it, flushes it to Speaker-ID and    *)
(* reports the result.  It may have left while Speaker-ID works on it.     *)
Stages == {"idle", "recording", "ending", "left", "stored", "reporting", "over"}

NoStream == [stage |-> "idle", session |-> None, user |-> None, verdict |-> "none"]

(* Definitions named X_Y are faulty forms of X that the properties below   *)
(* must tell from it; no specification uses them.                          *)
Init ==
  /\ row = [s \in Sessions |-> NoRow]
  /\ copy = [s \in Sessions |-> NoRow]
  /\ active = None
  /\ mode = "READY"
  /\ timer = None
  /\ calls = {}
  /\ pressing = {}
  /\ presses = 0
  /\ device = None
  /\ stream = [r \in Recordings |-> NoStream]
  /\ captures = [s \in Sessions |-> "none"]
  /\ samples = {}
  /\ writing = None
  /\ files = {}
  /\ unlinking = {}
  /\ orphans = {}
  /\ faults = 0

-----------------------------------------------------------------------------
(* The Router.                                                             *)
Call(job, s, by, verdict) ==
  [job |-> job, session |-> s, by |-> by, verdict |-> verdict, stage |-> "sent",
   answer |-> NoRow, waited |-> TRUE]

Room == Cardinality(calls) < MaxCalls

Answer(c, r) == calls' = (calls \ {c}) \cup
  (IF c.waited THEN {[c EXCEPT !.stage = "answered", !.answer = r]} ELSE {})
Refuse(c) == calls' = (calls \ {c}) \cup
  (IF c.waited THEN {[c EXCEPT !.stage = "refused"]} ELSE {})

(* start: a session, unless the speaker has an active one.  Of two starts  *)
(* that both find none, the unique index of the table refuses one.         *)
RouterStart(c) ==
  /\ c.job = "start"
  /\ IF \E s \in Sessions : row[s].status = "ACTIVE"
     THEN Refuse(c) /\ UNCHANGED row
     ELSE /\ row' = [row EXCEPT ![c.session] = Opened(c.by)]
          /\ Answer(c, Opened(c.by))

(* complete: the first outcome of a session is its outcome.                *)
RouterComplete(c) ==
  /\ c.job \in {"press", "timeout", "result"}
  /\ IF row[c.session].status = "ACTIVE"
     THEN LET r == [row[c.session] EXCEPT
                      !.status = c.verdict,
                      !.sample = IF c.verdict = "ACCEPTED" THEN c.by ELSE None]
          IN row' = [row EXCEPT ![c.session] = r] /\ Answer(c, r)
     ELSE Refuse(c) /\ UNCHANGED row

(* active/{source_id}                                                      *)
RouterActive(c) ==
  /\ c.job = "restore"
  /\ IF row[c.session].status = "ACTIVE" THEN Answer(c, row[c.session]) ELSE Refuse(c)
  /\ UNCHANGED row

Router ==
  /\ \E c \in calls : c.stage = "sent" /\ (RouterStart(c) \/ RouterComplete(c) \/ RouterActive(c))
  /\ UNCHANGED <<coordinator, pressing, presses, audio, store, faults>>

-----------------------------------------------------------------------------
(* Home Assistant.                                                         *)
(* _update: whatever session of the speaker is over, none is active.       *)
Update(s, r) ==
  /\ copy' = [copy EXCEPT ![s] = r]
  /\ active' = IF r.status = "ACTIVE" THEN s ELSE None

(* async_capture, up to its request.  The id is the Router's choice.       *)
Capture(u) ==
  /\ active = None /\ Room
  /\ \E s \in Sessions :
       /\ row[s] = NoRow /\ \A c \in calls : c.session # s
       /\ calls' = calls \cup {Call("start", s, u, "ACTIVE")}
  /\ UNCHANGED <<row, coordinator, pressing, presses, audio, store, faults>>

(* ... its answer ...                                                      *)
Started(c) ==
  /\ c.job = "start" /\ c.stage = "answered"
  /\ Update(c.session, c.answer)
  /\ mode' = "RECORDING"
  /\ pressing' = pressing \cup {c.session}
  /\ calls' = calls \ {c}
  /\ UNCHANGED <<row, timer, presses, audio, store, faults>>

(* ... and the press, after which the time-out is set.                     *)
Pressed(s) ==
  /\ s \in pressing
  /\ pressing' = pressing \ {s}
  /\ presses' = presses + 1
  /\ timer' = s
  /\ UNCHANGED <<row, copy, active, mode, calls, audio, store, faults>>

(* A press that raises may have reached the speaker nevertheless.          *)
PressFails(s) ==
  /\ s \in pressing /\ Room
  /\ pressing' = pressing \ {s}
  /\ presses' \in {presses, presses + 1}
  /\ calls' = calls \cup {Call("press", s, None, "FAILED")}
  /\ UNCHANGED <<row, coordinator, audio, store, faults>>

(* _timeout                                                                *)
TimesOut ==
  /\ timer # None /\ Room
  /\ timer' = None
  /\ IF copy[timer].status = "ACTIVE"
     THEN calls' = calls \cup {Call("timeout", timer, None, "FAILED")}
     ELSE UNCHANGED calls
  /\ UNCHANGED <<row, copy, active, mode, pressing, presses, audio, store, faults>>

(* _complete_failed's answer, and that of async_record_result              *)
Completed(c) ==
  /\ c.job \in {"press", "timeout", "result"} /\ c.stage = "answered"
  /\ Update(c.session, c.answer)
  /\ mode' = c.answer.status
  /\ calls' = calls \ {c}
  /\ stream' = IF c.job = "result" THEN [stream EXCEPT ![c.by].stage = "over"] ELSE stream
  /\ UNCHANGED <<row, timer, pressing, presses, device, store, faults>>

(* The panel opens: async_restore.                                         *)
Restore ==
  /\ Room
  /\ \E s \in Sessions :
       /\ row[s].status = "ACTIVE"
       /\ \A c \in calls : c.job # "restore"
       /\ calls' = calls \cup {Call("restore", s, None, "ACTIVE")}
  /\ UNCHANGED <<row, coordinator, pressing, presses, audio, store, faults>>

Restored(c) ==
  /\ c.job = "restore" /\ c.stage = "answered"
  /\ Update(c.session, c.answer)
  /\ mode' = "READY"
  /\ calls' = calls \ {c}
  /\ UNCHANGED <<row, timer, pressing, presses, audio, store, faults>>

(* A refusal, a lost request or answer: the caller raises.  A request may  *)
(* be handled after its caller has gone.                                   *)
Raises(c) ==
  /\ c.waited
  /\ \/ calls' = calls \ {c}
     \/ c.stage = "sent" /\ c.job # "restore"
        /\ calls' = (calls \ {c}) \cup {[c EXCEPT !.waited = FALSE]}
  /\ stream' = IF c.job = "result" THEN [stream EXCEPT ![c.by].stage = "over"] ELSE stream
  /\ UNCHANGED <<row, coordinator, pressing, presses, device, store, faults>>

(* A request nobody waits for is lost.                                     *)
Lost(c) ==
  /\ ~c.waited
  /\ calls' = calls \ {c}
  /\ UNCHANGED <<row, coordinator, pressing, presses, audio, store, faults>>

HomeAssistant ==
  \/ \E u \in Users : Capture(u)
  \/ \E s \in Sessions : Pressed(s) \/ PressFails(s)
  \/ TimesOut
  \/ Restore
  \/ \E c \in calls : Started(c) \/ Completed(c) \/ Restored(c) \/ Raises(c) \/ Lost(c)

-----------------------------------------------------------------------------
(* The speaker and the handlers of its recordings.                         *)
(* A press while the speaker records is rejected.                          *)
Ignored ==
  /\ presses > 0 /\ device # None
  /\ presses' = presses - 1
  /\ UNCHANGED <<row, coordinator, panel, audio, store, faults>>

(* audio_metadata: the recording is made for the session that is active    *)
(* when it starts, if that is being recorded.                              *)
Record(r) ==
  /\ presses > 0 /\ device = None
  /\ stream[r].stage = "idle"
  /\ presses' = presses - 1
  /\ IF active # None /\ mode = "RECORDING"
     THEN /\ device' = r
          /\ stream' = [stream EXCEPT ![r].stage = "recording", ![r].session = active,
                                      ![r].user = copy[active].user]
     ELSE /\ stream' = [stream EXCEPT ![r].stage = "over"]
          /\ UNCHANGED device
  /\ UNCHANGED <<row, coordinator, panel, store, faults>>

(* END: the recording is flushed to Speaker-ID.                            *)
End(r) ==
  /\ stream[r].stage = "recording"
  /\ stream' = [stream EXCEPT ![r].stage = "ending"]
  /\ UNCHANGED <<row, coordinator, panel, presses, device, store, faults>>

Idle(r) == device' = IF device = r THEN None ELSE device

(* The speaker disconnects, a connection fails or the handler times out.   *)
Leaves(r) ==
  /\ \/ stream[r].stage \in {"recording", "stored"}
        /\ stream' = [stream EXCEPT ![r].stage = "over"]
        /\ UNCHANGED calls
     \/ stream[r].stage = "ending"
        /\ stream' = [stream EXCEPT ![r].stage = "left"]
        /\ UNCHANGED calls
     \/ stream[r].stage = "reporting"
        /\ \E c \in calls :
             /\ c.job = "result" /\ c.by = r /\ c.waited
             /\ calls' = (calls \ {c}) \cup
                  (IF c.stage = "sent" THEN {[c EXCEPT !.waited = FALSE]} ELSE {})
        /\ stream' = [stream EXCEPT ![r].stage = "over"]
  /\ Idle(r)
  /\ UNCHANGED <<row, coordinator, pressing, presses, store, faults>>

(* async_record_result: the speaker's time-out is off, whichever session   *)
(* it is for.                                                              *)
Result_AtOnce(r) ==
  /\ stream[r].stage = "stored" /\ Room
  /\ timer' = None
  /\ calls' = calls \cup {Call("result", stream[r].session, r, stream[r].verdict)}
  /\ stream' = [stream EXCEPT ![r].stage = "reporting"]
  /\ Idle(r)
  /\ copy' = [copy EXCEPT ![stream[r].session].status = stream[r].verdict]
  /\ UNCHANGED <<row, active, mode, pressing, presses, store, faults>>

Result(r) ==
  /\ stream[r].stage = "stored" /\ Room
  /\ timer' = None
  /\ calls' = calls \cup {Call("result", stream[r].session, r, stream[r].verdict)}
  /\ stream' = [stream EXCEPT ![r].stage = "reporting"]
  /\ Idle(r)
  /\ UNCHANGED <<row, copy, active, mode, pressing, presses, store, faults>>

Audio == \/ Ignored
         \/ \E r \in Recordings : Record(r) \/ End(r) \/ Leaves(r) \/ Result(r)

-----------------------------------------------------------------------------
(* Speaker-ID.  _process runs on the event loop and is not interrupted but *)
(* by a crash; the requests of Admin run in threads beside it.             *)
InHand(r) == stream[r].stage \in {"ending", "left"}

Answered(r, verdict) ==
  stream' = [stream EXCEPT ![r].stage = IF @ = "ending" THEN "stored" ELSE "over",
                           ![r].verdict = verdict]

(* complete_capture's rejection, and the failures before anything is       *)
(* written: a second recording of a capture, or the database's.            *)
Reject(r) ==
  /\ InHand(r) /\ writing = None
  /\ \/ /\ captures[stream[r].session] = "none"
        /\ captures' = [captures EXCEPT ![stream[r].session] = "REJECTED"]
        /\ Answered(r, "REJECTED")
     \/ Answered(r, "FAILED") /\ UNCHANGED captures
  /\ UNCHANGED <<row, coordinator, panel, presses, device, samples, writing, files, unlinking,
                 orphans, faults>>

(* complete_capture's acceptance: the file ...                             *)
WriteFile_BySample(r) ==
  /\ InHand(r) /\ writing = None
  /\ \A q \in samples : stream[q].session # stream[r].session
  /\ writing' = r
  /\ files' = files \cup {r}
  /\ UNCHANGED <<row, coordinator, panel, presses, audio, captures, samples, unlinking, orphans,
                 faults>>

WriteFile(r) ==
  /\ InHand(r) /\ writing = None
  /\ captures[stream[r].session] = "none"
  /\ writing' = r
  /\ files' = files \cup {r}
  /\ UNCHANGED <<row, coordinator, panel, presses, audio, captures, samples, unlinking, orphans,
                 faults>>

(* ... the rows ...                                                        *)
Commit ==
  /\ writing # None
  /\ captures' = [captures EXCEPT ![stream[writing].session] = "ACCEPTED"]
  /\ samples' = samples \cup {writing}
  /\ Answered(writing, "ACCEPTED")
  /\ writing' = None
  /\ UNCHANGED <<row, coordinator, panel, presses, device, files, unlinking, orphans, faults>>

(* ... or neither, when the database fails.                                *)
Rollback ==
  /\ writing # None
  /\ files' = files \ {writing}
  /\ Answered(writing, "FAILED")
  /\ writing' = None
  /\ UNCHANGED <<row, coordinator, panel, presses, device, captures, samples, unlinking, orphans,
                 faults>>

(* The caller left before the recording was processed.                     *)
Dropped(r) ==
  /\ stream[r].stage = "left" /\ writing # r
  /\ stream' = [stream EXCEPT ![r].stage = "over"]
  /\ UNCHANGED <<row, coordinator, panel, presses, device, store, faults>>

(* delete_sample: the rows, then the file.  The capture remains.           *)
Delete(r) ==
  /\ r \in samples
  /\ samples' = samples \ {r}
  /\ unlinking' = unlinking \cup {r}
  /\ UNCHANGED <<row, coordinator, panel, presses, audio, captures, writing, files, orphans,
                 faults>>

Unlink(r) ==
  /\ r \in unlinking
  /\ unlinking' = unlinking \ {r}
  /\ files' = files \ {r}
  /\ UNCHANGED <<row, coordinator, panel, presses, audio, captures, samples, writing, orphans,
                 faults>>

SpeakerId ==
  \/ Commit \/ Rollback
  \/ \E r \in Recordings : Reject(r) \/ WriteFile(r) \/ Dropped(r) \/ Delete(r) \/ Unlink(r)

-----------------------------------------------------------------------------
(* Home Assistant restarts: the sessions at the Router stay.               *)
Restart ==
  /\ faults < MaxFaults
  /\ faults' = faults + 1
  /\ copy' = [s \in Sessions |-> NoRow]
  /\ active' = None
  /\ mode' = "READY"
  /\ timer' = None
  /\ pressing' = {}
  /\ calls' = {[c EXCEPT !.waited = FALSE] : c \in {d \in calls : d.stage = "sent"
                                                                  /\ d.job # "restore"}}
  /\ device' = None
  /\ stream' = [r \in Recordings |->
       IF stream[r].stage \in {"recording", "stored", "reporting"}
       THEN [stream[r] EXCEPT !.stage = "over"]
       ELSE IF stream[r].stage = "ending" THEN [stream[r] EXCEPT !.stage = "left"]
       ELSE stream[r]]
  /\ UNCHANGED <<row, presses, store>>

(* Speaker-ID crashes: its rows and files stay as they are.                *)
Crash ==
  /\ faults < MaxFaults
  /\ faults' = faults + 1
  /\ orphans' = orphans \cup unlinking \cup ({writing} \ {None})
  /\ writing' = None
  /\ unlinking' = {}
  /\ stream' = [r \in Recordings |->
       IF InHand(r) THEN [stream[r] EXCEPT !.stage = "over"] ELSE stream[r]]
  /\ device' = IF device # None /\ InHand(device) THEN None ELSE device
  /\ UNCHANGED <<row, coordinator, panel, presses, captures, samples, files>>

Next == Router \/ HomeAssistant \/ Audio \/ SpeakerId \/ Restart \/ Crash

Spec == Init /\ [][Next]_vars

-----------------------------------------------------------------------------
(* Every row, call, recording and stored sample has the form above.        *)
TypeOK ==
  /\ row \in [Sessions -> Rows] /\ copy \in [Sessions -> Rows]
  /\ active \in Sessions \cup {None} /\ timer \in Sessions \cup {None}
  /\ mode \in {"READY", "RECORDING"} \cup Terminal
  /\ calls \subseteq Calls
  /\ pressing \subseteq Sessions /\ presses \in Nat
  /\ device \in Recordings \cup {None} /\ writing \in Recordings \cup {None}
  /\ stream \in [Recordings -> [stage: Stages, session: Sessions \cup {None},
                               user: Users \cup {None}, verdict: Terminal \cup {"none"}]]
  /\ captures \in [Sessions -> {"none", "ACCEPTED", "REJECTED"}]
  /\ samples \subseteq Recordings /\ files \subseteq Recordings
  /\ unlinking \subseteq Recordings /\ orphans \subseteq Recordings
  /\ faults \in 0 .. MaxFaults

(* A capture is one attempt: whatever recordings are bound to a session,   *)
(* and whatever Admin deletes in between, Speaker-ID accepts one of them   *)
(* at most, and an accepted session at the Router names that one, which    *)
(* was recorded for the user of the session.                               *)
OneSamplePerCapture ==
  \A s \in Sessions :
    LET accepted == {r \in Recordings : stream[r].session = s
                                         /\ stream[r].verdict = "ACCEPTED"}
    IN /\ \A r, q \in accepted : r = q
       /\ row[s].status = "ACCEPTED" => /\ accepted = {row[s].sample}
                                        /\ stream[row[s].sample].user = row[s].user

(* Home Assistant's copies hold no outcome that the Router does not have:  *)
(* the copy of a session that is over is the Router's row, however calls   *)
(* cross.  (What the panel shows is kept apart, by speaker, and is not     *)
(* meant.)                                                                 *)
OutcomesAreTheRouters ==
  \A s \in Sessions : copy[s].status \in Terminal => copy[s] = row[s]

=============================================================================
