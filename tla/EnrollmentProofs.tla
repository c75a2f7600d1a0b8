-------------------------- MODULE EnrollmentProofs --------------------------
(***************************************************************************)
(* What holds of Enrollment for every set of users, sessions and           *)
(* recordings, every target and every bound.                               *)
(*                                                                         *)
(* The argument.  A row of the Router only grows, and never once its       *)
(* session is over (Evolves); a recording keeps the session and user it    *)
(* was bound to, and its verdict (Carries).  So whatever Home Assistant    *)
(* or a waiting call copied from a row stays a past of that row, and a     *)
(* recording bound to a copy is bound to the user of the row.              *)
(***************************************************************************)
EXTENDS EnrollmentAndSamples, FiniteSetTheorems, TLAPS

(* A waiting command, or the answer to a report, carries a past copy.      *)
CallsArePast == \A call \in calls : IsPast(call.copy, call.session)

AnswersArePast ==
  \A c \in Captures : stream[c].stage # "idle" => IsPast(stream[c].copy, stream[c].session)

(* Home Assistant's active session is active in its copy.                  *)
ActiveIsViewed == active # NoSession => view[active].status = "ACTIVE"

(* A recording belongs to an existing session and to its user.             *)
StreamsAreBound ==
  \A c \in Captures :
    IF stream[c].stage = "idle" THEN stream[c] = NoStream
    ELSE /\ stream[c].session \in Sessions
         /\ table[stream[c].session].status # "ABSENT"
         /\ stream[c].user = table[stream[c].session].user

(* Only what Speaker-ID has judged is reported.                            *)
Reporting == {"attempt", "sent", "answered", "refused"}

ReportsAreJudged ==
  \A c \in Captures : stream[c].stage \in Reporting => stream[c].verdict # "none"

IInv ==
  /\ TypeOK
  /\ ReportsAreJudged
  /\ SamplesAreTheirs
  /\ ViewIsPast
  /\ RecordingIsTimed
  /\ CallsArePast
  /\ AnswersArePast
  /\ ActiveIsViewed
  /\ StreamsAreBound

Evolves(r, q) ==
  /\ r.status # "ABSENT" =>
       q.status # "ABSENT" /\ q.user = r.user /\ r.samples \subseteq q.samples
  /\ r.status \in {"COMPLETED", "TERMINATED"} => q = r

Carries(p, q) ==
  p.stage # "idle" =>
    /\ q.stage # "idle" /\ q.session = p.session /\ q.user = p.user
    /\ q.verdict = p.verdict \/ p.verdict = "none"

-----------------------------------------------------------------------------
LEMMA NoRowIsRow == NoRow \in Rows
  BY DEF NoRow, Rows

LEMMA NoStreamIsStream == NoStream \in Streams
  BY NoRowIsRow DEF NoStream, Streams, Stages, Verdicts

(* What the Router makes of a row.                                         *)
LEMMA OpenedRow == ASSUME NEW u \in Users PROVE Opened(u) \in Rows
  BY DEF Opened, Rows

LEMMA TerminatedRow ==
  ASSUME NEW r \in Rows
  PROVE  /\ Terminated(r) \in Rows /\ Evolves(r, Terminated(r))
         /\ Terminated(r).samples = r.samples
         /\ Terminated(r).status = "COMPLETED" <=> r.status = "COMPLETED"
         /\ Terminated(r).user = r.user
  BY DEF Terminated, Rows, Evolves

LEMMA AttemptedRow ==
  ASSUME NEW r \in Rows, r.status = "ACTIVE", NEW c \in Captures, NEW verdict
  PROVE  /\ Attempted(r, c, verdict) \in Rows /\ Evolves(r, Attempted(r, c, verdict))
         /\ verdict = "ACCEPTED" => Attempted(r, c, verdict).samples = r.samples \cup {c}
         /\ verdict # "ACCEPTED" => Attempted(r, c, verdict).samples = r.samples
         /\ Attempted(r, c, verdict).status \in {"ACTIVE", "COMPLETED"}
         /\ Attempted(r, c, verdict).status = "COMPLETED" <=>
              Cardinality(Attempted(r, c, verdict).samples) = Target
         /\ Attempted(r, c, verdict).user = r.user
  BY DEF Attempted, Rows, Evolves

LEMMA InterruptedStream ==
  ASSUME NEW c \in Captures, stream[c] \in Streams
  PROVE  /\ Interrupted(c) \in Streams
         /\ Carries(stream[c], Interrupted(c))
         /\ stream[c].stage = "idle" => Interrupted(c) = stream[c]
         /\ Interrupted(c).copy \in {stream[c].copy, NoRow}
  BY NoRowIsRow DEF Interrupted, At, Carries, Streams, Stages

-----------------------------------------------------------------------------
LEMMA TypeStep == TypeOK /\ ReportsAreJudged /\ StreamsAreBound /\ [Next]_vars => TypeOK'
<1> SUFFICES ASSUME TypeOK, ReportsAreJudged, StreamsAreBound, [Next]_vars PROVE TypeOK'
  OBVIOUS
<1> USE DEF TypeOK, router, panel, coordinator, audio
<1>1. ASSUME NEW u \in Users, Start(u) PROVE TypeOK'
  <2>1. table' \in [Sessions -> Rows]
    BY <1>1, OpenedRow DEF Start
  <2>2. calls' \subseteq Calls
    BY <1>1, <2>1 DEF Start, Calls
  <2> QED
    BY <1>1, <2>1, <2>2 DEF Start
<1>2. CASE Restore
  BY <1>2 DEF Restore, Calls, ActiveRows
<1>3. CASE Terminate
  BY <1>3, NoRowIsRow DEF Terminate, Calls
<1>4. ASSUME NEW call \in calls, RouterTerminates(call) PROVE TypeOK'
  <2>1. call \in Calls
    OBVIOUS
  <2>2. table' \in [Sessions -> Rows]
    BY <1>4, <2>1, TerminatedRow DEF RouterTerminates, Calls
  <2>3. calls' \subseteq Calls
    BY <1>4, <2>1, <2>2 DEF RouterTerminates, Calls
  <2> QED
    BY <1>4, <2>2, <2>3 DEF RouterTerminates
<1>5. ASSUME NEW call \in calls, Fail(call) PROVE TypeOK'
  BY <1>5 DEF Fail
<1>6. ASSUME NEW call \in calls, Shown(call) PROVE TypeOK'
  BY <1>6 DEF Shown, Adopt, Calls
<1>7. ASSUME NEW call \in calls, TerminateAnswered(call) PROVE TypeOK'
  BY <1>7 DEF TerminateAnswered, Adopt, Calls
<1>8. ASSUME NEW s \in Sessions, Record(s) PROVE TypeOK'
  BY <1>8 DEF Record, Taken
<1>9. CASE Pressed
  BY <1>9 DEF Pressed
<1>10. CASE PressFails
  BY <1>10 DEF PressFails
<1>11. CASE CaptureTimeout
  BY <1>11 DEF CaptureTimeout
<1>12. CASE StreamRefused
  BY <1>12 DEF StreamRefused
<1>13. ASSUME NEW c \in Captures, Stream(c) PROVE TypeOK'
  <2>1. [NoStream EXCEPT !.stage = "recording", !.session = active, !.user = view[active].user]
          \in Streams
    BY <1>13, NoStreamIsStream DEF Stream, Streams, Stages, Rows
  <2> QED
    BY <1>13, <2>1 DEF Stream
<1>14. ASSUME NEW c \in Captures, NEW stage \in Stages, Goes(c, stage)
       PROVE  stream' \in [Captures -> Streams]
  BY <1>14, NoRowIsRow DEF Goes, Streams
<1>15. ASSUME NEW c \in Captures, Released(c) PROVE device' \in Captures \cup {NoCapture}
  BY <1>15 DEF Released
<1>16. ASSUME NEW c \in Captures, End(c) PROVE TypeOK'
  BY <1>14, <1>16 DEF End, Stages
<1>17. ASSUME NEW c \in Captures, DeviceFails(c) PROVE TypeOK'
  BY <1>17 DEF DeviceFails
<1>18. ASSUME NEW c \in Captures, Abandon(c) PROVE TypeOK'
  BY <1>14, <1>15, <1>18 DEF Abandon, Stages
<1>19. ASSUME NEW c \in Captures, NEW verdict \in Verdicts \ {"none"}, Judge(c, verdict)
       PROVE  TypeOK'
  <2>1. [stream[c] EXCEPT !.verdict = verdict, !.stage = IF @ = "left" THEN "over" ELSE @]
          \in Streams
    BY DEF Streams, Stages
  <2>2. stream' \in [Captures -> Streams]
    BY <1>19, <2>1 DEF Judge
  <2> QED
    BY <1>19, <2>2 DEF Judge
<1>20. ASSUME NEW c \in Captures, Report(c) PROVE TypeOK'
  BY <1>14, <1>20 DEF Report, Stages, Taken
<1>21. ASSUME NEW c \in Captures, RecordAttempt(c) PROVE TypeOK'
  <2> DEFINE s == stream[c].session
  <2>4. s \in Sessions
    BY <1>21 DEF RecordAttempt, StreamsAreBound
  <2>1. table' \in [Sessions -> Rows]
    <3>1. CASE table[s].status = "ACTIVE"
      <4>1. Attempted(table[s], c, stream[c].verdict) \in Rows
        BY <2>4, <3>1, AttemptedRow
      <4> QED
        BY <1>21, <2>4, <3>1, <4>1 DEF RecordAttempt
    <3> QED
      BY <1>21, <3>1 DEF RecordAttempt
  <2>2. CASE table[s].status = "ACTIVE" /\ At(c, "attempt")
    BY <1>21, <2>1, <2>2, <2>4 DEF RecordAttempt, Streams, Stages
  <2>3. CASE ~(table[s].status = "ACTIVE" /\ At(c, "attempt"))
    BY <1>14, <1>21, <2>1, <2>3 DEF RecordAttempt, Stages
  <2> QED
    BY <2>2, <2>3
<1>22. ASSUME NEW c \in Captures, Reported(c) PROVE TypeOK'
  <2>1. stream' \in [Captures -> Streams] /\ device' \in Captures \cup {NoCapture}
    BY <1>14, <1>15, <1>22 DEF Reported, Stages
  <2>2. stream[c] \in Streams /\ stream[c].verdict \in {"ACCEPTED", "REJECTED"}
    BY <1>22 DEF Reported, At, ReportsAreJudged, Reporting, Streams, Verdicts
  <2>3. view' \in [Sessions -> Rows] /\ active' \in Sessions \cup {NoSession}
    BY <1>22, <2>2 DEF Reported, Adopt, Streams
  <2> QED
    BY <1>22, <2>1, <2>2, <2>3 DEF Reported
<1>23. ASSUME NEW c \in Captures, ReportFails(c) PROVE TypeOK'
  BY <1>14, <1>15, <1>23 DEF ReportFails, Stages
<1>24. CASE Reload
  <2>1. stream' \in [Captures -> Streams]
    BY <1>24, InterruptedStream DEF Reload
  <2>2. view' \in [Sessions -> Rows]
    BY <1>24, NoRowIsRow DEF Reload
  <2>3. active' \in Sessions \cup {NoSession}
    BY <1>24 DEF Reload, ActiveRows
  <2>4. table' = table /\ calls' = {} /\ presses' = 0 /\ reloads' = reloads + 1
    BY <1>24 DEF Reload
  <2>5. capture' = "READY" /\ timer' = FALSE /\ button' = NoSession /\ device' = NoCapture
    BY <1>24 DEF Reload
  <2>6. timer' \in BOOLEAN /\ capture' \in {"READY"} /\ calls' \subseteq Calls
    BY <2>4, <2>5
  <2>7. presses' \in Nat /\ reloads' \in Nat
    BY <2>4
  <2>8. table' \in [Sessions -> Rows]
    BY <2>4
  <2> QED
    BY <2>1, <2>2, <2>3, <2>5, <2>6, <2>7, <2>8
<1>25. CASE UNCHANGED vars
  BY <1>25 DEF vars
<1> QED
  BY <1>1, <1>2, <1>3, <1>4, <1>5, <1>6, <1>7, <1>8, <1>9, <1>10, <1>11, <1>12, <1>13, <1>16,
     <1>17, <1>18, <1>19, <1>20, <1>21, <1>22, <1>23, <1>24, <1>25
  DEF Next, Command, Press, Recording

-----------------------------------------------------------------------------
(* Every step lets every row evolve ...                                    *)
LEMMA RowsEvolve ==
  ASSUME TypeOK, StreamsAreBound, [Next]_vars
  PROVE  \A s \in Sessions : Evolves(table[s], table'[s])
<1> USE DEF TypeOK
<1>1. CASE UNCHANGED table
  BY <1>1 DEF Evolves
<1>2. ASSUME NEW u \in Users, Start(u) PROVE \A s \in Sessions : Evolves(table[s], table'[s])
  BY <1>2 DEF Start, Evolves
<1>3. ASSUME NEW call \in calls, RouterTerminates(call)
      PROVE  \A s \in Sessions : Evolves(table[s], table'[s])
  <2>1. call.session \in Sessions
    BY DEF Calls
  <2>2. Evolves(table[call.session], Terminated(table[call.session]))
    BY <2>1, TerminatedRow
  <2> QED
    BY <1>3, <2>1, <2>2 DEF RouterTerminates, Evolves
<1>4. ASSUME NEW c \in Captures, RecordAttempt(c), table' # table
      PROVE  \A s \in Sessions : Evolves(table[s], table'[s])
  <2> DEFINE s == stream[c].session
  <2>1. s \in Sessions
    BY <1>4 DEF RecordAttempt, StreamsAreBound
  <2>2. table[s].status = "ACTIVE"
        /\ table' = [table EXCEPT ![s] = Attempted(@, c, stream[c].verdict)]
    BY <1>4 DEF RecordAttempt
  <2>3. Evolves(table[s], Attempted(table[s], c, stream[c].verdict))
    BY <2>1, <2>2, AttemptedRow
  <2> QED
    BY <2>1, <2>2, <2>3 DEF Evolves
<1> QED
  BY <1>1, <1>2, <1>3, <1>4
  DEF Next, Command, Press, Recording, Restore, Terminate, Fail, Shown, TerminateAnswered, Record,
      Pressed, PressFails, CaptureTimeout, StreamRefused, Stream, End, DeviceFails, Abandon, Judge,
      Report, Reported, ReportFails, Reload, router, vars

(* ... and every recording carry on.                                       *)
LEMMA GoesOn ==
  ASSUME TypeOK, NEW c \in Captures, NEW stage \in Stages \ {"idle"}, Goes(c, stage)
  PROVE  /\ \A d \in Captures : Carries(stream[d], stream'[d])
         /\ \A d \in Captures : d # c => stream'[d] = stream[d]
         /\ stream'[c] = [stream[c] EXCEPT !.stage = stage,
                                            !.copy = IF stage = "over" THEN NoRow ELSE @]
  BY DEF TypeOK, Goes, Carries, Streams

LEMMA StreamsCarry ==
  ASSUME TypeOK, [Next]_vars
  PROVE  \A d \in Captures : Carries(stream[d], stream'[d])
<1> DEFINE Carried == \A d \in Captures : Carries(stream[d], stream'[d])
<1> SUFFICES Carried
  OBVIOUS
<1>1. CASE UNCHANGED stream
  BY <1>1 DEF Carries
<1>2. ASSUME NEW c \in Captures, Stream(c) PROVE Carried
  BY <1>2 DEF TypeOK, Stream, Carries, NoStream
<1>3. ASSUME NEW c \in Captures,
             End(c) \/ Abandon(c) \/ Report(c) \/ Reported(c) \/ ReportFails(c)
      PROVE  Carried
  <2>1. \E stage \in Stages \ {"idle"} : Goes(c, stage)
    BY <1>3 DEF End, Abandon, Report, Reported, ReportFails, Stages
  <2> QED
    BY <2>1, GoesOn
<1>4. ASSUME NEW c \in Captures, NEW verdict \in Verdicts \ {"none"}, Judge(c, verdict)
      PROVE  Carried
  BY <1>4 DEF TypeOK, Judge, Carries, Streams
<1>5. ASSUME NEW c \in Captures, RecordAttempt(c) PROVE Carried
  <2>1. CASE \E stage \in Stages \ {"idle"} : Goes(c, stage)
    BY <2>1, GoesOn
  <2>2. CASE stream' = [stream EXCEPT ![c].stage = "answered",
                                      ![c].copy = table'[stream[c].session]]
    BY <2>2 DEF TypeOK, Carries, Streams
  <2> QED
    BY <1>5, <2>1, <2>2 DEF RecordAttempt, Stages
<1>6. CASE Reload
  BY <1>6, InterruptedStream DEF TypeOK, Reload
<1> QED
  BY <1>1, <1>2, <1>3, <1>4, <1>5, <1>6
  DEF Next, Command, Press, Recording, Start, Restore, Terminate, RouterTerminates, Fail, Shown,
      TerminateAnswered, Record, Pressed, PressFails, CaptureTimeout, StreamRefused, DeviceFails,
      audio, vars

-----------------------------------------------------------------------------
(* A past of a row stays one.                                              *)
LEMMA PastStays ==
  ASSUME TypeOK, StreamsAreBound, [Next]_vars, NEW s \in Sessions, NEW row \in Rows, IsPast(row, s)
  PROVE  IsPast(row, s)'
<1>1. Evolves(table[s], table'[s])
  BY RowsEvolve
<1>2. table[s] \in Rows
  BY DEF TypeOK
<1> QED
  BY <1>1, <1>2 DEF IsPast, Evolves, Rows

LEMMA PresentIsPast ==
  ASSUME NEW s \in Sessions
  PROVE  IsPast(table[s], s) /\ IsPast(NoRow, s)
  BY DEF IsPast, NoRow

LEMMA PresentIsPastNext ==
  ASSUME NEW s \in Sessions
  PROVE  IsPast(table[s], s)' /\ IsPast(NoRow, s)'
  BY DEF IsPast, NoRow

LEMMA CallsStep == IInv /\ [Next]_vars => CallsArePast'
<1> SUFFICES ASSUME IInv, [Next]_vars, NEW call \in calls' PROVE IsPast(call.copy, call.session)'
  BY DEF CallsArePast
<1> USE DEF IInv, TypeOK
<1>1. CASE call \in calls
  BY <1>1, PastStays DEF CallsArePast, Calls
<1>2. ASSUME NEW u \in Users, Start(u), call \notin calls PROVE IsPast(call.copy, call.session)'
  BY <1>2, PresentIsPastNext DEF Start
<1>3. CASE Restore /\ call \notin calls
  BY <1>3, PresentIsPast, PastStays DEF Restore, ActiveRows
<1>4. CASE Terminate /\ call \notin calls
  BY <1>4, PresentIsPastNext DEF Terminate
<1>5. ASSUME NEW old \in calls, RouterTerminates(old), call \notin calls
      PROVE  IsPast(call.copy, call.session)'
  BY <1>5, PresentIsPastNext DEF RouterTerminates, Calls
<1> QED
  BY <1>1, <1>2, <1>3, <1>4, <1>5
  DEF Next, Command, Press, Recording, Fail, Shown, TerminateAnswered, Record, Pressed,
      PressFails, CaptureTimeout, StreamRefused, Stream, End, DeviceFails, Abandon, Judge, Report,
      RecordAttempt, Reported, ReportFails, Reload, panel, vars

(* Home Assistant adopts pasts only.                                       *)
LEMMA AdoptsPast ==
  ASSUME IInv, [Next]_vars, NEW s \in Sessions, NEW row \in Rows, IsPast(row, s), Adopt(s, row)
  PROVE  ViewIsPast' /\ ActiveIsViewed'
<1>1. view' = [view EXCEPT ![s] = row] /\ active' = IF row.status = "ACTIVE" THEN s ELSE NoSession
  BY DEF Adopt
<1>2. view \in [Sessions -> Rows] /\ NoSession \notin Sessions
  BY EnrollmentAssumption DEF IInv, TypeOK
<1>3. ASSUME NEW t \in Sessions PROVE IsPast(view[t], t)'
  <2>1. PICK r \in Rows : view'[t] = r /\ IsPast(r, t)
    BY <1>1, <1>2 DEF IInv, ViewIsPast
  <2>2. IsPast(r, t)'
    BY <2>1, PastStays DEF IInv
  <2> QED
    BY <2>1, <2>2 DEF IsPast
<1>4. ActiveIsViewed'
  BY <1>1, <1>2 DEF ActiveIsViewed
<1> QED
  BY <1>3, <1>4 DEF ViewIsPast

LEMMA ViewStep == IInv /\ [Next]_vars => ViewIsPast' /\ ActiveIsViewed'
<1> SUFFICES ASSUME IInv, [Next]_vars PROVE ViewIsPast' /\ ActiveIsViewed'
  OBVIOUS
<1>1. CASE UNCHANGED <<view, active>>
  <2>1. \A s \in Sessions : view[s] \in Rows /\ IsPast(view[s], s)
    BY DEF IInv, TypeOK, ViewIsPast
  <2>2. \A s \in Sessions : \A r \in Rows : IsPast(r, s) => IsPast(r, s)'
    BY PastStays DEF IInv
  <2> QED
    BY <1>1, <2>1, <2>2 DEF IInv, ViewIsPast, ActiveIsViewed, IsPast
<1>2. ASSUME NEW call \in calls, Shown(call) \/ TerminateAnswered(call)
      PROVE  ViewIsPast' /\ ActiveIsViewed'
  <2>1. call.session \in Sessions /\ call.copy \in Rows /\ IsPast(call.copy, call.session)
    BY DEF IInv, TypeOK, CallsArePast, Calls
  <2> QED
    BY <1>2, <2>1, AdoptsPast DEF Shown, TerminateAnswered
<1>3. ASSUME NEW c \in Captures, Reported(c) PROVE ViewIsPast' /\ ActiveIsViewed'
  <2>1. stream[c].session \in Sessions /\ stream[c].copy \in Rows
        /\ IsPast(stream[c].copy, stream[c].session)
    BY <1>3 DEF Reported, At, IInv, TypeOK, StreamsAreBound, AnswersArePast, Streams
  <2> QED
    BY <1>3, <2>1, AdoptsPast DEF Reported
<1>4. CASE Reload
  <2>1. \A s \in Sessions : view'[s] = IF s \in ActiveRows THEN table[s] ELSE NoRow
    BY <1>4 DEF Reload
  <2>2. table' = table
    BY <1>4 DEF Reload, router
  <2>3. ViewIsPast'
    BY <2>1, <2>2, PresentIsPast DEF ViewIsPast, IsPast
  <2>4. active' = NoSession \/ active' \in ActiveRows
    BY <1>4 DEF Reload
  <2>5. ActiveIsViewed'
    BY <2>1, <2>4 DEF ActiveIsViewed, ActiveRows
  <2> QED
    BY <2>3, <2>5
<1> QED
  BY <1>1, <1>2, <1>3, <1>4
  DEF Next, Command, Press, Recording, Start, Restore, Terminate, RouterTerminates, Fail, Record,
      Pressed, PressFails, CaptureTimeout, StreamRefused, Stream, End, DeviceFails, Abandon, Judge,
      Report, RecordAttempt, ReportFails, coordinator, vars

-----------------------------------------------------------------------------
(* How a recording changes.                                                *)
LEMMA StreamChanges ==
  ASSUME TypeOK, [Next]_vars, NEW d \in Captures
  PROVE  \/ stream'[d] = stream[d]
         \/ Stream(d)
         \/ /\ stream[d].stage # "idle"
            /\ stream'[d].copy \in {stream[d].copy, NoRow, table'[stream[d].session]}
            /\ stream'[d].stage \in Reporting =>
                 stream[d].stage \in Reporting \/ stream[d].verdict # "none"
<1> DEFINE Allowed(c) ==
      \/ stream'[c] = stream[c]
      \/ Stream(c)
      \/ /\ stream[c].stage # "idle"
         /\ stream'[c].copy \in {stream[c].copy, NoRow, table'[stream[c].session]}
         /\ stream'[c].stage \in Reporting =>
              stream[c].stage \in Reporting \/ stream[c].verdict # "none"
<1> SUFFICES Allowed(d)
  OBVIOUS
<1>1. CASE UNCHANGED stream
  BY <1>1
<1>2. ASSUME NEW c \in Captures, Stream(c) PROVE Allowed(d)
  BY <1>2 DEF TypeOK, Stream
<1>3. ASSUME NEW c \in Captures, NEW stage \in Stages \ {"idle"}, Goes(c, stage),
             stream[c].stage # "idle",
             stage \in Reporting => stream[c].stage \in Reporting \/ stream[c].verdict # "none"
      PROVE  Allowed(d)
  <2>1. CASE d = c
    <3>1. stream'[c] = [stream[c] EXCEPT !.stage = stage,
                                         !.copy = IF stage = "over" THEN NoRow ELSE @]
      BY <1>3, GoesOn
    <3> QED
      BY <1>3, <2>1, <3>1 DEF TypeOK, Streams
  <2>2. CASE d # c
    BY <1>3, <2>2, GoesOn
  <2> QED
    BY <2>1, <2>2
<1>4. ASSUME NEW c \in Captures,
             End(c) \/ Abandon(c) \/ Report(c) \/ Reported(c) \/ ReportFails(c)
      PROVE  Allowed(d)
  BY <1>3, <1>4 DEF End, Abandon, Report, Reported, ReportFails, Stages, Reporting, At
<1>5. ASSUME NEW c \in Captures, NEW verdict \in Verdicts \ {"none"}, Judge(c, verdict)
      PROVE  Allowed(d)
  BY <1>5 DEF TypeOK, Judge, Streams, Reporting
<1>6. ASSUME NEW c \in Captures, RecordAttempt(c) PROVE Allowed(d)
  <2>1. stream[c].stage \in Reporting \ {"idle"}
    BY <1>6 DEF RecordAttempt, Reporting
  <2>2. CASE \E stage \in Stages \ {"idle"} : Goes(c, stage)
    BY <1>3, <2>1, <2>2
  <2>3. CASE stream' = [stream EXCEPT ![c].stage = "answered",
                                      ![c].copy = table'[stream[c].session]]
    BY <2>1, <2>3 DEF TypeOK, Streams
  <2> QED
    BY <1>6, <2>2, <2>3 DEF RecordAttempt, Stages
<1>7. CASE Reload
  <2>1. stream'[d] = Interrupted(d)
    BY <1>7 DEF Reload
  <2> QED
    BY <2>1 DEF TypeOK, Interrupted, At, Streams, Stages, Reporting
<1> QED
  BY <1>1, <1>2, <1>4, <1>5, <1>6, <1>7
  DEF Next, Command, Press, Recording, Start, Restore, Terminate, RouterTerminates, Fail, Shown,
      TerminateAnswered, Record, Pressed, PressFails, CaptureTimeout, StreamRefused, DeviceFails,
      audio, vars

LEMMA StreamStep ==
  IInv /\ [Next]_vars => StreamsAreBound' /\ AnswersArePast' /\ ReportsAreJudged'
<1> SUFFICES ASSUME IInv, [Next]_vars, NEW d \in Captures
             PROVE  /\ IF stream'[d].stage = "idle" THEN stream'[d] = NoStream
                       ELSE /\ stream'[d].session \in Sessions
                            /\ table'[stream'[d].session].status # "ABSENT"
                            /\ stream'[d].user = table'[stream'[d].session].user
                    /\ stream'[d].stage # "idle" => IsPast(stream[d].copy, stream[d].session)'
                    /\ stream'[d].stage \in Reporting => stream'[d].verdict # "none"
  BY DEF StreamsAreBound, AnswersArePast, ReportsAreJudged
<1>1. TypeOK /\ StreamsAreBound
  BY DEF IInv
<1>2. \A s \in Sessions : Evolves(table[s], table'[s])
  BY <1>1, RowsEvolve
<1>3. CASE Stream(d)
  <2>1. active \in Sessions /\ view[active].status # "ABSENT" /\ IsPast(view[active], active)
    BY <1>1, <1>3 DEF Stream, IInv, TypeOK, ActiveIsViewed, ViewIsPast
  <2>2. stream'[d] = [NoStream EXCEPT !.stage = "recording", !.session = active,
                                      !.user = view[active].user]
    BY <1>1, <1>3 DEF Stream, TypeOK
  <2>3. /\ stream'[d].session = active /\ stream'[d].user = view[active].user
        /\ stream'[d].stage = "recording" /\ stream'[d].copy = NoRow
    BY <2>2 DEF NoStream
  <2>4. table' = table
    BY <1>3 DEF Stream, router
  <2>5. IsPast(stream[d].copy, stream[d].session)'
    BY <2>1, <2>3 DEF IsPast, NoRow
  <2> QED
    BY <2>1, <2>3, <2>4, <2>5 DEF IsPast, Reporting
<1>4. CASE stream[d].stage = "idle" /\ ~Stream(d)
  <2>1. stream'[d] = stream[d] /\ stream[d] = NoStream
    BY <1>1, <1>4, StreamChanges DEF StreamsAreBound
  <2> QED
    BY <2>1 DEF NoStream, Reporting
<1>5. CASE stream[d].stage # "idle" /\ ~Stream(d)
  <2> DEFINE s == stream[d].session
  <2>1. /\ s \in Sessions /\ table[s].status # "ABSENT" /\ stream[d].user = table[s].user
        /\ stream[d].copy \in Rows /\ IsPast(stream[d].copy, s)
    BY <1>1, <1>5 DEF IInv, TypeOK, StreamsAreBound, AnswersArePast, Streams
  <2>2. /\ stream'[d].stage # "idle" /\ stream'[d].session = s
        /\ stream'[d].user = stream[d].user
        /\ stream'[d].verdict = stream[d].verdict \/ stream[d].verdict = "none"
    BY <1>1, <1>5, StreamsCarry DEF Carries
  <2>3. table'[s].status # "ABSENT" /\ table'[s].user = table[s].user
    BY <1>2, <2>1 DEF Evolves
  <2>4. IsPast(stream[d].copy, stream[d].session)'
    <3>1. stream'[d].copy \in {stream[d].copy, NoRow, table'[s]}
      BY <1>1, <1>5, StreamChanges
    <3>2. PICK row \in Rows, r \in Sessions : row = stream[d].copy /\ r = s
      BY <2>1
    <3>3. IsPast(row, r)'
      <4>1. IsPast(row, r)
        BY <2>1, <3>2 DEF IsPast
      <4> QED
        BY <1>1, <4>1, PastStays
    <3> QED
      BY <2>1, <2>2, <2>3, <3>1, <3>2, <3>3 DEF IsPast, NoRow
  <2>5. stream'[d].stage \in Reporting => stream'[d].verdict # "none"
    BY <1>1, <1>5, <2>2, StreamChanges DEF IInv, ReportsAreJudged
  <2> QED
    BY <2>1, <2>2, <2>3, <2>4, <2>5
<1> QED
  BY <1>3, <1>4, <1>5

-----------------------------------------------------------------------------
(* Every step that ends the only timeout of a recording, or the last call  *)
(* that would schedule one, leaves the capture in another state.           *)
LEMMA TimedStep == IInv /\ [Next]_vars => RecordingIsTimed'
<1> SUFFICES ASSUME IInv, [Next]_vars, capture' = "RECORDING" PROVE timer' \/ presses' > 0
  BY DEF RecordingIsTimed
<1> USE DEF IInv, TypeOK, RecordingIsTimed
<1>1. CASE UNCHANGED <<capture, timer, presses>>
  BY <1>1
<1>2. ASSUME NEW s \in Sessions, Record(s) PROVE presses' > 0
  BY <1>2 DEF Record
<1>3. CASE Pressed
  BY <1>3 DEF Pressed
<1>4. CASE PressFails \/ CaptureTimeout \/ Reload
  BY <1>4 DEF PressFails, CaptureTimeout, Reload, Taken
<1>5. ASSUME NEW call \in calls, TerminateAnswered(call) PROVE FALSE
  BY <1>5 DEF TerminateAnswered
<1>6. ASSUME NEW c \in Captures, Report(c) PROVE FALSE
  BY <1>6 DEF Report
<1>7. ASSUME NEW c \in Captures, Reported(c) PROVE FALSE
  BY <1>7 DEF Reported, Streams, Verdicts
<1> QED
  BY <1>1, <1>2, <1>3, <1>4, <1>5, <1>6, <1>7
  DEF Next, Command, Press, Recording, Start, Restore, Terminate, RouterTerminates, Fail, Shown,
      StreamRefused, Stream, End, DeviceFails, Abandon, Judge, RecordAttempt, ReportFails,
      coordinator, panel, vars

-----------------------------------------------------------------------------
(* The part of SamplesAreTheirs that is about one row.                     *)
Counts(r) ==
  /\ Cardinality(r.samples) <= Target
  /\ r.status = "COMPLETED" <=> Cardinality(r.samples) = Target

LEMMA CountsIn ==
  ASSUME TypeOK, StreamsAreBound, [Next]_vars, \A s \in Sessions : Counts(table[s])
  PROVE  \A s \in Sessions : Counts(table'[s])
<1> DEFINE Good == \A s \in Sessions : Counts(table'[s])
<1> SUFFICES Good
  OBVIOUS
<1> USE DEF TypeOK
<1>1. CASE UNCHANGED table
  BY <1>1
<1>2. ASSUME NEW u \in Users, Start(u) PROVE Good
  <2>1. Counts(Opened(u))
    BY FS_EmptySet, EnrollmentAssumption DEF Counts, Opened
  <2> QED
    BY <1>2, <2>1 DEF Start
<1>3. ASSUME NEW call \in calls, RouterTerminates(call) PROVE Good
  <2>1. call.session \in Sessions
    BY DEF Calls
  <2>2. Counts(Terminated(table[call.session]))
    BY <2>1, TerminatedRow DEF Counts
  <2> QED
    BY <1>3, <2>1, <2>2 DEF RouterTerminates
<1>4. ASSUME NEW c \in Captures, RecordAttempt(c), table' # table PROVE Good
  <2> DEFINE s == stream[c].session
             r == table[s]
             q == Attempted(r, c, stream[c].verdict)
  <2>1. s \in Sessions /\ r \in Rows /\ r.status = "ACTIVE" /\ table' = [table EXCEPT ![s] = q]
    BY <1>4 DEF RecordAttempt, StreamsAreBound
  <2>2. q.samples \in {r.samples, r.samples \cup {c}}
        /\ (q.status = "COMPLETED" <=> Cardinality(q.samples) = Target)
    BY <2>1, AttemptedRow
  <2> HIDE DEF q
  <2>3. Cardinality(q.samples) <= Target
    <3>1. IsFiniteSet(r.samples)
      BY <2>1, FS_Subset, EnrollmentAssumption DEF Rows
    <3>2. Cardinality(r.samples) \in Nat /\ Cardinality(r.samples) < Target
      BY <2>1, <3>1, FS_CardinalityType, EnrollmentAssumption DEF Counts
    <3>3. Cardinality(r.samples \cup {c}) \in {Cardinality(r.samples), Cardinality(r.samples) + 1}
      BY <3>1, FS_AddElement
    <3>4. Target \in Nat
      BY EnrollmentAssumption
    <3>5. CASE q.samples = r.samples
      BY <3>2, <3>4, <3>5
    <3>6. CASE q.samples = r.samples \cup {c}
      BY <3>2, <3>3, <3>4, <3>6
    <3> QED
      BY <2>2, <3>5, <3>6
  <2>4. Counts(q)
    BY <2>2, <2>3 DEF Counts
  <2> QED
    BY <2>1, <2>4 DEF q
<1> QED
  BY <1>1, <1>2, <1>3, <1>4
  DEF Next, Command, Press, Recording, Restore, Terminate, Fail, Shown, TerminateAnswered, Record,
      Pressed, PressFails, CaptureTimeout, StreamRefused, Stream, End, DeviceFails, Abandon, Judge,
      Report, Reported, ReportFails, Reload, router, vars

(* The part that is about a sample.                                        *)
Belongs(c, s) ==
  stream[c].verdict = "ACCEPTED" /\ stream[c].session = s /\ stream[c].user = table[s].user

LEMMA BelongsStays ==
  ASSUME IInv, [Next]_vars, NEW s \in Sessions, NEW c \in Captures, Belongs(c, s)
  PROVE  Belongs(c, s)'
<1>1. TypeOK /\ StreamsAreBound
  BY DEF IInv
<1>2. stream[c].stage # "idle" /\ table[s].status # "ABSENT"
  BY <1>1 DEF StreamsAreBound, NoStream, Belongs
<1>3. Carries(stream[c], stream'[c]) /\ Evolves(table[s], table'[s])
  BY <1>1, RowsEvolve, StreamsCarry
<1> QED
  BY <1>2, <1>3 DEF Belongs, Carries, Evolves

LEMMA NewSample ==
  ASSUME IInv, [Next]_vars, NEW s \in Sessions, NEW c \in Captures, c \in table'[s].samples,
         c \notin table[s].samples
  PROVE  Belongs(c, s)
<1> USE DEF IInv, TypeOK
<1>1. ASSUME NEW u \in Users, Start(u) PROVE Belongs(c, s)
  BY <1>1 DEF Start, Opened
<1>2. ASSUME NEW call \in calls, RouterTerminates(call) PROVE Belongs(c, s)
  <2>1. call.session \in Sessions
    BY DEF Calls
  <2>2. Terminated(table[call.session]).samples = table[call.session].samples
    BY <2>1, TerminatedRow
  <2> QED
    BY <1>2, <2>1, <2>2 DEF RouterTerminates
<1>3. ASSUME NEW d \in Captures, RecordAttempt(d) PROVE Belongs(c, s)
  <2> DEFINE t == stream[d].session
  <2>1. t \in Sessions /\ stream[d].user = table[t].user
    BY <1>3 DEF RecordAttempt, StreamsAreBound
  <2>2. table[t].status = "ACTIVE" /\ table' = [table EXCEPT ![t] = Attempted(@, d, stream[d].verdict)]
    BY <1>3 DEF RecordAttempt
  <2> DEFINE q == Attempted(table[t], d, stream[d].verdict)
  <2>3. /\ stream[d].verdict = "ACCEPTED" => q.samples = table[t].samples \cup {d}
        /\ stream[d].verdict # "ACCEPTED" => q.samples = table[t].samples
    BY <2>1, <2>2, AttemptedRow
  <2> HIDE DEF q
  <2>4. s = t /\ c = d /\ stream[d].verdict = "ACCEPTED"
    BY <2>1, <2>2, <2>3 DEF q
  <2> QED
    BY <2>1, <2>4 DEF Belongs
<1> QED
  BY <1>1, <1>2, <1>3
  DEF Next, Command, Press, Recording, Restore, Terminate, Fail, Shown, TerminateAnswered, Record,
      Pressed, PressFails, CaptureTimeout, StreamRefused, Stream, End, DeviceFails, Abandon, Judge,
      Report, Reported, ReportFails, Reload, router, vars

LEMMA SamplesStep == IInv /\ [Next]_vars => SamplesAreTheirs'
<1> SUFFICES ASSUME IInv, [Next]_vars PROVE SamplesAreTheirs'
  OBVIOUS
<1>1. TypeOK /\ StreamsAreBound /\ \A s \in Sessions : Counts(table[s])
  BY DEF IInv, SamplesAreTheirs, Counts
<1>2. \A s \in Sessions : Counts(table'[s])
  BY <1>1, CountsIn
<1>3. ASSUME NEW s \in Sessions, NEW c \in table'[s].samples PROVE Belongs(c, s)'
  <2>1. TypeOK'
    BY TypeStep DEF IInv
  <2>2. c \in Captures
    BY <2>1 DEF TypeOK, Rows
  <2>3. CASE c \in table[s].samples
    <3>1. Belongs(c, s)
      BY <2>3 DEF IInv, SamplesAreTheirs, Belongs
    <3> QED
      BY <2>2, <3>1, BelongsStays
  <2>4. CASE c \notin table[s].samples
    BY <2>2, <2>4, NewSample, BelongsStays
  <2> QED
    BY <2>3, <2>4
<1> QED
  BY <1>2, <1>3 DEF SamplesAreTheirs, Counts, Belongs

-----------------------------------------------------------------------------
LEMMA InitIInv == Init => IInv
<1> SUFFICES ASSUME Init PROVE IInv
  OBVIOUS
<1> USE NoRowIsRow, NoStreamIsStream, EnrollmentAssumption DEF Init
<1>1. TypeOK
  BY DEF TypeOK
<1>2. SamplesAreTheirs
  <2>1. Cardinality({}) = 0 /\ Target \in Nat \ {0}
    BY FS_EmptySet
  <2>2. \A s \in Sessions : table[s].samples = {} /\ table[s].status = "ABSENT"
    BY DEF NoRow
  <2>3. \A s \in Sessions : Cardinality(table[s].samples) = 0
    BY <2>1, <2>2
  <2> QED
    BY <2>1, <2>2, <2>3 DEF SamplesAreTheirs
<1>3. ViewIsPast /\ CallsArePast /\ ActiveIsViewed
  BY DEF ViewIsPast, CallsArePast, ActiveIsViewed, IsPast, NoRow
<1>4. AnswersArePast /\ StreamsAreBound /\ ReportsAreJudged
  BY DEF AnswersArePast, StreamsAreBound, ReportsAreJudged, Reporting, NoStream
<1>5. RecordingIsTimed
  BY DEF RecordingIsTimed
<1> QED
  BY <1>1, <1>2, <1>3, <1>4, <1>5 DEF IInv

LEMMA Inductive == Spec => []IInv
<1>1. IInv /\ [Next]_vars => IInv'
  BY TypeStep, SamplesStep, ViewStep, TimedStep, CallsStep, StreamStep DEF IInv
<1> QED
  BY <1>1, InitIInv, PTL DEF Spec

(* Every variable has its type: in particular, the panel is never told a   *)
(* verdict that Speaker-ID did not give.                                   *)
THEOREM TypeCorrect == Spec => []TypeOK
<1>1. IInv => TypeOK
  BY DEF IInv
<1> QED
  BY <1>1, Inductive, PTL

(* record_attempt counts only stored samples of the session's own user,    *)
(* and completes a session exactly at its target.                          *)
THEOREM SamplesBelong == Spec => []SamplesAreTheirs
<1>1. IInv => SamplesAreTheirs
  BY DEF IInv
<1> QED
  BY <1>1, Inductive, PTL

(* _sessions_by_id holds states the Router's session had.                  *)
THEOREM ViewsArePast == Spec => []ViewIsPast
<1>1. IInv => ViewIsPast
  BY DEF IInv
<1> QED
  BY <1>1, Inductive, PTL

(* No recording is without a timeout, or the call that schedules it.       *)
THEOREM RecordingsAreTimed == Spec => []RecordingIsTimed
<1>1. IInv => RecordingIsTimed
  BY DEF IInv
<1> QED
  BY <1>1, Inductive, PTL

(* Neither terminate nor record_attempt changes a session that is over.    *)
THEOREM SessionsStayOver == Spec => TerminalSessionsStay
<1>1. IInv /\ [Next]_vars =>
        [\A s \in Sessions :
           table[s].status \in {"COMPLETED", "TERMINATED"} => table'[s] = table[s]]_table
  BY RowsEvolve DEF IInv, Evolves
<1> QED
  BY <1>1, Inductive, PTL DEF Spec, TerminalSessionsStay
-----------------------------------------------------------------------------
(* Of what Speaker-ID keeps.  A profile is rebuilt in the transaction that *)
(* writes its rows.  A row is written once, when its stream ends, and its  *)
(* file before it: only a row that is gone may lose its file, and it does  *)
(* not come back, as its stream is over.  What a deletion has selected     *)
(* under the lock of the store stays the user's until it is deleted.       *)
Configs == [threshold : Scores, margin : Nat, revision : Nat]
Outcomes == {"CANCELLED", "FAILED", "REJECTED", "ACCEPTED", "NOT_RECOGNIZED", "IDENTIFIED",
             "ERROR", "LOST"}
StreamPhases == {"idle", "open", "prepared", "adding", "recording", "done"}
StreamStates ==
  [phase : StreamPhases, purpose : {"IDENTIFICATION", "ENROLLMENT", NoUser},
   user : Store!UserIds \cup {NoUser}, setting : Configs \cup {NoUser}, processed : BOOLEAN,
   failed : BOOLEAN, scores : UNION {[U -> Scores] : U \in SUBSET Store!UserIds},
   told : Outcomes \cup {NoUser}]
AdminPhases ==
  {"idle", "asked", "selected", "unlinking", "writing", "done", "failed", "lost"}
AdminStates ==
  [phase : AdminPhases,
   user : Store!UserIds \cup {NoUser}, rows : SUBSET Store!Samples, left : SUBSET Store!Samples,
   setting : Configs \cup {NoUser}]

StoreTyped ==
  /\ owner \in [Store!Samples -> Store!UserIds \cup {NoUser}]
  /\ profile \in [Store!UserIds -> SUBSET Store!Samples]
  /\ files \subseteq Store!Samples
  /\ config \in Configs
  /\ voice \in [Captures -> StreamStates]
  /\ admin \in [Admins -> AdminStates]

(* What is made of a stream is stored when it ends, and never again.       *)
Settled(s) == s \in Captures => voice[s].phase = "done"

SampleOK(s) == owner[s] # NoUser => s \in files /\ Settled(s)

AddingOK(s) ==
  /\ voice[s].phase = "adding" => s \in files /\ voice[s].purpose = "ENROLLMENT"
  /\ voice[s].phase # "idle" /\ voice[s].purpose = "ENROLLMENT" => voice[s].user \in Store!UserIds

(* The rows that a deletion has selected stay the user's, as it holds the  *)
(* lock; those that it has deleted stay gone.                              *)
AdminOK(a) ==
  /\ admin[a].phase \in {"asked", "selected", "unlinking"} =>
       admin[a].user \in Store!UserIds /\ \A s \in admin[a].rows : Settled(s)
  /\ admin[a].phase = "selected" =>
       holder = a /\ admin[a].rows \subseteq Store!SamplesOf(admin[a].user)
  /\ admin[a].phase \in {"unlinking", "done"} =>
       \A s \in admin[a].rows : owner[s] = NoUser /\ Settled(s)
  /\ admin[a].phase = "unlinking" => admin[a].left \subseteq admin[a].rows
  /\ admin[a].phase \in {"idle", "writing"} => admin[a].rows = {}
  /\ admin[a].phase = "writing" => admin[a].setting \in Configs

StoreInv ==
  /\ StoreTyped
  /\ \A u \in Store!UserIds : profile[u] = Store!SamplesOf(u)
  /\ \A s \in Store!Samples : SampleOK(s)
  /\ \A s \in Captures : AddingOK(s)
  /\ \A a \in Admins : AdminOK(a)
  /\ Store!DeletedOnce

-----------------------------------------------------------------------------
LEMMA NoneIsNoUser ==
  NoUser \notin Store!UserIds /\ NoUser \notin Admins /\ Captures \subseteq Store!Samples
BY StoreAssumption DEF Store!SpeakerStoreAssumption, Store!UserIds, Store!Samples

LEMMA NoneIsNoAnswer ==
  NoUser \notin Store!Rows \cup {"IDENTIFIED", "NOT_RECOGNIZED", "FAILED", "LOST"}
BY StoreAssumption DEF Store!SpeakerStoreAssumption

LEMMA SettingIs ==
  ASSUME NEW s \in Settings, NEW revision \in Nat
  PROVE  Store!Setting(s, revision) \in Configs
BY StoreAssumption DEF Store!SpeakerStoreAssumption, Store!Setting, Configs

LEMMA NothingIsTyped ==
  /\ Store!NoScores \in UNION {[U -> Scores] : U \in SUBSET Store!UserIds}
  /\ Store!NoStream \in StreamStates /\ Store!NoCall \in AdminStates
<1>1. Store!NoScores \in [{} -> Scores]
  BY DEF Store!NoScores
<1>2. Store!NoScores \in UNION {[U -> Scores] : U \in SUBSET Store!UserIds}
  BY <1>1
<1>3. Store!NoStream \in StreamStates
  BY <1>2 DEF Store!NoStream, StreamStates, StreamPhases
<1>4. Store!NoCall \in AdminStates
  BY DEF Store!NoCall, AdminStates, AdminPhases
<1> QED
  BY <1>2, <1>3, <1>4

(* A stream moves on: of the samples only its own file may come or go.     *)
LEMMA StreamMoves ==
  ASSUME StoreInv, NEW s \in Captures, NEW v \in StreamStates, voice[s].phase # "done",
         voice' = [voice EXCEPT ![s] = v], UNCHANGED <<owner, profile, config, admin, holder>>,
         files' \subseteq Store!Samples, files \ {s} \subseteq files',
         v.phase = "adding" => s \in files' /\ v.purpose = "ENROLLMENT",
         v.purpose = "ENROLLMENT" => v.user \in Store!UserIds
  PROVE  StoreInv'
<1>1. /\ voice' \in [Captures -> StreamStates]
      /\ \A q \in Captures : voice'[q] = IF q = s THEN v ELSE voice[q]
  BY DEF StoreInv, StoreTyped
<1>2. StoreTyped' /\ Store!DeletedOnce'
  BY <1>1 DEF StoreInv, StoreTyped, Store!DeletedOnce
<1>3. \A q \in Store!Samples : Settled(q) => q # s /\ Settled(q)'
  BY <1>1 DEF Settled
<1>4. \A u \in Store!UserIds : profile'[u] = Store!SamplesOf(u)'
  BY DEF StoreInv, Store!SamplesOf
<1>5. \A q \in Store!Samples : SampleOK(q)'
  BY <1>3 DEF StoreInv, SampleOK
<1>6. ASSUME NEW q \in Captures PROVE AddingOK(q)'
  <2>1. CASE q = s
    BY <1>1, <2>1 DEF AddingOK
  <2>2. CASE q # s
    BY <1>1, <2>2 DEF StoreInv, AddingOK
  <2> QED
    BY <2>1, <2>2
<1>7. ASSUME NEW a \in Admins PROVE AdminOK(a)'
  <2>1. admin[a].rows \subseteq Store!Samples /\ AdminOK(a)
    BY DEF StoreInv, StoreTyped, AdminStates
  <2> QED
    BY <1>3, <2>1 DEF AdminOK, Store!SamplesOf
<1> QED
  BY <1>2, <1>4, <1>5, <1>6, <1>7 DEF StoreInv

LEMMA PhaseIs ==
  ASSUME NEW w \in StreamStates, NEW p \in StreamPhases
  PROVE  LET v == [w EXCEPT !.phase = p]
         IN v \in StreamStates /\ v.phase = p /\ v.purpose = w.purpose /\ v.user = w.user
BY DEF StreamStates

LEMMA ToldIs ==
  ASSUME StoreInv, NEW s \in Captures, NEW answer \in Outcomes, voice' = Store!Told(s, answer)
  PROVE  \E v \in StreamStates :
           /\ voice' = [voice EXCEPT ![s] = v]
           /\ v.phase = "done" /\ v.purpose = voice[s].purpose /\ v.user = voice[s].user
<1>1. voice[s] \in StreamStates
  BY DEF StoreInv, StoreTyped
<1> PICK w : w = [voice[s] EXCEPT !.phase = "done"]
  OBVIOUS
<1>2. w \in StreamStates /\ w.phase = "done" /\ w.purpose = voice[s].purpose
       /\ w.user = voice[s].user
  BY <1>1, PhaseIs DEF StreamPhases
<1> PICK v : v = [w EXCEPT !.told = answer]
  OBVIOUS
<1>3. v \in StreamStates /\ v.phase = "done" /\ v.purpose = w.purpose /\ v.user = w.user
  BY <1>2 DEF StreamStates
<1>4. voice' = [voice EXCEPT ![s] = v]
  BY <1>1 DEF Store!Told, StoreInv, StoreTyped
<1> QED
  BY <1>2, <1>3, <1>4

LEMMA SettingMoves ==
  ASSUME NEW v \in StreamStates, NEW setting \in Configs
  PROVE  LET x == [v EXCEPT !.setting = setting]
         IN  x \in StreamStates /\ x.phase = v.phase /\ x.purpose = v.purpose
BY DEF StreamStates

LEMMA StartKeeps == ASSUME StoreInv, NEW s \in Captures, Store!Start(s) PROVE StoreInv'
<1>1. voice[s].phase = "idle" /\ UNCHANGED <<owner, profile, files, config, admin, holder>>
  BY DEF Store!Start, Store!samplesVars, Store!locks
<1>2. /\ config \in Configs
      /\ Store!NoStream = [phase |-> "idle", purpose |-> NoUser, user |-> NoUser, setting |-> NoUser,
                     processed |-> FALSE, failed |-> FALSE, scores |-> Store!NoScores,
                     told |-> NoUser]
      /\ Store!NoStream \in StreamStates
  BY NothingIsTyped DEF StoreInv, StoreTyped, Store!NoStream
<1> PICK w : w = [Store!NoStream EXCEPT !.phase = "open"]
  OBVIOUS
<1>3. w \in StreamStates /\ w.phase = "open"
  BY <1>2, PhaseIs DEF StreamPhases
<1>4. CASE voice' = [voice EXCEPT ![s] =
          [Store!NoStream EXCEPT !.phase = "open", !.purpose = "IDENTIFICATION", !.setting = config]]
  <2> PICK v : v = [w EXCEPT !.purpose = "IDENTIFICATION"]
    OBVIOUS
  <2>1. v \in StreamStates /\ v.phase = "open" /\ v.purpose = "IDENTIFICATION"
    BY <1>3 DEF StreamStates
  <2> PICK x : x = [v EXCEPT !.setting = config]
    OBVIOUS
  <2>2. x \in StreamStates /\ x.phase = "open" /\ x.purpose = "IDENTIFICATION"
    BY <1>2, <2>1, SettingMoves
  <2>3. voice' = [voice EXCEPT ![s] = x]
    BY <1>4
  <2> QED
    BY <1>1, <2>2, <2>3, StreamMoves DEF StoreInv, StoreTyped
<1>5. CASE \E u \in Store!UserIds : voice' = [voice EXCEPT ![s] =
          [Store!NoStream EXCEPT !.phase = "open", !.purpose = "ENROLLMENT", !.user = u]]
  <2>1. PICK u \in Store!UserIds : voice' = [voice EXCEPT ![s] =
          [Store!NoStream EXCEPT !.phase = "open", !.purpose = "ENROLLMENT", !.user = u]]
    BY <1>5
  <2> PICK v : v = [w EXCEPT !.purpose = "ENROLLMENT"]
    OBVIOUS
  <2>2. v \in StreamStates /\ v.phase = "open"
    BY <1>3 DEF StreamStates
  <2> PICK x : x = [v EXCEPT !.user = u]
    OBVIOUS
  <2>3. x \in StreamStates /\ x.phase = "open" /\ x.user = u
    BY <2>2 DEF StreamStates
  <2>4. voice' = [voice EXCEPT ![s] = x]
    BY <2>1
  <2> QED
    BY <1>1, <2>3, <2>4, StreamMoves DEF StoreInv, StoreTyped
<1> QED
  BY <1>4, <1>5 DEF Store!Start

LEMMA PrepareKeeps == ASSUME StoreInv, NEW s \in Captures, Store!Prepare(s) PROVE StoreInv'
<1>1. voice[s].phase = "open" /\ UNCHANGED <<owner, profile, files, config, admin, holder>>
  BY DEF Store!Prepare, Store!samplesVars, Store!locks
<1>2. PICK processed \in BOOLEAN, failed \in BOOLEAN,
           scores \in UNION {[U -> Scores] : U \in SUBSET Store!UserIds} :
        Store!Prepared(s, processed, failed, scores)
  <2>1. CASE Store!Rejected(s) \/ Store!EmbeddingFails(s) \/ Store!Embedded(s)
    BY <2>1, NothingIsTyped DEF Store!Rejected, Store!EmbeddingFails, Store!Embedded
  <2>2. CASE Store!Compared(s)
    <3>1. PICK scores \in [Store!Profiles -> Scores] : Store!Prepared(s, TRUE, FALSE, scores)
      BY <2>2 DEF Store!Compared
    <3>2. Store!Profiles \in SUBSET Store!UserIds
      BY DEF Store!Profiles
    <3> QED
      BY <3>1, <3>2
  <2> QED
    BY <2>1, <2>2 DEF Store!Prepare
<1>3. voice[s] \in StreamStates
  BY DEF StoreInv, StoreTyped
<1> PICK w : w = [voice[s] EXCEPT !.phase = "prepared"]
  OBVIOUS
<1>4. w \in StreamStates /\ w.phase = "prepared" /\ w.purpose = voice[s].purpose
       /\ w.user = voice[s].user
  BY <1>3, PhaseIs DEF StreamPhases
<1> PICK x : x = [w EXCEPT !.processed = processed]
  OBVIOUS
<1>5. x \in StreamStates /\ x.phase = w.phase /\ x.purpose = w.purpose /\ x.user = w.user
  BY <1>4 DEF StreamStates
<1> PICK y : y = [x EXCEPT !.failed = failed]
  OBVIOUS
<1>6. y \in StreamStates /\ y.phase = x.phase /\ y.purpose = x.purpose /\ y.user = x.user
  BY <1>5 DEF StreamStates
<1> PICK v : v = [y EXCEPT !.scores = scores]
  OBVIOUS
<1>7. v \in StreamStates /\ v.phase = y.phase /\ v.purpose = y.purpose /\ v.user = y.user
  BY <1>6 DEF StreamStates
<1>8. voice' = [voice EXCEPT ![s] = v]
  BY <1>2, <1>3 DEF Store!Prepared, StoreInv, StoreTyped
<1>9. v.purpose = "ENROLLMENT" => v.user \in Store!UserIds
  BY <1>1, <1>4, <1>5, <1>6, <1>7 DEF StoreInv, AddingOK
<1> QED
  BY <1>1, <1>4, <1>5, <1>6, <1>7, <1>8, <1>9, StreamMoves DEF StoreInv, StoreTyped

(* A stream ends, and nothing is stored of it.                             *)
LEMMA EndsKeeps ==
  ASSUME StoreInv, NEW s \in Captures, NEW answer \in Outcomes, voice' = Store!Told(s, answer),
         voice[s].phase \notin {"idle", "done"},
         UNCHANGED <<owner, profile, config, admin, holder>>,
         files' \subseteq Store!Samples, files \ {s} \subseteq files'
  PROVE  StoreInv'
<1>1. PICK v \in StreamStates :
        /\ voice' = [voice EXCEPT ![s] = v]
        /\ v.phase = "done" /\ v.purpose = voice[s].purpose /\ v.user = voice[s].user
  BY ToldIs
<1>2. v.purpose = "ENROLLMENT" => v.user \in Store!UserIds
  BY <1>1 DEF StoreInv, AddingOK
<1> QED
  BY <1>1, <1>2, StreamMoves

LEMMA OutcomeIs == ASSUME NEW s, NEW ranked PROVE Store!_identify(s, ranked).outcome \in Outcomes
<1>1. ASSUME NEW scores, NEW setting
      PROVE  Store!classify_scores(scores, ranked, setting).outcome \in Outcomes
  BY DEF Store!classify_scores, Store!Verdict, Outcomes
<1> QED
  BY <1>1 DEF Store!_identify, Store!Verdict, Outcomes

LEMMA EndKeeps ==
  ASSUME StoreInv, NEW s \in Captures,
         \/ Store!Cancelled(s) \/ Store!Refused(s) \/ Store!AddFails(s)
         \/ Store!record(s) \/ Store!RecordFails(s)
  PROVE  StoreInv'
<1>1. files \subseteq Store!Samples
  BY DEF StoreInv, StoreTyped
<1>2. CASE Store!Cancelled(s)
  BY <1>1, <1>2, EndsKeeps DEF Store!Cancelled, Store!samplesVars, Store!locks, Outcomes
<1>3. CASE Store!Refused(s)
  BY <1>1, <1>3, EndsKeeps DEF Store!Refused, Store!samplesVars, Store!locks, Outcomes
<1>4. CASE Store!AddFails(s)
  BY <1>1, <1>4, EndsKeeps DEF Store!AddFails, Store!locks, Outcomes
<1>5. CASE Store!record(s)
  BY <1>1, <1>5, EndsKeeps, OutcomeIs DEF Store!record, Store!samplesVars, Store!locks
<1>6. CASE Store!RecordFails(s)
  BY <1>1, <1>6, EndsKeeps DEF Store!RecordFails, Store!samplesVars, Store!locks, Outcomes
<1> QED
  BY <1>2, <1>3, <1>4, <1>5, <1>6

LEMMA WritesKeep ==
  ASSUME StoreInv, NEW s \in Captures, Store!WriteSample(s) \/ Store!WriteAudio(s)
  PROVE  StoreInv'
<1>1. PICK p \in {"adding", "recording"} : voice' = [voice EXCEPT ![s].phase = p]
        /\ (p = "adding" => s \in files' /\ voice[s].purpose = "ENROLLMENT")
  BY DEF Store!WriteSample, Store!WriteAudio, Store!Enrolling
<1>2. /\ voice[s].phase = "prepared" /\ UNCHANGED <<owner, profile, config, admin, holder>>
      /\ files' \in {files, files \cup {s}}
  BY DEF Store!WriteSample, Store!WriteAudio, Store!samplesVars, Store!locks
<1> PICK v : v = [voice[s] EXCEPT !.phase = p]
  OBVIOUS
<1>3. v \in StreamStates /\ v.phase = p /\ v.purpose = voice[s].purpose /\ v.user = voice[s].user
  <2>1. voice[s] \in StreamStates
    BY DEF StoreInv, StoreTyped
  <2>2. p \in StreamPhases
    BY DEF StreamPhases
  <2> QED
    BY <2>1, <2>2, PhaseIs
<1>4. voice' = [voice EXCEPT ![s] = v]
  BY <1>1 DEF StoreInv, StoreTyped
<1>5. v.purpose = "ENROLLMENT" => v.user \in Store!UserIds
  BY <1>2, <1>3 DEF StoreInv, AddingOK
<1>6. files' \subseteq Store!Samples /\ files \ {s} \subseteq files'
  BY <1>2, NoneIsNoUser DEF StoreInv, StoreTyped
<1> QED
  BY <1>1, <1>2, <1>3, <1>4, <1>5, <1>6, StreamMoves

LEMMA AddKeeps == ASSUME StoreInv, NEW s \in Captures, Store!add_sample(s) PROVE StoreInv'
<1> PICK u : u = voice[s].user
  OBVIOUS
<1>1. /\ voice[s].phase = "adding" /\ owner' = [owner EXCEPT ![s] = u]
      /\ profile' = [profile EXCEPT ![u] = {q \in Store!Samples : owner'[q] = u}]
      /\ voice' = Store!Told(s, "ACCEPTED") /\ UNCHANGED <<files, config, admin, holder>>
  BY DEF Store!add_sample, Store!_rebuild_profile, Store!locks
<1>2. s \in files /\ u \in Store!UserIds /\ s \in Store!Samples
  BY <1>1, NoneIsNoUser DEF StoreInv, AddingOK
<1>3. PICK v \in StreamStates : voice' = [voice EXCEPT ![s] = v] /\ v.phase = "done"
                                 /\ v.purpose = voice[s].purpose /\ v.user = voice[s].user
  BY <1>1, ToldIs DEF Outcomes
<1>4. /\ voice' \in [Captures -> StreamStates]
      /\ \A q \in Captures : voice'[q] = IF q = s THEN v ELSE voice[q]
  BY <1>3 DEF StoreInv, StoreTyped
<1>5. /\ owner' \in [Store!Samples -> Store!UserIds \cup {NoUser}]
      /\ \A q \in Store!Samples : owner'[q] = IF q = s THEN u ELSE owner[q]
  BY <1>1, <1>2 DEF StoreInv, StoreTyped
<1>6. ~Settled(s) /\ owner[s] = NoUser
  BY <1>1, <1>2 DEF StoreInv, SampleOK, Settled
<1>7. /\ profile' \in [Store!UserIds -> SUBSET Store!Samples]
      /\ \A w \in Store!UserIds : profile'[w] = Store!SamplesOf(w)'
  <2>1. profile' \in [Store!UserIds -> SUBSET Store!Samples]
    BY <1>1, <1>2 DEF StoreInv, StoreTyped
  <2>2. profile'[u] = Store!SamplesOf(u)'
    BY <1>1, <1>2 DEF StoreInv, StoreTyped, Store!SamplesOf
  <2>3. ASSUME NEW w \in Store!UserIds, w # u PROVE profile'[w] = Store!SamplesOf(w)'
    BY <1>1, <1>5, <1>6, <2>3, NoneIsNoUser DEF StoreInv, StoreTyped, Store!SamplesOf
  <2> QED
    BY <2>1, <2>2, <2>3
<1>8. StoreTyped' /\ Store!DeletedOnce'
  BY <1>1, <1>4, <1>5, <1>7 DEF StoreInv, StoreTyped, Store!DeletedOnce
<1>9. \A q \in Store!Samples : (Settled(q) => Settled(q)' /\ q # s) /\ (q = s => Settled(q)')
  BY <1>3, <1>4, <1>6 DEF Settled
<1>10. \A q \in Store!Samples : SampleOK(q)'
  BY <1>1, <1>2, <1>5, <1>9 DEF StoreInv, SampleOK
<1>11. ASSUME NEW q \in Captures PROVE AddingOK(q)'
  <2>1. CASE q = s
    BY <1>2, <1>3, <1>4, <2>1 DEF AddingOK
  <2>2. CASE q # s
    BY <1>1, <1>4, <2>2 DEF StoreInv, AddingOK
  <2> QED
    BY <2>1, <2>2
<1>12. ASSUME NEW a \in Admins PROVE AdminOK(a)'
  <2>1. admin[a].rows \subseteq Store!Samples /\ AdminOK(a)
    BY DEF StoreInv, StoreTyped, AdminStates
  <2>2. admin[a].phase = "selected" => admin[a].rows \subseteq Store!SamplesOf(admin[a].user)'
    <3> SUFFICES ASSUME admin[a].phase = "selected", NEW q \in admin[a].rows
                 PROVE  owner'[q] = admin[a].user
      BY <1>1, <2>1 DEF Store!SamplesOf
    <3>1. owner[q] = admin[a].user /\ Settled(q) /\ q \in Store!Samples
      BY <2>1 DEF AdminOK, Store!SamplesOf
    <3> QED
      BY <1>5, <1>9, <3>1
  <2> QED
    BY <1>1, <1>5, <1>9, <2>1, <2>2 DEF AdminOK
<1> QED
  BY <1>7, <1>8, <1>10, <1>11, <1>12 DEF StoreInv

-----------------------------------------------------------------------------
(* A call of the Admin moves on: of the files only those of samples that   *)
(* are deleted may go.                                                     *)
LEMMA AdminMoves ==
  ASSUME StoreInv, NEW a \in Admins, NEW v \in AdminStates, admin' = [admin EXCEPT ![a] = v],
         UNCHANGED <<owner, profile, voice>>, config' \in Configs,
         holder' = holder \/ holder \in {NoUser, a},
         files' \subseteq Store!Samples,
         \A s \in files \ files' : owner[s] = NoUser /\ Settled(s),
         v.phase \in {"unlinking", "done"} =>
           \/ v.rows = {}
           \/ admin[a].phase \in {"unlinking", "done"} /\ v.rows = admin[a].rows,
         v.phase \in {"asked", "selected", "unlinking"} =>
           v.user \in Store!UserIds /\ \A s \in v.rows : Settled(s),
         v.phase = "selected" => holder' = a /\ v.rows \subseteq Store!SamplesOf(v.user),
         v.phase = "unlinking" => v.left \subseteq v.rows,
         v.phase \in {"idle", "writing"} => v.rows = {},
         v.phase = "writing" => v.setting \in Configs
  PROVE  StoreInv'
<1>1. /\ admin' \in [Admins -> AdminStates]
      /\ \A b \in Admins : admin'[b] = IF b = a THEN v ELSE admin[b]
  BY DEF StoreInv, StoreTyped
<1>2. StoreTyped'
  BY <1>1 DEF StoreInv, StoreTyped
<1>3. \A u \in Store!UserIds : profile'[u] = Store!SamplesOf(u)'
  BY DEF StoreInv, Store!SamplesOf
<1>4. (\A s \in Store!Samples : SampleOK(s)') /\ \A s \in Captures : AddingOK(s)'
  BY NoneIsNoUser DEF StoreInv, SampleOK, AddingOK, Settled
<1>5. ASSUME NEW b \in Admins PROVE AdminOK(b)'
  <2>1. AdminOK(b) /\ AdminOK(a)
    BY DEF StoreInv
  <2>2. CASE b = a
    BY <1>1, <2>1, <2>2 DEF AdminOK, Settled, Store!SamplesOf
  <2>3. CASE b # a
    BY <1>1, <2>1, <2>3, NoneIsNoUser DEF AdminOK, Settled, Store!SamplesOf
  <2> QED
    BY <2>2, <2>3
<1>6. Store!DeletedOnce'
  <2> SUFFICES ASSUME NEW b \in Admins, NEW c \in Admins, b # c,
                      {admin'[b].phase, admin'[c].phase} \subseteq {"unlinking", "done"}
               PROVE  admin'[b].rows \cap admin'[c].rows = {}
    BY DEF Store!DeletedOnce
  <2>1. \A d \in {b, c} : \/ admin'[d].rows = {}
                          \/ /\ admin[d].phase \in {"unlinking", "done"}
                             /\ admin'[d].rows = admin[d].rows
    BY <1>1
  <2> QED
    BY <2>1 DEF StoreInv, Store!DeletedOnce
<1> QED
  BY <1>2, <1>3, <1>4, <1>5, <1>6 DEF StoreInv

LEMMA AdminIs ==
  ASSUME StoreInv, NEW a \in Admins
  PROVE  /\ admin[a] \in AdminStates /\ AdminOK(a) /\ config \in Configs
         /\ files \subseteq Store!Samples /\ admin[a].rows \subseteq Store!Samples
         /\ \A v : [admin EXCEPT ![a] = v][a] = v
BY DEF StoreInv, StoreTyped, AdminStates

LEMMA AdminPhaseIs ==
  ASSUME NEW w \in AdminStates, NEW p \in AdminPhases
  PROVE  LET v == [w EXCEPT !.phase = p]
         IN v \in AdminStates /\ v.phase = p /\ v.user = w.user /\ v.rows = w.rows
            /\ v.left = w.left /\ v.setting = w.setting
BY DEF AdminStates

LEMMA RowsAre ==
  ASSUME NEW w \in AdminStates, NEW rows \in SUBSET Store!Samples
  PROVE  LET v == [w EXCEPT !.rows = rows]
         IN v \in AdminStates /\ v.phase = w.phase /\ v.user = w.user /\ v.rows = rows
            /\ v.left = w.left /\ v.setting = w.setting
BY DEF AdminStates

LEMMA LeftIs ==
  ASSUME NEW w \in AdminStates, NEW left \in SUBSET Store!Samples
  PROVE  LET v == [w EXCEPT !.left = left]
         IN v \in AdminStates /\ v.phase = w.phase /\ v.user = w.user /\ v.rows = w.rows
            /\ v.left = left /\ v.setting = w.setting
BY DEF AdminStates

LEMMA AskToDeleteKeeps == ASSUME StoreInv, NEW a \in Admins, Store!AskToDelete(a) PROVE StoreInv'
<1>1. PICK u \in Store!UserIds, ids \in SUBSET Store!Samples :
        /\ ids \subseteq Store!SamplesOf(u)
        /\ admin' = [admin EXCEPT ![a].phase = "asked", ![a].user = u, ![a].rows = ids]
  BY DEF Store!AskToDelete, Store!SamplesOf
<1>2. UNCHANGED <<owner, profile, files, config, voice, holder>>
  BY DEF Store!AskToDelete, Store!samplesVars, Store!locks
<1>3. ids \subseteq Store!Samples /\ \A s \in ids : owner[s] = u /\ Settled(s)
  BY <1>1, NoneIsNoUser DEF Store!SamplesOf, StoreInv, SampleOK
<1>4. admin[a] \in AdminStates /\ config \in Configs /\ files \subseteq Store!Samples
  BY AdminIs
<1> PICK w : w = [admin[a] EXCEPT !.phase = "asked"]
  OBVIOUS
<1>5. w \in AdminStates /\ w.phase = "asked"
  BY <1>4, AdminPhaseIs DEF AdminPhases
<1> PICK x : x = [w EXCEPT !.user = u]
  OBVIOUS
<1>6. x \in AdminStates /\ x.phase = "asked" /\ x.user = u
  BY <1>5 DEF AdminStates
<1> PICK v : v = [x EXCEPT !.rows = ids]
  OBVIOUS
<1>7. v \in AdminStates /\ v.phase = "asked" /\ v.user = u /\ v.rows = ids
  BY <1>3, <1>6, RowsAre
<1>8. admin' = [admin EXCEPT ![a] = v]
  BY <1>1, <1>4 DEF StoreInv, StoreTyped
<1> QED
  BY <1>2, <1>3, <1>4, <1>7, <1>8, AdminMoves

LEMMA SelectRowsKeeps == ASSUME StoreInv, NEW a \in Admins, Store!SelectRows(a) PROVE StoreInv'
<1> PICK rows \in SUBSET Store!Samples : rows = admin[a].rows \cap Store!SamplesOf(admin[a].user)
  BY DEF Store!SamplesOf
<1> PICK p \in AdminPhases : p = IF rows = {} THEN "done" ELSE "selected"
  BY DEF AdminPhases
<1>1. /\ admin[a].phase = "asked" /\ holder = NoUser
      /\ admin' = [admin EXCEPT ![a].phase = p, ![a].rows = rows]
      /\ holder' = IF rows = {} THEN NoUser ELSE a
      /\ UNCHANGED <<owner, profile, files, config, voice>>
  BY DEF Store!SelectRows, Store!samplesVars
<1>2. admin[a] \in AdminStates /\ AdminOK(a) /\ config \in Configs /\ files \subseteq Store!Samples
       /\ rows \subseteq Store!Samples
  BY AdminIs
<1> PICK w : w = [admin[a] EXCEPT !.phase = p]
  OBVIOUS
<1>3. w \in AdminStates /\ w.phase = p /\ w.user = admin[a].user
  BY <1>2, AdminPhaseIs DEF AdminPhases
<1> PICK v : v = [w EXCEPT !.rows = rows]
  OBVIOUS
<1>4. v \in AdminStates /\ v.phase = p /\ v.user = admin[a].user /\ v.rows = rows
  BY <1>2, <1>3, RowsAre
<1>5. admin' = [admin EXCEPT ![a] = v]
  BY <1>1, <1>2 DEF StoreInv, StoreTyped
<1>6. admin[a].user \in Store!UserIds /\ \A s \in rows : Settled(s)
  BY <1>1, <1>2 DEF AdminOK
<1>8. rows \subseteq Store!SamplesOf(admin[a].user)
  OBVIOUS
<1>9. CASE rows = {}
  <2>1. v.phase = "done" /\ v.rows = {} /\ holder' = holder /\ files \ files' = {}
    BY <1>1, <1>4, <1>9
  <2>2. config' \in Configs /\ files' \subseteq Store!Samples /\ UNCHANGED <<owner, profile, voice>>
    BY <1>1, <1>2
  <2> QED
    BY <1>4, <1>5, <2>1, <2>2, AdminMoves
<1>10. CASE rows # {}
  <2>1. v.phase = "selected" /\ v.rows = rows /\ holder' = a /\ holder = NoUser
         /\ files \ files' = {}
    BY <1>1, <1>4, <1>10
  <2>2. config' \in Configs /\ files' \subseteq Store!Samples /\ UNCHANGED <<owner, profile, voice>>
    BY <1>1, <1>2
  <2> QED
    BY <1>4, <1>5, <1>6, <1>8, <2>1, <2>2, AdminMoves
<1> QED
  BY <1>9, <1>10

LEMMA DeleteFailsKeeps == ASSUME StoreInv, NEW a \in Admins, Store!DeleteFails(a) PROVE StoreInv'
<1>1. /\ admin[a].phase = "selected" /\ holder' = NoUser
      /\ admin' = [admin EXCEPT ![a].phase = "failed", ![a].rows = {}]
      /\ UNCHANGED <<owner, profile, files, config, voice>>
  BY DEF Store!DeleteFails, Store!samplesVars
<1>2. admin[a] \in AdminStates /\ config \in Configs /\ files \subseteq Store!Samples /\ holder = a
  BY <1>1, AdminIs DEF AdminOK
<1> PICK w : w = [admin[a] EXCEPT !.phase = "failed"]
  OBVIOUS
<1>3. w \in AdminStates /\ w.phase = "failed"
  BY <1>2, AdminPhaseIs DEF AdminPhases
<1> PICK v : v = [w EXCEPT !.rows = {}]
  OBVIOUS
<1>4. v \in AdminStates /\ v.phase = "failed"
  BY <1>3, RowsAre
<1>5. admin' = [admin EXCEPT ![a] = v]
  BY <1>1, <1>2 DEF StoreInv, StoreTyped
<1> QED
  BY <1>1, <1>2, <1>4, <1>5, AdminMoves

LEMMA UnlinkKeeps == ASSUME StoreInv, NEW a \in Admins, Store!Unlink(a) PROVE StoreInv'
<1>1. PICK s \in admin[a].left :
        /\ files' = files \ {s}
        /\ admin' = [admin EXCEPT ![a].left = @ \ {s},
                                  ![a].phase = IF admin[a].left = {s} THEN "done" ELSE @]
  BY DEF Store!Unlink
<1>2. admin[a].phase = "unlinking" /\ UNCHANGED <<owner, profile, config, voice, holder>>
  BY DEF Store!Unlink, Store!locks
<1>3. admin[a] \in AdminStates /\ AdminOK(a) /\ config \in Configs /\ files \subseteq Store!Samples
       /\ admin[a].left \subseteq Store!Samples
  BY AdminIs DEF AdminStates
<1> PICK p \in AdminPhases : p = IF admin[a].left = {s} THEN "done" ELSE "unlinking"
  BY DEF AdminPhases
<1> PICK w : w = [admin[a] EXCEPT !.left = @ \ {s}]
  OBVIOUS
<1>4. w \in AdminStates /\ w.left = admin[a].left \ {s} /\ w.rows = admin[a].rows
       /\ w.user = admin[a].user
  BY <1>3, LeftIs
<1> PICK v : v = [w EXCEPT !.phase = p]
  OBVIOUS
<1>5. v \in AdminStates /\ v.phase = p /\ v.rows = admin[a].rows /\ v.user = admin[a].user
       /\ v.left = admin[a].left \ {s}
  BY <1>4, AdminPhaseIs
<1>6. admin' = [admin EXCEPT ![a] = v]
  BY <1>1, <1>2, <1>3 DEF StoreInv, StoreTyped
<1>7. owner[s] = NoUser /\ Settled(s) /\ admin[a].left \subseteq admin[a].rows
       /\ admin[a].user \in Store!UserIds /\ \A q \in admin[a].rows : Settled(q)
  BY <1>2, <1>3 DEF AdminOK
<1>8. CASE p = "done"
  BY <1>1, <1>2, <1>3, <1>5, <1>6, <1>7, <1>8, AdminMoves
<1>9. CASE p = "unlinking"
  <2>1. v.phase = "unlinking" /\ \A q \in files \ files' : owner[q] = NoUser /\ Settled(q)
    BY <1>1, <1>5, <1>7, <1>9
  <2>2. config' \in Configs /\ files' \subseteq Store!Samples /\ v.left \subseteq v.rows
    BY <1>1, <1>2, <1>3, <1>5, <1>7
  <2>3. v.user \in Store!UserIds /\ \A q \in v.rows : Settled(q)
    BY <1>5, <1>7
  <2> QED
    BY <1>2, <1>5, <1>6, <2>1, <2>2, <2>3, AdminMoves
<1> QED
  BY <1>8, <1>9

LEMMA ReadRevisionKeeps == ASSUME StoreInv, NEW a \in Admins, Store!ReadRevision(a) PROVE StoreInv'
<1>1. PICK s \in Settings :
        admin' = [admin EXCEPT ![a].phase = "writing",
                               ![a].setting = Store!Setting(s, config.revision + 1)]
  BY DEF Store!ReadRevision
<1>2. admin[a].phase = "idle" /\ UNCHANGED <<owner, profile, files, config, voice, holder>>
  BY DEF Store!ReadRevision, Store!samplesVars
<1>3. admin[a] \in AdminStates /\ AdminOK(a) /\ config \in Configs /\ files \subseteq Store!Samples
  BY AdminIs
<1> PICK new : new = Store!Setting(s, config.revision + 1)
  OBVIOUS
<1>4. new \in Configs
  <2>1. config.revision + 1 \in Nat
    BY <1>3 DEF Configs
  <2> QED
    BY <2>1, SettingIs
<1> PICK w : w = [admin[a] EXCEPT !.phase = "writing"]
  OBVIOUS
<1>5. w \in AdminStates /\ w.phase = "writing" /\ w.rows = {}
  BY <1>2, <1>3, AdminPhaseIs DEF AdminOK, AdminPhases
<1> PICK v : v = [w EXCEPT !.setting = new]
  OBVIOUS
<1>6. v \in AdminStates /\ v.phase = "writing" /\ v.setting = new /\ v.rows = {}
  BY <1>4, <1>5 DEF AdminStates
<1>7. admin' = [admin EXCEPT ![a] = v]
  BY <1>1, <1>3 DEF StoreInv, StoreTyped
<1> QED
  BY <1>2, <1>3, <1>4, <1>6, <1>7, AdminMoves

LEMMA WriteConfigKeeps == ASSUME StoreInv, NEW a \in Admins, Store!WriteConfig(a) PROVE StoreInv'
<1>1. /\ admin[a].phase = "writing" /\ config' = admin[a].setting
      /\ admin' = [admin EXCEPT ![a].phase = "done"]
      /\ UNCHANGED <<owner, profile, files, voice, holder>>
  BY DEF Store!WriteConfig, Store!samplesVars
<1>2. admin[a] \in AdminStates /\ AdminOK(a) /\ config' \in Configs /\ files \subseteq Store!Samples
       /\ admin[a].rows = {}
  BY <1>1, AdminIs DEF AdminOK
<1> PICK v : v = [admin[a] EXCEPT !.phase = "done"]
  OBVIOUS
<1>3. v \in AdminStates /\ v.phase = "done" /\ v.rows = {}
  BY <1>2, AdminPhaseIs DEF AdminPhases
<1>4. admin' = [admin EXCEPT ![a] = v]
  BY <1>1, <1>2 DEF StoreInv, StoreTyped
<1> QED
  BY <1>1, <1>2, <1>3, <1>4, AdminMoves

LEMMA DeleteKeeps == ASSUME StoreInv, NEW a \in Admins, Store!delete_samples(a) PROVE StoreInv'
<1> PICK u, rows : u = admin[a].user /\ rows = admin[a].rows
  OBVIOUS
<1>1. /\ admin[a].phase = "selected" /\ holder' = NoUser
      /\ owner' = [s \in Store!Samples |-> IF s \in rows THEN NoUser ELSE owner[s]]
      /\ profile' = [profile EXCEPT ![u] = {s \in Store!Samples : owner'[s] = u}]
      /\ admin' = [admin EXCEPT ![a].phase = "unlinking", ![a].left = rows]
      /\ UNCHANGED <<files, config, voice>>
  BY DEF Store!delete_samples, Store!_rebuild_profile
<1>2. /\ admin[a] \in AdminStates /\ AdminOK(a) /\ rows \subseteq Store!Samples /\ holder = a
      /\ u \in Store!UserIds /\ \A s \in rows : owner[s] = u /\ Settled(s)
  BY <1>1, AdminIs DEF AdminOK, Store!SamplesOf
<1> PICK w : w = [admin[a] EXCEPT !.phase = "unlinking"]
  OBVIOUS
<1>3. w \in AdminStates /\ w.phase = "unlinking" /\ w.rows = rows /\ w.user = u
  BY <1>2, AdminPhaseIs DEF AdminPhases
<1> PICK v : v = [w EXCEPT !.left = rows]
  OBVIOUS
<1>4. v \in AdminStates /\ v.phase = "unlinking" /\ v.rows = rows /\ v.user = u /\ v.left = rows
  BY <1>2, <1>3, LeftIs
<1>5. admin' = [admin EXCEPT ![a] = v]
  BY <1>1, <1>2 DEF StoreInv, StoreTyped
<1>6. /\ admin' \in [Admins -> AdminStates]
      /\ \A b \in Admins : admin'[b] = IF b = a THEN v ELSE admin[b]
  BY <1>4, <1>5 DEF StoreInv, StoreTyped
<1>7. /\ owner' \in [Store!Samples -> Store!UserIds \cup {NoUser}]
      /\ \A s \in Store!Samples : owner'[s] = IF s \in rows THEN NoUser ELSE owner[s]
  BY <1>1 DEF StoreInv, StoreTyped
<1>8. /\ profile' \in [Store!UserIds -> SUBSET Store!Samples]
      /\ \A x \in Store!UserIds : profile'[x] = Store!SamplesOf(x)'
  <2>1. profile' \in [Store!UserIds -> SUBSET Store!Samples]
    BY <1>1, <1>2 DEF StoreInv, StoreTyped
  <2>2. profile'[u] = Store!SamplesOf(u)'
    BY <1>1, <1>2 DEF StoreInv, StoreTyped, Store!SamplesOf
  <2>3. ASSUME NEW x \in Store!UserIds, x # u PROVE profile'[x] = Store!SamplesOf(x)'
    <3>1. profile'[x] = {s \in Store!Samples : owner[s] = x}
      BY <1>1, <2>3 DEF StoreInv, StoreTyped, Store!SamplesOf
    <3>2. \A s \in Store!Samples : owner[s] = x <=> owner'[s] = x
      BY <1>2, <1>7, <2>3, NoneIsNoUser
    <3> QED
      BY <3>1, <3>2 DEF Store!SamplesOf
  <2> QED
    BY <2>1, <2>2, <2>3
<1>9. StoreTyped'
  BY <1>1, <1>6, <1>7, <1>8 DEF StoreInv, StoreTyped
<1>10. (\A s \in Store!Samples : SampleOK(s)') /\ \A s \in Captures : AddingOK(s)'
  BY <1>1, <1>7 DEF StoreInv, SampleOK, AddingOK, Settled
<1>11. ASSUME NEW b \in Admins PROVE AdminOK(b)'
  <2>1. AdminOK(b) /\ admin[b].rows \subseteq Store!Samples
    BY AdminIs
  <2>2. CASE b = a
    BY <1>1, <1>2, <1>4, <1>6, <1>7, <2>2 DEF AdminOK, Settled
  <2>3. CASE b # a
    BY <1>1, <1>2, <1>6, <1>7, <2>1, <2>3 DEF AdminOK, Settled
  <2> QED
    BY <2>2, <2>3
<1>12. Store!DeletedOnce'
  <2>1. ASSUME NEW b \in Admins, b # a, admin[b].phase \in {"unlinking", "done"}
        PROVE  admin[b].rows \cap rows = {}
    BY <1>2, <2>1, NoneIsNoUser DEF StoreInv, AdminOK
  <2> SUFFICES ASSUME NEW b \in Admins, NEW c \in Admins, b # c,
                      admin'[b].phase \in {"unlinking", "done"},
                      admin'[c].phase \in {"unlinking", "done"}
               PROVE  admin'[b].rows \cap admin'[c].rows = {}
    BY DEF Store!DeletedOnce
  <2>2. CASE b = a
    BY <1>4, <1>6, <2>1, <2>2
  <2>3. CASE c = a
    BY <1>4, <1>6, <2>1, <2>3
  <2>4. CASE b # a /\ c # a
    BY <1>6, <2>4 DEF StoreInv, Store!DeletedOnce
  <2> QED
    BY <2>2, <2>3, <2>4
<1> QED
  BY <1>8, <1>9, <1>10, <1>11, <1>12 DEF StoreInv

LEMMA CrashKeeps == ASSUME StoreInv, Store!Crash PROVE StoreInv'
<1>1. /\ voice' = [s \in Captures |->
           IF voice[s].phase \in {"idle", "done"} THEN voice[s]
           ELSE [voice[s] EXCEPT !.phase = "done", !.told = "LOST"]]
      /\ admin' = [a \in Admins |->
           IF admin[a].phase \in {"idle", "done"} THEN admin[a]
           ELSE [admin[a] EXCEPT !.phase = "lost"]]
      /\ UNCHANGED <<owner, profile, files, config>>
  BY DEF Store!Crash, Store!samplesVars
<1>2. ASSUME NEW s \in Captures
      PROVE  /\ voice'[s] \in StreamStates /\ voice'[s].phase \in {"idle", "done"}
             /\ voice'[s].purpose = voice[s].purpose /\ voice'[s].user = voice[s].user
             /\ voice[s].phase = "done" => voice'[s].phase = "done"
             /\ voice[s].phase = "idle" => voice'[s].phase = "idle"
  <2>1. voice[s] \in StreamStates
    BY DEF StoreInv, StoreTyped
  <2>2. CASE voice[s].phase \in {"idle", "done"}
    BY <1>1, <2>1, <2>2
  <2>3. CASE voice[s].phase \notin {"idle", "done"}
    <3> PICK w : w = [voice[s] EXCEPT !.phase = "done"]
      OBVIOUS
    <3>1. w \in StreamStates /\ w.phase = "done" /\ w.purpose = voice[s].purpose
           /\ w.user = voice[s].user
      BY <2>1, PhaseIs DEF StreamPhases
    <3> PICK v : v = [w EXCEPT !.told = "LOST"]
      OBVIOUS
    <3>2. v \in StreamStates /\ v.phase = "done" /\ v.purpose = w.purpose /\ v.user = w.user
      BY <3>1 DEF StreamStates, Outcomes
    <3>3. voice'[s] = v
      BY <1>1, <2>3
    <3> QED
      BY <2>3, <3>1, <3>2, <3>3
  <2> QED
    BY <2>2, <2>3
<1>3. ASSUME NEW a \in Admins
      PROVE  \/ admin[a].phase \in {"idle", "done"} /\ admin'[a] = admin[a]
             \/ admin'[a] \in AdminStates /\ admin'[a].phase = "lost"
  BY <1>1, AdminIs, AdminPhaseIs DEF AdminPhases
<1>4. StoreTyped'
  <2>1. voice' \in [Captures -> StreamStates]
    BY <1>1, <1>2
  <2>2. admin' \in [Admins -> AdminStates]
    BY <1>1, <1>3, AdminIs
  <2> QED
    BY <1>1, <2>1, <2>2 DEF StoreInv, StoreTyped
<1>5. \A s \in Store!Samples : Settled(s) => Settled(s)'
  BY <1>2 DEF Settled
<1>6. /\ \A u \in Store!UserIds : profile'[u] = Store!SamplesOf(u)'
      /\ \A s \in Store!Samples : SampleOK(s)'
  BY <1>1, <1>5 DEF StoreInv, Store!SamplesOf, SampleOK
<1>7. ASSUME NEW s \in Captures PROVE AddingOK(s)'
  BY <1>2 DEF StoreInv, AddingOK
<1>8. ASSUME NEW a \in Admins PROVE AdminOK(a)'
  <2>1. AdminOK(a) /\ admin[a].rows \subseteq Store!Samples
    BY AdminIs
  <2> QED
    BY <1>1, <1>3, <1>5, <2>1 DEF AdminOK
<1>9. Store!DeletedOnce'
  BY <1>3 DEF StoreInv, Store!DeletedOnce
<1> QED
  BY <1>4, <1>6, <1>7, <1>8, <1>9 DEF StoreInv

(* A step that neither samples nor calls take part in.                     *)
LEMMA QuietKeeps ==
  ASSUME StoreInv, UNCHANGED <<owner, profile, files, config, voice, admin, holder>>
  PROVE  StoreInv'
BY DEF StoreInv, StoreTyped, Store!SamplesOf, SampleOK, Settled, AddingOK, AdminOK,
       Store!DeletedOnce

-----------------------------------------------------------------------------
LEMMA StoreInit == Store!Init => StoreInv
<1> SUFFICES ASSUME Store!Init PROVE StoreInv
  OBVIOUS
<1>1. config \in Configs
  <2>1. PICK s \in Settings : config = Store!Setting(s, 1)
    BY DEF Store!Init
  <2> QED
    BY <2>1, SettingIs
<1>2. StoreTyped
  BY <1>1, NothingIsTyped DEF Store!Init, StoreTyped, Store!SamplesOf
<1>3. \A u \in Store!UserIds : profile[u] = Store!SamplesOf(u)
  BY DEF Store!Init
<1>4. ASSUME NEW s \in Store!Samples PROVE SampleOK(s)
  BY <1>2 DEF Store!Init, StoreTyped, SampleOK, Settled
<1>5. ASSUME NEW s \in Captures PROVE AddingOK(s)
  <2>1. voice[s].phase = "idle"
    BY DEF Store!Init, Store!NoStream
  <2> QED
    BY <2>1 DEF AddingOK
<1>6. (\A a \in Admins : AdminOK(a)) /\ Store!DeletedOnce
  BY DEF Store!Init, AdminOK, Store!DeletedOnce, Store!NoCall
<1> QED
  BY <1>2, <1>3, <1>4, <1>5, <1>6 DEF StoreInv

LEMMA StoreNext == StoreInv /\ [Store!Next]_Store!vars => StoreInv'
<1> SUFFICES ASSUME StoreInv, [Store!Next]_Store!vars PROVE StoreInv'
  OBVIOUS
<1>1. CASE \E s \in Captures : Store!Streaming(s)
  BY <1>1, StartKeeps, PrepareKeeps, EndKeeps, WritesKeep, AddKeeps DEF Store!Streaming
<1>2. CASE \E a \in Admins : Store!Administration(a)
  BY <1>2, AskToDeleteKeeps, SelectRowsKeeps, DeleteKeeps, DeleteFailsKeeps, UnlinkKeeps,
     ReadRevisionKeeps, WriteConfigKeeps DEF Store!Administration
<1>3. CASE \E s \in Captures : Store!Expire(s) \/ Store!SweepAudio(s) \/ Store!SweepRow(s)
  BY <1>3, QuietKeeps
     DEF Store!Expire, Store!SweepAudio, Store!SweepRow, Store!samplesVars, Store!locks
<1>4. CASE Store!Ready
  BY <1>4, QuietKeeps DEF Store!Ready, Store!samplesVars, Store!locks
<1>5. CASE UNCHANGED Store!vars
  BY <1>5, QuietKeeps DEF Store!vars, Store!samplesVars, Store!locks
<1> QED
  BY <1>1, <1>2, <1>3, <1>4, <1>5, CrashKeeps DEF Store!Next

LEMMA StoreInvHolds == Store!Spec => []StoreInv
BY StoreInit, StoreNext, PTL DEF Store!Spec

-----------------------------------------------------------------------------
(* Of the diagnostics, on top of that.  The audio of an identification is  *)
(* written in the step before its row, with nothing of the stream between  *)
(* them; it goes with the row's detail, before it; and a stream keeps the  *)
(* setting and the scores that its row is made of.                         *)
ShownSoundly(s) ==
  /\ diagnostic[s] \in Store!Rows
  /\ voice[s].phase = "done"
  /\ Store!RowIsSound(diagnostic[s])
  /\ diagnostic[s].detail = "kept" => (diagnostic[s].audio <=> s \in kept)
  /\ s \in kept => diagnostic[s].audio
  /\ diagnostic[s].detail = "purged" => ~diagnostic[s].audio

Unshown(s) ==
  /\ s \in kept => voice[s].phase = "recording" \/ voice[s].told = "LOST"
  /\ voice[s].phase = "recording" => (s \in kept <=> voice[s].processed)

DiagnosticOK(s) ==
  /\ diagnostic[s] # NoUser => ShownSoundly(s)
  /\ diagnostic[s] = NoUser => Unshown(s)
  /\ voice[s].phase \in {"open", "prepared", "recording"} /\ Store!Identifying(s) =>
       voice[s].setting \in Configs
  /\ voice[s].phase = "recording" => Store!Identifying(s)
  /\ voice[s].told \in {"IDENTIFIED", "NOT_RECOGNIZED", "FAILED", "LOST"} =>
       voice[s].phase = "done"
  /\ Store!Identifying(s) /\ voice[s].told \in {"IDENTIFIED", "NOT_RECOGNIZED", "FAILED"} =>
       diagnostic[s] # NoUser /\ diagnostic[s].verdict.outcome = voice[s].told
  /\ s \in sweep => diagnostic[s] # NoUser /\ diagnostic[s].detail = "expired"

DiagnosticInv ==
  /\ diagnostic \in [Captures -> Store!Rows \cup {NoUser}]
  /\ \A s \in Captures : DiagnosticOK(s)

(* A step of one stream: the others' diagnostics stay as they are.         *)
LEMMA DiagnosticMoves ==
  ASSUME DiagnosticInv, NEW s \in Captures,
         diagnostic' \in [Captures -> Store!Rows \cup {NoUser}],
         \A q \in Captures \ {s} : /\ voice'[q] = voice[q] /\ diagnostic'[q] = diagnostic[q]
                                   /\ q \in kept' <=> q \in kept,
         sweep' \subseteq sweep, DiagnosticOK(s)'
  PROVE  DiagnosticInv'
<1>1. ASSUME NEW q \in Captures, q # s PROVE DiagnosticOK(q)'
  <2>1. /\ voice'[q] = voice[q] /\ diagnostic'[q] = diagnostic[q]
        /\ q \in kept' <=> q \in kept
        /\ q \in sweep' => q \in sweep
    BY <1>1
  <2>2. DiagnosticOK(q)
    BY DEF DiagnosticInv
  <2> QED
    BY <2>1, <2>2 DEF DiagnosticOK, ShownSoundly, Unshown, Store!Identifying, Store!RowIsSound
<1> QED
  BY <1>1 DEF DiagnosticInv

(* What a stream that is told something keeps.                             *)
LEMMA ToldKeeps ==
  ASSUME StoreInv, NEW s \in Captures, NEW answer, voice' = Store!Told(s, answer)
  PROVE  /\ \A q \in Captures \ {s} : voice'[q] = voice[q]
         /\ voice'[s].phase = "done" /\ voice'[s].told = answer
         /\ voice'[s].purpose = voice[s].purpose
BY DEF StoreInv, StoreTyped, StreamStates, Store!Told

(* A stream ends before anything of it was recorded.                       *)
LEMMA EndsUnrecorded ==
  ASSUME StoreInv, DiagnosticInv, NEW s \in Captures, NEW answer, voice' = Store!Told(s, answer),
         voice[s].phase \in {"open", "prepared", "adding"},
         answer # "LOST", answer \in {"IDENTIFIED", "NOT_RECOGNIZED", "FAILED"} => ~Store!Identifying(s),
         UNCHANGED <<diagnostic, kept, sweep>>
  PROVE  DiagnosticInv'
<1>1. DiagnosticOK(s) /\ diagnostic[s] = NoUser /\ s \notin kept /\ s \notin sweep
  BY DEF DiagnosticInv, DiagnosticOK, ShownSoundly, Unshown
<1>2. DiagnosticOK(s)'
  BY <1>1, ToldKeeps DEF DiagnosticOK, Unshown, Store!Identifying
<1> QED
  BY <1>2, ToldKeeps, DiagnosticMoves DEF DiagnosticInv

LEMMA StartShows ==
  ASSUME StoreInv, DiagnosticInv, NEW s \in Captures, Store!Start(s)
  PROVE  DiagnosticInv'
<1>1. /\ voice[s].phase = "idle" /\ UNCHANGED <<diagnostic, kept, sweep>> /\ config \in Configs
  BY DEF Store!Start, Store!diagnosticVars, Store!service, StoreInv, StoreTyped
<1>2. /\ \A q \in Captures \ {s} : voice'[q] = voice[q]
      /\ voice'[s].phase = "open" /\ voice'[s].told = NoUser
      /\ voice'[s].purpose = "IDENTIFICATION" => voice'[s].setting = config
  BY DEF Store!Start, Store!NoStream, StoreInv, StoreTyped
<1>3. DiagnosticOK(s) /\ diagnostic[s] = NoUser /\ s \notin kept /\ s \notin sweep
  BY <1>1 DEF DiagnosticInv, DiagnosticOK, ShownSoundly, Unshown
<1>4. DiagnosticOK(s)'
  BY <1>1, <1>2, <1>3, NoneIsNoAnswer DEF DiagnosticOK, Unshown, Store!Identifying
<1> QED
  BY <1>1, <1>2, <1>4, DiagnosticMoves DEF DiagnosticInv

LEMMA PrepareShows ==
  ASSUME StoreInv, DiagnosticInv, NEW s \in Captures, Store!Prepare(s)
  PROVE  DiagnosticInv'
<1>1. voice[s].phase = "open" /\ UNCHANGED <<diagnostic, kept, sweep>>
  BY DEF Store!Prepare, Store!diagnosticVars, Store!service
<1>2. \E processed, failed, scores : Store!Prepared(s, processed, failed, scores)
  BY DEF Store!Prepare, Store!Rejected, Store!EmbeddingFails, Store!Compared, Store!Embedded
<1>3. /\ \A q \in Captures \ {s} : voice'[q] = voice[q]
      /\ voice'[s].phase = "prepared" /\ voice'[s].told = voice[s].told
      /\ voice'[s].purpose = voice[s].purpose /\ voice'[s].setting = voice[s].setting
  BY <1>2 DEF Store!Prepared, StoreInv, StoreTyped, StreamStates
<1>4. DiagnosticOK(s) /\ diagnostic[s] = NoUser /\ s \notin kept /\ s \notin sweep
  BY <1>1 DEF DiagnosticInv, DiagnosticOK, ShownSoundly, Unshown
<1>5. DiagnosticOK(s)'
  BY <1>1, <1>3, <1>4 DEF DiagnosticOK, Unshown, Store!Identifying
<1> QED
  BY <1>1, <1>3, <1>5, DiagnosticMoves DEF DiagnosticInv

LEMMA EndShows ==
  ASSUME StoreInv, DiagnosticInv, NEW s \in Captures,
         \/ Store!Cancelled(s) \/ Store!Refused(s) \/ Store!AddFails(s) \/ Store!add_sample(s)
  PROVE  DiagnosticInv'
<1>1. CASE Store!Cancelled(s)
  BY <1>1, EndsUnrecorded DEF Store!Cancelled, Store!diagnosticVars, Store!service
<1>2. CASE Store!Refused(s)
  BY <1>2, EndsUnrecorded
     DEF Store!Refused, Store!Enrolling, Store!Identifying, Store!diagnosticVars, Store!service
<1>3. CASE Store!AddFails(s) \/ Store!add_sample(s)
  <2>1. voice[s].phase = "adding" /\ voice[s].purpose = "ENROLLMENT"
    BY <1>3 DEF Store!AddFails, Store!add_sample, StoreInv, AddingOK
  <2> QED
    BY <1>3, <2>1, EndsUnrecorded
       DEF Store!AddFails, Store!add_sample, Store!Identifying, Store!diagnosticVars, Store!service
<1> QED
  BY <1>1, <1>2, <1>3

LEMMA WriteShows ==
  ASSUME StoreInv, DiagnosticInv, NEW s \in Captures, Store!WriteSample(s) \/ Store!WriteAudio(s)
  PROVE  DiagnosticInv'
<1>1. PICK p \in {"adding", "recording"} :
        /\ voice' = [voice EXCEPT ![s].phase = p]
        /\ p = "adding" => UNCHANGED kept
        /\ p = "recording" => /\ kept' = IF voice[s].processed THEN kept \cup {s} ELSE kept
                              /\ Store!Identifying(s)
  BY DEF Store!WriteSample, Store!WriteAudio, Store!diagnosticVars
<1>2. voice[s].phase = "prepared" /\ UNCHANGED <<diagnostic, sweep>>
  BY DEF Store!WriteSample, Store!WriteAudio, Store!diagnosticVars, Store!service
<1>3. /\ \A q \in Captures \ {s} : voice'[q] = voice[q] /\ (q \in kept' <=> q \in kept)
      /\ voice'[s].phase = p /\ voice'[s].told = voice[s].told
      /\ voice'[s].purpose = voice[s].purpose /\ voice'[s].setting = voice[s].setting
      /\ voice'[s].processed = voice[s].processed
  BY <1>1 DEF StoreInv, StoreTyped, StreamStates
<1>4. DiagnosticOK(s) /\ diagnostic[s] = NoUser /\ s \notin kept /\ s \notin sweep
  BY <1>2 DEF DiagnosticInv, DiagnosticOK, ShownSoundly, Unshown
<1>5. DiagnosticOK(s)'
  BY <1>1, <1>2, <1>3, <1>4 DEF DiagnosticOK, Unshown, Store!Identifying
<1> QED
  BY <1>2, <1>3, <1>5, DiagnosticMoves DEF DiagnosticInv

(* The second of a ranking is ahead of all that follow.                    *)
LEMMA BestLeads ==
  ASSUME NEW U \in SUBSET Store!UserIds, NEW scores \in [U -> Scores],
         NEW ranked \in Store!Rankings(scores), NEW setting \in Configs,
         NEW verdict, verdict = Store!classify_scores(scores, ranked, setting)
  PROVE  /\ verdict.outcome \in {"IDENTIFIED", "NOT_RECOGNIZED"}
         /\ verdict.outcome = "IDENTIFIED" =>
              /\ verdict.user \in U /\ scores[verdict.user] >= setting.threshold
              /\ \A u \in U \ {verdict.user} :
                   scores[verdict.user] >= scores[u] + setting.margin
<1>1. DOMAIN scores = U /\ \A u \in U : scores[u] \in Nat
  BY StoreAssumption DEF Store!SpeakerStoreAssumption
<1>2. PICK n \in 0 .. MaxUsers : ranked \in [1 .. n -> U]
  BY <1>1 DEF Store!Rankings
<1>3. n \in Nat /\ setting.threshold \in Nat /\ setting.margin \in Nat
  <2>1. MaxUsers \in Nat /\ Scores \subseteq Nat
    BY StoreAssumption DEF Store!SpeakerStoreAssumption
  <2>2. setting.threshold \in Scores /\ setting.margin \in Nat
    BY DEF Configs
  <2>3. n \in Nat
    BY <2>1
  <2>4. setting.threshold \in Nat
    BY <2>1, <2>2
  <2> QED
    BY <2>2, <2>3, <2>4
<1>4. /\ \A u \in U : \E i \in DOMAIN ranked : ranked[i] = u
      /\ \A i, j \in DOMAIN ranked : i < j => Store!Better(scores, ranked[i], ranked[j])
  BY <1>1 DEF Store!Rankings
<1>5. ASSUME NEW i \in DOMAIN ranked, NEW j \in DOMAIN ranked, i < j
      PROVE  scores[ranked[i]] >= scores[ranked[j]]
  <2>1. scores[ranked[i]] \in Nat /\ scores[ranked[j]] \in Nat
    BY <1>1, <1>2
  <2> QED
    BY <1>4, <1>5, <2>1 DEF Store!Better
<1>6. verdict.outcome \in {"IDENTIFIED", "NOT_RECOGNIZED"}
  BY DEF Store!classify_scores, Store!Verdict
<1>7. ASSUME verdict.outcome = "IDENTIFIED"
      PROVE  /\ 1 \in DOMAIN ranked /\ verdict.user = ranked[1]
             /\ scores[ranked[1]] >= setting.threshold
             /\ 2 \in DOMAIN ranked => scores[ranked[1]] - scores[ranked[2]] >= setting.margin
  <2> DEFINE Empty == 1 \notin DOMAIN ranked
             Below == 1 \in DOMAIN ranked /\ scores[ranked[1]] < setting.threshold
             Close == /\ 2 \in DOMAIN ranked /\ scores[ranked[1]] >= setting.threshold
                      /\ scores[ranked[1]] - scores[ranked[2]] < setting.margin
  <2>1. ~Empty /\ ~Below /\ ~Close /\ verdict.user = ranked[1]
    BY <1>7 DEF Store!classify_scores, Store!Verdict
  <2>2. \A i \in DOMAIN ranked : scores[ranked[i]] \in Nat
    BY <1>1, <1>2
  <2> QED
    BY <1>3, <2>1, <2>2
<1>8. ASSUME verdict.outcome = "IDENTIFIED", NEW u \in U, u # ranked[1]
      PROVE  scores[ranked[1]] >= scores[u] + setting.margin
  <2>1. PICK i \in DOMAIN ranked : ranked[i] = u
    BY <1>4
  <2>2. i \in Nat /\ i >= 2 /\ 2 \in DOMAIN ranked
    BY <1>2, <1>3, <1>8, <2>1
  <2>3. scores[ranked[2]] \in Nat /\ scores[ranked[1]] \in Nat /\ scores[u] \in Nat
    BY <1>1, <1>2, <1>7, <1>8, <2>2
  <2>4. scores[ranked[2]] >= scores[u]
    BY <1>5, <2>1, <2>2, <2>3
  <2> QED
    BY <1>3, <1>7, <1>8, <2>2, <2>3, <2>4
<1> QED
  BY <1>2, <1>6, <1>7, <1>8

(* Whom a ranking ranks is a user of the scores.                           *)
LEMMA RankedIsUser ==
  ASSUME NEW U \in SUBSET Store!UserIds, NEW scores \in [U -> Scores],
         NEW ranked \in Store!Rankings(scores), 1 \in DOMAIN ranked
  PROVE  ranked[1] \in Store!UserIds
<1>1. DOMAIN scores = U
  OBVIOUS
<1>2. PICK n \in 0 .. MaxUsers : ranked \in [1 .. n -> U]
  BY <1>1 DEF Store!Rankings
<1> QED
  BY <1>2

(* The row says what the stream is told.                                   *)
LEMMA RecordShows ==
  ASSUME StoreInv, DiagnosticInv, NEW s \in Captures, Store!record(s)
  PROVE  DiagnosticInv'
<1>1. PICK ranked \in Store!Rankings(voice[s].scores) :
        /\ diagnostic' = [diagnostic EXCEPT ![s] =
             [verdict |-> Store!_identify(s, ranked), candidates |-> voice[s].scores,
              setting |-> voice[s].setting, audio |-> voice[s].processed, detail |-> "kept"]]
        /\ voice' = Store!Told(s, Store!_identify(s, ranked).outcome)
  BY DEF Store!record
<1>2. voice[s].phase = "recording" /\ UNCHANGED <<kept, sweep>>
  BY DEF Store!record, Store!service
<1>3. /\ DiagnosticOK(s) /\ diagnostic[s] = NoUser /\ s \notin sweep
      /\ voice[s].setting \in Configs /\ (s \in kept <=> voice[s].processed)
      /\ voice[s].purpose = "IDENTIFICATION" /\ voice[s].processed \in BOOLEAN
  BY <1>2 DEF DiagnosticInv, DiagnosticOK, ShownSoundly, Unshown, Store!Identifying,
              StoreInv, StoreTyped, StreamStates
<1> DEFINE verdict == Store!_identify(s, ranked)
           row == [verdict |-> verdict, candidates |-> voice[s].scores,
                   setting |-> voice[s].setting, audio |-> voice[s].processed, detail |-> "kept"]
<1>4. PICK U \in SUBSET Store!UserIds : voice[s].scores \in [U -> Scores]
  <2>1. voice[s].scores \in UNION {[U -> Scores] : U \in SUBSET Store!UserIds}
    <3>1. voice[s] \in StreamStates
      BY DEF StoreInv, StoreTyped
    <3> QED
      BY <3>1 DEF StreamStates
  <2> QED
    BY <2>1
<1>5. /\ verdict.outcome \in {"IDENTIFIED", "NOT_RECOGNIZED", "FAILED"}
      /\ verdict.outcome = "IDENTIFIED" =>
           /\ verdict.user \in U /\ voice[s].scores[verdict.user] >= voice[s].setting.threshold
           /\ \A u \in U \ {verdict.user} :
                voice[s].scores[verdict.user] >= voice[s].scores[u] + voice[s].setting.margin
  <2>1. CASE voice[s].failed
    BY <2>1 DEF Store!_identify, Store!Verdict
  <2>2. CASE ~voice[s].failed
    <3> DEFINE decided == Store!classify_scores(voice[s].scores, ranked, voice[s].setting)
    <3>1. verdict = decided
      BY <2>2 DEF Store!_identify
    <3>2. /\ decided.outcome \in {"IDENTIFIED", "NOT_RECOGNIZED"}
          /\ decided.outcome = "IDENTIFIED" =>
               /\ decided.user \in U
               /\ voice[s].scores[decided.user] >= voice[s].setting.threshold
               /\ \A u \in U \ {decided.user} :
                    voice[s].scores[decided.user] >= voice[s].scores[u] + voice[s].setting.margin
      <4> HIDE DEF decided
      <4> QED
        BY <1>3, <1>4, BestLeads DEF decided
    <3> QED
      BY <3>1, <3>2
  <2> QED
    BY <2>1, <2>2
<1>6. verdict \in [outcome : {"IDENTIFIED", "NOT_RECOGNIZED", "FAILED"},
                   user : Store!UserIds \cup {NoUser},
                   reason : {NoUser, "FAILED", "NO_PROFILES", "BELOW_THRESHOLD",
                             "AMBIGUOUS_MARGIN"}]
  BY <1>4, RankedIsUser DEF Store!_identify, Store!classify_scores, Store!Verdict
<1>7. row \in Store!Rows /\ Store!RowIsSound(row)
  <2> HIDE DEF verdict
  <2>1. row \in Store!Rows
    BY <1>3, <1>4, <1>6 DEF Store!Rows, Configs
  <2>2. DOMAIN voice[s].scores = U
    BY <1>4
  <2> QED
    BY <1>5, <2>1, <2>2 DEF Store!RowIsSound
<1>8. /\ diagnostic' \in [Captures -> Store!Rows \cup {NoUser}] /\ diagnostic'[s] = row
      /\ \A q \in Captures \ {s} : diagnostic'[q] = diagnostic[q]
  <2> HIDE DEF row
  <2>1. diagnostic' = [diagnostic EXCEPT ![s] = row]
    BY <1>1 DEF row
  <2> QED
    BY <1>7, <2>1 DEF DiagnosticInv
<1>9. DiagnosticOK(s)'
  <2>1. /\ voice'[s].phase = "done" /\ voice'[s].told = verdict.outcome
        /\ voice'[s].purpose = "IDENTIFICATION"
    BY <1>1, <1>3, ToldKeeps
  <2>2. /\ row.detail = "kept" /\ (row.audio <=> s \in kept) /\ row.verdict = verdict
        /\ row # NoUser
    BY <1>3, <1>7, NoneIsNoAnswer
  <2> HIDE DEF verdict, row
  <2>3. ShownSoundly(s)'
    BY <1>2, <1>7, <1>8, <2>1, <2>2 DEF ShownSoundly, Store!RowIsSound
  <2> QED
    BY <1>2, <1>3, <1>8, <2>1, <2>2, <2>3 DEF DiagnosticOK, Store!Identifying
<1> QED
  BY <1>1, <1>2, <1>8, <1>9, ToldKeeps, DiagnosticMoves

LEMMA RecordFailsShows ==
  ASSUME StoreInv, DiagnosticInv, NEW s \in Captures, Store!RecordFails(s)
  PROVE  DiagnosticInv'
<1>1. /\ voice[s].phase = "recording" /\ voice' = Store!Told(s, "ERROR")
      /\ kept' = kept \ {s} /\ UNCHANGED <<diagnostic, sweep>>
  BY DEF Store!RecordFails, Store!service
<1>2. DiagnosticOK(s) /\ diagnostic[s] = NoUser /\ s \notin sweep
  BY <1>1 DEF DiagnosticInv, DiagnosticOK, ShownSoundly
<1>3. DiagnosticOK(s)'
  BY <1>1, <1>2, ToldKeeps DEF DiagnosticOK, Unshown, Store!Identifying
<1> QED
  BY <1>1, <1>3, ToldKeeps, DiagnosticMoves DEF DiagnosticInv

(* The detail expires, and the start takes away its audio, then the rest.  *)
LEMMA ExpireShows ==
  ASSUME StoreInv, DiagnosticInv, NEW s \in Captures, Store!Expire(s)
  PROVE  DiagnosticInv'
<1>1. /\ diagnostic[s] # NoUser /\ diagnostic[s].detail = "kept"
      /\ diagnostic' = [diagnostic EXCEPT ![s] = [@ EXCEPT !.detail = "expired"]]
      /\ UNCHANGED <<kept, voice, sweep>>
  BY DEF Store!Expire, Store!service
<1>2. DiagnosticOK(s) /\ ShownSoundly(s)
  BY <1>1 DEF DiagnosticInv, DiagnosticOK
<1> DEFINE row == [diagnostic[s] EXCEPT !.detail = "expired"]
<1>3. /\ row \in Store!Rows /\ row.detail = "expired" /\ row.verdict = diagnostic[s].verdict
      /\ row.audio = diagnostic[s].audio /\ row.candidates = diagnostic[s].candidates
      /\ row.setting = diagnostic[s].setting
  BY <1>2 DEF ShownSoundly, Store!Rows
<1>4. /\ diagnostic' \in [Captures -> Store!Rows \cup {NoUser}] /\ diagnostic'[s] = row
      /\ \A q \in Captures \ {s} : diagnostic'[q] = diagnostic[q]
  BY <1>1, <1>3 DEF DiagnosticInv
<1> HIDE DEF row
<1>5. ShownSoundly(s)'
  BY <1>1, <1>2, <1>3, <1>4 DEF ShownSoundly, Store!RowIsSound
<1>6. DiagnosticOK(s)'
  BY <1>1, <1>2, <1>3, <1>4, <1>5, NoneIsNoAnswer DEF DiagnosticOK, Store!Identifying
<1> QED
  BY <1>1, <1>4, <1>6, DiagnosticMoves

LEMMA SweepAudioShows ==
  ASSUME StoreInv, DiagnosticInv, NEW s \in Captures, Store!SweepAudio(s)
  PROVE  DiagnosticInv'
<1>1. s \in sweep /\ kept' = kept \ {s} /\ UNCHANGED <<diagnostic, voice, sweep>>
  BY DEF Store!SweepAudio, Store!service
<1>2. DiagnosticOK(s) /\ ShownSoundly(s) /\ diagnostic[s] # NoUser /\ diagnostic[s].detail = "expired"
  BY <1>1 DEF DiagnosticInv, DiagnosticOK
<1>3. ShownSoundly(s)'
  BY <1>1, <1>2 DEF ShownSoundly, Store!RowIsSound
<1>4. DiagnosticOK(s)'
  BY <1>1, <1>2, <1>3 DEF DiagnosticOK, Store!Identifying
<1> QED
  BY <1>1, <1>4, DiagnosticMoves DEF DiagnosticInv

LEMMA SweepRowShows ==
  ASSUME StoreInv, DiagnosticInv, NEW s \in Captures, Store!SweepRow(s)
  PROVE  DiagnosticInv'
<1>1. /\ s \in sweep /\ ~(diagnostic[s].audio /\ s \in kept) /\ sweep' = sweep \ {s}
      /\ diagnostic' = [diagnostic EXCEPT
           ![s] = [@ EXCEPT !.detail = "purged", !.audio = FALSE, !.candidates = Store!NoScores]]
      /\ UNCHANGED <<kept, voice>>
  BY DEF Store!SweepRow, Store!Purged
<1>2. DiagnosticOK(s) /\ ShownSoundly(s) /\ diagnostic[s] # NoUser
  BY <1>1 DEF DiagnosticInv, DiagnosticOK
<1> DEFINE row == [diagnostic[s] EXCEPT
                     !.detail = "purged", !.audio = FALSE, !.candidates = Store!NoScores]
<1>3. /\ row \in Store!Rows /\ row.detail = "purged" /\ ~row.audio
      /\ row.verdict = diagnostic[s].verdict
  BY <1>2, NothingIsTyped DEF ShownSoundly, Store!Rows
<1>4. /\ diagnostic' \in [Captures -> Store!Rows \cup {NoUser}] /\ diagnostic'[s] = row
      /\ \A q \in Captures \ {s} : diagnostic'[q] = diagnostic[q]
  BY <1>1, <1>3 DEF DiagnosticInv
<1> HIDE DEF row
<1>5. ShownSoundly(s)'
  BY <1>1, <1>2, <1>3, <1>4 DEF ShownSoundly, Store!RowIsSound
<1>6. DiagnosticOK(s)'
  BY <1>1, <1>2, <1>3, <1>4, <1>5, NoneIsNoAnswer DEF DiagnosticOK, Store!Identifying
<1> QED
  BY <1>1, <1>4, <1>6, DiagnosticMoves

(* What a crash cuts off is lost: only its audio may be left.              *)
LEMMA CrashShows == ASSUME StoreInv, DiagnosticInv, Store!Crash PROVE DiagnosticInv'
<1>1. /\ sweep' = {s \in Captures : diagnostic[s] # NoUser /\ diagnostic[s].detail = "expired"}
      /\ voice' = [s \in Captures |->
           IF voice[s].phase \in {"idle", "done"} THEN voice[s]
           ELSE [voice[s] EXCEPT !.phase = "done", !.told = "LOST"]]
      /\ UNCHANGED <<diagnostic, kept>>
  BY DEF Store!Crash, Store!diagnosticVars
<1>2. ASSUME NEW s \in Captures PROVE DiagnosticOK(s)'
  <2>1. DiagnosticOK(s) /\ voice[s] \in StreamStates
    BY DEF DiagnosticInv, StoreInv, StoreTyped
  <2>2. CASE voice[s].phase \in {"idle", "done"}
    <3>1. voice'[s] = voice[s]
      BY <1>1, <2>2
    <3> QED
      BY <1>1, <2>1, <3>1 DEF DiagnosticOK, ShownSoundly, Unshown, Store!Identifying, Store!RowIsSound
  <2>3. CASE voice[s].phase \notin {"idle", "done"}
    <3>1. voice'[s].phase = "done" /\ voice'[s].told = "LOST"
      BY <1>1, <2>1, <2>3 DEF StreamStates
    <3>2. diagnostic[s] = NoUser
      BY <2>1, <2>3 DEF DiagnosticOK, ShownSoundly
    <3> QED
      BY <1>1, <3>1, <3>2 DEF DiagnosticOK, Unshown, Store!Identifying
  <2> QED
    BY <2>2, <2>3
<1> QED
  BY <1>1, <1>2 DEF DiagnosticInv

(* A step that no diagnostic takes part in.                                *)
LEMMA QuietShows ==
  ASSUME DiagnosticInv, UNCHANGED <<diagnostic, kept, voice, sweep>>
  PROVE  DiagnosticInv'
BY DEF DiagnosticInv, DiagnosticOK, ShownSoundly, Unshown, Store!Identifying, Store!RowIsSound

LEMMA DiagnosticInit == Store!Init => DiagnosticInv
<1> SUFFICES ASSUME Store!Init PROVE DiagnosticInv
  OBVIOUS
<1>1. diagnostic = [s \in Captures |-> NoUser] /\ kept = {} /\ sweep = {}
  BY DEF Store!Init
<1>2. ASSUME NEW s \in Captures PROVE DiagnosticOK(s)
  <2>1. voice[s].phase = "idle" /\ voice[s].told = NoUser /\ diagnostic[s] = NoUser
    BY <1>1 DEF Store!Init, Store!NoStream
  <2> QED
    BY <1>1, <2>1, NoneIsNoAnswer DEF DiagnosticOK, Unshown
<1> QED
  BY <1>1, <1>2 DEF DiagnosticInv

LEMMA DiagnosticNext ==
  StoreInv /\ DiagnosticInv /\ [Store!Next]_Store!vars => DiagnosticInv'
<1> SUFFICES ASSUME StoreInv, DiagnosticInv, [Store!Next]_Store!vars PROVE DiagnosticInv'
  OBVIOUS
<1>1. CASE \E s \in Captures : Store!Streaming(s)
  BY <1>1, StartShows, PrepareShows, EndShows, WriteShows, RecordShows, RecordFailsShows
     DEF Store!Streaming
<1>2. CASE \E a \in Admins : Store!Administration(a)
  BY <1>2, QuietShows
     DEF Store!Administration, Store!AskToDelete, Store!SelectRows, Store!delete_samples,
         Store!DeleteFails, Store!Unlink, Store!ReadRevision, Store!WriteConfig,
         Store!diagnosticVars, Store!service
<1>3. CASE \E s \in Captures : Store!Expire(s) \/ Store!SweepAudio(s) \/ Store!SweepRow(s)
  BY <1>3, ExpireShows, SweepAudioShows, SweepRowShows
<1>4. CASE Store!Ready \/ UNCHANGED Store!vars
  BY <1>4, QuietShows DEF Store!Ready, Store!vars, Store!diagnosticVars, Store!service
<1> QED
  BY <1>1, <1>2, <1>3, <1>4, CrashShows DEF Store!Next

LEMMA DiagnosticsAreTrueOf == DiagnosticInv => DiagnosticsAreTrue
<1> SUFFICES ASSUME DiagnosticInv PROVE DiagnosticsAreTrue
  OBVIOUS
<1>1. \A s \in Captures : DiagnosticOK(s)
  BY DEF DiagnosticInv
<1> QED
  BY <1>1 DEF DiagnosticsAreTrue, Store!DiagnosticsAreTrue, DiagnosticOK, ShownSoundly, Unshown

(* A profile is the mean of the samples its user has, and every sample has *)
(* its file, whoever stores and deletes and whatever a crash cuts off.     *)
THEOREM WholeSamples == Store!Spec => []SamplesAreWhole
<1>1. StoreInv => SamplesAreWhole
  BY DEF StoreInv, SampleOK, SamplesAreWhole, Store!SamplesAreWhole
<1> QED
  BY <1>1, StoreInvHolds, PTL

(* No sample is reported as deleted by two calls of the Admin.             *)
THEOREM EachIsDeletedOnce == Store!Spec => []DeletedOnce
<1>1. StoreInv => DeletedOnce
  BY DEF StoreInv, DeletedOnce
<1> QED
  BY <1>1, StoreInvHolds, PTL

(* What a voice is told can be looked up: the row of its diagnostic says   *)
(* the same and is sound, and its audio is there as long as the row shows  *)
(* it, whatever fails, expires or is cut off by a crash                    *)
(* (audio_streaming.py, _identify; diagnostics.py, record and cleanup).    *)
THEOREM DiagnosticsHold == Store!Spec => []DiagnosticsAreTrue
<1>1. Store!Spec => [](StoreInv /\ DiagnosticInv)
  <2>1. Store!Init => StoreInv /\ DiagnosticInv
    BY StoreInit, DiagnosticInit
  <2>2. StoreInv /\ DiagnosticInv /\ [Store!Next]_Store!vars => (StoreInv /\ DiagnosticInv)'
    BY StoreNext, DiagnosticNext
  <2> QED
    BY <2>1, <2>2, PTL DEF Store!Spec
<1> QED
  BY <1>1, DiagnosticsAreTrueOf, PTL
=============================================================================
