-------------------------- MODULE TurnAndVoiceProofs --------------------------
(***************************************************************************)
(* What the Router's turns guarantee for every value of the constants,     *)
(* that they implement RequestLedger when no ingress posts a request id    *)
(* that is in flight, and whose voice decides a turn.                      *)
(***************************************************************************)
EXTENDS TurnAndVoice, RequestLifecycleLedger, SequenceTheorems, FiniteSetTheorems, TLAPS
-----------------------------------------------------------------------------
(* The sweep keeps the table a table of rows.                              *)
LEMMA ExpireDueTyped ==
  ASSUME store \in [Requests -> Rows \cup {NoRow}], NEW time \in Nat
  PROVE  expire_due(time) \in [Requests -> Rows \cup {NoRow}]
<1> SUFFICES ASSUME NEW r \in Requests
             PROVE  expire_due(time)[r] \in Rows \cup {NoRow}
  BY DEF expire_due
<1>1. CASE expire_due(time)[r] = store[r]
  BY <1>1
<1>2. CASE /\ store[r].exists
           /\ expire_due(time)[r] = [store[r] EXCEPT !.status = "EXPIRED", !.updated = Iso(time)]
  <2>1. store[r] \in Rows
    BY <1>2 DEF NoRow
  <2>2. Iso(time) \in Nat
    BY DEF Iso
  <2> QED
    BY <1>2, <2>1, <2>2 DEF Rows, Statuses
<1> QED
  BY <1>1, <1>2 DEF expire_due

(* The row a settling turn writes is a row.                                *)
LEMMA OutcomeTyped ==
  ASSUME TypeOK, NEW t \in Turns, turn[t].stage \in InFlightStages,
         NEW status \in Decisions, NEW rowid \in Nat
  PROVE  Outcome(t, status, rowid) \in Rows
<1>1. turn[t] \in Live
  BY DEF TypeOK, Over, Idle, InFlightStages
<1>2. Zulu(turn[t].began) \in Nat /\ Zulu(turn[t].began + Timeout) \in Nat
  BY <1>1, ConstantsAssumption DEF Live, Zulu
<1> QED
  BY <1>1, <1>2 DEF Outcome, Rows, Live, Decisions, Statuses, Settled

(* A table of rows hands on rows.                                          *)
LEMMA LatestTyped ==
  ASSUME NEW db \in [Requests -> Rows \cup {NoRow}], NEW s \in Sessions,
         NEW previous \in get_latest_for_session(db, s)
  PROVE  \/ previous = NoRow
         \/ /\ previous \in Rows
            /\ previous.session = s
            /\ \E r \in Requests : previous = db[r]
<1> DEFINE mine == {r \in Requests : db[r].exists /\ db[r].session = s}
<1>1. CASE previous = NoRow
  BY <1>1
<1>2. CASE \E r \in mine : previous = db[r]
  BY <1>2 DEF NoRow
<1> QED
  BY <1>1, <1>2 DEF get_latest_for_session

(* A turn that is admitted starts with typed locals.                       *)
LEMMA StartedTyped ==
  ASSUME now \in Nat, NEW row \in Rows \cup {NoRow}, NEW previous \in Rows \cup {NoRow},
         NEW r \in Requests, NEW s \in Sessions, NEW identity \in Users \cup {None},
         NEW speaker \in BOOLEAN
  PROVE  Started(row, previous, r, s, identity, speaker) \in Live
<1>1. /\ row.exists => row \in Rows
      /\ previous.exists => previous \in Rows
  BY DEF NoRow
<1>2. StartingTrust(row, previous, identity) \in Users \cup {None}
  BY <1>1 DEF StartingTrust, Rows
<1>3. StartingUser(row, previous, identity) \in Users \cup {None, Guest}
  BY <1>1, <1>2 DEF StartingUser, Rows
<1> QED
  BY <1>2, <1>3 DEF Started, Live, Provenance, InFlightStages

(* Cardinality(Stored) + 1 numbers a new row.                              *)
LEMMA RowidTyped == Cardinality(Stored) + 1 \in Nat
<1>1. IsFiniteSet(Stored)
  BY FS_Subset, ConstantsAssumption DEF Stored
<1> QED
  BY <1>1, FS_CardinalityType

(* What a turn that resumes has read is still there: its row may expire    *)
(* under it, but is neither dropped nor moved to another session.          *)
ResumedRowStays ==
  \A t \in InFlight : turn[t].row.exists =>
    /\ store[turn[t].request].exists
    /\ store[turn[t].request].session = turn[t].session

(* The sweep changes nothing of a row but its status and its timestamp.    *)
LEMMA ExpireDueKeeps ==
  ASSUME store \in [Requests -> Rows \cup {NoRow}], NEW time \in Nat, NEW r \in Requests
  PROVE  LET swept == expire_due(time)[r] IN
         /\ swept.exists = store[r].exists
         /\ store[r].exists =>
              /\ swept.session = store[r].session
              /\ swept.user = store[r].user
              /\ swept.trusted = store[r].trusted
              /\ swept.trace = store[r].trace
              /\ swept.pending = store[r].pending
              /\ swept.expires = store[r].expires
              /\ swept.rowid = store[r].rowid
              /\ \/ swept.status = store[r].status
                 \/ /\ store[r].status = "NEEDS_CLARIFICATION"
                    /\ swept.status = "EXPIRED"
         /\ ~store[r].exists => swept = store[r]
<1>1. CASE expire_due(time)[r] = store[r]
  BY <1>1
<1>2. CASE /\ store[r].exists
           /\ store[r].status = "NEEDS_CLARIFICATION"
           /\ expire_due(time)[r] = [store[r] EXCEPT !.status = "EXPIRED", !.updated = Iso(time)]
  <2>1. store[r] \in Rows
    BY <1>2 DEF NoRow
  <2>2. ASSUME NEW row \in Rows, NEW swept,
               swept = [row EXCEPT !.status = "EXPIRED", !.updated = Iso(time)]
        PROVE  /\ swept.exists /\ row.exists
               /\ swept.session = row.session
               /\ swept.user = row.user
               /\ swept.trusted = row.trusted
               /\ swept.trace = row.trace
               /\ swept.pending = row.pending
               /\ swept.expires = row.expires
               /\ swept.rowid = row.rowid
               /\ swept.status = "EXPIRED"
    BY <2>2, Zenon DEF Rows
  <2> HIDE DEF expire_due
  <2> DEFINE swept == expire_due(time)[r]
             row == store[r]
  <2>3. row \in Rows /\ swept = [row EXCEPT !.status = "EXPIRED", !.updated = Iso(time)]
    BY <1>2, <2>1
  <2> HIDE DEF swept, row
  <2>4. /\ swept.exists /\ row.exists
        /\ swept.session = row.session
        /\ swept.user = row.user
        /\ swept.trusted = row.trusted
        /\ swept.trace = row.trace
        /\ swept.pending = row.pending
        /\ swept.expires = row.expires
        /\ swept.rowid = row.rowid
        /\ swept.status = "EXPIRED"
    BY <2>2, <2>3, Zenon
  <2> QED
    BY <1>2, <2>4, Zenon DEF swept, row
<1> QED
  BY <1>1, <1>2 DEF expire_due

(* What is left of a turn that concludes.                                  *)
LEMMA ConcludedTyped ==
  ASSUME NEW l \in Live, NEW status \in Decisions
  PROVE  Concluded(l, status) \in Over
<1> DEFINE d == IF l.ran /\ l.row.exists THEN l.row.pending ELSE None
           a == IF status = "NEEDS_CLARIFICATION"
                THEN [began |-> l.began, trusted |-> l.trusted] ELSE None
<1>1. d \in Turns \cup {None}
  <2>1. l.row \in Rows \cup {NoRow}
    BY DEF Live
  <2>2. CASE l.row \in Rows
    BY <2>2 DEF Rows
  <2>3. CASE ~l.row.exists
    BY <2>3
  <2> QED
    BY <2>1, <2>2, <2>3 DEF NoRow
<1>2. a \in Questions \cup {None}
  BY DEF Live, Questions
<1>3. l.request \in Requests /\ l.session \in Sessions
  BY DEF Live
<1>4. Concluded(l, status) = [stage |-> "over", request |-> l.request, session |-> l.session,
                              answer |-> status, did |-> d, asked |-> a]
  BY DEF Concluded
<1> HIDE DEF d, a
<1>5. Concluded(l, status) \in
        [stage: {"over"}, request: Requests, session: Sessions, answer: Decisions,
         did: Turns \cup {None}, asked: Questions \cup {None}]
  BY <1>1, <1>2, <1>3, <1>4
<1> QED
  BY <1>5 DEF Over

(* The shape of the state is never broken, whatever the constants are.     *)
LEMMA TypeStep == TypeOK /\ ResumedRowStays /\ [Next]_vars => TypeOK'
<1>2. ASSUME TypeOK, ResumedRowStays, [Next]_vars PROVE TypeOK'
  <2> USE <1>2
  <2>0. /\ now \in Nat
        /\ store \in [Requests -> Rows \cup {NoRow}]
        /\ turn \in [Turns -> Live \cup Over \cup {Idle}]
        /\ shown \in [Sources -> Requests \cup {None}]
        /\ heard \in [Sessions -> SUBSET Users]
        /\ expire_due(now) \in [Requests -> Rows \cup {NoRow}]
    BY ExpireDueTyped DEF TypeOK
  <2>1. ASSUME NEW t \in Turns, NEW r \in Requests, NEW s \in Sessions, Refuse(t, r, s)
        PROVE  TypeOK'
    BY <2>0, <2>1 DEF Refuse, TypeOK, Ended, Over, Answers, Decisions, Statuses, Settled
  <2>2. ASSUME NEW t \in Turns, NEW r \in Requests, NEW s \in Sessions, AnswerExpired(t, r, s)
        PROVE  TypeOK'
    BY <2>0, <2>2 DEF AnswerExpired, TypeOK, Ended, Over, Answers, Decisions, Statuses, Settled
  <2>3. ASSUME NEW t \in Turns, NEW r \in Requests, NEW s \in Sessions,
               NEW identity \in Users \cup {None}, NEW speaker \in BOOLEAN,
               Admit(t, r, s, identity, speaker)
        PROVE  TypeOK'
    <3>1. PICK previous \in get_latest_for_session(expire_due(now), s) :
            turn' = [turn EXCEPT ![t] =
              Started(expire_due(now)[r], previous, r, s, identity, speaker)]
      BY <2>3 DEF Admit
    <3>2. turn' \in [Turns -> Live \cup Over \cup {Idle}]
      BY <2>0, <3>1, LatestTyped, StartedTyped
    <3> QED
      BY <2>0, <2>3, <3>2, ConstantsAssumption DEF Admit, TypeOK, show, Hear
  <2>4. ASSUME NEW t \in Turns, NEW detected \in Users \cup {None}, Identify(t, detected)
        PROVE  TypeOK'
    <3>1. turn[t] \in Live
      BY <2>0, <2>4 DEF Identify, Over, Idle, InFlightStages
    <3> QED
      BY <2>0, <2>4, <3>1, ConstantsAssumption
      DEF Identify, TypeOK, Live, Provenance, InFlightStages, show, Hear
  <2>5. ASSUME NEW t \in Turns, Match(t) \/ Miss(t) \/ SemanticMatch(t) \/ Act(t)
        PROVE  TypeOK'
    <3>1. turn[t] \in Live
      BY <2>0, <2>5 DEF Match, Miss, SemanticMatch, Act, Over, Idle, InFlightStages
    <3>2. turn' \in [Turns -> Live \cup Over \cup {Idle}]
      <4>1. ASSUME NEW stage \in InFlightStages, turn' = [turn EXCEPT ![t].stage = stage]
            PROVE  turn' \in [Turns -> Live \cup Over \cup {Idle}]
        BY <2>0, <3>1, <4>1 DEF Live
      <4>2. ASSUME turn' = [turn EXCEPT ![t].ran = TRUE]
            PROVE  turn' \in [Turns -> Live \cup Over \cup {Idle}]
        BY <2>0, <3>1, <4>2 DEF Live
      <4> QED
        BY <2>5, <4>1, <4>2 DEF Match, Miss, SemanticMatch, Act, Enter, InFlightStages
    <3>3. shown' \in [Sources -> Requests \cup {None}]
      BY <2>0, <2>5, <3>1, ConstantsAssumption
      DEF Match, Miss, SemanticMatch, Act, Live, show
    <3> QED
      BY <2>0, <2>5, <3>2, <3>3 DEF Match, Miss, SemanticMatch, Act, TypeOK
  <2>6. ASSUME NEW t \in Turns, Settle(t) PROVE TypeOK'
    <3>1. PICK status \in Decisions : SettleNew(t, status) \/ SettleResumed(t, status)
      BY <2>6 DEF Settle
    <3>2. turn[t].stage \in InFlightStages
      BY <3>1 DEF SettleNew, SettleResumed, Decided, InFlightStages
    <3>3. turn[t] \in Live
      BY <2>0, <3>2 DEF Over, Idle, InFlightStages
    <3>4. ASSUME Conclude(t, status)
          PROVE  /\ turn' \in [Turns -> Live \cup Over \cup {Idle}]
                 /\ shown' \in [Sources -> Requests \cup {None}]
      <4>1. Concluded(turn[t], status) \in Over
        BY <3>3, ConcludedTyped
      <4>2. turn[t].session \in Sessions /\ turn[t].request \in Requests
        BY <3>3 DEF Live
      <4> QED
        BY <2>0, <3>4, <4>1, <4>2, ConstantsAssumption DEF Conclude, show
    <3>5. CASE SettleNew(t, status)
      <4>1. CASE Conclude(t, status)
        BY <2>0, <3>2, <3>4, <3>5, <4>1, OutcomeTyped, RowidTyped DEF SettleNew, TypeOK
      <4>2. CASE turn' = Abandon(t, "DUPLICATE") /\ UNCHANGED <<store, shown>>
        <5>1. turn' \in [Turns -> Live \cup Over \cup {Idle}]
          BY <2>0, <3>3, <4>2
          DEF Abandon, Ended, Live, Over, Answers, Decisions, Statuses, Settled
        <5> QED
          BY <2>0, <3>5, <4>2, <5>1 DEF SettleNew, TypeOK
      <4> QED
        BY <3>5, <4>1, <4>2 DEF SettleNew
    <3>6. CASE SettleResumed(t, status)
      <4>1. store[turn[t].request] \in Rows
        BY <2>0, <3>2, <3>3, <3>6 DEF SettleResumed, ResumedRowStays, InFlight, Live, NoRow
      <4>2. Outcome(t, status, store[turn[t].request].rowid) \in Rows
        BY <3>2, <4>1, OutcomeTyped DEF Rows
      <4> QED
        BY <2>0, <3>4, <3>6, <4>2 DEF SettleResumed, TypeOK
    <3> QED
      BY <3>1, <3>5, <3>6
  <2>7. ASSUME NEW t \in Turns, Raise(t) PROVE TypeOK'
    <3>1. turn[t] \in Live
      BY <2>0, <2>7 DEF Raise, Over, Idle, InFlightStages
    <3> QED
      BY <2>0, <2>7, <3>1
      DEF Raise, TypeOK, Abandon, Ended, Live, Over, Answers, Decisions, Statuses, Settled
  <2>8. CASE Restart
    BY <2>0, <2>8
    DEF Restart, TypeOK, InFlight, Ended, Live, Over, Idle, Answers, Decisions, Statuses,
        Settled, InFlightStages
  <2>9. CASE Tick
    BY <2>0, <2>9 DEF Tick, TypeOK
  <2>10. CASE UNCHANGED vars
    BY <2>10 DEF vars, TypeOK
  <2> QED
    BY <2>1, <2>2, <2>3, <2>4, <2>5, <2>6, <2>7, <2>8, <2>9, <2>10
    DEF Next, Post, Proceed
<1> QED
  BY <1>2

-----------------------------------------------------------------------------
(* What one step does to the turns and to the table, whichever it is.      *)

(* A turn in flight was in flight and keeps what it read, or it starts     *)
(* now, from the row the sweep has left.                                   *)
LEMMA TurnStep ==
  ASSUME TypeOK, [Next]_vars, NEW t \in Turns, turn'[t].stage \in InFlightStages
  PROVE  \/ /\ turn[t].stage \in InFlightStages
            /\ turn'[t].request = turn[t].request
            /\ turn'[t].session = turn[t].session
            /\ turn'[t].began = turn[t].began
            /\ turn'[t].row = turn[t].row
         \/ /\ turn[t].stage \notin InFlightStages
            /\ store' = expire_due(now)
            /\ now' = now
            /\ turn'[t].began = now
            /\ turn'[t].row = expire_due(now)[turn'[t].request]
            /\ turn'[t].row.exists => /\ turn'[t].row.session = turn'[t].session
                                      /\ turn'[t].row.status = "NEEDS_CLARIFICATION"
  <1>0. turn \in [Turns -> Live \cup Over \cup {Idle}]
    BY DEF TypeOK
  <1>1. CASE turn'[t] = turn[t]
    BY <1>1
  <1>2. ASSUME NEW u \in Turns, NEW r \in Requests, NEW s \in Sessions,
               Refuse(u, r, s) \/ AnswerExpired(u, r, s), turn'[t] # turn[t]
        PROVE  FALSE
    BY <1>0, <1>2 DEF Refuse, AnswerExpired, Ended, InFlightStages
  <1>3. ASSUME NEW u \in Turns, NEW r \in Requests, NEW s \in Sessions,
               NEW identity \in Users \cup {None}, NEW speaker \in BOOLEAN,
               Admit(u, r, s, identity, speaker), turn'[t] # turn[t]
        PROVE  /\ turn[t].stage \notin InFlightStages
               /\ store' = expire_due(now)
               /\ now' = now
               /\ turn'[t].began = now
               /\ turn'[t].row = expire_due(now)[turn'[t].request]
               /\ turn'[t].row.exists => /\ turn'[t].row.session = turn'[t].session
                                         /\ turn'[t].row.status = "NEEDS_CLARIFICATION"
    BY <1>0, <1>3 DEF Admit, Started, MayPost, Idle, InFlightStages
  <1>4. ASSUME NEW u \in Turns, turn'[t] # turn[t],
               \/ \E detected \in Users \cup {None} : Identify(u, detected)
               \/ Match(u) \/ Miss(u) \/ SemanticMatch(u) \/ Act(u)
        PROVE  /\ turn[t].stage \in InFlightStages
               /\ turn'[t].request = turn[t].request
               /\ turn'[t].session = turn[t].session
               /\ turn'[t].began = turn[t].began
               /\ turn'[t].row = turn[t].row
    <2>1. t = u /\ turn[t].stage \in InFlightStages
      BY <1>0, <1>4 DEF Identify, Match, Miss, SemanticMatch, Act, Enter, InFlightStages
    <2>2. turn[t] \in Live
      BY <1>0, <2>1 DEF Over, Idle, InFlightStages
    <2>3. CASE \E detected \in Users \cup {None} : Identify(u, detected)
      BY <1>0, <2>1, <2>2, <2>3 DEF Identify, Live
    <2>4. CASE \E stage \in InFlightStages : Enter(u, stage)
      BY <1>0, <2>1, <2>2, <2>4 DEF Enter, Live
    <2>5. CASE Act(u)
      BY <1>0, <2>1, <2>2, <2>5 DEF Act, Live
    <2> QED
      BY <1>4, <2>1, <2>3, <2>4, <2>5 DEF Match, Miss, SemanticMatch, InFlightStages
  <1>5. ASSUME NEW u \in Turns, Settle(u) \/ Raise(u), turn'[t] # turn[t]
        PROVE  FALSE
    BY <1>0, <1>5
    DEF Settle, SettleNew, SettleResumed, Conclude, Concluded, Raise, Abandon, Ended, InFlightStages
  <1>6. ASSUME Restart, turn'[t] # turn[t] PROVE FALSE
    BY <1>0, <1>6 DEF Restart, Ended, InFlightStages
  <1> QED
    BY <1>1, <1>2, <1>3, <1>4, <1>5, <1>6 DEF Next, Post, Proceed, Tick, vars

(* A turn that is over stays as it is.                                     *)
LEMMA OverStep ==
  ASSUME TypeOK, [Next]_vars, NEW t \in Turns, turn[t].stage = "over"
  PROVE  turn'[t] = turn[t]
  <1>0. turn \in [Turns -> Live \cup Over \cup {Idle}]
    BY DEF TypeOK
  <1>1. ASSUME NEW u \in Turns, Post(u) PROVE turn'[t] = turn[t]
    BY <1>0, <1>1 DEF Post, Refuse, AnswerExpired, Admit, MayPost, Idle
  <1>2. ASSUME NEW u \in Turns, Proceed(u) PROVE turn'[t] = turn[t]
    <2>1. t # u
      BY <1>2 DEF Proceed, Identify, Match, Miss, SemanticMatch, Act, Settle, SettleNew,
                  SettleResumed, Decided, Raise
    <2>2. CASE Settle(u)
      BY <1>0, <2>1, <2>2 DEF Settle, SettleNew, SettleResumed, Conclude, Abandon
    <2>3. CASE ~Settle(u)
      BY <1>0, <1>2, <2>1, <2>3
      DEF Proceed, Identify, Match, Miss, SemanticMatch, Act, Enter, Raise, Abandon
    <2> QED
      BY <2>2, <2>3
  <1>3. ASSUME Restart PROVE turn'[t] = turn[t]
    BY <1>0, <1>3 DEF Restart, InFlight, InFlightStages
  <1> QED
    BY <1>1, <1>2, <1>3 DEF Next, Tick, vars

(* A row is left alone, swept, or written by a turn that concludes.        *)
LEMMA RowStep ==
  ASSUME TypeOK, ResumedRowStays, [Next]_vars, NEW r \in Requests
  PROVE  \/ store'[r] = store[r]
         \/ store'[r] = expire_due(now)[r]
         \/ \E t \in InFlight, status \in Decisions :
              /\ turn[t].request = r
              /\ turn'[t] = Concluded(turn[t], status)
              /\ now' = now
              /\ \/ /\ store[r].exists
                    /\ turn[t].row.exists
                    /\ store'[r] = Outcome(t, status, store[r].rowid)
                 \/ /\ ~store[r].exists
                    /\ ~turn[t].row.exists
                    /\ store'[r] = Outcome(t, status, Cardinality(Stored) + 1)
  <1>0. /\ turn \in [Turns -> Live \cup Over \cup {Idle}]
        /\ store \in [Requests -> Rows \cup {NoRow}]
    BY DEF TypeOK
  <1>1. ASSUME NEW t \in Turns, Post(t) PROVE store'[r] = expire_due(now)[r]
    BY <1>1 DEF Post, Refuse, AnswerExpired, Admit
  <1>2. ASSUME NEW t \in Turns, NEW status \in Decisions,
               SettleNew(t, status) \/ SettleResumed(t, status), store'[r] # store[r]
        PROVE  /\ t \in InFlight
               /\ turn[t].request = r
               /\ turn'[t] = Concluded(turn[t], status)
               /\ now' = now
               /\ \/ /\ store[r].exists
                     /\ turn[t].row.exists
                     /\ store'[r] = Outcome(t, status, store[r].rowid)
                  \/ /\ ~store[r].exists
                     /\ ~turn[t].row.exists
                     /\ store'[r] = Outcome(t, status, Cardinality(Stored) + 1)
    <2>1. t \in InFlight
      BY <1>2 DEF SettleNew, SettleResumed, Decided, InFlight, InFlightStages
    <2>2. turn[t].request = r
      BY <1>0, <1>2 DEF SettleNew, SettleResumed
    <2> QED
      BY <1>0, <1>2, <2>1, <2>2 DEF SettleNew, SettleResumed, Conclude, ResumedRowStays
  <1>3. ASSUME NEW t \in Turns, Proceed(t), ~Settle(t) PROVE store'[r] = store[r]
    BY <1>3 DEF Proceed, Identify, Match, Miss, SemanticMatch, Act, Raise
  <1> QED
    BY <1>1, <1>2, <1>3 DEF Next, Proceed, Settle, Restart, Tick, vars

(* A row is never dropped, renumbered or moved to another session.         *)
LEMMA RowsStay ==
  ASSUME TypeOK, ResumedRowStays, [Next]_vars, NEW r \in Requests, store[r].exists
  PROVE  /\ store'[r].exists
         /\ store'[r].session = store[r].session
         /\ store'[r].rowid = store[r].rowid
  <1>1. CASE store'[r] = expire_due(now)[r]
    BY <1>1, ExpireDueKeeps DEF TypeOK
  <1>2. ASSUME NEW t \in InFlight, NEW status \in Decisions,
               turn[t].request = r, turn[t].row.exists,
               store'[r] = Outcome(t, status, store[r].rowid)
        PROVE  /\ store'[r].exists
               /\ store'[r].session = store[r].session
               /\ store'[r].rowid = store[r].rowid
    BY <1>2 DEF Outcome, ResumedRowStays
  <1> QED
    BY <1>1, <1>2, RowStep

(* No step, a turn's own or another's, drops the row a turn resumed.       *)
LEMMA ResumedRowStaysStep ==
  TypeOK /\ ResumedRowStays /\ [Next]_vars => ResumedRowStays'
  <1> SUFFICES ASSUME TypeOK, ResumedRowStays, [Next]_vars, NEW t \in InFlight',
                      turn'[t].row.exists
               PROVE  /\ store'[turn'[t].request].exists
                      /\ store'[turn'[t].request].session = turn'[t].session
    BY DEF ResumedRowStays
  <1>1. t \in Turns /\ turn'[t].stage \in InFlightStages
    BY DEF InFlight
  <1>2. CASE /\ turn[t].stage \in InFlightStages
             /\ turn'[t].request = turn[t].request
             /\ turn'[t].session = turn[t].session
             /\ turn'[t].row = turn[t].row
    <2>1. turn[t] \in Live
      BY <1>1, <1>2 DEF TypeOK, Over, Idle, InFlightStages
    <2> QED
      BY <1>1, <1>2, <2>1, RowsStay DEF ResumedRowStays, InFlight, Live
  <1>3. CASE /\ store' = expire_due(now)
             /\ turn'[t].row = expire_due(now)[turn'[t].request]
             /\ turn'[t].row.session = turn'[t].session
    BY <1>3
  <1> QED
    BY <1>1, <1>2, <1>3, TurnStep

(* A turn that now ends with a status its client may rely on leaves a row. *)
LEMMA EndStep ==
  ASSUME TypeOK, ResumedRowStays, [Next]_vars, NEW t \in Turns,
         turn[t].stage # "over", turn'[t].stage = "over", turn'[t].answer \in Statuses
  PROVE  /\ store'[turn'[t].request].exists
         /\ store'[turn'[t].request].session = turn'[t].session
  <1>0. /\ turn \in [Turns -> Live \cup Over \cup {Idle}]
        /\ store \in [Requests -> Rows \cup {NoRow}]
    BY DEF TypeOK
  <1>1. ASSUME NEW u \in Turns, NEW r \in Requests, NEW s \in Sessions, AnswerExpired(u, r, s)
        PROVE  /\ store'[turn'[t].request].exists
               /\ store'[turn'[t].request].session = turn'[t].session
    BY <1>0, <1>1 DEF AnswerExpired, Ended
  <1>2. ASSUME NEW u \in Turns, NEW r \in Requests, NEW s \in Sessions,
               \/ Refuse(u, r, s)
               \/ \E identity \in Users \cup {None}, speaker \in BOOLEAN :
                    Admit(u, r, s, identity, speaker)
        PROVE  FALSE
    BY <1>0, <1>2
    DEF Refuse, Ended, Admit, Started, Statuses, Decisions, Settled
  <1>3. ASSUME NEW u \in Turns, NEW status \in Decisions,
               SettleNew(u, status) \/ SettleResumed(u, status)
        PROVE  /\ store'[turn'[t].request].exists
               /\ store'[turn'[t].request].session = turn'[t].session
    <2>1. turn[u] \in Live
      BY <1>0, <1>3 DEF SettleNew, SettleResumed, Decided, Over, Idle
    <2>2. t = u
      BY <1>0, <1>3 DEF SettleNew, SettleResumed, Conclude, Abandon
    <2>3. Conclude(u, status)
      BY <1>0, <1>3, <2>2
      DEF SettleNew, SettleResumed, Abandon, Ended, Statuses, Decisions, Settled
    <2>4. turn'[t].request = turn[u].request /\ turn'[t].session = turn[u].session
      BY <1>0, <2>2, <2>3 DEF Conclude, Concluded
    <2>5. turn[u].request \in Requests
      BY <2>1 DEF Live
    <2>6. CASE SettleResumed(u, status)
      BY <1>0, <2>4, <2>5, <2>6 DEF SettleResumed, Outcome
    <2>7. CASE SettleNew(u, status)
      <3>1. turn'[t].answer # "DUPLICATE"
        BY DEF Statuses, Decisions, Settled
      <3>2. store' = [store EXCEPT ![turn[u].request] = Outcome(u, status, Cardinality(Stored) + 1)]
        BY <1>0, <2>2, <2>7, <3>1 DEF SettleNew, Abandon, Ended
      <3> QED
        BY <1>0, <2>4, <2>5, <3>2 DEF Outcome
    <2> QED
      BY <1>3, <2>6, <2>7
  <1>4. ASSUME NEW u \in Turns, Proceed(u), ~Settle(u) PROVE FALSE
    <2>1. t = u
      BY <1>0, <1>4
      DEF Proceed, Identify, Match, Miss, SemanticMatch, Act, Enter, Raise, Abandon
    <2>2. CASE Raise(u)
      BY <1>0, <2>1, <2>2 DEF Raise, Abandon, Ended, Statuses, Decisions, Settled
    <2>3. CASE \E detected \in Users \cup {None} : Identify(u, detected)
      BY <1>0, <2>1, <2>3 DEF Identify, Live, Over, Idle
    <2>4. CASE \E stage \in InFlightStages : Enter(u, stage) /\ turn[u].stage \in InFlightStages
      BY <1>0, <2>1, <2>4 DEF Enter, Live, Over, Idle, InFlightStages
    <2>5. CASE Act(u)
      BY <1>0, <2>1, <2>5 DEF Act, Live, Over, Idle
    <2> QED
      BY <1>4, <2>2, <2>3, <2>4, <2>5 DEF Proceed, Match, Miss, SemanticMatch, InFlightStages
  <1>5. ASSUME Restart PROVE FALSE
    BY <1>0, <1>5 DEF Restart, Ended, Statuses, Decisions, Settled
  <1> QED
    BY <1>1, <1>2, <1>3, <1>4, <1>5 DEF Next, Post, Proceed, Settle, Tick, vars

-----------------------------------------------------------------------------
(* The question a pending row keeps: which turn asked it, of whom, and     *)
(* until when it may be answered.                                          *)
Keeps(turns, time, row, r, s) ==
  LET p == row.pending
  IN /\ p \in Turns
     /\ turns[p].stage = "over"
     /\ turns[p].answer = "NEEDS_CLARIFICATION"
     /\ turns[p].request = r
     /\ turns[p].session = s
     /\ turns[p].asked \in Questions
     /\ turns[p].asked.trusted = row.trusted
     /\ turns[p].asked.began <= time
     /\ row.expires = Zulu(turns[p].asked.began + Timeout)

PendingRowsKeep ==
  \A r \in Requests :
    (store[r].exists /\ store[r].status \in {"NEEDS_CLARIFICATION", "EXPIRED"})
    => Keeps(turn, now, store[r], r, store[r].session)

(* A turn in flight has begun, and read its row before the deadline.       *)
ResumedRowsKeep ==
  \A t \in InFlight :
    /\ turn[t].began <= now
    /\ turn[t].row.exists =>
         /\ Keeps(turn, now, turn[t].row, turn[t].request, turn[t].session)
         /\ turn[turn[t].row.pending].asked.began <= turn[t].began
         /\ turn[t].began <= turn[turn[t].row.pending].asked.began + Timeout

(* The inductive invariant.                                                *)
IInv ==
  /\ TypeOK
  /\ ResumedRowStays
  /\ PendingRowsKeep
  /\ ResumedRowsKeep
  /\ RowsAreAnswers
  /\ IdentityStaysInSession

(* The Router's clock never runs backwards.                                *)
LEMMA ClockStep ==
  ASSUME TypeOK, [Next]_vars PROVE now' \in Nat /\ now <= now'
  <1>1. ASSUME NEW t \in Turns, Post(t) PROVE now' = now
    BY <1>1 DEF Post, Refuse, AnswerExpired, Admit
  <1>2. ASSUME NEW t \in Turns, Proceed(t) PROVE now' = now
    BY <1>2 DEF Proceed, Identify, Match, Miss, SemanticMatch, Act, Settle, SettleNew,
                SettleResumed, Raise
  <1>3. now' = now \/ now' = now + 1
    BY <1>1, <1>2 DEF Next, Restart, Tick, vars
  <1> QED
    BY <1>3 DEF TypeOK

(* What a row keeps, it keeps.                                             *)
LEMMA KeepsStep ==
  ASSUME TypeOK, [Next]_vars, NEW row, NEW r, NEW s, Keeps(turn, now, row, r, s)
  PROVE  Keeps(turn', now', row, r, s)
  <1>1. turn'[row.pending] = turn[row.pending]
    BY OverStep DEF Keeps
  <1> QED
    BY <1>1, ClockStep DEF Keeps, Questions, TypeOK

(* Only the turn that asks writes a pending row, and the sweep that expires it*)
(* keeps the rest: the row keeps matching the turn it names.               *)
LEMMA PendingRowsKeepStep ==
  TypeOK /\ ResumedRowStays /\ PendingRowsKeep /\ ResumedRowsKeep /\ [Next]_vars => PendingRowsKeep'
  <1> SUFFICES ASSUME TypeOK, ResumedRowStays, PendingRowsKeep, ResumedRowsKeep, [Next]_vars,
                      NEW r \in Requests, store'[r].exists,
                      store'[r].status \in {"NEEDS_CLARIFICATION", "EXPIRED"}
               PROVE  Keeps(turn', now', store'[r], r, store'[r].session)
    BY DEF PendingRowsKeep
  <1>1. CASE store'[r] = store[r]
    <2>1. Keeps(turn, now, store[r], r, store[r].session)
      BY <1>1 DEF PendingRowsKeep
    <2> QED
      BY <1>1, <2>1, KeepsStep
  <1>2. CASE store'[r] = expire_due(now)[r]
    <2>1. /\ store[r].exists
          /\ store[r].status \in {"NEEDS_CLARIFICATION", "EXPIRED"}
          /\ store'[r].pending = store[r].pending
          /\ store'[r].trusted = store[r].trusted
          /\ store'[r].expires = store[r].expires
          /\ store'[r].session = store[r].session
      BY <1>2, ExpireDueKeeps DEF TypeOK
    <2>2. Keeps(turn, now, store[r], r, store[r].session)
      BY <2>1 DEF PendingRowsKeep
    <2>3. Keeps(turn', now', store[r], r, store[r].session)
      BY <2>2, KeepsStep
    <2> QED
      BY <2>1, <2>3 DEF Keeps
  <1>3. ASSUME NEW t \in InFlight, NEW status \in Decisions, NEW rowid,
               turn[t].request = r, turn'[t] = Concluded(turn[t], status), now' = now,
               store'[r] = Outcome(t, status, rowid)
        PROVE  Keeps(turn', now', store'[r], r, store'[r].session)
    <2>1. turn[t] \in Live
      BY DEF TypeOK, InFlight, Over, Idle, InFlightStages
    <2>2. status = "NEEDS_CLARIFICATION"
      BY <1>3 DEF Outcome, Decisions, Settled
    <2>3. /\ store'[r].pending = t
          /\ store'[r].session = turn[t].session
          /\ store'[r].trusted = turn[t].trusted
          /\ store'[r].expires = Zulu(turn[t].began + Timeout)
      BY <1>3, <2>2 DEF Outcome
    <2>4. /\ turn'[t].stage = "over"
          /\ turn'[t].answer = "NEEDS_CLARIFICATION"
          /\ turn'[t].request = r
          /\ turn'[t].session = turn[t].session
          /\ turn'[t].asked = [began |-> turn[t].began, trusted |-> turn[t].trusted]
      BY <1>3, <2>2 DEF Concluded
    <2>5. turn[t].began \in Nat /\ turn[t].trusted \in Users \cup {None} /\ turn[t].began <= now
      BY <2>1 DEF Live, ResumedRowsKeep
    <2> QED
      BY <1>3, <2>3, <2>4, <2>5 DEF Keeps, Questions, InFlight
  <1> QED
    BY <1>1, <1>2, <1>3, RowStep

(* A row that the sweep of this moment left pending is within its deadline.*)
LEMMA SweptInTime ==
  ASSUME store \in [Requests -> Rows \cup {NoRow}], NEW r \in Requests, now \in Nat,
         expire_due(now)[r].exists, expire_due(now)[r].status = "NEEDS_CLARIFICATION",
         NEW began \in Nat, expire_due(now)[r].expires = Zulu(began + Timeout)
  PROVE  now <= began + Timeout
  <1>1. expire_due(now)[r] = store[r]
    <2>1. SUFFICES ASSUME store[r].exists,
                          expire_due(now)[r] =
                            [store[r] EXCEPT !.status = "EXPIRED", !.updated = Iso(now)]
                   PROVE  FALSE
      BY DEF expire_due
    <2>2. store[r] \in Rows
      BY <2>1 DEF NoRow
    <2>3. ASSUME NEW row \in Rows, NEW swept,
                 swept = [row EXCEPT !.status = "EXPIRED", !.updated = Iso(now)]
          PROVE  swept.status = "EXPIRED"
      BY <2>3, Zenon DEF Rows
    <2> QED
      BY <2>1, <2>2, <2>3
  <1>2. /\ store[r].exists
        /\ store[r].status = "NEEDS_CLARIFICATION"
        /\ store[r].expires = Zulu(began + Timeout)
    BY <1>1
  <1>3. Zulu(began + Timeout) \in Nat /\ Zulu(began + Timeout) # None
    BY ConstantsAssumption DEF Zulu
  <1>4. ~(Zulu(began + Timeout) <= Iso(now))
    <2>1. SUFFICES ASSUME store[r].expires <= Iso(now) PROVE FALSE
      BY <1>2
    <2>2. expire_due(now)[r] = [store[r] EXCEPT !.status = "EXPIRED", !.updated = Iso(now)]
      BY <1>2, <1>3, <2>1 DEF expire_due
    <2>3. store[r] \in Rows
      BY <1>2 DEF NoRow
    <2>4. ASSUME NEW row \in Rows, NEW swept,
                 swept = [row EXCEPT !.status = "EXPIRED", !.updated = Iso(now)]
          PROVE  swept.status = "EXPIRED"
      BY <2>4, Zenon DEF Rows
    <2> QED
      BY <1>1, <1>2, <2>2, <2>3, <2>4
  <1> QED
    BY <1>4, ConstantsAssumption DEF Zulu, Iso

(* A turn resumes a row only after the sweep, so within the row's deadline,*)
(* and what it read of the asking turn cannot change any more.             *)
LEMMA ResumedRowsKeepStep ==
  TypeOK /\ ResumedRowStays /\ PendingRowsKeep /\ ResumedRowsKeep /\ [Next]_vars => ResumedRowsKeep'
  <1> SUFFICES ASSUME TypeOK, ResumedRowStays, PendingRowsKeep, ResumedRowsKeep, [Next]_vars,
                      NEW t \in InFlight'
               PROVE  (/\ turn[t].began <= now
                       /\ turn[t].row.exists =>
                            /\ Keeps(turn, now, turn[t].row, turn[t].request, turn[t].session)
                            /\ turn[turn[t].row.pending].asked.began <= turn[t].began
                            /\ turn[t].began <= turn[turn[t].row.pending].asked.began + Timeout)'
    BY DEF ResumedRowsKeep
  <1>1. t \in Turns /\ turn'[t].stage \in InFlightStages
    BY DEF InFlight
  <1>2. CASE /\ turn[t].stage \in InFlightStages
             /\ turn'[t].request = turn[t].request
             /\ turn'[t].session = turn[t].session
             /\ turn'[t].began = turn[t].began
             /\ turn'[t].row = turn[t].row
    <2>1. turn[t].began \in Nat /\ t \in InFlight
      BY <1>1, <1>2 DEF TypeOK, Live, Over, Idle, InFlightStages, InFlight
    <2>2. turn'[t].began <= now'
      BY <1>2, <2>1, ClockStep DEF ResumedRowsKeep, TypeOK
    <2>3. ASSUME turn[t].row.exists
          PROVE  /\ Keeps(turn', now', turn'[t].row, turn'[t].request, turn'[t].session)
                 /\ turn'[turn[t].row.pending] = turn[turn[t].row.pending]
      <3>1. Keeps(turn, now, turn[t].row, turn[t].request, turn[t].session)
        BY <2>1, <2>3 DEF ResumedRowsKeep
      <3>2. Keeps(turn', now', turn'[t].row, turn'[t].request, turn'[t].session)
        BY <1>2, <3>1, KeepsStep
      <3> QED
        BY <3>1, <3>2, OverStep DEF Keeps
    <2> QED
      BY <1>2, <2>1, <2>2, <2>3 DEF ResumedRowsKeep
  <1>3. CASE /\ store' = expire_due(now)
             /\ now' = now
             /\ turn'[t].began = now
             /\ turn'[t].row = expire_due(now)[turn'[t].request]
             /\ turn'[t].row.exists => /\ turn'[t].row.session = turn'[t].session
                                       /\ turn'[t].row.status = "NEEDS_CLARIFICATION"
    <2>1. TypeOK' /\ PendingRowsKeep'
      BY TypeStep, PendingRowsKeepStep
    <2>2. turn'[t].request \in Requests
      BY <1>1, <2>1 DEF TypeOK, Live, Over, Idle, InFlightStages
    <2>3. now \in Nat
      BY DEF TypeOK
    <2>4. ASSUME turn'[t].row.exists
          PROVE  /\ Keeps(turn', now', turn'[t].row, turn'[t].request, turn'[t].session)
                 /\ turn'[turn'[t].row.pending].asked.began <= turn'[t].began
                 /\ turn'[t].began <= turn'[turn'[t].row.pending].asked.began + Timeout
      <3>1. Keeps(turn', now', turn'[t].row, turn'[t].request, turn'[t].session)
        BY <1>3, <2>1, <2>2, <2>4 DEF PendingRowsKeep
      <3>2. turn'[turn'[t].row.pending].asked.began \in Nat
        BY <3>1 DEF Keeps, Questions
      <3> QED
        BY <1>3, <2>2, <2>3, <2>4, <3>1, <3>2, SweptInTime DEF Keeps, TypeOK
    <2> QED
      BY <1>3, <2>3, <2>4
  <1> QED
    BY <1>1, <1>2, <1>3, TurnStep

(* A row is written in the very step in which its turn is answered.        *)
LEMMA RowsAreAnswersStep ==
  TypeOK /\ ResumedRowStays /\ RowsAreAnswers /\ [Next]_vars => RowsAreAnswers'
  <1> SUFFICES ASSUME TypeOK, ResumedRowStays, RowsAreAnswers, [Next]_vars
               PROVE  RowsAreAnswers'
    OBVIOUS
  <1>1. ASSUME NEW r \in Requests, store'[r].exists
        PROVE  LET author == turn'[store'[r].trace] IN
               /\ author.stage = "over"
               /\ author.request = r
               /\ author.session = store'[r].session
               /\ \/ store'[r].status = author.answer
                  \/ store'[r].status = "EXPIRED" /\ author.answer = "NEEDS_CLARIFICATION"
    <2>1. CASE /\ store[r].exists
               /\ store'[r].trace = store[r].trace
               /\ store'[r].session = store[r].session
               /\ \/ store'[r].status = store[r].status
                  \/ /\ store[r].status = "NEEDS_CLARIFICATION"
                     /\ store'[r].status = "EXPIRED"
      <3>0. store[r] \in Rows
        BY <2>1 DEF TypeOK, NoRow
      <3>1. store[r].trace \in Turns
        BY <3>0 DEF Rows
      <3>2. /\ turn[store[r].trace].stage = "over"
            /\ turn[store[r].trace].request = r
            /\ turn[store[r].trace].session = store[r].session
            /\ \/ store[r].status = turn[store[r].trace].answer
               \/ /\ store[r].status = "EXPIRED"
                  /\ turn[store[r].trace].answer = "NEEDS_CLARIFICATION"
        BY <2>1 DEF RowsAreAnswers, Stored
      <3>3. turn'[store[r].trace] = turn[store[r].trace]
        BY <3>1, <3>2, OverStep
      <3> QED
        BY <2>1, <3>2, <3>3
    <2>2. CASE store'[r] = expire_due(now)[r]
      BY <1>1, <2>1, <2>2, ExpireDueKeeps DEF TypeOK
    <2>3. ASSUME NEW t \in InFlight, NEW status \in Decisions, NEW rowid,
                 turn[t].request = r, turn'[t] = Concluded(turn[t], status),
                 store'[r] = Outcome(t, status, rowid)
          PROVE  /\ turn'[store'[r].trace].stage = "over"
                 /\ turn'[store'[r].trace].request = r
                 /\ turn'[store'[r].trace].session = store'[r].session
                 /\ store'[r].status = turn'[store'[r].trace].answer
      BY <2>3 DEF Outcome, Concluded
    <2> QED
      BY <1>1, <2>1, <2>2, <2>3, RowStep
  <1>2. ASSUME NEW t \in Turns, turn'[t].stage = "over", turn'[t].answer \in Statuses
        PROVE  /\ store'[turn'[t].request].exists
               /\ store'[turn'[t].request].session = turn'[t].session
    <2>1. CASE turn[t].stage = "over"
      <3>1. turn'[t] = turn[t]
        BY <2>1, OverStep
      <3>2. turn[t].request \in Requests
        BY <2>1 DEF TypeOK, Live, Over, Idle, InFlightStages
      <3> QED
        BY <1>2, <2>1, <3>1, <3>2, RowsStay DEF RowsAreAnswers
    <2> QED
      BY <1>2, <2>1, EndStep
  <1> QED
    BY <1>1, <1>2 DEF RowsAreAnswers, Stored

-----------------------------------------------------------------------------
(* Whoever was heard in a session stays heard there.                       *)
LEMMA HeardStep ==
  ASSUME TypeOK, [Next]_vars, NEW s \in Sessions PROVE heard[s] \subseteq heard'[s]
  <1>0. ASSUME NEW q, NEW u, Hear(q, u) PROVE heard[s] \subseteq heard'[s]
    BY <1>0 DEF Hear, TypeOK
  <1>1. ASSUME NEW t \in Turns, Post(t) PROVE heard[s] \subseteq heard'[s]
    BY <1>0, <1>1 DEF Post, Refuse, AnswerExpired, Admit
  <1>2. ASSUME NEW t \in Turns, Proceed(t) PROVE heard[s] \subseteq heard'[s]
    BY <1>0, <1>2 DEF Proceed, Identify, Match, Miss, SemanticMatch, Act, Settle, SettleNew,
                      SettleResumed, Raise
  <1> QED
    BY <1>1, <1>2 DEF Next, Restart, Tick, vars

(* A turn acts for somebody heard in its own session.                      *)
LEMMA TrustStep ==
  ASSUME TypeOK, IdentityStaysInSession, [Next]_vars, NEW t \in InFlight'
  PROVE  /\ turn'[t].trusted \in heard'[turn'[t].session] \cup {None}
         /\ turn'[t].user \in heard'[turn'[t].session] \cup {None, Guest}
  <1>0. /\ now \in Nat
        /\ store \in [Requests -> Rows \cup {NoRow}]
        /\ turn \in [Turns -> Live \cup Over \cup {Idle}]
        /\ heard \in [Sessions -> SUBSET Users]
        /\ t \in Turns
        /\ turn'[t].stage \in InFlightStages
    BY DEF TypeOK, InFlight
  <1>1. CASE turn'[t] = turn[t]
    <2>1. turn[t].session \in Sessions /\ t \in InFlight
      BY <1>0, <1>1 DEF Live, Over, Idle, InFlight, InFlightStages
    <2> QED
      BY <1>1, <2>1, HeardStep DEF IdentityStaysInSession
  <1>2. ASSUME NEW u \in Turns, NEW r \in Requests, NEW s \in Sessions,
               NEW identity \in Users \cup {None}, NEW speaker \in BOOLEAN,
               Admit(u, r, s, identity, speaker), turn'[t] # turn[t]
        PROVE  /\ turn'[t].trusted \in heard'[turn'[t].session] \cup {None}
               /\ turn'[t].user \in heard'[turn'[t].session] \cup {None, Guest}
    <2> DEFINE db == expire_due(now)
    <2>1. PICK previous \in get_latest_for_session(db, s) :
            turn' = [turn EXCEPT ![u] = Started(db[r], previous, r, s, identity, speaker)]
      BY <1>2 DEF Admit
    <2>2. turn'[t] = Started(db[r], previous, r, s, identity, speaker)
      BY <1>0, <1>2, <2>1
    <2>3. heard'[s] = heard[s] \cup ({identity} \ {None})
      BY <1>0, <1>2 DEF Admit, Hear
    <2>4. db \in [Requests -> Rows \cup {NoRow}]
      BY <1>0, ExpireDueTyped
    <2>5. ASSUME NEW q \in Requests, db[q].exists, db[q].session = s
          PROVE  /\ db[q].trusted \in heard[s] \cup {None}
                 /\ db[q].user \in heard[s] \cup {Guest}
      BY <1>0, <2>5, ExpireDueKeeps DEF IdentityStaysInSession, Stored
    <2>6. db[r].exists => db[r].session = s
      BY <1>2 DEF Admit
    <2>7. previous.exists => previous.trusted \in heard[s] \cup {None}
      BY <2>4, <2>5, LatestTyped DEF NoRow
    <2>8. StartingTrust(db[r], previous, identity) \in heard'[s] \cup {None}
      BY <2>3, <2>5, <2>6, <2>7 DEF StartingTrust
    <2>9. StartingUser(db[r], previous, identity) \in heard'[s] \cup {None, Guest}
      BY <2>3, <2>5, <2>6, <2>8 DEF StartingUser
    <2> QED
      BY <2>2, <2>8, <2>9 DEF Started
  <1>3. ASSUME NEW u \in Turns, NEW detected \in Users \cup {None}, Identify(u, detected),
               turn'[t] # turn[t]
        PROVE  /\ turn'[t].trusted \in heard'[turn'[t].session] \cup {None}
               /\ turn'[t].user \in heard'[turn'[t].session] \cup {None, Guest}
    <2>1. t = u /\ turn[t].stage = "identify"
      BY <1>0, <1>3 DEF Identify
    <2>2. turn[t] \in Live /\ t \in InFlight
      BY <1>0, <2>1 DEF Over, Idle, InFlight, InFlightStages
    <2>3. turn[t].session \in Sessions
      BY <2>2 DEF Live
    <2>4. heard'[turn[t].session] = heard[turn[t].session] \cup ({detected} \ {None})
      BY <1>0, <1>3, <2>1, <2>3 DEF Identify, Hear
    <2>5. turn[t].trusted \in heard[turn[t].session] \cup {None}
      BY <2>2 DEF IdentityStaysInSession
    <2>6. LET trusted == IF detected # None THEN detected ELSE turn[t].trusted IN
          /\ turn'[t].session = turn[t].session
          /\ turn'[t].trusted = trusted
          /\ turn'[t].user = IF trusted # None THEN trusted ELSE Guest
      BY <1>0, <1>3, <2>1, <2>2 DEF Identify, Live
    <2> QED
      BY <2>4, <2>5, <2>6
  <1>4. ASSUME NEW u \in Turns, Proceed(u), turn'[t] # turn[t],
               ~\E detected \in Users \cup {None} : Identify(u, detected)
        PROVE  /\ turn'[t].trusted \in heard'[turn'[t].session] \cup {None}
               /\ turn'[t].user \in heard'[turn'[t].session] \cup {None, Guest}
    <2>1. t = u
      BY <1>0, <1>4
      DEF Proceed, Match, Miss, SemanticMatch, Act, Enter, Settle, SettleNew, SettleResumed,
          Conclude, Raise, Abandon
    <2>2. ~Settle(u) /\ ~Raise(u)
      BY <1>0, <2>1
      DEF Settle, SettleNew, SettleResumed, Conclude, Concluded, Raise, Abandon, Ended,
          InFlightStages
    <2>3. t \in InFlight /\ turn[t] \in Live /\ heard' = heard
      BY <1>0, <1>4, <2>1, <2>2
      DEF Proceed, Match, Miss, SemanticMatch, Act, Over, Idle, InFlight, InFlightStages
    <2>4. turn'[t].trusted = turn[t].trusted /\ turn'[t].user = turn[t].user
                                             /\ turn'[t].session = turn[t].session
      <3>1. CASE \E stage \in InFlightStages : Enter(u, stage)
        BY <1>0, <2>1, <2>3, <3>1 DEF Enter, Live
      <3>2. CASE Act(u)
        BY <1>0, <2>1, <2>3, <3>2 DEF Act, Live
      <3> QED
        BY <1>4, <2>2, <3>1, <3>2 DEF Proceed, Match, Miss, SemanticMatch, InFlightStages
    <2> QED
      BY <2>3, <2>4 DEF IdentityStaysInSession
  <1>5. ASSUME NEW u \in Turns, NEW r \in Requests, NEW s \in Sessions,
               Refuse(u, r, s) \/ AnswerExpired(u, r, s), turn'[t] # turn[t]
        PROVE  FALSE
    BY <1>0, <1>5 DEF Refuse, AnswerExpired, Ended, InFlightStages
  <1>6. ASSUME Restart, turn'[t] # turn[t] PROVE FALSE
    BY <1>0, <1>6 DEF Restart, Ended, InFlightStages
  <1> QED
    BY <1>1, <1>2, <1>3, <1>4, <1>5, <1>6 DEF Next, Post, Tick, vars

(* Users reach rows and turns only from the row resumed, the latest row of the*)
(* same session, or an identification in this session.                     *)
LEMMA IdentityStep ==
  TypeOK /\ ResumedRowStays /\ IdentityStaysInSession /\ [Next]_vars => IdentityStaysInSession'
  <1> SUFFICES ASSUME TypeOK, ResumedRowStays, IdentityStaysInSession, [Next]_vars
               PROVE  IdentityStaysInSession'
    OBVIOUS
  <1>1. ASSUME NEW r \in Requests, store'[r].exists
        PROVE  /\ store'[r].trusted \in heard'[store'[r].session] \cup {None}
               /\ store'[r].user \in heard'[store'[r].session] \cup {Guest}
    <2>1. CASE /\ store[r].exists
               /\ store'[r].trusted = store[r].trusted
               /\ store'[r].user = store[r].user
               /\ store'[r].session = store[r].session
      <3>0. store[r] \in Rows
        BY <2>1 DEF TypeOK, NoRow
      <3>1. store[r].session \in Sessions
        BY <3>0 DEF Rows
      <3> QED
        BY <2>1, <3>1, HeardStep DEF IdentityStaysInSession, Stored
    <2>2. CASE store'[r] = expire_due(now)[r]
      BY <1>1, <2>1, <2>2, ExpireDueKeeps DEF TypeOK
    <2>3. ASSUME NEW t \in InFlight, NEW status \in Decisions, NEW rowid,
                 store'[r] = Outcome(t, status, rowid)
          PROVE  /\ store'[r].trusted \in heard'[store'[r].session] \cup {None}
                 /\ store'[r].user \in heard'[store'[r].session] \cup {Guest}
      <3>1. turn[t].session \in Sessions
        BY DEF TypeOK, Live, Over, Idle, InFlight, InFlightStages
      <3>2. heard[turn[t].session] \subseteq heard'[turn[t].session]
        BY <3>1, HeardStep
      <3> QED
        BY <2>3, <3>2 DEF Outcome, IdentityStaysInSession
    <2> QED
      BY <1>1, <2>1, <2>2, <2>3, RowStep
  <1> QED
    BY <1>1, TrustStep DEF IdentityStaysInSession, Stored

-----------------------------------------------------------------------------
(* The empty table satisfies the inductive invariant.                      *)
LEMMA InitIInv == Init => IInv
  BY DEF Init, IInv, TypeOK, ResumedRowStays, PendingRowsKeep, ResumedRowsKeep, RowsAreAnswers,
         IdentityStaysInSession, InFlight, Stored, Idle, NoRow, InFlightStages

(* Every step of the lifecycle keeps the inductive invariant.              *)
LEMMA NextIInv == IInv /\ [Next]_vars => IInv'
  BY TypeStep, ResumedRowStaysStep, PendingRowsKeepStep, ResumedRowsKeepStep, RowsAreAnswersStep,
     IdentityStep DEF IInv

(* The inductive invariant holds of the lifecycle, with and without overlap.*)
THEOREM InvariantHolds == Spec => []IInv
  BY InitIInv, NextIInv, PTL DEF Spec

(* The state keeps its shape: every row is a row, every turn a turn.       *)
THEOREM TypeCorrect == Spec => []TypeOK
  BY InvariantHolds, PTL DEF IInv

(* "Continuity never crosses session boundaries", with any number of turns *)
(* that overlap, resume, expire and die: nobody is trusted in a session in *)
(* which he was not identified.                                            *)
THEOREM IdentityNeverCrossesSessions == Spec => []IdentityStaysInSession
  BY InvariantHolds, PTL DEF IInv

(* Only a clarification that was asked for is resumed, before its deadline.*)
THEOREM OnlyClarificationsResume == Spec => []ResumesAClarification
<1>1. IInv => ResumesAClarification
  BY DEF IInv, ResumedRowsKeep, ResumesAClarification, Keeps
<1> QED
  BY <1>1, InvariantHolds, PTL

(* The table and the clients agree.                                        *)
THEOREM RowsAgreeWithAnswers == Spec => []RowsAreAnswers
  BY InvariantHolds, PTL DEF IInv

(* A request id belongs to its session for good.                           *)
THEOREM RowsNeverMove == Spec => RowsStayInSession
<1>1. IInv /\ [Next]_vars =>
        [\A r \in Stored : /\ store'[r].exists
                           /\ store'[r].session = store[r].session
                           /\ store'[r].rowid = store[r].rowid]_store
  BY RowsStay DEF IInv, Stored
<1> QED
  BY <1>1, InvariantHolds, PTL DEF Spec, RowsStayInSession

-----------------------------------------------------------------------------
(* What a serial ingress gives: a request id that is in flight is not      *)
(* posted again, so the questions of different requests stay apart.        *)
OneTurnPerRequest ==
  \A t, o \in InFlight : turn[t].request = turn[o].request => t = o

(* A turn that has answered, and acted on the pending state p to do so.    *)
HasActedOn(t, p) ==
  /\ turn[t].stage = "over"
  /\ turn[t].answer \in Decisions
  /\ turn[t].did = p

(* What a turn acted on was asked by a turn of the same request.           *)
ActionsHadAQuestion ==
  \A t, p \in Turns : HasActedOn(t, p) => /\ turn[p].stage = "over"
                                         /\ turn[p].request = turn[t].request

(* A question that waits in the table, or that a turn in flight has read,  *)
(* has not been acted on by a turn that answered.                          *)
WaitingIsUntouched ==
  \A r \in Stored : store[r].status = "NEEDS_CLARIFICATION"
                    => \A t \in Turns : ~HasActedOn(t, store[r].pending)

ResumedIsUntouched ==
  \A t \in InFlight : turn[t].row.exists
                      => \A o \in Turns : ~HasActedOn(o, turn[t].row.pending)

AnsweredOnce ==
  \A t, o, p \in Turns : HasActedOn(t, p) /\ HasActedOn(o, p) => t = o

(* The inductive invariant of an ingress without overlap.                  *)
UntouchedInv ==
  /\ ~Overlap
  /\ IInv
  /\ OneTurnPerRequest
  /\ ActionsHadAQuestion
  /\ WaitingIsUntouched
  /\ ResumedIsUntouched
  /\ AnsweredOnce

(* A turn that starts is one that may be posted, and no other turn changes.*)
LEMMA AdmitStep ==
  ASSUME TypeOK, [Next]_vars, NEW t \in Turns, t \notin InFlight,
         turn'[t].stage \in InFlightStages
  PROVE  /\ MayPost(t, turn'[t].request)
         /\ \A o \in Turns \ {t} : turn'[o] = turn[o]
  <1>0. turn \in [Turns -> Live \cup Over \cup {Idle}] /\ turn[t].stage \notin InFlightStages
    BY DEF TypeOK, InFlight
  <1>1. ASSUME NEW u \in Turns, NEW r \in Requests, NEW s \in Sessions,
               Refuse(u, r, s) \/ AnswerExpired(u, r, s)
        PROVE  FALSE
    BY <1>0, <1>1 DEF Refuse, AnswerExpired, Ended, InFlightStages
  <1>2. ASSUME NEW u \in Turns, NEW r \in Requests, NEW s \in Sessions,
               NEW identity \in Users \cup {None}, NEW speaker \in BOOLEAN,
               Admit(u, r, s, identity, speaker)
        PROVE  /\ MayPost(t, turn'[t].request)
               /\ \A o \in Turns \ {t} : turn'[o] = turn[o]
    <2>1. u = t
      BY <1>0, <1>2 DEF Admit
    <2> QED
      BY <1>0, <1>2, <2>1 DEF Admit, Started
  <1>3. ASSUME NEW u \in Turns, Proceed(u) PROVE FALSE
    <2>1. u = t
      BY <1>0, <1>3
      DEF Proceed, Identify, Match, Miss, SemanticMatch, Act, Enter, Settle, SettleNew,
          SettleResumed, Conclude, Raise, Abandon
    <2> QED
      BY <1>0, <1>3, <2>1
      DEF Proceed, Identify, Match, Miss, SemanticMatch, Act, Settle, SettleNew, SettleResumed,
          Decided, Raise, InFlightStages
  <1>4. ASSUME Restart PROVE FALSE
    BY <1>0, <1>4 DEF Restart, InFlight
  <1>5. turn' # turn
    BY <1>0
  <1>6. ASSUME NEW u \in Turns, Post(u)
        PROVE  /\ MayPost(t, turn'[t].request)
               /\ \A o \in Turns \ {t} : turn'[o] = turn[o]
    BY <1>1, <1>2, <1>6 DEF Post
  <1> QED
    BY <1>3, <1>4, <1>5, <1>6 DEF Next, Tick, vars

(* Without overlap no step gives a request a second turn in flight.        *)
LEMMA OneTurnPerRequestStep ==
  TypeOK /\ ~Overlap /\ OneTurnPerRequest /\ [Next]_vars => OneTurnPerRequest'
  <1> SUFFICES ASSUME TypeOK, ~Overlap, OneTurnPerRequest, [Next]_vars,
                      NEW t \in InFlight', NEW o \in InFlight',
                      turn'[t].request = turn'[o].request, t # o
               PROVE  FALSE
    BY DEF OneTurnPerRequest
  <1>0. /\ t \in Turns /\ turn'[t].stage \in InFlightStages
        /\ o \in Turns /\ turn'[o].stage \in InFlightStages
    BY DEF InFlight
  <1>1. ASSUME NEW a \in Turns, NEW b \in Turns, a # b, a \notin InFlight,
               turn'[a].stage \in InFlightStages, turn'[b].stage \in InFlightStages,
               turn'[a].request = turn'[b].request
        PROVE  FALSE
    <2>1. MayPost(a, turn'[a].request) /\ turn'[b] = turn[b]
      BY <1>1, AdmitStep
    <2> QED
      BY <1>1, <2>1 DEF MayPost, InFlight
  <1>2. t \in InFlight /\ o \in InFlight
    BY <1>0, <1>1
  <1>3. turn'[t].request = turn[t].request /\ turn'[o].request = turn[o].request
    BY <1>0, <1>2, TurnStep DEF InFlight
  <1> QED
    BY <1>2, <1>3 DEF OneTurnPerRequest

(* A turn that answered after it acted had acted on what it read, and      *)
(* writes its row in the step in which it answers.                         *)
LEMMA ActedStep ==
  ASSUME TypeOK, [Next]_vars, NEW t \in Turns, NEW p \in Turns, HasActedOn(t, p)'
  PROVE  \/ HasActedOn(t, p)
         \/ /\ t \in InFlight
            /\ turn[t].row.exists
            /\ turn[t].row.pending = p
            /\ turn'[t].request = turn[t].request
            /\ \A o \in Turns \ {t} : turn'[o] = turn[o]
            /\ \A r \in Requests \ {turn[t].request} : store'[r] = store[r]
            /\ \/ store'[turn[t].request].pending = t
               \/ store'[turn[t].request].status # "NEEDS_CLARIFICATION"
  <1>0. /\ turn \in [Turns -> Live \cup Over \cup {Idle}]
        /\ store \in [Requests -> Rows \cup {NoRow}]
        /\ turn'[t].stage = "over" /\ turn'[t].answer \in Decisions /\ turn'[t].did = p
    BY DEF TypeOK, HasActedOn
  <1>1. CASE turn'[t] = turn[t]
    BY <1>0, <1>1 DEF HasActedOn
  <1>2. ASSUME NEW u \in Turns, Post(u), turn'[t] # turn[t] PROVE FALSE
    BY <1>0, <1>2
    DEF Post, Refuse, AnswerExpired, Admit, Started, Ended, Decisions, Settled
  <1>3. ASSUME NEW u \in Turns, NEW status \in Decisions,
               SettleNew(u, status) \/ SettleResumed(u, status), turn'[t] # turn[t]
        PROVE  /\ t \in InFlight
               /\ turn[t].row.exists
               /\ turn[t].row.pending = p
               /\ turn'[t].request = turn[t].request
               /\ \A o \in Turns \ {t} : turn'[o] = turn[o]
               /\ \A r \in Requests \ {turn[t].request} : store'[r] = store[r]
               /\ \/ store'[turn[t].request].pending = t
                  \/ store'[turn[t].request].status # "NEEDS_CLARIFICATION"
    <2>1. u = t
      BY <1>0, <1>3 DEF SettleNew, SettleResumed, Conclude, Abandon
    <2>2. t \in InFlight
      BY <1>3, <2>1 DEF SettleNew, SettleResumed, Decided, InFlight, InFlightStages
    <2>3. turn' = [turn EXCEPT ![t] = Concluded(turn[t], status)]
      BY <1>0, <1>3, <2>1
      DEF SettleNew, SettleResumed, Conclude, Abandon, Ended, Decisions, Settled
    <2>4. turn'[t] = Concluded(turn[t], status) /\ \A o \in Turns \ {t} : turn'[o] = turn[o]
      BY <1>0, <2>3
    <2>5. turn[t].row.exists /\ turn[t].row.pending = p
      BY <1>0, <2>4, ConstantsAssumption DEF Concluded
    <2>6. store' = [store EXCEPT ![turn[t].request] = Outcome(t, status, @.rowid)]
      BY <1>3, <2>1, <2>5 DEF SettleNew, SettleResumed
    <2>7. turn[t] \in Live
      BY <1>0, <2>2 DEF InFlight, Over, Idle, InFlightStages
    <2>8. turn[t].request \in Requests
      BY <2>7 DEF Live
    <2>9. /\ store'[turn[t].request] = Outcome(t, status, store[turn[t].request].rowid)
          /\ \A r \in Requests \ {turn[t].request} : store'[r] = store[r]
      BY <1>0, <2>6, <2>8
    <2>10. turn'[t].request = turn[t].request
      BY <2>4 DEF Concluded
    <2> QED
      BY <2>2, <2>4, <2>5, <2>9, <2>10 DEF Outcome
  <1>4. ASSUME NEW u \in Turns, Proceed(u), ~Settle(u), turn'[t] # turn[t] PROVE FALSE
    <2>1. u = t
      BY <1>0, <1>4
      DEF Proceed, Identify, Match, Miss, SemanticMatch, Act, Enter, Raise, Abandon
    <2>2. turn[t].stage \in InFlightStages
      BY <1>4, <2>1 DEF Proceed, Identify, Match, Miss, SemanticMatch, Act, Raise, InFlightStages
    <2>3. turn[t] \in Live
      BY <1>0, <2>2 DEF Over, Idle, InFlightStages
    <2>4. CASE Raise(t)
      BY <1>0, <2>4 DEF Raise, Abandon, Ended, Decisions, Settled
    <2>5. CASE \E detected \in Users \cup {None} : Identify(t, detected)
      BY <1>0, <2>3, <2>5 DEF Identify, Live
    <2>6. CASE \E stage \in InFlightStages : Enter(t, stage)
      BY <1>0, <2>3, <2>6 DEF Enter, Live, InFlightStages
    <2>7. CASE Act(t)
      BY <1>0, <2>3, <2>7 DEF Act, Live
    <2> QED
      BY <1>4, <2>1, <2>4, <2>5, <2>6, <2>7
      DEF Proceed, Match, Miss, SemanticMatch, InFlightStages
  <1>5. ASSUME Restart, turn'[t] # turn[t] PROVE FALSE
    BY <1>0, <1>5 DEF Restart, Ended, Decisions, Settled
  <1> QED
    BY <1>1, <1>2, <1>3, <1>4, <1>5 DEF Next, Proceed, Settle, Tick, vars

(* The request of a turn in flight is a request id.                        *)
LEMMA LiveRequest ==
  ASSUME TypeOK', NEW t \in Turns, turn'[t].stage \in InFlightStages
  PROVE  turn'[t].request \in Requests
  BY DEF TypeOK, Live, Over, Idle, InFlightStages

(* What a turn reads from the table it acts on in the name of that row.    *)
LEMMA ResumedQuestion ==
  ASSUME TypeOK, ResumedRowsKeep, NEW t \in InFlight, turn[t].row.exists
  PROVE  /\ turn[t].row.pending \in Turns
         /\ turn[turn[t].row.pending].stage = "over"
         /\ turn[turn[t].row.pending].request = turn[t].request
  BY DEF ResumedRowsKeep, Keeps

(* What a turn acts on is over, and what is over never changes.            *)
LEMMA ActionsHadAQuestionStep ==
  TypeOK /\ ResumedRowsKeep /\ ActionsHadAQuestion /\ [Next]_vars => ActionsHadAQuestion'
  <1> SUFFICES ASSUME TypeOK, ResumedRowsKeep, ActionsHadAQuestion, [Next]_vars,
                      NEW t \in Turns, NEW p \in Turns, HasActedOn(t, p)'
               PROVE  turn'[p].stage = "over" /\ turn'[p].request = turn'[t].request
    BY DEF ActionsHadAQuestion
  <1>1. CASE HasActedOn(t, p)
    <2>1. turn'[p] = turn[p] /\ turn'[t] = turn[t]
      BY <1>1, OverStep DEF ActionsHadAQuestion, HasActedOn
    <2> QED
      BY <1>1, <2>1 DEF ActionsHadAQuestion
  <1>2. CASE /\ t \in InFlight
             /\ turn[t].row.exists
             /\ turn[t].row.pending = p
             /\ turn'[t].request = turn[t].request
    <2>1. turn[p].stage = "over" /\ turn[p].request = turn[t].request
      BY <1>2, ResumedQuestion
    <2> QED
      BY <1>2, <2>1, OverStep
  <1> QED
    BY <1>1, <1>2, ActedStep

(* A question that waits was written by the turn that asked it, which      *)
(* nobody had read before, or waited already: then only the turn of its own*)
(* request can act on it, and that one replaces the row when it answers.   *)
LEMMA WaitingIsUntouchedStep ==
  /\ TypeOK /\ ResumedRowStays /\ PendingRowsKeep /\ ResumedRowsKeep /\ ActionsHadAQuestion
  /\ WaitingIsUntouched /\ [Next]_vars
  => WaitingIsUntouched'
  <1> SUFFICES ASSUME TypeOK, ResumedRowStays, PendingRowsKeep, ResumedRowsKeep,
                      ActionsHadAQuestion, WaitingIsUntouched, [Next]_vars,
                      NEW r \in Requests, store'[r].exists,
                      store'[r].status = "NEEDS_CLARIFICATION",
                      NEW o \in Turns, NEW p, p = store'[r].pending, HasActedOn(o, p)'
               PROVE  FALSE
    BY DEF WaitingIsUntouched, Stored
  <1>1. CASE /\ store[r].exists
             /\ store[r].status = "NEEDS_CLARIFICATION"
             /\ store'[r].pending = store[r].pending
    <2>1. p \in Turns /\ turn[p].request = r
      BY <1>1 DEF PendingRowsKeep, Keeps
    <2>2. ~HasActedOn(o, p)
      BY <1>1 DEF WaitingIsUntouched, Stored
    <2>3. /\ o \in InFlight
          /\ turn[o].row.exists
          /\ turn[o].row.pending = p
          /\ \/ store'[turn[o].request].pending = o
             \/ store'[turn[o].request].status # "NEEDS_CLARIFICATION"
      BY <2>1, <2>2, ActedStep
    <2>4. turn[o].request = r /\ turn[p].stage = "over"
      BY <2>1, <2>3, ResumedQuestion
    <2> QED
      BY <2>3, <2>4 DEF InFlight, InFlightStages
  <1>2. CASE store'[r] = expire_due(now)[r]
    BY <1>1, <1>2, ExpireDueKeeps DEF TypeOK
  <1>3. ASSUME NEW t \in InFlight, NEW status \in Decisions, NEW rowid,
               store'[r] = Outcome(t, status, rowid)
        PROVE  FALSE
    <2>1. p = t /\ t \in Turns /\ turn[t].stage # "over"
      BY <1>3 DEF Outcome, InFlight, InFlightStages
    <2>2. ~HasActedOn(o, t)
      BY <2>1 DEF ActionsHadAQuestion
    <2>3. o \in InFlight /\ turn[o].row.exists /\ turn[o].row.pending = t
      BY <2>1, <2>2, ActedStep
    <2> QED
      BY <2>1, <2>3, ResumedQuestion
  <1> QED
    BY <1>1, <1>2, <1>3, RowStep

(* A turn reads a question that waits; until it answers, the turns of other*)
(* requests act on other questions.                                        *)
LEMMA ResumedIsUntouchedStep ==
  /\ TypeOK /\ ResumedRowStays /\ ResumedRowsKeep /\ OneTurnPerRequest
  /\ WaitingIsUntouched /\ ResumedIsUntouched /\ [Next]_vars
  => ResumedIsUntouched'
  <1> SUFFICES ASSUME TypeOK, ResumedRowStays, ResumedRowsKeep, OneTurnPerRequest,
                      WaitingIsUntouched, ResumedIsUntouched, [Next]_vars,
                      NEW t \in Turns, turn'[t].stage \in InFlightStages, turn'[t].row.exists,
                      NEW o \in Turns, NEW p, p = turn'[t].row.pending, HasActedOn(o, p)'
               PROVE  FALSE
    BY DEF ResumedIsUntouched, InFlight
  <1>1. CASE turn[t].stage \in InFlightStages /\ turn'[t].row = turn[t].row
    <2>1. t \in InFlight /\ turn[t].row.exists /\ turn[t].row.pending = p
      BY <1>1 DEF InFlight
    <2>2. p \in Turns /\ turn[p].request = turn[t].request
      BY <2>1, ResumedQuestion
    <2>3. ~HasActedOn(o, p)
      BY <2>1 DEF ResumedIsUntouched
    <2>4. o \in InFlight /\ turn[o].row.exists /\ turn[o].row.pending = p
      BY <2>2, <2>3, ActedStep
    <2>5. turn[p].request = turn[o].request
      BY <2>4, ResumedQuestion
    <2>6. t = o
      BY <2>1, <2>2, <2>4, <2>5 DEF OneTurnPerRequest
    <2> QED
      BY <2>6 DEF HasActedOn, InFlightStages
  <1>2. CASE /\ turn[t].stage \notin InFlightStages
             /\ turn'[t].row = expire_due(now)[turn'[t].request]
             /\ turn'[t].row.status = "NEEDS_CLARIFICATION"
    <2> DEFINE r == turn'[t].request
    <2>1. \A u \in Turns \ {t} : turn'[u] = turn[u]
      BY <1>2, AdmitStep DEF InFlight
    <2>2. HasActedOn(o, p)
      BY <2>1 DEF HasActedOn, InFlightStages
    <2>3. r \in Requests
      BY TypeStep, LiveRequest
    <2>4. /\ store[r].exists
          /\ store[r].status = "NEEDS_CLARIFICATION"
          /\ p = store[r].pending
      <3>1. PICK q \in Requests : q = r
        BY <2>3
      <3> QED
        BY <1>2, <3>1, ExpireDueKeeps DEF TypeOK
    <2> QED
      BY <2>2, <2>3, <2>4 DEF WaitingIsUntouched, Stored
  <1> QED
    BY <1>1, <1>2, TurnStep

(* A turn answers alone, and nobody had acted on what it read.             *)
LEMMA AnsweredOnceStep ==
  /\ TypeOK /\ ResumedIsUntouched /\ AnsweredOnce /\ [Next]_vars
  => AnsweredOnce'
  <1> SUFFICES ASSUME TypeOK, ResumedIsUntouched, AnsweredOnce, [Next]_vars,
                      NEW t \in Turns, NEW o \in Turns, NEW p \in Turns,
                      HasActedOn(t, p)', HasActedOn(o, p)', t # o
               PROVE  FALSE
    BY DEF AnsweredOnce
  <1>1. ASSUME NEW a \in Turns, NEW b \in Turns, a # b, ~HasActedOn(a, p),
               HasActedOn(a, p)', HasActedOn(b, p)'
        PROVE  FALSE
    <2>1. /\ a \in InFlight
          /\ turn[a].row.exists
          /\ turn[a].row.pending = p
          /\ turn'[b] = turn[b]
      BY <1>1, ActedStep
    <2>2. HasActedOn(b, p)
      BY <1>1, <2>1 DEF HasActedOn
    <2> QED
      BY <2>1, <2>2 DEF ResumedIsUntouched
  <1>2. HasActedOn(t, p) /\ HasActedOn(o, p)
    BY <1>1
  <1> QED
    BY <1>2 DEF AnsweredOnce

(* Before the first post nothing is in flight and nothing was acted on.    *)
LEMMA InitSerial == ~Overlap /\ Init => UntouchedInv
<1>1. Init => IInv
  BY InitIInv
<1> QED
  BY <1>1 DEF Init, UntouchedInv, OneTurnPerRequest, ActionsHadAQuestion, WaitingIsUntouched,
     ResumedIsUntouched, AnsweredOnce, HasActedOn, InFlight, Stored, Idle, NoRow, InFlightStages

(* Every step of a serial ingress keeps its inductive invariant.           *)
LEMMA NextSerial == UntouchedInv /\ [Next]_vars => UntouchedInv'
  BY NextIInv, OneTurnPerRequestStep, ActionsHadAQuestionStep, WaitingIsUntouchedStep,
     ResumedIsUntouchedStep, AnsweredOnceStep DEF UntouchedInv, IInv

(* If no request id is posted while it is in flight, what a clarification  *)
(* asked for is acted on by one turn only: two that answered differ by     *)
(* AnsweredOnce, one that answered from one in flight by                   *)
(* ResumedIsUntouched, two in flight by their requests.                    *)
THEOREM SerialTurnsActOnce == ~Overlap /\ Spec => []PendingActsOnce
<1>1. UntouchedInv => PendingActsOnce
  <2> SUFFICES ASSUME UntouchedInv, NEW t \in Turns, NEW o \in Turns, t # o,
                      NEW p, p = ActsOn(t), p = ActsOn(o), p # None
               PROVE  FALSE
    BY DEF PendingActsOnce
  <2>1. TypeOK /\ ResumedRowsKeep
    BY DEF UntouchedInv, IInv
  <2>2. ASSUME NEW a \in Turns, ActsOn(a) = p
        PROVE  \/ /\ a \in InFlight
                  /\ turn[a].row.exists
                  /\ turn[a].row.pending = p
               \/ HasActedOn(a, p)
    BY <2>2 DEF ActsOn, HasActedOn, InFlight
  <2>3. ASSUME NEW a \in InFlight, NEW b \in InFlight, a # b,
               turn[a].row.exists, turn[a].row.pending = p,
               turn[b].row.exists, turn[b].row.pending = p
        PROVE  FALSE
    <3>1. turn[p].request = turn[a].request /\ turn[p].request = turn[b].request
      BY <2>1, <2>3, ResumedQuestion
    <3> QED
      BY <2>3, <3>1 DEF UntouchedInv, OneTurnPerRequest
  <2>4. ASSUME NEW a \in InFlight, NEW b \in Turns,
               turn[a].row.exists, turn[a].row.pending = p, HasActedOn(b, p)
        PROVE  FALSE
    BY <2>4 DEF UntouchedInv, ResumedIsUntouched
  <2>5. CASE HasActedOn(t, p) /\ HasActedOn(o, p)
    <3>1. p \in Turns
      <4>1. turn[t] \in Over
        BY <2>1, <2>5 DEF TypeOK, HasActedOn, Live, Idle, InFlightStages
      <4>2. turn[t].did \in Turns \cup {None}
        BY <2>5, <4>1 DEF Over, HasActedOn
      <4> QED
        BY <2>5, <4>2 DEF HasActedOn
    <3> QED
      BY <2>5, <3>1 DEF UntouchedInv, AnsweredOnce
  <2>6. p = ActsOn(t) /\ p = ActsOn(o)
    OBVIOUS
  <2> QED
    BY <2>2, <2>3, <2>4, <2>5, <2>6
<1> QED
  BY <1>1, InitSerial, NextSerial, PTL DEF Spec

-----------------------------------------------------------------------------
(* Implementing RequestLedger.                                             *)

(* A request id is in the hands of one turn ...                            *)
OneTurn == \A t, o \in InFlight : turn[t].request = turn[o].request => t = o

(* ... which read a row that is still pending, or expired under it, or     *)
(* found none where there is none still.                                   *)
ReadsTheRow ==
  \A t \in InFlight :
    LET r == turn[t].request
    IN /\ turn[t].row.exists <=> store[r].exists
       /\ store[r].exists => store[r].status \in {"NEEDS_CLARIFICATION", "EXPIRED"}

SerialInv == IInv /\ OneTurn /\ ReadsTheRow

-----------------------------------------------------------------------------
(* Which turns are in flight after a step.                                 *)
LEMMA AdmitInFlight ==
  ASSUME TypeOK, ~Overlap, NEW t \in Turns, NEW r \in Requests, NEW s \in Sessions,
         NEW identity \in Users \cup {None}, NEW speaker \in BOOLEAN,
         Admit(t, r, s, identity, speaker)
  PROVE  /\ t \notin InFlight
         /\ InFlight' = InFlight \cup {t}
         /\ \A o \in InFlight : turn'[o] = turn[o] /\ turn[o].request # r
         /\ turn'[t].request = r
         /\ turn'[t].row = expire_due(now)[r]
         /\ store' = expire_due(now)
         /\ expire_due(now)[r].exists => expire_due(now)[r].status = "NEEDS_CLARIFICATION"
  <1>0. turn \in [Turns -> Live \cup Over \cup {Idle}]
    BY DEF TypeOK
  <1>1. t \notin InFlight /\ \A o \in InFlight : turn[o].request # r
    BY DEF Admit, MayPost, InFlight, Idle, InFlightStages
  <1>2. PICK previous \in get_latest_for_session(expire_due(now), s) :
          turn' = [turn EXCEPT ![t] =
            Started(expire_due(now)[r], previous, r, s, identity, speaker)]
    BY DEF Admit
  <1>3. /\ turn'[t].stage \in InFlightStages
        /\ turn'[t].request = r
        /\ turn'[t].row = expire_due(now)[r]
    BY <1>0, <1>2 DEF Started, InFlightStages
  <1>4. \A o \in Turns \ {t} : turn'[o] = turn[o]
    BY <1>0, <1>2
  <1>5. InFlight' = InFlight \cup {t}
    BY <1>3, <1>4 DEF InFlight
  <1> QED
    BY <1>1, <1>3, <1>4, <1>5 DEF Admit, InFlight

(* A turn that proceeds without ending leaves the requests in flight.      *)
LEMMA StayInFlight ==
  ASSUME TypeOK, NEW t \in Turns, Proceed(t), ~Settle(t), ~Raise(t)
  PROVE  /\ InFlight' = InFlight
         /\ store' = store
         /\ \A o \in InFlight : turn'[o].request = turn[o].request /\ turn'[o].row = turn[o].row
  <1>0. turn \in [Turns -> Live \cup Over \cup {Idle}]
    BY DEF TypeOK
  <1>1. turn[t].stage \in InFlightStages /\ store' = store
    BY DEF Proceed, Identify, Match, Miss, SemanticMatch, Act, InFlightStages
  <1>2. turn[t] \in Live
    BY <1>0, <1>1 DEF Over, Idle, InFlightStages
  <1>3. /\ turn'[t].stage \in InFlightStages
        /\ turn'[t].request = turn[t].request
        /\ turn'[t].row = turn[t].row
    <2>1. CASE \E detected \in Users \cup {None} : Identify(t, detected)
      BY <1>0, <1>2, <2>1 DEF Identify, Live, InFlightStages
    <2>2. CASE \E stage \in InFlightStages : Enter(t, stage)
      BY <1>0, <1>2, <2>2 DEF Enter, Live
    <2>3. CASE Act(t)
      BY <1>0, <1>2, <2>3 DEF Act, Live, InFlightStages
    <2> QED
      BY <2>1, <2>2, <2>3 DEF Proceed, Match, Miss, SemanticMatch, InFlightStages
  <1>4. \A o \in Turns \ {t} : turn'[o] = turn[o]
    BY <1>0 DEF Proceed, Identify, Match, Miss, SemanticMatch, Act, Enter
  <1> QED
    BY <1>1, <1>3, <1>4 DEF InFlight

(* A turn that ends leaves the others alone.                               *)
LEMMA EndInFlight ==
  ASSUME TypeOK, NEW t \in Turns, Settle(t) \/ Raise(t)
  PROVE  /\ t \in InFlight
         /\ InFlight' = InFlight \ {t}
         /\ \A o \in InFlight \ {t} : turn'[o] = turn[o]
  <1>0. turn \in [Turns -> Live \cup Over \cup {Idle}]
    BY DEF TypeOK
  <1>1. t \in InFlight
    BY DEF Settle, SettleNew, SettleResumed, Decided, Raise, InFlight, InFlightStages
  <1>2. turn'[t].stage = "over"
    BY <1>0 DEF Settle, SettleNew, SettleResumed, Conclude, Concluded, Raise, Abandon, Ended
  <1>3. \A o \in Turns \ {t} : turn'[o] = turn[o]
    BY <1>0 DEF Settle, SettleNew, SettleResumed, Conclude, Raise, Abandon
  <1> QED
    BY <1>1, <1>2, <1>3 DEF InFlight, InFlightStages

(* A turn that settles finds what it read, and writes a decision.          *)
LEMMA SettleWrites ==
  ASSUME TypeOK, ReadsTheRow, NEW t \in Turns, Settle(t)
  PROVE  \E status \in Decisions : \E rowid :
           store' = [store EXCEPT ![turn[t].request] = Outcome(t, status, rowid)]
  <1>1. t \in InFlight
    BY EndInFlight
  <1> QED
    BY <1>1 DEF Settle, SettleNew, SettleResumed, ReadsTheRow

(* A refused turn was never in flight.                                     *)
LEMMA RefuseInFlight ==
  ASSUME TypeOK, NEW t \in Turns, NEW r \in Requests, NEW s \in Sessions,
         Refuse(t, r, s) \/ AnswerExpired(t, r, s)
  PROVE  /\ InFlight' = InFlight
         /\ \A o \in InFlight : turn'[o] = turn[o]
         /\ store' = expire_due(now)
  BY DEF TypeOK, Refuse, AnswerExpired, MayPost, Ended, InFlight, Idle, InFlightStages

(* The sweep never hides, invents or revives a row.                        *)
LEMMA SweepStatus ==
  ASSUME TypeOK, NEW r \in Requests
  PROVE  /\ expire_due(now)[r].exists <=> store[r].exists
         /\ store[r].exists =>
              \/ expire_due(now)[r].status = store[r].status
              \/ /\ store[r].status = "NEEDS_CLARIFICATION"
                 /\ expire_due(now)[r].status = "EXPIRED"
  BY ExpireDueKeeps DEF TypeOK

-----------------------------------------------------------------------------
(* When no posted id is in flight, a request has one turn, which reads its row.*)
LEMMA SerialStep ==
  ASSUME ~Overlap, SerialInv, [Next]_vars PROVE OneTurn' /\ ReadsTheRow'
  <1>0. /\ TypeOK /\ OneTurn /\ ReadsTheRow
        /\ \A t \in InFlight : t \in Turns /\ turn[t].request \in Requests
    BY DEF SerialInv, IInv, TypeOK, InFlight, Live, Over, Idle, InFlightStages
  <1>1. ASSUME /\ InFlight' \subseteq InFlight
               /\ store' = expire_due(now) \/ store' = store
               /\ \A o \in InFlight' : /\ turn'[o].request = turn[o].request
                                       /\ turn'[o].row = turn[o].row
        PROVE  OneTurn' /\ ReadsTheRow'
    <2>1. OneTurn'
      BY <1>0, <1>1 DEF OneTurn
    <2>2. ASSUME NEW o \in InFlight'
          PROVE  LET r == turn'[o].request
                 IN /\ turn'[o].row.exists <=> store'[r].exists
                    /\ store'[r].exists => store'[r].status \in {"NEEDS_CLARIFICATION", "EXPIRED"}
      BY <1>0, <1>1, SweepStatus DEF ReadsTheRow
    <2> QED
      BY <2>1, <2>2 DEF ReadsTheRow
  <1>2. ASSUME NEW t \in Turns, NEW r \in Requests, NEW s \in Sessions,
               NEW identity \in Users \cup {None}, NEW speaker \in BOOLEAN,
               Admit(t, r, s, identity, speaker)
        PROVE  OneTurn' /\ ReadsTheRow'
    <2>1. /\ t \notin InFlight
          /\ InFlight' = InFlight \cup {t}
          /\ \A o \in InFlight : turn'[o] = turn[o] /\ turn[o].request # r
          /\ turn'[t].request = r
          /\ turn'[t].row = expire_due(now)[r]
          /\ store' = expire_due(now)
          /\ expire_due(now)[r].exists => expire_due(now)[r].status = "NEEDS_CLARIFICATION"
      BY <1>0, <1>2, AdmitInFlight
    <2>2. OneTurn'
      BY <1>0, <2>1 DEF OneTurn
    <2>3. ASSUME NEW o \in InFlight'
          PROVE  LET q == turn'[o].request
                 IN /\ turn'[o].row.exists <=> store'[q].exists
                    /\ store'[q].exists => store'[q].status \in {"NEEDS_CLARIFICATION", "EXPIRED"}
      <3>1. CASE o = t
        BY <2>1, <3>1
      <3>2. CASE o \in InFlight
        BY <1>0, <2>1, <3>2, SweepStatus DEF ReadsTheRow
      <3> QED
        BY <2>1, <3>1, <3>2
    <2> QED
      BY <2>2, <2>3 DEF ReadsTheRow
  <1>3. ASSUME NEW t \in Turns, Post(t) PROVE OneTurn' /\ ReadsTheRow'
    BY <1>0, <1>1, <1>2, <1>3, RefuseInFlight DEF Post
  <1>4. ASSUME NEW t \in Turns, Settle(t) PROVE OneTurn' /\ ReadsTheRow'
    <2>1. /\ t \in InFlight
          /\ InFlight' = InFlight \ {t}
          /\ \A o \in InFlight \ {t} : turn'[o] = turn[o]
      BY <1>0, <1>4, EndInFlight
    <2>2. \A q \in Requests : q # turn[t].request => store'[q] = store[q]
      BY <1>0, <1>4, <2>1, SettleWrites DEF TypeOK
    <2>3. \A o \in InFlight \ {t} : turn[o].request # turn[t].request
      BY <1>0, <2>1 DEF OneTurn
    <2> QED
      BY <1>0, <2>1, <2>2, <2>3 DEF OneTurn, ReadsTheRow
  <1>5. ASSUME NEW t \in Turns, Raise(t) PROVE OneTurn' /\ ReadsTheRow'
    <2>1. InFlight' = InFlight \ {t} /\ \A o \in InFlight \ {t} : turn'[o] = turn[o]
      BY <1>0, <1>5, EndInFlight
    <2> QED
      BY <1>1, <1>5, <2>1 DEF Raise
  <1>6. ASSUME NEW t \in Turns, Proceed(t) PROVE OneTurn' /\ ReadsTheRow'
    BY <1>0, <1>1, <1>4, <1>5, <1>6, StayInFlight
  <1>7. CASE Restart
    <2>1. InFlight' = {}
      BY <1>0, <1>7 DEF Restart, TypeOK, InFlight, Ended, InFlightStages
    <2> QED
      BY <1>1, <1>7, <2>1 DEF Restart
  <1>8. CASE Tick \/ UNCHANGED vars
    BY <1>1, <1>8 DEF Tick, vars, InFlight
  <1> QED
    BY <1>3, <1>6, <1>7, <1>8 DEF Next

(* One turn at a time works on a request id.                               *)
THEOREM SerialInvHolds == ASSUME ~Overlap PROVE Spec => []SerialInv
<1>1. Init => SerialInv
  BY InitIInv DEF Init, SerialInv, OneTurn, ReadsTheRow, InFlight, Idle, InFlightStages
<1>2. SerialInv /\ [Next]_vars => SerialInv'
  BY SerialStep, NextIInv DEF SerialInv
<1> QED
  BY <1>1, <1>2, PTL DEF Spec

-----------------------------------------------------------------------------
Entry(r) ==
  [written |-> IF ~store[r].exists THEN "ABSENT"
               ELSE IF Taken(r) THEN "NEEDS_CLARIFICATION"
               ELSE store[r].status,
   taken |-> Taken(r)]

EntriesTyped == \A r \in Requests : Entry(r) \in Ledger!Entries

(* The entry the mapping gives every request is an entry of the ledger.    *)
LEMMA EntryTyped == TypeOK => EntriesTyped
  <1> SUFFICES ASSUME TypeOK, NEW r \in Requests PROVE Entry(r) \in Ledger!Entries
    BY DEF EntriesTyped
  <1>1. store[r].exists => store[r].status \in Statuses
    <2>1. CASE store[r] \in Rows
      BY <2>1 DEF Rows
    <2>2. CASE ~store[r].exists
      BY <2>2
    <2> QED
      BY <2>1, <2>2 DEF TypeOK, NoRow
  <1> QED
    BY <1>1
    DEF Entry, Taken, Ledger!Entries, Ledger!Written, Statuses, Decisions, Settled

(* Where no turn comes or goes, an entry stays or expires.                 *)
LEMMA EntryStays ==
  ASSUME TypeOK, NEW r \in Requests, Taken(r)' <=> Taken(r),
         store'[r] = store[r] \/ store'[r] = expire_due(now)[r]
  PROVE  Entry(r)' = Entry(r) \/ Ledger!Change(Entry(r), Entry(r)')
  <1>1. CASE Taken(r)
    BY <1>1, SweepStatus DEF Entry, Taken
  <1>2. CASE ~Taken(r)
    <2>1. Entry(r)' = Entry(r)
          \/ /\ Entry(r) = [written |-> "NEEDS_CLARIFICATION", taken |-> FALSE]
             /\ Entry(r)' = [written |-> "EXPIRED", taken |-> FALSE]
      BY <1>2, SweepStatus DEF Entry, Taken
    <2> QED
      BY <2>1 DEF Ledger!Change, Ledger!Expire
  <1> QED
    BY <1>1, <1>2

(* A turn that is gone has given its entry back.                           *)
LEMMA EntryReleased ==
  ASSUME TypeOK, ReadsTheRow, NEW r \in Requests, Taken(r), ~Taken(r)',
         store'[r] = store[r]
  PROVE  Ledger!Change(Entry(r), Entry(r)')
  <1>1. store[r].exists => store[r].status \in {"NEEDS_CLARIFICATION", "EXPIRED"}
    BY DEF Taken, ReadsTheRow
  <1>2. /\ Entry(r).taken /\ ~Entry(r)'.taken
        /\ \/ Entry(r)'.written = Entry(r).written
           \/ /\ Entry(r).written = "NEEDS_CLARIFICATION"
              /\ Entry(r)'.written = "EXPIRED"
    BY <1>1 DEF Entry
  <1> QED
    BY <1>2 DEF Ledger!Change, Ledger!Release

(* One step of the Router moves every entry of the ledger by a legal change,*)
(* or not at all.                                                          *)
LEMMA LedgerStep ==
  ASSUME ~Overlap, SerialInv, [Next]_vars, NEW r \in Requests
  PROVE  Entry(r)' = Entry(r) \/ Ledger!Change(Entry(r), Entry(r)')
  <1>0. /\ TypeOK /\ OneTurn /\ ReadsTheRow
        /\ \A t \in InFlight : t \in Turns /\ turn[t].request \in Requests
    BY DEF SerialInv, IInv, TypeOK, InFlight, Live, Over, Idle, InFlightStages
  <1>1. ASSUME NEW t \in Turns, NEW q \in Requests, NEW s \in Sessions,
               NEW identity \in Users \cup {None}, NEW speaker \in BOOLEAN,
               Admit(t, q, s, identity, speaker)
        PROVE  Entry(r)' = Entry(r) \/ Ledger!Change(Entry(r), Entry(r)')
    <2>1. /\ t \notin InFlight
          /\ InFlight' = InFlight \cup {t}
          /\ \A o \in InFlight : turn'[o] = turn[o] /\ turn[o].request # q
          /\ turn'[t].request = q
          /\ store' = expire_due(now)
          /\ expire_due(now)[q].exists => expire_due(now)[q].status = "NEEDS_CLARIFICATION"
      BY <1>0, <1>1, AdmitInFlight
    <2>2. CASE r = q
      <3>1. ~Taken(r) /\ Taken(r)'
        BY <2>1, <2>2 DEF Taken
      <3>2. /\ Entry(r).written \in {"ABSENT", "NEEDS_CLARIFICATION"}
            /\ Entry(r).taken = FALSE
            /\ Entry(r)' = [written |-> Entry(r).written, taken |-> TRUE]
        <4>1. CASE store[q].exists
          <5>1. store[q].status = "NEEDS_CLARIFICATION" /\ store'[q].exists
            BY <1>0, <2>1, <4>1, SweepStatus
          <5> QED
            BY <2>2, <3>1, <4>1, <5>1 DEF Entry
        <4>2. CASE ~store[q].exists
          <5>1. ~store'[q].exists
            BY <1>0, <2>1, <4>2, SweepStatus
          <5> QED
            BY <2>2, <3>1, <4>2, <5>1 DEF Entry
        <4> QED
          BY <4>1, <4>2
      <3> QED
        BY <3>2 DEF Ledger!Change, Ledger!Take
    <2>3. CASE r # q
      <3>1. Taken(r)' <=> Taken(r)
        BY <2>1, <2>3 DEF Taken
      <3> QED
        BY <1>0, <2>1, <3>1, EntryStays
    <2> QED
      BY <2>2, <2>3
  <1>2. ASSUME NEW t \in Turns, NEW q \in Requests, NEW s \in Sessions,
               Refuse(t, q, s) \/ AnswerExpired(t, q, s)
        PROVE  Entry(r)' = Entry(r) \/ Ledger!Change(Entry(r), Entry(r)')
    <2>1. /\ InFlight' = InFlight
          /\ \A o \in InFlight : turn'[o] = turn[o]
          /\ store' = expire_due(now)
      BY <1>0, <1>2, RefuseInFlight
    <2>2. Taken(r)' <=> Taken(r)
      BY <2>1 DEF Taken
    <2> QED
      BY <1>0, <2>1, <2>2, EntryStays
  <1>3. ASSUME NEW t \in Turns, Proceed(t), ~Settle(t), ~Raise(t)
        PROVE  Entry(r)' = Entry(r) \/ Ledger!Change(Entry(r), Entry(r)')
    <2>1. /\ InFlight' = InFlight
          /\ store' = store
          /\ \A o \in InFlight : turn'[o].request = turn[o].request
      BY <1>0, <1>3, StayInFlight
    <2>2. Taken(r)' <=> Taken(r)
      BY <2>1 DEF Taken
    <2> QED
      BY <1>0, <2>1, <2>2, EntryStays
  <1>4. ASSUME NEW t \in Turns, Settle(t) \/ Raise(t)
        PROVE  Entry(r)' = Entry(r) \/ Ledger!Change(Entry(r), Entry(r)')
    <2>1. /\ t \in InFlight
          /\ InFlight' = InFlight \ {t}
          /\ \A o \in InFlight \ {t} : turn'[o] = turn[o]
      BY <1>0, <1>4, EndInFlight
    <2>2. CASE turn[t].request # r
      <3>1. Taken(r)' <=> Taken(r)
        BY <2>1, <2>2 DEF Taken
      <3>2. store'[r] = store[r]
        BY <1>0, <1>4, <2>2, SettleWrites DEF Raise, TypeOK
      <3> QED
        BY <1>0, <3>1, <3>2, EntryStays
    <2>3. CASE turn[t].request = r
      <3>1. Taken(r) /\ ~Taken(r)'
        BY <1>0, <2>1, <2>3 DEF Taken, OneTurn
      <3>2. CASE Raise(t)
        BY <1>0, <3>1, <3>2, EntryReleased DEF Raise
      <3>3. CASE Settle(t)
        <4>1. PICK status \in Decisions :
                \E rowid : store' = [store EXCEPT ![turn[t].request] = Outcome(t, status, rowid)]
          BY <1>0, <3>3, SettleWrites
        <4>2. PICK rowid : store' = [store EXCEPT ![turn[t].request] = Outcome(t, status, rowid)]
          BY <4>1
        <4>3. store'[r] = Outcome(t, status, rowid)
          BY <1>0, <2>3, <4>2 DEF TypeOK
        <4>4. /\ Entry(r).taken
              /\ ~Entry(r)'.taken
              /\ Entry(r)'.written = status
          BY <3>1, <4>3 DEF Entry, Outcome
        <4> QED
          BY <4>4 DEF Ledger!Change, Ledger!Decide, Decisions, Settled
      <3> QED
        BY <1>4, <3>2, <3>3
    <2> QED
      BY <2>2, <2>3
  <1>5. CASE Restart
    <2>1. InFlight' = {} /\ store' = store
      BY <1>0, <1>5 DEF Restart, TypeOK, InFlight, Ended, InFlightStages
    <2>2. ~Taken(r)'
      BY <2>1 DEF Taken
    <2>3. CASE Taken(r)
      BY <1>0, <2>1, <2>2, <2>3, EntryReleased
    <2>4. CASE ~Taken(r)
      BY <1>0, <2>1, <2>2, <2>4, EntryStays
    <2> QED
      BY <2>3, <2>4
  <1>6. CASE Tick \/ UNCHANGED vars
    <2>1. store' = store /\ turn' = turn
      BY <1>6 DEF Tick, vars
    <2>2. Taken(r)' <=> Taken(r)
      BY <2>1 DEF Taken, InFlight
    <2> QED
      BY <1>0, <2>1, <2>2, EntryStays
  <1> QED
    BY <1>1, <1>2, <1>3, <1>4, <1>5, <1>6 DEF Next, Post

(* The Router implements the ledger of its request ids.                    *)
THEOREM LifecycleImplementsLedger == ASSUME ~Overlap PROVE Spec => ImplementsLedger
<1>1. LedgerOf = [r \in Requests |-> Entry(r)]
  BY DEF LedgerOf, Entry
<1>2. Init => Ledger!Init
  <2> SUFFICES ASSUME Init PROVE Ledger!Init
    OBVIOUS
  <2>1. InFlight = {}
    BY DEF Init, InFlight, Idle, InFlightStages
  <2>2. ASSUME NEW r \in Requests PROVE Entry(r) = [written |-> "ABSENT", taken |-> FALSE]
    BY <2>1 DEF Entry, Taken, Init, NoRow
  <2> QED
    BY <1>1, <2>2 DEF Ledger!Init
<1>3. SerialInv /\ SerialInv' /\ [Next]_vars => [Ledger!Next]_LedgerOf
  <2>1. LedgerOf' = [r \in Requests |-> Entry(r)']
    BY DEF LedgerOf, Entry
  <2>2. SerialInv' => EntriesTyped'
    BY EntryTyped, PTL DEF SerialInv, IInv
  <2> QED
    BY <1>1, <2>1, <2>2, LedgerStep DEF Ledger!Next, EntriesTyped
<1> QED
  BY <1>2, <1>3, SerialInvHolds, PTL DEF Spec, ImplementsLedger, Ledger!Spec

-----------------------------------------------------------------------------
(***************************************************************************)
(* Whose voice decides a turn, for any speakers, utterances and capacity   *)
(* of the cache.  Everything is keyed by a request id, so the proof        *)
(* follows the ids: an id is made once, by one utterance of one speaker    *)
(* (Made), and what carries it (a session, a recording, a turn, a future,  *)
(* a cached result) belongs to that speaker.  A voice then has one way to  *)
(* go: into one future or into the cache, and from there into one turn,    *)
(* because of the turns of one id only one waits.                          *)
(***************************************************************************)
Results == [request : Voice!RequestIds, by : Utterances]

Askings == [stage : {"none", "asking", "resolved"},
            request : Voice!RequestIds \cup {None}, by : Utterances \cup {None}]

OnePerId(q) ==
  /\ Len(q) <= ResultCapacity
  /\ \A i, j \in 1 .. Len(q) : q[i].request = q[j].request => i = j

VoicesTyped ==
  /\ active \in [Speakers -> Voice!RequestIds \cup {None}]
  /\ pipeline \in [Utterances -> {"hearing", "posted", "ended", "stopped"}]
  /\ capture \in [Utterances -> [stage : {"none", "recording", "over"},
                                 request : Voice!RequestIds \cup {None}]]
  /\ asking \in [Utterances -> Askings]
  /\ task \in [Utterances -> Voice!Futures \cup {None}]
  /\ waiting \in [Voice!RequestIds -> Voice!Futures \cup {None}]
  /\ resolved \in [Voice!Futures -> Utterances \cup {None}]
  /\ results \in Seq(Results)
  /\ OnePerId(results)

(* The speaker a request id was made for.                                  *)
Owner(r) == SpeakerOf[r[1]]

(* The side a request id is named after has made one of its own, or used   *)
(* the session's: it will make no other.                                   *)
Made(r) == IF r[2] = "heard" THEN capture[r[1]].stage # "none" ELSE pipeline[r[1]] # "hearing"

Of(r, s) == Owner(r) = s /\ Made(r)

SessionsHold == \A s \in Speakers : active[s] # None => Of(active[s], s)

RecordingsCarry ==
  \A u \in Utterances : capture[u].stage # "none" =>
    capture[u].request # None /\ Of(capture[u].request, SpeakerOf[u])

TurnsCarry ==
  \A u \in Utterances :
    IF asking[u].stage = "none" THEN asking[u].by = None /\ task[u] = None
    ELSE /\ pipeline[u] # "hearing"
         /\ asking[u].request # None /\ Of(asking[u].request, SpeakerOf[u])
         /\ asking[u].stage = "asking" => asking[u].by = None

(* A speaker's pipelines run one after the other.                          *)
InOrder == \A u \in Utterances : pipeline[u] # "hearing" => Voice!Spoken(u)

(* The earlier of two utterances of a speaker had its pipeline stopped.    *)
EarlierStopped(u, v) ==
  (u < v => pipeline[u] = "stopped") /\ (v < u => pipeline[v] = "stopped")

(* When the session still holds the id of a turn that waits, its pipeline  *)
(* has not ended, though it may have been stopped; of the turns that wait  *)
(* under one id, only the last has a pipeline that was not.                *)
OneWaits ==
  \A u \in Utterances : asking[u].stage = "asking" =>
    /\ active[SpeakerOf[u]] = asking[u].request => pipeline[u] \in {"posted", "stopped"}
    /\ \A v \in Utterances :
         asking[v].stage = "asking" /\ asking[v].request = asking[u].request
           => EarlierStopped(u, v)

(* A future belongs to the request of the turn that made it, whoever       *)
(* waits for it; it is registered until it has its result.                 *)
FuturesBelong ==
  /\ \A u \in Utterances : task[u] # None =>
       asking[task[u]].stage # "none" /\ asking[task[u]].request = asking[u].request
  /\ \A r \in Voice!RequestIds : waiting[r] # None =>
       /\ asking[waiting[r]].stage # "none" /\ asking[waiting[r]].request = r
       /\ resolved[waiting[r]] = None

(* A result is that of a recording of the same request id, which is over.  *)
Heard(b, r) == capture[b].stage = "over" /\ capture[b].request = r

ResultsAreHeard ==
  /\ \A f \in Voice!Futures : resolved[f] # None =>
       asking[f].stage # "none" /\ Heard(resolved[f], asking[f].request)
  /\ \A i \in 1 .. Len(results) : Heard(results[i].by, results[i].request)
  /\ \A u \in Utterances : asking[u].by # None => Heard(asking[u].by, asking[u].request)

(* A result is in one place: a future, the cache or a turn; and when it is *)
(* in a turn, of this one and of another that still waits for its future   *)
(* the earlier was stopped.                                                *)
OnePlace ==
  /\ \A f, g \in Voice!Futures : resolved[f] = resolved[g] => resolved[f] = None \/ f = g
  /\ \A i \in 1 .. Len(results) :
       /\ \A f \in Voice!Futures : resolved[f] # results[i].by
       /\ \A u \in Utterances : asking[u].by # results[i].by
  /\ \A u, v \in Utterances :
       asking[u].by # None /\ task[v] # None /\ asking[u].by = resolved[task[v]]
       /\ asking[v].stage = "asking"
         => EarlierStopped(u, v)

VoiceInv ==
  /\ VoicesTyped
  /\ SessionsHold /\ RecordingsCarry /\ TurnsCarry
  /\ InOrder /\ OneWaits /\ FuturesBelong
  /\ ResultsAreHeard /\ OnePlace /\ Voice!OneTurnPerVoice

-----------------------------------------------------------------------------
(* None is no request id and no utterance, and an id is a pair.            *)
LEMMA VoiceValues ==
  ASSUME Voice!CorrelationAssumption
  PROVE  /\ None \notin Voice!RequestIds /\ None \notin Utterances
         /\ \A r \in Voice!RequestIds : r[1] \in Utterances /\ r[2] \in {"heard", "posted"}
                                  /\ Owner(r) \in Speakers
         /\ \A u \in Utterances : SpeakerOf[u] \in Speakers /\ u \in Nat
         /\ \A u \in Utterances, side \in {"heard", "posted"} :
              <<u, side>> \in Voice!RequestIds /\ Owner(<<u, side>>) = SpeakerOf[u]
<1>1. None \notin Voice!RequestIds /\ None \notin Utterances
  BY DEF Voice!CorrelationAssumption
<1>2. \A r \in Voice!RequestIds : r[1] \in Utterances /\ r[2] \in {"heard", "posted"}
  BY DEF Voice!RequestIds
<1>3. \A u \in Utterances : SpeakerOf[u] \in Speakers /\ u \in Nat
  BY DEF Voice!CorrelationAssumption
<1>4. \A u \in Utterances, side \in {"heard", "posted"} :
        <<u, side>> \in Voice!RequestIds /\ Owner(<<u, side>>) = SpeakerOf[u]
  BY DEF Voice!RequestIds, Owner
<1>5. QED
  BY <1>1, <1>2, <1>3, <1>4 DEF Owner

(* What pop leaves of the cache: every other result, in order.             *)
LEMMA PopKeepsTheOthers ==
  ASSUME results \in Seq(Results), OnePerId(results), Voice!CorrelationAssumption, NEW r
  PROVE  /\ Voice!Without(r) \in Seq(Results)
         /\ OnePerId(Voice!Without(r))
         /\ \A k \in 1 .. Len(Voice!Without(r)) :
              /\ Voice!Without(r)[k].request # r
              /\ \E i \in 1 .. Len(results) : Voice!Without(r)[k] = results[i]
<1>1. CASE Voice!Cached(r) = {}
  BY <1>1 DEF Voice!Without, Voice!Cached
<1>2. CASE Voice!Cached(r) # {}
  <2> DEFINE i == CHOOSE i \in Voice!Cached(r) : TRUE
             front == SubSeq(results, 1, i - 1)
             rear == SubSeq(results, i + 1, Len(results))
  <2>1. i \in 1 .. Len(results) /\ results[i].request = r
    BY <1>2 DEF Voice!Cached
  <2>2. Voice!Without(r) = front \o rear
    BY <1>2 DEF Voice!Without
  <2>3. Len(results) \in Nat /\ \A k \in 1 .. Len(results) : results[k] \in Results
    BY LenProperties, ElementOfSeq
  <2> HIDE DEF i
  <2>4. /\ front \in Seq(Results) /\ Len(front) = i - 1
        /\ \A k \in 1 .. i - 1 : front[k] = results[k]
    <3>1. i - 1 \in Int /\ \A k \in 1 .. i - 1 : results[k] \in Results
      BY <2>1, <2>3
    <3>2. QED
      BY <2>1, <2>3, <3>1, SubSeqProperties
  <2>5. /\ rear \in Seq(Results) /\ Len(rear) = Len(results) - i
        /\ \A k \in 1 .. Len(results) - i : rear[k] = results[k + i]
    <3>1. i + 1 \in Int /\ \A k \in i + 1 .. Len(results) : results[k] \in Results
      BY <2>1, <2>3
    <3>2. /\ rear \in Seq(Results)
          /\ Len(rear) = IF i + 1 <= Len(results) THEN Len(results) - (i + 1) + 1 ELSE 0
          /\ \A k \in 1 .. Len(results) - (i + 1) + 1 : rear[k] = results[i + 1 + k - 1]
      BY <2>3, <3>1, SubSeqProperties
    <3>3. QED
      BY <2>1, <2>3, <3>2
  <2> HIDE DEF front, rear
  <2>6. /\ Voice!Without(r) \in Seq(Results) /\ Len(Voice!Without(r)) = Len(results) - 1
        /\ \A k \in 1 .. Len(Voice!Without(r)) :
             Voice!Without(r)[k] = IF k < i THEN results[k] ELSE results[k + 1]
    <3>1. /\ front \o rear \in Seq(Results)
          /\ Len(front \o rear) = Len(front) + Len(rear)
          /\ \A k \in 1 .. Len(front) + Len(rear) : (front \o rear)[k] =
               IF k <= Len(front) THEN front[k] ELSE rear[k - Len(front)]
      BY <2>4, <2>5, ConcatProperties
    <3>2. Len(Voice!Without(r)) = Len(results) - 1
      BY <2>1, <2>2, <2>3, <2>4, <2>5, <3>1
    <3>3. ASSUME NEW k \in 1 .. Len(Voice!Without(r))
          PROVE  Voice!Without(r)[k] = IF k < i THEN results[k] ELSE results[k + 1]
      <4>1. CASE k < i
        BY <2>1, <2>2, <2>3, <2>4, <2>5, <3>1, <3>2, <3>3, <4>1
      <4>2. CASE ~(k < i)
        <5>1. k - (i - 1) \in 1 .. Len(results) - i /\ k - (i - 1) + i = k + 1
          BY <2>1, <2>3, <3>2, <4>2
        <5>2. Voice!Without(r)[k] = rear[k - (i - 1)]
          BY <2>1, <2>2, <2>3, <2>4, <2>5, <3>1, <3>2, <4>2
        <5>3. QED
          BY <2>5, <4>2, <5>1, <5>2
      <4>3. QED
        BY <4>1, <4>2
    <3>4. QED
      BY <2>2, <3>1, <3>2, <3>3
  <2>7. ASSUME NEW k \in 1 .. Len(Voice!Without(r))
        PROVE  \E j \in 1 .. Len(results) : Voice!Without(r)[k] = results[j] /\ j # i
    BY <2>1, <2>3, <2>6
  <2>8. \A k \in 1 .. Len(Voice!Without(r)) : Voice!Without(r)[k].request # r
    BY <2>1, <2>7 DEF OnePerId
  <2>9. \A k, j \in 1 .. Len(Voice!Without(r)) :
          Voice!Without(r)[k].request = Voice!Without(r)[j].request => k = j
    <3> SUFFICES ASSUME NEW k \in 1 .. Len(Voice!Without(r)), NEW j \in 1 .. Len(Voice!Without(r)),
                        Voice!Without(r)[k].request = Voice!Without(r)[j].request
                 PROVE  k = j
      OBVIOUS
    <3> DEFINE at(n) == IF n < i THEN n ELSE n + 1
    <3>1. /\ at(k) \in 1 .. Len(results) /\ at(j) \in 1 .. Len(results)
          /\ Voice!Without(r)[k] = results[at(k)] /\ Voice!Without(r)[j] = results[at(j)]
      BY <2>1, <2>3, <2>6
    <3>2. at(k) = at(j)
      BY <3>1 DEF OnePerId
    <3>3. QED
      BY <2>1, <2>3, <2>6, <3>2
  <2>10. Len(Voice!Without(r)) <= ResultCapacity
    BY <2>3, <2>6 DEF OnePerId, Voice!CorrelationAssumption
  <2>11. QED
    BY <2>6, <2>7, <2>8, <2>9, <2>10 DEF OnePerId
<1>3. QED
  BY <1>1, <1>2

(* What the cache is when a result is put into it: the new result, and as  *)
(* many of the others as it has room for.                                  *)
LEMMA CacheAdds ==
  ASSUME results \in Seq(Results), OnePerId(results), Voice!CorrelationAssumption,
         NEW e \in Results
  PROVE  LET new == Voice!Evicted(Append(Voice!Without(e.request), e))
         IN /\ new \in Seq(Results)
            /\ OnePerId(new)
            /\ \A k \in 1 .. Len(new) :
                 new[k] = e \/ \E i \in 1 .. Len(results) : new[k] = results[i]
<1> DEFINE kept == Voice!Without(e.request)
           all == Append(kept, e)
           new == Voice!Evicted(all)
<1>1. /\ kept \in Seq(Results) /\ OnePerId(kept)
      /\ \A k \in 1 .. Len(kept) : /\ kept[k].request # e.request
                                   /\ \E i \in 1 .. Len(results) : kept[k] = results[i]
  BY PopKeepsTheOthers
<1> HIDE DEF kept
<1>2. Len(kept) \in Nat
  BY <1>1, LenProperties
<1>3. /\ all \in Seq(Results) /\ Len(all) = Len(kept) + 1
      /\ \A k \in 1 .. Len(kept) : all[k] = kept[k]
      /\ all[Len(kept) + 1] = e
  BY <1>1, AppendProperties
<1> HIDE DEF all
<1>4. /\ \A k \in 1 .. Len(all) : all[k] = e \/ \E i \in 1 .. Len(results) : all[k] = results[i]
      /\ \A k, j \in 1 .. Len(all) : all[k].request = all[j].request => k = j
  <2>1. \A k \in 1 .. Len(all) : k \in 1 .. Len(kept) \/ k = Len(kept) + 1
    BY <1>2, <1>3
  <2>2. \A k \in 1 .. Len(all) : all[k] = e \/ \E i \in 1 .. Len(results) : all[k] = results[i]
    BY <1>1, <1>3, <2>1
  <2>3. ASSUME NEW k \in 1 .. Len(all), NEW j \in 1 .. Len(all),
               all[k].request = all[j].request
        PROVE  k = j
    <3>1. CASE k \in 1 .. Len(kept) /\ j \in 1 .. Len(kept)
      BY <1>1, <1>3, <2>3, <3>1 DEF OnePerId
    <3>2. CASE k = Len(kept) + 1 /\ j = Len(kept) + 1
      BY <3>2
    <3>3. QED
      BY <1>1, <1>3, <2>1, <2>3, <3>1, <3>2
  <2>4. QED
    BY <2>2, <2>3
<1>5. CASE Len(all) <= ResultCapacity
  <2>1. new = all
    BY <1>2, <1>3, <1>5 DEF Voice!Evicted, Voice!CorrelationAssumption
  <2>2. QED
    BY <1>3, <1>4, <1>5, <2>1 DEF OnePerId, kept, all
<1>6. CASE ~(Len(all) <= ResultCapacity)
  <2>1. new = Tail(all) /\ all # <<>>
    BY <1>2, <1>3, <1>6 DEF Voice!Evicted, Voice!CorrelationAssumption
  <2>2. /\ new \in Seq(Results) /\ Len(new) = Len(kept)
        /\ \A k \in 1 .. Len(new) : new[k] = all[k + 1]
    BY <1>2, <1>3, <2>1, HeadTailProperties
  <2> HIDE DEF new
  <2>3. \A k \in 1 .. Len(new) : k + 1 \in 1 .. Len(all)
    BY <1>2, <1>3, <2>2
  <2>4. Len(new) <= ResultCapacity
    BY <1>1, <2>2 DEF OnePerId
  <2>5. ASSUME NEW k \in 1 .. Len(new), NEW j \in 1 .. Len(new),
               new[k].request = new[j].request
        PROVE  k = j
    <3>1. all[k + 1].request = all[j + 1].request
      BY <2>2, <2>5
    <3>2. k + 1 = j + 1
      BY <1>4, <2>3, <3>1
    <3>3. QED
      BY <3>2
  <2>6. ASSUME NEW k \in 1 .. Len(new)
        PROVE  new[k] = e \/ \E i \in 1 .. Len(results) : new[k] = results[i]
    <3>1. new[k] = all[k + 1] /\ k + 1 \in 1 .. Len(all)
      BY <2>2, <2>3
    <3>2. QED
      BY <1>4, <3>1
  <2>7. QED
    BY <2>2, <2>4, <2>5, <2>6 DEF OnePerId, new, all, kept
<1>7. QED
  BY <1>5, <1>6

-----------------------------------------------------------------------------
(* The request id of an utterance is its session's, or one that was never  *)
(* made.                                                                   *)
LEMMA RequestIdIsOfSpeaker ==
  ASSUME VoiceInv, Voice!CorrelationAssumption,
         NEW u \in Utterances, NEW side \in {"heard", "posted"}
  PROVE  /\ Voice!RequestIdFor(u, side) \in Voice!RequestIds
         /\ Voice!RequestIdFor(u, side) # None
         /\ Owner(Voice!RequestIdFor(u, side)) = SpeakerOf[u]
         /\ \/ /\ Voice!RequestIdFor(u, side) = active[SpeakerOf[u]]
               /\ Made(Voice!RequestIdFor(u, side))
            \/ Voice!RequestIdFor(u, side) = <<u, side>> /\ active[SpeakerOf[u]] = None
<1>1. SpeakerOf[u] \in Speakers
  BY VoiceValues
<1>2. CASE active[SpeakerOf[u]] # None
  <2>1. Voice!RequestIdFor(u, side) = active[SpeakerOf[u]]
    BY <1>2 DEF Voice!RequestIdFor, Voice!KeyOf
  <2>2. QED
    BY <1>1, <1>2, <2>1 DEF VoiceInv, VoicesTyped, SessionsHold, Of
<1>3. CASE active[SpeakerOf[u]] = None
  <2>1. Voice!RequestIdFor(u, side) = <<u, side>>
    BY <1>3 DEF Voice!RequestIdFor, Voice!KeyOf
  <2>2. <<u, side>> \in Voice!RequestIds /\ Owner(<<u, side>>) = SpeakerOf[u] /\ <<u, side>> # None
    BY VoiceValues
  <2>3. QED
    BY <1>3, <2>1, <2>2
<1>4. QED
  BY <1>2, <1>3

(* What was made stays made.                                               *)
LEMMA MadeStays ==
  ASSUME Voice!CorrelationAssumption,
         \A u \in Utterances : capture[u].stage # "none" => capture'[u].stage # "none",
         \A u \in Utterances : pipeline[u] # "hearing" => pipeline'[u] # "hearing"
  PROVE  \A r \in Voice!RequestIds, s \in Speakers : Of(r, s) => Of(r, s)'
<1>1. \A r \in Voice!RequestIds : r[1] \in Utterances
  BY VoiceValues
<1>2. QED
  BY <1>1 DEF Of, Owner, Made

(* A step in which no recording and no turn moves: a pipeline ends or is   *)
(* stopped, or a session drops its id, and a pipeline whose turn waits     *)
(* ends only with its session's id.                                        *)
LEMMA PipelinesStep ==
  ASSUME VoiceInv, Voice!CorrelationAssumption, NEW s \in Speakers,
         UNCHANGED <<capture, asking, task, waiting, resolved, results>>,
         \/ UNCHANGED pipeline
         \/ \E u \in Utterances, last \in {"ended", "stopped"} :
              /\ pipeline' = [pipeline EXCEPT ![u] = last] /\ Voice!Spoken(u)
              /\ pipeline[u] \in {"hearing", "posted"}
              /\ SpeakerOf[u] = s
              /\ asking[u].stage = "asking" => last = "stopped" \/ Voice!Release(s),
         \/ UNCHANGED active
         \/ Voice!Release(s)
  PROVE  VoiceInv'
<1>1. VoicesTyped /\ VoicesTyped'
  <2>1. VoicesTyped
    BY DEF VoiceInv
  <2>2. active' \in [Speakers -> Voice!RequestIds \cup {None}]
    BY <2>1 DEF VoicesTyped, Voice!Release
  <2>3. pipeline' \in [Utterances -> {"hearing", "posted", "ended", "stopped"}]
    BY <2>1 DEF VoicesTyped
  <2>4. QED
    BY <2>1, <2>2, <2>3 DEF VoicesTyped
<1>2. \A r \in Speakers : active'[r] = active[r] \/ active'[r] = None
  BY <1>1 DEF VoicesTyped, Voice!Release
<1>3. \A u \in Utterances : /\ pipeline'[u] = pipeline[u] \/ pipeline'[u] \in {"ended", "stopped"}
                            /\ pipeline'[u] # pipeline[u] =>
                                 Voice!Spoken(u) /\ pipeline[u] \in {"hearing", "posted"}
                            /\ (pipeline'[u] # pipeline[u] /\ pipeline'[u] # "stopped"
                                 /\ asking[u].stage = "asking")
                                 => SpeakerOf[u] = s /\ Voice!Release(s)
  <2>1. CASE UNCHANGED pipeline
    BY <2>1
  <2>2. ASSUME NEW v \in Utterances, NEW last \in {"ended", "stopped"},
               pipeline' = [pipeline EXCEPT ![v] = last], Voice!Spoken(v),
               pipeline[v] \in {"hearing", "posted"}, SpeakerOf[v] = s,
               asking[v].stage = "asking" => last = "stopped" \/ Voice!Release(s),
               NEW u \in Utterances
        PROVE  /\ pipeline'[u] = pipeline[u] \/ pipeline'[u] \in {"ended", "stopped"}
               /\ pipeline'[u] # pipeline[u] =>
                    Voice!Spoken(u) /\ pipeline[u] \in {"hearing", "posted"}
               /\ (pipeline'[u] # pipeline[u] /\ pipeline'[u] # "stopped"
                    /\ asking[u].stage = "asking")
                    => SpeakerOf[u] = s /\ Voice!Release(s)
    <3>1. pipeline \in [Utterances -> {"hearing", "posted", "ended", "stopped"}]
      BY <1>1 DEF VoicesTyped
    <3>2. CASE u = v
      BY <2>2, <3>1, <3>2
    <3>3. CASE u # v
      BY <2>2, <3>1, <3>3
    <3>4. QED
      BY <3>2, <3>3
  <2>3. QED
    BY <2>1, <2>2
<1>31. \A u, v \in Utterances : EarlierStopped(u, v) => EarlierStopped(u, v)'
  BY <1>3 DEF EarlierStopped
<1>4. \A r \in Voice!RequestIds, k \in Speakers : Of(r, k) => Of(r, k)'
  BY <1>3, MadeStays
<1>5. SessionsHold'
  BY <1>1, <1>2, <1>4 DEF VoiceInv, SessionsHold, VoicesTyped
<1>6. RecordingsCarry'
  BY <1>1, <1>4, VoiceValues DEF VoiceInv, RecordingsCarry, VoicesTyped
<1>7. TurnsCarry'
  BY <1>1, <1>3, <1>4, VoiceValues DEF VoiceInv, TurnsCarry, VoicesTyped, Askings
<1>8. InOrder'
  <2>1. \A u \in Utterances : Voice!Spoken(u) => Voice!Spoken(u)'
    BY <1>3 DEF Voice!Spoken, Voice!Earlier
  <2>2. QED
    BY <1>3, <2>1 DEF VoiceInv, InOrder
<1>9. OneWaits'
  <2> SUFFICES ASSUME NEW v \in Utterances, asking[v].stage = "asking",
                      active'[SpeakerOf[v]] = asking[v].request
               PROVE  pipeline'[v] \in {"posted", "stopped"}
    BY <1>1, <1>31 DEF VoiceInv, OneWaits
  <2>1. asking[v].request # None /\ SpeakerOf[v] \in Speakers
    BY VoiceValues DEF VoiceInv, TurnsCarry
  <2>2. active'[SpeakerOf[v]] = active[SpeakerOf[v]] /\ pipeline[v] \in {"posted", "stopped"}
    BY <1>2, <2>1 DEF VoiceInv, OneWaits
  <2>3. ASSUME pipeline'[v] # pipeline[v], pipeline'[v] # "stopped" PROVE FALSE
    <3>1. SpeakerOf[v] = s /\ Voice!Release(s)
      BY <1>3, <2>3
    <3>2. active'[s] = None
      BY <1>1, <3>1 DEF Voice!Release, VoicesTyped
    <3>3. QED
      BY <2>1, <3>1, <3>2
  <2>4. QED
    BY <2>2, <2>3
<1>10. FuturesBelong' /\ ResultsAreHeard'
  BY DEF VoiceInv, FuturesBelong, ResultsAreHeard, Heard
<1>101. OnePlace'
  BY <1>31 DEF VoiceInv, OnePlace
<1>102. Voice!OneTurnPerVoice'
  BY <1>3 DEF VoiceInv, Voice!OneTurnPerVoice
<1>11. QED
  BY <1>1, <1>5, <1>6, <1>7, <1>8, <1>9, <1>10, <1>101, <1>102 DEF VoiceInv

(* A recording starts: its id is its session's or new, so it is not that   *)
(* of a turn that waits without its session.                               *)
LEMMA StartCaptureKeeps ==
  ASSUME VoiceInv, Voice!CorrelationAssumption, NEW u \in Utterances, Voice!StartCapture(u)
  PROVE  VoiceInv'
<1> DEFINE s == SpeakerOf[u]
<1>0. PICK r : r = Voice!RequestIdFor(u, "heard")
  OBVIOUS
<1>1. /\ r \in Voice!RequestIds /\ r # None /\ Owner(r) = s /\ s \in Speakers
      /\ \/ r = active[s] /\ Made(r)
         \/ r = <<u, "heard">> /\ active[s] = None
  BY <1>0, RequestIdIsOfSpeaker, VoiceValues
<1>2. /\ capture' = [capture EXCEPT ![u] = [stage |-> "recording", request |-> r]]
      /\ active' = [active EXCEPT ![s] = r]
      /\ UNCHANGED <<pipeline, asking, task, waiting, resolved, results>>
      /\ capture[u].stage = "none"
  BY <1>0 DEF Voice!StartCapture, Voice!Hold, Voice!KeyOf
<1>3. VoicesTyped /\ VoicesTyped'
  BY <1>1, <1>2 DEF VoiceInv, VoicesTyped
<1>4. /\ \A v \in Utterances \ {u} : capture'[v] = capture[v]
      /\ capture'[u].stage = "recording" /\ capture'[u].request = r
      /\ \A k \in Speakers \ {s} : active'[k] = active[k]
      /\ active'[s] = r
  BY <1>1, <1>2, <1>3 DEF VoicesTyped
<1>5. \A q \in Voice!RequestIds, k \in Speakers : Of(q, k) => Of(q, k)'
  BY <1>2, <1>4, MadeStays
<1>6. Of(r, s)'
  <2>1. CASE r = active[s] /\ Made(r)
    BY <1>1, <1>5, <2>1 DEF Of
  <2>2. CASE r = <<u, "heard">>
    BY <1>1, <1>4, <2>2 DEF Of, Owner, Made
  <2>3. QED
    BY <1>1, <2>1, <2>2
<1>7. SessionsHold'
  <2> SUFFICES ASSUME NEW k \in Speakers, active'[k] # None
               PROVE  Of(active[k], k)'
    BY DEF SessionsHold
  <2>1. PICK q : q = active'[k]
    OBVIOUS
  <2>2. CASE k = s
    <3>1. q = r
      BY <1>4, <2>1, <2>2
    <3>2. QED
      BY <1>6, <2>1, <2>2, <3>1 DEF Of, Owner, Made
  <2>3. CASE k # s
    <3>1. q = active[k] /\ q \in Voice!RequestIds /\ Of(q, k)
      BY <1>3, <1>4, <2>1, <2>3 DEF VoiceInv, SessionsHold, VoicesTyped
    <3>2. QED
      BY <1>5, <2>1, <3>1 DEF Of, Owner, Made
  <2>4. QED
    BY <2>2, <2>3
<1>8. RecordingsCarry'
  <2> SUFFICES ASSUME NEW v \in Utterances, capture'[v].stage # "none"
               PROVE  capture'[v].request # None /\ Of(capture[v].request, SpeakerOf[v])'
    BY DEF RecordingsCarry
  <2>1. CASE v = u
    BY <1>1, <1>4, <1>6, <2>1 DEF Of, Owner, Made
  <2>2. CASE v # u
    <3>1. PICK q : q = capture[v].request
      OBVIOUS
    <3>2. capture'[v].request = q /\ q \in Voice!RequestIds /\ q # None /\ Of(q, SpeakerOf[v])
      BY <1>3, <1>4, <2>2, <3>1 DEF VoiceInv, RecordingsCarry, VoicesTyped
    <3>3. QED
      BY <1>5, <3>2, VoiceValues DEF Of, Owner, Made
  <2>3. QED
    BY <2>1, <2>2
<1>9. TurnsCarry'
  BY <1>2, <1>3, <1>5, VoiceValues DEF VoiceInv, TurnsCarry, VoicesTyped, Askings
<1>10. InOrder'
  BY <1>2 DEF VoiceInv, InOrder, Voice!Spoken, Voice!Earlier
<1>11. OneWaits'
  <2> SUFFICES ASSUME NEW v \in Utterances, asking[v].stage = "asking",
                      active'[SpeakerOf[v]] = asking[v].request
               PROVE  active[SpeakerOf[v]] = asking[v].request
    BY <1>2 DEF VoiceInv, OneWaits, EarlierStopped
  <2>1. SpeakerOf[v] \in Speakers /\ Made(asking[v].request)
    BY VoiceValues DEF VoiceInv, TurnsCarry, Of
  <2>2. CASE r = <<u, "heard">>
    <3>1. ~Made(r)
      BY <1>2, <2>2 DEF Made
    <3>2. QED
      BY <1>4, <2>1, <3>1
  <2>3. CASE r = active[s]
    BY <1>4, <2>1, <2>3
  <2>4. QED
    BY <1>1, <2>2, <2>3
<1>12. FuturesBelong' /\ OnePlace' /\ Voice!OneTurnPerVoice'
  BY <1>2 DEF VoiceInv, FuturesBelong, OnePlace, EarlierStopped, Voice!OneTurnPerVoice
<1>13. ResultsAreHeard'
  <2>1. \A b \in Utterances, q \in Voice!RequestIds \cup {None} : Heard(b, q) => Heard(b, q)'
    BY <1>2, <1>4 DEF Heard
  <2>2. /\ \A f \in Voice!Futures : resolved[f] \in Utterances \cup {None}
                              /\ asking[f].request \in Voice!RequestIds \cup {None}
                              /\ asking[f].by \in Utterances \cup {None}
        /\ \A i \in 1 .. Len(results) : results[i].by \in Utterances
                                        /\ results[i].request \in Voice!RequestIds
    <3>1. \A i \in 1 .. Len(results) : results[i] \in Results
      BY <1>3, ElementOfSeq DEF VoicesTyped
    <3>2. QED
      BY <1>3, <3>1 DEF VoicesTyped, Askings, Voice!Futures, Results
  <2>3. QED
    BY <1>2, <2>1, <2>2 DEF VoiceInv, ResultsAreHeard, Voice!Futures
<1>14. QED
  BY <1>3, <1>7, <1>8, <1>9, <1>10, <1>11, <1>12, <1>13 DEF VoiceInv

-----------------------------------------------------------------------------
(* The cache holds results.                                                *)
LEMMA CachedAreResults ==
  ASSUME VoicesTyped, NEW i \in 1 .. Len(results)
  PROVE  results[i].request \in Voice!RequestIds /\ results[i].by \in Utterances
<1>1. results[i] \in Results
  BY ElementOfSeq DEF VoicesTyped
<1>2. QED
  BY <1>1 DEF Results

(* A turn that was posted has a request id.                                *)
LEMMA TurnsHaveIds ==
  ASSUME VoiceInv, NEW u \in Utterances
  PROVE  /\ asking[u].stage # "none" => asking[u].request \in Voice!RequestIds
         /\ asking[u].by # None => asking[u].stage # "none"
BY DEF VoiceInv, VoicesTyped, TurnsCarry, Askings

(* A recording that ends, with a result or without, was no result before.  *)
LEMMA RecordingEnds ==
  ASSUME VoiceInv, Voice!CorrelationAssumption, NEW u \in Utterances,
         capture[u].stage = "recording", capture' = [capture EXCEPT ![u].stage = "over"],
         UNCHANGED <<active, pipeline, asking, task>>
  PROVE  /\ SessionsHold' /\ RecordingsCarry' /\ TurnsCarry' /\ InOrder' /\ OneWaits'
         /\ Voice!OneTurnPerVoice'
         /\ capture' \in [Utterances -> [stage : {"none", "recording", "over"},
                                         request : Voice!RequestIds \cup {None}]]
         /\ capture[u].request \in Voice!RequestIds
         /\ \A q \in Voice!RequestIds : ~Heard(u, q)
         /\ \A q \in Voice!RequestIds, b \in Utterances : Heard(b, q) => Heard(b, q)'
         /\ capture'[u].stage = "over" /\ capture'[u].request = capture[u].request
<1>1. VoicesTyped
  BY DEF VoiceInv
<1>2. /\ \A v \in Utterances \ {u} : capture'[v] = capture[v]
      /\ capture'[u].stage = "over" /\ capture'[u].request = capture[u].request
      /\ capture' \in [Utterances -> [stage : {"none", "recording", "over"},
                                      request : Voice!RequestIds \cup {None}]]
  BY <1>1 DEF VoicesTyped
<1>3. \A q \in Voice!RequestIds, k \in Speakers : Of(q, k) => Of(q, k)'
  BY <1>2, MadeStays
<1>4. capture[u].request \in Voice!RequestIds
  BY <1>1 DEF VoicesTyped, VoiceInv, RecordingsCarry
<1>5. \A v \in Utterances : SpeakerOf[v] \in Speakers
  BY VoiceValues
<1>6. SessionsHold'
  BY <1>1, <1>3 DEF VoiceInv, SessionsHold, VoicesTyped
<1>7. RecordingsCarry'
  <2> SUFFICES ASSUME NEW v \in Utterances, capture'[v].stage # "none"
               PROVE  capture'[v].request # None /\ Of(capture[v].request, SpeakerOf[v])'
    BY DEF RecordingsCarry
  <2>1. PICK q : q = capture[v].request
    OBVIOUS
  <2>2. q = capture'[v].request /\ capture[v].stage # "none"
    BY <1>2, <2>1
  <2>3. q \in Voice!RequestIds /\ q # None /\ Of(q, SpeakerOf[v])
    BY <1>1, <2>1, <2>2, VoiceValues DEF VoiceInv, RecordingsCarry, VoicesTyped
  <2>4. QED
    BY <1>3, <1>5, <2>2, <2>3 DEF Of, Owner, Made
<1>8. TurnsCarry'
  BY <1>1, <1>3, <1>5 DEF VoiceInv, TurnsCarry, VoicesTyped, Askings
<1>9. InOrder' /\ OneWaits' /\ Voice!OneTurnPerVoice'
  BY DEF VoiceInv, InOrder, Voice!Spoken, Voice!Earlier, OneWaits, EarlierStopped,
         Voice!OneTurnPerVoice
<1>10. QED
  BY <1>2, <1>4, <1>6, <1>7, <1>8, <1>9 DEF Heard

LEMMA DropKeeps ==
  ASSUME VoiceInv, Voice!CorrelationAssumption, NEW u \in Utterances, Voice!Drop(u)
  PROVE  VoiceInv'
<1>1. /\ capture[u].stage = "recording" /\ capture' = [capture EXCEPT ![u].stage = "over"]
      /\ UNCHANGED <<active, pipeline, asking, task, waiting, resolved, results>>
  BY DEF Voice!Drop
<1>2. /\ SessionsHold' /\ RecordingsCarry' /\ TurnsCarry' /\ InOrder' /\ OneWaits'
      /\ Voice!OneTurnPerVoice'
      /\ capture' \in [Utterances -> [stage : {"none", "recording", "over"},
                                      request : Voice!RequestIds \cup {None}]]
      /\ \A q \in Voice!RequestIds, b \in Utterances : Heard(b, q) => Heard(b, q)'
  BY <1>1, RecordingEnds
<1>3. VoicesTyped /\ VoicesTyped'
  BY <1>1, <1>2 DEF VoiceInv, VoicesTyped
<1>4. FuturesBelong' /\ OnePlace'
  BY <1>1 DEF VoiceInv, FuturesBelong, OnePlace, EarlierStopped
<1>5. ResultsAreHeard'
  BY <1>1, <1>2, <1>3, CachedAreResults, TurnsHaveIds
     DEF VoiceInv, ResultsAreHeard, VoicesTyped, Askings, Voice!Futures
<1>6. QED
  BY <1>2, <1>3, <1>4, <1>5 DEF VoiceInv

(* The result of a recording goes into the future of its id, or into the   *)
(* cache.                                                                  *)
LEMMA PublishKeeps ==
  ASSUME VoiceInv, Voice!CorrelationAssumption, NEW u \in Utterances, Voice!Publish(u)
  PROVE  VoiceInv'
<1>0. PICK r : r = capture[u].request
  OBVIOUS
<1>1. /\ capture[u].stage = "recording" /\ capture' = [capture EXCEPT ![u].stage = "over"]
      /\ UNCHANGED <<active, pipeline, asking, task>>
  BY DEF Voice!Publish
<1>2. /\ SessionsHold' /\ RecordingsCarry' /\ TurnsCarry' /\ InOrder' /\ OneWaits'
      /\ Voice!OneTurnPerVoice'
      /\ capture' \in [Utterances -> [stage : {"none", "recording", "over"},
                                      request : Voice!RequestIds \cup {None}]]
      /\ r \in Voice!RequestIds
      /\ \A q \in Voice!RequestIds : ~Heard(u, q)
      /\ \A q \in Voice!RequestIds, b \in Utterances : Heard(b, q) => Heard(b, q)'
      /\ Heard(u, r)'
  BY <1>0, <1>1, RecordingEnds DEF Heard
<1>3. VoicesTyped
  BY DEF VoiceInv
<1>4. \A v \in Utterances : asking[v].by # u /\ resolved[v] # u
  <2> SUFFICES ASSUME NEW v \in Utterances, asking[v].by = u \/ resolved[v] = u
               PROVE  FALSE
    OBVIOUS
  <2>1. u # None
    BY VoiceValues
  <2>2. Heard(u, asking[v].request) /\ asking[v].stage # "none"
    BY <2>1, TurnsHaveIds DEF VoiceInv, ResultsAreHeard, Voice!Futures
  <2>3. QED
    BY <1>2, <2>2, TurnsHaveIds
<1>5. \A i \in 1 .. Len(results) : results[i].by # u
  BY <1>2, <1>3, CachedAreResults DEF VoiceInv, ResultsAreHeard
<1>6. \A b \in Utterances, v \in Utterances :
        asking[v].stage # "none" /\ Heard(b, asking[v].request) =>
          capture'[b].stage = "over" /\ capture'[b].request = asking[v].request
  <2> SUFFICES ASSUME NEW b \in Utterances, NEW v \in Utterances,
                      asking[v].stage # "none", Heard(b, asking[v].request)
               PROVE  capture'[b].stage = "over" /\ capture'[b].request = asking[v].request
    OBVIOUS
  <2>1. PICK q \in Voice!RequestIds : q = asking[v].request
    BY TurnsHaveIds
  <2>2. QED
    BY <1>2, <2>1 DEF Heard
<1>61. \A v \in Utterances : asking[v].by # None =>
         capture'[asking[v].by].stage = "over" /\ capture'[asking[v].by].request = asking[v].request
  BY <1>3, <1>6, TurnsHaveIds DEF VoiceInv, ResultsAreHeard, VoicesTyped, Askings
<1>7. CASE waiting[r] # None
  <2>0. PICK f : f = waiting[r]
    OBVIOUS
  <2>1. /\ resolved' = [resolved EXCEPT ![f] = u]
        /\ waiting' = [waiting EXCEPT ![r] = None]
        /\ UNCHANGED results
    BY <1>0, <1>7, <2>0 DEF Voice!Publish
  <2>2. /\ f \in Voice!Futures /\ resolved[f] = None
        /\ asking[f].stage # "none" /\ asking[f].request = r
    BY <1>2, <1>3, <1>7, <2>0 DEF VoiceInv, FuturesBelong, VoicesTyped
  <2>3. VoicesTyped'
    BY <1>1, <1>2, <1>3, <2>1, <2>2 DEF VoicesTyped
  <2>4. /\ resolved'[f] = u /\ \A g \in Voice!Futures \ {f} : resolved'[g] = resolved[g]
        /\ waiting'[r] = None /\ \A q \in Voice!RequestIds \ {r} : waiting'[q] = waiting[q]
    BY <1>2, <1>3, <2>1, <2>2 DEF VoicesTyped
  <2>5. FuturesBelong'
    <3>1. \A q \in Voice!RequestIds : waiting'[q] # None =>
            /\ asking[waiting'[q]].stage # "none" /\ asking[waiting'[q]].request = q
            /\ resolved'[waiting'[q]] = None
      BY <1>3, <2>2, <2>4 DEF VoiceInv, FuturesBelong, VoicesTyped
    <3>2. QED
      BY <1>1, <3>1 DEF VoiceInv, FuturesBelong
  <2>6. ResultsAreHeard'
    <3>1. \A g \in Voice!Futures : resolved'[g] # None =>
            asking[g].stage # "none" /\ Heard(resolved[g], asking[g].request)'
      <4> SUFFICES ASSUME NEW g \in Voice!Futures, resolved'[g] # None
                   PROVE  asking[g].stage # "none" /\ Heard(resolved[g], asking[g].request)'
        OBVIOUS
      <4>1. CASE g = f
        BY <1>1, <1>2, <2>2, <2>4, <4>1 DEF Heard
      <4>2. CASE g # f
        BY <1>1, <1>3, <1>6, <2>4, <4>2
           DEF VoiceInv, ResultsAreHeard, VoicesTyped, Voice!Futures, Heard
      <4>3. QED
        BY <4>1, <4>2
    <3>2. \A i \in 1 .. Len(results) : Heard(results[i].by, results[i].request)'
      BY <1>2, <1>3, <2>1, CachedAreResults DEF VoiceInv, ResultsAreHeard
    <3>3. QED
      BY <1>1, <1>61, <2>1, <3>1, <3>2 DEF ResultsAreHeard, Heard
  <2>7. OnePlace'
    <3>1. \A g, h \in Voice!Futures : resolved'[g] = resolved'[h] => resolved'[g] = None \/ g = h
      BY <1>4, <2>4 DEF VoiceInv, OnePlace, Voice!Futures
    <3>2. \A i \in 1 .. Len(results) :
            /\ \A g \in Voice!Futures : resolved'[g] # results[i].by
            /\ \A v \in Utterances : asking[v].by # results[i].by
      BY <1>5, <2>4 DEF VoiceInv, OnePlace
    <3>3. \A v, w \in Utterances :
            asking[v].by # None /\ task[w] # None /\ asking[v].by = resolved'[task[w]]
            /\ asking[w].stage = "asking"
              => EarlierStopped(v, w)
      BY <1>3, <1>4, <2>4 DEF VoiceInv, OnePlace, VoicesTyped
    <3>4. QED
      BY <1>1, <2>1, <3>1, <3>2, <3>3 DEF OnePlace, EarlierStopped
  <2>8. QED
    BY <1>2, <2>3, <2>5, <2>6, <2>7 DEF VoiceInv
<1>8. CASE waiting[r] = None
  <2> DEFINE e == [request |-> r, by |-> u]
  <2>1. /\ results' = Voice!Evicted(Append(Voice!Without(r), e))
        /\ UNCHANGED <<resolved, waiting>>
    BY <1>0, <1>8 DEF Voice!Publish
  <2>2. e \in Results /\ e.request = r /\ e.by = u
    BY <1>2 DEF Results
  <2>3. /\ results' \in Seq(Results) /\ OnePerId(results')
        /\ \A k \in 1 .. Len(results') :
             results'[k] = e \/ \E i \in 1 .. Len(results) : results'[k] = results[i]
    BY <1>3, <2>1, <2>2, CacheAdds DEF VoicesTyped
  <2> HIDE DEF e
  <2>4. VoicesTyped'
    BY <1>1, <1>2, <1>3, <2>1, <2>3 DEF VoicesTyped
  <2>5. FuturesBelong'
    BY <1>1, <2>1 DEF VoiceInv, FuturesBelong
  <2>6. ResultsAreHeard'
    <3>1. \A k \in 1 .. Len(results') : Heard(results[k].by, results[k].request)'
      <4> SUFFICES ASSUME NEW k \in 1 .. Len(results')
                   PROVE  Heard(results[k].by, results[k].request)'
        OBVIOUS
      <4>1. CASE results'[k] = e
        BY <1>2, <2>2, <4>1 DEF Heard
      <4>2. ASSUME NEW i \in 1 .. Len(results), results'[k] = results[i]
            PROVE  Heard(results[k].by, results[k].request)'
        BY <1>2, <1>3, <4>2, CachedAreResults DEF VoiceInv, ResultsAreHeard, Heard
      <4>3. QED
        BY <2>3, <4>1, <4>2
    <3>2. \A g \in Voice!Futures : resolved[g] # None =>
            asking[g].stage # "none" /\ Heard(resolved[g], asking[g].request)'
      BY <1>1, <1>3, <1>6, <2>1 DEF VoiceInv, ResultsAreHeard, VoicesTyped, Voice!Futures, Heard
    <3>3. QED
      BY <1>1, <1>61, <2>1, <3>1, <3>2 DEF ResultsAreHeard, Heard
  <2>7. OnePlace'
    <3>1. \A k \in 1 .. Len(results') :
            /\ \A g \in Voice!Futures : resolved[g] # results'[k].by
            /\ \A v \in Utterances : asking[v].by # results'[k].by
      BY <1>4, <2>2, <2>3 DEF VoiceInv, OnePlace, Voice!Futures
    <3>2. QED
      BY <1>1, <2>1, <3>1 DEF VoiceInv, OnePlace, EarlierStopped
  <2>8. QED
    BY <1>2, <2>4, <2>5, <2>6, <2>7 DEF VoiceInv
<1>9. QED
  BY <1>7, <1>8

-----------------------------------------------------------------------------
(* A turn resolves, by a voice only if that is the result of the future it *)
(* waited for; tasks end and futures are unregistered.                     *)
LEMMA TurnResolves ==
  ASSUME VoiceInv, Voice!CorrelationAssumption,
         NEW u \in Utterances, NEW by \in Utterances \cup {None},
         Voice!Resolve(u, by),
         UNCHANGED task \/ task' = [task EXCEPT ![u] = None],
         waiting' \in [Voice!RequestIds -> Voice!Futures \cup {None}],
         \A r \in Voice!RequestIds : waiting'[r] \in {waiting[r], None},
         UNCHANGED <<active, pipeline, capture, resolved, results>>,
         asking[u].stage = "asking" /\ by # None => task[u] # None /\ by = resolved[task[u]]
  PROVE  VoiceInv'
<1>1. VoicesTyped
  BY DEF VoiceInv
<1>2. /\ \A v \in Utterances \ {u} : asking'[v] = asking[v]
      /\ \A v \in Utterances : asking'[v].request = asking[v].request
      /\ \A v \in Utterances : (asking'[v].stage = "none") <=> (asking[v].stage = "none")
      /\ \A v \in Utterances : asking'[v].stage = "asking" => asking'[v] = asking[v]
      /\ \A v \in Utterances : asking'[v].by = asking[v].by
           \/ /\ v = u /\ asking[u].stage = "asking"
              /\ asking'[u].stage = "resolved" /\ asking'[u].by = by
      /\ asking' \in [Utterances -> Askings]
  <2>1. CASE asking[u].stage = "asking"
    <3>1. asking' = [asking EXCEPT ![u] = [asking[u] EXCEPT !.stage = "resolved", !.by = by]]
      BY <1>1, <2>1 DEF Voice!Resolve, VoicesTyped
    <3>2. \A v \in Utterances \ {u} : asking'[v] = asking[v]
      BY <1>1, <3>1 DEF VoicesTyped
    <3>3. /\ asking'[u].stage = "resolved" /\ asking'[u].by = by
          /\ asking'[u].request = asking[u].request
          /\ asking'[u] \in Askings
      <4>1. asking[u] \in Askings /\ asking'[u] = [asking[u] EXCEPT !.stage = "resolved", !.by = by]
        BY <1>1, <3>1 DEF VoicesTyped
      <4>2. QED
        BY <4>1 DEF Askings
    <3>4. asking' \in [Utterances -> Askings]
      BY <1>1, <3>1, <3>3 DEF VoicesTyped
    <3>5. QED
      BY <2>1, <3>2, <3>3, <3>4
  <2>2. CASE asking[u].stage # "asking"
    <3>1. asking' = asking
      BY <2>2 DEF Voice!Resolve
    <3>2. asking' \in [Utterances -> Askings]
      BY <1>1, <3>1 DEF VoicesTyped
    <3>3. QED
      BY <2>2, <3>1, <3>2
  <2>3. QED
    BY <2>1, <2>2
<1>3. \A v \in Utterances : task'[v] = task[v] \/ task'[v] = None
  BY <1>1 DEF VoicesTyped
<1>4. VoicesTyped'
  BY <1>1, <1>2 DEF VoicesTyped
<1>5. \A q \in Voice!RequestIds, k \in Speakers : Of(q, k) => Of(q, k)'
  BY MadeStays
<1>6. SessionsHold' /\ RecordingsCarry'
  BY DEF VoiceInv, SessionsHold, RecordingsCarry, Of, Owner, Made
<1>7. TurnsCarry'
  BY <1>2, <1>3 DEF VoiceInv, TurnsCarry, Of, Owner, Made
<1>8. InOrder'
  BY DEF VoiceInv, InOrder, Voice!Spoken, Voice!Earlier
<1>9. OneWaits'
  BY <1>2 DEF VoiceInv, OneWaits, EarlierStopped
<1>10. FuturesBelong'
  <2>1. \A v \in Utterances : task'[v] # None =>
          asking'[task'[v]].stage # "none" /\ asking'[task'[v]].request = asking'[v].request
    BY <1>1, <1>2, <1>3 DEF VoiceInv, FuturesBelong, VoicesTyped, Voice!Futures
  <2>2. \A q \in Voice!RequestIds : waiting'[q] # None =>
          /\ asking'[waiting'[q]].stage # "none" /\ asking'[waiting'[q]].request = q
          /\ resolved[waiting'[q]] = None
    BY <1>1, <1>2 DEF VoiceInv, FuturesBelong, VoicesTyped, Voice!Futures
  <2>3. QED
    BY <2>1, <2>2 DEF FuturesBelong
<1>11. CASE \A v \in Utterances : asking'[v].by = asking[v].by
  <2>1. ResultsAreHeard'
    <3>1. \A v \in Utterances : asking'[v].by # None => Heard(asking[v].by, asking[v].request)'
      BY <1>2, <1>11 DEF VoiceInv, ResultsAreHeard, Heard
    <3>2. \A f \in Voice!Futures : resolved[f] # None =>
            asking'[f].stage # "none" /\ Heard(resolved[f], asking[f].request)'
      BY <1>2 DEF VoiceInv, ResultsAreHeard, Heard, Voice!Futures
    <3>3. \A i \in 1 .. Len(results) : Heard(results[i].by, results[i].request)'
      BY DEF VoiceInv, ResultsAreHeard, Heard
    <3>4. QED
      BY <3>1, <3>2, <3>3 DEF ResultsAreHeard
  <2>2. OnePlace'
    <3>1. \A v, w \in Utterances :
            asking'[v].by # None /\ task'[w] # None /\ asking'[v].by = resolved[task'[w]]
            /\ asking'[w].stage = "asking"
              => EarlierStopped(v, w)
      BY <1>2, <1>3, <1>11 DEF VoiceInv, OnePlace
    <3>2. QED
      BY <1>11, <3>1 DEF VoiceInv, OnePlace, EarlierStopped
  <2>3. Voice!OneTurnPerVoice'
    BY <1>11 DEF VoiceInv, Voice!OneTurnPerVoice
  <2>4. QED
    BY <1>4, <1>6, <1>7, <1>8, <1>9, <1>10, <2>1, <2>2, <2>3 DEF VoiceInv
<1>12. CASE /\ asking[u].stage = "asking" /\ asking'[u].stage = "resolved" /\ asking'[u].by = by
            /\ by # None
  <2>0. PICK f \in Voice!Futures : f = task[u]
    BY <1>1, <1>12 DEF VoicesTyped
  <2>1. /\ task[u] = f /\ f # None /\ by = resolved[f]
        /\ asking[f].stage # "none" /\ asking[f].request = asking[u].request
    BY <1>12, <2>0 DEF VoiceInv, FuturesBelong
  <2>2. Heard(by, asking[u].request)
    BY <1>12, <2>1 DEF VoiceInv, ResultsAreHeard
  <2>3. \A v \in Utterances \ {u} : asking[v].by = by => EarlierStopped(v, u)
    BY <1>12, <2>1 DEF VoiceInv, OnePlace
  <2>4. ResultsAreHeard'
    BY <1>2, <1>12, <2>2 DEF VoiceInv, ResultsAreHeard, Heard, Voice!Futures
  <2>5. Voice!OneTurnPerVoice'
    <3> SUFFICES ASSUME NEW v \in Utterances, NEW w \in Utterances, v < w,
                        asking'[v].by = asking'[w].by, asking'[v].by # None
                 PROVE  pipeline[v] = "stopped"
      BY DEF Voice!OneTurnPerVoice
    <3>1. v # w
      BY VoiceValues
    <3>2. CASE v = u \/ w = u
      BY <1>2, <1>12, <2>3, <3>1, <3>2 DEF EarlierStopped
    <3>3. CASE v # u /\ w # u
      BY <1>2, <3>3 DEF VoiceInv, Voice!OneTurnPerVoice
    <3>4. QED
      BY <3>2, <3>3
  <2>6. OnePlace'
    <3>1. \A v, w \in Utterances :
            asking'[v].by # None /\ task'[w] # None /\ asking'[v].by = resolved[task'[w]]
            /\ asking'[w].stage = "asking"
              => EarlierStopped(v, w)
      <4> SUFFICES ASSUME NEW v \in Utterances, NEW w \in Utterances, asking'[v].by # None,
                          task'[w] # None, asking'[v].by = resolved[task'[w]],
                          asking'[w].stage = "asking"
                   PROVE  EarlierStopped(v, w)
        OBVIOUS
      <4>1. w # u /\ task[w] = task'[w] /\ asking[w].stage = "asking"
        BY <1>2, <1>3, <1>12
      <4>2. CASE v # u
        BY <1>2, <4>1, <4>2 DEF VoiceInv, OnePlace
      <4>3. CASE v = u
        <5>1. task[w] \in Voice!Futures /\ resolved[task[w]] = resolved[f] /\ resolved[f] # None
          BY <1>1, <1>12, <2>1, <4>1, <4>3 DEF VoicesTyped
        <5>2. task[w] = f
          BY <5>1 DEF VoiceInv, OnePlace
        <5>3. asking[w].request = asking[u].request
          BY <2>1, <4>1, <5>2 DEF VoiceInv, FuturesBelong
        <5>4. QED
          BY <1>12, <4>1, <4>3, <5>3 DEF VoiceInv, OneWaits
      <4>4. QED
        BY <4>2, <4>3
    <3>2. \A i \in 1 .. Len(results) : \A v \in Utterances : asking'[v].by # results[i].by
      <4>1. \A i \in 1 .. Len(results) : by # results[i].by
        BY <2>1 DEF VoiceInv, OnePlace
      <4>2. QED
        BY <1>2, <1>12, <4>1 DEF VoiceInv, OnePlace
    <3>3. QED
      BY <3>1, <3>2 DEF VoiceInv, OnePlace, EarlierStopped
  <2>7. QED
    BY <1>4, <1>6, <1>7, <1>8, <1>9, <1>10, <2>4, <2>5, <2>6 DEF VoiceInv
<1>13. ASSUME asking[u].stage = "asking", by = None
       PROVE  \A v \in Utterances : asking'[v].by = asking[v].by
  <2>1. asking[u].by = None
    BY <1>13 DEF VoiceInv, TurnsCarry
  <2>2. QED
    BY <1>2, <1>13, <2>1
<1>14. QED
  BY <1>2, <1>11, <1>12, <1>13

LEMMA WakeKeeps ==
  ASSUME VoiceInv, Voice!CorrelationAssumption, NEW u \in Utterances, Voice!Wake(u)
  PROVE  VoiceInv'
<1>1. task[u] \in Voice!Futures /\ resolved[task[u]] \in Utterances
  BY DEF Voice!Wake, VoiceInv, VoicesTyped
<1>2. PICK by \in Utterances : by = resolved[task[u]]
  BY <1>1
<1>3. waiting' \in [Voice!RequestIds -> Voice!Futures \cup {None}] /\ waiting' = waiting
  BY DEF Voice!Wake, VoiceInv, VoicesTyped
<1>4. QED
  BY <1>2, <1>3, TurnResolves DEF Voice!Wake

LEMMA TimeoutsKeep ==
  ASSUME VoiceInv, Voice!CorrelationAssumption, NEW u \in Utterances,
         Voice!SinkTimeout(u) \/ Voice!IdentityTimeout(u)
  PROVE  VoiceInv'
<1>1. /\ waiting' \in [Voice!RequestIds -> Voice!Futures \cup {None}]
      /\ \A r \in Voice!RequestIds : waiting'[r] \in {waiting[r], None}
  <2>1. CASE Voice!SinkTimeout(u)
    BY <2>1 DEF Voice!SinkTimeout, Voice!Unregister, VoiceInv, VoicesTyped
  <2>2. CASE Voice!IdentityTimeout(u)
    BY <2>2 DEF Voice!IdentityTimeout, VoiceInv, VoicesTyped
  <2>3. QED
    BY <2>1, <2>2
<1>2. /\ Voice!Resolve(u, None)
      /\ UNCHANGED task \/ task' = [task EXCEPT ![u] = None]
      /\ UNCHANGED <<active, pipeline, capture, resolved, results>>
  BY DEF Voice!SinkTimeout, Voice!IdentityTimeout
<1>3. QED
  BY <1>1, <1>2, TurnResolves

-----------------------------------------------------------------------------
(* A turn that waits under the id a new turn is posted with is an earlier  *)
(* one, whose pipeline was stopped.                                        *)
LEMMA StoppedWait ==
  ASSUME VoiceInv, Voice!CorrelationAssumption, NEW u \in Utterances,
         pipeline[u] = "hearing", Voice!Spoken(u), NEW v \in Utterances,
         asking[v].stage = "asking", asking[v].request = Voice!RequestIdFor(u, "posted")
  PROVE  v < u /\ pipeline[v] = "stopped"
<1>1. /\ Owner(asking[v].request) = SpeakerOf[v] /\ Made(asking[v].request)
      /\ pipeline[v] # "hearing" /\ Voice!Spoken(v)
  BY DEF VoiceInv, TurnsCarry, InOrder, Of
<1>2. SpeakerOf[v] = SpeakerOf[u]
  BY <1>1, RequestIdIsOfSpeaker
<1>3. Voice!RequestIdFor(u, "posted") # <<u, "posted">>
  BY <1>1 DEF Made
<1>4. pipeline[v] \in {"posted", "stopped"}
  BY <1>2, <1>3, RequestIdIsOfSpeaker DEF VoiceInv, OneWaits
<1>5. v < u \/ u < v
  BY <1>1, VoiceValues
<1>6. u \notin Voice!Earlier(v)
  BY <1>1 DEF Voice!Spoken
<1>7. v \in Voice!Earlier(u)
  BY <1>2, <1>5, <1>6 DEF Voice!Earlier
<1>8. QED
  BY <1>4, <1>7 DEF Voice!Spoken, Voice!Earlier

(* What a post does whatever identify() finds.                             *)
LEMMA PostCarries ==
  ASSUME VoiceInv, Voice!CorrelationAssumption, NEW u \in Utterances, NEW r,
         r = Voice!RequestIdFor(u, "posted"), Voice!Spoken(u), pipeline[u] = "hearing",
         pipeline' = [pipeline EXCEPT ![u] = "posted"], Voice!Hold(u, "posted"), UNCHANGED capture,
         NEW new \in Askings, asking' = [asking EXCEPT ![u] = new],
         new.stage # "none", new.request = r, new.stage = "asking" => new.by = None,
         \A v \in Utterances \ {u} : task'[v] = task[v]
  PROVE  /\ r \in Voice!RequestIds
         /\ asking[u].stage = "none" /\ asking[u].by = None /\ task[u] = None
         /\ asking'[u] = new /\ \A v \in Utterances \ {u} : asking'[v] = asking[v]
         /\ active' \in [Speakers -> Voice!RequestIds \cup {None}]
         /\ pipeline' \in [Utterances -> {"hearing", "posted", "ended", "stopped"}]
         /\ asking' \in [Utterances -> Askings]
         /\ SessionsHold' /\ RecordingsCarry' /\ TurnsCarry' /\ InOrder' /\ OneWaits'
         /\ \A v, w \in Utterances : EarlierStopped(v, w) => EarlierStopped(v, w)'
         /\ \A v \in Utterances : pipeline[v] = "stopped" => pipeline'[v] = "stopped"
<1> DEFINE s == SpeakerOf[u]
<1>1. /\ r \in Voice!RequestIds /\ r # None /\ Owner(r) = s /\ s \in Speakers
      /\ \/ r = active[s] /\ Made(r)
         \/ r = <<u, "posted">> /\ active[s] = None
  BY RequestIdIsOfSpeaker, VoiceValues
<1>2. VoicesTyped
  BY DEF VoiceInv
<1>3. asking[u].stage = "none" /\ asking[u].by = None /\ task[u] = None
  BY DEF VoiceInv, TurnsCarry
<1>4. /\ active' = [active EXCEPT ![s] = r]
      /\ active' \in [Speakers -> Voice!RequestIds \cup {None}]
      /\ active'[s] = r /\ \A k \in Speakers \ {s} : active'[k] = active[k]
  BY <1>1, <1>2 DEF Voice!Hold, Voice!KeyOf, VoicesTyped
<1>5. /\ pipeline' \in [Utterances -> {"hearing", "posted", "ended", "stopped"}]
      /\ pipeline'[u] = "posted" /\ \A v \in Utterances \ {u} : pipeline'[v] = pipeline[v]
  BY <1>2 DEF VoicesTyped
<1>6. /\ asking' \in [Utterances -> Askings]
      /\ asking'[u] = new /\ \A v \in Utterances \ {u} : asking'[v] = asking[v]
  BY <1>2 DEF VoicesTyped
<1>7. \A q \in Voice!RequestIds, k \in Speakers : Of(q, k) => Of(q, k)'
  BY <1>5, MadeStays
<1>8. Of(r, s)'
  <2>1. CASE r = active[s] /\ Made(r)
    BY <1>1, <1>7, <2>1 DEF Of
  <2>2. CASE r = <<u, "posted">>
    BY <1>1, <1>5, <2>2 DEF Of, Owner, Made
  <2>3. QED
    BY <1>1, <2>1, <2>2
<1>9. SessionsHold'
  <2> SUFFICES ASSUME NEW k \in Speakers, active'[k] # None
               PROVE  Of(active[k], k)'
    BY DEF SessionsHold
  <2>1. PICK q : q = active'[k]
    OBVIOUS
  <2>2. CASE k = s
    <3>1. q = r
      BY <1>4, <2>1, <2>2
    <3>2. QED
      BY <1>8, <2>1, <2>2, <3>1 DEF Of, Owner, Made
  <2>3. CASE k # s
    <3>1. q = active[k] /\ q \in Voice!RequestIds /\ Of(q, k)
      BY <1>2, <1>4, <2>1, <2>3 DEF VoiceInv, SessionsHold, VoicesTyped
    <3>2. QED
      BY <1>7, <2>1, <3>1 DEF Of, Owner, Made
  <2>4. QED
    BY <2>2, <2>3
<1>10. RecordingsCarry'
  <2> SUFFICES ASSUME NEW v \in Utterances, capture[v].stage # "none"
               PROVE  capture[v].request # None /\ Of(capture[v].request, SpeakerOf[v])'
    BY DEF RecordingsCarry, Of, Owner, Made
  <2>1. PICK q : q = capture[v].request
    OBVIOUS
  <2>2. q \in Voice!RequestIds /\ q # None /\ Of(q, SpeakerOf[v])
    BY <1>2, <2>1 DEF VoiceInv, RecordingsCarry, VoicesTyped
  <2>3. QED
    BY <1>7, <2>1, <2>2, VoiceValues DEF Of, Owner, Made
<1>11. TurnsCarry'
  <2> SUFFICES ASSUME NEW v \in Utterances
               PROVE  (IF asking[v].stage = "none" THEN asking[v].by = None /\ task[v] = None
                       ELSE /\ pipeline[v] # "hearing"
                            /\ asking[v].request # None /\ Of(asking[v].request, SpeakerOf[v])
                            /\ asking[v].stage = "asking" => asking[v].by = None)'
    BY DEF TurnsCarry
  <2>1. CASE v = u
    BY <1>1, <1>5, <1>6, <1>8, <2>1 DEF Of, Owner, Made
  <2>2. CASE v # u
    <3>1. PICK q : q = asking[v].request
      OBVIOUS
    <3>2. asking[v].stage # "none" =>
            q \in Voice!RequestIds /\ q # None /\ Of(q, SpeakerOf[v]) /\ pipeline[v] # "hearing"
      BY <1>2, <3>1 DEF VoiceInv, TurnsCarry, VoicesTyped, Askings
    <3>3. asking'[v] = asking[v] /\ pipeline'[v] = pipeline[v] /\ task'[v] = task[v]
      BY <1>5, <1>6, <2>2
    <3>4. asking[v].stage # "none" => Of(q, SpeakerOf[v])'
      BY <1>7, <3>2, VoiceValues
    <3>5. /\ asking[v].stage = "none" => asking[v].by = None /\ task[v] = None
          /\ asking[v].stage = "asking" => asking[v].by = None
      BY DEF VoiceInv, TurnsCarry
    <3>6. QED
      BY <3>1, <3>2, <3>3, <3>4, <3>5 DEF Of, Owner, Made
  <2>3. QED
    BY <2>1, <2>2
<1>12. InOrder'
  <2> SUFFICES ASSUME NEW v \in Utterances, pipeline'[v] # "hearing", NEW w \in Voice!Earlier(v)
               PROVE  pipeline'[w] \in {"ended", "stopped"}
    BY DEF InOrder, Voice!Spoken, Voice!Earlier
  <2>1. pipeline[w] \in {"ended", "stopped"}
    BY <1>5 DEF VoiceInv, InOrder, Voice!Spoken
  <2>2. QED
    BY <1>5, <2>1 DEF Voice!Earlier
<1>13. \A v, w \in Utterances : EarlierStopped(v, w) => EarlierStopped(v, w)'
  BY <1>5 DEF EarlierStopped
<1>14. OneWaits'
  <2>1. \A v \in Utterances \ {u} : asking'[v].stage = "asking" =>
          /\ asking[v].stage = "asking" /\ asking'[v] = asking[v]
          /\ asking[v].request = r => v < u /\ pipeline[v] = "stopped"
    BY <1>6, StoppedWait
  <2>2. ASSUME NEW v \in Utterances, asking'[v].stage = "asking",
               active'[SpeakerOf[v]] = asking'[v].request
        PROVE  pipeline'[v] \in {"posted", "stopped"}
    <3>1. CASE v = u
      BY <1>5, <3>1
    <3>2. CASE v # u /\ SpeakerOf[v] = s
      BY <1>4, <1>5, <2>1, <2>2, <3>2
    <3>3. CASE v # u /\ SpeakerOf[v] # s
      <4>1. active[SpeakerOf[v]] = asking[v].request /\ asking[v].stage = "asking"
        BY <1>4, <2>1, <2>2, <3>3, VoiceValues
      <4>2. QED
        BY <1>5, <3>3, <4>1 DEF VoiceInv, OneWaits
    <3>4. QED
      BY <3>1, <3>2, <3>3
  <2>3. ASSUME NEW v \in Utterances, NEW w \in Utterances, asking'[v].stage = "asking",
               asking'[w].stage = "asking", asking'[w].request = asking'[v].request
        PROVE  EarlierStopped(v, w)'
    <3>1. CASE v # u /\ w # u
      BY <1>13, <2>1, <2>3, <3>1 DEF VoiceInv, OneWaits
    <3>2. CASE v = u /\ w # u
      <4>1. w < u /\ pipeline[w] = "stopped"
        BY <1>6, <2>1, <2>3, <3>2
      <4>2. QED
        BY <1>5, <3>2, <4>1, VoiceValues DEF EarlierStopped
    <3>3. CASE v # u /\ w = u
      <4>1. v < u /\ pipeline[v] = "stopped"
        BY <1>6, <2>1, <2>3, <3>3
      <4>2. QED
        BY <1>5, <3>3, <4>1, VoiceValues DEF EarlierStopped
    <3>4. CASE v = u /\ w = u
      BY <3>4, VoiceValues DEF EarlierStopped
    <3>5. QED
      BY <3>1, <3>2, <3>3, <3>4
  <2>4. QED
    BY <2>2, <2>3 DEF OneWaits
<1>15. \A v \in Utterances : pipeline[v] = "stopped" => pipeline'[v] = "stopped"
  BY <1>5
<1>16. QED
  BY <1>1, <1>3, <1>4, <1>5, <1>6, <1>9, <1>10, <1>11, <1>12, <1>13, <1>14, <1>15

(* A turn is posted: the cached result of its id is in no other place, and *)
(* the future it waits for has no result.                                  *)
LEMMA PostKeeps ==
  ASSUME VoiceInv, Voice!CorrelationAssumption, NEW u \in Utterances, Voice!Post(u)
  PROVE  VoiceInv'
<1>0. PICK r : r = Voice!RequestIdFor(u, "posted")
  OBVIOUS
<1>1. VoicesTyped
  BY DEF VoiceInv
<1>2. /\ Voice!Spoken(u) /\ pipeline[u] = "hearing" /\ Voice!Hold(u, "posted")
      /\ pipeline' = [pipeline EXCEPT ![u] = "posted"]
      /\ UNCHANGED <<capture, resolved>> /\ Voice!Ask(u, r)
  BY <1>0 DEF Voice!Post
<1>3. r \in Voice!RequestIds
  BY <1>0, RequestIdIsOfSpeaker
<1>4. ASSUME NEW i \in Voice!Cached(r),
             asking' = [asking EXCEPT ![u] = [stage |-> "resolved", request |-> r,
                                          by |-> results[i].by]],
             results' = Voice!Claim(r), UNCHANGED <<task, waiting>>
      PROVE  VoiceInv'
  <2>0. PICK b : b = results[i].by
    OBVIOUS
  <2> DEFINE new == [stage |-> "resolved", request |-> r, by |-> b]
  <2>1. i \in 1 .. Len(results) /\ results[i].request = r /\ b \in Utterances /\ b # None
    BY <1>1, <2>0, CachedAreResults, VoiceValues DEF Voice!Cached
  <2>2. new \in Askings /\ new.stage = "resolved" /\ new.request = r /\ new.by = b
    BY <1>3, <2>1 DEF Askings
  <2>3. asking' = [asking EXCEPT ![u] = new]
    BY <1>4, <2>0
  <2> HIDE DEF new
  <2>4. /\ asking[u].stage = "none" /\ asking[u].by = None /\ task[u] = None
        /\ asking'[u] = new /\ \A v \in Utterances \ {u} : asking'[v] = asking[v]
        /\ active' \in [Speakers -> Voice!RequestIds \cup {None}]
        /\ pipeline' \in [Utterances -> {"hearing", "posted", "ended", "stopped"}]
        /\ asking' \in [Utterances -> Askings]
        /\ SessionsHold' /\ RecordingsCarry' /\ TurnsCarry' /\ InOrder' /\ OneWaits'
        /\ \A v, w \in Utterances : EarlierStopped(v, w) => EarlierStopped(v, w)'
        /\ \A v \in Utterances : pipeline[v] = "stopped" => pipeline'[v] = "stopped"
    BY <1>0, <1>2, <1>4, <2>2, <2>3, PostCarries
  <2>5. /\ results' \in Seq(Results) /\ OnePerId(results')
        /\ \A k \in 1 .. Len(results') :
             results'[k].request # r /\ \E j \in 1 .. Len(results) : results'[k] = results[j]
    BY <1>1, <1>4, PopKeepsTheOthers DEF Voice!Claim, VoicesTyped
  <2>6. VoicesTyped'
    BY <1>1, <1>2, <1>4, <2>4, <2>5 DEF VoicesTyped
  <2>7. Heard(b, r)
    BY <2>0, <2>1 DEF VoiceInv, ResultsAreHeard
  <2>8. /\ \A f \in Voice!Futures : resolved[f] # b
        /\ \A v \in Utterances : asking[v].by # b
    BY <2>0, <2>1 DEF VoiceInv, OnePlace
  <2>9. FuturesBelong'
    <3>1. \A v \in Utterances : asking[v].stage # "none" => asking'[v] = asking[v]
      BY <2>4
    <3>2. \A v \in Utterances : task[v] # None => v # u /\ task[v] \in Utterances
      BY <1>1, <2>4 DEF VoicesTyped, Voice!Futures
    <3>3. \A q \in Voice!RequestIds : waiting[q] # None => waiting[q] \in Utterances
      BY <1>1 DEF VoicesTyped, Voice!Futures
    <3>4. \A v \in Utterances : task[v] # None =>
            asking'[task[v]].stage # "none" /\ asking'[task[v]].request = asking'[v].request
      BY <2>4, <3>1, <3>2 DEF VoiceInv, FuturesBelong
    <3>5. \A q \in Voice!RequestIds : waiting[q] # None =>
            /\ asking'[waiting[q]].stage # "none" /\ asking'[waiting[q]].request = q
            /\ resolved[waiting[q]] = None
      BY <3>1, <3>3 DEF VoiceInv, FuturesBelong
    <3>6. QED
      BY <1>2, <1>4, <3>4, <3>5 DEF FuturesBelong
  <2>10. ResultsAreHeard'
    <3>1. \A f \in Voice!Futures : resolved[f] # None =>
            asking'[f].stage # "none" /\ Heard(resolved[f], asking[f].request)'
      BY <1>2, <2>4 DEF VoiceInv, ResultsAreHeard, Heard, Voice!Futures
    <3>2. \A k \in 1 .. Len(results') : Heard(results[k].by, results[k].request)'
      BY <1>2, <2>5 DEF VoiceInv, ResultsAreHeard, Heard
    <3>3. \A v \in Utterances : asking'[v].by # None => Heard(asking[v].by, asking[v].request)'
      BY <1>2, <2>2, <2>4, <2>7 DEF VoiceInv, ResultsAreHeard, Heard
    <3>4. QED
      BY <1>2, <3>1, <3>2, <3>3 DEF ResultsAreHeard
  <2>11. \A k \in 1 .. Len(results') : results'[k].by # b
    <3> SUFFICES ASSUME NEW k \in 1 .. Len(results'), results'[k].by = b
                 PROVE  FALSE
      OBVIOUS
    <3>1. PICK j \in 1 .. Len(results) : results'[k] = results[j]
      BY <2>5
    <3>2. Heard(b, results[j].request)
      BY <3>1 DEF VoiceInv, ResultsAreHeard
    <3>3. results'[k].request = r
      BY <2>7, <3>1, <3>2 DEF Heard
    <3>4. QED
      BY <2>5, <3>3
  <2>12. OnePlace'
    <3>1. \A k \in 1 .. Len(results') :
            /\ \A f \in Voice!Futures : resolved[f] # results'[k].by
            /\ \A v \in Utterances : asking'[v].by # results'[k].by
      <4> SUFFICES ASSUME NEW k \in 1 .. Len(results')
                   PROVE  /\ \A f \in Voice!Futures : resolved[f] # results'[k].by
                          /\ \A v \in Utterances : asking'[v].by # results'[k].by
        OBVIOUS
      <4>1. PICK j \in 1 .. Len(results) : results'[k] = results[j]
        BY <2>5
      <4>2. /\ \A f \in Voice!Futures : resolved[f] # results'[k].by
            /\ \A v \in Utterances : asking[v].by # results'[k].by
        BY <4>1 DEF VoiceInv, OnePlace
      <4>3. asking'[u].by # results'[k].by
        BY <2>2, <2>4, <2>11
      <4>4. QED
        BY <2>4, <4>2, <4>3
    <3>2. \A v, w \in Utterances :
            asking'[v].by # None /\ task[w] # None /\ asking'[v].by = resolved[task[w]]
            /\ asking'[w].stage = "asking"
              => EarlierStopped(v, w)'
      <4> SUFFICES ASSUME NEW v \in Utterances, NEW w \in Utterances, asking'[v].by # None,
                          task[w] # None, asking'[v].by = resolved[task[w]],
                          asking'[w].stage = "asking"
                   PROVE  EarlierStopped(v, w)'
        OBVIOUS
      <4>1. task[w] \in Voice!Futures
        BY <1>1 DEF VoicesTyped
      <4>2. v # u
        BY <2>2, <2>4, <2>8, <4>1
      <4>3. w # u /\ asking[w].stage = "asking"
        BY <2>2, <2>4
      <4>4. EarlierStopped(v, w)
        BY <2>4, <4>2, <4>3 DEF VoiceInv, OnePlace
      <4>5. QED
        BY <2>4, <4>4
    <3>3. QED
      BY <1>2, <1>4, <3>1, <3>2 DEF VoiceInv, OnePlace
  <2>13. Voice!OneTurnPerVoice'
    <3> SUFFICES ASSUME NEW v \in Utterances, NEW w \in Utterances, v < w,
                        asking'[v].by = asking'[w].by, asking'[v].by # None
                 PROVE  pipeline'[v] = "stopped"
      BY DEF Voice!OneTurnPerVoice
    <3>1. v # w
      BY VoiceValues
    <3>2. v # u /\ w # u
      BY <2>2, <2>4, <2>8, <3>1
    <3>3. QED
      BY <2>4, <3>2 DEF VoiceInv, Voice!OneTurnPerVoice
  <2>14. QED
    BY <2>4, <2>6, <2>9, <2>10, <2>12, <2>13 DEF VoiceInv
<1>5. ASSUME Voice!Cached(r) = {}, NEW f, f = IF waiting[r] # None THEN waiting[r] ELSE u,
             asking' = [asking EXCEPT ![u] = [stage |-> "asking", request |-> r, by |-> None]],
             task' = [task EXCEPT ![u] = f], waiting' = [waiting EXCEPT ![r] = f],
             UNCHANGED results
      PROVE  VoiceInv'
  <2> DEFINE new == [stage |-> "asking", request |-> r, by |-> None]
  <2>1. new \in Askings /\ new.stage = "asking" /\ new.request = r /\ new.by = None
    BY <1>3 DEF Askings
  <2>2. asking' = [asking EXCEPT ![u] = new]
    BY <1>5
  <2> HIDE DEF new
  <2>3. \A v \in Utterances \ {u} : task'[v] = task[v]
    BY <1>1, <1>5 DEF VoicesTyped
  <2>4. /\ asking[u].stage = "none" /\ asking[u].by = None /\ task[u] = None
        /\ asking'[u] = new /\ \A v \in Utterances \ {u} : asking'[v] = asking[v]
        /\ active' \in [Speakers -> Voice!RequestIds \cup {None}]
        /\ pipeline' \in [Utterances -> {"hearing", "posted", "ended", "stopped"}]
        /\ asking' \in [Utterances -> Askings]
        /\ SessionsHold' /\ RecordingsCarry' /\ TurnsCarry' /\ InOrder' /\ OneWaits'
        /\ \A v, w \in Utterances : EarlierStopped(v, w) => EarlierStopped(v, w)'
        /\ \A v \in Utterances : pipeline[v] = "stopped" => pipeline'[v] = "stopped"
    BY <1>0, <1>2, <2>1, <2>2, <2>3, PostCarries
  <2>5. /\ f \in Voice!Futures /\ f # None /\ resolved[f] = None
        /\ asking'[f].stage # "none" /\ asking'[f].request = r
    <3>1. CASE waiting[r] # None
      <4>1. /\ f \in Voice!Futures /\ f # None /\ resolved[f] = None
            /\ asking[f].stage # "none" /\ asking[f].request = r
        BY <1>1, <1>3, <1>5, <3>1 DEF VoiceInv, FuturesBelong, VoicesTyped
      <4>2. QED
        BY <2>4, <4>1 DEF Voice!Futures
    <3>2. CASE waiting[r] = None
      BY <1>5, <2>1, <2>4, <3>2, VoiceValues DEF VoiceInv, ResultsAreHeard, Voice!Futures
    <3>3. QED
      BY <3>1, <3>2
  <2>6. VoicesTyped'
    BY <1>1, <1>2, <1>3, <1>5, <2>4, <2>5 DEF VoicesTyped
  <2>7. /\ task'[u] = f
        /\ waiting'[r] = f /\ \A q \in Voice!RequestIds \ {r} : waiting'[q] = waiting[q]
    BY <1>1, <1>3, <1>5 DEF VoicesTyped
  <2>8. FuturesBelong'
    <3>1. \A v \in Utterances : asking[v].stage # "none" => asking'[v] = asking[v]
      BY <2>4
    <3>2. \A v \in Utterances : task[v] # None => v # u /\ task[v] \in Utterances
      BY <1>1, <2>4 DEF VoicesTyped, Voice!Futures
    <3>3. \A q \in Voice!RequestIds : waiting[q] # None => waiting[q] \in Utterances
      BY <1>1 DEF VoicesTyped, Voice!Futures
    <3>4. \A v \in Utterances : task'[v] # None =>
            asking'[task'[v]].stage # "none" /\ asking'[task'[v]].request = asking'[v].request
      <4> SUFFICES ASSUME NEW v \in Utterances, task'[v] # None
                   PROVE  /\ asking'[task'[v]].stage # "none"
                          /\ asking'[task'[v]].request = asking'[v].request
        OBVIOUS
      <4>1. CASE v = u
        BY <2>1, <2>4, <2>5, <2>7, <4>1
      <4>2. CASE v # u
        <5>1. task'[v] = task[v] /\ asking'[v] = asking[v]
          BY <2>3, <2>4, <4>2
        <5>2. asking[task[v]].stage # "none" /\ asking[task[v]].request = asking[v].request
          BY <5>1 DEF VoiceInv, FuturesBelong
        <5>3. QED
          BY <3>1, <3>2, <5>1, <5>2
      <4>3. QED
        BY <4>1, <4>2
    <3>5. \A q \in Voice!RequestIds : waiting'[q] # None =>
            /\ asking'[waiting'[q]].stage # "none" /\ asking'[waiting'[q]].request = q
            /\ resolved[waiting'[q]] = None
      <4> SUFFICES ASSUME NEW q \in Voice!RequestIds, waiting'[q] # None
                   PROVE  /\ asking'[waiting'[q]].stage # "none" /\ asking'[waiting'[q]].request = q
                          /\ resolved[waiting'[q]] = None
        OBVIOUS
      <4>1. CASE q = r
        BY <2>5, <2>7, <4>1
      <4>2. CASE q # r
        BY <2>7, <3>1, <3>3, <4>2 DEF VoiceInv, FuturesBelong
      <4>3. QED
        BY <4>1, <4>2
    <3>6. QED
      BY <1>2, <3>4, <3>5 DEF FuturesBelong
  <2>9. ResultsAreHeard'
    <3>1. \A g \in Voice!Futures : resolved[g] # None =>
            asking'[g].stage # "none" /\ Heard(resolved[g], asking[g].request)'
      BY <1>2, <2>4 DEF VoiceInv, ResultsAreHeard, Heard, Voice!Futures
    <3>2. \A k \in 1 .. Len(results) : Heard(results[k].by, results[k].request)'
      BY <1>2, <1>5 DEF VoiceInv, ResultsAreHeard, Heard
    <3>3. \A v \in Utterances : asking'[v].by # None => Heard(asking[v].by, asking[v].request)'
      BY <1>2, <2>1, <2>4 DEF VoiceInv, ResultsAreHeard, Heard
    <3>4. QED
      BY <1>2, <1>5, <3>1, <3>2, <3>3 DEF ResultsAreHeard
  <2>10. \A v \in Utterances : asking'[v].by = asking[v].by
    BY <2>1, <2>4
  <2>11. OnePlace'
    <3>1. \A v, w \in Utterances :
            asking'[v].by # None /\ task'[w] # None /\ asking'[v].by = resolved[task'[w]]
            /\ asking'[w].stage = "asking"
              => EarlierStopped(v, w)'
      <4> SUFFICES ASSUME NEW v \in Utterances, NEW w \in Utterances, asking'[v].by # None,
                          task'[w] # None, asking'[v].by = resolved[task'[w]],
                          asking'[w].stage = "asking"
                   PROVE  EarlierStopped(v, w)'
        OBVIOUS
      <4>1. w # u
        BY <2>5, <2>7, <2>10
      <4>2. task[w] = task'[w] /\ asking[w].stage = "asking" /\ asking[v].by = asking'[v].by
        BY <2>3, <2>4, <2>10, <4>1
      <4>3. EarlierStopped(v, w)
        BY <4>2 DEF VoiceInv, OnePlace
      <4>4. QED
        BY <2>4, <4>3
    <3>2. \A k \in 1 .. Len(results) :
            /\ \A g \in Voice!Futures : resolved[g] # results[k].by
            /\ \A v \in Utterances : asking'[v].by # results[k].by
      BY <2>10 DEF VoiceInv, OnePlace
    <3>3. QED
      BY <1>2, <1>5, <3>1, <3>2 DEF VoiceInv, OnePlace
  <2>12. Voice!OneTurnPerVoice'
    BY <2>4, <2>10 DEF VoiceInv, Voice!OneTurnPerVoice
  <2>13. QED
    BY <2>4, <2>6, <2>8, <2>9, <2>11, <2>12 DEF VoiceInv
<1>6. QED
  BY <1>2, <1>4, <1>5 DEF Voice!Ask

-----------------------------------------------------------------------------
LEMMA NextVoiceInv ==
  ASSUME VoiceInv, Voice!CorrelationAssumption, [Voice!Next]_Voice!vars
  PROVE  VoiceInv'
<1>1. \A u \in Utterances : SpeakerOf[u] \in Speakers
  BY VoiceValues
<1>2. ASSUME NEW u \in Utterances,
             \/ Voice!Unheard(u) \/ Voice!PostExpired(u)
             \/ Voice!GiveUp(u) \/ Voice!Stop(u)
             \/ \E clarify \in BOOLEAN : Voice!Answer(u, clarify)
      PROVE  VoiceInv'
  <2>1. pipeline[u] # "hearing" => Voice!Spoken(u)
    BY DEF VoiceInv, InOrder
  <2>2. asking[u].stage = "none" \/ pipeline[u] # "hearing"
    BY DEF VoiceInv, TurnsCarry
  <2>3. PICK last \in {"ended", "stopped"} :
          /\ pipeline' = [pipeline EXCEPT ![u] = last] /\ Voice!Spoken(u)
          /\ pipeline[u] \in {"hearing", "posted"}
          /\ UNCHANGED <<capture, asking, task, waiting, resolved, results>>
          /\ \/ UNCHANGED active /\ (asking[u].stage # "asking" \/ last = "stopped")
             \/ Voice!Release(SpeakerOf[u])
    BY <1>2, <2>1, <2>2
       DEF Voice!Unheard, Voice!PostExpired, Voice!Answer, Voice!GiveUp, Voice!Stop, Voice!KeyOf
  <2>4. QED
    BY <1>1, <2>3, PipelinesStep
<1>3. ASSUME NEW s \in Speakers, Voice!Expire(s)
      PROVE  VoiceInv'
  BY <1>3, PipelinesStep DEF Voice!Expire
<1>4. CASE UNCHANGED Voice!vars
  BY <1>4 DEF Voice!vars, VoiceInv, VoicesTyped, SessionsHold, RecordingsCarry, TurnsCarry,
              InOrder, Voice!Spoken, Voice!Earlier, OneWaits, FuturesBelong, ResultsAreHeard,
              Heard, OnePlace, EarlierStopped,
              Voice!OneTurnPerVoice, Of, Owner, Made
<1>5. QED
  BY <1>2, <1>3, <1>4, StartCaptureKeeps, DropKeeps, PublishKeeps, PostKeeps, WakeKeeps,
     TimeoutsKeep DEF Voice!Next

LEMMA InitVoiceInv ==
  ASSUME Voice!Init, Voice!CorrelationAssumption
  PROVE  VoiceInv
<1>1. results \in Seq(Results) /\ Len(results) = 0
  BY EmptySeq DEF Voice!Init
<1>2. VoicesTyped
  BY <1>1 DEF Voice!Init, VoicesTyped, Askings, OnePerId, Voice!CorrelationAssumption, Voice!Futures
<1>3. SessionsHold /\ RecordingsCarry /\ TurnsCarry /\ InOrder /\ OneWaits /\ FuturesBelong
  BY DEF Voice!Init, SessionsHold, RecordingsCarry, TurnsCarry, InOrder, OneWaits,
         FuturesBelong, Voice!Futures
<1>4. ResultsAreHeard /\ OnePlace /\ Voice!OneTurnPerVoice
  BY <1>1 DEF Voice!Init, ResultsAreHeard, OnePlace, Voice!OneTurnPerVoice, Voice!Futures
<1>5. QED
  BY <1>2, <1>3, <1>4 DEF VoiceInv

LEMMA VoiceInvHolds == ASSUME Voice!CorrelationAssumption PROVE Voice!Spec => []VoiceInv
<1>1. Voice!Init => VoiceInv
  BY InitVoiceInv
<1>2. VoiceInv /\ [Voice!Next]_Voice!vars => VoiceInv'
  BY NextVoiceInv
<1>3. QED
  BY <1>1, <1>2, PTL DEF Voice!Spec

(* The state keeps its shape, and the cache its limit and one result per   *)
(* request id.                                                             *)
THEOREM VoicesTypeCorrect == Voice!Spec => []Voice!TypeOK
<1>1. VoiceInv => Voice!TypeOK
  <2> SUFFICES ASSUME VoiceInv PROVE Voice!TypeOK
    OBVIOUS
  <2>1. \A i \in 1 .. Len(results) : results[i] \in Results
    BY ElementOfSeq DEF VoiceInv, VoicesTyped
  <2>2. QED
    BY <2>1 DEF VoiceInv, VoicesTyped, Voice!TypeOK, Askings, OnePerId, Results
<1>2. QED
  BY <1>1, VoiceInvHolds, VoiceAssumption, PTL

(* A turn is decided by the voice of its own speaker and its own request   *)
(* id, whatever the order in which recordings, turns and timeouts come.    *)
THEOREM VoicesBelong == Voice!Spec => []VoicesOfTheirSpeakers
<1>1. VoiceInv => VoicesOfTheirSpeakers
  <2> SUFFICES ASSUME VoiceInv, NEW u \in Utterances, asking[u].by # None
               PROVE  /\ SpeakerOf[asking[u].by] = SpeakerOf[u]
                      /\ capture[asking[u].by].request = asking[u].request
    BY DEF VoicesOfTheirSpeakers, Voice!VoicesOfTheirSpeakers
  <2>1. asking[u].by \in Utterances /\ asking[u].stage # "none"
    BY TurnsHaveIds DEF VoiceInv, VoicesTyped, Askings
  <2>2. capture[asking[u].by].stage = "over" /\ capture[asking[u].by].request = asking[u].request
    BY DEF VoiceInv, ResultsAreHeard, Heard
  <2>3. Owner(capture[asking[u].by].request) = SpeakerOf[asking[u].by]
    BY <2>1, <2>2 DEF VoiceInv, RecordingsCarry, Of
  <2>4. Owner(asking[u].request) = SpeakerOf[u]
    BY <2>1 DEF VoiceInv, TurnsCarry, Of
  <2>5. QED
    BY <2>2, <2>3, <2>4
<1>2. QED
  BY <1>1, VoiceInvHolds, VoiceAssumption, PTL

(* A recording decides one turn at most that anybody waits for, although   *)
(* the turns of a clarification, and of a pipeline that was stopped, share *)
(* its request id and may share a future.                                  *)
THEOREM VoicesDecideOnce == Voice!Spec => []OneTurnPerVoice
<1>1. VoiceInv => OneTurnPerVoice
  BY DEF VoiceInv, OneTurnPerVoice
<1>2. QED
  BY <1>1, VoiceInvHolds, VoiceAssumption, PTL
=============================================================================
