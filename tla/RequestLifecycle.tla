-------------------------- MODULE RequestLifecycle --------------------------
(***************************************************************************)
(* The Router's synchronous request lifecycle: RequestLifecycleService     *)
(* over the SQLite table request_states.  One POST /v1/requests is a turn; *)
(* every turn is a coroutine of one event loop, so the code between two    *)
(* real suspensions (the identity wait, the Context, Skills, Memory and    *)
(* LLM calls) is one atomic step here, and turns interleave only at those  *)
(* suspensions.  A turn reads the row of its request when it starts and    *)
(* writes it when it settles.                                              *)
(***************************************************************************)
EXTENDS Naturals, FiniteSets

CONSTANTS
  Turns,        \* executions of POST /v1/requests, one trace_id each
  Requests,     \* request_id values
  Sessions,     \* session_id values
  Users,        \* personal user ids ("guest" is not one of them)
  Sources,      \* source ids (speakers, the Assist pipeline)
  SourceOf,     \* the source a session belongs to
  Posts,        \* the (request id, session id) pairs that may be posted
  Timeout,      \* clarification_timeout_seconds, in clock ticks
  MaxTime,      \* bound: the clock stops here
  MaxInFlight,  \* bound: turns that may be in flight together
  Overlap,      \* may an ingress post a request id that is in flight?
  Guest,        \* the user id "guest"
  None          \* Python's None

ASSUME ConstantsAssumption ==
  /\ SourceOf \in [Sessions -> Sources]
  /\ IsFiniteSet(Requests)    \* they are UUIDs
  /\ Posts \subseteq Requests \X Sessions
  /\ Timeout \in Nat \ {0}
  /\ MaxTime \in Nat
  /\ MaxInFlight \in Nat
  /\ Overlap \in BOOLEAN
  /\ Guest \notin Users
  /\ None \notin Turns \cup Users \cup Nat \cup {Guest}

VARIABLES
  now,      \* the Router's clock
  store,    \* the table request_states
  turn,     \* the local state of every turn
  shown,    \* the request whose WAITING_CLARIFICATION a source shows
  heard     \* history: users identified in a session, biometrically or by HA

vars == <<now, store, turn, shown, heard>>

-----------------------------------------------------------------------------
Settled == {"COMPLETED", "CLOSED", "FAILED"}
Decisions == Settled \cup {"NEEDS_CLARIFICATION"}
Statuses == Decisions \cup {"EXPIRED"}

(* How a turn ended: the HTTP status field, 409 ("CONFLICT"), an exception *)
(* of a downstream call ("ERROR"), the primary key violation of its INSERT *)
(* ("DUPLICATE"), or the death of the process ("LOST").                    *)
Answers == Statuses \cup {"CONFLICT", "ERROR", "DUPLICATE", "LOST"}

InFlightStages == {"identify", "prepare", "semantic", "act"}

(* The timestamp columns are compared as text.  isoformat() writes an      *)
(* instant with the suffix +00:00 and pydantic's JSON mode with Z, which   *)
(* sorts after it: the same instant has two ranks.                         *)
Iso(t) == 2 * t
Zulu(t) == 2 * t + 1

NoRow == [exists |-> FALSE]

Rows == [exists: {TRUE}, session: Sessions, status: Statuses,
         user: Users \cup {Guest}, trusted: Users \cup {None},
         trace: Turns, pending: Turns \cup {None},
         updated: Nat, expires: Nat \cup {None}, rowid: Nat]

Idle == [stage |-> "idle"]

(* IdentityResolutionSource                                                *)
Provenance == {"TRUSTED_HA_IDENTITY", "SPEAKER_IDENTIFICATION", "SESSION_CONTINUITY",
               "GUEST_FALLBACK"}

(* The locals of a turn in flight ...                                      *)
Live ==
  [stage: InFlightStages, request: Requests, session: Sessions, began: Nat,
   row: Rows \cup {NoRow}, trusted: Users \cup {None}, user: Users \cup {None, Guest},
   source: Provenance, ran: BOOLEAN]

(* ... and what is left of them: the answer, of a turn that wrote its row  *)
(* also which pending state it acted on, and of one that asked for a       *)
(* clarification also when it began and whom it trusted.                   *)
Questions == [began: Nat, trusted: Users \cup {None}]

Over ==
  [stage: {"over"}, request: Requests, session: Sessions, answer: Answers \ Decisions]
  \cup
  [stage: {"over"}, request: Requests, session: Sessions, answer: Decisions,
   did: Turns \cup {None}, asked: Questions \cup {None}]

InFlight == {t \in Turns : turn[t].stage \in InFlightStages}
Stored == {r \in Requests : store[r].exists}

(* Definitions named X_Y are faulty forms of X that the properties below   *)
(* must tell from it; no specification uses them.                          *)
expire_due_Late(time) ==
  [r \in Requests |->
     IF /\ store[r].exists
        /\ store[r].status = "NEEDS_CLARIFICATION"
        /\ store[r].expires # None
        /\ store[r].expires + Iso(1) <= Iso(time)
     THEN [store[r] EXCEPT !.status = "EXPIRED", !.updated = Iso(time)]
     ELSE store[r]]

(* expire_due: every pending row whose deadline has passed becomes EXPIRED *)
(* and is stamped with the current time.                                   *)
expire_due(time) ==
  [r \in Requests |->
     IF /\ store[r].exists
        /\ store[r].status = "NEEDS_CLARIFICATION"
        /\ store[r].expires # None
        /\ store[r].expires <= Iso(time)
     THEN [store[r] EXCEPT !.status = "EXPIRED", !.updated = Iso(time)]
     ELSE store[r]]

(* A row is newer than another by ORDER BY updated_at DESC, rowid DESC.    *)
Newer(a, b) ==
  \/ a.updated > b.updated
  \/ a.updated = b.updated /\ a.rowid > b.rowid

get_latest_for_session_AnySession(db, s) ==
  IF Stored = {} THEN {NoRow}
  ELSE {db[r] : r \in {a \in Stored : \A b \in Stored \ {a} : Newer(db[a], db[b])}}

(* get_latest_for_session: the newest row of a session, or none.  The row  *)
(* is unique; the operator gives the set that holds it.                    *)
get_latest_for_session(db, s) ==
  LET mine == {r \in Requests : db[r].exists /\ db[r].session = s}
  IN IF mine = {} THEN {NoRow}
     ELSE {db[r] : r \in {a \in mine : \A b \in mine \ {a} : Newer(db[a], db[b])}}

(* _state: the broker keeps the last interaction state of every source.    *)
(* IDENTIFYING, PROCESSING_LOCAL, PROCESSING_GLOBAL and USING_TOOL all say *)
(* that a turn is at work, and replace a WAITING_CLARIFICATION.            *)
show(s, waiting) == shown' = [shown EXCEPT ![SourceOf[s]] = waiting]

(* A user identified in session s, by its voice or by Home Assistant.      *)
Hear(s, u) == heard' = [heard EXCEPT ![s] = @ \cup ({u} \ {None})]

-----------------------------------------------------------------------------
Init ==
  /\ now = 0
  /\ store = [r \in Requests |-> NoRow]
  /\ turn = [t \in Turns |-> Idle]
  /\ shown = [s \in Sources |-> None]
  /\ heard = [s \in Sessions |-> {}]

(* What the ingress may post now.  With Overlap a conversation sends its   *)
(* next message before the answer to the last one has come back: the Home  *)
(* Assistant session keeps its active request id until then.               *)
MayPost(t, r) ==
  /\ turn[t] = Idle
  /\ Cardinality(InFlight) < MaxInFlight
  /\ Overlap \/ \A o \in InFlight : turn[o].request # r

Ended(r, s, answer) == [stage |-> "over", request |-> r, session |-> s, answer |-> answer]

Refuse(t, r, s) ==
  LET row == expire_due(now)[r]
  IN /\ MayPost(t, r)
     /\ row.exists
     /\ \/ row.session # s
        \/ row.status \notin {"EXPIRED", "NEEDS_CLARIFICATION"}
     /\ store' = expire_due(now)
     /\ turn' = [turn EXCEPT ![t] = Ended(r, s, "CONFLICT")]
     /\ UNCHANGED <<now, shown, heard>>

AnswerExpired(t, r, s) ==
  LET row == expire_due(now)[r]
  IN /\ MayPost(t, r)
     /\ row.exists
     /\ row.session = s
     /\ row.status = "EXPIRED"
     /\ store' = expire_due(now)
     /\ turn' = [turn EXCEPT ![t] = Ended(r, s, "EXPIRED")]
     /\ UNCHANGED <<now, shown, heard>>

(* The identity a turn starts from: the trusted Home Assistant identity of *)
(* the request, or else what its own row says when it resumes, or else the *)
(* latest row of its session when it is new.                               *)
StartingTrust(row, previous, identity) ==
  IF identity # None THEN identity
  ELSE IF row.exists THEN row.trusted
  ELSE IF previous.exists THEN previous.trusted
  ELSE None

StartingUser(row, previous, identity) ==
  IF identity = None /\ row.exists THEN row.user
  ELSE StartingTrust(row, previous, identity)

Started(row, previous, r, s, identity, speaker) ==
  [stage |-> IF speaker THEN "identify" ELSE "prepare",
   request |-> r, session |-> s, began |-> now, row |-> row,
   trusted |-> StartingTrust(row, previous, identity),
   user |-> StartingUser(row, previous, identity),
   source |-> IF identity # None THEN "TRUSTED_HA_IDENTITY" ELSE "GUEST_FALLBACK",
   ran |-> FALSE]

Admit_AnyStatus(t, r, s, identity, speaker) ==
  LET db == expire_due(now)
  IN /\ MayPost(t, r)
     /\ db[r].exists => db[r].session = s
     /\ speaker => identity = None
     /\ store' = db
     /\ \E previous \in get_latest_for_session(db, s) :
          turn' = [turn EXCEPT ![t] = Started(db[r], previous, r, s, identity, speaker)]
     /\ show(s, None)
     /\ Hear(s, identity)
     /\ UNCHANGED now

Admit(t, r, s, identity, speaker) ==
  LET db == expire_due(now)
  IN /\ MayPost(t, r)
     /\ db[r].exists => /\ db[r].session = s
                        /\ db[r].status = "NEEDS_CLARIFICATION"
     /\ speaker => identity = None
     /\ store' = db
     /\ \E previous \in get_latest_for_session(db, s) :
          turn' = [turn EXCEPT ![t] = Started(db[r], previous, r, s, identity, speaker)]
     /\ show(s, None)
     /\ Hear(s, identity)
     /\ UNCHANGED now

-----------------------------------------------------------------------------
Enter(t, stage) == turn' = [turn EXCEPT ![t].stage = stage]

Identify_AskAgain(t, detected) ==
  /\ turn[t].stage = "identify"
  /\ turn' = IF detected = None THEN turn
             ELSE [turn EXCEPT ![t].stage = "prepare", ![t].trusted = detected,
                               ![t].user = detected,
                               ![t].source = "SPEAKER_IDENTIFICATION"]
  /\ show(turn[t].session, None)
  /\ Hear(turn[t].session, detected)
  /\ UNCHANGED <<now, store>>

(* resolve_speaker_identity.  detected is None for NOT_RECOGNIZED, FAILED, *)
(* an exception of the port, and a wait that timed out (whose late result  *)
(* is only logged).                                                        *)
Identify(t, detected) ==
  LET s == turn[t].session
      trusted == IF detected # None THEN detected ELSE turn[t].trusted
  IN /\ turn[t].stage = "identify"
     /\ turn' = [turn EXCEPT ![t].stage = "prepare", ![t].trusted = trusted,
                             ![t].user = IF trusted # None THEN trusted ELSE Guest,
                             ![t].source = IF detected # None THEN "SPEAKER_IDENTIFICATION"
                                           ELSE IF trusted # None THEN "SESSION_CONTINUITY"
                                           ELSE "GUEST_FALLBACK"]
     /\ show(s, None)
     /\ Hear(s, detected)
     /\ UNCHANGED <<now, store>>

(* Context, skills.check and the Memory search answered: run the skill.    *)
(* Only a protected capability announces itself.                           *)
Match(t) ==
  /\ turn[t].stage = "prepare"
  /\ Enter(t, "act")
  /\ \/ show(turn[t].session, None)
     \/ UNCHANGED shown
  /\ UNCHANGED <<now, store, heard>>

Miss(t) ==
  /\ turn[t].stage = "prepare"
  /\ Enter(t, "semantic")
  /\ show(turn[t].session, None)
  /\ UNCHANGED <<now, store, heard>>

(* The semantic interpretation matched a skill, or reasoning takes over.   *)
SemanticMatch(t) ==
  /\ turn[t].stage = "semantic"
  /\ Enter(t, "act")
  /\ \/ show(turn[t].session, None)
     \/ UNCHANGED shown
  /\ UNCHANGED <<now, store, heard>>

(* Skills, or the plan executor of the LLM port, acts on the house.        *)
Act(t) ==
  /\ turn[t].stage = "act"
  /\ ~turn[t].ran
  /\ turn' = [turn EXCEPT ![t].ran = TRUE]
  /\ UNCHANGED <<now, store, shown, heard>>

-----------------------------------------------------------------------------
Outcome_OldTrace(t, status, rowid) ==
  [exists |-> TRUE, session |-> turn[t].session, status |-> status,
   user |-> IF turn[t].user = None THEN Guest ELSE turn[t].user,
   trusted |-> turn[t].trusted, trace |-> IF turn[t].row.exists THEN turn[t].row.trace ELSE t,
   pending |-> IF status = "NEEDS_CLARIFICATION" THEN t ELSE None,
   updated |-> Zulu(turn[t].began),
   expires |-> IF status = "NEEDS_CLARIFICATION" THEN Zulu(turn[t].began + Timeout) ELSE None,
   rowid |-> rowid]

Outcome_OldPending(t, status, rowid) ==
  [exists |-> TRUE, session |-> turn[t].session, status |-> status,
   user |-> IF turn[t].user = None THEN Guest ELSE turn[t].user,
   trusted |-> turn[t].trusted, trace |-> t,
   pending |-> IF status # "NEEDS_CLARIFICATION" THEN None
               ELSE IF turn[t].row.exists THEN turn[t].row.pending ELSE t,
   updated |-> Zulu(turn[t].began),
   expires |-> IF status = "NEEDS_CLARIFICATION" THEN Zulu(turn[t].began + Timeout) ELSE None,
   rowid |-> rowid]

(* The row a settling turn writes, from what it knew when it started.      *)
Outcome(t, status, rowid) ==
  [exists |-> TRUE, session |-> turn[t].session, status |-> status,
   user |-> IF turn[t].user = None THEN Guest ELSE turn[t].user,
   trusted |-> turn[t].trusted, trace |-> t,
   pending |-> IF status = "NEEDS_CLARIFICATION" THEN t ELSE None,
   updated |-> Zulu(turn[t].began),
   expires |-> IF status = "NEEDS_CLARIFICATION" THEN Zulu(turn[t].began + Timeout) ELSE None,
   rowid |-> rowid]

(* The stages a decision can come from: skills.check alone never completes *)
(* a request, and only an execution or reasoning closes one.               *)
Decided(t, status) ==
  \/ turn[t].stage = "act"
  \/ turn[t].stage = "prepare" /\ status \in {"NEEDS_CLARIFICATION", "FAILED"}
  \/ turn[t].stage = "semantic" /\ status = "FAILED"

(* A turn whose row is written answers, and shows that it waits.           *)
Concluded(l, status) ==
  [stage |-> "over", request |-> l.request, session |-> l.session, answer |-> status,
   did |-> IF l.ran /\ l.row.exists THEN l.row.pending ELSE None,
   asked |-> IF status = "NEEDS_CLARIFICATION"
             THEN [began |-> l.began, trusted |-> l.trusted] ELSE None]

Conclude(t, status) ==
  /\ turn' = [turn EXCEPT ![t] = Concluded(turn[t], status)]
  /\ IF status = "NEEDS_CLARIFICATION"
     THEN show(turn[t].session, turn[t].request)
     ELSE UNCHANGED shown

(* ... and one that fails writes and publishes nothing.                    *)
Abandon(t, answer) == [turn EXCEPT ![t] = Ended(@.request, @.session, answer)]

(* store.create: a plain INSERT, refused by the primary key.               *)
SettleNew(t, status) ==
  LET r == turn[t].request
  IN /\ Decided(t, status)
     /\ ~turn[t].row.exists
     /\ \/ /\ ~store[r].exists
           /\ store' = [store EXCEPT ![r] = Outcome(t, status, Cardinality(Stored) + 1)]
           /\ Conclude(t, status)
        \/ /\ store[r].exists
           /\ turn' = Abandon(t, "DUPLICATE")
           /\ UNCHANGED <<store, shown>>
     /\ UNCHANGED <<now, heard>>

(* store.update: UPDATE ... WHERE request_id, whatever the row says now.   *)
SettleResumed(t, status) ==
  LET r == turn[t].request
  IN /\ Decided(t, status)
     /\ turn[t].row.exists
     /\ store' = [store EXCEPT ![r] = Outcome(t, status, @.rowid)]
     /\ Conclude(t, status)
     /\ UNCHANGED <<now, heard>>

(* A downstream call raised: nothing is persisted or published.            *)
Raise(t) ==
  /\ turn[t].stage \in {"prepare", "semantic", "act"}
  /\ turn' = Abandon(t, "ERROR")
  /\ UNCHANGED <<now, store, shown, heard>>

(* The Router process dies and starts again: only the table survives.      *)
Restart ==
  /\ InFlight # {}
  /\ turn' = [t \in Turns |-> IF t \in InFlight
                              THEN Ended(turn[t].request, turn[t].session, "LOST")
                              ELSE turn[t]]
  /\ shown' = [s \in Sources |-> None]
  /\ UNCHANGED <<now, store, heard>>

Tick ==
  /\ now < MaxTime
  /\ now' = now + 1
  /\ UNCHANGED <<store, turn, shown, heard>>

Settle(t) == \E status \in Decisions : SettleNew(t, status) \/ SettleResumed(t, status)

(* One suspension of a turn ends: its call answered, timed out or raised.  *)
Proceed(t) ==
  \/ \E detected \in Users \cup {None} : Identify(t, detected)
  \/ Match(t)
  \/ Miss(t)
  \/ SemanticMatch(t)
  \/ Act(t)
  \/ Settle(t)
  \/ Raise(t)

Post(t) ==
  \E r \in Requests, s \in Sessions :
    /\ <<r, s>> \in Posts
    /\ \/ Refuse(t, r, s)
       \/ AnswerExpired(t, r, s)
       \/ \E identity \in Users \cup {None}, speaker \in BOOLEAN :
            Admit(t, r, s, identity, speaker)

Next ==
  \/ \E t \in Turns : Post(t) \/ Proceed(t)
  \/ Restart
  \/ Tick

Spec == Init /\ [][Next]_vars

(* Every call a turn waits for has a timeout in its client, and the event  *)
(* loop runs every coroutine that is ready.                                *)
Fairness == \A t \in Turns : WF_vars(Proceed(t))

FairSpec == Spec /\ Fairness

-----------------------------------------------------------------------------
(* The shape of the state.                                                 *)
TypeOK ==
  /\ now \in Nat
  /\ store \in [Requests -> Rows \cup {NoRow}]
  /\ turn \in [Turns -> Live \cup Over \cup {Idle}]
  /\ shown \in [Sources -> Requests \cup {None}]
  /\ heard \in [Sessions -> SUBSET Users]

(* "Continuity never crosses session boundaries": the user a turn acts for *)
(* and the user a row hands on were identified in that very session,       *)
(* through every resume, continuity and overlap.                           *)
IdentityStaysInSession ==
  /\ \A t \in InFlight :
       /\ turn[t].trusted \in heard[turn[t].session] \cup {None}
       /\ turn[t].user \in heard[turn[t].session] \cup {None, Guest}
  /\ \A r \in Stored :
       /\ store[r].trusted \in heard[store[r].session] \cup {None}
       /\ store[r].user \in heard[store[r].session] \cup {Guest}

(* A turn that resumes continues one earlier turn: the one that answered   *)
(* needs_clarification for the same request in the same session, within    *)
(* its deadline, with its pending state and its trusted user.              *)
ResumesAClarification ==
  \A t \in InFlight : turn[t].row.exists =>
    LET p == turn[t].row.pending
    IN /\ p \in Turns
       /\ turn[p].stage = "over"
       /\ turn[p].answer = "NEEDS_CLARIFICATION"
       /\ turn[p].request = turn[t].request
       /\ turn[p].session = turn[t].session
       /\ turn[p].asked.trusted = turn[t].row.trusted
       /\ turn[p].asked.began <= turn[t].began
       /\ turn[t].began <= turn[p].asked.began + Timeout

(* What a client was told and what the table says agree: every row is the  *)
(* answer of the turn named by its trace id (or that answer expired), and  *)
(* a turn that was told a decision left a row in its own session.          *)
RowsAreAnswers ==
  /\ \A r \in Stored :
       LET author == turn[store[r].trace]
       IN /\ author.stage = "over"
          /\ author.request = r
          /\ author.session = store[r].session
          /\ \/ store[r].status = author.answer
             \/ /\ store[r].status = "EXPIRED"
                /\ author.answer = "NEEDS_CLARIFICATION"
  /\ \A t \in Turns : turn[t].stage = "over" /\ turn[t].answer \in Statuses =>
       /\ store[turn[t].request].exists
       /\ store[turn[t].request].session = turn[t].session

(* No legal sequence of turns moves a row to another session or drops it.  *)
RowsStayInSession ==
  [][\A r \in Stored : /\ store'[r].exists
                       /\ store'[r].session = store[r].session
                       /\ store'[r].rowid = store[r].rowid]_store

(* If an ingress never posts a request id that is in flight, what a        *)
(* clarification asked for is acted on by one turn only, unless the turn   *)
(* that acted died, or failed, before it could settle.                     *)
ActsOn(t) ==
  IF turn[t].stage \in InFlightStages
  THEN IF turn[t].ran /\ turn[t].row.exists THEN turn[t].row.pending ELSE None
  ELSE IF turn[t].stage = "over" /\ turn[t].answer \in Decisions THEN turn[t].did ELSE None

PendingActsOnce ==
  \A t, o \in Turns : t # o /\ ActsOn(t) = ActsOn(o) => ActsOn(t) = None

(* No turn stays in flight for ever: each is answered, fails or is lost.   *)
EveryTurnEnds ==
  \A t \in Turns : (turn[t].stage \in InFlightStages) ~> (turn[t].stage = "over")
=============================================================================
