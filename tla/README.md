# A verification project for Nyra

Nyra is a voice assistant for a house that runs Home Assistant. A set of small
Python services works around one **Router**: Home Assistant's `nyra` integration
posts what a user said, the Router decides who spoke, calls Context, Skills,
Memory and the LLM, acts on the house, and answers. Speaker-ID recognizes voices;
a firmware component on each speaker records them. This directory holds TLA+ models
of the parts whose correctness depends on interleaving, failure, crashes and time,
the configurations that check them with TLC, and proofs that TLAPS checks.

    tlc -workers 2 -config TurnAndVoice.cfg MCTurnAndVoice.tla
    tlapm TurnAndVoiceProofs.tla

`PROJECT.json` lists the components, the runs, a faulty variant for every checked
property, the source lines behind every definition, the findings, the hazards and
the theorems.

## 1. Inventory

| Part | State | Operations | What is hard |
|---|---|---|---|
| **Request lifecycle** `router/lifecycle/` | table `request_states`, locals of every turn, the broker's last state per source | POST /v1/requests: admit, resume, refuse, identify, match, act, settle; lazy expiry; restart | turns interleave at every `await`; a row is read at the start and written at the end; clarifications expire meanwhile |
| **Identification audio correlation** `router/audio_streaming.py`, HA `session.py`, `conversation.py`, `audio.py` | futures and cached results by request id; HA's active request id of a speaker | start/end of a recording, identify(), timeouts, complete/close/expire of a session | the voice and the text of an utterance travel separately and either may be first, late or missing |
| **Skills jobs** `skills/jobs.py`, `job_store.py`, `modules/delayed_action.py` | table `jobs`, one worker task | schedule, poll, claim, run, cancel, recover | crash between sending and recording, timeouts of commands that were executed, cancel against claim |
| **Audio streams** `shared/audio_streaming.py`, `audio_websocket.py`, the Router's relay, Speaker-ID's sink, HA `audio.py` | active and closed streams, deadlines, sockets, worker slots | start, chunk, end, disconnect, expire, abort, restart | two deadlines for one stream, cancellation while a thread computes, ids used again |
| **Device audio ingress** `esphome/components/nyra_audio_ingress` | a state machine, a ring buffer, two queues, atomic flags | press, listen, stream, end, fail, close | four threads; a late block, a late event or a left-over command of the last stream |
| **Interaction events** `router/lifecycle/events.py`, `api/events.py`, HA `events.py`, `speaker.py` | subscriptions and bounded queues, last states, ring of a speaker | publish, subscribe, resync, reconnect, identity feedback, speech | a full queue drops its subscription silently; feedback, speech and close interleave |
| **Voice enrollment** `router/enrollment.py`, HA `enrollment.py`, `audio.py` | sessions in the Router, HA's copies and capture state, samples in Speaker-ID | start, restore, press, record, judge, report, time out, terminate, reload | three services, no transaction; answers cross; timers by source rather than attempt |
| **Wake-word capture** `router/wake_word_capture.py`, HA `wake_word_capture.py`, `speaker-id/wake_words.py` | sessions, HA's copies and mode, captures, samples and files | start, restore, press, record, store, report, time out, delete | as enrollment, plus files beside rows |
| **Speaker store** `speaker-id/profiles.py`, `diagnostics.py`, `settings.py`, `audio_streaming.py` | samples, profiles, WAV files, settings, diagnostics | enroll, identify, delete, configure, sweep | files and rows, worker threads, the Admin's locks, crashes |
| **Memory: semantic** `memory/semantic.py`, `router/memory_gateway.py`, `memory_client.py` | memories, idempotency keys | remember, confirm, supersede, forget | read, then embed, then write; every call is tried twice |
| **Memory: operational** `memory/operational.py` | rules of the house, idempotency keys | create, update, delete, resolve | a lookup reads type after type while rules change |
| **LLM reasoning and plans** `router/router_llm_port.py`, `reasoning_orchestrator.py`, `llm/` | reasonings the service has begun, handlers waiting for a provider | understand, check, execute, rounds, read, gate, plan | the Router gives up, what it called goes on |
| **Home Assistant capability** `router/ha_capability.py`, `skills/modules/home_assistant.py`, `behavior.py`, HA `automation_capability.py` | calls in progress, the automation file, its lock, what is loaded | command, create, update, delete, reload, complete a one-shot | three time-outs on top of one another; the file is rewritten as a whole |
| Skills registry, user directory, observability, admin pages, deployment | section 6 | | |

How they interact: the device sends recordings to Home Assistant, and Home Assistant
calls the Router over HTTP (turns) and over WebSockets (recordings, events); the Router
calls Context, Skills, Memory, LLM and Speaker-ID over HTTP; Skills calls back into the
Router's Home Assistant capability, at once for a turn and later for a job. Every service
is one asyncio process with synchronous SQLite calls, so **the code between two suspensions
is atomic**: this is what decides where the models' steps end. Memory, Speaker-ID's audio
worker and its Admin endpoints run in threads: there a transaction begun IMMEDIATE, or
what a lock covers, is a step.

What makes each part correct, in a sentence: a request id is worked on by one turn and
settled once, by somebody identified in its own session; a voice decides a turn of its
own speaker, and one whose pipeline still waits; a delayed follow-up is sent once, unless it was cancelled; what is stored of a
recording is that recording, and every stream ends with nothing left over; the device sends
one stream at a time and comes back to its wake word; a question put to the user is shown;
a sample counts once, in a session of its own user that is not over; a profile is the mean
of the samples there are; what a turn is told about the memory, the rules or the house is
what was done, however late; Home Assistant runs the automations that were written.

## 2. Modules

| Module | What it is |
|---|---|
| `RequestLifecycle` | the turns of the Router over `request_states` |
| `RequestLedger` | the abstract promise about a request id: absent, pending, settled, expired; taken by one turn at a time |
| `RequestLifecycleLedger` | the refinement mapping from the first to the second |
| `IdentityCorrelation` | the sink that brings an utterance's recording and turn together, with HA's session manager |
| `TurnAndVoice`, `TurnAndVoiceProofs` | both beside each other; the turns' invariants and refinement, and whose voice decides, proved |
| `JobScheduler`, `JobSchedulerProofs` | delayed actions, their worker and table; invariants, proved |
| `AudioStreams`, `AudioStreamsProofs` | a recording on its way through two registries, and the sinks behind them; that it arrives whole, proved |
| `DeviceAudioIngress`, `DeviceAudioIngressProofs` | the firmware component that records; its streams' separation, proved |
| `InteractionEvents` | from the broker to the ring of a speaker |
| `Enrollment` | voice enrollment across Home Assistant, the Router and Speaker-ID |
| `SpeakerStore` | samples, profiles, settings and diagnostics of Speaker-ID |
| `EnrollmentAndSamples`, `EnrollmentProofs` | sessions beside samples; the invariants of both, proved |
| `SemanticMemory`, `OperationalContext` | the two halves of the Memory service |
| `MemoryService`, `SemanticMemoryProofs` | both halves; effects, links and duplicates of the first, the rules of the second, proved |
| `Reasoning` | what becomes of a turn no skill matches |
| `FeedbackAndReasoning`, `ReasoningProofs` | reasoning beside events and the ring; the invariants of both, proved |
| `HouseCapability` | commands, plans and automations |
| `AssistFallback` | the same turns behind Home Assistant's conversation entity, which hands a failed one to another agent |
| `WakeWordCapture` | the three services of an enrollment, for wake-word samples |
| `HouseAndWakeWords`, `HouseCapabilityProofs` | all that goes through Home Assistant; the invariants of the house, the conversation and the wake words, proved |
| `MC...` | the small instances TLC runs |

A definition named `X_Y` is a faulty form of `X`. No specification uses it; it is
there to show that a property tells the two apart (`mutants` in `PROJECT.json`).

### RequestLifecycle

A *turn* is one execution of `RequestLifecycleService._execute`. Its program counter
`turn[t].stage` names the suspension it is at:

| stage | the code waits for | leaves by |
|---|---|---|
| `identify` | `asyncio.wait({identity_task})`, service.py:341 | `Identify`: `resolve_speaker_identity`, with or without a detected user |
| `prepare` | Context, `skills.check`, Memory | `Match`, `Miss`, a clarification or failure (`Settle`), `Raise` |
| `semantic` | the LLM's semantic interpretation and `semantic_check` | `SemanticMatch`, `Settle`, `Raise` |
| `act` | `skill_port.execute` or `llm_port.reason` | `Act` (the house is acted on), `Settle`, `Raise` |

`Admit` is everything before the first suspension: `expire_due`, the read of the row,
the conflict and expiry checks (`Refuse`, `AnswerExpired`), the trust it starts from.
`SettleNew` and `SettleResumed` are everything after the last: the row, the event,
the answer. `store` is the table with the columns control depends on; `shown`
records only whether a source's last state is WAITING_CLARIFICATION and for which
request; `heard` is a history variable, the users identified in a session. The two
text formats of a timestamp (`isoformat()` gives `+00:00`, pydantic's JSON `Z`) sort
differently for one instant; `Iso` and `Zulu` keep that.

Abstracted: the content of messages, skills and memories; identities are a set of
users, `guest` and None; events other than WAITING_CLARIFICATION. Left out:
requests without an id (they keep no row) and JOB requests, which nothing posts.
`Restart` may happen whenever a turn is in flight.

The constant `Overlap` says whether an ingress may post a request id that is in
flight. Home Assistant can: `SessionManager.get_request_id` returns the active id
until the answer is back, so two quick messages of one conversation share it, and
after its own 10 s timeout the adapter answers the user while the Router's turn
goes on.

### RequestLedger

An entry per request id, `written` and `taken`. The lifecycle implements it if
ids do not overlap: `RequestLifecycleLedger` maps an id in flight to a taken entry.
A row that `expire_due` marks EXPIRED while its turn is in flight maps to *pending*:
nobody can have seen the mark, and the turn overwrites it.

### IdentityCorrelation

One record per utterance on each side: its Assist `pipeline`, its `capture` (the
recording), its `turn`, and the `task` that runs `identify()`. A future is named
after the turn that made it. `Wake`, `SinkTimeout` and `IdentityTimeout` are
independent, because the Router's wait (`identification_timeout_seconds`) does not
cancel `identify()`, whose own wait (`wait_timeout_seconds`) is another timer. The
speaker listens to one utterance at a time, but an earlier recording may still be
on its way. A new request id is named after the utterance and the side that made
it. After the turn only two things matter: whether it kept the request id (a
clarification) or dropped it. A pipeline whose Router does not answer drops it (`GiveUp`).
One that is stopped does not: a wake word or a disconnect at the speaker (`core.yaml` 415-420
and 507, under `src/esphome`) makes Home Assistant cancel the task, which `conversation.py:143` does not catch,
so the next utterance is posted under the same id (`Stop`), while the turn of the first goes on, and may be waiting.

### JobScheduler

A job is named by its delayed action. `row` is the table, `worker` the task of
`_run_loop` with the locals of `run_due`: the batch it listed, the time it listed
it at, the job in hand. `pending` and `done` count the follow-up commands on their way
to the house and those executed; a command may be executed after its sender gave
up. `TimesOut` is the Skills client's timeout (3 s by default, like the Router's own
Home Assistant timeout), `Uncertain` the Router's. `StoreFails`, and one outcome
of `Continue`, are SQLite errors: they end the worker for good. `Crash` may happen
anywhere. `stop_job` always raises and changes nothing. Not modelled: a scheduler
without a capability and a malformed payload (both only in tests), a second process
on one database, a clock that is set back. An HTTP error status of Home Assistant
is taken to mean that it did not execute the command.

### Enrollment

One speaker. `table` is the Router's `enrollment_sessions`; `view`, `active`,
`capture` and `timer` are the coordinator's `_sessions_by_id`, `_active_by_source`,
`_capture_by_source` and `_capture_timeout_handles`. A method of the coordinator is cut
at its calls to the Router and the speaker: `calls` holds the commands of the panel that
wait for the Router, each with the copy it will be answered with, `presses` counts the
`async_record` calls that wait for the speaker, and `stream[c].stage` is where the
handler of a recording (`HomeAssistantAudioIngress`) waits:

| stage | the handler | leaves by |
|---|---|---|
| `recording` | collects chunks | `End`, `Abandon` |
| `ending` | has sent them on; Speaker-ID works | `Judge`, then `Report`; `Abandon` |
| `attempt` | waits for the Router to record the attempt | `RecordAttempt`, `ReportFails` |
| `answered`, `refused` | gets the answer | `Reported`, `ReportFails` |
| `left`, `sent` | is gone; Speaker-ID, or the Router, may still do the work | `Judge`, `RecordAttempt` |

`_update_session` (`Adopt`) is the shared end of four calls. A call may fail before or
after the Router processed it (`Fail`, `ReportFails`), and no call is repeated.
`button` is a press on its way to the speaker, which may be lost; `StreamRefused` is a speaker that is busy
or a Home Assistant that refuses to bind the recording. `Reload` closes every handler and
restores what the Router has. REJECTED stands for FAILED too, which differs in the
message only. Abstracted: the deadlines (a timer or a handler's time may be over at any
moment), phrases, announcements and LEDs. A speaker that is busy with another kind of recording is a lost press.

### AudioStreams

A recording is sent by `RouterAudioSession`, served by `serve_audio` and an
`AudioStreamRegistry` in the Router, relayed frame by frame (`SpeakerAudioRelay`), and served
by the same two in Speaker-ID, whose sink buffers, computes in a thread and stores. `loop[h][s]` is
where the server loop of a socket is; `active`, `closed`, `size` and `due` are the
registry's `_active`, `_closed`, byte counts and deadlines; `linked` and `buffer` are what
the two sinks keep under an id, `permits` and `worker` the semaphore and the thread.

`_call` awaits the sink under the deadline, while `_expire` waits for the same event: when
`due` holds, either may end the stream, and a call suspended in the sink can only be
cancelled. A cancelled thread goes on (`Compute`) and releases its slot when it ends. The
`asyncio.timeout` of the server loop encloses the call to `end()`: a deadline that passes before the loop
has the result in its hands (`returned`) answers with an error what is stored already (`LoopTimesOut`). Chunks
are routed by stream id alone, so the model keeps whose chunks a buffer holds. Abstracted:
bytes are counted in chunks; a client has one frame on its way, since each is
acknowledged before the next. `Restart` drops a server with its memory. Fairness: of
every server's next step, of its clock and of the thread; none of the senders, which may stop at any point.

### DeviceAudioIngress

The threads are `Loop` (the state machine of `loop()`), `TransportTask` (the only one that
opens, writes and closes the WebSocket), `WebSocketEvent` and the microphone's callback, cut
where they read or write a shared member: `capturing`, `ring`, `commands`, `responses`, `flags`.
A flag is tagged with the stream it was raised for, so that the model shows when one stream's
event ends another. The automations of the device (the YAML under `src/esphome`) are modelled
with it, because they stop and start the wake word around a press. Left out: the
time-outs of the mutexes, except the failed try-lock in `websocket_event_`; full queues, which
this many commands never reach. Fairness: of the loop, its time-out, the two tasks and of a press
that was begun; none of the network, of Home Assistant or of the user.

### InteractionEvents

`publish`, `subscribe` and `close` of the broker; a round of the event WebSocket, which waits
for a client message and an event and, when both are ready, throws the client's action
away (`api/events.py:59-62`); the client, which reconnects for ever and asks for a snapshot;
and `SpeakerStateMachine` with its feedback task and the playback the speaker reports.
An event is its place in what was published. The Router's heartbeats change nothing and are
left out. Fairness: of the loops and of the timers, not of connections and playback.

### WakeWordCapture

Laid out as `Enrollment`: rows at the Router, copies, mode and timer in Home Assistant, `calls`
on their way with their answers, handlers of recordings. Behind them Speaker-ID's rows
and files: `complete_capture` writes the WAV, then the two rows; `delete_sample` deletes the
row, then the WAV. `Crash` leaves files no row names (`orphans`), `Restart` is Home
Assistant's; `MaxFaults` bounds the two together. Left out: the export of a data set, which reads rows and then files, and the message texts.

### SpeakerStore

A stream is prepared in a worker thread, which reads settings and profiles, and its outcome is
stored on the event loop, one at a time: `WriteSample`/`add_sample` for an enrollment,
`WriteAudio`/`record` for an identification. The Admin's calls hold the lock of *their* store object,
which the streams do not share: `holder` and `writer`. `Crash` may come between any two steps;
`SweepAudio`/`SweepRow` purge expired diagnostics at the next start. A profile is the set of
samples it is the mean of; a voice has a score with each profile, from a small set. A stream takes
its settings when it starts and its profiles when it is prepared; `classify_scores` decides by them, and the row
(`Rows`) keeps both, with the outcome. Not modelled: a WAV that cannot be written (a full disk).

### SemanticMemory and OperationalContext

A *turn* is one mutation under one idempotency key; `MemoryClient` sends it twice at most, when
no answer or a 502-504 comes, and the first attempt may still run. Each attempt is a thread,
cut at its transactions and at the embedding between them. `create_idempotent`, whose duplicate
vanished, calls itself inside its own transaction and waits for its own lock (`locked`).
Similarity is a subset of what may be found. In `OperationalContext` a write is one transaction, a
resolution one SELECT per type of rule. Fairness (of the first): of client and service steps;
SQLite gives up a lock after its timeout.

### Reasoning

`turn[t].at` is where the Router is with a turn that Skills missed: asking the LLM which
skill is meant (`semantic`), checking it with Skills, executing it, or in the rounds of
`ReasoningOrchestrator` (`round`, `reason`, `capability`), then the gate and the plan.
`serving` are handlers of the LLM service that wait for a provider, `store` is
`ReasoningStore`, `skills` the executions in Skills: all three outlive the Router's time-outs.
`acted` is a history variable. Prompts, the conversation's history and what a read
returns are data no step depends on. Fairness: the Router's own steps and time-outs; never of a
provider, a read or a skill.

### HouseCapability

`run` is the loop over a command's targets (in Skills) or a plan's steps (in the Router), `port`
what `HomeAssistantCapabilityPort` is doing for it, `requests` what Home Assistant was sent and
has not finished. Each of the three clients may give up (`SkillsTimesOut`, `CallTimesOut`,
`RequestTimesOut`) while what it called goes on. `NyraAutomationBackend` holds
`lock` from reading the file to writing it and reloads afterwards; `file` and `loaded` may differ in between.
A one-shot automation calls `nyra.complete_one_shot`, which deletes it. A reload is two steps,
as `_reload` awaits a service outside the lock: Home Assistant reads the automation (`Reload`) and
later applies what it read (`Loads`). `overtaken` is a history variable: the ids that were changed in between.
Home Assistant's own editor is not modelled.

### AssistFallback

Extends `HouseCapability` by what `conversation.py` does around a turn: `entity[t]` waits for the
Router's answer, at most 10 s (`RouterUnavailable`; the Router is not told), and hands the words of
a turn that failed, or was not answered, to Home Assistant's default agent (`Assist`), which acts on
any lights or none. `assisted` is a history variable. No step of it touches the variables of
`HouseCapability`, so whatever is proved of `Spec` there is proved of `AssistSpec`.

## 3. Runs

Every bound is a named constant in the `.cfg`. Times are on two cores.

| Run | Instance | What it shows |
|---|---|---|
| `TurnAndVoice` | 3 turns of 1 request, 2 in flight, clock 0..2, timeout 1; and 2 utterances in one room and in two, cache of 1; 118,896 states | overlapping turns: `ResumesAClarification`, `RowsAreAnswers`, `EveryTurnEnds`; voices: `VoicesOfTheirSpeakers`, `OneTurnPerVoice` |
| `RequestLifecycleSerial` | 3 turns, 2 requests (one claimed by 2 sessions), 1 user; 487,483 states | `IdentityStaysInSession`, `PendingActsOnce`, and the refinement `ImplementsLedger`, when ids do not overlap |
| `JobScheduler` | 3 jobs, one with twice the delay, clock 0..3, 1 crash; 226,547 states | `SentAtMostOnce`, `CancelledIsNeverSent`, `StartedInDueOrder`, `EveryDueJobStarts` |
| `AudioStreams` | 2 recordings, 1 place per registry, 2 closed ids, 1 chunk, 1 slot, 1 restart; 428,664 states | `RecordingsArrive`, `LateResultsAreDropped`, `EverythingIsReleased` |
| `DeviceAudioIngress` | 2 streams, 1 press, 2 blocks, ring of 1; 783,953 states | `OnlyItsOwnAudio`, `ToldTheResult`, `ComesBack` |
| `FeedbackAndReasoning` | 3 events, 2 connections, 1 playback, queues of 2; and 1 turn, 3 rounds, a fallback, 2 restarts; 434,912 states | events: `NothingIsSkipped`, `FeedbackIsSeen`, `AskingIsShown`; reasoning: `ActsAsTold`, `EveryReasoningEnds` |
| `Enrollment` | 2 users, 2 sessions of 2 samples, 2 recordings, 1 command and 1 press in flight, 1 reload; and in Speaker-ID 2 streams, 2 users, 2 Admin calls, scores 0 and 1, 1 setting, 1 crash, 1 older sample; 2,468,896 states up to symmetry | sessions: `SamplesAreTheirs`, `ViewIsPast`, `TerminalSessionsStay`; Speaker-ID: `SamplesAreWhole`, `DeletedOnce`, `DiagnosticsAreTrue` |
| `HomeAssistant` | 2 turns, 2 lights, 1 manual automation, 2 signatures, 1 restart; 1 turn of a conversation with the other agent behind it; and 2 users, sessions and recordings, 2 calls, 1 fault (a reload or a crash); 1,409,333 states up to symmetry | house: `ToldAsDone`, `LoadedIsTheFile`, `OthersAreKept`; wake words: `OneSamplePerCapture`, `OutcomesAreTheRouters` |
| `MemoryService` | 2 turns of 1 owner over 2 earlier memories, 1 fault; and 2 writes of 5 rules, 1 lookup; 733,733 states | memories: `DoneAsTold`, `LinksBothWays`, `RememberedOnce`, `LockIsReleased`; rules: `ToldIsApplied`, `FindsTheNearest` |
| `EnrollmentMismatch` | 1 sample per session, no reload | violates `PressIsForTheActive` |
| `BlindRetry` | the conversation of `HomeAssistant` alone | violates `NoBlindRetry` |
| `ReasoningExpires` | 1 turn, 3 rounds, 1 restart, providers that always answer | violates `ReasoningExpires` |

**Models beside each other.** Five modules put two models side by side that share no variable,
state the assumptions and the properties of both, and are what the MC modules and the proofs
extend. In their MC modules a variable `part` is chosen at the start, and every behaviour is one
of a single model, the other standing still at an initial state.

| Module | EXTENDS | INSTANCEs | its specification is named |
|---|---|---|---|
| `TurnAndVoice` | `RequestLifecycle` | `IdentityCorrelation` (whose `turn` is `asking` here) | `Voice!Spec` |
| `FeedbackAndReasoning` | `Reasoning` | `InteractionEvents` | `Feedback!Spec` |
| `EnrollmentAndSamples` | `Enrollment` | `SpeakerStore` (`audio` and `stream`: `kept` and `voice`) | `Store!Spec` |
| `MemoryService` | `SemanticMemory` | `OperationalContext` | `Rules!OpSpec` |
| `HouseAndWakeWords` | `AssistFallback` | `WakeWordCapture` | `WakeWords!Spec` |

Nothing is composed by this: it is several checks for the price of their sum, where a true product
would only multiply states. Where two parts do meet they are in one module: the relay and
both registries in `AudioStreams`, sink and session manager in `IdentityCorrelation`, Router, Home
Assistant and Speaker-ID in the two captures, gateway and service in `SemanticMemory`,
Skills, Router and Home Assistant in `HouseCapability`, and what is behind the conversation
entity in `AssistFallback`. Constants of the INSTANCEd model are given the sets of the other
where their sizes agree, so that one permutation may exchange the elements of both.

**Why the bounds are enough to be interesting.** Three turns are the least that ask, resume, and
then meet the result; a clock of 2 with a timeout of 1 lets a clarification be resumed
before, at and after its deadline. Two sessions on one id exercise the conflict and
the way trust could cross. Two utterances, of which a clarification's answer may be the second,
let a voice meet its own turn, the next one's, and another room's; a cache of one
evicts; and the second may be spoken while the first, stopped, still waits. Three jobs give a batch with a job in hand, one cancelled or claimed behind
it, and one that becomes due meanwhile. Two streams with one place and one slot compete for everything a registry
and the sink have, and the second may use the id of the first; on the device they are the least that can be confused.
Two connections give a dropped subscription, a reconnect and a
snapshot; three events overflow a queue of two. Two attempts of two turns over two memories
make duplicates, replaced and vanished targets. Three rounds are the default; turns of
the LLM share only the service's restarts, so one turn shows what several would. Two lights give a command that is
half done. Two recordings with a target of two complete a
session, and let the result of the first meet the press of the second; two streams at Speaker-ID are one being
stored while the other is deleted; two users and
sessions let a late answer meet somebody else's session; users, sessions and recordings
are interchangeable, hence the symmetry, under which no liveness is checked. What holds for every
size is what section 5 proves.

`CHECK_DEADLOCK FALSE`: every model may stop. All turns, streams or utterances are used up
and the clock has reached its bound.

**Fairness.** `RequestLifecycle`: weak fairness of every turn's own next step, because
each downstream client has a timeout and the event loop runs what is ready; none of
`Post`, `Restart` or `Tick`. `IdentityCorrelation`: none. `JobScheduler`: of the worker's poll and of the answer it waits for (the
client has a timeout), of `Restart` (systemd, `Restart=on-failure`), and of the clock;
never of `Execute`. Crashes are bounded by `MaxCrashes`, there and in `SpeakerStore`. The others are in section 2, with
their modules; `ReasoningExpires` adds that providers answer, so that nothing but the code keeps an id.

## 4. Findings

1. *A press for another session than the active one* (`EnrollmentMismatch`).
   `async_record` looks its session up by id, `audio_metadata` by speaker. After a termination
   whose answer was lost, a user who still has the old session on screen is recorded into the
   session that took its place, possibly somebody else's profile. The design document says that
   source/session mismatches are rejected before the speaker is commanded.
2. *The same words are acted on twice* (`BlindRetry`). The design document of the adapter excludes an
   alternate Assist fallback and any blind retry, because a request that timed out may have
   executed. `conversation.py` gives the words of a turn that failed or was not answered to Home
   Assistant's default agent, while the Router's turn goes on.
3. *A reasoning id does not expire* (`ReasoningExpires`). The design document lets it expire on
   completion, failure, timeout and exhaustion; it leaves the store only with a terminal answer.

Seen while modelling, and either allowed by no document and no violation of one, or excepted by name in
a property:

- Request lifecycle: under overlap, a request that a client was told is expired becomes pending
  again when its turn settles, and a clarification may be acted on twice. `expire_due` stamps the row it expires with the current time, and continuity
  follows the session's latest row by that stamp.
- Correlation: a voice that comes late decides a later turn of the same request id; a future two turns share is
  unregistered when the first of them ends, and the second can no longer be identified by voice. After a pipeline was
  stopped, one recording may decide two turns: the session keeps the request id, and both wait on one future.
- Audio streams: a recording that Speaker-ID has stored is answered with TIMEOUT when the deadline passed while it was stored.
- Jobs: a timeout is recorded as FAILED though the house may execute the command; an SQLite error ends the
  worker until the next restart, and readiness does not notice.
- Enrollment and wake words: a report that fails leaves the panel in PROCESSING until the session is
  terminated; a result cancels the timer of whichever session is recorded now; an ended session
  takes the active one from the panel; a stale restore can show an ended one again.
- Events: a dropped subscription is not noticed by its client; an action that arrives
  in the same round as an event is lost.
- Memory: an update of a rule does not compare revisions, so one of two concurrent edits is lost; a context may mix
  rules of different times; a replacement is not compared with the active memories.
- House: an automation that is deleted, or completes, while a reload that read it is in flight is loaded again, and runs until
  the next restart; two creations at once make twin automations; the plan executor ignores
  dependencies and conditions; a plan that was executed in part is told as failed.
- Speaker-ID: a crash between the WAV and its row, of a sample or a diagnostic, leaves a file no sweep finds; expired details are purged at startup
  only; an identification compares with profiles read before the embedding.
- Reasoning: timeout and exhausted rounds are told alike, against the design's two
  outcomes; the third capability is read for nothing, since no round follows it.

## 5. Proofs

`TurnAndVoiceProofs` proves of the turns, for every value of the constants that
`ConstantsAssumption` allows, with or without overlap:

- `TypeCorrect`: `Spec => []TypeOK` (checked by no run, here and below)
- `IdentityNeverCrossesSessions`: `Spec => []IdentityStaysInSession`
- `OnlyClarificationsResume`: `Spec => []ResumesAClarification`
- `RowsAgreeWithAnswers`: `Spec => []RowsAreAnswers`
- `RowsNeverMove`: `Spec => RowsStayInSession` (no run checks it)

None of these is inductive. `IInv` adds three facts. `ResumedRowStays`: the row a
resuming turn read is still there, in the same session and place. `PendingRowsKeep`:
a pending row names, as its pending state, a turn that asked for a clarification of
the same request, with the deadline and trust the row says. `ResumedRowsKeep`: the same
holds of the copy a resuming turn carries, which may be older than the row. The second
is what `Admit` hands to the third; the third is what `ResumesAClarification` is a
weakening of, once the deadline (in its text format) is read as a bound on when
the turn began. One lemma per action shows that it preserves each conjunct it can
disturb, and `expire_due` and `get_latest_for_session` have lemmas of their own.

Under `~Overlap` it also proves `SerialTurnsActOnce`: `~Overlap /\ Spec => []PendingActsOnce`.
A question is acted on when the turn that resumes it settles, so the second turn must be kept
from *having read* it. `UntouchedInv` adds to `IInv`: what was acted on was asked by a turn of
the same request (`ActionsHadAQuestion`); a question that waits in the table, or that a turn in
flight has read, was not acted on by a turn that answered (`WaitingIsUntouched`,
`ResumedIsUntouched`); and no two turns that answered acted on the same one (`AnsweredOnce`). With overlap
two turns read the same row and the property is false.

It also proves `LifecycleImplementsLedger`: assuming `~Overlap`,
`Spec => ImplementsLedger`. It needs an invariant of its own, `SerialInv`: no two turns in flight
have one request id, and what a turn read of its row is what the table says, but for
an EXPIRED mark. Each action is then mapped to a step of the ledger or to a stutter.

Of the voices it proves, under `CorrelationAssumption`, for any speakers, utterances
and capacity of the cache:

- `VoicesTypeCorrect`: `Voice!Spec => []Voice!TypeOK`
- `VoicesBelong`: `Voice!Spec => []VoicesOfTheirSpeakers`
- `VoicesDecideOnce`: `Voice!Spec => []OneTurnPerVoice`

A voice and a turn meet under a request id only, so `VoiceInv` follows the ids. `SessionsHold`,
`RecordingsCarry` and `TurnsCarry` say that what carries an id belongs to the speaker it was made
for, and that it was made (`Made`): the id the other side makes is never one in use.
`ResultsAreHeard` adds that a result stays with the id of its recording, `OnePlace` that it
is in one future, in the cache, or in a turn. A future may be shared by two turns, and may have
its result while both hold it. `OneTurnPerVoice` says when both take it: only after the pipeline of the
earlier was stopped. For this `OneWaits`: of the turns that wait under one id only the last has a pipeline that was
not stopped, because a session drops its id when a pipeline ends that waits (`GiveUp`), keeps it when
the pipeline is stopped (`Stop`), and a speaker's pipelines do not overlap otherwise (`InOrder`). The cache is a sequence, from which a
result is taken (`PopKeepsTheOthers`) or to which one is added (`CacheAdds`).

`JobSchedulerProofs` proves, for any set of jobs, delays, clock bound and number of crashes:

- `TypeCorrect`: `Spec => []TypeOK`
- `NeverSentTwice`: `Spec => []SentAtMostOnce`
- `CancellationPrevents`: `Spec => []CancelledIsNeverSent`
- `DueOrderHolds`: `Spec => []StartedInDueOrder`
- `RunningRowIsInHand`: `Spec => []RunningIsInHand` (no run checks it)
- `TerminalNeverChanges`: `Spec => TerminalIsFinal` (no run checks it)

Its `IInv` adds what the table says of the past and the worker of the table.
`UnclaimedIsUnsent`: nothing was sent for a row that is absent, scheduled or cancelled, so
a claim is a first send. `CancelledStays`: a confirmed cancellation is still in the table.
`RunningIsDue` and `BatchIsBehind`: a running job was due when its batch was listed, and
every scheduled job is behind it in the batch or fell due after the listing; a job scheduled
meanwhile falls due later, since its delay is positive. `InHandIsRunning` lets
`set_terminal` do without a condition. `Poll` and `Finish` share the loop
(`Continue`), so one lemma about it, for any table and batch that meet `Waiting`, covers both.

`EnrollmentProofs` proves, for any users, sessions, recordings, target and bounds:

- `TypeCorrect`: `Spec => []TypeOK`
- `SamplesBelong`: `Spec => []SamplesAreTheirs`
- `ViewsArePast`: `Spec => []ViewIsPast`
- `RecordingsAreTimed`: `Spec => []RecordingIsTimed` (no run checks it)
- `SessionsStayOver`: `Spec => TerminalSessionsStay`

Two monotonicity lemmas carry the argument. `RowsEvolve`: a row of the Router only grows,
and not at all once its session is over. `StreamsCarry`: a recording keeps the session and
user it was bound to, and its verdict. So every copy in flight stays a past of its row
(`CallsArePast`, `AnswersArePast`), the active session's copy names its user
(`ActiveIsViewed`), and a recording is bound to the user of the row (`StreamsAreBound`),
though it is bound from a copy. `TypeOK` is not inductive either: what the panel shows after
a report is the recording's verdict, so `ReportsAreJudged` is needed.

Of Speaker-ID's samples it proves, under `SpeakerStoreAssumption`:

- `WholeSamples`: `Store!Spec => []SamplesAreWhole`
- `EachIsDeletedOnce`: `Store!Spec => []DeletedOnce`
- `DiagnosticsHold`: `Store!Spec => []DiagnosticsAreTrue`

A profile is rebuilt in the transaction that changes its rows, so a crash leaves either both
or neither. The rest is about the steps around a transaction. `SampleOK`: a row has its file, and its stream is over,
so no row comes back. `AddingOK`: what is about to be written has its file. `AdminOK` follows a
deletion: the rows that it selected stay the user's while it holds the lock, and the rows that
it deleted stay gone while it unlinks their files; hence two deletions report different rows,
and no file is unlinked whose row is there.

The diagnostics have an invariant on top of that one. `Unshown`: without a row, audio is there only
while its stream is between the two writes, or was cut off there by a crash. `ShownSoundly`: with one, the stream is over, the row is
sound, and its audio is there unless the sweep took it. That an identified user leads everyone by the margin, and
not only the second, is `BestLeads`: of any ranking by score, whoever follows has no better score than the second.

`ReasoningProofs` proves, for any turns, rounds and restarts, assuming that None is neither
an answer nor a plan (`ReasoningAssumption`):

- `TypeCorrect`: `Spec => []TypeOK`; so no turn makes more than `MaxRounds` rounds
- `HouseIsAsTold`: `Spec => []ActsAsTold`

`ActsAsTold` speaks of turns that were told. `IInv` adds what holds before: `NothingYet`,
that nothing was done, that only a turn that waits for a skill has one at work, and that a plan is
there exactly behind the LLM's answer and was validated when it is executed; and `LateSkill`,
that a skill still at work after its turn was told was given up and has not acted. Two
lemmas, `Moves` and `Tells`, cover all steps that do not act; the four others have one each.

Of the events and the ring it proves, under `EventsAssumption`, for any number of events,
connections and playbacks and any size of the queues:

- `NothingSkipped`: `Feedback!Spec => []NothingIsSkipped`
- `FeedbackSeen`: `Feedback!Spec => FeedbackIsSeen`

`NothingIsSkipped` is stated of all that is on its way: of what the client was given and what is
sent or queued for it, each event follows the one before, and they reach to the last one
published as long as the broker knows the connection. So stated it is
nearly inductive (`EventsInv`): a step adds at the end of that chain, takes its first, or drops the queue.
What it needs besides is that a queue belongs to a connection that is served (`ConnectionsOK`), and
that the client subscribes once, before it is given anything (`SubscribesFirst`). `RingInv` says that a feedback's task sleeps
exactly while the machine has a timer set, and that it has none while a feedback or an end is
being shown: what follows a feedback finds the timer, and waits for it, or comes by playback.

`HouseCapabilityProofs` proves, under `HouseCapabilityAssumption`, for any house, turns and restarts:

- `OneHoldsTheLock`: `Spec => []LockIsHeld` (no run checks it)
- `RunsWhatIsWritten`: `Spec => []LoadedIsTheFile`
- `ChangesAreOfNyrasOwn`: `Spec => OthersAreKept`
- `TurnsAreToldTheTruth`: `Spec => []ToldAsDone`

What is loaded is the file, but for what is still to be loaded, and for automations changed while a reload of
theirs had read the file and not applied it. `LoadingIsTheFile` says that what such a reload holds is what the file says,
unless its automation was overtaken: every write, deletion and completion of an id that is being loaded marks it. Without
that exception the property is false, by the `await` of `automation_capability.py:109` outside the lock.

What a request read under the lock is still what the file is when it writes (`Sound`), because only the holder of
the lock writes and one request holds it. That it then writes no automation of a user's
needs the whole way of the request: the port checked the automation when it sent it, and
until the request is done nothing but Nyra's own, or nothing, can be under that id; a create is about a
fresh id. `AskInv` says so of the calls in progress, from the kind of their turn, and `KindsStay` that no step
changes what a turn was asked.

`ToldAsDone` speaks of turns that are over, while requests they gave up are still at Home
Assistant. `ToldInv` therefore follows both ends. `Honest` says of a turn what its loop has
behind it: what it counts as done was performed, or written; before a create or a read has its
first call, and once it was refused or asked to confirm, nothing of it is anywhere (`Nothing`).
`Ordered` says of a request which operation it can be, from the kind of the turn that sent it,
and that what is reloaded was written. `AssistImplementsHouse` (`AssistSpec => Spec`) and
`AssistKeepsItAll` carry these results to the conversation with the other agent.

Of the wake words it proves, under `WakeWordAssumption`, for any users, sessions, recordings, calls and faults:

- `WakeWordsTypeCorrect`: `WakeWords!Spec => []WakeWords!TypeOK`
- `AcceptedIsOne`: `WakeWords!Spec => []OneSamplePerCapture`
- `ShownIsSettled`: `WakeWords!Spec => []OutcomesAreTheRouters`

The argument is that of the enrollment: rows only go on (`Evolves`), so the answers on their
way (`CallsOK`) and the copies (`Copied`) are pasts of their rows (`IsPast`), and a start's id is fresh
until the Router has it (`StartsAreFresh`). A copy that has an outcome is then the row itself. (This is of the copies;
what the panel displays is kept apart, by speaker.) Speaker-ID writes one
recording at a time, and only of a capture that nothing was accepted of (`WritingOK`), so no two recordings of
a session are accepted (`AcceptedOnce`), and the one a report names is that one (`CallsOK`, `RowsOK`).

`SemanticMemoryProofs` proves, under `SemanticMemoryAssumption`, for any turns, memories, owners and faults:

- `TypeCorrect`: `Spec => []TypeOK`
- `ToldTheTruth`: `Spec => []DoneAsTold`
- `LinksAreWhole`: `Spec => []LinksBothWays`
- `KeptOnce`: `Spec => []RememberedOnce`

`IInv` is `Typed`, `Table` (what a transaction finds is whole), `TurnOK` for each turn and
`Fits` for each attempt. The difficulty is the answer of an attempt whose twin may still run:
"not found" of a confirmation or a deletion is true for good only because a memory that is gone never comes
back (`Grows`), so the twin will find it gone as well. Of a replacement this is
not so, and `DoneAsTold` leaves it out: the first attempt may have replaced the target, and the second
be refused for that reason. The refusal is then wrong, and harmless. Each kind of transaction has a
lemma that it leaves the table whole, and each action cites one.

Of the rules it proves, under `RulesAssumption`, for any writes, lookups, people and types:

- `ToldOnce`: `Rules!OpSpec => []ToldIsApplied`
- `NearestIsFound`: `Rules!OpSpec => FindsTheNearest`

A write and its key are one transaction, so a second attempt finds the answer of the first.
The answer that could become wrong is "not found", and it does not, as an id is never given again (`IdsAreSpent`).
`WritesOK` says of every answer, on its way or told, what became of its key, and `AppliedOK` that a key was applied once, or never.
A lookup asks for type after type. `LookupsOK`: none is asked for twice, as `TypeOrder` has none twice, so what a
SELECT finds for its type is not overwritten; and of its rows the scopes are tried from the nearest on.

`AudioStreamsProofs` proves, under `StreamsAssumption`, for any recordings, capacities, chunks, slots and restarts:

- `TypeCorrect`: `Spec => []TypeOK`
- `NothingIsStoredLate`: `Spec => LateResultsAreDropped`
- `RecordingsAreWhole`: `Spec => [](IdsAreKept => RecordingsArrive)`

The first two need `Shape`: types, and what is over when (`AfterTheEnd`): a recording is kept only behind an end that
succeeded, and such an end was not answered with an error before. So what is stored gets an error only from the deadline that
passes before the server loop has the result. The third is about chunks that are routed by id alone, while an id may be used again. `IdsAreKept` says that a registry
remembers as many closed ids as there are recordings, or that no id is used twice. Without it the property is
false: an id that was forgotten and is used again, while a chunk of its last use is on an
old socket, is taken for the new recording (TLC shows it with three recordings and one
remembered id; the code remembers 1024). With it, `Registry` says that a started
recording finds itself under its id, or finds the id shut: `HoldersStarted` and `StartedHold`, with `TakenAreDue` for the call whose
stream a deadline took meanwhile. So the relay's socket and Speaker-ID's buffer under an id
are the active recording's (`Linked`, `Buffered`), and each recording is `Carried`: the two hops are in step (`InStep`), the
buffer holds what was sent, in order and of nobody else (`Whole`), an end comes behind all of it (`Ended`), and a result is told
where it was stored (`Told`).

`DeviceAudioIngressProofs` proves, under `DeviceAssumption`, for any streams, presses, blocks and ring:

- `TypeCorrect`: `Spec => []TypeOK`
- `HearsItsOwnAudio`: `Spec => []OnlyItsOwnAudio`
- `ToldWhatWasAnswered`: `Spec => []ToldTheResult`

Four threads, three queues and seven flags, and the argument is one sentence: a stream has
one thing on its way at a time. `OneCommand` says it of the command in the transport
task's queue or hand, `ServerWorks` of the frame Home Assistant has yet to answer, `OneAnswer`
of the answer, behind which only an error may come. So what the loop does not expect is the last
there is, `finish_` is called once for a stream, and its close is asked for once (`ClosedOnce`);
when `complete_finish_` runs there is no socket, no command and no answer left, so the next
stream starts among nothing but stale flags, which it clears. `SocketIsOfStream`, `HeardIsInOrder`,
`AudioIsOfStream` and `ResultIsHeard` then follow the socket, what was heard, the ring and the result.
`TypeCorrect` carries two of the code's limits: at most one command and two responses are
ever queued, so `MAX_TRANSPORT_COMMANDS` and `MAX_RESPONSE_QUEUE` (4 each) are never reached.
All actions that send share `SendStep`, all that fail `FinishStep`.

Each of these inductive invariants was first checked by TLC, as an invariant of the runs' instances.

**Model-checked only.** Liveness under fairness (`EveryTurnEnds`, `EveryDueJobStarts`, `EverythingIsReleased`, `ComesBack`, `AskingIsShown`, `EveryReasoningEnds`,
`LockIsReleased`) is beyond the prover, as is ENABLED; so is
induction over data, and anything behind a RECURSIVE operator (there is none here).
Every other property of a passing run, invariant or action property, is stated by a theorem.

## 6. Plan, and what is not modelled

Every component that interleaves, fails or crashes has its module, and every safety property its
proof. What is left is an abstract specification of a recording ("finished once: stored whole, or not at
all"), and `AudioStreams` shown to implement it, as `RequestLifecycle` implements `RequestLedger`.

**Not modelled**, and why:

- Numerical inference, embeddings and prompts: no interleaving of their own; their
  results are inputs of the models (scores, similarity, a provider's reply). The training
  notebook and its scripts, the largest file of the repository, are offline.
- The parsing of utterances into commands (`skills/modules/*`): pure functions of a text whose
  outcome (targets, a behaviour, a miss) is an input of `RequestLifecycle` and `HouseCapability`.
- The schemas under `shared/protocol`, and their copy under the integration: validation without state.
- The user directory and identity configuration: single statements, one of them revisioned; nothing the
  models depend on is written by `_sync_trusted_identity`.
- `skills/execution.py`: nothing in production calls it. The Skills registry is filled at start and never changes.
- Observability: log records no control flow depends on.
- The admin pages, the panel, deployment scripts and units: pages and shell scripts; what the Admin
  *writes* is in `SpeakerStore`, `SemanticMemory`, `OperationalContext` and `HouseCapability`, and the units' restart policy is the fairness of `Restart`.
- Orderly shutdown (`AudioStreamRegistry.close`): a restart drops everything in the models.
