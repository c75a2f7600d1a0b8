---------------------------- MODULE SpeakerStore ----------------------------
(***************************************************************************)
(* What Speaker-ID keeps of voices: the samples of an enrollment with      *)
(* their WAV files, the profile averaged over a user's samples, the        *)
(* settings of the identification, and a diagnostic row with its audio for *)
(* each identification.                                                    *)
(*                                                                         *)
(* Three kinds of thread meet here.  The audio of a stream is prepared in  *)
(* a worker, which reads the profiles; then the event loop stores the      *)
(* outcome, one stream at a time; and the Admin's calls run in threads of  *)
(* a pool, one store object for all of them, another for each stream.  A   *)
(* crash may come between any two steps, and the next start sweeps the     *)
(* diagnostics whose detail has expired.  A transaction is one step.       *)
(***************************************************************************)
EXTENDS Naturals

CONSTANTS
  Streams,     \* streams of audio, and the samples and diagnostics made of them
  OldSamples,  \* samples of earlier enrollments
  MaxUsers,    \* bound: the users are numbers, in the order of their ids
  Admins,      \* calls of the Admin
  Scores,      \* similarities of a voice and a profile
  Settings,    \* bound: the settings an Admin chooses
  MaxCrashes,  \* bound: crashes of the service
  None         \* Python's None

UserIds == 1 .. MaxUsers
Samples == Streams \cup OldSamples

(* A row of identification_diagnostics, with its candidates.               *)
Rows ==
  [verdict : [outcome : {"IDENTIFIED", "NOT_RECOGNIZED", "FAILED"}, user : UserIds \cup {None},
              reason : {None, "FAILED", "NO_PROFILES", "BELOW_THRESHOLD", "AMBIGUOUS_MARGIN"}],
   candidates : UNION {[U -> Scores] : U \in SUBSET UserIds},
   setting : [threshold : Scores, margin : Nat, revision : Nat],
   audio : BOOLEAN, detail : {"kept", "expired", "purged"}]

SpeakerStoreAssumption ==
  /\ MaxUsers \in Nat /\ MaxCrashes \in Nat /\ Scores \subseteq Nat
  /\ Settings \subseteq [threshold : Scores, margin : Nat] /\ Settings # {}
  /\ Streams \cap OldSamples = {}
  /\ None \notin Nat \cup Admins
  /\ None \notin Rows \cup {"IDENTIFIED", "NOT_RECOGNIZED", "FAILED", "LOST"}

VARIABLES
  owner,      \* enrollment_samples: the user of each row, or None
  profile,    \* speaker_profiles: the samples its centroid is the mean of
  files,      \* the samples whose WAV file exists
  config,     \* runtime_config: the settings and their revision
  diagnostic, \* identification_diagnostics, with the candidates of each
  audio,      \* the streams whose diagnostic WAV exists
  stream,     \* each stream of audio
  admin,      \* each call of the Admin
  holder,     \* the call that has the lock of the Admin's profile store, or None
  writer,     \* the call that has the lock of the config store, or None
  up,         \* does the service take calls?
  sweep,      \* the expired diagnostics the start has left to purge
  crashes

samplesVars == <<owner, profile, files>>
diagnosticVars == <<diagnostic, audio>>
locks == <<holder, writer>>
service == <<up, sweep>>
vars == <<samplesVars, config, diagnosticVars, stream, admin, locks, service, crashes>>

NoScores == [u \in {} |-> 0]
NoStream ==
  [phase |-> "idle", purpose |-> None, user |-> None, setting |-> None,
   processed |-> FALSE, failed |-> FALSE, scores |-> NoScores, told |-> None]
NoCall == [phase |-> "idle", user |-> None, rows |-> {}, left |-> {}, setting |-> None]
Setting(s, revision) == [threshold |-> s.threshold, margin |-> s.margin, revision |-> revision]

SamplesOf(u) == {s \in Samples : owner[s] = u}

(* Any enrollments before; each row has its file, each profile its rows.   *)
Init ==
  /\ owner \in {f \in [Samples -> UserIds \cup {None}] : \A s \in Streams : f[s] = None}
  /\ profile = [u \in UserIds |-> SamplesOf(u)]
  /\ files = {s \in Samples : owner[s] # None}
  /\ \E s \in Settings : config = Setting(s, 1)
  /\ diagnostic = [s \in Streams |-> None]
  /\ audio = {}
  /\ stream = [s \in Streams |-> NoStream]
  /\ admin = [a \in Admins |-> NoCall]
  /\ holder = None /\ writer = None
  /\ up = TRUE /\ sweep = {} /\ crashes = 0

(* The event loop stores one outcome at a time, and runs nothing else.     *)
LoopIsFree == \A s \in Streams : stream[s].phase \notin {"adding", "recording"}

-----------------------------------------------------------------------------
(* The streams.                                                            *)

(* The settings are those of the start of the stream.                      *)
Start(s) ==
  /\ up /\ LoopIsFree /\ stream[s].phase = "idle"
  /\ \/ stream' = [stream EXCEPT ![s] =
          [NoStream EXCEPT !.phase = "open", !.purpose = "IDENTIFICATION", !.setting = config]]
     \/ \E u \in UserIds : stream' = [stream EXCEPT ![s] =
          [NoStream EXCEPT !.phase = "open", !.purpose = "ENROLLMENT", !.user = u]]
  /\ UNCHANGED <<samplesVars, config, diagnosticVars, admin, locks, service, crashes>>

Prepared(s, processed, failed, scores) ==
  stream' = [stream EXCEPT ![s].phase = "prepared", ![s].processed = processed,
                           ![s].failed = failed, ![s].scores = scores]

(* The audio is rejected (too short, too quiet, not speech, no WAV).       *)
Rejected(s) == Prepared(s, FALSE, TRUE, NoScores)

(* The embedding fails; the profiles were read.                            *)
EmbeddingFails(s) == Prepared(s, TRUE, TRUE, NoScores)

(* The profiles as they are now are compared with the voice, later.  With  *)
(* none the voice is not even embedded.                                    *)
Profiles == {u \in UserIds : profile[u] # {}}
Compared(s) ==
  /\ stream[s].purpose = "IDENTIFICATION"
  /\ \E scores \in [Profiles -> Scores] : Prepared(s, TRUE, FALSE, scores)

Embedded(s) == stream[s].purpose = "ENROLLMENT" /\ Prepared(s, TRUE, FALSE, NoScores)

(* The worker of a stream that has ended.                                  *)
Prepare(s) ==
  /\ up /\ stream[s].phase = "open"
  /\ Rejected(s) \/ EmbeddingFails(s) \/ Compared(s) \/ Embedded(s)
  /\ UNCHANGED <<samplesVars, config, diagnosticVars, admin, locks, service, crashes>>

Told(s, answer) == [stream EXCEPT ![s].phase = "done", ![s].told = answer]

(* The deadline or the client takes the call away before anything is kept. *)
Cancelled(s) ==
  /\ up /\ LoopIsFree /\ stream[s].phase \in {"open", "prepared"}
  /\ stream' = Told(s, "CANCELLED")
  /\ UNCHANGED <<samplesVars, config, diagnosticVars, admin, locks, service, crashes>>

-----------------------------------------------------------------------------
(* An enrollment is stored.                                                *)

Enrolling(s) == stream[s].purpose = "ENROLLMENT"

(* Audio that was processed was not rejected; other audio may have been.   *)
Refused(s) ==
  /\ up /\ LoopIsFree /\ stream[s].phase = "prepared"
  /\ Enrolling(s) /\ stream[s].failed
  /\ \E answer \in {"FAILED"} \cup (IF stream[s].processed THEN {} ELSE {"REJECTED"}) :
       stream' = Told(s, answer)
  /\ UNCHANGED <<samplesVars, config, diagnosticVars, admin, locks, service, crashes>>

WriteSample(s) ==
  /\ up /\ LoopIsFree /\ stream[s].phase = "prepared"
  /\ Enrolling(s) /\ ~stream[s].failed
  /\ files' = files \cup {s}
  /\ stream' = [stream EXCEPT ![s].phase = "adding"]
  /\ UNCHANGED <<owner, profile, config, diagnosticVars, admin, locks, service, crashes>>

(* The mean over all rows the user has in this transaction.                *)
_rebuild_profile(u) == profile' = [profile EXCEPT ![u] = {s \in Samples : owner'[s] = u}]

add_sample(s) ==
  /\ up /\ stream[s].phase = "adding"
  /\ owner' = [owner EXCEPT ![s] = stream[s].user]
  /\ _rebuild_profile(stream[s].user)
  /\ stream' = Told(s, "ACCEPTED")
  /\ UNCHANGED <<files, config, diagnosticVars, admin, locks, service, crashes>>

(* The transaction is rolled back (the database is locked, the embeddings  *)
(* differ in dimension) and the file is removed.                           *)
AddFails(s) ==
  /\ up /\ stream[s].phase = "adding"
  /\ files' = files \ {s}
  /\ stream' = Told(s, "FAILED")
  /\ UNCHANGED <<owner, profile, config, diagnosticVars, admin, locks, service, crashes>>

-----------------------------------------------------------------------------
(* An identification is recorded.                                          *)

Verdict(outcome, user, reason) == [outcome |-> outcome, user |-> user, reason |-> reason]

(* The users from the best to the worst, by their id where scores agree.   *)
Better(scores, u, v) == scores[u] > scores[v] \/ (scores[u] = scores[v] /\ u < v)
Rankings(scores) ==
  {ranked \in UNION {[1 .. n -> DOMAIN scores] : n \in 0 .. MaxUsers} :
     /\ \A u \in DOMAIN scores : \E i \in DOMAIN ranked : ranked[i] = u
     /\ \A i, j \in DOMAIN ranked : i < j => Better(scores, ranked[i], ranked[j])}

(* The best user, if above the threshold and ahead of the second by the    *)
(* margin; a lead of just the margin is enough.                            *)
classify_scores(scores, ranked, setting) ==
  CASE 1 \notin DOMAIN ranked -> Verdict("NOT_RECOGNIZED", None, "NO_PROFILES")
    [] 1 \in DOMAIN ranked /\ scores[ranked[1]] < setting.threshold ->
         Verdict("NOT_RECOGNIZED", None, "BELOW_THRESHOLD")
    [] 2 \in DOMAIN ranked /\ scores[ranked[1]] >= setting.threshold
         /\ scores[ranked[1]] - scores[ranked[2]] < setting.margin ->
         Verdict("NOT_RECOGNIZED", None, "AMBIGUOUS_MARGIN")
    [] OTHER -> Verdict("IDENTIFIED", ranked[1], None)

Identifying(s) == stream[s].purpose = "IDENTIFICATION"

_identify(s, ranked) ==
  IF stream[s].failed THEN Verdict("FAILED", None, "FAILED")
  ELSE classify_scores(stream[s].scores, ranked, stream[s].setting)

WriteAudio(s) ==
  /\ up /\ LoopIsFree /\ stream[s].phase = "prepared" /\ Identifying(s)
  /\ audio' = IF stream[s].processed THEN audio \cup {s} ELSE audio
  /\ stream' = [stream EXCEPT ![s].phase = "recording"]
  /\ UNCHANGED <<samplesVars, config, diagnostic, admin, locks, service, crashes>>

record(s) ==
  /\ up /\ stream[s].phase = "recording"
  /\ \E ranked \in Rankings(stream[s].scores) :
       /\ diagnostic' = [diagnostic EXCEPT ![s] =
            [verdict |-> _identify(s, ranked), candidates |-> stream[s].scores,
             setting |-> stream[s].setting, audio |-> stream[s].processed, detail |-> "kept"]]
       /\ stream' = Told(s, _identify(s, ranked).outcome)
  /\ UNCHANGED <<samplesVars, config, audio, admin, locks, service, crashes>>

RecordFails_KeepsAudio(s) ==
  /\ up /\ stream[s].phase = "recording"
  /\ stream' = Told(s, "ERROR")
  /\ UNCHANGED <<samplesVars, config, diagnosticVars, admin, locks, service, crashes>>

(* The row could not be written: the audio goes, the stream fails.         *)
RecordFails(s) ==
  /\ up /\ stream[s].phase = "recording"
  /\ audio' = audio \ {s}
  /\ stream' = Told(s, "ERROR")
  /\ UNCHANGED <<samplesVars, config, diagnostic, admin, locks, service, crashes>>

-----------------------------------------------------------------------------
(* The Admin.                                                              *)

(* Some samples of a user, or all of them (delete_profile), as they were   *)
(* listed: before the lock is taken, so some may be gone by then.          *)
AskToDelete(a) ==
  /\ up /\ admin[a].phase = "idle"
  /\ \E u \in UserIds : \E ids \in (SUBSET SamplesOf(u)) \ {{}} :
       admin' = [admin EXCEPT ![a].phase = "asked", ![a].user = u, ![a].rows = ids]
  /\ UNCHANGED <<samplesVars, config, diagnosticVars, stream, locks, service, crashes>>

SelectRows_Unlocked(a) ==
  LET rows == admin[a].rows \cap SamplesOf(admin[a].user) IN
  /\ up /\ admin[a].phase = "asked"
  /\ admin' = [admin EXCEPT ![a].phase = IF rows = {} THEN "done" ELSE "selected",
                            ![a].rows = rows]
  /\ UNCHANGED <<samplesVars, config, diagnosticVars, stream, locks, service, crashes>>

SelectRows(a) ==
  LET rows == admin[a].rows \cap SamplesOf(admin[a].user) IN
  /\ up /\ admin[a].phase = "asked" /\ holder = None
  /\ admin' = [admin EXCEPT ![a].phase = IF rows = {} THEN "done" ELSE "selected",
                            ![a].rows = rows]
  /\ holder' = IF rows = {} THEN None ELSE a
  /\ UNCHANGED <<samplesVars, config, diagnosticVars, stream, writer, service, crashes>>

delete_samples_Stale(a) ==
  /\ up /\ admin[a].phase = "selected"
  /\ owner' = [s \in Samples |-> IF s \in admin[a].rows THEN None ELSE owner[s]]
  /\ admin' = [admin EXCEPT ![a].phase = "unlinking", ![a].left = admin[a].rows]
  /\ holder' = None
  /\ UNCHANGED <<files, profile, config, diagnosticVars, stream, writer, service, crashes>>

delete_samples(a) ==
  LET u == admin[a].user IN
  /\ up /\ admin[a].phase = "selected"
  /\ owner' = [s \in Samples |-> IF s \in admin[a].rows THEN None ELSE owner[s]]
  /\ _rebuild_profile(u)
  /\ admin' = [admin EXCEPT ![a].phase = "unlinking", ![a].left = admin[a].rows]
  /\ holder' = None
  /\ UNCHANGED <<files, config, diagnosticVars, stream, writer, service, crashes>>

DeleteFails(a) ==
  /\ up /\ admin[a].phase = "selected"
  /\ admin' = [admin EXCEPT ![a].phase = "failed", ![a].rows = {}]
  /\ holder' = None
  /\ UNCHANGED <<samplesVars, config, diagnosticVars, stream, writer, service, crashes>>

(* The files go after the commit, one by one.                              *)
Unlink(a) ==
  /\ up /\ admin[a].phase = "unlinking"
  /\ \E s \in admin[a].left :
       /\ files' = files \ {s}
       /\ admin' = [admin EXCEPT ![a].left = @ \ {s},
                                 ![a].phase = IF admin[a].left = {s} THEN "done" ELSE @]
  /\ UNCHANGED <<owner, profile, config, diagnosticVars, stream, locks, service, crashes>>

(* The new settings, under the next revision: read and written under the   *)
(* lock of the config store.                                               *)
ReadRevision(a) ==
  /\ up /\ admin[a].phase = "idle" /\ writer = None
  /\ \E s \in Settings :
       admin' = [admin EXCEPT ![a].phase = "writing",
                              ![a].setting = Setting(s, config.revision + 1)]
  /\ writer' = a
  /\ UNCHANGED <<samplesVars, config, diagnosticVars, stream, holder, service, crashes>>

WriteConfig(a) ==
  /\ up /\ admin[a].phase = "writing"
  /\ config' = admin[a].setting
  /\ admin' = [admin EXCEPT ![a].phase = "done"]
  /\ writer' = None
  /\ UNCHANGED <<samplesVars, diagnosticVars, stream, holder, service, crashes>>

-----------------------------------------------------------------------------
(* Time, crashes and the start.                                            *)

(* A diagnostic's detail is kept 15 minutes, or 24 hours when nobody was   *)
(* identified.  Its audio and its candidates are not shown any longer.     *)
Expire(s) ==
  /\ diagnostic[s] # None /\ diagnostic[s].detail = "kept"
  /\ diagnostic' = [diagnostic EXCEPT ![s].detail = "expired"]
  /\ UNCHANGED <<samplesVars, config, audio, stream, admin, locks, service, crashes>>

(* What was not committed is lost, files stay; the next start finds the    *)
(* details that have expired.                                              *)
Crash ==
  /\ crashes < MaxCrashes /\ crashes' = crashes + 1
  /\ up' = FALSE
  /\ sweep' = {s \in Streams : diagnostic[s] # None /\ diagnostic[s].detail = "expired"}
  /\ stream' = [s \in Streams |->
       IF stream[s].phase \in {"idle", "done"} THEN stream[s]
       ELSE [stream[s] EXCEPT !.phase = "done", !.told = "LOST"]]
  /\ admin' = [a \in Admins |->
       IF admin[a].phase \in {"idle", "done"} THEN admin[a]
       ELSE [admin[a] EXCEPT !.phase = "lost"]]
  /\ holder' = None /\ writer' = None
  /\ UNCHANGED <<samplesVars, config, diagnosticVars>>

SweepAudio(s) ==
  /\ ~up /\ s \in sweep /\ diagnostic[s].audio /\ s \in audio
  /\ audio' = audio \ {s}
  /\ UNCHANGED <<samplesVars, config, diagnostic, stream, admin, locks, service, crashes>>

Purged(s) ==
  diagnostic' = [diagnostic EXCEPT
    ![s].detail = "purged", ![s].audio = FALSE, ![s].candidates = NoScores]

(* The row is kept until its audio is gone.                                *)
SweepRow(s) ==
  /\ ~up /\ s \in sweep /\ ~(diagnostic[s].audio /\ s \in audio)
  /\ Purged(s)
  /\ sweep' = sweep \ {s}
  /\ UNCHANGED <<samplesVars, config, audio, stream, admin, locks, up, crashes>>

Ready ==
  /\ ~up /\ sweep = {}
  /\ up' = TRUE
  /\ UNCHANGED <<sweep, samplesVars, config, diagnosticVars, stream, admin, locks, crashes>>

-----------------------------------------------------------------------------
Streaming(s) ==
  \/ Start(s) \/ Prepare(s) \/ Cancelled(s)
  \/ Refused(s) \/ WriteSample(s) \/ add_sample(s) \/ AddFails(s)
  \/ WriteAudio(s) \/ record(s) \/ RecordFails(s)

Administration(a) ==
  \/ AskToDelete(a) \/ SelectRows(a) \/ delete_samples(a) \/ DeleteFails(a) \/ Unlink(a)
  \/ ReadRevision(a) \/ WriteConfig(a)

Next ==
  \/ \E s \in Streams : Streaming(s) \/ Expire(s) \/ SweepAudio(s) \/ SweepRow(s)
  \/ \E a \in Admins : Administration(a)
  \/ Crash \/ Ready

Spec == Init /\ [][Next]_vars

-----------------------------------------------------------------------------
(* A profile is the mean of the samples its user has, no more and no less, *)
(* and every sample has its file: also when an enrollment is stored while  *)
(* an Admin deletes, and whatever a crash cuts off.                        *)
SamplesAreWhole ==
  /\ \A u \in UserIds : profile[u] = SamplesOf(u)
  /\ \A s \in Samples : owner[s] # None => s \in files

(* Two deletions never both report the same sample as deleted.             *)
DeletedOnce ==
  \A a, b \in Admins :
    a # b /\ {admin[a].phase, admin[b].phase} \subseteq {"unlinking", "done"}
      => admin[a].rows \cap admin[b].rows = {}

(* What is told of a voice can be looked up: the row of its diagnostic     *)
(* says the same, its audio is there exactly as long as the row shows it,  *)
(* and by what was recorded with it the user it names was above the        *)
(* threshold and ahead of everyone else by the margin, whatever the Admin  *)
(* changed meanwhile.  No audio is left of what nobody can look up, but    *)
(* for what a crash cuts off (nothing sweeps the audio without a row).     *)
RowIsSound(row) ==
  row.verdict.outcome = "IDENTIFIED" /\ row.detail # "purged" =>
    LET best == row.candidates[row.verdict.user]
    IN  /\ row.verdict.user \in DOMAIN row.candidates
        /\ best >= row.setting.threshold
        /\ \A u \in DOMAIN row.candidates \ {row.verdict.user} :
             best >= row.candidates[u] + row.setting.margin

DiagnosticsAreTrue ==
  \A s \in Streams :
    /\ stream[s].told \in {"IDENTIFIED", "NOT_RECOGNIZED", "FAILED"} /\ Identifying(s) =>
         diagnostic[s] # None /\ diagnostic[s].verdict.outcome = stream[s].told
    /\ diagnostic[s] # None =>
         /\ RowIsSound(diagnostic[s])
         /\ diagnostic[s].detail = "kept" => (diagnostic[s].audio <=> s \in audio)
         /\ diagnostic[s].detail = "purged" => s \notin audio
    /\ s \in audio /\ diagnostic[s] = None =>
         stream[s].phase = "recording" \/ stream[s].told = "LOST"

=============================================================================
