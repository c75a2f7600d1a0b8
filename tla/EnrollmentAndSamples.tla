------------------------ MODULE EnrollmentAndSamples ------------------------
(***************************************************************************)
(* Enrollment sessions, and what Speaker-ID keeps of their recordings and  *)
(* of the other streams of audio (SpeakerStore).  Enrollment sees of       *)
(* Speaker-ID a verdict, and the two share no state.                       *)
(***************************************************************************)
EXTENDS Enrollment

CONSTANTS
  OldSamples,  \* samples of earlier enrollments
  MaxUsers,    \* bound: Speaker-ID's users are numbers, in the order of their ids
  Admins,      \* calls of the Admin
  Scores,      \* similarities of a voice and a profile
  Settings,    \* bound: the settings an Admin chooses
  MaxCrashes   \* bound: crashes of Speaker-ID

VARIABLES
  owner, profile, files, config, diagnostic, kept, voice, admin, holder, writer, up,
  sweep, crashes

store ==
  <<owner, profile, files, config, diagnostic, kept, voice, admin, holder, writer, up,
    sweep, crashes>>

Store == INSTANCE SpeakerStore WITH
  Streams <- Captures, None <- NoUser, audio <- kept, stream <- voice

ASSUME StoreAssumption == Store!SpeakerStoreAssumption

(* A profile is the mean of the samples its user has, and every sample has *)
(* its file, whoever enrolls and deletes and whatever a crash cuts off     *)
(* (profiles.py, add_sample and delete_samples).                           *)
SamplesAreWhole == Store!SamplesAreWhole

(* Two deletions never both report the same sample as deleted              *)
(* (profiles.py, delete_samples).                                          *)
DeletedOnce == Store!DeletedOnce

(* What is told of a voice can be looked up and agrees with its diagnostic *)
(* row, whose audio is there exactly as long as the row shows it           *)
(* (audio_streaming.py, _identify; diagnostics.py, record and cleanup).    *)
DiagnosticsAreTrue == Store!DiagnosticsAreTrue
=============================================================================
