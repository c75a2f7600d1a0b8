---------------------------- MODULE JobScheduler ----------------------------
(***************************************************************************)
(* Ephemeral jobs of nyra-skills.  The delayed-action skill does its first *)
(* action at once ("turn on the light ...") and schedules the follow-up    *)
(* ("... and turn it off after 20 seconds") as a row of the SQLite table   *)
(* jobs.  One worker task polls the table, claims the due rows in order    *)
(* and sends each follow-up to the house through the Router.  Everything   *)
(* runs on one event loop, so only the calls to the Router suspend; the    *)
(* process may die anywhere, and a command that was sent may still be      *)
(* executed after its sender stopped waiting for it.                       *)
(***************************************************************************)
EXTENDS Naturals, FiniteSets

CONSTANTS
  Jobs,        \* delayed actions, each with the id its job will have
  Delay,       \* delay_seconds of a delayed action, in clock ticks
  MaxTime,     \* bound: the clock stops here
  MaxCrashes   \* bound: how often the process dies

ASSUME JobsAssumption ==
  /\ Jobs \subseteq Nat /\ IsFiniteSet(Jobs)
  /\ Delay \in [Jobs -> Nat \ {0}]    \* parse_delayed_action refuses others
  /\ MaxTime \in Nat
  /\ MaxCrashes \in Nat

VARIABLES
  now,      \* the clock
  crashes,  \* how often the process died
  skill,    \* the turn of a delayed action
  row,      \* the table jobs
  worker,   \* the task of _run_loop and the locals of its run_due
  pending,  \* follow-up commands on their way to the house
  done,     \* follow-up commands the house executed
  cancelled \* history: jobs whose cancellation was confirmed

vars == <<now, crashes, skill, row, worker, pending, done, cancelled>>

-----------------------------------------------------------------------------
Terminal == {"CANCELLED", "COMPLETED", "FAILED", "UNKNOWN_OUTCOME"}

NoJob == [status |-> "ABSENT", at |-> 0]

(* The worker sleeps between two polls, waits for the house while it runs  *)
(* a job of its batch, is dead after an exception, or the process is down. *)
Down == [stage |-> "down"]
Dead == [stage |-> "dead"]
Asleep == [stage |-> "asleep"]
Busy == [stage: {"running"}, job: Jobs, batch: SUBSET Jobs, current: Nat]

Up == worker # Down
Runs(j) == worker.stage = "running" /\ worker.job = j

(* Definitions named X_Y are faulty forms of X that the properties below   *)
(* must tell from it; no specification uses them.                          *)
Init ==
  /\ now = 0
  /\ crashes = 0
  /\ skill = [j \in Jobs |-> "idle"]
  /\ row = [j \in Jobs |-> NoJob]
  /\ worker = Asleep
  /\ pending = [j \in Jobs |-> 0]
  /\ done = [j \in Jobs |-> 0]
  /\ cancelled = {}

-----------------------------------------------------------------------------
(* The skill sends its first action to the house ...                       *)
Act(j) ==
  /\ Up
  /\ skill[j] = "idle"
  /\ skill' = [skill EXCEPT ![j] = "acting"]
  /\ UNCHANGED <<now, crashes, row, worker, pending, done, cancelled>>

(* ... which is not reported a success (or whose target is not resolved).  *)
GiveUp(j) ==
  /\ Up
  /\ skill[j] = "acting"
  /\ skill' = [skill EXCEPT ![j] = "failed"]
  /\ UNCHANGED <<now, crashes, row, worker, pending, done, cancelled>>

(* ... or is, and schedule_action adds the row.                            *)
Schedule(j) ==
  /\ Up
  /\ skill[j] = "acting"
  /\ skill' = [skill EXCEPT ![j] = "handled"]
  /\ row' = [row EXCEPT ![j] = [status |-> "SCHEDULED", at |-> now + Delay[j]]]
  /\ UNCHANGED <<now, crashes, worker, pending, done, cancelled>>

(* POST /v1/jobs/{job_id}/cancel.                                          *)
Cancel(j) ==
  /\ Up
  /\ row[j].status = "SCHEDULED"
  /\ row' = [row EXCEPT ![j].status = "CANCELLED"]
  /\ cancelled' = cancelled \cup {j}
  /\ UNCHANGED <<now, crashes, skill, worker, pending, done>>

-----------------------------------------------------------------------------
(* ORDER BY execute_at, job_id.                                            *)
Before_Id(i, j) == i < j

Before(i, j) ==
  \/ row[i].at < row[j].at
  \/ row[i].at = row[j].at /\ i < j

list_due_Now(current) == {j \in Jobs : row[j].status = "SCHEDULED" /\ row[j].at = current}

list_due(current) == {j \in Jobs : row[j].status = "SCHEDULED" /\ row[j].at <= current}

(* The jobs of a batch that claim_due still gives to the worker.           *)
Claimable_Listed(db, batch, current) == batch

Claimable(db, batch, current) ==
  {j \in batch : db[j].status = "SCHEDULED" /\ db[j].at <= current}

(* The loop of run_due goes on with db and what is left of its batch: the  *)
(* first claimable job becomes RUNNING and its follow-up is sent, or the   *)
(* worker sleeps.  An sqlite3.Error of claim_due ends it.                  *)
Continue(db, batch, current) ==
  LET left == Claimable(db, batch, current)
  IN \/ /\ left = {}
        /\ worker' = Asleep
        /\ row' = db
        /\ UNCHANGED pending
     \/ \E j \in left :
          /\ \A i \in left \ {j} : Before(j, i)
          /\ worker' = [stage |-> "running", job |-> j, current |-> current,
                        batch |-> {i \in batch : Before(j, i)}]
          /\ row' = [db EXCEPT ![j].status = "RUNNING"]
          /\ pending' = [pending EXCEPT ![j] = @ + 1]
     \/ /\ batch # {}
        /\ worker' = Dead
        /\ row' = db
        /\ UNCHANGED pending

Poll ==
  /\ worker = Asleep
  /\ list_due(now) # {}
  /\ Continue(row, list_due(now), now)
  /\ UNCHANGED <<now, crashes, skill, done, cancelled>>

(* set_terminal: an UPDATE without a condition on the status.              *)
Finish(j, status) ==
  /\ Continue([row EXCEPT ![j].status = status], worker.batch, worker.current)
  /\ UNCHANGED <<now, crashes, skill, done, cancelled>>

(* The house executed the follow-up, and the answer arrives in time.       *)
Succeed(j) ==
  /\ Runs(j)
  /\ done[j] > 0
  /\ Finish(j, "COMPLETED")

(* The Router, or Home Assistant, refused it: it will never be executed.   *)
Refused(j) ==
  /\ Runs(j)
  /\ pending[j] = 0 /\ done[j] = 0
  /\ Finish(j, "FAILED")

(* The Router had no answer from Home Assistant: UNKNOWN_OUTCOME.          *)
Uncertain(j) ==
  /\ Runs(j)
  /\ Finish(j, "UNKNOWN_OUTCOME")

(* The call to the Router timed out or broke, whatever became of the       *)
(* follow-up: an exception, recorded as a failure.                         *)
TimesOut(j) ==
  /\ Runs(j)
  /\ Finish(j, "FAILED")

(* An sqlite3.Error of list_due or set_terminal ends _run_loop for good.   *)
StoreFails ==
  /\ worker.stage \in {"asleep", "running"}
  /\ worker' = Dead
  /\ UNCHANGED <<now, crashes, skill, row, pending, done, cancelled>>

-----------------------------------------------------------------------------
(* A follow-up is refused, or lost on its way to the house.                *)
Lose(j) ==
  /\ pending[j] > 0
  /\ pending' = [pending EXCEPT ![j] = @ - 1]
  /\ UNCHANGED <<now, crashes, skill, row, worker, done, cancelled>>

(* The house executes a follow-up, however late.                           *)
Execute(j) ==
  /\ pending[j] > 0
  /\ pending' = [pending EXCEPT ![j] = @ - 1]
  /\ done' = [done EXCEPT ![j] = @ + 1]
  /\ UNCHANGED <<now, crashes, skill, row, worker, cancelled>>

(* The process dies, or shuts down and cancels its worker.                 *)
Crash ==
  /\ Up
  /\ crashes < MaxCrashes
  /\ crashes' = crashes + 1
  /\ worker' = Down
  /\ skill' = [j \in Jobs |-> IF skill[j] = "acting" THEN "failed" ELSE skill[j]]
  /\ UNCHANGED <<now, row, pending, done, cancelled>>

(* recover_interrupted                                                     *)
Recovered_Again(db) ==
  [j \in Jobs |-> IF db[j].status = "RUNNING" THEN [db[j] EXCEPT !.status = "SCHEDULED"]
                  ELSE db[j]]

Recovered(db) ==
  [j \in Jobs |-> IF db[j].status = "RUNNING" THEN [db[j] EXCEPT !.status = "UNKNOWN_OUTCOME"]
                  ELSE db[j]]

(* JobStore's constructor and start().                                     *)
Restart ==
  /\ ~Up
  /\ row' = Recovered(row)
  /\ worker' = Asleep
  /\ UNCHANGED <<now, crashes, skill, pending, done, cancelled>>

Tick ==
  /\ now < MaxTime
  /\ now' = now + 1
  /\ UNCHANGED <<crashes, skill, row, worker, pending, done, cancelled>>

Answer(j) == Succeed(j) \/ Refused(j) \/ Uncertain(j) \/ TimesOut(j)

Next ==
  \/ \E j \in Jobs :
       \/ Act(j) \/ GiveUp(j) \/ Schedule(j) \/ Cancel(j)
       \/ Answer(j)
       \/ Lose(j) \/ Execute(j)
  \/ Poll \/ StoreFails
  \/ Crash \/ Restart
  \/ Tick

Spec == Init /\ [][Next]_vars

(* The Router's client has a timeout, the worker polls for ever, systemd   *)
(* restarts the service, and time passes.                                  *)
Fairness ==
  /\ \A j \in Jobs : WF_vars(Answer(j))
  /\ WF_vars(Poll) /\ WF_vars(Restart) /\ WF_vars(Tick)

FairSpec == Spec /\ Fairness

-----------------------------------------------------------------------------
(* The shape of the state; a follow-up was promised to the user exactly    *)
(* when the table holds it.                                                *)
TypeOK ==
  /\ now \in Nat
  /\ crashes \in 0 .. MaxCrashes
  /\ skill \in [Jobs -> {"idle", "acting", "handled", "failed"}]
  /\ row \in [Jobs -> [status: {"ABSENT", "SCHEDULED", "RUNNING"} \cup Terminal, at: Nat]]
  /\ \A j \in Jobs : skill[j] = "handled" <=> row[j].status # "ABSENT"
  /\ worker \in Busy \cup {Down, Dead, Asleep}
  /\ pending \in [Jobs -> Nat]
  /\ done \in [Jobs -> Nat]
  /\ cancelled \subseteq Jobs

(* "A running job is never blindly re-executed": whatever crashes, times   *)
(* out or fails, a follow-up is sent, and so executed, once at most.       *)
SentAtMostOnce ==
  \A j \in Jobs : pending[j] + done[j] <= 1

(* "CANCEL prevents a scheduled job from starting": the house never sees   *)
(* the follow-up of a cancelled job, even if it was cancelled after the    *)
(* worker had listed it as due.                                            *)
CancelledIsNeverSent ==
  \A j \in cancelled : pending[j] + done[j] = 0

(* Jobs start in the order in which they fall due, so that of two          *)
(* follow-ups for one device the later one has the last word: nothing that *)
(* fell due earlier is still scheduled when a job runs, although the batch *)
(* of the worker is as old as its first job.                               *)
StartedInDueOrder ==
  \A i, j \in Jobs :
    row[j].status = "RUNNING" /\ row[i].status = "SCHEDULED" => Before(j, i)

(* A RUNNING row is the job the worker waits for, or the one its death     *)
(* interrupted, which the next start recovers: never two, and none while   *)
(* the worker polls.                                                       *)
RunningIsInHand ==
  /\ \A i, j \in Jobs : row[i].status = "RUNNING" /\ row[j].status = "RUNNING" => i = j
  /\ \A j \in Jobs : row[j].status = "RUNNING" => Runs(j) \/ worker \in {Dead, Down}

(* A terminal status never changes again: set_terminal and the recovery do *)
(* not overwrite a cancellation, nor a late answer a recovered job.        *)
TerminalIsFinal ==
  [][\A j \in Jobs : row[j].status \in Terminal => row'[j].status = row[j].status]_row

(* "Overdue scheduled jobs run as soon as practical": a due job starts (or *)
(* is cancelled), across crashes, unless an exception killed the worker.   *)
EveryDueJobStarts ==
  \A j \in Jobs :
    (row[j].status = "SCHEDULED" /\ row[j].at <= now) ~>
      (row[j].status # "SCHEDULED" \/ worker = Dead)
=============================================================================
