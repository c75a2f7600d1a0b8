------------------------ MODULE JobSchedulerProofs ------------------------
(***************************************************************************)
(* The safety properties of JobScheduler for any set of jobs, delays, time *)
(* bound and number of crashes.  None is inductive: SentAtMostOnce needs   *)
(* to know which statuses say that nothing was sent yet, StartedInDueOrder *)
(* what the batch of the worker still holds, and both what a RUNNING row   *)
(* says of the worker.                                                     *)
(***************************************************************************)
EXTENDS JobScheduler, TLAPS

JobRows == [status: {"ABSENT", "SCHEDULED", "RUNNING"} \cup Terminal, at: Nat]

Unsent == {"ABSENT", "SCHEDULED", "CANCELLED"}

(* The job in hand is RUNNING.                                             *)
InHandIsRunning == \A j \in Jobs : Runs(j) => row[j].status = "RUNNING"

(* Nothing was sent for a job that was not claimed.                        *)
UnclaimedIsUnsent ==
  \A j \in Jobs : row[j].status \in Unsent => pending[j] = 0 /\ done[j] = 0

CancelledStays == \A j \in cancelled : row[j].status = "CANCELLED"

(* A RUNNING job was due, ...                                              *)
RunningIsDue == \A j \in Jobs : row[j].status = "RUNNING" => row[j].at <= now

(* ... and while the worker waits for it, every scheduled job is behind it *)
(* in the batch or fell due after the batch was listed.                    *)
BatchIsBehind ==
  worker.stage = "running" =>
    /\ row[worker.job].at <= worker.current
    /\ worker.current <= now
    /\ \A i \in worker.batch : Before(worker.job, i)
    /\ \A i \in Jobs :
         row[i].status = "SCHEDULED" => i \in worker.batch \/ worker.current < row[i].at

IInv ==
  /\ TypeOK
  /\ InHandIsRunning
  /\ RunningIsInHand
  /\ UnclaimedIsUnsent
  /\ SentAtMostOnce
  /\ CancelledStays
  /\ RunningIsDue
  /\ BatchIsBehind
  /\ StartedInDueOrder

-----------------------------------------------------------------------------
(* What the loop of run_due goes on with: a table db with no job in hand,  *)
(* which differs from row only by the terminal status of the last one, and *)
(* a batch outside of which nothing is due.                                *)
Waiting(db, batch, current) ==
  /\ db \in [Jobs -> JobRows]
  /\ batch \subseteq Jobs
  /\ current \in Nat /\ current <= now
  /\ \A j \in Jobs :
       /\ db[j].at = row[j].at
       /\ db[j].status # "RUNNING"
       /\ \/ db[j].status = row[j].status
          \/ row[j].status = "RUNNING" /\ db[j].status \in Terminal \ {"CANCELLED"}
       /\ db[j].status = "SCHEDULED" => j \in batch \/ current < db[j].at

(* The shapes a worker can have, told apart by the stage.                  *)
LEMMA WorkerShapes ==
  ASSUME TypeOK
  PROVE  \/ /\ worker.stage = "running"
            /\ worker.job \in Jobs
            /\ worker.batch \in SUBSET Jobs
            /\ worker.current \in Nat
            /\ worker # Down /\ worker # Dead /\ worker # Asleep
         \/ worker = Down /\ worker.stage = "down"
         \/ worker = Dead /\ worker.stage = "dead"
         \/ worker = Asleep /\ worker.stage = "asleep"
<1>1. CASE worker \in Busy
  BY <1>1 DEF Busy, Down, Dead, Asleep
<1>2. CASE worker \in {Down, Dead, Asleep}
  BY <1>2 DEF Down, Dead, Asleep
<1>3. QED
  BY <1>1, <1>2 DEF TypeOK

(* The types of the table and the counters, without the rest of TypeOK.    *)
LEMMA TypesOf ==
  ASSUME TypeOK
  PROVE  /\ now \in Nat
         /\ row \in [Jobs -> JobRows]
         /\ pending \in [Jobs -> Nat]
         /\ done \in [Jobs -> Nat]
         /\ cancelled \subseteq Jobs
BY DEF TypeOK, JobRows

-----------------------------------------------------------------------------
(* run_due goes to sleep or dies between two jobs.                         *)
LEMMA ContinueRests ==
  ASSUME IInv, NEW db, NEW batch, NEW current,
         Waiting(db, batch, current),
         worker' = Asleep \/ worker' = Dead,
         row' = db,
         UNCHANGED <<now, crashes, skill, pending, done, cancelled>>
  PROVE  IInv'
<1> USE JobsAssumption
<1>1. TypeOK'
  BY DEF IInv, TypeOK, Waiting, JobRows, Terminal
<1>2. \A j \in Jobs : row'[j].status # "RUNNING"
  BY DEF Waiting
<1>3. worker'.stage # "running"
  BY DEF Asleep, Dead
<1>4. InHandIsRunning' /\ BatchIsBehind'
  BY <1>3 DEF InHandIsRunning, Runs, BatchIsBehind
<1>5. RunningIsInHand' /\ RunningIsDue' /\ StartedInDueOrder'
  BY <1>2 DEF RunningIsInHand, RunningIsDue, StartedInDueOrder
<1>6. UnclaimedIsUnsent' /\ SentAtMostOnce'
  BY DEF IInv, UnclaimedIsUnsent, SentAtMostOnce, Waiting, Unsent, Terminal
<1>7. CancelledStays'
  BY DEF IInv, TypeOK, CancelledStays, Waiting
<1>8. QED
  BY <1>1, <1>4, <1>5, <1>6, <1>7 DEF IInv

(* run_due claims the first job of the batch that it still can.            *)
LEMMA ContinueClaims ==
  ASSUME IInv, NEW db, NEW batch, NEW current,
         Waiting(db, batch, current),
         NEW j \in Claimable(db, batch, current),
         \A i \in Claimable(db, batch, current) \ {j} : Before(j, i),
         worker' = [stage |-> "running", job |-> j, current |-> current,
                    batch |-> {i \in batch : Before(j, i)}],
         row' = [db EXCEPT ![j].status = "RUNNING"],
         pending' = [pending EXCEPT ![j] = @ + 1],
         UNCHANGED <<now, crashes, skill, done, cancelled>>
  PROVE  IInv'
<1> USE JobsAssumption
<1>1. j \in Jobs /\ db[j].status = "SCHEDULED" /\ db[j].at <= current /\ j \in batch
  BY DEF Claimable, Waiting
<1>2. row[j].status = "SCHEDULED"
  BY <1>1 DEF Waiting, Terminal
<1>3. /\ now \in Nat
      /\ row \in [Jobs -> JobRows]
      /\ pending \in [Jobs -> Nat]
      /\ done \in [Jobs -> Nat]
      /\ cancelled \subseteq Jobs
  BY TypesOf DEF IInv
<1>4. /\ row' \in [Jobs -> JobRows]
      /\ row'[j].status = "RUNNING"
      /\ \A i \in Jobs : row'[i].at = row[i].at
      /\ \A i \in Jobs \ {j} : row'[i] = db[i]
  BY <1>1 DEF Waiting, JobRows
<1>5. TypeOK'
  <2>1. worker' \in Busy
    BY <1>1 DEF Busy, Waiting
  <2>2. \A i \in Jobs : skill'[i] = "handled" <=> row'[i].status # "ABSENT"
    BY <1>1, <1>2, <1>4 DEF IInv, TypeOK, Waiting, Terminal
  <2>3. pending' \in [Jobs -> Nat]
    BY <1>1, <1>3
  <2>4. QED
    BY <1>3, <1>4, <2>1, <2>2, <2>3 DEF IInv, TypeOK, JobRows
<1>6. InHandIsRunning' /\ RunningIsInHand'
  <2>1. \A i \in Jobs : row'[i].status = "RUNNING" <=> i = j
    BY <1>1, <1>4 DEF Waiting
  <2>2. worker'.stage = "running" /\ worker'.job = j
    OBVIOUS
  <2>3. QED
    BY <2>1, <2>2 DEF InHandIsRunning, RunningIsInHand, Runs
<1>7. UnclaimedIsUnsent' /\ SentAtMostOnce'
  <2>1. pending[j] = 0 /\ done[j] = 0
    BY <1>1, <1>2 DEF IInv, UnclaimedIsUnsent, Unsent
  <2>2. /\ pending'[j] = 1
        /\ \A i \in Jobs \ {j} : pending'[i] = pending[i]
    BY <1>1, <1>3, <2>1
  <2>3. UnclaimedIsUnsent'
    BY <1>1, <1>4, <2>2 DEF IInv, UnclaimedIsUnsent, Unsent, Waiting, Terminal
  <2>4. SentAtMostOnce'
    BY <1>1, <1>3, <2>1, <2>2 DEF IInv, SentAtMostOnce
  <2>5. QED
    BY <2>3, <2>4
<1>8. CancelledStays'
  BY <1>1, <1>2, <1>3, <1>4 DEF IInv, CancelledStays, Waiting
<1>9. RunningIsDue'
  BY <1>1, <1>3, <1>4 DEF RunningIsDue, Waiting, JobRows
<1>10. BatchIsBehind'
  <2>1. /\ worker'.job = j
        /\ worker'.current = current
        /\ worker'.batch = {i \in batch : Before(j, i)}
    OBVIOUS
  <2>2. \A i \in Jobs : Before(j, i)' <=> Before(j, i)
    BY <1>1, <1>4 DEF Before
  <2>3. \A i \in worker'.batch : Before(j, i)'
    BY <2>1, <2>2 DEF Waiting
  <2>4. ASSUME NEW i \in Jobs, row'[i].status = "SCHEDULED"
        PROVE  i \in worker'.batch \/ current < row'[i].at
    <3>1. i # j /\ db[i].status = "SCHEDULED" /\ db[i].at = row'[i].at
      BY <2>4, <1>4
    <3>2. CASE i \in batch /\ db[i].at <= current
      <4>1. i \in Claimable(db, batch, current) \ {j}
        BY <3>1, <3>2 DEF Claimable
      <4>2. QED
        BY <4>1, <3>2, <2>1
    <3>3. CASE ~(i \in batch /\ db[i].at <= current)
      BY <3>1, <3>3 DEF Waiting, JobRows
    <3>4. QED
      BY <3>2, <3>3
  <2>5. row'[j].at <= current /\ current <= now'
    BY <1>1, <1>4 DEF Waiting
  <2>6. QED
    BY <2>1, <2>3, <2>4, <2>5, <1>1 DEF BatchIsBehind, Before
<1>11. StartedInDueOrder'
  <2>1. ASSUME NEW i \in Jobs, NEW k \in Jobs,
               row'[k].status = "RUNNING", row'[i].status = "SCHEDULED"
        PROVE  Before(k, i)'
    <3>1. k = j
      BY <2>1, <1>4 DEF Waiting
    <3>2. CASE i \in worker'.batch
      BY <3>1, <3>2, <1>10 DEF BatchIsBehind, Before
    <3>3. CASE current < row'[i].at
      BY <3>1, <3>3, <1>1, <1>4 DEF Before, Waiting, JobRows
    <3>4. QED
      BY <3>2, <3>3, <2>1, <1>10 DEF BatchIsBehind
  <2>2. QED
    BY <2>1 DEF StartedInDueOrder
<1>12. QED
  BY <1>5, <1>6, <1>7, <1>8, <1>9, <1>10, <1>11 DEF IInv

(* Every way out of the loop: claim and wait, or rest.                     *)
LEMMA ContinueKeepsIInv ==
  ASSUME IInv, NEW db, NEW batch, NEW current,
         Waiting(db, batch, current),
         Continue(db, batch, current),
         UNCHANGED <<now, crashes, skill, done, cancelled>>
  PROVE  IInv'
<1>1. CASE /\ worker' = Asleep \/ worker' = Dead
           /\ row' = db
           /\ UNCHANGED pending
  BY <1>1, ContinueRests
<1>2. CASE \E j \in Claimable(db, batch, current) :
             /\ \A i \in Claimable(db, batch, current) \ {j} : Before(j, i)
             /\ worker' = [stage |-> "running", job |-> j, current |-> current,
                           batch |-> {i \in batch : Before(j, i)}]
             /\ row' = [db EXCEPT ![j].status = "RUNNING"]
             /\ pending' = [pending EXCEPT ![j] = @ + 1]
  BY <1>2, ContinueClaims
<1>3. QED
  BY <1>1, <1>2 DEF Continue

(* The worker wakes up and lists what is due.                              *)
LEMMA PollKeepsIInv ==
  ASSUME IInv, Poll
  PROVE  IInv'
<1>1. worker.stage = "asleep"
  BY DEF Poll, Asleep
<1>2. \A j \in Jobs : row[j].status # "RUNNING"
  BY <1>1 DEF IInv, RunningIsInHand, Runs, Dead, Down
<1>3. now \in Nat /\ row \in [Jobs -> JobRows]
  BY TypesOf DEF IInv
<1>4. \A j \in Jobs : row[j].status = "SCHEDULED" => j \in list_due(now) \/ now < row[j].at
  BY <1>3 DEF list_due, JobRows
<1>5. Waiting(row, list_due(now), now)
  BY <1>2, <1>3, <1>4 DEF Waiting, list_due
<1>6. QED
  BY <1>5, ContinueKeepsIInv DEF Poll

(* The job in hand ends, and the worker goes on with its batch.            *)
LEMMA FinishKeepsIInv ==
  ASSUME IInv, NEW j \in Jobs, Runs(j),
         NEW status \in Terminal \ {"CANCELLED"},
         Finish(j, status)
  PROVE  IInv'
<1> DEFINE db == [row EXCEPT ![j].status = status]
<1>1. /\ now \in Nat
      /\ row \in [Jobs -> JobRows]
  BY TypesOf DEF IInv
<1>2. /\ worker.stage = "running"
      /\ worker.job = j
      /\ worker.batch \subseteq Jobs
      /\ worker.current \in Nat
  BY WorkerShapes DEF IInv, Runs, Down, Dead, Asleep
<1>3. row[j].status = "RUNNING"
  BY DEF IInv, InHandIsRunning
<1>4. \A i \in Jobs : row[i].status = "RUNNING" => i = j
  BY <1>3 DEF IInv, RunningIsInHand
<1>5. /\ worker.current <= now
      /\ \A i \in Jobs :
           row[i].status = "SCHEDULED" => i \in worker.batch \/ worker.current < row[i].at
  BY <1>2 DEF IInv, BatchIsBehind
<1>6. /\ db \in [Jobs -> JobRows]
      /\ db[j].status = status /\ db[j].at = row[j].at
      /\ \A i \in Jobs \ {j} : db[i] = row[i]
  BY <1>1 DEF JobRows
<1>7. Waiting(db, worker.batch, worker.current)
  BY <1>2, <1>3, <1>4, <1>5, <1>6 DEF Waiting, Terminal
<1>8. QED
  BY <1>7, ContinueKeepsIInv DEF Finish

LEMMA AnswerKeepsIInv ==
  ASSUME IInv, NEW j \in Jobs, Answer(j)
  PROVE  IInv'
<1>1. PICK status \in Terminal \ {"CANCELLED"} : Runs(j) /\ Finish(j, status)
  BY DEF Answer, Succeed, Refused, Uncertain, TimesOut, Terminal
<1>2. QED
  BY <1>1, FinishKeepsIInv

-----------------------------------------------------------------------------
(* Steps that leave the table and the worker alone.                        *)
LEMMA QuietStepsKeepIInv ==
  ASSUME IInv,
         \/ \E j \in Jobs : Act(j) \/ GiveUp(j) \/ Lose(j) \/ Execute(j)
         \/ Tick
         \/ UNCHANGED vars
  PROVE  IInv'
<1> USE JobsAssumption
<1>1. /\ now \in Nat
      /\ row \in [Jobs -> JobRows]
      /\ pending \in [Jobs -> Nat]
      /\ done \in [Jobs -> Nat]
      /\ cancelled \subseteq Jobs
  BY TypesOf DEF IInv
<1>2. row' = row /\ worker' = worker /\ cancelled' = cancelled /\ now' \in Nat /\ now <= now'
  BY <1>1 DEF Act, GiveUp, Lose, Execute, Tick, vars
<1>3. /\ pending' \in [Jobs -> Nat]
      /\ done' \in [Jobs -> Nat]
      /\ \A i \in Jobs : pending'[i] + done'[i] <= pending[i] + done[i]
  BY <1>1 DEF Act, GiveUp, Lose, Execute, Tick, vars
<1>4. TypeOK'
  BY <1>1, <1>2, <1>3 DEF IInv, TypeOK, Act, GiveUp, Lose, Execute, Tick, vars
<1>5. InHandIsRunning' /\ RunningIsInHand' /\ CancelledStays' /\ StartedInDueOrder'
  BY <1>2 DEF IInv, InHandIsRunning, RunningIsInHand, Runs, CancelledStays,
              StartedInDueOrder, Before
<1>6. RunningIsDue'
  BY <1>1, <1>2 DEF IInv, RunningIsDue, JobRows
<1>7. BatchIsBehind'
  <2>1. CASE worker.stage = "running"
    <3>1. worker.current \in Nat
      BY <2>1, WorkerShapes DEF IInv, Down, Dead, Asleep
    <3>2. worker.current <= now'
      BY <2>1, <3>1, <1>1, <1>2 DEF IInv, BatchIsBehind
    <3>3. QED
      BY <2>1, <3>2, <1>2 DEF IInv, BatchIsBehind, Before
  <2>2. CASE worker.stage # "running"
    BY <2>2, <1>2 DEF BatchIsBehind
  <2>3. QED
    BY <2>1, <2>2
<1>8. SentAtMostOnce'
  BY <1>1, <1>3 DEF IInv, SentAtMostOnce
<1>9. UnclaimedIsUnsent'
  <2>1. ASSUME NEW i \in Jobs, row'[i].status \in Unsent
        PROVE  pending'[i] = 0 /\ done'[i] = 0
    <3>1. pending[i] = 0 /\ done[i] = 0
      BY <2>1, <1>2 DEF IInv, UnclaimedIsUnsent
    <3>2. pending'[i] \in Nat /\ done'[i] \in Nat /\ pending'[i] + done'[i] <= 0
      BY <3>1, <1>3
    <3>3. QED
      BY <3>2
  <2>2. QED
    BY <2>1 DEF UnclaimedIsUnsent
<1>10. QED
  BY <1>4, <1>5, <1>6, <1>7, <1>8, <1>9 DEF IInv

(* A new job falls due later than any job in hand.                         *)
LEMMA ScheduleKeepsIInv ==
  ASSUME IInv, NEW j \in Jobs, Schedule(j)
  PROVE  IInv'
<1> USE JobsAssumption
<1>1. /\ now \in Nat
      /\ row \in [Jobs -> JobRows]
      /\ cancelled \subseteq Jobs
  BY TypesOf DEF IInv
<1>2. row[j].status = "ABSENT"
  BY DEF IInv, TypeOK, Schedule
<1>3. /\ row' \in [Jobs -> JobRows]
      /\ row'[j].status = "SCHEDULED"
      /\ row'[j].at = now + Delay[j]
      /\ now < row'[j].at
      /\ \A i \in Jobs \ {j} : row'[i] = row[i]
  BY <1>1 DEF Schedule, JobRows
<1>4. TypeOK'
  BY <1>1, <1>3 DEF IInv, TypeOK, Schedule, JobRows
<1>5. \A i \in Jobs : row'[i].status = "RUNNING" => row[i].status = "RUNNING" /\ i # j
  BY <1>3
<1>6. \A i \in Jobs : Runs(i) => i # j
  BY <1>2 DEF IInv, InHandIsRunning
<1>7. InHandIsRunning' /\ RunningIsInHand'
  BY <1>3, <1>5, <1>6 DEF IInv, InHandIsRunning, RunningIsInHand, Runs, Schedule
<1>8. UnclaimedIsUnsent' /\ SentAtMostOnce' /\ CancelledStays'
  BY <1>1, <1>2, <1>3 DEF IInv, UnclaimedIsUnsent, Unsent, SentAtMostOnce, CancelledStays,
                          Schedule
<1>9. RunningIsDue'
  BY <1>3, <1>5 DEF IInv, RunningIsDue, Schedule
<1>10. BatchIsBehind'
  <2>1. CASE worker.stage = "running"
    <3>1. worker.job \in Jobs /\ worker.current \in Nat /\ worker.batch \subseteq Jobs
      BY <2>1, WorkerShapes DEF IInv, Down, Dead, Asleep
    <3>2. worker.job # j
      BY <2>1, <3>1, <1>6 DEF Runs
    <3>3. /\ row[worker.job].at <= worker.current
          /\ worker.current <= now
          /\ \A i \in worker.batch : Before(worker.job, i)
          /\ \A i \in Jobs : row[i].status = "SCHEDULED" =>
               i \in worker.batch \/ worker.current < row[i].at
      BY <2>1 DEF IInv, BatchIsBehind
    <3>4. worker' = worker /\ now' = now /\ row'[worker.job] = row[worker.job]
      BY <3>1, <3>2, <1>3 DEF Schedule
    <3>5. row[worker.job].at \in Nat /\ row'[j].at \in Nat
      BY <3>1, <1>1, <1>3 DEF JobRows
    <3>6. \A i \in worker.batch : Before(worker.job, i)'
      <4>1. TAKE i \in worker.batch
      <4>2. CASE i = j
        BY <4>2, <3>1, <3>3, <3>4, <3>5, <1>1, <1>3 DEF Before
      <4>3. CASE i # j
        BY <4>3, <3>1, <3>3, <3>4, <1>3 DEF Before
      <4>4. QED
        BY <4>2, <4>3
    <3>7. worker.current < row'[j].at
      BY <3>1, <3>3, <3>5, <1>1, <1>3
    <3>8. QED
      BY <3>3, <3>4, <3>6, <3>7, <1>3 DEF BatchIsBehind, Before
  <2>2. CASE worker.stage # "running"
    BY <2>2 DEF BatchIsBehind, Schedule
  <2>3. QED
    BY <2>1, <2>2
<1>11. StartedInDueOrder'
  <2>1. ASSUME NEW i \in Jobs, NEW k \in Jobs,
               row'[k].status = "RUNNING", row'[i].status = "SCHEDULED"
        PROVE  Before(k, i)'
    <3>1. row[k].status = "RUNNING" /\ k # j /\ row'[k] = row[k]
      BY <2>1, <1>3, <1>5
    <3>2. CASE i = j
      <4>1. row[k].at <= now /\ row[k].at \in Nat
        BY <3>1, <1>1 DEF IInv, RunningIsDue, JobRows
      <4>2. row'[k].at < row'[i].at
        BY <4>1, <3>1, <3>2, <1>1, <1>3 DEF JobRows
      <4>3. QED
        BY <4>2 DEF Before
    <3>3. CASE i # j
      BY <2>1, <3>1, <3>3, <1>3 DEF IInv, StartedInDueOrder, Before
    <3>4. QED
      BY <3>2, <3>3
  <2>2. QED
    BY <2>1 DEF StartedInDueOrder
<1>12. QED
  BY <1>4, <1>7, <1>8, <1>9, <1>10, <1>11 DEF IInv

(* A cancellation touches no job but a scheduled one.                      *)
LEMMA CancelKeepsIInv ==
  ASSUME IInv, NEW j \in Jobs, Cancel(j)
  PROVE  IInv'
<1> USE JobsAssumption
<1>1. /\ now \in Nat
      /\ row \in [Jobs -> JobRows]
      /\ cancelled \subseteq Jobs
  BY TypesOf DEF IInv
<1>2. /\ row' \in [Jobs -> JobRows]
      /\ row[j].status = "SCHEDULED"
      /\ row'[j].status = "CANCELLED"
      /\ \A i \in Jobs : row'[i].at = row[i].at
      /\ \A i \in Jobs \ {j} : row'[i] = row[i]
  BY <1>1 DEF Cancel, JobRows, Terminal
<1>3. TypeOK'
  BY <1>1, <1>2 DEF IInv, TypeOK, Cancel, JobRows
<1>4. InHandIsRunning' /\ RunningIsInHand'
  BY <1>2 DEF IInv, InHandIsRunning, RunningIsInHand, Runs, Cancel
<1>5. UnclaimedIsUnsent' /\ SentAtMostOnce' /\ CancelledStays'
  BY <1>1, <1>2 DEF IInv, UnclaimedIsUnsent, Unsent, SentAtMostOnce, CancelledStays, Cancel
<1>6. RunningIsDue' /\ StartedInDueOrder'
  BY <1>2 DEF IInv, RunningIsDue, StartedInDueOrder, Before, Cancel
<1>7. BatchIsBehind'
  <2>1. CASE worker.stage = "running"
    <3>1. worker.job \in Jobs /\ worker.batch \subseteq Jobs
      BY <2>1, WorkerShapes DEF IInv, Down, Dead, Asleep
    <3>2. QED
      BY <2>1, <3>1, <1>2 DEF IInv, BatchIsBehind, Before, Cancel
  <2>2. CASE worker.stage # "running"
    BY <2>2 DEF BatchIsBehind, Cancel
  <2>3. QED
    BY <2>1, <2>2
<1>8. QED
  BY <1>3, <1>4, <1>5, <1>6, <1>7 DEF IInv

(* The worker dies of an exception, or with its process: a RUNNING row may *)
(* be left behind.                                                         *)
LEMMA DeathKeepsIInv ==
  ASSUME IInv, StoreFails \/ Crash
  PROVE  IInv'
<1> USE JobsAssumption
<1>1. /\ now' = now /\ row' = row /\ pending' = pending /\ done' = done
      /\ cancelled' = cancelled
      /\ worker' = Dead \/ worker' = Down
  BY DEF StoreFails, Crash
<1>2. worker'.stage # "running" /\ worker' \in {Dead, Down}
  BY <1>1 DEF Dead, Down
<1>3. TypeOK'
  <2>1. crashes' \in 0 .. MaxCrashes
    BY DEF IInv, TypeOK, StoreFails, Crash
  <2>2. /\ skill' \in [Jobs -> {"idle", "acting", "handled", "failed"}]
        /\ \A j \in Jobs : skill'[j] = "handled" <=> skill[j] = "handled"
    BY DEF IInv, TypeOK, StoreFails, Crash
  <2>3. QED
    BY <1>1, <2>1, <2>2 DEF IInv, TypeOK
<1>4. InHandIsRunning' /\ BatchIsBehind'
  BY <1>2 DEF InHandIsRunning, Runs, BatchIsBehind
<1>5. RunningIsInHand'
  BY <1>1, <1>2 DEF IInv, RunningIsInHand
<1>6. UnclaimedIsUnsent' /\ SentAtMostOnce' /\ CancelledStays' /\ RunningIsDue'
  BY <1>1 DEF IInv, UnclaimedIsUnsent, SentAtMostOnce, CancelledStays, RunningIsDue
<1>7. StartedInDueOrder'
  BY <1>1 DEF IInv, StartedInDueOrder, Before
<1>8. QED
  BY <1>3, <1>4, <1>5, <1>6, <1>7 DEF IInv

(* A start recovers every RUNNING row.                                     *)
LEMMA RestartKeepsIInv ==
  ASSUME IInv, Restart
  PROVE  IInv'
<1>1. row \in [Jobs -> JobRows] /\ now \in Nat
  BY TypesOf DEF IInv
<1>2. /\ row' \in [Jobs -> JobRows]
      /\ \A j \in Jobs : row'[j].status # "RUNNING"
      /\ \A j \in Jobs : row[j].status # "RUNNING" => row'[j] = row[j]
      /\ \A j \in Jobs : row[j].status = "RUNNING" => row'[j].status = "UNKNOWN_OUTCOME"
  BY <1>1 DEF Restart, Recovered, JobRows, Terminal
<1>3. worker'.stage # "running" /\ worker' = Asleep
  BY DEF Restart, Asleep
<1>4. TypeOK'
  BY <1>2, <1>3 DEF IInv, TypeOK, Restart, JobRows
<1>5. InHandIsRunning' /\ BatchIsBehind'
  BY <1>3 DEF InHandIsRunning, Runs, BatchIsBehind
<1>6. RunningIsInHand' /\ RunningIsDue' /\ StartedInDueOrder'
  BY <1>2 DEF RunningIsInHand, RunningIsDue, StartedInDueOrder
<1>7. UnclaimedIsUnsent' /\ SentAtMostOnce' /\ CancelledStays'
  <2>1. pending' = pending /\ done' = done /\ cancelled' = cancelled /\ cancelled \subseteq Jobs
    BY TypesOf DEF IInv, Restart
  <2>2. \A j \in Jobs : row'[j].status \in Unsent => row[j].status \in Unsent
    BY <1>2 DEF Unsent
  <2>3. UnclaimedIsUnsent' /\ SentAtMostOnce'
    BY <2>1, <2>2 DEF IInv, UnclaimedIsUnsent, SentAtMostOnce
  <2>4. CancelledStays'
    BY <2>1, <1>2 DEF IInv, CancelledStays
  <2>5. QED
    BY <2>3, <2>4
<1>8. QED
  BY <1>4, <1>5, <1>6, <1>7 DEF IInv

-----------------------------------------------------------------------------
(* The inductive invariant holds in every reachable state.                 *)
THEOREM InvariantHolds == Spec => []IInv
<1>1. Init => IInv
  <2>1. SUFFICES ASSUME Init PROVE IInv
    OBVIOUS
  <2>2. TypeOK
    BY <2>1, JobsAssumption DEF Init, TypeOK, NoJob
  <2>3. \A j \in Jobs : row[j].status = "ABSENT"
    BY <2>1 DEF Init, NoJob
  <2>4. worker.stage # "running"
    BY <2>1 DEF Init, Asleep
  <2>5. InHandIsRunning /\ BatchIsBehind
    BY <2>4 DEF InHandIsRunning, Runs, BatchIsBehind
  <2>6. RunningIsInHand /\ RunningIsDue /\ StartedInDueOrder
    BY <2>3 DEF RunningIsInHand, RunningIsDue, StartedInDueOrder
  <2>7. UnclaimedIsUnsent /\ SentAtMostOnce /\ CancelledStays
    BY <2>1 DEF Init, UnclaimedIsUnsent, SentAtMostOnce, CancelledStays
  <2>8. QED
    BY <2>2, <2>5, <2>6, <2>7 DEF IInv
<1>2. IInv /\ [Next]_vars => IInv'
  <2>1. SUFFICES ASSUME IInv, [Next]_vars PROVE IInv'
    OBVIOUS
  <2>2. CASE \E j \in Jobs : Act(j) \/ GiveUp(j) \/ Lose(j) \/ Execute(j)
    BY <2>1, <2>2, QuietStepsKeepIInv
  <2>3. CASE \E j \in Jobs : Schedule(j)
    BY <2>1, <2>3, ScheduleKeepsIInv
  <2>4. CASE \E j \in Jobs : Cancel(j)
    BY <2>1, <2>4, CancelKeepsIInv
  <2>5. CASE \E j \in Jobs : Answer(j)
    BY <2>1, <2>5, AnswerKeepsIInv
  <2>6. CASE Poll
    BY <2>1, <2>6, PollKeepsIInv
  <2>7. CASE StoreFails \/ Crash
    BY <2>1, <2>7, DeathKeepsIInv
  <2>8. CASE Restart
    BY <2>1, <2>8, RestartKeepsIInv
  <2>9. CASE Tick \/ UNCHANGED vars
    BY <2>1, <2>9, QuietStepsKeepIInv
  <2>10. QED
    BY <2>1, <2>2, <2>3, <2>4, <2>5, <2>6, <2>7, <2>8, <2>9 DEF Next
<1>3. QED
  BY <1>1, <1>2, PTL DEF Spec

(* Every reachable state has the declared shape, and a follow-up was       *)
(* promised exactly when the table of schedule_action holds it.            *)
THEOREM TypeCorrect == Spec => []TypeOK
<1>1. IInv => TypeOK
  BY DEF IInv
<1>2. QED
  BY <1>1, InvariantHolds, PTL

(* No crash, timeout or SQLite error makes run_due send a follow-up twice. *)
THEOREM NeverSentTwice == Spec => []SentAtMostOnce
<1>1. IInv => SentAtMostOnce
  BY DEF IInv
<1>2. QED
  BY <1>1, InvariantHolds, PTL

(* cancel_job and claim_due exclude each other for ever.                   *)
THEOREM CancellationPrevents == Spec => []CancelledIsNeverSent
<1>1. IInv => CancelledIsNeverSent
  BY DEF IInv, TypeOK, CancelledStays, UnclaimedIsUnsent, Unsent, CancelledIsNeverSent
<1>2. QED
  BY <1>1, InvariantHolds, PTL

(* run_due never starts a job while one that fell due earlier waits.       *)
THEOREM DueOrderHolds == Spec => []StartedInDueOrder
<1>1. IInv => StartedInDueOrder
  BY DEF IInv
<1>2. QED
  BY <1>1, InvariantHolds, PTL

(* One row at most is RUNNING, and it is the worker's or one its death     *)
(* left to recover_interrupted.                                            *)
THEOREM RunningRowIsInHand == Spec => []RunningIsInHand
<1>1. IInv => RunningIsInHand
  BY DEF IInv
<1>2. QED
  BY <1>1, InvariantHolds, PTL

-----------------------------------------------------------------------------
(* The loop of run_due changes no row but the one it claims.               *)
LEMMA ContinueClaimsScheduled ==
  ASSUME NEW db \in [Jobs -> JobRows], NEW batch \in SUBSET Jobs, NEW current,
         Continue(db, batch, current),
         NEW j \in Jobs, db[j].status # "SCHEDULED"
  PROVE  row'[j].status = db[j].status
<1>1. CASE row' = db
  BY <1>1
<1>2. CASE \E i \in Claimable(db, batch, current) : row' = [db EXCEPT ![i].status = "RUNNING"]
  BY <1>2 DEF Claimable
<1>3. QED
  BY <1>1, <1>2 DEF Continue

(* set_terminal and recover_interrupted overwrite no terminal status,      *)
(* although the first has no condition.                                    *)
THEOREM TerminalNeverChanges == Spec => TerminalIsFinal
<1>1. ASSUME IInv, [Next]_vars
      PROVE  [\A j \in Jobs : row[j].status \in Terminal => row'[j].status = row[j].status]_row
  <2>1. SUFFICES ASSUME NEW j \in Jobs, row[j].status \in Terminal, Next
                 PROVE  row'[j].status = row[j].status
    BY <1>1 DEF vars
  <2>2. row \in [Jobs -> JobRows]
    BY <1>1, TypesOf DEF IInv
  <2>3. row[j].status \notin {"ABSENT", "SCHEDULED", "RUNNING"}
    BY <2>1 DEF Terminal
  <2>4. CASE \E i \in Jobs : Schedule(i)
    BY <1>1, <2>2, <2>3, <2>4 DEF IInv, TypeOK, Schedule
  <2>5. CASE \E i \in Jobs : Cancel(i)
    BY <2>2, <2>3, <2>5 DEF Cancel
  <2>6. CASE \E i \in Jobs : Answer(i)
    <3>1. PICK i \in Jobs, status \in Terminal : Runs(i) /\ Finish(i, status)
      BY <2>6 DEF Answer, Succeed, Refused, Uncertain, TimesOut, Terminal
    <3>2. i # j
      BY <1>1, <2>3, <3>1 DEF IInv, InHandIsRunning
    <3>3. /\ [row EXCEPT ![i].status = status] \in [Jobs -> JobRows]
          /\ [row EXCEPT ![i].status = status][j] = row[j]
      BY <2>2, <3>1, <3>2 DEF JobRows
    <3>4. worker.batch \in SUBSET Jobs
      BY <1>1, <3>1, WorkerShapes DEF IInv, Runs, Down, Dead, Asleep
    <3>5. Continue([row EXCEPT ![i].status = status], worker.batch, worker.current)
      BY <3>1 DEF Finish
    <3>6. QED
      BY <2>3, <3>3, <3>4, <3>5, ContinueClaimsScheduled
  <2>7. CASE Poll
    <3>1. list_due(now) \in SUBSET Jobs /\ Continue(row, list_due(now), now)
      BY <2>7 DEF Poll, list_due
    <3>2. QED
      BY <2>2, <2>3, <3>1, ContinueClaimsScheduled
  <2>8. CASE Restart
    BY <2>2, <2>3, <2>8 DEF Restart, Recovered
  <2>9. CASE UNCHANGED row
    BY <2>9
  <2>10. QED
    BY <2>1, <2>4, <2>5, <2>6, <2>7, <2>8, <2>9
       DEF Next, Act, GiveUp, Lose, Execute, StoreFails, Crash, Tick
<1>2. QED
  BY <1>1, InvariantHolds, PTL DEF Spec, TerminalIsFinal
=============================================================================
