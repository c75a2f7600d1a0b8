--------------------------- MODULE HouseCapability ---------------------------
(***************************************************************************)
(* What Nyra does in the house: commands (the Skills' home_assistant_      *)
(* action), the plans of the LLM, and the automations Nyra keeps in Home   *)
(* Assistant.  A command goes from the Router to Skills, from Skills back  *)
(* to the Router's HomeAssistantCapabilityPort, and from there to Home     *)
(* Assistant; each of the three clients gives up after its own 3 seconds,  *)
(* and what it called goes on.  In Home Assistant NyraAutomationBackend    *)
(* rewrites automations.yaml under a lock and reloads after it.            *)
(*                                                                         *)
(* A turn is one utterance, or one call of the Router's capability API.    *)
(* The automation a turn creates has a fresh id (a uuid): the turn itself. *)
(* A signature stands for the triggers and actions _native_signature keeps.*)
(***************************************************************************)
EXTENDS Naturals, Sequences, FiniteSets, SequencesExt

CONSTANTS
  Turns,        \* the turns
  Lights,       \* the resources a command and a plan may act on
  Manual,       \* an automation a user wrote in Home Assistant
  Signatures,   \* what automations do, up to _native_signature
  MaxRestarts,  \* bound: restarts of Home Assistant
  None          \* Python's None, and an automation that is not there

VARIABLES
  turn,      \* what the Router is doing for each turn, and what it told
  run,       \* the targets still to do: by Skills for a command, by the Router for a plan
  port,      \* what the Router's capability port is doing for each turn
  requests,  \* what Home Assistant was sent and has not finished
  lock,      \* the request that holds the backend's lock, or None
  file,      \* automations.yaml
  loaded,    \* the automations Home Assistant runs
  overtaken, \* history: the automations changed while they were being loaded
  performed, \* history: the targets acted on, by turn
  written,   \* history: the turns whose automation was written to the file
  restarts   \* bound on restarts

askedVars == <<turn, run>>
homeVars == <<requests, lock, file, loaded, overtaken, performed, written>>
vars == <<askedVars, port, homeVars, restarts>>

Ids == Turns \cup {Manual}
Targets == Lights \cup {Manual}
ViaSkills == {"command", "create"}
ViaApi == {"update", "delete"}

(* A row of automations.yaml.  managed is is_nyra_managed; the last action *)
(* of a ONE_SHOT calls nyra.complete_one_shot.                             *)
Automation(managed, signature, oneShot) ==
  [managed |-> managed, signature |-> signature, oneShot |-> oneShot]
Managed == {Automation(TRUE, s, o) : s \in Signatures, o \in BOOLEAN}
Manuals == {Automation(FALSE, s, FALSE) : s \in Signatures}

Behaviors == Managed
Requests ==
  [by : Turns \cup {None}, op : {"invoke", "write", "delete", "complete"}, id : Targets \cup Turns,
   at : {"sent", "holds", "reload", "loading"}, items : [Ids -> Managed \cup Manuals \cup {None}] \cup {None}]

ASSUME HouseCapabilityAssumption ==
  /\ MaxRestarts \in Nat
  /\ IsFiniteSet(Lights)
  /\ Manual \notin Turns \cup Lights
  /\ None \notin Turns \cup Lights \cup Signatures \cup {Manual}
  /\ None \notin ViaSkills \cup ViaApi \cup {"plan"} \cup Requests
  /\ None \notin {"done", "failed", "asked", "refused"}

NoTurn == [kind |-> None, id |-> None, behavior |-> None, told |-> None]
NoRun == [at |-> "none", left |-> <<>>, done |-> {}, failed |-> FALSE]
NoPort == [at |-> "none", target |-> None]

TypeOK ==
  /\ \A t \in Turns :
       /\ turn[t].kind \in {None, "command", "plan"} \cup {"create", "update", "delete"}
       /\ turn[t].told \in {None, "done", "failed", "asked", "refused"}
       /\ turn[t].id \in Ids \cup {None} /\ turn[t].behavior \in Behaviors \cup {None}
       /\ run[t].at \in {"none", "next", "call", "end"} /\ run[t].done \subseteq Targets \cup Turns
       /\ port[t].at \in {"none", "state", "list", "read", "sent"}
       /\ port[t].target \in Targets \cup Ids \cup {None}
  /\ requests \subseteq Requests /\ lock \in requests \cup {None}
  /\ file \in [Ids -> Managed \cup Manuals \cup {None}]
  /\ loaded \in [Ids -> Managed \cup Manuals \cup {None}] /\ overtaken \subseteq Ids
  /\ performed \in [Turns -> SUBSET Targets]
  /\ written \subseteq Turns /\ restarts \in 0 .. MaxRestarts

Init ==
  /\ turn = [t \in Turns |-> NoTurn]
  /\ run = [t \in Turns |-> NoRun]
  /\ port = [t \in Turns |-> NoPort]
  /\ requests = {} /\ lock = None
  /\ \E manual \in Manuals \cup {None} :
       file = [id \in Ids |-> IF id = Manual THEN manual ELSE None]
  /\ loaded = file /\ overtaken = {}
  /\ performed = [t \in Turns |-> {}]
  /\ written = {}
  /\ restarts = 0

-----------------------------------------------------------------------------
(* The Router's turn                                                       *)

Told(t, what) == turn' = [turn EXCEPT ![t].told = what]
(* What a waiting turn is told, and one that gave up is not.               *)
TellIfWaiting(t, what) ==
  IF turn[t].told = None THEN Told(t, what) ELSE UNCHANGED turn

Begin(t, kind, id, behavior) ==
  turn' = [turn EXCEPT ![t] = [NoTurn EXCEPT !.kind = kind, !.id = id, !.behavior = behavior]]

Idle(t) == turn[t].kind = None

(* _RemoteSkillPort.execute: Skills begins on the targets it resolved, in  *)
(* their order.  A named automation is triggered by its name.              *)
Resolved == {s \in UNION {[1 .. n -> Lights] : n \in 1 .. Cardinality(Lights)} : IsInjective(s)}

Command(t) ==
  /\ Idle(t)
  /\ Begin(t, "command", None, None)
  /\ \E targets \in Resolved \cup {<<Manual>>} :
       run' = [run EXCEPT ![t].at = "next", ![t].left = targets]
  /\ UNCHANGED <<port, homeVars, restarts>>

(* BehaviorSkill.execute: one call, of automation_create.                  *)
Create(t) ==
  /\ Idle(t)
  /\ \E b \in Behaviors : Begin(t, "create", t, b)
  /\ run' = [run EXCEPT ![t].at = "next", ![t].left = <<t>>]
  /\ UNCHANGED <<port, homeVars, restarts>>

(* RouterLlmPort.reason: the plan is validated by Skills as a whole before *)
(* any of it is executed.                                                  *)
Allowed(step) == step \in Lights
Validated(plan) == \A i \in DOMAIN plan : Allowed(plan[i])

Plans == {s \in UNION {[1 .. n -> Targets] : n \in 1 .. 2} : IsInjective(s)}

Plan(t) ==
  /\ Idle(t)
  /\ \E plan \in Plans :
       \/ /\ Validated(plan)
          /\ Begin(t, "plan", None, None)
          /\ run' = [run EXCEPT ![t].at = "next", ![t].left = plan]
       \/ /\ ~Validated(plan)
          /\ turn' = [turn EXCEPT ![t] = [NoTurn EXCEPT !.kind = "plan", !.told = "refused"]]
          /\ UNCHANGED run
       \/ /\ turn' = [turn EXCEPT ![t] = [NoTurn EXCEPT !.kind = "plan", !.told = "failed"]]
          /\ UNCHANGED run                                 \* SkillsUnavailable
  /\ UNCHANGED <<port, homeVars, restarts>>

(* The endpoints that update and delete an automation, of any id.          *)
Api(t) ==
  /\ Idle(t)
  /\ \E id \in Ids \ {t} :
       \/ \E b \in Behaviors : Begin(t, "update", id, b)
       \/ Begin(t, "delete", id, None)
  /\ port' = [port EXCEPT ![t] = [at |-> "read", target |-> turn'[t].id]]
  /\ UNCHANGED <<run, homeVars, restarts>>

(* SkillsClient gives up, or Skills cannot be reached: SKILLS_UNAVAILABLE. *)
SkillsTimesOut(t) ==
  /\ turn[t].kind \in ViaSkills /\ turn[t].told = None
  /\ Told(t, "failed")
  /\ UNCHANGED <<run, port, homeVars, restarts>>

-----------------------------------------------------------------------------
(* HomeAssistantActionSkill, RouterPlanExecutor: execute takes the targets *)
(* one after the other.                                                    *)

Target(t) == Head(run[t].left)

Step(t) ==
  /\ run[t].at = "next" /\ run[t].left # <<>>
  /\ run' = [run EXCEPT ![t].at = "call"]
  /\ port' = [port EXCEPT ![t] =
       [at |-> IF turn[t].kind = "create" THEN "list" ELSE "state", target |-> Target(t)]]
  /\ UNCHANGED <<turn, homeVars, restarts>>

(* The capability client gives up: the exception ends the execution, and   *)
(* the Router reads an error.  The Router's handler goes on.               *)
CallTimesOut(t) ==
  /\ turn[t].kind \in ViaSkills /\ run[t].at = "call"
  /\ run' = [run EXCEPT ![t].at = "end"]
  /\ TellIfWaiting(t, "failed")
  /\ UNCHANGED <<port, homeVars, restarts>>

(* A command is done if any of its targets was, a plan if all were.        *)
Outcome(t) ==
  IF turn[t].kind = "plan"
  THEN IF run[t].failed THEN "failed" ELSE "done"
  ELSE IF run[t].done # {} THEN "done" ELSE "failed"

Ends(t) ==
  /\ run[t].at = "next" /\ run[t].left = <<>>
  /\ run' = [run EXCEPT ![t].at = "end"]
  /\ TellIfWaiting(t, Outcome(t))
  /\ UNCHANGED <<port, homeVars, restarts>>

-----------------------------------------------------------------------------
(* HomeAssistantCapabilityPort                                             *)

(* The caller's part of an answer: the loop's, or the API client's.        *)
Collect(t, outcome) ==
  IF turn[t].kind \in ViaApi
  THEN Told(t, IF outcome = "SUCCESS" THEN "done"
               ELSE IF outcome = "DENIED" THEN "refused" ELSE "failed") /\ UNCHANGED run
  ELSE IF run[t].at # "call"
  THEN UNCHANGED askedVars
  ELSE IF outcome = "AMBIGUOUS"
  THEN TellIfWaiting(t, "asked") /\ run' = [run EXCEPT ![t].at = "end"]
  ELSE /\ run' = [run EXCEPT ![t] =
            [at |-> "next", left |-> Tail(@.left),
             done |-> IF outcome = "SUCCESS" THEN @.done \cup {Target(t)} ELSE @.done,
             failed |-> @.failed \/ outcome # "SUCCESS"]]
       /\ UNCHANGED turn

Answers(t, outcome) ==
  /\ port' = [port EXCEPT ![t] = NoPort]
  /\ Collect(t, outcome)

(* A request to Home Assistant, whose answer the port awaits.              *)
Request(t, op, id) == [by |-> t, op |-> op, id |-> id, at |-> "sent", items |-> None]
Sends(t, op) ==
  /\ requests' = requests \cup {Request(t, op, port[t].target)}
  /\ port' = [port EXCEPT ![t].at = "sent"]

(* execute: the resource must be there and available; then the service is  *)
(* invoked.                                                                *)
Execute(t) ==
  /\ port[t].at = "state"
  /\ \/ Answers(t, "NOT_FOUND") /\ UNCHANGED requests
     \/ Sends(t, "invoke") /\ UNCHANGED askedVars
  /\ UNCHANGED <<lock, file, loaded, overtaken, performed, written, restarts>>

(* An exception no handler of the port expects: the read of the state      *)
(* timed out.                                                              *)
StateRaises(t) ==
  /\ port[t].at = "state"
  /\ port' = [port EXCEPT ![t] = NoPort]
  /\ IF run[t].at = "call"
     THEN run' = [run EXCEPT ![t].at = "end"] /\ TellIfWaiting(t, "failed")
     ELSE UNCHANGED askedVars
  /\ UNCHANGED <<homeVars, restarts>>

(* The answer of Home Assistant to a request: the port takes it if it      *)
(* still awaits it.                                                        *)
Awaited(r) == r.by \in Turns /\ port[r.by] = [at |-> "sent", target |-> r.id]
Delivered(r, outcome) ==
  IF Awaited(r) THEN Answers(r.by, outcome) ELSE UNCHANGED <<askedVars, port>>

(* HomeAssistantApiClient gives up: UNKNOWN_OUTCOME, or UNAVAILABLE.       *)
RequestTimesOut_AsDone(t) ==
  /\ port[t].at \in {"list", "read", "sent"}
  /\ Answers(t, "SUCCESS")
  /\ UNCHANGED <<homeVars, restarts>>

RequestTimesOut(t) ==
  /\ port[t].at \in {"list", "read", "sent"}
  /\ Answers(t, "UNAVAILABLE")
  /\ UNCHANGED <<homeVars, restarts>>

(* create_automation: an automation that does the same must be confirmed.  *)
Equivalent(b) == {id \in Ids : file[id] # None /\ file[id].signature = b.signature}

ListAndWrite(t) ==
  /\ port[t].at = "list" /\ lock = None
  /\ IF Equivalent(turn[t].behavior) # {}
     THEN Answers(t, "AMBIGUOUS") /\ UNCHANGED requests
     ELSE Sends(t, "write") /\ UNCHANGED askedVars
  /\ UNCHANGED <<lock, file, loaded, overtaken, performed, written, restarts>>

(* update_automation and delete_automation: only Nyra's own.               *)
Controllable(item) == item.managed

ReadAndChange(t) ==
  /\ port[t].at = "read" /\ lock = None
  /\ LET item == file[port[t].target]
     IN  IF item = None
         THEN Answers(t, "NOT_FOUND") /\ UNCHANGED requests
         ELSE IF ~Controllable(item)
         THEN Answers(t, "DENIED") /\ UNCHANGED requests
         ELSE /\ Sends(t, IF turn[t].kind = "update" THEN "write" ELSE "delete")
              /\ UNCHANGED askedVars
  /\ UNCHANGED <<lock, file, loaded, overtaken, performed, written, restarts>>

-----------------------------------------------------------------------------
(* Home Assistant                                                          *)

Finished(r) == requests' = requests \ {r}
Becomes(r, s) == requests' = (requests \ {r}) \cup {s}

(* A service acts on its entity; it may fail before or after it did.       *)
Invoke(r) ==
  /\ r.op = "invoke"
  /\ \/ /\ performed' = [performed EXCEPT ![r.by] = @ \cup {r.id}]
        /\ \E outcome \in {"SUCCESS", "FAILED"} : Delivered(r, outcome)
     \/ UNCHANGED performed /\ Delivered(r, "FAILED")
  /\ Finished(r)
  /\ UNCHANGED <<lock, file, loaded, overtaken, written, restarts>>

(* A request that timed out never arrived.                                 *)
NeverArrives(r) ==
  /\ r.at = "sent" /\ r.by \in Turns /\ ~Awaited(r)
  /\ Finished(r)
  /\ UNCHANGED <<askedVars, port, lock, file, loaded, overtaken, performed, written, restarts>>

(* write, delete: the whole file is read under the lock.                   *)
Read_Unlocked(r) ==
  /\ r.op \in {"write", "delete"} /\ r.at = "sent"
  /\ LET held == [r EXCEPT !.at = "holds", !.items = file]
     IN  Becomes(r, held) /\ lock' = held
  /\ UNCHANGED <<askedVars, port, file, loaded, overtaken, performed, written, restarts>>

Read(r) ==
  /\ r.op \in {"write", "delete"} /\ r.at = "sent" /\ lock = None
  /\ LET held == [r EXCEPT !.at = "holds", !.items = file]
     IN  Becomes(r, held) /\ lock' = held
  /\ UNCHANGED <<askedVars, port, file, loaded, overtaken, performed, written, restarts>>

(* write: async_validate_config_item refuses the configuration.            *)
Invalid(r) ==
  /\ r.op = "write" /\ r.at = "sent"
  /\ Finished(r) /\ Delivered(r, "FAILED")
  /\ UNCHANGED <<lock, file, loaded, overtaken, performed, written, restarts>>

(* An automation changes in the file while Home Assistant is loading it.   *)
Loading(id) == \E q \in requests : q.at = "loading" /\ q.id = id
Overtakes(id) ==
  overtaken' = IF Loading(id) THEN overtaken \cup {id} ELSE overtaken

(* write: the automation replaces the one of its id; the lock is released. *)
Write(r) ==
  /\ r.op = "write" /\ r.at = "holds"
  /\ file' = [r.items EXCEPT ![r.id] = turn[r.by].behavior]
  /\ written' = written \cup {r.by}
  /\ Overtakes(r.id)
  /\ lock' = None
  /\ Becomes(r, [r EXCEPT !.at = "reload", !.items = None])
  /\ UNCHANGED <<askedVars, port, loaded, performed, restarts>>

(* _reload, outside of the lock: Home Assistant reads its file again, and  *)
(* only afterwards replaces the automation it runs by what it read.        *)
Reload(r) ==
  /\ r.at = "reload"
  /\ LET row == [id \in Ids |-> IF id = r.id THEN file[id] ELSE None]
     IN  Becomes(r, [r EXCEPT !.at = "loading", !.items = row])
  /\ UNCHANGED <<askedVars, port, lock, file, loaded, overtaken, performed, written, restarts>>

Loads(r) ==
  /\ r.at = "loading"
  /\ loaded' = [loaded EXCEPT ![r.id] = r.items[r.id]]
  /\ Finished(r) /\ Delivered(r, "SUCCESS")
  /\ UNCHANGED <<lock, file, overtaken, performed, written, restarts>>

(* delete: without await, the lock is released and the entity removed.     *)
Delete_KeepsEntity(r) ==
  /\ r.op = "delete" /\ r.at = "holds"
  /\ lock' = None
  /\ Finished(r)
  /\ file' = [r.items EXCEPT ![r.id] = None]
  /\ Overtakes(r.id)
  /\ Delivered(r, IF r.items[r.id] = None THEN "NOT_FOUND" ELSE "SUCCESS")
  /\ UNCHANGED <<loaded, performed, written, restarts>>

Delete(r) ==
  /\ r.op = "delete" /\ r.at = "holds"
  /\ lock' = None
  /\ Finished(r)
  /\ IF r.items[r.id] = None
     THEN UNCHANGED <<file, loaded, overtaken>> /\ Delivered(r, "NOT_FOUND")
     ELSE /\ file' = [r.items EXCEPT ![r.id] = None]
          /\ Overtakes(r.id)
          /\ loaded' = [loaded EXCEPT ![r.id] = None]
          /\ Delivered(r, "SUCCESS")
  /\ UNCHANGED <<performed, written, restarts>>

(* A one-shot runs, and its last action calls complete_one_shot, which     *)
(* reads the automation and deletes one of Nyra's.                         *)
Completion(id) == Request(None, "complete", id)
Fires(id) ==
  /\ loaded[id] # None /\ loaded[id].oneShot
  /\ \A r \in requests : r.by = None => r.id # id
  /\ requests' = requests \cup {Completion(id)}
  /\ UNCHANGED <<askedVars, port, lock, file, loaded, overtaken, performed, written, restarts>>

Completes(r) ==
  /\ r.op = "complete" /\ lock = None
  /\ IF file[r.id] # None /\ file[r.id].managed
     THEN Becomes(r, [r EXCEPT !.op = "delete"])
     ELSE Finished(r)
  /\ UNCHANGED <<askedVars, port, lock, file, loaded, overtaken, performed, written, restarts>>

(* Home Assistant dies and comes back: what it was doing is lost, the file *)
(* was written atomically, and all of it is loaded.                        *)
Restart ==
  /\ restarts < MaxRestarts
  /\ restarts' = restarts + 1
  /\ requests' = {} /\ lock' = None
  /\ loaded' = file /\ overtaken' = {}
  /\ UNCHANGED <<askedVars, port, file, performed, written>>

-----------------------------------------------------------------------------
Router(t) ==
  \/ Step(t) \/ Ends(t) \/ Execute(t) \/ ListAndWrite(t) \/ ReadAndChange(t)
Starts(t) == Command(t) \/ Create(t) \/ Plan(t) \/ Api(t)
TimesOut(t) == SkillsTimesOut(t) \/ CallTimesOut(t) \/ StateRaises(t) \/ RequestTimesOut(t)
Home(r) ==
  \/ Invoke(r) \/ Read(r) \/ Write(r) \/ Reload(r) \/ Loads(r)
  \/ Delete(r) \/ Completes(r)

Next ==
  \/ \E t \in Turns : Starts(t) \/ Router(t) \/ TimesOut(t)
  \/ \E r \in requests : Home(r) \/ Invalid(r) \/ NeverArrives(r)
  \/ \E id \in Ids : Fires(id)
  \/ Restart

Spec == Init /\ [][Next]_vars

-----------------------------------------------------------------------------
(* Properties                                                              *)

(* What is told is what was done: an execution told as done acted on the   *)
(* targets it reports, and a creation or an update was written; one that   *)
(* was refused, or that asks first, does nothing, not even later - though  *)
(* each of its clients may have given up before the one below it.          *)
ToldAsDone ==
  \A t \in Turns :
    /\ turn[t].told = "done" =>
         /\ turn[t].kind \in {"command", "plan"} =>
              run[t].done # {} /\ run[t].done \subseteq performed[t]
         /\ turn[t].kind \in {"create", "update"} => t \in written
    /\ turn[t].told \in {"refused", "asked"} =>
         /\ performed[t] = {} /\ t \notin written
         /\ \A r \in requests : r.by # t

(* Home Assistant runs the automations that are in its file, but for those *)
(* it is still to load: no write, deletion, completion of a one-shot or    *)
(* restart leaves one running that was deleted, or one idle that was       *)
(* written.  The code promises this of an automation only while no change  *)
(* of it overtakes its reload: _reload runs after the lock is released, so *)
(* a deletion in the midst of it is undone in what Home Assistant runs,    *)
(* until the next restart.                                                 *)
LoadedIsTheFile ==
  \A id \in Ids \ overtaken :
    (\A r \in requests : ~(r.at \in {"reload", "loading"} /\ r.id = id)) =>
      loaded[id] = file[id]

(* The file is rewritten as a whole, and yet a change is of the automation *)
(* that is meant: the changes of others, made meanwhile, are kept, and     *)
(* what a user wrote is never touched.                                     *)
OthersAreKept ==
  [][\A id \in Ids :
       file'[id] # file[id] =>
         /\ \E r \in requests : r.id = id /\ r.at = "holds"
         /\ file[id] # None => file[id].managed]_vars

(* Whoever holds the backend's lock is still at work, and alone: a request *)
(* that nobody awaits any more, one that finds nothing to delete and one   *)
(* that Home Assistant lost leave it released, and the rest goes on.       *)
LockIsHeld ==
  /\ lock # None => lock \in requests
  /\ \A r \in requests : r.at = "holds" => r = lock
=============================================================================
