--------------------------- MODULE SemanticMemory ---------------------------
(***************************************************************************)
(* What a user asks the house to remember, replace and forget.  The        *)
(* Router's MemorySkillGateway finds the memory that is meant and sends a  *)
(* mutation, under a key of its request, to the Memory service; its        *)
(* MemoryClient sends it again when the answer does not come.  Memory runs *)
(* each call in a thread of its own, in transactions of one SQLite         *)
(* database, and computes the embedding between two of them.               *)
(*                                                                         *)
(* A turn is what one user wants: at most one mutation, and so one key.    *)
(* The Admin's calls are turns whose target was picked from a list.  A     *)
(* memory is its place in the order of creation: ids are not used again.   *)
(* A content stands for all texts with its hash.  A transaction that is    *)
(* begun IMMEDIATE is one step: it sees and does everything at once.       *)
(***************************************************************************)
EXTENDS Naturals, Sequences, FiniteSets

CONSTANTS
  MaxTurns,     \* bound: things wanted of the memory
  MaxBefore,    \* bound: memories made before
  Owners,       \* the users whose memories these are
  Contents,     \* what can be remembered, up to normalize_content
  MaxMemories,  \* bound: memories made
  MaxFaults,    \* bound: restarts of the service, and attempts without an answer
  None          \* Python's None

Turns == 1 .. MaxTurns
Attempts == 1 .. 2
Answers == {"ok", "not_found", "conflict", "unavailable", "error"}

ASSUME SemanticMemoryAssumption ==
  /\ {MaxTurns, MaxBefore, MaxMemories, MaxFaults} \subseteq Nat
  /\ MaxBefore <= MaxMemories
  /\ None \notin Owners \cup Contents \cup Nat \cup Answers \cup {"deleted"}
  /\ None \notin Turns \X Attempts

VARIABLES
  memories, \* the rows of semantic_memories, and of semantic_tombstones
  results,  \* the rows of idempotency_results, by the turn of the key
  locked,   \* the call that keeps its transaction open, or None
  call,     \* what each attempt of a turn is doing in the service
  turn,     \* the turns, in the Router
  effects,  \* history: transactions that changed a memory, by turn
  faults    \* bound on faults

databaseVars == <<memories, results, effects>>
vars == <<databaseVars, locked, call, turn, faults>>

Memory(new, supersedes) ==
  [state |-> "ACTIVE", content |-> new.content, owner |-> new.owner,
   supersedes |-> supersedes, by |-> None]
Tombstone ==
  [state |-> "DELETED", content |-> None, owner |-> None, supersedes |-> None, by |-> None]
NoTurn ==
  [phase |-> "idle", op |-> None, user |-> None, new |-> None,
   candidates |-> {}, target |-> None, attempt |-> 1, told |-> None]

Ids == 1 .. Len(memories)

TypeOK ==
  /\ memories \in Seq([state : {"ACTIVE", "SUPERSEDED", "DELETED"},
                       content : Contents \cup {None}, owner : Owners \cup {None},
                       supersedes : Ids \cup {None}, by : Ids \cup {None}])
  /\ Len(memories) <= MaxMemories
  /\ \A t \in Turns : results[t] \in Contents \cup {None, "deleted"}
  /\ locked \in (Turns \X Attempts) \cup {None}
  /\ \A t \in Turns, a \in Attempts :
       call[t][a] \in {"none", "arrived", "looking", "embedding", "writing", "confirming",
                       "nested"} \cup Answers
  /\ \A t \in Turns :
       /\ turn[t].phase \in {"idle", "searching", "pending", "calling", "told"}
       /\ turn[t].candidates \subseteq Ids
       /\ turn[t].told \in Answers \cup {None}
  /\ effects \in [Turns -> 0 .. 2]
  /\ faults \in 0 .. MaxFaults

New(user) == {[owner |-> user, content |-> content] : content \in Contents}

(* Some were remembered before, each once.                                 *)
Init ==
  /\ \E n \in 0 .. MaxBefore :
       memories \in [1 .. n -> {Memory(new, None) : new \in UNION {New(user) : user \in Owners}}]
  /\ \A m, n \in Ids : memories[m] = memories[n] => m = n
  /\ results = [t \in Turns |-> None]
  /\ locked = None
  /\ call = [t \in Turns |-> [a \in Attempts |-> "none"]]
  /\ turn = [t \in Turns |-> NoTurn]
  /\ effects = [t \in Turns |-> 0]
  /\ faults = 0

-----------------------------------------------------------------------------
(* MemorySkillGateway: execute                                             *)

(* A call, with what it creates and with its target; and a decision.       *)
Calls(t, op, new, m) ==
  /\ turn' = [turn EXCEPT ![t] =
       [NoTurn EXCEPT !.phase = "calling", !.op = op, !.new = new, !.target = m]]
  /\ call' = [call EXCEPT ![t][1] = "arrived"]
(* An answer is read, and the decision told.                               *)
Read(c) == IF c \in Answers THEN "none" ELSE c
Tells(t, answer) ==
  /\ turn' = [turn EXCEPT ![t].phase = "told", ![t].told = answer]
  /\ call' = [call EXCEPT ![t] = [a \in Attempts |-> Read(call[t][a])]]

Remember(t, new) ==
  /\ Calls(t, "create", new, None)
  /\ UNCHANGED <<databaseVars, locked, faults>>

LookFor(t, op, user, new) ==
  /\ turn' = [turn EXCEPT ![t] =
       [NoTurn EXCEPT !.phase = "searching", !.op = op, !.user = user, !.new = new]]
  /\ UNCHANGED <<databaseVars, locked, call, faults>>

(* _search: of the user's active memories, those near enough whose words   *)
(* the query is made of.  The service reads them at one time; the gateway  *)
(* uses them later.                                                        *)
Searchable(user) == {m \in Ids : memories[m].state = "ACTIVE" /\ memories[m].owner = user}

Search(t) ==
  /\ turn[t].phase = "searching"
  /\ \/ Tells(t, "unavailable")
     \/ \E found \in SUBSET Searchable(turn[t].user) :
          \/ found = {} /\ Tells(t, "not_found")
          \/ \E m \in found : found = {m} /\ Calls(t, turn[t].op, turn[t].new, m)
          \/ /\ Cardinality(found) > 1                     \* needs clarification
             /\ turn' = [turn EXCEPT ![t].phase = "pending", ![t].candidates = found]
             /\ UNCHANGED call
  /\ UNCHANGED <<databaseVars, locked, faults>>

(* A later request of the session selects a candidate.  One that selects   *)
(* none asks again.                                                        *)
Select(t) ==
  /\ turn[t].phase = "pending"
  /\ \E m \in turn[t].candidates : Calls(t, turn[t].op, turn[t].new, m)
  /\ UNCHANGED <<databaseVars, locked, faults>>

(* The Admin picks from its list.  Its replacement may be of the family,   *)
(* which is owned by None.                                                 *)
Administer(t, op, new, m) ==
  /\ Calls(t, op, new, m)
  /\ UNCHANGED <<databaseVars, locked, faults>>

-----------------------------------------------------------------------------
(* MemoryClient: _request and json                                         *)

(* An attempt ends without an answer, or with one that says to try again.  *)
Again(t) ==
  \/ /\ turn[t].attempt = 1
     /\ turn' = [turn EXCEPT ![t].attempt = 2]
     /\ call' = [call EXCEPT ![t][1] = Read(@), ![t][2] = "arrived"]
  \/ /\ turn[t].attempt = 2
     /\ Tells(t, "unavailable")

(* The time-out, or a connection lost before or after the service has      *)
(* done its work.  What was sent may still arrive.                         *)
Fault == faults < MaxFaults /\ faults' = faults + 1
TimesOut(t) ==
  /\ turn[t].phase = "calling"
  /\ \/ Fault
     \/ call[t][turn[t].attempt] = "none" /\ UNCHANGED faults
  /\ Again(t)
  /\ UNCHANGED <<databaseVars, locked>>

Receive(t) ==
  LET answer == call[t][turn[t].attempt]
  IN
  /\ turn[t].phase = "calling"
  /\ answer \in Answers
  /\ \/ answer = "unavailable" /\ Again(t)
     \/ answer # "unavailable" /\ Tells(t, answer)
  /\ UNCHANGED <<databaseVars, locked, faults>>

-----------------------------------------------------------------------------
(* SemanticMemoryService                                                   *)

(* The next step of a call, or its answer.  Nobody waits for the answer of *)
(* an attempt that was given up.                                           *)
Awaited(t, a) == turn[t].phase = "calling" /\ turn[t].attempt = a
Goes(t, a, pc) ==
  call' = [call EXCEPT ![t][a] = IF pc \in Answers /\ ~Awaited(t, a) THEN "none" ELSE pc]

Replay(t) == results[t] # None
Duplicate(t) ==
  {m \in Searchable(turn[t].new.owner) : memories[m].content = turn[t].new.content}
Free == locked = None

(* Reads outside of a transaction.  create_idempotent reads for a replay   *)
(* and then for a duplicate: what comes between them and is the call's own *)
(* is a replay in the transaction that follows either way.                 *)
ReadCreate(t, a) ==
  /\ call[t][a] = "arrived" /\ turn[t].op = "create"
  /\ \/ Replay(t) /\ Goes(t, a, "ok")
     \/ ~Replay(t) /\ Duplicate(t) # {} /\ Goes(t, a, "confirming")
     \/ ~Replay(t) /\ Duplicate(t) = {} /\ Goes(t, a, "embedding")
  /\ UNCHANGED <<databaseVars, locked, turn, faults>>

ReadReplay(t, a) ==
  /\ call[t][a] = "arrived" /\ turn[t].op = "supersede"
  /\ Goes(t, a, IF Replay(t) THEN "ok" ELSE "looking")
  /\ UNCHANGED <<databaseVars, locked, turn, faults>>

(* The answer to a memory that is not there, or not active.                *)
Missing(m) == memories[m].state = "DELETED"
Refusal(m) == IF Missing(m) THEN "not_found" ELSE "conflict"
Replaceable(t) ==
  /\ memories[turn[t].target].state = "ACTIVE"
  /\ memories[turn[t].target].owner = turn[t].new.owner

ReadTarget(t, a) ==
  /\ call[t][a] = "looking"
  /\ \/ Replaceable(t) /\ Goes(t, a, "embedding")
     \/ ~Replaceable(t) /\ Goes(t, a, Refusal(turn[t].target))
  /\ UNCHANGED <<databaseVars, locked, turn, faults>>

(* embed, outside of a transaction.                                        *)
Embed(t, a) ==
  /\ call[t][a] = "embedding"
  /\ Goes(t, a, "writing") \/ Goes(t, a, "unavailable")
  /\ UNCHANGED <<databaseVars, locked, turn, faults>>

(* _record_idempotency, and the answer that was recorded or is replayed.   *)
Commit_Unrecorded(t, a, result) ==
  /\ UNCHANGED results
  /\ effects' = [effects EXCEPT ![t] = @ + 1]
  /\ Goes(t, a, "ok")
Commit(t, a, result) ==
  /\ results[t] = None
  /\ results' = [results EXCEPT ![t] = result]
  /\ effects' = [effects EXCEPT ![t] = @ + 1]
  /\ Goes(t, a, "ok")
Replays(t, a) ==
  /\ Replay(t)
  /\ Goes(t, a, "ok")
  /\ UNCHANGED databaseVars
Refuses(t, a, answer) ==
  /\ ~Replay(t)
  /\ Goes(t, a, answer)
  /\ UNCHANGED databaseVars

(* The INSERT of create_idempotent.  A duplicate that came in between is   *)
(* a RuntimeError, which the API reports as unavailable.                   *)
Insert_Unchecked(t, a) ==
  /\ call[t][a] = "writing" /\ turn[t].op = "create" /\ Free
  /\ \/ Replays(t, a)
     \/ /\ ~Replay(t) /\ Len(memories) < MaxMemories
        /\ memories' = Append(memories, Memory(turn[t].new, None))
        /\ Commit(t, a, turn[t].new.content)
  /\ UNCHANGED <<locked, turn, faults>>
Insert(t, a) ==
  /\ call[t][a] = "writing" /\ turn[t].op = "create" /\ Free
  /\ \/ Replays(t, a)
     \/ Duplicate(t) # {} /\ Refuses(t, a, "unavailable")
     \/ /\ ~Replay(t) /\ Duplicate(t) = {} /\ Len(memories) < MaxMemories
        /\ memories' = Append(memories, Memory(turn[t].new, None))
        /\ Commit(t, a, turn[t].new.content)
  /\ UNCHANGED <<locked, turn, faults>>

(* Its other transaction confirms the duplicate.  When the duplicate is    *)
(* gone it calls itself, with the transaction still open.                  *)
ConfirmDuplicate(t, a) ==
  /\ call[t][a] = "confirming" /\ Free
  /\ \/ Replays(t, a) /\ UNCHANGED locked
     \/ /\ ~Replay(t) /\ Duplicate(t) # {}
        /\ Commit(t, a, turn[t].new.content)
        /\ UNCHANGED <<memories, locked>>
     \/ /\ Duplicate(t) = {}
        /\ Refuses(t, a, "nested")
        /\ locked' = <<t, a>>
  /\ UNCHANGED <<turn, faults>>

(* The call inside has nothing to replay and no duplicate either.  Its     *)
(* embedding fails, or it waits for the lock of the call it is in, which   *)
(* SQLite ends after five seconds.                                         *)
NestedFails_Keeps(t, a) ==
  /\ call[t][a] = "nested"
  /\ Goes(t, a, "unavailable") \/ Goes(t, a, "error")
  /\ UNCHANGED <<databaseVars, locked, turn, faults>>
NestedFails(t, a) ==
  /\ call[t][a] = "nested"
  /\ locked' = None
  /\ Goes(t, a, "unavailable") \/ Goes(t, a, "error")
  /\ UNCHANGED <<databaseVars, turn, faults>>

Supersede_Unchecked(t, a) ==
  LET old == turn[t].target
      new == Len(memories) + 1
  IN
  /\ call[t][a] = "writing" /\ turn[t].op = "supersede" /\ Free
  /\ \/ Replays(t, a)
     \/ Missing(old) /\ Refuses(t, a, Refusal(old))
     \/ /\ ~Replay(t) /\ ~Missing(old) /\ new <= MaxMemories
        /\ memories' = [Append(memories, Memory(turn[t].new, old))
                          EXCEPT ![old] = [@ EXCEPT !.state = "SUPERSEDED", !.by = new]]
        /\ Commit(t, a, turn[t].new.content)
  /\ UNCHANGED <<locked, turn, faults>>
Supersede(t, a) ==
  LET old == turn[t].target
      new == Len(memories) + 1
  IN
  /\ call[t][a] = "writing" /\ turn[t].op = "supersede" /\ Free
  /\ \/ Replays(t, a)
     \/ memories[old].state # "ACTIVE" /\ Refuses(t, a, Refusal(old))
     \/ /\ ~Replay(t) /\ memories[old].state = "ACTIVE" /\ new <= MaxMemories
        /\ memories' = [Append(memories, Memory(turn[t].new, old))
                          EXCEPT ![old] = [@ EXCEPT !.state = "SUPERSEDED", !.by = new]]
        /\ Commit(t, a, turn[t].new.content)
  /\ UNCHANGED <<locked, turn, faults>>

Confirm(t, a) ==
  /\ call[t][a] = "arrived" /\ turn[t].op = "confirm" /\ Free
  /\ \/ Replays(t, a)
     \/ memories[turn[t].target].state # "ACTIVE" /\ Refuses(t, a, Refusal(turn[t].target))
     \/ /\ ~Replay(t) /\ memories[turn[t].target].state = "ACTIVE"
        /\ Commit(t, a, memories[turn[t].target].content)
        /\ UNCHANGED memories
  /\ UNCHANGED <<locked, turn, faults>>

Delete(t, a) ==
  /\ call[t][a] = "arrived" /\ turn[t].op = "delete" /\ Free
  /\ \/ Replays(t, a)
     \/ Missing(turn[t].target) /\ Refuses(t, a, "not_found")
     \/ /\ ~Replay(t) /\ ~Missing(turn[t].target)
        /\ memories' = [memories EXCEPT ![turn[t].target] = Tombstone]
        /\ Commit(t, a, "deleted")
  /\ UNCHANGED <<locked, turn, faults>>

(* BEGIN IMMEDIATE of another call gives up waiting.                       *)
Writes(t, a) ==
  \/ call[t][a] \in {"writing", "confirming"}
  \/ call[t][a] = "arrived" /\ turn[t].op \in {"confirm", "delete"}
Busy(t, a) ==
  /\ Writes(t, a) /\ ~Free
  /\ Goes(t, a, "error")
  /\ UNCHANGED <<databaseVars, locked, turn, faults>>

(* The service restarts: what was not committed is undone.                 *)
Restart ==
  /\ Fault
  /\ locked' = None
  /\ call' = [t \in Turns |-> [a \in Attempts |-> "none"]]
  /\ UNCHANGED <<databaseVars, turn>>

-----------------------------------------------------------------------------
Ask(t) ==
  /\ turn[t].phase = "idle"
  /\ \/ \E user \in Owners :
          \/ LookFor(t, "delete", user, None)
          \/ \E new \in New(user) : Remember(t, new) \/ LookFor(t, "supersede", user, new)
     \/ \E m \in Ids :
          \/ \E op \in {"confirm", "delete"} : Administer(t, op, None, m)
          \/ \E user \in Owners \cup {None} :
               \E new \in New(user) : Administer(t, "supersede", new, m)
Client(t) == Search(t) \/ Receive(t) \/ TimesOut(t)
Serve(t, a) ==
  \/ ReadCreate(t, a) \/ ReadReplay(t, a) \/ ReadTarget(t, a) \/ Embed(t, a)
  \/ Insert(t, a) \/ ConfirmDuplicate(t, a) \/ NestedFails(t, a)
  \/ Supersede(t, a) \/ Confirm(t, a) \/ Delete(t, a) \/ Busy(t, a)

Next ==
  \/ \E t \in Turns : Ask(t) \/ Select(t) \/ Client(t)
  \/ \E t \in Turns, a \in Attempts : Serve(t, a)
  \/ Restart

(* Threads run and time-outs come.  Nobody has to ask, or to select.       *)
Fairness ==
  /\ \A t \in Turns : WF_vars(Client(t))
  /\ \A t \in Turns, a \in Attempts : WF_vars(Serve(t, a))

Spec == Init /\ [][Next]_vars /\ Fairness

-----------------------------------------------------------------------------
(* However often it is sent, what a turn asks for is done once; a turn that *)
(* was told "remembered" or "forgotten" has its effect in the database,    *)
(* committed; and one that was told of a confirmation or a deletion that   *)
(* there is no such memory, or a conflict, does not have it and never      *)
(* will, not even from an attempt that is still running.                   *)
DoneAsTold ==
  \A t \in Turns :
    /\ effects[t] <= 1
    /\ turn[t].told = "ok" => effects[t] = 1
    /\ turn[t].told \in {"not_found", "conflict"} /\ turn[t].op # "supersede"
       => effects[t] = 0

(* A superseded memory names the one that took its place, which names it,  *)
(* unless it was deleted; an active one was never replaced.  So two users, *)
(* or two attempts, never both replace a memory.                           *)
LinksBothWays ==
  \A m, n \in Ids :
    /\ memories[m].supersedes = n /\ memories[n].state # "DELETED"
       => memories[n].state = "SUPERSEDED" /\ memories[n].by = m
    /\ memories[m].state = "SUPERSEDED" /\ memories[m].by = n
       => memories[n].state = "DELETED" \/ memories[n].supersedes = m

(* What is remembered twice is kept once: of two active memories with the  *)
(* same content and owner, one at least came of a replacement, which looks *)
(* for no duplicate.                                                       *)
RememberedOnce ==
  \A m, n \in Ids :
    /\ m # n /\ memories[m].state = "ACTIVE" /\ memories[n].state = "ACTIVE"
    /\ memories[m].content = memories[n].content /\ memories[m].owner = memories[n].owner
    => memories[m].supersedes # None \/ memories[n].supersedes # None

(* The create that calls itself with its transaction open holds the lock   *)
(* against itself and against everyone: it is released.                    *)
LockIsReleased == locked # None ~> locked = None
=============================================================================
