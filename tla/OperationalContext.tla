------------------------- MODULE OperationalContext -------------------------
(***************************************************************************)
(* The other half of the Memory service: the rules of the house (aliases,  *)
(* mappings, defaults and shortcuts).  The Admin writes them through the   *)
(* Router, under an idempotency key, and the Router's MemoryClient sends a *)
(* call again once when no answer comes.  Every turn reads the rules of    *)
(* its text before it asks a skill: one SELECT for each type of rule, each *)
(* of them in a transaction of its own.                                    *)
(*                                                                         *)
(* A key of a rule is looked up as it is normalized and rules of different *)
(* keys never meet, so the rules here are those of one key.  A write is    *)
(* one step: it is one transaction that is begun IMMEDIATE.                *)
(***************************************************************************)
EXTENDS Naturals, Sequences, SequencesExt

CONSTANTS
  MaxCommands, \* bound: writes of the Admin, numbered as they are made
  Lookups,    \* turns that resolve their context
  TypeOrder,  \* the types of rule, in the order they are looked up
  People,     \* users that rules and turns belong to
  Values,     \* what a rule says
  Bodies,     \* bound: the rules that are written
  MaxFaults,  \* bound: attempts the Router gets no answer to
  None        \* Python's None

VARIABLES
  entries,   \* the rows of operational_entries, in order of creation
  results,   \* the rows of idempotency_results: what each key was used for
  command,   \* each write, at the Router
  call,      \* what each attempt of a write is doing in the service
  lookup,    \* each resolution, in the service
  applied,   \* history: the operations that changed the rules, by their key
  silences   \* attempts that got no answer

RulesAssumption ==
  /\ MaxCommands \in Nat
  /\ None \notin People
  /\ None \notin [kind : {"create", "update", "delete"}, id : Nat \cup {None},
                 body : Bodies \cup {None}]
  /\ \A i, j \in DOMAIN TypeOrder : TypeOrder[i] = TypeOrder[j] => i = j
  /\ TypeOrder \in Seq(Range(TypeOrder))

opVars == <<entries, results, command, call, lookup, applied, silences>>

Commands == 1 .. MaxCommands
Attempts == 1 .. 2

(* The fields of a create and of an update: a rule has an owner exactly    *)
(* when its scope is USER.                                                 *)
Valid ==
  {b \in [type : Range(TypeOrder), scope : {"USER", "FAMILY", "SYSTEM"},
          owner : People \cup {None}, value : Values, enabled : BOOLEAN] :
     (b.scope = "USER") <=> (b.owner # None)}

Ids == {entries[i].id : i \in DOMAIN entries}

(* What an Admin can ask for; the rules it names were in a list it saw.    *)
Operations ==
  [kind : {"create"}, id : {None}, body : Bodies \cap Valid]
    \cup [kind : {"update"}, id : Ids, body : Bodies \cap Valid]
    \cup [kind : {"delete"}, id : Ids, body : {None}]

Idle == [phase |-> "idle", key |-> None, op |-> None, attempt |-> 1, told |-> None]
NoLookup == [phase |-> "idle", asker |-> None, left |-> <<>>, found |-> {}, conflicts |-> {}]

OpInit ==
  /\ entries = <<>>
  /\ results = [k \in Commands |-> None]
  /\ command = [c \in Commands |-> Idle]
  /\ call = [c \in Commands |-> [n \in Attempts |-> "none"]]
  /\ lookup = [r \in Lookups |-> NoLookup]
  /\ applied = [k \in Commands |-> <<>>]
  /\ silences = 0

-----------------------------------------------------------------------------
(* The Admin's writes, at the Router.                                      *)

(* A form of the Admin makes a key of its own, which is the number of its  *)
(* write here; another client of the API may use one again.                *)
Submit(c) ==
  /\ command[c].phase = "idle"
  /\ \A d \in 1 .. c - 1 : command[d].phase # "idle"
  /\ \E k \in 1 .. c, op \in Operations :
       command' = [command EXCEPT ![c] =
         [Idle EXCEPT !.phase = "waiting", !.key = k, !.op = op]]
  /\ call' = [call EXCEPT ![c][1] = "sent"]
  /\ UNCHANGED <<entries, results, lookup, applied, silences>>

Told(c, answer) ==
  command' = [command EXCEPT ![c].phase = "told", ![c].told = answer]

Answered(c) ==
  LET answer == call[c][command[c].attempt] IN
  /\ command[c].phase = "waiting"
  /\ answer \notin {"none", "sent"}
  /\ Told(c, answer)
  /\ UNCHANGED <<entries, results, call, lookup, applied, silences>>

(* A TransportError, the time-out included: the attempt may still be       *)
(* running, or never have arrived.  It is tried again once, as it has a    *)
(* key.                                                                    *)
Unanswered(c) ==
  /\ command[c].phase = "waiting"
  /\ silences < MaxFaults
  /\ silences' = silences + 1
  /\ IF command[c].attempt = 1
       THEN /\ command' = [command EXCEPT ![c].attempt = 2]
            /\ call' = [call EXCEPT ![c][2] = "sent"]
       ELSE Told(c, "unavailable") /\ UNCHANGED call
  /\ UNCHANGED <<entries, results, lookup, applied>>

-----------------------------------------------------------------------------
(* The writes, in the service.                                             *)

Row(id, body, revision) ==
  [id |-> id, revision |-> revision, type |-> body.type, scope |-> body.scope,
   owner |-> body.owner, value |-> body.value, enabled |-> body.enabled]

Position(id) == CHOOSE i \in DOMAIN entries : entries[i].id = id

Created(c, op) == entries' = Append(entries, Row(c, op.body, 1))

(* The update replaces every field; the revision is the row's own, read in *)
(* the same transaction, so it guards against nothing.                     *)
Updated(op) ==
  LET i == Position(op.id) IN
  entries' = [entries EXCEPT ![i] = Row(op.id, op.body, @.revision + 1)]

Deleted(op) == entries' = RemoveAt(entries, Position(op.id))

Changed(c, op) ==
  CASE op.kind = "create" -> Created(c, op)
    [] op.kind = "update" -> Updated(op)
    [] op.kind = "delete" -> Deleted(op)

Finish(c, n, answer) == call' = [call EXCEPT ![c][n] = answer]

(* The answer of a key that was used: the same operation's is given again, *)
(* another's is refused.                                                   *)
Replay(c, n) ==
  LET w == command[c] IN
  /\ results[w.key] # None
  /\ Finish(c, n, IF results[w.key] = w.op THEN "ok" ELSE "conflict")
  /\ UNCHANGED <<entries, results, applied>>

Missing(c, n) ==
  LET w == command[c] IN
  /\ results[w.key] = None
  /\ w.op.kind # "create" /\ w.op.id \notin Ids
  /\ Finish(c, n, "not_found")
  /\ UNCHANGED <<entries, results, applied>>

Write_Unrecorded(c, n) ==
  LET w == command[c] IN
  /\ results[w.key] = None
  /\ w.op.kind = "create" \/ w.op.id \in Ids
  /\ Changed(c, w.op)
  /\ applied' = [applied EXCEPT ![w.key] = Append(@, w.op)]
  /\ Finish(c, n, "ok")
  /\ UNCHANGED results

(* The write and the row of its key are committed together.                *)
Write(c, n) ==
  LET w == command[c] IN
  /\ results[w.key] = None
  /\ w.op.kind = "create" \/ w.op.id \in Ids
  /\ Changed(c, w.op)
  /\ results' = [results EXCEPT ![w.key] = w.op]
  /\ applied' = [applied EXCEPT ![w.key] = Append(@, w.op)]
  /\ Finish(c, n, "ok")

Run(c, n) ==
  /\ call[c][n] = "sent"
  /\ Replay(c, n) \/ Missing(c, n) \/ Write(c, n)
  /\ UNCHANGED <<command, lookup, silences>>

-----------------------------------------------------------------------------
(* The context of a turn.                                                  *)

(* A guest asks as nobody.                                                 *)
Resolve(r) ==
  /\ lookup[r].phase = "idle"
  /\ \E asker \in People \cup {None} :
       lookup' = [lookup EXCEPT ![r] =
         [phase |-> "reading", asker |-> asker, left |-> TypeOrder, found |-> {},
          conflicts |-> {}]]
  /\ UNCHANGED <<entries, results, command, call, applied, silences>>

(* The rows that the SELECT of a type gives.                               *)
Selected(asker, type) ==
  {i \in DOMAIN entries : LET e == entries[i] IN
     /\ e.type = type /\ e.enabled
     /\ e.scope # "USER" \/ (asker # None /\ e.owner = asker)}

OfScope(rows, scope) == {i \in rows : entries[i].scope = scope}

FirstOf(rows, s1, s2, s3) ==
  IF OfScope(rows, s1) # {} THEN OfScope(rows, s1)
  ELSE IF OfScope(rows, s2) # {} THEN OfScope(rows, s2) ELSE OfScope(rows, s3)

Candidates_Widest(asker, type) == FirstOf(Selected(asker, type), "SYSTEM", "FAMILY", "USER")

(* The rules of the first scope that has one.                              *)
Candidates(asker, type) == FirstOf(Selected(asker, type), "USER", "FAMILY", "SYSTEM")

First(rows) == CHOOSE i \in rows : \A j \in rows : i <= j

(* One lookup: the first candidate, unless they say different things.      *)
LookUp(r) ==
  LET type == Head(lookup[r].left)
      candidates == Candidates(lookup[r].asker, type)
      agree == \A i, j \in candidates : entries[i].value = entries[j].value
      found == IF agree /\ candidates # {} THEN {entries[First(candidates)]} ELSE {}
  IN
  /\ lookup[r].phase = "reading" /\ lookup[r].left # <<>>
  /\ lookup' = [lookup EXCEPT
       ![r].left = Tail(@),
       ![r].found = @ \cup found,
       ![r].conflicts = IF agree THEN @ ELSE @ \cup {type}]
  /\ UNCHANGED <<entries, results, command, call, applied, silences>>

(* A conflict in one lookup refuses the whole answer (409).                *)
Resolved(r) ==
  /\ lookup[r].phase = "reading" /\ lookup[r].left = <<>>
  /\ lookup' = [lookup EXCEPT ![r].phase =
       IF lookup[r].conflicts = {} THEN "success" ELSE "ambiguous"]
  /\ UNCHANGED <<entries, results, command, call, applied, silences>>

-----------------------------------------------------------------------------
OpNext ==
  \/ \E c \in Commands : Submit(c) \/ Answered(c) \/ Unanswered(c)
  \/ \E c \in Commands, n \in Attempts : Run(c, n)
  \/ \E r \in Lookups : Resolve(r) \/ LookUp(r) \/ Resolved(r)

OpSpec == OpInit /\ [][OpNext]_opVars

-----------------------------------------------------------------------------
(* A write that is answered "ok" changed the rules once, however often it  *)
(* was sent and whatever was written between two attempts; one that is     *)
(* refused changed nothing; one without an answer changed them at most     *)
(* once.                                                                   *)
ToldIsApplied ==
  \A c \in Commands :
    LET w == command[c] IN w.phase = "told" =>
      CASE w.told = "ok" -> applied[w.key] = <<w.op>>
        [] w.told \in {"not_found", "conflict"} -> w.op \notin Range(applied[w.key])
        [] w.told = "unavailable" -> Len(applied[w.key]) <= 1

(* Who may see a rule, and how far a rule is from the asker.               *)
Sees(asker, e) == e.owner \in {None, asker}
Distance(e) == IF e.scope = "USER" THEN 0 ELSE IF e.scope = "FAMILY" THEN 1 ELSE 2
Nearest(asker, type) ==
  LET mine == {e \in Range(entries) : e.type = type /\ e.enabled /\ Sees(asker, e)}
  IN {e \in mine : \A f \in mine : Distance(e) <= Distance(f)}

(* What a turn finds of a type is the nearest rule that is enabled for it  *)
(* when it looks: never another user's, never the house's in place of its  *)
(* own, never one of two that disagree; and it has no rule exactly when    *)
(* none is there or the nearest disagree.                                  *)
FindsTheNearest ==
  [][\A r \in Lookups :
       lookup'[r].left # lookup[r].left /\ lookup[r].phase = "reading" =>
         LET nearest == Nearest(lookup[r].asker, Head(lookup[r].left))
             new == lookup'[r].found \ lookup[r].found
         IN /\ new \subseteq nearest
            /\ new = {} <=> nearest = {} \/ \E e, f \in nearest : e.value # f.value]_lookup
=============================================================================
